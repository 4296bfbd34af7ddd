--------------------------- MODULE FirestoreClient ---------------------------
(***************************************************************************)
(* The Firestore client every page of the app writes through, and the      *)
(* server behind it.  A device applies a write to its own view at once,    *)
(* keeps it in a persistent queue, and streams the queue to the server in  *)
(* order; the server answers each write; snapshots of the server's state   *)
(* reach the device independently of those answers.                        *)
(*                                                                         *)
(* A document is one value (the field the app computes with); NoDoc stands *)
(* for a document that does not exist.  The client is the C++ core vendored *)
(* under ios/Pods_old/FirebaseFirestoreInternal; the server is external.   *)
(***************************************************************************)
EXTENDS Integers, Sequences

CONSTANTS Devices,      \* the running copies of the app
          NoDoc         \* "there is no such document"

VARIABLES db,           \* the server's documents: key -> value or NoDoc
          cache,        \* cache[d]: the server documents device d knows of
          queue,        \* queue[d]: the writes of d not yet answered
          sent          \* sent[d]: how far the server got with queue[d]

store == <<db, cache, queue, sent>>

-----------------------------------------------------------------------------
(* Mutations and what they do to one document.                             *)

Set(k, v)    == [op |-> "set",    key |-> k, data |-> v]
Update(k, v) == [op |-> "update", key |-> k, data |-> v]
Delete(k)    == [op |-> "delete", key |-> k, data |-> NoDoc]

(* Mutant of IsValidFor: an update of a missing document goes through.     *)
AlwaysValid(m, old) == TRUE

(* Only an update carries a precondition: the document has to exist.       *)
IsValidFor(m, old) == m.op = "update" => old # NoDoc

(* The document after mutation m, given the document before it.            *)
Result(m, old) == IF IsValidFor(m, old) THEN m.data ELSE old

Apply(m, docs) ==
  [k \in DOMAIN docs |-> IF k = m.key THEN Result(m, docs[k]) ELSE docs[k]]

-----------------------------------------------------------------------------
(* What a queue makes of documents.  The client finds it by applying one   *)
(* batch after the other; View gives the value by the two writes that      *)
(* decide it, the last one that does not depend on the document (a set or  *)
(* a delete) and the last one of all.  It is what a device shows as long   *)
(* as nothing is queued but sets and deletes; module LocalDocuments has    *)
(* the overlays that stand for the queue when there are updates in it.     *)

IsLastOverwrite(q, k, i) ==
  /\ q[i].key = k /\ q[i].op # "update"
  /\ \A j \in i + 1 .. Len(q) : q[j].key = k => q[j].op = "update"

IsLastWrite(q, k, i) ==
  /\ q[i].key = k
  /\ \A j \in i + 1 .. Len(q) : q[j].key # k

Base(docs, q, k) ==
  IF \E i \in 1 .. Len(q) : IsLastOverwrite(q, k, i)
  THEN q[CHOOSE i \in 1 .. Len(q) : IsLastOverwrite(q, k, i)].data
  ELSE docs[k]

View(docs, q) ==
  [k \in DOMAIN docs |->
     IF Base(docs, q, k) # NoDoc /\ \E i \in 1 .. Len(q) : IsLastWrite(q, k, i)
     THEN q[CHOOSE i \in 1 .. Len(q) : IsLastWrite(q, k, i)].data
     ELSE Base(docs, q, k)]

(* The queue replayed over the documents, one write after the other.       *)
Replay(docs, q) ==
  LET r[n \in 0 .. Len(q)] == IF n = 0 THEN docs ELSE Apply(q[n], r[n - 1])
  IN r[Len(q)]

-----------------------------------------------------------------------------
(* The write pipeline.  applied: how many writes at the head of the queue  *)
(* the server has applied and not yet answered to the device; seen: how    *)
(* many of those the device's last snapshot already contains; refused: the *)
(* server refused the next one, so that the stream stops there.            *)

Idle == [applied |-> 0, seen |-> 0, refused |-> FALSE]

ClientInit(docs, known) ==
  /\ db = docs
  /\ cache = [d \in Devices |-> known]
  /\ queue = [d \in Devices |-> << >>]
  /\ sent = [d \in Devices |-> Idle]

(* One write call of the app after another, each its own batch.            *)
WriteLocally(d, writes) ==
  /\ queue' = [queue EXCEPT ![d] = @ \o writes]
  /\ UNCHANGED <<db, cache, sent>>

NextWrite(d) == queue[d][sent[d].applied + 1]

(* The server takes the next write of d's stream and applies it.           *)
Commit(d) ==
  /\ sent[d].applied < Len(queue[d])
  /\ ~sent[d].refused
  /\ IsValidFor(NextWrite(d), db[NextWrite(d).key])
  /\ db' = Apply(NextWrite(d), db)
  /\ sent' = [sent EXCEPT ![d].applied = @ + 1]
  /\ UNCHANGED <<cache, queue>>

(* The server finds the next write's precondition violated.                *)
Refuse(d) ==
  /\ sent[d].applied < Len(queue[d])
  /\ ~sent[d].refused
  /\ ~IsValidFor(NextWrite(d), db[NextWrite(d).key])
  /\ sent' = [sent EXCEPT ![d].refused = TRUE]
  /\ UNCHANGED <<db, cache, queue>>

(* Mutant of Answered: the snapshot is still credited with the write.      *)
AnsweredButSeen(s) == [applied |-> s.applied - 1, seen |-> s.seen, refused |-> s.refused]

(* The pipeline after its oldest write is answered.                        *)
Answered(s) == [applied |-> s.applied - 1,
                seen    |-> IF s.seen > 0 THEN s.seen - 1 ELSE 0,
                refused |-> s.refused]

(* Mutant of HandleSuccessfulWrite: the acknowledged batch leaves the      *)
(* queue, but its result is not put into the cache.                        *)
AcknowledgeWithoutResult(d) ==
  /\ sent[d].applied > 0
  /\ queue' = [queue EXCEPT ![d] = Tail(@)]
  /\ sent' = [sent EXCEPT ![d] = Answered(@)]
  /\ UNCHANGED <<db, cache>>

(* The answer to the oldest write arrives: it leaves the queue, and its    *)
(* result enters the cache unless a snapshot has brought a newer version.  *)
HandleSuccessfulWrite(d) ==
  /\ sent[d].applied > 0
  /\ queue' = [queue EXCEPT ![d] = Tail(@)]
  /\ cache' = [cache EXCEPT ![d] =
                 IF sent[d].seen > 0 THEN @ ELSE Apply(Head(queue[d]), @)]
  /\ sent' = [sent EXCEPT ![d] = Answered(@)]
  /\ UNCHANGED db

(* Mutant of HandleRejectedWrite: the write stays at the head of the queue *)
(* and is sent again.                                                      *)
RetryRejectedWrite(d) ==
  /\ sent[d].refused /\ sent[d].applied = 0
  /\ sent' = [sent EXCEPT ![d].refused = FALSE]
  /\ UNCHANGED <<db, cache, queue>>

(* The refusal arrives, after the answers before it: the write is dropped. *)
HandleRejectedWrite(d) ==
  /\ sent[d].refused /\ sent[d].applied = 0
  /\ queue' = [queue EXCEPT ![d] = Tail(@)]
  /\ sent' = [sent EXCEPT ![d].refused = FALSE]
  /\ UNCHANGED <<db, cache>>

(* Mutant of ApplyRemoteEvent: documents not known so far are left out.    *)
ApplyToKnown(d) ==
  /\ cache' = [cache EXCEPT ![d] = [k \in DOMAIN @ |-> IF @[k] = NoDoc THEN NoDoc ELSE db[k]]]
  /\ sent' = [sent EXCEPT ![d].seen = sent[d].applied]
  /\ \/ cache'[d] # cache[d]
     \/ sent'[d] # sent[d]
  /\ UNCHANGED <<db, queue>>

(* A snapshot of the watched documents arrives.                            *)
ApplyRemoteEvent(d) ==
  /\ cache' = [cache EXCEPT ![d] = [k \in DOMAIN @ |-> db[k]]]
  /\ sent' = [sent EXCEPT ![d].seen = sent[d].applied]
  /\ \/ cache'[d] # cache[d]
     \/ sent'[d] # sent[d]
  /\ UNCHANGED <<db, queue>>

(* The write stream breaks before the answers arrive, and the stream token *)
(* is reset: the client sends its whole pipeline again and the server      *)
(* applies again what it had applied.  (When the server recognises the     *)
(* token it answers again instead, which changes nothing here.)            *)
OnWriteStreamClose(d) ==
  /\ sent[d] # Idle
  /\ sent' = [sent EXCEPT ![d] = Idle]
  /\ UNCHANGED <<db, cache, queue>>
=============================================================================
