---------------------------- MODULE LocalDocuments ----------------------------
(***************************************************************************)
(* The documents a device shows.  The client does not replay its queue     *)
(* whenever somebody asks: for every document with queued writes it keeps  *)
(* an overlay on disk, one mutation that stands for all of them, updates   *)
(* it with each write, answer, refusal and snapshot, and tells listeners   *)
(* of the documents that this changed.                                     *)
(*                                                                         *)
(* An overlay of op "update" is a patch without precondition: it makes a   *)
(* document where there is none.                                           *)
(***************************************************************************)
EXTENDS FirestoreClient

VARIABLES overlay,      \* overlay[d][k]: the overlay stored for k
          view          \* view[d][k]: what d's listeners were told of k

documents == <<store, overlay, view>>

(* last: the position in the queue of the last write the overlay holds.    *)
NoOverlay == [op |-> "none", data |-> NoDoc, last |-> 0]

LocalDocument(doc, o) == IF o.op = "none" THEN doc ELSE o.data

GetDocuments(docs, os) == [k \in DOMAIN docs |-> LocalDocument(docs[k], os[k])]

DocumentsInit(docs, known) ==
  /\ ClientInit(docs, known)
  /\ overlay = [d \in Devices |-> [k \in DOMAIN known |-> NoOverlay]]
  /\ view = [d \in Devices |-> known]

(* The listeners hear of the documents ks, or begin anew with a query.     *)
Tell(d, ks) ==
  view' = [view EXCEPT ![d] =
             [k \in DOMAIN @ |-> IF k \in ks THEN LocalDocument(cache'[d][k], overlay'[d][k]) ELSE @[k]]]

Query(d) == view' = [view EXCEPT ![d] = GetDocuments(cache'[d], overlay'[d])]

-----------------------------------------------------------------------------
(* The overlay after write m, the i-th of the queue, over document doc: a  *)
(* void update leaves what was there, and is now the last one it holds.    *)
Written(doc, o, m, i) ==
  IF IsValidFor(m, LocalDocument(doc, o))
  THEN [op |-> IF m.op = "update" /\ o.op = "set" THEN "set" ELSE m.op, data |-> m.data, last |-> i]
  ELSE IF o.op = "none" THEN NoOverlay ELSE [o EXCEPT !.last = i]

KeysOf(writes) == {writes[i].key : i \in 1 .. Len(writes)}

(* Writes to different documents, one batch each.                          *)
SaveWrites(d, writes) ==
  /\ WriteLocally(d, writes)
  /\ overlay' = [overlay EXCEPT ![d] =
       [k \in DOMAIN @ |->
          IF k \in KeysOf(writes)
          THEN LET i == CHOOSE i \in 1 .. Len(writes) : writes[i].key = k
               IN Written(cache[d][k], @[k], writes[i], Len(queue[d]) + i)
          ELSE @[k]]]

IsWritten(q, k) == \E i \in 1 .. Len(q) : IsLastWrite(q, k, i)
IsOverwritten(q, k) == \E i \in 1 .. Len(q) : IsLastOverwrite(q, k, i)

(* RecalculateAndSaveOverlays for k, of which o is stored: without effect  *)
(* of the queue on the document there is nothing to save, and o stays.     *)
Recalculated(docs, q, k, o) ==
  IF IsOverwritten(q, k) \/ (IsWritten(q, k) /\ docs[k] # NoDoc)
  THEN [op   |-> IF ~IsOverwritten(q, k) THEN "update"
                 ELSE IF View(docs, q)[k] = NoDoc THEN "delete" ELSE "set",
        data |-> View(docs, q)[k],
        last |-> CHOOSE i \in 1 .. Len(q) : IsLastWrite(q, k, i)]
  ELSE o

(* RemoveOverlaysForBatchId of the oldest batch, which leaves the queue.   *)
HeadRemoved(o) == IF o.last =< 1 THEN NoOverlay ELSE [o EXCEPT !.last = @ - 1]

AcknowledgeBatch(d) ==
  /\ HandleSuccessfulWrite(d)
  /\ overlay' = [overlay EXCEPT ![d] = [k \in DOMAIN @ |-> HeadRemoved(@[k])]]
  /\ Tell(d, {Head(queue[d]).key})

RejectBatch(d) ==
  /\ HandleRejectedWrite(d)
  /\ overlay' = [overlay EXCEPT ![d] =
       [k \in DOMAIN @ |->
          IF k = Head(queue[d]).key
          THEN Recalculated(cache[d], queue'[d], k, HeadRemoved(@[k]))
          ELSE HeadRemoved(@[k])]]
  /\ Tell(d, {Head(queue[d]).key})

(* Mutant of IsRecalculated: only where there is a patch to recalculate.   *)
IsPatchRecalculated(d, k, docs) ==
  (cache[d][k] = NoDoc) # (docs[k] = NoDoc) /\ overlay[d][k].op = "update"

(* The documents docs of a snapshot: where one appears or vanishes, a      *)
(* patch may become valid or void, stored or not.                          *)
IsRecalculated(d, k, docs) ==
  (cache[d][k] = NoDoc) # (docs[k] = NoDoc) /\ overlay[d][k].op \in {"none", "update"}

(* The listeners hear what was recalculated, whether or not it was saved.  *)
ApplyRemoteDocuments(d) ==
  /\ ApplyRemoteEvent(d)
  /\ LET docs == cache'[d]
     IN /\ overlay' = [overlay EXCEPT ![d] =
             [k \in DOMAIN @ |->
                IF IsRecalculated(d, k, docs) THEN Recalculated(docs, queue[d], k, @[k]) ELSE @[k]]]
        /\ view' = [view EXCEPT ![d] =
             [k \in DOMAIN @ |->
                IF IsRecalculated(d, k, docs) THEN View(docs, queue[d])[k]
                ELSE IF docs[k] # cache[d][k] THEN LocalDocument(docs[k], overlay[d][k])
                ELSE @[k]]]

-----------------------------------------------------------------------------
(* An overlay that outlives what it was computed from: only updates of k   *)
(* are still queued, and the document was deleted under a patch, or came   *)
(* to be or went under what an answered set or delete left.                *)
IsStale(d, k) ==
  /\ overlay[d][k].op # "none" /\ ~IsOverwritten(queue[d], k)
  /\ (cache[d][k] = NoDoc) # (overlay[d][k].data = NoDoc)
=============================================================================
