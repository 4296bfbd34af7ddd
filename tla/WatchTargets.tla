----------------------------- MODULE WatchTargets -----------------------------
(***************************************************************************)
(* How a page's list follows a collection on the server: the targets the   *)
(* client watches, the aggregation of the server's messages into           *)
(* consistent snapshots, resume tokens, existence filters with their bloom *)
(* filters, and the resolution of limbo documents (documents in the cache  *)
(* that the server does not count among the results any more).             *)
(*                                                                         *)
(* One page lists one collection; of a document the client keeps its being *)
(* there, so that the list is the cache.  The server numbers the creations *)
(* and deletions of a document: it is there while its number is odd.  A    *)
(* resume token stands for the numbers at the snapshot it came with.  The  *)
(* server is external; its messages arrive in order until the stream       *)
(* breaks.                                                                 *)
(***************************************************************************)
EXTENDS Integers, FiniteSets, SequencesExt

CONSTANTS Docs,         \* document keys of the collection
          MaxLimbo,     \* bound: targets of limbo documents, ever
          max_concurrent_limbo_resolutions,
          ReturnsDuringReset,  \* a page may leave and come back before the
                               \* snapshot that follows a filter's mismatch
          LateSnapshots,       \* documents may change before that snapshot
          MaxInputs     \* bound: changes, broken streams, pages, kills

VARIABLES db,           \* db[k]: how often document k was created or deleted
          watched,      \* watched[t]: the documents the server watches for t
          dirty,        \* something was sent since the last snapshot
          responses,    \* messages on their way to the client
          client,       \* RemoteStore, aggregator, SyncEngine, view, store
          at,           \* the documents at the last snapshot the page got
          inputs

vars == <<db, watched, dirty, responses, client, at, inputs>>

Query == 0
Ids == Query .. MaxLimbo

ASSUME WatchAssumption ==
  /\ IsFiniteSet(Docs) /\ MaxLimbo \in Nat /\ MaxInputs \in Nat
  /\ max_concurrent_limbo_resolutions \in Nat \ {0}
  /\ ReturnsDuringReset \in BOOLEAN /\ LateSnapshots \in BOOLEAN

(* What is there, by the numbers n.                                        *)
Existing(n) == {k \in Docs : n[k] % 2 = 1}

(* No token, or one.                                                       *)
Tokens == {<< >>} \cup {<<n>> : n \in [Docs -> 0 .. MaxInputs + 1]}

(* TargetState: responses due, current_, has_pending_changes_, the token,  *)
(* and document_changes_.                                                  *)
TargetStates ==
  [due : Nat, current : BOOLEAN, pending : BOOLEAN, token : Tokens,
   changes : [Docs -> {"none", "Added", "Modified", "Removed"}]]
NoChanges == [k \in Docs |-> "none"]
NewState == [due |-> 0, current |-> FALSE, pending |-> TRUE, token |-> << >>, changes |-> NoChanges]

NewAggregator == [t \in Ids |-> NewState]

NoView == [up |-> FALSE, synced |-> {}, current |-> FALSE, limbo |-> {}, state |-> "Local"]

(* A client that starts on what is on disk: documents, the query's         *)
(* matching keys, and its resume token.                                    *)
Started(cache, keys, saved) ==
  [cache |-> cache, keys |-> keys, saved |-> saved,
   open |-> FALSE, requests |-> << >>,
   listen |-> {}, token |-> [t \in Ids |-> << >>],
   state |-> NewAggregator, updates |-> NoChanges, resets |-> {},
   key |-> << >>, received |-> {}, enqueued |-> << >>, next |-> 1,
   view |-> NoView]

-----------------------------------------------------------------------------
(* RemoteStore: requests.  The due count makes the aggregator ignore what  *)
(* the server sends for a target before it has answered.                   *)

(* The documents target t is about.                                        *)
Matching(c, t) == IF t = Query THEN Docs ELSE {c.key[t]}

Request(c, op, t) ==
  [op |-> op, target |-> t, token |-> c.token[t],
   of |-> IF op = "watch" THEN Matching(c, t) ELSE {}]

RecordPendingTargetRequests(c, ts) ==
  [t \in Ids |-> IF t \in ts THEN [c.state[t] EXCEPT !.due = @ + 1] ELSE c.state[t]]

SendInOrder(c, op, order) ==
  IF ~c.open THEN c
  ELSE [c EXCEPT !.requests = @ \o [i \in 1 .. Len(order) |-> Request(c, op, order[i])],
                 !.state = RecordPendingTargetRequests(c, ToSet(order))]

Send(c, op, ts) == SendInOrder(c, op, SetToSeq(ts))

SendWatchRequest(c, ts) == Send(c, "watch", ts)
SendUnwatchRequest(c, ts) == Send(c, "unwatch", ts)

Listen(c, ts) == SendWatchRequest([c EXCEPT !.listen = @ \cup ts], ts)
StopListening(c, ts) == SendUnwatchRequest([c EXCEPT !.listen = @ \ ts], ts)

-----------------------------------------------------------------------------
(* SyncEngine: limbo resolutions.                                          *)

(* The n oldest enqueued resolutions start, as far as there are target ids. *)
StartResolutions(c, most) ==
  LET n == Min({most, Len(c.enqueued), MaxLimbo + 1 - c.next})
      new == c.next .. c.next + n - 1
  IN Listen([c EXCEPT !.key = [t \in DOMAIN @ \cup new |->
                                 IF t \in new THEN c.enqueued[t - c.next + 1] ELSE @[t]],
                      !.next = @ + n,
                      !.enqueued = SubSeq(@, n + 1, Len(@))], new)

(* Mutant: every enqueued resolution starts at once.                       *)
PumpUnlimited(c) == StartResolutions(c, Len(c.enqueued))

PumpEnqueuedLimboResolutions(c) ==
  StartResolutions(c, max_concurrent_limbo_resolutions - Cardinality(DOMAIN c.key))

(* The keys of q that are not in ks.                                       *)
Without(q, ks) ==
  LET kept[i \in 0 .. Len(q)] == IF i = 0 THEN << >>
                                 ELSE IF q[i] \in ks THEN kept[i - 1] ELSE Append(kept[i - 1], q[i])
  IN kept[Len(q)]

(* The resolutions of ks end, or are not started any more.                 *)
EndResolutions(c, ks) ==
  LET ts == {t \in DOMAIN c.key : c.key[t] \in ks}
  IN StopListening([c EXCEPT !.enqueued = Without(@, ks),
                             !.key = [t \in DOMAIN @ \ ts |-> @[t]],
                             !.received = @ \ ts], ts)

(* Mutant: a finished resolution does not start the next one.              *)
RemoveWithoutPump(c, ks) == EndResolutions(c, ks)

RemoveLimboTarget(c, ks) == PumpEnqueuedLimboResolutions(EndResolutions(c, ks))

TrackLimboChange(c, ks) ==
  LET known == {c.key[t] : t \in DOMAIN c.key} \cup ToSet(c.enqueued)
  IN IF ks \subseteq known THEN c
     ELSE PumpEnqueuedLimboResolutions([c EXCEPT !.enqueued = @ \o SetToSeq(ks \ known)])

UpdateTrackedLimboDocuments(c, old) ==
  TrackLimboChange(RemoveLimboTarget(c, old \ c.view.limbo), c.view.limbo \ old)

(* What the server has said to belong to target t.                         *)
GetRemoteKeys(c, t) ==
  IF t \in DOMAIN c.key
  THEN IF t \in c.received THEN {c.key[t]} ELSE {}
  ELSE IF t = Query THEN c.view.synced ELSE {}

-----------------------------------------------------------------------------
(* WatchChangeAggregator.                                                  *)

IsActiveTarget(c, t) == t \in c.listen /\ c.state[t].due = 0

(* Target t's state after key k was added to it, or removed from it.       *)
Changed(c, t, k, found) ==
  [c.state[t] EXCEPT !.pending = TRUE,
                     !.changes[k] = IF found THEN IF k \in GetRemoteKeys(c, t) THEN "Modified" ELSE "Added"
                                    ELSE IF k \in GetRemoteKeys(c, t) THEN "Removed" ELSE "none"]

(* A document, or its deletion, and the targets it concerns.               *)
HandleDocumentChange(c, k, found, ts) ==
  LET active == {t \in ts : IsActiveTarget(c, t)}
  IN [c EXCEPT !.state = [t \in Ids |-> IF t \in active THEN Changed(c, t, k, found) ELSE @[t]],
               !.updates[k] = IF active = {} THEN @ ELSE IF found THEN "found" ELSE "missing"]

(* Keys leave t without word on what became of the documents.              *)
RemoveDocumentsFromTarget(c, t, ks) ==
  [c EXCEPT !.state[t].pending = @ \/ ks # {},
            !.state[t].changes = [k \in Docs |-> IF k \notin ks THEN @[k]
                                                 ELSE IF k \in GetRemoteKeys(c, t) THEN "Removed" ELSE "none"]]

ClearPendingChanges(s) == [s EXCEPT !.pending = FALSE, !.changes = NoChanges]

UpdateResumeToken(s, token) == [s EXCEPT !.pending = TRUE, !.token = token]

(* The answer to a watch request.                                          *)
TargetAdded(c, t) ==
  LET s == [c.state[t] EXCEPT !.due = @ - 1]
  IN [c EXCEPT !.state[t] = IF s.due = 0 THEN ClearPendingChanges(s) ELSE s]

(* The answer to an unwatch request.                                       *)
TargetRemoved(c, t) ==
  LET s == [c.state[t] EXCEPT !.due = @ - 1]
  IN [c EXCEPT !.state[t] = IF s.due = 0 THEN NewState ELSE s]

MarkCurrent(c, t) ==
  IF IsActiveTarget(c, t) THEN [c EXCEPT !.state[t].pending = TRUE, !.state[t].current = TRUE] ELSE c

ResetTarget(c, t) ==
  RemoveDocumentsFromTarget([c EXCEPT !.state[t] = NewState], t, GetRemoteKeys(c, t))

GetCurrentDocumentCountForTarget(c, t) ==
  Cardinality(GetRemoteKeys(c, t))
    + Cardinality({k \in Docs : c.state[t].changes[k] = "Added"})
    - Cardinality({k \in Docs : c.state[t].changes[k] = "Removed"})

(* bloom: the documents that the bloom filter does not rule out.           *)
HandleExistenceFilter(c, t, count, bloom) ==
  LET size == GetCurrentDocumentCountForTarget(c, t)
      gone == GetRemoteKeys(c, t) \ bloom
  IN IF ~IsActiveTarget(c, t) THEN c
     ELSE IF t # Query
     THEN IF count = 0 THEN HandleDocumentChange(c, c.key[t], FALSE, {t}) ELSE c
     ELSE IF size = count THEN c
     ELSE IF count = size - Cardinality(gone) THEN RemoveDocumentsFromTarget(c, t, gone)
     ELSE [ResetTarget(c, t) EXCEPT !.resets = @ \cup {t}]

(* A current limbo target without its document: the document is gone.      *)
Synthesized(c) ==
  LET gone == {t \in DOMAIN c.key : /\ IsActiveTarget(c, t) /\ c.state[t].current
                                    /\ c.updates[c.key[t]] = "none"
                                    /\ c.key[t] \notin GetRemoteKeys(c, t)}
  IN [c EXCEPT !.state = [t \in Ids |-> IF t \in gone THEN Changed(c, t, c.key[t], FALSE) ELSE @[t]],
               !.updates = [k \in Docs |-> IF \E t \in gone : c.key[t] = k THEN "missing" ELSE @[k]]]

-----------------------------------------------------------------------------
(* RaiseWatchSnapshot: what the aggregator holds becomes an event for the  *)
(* targets in changed, which the stores, the limbo resolutions and the     *)
(* view apply in this order.                                               *)

Keys(s, change) == {k \in Docs : s.changes[k] = change}

(* Tokens are kept; targets with a mismatch are watched anew, without one. *)
RenewTargets(c, changed) ==
  LET renewed == c.resets \cap c.listen
      r == [c EXCEPT !.token = [t \in Ids |-> IF t \in renewed THEN << >>
                                              ELSE IF t \in changed /\ c.state[t].token # << >>
                                              THEN c.state[t].token ELSE @[t]]]
  IN SendWatchRequest(SendUnwatchRequest(r, renewed), renewed)

LimboReceived(c, changed) ==
  [c EXCEPT !.received = {t \in DOMAIN c.key :
     IF t \in changed /\ Keys(c.state[t], "Added") # {} THEN TRUE
     ELSE t \in @ /\ (t \in changed => Keys(c.state[t], "Removed") = {})}]

(* Mutant: a token may be left unsaved whatever came with it.              *)
MayAlwaysStayUnsaved(c) == c.saved # << >>

(* ShouldPersistTargetData: a token that came without changes may be left  *)
(* unsaved while the saved one is young.                                   *)
MayStayUnsaved(c) == c.saved # << >> /\ c.state[Query].changes = NoChanges

LocalStoreApplies(c, changed, skip) ==
  LET s == c.state[Query]
  IN [c EXCEPT !.keys = IF Query \in changed THEN (@ \ Keys(s, "Removed")) \cup Keys(s, "Added") ELSE @,
               !.saved = IF Query \notin changed \/ skip THEN @ ELSE c.token[Query],
               !.cache = {k \in Docs : IF c.updates[k] = "none" THEN k \in @ ELSE c.updates[k] = "found"}]

(* Mutant: documents that the server does not count are not in limbo.      *)
ApplyWithoutLimbo(c, change, reset) ==
  LET s == c.state[Query]
      v == IF change
           THEN [c.view EXCEPT !.synced = (@ \ Keys(s, "Removed")) \cup Keys(s, "Added"),
                               !.current = s.current]
           ELSE c.view
  IN [c EXCEPT !.view = [v EXCEPT !.state = IF v.current /\ ~reset THEN "Synced" ELSE "Local"]]

(* View::ApplyChanges.  change: a target change for the query is part of   *)
(* the event; reset: the query is about to be watched anew.                *)
ApplyChanges(c, change, reset) ==
  LET s == c.state[Query]
      v == IF change
           THEN [c.view EXCEPT !.synced = (@ \ Keys(s, "Removed")) \cup Keys(s, "Added"),
                               !.current = s.current]
           ELSE c.view
      limbo == IF v.current /\ ~reset THEN c.cache \ v.synced ELSE v.limbo
  IN [c EXCEPT !.view =
       [v EXCEPT !.limbo = limbo,
                 !.state = IF limbo = {} /\ v.current /\ ~reset THEN "Synced" ELSE "Local"]]

EmitNewSnapshots(c, change, reset) ==
  IF c.view.up
  THEN UpdateTrackedLimboDocuments(ApplyChanges(c, change, reset), c.view.limbo)
  ELSE c

(* Mutant: the changes of the event stay with their targets.               *)
ClearedUpdatesOnly(c, changed) ==
  [c EXCEPT !.state = [t \in Ids |-> [@[t] EXCEPT !.pending = @ /\ t \notin changed]],
            !.updates = NoChanges, !.resets = {}]

Cleared(c, changed) ==
  [c EXCEPT !.state = [t \in Ids |-> IF t \in changed THEN ClearPendingChanges(@[t]) ELSE @[t]],
            !.updates = NoChanges, !.resets = {}]

RaiseWatchSnapshot(c, skip) ==
  LET e == Synthesized(c)
      changed == {t \in Ids : IsActiveTarget(e, t) /\ e.state[t].pending}
      r == RenewTargets(e, changed)
      l == LocalStoreApplies(LimboReceived(r, changed), changed, skip /\ MayStayUnsaved(r))
  IN Cleared(EmitNewSnapshots(l, Query \in changed, Query \in r.resets), changed)

(* A global snapshot carries a token for every active target.              *)
HandleSnapshot(c, numbers, skip) ==
  RaiseWatchSnapshot(
    [c EXCEPT !.state = [t \in Ids |-> IF IsActiveTarget(c, t)
                                       THEN UpdateResumeToken(@[t], <<numbers>>)
                                       ELSE @[t]]], skip)

-----------------------------------------------------------------------------
Init ==
  /\ db \in [Docs -> {0, 1}]
  /\ watched = [t \in Ids |-> {}] /\ dirty = FALSE /\ responses = << >>
  /\ client = Started({}, {}, << >>)
  /\ at = {}
  /\ inputs = 0

Input == inputs < MaxInputs /\ inputs' = inputs + 1

-----------------------------------------------------------------------------
(* The server.  A message: of type "added", "removed", "current", "reset", *)
(* "document", "filter" or "snapshot".                                     *)

Message(type, ts) == [type |-> type, targets |-> ts]
Document(k, found, ts) == [type |-> "document", targets |-> ts, key |-> k, found |-> found]
Filter(t, docs, bloom) == [type |-> "filter", targets |-> {t}, count |-> Cardinality(docs), bloom |-> bloom]

Snapshot == [type |-> "snapshot", numbers |-> db]

Documents(ks, found, t) == [i \in 1 .. Cardinality(ks) |-> Document(SetToSeq(ks)[i], found, {t})]

(* What follows an accepted watch request: documents the token does not    *)
(* cover; and what is gone since, by deletions or by an existence filter.  *)
Initial(r) ==
  LET known == IF r.token = << >> THEN [k \in Docs |-> 0] ELSE r.token[1]
      docs == Existing(db) \cap r.of
      gone == (Existing(known) \cap r.of) \ docs
  IN {Documents({k \in docs : db[k] # known[k]}, TRUE, r.target) \o rest :
        rest \in {Documents(gone, FALSE, r.target)}
                 \cup {<<Filter(r.target, docs, b)>> :
                         b \in {b \in SUBSET Docs : docs \subseteq b /\ gone # {}}}}

(* A filter comes with the snapshot it counts, unless that may be late.    *)
Ending(initial) ==
  IF ~LateSnapshots /\ \E i \in DOMAIN initial : initial[i].type = "filter" THEN <<Snapshot>> ELSE << >>

ServerReads ==
  /\ client.requests # << >>
  /\ LET r == Head(client.requests)
         t == r.target
     IN IF r.op = "watch"
        THEN /\ \E initial \in Initial(r) :
                  /\ responses' = responses \o <<Message("added", {t})>> \o initial
                                            \o <<Message("current", {t})>> \o Ending(initial)
                  /\ dirty' = (Ending(initial) = << >>)
             /\ watched' = [watched EXCEPT ![t] = r.of]
        ELSE /\ responses' = Append(responses, Message("removed", {t}))
             /\ watched' = [watched EXCEPT ![t] = {}]
             /\ UNCHANGED dirty
  /\ client' = [client EXCEPT !.requests = Tail(@)]
  /\ UNCHANGED <<db, at, inputs>>

(* Someone creates or deletes a document.                                  *)
ServerChange(k) ==
  LET ts == {t \in Ids : k \in watched[t]}
  IN /\ Input
     /\ db' = [db EXCEPT ![k] = @ + 1]
     /\ responses' = IF ts = {} THEN responses
                     ELSE Append(responses, Document(k, k \notin Existing(db), ts))
     /\ dirty' = (dirty \/ ts # {})
     /\ UNCHANGED <<watched, client, at>>

(* The server starts the list over: what still exists is sent again.       *)
ServerReset ==
  /\ watched[Query] # {}
  /\ Input
  /\ responses' = responses \o <<Message("reset", {Query})>>
                            \o Documents(Existing(db), TRUE, Query) \o <<Message("current", {Query})>>
  /\ dirty' = TRUE
  /\ UNCHANGED <<db, watched, client, at>>

ServerSnapshot ==
  /\ dirty
  /\ responses' = Append(responses, Snapshot)
  /\ dirty' = FALSE
  /\ UNCHANGED <<db, watched, client, at, inputs>>

-----------------------------------------------------------------------------
(* The client.                                                             *)

OnWatchStreamChange ==
  /\ responses # << >>
  /\ responses' = Tail(responses)
  /\ LET m == Head(responses)
         the == CHOOSE t \in Ids : m.targets = {t}
     IN /\ client' \in CASE m.type = "added" -> {TargetAdded(client, the)}
                         [] m.type = "removed" -> {TargetRemoved(client, the)}
                         [] m.type = "current" -> {MarkCurrent(client, the)}
                         [] m.type = "reset" -> {IF IsActiveTarget(client, the)
                                                 THEN ResetTarget(client, the) ELSE client}
                         [] m.type = "document" -> {HandleDocumentChange(client, m.key, m.found, m.targets)}
                         [] m.type = "filter" -> {HandleExistenceFilter(client, the, m.count, m.bloom)}
                         [] m.type = "snapshot" ->
                              {HandleSnapshot(client, m.numbers, skip) : skip \in BOOLEAN}
        /\ at' = IF m.type = "snapshot" /\ IsActiveTarget(client, Query) THEN Existing(m.numbers) ELSE at
  /\ UNCHANGED <<db, watched, dirty, inputs>>

Disconnected ==
  /\ watched' = [t \in Ids |-> {}]
  /\ dirty' = FALSE
  /\ responses' = << >>

OnWatchStreamClose ==
  /\ client.open
  /\ Input
  /\ Disconnected
  /\ client' = [client EXCEPT !.open = FALSE, !.requests = << >>,
                              !.state = NewAggregator, !.updates = NoChanges, !.resets = {}]
  /\ UNCHANGED <<db, at>>

(* Every target is watched anew, in the order of an unordered map.         *)
OnWatchStreamOpen ==
  /\ ~client.open /\ client.listen # {}
  /\ \E order \in SetToSeqs(client.listen) :
       client' = SendInOrder([client EXCEPT !.open = TRUE], "watch", order)
  /\ UNCHANGED <<db, watched, dirty, responses, at, inputs>>

(* The online state turns Offline: no view is current.                     *)
ApplyOnlineStateChange ==
  /\ ~client.open /\ client.view.current
  /\ client' = EmitNewSnapshots([client EXCEPT !.view.current = FALSE], FALSE, FALSE)
  /\ UNCHANGED <<db, watched, dirty, responses, at, inputs>>

(* A page comes up: its view starts from the matching keys on disk.        *)
OpenPage ==
  /\ ~client.view.up
  /\ Query \in client.resets => ReturnsDuringReset
  /\ client' = Listen([client EXCEPT !.view = [NoView EXCEPT !.up = TRUE, !.synced = client.keys],
                                     !.token[Query] = client.saved], {Query})
  /\ UNCHANGED <<db, watched, dirty, responses, at, inputs>>

(* It goes: the target is released with its token, limbo is forgotten.     *)
ClosePage ==
  /\ client.view.up
  /\ Input
  /\ client' = LET c == StopListening([client EXCEPT !.view = NoView, !.saved = client.token[Query]], {Query})
               IN RemoveLimboTarget(c, client.view.limbo)
  /\ UNCHANGED <<db, watched, dirty, responses, at>>

(* The app is killed and started again.                                    *)
Kill ==
  /\ Input
  /\ Disconnected
  /\ client' = Started(client.cache, client.keys, client.saved)
  /\ UNCHANGED <<db, at>>

Next ==
  \/ ServerReads \/ ServerReset \/ ServerSnapshot
  \/ \E k \in Docs : ServerChange(k)
  \/ OnWatchStreamChange \/ OnWatchStreamClose \/ OnWatchStreamOpen \/ ApplyOnlineStateChange
  \/ OpenPage \/ ClosePage \/ Kill

(* The oldest message is read, which is what OnWatchStreamChange does and  *)
(* is enabled by.                                                          *)
MessageRead == responses # << >> /\ responses' = Tail(responses)

(* The server answers, the client reads and reconnects.                    *)
Fairness ==
  /\ WF_vars(ServerReads) /\ WF_vars(ServerSnapshot)
  /\ WF_responses(MessageRead) /\ WF_vars(OnWatchStreamOpen)

Spec == Init /\ [][Next]_vars /\ Fairness

-----------------------------------------------------------------------------
(* Properties.                                                             *)

TypeOK ==
  /\ <<db>> \in Tokens /\ at \in SUBSET Docs
  /\ client.cache \in SUBSET Docs /\ client.keys \in SUBSET Docs
  /\ client.saved \in Tokens /\ client.token \in [Ids -> Tokens]
  /\ client.listen \in SUBSET Ids
  /\ client.listen = DOMAIN client.key \cup (IF client.view.up THEN {Query} ELSE {})
  /\ client.state \in [Ids -> TargetStates]
  /\ client.updates \in [Docs -> {"none", "found", "missing"}]
  /\ client.received \in SUBSET DOMAIN client.key
  /\ Cardinality(DOMAIN client.key) =< max_concurrent_limbo_resolutions
  /\ client.enqueued \in Seq(Docs)
  /\ client.view \in [up : BOOLEAN, synced : SUBSET Docs, current : BOOLEAN,
                      limbo : SUBSET Docs, state : {"Local", "Synced"}]

(* The assertions of remote_event.cc, sync_engine.cc and view.cc: a change *)
(* recorded for a target fits the keys it is applied to, also when the     *)
(* page has left and come back, or a limbo resolution was replaced, while  *)
(* messages for the old target were on their way.                          *)
AssertionsHold ==
  \A t \in client.listen : IsActiveTarget(client, t) =>
    \A k \in Docs :
      LET change == client.state[t].changes[k]
      IN /\ change \in {"Modified", "Removed"} => k \in GetRemoteKeys(client, t)
         /\ change = "Added" => k \notin GetRemoteKeys(client, t)
         /\ change # "none" => k \in Matching(client, t)

(* A list that counts as synced with the server is what the collection was *)
(* at the last snapshot: no deleted document survives in it because a      *)
(* filter replaced the deletion, a stream broke or the app was killed.     *)
(* (Without a token the query starts over: its list may be ahead of the    *)
(* last snapshot by what limbo resolutions found out on a new stream.)     *)
SyncedIsTrue ==
  client.view.state = "Synced" /\ client.token[Query] # << >> => client.cache = at

(* A resume token never runs ahead of, or behind, the matching keys stored *)
(* with it: a server that only sends what changed since would never repair *)
(* the difference.                                                         *)
ResumeIsSound ==
  /\ client.view.up /\ client.token[Query] # << >> => Existing(client.token[Query][1]) = client.view.synced
  /\ client.saved # << >> => Existing(client.saved[1]) = client.keys

(* Once nothing changes any more, a page that stays up comes to show the   *)
(* server's documents and to know it.                                      *)
ViewConverges ==
  <>[](client.view.up => client.view.state = "Synced" /\ client.cache = Existing(db))
=============================================================================
