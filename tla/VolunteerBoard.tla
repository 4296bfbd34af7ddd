---------------------------- MODULE VolunteerBoard ----------------------------
(***************************************************************************)
(* The volunteer board: events of the collection `volunteer`, each with    *)
(* the number of people still needed, shown as tiles on every device.      *)
(* Tapping a tile adds the event to the user's own collection              *)
(* (Users/{email}/myVolunteerEvents) and writes the tile's number minus    *)
(* one back to the event.  A tile keeps the values it was built with.      *)
(*                                                                         *)
(* An event document is its numberOfPeople; a calendar entry is the        *)
(* numberOfPeople copied into it.                                          *)
(***************************************************************************)
EXTENDS LocalDocuments

CONSTANTS Users,        \* signed-in users
          Owner,        \* Owner[d]: the user signed in on device d
          Events,       \* names of volunteer events (their document ids)
          Numbers,      \* numbers people type into "Number of People Needed"
          MaxInputs     \* bound: user inputs, kills and broken streams

VARIABLES shown,        \* shown[d]: numberOfPeople held by d's tiles
          taps,         \* taps[e]: how often a tile of e was decremented
          inputs        \* inputs so far

Entries == Users \X Events          \* ids of calendar entries
Keys == Events \cup Entries

(* Events and entries are documents of different collections; int.tryParse *)
(* accepts negative numbers too.                                           *)
ASSUME BoardAssumption ==
  /\ Owner \in [Devices -> Users]
  /\ Events \cap Entries = {}
  /\ Numbers \subseteq Int
  /\ NoDoc \notin Int
  /\ MaxInputs \in Nat

vars == <<db, cache, queue, sent, overlay, view, shown, taps, inputs>>

Counts == Int \cup {NoDoc}
EmptyBoard == [e \in Events |-> NoDoc]

Mutations == [op : {"set", "update", "delete"}, key : Keys, data : Counts]
Overlays == [op : {"none", "set", "update", "delete"}, data : Counts, last : Nat]

TypeOK ==
  /\ db \in [Keys -> Counts]
  /\ cache \in [Devices -> [Events -> Counts]]
  /\ queue \in [Devices -> Seq(Mutations)]
  /\ sent \in [Devices -> [applied : Nat, seen : Nat, refused : BOOLEAN]]
  /\ \A d \in Devices : /\ sent[d].applied =< Len(queue[d])
                        /\ sent[d].seen =< sent[d].applied
                        /\ sent[d].refused => sent[d].applied < Len(queue[d])
  /\ overlay \in [Devices -> [Events -> Overlays]]
  /\ view \in [Devices -> [Events -> Counts]]
  /\ shown \in [Devices -> [Events -> Counts]]
  /\ taps \in [Events -> Nat]
  /\ inputs \in 0 .. MaxInputs

(* Some events are on the board before these devices first start.          *)
Init ==
  /\ \E board \in [Events -> Numbers \cup {NoDoc}] :
       DocumentsInit([k \in Keys |-> IF k \in Events THEN board[k] ELSE NoDoc], EmptyBoard)
  /\ shown = [d \in Devices |-> EmptyBoard]
  /\ taps = [e \in Events |-> 0]
  /\ inputs = 0

-----------------------------------------------------------------------------
Input == inputs < MaxInputs /\ inputs' = inputs + 1

(* StreamBuilder.builder: new tiles from what the stream last delivered.   *)
BuildTiles(d) ==
  /\ shown[d] # view[d]
  /\ shown' = [shown EXCEPT ![d] = view[d]]
  /\ UNCHANGED <<documents, taps, inputs>>

addEventToMyCalendar(d, e) == Set(<<Owner[d], e>>, shown[d][e])

(* Mutant of decrementNumberOfPeople: without the check for places left.   *)
DecrementUnguarded(d, e) == <<Update(e, shown[d][e] - 1)>>

(* The write of decrementNumberOfPeople: nothing once the tile shows 0.    *)
decrementNumberOfPeople(d, e) ==
  IF shown[d][e] > 0 THEN <<Update(e, shown[d][e] - 1)>> ELSE << >>

(* Mutant of onTapWrites: the count is written before the entry.           *)
CountBeforeEntry(d, e) == decrementNumberOfPeople(d, e) \o <<addEventToMyCalendar(d, e)>>

(* The writes a tap issues, in the order the handler issues them.          *)
onTapWrites(d, e) == <<addEventToMyCalendar(d, e)>> \o decrementNumberOfPeople(d, e)

CountTap(d, e) == taps' = [taps EXCEPT ![e] = IF shown[d][e] > 0 THEN @ + 1 ELSE @]

onTap(d, e) ==
  /\ shown[d][e] # NoDoc
  /\ Input
  /\ SaveWrites(d, onTapWrites(d, e)) /\ Tell(d, KeysOf(onTapWrites(d, e)))
  /\ CountTap(d, e)
  /\ UNCHANGED shown

(* The app is killed in the middle of onTap: only the handler's first      *)
(* write has reached the persistent queue, the tiles are gone, and the     *)
(* next start asks for the documents anew.                                 *)
onTapKilled(d, e) ==
  /\ shown[d][e] # NoDoc
  /\ Input
  /\ SaveWrites(d, <<Head(onTapWrites(d, e))>>) /\ Query(d)
  /\ CountTap(d, e)
  /\ shown' = [shown EXCEPT ![d] = EmptyBoard]

(* The creation dialog passes its checks and saves: a set, whether or not  *)
(* an event of that name exists.                                           *)
saveEventToFirestore(d, e, n) ==
  /\ Input
  /\ SaveWrites(d, <<Set(e, n)>>) /\ Tell(d, {e})
  /\ UNCHANGED <<shown, taps>>

(* Sliding a tile and pressing delete.                                     *)
deleteTask(d, e) ==
  /\ shown[d][e] # NoDoc
  /\ Input
  /\ SaveWrites(d, <<Delete(e)>>) /\ Tell(d, {e})
  /\ UNCHANGED <<shown, taps>>

(* The app is killed and started again: cache, queue and overlays are on   *)
(* disk, the tiles and what the listeners knew are not.                    *)
Restart(d) ==
  /\ shown[d] # EmptyBoard \/ view[d] # GetDocuments(cache[d], overlay[d])
  /\ Input
  /\ UNCHANGED <<store, overlay, taps>>
  /\ Query(d)
  /\ shown' = [shown EXCEPT ![d] = EmptyBoard]

LoseAnswers(d) ==
  /\ Input
  /\ OnWriteStreamClose(d)
  /\ UNCHANGED <<overlay, view, shown, taps>>

(* The server's and the client's own steps, which nobody has to trigger.   *)
Serve(d) == (Commit(d) \/ Refuse(d)) /\ UNCHANGED <<overlay, view, shown, taps, inputs>>

Answer(d) == (AcknowledgeBatch(d) \/ RejectBatch(d)) /\ UNCHANGED <<shown, taps, inputs>>

Snapshot(d) == ApplyRemoteDocuments(d) /\ UNCHANGED <<shown, taps, inputs>>

Next ==
  \E d \in Devices :
    \/ BuildTiles(d)
    \/ Serve(d) \/ Answer(d) \/ Snapshot(d)
    \/ \E e \in Events :
         \/ onTap(d, e)
         \/ onTapKilled(d, e)
         \/ deleteTask(d, e)
         \/ \E n \in Numbers : saveEventToFirestore(d, e, n)
    \/ Restart(d)
    \/ LoseAnswers(d)

(* A device that runs and reaches the network keeps streaming its queue,   *)
(* keeps receiving snapshots and keeps rebuilding; nobody has to tap.      *)
Fairness ==
  \A d \in Devices :
    /\ WF_vars(BuildTiles(d))
    /\ WF_vars(Serve(d)) /\ WF_vars(Answer(d)) /\ WF_vars(Snapshot(d))

Spec == Init /\ [][Next]_vars /\ Fairness

-----------------------------------------------------------------------------
(* Properties.                                                             *)

(* v is a number someone typed less at most t places, and below zero only  *)
(* when it was typed so.                                                   *)
IsAccounted(t, v) ==
  \E n \in Numbers, k \in 0 .. t : v = n - k /\ (k > 0 => v >= 0)

(* No count is ever taken below what the taps on tiles account for, nor    *)
(* below zero by a tap: decrementNumberOfPeople writes an absolute number  *)
(* guarded by > 0, so that stale tiles, resent writes and restarts may     *)
(* lose a decrement but never count one twice.  Holds for the server's     *)
(* documents and for what each tile shows.                                 *)
CountsAccounted ==
  \A e \in Events :
    /\ db[e] # NoDoc => IsAccounted(taps[e], db[e])
    /\ \A d \in Devices : shown[d][e] # NoDoc => IsAccounted(taps[e], shown[d][e])

(* Whenever a device's stream has a decrement of e next in line, the       *)
(* calendar entry of that tap is already on the server: onTap issues the   *)
(* entry first and the queue keeps the order, also over kills, refusals    *)
(* and resent pipelines.  A place is never given up for a sign-up that     *)
(* was not recorded.                                                       *)
EntryBeforeDecrement ==
  \A d \in Devices :
    sent[d].applied < Len(queue[d]) =>
      LET m == NextWrite(d)
      IN m.op = "update" => db[<<Owner[d], m.key>>] # NoDoc

SaveQueued(e) ==
  \E d \in Devices : \E i \in 1 .. Len(queue[d]) :
    queue[d][i].op = "set" /\ queue[d][i].key = e

NoResurrection ==
  \A e \in Events : db[e] = NoDoc /\ ~SaveQueued(e) => db'[e] = NoDoc

(* A deleted event does not come back because a tile of it was still on    *)
(* some screen: while no device has a save of e in its queue, a missing e  *)
(* stays missing whatever taps are on their way.                           *)
DeletedStaysDeleted == [][NoResurrection]_vars

KeepsView ==
  \A d \in Devices, e \in Events :
    (AcknowledgeBatch(d) /\ sent[d].seen = 0 /\ ~IsStale(d, e)) => view'[d][e] = view[d][e]

(* An answer does not make the screen flicker: when the oldest write of a  *)
(* device is acknowledged before any snapshot contains it, moving it from  *)
(* the queue to the cache, and out of the overlay, leaves what the         *)
(* device's listeners are told as it was (AcknowledgeBatch), unless the    *)
(* overlay was stale.                                                      *)
AcknowledgeKeepsView == [][KeepsView]_vars

(* "The view is computed by applying the mutations in the MutationQueue to *)
(* the RemoteDocumentCache" (local_documents_view.h): the overlay that is  *)
(* stored for an event, changed piece by piece by writes, answers,         *)
(* refusals and snapshots, shows what a replay of the whole queue over the *)
(* cache would show, and the listeners were told just that.  Only where    *)
(* the client keeps a stale overlay (IsStale), it does not.                *)
OverlayIsReplay ==
  \A d \in Devices, e \in Events :
    IsStale(d, e) \/ /\ LocalDocument(cache[d][e], overlay[d][e]) = Replay(cache[d], queue[d])[e]
                     /\ view[d][e] = Replay(cache[d], queue[d])[e]

(* Once people stop tapping, every queue drains and every device's tiles   *)
(* show the server's numbers, whatever was refused, resent or killed.      *)
Converges ==
  <>[](\A d \in Devices : /\ queue[d] = << >>
                          /\ \A e \in Events : shown[d][e] = db[e])

(* "reduce the number of people": a decrement the server applies to an     *)
(* event lowers its number.                                                *)
DecrementReduces ==
  [][\A d \in Devices :
       (Commit(d) /\ NextWrite(d).op = "update")
         => db'[NextWrite(d).key] < db[NextWrite(d).key]]_vars
=============================================================================
