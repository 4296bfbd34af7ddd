-------------------------------- MODULE Posts --------------------------------
(***************************************************************************)
(* The announcements of a club: posts that any phone adds to the club's    *)
(* collection Posts and every phone shows, newest first by the time stamp  *)
(* of the phone that wrote them.                                           *)
(*                                                                         *)
(* A post document is its author and time stamp, which tell it from every  *)
(* other; its id is drawn at random by add(), so that ids are ordered in   *)
(* any way.  Clocks run forward on each phone and agree on nothing else.   *)
(***************************************************************************)
EXTENDS FirestoreClient, SequencesExt

CONSTANTS Ids,          \* bound: document ids, a set of numbers
          Times,        \* bound: moments
          MaxInputs     \* bound: rebuilds, kills and broken streams

VARIABLES clock,        \* clock[d]: the time of d's last post
          draft,        \* draft[d]: something is typed into the text field
          inputs

vars == <<db, cache, queue, sent, clock, draft, inputs>>

ASSUME PostsAssumption ==
  /\ Ids \subseteq Nat /\ Times \subseteq Nat \ {0} /\ MaxInputs \in Nat
  /\ NoDoc \notin [by : Devices, at : Times]

Post(d, t) == [by |-> d, at |-> t]
Docs == [by : Devices, at : Times] \cup {NoDoc}

TypeOK ==
  /\ db \in [Ids -> Docs]
  /\ cache \in [Devices -> [Ids -> Docs]]
  /\ queue \in [Devices -> Seq([op : {"set"}, key : Ids, data : Docs \ {NoDoc}])]
  /\ sent \in [Devices -> [applied : Nat, seen : Nat, refused : BOOLEAN]]
  /\ \A d \in Devices : /\ sent[d].seen =< sent[d].applied /\ sent[d].applied =< Len(queue[d])
                         /\ ~sent[d].refused
  /\ clock \in [Devices -> Times \cup {0}]
  /\ draft \in [Devices -> BOOLEAN]
  /\ inputs \in 0 .. MaxInputs

(* orderBy('TimeStamp', descending: true); equal stamps by their ids.      *)
Before(docs, i, j) ==
  docs[i].at > docs[j].at \/ (docs[i].at = docs[j].at /\ i > j)

getPostStream(docs) ==
  SetToSortSeq({i \in Ids : docs[i] # NoDoc}, LAMBDA i, j : Before(docs, i, j))

(* What StreamBuilder's builder makes of the device's view.                *)
Shown(d) == getPostStream(View(cache[d], queue[d]))

-----------------------------------------------------------------------------
Input == inputs < MaxInputs /\ inputs' = inputs + 1

Init ==
  /\ ClientInit([i \in Ids |-> NoDoc], [i \in Ids |-> NoDoc])
  /\ clock = [d \in Devices |-> 0]
  /\ draft = [d \in Devices |-> FALSE]
  /\ inputs = 0

TypeMessage(d) ==
  /\ ~draft[d]
  /\ draft' = [draft EXCEPT ![d] = TRUE]
  /\ UNCHANGED <<store, clock, inputs>>

IsUnused(i) ==
  /\ db[i] = NoDoc
  /\ \A d \in Devices : \A j \in 1 .. Len(queue[d]) : queue[d][j].key # i

addPost(d, i, t) == WriteLocally(d, <<Set(i, Post(d, t))>>)

(* The check mark: with nothing typed nothing happens.                     *)
postMessage(d) ==
  /\ draft[d]
  /\ \E i \in Ids, t \in Times :
       /\ IsUnused(i) /\ t > clock[d]
       /\ addPost(d, i, t)
       /\ clock' = [clock EXCEPT ![d] = t]
  /\ draft' = [draft EXCEPT ![d] = FALSE]
  /\ UNCHANGED inputs

(* A tab or an icon of the club page: ClubOutline builds a new             *)
(* PostsStreamPage, with a new text controller and a new stream of the     *)
(* same posts.  A kill and a relaunch do the same.                         *)
Rebuild(d) ==
  /\ draft[d]
  /\ Input
  /\ draft' = [draft EXCEPT ![d] = FALSE]
  /\ UNCHANGED <<store, clock>>

LoseAnswers(d) ==
  /\ Input
  /\ OnWriteStreamClose(d)
  /\ UNCHANGED <<clock, draft>>

Sync(d) ==
  /\ Commit(d) \/ HandleSuccessfulWrite(d) \/ ApplyRemoteEvent(d)
  /\ UNCHANGED <<clock, draft, inputs>>

Next ==
  \E d \in Devices : \/ TypeMessage(d) \/ postMessage(d) \/ Rebuild(d) \/ LoseAnswers(d) \/ Sync(d)

(* A device that runs streams its queue and hears of snapshots.            *)
Fairness ==
  \A d \in Devices :
    /\ WF_vars(Commit(d) /\ UNCHANGED <<clock, draft, inputs>>)
    /\ WF_vars(HandleSuccessfulWrite(d) /\ UNCHANGED <<clock, draft, inputs>>)
    /\ WF_vars(ApplyRemoteEvent(d) /\ UNCHANGED <<clock, draft, inputs>>)

Spec == Init /\ [][Next]_vars /\ Fairness

-----------------------------------------------------------------------------
(* Properties.                                                             *)

(* A post on the screen stays there, and posts that arrive later, from     *)
(* phones with other clocks, slip in between without changing the order of *)
(* the ones already read: through answers, broken streams, resent writes   *)
(* and rebuilt pages alike.                                                *)
PostsStay ==
  [][\A d \in Devices :
       LET old == Shown(d)
       IN SelectSeq(Shown(d)', LAMBDA i : Contains(old, i)) = old]_vars

(* Once nobody types, every phone comes to show the server's posts, all in *)
(* the same order, whatever the clocks were.                               *)
PostsAgree ==
  <>[](\A d \in Devices : Shown(d) = getPostStream(db) /\ queue[d] = << >>)
=============================================================================
