-------------------------------- MODULE Outbox --------------------------------
(***************************************************************************)
(* What the client promises about writes, whatever happens to streams,     *)
(* processes and sign-ins: each user's writes reach the server in the      *)
(* order they were made; a write leaves the queue only after the server    *)
(* has answered it; when answers are lost, the writes from the oldest      *)
(* unanswered one on are sent again.                                       *)
(***************************************************************************)
EXTENDS Integers, Sequences

CONSTANTS Users, Writes

VARIABLES queue,        \* queue[u]: writes of u not yet answered
          ahead,        \* ahead[u]: how many of those the server has applied
          last          \* the write the server applied last

vars == <<queue, ahead, last>>

Init ==
  /\ queue = [u \in Users |-> << >>]
  /\ ahead = [u \in Users |-> 0]
  /\ last = << >>

Issue(u) ==
  /\ \E w \in Writes : queue' = [queue EXCEPT ![u] = Append(@, w)]
  /\ UNCHANGED <<ahead, last>>

Apply(u) ==
  /\ ahead[u] < Len(queue[u])
  /\ last' = <<u, queue[u][ahead[u] + 1]>>
  /\ ahead' = [ahead EXCEPT ![u] = @ + 1]
  /\ UNCHANGED queue

Answer(u) ==
  /\ ahead[u] > 0
  /\ queue' = [queue EXCEPT ![u] = Tail(@)]
  /\ ahead' = [ahead EXCEPT ![u] = @ - 1]
  /\ UNCHANGED last

Reject(u) ==
  /\ ahead[u] = 0 /\ queue[u] # << >>
  /\ queue' = [queue EXCEPT ![u] = Tail(@)]
  /\ UNCHANGED <<ahead, last>>

LoseAnswers(u) ==
  /\ ahead' = [ahead EXCEPT ![u] = 0]
  /\ UNCHANGED <<queue, last>>

Next == \E u \in Users : Issue(u) \/ Apply(u) \/ Answer(u) \/ Reject(u) \/ LoseAnswers(u)

Spec == Init /\ [][Next]_vars
=============================================================================
