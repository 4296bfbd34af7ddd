-------------------------------- MODULE Stream --------------------------------
(***************************************************************************)
(* The state machine of the client's two long-lived streams (stream.cc):   *)
(* the one it watches documents on and the one it sends writes on.  Every  *)
(* callback runs on the client's worker queue, one at a time.              *)
(*                                                                         *)
(* A stream is a record.  state: the member state_.  The backoff timer is  *)
(* set exactly in Backoff, so that it needs no field; delays are left out, *)
(* and Healthy is taken with Open: they differ in whether an error         *)
(* invalidates the token, which is external.  idle: idleness_timer_ is     *)
(* set.  requests: the credentials asked for and not yet delivered; Close  *)
(* counts up close_count_, which makes them all outdated.                  *)
(***************************************************************************)

Streams == [state    : {"Initial", "Starting", "Open", "Error", "Backoff"},
            idle     : BOOLEAN,
            requests : SUBSET {"current", "outdated"}]

NewStream == [state |-> "Initial", idle |-> FALSE, requests |-> {}]

IsOpen(s) == s.state = "Open"
IsStarted(s) == s.state \in {"Starting", "Backoff", "Open"}

RequestCredentials(s) == [s EXCEPT !.state = "Starting", !.requests = @ \cup {"current"}]

(* A stream that ended with an error waits before it asks again.           *)
StreamStart(s) ==
  IF s.state = "Error" THEN [s EXCEPT !.state = "Backoff"] ELSE RequestCredentials(s)

(* The backoff timer: back to Initial and Start().                         *)
BackoffElapsed(s) == RequestCredentials(s)

(* ResumeStartWithCredentials: the gRPC call is created and reports itself *)
(* started without waiting for the network.                                *)
Resumed(s) == [s EXCEPT !.state = "Open", !.requests = @ \ {"current"}]

(* Close: timers are cancelled, outstanding credentials become outdated.   *)
StreamClose(s, graceful) ==
  [state    |-> IF graceful THEN "Initial" ELSE "Error",
   idle     |-> FALSE,
   requests |-> IF s.requests = {} THEN {} ELSE {"outdated"}]

(* Stop is idempotent.                                                     *)
StreamStop(s) == IF IsStarted(s) THEN StreamClose(s, TRUE) ELSE s

InhibitBackoff(s) == [s EXCEPT !.state = "Initial"]

MarkIdle(s) == IF IsOpen(s) THEN [s EXCEPT !.idle = TRUE] ELSE s

StreamWrite(s) == [s EXCEPT !.idle = FALSE]
=============================================================================
