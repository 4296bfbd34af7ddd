------------------------------- MODULE Sessions -------------------------------
(***************************************************************************)
(* The writing half of the client on a phone that several people sign in   *)
(* on: one persistent mutation queue per user, the pipeline of writes that *)
(* are on their way, the write stream with its handshake, the token it     *)
(* runs under, and the worker queue on which a change of user, a write of  *)
(* the app and the arrival of a token line up.                             *)
(*                                                                         *)
(* Signing in and out changes the user of FirebaseAuth at once; the client *)
(* hears of it through the worker queue, as it does of a write.  The       *)
(* credentials provider asks again when the user changed while it waited   *)
(* for a token, so that it delivers the token of the user of that moment.  *)
(* Firebase and the server are external.                                   *)
(***************************************************************************)
EXTENDS Integers, Sequences, Stream

CONSTANTS Users,            \* whom FirebaseAuth can hold
          kMaxPendingWrites,
          MaxInputs         \* bound: inputs, kills, failures

VARIABLES auth,         \* the credentials provider's current_user
          worker,       \* operations on the worker queue, the next one first
          user,         \* SyncEngine::current_user_
          queue,        \* queue[u]: the mutation queue of u, on disk
          remote,       \* RemoteStore: write stream, its call, the pipeline
          last,         \* the write the server applied last, under which token
          written,      \* batches written so far
          inputs

vars == <<auth, worker, user, queue, remote, last, written, inputs>>

ASSUME SessionsAssumption ==
  kMaxPendingWrites \in Nat \ {0} /\ MaxInputs \in Nat

(* A batch: its id, and who made it.                                       *)
Batches == [id : 1 .. MaxInputs, by : Users]

(* handshake: handshake_complete_; applied: how many batches of the        *)
(* pipeline the server has applied without its answer having been read.    *)
NoCall == [token |-> << >>, handshake |-> FALSE, applied |-> 0]
NewCall(u) == [token |-> <<u>>, handshake |-> FALSE, applied |-> 0]

NewRemote == [stream |-> NewStream, call |-> NoCall, pipeline |-> << >>]

(* An operation of the worker queue.  fresh: the stream has not been       *)
(* closed since the credentials were asked for (close_count_).             *)
Op(name, u, fresh) == [op |-> name, user |-> u, fresh |-> fresh]

(* Mutant: credentials of an earlier attempt count as current.             *)
NeverOutdated(ops) == ops

(* Close counts up close_count_, which outdates the credentials queued.    *)
Outdated(ops) == [i \in 1 .. Len(ops) |-> [ops[i] EXCEPT !.fresh = FALSE]]

TypeOK ==
  /\ auth \in Users /\ user \in Users
  /\ worker \in Seq([op : {"change", "write", "resume", "fail"}, user : Users, fresh : BOOLEAN])
  /\ queue \in [Users -> Seq(Batches)]
  /\ remote.stream \in Streams
  /\ remote.pipeline \in Seq(Batches) /\ Len(remote.pipeline) =< kMaxPendingWrites
  /\ remote.call.handshake \in BOOLEAN
  /\ remote.call.applied \in 0 .. Len(remote.pipeline)
  /\ written \in 0 .. MaxInputs /\ inputs \in 0 .. MaxInputs

-----------------------------------------------------------------------------
(* RemoteStore, its writing half.                                          *)

(* The first position of q behind batch id b.                              *)
FirstAfter(q, b) ==
  CHOOSE i \in 1 .. Len(q) + 1 :
    /\ i = Len(q) + 1 \/ q[i].id > b
    /\ \A j \in 1 .. i - 1 : q[j].id =< b

(* Mutant: the pipeline takes whatever is queued.                          *)
FilledUnbounded(p, q) ==
  p \o SubSeq(q, FirstAfter(q, IF p = << >> THEN 0 ELSE p[Len(p)].id), Len(q))

(* GetNextMutationBatch until the pipeline is full or the queue at its end.*)
Filled(p, q) ==
  LET from == FirstAfter(q, IF p = << >> THEN 0 ELSE p[Len(p)].id)
      room == from + kMaxPendingWrites - Len(p) - 1
  IN p \o SubSeq(q, from, IF room < Len(q) THEN room ELSE Len(q))

StartWriteStream(r) ==
  IF ~IsStarted(r.stream) /\ r.pipeline # << >>
  THEN [r EXCEPT !.stream = StreamStart(@)] ELSE r

FillWritePipeline(r, q) ==
  LET p == Filled(r.pipeline, q)
      s == IF p = << >> THEN MarkIdle(r.stream)
           ELSE IF p # r.pipeline /\ IsOpen(r.stream) /\ r.call.handshake
           THEN StreamWrite(r.stream) ELSE r.stream
  IN StartWriteStream([r EXCEPT !.pipeline = p, !.stream = s])

(* The stream is closed; handshake_complete_ is reset.                     *)
Closed(r, graceful) == [r EXCEPT !.stream = StreamClose(@, graceful), !.call = NoCall]

(* Mutant: the stream is not started again.                                *)
CloseWithoutRestart(r) == Closed(r, FALSE)

(* A transient error: what is in the pipeline is sent again after backoff. *)
OnWriteStreamClose(r) == StartWriteStream(Closed(r, FALSE))

(* A permanent error: the oldest write is dropped (its rest is queue q).   *)
HandleWriteError(r, q) ==
  FillWritePipeline([Closed(r, FALSE) EXCEPT !.pipeline = Tail(@),
                                             !.stream = InhibitBackoff(@)], q)

(* Mutant: the pipeline is not cleared.                                    *)
RestartKeepingPipeline(r, q) ==
  FillWritePipeline([r EXCEPT !.stream = InhibitBackoff(StreamStop(@)), !.call = NoCall], q)

RestartNetwork(r, q) ==
  FillWritePipeline([stream |-> InhibitBackoff(StreamStop(r.stream)),
                     call |-> NoCall, pipeline |-> << >>], q)

-----------------------------------------------------------------------------
Input == inputs < MaxInputs /\ inputs' = inputs + 1

Init ==
  /\ auth \in Users /\ user = auth
  /\ worker = << >>
  /\ queue = [u \in Users |-> << >>]
  /\ remote = NewRemote
  /\ last = << >>
  /\ written = 0 /\ inputs = 0

(* The app and FirebaseAuth enqueue.                                       *)

(* A sign-in, a sign-out, or a new token for the same user.                *)
CredentialChange(u) ==
  /\ Input
  /\ auth' = u
  /\ worker' = Append(worker, Op("change", u, FALSE))
  /\ UNCHANGED <<user, queue, remote, last, written>>

AppWrite ==
  /\ Input
  /\ worker' = Append(worker, Op("write", auth, FALSE))
  /\ UNCHANGED <<auth, user, queue, remote, last, written>>

Delivered(r) == [remote EXCEPT !.stream.requests = @ \ {r}]

TokenArrives(r) ==
  /\ r \in remote.stream.requests
  /\ worker' = Append(worker, Op("resume", auth, r = "current"))
  /\ remote' = Delivered(r)
  /\ UNCHANGED <<auth, user, queue, last, written, inputs>>

TokenFails ==
  /\ "current" \in remote.stream.requests
  /\ Input
  /\ worker' = Append(worker, Op("fail", auth, TRUE))
  /\ remote' = Delivered("current")
  /\ UNCHANGED <<auth, user, queue, last, written>>

-----------------------------------------------------------------------------
(* The worker queue.                                                       *)

Running(name) == worker # << >> /\ Head(worker).op = name

(* Mutant: the streams keep running.                                       *)
ChangeWithoutRestart ==
  /\ Running("change")
  /\ user' = Head(worker).user
  /\ worker' = Tail(worker)
  /\ UNCHANGED <<auth, queue, remote, last, written, inputs>>

(* The mutation queue is swapped, then the streams are restarted.          *)
HandleCredentialChange ==
  /\ Running("change")
  /\ user' = Head(worker).user
  /\ remote' = RestartNetwork(remote, queue[user'])
  /\ worker' = Outdated(Tail(worker))
  /\ UNCHANGED <<auth, queue, last, written, inputs>>

WriteMutations ==
  /\ Running("write")
  /\ written' = written + 1
  /\ queue' = [queue EXCEPT ![user] = Append(@, [id |-> written', by |-> Head(worker).user])]
  /\ remote' = FillWritePipeline(remote, queue'[user])
  /\ worker' = Tail(worker)
  /\ UNCHANGED <<auth, user, last, inputs>>

(* The call is started and the handshake written.                          *)
ResumeStartWithCredentials ==
  /\ Running("resume")
  /\ remote' = IF Head(worker).fresh
               THEN [remote EXCEPT !.stream = StreamWrite(Resumed(@)),
                                   !.call = NewCall(Head(worker).user)]
               ELSE remote
  /\ worker' = Tail(worker)
  /\ UNCHANGED <<auth, user, queue, last, written, inputs>>

CredentialsFail ==
  /\ Running("fail")
  /\ remote' = IF Head(worker).fresh THEN OnWriteStreamClose(remote) ELSE remote
  /\ worker' = Tail(worker)
  /\ UNCHANGED <<auth, user, queue, last, written, inputs>>

ConnectionBackoff ==
  /\ remote.stream.state = "Backoff"
  /\ remote' = [remote EXCEPT !.stream = BackoffElapsed(@)]
  /\ UNCHANGED <<auth, worker, user, queue, last, written, inputs>>

WriteStreamIdle ==
  /\ remote.stream.idle
  /\ remote' = Closed(remote, TRUE)
  /\ UNCHANGED <<auth, worker, user, queue, last, written, inputs>>

(* The phone's network comes back.                                         *)
NetworkAvailable ==
  /\ Input
  /\ remote' = RestartNetwork(remote, queue[user])
  /\ worker' = Outdated(worker)
  /\ UNCHANGED <<auth, user, queue, last, written>>

(* The app is killed and started again: what was on the worker queue is    *)
(* lost, the mutation queues are not.                                      *)
Kill ==
  /\ Input
  /\ worker' = << >>
  /\ user' = auth
  /\ remote' = FillWritePipeline(NewRemote, queue[auth])
  /\ UNCHANGED <<auth, queue, last, written>>

-----------------------------------------------------------------------------
(* The server, and what the stream reads.                                  *)

HandshakeComplete ==
  /\ IsOpen(remote.stream) /\ ~remote.call.handshake
  /\ remote' = [remote EXCEPT !.call.handshake = TRUE,
                              !.stream = IF remote.pipeline = << >> THEN @ ELSE StreamWrite(@)]
  /\ UNCHANGED <<auth, worker, user, queue, last, written, inputs>>

ServerApplies ==
  /\ remote.call.handshake
  /\ remote.call.applied < Len(remote.pipeline)
  /\ last' = <<remote.call.token[1], remote.pipeline[remote.call.applied + 1]>>
  /\ remote' = [remote EXCEPT !.call.applied = @ + 1]
  /\ UNCHANGED <<auth, worker, user, queue, written, inputs>>

(* Mutant: the batch is taken from the end.                                *)
RemovedLast(q, b) == SubSeq(q, 1, Len(q) - 1)

(* RemoveMutationBatch seeks the batch by its id and asserts that it is    *)
(* there, which PipelineIsPrefix says.                                     *)
Removed(q, b) ==
  LET at == FirstAfter(q, b.id - 1)
  IN SubSeq(q, 1, at - 1) \o SubSeq(q, at + 1, Len(q))

OnWriteStreamMutationResult ==
  /\ remote.call.applied > 0
  /\ queue' = [queue EXCEPT ![user] = Removed(@, Head(remote.pipeline))]
  /\ remote' = FillWritePipeline([remote EXCEPT !.pipeline = Tail(@), !.call.applied = @ - 1],
                                 queue'[user])
  /\ UNCHANGED <<auth, worker, user, last, written, inputs>>

(* The server refuses the oldest write.                                    *)
WriteRejected ==
  /\ remote.call.handshake /\ remote.call.applied = 0 /\ remote.pipeline # << >>
  /\ queue' = [queue EXCEPT ![user] = Removed(@, Head(remote.pipeline))]
  /\ remote' = HandleWriteError(remote, queue'[user])
  /\ UNCHANGED <<auth, worker, user, last, written, inputs>>

ConnectionLost ==
  /\ IsOpen(remote.stream)
  /\ Input
  /\ remote' = OnWriteStreamClose(remote)
  /\ UNCHANGED <<auth, worker, user, queue, last, written>>

Next ==
  \/ \E u \in Users : CredentialChange(u)
  \/ AppWrite
  \/ \E r \in {"current", "outdated"} : TokenArrives(r)
  \/ TokenFails
  \/ HandleCredentialChange \/ WriteMutations \/ ResumeStartWithCredentials \/ CredentialsFail
  \/ ConnectionBackoff \/ WriteStreamIdle \/ NetworkAvailable \/ Kill
  \/ HandshakeComplete \/ ServerApplies \/ OnWriteStreamMutationResult \/ WriteRejected
  \/ ConnectionLost

(* The worker queue runs, tokens arrive, backoff ends, and a server that   *)
(* is reached answers.                                                     *)
Fairness ==
  /\ WF_vars(HandleCredentialChange \/ WriteMutations \/ ResumeStartWithCredentials \/ CredentialsFail)
  /\ WF_vars(TokenArrives("current"))
  /\ WF_vars(ConnectionBackoff)
  /\ WF_vars(HandshakeComplete)
  /\ WF_vars(ServerApplies \/ WriteRejected)
  /\ WF_vars(OnWriteStreamMutationResult)

Spec == Init /\ [][Next]_vars /\ Fairness

-----------------------------------------------------------------------------
(* Properties.                                                             *)

(* A write reaches the server only under the token of the user who made    *)
(* it, whatever sign-ins, restarts and tokens overtake each other: the     *)
(* worker queue keeps their order, a change of user empties the pipeline,  *)
(* and tokens asked for by an earlier attempt are dropped.                 *)
SentAsAuthor == last # << >> => last[1] = last[2].by

(* What is on its way is the beginning of the current user's queue, so     *)
(* that an answer, which carries no id, is matched with its own batch and  *)
(* RemoveMutationBatch finds it.                                           *)
PipelineIsPrefix ==
  /\ Len(remote.pipeline) =< Len(queue[user])
  /\ remote.pipeline = SubSeq(queue[user], 1, Len(remote.pipeline))

(* The assertions of stream.cc and remote_store.cc: credentials find the   *)
(* stream Starting, once; the idleness timer runs only over an empty       *)
(* pipeline; and a pipeline that is not empty has its stream.              *)
AssertionsHold ==
  LET s == remote.stream
  IN /\ \A i \in 1 .. Len(worker) :
          worker[i].fresh => /\ s.state = "Starting" /\ "current" \notin s.requests
                             /\ \A j \in 1 .. Len(worker) : worker[j].fresh => i = j
     /\ "current" \in s.requests => s.state = "Starting"
     /\ s.idle => IsOpen(s) /\ remote.pipeline = << >>
     /\ remote.pipeline # << >> => IsStarted(s)
     /\ remote.call # NoCall => IsOpen(s)

(* The phone keeps the promise of an outbox to each of its users.          *)
Promise ==
  INSTANCE Outbox WITH
    Writes <- Batches,
    ahead <- [u \in Users |-> IF u = user THEN remote.call.applied ELSE 0]

KeepsPromise == Promise!Spec

(* A queued write is sent and answered, after any number of changes of     *)
(* user and kills, once its author stays signed in.                        *)
QueueDrains ==
  \A u \in Users : (queue[u] # << >>) ~> (queue[u] = << >> \/ auth # u)
=============================================================================
