---------------------------- MODULE SessionsProofs ----------------------------
(***************************************************************************)
(* Proofs about Sessions for any number of users, any limit of the         *)
(* pipeline and any number of inputs.                                      *)
(*                                                                         *)
(* The invariant has four parts.  The worker queue: operations carry the   *)
(* user of FirebaseAuth, and between two changes that is one user.  The    *)
(* mutation queues: ids increase, and a batch lies in its author's queue.  *)
(* The remote store: its pipeline is the beginning of the current user's   *)
(* queue and its call, if any, runs under the current user's token.  The   *)
(* credentials on the worker queue: at most one counts, and then the       *)
(* stream is Starting.                                                     *)
(***************************************************************************)
EXTENDS Sessions, SequenceTheorems, TLAPS

Ops == [op : {"change", "write", "resume", "fail"}, user : Users, fresh : BOOLEAN]

Calls == [token : Seq(Users), handshake : BOOLEAN, applied : Nat]

Remotes == [stream : Streams, call : Calls, pipeline : Seq(Batches)]

(* Ids increase along a queue.                                             *)
Increasing(q) == \A i, j \in 1 .. Len(q) : i < j => q[i].id < q[j].id

(* p is the beginning of q.                                                *)
IsPrefixOf(p, q) == Len(p) =< Len(q) /\ p = SubSeq(q, 1, Len(p))

QueuesSound ==
  \A u \in Users :
    /\ Increasing(queue[u])
    /\ \A i \in 1 .. Len(queue[u]) : queue[u][i].id =< written /\ queue[u][i].by = u

(* With u the current user, the one whom the client will take for the      *)
(* current user when it comes to the i-th operation of ops.                *)
UserBefore(ops, u, i) == IF i = 1 THEN u ELSE ops[i - 1].user

WorkerInOrder ==
  /\ \A i \in 1 .. Len(worker) : worker[i].op # "change" => worker[i].user = UserBefore(worker, user, i)
  /\ auth = UserBefore(worker, user, Len(worker) + 1)

(* Every write, done or queued, is one of the inputs: c counts them along  *)
(* the worker queue.                                                       *)
WritesCounted ==
  \E c \in [0 .. Len(worker) -> 0 .. inputs] :
    /\ written =< c[0]
    /\ \A i \in 1 .. Len(worker) :
         c[i - 1] =< c[i] /\ (worker[i].op = "write" => c[i - 1] < c[i])

(* A remote store r that works for user u with queue q, its stream perhaps *)
(* not started yet.                                                        *)
NearlySound(r, u, q) ==
  /\ r \in Remotes
  /\ Len(r.pipeline) =< kMaxPendingWrites
  /\ IsPrefixOf(r.pipeline, q)
  /\ r.call.applied =< Len(r.pipeline)
  /\ "current" \in r.stream.requests => r.stream.state = "Starting"
  /\ r.stream.idle => IsOpen(r.stream) /\ r.pipeline = << >> /\ r.call.handshake
  /\ r.call # NoCall => IsOpen(r.stream)
  /\ IsOpen(r.stream) => r.call.token = <<u>>
  /\ r.call.applied > 0 => r.call.handshake

Sound(r, u, q) ==
  /\ NearlySound(r, u, q)
  /\ r.pipeline # << >> => IsStarted(r.stream)

(* Of the credentials in ops at most one counts, for stream s.             *)
FreshSound(ops, s) ==
  \A i \in 1 .. Len(ops) :
    ops[i].fresh => /\ s.state = "Starting" /\ "current" \notin s.requests
                    /\ \A j \in 1 .. Len(ops) : ops[j].fresh => i = j

IInv ==
  /\ TypeOK
  /\ QueuesSound
  /\ WorkerInOrder
  /\ WritesCounted
  /\ Sound(remote, user, queue[user])
  /\ FreshSound(worker, remote.stream)
  /\ SentAsAuthor

-----------------------------------------------------------------------------
(* Queues and pipelines.                                                   *)

LEMMA PrefixElements ==
  ASSUME NEW S, NEW q \in Seq(S), NEW n \in 0 .. Len(q)
  PROVE  /\ SubSeq(q, 1, n) \in Seq(S)
         /\ Len(SubSeq(q, 1, n)) = n
         /\ \A i \in 1 .. n : SubSeq(q, 1, n)[i] = q[i]
<1>1. Len(q) \in Nat /\ \A i \in 1 .. n : q[i] \in S
  BY LenProperties
<1>2. n \in Int /\ 1 \in Int
  OBVIOUS
<1>3. /\ SubSeq(q, 1, n) \in Seq(S)
      /\ Len(SubSeq(q, 1, n)) = IF 1 <= n THEN n - 1 + 1 ELSE 0
      /\ \A i \in 1 .. n - 1 + 1 : SubSeq(q, 1, n)[i] = q[1 + i - 1]
  BY <1>1, <1>2, SubSeqProperties
<1>4. QED
  BY <1>1, <1>3

(* GetNextMutationBatch goes on where the pipeline ends.                   *)
LEMMA FirstAfterPrefix ==
  ASSUME NEW q \in Seq(Batches), Increasing(q), NEW n \in 0 .. Len(q), NEW b \in Nat,
         IF n = 0 THEN b = 0 ELSE b = q[n].id
  PROVE  FirstAfter(q, b) = n + 1
<1> DEFINE P(i) == /\ i = Len(q) + 1 \/ q[i].id > b
                   /\ \A j \in 1 .. i - 1 : q[j].id =< b
<1>1. Len(q) \in Nat /\ \A i \in 1 .. Len(q) : q[i].id \in Nat \ {0}
  <2>1. Len(q) \in Nat /\ \A i \in 1 .. Len(q) : q[i] \in Batches
    BY LenProperties, ElementOfSeq
  <2>2. QED
    BY <2>1, SessionsAssumption DEF Batches
<1>2. n + 1 \in 1 .. Len(q) + 1 /\ P(n + 1)
  <2>1. \A j \in 1 .. n : q[j].id =< b
    BY <1>1 DEF Increasing
  <2>2. n + 1 = Len(q) + 1 \/ q[n + 1].id > b
    BY <1>1 DEF Increasing
  <2>3. QED
    BY <1>1, <2>1, <2>2
<1>3. ASSUME NEW i \in 1 .. Len(q) + 1, P(i) PROVE i = n + 1
  <2>1. CASE i < n + 1
    <3>1. i \in 1 .. n /\ i \in 1 .. Len(q) /\ n \in 1 .. Len(q)
      BY <1>1, <2>1
    <3>2. q[i].id > b /\ b = q[n].id
      BY <1>1, <1>3, <3>1
    <3>3. q[i].id =< q[n].id
      BY <1>1, <3>1 DEF Increasing
    <3>4. QED
      BY <1>1, <3>1, <3>2, <3>3
  <2>2. CASE i > n + 1
    <3>1. n + 1 \in 1 .. i - 1 /\ n + 1 \in 1 .. Len(q)
      BY <1>1, <2>2
    <3>2. q[n + 1].id =< b
      BY <1>3, <3>1
    <3>3. q[n + 1].id > b
      BY <1>1, <3>1 DEF Increasing
    <3>4. QED
      BY <1>1, <3>1, <3>2, <3>3
  <2>3. QED
    BY <1>1, <2>1, <2>2
<1>4. FirstAfter(q, b) = CHOOSE i \in 1 .. Len(q) + 1 : P(i)
  BY DEF FirstAfter
<1> HIDE DEF P
<1>5. QED
  BY <1>2, <1>3, <1>4

(* A pipeline is filled up to its limit or the queue's end.                *)
LEMMA FilledPrefix ==
  ASSUME NEW q \in Seq(Batches), Increasing(q), NEW p \in Seq(Batches),
         IsPrefixOf(p, q), Len(p) =< kMaxPendingWrites
  PROVE  /\ Filled(p, q) \in Seq(Batches)
         /\ IsPrefixOf(Filled(p, q), q)
         /\ Len(p) =< Len(Filled(p, q))
         /\ Len(Filled(p, q)) =< kMaxPendingWrites
         /\ q # << >> => Filled(p, q) # << >>
<1> DEFINE n == Len(p)
           m == IF kMaxPendingWrites < Len(q) THEN kMaxPendingWrites ELSE Len(q)
           b == IF p = << >> THEN 0 ELSE p[Len(p)].id
<1>1. /\ Len(q) \in Nat /\ n \in Nat /\ n \in 0 .. Len(q) /\ kMaxPendingWrites \in Nat \ {0}
      /\ p = SubSeq(q, 1, n)
  BY LenProperties, SessionsAssumption DEF IsPrefixOf
<1>2. b \in Nat /\ IF n = 0 THEN b = 0 ELSE b = q[n].id
  <2>1. CASE n = 0
    BY <2>1, EmptySeq
  <2>2. CASE n # 0
    <3>1. n \in 1 .. n /\ p # << >>
      BY <1>1, <2>2, EmptySeq
    <3>2. p[n] = q[n]
      BY <1>1, <3>1, PrefixElements
    <3>3. p[n] \in Batches
      BY <3>1, ElementOfSeq
    <3>4. QED
      BY <2>2, <3>1, <3>2, <3>3, SessionsAssumption DEF Batches
  <2>3. QED
    BY <2>1, <2>2
<1> HIDE DEF b
<1>3. FirstAfter(q, b) = n + 1
  BY <1>1, <1>2, FirstAfterPrefix
<1>4. Filled(p, q) = p \o SubSeq(q, n + 1, m)
  <2>1. Filled(p, q) =
          LET from == FirstAfter(q, b)
              room == from + kMaxPendingWrites - Len(p) - 1
          IN p \o SubSeq(q, from, IF room < Len(q) THEN room ELSE Len(q))
    BY DEF Filled, b
  <2>2. n + 1 + kMaxPendingWrites - n - 1 = kMaxPendingWrites
    BY <1>1
  <2>3. QED
    BY <1>3, <2>1, <2>2
<1>5. m \in Nat /\ n =< m /\ m =< Len(q) /\ m =< kMaxPendingWrites
  BY <1>1
<1> HIDE DEF m, n
<1>6. SubSeq(q, 1, n) \o SubSeq(q, n + 1, m) = SubSeq(q, 1, m)
  <2>1. 1 \in 1 .. Len(q) + 1 /\ n \in 1 - 1 .. Len(q) /\ m \in n .. Len(q)
    BY <1>1, <1>5
  <2>2. QED
    BY <2>1, ConcatAdjacentSubSeq
<1>7. Filled(p, q) = SubSeq(q, 1, m)
  BY <1>1, <1>4, <1>6
<1>8. Filled(p, q) \in Seq(Batches) /\ Len(Filled(p, q)) = m
  BY <1>1, <1>5, <1>7, PrefixElements
<1>9. q # << >> => m # 0
  BY <1>1, EmptySeq DEF m
<1>10. QED
  BY <1>1, <1>5, <1>7, <1>8, <1>9, EmptySeq DEF IsPrefixOf, n

(* The oldest batch of a queue is found by its id.                         *)
LEMMA RemovedHead ==
  ASSUME NEW q \in Seq(Batches), Increasing(q), q # << >>
  PROVE  Removed(q, q[1]) = Tail(q)
<1>1. Len(q) \in Nat \ {0} /\ q[1] \in Batches
  BY EmptySeq, ElementOfSeq
<1>2. q[1].id \in Nat
  BY <1>1, SessionsAssumption DEF Batches
<1>3. FirstAfter(q, q[1].id - 1) = 1
  <2> DEFINE P(i) == /\ i = Len(q) + 1 \/ q[i].id > q[1].id - 1
                     /\ \A j \in 1 .. i - 1 : q[j].id =< q[1].id - 1
  <2>1. 1 \in 1 .. Len(q) + 1 /\ P(1)
    BY <1>1, <1>2
  <2>2. ASSUME NEW i \in 1 .. Len(q) + 1, P(i) PROVE i = 1
    <3>1. ~(1 \in 1 .. i - 1)
      BY <1>2, <2>2
    <3>2. QED
      BY <1>1, <3>1
  <2>3. FirstAfter(q, q[1].id - 1) = CHOOSE i \in 1 .. Len(q) + 1 : P(i)
    BY DEF FirstAfter
  <2> HIDE DEF P
  <2>4. QED
    BY <2>1, <2>2, <2>3
<1>4. Removed(q, q[1]) = SubSeq(q, 1, 0) \o SubSeq(q, 2, Len(q))
  <2> DEFINE at == FirstAfter(q, q[1].id - 1)
  <2>1. Removed(q, q[1]) = SubSeq(q, 1, at - 1) \o SubSeq(q, at + 1, Len(q))
    BY Zenon DEF Removed
  <2>2. at - 1 = 0 /\ at + 1 = 2
    BY <1>3
  <2>3. QED
    BY <2>1, <2>2, Zenon
<1>5. SubSeq(q, 1, 0) = << >>
  BY SubSeqEmpty
<1>6. Tail(q) = SubSeq(q, 2, Len(q)) /\ Tail(q) \in Seq(Batches)
  BY TailIsSubSeq, HeadTailProperties
<1>7. QED
  BY <1>4, <1>5, <1>6, ConcatEmptySeq

(* When the oldest batch is done, the rest of the pipeline is the          *)
(* beginning of the rest of the queue.                                     *)
LEMMA TailPrefix ==
  ASSUME NEW q \in Seq(Batches), NEW p \in Seq(Batches), IsPrefixOf(p, q), p # << >>
  PROVE  /\ q # << >> /\ Head(p) = q[1]
         /\ Tail(p) \in Seq(Batches) /\ Tail(q) \in Seq(Batches)
         /\ Len(Tail(p)) = Len(p) - 1
         /\ IsPrefixOf(Tail(p), Tail(q))
<1>1. /\ Len(p) \in Nat \ {0} /\ Len(q) \in Nat /\ Len(p) \in 0 .. Len(q)
      /\ p = SubSeq(q, 1, Len(p))
  BY EmptySeq, LenProperties DEF IsPrefixOf
<1>2. q # << >>
  BY <1>1, EmptySeq
<1>3. /\ Tail(p) \in Seq(Batches) /\ Len(Tail(p)) = Len(p) - 1
      /\ \A i \in 1 .. Len(Tail(p)) : Tail(p)[i] = p[i + 1]
  BY HeadTailProperties
<1>4. /\ Tail(q) \in Seq(Batches) /\ Len(Tail(q)) = Len(q) - 1
      /\ \A i \in 1 .. Len(Tail(q)) : Tail(q)[i] = q[i + 1]
  BY <1>2, HeadTailProperties
<1>5. \A i \in 1 .. Len(p) : p[i] = q[i]
  BY <1>1, PrefixElements
<1>6. Head(p) = q[1]
  BY <1>1, <1>5
<1> DEFINE n == Len(p) - 1
<1>7. n \in 0 .. Len(Tail(q))
  BY <1>1, <1>4
<1>8. /\ SubSeq(Tail(q), 1, n) \in Seq(Batches) /\ Len(SubSeq(Tail(q), 1, n)) = n
      /\ \A i \in 1 .. n : SubSeq(Tail(q), 1, n)[i] = Tail(q)[i]
  BY <1>4, <1>7, PrefixElements
<1>9. \A i \in 1 .. n : Tail(p)[i] = Tail(q)[i]
  BY <1>1, <1>3, <1>4, <1>5
<1>10. Tail(p) = SubSeq(Tail(q), 1, n)
  BY <1>3, <1>8, <1>9, SeqEqual
<1>11. QED
  BY <1>1, <1>2, <1>3, <1>4, <1>6, <1>7, <1>10 DEF IsPrefixOf

(* A queue that grows keeps its beginnings.                                *)
LEMMA AppendPrefix ==
  ASSUME NEW q \in Seq(Batches), NEW p \in Seq(Batches), IsPrefixOf(p, q), NEW b \in Batches
  PROVE  IsPrefixOf(p, Append(q, b))
<1>1. /\ Len(p) \in Nat /\ Len(q) \in Nat /\ Len(p) \in 0 .. Len(q)
      /\ p = SubSeq(q, 1, Len(p))
  BY LenProperties DEF IsPrefixOf
<1>2. /\ Append(q, b) \in Seq(Batches) /\ Len(Append(q, b)) = Len(q) + 1
      /\ \A i \in 1 .. Len(q) : Append(q, b)[i] = q[i]
  BY AppendProperties
<1> DEFINE s == SubSeq(Append(q, b), 1, Len(p))
<1>3. s \in Seq(Batches) /\ Len(s) = Len(p) /\ \A i \in 1 .. Len(p) : s[i] = Append(q, b)[i]
  BY <1>1, <1>2, PrefixElements
<1>4. \A i \in 1 .. Len(p) : p[i] = q[i]
  BY <1>1, PrefixElements
<1>5. \A i \in 1 .. Len(p) : s[i] = p[i]
  BY <1>1, <1>2, <1>3, <1>4
<1> HIDE DEF s
<1>6. s = p
  BY <1>3, <1>5, SeqEqual
<1>7. QED
  BY <1>1, <1>2, <1>6 DEF IsPrefixOf, s

(* Nothing in the pipeline.                                                *)
LEMMA EmptyPrefix ==
  ASSUME NEW q \in Seq(Batches)
  PROVE  << >> \in Seq(Batches) /\ Len(<< >>) = 0 /\ IsPrefixOf(<< >>, q)
<1>1. << >> \in Seq(Batches) /\ Len(<< >>) = 0 /\ Len(q) \in Nat
  BY EmptySeq, LenProperties
<1>2. SubSeq(q, 1, 0) = << >>
  BY SubSeqEmpty
<1>3. QED
  BY <1>1, <1>2 DEF IsPrefixOf

LEMMA NoCallType == NoCall \in Calls /\ NoCall.applied = 0 /\ ~NoCall.handshake
<1>1. << >> \in Seq(Users)
  BY EmptySeq
<1>2. QED
  BY <1>1 DEF NoCall, Calls

-----------------------------------------------------------------------------
(* The remote store.                                                       *)

(* The stream is started if there is something to send.                    *)
LEMMA StartSound ==
  ASSUME NEW u, NEW q, NEW r, NearlySound(r, u, q)
  PROVE  /\ Sound(StartWriteStream(r), u, q)
         /\ StartWriteStream(r).call = r.call
         /\ IsStarted(r.stream) => StartWriteStream(r) = r
<1>1. CASE ~IsStarted(r.stream) /\ r.pipeline # << >>
  <2> DEFINE s == StreamStart(r.stream)
             t == StartWriteStream(r)
  <2>1. /\ s \in Streams /\ IsStarted(s) /\ ~IsOpen(s) /\ s.idle = r.stream.idle
        /\ "current" \in s.requests => s.state = "Starting"
    BY <1>1 DEF NearlySound, Remotes, Streams, StreamStart, RequestCredentials, IsStarted, IsOpen
  <2>2. t = [r EXCEPT !.stream = s]
    BY <1>1 DEF StartWriteStream
  <2> HIDE DEF s, t
  <2>3. /\ t \in Remotes /\ t.stream = s /\ t.call = r.call /\ t.pipeline = r.pipeline
    BY <2>1, <2>2 DEF NearlySound, Remotes
  <2>4. ~IsOpen(r.stream)
    BY <1>1 DEF IsStarted, IsOpen
  <2>5. Sound(t, u, q)
    BY <2>1, <2>3, <2>4 DEF Sound, NearlySound
  <2>6. QED
    BY <1>1, <2>3, <2>5 DEF t
<1>2. CASE ~(~IsStarted(r.stream) /\ r.pipeline # << >>)
  BY <1>2 DEF StartWriteStream, Sound
<1>3. QED
  BY <1>1, <1>2

(* FillWritePipeline, over an open stream only with a finished handshake   *)
(* or something to send (or the idleness timer would run before the        *)
(* handshake).                                                             *)
LEMMA FillSound ==
  ASSUME NEW u, NEW q \in Seq(Batches), Increasing(q), NEW r, NearlySound(r, u, q),
         IsOpen(r.stream) => r.call.handshake \/ q # << >>
  PROVE  /\ Sound(FillWritePipeline(r, q), u, q)
         /\ FillWritePipeline(r, q).call = r.call
         /\ IsStarted(r.stream) => /\ FillWritePipeline(r, q).stream.state = r.stream.state
                                   /\ FillWritePipeline(r, q).stream.requests = r.stream.requests
<1> DEFINE p == Filled(r.pipeline, q)
           s == IF p = << >> THEN MarkIdle(r.stream)
                ELSE IF p # r.pipeline /\ IsOpen(r.stream) /\ r.call.handshake
                THEN StreamWrite(r.stream) ELSE r.stream
           t == [r EXCEPT !.pipeline = p, !.stream = s]
<1>1. FillWritePipeline(r, q) = StartWriteStream(t)
  BY DEF FillWritePipeline
<1>2. /\ r \in Remotes /\ r.pipeline \in Seq(Batches) /\ r.stream \in Streams /\ r.call \in Calls
      /\ IsPrefixOf(r.pipeline, q) /\ Len(r.pipeline) =< kMaxPendingWrites
  BY DEF NearlySound, Remotes
<1>3. /\ p \in Seq(Batches) /\ IsPrefixOf(p, q)
      /\ Len(r.pipeline) =< Len(p) /\ Len(p) =< kMaxPendingWrites
      /\ q # << >> => p # << >>
  BY <1>2, FilledPrefix
<1>4. Len(r.pipeline) \in Nat /\ Len(p) \in Nat
  BY <1>2, <1>3, LenProperties
<1> HIDE DEF p
<1>5. /\ s \in Streams /\ s.state = r.stream.state /\ s.requests = r.stream.requests
      /\ s.idle => IsOpen(r.stream) /\ p = << >> /\ r.call.handshake
  <2>1. CASE p = << >>
    BY <1>2, <1>3, <2>1 DEF MarkIdle, Streams, IsOpen, NearlySound
  <2>2. CASE p # << >> /\ p # r.pipeline /\ IsOpen(r.stream) /\ r.call.handshake
    BY <1>2, <2>2 DEF StreamWrite, Streams
  <2>3. CASE p # << >> /\ ~(p # r.pipeline /\ IsOpen(r.stream) /\ r.call.handshake)
    BY <1>2, <2>3 DEF NearlySound
  <2>4. QED
    BY <2>1, <2>2, <2>3
<1> HIDE DEF s
<1>6. t \in Remotes /\ t.pipeline = p /\ t.stream = s /\ t.call = r.call
  BY <1>2, <1>3, <1>5 DEF Remotes
<1> HIDE DEF t
<1>7. IsOpen(s) <=> IsOpen(r.stream)
  BY <1>5 DEF IsOpen
<1>8. r.call.applied \in Nat
  BY <1>2 DEF Calls
<1>9. NearlySound(t, u, q)
  BY <1>3, <1>4, <1>5, <1>6, <1>7, <1>8 DEF NearlySound
<1>10. IsStarted(r.stream) => IsStarted(t.stream)
  BY <1>5, <1>6 DEF IsStarted
<1>11. QED
  BY <1>1, <1>5, <1>6, <1>9, <1>10, StartSound

(* A closed stream, stopped or failed, leaves the pipeline to be sent      *)
(* again.                                                                  *)
Stopped(r) == Closed(r, TRUE)
Failed(r) == Closed(r, FALSE)

LEMMA ClosedSound ==
  ASSUME NEW u, NEW q, NEW r, NearlySound(r, u, q),
         NEW t, t = Stopped(r) \/ t = Failed(r)
  PROVE  /\ NearlySound(t, u, q)
         /\ t.call = NoCall /\ t.pipeline = r.pipeline /\ ~IsStarted(t.stream)
<1>1. PICK s \in Streams : /\ ~s.idle /\ "current" \notin s.requests
                           /\ ~IsStarted(s) /\ ~IsOpen(s)
                           /\ t = [r EXCEPT !.stream = s, !.call = NoCall]
  <2>1. ASSUME NEW g \in BOOLEAN, t = Closed(r, g)
        PROVE  /\ StreamClose(r.stream, g) \in Streams
               /\ ~StreamClose(r.stream, g).idle /\ "current" \notin StreamClose(r.stream, g).requests
               /\ ~IsStarted(StreamClose(r.stream, g)) /\ ~IsOpen(StreamClose(r.stream, g))
               /\ t = [r EXCEPT !.stream = StreamClose(r.stream, g), !.call = NoCall]
    BY <2>1 DEF Closed, StreamClose, Streams, IsStarted, IsOpen
  <2>2. \E g \in BOOLEAN : t = Closed(r, g)
    BY DEF Stopped, Failed
  <2>3. QED
    BY <2>1, <2>2
<1>2. t \in Remotes /\ t.stream = s /\ t.call = NoCall /\ t.pipeline = r.pipeline
  BY <1>1, NoCallType DEF NearlySound, Remotes
<1>3. Len(t.pipeline) \in Nat
  BY <1>2, LenProperties DEF Remotes
<1>4. NearlySound(t, u, q)
  BY <1>1, <1>2, <1>3, NoCallType DEF NearlySound
<1>5. QED
  BY <1>1, <1>2, <1>4

(* Both streams are stopped and the pipeline is emptied and filled anew,   *)
(* from the queue of whoever is the user now.                              *)
LEMMA RestartSound ==
  ASSUME NEW v, NEW p, NEW r, Sound(r, v, p),
         NEW u, NEW q \in Seq(Batches), Increasing(q)
  PROVE  /\ Sound(RestartNetwork(r, q), u, q)
         /\ RestartNetwork(r, q).call = NoCall
<1> DEFINE s == InhibitBackoff(StreamStop(r.stream))
           t == [stream |-> s, call |-> NoCall, pipeline |-> << >>]
<1>1. s \in Streams /\ ~s.idle /\ "current" \notin s.requests /\ ~IsOpen(s)
  BY DEF Sound, NearlySound, Remotes, Streams, InhibitBackoff, StreamStop, StreamClose, IsStarted, IsOpen
<1> HIDE DEF s
<1>2. RestartNetwork(r, q) = FillWritePipeline(t, q)
  BY DEF RestartNetwork, s
<1>3. t \in Remotes /\ t.stream = s /\ t.call = NoCall /\ t.pipeline = << >>
  BY <1>1, EmptyPrefix, NoCallType DEF Remotes
<1> HIDE DEF t
<1>4. NearlySound(t, u, q)
  BY <1>1, <1>3, EmptyPrefix, NoCallType, SessionsAssumption DEF NearlySound
<1>5. QED
  BY <1>1, <1>2, <1>3, <1>4, FillSound

-----------------------------------------------------------------------------
(* The worker queue.                                                       *)

LEMMA OutdatedType ==
  ASSUME NEW ops \in Seq(Ops)
  PROVE  /\ Outdated(ops) \in Seq(Ops)
         /\ Len(Outdated(ops)) = Len(ops)
         /\ \A i \in 1 .. Len(ops) : /\ Outdated(ops)[i].op = ops[i].op
                                     /\ Outdated(ops)[i].user = ops[i].user
                                     /\ ~Outdated(ops)[i].fresh
<1> DEFINE s == Outdated(ops)
<1>1. Len(ops) \in Nat /\ \A i \in 1 .. Len(ops) : ops[i] \in Ops
  BY LenProperties, ElementOfSeq
<1>2. /\ DOMAIN s = 1 .. Len(ops)
      /\ \A i \in 1 .. Len(ops) : s[i] = [ops[i] EXCEPT !.fresh = FALSE]
      /\ s = [i \in 1 .. Len(ops) |-> s[i]]
  BY DEF Outdated
<1> HIDE DEF s
<1>3. \A i \in 1 .. Len(ops) : s[i] \in Ops /\ s[i].op = ops[i].op /\ s[i].user = ops[i].user
                               /\ ~s[i].fresh
  BY <1>1, <1>2 DEF Ops
<1>4. s \in [1 .. Len(ops) -> Ops]
  BY <1>2, <1>3
<1>5. s \in Seq(Ops)
  BY <1>1, <1>4, SeqDef
<1>6. Len(s) = Len(ops)
  BY <1>1, <1>2, <1>5, LenProperties
<1>7. QED
  BY <1>3, <1>5, <1>6 DEF s

(* An operation is enqueued; it carries the user of FirebaseAuth.          *)
LEMMA EnqueueOrder ==
  ASSUME worker \in Seq(Ops), WorkerInOrder,
         NEW o \in Ops, worker' = Append(worker, o), user' = user, auth' = o.user,
         o.op # "change" => o.user = auth
  PROVE  worker' \in Seq(Ops) /\ WorkerInOrder'
<1> DEFINE n == Len(worker)
<1>1. /\ n \in Nat /\ worker' \in Seq(Ops) /\ Len(worker') = n + 1
      /\ worker'[n + 1] = o /\ \A i \in 1 .. n : worker'[i] = worker[i]
  BY AppendProperties, LenProperties
<1>2. \A i \in 1 .. n + 1 : UserBefore(worker', user', i) = UserBefore(worker, user, i)
  BY <1>1 DEF UserBefore
<1>3. auth = UserBefore(worker, user, n + 1)
  BY DEF WorkerInOrder
<1>4. \A i \in 1 .. n + 1 : worker'[i].op # "change" => worker'[i].user = UserBefore(worker, user, i)
  <2> SUFFICES ASSUME NEW i \in 1 .. n + 1, worker'[i].op # "change"
               PROVE  worker'[i].user = UserBefore(worker, user, i)
    OBVIOUS
  <2>1. CASE i = n + 1
    BY <1>1, <1>3, <2>1
  <2>2. CASE i \in 1 .. n
    BY <1>1, <2>2 DEF WorkerInOrder
  <2>3. QED
    BY <1>1, <2>1, <2>2
<1>5. UserBefore(worker', user', n + 2) = o.user
  BY <1>1 DEF UserBefore
<1>6. Len(worker') + 1 = n + 2
  BY <1>1
<1> HIDE DEF n
<1>7. QED
  BY <1>1, <1>2, <1>4, <1>5, <1>6 DEF WorkerInOrder

LEMMA EnqueueCounted ==
  ASSUME worker \in Seq(Ops), WritesCounted, NEW o \in Ops, worker' = Append(worker, o),
         written' = written, inputs \in Nat, inputs' \in Nat, inputs =< inputs',
         o.op = "write" => inputs < inputs'
  PROVE  WritesCounted'
<1> DEFINE n == Len(worker)
<1>1. /\ n \in Nat /\ Len(worker') = n + 1
      /\ worker'[n + 1] = o /\ \A i \in 1 .. n : worker'[i] = worker[i]
  BY AppendProperties, LenProperties
<1>2. PICK c \in [0 .. n -> 0 .. inputs] :
        /\ written =< c[0]
        /\ \A i \in 1 .. n : c[i - 1] =< c[i] /\ (worker[i].op = "write" => c[i - 1] < c[i])
  BY DEF WritesCounted
<1> DEFINE d == [i \in 0 .. n + 1 |-> IF i = n + 1 THEN inputs' ELSE c[i]]
<1>3. \A i \in 0 .. n : i \in 0 .. n + 1 /\ i # n + 1
  BY <1>1
<1>4. /\ \A i \in 0 .. n : d[i] = c[i]
      /\ d[n + 1] = inputs'
      /\ d \in [0 .. n + 1 -> 0 .. inputs']
  BY <1>1, <1>2, <1>3
<1> HIDE DEF d
<1>5. \A i \in 1 .. n + 1 : d[i - 1] =< d[i] /\ (worker'[i].op = "write" => d[i - 1] < d[i])
  <2> SUFFICES ASSUME NEW i \in 1 .. n + 1
               PROVE  d[i - 1] =< d[i] /\ (worker'[i].op = "write" => d[i - 1] < d[i])
    OBVIOUS
  <2>1. CASE i = n + 1
    <3>1. i - 1 = n /\ n \in 0 .. n /\ d[i - 1] = c[n] /\ d[i] = inputs'
      BY <1>1, <1>4, <2>1
    <3>2. c[n] \in 0 .. inputs /\ worker'[i].op = o.op
      BY <1>1, <1>2, <2>1, <3>1
    <3>3. QED
      BY <3>1, <3>2
  <2>2. CASE i \in 1 .. n
    <3>1. i - 1 \in 0 .. n /\ i \in 0 .. n /\ d[i - 1] = c[i - 1] /\ d[i] = c[i]
      BY <1>1, <1>4, <2>2
    <3>2. QED
      BY <1>1, <1>2, <2>2, <3>1
  <2>3. QED
    BY <1>1, <2>1, <2>2
<1>6. written' =< d[0]
  BY <1>1, <1>2, <1>4
<1>7. QED
  BY <1>1, <1>4, <1>5, <1>6 DEF WritesCounted

(* The first operation leaves; it becomes the current user's, if it was    *)
(* not already.                                                            *)
LEMMA DequeueOrder ==
  ASSUME worker \in Seq(Ops), worker # << >>, WorkerInOrder,
         worker' \in Seq(Ops), Len(worker') = Len(worker) - 1,
         \A i \in 1 .. Len(worker') : /\ worker'[i].op = worker[i + 1].op
                                      /\ worker'[i].user = worker[i + 1].user,
         user' = worker[1].user, auth' = auth
  PROVE  WorkerInOrder'
<1> DEFINE n == Len(worker)
<1>1. n \in Nat \ {0} /\ Len(worker') = n - 1
  BY EmptySeq
<1>2. \A i \in 1 .. n : i + 1 \in 1 .. n + 1 /\ UserBefore(worker', user', i) = UserBefore(worker, user, i + 1)
  BY <1>1 DEF UserBefore
<1>3. \A i \in 1 .. n - 1 : worker'[i].op # "change" => worker'[i].user = UserBefore(worker', user', i)
  BY <1>1, <1>2 DEF WorkerInOrder
<1>4. auth' = UserBefore(worker', user', n)
  BY <1>1, <1>2 DEF WorkerInOrder
<1>5. Len(worker') + 1 = n
  BY <1>1
<1> HIDE DEF n
<1>6. QED
  BY <1>1, <1>3, <1>4, <1>5 DEF WorkerInOrder

LEMMA DequeueCounted ==
  ASSUME worker \in Seq(Ops), worker # << >>, WritesCounted,
         worker' \in Seq(Ops), Len(worker') = Len(worker) - 1,
         \A i \in 1 .. Len(worker') : worker'[i].op = worker[i + 1].op,
         inputs' = inputs, inputs \in Nat, written \in Nat,
         written' = written \/ (worker[1].op = "write" /\ written' = written + 1)
  PROVE  WritesCounted' /\ written' =< inputs
<1> DEFINE n == Len(worker)
<1>1. n \in Nat \ {0} /\ Len(worker') = n - 1
  BY EmptySeq
<1>2. PICK c \in [0 .. n -> 0 .. inputs] :
        /\ written =< c[0]
        /\ \A i \in 1 .. n : c[i - 1] =< c[i] /\ (worker[i].op = "write" => c[i - 1] < c[i])
  BY DEF WritesCounted
<1> DEFINE d == [i \in 0 .. n - 1 |-> c[i + 1]]
<1>3. \A i \in 0 .. n - 1 : i + 1 \in 0 .. n /\ c[i + 1] \in 0 .. inputs
  <2>1. \A i \in 0 .. n - 1 : i + 1 \in 0 .. n
    BY <1>1
  <2> HIDE DEF n
  <2>2. QED
    BY <1>2, <2>1
<1>4. d \in [0 .. n - 1 -> 0 .. inputs'] /\ \A i \in 0 .. n - 1 : d[i] = c[i + 1]
  BY <1>3
<1> HIDE DEF d
<1>5. \A i \in 1 .. n - 1 : d[i - 1] =< d[i] /\ (worker'[i].op = "write" => d[i - 1] < d[i])
  <2> SUFFICES ASSUME NEW i \in 1 .. n - 1
               PROVE  d[i - 1] =< d[i] /\ (worker'[i].op = "write" => d[i - 1] < d[i])
    OBVIOUS
  <2>1. /\ i - 1 \in 0 .. n - 1 /\ i \in 0 .. n - 1 /\ (i - 1) + 1 = i /\ i + 1 \in 1 .. n
        /\ (i + 1) - 1 = i
    BY <1>1
  <2>2. d[i - 1] = c[i] /\ d[i] = c[i + 1]
    BY <1>4, <2>1
  <2>3. c[i] =< c[i + 1] /\ (worker[i + 1].op = "write" => c[i] < c[i + 1])
    BY <1>2, <2>1
  <2>4. QED
    BY <1>1, <2>2, <2>3
<1>6. d[0] = c[1] /\ c[0] =< c[1] /\ (worker[1].op = "write" => c[0] < c[1])
  <2>1. 1 \in 1 .. n /\ 0 \in 0 .. n - 1 /\ 1 - 1 = 0 /\ 0 + 1 = 1
    BY <1>1
  <2>2. QED
    BY <1>2, <1>4, <2>1
<1>7. c[0] \in 0 .. inputs /\ c[1] \in 0 .. inputs
  <2>1. 0 \in 0 .. n /\ 1 \in 0 .. n
    BY <1>1
  <2> HIDE DEF n
  <2>2. QED
    BY <1>2, <2>1
<1>8. written' =< d[0] /\ written' =< inputs
  BY <1>2, <1>6, <1>7
<1>9. QED
  BY <1>1, <1>4, <1>5, <1>8 DEF WritesCounted

(* The connection changes: the same operations wait, credentials perhaps   *)
(* outdated.                                                               *)
LEMMA WaitingOrder ==
  ASSUME WorkerInOrder, WritesCounted, worker \in Seq(Ops),
         Len(worker') = Len(worker),
         \A i \in 1 .. Len(worker) : worker'[i].op = worker[i].op /\ worker'[i].user = worker[i].user,
         user' = user, auth' = auth, written' = written,
         inputs \in Nat, inputs' \in Nat, inputs =< inputs'
  PROVE  WorkerInOrder' /\ WritesCounted'
<1> DEFINE n == Len(worker)
<1>1. n \in Nat
  BY LenProperties
<1>2. \A i \in 1 .. n + 1 : UserBefore(worker', user', i) = UserBefore(worker, user, i)
  BY <1>1 DEF UserBefore
<1>3. WorkerInOrder'
  <2>1. n + 1 \in 1 .. n + 1 /\ \A i \in 1 .. n : i \in 1 .. n + 1
    BY <1>1
  <2>2. QED
    BY <1>2, <2>1 DEF WorkerInOrder
<1>4. PICK c \in [0 .. n -> 0 .. inputs] :
        /\ written =< c[0]
        /\ \A i \in 1 .. n : c[i - 1] =< c[i] /\ (worker[i].op = "write" => c[i - 1] < c[i])
  BY DEF WritesCounted
<1>5. c \in [0 .. n -> 0 .. inputs']
  BY <1>1, <1>4
<1>6. WritesCounted'
  BY <1>4, <1>5 DEF WritesCounted
<1>7. QED
  BY <1>3, <1>6

-----------------------------------------------------------------------------
(* The invariant, from its parts and to them.                              *)

LEMMA InvParts ==
  ASSUME IInv
  PROVE  /\ auth \in Users /\ user \in Users /\ worker \in Seq(Ops)
         /\ queue \in [Users -> Seq(Batches)] /\ queue[user] \in Seq(Batches)
         /\ Increasing(queue[user])
         /\ written \in 0 .. MaxInputs /\ inputs \in 0 .. MaxInputs
         /\ written \in Nat /\ inputs \in Nat
         /\ remote \in Remotes /\ remote.stream \in Streams /\ remote.call \in Calls
         /\ remote.pipeline \in Seq(Batches)
         /\ IsPrefixOf(remote.pipeline, queue[user])
<1>1. TypeOK /\ Sound(remote, user, queue[user]) /\ QueuesSound
  BY DEF IInv
<1>2. auth \in Users /\ user \in Users /\ worker \in Seq(Ops) /\ queue \in [Users -> Seq(Batches)]
  BY <1>1 DEF TypeOK, Ops
<1>3. Increasing(queue[user]) /\ queue[user] \in Seq(Batches)
  BY <1>1, <1>2 DEF QueuesSound
<1>4. written \in 0 .. MaxInputs /\ inputs \in 0 .. MaxInputs /\ MaxInputs \in Nat
  BY <1>1, SessionsAssumption DEF TypeOK
<1>5. remote \in Remotes /\ IsPrefixOf(remote.pipeline, queue[user])
  BY <1>1 DEF Sound, NearlySound
<1>6. QED
  BY <1>2, <1>3, <1>4, <1>5 DEF Remotes

LEMMA InvFromParts ==
  ASSUME auth' \in Users, user' \in Users, worker' \in Seq(Ops),
         queue' \in [Users -> Seq(Batches)],
         written' \in 0 .. MaxInputs, inputs' \in 0 .. MaxInputs,
         Sound(remote', user', queue'[user']), FreshSound(worker', remote'.stream),
         QueuesSound', WorkerInOrder', WritesCounted', SentAsAuthor'
  PROVE  IInv'
<1>1. /\ remote' \in Remotes /\ Len(remote'.pipeline) =< kMaxPendingWrites
      /\ remote'.call.applied =< Len(remote'.pipeline)
  BY DEF Sound, NearlySound
<1>2. Len(remote'.pipeline) \in Nat
  BY <1>1, LenProperties DEF Remotes
<1>3. TypeOK'
  BY <1>1, <1>2 DEF TypeOK, Ops, Remotes, Calls
<1>4. Sound(remote, user, queue[user])'
  BY DEF Sound, NearlySound, IsPrefixOf, IsOpen, IsStarted
<1>5. FreshSound(worker, remote.stream)'
  BY DEF FreshSound
<1>6. QED
  BY <1>3, <1>4, <1>5 DEF IInv

LEMMA QueuesKept == QueuesSound /\ UNCHANGED <<queue, written>> => QueuesSound'
  BY DEF QueuesSound, Increasing

(* What every operation of the worker queue but a change of user does to   *)
(* the worker queue.                                                       *)
LEMMA RunOperation ==
  ASSUME IInv, worker # << >>, worker' = Tail(worker), worker[1].op # "change",
         UNCHANGED <<auth, user, inputs>>,
         written' = written \/ (worker[1].op = "write" /\ written' = written + 1)
  PROVE  /\ worker' \in Seq(Ops) /\ WorkerInOrder' /\ WritesCounted'
         /\ written' \in 0 .. MaxInputs
         /\ Head(worker) = worker[1] /\ worker[1] \in Ops /\ worker[1].user = user
         /\ \A i \in 1 .. Len(worker') : worker'[i].fresh => ~worker[1].fresh
         /\ \A s : FreshSound(worker, s) => FreshSound(worker', s)
<1>1. worker \in Seq(Ops) /\ inputs \in 0 .. MaxInputs /\ inputs \in Nat /\ written \in Nat
  BY InvParts
<1>2. /\ Len(worker) \in Nat \ {0} /\ worker' \in Seq(Ops) /\ Len(worker') = Len(worker) - 1
      /\ \A i \in 1 .. Len(worker') : worker'[i] = worker[i + 1]
      /\ worker[1] \in Ops
  BY <1>1, EmptySeq, HeadTailProperties, ElementOfSeq
<1>3. worker[1].user = user
  BY <1>2 DEF IInv, WorkerInOrder, UserBefore
<1>4. WorkerInOrder'
  BY <1>1, <1>2, <1>3, DequeueOrder DEF IInv
<1>5. WritesCounted' /\ written' =< inputs
  BY <1>1, <1>2, DequeueCounted DEF IInv
<1>6. written' \in 0 .. MaxInputs
  BY <1>1, <1>5, SessionsAssumption
<1>7. \A i \in 1 .. Len(worker') : i + 1 \in 1 .. Len(worker) /\ 1 \in 1 .. Len(worker) /\ i + 1 # 1
  BY <1>2
<1>8. \A i \in 1 .. Len(worker') : worker'[i].fresh => ~worker[1].fresh
  BY <1>2, <1>7 DEF IInv, FreshSound
<1>9. ASSUME NEW s, FreshSound(worker, s) PROVE FreshSound(worker', s)
  <2> SUFFICES ASSUME NEW i \in 1 .. Len(worker'), worker'[i].fresh
               PROVE  /\ s.state = "Starting" /\ "current" \notin s.requests
                      /\ \A j \in 1 .. Len(worker') : worker'[j].fresh => i = j
    BY DEF FreshSound
  <2>1. s.state = "Starting" /\ "current" \notin s.requests
    BY <1>2, <1>7, <1>9 DEF FreshSound
  <2>2. ASSUME NEW j \in 1 .. Len(worker'), worker'[j].fresh PROVE i = j
    <3>1. i + 1 = j + 1
      BY <1>2, <1>7, <1>9, <2>2 DEF FreshSound
    <3>2. QED
      BY <3>1
  <2>3. QED
    BY <2>1, <2>2
<1>10. QED
  BY <1>2, <1>3, <1>4, <1>5, <1>6, <1>8, <1>9

(* The stream changes under the same call and pipeline.                    *)
LEMMA StreamSound ==
  ASSUME NEW r, NEW u, NEW q, Sound(r, u, q), NEW s \in Streams,
         IsOpen(s) <=> IsOpen(r.stream), IsStarted(r.stream) => IsStarted(s),
         "current" \in s.requests => s.state = "Starting", s.idle => r.stream.idle
  PROVE  /\ Sound([r EXCEPT !.stream = s], u, q)
         /\ [r EXCEPT !.stream = s].stream = s
         /\ [r EXCEPT !.stream = s].call = r.call
         /\ [r EXCEPT !.stream = s].pipeline = r.pipeline
<1> DEFINE t == [r EXCEPT !.stream = s]
<1>1. t \in Remotes /\ t.stream = s /\ t.call = r.call /\ t.pipeline = r.pipeline
  BY DEF Sound, NearlySound, Remotes
<1> HIDE DEF t
<1>2. Sound(t, u, q)
  BY <1>1 DEF Sound, NearlySound
<1>3. QED
  BY <1>1, <1>2 DEF t

-----------------------------------------------------------------------------
(* Nothing is queued and nothing is started.                               *)
LEMMA InitInv == Init => IInv
<1> SUFFICES ASSUME Init PROVE IInv
  OBVIOUS
<1>1. << >> \in Seq(Ops) /\ << >> \in Seq(Batches) /\ Len(<< >>) = 0
  BY EmptySeq
<1>2. /\ auth \in Users /\ user = auth /\ worker = << >> /\ last = << >> /\ written = 0 /\ inputs = 0
      /\ queue \in [Users -> Seq(Batches)] /\ \A u \in Users : queue[u] = << >>
      /\ remote = NewRemote
  BY <1>1 DEF Init
<1>3. /\ remote \in Remotes /\ remote.pipeline = << >> /\ remote.call = NoCall
      /\ remote.stream = NewStream
  BY <1>1, <1>2, NoCallType DEF NewRemote, Remotes, NewStream, Streams
<1>4. TypeOK
  <2>1. worker \in Seq(Ops) /\ auth \in Users /\ user \in Users
    BY <1>1, <1>2
  <2>2. remote.stream \in Streams /\ remote.pipeline \in Seq(Batches)
    BY <1>3 DEF Remotes
  <2>3. /\ Len(remote.pipeline) = 0 /\ remote.call.handshake \in BOOLEAN
        /\ remote.call.applied \in 0 .. Len(remote.pipeline)
    BY <1>1, <1>3 DEF NoCall
  <2>4. QED
    BY <1>2, <2>1, <2>2, <2>3, SessionsAssumption DEF TypeOK, Ops
<1>5. QueuesSound /\ WorkerInOrder /\ SentAsAuthor
  BY <1>1, <1>2 DEF QueuesSound, Increasing, WorkerInOrder, UserBefore, SentAsAuthor
<1>6. WritesCounted
  <2> DEFINE c == [i \in 0 .. 0 |-> 0]
  <2>1. c \in [0 .. Len(worker) -> 0 .. inputs] /\ c[0] = 0 /\ Len(worker) = 0
    BY <1>1, <1>2
  <2> HIDE DEF c
  <2>2. written =< c[0] /\ \A i \in 1 .. Len(worker) : FALSE
    BY <1>2, <2>1
  <2>3. QED
    BY <2>1, <2>2 DEF WritesCounted
<1>7. FreshSound(worker, remote.stream)
  BY <1>1, <1>2 DEF FreshSound
<1>8. Sound(remote, user, queue[user])
  <2>1. ~IsOpen(NewStream) /\ ~NewStream.idle /\ "current" \notin NewStream.requests
    BY DEF IsOpen, NewStream
  <2>2. IsPrefixOf(<< >>, queue[user])
    BY <1>2, EmptyPrefix
  <2>3. QED
    BY <1>1, <1>3, <2>1, <2>2, NoCallType, SessionsAssumption DEF Sound, NearlySound
<1>9. QED
  BY <1>4, <1>5, <1>6, <1>7, <1>8 DEF IInv

(* A sign-in or a sign-out, and a write of the app.                        *)
LEMMA EnqueueInv ==
  ASSUME IInv, AppWrite \/ \E u \in Users : CredentialChange(u)
  PROVE  IInv'
<1>1. PICK o \in Ops :
        /\ worker' = Append(worker, o) /\ auth' = o.user /\ ~o.fresh
        /\ o.op # "change" => o.user = auth
  <2>1. CASE AppWrite
    <3>1. Op("write", auth, FALSE) \in Ops
      BY InvParts DEF Op, Ops
    <3>2. QED
      BY <2>1, <3>1 DEF AppWrite, Op
  <2>2. ASSUME NEW u \in Users, CredentialChange(u)
        PROVE  \E o \in Ops : /\ worker' = Append(worker, o) /\ auth' = o.user /\ ~o.fresh
                              /\ o.op # "change" => o.user = auth
    <3>1. Op("change", u, FALSE) \in Ops
      BY DEF Op, Ops
    <3>2. QED
      BY <2>2, <3>1 DEF CredentialChange, Op
  <2>3. QED
    BY <2>1, <2>2
<1>2. Input /\ UNCHANGED <<user, queue, remote, last, written>>
  BY DEF AppWrite, CredentialChange
<1>3. inputs' = inputs + 1 /\ inputs' \in 0 .. MaxInputs /\ inputs' \in Nat
  BY <1>2, InvParts, SessionsAssumption DEF Input
<1>4. worker' \in Seq(Ops) /\ WorkerInOrder'
  BY <1>1, <1>2, InvParts, EnqueueOrder DEF IInv
<1>5. WritesCounted'
  BY <1>1, <1>2, <1>3, InvParts, EnqueueCounted DEF IInv
<1>6. FreshSound(worker', remote'.stream)
  <2>1. /\ Len(worker) \in Nat /\ Len(worker') = Len(worker) + 1
        /\ worker'[Len(worker) + 1] = o /\ \A i \in 1 .. Len(worker) : worker'[i] = worker[i]
    BY <1>1, InvParts, AppendProperties, LenProperties
  <2>2. \A i \in 1 .. Len(worker') : worker'[i].fresh => i \in 1 .. Len(worker)
    BY <1>1, <2>1
  <2>3. QED
    BY <1>2, <2>1, <2>2 DEF IInv, FreshSound
<1>7. QueuesSound' /\ SentAsAuthor' /\ Sound(remote', user', queue'[user'])
  BY <1>2, QueuesKept DEF IInv, SentAsAuthor
<1>8. QED
  BY <1>1, <1>2, <1>3, <1>4, <1>5, <1>6, <1>7, InvParts, InvFromParts DEF Ops

(* The answer of the credentials provider, a token or an error, is         *)
(* enqueued; it counts if nothing has closed the stream meanwhile.         *)
LEMMA TokenInv ==
  ASSUME IInv, TokenFails \/ \E r \in {"current", "outdated"} : TokenArrives(r)
  PROVE  IInv'
<1>1. PICK r \in {"current", "outdated"}, o \in Ops :
        /\ r \in remote.stream.requests /\ worker' = Append(worker, o) /\ o.user = auth
        /\ o.op \in {"resume", "fail"} /\ (o.fresh <=> r = "current") /\ remote' = Delivered(r)
  <2>1. CASE TokenFails
    <3>1. Op("fail", auth, TRUE) \in Ops
      BY InvParts DEF Op, Ops
    <3>2. QED
      BY <2>1, <3>1 DEF TokenFails, Op
  <2>2. ASSUME NEW r \in {"current", "outdated"}, TokenArrives(r)
        PROVE  \E o \in Ops : 
                 /\ r \in remote.stream.requests /\ worker' = Append(worker, o) /\ o.user = auth
                 /\ o.op \in {"resume", "fail"} /\ (o.fresh <=> r = "current")
                 /\ remote' = Delivered(r)
    <3>1. Op("resume", auth, r = "current") \in Ops
      BY InvParts DEF Op, Ops
    <3>2. QED
      BY <2>2, <3>1 DEF TokenArrives, Op
  <2>3. QED
    BY <2>1, <2>2
<1>2. /\ UNCHANGED <<auth, user, queue, last, written>>
      /\ inputs' \in 0 .. MaxInputs /\ inputs' \in Nat /\ inputs =< inputs'
  <2>1. /\ UNCHANGED <<auth, user, queue, last, written>>
        /\ inputs' = inputs \/ (inputs < MaxInputs /\ inputs' = inputs + 1)
    BY DEF TokenFails, TokenArrives, Input
  <2>2. inputs \in 0 .. MaxInputs /\ inputs \in Nat /\ MaxInputs \in Nat
    BY InvParts, SessionsAssumption
  <2>3. QED
    BY <2>1, <2>2
<1> DEFINE s == [remote.stream EXCEPT !.requests = @ \ {r}]
<1>3. /\ s \in Streams /\ s.state = remote.stream.state /\ s.idle = remote.stream.idle
      /\ s.requests = remote.stream.requests \ {r}
  BY InvParts DEF Streams
<1> HIDE DEF s
<1>4. remote' = [remote EXCEPT !.stream = s]
  BY <1>1 DEF Delivered, s
<1>5. Sound(remote, user, queue[user])
  BY DEF IInv
<1>6. "current" \in remote.stream.requests => remote.stream.state = "Starting"
  BY <1>5 DEF Sound, NearlySound
<1>7. Sound(remote', user', queue'[user']) /\ remote'.stream = s
  <2>1. (IsOpen(s) <=> IsOpen(remote.stream)) /\ (IsStarted(remote.stream) => IsStarted(s))
    BY <1>3 DEF IsOpen, IsStarted
  <2>2. QED
    BY <1>2, <1>3, <1>4, <1>5, <1>6, <2>1, StreamSound
<1>8. worker' \in Seq(Ops) /\ WorkerInOrder'
  BY <1>1, <1>2, InvParts, EnqueueOrder DEF IInv
<1>9. WritesCounted'
  BY <1>1, <1>2, InvParts, EnqueueCounted DEF IInv
<1>10. FreshSound(worker', s)
  <2>1. /\ Len(worker) \in Nat /\ Len(worker') = Len(worker) + 1
        /\ worker'[Len(worker) + 1] = o /\ \A i \in 1 .. Len(worker) : worker'[i] = worker[i]
    BY <1>1, InvParts, AppendProperties, LenProperties
  <2>2. \A i \in 1 .. Len(worker') : i \in 1 .. Len(worker) \/ i = Len(worker) + 1
    BY <2>1
  <2>3. CASE r = "current"
    <3>1. \A i \in 1 .. Len(worker) : ~worker[i].fresh
      BY <1>1, <2>3 DEF IInv, FreshSound
    <3>2. \A i \in 1 .. Len(worker') : worker'[i].fresh => i = Len(worker) + 1
      BY <2>1, <2>2, <3>1
    <3>3. s.state = "Starting" /\ "current" \notin s.requests
      BY <1>1, <1>3, <1>6, <2>3
    <3>4. QED
      BY <3>2, <3>3 DEF FreshSound
  <2>4. CASE r = "outdated"
    <3>1. \A i \in 1 .. Len(worker') : worker'[i].fresh => i \in 1 .. Len(worker)
      BY <1>1, <2>1, <2>2, <2>4
    <3>2. QED
      BY <1>3, <2>1, <2>4, <3>1 DEF IInv, FreshSound
  <2>5. QED
    BY <2>3, <2>4
<1>11. QueuesSound' /\ SentAsAuthor'
  BY <1>2, QueuesKept DEF IInv, SentAsAuthor
<1>12. QED
  BY <1>2, <1>7, <1>8, <1>9, <1>10, <1>11, InvParts, InvFromParts

(* The queue and the streams of the new user replace those of the old one. *)
LEMMA HandleCredentialChangeInv ==
  ASSUME IInv, HandleCredentialChange
  PROVE  IInv' /\ remote'.call = NoCall
<1> DEFINE w == Tail(worker)
<1>1. /\ worker # << >> /\ user' = Head(worker).user
      /\ remote' = RestartNetwork(remote, queue[user']) /\ worker' = Outdated(w)
      /\ UNCHANGED <<auth, queue, last, written, inputs>>
  BY DEF HandleCredentialChange, Running
<1>2. /\ Len(worker) \in Nat \ {0} /\ w \in Seq(Ops) /\ Len(w) = Len(worker) - 1
      /\ \A i \in 1 .. Len(w) : w[i] = worker[i + 1]
      /\ Head(worker) = worker[1] /\ worker[1] \in Ops
  BY <1>1, InvParts, EmptySeq, HeadTailProperties, ElementOfSeq
<1> HIDE DEF w
<1>3. /\ worker' \in Seq(Ops) /\ Len(worker') = Len(worker) - 1
      /\ \A i \in 1 .. Len(worker') : /\ worker'[i].op = worker[i + 1].op
                                      /\ worker'[i].user = worker[i + 1].user
                                      /\ ~worker'[i].fresh
  BY <1>1, <1>2, OutdatedType
<1>4. user' = worker[1].user /\ user' \in Users
  BY <1>1, <1>2 DEF Ops
<1>5. WorkerInOrder'
  BY <1>1, <1>3, <1>4, InvParts, DequeueOrder DEF IInv
<1>6. WritesCounted'
  BY <1>1, <1>3, InvParts, DequeueCounted DEF IInv
<1>7. queue'[user'] = queue[user'] /\ queue[user'] \in Seq(Batches) /\ Increasing(queue[user'])
  BY <1>1, <1>4, InvParts DEF IInv, QueuesSound
<1>8. Sound(remote, user, queue[user])
  BY DEF IInv
<1>9. Sound(remote', user', queue'[user']) /\ remote'.call = NoCall
  BY <1>1, <1>7, <1>8, RestartSound
<1>10. FreshSound(worker', remote'.stream)
  BY <1>3 DEF FreshSound
<1>11. QueuesSound' /\ SentAsAuthor'
  BY <1>1, QueuesKept DEF IInv, SentAsAuthor
<1>12. QED
  BY <1>1, <1>3, <1>4, <1>5, <1>6, <1>9, <1>10, <1>11, InvParts, InvFromParts

(* A batch joins the queue of the user who made it, behind all others.     *)
LEMMA WriteMutationsInv ==
  ASSUME IInv, WriteMutations
  PROVE  /\ IInv' /\ remote'.call = remote.call
         /\ \E w \in Batches : queue' = [queue EXCEPT ![user] = Append(@, w)]
<1> DEFINE b == [id |-> written', by |-> Head(worker).user]
<1> DEFINE q == Append(queue[user], b)
<1>1. /\ worker # << >> /\ Head(worker).op = "write" /\ worker' = Tail(worker)
      /\ written' = written + 1 /\ queue' = [queue EXCEPT ![user] = q]
      /\ remote' = FillWritePipeline(remote, queue'[user])
      /\ UNCHANGED <<auth, user, last, inputs>>
  BY DEF WriteMutations, Running
<1>2. Head(worker) = worker[1]
  BY <1>1, InvParts, EmptySeq
<1>3. /\ worker' \in Seq(Ops) /\ WorkerInOrder' /\ WritesCounted'
      /\ written' \in 0 .. MaxInputs /\ worker[1].user = user
      /\ \A s : FreshSound(worker, s) => FreshSound(worker', s)
  BY <1>1, <1>2, RunOperation
<1>4. b \in Batches /\ b.id = written + 1 /\ b.by = user
  BY <1>1, <1>2, <1>3, InvParts DEF Batches
<1> HIDE DEF b
<1>5. /\ q \in Seq(Batches) /\ q # << >> /\ Len(q) = Len(queue[user]) + 1
      /\ \A i \in 1 .. Len(queue[user]) : q[i] = queue[user][i]
      /\ q[Len(queue[user]) + 1] = b
      /\ IsPrefixOf(remote.pipeline, q)
  BY <1>4, InvParts, AppendProperties, AppendPrefix
<1> HIDE DEF q
<1>6. queue' \in [Users -> Seq(Batches)] /\ queue'[user] = q /\ Len(queue[user]) \in Nat
  BY <1>1, <1>5, InvParts, LenProperties
<1>7. /\ Increasing(q) /\ \A i \in 1 .. Len(q) : q[i].id =< written' /\ q[i].by = user
  <2>1. \A i \in 1 .. Len(queue[user]) : /\ queue[user][i].id =< written /\ queue[user][i].by = user
                                         /\ queue[user][i].id \in Nat
    <3>1. \A i \in 1 .. Len(queue[user]) : queue[user][i] \in Batches
      BY InvParts, ElementOfSeq
    <3>2. QED
      BY <3>1, InvParts, SessionsAssumption DEF IInv, QueuesSound, Batches
  <2>2. \A i \in 1 .. Len(q) : i \in 1 .. Len(queue[user]) \/ i = Len(queue[user]) + 1
    BY <1>5, <1>6
  <2> written \in Nat
    BY InvParts
  <2>3. \A i \in 1 .. Len(q) : q[i].id =< written' /\ q[i].by = user
    <3> SUFFICES ASSUME NEW i \in 1 .. Len(q) PROVE q[i].id =< written' /\ q[i].by = user
      OBVIOUS
    <3>1. CASE i \in 1 .. Len(queue[user])
      <4>1. q[i] = queue[user][i] /\ q[i].id =< written /\ q[i].by = user /\ q[i].id \in Nat
        BY <1>5, <2>1, <3>1
      <4>2. QED
        BY <1>1, <4>1
    <3>2. CASE i = Len(queue[user]) + 1
      BY <1>1, <1>4, <1>5, <3>2
    <3>3. QED
      BY <2>2, <3>1, <3>2
  <2>4. ASSUME NEW i \in 1 .. Len(q), NEW j \in 1 .. Len(q), i < j PROVE q[i].id < q[j].id
    <3>1. i \in 1 .. Len(queue[user])
      BY <1>5, <1>6, <2>4
    <3>2. CASE j \in 1 .. Len(queue[user])
      BY <1>5, <2>4, <3>1, <3>2, InvParts DEF Increasing
    <3>3. CASE j = Len(queue[user]) + 1
      BY <1>4, <1>5, <2>1, <3>1, <3>3
    <3>4. QED
      BY <2>2, <3>2, <3>3
  <2>5. QED
    BY <2>3, <2>4 DEF Increasing
<1>8. QueuesSound'
  <2> SUFFICES ASSUME NEW u \in Users
               PROVE  /\ Increasing(queue'[u])
                      /\ \A i \in 1 .. Len(queue'[u]) : queue'[u][i].id =< written' /\ queue'[u][i].by = u
    BY DEF QueuesSound, Increasing
  <2>1. CASE u = user
    BY <1>6, <1>7, <2>1
  <2>2. CASE u # user
    <3>1. queue'[u] = queue[u]
      BY <1>1, <2>2, InvParts
    <3>2. \A i \in 1 .. Len(queue[u]) : queue[u][i].id \in Nat
      <4>1. queue[u] \in Seq(Batches)
        BY InvParts
      <4>2. \A i \in 1 .. Len(queue[u]) : queue[u][i] \in Batches
        BY <4>1, ElementOfSeq
      <4>3. QED
        BY <4>2, SessionsAssumption DEF Batches
    <3>3. QED
      BY <1>1, <3>1, <3>2, InvParts DEF IInv, QueuesSound
  <2>3. QED
    BY <2>1, <2>2
<1>9. NearlySound(remote, user, q)
  BY <1>5 DEF IInv, Sound, NearlySound
<1>10. /\ Sound(remote', user, q) /\ remote'.call = remote.call
       /\ IsStarted(remote.stream) => /\ remote'.stream.state = remote.stream.state
                                      /\ remote'.stream.requests = remote.stream.requests
  BY <1>1, <1>5, <1>6, <1>7, <1>9, FillSound
<1>11. FreshSound(worker, remote'.stream)
  BY <1>10 DEF IInv, FreshSound, IsStarted
<1>12. FreshSound(worker', remote'.stream)
  BY <1>3, <1>11
<1>13. SentAsAuthor'
  BY <1>1 DEF IInv, SentAsAuthor
<1>14. IInv'
  BY <1>1, <1>3, <1>6, <1>8, <1>10, <1>12, <1>13, InvParts, InvFromParts
<1>15. queue' = [queue EXCEPT ![user] = Append(@, b)]
  BY <1>1 DEF q
<1>16. QED
  BY <1>4, <1>10, <1>14, <1>15

(* Credentials that still count open the stream under the current user's   *)
(* token: no change of user waits before them.                             *)
LEMMA ResumeInv ==
  ASSUME IInv, ResumeStartWithCredentials
  PROVE  IInv'
<1>1. /\ worker # << >> /\ Head(worker).op = "resume" /\ worker' = Tail(worker)
      /\ UNCHANGED <<auth, user, queue, last, written, inputs>>
  BY DEF ResumeStartWithCredentials, Running
<1>2. Head(worker) = worker[1]
  BY <1>1, InvParts, EmptySeq
<1>3. /\ worker' \in Seq(Ops) /\ WorkerInOrder' /\ WritesCounted'
      /\ written' \in 0 .. MaxInputs /\ worker[1].user = user
      /\ \A i \in 1 .. Len(worker') : worker'[i].fresh => ~worker[1].fresh
      /\ \A s : FreshSound(worker, s) => FreshSound(worker', s)
  BY <1>1, <1>2, RunOperation
<1>4. Sound(remote', user, queue[user]) /\ FreshSound(worker', remote'.stream)
  <2>1. CASE ~worker[1].fresh
    BY <1>2, <1>3, <2>1 DEF ResumeStartWithCredentials, IInv
  <2>2. CASE worker[1].fresh
    <3> DEFINE s == StreamWrite(Resumed(remote.stream))
               c == NewCall(user)
    <3>1. s \in Streams /\ IsOpen(s) /\ IsStarted(s) /\ ~s.idle /\ "current" \notin s.requests
      BY InvParts DEF StreamWrite, Resumed, Streams, IsOpen, IsStarted
    <3>2. c \in Calls /\ c.token = <<user>> /\ c.applied = 0
      BY InvParts DEF NewCall, Calls
    <3>3. remote' = [remote EXCEPT !.stream = s, !.call = c]
      BY <1>2, <1>3, <2>2 DEF ResumeStartWithCredentials
    <3> HIDE DEF s, c
    <3>4. /\ remote' \in Remotes /\ remote'.stream = s /\ remote'.call = c
          /\ remote'.pipeline = remote.pipeline
      BY <3>1, <3>2, <3>3, InvParts DEF Remotes
    <3>5. Len(remote.pipeline) \in Nat
      BY InvParts, LenProperties
    <3>6. Sound(remote', user, queue[user])
      BY <3>1, <3>2, <3>4, <3>5 DEF IInv, Sound, NearlySound
    <3>7. FreshSound(worker', remote'.stream)
      BY <1>3, <2>2 DEF FreshSound
    <3>8. QED
      BY <3>6, <3>7
  <2>3. QED
    BY <2>1, <2>2
<1>5. QueuesSound' /\ SentAsAuthor'
  BY <1>1, QueuesKept DEF IInv, SentAsAuthor
<1>6. QED
  BY <1>1, <1>3, <1>4, <1>5, InvParts, InvFromParts

(* A stream that ended with an error is started again if it is needed.     *)
LEMMA CloseSound ==
  ASSUME NEW r, NEW u, NEW q, Sound(r, u, q)
  PROVE  Sound(OnWriteStreamClose(r), u, q) /\ OnWriteStreamClose(r).call = NoCall
<1>1. NearlySound(Failed(r), u, q) /\ Failed(r).call = NoCall
  BY ClosedSound DEF Sound
<1>2. OnWriteStreamClose(r) = StartWriteStream(Failed(r))
  BY DEF OnWriteStreamClose, Failed
<1>3. QED
  BY <1>1, <1>2, StartSound

(* A token that could not be had.                                          *)
LEMMA CredentialsFailInv ==
  ASSUME IInv, CredentialsFail
  PROVE  IInv'
<1>1. /\ worker # << >> /\ Head(worker).op = "fail" /\ worker' = Tail(worker)
      /\ UNCHANGED <<auth, user, queue, last, written, inputs>>
  BY DEF CredentialsFail, Running
<1>2. Head(worker) = worker[1]
  BY <1>1, InvParts, EmptySeq
<1>3. /\ worker' \in Seq(Ops) /\ WorkerInOrder' /\ WritesCounted'
      /\ written' \in 0 .. MaxInputs
      /\ \A i \in 1 .. Len(worker') : worker'[i].fresh => ~worker[1].fresh
      /\ \A s : FreshSound(worker, s) => FreshSound(worker', s)
  BY <1>1, <1>2, RunOperation
<1>4. Sound(remote', user, queue[user]) /\ FreshSound(worker', remote'.stream)
  <2>1. CASE ~worker[1].fresh
    BY <1>2, <1>3, <2>1 DEF CredentialsFail, IInv
  <2>2. CASE worker[1].fresh
    <3>1. Sound(remote', user, queue[user])
      BY <1>2, <2>2, CloseSound DEF CredentialsFail, IInv
    <3>2. FreshSound(worker', remote'.stream)
      BY <1>3, <2>2 DEF FreshSound
    <3>3. QED
      BY <3>1, <3>2
  <2>3. QED
    BY <2>1, <2>2
<1>5. QueuesSound' /\ SentAsAuthor'
  BY <1>1, QueuesKept DEF IInv, SentAsAuthor
<1>6. QED
  BY <1>1, <1>3, <1>4, <1>5, InvParts, InvFromParts

(* A step that concerns the connection alone.                              *)
LEMMA ConnectionStep ==
  ASSUME IInv, UNCHANGED <<auth, worker, user, queue, written>>,
         Sound(remote', user, queue[user]), FreshSound(worker, remote'.stream), SentAsAuthor',
         inputs' \in 0 .. MaxInputs, inputs =< inputs'
  PROVE  IInv'
<1>1. inputs \in Nat /\ inputs' \in Nat /\ worker \in Seq(Ops)
  BY InvParts, SessionsAssumption
<1>2. WorkerInOrder' /\ WritesCounted'
  BY <1>1, WaitingOrder DEF IInv
<1>3. QueuesSound'
  BY QueuesKept DEF IInv
<1>4. QED
  BY <1>2, <1>3, InvParts, InvFromParts

LEMMA InputsStep ==
  ASSUME IInv, Input \/ inputs' = inputs
  PROVE  inputs' \in 0 .. MaxInputs /\ inputs' \in Nat /\ inputs =< inputs'
<1>1. inputs \in 0 .. MaxInputs /\ inputs \in Nat /\ MaxInputs \in Nat
  BY InvParts, SessionsAssumption
<1>2. QED
  BY <1>1 DEF Input

(* No credentials count for a stream that is not Starting, or has asked    *)
(* and not been answered.                                                  *)
LEMMA NothingFresh ==
  ASSUME IInv, remote.stream.state # "Starting" \/ "current" \in remote.stream.requests
  PROVE  \A s : FreshSound(worker, s)
  BY DEF IInv, FreshSound

(* The backoff timer and the idleness timer.                               *)
LEMMA TimersInv ==
  ASSUME IInv, ConnectionBackoff \/ WriteStreamIdle
  PROVE  IInv'
<1>1. /\ UNCHANGED <<auth, worker, user, queue, last, written, inputs>>
      /\ inputs' \in 0 .. MaxInputs /\ inputs =< inputs'
  BY InputsStep DEF ConnectionBackoff, WriteStreamIdle
<1>2. SentAsAuthor'
  BY <1>1 DEF IInv, SentAsAuthor
<1>3. Sound(remote, user, queue[user])
  BY DEF IInv
<1>4. CASE ConnectionBackoff
  <2> DEFINE s == BackoffElapsed(remote.stream)
  <2>1. remote.stream.state = "Backoff" /\ remote' = [remote EXCEPT !.stream = s]
    BY <1>4 DEF ConnectionBackoff
  <2>2. s \in Streams /\ s.state = "Starting" /\ ~IsOpen(s) /\ IsStarted(s) /\ s.idle = remote.stream.idle
    BY InvParts DEF BackoffElapsed, RequestCredentials, Streams, IsOpen, IsStarted
  <2>3. ~IsOpen(remote.stream)
    BY <2>1 DEF IsOpen
  <2> HIDE DEF s
  <2>4. Sound(remote', user, queue[user])
    BY <1>3, <2>1, <2>2, <2>3, StreamSound
  <2>5. FreshSound(worker, remote'.stream)
    BY <2>1, NothingFresh
  <2>6. QED
    BY <1>1, <1>2, <2>4, <2>5, ConnectionStep
<1>5. CASE WriteStreamIdle
  <2>1. remote.stream.idle /\ remote' = Stopped(remote)
    BY <1>5 DEF WriteStreamIdle, Stopped
  <2>2. IsOpen(remote.stream) /\ remote.pipeline = << >>
    BY <1>3, <2>1 DEF Sound, NearlySound
  <2>3. Sound(remote', user, queue[user])
    <3>1. NearlySound(remote', user, queue[user]) /\ remote'.pipeline = remote.pipeline
      BY <1>3, <2>1, ClosedSound DEF Sound
    <3>2. QED
      BY <2>2, <3>1 DEF Sound
  <2>4. FreshSound(worker, remote'.stream)
    BY <2>2, NothingFresh DEF IsOpen
  <2>5. QED
    BY <1>1, <1>2, <2>3, <2>4, ConnectionStep
<1>6. QED
  BY <1>4, <1>5

(* The network comes back: the streams start anew and credentials asked    *)
(* for before do not count.                                                *)
LEMMA NetworkAvailableInv ==
  ASSUME IInv, NetworkAvailable
  PROVE  IInv' /\ remote'.call = NoCall
<1>1. /\ Input /\ remote' = RestartNetwork(remote, queue[user]) /\ worker' = Outdated(worker)
      /\ UNCHANGED <<auth, user, queue, last, written>>
  BY DEF NetworkAvailable
<1>2. inputs' \in 0 .. MaxInputs /\ inputs' \in Nat /\ inputs =< inputs'
  BY <1>1, InputsStep
<1>3. /\ worker \in Seq(Ops) /\ worker' \in Seq(Ops) /\ Len(worker') = Len(worker)
      /\ \A i \in 1 .. Len(worker) : /\ worker'[i].op = worker[i].op
                                     /\ worker'[i].user = worker[i].user
                                     /\ ~worker'[i].fresh
  BY <1>1, InvParts, OutdatedType
<1>4. WorkerInOrder' /\ WritesCounted'
  BY <1>1, <1>2, <1>3, InvParts, WaitingOrder DEF IInv
<1>5. Sound(remote', user', queue'[user']) /\ remote'.call = NoCall
  <2>1. Sound(remote, user, queue[user])
    BY DEF IInv
  <2>2. queue[user] \in Seq(Batches) /\ Increasing(queue[user])
    BY InvParts
  <2>3. /\ Sound(RestartNetwork(remote, queue[user]), user, queue[user])
        /\ RestartNetwork(remote, queue[user]).call = NoCall
    BY <2>1, <2>2, RestartSound
  <2>4. QED
    BY <1>1, <2>3
<1>6. FreshSound(worker', remote'.stream)
  BY <1>3 DEF FreshSound
<1>7. QueuesSound' /\ SentAsAuthor'
  BY <1>1, QueuesKept DEF IInv, SentAsAuthor
<1>8. QED
  BY <1>1, <1>2, <1>3, <1>4, <1>5, <1>6, <1>7, InvParts, InvFromParts

(* A killed app forgets what was not written yet and starts from the queue *)
(* of whoever is signed in.                                                *)
LEMMA KillInv ==
  ASSUME IInv, Kill
  PROVE  IInv' /\ remote'.call = NoCall
<1>1. /\ Input /\ worker' = << >> /\ user' = auth
      /\ remote' = FillWritePipeline(NewRemote, queue[auth])
      /\ UNCHANGED <<auth, queue, last, written>>
  BY DEF Kill
<1>2. inputs' \in 0 .. MaxInputs /\ inputs' \in Nat /\ inputs =< inputs'
  BY <1>1, InputsStep
<1>3. worker' \in Seq(Ops) /\ Len(worker') = 0
  BY <1>1, EmptySeq
<1>4. WorkerInOrder' /\ FreshSound(worker', remote'.stream)
  BY <1>1, <1>3 DEF WorkerInOrder, UserBefore, FreshSound
<1>5. WritesCounted'
  <2>1. PICK c \in [0 .. Len(worker) -> 0 .. inputs] : written =< c[0]
    BY DEF WritesCounted, IInv
  <2>2. Len(worker) \in Nat /\ written \in Nat /\ inputs \in Nat
    BY InvParts, LenProperties
  <2>3. c[0] \in 0 .. inputs
    BY <2>1, <2>2
  <2> DEFINE d == [i \in 0 .. 0 |-> inputs']
  <2>4. d \in [0 .. Len(worker') -> 0 .. inputs'] /\ d[0] = inputs'
    BY <1>2, <1>3
  <2> HIDE DEF d
  <2>5. written' =< d[0] /\ \A i \in 1 .. Len(worker') : FALSE
    BY <1>1, <1>2, <1>3, <2>1, <2>2, <2>3, <2>4
  <2>6. QED
    BY <2>4, <2>5 DEF WritesCounted
<1>6. queue[auth] \in Seq(Batches) /\ Increasing(queue[auth])
  BY InvParts DEF IInv, QueuesSound
<1>7. Sound(remote', user', queue'[user']) /\ remote'.call = NoCall
  <2> DEFINE r == NewRemote
  <2>1. /\ r \in Remotes /\ r.pipeline = << >> /\ r.call = NoCall /\ r.stream = NewStream
    BY EmptyPrefix, <1>6, NoCallType DEF NewRemote, Remotes, NewStream, Streams
  <2> HIDE DEF r
  <2>2. ~IsOpen(NewStream) /\ ~NewStream.idle /\ "current" \notin NewStream.requests
    BY DEF IsOpen, NewStream
  <2>3. NearlySound(r, auth, queue[auth])
    BY <1>6, <2>1, <2>2, EmptyPrefix, NoCallType, SessionsAssumption DEF NearlySound
  <2>4. /\ Sound(FillWritePipeline(r, queue[auth]), auth, queue[auth])
        /\ FillWritePipeline(r, queue[auth]).call = NoCall
    BY <1>6, <2>1, <2>2, <2>3, FillSound
  <2>5. QED
    BY <1>1, <2>4 DEF r
<1>8. QueuesSound' /\ SentAsAuthor'
  BY <1>1, QueuesKept DEF IInv, SentAsAuthor
<1>9. QED
  BY <1>1, <1>2, <1>3, <1>4, <1>5, <1>7, <1>8, InvParts, InvFromParts

(* The handshake ends, a write is applied, or the connection breaks.       *)
LEMMA HandshakeInv ==
  ASSUME IInv, HandshakeComplete
  PROVE  IInv'
<1> DEFINE s == IF remote.pipeline = << >> THEN remote.stream ELSE StreamWrite(remote.stream)
           c == [remote.call EXCEPT !.handshake = TRUE]
<1>1. /\ IsOpen(remote.stream) /\ remote' = [remote EXCEPT !.call = c, !.stream = s]
      /\ UNCHANGED <<auth, worker, user, queue, last, written, inputs>>
  BY DEF HandshakeComplete
<1>2. /\ s \in Streams /\ s.state = remote.stream.state /\ s.requests = remote.stream.requests
      /\ s.idle => remote.stream.idle
  BY InvParts DEF StreamWrite, Streams
<1>3. c \in Calls /\ c.handshake /\ c.applied = remote.call.applied /\ c.token = remote.call.token
  BY InvParts DEF Calls
<1> HIDE DEF s, c
<1>4. /\ remote' \in Remotes /\ remote'.stream = s /\ remote'.call = c
      /\ remote'.pipeline = remote.pipeline
  BY <1>1, <1>2, <1>3, InvParts DEF Remotes
<1>5. IsOpen(s) /\ IsStarted(s)
  BY <1>1, <1>2 DEF IsOpen, IsStarted
<1>6. Sound(remote', user, queue[user])
  BY <1>1, <1>2, <1>3, <1>4, <1>5 DEF IInv, Sound, NearlySound
<1>7. FreshSound(worker, remote'.stream)
  BY <1>1, NothingFresh DEF IsOpen
<1>8. SentAsAuthor'
  BY <1>1 DEF IInv, SentAsAuthor
<1>9. inputs' \in 0 .. MaxInputs /\ inputs =< inputs'
  BY <1>1, InputsStep
<1>10. QED
  BY <1>1, <1>6, <1>7, <1>8, <1>9, ConnectionStep

LEMMA ServerAppliesInv ==
  ASSUME IInv, ServerApplies
  PROVE  IInv' /\ last' = <<user, queue[user][remote.call.applied + 1]>>
<1> DEFINE c == [remote.call EXCEPT !.applied = @ + 1]
           n == remote.call.applied + 1
<1>1. /\ remote.call.handshake /\ remote.call.applied < Len(remote.pipeline)
      /\ last' = <<remote.call.token[1], remote.pipeline[n]>>
      /\ remote' = [remote EXCEPT !.call = c]
      /\ UNCHANGED <<auth, worker, user, queue, written, inputs>>
  BY DEF ServerApplies
<1>2. /\ c \in Calls /\ c.handshake /\ c.applied = n
      /\ c.token = remote.call.token /\ n \in Nat \ {0} /\ remote.call.applied \in Nat
  <2>1. remote.call \in Calls
    BY InvParts
  <2>2. remote.call.applied \in Nat /\ n \in Nat \ {0}
    BY <2>1 DEF Calls
  <2> HIDE DEF n
  <2>3. c = [remote.call EXCEPT !.applied = n]
    BY DEF n
  <2> HIDE DEF c
  <2>4. QED
    BY <1>1, <2>1, <2>2, <2>3 DEF Calls
<1>3. IsOpen(remote.stream) /\ remote.call.token = <<user>>
  BY <1>1, NoCallType DEF IInv, Sound, NearlySound
<1> HIDE DEF c
<1>4. /\ remote' \in Remotes /\ remote'.stream = remote.stream /\ remote'.call = c
      /\ remote'.pipeline = remote.pipeline
  BY <1>1, <1>2, InvParts DEF Remotes
<1>5. Len(remote.pipeline) \in Nat /\ Len(queue[user]) \in Nat
  BY InvParts, LenProperties
<1>6. n \in 1 .. Len(remote.pipeline) /\ Len(remote.pipeline) \in 0 .. Len(queue[user])
  BY <1>1, <1>2, <1>5, InvParts DEF IsPrefixOf
<1> HIDE DEF n
<1>7. Sound(remote', user, queue[user])
  BY <1>1, <1>2, <1>3, <1>4, <1>5, <1>6 DEF IInv, Sound, NearlySound
<1>8. remote.pipeline[n] = queue[user][n] /\ n \in 1 .. Len(queue[user])
  <2>1. remote.pipeline = SubSeq(queue[user], 1, Len(remote.pipeline))
    BY InvParts DEF IsPrefixOf
  <2>2. \A i \in 1 .. Len(remote.pipeline) :
          SubSeq(queue[user], 1, Len(remote.pipeline))[i] = queue[user][i]
    BY <1>6, InvParts, PrefixElements
  <2>3. QED
    BY <1>5, <1>6, <2>1, <2>2
<1>9. last' = <<user, queue[user][n]>>
  BY <1>1, <1>3, <1>8
<1>10. queue[user][n].by = user
  BY <1>8, InvParts DEF IInv, QueuesSound
<1>11. SentAsAuthor'
  BY <1>9, <1>10 DEF SentAsAuthor
<1>12. FreshSound(worker, remote'.stream)
  BY <1>4 DEF IInv
<1>13. inputs' \in 0 .. MaxInputs /\ inputs =< inputs'
  BY <1>1, InputsStep
<1>14. IInv'
  BY <1>1, <1>7, <1>11, <1>12, <1>13, ConnectionStep
<1>15. QED
  BY <1>9, <1>14 DEF n

LEMMA ConnectionLostInv ==
  ASSUME IInv, ConnectionLost
  PROVE  IInv'
<1>1. /\ IsOpen(remote.stream) /\ Input /\ remote' = OnWriteStreamClose(remote)
      /\ UNCHANGED <<auth, worker, user, queue, last, written>>
  BY DEF ConnectionLost
<1>2. Sound(remote', user, queue[user])
  BY <1>1, CloseSound DEF IInv
<1>3. FreshSound(worker, remote'.stream)
  BY <1>1, NothingFresh DEF IsOpen
<1>4. SentAsAuthor'
  BY <1>1 DEF IInv, SentAsAuthor
<1>5. inputs' \in 0 .. MaxInputs /\ inputs =< inputs'
  BY <1>1, InputsStep
<1>6. QED
  BY <1>1, <1>2, <1>3, <1>4, <1>5, ConnectionStep

(* RemoveMutationBatch finds the oldest batch of the pipeline at the front *)
(* of the current user's queue.                                            *)
LEMMA BatchDone ==
  ASSUME IInv, remote.pipeline # << >>, UNCHANGED written,
         queue' = [queue EXCEPT ![user] = Removed(@, Head(remote.pipeline))]
  PROVE  /\ queue' = [queue EXCEPT ![user] = Tail(@)] /\ queue[user] # << >>
         /\ queue' \in [Users -> Seq(Batches)] /\ queue'[user] = Tail(queue[user])
         /\ Tail(remote.pipeline) \in Seq(Batches)
         /\ Len(Tail(remote.pipeline)) = Len(remote.pipeline) - 1
         /\ IsPrefixOf(Tail(remote.pipeline), queue'[user])
         /\ Increasing(queue'[user]) /\ QueuesSound'
<1> DEFINE q == queue[user]
<1>1. q \in Seq(Batches) /\ Increasing(q) /\ user \in Users
  BY InvParts
<1>2. /\ q # << >> /\ Head(remote.pipeline) = q[1]
      /\ Tail(remote.pipeline) \in Seq(Batches) /\ Tail(q) \in Seq(Batches)
      /\ Len(Tail(remote.pipeline)) = Len(remote.pipeline) - 1
      /\ IsPrefixOf(Tail(remote.pipeline), Tail(q))
  BY InvParts, TailPrefix
<1>3. Removed(q, Head(remote.pipeline)) = Tail(q)
  BY <1>1, <1>2, RemovedHead
<1>4. queue' = [queue EXCEPT ![user] = Tail(q)]
  BY <1>3
<1>5. queue' \in [Users -> Seq(Batches)] /\ queue'[user] = Tail(q)
  BY <1>1, <1>2, <1>4, InvParts
<1>6. /\ Len(q) \in Nat \ {0} /\ Len(Tail(q)) = Len(q) - 1
      /\ \A i \in 1 .. Len(Tail(q)) : Tail(q)[i] = q[i + 1] /\ i + 1 \in 1 .. Len(q)
  BY <1>1, <1>2, EmptySeq, HeadTailProperties
<1>7. Increasing(Tail(q))
  BY <1>1, <1>6 DEF Increasing
<1>8. QueuesSound'
  <2> SUFFICES ASSUME NEW u \in Users
               PROVE  /\ Increasing(queue'[u])
                      /\ \A i \in 1 .. Len(queue'[u]) : queue'[u][i].id =< written /\ queue'[u][i].by = u
    BY DEF QueuesSound, Increasing
  <2>1. CASE u = user
    <3>1. \A i \in 1 .. Len(q) : q[i].id =< written /\ q[i].by = user
      BY <1>1 DEF IInv, QueuesSound
    <3>2. \A i \in 1 .. Len(Tail(q)) : Tail(q)[i].id =< written /\ Tail(q)[i].by = user
      BY <1>6, <3>1
    <3> HIDE DEF q
    <3>3. queue'[u] = Tail(q)
      BY <1>5, <2>1
    <3>4. QED
      BY <1>7, <2>1, <3>2, <3>3
  <2>2. CASE u # user
    <3>1. queue'[u] = queue[u]
      BY <1>4, <2>2, InvParts
    <3>2. QED
      BY <3>1 DEF IInv, QueuesSound
  <2>3. QED
    BY <2>1, <2>2
<1>9. QED
  BY <1>2, <1>4, <1>5, <1>7, <1>8

(* The server's answer is matched with the oldest batch.                   *)
LEMMA MutationResultInv ==
  ASSUME IInv, OnWriteStreamMutationResult
  PROVE  /\ IInv' /\ queue' = [queue EXCEPT ![user] = Tail(@)]
         /\ remote'.call.applied = remote.call.applied - 1
<1> DEFINE p == Tail(remote.pipeline)
           c == [remote.call EXCEPT !.applied = @ - 1]
           r == [remote EXCEPT !.pipeline = p, !.call = c]
<1>1. /\ remote.call.applied > 0
      /\ queue' = [queue EXCEPT ![user] = Removed(@, Head(remote.pipeline))]
      /\ remote' = FillWritePipeline(r, queue'[user])
      /\ UNCHANGED <<auth, worker, user, last, written, inputs>>
  BY DEF OnWriteStreamMutationResult
<1>2. /\ remote.call.handshake /\ remote.call.applied \in Nat /\ remote.call.applied =< Len(remote.pipeline)
      /\ Len(remote.pipeline) \in Nat
  BY <1>1, InvParts, LenProperties DEF IInv, Sound, NearlySound, Calls
<1>3. remote.pipeline # << >> /\ IsOpen(remote.stream)
  <2>1. Len(remote.pipeline) # 0
    BY <1>1, <1>2
  <2>2. remote.call # NoCall
    BY <1>1, NoCallType
  <2>3. QED
    BY <2>1, <2>2, EmptySeq DEF IInv, Sound, NearlySound
<1>4. /\ queue' = [queue EXCEPT ![user] = Tail(@)]
      /\ queue' \in [Users -> Seq(Batches)] /\ queue'[user] \in Seq(Batches)
      /\ p \in Seq(Batches) /\ Len(p) = Len(remote.pipeline) - 1
      /\ IsPrefixOf(p, queue'[user]) /\ Increasing(queue'[user]) /\ QueuesSound'
  <2>1. user \in Users
    BY InvParts
  <2>2. QED
    BY <1>1, <1>3, <2>1, BatchDone
<1> HIDE DEF p
<1>5. c \in Calls /\ c.handshake /\ c.applied = remote.call.applied - 1 /\ c.token = remote.call.token
  <2> DEFINE n == remote.call.applied - 1
  <2>1. remote.call \in Calls /\ n \in Nat
    BY <1>1, <1>2, InvParts
  <2>2. c = [remote.call EXCEPT !.applied = n]
    OBVIOUS
  <2> HIDE DEF n, c
  <2>3. c \in Calls /\ c.handshake /\ c.applied = n /\ c.token = remote.call.token
    BY <1>2, <2>1, <2>2 DEF Calls
  <2>4. QED
    BY <2>3 DEF n
<1> HIDE DEF c
<1>6. r \in Remotes /\ r.pipeline = p /\ r.call = c /\ r.stream = remote.stream
  BY <1>4, <1>5, InvParts DEF Remotes
<1> HIDE DEF r
<1>7. NearlySound(r, user, queue'[user])
  BY <1>1, <1>2, <1>3, <1>4, <1>5, <1>6, SessionsAssumption DEF IInv, Sound, NearlySound
<1>8. Sound(remote', user, queue'[user]) /\ remote'.call = c
  BY <1>1, <1>4, <1>5, <1>6, <1>7, FillSound
<1>9. FreshSound(worker', remote'.stream)
  BY <1>1, <1>3, NothingFresh DEF IsOpen
<1>10. WorkerInOrder' /\ WritesCounted' /\ SentAsAuthor'
  BY <1>1, InvParts, WaitingOrder DEF IInv, SentAsAuthor
<1>11. IInv'
  BY <1>1, <1>4, <1>8, <1>9, <1>10, InvParts, InvFromParts
<1>12. QED
  BY <1>4, <1>5, <1>8, <1>11

(* The oldest batch is refused and given up.                               *)
LEMMA WriteRejectedInv ==
  ASSUME IInv, WriteRejected
  PROVE  /\ IInv' /\ queue' = [queue EXCEPT ![user] = Tail(@)] /\ queue[user] # << >>
         /\ remote.call.applied = 0 /\ remote'.call = NoCall
<1> DEFINE p == Tail(remote.pipeline)
           d == Failed(remote)
           s == InhibitBackoff(d.stream)
           r == [d EXCEPT !.pipeline = p, !.stream = s]
<1>1. /\ remote.call.handshake /\ remote.call.applied = 0 /\ remote.pipeline # << >>
      /\ queue' = [queue EXCEPT ![user] = Removed(@, Head(remote.pipeline))]
      /\ remote' = HandleWriteError(remote, queue'[user])
      /\ UNCHANGED <<auth, worker, user, last, written, inputs>>
  BY DEF WriteRejected
<1>2. remote' = FillWritePipeline([d EXCEPT !.pipeline = Tail(@), !.stream = s], queue'[user])
  BY <1>1 DEF HandleWriteError, Failed
<1>3. NearlySound(d, user, queue[user]) /\ d.call = NoCall /\ d.pipeline = remote.pipeline
  <2>1. NearlySound(remote, user, queue[user])
    BY DEF IInv, Sound
  <2>2. QED
    BY <2>1, ClosedSound
<1> HIDE DEF d
<1>4. remote' = FillWritePipeline(r, queue'[user])
  BY <1>2, <1>3
<1>5. IsOpen(remote.stream)
  BY <1>1, NoCallType DEF IInv, Sound, NearlySound
<1>6. /\ queue' = [queue EXCEPT ![user] = Tail(@)] /\ queue[user] # << >>
      /\ queue' \in [Users -> Seq(Batches)] /\ queue'[user] \in Seq(Batches)
      /\ p \in Seq(Batches) /\ Len(p) = Len(remote.pipeline) - 1
      /\ IsPrefixOf(p, queue'[user]) /\ Increasing(queue'[user]) /\ QueuesSound'
  <2>1. user \in Users
    BY InvParts
  <2>2. QED
    BY <1>1, <2>1, BatchDone
<1>7. Len(p) \in Nat /\ Len(remote.pipeline) \in Nat
  BY <1>6, InvParts, LenProperties
<1> HIDE DEF p
<1>8. d \in Remotes /\ d.stream \in Streams /\ ~IsOpen(d.stream) /\ ~d.stream.idle
      /\ "current" \notin d.stream.requests
  BY <1>3 DEF NearlySound, Remotes, Failed, Closed, StreamClose, IsOpen, Streams, d
<1>9. s \in Streams /\ ~IsOpen(s) /\ ~s.idle /\ "current" \notin s.requests
  BY <1>8 DEF InhibitBackoff, Streams, IsOpen
<1> HIDE DEF s
<1>10. r \in Remotes /\ r.pipeline = p /\ r.call = NoCall /\ r.stream = s
  BY <1>3, <1>6, <1>8, <1>9 DEF Remotes
<1> HIDE DEF r
<1>11. Len(p) =< kMaxPendingWrites
  BY <1>6, <1>7, SessionsAssumption DEF IInv, Sound, NearlySound
<1>12. NearlySound(r, user, queue'[user])
  BY <1>6, <1>7, <1>9, <1>10, <1>11, NoCallType DEF NearlySound
<1>13. Sound(remote', user, queue'[user]) /\ remote'.call = NoCall
  <2>1. ~IsOpen(r.stream)
    BY <1>9, <1>10
  <2> DEFINE q == queue'[user]
  <2>2. q \in Seq(Batches) /\ Increasing(q) /\ NearlySound(r, user, q)
    BY <1>6, <1>12
  <2>3. remote' = FillWritePipeline(r, q)
    BY <1>4
  <2> HIDE DEF q
  <2>4. Sound(remote', user, q) /\ remote'.call = r.call
    BY <2>1, <2>2, <2>3, FillSound
  <2>5. QED
    BY <1>10, <2>4 DEF q
<1>14. FreshSound(worker', remote'.stream)
  BY <1>1, <1>5, NothingFresh DEF IsOpen
<1>15. WorkerInOrder' /\ WritesCounted' /\ SentAsAuthor'
  BY <1>1, InvParts, WaitingOrder DEF IInv, SentAsAuthor
<1>16. IInv'
  BY <1>1, <1>6, <1>13, <1>14, <1>15, InvParts, InvFromParts
<1>17. QED
  BY <1>1, <1>6, <1>13, <1>16

LEMMA NextInv == IInv /\ [Next]_vars => IInv'
<1> SUFFICES ASSUME IInv, [Next]_vars PROVE IInv'
  OBVIOUS
<1>1. CASE AppWrite \/ \E u \in Users : CredentialChange(u)
  BY <1>1, EnqueueInv
<1>2. CASE TokenFails \/ \E r \in {"current", "outdated"} : TokenArrives(r)
  BY <1>2, TokenInv
<1>3. CASE HandleCredentialChange
  BY <1>3, HandleCredentialChangeInv
<1>4. CASE WriteMutations
  BY <1>4, WriteMutationsInv
<1>5. CASE ResumeStartWithCredentials
  BY <1>5, ResumeInv
<1>6. CASE CredentialsFail
  BY <1>6, CredentialsFailInv
<1>7. CASE ConnectionBackoff \/ WriteStreamIdle
  BY <1>7, TimersInv
<1>8. CASE NetworkAvailable
  BY <1>8, NetworkAvailableInv
<1>9. CASE Kill
  BY <1>9, KillInv
<1>10. CASE HandshakeComplete
  BY <1>10, HandshakeInv
<1>11. CASE ServerApplies
  BY <1>11, ServerAppliesInv
<1>12. CASE OnWriteStreamMutationResult
  BY <1>12, MutationResultInv
<1>13. CASE WriteRejected
  BY <1>13, WriteRejectedInv
<1>14. CASE ConnectionLost
  BY <1>14, ConnectionLostInv
<1>15. CASE UNCHANGED vars
  <2>1. UNCHANGED <<auth, worker, user, queue, remote, last, written, inputs>>
    BY <1>15 DEF vars
  <2>2. SentAsAuthor' /\ Sound(remote', user, queue[user]) /\ FreshSound(worker, remote'.stream)
    BY <2>1 DEF IInv, SentAsAuthor
  <2>3. inputs' \in 0 .. MaxInputs /\ inputs =< inputs'
    BY <2>1, InputsStep
  <2>4. QED
    BY <2>1, <2>2, <2>3, ConnectionStep
<1>16. QED
  BY <1>1, <1>2, <1>3, <1>4, <1>5, <1>6, <1>7, <1>8, <1>9, <1>10, <1>11, <1>12, <1>13, <1>14,
     <1>15
  DEF Next

LEMMA Invariance == Spec => []IInv
  BY InitInv, NextInv, PTL DEF Spec

-----------------------------------------------------------------------------
(* Every operation leaves the mutation queues, the pipeline with its limit *)
(* and the streams in a state the code's types allow.                      *)
THEOREM TypeCorrect == Spec => []TypeOK
<1>1. IInv => TypeOK
  BY DEF IInv
<1>2. QED
  BY <1>1, Invariance, PTL

(* On a phone that any number of people share, a write reaches the server  *)
(* only under the token of the user who made it.                           *)
THEOREM OnlyAsAuthor == Spec => []SentAsAuthor
<1>1. IInv => SentAsAuthor
  BY DEF IInv
<1>2. QED
  BY <1>1, Invariance, PTL

(* RemoteStore's write pipeline is the beginning of the current user's     *)
(* mutation queue, so that an answer removes the batch it is for.          *)
THEOREM PipelineFollowsQueue == Spec => []PipelineIsPrefix
<1>1. IInv => PipelineIsPrefix
  BY DEF IInv, Sound, NearlySound, IsPrefixOf, PipelineIsPrefix
<1>2. QED
  BY <1>1, Invariance, PTL

(* The assertions of stream.cc and remote_store.cc on the write stream     *)
(* never fail, whatever tokens, restarts and kills overtake each other.    *)
THEOREM AssertionsNeverFail == Spec => []AssertionsHold
<1>1. IInv => AssertionsHold
  BY DEF IInv, Sound, NearlySound, FreshSound, AssertionsHold
<1>2. QED
  BY <1>1, Invariance, PTL

-----------------------------------------------------------------------------
(* The client implements the outbox.                                       *)

(* Whatever ends a call loses the answers that were under way.             *)
LEMMA LosesAnswers ==
  ASSUME user \in Users, UNCHANGED <<queue, last>>, remote'.call.applied = 0
  PROVE  Promise!Next
<1> DEFINE ahead == [u \in Users |-> IF u = user THEN remote.call.applied ELSE 0]
<1>1. PICK v \in Users : v = user
  OBVIOUS
<1>2. ahead' = [u \in Users |-> 0]
  OBVIOUS
<1>3. ahead' = [ahead EXCEPT ![v] = 0]
  BY <1>1, <1>2
<1>4. Promise!LoseAnswers(v)
  BY <1>3 DEF Promise!LoseAnswers
<1>5. QED
  BY <1>4 DEF Promise!Next

(* A step that the outbox does not see.                                    *)
LEMMA KeepsAnswers ==
  ASSUME UNCHANGED <<user, queue, last>>, remote'.call.applied = remote.call.applied
  PROVE  UNCHANGED Promise!vars
  BY DEF Promise!vars

(* Every step of the client is one of the outbox or none.                  *)
LEMMA StepPromise == IInv /\ [Next]_vars => [Promise!Next]_(Promise!vars)
<1> SUFFICES ASSUME IInv, [Next]_vars PROVE Promise!Next \/ UNCHANGED Promise!vars
  OBVIOUS
<1> DEFINE ahead == [u \in Users |-> IF u = user THEN remote.call.applied ELSE 0]
<1>a. user \in Users /\ remote \in Remotes /\ NoCall.applied = 0
  BY InvParts, NoCallType
<1>b. PICK v \in Users : v = user
  BY <1>a
<1>1. CASE AppWrite \/ \E u \in Users : CredentialChange(u)
  BY <1>1, KeepsAnswers DEF AppWrite, CredentialChange
<1>2. CASE TokenFails \/ \E r \in {"current", "outdated"} : TokenArrives(r)
  <2>1. PICK r \in {"current", "outdated"} : remote' = Delivered(r)
    BY <1>2 DEF TokenFails, TokenArrives
  <2>2. remote'.call = remote.call
    BY <1>a, <2>1 DEF Delivered, Remotes
  <2>3. QED
    BY <1>2, <2>2, KeepsAnswers DEF TokenFails, TokenArrives
<1>3. CASE HandleCredentialChange
  BY <1>a, <1>3, HandleCredentialChangeInv, LosesAnswers DEF HandleCredentialChange
<1>4. CASE WriteMutations
  <2>1. /\ remote'.call = remote.call /\ UNCHANGED <<user, last>>
        /\ \E w \in Batches : queue' = [queue EXCEPT ![user] = Append(@, w)]
    BY <1>4, WriteMutationsInv DEF WriteMutations
  <2>2. ahead' = ahead
    BY <2>1
  <2>3. Promise!Issue(v)
    BY <1>b, <2>1, <2>2 DEF Promise!Issue
  <2>4. QED
    BY <2>3 DEF Promise!Next
<1>5. CASE ResumeStartWithCredentials
  <2>1. UNCHANGED <<user, queue, last>>
    BY <1>5 DEF ResumeStartWithCredentials
  <2>2. CASE Head(worker).fresh
    <3>1. remote'.call = NewCall(Head(worker).user)
      BY <1>a, <1>5, <2>2 DEF ResumeStartWithCredentials, Remotes
    <3>2. remote'.call.applied = 0
      BY <3>1 DEF NewCall
    <3>3. QED
      BY <1>a, <2>1, <3>2, LosesAnswers
  <2>3. CASE ~Head(worker).fresh
    BY <1>5, <2>1, <2>3, KeepsAnswers DEF ResumeStartWithCredentials
  <2>4. QED
    BY <2>2, <2>3
<1>6. CASE CredentialsFail
  <2>1. UNCHANGED <<user, queue, last>> /\ Sound(remote, user, queue[user])
    BY <1>6 DEF CredentialsFail, IInv
  <2>2. CASE Head(worker).fresh
    <3>1. remote'.call = NoCall
      BY <1>6, <2>1, <2>2, CloseSound DEF CredentialsFail
    <3>2. QED
      BY <1>a, <2>1, <3>1, LosesAnswers
  <2>3. CASE ~Head(worker).fresh
    BY <1>6, <2>1, <2>3, KeepsAnswers DEF CredentialsFail
  <2>4. QED
    BY <2>2, <2>3
<1>7. CASE ConnectionBackoff
  <2>1. remote'.call = remote.call /\ UNCHANGED <<user, queue, last>>
    BY <1>a, <1>7 DEF ConnectionBackoff, Remotes
  <2>2. QED
    BY <2>1, KeepsAnswers
<1>8. CASE WriteStreamIdle
  <2>1. remote'.call = NoCall /\ UNCHANGED <<user, queue, last>>
    BY <1>a, <1>8 DEF WriteStreamIdle, Closed, Remotes
  <2>2. QED
    BY <1>a, <2>1, LosesAnswers
<1>9. CASE NetworkAvailable
  BY <1>a, <1>9, NetworkAvailableInv, LosesAnswers DEF NetworkAvailable
<1>10. CASE Kill
  BY <1>a, <1>10, KillInv, LosesAnswers DEF Kill
<1>11. CASE HandshakeComplete
  <2> DEFINE c == [remote.call EXCEPT !.handshake = TRUE]
  <2>1. remote'.call = c /\ UNCHANGED <<user, queue, last>>
    BY <1>a, <1>11 DEF HandshakeComplete, Remotes
  <2>2. c.applied = remote.call.applied
    BY <1>a DEF Remotes, Calls
  <2>3. QED
    BY <2>1, <2>2, KeepsAnswers
<1>12. CASE ServerApplies
  <2> DEFINE n == remote.call.applied + 1
  <2>1. /\ UNCHANGED <<user, queue>> /\ remote.call.applied < Len(remote.pipeline)
        /\ last' = <<user, queue[user][n]>>
    BY <1>12, ServerAppliesInv DEF ServerApplies
  <2>2. remote'.call.applied = n
    BY <1>a, <1>12 DEF ServerApplies, Remotes, Calls
  <2>3. remote.call.applied < Len(queue[user])
    <3>1. /\ Len(remote.pipeline) =< Len(queue[user]) /\ Len(remote.pipeline) \in Nat
          /\ Len(queue[user]) \in Nat /\ remote.call.applied \in Nat
      BY InvParts, LenProperties DEF IsPrefixOf, Calls
    <3>2. QED
      BY <2>1, <3>1
  <2>4. ahead[user] = remote.call.applied /\ ahead' = [ahead EXCEPT ![user] = n]
    BY <1>a, <2>1, <2>2
  <2>5. Promise!Apply(v)
    BY <1>b, <2>1, <2>3, <2>4 DEF Promise!Apply
  <2>6. QED
    BY <2>5 DEF Promise!Next
<1>13. CASE OnWriteStreamMutationResult
  <2> DEFINE n == remote.call.applied - 1
  <2>1. /\ UNCHANGED <<user, last>> /\ remote.call.applied > 0 /\ remote'.call.applied = n
        /\ queue' = [queue EXCEPT ![user] = Tail(@)]
    BY <1>13, MutationResultInv DEF OnWriteStreamMutationResult
  <2>2. ahead[user] = remote.call.applied /\ ahead' = [ahead EXCEPT ![user] = n]
    BY <1>a, <2>1
  <2>3. Promise!Answer(v)
    BY <1>b, <2>1, <2>2 DEF Promise!Answer
  <2>4. QED
    BY <2>3 DEF Promise!Next
<1>14. CASE WriteRejected
  <2>1. /\ UNCHANGED <<user, last>> /\ remote.call.applied = 0 /\ remote'.call.applied = 0
        /\ queue' = [queue EXCEPT ![user] = Tail(@)] /\ queue[user] # << >>
    BY <1>a, <1>14, WriteRejectedInv DEF WriteRejected
  <2>2. ahead[user] = 0 /\ ahead' = ahead
    BY <1>a, <2>1
  <2>3. Promise!Reject(v)
    BY <1>b, <2>1, <2>2 DEF Promise!Reject
  <2>4. QED
    BY <2>3 DEF Promise!Next
<1>15. CASE ConnectionLost
  <2>1. UNCHANGED <<user, queue, last>> /\ Sound(remote, user, queue[user])
    BY <1>15 DEF ConnectionLost, IInv
  <2>2. remote'.call = NoCall
    BY <1>15, <2>1, CloseSound DEF ConnectionLost
  <2>3. QED
    BY <1>a, <2>1, <2>2, LosesAnswers
<1>16. CASE UNCHANGED vars
  BY <1>16, KeepsAnswers DEF vars
<1>17. QED
  BY <1>1, <1>2, <1>3, <1>4, <1>5, <1>6, <1>7, <1>8, <1>9, <1>10, <1>11, <1>12, <1>13, <1>14,
     <1>15, <1>16
  DEF Next

(* With any number of users, sign-ins, kills and lost connections, the     *)
(* phone keeps the promise of Outbox: each user's writes are applied in    *)
(* their order, and leave the queue only when they are answered.           *)
THEOREM ImplementsOutbox == Spec => KeepsPromise
<1>1. Init => Promise!Init
  BY DEF Init, NewRemote, NoCall, Promise!Init
<1>2. QED
  BY <1>1, Invariance, StepPromise, PTL DEF Spec, KeepsPromise, Promise!Spec
=============================================================================
