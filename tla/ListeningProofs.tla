---------------------------- MODULE ListeningProofs ----------------------------
(***************************************************************************)
(* Proofs about Listening for any number of gets, pages and queries and    *)
(* any limit of failures.                                                  *)
(*                                                                         *)
(* The remote store (stream, tracker, targets) changes in one operation    *)
(* through several functions; lemmas say of each that it leaves a sound    *)
(* remote store.  What listeners hear is separate from it, and follows     *)
(* from who is registered and what is still posted to the executor.        *)
(***************************************************************************)
EXTENDS Listening, SequenceTheorems, TLAPS

Remotes == [watch : Streams, tracker : Trackers, targets : SUBSET Queries]

TrackerSound(t) ==
  /\ t.timer => t.state = "Unknown"
  /\ t.state = "Online" => t.failures = 0

(* A stream and the targets ts it is for.                                  *)
StreamSound(w, ts) ==
  /\ "current" \in w.requests <=> w.state = "Starting"
  /\ w.idle => IsOpen(w) /\ ts = {}

Sound(r) ==
  /\ r \in Remotes
  /\ TrackerSound(r.tracker)
  /\ r.tracker.timer => IsStarted(r.watch)
  /\ StreamSound(r.watch, r.targets)
  /\ ~IsStarted(r.watch) => r.targets = {}

(* Of the events posted to a get only the last can be an error, and then   *)
(* its listener has been erased.                                           *)
ErrorIsLast ==
  \A g \in Gets : \A i \in 1 .. Len(events[g]) :
    events[g][i] = "error" => i = Len(events[g]) /\ g \notin listeners

(* A get that was answered hears nothing more: it is muted, or erased with *)
(* no event left.                                                          *)
AnsweredIsQuiet ==
  \A g \in Gets : answers[g] # << >> =>
    \/ g \in muted
    \/ g \notin listeners /\ events[g] = << >>

IInv ==
  /\ TypeOK
  /\ AssertionsHold
  /\ TargetsMatch
  /\ AnsweredOnce
  /\ ErrorIsLast
  /\ AnsweredIsQuiet

-----------------------------------------------------------------------------
(* The remote store.                                                       *)

(* The conjuncts about the remote store, gathered.                         *)
LEMMA SoundRemote == TypeOK => (AssertionsHold <=> Sound(remote))
  BY DEF TypeOK, AssertionsHold, Sound, Remotes, TrackerSound, StreamSound

(* Starting a stopped stream, for something to listen to.                  *)
LEMMA StartSound ==
  ASSUME NEW r \in Remotes, ~IsStarted(r.watch), StreamSound(r.watch, r.targets),
         TrackerSound(r.tracker)
  PROVE  /\ Sound(StartWatchStream(r))
         /\ StartWatchStream(r).targets = r.targets
<1> DEFINE w == StreamStart(r.watch)
           t == HandleWatchStreamStart(r.tracker)
<1>1. w \in Streams /\ IsStarted(w) /\ ~w.idle /\ ("current" \in w.requests <=> w.state = "Starting")
  BY DEF Remotes, Streams, StreamStart, RequestCredentials, IsStarted, IsOpen, StreamSound
<1>2. t \in Trackers /\ TrackerSound(t)
  BY <1>1 DEF Remotes, Trackers, HandleWatchStreamStart, TrackerSound
<1>3. /\ StartWatchStream(r) \in Remotes
      /\ StartWatchStream(r).watch = w
      /\ StartWatchStream(r).tracker = t
      /\ StartWatchStream(r).targets = r.targets
  BY <1>1, <1>2 DEF StartWatchStream, Remotes
<1> HIDE DEF w, t
<1>4. QED
  BY <1>1, <1>2, <1>3 DEF Sound, StreamSound

(* After the stream was closed, gracefully or not.                         *)
LEMMA CloseSound ==
  ASSUME NEW r \in Remotes, r.watch.state \in {"Initial", "Error"}, ~r.watch.idle,
         "current" \notin r.watch.requests,
         TrackerSound(r.tracker)
  PROVE  /\ Sound(OnWatchStreamClose(r))
         /\ OnWatchStreamClose(r).targets = r.targets
<1>1. CASE r.targets = {}
  <2> DEFINE s == OnWatchStreamClose(r)
  <2>1. UpdateState(r.tracker, "Unknown") \in Trackers
    BY ListeningAssumption DEF UpdateState, Trackers
  <2>2. s = [r EXCEPT !.tracker = UpdateState(r.tracker, "Unknown")]
    BY <1>1 DEF OnWatchStreamClose, ShouldStartWatchStream
  <2>3. /\ s \in Remotes /\ s.watch = r.watch /\ s.targets = r.targets
        /\ s.tracker = UpdateState(r.tracker, "Unknown")
    BY <2>1, <2>2 DEF Remotes
  <2>4. ~s.tracker.timer /\ s.tracker.state = "Unknown"
    BY <2>3 DEF UpdateState
  <2>5. Sound(s)
    <3> HIDE DEF s
    <3>1. QED
      BY <1>1, <2>3, <2>4 DEF Sound, TrackerSound, StreamSound
  <2>6. QED
    BY <2>3, <2>5
<1>2. CASE r.targets # {}
  <2> DEFINE t == HandleWatchStreamFailure(r.tracker)
  <2> DEFINE s == [r EXCEPT !.tracker = t]
  <2>1. t \in Trackers /\ TrackerSound(t)
    BY ListeningAssumption DEF Remotes, Trackers, HandleWatchStreamFailure, TrackerSound
  <2>2. OnWatchStreamClose(r) = StartWatchStream(s)
    BY <1>2 DEF OnWatchStreamClose, ShouldStartWatchStream, IsStarted
  <2> HIDE DEF t
  <2>3. s \in Remotes /\ s.watch = r.watch /\ s.targets = r.targets /\ s.tracker = t
    BY <2>1 DEF Remotes
  <2> HIDE DEF s
  <2>4. StreamSound(s.watch, s.targets) /\ ~IsStarted(s.watch)
    BY <2>3 DEF StreamSound, IsStarted
  <2>5. QED
    BY <2>1, <2>2, <2>3, <2>4, StartSound
<1>3. QED
  BY <1>1, <1>2

(* The stream ends with an error.                                          *)
LEMMA FinishSound ==
  ASSUME NEW r \in Remotes, TrackerSound(r.tracker)
  PROVE  /\ Sound(OnStreamFinish(r))
         /\ OnStreamFinish(r).targets = r.targets
<1> DEFINE w == StreamClose(r.watch, FALSE)
<1> DEFINE s == [r EXCEPT !.watch = w]
<1>1. w \in Streams /\ w.state = "Error" /\ ~w.idle /\ "current" \notin w.requests
  BY DEF StreamClose, Streams
<1> HIDE DEF w
<1>2. s \in Remotes /\ s.watch = w /\ s.targets = r.targets /\ s.tracker = r.tracker
  BY <1>1 DEF Remotes
<1>3. OnStreamFinish(r) = OnWatchStreamClose(s)
  BY DEF OnStreamFinish, w
<1> HIDE DEF s
<1>4. QED
  BY <1>1, <1>2, <1>3, CloseSound

(* A new target.                                                           *)
LEMMA ListenSound ==
  ASSUME NEW r, Sound(r), NEW q \in Queries
  PROVE  /\ Sound(Listen(r, q))
         /\ Listen(r, q).targets = r.targets \cup {q}
<1> DEFINE s == [r EXCEPT !.targets = @ \cup {q}]
<1>1. /\ s \in Remotes /\ s.watch = r.watch /\ s.tracker = r.tracker
      /\ s.targets = r.targets \cup {q}
  BY DEF Sound, Remotes
<1>2. CASE ~IsStarted(r.watch)
  <2>1. Listen(r, q) = StartWatchStream(s)
    BY <1>1, <1>2 DEF Listen, ShouldStartWatchStream
  <2> HIDE DEF s
  <2>2. StreamSound(s.watch, s.targets)
    BY <1>1, <1>2 DEF Sound, StreamSound, IsStarted, IsOpen
  <2>3. QED
    BY <1>1, <1>2, <2>1, <2>2, StartSound DEF Sound
<1>3. CASE IsStarted(r.watch)
  <2> DEFINE w == IF IsOpen(r.watch) THEN StreamWrite(r.watch) ELSE r.watch
  <2>1. /\ w \in Streams /\ w.state = r.watch.state /\ w.requests = r.watch.requests
        /\ ~w.idle
    BY DEF Sound, Remotes, Streams, StreamWrite, StreamSound
  <2> DEFINE u == Listen(r, q)
  <2>2. u = IF IsOpen(s.watch) THEN [s EXCEPT !.watch = StreamWrite(s.watch)] ELSE s
    BY <1>1, <1>3 DEF Listen, ShouldStartWatchStream
  <2> HIDE DEF w, s
  <2>3. /\ u \in Remotes /\ u.watch = w /\ u.tracker = r.tracker
        /\ u.targets = r.targets \cup {q}
    BY <1>1, <2>1, <2>2 DEF Remotes, w
  <2>4. Sound(u)
    <3> HIDE DEF u
    <3>1. QED
      BY <1>3, <2>1, <2>3 DEF Sound, StreamSound, IsStarted
  <2>5. QED
    BY <2>3, <2>4
<1>4. QED
  BY <1>2, <1>3

(* A target that is no longer wanted.                                      *)
LEMMA StopSound ==
  ASSUME NEW r, Sound(r), NEW q \in Queries
  PROVE  /\ Sound(StopListening(r, q))
         /\ StopListening(r, q).targets = r.targets \ {q}
<1> DEFINE s == [r EXCEPT !.targets = @ \ {q}]
<1> DEFINE u == StopListening(r, q)
<1>1. /\ s \in Remotes /\ s.watch = r.watch /\ s.tracker = r.tracker
      /\ s.targets = r.targets \ {q}
  BY DEF Sound, Remotes
<1>2. CASE IsOpen(r.watch)
  <2> DEFINE w == IF s.targets = {} THEN MarkIdle(StreamWrite(r.watch)) ELSE StreamWrite(r.watch)
  <2>1. /\ w \in Streams /\ w.state = r.watch.state /\ w.requests = r.watch.requests
        /\ w.idle => IsOpen(w) /\ s.targets = {}
    BY <1>2 DEF Sound, Remotes, Streams, StreamWrite, MarkIdle, IsOpen
  <2>2. u = [s EXCEPT !.watch = w]
    BY <1>1, <1>2 DEF StopListening
  <2> HIDE DEF w, s
  <2>3. /\ u \in Remotes /\ u.watch = w /\ u.tracker = r.tracker
        /\ u.targets = r.targets \ {q}
    BY <1>1, <2>1, <2>2 DEF Remotes
  <2>4. Sound(u)
    <3> HIDE DEF u
    <3>1. QED
      BY <1>1, <1>2, <2>1, <2>3 DEF Sound, StreamSound, IsStarted, IsOpen
  <2>5. QED
    BY <2>3, <2>4
<1>3. CASE ~IsOpen(r.watch) /\ s.targets = {}
  <2> DEFINE t == UpdateState(r.tracker, "Unknown")
  <2>1. t \in Trackers /\ TrackerSound(t) /\ ~t.timer
    BY ListeningAssumption DEF UpdateState, Trackers, TrackerSound
  <2>2. u = [s EXCEPT !.tracker = t]
    BY <1>1, <1>3 DEF StopListening
  <2> HIDE DEF t, s
  <2>3. /\ u \in Remotes /\ u.watch = r.watch /\ u.tracker = t
        /\ u.targets = r.targets \ {q}
    BY <1>1, <2>1, <2>2 DEF Remotes
  <2>4. Sound(u)
    <3> HIDE DEF u
    <3>1. QED
      BY <1>1, <1>3, <2>1, <2>3 DEF Sound, StreamSound
  <2>5. QED
    BY <2>3, <2>4
<1>4. CASE ~IsOpen(r.watch) /\ s.targets # {}
  <2>1. u = s
    BY <1>1, <1>4 DEF StopListening
  <2> HIDE DEF s, u
  <2>2. QED
    BY <1>1, <1>4, <2>1 DEF Sound, StreamSound, u
<1>5. QED
  BY <1>2, <1>3, <1>4

LEMMA RestartSound ==
  ASSUME NEW r, Sound(r)
  PROVE  /\ Sound(RestartNetwork(r))
         /\ RestartNetwork(r).targets = r.targets
<1> DEFINE w == InhibitBackoff(StreamStop(r.watch))
<1> DEFINE t == UpdateState(r.tracker, "Unknown")
<1> DEFINE s == [r EXCEPT !.watch = w, !.tracker = t]
<1>1. w \in Streams /\ w.state = "Initial" /\ ~w.idle /\ "current" \notin w.requests
  BY DEF Sound, Remotes, Streams, StreamStop, StreamClose, InhibitBackoff, IsStarted, IsOpen,
         StreamSound
<1>2. t \in Trackers /\ TrackerSound(t) /\ ~t.timer
  BY ListeningAssumption DEF UpdateState, Trackers, TrackerSound
<1>3. RestartNetwork(r) = IF ShouldStartWatchStream(s) THEN StartWatchStream(s) ELSE s
  BY DEF RestartNetwork
<1> HIDE DEF w, t
<1>4. s \in Remotes /\ s.watch = w /\ s.tracker = t /\ s.targets = r.targets
  BY <1>1, <1>2 DEF Sound, Remotes
<1> HIDE DEF s
<1>5. StreamSound(s.watch, s.targets) /\ ~IsStarted(s.watch)
  BY <1>1, <1>4 DEF StreamSound, IsStarted
<1>6. CASE ShouldStartWatchStream(s)
  BY <1>2, <1>3, <1>4, <1>5, <1>6, StartSound
<1>7. CASE ~ShouldStartWatchStream(s)
  BY <1>2, <1>3, <1>4, <1>5, <1>7 DEF Sound, ShouldStartWatchStream
<1>8. QED
  BY <1>6, <1>7

(* A message arrives.                                                      *)
LEMMA OnlineSound ==
  ASSUME NEW r, Sound(r)
  PROVE  /\ Sound(Online(r)) /\ Online(r).tracker.state = "Online"
         /\ Online(r).watch = r.watch /\ Online(r).targets = r.targets
<1> DEFINE t == UpdateState(r.tracker, "Online")
<1> DEFINE s == Online(r)
<1>1. t \in Trackers /\ TrackerSound(t) /\ ~t.timer /\ t.state = "Online"
  BY ListeningAssumption DEF UpdateState, Trackers, TrackerSound
<1> HIDE DEF t
<1>2. s \in Remotes /\ s.watch = r.watch /\ s.tracker = t /\ s.targets = r.targets
  BY <1>1 DEF Sound, Remotes, Online, t
<1>3. Sound(s)
  <2> HIDE DEF s
  <2>1. QED
    BY <1>1, <1>2 DEF Sound
<1>4. QED
  BY <1>1, <1>2, <1>3

-----------------------------------------------------------------------------
(* What listeners hear.                                                    *)

LEMMA PostType ==
  ASSUME NEW q \in Seq(Outcomes), NEW e \in Outcomes
  PROVE  /\ Post(q, e) \in Seq(Outcomes)
         /\ Post(q, e) # << >>
         /\ \A i \in 1 .. Len(Post(q, e)) :
              \/ i \in 1 .. Len(q) /\ i < Len(Post(q, e)) /\ Post(q, e)[i] = q[i]
              \/ Post(q, e) = q
              \/ i = Len(Post(q, e)) /\ Post(q, e)[i] = e
  BY AppendProperties, EmptySeq DEF Post

LEMMA OutcomeType ==
  ASSUME NEW v \in Views
  PROVE  Outcome(v) \in Outcomes /\ Outcome(v) # "error"
  BY DEF Outcome, Outcomes, Views

(* Publishing to the listeners ls, each of them registered before or new.  *)
LEMMA PublishSound ==
  ASSUME TypeOK, AnsweredOnce, ErrorIsLast, AnsweredIsQuiet,
         NEW vs \in [Queries -> Views], NEW online, NEW ls \in SUBSET Listeners,
         Publish(vs, online, ls), UNCHANGED <<answers, muted>>,
         \A g \in Gets \cap ls : g \in listeners \/ (events[g] = << >> /\ answers[g] = << >>)
  PROVE  /\ views' \in [Queries -> Views]
         /\ \A q \in Queries : vs[q] = NoView => views'[q] = NoView
         /\ raised' \in SUBSET Listeners
         /\ events' \in [Gets -> Seq(Outcomes)]
         /\ listeners' = ls
         /\ AnsweredOnce' /\ ErrorIsLast' /\ AnsweredIsQuiet'
<1> DEFINE seen == [q \in Queries |->
                     IF online = "Offline" /\ vs[q].current
                     THEN [vs[q] EXCEPT !.current = FALSE] ELSE vs[q]]
<1>1. seen \in [Queries -> Views] /\ \A q \in Queries : vs[q] = NoView => seen[q] = NoView
  <2>1. ASSUME NEW q \in Queries PROVE seen[q] \in Views
    BY DEF Views
  <2>2. ~NoView.current
    BY DEF NoView
  <2>3. QED
    BY <2>1, <2>2
<1>2. views' = seen /\ listeners' = ls
  BY DEF Publish
<1>3. PICK told \in SUBSET ls :
        events' = [g \in Gets |-> IF g \in told THEN Post(events[g], Outcome(seen[QueryOf[g]]))
                                  ELSE events[g]]
  BY DEF Publish
<1>4. raised' \in SUBSET Listeners
  BY DEF Publish, TypeOK
<1> HIDE DEF seen
<1>5. ASSUME NEW g \in Gets
      PROVE  /\ events[g] \in Seq(Outcomes)
             /\ Outcome(seen[QueryOf[g]]) \in Outcomes /\ Outcome(seen[QueryOf[g]]) # "error"
  <2>1. seen[QueryOf[g]] \in Views
    BY <1>1, ListeningAssumption DEF Listeners
  <2>2. QED
    BY <2>1, OutcomeType DEF TypeOK
<1>6. events' \in [Gets -> Seq(Outcomes)]
  BY <1>3, <1>5, PostType
<1>7. ErrorIsLast'
  <2> SUFFICES ASSUME NEW g \in Gets, NEW i \in 1 .. Len(events'[g]), events'[g][i] = "error"
               PROVE  i = Len(events'[g]) /\ g \notin ls
    BY <1>2 DEF ErrorIsLast
  <2>1. CASE g \in told
    <3>1. g \in listeners \/ events[g] = << >>
      BY <2>1
    <3>2. \A j \in 1 .. Len(events[g]) : events[g][j] # "error"
      BY <1>5, <3>1, EmptySeq DEF ErrorIsLast
    <3>3. events'[g] = Post(events[g], Outcome(seen[QueryOf[g]]))
      BY <1>3, <2>1
    <3> DEFINE e == Outcome(seen[QueryOf[g]])
    <3>4. events[g] \in Seq(Outcomes) /\ e \in Outcomes /\ e # "error"
      BY <1>5
    <3> HIDE DEF e
    <3>5. \/ events'[g][i] = events[g][i] /\ i \in 1 .. Len(events[g])
          \/ i = Len(events'[g]) /\ events'[g][i] = e
      BY <3>3, <3>4, PostType DEF e
    <3>6. QED
      BY <3>2, <3>4, <3>5
  <2>2. CASE g \notin told
    BY <1>3, <1>5, <2>2, EmptySeq DEF ErrorIsLast
  <2>3. QED
    BY <2>1, <2>2
<1>8. AnsweredOnce' /\ AnsweredIsQuiet'
  BY <1>2, <1>3 DEF AnsweredOnce, AnsweredIsQuiet
<1>9. QED
  BY <1>1, <1>2, <1>4, <1>6, <1>7, <1>8

(* An operation that concerns the connection alone.                        *)
LEMMA ReconnectSound ==
  ASSUME IInv, NEW r, Sound(r), r.targets = remote.targets,
         Reconnect(r), inputs' \in 0 .. MaxInputs
  PROVE  IInv'
<1>1. /\ views' \in [Queries -> Views]
      /\ \A q \in Queries : views[q] = NoView => views'[q] = NoView
      /\ raised' \in SUBSET Listeners
      /\ events' \in [Gets -> Seq(Outcomes)]
      /\ listeners' = listeners
      /\ AnsweredOnce' /\ ErrorIsLast' /\ AnsweredIsQuiet'
  BY PublishSound DEF IInv, TypeOK, Reconnect
<1>2. remote' = r
  BY DEF Reconnect
<1>3. TypeOK'
  BY <1>1, <1>2 DEF IInv, TypeOK, Reconnect, Sound, Remotes
<1>4. AssertionsHold'
  <2>1. Sound(remote)'
    BY <1>2 DEF Sound, IsStarted, StreamSound, TrackerSound, IsOpen
  <2>2. QED
    BY <1>2, <1>3, SoundRemote DEF AssertionsHold, Sound, Remotes, TrackerSound, StreamSound, TypeOK
<1>5. TargetsMatch'
  BY <1>1, <1>2 DEF IInv, TargetsMatch
<1>6. QED
  BY <1>1, <1>3, <1>4, <1>5 DEF IInv

-----------------------------------------------------------------------------
(* Nobody listens and nothing is started.                                  *)
LEMMA InitInv == Init => IInv
<1> SUFFICES ASSUME Init PROVE IInv
  OBVIOUS
<1> USE DEF Init
<1>1. TypeOK
  BY ListeningAssumption
  DEF TypeOK, Streams, NewStream, Trackers, Views, NoView, Outcomes, Listeners
<1>2. AssertionsHold
  BY DEF AssertionsHold, NewStream, IsStarted, IsOpen
<1>3. TargetsMatch /\ AnsweredOnce /\ ErrorIsLast /\ AnsweredIsQuiet
  BY DEF TargetsMatch, AnsweredOnce, ErrorIsLast, AnsweredIsQuiet
<1>4. QED
  BY <1>1, <1>2, <1>3 DEF IInv

(* Callers: pages and gets that come, leave and are told.                  *)

LEMMA AddInv ==
  ASSUME IInv, NEW l \in Listeners, AddQueryListener(l)
  PROVE  IInv'
<1> DEFINE q == QueryOf[l]
<1> DEFINE first == ~IsListened(listeners, q)
<1> DEFINE vs == IF first THEN [views EXCEPT ![q] = LocalView(q)] ELSE views
<1>1. q \in Queries
  BY ListeningAssumption
<1>2. vs \in [Queries -> Views]
  BY <1>1 DEF IInv, TypeOK, LocalView, Views
<1>3. /\ Publish(vs, remote.tracker.state, listeners \cup {l})
      /\ remote' = IF first THEN Listen(remote, q) ELSE remote
      /\ UNCHANGED <<muted, removals, answers, cached, exists>>
      /\ inputs' \in 0 .. MaxInputs
      /\ IsNew(l)
  BY ListeningAssumption DEF AddQueryListener, Input, IInv, TypeOK
<1> HIDE DEF vs
<1>4. \A g \in Gets \cap (listeners \cup {l}) :
        g \in listeners \/ (events[g] = << >> /\ answers[g] = << >>)
  BY <1>3 DEF IsNew
<1>5. /\ views' \in [Queries -> Views]
      /\ \A p \in Queries : vs[p] = NoView => views'[p] = NoView
      /\ raised' \in SUBSET Listeners
      /\ events' \in [Gets -> Seq(Outcomes)]
      /\ listeners' = listeners \cup {l}
      /\ AnsweredOnce' /\ ErrorIsLast' /\ AnsweredIsQuiet'
  BY <1>2, <1>3, <1>4, PublishSound DEF IInv, TypeOK
<1>6. Sound(remote)
  BY SoundRemote DEF IInv
<1>7. Sound(remote') /\ remote'.targets = remote.targets \cup {q}
  <2>1. CASE first
    BY <1>1, <1>3, <1>6, <2>1, ListenSound
  <2>2. CASE ~first
    BY <1>3, <1>6, <2>2 DEF IsListened, IInv, TargetsMatch
  <2>3. QED
    BY <2>1, <2>2
<1>8. TypeOK'
  <2>1. \A p \in Queries \ remote'.targets : views'[p] = NoView
    BY <1>1, <1>5, <1>7 DEF IInv, TypeOK, vs
  <2>2. QED
    BY <1>3, <1>5, <1>7, <2>1 DEF IInv, TypeOK, Sound, Remotes
<1>9. AssertionsHold'
  BY <1>7 DEF AssertionsHold, Sound, TrackerSound, StreamSound
<1>10. TargetsMatch'
  BY <1>5, <1>7 DEF IInv, TargetsMatch
<1>11. QED
  BY <1>5, <1>8, <1>9, <1>10 DEF IInv

LEMMA RemoveInv ==
  ASSUME IInv, NEW l \in Listeners, RemoveQueryListener(l)
  PROVE  IInv'
<1> DEFINE q == QueryOf[l]
<1> DEFINE last == l \in listeners /\ ~IsListened(listeners \ {l}, q)
<1>1. q \in Queries
  BY ListeningAssumption
<1>2. /\ listeners' = listeners \ {l}
      /\ views' = IF last THEN [views EXCEPT ![q] = NoView] ELSE views
      /\ remote' = IF last THEN StopListening(remote, q) ELSE remote
      /\ raised' = raised \ {l} /\ removals' = removals \ {l}
      /\ UNCHANGED <<events, muted, answers, cached, exists, inputs>>
  BY DEF RemoveQueryListener
<1>3. Sound(remote)
  BY SoundRemote DEF IInv
<1>4. Sound(remote') /\ remote'.targets = IF last THEN remote.targets \ {q} ELSE remote.targets
  BY <1>1, <1>2, <1>3, StopSound
<1>5. TargetsMatch'
  BY <1>2, <1>4 DEF IInv, TargetsMatch, IsListened
<1>6. TypeOK'
  BY <1>1, <1>2, <1>4 DEF IInv, TypeOK, Sound, Remotes, Views, NoView
<1>7. AssertionsHold'
  BY <1>4 DEF AssertionsHold, Sound, TrackerSound, StreamSound
<1>8. AnsweredOnce' /\ ErrorIsLast' /\ AnsweredIsQuiet'
  BY <1>2 DEF IInv, AnsweredOnce, ErrorIsLast, AnsweredIsQuiet
<1>9. QED
  BY <1>5, <1>6, <1>7, <1>8 DEF IInv

LEMMA OnEventInv ==
  ASSUME IInv, NEW g \in Gets, OnEvent(g)
  PROVE  IInv'
<1>1. /\ events[g] # << >> /\ events[g] \in Seq(Outcomes) /\ answers[g] \in Seq(Outcomes)
      /\ events' = [events EXCEPT ![g] = Tail(@)]
      /\ UNCHANGED <<remote, listeners, views, raised, cached, exists, inputs>>
  BY DEF OnEvent, IInv, TypeOK
<1>2. /\ Head(events[g]) \in Outcomes /\ Head(events[g]) = events[g][1]
      /\ Tail(events[g]) \in Seq(Outcomes) /\ Len(Tail(events[g])) = Len(events[g]) - 1
      /\ \A i \in 1 .. Len(Tail(events[g])) : Tail(events[g])[i] = events[g][i + 1]
      /\ Len(events[g]) \in Nat \ {0}
  BY <1>1, HeadTailProperties, EmptySeq
<1>3. ErrorIsLast'
  <2> SUFFICES ASSUME NEW h \in Gets, NEW i \in 1 .. Len(events'[h]), events'[h][i] = "error"
               PROVE  i = Len(events'[h]) /\ h \notin listeners
    BY <1>1 DEF ErrorIsLast
  <2>1. CASE h = g
    <3>1. events'[h] = Tail(events[g])
      BY <1>1, <2>1 DEF IInv, TypeOK
    <3>2. i + 1 \in 1 .. Len(events[g]) /\ events[g][i + 1] = "error"
      BY <1>2, <3>1
    <3>3. i + 1 = Len(events[g]) /\ g \notin listeners
      BY <3>2 DEF IInv, ErrorIsLast
    <3>4. QED
      BY <1>2, <2>1, <3>1, <3>3
  <2>2. CASE h # g
    BY <1>1, <2>2 DEF IInv, TypeOK, ErrorIsLast
  <2>3. QED
    BY <2>1, <2>2
<1>4. CASE g \in muted
  <2>1. UNCHANGED <<answers, muted, removals>>
    BY <1>4 DEF OnEvent
  <2>2. TypeOK'
    BY <1>1, <1>2, <2>1 DEF IInv, TypeOK
  <2>3. AssertionsHold' /\ TargetsMatch' /\ AnsweredOnce'
    BY <1>1, <2>1 DEF IInv, AssertionsHold, TargetsMatch, AnsweredOnce
  <2>4. AnsweredIsQuiet'
    BY <1>1, <1>4, <2>1 DEF IInv, TypeOK, AnsweredIsQuiet
  <2>5. QED
    BY <1>3, <2>2, <2>3, <2>4 DEF IInv
<1>5. CASE g \notin muted
  <2> DEFINE e == Head(events[g])
  <2>1. /\ answers' = [answers EXCEPT ![g] = Append(@, e)]
        /\ muted' = IF e = "error" THEN muted ELSE muted \cup {g}
        /\ removals' = IF e = "error" THEN removals ELSE removals \cup {g}
    BY <1>5 DEF OnEvent
  <2>2. answers[g] = << >>
    BY <1>1, <1>5 DEF IInv, AnsweredIsQuiet
  <2>3. /\ Append(answers[g], e) \in Seq(Outcomes) /\ Len(Append(answers[g], e)) = 1
    BY <1>1, <1>2, <2>2, AppendProperties, EmptySeq
  <2>4. e = "error" => g \notin listeners /\ Tail(events[g]) = << >>
    <3> SUFFICES ASSUME e = "error" PROVE g \notin listeners /\ Tail(events[g]) = << >>
      OBVIOUS
    <3>1. 1 \in 1 .. Len(events[g]) /\ events[g][1] = "error"
      BY <1>2
    <3>2. 1 = Len(events[g]) /\ g \notin listeners
      BY <3>1 DEF IInv, ErrorIsLast
    <3>3. Len(Tail(events[g])) = 0
      BY <1>2, <3>2
    <3>4. QED
      BY <1>2, <3>2, <3>3, EmptySeq
  <2> HIDE DEF e
  <2>5. TypeOK'
    BY <1>1, <1>2, <2>1, <2>3 DEF IInv, TypeOK, Listeners
  <2>6. AssertionsHold' /\ TargetsMatch'
    BY <1>1 DEF IInv, AssertionsHold, TargetsMatch
  <2>7. AnsweredOnce'
    BY <2>1, <2>3 DEF IInv, TypeOK, AnsweredOnce
  <2>8. AnsweredIsQuiet'
    BY <1>1, <2>1, <2>4 DEF IInv, TypeOK, AnsweredIsQuiet
  <2>9. QED
    BY <1>3, <2>5, <2>6, <2>7, <2>8 DEF IInv
<1>6. QED
  BY <1>4, <1>5

LEMMA ClosePageInv ==
  ASSUME IInv, NEW l \in Listeners, ClosePage(l)
  PROVE  IInv'
<1>1. TypeOK'
  BY ListeningAssumption DEF IInv, TypeOK, ClosePage, Input
<1>2. QED
  BY <1>1 DEF IInv, ClosePage, AssertionsHold, TargetsMatch, AnsweredOnce, ErrorIsLast, AnsweredIsQuiet

(* Timers, credentials and the connection: each leaves a sound remote      *)
(* store with the same targets.                                            *)
LEMMA ConnectionInv ==
  ASSUME IInv,
         \/ OnlineStateTimeout \/ ConnectionBackoff \/ ListenStreamIdle
         \/ CredentialsArrive \/ CredentialsFail \/ CredentialsOutdated
         \/ NetworkChange \/ ConnectionFails \/ ConnectionLost \/ WatchMessage
  PROVE  IInv'
<1>1. Sound(remote)
  BY SoundRemote DEF IInv
<1>2. inputs' \in 0 .. MaxInputs
  BY ListeningAssumption
  DEF IInv, TypeOK, Input, OnlineStateTimeout, ConnectionBackoff, ListenStreamIdle,
      CredentialsArrive, CredentialsFail, CredentialsOutdated, NetworkChange, ConnectionFails,
      ConnectionLost, WatchMessage
<1> SUFFICES \E r : Sound(r) /\ r.targets = remote.targets /\ Reconnect(r)
  BY <1>2, ReconnectSound
<1>3. CASE OnlineStateTimeout
  <2> DEFINE t == [remote.tracker EXCEPT !.state = "Offline", !.timer = FALSE]
  <2> DEFINE r == [remote EXCEPT !.tracker = t]
  <2>1. Reconnect(r)
    BY <1>3 DEF OnlineStateTimeout
  <2>2. t \in Trackers /\ TrackerSound(t) /\ ~t.timer
    BY <1>1 DEF Sound, Remotes, Trackers, TrackerSound
  <2> HIDE DEF t
  <2>3. r \in Remotes /\ r.watch = remote.watch /\ r.targets = remote.targets /\ r.tracker = t
    BY <1>1, <2>2 DEF Sound, Remotes
  <2> HIDE DEF r
  <2>4. Sound(r)
    BY <1>1, <2>2, <2>3 DEF Sound
  <2>5. QED
    BY <2>1, <2>3, <2>4
<1>4. CASE ConnectionBackoff
  <2> DEFINE w == BackoffElapsed(remote.watch)
  <2> DEFINE r == [remote EXCEPT !.watch = w]
  <2>1. Reconnect(r)
    BY <1>4 DEF ConnectionBackoff
  <2>2. w \in Streams /\ IsStarted(w) /\ StreamSound(w, remote.targets)
    BY <1>1, <1>4 DEF ConnectionBackoff, BackoffElapsed, RequestCredentials, Sound, Remotes, Streams,
                      StreamSound, IsStarted, IsOpen
  <2> HIDE DEF w
  <2>3. r \in Remotes /\ r.watch = w /\ r.targets = remote.targets /\ r.tracker = remote.tracker
    BY <1>1, <2>2 DEF Sound, Remotes
  <2> HIDE DEF r
  <2>4. Sound(r)
    BY <1>1, <2>2, <2>3 DEF Sound
  <2>5. QED
    BY <2>1, <2>3, <2>4
<1>5. CASE ListenStreamIdle
  <2> DEFINE w == StreamStop(remote.watch)
  <2> DEFINE r == [remote EXCEPT !.watch = w]
  <2>1. Reconnect(OnWatchStreamClose(r))
    BY <1>5 DEF ListenStreamIdle
  <2>2. w \in Streams /\ w.state = "Initial" /\ ~w.idle /\ "current" \notin w.requests
    BY <1>1, <1>5 DEF ListenStreamIdle, StreamStop, StreamClose, Sound, Remotes, Streams, StreamSound,
                      IsStarted, IsOpen
  <2> HIDE DEF w
  <2>3. r \in Remotes /\ r.watch = w /\ r.targets = remote.targets /\ r.tracker = remote.tracker
    BY <1>1, <2>2 DEF Sound, Remotes
  <2> HIDE DEF r
  <2>4. Sound(OnWatchStreamClose(r)) /\ OnWatchStreamClose(r).targets = remote.targets
    BY <1>1, <2>2, <2>3, CloseSound DEF Sound, TrackerSound
  <2>5. QED
    BY <2>1, <2>4
<1>6. CASE CredentialsArrive
  <2> DEFINE w == Resumed(remote.watch)
  <2> DEFINE r == [remote EXCEPT !.watch = w]
  <2>1. Reconnect(r)
    BY <1>6 DEF CredentialsArrive
  <2>2. w \in Streams /\ IsStarted(w) /\ StreamSound(w, remote.targets)
    BY <1>1, <1>6 DEF CredentialsArrive, Resumed, Sound, Remotes, Streams, StreamSound, IsStarted, IsOpen
  <2> HIDE DEF w
  <2>3. r \in Remotes /\ r.watch = w /\ r.targets = remote.targets /\ r.tracker = remote.tracker
    BY <1>1, <2>2 DEF Sound, Remotes
  <2> HIDE DEF r
  <2>4. Sound(r)
    BY <1>1, <2>2, <2>3 DEF Sound
  <2>5. QED
    BY <2>1, <2>3, <2>4
<1>7. CASE CredentialsFail
  <2> DEFINE r == [remote EXCEPT !.watch.requests = @ \ {"current"}]
  <2>1. Reconnect(OnStreamFinish(r))
    BY <1>7 DEF CredentialsFail
  <2>2. r \in Remotes /\ r.targets = remote.targets /\ r.tracker = remote.tracker
    BY <1>1 DEF Sound, Remotes, Streams
  <2> HIDE DEF r
  <2>3. Sound(OnStreamFinish(r)) /\ OnStreamFinish(r).targets = remote.targets
    BY <1>1, <2>2, FinishSound DEF Sound
  <2>4. QED
    BY <2>1, <2>3
<1>8. CASE CredentialsOutdated
  <2> DEFINE r == [remote EXCEPT !.watch.requests = @ \ {"outdated"}]
  <2>1. Reconnect(r)
    BY <1>8 DEF CredentialsOutdated
  <2>2. /\ r \in Remotes /\ r.targets = remote.targets /\ r.tracker = remote.tracker
        /\ r.watch.state = remote.watch.state /\ r.watch.idle = remote.watch.idle
        /\ r.watch.requests = remote.watch.requests \ {"outdated"}
    BY <1>1 DEF Sound, Remotes, Streams
  <2> HIDE DEF r
  <2>3. Sound(r)
    BY <1>1, <2>2 DEF Sound, StreamSound, IsStarted, IsOpen
  <2>4. QED
    BY <2>1, <2>2, <2>3
<1>9. CASE NetworkChange
  BY <1>1, <1>9, RestartSound DEF NetworkChange
<1>10. CASE ConnectionFails \/ ConnectionLost
  BY <1>1, <1>10, FinishSound DEF ConnectionFails, ConnectionLost, Sound
<1>11. CASE WatchMessage
  BY <1>1, <1>11, OnlineSound DEF WatchMessage
<1>12. QED
  BY <1>3, <1>4, <1>5, <1>6, <1>7, <1>8, <1>9, <1>10, <1>11

(* A snapshot of the server brings a query's view up to date.              *)
LEMMA WatchSnapshotInv ==
  ASSUME IInv, NEW q \in Queries, WatchSnapshot(q)
  PROVE  IInv'
<1> DEFINE v == [docs |-> exists[q], current |-> TRUE, known |-> TRUE]
<1> DEFINE vs == [views EXCEPT ![q] = v]
<1>1. v \in Views
  BY DEF Views, IInv, TypeOK
<1>2. /\ q \in remote.targets /\ remote' = Online(remote)
      /\ cached' = [cached EXCEPT ![q] = IF exists[q] THEN "present" ELSE "absent"]
      /\ Publish(vs, "Online", listeners)
      /\ UNCHANGED <<muted, removals, answers, exists, inputs>>
  BY DEF WatchSnapshot
<1> HIDE DEF v
<1>3. vs \in [Queries -> Views] /\ \A p \in Queries \ {q} : vs[p] = views[p]
  BY <1>1 DEF IInv, TypeOK
<1> HIDE DEF vs
<1>4. /\ views' \in [Queries -> Views]
      /\ \A p \in Queries : vs[p] = NoView => views'[p] = NoView
      /\ raised' \in SUBSET Listeners
      /\ events' \in [Gets -> Seq(Outcomes)]
      /\ listeners' = listeners
      /\ AnsweredOnce' /\ ErrorIsLast' /\ AnsweredIsQuiet'
  BY <1>2, <1>3, PublishSound DEF IInv, TypeOK
<1>5. Sound(remote') /\ remote'.targets = remote.targets
  BY <1>2, SoundRemote, OnlineSound DEF IInv
<1>6. TypeOK'
  BY <1>2, <1>3, <1>4, <1>5 DEF IInv, TypeOK, Sound, Remotes
<1>7. AssertionsHold'
  <2>1. Sound(remote)'
    BY <1>5 DEF Sound, IsStarted, StreamSound, TrackerSound, IsOpen
  <2>2. QED
    BY <1>5, <1>6, SoundRemote DEF AssertionsHold, Sound, Remotes, TrackerSound, StreamSound, TypeOK
<1>8. TargetsMatch'
  BY <1>4, <1>5 DEF IInv, TargetsMatch
<1>9. QED
  BY <1>4, <1>6, <1>7, <1>8 DEF IInv

(* A refused target leaves with its view and its listeners; what they are  *)
(* told is the last they hear.                                             *)
LEMMA TargetErrorInv ==
  ASSUME IInv, NEW q \in Queries, ProcessTargetError(q)
  PROVE  IInv'
<1> DEFINE dropped == {l \in listeners : QueryOf[l] = q}
<1> DEFINE r == [Online(remote) EXCEPT !.targets = @ \ {q}]
<1>1. /\ IsOpen(remote.watch) /\ q \in remote.targets /\ Input
      /\ remote' = r
      /\ listeners' = listeners \ dropped
      /\ views' = [views EXCEPT ![q] = NoView]
      /\ events' = [g \in Gets |-> IF g \in dropped THEN Post(events[g], "error") ELSE events[g]]
      /\ raised' = raised \ dropped
      /\ UNCHANGED <<muted, removals, answers, cached, exists>>
  BY DEF ProcessTargetError
<1>2. dropped \subseteq listeners /\ "error" \in Outcomes
  BY DEF Outcomes
<1>3. Sound(r) /\ r.targets = remote.targets \ {q}
  <2> DEFINE s == Online(remote)
  <2>1. Sound(s) /\ s.watch = remote.watch /\ s.targets = remote.targets
    BY SoundRemote, OnlineSound DEF IInv
  <2> HIDE DEF s
  <2>2. r = [s EXCEPT !.targets = s.targets \ {q}]
    BY DEF s
  <2> HIDE DEF r
  <2>3. /\ r \in Remotes /\ r.watch = s.watch /\ r.tracker = s.tracker
        /\ r.targets = s.targets \ {q}
    BY <2>1, <2>2 DEF Sound, Remotes
  <2>4. Sound(r)
    BY <2>1, <2>3 DEF Sound, StreamSound
  <2>5. QED
    BY <2>1, <2>3, <2>4
<1> HIDE DEF r
<1>4. ASSUME NEW g \in Gets PROVE events[g] \in Seq(Outcomes)
  BY DEF IInv, TypeOK
<1>5. TypeOK'
  <2>1. events' \in [Gets -> Seq(Outcomes)]
    BY <1>1, <1>2, <1>4, PostType
  <2>2. views' \in [Queries -> Views] /\ \A p \in Queries \ remote'.targets : views'[p] = NoView
    BY <1>1, <1>3 DEF IInv, TypeOK, Views, NoView
  <2>3. inputs' \in 0 .. MaxInputs
    BY <1>1, ListeningAssumption DEF Input, IInv, TypeOK
  <2>4. remote' \in Remotes
    BY <1>1, <1>3 DEF Sound
  <2>5. QED
    BY <1>1, <2>1, <2>2, <2>3, <2>4 DEF IInv, TypeOK, Remotes
<1>6. AssertionsHold'
  <2>1. Sound(remote)'
    BY <1>1, <1>3 DEF Sound, IsStarted, StreamSound, TrackerSound, IsOpen
  <2>2. QED
    BY <1>1, <1>5, <2>1, SoundRemote
    DEF AssertionsHold, Sound, Remotes, TrackerSound, StreamSound, TypeOK
<1>7. TargetsMatch'
  BY <1>1, <1>3 DEF IInv, TargetsMatch
<1>8. AnsweredOnce'
  BY <1>1 DEF IInv, AnsweredOnce
<1>9. ErrorIsLast'
  <2> SUFFICES ASSUME NEW g \in Gets, NEW i \in 1 .. Len(events'[g]), events'[g][i] = "error"
               PROVE  i = Len(events'[g]) /\ g \notin listeners'
    BY DEF ErrorIsLast
  <2>1. CASE g \in dropped
    <3>1. events'[g] = Post(events[g], "error")
      BY <1>1, <2>1
    <3>2. \A j \in 1 .. Len(events[g]) : events[g][j] # "error"
      BY <1>2, <2>1 DEF IInv, ErrorIsLast
    <3>3. \/ events'[g][i] = events[g][i] /\ i \in 1 .. Len(events[g])
          \/ i = Len(events'[g])
      BY <1>2, <1>4, <3>1, PostType
    <3>4. QED
      BY <1>1, <2>1, <3>2, <3>3
  <2>2. CASE g \notin dropped
    BY <1>1, <2>2 DEF IInv, ErrorIsLast
  <2>3. QED
    BY <2>1, <2>2
<1>10. AnsweredIsQuiet'
  BY <1>1, <1>2 DEF IInv, AnsweredIsQuiet
<1>11. QED
  BY <1>5, <1>6, <1>7, <1>8, <1>9, <1>10 DEF IInv

LEMMA ServerChangeInv ==
  ASSUME IInv, NEW q \in Queries, ServerChange(q)
  PROVE  IInv'
<1>1. TypeOK'
  BY ListeningAssumption DEF IInv, TypeOK, ServerChange, Input
<1>2. QED
  BY <1>1 DEF IInv, ServerChange, AssertionsHold, TargetsMatch, AnsweredOnce, ErrorIsLast,
              AnsweredIsQuiet

LEMMA NextInv == IInv /\ [Next]_vars => IInv'
<1> SUFFICES ASSUME IInv, [Next]_vars PROVE IInv'
  OBVIOUS
<1>1. ASSUME NEW l \in Listeners, AddQueryListener(l) PROVE IInv'
  BY <1>1, AddInv
<1>2. ASSUME NEW l \in Listeners, ClosePage(l) PROVE IInv'
  BY <1>2, ClosePageInv
<1>3. ASSUME NEW l \in Listeners, RemoveQueryListener(l) PROVE IInv'
  BY <1>3, RemoveInv
<1>4. ASSUME NEW g \in Gets, OnEvent(g) PROVE IInv'
  BY <1>4, OnEventInv
<1>5. ASSUME \/ OnlineStateTimeout \/ ConnectionBackoff \/ ListenStreamIdle
             \/ CredentialsArrive \/ CredentialsFail \/ CredentialsOutdated
             \/ NetworkChange \/ ConnectionFails \/ ConnectionLost \/ WatchMessage
      PROVE  IInv'
  BY <1>5, ConnectionInv
<1>6. ASSUME NEW q \in Queries, WatchSnapshot(q) PROVE IInv'
  BY <1>6, WatchSnapshotInv
<1>7. ASSUME NEW q \in Queries, ProcessTargetError(q) PROVE IInv'
  BY <1>7, TargetErrorInv
<1>8. ASSUME NEW q \in Queries, ServerChange(q) PROVE IInv'
  BY <1>8, ServerChangeInv
<1>9. CASE UNCHANGED vars
  BY <1>9 DEF vars, IInv, TypeOK, AssertionsHold, TargetsMatch, AnsweredOnce, ErrorIsLast,
              AnsweredIsQuiet
<1>10. QED
  BY <1>1, <1>2, <1>3, <1>4, <1>5, <1>6, <1>7, <1>8, <1>9 DEF Next

LEMMA Invariance == Spec => []IInv
  BY InitInv, NextInv, PTL DEF Spec

-----------------------------------------------------------------------------
(* Every state of the event manager, the views and the remote store is one *)
(* the code's types allow, and a query that is not watched has no view.    *)
THEOREM TypeCorrect == Spec => []TypeOK
<1>1. IInv => TypeOK
  BY DEF IInv
<1>2. QED
  BY <1>1, Invariance, PTL

(* The assertions of online_state_tracker.cc, stream.cc and                *)
(* remote_store.cc never fail, with any number of listeners and any limit  *)
(* of failures.                                                            *)
THEOREM AssertionsNeverFail == Spec => []AssertionsHold
<1>1. IInv => AssertionsHold
  BY DEF IInv
<1>2. QED
  BY <1>1, Invariance, PTL

(* The remote store watches exactly what the event manager has a listener  *)
(* for, through late removals and listeners erased by an error.            *)
THEOREM WatchedIsListened == Spec => []TargetsMatch
<1>1. IInv => TargetsMatch
  BY DEF IInv
<1>2. QED
  BY <1>1, Invariance, PTL

(* ListenOnce tells the caller of a get once: never a second snapshot, nor *)
(* an error behind a snapshot.                                             *)
THEOREM ToldOnce == Spec => []AnsweredOnce
<1>1. IInv => AnsweredOnce
  BY DEF IInv
<1>2. QED
  BY <1>1, Invariance, PTL
=============================================================================
