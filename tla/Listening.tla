------------------------------ MODULE Listening ------------------------------
(***************************************************************************)
(* How a page's listeners and gets are answered: the event manager, the    *)
(* views, the watch stream with its tracker of the online state, and the   *)
(* user's executor, on one device.  A get (joinClub's, the calendar's) is  *)
(* a listener that waits for the server while the client may be online, is *)
(* told the first snapshot on the executor, and removes itself.            *)
(*                                                                         *)
(* A query's result is whether there is a document (docs).  The server is  *)
(* external: it answers, refuses a target or is silent.                    *)
(***************************************************************************)
EXTENDS Integers, Sequences, Stream

CONSTANTS Gets,         \* get() calls, each made once
          Pages,        \* listeners of pages (StreamBuilder)
          Queries,
          QueryOf,      \* QueryOf[l]: the query of listener l
          kMaxWatchStreamFailures,
          MaxInputs     \* bound: inputs, lost connections, network changes

VARIABLES remote,       \* RemoteStore: watch stream, tracker, targets
          listeners,    \* EventManager::queries_: the listeners registered
          views,        \* views[q]: SyncEngine's view of q
          raised,       \* listeners that got their initial event
          events,       \* events[g]: posted to the executor for get g
          muted,        \* gets whose AsyncEventListener is muted
          removals,     \* RemoveQueryListener operations enqueued
          answers,      \* answers[g]: what the caller of g was told
          cached,       \* cached[q]: what the local store knows of q
          exists,       \* exists[q]: the server has a document for q
          inputs

vars == <<remote, listeners, views, raised, events, muted, removals, answers,
          cached, exists, inputs>>

Listeners == Gets \cup Pages

ASSUME ListeningAssumption ==
  /\ Gets \cap Pages = {}
  /\ QueryOf \in [Listeners -> Queries]
  /\ kMaxWatchStreamFailures \in Nat \ {0}
  /\ MaxInputs \in Nat

Trackers == [state : {"Unknown", "Online", "Offline"},
             failures : 0 .. kMaxWatchStreamFailures,
             timer : BOOLEAN]

Views == [docs : BOOLEAN, current : BOOLEAN, known : BOOLEAN]
NoView == [docs |-> FALSE, current |-> FALSE, known |-> FALSE]

(* What a get is told: the document, that there is none, or an error, of   *)
(* the client being offline or of the server.                              *)
Outcomes == {"found", "missing", "unavailable", "error"}

TypeOK ==
  /\ remote \in [watch : Streams, tracker : Trackers, targets : SUBSET Queries]
  /\ listeners \in SUBSET Listeners
  /\ views \in [Queries -> Views]
  /\ \A q \in Queries \ remote.targets : views[q] = NoView
  /\ raised \in SUBSET Listeners
  /\ events \in [Gets -> Seq(Outcomes)]
  /\ muted \in SUBSET Gets
  /\ removals \in SUBSET Listeners
  /\ answers \in [Gets -> Seq(Outcomes)]
  /\ cached \in [Queries -> {"unknown", "absent", "present"}]
  /\ exists \in [Queries -> BOOLEAN]
  /\ inputs \in 0 .. MaxInputs

-----------------------------------------------------------------------------
(* OnlineStateTracker.  failures is counted up to the limit, which is all  *)
(* the code compares it with.                                              *)

HandleWatchStreamStart(t) ==
  IF t.failures # 0 THEN t ELSE [t EXCEPT !.state = "Unknown", !.timer = TRUE]

HandleWatchStreamFailure(t) ==
  IF t.state = "Online" THEN [t EXCEPT !.state = "Unknown"]
  ELSE IF t.failures + 1 >= kMaxWatchStreamFailures
  THEN [state |-> "Offline", failures |-> kMaxWatchStreamFailures, timer |-> FALSE]
  ELSE [t EXCEPT !.failures = @ + 1]

(* Mutant: the timer is not cleared.                        *)
UpdateStateOnly(t, s) == [t EXCEPT !.state = s, !.failures = 0]

UpdateState(t, s) == [state |-> s, failures |-> 0, timer |-> FALSE]

-----------------------------------------------------------------------------
(* RemoteStore, its watching half.                                         *)

ShouldStartWatchStream(r) == ~IsStarted(r.watch) /\ r.targets # {}

StartWatchStream(r) ==
  [r EXCEPT !.watch = StreamStart(@), !.tracker = HandleWatchStreamStart(@)]

OnWatchStreamClose(r) ==
  IF ShouldStartWatchStream(r)
  THEN StartWatchStream([r EXCEPT !.tracker = HandleWatchStreamFailure(@)])
  ELSE [r EXCEPT !.tracker = UpdateState(@, "Unknown")]

(* The stream ends with an error, of gRPC or of the credentials.           *)
OnStreamFinish(r) == OnWatchStreamClose([r EXCEPT !.watch = StreamClose(@, FALSE)])

Listen(r, q) ==
  LET s == [r EXCEPT !.targets = @ \cup {q}]
  IN IF ShouldStartWatchStream(s) THEN StartWatchStream(s)
     ELSE IF IsOpen(s.watch) THEN [s EXCEPT !.watch = StreamWrite(@)]
     ELSE s

StopListening(r, q) ==
  LET s == [r EXCEPT !.targets = @ \ {q}]
  IN IF IsOpen(s.watch)
     THEN [s EXCEPT !.watch = IF s.targets = {} THEN MarkIdle(StreamWrite(@)) ELSE StreamWrite(@)]
     ELSE IF s.targets = {} THEN [s EXCEPT !.tracker = UpdateState(@, "Unknown")]
     ELSE s

(* Both streams are stopped while the network counts as disabled, their    *)
(* backoff is cleared, and what is still needed is started.                *)
RestartNetwork(r) ==
  LET s == [r EXCEPT !.watch = InhibitBackoff(StreamStop(@)),
                     !.tracker = UpdateState(@, "Unknown")]
  IN IF ShouldStartWatchStream(s) THEN StartWatchStream(s) ELSE s

-----------------------------------------------------------------------------
(* QueryListener and EventManager.                                         *)

(* Mutant: listeners wait for the server although the client is offline.   *)
RaiseWhenSynced(l, v, online) == v.current \/ (l \in Pages /\ (v.docs \/ v.known))

ShouldRaiseInitialEvent(l, v, online) ==
  \/ v.current
  \/ online = "Offline"
  \/ l \in Pages /\ (v.docs \/ v.known)

(* bound: of the events posted to one get only the first is ever heeded    *)
(* unless something is wrong; behind the second, more are not told apart.  *)
Post(queued, e) == IF Len(queued) < 2 THEN Append(queued, e) ELSE queued

(* What ListenOnce makes of a snapshot: a missing document is an error     *)
(* unless the server said so.                                              *)
Outcome(v) == IF v.docs THEN "found" ELSE IF v.current THEN "missing" ELSE "unavailable"

(* SyncEngine and EventManager after an operation has left the views vs,   *)
(* the online state and the registered listeners ls: an offline client     *)
(* holds no view current; listeners hear of a first or a changed snapshot. *)
(* (No operation passes through Offline on its way to another state.)      *)
Publish(vs, online, ls) ==
  LET seen == [q \in Queries |->
                 IF online = "Offline" /\ vs[q].current
                 THEN [vs[q] EXCEPT !.current = FALSE] ELSE vs[q]]
      first == {l \in ls \ raised : ShouldRaiseInitialEvent(l, seen[QueryOf[l]], online)}
      again == {l \in ls \cap raised : seen[QueryOf[l]] # views[QueryOf[l]]}
  IN /\ views' = seen
     /\ raised' = raised \cup first
     /\ events' = [g \in Gets |-> IF g \in first \cup again
                                  THEN Post(events[g], Outcome(seen[QueryOf[g]])) ELSE events[g]]
     /\ listeners' = ls

(* An operation that concerns the connection alone.                        *)
Reconnect(r) ==
  /\ remote' = r
  /\ Publish(views, r.tracker.state, listeners)
  /\ UNCHANGED <<muted, removals, answers, cached, exists>>

Init ==
  /\ remote = [watch |-> NewStream, targets |-> {},
               tracker |-> [state |-> "Unknown", failures |-> 0, timer |-> FALSE]]
  /\ listeners = {} /\ raised = {} /\ muted = {} /\ removals = {}
  /\ views = [q \in Queries |-> NoView]
  /\ events = [g \in Gets |-> << >>]
  /\ answers = [g \in Gets |-> << >>]
  /\ cached \in [Queries -> {"unknown", "absent", "present"}]
  /\ exists \in [Queries -> BOOLEAN]
  /\ inputs = 0

Input == inputs < MaxInputs /\ inputs' = inputs + 1

-----------------------------------------------------------------------------
(* Callers.                                                                *)

LocalView(q) == [docs |-> cached[q] = "present", current |-> FALSE, known |-> cached[q] # "unknown"]

IsListened(ls, q) == \E l \in ls : QueryOf[l] = q

(* A page may come up again and again; a get is made once.                 *)
IsNew(l) ==
  /\ l \notin listeners \cup removals
  /\ l \in Gets => answers[l] = << >> /\ events[l] = << >>

(* A get, or a page that comes up.  The first listener of a query makes    *)
(* SyncEngine compute a view from the local store and watch it.            *)
AddQueryListener(l) ==
  LET q == QueryOf[l]
      first == ~IsListened(listeners, q)
  IN /\ IsNew(l)
     /\ Input
     /\ Publish(IF first THEN [views EXCEPT ![q] = LocalView(q)] ELSE views,
                remote.tracker.state, listeners \cup {l})
     /\ remote' = IF first THEN Listen(remote, q) ELSE remote
     /\ UNCHANGED <<muted, removals, answers, cached, exists>>

(* A page goes away.                                                       *)
ClosePage(l) ==
  /\ l \in listeners \cap Pages /\ l \notin removals
  /\ Input
  /\ removals' = removals \cup {l}
  /\ UNCHANGED <<remote, listeners, views, raised, events, muted, answers, cached, exists>>

(* Mutant: any listener that leaves ends the watch.                        *)
RemoveWithWatch(l) ==
  LET q == QueryOf[l]
  IN /\ l \in removals
     /\ removals' = removals \ {l}
     /\ listeners' = listeners \ {l}
     /\ views' = IF l \in listeners THEN [views EXCEPT ![q] = NoView] ELSE views
     /\ remote' = IF l \in listeners THEN StopListening(remote, q) ELSE remote
     /\ raised' = raised \ {l}
     /\ UNCHANGED <<events, muted, answers, cached, exists, inputs>>

(* The last listener of a query ends its view and its watch.  A listener   *)
(* that an error has erased is not found.                                  *)
RemoveQueryListener(l) ==
  LET q == QueryOf[l]
      last == l \in listeners /\ ~IsListened(listeners \ {l}, q)
  IN /\ l \in removals
     /\ removals' = removals \ {l}
     /\ listeners' = listeners \ {l}
     /\ views' = IF last THEN [views EXCEPT ![q] = NoView] ELSE views
     /\ remote' = IF last THEN StopListening(remote, q) ELSE remote
     /\ raised' = raised \ {l}
     /\ UNCHANGED <<events, muted, answers, cached, exists, inputs>>

(* Mutant: a muted listener is told nevertheless.               *)
OnEventUnmuted(g) ==
  /\ events[g] # << >>
  /\ events' = [events EXCEPT ![g] = Tail(@)]
  /\ answers' = [answers EXCEPT ![g] = Append(@, Head(events[g]))]
  /\ muted' = IF Head(events[g]) = "error" THEN muted ELSE muted \cup {g}
  /\ removals' = IF Head(events[g]) = "error" THEN removals ELSE removals \cup {g}
  /\ UNCHANGED <<remote, listeners, views, raised, cached, exists, inputs>>

(* The executor runs the oldest event of g: ListenOnce removes the         *)
(* listener, which mutes it, and tells the caller; an error it passes on.  *)
OnEvent(g) ==
  /\ events[g] # << >>
  /\ events' = [events EXCEPT ![g] = Tail(@)]
  /\ IF g \in muted THEN UNCHANGED <<answers, muted, removals>>
     ELSE /\ answers' = [answers EXCEPT ![g] = Append(@, Head(events[g]))]
          /\ muted' = IF Head(events[g]) = "error" THEN muted ELSE muted \cup {g}
          /\ removals' = IF Head(events[g]) = "error" THEN removals ELSE removals \cup {g}
  /\ UNCHANGED <<remote, listeners, views, raised, cached, exists, inputs>>

-----------------------------------------------------------------------------
(* The client's timers and credentials.                                    *)

OnlineStateTimeout ==
  /\ remote.tracker.timer
  /\ Reconnect([remote EXCEPT !.tracker = [@ EXCEPT !.state = "Offline", !.timer = FALSE]])
  /\ UNCHANGED inputs

ConnectionBackoff ==
  /\ remote.watch.state = "Backoff"
  /\ Reconnect([remote EXCEPT !.watch = BackoffElapsed(@)])
  /\ UNCHANGED inputs

(* Idleness timer: Stop().                                                 *)
ListenStreamIdle ==
  /\ remote.watch.idle
  /\ Reconnect(OnWatchStreamClose([remote EXCEPT !.watch = StreamStop(@)]))
  /\ UNCHANGED inputs

(* OnWatchStreamOpen sends the targets again, which cancels idleness.      *)
CredentialsArrive ==
  /\ "current" \in remote.watch.requests
  /\ Reconnect([remote EXCEPT !.watch = Resumed(@)])
  /\ UNCHANGED inputs

CredentialsFail ==
  /\ "current" \in remote.watch.requests
  /\ Reconnect(OnStreamFinish([remote EXCEPT !.watch.requests = @ \ {"current"}]))
  /\ UNCHANGED inputs

(* Outdated credentials are noticed by the close count and dropped.        *)
CredentialsOutdated ==
  /\ "outdated" \in remote.watch.requests
  /\ Reconnect([remote EXCEPT !.watch.requests = @ \ {"outdated"}])
  /\ UNCHANGED inputs

(* The phone's network or user changes.                                    *)
NetworkChange ==
  /\ Input
  /\ Reconnect(RestartNetwork(remote))

-----------------------------------------------------------------------------
(* The network and the server.                                             *)

Online(r) == [r EXCEPT !.tracker = UpdateState(@, "Online")]

(* A connection that does not come about.                                  *)
ConnectionFails ==
  /\ IsOpen(remote.watch) /\ remote.tracker.state # "Online"
  /\ Reconnect(OnStreamFinish(remote))
  /\ UNCHANGED inputs

(* A connection that worked breaks.                                        *)
ConnectionLost ==
  /\ IsOpen(remote.watch) /\ remote.tracker.state = "Online"
  /\ Input
  /\ Reconnect(OnStreamFinish(remote))

(* Any message, such as the confirmation of a target.                      *)
WatchMessage ==
  /\ IsOpen(remote.watch) /\ remote.tracker.state # "Online"
  /\ Reconnect(Online(remote))
  /\ UNCHANGED inputs

(* A snapshot that holds the current documents of target q.                *)
WatchSnapshot(q) ==
  LET v == [docs |-> exists[q], current |-> TRUE, known |-> TRUE]
  IN /\ IsOpen(remote.watch) /\ q \in remote.targets
     /\ v # views[q]
     /\ remote' = Online(remote)
     /\ cached' = [cached EXCEPT ![q] = IF exists[q] THEN "present" ELSE "absent"]
     /\ Publish([views EXCEPT ![q] = v], "Online", listeners)
     /\ UNCHANGED <<muted, removals, answers, exists, inputs>>

(* Mutant: the view of the refused target is kept.                         *)
TargetErrorKeepsView(q) ==
  LET dropped == {l \in listeners : QueryOf[l] = q}
  IN /\ IsOpen(remote.watch) /\ q \in remote.targets
     /\ Input
     /\ remote' = [Online(remote) EXCEPT !.targets = @ \ {q}]
     /\ listeners' = listeners \ dropped
     /\ events' = [g \in Gets |-> IF g \in dropped THEN Post(events[g], "error") ELSE events[g]]
     /\ raised' = raised \ dropped
     /\ UNCHANGED <<views, muted, removals, answers, cached, exists>>

(* The server refuses a target: its listeners are told and erased.         *)
ProcessTargetError(q) ==
  LET dropped == {l \in listeners : QueryOf[l] = q}
  IN /\ IsOpen(remote.watch) /\ q \in remote.targets
     /\ Input
     /\ remote' = [Online(remote) EXCEPT !.targets = @ \ {q}]
     /\ listeners' = listeners \ dropped
     /\ views' = [views EXCEPT ![q] = NoView]
     /\ events' = [g \in Gets |-> IF g \in dropped THEN Post(events[g], "error") ELSE events[g]]
     /\ raised' = raised \ dropped
     /\ UNCHANGED <<muted, removals, answers, cached, exists>>

(* Someone creates or deletes the document.                                *)
ServerChange(q) ==
  /\ Input
  /\ exists' = [exists EXCEPT ![q] = ~@]
  /\ UNCHANGED <<remote, listeners, views, raised, events, muted, removals, answers, cached>>

Next ==
  \/ \E l \in Listeners : AddQueryListener(l) \/ ClosePage(l) \/ RemoveQueryListener(l)
  \/ \E g \in Gets : OnEvent(g)
  \/ OnlineStateTimeout \/ ConnectionBackoff \/ ListenStreamIdle
  \/ CredentialsArrive \/ CredentialsFail \/ CredentialsOutdated \/ NetworkChange
  \/ ConnectionFails \/ ConnectionLost \/ WatchMessage
  \/ \E q \in Queries : WatchSnapshot(q) \/ ProcessTargetError(q) \/ ServerChange(q)

(* The client runs its timers, the executor and the worker queue, and      *)
(* credentials are delivered or refused.                                   *)
ClientFairness ==
  /\ WF_vars(OnlineStateTimeout) /\ WF_vars(ConnectionBackoff)
  /\ WF_vars(CredentialsArrive \/ CredentialsFail)
  /\ \A g \in Gets : WF_vars(OnEvent(g))
  /\ \A l \in Listeners : WF_vars(RemoveQueryListener(l))

(* A call of gRPC on which a target was sent is answered or fails.         *)
ServerFairness ==
  \A q \in Queries : WF_vars(WatchSnapshot(q) \/ ConnectionFails)

Spec == Init /\ [][Next]_vars /\ ClientFairness /\ ServerFairness

(* As above, with a network that may swallow a call without failing it.    *)
SilentSpec == Init /\ [][Next]_vars /\ ClientFairness

-----------------------------------------------------------------------------
(* Properties.                                                             *)

(* The assertions of online_state_tracker.cc, stream.cc and                *)
(* remote_store.cc hold when they are evaluated: the timer is set only     *)
(* while the state is Unknown and never on a stopped stream (it is not     *)
(* set twice, and finds Unknown when it fires); Online has forgotten all   *)
(* failures; credentials of the current attempt find the stream Starting;  *)
(* and the idleness timer, which stops the stream gracefully, runs only    *)
(* while nothing is listened to.                                           *)
AssertionsHold ==
  LET t == remote.tracker
      w == remote.watch
  IN /\ t.timer => t.state = "Unknown" /\ IsStarted(w)
     /\ t.state = "Online" => t.failures = 0
     /\ ("current" \in w.requests) = (w.state = "Starting")
     /\ w.idle => IsOpen(w) /\ remote.targets = {}
     /\ ~IsStarted(w) => remote.targets = {}

(* The event manager and the remote store never disagree: what is watched  *)
(* is what some listener is registered for, through removals enqueued late *)
(* and listeners erased by an error, so that StopListening finds its       *)
(* target and no query is watched without a listener.                      *)
TargetsMatch == remote.targets = {QueryOf[l] : l \in listeners}

(* The caller of a get is told once: snapshots raised before the executor  *)
(* comes to run, or an error behind one, find the listener muted.          *)
AnsweredOnce == \A g \in Gets : Len(answers[g]) =< 1

(* Every get is answered: by the server, or when the state turns Offline   *)
(* by the timer or by a failed attempt, whoever else listens, leaves, or   *)
(* restarts the network meanwhile.                                         *)
GetAnswered == \A g \in Gets : (g \in listeners) ~> (answers[g] # << >>)

(* A page is not left without its first snapshot.                          *)
PageShown ==
  \A l \in Pages : (l \in listeners) ~> (l \in raised \/ l \notin listeners)

(* "If the timeout is reached, we transition to Offline rather than        *)
(* waiting indefinitely": with something to listen to, Unknown ends, also  *)
(* on attempts that neither succeed nor fail.                              *)
UnknownEnds ==
  (remote.tracker.state = "Unknown" /\ remote.targets # {})
    ~> (remote.tracker.state # "Unknown" \/ remote.targets = {})
=============================================================================
