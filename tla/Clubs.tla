-------------------------------- MODULE Clubs --------------------------------
(***************************************************************************)
(* Clubs, memberships and calendars on the phones of one user, over the    *)
(* offline client.  Only joinedClubs and myVolunteerEvents belong to the   *)
(* user; what other people do to clubs and club events is what another     *)
(* phone does that never joins.                                            *)
(*                                                                         *)
(* A club or membership document is only there or not (Present); an event  *)
(* document is its eventDate, which the date picker sets to midnight, so   *)
(* that it is a day.  The instance of CalendarPage a phone watches is      *)
(* built with the tabs, or anew from the drawer; it fetches the clubs      *)
(* joined once and then listens to their events.                           *)
(***************************************************************************)
EXTENDS FirestoreClient

CONSTANTS Clubs,
          EventNames,
          Days,
          Present,      \* content of a document that is only there or not
          Stores,       \* what the server may hold when the app is installed
          Slots,        \* bound: joinClub calls under way on a device
          MaxTaps,      \* bound: inputs when the user stops
          MaxInputs     \* bound: user inputs, kills and broken streams

VARIABLES page,         \* page[d]: the club whose ClubOutline is open
          joins,        \* joins[d]: joinClub calls under way
          calendar,     \* calendar[d]: the clubs fetched, the list to be sorted
          inputs        \* inputs so far

vars == <<db, cache, queue, sent, page, joins, calendar, inputs>>

Joined(c) == <<"joined", c>>          \* Users/{me}/joinedClubs/{c}
Mine(e) == <<"mine", e>>              \* Users/{me}/myVolunteerEvents/{e}
RootEvent(e) == <<"events", e>>       \* events/{e}
ClubEvent(c, e) == <<c, e>>           \* club/{c}/clubEvents/{e}

Shared == Clubs \cup (Clubs \X EventNames)
Own == {Joined(c) : c \in Clubs} \cup {Mine(e) : e \in EventNames}
Keys == Shared \cup Own \cup {RootEvent(e) : e \in EventNames}
Values == Days \cup {Present, NoDoc}

NoClub == "none"
NoJoin == [club |-> NoClub, found |-> "reading"]
Loading == [state |-> "loading", clubs |-> {}, list |-> {}]

ASSUME ClubsAssumption ==
  /\ NoDoc \notin Days /\ Present \notin Days /\ Present # NoDoc
  /\ NoClub \notin Clubs /\ Clubs \cap {"joined", "mine", "events"} = {}
  /\ Stores \subseteq [Keys -> Values]
  /\ MaxTaps \in Nat /\ MaxInputs \in Nat /\ MaxTaps =< MaxInputs

TypeOK ==
  /\ db \in [Keys -> Values]
  /\ cache \in [Devices -> [Shared \cup Own -> Values]]
  /\ queue \in [Devices -> Seq([op : {"set", "delete"}, key : Keys, data : Values])]
  /\ sent \in [Devices -> [applied : Nat, seen : Nat, refused : BOOLEAN]]
  /\ \A d \in Devices : /\ sent[d].seen =< sent[d].applied /\ sent[d].applied =< Len(queue[d])
                         /\ ~sent[d].refused
  /\ page \in [Devices -> Clubs \cup {NoClub}]
  /\ joins \in [Devices -> [Slots -> [club : Clubs \cup {NoClub},
                                      found : {"reading", "absent", "present"}]]]
  /\ calendar \in [Devices -> [state : {"loading", "ready", "broken"},
                               clubs : SUBSET Clubs,
                               list : SUBSET ((Clubs \X EventNames) \cup Own)]]
  /\ inputs \in 0 .. MaxInputs

(* Newly installed phones of a user who may have clubs and events already. *)
Init ==
  /\ \E docs \in Stores : ClientInit(docs, [k \in Shared \cup Own |-> NoDoc])
  /\ page = [d \in Devices |-> NoClub]
  /\ joins = [d \in Devices |-> [j \in Slots |-> NoJoin]]
  /\ calendar = [d \in Devices |-> Loading]
  /\ inputs = 0

-----------------------------------------------------------------------------
(* The user does something; the app is killed or loses its connection.     *)
Tap == inputs < MaxTaps /\ inputs' = inputs + 1
Fault == inputs < MaxInputs /\ inputs' = inputs + 1

Shows(d, k) == View(cache[d], queue[d])[k] # NoDoc

(* A get() with the network: the server's document under the queue.        *)
ServerShows(d, k) == View(db, queue[d])[k] # NoDoc

-----------------------------------------------------------------------------
(* Clubs and memberships.                                                  *)

(* Submit of CreateAClub: a set, whether or not the club exists.           *)
createClub(d, c) ==
  /\ Tap
  /\ WriteLocally(d, <<Set(c, Present)>>)
  /\ UNCHANGED <<page, joins, calendar>>

(* A tile of the search page (the club) or the home page (the membership). *)
OpenClub(d, c) ==
  /\ page[d] # c
  /\ Shows(d, c) \/ Shows(d, Joined(c))
  /\ Tap
  /\ page' = [page EXCEPT ![d] = c]
  /\ UNCHANGED <<store, joins, calendar>>

(* The plus icon: joinClub() up to its first await.                        *)
joinClub(d, j) ==
  /\ page[d] # NoClub /\ joins[d][j] = NoJoin
  /\ Tap
  /\ joins' = [joins EXCEPT ![d][j] = [club |-> page[d], found |-> "reading"]]
  /\ UNCHANGED <<store, page, calendar>>

Answer(d, j, found) == joins' = [joins EXCEPT ![d][j].found = found]

(* The get() answers: from the server, or without network from the cache,  *)
(* where a document that is not cached is an error that ends the call.     *)
JoinRead(d, j) ==
  /\ joins[d][j].club # NoClub /\ joins[d][j].found = "reading"
  /\ LET k == Joined(joins[d][j].club)
     IN \/ ServerShows(d, k) /\ Answer(d, j, "present")
        \/ ~ServerShows(d, k) /\ Answer(d, j, "absent")
        \/ Shows(d, k) /\ Answer(d, j, "present")
        \/ ~Shows(d, k) /\ joins' = [joins EXCEPT ![d][j] = NoJoin]
  /\ UNCHANGED <<store, page, calendar, inputs>>

(* joinClub() after the get: a set if there was no membership, else only a *)
(* message.                                                                *)
JoinWrite(d, j) ==
  /\ joins[d][j].found # "reading"
  /\ IF joins[d][j].found = "absent"
     THEN WriteLocally(d, <<Set(Joined(joins[d][j].club), Present)>>)
     ELSE UNCHANGED store
  /\ joins' = [joins EXCEPT ![d][j] = NoJoin]
  /\ UNCHANGED <<page, calendar, inputs>>

-----------------------------------------------------------------------------
(* Events.                                                                 *)

saveEventToFirestore(d, e, day) ==
  /\ page[d] # NoClub
  /\ Tap
  /\ WriteLocally(d, <<Set(ClubEvent(page[d], e), day)>>)
  /\ UNCHANGED <<page, joins, calendar>>

(* Delete on a tile of the club's calendar: names another collection.      *)
deleteTask(d, e) ==
  /\ page[d] # NoClub /\ Shows(d, ClubEvent(page[d], e))
  /\ Tap
  /\ WriteLocally(d, <<Delete(RootEvent(e))>>)
  /\ UNCHANGED <<page, joins, calendar>>

(* A tap on a volunteer tile (VolunteerBoard) adds the event to the user's *)
(* own collection.                                                         *)
addEventToMyCalendar(d, e, day) ==
  /\ Tap
  /\ WriteLocally(d, <<Set(Mine(e), day)>>)
  /\ UNCHANGED <<page, joins, calendar>>

-----------------------------------------------------------------------------
(* The personal calendar.                                                  *)

(* A new CalendarPage, or a rebuild of the old one, which fetches again.   *)
OpenCalendar(d) ==
  /\ calendar[d] # Loading
  /\ Tap
  /\ calendar' = [calendar EXCEPT ![d] = Loading]
  /\ UNCHANGED <<store, page, joins>>

(* Mutant of getUserJoinedClubs: every club of the collection `club`.      *)
AllClubsFetched(d) ==
  /\ calendar[d].state = "loading"
  /\ calendar' = [calendar EXCEPT ![d].state = "ready", ![d].clubs = {c \in Clubs : Shows(d, c)}]
  /\ UNCHANGED <<store, page, joins, inputs>>

(* The query's get() answers, from the server or from the cache.           *)
getUserJoinedClubs(d) ==
  /\ calendar[d].state = "loading"
  /\ \/ calendar' = [calendar EXCEPT ![d].state = "ready",
                       ![d].clubs = {c \in Clubs : ServerShows(d, Joined(c))}]
     \/ calendar' = [calendar EXCEPT ![d].state = "ready",
                       ![d].clubs = {c \in Clubs : Shows(d, Joined(c))}]
  /\ UNCHANGED <<store, page, joins, inputs>>

(* Mutant of Upcoming: the volunteer events are not merged in.             *)
UpcomingOfClubs(d) == {k \in calendar[d].clubs \X EventNames : Shows(d, k)}

(* What the merged stream holds: the events of the fetched clubs and the   *)
(* user's volunteer events; nothing at all for a user without clubs.       *)
Upcoming(d) ==
  {k \in (calendar[d].clubs \X EventNames) \cup {Mine(e) : e \in EventNames} :
     calendar[d].clubs # {} /\ Shows(d, k)}

(* The sort compares eventTime of events on the same day, a field that no  *)
(* document has: it throws.                                                *)
SameDay(d, list) ==
  \E k1, k2 \in list : k1 # k2 /\ View(cache[d], queue[d])[k1] = View(cache[d], queue[d])[k2]

(* StreamBuilder's builder, for every new value of the merged stream.      *)
BuildCalendar(d) ==
  /\ calendar[d].state # "loading"
  /\ calendar' = [calendar EXCEPT ![d].list = Upcoming(d),
                    ![d].state = IF SameDay(d, Upcoming(d)) THEN "broken" ELSE "ready"]
  /\ calendar' # calendar
  /\ UNCHANGED <<store, page, joins, inputs>>

-----------------------------------------------------------------------------
(* Mutant of Restart: the queue of writes does not outlive the process.    *)
RestartForgets(d) ==
  /\ page[d] # NoClub \/ calendar[d].state # "loading"
  /\ Fault
  /\ page' = [page EXCEPT ![d] = NoClub]
  /\ joins' = [joins EXCEPT ![d] = [j \in Slots |-> NoJoin]]
  /\ calendar' = [calendar EXCEPT ![d] = Loading]
  /\ queue' = [queue EXCEPT ![d] = << >>]
  /\ sent' = [sent EXCEPT ![d] = Idle]
  /\ UNCHANGED <<db, cache>>

(* The app is killed and started again, with the tabs built anew.          *)
Restart(d) ==
  /\ page[d] # NoClub \/ calendar[d].state # "loading"
  /\ Fault
  /\ page' = [page EXCEPT ![d] = NoClub]
  /\ joins' = [joins EXCEPT ![d] = [j \in Slots |-> NoJoin]]
  /\ calendar' = [calendar EXCEPT ![d] = Loading]
  /\ UNCHANGED store

LoseAnswers(d) ==
  /\ Fault
  /\ OnWriteStreamClose(d)
  /\ UNCHANGED <<page, joins, calendar>>

Sync(d) ==
  /\ Commit(d) \/ HandleSuccessfulWrite(d) \/ ApplyRemoteEvent(d)
  /\ UNCHANGED <<page, joins, calendar, inputs>>

UserInput(d) ==
  \/ \E c \in Clubs : createClub(d, c) \/ OpenClub(d, c)
  \/ \E j \in Slots : joinClub(d, j)
  \/ \E e \in EventNames :
       \/ deleteTask(d, e)
       \/ \E day \in Days : saveEventToFirestore(d, e, day) \/ addEventToMyCalendar(d, e, day)
  \/ OpenCalendar(d) \/ Restart(d)

(* What a phone does by itself.                                            *)
Step(d) ==
  \/ Sync(d)
  \/ \E j \in Slots : JoinRead(d, j) \/ JoinWrite(d, j)
  \/ getUserJoinedClubs(d) \/ BuildCalendar(d)

Next == \E d \in Devices : UserInput(d) \/ LoseAnswers(d) \/ Step(d)

(* Phones that run and reach the network sync, answer gets and rebuild; no *)
(* order among these is needed, since each of them comes to an end.        *)
Fairness == \A d \in Devices : WF_vars(Step(d))

Spec == Init /\ [][Next]_vars /\ Fairness

-----------------------------------------------------------------------------
(* Properties.                                                             *)

IsQueued(d, c) == \E i \in 1 .. Len(queue[d]) : queue[d][i].key = Joined(c)

IsMember(d, c) == db[Joined(c)] # NoDoc \/ IsQueued(d, c)

(* The calendar fetches and lists the events of a club only if the user    *)
(* has joined it, on the server or by a write of this phone still queued:  *)
(* also when the fetch is answered from the cache, and when the joining    *)
(* phone was killed or its pipeline resent.                                *)
MembersOnly ==
  \A d \in Devices : \A c \in calendar[d].clubs : IsMember(d, c)

IsDecided(d, c) ==
  \E j \in Slots : joins[d][j].club = c /\ joins[d][j].found = "absent"

(* A join that was decided is never lost.  Once joinClub's get has         *)
(* answered that there is no membership, its write comes to be queued,     *)
(* unless the app is killed before (which ends the page's calls); and a    *)
(* write once queued makes the user a member on the server, whatever kills *)
(* and broken streams come after it.                                       *)
JoinTakesEffect ==
  \A c \in Clubs :
    /\ \A d \in Devices : IsDecided(d, c) ~> (IsMember(d, c) \/ page[d] = NoClub)
    /\ (\E d \in Devices : IsQueued(d, c)) ~> (db[Joined(c)] # NoDoc)

(* The events a calendar of the clubs cs should hold, by the server.       *)
EventsOf(cs) ==
  {k \in (cs \X EventNames) \cup {Mine(e) : e \in EventNames} :
     cs # {} /\ db[k] # NoDoc}

(* Once people stop tapping, the list every calendar is built from holds   *)
(* exactly the server's events of the clubs it has fetched, and the user's *)
(* own; and the page is broken exactly if two of them fall on one day, no  *)
(* matter in which order the snapshots, refetches, answers and kills came. *)
CalendarSettles ==
  <>[](\A d \in Devices :
         LET events == EventsOf(calendar[d].clubs)
         IN /\ calendar[d].state # "loading"
            /\ calendar[d].list = events
            /\ (calendar[d].state = "broken")
                 = (\E k1, k2 \in events : k1 # k2 /\ db[k1] = db[k2]))

-----------------------------------------------------------------------------
(* What comments and texts of the app say, and the code does not do.       *)

(* "This will also integrate the club's calendar with your personal        *)
(* calendar": a joined club comes to be among those of the calendar.       *)
JoinIntegrates ==
  \A d \in Devices, c \in Clubs : (db[Joined(c)] # NoDoc) ~> (c \in calendar[d].clubs)
=============================================================================
