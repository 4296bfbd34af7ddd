----------------------------- MODULE ClubsProofs -----------------------------
(***************************************************************************)
(* Proofs about Clubs for any number of phones, clubs, events and days and *)
(* any length of the write queues.                                         *)
(*                                                                         *)
(* A calendar lists a club because a get() answered from the server or     *)
(* from the cache showed a membership.  For that membership to last, the   *)
(* invariant follows it from joinClub's write through the queue to the     *)
(* server and back into the caches: nothing ever takes one away.           *)
(***************************************************************************)
EXTENDS Clubs, FirestoreClientProofs

Mutations == [op : {"set", "delete"}, key : Keys, data : Values]

(* A queued write makes memberships and never unmakes one.                 *)
IsSound(m) == \A c \in Clubs : m.key = Joined(c) => m.data # NoDoc

WritesSound ==
  \A d \in Devices : \A i \in 1 .. Len(queue[d]) : IsSound(queue[d][i])

IsStored(c) == db[Joined(c)] # NoDoc

(* What the server has applied of a queue it has, whatever happens to the  *)
(* answers.                                                                *)
AppliedStored ==
  \A d \in Devices, c \in Clubs : \A i \in 1 .. sent[d].applied :
    queue[d][i].key = Joined(c) => IsStored(c)

(* A phone knows of no membership that the server lacks.                   *)
CacheStored ==
  \A d \in Devices, c \in Clubs : cache[d][Joined(c)] # NoDoc => IsStored(c)

(* A joinClub call past its get() is about a club.                         *)
JoinsDecided ==
  \A d \in Devices, j \in Slots :
    joins[d][j].found # "reading" => joins[d][j].club # NoClub

IInv ==
  /\ TypeOK
  /\ WritesSound
  /\ AppliedStored
  /\ CacheStored
  /\ JoinsDecided
  /\ MembersOnly

-----------------------------------------------------------------------------
(* Keys.                                                                   *)

(* Memberships are documents a phone caches, apart from events.            *)
LEMMA JoinedKeys ==
  /\ \A c \in Clubs : Joined(c) \in Own /\ Joined(c) \in Shared \cup Own /\ Joined(c) \in Keys
  /\ \A c \in Clubs, e \in EventNames : Joined(c) # RootEvent(e)
  /\ Shared \cup Own \subseteq Keys
  BY DEF Own, Keys, Joined, RootEvent

(* Shape of the client's part of the state.                                *)
LEMMA ClientTypes ==
  ASSUME IInv, NEW d \in Devices
  PROVE  /\ queue[d] \in Seq(Mutations) /\ Len(queue[d]) \in Nat
         /\ \A i \in 1 .. Len(queue[d]) : queue[d][i] \in Mutations
         /\ cache[d] \in [Shared \cup Own -> Values] /\ db \in [Keys -> Values]
         /\ sent[d] \in [applied : Nat, seen : Nat, refused : BOOLEAN]
         /\ sent[d].applied \in Nat /\ sent[d].seen \in Nat
         /\ sent[d].seen =< sent[d].applied /\ sent[d].applied =< Len(queue[d])
         /\ ~sent[d].refused
<1>1. queue[d] \in Seq(Mutations)
  BY DEF IInv, TypeOK, Mutations
<1>2. Len(queue[d]) \in Nat /\ \A i \in 1 .. Len(queue[d]) : queue[d][i] \in Mutations
  BY <1>1, LenProperties, ElementOfSeq
<1>3. QED
  BY <1>1, <1>2 DEF IInv, TypeOK

-----------------------------------------------------------------------------
(* The invariant holds on phones that know of nothing.                     *)
LEMMA InitInv == Init => IInv
<1> SUFFICES ASSUME Init PROVE IInv
  OBVIOUS
<1> USE DEF Init, ClientInit
<1>0. PICK docs \in Stores : ClientInit(docs, [k \in Shared \cup Own |-> NoDoc])
  BY DEF Init
<1>1. TypeOK
  <2>1. NoDoc \in Values /\ << >> \in Seq(Mutations) /\ 0 \in 0 .. MaxInputs
    BY ClubsAssumption, EmptySeq DEF Values
  <2>2. /\ db \in [Keys -> Values] /\ cache \in [Devices -> [Shared \cup Own -> Values]]
        /\ queue \in [Devices -> Seq(Mutations)]
    BY <1>0, <2>1, ClubsAssumption
  <2>3. \A d \in Devices : sent[d] = Idle /\ Len(queue[d]) = 0
    BY <1>0
  <2>4. sent \in [Devices -> [applied : Nat, seen : Nat, refused : BOOLEAN]]
    <3>1. Idle \in [applied : Nat, seen : Nat, refused : BOOLEAN]
      BY DEF Idle
    <3>2. QED
      BY <1>0, <3>1, Zenon
  <2>5. \A d \in Devices : /\ sent[d].seen =< sent[d].applied /\ sent[d].applied =< Len(queue[d])
                           /\ ~sent[d].refused
    <3>1. Idle.seen = 0 /\ Idle.applied = 0 /\ ~Idle.refused
      BY DEF Idle
    <3>2. ASSUME NEW d \in Devices
          PROVE  /\ sent[d].seen =< sent[d].applied /\ sent[d].applied =< Len(queue[d])
                 /\ ~sent[d].refused
      <4>1. sent[d].seen = 0 /\ sent[d].applied = 0 /\ ~sent[d].refused
        BY <2>3, <3>1, Zenon
      <4>2. QED
        BY <2>3, <4>1
    <3>3. QED
      BY <3>2
  <2>6. /\ page \in [Devices -> Clubs \cup {NoClub}]
        /\ joins \in [Devices -> [Slots -> [club : Clubs \cup {NoClub},
                                            found : {"reading", "absent", "present"}]]]
    BY DEF NoJoin
  <2>7. calendar \in [Devices -> [state : {"loading", "ready", "broken"},
                                  clubs : SUBSET Clubs,
                                  list : SUBSET ((Clubs \X EventNames) \cup Own)]]
    BY DEF Loading
  <2>8. QED
    BY <2>1, <2>2, <2>4, <2>5, <2>6, <2>7 DEF TypeOK, Mutations
<1>2. WritesSound /\ AppliedStored
  BY <1>0 DEF WritesSound, AppliedStored, Idle
<1>3. CacheStored
  BY <1>0, JoinedKeys DEF CacheStored
<1>4. JoinsDecided /\ MembersOnly
  BY DEF JoinsDecided, MembersOnly, NoJoin, Loading
<1>5. QED
  BY <1>1, <1>2, <1>3, <1>4 DEF IInv

-----------------------------------------------------------------------------
(* Steps that leave the client alone.                                      *)

JoinTypes == [Devices -> [Slots -> [club : Clubs \cup {NoClub},
                                    found : {"reading", "absent", "present"}]]]
CalendarTypes == [Devices -> [state : {"loading", "ready", "broken"},
                              clubs : SUBSET Clubs,
                              list : SUBSET ((Clubs \X EventNames) \cup Own)]]

(* A step of the pages keeps the invariant if its calendars fetch only     *)
(* clubs that were joined.                                                 *)
LEMMA PageInv ==
  ASSUME IInv, UNCHANGED store,
         page' \in [Devices -> Clubs \cup {NoClub}],
         joins' \in JoinTypes, JoinsDecided',
         calendar' \in CalendarTypes,
         \A d \in Devices : \A c \in calendar'[d].clubs : IsMember(d, c),
         inputs' \in 0 .. MaxInputs
  PROVE  IInv'
<1>1. db' = db /\ cache' = cache /\ queue' = queue /\ sent' = sent
  BY DEF store
<1>2. TypeOK'
  BY <1>1 DEF IInv, TypeOK, JoinTypes, CalendarTypes
<1>3. WritesSound' /\ AppliedStored' /\ CacheStored'
  BY <1>1 DEF IInv, WritesSound, AppliedStored, CacheStored, IsStored
<1>4. MembersOnly'
  BY <1>1 DEF MembersOnly, IsMember, IsQueued
<1>5. QED
  BY <1>2, <1>3, <1>4 DEF IInv

(* Inputs stay within their bound.                                         *)
LEMMA InputType == ASSUME IInv, Tap \/ Fault PROVE inputs' \in 0 .. MaxInputs
  BY ClubsAssumption DEF IInv, TypeOK, Tap, Fault

(* A call that is over, or not begun, is nobody's membership.              *)
LEMMA JoinEnds ==
  ASSUME IInv, NEW d \in Devices, NEW j \in Slots, NEW club \in Clubs \cup {NoClub},
         joins' = [joins EXCEPT ![d][j] = [club |-> club, found |-> "reading"]]
  PROVE  joins' \in JoinTypes /\ JoinsDecided'
<1>1. joins \in JoinTypes
  BY DEF IInv, TypeOK, JoinTypes
<1>2. PICK call : call = [club |-> club, found |-> "reading"]
  OBVIOUS
<1>3. /\ call \in [club : Clubs \cup {NoClub}, found : {"reading", "absent", "present"}]
      /\ call.found = "reading"
  BY <1>2
<1>4. joins' = [joins EXCEPT ![d] = [joins[d] EXCEPT ![j] = call]]
  BY <1>1, <1>2 DEF JoinTypes
<1>5. joins' \in JoinTypes
  BY <1>1, <1>3, <1>4 DEF JoinTypes
<1>6. \A x \in Devices, i \in Slots : joins'[x][i] = joins[x][i] \/ joins'[x][i] = call
  BY <1>1, <1>4 DEF JoinTypes
<1>7. QED
  BY <1>3, <1>5, <1>6 DEF IInv, JoinsDecided

(* A club fetched by a get(), from the server or from the cache, is one    *)
(* the user joined.                                                        *)
LEMMA FetchedIsJoined ==
  ASSUME IInv, NEW d \in Devices, NEW c \in Clubs,
         Shows(d, Joined(c)) \/ ServerShows(d, Joined(c))
  PROVE  IsMember(d, c)
<1>1. ASSUME NEW docs, Joined(c) \in DOMAIN docs, docs[Joined(c)] # NoDoc => IsStored(c),
             View(docs, queue[d])[Joined(c)] # NoDoc
      PROVE  IsMember(d, c)
  <2>1. \/ View(docs, queue[d])[Joined(c)] = docs[Joined(c)]
        \/ \E i \in 1 .. Len(queue[d]) : queue[d][i].key = Joined(c)
    BY <1>1, ViewOrigin
  <2>2. QED
    BY <1>1, <2>1 DEF IsMember, IsQueued, IsStored
<1>2. /\ Joined(c) \in DOMAIN db /\ Joined(c) \in DOMAIN cache[d]
      /\ cache[d][Joined(c)] # NoDoc => IsStored(c)
      /\ db[Joined(c)] # NoDoc => IsStored(c)
  BY ClientTypes, JoinedKeys DEF IInv, CacheStored, IsStored
<1>3. CASE Shows(d, Joined(c))
  BY <1>1, <1>2, <1>3 DEF Shows
<1>4. CASE ServerShows(d, Joined(c))
  BY <1>1, <1>2, <1>4 DEF ServerShows
<1>5. QED
  BY <1>3, <1>4

(* OpenClub, joinClub and JoinRead touch only the page and its calls.      *)
LEMMA ClubPageInv ==
  ASSUME IInv, NEW d \in Devices,
         \/ \E c \in Clubs : OpenClub(d, c)
         \/ \E j \in Slots : joinClub(d, j) \/ JoinRead(d, j)
  PROVE  IInv'
<1>0. /\ page \in [Devices -> Clubs \cup {NoClub}] /\ joins \in JoinTypes
      /\ calendar \in CalendarTypes /\ inputs \in 0 .. MaxInputs
      /\ JoinsDecided /\ \A x \in Devices : \A k \in calendar[x].clubs : IsMember(x, k)
  BY DEF IInv, TypeOK, JoinTypes, CalendarTypes, MembersOnly
<1>1. ASSUME NEW c \in Clubs, OpenClub(d, c) PROVE IInv'
  <2>1. page' \in [Devices -> Clubs \cup {NoClub}] /\ UNCHANGED <<store, joins, calendar>>
    BY <1>0, <1>1 DEF OpenClub
  <2>2. JoinsDecided' /\ inputs' \in 0 .. MaxInputs
    BY <1>0, <1>1, <2>1, InputType DEF OpenClub, JoinsDecided
  <2>3. QED
    BY <1>0, <2>1, <2>2, PageInv
<1>2. ASSUME NEW j \in Slots, joinClub(d, j) PROVE IInv'
  <2>1. UNCHANGED <<store, page, calendar>> /\ inputs' \in 0 .. MaxInputs
    BY <1>2, InputType DEF joinClub
  <2>2. joins' \in JoinTypes /\ JoinsDecided'
    BY <1>0, <1>2, JoinEnds DEF joinClub
  <2>3. QED
    BY <1>0, <2>1, <2>2, PageInv
<1>3. ASSUME NEW j \in Slots, JoinRead(d, j) PROVE IInv'
  <2>1. UNCHANGED <<store, page, calendar, inputs>> /\ joins[d][j].club # NoClub
    BY <1>3 DEF JoinRead
  <2>2. joins' \in JoinTypes /\ JoinsDecided'
    <3>1. CASE joins' = [joins EXCEPT ![d][j] = NoJoin]
      BY <3>1, JoinEnds DEF NoJoin
    <3>2. ASSUME NEW found \in {"absent", "present"}, Answer(d, j, found)
          PROVE  joins' \in JoinTypes /\ JoinsDecided'
      <4>0. PICK call : call = [joins[d][j] EXCEPT !.found = found]
        OBVIOUS
      <4>1. joins' = [joins EXCEPT ![d] = [joins[d] EXCEPT ![j] = call]]
        BY <1>0, <3>2, <4>0 DEF Answer, JoinTypes
      <4>2. /\ call \in [club : Clubs \cup {NoClub}, found : {"reading", "absent", "present"}]
            /\ call.club # NoClub
        BY <1>0, <2>1, <4>0 DEF JoinTypes
      <4>3. joins' \in JoinTypes
        BY <1>0, <4>1, <4>2 DEF JoinTypes
      <4>4. \A x \in Devices, i \in Slots : joins'[x][i] = joins[x][i] \/ joins'[x][i] = call
        BY <1>0, <4>1 DEF JoinTypes
      <4>5. QED
        BY <1>0, <4>2, <4>3, <4>4 DEF JoinsDecided
    <3>3. QED
      BY <1>3, <3>1, <3>2 DEF JoinRead
  <2>3. QED
    BY <1>0, <2>1, <2>2, PageInv
<1>4. QED
  BY <1>1, <1>2, <1>3

(* The calendar's own steps, and a relaunch.                               *)
LEMMA CalendarInv ==
  ASSUME IInv, NEW d \in Devices,
         OpenCalendar(d) \/ getUserJoinedClubs(d) \/ BuildCalendar(d) \/ Restart(d)
  PROVE  IInv'
<1>0. /\ page \in [Devices -> Clubs \cup {NoClub}] /\ joins \in JoinTypes
      /\ calendar \in CalendarTypes /\ inputs \in 0 .. MaxInputs
      /\ JoinsDecided /\ \A x \in Devices : \A k \in calendar[x].clubs : IsMember(x, k)
  BY DEF IInv, TypeOK, JoinTypes, CalendarTypes, MembersOnly
<1>1. ASSUME calendar' = [calendar EXCEPT ![d] = Loading]
      PROVE  calendar' \in CalendarTypes /\ \A x \in Devices : \A k \in calendar'[x].clubs : IsMember(x, k)
  <2>1. Loading.clubs = {} /\
        Loading \in [state : {"loading", "ready", "broken"}, clubs : SUBSET Clubs,
                     list : SUBSET ((Clubs \X EventNames) \cup Own)]
    BY DEF Loading
  <2>2. calendar' \in CalendarTypes
    BY <1>0, <1>1, <2>1 DEF CalendarTypes
  <2>3. \A x \in Devices : calendar'[x] = calendar[x] \/ calendar'[x] = Loading
    BY <1>0, <1>1 DEF CalendarTypes
  <2>4. QED
    BY <1>0, <2>1, <2>2, <2>3
<1>2. CASE OpenCalendar(d)
  <2>1. UNCHANGED <<store, page, joins>> /\ inputs' \in 0 .. MaxInputs
    BY <1>2, InputType DEF OpenCalendar
  <2>2. JoinsDecided'
    BY <1>0, <2>1 DEF JoinsDecided
  <2>3. calendar' = [calendar EXCEPT ![d] = Loading]
    BY <1>2 DEF OpenCalendar
  <2>4. QED
    BY <1>0, <1>1, <2>1, <2>2, <2>3, PageInv
<1>3. CASE Restart(d)
  <2>1. UNCHANGED store /\ inputs' \in 0 .. MaxInputs
    BY <1>3, InputType DEF Restart
  <2>2. page' \in [Devices -> Clubs \cup {NoClub}]
    BY <1>0, <1>3 DEF Restart
  <2>3. joins' \in JoinTypes
    BY <1>0, <1>3 DEF Restart, JoinTypes, NoJoin
  <2>4. \A x \in Devices, i \in Slots : joins'[x][i] = joins[x][i] \/ joins'[x][i] = NoJoin
    BY <1>0, <1>3 DEF Restart, JoinTypes
  <2>5. JoinsDecided'
    BY <1>0, <2>4 DEF JoinsDecided, NoJoin
  <2>6. calendar' = [calendar EXCEPT ![d] = Loading]
    BY <1>3 DEF Restart
  <2>7. QED
    BY <1>1, <2>1, <2>2, <2>3, <2>5, <2>6, PageInv
<1>4. CASE getUserJoinedClubs(d)
  <2>1. UNCHANGED <<store, page, joins, inputs>>
    BY <1>4 DEF getUserJoinedClubs
  <2>2. PICK S \in SUBSET Clubs :
          /\ calendar' = [calendar EXCEPT ![d].state = "ready", ![d].clubs = S]
          /\ \A c \in S : Shows(d, Joined(c)) \/ ServerShows(d, Joined(c))
    <3>1. PICK A \in SUBSET Clubs : A = {c \in Clubs : ServerShows(d, Joined(c))}
      OBVIOUS
    <3>2. PICK B \in SUBSET Clubs : B = {c \in Clubs : Shows(d, Joined(c))}
      OBVIOUS
    <3>3. \/ calendar' = [calendar EXCEPT ![d].state = "ready", ![d].clubs = A]
          \/ calendar' = [calendar EXCEPT ![d].state = "ready", ![d].clubs = B]
      BY <1>4, <3>1, <3>2, Zenon DEF getUserJoinedClubs
    <3>4. /\ \A c \in A : Shows(d, Joined(c)) \/ ServerShows(d, Joined(c))
          /\ \A c \in B : Shows(d, Joined(c)) \/ ServerShows(d, Joined(c))
      BY <3>1, <3>2
    <3>5. QED
      BY <3>3, <3>4, Zenon
  <2>3. \A c \in S : IsMember(d, c)
    BY <2>2, FetchedIsJoined
  <2>4. calendar' = [calendar EXCEPT ![d] = [calendar[d] EXCEPT !.state = "ready", !.clubs = S]]
    BY <1>0, <2>2 DEF CalendarTypes
  <2>5. calendar' \in CalendarTypes
    BY <1>0, <2>4 DEF CalendarTypes
  <2>6. \A x \in Devices : IF x = d THEN calendar'[x].clubs = S ELSE calendar'[x] = calendar[x]
    BY <1>0, <2>4 DEF CalendarTypes
  <2>7. \A x \in Devices : \A k \in calendar'[x].clubs : IsMember(x, k)
    BY <1>0, <2>3, <2>6
  <2>8. JoinsDecided'
    BY <1>0, <2>1 DEF JoinsDecided
  <2>9. QED
    BY <1>0, <2>1, <2>5, <2>7, <2>8, PageInv
<1>5. CASE BuildCalendar(d)
  <2>1. UNCHANGED <<store, page, joins, inputs>>
    BY <1>5 DEF BuildCalendar
  <2>2. PICK S \in SUBSET ((Clubs \X EventNames) \cup Own), v \in {"ready", "broken"} :
          calendar' = [calendar EXCEPT ![d].list = S, ![d].state = v]
    <3>1. Upcoming(d) \in SUBSET ((Clubs \X EventNames) \cup Own)
      <4>1. calendar[d].clubs \subseteq Clubs
        BY <1>0 DEF CalendarTypes
      <4>2. QED
        BY <4>1 DEF Upcoming, Own
    <3>2. QED
      BY <1>5, <3>1 DEF BuildCalendar
  <2>3. calendar' = [calendar EXCEPT ![d] = [calendar[d] EXCEPT !.list = S, !.state = v]]
    BY <1>0, <2>2 DEF CalendarTypes
  <2>4. calendar' \in CalendarTypes
    BY <1>0, <2>3 DEF CalendarTypes
  <2>5. \A x \in Devices : calendar'[x].clubs = calendar[x].clubs
    BY <1>0, <2>3 DEF CalendarTypes
  <2>6. JoinsDecided'
    BY <1>0, <2>1 DEF JoinsDecided
  <2>7. QED
    BY <1>0, <2>1, <2>4, <2>5, <2>6, PageInv
<1>6. QED
  BY <1>2, <1>3, <1>4, <1>5

-----------------------------------------------------------------------------
(* Writes of the pages.                                                    *)

(* A sound write appended to a queue keeps the invariant.                  *)
LEMMA WriteInv ==
  ASSUME IInv, NEW d \in Devices, NEW m \in Mutations, IsSound(m),
         WriteLocally(d, <<m>>), UNCHANGED <<page, calendar>>,
         joins' \in JoinTypes, JoinsDecided', inputs' \in 0 .. MaxInputs
  PROVE  IInv'
<1>1. /\ db' = db /\ cache' = cache /\ sent' = sent /\ page' = page /\ calendar' = calendar
      /\ queue' = [queue EXCEPT ![d] = queue[d] \o <<m>>]
  BY DEF WriteLocally
<1>2. queue[d] \in Seq(Mutations) /\ Len(queue[d]) \in Nat
  BY ClientTypes
<1>3. PICK q : q = queue[d] \o <<m>>
  OBVIOUS
<1>4. /\ q \in Seq(Mutations) /\ Len(q) = Len(queue[d]) + 1 /\ q[Len(queue[d]) + 1] = m
      /\ \A i \in 1 .. Len(queue[d]) : q[i] = queue[d][i]
  <2>1. <<m>> \in Seq(Mutations) /\ Len(<<m>>) = 1 /\ <<m>>[1] = m
    OBVIOUS
  <2>2. q = Append(queue[d], m)
    BY <1>2, <1>3, AppendIsConcat
  <2>3. QED
    BY <1>2, <2>2, AppendProperties
<1>5. queue \in [Devices -> Seq(Mutations)]
  BY DEF IInv, TypeOK, Mutations
<1>6. queue'[d] = q /\ \A x \in Devices : x # d => queue'[x] = queue[x]
  BY <1>1, <1>3, <1>5
<1>7. \A x \in Devices :
        /\ Len(queue[x]) \in Nat /\ Len(queue'[x]) \in Nat /\ Len(queue[x]) =< Len(queue'[x])
        /\ \A i \in 1 .. Len(queue[x]) : queue'[x][i] = queue[x][i]
  <2>1. ASSUME NEW x \in Devices
        PROVE  /\ Len(queue[x]) \in Nat /\ Len(queue'[x]) \in Nat /\ Len(queue[x]) =< Len(queue'[x])
               /\ \A i \in 1 .. Len(queue[x]) : queue'[x][i] = queue[x][i]
    <3>1. Len(queue[x]) \in Nat
      BY ClientTypes
    <3>2. CASE x = d
      BY <1>2, <1>4, <1>6, <3>2
    <3>3. CASE x # d
      BY <1>6, <3>1, <3>3
    <3>4. QED
      BY <3>2, <3>3
  <2>2. QED
    BY <2>1
<1>8. TypeOK'
  <2>1. queue' \in [Devices -> Seq(Mutations)]
    BY <1>1, <1>3, <1>4, <1>5
  <2>2. \A x \in Devices :
          /\ sent'[x].seen =< sent'[x].applied /\ sent'[x].applied =< Len(queue'[x])
          /\ ~sent'[x].refused
    <3>1. \A x \in Devices : /\ sent[x].applied \in Nat /\ sent[x].seen =< sent[x].applied
                             /\ sent[x].applied =< Len(queue[x]) /\ ~sent[x].refused
      BY ClientTypes
    <3>2. QED
      BY <1>1, <1>7, <3>1
  <2>3. QED
    BY <1>1, <2>1, <2>2 DEF IInv, TypeOK, JoinTypes, Mutations
<1>9. WritesSound'
  <2>1. ASSUME NEW x \in Devices, NEW i \in 1 .. Len(queue'[x]) PROVE IsSound(queue'[x][i])
    <3>1. CASE x # d
      BY <1>6, <3>1 DEF IInv, WritesSound
    <3>2. CASE x = d /\ i \in 1 .. Len(queue[d])
      BY <1>4, <1>6, <3>2 DEF IInv, WritesSound
    <3>3. CASE x = d /\ i = Len(queue[d]) + 1
      BY <1>4, <1>6, <3>3
    <3>4. x = d => i \in 1 .. Len(queue[d]) \/ i = Len(queue[d]) + 1
      BY <1>2, <1>4, <1>6
    <3>5. QED
      BY <3>1, <3>2, <3>3, <3>4
  <2>2. \A x \in Devices : \A i \in 1 .. Len(queue'[x]) : IsSound(queue'[x][i])
    BY <2>1
  <2>3. QED
    BY <2>2 DEF WritesSound, IsSound
<1>10. AppliedStored'
  <2>1. ASSUME NEW x \in Devices, NEW c \in Clubs, NEW i \in 1 .. sent[x].applied,
               queue'[x][i].key = Joined(c)
        PROVE  IsStored(c)
    <3>1. sent[x].applied \in Nat /\ sent[x].applied =< Len(queue[x])
      BY ClientTypes
    <3>2. queue'[x][i] = queue[x][i]
      BY <1>7, <3>1
    <3>3. QED
      BY <2>1, <3>2 DEF IInv, AppliedStored
  <2>2. QED
    BY <1>1, <2>1 DEF AppliedStored, IsStored
<1>11. CacheStored'
  BY <1>1 DEF IInv, CacheStored, IsStored
<1>12. MembersOnly'
  <2>1. ASSUME NEW x \in Devices, NEW c \in calendar[x].clubs
        PROVE  \/ db[Joined(c)] # NoDoc
               \/ \E i \in 1 .. Len(queue'[x]) : queue'[x][i].key = Joined(c)
    <3>1. IsMember(x, c)
      BY <2>1 DEF IInv, MembersOnly
    <3>2. ASSUME NEW i \in 1 .. Len(queue[x]), queue[x][i].key = Joined(c)
          PROVE  i \in 1 .. Len(queue'[x]) /\ queue'[x][i].key = Joined(c)
      BY <1>7, <3>2
    <3>3. QED
      BY <3>1, <3>2 DEF IsMember, IsQueued
  <2>2. QED
    BY <1>1, <2>1 DEF MembersOnly, IsMember, IsQueued
<1>13. QED
  BY <1>8, <1>9, <1>10, <1>11, <1>12 DEF IInv

(* The writes the pages make are sound: memberships and clubs are set, and *)
(* what is deleted is an event.                                            *)
LEMMA PageWrites ==
  /\ \A k \in Keys, v \in Days \cup {Present} : Set(k, v) \in Mutations /\ IsSound(Set(k, v))
  /\ \A e \in EventNames : Delete(RootEvent(e)) \in Mutations /\ IsSound(Delete(RootEvent(e)))
<1>1. ASSUME NEW k \in Keys, NEW v \in Days \cup {Present}
      PROVE  Set(k, v) \in Mutations /\ IsSound(Set(k, v))
  <2>1. v # NoDoc /\ v \in Values
    BY ClubsAssumption DEF Values
  <2>2. QED
    BY <2>1 DEF Set, Mutations, IsSound
<1>2. ASSUME NEW e \in EventNames
      PROVE  Delete(RootEvent(e)) \in Mutations /\ IsSound(Delete(RootEvent(e)))
  <2>1. RootEvent(e) \in Keys /\ NoDoc \in Values /\ \A c \in Clubs : RootEvent(e) # Joined(c)
    BY JoinedKeys DEF Keys, Values
  <2>2. QED
    BY <2>1 DEF Delete, Mutations, IsSound
<1>3. QED
  BY <1>1, <1>2

(* Every input that writes keeps the invariant.                            *)
LEMMA InputWritesInv ==
  ASSUME IInv, NEW d \in Devices, NEW m \in Mutations, IsSound(m), Tap,
         WriteLocally(d, <<m>>), UNCHANGED <<page, joins, calendar>>
  PROVE  IInv'
<1>1. joins' \in JoinTypes /\ JoinsDecided'
  BY DEF IInv, TypeOK, JoinTypes, JoinsDecided
<1>2. QED
  BY <1>1, InputType, WriteInv

(* createClub, saveEventToFirestore, deleteTask, addEventToMyCalendar.     *)
LEMMA PageWritesInv ==
  ASSUME IInv, NEW d \in Devices,
         \/ \E c \in Clubs : createClub(d, c)
         \/ \E e \in EventNames :
              \/ deleteTask(d, e)
              \/ \E day \in Days : saveEventToFirestore(d, e, day) \/ addEventToMyCalendar(d, e, day)
  PROVE  IInv'
<1>1. ASSUME NEW c \in Clubs, createClub(d, c) PROVE IInv'
  <2>1. PICK m : m = Set(c, Present)
    OBVIOUS
  <2>2. c \in Keys
    BY DEF Keys, Shared
  <2>3. m \in Mutations /\ IsSound(m)
    BY <2>1, <2>2, PageWrites
  <2>4. Tap /\ WriteLocally(d, <<m>>) /\ UNCHANGED <<page, joins, calendar>>
    BY <1>1, <2>1 DEF createClub
  <2>5. QED
    BY <2>3, <2>4, InputWritesInv
<1>2. ASSUME NEW e \in EventNames, deleteTask(d, e) PROVE IInv'
  <2>1. PICK m : m = Delete(RootEvent(e))
    OBVIOUS
  <2>2. m \in Mutations /\ IsSound(m)
    BY <2>1, PageWrites
  <2>3. Tap /\ WriteLocally(d, <<m>>) /\ UNCHANGED <<page, joins, calendar>>
    BY <1>2, <2>1 DEF deleteTask
  <2>4. QED
    BY <2>2, <2>3, InputWritesInv
<1>3. ASSUME NEW e \in EventNames, NEW day \in Days, saveEventToFirestore(d, e, day) PROVE IInv'
  <2>1. PICK m : m = Set(ClubEvent(page[d], e), day)
    OBVIOUS
  <2>2. ClubEvent(page[d], e) \in Keys
    <3>1. page[d] \in Clubs
      BY <1>3 DEF saveEventToFirestore, IInv, TypeOK
    <3>2. QED
      BY <3>1 DEF ClubEvent, Keys, Shared
  <2>3. m \in Mutations /\ IsSound(m)
    BY <2>1, <2>2, PageWrites
  <2>4. Tap /\ WriteLocally(d, <<m>>) /\ UNCHANGED <<page, joins, calendar>>
    BY <1>3, <2>1 DEF saveEventToFirestore
  <2>5. QED
    BY <2>3, <2>4, InputWritesInv
<1>4. ASSUME NEW e \in EventNames, NEW day \in Days, addEventToMyCalendar(d, e, day) PROVE IInv'
  <2>1. PICK m : m = Set(Mine(e), day)
    OBVIOUS
  <2>2. Mine(e) \in Keys
    BY DEF Keys, Own
  <2>3. m \in Mutations /\ IsSound(m)
    BY <2>1, <2>2, PageWrites
  <2>4. Tap /\ WriteLocally(d, <<m>>) /\ UNCHANGED <<page, joins, calendar>>
    BY <1>4, <2>1 DEF addEventToMyCalendar
  <2>5. QED
    BY <2>3, <2>4, InputWritesInv
<1>5. QED
  BY <1>1, <1>2, <1>3, <1>4

(* joinClub's write, made for a get() that found no membership.            *)
LEMMA JoinWriteInv ==
  ASSUME IInv, NEW d \in Devices, NEW j \in Slots, JoinWrite(d, j)
  PROVE  IInv'
<1>1. /\ joins' = [joins EXCEPT ![d][j] = NoJoin]
      /\ UNCHANGED <<page, calendar, inputs>> /\ joins[d][j].found # "reading"
  BY DEF JoinWrite
<1>2. joins' \in JoinTypes /\ JoinsDecided'
  BY <1>1, JoinEnds DEF NoJoin
<1>3. inputs' \in 0 .. MaxInputs /\ page' \in [Devices -> Clubs \cup {NoClub}]
      /\ calendar' \in CalendarTypes
  BY <1>1 DEF IInv, TypeOK, CalendarTypes
<1>4. CASE joins[d][j].found = "absent"
  <2>1. PICK m : m = Set(Joined(joins[d][j].club), Present)
    OBVIOUS
  <2>2. joins[d][j].club \in Clubs
    BY <1>1 DEF IInv, TypeOK, JoinsDecided
  <2>3. m \in Mutations /\ IsSound(m)
    BY <2>1, <2>2, JoinedKeys, PageWrites
  <2>4. WriteLocally(d, <<m>>)
    BY <1>4, <2>1 DEF JoinWrite
  <2>5. QED
    BY <1>1, <1>2, <1>3, <2>3, <2>4, WriteInv
<1>5. CASE joins[d][j].found # "absent"
  <2>1. UNCHANGED store
    BY <1>5 DEF JoinWrite
  <2>2. \A x \in Devices : \A c \in calendar'[x].clubs : IsMember(x, c)
    BY <1>1 DEF IInv, MembersOnly
  <2>3. QED
    BY <1>2, <1>3, <2>1, <2>2, PageInv
<1>6. QED
  BY <1>4, <1>5

-----------------------------------------------------------------------------
(* The client's pipeline.                                                  *)

(* The server applies a write: memberships only come.                      *)
LEMMA CommitInv ==
  ASSUME IInv, NEW d \in Devices, Commit(d), UNCHANGED <<page, joins, calendar, inputs>>
  PROVE  IInv'
<1>1. PICK n \in Nat : n = sent[d].applied
  BY ClientTypes
<1>2. PICK m : m = queue[d][n + 1]
  OBVIOUS
<1>3. n + 1 \in 1 .. Len(queue[d]) /\ m \in Mutations /\ IsSound(m)
  <2>1. n + 1 \in 1 .. Len(queue[d])
    BY <1>1, ClientTypes DEF Commit
  <2>2. QED
    BY <1>2, <2>1, ClientTypes DEF IInv, WritesSound
<1>4. /\ db' = Apply(m, db) /\ cache' = cache /\ queue' = queue
      /\ sent' = [sent EXCEPT ![d].applied = @ + 1]
  BY <1>1, <1>2 DEF Commit, NextWrite
<1>5. IsValidFor(m, db[m.key])
  BY <1>3 DEF Mutations, IsValidFor
<1>6. /\ db' \in [Keys -> Values]
      /\ \A k \in Keys : db'[k] = db[k] \/ (k = m.key /\ db'[k] = m.data)
      /\ db'[m.key] = m.data
  <2>1. db \in [Keys -> Values] /\ m.key \in Keys /\ m.data \in Values
    BY <1>3, ClientTypes DEF Mutations
  <2>2. Apply(m, db) \in [Keys -> Values]
    BY <2>1, ApplyDocs
  <2>3. /\ \A k \in Keys : Apply(m, db)[k] = db[k] \/ (k = m.key /\ Apply(m, db)[k] = m.data)
        /\ Apply(m, db)[m.key] = m.data
    BY <1>5, <2>1, DOMAIN db = Keys, ApplyOrigin
  <2>4. QED
    BY <1>4, <2>2, <2>3
<1>7. \A c \in Clubs : IsStored(c) => db'[Joined(c)] # NoDoc
  <2>1. \A c \in Clubs : Joined(c) \in Keys
    BY JoinedKeys
  <2>2. \A c \in Clubs : m.key = Joined(c) => m.data # NoDoc
    BY <1>3 DEF IsSound
  <2>3. QED
    BY <1>6, <2>1, <2>2 DEF IsStored
<1>8. /\ sent' \in [Devices -> [applied : Nat, seen : Nat, refused : BOOLEAN]]
      /\ sent'[d].applied = n + 1 /\ sent'[d].seen = sent[d].seen /\ ~sent'[d].refused
      /\ \A x \in Devices : x # d => sent'[x] = sent[x]
  <2>1. sent \in [Devices -> [applied : Nat, seen : Nat, refused : BOOLEAN]]
    BY DEF IInv, TypeOK
  <2>2. PICK s : s = [sent[d] EXCEPT !.applied = n + 1]
    OBVIOUS
  <2>3. sent' = [sent EXCEPT ![d] = s]
    BY <1>1, <1>4, <2>1, <2>2
  <2>4. /\ s \in [applied : Nat, seen : Nat, refused : BOOLEAN]
        /\ s.applied = n + 1 /\ s.seen = sent[d].seen /\ ~s.refused
    <3>1. sent[d] \in [applied : Nat, seen : Nat, refused : BOOLEAN] /\ ~sent[d].refused
      BY ClientTypes
    <3>2. QED
      BY <2>2, <3>1
  <2>5. QED
    BY <2>1, <2>3, <2>4
<1>9. TypeOK'
  <2>1. \A x \in Devices : /\ sent[x].applied \in Nat /\ sent[x].seen \in Nat /\ Len(queue[x]) \in Nat
                           /\ sent[x].seen =< sent[x].applied
                           /\ sent[x].applied =< Len(queue[x]) /\ ~sent[x].refused
    BY ClientTypes
  <2>2. \A x \in Devices :
          /\ sent'[x].seen =< sent'[x].applied /\ sent'[x].applied =< Len(queue'[x])
          /\ ~sent'[x].refused
    BY <1>1, <1>3, <1>4, <1>8, <2>1
  <2>3. QED
    BY <1>4, <1>6, <1>8, <2>2 DEF IInv, TypeOK
<1>10. WritesSound' /\ CacheStored' /\ JoinsDecided'
  BY <1>4, <1>7 DEF IInv, WritesSound, IsSound, CacheStored, IsStored, JoinsDecided
<1>11. AppliedStored'
  <2>1. ASSUME NEW x \in Devices, NEW c \in Clubs, NEW i \in 1 .. sent'[x].applied,
               queue[x][i].key = Joined(c)
        PROVE  db'[Joined(c)] # NoDoc
    <3>1. CASE i \in 1 .. sent[x].applied
      BY <1>7, <2>1, <3>1 DEF IInv, AppliedStored
    <3>2. CASE x = d /\ i = n + 1
      BY <1>2, <1>3, <1>6, <2>1, <3>2 DEF IsSound
    <3>3. i \in 1 .. sent[x].applied \/ (x = d /\ i = n + 1)
      BY <1>1, <1>8
    <3>4. QED
      BY <3>1, <3>2, <3>3
  <2>2. QED
    BY <1>4, <2>1 DEF AppliedStored, IsStored
<1>12. MembersOnly'
  <2>1. calendar \in CalendarTypes
    BY DEF IInv, TypeOK, CalendarTypes
  <2>2. ASSUME NEW x \in Devices, NEW c \in calendar[x].clubs
        PROVE  db'[Joined(c)] # NoDoc \/ \E i \in 1 .. Len(queue[x]) : queue[x][i].key = Joined(c)
    <3>1. c \in Clubs /\ IsMember(x, c)
      BY <2>1, <2>2 DEF IInv, MembersOnly, CalendarTypes
    <3>2. QED
      BY <1>7, <3>1 DEF IsMember, IsQueued, IsStored
  <2>3. QED
    BY <1>4, <2>2 DEF MembersOnly, IsMember, IsQueued
<1>13. QED
  BY <1>9, <1>10, <1>11, <1>12 DEF IInv

(* The answer to a membership's write moves it into the cache, when the    *)
(* server has it.                                                          *)
LEMMA HandleSuccessfulWriteInv ==
  ASSUME IInv, NEW d \in Devices, HandleSuccessfulWrite(d),
         UNCHANGED <<page, joins, calendar, inputs>>
  PROVE  IInv'
<1>1. PICK q \in Seq(Mutations) : q = queue[d]
  BY ClientTypes
<1>2. /\ sent[d].applied \in Nat /\ sent[d].seen \in Nat /\ Len(q) \in Nat
      /\ sent[d].applied >= 1 /\ sent[d].applied =< Len(q) /\ sent[d].seen =< sent[d].applied
  BY <1>1, ClientTypes DEF HandleSuccessfulWrite
<1>3. q # << >>
  BY <1>2, EmptySeq
<1>4. /\ Tail(q) \in Seq(Mutations) /\ Len(Tail(q)) = Len(q) - 1 /\ Head(q) = q[1]
      /\ \A i \in 1 .. Len(q) - 1 : Tail(q)[i] = q[i + 1]
  <2>1. Tail(q) \in Seq(Mutations) /\ Len(Tail(q)) = Len(q) - 1
    BY <1>3, HeadTailProperties
  <2>2. \A i \in 1 .. Len(Tail(q)) : Tail(q)[i] = q[i + 1]
    BY <1>3, HeadTailProperties
  <2>3. Head(q) = q[1]
    BY <1>3, HeadTailProperties
  <2>4. QED
    BY <2>1, <2>2, <2>3
<1>5. PICK m \in Mutations : m = q[1]
  BY <1>2, ElementOfSeq
<1>6. PICK r : r = Tail(q)
  OBVIOUS
<1>7. /\ r \in Seq(Mutations) /\ Len(r) = Len(q) - 1 /\ Len(r) \in Nat
      /\ \A i \in 1 .. Len(r) : r[i] = q[i + 1]
  BY <1>2, <1>4, <1>6
<1>8. PICK known : known = IF sent[d].seen > 0 THEN cache[d] ELSE Apply(m, cache[d])
  OBVIOUS
<1>9. PICK s : s = Answered(sent[d])
  OBVIOUS
<1>10. /\ db' = db /\ queue' = [queue EXCEPT ![d] = r] /\ cache' = [cache EXCEPT ![d] = known]
       /\ sent' = [sent EXCEPT ![d] = s]
  BY <1>1, <1>4, <1>5, <1>6, <1>8, <1>9 DEF HandleSuccessfulWrite
<1>11. /\ queue \in [Devices -> Seq(Mutations)] /\ cache \in [Devices -> [Shared \cup Own -> Values]]
       /\ sent \in [Devices -> [applied : Nat, seen : Nat, refused : BOOLEAN]]
  BY DEF IInv, TypeOK, Mutations
<1>12. \A c \in Clubs : m.key = Joined(c) => IsStored(c)
  <2>1. 1 \in 1 .. sent[d].applied
    BY <1>2
  <2>2. QED
    BY <1>1, <1>5, <2>1 DEF IInv, AppliedStored
<1>13. /\ known \in [Shared \cup Own -> Values]
       /\ \A c \in Clubs : known[Joined(c)] # NoDoc => IsStored(c)
  <2>1. cache[d] \in [Shared \cup Own -> Values] /\ m.data \in Values
    BY ClientTypes DEF Mutations
  <2>2. Apply(m, cache[d]) \in [Shared \cup Own -> Values]
    BY <2>1, ApplyDocs
  <2>3. \A c \in Clubs : cache[d][Joined(c)] # NoDoc => IsStored(c)
    BY DEF IInv, CacheStored
  <2>4. ASSUME NEW c \in Clubs
        PROVE  Apply(m, cache[d])[Joined(c)] = cache[d][Joined(c)] \/ m.key = Joined(c)
    <3>1. Joined(c) \in DOMAIN cache[d]
      BY <2>1, JoinedKeys
    <3>2. QED
      BY <3>1, ApplyOrigin
  <2>5. QED
    BY <1>8, <1>12, <2>1, <2>2, <2>3, <2>4
<1>14. /\ s \in [applied : Nat, seen : Nat, refused : BOOLEAN] /\ ~s.refused
       /\ s.applied = sent[d].applied - 1 /\ s.seen =< s.applied
  <2>1. sent[d] \in [applied : Nat, seen : Nat, refused : BOOLEAN] /\ ~sent[d].refused
    BY ClientTypes
  <2>2. QED
    BY <1>2, <1>9, <2>1 DEF Answered
<1>15. /\ queue'[d] = r /\ cache'[d] = known /\ sent'[d] = s
       /\ \A x \in Devices : x # d => /\ queue'[x] = queue[x] /\ cache'[x] = cache[x]
                                      /\ sent'[x] = sent[x]
  BY <1>10, <1>11
<1>16. TypeOK'
  <2>1. /\ queue' \in [Devices -> Seq(Mutations)]
        /\ cache' \in [Devices -> [Shared \cup Own -> Values]]
    BY <1>7, <1>10, <1>11, <1>13
  <2>2. sent' \in [Devices -> [applied : Nat, seen : Nat, refused : BOOLEAN]]
    BY <1>10, <1>11, <1>14
  <2>3. ASSUME NEW x \in Devices
        PROVE  /\ sent'[x].seen =< sent'[x].applied /\ sent'[x].applied =< Len(queue'[x])
               /\ ~sent'[x].refused
    <3>1. CASE x = d
      BY <1>2, <1>7, <1>14, <1>15, <3>1
    <3>2. CASE x # d
      BY <1>15, <3>2, ClientTypes
    <3>3. QED
      BY <3>1, <3>2
  <2>4. QED
    BY <1>10, <2>1, <2>2, <2>3 DEF IInv, TypeOK, Mutations
<1>17. WritesSound'
  <2>1. ASSUME NEW x \in Devices, NEW i \in 1 .. Len(queue'[x]) PROVE IsSound(queue'[x][i])
    <3>1. CASE x # d
      BY <1>15, <3>1 DEF IInv, WritesSound
    <3>2. CASE x = d
      <4>1. i + 1 \in 1 .. Len(queue[d]) /\ queue'[x][i] = queue[d][i + 1]
        BY <1>1, <1>2, <1>7, <1>15, <3>2
      <4>2. QED
        BY <4>1 DEF IInv, WritesSound
    <3>3. QED
      BY <3>1, <3>2
  <2>2. QED
    BY <2>1 DEF WritesSound, IsSound
<1>18. AppliedStored'
  <2>1. ASSUME NEW x \in Devices, NEW c \in Clubs, NEW i \in 1 .. sent'[x].applied,
               queue'[x][i].key = Joined(c)
        PROVE  IsStored(c)
    <3>1. CASE x # d
      BY <1>15, <2>1, <3>1 DEF IInv, AppliedStored
    <3>2. CASE x = d
      <4>1. i + 1 \in 1 .. sent[d].applied /\ queue'[x][i] = queue[d][i + 1]
        BY <1>1, <1>2, <1>7, <1>14, <1>15, <3>2
      <4>2. QED
        BY <2>1, <4>1 DEF IInv, AppliedStored
    <3>3. QED
      BY <3>1, <3>2
  <2>2. QED
    BY <1>10, <2>1 DEF AppliedStored, IsStored
<1>19. CacheStored'
  <2>1. \A x \in Devices, c \in Clubs : cache'[x][Joined(c)] # NoDoc => IsStored(c)
    BY <1>13, <1>15 DEF IInv, CacheStored
  <2>2. QED
    BY <1>10, <2>1 DEF CacheStored, IsStored
<1>20. MembersOnly'
  <2>1. ASSUME NEW x \in Devices, NEW c \in calendar[x].clubs
        PROVE  \/ db[Joined(c)] # NoDoc
               \/ \E i \in 1 .. Len(queue'[x]) : queue'[x][i].key = Joined(c)
    <3>1. c \in Clubs /\ IsMember(x, c)
      BY <2>1 DEF IInv, MembersOnly, TypeOK
    <3>2. CASE x # d
      BY <1>15, <3>1, <3>2 DEF IsMember, IsQueued
    <3>3. ASSUME x = d, NEW i \in 1 .. Len(queue[d]), queue[d][i].key = Joined(c)
          PROVE  \/ db[Joined(c)] # NoDoc
                 \/ \E k \in 1 .. Len(queue'[x]) : queue'[x][k].key = Joined(c)
      <4>1. CASE i = 1
        BY <1>1, <1>5, <1>12, <3>1, <3>3, <4>1 DEF IsStored
      <4>2. CASE i # 1
        <5>1. i - 1 \in 1 .. Len(r) /\ (i - 1) + 1 = i
          BY <1>1, <1>2, <1>7, <4>2
        <5>2. r[i - 1] = queue[d][i]
          BY <1>1, <1>7, <5>1
        <5>3. QED
          BY <1>15, <3>3, <5>1, <5>2
      <4>3. QED
        BY <4>1, <4>2
    <3>4. QED
      BY <3>1, <3>2, <3>3 DEF IsMember, IsQueued
  <2>2. QED
    BY <1>10, <2>1 DEF MembersOnly, IsMember, IsQueued
<1>21. JoinsDecided'
  BY DEF IInv, JoinsDecided
<1>22. QED
  BY <1>16, <1>17, <1>18, <1>19, <1>20, <1>21 DEF IInv

(* A snapshot, and a broken stream, whose pipeline starts over.            *)
LEMMA SnapshotInv ==
  ASSUME IInv, NEW d \in Devices,
         ApplyRemoteEvent(d) \/ OnWriteStreamClose(d),
         UNCHANGED <<page, joins, calendar>>, inputs' \in 0 .. MaxInputs
  PROVE  IInv'
<1>1. /\ cache \in [Devices -> [Shared \cup Own -> Values]] /\ db \in [Keys -> Values]
      /\ sent \in [Devices -> [applied : Nat, seen : Nat, refused : BOOLEAN]]
  BY DEF IInv, TypeOK
<1>2. db' = db /\ queue' = queue
  BY DEF ApplyRemoteEvent, OnWriteStreamClose
<1>3. \A x \in Devices :
        /\ sent[x].applied \in Nat /\ sent[x].seen \in Nat /\ sent[x].seen =< sent[x].applied
        /\ sent[x].applied =< Len(queue[x]) /\ ~sent[x].refused /\ Len(queue[x]) \in Nat
  BY ClientTypes
<1>4. /\ cache' \in [Devices -> [Shared \cup Own -> Values]]
      /\ \A x \in Devices, c \in Clubs :
           cache'[x][Joined(c)] = cache[x][Joined(c)] \/ cache'[x][Joined(c)] = db[Joined(c)]
  <2>1. CASE OnWriteStreamClose(d)
    BY <1>1, <2>1 DEF OnWriteStreamClose
  <2>2. CASE ApplyRemoteEvent(d)
    <3>1. PICK known : known = [k \in Shared \cup Own |-> db[k]]
      OBVIOUS
    <3>2. DOMAIN cache[d] = Shared \cup Own
      BY <1>1
    <3>3. cache' = [cache EXCEPT ![d] = known]
      BY <2>2, <3>1, <3>2 DEF ApplyRemoteEvent
    <3>4. known \in [Shared \cup Own -> Values] /\ \A c \in Clubs : known[Joined(c)] = db[Joined(c)]
      BY <1>1, <3>1, JoinedKeys
    <3>5. QED
      BY <1>1, <3>3, <3>4
  <2>3. QED
    BY <2>1, <2>2
<1>5. PICK s : /\ s \in [applied : Nat, seen : Nat, refused : BOOLEAN]
               /\ sent' = [sent EXCEPT ![d] = s]
               /\ s.applied =< sent[d].applied /\ s.seen =< s.applied /\ ~s.refused
  <2>1. CASE OnWriteStreamClose(d)
    <3>1. /\ Idle \in [applied : Nat, seen : Nat, refused : BOOLEAN]
          /\ Idle.applied =< sent[d].applied /\ Idle.seen =< Idle.applied /\ ~Idle.refused
      BY <1>3 DEF Idle
    <3>2. sent' = [sent EXCEPT ![d] = Idle]
      BY <2>1 DEF OnWriteStreamClose
    <3>3. QED
      BY <3>1, <3>2
  <2>2. CASE ApplyRemoteEvent(d)
    <3>1. PICK s : s = [sent[d] EXCEPT !.seen = sent[d].applied]
      OBVIOUS
    <3>2. sent' = [sent EXCEPT ![d] = s]
      BY <1>1, <2>2, <3>1 DEF ApplyRemoteEvent
    <3>3. sent[d] \in [applied : Nat, seen : Nat, refused : BOOLEAN] /\ ~sent[d].refused
      BY ClientTypes
    <3>4. /\ s \in [applied : Nat, seen : Nat, refused : BOOLEAN]
          /\ s.applied =< sent[d].applied /\ s.seen =< s.applied /\ ~s.refused
      BY <3>1, <3>3
    <3>5. QED
      BY <3>2, <3>4
  <2>3. QED
    BY <2>1, <2>2
<1>6. \A x \in Devices : sent'[x] = sent[x] \/ (x = d /\ sent'[x] = s)
  BY <1>1, <1>5
<1>7. \A x \in Devices :
        /\ sent'[x].applied \in Nat /\ sent'[x].applied =< sent[x].applied
        /\ sent'[x].seen =< sent'[x].applied /\ sent'[x].applied =< Len(queue'[x])
        /\ ~sent'[x].refused
  BY <1>2, <1>3, <1>5, <1>6
<1>8. TypeOK'
  <2>1. sent' \in [Devices -> [applied : Nat, seen : Nat, refused : BOOLEAN]]
    BY <1>1, <1>5
  <2>2. QED
    BY <1>2, <1>4, <1>7, <2>1 DEF IInv, TypeOK
<1>9. WritesSound' /\ JoinsDecided' /\ MembersOnly'
  BY <1>2 DEF IInv, WritesSound, IsSound, JoinsDecided, MembersOnly, IsMember, IsQueued
<1>10. AppliedStored'
  <2>1. ASSUME NEW x \in Devices, NEW i \in 1 .. sent'[x].applied
        PROVE  i \in 1 .. sent[x].applied
    BY <1>3, <1>7
  <2>2. QED
    BY <1>2, <2>1 DEF IInv, AppliedStored, IsStored
<1>11. CacheStored'
  <2>1. \A x \in Devices, c \in Clubs : cache'[x][Joined(c)] # NoDoc => IsStored(c)
    BY <1>4 DEF IInv, CacheStored, IsStored
  <2>2. QED
    BY <1>2, <2>1 DEF CacheStored, IsStored
<1>12. QED
  BY <1>8, <1>9, <1>10, <1>11 DEF IInv

-----------------------------------------------------------------------------
(* Every step of every phone keeps the invariant.                          *)
LEMMA NextInv == IInv /\ [Next]_vars => IInv'
<1> SUFFICES ASSUME IInv, [Next]_vars PROVE IInv'
  OBVIOUS
<1>1. CASE UNCHANGED vars
  <2>1. UNCHANGED <<store, page, joins, calendar, inputs>>
    BY <1>1 DEF vars, store
  <2>2. /\ page' \in [Devices -> Clubs \cup {NoClub}] /\ inputs' \in 0 .. MaxInputs
        /\ joins' \in JoinTypes /\ JoinsDecided' /\ calendar' \in CalendarTypes
    BY <2>1 DEF IInv, TypeOK, JoinTypes, CalendarTypes, JoinsDecided
  <2>3. \A x \in Devices : \A k \in calendar'[x].clubs : IsMember(x, k)
    BY <2>1 DEF IInv, MembersOnly
  <2>4. QED
    BY <2>1, <2>2, <2>3, PageInv
<1>2. ASSUME NEW d \in Devices, UserInput(d) PROVE IInv'
  <2>1. ASSUME NEW c \in Clubs, OpenClub(d, c) PROVE IInv'
    BY <2>1, ClubPageInv
  <2>2. ASSUME NEW j \in Slots, joinClub(d, j) PROVE IInv'
    BY <2>2, ClubPageInv
  <2>3. QED
    BY <1>2, <2>1, <2>2, PageWritesInv, CalendarInv DEF UserInput
<1>3. ASSUME NEW d \in Devices, Sync(d) PROVE IInv'
  <2>1. UNCHANGED <<page, joins, calendar, inputs>> /\ inputs' \in 0 .. MaxInputs
    BY <1>3 DEF Sync, IInv, TypeOK
  <2>2. QED
    BY <1>3, <2>1, CommitInv, HandleSuccessfulWriteInv, SnapshotInv DEF Sync
<1>4. ASSUME NEW d \in Devices, LoseAnswers(d) PROVE IInv'
  <2>1. /\ OnWriteStreamClose(d) /\ UNCHANGED <<page, joins, calendar>>
        /\ inputs' \in 0 .. MaxInputs
    BY <1>4, InputType DEF LoseAnswers
  <2>2. QED
    BY <2>1, SnapshotInv
<1>5. ASSUME NEW d \in Devices, NEW j \in Slots, JoinRead(d, j) \/ JoinWrite(d, j) PROVE IInv'
  BY <1>5, ClubPageInv, JoinWriteInv
<1>6. ASSUME NEW d \in Devices, getUserJoinedClubs(d) \/ BuildCalendar(d) PROVE IInv'
  BY <1>6, CalendarInv
<1>7. QED
  BY <1>1, <1>2, <1>3, <1>4, <1>5, <1>6 DEF Next, Step

(* The inductive invariant holds in every behaviour.                       *)
LEMMA Invariance == Spec => []IInv
  BY InitInv, NextInv, PTL DEF Spec

(* Type correctness: the pages of every phone, its joinClub calls and its  *)
(* calendar stay among the clubs and events there are, and no write of the *)
(* app is ever refused.                                                    *)
THEOREM TypeCorrect == Spec => []TypeOK
  BY Invariance, PTL DEF IInv

(* A calendar fetches only clubs the user has joined, whether the get() is *)
(* answered from the server or from the cache, and they stay joined        *)
(* through answers, kills and resent pipelines.                            *)
THEOREM MembersOnlyTheorem == Spec => []MembersOnly
  BY Invariance, PTL DEF IInv
=============================================================================
