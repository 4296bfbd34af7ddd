------------------------- MODULE VolunteerBoardProofs -------------------------
(***************************************************************************)
(* Proofs about VolunteerBoard for any number of devices, users and events *)
(* and any length of the write queues.                                     *)
(*                                                                         *)
(* The invariants the runs check speak of the server and of the tiles; a   *)
(* number travels between those two through the caches and the queues.     *)
(* The inductive invariant therefore follows every number on its way, and  *)
(* every decrement together with the entry issued before it.  A second     *)
(* one relates, for each event, the overlay and what the listeners were    *)
(* told to the cache and the queue they come from.                         *)
(***************************************************************************)
EXTENDS VolunteerBoard, FirestoreClientProofs

(* The types of everything but overlays and what listeners were told.      *)
BoardOK ==
  /\ db \in [Keys -> Counts]
  /\ cache \in [Devices -> [Events -> Counts]]
  /\ queue \in [Devices -> Seq(Mutations)]
  /\ sent \in [Devices -> [applied : Nat, seen : Nat, refused : BOOLEAN]]
  /\ \A d \in Devices : /\ sent[d].applied =< Len(queue[d])
                        /\ sent[d].seen =< sent[d].applied
                        /\ sent[d].refused => sent[d].applied < Len(queue[d])
  /\ shown \in [Devices -> [Events -> Counts]]
  /\ taps \in [Events -> Nat]
  /\ inputs \in 0 .. MaxInputs

IsFair(t, v) == v # NoDoc => IsAccounted(t, v)

(* A queued write: an update concerns an event, an entry is only ever set, *)
(* and every number on its way to an event is accounted for by the taps t. *)
IsSound(t, m) ==
  /\ m.op = "update" => m.key \in Events /\ m.data # NoDoc
  /\ m.op = "delete" => m.data = NoDoc
  /\ m.key \in Entries => m.op = "set" /\ m.data # NoDoc
  /\ m.key \in Events => IsFair(t[m.key], m.data)

WritesSound ==
  \A d \in Devices : \A i \in 1 .. Len(queue[d]) : IsSound(taps, queue[d][i])

CountsSound ==
  \A e \in Events :
    /\ IsFair(taps[e], db[e])
    /\ \A d \in Devices : IsFair(taps[e], cache[d][e]) /\ IsFair(taps[e], shown[d][e])

IsEntryWrite(m, d, e) == m.op = "set" /\ m.key = <<Owner[d], e>> /\ m.data # NoDoc

(* For every decrement in device d's queue q the entry is among the        *)
(* server's documents, or is ahead of it in the part of the queue the      *)
(* server has not applied (it has applied n writes).                       *)
HasEntries(docs, q, n, d) ==
  \A i \in 1 .. Len(q) : q[i].op = "update" =>
    \/ docs[<<Owner[d], q[i].key>>] # NoDoc
    \/ \E j \in n + 1 .. i - 1 : IsEntryWrite(q[j], d, q[i].key)

EntriesFirst ==
  \A d \in Devices : HasEntries(db, queue[d], sent[d].applied, d)

(* Only an update is ever refused, so that a refusal drops no entry.       *)
RefusedIsUpdate ==
  \A d \in Devices :
    sent[d].refused => queue[d][sent[d].applied + 1].op = "update"

IInv ==
  /\ BoardOK
  /\ WritesSound
  /\ CountsSound
  /\ EntriesFirst
  /\ RefusedIsUpdate

-----------------------------------------------------------------------------
(* Lemmas about the operators of the model.                                *)

(* What one mutation leaves of a document: its data or the old document.   *)
LEMMA ApplyType ==
  ASSUME NEW K, NEW docs \in [K -> Counts], NEW m \in Mutations
  PROVE  /\ Apply(m, docs) \in [K -> Counts]
         /\ \A k \in K : \/ Apply(m, docs)[k] = docs[k]
                         \/ k = m.key /\ Apply(m, docs)[k] = m.data
         /\ m.key \in K /\ IsValidFor(m, docs[m.key]) => Apply(m, docs)[m.key] = m.data
  BY DEF Apply, Result, Mutations

(* A device's view is a board again.                                       *)
LEMMA ViewType ==
  ASSUME NEW K, NEW docs \in [K -> Counts], NEW q \in Seq(Mutations)
  PROVE  View(docs, q) \in [K -> Counts]
<1>1. ASSUME NEW k \in K PROVE View(docs, q)[k] \in Counts
  <2>1. \A i \in 1 .. Len(q) : q[i] \in Mutations
    BY ElementOfSeq
  <2>2. CASE View(docs, q)[k] = docs[k]
    BY <2>2
  <2>3. CASE \E i \in 1 .. Len(q) : q[i].key = k /\ View(docs, q)[k] = q[i].data
    BY <2>1, <2>3 DEF Mutations
  <2>4. QED
    BY <2>2, <2>3, ViewOrigin
<1>2. View(docs, q) = [k \in K |-> View(docs, q)[k]]
  BY DEF View
<1>3. QED
  BY <1>1, <1>2

(* More taps account for more.                                             *)
LEMMA FairMonotone ==
  ASSUME NEW t \in Nat, NEW u \in Nat, t =< u, NEW v, IsFair(t, v)
  PROVE  IsFair(u, v)
  BY DEF IsFair, IsAccounted

(* A sound write stays sound when more taps are made.                      *)
LEMMA SoundMonotone ==
  ASSUME NEW t \in [Events -> Nat], NEW u \in [Events -> Nat],
         \A e \in Events : t[e] =< u[e],
         NEW m, IsSound(t, m)
  PROVE  IsSound(u, m)
  BY FairMonotone DEF IsSound

-----------------------------------------------------------------------------
(* The invariant holds before the devices first start.                     *)
LEMMA InitInv == Init => IInv
<1> SUFFICES ASSUME Init PROVE IInv
  OBVIOUS
<1>1. PICK board \in [Events -> Numbers \cup {NoDoc}] :
        ClientInit([k \in Keys |-> IF k \in Events THEN board[k] ELSE NoDoc], EmptyBoard)
  BY DEF Init, DocumentsInit
<1>2. /\ db = [k \in Keys |-> IF k \in Events THEN board[k] ELSE NoDoc]
      /\ cache = [d \in Devices |-> EmptyBoard]
      /\ queue = [d \in Devices |-> << >>] /\ sent = [d \in Devices |-> Idle]
      /\ shown = [d \in Devices |-> EmptyBoard] /\ taps = [e \in Events |-> 0] /\ inputs = 0
  BY <1>1 DEF ClientInit, Init
<1>3. BoardOK
  <2>1. db \in [Keys -> Counts]
    BY <1>1, <1>2, BoardAssumption DEF Counts
  <2>2. EmptyBoard \in [Events -> Counts]
    BY DEF EmptyBoard, Counts
  <2>3. << >> \in Seq(Mutations) /\ Len(<< >>) = 0
    BY EmptySeq
  <2>4. /\ cache \in [Devices -> [Events -> Counts]] /\ shown \in [Devices -> [Events -> Counts]]
        /\ queue \in [Devices -> Seq(Mutations)] /\ taps \in [Events -> Nat]
        /\ inputs \in 0 .. MaxInputs
    BY <1>2, <2>2, <2>3, BoardAssumption
  <2>5. /\ sent \in [Devices -> [applied : Nat, seen : Nat, refused : BOOLEAN]]
        /\ \A d \in Devices : /\ sent[d].applied =< Len(queue[d])
                              /\ sent[d].seen =< sent[d].applied
                              /\ sent[d].refused => sent[d].applied < Len(queue[d])
    BY <1>2, <2>3 DEF Idle
  <2>6. QED
    BY <2>1, <2>4, <2>5 DEF BoardOK
<1>4. WritesSound /\ EntriesFirst /\ RefusedIsUpdate
  BY <1>2 DEF WritesSound, EntriesFirst, HasEntries, RefusedIsUpdate, Idle
<1>5. ASSUME NEW n \in Numbers PROVE IsAccounted(0, n)
  <2>1. n = n - 0 /\ 0 \in 0 .. 0
    BY BoardAssumption
  <2>2. QED
    BY <2>1 DEF IsAccounted
<1>6. CountsSound
  BY <1>2, <1>5 DEF CountsSound, IsFair, Keys, EmptyBoard
<1>7. QED
  BY <1>3, <1>4, <1>6 DEF IInv

(* Appending sound writes, each decrement after its entry, preserves the   *)
(* invariant; the tiles may vanish meanwhile.                              *)
LEMMA WriteInv ==
  ASSUME IInv, NEW d \in Devices, NEW ws \in Seq(Mutations),
         WriteLocally(d, ws),
         \A i \in 1 .. Len(ws) : IsSound(taps', ws[i]),
         \A i \in 1 .. Len(ws) : ws[i].op = "update" =>
           \E j \in 1 .. i - 1 : IsEntryWrite(ws[j], d, ws[i].key),
         taps' \in [Events -> Nat], \A e \in Events : taps[e] =< taps'[e],
         shown' = shown \/ shown' = [shown EXCEPT ![d] = EmptyBoard],
         inputs' \in 0 .. MaxInputs
  PROVE  IInv'
<1> USE DEF IInv
<1>0. BoardOK /\ UNCHANGED <<db, cache, sent>> /\ queue' = [queue EXCEPT ![d] = @ \o ws]
  BY DEF WriteLocally
<1>1. /\ queue[d] \in Seq(Mutations)
      /\ queue[d] \o ws \in Seq(Mutations)
      /\ Len(queue[d] \o ws) = Len(queue[d]) + Len(ws)
      /\ \A i \in 1 .. Len(queue[d]) : (queue[d] \o ws)[i] = queue[d][i]
      /\ \A i \in Len(queue[d]) + 1 .. Len(queue[d]) + Len(ws) :
           (queue[d] \o ws)[i] = ws[i - Len(queue[d])]
  <2>1. queue[d] \in Seq(Mutations)
    BY <1>0 DEF BoardOK
  <2>2. Len(queue[d]) \in Nat /\ Len(ws) \in Nat
    BY <2>1, LenProperties
  <2>3. QED
    BY <2>1, <2>2, ConcatProperties
<1>2. /\ Len(queue[d]) \in Nat /\ Len(ws) \in Nat
      /\ queue'[d] = queue[d] \o ws
      /\ \A x \in Devices : x # d => queue'[x] = queue[x]
  BY <1>0, <1>1, LenProperties DEF BoardOK
<1>3. BoardOK'
  <2>1. queue' \in [Devices -> Seq(Mutations)]
    BY <1>0, <1>1 DEF BoardOK
  <2>2. shown' \in [Devices -> [Events -> Counts]]
    <3>1. shown \in [Devices -> [Events -> Counts]] /\ EmptyBoard \in [Events -> Counts]
      BY <1>0 DEF BoardOK, EmptyBoard, Counts
    <3>2. QED
      BY <3>1
  <2>3. \A x \in Devices : /\ sent'[x].applied =< Len(queue'[x])
                           /\ sent'[x].seen =< sent'[x].applied
                           /\ sent'[x].refused => sent'[x].applied < Len(queue'[x])
    BY <1>0, <1>1, <1>2 DEF BoardOK
  <2>4. QED
    BY <1>0, <2>1, <2>2, <2>3 DEF BoardOK
<1>4. taps \in [Events -> Nat]
  BY <1>0 DEF BoardOK
<1>5. CountsSound'
  <2>1. ASSUME NEW e \in Events, NEW x \in Devices PROVE IsFair(taps'[e], shown'[x][e])
    <3>1. shown'[x][e] = shown[x][e] \/ shown'[x][e] = NoDoc
      BY <1>0 DEF BoardOK, EmptyBoard
    <3>2. IsFair(taps'[e], shown[x][e])
      BY <1>4, FairMonotone DEF CountsSound
    <3>3. QED
      BY <3>1, <3>2 DEF IsFair
  <2>2. ASSUME NEW e \in Events
        PROVE  IsFair(taps'[e], db'[e]) /\ \A x \in Devices : IsFair(taps'[e], cache'[x][e])
    BY <1>0, <1>4, FairMonotone DEF CountsSound
  <2>3. QED
    BY <2>1, <2>2 DEF CountsSound
<1>6. WritesSound'
  <2>1. ASSUME NEW x \in Devices, NEW i \in 1 .. Len(queue'[x])
        PROVE  IsSound(taps', queue'[x][i])
    <3>1. CASE x # d
      BY <1>2, <1>4, SoundMonotone, <3>1 DEF WritesSound
    <3>2. CASE x = d /\ i =< Len(queue[d])
      <4>1. queue'[x][i] = queue[d][i] /\ i \in 1 .. Len(queue[d])
        BY <1>1, <1>2, <3>2
      <4>2. QED
        BY <1>4, SoundMonotone, <4>1 DEF WritesSound
    <3>3. CASE x = d /\ i > Len(queue[d])
      <4>1. i - Len(queue[d]) \in 1 .. Len(ws) /\ queue'[x][i] = ws[i - Len(queue[d])]
        BY <1>1, <1>2, <3>3
      <4>2. QED
        BY <4>1
    <3>4. QED
      BY <1>2, <3>1, <3>2, <3>3
  <2>2. QED
    BY <2>1 DEF WritesSound
<1>7. EntriesFirst'
  <2>1. ASSUME NEW x \in Devices, NEW i \in 1 .. Len(queue'[x]),
               queue'[x][i].op = "update"
        PROVE  \/ db'[<<Owner[x], queue'[x][i].key>>] # NoDoc
               \/ \E j \in sent'[x].applied + 1 .. i - 1 :
                    IsEntryWrite(queue'[x][j], x, queue'[x][i].key)
    <3>1. CASE x # d
      BY <1>0, <1>2, <2>1, <3>1 DEF EntriesFirst, HasEntries
    <3>2. CASE x = d /\ i =< Len(queue[d])
      <4>1. queue'[d][i] = queue[d][i] /\ i \in 1 .. Len(queue[d])
        BY <1>1, <1>2, <3>2
      <4>2. CASE db[<<Owner[d], queue[d][i].key>>] # NoDoc
        BY <1>0, <3>2, <4>1, <4>2
      <4>3. CASE \E j \in sent[d].applied + 1 .. i - 1 :
                    IsEntryWrite(queue[d][j], d, queue[d][i].key)
        <5>1. PICK j \in sent[d].applied + 1 .. i - 1 :
                    IsEntryWrite(queue[d][j], d, queue[d][i].key)
          BY <4>3
        <5>2. sent[d].applied \in Nat
          BY <1>0 DEF BoardOK
        <5>3. queue'[d][j] = queue[d][j]
          BY <1>1, <1>2, <3>2, <5>2
        <5>4. QED
          BY <1>0, <3>2, <4>1, <5>1, <5>3
      <4>4. QED
        BY <2>1, <3>2, <4>1, <4>2, <4>3 DEF EntriesFirst, HasEntries
    <3>3. CASE x = d /\ i > Len(queue[d])
      <4> DEFINE o == i - Len(queue[d])
      <4>1. o \in 1 .. Len(ws) /\ o \in Nat /\ i = o + Len(queue[d]) /\ queue'[d][i] = ws[o]
        <5>1. i \in Len(queue[d]) + 1 .. Len(queue[d]) + Len(ws)
          BY <1>1, <1>2, <3>3
        <5>2. QED
          BY <1>1, <1>2, <5>1
      <4>2. PICK j \in 1 .. o - 1 : IsEntryWrite(ws[j], d, ws[o].key)
        BY <2>1, <3>3, <4>1
      <4>3. sent[d].applied \in Nat /\ sent[d].applied =< Len(queue[d])
        BY <1>0 DEF BoardOK
      <4>4. /\ j + Len(queue[d]) \in sent[d].applied + 1 .. i - 1
            /\ queue'[d][j + Len(queue[d])] = ws[j]
        <5>1. j + Len(queue[d]) \in Len(queue[d]) + 1 .. Len(queue[d]) + Len(ws)
          BY <1>2, <4>1
        <5>2. (j + Len(queue[d])) - Len(queue[d]) = j
          BY <1>2, <4>1
        <5>3. j + Len(queue[d]) \in sent[d].applied + 1 .. i - 1
          BY <1>2, <4>1, <4>3
        <5>4. QED
          BY <1>1, <1>2, <5>1, <5>2, <5>3
      <4>5. QED
        BY <1>0, <3>3, <4>1, <4>2, <4>4
    <3>4. QED
      BY <1>2, <3>1, <3>2, <3>3
  <2>2. QED
    BY <2>1 DEF EntriesFirst, HasEntries
<1>8. RefusedIsUpdate'
  <2>1. ASSUME NEW x \in Devices, sent'[x].refused
        PROVE  queue'[x][sent'[x].applied + 1].op = "update"
    <3>1. sent[x].applied \in Nat /\ sent[x].applied < Len(queue[x]) /\ sent' = sent
      BY <1>0, <2>1 DEF BoardOK
    <3>2. queue'[x][sent[x].applied + 1] = queue[x][sent[x].applied + 1]
      <4>1. CASE x # d
        BY <1>2, <4>1
      <4>2. CASE x = d
        <5>1. sent[d].applied + 1 \in 1 .. Len(queue[d])
          BY <1>2, <3>1, <4>2
        <5>2. QED
          BY <1>1, <1>2, <4>2, <5>1
      <4>3. QED
        BY <4>1, <4>2
    <3>3. QED
      BY <2>1, <3>1, <3>2 DEF RefusedIsUpdate
  <2>2. QED
    BY <2>1 DEF RefusedIsUpdate
<1>9. QED
  BY <1>3, <1>5, <1>6, <1>7, <1>8

-----------------------------------------------------------------------------
(* The user's inputs: each appends writes that WriteInv admits.            *)

(* The writes of a tap: the entry, then the decrement if the tile shows a  *)
(* place.                                                                  *)
LEMMA TapWrites ==
  ASSUME IInv, NEW d \in Devices, NEW e \in Events, shown[d][e] # NoDoc, CountTap(d, e)
  PROVE  /\ taps' \in [Events -> Nat] /\ \A f \in Events : taps[f] =< taps'[f]
         /\ addEventToMyCalendar(d, e) \in Mutations
         /\ IsSound(taps', addEventToMyCalendar(d, e))
         /\ IsEntryWrite(addEventToMyCalendar(d, e), d, e)
         /\ shown[d][e] > 0 => /\ Update(e, shown[d][e] - 1) \in Mutations
                               /\ IsSound(taps', Update(e, shown[d][e] - 1))
<1>1. BoardOK /\ shown[d][e] \in Int /\ taps[e] \in Nat /\ Owner[d] \in Users
  BY BoardAssumption DEF IInv, BoardOK, Counts
<1>2. /\ taps' \in [Events -> Nat] /\ \A f \in Events : taps[f] =< taps'[f]
      /\ shown[d][e] > 0 => taps'[e] = taps[e] + 1
  BY <1>1 DEF CountTap, BoardOK
<1>3. /\ addEventToMyCalendar(d, e) \in Mutations
      /\ IsSound(taps', addEventToMyCalendar(d, e))
      /\ IsEntryWrite(addEventToMyCalendar(d, e), d, e)
  <2>1. <<Owner[d], e>> \in Entries /\ <<Owner[d], e>> \notin Events
    BY <1>1, BoardAssumption DEF Entries
  <2>2. QED
    BY <1>1, <2>1 DEF addEventToMyCalendar, Set, Mutations, Keys, Counts, IsSound, IsEntryWrite
<1>4. ASSUME shown[d][e] > 0
      PROVE  /\ Update(e, shown[d][e] - 1) \in Mutations
             /\ IsSound(taps', Update(e, shown[d][e] - 1))
  <2>1. e \notin Entries /\ shown[d][e] - 1 # NoDoc
    BY <1>1, BoardAssumption
  <2>2. IsAccounted(taps[e] + 1, shown[d][e] - 1)
    <3>1. PICK n \in Numbers, k \in 0 .. taps[e] : shown[d][e] = n - k
      BY DEF IInv, CountsSound, IsFair, IsAccounted
    <3>2. /\ n \in Int /\ k + 1 \in 0 .. taps[e] + 1
          /\ shown[d][e] - 1 = n - (k + 1) /\ shown[d][e] - 1 >= 0
      BY <1>1, <1>4, <3>1, BoardAssumption
    <3>3. QED
      BY <3>2 DEF IsAccounted
  <2>3. QED
    BY <1>1, <1>2, <1>4, <2>1, <2>2 DEF Update, Mutations, Keys, Counts, IsSound, IsFair
<1>5. QED
  BY <1>2, <1>3, <1>4

(* Concatenations of one-element sequences.                                *)
LEMMA ConcatSingles == \A a, c : <<a>> \o <<c>> = <<a, c>> /\ <<a>> \o << >> = <<a>>
<1> TAKE a, c
<1>1. <<a>> \in Seq({a, c}) /\ <<c>> \in Seq({a, c}) /\ <<a, c>> \in Seq({a, c})
  OBVIOUS
<1>2. <<a>> \o << >> = <<a>>
  BY <1>1, ConcatEmptySeq
<1>3. /\ <<a>> \o <<c>> \in Seq({a, c}) /\ Len(<<a>> \o <<c>>) = 2
      /\ (<<a>> \o <<c>>)[1] = a /\ (<<a>> \o <<c>>)[2] = c
  <2>1. /\ Len(<<a>>) = 1 /\ Len(<<c>>) = 1 /\ <<a>>[1] = a /\ <<c>>[1] = c
        /\ 1 \in 1 .. 1 + 1 /\ 2 \in 1 .. 1 + 1
    OBVIOUS
  <2>2. QED
    BY <1>1, <2>1, ConcatProperties
<1>4. \A i \in 1 .. 2 : (<<a>> \o <<c>>)[i] = <<a, c>>[i]
  BY <1>3
<1>5. <<a>> \o <<c>> = <<a, c>>
  BY <1>1, <1>3, <1>4, SeqEqual
<1>6. QED
  BY <1>2, <1>5

(* Inputs stay within their bound.                                         *)
LEMMA InputType == ASSUME IInv, Input PROVE inputs' \in 0 .. MaxInputs
  BY BoardAssumption DEF IInv, BoardOK, Input

(* A tap keeps the invariant: its decrement is one below the tile's        *)
(* number, and its entry is queued ahead.                                  *)
LEMMA OnTapInv ==
  ASSUME IInv, NEW d \in Devices, NEW e \in Events, onTap(d, e)
  PROVE  IInv'
<1>1. PICK a : a = addEventToMyCalendar(d, e)
  OBVIOUS
<1>2. PICK ws : ws = onTapWrites(d, e)
  OBVIOUS
<1>3. PICK c : c = Update(e, shown[d][e] - 1)
  OBVIOUS
<1>4. /\ shown[d][e] # NoDoc /\ CountTap(d, e) /\ WriteLocally(d, ws)
      /\ UNCHANGED shown /\ inputs' \in 0 .. MaxInputs
  BY <1>2, InputType DEF onTap, SaveWrites
<1>5. CASE shown[d][e] > 0
  <2>1. ws = <<a, c>>
    BY <1>1, <1>2, <1>3, <1>5, ConcatSingles DEF onTapWrites, decrementNumberOfPeople
  <2>2. a \in Mutations /\ c \in Mutations /\ IsSound(taps', a) /\ IsSound(taps', c)
    BY <1>1, <1>3, <1>4, <1>5, TapWrites
  <2>3. ws \in Seq(Mutations) /\ Len(ws) = 2 /\ ws[1] = a /\ ws[2] = c
    BY <2>1, <2>2
  <2>4. IsEntryWrite(a, d, c.key) /\ a.op # "update"
    BY <1>1, <1>3, <1>4, TapWrites DEF Update, IsEntryWrite
  <2>5. \A i \in 1 .. Len(ws) : IsSound(taps', ws[i])
    BY <2>2, <2>3
  <2>6. \A i \in 1 .. Len(ws) : ws[i].op = "update" =>
           \E j \in 1 .. i - 1 : IsEntryWrite(ws[j], d, ws[i].key)
    BY <2>3, <2>4
  <2>7. QED
    BY <1>4, <2>3, <2>5, <2>6, TapWrites, WriteInv
<1>6. CASE ~(shown[d][e] > 0)
  <2>1. ws = <<a>>
    BY <1>1, <1>2, <1>6, ConcatSingles DEF onTapWrites, decrementNumberOfPeople
  <2>2. a \in Mutations /\ IsSound(taps', a) /\ IsEntryWrite(a, d, e)
    BY <1>1, <1>4, TapWrites
  <2>3. ws \in Seq(Mutations) /\ Len(ws) = 1 /\ ws[1] = a /\ a.op # "update"
    BY <2>1, <2>2 DEF IsEntryWrite
  <2>4. QED
    BY <1>4, <2>2, <2>3, TapWrites, WriteInv
<1>7. QED
  BY <1>5, <1>6

(* A tap cut short keeps the invariant: only its entry is queued.          *)
LEMMA OnTapKilledInv ==
  ASSUME IInv, NEW d \in Devices, NEW e \in Events, onTapKilled(d, e)
  PROVE  IInv'
<1>1. PICK a : a = addEventToMyCalendar(d, e)
  OBVIOUS
<1>2. PICK ws : ws = <<Head(onTapWrites(d, e))>>
  OBVIOUS
<1>3. /\ shown[d][e] # NoDoc /\ CountTap(d, e) /\ WriteLocally(d, ws)
      /\ shown' = [shown EXCEPT ![d] = EmptyBoard] /\ inputs' \in 0 .. MaxInputs
  BY <1>2, InputType DEF onTapKilled, SaveWrites
<1>4. a \in Mutations /\ IsSound(taps', a) /\ IsEntryWrite(a, d, e)
  BY <1>1, <1>3, TapWrites
<1>5. ws = <<a>>
  <2>1. onTapWrites(d, e) = <<a>> \/ onTapWrites(d, e) = <<a, Update(e, shown[d][e] - 1)>>
    BY <1>1, ConcatSingles DEF onTapWrites, decrementNumberOfPeople
  <2>2. QED
    BY <1>2, <2>1
<1>6. ws \in Seq(Mutations) /\ Len(ws) = 1 /\ ws[1] = a /\ a.op # "update"
  BY <1>4, <1>5 DEF IsEntryWrite
<1>7. \A i \in 1 .. Len(ws) : IsSound(taps', ws[i]) /\ ws[i].op # "update"
  BY <1>4, <1>6
<1>8. QED
  BY <1>3, <1>6, <1>7, TapWrites, WriteInv

(* Saving an event keeps the invariant: the number was typed.              *)
LEMMA SaveInv ==
  ASSUME IInv, NEW d \in Devices, NEW e \in Events, NEW n \in Numbers,
         saveEventToFirestore(d, e, n)
  PROVE  IInv'
<1>1. /\ WriteLocally(d, <<Set(e, n)>>) /\ UNCHANGED <<shown, taps>>
      /\ inputs' \in 0 .. MaxInputs /\ taps \in [Events -> Nat]
  BY InputType DEF saveEventToFirestore, SaveWrites, IInv, BoardOK
<1>2. Set(e, n) \in Mutations /\ Set(e, n).op # "update"
  BY BoardAssumption DEF Set, Mutations, Keys, Counts
<1>3. IsSound(taps', Set(e, n))
  <2>1. IsAccounted(taps[e], n)
    <3>1. n = n - 0 /\ 0 \in 0 .. taps[e]
      BY <1>1, BoardAssumption
    <3>2. QED
      BY <3>1 DEF IsAccounted
  <2>2. e \notin Entries
    BY BoardAssumption
  <2>3. QED
    BY <1>1, <2>1, <2>2 DEF Set, IsSound, IsFair
<1>4. /\ <<Set(e, n)>> \in Seq(Mutations) /\ Len(<<Set(e, n)>>) = 1
      /\ <<Set(e, n)>>[1] = Set(e, n)
  BY <1>2
<1>5. \A i \in 1 .. Len(<<Set(e, n)>>) :
        IsSound(taps', <<Set(e, n)>>[i]) /\ <<Set(e, n)>>[i].op # "update"
  BY <1>2, <1>3, <1>4
<1>6. taps' \in [Events -> Nat] /\ \A f \in Events : taps[f] =< taps'[f]
  BY <1>1
<1>7. QED
  BY <1>1, <1>4, <1>5, <1>6, WriteInv

(* Deleting an event keeps the invariant.                                  *)
LEMMA DeleteInv ==
  ASSUME IInv, NEW d \in Devices, NEW e \in Events, deleteTask(d, e)
  PROVE  IInv'
<1>1. /\ WriteLocally(d, <<Delete(e)>>) /\ UNCHANGED <<shown, taps>>
      /\ inputs' \in 0 .. MaxInputs /\ taps \in [Events -> Nat]
  BY InputType DEF deleteTask, SaveWrites, IInv, BoardOK
<1>2. Delete(e) \in Mutations /\ Delete(e).op # "update" /\ IsSound(taps', Delete(e))
  BY BoardAssumption DEF Delete, Mutations, Keys, Counts, IsSound, IsFair
<1>3. /\ <<Delete(e)>> \in Seq(Mutations) /\ Len(<<Delete(e)>>) = 1
      /\ <<Delete(e)>>[1] = Delete(e)
  BY <1>2
<1>4. \A i \in 1 .. Len(<<Delete(e)>>) :
        IsSound(taps', <<Delete(e)>>[i]) /\ <<Delete(e)>>[i].op # "update"
  BY <1>2, <1>3
<1>5. taps' \in [Events -> Nat] /\ \A f \in Events : taps[f] =< taps'[f]
  BY <1>1
<1>6. QED
  BY <1>1, <1>3, <1>4, <1>5, WriteInv

-----------------------------------------------------------------------------
(* The client's and the server's steps.                                    *)

(* The head of a queue leaves it: applied by the server, or a refused      *)
(* update, which no decrement behind it depends on.                        *)
LEMMA DropHeadInv ==
  ASSUME IInv, NEW d \in Devices, sent[d].applied > 0 \/ sent[d].refused,
         NEW s \in [applied : Nat, seen : Nat, refused : BOOLEAN],
         sent' = [sent EXCEPT ![d] = s],
         s.applied = IF sent[d].applied > 0 THEN sent[d].applied - 1 ELSE 0,
         s.seen =< s.applied,
         s.refused => sent[d].refused /\ sent[d].applied > 0,
         queue' = [queue EXCEPT ![d] = Tail(@)],
         cache' \in [Devices -> [Events -> Counts]],
         \A e \in Events, x \in Devices : IsFair(taps[e], cache'[x][e]),
         UNCHANGED <<db, shown, taps, inputs>>
  PROVE  IInv'
<1> USE DEF IInv
<1>0. PICK q, t : q = queue[d] /\ t = Tail(queue[d])
  OBVIOUS
<1>1. q \in Seq(Mutations) /\ Len(q) \in Nat /\ q # << >> /\ Len(q) > 0
  BY <1>0 DEF BoardOK
<1>2. /\ t \in Seq(Mutations) /\ Len(t) = Len(q) - 1
      /\ \A i \in 1 .. Len(q) - 1 : t[i] = q[i + 1]
  BY <1>0, <1>1, HeadTailProperties
<1>3. /\ queue'[d] = t /\ queue[d] = q /\ sent'[d] = s
      /\ \A x \in Devices : x # d => queue'[x] = queue[x] /\ sent'[x] = sent[x]
      /\ sent[d].applied \in Nat /\ sent[d].applied =< Len(q)
      /\ sent[d].refused => sent[d].applied < Len(q)
  BY <1>0 DEF BoardOK
<1>4. BoardOK'
  <2>1. queue' \in [Devices -> Seq(Mutations)]
        /\ sent' \in [Devices -> [applied : Nat, seen : Nat, refused : BOOLEAN]]
    BY <1>0, <1>2 DEF BoardOK
  <2>2. \A x \in Devices : /\ sent'[x].applied =< Len(queue'[x])
                           /\ sent'[x].seen =< sent'[x].applied
                           /\ sent'[x].refused => sent'[x].applied < Len(queue'[x])
    BY <1>1, <1>2, <1>3 DEF BoardOK
  <2>3. QED
    BY <2>1, <2>2 DEF BoardOK
<1>5. CountsSound'
  BY DEF CountsSound
<1>6. WritesSound'
  <2>1. ASSUME NEW x \in Devices, NEW i \in 1 .. Len(queue'[x])
        PROVE  IsSound(taps', queue'[x][i])
    <3>1. CASE x # d
      BY <1>3, <3>1 DEF WritesSound
    <3>2. CASE x = d
      <4>1. i + 1 \in 1 .. Len(q) /\ queue'[x][i] = q[i + 1]
        <5>1. i \in 1 .. Len(q) - 1
          BY <1>2, <1>3, <3>2
        <5>2. QED
          BY <1>1, <1>2, <1>3, <3>2, <5>1
      <4>2. QED
        BY <1>3, <4>1 DEF WritesSound
    <3>3. QED
      BY <3>1, <3>2
  <2>2. QED
    BY <2>1 DEF WritesSound
<1>7. EntriesFirst'
  <2>1. ASSUME NEW x \in Devices, NEW i \in 1 .. Len(queue'[x]),
               queue'[x][i].op = "update"
        PROVE  \/ db'[<<Owner[x], queue'[x][i].key>>] # NoDoc
               \/ \E j \in sent'[x].applied + 1 .. i - 1 :
                    IsEntryWrite(queue'[x][j], x, queue'[x][i].key)
    <3>1. CASE x # d
      BY <1>3, <2>1, <3>1 DEF EntriesFirst, HasEntries
    <3>2. CASE x = d
      <4>1. i + 1 \in 1 .. Len(q) /\ queue'[d][i] = q[i + 1]
        <5>1. i \in 1 .. Len(q) - 1
          BY <1>2, <1>3, <3>2
        <5>2. QED
          BY <1>1, <1>2, <1>3, <3>2, <5>1
      <4>2. CASE db[<<Owner[d], q[i + 1].key>>] # NoDoc
        BY <1>3, <3>2, <4>1, <4>2
      <4>3. CASE \E j \in sent[d].applied + 1 .. (i + 1) - 1 :
                    IsEntryWrite(q[j], d, q[i + 1].key)
        <5>1. PICK j \in sent[d].applied + 1 .. (i + 1) - 1 :
                    IsEntryWrite(q[j], d, q[i + 1].key)
          BY <4>3
        <5>2. j # 1
          <6>1. CASE sent[d].applied > 0
            BY <1>3, <6>1
          <6>2. CASE sent[d].applied = 0
            <7>1. q[1].op = "update"
              BY <1>3, <6>2 DEF RefusedIsUpdate
            <7>2. QED
              BY <5>1, <7>1 DEF IsEntryWrite
          <6>3. QED
            BY <1>3, <6>1, <6>2
        <5>3. /\ j - 1 \in s.applied + 1 .. i - 1 /\ j - 1 \in 1 .. Len(q) - 1
              /\ (j - 1) + 1 = j
          BY <1>3, <4>1, <5>2
        <5>4. queue'[d][j - 1] = q[j]
          BY <1>2, <1>3, <5>3
        <5>5. QED
          BY <1>3, <3>2, <4>1, <5>1, <5>3, <5>4
      <4>4. QED
        BY <1>3, <2>1, <3>2, <4>1, <4>2, <4>3 DEF EntriesFirst, HasEntries
    <3>3. QED
      BY <3>1, <3>2
  <2>2. QED
    BY <2>1 DEF EntriesFirst, HasEntries
<1>8. RefusedIsUpdate'
  <2>1. ASSUME NEW x \in Devices, sent'[x].refused
        PROVE  queue'[x][sent'[x].applied + 1].op = "update"
    <3>1. CASE x # d
      BY <1>3, <2>1, <3>1 DEF RefusedIsUpdate
    <3>2. CASE x = d
      <4>1. /\ sent[d].refused /\ s.applied + 1 = sent[d].applied
            /\ sent[d].applied \in 1 .. Len(q) - 1
        BY <1>1, <1>3, <2>1, <3>2
      <4>2. t[sent[d].applied] = q[sent[d].applied + 1]
        BY <1>2, <4>1
      <4>3. QED
        BY <1>3, <3>2, <4>1, <4>2 DEF RefusedIsUpdate
    <3>3. QED
      BY <3>1, <3>2
  <2>2. QED
    BY <2>1 DEF RefusedIsUpdate
<1>9. QED
  BY <1>4, <1>5, <1>6, <1>7, <1>8

(* Dropping a refused write keeps the invariant: it is an update, so no    *)
(* entry is lost.                                                          *)
LEMMA HandleRejectedWriteInv ==
  ASSUME IInv, NEW d \in Devices, HandleRejectedWrite(d), UNCHANGED <<shown, taps, inputs>>
  PROVE  IInv'
<1>1. PICK s : s = [sent[d] EXCEPT !.refused = FALSE]
  OBVIOUS
<1>2. sent[d] \in [applied : Nat, seen : Nat, refused : BOOLEAN]
      /\ sent[d].seen =< sent[d].applied /\ sent[d].applied = 0 /\ sent[d].refused
  BY DEF IInv, BoardOK, HandleRejectedWrite
<1>3. /\ s \in [applied : Nat, seen : Nat, refused : BOOLEAN]
      /\ s.applied = 0 /\ s.seen =< 0 /\ s.refused = FALSE
  BY <1>1, <1>2
<1>4. /\ sent' = [sent EXCEPT ![d] = s] /\ queue' = [queue EXCEPT ![d] = Tail(@)]
      /\ UNCHANGED <<db, cache>>
  BY <1>1 DEF HandleRejectedWrite
<1>5. /\ cache' \in [Devices -> [Events -> Counts]]
      /\ \A e \in Events, x \in Devices : IsFair(taps[e], cache'[x][e])
  BY <1>4 DEF IInv, BoardOK, CountsSound
<1>6. /\ s.applied = IF sent[d].applied > 0 THEN sent[d].applied - 1 ELSE 0
      /\ s.seen =< s.applied
  BY <1>2, <1>3
<1>7. QED
  BY <1>2, <1>3, <1>4, <1>5, <1>6, DropHeadInv

(* An answer keeps the invariant.                                          *)
LEMMA HandleSuccessfulWriteInv ==
  ASSUME IInv, NEW d \in Devices, HandleSuccessfulWrite(d), UNCHANGED <<shown, taps, inputs>>
  PROVE  IInv'
<1>1. PICK s : s = Answered(sent[d])
  OBVIOUS
<1>2. /\ sent[d] \in [applied : Nat, seen : Nat, refused : BOOLEAN]
      /\ sent[d].seen =< sent[d].applied /\ sent[d].applied > 0
      /\ sent[d].applied =< Len(queue[d]) /\ queue[d] \in Seq(Mutations)
  BY DEF IInv, BoardOK, HandleSuccessfulWrite
<1>3. /\ s \in [applied : Nat, seen : Nat, refused : BOOLEAN]
      /\ s.applied = sent[d].applied - 1 /\ s.seen =< s.applied
      /\ s.refused = sent[d].refused
  BY <1>1, <1>2 DEF Answered
<1>4. /\ sent' = [sent EXCEPT ![d] = s] /\ queue' = [queue EXCEPT ![d] = Tail(@)]
      /\ UNCHANGED db
  <2>1. sent \in [Devices -> [applied : Nat, seen : Nat, refused : BOOLEAN]]
    BY DEF IInv, BoardOK
  <2>2. sent' = [sent EXCEPT ![d] = s]
    BY <1>1, <2>1 DEF HandleSuccessfulWrite
  <2>3. QED
    BY <2>2 DEF HandleSuccessfulWrite
<1>5. Head(queue[d]) \in Mutations /\ IsSound(taps, Head(queue[d]))
  <2>1. Head(queue[d]) = queue[d][1] /\ 1 \in 1 .. Len(queue[d])
    BY <1>2
  <2>2. QED
    BY <1>2, <2>1 DEF IInv, WritesSound
<1>6. /\ cache' \in [Devices -> [Events -> Counts]]
      /\ \A e \in Events, x \in Devices : IsFair(taps[e], cache'[x][e])
  <2>1. cache \in [Devices -> [Events -> Counts]]
        /\ \A e \in Events, x \in Devices : IsFair(taps[e], cache[x][e])
    BY DEF IInv, BoardOK, CountsSound
  <2>2. CASE sent[d].seen > 0
    BY <2>1, <2>2 DEF HandleSuccessfulWrite
  <2>3. CASE ~(sent[d].seen > 0)
    <3>1. cache' = [cache EXCEPT ![d] = Apply(Head(queue[d]), cache[d])]
      BY <2>1, <2>3 DEF HandleSuccessfulWrite
    <3>2. /\ Apply(Head(queue[d]), cache[d]) \in [Events -> Counts]
          /\ \A e \in Events : \/ Apply(Head(queue[d]), cache[d])[e] = cache[d][e]
                               \/ /\ e = Head(queue[d]).key
                                  /\ Apply(Head(queue[d]), cache[d])[e] = Head(queue[d]).data
      BY <1>5, <2>1, ApplyType
    <3>3. \A e \in Events : IsFair(taps[e], Apply(Head(queue[d]), cache[d])[e])
      BY <1>5, <2>1, <3>2 DEF IsSound
    <3>4. QED
      BY <2>1, <3>1, <3>2, <3>3
  <2>4. QED
    BY <2>2, <2>3
<1>7. QED
  BY <1>2, <1>3, <1>4, <1>6, DropHeadInv

(* What the server applies is sound, keeps every entry, and records the    *)
(* entry when the write is one.                                            *)
LEMMA CommitInv ==
  ASSUME IInv, NEW d \in Devices, Commit(d), UNCHANGED <<shown, taps, inputs>>
  PROVE  IInv'
<1> USE DEF IInv
<1>0. PICK m, n : m = NextWrite(d) /\ n = sent[d].applied + 1
  OBVIOUS
<1>1. /\ n \in 1 .. Len(queue[d]) /\ n \in Nat /\ m = queue[d][n]
      /\ queue[d] \in Seq(Mutations) /\ m \in Mutations /\ IsSound(taps, m)
      /\ db \in [Keys -> Counts] /\ ~sent[d].refused
  <2>1. /\ n \in 1 .. Len(queue[d]) /\ n \in Nat /\ m = queue[d][n]
        /\ queue[d] \in Seq(Mutations)
        /\ db \in [Keys -> Counts] /\ ~sent[d].refused
    BY <1>0 DEF BoardOK, Commit, NextWrite
  <2>2. QED
    BY <2>1, ElementOfSeq DEF WritesSound
<1>2. /\ db' = Apply(m, db) /\ IsValidFor(m, db[m.key])
      /\ sent' = [sent EXCEPT ![d].applied = @ + 1]
      /\ UNCHANGED <<cache, queue>>
  BY <1>0 DEF Commit
<1>3. /\ db' \in [Keys -> Counts]
      /\ \A k \in Keys : db'[k] = db[k] \/ (k = m.key /\ db'[k] = m.data)
      /\ db'[m.key] = m.data
  <2>1. m.key \in Keys /\ m \in Mutations /\ db \in [Keys -> Counts]
    BY <1>1 DEF Mutations
  <2>2. Apply(m, db) \in [Keys -> Counts]
    BY <2>1, ApplyType
  <2>3. \A k \in Keys : \/ Apply(m, db)[k] = db[k]
                        \/ k = m.key /\ Apply(m, db)[k] = m.data
    BY <2>1, ApplyType
  <2>4. Apply(m, db)[m.key] = m.data
    BY <1>2, <2>1, ApplyType
  <2>5. db' = Apply(m, db)
    BY <1>2
  <2>6. QED
    BY <2>2, <2>3, <2>4, <2>5
<1>4. /\ sent' \in [Devices -> [applied : Nat, seen : Nat, refused : BOOLEAN]]
      /\ \A x \in Devices : x # d => sent'[x] = sent[x]
      /\ sent'[d].applied = n /\ sent'[d].seen = sent[d].seen
      /\ sent'[d].refused = sent[d].refused
  <2>1. sent \in [Devices -> [applied : Nat, seen : Nat, refused : BOOLEAN]]
    BY DEF BoardOK
  <2>2. QED
    BY <1>0, <1>2, <2>1
<1>5. BoardOK'
  <2>1. \A x \in Devices : /\ sent'[x].applied =< Len(queue'[x])
                           /\ sent'[x].seen =< sent'[x].applied
                           /\ sent'[x].refused => sent'[x].applied < Len(queue'[x])
    BY <1>0, <1>1, <1>2, <1>4 DEF BoardOK
  <2>2. QED
    BY <1>2, <1>3, <1>4, <2>1 DEF BoardOK
<1>6. CountsSound'
  <2>1. \A e \in Events : IsFair(taps[e], db'[e])
    BY <1>1, <1>3 DEF CountsSound, IsSound, Keys
  <2>2. QED
    BY <1>2, <2>1 DEF CountsSound
<1>7. WritesSound'
  BY <1>2 DEF WritesSound
<1>8. \A k \in Entries : db[k] # NoDoc => db'[k] # NoDoc
  BY <1>1, <1>3 DEF IsSound, Keys
<1>9. EntriesFirst'
  <2>1. ASSUME NEW x \in Devices, NEW i \in 1 .. Len(queue[x]), queue[x][i].op = "update"
        PROVE  \/ db'[<<Owner[x], queue[x][i].key>>] # NoDoc
               \/ \E j \in sent'[x].applied + 1 .. i - 1 :
                    IsEntryWrite(queue[x][j], x, queue[x][i].key)
    <3>1. <<Owner[x], queue[x][i].key>> \in Entries
      BY <2>1, BoardAssumption DEF WritesSound, IsSound, Entries
    <3>2. CASE db[<<Owner[x], queue[x][i].key>>] # NoDoc
      BY <1>8, <3>1, <3>2
    <3>3. CASE \E j \in sent[x].applied + 1 .. i - 1 :
                 IsEntryWrite(queue[x][j], x, queue[x][i].key)
      <4>1. PICK j \in sent[x].applied + 1 .. i - 1 :
                 IsEntryWrite(queue[x][j], x, queue[x][i].key)
        BY <3>3
      <4>2. CASE x # d
        BY <1>4, <4>1, <4>2
      <4>3. CASE x = d /\ j = n
        BY <1>1, <1>3, <4>1, <4>3 DEF IsEntryWrite
      <4>4. CASE x = d /\ j # n
        <5>1. j \in n + 1 .. i - 1
          BY <1>0, <1>1, <4>1, <4>4
        <5>2. QED
          BY <1>4, <4>1, <4>4, <5>1
      <4>5. QED
        BY <4>2, <4>3, <4>4
    <3>4. QED
      BY <2>1, <3>2, <3>3 DEF EntriesFirst, HasEntries
  <2>2. QED
    BY <1>2, <2>1 DEF EntriesFirst, HasEntries
<1>10. RefusedIsUpdate'
  BY <1>1, <1>2, <1>4 DEF RefusedIsUpdate
<1>11. QED
  BY <1>5, <1>6, <1>7, <1>9, <1>10

(* A refusal keeps the invariant: only updates have a precondition.        *)
LEMMA RefuseInv ==
  ASSUME IInv, NEW d \in Devices, Refuse(d), UNCHANGED <<shown, taps, inputs>>
  PROVE  IInv'
<1> USE DEF IInv
<1>1. UNCHANGED <<db, cache, queue>> /\ sent' = [sent EXCEPT ![d].refused = TRUE]
  BY DEF Refuse
<1>2. /\ sent' \in [Devices -> [applied : Nat, seen : Nat, refused : BOOLEAN]]
      /\ \A x \in Devices : sent'[x].applied = sent[x].applied /\ sent'[x].seen = sent[x].seen
      /\ \A x \in Devices : x # d => sent'[x] = sent[x]
  BY <1>1 DEF BoardOK
<1>3. sent[d].applied < Len(queue[d]) /\ queue[d][sent[d].applied + 1].op = "update"
  BY DEF Refuse, NextWrite, IsValidFor
<1>4. BoardOK'
  <2>1. \A x \in Devices : /\ sent'[x].applied =< Len(queue'[x])
                           /\ sent'[x].seen =< sent'[x].applied
                           /\ sent'[x].refused => sent'[x].applied < Len(queue'[x])
    BY <1>1, <1>2, <1>3 DEF BoardOK
  <2>2. QED
    BY <1>1, <1>2, <2>1 DEF BoardOK
<1>5. CountsSound' /\ WritesSound'
  BY <1>1 DEF CountsSound, WritesSound
<1>6. EntriesFirst'
  BY <1>1, <1>2 DEF EntriesFirst
<1>7. RefusedIsUpdate'
  BY <1>1, <1>2, <1>3 DEF RefusedIsUpdate
<1>8. QED
  BY <1>4, <1>5, <1>6, <1>7

(* A snapshot keeps the invariant: its numbers are the server's.           *)
LEMMA ApplyRemoteEventInv ==
  ASSUME IInv, NEW d \in Devices, ApplyRemoteEvent(d), UNCHANGED <<shown, taps, inputs>>
  PROVE  IInv'
<1> USE DEF IInv
<1>1. /\ UNCHANGED <<db, queue>>
      /\ cache' = [cache EXCEPT ![d] = [k \in Events |-> db[k]]]
      /\ sent' = [sent EXCEPT ![d].seen = sent[d].applied]
  BY DEF ApplyRemoteEvent, BoardOK
<1>2. /\ sent' \in [Devices -> [applied : Nat, seen : Nat, refused : BOOLEAN]]
      /\ \A x \in Devices : /\ sent'[x].applied = sent[x].applied
                            /\ sent'[x].refused = sent[x].refused
                            /\ sent'[x].seen = sent[x].seen \/ sent'[x].seen = sent[x].applied
  BY <1>1 DEF BoardOK
<1>3. BoardOK'
  <2>1. \A x \in Devices : /\ sent'[x].applied =< Len(queue'[x])
                           /\ sent'[x].seen =< sent'[x].applied
                           /\ sent'[x].refused => sent'[x].applied < Len(queue'[x])
    BY <1>1, <1>2 DEF BoardOK
  <2>2. cache' \in [Devices -> [Events -> Counts]]
    BY <1>1 DEF BoardOK, Keys
  <2>3. QED
    BY <1>1, <1>2, <2>1, <2>2 DEF BoardOK
<1>4. CountsSound'
  <2>1. \A x \in Devices, e \in Events : cache'[x][e] = cache[x][e] \/ cache'[x][e] = db[e]
    BY <1>1 DEF BoardOK
  <2>2. QED
    BY <1>1, <2>1 DEF CountsSound
<1>5. WritesSound'
  BY <1>1 DEF WritesSound
<1>6. EntriesFirst' /\ RefusedIsUpdate'
  BY <1>1, <1>2 DEF EntriesFirst, RefusedIsUpdate
<1>7. QED
  BY <1>3, <1>4, <1>5, <1>6

(* Resending the pipeline keeps the invariant: the entry of every          *)
(* decrement stays on the server or is sent again before it.               *)
LEMMA LoseAnswersInv ==
  ASSUME IInv, NEW d \in Devices, LoseAnswers(d)
  PROVE  IInv'
<1> USE DEF IInv
<1>1. /\ UNCHANGED <<db, cache, queue, shown, taps>> /\ sent' = [sent EXCEPT ![d] = Idle]
      /\ inputs' \in 0 .. MaxInputs
  BY InputType DEF LoseAnswers, OnWriteStreamClose
<1>2. /\ sent' \in [Devices -> [applied : Nat, seen : Nat, refused : BOOLEAN]]
      /\ \A x \in Devices : /\ sent'[x] = sent[x] \/ sent'[x] = Idle
                            /\ sent'[x].applied =< sent[x].applied
  BY <1>1 DEF BoardOK, Idle
<1>3. BoardOK'
  <2>1. \A x \in Devices : /\ sent'[x].applied =< Len(queue'[x])
                           /\ sent'[x].seen =< sent'[x].applied
                           /\ sent'[x].refused => sent'[x].applied < Len(queue'[x])
    BY <1>1, <1>2 DEF BoardOK, Idle
  <2>2. QED
    BY <1>1, <1>2, <2>1 DEF BoardOK
<1>4. CountsSound' /\ WritesSound'
  BY <1>1 DEF CountsSound, WritesSound
<1>5. EntriesFirst'
  <2>1. ASSUME NEW x \in Devices, NEW i \in 1 .. Len(queue[x]),
               NEW j \in sent[x].applied + 1 .. i - 1
        PROVE  j \in sent'[x].applied + 1 .. i - 1
    BY <1>2 DEF BoardOK
  <2>2. QED
    BY <1>1, <2>1 DEF EntriesFirst, HasEntries
<1>6. RefusedIsUpdate'
  BY <1>1, <1>2 DEF RefusedIsUpdate, Idle
<1>7. QED
  BY <1>3, <1>4, <1>5, <1>6

(* A restart keeps the invariant.                                          *)
LEMMA RestartInv ==
  ASSUME IInv, NEW d \in Devices, Restart(d)
  PROVE  IInv'
<1> USE DEF IInv
<1>1. /\ UNCHANGED <<db, cache, queue, sent, taps>>
      /\ shown' = [shown EXCEPT ![d] = EmptyBoard] /\ inputs' \in 0 .. MaxInputs
  BY InputType DEF Restart, store
<1>2. EmptyBoard \in [Events -> Counts] /\ shown \in [Devices -> [Events -> Counts]]
  BY DEF EmptyBoard, Counts, BoardOK
<1>3. BoardOK'
  BY <1>1, <1>2 DEF BoardOK
<1>4. CountsSound'
  <2>1. \A x \in Devices, e \in Events : shown'[x][e] = shown[x][e] \/ shown'[x][e] = NoDoc
    BY <1>1, <1>2 DEF EmptyBoard
  <2>2. QED
    BY <1>1, <2>1 DEF CountsSound, IsFair
<1>5. WritesSound' /\ EntriesFirst' /\ RefusedIsUpdate'
  BY <1>1 DEF WritesSound, EntriesFirst, RefusedIsUpdate
<1>6. QED
  BY <1>3, <1>4, <1>5

-----------------------------------------------------------------------------
(* One document: its cached version in docs, the queue q, the overlay o    *)
(* that is stored for it and v, what listeners were last told.             *)

(* Without an overlay nothing is queued but updates that are void.  An     *)
(* overlay holds up to the last write; under a queued set or delete it is  *)
(* what the queue makes of the document, else what its last write says.    *)
OverlayOK(docs, q, o, k) ==
  /\ o \in Overlays
  /\ o.op = "none" =>
       /\ o = NoOverlay
       /\ \A i \in 1 .. Len(q) : q[i].key = k => q[i].op = "update" /\ docs[k] = NoDoc
  /\ o.op # "none" =>
       /\ o.last \in 1 .. Len(q) /\ IsLastWrite(q, k, o.last)
       /\ o.op = "delete" => o.data = NoDoc
       /\ IsOverwritten(q, k) => o.op # "update" /\ o.data = View(docs, q)[k]
       /\ ~IsOverwritten(q, k) /\ o.data # NoDoc => o.data = q[o.last].data

Stale(docs, q, o, k) ==
  o.op # "none" /\ ~IsOverwritten(q, k) /\ (docs[k] = NoDoc) # (o.data = NoDoc)

(* Listeners were told the local document, or that there is none although  *)
(* a stale overlay still has one.                                          *)
ToldOK(docs, q, o, v, k) ==
  v = LocalDocument(docs[k], o) \/ (v = NoDoc /\ Stale(docs, q, o, k))

(* A document that is written has a last write.                            *)
LEMMA LastWriteExists ==
  ASSUME NEW M, NEW q \in Seq(M), NEW k, NEW i \in 1 .. Len(q), q[i].key = k
  PROVE  IsWritten(q, k)
<1>1. PICK n \in Nat : n = Len(q)
  BY LenProperties
<1> DEFINE T == {t \in 0 .. n - 1 : q[n - t].key = k}
<1>2. T \subseteq Nat
  OBVIOUS
<1>3. T # {}
  <2>1. n - i \in 0 .. n - 1 /\ n - (n - i) = i
    BY <1>1
  <2>2. n - i \in T
    BY <2>1
  <2>3. QED
    BY <2>2
<1>4. PICK t \in T : \A u \in T : t =< u
  BY <1>2, <1>3, LeastElement
<1>5. PICK l \in 1 .. n : l = n - t /\ q[l].key = k
  BY <1>4
<1>6. ASSUME NEW j \in l + 1 .. n PROVE q[j].key # k
  <2>1. n - j \in 0 .. n - 1 /\ n - (n - j) = j /\ n - j < t
    BY <1>4, <1>5
  <2>2. n - j \notin T
    <3>1. ~(t =< n - j)
      BY <1>2, <2>1
    <3>2. QED
      BY <1>4, <3>1
  <2>3. QED
    BY <2>1, <2>2
<1>7. IsLastWrite(q, k, l)
  BY <1>1, <1>5, <1>6 DEF IsLastWrite
<1>8. QED
  BY <1>1, <1>7 DEF IsWritten

(* An overwritten document is written.                                     *)
LEMMA OverwrittenIsWritten ==
  ASSUME NEW M, NEW q \in Seq(M), NEW k, IsOverwritten(q, k)
  PROVE  IsWritten(q, k) /\ \E i \in 1 .. Len(q) : q[i].key = k /\ q[i].op # "update"
<1>1. PICK i \in 1 .. Len(q) : IsLastOverwrite(q, k, i)
  BY DEF IsOverwritten
<1>2. q[i].key = k /\ q[i].op # "update"
  BY <1>1 DEF IsLastOverwrite
<1>3. QED
  BY <1>2, LastWriteExists

(* What the queue makes of an overwritten document does not depend on what *)
(* lies under it.                                                          *)
LEMMA ViewOfOverwritten ==
  ASSUME NEW docs, NEW docs2, NEW k \in DOMAIN docs \cap DOMAIN docs2,
         NEW M, NEW q \in Seq(M), IsOverwritten(q, k)
  PROVE  View(docs, q)[k] = View(docs2, q)[k]
<1>0. Len(q) \in Nat
  BY LenProperties
<1>1. PICK i \in 1 .. Len(q) : IsLastOverwrite(q, k, i)
  BY DEF IsOverwritten
<1>2. PICK j \in 1 .. Len(q) : IsLastWrite(q, k, j)
  BY OverwrittenIsWritten DEF IsWritten
<1>3. Base(docs, q, k) = q[i].data /\ Base(docs2, q, k) = q[i].data
  BY <1>0, <1>1, BaseOfOverwrite
<1>4. /\ View(docs, q)[k] = IF Base(docs, q, k) # NoDoc THEN q[j].data ELSE NoDoc
      /\ View(docs2, q)[k] = IF Base(docs2, q, k) # NoDoc THEN q[j].data ELSE NoDoc
  BY <1>0, <1>2, ViewOfWrite
<1>5. QED
  BY <1>3, <1>4

(* Without sets and deletes the updates count where there is a document.   *)
LEMMA ViewOfUpdates ==
  ASSUME NEW docs, NEW k \in DOMAIN docs, NEW M, NEW q \in Seq(M), ~IsOverwritten(q, k)
  PROVE  /\ docs[k] = NoDoc \/ ~IsWritten(q, k) => View(docs, q)[k] = docs[k]
         /\ \A i \in 1 .. Len(q) :
              IsLastWrite(q, k, i) /\ docs[k] # NoDoc => View(docs, q)[k] = q[i].data
<1>0. Len(q) \in Nat
  BY LenProperties
<1>1. Base(docs, q, k) = docs[k]
  BY DEF IsOverwritten, Base
<1>2. ASSUME NEW i \in 1 .. Len(q), IsLastWrite(q, k, i)
      PROVE  View(docs, q)[k] = IF docs[k] # NoDoc THEN q[i].data ELSE NoDoc
  BY <1>0, <1>1, <1>2, ViewOfWrite
<1>3. ~IsWritten(q, k) => View(docs, q)[k] = docs[k]
  BY <1>0, <1>1, ViewOfNone DEF IsWritten
<1>4. QED
  BY <1>2, <1>3 DEF IsWritten

(* The head leaves the queue: the writes behind it move up by one.         *)
LEMMA TailWrites ==
  ASSUME NEW M, NEW q \in Seq(M), q # << >>, NEW k
  PROVE  /\ Len(q) \in Nat \ {0} /\ Tail(q) \in Seq(M) /\ Len(Tail(q)) = Len(q) - 1
         /\ Head(q) = q[1] /\ (HasValues(q) => HasValues(Tail(q)))
         /\ \A i \in 1 .. Len(q) - 1 :
              /\ Tail(q)[i] = q[i + 1]
              /\ IsLastWrite(Tail(q), k, i) <=> IsLastWrite(q, k, i + 1)
              /\ IsLastOverwrite(Tail(q), k, i) <=> IsLastOverwrite(q, k, i + 1)
         /\ IsOverwritten(Tail(q), k) => IsOverwritten(q, k)
         /\ Head(q).key # k => (IsOverwritten(Tail(q), k) <=> IsOverwritten(q, k))
<1>1. PICK n \in Nat, t \in Seq(M) :
        /\ n = Len(q) /\ n > 0 /\ t = Tail(q) /\ Len(t) = n - 1 /\ Head(q) = q[1]
        /\ \A i \in 1 .. n - 1 : t[i] = q[i + 1]
  <2>1. Len(q) \in Nat /\ Len(q) # 0
    BY LenProperties, EmptySeq
  <2>2. Tail(q) \in Seq(M) /\ Len(Tail(q)) = Len(q) - 1
        /\ \A i \in 1 .. Len(Tail(q)) : Tail(q)[i] = q[i + 1]
    BY HeadTailProperties
  <2>3. Head(q) = q[1]
    BY HeadTailProperties
  <2>4. PICK n, t : n = Len(q) /\ t = Tail(q)
    OBVIOUS
  <2>5. n \in Nat /\ n > 0 /\ t \in Seq(M) /\ Len(t) = n - 1
    BY <2>1, <2>2, <2>4
  <2>6. \A i \in 1 .. n - 1 : t[i] = q[i + 1]
    BY <2>2, <2>4, <2>5
  <2>7. QED
    BY <2>3, <2>4, <2>5, <2>6
<1>2. ASSUME NEW i \in 1 .. n - 1
      PROVE  /\ IsLastWrite(t, k, i) <=> IsLastWrite(q, k, i + 1)
             /\ IsLastOverwrite(t, k, i) <=> IsLastOverwrite(q, k, i + 1)
  <2>1. ASSUME NEW j \in i + 1 .. n - 1 PROVE j + 1 \in (i + 1) + 1 .. n /\ t[j] = q[j + 1]
    BY <1>1
  <2>2. ASSUME NEW j \in (i + 1) + 1 .. n
        PROVE  j - 1 \in i + 1 .. n - 1 /\ t[j - 1] = q[j]
    <3>1. j - 1 \in 1 .. n - 1 /\ (j - 1) + 1 = j
      BY <1>1
    <3>2. QED
      BY <1>1, <3>1
  <2>3. t[i] = q[i + 1]
    BY <1>1
  <2>4. (\A j \in i + 1 .. n - 1 : t[j].key # k) <=> (\A j \in (i + 1) + 1 .. n : q[j].key # k)
    BY <2>1, <2>2, Zenon
  <2>5. (\A j \in i + 1 .. n - 1 : t[j].key = k => t[j].op = "update")
          <=> (\A j \in (i + 1) + 1 .. n : q[j].key = k => q[j].op = "update")
    <3>1. ASSUME \A j \in i + 1 .. n - 1 : t[j].key = k => t[j].op = "update",
                 NEW j \in (i + 1) + 1 .. n, q[j].key = k
          PROVE  q[j].op = "update"
      BY <2>2, <3>1
    <3>2. ASSUME \A j \in (i + 1) + 1 .. n : q[j].key = k => q[j].op = "update",
                 NEW j \in i + 1 .. n - 1, t[j].key = k
          PROVE  t[j].op = "update"
      BY <2>1, <3>2
    <3>3. QED
      BY <3>1, <3>2
  <2>6. n = Len(q) /\ n - 1 = Len(t)
    BY <1>1
  <2>7. QED
    BY <2>3, <2>4, <2>5, <2>6, Zenon DEF IsLastWrite, IsLastOverwrite
<1>3. IsOverwritten(t, k) => IsOverwritten(q, k)
  <2>1. ASSUME NEW i \in 1 .. n - 1, IsLastOverwrite(t, k, i) PROVE IsOverwritten(q, k)
    <3>1. i + 1 \in 1 .. n
      BY <1>1
    <3>2. QED
      BY <1>1, <1>2, <2>1, <3>1 DEF IsOverwritten
  <2>2. QED
    BY <1>1, <2>1 DEF IsOverwritten
<1>4. ASSUME q[1].key # k, IsOverwritten(q, k) PROVE IsOverwritten(t, k)
  <2>1. PICK i \in 1 .. n : IsLastOverwrite(q, k, i)
    BY <1>1, <1>4 DEF IsOverwritten
  <2>2. i # 1
    BY <1>4, <2>1 DEF IsLastOverwrite
  <2>3. i - 1 \in 1 .. n - 1 /\ (i - 1) + 1 = i
    BY <1>1, <2>2
  <2>4. IsLastOverwrite(t, k, i - 1)
    BY <1>2, <2>1, <2>3
  <2>5. QED
    BY <1>1, <2>3, <2>4 DEF IsOverwritten
<1>5. HasValues(q) => HasValues(t)
  BY <1>1 DEF HasValues
<1>6. QED
  BY <1>1, <1>2, <1>3, <1>4, <1>5

(* A write is appended to the queue.                                       *)
LEMMA AppendWrites ==
  ASSUME NEW docs \in [Events -> Counts], NEW q \in Seq(Mutations), HasValues(q),
         NEW m \in Mutations, NEW k \in Events
  PROVE  /\ Len(q) \in Nat /\ Append(q, m) \in Seq(Mutations)
         /\ Len(Append(q, m)) = Len(q) + 1 /\ Append(q, m)[Len(q) + 1] = m
         /\ \A i \in 1 .. Len(q) : Append(q, m)[i] = q[i]
         /\ m.key = k =>
              /\ IsLastWrite(Append(q, m), k, Len(q) + 1)
              /\ IsOverwritten(Append(q, m), k) <=> m.op # "update" \/ IsOverwritten(q, k)
              /\ View(docs, Append(q, m))[k] = Result(m, View(docs, q)[k])
         /\ m.key # k =>
              /\ \A i \in 1 .. Len(q) : IsLastWrite(q, k, i) => IsLastWrite(Append(q, m), k, i)
              /\ IsOverwritten(Append(q, m), k) <=> IsOverwritten(q, k)
              /\ View(docs, Append(q, m))[k] = View(docs, q)[k]
<1>0. PICK n \in Nat, p \in Seq(Mutations) : n = Len(q) /\ p = Append(q, m)
  BY LenProperties, AppendProperties
<1>1. /\ n = Len(q) /\ Len(p) = n + 1 /\ p[n + 1] = m
      /\ \A i \in 1 .. n : p[i] = q[i]
  <2>1. Len(q) \in Nat
    BY LenProperties
  <2>2. /\ Append(q, m) \in Seq(Mutations) /\ Len(Append(q, m)) = Len(q) + 1
        /\ Append(q, m)[Len(q) + 1] = m /\ \A i \in 1 .. Len(q) : Append(q, m)[i] = q[i]
    BY AppendProperties
  <2>3. QED
    BY <1>0, <2>1, <2>2
<1>2. View(docs, p)[k] = IF k = m.key THEN Result(m, View(docs, q)[k]) ELSE View(docs, q)[k]
  <2>1. View(docs, p) = Apply(m, View(docs, q))
    BY <1>0, ViewOfAppend
  <2>2. DOMAIN View(docs, q) = Events
    BY ViewType
  <2>3. QED
    BY <2>1, <2>2 DEF Apply
<1>3. ASSUME m.key # k
      PROVE  /\ \A i \in 1 .. n : IsLastWrite(q, k, i) => IsLastWrite(p, k, i)
             /\ IsOverwritten(p, k) <=> IsOverwritten(q, k)
  <2>1. \A i \in 1 .. n : IsLastWrite(q, k, i) => IsLastWrite(p, k, i)
    BY <1>1, <1>3 DEF IsLastWrite
  <2>2. /\ \A i \in 1 .. n : IsLastOverwrite(p, k, i) <=> IsLastOverwrite(q, k, i)
        /\ ~IsLastOverwrite(p, k, n + 1)
    BY <1>1, <1>3 DEF IsLastOverwrite
  <2>3. \A i \in 1 .. n + 1 : i \in 1 .. n \/ i = n + 1
    OBVIOUS
  <2>4. 1 .. n \subseteq 1 .. n + 1
    OBVIOUS
  <2>5. QED
    BY <1>1, <2>1, <2>2, <2>3, <2>4 DEF IsOverwritten
<1>4. ASSUME m.key = k
      PROVE  /\ IsLastWrite(p, k, n + 1)
             /\ IsOverwritten(p, k) <=> m.op # "update" \/ IsOverwritten(q, k)
  <2>1. IsLastWrite(p, k, n + 1)
    BY <1>1, <1>4 DEF IsLastWrite
  <2>2. ASSUME m.op # "update" PROVE IsOverwritten(p, k)
    <3>1. IsLastOverwrite(p, k, n + 1) /\ n + 1 \in 1 .. Len(p)
      BY <1>1, <1>4, <2>2 DEF IsLastOverwrite
    <3>2. QED
      BY <3>1 DEF IsOverwritten
  <2>3. ASSUME m.op = "update" PROVE IsOverwritten(p, k) <=> IsOverwritten(q, k)
    <3>1. /\ \A i \in 1 .. n : IsLastOverwrite(p, k, i) <=> IsLastOverwrite(q, k, i)
          /\ ~IsLastOverwrite(p, k, n + 1)
      BY <1>1, <2>3 DEF IsLastOverwrite
    <3>2. \A i \in 1 .. n + 1 : i \in 1 .. n \/ i = n + 1
      OBVIOUS
    <3>3. 1 .. n \subseteq 1 .. n + 1
      OBVIOUS
    <3>4. QED
      BY <1>1, <3>1, <3>2, <3>3 DEF IsOverwritten
  <2>4. QED
    BY <2>1, <2>2, <2>3
<1>5. QED
  BY <1>0, <1>1, <1>2, <1>3, <1>4

(* The overlay of a written document (ApplyToLocalDocumentSet).            *)
LEMMA OverlayOfWrite ==
  ASSUME NEW docs \in [Events -> Counts], NEW q \in Seq(Mutations), HasValues(q),
         NEW k \in Events, NEW o, OverlayOK(docs, q, o, k),
         NEW m \in Mutations, m.key = k, m.op = "delete" => m.data = NoDoc,
         NEW p, p = Append(q, m), NEW n, n = Len(q)
  PROVE  OverlayOK(docs, p, Written(docs[k], o, m, n + 1), k)
<1>1. /\ n \in Nat /\ p \in Seq(Mutations) /\ Len(p) = n + 1 /\ p[n + 1] = m
      /\ \A i \in 1 .. n : p[i] = q[i]
      /\ IsLastWrite(p, k, n + 1)
      /\ IsOverwritten(p, k) <=> m.op # "update" \/ IsOverwritten(q, k)
      /\ View(docs, p)[k] = Result(m, View(docs, q)[k])
  BY AppendWrites
<1>2. PICK l, v, r : /\ l = LocalDocument(docs[k], o) /\ v = View(docs, q)[k]
                     /\ r = Written(docs[k], o, m, n + 1)
  OBVIOUS
<1>3. /\ m.op \in {"set", "update", "delete"} /\ m.data \in Counts
      /\ o.op \in {"none", "set", "update", "delete"} /\ o \in Overlays
  BY DEF OverlayOK, Overlays, Mutations
<1>4. IsOverwritten(q, k) => /\ o.op \in {"set", "delete"} /\ o.data = v
                             /\ l = v
  BY <1>2, <1>3, OverwrittenIsWritten DEF OverlayOK, LocalDocument
<1>5. CASE m.op = "update" => l # NoDoc
  <2>1. r = [op |-> IF m.op = "update" /\ o.op = "set" THEN "set" ELSE m.op,
             data |-> m.data, last |-> n + 1]
    BY <1>2, <1>5 DEF Written, IsValidFor
  <2>2. /\ r \in Overlays /\ r.op # "none" /\ r.last = n + 1 /\ r.data = m.data
        /\ r.op = "delete" => m.op = "delete"
    BY <1>3, <2>1 DEF Overlays
  <2>3. ASSUME IsOverwritten(p, k) PROVE r.op # "update" /\ r.data = View(docs, p)[k]
    <3>1. CASE m.op # "update"
      BY <1>1, <2>1, <3>1 DEF Result, IsValidFor
    <3>2. CASE m.op = "update"
      <4>1. IsOverwritten(q, k) /\ v # NoDoc /\ o.op = "set"
        BY <1>1, <1>4, <1>5, <2>3, <3>2 DEF OverlayOK
      <4>2. QED
        BY <1>1, <1>2, <2>1, <3>2, <4>1 DEF Result, IsValidFor
    <3>3. QED
      BY <3>1, <3>2
  <2>4. r.last \in 1 .. Len(p) /\ p[r.last] = m /\ IsLastWrite(p, k, r.last)
    <3>1. n + 1 \in 1 .. Len(p) /\ r.last = n + 1
      BY <1>1, <2>2
    <3>2. p[n + 1] = m /\ IsLastWrite(p, k, n + 1)
      BY <1>1
    <3>3. QED
      BY <3>1, <3>2, Zenon
  <2>5. OverlayOK(docs, p, r, k)
    BY <2>2, <2>3, <2>4 DEF OverlayOK
  <2>6. QED
    BY <1>2, <2>5
<1>6. CASE m.op = "update" /\ l = NoDoc
  <2>1. r = IF o.op = "none" THEN NoOverlay ELSE [o EXCEPT !.last = n + 1]
    BY <1>2, <1>6 DEF Written, IsValidFor
  <2>2. CASE o.op = "none"
    <3>1. r = NoOverlay /\ r = o /\ docs[k] = NoDoc
      BY <1>2, <1>6, <2>1, <2>2 DEF OverlayOK, LocalDocument
    <3>2. ASSUME NEW i \in 1 .. n + 1, p[i].key = k PROVE p[i].op = "update"
      <4>1. CASE i = n + 1
        BY <1>1, <1>6, <4>1
      <4>2. CASE i \in 1 .. n
        BY <1>1, <2>2, <3>2, <4>2 DEF OverlayOK
      <4>3. QED
        BY <4>1, <4>2
    <3>3. QED
      BY <1>1, <1>2, <1>3, <2>2, <3>1, <3>2 DEF OverlayOK
  <2>3. CASE o.op # "none"
    <3>1. r \in Overlays /\ r.op = o.op /\ r.data = o.data /\ r.last = n + 1 /\ o.data = NoDoc
      BY <1>2, <1>3, <1>6, <2>1, <2>3 DEF Overlays, LocalDocument
    <3>2. IsOverwritten(p, k) => r.op # "update" /\ r.data = View(docs, p)[k]
      BY <1>1, <1>2, <1>4, <1>6, <3>1 DEF Result, IsValidFor
    <3>3. n + 1 \in 1 .. Len(p)
      BY <1>1
    <3>4. QED
      BY <1>1, <1>2, <2>3, <3>1, <3>2, <3>3 DEF OverlayOK
  <2>4. QED
    BY <2>2, <2>3
<1>7. QED
  BY <1>1, <1>2, <1>5, <1>6

(* The other documents keep their overlays.                                *)
LEMMA OverlayOfOther ==
  ASSUME NEW docs \in [Events -> Counts], NEW q \in Seq(Mutations), HasValues(q),
         NEW k \in Events, NEW o, OverlayOK(docs, q, o, k),
         NEW m \in Mutations, m.key # k, NEW p, p = Append(q, m)
  PROVE  /\ OverlayOK(docs, p, o, k)
         /\ IsOverwritten(p, k) <=> IsOverwritten(q, k)
<1>0. PICK n : n = Len(q)
  OBVIOUS
<1>1. /\ n \in Nat /\ p \in Seq(Mutations) /\ Len(p) = n + 1 /\ p[n + 1] = m
      /\ \A i \in 1 .. n : p[i] = q[i]
      /\ \A i \in 1 .. n : IsLastWrite(q, k, i) => IsLastWrite(p, k, i)
      /\ IsOverwritten(p, k) <=> IsOverwritten(q, k)
      /\ View(docs, p)[k] = View(docs, q)[k]
  BY <1>0, AppendWrites
<1>2. CASE o.op = "none"
  <2>1. ASSUME NEW i \in 1 .. n + 1, p[i].key = k PROVE p[i].op = "update" /\ docs[k] = NoDoc
    <3>1. i \in 1 .. n
      BY <1>1, <2>1
    <3>2. QED
      BY <1>1, <1>2, <2>1, <3>1 DEF OverlayOK
  <2>2. QED
    BY <1>1, <1>2, <2>1 DEF OverlayOK
<1>3. CASE o.op # "none"
  <2>1. o.last \in 1 .. n /\ o.last \in 1 .. n + 1
    BY <1>1, <1>3 DEF OverlayOK
  <2>2. p[o.last] = q[o.last] /\ IsLastWrite(p, k, o.last)
    BY <1>1, <1>3, <2>1 DEF OverlayOK
  <2>3. QED
    BY <1>1, <1>3, <2>1, <2>2 DEF OverlayOK
<1>4. QED
  BY <1>1, <1>2, <1>3

(* The oldest batch is answered: overlays move up with the queue, whether  *)
(* its write went into the cache or a snapshot had been there before.      *)
LEMMA OverlayOfTail ==
  ASSUME NEW docs \in [Events -> Counts], NEW q \in Seq(Mutations), HasValues(q), q # << >>,
         NEW k \in Events, NEW o, OverlayOK(docs, q, o, k),
         NEW docs2 \in [Events -> Counts],
         docs2[k] = docs[k] \/ docs2[k] = Apply(Head(q), docs)[k]
  PROVE  OverlayOK(docs2, Tail(q), HeadRemoved(o), k)
<1>0. PICK n \in Nat, t \in Seq(Mutations), m \in Mutations :
        n = Len(q) /\ t = Tail(q) /\ m = Head(q)
  BY LenProperties, HeadTailProperties
<1>1. PICK r : n = Len(q) /\ t = Tail(q) /\ m = Head(q) /\ r = HeadRemoved(o)
  BY <1>0
<1>2. /\ n > 0 /\ Len(t) = n - 1 /\ m = q[1]
      /\ \A i \in 1 .. n - 1 : t[i] = q[i + 1]
      /\ \A i \in 1 .. n - 1 : IsLastWrite(t, k, i) <=> IsLastWrite(q, k, i + 1)
      /\ IsOverwritten(t, k) => IsOverwritten(q, k)
      /\ m.key # k => (IsOverwritten(t, k) <=> IsOverwritten(q, k))
  BY <1>1, TailWrites
<1>3. IsOverwritten(t, k) => View(docs2, t)[k] = View(docs, q)[k]
  <2>1. ASSUME IsOverwritten(t, k) PROVE View(docs2, t)[k] = View(docs, q)[k]
    <3>1. PICK moved : moved = Apply(m, docs)
      OBVIOUS
    <3>2. DOMAIN moved = Events
      BY <3>1 DEF Apply
    <3>3. k \in DOMAIN docs2 \cap DOMAIN moved
      BY <3>2
    <3>4. View(docs2, t)[k] = View(moved, t)[k]
      BY <2>1, <3>3, ViewOfOverwritten
    <3>5. View(moved, t) = View(docs, q)
      BY <1>1, <3>1, ViewOfTail
    <3>6. QED
      BY <3>4, <3>5
  <2>2. QED
    BY <2>1
<1>4. CASE o.op = "none"
  <2>1. o = NoOverlay /\ o \in Overlays
    BY <1>4 DEF OverlayOK
  <2>2. r = NoOverlay
    BY <1>1, <2>1 DEF HeadRemoved, NoOverlay
  <2>3. ASSUME NEW i \in 1 .. n - 1, t[i].key = k
        PROVE  t[i].op = "update" /\ docs2[k] = NoDoc
    <3>1. i + 1 \in 1 .. n /\ q[i + 1].key = k
      BY <1>2, <2>3
    <3>2. q[i + 1].op = "update" /\ docs[k] = NoDoc
      BY <1>1, <1>4, <3>1 DEF OverlayOK
    <3>3. docs2[k] = NoDoc
      <4>1. CASE docs2[k] = docs[k]
        BY <3>2, <4>1
      <4>2. CASE docs2[k] = Apply(m, docs)[k] /\ m.key = k
        <5>1. 1 \in 1 .. n /\ q[1].key = k
          BY <1>2, <4>2
        <5>2. m.op = "update"
          BY <1>1, <1>2, <1>4, <5>1 DEF OverlayOK
        <5>3. QED
          BY <3>2, <4>2, <5>2 DEF Apply, Result, IsValidFor
      <4>3. CASE docs2[k] = Apply(m, docs)[k] /\ m.key # k
        BY <3>2, <4>3 DEF Apply
      <4>4. QED
        BY <1>1, <4>1, <4>2, <4>3
    <3>4. QED
      BY <1>2, <3>2, <3>3
  <2>4. OverlayOK(docs2, t, r, k)
    BY <1>2, <2>1, <2>2, <2>3 DEF OverlayOK, NoOverlay
  <2>5. QED
    BY <1>1, <2>4
<1>5. CASE o.op # "none" /\ o.last = 1
  <2>1. /\ o \in Overlays /\ IsLastWrite(q, k, 1) /\ r = NoOverlay
    BY <1>1, <1>5 DEF OverlayOK, HeadRemoved
  <2>2. ASSUME NEW i \in 1 .. n - 1 PROVE t[i].key # k
    <3>1. i + 1 \in 1 + 1 .. n
      BY <1>2
    <3>2. q[i + 1].key # k
      BY <1>1, <2>1, <3>1 DEF IsLastWrite
    <3>3. QED
      BY <1>2, <3>2
  <2>3. NoOverlay \in Overlays /\ NoOverlay.op = "none"
    BY DEF Overlays, NoOverlay, Counts
  <2>4. OverlayOK(docs2, t, r, k)
    BY <1>2, <2>1, <2>2, <2>3 DEF OverlayOK
  <2>5. QED
    BY <1>1, <2>4
<1>6. CASE o.op # "none" /\ o.last # 1
  <2>1. PICK l \in 1 .. n - 1 : o.last = l + 1
    <3>1. o.last \in 1 .. n
      BY <1>1, <1>6 DEF OverlayOK
    <3>2. o.last - 1 \in 1 .. n - 1 /\ o.last = (o.last - 1) + 1
      BY <1>6, <3>1
    <3>3. QED
      BY <3>2
  <2>2. /\ o \in Overlays /\ IsLastWrite(q, k, l + 1)
        /\ o.op = "delete" => o.data = NoDoc
        /\ IsOverwritten(q, k) => o.op # "update" /\ o.data = View(docs, q)[k]
        /\ ~IsOverwritten(q, k) /\ o.data # NoDoc => o.data = q[l + 1].data
    BY <1>6, <2>1 DEF OverlayOK
  <2>3. /\ r \in Overlays /\ r.op = o.op /\ r.data = o.data /\ r.last = l
    BY <1>1, <2>1, <2>2 DEF HeadRemoved, Overlays
  <2>4. l \in 1 .. Len(t) /\ IsLastWrite(t, k, l) /\ t[l] = q[l + 1]
    BY <1>2, <2>2
  <2>5. IsOverwritten(t, k) => r.op # "update" /\ r.data = View(docs2, t)[k]
    BY <1>2, <1>3, <2>2, <2>3
  <2>6. ASSUME r.data # NoDoc PROVE r.data = t[l].data
    <3>1. CASE ~IsOverwritten(q, k)
      BY <2>2, <2>3, <2>4, <2>6, <3>1
    <3>2. CASE IsOverwritten(q, k)
      <4>1. l + 1 \in 1 .. Len(q) /\ Len(q) \in Nat /\ k \in DOMAIN docs
        BY <1>1
      <4>2. View(docs, q)[k] = IF Base(docs, q, k) # NoDoc THEN q[l + 1].data ELSE NoDoc
        BY <2>2, <4>1, ViewOfWrite
      <4>3. QED
        BY <2>2, <2>3, <2>4, <2>6, <3>2, <4>2
    <3>3. QED
      BY <3>1, <3>2
  <2>7. OverlayOK(docs2, t, r, k)
    BY <1>6, <2>2, <2>3, <2>4, <2>5, <2>6 DEF OverlayOK
  <2>8. QED
    BY <1>1, <2>7
<1>7. QED
  BY <1>4, <1>5, <1>6

(* Recalculated against the documents docs, whatever it was computed from. *)
LEMMA OverlayRecalculated ==
  ASSUME NEW docs \in [Events -> Counts], NEW q \in Seq(Mutations), HasValues(q),
         NEW k \in Events, NEW o, NEW before, OverlayOK(before, q, o, k)
  PROVE  OverlayOK(docs, q, Recalculated(docs, q, k, o), k)
<1>0. PICK n \in Nat, v \in Counts : n = Len(q) /\ v = View(docs, q)[k]
  BY LenProperties, ViewType
<1>1. PICK r : n = Len(q) /\ v = View(docs, q)[k] /\ r = Recalculated(docs, q, k, o)
  BY <1>0
<1>2. IsOverwritten(q, k) => IsWritten(q, k)
  BY OverwrittenIsWritten
<1>3. CASE IsOverwritten(q, k) \/ (IsWritten(q, k) /\ docs[k] # NoDoc)
  <2>1. PICK l \in 1 .. n : IsLastWrite(q, k, l)
    BY <1>1, <1>2, <1>3 DEF IsWritten
  <2>2. \A j \in 1 .. n : IsLastWrite(q, k, j) => j = l
    BY <1>1, <2>1 DEF IsLastWrite
  <2>3. (CHOOSE i \in 1 .. Len(q) : IsLastWrite(q, k, i)) = l
    BY <1>1, <2>1, <2>2
  <2>4. r = [op   |-> IF ~IsOverwritten(q, k) THEN "update"
                      ELSE IF v = NoDoc THEN "delete" ELSE "set",
             data |-> v, last |-> l]
    BY <1>1, <1>3, <2>3 DEF Recalculated
  <2>5. /\ r \in Overlays /\ r.op # "none" /\ r.last = l /\ r.data = v
        /\ r.op = "delete" => r.data = NoDoc
        /\ IsOverwritten(q, k) => r.op # "update"
    BY <2>4 DEF Overlays
  <2>6. ~IsOverwritten(q, k) => v = q[l].data
    BY <1>1, <1>3, <2>1, ViewOfUpdates
  <2>7. OverlayOK(docs, q, r, k)
    BY <1>1, <2>1, <2>5, <2>6 DEF OverlayOK
  <2>8. QED
    BY <1>1, <2>7
<1>4. CASE ~IsOverwritten(q, k) /\ (~IsWritten(q, k) \/ docs[k] = NoDoc)
  <2>1. r = o
    BY <1>1, <1>4 DEF Recalculated
  <2>2. ASSUME NEW i \in 1 .. Len(q), q[i].key = k PROVE docs[k] = NoDoc
    BY <1>4, <2>2, LastWriteExists
  <2>3. OverlayOK(docs, q, o, k)
    BY <1>4, <2>2 DEF OverlayOK
  <2>4. QED
    BY <1>1, <2>1, <2>3
<1>5. QED
  BY <1>3, <1>4

(* What a snapshot does not recalculate, it does not concern.              *)
LEMMA OverlayNotRecalculated ==
  ASSUME NEW docs \in [Events -> Counts], NEW q \in Seq(Mutations),
         NEW k \in Events, NEW o, OverlayOK(docs, q, o, k),
         NEW docs2 \in [Events -> Counts],
         o.op \in {"none", "update"} => (docs2[k] = NoDoc <=> docs[k] = NoDoc)
  PROVE  OverlayOK(docs2, q, o, k)
<1>1. k \in DOMAIN docs \cap DOMAIN docs2
  OBVIOUS
<1>2. IsOverwritten(q, k) => View(docs2, q)[k] = View(docs, q)[k]
  BY <1>1, ViewOfOverwritten
<1>3. QED
  BY <1>2 DEF OverlayOK

(* What an overlay shows is what the queue makes of the document, unless   *)
(* the overlay is stale.                                                   *)
LEMMA OverlayShowsView ==
  ASSUME NEW docs \in [Events -> Counts], NEW q \in Seq(Mutations),
         NEW k \in Events, NEW o, OverlayOK(docs, q, o, k), ~Stale(docs, q, o, k)
  PROVE  LocalDocument(docs[k], o) = View(docs, q)[k]
<1>1. k \in DOMAIN docs
  OBVIOUS
<1>2. CASE o.op = "none"
  <2>1. ~IsOverwritten(q, k)
    BY <1>2, OverwrittenIsWritten DEF OverlayOK
  <2>2. IsWritten(q, k) => docs[k] = NoDoc
    BY <1>2 DEF OverlayOK, IsWritten, IsLastWrite
  <2>3. View(docs, q)[k] = docs[k]
    BY <1>1, <2>1, <2>2, ViewOfUpdates
  <2>4. QED
    BY <1>2, <2>3 DEF LocalDocument
<1>3. CASE o.op # "none" /\ IsOverwritten(q, k)
  BY <1>3 DEF OverlayOK, LocalDocument
<1>4. CASE o.op # "none" /\ ~IsOverwritten(q, k)
  <2>1. docs[k] = NoDoc <=> o.data = NoDoc
    BY <1>4 DEF Stale
  <2>2. o.last \in 1 .. Len(q) /\ IsLastWrite(q, k, o.last)
        /\ (o.data # NoDoc => o.data = q[o.last].data)
    BY <1>4 DEF OverlayOK
  <2>3. CASE docs[k] = NoDoc
    BY <1>1, <1>4, <2>1, <2>3, ViewOfUpdates DEF LocalDocument
  <2>4. CASE docs[k] # NoDoc
    <3>1. View(docs, q)[k] = q[o.last].data
      BY <1>1, <1>4, <2>2, <2>4, ViewOfUpdates
    <3>2. QED
      BY <1>4, <2>1, <2>2, <2>4, <3>1 DEF LocalDocument
  <2>5. QED
    BY <2>3, <2>4
<1>5. QED
  BY <1>2, <1>3, <1>4

(* The answer to a write leaves what its document shows, unless the        *)
(* overlay was stale.                                                      *)
LEMMA AnswerKeepsShown ==
  ASSUME NEW docs \in [Events -> Counts], NEW q \in Seq(Mutations), HasValues(q), q # << >>,
         NEW k \in Events, NEW o, OverlayOK(docs, q, o, k), ~Stale(docs, q, o, k),
         NEW docs2 \in [Events -> Counts], docs2 = Apply(Head(q), docs)
  PROVE  LocalDocument(docs2[k], HeadRemoved(o)) = LocalDocument(docs[k], o)
<1>1. LocalDocument(docs[k], o) = View(docs, q)[k]
  BY OverlayShowsView
<1>0. PICK t \in Seq(Mutations) : t = Tail(q)
  BY HeadTailProperties
<1>2. PICK r : t = Tail(q) /\ r = HeadRemoved(o)
  BY <1>0
<1>3. OverlayOK(docs2, t, r, k)
  BY <1>2, OverlayOfTail
<1>4. View(docs2, t) = View(docs, q)
  BY <1>2, ViewOfTail
<1>5. CASE r.op = "none"
  <2>1. ~Stale(docs2, t, r, k)
    BY <1>5 DEF Stale
  <2>2. LocalDocument(docs2[k], r) = View(docs2, t)[k]
    BY <1>3, <2>1, OverlayShowsView
  <2>3. QED
    BY <1>1, <1>2, <1>4, <2>2
<1>6. CASE r.op # "none"
  <2>1. o \in Overlays /\ ~(o.last =< 1)
    BY <1>2, <1>6 DEF HeadRemoved, NoOverlay, OverlayOK
  <2>2. r.op = o.op /\ r.data = o.data
    BY <1>2, <2>1 DEF HeadRemoved, Overlays
  <2>3. QED
    BY <1>2, <1>6, <2>2 DEF LocalDocument
<1>7. QED
  BY <1>5, <1>6

(* To the listeners of the other documents the answer is nothing.          *)
LEMMA AnswerOfOther ==
  ASSUME NEW docs \in [Events -> Counts], NEW q \in Seq(Mutations), q # << >>,
         NEW k \in Events, Head(q).key # k, NEW o, OverlayOK(docs, q, o, k),
         NEW v, ToldOK(docs, q, o, v, k),
         NEW docs2 \in [Events -> Counts], docs2[k] = docs[k]
  PROVE  ToldOK(docs2, Tail(q), HeadRemoved(o), v, k)
<1>1. PICK t, r : t = Tail(q) /\ r = HeadRemoved(o)
  OBVIOUS
<1>2. IsOverwritten(t, k) <=> IsOverwritten(q, k)
  BY <1>1, TailWrites
<1>3. r.op = o.op /\ (o.op # "none" => r.data = o.data)
  <2>1. CASE o.op = "none"
    BY <1>1, <2>1 DEF HeadRemoved, NoOverlay, OverlayOK
  <2>2. CASE o.op # "none"
    <3>1. Head(q) = q[1]
      BY HeadTailProperties
    <3>2. o \in Overlays /\ o.last \in 1 .. Len(q) /\ o.last # 1
      BY <2>2, <3>1 DEF OverlayOK, IsLastWrite
    <3>3. Len(q) \in Nat
      BY LenProperties
    <3>4. ~(o.last =< 1)
      BY <3>2, <3>3
    <3>5. QED
      BY <1>1, <3>2, <3>4 DEF HeadRemoved, Overlays
  <2>3. QED
    BY <2>1, <2>2
<1>4. QED
  BY <1>1, <1>2, <1>3 DEF ToldOK, Stale, LocalDocument

-----------------------------------------------------------------------------
(* The second invariant: overlays and listeners of every device.           *)

DInv ==
  /\ overlay \in [Devices -> [Events -> Overlays]]
  /\ view \in [Devices -> [Events -> Counts]]
  /\ \A d \in Devices, e \in Events :
       /\ OverlayOK(cache[d], queue[d], overlay[d][e], e)
       /\ ToldOK(cache[d], queue[d], overlay[d][e], view[d][e], e)

(* Every queued update has a value, so that the lemmas about View apply.   *)
LEMMA QueuesHaveValues ==
  ASSUME IInv, NEW d \in Devices
  PROVE  /\ cache[d] \in [Events -> Counts]
         /\ queue[d] \in Seq(Mutations) /\ HasValues(queue[d])
  BY DEF IInv, BoardOK, WritesSound, IsSound, HasValues

(* It holds of empty queues.                                               *)
LEMMA InitDocuments == Init => DInv
<1> SUFFICES ASSUME Init PROVE DInv
  OBVIOUS
<1>1. DOMAIN EmptyBoard = Events /\ EmptyBoard \in [Events -> Counts]
  BY DEF EmptyBoard, Counts
<1>2. /\ cache = [d \in Devices |-> EmptyBoard] /\ queue = [d \in Devices |-> << >>]
      /\ overlay = [d \in Devices |-> [e \in Events |-> NoOverlay]]
      /\ view = [d \in Devices |-> EmptyBoard]
  BY <1>1 DEF Init, DocumentsInit, ClientInit
<1>3. NoOverlay \in Overlays /\ NoOverlay.op = "none" /\ Len(<< >>) = 0
  BY EmptySeq DEF NoOverlay, Overlays, Counts
<1>4. ASSUME NEW d \in Devices, NEW e \in Events
      PROVE  /\ OverlayOK(cache[d], queue[d], overlay[d][e], e)
             /\ ToldOK(cache[d], queue[d], overlay[d][e], view[d][e], e)
  <2>1. overlay[d][e] = NoOverlay /\ queue[d] = << >> /\ view[d][e] = cache[d][e]
    BY <1>2
  <2>2. QED
    BY <1>3, <2>1 DEF OverlayOK, ToldOK, LocalDocument
<1>5. QED
  BY <1>1, <1>2, <1>3, <1>4 DEF DInv

(* A step that concerns the documents of one device.                       *)
LEMMA DocumentsStep ==
  ASSUME DInv, NEW d \in Devices, cache'[d] \in [Events -> Counts],
         \A x \in Devices : x # d => cache'[x] = cache[x] /\ queue'[x] = queue[x],
         NEW os, overlay' = [overlay EXCEPT ![d] = os], os = [e \in Events |-> os[e]],
         NEW vs, view' = [view EXCEPT ![d] = vs], vs = [e \in Events |-> vs[e]],
         \A e \in Events : /\ OverlayOK(cache'[d], queue'[d], os[e], e)
                           /\ ToldOK(cache'[d], queue'[d], os[e], vs[e], e)
  PROVE  DInv'
<1>1. /\ overlay \in [Devices -> [Events -> Overlays]] /\ view \in [Devices -> [Events -> Counts]]
  BY DEF DInv
<1>2. ASSUME NEW e \in Events PROVE os[e] \in Overlays /\ vs[e] \in Counts
  <2>1. os[e] \in Overlays
    BY DEF OverlayOK
  <2>2. vs[e] \in Counts
    BY <2>1 DEF ToldOK, LocalDocument, Overlays, Counts
  <2>3. QED
    BY <2>1, <2>2
<1>3. os \in [Events -> Overlays] /\ vs \in [Events -> Counts]
  BY <1>2
<1>4. /\ overlay' \in [Devices -> [Events -> Overlays]]
      /\ view' \in [Devices -> [Events -> Counts]]
  BY <1>1, <1>3
<1>5. ASSUME NEW x \in Devices, NEW e \in Events
      PROVE  /\ OverlayOK(cache'[x], queue'[x], overlay'[x][e], e)
             /\ ToldOK(cache'[x], queue'[x], overlay'[x][e], view'[x][e], e)
  <2>1. CASE x = d
    BY <1>1, <2>1
  <2>2. CASE x # d
    <3>1. /\ cache'[x] = cache[x] /\ queue'[x] = queue[x]
          /\ overlay'[x] = overlay[x] /\ view'[x] = view[x]
      BY <1>1, <2>2
    <3>2. QED
      BY <3>1 DEF DInv
  <2>3. QED
    BY <2>1, <2>2
<1>6. QED
  BY <1>4, <1>5 DEF DInv

(* One more write in the queue of d: the overlays of the written documents *)
(* follow it.  Two writes of one handler concern different documents, the  *)
(* first of them no event.                                                 *)
LEMMA SavedOverlays ==
  ASSUME IInv, DInv, NEW d \in Devices, NEW ws, SaveWrites(d, ws),
         NEW m \in Mutations, m.op = "update" \/ m.op = "delete" => m.key \in Events,
         m.op = "delete" => m.data = NoDoc,
         \/ ws = <<m>>
         \/ \E a \in Mutations : a.key \in Entries /\ a.op = "set" /\ m.key \in Events /\ ws = <<a, m>>,
         NEW e \in Events
  PROVE  /\ OverlayOK(cache'[d], queue'[d], overlay'[d][e], e)
         /\ e \notin KeysOf(ws) =>
              /\ overlay'[d][e] = overlay[d][e]
              /\ IsOverwritten(queue'[d], e) <=> IsOverwritten(queue[d], e)
<1>1. PICK docs, q, o : docs = cache[d] /\ q = queue[d] /\ o = overlay[d][e]
  OBVIOUS
<1>2. /\ docs \in [Events -> Counts] /\ q \in Seq(Mutations) /\ HasValues(q)
      /\ OverlayOK(docs, q, o, e) /\ Len(q) \in Nat
  BY <1>1, QueuesHaveValues, LenProperties DEF DInv
<1>3. cache' = cache /\ queue'[d] = q \o ws
  BY <1>1 DEF SaveWrites, WriteLocally, IInv, BoardOK
<1>4. overlay'[d][e] =
        IF e \in KeysOf(ws)
        THEN LET i == CHOOSE i \in 1 .. Len(ws) : ws[i].key = e
             IN Written(docs[e], o, ws[i], Len(q) + i)
        ELSE o
  BY <1>1 DEF SaveWrites, DInv
<1>5. CASE ws = <<m>>
  <2>1. Len(ws) = 1 /\ ws[1] = m
    BY <1>5
  <2>2. KeysOf(ws) = {m.key}
    BY <2>1 DEF KeysOf
  <2>3. queue'[d] = Append(q, m)
    BY <1>2, <1>3, <1>5, AppendIsConcat
  <2>4. CASE m.key = e
    <3>1. (CHOOSE i \in 1 .. Len(ws) : ws[i].key = e) = 1
      BY <2>1, <2>4
    <3>2. overlay'[d][e] = Written(docs[e], o, m, Len(q) + 1)
      BY <1>4, <2>1, <2>2, <2>4, <3>1
    <3>3. PICK p, n : p = Append(q, m) /\ n = Len(q)
      OBVIOUS
    <3>4. OverlayOK(docs, p, Written(docs[e], o, m, n + 1), e)
      BY <1>2, <2>4, <3>3, OverlayOfWrite
    <3>5. QED
      BY <1>1, <1>3, <2>2, <2>3, <2>4, <3>2, <3>3, <3>4
  <2>5. CASE m.key # e
    <3>1. PICK p : p = Append(q, m)
      OBVIOUS
    <3>2. OverlayOK(docs, p, o, e) /\ (IsOverwritten(p, e) <=> IsOverwritten(q, e))
      BY <1>2, <2>5, <3>1, OverlayOfOther
    <3>3. overlay'[d][e] = o
      BY <1>4, <2>2, <2>5
    <3>4. QED
      BY <1>1, <1>3, <2>3, <3>1, <3>2, <3>3
  <2>6. QED
    BY <2>4, <2>5
<1>6. ASSUME NEW a \in Mutations, a.key \in Entries, a.op = "set", m.key \in Events, ws = <<a, m>>
      PROVE  /\ OverlayOK(cache'[d], queue'[d], overlay'[d][e], e)
             /\ e \notin KeysOf(ws) =>
                  /\ overlay'[d][e] = overlay[d][e]
                  /\ IsOverwritten(queue'[d], e) <=> IsOverwritten(queue[d], e)
  <2>1. Len(ws) = 2 /\ ws[1] = a /\ ws[2] = m /\ a.key # e
    BY <1>6, BoardAssumption
  <2>2. KeysOf(ws) = {a.key, m.key}
    BY <2>1 DEF KeysOf
  <2>3. PICK p : p = Append(q, a)
    OBVIOUS
  <2>4. /\ p \in Seq(Mutations) /\ HasValues(p) /\ Len(p) = Len(q) + 1 /\ p[Len(q) + 1] = a
        /\ \A i \in 1 .. Len(q) : p[i] = q[i]
    <3>1. /\ p \in Seq(Mutations) /\ Len(p) = Len(q) + 1 /\ p[Len(q) + 1] = a
          /\ \A i \in 1 .. Len(q) : p[i] = q[i]
      BY <1>2, <2>3, AppendProperties
    <3>2. HasValues(p)
      BY <1>2, <1>6, <3>1 DEF HasValues
    <3>3. QED
      BY <3>1, <3>2
  <2>5. OverlayOK(docs, p, o, e) /\ (IsOverwritten(p, e) <=> IsOverwritten(q, e))
    BY <1>2, <2>1, <2>3, OverlayOfOther
  <2>6. queue'[d] = Append(p, m)
    <3>1. q \o <<a, m>> = Append(Append(q, a), m)
      BY <1>2
    <3>2. QED
      BY <1>3, <1>6, <2>3, <3>1
  <2>7. CASE m.key = e
    <3>1. (CHOOSE i \in 1 .. Len(ws) : ws[i].key = e) = 2
      BY <2>1, <2>7
    <3>2. overlay'[d][e] = Written(docs[e], o, m, Len(q) + 2)
      BY <1>4, <2>1, <2>2, <2>7, <3>1
    <3>3. PICK r, n : r = Append(p, m) /\ n = Len(p)
      OBVIOUS
    <3>4. OverlayOK(docs, r, Written(docs[e], o, m, n + 1), e)
      BY <1>2, <2>4, <2>5, <2>7, <3>3, OverlayOfWrite
    <3>5. n + 1 = Len(q) + 2
      BY <1>2, <2>4, <3>3
    <3>6. QED
      BY <1>1, <1>3, <2>2, <2>6, <2>7, <3>2, <3>3, <3>4, <3>5
  <2>8. CASE m.key # e
    <3>1. PICK r : r = Append(p, m)
      OBVIOUS
    <3>2. OverlayOK(docs, r, o, e) /\ (IsOverwritten(r, e) <=> IsOverwritten(p, e))
      BY <1>2, <2>4, <2>5, <2>8, <3>1, OverlayOfOther
    <3>3. overlay'[d][e] = o
      BY <1>4, <2>1, <2>2, <2>8
    <3>4. QED
      BY <1>1, <1>3, <2>5, <2>6, <3>1, <3>2, <3>3
  <2>9. QED
    BY <2>7, <2>8
<1>7. QED
  BY <1>5, <1>6

(* What the listeners are told of a document is what its overlay shows.    *)
LEMMA ToldViews ==
  ASSUME DInv, NEW d \in Devices, NEW ks, Tell(d, ks) \/ Query(d),
         DOMAIN cache'[d] = Events
  PROVE  /\ view' = [view EXCEPT ![d] = [e \in Events |-> view'[d][e]]]
         /\ \A e \in Events :
              \/ view'[d][e] = LocalDocument(cache'[d][e], overlay'[d][e])
              \/ e \notin ks /\ view'[d][e] = view[d][e]
<1>1. view \in [Devices -> [Events -> Counts]]
  BY DEF DInv
<1>2. CASE Tell(d, ks)
  BY <1>1, <1>2 DEF Tell
<1>3. CASE Query(d)
  BY <1>1, <1>3 DEF Query, GetDocuments
<1>4. QED
  BY <1>2, <1>3

(* The user's writes keep the invariant.                                   *)
LEMMA SavedDocuments ==
  ASSUME IInv, DInv, NEW d \in Devices, NEW ws, SaveWrites(d, ws),
         Tell(d, KeysOf(ws)) \/ Query(d),
         NEW m \in Mutations, m.op = "update" \/ m.op = "delete" => m.key \in Events,
         m.op = "delete" => m.data = NoDoc,
         \/ ws = <<m>>
         \/ \E a \in Mutations : a.key \in Entries /\ a.op = "set" /\ m.key \in Events /\ ws = <<a, m>>
  PROVE  DInv'
<1>1. /\ cache' = cache /\ cache[d] \in [Events -> Counts]
      /\ \A x \in Devices : x # d => queue'[x] = queue[x]
  BY QueuesHaveValues DEF SaveWrites, WriteLocally, IInv, BoardOK
<1>2. PICK os, vs : os = overlay'[d] /\ vs = [e \in Events |-> view'[d][e]]
  OBVIOUS
<1>3. overlay' = [overlay EXCEPT ![d] = os] /\ os = [e \in Events |-> os[e]]
  BY <1>2 DEF SaveWrites, DInv
<1>4. /\ view' = [view EXCEPT ![d] = vs] /\ vs = [e \in Events |-> vs[e]]
      /\ \A e \in Events : \/ vs[e] = LocalDocument(cache'[d][e], os[e])
                           \/ e \notin KeysOf(ws) /\ vs[e] = view[d][e]
  BY <1>1, <1>2, ToldViews
<1>5. ASSUME NEW e \in Events
      PROVE  /\ OverlayOK(cache'[d], queue'[d], os[e], e)
             /\ ToldOK(cache'[d], queue'[d], os[e], vs[e], e)
  <2>1. /\ OverlayOK(cache'[d], queue'[d], os[e], e)
        /\ e \notin KeysOf(ws) =>
             /\ os[e] = overlay[d][e]
             /\ IsOverwritten(queue'[d], e) <=> IsOverwritten(queue[d], e)
    BY <1>2, SavedOverlays
  <2>2. ToldOK(cache[d], queue[d], overlay[d][e], view[d][e], e)
    BY DEF DInv
  <2>3. QED
    BY <1>1, <1>4, <2>1, <2>2 DEF ToldOK, Stale
<1>6. cache'[d] \in [Events -> Counts] /\ \A x \in Devices : cache'[x] = cache[x]
  BY <1>1
<1>7. QED
  BY <1>1, <1>3, <1>4, <1>5, <1>6, DocumentsStep

(* So do taps, saves and deletes.                                          *)
LEMMA InputDocuments ==
  ASSUME IInv, DInv, NEW d \in Devices, NEW e \in Events,
         \/ onTap(d, e) \/ onTapKilled(d, e) \/ deleteTask(d, e)
         \/ \E n \in Numbers : saveEventToFirestore(d, e, n)
  PROVE  DInv'
<1>1. e \in Keys
  BY DEF Keys
<1>2. ASSUME shown[d][e] # NoDoc, CountTap(d, e),
             NEW ws, SaveWrites(d, ws), Tell(d, KeysOf(ws)) \/ Query(d),
             ws = onTapWrites(d, e) \/ ws = <<Head(onTapWrites(d, e))>>
      PROVE  DInv'
  <2>1. PICK a \in Mutations : a = addEventToMyCalendar(d, e)
    BY <1>2, TapWrites
  <2>2. a.op = "set" /\ a.key \in Entries
    <3>1. Owner[d] \in Users
      BY BoardAssumption
    <3>2. QED
      BY <2>1, <3>1 DEF addEventToMyCalendar, Set, Entries
  <2>3. PICK tail : tail = decrementNumberOfPeople(d, e)
    OBVIOUS
  <2>4. onTapWrites(d, e) = <<a>> \o tail
    BY <2>1, <2>3 DEF onTapWrites
  <2>5. CASE ws = <<a>>
    BY <1>2, <2>2, <2>5, SavedDocuments
  <2>6. CASE ws # <<a>>
    <3>1. CASE ~(shown[d][e] > 0)
      <4>1. tail = << >>
        BY <2>3, <3>1 DEF decrementNumberOfPeople
      <4>2. <<a>> \o << >> = <<a>> /\ Head(<<a>>) = a
        OBVIOUS
      <4>3. QED
        BY <1>2, <2>4, <2>6, <4>1, <4>2
    <3>2. CASE shown[d][e] > 0
      <4>1. PICK m \in Mutations : m = Update(e, shown[d][e] - 1)
        BY <1>2, <3>2, TapWrites
      <4>2. tail = <<m>>
        BY <2>3, <3>2, <4>1 DEF decrementNumberOfPeople
      <4>3. <<a>> \o <<m>> = <<a, m>> /\ Head(<<a, m>>) = a
        BY ConcatSingles
      <4>4. ws = <<a, m>> /\ m.op = "update" /\ m.key = e
        BY <1>2, <2>4, <2>6, <4>1, <4>2, <4>3 DEF Update
      <4>5. QED
        BY <1>2, <2>2, <4>4, SavedDocuments
    <3>3. QED
      BY <3>1, <3>2
  <2>7. QED
    BY <2>5, <2>6
<1>3. CASE onTap(d, e)
  BY <1>2, <1>3 DEF onTap
<1>4. CASE onTapKilled(d, e)
  BY <1>2, <1>4 DEF onTapKilled
<1>5. CASE deleteTask(d, e)
  <2>1. PICK m : m = Delete(e)
    OBVIOUS
  <2>2. m \in Mutations /\ m.op = "delete" /\ m.key = e /\ m.data = NoDoc
    BY <1>1, <2>1 DEF Delete, Mutations, Counts
  <2>3. KeysOf(<<m>>) = {e}
    BY <2>2 DEF KeysOf
  <2>4. SaveWrites(d, <<m>>) /\ Tell(d, KeysOf(<<m>>))
    BY <1>5, <2>1, <2>3 DEF deleteTask
  <2>5. QED
    BY <2>2, <2>4, SavedDocuments
<1>6. ASSUME NEW n \in Numbers, saveEventToFirestore(d, e, n) PROVE DInv'
  <2>1. PICK m : m = Set(e, n)
    OBVIOUS
  <2>2. m \in Mutations /\ m.op = "set" /\ m.key = e
    BY <1>1, <2>1, BoardAssumption DEF Set, Mutations, Counts
  <2>3. KeysOf(<<m>>) = {e}
    BY <2>2 DEF KeysOf
  <2>4. SaveWrites(d, <<m>>) /\ Tell(d, KeysOf(<<m>>))
    BY <1>6, <2>1, <2>3 DEF saveEventToFirestore
  <2>5. QED
    BY <2>2, <2>4, SavedDocuments
<1>7. QED
  BY <1>3, <1>4, <1>5, <1>6

(* So does an answer, and so does a refusal: the overlay of the document   *)
(* whose write was dropped is recalculated.                                *)
LEMMA AnswerDocuments ==
  ASSUME IInv, DInv, BoardOK', NEW d \in Devices, Answer(d)
  PROVE  DInv'
<1>1. PICK docs, q, docs2, t, h :
        docs = cache[d] /\ q = queue[d] /\ docs2 = cache'[d] /\ t = queue'[d] /\ h = Head(queue[d]).key
  OBVIOUS
<1>2. /\ docs \in [Events -> Counts] /\ q \in Seq(Mutations) /\ HasValues(q)
      /\ docs2 \in [Events -> Counts]
  BY <1>1, QueuesHaveValues DEF BoardOK
<1>3. q # << >>
  <2>1. /\ sent[d].applied > 0 \/ sent[d].refused
        /\ sent[d].applied \in Nat /\ sent[d].applied =< Len(q)
        /\ sent[d].refused => sent[d].applied < Len(q)
    BY <1>1 DEF Answer, AcknowledgeBatch, RejectBatch, HandleSuccessfulWrite,
                HandleRejectedWrite, IInv, BoardOK
  <2>2. Len(q) > 0
    BY <1>2, <2>1, LenProperties
  <2>3. QED
    BY <2>2, EmptySeq
<1>4. /\ t = Tail(q) /\ t \in Seq(Mutations) /\ HasValues(t)
      /\ docs2 = docs \/ docs2 = Apply(Head(q), docs)
      /\ \A e \in Events : e # h => docs2[e] = docs[e]
      /\ \A x \in Devices : x # d => cache'[x] = cache[x] /\ queue'[x] = queue[x]
  <2>1. /\ queue' = [queue EXCEPT ![d] = Tail(q)]
        /\ \/ cache' = cache
           \/ cache' = [cache EXCEPT ![d] = docs]
           \/ cache' = [cache EXCEPT ![d] = Apply(Head(q), docs)]
    BY <1>1 DEF Answer, AcknowledgeBatch, RejectBatch, HandleSuccessfulWrite, HandleRejectedWrite
  <2>2. t = Tail(q) /\ (docs2 = docs \/ docs2 = Apply(Head(q), docs))
        /\ \A x \in Devices : x # d => cache'[x] = cache[x] /\ queue'[x] = queue[x]
    BY <1>1, <2>1 DEF IInv, BoardOK
  <2>3. HasValues(q) => HasValues(Tail(q))
    BY <1>2, <1>3, TailWrites
  <2>4. t \in Seq(Mutations)
    BY <1>2, <1>3, <2>2, HeadTailProperties
  <2>5. \A e \in Events : e # h => docs2[e] = docs[e]
    BY <1>1, <1>2, <2>2 DEF Apply
  <2>6. QED
    BY <1>2, <2>2, <2>3, <2>4, <2>5
<1>5. PICK os, vs : os = overlay'[d] /\ vs = [e \in Events |-> view'[d][e]]
  OBVIOUS
<1>6. /\ overlay' = [overlay EXCEPT ![d] = os] /\ os = [e \in Events |-> os[e]]
      /\ \A e \in Events :
           \/ os[e] = HeadRemoved(overlay[d][e])
           \/ e = h /\ docs2 = docs /\ os[e] = Recalculated(docs, t, e, HeadRemoved(overlay[d][e]))
  <2>1. CASE AcknowledgeBatch(d)
    BY <1>5, <2>1 DEF AcknowledgeBatch, DInv
  <2>2. CASE RejectBatch(d)
    BY <1>1, <1>5, <2>2 DEF RejectBatch, HandleRejectedWrite, DInv
  <2>3. QED
    BY <2>1, <2>2 DEF Answer
<1>7. /\ view' = [view EXCEPT ![d] = vs] /\ vs = [e \in Events |-> vs[e]]
      /\ \A e \in Events : \/ vs[e] = LocalDocument(docs2[e], os[e])
                           \/ e # h /\ vs[e] = view[d][e]
  <2>1. Tell(d, {h})
    BY <1>1 DEF Answer, AcknowledgeBatch, RejectBatch
  <2>2. DOMAIN cache'[d] = Events
    BY <1>1, <1>2
  <2>3. QED
    BY <1>1, <1>5, <2>1, <2>2, ToldViews
<1>8. ASSUME NEW e \in Events
      PROVE  OverlayOK(docs2, t, os[e], e) /\ ToldOK(docs2, t, os[e], vs[e], e)
  <2>1. PICK o, v : o = overlay[d][e] /\ v = view[d][e]
    OBVIOUS
  <2>2. OverlayOK(docs, q, o, e) /\ ToldOK(docs, q, o, v, e)
    BY <1>1, <2>1 DEF DInv
  <2>3. OverlayOK(docs2, t, HeadRemoved(o), e)
    <3>1. docs2[e] = docs[e] \/ docs2[e] = Apply(Head(q), docs)[e]
      BY <1>4
    <3>2. QED
      BY <1>2, <1>3, <1>4, <2>2, <3>1, OverlayOfTail
  <2>4. OverlayOK(docs2, t, os[e], e)
    <3>1. PICK r : r = HeadRemoved(o)
      OBVIOUS
    <3>2. OverlayOK(docs2, t, r, e)
      BY <2>3, <3>1
    <3>3. OverlayOK(docs2, t, Recalculated(docs2, t, e, r), e)
      BY <1>2, <1>4, <3>2, OverlayRecalculated
    <3>4. QED
      BY <1>6, <2>1, <3>1, <3>2, <3>3
  <2>5. CASE vs[e] = LocalDocument(docs2[e], os[e])
    BY <2>4, <2>5 DEF ToldOK
  <2>6. CASE e # h /\ vs[e] = v
    <3>1. os[e] = HeadRemoved(o) /\ docs2[e] = docs[e] /\ Head(q).key # e
      BY <1>1, <1>4, <1>6, <2>1, <2>6
    <3>2. ToldOK(docs2, Tail(q), HeadRemoved(o), v, e)
      BY <1>2, <1>3, <2>2, <3>1, AnswerOfOther
    <3>3. QED
      BY <1>4, <2>4, <2>6, <3>1, <3>2
  <2>7. QED
    BY <1>7, <2>1, <2>4, <2>5, <2>6
<1>9. /\ cache'[d] \in [Events -> Counts]
      /\ \A e \in Events : /\ OverlayOK(cache'[d], queue'[d], os[e], e)
                           /\ ToldOK(cache'[d], queue'[d], os[e], vs[e], e)
  BY <1>1, <1>2, <1>8
<1>10. QED
  BY <1>4, <1>6, <1>7, <1>9, DocumentsStep

(* So does a snapshot.                                                     *)
LEMMA SnapshotDocuments ==
  ASSUME IInv, DInv, BoardOK', NEW d \in Devices, Snapshot(d)
  PROVE  DInv'
<1>1. PICK docs, q, docs2 : docs = cache[d] /\ q = queue[d] /\ docs2 = cache'[d]
  OBVIOUS
<1>2. /\ docs \in [Events -> Counts] /\ q \in Seq(Mutations) /\ HasValues(q)
      /\ docs2 \in [Events -> Counts]
  BY <1>1, QueuesHaveValues DEF BoardOK
<1>3. /\ queue' = queue
      /\ \A x \in Devices : x # d => cache'[x] = cache[x] /\ queue'[x] = queue[x]
  BY DEF Snapshot, ApplyRemoteDocuments, ApplyRemoteEvent, IInv, BoardOK
<1>4. PICK os, vs : os = overlay'[d] /\ vs = view'[d]
  OBVIOUS
<1>5. /\ overlay' = [overlay EXCEPT ![d] = os] /\ os = [e \in Events |-> os[e]]
      /\ view' = [view EXCEPT ![d] = vs] /\ vs = [e \in Events |-> vs[e]]
      /\ \A e \in Events :
           \/ /\ IsRecalculated(d, e, docs2)
              /\ os[e] = Recalculated(docs2, q, e, overlay[d][e])
              /\ vs[e] = View(docs2, q)[e]
           \/ /\ ~IsRecalculated(d, e, docs2) /\ os[e] = overlay[d][e]
              /\ \/ vs[e] = LocalDocument(docs2[e], os[e])
                 \/ docs2[e] = docs[e] /\ vs[e] = view[d][e]
  BY <1>1, <1>4 DEF Snapshot, ApplyRemoteDocuments, DInv
<1>6. ASSUME NEW e \in Events
      PROVE  OverlayOK(docs2, q, os[e], e) /\ ToldOK(docs2, q, os[e], vs[e], e)
  <2>1. PICK o, v : o = overlay[d][e] /\ v = view[d][e]
    OBVIOUS
  <2>2. OverlayOK(docs, q, o, e) /\ ToldOK(docs, q, o, v, e)
    BY <1>1, <2>1 DEF DInv
  <2>3. CASE os[e] = Recalculated(docs2, q, e, o) /\ vs[e] = View(docs2, q)[e]
    <3>1. OverlayOK(docs2, q, os[e], e)
      BY <1>2, <2>2, <2>3, OverlayRecalculated
    <3>2. CASE ~Stale(docs2, q, os[e], e)
      <4>1. PICK r : r = os[e]
        OBVIOUS
      <4>2. LocalDocument(docs2[e], r) = View(docs2, q)[e]
        BY <1>2, <3>1, <3>2, <4>1, OverlayShowsView
      <4>3. QED
        BY <2>3, <3>1, <4>1, <4>2 DEF ToldOK
    <3>3. CASE Stale(docs2, q, os[e], e)
      <4>1. os[e].op # "none" /\ ~IsOverwritten(q, e)
        BY <3>3 DEF Stale
      <4>2. CASE docs2[e] = NoDoc
        <5>1. View(docs2, q)[e] = NoDoc
          BY <1>2, <4>1, <4>2, ViewOfUpdates
        <5>2. QED
          BY <2>3, <3>1, <3>3, <5>1 DEF ToldOK
      <4>3. CASE docs2[e] # NoDoc
        <5>1. IsWritten(q, e)
          BY <3>1, <4>1 DEF OverlayOK, IsWritten
        <5>2. os[e].data = View(docs2, q)[e]
          BY <2>3, <4>3, <5>1 DEF Recalculated
        <5>3. QED
          BY <2>3, <3>1, <4>1, <5>2 DEF ToldOK, LocalDocument
      <4>4. QED
        BY <4>2, <4>3
    <3>4. QED
      BY <3>2, <3>3
  <2>4. CASE /\ ~IsRecalculated(d, e, docs2) /\ os[e] = o
             /\ \/ vs[e] = LocalDocument(docs2[e], os[e])
                \/ docs2[e] = docs[e] /\ vs[e] = v
    <3>1. o.op \in {"none", "update"} => (docs2[e] = NoDoc <=> docs[e] = NoDoc)
      BY <1>1, <2>1, <2>4 DEF IsRecalculated
    <3>2. OverlayOK(docs2, q, o, e)
      BY <1>2, <2>2, <3>1, OverlayNotRecalculated
    <3>3. QED
      BY <2>2, <2>4, <3>2 DEF ToldOK, Stale
  <2>5. QED
    BY <1>5, <2>1, <2>3, <2>4
<1>7. /\ cache'[d] \in [Events -> Counts]
      /\ \A e \in Events : /\ OverlayOK(cache'[d], queue'[d], os[e], e)
                           /\ ToldOK(cache'[d], queue'[d], os[e], vs[e], e)
  BY <1>1, <1>2, <1>3, <1>6
<1>8. QED
  BY <1>3, <1>5, <1>7, DocumentsStep

(* New tiles keep the first invariant: their numbers are cached ones or    *)
(* queued ones.                                                            *)
LEMMA BuildTilesInv ==
  ASSUME IInv, DInv, NEW d \in Devices, BuildTiles(d)
  PROVE  IInv'
<1> USE DEF IInv
<1>0. PICK v : v = view[d]
  OBVIOUS
<1>1. UNCHANGED <<db, cache, queue, sent, taps, inputs>> /\ shown' = [shown EXCEPT ![d] = v]
  BY <1>0 DEF BuildTiles, documents, store
<1>2. v \in [Events -> Counts] /\ shown \in [Devices -> [Events -> Counts]]
  BY <1>0 DEF DInv, BoardOK
<1>3. BoardOK'
  BY <1>1, <1>2 DEF BoardOK
<1>4. ASSUME NEW e \in Events PROVE IsFair(taps[e], v[e])
  <2>1. PICK docs, q, o : docs = cache[d] /\ q = queue[d] /\ o = overlay[d][e]
    OBVIOUS
  <2>2. /\ docs \in [Events -> Counts] /\ q \in Seq(Mutations) /\ HasValues(q)
        /\ OverlayOK(docs, q, o, e) /\ ToldOK(docs, q, o, v[e], e)
    BY <1>0, <2>1, QueuesHaveValues DEF DInv
  <2>3. /\ IsFair(taps[e], docs[e])
        /\ \A i \in 1 .. Len(q) : q[i].key = e => IsFair(taps[e], q[i].data)
    BY <2>1 DEF CountsSound, WritesSound, IsSound
  <2>4. \/ v[e] = NoDoc \/ v[e] = docs[e] \/ v[e] = View(docs, q)[e]
        \/ \E i \in 1 .. Len(q) : q[i].key = e /\ v[e] = q[i].data
    BY <2>2 DEF ToldOK, OverlayOK, LocalDocument, IsLastWrite
  <2>5. \/ View(docs, q)[e] = docs[e]
        \/ \E i \in 1 .. Len(q) : q[i].key = e /\ View(docs, q)[e] = q[i].data
    BY <2>2, ViewOrigin
  <2>6. QED
    BY <2>3, <2>4, <2>5 DEF IsFair
<1>5. CountsSound'
  <2>1. \A x \in Devices, e \in Events : shown'[x][e] = shown[x][e] \/ shown'[x][e] = v[e]
    BY <1>1, <1>2
  <2>2. QED
    BY <1>1, <1>4, <2>1 DEF CountsSound
<1>6. WritesSound' /\ EntriesFirst' /\ RefusedIsUpdate'
  BY <1>1 DEF WritesSound, EntriesFirst, RefusedIsUpdate
<1>7. QED
  BY <1>3, <1>5, <1>6

-----------------------------------------------------------------------------
(* Every step keeps the two invariants.                                    *)
LEMMA NextInv == IInv /\ DInv /\ [Next]_vars => IInv'
<1> SUFFICES ASSUME IInv, DInv, [Next]_vars PROVE IInv'
  OBVIOUS
<1>1. CASE UNCHANGED vars
  BY <1>1 DEF vars, IInv, BoardOK, WritesSound, CountsSound, EntriesFirst,
              RefusedIsUpdate
<1>2. ASSUME NEW d \in Devices, Serve(d) \/ Answer(d) \/ Snapshot(d) PROVE IInv'
  BY <1>2, CommitInv, RefuseInv, HandleSuccessfulWriteInv, HandleRejectedWriteInv,
     ApplyRemoteEventInv
     DEF Serve, Answer, AcknowledgeBatch, RejectBatch, Snapshot, ApplyRemoteDocuments
<1>3. ASSUME NEW d \in Devices, NEW e \in Events,
             \/ onTap(d, e) \/ onTapKilled(d, e) \/ deleteTask(d, e)
             \/ \E n \in Numbers : saveEventToFirestore(d, e, n)
      PROVE  IInv'
  BY <1>3, OnTapInv, OnTapKilledInv, DeleteInv, SaveInv
<1>4. QED
  BY <1>1, <1>2, <1>3, BuildTilesInv, RestartInv, LoseAnswersInv DEF Next

LEMMA NextDocuments == IInv /\ IInv' /\ DInv /\ [Next]_vars => DInv'
<1> SUFFICES ASSUME IInv, BoardOK', DInv, [Next]_vars PROVE DInv'
  BY DEF IInv
<1>1. CASE UNCHANGED <<cache, queue, overlay, view>>
  BY <1>1 DEF DInv
<1>2. ASSUME NEW d \in Devices, Answer(d) \/ Snapshot(d) PROVE DInv'
  BY <1>2, AnswerDocuments, SnapshotDocuments
<1>3. ASSUME NEW d \in Devices, NEW e \in Events,
             \/ onTap(d, e) \/ onTapKilled(d, e) \/ deleteTask(d, e)
             \/ \E n \in Numbers : saveEventToFirestore(d, e, n)
      PROVE  DInv'
  BY <1>3, InputDocuments
<1>4. ASSUME NEW d \in Devices, Restart(d) PROVE DInv'
  <2>1. PICK os, vs : os = overlay[d] /\ vs = [e \in Events |-> view'[d][e]]
    OBVIOUS
  <2>2. /\ UNCHANGED <<cache, queue, overlay>> /\ Query(d)
        /\ cache[d] \in [Events -> Counts] /\ DOMAIN cache'[d] = Events
    BY <1>4, QueuesHaveValues DEF Restart, store
  <2>3. overlay' = [overlay EXCEPT ![d] = os] /\ os = [e \in Events |-> os[e]]
    BY <2>1, <2>2 DEF DInv
  <2>4. /\ view' = [view EXCEPT ![d] = vs] /\ vs = [e \in Events |-> vs[e]]
        /\ \A e \in Events : \/ vs[e] = LocalDocument(cache'[d][e], overlay'[d][e])
                             \/ e \notin Events /\ vs[e] = view[d][e]
    BY <2>1, <2>2, ToldViews
  <2>5. ASSUME NEW e \in Events
        PROVE  /\ OverlayOK(cache'[d], queue'[d], os[e], e)
               /\ ToldOK(cache'[d], queue'[d], os[e], vs[e], e)
    BY <2>1, <2>2, <2>4 DEF DInv, ToldOK
  <2>6. /\ cache'[d] \in [Events -> Counts]
        /\ \A x \in Devices : cache'[x] = cache[x] /\ queue'[x] = queue[x]
    BY <2>2
  <2>7. QED
    BY <2>3, <2>4, <2>5, <2>6, DocumentsStep
<1>5. ASSUME NEW d \in Devices, BuildTiles(d) \/ Serve(d) \/ LoseAnswers(d)
      PROVE  UNCHANGED <<cache, queue, overlay, view>>
  BY <1>5 DEF BuildTiles, documents, store, Serve, Commit, Refuse, LoseAnswers, OnWriteStreamClose
<1>6. CASE UNCHANGED vars
  BY <1>1, <1>6 DEF vars
<1>7. QED
  BY <1>1, <1>2, <1>3, <1>4, <1>5, <1>6 DEF Next

(* The two invariants hold in every behaviour of the board.                *)
LEMMA Invariance == Spec => [](IInv /\ DInv)
<1>1. Init => IInv /\ DInv
  BY InitInv, InitDocuments
<1>2. (IInv /\ DInv) /\ [Next]_vars => (IInv /\ DInv)'
  BY NextInv, NextDocuments
<1>3. QED
  BY <1>1, <1>2, PTL DEF Spec

(* Type correctness, and with it that the server never runs ahead of a     *)
(* device's queue nor a snapshot ahead of the server (the bookkeeping of   *)
(* the client's write pipeline).                                           *)
THEOREM TypeCorrect == Spec => []TypeOK
<1>1. IInv /\ DInv => TypeOK
  BY DEF IInv, BoardOK, DInv, TypeOK
<1>2. QED
  BY <1>1, Invariance, PTL

(* However many devices tap, save, delete, lose answers and get killed,    *)
(* no count on the server or on a tile loses more places than tiles were   *)
(* tapped, and decrementNumberOfPeople takes none below zero.              *)
THEOREM CountsAccountedTheorem == Spec => []CountsAccounted
<1>1. IInv => CountsAccounted
  BY DEF IInv, CountsSound, IsFair, CountsAccounted
<1>2. QED
  BY <1>1, Invariance, PTL

(* The server never takes a place off an event for a tap whose calendar    *)
(* entry it has not recorded: the order of onTap's two writes survives     *)
(* every kill, refusal and resent pipeline.                                *)
THEOREM EntryBeforeDecrementTheorem == Spec => []EntryBeforeDecrement
<1>1. IInv => EntryBeforeDecrement
  <2> SUFFICES ASSUME IInv, NEW d \in Devices, sent[d].applied < Len(queue[d]),
                      NextWrite(d).op = "update"
               PROVE  db[<<Owner[d], NextWrite(d).key>>] # NoDoc
    BY DEF EntryBeforeDecrement
  <2>1. sent[d].applied \in Nat /\ sent[d].applied + 1 \in 1 .. Len(queue[d])
    BY DEF IInv, BoardOK
  <2>2. ~\E j \in sent[d].applied + 1 .. (sent[d].applied + 1) - 1 : TRUE
    BY <2>1
  <2>3. QED
    BY <2>1, <2>2 DEF IInv, EntriesFirst, HasEntries, NextWrite
<1>2. QED
  BY <1>1, Invariance, PTL

(* A stale tile cannot bring a deleted event back: without a save under    *)
(* way, no step of any device makes a missing event exist.                 *)
THEOREM DeletedStaysDeletedTheorem == Spec => DeletedStaysDeleted
<1>1. ASSUME IInv, [Next]_vars, NEW e \in Events, db[e] = NoDoc, ~SaveQueued(e)
      PROVE  db'[e] = NoDoc
  <2>1. CASE UNCHANGED db
    BY <1>1, <2>1
  <2>2. ASSUME NEW d \in Devices, Commit(d) PROVE db'[e] = NoDoc
    <3>0. PICK m : m = NextWrite(d)
      OBVIOUS
    <3>1. /\ sent[d].applied + 1 \in 1 .. Len(queue[d]) /\ m = queue[d][sent[d].applied + 1]
          /\ queue[d] \in Seq(Mutations) /\ db \in [Keys -> Counts] /\ e \in Keys
      BY <1>1, <2>2, <3>0 DEF Commit, NextWrite, IInv, BoardOK, Keys
    <3>2. m \in Mutations /\ ~(m.op = "set" /\ m.key = e) /\ IsSound(taps, m)
      BY <1>1, <3>1, ElementOfSeq DEF IInv, WritesSound, SaveQueued
    <3>3. db' = Apply(m, db) /\ IsValidFor(m, db[m.key])
      BY <2>2, <3>0 DEF Commit
    <3>4. CASE m.key # e
      BY <1>1, <3>1, <3>3, <3>4 DEF Apply
    <3>5. CASE m.key = e
      <4>1. m.op = "delete"
        BY <1>1, <3>2, <3>3, <3>5 DEF Mutations, IsValidFor
      <4>2. Apply(m, db)[e] = db[e] \/ Apply(m, db)[e] = m.data
        BY <3>1, <3>2, ApplyType
      <4>3. QED
        BY <1>1, <3>2, <3>3, <4>1, <4>2 DEF IsSound
    <3>6. QED
      BY <3>4, <3>5
  <2>3. ASSUME NEW d \in Devices,
               \/ Refuse(d) \/ Answer(d) \/ Snapshot(d) \/ BuildTiles(d)
               \/ Restart(d) \/ LoseAnswers(d)
        PROVE  UNCHANGED db
    BY <2>3 DEF Refuse, Answer, AcknowledgeBatch, RejectBatch, HandleSuccessfulWrite,
                HandleRejectedWrite, Snapshot, ApplyRemoteDocuments, ApplyRemoteEvent,
                BuildTiles, Restart, documents, store, LoseAnswers, OnWriteStreamClose
  <2>4. ASSUME NEW d \in Devices, NEW f \in Events,
               \/ onTap(d, f) \/ onTapKilled(d, f) \/ deleteTask(d, f)
               \/ \E n \in Numbers : saveEventToFirestore(d, f, n)
        PROVE  UNCHANGED db
    BY <2>4 DEF onTap, onTapKilled, deleteTask, saveEventToFirestore, SaveWrites, WriteLocally
  <2>5. CASE UNCHANGED vars
    BY <2>1, <2>5 DEF vars
  <2>6. QED
    BY <1>1, <2>1, <2>2, <2>3, <2>4, <2>5 DEF Next, Serve
<1>2. IInv /\ [Next]_vars => NoResurrection
  BY <1>1 DEF NoResurrection
<1>3. QED
  BY <1>2, Invariance, PTL DEF Spec, DeletedStaysDeleted

(* What a device shows of an event, the overlay pieced together by writes, *)
(* answers, refusals and snapshots, is a replay of its whole queue over    *)
(* its cache, and its listeners were told so, unless the overlay outlived  *)
(* what it was computed from (LocalStore, LocalDocumentsView).             *)
THEOREM OverlayIsReplayTheorem == Spec => []OverlayIsReplay
<1>1. ASSUME IInv, DInv, NEW d \in Devices, NEW e \in Events, ~IsStale(d, e)
      PROVE  /\ LocalDocument(cache[d][e], overlay[d][e]) = Replay(cache[d], queue[d])[e]
             /\ view[d][e] = Replay(cache[d], queue[d])[e]
  <2>1. PICK docs, q, o, v : docs = cache[d] /\ q = queue[d] /\ o = overlay[d][e] /\ v = view[d][e]
    OBVIOUS
  <2>2. /\ docs \in [Events -> Counts] /\ q \in Seq(Mutations) /\ HasValues(q)
        /\ OverlayOK(docs, q, o, e) /\ ToldOK(docs, q, o, v, e)
    BY <1>1, <2>1, QueuesHaveValues DEF DInv
  <2>3. ~Stale(docs, q, o, e)
    BY <1>1, <2>1 DEF IsStale, Stale
  <2>4. LocalDocument(docs[e], o) = View(docs, q)[e]
    BY <2>2, <2>3, OverlayShowsView
  <2>5. View(docs, q) = Replay(docs, q)
    <3>1. docs = [k \in DOMAIN docs |-> docs[k]]
      BY <2>2
    <3>2. QED
      BY <2>2, <3>1, ViewReplays
  <2>6. v = LocalDocument(docs[e], o)
    BY <2>2, <2>3 DEF ToldOK
  <2>7. QED
    BY <2>1, <2>4, <2>5, <2>6
<1>2. IInv /\ DInv => OverlayIsReplay
  BY <1>1 DEF OverlayIsReplay
<1>3. QED
  BY <1>2, Invariance, PTL

(* The answer to a write never makes a tile flicker: taking the write out  *)
(* of the queue and of the overlay and its result into the cache leaves    *)
(* what the listeners were told, unless the overlay was stale.             *)
THEOREM AcknowledgeKeepsViewTheorem == Spec => AcknowledgeKeepsView
<1>1. ASSUME IInv, DInv, NEW d \in Devices, NEW e \in Events,
             AcknowledgeBatch(d), sent[d].seen = 0, ~IsStale(d, e), BoardOK'
      PROVE  view'[d][e] = view[d][e]
  <2>1. PICK docs, q, o, v, docs2 :
          docs = cache[d] /\ q = queue[d] /\ o = overlay[d][e] /\ v = view[d][e] /\ docs2 = cache'[d]
    OBVIOUS
  <2>2. /\ docs \in [Events -> Counts] /\ q \in Seq(Mutations) /\ HasValues(q)
        /\ OverlayOK(docs, q, o, e) /\ ToldOK(docs, q, o, v, e)
        /\ docs2 \in [Events -> Counts] /\ ~Stale(docs, q, o, e)
    BY <1>1, <2>1, QueuesHaveValues DEF DInv, BoardOK, IsStale, Stale
  <2>3. q # << >>
    <3>1. sent[d].applied > 0 /\ sent[d].applied \in Nat /\ sent[d].applied =< Len(q)
      BY <1>1, <2>1 DEF AcknowledgeBatch, HandleSuccessfulWrite, IInv, BoardOK
    <3>2. QED
      BY <3>1, EmptySeq
  <2>4. docs2 = Apply(Head(q), docs)
    BY <1>1, <2>1 DEF AcknowledgeBatch, HandleSuccessfulWrite, IInv, BoardOK
  <2>5. v = LocalDocument(docs[e], o)
    BY <2>2 DEF ToldOK
  <2>6. LocalDocument(docs2[e], HeadRemoved(o)) = LocalDocument(docs[e], o)
    BY <2>2, <2>3, <2>4, AnswerKeepsShown
  <2>7. overlay'[d][e] = HeadRemoved(o)
    BY <1>1, <2>1 DEF AcknowledgeBatch, DInv
  <2>8. view'[d][e] = LocalDocument(docs2[e], overlay'[d][e]) \/ view'[d][e] = v
    BY <1>1, <2>1 DEF AcknowledgeBatch, Tell, DInv
  <2>9. QED
    BY <2>1, <2>5, <2>6, <2>7, <2>8
<1>2. IInv /\ DInv /\ IInv' /\ [Next]_vars => KeepsView
  BY <1>1 DEF KeepsView, IInv
<1>3. QED
  BY <1>2, Invariance, PTL DEF Spec, AcknowledgeKeepsView
=============================================================================
