-------------------------- MODULE WatchTargetsProofs --------------------------
(***************************************************************************)
(* Proofs about WatchTargets for any number of documents, limbo targets,   *)
(* concurrent resolutions and inputs.                                      *)
(*                                                                         *)
(* The invariant ties the client to what is on its way: every answer that  *)
(* is still to come is among the responses due (Owed), and every message   *)
(* about a limbo target is about that target's document (Known).           *)
(***************************************************************************)
EXTENDS WatchTargets, SequenceTheorems, FiniteSetTheorems, WellFoundedInduction, TLAPS

Requests == [op : {"watch", "unwatch"}, target : Ids, token : Tokens, of : SUBSET Docs]

Views == [up : BOOLEAN, synced : SUBSET Docs, current : BOOLEAN,
          limbo : SUBSET Docs, state : {"Local", "Synced"}]

(* Documents by the ids of the limbo targets that resolve them.            *)
Limbos == UNION {[D -> Docs] : D \in SUBSET (1 .. MaxLimbo)}

Clients ==
  [cache : SUBSET Docs, keys : SUBSET Docs, saved : Tokens,
   open : BOOLEAN, requests : Seq(Requests),
   listen : SUBSET Ids, token : [Ids -> Tokens],
   state : [Ids -> TargetStates], updates : [Docs -> {"none", "found", "missing"}],
   resets : SUBSET Ids,
   key : Limbos, received : SUBSET Ids, enqueued : Seq(Docs), next : 1 .. MaxLimbo + 1,
   view : Views]

TargetMessages == [type : {"added", "removed", "current", "reset"}, targets : {{t} : t \in Ids}]
DocumentMessages == [type : {"document"}, targets : SUBSET Ids, key : Docs, found : BOOLEAN]
FilterMessages == [type : {"filter"}, targets : {{t} : t \in Ids}, count : Nat, bloom : SUBSET Docs]
SnapshotMessages == [type : {"snapshot"}, numbers : [Docs -> 0 .. MaxInputs + 1]]
Messages == TargetMessages \cup DocumentMessages \cup FilterMessages \cup SnapshotMessages

(* Target t has been given out, and if it resolves a document, no other    *)
(* than that is among ks.                                                  *)
Known(c, t, ks) == t < c.next /\ (t \in DOMAIN c.key => ks \subseteq {c.key[t]})

(* m answers a watch or an unwatch request for t.                          *)
Answers(m, t) == m.type \in {"added", "removed"} /\ m.targets = {t}

(* At most n answers for t are on their way in rs or still to be given to  *)
(* the requests qs: f and g count them along rs and then along qs.         *)
Owes(rs, qs, t, n) ==
  \E m \in Int, f \in [0 .. Len(rs) -> Int], g \in [0 .. Len(qs) -> Int] :
    /\ 0 =< f[0] /\ m =< g[0]
    /\ \A i \in 0 .. Len(rs) : f[i] =< m
    /\ \A i \in 1 .. Len(rs) : f[i - 1] =< f[i] /\ (Answers(rs[i], t) => f[i - 1] < f[i])
    /\ \A i \in 0 .. Len(qs) : g[i] =< n
    /\ \A i \in 1 .. Len(qs) : g[i - 1] =< g[i] /\ (qs[i].target = t => g[i - 1] < g[i])

(* Only the first of the messages rs may be an answer for t.               *)
AnswersOnlyFirst(rs, t) == \A i \in 2 .. Len(rs) : ~Answers(rs[i], t)

(* No two of the requests are for one target.                              *)
Distinct(qs) == \A i, j \in 1 .. Len(qs) : qs[i].target = qs[j].target => i = j

(* The parts of the client agree with each other.                          *)
LimboSound(c) ==
  /\ c \in Clients
  /\ DOMAIN c.key \subseteq 1 .. c.next - 1
  /\ c.received \subseteq DOMAIN c.key
  /\ Cardinality(DOMAIN c.key) =< max_concurrent_limbo_resolutions

ListenSound(c) == c.listen = DOMAIN c.key \cup (IF c.view.up THEN {Query} ELSE {})

PendingSound(c) ==
  \A t \in Ids, k \in Docs : c.state[t].changes[k] # "none" => c.state[t].pending

RequestsSound(c) ==
  /\ \A i \in 1 .. Len(c.requests) : Known(c, c.requests[i].target, c.requests[i].of)
  /\ ~c.open => c.requests = << >> /\ c.state = NewAggregator

Owed(c, rs) == \A t \in Ids : Owes(rs, c.requests, t, c.state[t].due)

ClientSound(c, rs) ==
  /\ LimboSound(c) /\ ListenSound(c) /\ PendingSound(c) /\ RequestsSound(c) /\ Owed(c, rs)

(* So do the server and the messages on their way.                         *)
Said(c, ms) ==
  /\ ms \in Seq(Messages)
  /\ \A i \in 1 .. Len(ms) : ms[i].type = "document" =>
       \A t \in ms[i].targets : Known(c, t, {ms[i].key})

Unasked(ms) == \A i \in 1 .. Len(ms) : ms[i].type \notin {"added", "removed"}

ServerSound(c, rs, w) ==
  /\ Said(c, rs) /\ w \in [Ids -> SUBSET Docs]
  /\ \A t \in Ids : w[t] # {} => Known(c, t, w[t])

(* What watch and unwatch requests leave alone.                            *)
KeepsRest(c, e) ==
  /\ e.cache = c.cache /\ e.keys = c.keys /\ e.saved = c.saved /\ e.open = c.open
  /\ e.token = c.token /\ e.updates = c.updates /\ e.resets = c.resets /\ e.view = c.view

KeepsLimbo(c, e) ==
  /\ e.listen = c.listen /\ e.key = c.key /\ e.received = c.received
  /\ e.enqueued = c.enqueued /\ e.next = c.next

(* All of a target's state but the answers due.                            *)
KeepsTarget(c, e, t) ==
  /\ e.state[t].current = c.state[t].current /\ e.state[t].pending = c.state[t].pending
  /\ e.state[t].token = c.state[t].token /\ e.state[t].changes = c.state[t].changes

(* One more answer is due for each of the targets ts.                      *)
Counts(c, ts, e) ==
  \A t \in Ids :
    /\ KeepsTarget(c, e, t)
    /\ e.state[t].due = IF c.open /\ t \in ts THEN c.state[t].due + 1 ELSE c.state[t].due

(* new is what e's requests have gained over c's: one for each target in   *)
(* ts.                                                                     *)
Asks(c, op, ts, e, new) ==
  /\ e.requests = c.requests \o new
  /\ Distinct(new)
  /\ \A i \in 1 .. Len(new) :
       /\ new[i].target \in ts
       /\ new[i].of = IF op = "watch" THEN Matching(c, new[i].target) ELSE {}

(* None of ts is left out, and each request carries its target's token.    *)
AsksAll(c, op, ts, new) ==
  /\ c.open => \A t \in ts : \E i \in 1 .. Len(new) : new[i].target = t
  /\ \A i \in 1 .. Len(new) : new[i].op = op /\ new[i].token = c.token[new[i].target]

(* None of the requests q is for the query; those that e's have gained     *)
(* over c's are not.                                                       *)
Unrequested(q) == \A i \in 1 .. Len(q) : q[i].target # Query

Spares(c, e) ==
  /\ e.state[Query].due = c.state[Query].due
  /\ \E new \in Seq(Requests) : e.requests = c.requests \o new /\ Unrequested(new)

(* An order names each member of S once.                                   *)
IsOrder(order, S) ==
  /\ order \in Seq(S) /\ ToSet(order) = S
  /\ \A i, j \in 1 .. Len(order) : order[i] = order[j] => i = j

(* The part of ClientSound that does not depend on who listens.            *)
QueueSound(c, rs) ==
  /\ c \in Clients
  /\ DOMAIN c.key \subseteq 1 .. c.next - 1
  /\ PendingSound(c) /\ RequestsSound(c) /\ Owed(c, rs)

(* Target ids are given out in order, each to one document for good.       *)
KeysFollow(c, e) ==
  /\ c.next =< e.next
  /\ \A t \in DOMAIN e.key : t < c.next => t \in DOMAIN c.key /\ e.key[t] = c.key[t]

(* A limbo target that stays keeps its document.                           *)
ReceivedKept(c, e) == \A t \in DOMAIN e.key : t < c.next => (t \in e.received <=> t \in c.received)

(* A step of the client that loses no answer and no target: listeners come *)
(* only with a request.                                                    *)
Advances(c, e) ==
  /\ e.open = c.open /\ KeysFollow(c, e)
  /\ \A t \in Ids : KeepsTarget(c, e, t) /\ c.state[t].due =< e.state[t].due
  /\ c.open => \A t \in e.listen : t \in c.listen \/ e.state[t].due > 0

(* What limbo resolutions that start and end do to the client.             *)
Follows(c, e) == KeepsRest(c, e) /\ Advances(c, e)

(* A step that leaves the targets, their requests and their state alone.   *)
KeepsWatch(c, e) ==
  /\ e \in Clients
  /\ e.open = c.open /\ e.requests = c.requests /\ e.state = c.state
  /\ e.listen = c.listen /\ e.key = c.key /\ e.next = c.next
  /\ e.view.up = c.view.up /\ e.received \subseteq DOMAIN e.key

(* AssertionsHold of a client c, and of one change ch of a key.            *)
Fits(c, t, k, ch) ==
  /\ ch \in {"Modified", "Removed"} => k \in GetRemoteKeys(c, t)
  /\ ch = "Added" => k \notin GetRemoteKeys(c, t)
  /\ ch # "none" => k \in Matching(c, t)

ChangesFit(c) ==
  \A t \in c.listen : IsActiveTarget(c, t) => \A k \in Docs : Fits(c, t, k, c.state[t].changes[k])

(* A message that is aggregated: changes that fit are recorded for active  *)
(* targets.                                                                *)
AggregatesTarget(c, e, t) ==
  /\ e.state[t].due = c.state[t].due
  /\ \A k \in Docs :
       /\ e.state[t].changes[k] # "none" => e.state[t].pending
       /\ \/ e.state[t].changes[k] = c.state[t].changes[k]
          \/ Fits(c, t, k, e.state[t].changes[k])

(* State s of target t, with a change recorded that fits.                  *)
FitsTarget(c, t, s) ==
  /\ s \in TargetStates /\ s.due = c.state[t].due /\ s.pending = TRUE
  /\ \A j \in Docs : s.changes[j] = c.state[t].changes[j] \/ Fits(c, t, j, s.changes[j])

Aggregates(c, e) ==
  /\ e \in Clients /\ KeepsLimbo(c, e)
  /\ e.requests = c.requests /\ e.open = c.open /\ e.view = c.view
  /\ \A t \in Ids : AggregatesTarget(c, e, t)

(* The message is recorded, and the client is sound with the rest rs.      *)
Recorded(c, e, rs) ==
  ClientSound(e, rs) /\ ChangesFit(e) /\ KeepsLimbo(c, e) /\ e.open = c.open

(* A message, or an event, is handled.                                     *)
Handled(c, e, rs) ==
  ClientSound(e, rs) /\ ChangesFit(e) /\ KeysFollow(c, e) /\ e.open = c.open

Offline == ~client.open => responses = << >> /\ watched = [t \in Ids |-> {}] /\ ~dirty

IInv ==
  /\ db \in [Docs -> 0 .. inputs + 1] /\ at \in SUBSET Docs
  /\ dirty \in BOOLEAN /\ inputs \in 0 .. MaxInputs
  /\ ClientSound(client, responses)
  /\ ServerSound(client, responses, watched)
  /\ Offline
  /\ AssertionsHold

-----------------------------------------------------------------------------
(* Numbers, sets and sequences.                                            *)

LEMMA LeastElement ==
  ASSUME NEW T, T \subseteq Nat, T # {}
  PROVE  \E t \in T : \A u \in T : t =< u
<1>1. PICK t \in T : \A u \in T : ~(<<u, t>> \in OpToRel(<, Nat))
  BY WFMin, NatLessThanWellFounded
<1>2. \A u \in T : ~(u < t)
  BY <1>1 DEF OpToRel
<1>3. QED
  BY <1>2

(* A set that holds 0 and, with every number below n, the next one, holds  *)
(* all numbers up to n.                                                    *)
LEMMA UpTo ==
  ASSUME NEW n \in Nat, NEW S, 0 \in S, \A i \in 0 .. n - 1 : i \in S => i + 1 \in S
  PROVE  \A i \in 0 .. n : i \in S
<1> DEFINE T == {i \in 0 .. n : i \notin S}
<1> SUFFICES ASSUME T # {} PROVE FALSE
  OBVIOUS
<1>1. T \subseteq Nat
  OBVIOUS
<1>2. PICK t \in T : \A u \in T : t =< u
  BY <1>1, LeastElement
<1>3. t \in 0 .. n /\ t \notin S /\ t # 0
  OBVIOUS
<1>4. t - 1 \in 0 .. n - 1 /\ (t - 1) + 1 = t
  BY <1>3
<1>5. t - 1 \in S
  BY <1>2, <1>4
<1>6. QED
  BY <1>3, <1>4, <1>5

LEMMA MinOfThree ==
  ASSUME NEW a \in Int, NEW b \in Int, NEW c \in Int
  PROVE  /\ Min({a, b, c}) \in {a, b, c}
         /\ Min({a, b, c}) =< a /\ Min({a, b, c}) =< b /\ Min({a, b, c}) =< c
<1>1. \E x \in {a, b, c} : \A y \in {a, b, c} : x =< y
  OBVIOUS
<1>2. QED
  BY <1>1 DEF Min

LEMMA OrderOf ==
  ASSUME NEW S, IsFiniteSet(S)
  PROVE  /\ SetToSeq(S) \in Seq(S)
         /\ Len(SetToSeq(S)) = Cardinality(S)
         /\ \A i, j \in 1 .. Len(SetToSeq(S)) : SetToSeq(S)[i] = SetToSeq(S)[j] => i = j
<1> DEFINE n == Cardinality(S)
<1>1. n \in Nat /\ ExistsBijection(1 .. n, S)
  BY FS_CardinalityType
<1>2. \E f \in [1 .. n -> S] : IsInjective(f)
  BY <1>1 DEF ExistsBijection, Bijection, Injection
<1>3. SetToSeq(S) \in [1 .. n -> S] /\ IsInjective(SetToSeq(S))
  BY <1>2 DEF SetToSeq
<1>4. SetToSeq(S) \in Seq(S) /\ Len(SetToSeq(S)) = n
  BY <1>1, <1>3
<1>5. QED
  BY <1>3, <1>4 DEF IsInjective

LEMMA AllOrders ==
  ASSUME NEW S, IsFiniteSet(S), NEW order \in SetToSeqs(S) \cup {SetToSeq(S)}
  PROVE  IsOrder(order, S)
<1> DEFINE n == Cardinality(S)
<1>1. n \in Nat
  BY FS_CardinalityType
<1>2. order \in [1 .. n -> S] /\ \A i, j \in 1 .. n : order[i] = order[j] => i = j
  <2>1. CASE order \in SetToSeqs(S)
    BY <2>1 DEF SetToSeqs
  <2>2. CASE order = SetToSeq(S)
    <3>1. SetToSeq(S) \in Seq(S) /\ Len(SetToSeq(S)) = n
      BY OrderOf
    <3>2. order \in [1 .. n -> S]
      BY <1>1, <2>2, <3>1
    <3>3. QED
      BY <2>2, <3>1, <3>2, OrderOf
  <2>3. QED
    BY <2>1, <2>2
<1>3. order \in Seq(S) /\ Len(order) = n /\ DOMAIN order = 1 .. n
  BY <1>1, <1>2
<1>4. order \in Injection(1 .. n, S)
  BY <1>2 DEF Injection, IsInjective
<1>5. IsFiniteSet(1 .. n) /\ Cardinality(1 .. n) = n
  BY <1>1, FS_Interval
<1>6. order \in Surjection(1 .. n, S)
  BY <1>4, <1>5, FS_Injection
<1>7. ToSet(order) = S
  BY <1>2, <1>3, <1>6 DEF Surjection, ToSet
<1>8. QED
  BY <1>2, <1>3, <1>7 DEF IsOrder

LEMMA Halves ==
  ASSUME NEW S, NEW a \in Seq(S), NEW b \in Seq(S), NEW q, q = a \o b
  PROVE  /\ q \in Seq(S) /\ Len(a) \in Nat /\ Len(b) \in Nat /\ Len(q) = Len(a) + Len(b)
         /\ \A i \in 1 .. Len(a) : i \in 1 .. Len(q) /\ q[i] = a[i]
         /\ \A i \in 1 .. Len(b) : Len(a) + i \in 1 .. Len(q) /\ q[Len(a) + i] = b[i]
         /\ \A i \in 1 .. Len(q) : i \in 1 .. Len(a) \/ (i - Len(a) \in 1 .. Len(b) /\ q[i] = b[i - Len(a)])
<1>1. PICK l \in Nat, n \in Nat : l = Len(a) /\ n = Len(b)
  BY LenProperties
<1>2. q \in Seq(S) /\ Len(q) = l + n /\ \A i \in 1 .. l + n : q[i] = IF i =< l THEN a[i] ELSE b[i - l]
  BY <1>1, ConcatProperties
<1>3. QED
  BY <1>1, <1>2

LEMMA Rest ==
  ASSUME NEW S, NEW q \in Seq(S), q # << >>, NEW r, r = Tail(q)
  PROVE  /\ r \in Seq(S) /\ Len(q) \in Nat /\ Len(q) >= 1 /\ Len(r) = Len(q) - 1
         /\ Head(q) = q[1] /\ Head(q) \in S
         /\ \A i \in 1 .. Len(r) : i + 1 \in 1 .. Len(q) /\ r[i] = q[i + 1]
<1>1. PICK l \in Nat : l = Len(q) /\ l >= 1
  BY LenProperties, EmptySeq
<1>2. /\ r \in Seq(S) /\ Len(r) = l - 1 /\ Head(q) = q[1] /\ Head(q) \in S
      /\ \A i \in 1 .. l - 1 : r[i] = q[i + 1]
  BY <1>1, HeadTailProperties
<1>3. QED
  BY <1>1, <1>2

LEMMA WithoutType ==
  ASSUME NEW q \in Seq(Docs), NEW ks
  PROVE  Without(q, ks) \in Seq(Docs)
<1> DEFINE Kept(f, i) == IF i = 0 THEN << >>
                         ELSE IF q[i] \in ks THEN f[i - 1] ELSE Append(f[i - 1], q[i])
           IsRun(f, n) == f = [i \in 0 .. n |-> Kept(f, i)]
           HasRun(n) == \E f \in [0 .. n -> Seq(Docs)] : IsRun(f, n)
           S == {n \in 0 .. Len(q) : HasRun(n)}
           w == CHOOSE f : IsRun(f, Len(q))
<1>1. PICK l \in Nat : l = Len(q)
  BY LenProperties
<1>2. HasRun(0)
  <2> DEFINE f == [i \in 0 .. 0 |-> << >>]
  <2>1. f \in [0 .. 0 -> Seq(Docs)]
    OBVIOUS
  <2>2. IsRun(f, 0)
    OBVIOUS
  <2> HIDE DEF f, IsRun
  <2>3. QED
    BY <2>1, <2>2
<1>3. ASSUME NEW n \in 0 .. l - 1, HasRun(n)
      PROVE  HasRun(n + 1)
  <2>1. PICK f \in [0 .. n -> Seq(Docs)] : IsRun(f, n)
    BY <1>3
  <2>2. q[n + 1] \in Docs
    BY <1>1, LenProperties
  <2> DEFINE v == IF q[n + 1] \in ks THEN f[n] ELSE Append(f[n], q[n + 1])
             g == [i \in 0 .. n + 1 |-> IF i = n + 1 THEN v ELSE f[i]]
  <2>3. f[n] \in Seq(Docs)
    OBVIOUS
  <2>4. v \in Seq(Docs)
    BY <2>2, <2>3, AppendProperties
  <2> HIDE DEF v
  <2>5. g \in [0 .. n + 1 -> Seq(Docs)]
    BY <2>4
  <2>a. \A i \in 0 .. n : f[i] = Kept(f, i)
    <3>1. f = [i \in 0 .. n |-> Kept(f, i)]
      BY <2>1
    <3> HIDE DEF Kept
    <3>2. QED
      BY <3>1, Zenon
  <2>6. ASSUME NEW i \in 0 .. n + 1 PROVE g[i] = Kept(g, i)
    <3>1. CASE i = 0
      <4>1. f[0] = << >>
        BY <2>a
      <4>2. QED
        BY <3>1, <4>1
    <3>2. CASE i \in 1 .. n
      <4>1. g[i] = f[i] /\ g[i - 1] = f[i - 1]
        BY <3>2
      <4>2. f[i] = Kept(f, i)
        <5>1. i \in 0 .. n
          BY <3>2
        <5> HIDE DEF Kept
        <5>2. QED
          BY <2>a, <5>1, Zenon
      <4> HIDE DEF g
      <4>3. QED
        BY <3>2, <4>1, <4>2
    <3>3. CASE i = n + 1
      <4>1. g[i] = v /\ g[i - 1] = f[n]
        BY <3>3
      <4> HIDE DEF g
      <4>2. QED
        BY <3>3, <4>1 DEF v
    <3>4. QED
      BY <3>1, <3>2, <3>3
  <2>7. g = [i \in 0 .. n + 1 |-> g[i]]
    OBVIOUS
  <2> HIDE DEF g
  <2>8. IsRun(g, n + 1)
    BY <2>6, <2>7
  <2> HIDE DEF IsRun
  <2>9. QED
    BY <2>5, <2>8
<1>4. HasRun(Len(q))
  <2> HIDE DEF HasRun
  <2>1. 0 \in S /\ \A n \in 0 .. l - 1 : n \in S => n + 1 \in S
    BY <1>1, <1>2, <1>3
  <2> HIDE DEF S
  <2>2. \A n \in 0 .. l : n \in S
    BY <2>1, UpTo
  <2>3. QED
    BY <1>1, <2>2 DEF S
<1>5. IsRun(w, Len(q))
  <2> HIDE DEF IsRun
  <2>1. QED
    BY <1>4
<1>6. Without(q, ks) = w[Len(q)]
  BY DEF Without
<1> HIDE DEF w
<1>7. \A n \in 0 .. l : w[n] = Kept(w, n)
  <2>1. w = [i \in 0 .. l |-> Kept(w, i)]
    BY <1>1, <1>5
  <2> HIDE DEF Kept
  <2>2. QED
    BY <2>1, Zenon
<1> DEFINE T == {n \in 0 .. l : w[n] \in Seq(Docs)}
<1>8. 0 \in T
  <2>1. 0 \in 0 .. l /\ << >> \in Seq(Docs)
    OBVIOUS
  <2>2. w[0] = Kept(w, 0)
    <3> HIDE DEF Kept
    <3>1. QED
      BY <1>7, <2>1, Zenon
  <2>3. Kept(w, 0) = << >>
    OBVIOUS
  <2> HIDE DEF Kept
  <2>4. w[0] \in Seq(Docs)
    BY <2>1, <2>2, <2>3, Zenon
  <2>5. QED
    BY <2>1, <2>4, Zenon
<1>9. ASSUME NEW n \in 0 .. l - 1, n \in T
      PROVE  n + 1 \in T
  <2>1. q[n + 1] \in Docs /\ n + 1 \in 0 .. l /\ n + 1 # 0 /\ (n + 1) - 1 = n
    BY <1>1, LenProperties
  <2>2. w[n + 1] = IF q[n + 1] \in ks THEN w[n] ELSE Append(w[n], q[n + 1])
    BY <1>7, <2>1
  <2>3. w[n] \in Seq(Docs)
    BY <1>9
  <2>4. Append(w[n], q[n + 1]) \in Seq(Docs)
    BY <2>1, <2>3, AppendProperties
  <2>5. QED
    BY <2>1, <2>2, <2>3, <2>4
<1>10. \A n \in 0 .. l : n \in T
  <2>1. \A n \in 0 .. l - 1 : n \in T => n + 1 \in T
    BY <1>9
  <2> HIDE DEF T
  <2>2. QED
    BY <1>8, <2>1, UpTo
<1>11. QED
  BY <1>1, <1>6, <1>10

-----------------------------------------------------------------------------
(* Answers due.                                                            *)

(* Requests for other targets owe t nothing.                               *)
LEMMA OwesNoMore ==
  ASSUME NEW rs \in Seq(Messages), NEW qs \in Seq(Requests), NEW new \in Seq(Requests),
         NEW t \in Ids, NEW n \in Nat, Owes(rs, qs, t, n),
         \A i \in 1 .. Len(new) : new[i].target # t
  PROVE  Owes(rs, qs \o new, t, n)
<1>1. PICK m \in Int, f \in [0 .. Len(rs) -> Int], g \in [0 .. Len(qs) -> Int] :
        /\ 0 =< f[0] /\ m =< g[0]
        /\ \A i \in 0 .. Len(rs) : f[i] =< m
        /\ \A i \in 1 .. Len(rs) : f[i - 1] =< f[i] /\ (Answers(rs[i], t) => f[i - 1] < f[i])
        /\ \A i \in 0 .. Len(qs) : g[i] =< n
        /\ \A i \in 1 .. Len(qs) : g[i - 1] =< g[i] /\ (qs[i].target = t => g[i - 1] < g[i])
  BY DEF Owes
<1>2. PICK l \in Nat, k \in Nat : l = Len(qs) /\ k = Len(new)
  BY LenProperties
<1>3. PICK q \in Seq(Requests) : q = qs \o new
  BY ConcatProperties
<1>4. /\ Len(q) = l + k
      /\ \A i \in 1 .. l + k : q[i] = IF i =< l THEN qs[i] ELSE new[i - l]
  BY <1>2, <1>3, ConcatProperties
<1> DEFINE G == [i \in 0 .. l + k |-> IF i =< l THEN g[i] ELSE n]
<1>a. \A i \in 1 .. l : g[i - 1] =< g[i] /\ (qs[i].target = t => g[i - 1] < g[i])
  BY <1>1, <1>2
<1>5. G \in [0 .. Len(q) -> Int] /\ m =< G[0]
  BY <1>1, <1>2, <1>4
<1>6. ASSUME NEW i \in 0 .. Len(q) PROVE G[i] =< n
  BY <1>1, <1>2, <1>4
<1>7. ASSUME NEW i \in 1 .. Len(q)
      PROVE  G[i - 1] =< G[i] /\ (q[i].target = t => G[i - 1] < G[i])
  <2>1. CASE i =< l
    <3>1. i \in 1 .. l /\ i - 1 \in 0 .. l + k /\ i \in 0 .. l + k /\ i - 1 =< l
      BY <1>4, <2>1
    <3>2. G[i] = g[i] /\ G[i - 1] = g[i - 1] /\ q[i] = qs[i]
      BY <1>4, <2>1, <3>1
    <3> HIDE DEF G
    <3>3. QED
      BY <1>a, <3>1, <3>2
  <2>2. CASE i > l
    <3>1. i - l \in 1 .. k /\ q[i] = new[i - l]
      BY <1>2, <1>4, <2>2
    <3>2. q[i].target # t
      BY <1>2, <3>1
    <3>3. G[i] = n /\ G[i - 1] =< n
      BY <1>1, <1>2, <1>4, <2>2
    <3>4. QED
      BY <3>2, <3>3
  <2>3. QED
    BY <1>2, <1>4, <2>1, <2>2
<1> HIDE DEF G
<1>8. Owes(rs, q, t, n)
  BY <1>1, <1>5, <1>6, <1>7 DEF Owes
<1>9. QED
  BY <1>3, <1>8

(* Of several requests for different targets at most one is for t.         *)
LEMMA OwesOneMore ==
  ASSUME NEW rs \in Seq(Messages), NEW qs \in Seq(Requests), NEW new \in Seq(Requests),
         NEW t \in Ids, NEW n \in Nat, Owes(rs, qs, t, n),
         Distinct(new)
  PROVE  Owes(rs, qs \o new, t, n + 1)
<1>1. PICK m \in Int, f \in [0 .. Len(rs) -> Int], g \in [0 .. Len(qs) -> Int] :
        /\ 0 =< f[0] /\ m =< g[0]
        /\ \A i \in 0 .. Len(rs) : f[i] =< m
        /\ \A i \in 1 .. Len(rs) : f[i - 1] =< f[i] /\ (Answers(rs[i], t) => f[i - 1] < f[i])
        /\ \A i \in 0 .. Len(qs) : g[i] =< n
        /\ \A i \in 1 .. Len(qs) : g[i - 1] =< g[i] /\ (qs[i].target = t => g[i - 1] < g[i])
  BY DEF Owes
<1>2. PICK l \in Nat, k \in Nat : l = Len(qs) /\ k = Len(new)
  BY LenProperties
<1>3. PICK q \in Seq(Requests) : q = qs \o new
  BY ConcatProperties
<1>4. /\ Len(q) = l + k
      /\ \A i \in 1 .. l + k : q[i] = IF i =< l THEN qs[i] ELSE new[i - l]
  BY <1>2, <1>3, ConcatProperties
<1> DEFINE Asked(i) == \E j \in 1 .. i : new[j].target = t
           G == [i \in 0 .. l + k |-> IF i =< l THEN g[i] ELSE IF Asked(i - l) THEN n + 1 ELSE n]
<1>a. \A i \in 0 .. l : g[i] \in Int /\ g[i] =< n
  BY <1>1, <1>2
<1>5. G \in [0 .. Len(q) -> Int] /\ m =< G[0]
  BY <1>1, <1>2, <1>4
<1>6. ASSUME NEW i \in 0 .. Len(q) PROVE G[i] =< n + 1
  <2>1. CASE i =< l
    BY <1>a, <1>4, <2>1
  <2>2. CASE i > l
    <3>1. G[i] = n + 1 \/ G[i] = n
      BY <1>4, <2>2
    <3> HIDE DEF G
    <3>2. QED
      BY <3>1
  <2>3. QED
    BY <1>4, <2>1, <2>2
<1>7. ASSUME NEW i \in 1 .. Len(q)
      PROVE  G[i - 1] =< G[i] /\ (q[i].target = t => G[i - 1] < G[i])
  <2>1. CASE i =< l
    BY <1>1, <1>2, <1>4, <2>1
  <2>2. CASE i > l
    <3>1. i - l \in 1 .. k /\ q[i] = new[i - l]
      BY <1>2, <1>4, <2>2
    <3>2. G[i] = IF Asked(i - l) THEN n + 1 ELSE n
      BY <1>2, <1>4, <2>2
    <3>3. G[i - 1] = IF i - 1 = l THEN g[l] ELSE IF Asked((i - l) - 1) THEN n + 1 ELSE n
      <4>1. i - 1 \in 0 .. l + k /\ (i - 1) - l = (i - l) - 1 /\ (i - 1 =< l <=> i - 1 = l)
        BY <1>4, <2>2
      <4> HIDE DEF Asked
      <4>2. QED
        BY <4>1
    <3>4. Asked((i - l) - 1) => Asked(i - l)
      BY <3>1
    <3>5. q[i].target = t => Asked(i - l) /\ ~Asked((i - l) - 1)
      <4> SUFFICES ASSUME new[i - l].target = t PROVE Asked(i - l) /\ ~Asked((i - l) - 1)
        BY <3>1
      <4>1. Asked(i - l)
        BY <3>1
      <4>2. ASSUME NEW j \in 1 .. (i - l) - 1, new[j].target = t PROVE FALSE
        <5>1. j \in 1 .. Len(new) /\ i - l \in 1 .. Len(new) /\ j # i - l
          BY <1>2, <3>1
        <5>2. QED
          BY <4>2, <5>1 DEF Distinct
      <4>3. QED
        BY <4>1, <4>2
    <3>6. g[l] =< n /\ g[l] \in Int
      BY <1>1, <1>2
    <3> HIDE DEF Asked, G
    <3>7. QED
      BY <3>2, <3>3, <3>4, <3>5, <3>6
  <2>3. QED
    BY <1>2, <1>4, <2>1, <2>2
<1> HIDE DEF G
<1>8. Owes(rs, q, t, n + 1)
  BY <1>1, <1>5, <1>6, <1>7 DEF Owes
<1>9. QED
  BY <1>3, <1>8

(* Messages that answer nothing.                                           *)
LEMMA OwesTold ==
  ASSUME NEW rs \in Seq(Messages), NEW qs \in Seq(Requests), NEW new \in Seq(Messages),
         NEW t \in Ids, NEW n \in Nat, Owes(rs, qs, t, n),
         \A i \in 1 .. Len(new) : ~Answers(new[i], t)
  PROVE  Owes(rs \o new, qs, t, n)
<1>1. PICK m \in Int, f \in [0 .. Len(rs) -> Int], g \in [0 .. Len(qs) -> Int] :
        /\ 0 =< f[0] /\ m =< g[0]
        /\ \A i \in 0 .. Len(rs) : f[i] =< m
        /\ \A i \in 1 .. Len(rs) : f[i - 1] =< f[i] /\ (Answers(rs[i], t) => f[i - 1] < f[i])
        /\ \A i \in 0 .. Len(qs) : g[i] =< n
        /\ \A i \in 1 .. Len(qs) : g[i - 1] =< g[i] /\ (qs[i].target = t => g[i - 1] < g[i])
  BY DEF Owes
<1>2. PICK l \in Nat, k \in Nat : l = Len(rs) /\ k = Len(new)
  BY LenProperties
<1>3. PICK r \in Seq(Messages) : r = rs \o new
  BY ConcatProperties
<1>4. /\ Len(r) = l + k
      /\ \A i \in 1 .. l + k : r[i] = IF i =< l THEN rs[i] ELSE new[i - l]
  BY <1>2, <1>3, ConcatProperties
<1> DEFINE F == [i \in 0 .. l + k |-> IF i =< l THEN f[i] ELSE m]
<1>5. F \in [0 .. Len(r) -> Int] /\ 0 =< F[0]
  BY <1>1, <1>2, <1>4
<1>6. ASSUME NEW i \in 0 .. Len(r) PROVE F[i] =< m
  BY <1>1, <1>2, <1>4
<1>7. ASSUME NEW i \in 1 .. Len(r)
      PROVE  F[i - 1] =< F[i] /\ (Answers(r[i], t) => F[i - 1] < F[i])
  <2>1. CASE i =< l
    BY <1>1, <1>2, <1>4, <2>1
  <2>2. CASE i > l
    <3>1. i - l \in 1 .. k /\ r[i] = new[i - l]
      BY <1>2, <1>4, <2>2
    <3>2. ~Answers(r[i], t)
      BY <1>2, <3>1
    <3>3. F[i] = m /\ F[i - 1] =< m
      BY <1>1, <1>2, <1>4, <2>2
    <3>4. QED
      BY <3>2, <3>3
  <2>3. QED
    BY <1>2, <1>4, <2>1, <2>2
<1> HIDE DEF F
<1>8. Owes(r, qs, t, n)
  BY <1>1, <1>5, <1>6, <1>7 DEF Owes
<1>9. QED
  BY <1>3, <1>8

(* The oldest request is answered, by the first of the new messages.       *)
LEMMA OwesAnswered ==
  ASSUME NEW rs \in Seq(Messages), NEW qs \in Seq(Requests), NEW new \in Seq(Messages),
         NEW t \in Ids, NEW n \in Nat, Owes(rs, qs, t, n),
         qs # << >>, new # << >>,
         Answers(new[1], t) => qs[1].target = t,
         AnswersOnlyFirst(new, t)
  PROVE  Owes(rs \o new, Tail(qs), t, n)
<1>1. PICK m \in Int, f \in [0 .. Len(rs) -> Int], g \in [0 .. Len(qs) -> Int] :
        /\ 0 =< f[0] /\ m =< g[0]
        /\ \A i \in 0 .. Len(rs) : f[i] =< m
        /\ \A i \in 1 .. Len(rs) : f[i - 1] =< f[i] /\ (Answers(rs[i], t) => f[i - 1] < f[i])
        /\ \A i \in 0 .. Len(qs) : g[i] =< n
        /\ \A i \in 1 .. Len(qs) : g[i - 1] =< g[i] /\ (qs[i].target = t => g[i - 1] < g[i])
  BY DEF Owes
<1>2. PICK l \in Nat, k \in Nat, h \in Nat : l = Len(rs) /\ k = Len(new) /\ h = Len(qs) /\ h >= 1
  BY LenProperties, EmptySeq
<1>3. PICK r \in Seq(Messages) : r = rs \o new
  BY ConcatProperties
<1>4. /\ Len(r) = l + k
      /\ \A i \in 1 .. l + k : r[i] = IF i =< l THEN rs[i] ELSE new[i - l]
  BY <1>2, <1>3, ConcatProperties
<1>5. PICK q \in Seq(Requests) : q = Tail(qs)
  BY HeadTailProperties
<1>6. /\ Len(q) = h - 1
      /\ \A i \in 1 .. h - 1 : q[i] = qs[i + 1]
  BY <1>2, <1>5, HeadTailProperties
<1> DEFINE F == [i \in 0 .. l + k |-> IF i =< l THEN f[i] ELSE g[1]]
           G == [i \in 0 .. h - 1 |-> g[i + 1]]
<1>a. g[0] \in Int /\ g[1] \in Int /\ m =< g[0] /\ g[0] =< g[1] /\ (qs[1].target = t => g[0] < g[1])
  <2>1. 0 \in 0 .. Len(qs) /\ 1 \in 0 .. Len(qs) /\ 1 \in 1 .. Len(qs) /\ 1 - 1 = 0
    BY <1>2
  <2>2. g[1 - 1] =< g[1] /\ (qs[1].target = t => g[1 - 1] < g[1]) /\ m =< g[0]
    BY <1>1, <2>1
  <2>3. QED
    BY <2>1, <2>2
<1>b. \A i \in 0 .. l : f[i] \in Int /\ f[i] =< m /\ 0 =< f[0]
  BY <1>1, <1>2
<1>7. F \in [0 .. Len(r) -> Int] /\ 0 =< F[0]
  BY <1>4, <1>a, <1>b
<1>8. ASSUME NEW i \in 0 .. Len(r) PROVE F[i] =< g[1]
  BY <1>4, <1>a, <1>b, SMTT(60)
<1>9. ASSUME NEW i \in 1 .. Len(r)
      PROVE  F[i - 1] =< F[i] /\ (Answers(r[i], t) => F[i - 1] < F[i])
  <2>1. CASE i =< l
    BY <1>1, <1>2, <1>4, <2>1
  <2>2. CASE i = l + 1
    <3>1. 1 \in 1 .. k /\ r[i] = new[1]
      <4>1. i \in 1 .. l + k /\ ~(i =< l) /\ i - l = 1
        BY <1>4, <2>2
      <4>2. QED
        BY <1>4, <4>1
    <3>2. F[i] = g[1] /\ F[i - 1] = f[l] /\ f[l] \in Int /\ f[l] =< m
      BY <1>1, <1>2, <1>4, <2>2
    <3> HIDE DEF F
    <3>3. QED
      BY <1>a, <3>1, <3>2
  <2>3. CASE i > l + 1
    <3>1. i - l \in 2 .. k /\ r[i] = new[i - l]
      BY <1>2, <1>4, <2>3
    <3>2. ~Answers(r[i], t)
      BY <1>2, <3>1 DEF AnswersOnlyFirst
    <3>3. F[i] = g[1] /\ F[i - 1] = g[1]
      BY <1>1, <1>2, <1>4, <2>3
    <3>4. QED
      BY <1>a, <3>2, <3>3
  <2>4. QED
    BY <1>2, <1>4, <2>1, <2>2, <2>3
<1>10. G \in [0 .. Len(q) -> Int] /\ G[0] = g[1]
  BY <1>1, <1>2, <1>6
<1>11. ASSUME NEW i \in 0 .. Len(q) PROVE G[i] =< n
  BY <1>1, <1>2, <1>6
<1>12. ASSUME NEW i \in 1 .. Len(q)
       PROVE  G[i - 1] =< G[i] /\ (q[i].target = t => G[i - 1] < G[i])
  <2>1. i \in 1 .. h - 1 /\ i + 1 \in 1 .. h /\ (i + 1) - 1 = i
    BY <1>2, <1>6
  <2>2. g[i] =< g[i + 1] /\ (qs[i + 1].target = t => g[i] < g[i + 1])
    BY <1>1, <1>2, <2>1
  <2>3. G[i] = g[i + 1] /\ G[i - 1] = g[i] /\ q[i] = qs[i + 1]
    BY <1>6, <2>1
  <2>4. QED
    BY <2>2, <2>3
<1> HIDE DEF F, G
<1>13. Owes(r, q, t, n)
  <2>1. g[1] \in Int /\ g[1] =< G[0]
    BY <1>a, <1>10
  <2>2. QED
    BY <2>1, <1>7, <1>8, <1>9, <1>10, <1>11, <1>12 DEF Owes
<1>14. QED
  BY <1>3, <1>5, <1>13

(* The oldest message is read: an answer is one less.                      *)
LEMMA OwesRead ==
  ASSUME NEW rs \in Seq(Messages), NEW qs \in Seq(Requests),
         NEW t \in Ids, NEW n \in Nat, Owes(rs, qs, t, n), rs # << >>
  PROVE  /\ Owes(Tail(rs), qs, t, n)
         /\ Answers(Head(rs), t) => n - 1 \in Nat /\ Owes(Tail(rs), qs, t, n - 1)
<1>1. PICK m \in Int, f \in [0 .. Len(rs) -> Int], g \in [0 .. Len(qs) -> Int] :
        /\ 0 =< f[0] /\ m =< g[0]
        /\ \A i \in 0 .. Len(rs) : f[i] =< m
        /\ \A i \in 1 .. Len(rs) : f[i - 1] =< f[i] /\ (Answers(rs[i], t) => f[i - 1] < f[i])
        /\ \A i \in 0 .. Len(qs) : g[i] =< n
        /\ \A i \in 1 .. Len(qs) : g[i - 1] =< g[i] /\ (qs[i].target = t => g[i - 1] < g[i])
  BY DEF Owes
<1>2. PICK l \in Nat, h \in Nat : l = Len(rs) /\ l >= 1 /\ h = Len(qs)
  BY LenProperties, EmptySeq
<1>3. PICK r \in Seq(Messages) : r = Tail(rs)
  BY HeadTailProperties
<1>4. /\ Len(r) = l - 1 /\ Head(rs) = rs[1]
      /\ \A i \in 1 .. l - 1 : r[i] = rs[i + 1]
  BY <1>2, <1>3, HeadTailProperties
<1>5. ASSUME NEW d \in {0, 1}, d = 1 => Answers(rs[1], t)
      PROVE  n - d \in Nat /\ Owes(r, qs, t, n - d)
  <2> DEFINE F == [i \in 0 .. l - 1 |-> f[i + 1] - d]
             G == [i \in 0 .. h |-> g[i] - d]
  <2>1. F \in [0 .. Len(r) -> Int] /\ G \in [0 .. Len(qs) -> Int] /\ m - d \in Int
    BY <1>1, <1>2, <1>4, SMTT(60)
  <2>a. \A i \in 0 .. l : f[i] \in Int /\ f[i] =< m
    BY <1>1, <1>2
  <2>b. \A i \in 0 .. h : g[i] \in Int /\ g[i] =< n
    BY <1>1, <1>2
  <2>c. \A i \in 1 .. h : g[i - 1] =< g[i] /\ (qs[i].target = t => g[i - 1] < g[i])
    BY <1>1, <1>2
  <2>2. f[0] \in Int /\ f[1] \in Int /\ 0 =< f[0] /\ f[0] =< f[1] /\ (d = 1 => f[0] < f[1]) /\ f[1] =< m
    BY <1>1, <1>2, <1>5, SMTT(60)
  <2>3. g[0] \in Int /\ g[0] =< n /\ m =< g[0]
    BY <1>1, <1>2, SMTT(60)
  <2>4. n - d \in Nat
    BY <2>2, <2>3
  <2>5. F[0] = f[1] - d /\ G[0] = g[0] - d
    BY <1>2
  <2>6. ASSUME NEW i \in 0 .. Len(r) PROVE F[i] =< m - d
    <3>1. i + 1 \in 0 .. Len(rs) /\ i \in 0 .. l - 1
      BY <1>2, <1>4
    <3>2. f[i + 1] =< m /\ f[i + 1] \in Int
      BY <1>1, <3>1
    <3>3. QED
      BY <3>1, <3>2
  <2>7. ASSUME NEW i \in 1 .. Len(r)
        PROVE  F[i - 1] =< F[i] /\ (Answers(r[i], t) => F[i - 1] < F[i])
    <3>1. i + 1 \in 1 .. Len(rs) /\ (i + 1) - 1 = i /\ i \in 0 .. l - 1 /\ i - 1 \in 0 .. l - 1
      BY <1>2, <1>4
    <3>2. f[i] =< f[i + 1] /\ (Answers(rs[i + 1], t) => f[i] < f[i + 1])
      BY <1>1, <3>1
    <3>3. F[i] = f[i + 1] - d /\ F[i - 1] = f[i] - d /\ r[i] = rs[i + 1]
      BY <1>2, <1>4, <3>1
    <3>4. f[i] \in Int /\ f[i + 1] \in Int
      BY <1>2, <2>a, <3>1
    <3> HIDE DEF F
    <3>5. QED
      BY <3>2, <3>3, <3>4
  <2>8. ASSUME NEW i \in 0 .. Len(qs) PROVE G[i] =< n - d
    BY <1>2, <2>b
  <2>9. ASSUME NEW i \in 1 .. Len(qs)
        PROVE  G[i - 1] =< G[i] /\ (qs[i].target = t => G[i - 1] < G[i])
    <3>1. i \in 1 .. h /\ i \in 0 .. h /\ i - 1 \in 0 .. h
      BY <1>2
    <3>2. G[i] = g[i] - d /\ G[i - 1] = g[i - 1] - d /\ g[i] \in Int /\ g[i - 1] \in Int
      BY <2>b, <3>1
    <3> HIDE DEF G
    <3>3. QED
      BY <2>c, <3>1, <3>2
  <2>10. 0 =< F[0] /\ m - d =< G[0]
    <3> HIDE DEF F, G
    <3>1. QED
      BY <2>2, <2>3, <2>5
  <2> HIDE DEF F, G
  <2>11. QED
    BY <2>1, <2>4, <2>6, <2>7, <2>8, <2>9, <2>10 DEF Owes
<1>6. QED
  BY <1>3, <1>4, <1>5

-----------------------------------------------------------------------------
(* Requests.                                                               *)

LEMMA IdsFinite ==
  /\ Query \in Ids /\ Ids \subseteq Nat
  /\ \A ts \in SUBSET Ids : IsFiniteSet(ts)
<1>1. Query \in Ids /\ Ids \subseteq Nat /\ IsFiniteSet(Ids)
  BY WatchAssumption, FS_Interval DEF Ids, Query
<1>2. QED
  BY <1>1, FS_Subset

LEMMA LimboKeys ==
  ASSUME NEW key \in Limbos
  PROVE  /\ DOMAIN key \subseteq 1 .. MaxLimbo /\ DOMAIN key \subseteq Ids
         /\ Query \notin DOMAIN key
         /\ \A t \in DOMAIN key : key[t] \in Docs
         /\ key \in [DOMAIN key -> Docs]
<1>1. PICK D \in SUBSET (1 .. MaxLimbo) : key \in [D -> Docs]
  BY DEF Limbos
<1>2. QED
  BY <1>1, WatchAssumption DEF Ids, Query

LEMMA SentFields ==
  ASSUME NEW c \in Clients, NEW op \in {"watch", "unwatch"}, NEW ts \in SUBSET Ids,
         op = "watch" => ts \subseteq DOMAIN c.key \cup {Query},
         NEW order, IsOrder(order, ts), NEW e, e = SendInOrder(c, op, order)
  PROVE  /\ e \in Clients /\ KeepsRest(c, e) /\ KeepsLimbo(c, e)
         /\ ~c.open => e = c
         /\ Counts(c, ts, e)
         /\ \E new \in Seq(Requests) : Asks(c, op, ts, e, new) /\ AsksAll(c, op, ts, new)
<1>1. CASE ~c.open
  <2>1. e = c
    BY <1>1 DEF SendInOrder
  <2>2. c.requests \in Seq(Requests)
    BY DEF Clients
  <2>3. << >> \in Seq(Requests) /\ Len(<< >>) = 0 /\ c.requests \o << >> = c.requests
    BY <2>2, ConcatEmptySeq
  <2>4. \E new \in Seq(Requests) : Asks(c, op, ts, e, new) /\ AsksAll(c, op, ts, new)
    <3>1. PICK new \in Seq(Requests) : new = << >>
      BY <2>3
    <3>2. Len(new) = 0 /\ e.requests = c.requests \o new
      BY <2>1, <2>3, <3>1, Zenon
    <3>3. Distinct(new) /\ 1 .. Len(new) = {}
      BY <3>2 DEF Distinct
    <3>4. QED
      BY <1>1, <3>2, <3>3 DEF Asks, AsksAll
  <2>5. QED
    BY <1>1, <2>1, <2>4 DEF KeepsRest, KeepsLimbo, KeepsTarget, Counts
<1>2. CASE c.open
  <2> DEFINE new == [i \in 1 .. Len(order) |-> Request(c, op, order[i])]
             st == RecordPendingTargetRequests(c, ToSet(order))
  <2>1. /\ order \in Seq(ts) /\ Len(order) \in Nat
        /\ \A i, j \in 1 .. Len(order) : order[i] = order[j] => i = j
        /\ \A i \in 1 .. Len(order) : order[i] \in ts
        /\ ToSet(order) = ts
    BY LenProperties DEF IsOrder
  <2>2. ASSUME NEW t \in ts PROVE Request(c, op, t) \in Requests
    <3>1. c.token[t] \in Tokens
      BY DEF Clients
    <3>2. op = "watch" => Matching(c, t) \in SUBSET Docs
      <4>1. c.key \in Limbos
        BY DEF Clients
      <4>2. QED
        BY <4>1, LimboKeys DEF Matching
    <3>3. QED
      BY <3>1, <3>2 DEF Request, Requests
  <2>3. new \in Seq(Requests) /\ Len(new) = Len(order) /\ \A i \in 1 .. Len(order) : new[i] = Request(c, op, order[i])
    BY <2>1, <2>2
  <2>4. st \in [Ids -> TargetStates]
    <3>1. ASSUME NEW t \in Ids
          PROVE  (IF t \in ts THEN [c.state[t] EXCEPT !.due = @ + 1] ELSE c.state[t]) \in TargetStates
      <4>1. c.state[t] \in TargetStates
        BY DEF Clients
      <4>2. [c.state[t] EXCEPT !.due = @ + 1] \in TargetStates
        BY <4>1 DEF TargetStates
      <4>3. QED
        BY <4>1, <4>2
    <3>2. QED
      BY <2>1, <3>1 DEF st, RecordPendingTargetRequests
  <2>5. c.requests \o new \in Seq(Requests)
    BY <2>3, ConcatProperties DEF Clients
  <2> HIDE DEF new, st
  <2>6. e = [c EXCEPT !.requests = c.requests \o new, !.state = st]
    BY <1>2 DEF SendInOrder, new, st
  <2>7. e \in Clients
    BY <2>4, <2>5, <2>6 DEF Clients
  <2>8. /\ e.requests = c.requests \o new /\ e.state = st
        /\ KeepsRest(c, e) /\ KeepsLimbo(c, e)
    BY <2>6 DEF Clients, KeepsRest, KeepsLimbo
  <2>9. ASSUME NEW t \in Ids
        PROVE  /\ KeepsTarget(c, e, t)
               /\ e.state[t].due = IF c.open /\ t \in ts THEN c.state[t].due + 1 ELSE c.state[t].due
    <3>1. e.state[t] = IF t \in ts THEN [c.state[t] EXCEPT !.due = @ + 1] ELSE c.state[t]
      BY <2>1, <2>8 DEF st, RecordPendingTargetRequests
    <3>2. c.state[t] \in TargetStates
      BY DEF Clients
    <3>3. QED
      BY <1>2, <3>1, <3>2 DEF KeepsTarget, TargetStates
  <2>10. ASSUME NEW i \in 1 .. Len(new)
         PROVE  /\ new[i].target = order[i] /\ order[i] \in ts
                /\ new[i].of = IF op = "watch" THEN Matching(c, order[i]) ELSE {}
                /\ new[i].op = op /\ new[i].token = c.token[order[i]]
    <3>1. i \in 1 .. Len(order) /\ new[i] = Request(c, op, order[i])
      BY <2>3
    <3>2. QED
      BY <2>1, <3>1 DEF Request
  <2>11. Distinct(new)
    BY <2>1, <2>3, <2>10 DEF Distinct
  <2>12. AsksAll(c, op, ts, new)
    <3>1. ASSUME NEW t \in ts PROVE \E i \in 1 .. Len(new) : new[i].target = t
      <4>1. DOMAIN order = 1 .. Len(order)
        BY <2>1, LenProperties
      <4>2. PICK i \in 1 .. Len(order) : order[i] = t
        BY <2>1, <4>1 DEF ToSet
      <4>3. QED
        BY <2>3, <2>10, <4>2
    <3>2. QED
      BY <2>10, <3>1 DEF AsksAll
  <2>13. QED
    <3>1. Asks(c, op, ts, e, new)
      BY <2>8, <2>10, <2>11 DEF Asks
    <3>2. QED
      BY <1>2, <2>3, <2>7, <2>8, <2>9, <2>12, <3>1 DEF Counts
<1>3. QED
  BY <1>1, <1>2 DEF Clients

LEMMA SendFields ==
  ASSUME NEW c \in Clients, NEW op \in {"watch", "unwatch"}, NEW ts \in SUBSET Ids,
         op = "watch" => ts \subseteq DOMAIN c.key \cup {Query},
         NEW e, e = Send(c, op, ts)
  PROVE  /\ e \in Clients /\ KeepsRest(c, e) /\ KeepsLimbo(c, e)
         /\ ~c.open => e = c
         /\ Counts(c, ts, e)
         /\ \E new \in Seq(Requests) : Asks(c, op, ts, e, new) /\ AsksAll(c, op, ts, new)
<1>1. PICK order : order = SetToSeq(ts)
  OBVIOUS
<1>2. IsOrder(order, ts)
  BY <1>1, IdsFinite, AllOrders
<1>3. e = SendInOrder(c, op, order)
  BY <1>1 DEF Send
<1>4. QED
  BY <1>2, <1>3, SentFields

LEMMA ClientFields ==
  ASSUME NEW c \in Clients
  PROVE  /\ c.cache \in SUBSET Docs /\ c.keys \in SUBSET Docs /\ c.saved \in Tokens
         /\ c.open \in BOOLEAN /\ c.requests \in Seq(Requests)
         /\ c.listen \in SUBSET Ids /\ c.token \in [Ids -> Tokens]
         /\ c.state \in [Ids -> TargetStates]
         /\ c.updates \in [Docs -> {"none", "found", "missing"}]
         /\ c.resets \in SUBSET Ids /\ c.key \in Limbos /\ c.received \in SUBSET Ids
         /\ c.enqueued \in Seq(Docs) /\ c.next \in 1 .. MaxLimbo + 1 /\ c.view \in Views
  BY DEF Clients

LEMMA NextType ==
  ASSUME NEW c \in Clients
  PROVE  c.next \in Nat /\ c.next >= 1 /\ c.next =< MaxLimbo + 1
  BY WatchAssumption, ClientFields

LEMMA DueType ==
  ASSUME NEW c \in Clients, NEW t \in Ids
  PROVE  /\ c.state[t] \in TargetStates /\ c.state[t].due \in Nat
         /\ c.state[t].current \in BOOLEAN /\ c.state[t].pending \in BOOLEAN
         /\ c.state[t].token \in Tokens
         /\ c.state[t].changes \in [Docs -> {"none", "Added", "Modified", "Removed"}]
  BY ClientFields DEF TargetStates

LEMMA KnownKept ==
  ASSUME NEW c \in Clients, NEW e \in Clients, KeysFollow(c, e),
         NEW t \in Ids, NEW ks, Known(c, t, ks)
  PROVE  Known(e, t, ks)
<1>1. t \in Int /\ c.next \in Int /\ e.next \in Int
  BY IdsFinite, NextType
<1>2. QED
  BY <1>1 DEF Known, KeysFollow

LEMMA AdvancesOn ==
  ASSUME NEW a \in Clients, NEW b \in Clients, NEW c \in Clients, Advances(a, b), Advances(b, c)
  PROVE  Advances(a, c)
<1>1. a.next \in Int /\ b.next \in Int /\ c.next \in Int
  BY NextType
<1>2. \A t \in DOMAIN c.key : t \in Int
  BY IdsFinite, LimboKeys, ClientFields
<1>3. KeysFollow(a, c)
  BY <1>1, <1>2 DEF KeysFollow, Advances
<1>4. ASSUME NEW t \in Ids
      PROVE  KeepsTarget(a, c, t) /\ a.state[t].due =< c.state[t].due
  <2>1. a.state[t].due \in Nat /\ b.state[t].due \in Nat /\ c.state[t].due \in Nat
    BY DueType
  <2>2. QED
    BY <2>1 DEF Advances, KeepsTarget
<1>5. ASSUME a.open, NEW t \in c.listen PROVE t \in a.listen \/ c.state[t].due > 0
  <2>1. t \in Ids /\ b.open
    BY <1>5, ClientFields DEF Advances
  <2>2. b.state[t].due \in Nat /\ c.state[t].due \in Nat
    BY <2>1, DueType
  <2>3. QED
    BY <1>5, <2>1, <2>2 DEF Advances
<1>6. QED
  BY <1>3, <1>4, <1>5 DEF Advances

LEMMA FollowsOn ==
  ASSUME NEW a \in Clients, NEW b \in Clients, NEW c \in Clients, Follows(a, b), Follows(b, c)
  PROVE  Follows(a, c)
  BY AdvancesOn DEF Follows, KeepsRest

(* Bookkeeping of limbo targets leaves requests and answers in order.      *)
LEMMA QueueKept ==
  ASSUME NEW rs, NEW c, QueueSound(c, rs), NEW e \in Clients, KeysFollow(c, e),
         e.requests = c.requests, e.state = c.state, e.open = c.open,
         DOMAIN e.key \subseteq 1 .. e.next - 1
  PROVE  QueueSound(e, rs)
<1>1. c \in Clients
  BY DEF QueueSound
<1>2. ASSUME NEW i \in 1 .. Len(e.requests)
      PROVE  Known(e, e.requests[i].target, e.requests[i].of)
  <2>1. c.requests \in Seq(Requests)
    BY <1>1, ClientFields
  <2>2. c.requests[i] \in Requests
    BY <2>1, LenProperties
  <2>3. c.requests[i].target \in Ids /\ Known(c, c.requests[i].target, c.requests[i].of)
    BY <2>2 DEF QueueSound, RequestsSound, Requests
  <2>4. QED
    BY <1>1, <2>3, KnownKept
<1>3. QED
  BY <1>2 DEF QueueSound, PendingSound, RequestsSound, Owed

LEMMA SentKeepsQueue ==
  ASSUME NEW rs \in Seq(Messages), NEW c, QueueSound(c, rs),
         NEW op \in {"watch", "unwatch"}, NEW ts \in SUBSET Ids,
         op = "watch" => ts \subseteq DOMAIN c.key \cup {Query},
         \A t \in ts : t < c.next,
         NEW order, IsOrder(order, ts), NEW e, e = SendInOrder(c, op, order)
  PROVE  QueueSound(e, rs)
<1>1. c \in Clients
  BY DEF QueueSound
<1>2. /\ e \in Clients /\ KeepsRest(c, e) /\ KeepsLimbo(c, e)
      /\ ~c.open => e = c
  BY <1>1, SentFields
<1>3. \A t \in Ids :
        /\ KeepsTarget(c, e, t)
        /\ e.state[t].due = IF c.open /\ t \in ts THEN c.state[t].due + 1 ELSE c.state[t].due
  <2>1. Counts(c, ts, e)
    BY <1>1, SentFields
  <2>2. QED
    BY <2>1 DEF Counts
<1>a. PICK new \in Seq(Requests) : Asks(c, op, ts, e, new)
  BY <1>1, SentFields
<1>4. /\ e.requests = c.requests \o new
      /\ Distinct(new)
      /\ \A i \in 1 .. Len(new) :
           /\ new[i].target \in ts
           /\ new[i].of = IF op = "watch" THEN Matching(c, new[i].target) ELSE {}
  BY <1>a DEF Asks
<1>5. CASE ~c.open
  BY <1>2, <1>5
<1>6. CASE c.open
  <2>1. PendingSound(e)
    BY <1>3 DEF QueueSound, PendingSound, KeepsTarget
  <2>2. PICK old \in Seq(Requests) : old = c.requests
    BY <1>1, ClientFields
  <2>3. PICK q \in Seq(Requests) : q = e.requests
    BY <1>2, ClientFields
  <2>4. /\ Len(old) \in Nat /\ Len(new) \in Nat /\ Len(q) = Len(old) + Len(new)
        /\ \A i \in 1 .. Len(q) : q[i] = IF i =< Len(old) THEN old[i] ELSE new[i - Len(old)]
    BY <1>4, <2>2, <2>3, ConcatProperties, LenProperties
  <2>5. ASSUME NEW i \in 1 .. Len(q) PROVE Known(e, q[i].target, q[i].of)
    <3>1. CASE i =< Len(old)
      <4>1. i \in 1 .. Len(old) /\ q[i] = old[i]
        BY <2>4, <3>1
      <4>2. Known(c, old[i].target, old[i].of)
        BY <2>2, <4>1 DEF QueueSound, RequestsSound
      <4>3. QED
        BY <1>2, <4>1, <4>2 DEF Known, KeepsLimbo
    <3>2. CASE i > Len(old)
      <4>a. i - Len(old) \in 1 .. Len(new) /\ q[i] = new[i - Len(old)]
        BY <2>4, <3>2
      <4>1. PICK j \in 1 .. Len(new) : q[i] = new[j]
        BY <4>a
      <4>2. new[j].target \in ts /\ new[j].of = IF op = "watch" THEN Matching(c, new[j].target) ELSE {}
        BY <1>4
      <4>3. new[j].target \in DOMAIN c.key => new[j].of \subseteq {c.key[new[j].target]}
        BY <1>1, <4>2, LimboKeys, ClientFields DEF Matching
      <4>4. Known(c, new[j].target, new[j].of)
        BY <4>2, <4>3 DEF Known
      <4>5. QED
        BY <1>2, <4>1, <4>4 DEF Known, KeepsLimbo
    <3>3. QED
      BY <2>4, <3>1, <3>2
  <2>6. RequestsSound(e)
    BY <1>2, <1>6, <2>3, <2>5 DEF RequestsSound, KeepsRest
  <2>7. ASSUME NEW t \in Ids PROVE Owes(rs, q, t, e.state[t].due)
    <3>1. PICK n \in Nat : n = c.state[t].due
      BY <1>1, DueType
    <3>2. Owes(rs, old, t, n)
      BY <2>2, <3>1 DEF QueueSound, Owed
    <3>3. CASE t \in ts
      <4>1. e.state[t].due = n + 1
        BY <1>3, <1>6, <3>1, <3>3
      <4>2. Owes(rs, old \o new, t, n + 1)
        BY <1>4, <3>2, OwesOneMore
      <4>3. QED
        BY <1>4, <2>2, <2>3, <4>1, <4>2
    <3>4. CASE t \notin ts
      <4>1. e.state[t].due = n
        BY <1>3, <1>6, <3>1, <3>4
      <4>2. \A i \in 1 .. Len(new) : new[i].target # t
        BY <1>4, <3>4
      <4>3. Owes(rs, old \o new, t, n)
        BY <3>2, <4>2, OwesNoMore
      <4>4. QED
        BY <1>4, <2>2, <2>3, <4>1, <4>3
    <3>5. QED
      BY <3>3, <3>4
  <2>8. DOMAIN e.key \subseteq 1 .. e.next - 1
    BY <1>2 DEF QueueSound, KeepsLimbo
  <2>9. QED
    BY <1>2, <2>1, <2>3, <2>6, <2>7, <2>8 DEF QueueSound, Owed
<1>7. QED
  BY <1>1, <1>5, <1>6, ClientFields

-----------------------------------------------------------------------------
(* Limbo resolutions.                                                      *)

LEMMA SoundParts ==
  ASSUME NEW c, NEW rs
  PROVE  ClientSound(c, rs) <=> LimboSound(c) /\ ListenSound(c) /\ QueueSound(c, rs)
  BY DEF ClientSound, LimboSound, QueueSound

(* Requests leave all but the queue and the answers due as it was.         *)
LEMMA SentSound ==
  ASSUME NEW rs \in Seq(Messages), NEW c, ClientSound(c, rs),
         NEW op \in {"watch", "unwatch"}, NEW ts \in SUBSET Ids,
         op = "watch" => ts \subseteq DOMAIN c.key \cup {Query},
         \A t \in ts : t < c.next,
         NEW order, IsOrder(order, ts), NEW e, e = SendInOrder(c, op, order)
  PROVE  ClientSound(e, rs) /\ Follows(c, e)
<1>1. LimboSound(c) /\ ListenSound(c) /\ QueueSound(c, rs) /\ c \in Clients
  BY SoundParts DEF LimboSound
<1>2. /\ e \in Clients /\ KeepsRest(c, e) /\ KeepsLimbo(c, e)
  BY <1>1, SentFields
<1>3. \A t \in Ids :
        /\ KeepsTarget(c, e, t)
        /\ e.state[t].due = IF c.open /\ t \in ts THEN c.state[t].due + 1 ELSE c.state[t].due
  <2>1. Counts(c, ts, e)
    BY <1>1, SentFields
  <2>2. QED
    BY <2>1 DEF Counts
<1>4. QueueSound(e, rs)
  BY <1>1, SentKeepsQueue
<1>5. LimboSound(e) /\ ListenSound(e)
  BY <1>1, <1>2 DEF LimboSound, ListenSound, KeepsRest, KeepsLimbo
<1>6. ASSUME NEW t \in Ids PROVE KeepsTarget(c, e, t) /\ c.state[t].due =< e.state[t].due
  BY <1>1, <1>3, DueType
<1>7. KeysFollow(c, e)
  BY <1>1, <1>2, NextType DEF KeepsLimbo, KeysFollow
<1>8. Follows(c, e)
  BY <1>2, <1>6, <1>7 DEF Follows, Advances, KeepsRest, KeepsLimbo
<1>9. QED
  BY <1>4, <1>5, <1>8, SoundParts

LEMMA SendSound ==
  ASSUME NEW rs \in Seq(Messages), NEW c, ClientSound(c, rs),
         NEW op \in {"watch", "unwatch"}, NEW ts \in SUBSET Ids,
         op = "watch" => ts \subseteq DOMAIN c.key \cup {Query},
         \A t \in ts : t < c.next,
         NEW e, e = Send(c, op, ts)
  PROVE  ClientSound(e, rs) /\ Follows(c, e)
<1>1. PICK order : order = SetToSeq(ts)
  OBVIOUS
<1>2. IsOrder(order, ts)
  BY <1>1, IdsFinite, AllOrders
<1>3. e = SendInOrder(c, op, order)
  BY <1>1 DEF Send
<1>4. QED
  BY <1>2, <1>3, SentSound

LEMMA UnrequestedOn ==
  ASSUME NEW q \in Seq(Requests), NEW new \in Seq(Requests), Unrequested(q), Unrequested(new)
  PROVE  Unrequested(q \o new)
<1>1. PICK r : r = q \o new
  OBVIOUS
<1>2. /\ \A i \in 1 .. Len(q) : r[i] = q[i]
      /\ \A i \in 1 .. Len(r) : i \in 1 .. Len(q) \/ (i - Len(q) \in 1 .. Len(new) /\ r[i] = new[i - Len(q)])
  BY <1>1, Halves
<1>3. Unrequested(r)
  BY <1>2 DEF Unrequested
<1>4. QED
  BY <1>1, <1>3

LEMMA SparesOn ==
  ASSUME NEW a \in Clients, NEW b, NEW c, Spares(a, b), Spares(b, c)
  PROVE  Spares(a, c)
<1>1. PICK x \in Seq(Requests) : b.requests = a.requests \o x /\ Unrequested(x)
  BY DEF Spares
<1>2. PICK y \in Seq(Requests) : c.requests = b.requests \o y /\ Unrequested(y)
  BY DEF Spares
<1>3. a.requests \in Seq(Requests)
  BY ClientFields
<1>4. PICK z \in Seq(Requests) : z = x \o y /\ Unrequested(z)
  BY <1>1, <1>2, UnrequestedOn, ConcatProperties
<1>5. c.requests = a.requests \o z
  <2>1. PICK q \in Seq(Requests) : q = a.requests
    BY <1>3
  <2>2. (q \o x) \o y = q \o (x \o y)
    BY ConcatAssociative
  <2>3. QED
    BY <1>1, <1>2, <1>4, <2>1, <2>2, Zenon
<1>6. QED
  BY <1>4, <1>5 DEF Spares

LEMMA SparesSame ==
  ASSUME NEW c \in Clients, NEW e, e.requests = c.requests, e.state[Query].due = c.state[Query].due
  PROVE  Spares(c, e)
<1>1. PICK x \in Seq(Requests) : x = << >>
  BY EmptySeq
<1>2. Len(x) = 0 /\ Unrequested(x)
  BY <1>1 DEF Unrequested
<1>3. c.requests \o x = c.requests
  BY <1>1, ClientFields, ConcatEmptySeq
<1>4. QED
  BY <1>2, <1>3 DEF Spares

LEMMA SendSpares ==
  ASSUME NEW c \in Clients, NEW op \in {"watch", "unwatch"}, NEW ts \in SUBSET Ids,
         op = "watch" => ts \subseteq DOMAIN c.key \cup {Query}, Query \notin ts,
         NEW e, e = Send(c, op, ts)
  PROVE  Spares(c, e)
<1>1. Counts(c, ts, e)
  BY SendFields
<1>2. PICK new \in Seq(Requests) : Asks(c, op, ts, e, new)
  BY SendFields
<1>3. e.requests = c.requests \o new /\ Unrequested(new)
  BY <1>2 DEF Asks, Unrequested
<1>4. e.state[Query].due = c.state[Query].due
  BY <1>1, IdsFinite DEF Counts
<1>5. QED
  BY <1>3, <1>4 DEF Spares

LEMMA PumpSound ==
  ASSUME NEW rs \in Seq(Messages), NEW c, ClientSound(c, rs),
         NEW e, e = PumpEnqueuedLimboResolutions(c)
  PROVE  ClientSound(e, rs) /\ Follows(c, e) /\ Spares(c, e) /\ e.received = c.received
<1>1. LimboSound(c) /\ ListenSound(c) /\ QueueSound(c, rs) /\ c \in Clients
  BY SoundParts DEF LimboSound
<1>2. /\ c.next \in Nat /\ c.next >= 1 /\ c.next =< MaxLimbo + 1 /\ MaxLimbo \in Nat
      /\ c.key \in Limbos /\ c.enqueued \in Seq(Docs) /\ Len(c.enqueued) \in Nat
      /\ max_concurrent_limbo_resolutions \in Nat
  BY <1>1, NextType, ClientFields, LenProperties, WatchAssumption
<1>3. /\ DOMAIN c.key \subseteq 1 .. c.next - 1 /\ DOMAIN c.key \subseteq Ids
      /\ \A t \in DOMAIN c.key : c.key[t] \in Docs
      /\ Query \notin DOMAIN c.key
  BY <1>1, <1>2, LimboKeys DEF LimboSound
<1>4. /\ IsFiniteSet(DOMAIN c.key) /\ Cardinality(DOMAIN c.key) \in Nat
      /\ Cardinality(DOMAIN c.key) =< max_concurrent_limbo_resolutions
  BY <1>1, <1>3, IdsFinite, FS_CardinalityType DEF LimboSound
<1> DEFINE room == max_concurrent_limbo_resolutions - Cardinality(DOMAIN c.key)
           n == Min({room, Len(c.enqueued), MaxLimbo + 1 - c.next})
           new == c.next .. c.next + n - 1
           key == [t \in DOMAIN c.key \cup new |->
                     IF t \in new THEN c.enqueued[t - c.next + 1] ELSE c.key[t]]
           rest == SubSeq(c.enqueued, n + 1, Len(c.enqueued))
           c1 == [c EXCEPT !.key = key, !.next = c.next + n, !.enqueued = rest]
           c2 == [c1 EXCEPT !.listen = c1.listen \cup new]
<1>5. room \in Nat /\ MaxLimbo + 1 - c.next \in Nat
  BY <1>2, <1>4
<1>6. n \in Nat /\ n =< room /\ n =< Len(c.enqueued) /\ n =< MaxLimbo + 1 - c.next
  <2> HIDE DEF room
  <2>1. PICK x \in Nat, y \in Nat, z \in Nat : x = room /\ y = Len(c.enqueued) /\ z = MaxLimbo + 1 - c.next
    BY <1>2, <1>5
  <2>2. n = Min({x, y, z})
    BY <2>1
  <2> HIDE DEF n
  <2>3. Min({x, y, z}) \in {x, y, z} /\ Min({x, y, z}) =< x /\ Min({x, y, z}) =< y /\ Min({x, y, z}) =< z
    <3>1. x \in Int /\ y \in Int /\ z \in Int
      OBVIOUS
    <3>2. QED
      BY <3>1, MinOfThree, Zenon
  <2>4. QED
    BY <2>1, <2>2, <2>3
<1>7. e = Send(c2, "watch", new)
  BY DEF PumpEnqueuedLimboResolutions, StartResolutions, Listen, SendWatchRequest
<1> HIDE DEF n
<1>8. /\ new \subseteq 1 .. MaxLimbo /\ new \in SUBSET Ids
      /\ \A t \in new : t >= c.next /\ t < c.next + n /\ t - c.next + 1 \in 1 .. Len(c.enqueued)
  <2>1. PICK x \in Nat, y \in Nat, z \in Nat : x = c.next /\ y = Len(c.enqueued) /\ z = n
    BY <1>2, <1>6
  <2>2. x >= 1 /\ x + z =< MaxLimbo + 1 /\ z =< y /\ new = x .. x + z - 1 /\ Ids = 0 .. MaxLimbo
    BY <1>2, <1>6, <2>1 DEF Ids, Query
  <2> HIDE DEF new
  <2>3. ASSUME NEW t \in new
        PROVE  t \in 1 .. MaxLimbo /\ t \in Ids /\ t >= x /\ t < x + z /\ t - x + 1 \in 1 .. y
    BY <1>2, <2>2
  <2>4. QED
    BY <2>1, <2>3
<1>9. IsFiniteSet(new) /\ Cardinality(new) = n
  <2>1. c.next \in Int /\ c.next + n - 1 \in Int
    BY <1>2, <1>6
  <2>2. /\ IsFiniteSet(new)
        /\ Cardinality(new) = IF c.next > c.next + n - 1 THEN 0 ELSE (c.next + n - 1) - c.next + 1
    BY <2>1, FS_Interval
  <2>3. QED
    BY <1>2, <1>6, <2>2
<1>10. key \in [DOMAIN c.key \cup new -> Docs]
  <2>1. ASSUME NEW t \in new PROVE c.enqueued[t - c.next + 1] \in Docs
    BY <1>2, <1>8, LenProperties
  <2> HIDE DEF new
  <2>2. QED
    BY <1>3, <2>1
<1>11. /\ key \in Limbos /\ DOMAIN key = DOMAIN c.key \cup new
       /\ \A t \in DOMAIN c.key \ new : key[t] = c.key[t]
  <2>1. DOMAIN c.key \subseteq 1 .. MaxLimbo
    BY <1>2, LimboKeys
  <2>2. DOMAIN c.key \cup new \in SUBSET (1 .. MaxLimbo)
    BY <1>8, <2>1
  <2> HIDE DEF new
  <2>3. key \in Limbos
    BY <1>10, <2>2 DEF Limbos
  <2>4. QED
    BY <2>3
<1>12. rest \in Seq(Docs)
  BY <1>2, <1>6, SubSeqProperties
<1>13. c.next + n \in 1 .. MaxLimbo + 1
  BY <1>2, <1>6
<1> HIDE DEF key, rest
<1>14. /\ c1 \in Clients /\ c1.listen = c.listen /\ c1.key = key /\ c1.next = c.next + n
       /\ c1.requests = c.requests /\ c1.state = c.state /\ c1.open = c.open
       /\ KeepsRest(c, c1) /\ c1.received = c.received
  BY <1>1, <1>11, <1>12, <1>13 DEF Clients, KeepsRest
<1> HIDE DEF c1
<1>15. /\ c2 \in Clients /\ c2.listen = c.listen \cup new /\ c2.key = key /\ c2.next = c.next + n
       /\ c2.requests = c.requests /\ c2.state = c.state /\ c2.open = c.open
       /\ KeepsRest(c, c2) /\ c2.received = c.received
  <2>1. c1.listen \cup new \in SUBSET Ids
    BY <1>8, <1>14, ClientFields
  <2> HIDE DEF new
  <2>2. QED
    BY <1>14, <2>1 DEF Clients, KeepsRest
<1> HIDE DEF c2
<1>16. DOMAIN c2.key \subseteq 1 .. c2.next - 1
  BY <1>2, <1>3, <1>6, <1>8, <1>11, <1>15, SMTT(60)
<1>17. KeysFollow(c, c2)
  <2>1. ASSUME NEW t \in DOMAIN c2.key, t < c.next
        PROVE  t \in DOMAIN c.key /\ c2.key[t] = c.key[t]
    <3>1. t \notin new
      BY <1>2, <1>8, <2>1
    <3> HIDE DEF new
    <3>2. QED
      BY <1>11, <1>15, <2>1, <3>1
  <2>2. QED
    BY <1>2, <1>6, <1>15, <2>1 DEF KeysFollow
<1>18. QueueSound(c2, rs)
  BY <1>1, <1>15, <1>16, <1>17, QueueKept
<1>19. Cardinality(DOMAIN c2.key) =< max_concurrent_limbo_resolutions
  <2> HIDE DEF new
  <2>1. /\ IsFiniteSet(DOMAIN c.key \cap new) /\ Cardinality(DOMAIN c.key \cap new) \in Nat
    BY <1>4, FS_Intersection, FS_CardinalityType
  <2>2. Cardinality(DOMAIN c.key \cup new)
          = Cardinality(DOMAIN c.key) + Cardinality(new) - Cardinality(DOMAIN c.key \cap new)
    BY <1>4, <1>9, FS_Union
  <2>3. DOMAIN c2.key = DOMAIN c.key \cup new
    BY <1>11, <1>15
  <2>4. QED
    BY <1>2, <1>4, <1>6, <1>9, <2>1, <2>2, <2>3
<1>20. LimboSound(c2)
  BY <1>1, <1>11, <1>15, <1>16, <1>19 DEF LimboSound
<1>21. ListenSound(c2)
  <2> HIDE DEF new
  <2>1. QED
    BY <1>1, <1>11, <1>15 DEF ListenSound, KeepsRest
<1>22. ClientSound(c2, rs)
  BY <1>18, <1>20, <1>21, SoundParts
<1>23. new \subseteq DOMAIN c2.key \cup {Query} /\ \A t \in new : t < c2.next
  BY <1>8, <1>11, <1>15
<1>24. ClientSound(e, rs) /\ Follows(c2, e)
  <2> HIDE DEF new
  <2>1. QED
    BY <1>7, <1>8, <1>22, <1>23, SendSound
<1>25. ASSUME c.open, NEW t \in e.listen PROVE t \in c.listen \/ e.state[t].due > 0
  <2> HIDE DEF new
  <2>1. e.listen = c.listen \cup new
    BY <1>7, <1>8, <1>15, <1>23, SendFields DEF KeepsLimbo
  <2>2. CASE t \in new
    <3>1. t \in Ids /\ c2.open
      BY <1>8, <1>15, <1>25, <2>2
    <3>a. Counts(c2, new, e)
      BY <1>7, <1>8, <1>15, <1>23, SendFields
    <3>2. e.state[t].due = c2.state[t].due + 1
      BY <2>2, <3>1, <3>a DEF Counts
    <3>3. QED
      BY <1>15, <3>1, <3>2, DueType
  <2>3. QED
    BY <2>1, <2>2
<1>26. Follows(c, e)
  <2>1. e \in Clients
    BY <1>24, SoundParts DEF LimboSound
  <2>2. KeysFollow(c, e) /\ KeepsRest(c, e)
    <3>1. c.next =< e.next
      BY <1>2, <1>15, <1>17, <1>24, <2>1, NextType DEF Follows, Advances, KeysFollow
    <3>2. ASSUME NEW t \in DOMAIN e.key, t < c.next
          PROVE  t \in DOMAIN c.key /\ e.key[t] = c.key[t]
      <4>1. t \in Int
        BY <2>1, IdsFinite, LimboKeys, ClientFields
      <4>2. t < c2.next
        BY <1>2, <1>6, <1>15, <3>2, <4>1
      <4>3. t \in DOMAIN c2.key /\ e.key[t] = c2.key[t]
        BY <1>24, <4>2 DEF Follows, Advances, KeysFollow
      <4>4. QED
        BY <1>17, <3>2, <4>3 DEF KeysFollow
    <3>3. QED
      BY <1>15, <1>24, <3>1, <3>2 DEF KeysFollow, Follows, Advances, KeepsRest
  <2>3. ASSUME NEW t \in Ids PROVE KeepsTarget(c, e, t) /\ c.state[t].due =< e.state[t].due
    BY <1>15, <1>24 DEF Follows, Advances, KeepsTarget
  <2>4. QED
    BY <1>25, <2>2, <2>3 DEF Follows, Advances, KeepsRest
<1>27. e.received = c.received
  <2> HIDE DEF new
  <2>1. KeepsLimbo(c2, e)
    BY <1>7, <1>8, <1>15, <1>23, SendFields
  <2>2. QED
    BY <1>15, <2>1 DEF KeepsLimbo
<1>28. Spares(c, e)
  <2>1. Query \notin new
    BY <1>8, WatchAssumption DEF Query
  <2> HIDE DEF new
  <2>2. Spares(c2, e)
    BY <1>7, <1>8, <1>15, <1>23, <2>1, SendSpares
  <2>3. QED
    BY <1>15, <2>2 DEF Spares
<1>29. QED
  BY <1>24, <1>26, <1>27, <1>28

LEMMA EndSound ==
  ASSUME NEW rs \in Seq(Messages), NEW c, ClientSound(c, rs), NEW ks,
         NEW e, e = EndResolutions(c, ks)
  PROVE  /\ ClientSound(e, rs) /\ Follows(c, e) /\ Spares(c, e)
         /\ e.next = c.next /\ \A t \in DOMAIN e.key : t \in e.received <=> t \in c.received
<1>1. LimboSound(c) /\ ListenSound(c) /\ QueueSound(c, rs) /\ c \in Clients
  BY SoundParts DEF LimboSound
<1>2. /\ c.key \in Limbos /\ c.enqueued \in Seq(Docs) /\ c.listen \in SUBSET Ids /\ c.received \in SUBSET Ids
      /\ c.next \in Nat
  BY <1>1, ClientFields, NextType
<1>3. /\ DOMAIN c.key \subseteq 1 .. c.next - 1 /\ DOMAIN c.key \subseteq Ids /\ DOMAIN c.key \subseteq 1 .. MaxLimbo
      /\ \A t \in DOMAIN c.key : c.key[t] \in Docs
      /\ Query \notin DOMAIN c.key
  BY <1>1, <1>2, LimboKeys DEF LimboSound
<1> DEFINE ts == {t \in DOMAIN c.key : c.key[t] \in ks}
           key == [t \in DOMAIN c.key \ ts |-> c.key[t]]
           rest == Without(c.enqueued, ks)
           c1 == [c EXCEPT !.enqueued = rest, !.key = key, !.received = c.received \ ts]
           c2 == [c1 EXCEPT !.listen = c1.listen \ ts]
<1>4. e = Send(c2, "unwatch", ts)
  BY DEF EndResolutions, StopListening, SendUnwatchRequest
<1>5. ts \subseteq DOMAIN c.key /\ ts \in SUBSET Ids /\ \A t \in ts : t < c.next
  BY <1>2, <1>3
<1> HIDE DEF ts
<1>6. key \in Limbos /\ DOMAIN key = DOMAIN c.key \ ts /\ \A t \in DOMAIN key : key[t] = c.key[t]
  <2>1. key \in [DOMAIN c.key \ ts -> Docs] /\ DOMAIN c.key \ ts \in SUBSET (1 .. MaxLimbo)
    BY <1>3
  <2>2. QED
    BY <2>1 DEF Limbos
<1>7. rest \in Seq(Docs)
  BY <1>2, WithoutType
<1> HIDE DEF key, rest
<1>8. /\ c1 \in Clients /\ c1.listen = c.listen /\ c1.key = key /\ c1.next = c.next
      /\ c1.requests = c.requests /\ c1.state = c.state /\ c1.open = c.open
      /\ KeepsRest(c, c1) /\ c1.received = c.received \ ts
  BY <1>1, <1>2, <1>6, <1>7 DEF Clients, KeepsRest
<1> HIDE DEF c1
<1>9. /\ c2 \in Clients /\ c2.listen = c.listen \ ts /\ c2.key = key /\ c2.next = c.next
      /\ c2.requests = c.requests /\ c2.state = c.state /\ c2.open = c.open
      /\ KeepsRest(c, c2) /\ c2.received = c.received \ ts
  BY <1>2, <1>8 DEF Clients, KeepsRest
<1> HIDE DEF c2
<1>10. DOMAIN c2.key \subseteq 1 .. c2.next - 1 /\ KeysFollow(c, c2)
  BY <1>2, <1>3, <1>6, <1>9 DEF KeysFollow
<1>11. QueueSound(c2, rs)
  BY <1>1, <1>9, <1>10, QueueKept
<1>12. Cardinality(DOMAIN c2.key) =< max_concurrent_limbo_resolutions
  <2>1. IsFiniteSet(DOMAIN c.key) /\ DOMAIN c2.key \in SUBSET DOMAIN c.key
    BY <1>3, <1>6, <1>9, IdsFinite
  <2>2. /\ Cardinality(DOMAIN c2.key) =< Cardinality(DOMAIN c.key)
        /\ Cardinality(DOMAIN c2.key) \in Nat /\ Cardinality(DOMAIN c.key) \in Nat
    BY <2>1, FS_Subset, FS_CardinalityType
  <2>3. QED
    BY <1>1, <2>2, WatchAssumption DEF LimboSound
<1>13. LimboSound(c2)
  BY <1>1, <1>6, <1>9, <1>10, <1>12 DEF LimboSound
<1>14. ListenSound(c2)
  BY <1>1, <1>3, <1>5, <1>6, <1>9 DEF ListenSound, KeepsRest
<1>15. ClientSound(c2, rs)
  BY <1>11, <1>13, <1>14, SoundParts
<1>16. Follows(c, c2)
  <2>1. ASSUME NEW t \in Ids PROVE KeepsTarget(c, c2, t) /\ c.state[t].due =< c2.state[t].due
    BY <1>1, <1>9, DueType DEF KeepsTarget
  <2>2. QED
    BY <1>9, <1>10, <2>1 DEF Follows, Advances
<1>17. ClientSound(e, rs) /\ Follows(c2, e)
  BY <1>4, <1>5, <1>9, <1>15, SendSound
<1>18. e.next = c.next /\ \A t \in DOMAIN e.key : t \in e.received <=> t \in c.received
  <2>1. KeepsLimbo(c2, e)
    BY <1>4, <1>5, <1>9, SendFields
  <2>2. QED
    BY <1>6, <1>9, <2>1 DEF KeepsLimbo
<1>19. e \in Clients
  BY <1>17, SoundParts DEF LimboSound
<1>20. Spares(c, e)
  <2>1. Spares(c2, e)
    BY <1>3, <1>4, <1>5, <1>9, SendSpares
  <2>2. QED
    BY <1>9, <2>1 DEF Spares
<1>21. QED
  BY <1>1, <1>9, <1>16, <1>17, <1>18, <1>19, <1>20, FollowsOn

LEMMA RemoveLimboSound ==
  ASSUME NEW rs \in Seq(Messages), NEW c, ClientSound(c, rs), NEW ks,
         NEW e, e = RemoveLimboTarget(c, ks)
  PROVE  /\ ClientSound(e, rs) /\ Follows(c, e) /\ Spares(c, e)
         /\ ReceivedKept(c, e)
<1>1. PICK b : b = EndResolutions(c, ks)
  OBVIOUS
<1>2. /\ ClientSound(b, rs) /\ Follows(c, b) /\ Spares(c, b)
      /\ b.next = c.next /\ \A t \in DOMAIN b.key : t \in b.received <=> t \in c.received
  BY <1>1, EndSound
<1>3. ClientSound(e, rs) /\ Follows(b, e) /\ Spares(b, e) /\ e.received = b.received
  BY <1>1, <1>2, PumpSound DEF RemoveLimboTarget
<1>4. c \in Clients /\ b \in Clients /\ e \in Clients
  BY <1>2, <1>3, SoundParts DEF LimboSound
<1>5. ReceivedKept(c, e)
  BY <1>2, <1>3 DEF Follows, Advances, KeysFollow, ReceivedKept
<1>6. QED
  BY <1>2, <1>3, <1>4, <1>5, FollowsOn, SparesOn

LEMMA FollowsSelf ==
  ASSUME NEW c \in Clients
  PROVE  Follows(c, c)
<1>1. c.next =< c.next
  BY NextType
<1>2. ASSUME NEW t \in Ids PROVE c.state[t].due =< c.state[t].due
  BY DueType
<1>3. QED
  BY <1>1, <1>2 DEF Follows, Advances, KeepsRest, KeysFollow, KeepsTarget

LEMMA TrackLimboSound ==
  ASSUME NEW rs \in Seq(Messages), NEW c, ClientSound(c, rs), NEW ks \in SUBSET Docs,
         NEW e, e = TrackLimboChange(c, ks)
  PROVE  ClientSound(e, rs) /\ Follows(c, e) /\ Spares(c, e)
<1>1. LimboSound(c) /\ ListenSound(c) /\ QueueSound(c, rs) /\ c \in Clients
  BY SoundParts DEF LimboSound
<1> DEFINE known == {c.key[t] : t \in DOMAIN c.key} \cup ToSet(c.enqueued)
           more == c.enqueued \o SetToSeq(ks \ known)
           b == [c EXCEPT !.enqueued = more]
<1>2. CASE e = c
  BY <1>1, <1>2, FollowsSelf, SparesSame
<1>3. CASE e = PumpEnqueuedLimboResolutions(b)
  <2>1. more \in Seq(Docs)
    <3>1. IsFiniteSet(ks \ known) /\ ks \ known \subseteq Docs
      BY WatchAssumption, FS_Subset
    <3> HIDE DEF known
    <3>2. SetToSeq(ks \ known) \in Seq(ks \ known)
      BY <3>1, OrderOf
    <3>3. SetToSeq(ks \ known) \in Seq(Docs)
      BY <3>1, <3>2
    <3>4. QED
      BY <1>1, <3>3, ClientFields, ConcatProperties
  <2> HIDE DEF more
  <2>2. /\ b \in Clients /\ KeepsRest(c, b) /\ b.requests = c.requests /\ b.state = c.state
        /\ b.listen = c.listen /\ b.key = c.key /\ b.received = c.received /\ b.next = c.next
    BY <1>1, <2>1 DEF Clients, KeepsRest
  <2> HIDE DEF b
  <2>3. KeysFollow(c, b)
    BY <1>1, <2>2, NextType DEF KeysFollow
  <2>4. ClientSound(b, rs)
    <3>1. QueueSound(b, rs)
      BY <1>1, <2>2, <2>3, QueueKept DEF LimboSound, KeepsRest
    <3>2. LimboSound(b) /\ ListenSound(b)
      BY <1>1, <2>2 DEF LimboSound, ListenSound, KeepsRest
    <3>3. QED
      BY <3>1, <3>2, SoundParts
  <2>5. Follows(c, b)
    <3>1. ASSUME NEW t \in Ids PROVE KeepsTarget(c, b, t) /\ c.state[t].due =< b.state[t].due
      BY <1>1, <2>2, DueType DEF KeepsTarget
    <3>2. QED
      BY <2>2, <2>3, <3>1 DEF Follows, Advances, KeepsRest
  <2>6. ClientSound(e, rs) /\ Follows(b, e) /\ Spares(b, e)
    BY <1>3, <2>4, PumpSound
  <2>7. e \in Clients
    BY <2>6, SoundParts DEF LimboSound
  <2>8. Spares(c, e)
    BY <2>2, <2>6 DEF Spares
  <2>9. QED
    BY <1>1, <2>2, <2>5, <2>6, <2>7, <2>8, FollowsOn
<1>4. e = c \/ e = PumpEnqueuedLimboResolutions(b)
  BY DEF TrackLimboChange
<1>5. QED
  BY <1>2, <1>3, <1>4

LEMMA UpdateLimboSound ==
  ASSUME NEW rs \in Seq(Messages), NEW c, ClientSound(c, rs), NEW old,
         NEW e, e = UpdateTrackedLimboDocuments(c, old)
  PROVE  ClientSound(e, rs) /\ Follows(c, e) /\ Spares(c, e)
<1>1. PICK b : b = RemoveLimboTarget(c, old \ c.view.limbo)
  OBVIOUS
<1>2. ClientSound(b, rs) /\ Follows(c, b) /\ Spares(c, b)
  BY <1>1, RemoveLimboSound
<1>3. c \in Clients /\ b \in Clients
  BY <1>2, SoundParts DEF LimboSound
<1>4. c.view.limbo \ old \in SUBSET Docs
  BY <1>3, ClientFields DEF Views
<1>5. e = TrackLimboChange(b, c.view.limbo \ old)
  BY <1>1 DEF UpdateTrackedLimboDocuments
<1>6. ClientSound(e, rs) /\ Follows(b, e) /\ Spares(b, e)
  BY <1>2, <1>4, <1>5, TrackLimboSound
<1>7. e \in Clients
  BY <1>6, SoundParts DEF LimboSound
<1>8. QED
  BY <1>2, <1>3, <1>6, <1>7, FollowsOn, SparesOn

-----------------------------------------------------------------------------
(* The aggregator.                                                         *)

LEMMA AssertionsAreFits == AssertionsHold <=> ChangesFit(client)
  BY DEF AssertionsHold, ChangesFit, Fits

LEMMA AggregatesSound ==
  ASSUME NEW rs, NEW c, ClientSound(c, rs), c.open, NEW e, Aggregates(c, e)
  PROVE  ClientSound(e, rs)
<1>1. LimboSound(c) /\ ListenSound(c) /\ QueueSound(c, rs) /\ c \in Clients
  BY SoundParts DEF LimboSound
<1>2. /\ e \in Clients /\ KeepsLimbo(c, e)
      /\ e.requests = c.requests /\ e.open = c.open /\ e.view = c.view
  BY DEF Aggregates
<1>3. LimboSound(e) /\ ListenSound(e)
  BY <1>1, <1>2 DEF LimboSound, ListenSound, KeepsLimbo
<1>4. PendingSound(e)
  BY DEF PendingSound, Aggregates, AggregatesTarget
<1>5. RequestsSound(e)
  BY <1>1, <1>2 DEF QueueSound, RequestsSound, Known, KeepsLimbo
<1>6. Owed(e, rs)
  BY <1>1, <1>2 DEF QueueSound, Owed, Aggregates, AggregatesTarget
<1>7. QED
  BY <1>3, <1>4, <1>5, <1>6 DEF ClientSound

LEMMA AggregatesFit ==
  ASSUME NEW c, ChangesFit(c), NEW e, c \in Clients, Aggregates(c, e)
  PROVE  ChangesFit(e)
<1>1. /\ e \in Clients /\ KeepsLimbo(c, e) /\ e.view = c.view
      /\ \A t \in Ids : AggregatesTarget(c, e, t)
  BY DEF Aggregates
<1>2. ASSUME NEW t \in e.listen, IsActiveTarget(e, t), NEW k \in Docs
      PROVE  Fits(e, t, k, e.state[t].changes[k])
  <2>1. t \in Ids /\ t \in c.listen
    BY <1>1, ClientFields DEF KeepsLimbo
  <2>2. IsActiveTarget(c, t)
    BY <1>1, <1>2, <2>1 DEF IsActiveTarget, AggregatesTarget
  <2>3. Fits(c, t, k, e.state[t].changes[k])
    BY <1>1, <2>1, <2>2 DEF ChangesFit, AggregatesTarget
  <2>4. GetRemoteKeys(e, t) = GetRemoteKeys(c, t) /\ Matching(e, t) = Matching(c, t)
    BY <1>1 DEF GetRemoteKeys, Matching, KeepsLimbo
  <2>5. QED
    BY <2>3, <2>4 DEF Fits
<1>3. QED
  BY <1>2 DEF ChangesFit

LEMMA RemoteKeysMatch ==
  ASSUME NEW rs, NEW c, ClientSound(c, rs), NEW t \in Ids
  PROVE  /\ GetRemoteKeys(c, t) \subseteq Matching(c, t)
         /\ t \in c.listen => Matching(c, t) \subseteq Docs
         /\ GetRemoteKeys(c, t) \in SUBSET Docs
<1>1. c \in Clients /\ ListenSound(c)
  BY SoundParts DEF LimboSound
<1>2. c.key \in Limbos /\ c.view.synced \in SUBSET Docs
  BY <1>1, ClientFields DEF Views
<1>3. Query \notin DOMAIN c.key /\ \A u \in DOMAIN c.key : c.key[u] \in Docs
  BY <1>2, LimboKeys
<1>4. QED
  BY <1>1, <1>2, <1>3 DEF GetRemoteKeys, Matching, ListenSound

LEMMA AggregatesRecorded ==
  ASSUME NEW rs, NEW c, ClientSound(c, rs), c.open, ChangesFit(c), NEW e, Aggregates(c, e)
  PROVE  Recorded(c, e, rs)
<1>1. c \in Clients
  BY SoundParts DEF LimboSound
<1>2. ClientSound(e, rs) /\ ChangesFit(e)
  BY <1>1, AggregatesSound, AggregatesFit
<1>3. QED
  BY <1>2 DEF Recorded, Aggregates

(* A target's own state that is not touched.                               *)
LEMMA UntouchedTarget ==
  ASSUME NEW rs, NEW c, ClientSound(c, rs), NEW e, NEW t \in Ids, e.state[t] = c.state[t]
  PROVE  AggregatesTarget(c, e, t)
  BY DEF ClientSound, PendingSound, AggregatesTarget

LEMMA NewStateType ==
  /\ NewState \in TargetStates /\ NewState.due = 0 /\ \A k \in Docs : NewState.changes[k] = "none"
  /\ NewAggregator \in [Ids -> TargetStates]
<1>1. NoChanges \in [Docs -> {"none", "Added", "Modified", "Removed"}] /\ \A k \in Docs : NoChanges[k] = "none"
  BY DEF NoChanges
<1>2. << >> \in Tokens
  BY DEF Tokens
<1>3. NewState \in TargetStates /\ NewState.due = 0 /\ NewState.changes = NoChanges
  BY <1>1, <1>2 DEF NewState, TargetStates
<1>4. QED
  BY <1>1, <1>3 DEF NewAggregator

(* One target's state becomes s.                                           *)
LEMMA OneTarget ==
  ASSUME NEW rs, NEW c, ClientSound(c, rs), NEW t \in Ids, NEW s \in TargetStates,
         NEW e, e = [c EXCEPT !.state[t] = s], AggregatesTarget(c, e, t)
  PROVE  Aggregates(c, e)
<1>1. c \in Clients
  BY SoundParts DEF LimboSound
<1>2. [c.state EXCEPT ![t] = s] \in [Ids -> TargetStates]
  BY <1>1, ClientFields
<1>3. e = [c EXCEPT !.state = [c.state EXCEPT ![t] = s]]
  OBVIOUS
<1>4. /\ e \in Clients /\ KeepsLimbo(c, e) /\ e.state = [c.state EXCEPT ![t] = s]
      /\ e.requests = c.requests /\ e.open = c.open /\ e.view = c.view
  BY <1>1, <1>2, <1>3 DEF Clients, KeepsLimbo
<1>5. ASSUME NEW u \in Ids PROVE AggregatesTarget(c, e, u)
  <2>1. CASE u = t
    BY <2>1
  <2>2. CASE u # t
    <3>1. e.state[u] = c.state[u]
      BY <1>1, <1>4, <2>2, ClientFields
    <3>2. QED
      BY <3>1, UntouchedTarget
  <2>3. QED
    BY <2>1, <2>2
<1>6. QED
  BY <1>4, <1>5 DEF Aggregates

LEMMA MarkCurrentSound ==
  ASSUME NEW rs, NEW c, ClientSound(c, rs), c.open, ChangesFit(c), NEW t \in Ids,
         NEW e, e = MarkCurrent(c, t)
  PROVE  Recorded(c, e, rs)
<1>1. c \in Clients
  BY SoundParts DEF LimboSound
<1>2. CASE e = c
  BY <1>2 DEF Recorded, KeepsLimbo
<1>3. CASE e = [c EXCEPT !.state[t].pending = TRUE, !.state[t].current = TRUE]
  <2>1. PICK s : s = [c.state[t] EXCEPT !.pending = TRUE, !.current = TRUE]
    OBVIOUS
  <2>2. /\ s \in TargetStates /\ s.due = c.state[t].due /\ s.changes = c.state[t].changes /\ s.pending = TRUE
    BY <1>1, <2>1, DueType DEF TargetStates
  <2>3. e = [c EXCEPT !.state[t] = s]
    BY <1>1, <1>3, <2>1, ClientFields, ZenonT(60) DEF Clients
  <2>4. e.state[t] = s
    BY <1>1, <2>3, ClientFields DEF Clients
  <2>5. AggregatesTarget(c, e, t)
    BY <2>2, <2>4 DEF AggregatesTarget
  <2>6. QED
    BY <2>2, <2>3, <2>5, OneTarget, AggregatesRecorded
<1>4. QED
  BY <1>2, <1>3 DEF MarkCurrent

LEMMA RemoveDocumentsSound ==
  ASSUME NEW rs, NEW c, ClientSound(c, rs), c.open, ChangesFit(c), NEW t \in Ids,
         NEW ks \in SUBSET Docs, NEW e, e = RemoveDocumentsFromTarget(c, t, ks)
  PROVE  Recorded(c, e, rs)
<1>1. c \in Clients
  BY SoundParts DEF LimboSound
<1> DEFINE ch == [k \in Docs |-> IF k \notin ks THEN c.state[t].changes[k]
                                 ELSE IF k \in GetRemoteKeys(c, t) THEN "Removed" ELSE "none"]
           p == c.state[t].pending \/ ks # {}
<1>2. ch \in [Docs -> {"none", "Added", "Modified", "Removed"}] /\ p \in BOOLEAN
  BY <1>1, DueType
<1>3. ASSUME NEW k \in Docs
      PROVE  /\ ch[k] # "none" => p
             /\ ch[k] = c.state[t].changes[k] \/ Fits(c, t, k, ch[k])
  <2>1. CASE k \notin ks
    BY <2>1 DEF ClientSound, PendingSound
  <2>2. CASE k \in ks /\ k \in GetRemoteKeys(c, t)
    <3>1. ch[k] = "Removed" /\ k \in Matching(c, t)
      BY <2>2, RemoteKeysMatch
    <3> HIDE DEF ch
    <3>2. QED
      BY <2>2, <3>1 DEF Fits
  <2>3. CASE k \in ks /\ k \notin GetRemoteKeys(c, t)
    <3>1. ch[k] = "none"
      BY <2>3
    <3> HIDE DEF ch
    <3>2. QED
      BY <2>3, <3>1 DEF Fits
  <2>4. QED
    BY <2>1, <2>2, <2>3
<1>4. e = [c EXCEPT !.state[t].pending = p, !.state[t].changes = ch]
  BY <1>1, ClientFields DEF RemoveDocumentsFromTarget, Clients, TargetStates
<1> HIDE DEF ch, p
<1>5. PICK s : s = [c.state[t] EXCEPT !.pending = p, !.changes = ch]
  OBVIOUS
<1>6. /\ s \in TargetStates /\ s.due = c.state[t].due /\ s.changes = ch /\ s.pending = p
  BY <1>1, <1>2, <1>5, DueType, ZenonT(60) DEF TargetStates
<1>7. e = [c EXCEPT !.state[t] = s]
  BY <1>1, <1>4, <1>5, ClientFields DEF Clients
<1>8. e.state[t] = s
  BY <1>1, <1>7, ClientFields DEF Clients
<1>9. AggregatesTarget(c, e, t)
  BY <1>3, <1>6, <1>8 DEF AggregatesTarget
<1>10. QED
  BY <1>6, <1>7, <1>9, OneTarget, AggregatesRecorded

LEMMA RecordedOn ==
  ASSUME NEW rs, NEW a, NEW b, NEW c, Recorded(a, b, rs), Recorded(b, c, rs)
  PROVE  Recorded(a, c, rs)
  BY DEF Recorded, KeepsLimbo

LEMMA ResetTargetSound ==
  ASSUME NEW rs, NEW c, ClientSound(c, rs), c.open, ChangesFit(c), NEW t \in Ids,
         IsActiveTarget(c, t), NEW e, e = ResetTarget(c, t)
  PROVE  Recorded(c, e, rs)
<1>1. c \in Clients
  BY SoundParts DEF LimboSound
<1>2. PICK b : b = [c EXCEPT !.state[t] = NewState]
  OBVIOUS
<1>3. b.state[t] = NewState
  BY <1>1, <1>2, ClientFields DEF Clients
<1>4. AggregatesTarget(c, b, t)
  BY <1>3, NewStateType DEF IsActiveTarget, AggregatesTarget, Fits
<1>5. Recorded(c, b, rs)
  BY <1>2, <1>4, NewStateType, OneTarget, AggregatesRecorded
<1>6. GetRemoteKeys(c, t) \in SUBSET Docs
  BY RemoteKeysMatch
<1>7. Recorded(b, e, rs)
  BY <1>2, <1>5, <1>6, RemoveDocumentsSound DEF ResetTarget, Recorded
<1>8. QED
  BY <1>5, <1>7, RecordedOn

LEMMA ResetsSound ==
  ASSUME NEW rs, NEW c, ClientSound(c, rs), c.open, ChangesFit(c), NEW rt \in SUBSET Ids,
         NEW e, e = [c EXCEPT !.resets = rt]
  PROVE  Recorded(c, e, rs)
<1>1. c \in Clients
  BY SoundParts DEF LimboSound
<1>2. /\ e \in Clients /\ KeepsLimbo(c, e) /\ e.state = c.state
      /\ e.requests = c.requests /\ e.open = c.open /\ e.view = c.view
  BY <1>1 DEF Clients, KeepsLimbo
<1>3. Aggregates(c, e)
  BY <1>2, UntouchedTarget DEF Aggregates
<1>4. QED
  BY <1>3, AggregatesRecorded

(* A key that is added to or removed from an active target fits it.        *)
LEMMA ChangedFits ==
  ASSUME NEW c \in Clients, ListenSound(c), NEW t \in Ids, t \in c.listen, NEW k \in Docs,
         Known(c, t, {k}), NEW found \in BOOLEAN
  PROVE  FitsTarget(c, t, Changed(c, t, k, found))
<1>1. PICK s : s = Changed(c, t, k, found)
  OBVIOUS
<1>2. k \in Matching(c, t)
  BY DEF ListenSound, Known, Matching
<1> DEFINE v == IF found THEN IF k \in GetRemoteKeys(c, t) THEN "Modified" ELSE "Added"
                ELSE IF k \in GetRemoteKeys(c, t) THEN "Removed" ELSE "none"
<1>3. v \in {"none", "Added", "Modified", "Removed"} /\ Fits(c, t, k, v)
  BY <1>2 DEF Fits
<1>4. s = [c.state[t] EXCEPT !.pending = TRUE, !.changes[k] = v]
  BY <1>1 DEF Changed
<1> HIDE DEF v
<1>5. PICK x : x = c.state[t]
  OBVIOUS
<1>6. x \in TargetStates /\ x.changes \in [Docs -> {"none", "Added", "Modified", "Removed"}]
  BY <1>5, DueType
<1>7. /\ s \in TargetStates /\ s.due = x.due /\ s.pending = TRUE
      /\ s.changes = [x.changes EXCEPT ![k] = v]
  <2>1. PICK y : y = [x.changes EXCEPT ![k] = v]
    OBVIOUS
  <2>2. y \in [Docs -> {"none", "Added", "Modified", "Removed"}]
    BY <1>3, <1>6, <2>1
  <2>3. s = [x EXCEPT !.pending = TRUE, !.changes = y]
    BY <1>4, <1>5, <1>6, <2>1 DEF TargetStates
  <2>4. /\ s \in TargetStates /\ s.due = x.due /\ s.pending = TRUE
        /\ s.changes = y
    BY <1>6, <2>2, <2>3 DEF TargetStates
  <2>5. QED
    BY <2>1, <2>4
<1>8. ASSUME NEW j \in Docs
      PROVE  s.changes[j] = x.changes[j] \/ Fits(c, t, j, s.changes[j])
  <2>1. CASE j = k
    BY <1>3, <1>6, <1>7, <2>1
  <2>2. CASE j # k
    BY <1>6, <1>7, <2>2
  <2>3. QED
    BY <2>1, <2>2
<1>9. QED
  BY <1>1, <1>5, <1>7, <1>8 DEF FitsTarget

LEMMA DocumentChangeSound ==
  ASSUME NEW rs, NEW c, ClientSound(c, rs), c.open, ChangesFit(c),
         NEW k \in Docs, NEW found \in BOOLEAN, NEW ts \in SUBSET Ids,
         \A t \in ts : Known(c, t, {k}),
         NEW e, e = HandleDocumentChange(c, k, found, ts)
  PROVE  Recorded(c, e, rs)
<1>1. c \in Clients /\ ListenSound(c)
  BY SoundParts DEF LimboSound
<1> DEFINE active == {t \in ts : IsActiveTarget(c, t)}
           st == [t \in Ids |-> IF t \in active THEN Changed(c, t, k, found) ELSE c.state[t]]
           v == IF active = {} THEN c.updates[k] ELSE IF found THEN "found" ELSE "missing"
<1>2. ASSUME NEW t \in Ids
      PROVE  st[t] \in TargetStates /\ (st[t] = c.state[t] \/ FitsTarget(c, t, st[t]))
  <2>1. CASE t \in active
    <3>1. t \in c.listen /\ Known(c, t, {k}) /\ st[t] = Changed(c, t, k, found)
      BY <2>1 DEF IsActiveTarget
    <3> HIDE DEF st, active
    <3>2. FitsTarget(c, t, st[t])
      BY <1>1, <3>1, ChangedFits
    <3>3. QED
      BY <3>2 DEF FitsTarget
  <2>2. CASE t \notin active
    <3>1. st[t] = c.state[t]
      BY <2>2
    <3> HIDE DEF st
    <3>2. QED
      BY <1>1, <3>1, DueType
  <2>3. QED
    BY <2>1, <2>2
<1>3. st = [t \in Ids |-> st[t]]
  OBVIOUS
<1>4. v \in {"none", "found", "missing"}
  BY <1>1, ClientFields
<1>5. e = [c EXCEPT !.state = st, !.updates[k] = v]
  BY DEF HandleDocumentChange
<1> HIDE DEF st, v, active
<1>6. st \in [Ids -> TargetStates]
  BY <1>2, <1>3
<1>7. /\ e \in Clients /\ KeepsLimbo(c, e) /\ e.state = st
      /\ e.requests = c.requests /\ e.open = c.open /\ e.view = c.view
  <2>1. PICK u : u = [c.updates EXCEPT ![k] = v]
    OBVIOUS
  <2>2. u \in [Docs -> {"none", "found", "missing"}]
    BY <1>1, <1>4, <2>1, ClientFields
  <2>3. e = [c EXCEPT !.state = st, !.updates = u]
    BY <1>1, <1>5, <2>1 DEF Clients
  <2>4. QED
    BY <1>1, <1>6, <2>2, <2>3, ZenonT(60) DEF Clients, KeepsLimbo
<1>8. ASSUME NEW t \in Ids PROVE AggregatesTarget(c, e, t)
  <2>1. CASE st[t] = c.state[t]
    BY <1>7, <2>1, UntouchedTarget
  <2>2. CASE st[t] # c.state[t]
    BY <1>2, <1>7, <2>2 DEF AggregatesTarget, FitsTarget
  <2>3. QED
    BY <2>1, <2>2
<1>9. Aggregates(c, e)
  BY <1>7, <1>8 DEF Aggregates
<1>10. QED
  BY <1>9, AggregatesRecorded

LEMMA ExistenceFilterSound ==
  ASSUME NEW rs, NEW c, ClientSound(c, rs), c.open, ChangesFit(c), NEW t \in Ids,
         NEW count, NEW bloom, NEW e, e = HandleExistenceFilter(c, t, count, bloom)
  PROVE  Recorded(c, e, rs)
<1>1. c \in Clients /\ ListenSound(c) /\ DOMAIN c.key \subseteq 1 .. c.next - 1
  BY SoundParts DEF LimboSound
<1>2. CASE e = c
  BY <1>2 DEF Recorded, KeepsLimbo
<1>3. CASE t # Query /\ IsActiveTarget(c, t) /\ e = HandleDocumentChange(c, c.key[t], FALSE, {t})
  <2>1. t \in DOMAIN c.key
    BY <1>1, <1>3 DEF ListenSound, IsActiveTarget
  <2>2. c.key[t] \in Docs /\ t < c.next
    BY <1>1, <2>1, ClientFields, LimboKeys, NextType
  <2>3. Known(c, t, {c.key[t]})
    BY <2>2 DEF Known
  <2>4. QED
    BY <1>3, <2>2, <2>3, DocumentChangeSound
<1>4. CASE e = RemoveDocumentsFromTarget(c, t, GetRemoteKeys(c, t) \ bloom)
  <2>1. GetRemoteKeys(c, t) \ bloom \in SUBSET Docs
    BY RemoteKeysMatch
  <2>2. QED
    BY <1>4, <2>1, RemoveDocumentsSound
<1>5. CASE IsActiveTarget(c, t) /\ e = [ResetTarget(c, t) EXCEPT !.resets = @ \cup {t}]
  <2>1. PICK b : b = ResetTarget(c, t)
    OBVIOUS
  <2>2. Recorded(c, b, rs)
    BY <1>5, <2>1, ResetTargetSound
  <2>3. b \in Clients /\ ClientSound(b, rs) /\ ChangesFit(b) /\ b.open
    BY <2>2, SoundParts DEF Recorded, LimboSound
  <2>4. b.resets \cup {t} \in SUBSET Ids
    BY <2>3, ClientFields
  <2>5. e = [b EXCEPT !.resets = b.resets \cup {t}]
    BY <1>5, <2>1
  <2>6. Recorded(b, e, rs)
    BY <2>3, <2>4, <2>5, ResetsSound
  <2>7. QED
    BY <2>2, <2>6, RecordedOn
<1>6. QED
  BY <1>2, <1>3, <1>4, <1>5 DEF HandleExistenceFilter

-----------------------------------------------------------------------------
(* The answer to a request.                                                *)

LEMMA ReadSound ==
  ASSUME NEW rs \in Seq(Messages), rs # << >>, NEW c, ClientSound(c, rs)
  PROVE  ClientSound(c, Tail(rs))
<1>1. LimboSound(c) /\ c \in Clients /\ c.requests \in Seq(Requests)
  BY SoundParts, ClientFields DEF LimboSound
<1>2. ASSUME NEW t \in Ids PROVE Owes(Tail(rs), c.requests, t, c.state[t].due)
  <2>1. c.state[t].due \in Nat /\ Owes(rs, c.requests, t, c.state[t].due)
    BY <1>1, DueType DEF ClientSound, Owed
  <2>2. QED
    BY <1>1, <2>1, OwesRead
<1>3. QED
  BY <1>2 DEF ClientSound, Owed

LEMMA AnswerSound ==
  ASSUME NEW rs \in Seq(Messages), rs # << >>, NEW c, ClientSound(c, rs), c.open, ChangesFit(c),
         NEW t \in Ids, Answers(Head(rs), t),
         NEW s \in TargetStates, s.due = c.state[t].due - 1,
         \A k \in Docs : s.changes[k] # "none" => s.pending /\ s.due # 0,
         NEW e, e = [c EXCEPT !.state[t] = s]
  PROVE  Recorded(c, e, Tail(rs))
<1>1. LimboSound(c) /\ c \in Clients /\ c.requests \in Seq(Requests)
  BY SoundParts, ClientFields DEF LimboSound
<1>2. /\ e \in Clients /\ KeepsLimbo(c, e) /\ e.state = [c.state EXCEPT ![t] = s]
      /\ e.requests = c.requests /\ e.open = c.open /\ e.view = c.view
  BY <1>1 DEF Clients, KeepsLimbo
<1>3. e.state[t] = s /\ \A u \in Ids : u # t => e.state[u] = c.state[u]
  BY <1>1, <1>2, ClientFields
<1>4. LimboSound(e) /\ ListenSound(e)
  BY <1>2 DEF ClientSound, LimboSound, ListenSound, KeepsLimbo
<1>5. PendingSound(e)
  BY <1>3 DEF ClientSound, PendingSound
<1>6. RequestsSound(e)
  BY <1>2 DEF ClientSound, RequestsSound, Known, KeepsLimbo
<1>7. ASSUME NEW u \in Ids PROVE Owes(Tail(rs), e.requests, u, e.state[u].due)
  <2>1. c.state[u].due \in Nat /\ Owes(rs, c.requests, u, c.state[u].due)
    BY <1>1, DueType DEF ClientSound, Owed
  <2>2. CASE u = t
    <3>1. Owes(Tail(rs), c.requests, t, c.state[t].due - 1)
      BY <1>1, <2>1, <2>2, OwesRead
    <3>2. QED
      BY <1>2, <1>3, <2>2, <3>1
  <2>3. CASE u # t
    <3>1. Owes(Tail(rs), c.requests, u, c.state[u].due)
      BY <1>1, <2>1, OwesRead
    <3>2. QED
      BY <1>2, <1>3, <2>3, <3>1
  <2>4. QED
    BY <2>2, <2>3
<1>8. ChangesFit(e)
  <2> SUFFICES ASSUME NEW u \in e.listen, IsActiveTarget(e, u), NEW k \in Docs
               PROVE  Fits(e, u, k, e.state[u].changes[k])
    BY DEF ChangesFit
  <2>0. u \in Ids /\ u \in c.listen
    BY <1>1, <1>2, ClientFields DEF KeepsLimbo
  <2>1. CASE u = t
    BY <1>3, <2>1 DEF IsActiveTarget, Fits
  <2>2. CASE u # t
    <3>1. Fits(c, u, k, c.state[u].changes[k])
      BY <1>2, <1>3, <2>0, <2>2 DEF ChangesFit, IsActiveTarget
    <3>2. GetRemoteKeys(e, u) = GetRemoteKeys(c, u) /\ Matching(e, u) = Matching(c, u)
      BY <1>2 DEF GetRemoteKeys, Matching, KeepsLimbo
    <3>3. QED
      BY <1>3, <2>0, <2>2, <3>1, <3>2 DEF Fits
  <2>3. QED
    BY <2>1, <2>2
<1>9. ClientSound(e, Tail(rs))
  BY <1>4, <1>5, <1>6, <1>7 DEF ClientSound, Owed
<1>10. QED
  BY <1>2, <1>8, <1>9 DEF Recorded

LEMMA DueDown ==
  ASSUME NEW rs \in Seq(Messages), rs # << >>, NEW c, ClientSound(c, rs),
         NEW t \in Ids, Answers(Head(rs), t), NEW s, s = [c.state[t] EXCEPT !.due = @ - 1]
  PROVE  /\ s \in TargetStates /\ s.due = c.state[t].due - 1
         /\ s.pending = c.state[t].pending /\ s.changes = c.state[t].changes
         /\ \A k \in Docs : s.changes[k] # "none" => s.pending
         /\ ClearPendingChanges(s) \in TargetStates
         /\ ClearPendingChanges(s).due = s.due
         /\ \A k \in Docs : ClearPendingChanges(s).changes[k] = "none"
<1>1. LimboSound(c) /\ c \in Clients /\ c.requests \in Seq(Requests)
  BY SoundParts, ClientFields DEF LimboSound
<1>2. c.state[t].due \in Nat /\ Owes(rs, c.requests, t, c.state[t].due)
  BY <1>1, DueType DEF ClientSound, Owed
<1>3. c.state[t].due - 1 \in Nat
  BY <1>1, <1>2, OwesRead
<1>4. c.state[t] \in TargetStates
  BY <1>1, DueType
<1>5. /\ s \in TargetStates /\ s.due = c.state[t].due - 1
      /\ s.pending = c.state[t].pending /\ s.changes = c.state[t].changes
  BY <1>3, <1>4 DEF TargetStates
<1>6. NoChanges \in [Docs -> {"none", "Added", "Modified", "Removed"}]
  BY DEF NoChanges
<1>7. ClearPendingChanges(s) \in TargetStates /\ ClearPendingChanges(s).due = s.due
      /\ ClearPendingChanges(s).changes = NoChanges
  BY <1>5, <1>6 DEF ClearPendingChanges, TargetStates
<1>8. QED
  BY <1>5, <1>7 DEF NoChanges, ClientSound, PendingSound

LEMMA TargetAddedSound ==
  ASSUME NEW rs \in Seq(Messages), rs # << >>, NEW c, ClientSound(c, rs), c.open, ChangesFit(c),
         NEW t \in Ids, Answers(Head(rs), t), NEW e, e = TargetAdded(c, t)
  PROVE  Recorded(c, e, Tail(rs))
<1>1. PICK s : s = [c.state[t] EXCEPT !.due = @ - 1]
  OBVIOUS
<1>2. PICK n : n = IF s.due = 0 THEN ClearPendingChanges(s) ELSE s
  OBVIOUS
<1>3. e = [c EXCEPT !.state[t] = n]
  BY <1>1, <1>2 DEF TargetAdded
<1>4. /\ s \in TargetStates /\ s.due = c.state[t].due - 1
      /\ \A k \in Docs : s.changes[k] # "none" => s.pending
      /\ ClearPendingChanges(s) \in TargetStates
      /\ ClearPendingChanges(s).due = s.due
      /\ \A k \in Docs : ClearPendingChanges(s).changes[k] = "none"
  BY <1>1, DueDown
<1>5. /\ n \in TargetStates /\ n.due = c.state[t].due - 1
      /\ \A k \in Docs : n.changes[k] # "none" => n.pending /\ n.due # 0
  BY <1>2, <1>4
<1>6. QED
  BY <1>3, <1>5, AnswerSound

LEMMA TargetRemovedSound ==
  ASSUME NEW rs \in Seq(Messages), rs # << >>, NEW c, ClientSound(c, rs), c.open, ChangesFit(c),
         NEW t \in Ids, Answers(Head(rs), t), NEW e, e = TargetRemoved(c, t)
  PROVE  Recorded(c, e, Tail(rs))
<1>1. PICK s : s = [c.state[t] EXCEPT !.due = @ - 1]
  OBVIOUS
<1>2. PICK n : n = IF s.due = 0 THEN NewState ELSE s
  OBVIOUS
<1>3. e = [c EXCEPT !.state[t] = n]
  BY <1>1, <1>2 DEF TargetRemoved
<1>4. /\ s \in TargetStates /\ s.due = c.state[t].due - 1
      /\ \A k \in Docs : s.changes[k] # "none" => s.pending
  BY <1>1, DueDown
<1>5. /\ n \in TargetStates /\ n.due = c.state[t].due - 1
      /\ \A k \in Docs : n.changes[k] # "none" => n.pending /\ n.due # 0
  BY <1>2, <1>4, NewStateType
<1>6. QED
  BY <1>3, <1>5, AnswerSound

-----------------------------------------------------------------------------
(* RaiseWatchSnapshot.                                                     *)

LEMMA PaperworkSound ==
  ASSUME NEW rs, NEW c, ClientSound(c, rs), NEW e, KeepsWatch(c, e)
  PROVE  ClientSound(e, rs) /\ Advances(c, e)
<1>1. c \in Clients /\ e \in Clients
  BY SoundParts DEF LimboSound, KeepsWatch
<1>2. LimboSound(e) /\ ListenSound(e)
  BY DEF KeepsWatch, ClientSound, LimboSound, ListenSound
<1>3. PendingSound(e) /\ RequestsSound(e)
  BY DEF KeepsWatch, ClientSound, PendingSound, RequestsSound, Known
<1>4. Owed(e, rs)
  BY DEF KeepsWatch, ClientSound, Owed
<1>5. Advances(c, e)
  BY <1>1, NextType, DueType DEF KeepsWatch, Advances, KeysFollow, KeepsTarget
<1>6. QED
  BY <1>2, <1>3, <1>4, <1>5 DEF ClientSound

LEMMA TokensSound ==
  ASSUME NEW rs, NEW c, ClientSound(c, rs), c.open, ChangesFit(c),
         NEW numbers \in [Docs -> 0 .. MaxInputs + 1], NEW e,
         e = [c EXCEPT !.state = [t \in Ids |-> IF IsActiveTarget(c, t)
                                                THEN UpdateResumeToken(c.state[t], <<numbers>>)
                                                ELSE c.state[t]]]
  PROVE  Recorded(c, e, rs)
<1>1. c \in Clients
  BY SoundParts DEF LimboSound
<1> DEFINE st == [t \in Ids |-> IF IsActiveTarget(c, t)
                                THEN UpdateResumeToken(c.state[t], <<numbers>>) ELSE c.state[t]]
<1>2. <<numbers>> \in Tokens
  BY DEF Tokens
<1>3. ASSUME NEW t \in Ids
      PROVE  /\ st[t] \in TargetStates
             /\ st[t].due = c.state[t].due /\ st[t].changes = c.state[t].changes
             /\ c.state[t].pending => st[t].pending
  BY <1>1, <1>2, DueType DEF UpdateResumeToken, TargetStates
<1>4. st = [t \in Ids |-> st[t]]
  OBVIOUS
<1>5. e = [c EXCEPT !.state = st]
  OBVIOUS
<1> HIDE DEF st
<1>6. st \in [Ids -> TargetStates]
  BY <1>3, <1>4
<1>7. /\ e \in Clients /\ KeepsLimbo(c, e) /\ e.state = st
      /\ e.requests = c.requests /\ e.open = c.open /\ e.view = c.view
  BY <1>1, <1>5, <1>6 DEF Clients, KeepsLimbo
<1>8. ASSUME NEW t \in Ids PROVE AggregatesTarget(c, e, t)
  BY <1>3, <1>7 DEF AggregatesTarget, ClientSound, PendingSound
<1>9. Aggregates(c, e)
  BY <1>7, <1>8 DEF Aggregates
<1>10. QED
  BY <1>9, AggregatesRecorded

LEMMA SynthesizedSound ==
  ASSUME NEW rs, NEW c, ClientSound(c, rs), c.open, ChangesFit(c), NEW e, e = Synthesized(c)
  PROVE  Recorded(c, e, rs)
<1>1. c \in Clients /\ ListenSound(c) /\ DOMAIN c.key \subseteq 1 .. c.next - 1
  BY SoundParts DEF LimboSound
<1> DEFINE gone == {t \in DOMAIN c.key : /\ IsActiveTarget(c, t) /\ c.state[t].current
                                         /\ c.updates[c.key[t]] = "none"
                                         /\ c.key[t] \notin GetRemoteKeys(c, t)}
           st == [t \in Ids |-> IF t \in gone THEN Changed(c, t, c.key[t], FALSE) ELSE c.state[t]]
           u == [k \in Docs |-> IF \E t \in gone : c.key[t] = k THEN "missing" ELSE c.updates[k]]
<1>2. ASSUME NEW t \in Ids
      PROVE  st[t] \in TargetStates /\ (st[t] = c.state[t] \/ FitsTarget(c, t, st[t]))
  <2>1. CASE t \in gone
    <3>1. t \in DOMAIN c.key /\ t \in c.listen /\ st[t] = Changed(c, t, c.key[t], FALSE)
      BY <2>1 DEF IsActiveTarget
    <3> HIDE DEF st, gone
    <3>2. c.key[t] \in Docs /\ t < c.next
      BY <1>1, <3>1, ClientFields, LimboKeys, NextType
    <3>3. Known(c, t, {c.key[t]})
      BY <3>2 DEF Known
    <3>4. FitsTarget(c, t, st[t])
      BY <1>1, <3>1, <3>2, <3>3, ChangedFits
    <3>5. QED
      BY <3>4 DEF FitsTarget
  <2>2. CASE t \notin gone
    <3>1. st[t] = c.state[t]
      BY <2>2
    <3> HIDE DEF st
    <3>2. QED
      BY <1>1, <3>1, DueType
  <2>3. QED
    BY <2>1, <2>2
<1>3. st = [t \in Ids |-> st[t]]
  OBVIOUS
<1>4. u \in [Docs -> {"none", "found", "missing"}]
  BY <1>1, ClientFields
<1>5. e = [c EXCEPT !.state = st, !.updates = u]
  BY DEF Synthesized
<1> HIDE DEF st, u, gone
<1>6. st \in [Ids -> TargetStates]
  BY <1>2, <1>3
<1>7. /\ e \in Clients /\ KeepsLimbo(c, e) /\ e.state = st
      /\ e.requests = c.requests /\ e.open = c.open /\ e.view = c.view
  BY <1>1, <1>4, <1>5, <1>6 DEF Clients, KeepsLimbo
<1>8. ASSUME NEW t \in Ids PROVE AggregatesTarget(c, e, t)
  <2>1. CASE st[t] = c.state[t]
    BY <1>7, <2>1, UntouchedTarget
  <2>2. CASE st[t] # c.state[t]
    BY <1>2, <1>7, <2>2 DEF AggregatesTarget, FitsTarget
  <2>3. QED
    BY <2>1, <2>2
<1>9. Aggregates(c, e)
  BY <1>7, <1>8 DEF Aggregates
<1>10. QED
  BY <1>9, AggregatesRecorded

(* A step of the snapshot: the client stays sound, and advances.           *)
LEMMA RenewSound ==
  ASSUME NEW rs \in Seq(Messages), NEW c, ClientSound(c, rs), NEW changed \in SUBSET Ids,
         NEW e, e = RenewTargets(c, changed)
  PROVE  ClientSound(e, rs) /\ Advances(c, e)
<1>1. c \in Clients /\ ListenSound(c) /\ DOMAIN c.key \subseteq 1 .. c.next - 1 /\ c.received \subseteq DOMAIN c.key
  BY SoundParts DEF LimboSound
<1> DEFINE renewed == c.resets \cap c.listen
           tok == [t \in Ids |-> IF t \in renewed THEN << >>
                                 ELSE IF t \in changed /\ c.state[t].token # << >>
                                 THEN c.state[t].token ELSE c.token[t]]
           r == [c EXCEPT !.token = tok]
           u == Send(r, "unwatch", renewed)
<1>2. tok \in [Ids -> Tokens]
  <2>1. ASSUME NEW t \in Ids PROVE c.state[t].token \in Tokens /\ c.token[t] \in Tokens /\ << >> \in Tokens
    BY <1>1, DueType, ClientFields DEF Tokens
  <2>2. QED
    BY <2>1
<1>3. e = Send(u, "watch", renewed)
  BY DEF RenewTargets, SendWatchRequest, SendUnwatchRequest
<1> HIDE DEF tok
<1>4. KeepsWatch(c, r) /\ r.key = c.key /\ r.next = c.next
  BY <1>1, <1>2 DEF Clients, KeepsWatch
<1>5. ClientSound(r, rs) /\ Advances(c, r)
  <2> HIDE DEF r
  <2>1. QED
    BY <1>4, PaperworkSound
<1>6. /\ renewed \in SUBSET Ids /\ renewed \subseteq DOMAIN c.key \cup {Query}
      /\ \A t \in renewed : t < c.next
  <2>1. renewed \subseteq DOMAIN c.key \cup {Query} /\ renewed \in SUBSET Ids
    BY <1>1, ClientFields DEF ListenSound
  <2>2. QED
    BY <1>1, <2>1, NextType DEF Query
<1> HIDE DEF r, renewed
<1>7. r \in Clients
  BY <1>4 DEF KeepsWatch
<1>8. ClientSound(u, rs) /\ Follows(r, u)
  BY <1>4, <1>5, <1>6, SendSound
<1>9. u \in Clients /\ KeepsLimbo(r, u)
  BY <1>6, <1>7, SendFields
<1> HIDE DEF u
<1>10. ClientSound(e, rs) /\ Follows(u, e)
  BY <1>3, <1>4, <1>6, <1>8, <1>9, SendSound DEF KeepsLimbo
<1>11. e \in Clients
  BY <1>10, SoundParts DEF LimboSound
<1>12. Advances(r, u) /\ Advances(u, e)
  BY <1>8, <1>10 DEF Follows
<1>13. Advances(c, u)
  BY <1>1, <1>5, <1>7, <1>9, <1>12, AdvancesOn
<1>14. QED
  BY <1>1, <1>9, <1>10, <1>11, <1>12, <1>13, AdvancesOn

LEMMA LimboReceivedSound ==
  ASSUME NEW rs, NEW c, ClientSound(c, rs), NEW changed, NEW e, e = LimboReceived(c, changed)
  PROVE  ClientSound(e, rs) /\ Advances(c, e)
<1>1. c \in Clients /\ c.received \subseteq DOMAIN c.key
  BY SoundParts DEF LimboSound
<1> DEFINE rec == {t \in DOMAIN c.key :
                    IF t \in changed /\ Keys(c.state[t], "Added") # {} THEN TRUE
                    ELSE t \in c.received /\ (t \in changed => Keys(c.state[t], "Removed") = {})}
<1>2. rec \subseteq DOMAIN c.key
  OBVIOUS
<1>3. e = [c EXCEPT !.received = rec]
  BY DEF LimboReceived
<1> HIDE DEF rec
<1>4. rec \in SUBSET Ids
  BY <1>1, <1>2, ClientFields, LimboKeys
<1>5. KeepsWatch(c, e)
  BY <1>1, <1>2, <1>3, <1>4 DEF Clients, KeepsWatch
<1>6. QED
  BY <1>5, PaperworkSound

LEMMA LocalStoreSound ==
  ASSUME NEW rs, NEW c, ClientSound(c, rs), NEW changed, NEW skip,
         NEW e, e = LocalStoreApplies(c, changed, skip)
  PROVE  ClientSound(e, rs) /\ Advances(c, e)
<1>1. c \in Clients /\ c.received \subseteq DOMAIN c.key
  BY SoundParts DEF LimboSound
<1> DEFINE ks == IF Query \in changed
                 THEN (c.keys \ Keys(c.state[Query], "Removed")) \cup Keys(c.state[Query], "Added") ELSE c.keys
           sv == IF Query \notin changed \/ skip THEN c.saved ELSE c.token[Query]
           ca == {k \in Docs : IF c.updates[k] = "none" THEN k \in c.cache ELSE c.updates[k] = "found"}
<1>2. ks \in SUBSET Docs /\ ca \in SUBSET Docs
  BY <1>1, ClientFields DEF Keys
<1>3. sv \in Tokens
  BY <1>1, ClientFields, IdsFinite
<1>4. e = [c EXCEPT !.keys = ks, !.saved = sv, !.cache = ca]
  BY DEF LocalStoreApplies
<1> HIDE DEF ks, sv, ca
<1>5. KeepsWatch(c, e)
  BY <1>1, <1>2, <1>3, <1>4 DEF Clients, KeepsWatch
<1>6. QED
  BY <1>5, PaperworkSound

LEMMA ApplyChangesSound ==
  ASSUME NEW rs, NEW c, ClientSound(c, rs), NEW change, NEW reset,
         NEW e, e = ApplyChanges(c, change, reset)
  PROVE  ClientSound(e, rs) /\ Advances(c, e)
<1>1. c \in Clients /\ c.received \subseteq DOMAIN c.key
  BY SoundParts DEF LimboSound
<1>2. c.view \in Views /\ c.cache \in SUBSET Docs /\ c.state[Query].current \in BOOLEAN
  BY <1>1, ClientFields, DueType, IdsFinite
<1> DEFINE s == c.state[Query]
           v == IF change
                THEN [c.view EXCEPT !.synced = (@ \ Keys(s, "Removed")) \cup Keys(s, "Added"),
                                    !.current = s.current]
                ELSE c.view
           limbo == IF v.current /\ ~reset THEN c.cache \ v.synced ELSE v.limbo
           st == IF limbo = {} /\ v.current /\ ~reset THEN "Synced" ELSE "Local"
           w == [v EXCEPT !.limbo = limbo, !.state = st]
<1>3. v \in Views /\ v.up = c.view.up
  <2>1. PICK sy : sy = (c.view.synced \ Keys(s, "Removed")) \cup Keys(s, "Added")
    OBVIOUS
  <2>2. sy \in SUBSET Docs
    BY <1>2, <2>1 DEF Keys, Views
  <2>3. v = IF change THEN [c.view EXCEPT !.synced = sy, !.current = s.current] ELSE c.view
    BY <2>1
  <2> HIDE DEF v
  <2>4. QED
    BY <1>2, <2>2, <2>3 DEF Views
<1>4. e = [c EXCEPT !.view = w]
  BY DEF ApplyChanges
<1> HIDE DEF v
<1>5. limbo \in SUBSET Docs /\ st \in {"Local", "Synced"}
  BY <1>2, <1>3 DEF Views
<1> HIDE DEF limbo, st
<1>6. w \in Views /\ w.up = c.view.up
  BY <1>3, <1>5 DEF Views
<1> HIDE DEF w
<1>7. KeepsWatch(c, e)
  BY <1>1, <1>4, <1>6 DEF Clients, KeepsWatch
<1>8. QED
  BY <1>7, PaperworkSound

LEMMA AdvancesSelf ==
  ASSUME NEW c \in Clients
  PROVE  Advances(c, c)
  BY FollowsSelf DEF Follows

LEMMA EmitSound ==
  ASSUME NEW rs \in Seq(Messages), NEW c, ClientSound(c, rs), NEW change, NEW reset,
         NEW e, e = EmitNewSnapshots(c, change, reset)
  PROVE  ClientSound(e, rs) /\ Advances(c, e)
<1>1. c \in Clients
  BY SoundParts DEF LimboSound
<1>2. CASE ~c.view.up
  BY <1>1, <1>2, AdvancesSelf DEF EmitNewSnapshots
<1>3. CASE c.view.up
  <2>1. PICK b : b = ApplyChanges(c, change, reset)
    OBVIOUS
  <2>2. e = UpdateTrackedLimboDocuments(b, c.view.limbo)
    BY <1>3, <2>1 DEF EmitNewSnapshots
  <2>3. ClientSound(b, rs) /\ Advances(c, b)
    BY <2>1, ApplyChangesSound
  <2>4. ClientSound(e, rs) /\ Follows(b, e)
    BY <2>2, <2>3, UpdateLimboSound
  <2>5. b \in Clients /\ e \in Clients /\ Advances(b, e)
    BY <2>3, <2>4, SoundParts DEF LimboSound, Follows
  <2>6. QED
    BY <1>1, <2>3, <2>4, <2>5, AdvancesOn
<1>4. QED
  BY <1>2, <1>3

(* Once the event is applied, what it was made of is forgotten: a target   *)
(* that is active now has been part of it, or had no changes.              *)
LEMMA ClearedSound ==
  ASSUME NEW rs, NEW c, NEW n, ClientSound(c, rs), ClientSound(n, rs), Advances(c, n), c.open,
         NEW changed, changed = {t \in Ids : IsActiveTarget(c, t) /\ c.state[t].pending},
         NEW e, e = Cleared(n, changed)
  PROVE  Handled(c, e, rs)
<1>1. c \in Clients /\ n \in Clients
  BY SoundParts DEF LimboSound
<1> DEFINE st == [t \in Ids |-> IF t \in changed THEN ClearPendingChanges(n.state[t]) ELSE n.state[t]]
<1>2. NoChanges \in [Docs -> {"none", "Added", "Modified", "Removed"}]
      /\ NoChanges \in [Docs -> {"none", "found", "missing"}]
  BY DEF NoChanges
<1>3. ASSUME NEW t \in Ids
      PROVE  /\ st[t] \in TargetStates /\ st[t].due = n.state[t].due
             /\ t \in changed => \A k \in Docs : st[t].changes[k] = "none"
             /\ t \notin changed => st[t] = n.state[t]
  <2>1. n.state[t] \in TargetStates
    BY <1>1, DueType
  <2>2. PICK x : x = ClearPendingChanges(n.state[t])
    OBVIOUS
  <2>3. x \in TargetStates /\ x.due = n.state[t].due /\ x.changes = NoChanges
    BY <1>2, <2>1, <2>2 DEF ClearPendingChanges, TargetStates
  <2>4. \A k \in Docs : x.changes[k] = "none"
    BY <2>3 DEF NoChanges
  <2>5. st[t] = IF t \in changed THEN x ELSE n.state[t]
    BY <2>2
  <2> HIDE DEF st
  <2>6. QED
    BY <2>1, <2>3, <2>4, <2>5
<1>4. st = [t \in Ids |-> st[t]]
  OBVIOUS
<1>5. e = [n EXCEPT !.state = st, !.updates = NoChanges, !.resets = {}]
  BY DEF Cleared
<1> HIDE DEF st
<1>6. st \in [Ids -> TargetStates]
  BY <1>3, <1>4
<1>7. /\ e \in Clients /\ KeepsLimbo(n, e) /\ e.state = st
      /\ e.requests = n.requests /\ e.open = n.open /\ e.view = n.view
  BY <1>1, <1>2, <1>5, <1>6, ZenonT(60) DEF Clients, KeepsLimbo
<1>8. n.open
  BY DEF Advances
<1>9. ClientSound(e, rs)
  <2>1. ASSUME NEW t \in Ids PROVE AggregatesTarget(n, e, t)
    <3>1. CASE t \in changed
      BY <1>3, <1>7, <3>1 DEF AggregatesTarget, Fits
    <3>2. CASE t \notin changed
      BY <1>3, <1>7, <3>2, UntouchedTarget
    <3>3. QED
      BY <3>1, <3>2
  <2>2. Aggregates(n, e)
    BY <1>7, <2>1 DEF Aggregates
  <2>3. QED
    BY <1>8, <2>2, AggregatesSound
<1>10. ChangesFit(e)
  <2> SUFFICES ASSUME NEW t \in e.listen, IsActiveTarget(e, t), NEW k \in Docs
               PROVE  Fits(e, t, k, e.state[t].changes[k])
    BY DEF ChangesFit
  <2>1. t \in Ids /\ t \in n.listen /\ n.state[t].due = 0
    BY <1>1, <1>3, <1>7, ClientFields DEF KeepsLimbo, IsActiveTarget
  <2>2. IsActiveTarget(c, t) /\ KeepsTarget(c, n, t)
    BY <1>1, <2>1, DueType DEF Advances, IsActiveTarget
  <2>3. e.state[t].changes[k] = "none"
    <3>1. CASE c.state[t].pending
      BY <1>3, <1>7, <2>1, <2>2, <3>1
    <3>2. CASE ~c.state[t].pending
      <4>1. c.state[t].changes[k] = "none"
        BY <2>1, <3>2 DEF ClientSound, PendingSound
      <4>2. e.state[t] = n.state[t]
        BY <1>3, <1>7, <2>1, <3>2
      <4>3. QED
        BY <2>2, <4>1, <4>2 DEF KeepsTarget
    <3>3. QED
      BY <3>1, <3>2
  <2>4. QED
    BY <2>3 DEF Fits
<1>11. KeysFollow(c, e) /\ e.open = c.open
  BY <1>7, ZenonT(60) DEF Advances, KeysFollow, KeepsLimbo
<1>12. QED
  BY <1>9, <1>10, <1>11 DEF Handled

LEMMA RecordedHandled ==
  ASSUME NEW rs, NEW c \in Clients, NEW e, Recorded(c, e, rs)
  PROVE  Handled(c, e, rs)
  BY NextType DEF Recorded, Handled, KeepsLimbo, KeysFollow

LEMMA HandledOn ==
  ASSUME NEW rs, NEW a, NEW b, NEW c, Recorded(a, b, rs), Handled(b, c, rs)
  PROVE  Handled(a, c, rs)
  BY DEF Recorded, Handled, KeepsLimbo, KeysFollow

LEMMA RaiseSound ==
  ASSUME NEW rs \in Seq(Messages), NEW c, ClientSound(c, rs), c.open, ChangesFit(c),
         NEW skip, NEW f, f = RaiseWatchSnapshot(c, skip)
  PROVE  Handled(c, f, rs)
<1> DEFINE e == Synthesized(c)
           changed == {t \in Ids : IsActiveTarget(e, t) /\ e.state[t].pending}
           r == RenewTargets(e, changed)
           g == LimboReceived(r, changed)
           l == LocalStoreApplies(g, changed, skip /\ MayStayUnsaved(r))
           n == EmitNewSnapshots(l, Query \in changed, Query \in r.resets)
<1>1. f = Cleared(n, changed)
  BY DEF RaiseWatchSnapshot
<1>2. changed \in SUBSET Ids
  OBVIOUS
<1>3. Recorded(c, e, rs)
  BY SynthesizedSound
<1>4. ClientSound(e, rs) /\ e.open
  BY <1>3 DEF Recorded
<1> HIDE DEF e
<1>5. ClientSound(r, rs) /\ Advances(e, r)
  BY <1>2, <1>4, RenewSound
<1> HIDE DEF r
<1>6. ClientSound(g, rs) /\ Advances(r, g)
  BY <1>5, LimboReceivedSound
<1> HIDE DEF g
<1>7. ClientSound(l, rs) /\ Advances(g, l)
  BY <1>6, LocalStoreSound
<1> HIDE DEF l
<1>8. ClientSound(n, rs) /\ Advances(l, n)
  BY <1>7, EmitSound
<1> HIDE DEF n
<1>9. e \in Clients /\ r \in Clients /\ g \in Clients /\ l \in Clients /\ n \in Clients
  BY <1>4, <1>5, <1>6, <1>7, <1>8, SoundParts DEF LimboSound
<1>10. Advances(e, g)
  BY <1>5, <1>6, <1>9, AdvancesOn
<1>11. Advances(e, l)
  BY <1>7, <1>9, <1>10, AdvancesOn
<1>12. Advances(e, n)
  BY <1>8, <1>9, <1>11, AdvancesOn
<1>13. Handled(e, f, rs)
  BY <1>1, <1>4, <1>8, <1>12, ClearedSound
<1>14. QED
  BY <1>3, <1>13, HandledOn

LEMMA HandleSnapshotSound ==
  ASSUME NEW rs \in Seq(Messages), NEW c, ClientSound(c, rs), c.open, ChangesFit(c),
         NEW numbers \in [Docs -> 0 .. MaxInputs + 1], NEW skip,
         NEW f, f = HandleSnapshot(c, numbers, skip)
  PROVE  Handled(c, f, rs)
<1>1. PICK e : e = [c EXCEPT !.state = [t \in Ids |-> IF IsActiveTarget(c, t)
                                                      THEN UpdateResumeToken(c.state[t], <<numbers>>)
                                                      ELSE c.state[t]]]
  OBVIOUS
<1>2. Recorded(c, e, rs)
  BY <1>1, TokensSound
<1>3. f = RaiseWatchSnapshot(e, skip)
  BY <1>1 DEF HandleSnapshot
<1>4. Handled(e, f, rs)
  BY <1>2, <1>3, RaiseSound DEF Recorded
<1>5. QED
  BY <1>2, <1>4, HandledOn

-----------------------------------------------------------------------------
(* What the server says.                                                   *)

LEMMA SaidOn ==
  ASSUME NEW c, NEW a, NEW b, Said(c, a), Said(c, b)
  PROVE  Said(c, a \o b)
<1>1. a \in Seq(Messages) /\ b \in Seq(Messages)
  BY DEF Said
<1>2. PICK l \in Nat, n \in Nat : l = Len(a) /\ n = Len(b)
  BY <1>1, LenProperties
<1>3. PICK s \in Seq(Messages) : s = a \o b
  BY <1>1, ConcatProperties
<1>4. Len(s) = l + n /\ \A i \in 1 .. l + n : s[i] = IF i =< l THEN a[i] ELSE b[i - l]
  BY <1>1, <1>2, <1>3, ConcatProperties
<1>5. ASSUME NEW i \in 1 .. Len(s), s[i].type = "document"
      PROVE  \A t \in s[i].targets : Known(c, t, {s[i].key})
  <2>0. i \in 1 .. l + n
    BY <1>4
  <2>1. CASE i =< l
    <3>1. i \in 1 .. l /\ s[i] = a[i]
      BY <1>4, <2>0, <2>1
    <3>2. QED
      BY <1>2, <1>5, <3>1 DEF Said
  <2>2. CASE i > l
    <3>1. i - l \in 1 .. n /\ s[i] = b[i - l]
      BY <1>2, <1>4, <2>2
    <3>2. QED
      BY <1>2, <1>5, <3>1 DEF Said
  <2>3. i =< l \/ i > l
    BY <2>0
  <2>4. QED
    BY <2>1, <2>2, <2>3, Zenon
<1>6. Said(c, s)
  BY <1>5 DEF Said
<1>7. QED
  BY <1>3, <1>6

LEMMA SaidRead ==
  ASSUME NEW c, NEW ms, Said(c, ms), ms # << >>
  PROVE  /\ Said(c, Tail(ms)) /\ Head(ms) \in Messages
         /\ Head(ms).type = "document" => \A t \in Head(ms).targets : Known(c, t, {Head(ms).key})
<1>1. ms \in Seq(Messages)
  BY DEF Said
<1>2. PICK l \in Nat : l = Len(ms)
  BY <1>1, LenProperties
<1>3. l >= 1 /\ Head(ms) = ms[1] /\ Head(ms) \in Messages
  BY <1>1, <1>2, EmptySeq, HeadTailProperties
<1>4. PICK s \in Seq(Messages) : s = Tail(ms)
  BY <1>1, HeadTailProperties
<1>5. Len(s) = l - 1 /\ \A i \in 1 .. l - 1 : s[i] = ms[i + 1]
  BY <1>1, <1>2, <1>4, HeadTailProperties
<1>6. ASSUME NEW i \in 1 .. Len(s), s[i].type = "document"
      PROVE  \A t \in s[i].targets : Known(c, t, {s[i].key})
  <2>1. i + 1 \in 1 .. Len(ms) /\ s[i] = ms[i + 1]
    BY <1>2, <1>5
  <2>2. QED
    BY <1>6, <2>1 DEF Said
<1>7. Said(c, s)
  BY <1>6 DEF Said
<1>8. 1 \in 1 .. Len(ms)
  BY <1>2, <1>3
<1>9. QED
  BY <1>3, <1>4, <1>7, <1>8 DEF Said

LEMMA SaidOne ==
  ASSUME NEW c, NEW m \in Messages, m.type = "document" => \A t \in m.targets : Known(c, t, {m.key})
  PROVE  Said(c, <<m>>)
<1>1. <<m>> \in Seq(Messages) /\ Len(<<m>>) = 1 /\ <<m>>[1] = m
  OBVIOUS
<1>2. QED
  BY <1>1 DEF Said

LEMMA SaidKept ==
  ASSUME NEW c \in Clients, NEW e \in Clients, KeysFollow(c, e), NEW ms, Said(c, ms)
  PROVE  Said(e, ms)
<1>1. ASSUME NEW i \in 1 .. Len(ms), ms[i].type = "document", NEW t \in ms[i].targets
      PROVE  Known(e, t, {ms[i].key})
  <2>1. ms[i] \in Messages
    BY ElementOfSeq DEF Said
  <2>2. t \in Ids
    BY <1>1, <2>1 DEF Messages, TargetMessages, DocumentMessages, FilterMessages, SnapshotMessages
  <2>3. Known(c, t, {ms[i].key})
    BY <1>1 DEF Said
  <2>4. QED
    BY <2>2, <2>3, KnownKept
<1>2. QED
  BY <1>1 DEF Said

LEMMA ServerKept ==
  ASSUME NEW c \in Clients, NEW e \in Clients, KeysFollow(c, e), NEW rs, NEW w, ServerSound(c, rs, w)
  PROVE  ServerSound(e, rs, w)
<1>1. Said(e, rs)
  BY SaidKept DEF ServerSound
<1>2. \A t \in Ids : w[t] # {} => Known(e, t, w[t])
  BY KnownKept DEF ServerSound
<1>3. QED
  BY <1>1, <1>2 DEF ServerSound

(* Messages that answer nothing.                                           *)
LEMMA ToldSound ==
  ASSUME NEW rs \in Seq(Messages), NEW c, ClientSound(c, rs), NEW ms \in Seq(Messages), Unasked(ms)
  PROVE  ClientSound(c, rs \o ms)
<1>1. c \in Clients /\ c.requests \in Seq(Requests)
  BY SoundParts, ClientFields DEF LimboSound
<1>2. ASSUME NEW t \in Ids PROVE Owes(rs \o ms, c.requests, t, c.state[t].due)
  <2>1. c.state[t].due \in Nat /\ Owes(rs, c.requests, t, c.state[t].due)
    BY <1>1, DueType DEF ClientSound, Owed
  <2>2. \A i \in 1 .. Len(ms) : ~Answers(ms[i], t)
    BY DEF Unasked, Answers
  <2>3. QED
    BY <1>1, <2>1, <2>2, OwesTold
<1>3. QED
  BY <1>2 DEF ClientSound, Owed

(* The answer to the oldest request.                                       *)
LEMMA AnsweredSound ==
  ASSUME NEW rs \in Seq(Messages), NEW c, ClientSound(c, rs), c.open, c.requests # << >>,
         NEW m \in Messages, m.targets = {Head(c.requests).target},
         NEW e, e = [c EXCEPT !.requests = Tail(@)]
  PROVE  /\ ClientSound(e, rs \o <<m>>) /\ KeysFollow(c, e) /\ e.open = c.open
         /\ ChangesFit(c) => ChangesFit(e)
<1>1. c \in Clients /\ c.requests \in Seq(Requests)
  BY SoundParts, ClientFields DEF LimboSound
<1>2. PICK q \in Seq(Requests) : q = Tail(c.requests)
  BY <1>1, HeadTailProperties
<1>3. PICK l \in Nat : l = Len(c.requests)
  BY <1>1, LenProperties
<1>4. /\ Len(q) = l - 1 /\ l >= 1 /\ Head(c.requests) = c.requests[1]
      /\ \A i \in 1 .. l - 1 : q[i] = c.requests[i + 1]
  BY <1>1, <1>2, <1>3, HeadTailProperties, EmptySeq
<1>5. /\ e \in Clients /\ KeepsLimbo(c, e) /\ e.requests = q
      /\ e.state = c.state /\ e.open = c.open /\ e.view = c.view
  BY <1>1, <1>2 DEF Clients, KeepsLimbo
<1>6. LimboSound(e) /\ ListenSound(e) /\ PendingSound(e)
  BY <1>5 DEF ClientSound, LimboSound, ListenSound, PendingSound, KeepsLimbo
<1>7. RequestsSound(e)
  <2>1. ASSUME NEW i \in 1 .. Len(q) PROVE Known(e, q[i].target, q[i].of)
    <3>1. i + 1 \in 1 .. Len(c.requests) /\ q[i] = c.requests[i + 1]
      BY <1>3, <1>4
    <3>2. Known(c, q[i].target, q[i].of)
      BY <3>1 DEF ClientSound, RequestsSound
    <3>3. QED
      BY <1>5, <3>2 DEF Known, KeepsLimbo
  <2>2. QED
    BY <1>5, <2>1 DEF RequestsSound
<1>8. ASSUME NEW t \in Ids PROVE Owes(rs \o <<m>>, e.requests, t, e.state[t].due)
  <2>1. c.state[t].due \in Nat /\ Owes(rs, c.requests, t, c.state[t].due)
    BY <1>1, DueType DEF ClientSound, Owed
  <2>a. <<m>> \in Seq(Messages)
    OBVIOUS
  <2>2. PICK new \in Seq(Messages) : new = <<m>>
    BY <2>a, Zenon
  <2>3. new # << >> /\ Len(new) = 1 /\ new[1] = m
    BY <2>2
  <2>4. Answers(new[1], t) => c.requests[1].target = t
    BY <1>4, <2>3 DEF Answers
  <2>5. AnswersOnlyFirst(new, t)
    BY <2>3 DEF AnswersOnlyFirst
  <2>6. Owes(rs \o new, Tail(c.requests), t, c.state[t].due)
    BY <1>1, <2>1, <2>3, <2>4, <2>5, OwesAnswered
  <2>7. QED
    BY <1>2, <1>5, <2>2, <2>6
<1>9. ChangesFit(c) => ChangesFit(e)
  BY <1>5 DEF ChangesFit, Fits, IsActiveTarget, GetRemoteKeys, Matching, KeepsLimbo
<1>10. KeysFollow(c, e)
  BY <1>1, <1>5, NextType DEF KeysFollow, KeepsLimbo
<1>11. QED
  BY <1>5, <1>6, <1>7, <1>8, <1>9, <1>10 DEF ClientSound, Owed

LEMMA KnownPart ==
  ASSUME NEW c, NEW t, NEW ks, Known(c, t, ks), NEW js, js \subseteq ks
  PROVE  Known(c, t, js)
  BY DEF Known

LEMMA UnaskedOn ==
  ASSUME NEW a \in Seq(Messages), NEW b \in Seq(Messages), Unasked(a), Unasked(b)
  PROVE  Unasked(a \o b)
<1>1. PICK l \in Nat, n \in Nat : l = Len(a) /\ n = Len(b)
  BY LenProperties
<1>2. Len(a \o b) = l + n /\ \A i \in 1 .. l + n : (a \o b)[i] = IF i =< l THEN a[i] ELSE b[i - l]
  BY <1>1, ConcatProperties
<1>3. ASSUME NEW i \in 1 .. l + n PROVE (a \o b)[i].type \notin {"added", "removed"}
  <2>1. CASE i =< l
    <3>1. i \in 1 .. Len(a) /\ (a \o b)[i] = a[i]
      BY <1>1, <1>2, <2>1
    <3>2. QED
      BY <3>1 DEF Unasked
  <2>2. CASE i > l
    <3>1. i - l \in 1 .. Len(b) /\ (a \o b)[i] = b[i - l]
      BY <1>1, <1>2, <2>2
    <3>2. QED
      BY <3>1 DEF Unasked
  <2>3. i =< l \/ i > l
    OBVIOUS
  <2>4. QED
    BY <2>1, <2>2, <2>3, Zenon
<1>4. QED
  BY <1>2, <1>3 DEF Unasked

(* The server sends what a request asks for, and nothing else.             *)
LEMMA DocumentsSaid ==
  ASSUME NEW c, NEW t \in Ids, NEW ks \in SUBSET Docs, Known(c, t, ks), NEW found \in BOOLEAN
  PROVE  Said(c, Documents(ks, found, t)) /\ Unasked(Documents(ks, found, t))
<1>1. PICK n \in Nat : n = Cardinality(ks)
  BY WatchAssumption, FS_Subset, FS_CardinalityType
<1>2. PICK o : o = SetToSeq(ks)
  OBVIOUS
<1>3. o \in Seq(ks) /\ Len(o) = n
  BY <1>1, <1>2, WatchAssumption, FS_Subset, OrderOf
<1>4. \A i \in 1 .. n : o[i] \in ks
  BY <1>3, ElementOfSeq
<1>5. PICK ms : ms = [i \in 1 .. n |-> Document(o[i], found, {t})]
  OBVIOUS
<1>6. ms = Documents(ks, found, t)
  BY <1>1, <1>2, <1>5 DEF Documents
<1>7. ASSUME NEW i \in 1 .. n
      PROVE  /\ ms[i] \in Messages /\ ms[i].type = "document"
             /\ ms[i].targets = {t} /\ ms[i].key = o[i]
  <2>1. ms[i] = [type |-> "document", targets |-> {t}, key |-> o[i], found |-> found]
    BY <1>5 DEF Document
  <2>2. ms[i] \in DocumentMessages
    BY <1>4, <2>1 DEF DocumentMessages
  <2>3. QED
    BY <2>1, <2>2 DEF Messages
<1>8. ms \in Seq(Messages) /\ Len(ms) = n
  <2>1. ms = [i \in 1 .. n |-> ms[i]]
    BY <1>5
  <2>2. ms \in [1 .. n -> Messages]
    BY <1>7, <2>1
  <2>3. QED
    BY <2>2
<1>9. ASSUME NEW i \in 1 .. Len(ms)
      PROVE  ms[i].type = "document" /\ \A u \in ms[i].targets : Known(c, u, {ms[i].key})
  <2>1. i \in 1 .. n
    BY <1>8
  <2>2. Known(c, t, {o[i]})
    BY <1>4, <2>1, KnownPart
  <2>3. QED
    BY <1>7, <2>1, <2>2
<1>10. QED
  BY <1>6, <1>8, <1>9 DEF Said, Unasked

LEMMA InitialSaid ==
  ASSUME NEW c, NEW r \in Requests, Known(c, r.target, r.of), NEW ms \in Initial(r)
  PROVE  Said(c, ms) /\ Unasked(ms)
<1> DEFINE known == IF r.token = << >> THEN [k \in Docs |-> 0] ELSE r.token[1]
           docs == Existing(db) \cap r.of
           gone == (Existing(known) \cap r.of) \ docs
           new == {k \in docs : db[k] # known[k]}
<1>1. /\ r.target \in Ids
      /\ docs \in SUBSET Docs /\ gone \in SUBSET Docs /\ new \in SUBSET Docs
      /\ docs \subseteq r.of /\ gone \subseteq r.of /\ new \subseteq r.of
  BY DEF Requests, Existing
<1>2. PICK rest \in {Documents(gone, FALSE, r.target)}
                    \cup {<<Filter(r.target, docs, b)>> : b \in {b \in SUBSET Docs : docs \subseteq b /\ gone # {}}} :
        ms = Documents(new, TRUE, r.target) \o rest
  BY DEF Initial
<1> HIDE DEF docs, gone, new
<1>3. Known(c, r.target, new) /\ Known(c, r.target, gone)
  BY <1>1, KnownPart
<1>4. Said(c, Documents(new, TRUE, r.target)) /\ Unasked(Documents(new, TRUE, r.target))
  BY <1>1, <1>3, DocumentsSaid
<1>5. Said(c, rest) /\ Unasked(rest)
  <2>1. CASE rest = Documents(gone, FALSE, r.target)
    BY <1>1, <1>3, <2>1, DocumentsSaid
  <2>2. ASSUME NEW b \in SUBSET Docs, rest = <<Filter(r.target, docs, b)>>
        PROVE  Said(c, rest) /\ Unasked(rest)
    <3>1. PICK m : m = Filter(r.target, docs, b)
      OBVIOUS
    <3>2. Cardinality(docs) \in Nat
      BY <1>1, WatchAssumption, FS_Subset, FS_CardinalityType
    <3>3. m \in FilterMessages /\ m.type = "filter"
      BY <1>1, <3>1, <3>2 DEF Filter, FilterMessages
    <3>4. m \in Messages
      BY <3>3 DEF Messages
    <3>5. Said(c, <<m>>)
      BY <3>3, <3>4, SaidOne
    <3>6. Unasked(<<m>>)
      BY <3>3 DEF Unasked
    <3>7. QED
      BY <2>2, <3>1, <3>5, <3>6
  <2>3. QED
    BY <1>2, <2>1, <2>2
<1>6. QED
  BY <1>2, <1>4, <1>5, SaidOn, UnaskedOn DEF Said

-----------------------------------------------------------------------------
(* Streams that open and close, pages that come and go.                    *)

LEMMA NothingOwed ==
  ASSUME NEW t \in Ids, NEW n \in Nat
  PROVE  Owes(<< >>, << >>, t, n)
<1>1. PICK f : f = [i \in 0 .. 0 |-> 0]
  OBVIOUS
<1>2. f \in [0 .. Len(<< >>) -> Int] /\ f[0] = 0 /\ 0 \in Int
  BY <1>1
<1>3. 0 .. Len(<< >>) = {0} /\ 1 .. Len(<< >>) = {}
  OBVIOUS
<1>4. /\ 0 =< f[0] /\ \A i \in 0 .. Len(<< >>) : f[i] =< 0
      /\ \A i \in 0 .. Len(<< >>) : f[i] =< n
  BY <1>2, <1>3
<1>5. QED
  BY <1>2, <1>3, <1>4 DEF Owes

LEMMA ClosedFits ==
  ASSUME NEW c \in Clients, c.state = NewAggregator
  PROVE  ChangesFit(c)
<1> SUFFICES ASSUME NEW t \in c.listen, NEW k \in Docs
             PROVE  Fits(c, t, k, c.state[t].changes[k])
  BY DEF ChangesFit
<1>1. c.state[t].changes[k] = "none"
  BY NewStateType, ClientFields DEF NewAggregator
<1>2. QED
  BY <1>1 DEF Fits

(* Without a stream nothing is due and nothing on its way.                 *)
LEMMA RestartSound ==
  ASSUME NEW c, LimboSound(c), ListenSound(c), c.state = NewAggregator, c.requests = << >>
  PROVE  /\ ClientSound(c, << >>) /\ ChangesFit(c)
         /\ ServerSound(c, << >>, [t \in Ids |-> {}])
<1>1. ASSUME NEW t \in Ids PROVE c.state[t] = NewState
  BY <1>1 DEF NewAggregator
<1>2. PendingSound(c)
  BY <1>1, NewStateType DEF PendingSound
<1>3. RequestsSound(c)
  BY DEF RequestsSound
<1>4. Owed(c, << >>)
  BY <1>1, NewStateType, NothingOwed DEF Owed
<1>5. Said(c, << >>)
  BY DEF Said
<1>6. ServerSound(c, << >>, [t \in Ids |-> {}])
  BY <1>5 DEF ServerSound
<1>7. QED
  BY <1>2, <1>3, <1>4, <1>6, ClosedFits DEF ClientSound, LimboSound

LEMMA StartedSound ==
  ASSUME NEW cache \in SUBSET Docs, NEW keys \in SUBSET Docs, NEW saved \in Tokens,
         NEW c, c = Started(cache, keys, saved)
  PROVE  LimboSound(c) /\ ListenSound(c) /\ c.state = NewAggregator /\ c.requests = << >> /\ ~c.open
<1>1. << >> \in Limbos /\ DOMAIN << >> = {}
  <2>1. << >> \in [{} -> Docs] /\ {} \in SUBSET (1 .. MaxLimbo)
    OBVIOUS
  <2>2. QED
    BY <2>1 DEF Limbos
<1>2. /\ NewAggregator \in [Ids -> TargetStates] /\ NoChanges \in [Docs -> {"none", "found", "missing"}]
      /\ [t \in Ids |-> << >>] \in [Ids -> Tokens] /\ NoView \in Views /\ ~NoView.up
      /\ 1 \in 1 .. MaxLimbo + 1 /\ << >> \in Seq(Requests) /\ << >> \in Seq(Docs)
  BY NewStateType, WatchAssumption DEF NoChanges, Tokens, NoView, Views
<1>3. c \in Clients
  BY <1>1, <1>2 DEF Started, Clients
<1>4. /\ c.key = << >> /\ c.next = 1 /\ c.received = {} /\ c.listen = {} /\ c.view = NoView
      /\ c.state = NewAggregator /\ c.requests = << >> /\ ~c.open
  BY DEF Started
<1>5. Cardinality({}) = 0 /\ max_concurrent_limbo_resolutions \in Nat
  BY FS_EmptySet, WatchAssumption
<1>6. LimboSound(c)
  BY <1>1, <1>3, <1>4, <1>5 DEF LimboSound
<1>7. ListenSound(c)
  BY <1>1, <1>2, <1>4 DEF ListenSound
<1>8. QED
  BY <1>4, <1>6, <1>7

LEMMA OpenSound ==
  ASSUME NEW rs \in Seq(Messages), NEW c, ClientSound(c, rs), ~c.open,
         NEW order, IsOrder(order, c.listen),
         NEW e, e = SendInOrder([c EXCEPT !.open = TRUE], "watch", order)
  PROVE  ClientSound(e, rs) /\ ChangesFit(e) /\ KeysFollow(c, e) /\ e.open
<1>1. c \in Clients /\ ListenSound(c) /\ DOMAIN c.key \subseteq 1 .. c.next - 1 /\ c.listen \in SUBSET Ids
  BY SoundParts, ClientFields DEF LimboSound
<1>2. PICK b : b = [c EXCEPT !.open = TRUE]
  OBVIOUS
<1>3. /\ b \in Clients /\ KeepsLimbo(c, b) /\ b.requests = c.requests /\ b.state = c.state
      /\ b.view = c.view /\ b.open
  BY <1>1, <1>2 DEF Clients, KeepsLimbo
<1>4. ClientSound(b, rs)
  <2>1. LimboSound(b) /\ ListenSound(b) /\ PendingSound(b)
    BY <1>3 DEF ClientSound, LimboSound, ListenSound, PendingSound, KeepsLimbo
  <2>2. RequestsSound(b) /\ Owed(b, rs)
    BY <1>3 DEF ClientSound, RequestsSound, Owed, Known, KeepsLimbo
  <2>3. QED
    BY <2>1, <2>2 DEF ClientSound
<1>5. /\ c.listen \subseteq DOMAIN b.key \cup {Query} /\ \A t \in c.listen : t < b.next
  <2>1. c.listen \subseteq DOMAIN b.key \cup {Query} /\ b.next = c.next /\ b.key = c.key
    BY <1>1, <1>3 DEF ListenSound, KeepsLimbo
  <2>2. QED
    BY <1>1, <2>1, NextType DEF Query
<1>6. e = SendInOrder(b, "watch", order)
  BY <1>2
<1>7. ClientSound(e, rs) /\ Follows(b, e)
  BY <1>1, <1>4, <1>5, <1>6, SentSound
<1>8. KeysFollow(c, e) /\ e.open
  BY <1>3, <1>7 DEF Follows, Advances, KeysFollow, KeepsLimbo
<1>9. ChangesFit(e)
  <2> SUFFICES ASSUME NEW t \in e.listen, NEW k \in Docs PROVE Fits(e, t, k, e.state[t].changes[k])
    BY DEF ChangesFit
  <2>1. t \in Ids /\ c.state = NewAggregator
    BY <1>7, SoundParts, ClientFields DEF LimboSound, ClientSound, RequestsSound
  <2>2. e.state[t].changes = b.state[t].changes
    BY <1>7, <2>1 DEF Follows, Advances, KeepsTarget
  <2>3. e.state[t].changes[k] = "none"
    BY <1>3, <2>1, <2>2, NewStateType DEF NewAggregator
  <2>4. QED
    BY <2>3 DEF Fits
<1>10. QED
  BY <1>7, <1>8, <1>9

LEMMA OfflineSound ==
  ASSUME NEW rs \in Seq(Messages), NEW c, ClientSound(c, rs), ~c.open,
         NEW e, e = EmitNewSnapshots([c EXCEPT !.view.current = FALSE], FALSE, FALSE)
  PROVE  Handled(c, e, rs)
<1>1. c \in Clients /\ c.view \in Views /\ c.received \subseteq DOMAIN c.key
  BY SoundParts, ClientFields DEF LimboSound
<1>2. PICK v : v = [c.view EXCEPT !.current = FALSE]
  OBVIOUS
<1>3. v \in Views /\ v.up = c.view.up
  BY <1>1, <1>2 DEF Views
<1>4. PICK b : b = [c EXCEPT !.view = v]
  OBVIOUS
<1>5. b = [c EXCEPT !.view.current = FALSE]
  BY <1>1, <1>2, <1>4 DEF Clients
<1>6. KeepsWatch(c, b)
  BY <1>1, <1>3, <1>4 DEF Clients, KeepsWatch
<1>7. ClientSound(b, rs) /\ Advances(c, b)
  BY <1>6, PaperworkSound
<1>8. ClientSound(e, rs) /\ Advances(b, e)
  BY <1>5, <1>7, EmitSound
<1>9. b \in Clients /\ e \in Clients
  BY <1>7, <1>8, SoundParts DEF LimboSound
<1>10. Advances(c, e)
  BY <1>1, <1>7, <1>8, <1>9, AdvancesOn
<1>11. ~e.open /\ e.state = NewAggregator
  BY <1>8, <1>10 DEF Advances, ClientSound, RequestsSound
<1>12. QED
  BY <1>8, <1>9, <1>10, <1>11, ClosedFits DEF Handled, Advances

(* A page that comes or goes, before its request.                          *)
LEMMA PageSound ==
  ASSUME NEW rs, NEW c, ClientSound(c, rs), NEW b \in Clients,
         b.open = c.open, b.requests = c.requests, b.state = c.state,
         b.key = c.key, b.received = c.received, b.next = c.next,
         ListenSound(b)
  PROVE  ClientSound(b, rs) /\ KeysFollow(c, b)
<1>1. LimboSound(b) /\ PendingSound(b)
  BY DEF ClientSound, LimboSound, PendingSound
<1>2. RequestsSound(b) /\ Owed(b, rs)
  BY DEF ClientSound, RequestsSound, Owed, Known
<1>3. KeysFollow(c, b)
  BY NextType DEF KeysFollow
<1>4. QED
  BY <1>1, <1>2, <1>3 DEF ClientSound

LEMMA OpenPageSound ==
  ASSUME NEW rs \in Seq(Messages), NEW c, ClientSound(c, rs), ChangesFit(c), ~c.view.up,
         NEW e, e = Listen([c EXCEPT !.view = [NoView EXCEPT !.up = TRUE, !.synced = c.keys],
                                     !.token[Query] = c.saved], {Query})
  PROVE  Handled(c, e, rs)
<1>1. /\ c \in Clients /\ ListenSound(c) /\ DOMAIN c.key \subseteq 1 .. c.next - 1
      /\ c.listen \in SUBSET Ids /\ c.token \in [Ids -> Tokens] /\ c.saved \in Tokens
      /\ c.keys \in SUBSET Docs
  BY SoundParts, ClientFields DEF LimboSound
<1>2. PICK v : v = [NoView EXCEPT !.up = TRUE, !.synced = c.keys]
  OBVIOUS
<1>3. v \in Views /\ v.up
  BY <1>1, <1>2 DEF NoView, Views
<1>4. PICK tok : tok = [c.token EXCEPT ![Query] = c.saved]
  OBVIOUS
<1>5. tok \in [Ids -> Tokens]
  BY <1>1, <1>4
<1>6. PICK a : a = [c EXCEPT !.view = v, !.token = tok]
  OBVIOUS
<1>7. e = Listen(a, {Query})
  BY <1>1, <1>2, <1>4, <1>6 DEF Clients
<1>8. PICK l : l = c.listen \cup {Query}
  OBVIOUS
<1>9. l \in SUBSET Ids
  BY <1>1, <1>8, IdsFinite
<1>10. PICK b : b = [a EXCEPT !.listen = l]
  OBVIOUS
<1>11. a \in Clients /\ a.listen = c.listen
  BY <1>1, <1>3, <1>5, <1>6 DEF Clients
<1>12. e = Send(b, "watch", {Query})
  BY <1>7, <1>8, <1>10, <1>11 DEF Listen, SendWatchRequest
<1>13. /\ b \in Clients /\ b.open = c.open /\ b.requests = c.requests /\ b.state = c.state
       /\ b.key = c.key /\ b.received = c.received /\ b.next = c.next /\ b.listen = l /\ b.view = v
  BY <1>1, <1>3, <1>5, <1>6, <1>9, <1>10 DEF Clients
<1>14. ListenSound(b)
  BY <1>1, <1>3, <1>8, <1>13 DEF ListenSound
<1>15. ClientSound(b, rs) /\ KeysFollow(c, b)
  BY <1>13, <1>14, PageSound
<1>16. {Query} \in SUBSET Ids /\ \A t \in {Query} : t < b.next
  BY <1>13, IdsFinite, NextType DEF Query
<1>17. ClientSound(e, rs) /\ Follows(b, e)
  BY <1>12, <1>15, <1>16, SendSound
<1>18. /\ KeepsLimbo(b, e)
       /\ \A t \in Ids : /\ KeepsTarget(b, e, t)
                         /\ e.state[t].due = IF b.open /\ t \in {Query} THEN b.state[t].due + 1
                                             ELSE b.state[t].due
  <2>1. PICK ts : ts = {Query}
    OBVIOUS
  <2>2. ts \in SUBSET Ids /\ ts \subseteq DOMAIN b.key \cup {Query} /\ e = Send(b, "watch", ts)
    BY <1>12, <1>16, <2>1
  <2>3. KeepsLimbo(b, e)
    BY <1>13, <2>2, SendFields
  <2>4. Counts(b, ts, e)
    BY <1>13, <2>2, SendFields
  <2>5. QED
    BY <2>1, <2>3, <2>4 DEF Counts
<1>19. KeysFollow(c, e) /\ e.open = c.open
  BY <1>13, <1>17, <1>18 DEF KeysFollow, KeepsLimbo, Follows, Advances
<1>20. ChangesFit(e)
  <2>1. CASE ~c.open
    <3>1. e \in Clients /\ e.state = NewAggregator
      BY <1>17, <1>19, <2>1 DEF ClientSound, LimboSound, RequestsSound
    <3>2. QED
      BY <3>1, ClosedFits
  <2>2. CASE c.open
    <3> SUFFICES ASSUME NEW t \in e.listen, IsActiveTarget(e, t), NEW k \in Docs
                 PROVE  Fits(e, t, k, e.state[t].changes[k])
      BY DEF ChangesFit
    <3>1. t \in Ids /\ t \in l
      BY <1>9, <1>13, <1>18 DEF KeepsLimbo
    <3>2. t # Query
      <4>1. e.state[t].due = 0 /\ b.state[t].due \in Nat
        BY <1>13, <3>1, DueType DEF IsActiveTarget
      <4>2. t = Query => e.state[t].due = b.state[t].due + 1
        BY <1>13, <1>18, <2>2, <3>1
      <4>3. QED
        BY <4>1, <4>2
    <3>3. t \in c.listen /\ t \in DOMAIN c.key
      BY <1>1, <1>8, <3>1, <3>2 DEF ListenSound
    <3>4. IsActiveTarget(c, t) /\ e.state[t].changes = c.state[t].changes
      BY <1>13, <1>18, <3>1, <3>2, <3>3 DEF IsActiveTarget, KeepsTarget
    <3>5. Fits(c, t, k, c.state[t].changes[k])
      BY <3>3, <3>4 DEF ChangesFit
    <3>6. GetRemoteKeys(e, t) = GetRemoteKeys(c, t) /\ Matching(e, t) = Matching(c, t)
      BY <1>13, <1>18, <3>3 DEF GetRemoteKeys, Matching, KeepsLimbo
    <3>7. QED
      BY <3>4, <3>5, <3>6 DEF Fits
  <2>3. QED
    BY <2>1, <2>2
<1>21. QED
  BY <1>17, <1>19, <1>20 DEF Handled

LEMMA ClosePageSound ==
  ASSUME NEW rs \in Seq(Messages), NEW c, ClientSound(c, rs), ChangesFit(c), c.view.up, NEW ks, NEW d,
         d = StopListening([c EXCEPT !.view = NoView, !.saved = c.token[Query]], {Query}),
         NEW e, e = RemoveLimboTarget(d, ks)
  PROVE  Handled(c, e, rs)
<1>1. /\ c \in Clients /\ ListenSound(c) /\ DOMAIN c.key \subseteq 1 .. c.next - 1
      /\ c.listen \in SUBSET Ids /\ c.token \in [Ids -> Tokens] /\ c.key \in Limbos
  BY SoundParts, ClientFields DEF LimboSound
<1>2. NoView \in Views /\ ~NoView.up /\ c.token[Query] \in Tokens
  BY <1>1, IdsFinite DEF NoView, Views
<1>3. PICK a : a = [c EXCEPT !.view = NoView, !.saved = c.token[Query]]
  OBVIOUS
<1>4. PICK l : l = c.listen \ {Query}
  OBVIOUS
<1>5. l = DOMAIN c.key /\ l \in SUBSET Ids
  BY <1>1, <1>4, LimboKeys DEF ListenSound
<1>6. PICK b : b = [a EXCEPT !.listen = l]
  OBVIOUS
<1>7. a \in Clients /\ a.listen = c.listen
  BY <1>1, <1>2, <1>3 DEF Clients
<1>8. d = Send(b, "unwatch", {Query})
  BY <1>3, <1>4, <1>6, <1>7 DEF StopListening, SendUnwatchRequest
<1>9. /\ b \in Clients /\ b.open = c.open /\ b.requests = c.requests /\ b.state = c.state
      /\ b.key = c.key /\ b.received = c.received /\ b.next = c.next /\ b.listen = l /\ b.view = NoView
  BY <1>1, <1>2, <1>3, <1>5, <1>6 DEF Clients
<1>10. ListenSound(b)
  BY <1>2, <1>5, <1>9 DEF ListenSound
<1>11. ClientSound(b, rs) /\ KeysFollow(c, b)
  BY <1>9, <1>10, PageSound
<1>12. {Query} \in SUBSET Ids /\ \A t \in {Query} : t < b.next
  BY <1>9, IdsFinite, NextType DEF Query
<1>13. ClientSound(d, rs) /\ Follows(b, d)
  BY <1>8, <1>11, <1>12, SendSound
<1>14. KeepsLimbo(b, d)
  BY <1>8, <1>9, <1>12, SendFields
<1>15. /\ ClientSound(e, rs) /\ Follows(d, e)
       /\ ReceivedKept(d, e)
  BY <1>13, RemoveLimboSound
<1>16. d \in Clients /\ e \in Clients
  BY <1>13, <1>15, SoundParts DEF LimboSound
<1>17. Follows(b, e)
  BY <1>9, <1>13, <1>15, <1>16, FollowsOn
<1>18. KeysFollow(c, e) /\ e.open = c.open
  BY <1>9, <1>17, ZenonT(60) DEF KeysFollow, Follows, Advances
<1>19. ChangesFit(e)
  <2>1. CASE ~c.open
    <3>1. e \in Clients /\ e.state = NewAggregator
      BY <1>15, <1>18, <2>1 DEF ClientSound, LimboSound, RequestsSound
    <3>2. QED
      BY <3>1, ClosedFits
  <2>2. CASE c.open
    <3> SUFFICES ASSUME NEW t \in e.listen, IsActiveTarget(e, t), NEW k \in Docs
                 PROVE  Fits(e, t, k, e.state[t].changes[k])
      BY DEF ChangesFit
    <3>1. t \in Ids /\ e.state[t].due = 0 /\ c.state[t].due \in Nat
      BY <1>1, <1>16, ClientFields, DueType DEF IsActiveTarget
    <3>2. t \in l /\ c.state[t].due =< e.state[t].due /\ e.state[t].changes = c.state[t].changes
      <4>1. Advances(b, e) /\ b.open
        BY <1>9, <1>17, <2>2 DEF Follows
      <4>2. KeepsTarget(b, e, t) /\ b.state[t].due =< e.state[t].due
        BY <3>1, <4>1 DEF Advances
      <4>3. t \in b.listen \/ e.state[t].due > 0
        BY <4>1 DEF Advances
      <4>4. QED
        BY <1>9, <3>1, <4>2, <4>3 DEF KeepsTarget
    <3>3. t \in DOMAIN c.key /\ t \in c.listen /\ t < c.next /\ t # Query
      BY <1>1, <1>4, <1>5, <3>2, NextType
    <3>4. t \in DOMAIN e.key
      BY <1>15, <1>9, <1>17, <3>3 DEF ClientSound, ListenSound, Follows, KeepsRest
    <3>5. e.key[t] = c.key[t] /\ (t \in e.received <=> t \in c.received)
      BY <1>9, <1>14, <1>15, <1>18, <3>3, <3>4, ZenonT(60) DEF KeysFollow, KeepsLimbo, ReceivedKept
    <3>6. Fits(c, t, k, c.state[t].changes[k])
      BY <3>1, <3>2, <3>3 DEF ChangesFit, IsActiveTarget
    <3>7. GetRemoteKeys(e, t) = GetRemoteKeys(c, t) /\ Matching(e, t) = Matching(c, t)
      BY <3>3, <3>4, <3>5 DEF GetRemoteKeys, Matching
    <3>8. QED
      BY <3>2, <3>6, <3>7 DEF Fits
  <2>3. QED
    BY <2>1, <2>2
<1>20. QED
  BY <1>15, <1>18, <1>19 DEF Handled

-----------------------------------------------------------------------------
(* The steps.                                                              *)

LEMMA Unpacked ==
  ASSUME IInv
  PROVE  /\ client \in Clients /\ responses \in Seq(Messages) /\ Said(client, responses)
         /\ ClientSound(client, responses) /\ ServerSound(client, responses, watched)
         /\ ChangesFit(client) /\ Offline
         /\ responses # << >> \/ client.requests # << >> => client.open
  BY AssertionsAreFits DEF IInv, ClientSound, LimboSound, ServerSound, Said, Offline, RequestsSound

LEMMA DbType ==
  ASSUME IInv
  PROVE  <<db>> \in Tokens /\ db \in [Docs -> 0 .. MaxInputs + 1]
<1>1. db \in [Docs -> 0 .. inputs + 1] /\ inputs \in 0 .. MaxInputs /\ MaxInputs \in Nat
  BY WatchAssumption DEF IInv
<1>2. db \in [Docs -> 0 .. MaxInputs + 1]
  BY <1>1
<1>3. QED
  BY <1>2 DEF Tokens

(* A step of the client keeps the invariant if it handles its event.       *)
LEMMA ClientStep ==
  ASSUME IInv, ClientSound(client', responses'), ChangesFit(client'), KeysFollow(client, client'),
         Said(client, responses'), Offline', UNCHANGED <<db, watched, dirty>>,
         at' \in SUBSET Docs, inputs' \in 0 .. MaxInputs, inputs =< inputs'
  PROVE  IInv'
<1>1. client \in Clients /\ client' \in Clients
  BY Unpacked, SoundParts DEF LimboSound
<1>2. AssertionsHold'
  BY DEF AssertionsHold, ChangesFit, Fits
<1>3. ServerSound(client, responses', watched')
  BY DEF IInv, ServerSound
<1>4. ServerSound(client', responses', watched')
  BY <1>1, <1>3, ServerKept
<1>5. db' \in [Docs -> 0 .. inputs' + 1] /\ dirty' \in BOOLEAN
  BY DEF IInv
<1>6. QED
  BY <1>2, <1>4, <1>5 DEF IInv

(* A step of the server, with the client as it is, or with its oldest      *)
(* request gone.                                                           *)
LEMMA ServerStep ==
  ASSUME IInv, ClientSound(client', responses'), ChangesFit(client'), KeysFollow(client, client'),
         ServerSound(client, responses', watched'), client'.open, dirty' \in BOOLEAN,
         db' \in [Docs -> 0 .. inputs' + 1], at' = at, inputs' \in 0 .. MaxInputs
  PROVE  IInv'
<1>1. client \in Clients /\ client' \in Clients
  BY Unpacked, SoundParts DEF LimboSound
<1>2. AssertionsHold'
  BY DEF AssertionsHold, ChangesFit, Fits
<1>3. ServerSound(client', responses', watched')
  BY <1>1, ServerKept
<1>4. at' \in SUBSET Docs
  BY DEF IInv
<1>5. Offline'
  BY DEF Offline
<1>6. QED
  BY <1>2, <1>3, <1>4, <1>5 DEF IInv

LEMMA SnapshotType ==
  ASSUME IInv
  PROVE  Snapshot \in Messages /\ Snapshot.type = "snapshot" /\ Snapshot.numbers = db
  BY DbType DEF Snapshot, Messages, SnapshotMessages

LEMMA EndingSaid ==
  ASSUME IInv, NEW initial
  PROVE  Said(client, Ending(initial)) /\ Unasked(Ending(initial))
<1>1. Said(client, <<Snapshot>>) /\ Unasked(<<Snapshot>>)
  <2>1. PICK m : m = Snapshot
    OBVIOUS
  <2>2. m \in Messages /\ m.type = "snapshot"
    BY <2>1, SnapshotType
  <2>3. Said(client, <<m>>) /\ Unasked(<<m>>)
    <3>1. Said(client, <<m>>)
      BY <2>2, SaidOne
    <3>2. QED
      BY <2>2, <3>1 DEF Unasked
  <2>4. QED
    BY <2>1, <2>3
<1>2. Said(client, << >>) /\ Unasked(<< >>)
  BY DEF Said, Unasked
<1>3. Ending(initial) = <<Snapshot>> \/ Ending(initial) = << >>
  BY DEF Ending
<1>4. QED
  BY <1>1, <1>2, <1>3, Zenon

LEMMA ServerReadsKeeps ==
  ASSUME IInv, ServerReads
  PROVE  IInv'
<1> DEFINE r == Head(client.requests)
           t == r.target
<1>1. /\ client.requests # << >> /\ client.open /\ client.requests \in Seq(Requests)
      /\ client' = [client EXCEPT !.requests = Tail(@)] /\ UNCHANGED <<db, at, inputs>>
  BY Unpacked, ClientFields DEF ServerReads
<1>2. r \in Requests /\ Known(client, t, r.of) /\ t \in Ids /\ r.of \in SUBSET Docs
  <2>1. PICK l \in Nat : l = Len(client.requests)
    BY <1>1, LenProperties
  <2>2. l >= 1 /\ r = client.requests[1] /\ r \in Requests
    BY <1>1, <2>1, EmptySeq, HeadTailProperties
  <2>3. 1 \in 1 .. Len(client.requests)
    BY <2>1, <2>2
  <2>4. Known(client, t, r.of)
    BY <2>2, <2>3, Unpacked DEF ClientSound, RequestsSound
  <2> HIDE DEF r
  <2>5. QED
    BY <2>2, <2>4 DEF Requests
<1>3. /\ ClientSound(client, responses) /\ responses \in Seq(Messages) /\ Said(client, responses)
      /\ watched \in [Ids -> SUBSET Docs] /\ ChangesFit(client)
      /\ \A u \in Ids : watched[u] # {} => Known(client, u, watched[u])
  BY Unpacked DEF ServerSound
<1>4. db' \in [Docs -> 0 .. inputs' + 1] /\ at' = at /\ inputs' \in 0 .. MaxInputs
  BY <1>1 DEF IInv
<1>5. ASSUME NEW m, m \in Messages, m.targets = {t}, m.type # "document"
      PROVE  /\ ClientSound(client', responses \o <<m>>) /\ KeysFollow(client, client')
             /\ client'.open /\ ChangesFit(client')
             /\ Said(client, responses \o <<m>>) /\ responses \o <<m>> \in Seq(Messages)
  <2>1. /\ ClientSound(client', responses \o <<m>>) /\ KeysFollow(client, client')
        /\ client'.open = client.open /\ (ChangesFit(client) => ChangesFit(client'))
    BY <1>1, <1>3, <1>5, AnsweredSound, ZenonT(60)
  <2>2. Said(client, <<m>>)
    BY <1>5, SaidOne
  <2>3. Said(client, responses \o <<m>>)
    BY <1>3, <2>2, SaidOn
  <2>4. QED
    BY <1>1, <1>3, <2>1, <2>3 DEF Said
<1>6. ASSUME NEW type \in {"added", "removed", "current", "reset"}
      PROVE  /\ Message(type, {t}) \in Messages /\ Message(type, {t}).targets = {t}
             /\ Message(type, {t}).type = type
  <2> HIDE DEF r
  <2>1. QED
    BY <1>2 DEF Message, Messages, TargetMessages
<1>7. CASE r.op = "watch"
  <2>1. PICK initial \in Initial(r) :
          /\ responses' = responses \o <<Message("added", {t})>> \o initial
                                    \o <<Message("current", {t})>> \o Ending(initial)
          /\ dirty' = (Ending(initial) = << >>)
    BY <1>7 DEF ServerReads
  <2>2. watched' = [watched EXCEPT ![t] = r.of] /\ dirty' \in BOOLEAN
    BY <1>7, <2>1 DEF ServerReads
  <2> HIDE DEF r
  <2>3. PICK a : a = responses \o <<Message("added", {t})>>
    OBVIOUS
  <2>4. /\ ClientSound(client', a) /\ KeysFollow(client, client') /\ client'.open /\ ChangesFit(client')
        /\ Said(client, a) /\ a \in Seq(Messages)
    BY <1>5, <1>6, <2>3
  <2>5. Said(client, initial) /\ Unasked(initial)
    BY <1>2, InitialSaid
  <2>6. PICK b : b = a \o initial
    OBVIOUS
  <2>7. ClientSound(client', b) /\ Said(client, b) /\ b \in Seq(Messages)
    BY <2>4, <2>5, <2>6, ToldSound, SaidOn DEF Said
  <2>8. PICK m : m = Message("current", {t})
    OBVIOUS
  <2>9. m \in Messages /\ m.type = "current"
    BY <1>6, <2>8
  <2>10. Said(client, <<m>>) /\ Unasked(<<m>>) /\ <<m>> \in Seq(Messages)
    <3>1. Said(client, <<m>>)
      BY <2>9, SaidOne
    <3>2. QED
      BY <2>9, <3>1 DEF Unasked
  <2>11. PICK d : d = b \o <<m>>
    OBVIOUS
  <2>12. ClientSound(client', d) /\ Said(client, d) /\ d \in Seq(Messages)
    BY <2>7, <2>10, <2>11, ToldSound, SaidOn DEF Said
  <2>13. Said(client, Ending(initial)) /\ Unasked(Ending(initial)) /\ Ending(initial) \in Seq(Messages)
    BY EndingSaid DEF Said
  <2>14. responses' = d \o Ending(initial)
    BY <2>1, <2>3, <2>6, <2>8, <2>11
  <2>15. ClientSound(client', responses') /\ Said(client, responses')
    BY <2>12, <2>13, <2>14, ToldSound, SaidOn
  <2>16. ServerSound(client, responses', watched')
    BY <1>2, <1>3, <2>2, <2>15 DEF ServerSound
  <2>17. QED
    BY <1>4, <2>2, <2>4, <2>15, <2>16, ServerStep
<1>8. CASE r.op # "watch"
  <2>1. /\ responses' = Append(responses, Message("removed", {t}))
        /\ watched' = [watched EXCEPT ![t] = {}] /\ dirty' = dirty
    BY <1>8 DEF ServerReads
  <2> HIDE DEF r
  <2>2. PICK m : m = Message("removed", {t})
    OBVIOUS
  <2>3. m \in Messages /\ m.targets = {t} /\ m.type = "removed"
    BY <1>6, <2>2
  <2>4. responses' = responses \o <<m>>
    BY <1>3, <2>1, <2>2, <2>3, AppendIsConcat
  <2>5. /\ ClientSound(client', responses') /\ KeysFollow(client, client')
        /\ client'.open /\ ChangesFit(client') /\ Said(client, responses')
    BY <1>5, <2>3, <2>4
  <2>6. ServerSound(client, responses', watched')
    BY <1>2, <1>3, <2>1, <2>5 DEF ServerSound
  <2>7. dirty' \in BOOLEAN
    BY <2>1 DEF IInv
  <2>8. QED
    BY <1>4, <2>5, <2>6, <2>7, ServerStep
<1>9. QED
  BY <1>7, <1>8

LEMMA ServerChangeKeeps ==
  ASSUME IInv, NEW k \in Docs, ServerChange(k)
  PROVE  IInv'
<1> DEFINE ts == {t \in Ids : k \in watched[t]}
<1>1. /\ ClientSound(client, responses) /\ responses \in Seq(Messages) /\ Said(client, responses)
      /\ ServerSound(client, responses, watched) /\ ChangesFit(client) /\ client \in Clients
  BY Unpacked
<1>2. /\ inputs' = inputs + 1 /\ inputs < MaxInputs /\ db' = [db EXCEPT ![k] = @ + 1]
      /\ responses' = IF ts = {} THEN responses ELSE Append(responses, Document(k, k \notin Existing(db), ts))
      /\ dirty' = (dirty \/ ts # {}) /\ UNCHANGED <<watched, client, at>>
  BY DEF ServerChange, Input
<1>3. db \in [Docs -> 0 .. inputs + 1] /\ inputs \in 0 .. MaxInputs /\ MaxInputs \in Nat
  BY WatchAssumption DEF IInv
<1>4. inputs' \in 0 .. MaxInputs /\ db' \in [Docs -> 0 .. inputs' + 1]
  BY <1>2, <1>3
<1>5. KeysFollow(client, client)
  BY <1>1, NextType DEF KeysFollow
<1>6. CASE ts = {}
  <2>1. dirty' \in BOOLEAN /\ (dirty' <=> dirty)
    BY <1>2, <1>6 DEF IInv
  <2>2. Offline'
    BY <1>2, <1>6, <2>1, Unpacked DEF Offline
  <2>3. AssertionsHold' /\ at' \in SUBSET Docs
    BY <1>2 DEF IInv, AssertionsHold, IsActiveTarget, GetRemoteKeys, Matching
  <2>4. ClientSound(client', responses') /\ ServerSound(client', responses', watched')
    BY <1>1, <1>2, <1>6
  <2>5. QED
    BY <1>4, <2>1, <2>2, <2>3, <2>4 DEF IInv
<1>7. CASE ts # {}
  <2>1. PICK m : m = Document(k, k \notin Existing(db), ts)
    OBVIOUS
  <2>2. m \in DocumentMessages /\ m.type = "document" /\ m.targets = ts /\ m.key = k
    <3>1. ts \in SUBSET Ids /\ (k \notin Existing(db)) \in BOOLEAN
      OBVIOUS
    <3> HIDE DEF ts
    <3>2. PICK f \in BOOLEAN : f = (k \notin Existing(db))
      BY <3>1
    <3>3. m = [type |-> "document", targets |-> ts, key |-> k, found |-> f]
      BY <2>1, <3>2 DEF Document
    <3>4. QED
      BY <3>1, <3>3 DEF DocumentMessages
  <2>3. m \in Messages
    BY <2>2 DEF Messages
  <2>4. ASSUME NEW t \in ts PROVE Known(client, t, {k})
    <3>1. Known(client, t, watched[t]) /\ {k} \subseteq watched[t]
      BY <1>1 DEF ServerSound
    <3>2. QED
      BY <3>1, KnownPart
  <2>5. client.open
    <3>1. PICK t \in Ids : k \in watched[t]
      BY <1>7
    <3>2. watched # [u \in Ids |-> {}]
      BY <3>1
    <3>3. QED
      BY <3>2, Unpacked DEF Offline
  <2> HIDE DEF ts
  <2>6. responses' = responses \o <<m>>
    BY <1>1, <1>2, <1>7, <2>1, <2>3, AppendIsConcat
  <2>7. Said(client, <<m>>) /\ Unasked(<<m>>) /\ <<m>> \in Seq(Messages)
    <3>1. Said(client, <<m>>)
      BY <2>2, <2>3, <2>4, SaidOne
    <3>2. QED
      BY <2>2, <2>3, <3>1 DEF Unasked
  <2>8. ClientSound(client, responses') /\ Said(client, responses')
    BY <1>1, <2>6, <2>7, ToldSound, SaidOn
  <2>9. ServerSound(client, responses', watched')
    BY <1>1, <1>2, <2>8 DEF ServerSound
  <2>10. dirty' \in BOOLEAN
    BY <1>2
  <2>11. QED
    BY <1>1, <1>2, <1>4, <1>5, <2>5, <2>8, <2>9, <2>10, ServerStep
<1>8. QED
  BY <1>6, <1>7

LEMMA ServerResetKeeps ==
  ASSUME IInv, ServerReset
  PROVE  IInv'
<1>1. /\ ClientSound(client, responses) /\ responses \in Seq(Messages) /\ Said(client, responses)
      /\ ServerSound(client, responses, watched) /\ ChangesFit(client) /\ client \in Clients
  BY Unpacked
<1> DEFINE m == Message("reset", {Query})
           docs == Documents(Existing(db), TRUE, Query)
           n == Message("current", {Query})
<1>2. /\ inputs' = inputs + 1 /\ inputs < MaxInputs /\ watched[Query] # {}
      /\ responses' = responses \o <<m>> \o docs \o <<n>>
      /\ dirty' = TRUE /\ UNCHANGED <<db, watched, client, at>>
  BY DEF ServerReset, Input
<1>3. db' \in [Docs -> 0 .. inputs' + 1] /\ inputs' \in 0 .. MaxInputs
  BY <1>2, WatchAssumption DEF IInv
<1>4. KeysFollow(client, client)
  BY <1>1, NextType DEF KeysFollow
<1>5. client.open
  <2>1. watched # [t \in Ids |-> {}]
    BY <1>2, IdsFinite
  <2>2. QED
    BY <2>1, Unpacked DEF Offline
<1>6. Known(client, Query, Existing(db)) /\ Existing(db) \in SUBSET Docs
  <2>1. Query < client.next /\ Query \notin DOMAIN client.key
    BY <1>1, NextType, ClientFields, LimboKeys DEF Query
  <2>2. QED
    BY <2>1 DEF Known, Existing
<1>7. Said(client, docs) /\ Unasked(docs)
  BY <1>6, IdsFinite, DocumentsSaid
<1>8. m \in Messages /\ m.type = "reset" /\ n \in Messages /\ n.type = "current"
  BY IdsFinite DEF Message, Messages, TargetMessages
<1> HIDE DEF m, docs, n
<1>9. Said(client, <<m>>) /\ Said(client, <<n>>)
  BY <1>8, SaidOne
<1>10. Unasked(<<m>>) /\ Unasked(<<n>>)
  BY <1>8 DEF Unasked
<1>11. PICK a : a = responses \o <<m>>
  OBVIOUS
<1>12. ClientSound(client, a) /\ Said(client, a)
  BY <1>1, <1>9, <1>10, <1>11, ToldSound, SaidOn DEF Said
<1>13. PICK b : b = a \o docs
  OBVIOUS
<1>14. ClientSound(client, b) /\ Said(client, b)
  BY <1>7, <1>12, <1>13, ToldSound, SaidOn DEF Said
<1>15. ClientSound(client, responses') /\ Said(client, responses')
  <2>1. responses' = b \o <<n>>
    BY <1>2, <1>11, <1>13
  <2>2. QED
    BY <1>9, <1>10, <1>14, <2>1, ToldSound, SaidOn DEF Said
<1>16. ServerSound(client, responses', watched')
  BY <1>1, <1>2, <1>15 DEF ServerSound
<1>17. QED
  BY <1>1, <1>2, <1>3, <1>4, <1>5, <1>15, <1>16, ServerStep

LEMMA ServerSnapshotKeeps ==
  ASSUME IInv, ServerSnapshot
  PROVE  IInv'
<1>1. /\ ClientSound(client, responses) /\ responses \in Seq(Messages) /\ Said(client, responses)
      /\ ServerSound(client, responses, watched) /\ ChangesFit(client) /\ client \in Clients
  BY Unpacked
<1> DEFINE m == Snapshot
<1>2. /\ responses' = Append(responses, m) /\ dirty /\ dirty' = FALSE
      /\ UNCHANGED <<db, watched, client, at, inputs>>
  BY DEF ServerSnapshot
<1>3. m \in Messages /\ m.type = "snapshot"
  BY SnapshotType
<1>4. client.open
  BY <1>2, Unpacked DEF Offline
<1> HIDE DEF m
<1>5. responses' = responses \o <<m>>
  BY <1>1, <1>2, <1>3, AppendIsConcat
<1>6. Said(client, <<m>>) /\ Unasked(<<m>>)
  <2>1. Said(client, <<m>>)
    BY <1>3, SaidOne
  <2>2. QED
    BY <1>3, <2>1 DEF Unasked
<1>7. ClientSound(client, responses') /\ Said(client, responses')
  BY <1>1, <1>5, <1>6, ToldSound, SaidOn DEF Said
<1>8. ServerSound(client, responses', watched')
  BY <1>1, <1>2, <1>7 DEF ServerSound
<1>9. KeysFollow(client, client) /\ db' \in [Docs -> 0 .. inputs' + 1] /\ inputs' \in 0 .. MaxInputs
  BY <1>1, <1>2, NextType DEF KeysFollow, IInv
<1>10. QED
  BY <1>1, <1>2, <1>4, <1>7, <1>8, <1>9, ServerStep

LEMMA HandledStep ==
  ASSUME IInv, Handled(client, client', responses'), Said(client, responses'),
         responses' = responses \/ client.open, UNCHANGED <<db, watched, dirty>>,
         at' \in SUBSET Docs, inputs' \in 0 .. MaxInputs, inputs =< inputs'
  PROVE  IInv'
<1>1. Offline'
  BY Unpacked DEF Offline, Handled
<1>2. QED
  BY <1>1, ClientStep DEF Handled

LEMMA OnWatchStreamChangeKeeps ==
  ASSUME IInv, OnWatchStreamChange
  PROVE  IInv'
<1> DEFINE m == Head(responses)
           rs == Tail(responses)
           the == CHOOSE t \in Ids : m.targets = {t}
<1>1. responses # << >> /\ responses' = rs /\ UNCHANGED <<db, watched, dirty, inputs>>
  BY DEF OnWatchStreamChange
<1>2. /\ ClientSound(client, responses) /\ responses \in Seq(Messages) /\ Said(client, responses)
      /\ ChangesFit(client) /\ client.open /\ client \in Clients
  BY <1>1, Unpacked
<1>3. /\ Said(client, rs) /\ m \in Messages
      /\ m.type = "document" => \A t \in m.targets : Known(client, t, {m.key})
  BY <1>1, <1>2, SaidRead
<1>4. rs \in Seq(Messages) /\ ClientSound(client, rs)
  BY <1>1, <1>2, <1>3, ReadSound DEF Said
<1>5. ASSUME m.type \in {"added", "removed", "current", "reset", "filter"}
      PROVE  the \in Ids /\ m.targets = {the}
  <2>1. PICK t \in Ids : m.targets = {t}
    BY <1>3, <1>5 DEF Messages, TargetMessages, DocumentMessages, FilterMessages, SnapshotMessages
  <2>2. QED
    BY <2>1
<1>6. /\ client' \in CASE m.type = "added" -> {TargetAdded(client, the)}
                       [] m.type = "removed" -> {TargetRemoved(client, the)}
                       [] m.type = "current" -> {MarkCurrent(client, the)}
                       [] m.type = "reset" -> {IF IsActiveTarget(client, the)
                                               THEN ResetTarget(client, the) ELSE client}
                       [] m.type = "document" -> {HandleDocumentChange(client, m.key, m.found, m.targets)}
                       [] m.type = "filter" -> {HandleExistenceFilter(client, the, m.count, m.bloom)}
                       [] m.type = "snapshot" ->
                            {HandleSnapshot(client, m.numbers, skip) : skip \in BOOLEAN}
      /\ at' = IF m.type = "snapshot" /\ IsActiveTarget(client, Query) THEN Existing(m.numbers) ELSE at
  BY DEF OnWatchStreamChange
<1> HIDE DEF m, rs, the
<1>7. m.type \in {"added", "removed", "current", "reset", "document", "filter", "snapshot"}
  BY <1>3 DEF Messages, TargetMessages, DocumentMessages, FilterMessages, SnapshotMessages
<1>8. Handled(client, client', rs)
  <2>1. CASE m.type = "added"
    <3>1. client' = TargetAdded(client, the)
      BY <1>6, <2>1
    <3>2. Answers(Head(responses), the) /\ the \in Ids
      BY <1>5, <2>1 DEF Answers, m
    <3>3. Recorded(client, client', rs)
      BY <1>1, <1>2, <3>1, <3>2, TargetAddedSound DEF rs
    <3>4. QED
      BY <1>2, <3>3, RecordedHandled
  <2>2. CASE m.type = "removed"
    <3>1. client' = TargetRemoved(client, the)
      BY <1>6, <2>2
    <3>2. Answers(Head(responses), the) /\ the \in Ids
      BY <1>5, <2>2 DEF Answers, m
    <3>3. Recorded(client, client', rs)
      BY <1>1, <1>2, <3>1, <3>2, TargetRemovedSound DEF rs
    <3>4. QED
      BY <1>2, <3>3, RecordedHandled
  <2>3. CASE m.type = "current"
    <3>1. client' = MarkCurrent(client, the) /\ the \in Ids
      BY <1>5, <1>6, <2>3
    <3>2. QED
      BY <1>2, <1>4, <3>1, MarkCurrentSound, RecordedHandled
  <2>4. CASE m.type = "reset"
    <3>1. /\ client' = IF IsActiveTarget(client, the) THEN ResetTarget(client, the) ELSE client
          /\ the \in Ids
      BY <1>5, <1>6, <2>4
    <3>2. CASE IsActiveTarget(client, the)
      BY <1>2, <1>4, <3>1, <3>2, ResetTargetSound, RecordedHandled
    <3>3. CASE ~IsActiveTarget(client, the)
      <4>1. client' = client
        BY <3>1, <3>3
      <4>2. Handled(client, client, rs)
        BY <1>2, <1>4, NextType DEF Handled, KeysFollow
      <4>3. QED
        BY <4>1, <4>2
    <3>4. QED
      BY <3>2, <3>3
  <2>5. CASE m.type = "document"
    <3>1. client' = HandleDocumentChange(client, m.key, m.found, m.targets)
      BY <1>6, <2>5
    <3>2. m.key \in Docs /\ m.found \in BOOLEAN /\ m.targets \in SUBSET Ids
      BY <1>3, <2>5 DEF Messages, TargetMessages, DocumentMessages, FilterMessages, SnapshotMessages
    <3>3. \A t \in m.targets : Known(client, t, {m.key})
      BY <1>3, <2>5
    <3>4. Recorded(client, client', rs)
      BY <1>2, <1>4, <3>1, <3>2, <3>3, DocumentChangeSound
    <3>5. QED
      BY <1>2, <3>4, RecordedHandled
  <2>6. CASE m.type = "filter"
    <3>1. client' = HandleExistenceFilter(client, the, m.count, m.bloom) /\ the \in Ids
      BY <1>5, <1>6, <2>6
    <3>2. Recorded(client, client', rs)
      BY <1>2, <1>4, <3>1, ExistenceFilterSound
    <3>3. QED
      BY <1>2, <3>2, RecordedHandled
  <2>7. CASE m.type = "snapshot"
    <3>1. PICK skip \in BOOLEAN : client' = HandleSnapshot(client, m.numbers, skip)
      BY <1>6, <2>7
    <3>2. m.numbers \in [Docs -> 0 .. MaxInputs + 1]
      BY <1>3, <2>7 DEF Messages, TargetMessages, DocumentMessages, FilterMessages, SnapshotMessages
    <3>3. QED
      BY <1>2, <1>4, <3>1, <3>2, HandleSnapshotSound
  <2>8. QED
    BY <1>7, <2>1, <2>2, <2>3, <2>4, <2>5, <2>6, <2>7
<1>9. at' \in SUBSET Docs
  BY <1>6 DEF Existing, IInv
<1>10. inputs' \in 0 .. MaxInputs /\ inputs =< inputs'
  BY <1>1 DEF IInv
<1>11. QED
  BY <1>1, <1>2, <1>3, <1>8, <1>9, <1>10, HandledStep

LEMMA RestartStep ==
  ASSUME IInv, Disconnected, Input, UNCHANGED <<db, at>>,
         LimboSound(client'), ListenSound(client'), client'.state = NewAggregator,
         client'.requests = << >>
  PROVE  IInv'
<1>1. responses' = << >> /\ watched' = [t \in Ids |-> {}] /\ dirty' = FALSE
  BY DEF Disconnected
<1>2. /\ ClientSound(client', << >>) /\ ChangesFit(client')
      /\ ServerSound(client', << >>, [t \in Ids |-> {}])
  BY RestartSound
<1>3. AssertionsHold'
  BY <1>2 DEF AssertionsHold, ChangesFit, Fits
<1>4. Offline'
  BY <1>1 DEF Offline
<1>5. db' \in [Docs -> 0 .. inputs' + 1] /\ inputs' \in 0 .. MaxInputs /\ at' \in SUBSET Docs
  <2>1. db \in [Docs -> 0 .. inputs + 1] /\ inputs \in 0 .. MaxInputs /\ MaxInputs \in Nat
    BY WatchAssumption DEF IInv
  <2>2. inputs' = inputs + 1 /\ inputs < MaxInputs
    BY DEF Input
  <2>3. QED
    BY <2>1, <2>2 DEF IInv
<1>6. QED
  BY <1>1, <1>2, <1>3, <1>4, <1>5 DEF IInv

LEMMA OnWatchStreamCloseKeeps ==
  ASSUME IInv, OnWatchStreamClose
  PROVE  IInv'
<1>1. /\ client' = [client EXCEPT !.open = FALSE, !.requests = << >>,
                                  !.state = NewAggregator, !.updates = NoChanges, !.resets = {}]
      /\ Disconnected /\ Input /\ UNCHANGED <<db, at>>
  BY DEF OnWatchStreamClose
<1>2. client \in Clients /\ LimboSound(client) /\ ListenSound(client)
  BY Unpacked DEF ClientSound
<1>3. /\ NewAggregator \in [Ids -> TargetStates] /\ NoChanges \in [Docs -> {"none", "found", "missing"}]
      /\ << >> \in Seq(Requests)
  BY NewStateType DEF NoChanges
<1>4. /\ client' \in Clients /\ KeepsLimbo(client, client') /\ client'.view = client.view
      /\ client'.state = NewAggregator /\ client'.requests = << >>
  BY <1>1, <1>2, <1>3 DEF Clients, KeepsLimbo
<1>5. LimboSound(client') /\ ListenSound(client')
  BY <1>2, <1>4 DEF LimboSound, ListenSound, KeepsLimbo
<1>6. QED
  BY <1>1, <1>4, <1>5, RestartStep

LEMMA KillKeeps ==
  ASSUME IInv, Kill
  PROVE  IInv'
<1>1. /\ client' = Started(client.cache, client.keys, client.saved)
      /\ Disconnected /\ Input /\ UNCHANGED <<db, at>>
  BY DEF Kill
<1>2. client.cache \in SUBSET Docs /\ client.keys \in SUBSET Docs /\ client.saved \in Tokens
  BY Unpacked, ClientFields
<1>3. LimboSound(client') /\ ListenSound(client') /\ client'.state = NewAggregator /\ client'.requests = << >>
  BY <1>1, <1>2, StartedSound
<1>4. QED
  BY <1>1, <1>3, RestartStep

LEMMA OnWatchStreamOpenKeeps ==
  ASSUME IInv, OnWatchStreamOpen
  PROVE  IInv'
<1>1. ~client.open /\ UNCHANGED <<db, watched, dirty, responses, at, inputs>>
  BY DEF OnWatchStreamOpen
<1>a. PICK order \in SetToSeqs(client.listen) :
        client' = SendInOrder([client EXCEPT !.open = TRUE], "watch", order)
  BY DEF OnWatchStreamOpen
<1>b. IsOrder(order, client.listen)
  BY Unpacked, ClientFields, IdsFinite, AllOrders
<1>2. ClientSound(client', responses) /\ ChangesFit(client') /\ KeysFollow(client, client') /\ client'.open
  BY <1>1, <1>a, <1>b, Unpacked, OpenSound
<1>3. Offline'
  BY <1>2 DEF Offline
<1>4. Said(client, responses) /\ at' \in SUBSET Docs /\ inputs' \in 0 .. MaxInputs /\ inputs =< inputs'
  BY <1>1, Unpacked DEF IInv
<1>5. QED
  BY <1>1, <1>2, <1>3, <1>4, ClientStep

LEMMA ApplyOnlineStateChangeKeeps ==
  ASSUME IInv, ApplyOnlineStateChange
  PROVE  IInv'
<1>1. /\ ~client.open /\ UNCHANGED <<db, watched, dirty, responses, at, inputs>>
      /\ client' = EmitNewSnapshots([client EXCEPT !.view.current = FALSE], FALSE, FALSE)
  BY DEF ApplyOnlineStateChange
<1>2. Handled(client, client', responses)
  BY <1>1, Unpacked, OfflineSound
<1>3. Said(client, responses) /\ at' \in SUBSET Docs /\ inputs' \in 0 .. MaxInputs /\ inputs =< inputs'
  BY <1>1, Unpacked DEF IInv
<1>4. QED
  BY <1>1, <1>2, <1>3, HandledStep

LEMMA OpenPageKeeps ==
  ASSUME IInv, OpenPage
  PROVE  IInv'
<1>1. /\ ~client.view.up /\ UNCHANGED <<db, watched, dirty, responses, at, inputs>>
      /\ client' = Listen([client EXCEPT !.view = [NoView EXCEPT !.up = TRUE, !.synced = client.keys],
                                         !.token[Query] = client.saved], {Query})
  BY DEF OpenPage
<1>2. Handled(client, client', responses)
  BY <1>1, Unpacked, OpenPageSound
<1>3. Said(client, responses) /\ at' \in SUBSET Docs /\ inputs' \in 0 .. MaxInputs /\ inputs =< inputs'
  BY <1>1, Unpacked DEF IInv
<1>4. QED
  BY <1>1, <1>2, <1>3, HandledStep

LEMMA ClosePageKeeps ==
  ASSUME IInv, ClosePage
  PROVE  IInv'
<1>1. /\ client.view.up /\ Input /\ UNCHANGED <<db, watched, dirty, responses, at>>
  BY DEF ClosePage
<1>2. PICK d : d = StopListening([client EXCEPT !.view = NoView, !.saved = client.token[Query]], {Query})
  OBVIOUS
<1>3. client' = RemoveLimboTarget(d, client.view.limbo)
  BY <1>2 DEF ClosePage
<1>4. Handled(client, client', responses)
  BY <1>1, <1>2, <1>3, Unpacked, ClosePageSound
<1>5. inputs' \in 0 .. MaxInputs /\ inputs =< inputs'
  <2>1. inputs' = inputs + 1 /\ inputs < MaxInputs /\ inputs \in 0 .. MaxInputs /\ MaxInputs \in Nat
    BY <1>1, WatchAssumption DEF Input, IInv
  <2>2. QED
    BY <2>1
<1>6. Said(client, responses) /\ at' \in SUBSET Docs
  BY <1>1, Unpacked DEF IInv
<1>7. QED
  BY <1>1, <1>4, <1>5, <1>6, HandledStep

-----------------------------------------------------------------------------
(* The invariant.                                                          *)

LEMMA InitIInv == Init => IInv
<1> SUFFICES ASSUME Init PROVE IInv
  OBVIOUS
<1>1. /\ db \in [Docs -> {0, 1}] /\ watched = [t \in Ids |-> {}] /\ dirty = FALSE /\ responses = << >>
      /\ client = Started({}, {}, << >>) /\ at = {} /\ inputs = 0
  BY DEF Init
<1>2. {} \in SUBSET Docs /\ << >> \in Tokens
  BY DEF Tokens
<1>3. /\ LimboSound(client) /\ ListenSound(client) /\ client.state = NewAggregator
      /\ client.requests = << >>
  BY <1>1, <1>2, StartedSound
<1>4. /\ ClientSound(client, << >>) /\ ChangesFit(client)
      /\ ServerSound(client, << >>, [t \in Ids |-> {}])
  BY <1>3, RestartSound
<1>5. AssertionsHold
  BY <1>4, AssertionsAreFits
<1>6. Offline
  BY <1>1 DEF Offline
<1>7. db \in [Docs -> 0 .. inputs + 1] /\ at \in SUBSET Docs /\ inputs \in 0 .. MaxInputs
  BY <1>1, WatchAssumption
<1>8. QED
  BY <1>1, <1>4, <1>5, <1>6, <1>7 DEF IInv

LEMMA NextIInv == IInv /\ [Next]_vars => IInv'
<1> SUFFICES ASSUME IInv, [Next]_vars PROVE IInv'
  OBVIOUS
<1>1. CASE ServerReads
  BY <1>1, ServerReadsKeeps
<1>2. CASE ServerReset
  BY <1>2, ServerResetKeeps
<1>3. CASE ServerSnapshot
  BY <1>3, ServerSnapshotKeeps
<1>4. ASSUME NEW k \in Docs, ServerChange(k) PROVE IInv'
  BY <1>4, ServerChangeKeeps
<1>5. CASE OnWatchStreamChange
  BY <1>5, OnWatchStreamChangeKeeps
<1>6. CASE OnWatchStreamClose
  BY <1>6, OnWatchStreamCloseKeeps
<1>7. CASE OnWatchStreamOpen
  BY <1>7, OnWatchStreamOpenKeeps
<1>8. CASE ApplyOnlineStateChange
  BY <1>8, ApplyOnlineStateChangeKeeps
<1>9. CASE OpenPage
  BY <1>9, OpenPageKeeps
<1>10. CASE ClosePage
  BY <1>10, ClosePageKeeps
<1>11. CASE Kill
  BY <1>11, KillKeeps
<1>12. CASE UNCHANGED vars
  <2>1. UNCHANGED <<db, watched, dirty, responses, client, at, inputs>>
    BY <1>12 DEF vars
  <2>2. AssertionsHold' /\ Offline'
    BY <2>1 DEF IInv, AssertionsHold, Offline, IsActiveTarget, GetRemoteKeys, Matching
  <2>3. ClientSound(client', responses') /\ ServerSound(client', responses', watched')
    BY <2>1 DEF IInv
  <2>4. QED
    BY <2>1, <2>2, <2>3 DEF IInv
<1>13. QED
  BY <1>1, <1>2, <1>3, <1>4, <1>5, <1>6, <1>7, <1>8, <1>9, <1>10, <1>11, <1>12 DEF Next

LEMMA SpecIInv == Spec => []IInv
  BY InitIInv, NextIInv, PTL DEF Spec

(* TypeOK: besides the types, the client listens to the page's query while *)
(* it is up and to the limbo documents it resolves, to nothing else, and   *)
(* never resolves more of them at once than it may, however the server's   *)
(* messages, broken streams, pages and kills interleave                    *)
(* (PumpEnqueuedLimboResolutions, RemoveLimboTarget, StopListening).       *)
THEOREM TypeCorrect == Spec => []TypeOK
<1>1. IInv => TypeOK
  <2> SUFFICES ASSUME IInv PROVE TypeOK
    OBVIOUS
  <2>1. client \in Clients /\ LimboSound(client) /\ ListenSound(client)
    BY Unpacked DEF ClientSound
  <2>2. <<db>> \in Tokens /\ at \in SUBSET Docs
    BY DbType DEF IInv
  <2>3. client.view \in Views /\ client.enqueued \in Seq(Docs)
    BY <2>1, ClientFields
  <2>4. QED
    BY <2>1, <2>2, <2>3, ClientFields DEF TypeOK, LimboSound, ListenSound, Views
<1>2. QED
  BY <1>1, SpecIInv, PTL

(* No assertion of the aggregator, the sync engine or the view fails: a    *)
(* change that is recorded for an active target fits the keys it will be   *)
(* applied to, whatever was on its way when the target was released and    *)
(* watched again (RecordPendingTargetRequest, HandleTargetChange,          *)
(* RaiseWatchSnapshot).                                                    *)
THEOREM AssertionsNeverFail == Spec => []AssertionsHold
<1>1. IInv => AssertionsHold
  BY DEF IInv
<1>2. QED
  BY <1>1, SpecIInv, PTL

-----------------------------------------------------------------------------
(* Resume tokens.  Under a server that sends a filter together with the    *)
(* snapshot it counts, and pages that do not come back within a mismatch,  *)
(* the client's keys and its token never part.  The invariant follows the  *)
(* keys that the query will have along the messages on their way.          *)

(* The documents a token stands for, and the keys that go with it.         *)
GoesWith(token, ks) == ks = IF token = << >> THEN {} ELSE Existing(token[1])

(* The keys the query will have once its changes are applied.              *)
Expected(c) ==
  (c.view.synced \ Keys(c.state[Query], "Removed")) \cup Keys(c.state[Query], "Added")

(* The last of the requests q for the query watches it from the token on.  *)
Rewatches(r, token) ==
  r.op = "watch" /\ r.target = Query /\ r.token = token /\ r.of = Docs

Requested(q, token) ==
  \E i \in 1 .. Len(q) :
    Rewatches(q[i], token) /\ \A j \in i + 1 .. Len(q) : q[j].target # Query

(* A message that an active query reads takes its keys from A to B.        *)
FilterOf(m) == m.type = "filter" /\ m.targets = {Query}

Follow(m, A, B) ==
  /\ ~Answers(m, Query)
  /\ m.type = "document" =>
       B = IF Query \notin m.targets THEN A ELSE IF m.found THEN A \cup {m.key} ELSE A \ {m.key}
  /\ m.type = "reset" => B = IF m.targets = {Query} THEN {} ELSE A
  /\ m.type = "snapshot" => A = Existing(m.numbers) /\ B = A
  /\ m.type = "filter" =>
       IF m.targets = {Query} THEN B \subseteq A /\ B \subseteq m.bloom /\ m.count = Cardinality(B)
       ELSE B = A
  /\ m.type \in {"added", "removed", "current"} => B = A

(* Messages without a filter of the query that take its keys from A to B.  *)
Run(ms, A, B) ==
  \E F \in [0 .. Len(ms) -> SUBSET Docs] :
    /\ F[0] = A /\ F[Len(ms)] = B
    /\ \A i \in 1 .. Len(ms) : Follow(ms[i], F[i - 1], F[i]) /\ ~FilterOf(ms[i])

(* A filter comes before any snapshot, with its own, and what it takes     *)
(* away is among the keys s the client has.                                *)
Announced(rs, s, F, i) ==
  /\ i + 2 =< Len(rs) /\ rs[i + 1].type = "current" /\ rs[i + 2].type = "snapshot"
  /\ F[i - 1] \ F[i] \subseteq s /\ s \subseteq F[i - 1]
  /\ \A j \in 1 .. i - 1 : rs[j].type # "snapshot"

(* The messages rs take the query's keys from A to those of the server.    *)
Leads(rs, s, A, d) ==
  \E F \in [0 .. Len(rs) -> SUBSET Docs] :
    /\ F[0] = A /\ F[Len(rs)] = Existing(d)
    /\ \A i \in 1 .. Len(rs) :
         Follow(rs[i], F[i - 1], F[i]) /\ (FilterOf(rs[i]) => Announced(rs, s, F, i))

(* They do once the client has read an answer.                             *)
LeadsLater(rs, s, d) ==
  \E a, b \in Seq(Messages), m \in Messages :
    rs = (a \o <<m>>) \o b /\ Answers(m, Query) /\ Leads(b, s, s, d)

(* The query is watched: what is on its way brings it up to date.          *)
Watching(c, rs, w, d) ==
  /\ Unrequested(c.requests) /\ w[Query] = Docs
  /\ \/ LeadsLater(rs, c.view.synced, d)
     \/ \E A \in SUBSET Docs :
          Leads(rs, c.view.synced, A, d) /\ (c.state[Query].due = 0 => A = Expected(c))

(* A filter did not match: the keys are dropped with the next snapshot.    *)
Mismatched(c, rs) ==
  /\ c.state[Query].due = 0 /\ Expected(c) = {}
  /\ \/ Len(rs) >= 1 /\ rs[1].type = "snapshot"
     \/ Len(rs) >= 2 /\ rs[1].type = "current" /\ rs[2].type = "snapshot"

Served(c, rs, w, d) ==
  \/ Query \notin c.resets /\ Requested(c.requests, c.token[Query])
  \/ Query \notin c.resets /\ Watching(c, rs, w, d)
  \/ Query \in c.resets /\ Mismatched(c, rs)

(* What is on disk and what the view has go with their tokens.             *)
Stored(c) ==
  /\ GoesWith(c.saved, c.keys)
  /\ c.view.up => c.keys = c.view.synced /\ GoesWith(c.token[Query], c.view.synced)

Resumes(c, rs, w, d) ==
  /\ Stored(c)
  /\ ~c.open => c.resets = {}
  /\ c.open /\ c.view.up => Served(c, rs, w, d)

RInv == Resumes(client, responses, watched, db)

(* How concatenations are regrouped.                                       *)
Associates(x, y, z) == (x \o y) \o z = x \o (y \o z)
Regroups(q, x, y, z) == ((q \o x) \o y) \o z = q \o ((x \o y) \o z)

LEMMA Associated ==
  ASSUME NEW x \in Seq(Messages), NEW y \in Seq(Messages), NEW z \in Seq(Messages)
  PROVE  Associates(x, y, z)
  BY ConcatAssociative DEF Associates

LEMMA Regrouped ==
  ASSUME NEW q \in Seq(Messages), NEW x \in Seq(Messages), NEW y \in Seq(Messages), NEW z \in Seq(Messages)
  PROVE  Regroups(q, x, y, z)
<1>1. PICK v \in Seq(Messages) : v = x \o y
  BY ConcatProperties
<1>2. Associates(q, x, y) /\ Associates(q, v, z)
  BY Associated
<1>3. QED
  BY <1>1, <1>2, Zenon DEF Associates, Regroups

LEMMA RequestedOn ==
  ASSUME NEW q \in Seq(Requests), NEW new \in Seq(Requests), NEW token,
         (Requested(q, token) /\ Unrequested(new)) \/ Requested(new, token)
  PROVE  Requested(q \o new, token)
<1>1. PICK r : r = q \o new
  OBVIOUS
<1>2. /\ Len(q) \in Nat /\ Len(new) \in Nat /\ Len(r) = Len(q) + Len(new)
      /\ \A i \in 1 .. Len(q) : i \in 1 .. Len(r) /\ r[i] = q[i]
      /\ \A i \in 1 .. Len(new) : Len(q) + i \in 1 .. Len(r) /\ r[Len(q) + i] = new[i]
      /\ \A i \in 1 .. Len(r) : i \in 1 .. Len(q) \/ (i - Len(q) \in 1 .. Len(new) /\ r[i] = new[i - Len(q)])
  BY <1>1, Halves
<1>3. CASE Requested(q, token) /\ Unrequested(new)
  <2>1. PICK i \in 1 .. Len(q) : Rewatches(q[i], token) /\ \A j \in i + 1 .. Len(q) : q[j].target # Query
    BY <1>3 DEF Requested
  <2>2. ASSUME NEW j \in i + 1 .. Len(r) PROVE r[j].target # Query
    <3>1. j \in 1 .. Len(r)
      BY <1>2, <2>1
    <3>2. CASE j \in 1 .. Len(q)
      BY <1>2, <2>1, <3>2
    <3>3. CASE j - Len(q) \in 1 .. Len(new) /\ r[j] = new[j - Len(q)]
      BY <1>3, <3>3 DEF Unrequested
    <3>4. QED
      BY <1>2, <3>1, <3>2, <3>3
  <2>3. i \in 1 .. Len(r) /\ Rewatches(r[i], token)
    BY <1>2, <2>1
  <2>4. QED
    BY <1>1, <2>2, <2>3 DEF Requested
<1>4. CASE Requested(new, token)
  <2>1. PICK i \in 1 .. Len(new) : Rewatches(new[i], token) /\ \A j \in i + 1 .. Len(new) : new[j].target # Query
    BY <1>4 DEF Requested
  <2>2. PICK k \in 1 .. Len(r) : k = Len(q) + i
    BY <1>2, <2>1
  <2>3. ASSUME NEW j \in k + 1 .. Len(r) PROVE r[j].target # Query
    <3>1. j - Len(q) \in i + 1 .. Len(new) /\ j - Len(q) \in 1 .. Len(new) /\ j \in 1 .. Len(r) /\ j \notin 1 .. Len(q)
      BY <1>2, <2>1, <2>2
    <3>2. r[j] = new[j - Len(q)]
      BY <1>2, <3>1
    <3>3. QED
      BY <2>1, <3>1, <3>2
  <2>4. Rewatches(r[k], token)
    BY <1>2, <2>1, <2>2
  <2>5. QED
    BY <1>1, <2>3, <2>4 DEF Requested
<1>5. QED
  BY <1>3, <1>4

(* The oldest request is read.                                             *)
LEMMA RequestRead ==
  ASSUME NEW q \in Seq(Requests), q # << >>
  PROVE  /\ Unrequested(q) => Unrequested(Tail(q)) /\ Head(q).target # Query
         /\ \A token : Requested(q, token) =>
              \/ Requested(Tail(q), token)
              \/ Rewatches(Head(q), token) /\ Unrequested(Tail(q))
<1>1. PICK r : r = Tail(q)
  OBVIOUS
<1>2. /\ Len(q) \in Nat /\ Len(q) >= 1 /\ Len(r) = Len(q) - 1 /\ Head(q) = q[1]
      /\ \A i \in 1 .. Len(r) : i + 1 \in 1 .. Len(q) /\ r[i] = q[i + 1]
  BY <1>1, Rest
<1>3. Unrequested(q) => Unrequested(r) /\ Head(q).target # Query
  BY <1>2 DEF Unrequested
<1>4. ASSUME NEW token, Requested(q, token)
      PROVE  Requested(r, token) \/ (Rewatches(Head(q), token) /\ Unrequested(r))
  <2>1. PICK i \in 1 .. Len(q) : Rewatches(q[i], token) /\ \A j \in i + 1 .. Len(q) : q[j].target # Query
    BY <1>4 DEF Requested
  <2>2. CASE i = 1
    <3>1. ASSUME NEW j \in 1 .. Len(r) PROVE r[j].target # Query
      BY <1>2, <2>1, <2>2
    <3>2. QED
      BY <1>2, <2>1, <2>2, <3>1 DEF Unrequested
  <2>3. CASE i # 1
    <3>1. PICK k \in 1 .. Len(r) : i = k + 1
      BY <1>2, <2>1, <2>3
    <3>2. ASSUME NEW j \in k + 1 .. Len(r) PROVE r[j].target # Query
      <4>1. j \in 1 .. Len(r) /\ j + 1 \in i + 1 .. Len(q)
        BY <1>2, <3>1
      <4>2. QED
        BY <1>2, <2>1, <4>1
    <3>3. Rewatches(r[k], token)
      BY <1>2, <2>1, <3>1
    <3>4. QED
      BY <3>2, <3>3 DEF Requested
  <2>4. QED
    BY <2>2, <2>3
<1>5. QED
  BY <1>1, <1>3, <1>4

(* What is asked or on its way is due.                                     *)
LEMMA DueIsOwed ==
  ASSUME NEW rs \in Seq(Messages), NEW qs \in Seq(Requests), NEW n \in Nat, Owes(rs, qs, Query, n)
  PROVE  /\ \A i \in 1 .. Len(rs) : Answers(rs[i], Query) => n > 0
         /\ \A i \in 1 .. Len(qs) : qs[i].target = Query => n > 0
<1>1. PICK m \in Int, f \in [0 .. Len(rs) -> Int], g \in [0 .. Len(qs) -> Int] :
        /\ 0 =< f[0] /\ m =< g[0]
        /\ \A i \in 0 .. Len(rs) : f[i] =< m
        /\ \A i \in 1 .. Len(rs) : f[i - 1] =< f[i] /\ (Answers(rs[i], Query) => f[i - 1] < f[i])
        /\ \A i \in 0 .. Len(qs) : g[i] =< n
        /\ \A i \in 1 .. Len(qs) : g[i - 1] =< g[i] /\ (qs[i].target = Query => g[i - 1] < g[i])
  BY DEF Owes
<1>2. PICK l \in Nat, k \in Nat : l = Len(rs) /\ k = Len(qs)
  BY LenProperties
<1>3. \A i \in 0 .. l : f[i] \in Int /\ f[i] =< m
  BY <1>1, <1>2
<1>4. \A i \in 0 .. k : g[i] \in Int /\ g[i] =< n
  BY <1>1, <1>2
<1>5. \A i \in 0 .. l : f[i] >= 0
  <2> DEFINE S == {i \in 0 .. l : f[i] >= 0}
  <2>1. 0 \in S
    BY <1>1, <1>3
  <2>2. ASSUME NEW i \in 0 .. l - 1, i \in S PROVE i + 1 \in S
    <3>1. i + 1 \in 1 .. Len(rs) /\ (i + 1) - 1 = i /\ i + 1 \in 0 .. l
      BY <1>2
    <3>2. f[i] =< f[i + 1]
      BY <1>1, <3>1
    <3>3. QED
      BY <1>3, <2>2, <3>1, <3>2
  <2> HIDE DEF S
  <2>3. \A i \in 0 .. l : i \in S
    BY <2>1, <2>2, UpTo
  <2>4. QED
    BY <2>3 DEF S
<1>6. \A i \in 0 .. k : g[i] >= g[0]
  <2> DEFINE S == {i \in 0 .. k : g[i] >= g[0]}
  <2>1. 0 \in S
    BY <1>4
  <2>2. ASSUME NEW i \in 0 .. k - 1, i \in S PROVE i + 1 \in S
    <3>1. i + 1 \in 1 .. Len(qs) /\ (i + 1) - 1 = i /\ i + 1 \in 0 .. k /\ 0 \in 0 .. k
      BY <1>2
    <3>2. g[i] =< g[i + 1]
      BY <1>1, <3>1
    <3>3. QED
      BY <1>4, <2>2, <3>1, <3>2
  <2> HIDE DEF S
  <2>3. \A i \in 0 .. k : i \in S
    BY <2>1, <2>2, UpTo
  <2>4. QED
    BY <2>3 DEF S
<1>7. m >= 0 /\ g[0] >= m /\ g[0] =< n /\ g[0] \in Int
  <2>1. 0 \in 0 .. l /\ 0 \in 0 .. k
    OBVIOUS
  <2>2. QED
    BY <1>1, <1>3, <1>4, <1>5, <2>1
<1>8. ASSUME NEW i \in 1 .. Len(rs), Answers(rs[i], Query) PROVE n > 0
  <2>1. i \in 0 .. l /\ i - 1 \in 0 .. l
    BY <1>2
  <2>2. f[i - 1] < f[i] /\ f[i - 1] >= 0 /\ f[i] =< m /\ f[i] \in Int /\ f[i - 1] \in Int
    BY <1>1, <1>3, <1>5, <1>8, <2>1
  <2>3. QED
    BY <1>7, <2>2
<1>9. ASSUME NEW i \in 1 .. Len(qs), qs[i].target = Query PROVE n > 0
  <2>1. i \in 0 .. k /\ i - 1 \in 0 .. k
    BY <1>2
  <2>2. g[i - 1] < g[i] /\ g[i - 1] >= g[0] /\ g[i] =< n /\ g[i] \in Int /\ g[i - 1] \in Int
    BY <1>1, <1>4, <1>6, <1>9, <2>1
  <2>3. QED
    BY <1>7, <2>2
<1>10. QED
  BY <1>8, <1>9

-----------------------------------------------------------------------------
(* Messages that lead from keys to keys.                                   *)

LEMMA RunOne ==
  ASSUME NEW m \in Messages, NEW A \in SUBSET Docs, NEW B \in SUBSET Docs, Follow(m, A, B), ~FilterOf(m)
  PROVE  Run(<<m>>, A, B)
<1>1. PICK F : F = [i \in 0 .. 1 |-> IF i = 0 THEN A ELSE B]
  OBVIOUS
<1>2. F \in [0 .. 1 -> SUBSET Docs] /\ F[0] = A /\ F[1] = B
  BY <1>1
<1>3. PICK ms : ms = <<m>>
  OBVIOUS
<1>4. Len(ms) = 1 /\ ms[1] = m
  BY <1>3
<1>5. ASSUME NEW i \in 1 .. 1 PROVE Follow(ms[i], F[i - 1], F[i]) /\ ~FilterOf(ms[i])
  <2>1. i = 1 /\ i - 1 = 0
    OBVIOUS
  <2>2. QED
    BY <1>2, <1>4, <2>1
<1>6. Run(ms, A, B)
  BY <1>2, <1>4, <1>5 DEF Run
<1>7. QED
  BY <1>3, <1>6

LEMMA RunOthers ==
  ASSUME NEW ms \in Seq(Messages), NEW A \in SUBSET Docs,
         \A i \in 1 .. Len(ms) : Follow(ms[i], A, A) /\ ~FilterOf(ms[i])
  PROVE  Run(ms, A, A)
<1>1. PICK l \in Nat : l = Len(ms)
  BY LenProperties
<1>2. PICK F : F = [i \in 0 .. l |-> A]
  OBVIOUS
<1>3. F \in [0 .. l -> SUBSET Docs] /\ F[0] = A /\ F[l] = A /\ \A i \in 1 .. l : F[i - 1] = A /\ F[i] = A
  BY <1>2
<1>4. QED
  BY <1>1, <1>3 DEF Run

(* One function of positions after another.                                *)
Joins(l, n, F, G, H) ==
  /\ \A i \in 0 .. l : H[i] = F[i]
  /\ \A i \in 0 .. n : H[l + i] = G[i]

LEMMA Joined ==
  ASSUME NEW l \in Nat, NEW n \in Nat,
         NEW F \in [0 .. l -> SUBSET Docs], NEW G \in [0 .. n -> SUBSET Docs], F[l] = G[0]
  PROVE  \E H \in [0 .. l + n -> SUBSET Docs] : Joins(l, n, F, G, H)
<1> DEFINE H == [i \in 0 .. l + n |-> IF i =< l THEN F[i] ELSE G[i - l]]
<1>1. ASSUME NEW i \in 0 .. l + n PROVE H[i] \in SUBSET Docs
  <2>1. CASE i =< l
    BY <2>1
  <2>2. CASE i > l
    <3>1. i - l \in 0 .. n
      BY <2>2
    <3>2. QED
      BY <2>2, <3>1
  <2>3. QED
    BY <2>1, <2>2
<1>2. H = [i \in 0 .. l + n |-> H[i]]
  OBVIOUS
<1>3. ASSUME NEW i \in 0 .. l PROVE H[i] = F[i]
  BY <1>3
<1>4. ASSUME NEW i \in 0 .. n PROVE H[l + i] = G[i]
  <2>1. CASE i = 0
    BY <1>3, <2>1
  <2>2. CASE i > 0
    <3>1. l + i \in 0 .. l + n /\ ~(l + i =< l) /\ (l + i) - l = i
      BY <2>2
    <3>2. QED
      BY <3>1
  <2>3. QED
    BY <2>1, <2>2
<1> HIDE DEF H
<1>5. H \in [0 .. l + n -> SUBSET Docs]
  BY <1>1, <1>2
<1>6. QED
  BY <1>3, <1>4, <1>5 DEF Joins

LEMMA RunOn ==
  ASSUME NEW a \in Seq(Messages), NEW b \in Seq(Messages), NEW A, NEW B, NEW C,
         Run(a, A, B), Run(b, B, C)
  PROVE  Run(a \o b, A, C)
<1>1. PICK q : q = a \o b
  OBVIOUS
<1>2. PICK l \in Nat, n \in Nat : l = Len(a) /\ n = Len(b)
  BY LenProperties
<1>3. /\ Len(q) = l + n
      /\ \A i \in 1 .. l : q[i] = a[i]
      /\ \A i \in 1 .. n : q[l + i] = b[i]
      /\ \A i \in 1 .. l + n : i \in 1 .. l \/ i - l \in 1 .. n
  BY <1>1, <1>2, Halves
<1>4. PICK F \in [0 .. l -> SUBSET Docs] :
        /\ F[0] = A /\ F[l] = B
        /\ \A i \in 1 .. l : Follow(a[i], F[i - 1], F[i]) /\ ~FilterOf(a[i])
  BY <1>2 DEF Run
<1>5. PICK G \in [0 .. n -> SUBSET Docs] :
        /\ G[0] = B /\ G[n] = C
        /\ \A i \in 1 .. n : Follow(b[i], G[i - 1], G[i]) /\ ~FilterOf(b[i])
  BY <1>2 DEF Run
<1>6. F[l] = G[0]
  BY <1>4, <1>5
<1>7. PICK H \in [0 .. l + n -> SUBSET Docs] : Joins(l, n, F, G, H)
  BY <1>6, Joined
<1>b. /\ \A i \in 0 .. l : H[i] = F[i]
      /\ \A i \in 0 .. n : H[l + i] = G[i]
  BY <1>7 DEF Joins
<1>8. H[0] = A /\ H[l + n] = C
  BY <1>4, <1>5, <1>b
<1>9. ASSUME NEW i \in 1 .. l + n PROVE Follow(q[i], H[i - 1], H[i]) /\ ~FilterOf(q[i])
  <2>1. CASE i \in 1 .. l
    <3>1. i - 1 \in 0 .. l /\ i \in 0 .. l
      BY <2>1
    <3>2. H[i - 1] = F[i - 1] /\ H[i] = F[i] /\ q[i] = a[i]
      BY <1>3, <1>b, <2>1, <3>1
    <3>3. QED
      BY <1>4, <2>1, <3>2
  <2>2. CASE i - l \in 1 .. n
    <3>1. PICK j \in 1 .. n : j = i - l
      BY <2>2
    <3>2. i = l + j /\ i - 1 = l + (j - 1) /\ j \in 0 .. n /\ j - 1 \in 0 .. n
      BY <3>1
    <3>3. H[i] = G[j] /\ H[i - 1] = G[j - 1] /\ q[i] = b[j]
      BY <1>3, <1>b, <3>2
    <3>4. QED
      BY <1>5, <3>1, <3>3
  <2>3. QED
    BY <1>3, <2>1, <2>2
<1>10. Run(q, A, C)
  BY <1>3, <1>7, <1>8, <1>9 DEF Run
<1>11. QED
  BY <1>1, <1>10

(* Documents that are sent one by one.                                     *)
LEMMA RunDocuments ==
  ASSUME NEW ks \in SUBSET Docs, NEW A \in SUBSET Docs, NEW found \in BOOLEAN
  PROVE  Run(Documents(ks, found, Query), A, IF found THEN A \cup ks ELSE A \ ks)
<1>1. PICK n \in Nat : n = Cardinality(ks)
  BY WatchAssumption, FS_Subset, FS_CardinalityType
<1>2. PICK o : o = SetToSeq(ks)
  OBVIOUS
<1>3. IsOrder(o, ks) /\ Len(o) = n
  BY <1>1, <1>2, WatchAssumption, FS_Subset, AllOrders, OrderOf
<1>4. DOMAIN o = 1 .. n /\ {o[i] : i \in 1 .. n} = ks /\ \A i \in 1 .. n : o[i] \in ks
  <2>1. o \in Seq(ks) /\ ToSet(o) = ks
    BY <1>3 DEF IsOrder
  <2>2. DOMAIN o = 1 .. n
    BY <1>3, <2>1, LenProperties
  <2>3. QED
    BY <2>1, <2>2 DEF ToSet
<1>5. PICK ms : ms = [i \in 1 .. n |-> Document(o[i], found, {Query})]
  OBVIOUS
<1>6. ms = Documents(ks, found, Query) /\ Len(ms) = n
  BY <1>1, <1>2, <1>5 DEF Documents
<1>7. ASSUME NEW i \in 1 .. n
      PROVE  /\ ms[i].type = "document" /\ ms[i].targets = {Query}
             /\ ms[i].key = o[i] /\ ms[i].found = found
  BY <1>5 DEF Document
<1> DEFINE seen(i) == {o[j] : j \in 1 .. i}
           F == [i \in 0 .. n |-> IF found THEN A \cup seen(i) ELSE A \ seen(i)]
<1>8. ASSUME NEW i \in 1 .. n PROVE seen(i) = seen(i - 1) \cup {o[i]}
  <2>1. 1 .. i = (1 .. i - 1) \cup {i}
    OBVIOUS
  <2>2. QED
    BY <2>1
<1>9. seen(0) = {} /\ seen(n) = ks /\ \A i \in 0 .. n : seen(i) \subseteq ks
  BY <1>4
<1> HIDE DEF seen
<1>10. /\ F \in [0 .. n -> SUBSET Docs] /\ F[0] = A
       /\ F[n] = IF found THEN A \cup ks ELSE A \ ks
  BY <1>9
<1>11. ASSUME NEW i \in 1 .. n PROVE Follow(ms[i], F[i - 1], F[i]) /\ ~FilterOf(ms[i])
  <2>1. /\ F[i] = IF found THEN A \cup seen(i) ELSE A \ seen(i)
        /\ F[i - 1] = IF found THEN A \cup seen(i - 1) ELSE A \ seen(i - 1)
    OBVIOUS
  <2> HIDE DEF F
  <2>2. F[i] = IF found THEN F[i - 1] \cup {o[i]} ELSE F[i - 1] \ {o[i]}
    BY <1>8, <2>1
  <2>3. QED
    BY <1>7, <2>2 DEF Follow, FilterOf, Answers
<1> HIDE DEF F
<1>12. Run(ms, A, IF found THEN A \cup ks ELSE A \ ks)
  BY <1>6, <1>10, <1>11 DEF Run
<1>13. QED
  BY <1>6, <1>12

LEMMA ExistingType == \A d : Existing(d) \in SUBSET Docs
  BY DEF Existing

(* More messages are sent.                                                 *)
LEMMA LeadsOn ==
  ASSUME NEW rs \in Seq(Messages), NEW new \in Seq(Messages), NEW s, NEW A, NEW d, NEW e,
         Leads(rs, s, A, d), Run(new, Existing(d), Existing(e))
  PROVE  Leads(rs \o new, s, A, e)
<1>1. PICK q : q = rs \o new
  OBVIOUS
<1>2. PICK l \in Nat, n \in Nat : l = Len(rs) /\ n = Len(new)
  BY LenProperties
<1>3. /\ Len(q) = l + n
      /\ \A i \in 1 .. l : q[i] = rs[i]
      /\ \A i \in 1 .. n : q[l + i] = new[i]
      /\ \A i \in 1 .. l + n : i \in 1 .. l \/ i - l \in 1 .. n
  BY <1>1, <1>2, Halves
<1>4. PICK F \in [0 .. l -> SUBSET Docs] :
        /\ F[0] = A /\ F[l] = Existing(d)
        /\ \A i \in 1 .. l : Follow(rs[i], F[i - 1], F[i]) /\ (FilterOf(rs[i]) => Announced(rs, s, F, i))
  BY <1>2 DEF Leads
<1>5. PICK G \in [0 .. n -> SUBSET Docs] :
        /\ G[0] = Existing(d) /\ G[n] = Existing(e)
        /\ \A i \in 1 .. n : Follow(new[i], G[i - 1], G[i]) /\ ~FilterOf(new[i])
  BY <1>2 DEF Run
<1>6. F[l] = G[0]
  BY <1>4, <1>5
<1>7. PICK H \in [0 .. l + n -> SUBSET Docs] : Joins(l, n, F, G, H)
  BY <1>6, Joined
<1>b. /\ \A i \in 0 .. l : H[i] = F[i]
      /\ \A i \in 0 .. n : H[l + i] = G[i]
  BY <1>7 DEF Joins
<1>8. H[0] = A /\ H[l + n] = Existing(e)
  BY <1>4, <1>5, <1>b
<1>9. ASSUME NEW i \in 1 .. l + n
      PROVE  Follow(q[i], H[i - 1], H[i]) /\ (FilterOf(q[i]) => Announced(q, s, H, i))
  <2>1. CASE i \in 1 .. l
    <3>1. i - 1 \in 0 .. l /\ i \in 0 .. l
      BY <2>1
    <3>2. H[i - 1] = F[i - 1] /\ H[i] = F[i] /\ q[i] = rs[i]
      BY <1>3, <1>b, <2>1, <3>1
    <3>3. ASSUME FilterOf(q[i]) PROVE Announced(q, s, H, i)
      <4>1. Announced(rs, s, F, i)
        BY <1>4, <2>1, <3>2, <3>3
      <4>2. i + 2 =< l /\ i + 1 \in 1 .. l /\ i + 2 \in 1 .. l
        BY <1>2, <2>1, <4>1 DEF Announced
      <4>3. q[i + 1] = rs[i + 1] /\ q[i + 2] = rs[i + 2] /\ i + 2 =< Len(q)
        BY <1>3, <4>2
      <4>4. \A j \in 1 .. i - 1 : q[j] = rs[j]
        BY <1>3, <2>1
      <4>5. QED
        BY <3>2, <4>1, <4>3, <4>4 DEF Announced
    <3>4. QED
      BY <1>4, <2>1, <3>2, <3>3
  <2>2. CASE i - l \in 1 .. n
    <3>1. PICK j \in 1 .. n : j = i - l
      BY <2>2
    <3>2. i = l + j /\ i - 1 = l + (j - 1) /\ j \in 0 .. n /\ j - 1 \in 0 .. n
      BY <3>1
    <3>3. H[i] = G[j] /\ H[i - 1] = G[j - 1] /\ q[i] = new[j]
      BY <1>3, <1>b, <3>2
    <3>4. QED
      BY <1>5, <3>1, <3>3
  <2>3. QED
    BY <1>3, <2>1, <2>2
<1>10. Leads(q, s, A, e)
  BY <1>3, <1>7, <1>8, <1>9 DEF Leads
<1>11. QED
  BY <1>1, <1>10

LEMMA LaterOn ==
  ASSUME NEW rs \in Seq(Messages), NEW new \in Seq(Messages), NEW s, NEW d, NEW e,
         LeadsLater(rs, s, d), Run(new, Existing(d), Existing(e))
  PROVE  LeadsLater(rs \o new, s, e)
<1>1. PICK a \in Seq(Messages), b \in Seq(Messages), m \in Messages :
        rs = (a \o <<m>>) \o b /\ Answers(m, Query) /\ Leads(b, s, s, d)
  BY DEF LeadsLater
<1>2. PICK x : x = a \o <<m>>
  OBVIOUS
<1>3. x \in Seq(Messages)
  BY <1>2, ConcatProperties
<1>4. b \o new \in Seq(Messages) /\ rs \o new = x \o (b \o new)
  <2>1. b \o new \in Seq(Messages)
    BY ConcatProperties
  <2>2. Associates(x, b, new)
    BY <1>3, Associated
  <2>3. QED
    BY <1>1, <1>2, <2>1, <2>2, Zenon DEF Associates
<1>5. Leads(b \o new, s, s, e)
  BY <1>1, LeadsOn
<1>6. QED
  BY <1>1, <1>2, <1>4, <1>5 DEF LeadsLater

LEMMA WatchingOn ==
  ASSUME NEW c, NEW rs \in Seq(Messages), NEW w, NEW new \in Seq(Messages), NEW d, NEW e,
         Watching(c, rs, w, d), Run(new, Existing(d), Existing(e))
  PROVE  Watching(c, rs \o new, w, e)
<1>1. CASE LeadsLater(rs, c.view.synced, d)
  BY <1>1, LaterOn DEF Watching
<1>2. ASSUME NEW A \in SUBSET Docs,
             Leads(rs, c.view.synced, A, d) /\ (c.state[Query].due = 0 => A = Expected(c))
      PROVE  Watching(c, rs \o new, w, e)
  <2>1. Leads(rs \o new, c.view.synced, A, e)
    BY <1>2, LeadsOn
  <2>2. QED
    BY <1>2, <2>1 DEF Watching
<1>3. QED
  BY <1>1, <1>2 DEF Watching

LEMMA MismatchedOn ==
  ASSUME NEW c, NEW rs \in Seq(Messages), NEW new \in Seq(Messages), Mismatched(c, rs)
  PROVE  Mismatched(c, rs \o new)
<1>1. PICK q : q = rs \o new
  OBVIOUS
<1>2. /\ Len(rs) \in Nat /\ Len(new) \in Nat /\ Len(q) = Len(rs) + Len(new)
      /\ \A i \in 1 .. Len(rs) : q[i] = rs[i]
  BY <1>1, Halves
<1>3. Mismatched(c, q)
  BY <1>2 DEF Mismatched
<1>4. QED
  BY <1>1, <1>3

LEMMA RunLeads ==
  ASSUME NEW ms \in Seq(Messages), NEW s, NEW A, NEW d, Run(ms, A, Existing(d))
  PROVE  Leads(ms, s, A, d)
  BY DEF Run, Leads

(* A filter with its snapshot.                                             *)
LEMMA LeadsFilter ==
  ASSUME NEW f \in Messages, NEW cur \in Messages, NEW snap \in Messages, NEW s, NEW d,
         NEW A \in SUBSET Docs, FilterOf(f), Follow(f, A, Existing(d)),
         A \ Existing(d) \subseteq s, s \subseteq A,
         cur.type = "current", snap.type = "snapshot", snap.numbers = d
  PROVE  Leads(<<f, cur, snap>>, s, A, d)
<1>1. PICK E \in SUBSET Docs : E = Existing(d)
  BY ExistingType
<1>2. PICK F : F = [i \in 0 .. 3 |-> IF i = 0 THEN A ELSE E]
  OBVIOUS
<1>3. F \in [0 .. 3 -> SUBSET Docs] /\ F[0] = A /\ F[1] = E /\ F[2] = E /\ F[3] = E
  BY <1>2
<1>4. PICK ms : ms = <<f, cur, snap>>
  OBVIOUS
<1>5. Len(ms) = 3 /\ ms[1] = f /\ ms[2] = cur /\ ms[3] = snap
  BY <1>4
<1>6. Follow(cur, E, E) /\ ~FilterOf(cur) /\ Follow(snap, E, E) /\ ~FilterOf(snap)
  BY <1>1 DEF Follow, FilterOf, Answers
<1>7. Announced(ms, s, F, 1)
  BY <1>1, <1>3, <1>5 DEF Announced
<1>8. ASSUME NEW i \in 1 .. 3
      PROVE  Follow(ms[i], F[i - 1], F[i]) /\ (FilterOf(ms[i]) => Announced(ms, s, F, i))
  <2>1. CASE i = 1
    BY <1>1, <1>3, <1>5, <1>7, <2>1
  <2>2. CASE i = 2
    BY <1>3, <1>5, <1>6, <2>2
  <2>3. CASE i = 3
    BY <1>3, <1>5, <1>6, <2>3
  <2>4. QED
    BY <2>1, <2>2, <2>3
<1>9. Leads(ms, s, A, d)
  BY <1>1, <1>3, <1>5, <1>8 DEF Leads
<1>10. QED
  BY <1>4, <1>9

(* Other messages come first.                                              *)
LEMMA LeadsAfter ==
  ASSUME NEW a \in Seq(Messages), NEW b \in Seq(Messages), NEW X, NEW A, NEW s, NEW d,
         Run(a, X, A), \A i \in 1 .. Len(a) : a[i].type # "snapshot", Leads(b, s, A, d)
  PROVE  Leads(a \o b, s, X, d)
<1>1. PICK q : q = a \o b
  OBVIOUS
<1>2. PICK l \in Nat, n \in Nat : l = Len(a) /\ n = Len(b)
  BY LenProperties
<1>3. /\ Len(q) = l + n
      /\ \A i \in 1 .. l : q[i] = a[i]
      /\ \A i \in 1 .. n : q[l + i] = b[i]
      /\ \A i \in 1 .. l + n : i \in 1 .. l \/ i - l \in 1 .. n
  BY <1>1, <1>2, Halves
<1>4. PICK F \in [0 .. l -> SUBSET Docs] :
        /\ F[0] = X /\ F[l] = A
        /\ \A i \in 1 .. l : Follow(a[i], F[i - 1], F[i]) /\ ~FilterOf(a[i])
  BY <1>2 DEF Run
<1>5. PICK G \in [0 .. n -> SUBSET Docs] :
        /\ G[0] = A /\ G[n] = Existing(d)
        /\ \A i \in 1 .. n : Follow(b[i], G[i - 1], G[i]) /\ (FilterOf(b[i]) => Announced(b, s, G, i))
  BY <1>2 DEF Leads
<1>6. F[l] = G[0]
  BY <1>4, <1>5
<1>7. PICK H \in [0 .. l + n -> SUBSET Docs] : Joins(l, n, F, G, H)
  BY <1>6, Joined
<1>b. /\ \A i \in 0 .. l : H[i] = F[i]
      /\ \A i \in 0 .. n : H[l + i] = G[i]
  BY <1>7 DEF Joins
<1>8. H[0] = X /\ H[l + n] = Existing(d)
  BY <1>4, <1>5, <1>b
<1>9. ASSUME NEW i \in 1 .. l + n
      PROVE  Follow(q[i], H[i - 1], H[i]) /\ (FilterOf(q[i]) => Announced(q, s, H, i))
  <2>1. CASE i \in 1 .. l
    <3>1. i - 1 \in 0 .. l /\ i \in 0 .. l
      BY <2>1
    <3>2. H[i - 1] = F[i - 1] /\ H[i] = F[i] /\ q[i] = a[i]
      BY <1>3, <1>b, <2>1, <3>1
    <3>3. QED
      BY <1>4, <2>1, <3>2
  <2>2. CASE i - l \in 1 .. n
    <3>1. PICK j \in 1 .. n : j = i - l
      BY <2>2
    <3>2. i = l + j /\ i - 1 = l + (j - 1) /\ j \in 0 .. n /\ j - 1 \in 0 .. n
      BY <3>1
    <3>3. H[i] = G[j] /\ H[i - 1] = G[j - 1] /\ q[i] = b[j]
      BY <1>3, <1>b, <3>2
    <3>4. ASSUME FilterOf(q[i]) PROVE Announced(q, s, H, i)
      <4>1. Announced(b, s, G, j)
        BY <1>5, <3>1, <3>3, <3>4
      <4>2. j + 2 =< n /\ j + 1 \in 1 .. n /\ j + 2 \in 1 .. n
        BY <1>2, <3>1, <4>1 DEF Announced
      <4>3. /\ q[i + 1] = b[j + 1] /\ q[i + 2] = b[j + 2] /\ i + 2 =< Len(q)
        <5>1. i + 1 = l + (j + 1) /\ i + 2 = l + (j + 2)
          BY <3>2
        <5>2. q[l + (j + 1)] = b[j + 1] /\ q[l + (j + 2)] = b[j + 2]
          BY <1>3, <4>2
        <5>3. i + 2 =< l + n
          BY <3>2, <4>2
        <5>4. QED
          BY <1>3, <5>1, <5>2, <5>3
      <4>4. ASSUME NEW k \in 1 .. i - 1 PROVE q[k].type # "snapshot"
        <5>1. CASE k \in 1 .. l
          BY <1>2, <1>3, <5>1
        <5>2. CASE k > l
          <6>1. PICK h \in 1 .. j - 1 : k = l + h /\ h \in 1 .. n
            BY <3>2, <5>2
          <6>2. q[k] = b[h]
            BY <1>3, <6>1
          <6>3. QED
            BY <4>1, <6>1, <6>2 DEF Announced
        <5>3. QED
          BY <5>1, <5>2
      <4>5. QED
        BY <3>3, <4>1, <4>3, <4>4 DEF Announced
    <3>5. QED
      BY <1>5, <3>1, <3>3, <3>4
  <2>3. QED
    BY <1>3, <2>1, <2>2
<1>10. Leads(q, s, X, d)
  BY <1>3, <1>7, <1>8, <1>9 DEF Leads
<1>11. QED
  BY <1>1, <1>10

(* The first message is read, and takes the keys from A to B.              *)
FilterComes(rs, s, A, B) ==
  FilterOf(Head(rs)) =>
    /\ A \ B \subseteq s /\ s \subseteq A
    /\ Len(rs) >= 3 /\ rs[2].type = "current" /\ rs[3].type = "snapshot"

LeadsPast(rs, s, A, B, d) ==
  /\ Follow(Head(rs), A, B) /\ FilterComes(rs, s, A, B)
  /\ Leads(Tail(rs), s, B, d)
  /\ Head(rs).type = "snapshot" => \A z : Leads(Tail(rs), z, B, d)

LEMMA LeadsRead ==
  ASSUME NEW rs \in Seq(Messages), rs # << >>, NEW s, NEW A, NEW d, Leads(rs, s, A, d)
  PROVE  \E B \in SUBSET Docs : LeadsPast(rs, s, A, B, d)
<1>1. PICK r : r = Tail(rs)
  OBVIOUS
<1>2. PICK l \in Nat : l = Len(rs) /\ l >= 1
  BY Rest
<1>3. /\ r \in Seq(Messages) /\ Len(r) = l - 1 /\ Head(rs) = rs[1]
      /\ \A i \in 1 .. l - 1 : i + 1 \in 1 .. l /\ r[i] = rs[i + 1]
  BY <1>1, <1>2, Rest
<1>4. PICK F \in [0 .. l -> SUBSET Docs] :
        /\ F[0] = A /\ F[l] = Existing(d)
        /\ \A i \in 1 .. l : Follow(rs[i], F[i - 1], F[i]) /\ (FilterOf(rs[i]) => Announced(rs, s, F, i))
  BY <1>2 DEF Leads
<1>5. PICK G : G = [i \in 0 .. l - 1 |-> F[i + 1]]
  OBVIOUS
<1>6. G \in [0 .. l - 1 -> SUBSET Docs] /\ \A i \in 0 .. l - 1 : G[i] = F[i + 1]
  BY <1>5
<1>7. G[0] = F[1] /\ G[l - 1] = Existing(d) /\ F[1] \in SUBSET Docs
  BY <1>2, <1>4, <1>6
<1>8. Follow(rs[1], A, F[1]) /\ (FilterOf(rs[1]) => Announced(rs, s, F, 1))
  <2>1. 1 \in 1 .. l /\ 1 - 1 = 0
    BY <1>2
  <2>2. QED
    BY <1>4, <2>1
<1>9. FilterComes(rs, s, A, F[1])
  BY <1>3, <1>4, <1>8 DEF FilterComes, Announced
<1>10. ASSUME NEW i \in 1 .. l - 1
       PROVE  /\ Follow(r[i], G[i - 1], G[i]) /\ (FilterOf(r[i]) => Announced(r, s, G, i))
              /\ FilterOf(r[i]) => rs[1].type # "snapshot"
  <2>1. i + 1 \in 1 .. l /\ r[i] = rs[i + 1] /\ (i + 1) - 1 = i /\ i \in 0 .. l - 1 /\ i - 1 \in 0 .. l - 1
    BY <1>3
  <2>2. G[i] = F[i + 1] /\ G[i - 1] = F[i]
    BY <1>6, <2>1
  <2>3. Follow(r[i], G[i - 1], G[i])
    BY <1>4, <2>1, <2>2
  <2>4. ASSUME FilterOf(r[i]) PROVE Announced(r, s, G, i) /\ rs[1].type # "snapshot"
    <3>1. Announced(rs, s, F, i + 1)
      BY <1>4, <2>1, <2>4
    <3>2. i + 3 =< l
      BY <1>2, <3>1 DEF Announced
    <3>3. r[i + 1] = rs[i + 2] /\ r[i + 2] = rs[i + 3] /\ i + 2 =< Len(r)
      BY <1>3, <3>2
    <3>4. rs[i + 2].type = "current" /\ rs[i + 3].type = "snapshot"
      BY <3>1 DEF Announced
    <3>5. \A j \in 1 .. i : rs[j].type # "snapshot"
      BY <3>1 DEF Announced
    <3>6. ASSUME NEW j \in 1 .. i - 1 PROVE r[j].type # "snapshot"
      <4>1. j \in 1 .. l - 1 /\ j + 1 \in 1 .. i
        BY <1>2
      <4>2. QED
        BY <1>3, <3>5, <4>1
    <3>7. F[i] \ F[i + 1] \subseteq s /\ s \subseteq F[i]
      BY <2>1, <3>1 DEF Announced
    <3>8. QED
      BY <2>2, <3>3, <3>4, <3>5, <3>6, <3>7 DEF Announced
  <2>5. QED
    BY <2>3, <2>4
<1>11. Leads(r, s, F[1], d)
  BY <1>3, <1>6, <1>7, <1>10 DEF Leads
<1>12. ASSUME Head(rs).type = "snapshot", NEW z PROVE Leads(r, z, F[1], d)
  <2>1. \A i \in 1 .. l - 1 : Follow(r[i], G[i - 1], G[i]) /\ ~FilterOf(r[i])
    BY <1>3, <1>10, <1>12
  <2>2. QED
    BY <1>3, <1>6, <1>7, <2>1 DEF Leads
<1>13. QED
  BY <1>1, <1>3, <1>7, <1>8, <1>9, <1>11, <1>12 DEF LeadsPast

LEMMA LaterRead ==
  ASSUME NEW rs \in Seq(Messages), rs # << >>, NEW s, NEW d, LeadsLater(rs, s, d)
  PROVE  \/ Answers(Head(rs), Query) /\ Leads(Tail(rs), s, s, d)
         \/ LeadsLater(Tail(rs), s, d)
<1>1. PICK a \in Seq(Messages), b \in Seq(Messages), m \in Messages :
        rs = (a \o <<m>>) \o b /\ Answers(m, Query) /\ Leads(b, s, s, d)
  BY DEF LeadsLater
<1>a. PICK x : x = <<m>>
  OBVIOUS
<1>2. x \in Seq(Messages) /\ x = <<m>> /\ x # << >> /\ Head(x) = m /\ Tail(x) = << >>
  BY <1>a
<1>3. CASE a = << >>
  <2>1. a \o x = x /\ << >> \o b = b
    BY <1>2, <1>3
  <2>2. Head(x \o b) = Head(x) /\ Tail(x \o b) = Tail(x) \o b
    BY <1>2
  <2>3. Head(rs) = m /\ Tail(rs) = b
    BY <1>1, <1>2, <2>1, <2>2
  <2>4. QED
    BY <1>1, <2>3
<1>4. CASE a # << >>
  <2>1. PICK t \in Seq(Messages) : t = Tail(a)
    BY <1>4, Rest
  <2>2. a \o x \in Seq(Messages) /\ a \o x # << >> /\ Tail(a \o x) = t \o x
    BY <1>2, <1>4, <2>1
  <2>3. PICK y \in Seq(Messages) : y = a \o x /\ y # << >> /\ Tail(y) = t \o x
    BY <2>2
  <2>4. Tail(y \o b) = Tail(y) \o b
    BY <2>3, SMTT(30)
  <2>5. Tail(rs) = (t \o <<m>>) \o b
    BY <1>1, <1>2, <2>3, <2>4
  <2>6. QED
    BY <1>1, <2>5 DEF LeadsLater
<1>5. QED
  BY <1>3, <1>4

(* While they lead there later, an answer is on its way.                   *)
LEMMA LaterIsDue ==
  ASSUME NEW rs \in Seq(Messages), NEW qs \in Seq(Requests), NEW n \in Nat, Owes(rs, qs, Query, n),
         NEW s, NEW d, LeadsLater(rs, s, d)
  PROVE  n > 0
<1>1. PICK a \in Seq(Messages), b \in Seq(Messages), m \in Messages :
        rs = (a \o <<m>>) \o b /\ Answers(m, Query)
  BY DEF LeadsLater
<1>a. PICK x : x = <<m>>
  OBVIOUS
<1>2. x \in Seq(Messages) /\ x = <<m>> /\ Len(x) = 1 /\ x[1] = m
  BY <1>a
<1>3. PICK y \in Seq(Messages) : y = a \o x
  BY <1>2, ConcatProperties
<1>4. Len(a) + 1 \in 1 .. Len(y) /\ y[Len(a) + 1] = m
  BY <1>2, <1>3, Halves
<1>5. \A i \in 1 .. Len(y) : i \in 1 .. Len(rs) /\ rs[i] = y[i]
  <2>1. rs = y \o b
    BY <1>1, <1>2, <1>3
  <2>2. QED
    BY <2>1, Halves
<1>6. PICK i \in 1 .. Len(rs) : rs[i] = m
  BY <1>4, <1>5
<1>7. QED
  BY <1>1, <1>6, DueIsOwed

-----------------------------------------------------------------------------
(* What a message does to the query's keys.                                *)

KeepsStore(c, e) ==
  /\ e.view = c.view /\ e.keys = c.keys /\ e.saved = c.saved
  /\ e.token = c.token /\ e.requests = c.requests /\ e.open = c.open

(* Nothing, for one.                                                       *)
KeepsQuery(c, e) ==
  /\ KeepsStore(c, e) /\ e.resets = c.resets
  /\ e.state[Query].due = c.state[Query].due /\ e.state[Query].changes = c.state[Query].changes

LEMMA ExpectedKept ==
  ASSUME NEW c, NEW e, KeepsQuery(c, e)
  PROVE  Expected(e) = Expected(c)
  BY DEF KeepsQuery, KeepsStore, Expected, Keys

SetsTarget(c, e, t, s) ==
  /\ KeepsStore(c, e) /\ e.resets = c.resets /\ e.listen = c.listen /\ e.key = c.key
  /\ e.state[t] = s
  /\ t # Query => KeepsQuery(c, e)

LEMMA TargetSet ==
  ASSUME NEW c \in Clients, NEW t \in Ids, NEW s, NEW e, e = [c EXCEPT !.state[t] = s]
  PROVE  SetsTarget(c, e, t, s)
<1>1. PICK st : st = [c.state EXCEPT ![t] = s]
  OBVIOUS
<1>2. st[t] = s /\ \A u \in Ids : u # t => st[u] = c.state[u]
  BY <1>1, ClientFields
<1>3. e = [c EXCEPT !.state = st]
  BY <1>1
<1>4. KeepsStore(c, e) /\ e.resets = c.resets /\ e.state = st /\ e.listen = c.listen /\ e.key = c.key
  BY <1>3 DEF Clients, KeepsStore
<1>5. t # Query => KeepsQuery(c, e)
  BY <1>2, <1>4, IdsFinite DEF KeepsQuery
<1>6. QED
  BY <1>2, <1>4, <1>5 DEF SetsTarget

LEMMA QueryKeys ==
  ASSUME NEW c \in Clients
  PROVE  GetRemoteKeys(c, Query) = c.view.synced /\ c.view.synced \in SUBSET Docs /\ Expected(c) \in SUBSET Docs
<1>1. Query \notin DOMAIN c.key
  BY ClientFields, LimboKeys
<1>2. c.view.synced \in SUBSET Docs
  BY ClientFields DEF Views
<1>3. QED
  BY <1>1, <1>2 DEF GetRemoteKeys, Expected, Keys

LEMMA NoChangesExpected ==
  ASSUME NEW c, \A k \in Docs : c.state[Query].changes[k] = "none"
  PROVE  Expected(c) = c.view.synced
  BY DEF Expected, Keys

(* The answer to a request for the query, or for another target.           *)
LEMMA AnswerEffect ==
  ASSUME NEW rs \in Seq(Messages), rs # << >>, NEW c, ClientSound(c, rs),
         NEW t \in Ids, Answers(Head(rs), t), NEW e, e = TargetAdded(c, t) \/ e = TargetRemoved(c, t)
  PROVE  /\ KeepsStore(c, e) /\ e.resets = c.resets
         /\ t # Query => KeepsQuery(c, e)
         /\ t = Query => /\ e.state[Query].due = c.state[Query].due - 1
                         /\ e.state[Query].due = 0 => Expected(e) = e.view.synced
<1>1. c \in Clients
  BY SoundParts DEF LimboSound
<1>2. PICK s : s = [c.state[t] EXCEPT !.due = @ - 1]
  OBVIOUS
<1>3. /\ s \in TargetStates /\ s.due = c.state[t].due - 1
      /\ ClearPendingChanges(s).due = s.due
      /\ \A k \in Docs : ClearPendingChanges(s).changes[k] = "none"
  BY <1>2, DueDown
<1>4. PICK n : /\ n = ClearPendingChanges(s) \/ n = NewState \/ n = s
               /\ n = s <=> s.due # 0 \/ n = s
               /\ s.due = 0 => n = ClearPendingChanges(s) \/ n = NewState
               /\ s.due # 0 => n = s
               /\ e = [c EXCEPT !.state[t] = n]
  <2>1. CASE e = TargetAdded(c, t)
    <3>1. PICK n : n = IF s.due = 0 THEN ClearPendingChanges(s) ELSE s
      OBVIOUS
    <3>2. e = [c EXCEPT !.state[t] = n]
      BY <1>2, <2>1, <3>1 DEF TargetAdded
    <3>3. QED
      BY <3>1, <3>2
  <2>2. CASE e = TargetRemoved(c, t)
    <3>1. PICK n : n = IF s.due = 0 THEN NewState ELSE s
      OBVIOUS
    <3>2. e = [c EXCEPT !.state[t] = n]
      BY <1>2, <2>2, <3>1 DEF TargetRemoved
    <3>3. QED
      BY <3>1, <3>2
  <2>3. QED
    BY <2>1, <2>2
<1>5. /\ n.due = c.state[t].due - 1 /\ (n.due = 0 => \A k \in Docs : n.changes[k] = "none")
  BY <1>3, <1>4, NewStateType
<1>a. e = [c EXCEPT !.state[t] = n]
  BY <1>4
<1>b. SetsTarget(c, e, t, n)
  BY <1>1, <1>a, TargetSet
<1>6. /\ KeepsStore(c, e) /\ e.resets = c.resets /\ e.state[t] = n
      /\ t # Query => KeepsQuery(c, e)
  BY <1>b DEF SetsTarget
<1>7. ASSUME t = Query, n.due = 0 PROVE Expected(e) = e.view.synced
  BY <1>5, <1>6, <1>7, NoChangesExpected
<1>8. QED
  BY <1>5, <1>6, <1>7

LEMMA CurrentEffect ==
  ASSUME NEW c \in Clients, NEW t \in Ids, NEW e, e = MarkCurrent(c, t)
  PROVE  KeepsQuery(c, e)
<1>1. CASE e = c
  BY <1>1 DEF KeepsQuery, KeepsStore
<1>2. CASE e = [c EXCEPT !.state[t].pending = TRUE, !.state[t].current = TRUE]
  <2>1. PICK s : s = [c.state[t] EXCEPT !.pending = TRUE, !.current = TRUE]
    OBVIOUS
  <2>2. s.due = c.state[t].due /\ s.changes = c.state[t].changes
    BY <2>1, DueType DEF TargetStates
  <2>3. e = [c EXCEPT !.state[t] = s]
    BY <1>2, <2>1, ClientFields, ZenonT(60) DEF Clients
  <2>4. SetsTarget(c, e, t, s)
    BY <2>3, TargetSet
  <2>5. QED
    BY <2>2, <2>4 DEF KeepsQuery, SetsTarget
<1>3. QED
  BY <1>1, <1>2 DEF MarkCurrent

LEMMA RemoveDocumentsEffect ==
  ASSUME NEW c \in Clients, NEW t \in Ids, NEW ks \in SUBSET Docs,
         NEW e, e = RemoveDocumentsFromTarget(c, t, ks)
  PROVE  /\ KeepsStore(c, e) /\ e.resets = c.resets
         /\ t # Query => KeepsQuery(c, e)
         /\ e.state[t].due = c.state[t].due
         /\ \A k \in Docs : e.state[t].changes[k] =
              IF k \notin ks THEN c.state[t].changes[k]
              ELSE IF k \in GetRemoteKeys(c, t) THEN "Removed" ELSE "none"
<1> DEFINE ch == [k \in Docs |-> IF k \notin ks THEN c.state[t].changes[k]
                                 ELSE IF k \in GetRemoteKeys(c, t) THEN "Removed" ELSE "none"]
           p == c.state[t].pending \/ ks # {}
<1>1. e = [c EXCEPT !.state[t].pending = p, !.state[t].changes = ch]
  BY ClientFields DEF RemoveDocumentsFromTarget, Clients, TargetStates
<1>2. \A k \in Docs : ch[k] = IF k \notin ks THEN c.state[t].changes[k]
                              ELSE IF k \in GetRemoteKeys(c, t) THEN "Removed" ELSE "none"
  OBVIOUS
<1> HIDE DEF ch, p
<1>3. PICK s : s = [c.state[t] EXCEPT !.pending = p, !.changes = ch]
  OBVIOUS
<1>4. s.due = c.state[t].due /\ s.changes = ch
  BY <1>3, DueType DEF TargetStates
<1>a. PICK st \in [Ids -> TargetStates] : st = c.state
  BY ClientFields
<1>5. e = [c EXCEPT !.state[t] = s]
  BY <1>1, <1>3, <1>a DEF Clients
<1>6. SetsTarget(c, e, t, s)
  BY <1>5, TargetSet
<1>7. QED
  BY <1>2, <1>4, <1>6 DEF SetsTarget

LEMMA ResetEffect ==
  ASSUME NEW rs, NEW c, ClientSound(c, rs), NEW t \in Ids, NEW e, e = ResetTarget(c, t)
  PROVE  /\ KeepsStore(c, e) /\ e.resets = c.resets
         /\ t # Query => KeepsQuery(c, e)
         /\ t = Query => e.state[Query].due = 0 /\ Expected(e) = {}
<1>1. c \in Clients
  BY SoundParts DEF LimboSound
<1>2. PICK b : b = [c EXCEPT !.state[t] = NewState]
  OBVIOUS
<1>a. SetsTarget(c, b, t, NewState)
  BY <1>1, <1>2, TargetSet
<1>3. /\ KeepsStore(c, b) /\ b.resets = c.resets /\ b.state[t] = NewState /\ b.key = c.key
      /\ t # Query => KeepsQuery(c, b)
  BY <1>a DEF SetsTarget
<1>4. b \in Clients
  BY <1>1, <1>2, NewStateType, ClientFields DEF Clients
<1>5. GetRemoteKeys(c, t) \in SUBSET Docs
  BY RemoteKeysMatch
<1>6. e = RemoveDocumentsFromTarget(b, t, GetRemoteKeys(c, t))
  BY <1>2 DEF ResetTarget
<1>7. /\ KeepsStore(b, e) /\ e.resets = b.resets
      /\ t # Query => KeepsQuery(b, e)
      /\ e.state[t].due = b.state[t].due
      /\ \A k \in Docs : e.state[t].changes[k] =
           IF k \notin GetRemoteKeys(c, t) THEN b.state[t].changes[k]
           ELSE IF k \in GetRemoteKeys(b, t) THEN "Removed" ELSE "none"
  BY <1>4, <1>5, <1>6, RemoveDocumentsEffect
<1>8. ASSUME t = Query PROVE e.state[Query].due = 0 /\ Expected(e) = {}
  <2>1. GetRemoteKeys(c, Query) = c.view.synced /\ GetRemoteKeys(b, Query) = c.view.synced /\ e.view = c.view
    BY <1>1, <1>3, <1>4, <1>7, QueryKeys DEF KeepsStore
  <2>2. c.view.synced \in SUBSET Docs
    BY <1>1, QueryKeys
  <2>3. \A k \in Docs : e.state[Query].changes[k] = IF k \in c.view.synced THEN "Removed" ELSE "none"
    BY <1>3, <1>7, <1>8, <2>1, NewStateType
  <2>4. e.state[Query].due = 0
    BY <1>3, <1>7, <1>8, NewStateType
  <2>5. QED
    BY <2>1, <2>2, <2>3, <2>4 DEF Expected, Keys
<1>9. QED
  BY <1>3, <1>7, <1>8 DEF KeepsStore, KeepsQuery

LEMMA ChangedEffect ==
  ASSUME NEW c \in Clients, NEW t \in Ids, NEW k \in Docs, NEW found, NEW s, s = Changed(c, t, k, found)
  PROVE  /\ s.due = c.state[t].due
         /\ \A j \in Docs : s.changes[j] =
              IF j # k THEN c.state[t].changes[j]
              ELSE IF found THEN IF k \in GetRemoteKeys(c, t) THEN "Modified" ELSE "Added"
              ELSE IF k \in GetRemoteKeys(c, t) THEN "Removed" ELSE "none"
<1>1. PICK v : v = IF found THEN IF k \in GetRemoteKeys(c, t) THEN "Modified" ELSE "Added"
                   ELSE IF k \in GetRemoteKeys(c, t) THEN "Removed" ELSE "none"
  OBVIOUS
<1>2. s = [c.state[t] EXCEPT !.pending = TRUE, !.changes[k] = v]
  BY <1>1 DEF Changed
<1>3. PICK x \in TargetStates : x = c.state[t]
  BY DueType
<1>4. x.changes \in [Docs -> {"none", "Added", "Modified", "Removed"}]
  BY <1>3, DueType
<1>5. PICK y : y = [x.changes EXCEPT ![k] = v]
  OBVIOUS
<1>6. s = [x EXCEPT !.pending = TRUE, !.changes = y]
  BY <1>2, <1>3, <1>5 DEF TargetStates
<1>7. s.due = x.due /\ s.changes = y
  BY <1>6 DEF TargetStates
<1>8. \A j \in Docs : y[j] = IF j = k THEN v ELSE x.changes[j]
  BY <1>4, <1>5
<1>9. QED
  BY <1>1, <1>3, <1>7, <1>8

(* A document is found or missing.                                         *)
LEMMA DocumentEffect ==
  ASSUME NEW c \in Clients, NEW k \in Docs, NEW found \in BOOLEAN, NEW ts \in SUBSET Ids,
         NEW e, e = HandleDocumentChange(c, k, found, ts)
  PROVE  /\ KeepsStore(c, e) /\ e.resets = c.resets
         /\ e.state[Query].due = c.state[Query].due
         /\ Query \notin ts \/ ~IsActiveTarget(c, Query) => KeepsQuery(c, e)
         /\ Query \in ts /\ IsActiveTarget(c, Query) =>
              Expected(e) = IF found THEN Expected(c) \cup {k} ELSE Expected(c) \ {k}
<1> DEFINE active == {t \in ts : IsActiveTarget(c, t)}
           st == [t \in Ids |-> IF t \in active THEN Changed(c, t, k, found) ELSE c.state[t]]
           v == IF active = {} THEN c.updates[k] ELSE IF found THEN "found" ELSE "missing"
<1>1. e = [c EXCEPT !.state = st, !.updates[k] = v]
  BY DEF HandleDocumentChange
<1>2. /\ Query \notin ts \/ ~IsActiveTarget(c, Query) => st[Query] = c.state[Query]
      /\ Query \in ts /\ IsActiveTarget(c, Query) => st[Query] = Changed(c, Query, k, found)
  BY IdsFinite
<1> HIDE DEF st, v, active
<1>3. KeepsStore(c, e) /\ e.resets = c.resets /\ e.state = st
  <2>1. PICK u : u = [c.updates EXCEPT ![k] = v]
    OBVIOUS
  <2>2. e = [c EXCEPT !.state = st, !.updates = u]
    BY <1>1, <2>1 DEF Clients
  <2>3. QED
    BY <2>2 DEF Clients, KeepsStore
<1>4. CASE Query \notin ts \/ ~IsActiveTarget(c, Query)
  BY <1>2, <1>3, <1>4 DEF KeepsQuery
<1>5. CASE Query \in ts /\ IsActiveTarget(c, Query)
  <2>1. PICK s : s = Changed(c, Query, k, found)
    OBVIOUS
  <2>2. GetRemoteKeys(c, Query) = c.view.synced /\ Query \in Ids
    BY QueryKeys, IdsFinite
  <2>3. /\ s.due = c.state[Query].due
        /\ \A j \in Docs : s.changes[j] =
             IF j # k THEN c.state[Query].changes[j]
             ELSE IF found THEN IF k \in c.view.synced THEN "Modified" ELSE "Added"
             ELSE IF k \in c.view.synced THEN "Removed" ELSE "none"
    BY <2>1, <2>2, ChangedEffect
  <2>4. e.state[Query] = s /\ e.view = c.view
    BY <1>2, <1>3, <1>5, <2>1 DEF KeepsStore
  <2>5. c.view.synced \in SUBSET Docs
    BY QueryKeys
  <2>6. Expected(e) = IF found THEN Expected(c) \cup {k} ELSE Expected(c) \ {k}
    BY <2>3, <2>4, <2>5 DEF Expected, Keys
  <2>7. QED
    BY <1>3, <1>5, <2>3, <2>4, <2>6
<1>6. QED
  BY <1>3, <1>4, <1>5 DEF KeepsQuery

(* The aggregator counts the keys it expects.                              *)
LEMMA CountExpected ==
  ASSUME NEW c \in Clients, ChangesFit(c), IsActiveTarget(c, Query)
  PROVE  GetCurrentDocumentCountForTarget(c, Query) = Cardinality(Expected(c))
<1>1. PICK S \in SUBSET Docs : S = c.view.synced /\ GetRemoteKeys(c, Query) = S
  BY QueryKeys
<1>2. PICK R \in SUBSET Docs, D \in SUBSET Docs :
        R = Keys(c.state[Query], "Removed") /\ D = Keys(c.state[Query], "Added")
  BY DEF Keys
<1>3. \A k \in Docs : Fits(c, Query, k, c.state[Query].changes[k])
  BY DEF ChangesFit, IsActiveTarget
<1>4. R \subseteq S /\ D \cap S = {}
  BY <1>1, <1>2, <1>3 DEF Fits, Keys
<1>5. IsFiniteSet(S) /\ IsFiniteSet(R) /\ IsFiniteSet(D) /\ IsFiniteSet(S \ R)
  BY WatchAssumption, FS_Subset
<1>6. Cardinality(S \ R) = Cardinality(S) - Cardinality(R)
  <2>1. S \cap R = R
    BY <1>4
  <2>2. QED
    BY <1>5, <2>1, FS_Difference
<1>7. Cardinality((S \ R) \cup D) = Cardinality(S \ R) + Cardinality(D) - 0
  <2>1. (S \ R) \cap D = {}
    BY <1>4
  <2>2. QED
    BY <1>5, <2>1, FS_Union, FS_EmptySet
<1>8. Cardinality(S) \in Nat /\ Cardinality(R) \in Nat /\ Cardinality(D) \in Nat
  BY <1>5, FS_CardinalityType
<1>9. Expected(c) = (S \ R) \cup D
  BY <1>1, <1>2 DEF Expected
<1>10. GetCurrentDocumentCountForTarget(c, Query) = Cardinality(S) + Cardinality(D) - Cardinality(R)
  BY <1>1, <1>2 DEF GetCurrentDocumentCountForTarget, Keys
<1>11. QED
  BY <1>6, <1>7, <1>8, <1>9, <1>10

(* A filter that counts the keys B among those expected either leaves B,   *)
(* or does not match and drops all.                                        *)
LEMMA FilterEffect ==
  ASSUME NEW rs, NEW c, ClientSound(c, rs), c.open, ChangesFit(c), NEW t \in Ids,
         NEW count, NEW bloom, NEW e, e = HandleExistenceFilter(c, t, count, bloom)
  PROVE  /\ KeepsStore(c, e)
         /\ t # Query \/ ~IsActiveTarget(c, Query) => KeepsQuery(c, e)
         /\ t = Query /\ IsActiveTarget(c, Query) =>
              /\ e.state[Query].due = 0
              /\ \/ Query \in e.resets /\ Expected(e) = {}
                 \/ /\ e.resets = c.resets
                    /\ \A B \in SUBSET Docs :
                         B \subseteq Expected(c) /\ B \subseteq bloom /\ count = Cardinality(B)
                         /\ c.view.synced \subseteq Expected(c) => Expected(e) = B
<1>1. c \in Clients /\ ListenSound(c)
  BY SoundParts DEF LimboSound
<1>2. PICK S \in SUBSET Docs : S = c.view.synced /\ GetRemoteKeys(c, Query) = S
  BY <1>1, QueryKeys
<1>3. PICK A \in SUBSET Docs : A = Expected(c)
  BY <1>1, QueryKeys
<1>4. CASE e = c /\ (t # Query \/ ~IsActiveTarget(c, t))
  BY <1>4 DEF KeepsQuery, KeepsStore
<1>5. CASE t # Query /\ IsActiveTarget(c, t) /\ e = HandleDocumentChange(c, c.key[t], FALSE, {t})
  <2>1. t \in DOMAIN c.key
    BY <1>1, <1>5 DEF ListenSound, IsActiveTarget
  <2>2. c.key[t] \in Docs
    BY <1>1, <2>1, ClientFields, LimboKeys
  <2>3. {t} \in SUBSET Ids /\ Query \notin {t} /\ FALSE \in BOOLEAN
    BY <1>5
  <2>4. KeepsStore(c, e) /\ (Query \notin {t} => KeepsQuery(c, e))
    BY <1>1, <1>5, <2>2, <2>3, DocumentEffect
  <2>5. QED
    BY <1>5, <2>3, <2>4
<1>6. ASSUME t = Query, IsActiveTarget(c, Query), e = c,
             GetCurrentDocumentCountForTarget(c, Query) = count
      PROVE  /\ KeepsQuery(c, e) /\ e.state[Query].due = 0
             /\ \A B \in SUBSET Docs : B \subseteq A /\ count = Cardinality(B) => Expected(e) = B
  <2>1. count = Cardinality(A)
    BY <1>1, <1>3, <1>6, CountExpected
  <2>2. IsFiniteSet(A)
    BY WatchAssumption, FS_Subset
  <2>3. QED
    BY <1>3, <1>6, <2>1, <2>2, FS_Subset DEF KeepsQuery, KeepsStore, IsActiveTarget
<1>7. ASSUME t = Query, IsActiveTarget(c, Query),
             NEW gone, gone = S \ bloom, e = RemoveDocumentsFromTarget(c, Query, gone),
             count = GetCurrentDocumentCountForTarget(c, Query) - Cardinality(gone)
      PROVE  /\ KeepsStore(c, e) /\ e.resets = c.resets /\ e.state[Query].due = 0
             /\ \A B \in SUBSET Docs : B \subseteq A /\ B \subseteq bloom /\ count = Cardinality(B)
                                       /\ S \subseteq A => Expected(e) = B
  <2>1. gone \in SUBSET Docs /\ gone \subseteq S
    BY <1>7
  <2>2. /\ KeepsStore(c, e) /\ e.resets = c.resets
        /\ e.state[Query].due = c.state[Query].due
        /\ \A k \in Docs : e.state[Query].changes[k] =
             IF k \notin gone THEN c.state[Query].changes[k]
             ELSE IF k \in GetRemoteKeys(c, Query) THEN "Removed" ELSE "none"
    <3>1. Query \in Ids
      BY IdsFinite
    <3>2. /\ KeepsStore(c, e) /\ e.resets = c.resets
          /\ e.state[Query].due = c.state[Query].due
      BY <1>1, <1>7, <2>1, <3>1, RemoveDocumentsEffect
    <3>3. ASSUME NEW k \in Docs
          PROVE  e.state[Query].changes[k] =
                   IF k \notin gone THEN c.state[Query].changes[k]
                   ELSE IF k \in GetRemoteKeys(c, Query) THEN "Removed" ELSE "none"
      BY <1>1, <1>7, <2>1, <3>1, RemoveDocumentsEffect
    <3>4. QED
      BY <3>2, <3>3
  <2>3. \A k \in Docs : Fits(c, Query, k, c.state[Query].changes[k])
    BY <1>7 DEF ChangesFit, IsActiveTarget
  <2>4. \A k \in Docs : c.state[Query].changes[k] = "Added" => k \notin S
    BY <1>2, <2>3 DEF Fits
  <2>5. Expected(e) = A \ gone
    <3>1. \A k \in Docs : e.state[Query].changes[k] = IF k \in gone THEN "Removed" ELSE c.state[Query].changes[k]
      BY <1>2, <2>1, <2>2
    <3>2. e.view.synced = S
      BY <1>2, <2>2 DEF KeepsStore
    <3>3. QED
      BY <1>2, <1>3, <2>1, <2>4, <3>1, <3>2 DEF Expected, Keys
  <2>6. ASSUME NEW B \in SUBSET Docs, B \subseteq A, B \subseteq bloom, count = Cardinality(B), S \subseteq A
        PROVE  Expected(e) = B
    <3>1. B \subseteq A \ gone /\ gone \subseteq A
      BY <1>7, <2>1, <2>6
    <3>2. IsFiniteSet(A) /\ IsFiniteSet(gone) /\ IsFiniteSet(A \ gone)
      BY <2>1, WatchAssumption, FS_Subset
    <3>3. Cardinality(A \ gone) = Cardinality(A) - Cardinality(gone)
      <4>1. A \cap gone = gone
        BY <3>1
      <4>2. QED
        BY <3>2, <4>1, FS_Difference
    <3>4. Cardinality(B) = Cardinality(A \ gone)
      BY <1>1, <1>3, <1>7, <2>6, <3>3, CountExpected
    <3>5. QED
      BY <2>5, <3>1, <3>2, <3>4, FS_Subset
  <2>7. QED
    BY <1>7, <2>2, <2>6 DEF IsActiveTarget
<1>8. ASSUME t = Query, IsActiveTarget(c, Query), e = [ResetTarget(c, t) EXCEPT !.resets = @ \cup {t}]
      PROVE  KeepsStore(c, e) /\ e.state[Query].due = 0 /\ Query \in e.resets /\ Expected(e) = {}
  <2>1. PICK b : b = ResetTarget(c, Query)
    OBVIOUS
  <2>2. KeepsStore(c, b) /\ b.state[Query].due = 0 /\ Expected(b) = {}
    BY <1>8, <2>1, ResetEffect
  <2>3. b \in Clients
    BY <1>8, <2>1, ResetTargetSound, SoundParts DEF Recorded, LimboSound
  <2>4. e = [b EXCEPT !.resets = b.resets \cup {Query}]
    BY <1>8, <2>1
  <2>a. KeepsStore(b, e) /\ e.state = b.state /\ e.resets = b.resets \cup {Query}
    BY <2>3, <2>4 DEF KeepsStore, Clients
  <2>5. QED
    BY <2>2, <2>a DEF KeepsStore, Expected
<1>9. CASE t = Query /\ IsActiveTarget(c, Query)
  <2>1. \/ e = c /\ GetCurrentDocumentCountForTarget(c, Query) = count
        \/ /\ e = RemoveDocumentsFromTarget(c, Query, S \ bloom)
           /\ count = GetCurrentDocumentCountForTarget(c, Query) - Cardinality(S \ bloom)
        \/ e = [ResetTarget(c, t) EXCEPT !.resets = @ \cup {t}]
    BY <1>2, <1>9 DEF HandleExistenceFilter
  <2>2. QED
    BY <1>2, <1>3, <1>6, <1>7, <1>8, <1>9, <2>1 DEF KeepsQuery
<1>10. QED
  BY <1>4, <1>5, <1>9 DEF HandleExistenceFilter, KeepsQuery

-----------------------------------------------------------------------------
(* What a snapshot does to the query's keys and its token.                 *)

TokenGiven(c, numbers, e) ==
  /\ KeepsQuery(c, e) /\ e.listen = c.listen
  /\ IsActiveTarget(c, Query) => e.state[Query].token = <<numbers>> /\ e.state[Query].pending

LEMMA TokensEffect ==
  ASSUME NEW c \in Clients, NEW numbers, NEW e,
         e = [c EXCEPT !.state = [t \in Ids |-> IF IsActiveTarget(c, t)
                                                THEN UpdateResumeToken(c.state[t], <<numbers>>)
                                                ELSE c.state[t]]]
  PROVE  TokenGiven(c, numbers, e)
<1> DEFINE st == [t \in Ids |-> IF IsActiveTarget(c, t)
                                THEN UpdateResumeToken(c.state[t], <<numbers>>) ELSE c.state[t]]
<1>1. PICK s \in TargetStates : s = c.state[Query]
  BY DueType, IdsFinite
<1>2. st[Query] = IF IsActiveTarget(c, Query) THEN UpdateResumeToken(s, <<numbers>>) ELSE s
  BY <1>1, IdsFinite
<1>3. e = [c EXCEPT !.state = st]
  OBVIOUS
<1> HIDE DEF st
<1>4. KeepsStore(c, e) /\ e.resets = c.resets /\ e.state = st /\ e.listen = c.listen
  BY <1>3 DEF Clients, KeepsStore
<1>5. PICK x : x = UpdateResumeToken(s, <<numbers>>)
  OBVIOUS
<1>6. x.due = s.due /\ x.changes = s.changes /\ x.token = <<numbers>> /\ x.pending = TRUE
  BY <1>5 DEF UpdateResumeToken, TargetStates
<1>7. QED
  BY <1>1, <1>2, <1>4, <1>5, <1>6 DEF KeepsQuery, TokenGiven

LEMMA SynthesizedEffect ==
  ASSUME NEW c \in Clients, NEW e, e = Synthesized(c)
  PROVE  KeepsStore(c, e) /\ e.resets = c.resets /\ e.listen = c.listen /\ e.state[Query] = c.state[Query]
<1> DEFINE gone == {t \in DOMAIN c.key : /\ IsActiveTarget(c, t) /\ c.state[t].current
                                         /\ c.updates[c.key[t]] = "none"
                                         /\ c.key[t] \notin GetRemoteKeys(c, t)}
           st == [t \in Ids |-> IF t \in gone THEN Changed(c, t, c.key[t], FALSE) ELSE c.state[t]]
           u == [k \in Docs |-> IF \E t \in gone : c.key[t] = k THEN "missing" ELSE c.updates[k]]
<1>1. Query \notin gone /\ Query \in Ids
  BY ClientFields, LimboKeys, IdsFinite
<1>2. st[Query] = c.state[Query]
  BY <1>1
<1>3. e = [c EXCEPT !.state = st, !.updates = u]
  BY DEF Synthesized
<1> HIDE DEF st, u, gone
<1>4. KeepsStore(c, e) /\ e.resets = c.resets /\ e.state = st /\ e.listen = c.listen
  BY <1>3 DEF Clients, KeepsStore
<1>5. QED
  BY <1>2, <1>4

(* The watch of the query is among the requests that are sent.             *)
LEMMA AsksQuery ==
  ASSUME NEW c \in Clients, NEW ts, Query \in ts, c.open, NEW e, NEW new \in Seq(Requests),
         Asks(c, "watch", ts, e, new), AsksAll(c, "watch", ts, new)
  PROVE  Requested(e.requests, c.token[Query])
<1>1. PICK i \in 1 .. Len(new) : new[i].target = Query
  BY DEF AsksAll
<1>2. Rewatches(new[i], c.token[Query])
  BY <1>1 DEF Rewatches, AsksAll, Asks, Matching
<1>3. ASSUME NEW j \in i + 1 .. Len(new) PROVE new[j].target # Query
  <2>1. Len(new) \in Nat
    BY LenProperties
  <2>2. j \in 1 .. Len(new) /\ j # i
    BY <1>1, <2>1
  <2>3. QED
    BY <1>1, <2>2 DEF Asks, Distinct
<1>4. Requested(new, c.token[Query])
  BY <1>2, <1>3 DEF Requested
<1>5. e.requests = c.requests \o new /\ c.requests \in Seq(Requests)
  BY ClientFields DEF Asks
<1>6. QED
  BY <1>4, <1>5, RequestedOn

(* What the steps of an event leave alone.                                 *)
KeepsRenewed(c, e) ==
  /\ e.view = c.view /\ e.keys = c.keys /\ e.saved = c.saved /\ e.open = c.open /\ e.resets = c.resets
  /\ e.listen = c.listen /\ KeepsTarget(c, e, Query)

LEMMA RenewEffect ==
  ASSUME NEW rs \in Seq(Messages), NEW c, ClientSound(c, rs), c.open, NEW changed,
         NEW e, e = RenewTargets(c, changed)
  PROVE  /\ KeepsRenewed(c, e)
         /\ e.token[Query] = IF Query \in c.resets \cap c.listen THEN << >>
                             ELSE IF Query \in changed /\ c.state[Query].token # << >>
                             THEN c.state[Query].token ELSE c.token[Query]
         /\ IF Query \in c.resets \cap c.listen THEN Requested(e.requests, << >>) ELSE Spares(c, e)
<1>1. c \in Clients /\ ListenSound(c) /\ DOMAIN c.key \subseteq 1 .. c.next - 1 /\ c.received \subseteq DOMAIN c.key
  BY SoundParts DEF LimboSound
<1> DEFINE renewed == c.resets \cap c.listen
           tok == [t \in Ids |-> IF t \in renewed THEN << >>
                                 ELSE IF t \in changed /\ c.state[t].token # << >>
                                 THEN c.state[t].token ELSE c.token[t]]
           r == [c EXCEPT !.token = tok]
           u == Send(r, "unwatch", renewed)
<1>2. tok \in [Ids -> Tokens]
  <2>1. ASSUME NEW t \in Ids PROVE c.state[t].token \in Tokens /\ c.token[t] \in Tokens /\ << >> \in Tokens
    BY <1>1, DueType, ClientFields DEF Tokens
  <2>2. QED
    BY <2>1
<1>3. e = Send(u, "watch", renewed)
  BY DEF RenewTargets, SendWatchRequest, SendUnwatchRequest
<1>4. tok[Query] = IF Query \in renewed THEN << >>
                   ELSE IF Query \in changed /\ c.state[Query].token # << >>
                   THEN c.state[Query].token ELSE c.token[Query]
  BY IdsFinite
<1> HIDE DEF tok
<1>5. /\ r \in Clients /\ r.token = tok /\ r.requests = c.requests /\ r.state = c.state /\ r.key = c.key
      /\ r.view = c.view /\ r.keys = c.keys /\ r.saved = c.saved /\ r.open = c.open /\ r.resets = c.resets
      /\ r.listen = c.listen
  BY <1>1, <1>2 DEF Clients
<1>6. /\ renewed \in SUBSET Ids /\ renewed \subseteq DOMAIN c.key \cup {Query}
  BY <1>1, ClientFields DEF ListenSound
<1> HIDE DEF r, renewed
<1>7. u \in Clients /\ KeepsRest(r, u) /\ KeepsLimbo(r, u) /\ Counts(r, renewed, u)
  BY <1>5, <1>6, SendFields
<1>8. Query \notin renewed => Spares(r, u)
  BY <1>5, <1>6, SendSpares
<1> HIDE DEF u
<1>9. renewed \subseteq DOMAIN u.key \cup {Query}
  BY <1>5, <1>6, <1>7 DEF KeepsLimbo
<1>10. e \in Clients /\ KeepsRest(u, e) /\ KeepsLimbo(u, e) /\ Counts(u, renewed, e)
  BY <1>3, <1>6, <1>7, <1>9, SendFields
<1>11. PICK new \in Seq(Requests) : Asks(u, "watch", renewed, e, new) /\ AsksAll(u, "watch", renewed, new)
  BY <1>3, <1>6, <1>7, <1>9, SendFields
<1>12. Query \notin renewed => Spares(u, e)
  BY <1>3, <1>6, <1>7, <1>9, SendSpares
<1>13. KeepsRenewed(c, e)
  <2>1. KeepsTarget(r, u, Query) /\ KeepsTarget(u, e, Query)
    BY <1>7, <1>10, IdsFinite DEF Counts
  <2>2. KeepsTarget(c, e, Query)
    BY <1>5, <2>1 DEF KeepsTarget
  <2>3. QED
    BY <1>5, <1>7, <1>10, <2>2 DEF KeepsRenewed, KeepsRest, KeepsLimbo
<1>14. u.token = tok /\ e.token = tok /\ u.open
  BY <1>5, <1>7, <1>10 DEF KeepsRest
<1>15. CASE Query \in renewed
  <2>1. Requested(e.requests, u.token[Query])
    BY <1>7, <1>11, <1>14, <1>15, AsksQuery
  <2>2. QED
    BY <1>4, <1>13, <1>14, <1>15, <2>1 DEF renewed
<1>16. CASE Query \notin renewed
  <2>1. Spares(r, e)
    BY <1>5, <1>8, <1>12, <1>16, SparesOn
  <2>2. Spares(c, e)
    BY <1>5, <2>1 DEF Spares
  <2>3. QED
    BY <1>4, <1>13, <1>14, <1>16, <2>2 DEF renewed
<1>17. QED
  BY <1>15, <1>16

StoreApplied(c, changed, skip, e) ==
  /\ e.view = c.view /\ e.open = c.open /\ e.token = c.token /\ e.state = c.state
  /\ e.requests = c.requests
  /\ e.keys = IF Query \in changed
              THEN (c.keys \ Keys(c.state[Query], "Removed")) \cup Keys(c.state[Query], "Added") ELSE c.keys
  /\ e.saved = IF Query \notin changed \/ skip THEN c.saved ELSE c.token[Query]

LEMMA StoreEffect ==
  ASSUME NEW c \in Clients, NEW changed, NEW skip, NEW g, g = LimboReceived(c, changed),
         NEW e, e = LocalStoreApplies(g, changed, skip)
  PROVE  StoreApplied(c, changed, skip, e)
<1>1. PICK rec : g = [c EXCEPT !.received = rec]
  BY DEF LimboReceived
<1>2. PICK ks, sv, ca :
        /\ ks = IF Query \in changed
                THEN (g.keys \ Keys(g.state[Query], "Removed")) \cup Keys(g.state[Query], "Added") ELSE g.keys
        /\ sv = IF Query \notin changed \/ skip THEN g.saved ELSE g.token[Query]
        /\ ca = {k \in Docs : IF g.updates[k] = "none" THEN k \in g.cache ELSE g.updates[k] = "found"}
  OBVIOUS
<1>3. e = [g EXCEPT !.keys = ks, !.saved = sv, !.cache = ca]
  BY <1>2 DEF LocalStoreApplies
<1>4. /\ g.view = c.view /\ g.open = c.open /\ g.token = c.token /\ g.state = c.state
      /\ g.requests = c.requests /\ g.keys = c.keys /\ g.saved = c.saved
  BY <1>1 DEF Clients
<1>5. /\ e.view = g.view /\ e.open = g.open /\ e.token = g.token /\ e.state = g.state
      /\ e.requests = g.requests /\ e.keys = ks /\ e.saved = sv
  BY <1>1, <1>3 DEF Clients
<1>6. QED
  BY <1>2, <1>4, <1>5 DEF StoreApplied

(* The view applies an event.                                              *)
ViewApplied(c, change, e) ==
  /\ e.keys = c.keys /\ e.saved = c.saved /\ e.open = c.open /\ e.token = c.token /\ e.resets = c.resets
  /\ e.view.up = c.view.up /\ KeepsTarget(c, e, Query) /\ Spares(c, e)
  /\ e.view.synced = IF c.view.up /\ change THEN Expected(c) ELSE c.view.synced

LEMMA EmitEffect ==
  ASSUME NEW rs \in Seq(Messages), NEW c, ClientSound(c, rs), NEW change \in BOOLEAN, NEW reset,
         NEW e, e = EmitNewSnapshots(c, change, reset)
  PROVE  ViewApplied(c, change, e)
<1>1. c \in Clients
  BY SoundParts DEF LimboSound
<1>2. CASE ~c.view.up
  BY <1>1, <1>2, SparesSame DEF EmitNewSnapshots, KeepsTarget, ViewApplied
<1>3. CASE c.view.up
  <2>1. PICK b : b = ApplyChanges(c, change, reset)
    OBVIOUS
  <2>2. e = UpdateTrackedLimboDocuments(b, c.view.limbo)
    BY <1>3, <2>1 DEF EmitNewSnapshots
  <2>3. ClientSound(b, rs)
    BY <2>1, ApplyChangesSound
  <2>4. Follows(b, e) /\ Spares(b, e)
    BY <2>2, <2>3, UpdateLimboSound
  <2>5. PICK v, w : /\ v = IF change THEN [c.view EXCEPT !.synced = Expected(c), !.current = c.state[Query].current]
                           ELSE c.view
                    /\ \E x, y : w = [v EXCEPT !.limbo = x, !.state = y]
                    /\ b = [c EXCEPT !.view = w]
    BY <2>1 DEF ApplyChanges, Expected
  <2>6. c.view \in Views
    BY <1>1, ClientFields
  <2>7. v.up = c.view.up /\ v.synced = IF change THEN Expected(c) ELSE c.view.synced
    BY <2>5, <2>6 DEF Views
  <2>8. w.up = v.up /\ w.synced = v.synced
    <3>1. DOMAIN v = {"up", "synced", "current", "limbo", "state"}
      BY <2>5, <2>6 DEF Views
    <3>2. PICK x, y : w = [v EXCEPT !.limbo = x, !.state = y]
      BY <2>5
    <3>3. QED
      BY <3>1, <3>2
  <2>9. /\ b.view = w /\ b.keys = c.keys /\ b.saved = c.saved /\ b.open = c.open /\ b.token = c.token
        /\ b.state = c.state /\ b.requests = c.requests /\ b.resets = c.resets
    BY <1>1, <2>5 DEF Clients
  <2>10. /\ e.keys = b.keys /\ e.saved = b.saved /\ e.open = b.open /\ e.token = b.token /\ e.view = b.view
         /\ e.resets = b.resets /\ KeepsTarget(b, e, Query)
    BY <2>4, IdsFinite DEF Follows, KeepsRest, Advances
  <2>11. KeepsTarget(c, e, Query) /\ Spares(c, e)
    BY <2>4, <2>9, <2>10 DEF KeepsTarget, Spares
  <2>12. QED
    BY <1>3, <2>7, <2>8, <2>9, <2>10, <2>11 DEF ViewApplied
<1>4. QED
  BY <1>2, <1>3

LEMMA ClearedEffect ==
  ASSUME NEW c \in Clients, NEW changed, NEW e, e = Cleared(c, changed)
  PROVE  /\ KeepsStore(c, e) /\ e.resets = {} /\ e.state[Query].due = c.state[Query].due
         /\ Query \in changed => Expected(e) = e.view.synced
<1> DEFINE st == [t \in Ids |-> IF t \in changed THEN ClearPendingChanges(c.state[t]) ELSE c.state[t]]
<1>1. PICK s \in TargetStates : s = c.state[Query]
  BY DueType, IdsFinite
<1>2. st[Query] = IF Query \in changed THEN ClearPendingChanges(s) ELSE s
  BY <1>1, IdsFinite
<1>3. e = [c EXCEPT !.state = st, !.updates = NoChanges, !.resets = {}]
  BY DEF Cleared
<1> HIDE DEF st
<1>4. KeepsStore(c, e) /\ e.resets = {} /\ e.state = st
  BY <1>3 DEF Clients, KeepsStore
<1>5. PICK x : x = ClearPendingChanges(s)
  OBVIOUS
<1>6. x.due = s.due /\ x.changes = NoChanges
  BY <1>5 DEF ClearPendingChanges, TargetStates
<1>7. Query \in changed => \A k \in Docs : e.state[Query].changes[k] = "none"
  BY <1>2, <1>4, <1>5, <1>6 DEF NoChanges
<1>8. e.state[Query].due = c.state[Query].due
  BY <1>1, <1>2, <1>4, <1>5, <1>6
<1>9. QED
  BY <1>4, <1>7, <1>8, NoChangesExpected

(* The query's part of a snapshot, for a client c that becomes f.          *)
SnapshotOf(c, numbers, f) ==
  LET active == IsActiveTarget(c, Query)
      renewed == Query \in c.resets \cap c.listen
  IN /\ f.open = c.open /\ f.resets = {} /\ f.view.up = c.view.up
     /\ f.token[Query] = IF renewed THEN << >> ELSE IF active THEN <<numbers>> ELSE c.token[Query]
     /\ f.keys = IF active THEN (c.keys \ Keys(c.state[Query], "Removed")) \cup Keys(c.state[Query], "Added")
                 ELSE c.keys
     /\ \/ f.saved = c.saved /\ (active => c.state[Query].changes = NoChanges)
        \/ f.saved = f.token[Query] /\ active
     /\ f.view.synced = IF c.view.up /\ active THEN Expected(c) ELSE c.view.synced
     /\ active => Expected(f) = f.view.synced
     /\ IF renewed THEN Requested(f.requests, << >>) ELSE Spares(c, f)

LEMMA SnapshotEffect ==
  ASSUME NEW rs \in Seq(Messages), NEW c, ClientSound(c, rs), c.open, ChangesFit(c),
         NEW numbers \in [Docs -> 0 .. MaxInputs + 1], NEW skip \in BOOLEAN,
         NEW f, f = HandleSnapshot(c, numbers, skip)
  PROVE  SnapshotOf(c, numbers, f)
<1>1. PICK b : b = [c EXCEPT !.state = [t \in Ids |-> IF IsActiveTarget(c, t)
                                                      THEN UpdateResumeToken(c.state[t], <<numbers>>)
                                                      ELSE c.state[t]]]
  OBVIOUS
<1>2. Recorded(c, b, rs)
  BY <1>1, TokensSound
<1>3. f = RaiseWatchSnapshot(b, skip)
  BY <1>1 DEF HandleSnapshot
<1>4. c \in Clients /\ b \in Clients /\ ClientSound(b, rs) /\ b.open /\ ChangesFit(b)
  BY <1>2, SoundParts DEF LimboSound, Recorded
<1>5. /\ KeepsQuery(c, b) /\ b.listen = c.listen
      /\ IsActiveTarget(c, Query) => b.state[Query].token = <<numbers>> /\ b.state[Query].pending
  <2>1. TokenGiven(c, numbers, b)
    BY <1>1, <1>4, TokensEffect
  <2>2. QED
    BY <2>1 DEF TokenGiven
<1> DEFINE e == Synthesized(b)
           changed == {t \in Ids : IsActiveTarget(e, t) /\ e.state[t].pending}
           r == RenewTargets(e, changed)
           g == LimboReceived(r, changed)
           l == LocalStoreApplies(g, changed, skip /\ MayStayUnsaved(r))
           n == EmitNewSnapshots(l, Query \in changed, Query \in r.resets)
<1>6. f = Cleared(n, changed)
  BY <1>3 DEF RaiseWatchSnapshot
<1>7. changed \in SUBSET Ids
  OBVIOUS
<1>8. Recorded(b, e, rs)
  BY <1>4, SynthesizedSound
<1>9. /\ ClientSound(e, rs) /\ e.open /\ e \in Clients
      /\ KeepsStore(b, e) /\ e.resets = b.resets /\ e.listen = b.listen /\ e.state[Query] = b.state[Query]
  BY <1>4, <1>8, SynthesizedEffect, SoundParts DEF Recorded, LimboSound
<1>10. /\ Query \in changed <=> IsActiveTarget(c, Query)
       /\ Query \in changed => e.state[Query].token = <<numbers>>
  BY <1>5, <1>9, IdsFinite DEF IsActiveTarget, KeepsQuery
<1> HIDE DEF e, changed
<1>11. ClientSound(r, rs) /\ r \in Clients
  BY <1>7, <1>9, RenewSound, SoundParts DEF LimboSound
<1>12. /\ KeepsRenewed(e, r)
       /\ r.token[Query] = IF Query \in e.resets \cap e.listen THEN << >>
                           ELSE IF Query \in changed /\ e.state[Query].token # << >>
                           THEN e.state[Query].token ELSE e.token[Query]
       /\ IF Query \in e.resets \cap e.listen THEN Requested(r.requests, << >>) ELSE Spares(e, r)
  BY <1>9, RenewEffect
<1> HIDE DEF r
<1>13. ClientSound(g, rs)
  BY <1>11, LimboReceivedSound
<1>14. ClientSound(l, rs) /\ l \in Clients
  <2> HIDE DEF g
  <2>1. QED
    BY <1>13, LocalStoreSound, SoundParts DEF LimboSound
<1>15. /\ l.view = r.view /\ l.open = r.open /\ l.token = r.token /\ l.state = r.state
       /\ l.requests = r.requests
       /\ l.keys = IF Query \in changed
                   THEN (r.keys \ Keys(r.state[Query], "Removed")) \cup Keys(r.state[Query], "Added") ELSE r.keys
       /\ l.saved = IF Query \notin changed \/ (skip /\ MayStayUnsaved(r)) THEN r.saved ELSE r.token[Query]
  <2>1. StoreApplied(r, changed, skip /\ MayStayUnsaved(r), l)
    BY <1>11, StoreEffect
  <2>2. QED
    BY <2>1 DEF StoreApplied
<1> HIDE DEF g, l
<1>16. ClientSound(n, rs) /\ n \in Clients
  BY <1>14, EmitSound, SoundParts DEF LimboSound
<1>17. /\ n.keys = l.keys /\ n.saved = l.saved /\ n.open = l.open /\ n.token = l.token
       /\ n.view.up = l.view.up /\ Spares(l, n)
       /\ n.view.synced = IF l.view.up /\ Query \in changed THEN Expected(l) ELSE l.view.synced
  <2>1. (Query \in changed) \in BOOLEAN
    OBVIOUS
  <2>2. QED
    <3>1. ViewApplied(l, Query \in changed, n)
      BY <1>14, <2>1, EmitEffect
    <3>2. QED
      BY <3>1 DEF ViewApplied
<1> HIDE DEF n
<1>18. /\ KeepsStore(n, f) /\ f.resets = {} /\ f.state[Query].due = n.state[Query].due
       /\ Query \in changed => Expected(f) = f.view.synced
  BY <1>6, <1>16, ClearedEffect
<1>19. PICK act \in BOOLEAN, ren \in BOOLEAN :
         act = IsActiveTarget(c, Query) /\ (ren <=> Query \in c.resets \cap c.listen)
  BY DEF IsActiveTarget
<1>20. (Query \in changed <=> act) /\ (ren <=> Query \in e.resets \cap e.listen)
  BY <1>5, <1>9, <1>10, <1>19 DEF KeepsQuery
<1>21. /\ e.state[Query].changes = c.state[Query].changes /\ r.state[Query].changes = c.state[Query].changes
       /\ e.keys = c.keys /\ r.keys = c.keys /\ e.view = c.view /\ r.view = c.view
       /\ e.saved = c.saved /\ r.saved = c.saved /\ e.token = c.token /\ r.open = c.open
       /\ e.requests = c.requests /\ e.state[Query].due = c.state[Query].due
  BY <1>5, <1>9, <1>12 DEF KeepsQuery, KeepsStore, KeepsRenewed, KeepsTarget
<1>22. f.open = c.open /\ f.resets = {} /\ f.view.up = c.view.up
  BY <1>15, <1>17, <1>18, <1>21 DEF KeepsStore
<1>23. f.token[Query] = IF ren THEN << >> ELSE IF act THEN <<numbers>> ELSE c.token[Query]
  <2>1. f.token = r.token
    BY <1>15, <1>17, <1>18 DEF KeepsStore
  <2>2. <<numbers>> # << >>
    OBVIOUS
  <2>3. QED
    BY <1>10, <1>12, <1>20, <1>21, <2>1, <2>2
<1>24. f.keys = IF act THEN (c.keys \ Keys(c.state[Query], "Removed")) \cup Keys(c.state[Query], "Added")
                ELSE c.keys
  <2>1. f.keys = l.keys
    BY <1>17, <1>18 DEF KeepsStore
  <2>2. /\ Keys(r.state[Query], "Removed") = Keys(c.state[Query], "Removed")
        /\ Keys(r.state[Query], "Added") = Keys(c.state[Query], "Added")
    BY <1>21 DEF Keys
  <2>3. CASE act
    <3>1. l.keys = (r.keys \ Keys(r.state[Query], "Removed")) \cup Keys(r.state[Query], "Added")
      BY <1>15, <1>20, <2>3
    <3>2. QED
      BY <1>21, <2>1, <2>2, <2>3, <3>1
  <2>4. CASE ~act
    <3>1. l.keys = r.keys
      BY <1>15, <1>20, <2>4
    <3>2. QED
      BY <1>21, <2>1, <2>4, <3>1
  <2>5. QED
    BY <1>19, <2>3, <2>4
<1>25. \/ f.saved = c.saved /\ (act => c.state[Query].changes = NoChanges)
       \/ f.saved = f.token[Query] /\ act
  <2>1. f.saved = l.saved /\ f.token = r.token
    BY <1>15, <1>17, <1>18 DEF KeepsStore
  <2>2. MayStayUnsaved(r) => c.state[Query].changes = NoChanges
    BY <1>21 DEF MayStayUnsaved
  <2>3. CASE Query \notin changed \/ (skip /\ MayStayUnsaved(r))
    <3>1. l.saved = r.saved
      BY <1>15, <2>3
    <3>2. QED
      BY <1>20, <1>21, <2>1, <2>2, <2>3, <3>1
  <2>4. CASE ~(Query \notin changed \/ (skip /\ MayStayUnsaved(r)))
    <3>1. l.saved = r.token[Query]
      BY <1>15, <2>4
    <3>2. QED
      BY <1>20, <2>1, <2>4, <3>1
  <2>5. QED
    BY <2>3, <2>4
<1>26. f.view.synced = IF c.view.up /\ act THEN Expected(c) ELSE c.view.synced
  <2>1. l.view = c.view /\ l.state[Query].changes = c.state[Query].changes
    BY <1>15, <1>21
  <2>2. Expected(l) = Expected(c)
    BY <2>1 DEF Expected, Keys
  <2>3. f.view = n.view
    BY <1>18 DEF KeepsStore
  <2>4. QED
    BY <1>17, <1>20, <2>1, <2>2, <2>3
<1>27. act => Expected(f) = f.view.synced
  BY <1>18, <1>20
<1>28. Spares(r, f)
  <2>1. f.requests = n.requests
    BY <1>18 DEF KeepsStore
  <2>2. QED
    BY <1>15, <1>17, <1>18, <2>1 DEF Spares
<1>29. CASE ren
  <2>1. Requested(r.requests, << >>) /\ r.requests \in Seq(Requests)
    BY <1>11, <1>12, <1>20, <1>29, ClientFields
  <2>2. PICK new \in Seq(Requests) : f.requests = r.requests \o new /\ Unrequested(new)
    BY <1>28 DEF Spares
  <2>3. Requested(f.requests, << >>)
    BY <2>1, <2>2, RequestedOn
  <2>4. QED
    BY <1>19, <1>22, <1>23, <1>24, <1>25, <1>26, <1>27, <1>29, <2>3 DEF SnapshotOf
<1>30. CASE ~ren
  <2>1. Spares(e, r)
    BY <1>12, <1>20, <1>30
  <2>2. Spares(e, f)
    BY <1>9, <1>28, <2>1, SparesOn
  <2>3. Spares(c, f)
    BY <1>21, <2>2 DEF Spares
  <2>4. QED
    BY <1>19, <1>22, <1>23, <1>24, <1>25, <1>26, <1>27, <1>30, <2>3 DEF SnapshotOf
<1>31. QED
  BY <1>19, <1>29, <1>30

-----------------------------------------------------------------------------
(* Reading a message keeps keys and token together.                        *)

LEMMA QueryOwed ==
  ASSUME NEW rs \in Seq(Messages), NEW c, ClientSound(c, rs)
  PROVE  /\ c \in Clients /\ c.requests \in Seq(Requests) /\ c.state[Query].due \in Nat
         /\ Owes(rs, c.requests, Query, c.state[Query].due)
         /\ Query \in c.listen <=> c.view.up
<1>1. c \in Clients /\ ListenSound(c)
  BY SoundParts DEF LimboSound
<1>2. Query \notin DOMAIN c.key
  BY <1>1, ClientFields, LimboKeys
<1>3. QED
  BY <1>1, <1>2, ClientFields, DueType, IdsFinite DEF ClientSound, Owed, ListenSound

LEMMA RequestedIsDue ==
  ASSUME NEW rs \in Seq(Messages), NEW c, ClientSound(c, rs), NEW token, Requested(c.requests, token)
  PROVE  c.state[Query].due > 0
<1>1. PICK i \in 1 .. Len(c.requests) : c.requests[i].target = Query
  BY DEF Requested, Rewatches
<1>2. QED
  BY <1>1, QueryOwed, DueIsOwed

(* An active query is watched, or waits for the snapshot that drops it.    *)
LEMMA ServedActive ==
  ASSUME NEW rs \in Seq(Messages), NEW c, ClientSound(c, rs), NEW w, NEW d,
         Served(c, rs, w, d), c.state[Query].due = 0
  PROVE  \/ Query \in c.resets /\ Mismatched(c, rs)
         \/ /\ Query \notin c.resets /\ Unrequested(c.requests) /\ w[Query] = Docs
            /\ Leads(rs, c.view.synced, Expected(c), d)
<1>1. ~Requested(c.requests, c.token[Query])
  BY RequestedIsDue
<1>2. ~LeadsLater(rs, c.view.synced, d)
  BY QueryOwed, LaterIsDue
<1>3. QED
  BY <1>1, <1>2 DEF Served, Watching

(* One that is not is watched, or is about to be.                          *)
LEMMA ServedInactive ==
  ASSUME NEW rs, NEW c, NEW w, NEW d, Served(c, rs, w, d), c.state[Query].due # 0
  PROVE  /\ Query \notin c.resets
         /\ \/ Requested(c.requests, c.token[Query])
            \/ /\ Unrequested(c.requests) /\ w[Query] = Docs
               /\ \/ LeadsLater(rs, c.view.synced, d)
                  \/ \E A \in SUBSET Docs : Leads(rs, c.view.synced, A, d)
  BY DEF Served, Mismatched, Watching

LEMMA StoredKept ==
  ASSUME NEW c, NEW e, KeepsStore(c, e), Stored(c)
  PROVE  Stored(e)
  BY DEF KeepsStore, Stored

(* What a message m other than a snapshot does.                            *)
MessageEffect(c, e, m) ==
  /\ KeepsStore(c, e)
  /\ Answers(m, Query) => /\ e.resets = c.resets /\ e.state[Query].due = c.state[Query].due - 1
                          /\ e.state[Query].due = 0 => Expected(e) = e.view.synced
  /\ ~Answers(m, Query) /\ ~IsActiveTarget(c, Query) => KeepsQuery(c, e)
  /\ m.type = "current" => KeepsQuery(c, e)
  /\ ~Answers(m, Query) /\ IsActiveTarget(c, Query) =>
       /\ e.state[Query].due = 0
       /\ \/ FilterOf(m) /\ Query \in e.resets /\ Expected(e) = {}
          \/ /\ e.resets = c.resets
             /\ \A B \in SUBSET Docs :
                  Follow(m, Expected(c), B) /\ (FilterOf(m) => c.view.synced \subseteq Expected(c))
                    => Expected(e) = B

LEMMA ReadServed ==
  ASSUME NEW rs \in Seq(Messages), rs # << >>, NEW c, ClientSound(c, rs), c.view.up, NEW w, NEW d,
         Served(c, rs, w, d), Head(rs).type # "snapshot", NEW e, MessageEffect(c, e, Head(rs))
  PROVE  Served(e, Tail(rs), w, d)
<1>1. PICK m, r : m = Head(rs) /\ r = Tail(rs)
  OBVIOUS
<1>2. /\ r \in Seq(Messages) /\ Len(rs) \in Nat /\ Len(rs) >= 1 /\ Len(r) = Len(rs) - 1 /\ m = rs[1]
      /\ \A i \in 1 .. Len(r) : r[i] = rs[i + 1]
  BY <1>1, Rest
<1>3. /\ c \in Clients /\ c.state[Query].due \in Nat /\ Owes(rs, c.requests, Query, c.state[Query].due)
      /\ (IsActiveTarget(c, Query) <=> c.state[Query].due = 0) /\ Expected(c) \in SUBSET Docs
      /\ c.requests \in Seq(Requests)
  BY QueryOwed, QueryKeys DEF IsActiveTarget
<1>4. PICK s \in SUBSET Docs : s = c.view.synced /\ e.view.synced = s /\ e.requests = c.requests /\ e.token = c.token
  BY <1>3, QueryKeys DEF MessageEffect, KeepsStore
<1>5. CASE Answers(m, Query)
  <2>1. /\ e.resets = c.resets /\ e.state[Query].due = c.state[Query].due - 1
        /\ e.state[Query].due = 0 => Expected(e) = s
    BY <1>1, <1>4, <1>5 DEF MessageEffect
  <2>2. c.state[Query].due # 0
    BY <1>1, <1>3, <1>5, OwesRead, IdsFinite
  <2>3. /\ Query \notin e.resets
        /\ \/ Requested(c.requests, c.token[Query])
           \/ /\ Unrequested(c.requests) /\ w[Query] = Docs
              /\ \/ LeadsLater(rs, s, d)
                 \/ \E A \in SUBSET Docs : Leads(rs, s, A, d)
    BY <1>4, <2>1, <2>2, ServedInactive
  <2>4. CASE Requested(c.requests, c.token[Query])
    BY <1>1, <1>4, <2>3, <2>4 DEF Served
  <2>5. CASE Unrequested(c.requests) /\ w[Query] = Docs /\ LeadsLater(rs, s, d)
    <3>1. Leads(r, s, s, d) \/ LeadsLater(r, s, d)
      BY <1>1, <2>5, LaterRead
    <3>2. Watching(e, r, w, d)
      BY <1>4, <2>1, <2>5, <3>1 DEF Watching
    <3>3. QED
      BY <1>1, <2>3, <3>2 DEF Served
  <2>6. ASSUME NEW A \in SUBSET Docs, Leads(rs, s, A, d) PROVE FALSE
    <3>1. PICK B \in SUBSET Docs : LeadsPast(rs, s, A, B, d)
      BY <2>6, LeadsRead
    <3>2. QED
      BY <1>1, <1>5, <3>1 DEF LeadsPast, Follow
  <2>7. QED
    BY <2>3, <2>4, <2>5, <2>6
<1>6. CASE ~Answers(m, Query) /\ c.state[Query].due # 0
  <2>1. KeepsQuery(c, e)
    BY <1>1, <1>3, <1>6 DEF MessageEffect
  <2>2. e.resets = c.resets /\ e.state[Query].due = c.state[Query].due
    BY <2>1 DEF KeepsQuery
  <2>3. /\ Query \notin e.resets
        /\ \/ Requested(c.requests, c.token[Query])
           \/ /\ Unrequested(c.requests) /\ w[Query] = Docs
              /\ \/ LeadsLater(rs, s, d)
                 \/ \E A \in SUBSET Docs : Leads(rs, s, A, d)
    BY <1>4, <1>6, <2>2, ServedInactive
  <2>4. CASE Requested(c.requests, c.token[Query])
    BY <1>1, <1>4, <2>3, <2>4 DEF Served
  <2>5. CASE Unrequested(c.requests) /\ w[Query] = Docs /\ LeadsLater(rs, s, d)
    <3>1. LeadsLater(r, s, d)
      BY <1>1, <1>6, <2>5, LaterRead
    <3>2. Watching(e, r, w, d)
      BY <1>4, <2>5, <3>1 DEF Watching
    <3>3. QED
      BY <1>1, <2>3, <3>2 DEF Served
  <2>6. ASSUME Unrequested(c.requests), w[Query] = Docs, NEW A \in SUBSET Docs, Leads(rs, s, A, d)
        PROVE  Served(e, r, w, d)
    <3>1. PICK B \in SUBSET Docs : LeadsPast(rs, s, A, B, d)
      BY <2>6, LeadsRead
    <3>2. Leads(r, s, B, d)
      BY <1>1, <3>1 DEF LeadsPast
    <3>3. Watching(e, r, w, d)
      BY <1>4, <1>6, <2>2, <2>6, <3>2 DEF Watching
    <3>4. QED
      BY <2>3, <3>3 DEF Served
  <2>7. QED
    BY <1>1, <2>3, <2>4, <2>5, <2>6
<1>7. CASE ~Answers(m, Query) /\ c.state[Query].due = 0 /\ Query \in c.resets
  <2>1. Mismatched(c, rs)
    BY <1>7, ServedActive
  <2>2. m.type = "current" /\ Len(rs) >= 2 /\ rs[2].type = "snapshot"
    BY <1>1, <1>2, <2>1 DEF Mismatched
  <2>3. KeepsQuery(c, e)
    BY <1>1, <2>2 DEF MessageEffect
  <2>4. e.resets = c.resets /\ e.state[Query].due = 0 /\ Expected(e) = {}
    BY <1>7, <2>1, <2>3, ExpectedKept DEF KeepsQuery, Mismatched
  <2>5. Len(r) >= 1 /\ r[1].type = "snapshot"
    BY <1>2, <2>2
  <2>6. QED
    BY <1>1, <1>7, <2>4, <2>5 DEF Served, Mismatched
<1>8. CASE ~Answers(m, Query) /\ c.state[Query].due = 0 /\ Query \notin c.resets
  <2>1. Unrequested(c.requests) /\ w[Query] = Docs /\ Leads(rs, s, Expected(c), d)
    BY <1>4, <1>8, ServedActive
  <2>2. PICK B \in SUBSET Docs : LeadsPast(rs, s, Expected(c), B, d)
    BY <2>1, LeadsRead
  <2>3. Follow(m, Expected(c), B) /\ FilterComes(rs, s, Expected(c), B) /\ Leads(r, s, B, d)
    BY <1>1, <2>2 DEF LeadsPast
  <2>4. /\ e.state[Query].due = 0
        /\ \/ FilterOf(m) /\ Query \in e.resets /\ Expected(e) = {}
           \/ /\ e.resets = c.resets
              /\ (FilterOf(m) => c.view.synced \subseteq Expected(c)) => Expected(e) = B
    BY <1>1, <1>3, <1>8, <2>3 DEF MessageEffect
  <2>5. CASE FilterOf(m) /\ Query \in e.resets /\ Expected(e) = {}
    <3>1. Len(rs) >= 3 /\ rs[2].type = "current" /\ rs[3].type = "snapshot"
      BY <1>1, <2>3, <2>5 DEF FilterComes
    <3>2. Len(r) >= 2 /\ r[1] = rs[2] /\ r[2] = rs[3]
      BY <1>2, <3>1
    <3>3. Mismatched(e, r)
      BY <2>4, <2>5, <3>1, <3>2 DEF Mismatched
    <3>4. QED
      BY <1>1, <2>5, <3>3 DEF Served
  <2>6. CASE e.resets = c.resets /\ ((FilterOf(m) => c.view.synced \subseteq Expected(c)) => Expected(e) = B)
    <3>1. Expected(e) = B
      BY <1>1, <1>4, <2>3, <2>6 DEF FilterComes
    <3>2. Watching(e, r, w, d)
      BY <1>4, <2>1, <2>3, <3>1 DEF Watching
    <3>3. QED
      BY <1>1, <1>8, <2>6, <3>2 DEF Served
  <2>7. QED
    BY <2>4, <2>5, <2>6
<1>9. QED
  BY <1>1, <1>5, <1>6, <1>7, <1>8

LEMMA ReadResumes ==
  ASSUME NEW rs \in Seq(Messages), rs # << >>, NEW c, ClientSound(c, rs), c.open, NEW w, NEW d,
         Resumes(c, rs, w, d), Head(rs).type # "snapshot", NEW e, MessageEffect(c, e, Head(rs))
  PROVE  Resumes(e, Tail(rs), w, d)
<1>1. KeepsStore(c, e)
  BY DEF MessageEffect
<1>2. e.open = c.open /\ e.view = c.view
  BY <1>1 DEF KeepsStore
<1>3. Stored(e)
  BY <1>1, StoredKept DEF Resumes
<1>4. ASSUME e.view.up PROVE Served(e, Tail(rs), w, d)
  <2>1. c.view.up /\ Served(c, rs, w, d)
    BY <1>2, <1>4 DEF Resumes
  <2>2. QED
    BY <2>1, ReadServed
<1>5. QED
  BY <1>2, <1>3, <1>4 DEF Resumes

(* A snapshot: the keys it is applied to are those of its token, or go     *)
(* with theirs.                                                            *)
LEMMA SnapshotStored ==
  ASSUME NEW rs \in Seq(Messages), rs # << >>, Head(rs).type = "snapshot",
         NEW c, ClientSound(c, rs), c.open, NEW w, NEW d, Resumes(c, rs, w, d),
         NEW f, SnapshotOf(c, Head(rs).numbers, f)
  PROVE  Stored(f)
<1>1. PICK m : m = Head(rs)
  OBVIOUS
<1>2. /\ c \in Clients /\ (IsActiveTarget(c, Query) <=> c.view.up /\ c.state[Query].due = 0)
      /\ (Query \in c.listen <=> c.view.up)
  BY QueryOwed DEF IsActiveTarget
<1>3. Stored(c) /\ f.view.up = c.view.up
  BY DEF Resumes, SnapshotOf
<1>4. CASE ~IsActiveTarget(c, Query)
  <2>1. f.keys = c.keys /\ f.saved = c.saved /\ f.view.synced = c.view.synced
    BY <1>4 DEF SnapshotOf
  <2>2. c.view.up => Query \notin c.resets
    BY <1>2, <1>4, ServedInactive DEF Resumes
  <2>3. c.view.up => f.token[Query] = c.token[Query]
    BY <1>4, <2>2 DEF SnapshotOf
  <2>4. QED
    BY <1>3, <2>1, <2>3 DEF Stored
<1>5. CASE IsActiveTarget(c, Query)
  <2>1. c.view.up /\ c.state[Query].due = 0 /\ Query \in c.listen /\ c.keys = c.view.synced
    BY <1>2, <1>3, <1>5 DEF Stored
  <2>2. f.view.synced = Expected(c) /\ f.keys = Expected(c)
    BY <1>5, <2>1 DEF SnapshotOf, Expected
  <2>3. GoesWith(f.token[Query], Expected(c))
    <3>1. CASE Query \in c.resets
      <4>1. f.token[Query] = << >>
        BY <2>1, <3>1 DEF SnapshotOf
      <4>2. Expected(c) = {}
        BY <2>1, <3>1, ServedActive DEF Resumes, Mismatched
      <4>3. QED
        BY <4>1, <4>2 DEF GoesWith
    <3>2. CASE Query \notin c.resets
      <4>1. f.token[Query] = <<m.numbers>>
        BY <1>1, <1>5, <3>2 DEF SnapshotOf
      <4>2. Leads(rs, c.view.synced, Expected(c), d)
        BY <2>1, <3>2, ServedActive DEF Resumes
      <4>3. PICK B \in SUBSET Docs : LeadsPast(rs, c.view.synced, Expected(c), B, d)
        BY <4>2, LeadsRead
      <4>4. Expected(c) = Existing(m.numbers)
        BY <1>1, <4>3 DEF LeadsPast, Follow
      <4>5. PICK n : n = m.numbers
        OBVIOUS
      <4>a. <<n>> # << >> /\ <<n>>[1] = n
        OBVIOUS
      <4>6. QED
        BY <4>1, <4>4, <4>5, <4>a DEF GoesWith
    <3>3. QED
      BY <3>1, <3>2
  <2>4. GoesWith(f.saved, f.keys)
    <3>1. CASE f.saved = c.saved /\ c.state[Query].changes = NoChanges
      <4>1. Expected(c) = c.view.synced
        BY <3>1, NoChangesExpected DEF NoChanges
      <4>2. QED
        BY <1>3, <2>1, <2>2, <3>1, <4>1 DEF Stored
    <3>2. CASE f.saved = f.token[Query]
      BY <2>2, <2>3, <3>2
    <3>3. QED
      BY <1>5, <3>1, <3>2 DEF SnapshotOf
  <2>5. QED
    BY <2>2, <2>3, <2>4 DEF Stored
<1>6. QED
  BY <1>4, <1>5

LEMMA SnapshotResumes ==
  ASSUME NEW rs \in Seq(Messages), rs # << >>, Head(rs).type = "snapshot",
         NEW c, ClientSound(c, rs), c.open, NEW w, NEW d, Resumes(c, rs, w, d),
         NEW f, SnapshotOf(c, Head(rs).numbers, f)
  PROVE  Resumes(f, Tail(rs), w, d)
<1>1. PICK m, r : m = Head(rs) /\ r = Tail(rs)
  OBVIOUS
<1>2. /\ c \in Clients /\ (IsActiveTarget(c, Query) <=> c.view.up /\ c.state[Query].due = 0)
      /\ (Query \in c.listen <=> c.view.up) /\ c.requests \in Seq(Requests)
  BY QueryOwed DEF IsActiveTarget
<1>3. f.open /\ f.resets = {} /\ f.view.up = c.view.up
  BY DEF SnapshotOf
<1>4. Stored(f)
  BY SnapshotStored
<1>5. ASSUME f.view.up PROVE Served(f, r, w, d)
  <2>1. c.view.up /\ Served(c, rs, w, d)
    BY <1>3, <1>5 DEF Resumes
  <2>2. CASE c.state[Query].due = 0 /\ Query \in c.resets
    <3>1. f.token[Query] = << >> /\ Requested(f.requests, << >>)
      BY <1>2, <2>1, <2>2 DEF SnapshotOf
    <3>2. QED
      BY <1>3, <3>1 DEF Served
  <2>3. CASE Query \notin c.resets
    <3>1. Spares(c, f)
      BY <2>3 DEF SnapshotOf
    <3>2. PICK new \in Seq(Requests) : f.requests = c.requests \o new /\ Unrequested(new)
      BY <3>1 DEF Spares
    <3>3. /\ Unrequested(c.requests) => Unrequested(f.requests)
          /\ f.state[Query].due = c.state[Query].due
      BY <1>2, <3>1, <3>2, UnrequestedOn DEF Spares
    <3>4. CASE c.state[Query].due = 0
      <4>1. /\ Unrequested(c.requests) /\ w[Query] = Docs
            /\ Leads(rs, c.view.synced, Expected(c), d)
        BY <2>1, <2>3, <3>4, ServedActive
      <4>2. PICK B \in SUBSET Docs : LeadsPast(rs, c.view.synced, Expected(c), B, d)
        BY <4>1, LeadsRead
      <4>3. B = Expected(c) /\ Leads(r, f.view.synced, B, d)
        BY <1>1, <4>2 DEF LeadsPast, Follow
      <4>4. Expected(f) = f.view.synced /\ f.view.synced = Expected(c)
        BY <1>2, <2>1, <3>4 DEF SnapshotOf
      <4>5. Watching(f, r, w, d)
        BY <3>3, <4>1, <4>3, <4>4 DEF Watching
      <4>6. QED
        BY <1>3, <4>5 DEF Served
    <3>5. CASE c.state[Query].due # 0
      <4>1. f.token[Query] = c.token[Query] /\ f.view.synced = c.view.synced
        BY <1>2, <2>3, <3>5 DEF SnapshotOf
      <4>2. \/ Requested(c.requests, c.token[Query])
            \/ /\ Unrequested(c.requests) /\ w[Query] = Docs
               /\ \/ LeadsLater(rs, c.view.synced, d)
                  \/ \E A \in SUBSET Docs : Leads(rs, c.view.synced, A, d)
        BY <2>1, <3>5, ServedInactive
      <4>3. CASE Requested(c.requests, c.token[Query])
        <5>1. Requested(f.requests, f.token[Query])
          BY <1>2, <3>2, <4>1, <4>3, RequestedOn
        <5>2. QED
          BY <1>3, <5>1 DEF Served
      <4>4. CASE Unrequested(c.requests) /\ w[Query] = Docs /\ LeadsLater(rs, c.view.synced, d)
        <5>1. LeadsLater(r, c.view.synced, d)
          BY <1>1, <4>4, LaterRead DEF Answers
        <5>2. Watching(f, r, w, d)
          BY <3>3, <4>1, <4>4, <5>1 DEF Watching
        <5>3. QED
          BY <1>3, <5>2 DEF Served
      <4>5. ASSUME Unrequested(c.requests), w[Query] = Docs,
                   NEW A \in SUBSET Docs, Leads(rs, c.view.synced, A, d)
            PROVE  Served(f, r, w, d)
        <5>1. PICK B \in SUBSET Docs : LeadsPast(rs, c.view.synced, A, B, d)
          BY <4>5, LeadsRead
        <5>2. Leads(r, c.view.synced, B, d)
          BY <1>1, <5>1 DEF LeadsPast
        <5>3. Watching(f, r, w, d)
          BY <3>3, <3>5, <4>1, <4>5, <5>2 DEF Watching
        <5>4. QED
          BY <1>3, <5>3 DEF Served
      <4>6. QED
        BY <4>2, <4>3, <4>4, <4>5
    <3>6. QED
      BY <3>4, <3>5
  <2>4. QED
    BY <2>1, <2>2, <2>3, ServedInactive
<1>6. QED
  BY <1>1, <1>3, <1>4, <1>5 DEF Resumes

(* A message that does not concern the query's keys.                       *)
LEMMA EffectKept ==
  ASSUME NEW c, NEW e, NEW m, KeepsQuery(c, e), ~Answers(m, Query),
         \A B : Follow(m, Expected(c), B) => B = Expected(c)
  PROVE  MessageEffect(c, e, m)
<1>1. KeepsStore(c, e) /\ e.resets = c.resets /\ e.state[Query].due = c.state[Query].due
  BY DEF KeepsQuery
<1>2. IsActiveTarget(c, Query) => e.state[Query].due = 0
  BY <1>1 DEF IsActiveTarget
<1>3. \A B \in SUBSET Docs : Follow(m, Expected(c), B) => Expected(e) = B
  BY ExpectedKept
<1>4. QED
  BY <1>1, <1>2, <1>3 DEF MessageEffect

(* Each kind of message, for target t.                                     *)
LEMMA AnswerRead ==
  ASSUME NEW rs \in Seq(Messages), rs # << >>, NEW c, ClientSound(c, rs), NEW t \in Ids,
         Answers(Head(rs), t), NEW e, e = TargetAdded(c, t) \/ e = TargetRemoved(c, t)
  PROVE  MessageEffect(c, e, Head(rs))
<1>1. PICK m : m = Head(rs)
  OBVIOUS
<1>2. /\ KeepsStore(c, e) /\ e.resets = c.resets
      /\ t # Query => KeepsQuery(c, e)
      /\ t = Query => /\ e.state[Query].due = c.state[Query].due - 1
                      /\ e.state[Query].due = 0 => Expected(e) = e.view.synced
  BY AnswerEffect
<1>3. m.type \in {"added", "removed"} /\ m.targets = {t}
  BY <1>1 DEF Answers
<1>4. CASE t = Query
  <2>1. Answers(m, Query) /\ m.type # "current"
    BY <1>3, <1>4 DEF Answers
  <2>2. QED
    BY <1>1, <1>2, <1>4, <2>1 DEF MessageEffect
<1>5. CASE t # Query
  <2>1. ~Answers(m, Query)
    BY <1>3, <1>5 DEF Answers
  <2>2. \A B : Follow(m, Expected(c), B) => B = Expected(c)
    BY <1>3 DEF Follow
  <2>3. QED
    BY <1>1, <1>2, <1>5, <2>1, <2>2, EffectKept
<1>6. QED
  BY <1>4, <1>5

LEMMA CurrentRead ==
  ASSUME NEW c \in Clients, NEW m, m.type = "current", NEW t \in Ids, NEW e, e = MarkCurrent(c, t)
  PROVE  MessageEffect(c, e, m)
<1>1. KeepsQuery(c, e)
  BY CurrentEffect
<1>2. ~Answers(m, Query) /\ \A B : Follow(m, Expected(c), B) => B = Expected(c)
  BY DEF Answers, Follow
<1>3. QED
  BY <1>1, <1>2, EffectKept

LEMMA ResetRead ==
  ASSUME NEW rs, NEW c, ClientSound(c, rs), NEW t \in Ids, NEW m, m.type = "reset", m.targets = {t},
         NEW e, e = IF IsActiveTarget(c, t) THEN ResetTarget(c, t) ELSE c
  PROVE  MessageEffect(c, e, m)
<1>1. ~Answers(m, Query) /\ m.type # "current" /\ ~FilterOf(m)
  BY DEF Answers, FilterOf
<1>2. CASE t # Query
  <2>1. KeepsQuery(c, e)
    <3>1. CASE e = ResetTarget(c, t)
      BY <1>2, <3>1, ResetEffect
    <3>2. CASE e = c
      BY <3>2 DEF KeepsQuery, KeepsStore
    <3>3. QED
      BY <3>1, <3>2
  <2>2. \A B : Follow(m, Expected(c), B) => B = Expected(c)
    BY <1>2 DEF Follow
  <2>3. QED
    BY <1>1, <2>1, <2>2, EffectKept
<1>3. CASE t = Query /\ IsActiveTarget(c, Query)
  <2>1. KeepsStore(c, e) /\ e.resets = c.resets /\ e.state[Query].due = 0 /\ Expected(e) = {}
    BY <1>3, ResetEffect
  <2>2. \A B \in SUBSET Docs : Follow(m, Expected(c), B) => Expected(e) = B
    BY <1>3, <2>1 DEF Follow
  <2>3. QED
    BY <1>1, <1>3, <2>1, <2>2 DEF MessageEffect
<1>4. CASE t = Query /\ ~IsActiveTarget(c, Query)
  <2>1. KeepsQuery(c, e) /\ KeepsStore(c, e)
    BY <1>4 DEF KeepsQuery, KeepsStore
  <2>2. QED
    BY <1>1, <1>4, <2>1 DEF MessageEffect
<1>5. QED
  BY <1>2, <1>3, <1>4

LEMMA DocumentRead ==
  ASSUME NEW c \in Clients, NEW m, m.type = "document", m.key \in Docs, m.found \in BOOLEAN,
         m.targets \in SUBSET Ids, NEW e, e = HandleDocumentChange(c, m.key, m.found, m.targets)
  PROVE  MessageEffect(c, e, m)
<1>1. ~Answers(m, Query) /\ m.type # "current" /\ ~FilterOf(m)
  BY DEF Answers, FilterOf
<1>a. PICK k \in Docs, found \in BOOLEAN, ts \in SUBSET Ids : k = m.key /\ found = m.found /\ ts = m.targets
  BY Zenon
<1>b. e = HandleDocumentChange(c, k, found, ts)
  BY <1>a
<1>c. /\ KeepsStore(c, e) /\ e.resets = c.resets
      /\ e.state[Query].due = c.state[Query].due
      /\ Query \notin ts \/ ~IsActiveTarget(c, Query) => KeepsQuery(c, e)
      /\ Query \in ts /\ IsActiveTarget(c, Query) =>
           Expected(e) = IF found THEN Expected(c) \cup {k} ELSE Expected(c) \ {k}
  BY <1>b, DocumentEffect
<1>2. /\ KeepsStore(c, e) /\ e.resets = c.resets
      /\ e.state[Query].due = c.state[Query].due
      /\ Query \notin m.targets \/ ~IsActiveTarget(c, Query) => KeepsQuery(c, e)
      /\ Query \in m.targets /\ IsActiveTarget(c, Query) =>
           Expected(e) = IF m.found THEN Expected(c) \cup {m.key} ELSE Expected(c) \ {m.key}
  BY <1>a, <1>c
<1>3. CASE Query \notin m.targets
  <2>1. \A B : Follow(m, Expected(c), B) => B = Expected(c)
    BY <1>3 DEF Follow
  <2>2. QED
    BY <1>1, <1>2, <1>3, <2>1, EffectKept
<1>4. CASE Query \in m.targets /\ IsActiveTarget(c, Query)
  <2>1. \A B \in SUBSET Docs : Follow(m, Expected(c), B) => Expected(e) = B
    BY <1>2, <1>4 DEF Follow
  <2>2. e.state[Query].due = 0
    BY <1>2, <1>4 DEF IsActiveTarget
  <2>3. QED
    BY <1>1, <1>2, <1>4, <2>1, <2>2 DEF MessageEffect
<1>5. CASE ~IsActiveTarget(c, Query)
  BY <1>1, <1>2, <1>5 DEF MessageEffect
<1>6. QED
  BY <1>3, <1>4, <1>5

LEMMA FilterRead ==
  ASSUME NEW rs, NEW c, ClientSound(c, rs), c.open, ChangesFit(c), NEW t \in Ids,
         NEW m, m.type = "filter", m.targets = {t},
         NEW e, e = HandleExistenceFilter(c, t, m.count, m.bloom)
  PROVE  MessageEffect(c, e, m)
<1>1. ~Answers(m, Query) /\ m.type # "current"
  BY DEF Answers
<1>2. /\ KeepsStore(c, e)
      /\ t # Query \/ ~IsActiveTarget(c, Query) => KeepsQuery(c, e)
      /\ t = Query /\ IsActiveTarget(c, Query) =>
           /\ e.state[Query].due = 0
           /\ \/ Query \in e.resets /\ Expected(e) = {}
              \/ /\ e.resets = c.resets
                 /\ \A B \in SUBSET Docs :
                      B \subseteq Expected(c) /\ B \subseteq m.bloom /\ m.count = Cardinality(B)
                      /\ c.view.synced \subseteq Expected(c) => Expected(e) = B
  BY FilterEffect
<1>3. CASE t # Query
  <2>1. \A B : Follow(m, Expected(c), B) => B = Expected(c)
    BY <1>3 DEF Follow
  <2>2. QED
    BY <1>1, <1>2, <1>3, <2>1, EffectKept
<1>4. CASE t = Query /\ IsActiveTarget(c, Query)
  <2>1. FilterOf(m)
    BY <1>4 DEF FilterOf
  <2>2. \A B \in SUBSET Docs : Follow(m, Expected(c), B) =>
          B \subseteq Expected(c) /\ B \subseteq m.bloom /\ m.count = Cardinality(B)
    BY <1>4 DEF Follow
  <2>3. CASE Query \in e.resets /\ Expected(e) = {}
    BY <1>1, <1>2, <1>4, <2>1, <2>3 DEF MessageEffect
  <2>4. CASE /\ e.resets = c.resets
             /\ \A B \in SUBSET Docs :
                  B \subseteq Expected(c) /\ B \subseteq m.bloom /\ m.count = Cardinality(B)
                  /\ c.view.synced \subseteq Expected(c) => Expected(e) = B
    <3>1. \A B \in SUBSET Docs :
            Follow(m, Expected(c), B) /\ (FilterOf(m) => c.view.synced \subseteq Expected(c))
              => Expected(e) = B
      BY <2>1, <2>2, <2>4
    <3>2. QED
      BY <1>1, <1>2, <1>4, <2>4, <3>1 DEF MessageEffect
  <2>5. QED
    BY <1>2, <1>4, <2>3, <2>4
<1>5. CASE ~IsActiveTarget(c, Query)
  BY <1>1, <1>2, <1>5 DEF MessageEffect
<1>6. QED
  BY <1>3, <1>4, <1>5

LEMMA OnWatchStreamChangeResumes ==
  ASSUME IInv, RInv, OnWatchStreamChange
  PROVE  RInv'
<1> DEFINE m == Head(responses)
           rs == Tail(responses)
           the == CHOOSE t \in Ids : m.targets = {t}
<1>1. responses # << >> /\ responses' = rs /\ UNCHANGED <<db, watched>>
  BY DEF OnWatchStreamChange
<1>2. /\ ClientSound(client, responses) /\ responses \in Seq(Messages)
      /\ ChangesFit(client) /\ client.open /\ client \in Clients
  BY <1>1, Unpacked
<1>3. m \in Messages
  BY <1>1, <1>2, Unpacked, SaidRead
<1>5. ASSUME m.type \in {"added", "removed", "current", "reset", "filter"}
      PROVE  the \in Ids /\ m.targets = {the}
  <2>1. PICK t \in Ids : m.targets = {t}
    BY <1>3, <1>5 DEF Messages, TargetMessages, DocumentMessages, FilterMessages, SnapshotMessages
  <2>2. QED
    BY <2>1
<1>6. client' \in CASE m.type = "added" -> {TargetAdded(client, the)}
                    [] m.type = "removed" -> {TargetRemoved(client, the)}
                    [] m.type = "current" -> {MarkCurrent(client, the)}
                    [] m.type = "reset" -> {IF IsActiveTarget(client, the)
                                            THEN ResetTarget(client, the) ELSE client}
                    [] m.type = "document" -> {HandleDocumentChange(client, m.key, m.found, m.targets)}
                    [] m.type = "filter" -> {HandleExistenceFilter(client, the, m.count, m.bloom)}
                    [] m.type = "snapshot" ->
                         {HandleSnapshot(client, m.numbers, skip) : skip \in BOOLEAN}
  BY DEF OnWatchStreamChange
<1> HIDE DEF m, rs, the
<1>7. m.type \in {"added", "removed", "current", "reset", "document", "filter", "snapshot"}
  BY <1>3 DEF Messages, TargetMessages, DocumentMessages, FilterMessages, SnapshotMessages
<1>8. CASE m.type # "snapshot"
  <2>6. MessageEffect(client, client', m)
    <3>1. CASE m.type \in {"added", "removed"}
      <4>1. client' = TargetAdded(client, the) \/ client' = TargetRemoved(client, the)
        BY <1>6, <3>1
      <4>2. Answers(Head(responses), the) /\ the \in Ids
        BY <1>5, <3>1 DEF Answers, m
      <4>3. MessageEffect(client, client', Head(responses))
        BY <1>1, <1>2, <4>1, <4>2, AnswerRead
      <4>4. QED
        BY <4>3 DEF m
    <3>2. CASE m.type = "current"
      <4>1. client' = MarkCurrent(client, the) /\ the \in Ids
        BY <1>5, <1>6, <3>2
      <4>2. QED
        BY <1>2, <3>2, <4>1, CurrentRead
    <3>3. CASE m.type = "reset"
      <4>1. /\ client' = IF IsActiveTarget(client, the) THEN ResetTarget(client, the) ELSE client
            /\ the \in Ids /\ m.targets = {the}
        BY <1>5, <1>6, <3>3
      <4>2. QED
        BY <1>2, <3>3, <4>1, ResetRead
    <3>4. CASE m.type = "document"
      <4>1. client' = HandleDocumentChange(client, m.key, m.found, m.targets)
        BY <1>6, <3>4
      <4>2. m.key \in Docs /\ m.found \in BOOLEAN /\ m.targets \in SUBSET Ids
        BY <1>3, <3>4 DEF Messages, TargetMessages, DocumentMessages, FilterMessages, SnapshotMessages
      <4>3. QED
        BY <1>2, <3>4, <4>1, <4>2, DocumentRead
    <3>5. CASE m.type = "filter"
      <4>1. /\ client' = HandleExistenceFilter(client, the, m.count, m.bloom)
            /\ the \in Ids /\ m.targets = {the}
        BY <1>5, <1>6, <3>5
      <4>2. QED
        BY <1>2, <3>5, <4>1, FilterRead
    <3>6. QED
      BY <1>7, <1>8, <3>1, <3>2, <3>3, <3>4, <3>5
  <2>7. Resumes(client', rs, watched, db)
    BY <1>1, <1>2, <1>8, <2>6, ReadResumes DEF RInv, m, rs
  <2>8. QED
    BY <1>1, <2>7 DEF RInv
<1>9. CASE m.type = "snapshot"
  <2>1. PICK skip \in BOOLEAN : client' = HandleSnapshot(client, m.numbers, skip)
    BY <1>6, <1>9
  <2>2. m.numbers \in [Docs -> 0 .. MaxInputs + 1]
    BY <1>3, <1>9 DEF Messages, TargetMessages, DocumentMessages, FilterMessages, SnapshotMessages
  <2>3. SnapshotOf(client, m.numbers, client')
    BY <1>2, <2>1, <2>2, SnapshotEffect
  <2>4. Resumes(client', rs, watched, db)
    BY <1>1, <1>2, <1>9, <2>3, SnapshotResumes DEF RInv, m, rs
  <2>5. QED
    BY <1>1, <2>4 DEF RInv
<1>10. QED
  BY <1>8, <1>9

LEMMA OnWatchStreamCloseResumes ==
  ASSUME IInv, RInv, OnWatchStreamClose
  PROVE  RInv'
<1>1. client' = [client EXCEPT !.open = FALSE, !.requests = << >>,
                               !.state = NewAggregator, !.updates = NoChanges, !.resets = {}]
  BY DEF OnWatchStreamClose
<1>2. /\ client'.keys = client.keys /\ client'.saved = client.saved /\ client'.view = client.view
      /\ client'.token = client.token /\ ~client'.open /\ client'.resets = {}
  BY <1>1, Unpacked DEF Clients
<1>3. Stored(client)
  BY DEF RInv, Resumes
<1>4. Stored(client')
  BY <1>2, <1>3 DEF Stored
<1>5. QED
  BY <1>2, <1>4 DEF RInv, Resumes

(* A client that starts, on keys that go with the token saved with them.   *)
LEMMA StartedResumes ==
  ASSUME NEW cache, NEW keys, NEW saved, GoesWith(saved, keys), NEW rs, NEW w, NEW d
  PROVE  Resumes(Started(cache, keys, saved), rs, w, d)
<1>1. PICK c : c = Started(cache, keys, saved)
  OBVIOUS
<1>2. c.keys = keys /\ c.saved = saved /\ ~c.open /\ c.resets = {} /\ ~c.view.up
  BY <1>1 DEF Started, NoView
<1>3. Stored(c)
  BY <1>2 DEF Stored
<1>4. QED
  BY <1>1, <1>2, <1>3 DEF Resumes

LEMMA KillResumes ==
  ASSUME IInv, RInv, Kill
  PROVE  RInv'
<1>1. client' = Started(client.cache, client.keys, client.saved)
  BY DEF Kill
<1>2. GoesWith(client.saved, client.keys)
  BY DEF RInv, Resumes, Stored
<1>3. Resumes(client', responses', watched', db')
  BY <1>1, <1>2, StartedResumes
<1>4. QED
  BY <1>3 DEF RInv

LEMMA OnWatchStreamOpenResumes ==
  ASSUME IInv, RInv, OnWatchStreamOpen
  PROVE  RInv'
<1>1. ~client.open /\ UNCHANGED <<db, watched, responses>>
  BY DEF OnWatchStreamOpen
<1>2. PICK order \in SetToSeqs(client.listen) :
        client' = SendInOrder([client EXCEPT !.open = TRUE], "watch", order)
  BY DEF OnWatchStreamOpen
<1>3. /\ client \in Clients /\ ListenSound(client) /\ client.listen \in SUBSET Ids
      /\ IsOrder(order, client.listen)
  BY Unpacked, SoundParts, ClientFields, IdsFinite, AllOrders
<1>4. PICK b : b = [client EXCEPT !.open = TRUE]
  OBVIOUS
<1>5. /\ b \in Clients /\ b.open /\ b.keys = client.keys /\ b.saved = client.saved /\ b.key = client.key
      /\ b.view = client.view /\ b.token = client.token /\ b.resets = client.resets
  BY <1>3, <1>4 DEF Clients
<1>6. client' = SendInOrder(b, "watch", order) /\ client.listen \subseteq DOMAIN b.key \cup {Query}
  BY <1>2, <1>3, <1>4, <1>5 DEF ListenSound
<1>7. PICK e : e = client'
  OBVIOUS
<1>8. KeepsRest(b, e)
  BY <1>3, <1>5, <1>6, <1>7, SentFields
<1>9. PICK new \in Seq(Requests) : Asks(b, "watch", client.listen, e, new) /\ AsksAll(b, "watch", client.listen, new)
  BY <1>3, <1>5, <1>6, <1>7, SentFields
<1>10. /\ e.keys = client.keys /\ e.saved = client.saved /\ e.view = client.view
       /\ e.token = client.token /\ e.open /\ e.resets = {}
  BY <1>1, <1>5, <1>8 DEF KeepsRest, RInv, Resumes
<1>11. Stored(client)
  BY DEF RInv, Resumes
<1>12. Stored(e)
  BY <1>10, <1>11 DEF Stored
<1>13. ASSUME e.view.up PROVE Served(e, responses, watched, db)
  <2>1. Query \in client.listen
    BY <1>3, <1>10, <1>13 DEF ListenSound
  <2>2. Requested(e.requests, e.token[Query])
    BY <1>5, <1>9, <1>10, <2>1, AsksQuery
  <2>3. QED
    BY <1>10, <2>2 DEF Served
<1>14. QED
  BY <1>1, <1>7, <1>10, <1>12, <1>13 DEF RInv, Resumes

LEMMA ApplyOnlineStateChangeResumes ==
  ASSUME IInv, RInv, ApplyOnlineStateChange
  PROVE  RInv'
<1>1. /\ ~client.open /\ UNCHANGED <<db, watched, responses>>
      /\ client' = EmitNewSnapshots([client EXCEPT !.view.current = FALSE], FALSE, FALSE)
  BY DEF ApplyOnlineStateChange
<1>2. /\ client \in Clients /\ client.view \in Views /\ client.received \subseteq DOMAIN client.key
      /\ ClientSound(client, responses) /\ responses \in Seq(Messages)
  BY Unpacked, SoundParts, ClientFields DEF LimboSound
<1>3. PICK v : v = [client.view EXCEPT !.current = FALSE]
  OBVIOUS
<1>4. v \in Views /\ v.up = client.view.up /\ v.synced = client.view.synced
  BY <1>2, <1>3 DEF Views
<1>5. PICK b : b = [client EXCEPT !.view = v]
  OBVIOUS
<1>6. b = [client EXCEPT !.view.current = FALSE]
  BY <1>2, <1>3, <1>5 DEF Clients
<1>7. /\ KeepsWatch(client, b) /\ b.keys = client.keys /\ b.saved = client.saved /\ b.view = v
      /\ b.token = client.token /\ b.resets = client.resets /\ b.open = client.open
  BY <1>2, <1>4, <1>5 DEF Clients, KeepsWatch
<1>8. ClientSound(b, responses)
  BY <1>2, <1>7, PaperworkSound
<1>9. ViewApplied(b, FALSE, client')
  BY <1>1, <1>2, <1>6, <1>8, EmitEffect
<1>10. /\ client'.keys = client.keys /\ client'.saved = client.saved /\ client'.open = client.open
       /\ client'.token = client.token /\ client'.resets = client.resets
       /\ client'.view.up = client.view.up /\ client'.view.synced = client.view.synced
  BY <1>4, <1>7, <1>9 DEF ViewApplied
<1>11. Stored(client) /\ client.resets = {}
  BY <1>1 DEF RInv, Resumes
<1>12. Stored(client')
  BY <1>10, <1>11 DEF Stored
<1>13. QED
  BY <1>1, <1>10, <1>11, <1>12 DEF RInv, Resumes

LEMMA OpenPageResumes ==
  ASSUME IInv, RInv, ~ReturnsDuringReset, OpenPage
  PROVE  RInv'
<1>1. /\ ~client.view.up /\ Query \notin client.resets /\ UNCHANGED <<db, watched, responses>>
      /\ client' = Listen([client EXCEPT !.view = [NoView EXCEPT !.up = TRUE, !.synced = client.keys],
                                         !.token[Query] = client.saved], {Query})
  BY DEF OpenPage
<1>2. /\ client \in Clients /\ client.listen \in SUBSET Ids /\ client.token \in [Ids -> Tokens]
      /\ client.saved \in Tokens /\ client.keys \in SUBSET Docs
  BY Unpacked, ClientFields
<1>3. PICK v : v = [NoView EXCEPT !.up = TRUE, !.synced = client.keys]
  OBVIOUS
<1>4. v \in Views /\ v.up /\ v.synced = client.keys
  BY <1>2, <1>3 DEF NoView, Views
<1>5. PICK tok : tok = [client.token EXCEPT ![Query] = client.saved]
  OBVIOUS
<1>6. tok \in [Ids -> Tokens] /\ tok[Query] = client.saved
  BY <1>2, <1>5, IdsFinite
<1>7. PICK a : a = [client EXCEPT !.view = v, !.token = tok]
  OBVIOUS
<1>8. client' = Listen(a, {Query})
  BY <1>1, <1>2, <1>3, <1>5, <1>7 DEF Clients
<1>9. PICK l : l = client.listen \cup {Query}
  OBVIOUS
<1>10. l \in SUBSET Ids
  BY <1>2, <1>9, IdsFinite
<1>11. PICK b : b = [a EXCEPT !.listen = l]
  OBVIOUS
<1>12. a \in Clients /\ a.listen = client.listen
  BY <1>2, <1>4, <1>6, <1>7 DEF Clients
<1>13. client' = Send(b, "watch", {Query})
  BY <1>8, <1>9, <1>11, <1>12 DEF Listen, SendWatchRequest
<1>14. /\ b \in Clients /\ b.open = client.open /\ b.keys = client.keys /\ b.saved = client.saved
       /\ b.view = v /\ b.token = tok /\ b.resets = client.resets
  BY <1>2, <1>4, <1>6, <1>7, <1>10, <1>11 DEF Clients
<1>15. PICK ts, e : ts = {Query} /\ e = client'
  OBVIOUS
<1>16. ts \in SUBSET Ids /\ ts \subseteq DOMAIN b.key \cup {Query} /\ e = Send(b, "watch", ts) /\ Query \in ts
  BY <1>13, <1>15, IdsFinite
<1>17. KeepsRest(b, e)
  BY <1>14, <1>16, SendFields
<1>18. PICK new \in Seq(Requests) : Asks(b, "watch", ts, e, new) /\ AsksAll(b, "watch", ts, new)
  BY <1>14, <1>16, SendFields
<1>19. /\ e.keys = client.keys /\ e.saved = client.saved /\ e.view = v /\ e.token = tok
       /\ e.resets = client.resets /\ e.open = client.open
  BY <1>14, <1>17 DEF KeepsRest
<1>20. GoesWith(client.saved, client.keys) /\ (~client.open => client.resets = {})
  BY DEF RInv, Resumes, Stored
<1>21. Stored(e)
  BY <1>4, <1>6, <1>19, <1>20 DEF Stored
<1>22. ASSUME e.open PROVE Served(e, responses, watched, db)
  <2>1. Requested(e.requests, e.token[Query])
    BY <1>14, <1>16, <1>18, <1>19, <1>22, AsksQuery
  <2>2. QED
    BY <1>1, <1>19, <2>1 DEF Served
<1>23. QED
  BY <1>1, <1>15, <1>19, <1>20, <1>21, <1>22 DEF RInv, Resumes

LEMMA ClosePageResumes ==
  ASSUME IInv, RInv, ClosePage
  PROVE  RInv'
<1>1. client.view.up /\ UNCHANGED <<db, watched, responses>>
  BY DEF ClosePage
<1>2. PICK d : d = StopListening([client EXCEPT !.view = NoView, !.saved = client.token[Query]], {Query})
  OBVIOUS
<1>3. client' = RemoveLimboTarget(d, client.view.limbo)
  BY <1>2 DEF ClosePage
<1>4. /\ client \in Clients /\ ListenSound(client) /\ client.listen \in SUBSET Ids
      /\ client.token \in [Ids -> Tokens] /\ client.key \in Limbos
      /\ ClientSound(client, responses) /\ responses \in Seq(Messages)
  BY Unpacked, SoundParts, ClientFields
<1>5. NoView \in Views /\ ~NoView.up /\ client.token[Query] \in Tokens
  BY <1>4, IdsFinite DEF NoView, Views
<1>6. PICK a : a = [client EXCEPT !.view = NoView, !.saved = client.token[Query]]
  OBVIOUS
<1>7. PICK l : l = client.listen \ {Query}
  OBVIOUS
<1>8. l = DOMAIN client.key /\ l \in SUBSET Ids
  BY <1>4, <1>7, LimboKeys DEF ListenSound
<1>9. PICK b : b = [a EXCEPT !.listen = l]
  OBVIOUS
<1>10. a \in Clients /\ a.listen = client.listen
  BY <1>4, <1>5, <1>6 DEF Clients
<1>11. d = Send(b, "unwatch", {Query})
  BY <1>2, <1>6, <1>7, <1>9, <1>10 DEF StopListening, SendUnwatchRequest
<1>12. /\ b \in Clients /\ b.open = client.open /\ b.requests = client.requests /\ b.state = client.state
       /\ b.key = client.key /\ b.received = client.received /\ b.next = client.next /\ b.listen = l
       /\ b.view = NoView /\ b.saved = client.token[Query] /\ b.keys = client.keys /\ b.resets = client.resets
  BY <1>4, <1>5, <1>6, <1>8, <1>9 DEF Clients
<1>13. ListenSound(b)
  BY <1>5, <1>8, <1>12 DEF ListenSound
<1>14. ClientSound(b, responses)
  BY <1>4, <1>12, <1>13, PageSound
<1>15. {Query} \in SUBSET Ids /\ \A t \in {Query} : t < b.next
  BY <1>12, IdsFinite, NextType DEF Query
<1>16. ClientSound(d, responses) /\ Follows(b, d)
  BY <1>4, <1>11, <1>14, <1>15, SendSound
<1>17. Follows(d, client')
  BY <1>3, <1>4, <1>16, RemoveLimboSound
<1>18. /\ client'.view = NoView /\ client'.saved = client.token[Query] /\ client'.keys = client.keys
       /\ client'.resets = client.resets /\ client'.open = client.open
  BY <1>12, <1>16, <1>17 DEF Follows, KeepsRest
<1>19. /\ GoesWith(client.token[Query], client.keys)
       /\ ~client.open => client.resets = {}
  BY <1>1 DEF RInv, Resumes, Stored
<1>20. Stored(client')
  BY <1>5, <1>18, <1>19 DEF Stored
<1>21. QED
  BY <1>5, <1>18, <1>19, <1>20 DEF RInv, Resumes

(* The server sends messages that bring its watchers up to date.           *)
LEMMA ServedTold ==
  ASSUME NEW c, NEW rs \in Seq(Messages), NEW new \in Seq(Messages), NEW w, NEW d, NEW e,
         Served(c, rs, w, d), w[Query] = Docs => Run(new, Existing(d), Existing(e))
  PROVE  Served(c, rs \o new, w, e)
<1>1. CASE Query \notin c.resets /\ Requested(c.requests, c.token[Query])
  BY <1>1 DEF Served
<1>2. CASE Query \notin c.resets /\ Watching(c, rs, w, d)
  <2>1. w[Query] = Docs
    BY <1>2 DEF Watching
  <2>2. Watching(c, rs \o new, w, e)
    BY <1>2, <2>1, WatchingOn
  <2>3. QED
    BY <1>2, <2>2 DEF Served
<1>3. CASE Query \in c.resets /\ Mismatched(c, rs)
  <2>1. Mismatched(c, rs \o new)
    BY <1>3, MismatchedOn
  <2>2. QED
    BY <1>3, <2>1 DEF Served
<1>4. QED
  BY <1>1, <1>2, <1>3 DEF Served

LEMMA ToldResumes ==
  ASSUME IInv, RInv, NEW new \in Seq(Messages), responses' = responses \o new,
         UNCHANGED <<client, watched>>,
         watched[Query] = Docs => Run(new, Existing(db), Existing(db'))
  PROVE  RInv'
<1>1. responses \in Seq(Messages)
  BY Unpacked
<1>2. ASSUME client.open, client.view.up PROVE Served(client, responses', watched, db')
  <2>1. Served(client, responses, watched, db)
    BY <1>2 DEF RInv, Resumes
  <2>2. QED
    BY <1>1, <2>1, ServedTold
<1>3. QED
  BY <1>2 DEF RInv, Resumes

LEMMA ServerSnapshotResumes ==
  ASSUME IInv, RInv, ServerSnapshot
  PROVE  RInv'
<1>1. PICK m : m = Snapshot
  OBVIOUS
<1>2. m \in Messages /\ m.type = "snapshot" /\ m.numbers = db
  BY <1>1, SnapshotType
<1>3. responses' = Append(responses, m) /\ UNCHANGED <<db, watched, client>>
  BY <1>1 DEF ServerSnapshot
<1>4. responses' = responses \o <<m>> /\ <<m>> \in Seq(Messages)
  BY <1>2, <1>3, Unpacked, AppendIsConcat
<1>5. Follow(m, Existing(db), Existing(db)) /\ ~FilterOf(m)
  BY <1>2 DEF Follow, Answers, FilterOf
<1>6. Run(<<m>>, Existing(db), Existing(db))
  BY <1>2, <1>5, ExistingType, RunOne
<1>7. QED
  BY <1>3, <1>4, <1>6, ToldResumes

LEMMA ServerResetResumes ==
  ASSUME IInv, RInv, ServerReset
  PROVE  RInv'
<1> DEFINE m == Message("reset", {Query})
           docs == Documents(Existing(db), TRUE, Query)
           n == Message("current", {Query})
<1>1. responses' = responses \o <<m>> \o docs \o <<n>> /\ UNCHANGED <<db, watched, client>>
  BY DEF ServerReset
<1>2. Existing(db) \in SUBSET Docs
  BY ExistingType
<1>3. docs \in Seq(Messages)
  <2>1. Query < client.next /\ Query \notin DOMAIN client.key
    BY Unpacked, NextType, ClientFields, LimboKeys DEF Query
  <2>2. Known(client, Query, Existing(db))
    BY <2>1 DEF Known
  <2>3. QED
    BY <1>2, <2>2, IdsFinite, DocumentsSaid DEF Said
<1>4. Run(docs, {}, {} \cup Existing(db))
  BY <1>2, RunDocuments
<1>5. /\ m \in Messages /\ m.type = "reset" /\ m.targets = {Query}
      /\ n \in Messages /\ n.type = "current"
  BY IdsFinite DEF Message, Messages, TargetMessages
<1> HIDE DEF m, docs, n
<1>6. Run(<<m>>, Existing(db), {})
  <2>1. Follow(m, Existing(db), {}) /\ ~FilterOf(m)
    BY <1>5 DEF Follow, Answers, FilterOf
  <2>2. QED
    BY <1>2, <1>5, <2>1, RunOne
<1>7. Run(<<n>>, Existing(db), Existing(db))
  <2>1. Follow(n, Existing(db), Existing(db)) /\ ~FilterOf(n)
    BY <1>5 DEF Follow, Answers, FilterOf
  <2>2. QED
    BY <1>2, <1>5, <2>1, RunOne
<1>8. <<m>> \in Seq(Messages) /\ <<n>> \in Seq(Messages) /\ responses \in Seq(Messages)
  BY <1>5, Unpacked
<1>9. PICK x \in Seq(Messages) : x = <<m>> \o docs
  BY <1>3, <1>8, ConcatProperties
<1>10. PICK y \in Seq(Messages) : y = x \o <<n>>
  BY <1>8, <1>9, ConcatProperties
<1>11. Run(x, Existing(db), Existing(db))
  <2>1. {} \cup Existing(db) = Existing(db)
    OBVIOUS
  <2>2. QED
    BY <1>3, <1>4, <1>6, <1>8, <1>9, <2>1, RunOn
<1>12. Run(y, Existing(db), Existing(db))
  BY <1>7, <1>8, <1>9, <1>10, <1>11, RunOn
<1>13. responses' = responses \o y
  <2>1. PICK u, v : u = <<m>> /\ v = <<n>>
    OBVIOUS
  <2>2. (responses \o u) \o docs = responses \o x
    <3>1. Associates(responses, u, docs)
      BY <1>3, <1>8, <2>1, Associated
    <3>2. QED
      BY <1>9, <2>1, <3>1, Zenon DEF Associates
  <2>3. (responses \o x) \o v = responses \o y
    <3>1. Associates(responses, x, v)
      BY <1>8, <2>1, Associated
    <3>2. QED
      BY <1>10, <2>1, <3>1, Zenon DEF Associates
  <2>4. QED
    BY <1>1, <2>1, <2>2, <2>3, Zenon
<1>14. QED
  BY <1>1, <1>10, <1>12, <1>13, ToldResumes

LEMMA ServerChangeResumes ==
  ASSUME IInv, RInv, NEW k \in Docs, ServerChange(k)
  PROVE  RInv'
<1> DEFINE ts == {t \in Ids : k \in watched[t]}
<1>1. /\ db' = [db EXCEPT ![k] = @ + 1] /\ UNCHANGED <<watched, client>>
      /\ responses' = IF ts = {} THEN responses ELSE Append(responses, Document(k, k \notin Existing(db), ts))
  BY DEF ServerChange
<1>2. /\ db \in [Docs -> Nat] /\ responses \in Seq(Messages)
      /\ watched[Query] = Docs => Query \in ts
  BY DbType, Unpacked, WatchAssumption, IdsFinite
<1>3. Existing(db') = IF k \notin Existing(db) THEN Existing(db) \cup {k} ELSE Existing(db) \ {k}
  <2>1. db'[k] = db[k] + 1 /\ db[k] \in Nat /\ \A j \in Docs : j # k => db'[j] = db[j]
    BY <1>1, <1>2
  <2>2. db'[k] % 2 = 1 <=> db[k] % 2 # 1
    BY <2>1
  <2>3. QED
    BY <2>1, <2>2 DEF Existing
<1>4. CASE ts = {}
  <2>1. responses' = responses /\ watched[Query] # Docs
    BY <1>1, <1>2, <1>4
  <2>2. ASSUME client.open, client.view.up PROVE Served(client, responses, watched, db')
    <3>1. Served(client, responses, watched, db)
      BY <2>2 DEF RInv, Resumes
    <3>2. QED
      BY <2>1, <3>1 DEF Served, Watching
  <2>3. QED
    BY <1>1, <2>1, <2>2 DEF RInv, Resumes
<1>5. CASE ts # {}
  <2>1. ts \in SUBSET Ids
    OBVIOUS
  <2> HIDE DEF ts
  <2>2. PICK f \in BOOLEAN : f = (k \notin Existing(db))
    OBVIOUS
  <2>3. PICK m : m = [type |-> "document", targets |-> ts, key |-> k, found |-> f]
    OBVIOUS
  <2>4. m = Document(k, k \notin Existing(db), ts)
    BY <2>2, <2>3 DEF Document
  <2>5. m \in Messages /\ m.type = "document" /\ m.targets = ts /\ m.key = k /\ m.found = f
    BY <2>1, <2>3 DEF Messages, DocumentMessages
  <2>6. responses' = responses \o <<m>> /\ <<m>> \in Seq(Messages)
    BY <1>1, <1>2, <1>5, <2>4, <2>5, AppendIsConcat
  <2>7. ASSUME watched[Query] = Docs PROVE Run(<<m>>, Existing(db), Existing(db'))
    <3>1. Follow(m, Existing(db), Existing(db')) /\ ~FilterOf(m)
      BY <1>2, <1>3, <2>2, <2>5, <2>7 DEF Follow, Answers, FilterOf
    <3>2. QED
      BY <2>5, <3>1, ExistingType, RunOne
  <2>8. QED
    BY <1>1, <2>6, <2>7, ToldResumes
<1>6. QED
  BY <1>4, <1>5

(* What follows an accepted watch request of the query takes the keys of   *)
(* its token to those of the server.                                       *)
DocumentsOf(ms, t) == \A i \in 1 .. Len(ms) : ms[i].type = "document" /\ ms[i].targets = {t}

LEMMA DocumentsAre ==
  ASSUME NEW ks \in SUBSET Docs, NEW t \in Ids, NEW found \in BOOLEAN,
         NEW ms, ms = Documents(ks, found, t)
  PROVE  ms \in Seq(Messages) /\ DocumentsOf(ms, t)
<1>1. PICK n \in Nat : n = Cardinality(ks)
  BY WatchAssumption, FS_Subset, FS_CardinalityType
<1>2. PICK o : o = SetToSeq(ks)
  OBVIOUS
<1>3. o \in Seq(ks) /\ Len(o) = n
  BY <1>1, <1>2, WatchAssumption, FS_Subset, OrderOf
<1>4. \A i \in 1 .. n : o[i] \in ks
  BY <1>3, ElementOfSeq
<1>5. ms = [i \in 1 .. n |-> Document(o[i], found, {t})]
  BY <1>1, <1>2 DEF Documents
<1>6. ASSUME NEW i \in 1 .. n
      PROVE  ms[i] \in Messages /\ ms[i].type = "document" /\ ms[i].targets = {t}
  <2>1. ms[i] = [type |-> "document", targets |-> {t}, key |-> o[i], found |-> found]
    BY <1>5 DEF Document
  <2>2. ms[i] \in DocumentMessages
    BY <1>4, <2>1 DEF DocumentMessages
  <2>3. QED
    BY <2>1, <2>2 DEF Messages
<1>7. ms \in Seq(Messages) /\ Len(ms) = n
  <2>1. ms = [i \in 1 .. n |-> ms[i]]
    BY <1>5
  <2>2. ms \in [1 .. n -> Messages]
    BY <1>6, <2>1
  <2>3. QED
    BY <2>2
<1>8. QED
  BY <1>6, <1>7 DEF DocumentsOf

FiltersFor(f, t, docs, b) ==
  f.type = "filter" /\ f.targets = {t} /\ f.count = Cardinality(docs) /\ f.bloom = b

LEMMA FilterIs ==
  ASSUME NEW t \in Ids, NEW docs \in SUBSET Docs, NEW b \in SUBSET Docs, NEW f, f = Filter(t, docs, b)
  PROVE  f \in Messages /\ FiltersFor(f, t, docs, b)
<1>1. Cardinality(docs) \in Nat
  BY WatchAssumption, FS_Subset, FS_CardinalityType
<1>2. f \in FilterMessages
  BY <1>1 DEF Filter, FilterMessages
<1>3. QED
  BY <1>2 DEF Filter, Messages, FiltersFor

(* What is new to the token s goes with, and what is gone.                 *)
Renews(s, new, gone) ==
  /\ new \in SUBSET Docs /\ gone \in SUBSET Docs
  /\ gone = s \ Existing(db) /\ new \subseteq Existing(db) /\ Existing(db) \subseteq s \cup new

(* The messages of Initial.                                                *)
Tells(ms, t, docs, new, gone) ==
  \/ ms = Documents(new, TRUE, t) \o Documents(gone, FALSE, t)
  \/ \E b \in SUBSET Docs : docs \subseteq b /\ ms = Documents(new, TRUE, t) \o <<Filter(t, docs, b)>>

LEMMA InitialTells ==
  ASSUME NEW r \in Requests, NEW ms \in Initial(r)
  PROVE  \E docs, new, gone \in SUBSET Docs : Tells(ms, r.target, docs, new, gone)
<1> DEFINE known == IF r.token = << >> THEN [k \in Docs |-> 0] ELSE r.token[1]
           docs == Existing(db) \cap r.of
           gone == (Existing(known) \cap r.of) \ docs
           new == {k \in docs : db[k] # known[k]}
<1>1. docs \in SUBSET Docs /\ gone \in SUBSET Docs /\ new \in SUBSET Docs
  BY DEF Existing
<1>2. PICK rest \in {Documents(gone, FALSE, r.target)}
                    \cup {<<Filter(r.target, docs, b)>> : b \in {b \in SUBSET Docs : docs \subseteq b /\ gone # {}}} :
        ms = Documents(new, TRUE, r.target) \o rest
  BY DEF Initial
<1> HIDE DEF docs, gone, new
<1>3. Tells(ms, r.target, docs, new, gone)
  BY <1>2 DEF Tells
<1>4. QED
  BY <1>1, <1>3

LEMMA InitialRenews ==
  ASSUME NEW r \in Requests, NEW token, Rewatches(r, token), NEW s, GoesWith(token, s), NEW ms \in Initial(r)
  PROVE  \E new, gone : Renews(s, new, gone) /\ Tells(ms, Query, Existing(db), new, gone)
<1> DEFINE known == IF r.token = << >> THEN [k \in Docs |-> 0] ELSE r.token[1]
           docs == Existing(db) \cap r.of
           gone == (Existing(known) \cap r.of) \ docs
           new == {k \in docs : db[k] # known[k]}
<1>1. r.of = Docs /\ r.target = Query /\ r.token = token
  BY DEF Rewatches
<1>2. docs = Existing(db)
  BY <1>1 DEF Existing
<1>3. Existing(known) = s /\ s \in SUBSET Docs
  <2>1. CASE token = << >>
    BY <1>1, <2>1 DEF GoesWith, Existing
  <2>2. CASE token # << >>
    BY <1>1, <2>2 DEF GoesWith, Existing
  <2>3. QED
    BY <2>1, <2>2
<1>4. gone = s \ Existing(db)
  BY <1>1, <1>2, <1>3
<1>5. Existing(db) \subseteq s \cup new
  <2> SUFFICES ASSUME NEW k \in Existing(db), k \notin new PROVE k \in s
    OBVIOUS
  <2> HIDE DEF known
  <2>1. db[k] = known[k]
    BY <1>2
  <2>2. k \in Existing(known)
    BY <2>1 DEF Existing
  <2>3. QED
    BY <1>3, <2>2
<1>6. new \in SUBSET Docs /\ gone \in SUBSET Docs /\ new \subseteq Existing(db)
  BY <1>2, <1>3, <1>4 DEF Existing
<1>7. PICK rest \in {Documents(gone, FALSE, Query)}
                    \cup {<<Filter(Query, docs, b)>> : b \in {b \in SUBSET Docs : docs \subseteq b /\ gone # {}}} :
        ms = Documents(new, TRUE, Query) \o rest
  BY <1>1 DEF Initial
<1> HIDE DEF docs, gone, new
<1>8. Renews(s, new, gone)
  BY <1>4, <1>5, <1>6 DEF Renews
<1>9. Tells(ms, Query, docs, new, gone)
  BY <1>7 DEF Tells
<1>10. QED
  BY <1>2, <1>8, <1>9

LEMMA InitialType ==
  ASSUME NEW r \in Requests, NEW ms \in Initial(r)
  PROVE  ms \in Seq(Messages)
<1>1. PICK t \in Ids : t = r.target
  BY DEF Requests
<1>2. PICK docs \in SUBSET Docs, new \in SUBSET Docs, gone \in SUBSET Docs : Tells(ms, t, docs, new, gone)
  BY <1>1, InitialTells
<1>3. Documents(new, TRUE, t) \in Seq(Messages) /\ Documents(gone, FALSE, t) \in Seq(Messages)
  BY DocumentsAre
<1>4. ASSUME NEW b PROVE b \in SUBSET Docs => <<Filter(t, docs, b)>> \in Seq(Messages)
  <2>1. PICK f : f = Filter(t, docs, b)
    OBVIOUS
  <2>2. b \in SUBSET Docs => f \in Messages
    BY <2>1, FilterIs
  <2>3. QED
    BY <2>1, <2>2
<1>5. QED
  BY <1>2, <1>3, <1>4, ConcatProperties DEF Tells

LEMMA EndingRuns ==
  ASSUME IInv, NEW initial
  PROVE  Ending(initial) \in Seq(Messages) /\ Run(Ending(initial), Existing(db), Existing(db))
<1>1. PICK m : m = Snapshot
  OBVIOUS
<1>2. m \in Messages /\ m.type = "snapshot" /\ m.numbers = db
  BY <1>1, SnapshotType
<1>3. Follow(m, Existing(db), Existing(db)) /\ ~FilterOf(m)
  BY <1>2 DEF Follow, Answers, FilterOf
<1>4. <<m>> \in Seq(Messages) /\ Run(<<m>>, Existing(db), Existing(db))
  BY <1>2, <1>3, ExistingType, RunOne
<1>5. << >> \in Seq(Messages) /\ Run(<< >>, Existing(db), Existing(db))
  <2>1. PICK x \in Seq(Messages) : x = << >> /\ Len(x) = 0
    BY EmptySeq
  <2>a. PICK A \in SUBSET Docs : A = Existing(db)
    BY ExistingType
  <2>b. \A i \in 1 .. Len(x) : Follow(x[i], A, A) /\ ~FilterOf(x[i])
    BY <2>1
  <2>2. Run(x, Existing(db), Existing(db))
    BY <2>a, <2>b, RunOthers
  <2>3. QED
    BY <2>1, <2>2
<1>6. Ending(initial) = <<m>> \/ Ending(initial) = << >>
  BY <1>1 DEF Ending
<1>7. QED
  BY <1>4, <1>5, <1>6, Zenon

LEMMA DeletionsLead ==
  ASSUME IInv, NEW s \in SUBSET Docs, NEW new, NEW gone, Renews(s, new, gone),
         NEW ms, ms = Documents(new, TRUE, Query) \o Documents(gone, FALSE, Query),
         NEW cur \in Messages, cur.type = "current"
  PROVE  Leads((ms \o <<cur>>) \o Ending(ms), s, s, db)
<1>1. PICK A \in SUBSET Docs : A = Existing(db)
  BY ExistingType
<1>2. /\ new \in SUBSET Docs /\ gone \in SUBSET Docs /\ s \cup new \in SUBSET Docs
      /\ (s \cup new) \ gone = A
  BY <1>1 DEF Renews
<1>3. PICK x, y : x = Documents(new, TRUE, Query) /\ y = Documents(gone, FALSE, Query)
  OBVIOUS
<1>4. x \in Seq(Messages) /\ y \in Seq(Messages)
  BY <1>2, <1>3, IdsFinite, DocumentsAre
<1>5. Run(x, s, s \cup new)
  BY <1>2, <1>3, RunDocuments
<1>6. Run(y, s \cup new, A)
  <2>1. PICK z \in SUBSET Docs : z = s \cup new
    BY <1>2
  <2>2. Run(y, z, z \ gone)
    BY <1>2, <1>3, <2>1, RunDocuments
  <2>3. QED
    BY <1>2, <2>1, <2>2
<1>7. ms \in Seq(Messages) /\ Run(ms, s, A)
  BY <1>3, <1>4, <1>5, <1>6, RunOn, ConcatProperties
<1>8. <<cur>> \in Seq(Messages) /\ Run(<<cur>>, A, A)
  <2>1. Follow(cur, A, A) /\ ~FilterOf(cur)
    BY DEF Follow, Answers, FilterOf
  <2>2. QED
    BY <2>1, RunOne
<1>9. PICK q : q = ms \o <<cur>>
  OBVIOUS
<1>10. q \in Seq(Messages) /\ Run(q, s, A)
  BY <1>7, <1>8, <1>9, RunOn, ConcatProperties
<1>11. PICK z : z = Ending(ms)
  OBVIOUS
<1>12. z \in Seq(Messages) /\ Run(z, A, A)
  BY <1>1, <1>11, EndingRuns
<1>13. PICK p : p = q \o z
  OBVIOUS
<1>14. p \in Seq(Messages) /\ Run(p, s, Existing(db))
  BY <1>1, <1>10, <1>12, <1>13, RunOn, ConcatProperties
<1>15. Leads(p, s, s, db)
  BY <1>14, RunLeads
<1>16. QED
  BY <1>9, <1>11, <1>13, <1>15

LEMMA ThreeInOne ==
  ASSUME NEW a \in Messages, NEW b \in Messages, NEW c \in Messages
  PROVE  (<<a>> \o <<b>>) \o <<c>> = <<a, b, c>>
<1>1. <<a>> \in Seq(Messages) /\ <<a, b>> \in Seq(Messages)
  OBVIOUS
<1>2. Append(<<a>>, b) = <<a>> \o <<b>> /\ Append(<<a, b>>, c) = <<a, b>> \o <<c>>
  BY <1>1, AppendIsConcat
<1>3. Append(<<a>>, b) = <<a, b>>
  <2>1. PICK x, y : x = Append(<<a>>, b) /\ y = <<a, b>>
    OBVIOUS
  <2>2. /\ x \in Seq(Messages) /\ Len(x) = 2 /\ x[1] = a /\ x[2] = b
        /\ y \in Seq(Messages) /\ Len(y) = 2 /\ y[1] = a /\ y[2] = b
    BY <1>1, <2>1
  <2>3. \A i \in 1 .. 2 : x[i] = y[i]
    BY <2>2
  <2>4. x = y
    BY <2>2, <2>3, SeqEqual
  <2>5. QED
    BY <2>1, <2>4
<1>4. Append(<<a, b>>, c) = <<a, b, c>>
  <2>1. PICK x, y : x = Append(<<a, b>>, c) /\ y = <<a, b, c>>
    OBVIOUS
  <2>2. /\ x \in Seq(Messages) /\ Len(x) = 3 /\ x[1] = a /\ x[2] = b /\ x[3] = c
        /\ y \in Seq(Messages) /\ Len(y) = 3 /\ y[1] = a /\ y[2] = b /\ y[3] = c
    BY <1>1, <2>1
  <2>3. \A i \in 1 .. 3 : x[i] = y[i]
    BY <2>2
  <2>4. x = y
    BY <2>2, <2>3, SeqEqual
  <2>5. QED
    BY <2>1, <2>4
<1>5. QED
  BY <1>2, <1>3, <1>4, Zenon

Holds(ms, f) == \E i \in DOMAIN ms : ms[i] = f

LEMMA LastOf ==
  ASSUME NEW x \in Seq(Messages), NEW f \in Messages, NEW u, u = <<f>>
  PROVE  Holds(x \o u, f)
<1>1. PICK ms : ms = x \o u
  OBVIOUS
<1>2. u \in Seq(Messages) /\ Len(u) = 1 /\ u[1] = f
  OBVIOUS
<1>3. PICK l \in Nat : l = Len(x)
  BY LenProperties
<1>4. ms \in Seq(Messages) /\ Len(ms) = l + 1 /\ \A i \in 1 .. l + 1 : ms[i] = IF i =< l THEN x[i] ELSE u[i - l]
  BY <1>1, <1>2, <1>3, ConcatProperties
<1>5. l + 1 \in DOMAIN ms /\ ms[l + 1] = f
  BY <1>2, <1>3, <1>4, LenProperties
<1>6. QED
  BY <1>1, <1>5 DEF Holds

LEMMA FilterLeads ==
  ASSUME IInv, ~LateSnapshots, NEW s \in SUBSET Docs, NEW new, NEW gone, Renews(s, new, gone),
         NEW b \in SUBSET Docs, Existing(db) \subseteq b,
         NEW ms, ms = Documents(new, TRUE, Query) \o <<Filter(Query, Existing(db), b)>>,
         NEW cur \in Messages, cur.type = "current"
  PROVE  Leads((ms \o <<cur>>) \o Ending(ms), s, s, db)
<1>1. PICK A \in SUBSET Docs : A = Existing(db)
  BY ExistingType
<1>2. /\ new \in SUBSET Docs /\ s \cup new \in SUBSET Docs
      /\ A \subseteq s \cup new /\ (s \cup new) \ A \subseteq s
  BY <1>1 DEF Renews
<1>a. PICK x : x = Documents(new, TRUE, Query)
  OBVIOUS
<1>b. PICK f : f = Filter(Query, A, b)
  OBVIOUS
<1>3. x = Documents(new, TRUE, Query) /\ f = Filter(Query, A, b) /\ Query \in Ids
  BY <1>a, <1>b, IdsFinite
<1>4. /\ x \in Seq(Messages)
      /\ \A i \in 1 .. Len(x) : x[i].type = "document" /\ x[i].targets = {Query}
  <2>1. x \in Seq(Messages) /\ DocumentsOf(x, Query)
    BY <1>2, <1>3, DocumentsAre
  <2>2. QED
    BY <2>1 DEF DocumentsOf
<1>5. f \in Messages /\ f.type = "filter" /\ f.targets = {Query} /\ f.count = Cardinality(A) /\ f.bloom = b
  <2>1. f \in Messages /\ FiltersFor(f, Query, A, b)
    BY <1>3, FilterIs
  <2>2. QED
    BY <2>1 DEF FiltersFor
<1>6. PICK snap : snap = Snapshot
  OBVIOUS
<1>7. snap \in Messages /\ snap.type = "snapshot" /\ snap.numbers = db
  BY <1>6, SnapshotType
<1>8. Run(x, s, s \cup new)
  BY <1>2, <1>3, RunDocuments
<1>9. Leads(<<f, cur, snap>>, s, s \cup new, db)
  <2>1. PICK z \in SUBSET Docs : z = s \cup new
    BY <1>2
  <2>2. FilterOf(f) /\ Follow(f, z, Existing(db))
    BY <1>1, <1>2, <1>5, <2>1 DEF FilterOf, Follow, Answers
  <2>3. z \ Existing(db) \subseteq s /\ s \subseteq z
    BY <1>1, <1>2, <2>1
  <2>4. Leads(<<f, cur, snap>>, s, z, db)
    BY <1>5, <1>7, <2>2, <2>3, LeadsFilter
  <2>5. QED
    BY <2>1, <2>4
<1>c. PICK y : y = <<f, cur, snap>>
  OBVIOUS
<1>10. PICK z \in Seq(Messages) : z = y
  <2>1. DOMAIN y = 1 .. 3 /\ y[1] = f /\ y[2] = cur /\ y[3] = snap /\ y = [i \in 1 .. 3 |-> y[i]]
    BY <1>c
  <2>2. \A i \in 1 .. 3 : y[i] \in Messages
    BY <1>5, <1>7, <2>1
  <2>3. y \in [1 .. 3 -> Messages]
    BY <2>1, <2>2
  <2>4. QED
    BY <2>3
<1>11. Leads(x \o z, s, s, db)
  <2>1. \A i \in 1 .. Len(x) : x[i].type # "snapshot"
    BY <1>4
  <2>2. Leads(z, s, s \cup new, db)
    BY <1>9, <1>c, <1>10
  <2>3. QED
    BY <1>4, <1>8, <1>10, <2>1, <2>2, LeadsAfter
<1>12. Ending(ms) = <<snap>>
  <2>1. ms = x \o <<f>>
    BY <1>1, <1>3
  <2>a. PICK u : u = <<f>>
    OBVIOUS
  <2>b. Holds(x \o u, f)
    BY <1>4, <1>5, <2>a, LastOf
  <2>2. PICK i \in DOMAIN ms : ms[i] = f
    BY <2>1, <2>a, <2>b DEF Holds
  <2>3. QED
    BY <1>5, <1>6, <2>2 DEF Ending
<1>13. (ms \o <<cur>>) \o <<snap>> = x \o z
  <2>a. PICK u, v, w : u = <<f>> /\ v = <<cur>> /\ w = <<snap>>
    OBVIOUS
  <2>1. /\ u \in Seq(Messages) /\ v \in Seq(Messages) /\ w \in Seq(Messages)
        /\ u = <<f>> /\ v = <<cur>> /\ w = <<snap>>
    BY <1>5, <1>7, <2>a
  <2>2. ms = x \o u
    BY <1>1, <1>3, <2>1
  <2>3. Regroups(x, u, v, w)
    BY <1>4, <2>1, Regrouped
  <2>4. (u \o v) \o w = z
    BY <1>5, <1>7, <1>c, <1>10, <2>a, ThreeInOne
  <2>5. QED
    BY <2>1, <2>2, <2>3, <2>4, Zenon DEF Regroups
<1>14. QED
  BY <1>11, <1>12, <1>13

LEMMA InitialLeads ==
  ASSUME IInv, ~LateSnapshots, NEW r \in Requests, NEW token, Rewatches(r, token),
         NEW s \in SUBSET Docs, GoesWith(token, s), NEW ms \in Initial(r),
         NEW cur \in Messages, cur.type = "current"
  PROVE  Leads((ms \o <<cur>>) \o Ending(ms), s, s, db)
<1>1. PICK new, gone : Renews(s, new, gone) /\ Tells(ms, Query, Existing(db), new, gone)
  BY InitialRenews
<1>2. CASE ms = Documents(new, TRUE, Query) \o Documents(gone, FALSE, Query)
  BY <1>1, <1>2, DeletionsLead
<1>3. ASSUME NEW b \in SUBSET Docs, Existing(db) \subseteq b,
             ms = Documents(new, TRUE, Query) \o <<Filter(Query, Existing(db), b)>>
      PROVE  Leads((ms \o <<cur>>) \o Ending(ms), s, s, db)
  BY <1>1, <1>3, FilterLeads
<1>4. QED
  BY <1>1, <1>2, <1>3 DEF Tells

(* What is about another target takes the query's keys nowhere.            *)
LEMMA OtherFollows ==
  ASSUME NEW m \in Messages, NEW t \in Ids, t # Query, m.targets = {t}, m.type # "snapshot", NEW A
  PROVE  Follow(m, A, A) /\ ~FilterOf(m)
<1>1. m.targets # {Query} /\ Query \notin m.targets
  OBVIOUS
<1>2. QED
  BY <1>1 DEF Follow, FilterOf, Answers

LEMMA OtherDocuments ==
  ASSUME NEW ks \in SUBSET Docs, NEW t \in Ids, t # Query, NEW found \in BOOLEAN, NEW A \in SUBSET Docs
  PROVE  Documents(ks, found, t) \in Seq(Messages) /\ Run(Documents(ks, found, t), A, A)
<1>1. PICK ms : ms = Documents(ks, found, t)
  OBVIOUS
<1>2. ms \in Seq(Messages) /\ DocumentsOf(ms, t)
  BY <1>1, DocumentsAre
<1>3. ASSUME NEW i \in 1 .. Len(ms) PROVE Follow(ms[i], A, A) /\ ~FilterOf(ms[i])
  <2>1. ms[i] \in Messages /\ ms[i].type = "document" /\ ms[i].targets = {t}
    BY <1>2, ElementOfSeq DEF DocumentsOf
  <2>2. QED
    BY <2>1, OtherFollows
<1>4. QED
  BY <1>1, <1>2, <1>3, RunOthers

LEMMA OtherInitial ==
  ASSUME NEW r \in Requests, r.target # Query, NEW ms \in Initial(r), NEW A \in SUBSET Docs
  PROVE  ms \in Seq(Messages) /\ Run(ms, A, A)
<1>1. PICK t \in Ids : t = r.target
  BY DEF Requests
<1>2. PICK docs \in SUBSET Docs, new \in SUBSET Docs, gone \in SUBSET Docs : Tells(ms, t, docs, new, gone)
  BY <1>1, InitialTells
<1>3. PICK x : x = Documents(new, TRUE, t)
  OBVIOUS
<1>4. x \in Seq(Messages) /\ Run(x, A, A)
  BY <1>1, <1>3, OtherDocuments
<1>5. CASE ms = x \o Documents(gone, FALSE, t)
  <2>1. PICK y : y = Documents(gone, FALSE, t)
    OBVIOUS
  <2>2. y \in Seq(Messages) /\ Run(y, A, A)
    BY <1>1, <2>1, OtherDocuments
  <2>3. QED
    BY <1>4, <1>5, <2>1, <2>2, RunOn, ConcatProperties
<1>6. ASSUME NEW b \in SUBSET Docs, ms = x \o <<Filter(t, docs, b)>>
      PROVE  ms \in Seq(Messages) /\ Run(ms, A, A)
  <2>1. PICK f : f = Filter(t, docs, b)
    OBVIOUS
  <2>2. f \in Messages /\ FiltersFor(f, t, docs, b)
    BY <2>1, FilterIs
  <2>3. Follow(f, A, A) /\ ~FilterOf(f)
    BY <1>1, <2>2, OtherFollows DEF FiltersFor
  <2>4. PICK y : y = <<f>>
    OBVIOUS
  <2>5. y \in Seq(Messages) /\ Run(y, A, A)
    BY <2>2, <2>3, <2>4, RunOne
  <2>6. QED
    BY <1>4, <1>6, <2>1, <2>4, <2>5, RunOn, ConcatProperties
<1>7. QED
  BY <1>2, <1>3, <1>5, <1>6 DEF Tells

(* The server reads a request that is not for the query, or the last that  *)
(* is.                                                                     *)
LEMMA OtherReadServed ==
  ASSUME NEW rs \in Seq(Messages), NEW c, NEW e, NEW w, NEW v, NEW d,
         Served(c, rs, w, d), c.requests \in Seq(Requests), c.requests # << >>,
         Head(c.requests).target # Query, e.requests = Tail(c.requests),
         e.view = c.view, e.state = c.state, e.token = c.token, e.resets = c.resets, v[Query] = w[Query],
         NEW new \in Seq(Messages), Run(new, Existing(d), Existing(d))
  PROVE  Served(e, rs \o new, v, d)
<1>1. Expected(e) = Expected(c)
  BY DEF Expected, Keys
<1>2. CASE Query \notin c.resets /\ Requested(c.requests, c.token[Query])
  <2>1. Requested(e.requests, c.token[Query])
    BY <1>2, RequestRead DEF Rewatches
  <2>2. QED
    BY <1>2, <2>1 DEF Served
<1>3. CASE Query \notin c.resets /\ Watching(c, rs, w, d)
  <2>1. Unrequested(c.requests)
    BY <1>3 DEF Watching
  <2>2. Unrequested(e.requests)
    BY <2>1, RequestRead
  <2>3. Watching(e, rs, v, d)
    BY <1>1, <1>3, <2>2 DEF Watching
  <2>4. Watching(e, rs \o new, v, d)
    BY <2>3, WatchingOn
  <2>5. QED
    BY <1>3, <2>4 DEF Served
<1>4. CASE Query \in c.resets /\ Mismatched(c, rs)
  <2>1. Mismatched(e, rs)
    BY <1>1, <1>4 DEF Mismatched
  <2>2. Mismatched(e, rs \o new)
    BY <2>1, MismatchedOn
  <2>3. QED
    BY <1>4, <2>2 DEF Served
<1>5. QED
  BY <1>2, <1>3, <1>4 DEF Served

(* One that is for the query: a later one decides, or it is watched.       *)
LEMMA QueryRead ==
  ASSUME NEW rs \in Seq(Messages), NEW c, ClientSound(c, rs), NEW w, NEW d, Served(c, rs, w, d),
         c.requests # << >>, Head(c.requests).target = Query
  PROVE  /\ Query \notin c.resets
         /\ \/ Requested(Tail(c.requests), c.token[Query])
            \/ Rewatches(Head(c.requests), c.token[Query]) /\ Unrequested(Tail(c.requests))
<1>1. c.requests \in Seq(Requests)
  BY QueryOwed
<1>2. ~Unrequested(c.requests)
  BY <1>1, RequestRead
<1>3. c.state[Query].due > 0
  <2>1. PICK i \in 1 .. Len(c.requests) : c.requests[i].target = Query
    BY <1>2 DEF Unrequested
  <2>2. QED
    BY <2>1, QueryOwed, DueIsOwed
<1>4. Query \notin c.resets /\ Requested(c.requests, c.token[Query])
  BY <1>2, <1>3, ServedInactive
<1>5. QED
  BY <1>1, <1>4, RequestRead

LEMMA TargetMessage ==
  ASSUME NEW t \in Ids, NEW type \in {"added", "removed", "current", "reset"}, NEW m, m = Message(type, {t})
  PROVE  m \in Messages /\ m.targets = {t} /\ m.type = type
  BY DEF Message, Messages, TargetMessages

LEMMA ServerReadsResumes ==
  ASSUME IInv, RInv, ~LateSnapshots, ServerReads
  PROVE  RInv'
<1> DEFINE r == Head(client.requests)
           t == r.target
<1>1. /\ client.requests # << >> /\ client.requests \in Seq(Requests) /\ client \in Clients
      /\ client' = [client EXCEPT !.requests = Tail(@)] /\ db' = db
      /\ ClientSound(client, responses) /\ responses \in Seq(Messages) /\ watched \in [Ids -> SUBSET Docs]
  BY Unpacked, ClientFields DEF ServerReads, ServerSound
<1>2. r \in Requests /\ t \in Ids
  <2>1. r \in Requests
    BY <1>1, Rest
  <2> HIDE DEF r
  <2>2. QED
    BY <2>1 DEF Requests
<1>3. PICK e : e = client'
  OBVIOUS
<1>4. /\ e.requests = Tail(client.requests) /\ e.view = client.view /\ e.state = client.state
      /\ e.token = client.token /\ e.resets = client.resets /\ e.keys = client.keys
      /\ e.saved = client.saved /\ e.open = client.open
  BY <1>1, <1>3 DEF Clients
<1>5. Stored(client) /\ (~client.open => client.resets = {})
  BY DEF RInv, Resumes
<1>6. Stored(e)
  BY <1>4, <1>5 DEF Stored
<1>7. PICK A \in SUBSET Docs : A = Existing(db)
  BY ExistingType
<1>8. PICK a, cur, rem : a = Message("added", {t}) /\ cur = Message("current", {t}) /\ rem = Message("removed", {t})
  OBVIOUS
<1>9. /\ a \in Messages /\ a.targets = {t} /\ a.type = "added"
      /\ cur \in Messages /\ cur.targets = {t} /\ cur.type = "current"
      /\ rem \in Messages /\ rem.targets = {t} /\ rem.type = "removed"
  <2> HIDE DEF t
  <2>1. QED
    BY <1>2, <1>8, TargetMessage
<1>10. \/ /\ r.op = "watch" /\ watched' = [watched EXCEPT ![t] = r.of]
          /\ \E initial \in Initial(r) :
               responses' = (((responses \o <<a>>) \o initial) \o <<cur>>) \o Ending(initial)
       \/ /\ r.op # "watch" /\ responses' = Append(responses, rem)
          /\ watched' = [watched EXCEPT ![t] = {}]
  BY <1>8 DEF ServerReads
<1> SUFFICES ASSUME client.open, client.view.up PROVE Served(e, responses', watched', db)
  BY <1>1, <1>3, <1>4, <1>5, <1>6 DEF RInv, Resumes
<1>11. Served(client, responses, watched, db)
  BY DEF RInv, Resumes
<1>12. /\ <<a>> \in Seq(Messages) /\ <<cur>> \in Seq(Messages) /\ <<rem>> \in Seq(Messages)
       /\ \A initial : Ending(initial) \in Seq(Messages) /\ Run(Ending(initial), A, A)
  BY <1>7, <1>9, EndingRuns
<1>13. CASE t # Query
  <2>1. watched'[Query] = watched[Query]
    BY <1>1, <1>2, <1>10, <1>13, IdsFinite
  <2>2. Run(<<a>>, A, A) /\ Run(<<cur>>, A, A) /\ Run(<<rem>>, A, A)
    <3> HIDE DEF t
    <3>1. Follow(a, A, A) /\ ~FilterOf(a) /\ Follow(cur, A, A) /\ ~FilterOf(cur) /\ Follow(rem, A, A) /\ ~FilterOf(rem)
      BY <1>2, <1>9, <1>13, OtherFollows
    <3>2. QED
      BY <1>9, <3>1, RunOne
  <2>3. ASSUME NEW new \in Seq(Messages), Run(new, A, A), responses' = responses \o new
        PROVE  Served(e, responses', watched', db)
    BY <1>1, <1>4, <1>7, <1>11, <1>13, <2>1, <2>3, OtherReadServed
  <2>4. ASSUME NEW initial \in Initial(r),
               responses' = (((responses \o <<a>>) \o initial) \o <<cur>>) \o Ending(initial)
        PROVE  Served(e, responses', watched', db)
    <3>1. initial \in Seq(Messages) /\ Run(initial, A, A)
      BY <1>2, <1>13, <2>4, OtherInitial
    <3>2. PICK p : p = <<a>> \o initial
      OBVIOUS
    <3>3. p \in Seq(Messages) /\ Run(p, A, A)
      BY <1>12, <2>2, <3>1, <3>2, RunOn, ConcatProperties
    <3>4. PICK q : q = p \o <<cur>>
      OBVIOUS
    <3>5. q \in Seq(Messages) /\ Run(q, A, A)
      BY <1>12, <2>2, <3>3, <3>4, RunOn, ConcatProperties
    <3>6. PICK z : z = Ending(initial)
      OBVIOUS
    <3>7. z \in Seq(Messages) /\ Run(z, A, A)
      BY <1>12, <3>6
    <3>8. PICK new : new = q \o z
      OBVIOUS
    <3>9. new \in Seq(Messages) /\ Run(new, A, A)
      BY <3>5, <3>7, <3>8, RunOn, ConcatProperties
    <3>10. (responses \o <<a>>) \o initial = responses \o p
      <4>1. PICK u : u = <<a>>
        OBVIOUS
      <4>2. u \in Seq(Messages) /\ responses \in Seq(Messages)
        BY <1>1, <1>12, <4>1
      <4>3. Associates(responses, u, initial)
        BY <3>1, <4>2, Associated
      <4>4. QED
        BY <3>2, <4>1, <4>3, Zenon DEF Associates
    <3>11. ((responses \o p) \o <<cur>>) \o z = responses \o new
      <4>1. PICK v : v = <<cur>>
        OBVIOUS
      <4>2. v \in Seq(Messages) /\ new = (p \o v) \o z
        BY <1>12, <3>4, <3>8, <4>1
      <4>3. ((responses \o p) \o v) \o z = responses \o ((p \o v) \o z)
        <5>1. responses \in Seq(Messages) /\ v \in Seq(Messages)
          BY <1>1, <4>2
        <5>2. Regroups(responses, p, v, z)
          BY <3>3, <3>7, <5>1, Regrouped
        <5>3. QED
          BY <5>2, Zenon DEF Regroups
      <4>4. QED
        BY <4>1, <4>2, <4>3, Zenon
    <3>12. responses' = responses \o new
      BY <2>4, <3>6, <3>10, <3>11, Zenon
    <3>13. QED
      BY <2>3, <3>9, <3>12
  <2>5. CASE responses' = Append(responses, rem)
    <3>1. responses' = responses \o <<rem>>
      BY <1>1, <1>9, <2>5, AppendIsConcat
    <3>2. QED
      BY <1>12, <2>2, <2>3, <3>1
  <2>6. QED
    BY <1>10, <2>4, <2>5
<1>14. CASE t = Query
  <2>1. /\ Query \notin client.resets
        /\ \/ Requested(Tail(client.requests), client.token[Query])
           \/ Rewatches(r, client.token[Query]) /\ Unrequested(Tail(client.requests))
    BY <1>1, <1>11, <1>14, QueryRead
  <2>2. CASE Requested(Tail(client.requests), client.token[Query])
    BY <1>4, <2>1, <2>2 DEF Served
  <2>3. CASE Rewatches(r, client.token[Query]) /\ Unrequested(Tail(client.requests))
    <3>1. r.op = "watch" /\ r.of = Docs
      BY <2>3 DEF Rewatches
    <3>2. PICK initial \in Initial(r) :
            responses' = (((responses \o <<a>>) \o initial) \o <<cur>>) \o Ending(initial)
      BY <1>10, <3>1
    <3>3. watched'[Query] = Docs
      BY <1>1, <1>10, <1>14, <3>1, IdsFinite
    <3>4. PICK s \in SUBSET Docs : s = client.view.synced
      BY <1>1, QueryKeys
    <3>5. GoesWith(client.token[Query], s)
      BY <1>5, <3>4 DEF Stored
    <3>6. Leads((initial \o <<cur>>) \o Ending(initial), s, s, db)
      BY <1>2, <1>9, <2>3, <3>5, InitialLeads
    <3>7. initial \in Seq(Messages)
      BY <1>2, <3>2, InitialType
    <3>8. PICK b : b = (initial \o <<cur>>) \o Ending(initial)
      OBVIOUS
    <3>9. b \in Seq(Messages)
      BY <1>12, <3>7, <3>8, ConcatProperties
    <3>10. responses' = (responses \o <<a>>) \o b
      <4>1. PICK q : q = responses \o <<a>>
        OBVIOUS
      <4>2. q \in Seq(Messages)
        BY <1>1, <1>12, <4>1, ConcatProperties
      <4>a. PICK v, z : v = <<cur>> /\ z = Ending(initial)
        OBVIOUS
      <4>b. v \in Seq(Messages) /\ z \in Seq(Messages) /\ b = (initial \o v) \o z
        BY <1>12, <3>8, <4>a
      <4>c. ((q \o initial) \o v) \o z = q \o ((initial \o v) \o z)
        <5>1. v \in Seq(Messages) /\ z \in Seq(Messages)
          BY <4>b
        <5>2. Regroups(q, initial, v, z)
          BY <3>7, <4>2, <5>1, Regrouped
        <5>3. QED
          BY <5>2, Zenon DEF Regroups
      <4>3. ((q \o initial) \o <<cur>>) \o Ending(initial) = q \o b
        BY <4>a, <4>b, <4>c, Zenon
      <4>4. QED
        BY <3>2, <4>1, <4>3, Zenon
    <3>11. Answers(a, Query)
      BY <1>9, <1>14 DEF Answers
    <3>12. LeadsLater(responses', s, db)
      BY <1>1, <1>9, <3>6, <3>8, <3>9, <3>10, <3>11 DEF LeadsLater
    <3>13. Watching(e, responses', watched', db)
      BY <1>4, <2>3, <3>3, <3>4, <3>12 DEF Watching
    <3>14. QED
      BY <1>4, <2>1, <3>13 DEF Served
  <2>4. QED
    BY <2>1, <2>2, <2>3
<1>15. QED
  BY <1>13, <1>14

LEMMA InitRInv == Init => RInv
<1> SUFFICES ASSUME Init PROVE RInv
  OBVIOUS
<1>1. client = Started({}, {}, << >>)
  BY DEF Init
<1>2. GoesWith(<< >>, {})
  BY DEF GoesWith
<1>3. QED
  BY <1>1, <1>2, StartedResumes DEF RInv

LEMMA NextRInv ==
  ASSUME ~ReturnsDuringReset, ~LateSnapshots
  PROVE  IInv /\ RInv /\ [Next]_vars => RInv'
<1> SUFFICES ASSUME IInv, RInv, [Next]_vars PROVE RInv'
  OBVIOUS
<1>1. CASE ServerReads
  BY <1>1, ServerReadsResumes
<1>2. CASE ServerReset
  BY <1>2, ServerResetResumes
<1>3. CASE ServerSnapshot
  BY <1>3, ServerSnapshotResumes
<1>4. ASSUME NEW k \in Docs, ServerChange(k) PROVE RInv'
  BY <1>4, ServerChangeResumes
<1>5. CASE OnWatchStreamChange
  BY <1>5, OnWatchStreamChangeResumes
<1>6. CASE OnWatchStreamClose
  BY <1>6, OnWatchStreamCloseResumes
<1>7. CASE OnWatchStreamOpen
  BY <1>7, OnWatchStreamOpenResumes
<1>8. CASE ApplyOnlineStateChange
  BY <1>8, ApplyOnlineStateChangeResumes
<1>9. CASE OpenPage
  BY <1>9, OpenPageResumes
<1>10. CASE ClosePage
  BY <1>10, ClosePageResumes
<1>11. CASE Kill
  BY <1>11, KillResumes
<1>12. CASE UNCHANGED vars
  BY <1>12 DEF vars, RInv
<1>13. QED
  BY <1>1, <1>2, <1>3, <1>4, <1>5, <1>6, <1>7, <1>8, <1>9, <1>10, <1>11, <1>12 DEF Next

(* ResumeIsSound: the matching keys of the view go with the resume token   *)
(* the query is watched with, those on disk with the token saved with      *)
(* them, whatever filters replaced deletions, streams broke, tokens stayed *)
(* unsaved, pages left and came back and the app was killed (RaiseWatch-   *)
(* Snapshot, ApplyRemoteEvent, ShouldPersistTargetData, ReleaseTarget,     *)
(* OnWatchStreamOpen).  It needs a page that does not come back between a  *)
(* filter's mismatch and the next snapshot, and no document changed there. *)
THEOREM ResumeSound ==
  ASSUME ~ReturnsDuringReset, ~LateSnapshots
  PROVE  Spec => []ResumeIsSound
<1>1. RInv => ResumeIsSound
  BY DEF RInv, Resumes, Stored, GoesWith, ResumeIsSound
<1>2. IInv /\ RInv /\ [Next]_vars => RInv'
  BY NextRInv
<1>3. QED
  BY <1>1, <1>2, InitRInv, SpecIInv, PTL DEF Spec

=============================================================================
