------------------------ MODULE FirestoreClientProofs ------------------------
(***************************************************************************)
(* What the client's operators compute, for any documents, any values and  *)
(* any length of the write queue.  The lemmas about View say that the two  *)
(* writes it is defined by are all that a replay of the queue depends on:  *)
(* appending a write to the queue applies it to the view, and moving the   *)
(* oldest write into the cache leaves the view as it was.                  *)
(***************************************************************************)
EXTENDS FirestoreClient, SequenceTheorems, WellFoundedInduction, TLAPS

-----------------------------------------------------------------------------
(* Induction up to a number, as a fact about sets.                         *)

(* A set of naturals has a least element.                                  *)
LEMMA LeastElement ==
  ASSUME NEW T, T \subseteq Nat, T # {}
  PROVE  \E t \in T : \A u \in T : t =< u
<1>1. PICK t \in T : \A u \in T : ~(<<u, t>> \in OpToRel(<, Nat))
  BY WFMin, NatLessThanWellFounded
<1>2. \A u \in T : ~(u < t)
  BY <1>1 DEF OpToRel
<1>3. QED
  BY <1>2

(* A set that holds 0 and, with every number below n, the next one, holds  *)
(* all numbers up to n.                                                    *)
LEMMA UpTo ==
  ASSUME NEW n \in Nat, NEW S, 0 \in S, \A i \in 0 .. n - 1 : i \in S => i + 1 \in S
  PROVE  \A i \in 0 .. n : i \in S
<1> DEFINE T == {i \in 0 .. n : i \notin S}
<1> SUFFICES ASSUME T # {} PROVE FALSE
  OBVIOUS
<1>1. T \subseteq Nat
  OBVIOUS
<1>2. PICK t \in T : \A u \in T : t =< u
  BY <1>1, LeastElement
<1>3. t \in 0 .. n /\ t \notin S /\ t # 0
  OBVIOUS
<1>4. t - 1 \in 0 .. n - 1 /\ (t - 1) + 1 = t
  BY <1>3
<1>5. t - 1 \notin S
  BY <1>3, <1>4
<1>6. t - 1 \in T
  BY <1>4, <1>5
<1>7. QED
  BY <1>2, <1>3, <1>6

-----------------------------------------------------------------------------
(* One mutation.                                                           *)

(* What one mutation leaves of a document: its data or the old document.   *)
LEMMA ApplyOrigin ==
  ASSUME NEW docs, NEW m
  PROVE  /\ \A k \in DOMAIN docs :
              \/ Apply(m, docs)[k] = docs[k]
              \/ k = m.key /\ Apply(m, docs)[k] = m.data
         /\ m.key \in DOMAIN docs /\ IsValidFor(m, docs[m.key]) => Apply(m, docs)[m.key] = m.data
<1>1. \A k \in DOMAIN docs :
        Apply(m, docs)[k] = IF k = m.key THEN Result(m, docs[k]) ELSE docs[k]
  BY Zenon DEF Apply
<1>2. \A old : Result(m, old) = IF IsValidFor(m, old) THEN m.data ELSE old
  BY Zenon DEF Result
<1>3. QED
  BY <1>1, <1>2, Zenon

(* It leaves documents again.                                              *)
LEMMA ApplyDocs ==
  ASSUME NEW K, NEW V, NEW docs \in [K -> V], NEW m, m.data \in V
  PROVE  Apply(m, docs) \in [K -> V]
  BY DEF Apply, Result

-----------------------------------------------------------------------------
(* The view, in terms of the two writes that decide it.                    *)

(* The value under the updates is the last overwrite's, if there is one.   *)
LEMMA BaseOfOverwrite ==
  ASSUME NEW docs, NEW q, Len(q) \in Nat, NEW k,
         NEW i \in 1 .. Len(q), IsLastOverwrite(q, k, i)
  PROVE  Base(docs, q, k) = q[i].data
<1>1. \A j \in 1 .. Len(q) : IsLastOverwrite(q, k, j) => j = i
  BY DEF IsLastOverwrite
<1>2. QED
  BY <1>1 DEF Base

(* The view is the last write's value, unless that is a void update.       *)
LEMMA ViewOfWrite ==
  ASSUME NEW docs, NEW q, Len(q) \in Nat, NEW k \in DOMAIN docs,
         NEW i \in 1 .. Len(q), IsLastWrite(q, k, i)
  PROVE  View(docs, q)[k] = IF Base(docs, q, k) # NoDoc THEN q[i].data ELSE NoDoc
<1>1. \A j \in 1 .. Len(q) : IsLastWrite(q, k, j) => j = i
  BY DEF IsLastWrite
<1>2. QED
  BY <1>1 DEF View

(* Without a write the view is what lies under the queue.                  *)
LEMMA ViewOfNone ==
  ASSUME NEW docs, NEW q, Len(q) \in Nat, NEW k \in DOMAIN docs,
         ~\E i \in 1 .. Len(q) : IsLastWrite(q, k, i)
  PROVE  View(docs, q)[k] = Base(docs, q, k)
  BY DEF View

(* A device's view of a document is the cached one or some queued write's. *)
LEMMA ViewOrigin ==
  ASSUME NEW docs, NEW q, NEW k \in DOMAIN docs
  PROVE  \/ View(docs, q)[k] = docs[k]
         \/ \E i \in 1 .. Len(q) : q[i].key = k /\ View(docs, q)[k] = q[i].data
<1>1. \/ Base(docs, q, k) = docs[k]
      \/ \E i \in 1 .. Len(q) : q[i].key = k /\ Base(docs, q, k) = q[i].data
  BY DEF Base, IsLastOverwrite
<1>2. \/ View(docs, q)[k] = Base(docs, q, k)
      \/ \E i \in 1 .. Len(q) : q[i].key = k /\ View(docs, q)[k] = q[i].data
  BY DEF View, IsLastWrite
<1>3. QED
  BY <1>1, <1>2

(* A view has the documents it is a view of.                               *)
LEMMA ViewDomain ==
  ASSUME NEW docs, NEW q
  PROVE  View(docs, q) = [k \in DOMAIN docs |-> View(docs, q)[k]]
  BY DEF View

(* Every update in the queue has a value.                                  *)
HasValues(q) == \A i \in 1 .. Len(q) : q[i].op = "update" => q[i].data # NoDoc

(* Such a queue hides a document that exists under it only by a delete.    *)
LEMMA ViewExists ==
  ASSUME NEW docs, NEW q, Len(q) \in Nat, HasValues(q), NEW k \in DOMAIN docs
  PROVE  View(docs, q)[k] = NoDoc <=> Base(docs, q, k) = NoDoc
<1>1. CASE ~\E i \in 1 .. Len(q) : IsLastWrite(q, k, i)
  <2>1. View(docs, q)[k] = Base(docs, q, k)
    BY <1>1, ViewOfNone
  <2>2. QED
    BY <2>1
<1>2. ASSUME NEW i \in 1 .. Len(q), IsLastWrite(q, k, i)
      PROVE  View(docs, q)[k] = NoDoc <=> Base(docs, q, k) = NoDoc
  <2>1. View(docs, q)[k] = IF Base(docs, q, k) # NoDoc THEN q[i].data ELSE NoDoc
    BY <1>2, ViewOfWrite
  <2>2. CASE q[i].op = "update"
    BY <2>1, <2>2 DEF HasValues
  <2>3. CASE q[i].op # "update"
    <3>1. IsLastOverwrite(q, k, i)
      BY <1>2, <2>3 DEF IsLastOverwrite, IsLastWrite
    <3>2. Base(docs, q, k) = q[i].data
      BY <3>1, BaseOfOverwrite
    <3>3. QED
      BY <2>1, <3>2
  <2>4. QED
    BY <2>2, <2>3
<1>3. QED
  BY <1>1, <1>2

-----------------------------------------------------------------------------
(* The view is a replay.                                                   *)

(* A write appended to the queue is applied to the view.                   *)
LEMMA ViewOfAppend ==
  ASSUME NEW docs, NEW M, NEW q \in Seq(M), HasValues(q), NEW m \in M
  PROVE  View(docs, Append(q, m)) = Apply(m, View(docs, q))
<1> DEFINE n == Len(q)
           p == Append(q, m)
<1>1. n \in Nat /\ Len(p) = n + 1 /\ p[n + 1] = m /\ \A i \in 1 .. n : p[i] = q[i]
  BY LenProperties, AppendProperties
<1>2. PICK l \in Nat : l = n
  BY <1>1
<1> HIDE DEF n, p
<1>3. l = Len(q) /\ Len(p) = l + 1 /\ p[l + 1] = m /\ \A i \in 1 .. l : p[i] = q[i]
  BY <1>1, <1>2 DEF n
<1>4. ASSUME NEW k, m.key = k => m.op = "update"
      PROVE  Base(docs, p, k) = Base(docs, q, k)
  <2>1. /\ \A i \in 1 .. l : IsLastOverwrite(p, k, i) <=> IsLastOverwrite(q, k, i)
        /\ ~IsLastOverwrite(p, k, l + 1)
    BY <1>3, <1>4 DEF IsLastOverwrite
  <2>2. ASSUME NEW i \in 1 .. l, IsLastOverwrite(q, k, i)
        PROVE  Base(docs, p, k) = Base(docs, q, k)
    <3>1. i \in 1 .. Len(p) /\ i \in 1 .. Len(q) /\ p[i] = q[i] /\ IsLastOverwrite(p, k, i)
      BY <1>3, <2>1, <2>2
    <3>2. Base(docs, p, k) = p[i].data /\ Base(docs, q, k) = q[i].data
      BY <1>3, <2>2, <3>1, BaseOfOverwrite
    <3>3. QED
      BY <3>1, <3>2
  <2>3. CASE ~\E i \in 1 .. l : IsLastOverwrite(q, k, i)
    <3>1. ~\E i \in 1 .. Len(p) : IsLastOverwrite(p, k, i)
      BY <1>3, <2>1, <2>3
    <3>2. QED
      BY <1>3, <2>3, <3>1 DEF Base
  <2>4. QED
    BY <2>2, <2>3
<1>5. ASSUME NEW k \in DOMAIN docs, m.key # k
      PROVE  View(docs, p)[k] = View(docs, q)[k]
  <2>1. Base(docs, p, k) = Base(docs, q, k)
    BY <1>4, <1>5
  <2>2. /\ \A i \in 1 .. l : IsLastWrite(p, k, i) <=> IsLastWrite(q, k, i)
        /\ ~IsLastWrite(p, k, l + 1)
    BY <1>3, <1>5 DEF IsLastWrite
  <2>3. CASE \E i \in 1 .. l : IsLastWrite(q, k, i)
    <3>1. PICK i \in 1 .. l : IsLastWrite(q, k, i)
      BY <2>3
    <3>2. i \in 1 .. Len(p) /\ i \in 1 .. Len(q) /\ p[i] = q[i] /\ IsLastWrite(p, k, i)
      BY <1>3, <2>2, <3>1
    <3>3. /\ View(docs, p)[k] = IF Base(docs, p, k) # NoDoc THEN p[i].data ELSE NoDoc
          /\ View(docs, q)[k] = IF Base(docs, q, k) # NoDoc THEN q[i].data ELSE NoDoc
      BY <1>3, <3>1, <3>2, ViewOfWrite
    <3>4. QED
      BY <2>1, <3>2, <3>3
  <2>4. CASE ~\E i \in 1 .. l : IsLastWrite(q, k, i)
    <3>1. /\ ~\E i \in 1 .. Len(p) : IsLastWrite(p, k, i)
          /\ ~\E i \in 1 .. Len(q) : IsLastWrite(q, k, i)
      BY <1>3, <2>2, <2>4
    <3>2. View(docs, p)[k] = Base(docs, p, k) /\ View(docs, q)[k] = Base(docs, q, k)
      BY <1>3, <3>1, ViewOfNone
    <3>3. QED
      BY <2>1, <3>2
  <2>5. QED
    BY <2>3, <2>4
<1>6. ASSUME NEW k \in DOMAIN docs, m.key = k
      PROVE  View(docs, p)[k] = Result(m, View(docs, q)[k])
  <2>1. l + 1 \in 1 .. Len(p) /\ IsLastWrite(p, k, l + 1)
    BY <1>3, <1>6 DEF IsLastWrite
  <2>2. View(docs, p)[k] = IF Base(docs, p, k) # NoDoc THEN m.data ELSE NoDoc
    <3>1. View(docs, p)[k] = IF Base(docs, p, k) # NoDoc THEN p[l + 1].data ELSE NoDoc
      BY <1>3, <2>1, ViewOfWrite
    <3>2. QED
      BY <1>3, <3>1
  <2>3. CASE m.op # "update"
    <3>1. IsLastOverwrite(p, k, l + 1)
      BY <1>3, <1>6, <2>3 DEF IsLastOverwrite
    <3>2. Base(docs, p, k) = p[l + 1].data
      BY <1>3, <2>1, <3>1, BaseOfOverwrite
    <3>3. QED
      BY <1>3, <2>2, <2>3, <3>2 DEF Result, IsValidFor
  <2>4. CASE m.op = "update"
    <3>1. Base(docs, p, k) = Base(docs, q, k)
      BY <1>4, <2>4
    <3>2. View(docs, q)[k] = NoDoc <=> Base(docs, q, k) = NoDoc
      BY <1>3, ViewExists
    <3>3. QED
      BY <2>2, <2>4, <3>1, <3>2 DEF Result, IsValidFor
  <2>5. QED
    BY <2>3, <2>4
<1>7. /\ View(docs, p) = [k \in DOMAIN docs |-> View(docs, p)[k]]
      /\ DOMAIN View(docs, q) = DOMAIN docs
  BY DEF View
<1>8. Apply(m, View(docs, q)) =
        [k \in DOMAIN docs |->
           IF k = m.key THEN Result(m, View(docs, q)[k]) ELSE View(docs, q)[k]]
  BY <1>7 DEF Apply
<1>9. View(docs, p) = Apply(m, View(docs, q))
  BY <1>5, <1>6, <1>7, <1>8
<1>10. QED
  BY <1>9 DEF p

(* Without writes the view is the cache.                                   *)
LEMMA ViewOfEmpty ==
  ASSUME NEW docs, docs = [k \in DOMAIN docs |-> docs[k]]
  PROVE  View(docs, << >>) = docs
<1>1. \A k \in DOMAIN docs : View(docs, << >>)[k] = docs[k]
  BY DEF View, Base
<1>2. View(docs, << >>) = [k \in DOMAIN docs |-> View(docs, << >>)[k]]
  BY ViewDomain
<1>3. QED
  BY <1>1, <1>2

(* The beginnings of a queue: each is the one before it and a write.       *)
LEMMA PrefixGrows ==
  ASSUME NEW M, NEW q \in Seq(M), NEW n \in 0 .. Len(q) - 1
  PROVE  /\ SubSeq(q, 1, n) \in Seq(M) /\ q[n + 1] \in M
         /\ SubSeq(q, 1, n + 1) = Append(SubSeq(q, 1, n), q[n + 1])
         /\ HasValues(q) => HasValues(SubSeq(q, 1, n))
<1>1. Len(q) \in Nat
  BY LenProperties
<1>2. PICK l \in Nat : l = n /\ l + 1 =< Len(q)
  BY <1>1
<1>3. \A i \in 1 .. Len(q) : q[i] \in M
  BY ElementOfSeq
<1>4. /\ SubSeq(q, 1, l) \in Seq(M) /\ Len(SubSeq(q, 1, l)) = l
      /\ \A i \in 1 .. l : SubSeq(q, 1, l)[i] = q[i]
  BY <1>1, <1>2, <1>3, SubSeqProperties
<1>5. /\ SubSeq(q, 1, l + 1) \in Seq(M) /\ Len(SubSeq(q, 1, l + 1)) = l + 1
      /\ \A i \in 1 .. l + 1 : SubSeq(q, 1, l + 1)[i] = q[i]
  BY <1>1, <1>2, <1>3, SubSeqProperties
<1>6. q[l + 1] \in M
  BY <1>1, <1>2, <1>3
<1>7. SubSeq(q, 1, l + 1) = Append(SubSeq(q, 1, l), q[l + 1])
  <2> DEFINE a == Append(SubSeq(q, 1, l), q[l + 1])
  <2>1. a \in Seq(M) /\ Len(a) = l + 1 /\ a[l + 1] = q[l + 1] /\ \A i \in 1 .. l : a[i] = q[i]
    BY <1>4, <1>6, AppendProperties
  <2>2. \A i \in 1 .. l + 1 : a[i] = SubSeq(q, 1, l + 1)[i]
    BY <1>5, <2>1
  <2> HIDE DEF a
  <2>3. SubSeq(q, 1, l + 1) = a
    BY <1>5, <2>1, <2>2, SeqEqual
  <2>4. QED
    BY <2>3 DEF a
<1>8. HasValues(q) => HasValues(SubSeq(q, 1, l))
  BY <1>1, <1>2, <1>4 DEF HasValues
<1>9. QED
  BY <1>2, <1>4, <1>6, <1>7, <1>8

(* The view is the queue replayed over the cache.                          *)
LEMMA ViewReplays ==
  ASSUME NEW docs, docs = [k \in DOMAIN docs |-> docs[k]],
         NEW M, NEW q \in Seq(M), HasValues(q)
  PROVE  View(docs, q) = Replay(docs, q)
<1> DEFINE IsRun(f) ==
             f = [n \in 0 .. Len(q) |-> IF n = 0 THEN docs ELSE Apply(q[n], f[n - 1])]
           v == [n \in 0 .. Len(q) |-> View(docs, SubSeq(q, 1, n))]
           w == CHOOSE f : IsRun(f)
<1>1. PICK l \in Nat : l = Len(q)
  BY LenProperties
<1>2. v[0] = docs
  <2>1. SubSeq(q, 1, 0) = << >>
    BY SubSeqEmpty, 0 < 1, 0 \in Int, 1 \in Int
  <2>2. View(docs, << >>) = docs
    BY ViewOfEmpty
  <2>3. v[0] = View(docs, SubSeq(q, 1, 0))
    <3>1. 0 \in 0 .. Len(q)
      BY <1>1
    <3>2. QED
      BY <3>1, Zenon
  <2> HIDE DEF v
  <2>4. QED
    BY <2>1, <2>2, <2>3, Zenon
<1>3. \A n \in 0 .. l - 1 : v[n + 1] = Apply(q[n + 1], v[n])
  <2>1. ASSUME NEW n \in 0 .. l - 1
        PROVE  v[n + 1] = Apply(q[n + 1], v[n])
    <3>1. /\ SubSeq(q, 1, n) \in Seq(M) /\ q[n + 1] \in M
          /\ SubSeq(q, 1, n + 1) = Append(SubSeq(q, 1, n), q[n + 1])
          /\ HasValues(SubSeq(q, 1, n))
      BY <1>1, PrefixGrows
    <3>2. View(docs, SubSeq(q, 1, n + 1)) = Apply(q[n + 1], View(docs, SubSeq(q, 1, n)))
      BY <3>1, ViewOfAppend
    <3>3. n \in 0 .. Len(q) /\ n + 1 \in 0 .. Len(q)
      BY <1>1
    <3>4. QED
      BY <3>2, <3>3
  <2>2. QED
    BY <2>1
<1>4. IsRun(v)
  <2>1. ASSUME NEW n \in 0 .. l
        PROVE  v[n] = IF n = 0 THEN docs ELSE Apply(q[n], v[n - 1])
    <3>1. CASE n = 0
      BY <1>2, <3>1
    <3>2. CASE n # 0
      <4>1. n - 1 \in 0 .. l - 1 /\ (n - 1) + 1 = n
        BY <3>2
      <4>2. QED
        BY <1>3, <3>2, <4>1
    <3>3. QED
      BY <3>1, <3>2
  <2>2. v = [n \in 0 .. l |-> v[n]]
    BY <1>1
  <2>3. QED
    BY <1>1, <2>1, <2>2
<1>5. IsRun(w)
  BY <1>4
<1>6. Replay(docs, q) = w[Len(q)]
  BY DEF Replay
<1> HIDE DEF v, w
<1>7. \A n \in 0 .. l : w[n] = IF n = 0 THEN docs ELSE Apply(q[n], w[n - 1])
  BY <1>1, <1>5
<1> DEFINE S == {n \in 0 .. l : w[n] = v[n]}
<1>8. 0 \in S
  BY <1>2, <1>7
<1>9. \A n \in 0 .. l - 1 : n \in S => n + 1 \in S
  <2>1. ASSUME NEW n \in 0 .. l - 1, w[n] = v[n] PROVE w[n + 1] = v[n + 1]
    <3>1. n + 1 \in 0 .. l /\ n + 1 # 0 /\ (n + 1) - 1 = n
      OBVIOUS
    <3>2. w[n + 1] = Apply(q[n + 1], w[n])
      BY <1>7, <3>1
    <3>3. QED
      BY <1>3, <2>1, <3>2
  <2>2. QED
    BY <2>1
<1>10. l \in S
  <2> HIDE DEF S
  <2>1. QED
    BY <1>8, <1>9, UpTo
<1>11. v[l] = View(docs, q)
  <2>1. SubSeq(q, 1, l) = q
    BY <1>1, SubSeqFull
  <2>2. v[l] = View(docs, SubSeq(q, 1, l))
    BY <1>1 DEF v
  <2>3. QED
    BY <2>1, <2>2
<1>12. QED
  BY <1>1, <1>6, <1>10, <1>11

(* The oldest write moved from the queue into the cache leaves the view.   *)
LEMMA ViewOfTail ==
  ASSUME NEW docs, docs = [k \in DOMAIN docs |-> docs[k]],
         NEW M, NEW q \in Seq(M), q # << >>, HasValues(q)
  PROVE  View(Apply(Head(q), docs), Tail(q)) = View(docs, q)
<1>1. PICK l \in Nat : Len(q) = l + 1
  <2>1. Len(q) \in Nat /\ Len(q) # 0
    BY LenProperties, EmptySeq
  <2>2. Len(q) - 1 \in Nat /\ Len(q) = (Len(q) - 1) + 1
    BY <2>1
  <2>3. QED
    BY <2>2
<1>2. /\ Tail(q) \in Seq(M) /\ Len(Tail(q)) = l /\ Head(q) = q[1] /\ q[1] \in M
      /\ \A i \in 1 .. l : Tail(q)[i] = q[i + 1]
  <2>1. Tail(q) \in Seq(M) /\ Len(Tail(q)) = Len(q) - 1
    BY HeadTailProperties
  <2>2. \A i \in 1 .. Len(Tail(q)) : Tail(q)[i] = q[i + 1]
    BY HeadTailProperties
  <2>3. Head(q) = q[1] /\ q[1] \in M
    BY <1>1, HeadTailProperties
  <2>4. QED
    BY <1>1, <2>1, <2>2, <2>3
<1>3. PICK t \in Seq(M) : t = Tail(q)
  BY <1>2
<1>4. PICK moved : moved = Apply(Head(q), docs)
  OBVIOUS
<1>5. HasValues(t)
  BY <1>1, <1>2, <1>3 DEF HasValues
<1> DEFINE S == {n \in 0 .. l : View(moved, SubSeq(t, 1, n)) = View(docs, SubSeq(q, 1, n + 1))}
<1>6. 0 \in S
  <2>1. SubSeq(t, 1, 0) = << >> /\ SubSeq(q, 1, 0) = << >>
    BY SubSeqEmpty, 0 < 1, 0 \in Int, 1 \in Int
  <2>2. moved = [k \in DOMAIN moved |-> moved[k]]
    BY <1>4 DEF Apply
  <2>3. View(moved, << >>) = moved
    BY <2>2, ViewOfEmpty
  <2>4. View(docs, << >>) = docs
    BY ViewOfEmpty
  <2>5. 0 \in 0 .. Len(q) - 1 /\ 0 + 1 = 1
    BY <1>1
  <2>6. SubSeq(q, 1, 1) = Append(<< >>, q[1])
    BY <2>1, <2>5, PrefixGrows
  <2>7. PICK e \in Seq(M) : e = << >>
    BY EmptySeq, Zenon
  <2>8. HasValues(e)
    BY <2>7 DEF HasValues
  <2>9. View(docs, Append(e, q[1])) = Apply(q[1], View(docs, e))
    BY <1>2, <2>8, ViewOfAppend
  <2>10. View(docs, SubSeq(q, 1, 1)) = moved
    BY <1>2, <1>4, <2>4, <2>6, <2>7, <2>9, Zenon
  <2>11. View(moved, SubSeq(t, 1, 0)) = View(docs, SubSeq(q, 1, 0 + 1))
    BY <2>1, <2>3, <2>5, <2>10, Zenon
  <2>12. 0 \in 0 .. l
    OBVIOUS
  <2>13. QED
    BY <2>11, <2>12, Zenon
<1>7. \A n \in 0 .. l - 1 : n \in S => n + 1 \in S
  <2>1. ASSUME NEW n \in 0 .. l - 1,
               View(moved, SubSeq(t, 1, n)) = View(docs, SubSeq(q, 1, n + 1))
        PROVE  View(moved, SubSeq(t, 1, n + 1)) = View(docs, SubSeq(q, 1, (n + 1) + 1))
    <3>1. PICK m \in Nat : m = n + 1 /\ m \in 0 .. Len(q) - 1 /\ n \in 0 .. Len(t) - 1
      BY <1>1, <1>2, <1>3
    <3>2. /\ SubSeq(t, 1, n) \in Seq(M) /\ t[n + 1] \in M
          /\ SubSeq(t, 1, n + 1) = Append(SubSeq(t, 1, n), t[n + 1])
          /\ HasValues(SubSeq(t, 1, n))
      BY <1>5, <3>1, PrefixGrows
    <3>3. /\ SubSeq(q, 1, m) \in Seq(M) /\ q[m + 1] \in M
          /\ SubSeq(q, 1, m + 1) = Append(SubSeq(q, 1, m), q[m + 1])
          /\ HasValues(SubSeq(q, 1, m))
      BY <3>1, PrefixGrows
    <3>4. t[n + 1] = q[m + 1]
      BY <1>2, <1>3, <3>1
    <3>5. View(moved, SubSeq(t, 1, n + 1)) = Apply(t[n + 1], View(moved, SubSeq(t, 1, n)))
      BY <3>2, ViewOfAppend
    <3>6. View(docs, SubSeq(q, 1, m + 1)) = Apply(q[m + 1], View(docs, SubSeq(q, 1, m)))
      BY <3>3, ViewOfAppend
    <3>7. QED
      BY <2>1, <3>1, <3>4, <3>5, <3>6
  <2>2. QED
    BY <2>1
<1>8. l \in S
  <2> HIDE DEF S
  <2>1. QED
    BY <1>6, <1>7, UpTo
<1>9. SubSeq(t, 1, l) = t /\ SubSeq(q, 1, l + 1) = q
  <2>1. SubSeq(t, 1, Len(t)) = t /\ SubSeq(q, 1, Len(q)) = q
    BY SubSeqFull
  <2>2. QED
    BY <1>1, <1>2, <1>3, <2>1
<1>10. QED
  BY <1>3, <1>4, <1>8, <1>9
=============================================================================
