----------------------------- MODULE PostsProofs -----------------------------
(***************************************************************************)
(* Proofs about Posts for any number of phones, posts and moments and any  *)
(* length of the write queues.                                             *)
(*                                                                         *)
(* A post reaches a screen on three ways: from the phone's own queue, as   *)
(* the result of a write that was answered, and in a snapshot.  The        *)
(* invariant says that the ways agree: wherever a document id has a post,  *)
(* it is the same post, and what a snapshot is credited with it contains.  *)
(***************************************************************************)
EXTENDS Posts, FirestoreClientProofs

Mutations == [op : {"set"}, key : Ids, data : Docs \ {NoDoc}]
Pipelines == [applied : Nat, seen : Nat, refused : BOOLEAN]

(* Every queued write of an id has the same post.                          *)
OneValue ==
  \A x, y \in Devices : \A i \in 1 .. Len(queue[x]), j \in 1 .. Len(queue[y]) :
    queue[x][i].key = queue[y][j].key => queue[x][i].data = queue[y][j].data

(* A queued write finds its own post on the server, or none.               *)
ServerAgrees ==
  \A x \in Devices : \A i \in 1 .. Len(queue[x]) :
    db[queue[x][i].key] # NoDoc => db[queue[x][i].key] = queue[x][i].data

(* What the server applied is stored, what a snapshot is credited with is  *)
(* cached, and what is cached is what the server has.                      *)
AppliedStored ==
  \A x \in Devices : \A i \in 1 .. sent[x].applied : db[queue[x][i].key] = queue[x][i].data

SeenCached ==
  \A x \in Devices : \A i \in 1 .. sent[x].seen : cache[x][queue[x][i].key] = queue[x][i].data

CacheAgrees ==
  \A x \in Devices, k \in Ids : cache[x][k] # NoDoc => cache[x][k] = db[k]

IInv ==
  /\ TypeOK
  /\ OneValue
  /\ ServerAgrees
  /\ AppliedStored
  /\ SeenCached
  /\ CacheAgrees

-----------------------------------------------------------------------------
(* Shape of the client's part of the state.                                *)
LEMMA ClientTypes ==
  ASSUME IInv, NEW d \in Devices
  PROVE  /\ queue[d] \in Seq(Mutations) /\ Len(queue[d]) \in Nat
         /\ \A i \in 1 .. Len(queue[d]) : /\ queue[d][i] \in Mutations
                                          /\ queue[d][i].key \in Ids /\ queue[d][i].data # NoDoc
                                          /\ queue[d][i].data \in Docs
                                          /\ queue[d][i].op = "set"
         /\ cache[d] \in [Ids -> Docs] /\ db \in [Ids -> Docs]
         /\ sent[d] \in Pipelines
         /\ sent[d].applied \in Nat /\ sent[d].seen \in Nat
         /\ sent[d].seen =< sent[d].applied /\ sent[d].applied =< Len(queue[d])
         /\ ~sent[d].refused
<1>1. queue[d] \in Seq(Mutations)
  BY DEF IInv, TypeOK, Mutations
<1>2. Len(queue[d]) \in Nat /\ \A i \in 1 .. Len(queue[d]) : queue[d][i] \in Mutations
  BY <1>1, LenProperties, ElementOfSeq
<1>3. \A m \in Mutations : m.key \in Ids /\ m.data # NoDoc /\ m.data \in Docs /\ m.op = "set"
  BY DEF Mutations
<1>4. cache[d] \in [Ids -> Docs] /\ db \in [Ids -> Docs] /\ sent[d] \in Pipelines
  BY DEF IInv, TypeOK, Pipelines
<1>5. sent[d].applied \in Nat /\ sent[d].seen \in Nat
  BY <1>4 DEF Pipelines
<1>6. sent[d].seen =< sent[d].applied /\ sent[d].applied =< Len(queue[d]) /\ ~sent[d].refused
  BY DEF IInv, TypeOK
<1>7. QED
  BY <1>1, <1>2, <1>3, <1>4, <1>5, <1>6

(* A queue of sets decides a document alone, or leaves it to the cache.    *)
LEMMA SetsDecide ==
  ASSUME NEW q, Len(q) \in Nat, \A i \in 1 .. Len(q) : q[i].op # "update",
         NEW a, NEW b, NEW k \in DOMAIN a, k \in DOMAIN b
  PROVE  \/ View(a, q)[k] = View(b, q)[k]
         \/ View(a, q)[k] = a[k] /\ View(b, q)[k] = b[k]
<1>1. ASSUME NEW i \in 1 .. Len(q), IsLastWrite(q, k, i)
      PROVE  View(a, q)[k] = View(b, q)[k]
  <2>1. IsLastOverwrite(q, k, i)
    BY <1>1 DEF IsLastWrite, IsLastOverwrite
  <2>2. Base(a, q, k) = q[i].data /\ Base(b, q, k) = q[i].data
    BY <2>1, BaseOfOverwrite
  <2>3. View(a, q)[k] = IF Base(a, q, k) # NoDoc THEN q[i].data ELSE NoDoc
    BY <1>1, ViewOfWrite
  <2>4. View(b, q)[k] = IF Base(b, q, k) # NoDoc THEN q[i].data ELSE NoDoc
    BY <1>1, ViewOfWrite
  <2>5. QED
    BY <2>2, <2>3, <2>4
<1>2. ASSUME ~\E i \in 1 .. Len(q) : IsLastWrite(q, k, i)
      PROVE  View(a, q)[k] = a[k] /\ View(b, q)[k] = b[k]
  <2>1. ~\E i \in 1 .. Len(q) : IsLastOverwrite(q, k, i)
    <3>1. ASSUME NEW i \in 1 .. Len(q), IsLastOverwrite(q, k, i) PROVE IsLastWrite(q, k, i)
      BY <3>1 DEF IsLastWrite, IsLastOverwrite
    <3>2. QED
      BY <1>2, <3>1
  <2>2. Base(a, q, k) = a[k] /\ Base(b, q, k) = b[k]
    BY <2>1 DEF Base
  <2>3. View(a, q)[k] = Base(a, q, k) /\ View(b, q)[k] = Base(b, q, k)
    BY <1>2, ViewOfNone
  <2>4. QED
    BY <2>2, <2>3
<1>3. QED
  BY <1>1, <1>2

-----------------------------------------------------------------------------
(* The invariant holds where nothing has been posted.                      *)
LEMMA InitInv == Init => IInv
<1> SUFFICES ASSUME Init PROVE IInv
  OBVIOUS
<1> USE DEF Init, ClientInit
<1>1. \A d \in Devices : sent[d] = Idle /\ Len(queue[d]) = 0
  OBVIOUS
<1>2. Idle \in Pipelines /\ Idle.seen = 0 /\ Idle.applied = 0 /\ ~Idle.refused
  BY DEF Idle, Pipelines
<1>3. \A d \in Devices : sent[d].seen = 0 /\ sent[d].applied = 0 /\ ~sent[d].refused
  BY <1>1, <1>2, Zenon
<1>4. TypeOK
  <2>1. NoDoc \in Docs /\ << >> \in Seq(Mutations) /\ 0 \in 0 .. MaxInputs
    BY PostsAssumption, EmptySeq DEF Docs
  <2>2. /\ db \in [Ids -> Docs] /\ cache \in [Devices -> [Ids -> Docs]]
        /\ queue \in [Devices -> Seq(Mutations)]
    BY <2>1
  <2>3. sent \in [Devices -> Pipelines]
    BY <1>2, Zenon
  <2>4. ASSUME NEW d \in Devices
        PROVE  /\ sent[d].seen =< sent[d].applied /\ sent[d].applied =< Len(queue[d])
               /\ ~sent[d].refused
    BY <1>1, <1>3
  <2>5. QED
    BY <2>1, <2>2, <2>3, <2>4 DEF TypeOK, Mutations, Pipelines
<1>5. OneValue /\ ServerAgrees
  BY DEF OneValue, ServerAgrees
<1>6. AppliedStored /\ SeenCached
  BY DEF AppliedStored, SeenCached, Idle
<1>7. CacheAgrees
  BY DEF CacheAgrees
<1>8. QED
  BY <1>4, <1>5, <1>6, <1>7 DEF IInv

-----------------------------------------------------------------------------
(* Steps of the page.                                                      *)

PageTyped ==
  /\ clock \in [Devices -> Times \cup {0}]
  /\ draft \in [Devices -> BOOLEAN]
  /\ inputs \in 0 .. MaxInputs

(* A step that leaves the client alone keeps the invariant.                *)
LEMMA PageInv ==
  ASSUME IInv, UNCHANGED store, PageTyped'
  PROVE  IInv'
<1>1. db' = db /\ cache' = cache /\ queue' = queue /\ sent' = sent
  BY DEF store
<1>2. TypeOK'
  BY <1>1 DEF IInv, TypeOK, PageTyped
<1>3. OneValue' /\ ServerAgrees' /\ AppliedStored' /\ SeenCached' /\ CacheAgrees'
  BY <1>1 DEF IInv, OneValue, ServerAgrees, AppliedStored, SeenCached, CacheAgrees
<1>4. QED
  BY <1>2, <1>3 DEF IInv

(* TypeMessage and Rebuild touch only the text field.                      *)
LEMMA TextFieldInv ==
  ASSUME IInv, NEW d \in Devices, TypeMessage(d) \/ Rebuild(d)
  PROVE  IInv'
<1>1. UNCHANGED store /\ UNCHANGED clock /\ draft' \in [Devices -> BOOLEAN]
  BY DEF TypeMessage, Rebuild, IInv, TypeOK
<1>2. inputs' \in 0 .. MaxInputs
  BY PostsAssumption DEF TypeMessage, Rebuild, Input, IInv, TypeOK
<1>3. PageTyped'
  BY <1>1, <1>2 DEF PageTyped, IInv, TypeOK
<1>4. QED
  BY <1>1, <1>3, PageInv

(* A post under an id that nothing uses keeps the invariant.               *)
LEMMA AddPostInv ==
  ASSUME IInv, NEW d \in Devices, NEW k \in Ids, NEW t \in Times, IsUnused(k),
         addPost(d, k, t), PageTyped'
  PROVE  IInv'
<1>1. PICK m : m = Set(k, Post(d, t))
  OBVIOUS
<1>2. m \in Mutations /\ m.key = k /\ m.data # NoDoc
  <2>1. Post(d, t) \in [by : Devices, at : Times]
    BY DEF Post
  <2>2. Post(d, t) \in Docs \ {NoDoc}
    BY <2>1, PostsAssumption DEF Docs
  <2>3. QED
    BY <1>1, <2>2 DEF Set, Mutations
<1>3. /\ db' = db /\ cache' = cache /\ sent' = sent
      /\ queue' = [queue EXCEPT ![d] = queue[d] \o <<m>>]
  BY <1>1 DEF addPost, WriteLocally
<1>4. PICK q : q = queue[d] \o <<m>>
  OBVIOUS
<1>5. queue \in [Devices -> Seq(Mutations)] /\ queue[d] \in Seq(Mutations) /\ Len(queue[d]) \in Nat
  BY ClientTypes DEF IInv, TypeOK, Mutations
<1>6. /\ q \in Seq(Mutations) /\ Len(q) = Len(queue[d]) + 1 /\ q[Len(queue[d]) + 1] = m
      /\ \A i \in 1 .. Len(queue[d]) : q[i] = queue[d][i]
  <2>1. q = Append(queue[d], m)
    BY <1>2, <1>4, <1>5, AppendIsConcat
  <2>2. QED
    BY <1>2, <1>5, <2>1, AppendProperties
<1>7. queue'[d] = q /\ \A x \in Devices : x # d => queue'[x] = queue[x]
  BY <1>3, <1>4, <1>5
<1>8. \A x \in Devices :
        /\ Len(queue[x]) \in Nat /\ Len(queue'[x]) \in Nat /\ Len(queue[x]) =< Len(queue'[x])
        /\ \A i \in 1 .. Len(queue[x]) : queue'[x][i] = queue[x][i]
        /\ \A i \in 1 .. Len(queue'[x]) : i \notin 1 .. Len(queue[x]) => queue'[x][i] = m
  <2>1. ASSUME NEW x \in Devices
        PROVE  /\ Len(queue[x]) \in Nat /\ Len(queue'[x]) \in Nat /\ Len(queue[x]) =< Len(queue'[x])
               /\ \A i \in 1 .. Len(queue[x]) : queue'[x][i] = queue[x][i]
               /\ \A i \in 1 .. Len(queue'[x]) : i \notin 1 .. Len(queue[x]) => queue'[x][i] = m
    <3>1. Len(queue[x]) \in Nat
      BY ClientTypes
    <3>2. CASE x = d
      BY <1>5, <1>6, <1>7, <3>2
    <3>3. CASE x # d
      BY <1>7, <3>1, <3>3
    <3>4. QED
      BY <3>2, <3>3
  <2>2. QED
    BY <2>1
<1>9. /\ db[k] = NoDoc
      /\ \A x \in Devices : \A i \in 1 .. Len(queue[x]) : queue[x][i].key # k
  BY DEF IsUnused
<1>10. \A x \in Devices : /\ sent[x].applied \in Nat /\ sent[x].seen \in Nat
                          /\ sent[x].seen =< sent[x].applied /\ sent[x].applied =< Len(queue[x])
                          /\ ~sent[x].refused
  BY ClientTypes
<1>11. TypeOK'
  <2>1. queue' \in [Devices -> Seq(Mutations)]
    BY <1>3, <1>4, <1>5, <1>6
  <2>2. \A x \in Devices : /\ sent'[x].seen =< sent'[x].applied
                           /\ sent'[x].applied =< Len(queue'[x]) /\ ~sent'[x].refused
    BY <1>3, <1>8, <1>10
  <2>3. QED
    BY <1>3, <2>1, <2>2 DEF IInv, TypeOK, Mutations, PageTyped
<1>12. OneValue'
  <2>1. ASSUME NEW x \in Devices, NEW y \in Devices,
               NEW i \in 1 .. Len(queue'[x]), NEW j \in 1 .. Len(queue'[y]),
               queue'[x][i].key = queue'[y][j].key
        PROVE  queue'[x][i].data = queue'[y][j].data
    <3>1. \/ i \in 1 .. Len(queue[x]) /\ queue'[x][i] = queue[x][i]
          \/ i \notin 1 .. Len(queue[x]) /\ queue'[x][i] = m
      BY <1>8
    <3>2. \/ j \in 1 .. Len(queue[y]) /\ queue'[y][j] = queue[y][j]
          \/ j \notin 1 .. Len(queue[y]) /\ queue'[y][j] = m
      BY <1>8
    <3>3. i \in 1 .. Len(queue[x]) => queue'[x][i].key # k
      BY <1>9, <3>1
    <3>4. j \in 1 .. Len(queue[y]) => queue'[y][j].key # k
      BY <1>9, <3>2
    <3>5. CASE i \in 1 .. Len(queue[x]) /\ j \in 1 .. Len(queue[y])
      <4>1. queue'[x][i] = queue[x][i] /\ queue'[y][j] = queue[y][j]
        BY <3>1, <3>2, <3>5
      <4>2. QED
        BY <2>1, <3>5, <4>1 DEF IInv, OneValue
    <3>6. CASE i \notin 1 .. Len(queue[x]) \/ j \notin 1 .. Len(queue[y])
      BY <1>2, <2>1, <3>1, <3>2, <3>3, <3>4, <3>6
    <3>7. QED
      BY <3>5, <3>6
  <2>2. QED
    BY <2>1 DEF OneValue
<1>13. ServerAgrees'
  <2>1. ASSUME NEW x \in Devices, NEW i \in 1 .. Len(queue'[x]), db[queue'[x][i].key] # NoDoc
        PROVE  db[queue'[x][i].key] = queue'[x][i].data
    <3>1. \/ i \in 1 .. Len(queue[x]) /\ queue'[x][i] = queue[x][i]
          \/ i \notin 1 .. Len(queue[x]) /\ queue'[x][i] = m
      BY <1>8
    <3>2. QED
      BY <1>2, <1>9, <2>1, <3>1 DEF IInv, ServerAgrees
  <2>2. QED
    BY <1>3, <2>1 DEF ServerAgrees
<1>14. \A x \in Devices : /\ \A i \in 1 .. sent[x].applied : queue'[x][i] = queue[x][i]
                          /\ \A i \in 1 .. sent[x].seen : queue'[x][i] = queue[x][i]
  BY <1>8, <1>10
<1>15. AppliedStored' /\ SeenCached'
  <2>1. \A x \in Devices : \A i \in 1 .. sent[x].applied :
          db[queue'[x][i].key] = queue'[x][i].data
    BY <1>14 DEF IInv, AppliedStored
  <2>2. \A x \in Devices : \A i \in 1 .. sent[x].seen :
          cache[x][queue'[x][i].key] = queue'[x][i].data
    BY <1>14 DEF IInv, SeenCached
  <2>3. QED
    BY <1>3, <2>1, <2>2 DEF AppliedStored, SeenCached
<1>16. CacheAgrees'
  BY <1>3 DEF IInv, CacheAgrees
<1>17. QED
  BY <1>11, <1>12, <1>13, <1>15, <1>16 DEF IInv

(* The check mark.                                                         *)
LEMMA PostMessageInv ==
  ASSUME IInv, NEW d \in Devices, postMessage(d)
  PROVE  IInv'
<1>1. PICK k \in Ids, t \in Times :
        IsUnused(k) /\ addPost(d, k, t) /\ clock' = [clock EXCEPT ![d] = t]
  BY DEF postMessage
<1>2. PageTyped'
  BY <1>1 DEF postMessage, PageTyped, IInv, TypeOK
<1>3. QED
  BY <1>1, <1>2, AddPostInv

-----------------------------------------------------------------------------
(* The client's pipeline.                                                  *)

(* The server applies a post, for the first time or again.                 *)
LEMMA CommitInv ==
  ASSUME IInv, NEW d \in Devices, Commit(d), PageTyped'
  PROVE  IInv'
<1>1. PICK n \in Nat : n = sent[d].applied
  BY ClientTypes
<1>2. PICK m : m = queue[d][n + 1]
  OBVIOUS
<1>3. /\ n + 1 \in 1 .. Len(queue[d]) /\ m.key \in Ids /\ m.data \in Docs
      /\ m.data # NoDoc /\ m.op = "set"
  <2>1. n + 1 \in 1 .. Len(queue[d])
    BY <1>1, ClientTypes DEF Commit
  <2>2. QED
    BY <1>2, <2>1, ClientTypes
<1>4. /\ db' = Apply(m, db) /\ cache' = cache /\ queue' = queue
      /\ sent' = [sent EXCEPT ![d].applied = @ + 1]
  BY <1>1, <1>2 DEF Commit, NextWrite
<1>5. db \in [Ids -> Docs]
  BY DEF IInv, TypeOK
<1>6. db' \in [Ids -> Docs] /\ \A k \in Ids : db'[k] = IF k = m.key THEN m.data ELSE db[k]
  <2>1. IsValidFor(m, db[m.key])
    BY <1>3 DEF IsValidFor
  <2>2. QED
    BY <1>3, <1>4, <1>5, <2>1 DEF Apply, Result
<1>7. db[m.key] # NoDoc => db[m.key] = m.data
  BY <1>2, <1>3 DEF IInv, ServerAgrees
<1>8. \A k \in Ids : db[k] # NoDoc => db'[k] = db[k]
  BY <1>6, <1>7
<1>9. \A x \in Devices : \A i \in 1 .. Len(queue[x]) :
        queue[x][i].key = m.key => queue[x][i].data = m.data
  BY <1>2, <1>3 DEF IInv, OneValue
<1>10. /\ sent' \in [Devices -> Pipelines]
       /\ sent'[d].applied = n + 1 /\ sent'[d].seen = sent[d].seen /\ ~sent'[d].refused
       /\ \A x \in Devices : x # d => sent'[x] = sent[x]
  <2>1. sent \in [Devices -> Pipelines]
    BY DEF IInv, TypeOK, Pipelines
  <2>2. PICK s : s = [sent[d] EXCEPT !.applied = n + 1]
    OBVIOUS
  <2>3. sent' = [sent EXCEPT ![d] = s]
    BY <1>1, <1>4, <2>1, <2>2 DEF Pipelines
  <2>4. s \in Pipelines /\ s.applied = n + 1 /\ s.seen = sent[d].seen /\ ~s.refused
    <3>1. sent[d] \in Pipelines /\ ~sent[d].refused
      BY ClientTypes
    <3>2. QED
      BY <2>2, <3>1 DEF Pipelines
  <2>5. QED
    BY <2>1, <2>3, <2>4
<1>11. \A x \in Devices : /\ sent[x].applied \in Nat /\ sent[x].seen \in Nat /\ Len(queue[x]) \in Nat
                          /\ sent[x].seen =< sent[x].applied
                          /\ sent[x].applied =< Len(queue[x]) /\ ~sent[x].refused
  BY ClientTypes
<1>12. TypeOK'
  <2>1. \A x \in Devices : /\ sent'[x].seen =< sent'[x].applied
                           /\ sent'[x].applied =< Len(queue'[x]) /\ ~sent'[x].refused
    BY <1>1, <1>3, <1>4, <1>10, <1>11
  <2>2. QED
    BY <1>4, <1>6, <1>10, <2>1 DEF IInv, TypeOK, PageTyped, Pipelines
<1>13. OneValue' /\ SeenCached'
  <2>1. \A x \in Devices : sent'[x].seen = sent[x].seen
    BY <1>10
  <2>2. QED
    BY <1>4, <2>1 DEF IInv, OneValue, SeenCached
<1>14. ServerAgrees'
  <2>1. ASSUME NEW x \in Devices, NEW i \in 1 .. Len(queue[x]), db'[queue[x][i].key] # NoDoc
        PROVE  db'[queue[x][i].key] = queue[x][i].data
    <3>1. queue[x][i].key \in Ids
      BY ClientTypes
    <3>2. db[queue[x][i].key] # NoDoc => db[queue[x][i].key] = queue[x][i].data
      BY DEF IInv, ServerAgrees
    <3>3. QED
      BY <1>6, <1>9, <2>1, <3>1, <3>2
  <2>2. QED
    BY <1>4, <2>1 DEF ServerAgrees
<1>15. AppliedStored'
  <2>1. ASSUME NEW x \in Devices, NEW i \in 1 .. sent'[x].applied
        PROVE  db'[queue[x][i].key] = queue[x][i].data
    <3>1. i \in 1 .. sent[x].applied \/ (x = d /\ i = n + 1)
      BY <1>1, <1>10, <1>11
    <3>2. CASE i \in 1 .. sent[x].applied
      <4>1. i \in 1 .. Len(queue[x])
        BY <1>11, <3>2
      <4>2. queue[x][i].key \in Ids /\ queue[x][i].data # NoDoc
        BY <4>1, ClientTypes
      <4>3. db[queue[x][i].key] = queue[x][i].data
        BY <3>2 DEF IInv, AppliedStored
      <4>4. QED
        BY <1>8, <4>2, <4>3
    <3>3. CASE x = d /\ i = n + 1
      BY <1>2, <1>3, <1>6, <3>3
    <3>4. QED
      BY <3>1, <3>2, <3>3
  <2>2. QED
    BY <1>4, <2>1 DEF AppliedStored
<1>16. CacheAgrees'
  <2>1. \A x \in Devices, k \in Ids : cache[x][k] # NoDoc => cache[x][k] = db'[k]
    BY <1>8 DEF IInv, CacheAgrees
  <2>2. QED
    BY <1>4, <2>1 DEF CacheAgrees
<1>17. QED
  BY <1>12, <1>13, <1>14, <1>15, <1>16 DEF IInv

(* What an answer does, in terms of the queue's head and tail.             *)
LEMMA AnswerParts ==
  ASSUME IInv, NEW d \in Devices, HandleSuccessfulWrite(d)
  PROVE  /\ queue[d] # << >> /\ Head(queue[d]) = queue[d][1]
         /\ 1 \in 1 .. sent[d].applied /\ 1 \in 1 .. Len(queue[d])
         /\ Tail(queue[d]) \in Seq(Mutations) /\ Len(Tail(queue[d])) = Len(queue[d]) - 1
         /\ Len(queue[d]) - 1 \in Nat
         /\ \A i \in 1 .. Len(queue[d]) - 1 : Tail(queue[d])[i] = queue[d][i + 1]
<1>1. PICK q \in Seq(Mutations) : q = queue[d]
  BY ClientTypes
<1>2. sent[d].applied \in Nat /\ sent[d].applied > 0 /\ Len(q) \in Nat /\ sent[d].applied =< Len(q)
  BY <1>1, ClientTypes DEF HandleSuccessfulWrite
<1>3. q # << >>
  BY <1>2, EmptySeq
<1>4. Tail(q) \in Seq(Mutations) /\ Len(Tail(q)) = Len(q) - 1
  BY <1>3, HeadTailProperties
<1>5. \A i \in 1 .. Len(Tail(q)) : Tail(q)[i] = q[i + 1]
  BY <1>3, HeadTailProperties
<1>6. Head(q) = q[1]
  BY <1>3, HeadTailProperties
<1>7. 1 \in 1 .. sent[d].applied /\ 1 \in 1 .. Len(q) /\ Len(q) - 1 \in Nat
  BY <1>2
<1>8. \A i \in 1 .. Len(q) - 1 : Tail(q)[i] = q[i + 1]
  BY <1>4, <1>5
<1>9. QED
  BY <1>1, <1>3, <1>4, <1>6, <1>7, <1>8, Zenon

(* An answer moves a post that the server has into the cache.              *)
LEMMA HandleSuccessfulWriteInv ==
  ASSUME IInv, NEW d \in Devices, HandleSuccessfulWrite(d), PageTyped'
  PROVE  IInv'
<1>1. PICK q \in Seq(Mutations) : q = queue[d]
  BY ClientTypes
<1>2. PICK r : r = Tail(q)
  OBVIOUS
<1>3. /\ r \in Seq(Mutations) /\ Len(q) \in Nat /\ Len(r) = Len(q) - 1 /\ Len(r) \in Nat
      /\ \A i \in 1 .. Len(r) : r[i] = q[i + 1]
  BY <1>1, <1>2, AnswerParts, ClientTypes
<1>4. PICK m : m = q[1]
  OBVIOUS
<1>5. m.key \in Ids /\ m.data \in Docs /\ m.op = "set" /\ db[m.key] = m.data
  BY <1>1, <1>4, AnswerParts, ClientTypes DEF IInv, AppliedStored
<1>6. PICK known : known = IF sent[d].seen > 0 THEN cache[d] ELSE Apply(m, cache[d])
  OBVIOUS
<1>7. PICK s : s = Answered(sent[d])
  OBVIOUS
<1>8. /\ db' = db /\ queue' = [queue EXCEPT ![d] = r] /\ cache' = [cache EXCEPT ![d] = known]
      /\ sent' = [sent EXCEPT ![d] = s]
  <2>1. Head(q) = m
    BY <1>1, <1>4, AnswerParts
  <2>2. QED
    BY <1>1, <1>2, <1>6, <1>7, <2>1 DEF HandleSuccessfulWrite
<1>9. /\ queue \in [Devices -> Seq(Mutations)] /\ cache \in [Devices -> [Ids -> Docs]]
      /\ sent \in [Devices -> Pipelines]
  BY DEF IInv, TypeOK, Mutations, Pipelines
<1>10. /\ known \in [Ids -> Docs] /\ \A k \in Ids : known[k] # NoDoc => known[k] = db[k]
       /\ sent[d].seen > 0 => known = cache[d]
  <2>1. cache[d] \in [Ids -> Docs] /\ \A k \in Ids : cache[d][k] # NoDoc => cache[d][k] = db[k]
    BY <1>9 DEF IInv, CacheAgrees
  <2>2. IsValidFor(m, cache[d][m.key])
    BY <1>5 DEF IsValidFor
  <2>3. /\ Apply(m, cache[d]) \in [Ids -> Docs]
        /\ \A k \in Ids : Apply(m, cache[d])[k] = IF k = m.key THEN m.data ELSE cache[d][k]
    BY <1>5, <2>1, <2>2 DEF Apply, Result
  <2>4. QED
    BY <1>5, <1>6, <2>1, <2>3
<1>11. \A x \in Devices : /\ sent[x].applied \in Nat /\ sent[x].seen \in Nat /\ Len(queue[x]) \in Nat
                          /\ sent[x].seen =< sent[x].applied
                          /\ sent[x].applied =< Len(queue[x]) /\ ~sent[x].refused
  BY ClientTypes
<1>12. /\ s \in Pipelines /\ ~s.refused /\ s.applied = sent[d].applied - 1 /\ s.seen =< s.applied
       /\ s.seen \in Nat /\ s.applied \in Nat
       /\ s.seen > 0 => s.seen = sent[d].seen - 1
  <2>1. sent[d] \in Pipelines /\ ~sent[d].refused
    BY ClientTypes
  <2>2. sent[d].applied >= 1
    BY <1>11 DEF HandleSuccessfulWrite
  <2>3. QED
    BY <1>7, <1>11, <2>1, <2>2 DEF Answered, Pipelines
<1>13. /\ queue'[d] = r /\ cache'[d] = known /\ sent'[d] = s
       /\ \A x \in Devices : x # d => /\ queue'[x] = queue[x] /\ cache'[x] = cache[x]
                                      /\ sent'[x] = sent[x]
  BY <1>8, <1>9
<1>14. ASSUME NEW x \in Devices, NEW i \in 1 .. Len(queue'[x])
       PROVE  \E j \in 1 .. Len(queue[x]) :
                /\ queue'[x][i] = queue[x][j]
                /\ i \in 1 .. sent'[x].applied => j \in 1 .. sent[x].applied
                /\ i \in 1 .. sent'[x].seen => j \in 1 .. sent[x].seen /\ cache'[x] = cache[x]
  <2>1. CASE x # d
    BY <1>13, <2>1
  <2>2. CASE x = d
    <3>1. i \in 1 .. Len(r)
      BY <1>13, <2>2
    <3>2. i + 1 \in 1 .. Len(queue[d]) /\ queue'[x][i] = queue[d][i + 1]
      BY <1>1, <1>3, <1>13, <2>2, <3>1
    <3>3. i \in 1 .. s.applied => i + 1 \in 1 .. sent[d].applied
      BY <1>11, <1>12
    <3>4. i \in 1 .. s.seen => i + 1 \in 1 .. sent[d].seen /\ sent[d].seen > 0
      BY <1>11, <1>12
    <3>5. i \in 1 .. s.seen => cache'[d] = cache[d]
      BY <1>10, <1>13, <3>4
    <3>6. QED
      BY <1>13, <2>2, <3>2, <3>3, <3>4, <3>5
  <2>3. QED
    BY <2>1, <2>2
<1>15. TypeOK'
  <2>1. /\ queue' \in [Devices -> Seq(Mutations)] /\ cache' \in [Devices -> [Ids -> Docs]]
        /\ sent' \in [Devices -> Pipelines]
    BY <1>3, <1>8, <1>9, <1>10, <1>12
  <2>2. ASSUME NEW x \in Devices
        PROVE  /\ sent'[x].seen =< sent'[x].applied /\ sent'[x].applied =< Len(queue'[x])
               /\ ~sent'[x].refused
    <3>1. CASE x = d
      BY <1>1, <1>3, <1>11, <1>12, <1>13, <3>1
    <3>2. CASE x # d
      BY <1>11, <1>13, <3>2
    <3>3. QED
      BY <3>1, <3>2
  <2>3. QED
    BY <1>8, <2>1, <2>2 DEF IInv, TypeOK, Mutations, PageTyped, Pipelines
<1>16. OneValue'
  <2>1. ASSUME NEW x \in Devices, NEW y \in Devices,
               NEW i \in 1 .. Len(queue'[x]), NEW j \in 1 .. Len(queue'[y]),
               queue'[x][i].key = queue'[y][j].key
        PROVE  queue'[x][i].data = queue'[y][j].data
    <3>1. PICK a \in 1 .. Len(queue[x]) : queue'[x][i] = queue[x][a]
      BY <1>14
    <3>2. PICK b \in 1 .. Len(queue[y]) : queue'[y][j] = queue[y][b]
      BY <1>14
    <3>3. QED
      BY <2>1, <3>1, <3>2 DEF IInv, OneValue
  <2>2. QED
    BY <2>1 DEF OneValue
<1>17. ServerAgrees'
  <2>1. ASSUME NEW x \in Devices, NEW i \in 1 .. Len(queue'[x]), db[queue'[x][i].key] # NoDoc
        PROVE  db[queue'[x][i].key] = queue'[x][i].data
    <3>1. PICK a \in 1 .. Len(queue[x]) : queue'[x][i] = queue[x][a]
      BY <1>14
    <3>2. QED
      BY <2>1, <3>1 DEF IInv, ServerAgrees
  <2>2. QED
    BY <1>8, <2>1 DEF ServerAgrees
<1>18. \A x \in Devices : /\ sent'[x].applied \in Nat /\ sent'[x].seen \in Nat
                          /\ Len(queue'[x]) \in Nat
                          /\ sent'[x].seen =< sent'[x].applied /\ sent'[x].applied =< Len(queue'[x])
  <2>1. \A x \in Devices : sent'[x].applied \in Nat /\ sent'[x].seen \in Nat /\ Len(queue'[x]) \in Nat
    BY <1>3, <1>11, <1>12, <1>13
  <2>2. QED
    BY <1>15, <2>1 DEF TypeOK
<1>19. AppliedStored'
  <2>1. ASSUME NEW x \in Devices, NEW i \in 1 .. sent'[x].applied
        PROVE  db[queue'[x][i].key] = queue'[x][i].data
    <3>1. i \in 1 .. Len(queue'[x])
      BY <1>18
    <3>2. PICK a \in 1 .. sent[x].applied : queue'[x][i] = queue[x][a]
      BY <1>14, <3>1
    <3>3. QED
      BY <3>2 DEF IInv, AppliedStored
  <2>2. QED
    BY <1>8, <2>1 DEF AppliedStored
<1>20. SeenCached'
  <2>1. ASSUME NEW x \in Devices, NEW i \in 1 .. sent'[x].seen
        PROVE  cache'[x][queue'[x][i].key] = queue'[x][i].data
    <3>1. i \in 1 .. Len(queue'[x])
      BY <1>18
    <3>2. PICK a \in 1 .. sent[x].seen : queue'[x][i] = queue[x][a] /\ cache'[x] = cache[x]
      BY <1>14, <3>1
    <3>3. QED
      BY <3>2 DEF IInv, SeenCached
  <2>2. QED
    BY <2>1 DEF SeenCached
<1>21. CacheAgrees'
  <2>1. \A x \in Devices, k \in Ids : cache'[x][k] # NoDoc => cache'[x][k] = db[k]
    BY <1>10, <1>13 DEF IInv, CacheAgrees
  <2>2. QED
    BY <1>8, <2>1 DEF CacheAgrees
<1>22. QED
  BY <1>15, <1>16, <1>17, <1>19, <1>20, <1>21 DEF IInv

(* A snapshot holds what the server applied; a broken stream starts over.  *)
LEMMA SnapshotInv ==
  ASSUME IInv, NEW d \in Devices, ApplyRemoteEvent(d) \/ OnWriteStreamClose(d), PageTyped'
  PROVE  IInv'
<1>1. cache \in [Devices -> [Ids -> Docs]] /\ db \in [Ids -> Docs] /\ sent \in [Devices -> Pipelines]
  BY DEF IInv, TypeOK, Pipelines
<1>2. db' = db /\ queue' = queue
  BY DEF ApplyRemoteEvent, OnWriteStreamClose
<1>3. \A x \in Devices :
        /\ sent[x].applied \in Nat /\ sent[x].seen \in Nat /\ sent[x].seen =< sent[x].applied
        /\ sent[x].applied =< Len(queue[x]) /\ ~sent[x].refused /\ Len(queue[x]) \in Nat
  BY ClientTypes
<1>4. PICK known \in [Ids -> Docs], s \in Pipelines :
        /\ cache' = [cache EXCEPT ![d] = known] /\ sent' = [sent EXCEPT ![d] = s]
        /\ known = cache[d] \/ known = db
        /\ s.seen = 0 \/ known = db
        /\ s.applied =< sent[d].applied /\ s.seen =< s.applied /\ ~s.refused
  <2>1. CASE OnWriteStreamClose(d)
    <3>1. PICK s : s = Idle
      OBVIOUS
    <3>2. /\ s \in Pipelines /\ s.seen = 0 /\ s.applied =< sent[d].applied
          /\ s.seen =< s.applied /\ ~s.refused
      BY <1>3, <3>1 DEF Idle, Pipelines
    <3>3. sent' = [sent EXCEPT ![d] = s] /\ cache' = cache
      BY <2>1, <3>1 DEF OnWriteStreamClose
    <3>4. PICK known \in [Ids -> Docs] : known = cache[d]
      BY <1>1
    <3>5. cache' = [cache EXCEPT ![d] = known]
      BY <1>1, <3>3, <3>4
    <3>6. QED
      BY <3>2, <3>3, <3>4, <3>5
  <2>2. CASE ApplyRemoteEvent(d)
    <3>1. PICK s : s = [sent[d] EXCEPT !.seen = sent[d].applied]
      OBVIOUS
    <3>2. sent' = [sent EXCEPT ![d] = s]
      BY <1>1, <2>2, <3>1 DEF ApplyRemoteEvent, Pipelines
    <3>3. sent[d] \in Pipelines /\ ~sent[d].refused
      BY ClientTypes
    <3>4. /\ s \in Pipelines /\ s.applied =< sent[d].applied
          /\ s.seen =< s.applied /\ ~s.refused
      BY <3>1, <3>3 DEF Pipelines
    <3>5. DOMAIN cache[d] = Ids
      BY <1>1
    <3>6. db = [k \in Ids |-> db[k]]
      BY <1>1
    <3>7. cache' = [cache EXCEPT ![d] = db]
      BY <2>2, <3>5, <3>6 DEF ApplyRemoteEvent
    <3>8. QED
      BY <1>1, <3>2, <3>4, <3>7
  <2>3. QED
    BY <2>1, <2>2
<1>5. /\ sent'[d] = s /\ cache'[d] = known
      /\ \A x \in Devices : x # d => sent'[x] = sent[x] /\ cache'[x] = cache[x]
  BY <1>1, <1>4
<1>6. \A x \in Devices :
        /\ sent'[x].applied \in Nat /\ sent'[x].applied =< sent[x].applied /\ sent'[x].seen \in Nat
        /\ sent'[x].seen =< sent'[x].applied /\ sent'[x].applied =< Len(queue'[x])
        /\ ~sent'[x].refused
  <2>1. s.applied \in Nat /\ s.seen \in Nat
    BY DEF Pipelines
  <2>2. QED
    BY <1>2, <1>3, <1>4, <1>5, <2>1
<1>7. TypeOK'
  <2>1. sent' \in [Devices -> Pipelines] /\ cache' \in [Devices -> [Ids -> Docs]]
    BY <1>1, <1>4
  <2>2. QED
    BY <1>2, <1>6, <2>1 DEF IInv, TypeOK, PageTyped, Pipelines
<1>8. OneValue' /\ ServerAgrees'
  BY <1>2 DEF IInv, OneValue, ServerAgrees
<1>9. \A x \in Devices : \A i \in 1 .. sent'[x].applied : i \in 1 .. sent[x].applied
  BY <1>3, <1>6
<1>10. AppliedStored'
  BY <1>2, <1>9 DEF IInv, AppliedStored
<1>11. SeenCached'
  <2>1. ASSUME NEW x \in Devices, NEW i \in 1 .. sent'[x].seen
        PROVE  cache'[x][queue[x][i].key] = queue[x][i].data
    <3>1. CASE x # d
      BY <1>5, <3>1 DEF IInv, SeenCached
    <3>2. CASE x = d
      <4>1. i \in 1 .. sent'[d].applied /\ s.seen # 0
        BY <1>5, <1>6, <3>2
      <4>2. cache'[d] = db
        BY <1>4, <1>5, <4>1
      <4>3. db[queue[d][i].key] = queue[d][i].data
        BY <1>9, <4>1 DEF IInv, AppliedStored
      <4>4. QED
        BY <3>2, <4>2, <4>3
    <3>3. QED
      BY <3>1, <3>2
  <2>2. QED
    BY <1>2, <2>1 DEF SeenCached
<1>12. CacheAgrees'
  <2>1. \A x \in Devices, k \in Ids : cache'[x][k] # NoDoc => cache'[x][k] = db[k]
    BY <1>4, <1>5 DEF IInv, CacheAgrees
  <2>2. QED
    BY <1>2, <2>1 DEF CacheAgrees
<1>13. QED
  BY <1>7, <1>8, <1>10, <1>11, <1>12 DEF IInv

-----------------------------------------------------------------------------
(* Every step of every phone keeps the invariant.                          *)
LEMMA NextInv == IInv /\ [Next]_vars => IInv'
<1> SUFFICES ASSUME IInv, [Next]_vars PROVE IInv'
  OBVIOUS
<1>1. CASE UNCHANGED vars
  <2>1. UNCHANGED store /\ PageTyped'
    BY <1>1 DEF vars, store, PageTyped, IInv, TypeOK
  <2>2. QED
    BY <2>1, PageInv
<1>2. ASSUME NEW d \in Devices, Sync(d) PROVE IInv'
  <2>1. PageTyped'
    BY <1>2 DEF Sync, PageTyped, IInv, TypeOK
  <2>2. QED
    BY <1>2, <2>1, CommitInv, HandleSuccessfulWriteInv, SnapshotInv DEF Sync
<1>3. ASSUME NEW d \in Devices, LoseAnswers(d) PROVE IInv'
  <2>1. PageTyped' /\ OnWriteStreamClose(d)
    BY <1>3, PostsAssumption DEF LoseAnswers, Input, PageTyped, IInv, TypeOK
  <2>2. QED
    BY <2>1, SnapshotInv
<1>4. QED
  BY <1>1, <1>2, <1>3, TextFieldInv, PostMessageInv DEF Next

(* The inductive invariant holds in every behaviour.                       *)
LEMMA Invariance == Spec => []IInv
  BY InitInv, NextInv, PTL DEF Spec

(* Type correctness: every document is a post or missing, every queued     *)
(* write is the set of a post, and no post is ever refused.                *)
THEOREM TypeCorrect == Spec => []TypeOK
  BY Invariance, PTL DEF IInv

-----------------------------------------------------------------------------
(* What is on a screen.                                                    *)

OnScreen(d) == View(cache[d], queue[d])

(* The posts on the screen of d before a step are there after it, with the *)
(* same author and time stamp, and in the same order of getPostStream.     *)
KeepsScreen(d) ==
  \A i \in Ids : OnScreen(d)[i] # NoDoc =>
    /\ OnScreen(d)'[i] = OnScreen(d)[i]
    /\ \A j \in Ids : OnScreen(d)[j] # NoDoc =>
         (Before(OnScreen(d)', i, j) <=> Before(OnScreen(d), i, j))

(* A queue of sets replays as FirestoreClientProofs has it.                *)
LEMMA QueuesHaveValues ==
  ASSUME IInv, NEW d \in Devices
  PROVE  /\ queue[d] \in Seq(Mutations) /\ HasValues(queue[d])
         /\ DOMAIN cache[d] = Ids /\ cache[d] = [k \in DOMAIN cache[d] |-> cache[d][k]]
<1>1. \A i \in 1 .. Len(queue[d]) : queue[d][i].op = "set"
  BY ClientTypes
<1>2. queue[d] \in Seq(Mutations) /\ cache[d] \in [Ids -> Docs]
  BY ClientTypes
<1>3. HasValues(queue[d])
  BY <1>1 DEF HasValues
<1>4. QED
  BY <1>2, <1>3

(* A new post leaves the other documents of the view as they are.          *)
LEMMA PostKeepsView ==
  ASSUME IInv, NEW d \in Devices, NEW x \in Devices, postMessage(x), NEW k \in Ids,
         OnScreen(d)[k] # NoDoc
  PROVE  OnScreen(d)'[k] = OnScreen(d)[k]
<1>1. PICK i \in Ids, t \in Times : IsUnused(i) /\ addPost(x, i, t)
  BY DEF postMessage
<1>2. PICK m : m = Set(i, Post(x, t))
  OBVIOUS
<1>3. m \in Mutations /\ m.key = i
  <2>1. Post(x, t) \in [by : Devices, at : Times]
    BY DEF Post
  <2>2. Post(x, t) \in Docs \ {NoDoc}
    BY <2>1, PostsAssumption DEF Docs
  <2>3. QED
    BY <1>2, <2>2 DEF Set, Mutations
<1>4. cache' = cache /\ queue' = [queue EXCEPT ![x] = queue[x] \o <<m>>]
  BY <1>1, <1>2 DEF addPost, WriteLocally
<1>5. queue \in [Devices -> Seq(Mutations)]
  BY DEF IInv, TypeOK, Mutations
<1>6. CASE d # x
  BY <1>4, <1>5, <1>6 DEF OnScreen
<1>7. CASE d = x
  <2>1. PICK q \in Seq(Mutations) : q = queue[d]
    BY <1>5
  <2>2. PICK docs : docs = cache[d]
    OBVIOUS
  <2>3. HasValues(q) /\ DOMAIN docs = Ids
    BY <2>1, <2>2, QueuesHaveValues
  <2>4. queue'[d] = Append(q, m) /\ cache'[d] = docs
    <3>1. queue'[d] = q \o <<m>>
      BY <1>4, <1>5, <1>7, <2>1
    <3>2. Append(q, m) = q \o <<m>>
      BY <1>3, AppendIsConcat
    <3>3. QED
      BY <1>4, <2>2, <3>1, <3>2
  <2>5. View(docs, Append(q, m)) = Apply(m, View(docs, q))
    BY <1>3, <2>3, ViewOfAppend
  <2>6. View(docs, q)[i] = NoDoc
    <3>1. docs[i] = NoDoc
      BY <1>1, <2>2 DEF IInv, CacheAgrees, IsUnused
    <3>2. \A j \in 1 .. Len(q) : q[j].key # i
      BY <1>1, <2>1 DEF IsUnused
    <3>3. i \in DOMAIN docs
      BY <2>3
    <3>4. \/ View(docs, q)[i] = docs[i]
          \/ \E j \in 1 .. Len(q) : q[j].key = i /\ View(docs, q)[i] = q[j].data
      BY <3>3, ViewOrigin
    <3>5. QED
      BY <3>1, <3>2, <3>4
  <2>7. View(docs, q)[k] # NoDoc /\ k # m.key
    BY <1>3, <2>1, <2>2, <2>6 DEF OnScreen
  <2>8. k \in DOMAIN View(docs, q)
    BY <2>3 DEF View
  <2>9. Apply(m, View(docs, q))[k] = View(docs, q)[k]
    BY <2>7, <2>8 DEF Apply
  <2>10. QED
    BY <2>1, <2>2, <2>4, <2>5, <2>9 DEF OnScreen
<1>8. QED
  BY <1>6, <1>7

(* An answer leaves the view: the write's result is in the cache already,  *)
(* or is put there.                                                        *)
LEMMA AnswerKeepsView ==
  ASSUME IInv, NEW d \in Devices, NEW x \in Devices, HandleSuccessfulWrite(x)
  PROVE  OnScreen(d)' = OnScreen(d)
<1>1. /\ queue \in [Devices -> Seq(Mutations)] /\ cache \in [Devices -> [Ids -> Docs]]
      /\ queue' = [queue EXCEPT ![x] = Tail(queue[x])]
      /\ cache' = [cache EXCEPT ![x] = IF sent[x].seen > 0 THEN cache[x]
                                       ELSE Apply(Head(queue[x]), cache[x])]
  BY DEF HandleSuccessfulWrite, IInv, TypeOK, Mutations
<1>2. CASE d # x
  BY <1>1, <1>2 DEF OnScreen
<1>3. CASE d = x
  <2>1. PICK q \in Seq(Mutations) : q = queue[d]
    BY <1>1
  <2>2. PICK docs \in [Ids -> Docs] : docs = cache[d]
    BY <1>1
  <2>3. HasValues(q) /\ docs = [k \in DOMAIN docs |-> docs[k]] /\ q # << >>
    BY <1>3, <2>1, <2>2, QueuesHaveValues, AnswerParts
  <2>4. PICK moved : moved = Apply(Head(q), docs)
    OBVIOUS
  <2>5. View(moved, Tail(q)) = View(docs, q)
    BY <2>3, <2>4, ViewOfTail
  <2>6. cache'[d] = moved
    <3>1. CASE sent[d].seen > 0
      <4>1. 1 \in 1 .. sent[d].seen
        BY <3>1, ClientTypes
      <4>2. docs[q[1].key] = q[1].data /\ Head(q) = q[1]
        BY <1>3, <2>1, <2>2, <4>1, AnswerParts DEF IInv, SeenCached
      <4>3. \A k \in Ids : Apply(Head(q), docs)[k] = docs[k]
        BY <4>2 DEF Apply, Result
      <4>4. Apply(Head(q), docs) = [k \in Ids |-> Apply(Head(q), docs)[k]]
        BY DEF Apply
      <4>5. Apply(Head(q), docs) = docs
        BY <4>3, <4>4
      <4>6. cache'[d] = docs
        BY <1>1, <1>3, <2>2, <3>1
      <4>7. QED
        BY <2>4, <4>5, <4>6
    <3>2. CASE ~(sent[d].seen > 0)
      BY <1>1, <1>3, <2>1, <2>2, <2>4, <3>2
    <3>3. QED
      BY <3>1, <3>2
  <2>7. queue'[d] = Tail(q)
    BY <1>1, <1>3, <2>1
  <2>8. QED
    BY <2>1, <2>2, <2>5, <2>6, <2>7 DEF OnScreen
<1>4. QED
  BY <1>2, <1>3

(* A snapshot brings posts and takes none away.                            *)
LEMMA SnapshotKeepsView ==
  ASSUME IInv, NEW d \in Devices, NEW x \in Devices, ApplyRemoteEvent(x), NEW k \in Ids,
         OnScreen(d)[k] # NoDoc
  PROVE  OnScreen(d)'[k] = OnScreen(d)[k]
<1>1. cache \in [Devices -> [Ids -> Docs]] /\ db \in [Ids -> Docs] /\ queue' = queue
  BY DEF ApplyRemoteEvent, IInv, TypeOK
<1>2. CASE d # x
  BY <1>1, <1>2 DEF OnScreen, ApplyRemoteEvent
<1>3. CASE d = x
  <2>1. PICK q : q = queue[d]
    OBVIOUS
  <2>2. PICK a : a = cache[d]
    OBVIOUS
  <2>3. PICK b : b = [i \in Ids |-> db[i]]
    OBVIOUS
  <2>4. Len(q) \in Nat /\ \A i \in 1 .. Len(q) : q[i].op # "update"
    BY <2>1, ClientTypes
  <2>5. k \in DOMAIN a /\ k \in DOMAIN b /\ DOMAIN cache[d] = Ids
    BY <1>1, <2>2, <2>3
  <2>6. \/ View(a, q)[k] = View(b, q)[k]
        \/ View(a, q)[k] = a[k] /\ View(b, q)[k] = b[k]
    BY <2>4, <2>5, SetsDecide
  <2>7. a[k] # NoDoc => a[k] = b[k]
    BY <2>2, <2>3 DEF IInv, CacheAgrees
  <2>8. cache'[d] = b
    BY <1>1, <1>3, <2>3, <2>5 DEF ApplyRemoteEvent
  <2>9. View(a, q)[k] # NoDoc
    BY <2>1, <2>2 DEF OnScreen
  <2>10. View(b, q)[k] = View(a, q)[k]
    BY <2>6, <2>7, <2>9
  <2>11. QED
    BY <1>1, <2>1, <2>2, <2>8, <2>10 DEF OnScreen
<1>4. QED
  BY <1>2, <1>3

(* A post on a screen stays there as it was written, and in its place      *)
(* among the posts already there, whatever any phone, the server or the    *)
(* network does next.                                                      *)
THEOREM PostsKept == Spec => [][\A d \in Devices : KeepsScreen(d)]_vars
<1>1. ASSUME IInv, Next, NEW d \in Devices, NEW k \in Ids, OnScreen(d)[k] # NoDoc
      PROVE  OnScreen(d)'[k] = OnScreen(d)[k]
  <2>1. ASSUME UNCHANGED <<cache, queue>> PROVE OnScreen(d)'[k] = OnScreen(d)[k]
    BY <2>1 DEF OnScreen
  <2>2. PICK x \in Devices :
          TypeMessage(x) \/ postMessage(x) \/ Rebuild(x) \/ LoseAnswers(x) \/ Sync(x)
    BY <1>1 DEF Next
  <2>3. CASE TypeMessage(x) \/ Rebuild(x) \/ LoseAnswers(x)
    BY <2>1, <2>3 DEF TypeMessage, Rebuild, LoseAnswers, OnWriteStreamClose, store
  <2>4. CASE postMessage(x)
    BY <1>1, <2>4, PostKeepsView
  <2>5. CASE Sync(x)
    <3>1. CASE Commit(x)
      BY <2>1, <3>1 DEF Commit
    <3>2. CASE HandleSuccessfulWrite(x)
      BY <1>1, <3>2, AnswerKeepsView
    <3>3. CASE ApplyRemoteEvent(x)
      BY <1>1, <3>3, SnapshotKeepsView
    <3>4. QED
      BY <2>5, <3>1, <3>2, <3>3 DEF Sync
  <2>6. QED
    BY <2>2, <2>3, <2>4, <2>5
<1>2. IInv /\ [Next]_vars => [\A d \in Devices : KeepsScreen(d)]_vars
  <2>1. ASSUME IInv, Next, NEW d \in Devices PROVE KeepsScreen(d)
    BY <1>1, <2>1 DEF KeepsScreen, Before
  <2>2. QED
    BY <2>1
<1>3. QED
  BY <1>2, Invariance, PTL DEF Spec
=============================================================================
