-------------------------- MODULE ThreadPoolLemmas --------------------------
(***************************************************************************)
(* What the operators of ThreadPool on queues do, for every queue: the walk*)
(* that a cancellation makes, the search and the removal of a worker, and  *)
(* the tasks of a batch.                                                   *)
(***************************************************************************)
EXTENDS ThreadPool, WellFoundedInduction, SequenceTheorems, FiniteSetTheorems, TLAPS

(* A set of naturals that is not empty has a least member.                 *)
LEMMA LeastNumber ==
  ASSUME NEW S \in SUBSET Nat, S # {}
  PROVE \E m \in S : \A n \in S : m <= n
  <1>1. IsWellFoundedOn(OpToRel(<, Nat), Nat)
    BY NatLessThanWellFounded
  <1>2. PICK m \in S : \A y \in S : ~(<<y, m>> \in OpToRel(<, Nat))
    BY <1>1, WFMin
  <1>3. \A y \in S : ~(y < m)
    BY <1>2 DEF OpToRel
  <1> QED BY <1>3, SMT

(* A set of naturals with 0 and all successors of its members is Nat: the  *)
(* induction of the lemmas about recursive functions below.                *)
LEMMA SetInduction ==
  ASSUME NEW S \in SUBSET Nat, 0 \in S, \A n \in S : n + 1 \in S
  PROVE S = Nat
  <1> SUFFICES ASSUME Nat \ S # {} PROVE FALSE
    OBVIOUS
  <1>1. PICK m \in Nat \ S : \A n \in Nat \ S : m <= n
    BY LeastNumber
  <1>2. m - 1 \in S
    BY <1>1
  <1> QED BY <1>2, <1>1

-----------------------------------------------------------------------------
(* g is what the walk of NotOfRequest has kept of q after each of its      *)
(* first n steps.                                                          *)
Walk(q, r, g, n) ==
    g = [m \in 0 .. n |-> IF m = 0 THEN <<>>
          ELSE IF q[m].req = r THEN g[m - 1] ELSE Append(g[m - 1], q[m])]

(* Such a function exists for every n.                                     *)
LEMMA WalkExists ==
  ASSUME NEW q, NEW r, NEW n \in Nat
  PROVE \E g : Walk(q, r, g, n)
  <1> DEFINE S == {k \in Nat : \E g : Walk(q, r, g, k)}
  <1>1. 0 \in S
    <2>1. Walk(q, r, [m \in 0 .. 0 |-> <<>>], 0)
      BY DEF Walk
    <2> QED BY <2>1
  <1>2. ASSUME NEW k \in S PROVE k + 1 \in S
    <2>1. PICK g : Walk(q, r, g, k)
      OBVIOUS
    <2> DEFINE last == IF q[k + 1].req = r THEN g[k] ELSE Append(g[k], q[k + 1])
               h == [m \in 0 .. k + 1 |-> IF m <= k THEN g[m] ELSE last]
    <2> k \in Nat OBVIOUS
    <2>2. h[k] = g[k] /\ h[k + 1] = last
      OBVIOUS
    <2>3. ASSUME NEW m \in 0 .. k + 1
          PROVE  h[m] = IF m = 0 THEN <<>>
                        ELSE IF q[m].req = r THEN h[m - 1] ELSE Append(h[m - 1], q[m])
      <3>1. CASE m = k + 1
        <4>1. m # 0 /\ m - 1 = k
          BY <3>1
        <4>2. h[m] = last /\ h[m - 1] = g[k]
          BY <3>1, <4>1, <2>2
        <4> HIDE DEF h
        <4> QED BY <4>1, <4>2, <3>1
      <3>2. CASE m <= k
        <4>1. h[m] = g[m] /\ (m # 0 => h[m - 1] = g[m - 1])
          BY <3>2
        <4>2. m \in 0 .. k
          BY <3>2
        <4>3. g[m] = IF m = 0 THEN <<>>
                        ELSE IF q[m].req = r THEN g[m - 1] ELSE Append(g[m - 1], q[m])
          BY <4>2, <2>1 DEF Walk
        <4> HIDE DEF h
        <4> QED BY <4>1, <4>3
      <3> QED BY <3>1, <3>2
    <2>4. h = [m \in 0 .. k + 1 |-> h[m]]
      OBVIOUS
    <2> HIDE DEF h
    <2>5. Walk(q, r, h, k + 1)
      BY <2>3, <2>4, Zenon DEF Walk
    <2> QED BY <2>5
  <1> HIDE DEF S
  <1>3. S = Nat
    <2>1. S \in SUBSET Nat BY DEF S
    <2> QED BY <1>1, <1>2, <2>1, SetInduction
  <1> QED BY <1>3 DEF S

(* NotOfRequest is the last value of such a function.                      *)
LEMMA NotOfRequestWalks ==
  ASSUME NEW q, NEW r, Len(q) \in Nat
  PROVE \E g : Walk(q, r, g, Len(q)) /\ NotOfRequest(q, r) = g[Len(q)]
  <1> DEFINE c == CHOOSE g : Walk(q, r, g, Len(q))
  <1>1. Walk(q, r, c, Len(q))
    BY WalkExists
  <1>2. NotOfRequest(q, r) = c[Len(q)]
    BY DEF NotOfRequest, Walk
  <1> QED BY <1>1, <1>2

(* k is the first n elements of q without those of r; h tells where the    *)
(* elements of k stood.                                                    *)
Keeps(h, k, q, r, n) ==
    /\ h \in [1 .. Len(k) -> 1 .. n]
    /\ \A i, j \in 1 .. Len(k) : i < j => h[i] < h[j]
    /\ \A j \in 1 .. Len(k) : k[j] = q[h[j]] /\ k[j].req # r
    /\ \A i \in 1 .. n : q[i].req # r => \E j \in 1 .. Len(k) : h[j] = i

(* One step of the walk, at a node that is kept.                           *)
LEMMA KeepsOneMore ==
  ASSUME NEW q, NEW r, NEW n \in Nat, NEW k \in Seq(Task), NEW h, Keeps(h, k, q, r, n),
         q[n + 1] \in Task, q[n + 1].req # r
  PROVE  \E f : Keeps(f, Append(k, q[n + 1]), q, r, n + 1)
  <1> DEFINE m == Len(k) + 1
             e == Append(k, q[n + 1])
             f == [j \in 1 .. m |-> IF j = m THEN n + 1 ELSE h[j]]
  <1>1. m \in Nat /\ Len(e) = m /\ m - 1 = Len(k) /\ Len(k) \in Nat
    OBVIOUS
  <1>2. \A j \in 1 .. Len(k) : e[j] = k[j]
    OBVIOUS
  <1>3. e[m] = q[n + 1]
    OBVIOUS
  <1>4. \A j \in 1 .. Len(k) : h[j] \in 1 .. n
    BY DEF Keeps
  <1>5. f[m] = n + 1 /\ \A j \in 1 .. Len(k) : f[j] = h[j]
    OBVIOUS
  <1>6. \A j \in 1 .. m : j = m \/ j \in 1 .. Len(k)
    OBVIOUS
  <1>7. f \in [1 .. m -> 1 .. n + 1]
    <2>1. \A j \in 1 .. m : f[j] \in 1 .. n + 1
      BY <1>4, <1>5, <1>6, <1>1
    <2> QED BY <2>1
  <1> HIDE DEF m, e, f
  <1>8. \A i, j \in 1 .. m : i < j => f[i] < f[j]
    <2> SUFFICES ASSUME NEW i \in 1 .. m, NEW j \in 1 .. m, i < j PROVE f[i] < f[j]
      OBVIOUS
    <2>1. i \in 1 .. Len(k)
      BY <1>1
    <2>2. CASE j = m
      BY <2>1, <2>2, <1>4, <1>5
    <2>3. CASE j \in 1 .. Len(k)
      BY <2>1, <2>3, <1>5 DEF Keeps
    <2> QED BY <2>2, <2>3, <1>6
  <1>9. \A j \in 1 .. m : e[j] = q[f[j]] /\ e[j].req # r
    <2> SUFFICES ASSUME NEW j \in 1 .. m PROVE e[j] = q[f[j]] /\ e[j].req # r
      OBVIOUS
    <2>1. CASE j = m
      BY <2>1, <1>3, <1>5
    <2>2. CASE j \in 1 .. Len(k)
      BY <2>2, <1>2, <1>5 DEF Keeps
    <2> QED BY <2>1, <2>2, <1>6
  <1>10. \A i \in 1 .. n + 1 : q[i].req # r => \E j \in 1 .. m : f[j] = i
    <2> SUFFICES ASSUME NEW i \in 1 .. n + 1, q[i].req # r PROVE \E j \in 1 .. m : f[j] = i
      OBVIOUS
    <2>1. CASE i = n + 1
      BY <2>1, <1>1, <1>5
    <2>2. CASE i \in 1 .. n
      <3>1. PICK j \in 1 .. Len(k) : h[j] = i
        BY <2>2 DEF Keeps
      <3> QED BY <3>1, <1>1, <1>5
    <2> QED BY <2>1, <2>2
  <1>11. Keeps(f, e, q, r, n + 1)
    BY <1>1, <1>7, <1>8, <1>9, <1>10 DEF Keeps
  <1> QED BY <1>11 DEF e

(* One step of the walk, at a node that is removed.                        *)
LEMMA KeepsNoMore ==
  ASSUME NEW q, NEW r, NEW n \in Nat, NEW k \in Seq(Task), NEW h, Keeps(h, k, q, r, n),
         q[n + 1].req = r
  PROVE  Keeps(h, k, q, r, n + 1)
  <1>1. \A j \in 1 .. Len(k) : h[j] \in 1 .. n + 1
    BY DEF Keeps
  <1>2. h \in [1 .. Len(k) -> 1 .. n + 1]
    BY <1>1 DEF Keeps
  <1>3. \A i \in 1 .. n + 1 : i = n + 1 \/ i \in 1 .. n
    OBVIOUS
  <1> QED BY <1>2, <1>3 DEF Keeps

(* The walk over a list keeps exactly the nodes that are not of r, in their*)
(* order.                                                                  *)
LEMMA NotOfRequestKeeps ==
  ASSUME NEW q \in Seq(Task), NEW r
  PROVE  /\ NotOfRequest(q, r) \in Seq(Task)
         /\ \E h : Keeps(h, NotOfRequest(q, r), q, r, Len(q))
  <1>1. PICK g : Walk(q, r, g, Len(q)) /\ NotOfRequest(q, r) = g[Len(q)]
    BY NotOfRequestWalks
  <1> DEFINE S == {n \in Nat : n <= Len(q) => g[n] \in Seq(Task) /\ \E h : Keeps(h, g[n], q, r, n)}
  <1>2. 0 \in S
    <2>1. g[0] = <<>>
      BY <1>1 DEF Walk
    <2>2. Keeps([j \in 1 .. 0 |-> 0], <<>>, q, r, 0)
      BY DEF Keeps
    <2>3. g[0] \in Seq(Task) /\ \E h : Keeps(h, g[0], q, r, 0)
      BY <2>1, <2>2
    <2> QED BY <2>3
  <1>3. ASSUME NEW n \in S PROVE n + 1 \in S
    <2> SUFFICES ASSUME n + 1 <= Len(q)
                 PROVE  g[n + 1] \in Seq(Task) /\ \E h : Keeps(h, g[n + 1], q, r, n + 1)
      OBVIOUS
    <2>1. n \in Nat /\ g[n] \in Seq(Task) /\ \E h : Keeps(h, g[n], q, r, n)
      OBVIOUS
    <2>2. n + 1 \in 0 .. Len(q) /\ q[n + 1] \in Task
      BY <2>1
    <2>3. g[n + 1] = IF q[n + 1].req = r THEN g[n] ELSE Append(g[n], q[n + 1])
      <3>1. n + 1 # 0 /\ (n + 1) - 1 = n
        BY <2>1
      <3> QED BY <1>1, <2>2, <3>1 DEF Walk
    <2> HIDE DEF S
    <2> QED BY <2>1, <2>2, <2>3, KeepsOneMore, KeepsNoMore
  <1>4. Len(q) \in S
    <2>1. S \in SUBSET Nat
      OBVIOUS
    <2> HIDE DEF S
    <2>2. S = Nat
      BY <2>1, <1>2, <1>3, SetInduction
    <2> QED BY <2>2
  <1> QED BY <1>1, <1>4

-----------------------------------------------------------------------------
(* k is q without the positions outside K.                                 *)
Left(h, k, q, K) ==
    /\ h \in [1 .. Len(k) -> K]
    /\ \A i, j \in 1 .. Len(k) : i < j => h[i] < h[j]
    /\ \A j \in 1 .. Len(k) : k[j] = q[h[j]]
    /\ \A i \in K : \E j \in 1 .. Len(k) : h[j] = i

(* The tasks of one request stand in the order of submission.              *)
InOrder(q) ==
    \A i, j \in 1 .. Len(q) : i < j /\ q[i].req = q[j].req => q[i].idx < q[j].idx

(* Leaving elements out does not disturb the order.                        *)
LEMMA LeftKeepsOrder ==
  ASSUME NEW q \in Seq(Task), NEW k \in Seq(Task), NEW K \in SUBSET (1 .. Len(q)),
         NEW h, Left(h, k, q, K), InOrder(q)
  PROVE  InOrder(k)
  <1> SUFFICES ASSUME NEW i \in 1 .. Len(k), NEW j \in 1 .. Len(k), i < j,
                      k[i].req = k[j].req
               PROVE  k[i].idx < k[j].idx
    BY DEF InOrder
  <1>1. h[i] \in 1 .. Len(q) /\ h[j] \in 1 .. Len(q) /\ h[i] < h[j]
    BY DEF Left
  <1>2. k[i] = q[h[i]] /\ k[j] = q[h[j]]
    BY DEF Left
  <1> QED BY <1>1, <1>2 DEF InOrder

(* What is left.                                                           *)
LEMMA LeftMembers ==
  ASSUME NEW q \in Seq(Task), NEW k \in Seq(Task), NEW K \in SUBSET (1 .. Len(q)),
         NEW h, Left(h, k, q, K)
  PROVE  ToSet(k) = {q[i] : i \in K}
  <1>1. ASSUME NEW j \in 1 .. Len(k) PROVE k[j] \in {q[i] : i \in K}
    BY DEF Left
  <1>2. ASSUME NEW i \in K PROVE \E j \in 1 .. Len(k) : k[j] = q[i]
    <2>1. PICK j \in 1 .. Len(k) : h[j] = i
      BY DEF Left
    <2> QED BY <2>1 DEF Left
  <1>3. DOMAIN k = 1 .. Len(k)
    OBVIOUS
  <1> QED BY <1>1, <1>2, <1>3 DEF ToSet

(* In order, no task stands in a queue twice.                              *)
LEMMA InOrderDistinct ==
  ASSUME NEW q \in Seq(Task), InOrder(q), NEW i \in 1 .. Len(q), NEW j \in 1 .. Len(q),
         q[i] = q[j]
  PROVE  i = j
  <1>1. q[i] \in Task
    OBVIOUS
  <1>2. q[i].idx \in Int
    BY <1>1, BatchAssumption DEF Task
  <1> QED BY <1>2 DEF InOrder

(* NotOfRequest removes the tasks of r, all of them and no others, and     *)
(* keeps the order (unlinking in worker_queue_remove_by_req).              *)
LEMMA CancelMembers ==
  ASSUME NEW q \in Seq(Task), NEW r
  PROVE  /\ NotOfRequest(q, r) \in Seq(Task)
         /\ ToSet(NotOfRequest(q, r)) = {t \in ToSet(q) : t.req # r}
         /\ InOrder(q) => InOrder(NotOfRequest(q, r))
  <1> DEFINE k == NotOfRequest(q, r)
             K == {i \in 1 .. Len(q) : q[i].req # r}
  <1>1. k \in Seq(Task)
    BY NotOfRequestKeeps
  <1>2. PICK h : Keeps(h, k, q, r, Len(q))
    BY NotOfRequestKeeps
  <1> HIDE DEF k
  <1>3. \A j \in 1 .. Len(k) : h[j] \in K
    BY <1>2 DEF Keeps
  <1>4. Left(h, k, q, K)
    BY <1>2, <1>3 DEF Keeps, Left
  <1>5. ToSet(k) = {q[i] : i \in K}
    BY <1>1, <1>4, LeftMembers
  <1>6. ToSet(q) = {q[i] : i \in 1 .. Len(q)}
    BY DEF ToSet
  <1>7. ToSet(k) = {t \in ToSet(q) : t.req # r}
    BY <1>5, <1>6
  <1>8. InOrder(q) => InOrder(k)
    BY <1>1, <1>4, LeftKeepsOrder
  <1> QED BY <1>1, <1>7, <1>8 DEF k

(* What RemoveAt leaves.                                                   *)
LEMMA RemoveAtLeaves ==
  ASSUME NEW q \in Seq(Task), NEW p \in 1 .. Len(q)
  PROVE  /\ RemoveAt(q, p) \in Seq(Task)
         /\ \E h : Left(h, RemoveAt(q, p), q, (1 .. Len(q)) \ {p})
  <1> DEFINE a == SubSeq(q, 1, p - 1)
             b == SubSeq(q, p + 1, Len(q))
             k == RemoveAt(q, p)
             h == [j \in 1 .. Len(q) - 1 |-> IF j < p THEN j ELSE j + 1]
  <1>1. a \in Seq(Task) /\ Len(a) = p - 1 /\ \A j \in 1 .. p - 1 : a[j] = q[j]
    OBVIOUS
  <1>2. b \in Seq(Task) /\ Len(b) = Len(q) - p /\ \A j \in 1 .. Len(q) - p : b[j] = q[p + j]
    OBVIOUS
  <1>3. k = a \o b
    BY DEF RemoveAt
  <1> HIDE DEF a, b, k
  <1>4. k \in Seq(Task) /\ Len(k) = Len(q) - 1
    BY <1>1, <1>2, <1>3
  <1>5. ASSUME NEW j \in 1 .. Len(q) - 1
        PROVE  k[j] = q[IF j < p THEN j ELSE j + 1]
    <2>1. CASE j < p
      BY <2>1, <1>1, <1>2, <1>3
    <2>2. CASE ~(j < p)
      <3>1. k[j] = b[j - (p - 1)]
        BY <2>2, <1>1, <1>2, <1>3
      <3>2. j - (p - 1) \in 1 .. Len(q) - p /\ p + (j - (p - 1)) = j + 1
        BY <2>2
      <3> QED BY <3>1, <3>2, <1>2, <2>2
    <2> QED BY <2>1, <2>2
  <1>6. h \in [1 .. Len(k) -> (1 .. Len(q)) \ {p}]
    BY <1>4
  <1>7. \A i, j \in 1 .. Len(k) : i < j => h[i] < h[j]
    BY <1>4
  <1>8. \A j \in 1 .. Len(k) : k[j] = q[h[j]]
    BY <1>4, <1>5
  <1>9. ASSUME NEW i \in (1 .. Len(q)) \ {p} PROVE \E j \in 1 .. Len(k) : h[j] = i
    <2>1. CASE i < p
      <3>1. i \in 1 .. Len(k) /\ h[i] = i
        BY <2>1, <1>4
      <3> QED BY <3>1
    <2>2. CASE i > p
      <3>1. i - 1 \in 1 .. Len(k) /\ h[i - 1] = i
        BY <2>2, <1>4
      <3> QED BY <3>1
    <2>3. i < p \/ i > p
      OBVIOUS
    <2> HIDE DEF h
    <2> QED BY <2>1, <2>2, <2>3
  <1>10. Left(h, k, q, (1 .. Len(q)) \ {p})
    <2> HIDE DEF h
    <2> QED BY <1>6, <1>7, <1>8, <1>9 DEF Left
  <1> QED BY <1>4, <1>10 DEF k

(* Taking a task out of a queue in order leaves the other tasks, in order. *)
LEMMA RemoveMembers ==
  ASSUME NEW q \in Seq(Task), NEW p \in 1 .. Len(q), InOrder(q)
  PROVE  /\ ToSet(RemoveAt(q, p)) = ToSet(q) \ {q[p]}
         /\ InOrder(RemoveAt(q, p))
  <1> DEFINE k == RemoveAt(q, p)
             K == (1 .. Len(q)) \ {p}
  <1>1. k \in Seq(Task) /\ \E h : Left(h, k, q, K)
    BY RemoveAtLeaves
  <1>2. ToSet(k) = {q[i] : i \in K}
    BY <1>1, LeftMembers
  <1>3. ToSet(q) = {q[i] : i \in 1 .. Len(q)}
    BY DEF ToSet
  <1>4. \A i \in K : q[i] # q[p]
    BY InOrderDistinct
  <1>5. InOrder(k)
    BY <1>1, LeftKeepsOrder
  <1> HIDE DEF k
  <1>6. ToSet(k) = ToSet(q) \ {q[p]}
    BY <1>2, <1>3, <1>4
  <1> QED BY <1>5, <1>6 DEF k

(* Appending a batch to a queue.                                           *)
LEMMA AppendMembers ==
  ASSUME NEW q \in Seq(Task), NEW b \in Seq(Task)
  PROVE  /\ q \o b \in Seq(Task)
         /\ ToSet(q \o b) = ToSet(q) \cup ToSet(b)
         /\ InOrder(q) /\ InOrder(b) /\ (\A t \in ToSet(q), u \in ToSet(b) : t.req # u.req)
              => InOrder(q \o b)
  <1> DEFINE k == q \o b
  <1>1. k \in Seq(Task) /\ Len(k) = Len(q) + Len(b)
    OBVIOUS
  <1>2. \A j \in 1 .. Len(q) : j \in 1 .. Len(k) /\ k[j] = q[j]
    OBVIOUS
  <1>3. \A j \in 1 .. Len(b) : Len(q) + j \in 1 .. Len(k) /\ k[Len(q) + j] = b[j]
    OBVIOUS
  <1>4. ASSUME NEW j \in 1 .. Len(k)
        PROVE  \/ j \in 1 .. Len(q) /\ k[j] = q[j]
               \/ j > Len(q) /\ j - Len(q) \in 1 .. Len(b) /\ k[j] = b[j - Len(q)]
    OBVIOUS
  <1> HIDE DEF k
  <1>5. ToSet(q) = {q[j] : j \in 1 .. Len(q)} /\ ToSet(b) = {b[j] : j \in 1 .. Len(b)}
    BY DEF ToSet
  <1>6. ToSet(k) = {k[j] : j \in 1 .. Len(k)}
    BY <1>1 DEF ToSet
  <1>7. ToSet(k) = ToSet(q) \cup ToSet(b)
    BY <1>2, <1>3, <1>4, <1>5, <1>6
  <1>8. ASSUME InOrder(q), InOrder(b), \A t \in ToSet(q), u \in ToSet(b) : t.req # u.req
        PROVE  InOrder(k)
    <2> SUFFICES ASSUME NEW i \in 1 .. Len(k), NEW j \in 1 .. Len(k), i < j,
                        k[i].req = k[j].req
                 PROVE  k[i].idx < k[j].idx
      BY DEF InOrder
    <2>1. CASE j \in 1 .. Len(q) /\ k[j] = q[j]
      <3>1. i \in 1 .. Len(q) /\ k[i] = q[i]
        BY <2>1, <1>1, <1>2
      <3> QED BY <2>1, <3>1, <1>8 DEF InOrder
    <2>2. CASE j > Len(q) /\ j - Len(q) \in 1 .. Len(b) /\ k[j] = b[j - Len(q)]
      <3>1. CASE i \in 1 .. Len(q) /\ k[i] = q[i]
        <4>1. k[i] \in ToSet(q) /\ k[j] \in ToSet(b)
          BY <3>1, <2>2, <1>5
        <4> QED BY <4>1, <1>8
      <3>2. CASE i > Len(q) /\ i - Len(q) \in 1 .. Len(b) /\ k[i] = b[i - Len(q)]
        <4>1. i - Len(q) < j - Len(q)
          BY <1>1
        <4> QED BY <4>1, <3>2, <2>2, <1>8 DEF InOrder
      <3> QED BY <3>1, <3>2, <1>4
    <2> QED BY <2>1, <2>2, <1>4
  <1> QED BY <1>1, <1>7, <1>8 DEF k

(* The first element of a list, and the rest.                              *)
LEMMA TailMembers ==
  ASSUME NEW q \in Seq(Task), q # <<>>
  PROVE  Head(q) \in ToSet(q) /\ ToSet(Tail(q)) \subseteq ToSet(q)
  <1>1. Len(q) \in Nat /\ Len(q) > 0 /\ Head(q) = q[1]
    OBVIOUS
  <1>2. Tail(q) \in Seq(Task) /\ Len(Tail(q)) = Len(q) - 1
    OBVIOUS
  <1>3. \A j \in 1 .. Len(q) - 1 : Tail(q)[j] = q[j + 1] /\ j + 1 \in 1 .. Len(q)
    OBVIOUS
  <1> QED BY <1>1, <1>2, <1>3 DEF ToSet

(* The search of a worker finds a task that its wakeup matches, the first  *)
(* one, and nothing only if there is none.                                 *)
LEMMA PopFinds ==
  ASSUME NEW q \in Seq(Task), NEW wake
  PROVE  /\ PopIndex(q, wake) \in 0 .. Len(q)
         /\ PopIndex(q, wake) # 0 =>
              /\ Matches(q[PopIndex(q, wake)], wake)
              /\ \A j \in 1 .. Len(q) : Matches(q[j], wake) => PopIndex(q, wake) <= j
         /\ PopIndex(q, wake) = 0 => \A j \in 1 .. Len(q) : ~Matches(q[j], wake)
  <1> DEFINE I == {i \in 1 .. Len(q) : Matches(q[i], wake)}
  <1>1. PopIndex(q, wake) = IF I # {} THEN Min(I) ELSE 0
    BY DEF PopIndex, SelectInSeq
  <1>2. I \in SUBSET Nat
    OBVIOUS
  <1>3. \A j \in I : j \in 1 .. Len(q) /\ Matches(q[j], wake)
    OBVIOUS
  <1>4. \A j \in 1 .. Len(q) : Matches(q[j], wake) => j \in I
    OBVIOUS
  <1> HIDE DEF I
  <1>5. CASE I # {}
    <2>1. \E m \in I : \A n \in I : m <= n
      BY <1>2, <1>5, LeastNumber
    <2>2. Min(I) \in I /\ \A n \in I : Min(I) <= n
      BY <2>1 DEF Min
    <2>3. PopIndex(q, wake) \in I /\ \A n \in I : PopIndex(q, wake) <= n
      BY <1>1, <1>5, <2>2
    <2>4. PopIndex(q, wake) \in 1 .. Len(q)
      BY <2>3, <1>3
    <2> QED BY <2>3, <2>4, <1>3, <1>4
  <1>6. CASE I = {}
    <2>1. PopIndex(q, wake) = 0
      BY <1>1, <1>6
    <2> QED BY <2>1, <1>4, <1>6
  <1> QED BY <1>5, <1>6

(* In a queue in order, the nodes a cancellation unlinks are as many as    *)
(* the tasks it takes away.                                                *)
LEMMA OfRequestCount ==
  ASSUME NEW q \in Seq(Task), NEW r
  PROVE  /\ IsFiniteSet(OfRequest(q, r)) /\ Cardinality(OfRequest(q, r)) \in Nat
         /\ Cardinality(OfRequest(q, r)) = 0 <=> \A t \in ToSet(q) : t.req # r
         /\ {q[i] : i \in OfRequest(q, r)} = {t \in ToSet(q) : t.req = r}
         /\ InOrder(q) =>
              /\ IsFiniteSet({t \in ToSet(q) : t.req = r})
              /\ Cardinality({t \in ToSet(q) : t.req = r}) = Cardinality(OfRequest(q, r))
  <1> DEFINE O == OfRequest(q, r)
             T == {t \in ToSet(q) : t.req = r}
             f == [i \in O |-> q[i]]
  <1>1. O = {i \in 1 .. Len(q) : q[i].req = r}
    BY DEF OfRequest
  <1>2. ToSet(q) = {q[i] : i \in 1 .. Len(q)}
    BY DEF ToSet
  <1>3. IsFiniteSet(1 .. Len(q))
    BY FS_Interval
  <1>4. IsFiniteSet(O)
    BY <1>1, <1>3, FS_Subset
  <1>5. Cardinality(O) \in Nat /\ (Cardinality(O) = 0 <=> O = {})
    BY <1>4, FS_CardinalityType, FS_EmptySet
  <1>6. {q[i] : i \in O} = T
    BY <1>1, <1>2
  <1>7. O = {} <=> \A t \in ToSet(q) : t.req # r
    BY <1>1, <1>2
  <1>8. ASSUME InOrder(q) PROVE IsFiniteSet(T) /\ Cardinality(T) = Cardinality(O)
    <2>1. \A i, j \in O : q[i] = q[j] => i = j
      BY <1>1, <1>8, InOrderDistinct
    <2> HIDE DEF O, T
    <2>2. f \in [O -> T]
      BY <1>6
    <2>3. f \in Injection(O, T)
      BY <2>1, <2>2 DEF Injection, IsInjective
    <2>4. f \in Surjection(O, T)
      BY <2>2, <1>6 DEF Surjection
    <2>5. ExistsBijection(O, T)
      BY <2>3, <2>4 DEF ExistsBijection, Bijection
    <2> QED BY <2>5, <1>4, FS_Bijection
  <1> HIDE DEF O, T
  <1>9. /\ IsFiniteSet(O) /\ Cardinality(O) \in Nat
        /\ Cardinality(O) = 0 <=> \A t \in ToSet(q) : t.req # r
        /\ {q[i] : i \in O} = T
        /\ InOrder(q) => IsFiniteSet(T) /\ Cardinality(T) = Cardinality(O)
    BY <1>4, <1>5, <1>6, <1>7, <1>8
  <1> QED BY <1>9 DEF O, T

-----------------------------------------------------------------------------
(* The tasks of the batch that has a number: BatchSize tasks, in the order *)
(* of their indices, and no others carry that request and that number.     *)
LEMMA BatchFacts ==
  ASSUME NEW r \in Requests, gen[r] \in 1 .. MaxBatches
  PROVE  /\ Batch(r) \in Seq(Task) /\ InOrder(Batch(r))
         /\ ToSet(Batch(r)) = BatchTasks(r)
         /\ BatchTasks(r) = {t \in Task : t.req = r /\ t.gen = gen[r]}
         /\ IsFiniteSet(BatchTasks(r)) /\ Cardinality(BatchTasks(r)) = BatchSize
  <1> DEFINE b == Batch(r)
             B == BatchTasks(r)
             S == 1 .. BatchSize
  <1>1. BatchSize \in Nat
    BY BatchAssumption
  <1>2. \A i \in S : b[i] = [req |-> r, gen |-> gen[r], idx |-> i]
    BY DEF Batch
  <1>3. b = [i \in S |-> b[i]]
    BY DEF Batch
  <1> HIDE DEF b
  <1>4. ASSUME NEW i \in S
        PROVE  b[i] \in Task /\ b[i].idx = i /\ b[i].req = r /\ b[i].gen = gen[r]
    <2>1. [req |-> r, gen |-> gen[r], idx |-> i] \in Task
      BY DEF Task
    <2>2. b[i] = [req |-> r, gen |-> gen[r], idx |-> i]
      BY <1>2
    <2> QED BY <2>1, <2>2
  <1>5. b \in Seq(Task) /\ Len(b) = BatchSize
    <2>1. b \in [S -> Task]
      BY <1>3, <1>4
    <2> QED BY <2>1, <1>1
  <1>6. \A i \in S : b[i].idx = i /\ b[i].req = r /\ b[i].gen = gen[r]
    BY <1>4
  <1>7. InOrder(b)
    BY <1>5, <1>6 DEF InOrder
  <1>8. B = {b[i] : i \in S}
    BY DEF BatchTasks, b
  <1>9. ToSet(b) = B
    BY <1>5, <1>8 DEF ToSet
  <1>10. B = {t \in Task : t.req = r /\ t.gen = gen[r]}
    <2>1. \A t \in B : t \in Task /\ t.req = r /\ t.gen = gen[r]
      BY <1>8, <1>4
    <2>2. ASSUME NEW t \in Task, t.req = r, t.gen = gen[r] PROVE t \in B
      <3>1. t.idx \in S /\ t = [req |-> t.req, gen |-> t.gen, idx |-> t.idx]
        BY DEF Task
      <3>2. t = b[t.idx]
        BY <3>1, <2>2, <1>2
      <3> QED BY <3>1, <3>2, <1>8
    <2> QED BY <2>1, <2>2
  <1>11. IsFiniteSet(B) /\ Cardinality(B) = BatchSize
    <2> DEFINE f == [i \in S |-> b[i]]
    <2>1. IsFiniteSet(S) /\ Cardinality(S) = BatchSize
      BY <1>1, BatchAssumption, FS_Interval
    <2>2. f \in [S -> B] /\ \A i \in S : f[i] = b[i]
      BY <1>8
    <2> HIDE DEF f, S, B
    <2>3. f \in Injection(S, B)
      BY <2>2, <1>6 DEF Injection, IsInjective
    <2>4. f \in Surjection(S, B)
      BY <2>2, <1>8 DEF Surjection
    <2>5. ExistsBijection(S, B)
      BY <2>3, <2>4 DEF ExistsBijection, Bijection
    <2> QED BY <2>1, <2>5, FS_Bijection
  <1> QED BY <1>5, <1>7, <1>9, <1>10, <1>11 DEF b
=============================================================================
