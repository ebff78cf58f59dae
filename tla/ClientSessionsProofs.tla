------------------------ MODULE ClientSessionsProofs ------------------------
(***************************************************************************)
(* The hand-made reference counts of the sessions.                         *)
(*                                                                         *)
(* Places(s) are the places from which a thread reaches the session s.     *)
(* Whatever a step does, it leaves no more places than references, so a    *)
(* session that can be reached is not deleted, dynamic threading included. *)
(* Without dynamic threading an updater thread has a session once, and the *)
(* count is exact but for the reference that AddSession_ loses.            *)
(***************************************************************************)
EXTENDS ClientSessions, DataLemmas

-----------------------------------------------------------------------------
(* Counting with one element more or less.                                *)

(* A thread has the least counter: LeastLoaded is an updater.              *)
LEMMA LeastLoadedExists ==
    ASSUME NEW f \in [Updaters -> Int]
    PROVE  \E t \in Updaters : \A u \in Updaters :
               f[t] < f[u] \/ (f[t] = f[u] /\ t <= u)
<1> DEFINE P(n) == \E t \in 0 .. n - 1 : \A u \in 0 .. n - 1 :
                       f[t] < f[u] \/ (f[t] = f[u] /\ t <= u)
           Bad  == {n \in 1 .. Threads : ~P(n)}
<1>1. Threads \in Nat \ {0}
  BY ThreadsAssumption
<1>2. Bad = {}
  <2> SUFFICES ASSUME Bad # {} PROVE FALSE
    OBVIOUS
  <2>1. Bad \in SUBSET Nat
    BY <1>1
  <2>2. PICK n \in Bad : \A m \in Bad : n =< m
    BY <2>1, LeastNatural
  <2>3. n \in 1 .. Threads /\ ~P(n)
    OBVIOUS
  <2>4. n # 1
    <3> SUFFICES ASSUME n = 1 PROVE FALSE
      OBVIOUS
    <3>1. 0 .. n - 1 = {0} /\ 0 \in Updaters
      BY <1>1 DEF Updaters
    <3>2. f[0] \in Int
      BY <3>1
    <3> QED
      BY <2>3, <3>1, <3>2
  <2>5. n - 1 \in 1 .. Threads /\ n - 1 \notin Bad
    <3>1. n \in Nat /\ n - 1 \in 1 .. Threads /\ ~(n =< n - 1)
      BY <2>3, <2>4, <1>1
    <3> HIDE DEF Bad
    <3> QED
      BY <3>1, <2>2
  <2>6. P(n - 1)
    BY <2>5
  <2>7. PICK t \in 0 .. (n - 1) - 1 : \A u \in 0 .. (n - 1) - 1 :
            f[t] < f[u] \/ (f[t] = f[u] /\ t <= u)
    BY <2>6
  <2>8. n - 1 \in Updaters /\ \A u \in 0 .. n - 1 : u \in Updaters /\ f[u] \in Int
    BY <2>3, <1>1 DEF Updaters
  <2>9. t \in Nat /\ n \in Nat /\ t < n - 1 /\ t \in 0 .. n - 1 /\ n - 1 \in 0 .. n - 1
    BY <2>3, <1>1
  <2>10. \A u \in 0 .. n - 1 : u \in 0 .. (n - 1) - 1 \/ u = n - 1
    BY <2>9
  <2> HIDE DEF Bad
  <2>11. CASE f[n - 1] < f[t]
    <3>1. \A u \in 0 .. n - 1 : f[n - 1] < f[u] \/ (f[n - 1] = f[u] /\ n - 1 <= u)
      BY <2>7, <2>8, <2>9, <2>10, <2>11
    <3> QED
      BY <3>1, <2>3, <2>9
  <2>12. CASE ~(f[n - 1] < f[t])
    <3>1. \A u \in 0 .. n - 1 : f[t] < f[u] \/ (f[t] = f[u] /\ t <= u)
      BY <2>7, <2>8, <2>9, <2>10, <2>12
    <3> QED
      BY <3>1, <2>3, <2>9
  <2> QED
    BY <2>11, <2>12
<1>3. Threads \in 1 .. Threads
  BY <1>1
<1>4. P(Threads)
  BY <1>2, <1>3
<1> QED
  BY <1>4 DEF Updaters

(* AddSession_ gives the session to an updater there is.                   *)
LEMMA ChosenUpdater ==
    ASSUME counter \in [Updaters -> Int]
    PROVE  ChooseUpdater \in Updaters /\ 0 \in Updaters
<1>1. 0 \in Updaters
  BY ThreadsAssumption DEF Updaters
<1>2. LeastLoaded \in Updaters
  <2>1. \E t \in Updaters : \A u \in Updaters :
          counter[t] < counter[u] \/ (counter[t] = counter[u] /\ t <= u)
    BY LeastLoadedExists
  <2> QED
    BY <2>1 DEF LeastLoaded
<1> QED
  BY <1>1, <1>2 DEF ChooseUpdater

\* So many references, r, are enough for the places S.
Enough(S, r) == IsFiniteSet(S) /\ Cardinality(S) <= r

(* A reference more is enough for a place more, a reference less for a     *)
(* place less, and the same references for a place that moves.             *)
LEMMA Counting ==
    ASSUME NEW S, NEW r \in Nat, Enough(S, r), NEW x, NEW y, NEW T
    PROVE  /\ T \subseteq S => Enough(T, r)
           /\ T \subseteq S \cup {y} => Enough(T, r + 1)
           /\ x \in S => r > 0
           /\ x \in S /\ T \subseteq S \ {x} => Enough(T, r - 1)
           /\ x \in S /\ T \subseteq (S \ {x}) \cup {y} => Enough(T, r)
<1>1. IsFiniteSet(S) /\ Cardinality(S) \in Nat /\ Cardinality(S) <= r
  BY FS_CardinalityType DEF Enough
<1>2. ASSUME NEW U, IsFiniteSet(U), NEW V, V \subseteq U
      PROVE  IsFiniteSet(V) /\ Cardinality(V) <= Cardinality(U) /\ Cardinality(V) \in Nat
             /\ Cardinality(U) \in Nat
  BY <1>2, FS_Subset, FS_CardinalityType
<1>3. IsFiniteSet(S \cup {y}) /\ Cardinality(S \cup {y}) <= r + 1
      /\ Cardinality(S \cup {y}) \in Nat
  <2>1. IsFiniteSet(S \cup {y})
        /\ (Cardinality(S \cup {y}) = Cardinality(S) \/ Cardinality(S \cup {y}) = Cardinality(S) + 1)
    BY <1>1, FS_AddElement
  <2> QED
    BY <1>1, <2>1
<1>4. ASSUME x \in S
      PROVE  /\ r > 0 /\ IsFiniteSet(S \ {x}) /\ Cardinality(S \ {x}) <= r - 1
             /\ IsFiniteSet((S \ {x}) \cup {y}) /\ Cardinality((S \ {x}) \cup {y}) <= r
             /\ Cardinality(S \ {x}) \in Nat /\ Cardinality((S \ {x}) \cup {y}) \in Nat
  <2>1. Cardinality(S) > 0
    BY <1>1, <1>4, FS_EmptySet
  <2>2. IsFiniteSet(S \ {x}) /\ Cardinality(S \ {x}) = Cardinality(S) - 1
        /\ Cardinality(S \ {x}) \in Nat
    BY <1>1, <1>4, FS_RemoveElement, FS_CardinalityType
  <2>3. /\ IsFiniteSet((S \ {x}) \cup {y}) /\ Cardinality((S \ {x}) \cup {y}) \in Nat
        /\ Cardinality((S \ {x}) \cup {y}) <= Cardinality(S \ {x}) + 1
    <3>1. /\ IsFiniteSet((S \ {x}) \cup {y})
          /\ \/ Cardinality((S \ {x}) \cup {y}) = Cardinality(S \ {x})
             \/ Cardinality((S \ {x}) \cup {y}) = Cardinality(S \ {x}) + 1
      BY <2>2, FS_AddElement
    <3> QED
      BY <2>2, <3>1
  <2> QED
    BY <1>1, <2>1, <2>2, <2>3
<1> QED
  BY <1>1, <1>2, <1>3, <1>4 DEF Enough

-----------------------------------------------------------------------------
(* Queues.                                                                 *)

(* One sequence after the other.                                           *)
LEMMA Joined ==
    ASSUME NEW S, NEW a \in Seq(S), NEW b \in Seq(S)
    PROVE  /\ a \o b \in Seq(S) /\ Len(a \o b) = Len(a) + Len(b)
           /\ Len(a) \in Nat /\ Len(b) \in Nat
           /\ \A i \in 1 .. Len(a) + Len(b) :
                /\ i <= Len(a) => (a \o b)[i] = a[i]
                /\ i > Len(a) => (a \o b)[i] = b[i - Len(a)]
  OBVIOUS

(* RemoveFirst takes one element out, and moves up those behind it.        *)
LEMMA RemoveFirstIs ==
    ASSUME NEW S, NEW q \in Seq(S), NEW e, Contains(q, e)
    PROVE  /\ RemoveFirst(q, e) \in Seq(S)
           /\ Len(RemoveFirst(q, e)) = Len(q) - 1
           /\ \E k \in 1 .. Len(q) :
                /\ q[k] = e
                /\ \A i \in 1 .. Len(q) - 1 :
                     RemoveFirst(q, e)[i] = IF i < k THEN q[i] ELSE q[i + 1]
<1> DEFINE I == {i \in 1 .. Len(q) : q[i] = e}
<1>1. I # {} /\ I \in SUBSET Nat
  BY DEF Contains
<1>2. \E x \in I : \A y \in I : x <= y
  BY <1>1, LeastNatural
<1>3. Min(I) \in I
  BY <1>2 DEF Min
<1> DEFINE k == Min(I)
<1>4. k \in 1 .. Len(q) /\ q[k] = e
  BY <1>3
<1>5. RemoveFirst(q, e) = RemoveAt(q, k)
  BY <1>1 DEF RemoveFirst, SelectInSeq, Contains
<1> HIDE DEF k
<1>6. RemoveAt(q, k) = SubSeq(q, 1, k - 1) \o SubSeq(q, k + 1, Len(q))
  BY DEF RemoveAt
<1>7. /\ SubSeq(q, 1, k - 1) \in Seq(S) /\ Len(SubSeq(q, 1, k - 1)) = k - 1
      /\ \A i \in 1 .. k - 1 : SubSeq(q, 1, k - 1)[i] = q[i]
  BY <1>4
<1>8. /\ SubSeq(q, k + 1, Len(q)) \in Seq(S) /\ Len(SubSeq(q, k + 1, Len(q))) = Len(q) - k
      /\ \A i \in 1 .. Len(q) - k : SubSeq(q, k + 1, Len(q))[i] = q[k + i]
  BY <1>4
<1>9. PICK a \in Seq(S), b \in Seq(S) :
        /\ RemoveFirst(q, e) = a \o b
        /\ Len(a) = k - 1 /\ \A i \in 1 .. k - 1 : a[i] = q[i]
        /\ Len(b) = Len(q) - k /\ \A i \in 1 .. Len(q) - k : b[i] = q[k + i]
  BY <1>5, <1>6, <1>7, <1>8
<1>10. Len(q) \in Nat /\ k \in Nat /\ (k - 1) + (Len(q) - k) = Len(q) - 1
  BY <1>4
<1>11. /\ a \o b \in Seq(S) /\ Len(a \o b) = Len(a) + Len(b)
       /\ \A i \in 1 .. Len(a) + Len(b) :
             /\ i <= Len(a) => (a \o b)[i] = a[i]
             /\ i > Len(a) => (a \o b)[i] = b[i - Len(a)]
  BY Joined
<1>12. ASSUME NEW i \in 1 .. Len(q) - 1
       PROVE  RemoveFirst(q, e)[i] = IF i < k THEN q[i] ELSE q[i + 1]
  <2>1. CASE i < k
    <3>1. i <= Len(a) /\ i \in 1 .. k - 1 /\ i \in 1 .. Len(a) + Len(b)
      BY <2>1, <1>4, <1>9, <1>10
    <3>2. (a \o b)[i] = a[i] /\ a[i] = q[i]
      BY <3>1, <1>9, <1>11
    <3> QED
      BY <3>2, <2>1, <1>9
  <2>2. CASE ~(i < k)
    <3>1. /\ i > Len(a) /\ i \in 1 .. Len(a) + Len(b)
          /\ i - Len(a) \in 1 .. Len(q) - k /\ k + (i - Len(a)) = i + 1
      <4>1. Len(a) = k - 1 /\ Len(b) = Len(q) - k /\ i \in Int /\ 1 <= i /\ i <= Len(q) - 1
        BY <1>9, <1>10
      <4>2. k <= i
        BY <4>1, <2>2, <1>10
      <4> QED
        BY <4>1, <4>2, <1>10
    <3>2. b[i - Len(a)] = q[k + (i - Len(a))]
      BY <3>1, <1>9
    <3>3. (a \o b)[i] = b[i - Len(a)]
      BY <3>1, <1>11
    <3> QED
      BY <3>1, <3>2, <3>3, <2>2, <1>9
  <2> QED
    BY <2>1, <2>2
<1> QED
  BY <1>4, <1>9, <1>10, <1>11, <1>12

\* The queue q has nobody twice.
Distinct(q) == \A i, j \in 1 .. Len(q) : q[i] = q[j] => i = j

(* The login queue without old, and without the one who is admitted, is a  *)
(* login queue.                                                            *)
LEMMA ShorterQueue ==
    ASSUME NEW S, NEW q \in Seq(S), NEW e, Distinct(q)
    PROVE  /\ RemoveFirst(q, e) \in Seq(S) /\ Distinct(RemoveFirst(q, e))
           /\ \A x : Contains(RemoveFirst(q, e), x) <=> Contains(q, x) /\ x # e
           /\ Len(RemoveFirst(q, e)) = IF Contains(q, e) THEN Len(q) - 1 ELSE Len(q)
           /\ q # <<>> => /\ Tail(q) \in Seq(S) /\ Distinct(Tail(q))
                          /\ Len(Tail(q)) = Len(q) - 1
                          /\ Contains(q, Head(q))
                          /\ \A x : Contains(Tail(q), x) <=> Contains(q, x) /\ x # Head(q)
<1>1. Len(q) \in Nat
  OBVIOUS
<1>2. ASSUME Contains(q, e)
      PROVE  /\ RemoveFirst(q, e) \in Seq(S) /\ Distinct(RemoveFirst(q, e))
             /\ \A x : Contains(RemoveFirst(q, e), x) <=> Contains(q, x) /\ x # e
             /\ Len(RemoveFirst(q, e)) = IF Contains(q, e) THEN Len(q) - 1 ELSE Len(q)
  <2> DEFINE r == RemoveFirst(q, e)
  <2>1. r \in Seq(S) /\ Len(r) = Len(q) - 1
    BY <1>2, RemoveFirstIs
  <2>2. PICK k \in 1 .. Len(q) :
          /\ q[k] = e
          /\ \A i \in 1 .. Len(q) - 1 : r[i] = IF i < k THEN q[i] ELSE q[i + 1]
    BY <1>2, RemoveFirstIs
  <2> HIDE DEF r
  <2>3. Distinct(r)
    BY <1>1, <2>1, <2>2 DEF Distinct
  <2>4. ASSUME NEW x
        PROVE  Contains(r, x) <=> Contains(q, x) /\ x # e
    <3>1. ASSUME NEW i \in 1 .. Len(r), r[i] = x
          PROVE  Contains(q, x) /\ x # e
      <4>1. i \in 1 .. Len(q) /\ i + 1 \in 1 .. Len(q) /\ i # i + 1
        BY <1>1, <2>1
      <4>2. CASE i < k
        BY <4>1, <4>2, <3>1, <2>1, <2>2, <1>1 DEF Distinct, Contains
      <4>3. CASE ~(i < k)
        <5>1. q[i + 1] = x /\ i + 1 # k
          BY <4>1, <4>3, <3>1, <2>1, <2>2, <1>1
        <5> QED
          BY <5>1, <4>1, <2>2 DEF Distinct, Contains
      <4> QED
        BY <4>2, <4>3
    <3>2. ASSUME NEW i \in 1 .. Len(q), q[i] = x, x # e
          PROVE  Contains(r, x)
      <4>1. CASE i < k
        <5>1. i \in 1 .. Len(r) /\ r[i] = q[i]
          BY <4>1, <1>1, <2>1, <2>2
        <5> QED
          BY <5>1, <3>2 DEF Contains
      <4>2. CASE i > k
        <5>1. i - 1 \in 1 .. Len(r) /\ ~(i - 1 < k) /\ (i - 1) + 1 = i
          BY <4>2, <1>1, <2>1, <2>2
        <5>2. r[i - 1] = q[i]
          BY <5>1, <2>1, <2>2
        <5> QED
          BY <5>1, <5>2, <3>2 DEF Contains
      <4> QED
        BY <4>1, <4>2, <3>2, <2>2, <1>1
    <3> QED
      BY <3>1, <3>2 DEF Contains
  <2>5. r = RemoveFirst(q, e)
    BY DEF r
  <2> QED
    BY <2>1, <2>3, <2>4, <2>5, <1>2
<1>3. ASSUME ~Contains(q, e)
      PROVE  /\ RemoveFirst(q, e) \in Seq(S) /\ Distinct(RemoveFirst(q, e))
             /\ \A x : Contains(RemoveFirst(q, e), x) <=> Contains(q, x) /\ x # e
             /\ Len(RemoveFirst(q, e)) = IF Contains(q, e) THEN Len(q) - 1 ELSE Len(q)
  <2>1. RemoveFirst(q, e) = q
    BY <1>3 DEF RemoveFirst, Contains
  <2>2. \A x : Contains(q, x) => x # e
    BY <1>3
  <2> QED
    BY <2>1, <2>2, <1>3
<1>4. ASSUME q # <<>>
      PROVE  /\ Tail(q) \in Seq(S) /\ Distinct(Tail(q))
             /\ Len(Tail(q)) = Len(q) - 1
             /\ Contains(q, Head(q))
             /\ \A x : Contains(Tail(q), x) <=> Contains(q, x) /\ x # Head(q)
  <2>1. /\ Tail(q) \in Seq(S) /\ Len(Tail(q)) = Len(q) - 1 /\ Len(q) > 0
        /\ \A i \in 1 .. Len(q) - 1 : Tail(q)[i] = q[i + 1]
        /\ Head(q) = q[1]
    BY <1>4, <1>1
  <2>2. Distinct(Tail(q))
    BY <2>1, <1>1 DEF Distinct
  <2>3. Contains(q, Head(q))
    BY <2>1, <1>1 DEF Contains
  <2>4. ASSUME NEW x
        PROVE  Contains(Tail(q), x) <=> Contains(q, x) /\ x # Head(q)
    <3>1. ASSUME NEW i \in 1 .. Len(Tail(q)), Tail(q)[i] = x
          PROVE  Contains(q, x) /\ x # Head(q)
      <4>1. i + 1 \in 1 .. Len(q) /\ i + 1 # 1 /\ 1 \in 1 .. Len(q) /\ q[i + 1] = x
        BY <3>1, <2>1, <1>1
      <4> QED
        BY <4>1, <2>1 DEF Contains, Distinct
    <3>2. ASSUME NEW i \in 1 .. Len(q), q[i] = x, x # Head(q)
          PROVE  Contains(Tail(q), x)
      <4>1. i # 1
        BY <3>2, <2>1
      <4>2. i - 1 \in 1 .. Len(Tail(q)) /\ i - 1 \in 1 .. Len(q) - 1 /\ (i - 1) + 1 = i
        BY <4>1, <2>1, <1>1
      <4>3. Tail(q)[i - 1] = x
        BY <4>2, <3>2, <2>1
      <4> QED
        BY <4>2, <4>3 DEF Contains
    <3> QED
      BY <3>1, <3>2 DEF Contains
  <2> QED
    BY <2>1, <2>2, <2>3, <2>4
<1> QED
  BY <1>2, <1>3, <1>4

(* The elements of a queue.                                                *)
LEMMA QueueSet ==
    ASSUME NEW S, NEW q \in Seq(S), NEW x
    PROVE  /\ x \in ToSet(q) <=> Contains(q, x)
           /\ Contains(q, x) => x \in S
<1>1. DOMAIN q = 1 .. Len(q)
  OBVIOUS
<1>2. x \in ToSet(q) <=> Contains(q, x)
  BY <1>1 DEF ToSet, Contains
<1>3. Contains(q, x) => x \in S
  BY DEF Contains
<1> QED
  BY <1>2, <1>3

(* One more in a queue, and the set of those who are in it.                *)
LEMMA LongerQueue ==
    ASSUME NEW S, NEW q \in Seq(S), NEW e \in S
    PROVE  /\ Append(q, e) \in Seq(S) /\ Len(Append(q, e)) = Len(q) + 1 /\ Len(q) \in Nat
           /\ \A i \in 1 .. Len(q) : Append(q, e)[i] = q[i]
           /\ Append(q, e)[Len(q) + 1] = e
           /\ \A x : Contains(Append(q, e), x) <=> Contains(q, x) \/ x = e
           /\ Distinct(q) /\ ~Contains(q, e) => Distinct(Append(q, e))
           /\ \A x : x \in ToSet(q) <=> Contains(q, x)
           /\ \A x : Contains(q, x) => x \in S
<1>1. /\ Append(q, e) \in Seq(S) /\ Len(Append(q, e)) = Len(q) + 1 /\ Len(q) \in Nat
      /\ \A i \in 1 .. Len(q) : Append(q, e)[i] = q[i]
      /\ Append(q, e)[Len(q) + 1] = e
  OBVIOUS
<1>2. \A i \in 1 .. Len(Append(q, e)) : i \in 1 .. Len(q) \/ i = Len(q) + 1
  BY <1>1
<1>3. 1 .. Len(q) \subseteq 1 .. Len(Append(q, e)) /\ Len(q) + 1 \in 1 .. Len(Append(q, e))
  BY <1>1
<1> DEFINE r == Append(q, e)
<1> HIDE DEF r
<1>4. /\ \A i \in 1 .. Len(r) : (i \in 1 .. Len(q) /\ r[i] = q[i]) \/ (i = Len(q) + 1 /\ r[i] = e)
      /\ 1 .. Len(q) \subseteq 1 .. Len(r) /\ Len(q) + 1 \in 1 .. Len(r)
      /\ r[Len(q) + 1] = e /\ \A i \in 1 .. Len(q) : r[i] = q[i]
  BY <1>1, <1>2, <1>3 DEF r
<1>5. \A x : Contains(r, x) <=> Contains(q, x) \/ x = e
  <2> SUFFICES ASSUME NEW x PROVE Contains(r, x) <=> Contains(q, x) \/ x = e
    OBVIOUS
  <2>1. Contains(r, x) => Contains(q, x) \/ x = e
    BY <1>4 DEF Contains
  <2>2. Contains(q, x) => Contains(r, x)
    BY <1>4 DEF Contains
  <2>3. x = e => Contains(r, x)
    BY <1>4 DEF Contains
  <2> QED
    BY <2>1, <2>2, <2>3
<1>6. Distinct(q) /\ ~Contains(q, e) => Distinct(r)
  BY <1>4 DEF Distinct, Contains
<1>7. \A x : x \in ToSet(q) <=> Contains(q, x)
  <2>1. DOMAIN q = 1 .. Len(q)
    OBVIOUS
  <2> QED
    BY <2>1 DEF ToSet, Contains
<1>8. \A x : Contains(q, x) => x \in S
  BY DEF Contains
<1> QED
  BY <1>1, <1>5, <1>6, <1>7, <1>8 DEF r

-----------------------------------------------------------------------------
(* The places from which a session is reached: the socket thread that made *)
(* it, the queue of new sessions, the map, and of every updater thread the *)
(* set (index 0) and the places in its queue.                              *)

InSocket == -1
InQueue  == -2
InMap    == -3

Place(s, x, i) ==
    \/ x = InSocket /\ i = 0 /\ s \in held
    \/ x = InQueue /\ i = 0 /\ Contains(addQ, s)
    \/ x = InMap /\ i = 0 /\ map[Account[s]] = s
    \/ x \in Updaters /\ i = 0 /\ s \in set[x]
    \/ x \in Updaters /\ i \in 1 .. Len(newQ[x]) /\ newQ[x][i] = s

Places(s) == {p \in Int \X Nat : Place(s, p[1], p[2])}

\* There are at least as many references as places, and a session without a
\* reference is not alive.
RefInv ==
    \A s \in Sessions :
        /\ Enough(Places(s), refs[s])
        /\ status[s] = "alive" <=> refs[s] > 0

\* Where the loops of the threads are.
LoopInv ==
    /\ \A a \in Accounts : map[a] # None => Account[map[a]] = a
    /\ todo \subseteq Online
    /\ phase \in {"add", "down"} => todo = {}
    /\ cursor # None => cursor \in todo /\ phase = "update"
    /\ \A t \in Updaters : work[t] \subseteq set[t] /\ (step[t] # "run" => work[t] = {})

\* A session that is not yet in the map has been nowhere.
NewInv ==
    /\ Distinct(addQ) /\ Distinct(queue)
    /\ \A s \in Sessions : status[s] = "unborn" \/ Contains(addQ, s) =>
         /\ s \notin replaced /\ ~Contains(queue, s)
         /\ map[Account[s]] # s
         /\ \A t \in Updaters : s \notin set[t] /\ ~Contains(newQ[t], s)

SessInv == TypeOK /\ LoopInv /\ NewInv /\ RefInv

(* A place is worth a reference, and fewer places need no more of them.    *)
LEMMA RefMoves ==
    ASSUME NEW s \in Sessions, refs[s] \in Nat, Enough(Places(s), refs[s])
    PROVE  /\ \A a \in Int, b \in Nat : Place(s, a, b) => refs[s] > 0
           /\ (\A x \in Int, i \in Nat : Place(s, x, i)' => Place(s, x, i))
                => Enough(Places(s)', refs[s])
<1> DEFINE S == Places(s)
           T == Places(s)'
<1>1. \A a \in Int, b \in Nat : Place(s, a, b) => <<a, b>> \in S
  BY DEF Places
<1>2. (\A x \in Int, i \in Nat : Place(s, x, i)' => Place(s, x, i)) => T \subseteq S
  BY DEF Places
<1> HIDE DEF S, T
<1>3. Enough(S, refs[s])
  BY DEF S
<1>4. (T \subseteq S => Enough(T, refs[s])) /\ (\A p : p \in S => refs[s] > 0)
  BY <1>3, Counting
<1>5. T = Places(s)'
  BY DEF T
<1> QED
  BY <1>1, <1>2, <1>4, <1>5

(* A session that can be reached has a reference and is alive.             *)
LEMMA ReachedAlive ==
    ASSUME SessInv, NEW s \in Sessions,
           \/ s \in held \/ Contains(addQ, s) \/ map[Account[s]] = s
           \/ \E t \in Updaters : s \in set[t] \/ Contains(newQ[t], s)
    PROVE  refs[s] \in Nat /\ refs[s] > 0 /\ status[s] = "alive"
<1>1. refs[s] \in Nat /\ Enough(Places(s), refs[s])
  BY DEF SessInv, TypeOK, RefInv
<1>2. \E x \in Int, i \in Nat : Place(s, x, i)
  <2>1. Updaters \subseteq Int /\ 0 \in Nat
    BY ThreadsAssumption DEF Updaters
  <2>2. CASE s \in held
    <3>1. Place(s, InSocket, 0)
      BY <2>2 DEF Place
    <3> QED
      BY <3>1 DEF InSocket
  <2>3. CASE Contains(addQ, s)
    <3>1. Place(s, InQueue, 0)
      BY <2>3 DEF Place
    <3> QED
      BY <3>1 DEF InQueue
  <2>4. CASE map[Account[s]] = s
    <3>1. Place(s, InMap, 0)
      BY <2>4 DEF Place
    <3> QED
      BY <3>1 DEF InMap
  <2>5. ASSUME NEW t \in Updaters, s \in set[t]
        PROVE  \E x \in Int, i \in Nat : Place(s, x, i)
    <3>1. Place(s, t, 0)
      BY <2>5 DEF Place
    <3> QED
      BY <3>1, <2>1
  <2>6. ASSUME NEW t \in Updaters, Contains(newQ[t], s)
        PROVE  \E x \in Int, i \in Nat : Place(s, x, i)
    <3>1. PICK i \in 1 .. Len(newQ[t]) : newQ[t][i] = s
      BY <2>6 DEF Contains
    <3>2. Place(s, t, i) /\ i \in Nat
      BY <3>1, <2>6 DEF Place
    <3> QED
      BY <3>2, <2>1
  <2> QED
    BY <2>2, <2>3, <2>4, <2>5, <2>6
<1>3. refs[s] > 0
  <2>1. PICK x \in Int, i \in Nat : Place(s, x, i)
    BY <1>2
  <2> QED
    BY <1>1, <2>1, RefMoves
<1> QED
  BY <1>1, <1>3 DEF SessInv, RefInv

(* A session of the map is in the place of its account.                    *)
LEMMA MapPlace ==
    ASSUME SessInv, NEW a \in Accounts, map[a] # None
    PROVE  /\ map[a] \in Sessions /\ Account[map[a]] = a
           /\ refs[map[a]] \in Nat /\ refs[map[a]] > 0 /\ status[map[a]] = "alive"
<1>1. map[a] \in Sessions /\ Account[map[a]] = a
  BY DEF SessInv, TypeOK, LoopInv
<1> QED
  BY <1>1, ReachedAlive

(* A reference that is there can be removed.                               *)
LEMMA RemovedTypes ==
    ASSUME SessInv, NEW s \in Sessions, refs[s] > 0, RemoveReference(s)
    PROVE  /\ refs' \in [Sessions -> Nat]
           /\ status' \in [Sessions -> {"unborn", "alive", "freed"}]
           /\ refs'[s] = refs[s] - 1 /\ (status'[s] = "alive" <=> refs'[s] > 0)
           /\ status'[s] = "unborn" <=> status[s] = "unborn" /\ refs[s] # 1
           /\ \A o \in Sessions \ {s} : refs'[o] = refs[o] /\ status'[o] = status[o]
<1>1. refs \in [Sessions -> Nat] /\ status \in [Sessions -> {"unborn", "alive", "freed"}]
      /\ (status[s] = "alive" <=> refs[s] > 0)
  BY DEF SessInv, TypeOK, RefInv
<1> QED
  BY <1>1 DEF RemoveReference

(* GiveTo: one more reference, one more in the queue of the updater.       *)
LEMMA GivenTypes ==
    ASSUME SessInv, NEW t \in Updaters, NEW s \in Sessions, GiveTo(t, s)
    PROVE  /\ refs' \in [Sessions -> Nat] /\ refs'[s] = refs[s] + 1
           /\ \A o \in Sessions \ {s} : refs'[o] = refs[o]
           /\ counter' \in [Updaters -> Int]
           /\ newQ' \in [Updaters -> Seq(Sessions)] /\ newQ'[t] = Append(newQ[t], s)
           /\ \A u \in Updaters \ {t} : newQ'[u] = newQ[u]
<1>1. refs \in [Sessions -> Nat] /\ counter \in [Updaters -> Int]
      /\ newQ \in [Updaters -> Seq(Sessions)]
  BY DEF SessInv, TypeOK
<1>2. refs' \in [Sessions -> Nat] /\ refs'[s] = refs[s] + 1
      /\ \A o \in Sessions \ {s} : refs'[o] = refs[o]
  BY <1>1 DEF GiveTo
<1>3. counter' \in [Updaters -> Int]
  BY <1>1 DEF GiveTo
<1>4. newQ' = [newQ EXCEPT ![t] = Append(newQ[t], s)] /\ Append(newQ[t], s) \in Seq(Sessions)
  BY <1>1 DEF GiveTo
<1>5. newQ' \in [Updaters -> Seq(Sessions)] /\ newQ'[t] = Append(newQ[t], s)
      /\ \A u \in Updaters \ {t} : newQ'[u] = newQ[u]
  BY <1>1, <1>4
<1> QED
  BY <1>2, <1>3, <1>5

(* The login queue when old leaves it.                                     *)
LEMMA QueueLeft ==
    ASSUME SessInv, NEW old
    PROVE  /\ RemoveQueuedPlayer(old) \in Seq(Sessions) /\ Distinct(RemoveQueuedPlayer(old))
           /\ \A x : Contains(RemoveQueuedPlayer(old), x) => Contains(queue, x) /\ x # old
<1> DEFINE r == RemoveFirst(queue, old)
<1>1. queue \in Seq(Sessions) /\ Distinct(queue)
  BY DEF SessInv, TypeOK, NewInv
<1>2. r \in Seq(Sessions) /\ Distinct(r) /\ \A x : Contains(r, x) <=> Contains(queue, x) /\ x # old
  BY <1>1, ShorterQueue
<1>3. RemoveQueuedPlayer(old) = r \/ (r # <<>> /\ RemoveQueuedPlayer(old) = Tail(r))
  BY DEF RemoveQueuedPlayer
<1> HIDE DEF r
<1>4. r # <<>> => /\ Tail(r) \in Seq(Sessions) /\ Distinct(Tail(r))
                  /\ \A x : Contains(Tail(r), x) => Contains(r, x)
  BY <1>2, ShorterQueue
<1> QED
  BY <1>2, <1>3, <1>4

(* AddSession_ as the invariants see it.                                   *)
LEMMA AddedIs ==
    ASSUME SessInv, AddSession_
    PROVE  \E s \in Sessions, c \in Updaters :
             /\ phase = "add" /\ s = Head(addQ) /\ Contains(addQ, s) /\ GiveTo(c, s)
             /\ addQ' \in Seq(Sessions) /\ Distinct(addQ')
             /\ \A x : Contains(addQ', x) <=> Contains(addQ, x) /\ x # s
             /\ map' = [map EXCEPT ![Account[s]] = s] /\ Account[s] \in Accounts
             /\ kicked' \subseteq Sessions
             /\ \/ map[Account[s]] = None /\ replaced' = replaced
                \/ /\ map[Account[s]] \in Sessions
                   /\ replaced' = replaced \cup {map[Account[s]]}
             /\ queue' \in Seq(Sessions) /\ Distinct(queue')
             /\ \A x : Contains(queue', x) => Contains(queue, x) \/ x = s
             /\ UNCHANGED <<status, sock, held, phase, todo, cursor, set, sleep, stop, step,
                            work, orphans, bounds>>
<1> DEFINE s    == Head(addQ)
           old  == map[Account[s]]
           rest == IF old = None THEN queue ELSE RemoveQueuedPlayer(old)
<1>1. /\ addQ \in Seq(Sessions) /\ addQ # <<>> /\ Distinct(addQ) /\ addQ' = Tail(addQ)
      /\ queue \in Seq(Sessions) /\ Distinct(queue) /\ kicked \subseteq Sessions
  BY DEF SessInv, TypeOK, NewInv, AddSession_
<1>2. s \in Sessions
  BY <1>1
<1>3. /\ Contains(addQ, s) /\ addQ' \in Seq(Sessions) /\ Distinct(addQ')
      /\ \A x : Contains(addQ', x) <=> Contains(addQ, x) /\ x # s
  BY <1>1, ShorterQueue
<1>4. Account[s] \in Accounts /\ old \in Sessions \cup {None}
  BY <1>2, SessionsAssumption DEF SessInv, TypeOK
<1>5. /\ kicked' = (IF old = None THEN kicked ELSE kicked \cup {old})
      /\ replaced' = (IF old = None THEN replaced ELSE replaced \cup {old})
      /\ map' = [map EXCEPT ![Account[s]] = s]
      /\ GiveTo(ChooseUpdater, s)
      /\ queue' = Append(rest, s) \/ queue' = rest
      /\ phase = "add"
      /\ UNCHANGED <<status, sock, held, phase, todo, cursor, set, sleep, stop, step,
                     work, orphans, bounds>>
  BY DEF AddSession_
<1>6. ChooseUpdater \in Updaters
  BY ChosenUpdater DEF SessInv, TypeOK
<1>7. rest \in Seq(Sessions) /\ Distinct(rest) /\ \A x : Contains(rest, x) => Contains(queue, x)
  BY <1>1, QueueLeft
<1>8. ~Contains(queue, s)
  BY <1>2, <1>3 DEF SessInv, NewInv
<1> HIDE DEF rest, s
<1>9. /\ Append(rest, s) \in Seq(Sessions) /\ Distinct(Append(rest, s))
      /\ \A x : Contains(Append(rest, s), x) => Contains(queue, x) \/ x = s
  <2>1. ~Contains(rest, s)
    BY <1>7, <1>8
  <2> QED
    BY <1>2, <1>7, <2>1, LongerQueue
<1>10. /\ queue' \in Seq(Sessions) /\ Distinct(queue')
       /\ \A x : Contains(queue', x) => Contains(queue, x) \/ x = s
  BY <1>5, <1>7, <1>9
<1>11. /\ kicked' \subseteq Sessions
       /\ \/ old = None /\ replaced' = replaced
          \/ old \in Sessions /\ replaced' = replaced \cup {old}
  BY <1>1, <1>4, <1>5
<1>12. s = Head(addQ)
  BY DEF s
<1> QED
  BY <1>2, <1>3, <1>4, <1>5, <1>6, <1>10, <1>11, <1>12

(* UpdateSingle has failed: Erase as the invariants see it.                *)
LEMMA ErasedIs ==
    ASSUME SessInv, NEW a \in todo, Erase(a)
    PROVE  /\ map[a] \in Sessions /\ Account[map[a]] = a /\ a \in Accounts
           /\ refs[map[a]] \in Nat /\ refs[map[a]] > 0 /\ status[map[a]] = "alive"
           /\ RemoveReference(map[a])
           /\ map' = [map EXCEPT ![a] = None]
           /\ kicked' \subseteq Sessions /\ orphans' \subseteq Sessions
           /\ orphans' = {} => orphans = {} /\ ~Contains(queue, map[a])
           /\ cursor' = None /\ todo' = todo \ {a}
           /\ UNCHANGED <<sock, held, addQ, queue, phase, updVars, replaced, bounds>>
<1>1. a \in Accounts /\ map[a] # None
  BY DEF SessInv, TypeOK, LoopInv, Online
<1>2. /\ map[a] \in Sessions /\ Account[map[a]] = a
      /\ refs[map[a]] \in Nat /\ refs[map[a]] > 0 /\ status[map[a]] = "alive"
  BY <1>1, MapPlace
<1>3. kicked \subseteq Sessions /\ orphans \subseteq Sessions
  BY DEF SessInv, TypeOK
<1> QED
  BY <1>1, <1>2, <1>3 DEF Erase

(* Every step leaves the state well typed.                                 *)
LEMMA TypeStep ==
    ASSUME SessInv, Next
    PROVE  TypeOK'
<1> USE DEF TypeOK, sessVars, mgrVars, updVars, bounds
<1>0. TypeOK
  BY DEF SessInv
<1>1. ASSUME NEW s \in Sessions, AddSession(s)
      PROVE  TypeOK'
  <2>1. addQ' \in Seq(Sessions)
    BY <1>0, <1>1 DEF AddSession
  <2>2. status' \in [Sessions -> {"unborn", "alive", "freed"}] /\ refs' \in [Sessions -> Nat]
    BY <1>0, <1>1 DEF AddSession
  <2> QED
    BY <1>0, <1>1, <2>1, <2>2 DEF AddSession
<1>2. ASSUME NEW s \in Sessions, AuthSessionReturns(s)
      PROVE  TypeOK'
  <2>1. refs[s] > 0
    BY <1>2, ReachedAlive DEF AuthSessionReturns
  <2>2. status' \in [Sessions -> {"unborn", "alive", "freed"}] /\ refs' \in [Sessions -> Nat]
    BY <2>1, <1>2, RemovedTypes DEF AuthSessionReturns
  <2> QED
    BY <1>0, <1>2, <2>2 DEF AuthSessionReturns
<1>3. ASSUME NEW s \in Sessions, CloseSocket(s)
      PROVE  TypeOK'
  BY <1>0, <1>3 DEF CloseSocket
<1>4. ASSUME NEW s \in Sessions, KickPlayer(s)
      PROVE  TypeOK'
  BY <1>0, <1>4 DEF KickPlayer
<1>5. CASE AddSession_
  <2>1. PICK s \in Sessions, c \in Updaters :
          /\ GiveTo(c, s) /\ addQ' \in Seq(Sessions) /\ queue' \in Seq(Sessions)
          /\ map' = [map EXCEPT ![Account[s]] = s] /\ Account[s] \in Accounts
          /\ kicked' \subseteq Sessions
          /\ \/ map[Account[s]] = None /\ replaced' = replaced
             \/ map[Account[s]] \in Sessions /\ replaced' = replaced \cup {map[Account[s]]}
          /\ UNCHANGED <<status, sock, held, phase, todo, cursor, set, sleep, stop, step,
                         work, orphans, bounds>>
    BY <1>5, AddedIs
  <2>2. /\ refs' \in [Sessions -> Nat] /\ counter' \in [Updaters -> Int]
        /\ newQ' \in [Updaters -> Seq(Sessions)]
    BY <2>1, GivenTypes
  <2>3. map' \in [Accounts -> Sessions \cup {None}] /\ replaced' \subseteq Sessions
    BY <1>0, <2>1
  <2> QED
    BY <1>0, <2>1, <2>2, <2>3
<1>6. CASE StartUpdate
  BY <1>0, <1>6 DEF StartUpdate, Online
<1>7. ASSUME NEW a \in todo, Erase(a)
      PROVE  TypeOK'
  <2>1. /\ map[a] \in Sessions /\ refs[map[a]] > 0 /\ RemoveReference(map[a])
        /\ map' = [map EXCEPT ![a] = None] /\ a \in Accounts
        /\ kicked' \subseteq Sessions /\ orphans' \subseteq Sessions
        /\ cursor' = None /\ todo' = todo \ {a}
        /\ UNCHANGED <<sock, held, addQ, queue, phase, updVars, replaced, bounds>>
    BY <1>7, ErasedIs
  <2>2. status' \in [Sessions -> {"unborn", "alive", "freed"}] /\ refs' \in [Sessions -> Nat]
    BY <2>1, RemovedTypes
  <2>3. map' \in [Accounts -> Sessions \cup {None}]
    BY <1>0, <2>1
  <2> QED
    BY <1>0, <2>1, <2>2, <2>3
<1>8. ASSUME NEW a \in Accounts, UpdateSingle(a)
      PROVE  TypeOK'
  BY <1>0, <1>7, <1>8 DEF UpdateSingle
<1>9. CASE LogoutComplete
  BY <1>0, <1>9 DEF LogoutComplete
<1>10. CASE UpdateSingleClient
  <2>1. cursor \in todo
    BY <1>10 DEF UpdateSingleClient, SessInv, LoopInv
  <2> QED
    BY <1>0, <1>7, <1>10, <2>1 DEF UpdateSingleClient
<1>11. CASE UpdateDone
  BY <1>0, <1>11 DEF UpdateDone
<1>12. CASE UpdateDynamics
  BY <1>0, <1>12 DEF UpdateDynamics, Online
<1>13. ASSUME NEW a \in Accounts, MoveSession(a)
       PROVE  TypeOK'
  <2>1. map[a] # None
    BY <1>13 DEF MoveSession, SessInv, LoopInv, Online
  <2>2. map[a] \in Sessions /\ 0 \in Updaters
    BY <2>1, <1>0, ChosenUpdater
  <2>3. /\ refs' \in [Sessions -> Nat] /\ counter' \in [Updaters -> Int]
        /\ newQ' \in [Updaters -> Seq(Sessions)]
    BY <2>2, <1>13, GivenTypes DEF MoveSession
  <2> QED
    BY <1>0, <1>13, <2>3 DEF MoveSession
<1>14. CASE MoveDone
  BY <1>0, <1>14 DEF MoveDone
<1>15. CASE ServerClose
  <2> DEFINE mine == {map[a] : a \in Online}
  <2>1. \A s \in mine : refs[s] > 0
    BY MapPlace DEF Online
  <2>2. /\ refs' = [s \in Sessions |-> IF s \in mine THEN refs[s] - 1 ELSE refs[s]]
        /\ status' = [s \in Sessions |->
                           IF s \in mine /\ refs[s] = 1 THEN "freed" ELSE status[s]]
    BY <1>15 DEF ServerClose
  <2> HIDE DEF mine
  <2>3. refs' \in [Sessions -> Nat]
    BY <1>0, <2>1, <2>2
  <2>4. status' \in [Sessions -> {"unborn", "alive", "freed"}]
    BY <1>0, <2>2
  <2>5. map' \in [Accounts -> Sessions \cup {None}]
    BY <1>15 DEF ServerClose
  <2>6. stop' = TRUE /\ phase' = "down"
        /\ UNCHANGED <<kicked, sock, held, addQ, queue, todo, cursor, newQ, set, counter,
                       sleep, step, work, replaced, orphans, bounds>>
    BY <1>15 DEF ServerClose
  <2> QED
    BY <1>0, <2>3, <2>4, <2>5, <2>6
<1>16. ASSUME NEW t \in Updaters, SvcTop(t)
       PROVE  TypeOK'
  BY <1>0, <1>16 DEF SvcTop
<1>17. ASSUME NEW t \in Updaters, SetSleep(t)
       PROVE  TypeOK'
  BY <1>0, <1>17 DEF SetSleep
<1>18. ASSUME NEW t \in Updaters, AddNewSessions(t)
       PROVE  TypeOK'
  <2>1. ToSet(newQ[t]) \subseteq Sessions
    BY <1>0 DEF ToSet
  <2>2. newQ' \in [Updaters -> Seq(Sessions)]
    BY <1>0, <1>18 DEF AddNewSessions
  <2> QED
    BY <1>0, <1>18, <2>1, <2>2 DEF AddNewSessions
<1>19. ASSUME NEW t \in Updaters, NEW s \in Sessions, UpdateMulti(t, s)
       PROVE  TypeOK'
  <2>1. sock' \in [Sessions -> {"open", "closing", "null"}]
    BY <1>0, <1>19 DEF UpdateMulti
  <2>2. s \in set[t]
    BY <1>19 DEF UpdateMulti, SessInv, LoopInv
  <2>3. CASE LeaveThread(t, s)
    <3>1. refs[s] > 0
      BY <2>2, ReachedAlive
    <3>2. status' \in [Sessions -> {"unborn", "alive", "freed"}] /\ refs' \in [Sessions -> Nat]
      BY <3>1, <2>3, RemovedTypes DEF LeaveThread
    <3> QED
      BY <1>0, <1>19, <2>1, <2>3, <3>2 DEF UpdateMulti, LeaveThread
  <2>4. CASE UNCHANGED <<refs, status, set, counter>>
    BY <1>0, <1>19, <2>1, <2>4 DEF UpdateMulti
  <2> QED
    BY <1>19, <2>3, <2>4 DEF UpdateMulti
<1> QED
  BY <1>1, <1>2, <1>3, <1>4, <1>5, <1>6, <1>8, <1>9, <1>10, <1>11, <1>12, <1>13, <1>14,
     <1>15, <1>16, <1>17, <1>18, <1>19 DEF Next, WorldStep, UpdaterStep

(* Every step leaves the loops of the threads in order.                    *)
LEMMA LoopStep ==
    ASSUME SessInv, Next
    PROVE  LoopInv'
<1> USE DEF LoopInv, Online, sessVars, mgrVars, updVars, bounds
<1>0. TypeOK /\ LoopInv
  BY DEF SessInv
<1>1. ASSUME NEW s \in Sessions,
             AddSession(s) \/ AuthSessionReturns(s) \/ CloseSocket(s) \/ KickPlayer(s)
      PROVE  LoopInv'
  BY <1>0, <1>1 DEF AddSession, AuthSessionReturns, CloseSocket, KickPlayer
<1>2. CASE AddSession_
  <2>1. PICK s \in Sessions, c \in Updaters :
          /\ phase = "add" /\ map' = [map EXCEPT ![Account[s]] = s] /\ Account[s] \in Accounts
          /\ UNCHANGED <<phase, todo, cursor, set, step, work>>
    BY <1>2, AddedIs
  <2>2. \A a \in Accounts : map'[a] # None => Account[map'[a]] = a
    BY <1>0, <2>1 DEF TypeOK
  <2>3. todo = {} /\ todo' = {} /\ cursor' = None
    BY <1>0, <2>1
  <2>4. \A t \in Updaters : work'[t] \subseteq set'[t] /\ (step'[t] # "run" => work'[t] = {})
    BY <1>0, <2>1
  <2> QED
    BY <2>1, <2>2, <2>3, <2>4
<1>3. ASSUME NEW a \in todo, Erase(a), phase = "update"
      PROVE  LoopInv'
  <2>1. /\ map' = [map EXCEPT ![a] = None] /\ a \in Accounts
        /\ cursor' = None /\ todo' = todo \ {a} /\ UNCHANGED <<phase, updVars>>
    BY <1>3, ErasedIs
  <2>2. \A b \in Accounts : map'[b] # None => map'[b] = map[b] /\ b # a
    BY <1>0, <2>1 DEF TypeOK
  <2>3. \A b \in Accounts : b # a => map'[b] = map[b]
    BY <1>0, <2>1 DEF TypeOK
  <2> QED
    BY <1>0, <1>3, <2>1, <2>2, <2>3
<1>4. ASSUME NEW a \in Accounts, UpdateSingle(a)
      PROVE  LoopInv'
  <2>1. CASE Erase(a)
    BY <1>3, <1>4, <2>1 DEF UpdateSingle
  <2>2. CASE ~Erase(a)
    BY <1>0, <1>4, <2>2 DEF UpdateSingle
  <2> QED
    BY <2>1, <2>2
<1>5. CASE UpdateSingleClient
  <2>1. cursor \in todo /\ phase = "update"
    BY <1>0, <1>5 DEF UpdateSingleClient
  <2>2. CASE Erase(cursor)
    BY <1>3, <2>1, <2>2
  <2>3. CASE ~Erase(cursor)
    BY <1>0, <1>5, <2>1, <2>3 DEF UpdateSingleClient
  <2> QED
    BY <2>2, <2>3
<1>6. CASE StartUpdate \/ LogoutComplete \/ UpdateDone \/ UpdateDynamics \/ MoveDone
  BY <1>0, <1>6 DEF StartUpdate, LogoutComplete, UpdateDone, UpdateDynamics, MoveDone
<1>7. ASSUME NEW a \in Accounts, MoveSession(a)
      PROVE  LoopInv'
  BY <1>0, <1>7 DEF MoveSession
<1>8. CASE ServerClose
  BY <1>0, <1>8 DEF ServerClose
<1>9. ASSUME NEW t \in Updaters, SvcTop(t)
      PROVE  LoopInv'
  BY <1>0, <1>9 DEF SvcTop, TypeOK
<1>10. ASSUME NEW t \in Updaters, SetSleep(t)
       PROVE  LoopInv'
  <2>1. /\ set' = [set EXCEPT ![t] = {}] /\ step' = [step EXCEPT ![t] = "add"]
        /\ work' = work /\ work[t] = {} /\ UNCHANGED <<map, todo, phase, cursor>>
    BY <1>0, <1>10 DEF SetSleep, TypeOK
  <2>2. \A u \in Updaters : work'[u] \subseteq set'[u] /\ (step'[u] # "run" => work'[u] = {})
    BY <1>0, <2>1 DEF TypeOK
  <2> QED
    BY <1>0, <2>1, <2>2
<1>11. ASSUME NEW t \in Updaters, AddNewSessions(t)
       PROVE  LoopInv'
  <2>1. /\ set' = [set EXCEPT ![t] = @ \cup ToSet(newQ[t])]
        /\ work' = [work EXCEPT ![t] = set[t] \cup ToSet(newQ[t])]
        /\ step' = [step EXCEPT ![t] = "run"]
        /\ UNCHANGED <<map, todo, phase, cursor>>
    BY <1>11 DEF AddNewSessions
  <2>2. \A u \in Updaters : work'[u] \subseteq set'[u] /\ (step'[u] # "run" => work'[u] = {})
    BY <1>0, <2>1 DEF TypeOK
  <2> QED
    BY <1>0, <2>1, <2>2
<1>12. ASSUME NEW t \in Updaters, NEW s \in Sessions, UpdateMulti(t, s)
       PROVE  LoopInv'
  <2>1. /\ work' = [work EXCEPT ![t] = @ \ {s}]
        /\ set' = set \/ set' = [set EXCEPT ![t] = @ \ {s}]
        /\ UNCHANGED <<map, todo, phase, cursor, step>>
    BY <1>12 DEF UpdateMulti, LeaveThread
  <2>2. \A u \in Updaters : work'[u] \subseteq set'[u] /\ (step'[u] # "run" => work'[u] = {})
    BY <1>0, <2>1 DEF TypeOK
  <2> QED
    BY <1>0, <2>1, <2>2
<1> QED
  BY <1>1, <1>2, <1>4, <1>5, <1>6, <1>7, <1>8, <1>9, <1>10, <1>11, <1>12
  DEF Next, WorldStep, UpdaterStep

\* Nothing has happened to the places of sessions, or to the login queue.
Elsewhere ==
    UNCHANGED <<status, refs, held, addQ, map, queue, newQ, set, counter, replaced, orphans>>

(* These steps do not.                                                     *)
LEMMA StepsElsewhere ==
    ASSUME SessInv
    PROVE  /\ \A s \in Sessions : CloseSocket(s) \/ KickPlayer(s) => Elsewhere
           /\ StartUpdate \/ LogoutComplete \/ UpdateDone \/ UpdateDynamics \/ MoveDone
                => Elsewhere
           /\ \A t \in Updaters : SvcTop(t) => Elsewhere
           /\ \A a \in Accounts : UpdateSingle(a) /\ ~Erase(a) => Elsewhere
           /\ UpdateSingleClient /\ ~Erase(cursor) => Elsewhere
           /\ \A t \in Updaters, s \in Sessions :
                UpdateMulti(t, s) /\ ~LeaveThread(t, s) => Elsewhere
<1> USE DEF Elsewhere, sessVars, mgrVars, updVars, bounds
<1>1. \A s \in Sessions : CloseSocket(s) \/ KickPlayer(s) => Elsewhere
  BY DEF CloseSocket, KickPlayer
<1>2. StartUpdate \/ LogoutComplete \/ UpdateDone \/ UpdateDynamics \/ MoveDone => Elsewhere
  BY DEF StartUpdate, LogoutComplete, UpdateDone, UpdateDynamics, MoveDone
<1>3. \A t \in Updaters : SvcTop(t) => Elsewhere
  BY DEF SvcTop
<1>4. \A a \in Accounts : UpdateSingle(a) /\ ~Erase(a) => Elsewhere
  BY DEF UpdateSingle
<1>5. UpdateSingleClient /\ ~Erase(cursor) => Elsewhere
  BY DEF UpdateSingleClient
<1>6. \A t \in Updaters, s \in Sessions : UpdateMulti(t, s) /\ ~LeaveThread(t, s) => Elsewhere
  BY DEF UpdateMulti
<1> QED
  BY <1>1, <1>2, <1>3, <1>4, <1>5, <1>6

(* The steps that matter.                                                  *)
LEMMA StepKinds ==
    ASSUME SessInv, Next
    PROVE  \/ Elsewhere \/ AddSession_ \/ ServerClose
           \/ \E s \in Sessions : AddSession(s) \/ AuthSessionReturns(s)
           \/ \E a \in todo : Erase(a)
           \/ \E a \in Accounts : MoveSession(a)
           \/ \E t \in Updaters : SetSleep(t) \/ AddNewSessions(t)
           \/ \E t \in Updaters, s \in Sessions : UpdateMulti(t, s) /\ LeaveThread(t, s)
<1>1. \A a \in Accounts : UpdateSingle(a) => a \in todo
  BY DEF UpdateSingle
<1>2. UpdateSingleClient => cursor \in todo
  BY DEF UpdateSingleClient, SessInv, LoopInv
<1>3. CASE WorldStep
  BY <1>1, <1>2, <1>3, StepsElsewhere DEF WorldStep
<1>4. ASSUME NEW t \in Updaters, UpdaterStep(t)
      PROVE  \/ Elsewhere \/ SetSleep(t) \/ AddNewSessions(t)
             \/ \E s \in Sessions : UpdateMulti(t, s) /\ LeaveThread(t, s)
  BY <1>4, StepsElsewhere DEF UpdaterStep
<1> QED
  BY <1>3, <1>4, StepsElsewhere DEF Next

(* A session that is not yet in the map stays away from everything else.   *)
LEMMA NewStep ==
    ASSUME SessInv, Next
    PROVE  NewInv'
<1> USE DEF NewInv, sessVars, mgrVars, updVars, bounds
<1>0. TypeOK /\ LoopInv /\ NewInv
  BY DEF SessInv
<1>1. CASE Elsewhere
  BY <1>0, <1>1 DEF Elsewhere
<1>2. ASSUME NEW s \in Sessions, AddSession(s)
      PROVE  NewInv'
  <2>1. /\ status[s] = "unborn" /\ addQ' = Append(addQ, s)
        /\ status' = [status EXCEPT ![s] = "alive"]
        /\ UNCHANGED <<map, queue, newQ, set, replaced>>
    BY <1>2 DEF AddSession
  <2>2. ~Contains(addQ, s)
    BY <2>1, ReachedAlive
  <2>3. Distinct(addQ') /\ \A x : Contains(addQ', x) <=> Contains(addQ, x) \/ x = s
    BY <1>0, <2>1, <2>2, LongerQueue DEF TypeOK
  <2>4. \A o \in Sessions : status'[o] = "unborn" => status[o] = "unborn"
    BY <1>0, <2>1 DEF TypeOK
  <2> QED
    BY <1>0, <2>1, <2>3, <2>4
<1>3. ASSUME NEW s \in Sessions, RemoveReference(s), refs[s] > 0,
             addQ' = addQ, queue' = queue, replaced' = replaced,
             \A o \in Sessions : map[Account[o]] # o => map'[Account[o]] # o,
             \A t \in Updaters, o \in Sessions :
                /\ o \notin set[t] => o \notin set'[t]
                /\ ~Contains(newQ[t], o) => ~Contains(newQ'[t], o)
      PROVE  NewInv'
  <2>1. \A o \in Sessions : status'[o] = "unborn" => status[o] = "unborn"
    BY <1>3, RemovedTypes
  <2> QED
    BY <1>0, <1>3, <2>1
<1>4. ASSUME NEW s \in Sessions, AuthSessionReturns(s)
      PROVE  NewInv'
  <2>1. refs[s] > 0
    BY <1>4, ReachedAlive DEF AuthSessionReturns
  <2> QED
    BY <1>3, <1>4, <2>1 DEF AuthSessionReturns
<1>5. CASE AddSession_
  <2>1. PICK s \in Sessions, c \in Updaters :
          /\ Contains(addQ, s) /\ GiveTo(c, s) /\ Distinct(addQ')
          /\ \A x : Contains(addQ', x) <=> Contains(addQ, x) /\ x # s
          /\ map' = [map EXCEPT ![Account[s]] = s] /\ Account[s] \in Accounts
          /\ \/ map[Account[s]] = None /\ replaced' = replaced
             \/ map[Account[s]] \in Sessions /\ replaced' = replaced \cup {map[Account[s]]}
          /\ Distinct(queue') /\ \A x : Contains(queue', x) => Contains(queue, x) \/ x = s
          /\ UNCHANGED <<status, set>>
    BY <1>5, AddedIs
  <2>2. status[s] = "alive"
    BY <2>1, ReachedAlive
  <2>3. SUFFICES ASSUME NEW o \in Sessions, status'[o] = "unborn" \/ Contains(addQ', o)
                 PROVE  /\ o \notin replaced' /\ ~Contains(queue', o)
                        /\ map'[Account[o]] # o
                        /\ \A t \in Updaters : o \notin set'[t] /\ ~Contains(newQ'[t], o)
    BY <2>1
  <2>4. /\ o # s /\ o \notin replaced /\ ~Contains(queue, o) /\ map[Account[o]] # o
        /\ \A t \in Updaters : o \notin set[t] /\ ~Contains(newQ[t], o)
    BY <1>0, <2>1, <2>2, <2>3
  <2>5. map[Account[s]] # o
    <3> SUFFICES ASSUME map[Account[s]] = o PROVE FALSE
      OBVIOUS
    <3>1. Account[o] = Account[s]
      BY <1>0, <2>1, SessionsAssumption DEF LoopInv
    <3> QED
      BY <3>1, <2>4
  <2>6. map'[Account[o]] # o
    BY <1>0, <2>1, <2>4, SessionsAssumption DEF TypeOK
  <2>7. \A t \in Updaters : ~Contains(newQ'[t], o)
    <3> SUFFICES ASSUME NEW t \in Updaters PROVE ~Contains(newQ'[t], o)
      OBVIOUS
    <3>1. newQ'[t] = newQ[t] \/ newQ'[t] = Append(newQ[t], s)
      BY <2>1, GivenTypes
    <3>2. newQ[t] \in Seq(Sessions)
      BY <1>0 DEF TypeOK
    <3>3. ~Contains(Append(newQ[t], s), o)
      BY <3>2, <2>4, LongerQueue
    <3> QED
      BY <3>1, <3>3, <2>4
  <2> QED
    BY <2>1, <2>4, <2>5, <2>6, <2>7
<1>6. ASSUME NEW a \in todo, Erase(a)
      PROVE  NewInv'
  <2>1. /\ map[a] \in Sessions /\ refs[map[a]] > 0 /\ RemoveReference(map[a])
        /\ map' = [map EXCEPT ![a] = None] /\ a \in Accounts
        /\ UNCHANGED <<addQ, queue, updVars, replaced>>
    BY <1>6, ErasedIs
  <2>2. \A o \in Sessions : map[Account[o]] # o => map'[Account[o]] # o
    BY <1>0, <2>1, SessionsAssumption DEF TypeOK
  <2> QED
    BY <1>3, <2>1, <2>2
<1>7. ASSUME NEW a \in Accounts, MoveSession(a)
      PROVE  NewInv'
  <2>1. map[a] # None
    BY <1>0, <1>7 DEF MoveSession, LoopInv, Online
  <2>2. map[a] \in Sessions /\ Account[map[a]] = a /\ status[map[a]] = "alive"
    BY <2>1, MapPlace
  <2>3. GiveTo(0, map[a]) /\ 0 \in Updaters
        /\ UNCHANGED <<status, addQ, map, queue, set, replaced>>
    BY <1>0, <1>7, ChosenUpdater DEF MoveSession, TypeOK
  <2>4. ASSUME NEW o \in Sessions, NEW t \in Updaters, o # map[a], ~Contains(newQ[t], o)
        PROVE  ~Contains(newQ'[t], o)
    <3>1. newQ'[t] = newQ[t] \/ newQ'[t] = Append(newQ[t], map[a])
      BY <2>2, <2>3, GivenTypes
    <3>2. newQ[t] \in Seq(Sessions)
      BY <1>0 DEF TypeOK
    <3>3. ~Contains(Append(newQ[t], map[a]), o)
      BY <3>2, <2>2, <2>4, LongerQueue
    <3> QED
      BY <3>1, <3>3, <2>4
  <2>5. \A o \in Sessions : status[o] = "unborn" \/ Contains(addQ, o) => o # map[a]
    BY <1>0, <2>2
  <2> QED
    BY <1>0, <2>3, <2>4, <2>5
<1>8. CASE ServerClose
  <2>1. /\ \A o \in Sessions : status'[o] = "unborn" => status[o] = "unborn"
        /\ \A o \in Sessions : map'[Account[o]] = None
        /\ UNCHANGED <<addQ, queue, newQ, set, replaced>>
    BY <1>8, SessionsAssumption DEF ServerClose
  <2> QED
    BY <1>0, <2>1, SessionsAssumption
<1>9. ASSUME NEW t \in Updaters, SetSleep(t)
      PROVE  NewInv'
  BY <1>0, <1>9 DEF SetSleep, TypeOK
<1>10. ASSUME NEW t \in Updaters, AddNewSessions(t)
       PROVE  NewInv'
  <2>1. /\ set' = [set EXCEPT ![t] = @ \cup ToSet(newQ[t])]
        /\ newQ' = [newQ EXCEPT ![t] = <<>>]
        /\ UNCHANGED <<status, addQ, map, queue, replaced>>
    BY <1>10 DEF AddNewSessions
  <2>2. \A x : ~Contains(<<>>, x)
    BY DEF Contains
  <2>3. \A x \in Sessions : x \in ToSet(newQ[t]) <=> Contains(newQ[t], x)
    BY <1>0, LongerQueue DEF TypeOK
  <2>4. \A u \in Updaters, o \in Sessions :
          ~Contains(newQ[u], o) /\ o \notin set[u] => ~Contains(newQ'[u], o) /\ o \notin set'[u]
    BY <1>0, <2>1, <2>2, <2>3 DEF TypeOK
  <2> QED
    BY <1>0, <2>1, <2>4
<1>11. ASSUME NEW t \in Updaters, NEW s \in Sessions, UpdateMulti(t, s), LeaveThread(t, s)
       PROVE  NewInv'
  <2>1. s \in set[t]
    BY <1>0, <1>11 DEF UpdateMulti, LoopInv
  <2>2. refs[s] > 0
    BY <2>1, ReachedAlive
  <2>3. /\ RemoveReference(s) /\ set' = [set EXCEPT ![t] = @ \ {s}]
        /\ UNCHANGED <<addQ, queue, replaced, map, newQ>>
    BY <1>11 DEF UpdateMulti, LeaveThread
  <2>4. \A u \in Updaters, o \in Sessions : o \notin set[u] => o \notin set'[u]
    BY <1>0, <2>3 DEF TypeOK
  <2> QED
    BY <1>3, <2>2, <2>3, <2>4
<1> QED
  BY <1>1, <1>2, <1>4, <1>5, <1>6, <1>7, <1>8, <1>9, <1>10, <1>11, StepKinds

(* The places are numbered.                                                *)
LEMMA PlaceNumbers ==
    /\ InSocket \in Int /\ InQueue \in Int /\ InMap \in Int /\ 0 \in Nat
    /\ Updaters \subseteq Int
    /\ \A t \in Updaters : t # InSocket /\ t # InQueue /\ t # InMap
    /\ InSocket # InQueue /\ InSocket # InMap /\ InQueue # InMap
  BY ThreadsAssumption DEF Updaters, InSocket, InQueue, InMap

(* A session whose places stay or become fewer keeps its references; one   *)
(* that loses a place may lose a reference.                                *)
LEMMA RefKept ==
    ASSUME SessInv, NEW s \in Sessions, refs'[s] = refs[s], status'[s] = status[s],
           \A x \in Int, i \in Nat : Place(s, x, i)' => Place(s, x, i)
    PROVE  Enough(Places(s)', refs'[s]) /\ (status'[s] = "alive" <=> refs'[s] > 0)
<1>1. refs[s] \in Nat /\ Enough(Places(s), refs[s]) /\ (status[s] = "alive" <=> refs[s] > 0)
  BY DEF SessInv, TypeOK, RefInv
<1>2. Enough(Places(s)', refs[s])
  BY <1>1, PlaceNumbers, RefMoves
<1> QED
  BY <1>1, <1>2

(* The reference that goes with a place takes nothing from the others, and *)
(* the session lives on unless it was the last.                            *)
LEMMA RefLost ==
    ASSUME SessInv, NEW s \in Sessions, RemoveReference(s),
           NEW a \in Int, NEW b \in Nat, Place(s, a, b),
           \A x \in Int, i \in Nat : Place(s, x, i)' => Place(s, x, i) /\ ~(x = a /\ i = b),
           \A o \in Sessions \ {s}, x \in Int, i \in Nat : Place(o, x, i)' => Place(o, x, i)
    PROVE  RefInv'
<1>1. refs[s] \in Nat /\ Enough(Places(s), refs[s])
  BY DEF SessInv, TypeOK, RefInv
<1> DEFINE S == Places(s)
           T == Places(s)'
           p == <<a, b>>
<1>2. refs[s] > 0 /\ Enough(Places(s)', refs[s] - 1)
  <2>1. p \in S /\ T \subseteq S \ {p} /\ Enough(S, refs[s])
    BY <1>1 DEF Places
  <2>2. T = Places(s)'
    OBVIOUS
  <2> HIDE DEF S, T, p
  <2>3. refs[s] > 0 /\ Enough(T, refs[s] - 1)
    BY <1>1, <2>1, Counting
  <2> QED
    BY <2>2, <2>3
<1>3. /\ refs'[s] = refs[s] - 1 /\ (status'[s] = "alive" <=> refs'[s] > 0)
      /\ \A o \in Sessions \ {s} : refs'[o] = refs[o] /\ status'[o] = status[o]
  BY <1>2, RemovedTypes
<1>4. \A o \in Sessions \ {s} :
        Enough(Places(o)', refs'[o]) /\ (status'[o] = "alive" <=> refs'[o] > 0)
  BY <1>3, RefKept
<1> QED
  BY <1>2, <1>3, <1>4 DEF RefInv

(* A new session: one reference for the socket thread, one for the queue.  *)
LEMMA RefCreated ==
    ASSUME SessInv, NEW s \in Sessions, AddSession(s)
    PROVE  RefInv'
<1>1. /\ status[s] = "unborn" /\ addQ' = Append(addQ, s) /\ held' = held \cup {s}
      /\ status' = [status EXCEPT ![s] = "alive"] /\ refs' = [refs EXCEPT ![s] = 2]
      /\ UNCHANGED <<map, newQ, set>>
  BY DEF AddSession, updVars
<1>2. TypeOK /\ refs[s] \in Nat /\ refs[s] = 0 /\ Enough(Places(s), refs[s])
  BY <1>1 DEF SessInv, RefInv, TypeOK
<1>3. \A x \in Int, i \in Nat : ~Place(s, x, i)
  <2> SUFFICES ASSUME NEW x \in Int, NEW i \in Nat, Place(s, x, i) PROVE FALSE
    OBVIOUS
  <2>1. refs[s] > 0
    BY <1>2, RefMoves
  <2> QED
    BY <1>2, <2>1
<1>4. \A o : Contains(addQ', o) <=> Contains(addQ, o) \/ o = s
  BY <1>1, <1>2, LongerQueue DEF TypeOK
<1>5. ASSUME NEW o \in Sessions \ {s}
      PROVE  Enough(Places(o)', refs'[o]) /\ (status'[o] = "alive" <=> refs'[o] > 0)
  <2>1. refs'[o] = refs[o] /\ status'[o] = status[o]
    BY <1>1, <1>2 DEF TypeOK
  <2>2. \A x \in Int, i \in Nat : Place(o, x, i)' => Place(o, x, i)
    BY <1>1, <1>4 DEF Place
  <2> QED
    BY <2>1, <2>2, RefKept
<1>6. \A x \in Int, i \in Nat :
        Place(s, x, i)' => (x = InSocket /\ i = 0) \/ (x = InQueue /\ i = 0)
  BY <1>1, <1>3 DEF Place
<1> DEFINE T == {<<InSocket, 0>>}
<1>7. Places(s)' \subseteq T \cup {<<InQueue, 0>>}
  BY <1>6 DEF Places
<1>8. Enough(T, 1)
  <2>1. PICK u : u = <<InSocket, 0>>
    OBVIOUS
  <2>2. IsFiniteSet({u}) /\ Cardinality({u}) = 1
    BY FS_Singleton
  <2> QED
    BY <2>1, <2>2 DEF Enough
<1> HIDE DEF T
<1>9. Enough(Places(s)', 1 + 1)
  BY <1>7, <1>8, Counting
<1>10. refs'[s] = 2 /\ status'[s] = "alive"
  BY <1>1, <1>2 DEF TypeOK
<1> QED
  BY <1>5, <1>9, <1>10 DEF RefInv

(* AddSession_: the reference of the queue becomes that of the map, and    *)
(* the updater thread gets one of its own.                                 *)
LEMMA RefAdded ==
    ASSUME SessInv, AddSession_
    PROVE  RefInv'
<1>0. TypeOK
  BY DEF SessInv
<1>1. PICK s \in Sessions, c \in Updaters :
        /\ Contains(addQ, s) /\ GiveTo(c, s)
        /\ \A x : Contains(addQ', x) <=> Contains(addQ, x) /\ x # s
        /\ map' = [map EXCEPT ![Account[s]] = s] /\ Account[s] \in Accounts
        /\ UNCHANGED <<status, held, set>>
  BY AddedIs
<1>2. /\ refs'[s] = refs[s] + 1 /\ \A o \in Sessions \ {s} : refs'[o] = refs[o]
      /\ newQ'[c] = Append(newQ[c], s) /\ \A u \in Updaters \ {c} : newQ'[u] = newQ[u]
  BY <1>1, GivenTypes
<1>3. /\ newQ[c] \in Seq(Sessions) /\ Len(newQ'[c]) = Len(newQ[c]) + 1 /\ Len(newQ[c]) \in Nat
      /\ newQ'[c][Len(newQ[c]) + 1] = s
      /\ \A i \in 1 .. Len(newQ[c]) : newQ'[c][i] = newQ[c][i]
  BY <1>0, <1>2, LongerQueue DEF TypeOK
<1> DEFINE n == Len(newQ[c]) + 1
<1>4. \A o \in Sessions, x \in Int, i \in Nat : Place(o, x, i)' =>
        \/ Place(o, x, i) /\ ~(o = s /\ x = InQueue)
        \/ o = s /\ x = InMap /\ i = 0
        \/ o = s /\ x = c /\ i = n
  <2> SUFFICES ASSUME NEW o \in Sessions, NEW x \in Int, NEW i \in Nat, Place(o, x, i)'
               PROVE  \/ Place(o, x, i) /\ ~(o = s /\ x = InQueue)
                      \/ o = s /\ x = InMap /\ i = 0
                      \/ o = s /\ x = c /\ i = n
    OBVIOUS
  <2>1. CASE x = InSocket /\ i = 0 /\ o \in held'
    BY <2>1, <1>1, PlaceNumbers DEF Place
  <2>2. CASE x = InQueue /\ i = 0 /\ Contains(addQ', o)
    BY <2>2, <1>1 DEF Place
  <2>3. CASE x = InMap /\ i = 0 /\ map'[Account[o]] = o
    <3>1. CASE o = s
      BY <2>3, <3>1
    <3>2. CASE o # s
      <4>1. map[Account[o]] = o
        BY <2>3, <3>2, <1>0, <1>1, SessionsAssumption DEF TypeOK
      <4> QED
        BY <4>1, <2>3, <3>2 DEF Place
    <3> QED
      BY <3>1, <3>2
  <2>4. CASE x \in Updaters /\ i = 0 /\ o \in set'[x]
    BY <2>4, <1>1, PlaceNumbers DEF Place
  <2>5. CASE x \in Updaters /\ i \in 1 .. Len(newQ'[x]) /\ newQ'[x][i] = o
    <3>1. CASE x = c
      <4>1. i \in 1 .. Len(newQ[c]) \/ i = n
        BY <2>5, <3>1, <1>3
      <4>2. CASE i \in 1 .. Len(newQ[c])
        BY <4>2, <2>5, <3>1, <1>3, PlaceNumbers DEF Place
      <4>3. CASE i = n
        BY <4>3, <2>5, <3>1, <1>3
      <4> QED
        BY <4>1, <4>2, <4>3
    <3>2. CASE x # c
      BY <2>5, <3>2, <1>2, PlaceNumbers DEF Place
    <3> QED
      BY <3>1, <3>2
  <2> QED
    BY <2>1, <2>2, <2>3, <2>4, <2>5 DEF Place
<1>5. ASSUME NEW o \in Sessions \ {s}
      PROVE  Enough(Places(o)', refs'[o]) /\ (status'[o] = "alive" <=> refs'[o] > 0)
  BY <1>1, <1>2, <1>4, RefKept
<1> DEFINE p == <<InQueue, 0>>
           y == <<InMap, 0>>
           z == <<c, n>>
           T == (Places(s) \ {p}) \cup {y}
<1>6. Places(s)' \subseteq T \cup {z} /\ p \in Places(s)
  <2>1. Place(s, InQueue, 0) /\ InQueue \in Int
    BY <1>1, PlaceNumbers DEF Place
  <2>2. \A q \in Places(s)' : q \in T \cup {z}
    <3> SUFFICES ASSUME NEW q \in Places(s)' PROVE q \in T \cup {z}
      OBVIOUS
    <3>1. q \in Int \X Nat /\ Place(s, q[1], q[2])'
      BY DEF Places
    <3>2. \/ Place(s, q[1], q[2]) /\ q[1] # InQueue
          \/ q[1] = InMap /\ q[2] = 0
          \/ q[1] = c /\ q[2] = n
      BY <3>1, <1>4
    <3> QED
      BY <3>1, <3>2 DEF Places
  <2> QED
    BY <2>1, <2>2 DEF Places
<1> HIDE DEF p, y, z
<1>7. refs[s] \in Nat /\ Enough(Places(s), refs[s]) /\ status[s] = "alive"
  BY <1>1, ReachedAlive DEF SessInv, TypeOK, RefInv
<1>8. Enough(T, refs[s])
  <2> DEFINE S == Places(s)
  <2>1. T \subseteq (S \ {p}) \cup {y} /\ p \in S /\ Enough(S, refs[s]) /\ refs[s] \in Nat
    BY <1>6, <1>7
  <2> HIDE DEF S, T
  <2> QED
    BY <2>1, Counting
<1> HIDE DEF T
<1>9. Enough(Places(s)', refs[s] + 1)
  BY <1>6, <1>7, <1>8, Counting
<1>10. Enough(Places(s)', refs'[s]) /\ (status'[s] = "alive" <=> refs'[s] > 0)
  BY <1>1, <1>2, <1>7, <1>9
<1> QED
  BY <1>5, <1>10 DEF RefInv

(* MoveSession: updater 0 gets the session, and a reference for it.        *)
LEMMA RefMoved ==
    ASSUME SessInv, NEW a \in Accounts, MoveSession(a)
    PROVE  RefInv'
<1>0. TypeOK /\ LoopInv
  BY DEF SessInv
<1>1. map[a] # None
  BY <1>0 DEF MoveSession, LoopInv, Online
<1>2. PICK s \in Sessions : s = map[a] /\ refs[s] \in Nat /\ refs[s] > 0 /\ status[s] = "alive"
  BY <1>1, MapPlace
<1>3. PICK c \in Updaters : c = 0
  BY <1>0, ChosenUpdater DEF TypeOK
<1>4. GiveTo(c, s) /\ UNCHANGED <<status, held, addQ, map, set>>
  BY <1>2, <1>3 DEF MoveSession
<1>5. /\ refs'[s] = refs[s] + 1 /\ \A o \in Sessions \ {s} : refs'[o] = refs[o]
      /\ newQ'[c] = Append(newQ[c], s) /\ \A u \in Updaters \ {c} : newQ'[u] = newQ[u]
  BY <1>4, GivenTypes
<1>6. PICK n \in Nat :
        /\ Len(newQ[c]) \in Nat /\ Len(newQ'[c]) = n /\ n = Len(newQ[c]) + 1
        /\ newQ'[c][n] = s /\ \A i \in 1 .. Len(newQ[c]) : newQ'[c][i] = newQ[c][i]
  BY <1>0, <1>5, LongerQueue DEF TypeOK
<1>7. \A o \in Sessions, x \in Int, i \in Nat :
        Place(o, x, i)' => Place(o, x, i) \/ (o = s /\ x = c /\ i = n)
  <2> SUFFICES ASSUME NEW o \in Sessions, NEW x \in Int, NEW i \in Nat, Place(o, x, i)'
               PROVE  Place(o, x, i) \/ (o = s /\ x = c /\ i = n)
    OBVIOUS
  <2>1. CASE x \in Updaters /\ i \in 1 .. Len(newQ'[x]) /\ newQ'[x][i] = o
    <3>1. CASE x = c
      <4>1. i \in 1 .. Len(newQ[c]) \/ i = n
        BY <2>1, <3>1, <1>6
      <4> QED
        BY <4>1, <2>1, <3>1, <1>6 DEF Place
    <3>2. CASE x # c
      BY <2>1, <3>2, <1>5 DEF Place
    <3> QED
      BY <3>1, <3>2
  <2> QED
    BY <2>1, <1>4 DEF Place
<1>8. ASSUME NEW o \in Sessions \ {s}
      PROVE  Enough(Places(o)', refs'[o]) /\ (status'[o] = "alive" <=> refs'[o] > 0)
  BY <1>4, <1>5, <1>7, RefKept
<1>9. Enough(Places(s)', refs[s] + 1)
  <2>1. Enough(Places(s), refs[s]) /\ c \in Int
    BY PlaceNumbers DEF SessInv, RefInv
  <2>2. \A x \in Int, i \in Nat : Place(s, x, i)' => Place(s, x, i) \/ (x = c /\ i = n)
    BY <1>7
  <2> DEFINE S == Places(s)
             T == Places(s)'
             q == <<c, n>>
  <2>3. T \subseteq S \cup {q} /\ Enough(S, refs[s])
    BY <2>1, <2>2 DEF Places
  <2>4. T = Places(s)'
    OBVIOUS
  <2> HIDE DEF S, T, q
  <2>5. Enough(T, refs[s] + 1)
    BY <1>2, <2>3, Counting
  <2> QED
    BY <2>4, <2>5
<1>10. Enough(Places(s)', refs'[s]) /\ (status'[s] = "alive" <=> refs'[s] > 0)
  BY <1>2, <1>4, <1>5, <1>9
<1> QED
  BY <1>8, <1>10 DEF RefInv

(* ServerClose takes one reference of every session of the map.            *)
LEMMA RefClosed ==
    ASSUME SessInv, ServerClose
    PROVE  RefInv'
<1> DEFINE mine == {map[a] : a \in Online}
<1>0. TypeOK /\ LoopInv
  BY DEF SessInv
<1>1. /\ refs' = [s \in Sessions |-> IF s \in mine THEN refs[s] - 1 ELSE refs[s]]
      /\ status' = [s \in Sessions |->
                      IF s \in mine /\ refs[s] = 1 THEN "freed" ELSE status[s]]
      /\ map' = [a \in Accounts |-> None]
      /\ UNCHANGED <<held, addQ, newQ, set>>
  BY DEF ServerClose
<1>2. \A s \in Sessions : s \in mine <=> map[Account[s]] = s
  BY <1>0, SessionsAssumption DEF Online, LoopInv
<1> HIDE DEF mine
<1>3. \A s \in Sessions, x \in Int, i \in Nat :
        Place(s, x, i)' => Place(s, x, i) /\ ~(x = InMap /\ i = 0)
  <2> SUFFICES ASSUME NEW s \in Sessions, NEW x \in Int, NEW i \in Nat, Place(s, x, i)'
               PROVE  Place(s, x, i) /\ ~(x = InMap /\ i = 0)
    OBVIOUS
  <2>1. map'[Account[s]] = None /\ None # s
    BY <1>1, SessionsAssumption
  <2> QED
    BY <2>1, <1>1, PlaceNumbers DEF Place
<1> SUFFICES ASSUME NEW s \in Sessions
             PROVE  Enough(Places(s)', refs'[s]) /\ (status'[s] = "alive" <=> refs'[s] > 0)
  BY DEF RefInv
<1>4. CASE s \notin mine
  <2>1. refs'[s] = refs[s] /\ status'[s] = status[s]
    BY <1>1, <1>4
  <2> QED
    BY <2>1, <1>3, RefKept
<1>5. CASE s \in mine
  <2>1. /\ refs'[s] = refs[s] - 1
        /\ status'[s] = IF refs[s] = 1 THEN "freed" ELSE status[s]
    BY <1>1, <1>5
  <2>2. Place(s, InMap, 0) /\ InMap \in Int /\ 0 \in Nat
    BY <1>2, <1>5, PlaceNumbers DEF Place
  <2>3. refs[s] \in Nat /\ refs[s] > 0 /\ status[s] = "alive"
    BY <1>2, <1>5, ReachedAlive
  <2>4. \A x \in Int, i \in Nat : Place(s, x, i)' => Place(s, x, i) /\ ~(x = InMap /\ i = 0)
    BY <1>3
  <2>5. Enough(Places(s)', refs[s] - 1)
    <3> DEFINE S == Places(s)
               T == Places(s)'
               p == <<InMap, 0>>
    <3>1. p \in S /\ T \subseteq S \ {p} /\ Enough(S, refs[s])
      BY <2>2, <2>4 DEF Places, SessInv, RefInv
    <3>2. T = Places(s)'
      OBVIOUS
    <3> HIDE DEF S, T, p
    <3>3. Enough(T, refs[s] - 1)
      BY <2>3, <3>1, Counting
    <3> QED
      BY <3>2, <3>3
  <2> QED
    BY <2>1, <2>3, <2>5
<1> QED
  BY <1>4, <1>5

(* AddNewSessions: the places in the queue of an updater become the one    *)
(* place in its set.                                                       *)
LEMMA RefTaken ==
    ASSUME SessInv, NEW t \in Updaters, AddNewSessions(t)
    PROVE  RefInv'
<1>0. TypeOK
  BY DEF SessInv
<1>1. /\ set' = [set EXCEPT ![t] = @ \cup ToSet(newQ[t])]
      /\ newQ' = [newQ EXCEPT ![t] = <<>>]
      /\ UNCHANGED <<status, refs, held, addQ, map>>
  BY DEF AddNewSessions, sessVars, mgrVars
<1>2. /\ set'[t] = set[t] \cup ToSet(newQ[t]) /\ newQ'[t] = <<>>
      /\ \A u \in Updaters \ {t} : set'[u] = set[u] /\ newQ'[u] = newQ[u]
  BY <1>0, <1>1 DEF TypeOK
<1>3. \A i \in Nat : i \notin 1 .. Len(newQ'[t])
  BY <1>2
<1>4. \A s \in Sessions : s \in ToSet(newQ[t]) <=> Contains(newQ[t], s)
  BY <1>0, LongerQueue DEF TypeOK
<1> SUFFICES ASSUME NEW s \in Sessions
             PROVE  Enough(Places(s)', refs'[s]) /\ (status'[s] = "alive" <=> refs'[s] > 0)
  BY DEF RefInv
<1>5. \A x \in Int, i \in Nat : Place(s, x, i)' =>
        \/ Place(s, x, i) /\ ~(x = t /\ i > 0)
        \/ x = t /\ i = 0 /\ (s \in set[t] \/ Contains(newQ[t], s))
  <2> SUFFICES ASSUME NEW x \in Int, NEW i \in Nat, Place(s, x, i)'
               PROVE  \/ Place(s, x, i) /\ ~(x = t /\ i > 0)
                      \/ x = t /\ i = 0 /\ (s \in set[t] \/ Contains(newQ[t], s))
    OBVIOUS
  <2>1. CASE x \in Updaters /\ i = 0 /\ s \in set'[x]
    BY <2>1, <1>2, <1>4, PlaceNumbers DEF Place
  <2>2. CASE x \in Updaters /\ i \in 1 .. Len(newQ'[x]) /\ newQ'[x][i] = s
    <3>1. x # t
      BY <2>2, <1>3
    <3> QED
      BY <2>2, <3>1, <1>2 DEF Place
  <2> QED
    BY <2>1, <2>2, <1>1, PlaceNumbers DEF Place
<1>6. CASE s \in set[t] \/ ~Contains(newQ[t], s)
  <2>1. \A x \in Int, i \in Nat : Place(s, x, i)' => Place(s, x, i)
    BY <1>5, <1>6 DEF Place
  <2> QED
    BY <2>1, <1>1, RefKept
<1>7. CASE Contains(newQ[t], s)
  <2>1. PICK j \in Nat : j > 0 /\ j \in 1 .. Len(newQ[t]) /\ newQ[t][j] = s
    BY <1>7 DEF Contains
  <2>2. Place(s, t, j) /\ t \in Int /\ 0 \in Nat
    BY <2>1, PlaceNumbers DEF Place
  <2>3. \A x \in Int, i \in Nat :
          Place(s, x, i)' => (Place(s, x, i) /\ ~(x = t /\ i = j)) \/ (x = t /\ i = 0)
    BY <1>5, <2>1
  <2>4. /\ refs[s] \in Nat /\ Enough(Places(s), refs[s])
        /\ (status[s] = "alive" <=> refs[s] > 0)
    BY DEF SessInv, TypeOK, RefInv
  <2>5. Enough(Places(s)', refs[s])
    <3> DEFINE S == Places(s)
               T == Places(s)'
               p == <<t, j>>
               q == <<t, 0>>
    <3>1. p \in S /\ T \subseteq (S \ {p}) \cup {q} /\ Enough(S, refs[s])
      BY <2>2, <2>3, <2>4 DEF Places
    <3>2. T = Places(s)'
      OBVIOUS
    <3> HIDE DEF S, T, p, q
    <3>3. Enough(T, refs[s])
      BY <2>4, <3>1, Counting
    <3> QED
      BY <3>2, <3>3
  <2> QED
    BY <2>4, <2>5, <1>1
<1> QED
  BY <1>6, <1>7

(* No step leaves a session with fewer references than places.             *)
LEMMA RefStep ==
    ASSUME SessInv, Next
    PROVE  RefInv'
<1>0. TypeOK /\ LoopInv
  BY DEF SessInv
<1>1. CASE Elsewhere
  <2>1. \A s \in Sessions, x \in Int, i \in Nat : Place(s, x, i)' => Place(s, x, i)
    BY <1>1 DEF Elsewhere, Place
  <2>2. \A s \in Sessions : refs'[s] = refs[s] /\ status'[s] = status[s]
    BY <1>1 DEF Elsewhere
  <2>3. \A s \in Sessions :
          Enough(Places(s)', refs'[s]) /\ (status'[s] = "alive" <=> refs'[s] > 0)
    BY <2>1, <2>2, RefKept
  <2> QED
    BY <2>3 DEF RefInv
<1>2. ASSUME NEW s \in Sessions, AuthSessionReturns(s)
      PROVE  RefInv'
  <2>1. s \in held /\ RemoveReference(s) /\ held' = held \ {s}
        /\ UNCHANGED <<addQ, map, newQ, set>>
    BY <1>2 DEF AuthSessionReturns, mgrVars, updVars
  <2>2. Place(s, InSocket, 0) /\ InSocket \in Int /\ 0 \in Nat
    BY <2>1, PlaceNumbers DEF Place
  <2>3. \A o \in Sessions, x \in Int, i \in Nat :
          Place(o, x, i)' => Place(o, x, i) /\ ~(o = s /\ x = InSocket /\ i = 0)
    BY <2>1, PlaceNumbers DEF Place
  <2> QED
    BY <2>1, <2>2, <2>3, RefLost
<1>3. ASSUME NEW a \in todo, Erase(a)
      PROVE  RefInv'
  <2>1. PICK s \in Sessions :
          /\ s = map[a] /\ Account[s] = a /\ a \in Accounts /\ RemoveReference(s)
          /\ map' = [map EXCEPT ![a] = None]
          /\ UNCHANGED <<held, addQ, newQ, set>>
    BY <1>3, ErasedIs DEF updVars
  <2>2. Place(s, InMap, 0) /\ InMap \in Int /\ 0 \in Nat
    BY <2>1, PlaceNumbers DEF Place
  <2>3. \A o \in Sessions : map'[Account[o]] = o => map[Account[o]] = o /\ o # s
    BY <1>0, <2>1, SessionsAssumption DEF TypeOK
  <2>4. \A o \in Sessions, x \in Int, i \in Nat :
          Place(o, x, i)' => Place(o, x, i) /\ ~(o = s /\ x = InMap /\ i = 0)
    BY <2>1, <2>3, PlaceNumbers DEF Place
  <2>5. RemoveReference(s)
    BY <2>1
  <2> QED
    BY <2>2, <2>4, <2>5, RefLost
<1>4. ASSUME NEW t \in Updaters, SetSleep(t)
      PROVE  RefInv'
  <2>1. set' = [set EXCEPT ![t] = {}] /\ UNCHANGED <<status, refs, held, addQ, map, newQ>>
    BY <1>4 DEF SetSleep, sessVars, mgrVars
  <2>2. \A u \in Updaters : set'[u] \subseteq set[u]
    BY <1>0, <2>1 DEF TypeOK
  <2>3. \A s \in Sessions, x \in Int, i \in Nat : Place(s, x, i)' => Place(s, x, i)
    BY <2>1, <2>2 DEF Place
  <2>4. \A s \in Sessions :
          Enough(Places(s)', refs'[s]) /\ (status'[s] = "alive" <=> refs'[s] > 0)
    BY <2>1, <2>3, RefKept
  <2> QED
    BY <2>4 DEF RefInv
<1>5. ASSUME NEW t \in Updaters, NEW s \in Sessions, UpdateMulti(t, s), LeaveThread(t, s)
      PROVE  RefInv'
  <2>1. /\ s \in set[t] /\ RemoveReference(s) /\ set' = [set EXCEPT ![t] = @ \ {s}]
        /\ UNCHANGED <<held, addQ, map, newQ>>
    BY <1>0, <1>5 DEF UpdateMulti, LeaveThread, LoopInv, mgrVars
  <2>2. Place(s, t, 0) /\ t \in Int /\ 0 \in Nat
    BY <2>1, PlaceNumbers DEF Place
  <2>3. \A u \in Updaters : set'[u] \subseteq set[u] /\ (u = t => s \notin set'[u])
    BY <1>0, <2>1 DEF TypeOK
  <2>4. \A o \in Sessions, x \in Int, i \in Nat :
          Place(o, x, i)' => Place(o, x, i) /\ ~(o = s /\ x = t /\ i = 0)
    BY <2>1, <2>3, PlaceNumbers DEF Place
  <2> QED
    BY <2>1, <2>2, <2>4, RefLost
<1> QED
  BY <1>1, <1>2, <1>3, <1>4, <1>5, RefCreated, RefAdded, RefMoved, RefClosed, RefTaken,
     StepKinds

-----------------------------------------------------------------------------
(* Before the first session there is nothing to count.                     *)
LEMMA SessInit ==
    ASSUME Init
    PROVE  SessInv
<1> USE DEF Init
<1>1. TypeOK
  <2>1. \A S : <<>> \in Seq(S)
    OBVIOUS
  <2>2. newQ \in [Updaters -> Seq(Sessions)] /\ addQ \in Seq(Sessions) /\ queue \in Seq(Sessions)
    BY <2>1
  <2>3. /\ status \in [Sessions -> {"unborn", "alive", "freed"}] /\ refs \in [Sessions -> Nat]
        /\ kicked \subseteq Sessions /\ held \subseteq Sessions /\ replaced \subseteq Sessions
        /\ orphans \subseteq Sessions /\ sock \in [Sessions -> {"open", "closing", "null"}]
    OBVIOUS
  <2>4. /\ map \in [Accounts -> Sessions \cup {None}]
        /\ phase \in {"add", "update", "move", "down"}
        /\ todo \subseteq Accounts /\ cursor \in Accounts \cup {None}
    OBVIOUS
  <2>5. /\ set \in [Updaters -> SUBSET Sessions] /\ work \in [Updaters -> SUBSET Sessions]
        /\ counter \in [Updaters -> Int] /\ sleep \subseteq Updaters
        /\ step \in [Updaters -> {"clear", "add", "run", "exit"}]
    OBVIOUS
  <2>6. stop \in BOOLEAN /\ closes \in Nat /\ kicks \in Nat /\ moves \in Nat /\ wipes \in Nat
    OBVIOUS
  <2> QED
    BY <2>2, <2>3, <2>4, <2>5, <2>6 DEF TypeOK
<1>2. LoopInv
  BY DEF LoopInv, Online
<1>3. \A x : ~Contains(<<>>, x)
  BY DEF Contains
<1>4. Distinct(<<>>)
  BY DEF Distinct
<1>5. NewInv
  <2>1. ASSUME NEW s \in Sessions
        PROVE  /\ s \notin replaced /\ ~Contains(queue, s)
               /\ map[Account[s]] # s
               /\ \A t \in Updaters : s \notin set[t] /\ ~Contains(newQ[t], s)
    BY <1>3, SessionsAssumption
  <2> QED
    BY <1>4, <2>1 DEF NewInv
<1>6. RefInv
  <2> SUFFICES ASSUME NEW s \in Sessions
               PROVE  Enough(Places(s), refs[s]) /\ (status[s] = "alive" <=> refs[s] > 0)
    BY DEF RefInv
  <2>1. \A x \in Int, i \in Nat : ~Place(s, x, i)
    <3> SUFFICES ASSUME NEW x \in Int, NEW i \in Nat, Place(s, x, i) PROVE FALSE
      OBVIOUS
    <3>1. /\ map[Account[s]] # s /\ s \notin held /\ ~Contains(addQ, s)
          /\ \A t \in Updaters : set[t] = {} /\ newQ[t] = <<>>
      BY <1>3, SessionsAssumption
    <3>2. i \notin 1 .. Len(<<>>)
      OBVIOUS
    <3> QED
      BY <3>1, <3>2 DEF Place
  <2>2. Places(s) = {}
    BY <2>1 DEF Places
  <2>3. Enough({}, 0)
    BY FS_EmptySet DEF Enough
  <2> QED
    BY <2>2, <2>3
<1> QED
  BY <1>1, <1>2, <1>5, <1>6 DEF SessInv

(* The references are enough for the places, always.                       *)
THEOREM SessionsCounted == Spec => []SessInv
<1>1. Init => SessInv
  BY SessInit
<1>2. SessInv /\ [Next]_vars => SessInv'
  <2> SUFFICES ASSUME SessInv, [Next]_vars PROVE SessInv'
    OBVIOUS
  <2>1. CASE Next
    BY <2>1, TypeStep, LoopStep, NewStep, RefStep DEF SessInv
  <2>2. CASE UNCHANGED vars
    <3>1. TypeOK' /\ LoopInv' /\ NewInv'
      BY <2>2 DEF SessInv, TypeOK, LoopInv, NewInv, Online, vars, sessVars, mgrVars,
         updVars,
         bounds
    <3>2. \A s \in Sessions, x \in Int, i \in Nat : Place(s, x, i)' => Place(s, x, i)
      BY <2>2 DEF Place, vars, sessVars, mgrVars, updVars
    <3>3. \A s \in Sessions : refs'[s] = refs[s] /\ status'[s] = status[s]
      BY <2>2 DEF vars, sessVars
    <3>4. RefInv'
      BY <3>2, <3>3, RefKept DEF RefInv
    <3> QED
      BY <3>1, <3>4 DEF SessInv
  <2> QED
    BY <2>1, <2>2
<1> QED
  BY <1>1, <1>2, PTL DEF Spec

(* The session, manager and updater state keep their types; no reference   *)
(* count goes below zero.                                                  *)
THEOREM SessionsTyped == Spec => []TypeOK
<1>1. SessInv => TypeOK
  BY DEF SessInv
<1> QED
  BY <1>1, SessionsCounted, PTL

(* No session is deleted while the manager, an updater thread or a socket  *)
(* thread can still reach it, with and without dynamic threading.          *)
THEOREM NobodyDangles == Spec => []NoDangling
<1>1. SessInv => NoDangling
  <2> SUFFICES ASSUME SessInv, NEW s \in Reachable PROVE status[s] = "alive"
    BY DEF NoDangling
  <2>0. TypeOK /\ LoopInv
    BY DEF SessInv
  <2>1. CASE s \in held
    BY <2>0, <2>1, ReachedAlive DEF TypeOK
  <2>2. CASE s \in ToSet(addQ)
    <3>1. Contains(addQ, s) /\ s \in Sessions
      BY <2>0, <2>2, QueueSet DEF TypeOK
    <3> QED
      BY <3>1, ReachedAlive
  <2>3. ASSUME NEW a \in Online, s = map[a]
        PROVE  status[s] = "alive"
    BY <2>3, MapPlace DEF Online
  <2>4. ASSUME NEW t \in Updaters, s \in set[t] \cup work[t] \cup ToSet(newQ[t])
        PROVE  status[s] = "alive"
    <3>1. s \in Sessions /\ (s \in set[t] \/ Contains(newQ[t], s))
      <4>1. CASE s \in ToSet(newQ[t])
        BY <2>0, <4>1, QueueSet DEF TypeOK
      <4>2. CASE s \notin ToSet(newQ[t])
        BY <2>0, <2>4, <4>2 DEF TypeOK, LoopInv
      <4> QED
        BY <4>1, <4>2
    <3> QED
      BY <3>1, ReachedAlive
  <2> QED
    BY <2>1, <2>2, <2>3, <2>4 DEF Reachable
<1> QED
  BY <1>1, SessionsCounted, PTL

-----------------------------------------------------------------------------
(* Without dynamic threading the counts are exact.                         *)

\* UpdateDynamics has told nobody to sleep, and moves nothing.
Static == sleep = {} /\ phase # "move" /\ \A t \in Updaters : step[t] # "clear"

\* An updater thread has the session, or is about to.
Carried(s) == \E t \in Updaters : s \in set[t] \/ Contains(newQ[t], s)

\* No two updater threads have the same session, and none has it twice.
Once ==
    /\ \A t \in Updaters : IsFiniteSet(set[t]) /\ Distinct(newQ[t])
    /\ \A s \in Sessions, t, u \in Updaters :
         /\ s \in set[t] => ~Contains(newQ[u], s)
         /\ s \in set[t] /\ s \in set[u] => t = u
         /\ Contains(newQ[t], s) /\ Contains(newQ[u], s) => t = u

\* A session that was replaced is no longer in the map.
Gone == \A s \in replaced : map[Account[s]] # s

One(b) == IF b THEN 1 ELSE 0

\* The references that s should have.
Owed(s) ==
    One(s \in held) + One(Contains(addQ, s)) + One(map[Account[s]] = s)
      + One(Carried(s)) + One(s \in replaced)

ExactInv ==
    /\ Static /\ Once /\ Gone /\ CounterExact
    /\ \A s \in Sessions : refs[s] = Owed(s)

(* No step starts dynamic threading.                                       *)
LEMMA StaticStep ==
    ASSUME ~DynEnabled, SessInv, Static, Next
    PROVE  Static'
<1> USE DEF Static
<1>0. step \in [Updaters -> {"clear", "add", "run", "exit"}]
  BY DEF SessInv, TypeOK
<1>1. ~UpdateDynamics
  BY DEF UpdateDynamics, MoveDue
<1>2. ASSUME NEW s \in Sessions,
             AddSession(s) \/ AuthSessionReturns(s) \/ CloseSocket(s) \/ KickPlayer(s)
      PROVE  Static'
  BY <1>2 DEF AddSession, AuthSessionReturns, CloseSocket, KickPlayer, mgrVars, updVars
<1>3. CASE AddSession_ \/ StartUpdate \/ UpdateDone \/ MoveDone \/ LogoutComplete \/ ServerClose
  BY <1>3 DEF AddSession_, StartUpdate, UpdateDone, MoveDone, LogoutComplete,
     ServerClose, mgrVars,
     updVars
<1>4. ASSUME NEW a \in Accounts, UpdateSingle(a) \/ MoveSession(a)
      PROVE  Static'
  BY <1>4 DEF UpdateSingle, MoveSession, Erase, updVars
<1>5. CASE UpdateSingleClient
  BY <1>5 DEF UpdateSingleClient, Erase, updVars
<1>6. ASSUME NEW t \in Updaters, SvcTop(t) \/ SetSleep(t) \/ AddNewSessions(t)
      PROVE  Static'
  <2>1. phase' = phase
    BY <1>6 DEF SvcTop, SetSleep, AddNewSessions, mgrVars
  <2>2. sleep' = {}
    BY <1>6 DEF SvcTop, SetSleep, AddNewSessions
  <2>3. \/ step' = [step EXCEPT ![t] = "add"] \/ step' = [step EXCEPT ![t] = "run"]
        \/ step' = [step EXCEPT ![t] = "exit"]
    BY <1>6 DEF SvcTop, SetSleep, AddNewSessions
  <2> QED
    BY <1>0, <2>1, <2>2, <2>3
<1>7. ASSUME NEW t \in Updaters, NEW s \in Sessions, UpdateMulti(t, s)
      PROVE  Static'
  BY <1>7 DEF UpdateMulti, mgrVars
<1> QED
  BY <1>1, <1>2, <1>3, <1>4, <1>5, <1>6, <1>7 DEF Next, WorldStep, UpdaterStep

(* The steps that are left.                                                *)
LEMMA StaticKinds ==
    ASSUME SessInv, Static, Next
    PROVE  \/ Elsewhere \/ AddSession_ \/ ServerClose
           \/ \E s \in Sessions : AddSession(s) \/ AuthSessionReturns(s)
           \/ \E a \in todo : Erase(a)
           \/ \E t \in Updaters : AddNewSessions(t)
           \/ \E t \in Updaters, s \in Sessions : UpdateMulti(t, s) /\ LeaveThread(t, s)
<1>1. \A a \in Accounts : ~MoveSession(a)
  BY DEF MoveSession, Static
<1>2. \A t \in Updaters : ~SetSleep(t)
  BY DEF SetSleep, Static
<1> QED
  BY <1>1, <1>2, StepKinds

(* A queue without repetitions is as long as the set of its elements.      *)
LEMMA QueueSize ==
    ASSUME NEW S, NEW q \in Seq(S), Distinct(q)
    PROVE  IsFiniteSet(ToSet(q)) /\ Cardinality(ToSet(q)) = Len(q) /\ Len(q) \in Nat
<1> DEFINE n == Len(q)
           T == ToSet(q)
           f == [i \in 1 .. n |-> q[i]]
<1>1. n \in Nat /\ DOMAIN q = 1 .. n
  OBVIOUS
<1>2. f \in [1 .. n -> T] /\ \A y \in T : \E i \in 1 .. n : f[i] = y
  BY <1>1 DEF ToSet
<1>3. \A i, j \in 1 .. n : f[i] = f[j] => i = j
  BY DEF Distinct
<1> HIDE DEF f, T
<1>4. f \in Bijection(1 .. n, T)
  BY <1>2, <1>3, Fun_IsBij
<1>5. ExistsBijection(1 .. n, T)
  BY <1>4 DEF ExistsBijection
<1>6. IsFiniteSet(T) /\ Cardinality(T) = n
  BY <1>1, <1>5, FS_NatBijection, FS_CountingElements
<1> QED
  BY <1>1, <1>6 DEF T

(* Who is in the queues of the updaters after GiveTo ...                   *)
LEMMA GivenQueues ==
    ASSUME SessInv, NEW c \in Updaters, NEW s \in Sessions, GiveTo(c, s),
           NEW u \in Updaters
    PROVE  /\ \A x : Contains(newQ'[u], x) <=> Contains(newQ[u], x) \/ (u = c /\ x = s)
           /\ Distinct(newQ[u]) /\ ~Contains(newQ[u], s) => Distinct(newQ'[u])
           /\ counter'[u] - Len(newQ'[u]) = counter[u] - Len(newQ[u])
<1>1. counter \in [Updaters -> Int] /\ newQ[u] \in Seq(Sessions)
  BY DEF SessInv, TypeOK
<1>2. /\ \A x : Contains(Append(newQ[u], s), x) <=> Contains(newQ[u], x) \/ x = s
      /\ Distinct(newQ[u]) /\ ~Contains(newQ[u], s) => Distinct(Append(newQ[u], s))
      /\ Len(Append(newQ[u], s)) = Len(newQ[u]) + 1 /\ Len(newQ[u]) \in Nat
  BY <1>1, LongerQueue
<1>3. CASE u = c
  <2>1. newQ'[u] = Append(newQ[u], s)
    BY <1>3, GivenTypes
  <2>2. counter'[u] = counter[u] + 1 /\ counter[u] \in Int
    BY <1>1, <1>3 DEF GiveTo
  <2>3. counter'[u] - Len(newQ'[u]) = counter[u] - Len(newQ[u])
    BY <1>2, <2>1, <2>2
  <2> QED
    BY <1>2, <1>3, <2>1, <2>3
<1>4. CASE u # c
  <2>1. newQ'[u] = newQ[u]
    BY <1>4, GivenTypes
  <2>2. counter'[u] = counter[u]
    BY <1>1, <1>4 DEF GiveTo
  <2> QED
    BY <1>4, <2>1, <2>2
<1> QED
  BY <1>3, <1>4

(* ... and in the queues and sets after AddNewSessions.                    *)
LEMMA TakenQueues ==
    ASSUME SessInv, NEW t \in Updaters, AddNewSessions(t), NEW u \in Updaters
    PROVE  /\ \A x : Contains(newQ'[u], x) <=> Contains(newQ[u], x) /\ u # t
           /\ \A x \in Sessions : x \in set'[u] <=> x \in set[u] \/ (u = t /\ Contains(newQ[t], x))
           /\ u # t => newQ'[u] = newQ[u] /\ set'[u] = set[u]
           /\ u = t => newQ'[u] = <<>> /\ set'[u] = set[u] \cup ToSet(newQ[u])
           /\ counter' = counter /\ newQ[u] \in Seq(Sessions)
           /\ UNCHANGED <<status, refs, held, addQ, map, queue, replaced, orphans>>
<1>1. /\ set' = [set EXCEPT ![t] = @ \cup ToSet(newQ[t])]
      /\ newQ' = [newQ EXCEPT ![t] = <<>>]
      /\ counter' = counter
      /\ UNCHANGED <<status, refs, held, addQ, map, queue, replaced, orphans>>
  BY DEF AddNewSessions, sessVars, mgrVars
<1>2. /\ set \in [Updaters -> SUBSET Sessions] /\ newQ \in [Updaters -> Seq(Sessions)]
      /\ newQ[u] \in Seq(Sessions) /\ newQ[t] \in Seq(Sessions)
  BY DEF SessInv, TypeOK
<1>3. /\ u # t => newQ'[u] = newQ[u] /\ set'[u] = set[u]
      /\ u = t => newQ'[u] = <<>> /\ set'[u] = set[u] \cup ToSet(newQ[u])
  BY <1>1, <1>2
<1>4. \A x : x \in ToSet(newQ[t]) <=> Contains(newQ[t], x)
  BY <1>2, QueueSet
<1>5. \A x : ~Contains(<<>>, x)
  BY DEF Contains
<1> QED
  BY <1>1, <1>2, <1>3, <1>4, <1>5

(* An updater thread that lets go of a session.                            *)
LEMMA LeftThread ==
    ASSUME SessInv, NEW t \in Updaters, NEW s \in Sessions,
           UpdateMulti(t, s), LeaveThread(t, s)
    PROVE  /\ s \in set[t] /\ refs[s] > 0 /\ RemoveReference(s)
           /\ \A u \in Updaters : u # t => set'[u] = set[u] /\ counter'[u] = counter[u]
           /\ set'[t] = set[t] \ {s} /\ counter'[t] = counter[t] - 1
           /\ UNCHANGED <<held, addQ, map, queue, newQ, replaced, orphans>>
<1>1. /\ set \in [Updaters -> SUBSET Sessions] /\ counter \in [Updaters -> Int] /\ LoopInv
  BY DEF SessInv, TypeOK
<1>2. /\ s \in set[t] /\ RemoveReference(s) /\ set' = [set EXCEPT ![t] = @ \ {s}]
      /\ counter' = [counter EXCEPT ![t] = @ - 1]
      /\ UNCHANGED <<held, addQ, map, queue, newQ, replaced, orphans>>
  BY <1>1 DEF UpdateMulti, LeaveThread, LoopInv, mgrVars
<1>3. refs[s] > 0
  BY <1>2, ReachedAlive
<1>4. /\ \A u \in Updaters : u # t => set'[u] = set[u] /\ counter'[u] = counter[u]
      /\ set'[t] = set[t] \ {s} /\ counter'[t] = counter[t] - 1
  BY <1>1, <1>2
<1> QED
  BY <1>2, <1>3, <1>4

(* Nobody gets a session that another updater thread has.                  *)
LEMMA OnceStep ==
    ASSUME SessInv, Static, Once, Next
    PROVE  Once'
<1>0. /\ \A t \in Updaters : IsFiniteSet(set[t]) /\ Distinct(newQ[t])
      /\ \A s \in Sessions, t, u \in Updaters :
           /\ s \in set[t] => ~Contains(newQ[u], s)
           /\ s \in set[t] /\ s \in set[u] => t = u
           /\ Contains(newQ[t], s) /\ Contains(newQ[u], s) => t = u
  BY DEF Once
<1>1. ASSUME UNCHANGED <<newQ, set>>
      PROVE  Once'
  BY <1>0, <1>1 DEF Once
<1>2. CASE Elsewhere \/ ServerClose
  BY <1>1, <1>2 DEF Elsewhere, ServerClose
<1>3. ASSUME NEW s \in Sessions, AddSession(s) \/ AuthSessionReturns(s)
      PROVE  Once'
  BY <1>1, <1>3 DEF AddSession, AuthSessionReturns, updVars
<1>4. ASSUME NEW a \in todo, Erase(a)
      PROVE  Once'
  BY <1>1, <1>4 DEF Erase, updVars
<1>5. CASE AddSession_
  <2>1. PICK s \in Sessions, c \in Updaters : Contains(addQ, s) /\ GiveTo(c, s) /\ set' = set
    BY <1>5, AddedIs
  <2>2. \A t \in Updaters : s \notin set[t] /\ ~Contains(newQ[t], s)
    BY <2>1 DEF SessInv, NewInv
  <2>3. \A u \in Updaters :
          /\ \A x : Contains(newQ'[u], x) <=> Contains(newQ[u], x) \/ (u = c /\ x = s)
          /\ Distinct(newQ'[u])
    BY <1>0, <2>1, <2>2, GivenQueues
  <2>4. \A u \in Updaters : IsFiniteSet(set'[u]) /\ Distinct(newQ'[u])
    BY <1>0, <2>1, <2>3
  <2>5. \A x \in Sessions, t, u \in Updaters :
           /\ x \in set'[t] => ~Contains(newQ'[u], x)
           /\ x \in set'[t] /\ x \in set'[u] => t = u
           /\ Contains(newQ'[t], x) /\ Contains(newQ'[u], x) => t = u
    BY <1>0, <2>1, <2>2, <2>3
  <2> QED
    BY <2>4, <2>5 DEF Once
<1>6. ASSUME NEW t \in Updaters, AddNewSessions(t)
      PROVE  Once'
  <2>1. \A u \in Updaters :
          /\ \A x : Contains(newQ'[u], x) <=> Contains(newQ[u], x) /\ u # t
          /\ \A x \in Sessions :
               x \in set'[u] <=> x \in set[u] \/ (u = t /\ Contains(newQ[t], x))
          /\ u # t => newQ'[u] = newQ[u] /\ set'[u] = set[u]
          /\ u = t => newQ'[u] = <<>> /\ set'[u] = set[u] \cup ToSet(newQ[u])
          /\ newQ[u] \in Seq(Sessions)
    BY <1>6, TakenQueues
  <2>2. Distinct(<<>>)
    BY DEF Distinct
  <2>3. IsFiniteSet(set[t] \cup ToSet(newQ[t]))
    <3>1. newQ[t] \in Seq(Sessions) /\ Distinct(newQ[t]) /\ IsFiniteSet(set[t])
      BY <1>0, <2>1
    <3>2. IsFiniteSet(ToSet(newQ[t]))
      BY <3>1, QueueSize
    <3> QED
      BY <3>1, <3>2, FS_Union
  <2>4. ASSUME NEW u \in Updaters
        PROVE  IsFiniteSet(set'[u]) /\ Distinct(newQ'[u])
    <3>1. CASE u = t
      <4>1. newQ'[u] = <<>> /\ set'[u] = set[t] \cup ToSet(newQ[t])
        BY <2>1, <3>1
      <4> QED
        BY <4>1, <2>2, <2>3
    <3>2. CASE u # t
      <4>1. newQ'[u] = newQ[u] /\ set'[u] = set[u]
        BY <2>1, <3>2
      <4> QED
        BY <4>1, <1>0
    <3> QED
      BY <3>1, <3>2
  <2>5. \A x \in Sessions, v, u \in Updaters :
           /\ x \in set'[v] => ~Contains(newQ'[u], x)
           /\ x \in set'[v] /\ x \in set'[u] => v = u
           /\ Contains(newQ'[v], x) /\ Contains(newQ'[u], x) => v = u
    BY <1>0, <2>1
  <2> QED
    BY <2>4, <2>5 DEF Once
<1>7. ASSUME NEW t \in Updaters, NEW s \in Sessions, UpdateMulti(t, s), LeaveThread(t, s)
      PROVE  Once'
  <2>1. /\ \A u \in Updaters : set'[u] = set[u] \/ set'[u] = set[u] \ {s}
        /\ newQ' = newQ
    BY <1>7, LeftThread
  <2>2. \A u \in Updaters : IsFiniteSet(set'[u])
    BY <1>0, <2>1, FS_RemoveElement
  <2>3. \A u \in Updaters : set'[u] \subseteq set[u]
    BY <2>1
  <2> QED
    BY <1>0, <2>1, <2>2, <2>3 DEF Once
<1> QED
  BY <1>2, <1>3, <1>4, <1>5, <1>6, <1>7, StaticKinds

(* m_Counter follows the set and the queue of its thread.                  *)
LEMMA CounterStep ==
    ASSUME SessInv, Static, Once, CounterExact, Next
    PROVE  CounterExact'
<1>0. /\ TypeOK /\ \A u \in Updaters :
           /\ counter[u] = Cardinality(set[u]) + Len(newQ[u]) /\ IsFiniteSet(set[u])
           /\ Cardinality(set[u]) \in Nat /\ Len(newQ[u]) \in Nat
  BY FS_CardinalityType DEF SessInv, TypeOK, CounterExact, Once
<1>1. ASSUME UNCHANGED <<newQ, set, counter>>
      PROVE  CounterExact'
  BY <1>1 DEF CounterExact
<1>2. CASE Elsewhere \/ ServerClose
  BY <1>1, <1>2 DEF Elsewhere, ServerClose
<1>3. ASSUME NEW s \in Sessions, AddSession(s) \/ AuthSessionReturns(s)
      PROVE  CounterExact'
  BY <1>1, <1>3 DEF AddSession, AuthSessionReturns, updVars
<1>4. ASSUME NEW a \in todo, Erase(a)
      PROVE  CounterExact'
  BY <1>1, <1>4 DEF Erase, updVars
<1>5. CASE AddSession_
  <2>1. PICK s \in Sessions, c \in Updaters : GiveTo(c, s) /\ set' = set
    BY <1>5, AddedIs
  <2>2. ASSUME NEW u \in Updaters
        PROVE  counter'[u] = Cardinality(set'[u]) + Len(newQ'[u])
    <3>1. counter'[u] - Len(newQ'[u]) = counter[u] - Len(newQ[u])
      BY <2>1, GivenQueues
    <3>2. counter' \in [Updaters -> Int] /\ newQ' \in [Updaters -> Seq(Sessions)]
      BY <2>1, GivenTypes
    <3>3. counter'[u] \in Int /\ Len(newQ'[u]) \in Nat
      BY <3>2
    <3> QED
      BY <1>0, <2>1, <3>1, <3>3
  <2> QED
    BY <2>2 DEF CounterExact
<1>6. ASSUME NEW t \in Updaters, AddNewSessions(t)
      PROVE  CounterExact'
  <2>1. ASSUME NEW u \in Updaters
        PROVE  counter'[u] = Cardinality(set'[u]) + Len(newQ'[u])
    <3>1. /\ u # t => newQ'[u] = newQ[u] /\ set'[u] = set[u]
          /\ u = t => newQ'[u] = <<>> /\ set'[u] = set[u] \cup ToSet(newQ[u])
          /\ counter' = counter /\ newQ[u] \in Seq(Sessions)
      BY <1>6, TakenQueues
    <3>2. CASE u # t
      BY <1>0, <3>1, <3>2
    <3>3. CASE u = t
      <4>1. IsFiniteSet(ToSet(newQ[u])) /\ Cardinality(ToSet(newQ[u])) = Len(newQ[u])
        BY <3>1, QueueSize DEF Once
      <4>2. set[u] \cap ToSet(newQ[u]) = {}
        <5>1. \A x : x \in ToSet(newQ[u]) <=> Contains(newQ[u], x)
          BY <3>1, QueueSet
        <5>2. set[u] \subseteq Sessions
          BY <1>0 DEF TypeOK
        <5> QED
          BY <5>1, <5>2 DEF Once
      <4>3. Cardinality(set[u] \cap ToSet(newQ[u])) = 0
        BY <4>2, FS_EmptySet
      <4>4. Cardinality(set[u] \cup ToSet(newQ[u]))
              = Cardinality(set[u]) + Cardinality(ToSet(newQ[u]))
                  - Cardinality(set[u] \cap ToSet(newQ[u]))
        BY <1>0, <4>1, FS_Union
      <4>5. Cardinality(set'[u]) = Cardinality(set[u]) + Len(newQ[u])
        <5>1. set'[u] = set[u] \cup ToSet(newQ[u])
          BY <3>1, <3>3
        <5>2. Cardinality(set[u]) \in Nat /\ Len(newQ[u]) \in Nat
          BY <1>0
        <5>3. Cardinality(set[u] \cup ToSet(newQ[u])) = Cardinality(set[u]) + Len(newQ[u])
          BY <5>2, <4>1, <4>3, <4>4
        <5> QED
          BY <5>1, <5>3
      <4>6. Len(newQ'[u]) = 0
        BY <3>1, <3>3
      <4> QED
        BY <1>0, <3>1, <4>5, <4>6
    <3> QED
      BY <3>2, <3>3
  <2> QED
    BY <2>1 DEF CounterExact
<1>7. ASSUME NEW t \in Updaters, NEW s \in Sessions, UpdateMulti(t, s), LeaveThread(t, s)
      PROVE  CounterExact'
  <2>1. /\ s \in set[t] /\ set'[t] = set[t] \ {s} /\ counter'[t] = counter[t] - 1
        /\ \A u \in Updaters : u # t => set'[u] = set[u] /\ counter'[u] = counter[u]
        /\ newQ' = newQ
    BY <1>7, LeftThread
  <2>2. Cardinality(set'[t]) = Cardinality(set[t]) - 1
    BY <1>0, <2>1, FS_RemoveElement
  <2>3. ASSUME NEW u \in Updaters
        PROVE  counter'[u] = Cardinality(set'[u]) + Len(newQ'[u])
    <3>1. /\ counter[u] = Cardinality(set[u]) + Len(newQ[u])
          /\ Cardinality(set[u]) \in Nat /\ Len(newQ[u]) \in Nat /\ newQ'[u] = newQ[u]
      BY <1>0, <2>1
    <3>2. CASE u = t
      BY <3>1, <3>2, <2>1, <2>2
    <3>3. CASE u # t
      BY <3>1, <3>3, <2>1
    <3> QED
      BY <3>2, <3>3
  <2> QED
    BY <2>3 DEF CounterExact
<1> QED
  BY <1>2, <1>3, <1>4, <1>5, <1>6, <1>7, StaticKinds

(* A session that was replaced does not come back.                         *)
LEMMA GoneStep ==
    ASSUME SessInv, Gone, Next
    PROVE  Gone'
<1>0. TypeOK /\ LoopInv /\ replaced \subseteq Sessions
  BY DEF SessInv, TypeOK
<1>1. ASSUME UNCHANGED <<map, replaced>>
      PROVE  Gone'
  BY <1>1 DEF Gone
<1>2. CASE Elsewhere
  BY <1>1, <1>2 DEF Elsewhere
<1>3. ASSUME NEW s \in Sessions, AddSession(s) \/ AuthSessionReturns(s)
      PROVE  Gone'
  BY <1>1, <1>3 DEF AddSession, AuthSessionReturns, mgrVars
<1>4. ASSUME NEW a \in todo, Erase(a)
      PROVE  Gone'
  <2>1. map' = [map EXCEPT ![a] = None] /\ replaced' = replaced /\ a \in Accounts
    BY <1>4, ErasedIs
  <2> QED
    BY <1>0, <2>1, SessionsAssumption DEF Gone, TypeOK
<1>5. CASE AddSession_
  <2>1. PICK s \in Sessions, c \in Updaters :
          /\ Contains(addQ, s) /\ map' = [map EXCEPT ![Account[s]] = s]
          /\ Account[s] \in Accounts
          /\ \/ map[Account[s]] = None /\ replaced' = replaced
             \/ map[Account[s]] \in Sessions /\ replaced' = replaced \cup {map[Account[s]]}
    BY <1>5, AddedIs
  <2>2. s \notin replaced /\ map[Account[s]] # s
    BY <2>1 DEF SessInv, NewInv
  <2>3. map[Account[s]] # None => Account[map[Account[s]]] = Account[s]
    BY <1>0, <2>1 DEF LoopInv
  <2>4. \A a \in Accounts : map'[a] = IF a = Account[s] THEN s ELSE map[a]
    BY <1>0, <2>1 DEF TypeOK
  <2> SUFFICES ASSUME NEW o \in replaced' PROVE map'[Account[o]] # o
    BY DEF Gone
  <2>5. o # s /\ o \in Sessions
    BY <1>0, <2>1, <2>2
  <2>6. o \in replaced \/ Account[o] = Account[s]
    BY <2>1, <2>3, SessionsAssumption
  <2>7. Account[o] \in Accounts
    BY <2>5, SessionsAssumption
  <2> QED
    BY <2>4, <2>5, <2>6, <2>7 DEF Gone
<1>6. CASE ServerClose
  <2>1. map' = [a \in Accounts |-> None] /\ replaced' = replaced
    BY <1>6 DEF ServerClose
  <2> QED
    BY <1>0, <2>1, SessionsAssumption DEF Gone
<1>7. ASSUME NEW t \in Updaters, SetSleep(t) \/ AddNewSessions(t)
      PROVE  Gone'
  BY <1>1, <1>7 DEF SetSleep, AddNewSessions, mgrVars
<1>8. ASSUME NEW a \in Accounts, MoveSession(a)
      PROVE  Gone'
  BY <1>1, <1>8 DEF MoveSession
<1>9. ASSUME NEW t \in Updaters, NEW s \in Sessions, UpdateMulti(t, s)
      PROVE  Gone'
  BY <1>1, <1>9 DEF UpdateMulti, mgrVars
<1> QED
  BY <1>2, <1>3, <1>4, <1>5, <1>6, <1>7, <1>8, <1>9, StepKinds

(* What a session is owed, from where it is now and where it was.          *)
LEMMA OwedChange ==
    ASSUME NEW o \in Sessions
    PROVE  /\ Owed(o) \in Nat
           /\ /\ o \in held' <=> o \in held
              /\ Contains(addQ', o) <=> Contains(addQ, o)
              /\ map'[Account[o]] = o <=> map[Account[o]] = o
              /\ Carried(o)' <=> Carried(o)
              /\ o \in replaced' <=> o \in replaced
              => Owed(o)' = Owed(o)
  BY DEF Owed, One

(* Every step leaves every session with what it is owed.                   *)
LEMMA OwedStep ==
    ASSUME SessInv, Static, Once, Gone, Next, \A s \in Sessions : refs[s] = Owed(s)
    PROVE  (\A s \in Sessions : refs[s] = Owed(s))'
<1>0. TypeOK /\ LoopInv /\ NewInv
  BY DEF SessInv
<1> SUFFICES ASSUME NEW o \in Sessions PROVE refs'[o] = Owed(o)'
  OBVIOUS
<1>a. refs[o] = Owed(o) /\ Owed(o) \in Nat
  BY OwedChange
<1>b. ASSUME UNCHANGED <<newQ, set>>
      PROVE  Carried(o)' <=> Carried(o)
  BY <1>b DEF Carried
<1>1. CASE Elsewhere
  BY <1>1, <1>a, <1>b, OwedChange DEF Elsewhere
<1>2. ASSUME NEW s \in Sessions, AddSession(s)
      PROVE  refs'[o] = Owed(o)'
  <2>1. /\ status[s] = "unborn" /\ addQ' = Append(addQ, s) /\ held' = held \cup {s}
        /\ refs' = [refs EXCEPT ![s] = 2]
        /\ UNCHANGED <<map, newQ, set, replaced>>
    BY <1>2 DEF AddSession, updVars
  <2>2. \A x : Contains(addQ', x) <=> Contains(addQ, x) \/ x = s
    BY <1>0, <2>1, LongerQueue DEF TypeOK
  <2>3. s \notin held /\ ~Contains(addQ, s) /\ map[Account[s]] # s /\ ~Carried(s)
    BY <2>1, ReachedAlive DEF Carried
  <2>4. s \notin replaced
    BY <1>0, <2>1 DEF NewInv
  <2>5. CASE o # s
    <3>1. refs'[o] = refs[o]
      BY <1>0, <2>1, <2>5 DEF TypeOK
    <3> QED
      BY <3>1, <2>1, <2>2, <2>5, <1>a, <1>b, OwedChange
  <2>6. CASE o = s
    <3>1. refs'[o] = 2
      BY <1>0, <2>1, <2>6 DEF TypeOK
    <3>2. /\ o \in held' /\ Contains(addQ', o) /\ map'[Account[o]] # o /\ ~Carried(o)'
          /\ o \notin replaced'
      BY <2>1, <2>2, <2>3, <2>4, <2>6, <1>b
    <3> QED
      BY <3>1, <3>2 DEF Owed, One
  <2> QED
    BY <2>5, <2>6
<1>3. ASSUME NEW s \in Sessions, AuthSessionReturns(s)
      PROVE  refs'[o] = Owed(o)'
  <2>1. s \in held /\ held' = held \ {s} /\ RemoveReference(s)
        /\ UNCHANGED <<addQ, map, newQ, set, replaced>>
    BY <1>3 DEF AuthSessionReturns, mgrVars, updVars
  <2>2. refs[s] > 0
    BY <2>1, ReachedAlive
  <2>3. refs'[s] = refs[s] - 1 /\ (o # s => refs'[o] = refs[o])
    BY <2>1, <2>2, RemovedTypes
  <2>4. CASE o # s
    BY <2>1, <2>3, <2>4, <1>a, <1>b, OwedChange
  <2>5. CASE o = s
    <3>1. Owed(o)' = Owed(o) - 1
      BY <2>1, <2>5, <1>b DEF Owed, One
    <3> QED
      BY <3>1, <2>3, <2>5, <1>a
  <2> QED
    BY <2>4, <2>5
<1>4. ASSUME NEW a \in todo, Erase(a)
      PROVE  refs'[o] = Owed(o)'
  <2>1. PICK s \in Sessions :
          /\ s = map[a] /\ Account[s] = a /\ a \in Accounts /\ refs[s] > 0 /\ RemoveReference(s)
          /\ map' = [map EXCEPT ![a] = None]
          /\ UNCHANGED <<held, addQ, newQ, set, replaced>>
    BY <1>4, ErasedIs DEF updVars
  <2>2. refs'[s] = refs[s] - 1 /\ (o # s => refs'[o] = refs[o])
    <3>1. refs[s] > 0 /\ RemoveReference(s)
      BY <2>1
    <3> QED
      BY <3>1, RemovedTypes
  <2>3. map'[Account[o]] = o <=> map[Account[o]] = o /\ o # s
    BY <1>0, <2>1, SessionsAssumption DEF TypeOK
  <2>4. CASE o # s
    BY <2>1, <2>2, <2>3, <2>4, <1>a, <1>b, OwedChange
  <2>5. CASE o = s
    <3>1. Owed(o)' = Owed(o) - 1
      BY <2>1, <2>3, <2>5, <1>b DEF Owed, One
    <3> QED
      BY <3>1, <2>2, <2>5, <1>a
  <2> QED
    BY <2>4, <2>5
<1>5. CASE AddSession_
  <2>1. PICK s \in Sessions, c \in Updaters :
          /\ Contains(addQ, s) /\ GiveTo(c, s)
          /\ \A x : Contains(addQ', x) <=> Contains(addQ, x) /\ x # s
          /\ map' = [map EXCEPT ![Account[s]] = s] /\ Account[s] \in Accounts
          /\ \/ map[Account[s]] = None /\ replaced' = replaced
             \/ map[Account[s]] \in Sessions /\ replaced' = replaced \cup {map[Account[s]]}
          /\ UNCHANGED <<status, held, set>>
    BY <1>5, AddedIs
  <2>2. refs'[s] = refs[s] + 1 /\ (o # s => refs'[o] = refs[o])
    <3>1. GiveTo(c, s)
      BY <2>1
    <3> QED
      BY <3>1, GivenTypes
  <2>3. s \notin replaced /\ map[Account[s]] # s /\ ~Carried(s)
    BY <1>0, <2>1 DEF NewInv, Carried
  <2>4. Carried(o)' <=> Carried(o) \/ o = s
    <3>1. \A u \in Updaters :
            Contains(newQ'[u], o) <=> Contains(newQ[u], o) \/ (u = c /\ o = s)
      <4>1. GiveTo(c, s)
        BY <2>1
      <4> QED
        BY <4>1, GivenQueues
    <3>2. set' = set
      BY <2>1
    <3> QED
      BY <3>1, <3>2 DEF Carried
  <2>5. map'[Account[o]] = o <=> (map[Account[o]] = o /\ Account[o] # Account[s]) \/ o = s
    BY <1>0, <2>1, SessionsAssumption DEF TypeOK
  <2>6. map[Account[s]] # None => Account[map[Account[s]]] = Account[s]
    BY <1>0, <2>1 DEF LoopInv
  <2>7. o \in replaced' <=> o \in replaced \/ o = map[Account[s]]
    BY <2>1, SessionsAssumption
  <2>8. CASE o = s
    <3>1. Owed(o)' = Owed(o) + 1
      <4>1. /\ o \in held' <=> o \in held
            /\ Contains(addQ, o) /\ ~Contains(addQ', o)
            /\ map[Account[o]] # o /\ map'[Account[o]] = o
            /\ ~Carried(o) /\ Carried(o)'
            /\ o \notin replaced /\ o \notin replaced'
        BY <2>1, <2>3, <2>4, <2>5, <2>7, <2>8
      <4> QED
        BY <4>1 DEF Owed, One
    <3> QED
      BY <3>1, <2>2, <2>8, <1>a
  <2>9. CASE o # s /\ o # map[Account[s]]
    <3>1. map'[Account[o]] = o <=> map[Account[o]] = o
      BY <2>5, <2>9
    <3> QED
      BY <3>1, <2>1, <2>2, <2>4, <2>7, <2>9, <1>a, OwedChange
  <2>10. CASE o # s /\ o = map[Account[s]]
    <3>1. /\ o \in held' <=> o \in held
          /\ Contains(addQ', o) <=> Contains(addQ, o)
          /\ map[Account[o]] = o /\ map'[Account[o]] # o
          /\ Carried(o)' <=> Carried(o)
          /\ o \notin replaced /\ o \in replaced'
      <4>1. Account[o] = Account[s] /\ map[Account[o]] = o
        BY <2>6, <2>10, SessionsAssumption
      <4>2. o \notin replaced
        BY <4>1 DEF Gone
      <4> QED
        BY <4>1, <4>2, <2>1, <2>4, <2>5, <2>7, <2>10
    <3>2. Owed(o)' = Owed(o)
      BY <3>1 DEF Owed, One
    <3> QED
      BY <3>2, <2>2, <2>10, <1>a
  <2> QED
    BY <2>8, <2>9, <2>10
<1>6. CASE ServerClose
  <2> DEFINE mine == {map[a] : a \in Online}
  <2>1. /\ refs' = [s \in Sessions |-> IF s \in mine THEN refs[s] - 1 ELSE refs[s]]
        /\ map' = [a \in Accounts |-> None]
        /\ UNCHANGED <<held, addQ, newQ, set, replaced>>
    BY <1>6 DEF ServerClose
  <2>2. o \in mine <=> map[Account[o]] = o
    BY <1>0, SessionsAssumption DEF Online, LoopInv
  <2> HIDE DEF mine
  <2>3. map'[Account[o]] # o
    BY <2>1, SessionsAssumption
  <2>4. CASE o \in mine
    <3>1. refs'[o] = refs[o] - 1
      BY <2>1, <2>4
    <3>2. Owed(o)' = Owed(o) - 1
      BY <2>1, <2>2, <2>3, <2>4, <1>b DEF Owed, One
    <3> QED
      BY <3>1, <3>2, <1>a
  <2>5. CASE o \notin mine
    <3>1. refs'[o] = refs[o]
      BY <2>1, <2>5
    <3> QED
      BY <3>1, <2>1, <2>2, <2>3, <2>5, <1>a, <1>b, OwedChange
  <2> QED
    BY <2>4, <2>5
<1>7. ASSUME NEW t \in Updaters, AddNewSessions(t)
      PROVE  refs'[o] = Owed(o)'
  <2>1. \A u \in Updaters :
          /\ Contains(newQ'[u], o) <=> Contains(newQ[u], o) /\ u # t
          /\ o \in set'[u] <=> o \in set[u] \/ (u = t /\ Contains(newQ[t], o))
    BY <1>7, TakenQueues
  <2>2. UNCHANGED <<refs, held, addQ, map, replaced>>
    BY <1>7, TakenQueues
  <2>3. Carried(o)' <=> Carried(o)
    BY <2>1 DEF Carried
  <2> QED
    BY <2>2, <2>3, <1>a, OwedChange
<1>8. ASSUME NEW t \in Updaters, NEW s \in Sessions, UpdateMulti(t, s), LeaveThread(t, s)
      PROVE  refs'[o] = Owed(o)'
  <2>1. /\ s \in set[t] /\ refs[s] > 0 /\ RemoveReference(s) /\ set'[t] = set[t] \ {s}
        /\ \A u \in Updaters : u # t => set'[u] = set[u]
        /\ UNCHANGED <<held, addQ, map, newQ, replaced>>
    BY <1>8, LeftThread
  <2>2. refs'[s] = refs[s] - 1 /\ (o # s => refs'[o] = refs[o])
    <3>1. refs[s] > 0 /\ RemoveReference(s)
      BY <2>1
    <3> QED
      BY <3>1, RemovedTypes
  <2>3. \A u \in Updaters : ~Contains(newQ[u], s) /\ (u # t => s \notin set[u])
    BY <2>1 DEF Once
  <2>4. Carried(o)' <=> Carried(o) /\ o # s
    BY <2>1, <2>3 DEF Carried
  <2>5. CASE o # s
    BY <2>1, <2>2, <2>4, <2>5, <1>a, OwedChange
  <2>6. CASE o = s
    <3>1. Carried(o)
      BY <2>1, <2>6 DEF Carried
    <3>2. Owed(o)' = Owed(o) - 1
      BY <3>1, <2>1, <2>4, <2>6 DEF Owed, One
    <3> QED
      BY <3>2, <2>2, <2>6, <1>a
  <2> QED
    BY <2>5, <2>6
<1> QED
  BY <1>1, <1>2, <1>3, <1>4, <1>5, <1>6, <1>7, <1>8, StaticKinds

(* A set without two elements has one or none.                             *)
LEMMA OneOrNone ==
    ASSUME NEW S, \A x, y \in S : x = y
    PROVE  Cardinality(S) = One(S # {})
<1>1. CASE S = {}
  <2>1. Cardinality(S) = 0
    BY <1>1, FS_EmptySet
  <2> QED
    BY <1>1, <2>1 DEF One
<1>2. CASE S # {}
  <2>1. PICK x : S = {x}
    BY <1>2
  <2>2. Cardinality(S) = 1
    BY <2>1, FS_Singleton
  <2> QED
    BY <1>2, <2>2 DEF One
<1> QED
  BY <1>1, <1>2

(* The holders of a session, when no place holds it twice.                 *)
LEMMA HoldersAre ==
    ASSUME SessInv, Once, NEW s \in Sessions
    PROVE  Owed(s) = Holders(s) + (IF s \in replaced THEN 1 ELSE 0)
<1> DEFINE H == {x \in {s} : x \in held}
           A == {i \in 1 .. Len(addQ) : addQ[i] = s}
           M == {a \in Accounts : map[a] = s}
           U == {t \in Updaters : s \in set[t]}
           N == UNION {{<<t, i>> : i \in {j \in 1 .. Len(newQ[t]) : newQ[t][j] = s}} :
                         t \in Updaters}
<1>0. TypeOK /\ LoopInv /\ Distinct(addQ)
  BY DEF SessInv, NewInv
<1>1. Cardinality(H) = One(s \in held)
  <2>1. (H # {}) <=> s \in held
    OBVIOUS
  <2>2. Cardinality(H) = One(H # {})
    BY OneOrNone
  <2> QED
    BY <2>1, <2>2 DEF One
<1>2. Cardinality(A) = One(Contains(addQ, s))
  <2>1. (A # {}) <=> Contains(addQ, s)
    BY DEF Contains
  <2>2. \A i, j \in A : i = j
    BY <1>0 DEF Distinct
  <2> HIDE DEF A
  <2>3. Cardinality(A) = One(A # {})
    BY <2>2, OneOrNone
  <2> QED
    BY <2>1, <2>3 DEF One
<1>3. Cardinality(M) = One(map[Account[s]] = s)
  <2>1. \A a \in M : a = Account[s]
    BY <1>0, SessionsAssumption DEF LoopInv
  <2>2. (M # {}) <=> map[Account[s]] = s
    BY <2>1, SessionsAssumption
  <2> HIDE DEF M
  <2>3. Cardinality(M) = One(M # {})
    BY <2>1, OneOrNone
  <2> QED
    BY <2>2, <2>3 DEF One
<1>4. /\ Cardinality(U) + Cardinality(N) = One(Carried(s))
      /\ Cardinality(U) \in Nat /\ Cardinality(N) \in Nat
  <2>1. \A t, u \in U : t = u
    BY DEF Once
  <2>2. \A p \in N : \E t \in Updaters, i \in Nat :
          i \in 1 .. Len(newQ[t]) /\ p = <<t, i>> /\ newQ[t][i] = s /\ Contains(newQ[t], s)
    BY DEF Contains
  <2>3. \A p, q \in N : p = q
    <3> SUFFICES ASSUME NEW p \in N, NEW q \in N PROVE p = q
      OBVIOUS
    <3>1. PICK t \in Updaters, i \in Nat :
            i \in 1 .. Len(newQ[t]) /\ p = <<t, i>> /\ newQ[t][i] = s /\ Contains(newQ[t], s)
      BY <2>2
    <3>2. PICK u \in Updaters, j \in Nat :
            j \in 1 .. Len(newQ[u]) /\ q = <<u, j>> /\ newQ[u][j] = s /\ Contains(newQ[u], s)
      BY <2>2
    <3>3. t = u
      BY <3>1, <3>2 DEF Once
    <3>4. i = j
      BY <3>1, <3>2, <3>3 DEF Once, Distinct
    <3> QED
      BY <3>1, <3>2, <3>3, <3>4
  <2>4. (N # {}) <=> \E t \in Updaters : Contains(newQ[t], s)
    <3>1. ASSUME NEW t \in Updaters, Contains(newQ[t], s)
          PROVE  N # {}
      <4>1. PICK i \in 1 .. Len(newQ[t]) : newQ[t][i] = s
        BY <3>1 DEF Contains
      <4>2. <<t, i>> \in N
        BY <4>1
      <4> QED
        BY <4>2
    <3> QED
      BY <3>1, <2>2
  <2>5. (U # {}) <=> \E t \in Updaters : s \in set[t]
    OBVIOUS
  <2> HIDE DEF U, N
  <2>6. Cardinality(U) = One(U # {}) /\ Cardinality(N) = One(N # {})
    BY <2>1, <2>3, OneOrNone
  <2>7. U = {} \/ N = {}
    BY <2>4, <2>5 DEF Once
  <2>8. Carried(s) <=> U # {} \/ N # {}
    BY <2>4, <2>5 DEF Carried
  <2> QED
    BY <2>6, <2>7, <2>8 DEF One
<1>5. Holders(s) = Cardinality(H) + Cardinality(A) + Cardinality(M) + Cardinality(U)
                     + Cardinality(N)
  BY DEF Holders
<1> HIDE DEF H, A, M, U, N
<1> QED
  BY <1>1, <1>2, <1>3, <1>4, <1>5 DEF Owed, One

(* Without dynamic threading the invariant behind the exact counts holds.  *)
THEOREM StaticThreads ==
    ASSUME ~DynEnabled
    PROVE  Spec => []ExactInv
<1>1. Init => ExactInv
  <2> SUFFICES ASSUME Init PROVE ExactInv
    OBVIOUS
  <2>0. \A x : ~Contains(<<>>, x)
    BY DEF Contains
  <2>1. \A t \in Updaters : set[t] = {} /\ newQ[t] = <<>> /\ counter[t] = 0 /\ step[t] = "run"
    BY DEF Init
  <2>2. Static
    <3>1. sleep = {} /\ phase # "move"
      BY DEF Init
    <3> QED
      BY <2>1, <3>1 DEF Static
  <2>3. IsFiniteSet({}) /\ Cardinality({}) = 0 /\ Distinct(<<>>) /\ Len(<<>>) = 0
    BY FS_EmptySet DEF Distinct
  <2>4. Once
    BY <2>0, <2>1, <2>3 DEF Once
  <2>5. CounterExact
    <3>1. ASSUME NEW t \in Updaters
          PROVE  counter[t] = Cardinality(set[t]) + Len(newQ[t])
      <4>1. Cardinality(set[t]) = 0 /\ Len(newQ[t]) = 0 /\ counter[t] = 0
        BY <2>1, <2>3
      <4> QED
        BY <4>1
    <3> QED
      BY <3>1 DEF CounterExact
  <2>6. Gone
    BY DEF Gone, Init
  <2>7. ASSUME NEW s \in Sessions
        PROVE  refs[s] = Owed(s)
    <3>1. /\ s \notin held /\ ~Contains(addQ, s) /\ map[Account[s]] # s /\ s \notin replaced
          /\ refs[s] = 0
      BY <2>0, SessionsAssumption DEF Init
    <3>2. ~Carried(s)
      BY <2>0, <2>1 DEF Carried
    <3> QED
      BY <3>1, <3>2 DEF Owed, One
  <2> QED
    BY <2>2, <2>4, <2>5, <2>6, <2>7 DEF ExactInv
<1>2. SessInv /\ ExactInv /\ [Next]_vars => ExactInv'
  <2> SUFFICES ASSUME SessInv, ExactInv, [Next]_vars PROVE ExactInv'
    OBVIOUS
  <2>0. /\ Static /\ Once /\ Gone /\ CounterExact
        /\ \A s \in Sessions : refs[s] = Owed(s)
    BY DEF ExactInv
  <2>1. CASE Next
    BY <2>0, <2>1, StaticStep, OnceStep, GoneStep, CounterStep, OwedStep DEF ExactInv
  <2>2. CASE UNCHANGED vars
    <3>1. Static' /\ Once' /\ Gone' /\ CounterExact'
      BY <2>0, <2>2 DEF Static, Once, Gone, CounterExact, vars, sessVars, mgrVars, updVars
    <3>2. \A s \in Sessions : Carried(s)' <=> Carried(s)
      BY <2>2 DEF Carried, vars, updVars
    <3>3. \A s \in Sessions : Owed(s)' = Owed(s)
      BY <2>2, <3>2, OwedChange DEF vars, sessVars, mgrVars
    <3>4. refs' = refs
      BY <2>2 DEF vars, sessVars
    <3> QED
      BY <2>0, <3>1, <3>3, <3>4 DEF ExactInv
  <2> QED
    BY <2>1, <2>2
<1> QED
  BY <1>1, <1>2, SessionsCounted, PTL DEF Spec

(* Without dynamic threading every reference has a holder, except the one  *)
(* that AddSession_ loses when it overwrites the account's old session.    *)
THEOREM ReferencesExact ==
    ASSUME ~DynEnabled
    PROVE  Spec => []RefsExact
<1>1. SessInv /\ ExactInv => RefsExact
  <2> SUFFICES ASSUME SessInv, ExactInv, NEW s \in Sessions
               PROVE  refs[s] = Holders(s) + (IF s \in replaced THEN 1 ELSE 0)
    BY DEF RefsExact
  <2>1. Once /\ refs[s] = Owed(s)
    BY DEF ExactInv
  <2>2. Owed(s) = Holders(s) + (IF s \in replaced THEN 1 ELSE 0)
    BY <2>1, HoldersAre
  <2> QED
    BY <2>1, <2>2
<1> QED
  BY <1>1, SessionsCounted, StaticThreads, PTL

(* Without dynamic threading m_Counter is the load by which AddSession_    *)
(* chooses an updater thread.                                              *)
THEOREM LoadsExact ==
    ASSUME ~DynEnabled
    PROVE  Spec => []CounterExact
<1>1. ExactInv => CounterExact
  BY DEF ExactInv
<1> QED
  BY <1>1, StaticThreads, PTL

-----------------------------------------------------------------------------
(* The player limit.                                                       *)

\* The accounts whose session is not in the login queue, and those of them
\* that count as players.
InWorld == {a \in Online : ~Contains(queue, map[a])}
InPlay  == {a \in InWorld : map[a] \in Players}

\* Only sessions of the map wait.
WaitInv ==
    orphans = {} /\ phase # "down" =>
        \A x \in Sessions : Contains(queue, x) => map[Account[x]] = x

LimitInv ==
    /\ WaitInv
    /\ PlayerLimit > 0 /\ orphans = {} /\ phase # "down" => Enough(InPlay, PlayerLimit)

(* A natural below Word is its own uint32.                                 *)
LEMMA SmallWord ==
    ASSUME NEW n \in Nat, n < Word
    PROVE  n % Word = n
  BY ThreadsAssumption

(* The count of GetActiveSessionCount is the number of those in the world: *)
(* the subtraction does not wrap around.                                   *)
LEMMA ActiveCount ==
    ASSUME SessInv, WaitInv, orphans = {}, phase # "down"
    PROVE  /\ IsFiniteSet(InWorld) /\ Cardinality(InWorld) \in Nat
           /\ GetActiveSessionCount = Cardinality(InWorld)
           /\ IsFiniteSet(Online) /\ Cardinality(Online) \in Nat
<1> DEFINE Q == {a \in Online : Contains(queue, map[a])}
           n == Len(queue)
           f == [i \in 1 .. n |-> Account[queue[i]]]
<1>0. TypeOK /\ LoopInv /\ Distinct(queue)
  BY DEF SessInv, NewInv
<1>1. IsFiniteSet(Online) /\ Cardinality(Online) \in Nat /\ Cardinality(Online) < Word
  <2>1. Online \subseteq Accounts
    BY DEF Online
  <2>2. /\ IsFiniteSet(Online) /\ Cardinality(Online) <= Cardinality(Accounts)
        /\ Cardinality(Accounts) \in Nat /\ Cardinality(Online) \in Nat
    BY <2>1, AccountsAssumption, FS_Subset, FS_CardinalityType
  <2> QED
    BY <2>2, AccountsAssumption, ThreadsAssumption
<1>2. n \in Nat /\ \A i \in 1 .. n : queue[i] \in Sessions /\ Contains(queue, queue[i])
  BY <1>0 DEF TypeOK, Contains
<1>3. \A i \in 1 .. n : map[Account[queue[i]]] = queue[i] /\ Account[queue[i]] \in Accounts
  BY <1>2, SessionsAssumption DEF WaitInv
<1>4. \A i \in 1 .. n : Account[queue[i]] \in Q
  BY <1>2, <1>3, SessionsAssumption DEF Online
<1>5. \A a \in Q : \E i \in 1 .. n : Account[queue[i]] = a
  <2> SUFFICES ASSUME NEW a \in Q PROVE \E i \in 1 .. n : Account[queue[i]] = a
    OBVIOUS
  <2>1. PICK i \in 1 .. n : queue[i] = map[a]
    BY DEF Contains
  <2>2. Account[map[a]] = a
    BY <1>0 DEF LoopInv, Online
  <2> QED
    BY <2>1, <2>2
<1>6. \A i, j \in 1 .. n : Account[queue[i]] = Account[queue[j]] => i = j
  BY <1>0, <1>3 DEF Distinct
<1>7. /\ f \in [1 .. n -> Q] /\ \A a \in Q : \E i \in 1 .. n : f[i] = a
      /\ \A i, j \in 1 .. n : f[i] = f[j] => i = j
  BY <1>4, <1>5, <1>6
<1>8. Q \subseteq Online /\ InWorld = Online \ Q
  BY DEF InWorld
<1> HIDE DEF f, Q
<1>9. f \in Bijection(1 .. n, Q)
  BY <1>7, Fun_IsBij
<1>10. ExistsBijection(1 .. n, Q)
  BY <1>9 DEF ExistsBijection
<1>11. IsFiniteSet(Q) /\ Cardinality(Q) = n
  BY <1>2, <1>10, FS_NatBijection, FS_CountingElements
<1>12. Online \cap Q = Q
  BY <1>8
<1>13. /\ IsFiniteSet(InWorld) /\ Cardinality(InWorld) = Cardinality(Online) - Cardinality(Online \cap Q)
       /\ Cardinality(InWorld) \in Nat
  BY <1>1, <1>8, FS_Difference, FS_CardinalityType
<1>14. Cardinality(InWorld) = Cardinality(Online) - n
  BY <1>11, <1>12, <1>13
<1>15. Cardinality(InWorld) \in Nat /\ Cardinality(InWorld) < Word
  BY <1>1, <1>2, <1>13, <1>14, ThreadsAssumption
<1>16. GetActiveSessionCount = Cardinality(InWorld)
  BY <1>14, <1>15, SmallWord DEF GetActiveSessionCount
<1> QED
  BY <1>1, <1>13, <1>16

(* Once the server is down it stays down.                                  *)
LEMMA DownStays ==
    ASSUME SessInv, Next, phase = "down"
    PROVE  phase' = "down"
<1>0. cursor = None
  BY DEF SessInv, LoopInv
<1>1. ASSUME NEW s \in Sessions,
             AddSession(s) \/ AuthSessionReturns(s) \/ CloseSocket(s) \/ KickPlayer(s)
      PROVE  phase' = "down"
  BY <1>1 DEF AddSession, AuthSessionReturns, CloseSocket, KickPlayer, mgrVars
<1>2. ~WorldStep /\ ~LogoutComplete /\ ~UpdateDynamics /\ ~ServerClose
  BY <1>0 DEF WorldStep, AddSession_, StartUpdate, UpdateSingleClient, UpdateDone, MoveDone,
     UpdateSingle, MoveSession, LogoutComplete, UpdateDynamics, ServerClose
<1>3. ASSUME NEW t \in Updaters, UpdaterStep(t)
      PROVE  phase' = "down"
  BY <1>3 DEF UpdaterStep, SvcTop, SetSleep, AddNewSessions, UpdateMulti, mgrVars
<1> QED
  BY <1>1, <1>2, <1>3 DEF Next

(* Who leaves the login queue with old: at most one, and only if there is  *)
(* room.                                                                   *)
LEMMA QueueAfter ==
    ASSUME SessInv, NEW old, PlayerLimit > 0
    PROVE  \E h :
             /\ \A x : Contains(queue, x) /\ ~Contains(RemoveQueuedPlayer(old), x)
                         => x = old \/ x = h
             /\ h # old =>
                  (IF ~Found(old) /\ GetActiveSessionCount > 0
                   THEN GetActiveSessionCount - 1 ELSE GetActiveSessionCount) < PlayerLimit
<1> DEFINE r == RemoveFirst(queue, old)
           n == IF ~Found(old) /\ GetActiveSessionCount > 0
                THEN GetActiveSessionCount - 1 ELSE GetActiveSessionCount
<1>1. queue \in Seq(Sessions) /\ Distinct(queue)
  BY DEF SessInv, TypeOK, NewInv
<1>2. r \in Seq(Sessions) /\ Distinct(r) /\ \A x : Contains(r, x) <=> Contains(queue, x) /\ x # old
  BY <1>1, ShorterQueue
<1>3. \/ RemoveQueuedPlayer(old) = r
      \/ r # <<>> /\ n < PlayerLimit /\ RemoveQueuedPlayer(old) = Tail(r)
  BY ThreadsAssumption DEF RemoveQueuedPlayer
<1> HIDE DEF r, n
<1>4. CASE RemoveQueuedPlayer(old) = r
  <2>1. \A x : Contains(queue, x) /\ ~Contains(r, x) => x = old
    BY <1>2
  <2> QED
    BY <1>4, <2>1
<1>5. CASE r # <<>> /\ n < PlayerLimit /\ RemoveQueuedPlayer(old) = Tail(r)
  <2>1. \A x : Contains(Tail(r), x) <=> Contains(r, x) /\ x # Head(r)
    BY <1>2, <1>5, ShorterQueue
  <2>2. \A x : Contains(queue, x) /\ ~Contains(Tail(r), x) => x = old \/ x = Head(r)
    BY <1>2, <2>1
  <2> QED
    BY <1>5, <2>2 DEF n
<1> QED
  BY <1>3, <1>4, <1>5

(* AddSession_ adds a player to the world only below the limit.            *)
LEMMA LimitAdded ==
    ASSUME SessInv, LimitInv, AddSession_, PlayerLimit > 0, orphans = {}, phase # "down"
    PROVE  Enough(InPlay', PlayerLimit)
<1> DEFINE s      == Head(addQ)
           b      == Account[s]
           old    == map[b]
           rest   == IF old = None THEN queue ELSE RemoveQueuedPlayer(old)
           size   == Cardinality(Online \cup {b})
           others == IF old # None /\ Found(old) THEN size ELSE size - 1
<1>0. TypeOK /\ LoopInv /\ NewInv /\ WaitInv /\ Enough(InPlay, PlayerLimit)
      /\ PlayerLimit \in Nat
  BY ThreadsAssumption DEF SessInv, LimitInv
<1>1. /\ map' = [map EXCEPT ![b] = s]
      /\ queue' = IF MustQueue(s, others) THEN Append(rest, s) ELSE rest
  BY DEF AddSession_
<1>2. s \in Sessions /\ Contains(addQ, s) /\ addQ # <<>>
  BY <1>0, ShorterQueue DEF AddSession_, TypeOK, NewInv
<1>3. b \in Accounts /\ old # s /\ ~Contains(queue, s)
  BY <1>0, <1>2, SessionsAssumption DEF NewInv
<1>4. /\ rest \in Seq(Sessions)
      /\ \A x : Contains(Append(rest, s), x) <=> Contains(rest, x) \/ x = s
  <2>1. rest \in Seq(Sessions)
    BY <1>0, QueueLeft DEF TypeOK
  <2> HIDE DEF rest, s
  <2> QED
    BY <2>1, <1>2, LongerQueue
<1>5. Online' = Online \cup {b} /\ \A a \in Accounts : map'[a] = IF a = b THEN s ELSE map[a]
  BY <1>0, <1>1, <1>2, <1>3, SessionsAssumption DEF Online, TypeOK
<1>6. /\ IsFiniteSet(Online) /\ IsFiniteSet(InWorld) /\ Cardinality(InWorld) \in Nat
      /\ GetActiveSessionCount = Cardinality(InWorld)
  BY <1>0, ActiveCount
<1>7. IsFiniteSet(Online \cup {b}) /\ size \in Nat
  BY <1>6, FS_AddElement, FS_CardinalityType
<1>8. InPlay' \subseteq Online'
  BY DEF InPlay, InWorld
<1>9. CASE s \in Players /\ ~MustQueue(s, others)
  <2>1. others < PlayerLimit
    BY <1>0, <1>7, <1>9 DEF MustQueue
  <2>2. size <= PlayerLimit
    BY <1>0, <1>7, <2>1
  <2>3. Enough(Online \cup {b}, PlayerLimit)
    BY <1>7, <2>2 DEF Enough
  <2> HIDE DEF b
  <2> QED
    BY <1>0, <1>5, <1>8, <2>3, Counting
<1>10. CASE s \notin Players \/ MustQueue(s, others)
  <2>1. b \notin InPlay'
    <3>1. map'[b] = s
      BY <1>3, <1>5
    <3>2. MustQueue(s, others) => Contains(queue', s)
      BY <1>1, <1>4
    <3> QED
      BY <3>1, <3>2, <1>10 DEF InPlay, InWorld
  <2>2. ASSUME NEW a \in InPlay'
        PROVE  /\ a # b /\ a \in Online /\ map[a] \in Players /\ map[a] \in Sessions
               /\ Account[map[a]] = a
               /\ map[a] # old /\ ~Contains(rest, map[a])
    <3>1. a # b /\ a \in Online' /\ map'[a] \in Players /\ ~Contains(queue', map'[a])
      BY <2>1, <2>2 DEF InPlay, InWorld
    <3>2. a \in Online /\ a \in Accounts /\ map'[a] = map[a]
      BY <3>1, <1>5 DEF Online
    <3>3. map[a] \in Sessions /\ Account[map[a]] = a
      BY <1>0, <3>2, SessionsAssumption DEF TypeOK, LoopInv, Online
    <3>4. map[a] # old
      BY <1>0, <1>3, <3>1, <3>3, SessionsAssumption DEF LoopInv
    <3>5. ~Contains(rest, map[a])
      BY <1>1, <1>4, <3>1, <3>2
    <3> QED
      BY <3>1, <3>2, <3>3, <3>4, <3>5
  <2>3. CASE old = None
    <3>1. InPlay' \subseteq InPlay
      BY <2>2, <2>3 DEF InPlay, InWorld
    <3> QED
      BY <1>0, <3>1, Counting
  <2>4. CASE old # None
    <3>1. PICK h :
            /\ \A x : Contains(queue, x) /\ ~Contains(RemoveQueuedPlayer(old), x)
                        => x = old \/ x = h
            /\ h # old =>
                  (IF ~Found(old) /\ GetActiveSessionCount > 0
                   THEN GetActiveSessionCount - 1 ELSE GetActiveSessionCount) < PlayerLimit
      BY QueueAfter
    <3>2. \A a \in InPlay' : a # b /\ (a \in InPlay \/ (a = Account[h] /\ h # old))
      BY <2>2, <2>4, <3>1 DEF InPlay, InWorld
    <3>3. CASE h = old
      <4>1. InPlay' \subseteq InPlay
        BY <3>2, <3>3
      <4> QED
        BY <1>0, <4>1, Counting
    <3>4. CASE h # old
      <4> DEFINE S == InWorld \ {b}
                 y == Account[h]
                 T == InPlay'
      <4>1. T \subseteq S \cup {y}
        BY <3>2 DEF InPlay
      <4>2. Enough(S, PlayerLimit - 1) /\ PlayerLimit - 1 \in Nat
        <5>1. CASE Found(old)
          <6>1. GetActiveSessionCount < PlayerLimit
            BY <3>1, <3>4, <5>1
          <6>2. Enough(InWorld, PlayerLimit - 1) /\ PlayerLimit - 1 \in Nat
            BY <1>0, <1>6, <6>1 DEF Enough
          <6>3. S \subseteq InWorld
            OBVIOUS
          <6> HIDE DEF S
          <6> QED
            BY <6>2, <6>3, Counting
        <5>2. CASE ~Found(old)
          <6>1. b \in InWorld
            BY <1>3, <2>4, <5>2 DEF InWorld, Online, Found
          <6>2. Cardinality(InWorld) > 0
            BY <1>6, <6>1, FS_EmptySet
          <6>3. Cardinality(InWorld) - 1 < PlayerLimit
            BY <1>6, <3>1, <3>4, <5>2, <6>2
          <6>4. IsFiniteSet(S) /\ Cardinality(S) = Cardinality(InWorld) - 1
            BY <1>6, <6>1, FS_RemoveElement
          <6> QED
            BY <1>0, <1>6, <6>3, <6>4 DEF Enough
        <5> QED
          BY <5>1, <5>2
      <4> HIDE DEF S, y, T
      <4>3. PICK r \in Nat : r = PlayerLimit - 1 /\ r + 1 = PlayerLimit
        BY <1>0, <4>2
      <4>4. Enough(S, r)
        BY <4>2, <4>3
      <4>5. Enough(T, r + 1)
        BY <4>1, <4>4, Counting
      <4> QED
        BY <4>3, <4>5 DEF T
    <3> QED
      BY <3>3, <3>4
  <2> QED
    BY <2>3, <2>4
<1> QED
  BY <1>9, <1>10

(* Only sessions of the map wait, and the limit holds: every step.         *)
LEMMA LimitStep ==
    ASSUME SessInv, LimitInv, Next
    PROVE  LimitInv'
<1>0. TypeOK /\ LoopInv /\ NewInv /\ WaitInv
  BY DEF SessInv, LimitInv
<1>1. phase' # "down" => phase # "down"
  BY DownStays
<1>2. ASSUME UNCHANGED <<map, queue, orphans>>
      PROVE  LimitInv'
  <2>1. InPlay' = InPlay
    BY <1>2 DEF InPlay, InWorld, Online
  <2>2. WaitInv'
    BY <1>0, <1>1, <1>2 DEF WaitInv
  <2> QED
    BY <1>1, <1>2, <2>1, <2>2 DEF LimitInv
<1>3. CASE Elsewhere
  BY <1>2, <1>3 DEF Elsewhere
<1>4. ASSUME NEW s \in Sessions, AddSession(s) \/ AuthSessionReturns(s)
      PROVE  LimitInv'
  BY <1>2, <1>4 DEF AddSession, AuthSessionReturns, mgrVars
<1>5. ASSUME NEW t \in Updaters, SetSleep(t) \/ AddNewSessions(t)
      PROVE  LimitInv'
  BY <1>2, <1>5 DEF SetSleep, AddNewSessions, mgrVars
<1>6. ASSUME NEW a \in Accounts, MoveSession(a)
      PROVE  LimitInv'
  BY <1>2, <1>6 DEF MoveSession
<1>7. ASSUME NEW t \in Updaters, NEW s \in Sessions, UpdateMulti(t, s)
      PROVE  LimitInv'
  BY <1>2, <1>7 DEF UpdateMulti, mgrVars
<1>8. CASE ServerClose
  BY <1>8 DEF ServerClose, LimitInv, WaitInv
<1>9. ASSUME NEW a \in todo, Erase(a)
      PROVE  LimitInv'
  <2>1. /\ map[a] \in Sessions /\ a \in Accounts /\ map' = [map EXCEPT ![a] = None]
        /\ orphans' = {} => orphans = {} /\ ~Contains(queue, map[a])
        /\ UNCHANGED <<queue, phase>>
    BY <1>9, ErasedIs
  <2>2. \A c \in Accounts : map'[c] = IF c = a THEN None ELSE map[c]
    BY <1>0, <2>1 DEF TypeOK
  <2>3. WaitInv'
    BY <1>0, <2>1, <2>2, SessionsAssumption DEF WaitInv
  <2>4. InPlay' \subseteq InPlay
    BY <2>1, <2>2 DEF InPlay, InWorld, Online
  <2>5. PlayerLimit > 0 /\ orphans' = {} /\ phase' # "down" => Enough(InPlay', PlayerLimit)
    BY <2>1, <2>4, Counting, ThreadsAssumption DEF LimitInv
  <2> QED
    BY <2>3, <2>5 DEF LimitInv
<1>10. CASE AddSession_
  <2>1. orphans' = orphans /\ phase' = phase
    BY <1>10 DEF AddSession_
  <2>2. PlayerLimit > 0 /\ orphans' = {} /\ phase' # "down" => Enough(InPlay', PlayerLimit)
    BY <1>10, <2>1, LimitAdded
  <2>3. WaitInv'
    <3> SUFFICES ASSUME orphans = {}, phase # "down", NEW x \in Sessions, Contains(queue', x)
                 PROVE  map'[Account[x]] = x
      BY <2>1 DEF WaitInv
    <3> DEFINE s    == Head(addQ)
               b    == Account[s]
               old  == map[b]
               rest == IF old = None THEN queue ELSE RemoveQueuedPlayer(old)
    <3>1. /\ map' = [map EXCEPT ![b] = s]
          /\ queue' = Append(rest, s) \/ queue' = rest
          /\ addQ # <<>>
      BY <1>10 DEF AddSession_
    <3>2. s \in Sessions /\ b \in Accounts
      BY <1>0, <3>1, SessionsAssumption DEF TypeOK
    <3>3. /\ rest \in Seq(Sessions)
          /\ \A y : Contains(rest, y) => Contains(queue, y) /\ (old # None => y # old)
      BY <1>0, QueueLeft DEF TypeOK
    <3> HIDE DEF rest, s
    <3>4. Contains(rest, x) \/ x = s
      <4>1. Contains(Append(rest, s), x) <=> Contains(rest, x) \/ x = s
        BY <3>2, <3>3, LongerQueue
      <4> QED
        BY <3>1, <4>1
    <3>5. CASE x = s
      BY <3>1, <3>2, <3>5, <1>0 DEF TypeOK
    <3>6. CASE x # s /\ Contains(rest, x)
      <4>1. map[Account[x]] = x /\ (old # None => x # old)
        BY <1>0, <3>3, <3>6 DEF WaitInv
      <4>2. Account[x] # b
        BY <4>1, SessionsAssumption
      <4> QED
        BY <4>1, <4>2, <3>1, <1>0, SessionsAssumption DEF TypeOK
    <3> QED
      BY <3>4, <3>5, <3>6
  <2> QED
    BY <2>2, <2>3 DEF LimitInv
<1> QED
  BY <1>3, <1>4, <1>5, <1>6, <1>7, <1>8, <1>9, <1>10, StepKinds

(* No more players are in the world than PlayerLimit allows, and           *)
(* RemoveQueuedPlayer admits by the true count, until ServerClose and as   *)
(* long as nobody leaves while waiting, dynamic threading included.        *)
THEOREM LimitKept == Spec => []WithinLimit
<1>1. Init => LimitInv
  <2> SUFFICES ASSUME Init PROVE LimitInv
    OBVIOUS
  <2>1. Online = {} /\ queue = <<>>
    BY DEF Init, Online
  <2>2. \A x : ~Contains(<<>>, x)
    BY DEF Contains
  <2>3. InPlay = {}
    BY <2>1 DEF InPlay, InWorld
  <2>4. Enough({}, PlayerLimit)
    BY FS_EmptySet, ThreadsAssumption DEF Enough
  <2> QED
    BY <2>1, <2>2, <2>3, <2>4 DEF LimitInv, WaitInv
<1>2. SessInv /\ LimitInv /\ [Next]_vars => LimitInv'
  <2>1. ASSUME SessInv, LimitInv, UNCHANGED vars
        PROVE  LimitInv'
    BY <2>1 DEF LimitInv, WaitInv, InPlay, InWorld, Online, vars, mgrVars
  <2> QED
    BY <2>1, LimitStep
<1>3. SessInv /\ LimitInv => WithinLimit
  <2> SUFFICES ASSUME SessInv, LimitInv, PlayerLimit > 0, orphans = {}, phase # "down"
               PROVE  /\ Cardinality({a \in InWorld : map[a] \in Players}) <= PlayerLimit
                      /\ GetActiveSessionCount = Cardinality(InWorld)
    BY DEF WithinLimit, InWorld
  <2>1. Enough(InPlay, PlayerLimit) /\ WaitInv
    BY DEF LimitInv
  <2> QED
    BY <2>1, ActiveCount DEF Enough, InPlay
<1> QED
  BY <1>1, <1>2, <1>3, SessionsCounted, PTL DEF Spec
=============================================================================
