--------------------------- MODULE AnalysisProofs ---------------------------
(***************************************************************************)
(* What the algorithms on operations compute, for any number of operations *)
(* of any size and time, and what Analysis makes of them for any number of *)
(* clients: the merged list, the active range, mixed types, percentiles,   *)
(* the share of a segment.                                                 *)
(*                                                                         *)
(* Induction over the length of a list is by a set of numbers and the      *)
(* least one that is missing (LEMMA Induction).                            *)
(***************************************************************************)
EXTENDS Analysis, FiniteSetTheorems, WellFoundedInduction, TLAPS

(* Operations end when they begin or later; the times of a list.           *)
Times(op) == op.start \in Nat /\ op.end \in Nat /\ op.start <= op.end
Timed(o) == \A i \in Idx(o) : Times(o[i])
TimesOf(o) == {o[i].start : i \in Idx(o)} \cup {o[i].end : i \in Idx(o)}
-----------------------------------------------------------------------------
(* A set of numbers has a least one.                                       *)
LEMMA LeastNumber ==
    ASSUME NEW S \in SUBSET Nat, S # {}
    PROVE  \E x \in S : \A y \in S : x <= y
<1>1. PICK x \in S : \A y \in S : ~ (<<y, x>> \in OpToRel(<, Nat))
  BY NatLessThanWellFounded, WFMin
<1>2. \A y \in S : ~ (y < x)
  BY <1>1 DEF OpToRel
<1> QED
  BY <1>2

(* So a set with 0 that goes on from each number below n has all up to n.  *)
LEMMA Induction ==
    ASSUME NEW n \in Nat, NEW S, 0 \in S,
           \A k \in 0 .. n - 1 : k \in S => k + 1 \in S
    PROVE  \A k \in 0 .. n : k \in S
<1> DEFINE C == {k \in 0 .. n : k \notin S}
<1>1. SUFFICES ASSUME C # {} PROVE FALSE
  OBVIOUS
<1>2. PICK k \in C : \A j \in C : k <= j
  <2>1. C \in SUBSET Nat
    OBVIOUS
  <2> HIDE DEF C
  <2> QED BY <1>1, <2>1, LeastNumber
<1>3. k \in 1 .. n /\ k \notin S
  BY <1>2
<1>4. k - 1 \in 0 .. n - 1 /\ (k - 1) + 1 = k /\ ~(k <= k - 1)
  BY <1>3
<1>5. k - 1 \in S
  BY <1>2, <1>4
<1> QED
  BY <1>3, <1>4, <1>5

(* A set of integers with a lower bound has a minimum ...                  *)
LEMMA MinIs ==
    ASSUME NEW S \in SUBSET Int, S # {}, NEW m \in Int, \A x \in S : m <= x
    PROVE  Min(S) \in S /\ \A y \in S : Min(S) <= y
<1> DEFINE D == {x - m : x \in S}
<1>1. D \in SUBSET Nat /\ D # {}
  <2>1. \A x \in S : x \in Int /\ x - m \in Nat
    OBVIOUS
  <2> QED BY <2>1
<1>2. PICK z \in D : \A y \in D : z <= y
  BY <1>1, LeastNumber
<1>3. z + m \in S /\ \A y \in S : z + m <= y
  BY <1>1, <1>2
<1> QED
  BY <1>3 DEF Min

(* ... and one with an upper bound a maximum.                              *)
LEMMA MaxIs ==
    ASSUME NEW S \in SUBSET Int, S # {}, NEW m \in Int, \A x \in S : x <= m
    PROVE  Max(S) \in S /\ \A y \in S : y <= Max(S)
<1> DEFINE D == {m - x : x \in S}
<1>1. D \in SUBSET Nat /\ D # {}
  <2>1. \A x \in S : x \in Int /\ m - x \in Nat
    OBVIOUS
  <2> QED BY <2>1
<1>2. PICK z \in D : \A y \in D : z <= y
  BY <1>1, LeastNumber
<1>3. m - z \in S /\ \A y \in S : m - z >= y
  <2>1. PICK x \in S : z = m - x
    BY <1>2
  <2>2. m - z = x
    BY <2>1
  <2>3. \A y \in S : m - x <= m - y
    BY <1>2, <2>1
  <2> QED BY <2>2, <2>3
<1> QED
  BY <1>3 DEF Max

(* Finitely many integers are bounded.                                     *)
LEMMA Bounded ==
    ASSUME NEW n \in Nat, NEW f, \A i \in 1 .. n : f[i] \in Int
    PROVE  \E m \in Int, k \in Int : \A i \in 1 .. n : k <= f[i] /\ f[i] <= m
<1> DEFINE Ok(j) == \E m \in Int, k \in Int : \A i \in 1 .. j : k <= f[i] /\ f[i] <= m
           S == {j \in 0 .. n : Ok(j)}
<1>1. 0 \in S
  OBVIOUS
<1>2. ASSUME NEW j \in 0 .. n - 1, Ok(j) PROVE Ok(j + 1)
  <2>1. PICK m \in Int, k \in Int : \A i \in 1 .. j : k <= f[i] /\ f[i] <= m
    BY <1>2
  <2>2. f[j + 1] \in Int
    OBVIOUS
  <2> DEFINE m1 == IF f[j + 1] > m THEN f[j + 1] ELSE m
             k1 == IF f[j + 1] < k THEN f[j + 1] ELSE k
  <2>3. /\ m1 \in Int /\ k1 \in Int /\ m <= m1 /\ k1 <= k
        /\ k1 <= f[j + 1] /\ f[j + 1] <= m1
    BY <2>1, <2>2
  <2> HIDE DEF m1, k1
  <2>4. \A i \in 1 .. j + 1 : k1 <= f[i] /\ f[i] <= m1
    <3> SUFFICES ASSUME NEW i \in 1 .. j + 1 PROVE k1 <= f[i] /\ f[i] <= m1
      OBVIOUS
    <3>1. CASE i = j + 1
      BY <2>3, <3>1
    <3>2. CASE i # j + 1
      <4>1. i \in 1 .. j /\ f[i] \in Int
        BY <3>2
      <4>2. k <= f[i] /\ f[i] <= m
        BY <2>1, <4>1
      <4> QED BY <2>1, <2>3, <4>1, <4>2
    <3> QED BY <3>1, <3>2
  <2> QED BY <2>3, <2>4
<1>3. \A j \in 0 .. n - 1 : j \in S => j + 1 \in S
  <2> HIDE DEF Ok
  <2> QED BY <1>2
<1>4. \A j \in 0 .. n : j \in S
  <2> HIDE DEF S
  <2> QED BY <1>1, <1>3, Induction
<1>5. n \in 0 .. n
  OBVIOUS
<1> QED
  BY <1>4, <1>5

(* The numbers of S are among n integers f[i] and one more, x.              *)
Among(S, n, f, x) ==
    /\ n \in Nat /\ x \in Int /\ S # {}
    /\ \A i \in 1 .. n : f[i] \in Int
    /\ \A y \in S : y = x \/ \E i \in 1 .. n : y = f[i]

(* So they are bounded ...                                                 *)
LEMMA AmongBounded ==
    ASSUME NEW n, NEW f, NEW x, NEW S, Among(S, n, f, x)
    PROVE  /\ S \in SUBSET Int /\ S # {}
           /\ \E m1 \in Int, k1 \in Int : \A y \in S : k1 <= y /\ y <= m1
<1>0. /\ n \in Nat /\ x \in Int /\ S # {}
      /\ \A i \in 1 .. n : f[i] \in Int
      /\ \A y \in S : y = x \/ \E i \in 1 .. n : y = f[i]
  BY DEF Among
<1>1. PICK m \in Int, k \in Int : \A i \in 1 .. n : k <= f[i] /\ f[i] <= m
  BY <1>0, Bounded
<1> DEFINE m1 == IF x > m THEN x ELSE m
           k1 == IF x < k THEN x ELSE k
<1>2. S \in SUBSET Int
  BY <1>0
<1>3. m1 \in Int /\ k1 \in Int /\ m <= m1 /\ k1 <= k /\ k1 <= x /\ x <= m1
  BY <1>0
<1> HIDE DEF m1, k1
<1>4. ASSUME NEW y \in S PROVE k1 <= y /\ y <= m1
  <2>1. CASE y = x
    BY <1>3, <2>1
  <2>2. CASE \E i \in 1 .. n : y = f[i]
    <3>1. PICK i \in 1 .. n : y = f[i]
      BY <2>2
    <3>2. k <= y /\ y <= m /\ y \in Int
      BY <1>0, <1>1, <3>1
    <3> QED BY <1>3, <3>2
  <2> QED BY <1>0, <2>1, <2>2
<1> QED
  BY <1>0, <1>2, <1>3, <1>4

(* ... and have a minimum ...                                              *)
LEMMA MinOf ==
    ASSUME NEW n, NEW f, NEW x, NEW S, Among(S, n, f, x)
    PROVE  Min(S) \in Int /\ Min(S) \in S /\ \A y \in S : Min(S) <= y
<1>1. PICK m \in Int, k \in Int : \A y \in S : k <= y /\ y <= m
  BY AmongBounded
<1>2. S \in SUBSET Int /\ S # {} /\ \A y \in S : k <= y
  BY <1>1, AmongBounded
<1>3. Min(S) \in S /\ \A y \in S : Min(S) <= y
  BY <1>2, MinIs
<1> QED BY <1>2, <1>3

(* ... and a maximum.                                                      *)
LEMMA MaxOf ==
    ASSUME NEW n, NEW f, NEW x, NEW S, Among(S, n, f, x)
    PROVE  Max(S) \in Int /\ Max(S) \in S /\ \A y \in S : y <= Max(S)
<1>1. PICK m \in Int, k \in Int : \A y \in S : k <= y /\ y <= m
  BY AmongBounded
<1>2. S \in SUBSET Int /\ S # {} /\ \A y \in S : y <= m
  BY <1>1, AmongBounded
<1>3. Max(S) \in S /\ \A y \in S : y <= Max(S)
  BY <1>2, MaxIs
<1> QED BY <1>2, <1>3

(* Of two numbers the lesser is the minimum ...                            *)
LEMMA MinTwo ==
    ASSUME NEW a \in Int, NEW b \in Int
    PROVE  Min({a, b}) = IF a <= b THEN a ELSE b
BY DEF Min

(* ... and the greater the maximum.                                        *)
LEMMA MaxTwo ==
    ASSUME NEW a \in Int, NEW b \in Int
    PROVE  Max({a, b}) = IF a >= b THEN a ELSE b
BY DEF Max
-----------------------------------------------------------------------------
(* Positions up to n, each with a key.                                     *)
Keyed(S, n, key) ==
    n \in Nat /\ S \in SUBSET (1 .. n) /\ \A i \in S : key[i] \in Int

(* p puts the elements of o at the positions S in the order of their keys. *)
Orders(p, c, o, S, key) ==
    /\ c \in Nat /\ p \in [1 .. c -> S]
    /\ Arranged(o, S, key) = [k \in 1 .. c |-> o[p[k]]]
    /\ \A i \in S : \E k \in 1 .. c : p[k] = i
    /\ \A k, l \in 1 .. c : k # l => p[k] # p[l]
    /\ \A k, l \in 1 .. c : k <= l => key[p[k]] <= key[p[l]]

(* Arranged: Order is such a permutation of the positions.                 *)
LEMMA ArrangedInOrder ==
    ASSUME NEW n, NEW o, NEW S, NEW key, Keyed(S, n, key)
    PROVE  Orders(Order(S, key), Cardinality(S), o, S, key)
<1> DEFINE c == Cardinality(S)
           less(j, i) == key[j] < key[i] \/ (key[j] = key[i] /\ j < i)
           before(i) == {j \in S : less(j, i)}
           place == [i \in S |-> Cardinality(before(i)) + 1]
           at(k) == CHOOSE i \in S : place[i] = k
           p == [k \in 1 .. c |-> at(k)]
<1>0. n \in Nat /\ S \in SUBSET (1 .. n) /\ \A i \in S : key[i] \in Int
  BY DEF Keyed
<1>1. IsFiniteSet(S) /\ c \in Nat
  <2>1. 1 \in Int /\ n \in Int
    BY <1>0
  <2>2. IsFiniteSet(1 .. n)
    BY <2>1, FS_Interval, Zenon
  <2>3. IsFiniteSet(S)
    BY <1>0, <2>2, FS_Subset, Zenon
  <2> QED BY <2>3, FS_CardinalityType
<1>2. ASSUME NEW i \in S
      PROVE  IsFiniteSet(before(i)) /\ place[i] \in 1 .. c
  <2>1. before(i) \in SUBSET S
    <3> HIDE DEF less
    <3> QED OBVIOUS
  <2>2. i \notin before(i)
    BY <1>0
  <2> HIDE DEF before
  <2>3. IsFiniteSet(before(i)) /\ Cardinality(before(i)) <= c
    BY <1>1, <2>1, FS_Subset, Zenon
  <2>4. Cardinality(before(i)) # c
    <3>1. c = Cardinality(before(i)) => S = before(i)
      BY <1>1, <2>1, FS_Subset, Zenon
    <3> QED BY <2>2, <3>1
  <2>5. Cardinality(before(i)) \in Nat
    BY <2>3, FS_CardinalityType
  <2> DEFINE b == Cardinality(before(i))
  <2>6. b \in Nat /\ b <= c /\ b # c /\ place[i] = b + 1
    BY <2>3, <2>4, <2>5
  <2> HIDE DEF b, c, place
  <2> QED BY <1>1, <2>3, <2>6
<1>3. ASSUME NEW i \in S, NEW h \in S, less(i, h)
      PROVE  place[i] < place[h]
  <2>1. i \in Int /\ h \in Int /\ \A j \in S : j \in Int
    BY <1>0
  <2>2. \A j \in S : less(j, i) => less(j, h)
    BY <1>0, <1>3, <2>1
  <2>3. i \in before(h) /\ i \notin before(i)
    BY <1>0, <1>3, <2>1
  <2>4. before(i) \in SUBSET before(h)
    <3> HIDE DEF less
    <3> QED BY <2>2
  <2>5. IsFiniteSet(before(i)) /\ IsFiniteSet(before(h))
    BY <1>2
  <2>6. place[i] = Cardinality(before(i)) + 1 /\ place[h] = Cardinality(before(h)) + 1
    OBVIOUS
  <2> HIDE DEF before, place, less
  <2>7. Cardinality(before(i)) <= Cardinality(before(h))
    BY <2>4, <2>5, FS_Subset, Zenon
  <2>8. Cardinality(before(i)) # Cardinality(before(h))
    <3>1. Cardinality(before(h)) = Cardinality(before(i)) => before(h) = before(i)
      BY <2>4, <2>5, FS_Subset, Zenon
    <3> QED BY <2>3, <3>1
  <2>9. Cardinality(before(i)) \in Nat /\ Cardinality(before(h)) \in Nat
    BY <2>5, FS_CardinalityType
  <2> DEFINE a == Cardinality(before(i))
             b == Cardinality(before(h))
  <2>10. a \in Nat /\ b \in Nat /\ a <= b /\ a # b /\ place[i] = a + 1 /\ place[h] = b + 1
    BY <2>6, <2>7, <2>8, <2>9
  <2> HIDE DEF a, b
  <2> QED BY <2>10
<1>4. ASSUME NEW i \in S, NEW h \in S, i # h PROVE place[i] # place[h]
  <2>1. less(i, h) \/ less(h, i)
    BY <1>0, <1>4
  <2>2. place[i] \in Int /\ place[h] \in Int
    BY <1>2
  <2> HIDE DEF less, place
  <2>3. CASE less(i, h)
    BY <1>3, <2>2, <2>3
  <2>4. CASE less(h, i)
    BY <1>3, <2>2, <2>4
  <2> QED BY <2>1, <2>3, <2>4
<1>5. \A k \in 1 .. c : \E i \in S : place[i] = k
  <2>1. place \in [S -> 1 .. c]
    <3>1. place = [i \in S |-> place[i]]
      OBVIOUS
    <3> HIDE DEF place
    <3> QED BY <1>2, <3>1
  <2> HIDE DEF place
  <2>2. place \in Injection(S, 1 .. c)
    BY <1>4, <2>1 DEF Injection, IsInjective
  <2>3. 1 \in Int /\ c \in Int /\ (IF 1 > c THEN 0 ELSE c - 1 + 1) = c
    BY <1>1
  <2>4. IsFiniteSet(1 .. c) /\ Cardinality(1 .. c) = c
    BY <2>3, FS_Interval
  <2>5. place \in Surjection(S, 1 .. c)
    BY <2>2, <2>4, FS_Injection
  <2> QED BY <2>5 DEF Surjection
<1>6. \A k \in 1 .. c : p[k] \in S /\ place[p[k]] = k
  <2> HIDE DEF place, c
  <2> QED BY <1>5
<1>7. Order(S, key) = p /\ Arranged(o, S, key) = [k \in 1 .. c |-> o[p[k]]]
  BY DEF Arranged, Order
<1>8. p \in [1 .. c -> S]
  <2> HIDE DEF at, place, c
  <2>1. \A k \in 1 .. c : at(k) \in S
    BY <1>6
  <2> QED BY <2>1
<1> HIDE DEF p, place, c, less, at
<1>9. \A i \in S : \E k \in 1 .. c : p[k] = i
  <2> SUFFICES ASSUME NEW i \in S PROVE p[place[i]] = i /\ place[i] \in 1 .. c
    OBVIOUS
  <2>1. place[i] \in 1 .. c
    BY <1>2
  <2>2. p[place[i]] \in S /\ place[p[place[i]]] = place[i]
    BY <1>6, <2>1
  <2> QED BY <1>4, <2>1, <2>2
<1>10. \A k, l \in 1 .. c : k # l => p[k] # p[l]
  BY <1>6
<1>11. \A k, l \in 1 .. c : k <= l => key[p[k]] <= key[p[l]]
  <2> SUFFICES ASSUME NEW k \in 1 .. c, NEW l \in 1 .. c, k <= l, ~(key[p[k]] <= key[p[l]])
               PROVE FALSE
    OBVIOUS
  <2>1. p[k] \in S /\ p[l] \in S /\ place[p[k]] = k /\ place[p[l]] = l
    BY <1>6
  <2>2. key[p[k]] \in Int /\ key[p[l]] \in Int
    BY <1>0, <2>1
  <2>3. less(p[l], p[k])
    BY <2>2 DEF less
  <2>4. l < k
    BY <1>3, <2>1, <2>3
  <2> QED BY <1>1, <2>4
<1>12. Orders(p, c, o, S, key)
  BY <1>1, <1>7, <1>8, <1>9, <1>10, <1>11 DEF Orders
<1> QED BY <1>7, <1>12 DEF c

LEMMA ArrangedIs ==
    ASSUME NEW n, NEW o, NEW S, NEW key, Keyed(S, n, key)
    PROVE  \E p : Orders(p, Cardinality(S), o, S, key)
BY ArrangedInOrder

(* Keep returns the operations at some positions.                          *)
LEMMA KeepIs ==
    ASSUME NEW V, NEW o \in Seq(V), NEW S \in SUBSET Idx(o)
    PROVE  /\ Keep(o, S) \in Seq(V)
           /\ \A k \in Idx(Keep(o, S)) : \E i \in S : Keep(o, S)[k] = o[i]
           /\ \A i \in S : \E k \in Idx(Keep(o, S)) : Keep(o, S)[k] = o[i]
<1> DEFINE key == [i \in Idx(o) |-> i]
           c == Cardinality(S)
           f == Keep(o, S)
<1>1. Len(o) \in Nat /\ Idx(o) = 1 .. Len(o)
  BY DEF Idx
<1>2. S \in SUBSET (1 .. Len(o))
  BY <1>1
<1>3. Keyed(S, Len(o), key)
  BY <1>1, <1>2 DEF Keyed
<1>4. f = Arranged(o, S, key)
  BY DEF Keep
<1> HIDE DEF key, f
<1>0. PICK p : Orders(p, c, o, S, key)
  BY <1>3, ArrangedIs
<1>5. /\ p \in [1 .. c -> S]
      /\ Arranged(o, S, key) = [k \in 1 .. c |-> o[p[k]]]
      /\ \A i \in S : \E k \in 1 .. c : p[k] = i
  BY <1>0 DEF Orders
<1>6. c \in Nat
  BY <1>0 DEF Orders
<1> HIDE DEF c
<1>7. \A k \in 1 .. c : p[k] \in S /\ o[p[k]] \in V
  <2>1. \A i \in S : o[i] \in V
    BY <1>1
  <2>2. \A k \in 1 .. c : p[k] \in S
    BY <1>5
  <2> QED BY <2>1, <2>2
<1>8. f = [k \in 1 .. c |-> o[p[k]]]
  BY <1>4, <1>5
<1>9. f \in Seq(V) /\ Len(f) = c /\ Idx(f) = 1 .. c
  BY <1>6, <1>7, <1>8 DEF Idx
<1>10. \A k \in Idx(f) : \E i \in S : f[k] = o[i]
  BY <1>7, <1>8, <1>9
<1>11. \A i \in S : \E k \in Idx(f) : f[k] = o[i]
  BY <1>5, <1>8, <1>9
<1> QED BY <1>9, <1>10, <1>11 DEF f

(* A sort keeps the operations and puts them in the order of their keys.   *)
LEMMA SortedIs ==
    ASSUME NEW V, NEW o \in Seq(V), NEW key, \A i \in Idx(o) : key[i] \in Int
    PROVE  /\ Arranged(o, Idx(o), key) \in Seq(V)
           /\ Len(Arranged(o, Idx(o), key)) = Len(o)
           /\ \E p : Orders(p, Len(o), o, Idx(o), key)
<1> DEFINE n == Len(o)
           I == Idx(o)
           s == Arranged(o, I, key)
<1>1. n \in Nat /\ I = 1 .. n
  BY DEF Idx
<1>2. Cardinality(I) = n
  <2>1. 1 \in Int /\ n \in Int /\ (IF 1 > n THEN 0 ELSE n - 1 + 1) = n
    BY <1>1
  <2> HIDE DEF n, I
  <2> QED BY <1>1, <2>1, FS_Interval
<1>3. Keyed(I, n, key)
  BY <1>1 DEF Keyed
<1> HIDE DEF s, I
<1>8. PICK p : Orders(p, Cardinality(I), o, I, key)
  BY <1>3, ArrangedIs
<1>9. Orders(p, n, o, I, key)
  BY <1>2, <1>8
<1>4. p \in [1 .. n -> I] /\ s = [k \in 1 .. n |-> o[p[k]]]
  BY <1>9 DEF Orders, s
<1>5. \A i \in I : o[i] \in V
  BY <1>1
<1>6. \A k \in 1 .. n : o[p[k]] \in V
  BY <1>4, <1>5
<1> HIDE DEF n
<1>7. s \in Seq(V) /\ Len(s) = n
  BY <1>1, <1>4, <1>6
<1> QED BY <1>7, <1>9 DEF s, I, n

(* The whole range of some operations.                                     *)
LEMMA RangeOrdered ==
    ASSUME NEW V, NEW o \in Seq(V), Timed(o)
    PROVE  /\ TimeRange(o).start \in Nat /\ TimeRange(o).end \in Nat
           /\ TimeRange(o).start <= TimeRange(o).end
<1>1. CASE o = <<>>
  BY <1>1 DEF TimeRange, Interval
<1>2. CASE o # <<>>
  <2> DEFINE starts == [i \in Idx(o) |-> o[i].start]
             ends == [i \in Idx(o) |-> o[i].end]
             S == {o[i].start : i \in Idx(o)}
             E == {o[i].end : i \in Idx(o)}
  <2>1. Len(o) \in Nat /\ 1 \in Idx(o) /\ Idx(o) = 1 .. Len(o)
    BY <1>2 DEF Idx
  <2>2. Among(S, Len(o), starts, 0)
    BY <2>1 DEF Timed, Times, Among
  <2>3. o[1].start \in S /\ o[1].end \in E
    BY <2>1
  <2>4. Among(E, Len(o), ends, 0)
    BY <2>1 DEF Timed, Times, Among
  <2>5. TimeRange(o).start = Min(S) /\ TimeRange(o).end = Max(E)
    BY <1>2 DEF TimeRange, Interval
  <2>6. S \subseteq Nat /\ E \subseteq Nat
    BY DEF Timed, Times
  <2>7. o[1].start <= o[1].end
    BY <2>1 DEF Timed, Times
  <2> HIDE DEF starts, ends, S, E
  <2>8. Min(S) \in S /\ \A y \in S : Min(S) <= y
    BY <2>2, MinOf
  <2>9. Max(E) \in E /\ \A y \in E : y <= Max(E)
    BY <2>4, MaxOf
  <2>10. Min(S) \in Nat /\ Max(E) \in Nat /\ o[1].start \in Nat /\ o[1].end \in Nat
    BY <2>3, <2>6, <2>8, <2>9
  <2>11. Min(S) <= o[1].start /\ o[1].end <= Max(E)
    BY <2>3, <2>8, <2>9
  <2> QED BY <2>5, <2>7, <2>10, <2>11
<1> QED BY <1>1, <1>2

(* Two ranges, looked at in both orders, overlap when they are not the     *)
(* same and one begins before the other is through.                        *)
LEMMA OverlapsEither ==
    ASSUME NEW ra, NEW rb,
           ra.start \in Nat, ra.end \in Nat, ra.start <= ra.end,
           rb.start \in Nat, rb.end \in Nat, rb.start <= rb.end
    PROVE  Overlaps(ra, rb) \/ Overlaps(rb, ra) <=>
             /\ ra.start # rb.start \/ ra.end # rb.end
             /\ \/ ra.start <= rb.start /\ rb.start < ra.end
                \/ rb.start <= ra.start /\ ra.start < rb.end
BY DEF Overlaps

(* isMixed: operation types are mixed when the ranges of two of them       *)
(* overlap without being the same, in whatever order the code meets them;  *)
(* "operation types are overlapping" (pkg/bench/ops.go:476) leaves out     *)
(* that exception.                                                         *)
THEOREM MixedIsOverlap ==
    ASSUME NEW V, NEW o \in Seq(V), Timed(o)
    PROVE  LET R(t) == TimeRange(FilterByOp(o, t))
           IN  isMixed(o) <=>
                 \E a, b \in OpTypes(o) :
                     /\ R(a) # R(b)
                     /\ R(a).start <= R(b).start
                     /\ R(b).start < R(a).end
<1> DEFINE R(t) == TimeRange(FilterByOp(o, t))
<1>1. ASSUME NEW t \in OpTypes(o)
      PROVE  R(t).start \in Nat /\ R(t).end \in Nat /\ R(t).start <= R(t).end
  <2> DEFINE S == {i \in Idx(o) : t \in {o[i].type, ""}}
             f == FilterByOp(o, t)
  <2>1. f = Keep(o, S) /\ S \in SUBSET Idx(o)
    BY DEF FilterByOp
  <2> HIDE DEF f, S
  <2>2. f \in Seq(V) /\ \A k \in Idx(f) : \E i \in Idx(o) : f[k] = o[i]
    BY <2>1, KeepIs
  <2>3. Timed(f)
    BY <2>2 DEF Timed
  <2> QED BY <2>2, <2>3, RangeOrdered DEF f
<1>2. isMixed(o) <=> \E a, b \in OpTypes(o) : a # b /\ Overlaps(R(a), R(b))
  BY DEF isMixed
<1>3. \A t : R(t) = [start |-> R(t).start, end |-> R(t).end]
  BY DEF TimeRange, Interval
<1> HIDE DEF R
<1>4. \A a, b : R(a) # R(b) <=> R(a).start # R(b).start \/ R(a).end # R(b).end
  BY <1>3
<1>5. ASSUME NEW a \in OpTypes(o), NEW b \in OpTypes(o), a # b, Overlaps(R(a), R(b))
      PROVE  \E c, d \in OpTypes(o) :
                 R(c) # R(d) /\ R(c).start <= R(d).start /\ R(d).start < R(c).end
  <2>1. /\ R(a).start # R(b).start \/ R(a).end # R(b).end
        /\ \/ R(a).start <= R(b).start /\ R(b).start < R(a).end
           \/ R(b).start <= R(a).start /\ R(a).start < R(b).end
    BY <1>1, <1>5, OverlapsEither
  <2> QED BY <1>4, <2>1
<1>6. ASSUME NEW a \in OpTypes(o), NEW b \in OpTypes(o),
             R(a) # R(b), R(a).start <= R(b).start, R(b).start < R(a).end
      PROVE  \E c, d \in OpTypes(o) : c # d /\ Overlaps(R(c), R(d))
  <2>1. a # b
    BY <1>6
  <2>2. R(a).start # R(b).start \/ R(a).end # R(b).end
    BY <1>4, <1>6
  <2>3. Overlaps(R(a), R(b)) \/ Overlaps(R(b), R(a))
    BY <1>1, <1>6, <2>2, OverlapsEither
  <2> QED BY <2>1, <2>3
<1> QED BY <1>2, <1>5, <1>6 DEF R
-----------------------------------------------------------------------------
(* Median, m clamped to the list and rounded: the index exists, at least   *)
(* the share p of the list comes no later, and at least the rest of it no  *)
(* earlier, but for half an operation of rounding (Median,                 *)
(* pkg/bench/ops.go).                                                      *)
THEOREM MedianIndex ==
    ASSUME NEW n \in Nat \ {0}, NEW p \in 0 .. 100
    PROVE  /\ MedianIdx(n, p) \in 1 .. n
           /\ 100 * MedianIdx(n, p) >= p * n
           /\ 100 * (n - MedianIdx(n, p) + 1) >= (100 - p) * n - 50
<1> DEFINE q == p * n
           k == (2 * q + 100) \div 200
<1>1. q \in Nat /\ q <= 100 * n /\ n * p = q /\ 2 * n * p = 2 * q
  OBVIOUS
<1>2. (100 - p) * n = 100 * n - q
  OBVIOUS
<1>3. MedianIdx(n, p) = (IF k <= n - 1 THEN k ELSE n - 1) + 1
  <2>1. (2 * n * p + 100) \div 200 = k
    BY <1>1
  <2>2. k \in Int /\ n - 1 \in Int
    BY <1>1
  <2> HIDE DEF k
  <2> QED BY <2>1, <2>2, MinTwo DEF MedianIdx
<1> HIDE DEF q
<1>4. k \in Nat /\ 200 * k <= 2 * q + 100 /\ 2 * q + 100 < 200 * (k + 1)
  BY <1>1
<1> HIDE DEF k
<1>5. CASE k <= n - 1
  BY <1>1, <1>2, <1>3, <1>4, <1>5 DEF q
<1>6. CASE k > n - 1
  BY <1>1, <1>2, <1>3, <1>4, <1>6 DEF q
<1> QED BY <1>4, <1>5, <1>6
-----------------------------------------------------------------------------
(* A share of a size is no more than the size ...                          *)
LEMMA ShareBounded ==
    ASSUME NEW size \in Nat, NEW d \in Nat \ {0}, NEW x \in 0 .. d
    PROVE  (size * x) \div d \in 0 .. size
<1> DEFINE z == (size * x) \div d
<1>1. size * x \in Nat /\ size * x <= size * d
  OBVIOUS
<1>2. z \in Nat /\ z * d <= size * x
  BY <1>1
<1> HIDE DEF z
<1>3. z * d <= size * d
  BY <1>1, <1>2
<1>4. z <= size
  BY <1>2, <1>3
<1> QED BY <1>2, <1>4 DEF z

(* ... and neither are two shares of it that have no time in common.       *)
LEMMA SharesBounded ==
    ASSUME NEW size \in Nat, NEW d \in Nat \ {0}, NEW x \in 0 .. d, NEW y \in 0 .. d,
           x + y <= d
    PROVE  (size * x) \div d + (size * y) \div d <= size
<1> DEFINE u == (size * x) \div d
           v == (size * y) \div d
<1>1. size * x \in Nat /\ size * y \in Nat /\ size * x + size * y <= size * d
  OBVIOUS
<1>2. u \in Nat /\ u * d <= size * x /\ v \in Nat /\ v * d <= size * y
  BY <1>1
<1> HIDE DEF u, v
<1>3. (u + v) * d <= size * d
  BY <1>1, <1>2
<1>4. u + v <= size
  BY <1>2, <1>3
<1> QED BY <1>4 DEF u, v

(* A segment has a length.                                                 *)
Segmental(s) == s.start \in Nat /\ s.ends \in Nat /\ s.start < s.ends

(* How long an operation is in a segment it is partly in.                  *)
PartDur(op, s) == Min({op.end, s.ends}) - Max({op.start, s.start})

(* It is between nothing and what the operation takes.                     *)
LEMMA PartDurIs ==
    ASSUME NEW op, NEW s, Times(op), Segmental(s), InSegment(op, s)
    PROVE  /\ PartDur(op, s) =
                (IF op.end <= s.ends THEN op.end ELSE s.ends)
                  - (IF op.start >= s.start THEN op.start ELSE s.start)
           /\ Dur(op) \in Nat /\ PartDur(op, s) \in 0 .. Dur(op)
<1>1. /\ op.start \in Nat /\ op.end \in Nat /\ op.start <= op.end
      /\ s.start \in Nat /\ s.ends \in Nat /\ s.start < s.ends
      /\ op.start < s.ends /\ op.end >= s.start
  BY DEF Times, Segmental, InSegment
<1>2. /\ Min({op.end, s.ends}) = IF op.end <= s.ends THEN op.end ELSE s.ends
      /\ Max({op.start, s.start}) = IF op.start >= s.start THEN op.start ELSE s.start
  BY <1>1, MinTwo, MaxTwo
<1> QED BY <1>1, <1>2 DEF PartDur, Dur

(* An operation that is partly in a segment took some time.                *)
LEMMA PartTakesTime ==
    ASSUME NEW op, NEW s, Times(op), Segmental(s), InSegment(op, s), ~Whole(op, s)
    PROVE  Dur(op) \in Nat \ {0}
<1>1. /\ op.start \in Nat /\ op.end \in Nat /\ op.start <= op.end
      /\ s.start \in Nat /\ s.ends \in Nat /\ s.start < s.ends
      /\ op.start < s.ends /\ op.end >= s.start
  BY DEF Times, Segmental, InSegment
<1>2. ~(op.start >= s.start /\ op.end < s.ends)
  BY DEF Whole, StartedIn, EndedIn
<1>3. op.start < op.end
  BY <1>1, <1>2
<1> QED BY <1>1, <1>3 DEF Dur

(* "Sanity check" (Operation.Aggregate, pkg/bench/ops.go): the part of an  *)
(* operation that a segment is charged with is never negative and never    *)
(* more than the operation, and the division by its duration is not by     *)
(* zero: the panic of the code is not reached, as long as the product fits *)
(* 64 bits.                                                                *)
THEOREM PartSizeSane ==
    ASSUME NEW op, NEW s, Times(op), op.size \in Nat, Segmental(s),
           InSegment(op, s), ~Whole(op, s)
    PROVE  Dur(op) # 0 /\ PartSize(op, s) \in 0 .. op.size
<1>1. Dur(op) \in Nat \ {0} /\ PartDur(op, s) \in 0 .. Dur(op)
  BY PartTakesTime, PartDurIs
<1>2. PartSize(op, s) = (op.size * PartDur(op, s)) \div Dur(op)
  BY DEF PartSize, PartDur
<1>3. (op.size * PartDur(op, s)) \div Dur(op) \in 0 .. op.size
  BY <1>1, ShareBounded
<1> QED BY <1>1, <1>2, <1>3

(* No byte is counted twice: two segments, one after the other, are not    *)
(* charged with more than the operation they share.                        *)
THEOREM NoByteTwice ==
    ASSUME NEW op, NEW s, NEW z, Times(op), op.size \in Nat,
           Segmental(s), Segmental(z), s.ends <= z.start,
           InSegment(op, s), InSegment(op, z), ~Whole(op, s)
    PROVE  PartSize(op, s) + PartSize(op, z) <= op.size
<1>1. Dur(op) \in Nat \ {0}
  BY PartTakesTime
<1>2. /\ PartDur(op, s) \in 0 .. Dur(op) /\ PartDur(op, z) \in 0 .. Dur(op)
      /\ PartDur(op, s) =
           (IF op.end <= s.ends THEN op.end ELSE s.ends)
             - (IF op.start >= s.start THEN op.start ELSE s.start)
      /\ PartDur(op, z) =
           (IF op.end <= z.ends THEN op.end ELSE z.ends)
             - (IF op.start >= z.start THEN op.start ELSE z.start)
  BY PartDurIs
<1>3. PartDur(op, s) + PartDur(op, z) <= Dur(op)
  <2>1. /\ op.start \in Nat /\ op.end \in Nat
        /\ s.start \in Nat /\ s.ends \in Nat /\ z.start \in Nat /\ z.ends \in Nat
    BY DEF Times, Segmental
  <2>2. PartDur(op, s) <= s.ends - op.start
    BY <1>2, <2>1
  <2>3. PartDur(op, z) <= op.end - z.start
    BY <1>2, <2>1
  <2>4. (s.ends - op.start) + (op.end - z.start) <= op.end - op.start
    BY <2>1
  <2> QED BY <1>2, <2>1, <2>2, <2>3, <2>4 DEF Dur
<1>4. /\ PartSize(op, s) = (op.size * PartDur(op, s)) \div Dur(op)
      /\ PartSize(op, z) = (op.size * PartDur(op, z)) \div Dur(op)
  BY DEF PartSize, PartDur
<1> QED BY <1>1, <1>2, <1>3, <1>4, SharesBounded
-----------------------------------------------------------------------------
(* Among the operations idx of o there is one that starts last and one that*)
(* ends first.                                                             *)
LEMMA ExtremeTimes ==
    ASSUME NEW V, NEW o \in Seq(V), Timed(o), NEW idx \in SUBSET Idx(o), idx # {}
    PROVE  /\ \E i \in idx : /\ o[i].start = Max({o[j].start : j \in idx})
                             /\ \A j \in idx : o[j].start <= o[i].start
           /\ \E i \in idx : /\ o[i].end = Min({o[j].end : j \in idx})
                             /\ \A j \in idx : o[i].end <= o[j].end
<1> DEFINE starts == [i \in Idx(o) |-> o[i].start]
           ends == [i \in Idx(o) |-> o[i].end]
           S == {o[i].start : i \in idx}
           E == {o[i].end : i \in idx}
<1>1. Len(o) \in Nat /\ 0 \in Int /\ Idx(o) = 1 .. Len(o)
  BY DEF Idx
<1>2. Among(S, Len(o), starts, 0)
  BY <1>1 DEF Timed, Times, Among
<1>3. Among(E, Len(o), ends, 0)
  BY <1>1 DEF Timed, Times, Among
<1> HIDE DEF starts, ends, S, E
<1>5. Max(S) \in S /\ \A y \in S : y <= Max(S)
  BY <1>2, MaxOf
<1>6. Min(E) \in E /\ \A y \in E : Min(E) <= y
  BY <1>3, MinOf
<1> QED BY <1>5, <1>6 DEF S, E

(* The active range over all threads: before it every thread has completed *)
(* an operation, and once it is over every thread begins another one       *)
(* ("All threads must have completed at least one request and the last     *)
(* start time of any thread", pkg/bench/ops.go).                           *)
THEOREM AllThreadsActive ==
    ASSUME NEW V, NEW o \in Seq(V), o # <<>>, Timed(o)
    PROVE  LET r == ActiveTimeRange(o, TRUE)
           IN  /\ r.start \in Nat /\ r.end \in Nat /\ r.start <= r.end
               /\ r.start \in TimesOf(o) /\ r.end \in TimesOf(o)
               /\ r.start < r.end =>
                    \A i \in Idx(o) :
                        /\ \E j \in Idx(o) : o[j].thread = o[i].thread /\ o[j].end <= r.start
                        /\ \E j \in Idx(o) : o[j].thread = o[i].thread /\ o[j].start >= r.end
<1> DEFINE Of(t) == {i \in Idx(o) : o[i].thread = t}
           ts == {o[i].thread : i \in Idx(o)}
           first(t) == Min({o[i].end : i \in Of(t)})
           last(t) == Max({o[i].start : i \in Of(t)})
           F == Max({first(t) : t \in ts})
           L == Min({last(t) : t \in ts})
           starts == [i \in Idx(o) |-> o[i].start]
           ends == [i \in Idx(o) |-> o[i].end]
           S == {last(t) : t \in ts}
           E == {first(t) : t \in ts}
           r == ActiveTimeRange(o, TRUE)
<1>1. Len(o) \in Nat /\ 0 \in Int /\ Idx(o) = 1 .. Len(o) /\ 1 \in Idx(o)
  BY DEF Idx
<1>2. r.start = F /\ r.end = IF F > L THEN F ELSE L
  <2> DEFINE g == Interval(F, L)
  <2>1. r = OrNothing(g)
    BY DEF ActiveTimeRange, ActiveAllThreads
  <2> HIDE DEF r, F, L
  <2>2. g.start = F /\ g.end = L
    BY DEF Interval
  <2>3. CASE F > L
    BY <2>1, <2>2, <2>3 DEF OrNothing, Interval
  <2>4. CASE ~(F > L)
    BY <2>1, <2>2, <2>4 DEF OrNothing, Interval
  <2> QED BY <2>3, <2>4
<1>3. ASSUME NEW t \in ts
      PROVE  /\ \E j \in Of(t) : o[j].end = first(t)
             /\ \E j \in Of(t) : o[j].start = last(t)
  <2>1. Of(t) \in SUBSET Idx(o) /\ Of(t) # {}
    OBVIOUS
  <2> HIDE DEF Of, ts
  <2> QED BY <2>1, ExtremeTimes
<1>4. \A i \in Idx(o) : /\ o[i].start \in Int /\ starts[i] = o[i].start
                        /\ o[i].end \in Int /\ ends[i] = o[i].end
  BY DEF Timed, Times
<1> HIDE DEF first, last
<1>5. Among(S, Len(o), starts, 0)
  <2> SUFFICES ASSUME NEW t \in ts PROVE \E i \in 1 .. Len(o) : last(t) = starts[i]
    BY <1>1, <1>4 DEF Among
  <2>1. PICK j \in Of(t) : o[j].start = last(t)
    BY <1>3
  <2> QED BY <1>1, <1>4, <2>1
<1>6. Among(E, Len(o), ends, 0)
  <2> SUFFICES ASSUME NEW t \in ts PROVE \E i \in 1 .. Len(o) : first(t) = ends[i]
    BY <1>1, <1>4 DEF Among
  <2>1. PICK j \in Of(t) : o[j].end = first(t)
    BY <1>3
  <2> QED BY <1>1, <1>4, <2>1
<1>7. (\A y \in S : y \in Nat) /\ \A y \in E : y \in Nat
  BY <1>3 DEF Timed, Times
<1>8. \A t \in ts : last(t) \in S /\ first(t) \in E
  OBVIOUS
<1>0. F = Max(E) /\ L = Min(S)
  OBVIOUS
<1> HIDE DEF S, E, starts, ends, F, L, r
<1>9. L \in Int /\ L \in S /\ \A y \in S : L <= y
  BY <1>0, <1>5, MinOf
<1>10. F \in Int /\ F \in E /\ \A y \in E : y <= F
  BY <1>0, <1>6, MaxOf
<1>11. F \in Nat /\ L \in Nat
  BY <1>7, <1>9, <1>10
<1>12. r.start \in Nat /\ r.end \in Nat
  BY <1>2, <1>11
<1>13. ASSUME NEW i \in Idx(o)
       PROVE  /\ \E j \in Idx(o) : o[j].thread = o[i].thread /\ o[j].end <= F
              /\ \E j \in Idx(o) : o[j].thread = o[i].thread /\ o[j].start >= L
  <2> DEFINE t == o[i].thread
  <2>1. t \in ts
    OBVIOUS
  <2>2. PICK j \in Of(t) : o[j].end = first(t)
    BY <1>3, <2>1
  <2>3. PICK k \in Of(t) : o[k].start = last(t)
    BY <1>3, <2>1
  <2>4. first(t) <= F /\ L <= last(t)
    BY <1>8, <1>9, <1>10, <2>1
  <2>5. L \in Int /\ last(t) \in Int
    BY <1>4, <1>9, <2>3
  <2> QED BY <2>2, <2>3, <2>4, <2>5
<1>14. F <= (IF F > L THEN F ELSE L) /\ (F < (IF F > L THEN F ELSE L) => ~(F > L))
  BY <1>11
<1>15. r.start <= r.end /\ (r.start < r.end => r.start = F /\ r.end = L)
  BY <1>2, <1>14
<1>16. r.start < r.end =>
         \A i \in Idx(o) :
             /\ \E j \in Idx(o) : o[j].thread = o[i].thread /\ o[j].end <= r.start
             /\ \E j \in Idx(o) : o[j].thread = o[i].thread /\ o[j].start >= r.end
  BY <1>13, <1>15
<1>17. F \in TimesOf(o) /\ L \in TimesOf(o)
  <2>1. PICK t \in ts : F = first(t)
    BY <1>10 DEF E
  <2>2. PICK u \in ts : L = last(u)
    BY <1>9 DEF S
  <2>3. PICK j \in Of(t) : o[j].end = first(t)
    BY <1>3
  <2>4. PICK k \in Of(u) : o[k].start = last(u)
    BY <1>3
  <2> QED BY <2>1, <2>2, <2>3, <2>4 DEF TimesOf
<1>18. r.start \in TimesOf(o) /\ r.end \in TimesOf(o)
  BY <1>2, <1>17
<1> QED BY <1>12, <1>15, <1>16, <1>18 DEF r

(* The active range of a list that is not about all threads: something     *)
(* began before it and something ends after it ("Only discard one",        *)
(* ActiveTimeRange, pkg/bench/ops.go).                                     *)
THEOREM OneDiscarded ==
    ASSUME NEW V, NEW o \in Seq(V), o # <<>>, Timed(o)
    PROVE  LET r == ActiveTimeRange(o, FALSE)
           IN  /\ r.start \in Nat /\ r.end \in Nat /\ r.start <= r.end
               /\ r.start \in TimesOf(o) /\ r.end \in TimesOf(o)
               /\ r.start < r.end =>
                    /\ \E i \in Idx(o) : o[i].start < r.start
                    /\ \E i \in Idx(o) : o[i].end > r.end
<1> DEFINE starts == [i \in Idx(o) |-> o[i].start]
           ends == [i \in Idx(o) |-> o[i].end]
           S1 == {o[1].start} \cup {o[i].end : i \in Idx(o)}
           startF == Min(S1)
           S2 == {o[1].end} \cup {o[i].start : i \in Idx(o)}
           endF == Max(S2)
           S3 == {endF} \cup {o[i].start : i \in {j \in Idx(o) : o[j].start > startF}}
           A == Min(S3)
           S4 == {startF} \cup {o[i].end : i \in {j \in Idx(o) : o[j].end < endF}}
           B == Max(S4)
           r == ActiveTimeRange(o, FALSE)
<1>1. Len(o) \in Nat /\ Idx(o) = 1 .. Len(o) /\ 1 \in Idx(o)
  BY DEF Idx
<1>2. r.start = A /\ r.end = IF A > B THEN A ELSE B
  <2> DEFINE g == Interval(A, B)
  <2>1. r = OrNothing(g)
    BY DEF ActiveTimeRange, ActiveExceptOne
  <2> HIDE DEF r, A, B
  <2>2. g.start = A /\ g.end = B
    BY DEF Interval
  <2>3. CASE A > B
    BY <2>1, <2>2, <2>3 DEF OrNothing, Interval
  <2>4. CASE ~(A > B)
    BY <2>1, <2>2, <2>4 DEF OrNothing, Interval
  <2> QED BY <2>3, <2>4
<1>3. \A i \in Idx(o) : /\ o[i].start \in Nat /\ o[i].end \in Nat
                        /\ o[i].start <= o[i].end
  BY DEF Timed, Times
<1>4. \A i \in 1 .. Len(o) : /\ starts[i] = o[i].start /\ starts[i] \in Nat
                             /\ ends[i] = o[i].end /\ ends[i] \in Nat
  BY <1>1, <1>3
<1>0. /\ Len(o) \in Nat
      /\ \A i \in 1 .. Len(o) : starts[i] \in Int
      /\ \A i \in 1 .. Len(o) : ends[i] \in Int
  BY <1>1, <1>4
<1> HIDE DEF starts, ends, r
<1>5. startF \in Int /\ startF \in S1 /\ \A y \in S1 : startF <= y
  <2> DEFINE x == o[1].start
  <2>1. x \in Int
    BY <1>1, <1>3
  <2>2. S1 # {} /\ \A y \in S1 : y = x \/ \E i \in 1 .. Len(o) : y = ends[i]
    BY <1>1, <1>4
  <2> HIDE DEF S1, x
  <2>3. Among(S1, Len(o), ends, x)
    BY <1>0, <2>1, <2>2 DEF Among
  <2> QED BY <2>3, MinOf
<1>6. endF \in Int /\ endF \in S2 /\ \A y \in S2 : y <= endF
  <2> DEFINE x == o[1].end
  <2>1. x \in Int
    BY <1>1, <1>3
  <2>2. S2 # {} /\ \A y \in S2 : y = x \/ \E i \in 1 .. Len(o) : y = starts[i]
    BY <1>1, <1>4
  <2> HIDE DEF S2, x
  <2>3. Among(S2, Len(o), starts, x)
    BY <1>0, <2>1, <2>2 DEF Among
  <2> QED BY <2>3, MaxOf
<1>16. startF \in Nat /\ endF \in Nat
  BY <1>1, <1>3, <1>5, <1>6
<1>17. startF \in TimesOf(o) /\ endF \in TimesOf(o)
  BY <1>1, <1>5, <1>6 DEF TimesOf
<1> HIDE DEF startF, endF
<1>7. A \in Nat /\ (A = endF \/ A > startF) /\ A \in TimesOf(o)
  <2>2. Among(S3, Len(o), starts, endF)
    BY <1>0, <1>1, <1>4, <1>6 DEF Among
  <2>3. \A y \in S3 : y \in Nat /\ (y = endF \/ y > startF) /\ y \in TimesOf(o)
    BY <1>3, <1>16, <1>17 DEF TimesOf
  <2> HIDE DEF S3
  <2>4. Min(S3) \in Int /\ Min(S3) \in S3
    BY <2>2, MinOf
  <2> QED BY <2>3, <2>4
<1>8. B \in Nat /\ (B = startF \/ B < endF) /\ B \in TimesOf(o)
  <2>2. Among(S4, Len(o), ends, startF)
    BY <1>0, <1>1, <1>4, <1>5 DEF Among
  <2>3. \A y \in S4 : y \in Nat /\ (y = startF \/ y < endF) /\ y \in TimesOf(o)
    BY <1>3, <1>16, <1>17 DEF TimesOf
  <2> HIDE DEF S4
  <2>4. Max(S4) \in Int /\ Max(S4) \in S4
    BY <2>2, MaxOf
  <2> QED BY <2>3, <2>4
<1> HIDE DEF A, B
<1>9. PICK i \in Idx(o) : o[i].start <= startF
  BY <1>1, <1>3, <1>5
<1>10. PICK k \in Idx(o) : o[k].end >= endF
  BY <1>1, <1>3, <1>6
<1>11. startF <= endF
  <2>1. startF <= o[1].start /\ o[1].end <= endF
    BY <1>5, <1>6
  <2>2. o[1].start <= o[1].end /\ o[1].start \in Int /\ o[1].end \in Int
    BY <1>1, <1>3
  <2> QED BY <1>5, <1>6, <2>1, <2>2
<1>12. /\ r.start \in Nat /\ r.end \in Nat /\ r.start <= r.end
       /\ r.start < r.end => r.start = A /\ r.end = B /\ A < B
  BY <1>2, <1>7, <1>8
<1>13. A < B => startF < A /\ B < endF
  BY <1>5, <1>6, <1>7, <1>8, <1>11
<1>14. o[i].start \in Int /\ o[k].end \in Int
  BY <1>3
<1>15. r.start < r.end => o[i].start < r.start /\ o[k].end > r.end
  BY <1>5, <1>6, <1>7, <1>8, <1>9, <1>10, <1>12, <1>13, <1>14
<1>18. r.start \in TimesOf(o) /\ r.end \in TimesOf(o)
  BY <1>2, <1>7, <1>8
<1> QED BY <1>12, <1>15, <1>18 DEF r
-----------------------------------------------------------------------------
(* A recorded operation, as far as its thread goes ...                     *)
IsOp(op) ==
    /\ op = [f \in DOMAIN op |-> op[f]]
    /\ "thread" \in DOMAIN op /\ op.thread \in Nat /\ op.thread < 2 ^ 16

(* ... and the same operation with another number for the thread.          *)
Moved(op, n) == [op EXCEPT !.thread = (@ + n) % 2 ^ 16]

(* A thread has a number of 16 bits.                                       *)
LEMMA ThreadFits ==
    ASSUME NEW op, IsOp(op)
    PROVE  op.thread \in Nat /\ op.thread < 65536
<1>1. op.thread \in Nat /\ op.thread < 2 ^ 16
  BY DEF IsOp
<1>2. 2 ^ 16 = 65536
  OBVIOUS
<1> QED BY <1>1, <1>2

(* Moved changes the number of the thread and nothing else.                *)
LEMMA MovedIs ==
    ASSUME NEW op, NEW n \in Nat, IsOp(op)
    PROVE  /\ Moved(op, n).thread = (op.thread + n) % 2 ^ 16
           /\ \A f \in DOMAIN op : f # "thread" => Moved(op, n)[f] = op[f]
           /\ DOMAIN Moved(op, n) = DOMAIN op
           /\ IsOp(Moved(op, n)) /\ Moved(op, 0) = op
<1>0. 2 ^ 16 = 65536
  OBVIOUS
<1>1. /\ op = [f \in DOMAIN op |-> op[f]] /\ "thread" \in DOMAIN op
      /\ op.thread \in Nat /\ op.thread < 65536
  BY <1>0 DEF IsOp
<1>2. Moved(op, n) = [f \in DOMAIN op |->
                        IF f = "thread" THEN (op.thread + n) % 65536 ELSE op[f]]
  BY <1>0, <1>1 DEF Moved
<1>3. (op.thread + n) % 65536 \in Nat /\ (op.thread + n) % 65536 < 65536
  BY <1>1
<1>4. Moved(op, n).thread = (op.thread + n) % 65536
  BY <1>1, <1>2
<1>5. IsOp(Moved(op, n))
  BY <1>0, <1>1, <1>2, <1>3 DEF IsOp
<1>6. (op.thread + 0) % 65536 = op.thread
  <2> DEFINE x == op.thread
  <2>1. x \in Nat /\ x < 65536
    BY <1>1
  <2> HIDE DEF x
  <2>2. (x + 0) % 65536 = x
    BY <2>1
  <2> QED BY <2>2 DEF x
<1>7. Moved(op, 0) = op
  BY <1>0, <1>1, <1>6 DEF Moved
<1> QED BY <1>0, <1>1, <1>2, <1>4, <1>5, <1>7

(* When the sum fits 16 bits it is the sum.                                *)
LEMMA MovedFits ==
    ASSUME NEW op, NEW n \in Nat, IsOp(op), op.thread + n < 2 ^ 16
    PROVE  Moved(op, n).thread = op.thread + n
<1> DEFINE x == op.thread + n
<1>0. 2 ^ 16 = 65536
  OBVIOUS
<1>1. op.thread \in Nat
  BY ThreadFits
<1>2. x \in Nat /\ x < 65536
  BY <1>0, <1>1
<1>3. Moved(op, n).thread = x % 65536
  BY <1>0, MovedIs
<1> HIDE DEF x
<1>4. x % 65536 = x
  BY <1>2
<1> QED BY <1>3, <1>4 DEF x

(* OffsetThreads moves every operation; the number it returns is a number  *)
(* ...                                                                     *)
LEMMA Offset ==
    ASSUME NEW V, NEW o \in Seq(V), NEW n \in Nat, \A j \in Idx(o) : IsOp(o[j])
    PROVE  /\ OffsetThreads(o, n) = [j \in 1 .. Len(o) |-> Moved(o[j], n)]
           /\ Len(OffsetThreads(o, n)) = Len(o)
           /\ \A j \in Idx(o) : OffsetThreads(o, n)[j] = Moved(o[j], n)
           /\ NextThread(o, n) \in Nat
           /\ o # <<>> => \E h \in Idx(o) :
                /\ \A j \in Idx(o) : Moved(o[j], n).thread <= Moved(o[h], n).thread
                /\ NextThread(o, n) = (Moved(o[h], n).thread + 1) % 2 ^ 16
<1> DEFINE m == OffsetThreads(o, n)
           S == {m[j].thread : j \in Idx(m)}
           numbers == [j \in Idx(m) |-> m[j].thread]
<1>0. 2 ^ 16 = 65536
  OBVIOUS
<1>1. Len(o) \in Nat /\ Idx(o) = 1 .. Len(o)
  BY DEF Idx
<1>2. m = [j \in 1 .. Len(o) |-> Moved(o[j], n)]
  BY <1>1 DEF OffsetThreads, Moved
<1>3. m \in Seq({Moved(o[j], n) : j \in Idx(o)})
  BY <1>1, <1>2
<1>4. Len(m) = Len(o) /\ Idx(m) = Idx(o) /\ \A j \in Idx(o) : m[j] = Moved(o[j], n)
  BY <1>1, <1>2, <1>3 DEF Idx
<1>5. CASE o = <<>>
  <2>1. m = <<>>
    BY <1>2, <1>5
  <2>2. NextThread(o, n) = 0 % 65536
    BY <1>0, <2>1 DEF NextThread, Threads
  <2> QED BY <1>2, <1>4, <1>5, <2>2
<1>6. CASE o # <<>>
  <2>1. 1 \in Idx(m) /\ m # <<>>
    BY <1>1, <1>4, <1>6
  <2>2. \A j \in Idx(m) : m[j].thread \in Nat
    <3>1. \A j \in Idx(o) : IsOp(Moved(o[j], n))
      BY MovedIs
    <3> QED BY <1>4, <3>1, ThreadFits
  <2>3. Among(S, Len(m), numbers, 0)
    <3>1. \A j \in 1 .. Len(m) : numbers[j] \in Int /\ numbers[j] = m[j].thread
      BY <1>1, <1>4, <2>2
    <3>2. S # {} /\ \A y \in S : \E j \in 1 .. Len(m) : y = numbers[j]
      BY <1>1, <1>4, <2>1, <3>1
    <3>3. Len(m) \in Nat
      BY <1>1, <1>4
    <3> HIDE DEF S, numbers
    <3> QED BY <3>1, <3>2, <3>3 DEF Among
  <2>4. NextThread(o, n) = (Max(S) + 1) % 2 ^ 16
    BY <2>1 DEF NextThread, Threads
  <2>5. PICK h \in Idx(m) : Max(S) = m[h].thread
    <3>1. Max(S) \in S
      BY <2>3, MaxOf
    <3> QED BY <3>1
  <2>6. \A j \in Idx(m) : m[j].thread <= Max(S)
    <3>1. \A y \in S : y <= Max(S)
      BY <2>3, MaxOf
    <3> QED BY <3>1
  <2> HIDE DEF S, numbers, m
  <2>7. \A j \in Idx(o) : Moved(o[j], n).thread <= Moved(o[h], n).thread
    BY <1>4, <2>5, <2>6
  <2>8. h \in Idx(o) /\ NextThread(o, n) = (Moved(o[h], n).thread + 1) % 65536
    BY <1>0, <1>4, <2>4, <2>5
  <2>9. NextThread(o, n) \in Nat
    BY <1>4, <2>2, <2>8
  <2> QED BY <1>0, <1>2, <1>4, <2>7, <2>8, <2>9 DEF m
<1> QED BY <1>5, <1>6

(* ... beyond all of the threads, as long as they fit 16 bits.             *)
LEMMA NextIsFree ==
    ASSUME NEW V, NEW o \in Seq(V), o # <<>>, NEW n \in Nat, NEW M \in Nat, n + M < 2 ^ 16,
           \A j \in Idx(o) : IsOp(o[j]) /\ o[j].thread < M
    PROVE  /\ NextThread(o, n) <= n + M
           /\ \A j \in Idx(o) : o[j].thread + n < NextThread(o, n)
<1>0. 2 ^ 16 = 65536
  OBVIOUS
<1>1. \A j \in Idx(o) : IsOp(o[j]) /\ o[j].thread < M /\ o[j].thread \in Nat
  BY ThreadFits
<1>2. \A j \in Idx(o) : o[j].thread + n < 2 ^ 16
  BY <1>0, <1>1
<1>3. \A j \in Idx(o) : Moved(o[j], n).thread = o[j].thread + n
  BY <1>1, <1>2, MovedFits
<1>4. PICK h \in Idx(o) :
        /\ \A j \in Idx(o) : Moved(o[j], n).thread <= Moved(o[h], n).thread
        /\ NextThread(o, n) = (Moved(o[h], n).thread + 1) % 65536
  BY <1>0, <1>1, Offset
<1> DEFINE x == o[h].thread + n
<1>5. x \in Nat /\ x < n + M /\ n + M < 65536
  BY <1>0, <1>1
<1>6. NextThread(o, n) = (x + 1) % 65536 /\ \A j \in Idx(o) : o[j].thread + n <= x
  BY <1>3, <1>4
<1>7. (x + 1) % 65536 = x + 1 /\ x + 1 <= n + M
  <2> HIDE DEF x
  <2> QED BY <1>5
<1>8. \A j \in Idx(o) : o[j].thread + n \in Nat
  BY <1>1
<1> HIDE DEF x
<1> QED BY <1>5, <1>6, <1>7, <1>8

(* A sequence and another one.                                             *)
LEMMA Concat ==
    ASSUME NEW U, NEW a \in Seq(U), NEW b \in Seq(U)
    PROVE  /\ a \o b \in Seq(U) /\ Len(a \o b) = Len(a) + Len(b)
           /\ \A p \in 1 .. Len(a) : (a \o b)[p] = a[p]
           /\ \A j \in 1 .. Len(b) : (a \o b)[Len(a) + j] = b[j]
<1>1. ASSUME NEW j \in 1 .. Len(b) PROVE (a \o b)[Len(a) + j] = b[j]
  <2>1. Len(a) \in Nat /\ Len(b) \in Nat
    OBVIOUS
  <2>2. Len(a) + j \in 1 .. Len(a) + Len(b) /\ ~(Len(a) + j <= Len(a)) /\ (Len(a) + j) - Len(a) = j
    BY <2>1
  <2> QED BY <2>1, <2>2
<1> QED BY <1>1

(* Fewer clients have no more threads.                                     *)
LEMMA TimesMonotone ==
    ASSUME NEW m \in Nat, NEW b \in Nat, NEW a \in 0 .. b
    PROVE  a * m \in Nat /\ a * m <= b * m
OBVIOUS

(* One step of the loop over the clients ...                               *)
Downloaded(d, k, F) ==
    IF k = 0 THEN [ops |-> <<>>, threads |-> 0]
    ELSE [ops |-> F[k - 1].ops \o OffsetThreads(d[k], F[k - 1].threads),
          threads |-> NextThread(d[k], F[k - 1].threads)]

(* ... and what it has built after client k.                               *)
LEMMA LoopExists ==
    ASSUME NEW d, NEW n \in Nat
    PROVE  \E F : F = [k \in 0 .. n |-> Downloaded(d, k, F)]
<1> DEFINE Ok(j) == \E F : F = [k \in 0 .. j |-> Downloaded(d, k, F)]
           S == {j \in 0 .. n : Ok(j)}
<1>1. 0 \in S
  <2> DEFINE F == [k \in 0 .. 0 |-> [ops |-> <<>>, threads |-> 0]]
  <2>1. F = [k \in 0 .. 0 |-> Downloaded(d, k, F)]
    BY DEF Downloaded
  <2> QED BY <2>1
<1>2. ASSUME NEW j \in 0 .. n - 1, Ok(j) PROVE Ok(j + 1)
  <2>1. PICK F : F = [k \in 0 .. j |-> Downloaded(d, k, F)]
    BY <1>2
  <2> DEFINE G == [k \in 0 .. j + 1 |-> IF k <= j THEN F[k] ELSE Downloaded(d, j + 1, F)]
  <2>2. ASSUME NEW k \in 0 .. j + 1 PROVE G[k] = Downloaded(d, k, G)
    <3>1. k - 1 \in Int /\ (k # 0 => k - 1 \in 0 .. j)
      OBVIOUS
    <3>2. k # 0 => G[k - 1] = F[k - 1]
      BY <3>1
    <3>3. Downloaded(d, k, G) = Downloaded(d, k, F)
      BY <3>2 DEF Downloaded
    <3>4. CASE k <= j
      <4>1. k \in 0 .. j /\ G[k] = F[k]
        BY <3>4
      <4>2. F[k] = Downloaded(d, k, F)
        BY <2>1, <4>1
      <4> QED BY <3>3, <4>1, <4>2
    <3>5. CASE ~(k <= j)
      <4>1. k = j + 1
        BY <3>5
      <4> QED BY <3>3, <3>5, <4>1
    <3> QED BY <3>4, <3>5
  <2>3. G = [k \in 0 .. j + 1 |-> Downloaded(d, k, G)]
    BY <2>2
  <2> QED BY <2>3
<1>3. \A j \in 0 .. n - 1 : j \in S => j + 1 \in S
  <2> HIDE DEF Ok
  <2> QED BY <1>2
<1>4. \A j \in 0 .. n : j \in S
  <2> HIDE DEF S
  <2> QED BY <1>1, <1>3, Induction
<1> QED
  BY <1>4

(* The operations of all clients, with any numbers for their threads.      *)
AllMoved(d) == UNION {{Moved(d[i][j], x) : j \in Idx(d[i]), x \in Nat} : i \in Idx(d)}

(* at[i]: where the operations of client i begin in the merged list m, and *)
(* base[i]: what its threads are moved by.                                 *)
MergedAs(d, m, base, at) ==
    /\ base \in [Idx(d) -> Nat] /\ at \in [Idx(d) -> Nat]
    /\ base[1] = 0 /\ \A i \in 1 .. Len(d) - 1 : base[i + 1] = NextThread(d[i], base[i])
    /\ at[1] = 0 /\ \A i \in 1 .. Len(d) - 1 : at[i + 1] = at[i] + Len(d[i])
    /\ Len(m) = at[Len(d)] + Len(d[Len(d)])
    /\ \A i \in Idx(d) : \A j \in Idx(d[i]) :
          /\ at[i] + j \in Idx(m)
          /\ m[at[i] + j] = Moved(d[i][j], base[i])
    /\ \A p \in Idx(m) : \E i \in Idx(d) : \E j \in Idx(d[i]) : p = at[i] + j

(* A sequence whose elements are all in U.                                 *)
LEMMA SeqOver ==
    ASSUME NEW V, NEW s \in Seq(V), NEW U, \A j \in 1 .. Len(s) : s[j] \in U
    PROVE  s \in Seq(U)
OBVIOUS

(* What the loop over the clients returns, whatever they have recorded.    *)
LEMMA MergeIs ==
    ASSUME NEW V, NEW d \in Seq(Seq(V)), d # <<>>,
           \A i \in Idx(d) : \A j \in Idx(d[i]) : IsOp(d[i][j])
    PROVE  /\ Merge(d) \in Seq(AllMoved(d))
           /\ \E base, at : MergedAs(d, Merge(d), base, at)
<1> DEFINE n == Len(d)
           F == CHOOSE G : G = [k \in 0 .. n |-> Downloaded(d, k, G)]
           U == AllMoved(d)
<1>1. n \in Nat /\ n >= 1 /\ Idx(d) = 1 .. n /\ \A i \in 1 .. n : d[i] \in Seq(V)
  BY DEF Idx
<1>0. \A i \in Idx(d) : \A j \in Idx(d[i]) : \A x \in Nat : Moved(d[i][j], x) \in U
  <2> DEFINE W(i) == {Moved(d[i][j], x) : j \in Idx(d[i]), x \in Nat}
  <2>1. \A i \in Idx(d) : \A j \in Idx(d[i]) : \A x \in Nat : Moved(d[i][j], x) \in W(i)
    OBVIOUS
  <2>2. U = UNION {W(i) : i \in Idx(d)}
    BY DEF AllMoved
  <2> HIDE DEF W, U
  <2> QED BY <2>1, <2>2
<1>2. CASE n = 1
  <2> DEFINE base == [i \in Idx(d) |-> 0]
  <2>1. Merge(d) = d[1]
    BY <1>2 DEF Merge
  <2>2. Idx(d) = {1} /\ 1 \in Idx(d)
    BY <1>1, <1>2
  <2>3. \A j \in Idx(d[1]) : Merge(d)[j] = Moved(d[1][j], 0)
    BY <2>1, <2>2, MovedIs
  <2>4. \A j \in Idx(d[1]) : 0 + j = j
    BY <1>1 DEF Idx
  <2>5. base \in [Idx(d) -> Nat] /\ base[1] = 0
    BY <2>2
  <2>6. 0 + Len(d[1]) = Len(d[1]) /\ Len(d[1]) \in Nat /\ Idx(d[1]) = 1 .. Len(d[1])
    BY <1>1 DEF Idx
  <2> HIDE DEF base
  <2>7. \A i \in Idx(d) : \A j \in Idx(d[i]) :
            base[i] + j \in Idx(Merge(d)) /\ Merge(d)[base[i] + j] = Moved(d[i][j], base[i])
    BY <2>1, <2>2, <2>3, <2>4, <2>5
  <2>8. \A p \in Idx(Merge(d)) : \E i \in Idx(d) : \E j \in Idx(d[i]) : p = base[i] + j
    BY <2>1, <2>2, <2>4, <2>5
  <2>9. /\ \A i \in 1 .. n - 1 : base[i + 1] = base[i] + Len(d[i])
        /\ \A i \in 1 .. n - 1 : base[i + 1] = NextThread(d[i], base[i])
    BY <1>2
  <2>10. Len(Merge(d)) = base[n] + Len(d[n])
    BY <1>2, <2>1, <2>5, <2>6
  <2>11. Merge(d) \in Seq(U)
    <3>1. \A j \in Idx(d[1]) : d[1][j] \in U
      BY <1>0, <2>1, <2>2, <2>3
    <3>2. d[1] \in Seq(V)
      BY <1>1
    <3> HIDE DEF U
    <3>3. d[1] \in Seq(U)
      BY <2>6, <3>1, <3>2, SeqOver
    <3> QED BY <2>1, <3>3
  <2> HIDE DEF n
  <2>12. MergedAs(d, Merge(d), base, base)
    BY <2>5, <2>7, <2>8, <2>9, <2>10 DEF MergedAs, n
  <2> QED BY <2>11, <2>12
<1>3. CASE n # 1
  <2>1. F = [k \in 0 .. n |-> Downloaded(d, k, F)]
    <3>1. \E G : G = [k \in 0 .. n |-> Downloaded(d, k, G)]
      BY <1>1, LoopExists
    <3> QED BY <3>1
  <2>2. Merge(d) = F[n].ops
    BY <1>3 DEF Merge, Downloaded
  <2> HIDE DEF F
  <2>3. F[0] = [ops |-> <<>>, threads |-> 0]
    BY <1>1, <2>1 DEF Downloaded
  <2>4. ASSUME NEW k \in 0 .. n - 1
        PROVE  /\ F[k + 1].ops = F[k].ops \o OffsetThreads(d[k + 1], F[k].threads)
               /\ F[k + 1].threads = NextThread(d[k + 1], F[k].threads)
    <3>1. k + 1 \in 0 .. n /\ k + 1 # 0 /\ (k + 1) - 1 = k
      BY <1>1
    <3>2. F[k + 1] = Downloaded(d, k + 1, F)
      BY <2>1, <3>1
    <3> DEFINE h == k + 1
               f == F[h - 1]
    <3>3. f = F[k]
      BY <3>1
    <3> HIDE DEF f, h
    <3> DEFINE both == f.ops \o OffsetThreads(d[h], f.threads)
               next == NextThread(d[h], f.threads)
    <3>4. Downloaded(d, h, F) = [ops |-> both, threads |-> next]
      BY <3>1 DEF Downloaded, h, f
    <3>5. F[h] = Downloaded(d, h, F)
      BY <3>2 DEF h
    <3>6. F[h].ops = both /\ F[h].threads = next
      <4> HIDE DEF both, next
      <4> QED BY <3>4, <3>5
    <3> QED BY <3>3, <3>6 DEF h
  <2> DEFINE Fits(k) == F[k].ops \in Seq(U) /\ F[k].threads \in Nat
             Adds(k) ==
               /\ Len(F[k + 1].ops) = Len(F[k].ops) + Len(d[k + 1])
               /\ \A p \in 1 .. Len(F[k].ops) : F[k + 1].ops[p] = F[k].ops[p]
               /\ \A j \in Idx(d[k + 1]) :
                      F[k + 1].ops[Len(F[k].ops) + j] = Moved(d[k + 1][j], F[k].threads)
  <2>5. ASSUME NEW k \in 0 .. n - 1, Fits(k) PROVE Fits(k + 1) /\ Adds(k)
    <3> DEFINE c == d[k + 1]
               x == F[k].threads
               q == OffsetThreads(c, x)
    <3>1. k + 1 \in 1 .. n /\ k + 1 \in Idx(d) /\ c \in Seq(V)
      BY <1>1
    <3>2. \A j \in Idx(c) : IsOp(c[j])
      BY <3>1
    <3>3. x \in Nat
      BY <2>5
    <3>4. \A j \in Idx(c) : Moved(c[j], x) \in U
      BY <1>0, <3>1, <3>3
    <3> HIDE DEF c, x, U
    <3>5. /\ q = [j \in 1 .. Len(c) |-> Moved(c[j], x)] /\ Len(q) = Len(c)
          /\ \A j \in Idx(c) : q[j] = Moved(c[j], x)
          /\ NextThread(c, x) \in Nat
      BY <3>1, <3>2, <3>3, Offset
    <3>6. F[k + 1].ops = F[k].ops \o q /\ F[k + 1].threads = NextThread(c, x)
      BY <2>4 DEF c, x
    <3> HIDE DEF q
    <3>7. q \in Seq(U)
      <4>1. Len(c) \in Nat /\ Idx(c) = 1 .. Len(c)
        BY <3>1 DEF Idx
      <4> DEFINE e(j) == Moved(c[j], x)
      <4>2. \A j \in 1 .. Len(c) : e(j) \in U
        BY <3>4, <4>1
      <4>3. q = [j \in 1 .. Len(c) |-> e(j)]
        BY <3>5
      <4> HIDE DEF e
      <4> QED BY <4>1, <4>2, <4>3
    <3> DEFINE a == F[k].ops
    <3>8. a \in Seq(U)
      BY <2>5
    <3> HIDE DEF a
    <3>9. /\ a \o q \in Seq(U) /\ Len(a \o q) = Len(a) + Len(q)
          /\ \A p \in 1 .. Len(a) : (a \o q)[p] = a[p]
          /\ \A j \in 1 .. Len(q) : (a \o q)[Len(a) + j] = q[j]
      BY <3>7, <3>8, Concat
    <3>10. \A j \in Idx(c) : (a \o q)[Len(a) + j] = Moved(c[j], x)
      BY <3>5, <3>9 DEF Idx
    <3>11. Fits(k + 1)
      BY <3>5, <3>6, <3>9 DEF a
    <3>12. Adds(k)
      BY <3>5, <3>6, <3>9, <3>10 DEF c, x, a
    <3> QED BY <3>11, <3>12
  <2> HIDE DEF U
  <2>6. \A k \in 0 .. n : Fits(k)
    <3> DEFINE S == {k \in 0 .. n : Fits(k)}
    <3>1. 0 \in S
      <4>1. 0 \in 0 .. n /\ <<>> \in Seq(U)
        BY <1>1
      <4>2. F[0].ops = <<>> /\ F[0].threads = 0
        BY <2>3
      <4>3. Fits(0)
        BY <4>1, <4>2
      <4> HIDE DEF Fits
      <4> QED BY <4>1, <4>3
    <3>2. \A k \in 0 .. n - 1 : k \in S => k + 1 \in S
      <4> HIDE DEF Fits, Adds
      <4>1. \A k \in 0 .. n - 1 : k + 1 \in 0 .. n
        BY <1>1
      <4> QED BY <2>5, <4>1
    <3>3. \A k \in 0 .. n : k \in S
      <4> HIDE DEF S
      <4> QED BY <1>1, <3>1, <3>2, Induction
    <3> QED BY <3>3
  <2>7. \A k \in 0 .. n - 1 : Adds(k)
    <3> HIDE DEF Fits, Adds
    <3>1. \A k \in 0 .. n - 1 : k \in 0 .. n
      BY <1>1
    <3> QED BY <2>5, <2>6, <3>1
  <2>8. \A k \in 0 .. n : Len(F[k].ops) \in Nat /\ F[k].threads \in Nat
    BY <2>6
  <2> DEFINE base == [i \in Idx(d) |-> F[i - 1].threads]
             at == [i \in Idx(d) |-> Len(F[i - 1].ops)]
             Placed(k) == \A i \in 1 .. k : \A j \in Idx(d[i]) :
                /\ Len(F[i - 1].ops) + j \in 1 .. Len(F[k].ops)
                /\ F[k].ops[Len(F[i - 1].ops) + j] = Moved(d[i][j], F[i - 1].threads)
             Covered(k) == \A p \in 1 .. Len(F[k].ops) :
                \E i \in 1 .. k : \E j \in Idx(d[i]) : p = Len(F[i - 1].ops) + j
  <2> HIDE DEF Fits
  <2>9. ASSUME NEW k \in 0 .. n - 1
        PROVE  /\ Len(F[k].ops) \in Nat /\ Len(F[k + 1].ops) = Len(F[k].ops) + Len(d[k + 1])
               /\ Len(d[k + 1]) \in Nat /\ Idx(d[k + 1]) = 1 .. Len(d[k + 1])
    <3>1. k \in 0 .. n /\ k + 1 \in 1 .. n
      BY <1>1
    <3>2. d[k + 1] \in Seq(V)
      BY <1>1, <3>1
    <3>3. Len(F[k + 1].ops) = Len(F[k].ops) + Len(d[k + 1])
      BY <2>7
    <3> QED BY <2>8, <3>1, <3>2, <3>3 DEF Idx
  <2>10. ASSUME NEW k \in 0 .. n - 1, Placed(k) PROVE Placed(k + 1)
    <3> DEFINE u == Len(F[k].ops)
               v == Len(F[k + 1].ops)
               w == Len(d[k + 1])
    <3>1. u \in Nat /\ w \in Nat /\ v = u + w /\ Idx(d[k + 1]) = 1 .. w
      BY <2>9
    <3>2. \A p \in 1 .. u : F[k + 1].ops[p] = F[k].ops[p]
      BY <2>7
    <3>3. \A j \in Idx(d[k + 1]) : F[k + 1].ops[u + j] = Moved(d[k + 1][j], F[k].threads)
      BY <2>7
    <3> HIDE DEF u, v, w
    <3>4. /\ \A p \in 1 .. u : p \in 1 .. v
          /\ \A j \in Idx(d[k + 1]) : u + j \in 1 .. v
      BY <3>1
    <3> SUFFICES ASSUME NEW i \in 1 .. k + 1, NEW j \in Idx(d[i])
                 PROVE  /\ Len(F[i - 1].ops) + j \in 1 .. v
                        /\ F[k + 1].ops[Len(F[i - 1].ops) + j] = Moved(d[i][j], F[i - 1].threads)
      BY DEF v
    <3>5. CASE i = k + 1
      <4>1. i - 1 = k
        BY <3>5
      <4> QED BY <3>3, <3>4, <3>5, <4>1 DEF u
    <3>6. CASE i # k + 1
      <4>1. i \in 1 .. k
        BY <3>6
      <4>2. /\ Len(F[i - 1].ops) + j \in 1 .. u
            /\ F[k].ops[Len(F[i - 1].ops) + j] = Moved(d[i][j], F[i - 1].threads)
        BY <2>10, <4>1 DEF u
      <4> QED BY <3>2, <3>4, <4>2
    <3> QED BY <3>5, <3>6
  <2>11. ASSUME NEW k \in 0 .. n - 1, Covered(k) PROVE Covered(k + 1)
    <3> DEFINE u == Len(F[k].ops)
               v == Len(F[k + 1].ops)
               w == Len(d[k + 1])
    <3>1. u \in Nat /\ w \in Nat /\ v = u + w /\ Idx(d[k + 1]) = 1 .. w
      BY <2>9
    <3>2. \A p \in 1 .. u : \E i \in 1 .. k : \E j \in Idx(d[i]) : p = Len(F[i - 1].ops) + j
      BY <2>11
    <3>3. (k + 1) - 1 = k /\ k + 1 \in 1 .. k + 1 /\ \A i \in 1 .. k : i \in 1 .. k + 1
      OBVIOUS
    <3> HIDE DEF u, v, w
    <3> SUFFICES ASSUME NEW p \in 1 .. v
                 PROVE  \E i \in 1 .. k + 1 : \E j \in Idx(d[i]) : p = Len(F[i - 1].ops) + j
      BY DEF v
    <3>4. CASE p <= u
      <4>1. p \in 1 .. u
        BY <3>1, <3>4
      <4> QED BY <3>2, <3>3, <4>1
    <3>5. CASE ~(p <= u)
      <4>1. p - u \in 1 .. w /\ p = u + (p - u)
        BY <3>1, <3>5
      <4> DEFINE j == p - u
      <4>2. j \in Idx(d[k + 1]) /\ p = u + j
        BY <3>1, <4>1
      <4> HIDE DEF j
      <4>3. u = Len(F[(k + 1) - 1].ops)
        BY <3>3 DEF u
      <4> QED BY <3>3, <4>2, <4>3
    <3> QED BY <3>4, <3>5
  <2>12. \A k \in 0 .. n : Placed(k) /\ Covered(k)
    <3> DEFINE S == {k \in 0 .. n : Placed(k) /\ Covered(k)}
    <3>1. 0 \in S
      <4>1. Len(F[0].ops) = 0 /\ 0 \in 0 .. n
        BY <1>1, <2>3
      <4> QED BY <4>1
    <3>2. \A k \in 0 .. n - 1 : k \in S => k + 1 \in S
      <4> HIDE DEF Placed, Covered
      <4>1. \A k \in 0 .. n - 1 : k + 1 \in 0 .. n
        BY <1>1
      <4> QED BY <2>10, <2>11, <4>1
    <3>3. \A k \in 0 .. n : k \in S
      <4> HIDE DEF S
      <4> QED BY <1>1, <3>1, <3>2, Induction
    <3> QED BY <3>3
  <2>13. n \in 0 .. n
    BY <1>1
  <2>14. Placed(n) /\ Covered(n)
    <3> HIDE DEF Placed, Covered
    <3> QED BY <2>12, <2>13
  <2>15. /\ base \in [Idx(d) -> Nat] /\ at \in [Idx(d) -> Nat]
         /\ \A i \in Idx(d) : base[i] = F[i - 1].threads /\ at[i] = Len(F[i - 1].ops)
    <3>1. \A i \in Idx(d) : i - 1 \in 0 .. n
      BY <1>1
    <3> QED BY <2>8, <3>1
  <2> HIDE DEF base, at
  <2>16. base[1] = 0 /\ at[1] = 0
    <3>1. 1 \in Idx(d) /\ 1 - 1 = 0
      BY <1>1
    <3> QED BY <2>3, <2>15, <3>1
  <2>17. \A i \in 1 .. n - 1 :
            base[i + 1] = NextThread(d[i], base[i]) /\ at[i + 1] = at[i] + Len(d[i])
    <3> SUFFICES ASSUME NEW i \in 1 .. n - 1
                 PROVE  base[i + 1] = NextThread(d[i], base[i]) /\ at[i + 1] = at[i] + Len(d[i])
      OBVIOUS
    <3>1. /\ i \in Idx(d) /\ i + 1 \in Idx(d) /\ i - 1 \in 0 .. n - 1
          /\ (i - 1) + 1 = i /\ (i + 1) - 1 = i
      BY <1>1
    <3>2. Len(F[(i - 1) + 1].ops) = Len(F[i - 1].ops) + Len(d[(i - 1) + 1])
      BY <2>7, <3>1
    <3>3. F[(i - 1) + 1].threads = NextThread(d[(i - 1) + 1], F[i - 1].threads)
      BY <2>4, <3>1
    <3> QED BY <2>15, <3>1, <3>2, <3>3
  <2>18. Len(Merge(d)) = at[n] + Len(d[n])
    <3>1. n \in Idx(d) /\ n - 1 \in 0 .. n - 1 /\ (n - 1) + 1 = n
      BY <1>1
    <3>2. Len(F[(n - 1) + 1].ops) = Len(F[n - 1].ops) + Len(d[(n - 1) + 1])
      BY <2>7, <3>1
    <3> QED BY <2>2, <2>15, <3>1, <3>2
  <2>19. Idx(Merge(d)) = 1 .. Len(F[n].ops)
    BY <2>2 DEF Idx
  <2>20. \A i \in Idx(d) : \A j \in Idx(d[i]) :
            at[i] + j \in Idx(Merge(d)) /\ Merge(d)[at[i] + j] = Moved(d[i][j], base[i])
    <3> SUFFICES ASSUME NEW i \in Idx(d), NEW j \in Idx(d[i])
                 PROVE  at[i] + j \in Idx(Merge(d)) /\ Merge(d)[at[i] + j] = Moved(d[i][j], base[i])
      OBVIOUS
    <3>1. /\ Len(F[i - 1].ops) + j \in 1 .. Len(F[n].ops)
          /\ F[n].ops[Len(F[i - 1].ops) + j] = Moved(d[i][j], F[i - 1].threads)
      BY <1>1, <2>14
    <3> QED BY <2>2, <2>15, <2>19, <3>1
  <2>21. \A p \in Idx(Merge(d)) : \E i \in Idx(d) : \E j \in Idx(d[i]) : p = at[i] + j
    <3> SUFFICES ASSUME NEW p \in Idx(Merge(d))
                 PROVE  \E i \in Idx(d) : \E j \in Idx(d[i]) : p = at[i] + j
      OBVIOUS
    <3>1. PICK i \in 1 .. n : \E j \in Idx(d[i]) : p = Len(F[i - 1].ops) + j
      BY <2>14, <2>19
    <3>2. i \in Idx(d) /\ at[i] = Len(F[i - 1].ops)
      BY <1>1, <2>15
    <3> QED BY <3>1, <3>2
  <2>22. Merge(d) \in Seq(U)
    BY <2>2, <2>6, <2>13 DEF Fits
  <2> HIDE DEF n, Placed, Covered, Adds
  <2>23. MergedAs(d, Merge(d), base, at)
    BY <2>15, <2>16, <2>17, <2>18, <2>20, <2>21 DEF MergedAs, n
  <2> QED BY <2>22, <2>23 DEF U
<1> QED BY <1>2, <1>3

(* The operations of clients that each use at most M threads are merged    *)
(* (runServerBenchmark, cli/benchserver.go) and the threads of each client *)
(* get numbers of their own, beyond those of the clients before it.  A     *)
(* client without operations would reset the numbers: only the last one    *)
(* may be without.                                                         *)
THEOREM MergeKeepsApart ==
    ASSUME NEW V, NEW d \in Seq(Seq(V)), d # <<>>,
           NEW M \in Nat, Len(d) * M < 2 ^ 16,
           \A i \in Idx(d) : \A j \in Idx(d[i]) : IsOp(d[i][j]) /\ d[i][j].thread < M,
           \A i \in 1 .. Len(d) - 1 : d[i] # <<>>
    PROVE  \E base, at :
               /\ MergedAs(d, Merge(d), base, at)
               /\ \A i \in Idx(d) : \A j \in Idx(d[i]) :
                      Merge(d)[at[i] + j].thread = d[i][j].thread + base[i]
               /\ \A i, k \in Idx(d) : i < k =>
                      \A j \in Idx(d[i]) : d[i][j].thread + base[i] < base[k]
<1> DEFINE n == Len(d)
<1>1. n \in Nat /\ n >= 1 /\ Idx(d) = 1 .. n /\ \A i \in 1 .. n : d[i] \in Seq(V)
  BY DEF Idx
<1>2. 2 ^ 16 = 65536
  OBVIOUS
<1>3. PICK base, at : MergedAs(d, Merge(d), base, at)
  BY MergeIs
<1>4. /\ \A i \in 1 .. n : base[i] \in Nat
      /\ base[1] = 0 /\ \A i \in 1 .. n - 1 : base[i + 1] = NextThread(d[i], base[i])
      /\ \A i \in Idx(d) : \A j \in Idx(d[i]) : Merge(d)[at[i] + j] = Moved(d[i][j], base[i])
  BY <1>1, <1>3 DEF MergedAs
<1>5. \A i \in Idx(d) : \A j \in Idx(d[i]) :
         IsOp(d[i][j]) /\ d[i][j].thread < M /\ d[i][j].thread \in Nat
  BY ThreadFits
<1> DEFINE Low(i) == base[i] <= (i - 1) * M
           Apart(k) == \A i \in 1 .. k - 1 : \A j \in Idx(d[i]) : d[i][j].thread + base[i] < base[k]
<1> HIDE DEF n
<1>6. ASSUME NEW k \in 1 .. n, Low(k) PROVE base[k] \in Nat /\ base[k] + M < 65536
  <2>1. base[k] \in Nat /\ k - 1 \in Nat /\ k \in 0 .. n
    BY <1>1, <1>4
  <2>2. k * M \in Nat /\ k * M <= n * M
    BY <1>1, <2>1, TimesMonotone
  <2>3. (k - 1) * M \in Nat /\ (k - 1) * M + M = k * M
    BY <2>1
  <2> DEFINE x == (k - 1) * M
             y == k * M
             z == n * M
             b == base[k]
  <2>4. /\ b \in Nat /\ x \in Nat /\ y \in Nat /\ z \in Int
        /\ b <= x /\ x + M = y /\ y <= z /\ z < 65536
    BY <1>1, <1>2, <1>6, <2>1, <2>2, <2>3 DEF n
  <2> HIDE DEF x, y, z, b
  <2>5. b \in Nat /\ b + M < 65536
    BY <2>4
  <2> QED BY <2>5 DEF b
<1>7. ASSUME NEW k \in 1 .. n - 1, Low(k), Apart(k) PROVE Low(k + 1) /\ Apart(k + 1)
  <2>1. k \in 1 .. n /\ k \in Idx(d) /\ (k + 1) - 1 = k /\ k - 1 \in Nat
    BY <1>1
  <2>2. base[k] \in Nat /\ base[k] + M < 2 ^ 16
    BY <1>2, <1>6, <1>7, <2>1
  <2> DEFINE o == d[k]
             m == base[k]
  <2>3. o \in Seq(V) /\ o # <<>> /\ \A j \in Idx(o) : IsOp(o[j]) /\ o[j].thread < M
    BY <1>1, <1>5, <2>1 DEF n
  <2>4. base[k + 1] = NextThread(o, m)
    BY <1>4
  <2>5. m \in Nat /\ m + M < 2 ^ 16
    BY <2>2
  <2> HIDE DEF o, m
  <2>6. NextThread(o, m) <= m + M /\ \A j \in Idx(o) : o[j].thread + m < NextThread(o, m)
    BY <2>3, <2>5, NextIsFree
  <2>7. base[k + 1] \in Nat
    <3>1. k + 1 \in 1 .. n
      BY <1>1
    <3> QED BY <1>4, <3>1
  <2>8. (k - 1) * M \in Nat /\ (k - 1) * M + M = k * M
    BY <2>1
  <2>9. Low(k + 1)
    <3> DEFINE x == (k - 1) * M
               y == k * M
               b == base[k + 1]
    <3>1. b <= m + M /\ m <= x /\ x + M = y /\ b \in Nat /\ x \in Nat /\ m \in Nat
      BY <1>7, <2>4, <2>5, <2>6, <2>7, <2>8 DEF m
    <3>2. ((k + 1) - 1) * M = y
      BY <2>1
    <3> HIDE DEF x, y, b
    <3>3. b <= y
      BY <3>1
    <3> QED BY <3>2, <3>3 DEF b
  <2>10. ASSUME NEW i \in 1 .. k, NEW j \in Idx(d[i])
         PROVE  d[i][j].thread + base[i] < base[k + 1]
    <3>1. CASE i = k
      BY <2>4, <2>6, <3>1 DEF o, m
    <3>2. CASE i # k
      <4>1. i \in 1 .. k - 1 /\ i \in Idx(d) /\ i \in 1 .. n
        BY <1>1, <3>2
      <4>2. d[i][j].thread + base[i] < m
        BY <1>7, <4>1 DEF m
      <4>3. PICK h \in Idx(o) : h = 1
        BY <2>3 DEF Idx
      <4>4. o[h].thread \in Nat /\ o[h].thread + m < base[k + 1]
        BY <2>3, <2>4, <2>6, ThreadFits
      <4>5. d[i][j].thread \in Nat /\ base[i] \in Nat
        BY <1>4, <1>5, <4>1
      <4> DEFINE t == d[i][j].thread
                 b == base[i]
                 y == o[h].thread
                 z == base[k + 1]
      <4>6. t \in Nat /\ b \in Nat /\ t + b < m
        BY <4>2, <4>5
      <4>7. y \in Nat /\ z \in Nat /\ y + m < z
        BY <2>7, <4>4
      <4>8. t + b < z
        <5> HIDE DEF t, b, y, z
        <5> QED BY <2>5, <4>6, <4>7
      <4> QED BY <4>8
    <3> QED BY <3>1, <3>2
  <2> QED BY <2>1, <2>9, <2>10
<1>8. \A k \in 1 .. n : Low(k) /\ Apart(k)
  <2> DEFINE S == {k \in 0 .. n - 1 : Low(k + 1) /\ Apart(k + 1)}
  <2>1. 0 \in S
    <3>1. base[0 + 1] = 0 /\ (0 + 1) - 1 = 0 /\ 0 * M = 0 /\ 0 \in 0 .. n - 1
      BY <1>1, <1>4
    <3> QED BY <3>1
  <2>2. \A k \in 0 .. (n - 1) - 1 : k \in S => k + 1 \in S
    <3>1. \A k \in 0 .. (n - 1) - 1 : k + 1 \in 1 .. n - 1 /\ k + 1 \in 0 .. n - 1
      BY <1>1
    <3> HIDE DEF Low, Apart
    <3> QED BY <1>7, <3>1
  <2>3. \A k \in 0 .. n - 1 : k \in S
    <3>1. n - 1 \in Nat
      BY <1>1
    <3> HIDE DEF S
    <3> QED BY <2>1, <2>2, <3>1, Induction
  <2>4. \A k \in 1 .. n : k - 1 \in 0 .. n - 1 /\ (k - 1) + 1 = k
    BY <1>1
  <2> HIDE DEF Low, Apart
  <2>5. \A k \in 0 .. n - 1 : Low(k + 1) /\ Apart(k + 1)
    BY <2>3
  <2> QED BY <2>4, <2>5
<1>9. \A i \in Idx(d) : \A j \in Idx(d[i]) :
         Merge(d)[at[i] + j].thread = d[i][j].thread + base[i]
  <2> SUFFICES ASSUME NEW i \in Idx(d), NEW j \in Idx(d[i])
               PROVE  Merge(d)[at[i] + j].thread = d[i][j].thread + base[i]
    OBVIOUS
  <2>1. Low(i)
    BY <1>1, <1>8
  <2>2. base[i] \in Nat /\ base[i] + M < 65536
    BY <1>1, <1>6, <2>1
  <2>3. IsOp(d[i][j]) /\ d[i][j].thread < M /\ d[i][j].thread \in Nat
    BY <1>5
  <2>4. d[i][j].thread + base[i] < 2 ^ 16
    <3> DEFINE x == d[i][j].thread
               b == base[i]
    <3>1. x \in Nat /\ x < M /\ b \in Nat /\ b + M < 65536
      BY <2>2, <2>3
    <3>2. x + b < 65536
      <4> HIDE DEF x, b
      <4> QED BY <3>1
    <3> QED BY <1>2, <3>2
  <2>5. Moved(d[i][j], base[i]).thread = d[i][j].thread + base[i]
    <3> DEFINE op == d[i][j]
               b == base[i]
    <3>1. IsOp(op) /\ b \in Nat /\ op.thread + b < 2 ^ 16
      BY <2>2, <2>3, <2>4
    <3> HIDE DEF op, b
    <3>2. Moved(op, b).thread = op.thread + b
      BY <3>1, MovedFits
    <3> QED BY <3>2 DEF op, b
  <2> QED BY <1>4, <2>5
<1>10. \A i, k \in Idx(d) : i < k => \A j \in Idx(d[i]) : d[i][j].thread + base[i] < base[k]
  <2> SUFFICES ASSUME NEW i \in Idx(d), NEW k \in Idx(d), i < k, NEW j \in Idx(d[i])
               PROVE  d[i][j].thread + base[i] < base[k]
    OBVIOUS
  <2>1. i \in 1 .. k - 1 /\ k \in 1 .. n
    BY <1>1
  <2>2. Apart(k)
    BY <1>8, <2>1
  <2> QED BY <2>1, <2>2
<1> QED BY <1>3, <1>9, <1>10
-----------------------------------------------------------------------------
(* What the clients record: operations that end when they begin or later.  *)
RecordedOps ==
    {op \in [type : {k.type : k \in Kinds}, start : Nat, end : Nat, fb : Nat \cup {NoTime},
             err : {k.err : k \in Kinds}, size : {k.size : k \in Kinds},
             file : {k.file : k \in Kinds}, thread : 0 .. T - 1, client : 1 .. N,
             host : {k.host : k \in Kinds}] :
        op.start <= op.end}

(* The inductive invariant of Analysis.                                    *)
AInv ==
    /\ got \in [1 .. N -> Seq(RecordedOps)]
    /\ pc = "merged" => ops = SortByStartTime(Merge(got))

(* A recorded operation is one that the merge can move.                    *)
LEMMA RecordedIs ==
    ASSUME NEW op \in RecordedOps
    PROVE  Times(op) /\ IsOp(op) /\ op.thread \in Nat /\ op.thread < T
<1>1. 2 ^ 16 = 65536
  OBVIOUS
<1>2. T \in Nat /\ T <= 65536
  BY <1>1, AnalysisAssumption
<1>3. op.thread \in 0 .. T - 1 /\ op.start \in Nat /\ op.end \in Nat /\ op.start <= op.end
  BY DEF RecordedOps
<1>4. op.thread \in Nat /\ op.thread < T /\ op.thread < 65536
  BY <1>2, <1>3
<1>5. op = [f \in DOMAIN op |-> op[f]] /\ "thread" \in DOMAIN op
  BY DEF RecordedOps
<1> QED BY <1>1, <1>3, <1>4, <1>5 DEF Times, IsOp

(* An operation takes some ticks.                                          *)
LEMMA TicksMonotone ==
    ASSUME NEW a \in Nat, NEW d \in Nat, NEW m \in Nat
    PROVE  a * m \in Nat /\ (a + d) * m \in Nat /\ a * m <= (a + d) * m
OBVIOUS

(* A recorded operation is added to those of its client.                   *)
LEMMA RecordKeeps ==
    ASSUME NEW i \in 1 .. N, NEW t \in 0 .. T - 1, NEW k \in Kinds,
           NEW start \in Nat, NEW end \in Nat, start <= end,
           got \in [1 .. N -> Seq(RecordedOps)], Record(i, t, k, start, end)
    PROVE  got' \in [1 .. N -> Seq(RecordedOps)]
<1> DEFINE fb == IF k.fb THEN (start + end) \div 2 ELSE NoTime
           op == [type |-> k.type, start |-> start, end |-> end, fb |-> fb,
                  err |-> k.err, size |-> k.size, file |-> k.file,
                  thread |-> t, client |-> i, host |-> k.host]
<1>1. fb \in Nat \cup {NoTime}
  OBVIOUS
<1>2. got' = [got EXCEPT ![i] = Append(@, op)]
  BY DEF Record
<1> HIDE DEF fb
<1>3. op \in RecordedOps
  BY <1>1 DEF RecordedOps
<1> HIDE DEF op
<1> DEFINE R == RecordedOps
<1>4. op \in R /\ got \in [1 .. N -> Seq(R)]
  BY <1>3
<1> HIDE DEF R
<1>5. Append(got[i], op) \in Seq(R)
  BY <1>4
<1>6. got' \in [1 .. N -> Seq(R)]
  BY <1>2, <1>4, <1>5
<1> QED BY <1>6 DEF R

(* The operations of the clients stay what the clients recorded, and the   *)
(* merged operations are those, in the order of their starts               *)
(* (runServerBenchmark, cli/benchserver.go).                               *)
LEMMA MergedFromClients == Spec => []AInv
<1>1. Init => AInv
  BY DEF Init, AInv
<1>2. AInv /\ [Next]_vars => AInv'
  <2> SUFFICES ASSUME AInv, [Next]_vars PROVE AInv'
    OBVIOUS
  <2>1. got \in [1 .. N -> Seq(RecordedOps)] /\ (pc = "merged" => ops = SortByStartTime(Merge(got)))
    BY DEF AInv
  <2>2. ASSUME NEW i \in 1 .. N, NEW t \in 0 .. T - 1, NEW k \in Kinds,
               NEW a \in 1 .. MaxTick, NEW d \in Lengths, Record(i, t, k, a * Tick, (a + d) * Tick)
        PROVE  AInv'
    <3>1. a \in Nat /\ d \in Nat /\ Tick \in Nat
      BY AnalysisAssumption
    <3>2. a * Tick \in Nat /\ (a + d) * Tick \in Nat /\ a * Tick <= (a + d) * Tick
      BY <3>1, TicksMonotone
    <3>3. got' \in [1 .. N -> Seq(RecordedOps)]
      BY <2>1, <2>2, <3>2, RecordKeeps
    <3>4. pc' # "merged"
      BY <2>2 DEF Record
    <3> QED BY <3>3, <3>4 DEF AInv, RecordedOps
  <2>3. CASE MergeAll
    BY <2>1, <2>3 DEF MergeAll, AInv
  <2>4. ASSUME NEW f \in Flags, Analyze(f) \/ AnalyzeFile(f) PROVE AInv'
    BY <2>1, <2>4 DEF Analyze, AnalyzeFile, Report, AInv
  <2>5. CASE UNCHANGED vars
    BY <2>1, <2>5 DEF vars, AInv
  <2> QED BY <2>2, <2>3, <2>4, <2>5 DEF Next
<1> QED BY <1>1, <1>2, PTL DEF Spec

(* What is one-to-one to a part of some positions has no more elements.    *)
LEMMA PartCounts ==
    ASSUME NEW n \in Nat, NEW S \in SUBSET (1 .. n), NEW a \in Nat, NEW b \in Nat, a <= b + 1,
           NEW g \in [a .. b -> S], \A k, l \in a .. b : k # l => g[k] # g[l]
    PROVE  Cardinality(S) \in Nat /\ b - a + 1 <= Cardinality(S)
<1>1. /\ 1 \in Int /\ n \in Int /\ a \in Int /\ b \in Int
      /\ (IF a > b THEN 0 ELSE b - a + 1) = b - a + 1
  OBVIOUS
<1>2. IsFiniteSet(1 .. n)
  BY <1>1, FS_Interval, Zenon
<1>3. IsFiniteSet(S)
  BY <1>2, FS_Subset, Zenon
<1>4. g \in Injection(a .. b, S)
  BY DEF Injection, IsInjective
<1>5. Cardinality(a .. b) <= Cardinality(S)
  BY <1>3, <1>4, FS_Injection, Zenon
<1>6. Cardinality(a .. b) = IF a > b THEN 0 ELSE b - a + 1
  BY <1>1, FS_Interval, Zenon
<1>7. Cardinality(S) \in Nat
  BY <1>3, FS_CardinalityType
<1> QED BY <1>1, <1>5, <1>6, <1>7

(* A percentile of the durations is a duration some request had, that      *)
(* share of the requests took no longer and the rest no less, up to half a *)
(* request of rounding (Median, pkg/bench/ops.go).                         *)
THEOREM PercentileCovers ==
    ASSUME NEW V, NEW o \in Seq(V), o # <<>>, Timed(o), NEW p \in 0 .. 100
    PROVE  LET dur == Dur(Median(SortByDuration(o), p))
           IN  /\ \E i \in Idx(o) : Dur(o[i]) = dur
               /\ 100 * Cardinality({i \in Idx(o) : Dur(o[i]) <= dur}) >= p * Len(o)
               /\ 100 * Cardinality({i \in Idx(o) : Dur(o[i]) >= dur})
                      >= (100 - p) * Len(o) - 50
<1> DEFINE n == Len(o)
           I == Idx(o)
           key == [i \in I |-> Dur(o[i])]
           s == Arranged(o, I, key)
           m == MedianIdx(n, p)
           dur == Dur(Median(SortByDuration(o), p))
           faster == {i \in I : Dur(o[i]) <= dur}
           slower == {i \in I : Dur(o[i]) >= dur}
<1>1. n \in Nat \ {0} /\ I = 1 .. n
  BY DEF Idx
<1>2. \A i \in I : Dur(o[i]) \in Int /\ key[i] = Dur(o[i])
  BY DEF Timed, Times, Dur
<1>3. Len(s) = n /\ \E q : Orders(q, n, o, I, key)
  <2>1. \A i \in Idx(o) : key[i] \in Int
    BY <1>2
  <2> HIDE DEF key
  <2> QED BY <2>1, SortedIs
<1>4. PICK q : Orders(q, n, o, I, key)
  BY <1>3
<1>5. dur = Dur(s[m])
  BY <1>3 DEF Median, SortByDuration
<1> HIDE DEF key, s, dur, I, n, m
<1>6. /\ q \in [1 .. n -> I] /\ s = [k \in 1 .. n |-> o[q[k]]]
      /\ \A k, l \in 1 .. n : k # l => q[k] # q[l]
      /\ \A k, l \in 1 .. n : k <= l => key[q[k]] <= key[q[l]]
  BY <1>4 DEF Orders, s
<1>7. m \in 1 .. n /\ 100 * m >= p * n /\ 100 * (n - m + 1) >= (100 - p) * n - 50
  BY <1>1, MedianIndex DEF m
<1>8. q[m] \in I /\ dur = Dur(o[q[m]])
  BY <1>5, <1>6, <1>7
<1>9. \A k \in 1 .. n : q[k] \in I /\ key[q[k]] = Dur(o[q[k]])
  BY <1>2, <1>6
<1>10. m <= Cardinality(faster) /\ Cardinality(faster) \in Nat
  <2> DEFINE g == [k \in 1 .. m |-> q[k]]
  <2>1. \A k \in 1 .. m : k \in 1 .. n /\ k <= m
    BY <1>1, <1>7
  <2>2. \A k \in 1 .. m : q[k] \in faster
    BY <1>6, <1>7, <1>8, <1>9, <2>1
  <2>3. faster \in SUBSET (1 .. n)
    BY <1>1
  <2> HIDE DEF faster
  <2>4. g \in [1 .. m -> faster] /\ \A k, l \in 1 .. m : k # l => g[k] # g[l]
    BY <1>6, <2>1, <2>2
  <2>5. m \in Nat /\ 1 \in Nat /\ 1 <= m + 1 /\ n \in Nat
    BY <1>1, <1>7
  <2> HIDE DEF g
  <2>6. Cardinality(faster) \in Nat /\ m - 1 + 1 <= Cardinality(faster)
    BY <2>3, <2>4, <2>5, PartCounts
  <2> QED BY <2>5, <2>6
<1>11. n - m + 1 <= Cardinality(slower) /\ Cardinality(slower) \in Nat
  <2> DEFINE g == [k \in m .. n |-> q[k]]
  <2>1. \A k \in m .. n : k \in 1 .. n /\ m <= k
    BY <1>1, <1>7
  <2>2. \A k \in m .. n : q[k] \in slower
    <3> SUFFICES ASSUME NEW k \in m .. n PROVE q[k] \in slower
      OBVIOUS
    <3>1. key[q[m]] <= key[q[k]] /\ q[k] \in I
      BY <1>6, <1>7, <2>1
    <3>2. Dur(o[q[k]]) \in Int /\ dur \in Int /\ dur <= Dur(o[q[k]])
      BY <1>2, <1>8, <3>1
    <3> QED BY <3>1, <3>2
  <2>3. slower \in SUBSET (1 .. n)
    BY <1>1
  <2> HIDE DEF slower
  <2>4. g \in [m .. n -> slower] /\ \A k, l \in m .. n : k # l => g[k] # g[l]
    BY <1>6, <2>1, <2>2
  <2>5. m \in Nat /\ n \in Nat /\ m <= n + 1
    BY <1>1, <1>7
  <2> HIDE DEF g
  <2> QED BY <2>3, <2>4, <2>5, PartCounts
<1>12. 100 * Cardinality(faster) >= p * n
  <2> DEFINE c == Cardinality(faster)
             x == p * n
  <2>1. x \in Int
    BY <1>1
  <2>2. 100 * m >= x /\ m <= c /\ c \in Nat /\ m \in Nat
    BY <1>1, <1>7, <1>10
  <2> HIDE DEF c, x
  <2>3. 100 * c >= x
    BY <2>1, <2>2
  <2> QED BY <2>3 DEF c, x
<1>13. 100 * Cardinality(slower) >= (100 - p) * n - 50
  <2> DEFINE c == Cardinality(slower)
             x == (100 - p) * n
  <2>1. x \in Int
    BY <1>1
  <2>2. /\ 100 * (n - m + 1) >= x - 50 /\ n - m + 1 <= c
        /\ c \in Nat /\ m \in Nat /\ n \in Nat
    BY <1>1, <1>7, <1>11
  <2> HIDE DEF c, x
  <2>3. 100 * c >= x - 50
    BY <2>1, <2>2
  <2> QED BY <2>3 DEF c, x
<1> QED BY <1>8, <1>12, <1>13 DEF dur, I, n

(* Sorting by the start keeps the operations.                              *)
LEMMA StartsSorted ==
    ASSUME NEW V, NEW o \in Seq(V), Timed(o)
    PROVE  /\ SortByStartTime(o) \in Seq(V) /\ Len(SortByStartTime(o)) = Len(o)
           /\ Timed(SortByStartTime(o))
           /\ \A k \in Idx(SortByStartTime(o)) : \E i \in Idx(o) : SortByStartTime(o)[k] = o[i]
           /\ \A i \in Idx(o) : \E k \in Idx(SortByStartTime(o)) : SortByStartTime(o)[k] = o[i]
<1> DEFINE key == [i \in Idx(o) |-> o[i].start]
           s == SortByStartTime(o)
           n == Len(o)
           I == Idx(o)
<1>1. \A i \in I : key[i] \in Int
  BY DEF Timed, Times
<1>2. s = Arranged(o, I, key)
  BY DEF SortByStartTime
<1> HIDE DEF key, s
<1>3. /\ s \in Seq(V) /\ Len(s) = n /\ \E q : Orders(q, n, o, I, key)
  BY <1>1, <1>2, SortedIs
<1>4. PICK q : Orders(q, n, o, I, key)
  BY <1>3
<1>5. n \in Nat /\ I = 1 .. n /\ Idx(s) = I
  BY <1>3 DEF Idx
<1> HIDE DEF I, n
<1>6. /\ q \in [1 .. n -> I] /\ s = [k \in 1 .. n |-> o[q[k]]]
      /\ \A i \in I : \E k \in 1 .. n : q[k] = i
  BY <1>2, <1>4 DEF Orders
<1>7. \A k \in I : \E i \in I : s[k] = o[i]
  BY <1>5, <1>6
<1>8. \A i \in I : \E k \in I : s[k] = o[i]
  BY <1>5, <1>6
<1>9. Timed(s)
  BY <1>5, <1>7 DEF Timed, I
<1> QED BY <1>3, <1>5, <1>7, <1>8, <1>9 DEF s, I, n

(* What is merged is timed.                                                *)
LEMMA MergedTimed ==
    ASSUME got \in [1 .. N -> Seq(RecordedOps)]
    PROVE  /\ got \in Seq(Seq(RecordedOps)) /\ got # <<>> /\ Len(got) = N /\ Idx(got) = 1 .. N
           /\ \A i \in Idx(got) : \A j \in Idx(got[i]) : got[i][j] \in RecordedOps
           /\ Merge(got) \in Seq(AllMoved(got))
           /\ Timed(Merge(got))
<1> DEFINE R == RecordedOps
<1>0. N \in Nat \ {0}
  BY AnalysisAssumption
<1>1. /\ got \in Seq(Seq(R)) /\ got # <<>> /\ Len(got) = N /\ Idx(got) = 1 .. N
      /\ \A i \in Idx(got) : \A j \in Idx(got[i]) : got[i][j] \in R
  <2> HIDE DEF R
  <2> QED BY <1>0 DEF Idx, R
<1>2. \A op \in R : IsOp(op) /\ Times(op)
  BY RecordedIs
<1>3. \A op \in R : {"start", "end"} \subseteq DOMAIN op
  BY DEF RecordedOps
<1> HIDE DEF R
<1>4. \A i \in Idx(got) : \A j \in Idx(got[i]) : IsOp(got[i][j])
  BY <1>1, <1>2
<1>5. Merge(got) \in Seq(AllMoved(got))
  BY <1>1, <1>4, MergeIs
<1>6. ASSUME NEW op \in R, NEW x \in Nat PROVE Times(Moved(op, x))
  <2>1. IsOp(op) /\ Times(op) /\ {"start", "end"} \subseteq DOMAIN op
    BY <1>2, <1>3
  <2>2. \A f \in DOMAIN op : f # "thread" => Moved(op, x)[f] = op[f]
    BY <2>1, MovedIs
  <2>3. Moved(op, x).start = op.start /\ Moved(op, x).end = op.end
    BY <2>1, <2>2
  <2> QED BY <2>1, <2>3 DEF Times
<1>7. \A y \in AllMoved(got) : Times(y)
  BY <1>1, <1>6 DEF AllMoved
<1>8. Timed(Merge(got))
  <2> DEFINE m == Merge(got)
             U == AllMoved(got)
  <2>1. m \in Seq(U) /\ \A y \in U : Times(y)
    BY <1>5, <1>7
  <2> HIDE DEF m, U
  <2>2. \A i \in Idx(m) : m[i] \in U
    BY <2>1 DEF Idx
  <2>3. Timed(m)
    BY <2>1, <2>2 DEF Timed
  <2> QED BY <2>3 DEF m
<1> QED BY <1>1, <1>5, <1>8 DEF R

(* Merged operations are a timed list.                                     *)
LEMMA MergedList ==
    ASSUME AInv, pc = "merged"
    PROVE  ops \in Seq(AllMoved(got)) /\ Timed(ops)
<1>1. ops = SortByStartTime(Merge(got)) /\ got \in [1 .. N -> Seq(RecordedOps)]
  BY DEF AInv
<1>2. Merge(got) \in Seq(AllMoved(got)) /\ Timed(Merge(got))
  BY <1>1, MergedTimed
<1> QED BY <1>1, <1>2, StartsSorted

(* Whatever the clients recorded, and in whatever order it was merged: a   *)
(* benchmark is mixed only if one of its types begins before another one   *)
(* that began no later is through, so types that follow one another are    *)
(* reported apart.                                                         *)
THEOREM MixedMeansOverlap == Spec => []MixedTypesOverlap
<1>1. AInv => MixedTypesOverlap
  <2> SUFFICES ASSUME AInv, pc = "merged", isMixed(ops)
               PROVE  LET R(t) == TimeRange(FilterByOp(ops, t))
                      IN  \E a, b \in OpTypes(ops) :
                                /\ a # b
                                /\ R(a).start <= R(b).start
                                /\ R(b).start < R(a).end
    BY DEF MixedTypesOverlap
  <2> DEFINE R(t) == TimeRange(FilterByOp(ops, t))
  <2>1. \E a, b \in OpTypes(ops) :
            R(a) # R(b) /\ R(a).start <= R(b).start /\ R(b).start < R(a).end
    BY MergedList, MixedIsOverlap
  <2> HIDE DEF R
  <2>2. \E a, b \in OpTypes(ops) :
            a # b /\ R(a).start <= R(b).start /\ R(b).start < R(a).end
    BY <2>1
  <2> QED BY <2>2 DEF R
<1> QED BY <1>1, MergedFromClients, PTL

(* Every percentile of the report covers its share of the merged           *)
(* operations.                                                             *)
THEOREM PercentilesAreShares == Spec => []PercentilesCover
<1>1. AInv => PercentilesCover
  <2> SUFFICES ASSUME AInv, pc = "merged", ops # <<>>, NEW p \in Percents
               PROVE  LET dur == Percentiles(ops)[p]
                          faster == {i \in Idx(ops) : Dur(ops[i]) <= dur}
                          slower == {i \in Idx(ops) : Dur(ops[i]) >= dur}
                      IN  /\ \E i \in Idx(ops) : Dur(ops[i]) = dur
                          /\ 100 * Cardinality(faster) >= p * Len(ops)
                          /\ 100 * Cardinality(slower) >= (100 - p) * Len(ops) - 50
    BY DEF PercentilesCover
  <2>1. p \in 0 .. 100
    BY DEF Percents
  <2>2. Percentiles(ops)[p] = Dur(Median(SortByDuration(ops), p))
    BY DEF Percentiles
  <2>3. ops \in Seq(AllMoved(got)) /\ Timed(ops)
    BY MergedList
  <2> DEFINE dur == Dur(Median(SortByDuration(ops), p))
  <2>4. /\ \E i \in Idx(ops) : Dur(ops[i]) = dur
        /\ 100 * Cardinality({i \in Idx(ops) : Dur(ops[i]) <= dur}) >= p * Len(ops)
        /\ 100 * Cardinality({i \in Idx(ops) : Dur(ops[i]) >= dur}) >= (100 - p) * Len(ops) - 50
    BY <2>1, <2>3, PercentileCovers
  <2> HIDE DEF dur
  <2>5. Percentiles(ops)[p] = dur
    BY <2>2 DEF dur
  <2> QED BY <2>4, <2>5
<1> QED BY <1>1, MergedFromClients, PTL

(* N clients of at most T threads have numbers for all of them.            *)
LEMMA NumbersSuffice ==
    ASSUME got \in [1 .. N -> Seq(RecordedOps)], N * T < 2 ^ 16,
           \A i \in 1 .. N - 1 : got[i] # <<>>
    PROVE  \E base, at :
               /\ MergedAs(got, Merge(got), base, at)
               /\ \A i \in Idx(got) : \A j \in Idx(got[i]) :
                      Merge(got)[at[i] + j].thread = got[i][j].thread + base[i]
               /\ \A i, k \in Idx(got) : i < k =>
                      \A j \in Idx(got[i]) : got[i][j].thread + base[i] < base[k]
<1> DEFINE R == RecordedOps
           d == got
<1>1. /\ d \in Seq(Seq(R)) /\ d # <<>> /\ Len(d) = N
      /\ \A i \in Idx(d) : \A j \in Idx(d[i]) : d[i][j] \in R
  BY MergedTimed
<1>2. \A op \in R : IsOp(op) /\ op.thread < T
  BY RecordedIs
<1>3. T \in Nat
  BY AnalysisAssumption
<1>4. Len(d) * T < 2 ^ 16 /\ \A i \in 1 .. Len(d) - 1 : d[i] # <<>>
  BY <1>1
<1> HIDE DEF R, d
<1>5. \A i \in Idx(d) : \A j \in Idx(d[i]) : IsOp(d[i][j]) /\ d[i][j].thread < T
  BY <1>1, <1>2
<1> DEFINE P == \E base, at :
               /\ MergedAs(d, Merge(d), base, at)
               /\ \A i \in Idx(d) : \A j \in Idx(d[i]) :
                      Merge(d)[at[i] + j].thread = d[i][j].thread + base[i]
               /\ \A i, k \in Idx(d) : i < k =>
                      \A j \in Idx(d[i]) : d[i][j].thread + base[i] < base[k]
<1>6. P
  BY <1>1, <1>3, <1>4, <1>5, MergeKeepsApart
<1> QED BY <1>6 DEF d

(* Merged operations with one number of a thread are those of one thread   *)
(* of one client.                                                          *)
LEMMA ThreadsBelong ==
    ASSUME AInv, pc = "merged", N * T < 2 ^ 16, \A i \in 1 .. N - 1 : got[i] # <<>>,
           NEW i \in 1 .. N, NEW j \in Idx(got[i])
    PROVE  \E q \in Idx(ops) :
             \A h \in Idx(ops) : ops[h].thread = ops[q].thread =>
                 \E l \in Idx(got[i]) : /\ got[i][l].thread = got[i][j].thread
                                        /\ got[i][l].start = ops[h].start
                                        /\ got[i][l].end = ops[h].end
<1> DEFINE d == got
           m == Merge(d)
<1>1. ops = SortByStartTime(m) /\ d \in [1 .. N -> Seq(RecordedOps)]
  BY DEF AInv
<1>2. /\ Idx(d) = 1 .. N /\ m \in Seq(AllMoved(got)) /\ Timed(m)
      /\ \A k \in Idx(d) : \A l \in Idx(d[k]) : d[k][l] \in RecordedOps
  BY <1>1, MergedTimed
<1>3. PICK base, at :
         /\ MergedAs(d, m, base, at)
         /\ \A k \in Idx(d) : \A l \in Idx(d[k]) : m[at[k] + l].thread = d[k][l].thread + base[k]
         /\ \A k, z \in Idx(d) : k < z => \A l \in Idx(d[k]) : d[k][l].thread + base[k] < base[z]
  BY <1>1, NumbersSuffice
<1>4. /\ \A k \in Idx(ops) : \E x \in Idx(m) : ops[k] = m[x]
      /\ \A x \in Idx(m) : \E k \in Idx(ops) : ops[k] = m[x]
  BY <1>1, <1>2, StartsSorted
<1> HIDE DEF m, d
<1>5. /\ \A k \in Idx(d) : base[k] \in Nat
      /\ \A k \in Idx(d) : \A l \in Idx(d[k]) : /\ at[k] + l \in Idx(m)
                                                /\ m[at[k] + l] = Moved(d[k][l], base[k])
      /\ \A x \in Idx(m) : \E k \in Idx(d) : \E l \in Idx(d[k]) : x = at[k] + l
  BY <1>3 DEF MergedAs
<1>6. PICK q \in Idx(ops) : ops[q] = m[at[i] + j]
  BY <1>2, <1>4, <1>5 DEF d
<1>7. j \in Idx(d[i]) /\ i \in Idx(d)
  BY <1>2 DEF d
<1>8. ASSUME NEW h \in Idx(ops), ops[h].thread = ops[q].thread
      PROVE  \E l \in Idx(d[i]) : /\ d[i][l].thread = d[i][j].thread
                                  /\ d[i][l].start = ops[h].start
                                  /\ d[i][l].end = ops[h].end
  <2>0. PICK k \in Idx(d) : \E l \in Idx(d[k]) : ops[h] = m[at[k] + l]
    BY <1>4, <1>5
  <2>1. PICK l \in Idx(d[k]) : ops[h] = m[at[k] + l]
    BY <2>0
  <2>2. d[k][l].thread + base[k] = d[i][j].thread + base[i]
    BY <1>3, <1>6, <1>7, <1>8, <2>1
  <2>3. d[k][l] \in RecordedOps /\ d[i][j] \in RecordedOps
    BY <1>2, <1>7
  <2>4. d[k][l].thread \in Nat /\ d[i][j].thread \in Nat /\ IsOp(d[k][l])
    BY <2>3, RecordedIs
  <2>5. base[k] \in Nat /\ base[i] \in Nat
    BY <1>5, <1>7
  <2> DEFINE t == d[k][l].thread
             u == d[i][j].thread
             x == base[k]
             y == base[i]
  <2>6. (k < i => t + x < y) /\ (i < k => u + y < x)
    BY <1>3, <1>7
  <2>7. t \in Nat /\ u \in Nat /\ x \in Nat /\ y \in Nat /\ t + x = u + y
    BY <2>2, <2>4, <2>5
  <2>8. i \in Int /\ k \in Int
    BY <1>2, <1>7
  <2>9. k = i
    <3> HIDE DEF t, u, x, y
    <3> QED BY <2>6, <2>7, <2>8
  <2>10. t = u
    <3>1. x = y
      BY <2>9
    <3> HIDE DEF t, u, x, y
    <3> QED BY <2>7, <3>1
  <2>11. ops[h] = Moved(d[k][l], base[k])
    BY <1>5, <2>1
  <2>12. "start" \in DOMAIN d[k][l] /\ "end" \in DOMAIN d[k][l]
    BY <2>3 DEF RecordedOps
  <2>13. ops[h].start = d[k][l].start /\ ops[h].end = d[k][l].end
    <3> DEFINE op == d[k][l]
               b == base[k]
    <3>1. IsOp(op) /\ b \in Nat /\ "start" \in DOMAIN op /\ "end" \in DOMAIN op
      BY <2>4, <2>5, <2>12
    <3> HIDE DEF op, b
    <3>2. \A f \in DOMAIN op : f # "thread" => Moved(op, b)[f] = op[f]
      BY <3>1, MovedIs
    <3>3. Moved(op, b).start = op.start /\ Moved(op, b).end = op.end
      BY <3>1, <3>2
    <3> QED BY <2>11, <3>3 DEF op, b
  <2> QED BY <2>9, <2>10, <2>13
<1> QED BY <1>6, <1>8 DEF d

(* In the active range every thread of every client is at work, and with   *)
(* one operation discarded some operation begins before and some ends      *)
(* after it; for clients whose threads fit the 16 bits of a number.        *)
THEOREM ActiveRangesAreActive ==
    ASSUME N * T < 2 ^ 16
    PROVE  Spec => []ActiveRangeIsActive
<1>1. ASSUME AInv, pc = "merged", ops # <<>>
      PROVE  LET r == ActiveTimeRange(ops, TRUE)
                 Mine(i, t) == {got[i][j] : j \in {k \in Idx(got[i]) : got[i][k].thread = t}}
             IN  /\ r.start <= r.end
                 /\ r.start < r.end /\ (\A i \in 1 .. N - 1 : got[i] # <<>>) =>
                      \A i \in 1 .. N, t \in 0 .. T - 1 : Mine(i, t) # {} =>
                          /\ \E op \in Mine(i, t) : op.end <= r.start
                          /\ \E op \in Mine(i, t) : op.start >= r.end
  <2> DEFINE r == ActiveTimeRange(ops, TRUE)
             Mine(i, t) == {got[i][j] : j \in {k \in Idx(got[i]) : got[i][k].thread = t}}
  <2>1. /\ r.start <= r.end
        /\ r.start < r.end =>
             \A q \in Idx(ops) :
                 /\ \E h \in Idx(ops) : ops[h].thread = ops[q].thread /\ ops[h].end <= r.start
                 /\ \E h \in Idx(ops) : ops[h].thread = ops[q].thread /\ ops[h].start >= r.end
    BY <1>1, MergedList, AllThreadsActive
  <2> HIDE DEF r
  <2>2. ASSUME r.start < r.end, \A i \in 1 .. N - 1 : got[i] # <<>>,
               NEW i \in 1 .. N, NEW t \in 0 .. T - 1, Mine(i, t) # {}
        PROVE  /\ \E op \in Mine(i, t) : op.end <= r.start
               /\ \E op \in Mine(i, t) : op.start >= r.end
    <3>1. PICK j \in Idx(got[i]) : got[i][j].thread = t
      BY <2>2
    <3>2. PICK q \in Idx(ops) :
             \A h \in Idx(ops) : ops[h].thread = ops[q].thread =>
                 \E l \in Idx(got[i]) : /\ got[i][l].thread = got[i][j].thread
                                        /\ got[i][l].start = ops[h].start
                                        /\ got[i][l].end = ops[h].end
      BY <1>1, <2>2, ThreadsBelong
    <3>3. PICK h1 \in Idx(ops) : ops[h1].thread = ops[q].thread /\ ops[h1].end <= r.start
      BY <2>1, <2>2
    <3>4. PICK h2 \in Idx(ops) : ops[h2].thread = ops[q].thread /\ ops[h2].start >= r.end
      BY <2>1, <2>2
    <3>5. PICK l1 \in Idx(got[i]) : got[i][l1].thread = t /\ got[i][l1].end = ops[h1].end
      BY <3>1, <3>2, <3>3
    <3>6. PICK l2 \in Idx(got[i]) : got[i][l2].thread = t /\ got[i][l2].start = ops[h2].start
      BY <3>1, <3>2, <3>4
    <3>7. got[i][l1] \in Mine(i, t) /\ got[i][l2] \in Mine(i, t)
      BY <3>5, <3>6
    <3> QED BY <3>3, <3>4, <3>5, <3>6, <3>7
  <2> QED BY <2>1, <2>2 DEF r
<1>2. ASSUME AInv, pc = "merged", ops # <<>>
      PROVE  LET r == ActiveTimeRange(ops, FALSE)
             IN  /\ r.start <= r.end
                 /\ r.start < r.end =>
                      /\ \E i \in Idx(ops) : ops[i].start < r.start
                      /\ \E i \in Idx(ops) : ops[i].end > r.end
  BY <1>2, MergedList, OneDiscarded
<1>3. AInv => ActiveRangeIsActive
  BY <1>1, <1>2 DEF ActiveRangeIsActive
<1> QED BY <1>3, MergedFromClients, PTL
-----------------------------------------------------------------------------
(* One step of a sum ...                                                   *)
At(S, f, k) == IF k \in S THEN f[k] ELSE 0
Added(S, f, k, F) == IF k = 0 THEN 0 ELSE F[k - 1] + (IF k \in S THEN f[k] ELSE 0)

(* ... and what there is after k steps.                                    *)
LEMMA SumExists ==
    ASSUME NEW S, NEW f, NEW n \in Nat
    PROVE  \E F : F = [k \in 0 .. n |-> Added(S, f, k, F)]
<1> DEFINE Ok(j) == \E F : F = [k \in 0 .. j |-> Added(S, f, k, F)]
           J == {j \in 0 .. n : Ok(j)}
<1>1. 0 \in J
  <2> DEFINE F == [k \in 0 .. 0 |-> 0]
  <2>1. F = [k \in 0 .. 0 |-> Added(S, f, k, F)]
    BY DEF Added
  <2> QED BY <2>1
<1>2. ASSUME NEW j \in 0 .. n - 1, Ok(j) PROVE Ok(j + 1)
  <2>1. PICK F : F = [k \in 0 .. j |-> Added(S, f, k, F)]
    BY <1>2
  <2> DEFINE G == [k \in 0 .. j + 1 |-> IF k <= j THEN F[k] ELSE Added(S, f, j + 1, F)]
  <2>2. ASSUME NEW k \in 0 .. j + 1 PROVE G[k] = Added(S, f, k, G)
    <3>1. k - 1 \in Int /\ (k # 0 => k - 1 \in 0 .. j)
      OBVIOUS
    <3>2. k # 0 => G[k - 1] = F[k - 1]
      BY <3>1
    <3>3. Added(S, f, k, G) = Added(S, f, k, F)
      BY <3>2 DEF Added
    <3>4. CASE k <= j
      <4>1. k \in 0 .. j /\ G[k] = F[k]
        BY <3>4
      <4>2. F[k] = Added(S, f, k, F)
        BY <2>1, <4>1
      <4> QED BY <3>3, <4>1, <4>2
    <3>5. CASE ~(k <= j)
      <4>1. k = j + 1
        BY <3>5
      <4> QED BY <3>3, <3>5, <4>1
    <3> QED BY <3>4, <3>5
  <2>3. G = [k \in 0 .. j + 1 |-> Added(S, f, k, G)]
    BY <2>2
  <2> QED BY <2>3
<1>3. \A j \in 0 .. n - 1 : j \in J => j + 1 \in J
  <2> HIDE DEF Ok
  <2> QED BY <1>2
<1>4. \A j \in 0 .. n : j \in J
  <2> HIDE DEF J
  <2> QED BY <1>1, <1>3, Induction
<1> QED
  BY <1>4

SumBy(S, f, n, F) == F = [k \in 0 .. n |-> Added(S, f, k, F)]

(* All ways to add up the first numbers agree.                             *)
LEMMA SumUnique ==
    ASSUME NEW S, NEW f, NEW n \in Nat, NEW m \in Nat, n <= m, NEW F, NEW G,
           SumBy(S, f, n, F), SumBy(S, f, m, G)
    PROVE  F[n] = G[n]
<1> DEFINE J == {j \in 0 .. n : F[j] = G[j]}
<1>1. ASSUME NEW k \in 0 .. n PROVE F[k] = Added(S, f, k, F) /\ G[k] = Added(S, f, k, G)
  <2>1. k \in 0 .. n /\ k \in 0 .. m
    OBVIOUS
  <2> QED BY <2>1 DEF SumBy
<1>2. 0 \in J
  BY <1>1 DEF Added
<1>3. ASSUME NEW j \in 0 .. n - 1, j \in J PROVE j + 1 \in J
  <2>1. j + 1 \in 0 .. n /\ (j + 1) - 1 = j /\ j + 1 # 0 /\ F[j] = G[j]
    BY <1>3
  <2> QED BY <1>1, <2>1 DEF Added
<1>4. \A j \in 0 .. n : j \in J
  <2> HIDE DEF J
  <2> QED BY <1>2, <1>3, Induction
<1> QED BY <1>4

(* The sum is built by such steps.                                         *)
LEMMA SumIs ==
    ASSUME NEW S, NEW f, NEW n \in Nat
    PROVE  \E F : SumBy(S, f, n, F) /\ SumAt(S, f, n) = F[n]
<1> DEFINE F == CHOOSE F : F = [k \in 0 .. n |-> Added(S, f, k, F)]
<1>1. F = [k \in 0 .. n |-> Added(S, f, k, F)]
  BY SumExists
<1>2. SumAt(S, f, n) = F[n]
  BY DEF SumAt, Added
<1> QED BY <1>1, <1>2 DEF SumBy

LEMMA SumSteps ==
    ASSUME NEW S, NEW f, NEW n \in Nat
    PROVE  SumAt(S, f, 0) = 0 /\ SumAt(S, f, n + 1) = SumAt(S, f, n) + At(S, f, n + 1)
<1>1. PICK F : SumBy(S, f, n, F) /\ SumAt(S, f, n) = F[n]
  BY SumIs
<1>0. n + 1 \in Nat /\ 0 \in Nat /\ n <= n + 1 /\ n + 1 \in 0 .. n + 1 /\ (n + 1) - 1 = n /\ n + 1 # 0
  OBVIOUS
<1>2. PICK G : SumBy(S, f, n + 1, G) /\ SumAt(S, f, n + 1) = G[n + 1]
  BY <1>0, SumIs
<1>3. PICK H : SumBy(S, f, 0, H) /\ SumAt(S, f, 0) = H[0]
  BY <1>0, SumIs
<1>4. F[n] = G[n]
  BY <1>0, <1>1, <1>2, SumUnique
<1>5. G[n + 1] = Added(S, f, n + 1, G)
  BY <1>0, <1>2 DEF SumBy
<1>6. H[0] = 0
  BY <1>3 DEF Added, SumBy
<1> QED BY <1>0, <1>1, <1>2, <1>3, <1>4, <1>5, <1>6 DEF Added, At
-----------------------------------------------------------------------------
(* The sum is about numbers.                                               *)
Numbers(S, f, n) == n \in Nat /\ \A i \in 1 .. n : At(S, f, i) \in Int

LEMMA SumInt ==
    ASSUME NEW S, NEW f, NEW n, Numbers(S, f, n), NEW m \in 0 .. n
    PROVE  SumAt(S, f, m) \in Int
<1> DEFINE J == {j \in 0 .. n : SumAt(S, f, j) \in Int}
<1>0. n \in Nat
  BY DEF Numbers
<1>1. 0 \in J
  BY <1>0, SumSteps
<1>2. ASSUME NEW j \in 0 .. n - 1, j \in J PROVE j + 1 \in J
  <2>1. j + 1 \in 1 .. n /\ j + 1 \in 0 .. n /\ j \in Nat
    BY <1>0
  <2>2. At(S, f, j + 1) \in Int /\ SumAt(S, f, j) \in Int
    BY <1>2, <2>1 DEF Numbers
  <2>3. SumAt(S, f, j + 1) = SumAt(S, f, j) + At(S, f, j + 1)
    BY <2>1, SumSteps
  <2> QED BY <2>1, <2>2, <2>3
<1>3. \A j \in 0 .. n : j \in J
  <2> HIDE DEF J
  <2> QED BY <1>0, <1>1, <1>2, Induction
<1> QED BY <1>3

(* What is less everywhere adds up to less.                                *)
LEMMA SumLess ==
    ASSUME NEW S, NEW f, NEW R, NEW g, NEW n, Numbers(S, f, n), Numbers(R, g, n),
           \A i \in 1 .. n : At(S, f, i) <= At(R, g, i)
    PROVE  SumAt(S, f, n) <= SumAt(R, g, n)
<1> DEFINE J == {j \in 0 .. n : SumAt(S, f, j) <= SumAt(R, g, j)}
<1>0. n \in Nat
  BY DEF Numbers
<1>1. 0 \in J
  <2>1. SumAt(S, f, 0) = 0 /\ SumAt(R, g, 0) = 0
    BY <1>0, SumSteps
  <2> QED BY <1>0, <2>1
<1>2. ASSUME NEW j \in 0 .. n - 1, j \in J PROVE j + 1 \in J
  <2>1. j + 1 \in 1 .. n /\ j + 1 \in 0 .. n /\ j \in Nat /\ j \in 0 .. n
    BY <1>0
  <2>2. At(S, f, j + 1) \in Int /\ At(R, g, j + 1) \in Int /\ At(S, f, j + 1) <= At(R, g, j + 1)
    BY <2>1 DEF Numbers
  <2>3. SumAt(S, f, j + 1) = SumAt(S, f, j) + At(S, f, j + 1)
    BY <2>1, SumSteps
  <2>4. SumAt(R, g, j + 1) = SumAt(R, g, j) + At(R, g, j + 1)
    BY <2>1, SumSteps
  <2>5. SumAt(S, f, j) \in Int /\ SumAt(R, g, j) \in Int
    BY <2>1, SumInt
  <2>6. SumAt(S, f, j) <= SumAt(R, g, j)
    BY <1>2
  <2> QED BY <2>1, <2>2, <2>3, <2>4, <2>5, <2>6
<1>3. \A j \in 0 .. n : j \in J
  <2> HIDE DEF J
  <2> QED BY <1>0, <1>1, <1>2, Induction
<1> QED BY <1>0, <1>3

(* Sums of two are the sums of each.                                       *)
Both(S, f, R, g, n) == [i \in 1 .. n |-> At(S, f, i) + At(R, g, i)]
LEMMA SumOfTwo ==
    ASSUME NEW S, NEW f, NEW R, NEW g, NEW n, Numbers(S, f, n), Numbers(R, g, n)
    PROVE  /\ Numbers(1 .. n, Both(S, f, R, g, n), n)
           /\ SumAt(1 .. n, Both(S, f, R, g, n), n) = SumAt(S, f, n) + SumAt(R, g, n)
<1> DEFINE h == Both(S, f, R, g, n)
           I == 1 .. n
           J == {j \in 0 .. n : SumAt(I, h, j) = SumAt(S, f, j) + SumAt(R, g, j)}
<1>0. n \in Nat
  BY DEF Numbers
<1>4. \A i \in 1 .. n : At(I, h, i) = At(S, f, i) + At(R, g, i)
  BY DEF At, Both
<1>5. Numbers(I, h, n)
  BY <1>4 DEF Numbers
<1> HIDE DEF h, I
<1>1. 0 \in J
  <2>1. SumAt(S, f, 0) = 0 /\ SumAt(R, g, 0) = 0 /\ SumAt(I, h, 0) = 0
    BY <1>0, SumSteps
  <2> QED BY <1>0, <2>1
<1>2. ASSUME NEW j \in 0 .. n - 1, j \in J PROVE j + 1 \in J
  <2>1. j + 1 \in 1 .. n /\ j + 1 \in 0 .. n /\ j \in Nat /\ j \in 0 .. n
    BY <1>0
  <2>2. At(S, f, j + 1) \in Int /\ At(R, g, j + 1) \in Int
    BY <2>1 DEF Numbers
  <2>7. At(I, h, j + 1) = At(S, f, j + 1) + At(R, g, j + 1)
    BY <1>4, <2>1
  <2>3. SumAt(S, f, j + 1) = SumAt(S, f, j) + At(S, f, j + 1)
    BY <2>1, SumSteps
  <2>4. SumAt(R, g, j + 1) = SumAt(R, g, j) + At(R, g, j + 1)
    BY <2>1, SumSteps
  <2>8. SumAt(I, h, j + 1) = SumAt(I, h, j) + At(I, h, j + 1)
    BY <2>1, SumSteps
  <2>5. SumAt(S, f, j) \in Int /\ SumAt(R, g, j) \in Int
    BY <2>1, SumInt
  <2>6. SumAt(I, h, j) = SumAt(S, f, j) + SumAt(R, g, j)
    BY <1>2
  <2> QED BY <2>1, <2>2, <2>3, <2>4, <2>5, <2>6, <2>7, <2>8
<1>3. \A j \in 0 .. n : j \in J
  <2> HIDE DEF J
  <2> QED BY <1>0, <1>1, <1>2, Induction
<1> QED BY <1>0, <1>3, <1>5 DEF h, I

(* So what is pointwise less than two together ...                         *)
LEMMA SumsBelow ==
    ASSUME NEW S, NEW f, NEW R, NEW g, NEW U, NEW h, NEW n,
           Numbers(S, f, n), Numbers(R, g, n), Numbers(U, h, n),
           \A i \in 1 .. n : At(S, f, i) + At(R, g, i) <= At(U, h, i)
    PROVE  SumAt(S, f, n) + SumAt(R, g, n) <= SumAt(U, h, n)
<1> DEFINE b == Both(S, f, R, g, n)
           I == 1 .. n
<1>1. Numbers(I, b, n) /\ SumAt(I, b, n) = SumAt(S, f, n) + SumAt(R, g, n)
  BY SumOfTwo
<1>2. \A i \in 1 .. n : At(I, b, i) <= At(U, h, i)
  BY DEF At, Both
<1> HIDE DEF b, I
<1>3. SumAt(I, b, n) <= SumAt(U, h, n)
  BY <1>1, <1>2, SumLess
<1> QED BY <1>1, <1>3

LEMMA SumsAbove ==
    ASSUME NEW S, NEW f, NEW R, NEW g, NEW U, NEW h, NEW n,
           Numbers(S, f, n), Numbers(R, g, n), Numbers(U, h, n),
           \A i \in 1 .. n : At(U, h, i) <= At(S, f, i) + At(R, g, i)
    PROVE  SumAt(U, h, n) <= SumAt(S, f, n) + SumAt(R, g, n)
<1> DEFINE b == Both(S, f, R, g, n)
           I == 1 .. n
<1>1. Numbers(I, b, n) /\ SumAt(I, b, n) = SumAt(S, f, n) + SumAt(R, g, n)
  BY SumOfTwo
<1>2. \A i \in 1 .. n : At(U, h, i) <= At(I, b, i)
  BY DEF At, Both
<1> HIDE DEF b, I
<1>3. SumAt(U, h, n) <= SumAt(I, b, n)
  BY <1>1, <1>2, SumLess
<1> QED BY <1>1, <1>3

(* A constant adds up to a multiple.                                       *)
LEMMA TimesNext ==
    ASSUME NEW c \in Nat, NEW k \in Nat
    PROVE  c * (k + 1) = c * k + c
OBVIOUS

LEMMA SumConst ==
    ASSUME NEW n \in Nat, NEW S \in SUBSET (1 .. n), NEW c \in Nat, NEW f,
           \A i \in S : f[i] = c
    PROVE  SumAt(S, f, n) = c * Cardinality(S)
<1> DEFINE Up(j) == {i \in S : i <= j}
           J == {j \in 0 .. n : SumAt(S, f, j) = c * Cardinality(Up(j)) /\ IsFiniteSet(Up(j))}
<1>0. \A i \in S : i \in Int /\ 1 <= i /\ i <= n
  OBVIOUS
<1>1. 0 \in J
  <2>0. \A i \in S : ~(i <= 0)
    BY <1>0
  <2>1. Up(0) = {}
    BY <2>0
  <2>2. Cardinality(Up(0)) = 0 /\ IsFiniteSet(Up(0))
    BY <2>1, FS_EmptySet, Zenon
  <2>3. SumAt(S, f, 0) = 0 /\ c * 0 = 0
    BY SumSteps
  <2> HIDE DEF Up
  <2> QED BY <2>2, <2>3
<1>2. ASSUME NEW j \in 0 .. n - 1, j \in J PROVE j + 1 \in J
  <2>1. j + 1 \in 1 .. n /\ j + 1 \in 0 .. n /\ j \in Nat /\ j \in 0 .. n
    OBVIOUS
  <2>0. \A i \in S : /\ i <= j + 1 <=> (i <= j \/ i = j + 1)
                     /\ ~(j + 1 <= j)
    BY <1>0, <2>1
  <2>2. SumAt(S, f, j + 1) = SumAt(S, f, j) + At(S, f, j + 1)
    BY <2>1, SumSteps
  <2>3. SumAt(S, f, j) = c * Cardinality(Up(j)) /\ IsFiniteSet(Up(j))
    BY <1>2
  <2>4. Cardinality(Up(j)) \in Nat
    BY <2>3, FS_CardinalityType
  <2>5. CASE j + 1 \in S
    <3>1. Up(j + 1) = Up(j) \cup {j + 1} /\ j + 1 \notin Up(j)
      BY <2>0, <2>1, <2>5
    <3> HIDE DEF Up
    <3>2. IsFiniteSet(Up(j + 1)) /\ Cardinality(Up(j + 1)) = Cardinality(Up(j)) + 1
      BY <2>3, <3>1, FS_AddElement
    <3>3. At(S, f, j + 1) = c
      BY <2>5 DEF At
    <3>4. c * (Cardinality(Up(j)) + 1) = c * Cardinality(Up(j)) + c
      BY <2>4, TimesNext
    <3> QED BY <2>1, <2>2, <2>3, <3>2, <3>3, <3>4
  <2>6. CASE j + 1 \notin S
    <3>1. Up(j + 1) = Up(j)
      BY <2>0, <2>1, <2>6
    <3>3. At(S, f, j + 1) = 0
      BY <2>6 DEF At
    <3> DEFINE z == c * Cardinality(Up(j))
    <3>4. z \in Int
      BY <2>4
    <3> HIDE DEF z
    <3>5. SumAt(S, f, j + 1) = z
      BY <2>2, <2>3, <3>3, <3>4 DEF z
    <3> HIDE DEF Up
    <3> QED BY <2>1, <2>3, <3>1, <3>5 DEF z
  <2> QED BY <2>5, <2>6
<1>3. \A j \in 0 .. n : j \in J
  <2> HIDE DEF J
  <2> QED BY <1>1, <1>2, Induction
<1>4. Up(n) = S
  BY <1>0
<1>5. SumAt(S, f, n) = c * Cardinality(Up(n))
  <2> HIDE DEF Up
  <2> QED BY <1>3
<1> QED BY <1>4, <1>5
-----------------------------------------------------------------------------
(* A share of two times is that of both together, but for a rounding.      *)
LEMMA SharesAdd ==
    ASSUME NEW size \in Nat, NEW d \in Nat \ {0}, NEW x \in Nat, NEW y \in Nat
    PROVE  /\ (size * x) \div d + (size * y) \div d <= (size * (x + y)) \div d
           /\ (size * (x + y)) \div d <= (size * x) \div d + (size * y) \div d + 1
           /\ (size * x) \div d \in Nat /\ (size * y) \div d \in Nat
           /\ (size * (x + y)) \div d \in Nat
<1> DEFINE a == size * x
           b == size * y
           c == size * (x + y)
           u == a \div d
           v == b \div d
           w == c \div d
<1>1. a \in Nat /\ b \in Nat /\ c \in Nat /\ c = a + b
  OBVIOUS
<1> HIDE DEF a, b, c
<1>2. /\ u \in Nat /\ u * d <= a /\ a < (u + 1) * d
      /\ v \in Nat /\ v * d <= b /\ b < (v + 1) * d
      /\ w \in Nat /\ w * d <= c /\ c < (w + 1) * d
  BY <1>1
<1> HIDE DEF u, v, w
<1>3. (u + v) * d < (w + 1) * d /\ w * d < (u + v + 2) * d
  BY <1>1, <1>2
<1>4. u + v < w + 1 /\ w < u + v + 2
  BY <1>2, <1>3
<1> QED BY <1>2, <1>4 DEF a, b, c, u, v, w

LEMMA WholeShare ==
    ASSUME NEW size \in Nat, NEW d \in Nat \ {0}
    PROVE  (size * d) \div d = size
<1> DEFINE z == (size * d) \div d
<1>1. z \in Nat /\ z * d <= size * d /\ size * d < (z + 1) * d
  <2>1. size * d \in Nat
    OBVIOUS
  <2> QED BY <2>1
<1> HIDE DEF z
<1>2. z <= size /\ size < z + 1
  BY <1>1
<1> QED BY <1>1, <1>2 DEF z

(* The bytes of an operation up to a time.                                 *)
UpTo(op, e) ==
    IF op.end < e THEN op.size
    ELSE IF op.start >= e THEN 0
    ELSE (op.size * (e - op.start)) \div Dur(op)

(* With a time that is taken as zero before the operation it is a share.   *)
LEMMA UpToShare ==
    ASSUME NEW op, Times(op), op.size \in Nat, NEW e \in Nat
    PROVE  /\ UpTo(op, e) \in 0 .. op.size
           /\ Dur(op) \in Nat
           /\ Dur(op) # 0 =>
                UpTo(op, e) = (op.size * (IF op.end < e THEN Dur(op)
                                          ELSE IF op.start >= e THEN 0
                                          ELSE e - op.start)) \div Dur(op)
           /\ Dur(op) = 0 => UpTo(op, e) = IF op.end < e THEN op.size ELSE 0
<1> DEFINE d == Dur(op)
           z == op.size
<1>1. /\ op.start \in Nat /\ op.end \in Nat /\ op.start <= op.end
      /\ d = op.end - op.start /\ d \in Nat /\ z \in Nat
  BY DEF Times, Dur
<1>2. UpTo(op, e) = IF op.end < e THEN z
                    ELSE IF op.start >= e THEN 0
                    ELSE (z * (e - op.start)) \div d
  BY DEF UpTo
<1> HIDE DEF d, z
<1>3. d # 0 => (z * d) \div d = z
  BY <1>1, WholeShare
<1>4. d # 0 => (z * 0) \div d = 0
  BY <1>1
<1>5. CASE op.end < e
  BY <1>1, <1>2, <1>3, <1>5 DEF d, z
<1>6. CASE ~(op.end < e) /\ op.start >= e
  BY <1>1, <1>2, <1>4, <1>6 DEF d, z
<1>7. CASE ~(op.end < e) /\ ~(op.start >= e)
  <2> DEFINE x == e - op.start
  <2>1. d \in Nat \ {0} /\ x \in 0 .. d
    BY <1>1, <1>7
  <2>2. UpTo(op, e) = (z * x) \div d
    BY <1>2, <1>7
  <2> HIDE DEF x
  <2>3. (z * x) \div d \in 0 .. z
    BY <1>1, <2>1, ShareBounded
  <2> QED BY <1>1, <1>7, <2>1, <2>2, <2>3 DEF x, d, z
<1> QED BY <1>1, <1>5, <1>6, <1>7

(* Later there are no fewer.                                               *)
LEMMA UpToMonotone ==
    ASSUME NEW op, Times(op), op.size \in Nat, NEW e \in Nat, NEW e2 \in Nat, e <= e2
    PROVE  UpTo(op, e) <= UpTo(op, e2)
<1> DEFINE d == Dur(op)
           z == op.size
           X(t) == IF op.end < t THEN d ELSE IF op.start >= t THEN 0 ELSE t - op.start
           x == X(e)
           y == X(e2) - X(e)
<1>1. /\ op.start \in Nat /\ op.end \in Nat /\ op.start <= op.end
      /\ d = op.end - op.start /\ d \in Nat /\ z \in Nat
  BY DEF Times, Dur
<1>2. UpTo(op, e) \in 0 .. z /\ UpTo(op, e2) \in 0 .. z
  BY UpToShare
<1>3. CASE d = 0
  <2>1. UpTo(op, e) = (IF op.end < e THEN z ELSE 0) /\ UpTo(op, e2) = IF op.end < e2 THEN z ELSE 0
    BY <1>3, UpToShare
  <2> HIDE DEF d, z
  <2> QED BY <1>1, <2>1
<1>4. CASE d # 0
  <2>1. UpTo(op, e) = (z * X(e)) \div d /\ UpTo(op, e2) = (z * X(e2)) \div d
    BY <1>4, UpToShare
  <2> HIDE DEF d, z
  <2>2. x \in Nat /\ y \in Nat /\ x + y = X(e2) /\ d \in Nat \ {0}
    BY <1>1, <1>4
  <2>3. UpTo(op, e) = (z * x) \div d /\ UpTo(op, e2) = (z * (x + y)) \div d
    BY <2>1, <2>2
  <2> HIDE DEF X, x, y
  <2> DEFINE u == (z * x) \div d
             v == (z * y) \div d
             w == (z * (x + y)) \div d
  <2>4. u + v <= w /\ u \in Nat /\ v \in Nat /\ w \in Nat
    BY <1>1, <2>2, SharesAdd
  <2> HIDE DEF u, v, w
  <2>5. u <= w
    BY <2>4
  <2> QED BY <2>3, <2>5 DEF u, w
<1> QED BY <1>3, <1>4
-----------------------------------------------------------------------------
(* A part is what comes between the start and the end of the segment, but  *)
(* for a rounding.                                                         *)
LEMMA PartIsBetween ==
    ASSUME NEW op, NEW s, Times(op), op.size \in Nat, Segmental(s),
           InSegment(op, s), ~Whole(op, s)
    PROVE  /\ PartSize(op, s) \in Nat
           /\ UpTo(op, s.start) + PartSize(op, s) <= UpTo(op, s.ends)
           /\ UpTo(op, s.ends) <= UpTo(op, s.start) + PartSize(op, s) + 1
<1> DEFINE d == Dur(op)
           z == op.size
           a == s.start
           b == s.ends
           X(t) == IF op.end < t THEN d ELSE IF op.start >= t THEN 0 ELSE t - op.start
           x == X(a)
           y == PartDur(op, s)
<1>0. /\ op.start \in Nat /\ op.end \in Nat /\ op.start <= op.end
      /\ s.start \in Nat /\ s.ends \in Nat /\ s.start < s.ends
      /\ op.start < s.ends /\ op.end >= s.start
  BY DEF Times, Segmental, InSegment
<1>1. /\ op.start \in Nat /\ op.end \in Nat /\ op.start <= op.end
      /\ d = op.end - op.start /\ d \in Nat /\ z \in Nat
      /\ a \in Nat /\ b \in Nat /\ a < b
      /\ op.start < b /\ op.end >= a
  BY <1>0 DEF Dur
<1>2. d \in Nat \ {0}
  BY PartTakesTime
<1>3. UpTo(op, a) = (z * X(a)) \div d /\ UpTo(op, b) = (z * X(b)) \div d
  BY <1>1, <1>2, UpToShare
<1>4. /\ y = (IF op.end <= b THEN op.end ELSE b) - (IF op.start >= a THEN op.start ELSE a)
      /\ y \in 0 .. d
  BY PartDurIs
<1>5. PartSize(op, s) = (z * y) \div d
  BY DEF PartSize, PartDur
<1> HIDE DEF y, d, z, a, b
<1>6. x \in Nat /\ y \in Nat /\ x + y = X(b)
  BY <1>1, <1>4
<1>7. UpTo(op, a) = (z * x) \div d /\ UpTo(op, b) = (z * (x + y)) \div d
  BY <1>3, <1>6
<1> HIDE DEF X, x
<1> DEFINE u == (z * x) \div d
           v == (z * y) \div d
           w == (z * (x + y)) \div d
<1>8. u + v <= w /\ w <= u + v + 1 /\ u \in Nat /\ v \in Nat /\ w \in Nat
  BY <1>1, <1>2, <1>6, SharesAdd
<1> HIDE DEF u, v, w
<1>9. UpTo(op, a) = u /\ UpTo(op, b) = w /\ PartSize(op, s) = v
  BY <1>5, <1>7 DEF u, v, w
<1> QED BY <1>8, <1>9 DEF a, b

(* A segment of all types.                                                 *)
AnyType(s) == Segmental(s) /\ s.type = ""

(* What a segment is charged with an operation ...                         *)
Charge(op, s) == IF InSegment(op, s) THEN Bytes(op, s) ELSE 0

(* ... is at most what there is in between, and for an operation that      *)
(* succeeded no less, but for a rounding.                                  *)
LEMMA ChargeIsBetween ==
    ASSUME NEW op, NEW s, Times(op), op.size \in Nat, AnyType(s)
    PROVE  /\ Charge(op, s) \in Nat
           /\ UpTo(op, s.start) + Charge(op, s) <= UpTo(op, s.ends)
           /\ ~op.err => UpTo(op, s.ends) <= UpTo(op, s.start) + Charge(op, s) + 1
<1> DEFINE z == op.size
           a == s.start
           b == s.ends
           u == UpTo(op, a)
           w == UpTo(op, b)
           v == PartSize(op, s)
<1>1. /\ op.start \in Nat /\ op.end \in Nat /\ op.start <= op.end /\ z \in Nat
      /\ a \in Nat /\ b \in Nat /\ a < b
  BY DEF Times, Segmental, AnyType
<1>2. u \in 0 .. z /\ w \in 0 .. z /\ u <= w
  BY <1>1, UpToShare, UpToMonotone
<1>3. CASE ~InSegment(op, s)
  <2>0. ~(op.start < b /\ op.end >= a)
    <3>1. s.type \in {"", op.type}
      BY DEF AnyType
    <3> QED BY <1>3, <3>1, Zenon DEF InSegment
  <2>1. op.start >= b \/ op.end < a
    BY <1>1, <2>0
  <2>2. Charge(op, s) = 0
    BY <1>3 DEF Charge
  <2>3. w <= u
    <3>1. CASE op.start >= b
      BY <1>1, <1>2, <3>1 DEF UpTo
    <3>2. CASE op.end < a
      BY <1>1, <1>2, <3>2 DEF UpTo
    <3> QED BY <2>1, <3>1, <3>2
  <2> HIDE DEF u, w, z
  <2>4. /\ Charge(op, s) \in Nat /\ u + Charge(op, s) <= w
        /\ w <= u + Charge(op, s) + 1
    BY <1>1, <1>2, <2>2, <2>3
  <2> QED BY <2>4 DEF u, w
<1>4. CASE InSegment(op, s) /\ Whole(op, s)
  <2>1. op.start >= a /\ op.end < b
    BY <1>4 DEF Whole, StartedIn, EndedIn
  <2>2. u = 0 /\ w = z
    BY <1>1, <2>1 DEF UpTo
  <2>3. Charge(op, s) = IF op.err THEN 0 ELSE z
    BY <1>4 DEF Charge, Bytes
  <2> HIDE DEF u, w, z
  <2>4. /\ Charge(op, s) \in Nat /\ u + Charge(op, s) <= w
        /\ ~op.err => w <= u + Charge(op, s) + 1
    BY <1>1, <1>2, <2>2, <2>3
  <2> QED BY <2>4 DEF u, w
<1>5. CASE InSegment(op, s) /\ ~Whole(op, s)
  <2>1. v \in Nat /\ u + v <= w /\ w <= u + v + 1
    BY <1>5, PartIsBetween DEF AnyType
  <2>2. \/ Charge(op, s) = v
        \/ op.err /\ Charge(op, s) = 0
    BY <1>5 DEF Charge, Bytes
  <2> HIDE DEF u, w, z, v
  <2>4. /\ Charge(op, s) \in Nat /\ u + Charge(op, s) <= w
        /\ ~op.err => w <= u + Charge(op, s) + 1
    BY <1>1, <1>2, <2>1, <2>2
  <2> QED BY <2>4 DEF u, w
<1> QED BY <1>3, <1>4, <1>5
-----------------------------------------------------------------------------
(* Operations that end when they begin or later, of some size.             *)
Sized(V, o) == o \in Seq(V) /\ Timed(o) /\ \A i \in Idx(o) : o[i].size \in Nat

LEMMA SizedIs ==
    ASSUME NEW V, NEW o, Sized(V, o)
    PROVE  /\ Len(o) \in Nat /\ Idx(o) = 1 .. Len(o)
           /\ \A i \in 1 .. Len(o) : Times(o[i]) /\ o[i].size \in Nat
BY DEF Sized, Timed, Idx

(* What FillSegment skips has ended when the segment begins.               *)
LEMMA FirstEntryIs ==
    ASSUME NEW V, NEW o, Sized(V, o), NEW s
    PROVE  /\ FirstEntry(o, s) \in Nat \ {0}
           /\ \A i \in 1 .. Len(o) : i < FirstEntry(o, s) => o[i].end <= s.start
<1> DEFINE lead == {i \in Idx(o) : \A j \in 1 .. i : o[j].end <= s.start}
           n == Len(o)
<1>1. n \in Nat /\ Idx(o) = 1 .. n
  BY SizedIs
<1>2. CASE lead = {}
  <2>1. FirstEntry(o, s) = 1
    BY <1>2 DEF FirstEntry
  <2> QED BY <1>1, <2>1
<1>3. CASE lead # {}
  <2>1. FirstEntry(o, s) = Max(lead)
    BY <1>3 DEF FirstEntry
  <2>2. lead \in SUBSET Int /\ \A x \in lead : x <= n
    BY <1>1
  <2>3. \A x \in lead : x \in 1 .. n /\ \A j \in 1 .. x : o[j].end <= s.start
    BY <1>1
  <2> HIDE DEF lead, n
  <2>4. Max(lead) \in lead
    BY <1>1, <1>3, <2>2, MaxIs
  <2> DEFINE m == Max(lead)
  <2>5. m \in 1 .. n /\ \A j \in 1 .. m : o[j].end <= s.start
    BY <2>3, <2>4
  <2> HIDE DEF m
  <2>6. \A i \in 1 .. n : i < m => o[i].end <= s.start
    BY <1>1, <2>5
  <2> QED BY <1>1, <2>1, <2>5, <2>6 DEF m, n
<1> QED BY <1>2, <1>3

(* What a segment adds up and which operations it counts as ended.         *)
In(o, s) == {i \in FirstEntry(o, s) .. Len(o) : InSegment(o[i], s)}
BytesIn(o, s) == SumAt(In(o, s), [i \in In(o, s) |-> Bytes(o[i], s)], Len(o))
Ended(o, s) ==
    {i \in In(o, s) : Whole(o[i], s) /\ ~o[i].err}
      \cup {i \in {j \in In(o, s) : ~Whole(o[j], s)} : EndedIn(o[i], s)}

LEMMA InIs ==
    ASSUME NEW V, NEW o, Sized(V, o), NEW s
    PROVE  /\ In(o, s) \in SUBSET (1 .. Len(o))
           /\ \A i \in In(o, s) : InSegment(o[i], s)
           /\ \A i \in 1 .. Len(o) : InSegment(o[i], s) =>
                 i \in In(o, s) \/ o[i].end <= s.start
<1>1. FirstEntry(o, s) \in Nat \ {0} /\ Len(o) \in Nat
  BY FirstEntryIs, SizedIs
<1>2. \A i \in 1 .. Len(o) : i < FirstEntry(o, s) => o[i].end <= s.start
  BY FirstEntryIs
<1> DEFINE e == FirstEntry(o, s)
<1>3. \A i \in e .. Len(o) : i \in 1 .. Len(o)
  BY <1>1
<1>4. \A i \in 1 .. Len(o) : i \in e .. Len(o) \/ i < e
  BY <1>1
<1>5. In(o, s) = {i \in e .. Len(o) : InSegment(o[i], s)}
  BY DEF In
<1> HIDE DEF e
<1> QED BY <1>2, <1>3, <1>4, <1>5 DEF e

(* The bytes of all operations up to a time, for the operations S.         *)
Upto(o, e, m) == [i \in 1 .. Len(o) |-> UpTo(o[i], e) - m]

(* A segment adds no more than what its time adds to the operations S,     *)
(* when it is about no others.                                             *)
LEMMA SegmentAddsAtMost ==
    ASSUME NEW V, NEW o, Sized(V, o), NEW s, AnyType(s),
           NEW S \in SUBSET (1 .. Len(o)), In(o, s) \subseteq S
    PROVE  /\ BytesIn(o, s) \in Int
           /\ SumAt(S, Upto(o, s.start, 0), Len(o)) \in Int
           /\ SumAt(S, Upto(o, s.ends, 0), Len(o)) \in Int
           /\ SumAt(S, Upto(o, s.start, 0), Len(o)) + BytesIn(o, s)
                <= SumAt(S, Upto(o, s.ends, 0), Len(o))
<1> DEFINE n == Len(o)
           R == In(o, s)
           g == [i \in R |-> Bytes(o[i], s)]
           f == Upto(o, s.start, 0)
           h == Upto(o, s.ends, 0)
<1>1. n \in Nat /\ \A i \in 1 .. n : Times(o[i]) /\ o[i].size \in Nat
  BY SizedIs
<1>2. s.start \in Nat /\ s.ends \in Nat
  BY DEF AnyType, Segmental
<1>3. R \in SUBSET (1 .. n) /\ \A i \in R : InSegment(o[i], s)
  BY InIs
<1>4. ASSUME NEW i \in 1 .. n
      PROVE  /\ At(S, f, i) \in Int /\ At(R, g, i) \in Int /\ At(S, h, i) \in Int
             /\ At(S, f, i) + At(R, g, i) <= At(S, h, i)
  <2> DEFINE u == UpTo(o[i], s.start)
             w == UpTo(o[i], s.ends)
             v == Charge(o[i], s)
  <2>1. v \in Nat /\ u + v <= w
    BY <1>1, ChargeIsBetween
  <2>2. u \in 0 .. o[i].size /\ w \in 0 .. o[i].size /\ o[i].size \in Nat
    BY <1>1, <1>2, UpToShare
  <2>3. i \in R => At(R, g, i) = v
    BY <1>3 DEF At, Charge
  <2>4. i \notin R => At(R, g, i) = 0
    BY DEF At
  <2>5. i \in R => i \in S
    OBVIOUS
  <2>6. f[i] = u - 0 /\ h[i] = w - 0
    BY DEF Upto
  <2> HIDE DEF u, v, w, f, g, h, R
  <2>7. u \in Int /\ w \in Int /\ v \in Int /\ u <= w /\ 0 <= v /\ u - 0 = u /\ w - 0 = w
    BY <2>1, <2>2
  <2>8. CASE i \in S
    <3>1. At(S, f, i) = u /\ At(S, h, i) = w
      BY <2>6, <2>7, <2>8 DEF At
    <3> QED BY <2>1, <2>3, <2>4, <2>7, <3>1
  <2>9. CASE i \notin S
    <3>1. At(S, f, i) = 0 /\ At(S, h, i) = 0 /\ At(R, g, i) = 0
      BY <2>4, <2>5, <2>9 DEF At
    <3> QED BY <3>1
  <2> QED BY <2>8, <2>9
<1>5. BytesIn(o, s) = SumAt(R, g, n)
  BY DEF BytesIn
<1> HIDE DEF n, R, g, f, h
<1>6. Numbers(S, f, n) /\ Numbers(R, g, n) /\ Numbers(S, h, n)
  BY <1>1, <1>4 DEF Numbers
<1>7. SumAt(S, f, n) + SumAt(R, g, n) <= SumAt(S, h, n)
  BY <1>4, <1>6, SumsBelow
<1>8. n \in 0 .. n
  BY <1>1
<1>9. SumAt(S, f, n) \in Int /\ SumAt(R, g, n) \in Int /\ SumAt(S, h, n) \in Int
  BY <1>6, <1>8, SumInt
<1> QED BY <1>5, <1>7, <1>9 DEF n, f, h

(* It adds no less, but for a rounding of each, when they succeeded and    *)
(* took some time.                                                         *)
LEMMA SegmentAddsAtLeast ==
    ASSUME NEW V, NEW o, Sized(V, o), NEW s, AnyType(s), NEW m \in Nat,
           NEW S \in SUBSET (1 .. Len(o)), \A i \in S : ~o[i].err /\ Dur(o[i]) > 0
    PROVE  /\ BytesIn(o, s) \in Int
           /\ SumAt(S, Upto(o, s.start, m), Len(o)) \in Int
           /\ SumAt(S, Upto(o, s.ends, m + 1), Len(o)) \in Int
           /\ SumAt(S, Upto(o, s.ends, m + 1), Len(o))
                <= SumAt(S, Upto(o, s.start, m), Len(o)) + BytesIn(o, s)
<1> DEFINE n == Len(o)
           R == In(o, s)
           g == [i \in R |-> Bytes(o[i], s)]
           f == Upto(o, s.start, m)
           h == Upto(o, s.ends, m + 1)
<1>1. n \in Nat /\ \A i \in 1 .. n : Times(o[i]) /\ o[i].size \in Nat
  BY SizedIs
<1>2. s.start \in Nat /\ s.ends \in Nat
  BY DEF AnyType, Segmental
<1>3. /\ R \in SUBSET (1 .. n) /\ \A i \in R : InSegment(o[i], s)
      /\ \A i \in 1 .. n : InSegment(o[i], s) => i \in R \/ o[i].end <= s.start
  BY InIs
<1>4. ASSUME NEW i \in 1 .. n
      PROVE  /\ At(S, f, i) \in Int /\ At(R, g, i) \in Int /\ At(S, h, i) \in Int
             /\ At(S, h, i) <= At(S, f, i) + At(R, g, i)
  <2> DEFINE u == UpTo(o[i], s.start)
             w == UpTo(o[i], s.ends)
             v == Charge(o[i], s)
             z == o[i].size
  <2>1. v \in Nat /\ u + v <= w
    BY <1>1, ChargeIsBetween
  <2>2. u \in 0 .. z /\ w \in 0 .. z /\ z \in Nat
    BY <1>1, <1>2, UpToShare
  <2>3. i \in R => At(R, g, i) = v
    BY <1>3 DEF At, Charge
  <2>4. i \notin R => At(R, g, i) = 0
    BY DEF At
  <2>6. f[i] = u - m /\ h[i] = w - (m + 1)
    BY DEF Upto
  <2>7. CASE i \in S
    <3>1. At(S, f, i) = u - m /\ At(S, h, i) = w - (m + 1)
      BY <2>6, <2>7 DEF At
    <3>2. w <= u + v + 1
      BY <1>1, <2>7, ChargeIsBetween
    <3>3. CASE i \in R
      <4> HIDE DEF u, v, w, z, f, g, h, R
      <4> QED BY <2>1, <2>2, <2>3, <3>1, <3>2, <3>3
    <3>4. CASE i \notin R
      <4>1. v = 0 \/ o[i].end <= s.start
        BY <1>3, <3>4 DEF Charge
      <4>2. CASE v = 0
        <5> HIDE DEF u, v, w, z, f, g, h, R
        <5> QED BY <2>1, <2>2, <2>4, <3>1, <3>2, <3>4, <4>2
      <4>3. CASE o[i].end <= s.start
        <5>1. u = z
          <6> DEFINE a == o[i].start
                     b == o[i].end
                     c == s.start
                     d == Dur(o[i])
          <6>1. a \in Nat /\ b \in Nat /\ d = b - a /\ d > 0 /\ c \in Nat /\ b <= c
            BY <1>1, <1>2, <2>7, <4>3 DEF Times, Dur
          <6>2. u = IF b < c THEN z ELSE IF a >= c THEN 0 ELSE (z * (c - a)) \div d
            BY DEF UpTo
          <6> HIDE DEF a, b, c, d, u, z
          <6>3. (z * d) \div d = z
            BY <2>2, <6>1, WholeShare
          <6>4. CASE b < c
            BY <6>2, <6>4
          <6>5. CASE b = c
            <7>1. c - a = d /\ ~(b < c) /\ ~(a >= c)
              BY <6>1, <6>5
            <7> QED BY <6>2, <6>3, <7>1
          <6> QED BY <6>1, <6>4, <6>5
        <5> HIDE DEF u, v, w, z, f, g, h, R
        <5> QED BY <2>1, <2>2, <2>4, <3>1, <3>4, <5>1
      <4> QED BY <4>1, <4>2, <4>3
    <3> QED BY <3>3, <3>4
  <2>8. CASE i \notin S
    <3>1. At(S, f, i) = 0 /\ At(S, h, i) = 0
      BY <2>8 DEF At
    <3> HIDE DEF u, v, w, z, f, g, h, R
    <3> QED BY <2>1, <2>3, <2>4, <3>1
  <2> QED BY <2>7, <2>8
<1>5. BytesIn(o, s) = SumAt(R, g, n)
  BY DEF BytesIn
<1> HIDE DEF n, R, g, f, h
<1>6. Numbers(S, f, n) /\ Numbers(R, g, n) /\ Numbers(S, h, n)
  BY <1>1, <1>4 DEF Numbers
<1>7. SumAt(S, h, n) <= SumAt(S, f, n) + SumAt(R, g, n)
  BY <1>4, <1>6, SumsAbove
<1>8. n \in 0 .. n
  BY <1>1
<1>9. SumAt(S, f, n) \in Int /\ SumAt(R, g, n) \in Int /\ SumAt(S, h, n) \in Int
  BY <1>6, <1>8, SumInt
<1> QED BY <1>5, <1>7, <1>9 DEF n, f, h
-----------------------------------------------------------------------------
(* Sums of what is nowhere negative, or nowhere positive.                  *)
LEMMA SumSign ==
    ASSUME NEW S, NEW f, NEW n, Numbers(S, f, n)
    PROVE  /\ (\A i \in 1 .. n : 0 <= At(S, f, i)) => 0 <= SumAt(S, f, n)
           /\ (\A i \in 1 .. n : At(S, f, i) <= 0) => SumAt(S, f, n) <= 0
<1> DEFINE g == [i \in {} |-> 0]
           c == SumAt({}, g, n)
<1>1. n \in Nat /\ 0 \in Nat /\ {} \in SUBSET (1 .. n) /\ \A i \in {} : g[i] = 0
  BY DEF Numbers
<1>2. c = 0
  <2>1. c = 0 * Cardinality({})
    <3> HIDE DEF g
    <3> QED BY <1>1, SumConst
  <2>2. Cardinality({}) = 0
    BY FS_EmptySet, Zenon
  <2> HIDE DEF c
  <2> QED BY <2>1, <2>2
<1>3. Numbers({}, g, n) /\ \A i \in 1 .. n : At({}, g, i) = 0
  BY <1>1 DEF Numbers, At
<1> HIDE DEF g
<1>4. (\A i \in 1 .. n : At({}, g, i) <= At(S, f, i)) => c <= SumAt(S, f, n)
  BY <1>3, SumLess
<1>5. (\A i \in 1 .. n : At(S, f, i) <= At({}, g, i)) => SumAt(S, f, n) <= c
  BY <1>3, SumLess
<1> HIDE DEF c
<1> QED BY <1>2, <1>3, <1>4, <1>5

(* Where the segments that begin at first meet, and segment k.             *)
Edge(first, d, k) == first + k * d
Piece(first, d, k) ==
    [NoSegment EXCEPT !.type = "", !.start = Edge(first, d, k - 1), !.ends = Edge(first, d, k)]

LEMMA EdgeIs ==
    ASSUME NEW first \in Nat, NEW d \in Nat \ {0}, NEW k \in Nat
    PROVE  /\ Edge(first, d, k) \in Nat /\ Edge(first, d, 0) = first
           /\ Edge(first, d, k + 1) = Edge(first, d, k) + d
BY DEF Edge

LEMMA EdgesOrdered ==
    ASSUME NEW first \in Nat, NEW d \in Nat \ {0}, NEW n \in Nat, NEW k \in 0 .. n
    PROVE  /\ Edge(first, d, k) <= Edge(first, d, n)
           /\ first <= Edge(first, d, k)
           /\ k # n => Edge(first, d, k + 1) <= Edge(first, d, n)
<1>1. k * d \in Nat /\ n * d \in Nat /\ k * d <= n * d
  OBVIOUS
<1>2. k # n => (k + 1) * d \in Nat /\ (k + 1) * d <= n * d
  <2>1. k # n => k + 1 \in 0 .. n
    OBVIOUS
  <2>2. \A j \in 0 .. n : j * d \in Nat /\ j * d <= n * d
    OBVIOUS
  <2> QED BY <2>1, <2>2
<1> QED BY <1>1, <1>2 DEF Edge

LEMMA PieceIs ==
    ASSUME NEW first \in Nat, NEW d \in Nat \ {0}, NEW k \in Nat
    PROVE  /\ AnyType(Piece(first, d, k + 1))
           /\ Piece(first, d, k + 1).start = Edge(first, d, k)
           /\ Piece(first, d, k + 1).ends = Edge(first, d, k + 1)
<1> DEFINE a == Edge(first, d, k)
           b == Edge(first, d, k + 1)
           s == Piece(first, d, k + 1)
<1>1. a \in Nat /\ b \in Nat /\ a < b /\ (k + 1) - 1 = k
  BY EdgeIs
<1>2. s = [NoSegment EXCEPT !.type = "", !.start = a, !.ends = b]
  BY <1>1 DEF Piece
<1> HIDE DEF a, b, s
<1>3. s.type = "" /\ s.start = a /\ s.ends = b
  BY <1>2 DEF NoSegment
<1> QED BY <1>1, <1>3 DEF AnyType, Segmental, a, b, s

(* segs is a chain of n segments of length d over the operations o.        *)
Chain(o, segs, n, first, d) ==
    /\ n \in Nat /\ first \in Nat /\ d \in Nat \ {0} /\ Len(segs) = n
    /\ \A k \in 1 .. n : /\ segs[k].start = Edge(first, d, k - 1)
                         /\ segs[k].ends = Edge(first, d, k)
                         /\ segs[k].bytes = BytesIn(o, Piece(first, d, k))
                         /\ segs[k].ended = Cardinality(Ended(o, Piece(first, d, k)))

(* What the segments of a chain hold.                                      *)
BytesOf(segs) == [k \in Idx(segs) |-> segs[k].bytes]
EndedOf(segs) == [k \in Idx(segs) |-> segs[k].ended]

(* They are added up one after the other.                                  *)
LEMMA ChainBytes ==
    ASSUME NEW o, NEW segs, NEW n, NEW first, NEW d, Chain(o, segs, n, first, d)
    PROVE  /\ n \in Nat /\ first \in Nat /\ d \in Nat \ {0}
           /\ SumAt(Idx(segs), BytesOf(segs), 0) = 0
           /\ \A m \in 0 .. n - 1 :
                 SumAt(Idx(segs), BytesOf(segs), m + 1)
                   = SumAt(Idx(segs), BytesOf(segs), m)
                       + BytesIn(o, Piece(first, d, m + 1))
<1> DEFINE b == BytesOf(segs)
           I == Idx(segs)
<1>1. /\ n \in Nat /\ first \in Nat /\ d \in Nat \ {0} /\ I = 1 .. n
      /\ \A k \in 1 .. n : segs[k].bytes = BytesIn(o, Piece(first, d, k))
  BY DEF Chain, Idx
<1>2. ASSUME NEW m \in 0 .. n - 1
      PROVE  At(I, b, m + 1) = BytesIn(o, Piece(first, d, m + 1))
  <2>1. m + 1 \in 1 .. n
    BY <1>1
  <2> QED BY <1>1, <2>1 DEF At, BytesOf
<1> HIDE DEF b, I
<1>3. SumAt(I, b, 0) = 0
  BY SumSteps
<1>4. ASSUME NEW m \in 0 .. n - 1
      PROVE  SumAt(I, b, m + 1) = SumAt(I, b, m) + At(I, b, m + 1)
  <2>1. m \in Nat
    BY <1>1
  <2> QED BY <2>1, SumSteps
<1>5. \A m \in 0 .. n - 1 :
        SumAt(I, b, m + 1) = SumAt(I, b, m) + BytesIn(o, Piece(first, d, m + 1))
  BY <1>2, <1>4
<1> QED BY <1>1, <1>3, <1>5 DEF b, I

LEMMA ChainEnded ==
    ASSUME NEW o, NEW segs, NEW n, NEW first, NEW d, Chain(o, segs, n, first, d)
    PROVE  /\ n \in Nat /\ first \in Nat /\ d \in Nat \ {0}
           /\ SumAt(Idx(segs), EndedOf(segs), 0) = 0
           /\ \A m \in 0 .. n - 1 :
                 SumAt(Idx(segs), EndedOf(segs), m + 1)
                   = SumAt(Idx(segs), EndedOf(segs), m)
                       + Cardinality(Ended(o, Piece(first, d, m + 1)))
<1> DEFINE b == EndedOf(segs)
           I == Idx(segs)
<1>1. /\ n \in Nat /\ first \in Nat /\ d \in Nat \ {0} /\ I = 1 .. n
      /\ \A k \in 1 .. n : segs[k].ended = Cardinality(Ended(o, Piece(first, d, k)))
  BY DEF Chain, Idx
<1>2. ASSUME NEW m \in 0 .. n - 1
      PROVE  At(I, b, m + 1) = Cardinality(Ended(o, Piece(first, d, m + 1)))
  <2>1. m + 1 \in 1 .. n
    BY <1>1
  <2> QED BY <1>1, <2>1 DEF At, EndedOf
<1> HIDE DEF b, I
<1>3. SumAt(I, b, 0) = 0
  BY SumSteps
<1>4. ASSUME NEW m \in 0 .. n - 1
      PROVE  SumAt(I, b, m + 1) = SumAt(I, b, m) + At(I, b, m + 1)
  <2>1. m \in Nat
    BY <1>1
  <2> QED BY <2>1, SumSteps
<1>5. \A m \in 0 .. n - 1 :
        SumAt(I, b, m + 1) = SumAt(I, b, m) + Cardinality(Ended(o, Piece(first, d, m + 1)))
  BY <1>2, <1>4
<1> QED BY <1>1, <1>3, <1>5 DEF b, I
-----------------------------------------------------------------------------
(* What a chain counts is at most what the operations S moved, if they are *)
(* all it touches ...                                                      *)
LEMMA ChainCountsAtMost ==
    ASSUME NEW V, NEW o, Sized(V, o), NEW segs, NEW n, NEW first, NEW d,
           Chain(o, segs, n, first, d), NEW S \in SUBSET (1 .. Len(o)),
           \A i \in 1 .. Len(o) : o[i].start < Edge(first, d, n) /\ o[i].end >= first => i \in S
    PROVE  SumAt(Idx(segs), BytesOf(segs), n)
             <= SumAt(S, [i \in Idx(o) |-> o[i].size], Len(o))
<1> DEFINE I == Idx(segs)
           b == BytesOf(segs)
           edge(m) == Edge(first, d, m)
           sizes == [i \in Idx(o) |-> o[i].size]
<1>0. n \in Nat /\ first \in Nat /\ d \in Nat \ {0}
  BY ChainBytes
<1>1. /\ Len(o) \in Nat /\ Idx(o) = 1 .. Len(o)
      /\ \A i \in 1 .. Len(o) : Times(o[i]) /\ o[i].size \in Nat
  BY SizedIs
<1>9. ASSUME NEW m \in 0 .. n - 1
      PROVE  SumAt(I, b, m + 1) = SumAt(I, b, m) + BytesIn(o, Piece(first, d, m + 1))
  BY ChainBytes
<1>10. ASSUME NEW m \in 0 .. n - 1
       PROVE  /\ edge(n) \in Nat /\ edge(m) \in Nat /\ edge(m + 1) \in Nat
              /\ first <= edge(m) /\ edge(m + 1) <= edge(n)
  <2>1. m \in 0 .. n /\ m # n /\ m \in Nat /\ m + 1 \in Nat
    BY <1>0
  <2>2. edge(n) \in Nat /\ edge(m) \in Nat
    BY <1>0, <2>1, EdgeIs
  <2>3. edge(m + 1) \in Nat
    BY <1>0, <2>1, EdgeIs
  <2>4. first <= edge(m) /\ edge(m + 1) <= edge(n)
    BY <1>0, <2>1, EdgesOrdered
  <2> QED BY <2>2, <2>3, <2>4
<1> DEFINE bytes(m) == SumAt(I, b, m)
           upto(m) == SumAt(S, Upto(o, edge(m), 0), Len(o))
           J == {m \in 0 .. n : bytes(m) \in Int /\ upto(m) \in Int /\ bytes(m) <= upto(m)}
<1>2. ASSUME NEW m \in Nat
      PROVE  /\ Numbers(S, Upto(o, edge(m), 0), Len(o))
             /\ \A i \in 1 .. Len(o) : 0 <= At(S, Upto(o, edge(m), 0), i)
             /\ \A i \in 1 .. Len(o) : At(S, Upto(o, edge(m), 0), i) <= At(S, sizes, i)
  <2> DEFINE e == edge(m)
             f == Upto(o, e, 0)
  <2>1. e \in Nat
    BY <1>0, EdgeIs
  <2>2. ASSUME NEW i \in 1 .. Len(o)
        PROVE  At(S, f, i) \in Nat /\ At(S, f, i) <= At(S, sizes, i)
    <3> DEFINE u == UpTo(o[i], e)
               z == o[i].size
    <3>1. u \in 0 .. z /\ z \in Nat
      BY <1>1, <2>1, UpToShare
    <3>2. f[i] = u - 0 /\ sizes[i] = z
      BY <1>1 DEF Upto
    <3> HIDE DEF u, z, f, sizes
    <3>3. f[i] \in Nat /\ f[i] <= sizes[i]
      BY <3>1, <3>2
    <3> QED BY <3>3 DEF At
  <2> HIDE DEF f, sizes
  <2>3. Numbers(S, f, Len(o))
    BY <1>1, <2>2 DEF Numbers
  <2>4. \A i \in 1 .. Len(o) : 0 <= At(S, f, i) /\ At(S, f, i) <= At(S, sizes, i)
    BY <2>2
  <2> QED BY <2>3, <2>4 DEF f
<1>3. 0 \in J
  <2>1. bytes(0) = 0
    BY ChainBytes
  <2>2. upto(0) \in Int /\ 0 <= upto(0)
    <3>1. 0 \in Nat /\ Len(o) \in 0 .. Len(o)
      BY <1>1
    <3> HIDE DEF edge, sizes
    <3>2. /\ Numbers(S, Upto(o, edge(0), 0), Len(o))
          /\ \A i \in 1 .. Len(o) : 0 <= At(S, Upto(o, edge(0), 0), i)
      BY <1>2
    <3> QED BY <3>1, <3>2, SumInt, SumSign
  <2> HIDE DEF bytes, upto
  <2> QED BY <1>0, <2>1, <2>2
<1>4. ASSUME NEW m \in 0 .. n - 1, m \in J PROVE m + 1 \in J
  <2> DEFINE s == Piece(first, d, m + 1)
  <2>0. m \in Nat /\ m + 1 \in 0 .. n /\ m \in 0 .. n /\ m # n
    BY <1>0
  <2>1. AnyType(s) /\ s.start = edge(m) /\ s.ends = edge(m + 1)
    BY <1>0, <2>0, PieceIs
  <2>2. In(o, s) \subseteq S
    <3> SUFFICES ASSUME NEW i \in In(o, s) PROVE i \in S
      OBVIOUS
    <3>1. /\ edge(n) \in Nat /\ edge(m) \in Nat /\ edge(m + 1) \in Nat
          /\ first <= edge(m) /\ edge(m + 1) <= edge(n)
      BY <1>10
    <3>2. i \in 1 .. Len(o) /\ InSegment(o[i], s)
      BY InIs
    <3>3. Times(o[i])
      BY <1>1, <3>2
    <3>4. o[i].start < s.ends /\ o[i].end >= s.start
      BY <3>2 DEF InSegment
    <3>5. o[i].start < edge(n) /\ o[i].end >= first
      <4> DEFINE x == o[i].start
                 y == o[i].end
      <4>1. x \in Nat /\ y \in Nat
        BY <3>3 DEF Times
      <4>2. x < edge(m + 1) /\ y >= edge(m)
        BY <2>1, <3>4
      <4> HIDE DEF x, y, edge
      <4>3. x < edge(n) /\ y >= first
        BY <1>0, <3>1, <4>1, <4>2
      <4> QED BY <4>3 DEF x, y
    <3> QED BY <3>2, <3>5
  <2>3. bytes(m + 1) = bytes(m) + BytesIn(o, s)
    BY <1>9
  <2>4. BytesIn(o, s) \in Int /\ upto(m) \in Int /\ upto(m + 1) \in Int
        /\ upto(m) + BytesIn(o, s) <= upto(m + 1)
    <3> HIDE DEF s, edge
    <3>1. /\ BytesIn(o, s) \in Int
          /\ SumAt(S, Upto(o, s.start, 0), Len(o)) \in Int
          /\ SumAt(S, Upto(o, s.ends, 0), Len(o)) \in Int
          /\ SumAt(S, Upto(o, s.start, 0), Len(o)) + BytesIn(o, s)
               <= SumAt(S, Upto(o, s.ends, 0), Len(o))
      BY <2>1, <2>2, SegmentAddsAtMost
    <3> QED BY <2>1, <3>1
  <2>5. bytes(m) \in Int /\ bytes(m) <= upto(m)
    BY <1>4
  <2> HIDE DEF bytes, upto, s
  <2>6. bytes(m + 1) \in Int /\ bytes(m + 1) <= upto(m + 1)
    BY <2>3, <2>4, <2>5
  <2> QED BY <2>0, <2>4, <2>6
<1>5. \A m \in 0 .. n : m \in J
  <2> HIDE DEF J
  <2> QED BY <1>0, <1>3, <1>4, Induction
<1>6. bytes(n) \in Int /\ upto(n) \in Int /\ bytes(n) <= upto(n)
  <2>1. n \in J
    BY <1>0, <1>5
  <2> HIDE DEF bytes, upto
  <2> QED BY <2>1
<1>7. upto(n) <= SumAt(S, sizes, Len(o)) /\ SumAt(S, sizes, Len(o)) \in Int
  <2> DEFINE f == Upto(o, edge(n), 0)
  <2>1. /\ Numbers(S, f, Len(o))
        /\ \A i \in 1 .. Len(o) : At(S, f, i) <= At(S, sizes, i)
    BY <1>0, <1>2
  <2>2. Numbers(S, sizes, Len(o))
    BY <1>1 DEF Numbers, At
  <2>3. Len(o) \in 0 .. Len(o)
    BY <1>1
  <2> HIDE DEF f, sizes
  <2>4. SumAt(S, f, Len(o)) <= SumAt(S, sizes, Len(o))
    BY <2>1, <2>2, SumLess
  <2>5. SumAt(S, sizes, Len(o)) \in Int
    BY <2>2, <2>3, SumInt
  <2> QED BY <2>4, <2>5 DEF f
<1> HIDE DEF bytes, upto, sizes
<1>8. bytes(n) <= SumAt(S, sizes, Len(o))
  BY <1>6, <1>7
<1> QED BY <1>8 DEF bytes, sizes

(* ... and at least what those inside moved, but for a rounding by each    *)
(* segment.                                                                *)
LEMMA ChainCountsAtLeast ==
    ASSUME NEW V, NEW o, Sized(V, o), NEW segs, NEW n, NEW first, NEW d,
           Chain(o, segs, n, first, d), NEW S \in SUBSET (1 .. Len(o)),
           \A i \in S : ~o[i].err /\ Dur(o[i]) > 0,
           \A i \in S : o[i].start >= first /\ o[i].end < Edge(first, d, n)
    PROVE  SumAt(S, [i \in Idx(o) |-> o[i].size], Len(o))
             <= SumAt(Idx(segs), BytesOf(segs), n) + n * Cardinality(S)
<1> DEFINE I == Idx(segs)
           b == BytesOf(segs)
           edge(m) == Edge(first, d, m)
           sizes == [i \in Idx(o) |-> o[i].size]
<1>0. n \in Nat /\ first \in Nat /\ d \in Nat \ {0}
  BY ChainBytes
<1>1. /\ Len(o) \in Nat /\ Idx(o) = 1 .. Len(o)
      /\ \A i \in 1 .. Len(o) : Times(o[i]) /\ o[i].size \in Nat
  BY SizedIs
<1>9. ASSUME NEW m \in 0 .. n - 1
      PROVE  SumAt(I, b, m + 1) = SumAt(I, b, m) + BytesIn(o, Piece(first, d, m + 1))
  BY ChainBytes
<1> DEFINE bytes(m) == SumAt(I, b, m)
           upto(m) == SumAt(S, Upto(o, edge(m), m), Len(o))
           J == {m \in 0 .. n : bytes(m) \in Int /\ upto(m) \in Int /\ upto(m) <= bytes(m)}
<1>2. ASSUME NEW m \in Nat
      PROVE  Numbers(S, Upto(o, edge(m), m), Len(o))
  <2> DEFINE e == edge(m)
             f == Upto(o, e, m)
  <2>1. e \in Nat
    BY <1>0, EdgeIs
  <2>2. ASSUME NEW i \in 1 .. Len(o) PROVE At(S, f, i) \in Int
    <3> DEFINE u == UpTo(o[i], e)
               z == o[i].size
    <3>1. u \in 0 .. z /\ z \in Nat
      BY <1>1, <2>1, UpToShare
    <3>2. f[i] = u - m
      BY <1>1 DEF Upto
    <3> HIDE DEF u, z, f
    <3>3. f[i] \in Int
      BY <3>1, <3>2
    <3> QED BY <3>3 DEF At
  <2> HIDE DEF f
  <2>3. Numbers(S, f, Len(o))
    BY <1>1, <2>2 DEF Numbers
  <2> QED BY <2>3 DEF f
<1>3. 0 \in J
  <2>1. bytes(0) = 0
    BY ChainBytes
  <2>2. upto(0) \in Int /\ upto(0) <= 0
    <3> DEFINE f == Upto(o, first, 0)
    <3>1. 0 \in Nat /\ Len(o) \in 0 .. Len(o) /\ edge(0) = first
      BY <1>0, <1>1, EdgeIs
    <3>2. Numbers(S, f, Len(o))
      BY <1>2, <3>1
    <3>3. ASSUME NEW i \in 1 .. Len(o) PROVE At(S, f, i) <= 0
      <4>1. CASE i \in S
        <5>1. /\ o[i].start \in Nat /\ o[i].end \in Nat /\ o[i].start <= o[i].end
              /\ o[i].start >= first
          BY <1>1, <4>1 DEF Times
        <5>2. UpTo(o[i], first) = 0
          BY <1>0, <5>1 DEF UpTo
        <5>3. f[i] = 0
          BY <5>2 DEF Upto
        <5> QED BY <4>1, <5>3 DEF At
      <4>2. CASE i \notin S
        BY <4>2 DEF At
      <4> QED BY <4>1, <4>2
    <3>4. upto(0) = SumAt(S, f, Len(o))
      BY <3>1
    <3> HIDE DEF f, upto
    <3>5. SumAt(S, f, Len(o)) \in Int /\ SumAt(S, f, Len(o)) <= 0
      BY <3>1, <3>2, <3>3, SumInt, SumSign
    <3> QED BY <3>4, <3>5
  <2> HIDE DEF bytes, upto
  <2> QED BY <1>0, <2>1, <2>2
<1>4. ASSUME NEW m \in 0 .. n - 1, m \in J PROVE m + 1 \in J
  <2> DEFINE s == Piece(first, d, m + 1)
  <2>0. m \in Nat /\ m + 1 \in 0 .. n /\ m \in 0 .. n /\ m # n
    BY <1>0
  <2>1. AnyType(s) /\ s.start = edge(m) /\ s.ends = edge(m + 1)
    BY <1>0, <2>0, PieceIs
  <2>3. bytes(m + 1) = bytes(m) + BytesIn(o, s)
    BY <1>9
  <2>4. BytesIn(o, s) \in Int /\ upto(m) \in Int /\ upto(m + 1) \in Int
        /\ upto(m + 1) <= upto(m) + BytesIn(o, s)
    <3> HIDE DEF s, edge
    <3>1. /\ BytesIn(o, s) \in Int
          /\ SumAt(S, Upto(o, s.start, m), Len(o)) \in Int
          /\ SumAt(S, Upto(o, s.ends, m + 1), Len(o)) \in Int
          /\ SumAt(S, Upto(o, s.ends, m + 1), Len(o))
               <= SumAt(S, Upto(o, s.start, m), Len(o)) + BytesIn(o, s)
      BY <2>0, <2>1, SegmentAddsAtLeast
    <3> QED BY <2>1, <3>1
  <2>5. bytes(m) \in Int /\ upto(m) <= bytes(m)
    BY <1>4
  <2> HIDE DEF bytes, upto, s
  <2>6. bytes(m + 1) \in Int /\ upto(m + 1) <= bytes(m + 1)
    BY <2>3, <2>4, <2>5
  <2> QED BY <2>0, <2>4, <2>6
<1>5. \A m \in 0 .. n : m \in J
  <2> HIDE DEF J
  <2> QED BY <1>0, <1>3, <1>4, Induction
<1>6. bytes(n) \in Int /\ upto(n) \in Int /\ upto(n) <= bytes(n)
  <2>1. n \in J
    BY <1>0, <1>5
  <2> HIDE DEF bytes, upto
  <2> QED BY <2>1
<1>7. /\ SumAt(S, sizes, Len(o)) <= upto(n) + n * Cardinality(S)
      /\ SumAt(S, sizes, Len(o)) \in Int /\ n * Cardinality(S) \in Int
  <2> DEFINE f == Upto(o, edge(n), n)
             g == [i \in S |-> n]
  <2>1. Numbers(S, f, Len(o))
    BY <1>0, <1>2
  <2>2. Numbers(S, sizes, Len(o))
    BY <1>1 DEF Numbers, At
  <2>3. Numbers(S, g, Len(o)) /\ Len(o) \in 0 .. Len(o)
    BY <1>0, <1>1 DEF Numbers, At
  <2>4. ASSUME NEW i \in 1 .. Len(o)
        PROVE  At(S, sizes, i) <= At(S, f, i) + At(S, g, i)
    <3>1. CASE i \in S
      <4>1. UpTo(o[i], edge(n)) = o[i].size
        BY <3>1 DEF UpTo
      <4>2. f[i] = o[i].size - n /\ g[i] = n /\ sizes[i] = o[i].size /\ o[i].size \in Nat
        BY <1>1, <3>1, <4>1 DEF Upto
      <4> HIDE DEF f, g, sizes
      <4>3. sizes[i] <= f[i] + g[i]
        BY <1>0, <4>2
      <4> QED BY <3>1, <4>3 DEF At
    <3>2. CASE i \notin S
      BY <3>2 DEF At
    <3> QED BY <3>1, <3>2
  <2>5. \A i \in S : g[i] = n
    OBVIOUS
  <2> HIDE DEF f, g, sizes
  <2>6. SumAt(S, sizes, Len(o)) <= SumAt(S, f, Len(o)) + SumAt(S, g, Len(o))
    BY <2>1, <2>2, <2>3, <2>4, SumsAbove
  <2>7. SumAt(S, g, Len(o)) = n * Cardinality(S)
    BY <1>0, <1>1, <2>5, SumConst
  <2>8. SumAt(S, sizes, Len(o)) \in Int /\ SumAt(S, g, Len(o)) \in Int
    BY <2>2, <2>3, SumInt
  <2> QED BY <2>6, <2>7, <2>8 DEF f
<1> HIDE DEF bytes, upto, sizes
<1> DEFINE c == n * Cardinality(S)
<1>8. SumAt(S, sizes, Len(o)) <= bytes(n) + c
  <2>1. /\ SumAt(S, sizes, Len(o)) <= upto(n) + c
        /\ SumAt(S, sizes, Len(o)) \in Int /\ c \in Int
    BY <1>7
  <2> HIDE DEF c
  <2> QED BY <1>6, <2>1
<1> QED BY <1>8 DEF bytes, sizes
-----------------------------------------------------------------------------
(* Parts of finitely many positions: two apart in a third, and a third     *)
(* that is in two.                                                         *)
LEMMA CardParts ==
    ASSUME NEW n \in Nat, NEW A \in SUBSET (1 .. n), NEW B \in SUBSET (1 .. n),
           NEW C \in SUBSET (1 .. n)
    PROVE  /\ Cardinality(A) \in Nat /\ Cardinality(B) \in Nat /\ Cardinality(C) \in Nat
           /\ A \cap B = {} /\ A \cup B \subseteq C =>
                 Cardinality(A) + Cardinality(B) <= Cardinality(C)
           /\ C \subseteq A \cup B => Cardinality(C) <= Cardinality(A) + Cardinality(B)
<1>1. 1 \in Int /\ n \in Int
  OBVIOUS
<1>2. IsFiniteSet(1 .. n)
  BY <1>1, FS_Interval, Zenon
<1>3. IsFiniteSet(A) /\ IsFiniteSet(B) /\ IsFiniteSet(C)
  BY <1>2, FS_Subset, Zenon
<1>4. Cardinality(A) \in Nat /\ Cardinality(B) \in Nat /\ Cardinality(C) \in Nat
  BY <1>3, FS_CardinalityType
<1>5. /\ IsFiniteSet(A \cup B) /\ IsFiniteSet(A \cap B)
      /\ Cardinality(A \cup B) = Cardinality(A) + Cardinality(B) - Cardinality(A \cap B)
  <2>1. IsFiniteSet(A \cap B)
    BY <1>3, FS_Intersection, Zenon
  <2> QED BY <1>3, <2>1, FS_Union, Zenon
<1>6. A \cup B \subseteq C => Cardinality(A \cup B) <= Cardinality(C)
  BY <1>3, FS_Subset, Zenon
<1>7. C \subseteq A \cup B => Cardinality(C) <= Cardinality(A \cup B)
  BY <1>5, FS_Subset, Zenon
<1>8. A \cap B = {} => Cardinality(A \cap B) = 0
  BY FS_EmptySet, Zenon
<1>9. Cardinality(A \cap B) \in Nat /\ Cardinality(A \cup B) \in Nat
  BY <1>5, FS_CardinalityType
<1> DEFINE a == Cardinality(A)
           b == Cardinality(B)
           c == Cardinality(C)
           u == Cardinality(A \cup B)
           i == Cardinality(A \cap B)
<1>10. /\ a \in Nat /\ b \in Nat /\ c \in Nat /\ u \in Nat /\ i \in Nat /\ u = a + b - i
       /\ A \cap B = {} => i = 0
       /\ A \cup B \subseteq C => u <= c
       /\ C \subseteq A \cup B => c <= u
  BY <1>4, <1>5, <1>6, <1>7, <1>8, <1>9
<1> HIDE DEF a, b, c, u, i
<1>11. /\ A \cap B = {} /\ A \cup B \subseteq C => a + b <= c
       /\ C \subseteq A \cup B => c <= a + b
  BY <1>10
<1> QED BY <1>10, <1>11 DEF a, b, c

(* What ends in a segment is counted there, ...                            *)
LEMMA EndedIs ==
    ASSUME NEW V, NEW o, Sized(V, o), NEW s, AnyType(s)
    PROVE  /\ Ended(o, s) \in SUBSET (1 .. Len(o))
           /\ \A i \in Ended(o, s) : /\ o[i].start < s.ends
                                     /\ s.start <= o[i].end /\ o[i].end < s.ends
           /\ \A i \in 1 .. Len(o) :
                 ~o[i].err /\ s.start < o[i].end /\ o[i].end < s.ends => i \in Ended(o, s)
<1>1. /\ In(o, s) \in SUBSET (1 .. Len(o))
      /\ \A i \in In(o, s) : InSegment(o[i], s)
      /\ \A i \in 1 .. Len(o) : InSegment(o[i], s) => i \in In(o, s) \/ o[i].end <= s.start
  BY InIs
<1>2. \A i \in Ended(o, s) : i \in In(o, s) /\ EndedIn(o[i], s)
  BY DEF Ended, Whole
<1>3. \A i \in 1 .. Len(o) : Times(o[i])
  BY SizedIs
<1>4. s.start \in Nat /\ s.ends \in Nat /\ s.start < s.ends
  BY DEF AnyType, Segmental
<1>5. ASSUME NEW i \in Ended(o, s)
      PROVE  /\ i \in 1 .. Len(o) /\ o[i].start < s.ends
             /\ s.start <= o[i].end /\ o[i].end < s.ends
  <2>1. i \in In(o, s) /\ EndedIn(o[i], s)
    BY <1>2
  <2>2. i \in 1 .. Len(o) /\ InSegment(o[i], s)
    BY <1>1, <2>1
  <2>3. Times(o[i])
    BY <1>3, <2>2
  <2>4. o[i].start < s.ends /\ o[i].end >= s.start /\ o[i].end < s.ends
    BY <2>1, <2>2 DEF InSegment, EndedIn
  <2>5. o[i].end \in Nat
    BY <2>3 DEF Times
  <2> QED BY <1>4, <2>2, <2>4, <2>5
<1>6. ASSUME NEW i \in 1 .. Len(o), ~o[i].err, s.start < o[i].end, o[i].end < s.ends
      PROVE  i \in Ended(o, s)
  <2>1. Times(o[i])
    BY <1>3
  <2>2. o[i].start < s.ends /\ o[i].end >= s.start /\ ~(o[i].end <= s.start)
    BY <1>4, <1>6, <2>1 DEF Times
  <2>3. s.type \in {"", o[i].type}
    BY DEF AnyType
  <2>4. InSegment(o[i], s)
    BY <2>2, <2>3, Zenon DEF InSegment
  <2>5. i \in In(o, s)
    BY <1>1, <2>2, <2>4
  <2>6. EndedIn(o[i], s)
    BY <1>6 DEF EndedIn
  <2> QED BY <1>6, <2>5, <2>6, Zenon DEF Ended
<1> QED BY <1>5, <1>6

(* ... once: no more than the operations S, if they are all that is        *)
(* touched, and no fewer than those that succeed inside a segment.         *)
LEMMA ChainEndsOnce ==
    ASSUME NEW V, NEW o, Sized(V, o), NEW segs, NEW n, NEW first, NEW d,
           Chain(o, segs, n, first, d),
           NEW S \in SUBSET (1 .. Len(o)),
           \A i \in 1 .. Len(o) : o[i].start < Edge(first, d, n) /\ o[i].end >= first => i \in S,
           NEW R \in SUBSET (1 .. Len(o)),
           \A i \in R : /\ ~o[i].err
                        /\ \E k \in 1 .. n : /\ Edge(first, d, k - 1) < o[i].end
                                             /\ o[i].end < Edge(first, d, k)
    PROVE  /\ SumAt(Idx(segs), EndedOf(segs), n) <= Cardinality(S)
           /\ Cardinality(R) <= SumAt(Idx(segs), EndedOf(segs), n)
<1> DEFINE I == Idx(segs)
           b == EndedOf(segs)
           edge(m) == Edge(first, d, m)
           SUpTo(m) == {i \in S : o[i].end < edge(m)}
           RUpTo(m) == {i \in R : o[i].end < edge(m)}
           E(m) == Ended(o, Piece(first, d, m + 1))
<1>0. n \in Nat /\ first \in Nat /\ d \in Nat \ {0} /\ SumAt(I, b, 0) = 0
  BY ChainEnded
<1>1. /\ Len(o) \in Nat
      /\ \A i \in 1 .. Len(o) : o[i].start \in Nat /\ o[i].end \in Nat
  BY SizedIs DEF Times
<1>2. ASSUME NEW m \in 0 .. n - 1
      PROVE  SumAt(I, b, m + 1) = SumAt(I, b, m) + Cardinality(E(m))
  BY ChainEnded
<1>3. ASSUME NEW m \in 0 .. n - 1
      PROVE  /\ edge(n) \in Nat /\ edge(m) \in Nat /\ edge(m + 1) \in Nat
             /\ first <= edge(m) /\ edge(m + 1) <= edge(n) /\ edge(m) < edge(m + 1)
  <2>1. m \in 0 .. n /\ m # n /\ m \in Nat /\ m + 1 \in Nat
    BY <1>0
  <2>2. edge(n) \in Nat /\ edge(m) \in Nat
    BY <1>0, <2>1, EdgeIs
  <2>3. edge(m + 1) \in Nat /\ edge(m + 1) = edge(m) + d
    BY <1>0, <2>1, EdgeIs
  <2>4. first <= edge(m) /\ edge(m + 1) <= edge(n)
    BY <1>0, <2>1, EdgesOrdered
  <2> HIDE DEF edge
  <2>5. edge(m) < edge(m + 1)
    BY <1>0, <2>2, <2>3
  <2> QED BY <2>2, <2>3, <2>4, <2>5
<1>13. ASSUME NEW m \in Nat PROVE edge(m) \in Nat
  BY <1>0, EdgeIs
<1>4. ASSUME NEW m \in 0 .. n - 1
      PROVE  /\ E(m) \in SUBSET (1 .. Len(o))
             /\ \A i \in E(m) : /\ o[i].start < edge(m + 1)
                                /\ edge(m) <= o[i].end /\ o[i].end < edge(m + 1)
             /\ \A i \in 1 .. Len(o) :
                  ~o[i].err /\ edge(m) < o[i].end /\ o[i].end < edge(m + 1) => i \in E(m)
  <2> DEFINE s == Piece(first, d, m + 1)
  <2>0. m \in Nat
    BY <1>0
  <2>1. AnyType(s) /\ s.start = edge(m) /\ s.ends = edge(m + 1)
    BY <1>0, <2>0, PieceIs
  <2> HIDE DEF s
  <2>2. /\ Ended(o, s) \in SUBSET (1 .. Len(o))
        /\ \A i \in Ended(o, s) : /\ o[i].start < s.ends
                                  /\ s.start <= o[i].end /\ o[i].end < s.ends
        /\ \A i \in 1 .. Len(o) :
              ~o[i].err /\ s.start < o[i].end /\ o[i].end < s.ends => i \in Ended(o, s)
    BY <2>1, EndedIs
  <2> HIDE DEF edge
  <2> QED BY <2>1, <2>2 DEF s
<1>5. ASSUME NEW m \in 0 .. n - 1
      PROVE  /\ SUpTo(m) \cap E(m) = {} /\ SUpTo(m) \cup E(m) \subseteq SUpTo(m + 1)
             /\ RUpTo(m + 1) \subseteq RUpTo(m) \cup E(m)
  <2>1. /\ edge(n) \in Nat /\ edge(m) \in Nat /\ edge(m + 1) \in Nat
        /\ first <= edge(m) /\ edge(m + 1) <= edge(n) /\ edge(m) < edge(m + 1)
    BY <1>3
  <2>2. ASSUME NEW i \in E(m) PROVE i \notin SUpTo(m) /\ i \in SUpTo(m + 1)
    <3> DEFINE x == o[i].start
               y == o[i].end
    <3>1. i \in 1 .. Len(o) /\ x < edge(m + 1) /\ edge(m) <= y /\ y < edge(m + 1)
      BY <1>4
    <3>2. x \in Nat /\ y \in Nat
      BY <1>1, <3>1
    <3> HIDE DEF x, y, edge, E
    <3>3. x < edge(n) /\ y >= first /\ ~(y < edge(m))
      BY <1>0, <2>1, <3>1, <3>2
    <3>4. i \in S
      BY <3>1, <3>3 DEF x, y, edge
    <3> QED BY <3>1, <3>3, <3>4 DEF x, y
  <2>3. ASSUME NEW i \in SUpTo(m) PROVE i \in SUpTo(m + 1)
    <3>1. i \in S /\ o[i].end < edge(m) /\ o[i].end \in Nat
      BY <1>1
    <3> HIDE DEF edge
    <3>2. o[i].end < edge(m + 1)
      BY <2>1, <3>1
    <3> QED BY <3>1, <3>2
  <2>4. ASSUME NEW i \in RUpTo(m + 1) PROVE i \in RUpTo(m) \/ i \in E(m)
    <3>1. i \in R /\ i \in 1 .. Len(o) /\ o[i].end < edge(m + 1) /\ o[i].end \in Nat /\ ~o[i].err
      BY <1>1
    <3>2. PICK k \in 1 .. n : edge(k - 1) < o[i].end /\ o[i].end < edge(k)
      BY <3>1
    <3>3. CASE o[i].end < edge(m)
      BY <3>1, <3>3
    <3>4. CASE edge(m) <= o[i].end
      <4>1. o[i].end # edge(m)
        <5> SUFFICES ASSUME o[i].end = edge(m) PROVE FALSE
          OBVIOUS
        <5>1. edge(k - 1) < edge(m) /\ edge(m) < edge(k)
          BY <3>2
        <5>2. CASE k <= m
          <6>1. k \in 0 .. m /\ m \in Nat
            BY <1>0, <5>2
          <6>2. edge(k) <= edge(m)
            BY <1>0, <6>1, EdgesOrdered
          <6>3. edge(k) \in Nat
            BY <1>13
          <6> HIDE DEF edge
          <6> QED BY <2>1, <5>1, <6>2, <6>3
        <5>3. CASE ~(k <= m)
          <6>1. m \in 0 .. k - 1 /\ k - 1 \in Nat
            BY <1>0, <5>3
          <6>2. edge(m) <= edge(k - 1)
            BY <1>0, <6>1, EdgesOrdered
          <6>3. edge(k - 1) \in Nat
            BY <1>0, <6>1, EdgeIs
          <6> HIDE DEF edge
          <6> QED BY <2>1, <5>1, <6>2, <6>3
        <5> QED BY <5>2, <5>3
      <4> DEFINE y == o[i].end
      <4>2. y \in Nat /\ edge(m) <= y /\ y # edge(m)
        BY <3>1, <3>4, <4>1
      <4>3. edge(m) < y
        <5> HIDE DEF y, edge
        <5> QED BY <2>1, <4>2
      <4> HIDE DEF edge, E
      <4> QED BY <1>4, <3>1, <4>3
    <3>5. o[i].end < edge(m) \/ edge(m) <= o[i].end
      <4> HIDE DEF edge
      <4> QED BY <2>1, <3>1
    <3> QED BY <3>3, <3>4, <3>5
  <2> HIDE DEF SUpTo, RUpTo, E
  <2> QED BY <2>2, <2>3, <2>4
<1> DEFINE ended(m) == SumAt(I, b, m)
           J == {m \in 0 .. n : /\ ended(m) \in Int
                                /\ ended(m) <= Cardinality(SUpTo(m))
                                /\ Cardinality(RUpTo(m)) <= ended(m)}
<1>6. 0 \in J
  <2>1. edge(0) = first
    BY <1>0, EdgeIs
  <2>2. RUpTo(0) = {}
    <3> SUFFICES ASSUME NEW i \in R, o[i].end < edge(0) PROVE FALSE
      OBVIOUS
    <3>1. PICK k \in 1 .. n : edge(k - 1) < o[i].end
      OBVIOUS
    <3>2. k - 1 \in 0 .. n
      BY <1>0
    <3>3. first <= edge(k - 1)
      BY <1>0, <3>2, EdgesOrdered
    <3>4. edge(k - 1) \in Nat /\ o[i].end \in Nat
      <4>1. k - 1 \in Nat /\ i \in 1 .. Len(o)
        BY <3>2
      <4> HIDE DEF edge
      <4> QED BY <1>1, <1>13, <4>1
    <3> HIDE DEF edge
    <3> QED BY <1>0, <2>1, <3>1, <3>3, <3>4
  <2>3. Cardinality({}) = 0
    BY FS_EmptySet, Zenon
  <2>4. SUpTo(0) \in SUBSET (1 .. Len(o))
    OBVIOUS
  <2> HIDE DEF RUpTo, SUpTo, edge
  <2>5. Cardinality(SUpTo(0)) \in Nat
    BY <1>1, <2>4, CardParts
  <2>6. ended(0) = 0
    BY <1>0
  <2>7. Cardinality(RUpTo(0)) = 0
    BY <2>2, <2>3
  <2> HIDE DEF ended
  <2> QED BY <1>0, <2>5, <2>6, <2>7
<1>7. ASSUME NEW m \in 0 .. n - 1, m \in J PROVE m + 1 \in J
  <2>1. /\ SUpTo(m) \cap E(m) = {} /\ SUpTo(m) \cup E(m) \subseteq SUpTo(m + 1)
        /\ RUpTo(m + 1) \subseteq RUpTo(m) \cup E(m)
    BY <1>5
  <2>2. E(m) \in SUBSET (1 .. Len(o))
    BY <1>4
  <2>3. /\ SUpTo(m) \in SUBSET (1 .. Len(o)) /\ SUpTo(m + 1) \in SUBSET (1 .. Len(o))
        /\ RUpTo(m) \in SUBSET (1 .. Len(o)) /\ RUpTo(m + 1) \in SUBSET (1 .. Len(o))
    OBVIOUS
  <2>6. m + 1 \in 0 .. n
    BY <1>0
  <2> DEFINE e == Cardinality(E(m))
             s0 == Cardinality(SUpTo(m))
             s1 == Cardinality(SUpTo(m + 1))
             r0 == Cardinality(RUpTo(m))
             r1 == Cardinality(RUpTo(m + 1))
  <2>4. ended(m + 1) = ended(m) + e
    BY <1>2
  <2>5. ended(m) \in Int /\ ended(m) <= s0 /\ r0 <= ended(m)
    BY <1>7
  <2> HIDE DEF SUpTo, RUpTo, E, ended
  <2>7. e \in Nat /\ s0 \in Nat /\ s1 \in Nat /\ s0 + e <= s1
    BY <1>1, <2>1, <2>2, <2>3, CardParts
  <2>8. r0 \in Nat /\ r1 \in Nat /\ r1 <= r0 + e
    BY <1>1, <2>1, <2>2, <2>3, CardParts
  <2>9. ended(m + 1) \in Int /\ ended(m + 1) <= s1 /\ r1 <= ended(m + 1)
    <3> HIDE DEF e, s0, s1, r0, r1
    <3> QED BY <2>4, <2>5, <2>7, <2>8
  <2> QED BY <2>6, <2>9
<1>8. \A m \in 0 .. n : m \in J
  <2> HIDE DEF J
  <2> QED BY <1>0, <1>6, <1>7, Induction
<1>9. /\ ended(n) \in Int /\ ended(n) <= Cardinality(SUpTo(n))
      /\ Cardinality(RUpTo(n)) <= ended(n)
  <2>1. n \in J
    <3> HIDE DEF J
    <3> QED BY <1>0, <1>8
  <2> HIDE DEF ended, SUpTo, RUpTo
  <2> QED BY <2>1
<1>10. Cardinality(SUpTo(n)) <= Cardinality(S) /\ Cardinality(S) \in Nat /\ Cardinality(SUpTo(n)) \in Nat
  <2>1. SUpTo(n) \subseteq S /\ SUpTo(n) \in SUBSET (1 .. Len(o))
    OBVIOUS
  <2> HIDE DEF SUpTo
  <2>2. Cardinality({}) = 0 /\ {} \in SUBSET (1 .. Len(o))
    BY FS_EmptySet, Zenon
  <2>3. SUpTo(n) \cap {} = {} /\ SUpTo(n) \cup {} \subseteq S
    BY <2>1
  <2>4. /\ Cardinality(SUpTo(n)) + Cardinality({}) <= Cardinality(S)
        /\ Cardinality(S) \in Nat /\ Cardinality(SUpTo(n)) \in Nat
    BY <1>1, <2>1, <2>2, <2>3, CardParts
  <2> QED BY <2>2, <2>4
<1>11. RUpTo(n) = R
  <2> SUFFICES ASSUME NEW i \in R PROVE o[i].end < edge(n)
    OBVIOUS
  <2>1. PICK k \in 1 .. n : o[i].end < edge(k)
    OBVIOUS
  <2>2. k \in 0 .. n /\ k \in Nat
    BY <1>0
  <2>3. edge(k) <= edge(n)
    BY <1>0, <2>2, EdgesOrdered
  <2>4. edge(k) \in Nat /\ o[i].end \in Nat
    BY <1>0, <1>1, <2>2, EdgeIs
  <2>5. edge(n) \in Nat
    BY <1>0, EdgeIs
  <2> HIDE DEF edge
  <2> QED BY <2>1, <2>3, <2>4, <2>5
<1> HIDE DEF SUpTo, RUpTo, ended
<1>12. ended(n) <= Cardinality(S) /\ Cardinality(R) <= ended(n)
  BY <1>9, <1>10, <1>11
<1> QED BY <1>12 DEF ended
-----------------------------------------------------------------------------
(* A list in the order of its keys stays as it is.                         *)
LEMMA SortedStays ==
    ASSUME NEW V, NEW o \in Seq(V), NEW key, \A i \in Idx(o) : key[i] \in Int,
           \A i, j \in Idx(o) : i <= j => key[i] <= key[j]
    PROVE  Arranged(o, Idx(o), key) = o
<1> DEFINE n == Len(o)
           I == Idx(o)
           before(i) == {j \in I : key[j] < key[i] \/ (key[j] = key[i] /\ j < i)}
           place == [i \in I |-> Cardinality(before(i)) + 1]
           p == [k \in 1 .. Cardinality(I) |-> CHOOSE i \in I : place[i] = k]
<1>1. n \in Nat /\ I = 1 .. n
  BY DEF Idx
<1>2. \A i \in 0 .. n : Cardinality(1 .. i) = i
  <2> SUFFICES ASSUME NEW i \in 0 .. n PROVE Cardinality(1 .. i) = i
    OBVIOUS
  <2>1. 1 \in Int /\ i \in Int /\ (IF 1 > i THEN 0 ELSE i - 1 + 1) = i
    BY <1>1
  <2> QED BY <2>1, FS_Interval
<1>3. ASSUME NEW i \in I PROVE place[i] = i
  <2>1. \A j \in I : (key[j] < key[i] \/ (key[j] = key[i] /\ j < i)) <=> j < i
    <3> SUFFICES ASSUME NEW j \in I
                 PROVE (key[j] < key[i] \/ (key[j] = key[i] /\ j < i)) <=> j < i
      OBVIOUS
    <3>1. key[i] \in Int /\ key[j] \in Int /\ i \in Int /\ j \in Int
      BY <1>1
    <3>2. (i <= j => key[i] <= key[j]) /\ (j <= i => key[j] <= key[i])
      OBVIOUS
    <3> QED BY <3>1, <3>2
  <2>2. before(i) = {j \in I : j < i}
    BY <2>1
  <2>3. before(i) = 1 .. (i - 1) /\ i - 1 \in 0 .. n
    BY <1>1, <2>2
  <2>4. Cardinality(before(i)) = i - 1
    BY <1>2, <2>3
  <2> HIDE DEF before
  <2> QED BY <1>1, <2>4
<1>4. Cardinality(I) = n
  BY <1>1, <1>2
<1>5. Arranged(o, I, key) = [k \in 1 .. Cardinality(I) |-> o[p[k]]]
  BY DEF Arranged, Order
<1> HIDE DEF place, I
<1>6. ASSUME NEW k \in 1 .. n PROVE p[k] = k
  BY <1>1, <1>3, <1>4
<1> HIDE DEF p, n
<1>7. Arranged(o, I, key) = [k \in 1 .. n |-> o[k]]
  BY <1>4, <1>5, <1>6
<1>8. o = [k \in 1 .. n |-> o[k]]
  BY DEF n
<1> QED BY <1>7, <1>8 DEF I

(* So sorting again changes nothing.                                       *)
LEMMA SortedOnce ==
    ASSUME NEW V, NEW o \in Seq(V), Timed(o)
    PROVE  SortByStartTime(SortByStartTime(o)) = SortByStartTime(o)
<1> DEFINE key == [i \in Idx(o) |-> o[i].start]
           s == SortByStartTime(o)
           again == [i \in Idx(s) |-> s[i].start]
           n == Len(o)
           I == Idx(o)
<1>1. \A i \in I : key[i] \in Int /\ key[i] = o[i].start
  BY DEF Timed, Times
<1>2. s = Arranged(o, I, key) /\ SortByStartTime(s) = Arranged(s, Idx(s), again)
  BY DEF SortByStartTime
<1>3. s \in Seq(V) /\ Timed(s)
  BY StartsSorted
<1>4. \A i \in Idx(s) : again[i] \in Int /\ again[i] = s[i].start
  BY <1>3 DEF Timed, Times
<1> HIDE DEF key, again, s
<1>5. Len(s) = n /\ \E q : Orders(q, n, o, I, key)
  BY <1>1, <1>2, SortedIs
<1>6. PICK q : Orders(q, n, o, I, key)
  BY <1>5
<1>7. n \in Nat /\ I = 1 .. n /\ Idx(s) = I
  BY <1>5 DEF Idx
<1> HIDE DEF I, n
<1>8. /\ q \in [1 .. n -> I] /\ s = [k \in 1 .. n |-> o[q[k]]]
      /\ \A k, l \in 1 .. n : k <= l => key[q[k]] <= key[q[l]]
  BY <1>2, <1>6 DEF Orders
<1>9. \A i \in Idx(s) : again[i] = key[q[i]]
  BY <1>1, <1>4, <1>7, <1>8
<1>10. \A i, j \in Idx(s) : i <= j => again[i] <= again[j]
  <2>1. \A i, j \in Idx(s) : i <= j => key[q[i]] <= key[q[j]]
    BY <1>7, <1>8
  <2> QED BY <1>9, <2>1
<1>11. Arranged(s, Idx(s), again) = s
  BY <1>3, <1>4, <1>10, SortedStays
<1> QED BY <1>2, <1>11 DEF s

(* The active range begins and ends at numbers.                            *)
LEMMA ActiveRangeIs ==
    ASSUME NEW V, NEW o \in Seq(V), Timed(o), NEW allThreads \in BOOLEAN
    PROVE  LET r == ActiveTimeRange(o, allThreads)
           IN  /\ r.start \in Nat /\ r.end \in Nat /\ r.start <= r.end
               /\ o = <<>> => r.start = 0 /\ r.end = 0
               /\ o # <<>> => r.start \in TimesOf(o) /\ r.end \in TimesOf(o)
<1>1. CASE o = <<>>
  BY <1>1 DEF ActiveTimeRange, Interval
<1>2. CASE o # <<>>
  BY <1>2, AllThreadsActive, OneDiscarded
<1> QED BY <1>1, <1>2
-----------------------------------------------------------------------------
(* What a segment is filled with; its times stay.                          *)
LEMMA FillSegmentIs ==
    ASSUME NEW o, NEW first, NEW d, NEW k
    PROVE  LET s == Piece(first, d, k)
               f == FillSegment(o, s)
           IN  /\ f.start = Edge(first, d, k - 1) /\ f.ends = Edge(first, d, k)
               /\ f.bytes = BytesIn(o, s) /\ f.ended = Cardinality(Ended(o, s))
<1> DEFINE s == Piece(first, d, k)
           a == Edge(first, d, k - 1)
           b == Edge(first, d, k)
           in == {i \in FirstEntry(o, s) .. Len(o) : InSegment(o[i], s)}
           full == {i \in in : Whole(o[i], s) /\ ~o[i].err}
           part == {i \in in : ~Whole(o[i], s)}
           c1 == SumAt(in, [i \in in |-> Bytes(o[i], s)], Len(o))
           c2 == Cardinality(full)
           c3 == Cardinality(part)
           c4 == Cardinality(full \cup {i \in part : StartedIn(o[i], s)})
           c5 == Cardinality(full \cup {i \in part : EndedIn(o[i], s)})
           c6 == Cardinality({i \in in : o[i].err /\ EndedIn(o[i], s)})
           f == FillSegment(o, s)
<1>1. f = [s EXCEPT !.bytes = c1, !.full = c2, !.partial = c3, !.started = c4,
                    !.ended = c5, !.errors = c6]
  BY DEF FillSegment
<1>2. s = [NoSegment EXCEPT !.type = "", !.start = a, !.ends = b]
  BY DEF Piece
<1>3. c1 = BytesIn(o, s) /\ c5 = Cardinality(Ended(o, s))
  BY DEF BytesIn, In, Ended
<1> HIDE DEF c1, c2, c3, c4, c5, c6, s, a, b, f
<1>4. f.start = a /\ f.ends = b /\ f.bytes = c1 /\ f.ended = c5
  BY <1>1, <1>2 DEF NoSegment
<1> QED BY <1>3, <1>4 DEF s, a, b, f

(* Segments of all types begin with the active range and end before it     *)
(* does.                                                                   *)
LEMMA SegmentIsChain ==
    ASSUME NEW V, NEW o \in Seq(V), Timed(o), SortByStartTime(o) = o,
           NEW allThreads \in BOOLEAN, NEW d \in Nat \ {0}
    PROVE  \E n \in Nat :
               /\ Chain(o, Segment(o, 0, d, allThreads, TRUE), n,
                        ActiveTimeRange(o, allThreads).start, d)
               /\ n # 0 => Edge(ActiveTimeRange(o, allThreads).start, d, n)
                             < ActiveTimeRange(o, allThreads).end
               /\ n = 0 => Segment(o, 0, d, allThreads, TRUE) = <<>>
<1> DEFINE r == ActiveTimeRange(o, allThreads)
           first == r.start
           last == r.end
           n == IF last - d <= first THEN 0 ELSE (last - first - 1) \div d
           segs == Segment(o, 0, d, allThreads, TRUE)
           f(k) == FillSegment(o, Piece(first, d, k))
<1>1. first \in Nat /\ last \in Nat /\ first <= last
  BY ActiveRangeIs
<1>2. Max({0, first}) = first
  <2> HIDE DEF first
  <2>1. 0 \in Int /\ first \in Int
    BY <1>1
  <2>2. Max({0, first}) = IF 0 >= first THEN 0 ELSE first
    BY <2>1, MaxTwo
  <2> QED BY <1>1, <2>2
<1>3. segs = [k \in 1 .. n |-> f(k)]
  <2> DEFINE Blank(z, k) == [NoSegment EXCEPT !.type = "", !.start = z + (k - 1) * d,
                                              !.ends = z + k * d]
             m(z) == IF last - d <= z THEN 0 ELSE (last - z - 1) \div d
  <2>1. ~(d <= 0)
    OBVIOUS
  <2>2. segs = [k \in 1 .. m(Max({0, first})) |-> FillSegment(o, Blank(Max({0, first}), k))]
    BY <2>1 DEF Segment
  <2>3. \A k : Blank(first, k) = Piece(first, d, k)
    BY DEF Piece, Edge
  <2>4. m(first) = n
    OBVIOUS
  <2> HIDE DEF Blank, m, segs, first, n
  <2> QED BY <1>2, <2>2, <2>3, <2>4
<1>4. n \in Nat /\ (n # 0 => n * d <= last - first - 1)
  <2> HIDE DEF first, last
  <2>1. CASE last - d <= first
    BY <2>1
  <2>2. CASE ~(last - d <= first)
    <3> DEFINE x == last - first - 1
               q == x \div d
    <3>1. x \in Nat
      BY <1>1, <2>2
    <3> HIDE DEF x
    <3>2. q \in Nat /\ d * q <= x
      BY <3>1
    <3>3. n = q
      BY <2>2 DEF x
    <3> HIDE DEF q
    <3>4. n \in Nat /\ n * d <= x
      BY <3>2, <3>3
    <3> QED BY <3>4 DEF x
  <2> QED BY <2>1, <2>2
<1>5. n # 0 => Edge(first, d, n) < last
  <2> HIDE DEF n, first, last
  <2>1. n * d \in Nat
    BY <1>4
  <2> DEFINE x == n * d
  <2>2. n # 0 => first + x < last
    <3>1. x \in Nat /\ (n # 0 => x <= last - first - 1)
      BY <1>4, <2>1
    <3> HIDE DEF x
    <3> QED BY <1>1, <3>1
  <2> QED BY <2>2 DEF Edge
<1>6. ASSUME NEW k \in 1 .. n
      PROVE  /\ f(k).start = Edge(first, d, k - 1) /\ f(k).ends = Edge(first, d, k)
             /\ f(k).bytes = BytesIn(o, Piece(first, d, k))
             /\ f(k).ended = Cardinality(Ended(o, Piece(first, d, k)))
  <2> HIDE DEF n, first
  <2> QED BY FillSegmentIs
<1> HIDE DEF f, n, first, last, segs
<1>7. Len(segs) = n /\ (n = 0 => segs = <<>>) /\ \A k \in 1 .. n : segs[k] = f(k)
  BY <1>3, <1>4
<1>8. Chain(o, segs, n, first, d)
  BY <1>1, <1>4, <1>6, <1>7 DEF Chain
<1> QED BY <1>4, <1>5, <1>7, <1>8 DEF segs, first, last

(* The merged operations have sizes.                                       *)
LEMMA MergedSized ==
    ASSUME AInv, pc = "merged"
    PROVE  /\ Sized(AllMoved(got), ops) /\ ops \in Seq(AllMoved(got)) /\ Timed(ops)
           /\ SortByStartTime(ops) = ops
<1> DEFINE R == RecordedOps
           U == AllMoved(got)
<1>1. ops = SortByStartTime(Merge(got)) /\ got \in [1 .. N -> Seq(RecordedOps)]
  BY DEF AInv
<1>2. Merge(got) \in Seq(U) /\ Timed(Merge(got))
  BY <1>1, MergedTimed
<1>3. ops \in Seq(U) /\ Timed(ops)
  BY MergedList
<1>4. SortByStartTime(ops) = ops
  BY <1>1, <1>2, SortedOnce
<1>5. \A op \in R : IsOp(op) /\ "size" \in DOMAIN op /\ op.size \in Nat
  <2>1. \A k \in Kinds : k.size \in Nat
    BY AnalysisAssumption
  <2>2. \A op \in R : "size" \in DOMAIN op /\ op.size \in {k.size : k \in Kinds}
    BY DEF RecordedOps
  <2>3. \A op \in R : IsOp(op)
    BY RecordedIs
  <2> HIDE DEF R
  <2> QED BY <2>1, <2>2, <2>3
<1>6. \A i \in Idx(got) : \A j \in Idx(got[i]) : got[i][j] \in R
  BY <1>1, MergedTimed
<1> HIDE DEF R
<1>7. ASSUME NEW op \in R, NEW x \in Nat PROVE Moved(op, x).size \in Nat
  <2>1. \A f \in DOMAIN op : f # "thread" => Moved(op, x)[f] = op[f]
    BY <1>5, MovedIs
  <2>2. Moved(op, x).size = op.size
    BY <1>5, <2>1
  <2> QED BY <1>5, <2>2
<1>8. \A y \in U : y.size \in Nat
  BY <1>6, <1>7 DEF AllMoved
<1>9. \A i \in Idx(ops) : ops[i] \in U
  <2> HIDE DEF U
  <2> QED BY <1>3 DEF Idx
<1> HIDE DEF U
<1>10. Sized(U, ops)
  BY <1>3, <1>8, <1>9 DEF Sized
<1> QED BY <1>3, <1>4, <1>10 DEF U
-----------------------------------------------------------------------------
(* The segments of a sorted list account for what it holds.                *)
LEMMA SegmentsHold ==
    ASSUME NEW V, NEW o, Sized(V, o), SortByStartTime(o) = o,
           NEW allThreads \in BOOLEAN, NEW d \in Nat \ {0}
    PROVE  AddUp(o, allThreads, d)
<1> SUFFICES ASSUME Segment(o, 0, d, allThreads, TRUE) # <<>> PROVE AddUp(o, allThreads, d)
  BY DEF AddUp
<1> DEFINE r == ActiveTimeRange(o, allThreads)
           segs == Segment(o, 0, d, allThreads, TRUE)
           from == segs[1].start
           to == segs[Len(segs)].ends
           bytes == SumAt(Idx(segs), BytesOf(segs), Len(segs))
           ended == SumAt(Idx(segs), EndedOf(segs), Len(segs))
           sizes == [i \in Idx(o) |-> o[i].size]
           touched == {i \in Idx(o) : o[i].start < to /\ o[i].end >= from}
           inside == {i \in touched : ~o[i].err /\ o[i].start >= from
                                      /\ o[i].end < to /\ Dur(o[i]) > 0}
           within == {i \in inside : \E k \in Idx(segs) :
                           segs[k].start < o[i].end /\ o[i].end < segs[k].ends}
           first == r.start
<1>1. o \in Seq(V) /\ Timed(o) /\ Len(o) \in Nat /\ Idx(o) = 1 .. Len(o)
  BY SizedIs DEF Sized
<1>2. first \in Nat /\ r.end \in Nat
  BY <1>1, ActiveRangeIs
<1>3. PICK n \in Nat : /\ Chain(o, segs, n, first, d)
                       /\ n # 0 => Edge(first, d, n) < r.end
                       /\ n = 0 => segs = <<>>
  BY <1>1, SegmentIsChain
<1>4. n # 0 /\ Len(segs) = n /\ Idx(segs) = 1 .. n
  BY <1>3 DEF Chain, Idx
<1>5. \A k \in 1 .. n : segs[k].start = Edge(first, d, k - 1) /\ segs[k].ends = Edge(first, d, k)
  BY <1>3 DEF Chain
<1>6. from = first /\ to = Edge(first, d, n)
  <2>1. 1 \in 1 .. n /\ n \in 1 .. n /\ 1 - 1 = 0
    BY <1>4
  <2>2. Edge(first, d, 0) = first
    BY <1>2, EdgeIs
  <2> HIDE DEF segs, first
  <2> QED BY <1>4, <1>5, <2>1, <2>2
<1>7. Chain(o, segs, n, first, d)
  BY <1>3
<1>8. r.start <= from /\ to < r.end
  <2> HIDE DEF r, segs
  <2> QED BY <1>2, <1>3, <1>4, <1>6
<1> HIDE DEF segs, first, from, to, sizes
<1>9. /\ touched \in SUBSET (1 .. Len(o)) /\ inside \in SUBSET (1 .. Len(o))
      /\ within \in SUBSET (1 .. Len(o))
  BY <1>1
<1>10. \A i \in 1 .. Len(o) : o[i].start < Edge(first, d, n) /\ o[i].end >= first => i \in touched
  BY <1>1, <1>6
<1>11. bytes <= SumAt(touched, sizes, Len(o))
  <2> HIDE DEF touched
  <2>1. SumAt(Idx(segs), BytesOf(segs), n) <= SumAt(touched, sizes, Len(o))
    BY <1>7, <1>9, <1>10, ChainCountsAtMost DEF sizes
  <2> QED BY <1>4, <2>1
<1>12. SumAt(inside, sizes, Len(o)) <= bytes + n * Cardinality(inside)
  <2>1. \A i \in inside : ~o[i].err /\ Dur(o[i]) > 0
    OBVIOUS
  <2>2. \A i \in inside : o[i].start >= first /\ o[i].end < Edge(first, d, n)
    BY <1>6
  <2> HIDE DEF inside
  <2>3. SumAt(inside, sizes, Len(o))
          <= SumAt(Idx(segs), BytesOf(segs), n) + n * Cardinality(inside)
    BY <1>7, <1>9, <2>1, <2>2, ChainCountsAtLeast DEF sizes
  <2> QED BY <1>4, <2>3
<1>13. Cardinality(within) <= ended /\ ended <= Cardinality(touched)
  <2>1. ASSUME NEW i \in within
        PROVE  /\ ~o[i].err
               /\ \E k \in 1 .. n : /\ Edge(first, d, k - 1) < o[i].end
                                    /\ o[i].end < Edge(first, d, k)
    <3>1. ~o[i].err
      OBVIOUS
    <3>2. PICK k \in 1 .. n : segs[k].start < o[i].end /\ o[i].end < segs[k].ends
      BY <1>4
    <3>3. Edge(first, d, k - 1) < o[i].end /\ o[i].end < Edge(first, d, k)
      BY <1>5, <3>2
    <3> QED BY <3>1, <3>3
  <2> HIDE DEF touched, within
  <2>2. /\ SumAt(Idx(segs), EndedOf(segs), n) <= Cardinality(touched)
        /\ Cardinality(within) <= SumAt(Idx(segs), EndedOf(segs), n)
    BY <1>7, <1>9, <1>10, <2>1, ChainEndsOnce
  <2> QED BY <1>4, <2>2
<1>14. bytes + Len(segs) * Cardinality(inside) >= SumAt(inside, sizes, Len(o))
  <2> DEFINE a == SumAt(inside, sizes, Len(o))
             b == bytes + n * Cardinality(inside)
  <2>1. a <= b
    BY <1>12
  <2>2. b >= a
    <3> HIDE DEF a, b
    <3> QED BY <2>1
  <2> QED BY <1>4, <2>2
<1>15. /\ r.start <= from /\ to < r.end
       /\ bytes <= SumAt(touched, sizes, Len(o))
       /\ bytes + Len(segs) * Cardinality(inside) >= SumAt(inside, sizes, Len(o))
       /\ Cardinality(within) <= ended
       /\ ended <= Cardinality(touched)
  <2> HIDE DEF r, touched, inside, within, bytes, ended
  <2> QED BY <1>8, <1>11, <1>13, <1>14
<1> HIDE DEF r
<1> QED BY <1>15 DEF r, segs, from, to, sizes, BytesOf, EndedOf, AddUp

(* The segments of the merged operations lie in the active range and count *)
(* no byte and no end of a request twice, and none too few, whatever the   *)
(* clients recorded.                                                       *)
THEOREM SegmentsAddUp == Spec => []SegmentsAccount
<1>1. AInv => SegmentsAccount
  <2> SUFFICES ASSUME AInv, pc = "merged", NEW allThreads \in BOOLEAN,
                      NEW d \in {StdDurations[i] : i \in Idx(StdDurations)}
               PROVE  AddUp(ops, allThreads, d)
    BY DEF SegmentsAccount
  <2>1. Sized(AllMoved(got), ops) /\ SortByStartTime(ops) = ops
    BY MergedSized
  <2>2. d \in Nat \ {0}
    BY AnalysisAssumption DEF Idx
  <2> QED BY <2>1, <2>2, SegmentsHold
<1> QED BY <1>1, MergedFromClients, PTL
=============================================================================
