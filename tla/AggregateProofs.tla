-------------------------- MODULE AggregateProofs ---------------------------
(***************************************************************************)
(* What an analysis reports adds up, for any operations and flags, and is  *)
(* the same after the detour over the CSV file.                            *)
(*                                                                         *)
(* A sum over a set is counted out: each of its elements has positions of  *)
(* the list for its own (Parted), as many as its number or more.  For the  *)
(* types those are the operations of the type, for the hosts those of the  *)
(* host, for the ranges of sizes the requests of the sizes.                *)
(*                                                                         *)
(* The file renames files and clients: lists of operations that are Alike, *)
(* equal but for these names, have the same report.                        *)
(***************************************************************************)
EXTENDS AnalysisProofs

(* Each x of S has a part of its own of the positions W.                   *)
Parted(S, part, n, W) ==
    /\ n \in Nat /\ W \in SUBSET (1 .. n)
    /\ \A x \in S : part[x] \in SUBSET W
    /\ \A x, y \in S : x # y => part[x] \cap part[y] = {}

(* Numbers that are the sizes of parts which cover W.                      *)
Covered(S, f, part, W) ==
    /\ \A x \in S : f[x] = Cardinality(part[x])
    /\ W \subseteq UNION {part[x] : x \in S}

(* Numbers that are at most the parts add up to at most the whole; the     *)
(* sizes of parts that cover it add up to it.                              *)
LEMMA CountedOut ==
    ASSUME NEW S, NEW f, NEW part, NEW n, NEW W, Parted(S, part, n, W),
           \A x \in S : f[x] \in Nat /\ f[x] <= Cardinality(part[x])
    PROVE  /\ SumOver(S, f) \in Nat /\ SumOver(S, f) <= Cardinality(W)
           /\ Covered(S, f, part, W) => SumOver(S, f) = Cardinality(W)
<1> DEFINE Is(b, x) == /\ b \in [1 .. f[x] -> part[x]]
                       /\ \A j, k \in 1 .. f[x] : b[j] = b[k] => j = k
                       /\ f[x] = Cardinality(part[x]) =>
                            \A i \in part[x] : \E j \in 1 .. f[x] : b[j] = i
           g == [x \in S |-> CHOOSE b : Is(b, x)]
           U == UNION {{x} \X (1 .. f[x]) : x \in S}
           h == [z \in U |-> g[z[1]][z[2]]]
<1>1. /\ n \in Nat /\ W \in SUBSET (1 .. n)
      /\ \A x \in S : part[x] \in SUBSET W
      /\ \A x, y \in S : x # y => part[x] \cap part[y] = {}
  BY DEF Parted
<1>2. IsFiniteSet(W) /\ \A x \in S : IsFiniteSet(part[x])
  <2>1. 1 \in Int /\ n \in Int
    BY <1>1
  <2>2. IsFiniteSet(1 .. n)
    BY <2>1, FS_Interval, Zenon
  <2>3. IsFiniteSet(W)
    BY <1>1, <2>2, FS_Subset, Zenon
  <2> QED BY <1>1, <2>3, FS_Subset, Zenon
<1>3. ASSUME NEW x \in S PROVE Is(g[x], x)
  <2> DEFINE c == Cardinality(part[x])
  <2>1. c \in Nat /\ ExistsBijection(1 .. c, part[x])
    BY <1>2, FS_CardinalityType
  <2>2. PICK b : b \in Bijection(1 .. c, part[x])
    BY <2>1 DEF ExistsBijection
  <2>3. /\ b \in [1 .. c -> part[x]]
        /\ \A j, k \in 1 .. c : b[j] = b[k] => j = k
        /\ \A i \in part[x] : \E j \in 1 .. c : b[j] = i
    BY <2>2 DEF Bijection, Injection, Surjection, IsInjective
  <2> DEFINE m == f[x]
             b2 == [j \in 1 .. m |-> b[j]]
  <2>4. m \in Nat /\ m <= c /\ \A j \in 1 .. m : j \in 1 .. c
    BY <2>1
  <2> HIDE DEF c, m
  <2>5. /\ b2 \in [1 .. m -> part[x]]
        /\ \A j, k \in 1 .. m : b2[j] = b2[k] => j = k
        /\ m = c => \A i \in part[x] : \E j \in 1 .. m : b2[j] = i
    BY <2>3, <2>4
  <2>6. Is(b2, x)
    BY <2>5 DEF c, m
  <2> HIDE DEF Is, b2
  <2>7. \E y : Is(y, x)
    BY <2>6
  <2>8. g[x] = CHOOSE y : Is(y, x)
    OBVIOUS
  <2> QED BY <2>7, <2>8, Zenon
<1> HIDE DEF g
<1>4. ASSUME NEW x \in S
      PROVE  /\ g[x] \in [1 .. f[x] -> part[x]]
             /\ \A j, k \in 1 .. f[x] : g[x][j] = g[x][k] => j = k
             /\ f[x] = Cardinality(part[x]) =>
                  \A i \in part[x] : \E j \in 1 .. f[x] : g[x][j] = i
  BY <1>3
<1>5. ASSUME NEW z \in U
      PROVE  /\ z = <<z[1], z[2]>> /\ z[1] \in S /\ z[2] \in 1 .. f[z[1]]
             /\ h[z] = g[z[1]][z[2]] /\ h[z] \in part[z[1]]
  <2>1. PICK x \in S : z \in {x} \X (1 .. f[x])
    OBVIOUS
  <2>2. z = <<z[1], z[2]>> /\ z[1] = x /\ z[2] \in 1 .. f[x]
    BY <2>1
  <2>3. h[z] = g[z[1]][z[2]]
    OBVIOUS
  <2> HIDE DEF h, U
  <2>4. g[x][z[2]] \in part[x]
    BY <1>4, <2>2
  <2> QED BY <2>2, <2>3, <2>4
<1>6. h \in [U -> W]
  <2> HIDE DEF U
  <2> QED BY <1>1, <1>5
<1>7. ASSUME NEW y \in U, NEW z \in U, h[y] = h[z] PROVE y = z
  <2>1. /\ y = <<y[1], y[2]>> /\ y[1] \in S /\ y[2] \in 1 .. f[y[1]]
        /\ h[y] = g[y[1]][y[2]] /\ h[y] \in part[y[1]]
    BY <1>5
  <2>2. /\ z = <<z[1], z[2]>> /\ z[1] \in S /\ z[2] \in 1 .. f[z[1]]
        /\ h[z] = g[z[1]][z[2]] /\ h[z] \in part[z[1]]
    BY <1>5
  <2> HIDE DEF U, h
  <2>3. y[1] = z[1]
    BY <1>1, <1>7, <2>1, <2>2
  <2>4. y[2] = z[2]
    <3> DEFINE x == y[1]
               j == y[2]
               k == z[2]
    <3>1. x \in S /\ j \in 1 .. f[x] /\ k \in 1 .. f[x]
      BY <2>1, <2>2, <2>3
    <3>2. g[x][j] = g[x][k]
      BY <1>7, <2>1, <2>2, <2>3
    <3> HIDE DEF x, j, k
    <3>3. j = k
      BY <1>4, <3>1, <3>2
    <3> QED BY <3>3 DEF j, k
  <2> QED BY <2>1, <2>2, <2>3, <2>4
<1>8. SumOver(S, f) = Cardinality(U)
  BY DEF SumOver
<1>9. ASSUME \A x \in S : f[x] = Cardinality(part[x]), W \subseteq UNION {part[x] : x \in S},
             NEW i \in W
      PROVE  \E z \in U : h[z] = i
  <2>1. PICK x \in S : i \in part[x]
    BY <1>9
  <2>2. PICK j \in 1 .. f[x] : g[x][j] = i
    BY <1>4, <1>9, <2>1
  <2>3. <<x, j>> \in U
    OBVIOUS
  <2>4. h[<<x, j>>] = i
    BY <2>2, <2>3
  <2> QED BY <2>3, <2>4
<1> HIDE DEF U, h
<1>10. h \in Injection(U, W)
  BY <1>6, <1>7 DEF Injection, IsInjective
<1>11. IsFiniteSet(U) /\ Cardinality(U) <= Cardinality(W)
  BY <1>2, <1>10, FS_Injection, Zenon
<1>12. Cardinality(U) = Cardinality(W) <=> h \in Surjection(U, W)
  BY <1>2, <1>10, FS_Injection, Zenon
<1>13. (\A x \in S : f[x] = Cardinality(part[x])) /\ W \subseteq UNION {part[x] : x \in S}
         => h \in Surjection(U, W)
  BY <1>6, <1>9 DEF Surjection
<1>14. Cardinality(U) \in Nat
  BY <1>11, FS_CardinalityType
<1>15. Covered(S, f, part, W) => h \in Surjection(U, W)
  BY <1>13 DEF Covered
<1> QED BY <1>8, <1>11, <1>12, <1>14, <1>15

(* r is what o holds at the positions S, by p.                             *)
Picks(p, o, S, r) ==
    /\ Len(r) \in Nat /\ Len(r) = Cardinality(S) /\ p \in [1 .. Len(r) -> S]
    /\ \A k \in 1 .. Len(r) : r[k] = o[p[k]]
    /\ \A i \in S : \E k \in 1 .. Len(r) : p[k] = i
    /\ \A k, l \in 1 .. Len(r) : p[k] = p[l] => k = l

LEMMA ArrangedPicks ==
    ASSUME NEW V, NEW o \in Seq(V), NEW S \in SUBSET (1 .. Len(o)), NEW key,
           \A i \in S : key[i] \in Int
    PROVE  /\ Arranged(o, S, key) \in Seq(V)
           /\ \E p : Picks(p, o, S, Arranged(o, S, key))
<1> DEFINE c == Cardinality(S)
           r == Arranged(o, S, key)
<1>1. Len(o) \in Nat
  OBVIOUS
<1>2. Keyed(S, Len(o), key)
  BY <1>1 DEF Keyed
<1>3. PICK p : Orders(p, c, o, S, key)
  BY <1>2, ArrangedIs
<1> HIDE DEF r
<1>4. /\ c \in Nat /\ p \in [1 .. c -> S] /\ r = [k \in 1 .. c |-> o[p[k]]]
      /\ \A i \in S : \E k \in 1 .. c : p[k] = i
      /\ \A k, l \in 1 .. c : k # l => p[k] # p[l]
  BY <1>3 DEF Orders, r
<1>5. \A i \in S : o[i] \in V
  OBVIOUS
<1> HIDE DEF c
<1>6. r \in Seq(V) /\ Len(r) = c
  <2>1. \A k \in 1 .. c : o[p[k]] \in V
    BY <1>4, <1>5
  <2> QED BY <1>4, <2>1
<1>7. Picks(p, o, S, r)
  BY <1>4, <1>6 DEF Picks, c
<1> QED BY <1>6, <1>7 DEF r

LEMMA KeepPicks ==
    ASSUME NEW V, NEW o \in Seq(V), NEW S \in SUBSET (1 .. Len(o))
    PROVE  /\ Keep(o, S) \in Seq(V) /\ Len(Keep(o, S)) = Cardinality(S)
           /\ \E p : Picks(p, o, S, Keep(o, S))
<1> DEFINE key == [i \in Idx(o) |-> i]
<1>1. \A i \in S : key[i] \in Int
  BY DEF Idx
<1>2. Keep(o, S) = Arranged(o, S, key)
  BY DEF Keep
<1> HIDE DEF key
<1>3. Keep(o, S) \in Seq(V) /\ \E p : Picks(p, o, S, Keep(o, S))
  BY <1>1, <1>2, ArrangedPicks
<1> QED BY <1>3 DEF Picks

(* Finitely many positions.                                                *)
LEMMA PositionsFinite ==
    ASSUME NEW n \in Nat, NEW S \in SUBSET (1 .. n)
    PROVE  IsFiniteSet(S) /\ Cardinality(S) \in Nat /\ Cardinality(S) <= n
<1>1. 1 \in Int /\ n \in Int /\ (IF 1 > n THEN 0 ELSE n - 1 + 1) = n
  OBVIOUS
<1>2. IsFiniteSet(1 .. n) /\ Cardinality(1 .. n) = n
  BY <1>1, FS_Interval
<1>3. IsFiniteSet(S) /\ Cardinality(S) <= Cardinality(1 .. n)
  BY <1>2, FS_Subset, Zenon
<1>4. Cardinality(S) \in Nat
  BY <1>3, FS_CardinalityType
<1> QED BY <1>2, <1>3, <1>4

(* Q lists, among the positions of r, what R does among those of S.        *)
Matches(p, r, Q, S, R, n) ==
    /\ n \in Nat /\ S \in SUBSET (1 .. n) /\ Q \in SUBSET (1 .. Len(r)) /\ R \in SUBSET S
    /\ \A k \in 1 .. Len(r) : k \in Q <=> p[k] \in R

LEMMA MatchingCount ==
    ASSUME NEW o, NEW n, NEW S, NEW r, NEW p, NEW Q, NEW R, Picks(p, o, S, r),
           Matches(p, r, Q, S, R, n)
    PROVE  Cardinality(Q) = Cardinality(R) /\ Cardinality(Q) \in Nat
<1>1. /\ Len(r) \in Nat /\ p \in [1 .. Len(r) -> S]
      /\ \A i \in S : \E k \in 1 .. Len(r) : p[k] = i
      /\ \A k, l \in 1 .. Len(r) : p[k] = p[l] => k = l
      /\ Q \in SUBSET (1 .. Len(r)) /\ R \in SUBSET S
      /\ \A k \in 1 .. Len(r) : k \in Q <=> p[k] \in R
  BY DEF Picks, Matches
<1> DEFINE g == [k \in Q |-> p[k]]
<1>2. g \in [Q -> R]
  BY <1>1
<1>3. \A k, l \in Q : g[k] = g[l] => k = l
  BY <1>1
<1>4. \A i \in R : \E k \in Q : g[k] = i
  BY <1>1
<1> HIDE DEF g
<1>5. g \in Bijection(Q, R)
  BY <1>2, <1>3, <1>4 DEF Bijection, Injection, Surjection, IsInjective
<1>6. IsFiniteSet(Q) /\ Cardinality(Q) \in Nat
  BY <1>1, PositionsFinite
<1>7. ExistsBijection(Q, R)
  BY <1>5 DEF ExistsBijection
<1>8. Cardinality(R) = Cardinality(Q)
  BY <1>6, <1>7, FS_Bijection, Zenon
<1> QED BY <1>6, <1>8

(* Failed and successful operations.                                       *)
Failed(o) == {i \in 1 .. Len(o) : o[i].err}
Good(o) == {i \in 1 .. Len(o) : ~o[i].err}

LEMMA FailedAndGood ==
    ASSUME NEW V, NEW o \in Seq(V)
    PROVE  /\ FilterErrors(o) \in Seq(V) /\ Len(FilterErrors(o)) = Cardinality(Failed(o))
           /\ FilterSuccessful(o) \in Seq(V)
           /\ Len(FilterSuccessful(o)) = Cardinality(Good(o))
           /\ Cardinality(Failed(o)) \in Nat /\ Cardinality(Good(o)) \in Nat /\ Len(o) \in Nat
           /\ Cardinality(Good(o)) = Len(o) - Cardinality(Failed(o))
<1>1. Len(o) \in Nat /\ Idx(o) = 1 .. Len(o)
  BY DEF Idx
<1>2. FilterErrors(o) = Keep(o, Failed(o)) /\ FilterSuccessful(o) = Keep(o, Good(o))
  BY <1>1 DEF FilterErrors, FilterSuccessful, Failed, Good
<1>3. Failed(o) \in SUBSET (1 .. Len(o)) /\ Good(o) \in SUBSET (1 .. Len(o))
  BY DEF Failed, Good
<1>4. /\ FilterErrors(o) \in Seq(V) /\ Len(FilterErrors(o)) = Cardinality(Failed(o))
      /\ FilterSuccessful(o) \in Seq(V)
      /\ Len(FilterSuccessful(o)) = Cardinality(Good(o))
  BY <1>2, <1>3, KeepPicks
<1>5. Failed(o) \cap Good(o) = {}
  BY Zenon DEF Failed, Good
<1>6. Failed(o) \cup Good(o) = 1 .. Len(o)
  BY Zenon DEF Failed, Good
<1> DEFINE a == Cardinality(Failed(o))
           b == Cardinality(Good(o))
           n == Len(o)
<1>7. Cardinality(1 .. n) = n
  <2> HIDE DEF n
  <2>1. 1 \in Int /\ n \in Int /\ (IF 1 > n THEN 0 ELSE n - 1 + 1) = n
    BY <1>1 DEF n
  <2> QED BY <2>1, FS_Interval
<1>8. 1 .. n \in SUBSET (1 .. n)
  OBVIOUS
<1>9. /\ a \in Nat /\ b \in Nat
      /\ a + b <= Cardinality(1 .. n) /\ Cardinality(1 .. n) <= a + b
  BY <1>1, <1>3, <1>5, <1>6, <1>8, CardParts
<1> HIDE DEF a, b, n
<1>10. b = n - a
  BY <1>1, <1>7, <1>9 DEF n
<1> QED BY <1>1, <1>4, <1>9, <1>10 DEF a, b, n

(* The operations of a type, if no type is empty.                          *)
OfType(o, t) == {i \in 1 .. Len(o) : o[i].type = t}
Named(t) == t # ""

LEMMA Indices ==
    ASSUME NEW V, NEW o \in Seq(V)
    PROVE  Len(o) \in Nat /\ Idx(o) = 1 .. Len(o) /\ DOMAIN o = 1 .. Len(o)
BY DEF Idx

LEMMA TypeKept ==
    ASSUME NEW o, NEW t, Named(t)
    PROVE  FilterByOp(o, t) = Keep(o, {i \in Idx(o) : o[i].type = t})
<1>1. \A i : t \in {o[i].type, ""} <=> o[i].type = t
  BY Zenon DEF Named
<1> QED BY <1>1, Zenon DEF FilterByOp

LEMMA TypeFiltered ==
    ASSUME NEW V, NEW o \in Seq(V), NEW t, Named(t)
    PROVE  /\ FilterByOp(o, t) \in Seq(V) /\ OfType(o, t) \in SUBSET (1 .. Len(o))
           /\ Len(FilterByOp(o, t)) = Cardinality(OfType(o, t))
           /\ Cardinality(OfType(o, t)) \in Nat
           /\ \E p : Picks(p, o, OfType(o, t), FilterByOp(o, t))
<1>1. Len(o) \in Nat /\ Idx(o) = 1 .. Len(o)
  BY Indices
<1>2. FilterByOp(o, t) = Keep(o, {i \in Idx(o) : o[i].type = t})
  BY TypeKept
<1>3. FilterByOp(o, t) = Keep(o, OfType(o, t))
  BY <1>1, <1>2, Zenon DEF OfType
<1>4. OfType(o, t) \in SUBSET (1 .. Len(o))
  BY DEF OfType
<1> QED BY <1>1, <1>3, <1>4, KeepPicks, PositionsFinite

(* Failed ones among them.                                                 *)
LEMMA TypeFailed ==
    ASSUME NEW V, NEW o \in Seq(V), NEW t, Named(t)
    PROVE  Len(FilterErrors(FilterByOp(o, t))) = Cardinality(OfType(o, t) \cap Failed(o))
<1> DEFINE r == FilterByOp(o, t)
           S == OfType(o, t)
           B == S \cap Failed(o)
           n == Len(o)
           c == Len(r)
           Q == Failed(r)
<1>1. r \in Seq(V) /\ S \in SUBSET (1 .. n) /\ \E p : Picks(p, o, S, r)
  BY TypeFiltered
<1>2. PICK p : Picks(p, o, S, r)
  BY <1>1
<1>3. Len(FilterErrors(r)) = Cardinality(Q) /\ Q \in SUBSET (1 .. c)
  <2> HIDE DEF r
  <2> QED BY <1>1, FailedAndGood DEF Failed
<1>4. p \in [1 .. c -> S] /\ \A k \in 1 .. c : r[k] = o[p[k]]
  <2> HIDE DEF r, S
  <2> QED BY <1>2 DEF Picks
<1>5. ASSUME NEW k \in 1 .. c PROVE k \in Q <=> p[k] \in B
  <2> HIDE DEF r, S
  <2>1. p[k] \in S /\ p[k] \in 1 .. Len(o) /\ r[k] = o[p[k]]
    BY <1>1, <1>4
  <2> QED BY <2>1, Zenon DEF Failed
<1>6. n \in Nat /\ B \in SUBSET S
  BY Indices
<1> HIDE DEF B, Q, c, n
<1>7. Q \in SUBSET (1 .. Len(r)) /\ \A k \in 1 .. Len(r) : k \in Q <=> p[k] \in B
  BY <1>3, <1>5 DEF c
<1> HIDE DEF r, S
<1>8. Cardinality(Q) = Cardinality(B)
  <2>1. Matches(p, r, Q, S, B, n)
    BY <1>1, <1>6, <1>7 DEF Matches
  <2> QED BY <1>2, <2>1, MatchingCount
<1> QED BY <1>3, <1>8 DEF r, S, B, Q, c

(* Sorting by the start: all of them.                                      *)
LEMMA SortedCounts ==
    ASSUME NEW V, NEW o \in Seq(V), Timed(o)
    PROVE  /\ SortByStartTime(o) \in Seq(V) /\ Len(SortByStartTime(o)) = Len(o)
           /\ Len(FilterErrors(SortByStartTime(o))) = Len(FilterErrors(o))
<1> DEFINE s == SortByStartTime(o)
           key == [i \in Idx(o) |-> o[i].start]
           I == 1 .. Len(o)
<1>1. s \in Seq(V) /\ Len(s) = Len(o)
  BY StartsSorted
<1>2. Len(o) \in Nat /\ Idx(o) = I
  BY DEF Idx
<1>3. \A i \in I : key[i] \in Int
  BY <1>2 DEF Timed, Times
<1>4. s = Arranged(o, I, key)
  BY <1>2 DEF SortByStartTime
<1> HIDE DEF s, key
<1>5. \E p : Picks(p, o, I, s)
  <2>1. I \in SUBSET (1 .. Len(o))
    OBVIOUS
  <2> HIDE DEF I
  <2> QED BY <1>3, <1>4, <2>1, ArrangedPicks
<1>6. PICK p : Picks(p, o, I, s)
  BY <1>5
<1>7. p \in [1 .. Len(s) -> I] /\ \A k \in 1 .. Len(s) : s[k] = o[p[k]]
  BY <1>6 DEF Picks
<1>8. ASSUME NEW k \in 1 .. Len(s) PROVE k \in Failed(s) <=> p[k] \in Failed(o)
  <2>1. p[k] \in I /\ s[k] = o[p[k]]
    BY <1>7
  <2> QED BY <2>1, Zenon DEF Failed
<1>9. /\ Len(FilterErrors(s)) = Cardinality(Failed(s)) /\ Failed(s) \in SUBSET (1 .. Len(s))
      /\ Len(FilterErrors(o)) = Cardinality(Failed(o)) /\ Failed(o) \in SUBSET I
  <2>1. Failed(s) \in SUBSET (1 .. Len(s)) /\ Failed(o) \in SUBSET I
    BY DEF Failed
  <2>2. /\ Len(FilterErrors(s)) = Cardinality(Failed(s))
        /\ Len(FilterErrors(o)) = Cardinality(Failed(o))
    BY <1>1, FailedAndGood
  <2> QED BY <2>1, <2>2
<1>10. Cardinality(Failed(s)) = Cardinality(Failed(o))
  <2> DEFINE Q == Failed(s)
             B == Failed(o)
             n == Len(o)
  <2>1. I \in SUBSET (1 .. n) /\ n \in Nat
    BY <1>2
  <2>2. Q \in SUBSET (1 .. Len(s)) /\ B \in SUBSET I
    BY <1>9
  <2>3. \A k \in 1 .. Len(s) : k \in Q <=> p[k] \in B
    BY <1>8
  <2> HIDE DEF I, Q, B, n
  <2>4. Cardinality(Q) = Cardinality(B)
    <3>1. Matches(p, s, Q, I, B, n)
      BY <2>1, <2>2, <2>3 DEF Matches
    <3> QED BY <1>6, <3>1, MatchingCount
  <2> QED BY <2>4 DEF Q, B
<1> QED BY <1>1, <1>9, <1>10 DEF s

(* Failed and successful ones among the operations kept.                   *)
LEMMA KeptCounts ==
    ASSUME NEW V, NEW o \in Seq(V), NEW S \in SUBSET (1 .. Len(o))
    PROVE  /\ Len(FilterErrors(Keep(o, S))) = Cardinality(S \cap Failed(o))
           /\ Len(FilterSuccessful(Keep(o, S))) = Cardinality(S \cap Good(o))
           /\ Len(Keep(o, S)) = Cardinality(S)
           /\ Keep(o, S) \in Seq(V)
           /\ FilterErrors(Keep(o, S)) \in Seq(V) /\ FilterSuccessful(Keep(o, S)) \in Seq(V)
<1> DEFINE r == Keep(o, S)
           B == S \cap Failed(o)
           C == S \cap Good(o)
           n == Len(o)
           c == Len(r)
           Q == Failed(r)
           P == Good(r)
<1>1. r \in Seq(V) /\ Len(r) = Cardinality(S) /\ \E p : Picks(p, o, S, r)
  BY KeepPicks
<1>2. PICK p : Picks(p, o, S, r)
  BY <1>1
<1>3. /\ FilterErrors(r) \in Seq(V) /\ Len(FilterErrors(r)) = Cardinality(Q)
      /\ FilterSuccessful(r) \in Seq(V) /\ Len(FilterSuccessful(r)) = Cardinality(P)
      /\ Q \in SUBSET (1 .. c) /\ P \in SUBSET (1 .. c)
  <2> HIDE DEF r
  <2>1. Q \in SUBSET (1 .. c) /\ P \in SUBSET (1 .. c)
    BY DEF Failed, Good
  <2> QED BY <1>1, <2>1, FailedAndGood
<1>4. p \in [1 .. c -> S] /\ \A k \in 1 .. c : r[k] = o[p[k]]
  <2> HIDE DEF r
  <2> QED BY <1>2 DEF Picks
<1>5. ASSUME NEW k \in 1 .. c PROVE (k \in Q <=> p[k] \in B) /\ (k \in P <=> p[k] \in C)
  <2> HIDE DEF r
  <2>1. p[k] \in S /\ p[k] \in 1 .. Len(o) /\ r[k] = o[p[k]]
    BY <1>1, <1>4
  <2> QED BY <2>1, Zenon DEF Failed, Good
<1>6. n \in Nat /\ B \in SUBSET S /\ C \in SUBSET S /\ S \in SUBSET (1 .. n)
  BY Indices
<1> HIDE DEF B, C, Q, P, n, c
<1>7. /\ Q \in SUBSET (1 .. Len(r)) /\ \A k \in 1 .. Len(r) : k \in Q <=> p[k] \in B
      /\ P \in SUBSET (1 .. Len(r)) /\ \A k \in 1 .. Len(r) : k \in P <=> p[k] \in C
  BY <1>3, <1>5 DEF c
<1> HIDE DEF r
<1>8. Cardinality(Q) = Cardinality(B) /\ Cardinality(P) = Cardinality(C)
  <2>1. Matches(p, r, Q, S, B, n) /\ Matches(p, r, P, S, C, n)
    BY <1>6, <1>7 DEF Matches
  <2> QED BY <1>2, <2>1, MatchingCount
<1> QED BY <1>1, <1>3, <1>8 DEF r, B, C, Q, P

(* A report of a range of time is not about more than there is.            *)
LEMMA InsideIs ==
    ASSUME NEW V, NEW o \in Seq(V), NEW a, NEW b
    PROVE  /\ FilterInsideRange(o, a, b) \in Seq(V)
           /\ Len(FilterInsideRange(o, a, b)) \in Nat
           /\ Len(FilterInsideRange(o, a, b)) <= Len(o)
<1> DEFINE S == {i \in Idx(o) : o[i].start >= a /\ o[i].end <= b}
<1>1. Len(o) \in Nat /\ Idx(o) = 1 .. Len(o)
  BY Indices
<1>2. FilterInsideRange(o, a, b) = Keep(o, S)
  BY DEF FilterInsideRange
<1>3. S \in SUBSET (1 .. Len(o))
  BY <1>1
<1> HIDE DEF S
<1>4. Keep(o, S) \in Seq(V) /\ Len(Keep(o, S)) = Cardinality(S)
  BY <1>3, KeepPicks
<1>5. Cardinality(S) \in Nat /\ Cardinality(S) <= Len(o)
  BY <1>1, <1>3, PositionsFinite
<1> QED BY <1>2, <1>4, <1>5

LEMMA RequestsBounded ==
    ASSUME NEW V, NEW o \in Seq(V), NEW b
    PROVE  /\ RequestAnalysisSingleSized(o, b).requests <= Len(o)
           /\ RequestAnalysisMultiSized(o, b).requests <= Len(o)
<1> DEFINE r == ActiveTimeRange(o, b)
           active == FilterInsideRange(o, r.start, r.end)
<1>1. Len(active) \in Nat /\ Len(active) <= Len(o) /\ 0 <= Len(o)
  <2> HIDE DEF r
  <2> QED BY InsideIs
<1> HIDE DEF active, r
<1>2. RequestAnalysisSingleSized(o, b).requests = IF active = <<>> THEN 0 ELSE Len(active)
  BY DEF RequestAnalysisSingleSized, active, r
<1>3. RequestAnalysisMultiSized(o, b).requests = IF active = <<>> THEN 0 ELSE Len(active)
  BY DEF RequestAnalysisMultiSized, active, r
<1> QED BY <1>1, <1>2, <1>3
-----------------------------------------------------------------------------
(* A segment with a type, and what it is filled with.                      *)
Blank(t, a, b) == [NoSegment EXCEPT !.type = t, !.start = a, !.ends = b]

LEMMA BytesSane ==
    ASSUME NEW op, NEW s, Times(op), op.size \in Nat, Segmental(s), InSegment(op, s)
    PROVE  Bytes(op, s) \in Nat
<1>1. CASE Whole(op, s)
  BY <1>1 DEF Bytes
<1>2. CASE ~Whole(op, s)
  <2>1. PartSize(op, s) \in Nat
    BY <1>2, PartSizeSane
  <2> QED BY <1>2, <2>1 DEF Bytes
<1> QED BY <1>1, <1>2

LEMMA FilledSane ==
    ASSUME NEW V, NEW o, Sized(V, o), NEW t, NEW a \in Nat, NEW b \in Nat, a < b
    PROVE  LET f == FillSegment(o, Blank(t, a, b))
           IN  /\ f.start = a /\ f.ends = b /\ f.bytes \in Int
               /\ f.full \in Nat /\ f.full <= Len(o)
<1> DEFINE s == Blank(t, a, b)
           in == {i \in FirstEntry(o, s) .. Len(o) : InSegment(o[i], s)}
           full == {i \in in : Whole(o[i], s) /\ ~o[i].err}
           part == {i \in in : ~Whole(o[i], s)}
           g == [i \in in |-> Bytes(o[i], s)]
           c1 == SumAt(in, g, Len(o))
           c2 == Cardinality(full)
           c3 == Cardinality(part)
           c4 == Cardinality(full \cup {i \in part : StartedIn(o[i], s)})
           c5 == Cardinality(full \cup {i \in part : EndedIn(o[i], s)})
           c6 == Cardinality({i \in in : o[i].err /\ EndedIn(o[i], s)})
           f == FillSegment(o, s)
           n == Len(o)
<1>1. f = [s EXCEPT !.bytes = c1, !.full = c2, !.partial = c3, !.started = c4,
                    !.ended = c5, !.errors = c6]
  BY DEF FillSegment
<1>2. s = [NoSegment EXCEPT !.type = t, !.start = a, !.ends = b]
  BY DEF Blank
<1>3. s.start = a /\ s.ends = b
  BY <1>2 DEF NoSegment
<1>4. Segmental(s)
  BY <1>3 DEF Segmental
<1>5. in = In(o, s)
  BY DEF In
<1>6. n \in Nat /\ \A i \in 1 .. n : Times(o[i]) /\ o[i].size \in Nat
  BY SizedIs
<1>7. in \in SUBSET (1 .. n) /\ \A i \in in : InSegment(o[i], s)
  BY <1>5, InIs
<1>8. full \in SUBSET (1 .. n)
  BY <1>7
<1>9. f.start = a /\ f.ends = b /\ f.bytes = c1 /\ f.full = c2
  <2> HIDE DEF c1, c2, c3, c4, c5, c6, s, f
  <2> QED BY <1>1, <1>2 DEF NoSegment
<1>10. c2 \in Nat /\ c2 <= n
  <2> HIDE DEF full, n
  <2> QED BY <1>6, <1>8, PositionsFinite
<1>11. c1 \in Int
  <2>1. \A i \in in : g[i] = Bytes(o[i], s)
    OBVIOUS
  <2>2. \A i \in in : g[i] \in Int
    <3> SUFFICES ASSUME NEW i \in in PROVE g[i] \in Int
      OBVIOUS
    <3>1. Times(o[i]) /\ o[i].size \in Nat /\ InSegment(o[i], s)
      BY <1>6, <1>7
    <3>2. Bytes(o[i], s) \in Nat
      BY <1>4, <3>1, BytesSane
    <3> QED BY <2>1, <3>2
  <2> HIDE DEF g, in, s, n
  <2>3. Numbers(in, g, n)
    BY <1>6, <2>2 DEF Numbers, At
  <2>4. n \in 0 .. n
    BY <1>6
  <2>5. SumAt(in, g, n) \in Int
    BY <2>3, <2>4, SumInt
  <2> QED BY <2>5 DEF n
<1> HIDE DEF f, c1, c2
<1> QED BY <1>9, <1>10, <1>11 DEF f, s, n

(* Sorting keeps sizes.                                                    *)
LEMMA SortedSized ==
    ASSUME NEW V, NEW o, Sized(V, o)
    PROVE  Sized(V, SortByStartTime(o)) /\ Len(SortByStartTime(o)) = Len(o)
<1> DEFINE s == SortByStartTime(o)
<1>1. o \in Seq(V) /\ Timed(o) /\ \A i \in Idx(o) : o[i].size \in Nat
  BY DEF Sized
<1>2. /\ s \in Seq(V) /\ Len(s) = Len(o) /\ Timed(s)
      /\ \A k \in Idx(s) : \E i \in Idx(o) : s[k] = o[i]
  BY <1>1, StartsSorted
<1> HIDE DEF s
<1>3. \A k \in Idx(s) : s[k].size \in Nat
  BY <1>1, <1>2
<1> QED BY <1>2, <1>3 DEF Sized, s

(* The segments of a list: how many, and what they hold.                   *)
SegmentCount(r, from, d) == IF r.end - d <= from THEN 0 ELSE (r.end - from - 1) \div d

Holds(segs, n, o) ==
    /\ Len(segs) = n /\ segs \in Seq({segs[k] : k \in 1 .. n})
    /\ \A k \in 1 .. n : /\ segs[k].bytes \in Int
                         /\ segs[k].full \in Nat /\ segs[k].full <= Len(o)

LEMMA SegmentsAre ==
    ASSUME NEW V, NEW o, Sized(V, o), NEW from \in Nat, NEW d \in Nat \ {0},
           NEW allThreads \in BOOLEAN, NEW multi \in BOOLEAN
    PROVE  LET s == SortByStartTime(o)
               r == ActiveTimeRange(s, allThreads)
               first == Max({from, r.start})
               n == SegmentCount(r, first, d)
               segs == Segment(o, from, d, allThreads, multi)
           IN  /\ first \in Nat /\ first >= r.start /\ first >= from
               /\ first \in {from, r.start}
               /\ n \in Nat /\ n * d \in Int /\ (n # 0 => n * d <= r.end - first - 1)
               /\ Holds(segs, n, o)
<1> DEFINE s == SortByStartTime(o)
           r == ActiveTimeRange(s, allThreads)
           first == Max({from, r.start})
           last == r.end
           n == SegmentCount(r, first, d)
           segs == Segment(o, from, d, allThreads, multi)
           t == IF multi THEN "" ELSE s[1].type
           f(k) == FillSegment(s, Blank(t, first + (k - 1) * d, first + k * d))
<1>1. Sized(V, s) /\ Len(s) = Len(o)
  BY SortedSized
<1>2. s \in Seq(V) /\ Timed(s)
  BY <1>1 DEF Sized
<1>3. r.start \in Nat /\ last \in Nat /\ r.start <= last
  <2> HIDE DEF s
  <2> QED BY <1>2, ActiveRangeIs
<1>4. first \in Nat /\ first >= r.start /\ first >= from /\ first \in {from, r.start}
  <2> DEFINE a == r.start
  <2>1. from \in Int /\ a \in Int
    BY <1>3
  <2> HIDE DEF a
  <2>2. Max({from, a}) = IF from >= a THEN from ELSE a
    BY <2>1, MaxTwo
  <2>3. first = Max({from, a})
    BY DEF a
  <2> HIDE DEF first
  <2> QED BY <1>3, <2>1, <2>2, <2>3 DEF a
<1>5. segs = [k \in 1 .. n |-> f(k)]
  <2>1. ~(d <= 0)
    OBVIOUS
  <2> QED BY <2>1 DEF Segment, SegmentCount, Blank
<1>6. n \in Nat /\ n * d \in Int /\ (n # 0 => n * d <= last - first - 1)
  <2>0. n = IF last - d <= first THEN 0 ELSE (last - first - 1) \div d
    BY DEF SegmentCount
  <2> HIDE DEF first, last, n, r
  <2>1. CASE last - d <= first
    BY <2>0, <2>1
  <2>2. CASE ~(last - d <= first)
    <3> DEFINE x == last - first - 1
               q == x \div d
    <3>1. x \in Nat
      BY <1>3, <1>4, <2>2
    <3> HIDE DEF x
    <3>2. q \in Nat /\ d * q <= x
      BY <3>1
    <3>3. n = q
      BY <2>0, <2>2 DEF x
    <3> HIDE DEF q
    <3>4. n \in Nat /\ n * d \in Int /\ n * d <= x
      BY <3>2, <3>3
    <3> QED BY <3>4 DEF x
  <2> QED BY <2>1, <2>2
<1>7. ASSUME NEW k \in 1 .. n
      PROVE  f(k).bytes \in Int /\ f(k).full \in Nat /\ f(k).full <= Len(o)
  <2> DEFINE a == first + (k - 1) * d
             b == first + k * d
  <2>1. a \in Nat /\ b \in Nat /\ a < b
    <3> HIDE DEF n, first
    <3>1. k \in Nat \ {0} /\ k - 1 \in Nat
      BY <1>6
    <3> DEFINE m == k - 1
    <3>2. m \in Nat /\ k = m + 1
      BY <3>1
    <3> HIDE DEF m
    <3>3. m * d \in Nat /\ (m + 1) * d = m * d + d
      BY <3>2
    <3>4. a = first + m * d /\ b = first + (m + 1) * d
      BY <3>2 DEF m
    <3> DEFINE x == m * d
    <3>5. x \in Nat /\ a = first + x /\ b = first + (x + d)
      BY <3>3, <3>4
    <3> HIDE DEF a, b, x
    <3> QED BY <1>4, <3>5
  <2> HIDE DEF a, b, s, t
  <2>2. /\ FillSegment(s, Blank(t, a, b)).bytes \in Int
        /\ FillSegment(s, Blank(t, a, b)).full \in Nat
        /\ FillSegment(s, Blank(t, a, b)).full <= Len(s)
    BY <1>1, <2>1, FilledSane
  <2>3. f(k) = FillSegment(s, Blank(t, a, b))
    BY DEF a, b
  <2> HIDE DEF f
  <2> QED BY <1>1, <2>2, <2>3
<1> HIDE DEF f, n, segs
<1>8. Len(segs) = n /\ \A k \in 1 .. n : segs[k] = f(k)
  BY <1>5, <1>6
<1>10. segs \in Seq({segs[k] : k \in 1 .. n})
  <2> DEFINE U == {segs[k] : k \in 1 .. n}
  <2>1. \A k \in 1 .. n : f(k) \in U
    BY <1>8
  <2> HIDE DEF U
  <2>2. segs \in Seq(U)
    BY <1>5, <1>6, <2>1
  <2> QED BY <2>2 DEF U
<1>9. \A k \in 1 .. n : /\ segs[k].bytes \in Int
                        /\ segs[k].full \in Nat /\ segs[k].full <= Len(o)
  BY <1>7, <1>8
<1>11. Holds(segs, n, o)
  BY <1>8, <1>9, <1>10 DEF Holds
<1> HIDE DEF first, r, last
<1> QED BY <1>4, <1>6, <1>11 DEF s, r, first, n, segs, last
-----------------------------------------------------------------------------
(* Operations as the clients record them: with a type, a size, and times   *)
(* that the clock shows.                                                   *)
Ticked(x) == \E k \in Nat : x = k * Tick
Reportable(op) ==
    Times(op) /\ op.size \in Nat /\ Named(op.type) /\ Ticked(op.start) /\ Ticked(op.end)
Listed(V, o) == o \in Seq(V) /\ \A v \in V : Reportable(v)
Starting(o) == \A i, j \in Idx(o) : i <= j => o[i].start <= o[j].start

LEMMA ListedIs ==
    ASSUME NEW V, NEW o, Listed(V, o)
    PROVE  /\ o \in Seq(V) /\ Len(o) \in Nat /\ Idx(o) = 1 .. Len(o) /\ Timed(o) /\ Sized(V, o)
           /\ \A i \in Idx(o) : Reportable(o[i])
           /\ \A x \in TimesOf(o) : Ticked(x)
<1>1. o \in Seq(V) /\ \A v \in V : Reportable(v)
  BY DEF Listed
<1>2. Len(o) \in Nat /\ Idx(o) = 1 .. Len(o) /\ \A i \in Idx(o) : o[i] \in V
  BY <1>1, Indices
<1>3. \A i \in Idx(o) : Reportable(o[i])
  BY <1>1, <1>2
<1>4. \A i \in Idx(o) : /\ Times(o[i]) /\ o[i].size \in Nat
                        /\ Ticked(o[i].start) /\ Ticked(o[i].end)
  BY <1>3, Zenon DEF Reportable
<1>5. Timed(o) /\ Sized(V, o)
  BY <1>1, <1>4 DEF Timed, Sized
<1>6. \A x \in TimesOf(o) : Ticked(x)
  BY <1>4 DEF TimesOf
<1> QED BY <1>1, <1>2, <1>3, <1>5, <1>6

(* What is kept of a list in the order of the starts is in that order.     *)
LEMMA KeepStarting ==
    ASSUME NEW V, NEW o, Listed(V, o), NEW S \in SUBSET (1 .. Len(o))
    PROVE  Listed(V, Keep(o, S)) /\ (Starting(o) => Starting(Keep(o, S)))
<1> DEFINE key == [i \in Idx(o) |-> i]
           c == Cardinality(S)
           f == Keep(o, S)
<1>1. o \in Seq(V) /\ Len(o) \in Nat /\ Idx(o) = 1 .. Len(o)
  BY ListedIs
<1>2. f \in Seq(V) /\ Len(f) = c
  BY <1>1, KeepPicks
<1>3. Keyed(S, Len(o), key)
  BY <1>1 DEF Keyed
<1>4. f = Arranged(o, S, key)
  BY DEF Keep
<1>5. \A i \in S : key[i] = i /\ i \in Idx(o)
  BY <1>1
<1> HIDE DEF key, f
<1>6. PICK p : Orders(p, c, o, S, key)
  BY <1>3, ArrangedIs
<1>7. /\ c \in Nat /\ p \in [1 .. c -> S] /\ f = [k \in 1 .. c |-> o[p[k]]]
      /\ \A k, l \in 1 .. c : k <= l => key[p[k]] <= key[p[l]]
  BY <1>4, <1>6 DEF Orders
<1> HIDE DEF c
<1>8. Idx(f) = 1 .. c
  BY <1>2 DEF Idx
<1>9. ASSUME Starting(o), NEW k \in 1 .. c, NEW l \in 1 .. c, k <= l
      PROVE  f[k].start <= f[l].start
  <2>1. p[k] \in S /\ p[l] \in S /\ f[k] = o[p[k]] /\ f[l] = o[p[l]]
    BY <1>7
  <2>2. p[k] \in Idx(o) /\ p[l] \in Idx(o) /\ p[k] <= p[l]
    BY <1>5, <1>7, <1>9, <2>1
  <2> QED BY <1>9, <2>1, <2>2 DEF Starting
<1>10. Starting(o) => Starting(f)
  BY <1>8, <1>9 DEF Starting
<1>11. Listed(V, f)
  BY <1>2 DEF Listed
<1> QED BY <1>10, <1>11 DEF f

LEMMA StartingSorted ==
    ASSUME NEW V, NEW o, Listed(V, o)
    PROVE  /\ Starting(o) => SortByStartTime(o) = o
           /\ Starting(SortByStartTime(o)) /\ Listed(V, SortByStartTime(o))
<1> DEFINE key == [i \in Idx(o) |-> o[i].start]
           s == SortByStartTime(o)
           n == Len(o)
<1>1. o \in Seq(V) /\ Timed(o) /\ Idx(o) = 1 .. Len(o) /\ Len(o) \in Nat
  BY ListedIs
<1>2. \A i \in Idx(o) : key[i] \in Int /\ key[i] = o[i].start
  BY <1>1 DEF Timed, Times
<1>3. s = Arranged(o, Idx(o), key)
  BY DEF SortByStartTime
<1> HIDE DEF key
<1>4. ASSUME Starting(o) PROVE s = o
  <2>1. \A i, j \in Idx(o) : i <= j => key[i] <= key[j]
    BY <1>2, <1>4 DEF Starting
  <2> QED BY <1>1, <1>2, <1>3, <2>1, SortedStays
<1> HIDE DEF s
<1>5. s \in Seq(V) /\ Len(s) = n /\ \E p : Orders(p, n, o, Idx(o), key)
  BY <1>1, <1>2, <1>3, SortedIs
<1>6. PICK p : Orders(p, n, o, Idx(o), key)
  BY <1>5
<1>7. /\ p \in [1 .. n -> Idx(o)] /\ s = [k \in 1 .. n |-> o[p[k]]]
      /\ \A k, l \in 1 .. n : k <= l => key[p[k]] <= key[p[l]]
  BY <1>3, <1>6 DEF Orders
<1>8. Idx(s) = 1 .. n
  BY <1>5 DEF Idx
<1> HIDE DEF n
<1>9. Starting(s)
  <2> SUFFICES ASSUME NEW k \in 1 .. n, NEW l \in 1 .. n, k <= l
               PROVE  s[k].start <= s[l].start
    BY <1>8 DEF Starting
  <2>1. p[k] \in Idx(o) /\ p[l] \in Idx(o) /\ s[k] = o[p[k]] /\ s[l] = o[p[l]]
    BY <1>7
  <2> QED BY <1>2, <1>7, <2>1
<1> QED BY <1>4, <1>5, <1>9 DEF s, Listed

(* Two different times of the clock are 2 apart at least.                  *)
LEMMA TicksApart ==
    ASSUME NEW x, NEW y, Ticked(x), Ticked(y), x < y
    PROVE  x \in Nat /\ y \in Nat /\ x + 2 <= y
<1>1. Tick \in Nat /\ Tick >= 2
  BY AnalysisAssumption
<1>2. PICK k \in Nat : x = k * Tick
  BY DEF Ticked
<1>3. PICK l \in Nat : y = l * Tick
  BY DEF Ticked
<1>4. x \in Nat /\ y \in Nat
  BY <1>1, <1>2, <1>3
<1>5. k < l
  <2> SUFFICES ASSUME l <= k PROVE FALSE
    BY <1>2, <1>3
  <2> DEFINE e == k - l
  <2>1. e \in Nat /\ k = l + e
    OBVIOUS
  <2> HIDE DEF e
  <2>2. l * Tick <= (l + e) * Tick
    BY <1>1, <2>1, TicksMonotone
  <2> QED BY <1>2, <1>3, <1>4, <2>1, <2>2
<1>6. x + Tick <= y
  <2> DEFINE e == l - k - 1
  <2>1. e \in Nat /\ l = (k + 1) + e /\ k + 1 \in Nat
    BY <1>5
  <2> HIDE DEF e
  <2>2. (k + 1) * Tick <= ((k + 1) + e) * Tick
    BY <1>1, <2>1, TicksMonotone
  <2>3. (k + 1) * Tick = k * Tick + Tick
    BY <1>1
  <2> QED BY <1>1, <1>2, <1>3, <1>4, <2>1, <2>2, <2>3
<1> QED BY <1>1, <1>4, <1>6

(* The total is about no more operations than there are: its segment is    *)
(* the active range, which no clock makes a nanosecond short.              *)
LEMMA TotalBounded ==
    ASSUME NEW V, NEW o, Listed(V, o), Starting(o), NEW allThreads \in BOOLEAN
    PROVE  Total(o, allThreads).full \in Nat /\ Total(o, allThreads).full <= Len(o)
<1> DEFINE r == ActiveTimeRange(o, allThreads)
           d == r.end - r.start - 1
           multi == isMixed(o)
           segs == Segment(o, r.start, d, allThreads, multi)
           first == Max({r.start, r.start})
           n == SegmentCount(r, first, d)
<1>1. /\ Len(o) \in Nat /\ Timed(o) /\ Sized(V, o) /\ o \in Seq(V)
      /\ \A x \in TimesOf(o) : Ticked(x)
  BY ListedIs
<1>2. SortByStartTime(o) = o
  BY StartingSorted
<1>3. /\ r.start \in Nat /\ r.end \in Nat /\ r.start <= r.end
      /\ o = <<>> => r.start = 0 /\ r.end = 0
      /\ o # <<>> => r.start \in TimesOf(o) /\ r.end \in TimesOf(o)
  BY <1>1, ActiveRangeIs
<1>4. CASE r.start = r.end
  <2>1. Total(o, allThreads) = NoSegment
    BY <1>4 DEF Total
  <2>2. NoSegment.full = 0
    BY DEF NoSegment
  <2> QED BY <1>1, <2>1, <2>2
<1>5. CASE r.start # r.end
  <2>1. Total(o, allThreads) = segs[1]
    BY <1>5 DEF Total
  <2>2. multi \in BOOLEAN
    BY DEF isMixed
  <2>3. o # <<>> /\ Ticked(r.start) /\ Ticked(r.end)
    BY <1>1, <1>3, <1>5
  <2>4. d \in Nat \ {0}
    <3> HIDE DEF r
    <3>1. r.start < r.end
      BY <1>3, <1>5
    <3>2. r.start + 2 <= r.end
      BY <2>3, <3>1, TicksApart
    <3> QED BY <1>3, <3>2
  <2> HIDE DEF d, multi
  <2>5. /\ first \in Nat /\ first \in {r.start, r.start}
        /\ \A k \in 1 .. n : segs[k].full \in Nat /\ segs[k].full <= Len(o)
    <3> DEFINE from == r.start
               q == ActiveTimeRange(SortByStartTime(o), allThreads)
               first2 == Max({from, q.start})
               n2 == SegmentCount(q, first2, d)
               segs2 == Segment(o, from, d, allThreads, multi)
    <3>1. from \in Nat
      BY <1>3
    <3>2. q = r
      BY <1>2
    <3> HIDE DEF from
    <3>3. first2 \in Nat /\ first2 \in {from, q.start} /\ Holds(segs2, n2, o)
      BY <1>1, <2>2, <2>4, <3>1, SegmentsAre
    <3>4. first2 = first /\ n2 = n /\ segs2 = segs
      <4> HIDE DEF q, r
      <4> QED BY <3>2 DEF from
    <3> HIDE DEF first2, n2, segs2, first, n, segs
    <3>5. first \in {from, q.start} /\ q.start = r.start
      <4> HIDE DEF q, r
      <4> QED BY <3>2, <3>3, <3>4
    <3> QED BY <3>3, <3>4, <3>5 DEF from, Holds
  <2>6. n = 1
    <3> HIDE DEF r, first
    <3>1. first = r.start
      BY <2>5
    <3>2. d = r.end - r.start - 1
      BY DEF d, r
    <3>3. ~(r.end - d <= first) /\ r.end - first - 1 = d
      BY <1>3, <2>4, <3>1, <3>2
    <3>4. d \div d = 1
      BY <2>4
    <3> QED BY <3>3, <3>4 DEF SegmentCount
  <2> HIDE DEF n, segs
  <2> QED BY <2>1, <2>5, <2>6
<1> QED BY <1>4, <1>5

(* The hosts share the operations.                                         *)
HostOf(o, h) == {i \in 1 .. Len(o) : o[i].host = h}

LEMMA HostCounts ==
    ASSUME NEW V, NEW o, Listed(V, o), Starting(o), NEW h
    PROVE  LET all == FilterByEndpoint(o, h)
           IN  /\ Len(FilterErrors(all)) = Cardinality(HostOf(o, h) \cap Failed(o))
               /\ Total(FilterSuccessful(all), FALSE).full \in Nat
               /\ Total(FilterSuccessful(all), FALSE).full
                      <= Cardinality(HostOf(o, h) \cap Good(o))
<1> DEFINE S == HostOf(o, h)
           all == FilterByEndpoint(o, h)
           good == FilterSuccessful(all)
<1>1. o \in Seq(V) /\ Idx(o) = 1 .. Len(o)
  BY ListedIs
<1>2. all = Keep(o, S)
  BY <1>1 DEF FilterByEndpoint, HostOf
<1>3. S \in SUBSET (1 .. Len(o))
  BY DEF HostOf
<1> HIDE DEF S, all
<1>4. /\ Len(FilterErrors(all)) = Cardinality(S \cap Failed(o))
      /\ Len(good) = Cardinality(S \cap Good(o))
  BY <1>1, <1>2, <1>3, KeptCounts
<1>5. Listed(V, all) /\ Starting(all)
  BY <1>2, <1>3, KeepStarting
<1>6. Listed(V, good) /\ Starting(good)
  <2> DEFINE G == {i \in Idx(all) : ~all[i].err}
  <2>1. good = Keep(all, G)
    BY DEF FilterSuccessful
  <2>2. G \in SUBSET (1 .. Len(all))
    BY DEF Idx
  <2> HIDE DEF G, good
  <2> QED BY <1>5, <2>1, <2>2, KeepStarting
<1> HIDE DEF good
<1>7. Total(good, FALSE).full \in Nat /\ Total(good, FALSE).full <= Len(good)
  BY <1>6, TotalBounded
<1> QED BY <1>4, <1>7 DEF all, good, S

LEMMA HostsBounded ==
    ASSUME NEW V, NEW o, Listed(V, o), Starting(o)
    PROVE  LET t == ThroughputByHost(o)
           IN  /\ SumOver(DOMAIN t, [h \in DOMAIN t |-> t[h].errors]) <= Len(FilterErrors(o))
               /\ SumOver(DOMAIN t, [h \in DOMAIN t |-> t[h].operations])
                      <= Len(FilterSuccessful(o))
<1> DEFINE t == ThroughputByHost(o)
           H == Endpoints(FilterSuccessful(o))
           e == [h \in H |-> t[h].errors]
           c == [h \in H |-> t[h].operations]
           P == [h \in H |-> HostOf(o, h) \cap Failed(o)]
           Q == [h \in H |-> HostOf(o, h) \cap Good(o)]
           n == Len(o)
           F == Failed(o)
           G == Good(o)
<1>1. o \in Seq(V) /\ n \in Nat
  BY ListedIs
<1>2. /\ DOMAIN t = H
      /\ \A h \in H : LET all == FilterByEndpoint(o, h)
                      IN  /\ t[h].errors = Len(FilterErrors(all))
                          /\ t[h].operations = Total(FilterSuccessful(all), FALSE).full
  BY DEF ThroughputByHost, Throughput
<1>3. Len(FilterErrors(o)) = Cardinality(F) /\ Len(FilterSuccessful(o)) = Cardinality(G)
  BY <1>1, FailedAndGood
<1>4. F \in SUBSET (1 .. n) /\ G \in SUBSET (1 .. n)
  BY DEF Failed, Good
<1>5. \A h \in H : P[h] \in SUBSET F /\ Q[h] \in SUBSET G
  OBVIOUS
<1>6. ASSUME NEW g \in H, NEW h \in H, g # h
      PROVE  P[g] \cap P[h] = {} /\ Q[g] \cap Q[h] = {}
  <2>1. HostOf(o, g) \cap HostOf(o, h) = {}
    BY <1>6 DEF HostOf
  <2> QED BY <2>1
<1>7. \A h \in H : /\ t[h].errors = Cardinality(P[h])
                   /\ t[h].operations \in Nat /\ t[h].operations <= Cardinality(Q[h])
  <2> HIDE DEF t, H
  <2> QED BY <1>2, HostCounts
<1>8. \A h \in H : Cardinality(P[h]) \in Nat
  <2> HIDE DEF P, H, n, F
  <2>1. \A h \in H : P[h] \in SUBSET (1 .. n)
    BY <1>4, <1>5
  <2> QED BY <1>1, <2>1, PositionsFinite
<1>9. \A h \in H : e[h] = t[h].errors /\ c[h] = t[h].operations
  OBVIOUS
<1> HIDE DEF t, H, e, c, P, Q, n, F, G
<1>10. Parted(H, P, n, F) /\ Parted(H, Q, n, G)
  BY <1>1, <1>4, <1>5, <1>6 DEF Parted
<1>11. \A h \in H : e[h] \in Nat /\ e[h] <= Cardinality(P[h])
  BY <1>7, <1>8, <1>9
<1>12. \A h \in H : c[h] \in Nat /\ c[h] <= Cardinality(Q[h])
  BY <1>7, <1>9
<1>13. SumOver(H, e) <= Cardinality(F)
  BY <1>10, <1>11, CountedOut
<1>14. SumOver(H, c) <= Cardinality(G)
  BY <1>10, <1>12, CountedOut
<1> QED BY <1>2, <1>3, <1>13, <1>14 DEF t, e, c

(* The slowest and the fastest segment are the extremes.                   *)
LEMMA SegmentedBounds ==
    ASSUME NEW V, NEW segs \in Seq(V), segs # <<>>,
           \A k \in 1 .. Len(segs) : segs[k].bytes \in Int, NEW total
    PROVE  LET z == Segmented(segs, total)
           IN  z.sortedBy = "bps" =>
                 /\ \A k \in Idx(segs) : segs[k].bytes \in z.slowest .. z.fastest
                 /\ z.median \in z.slowest .. z.fastest
<1> DEFINE z == Segmented(segs, total)
           s == SortSegments(segs)
           key == [i \in Idx(segs) |-> segs[i].bytes]
           n == Len(segs)
<1>1. n \in Nat \ {0} /\ Idx(segs) = 1 .. n
  BY Indices
<1>2. \A i \in Idx(segs) : key[i] \in Int /\ key[i] = segs[i].bytes
  BY <1>1
<1>3. s = Arranged(segs, Idx(segs), key)
  BY DEF SortSegments
<1> HIDE DEF key, s
<1>4. Len(s) = n /\ \E p : Orders(p, n, segs, Idx(segs), key)
  BY <1>2, <1>3, SortedIs
<1>5. PICK p : Orders(p, n, segs, Idx(segs), key)
  BY <1>4
<1>6. /\ p \in [1 .. n -> 1 .. n] /\ s = [k \in 1 .. n |-> segs[p[k]]]
      /\ \A i \in 1 .. n : \E k \in 1 .. n : p[k] = i
      /\ \A k, l \in 1 .. n : k <= l => key[p[k]] <= key[p[l]]
  BY <1>1, <1>3, <1>5 DEF Orders
<1> DEFINE b(k) == s[k].bytes
<1>7. \A k \in 1 .. n : p[k] \in 1 .. n /\ b(k) = key[p[k]] /\ b(k) \in Int
  BY <1>1, <1>2, <1>6
<1>8. \A k, l \in 1 .. n : k <= l => b(k) <= b(l)
  BY <1>6, <1>7
<1>9. \A i \in 1 .. n : \E k \in 1 .. n : segs[i].bytes = b(k)
  BY <1>1, <1>2, <1>6, <1>7
<1> HIDE DEF b, n
<1>10. MedianIdx(n, 0) = 1
  <2> DEFINE x == (2 * n * 0 + 100) \div 200
             m == n - 1
  <2>1. MedianIdx(n, 0) = Min({x, m}) + 1
    BY DEF MedianIdx
  <2>2. x = 0 /\ m \in Int /\ 0 <= m
    BY <1>1
  <2> HIDE DEF x, m
  <2>3. Min({0, m}) = 0
    BY <2>2, MinTwo
  <2> QED BY <2>1, <2>2, <2>3
<1>11. MedianIdx(n, 100) = n
  <2>1. 100 \in 0 .. 100
    OBVIOUS
  <2>2. /\ MedianIdx(n, 100) \in 1 .. n
        /\ 100 * MedianIdx(n, 100) >= 100 * n
    BY <1>1, <2>1, MedianIndex
  <2> DEFINE m == MedianIdx(n, 100)
  <2> HIDE DEF m
  <2>3. m \in 1 .. n /\ 100 * m >= 100 * n
    BY <2>2 DEF m
  <2>4. m = n
    BY <1>1, <2>3
  <2> QED BY <2>4 DEF m
<1>12. MedianIdx(n, 50) \in 1 .. n
  <2>1. 50 \in 0 .. 100
    OBVIOUS
  <2> QED BY <1>1, <2>1, MedianIndex
<1>13. z.sortedBy = "bps" => /\ z.slowest = b(1) /\ z.fastest = b(n)
                             /\ z.median = b(MedianIdx(n, 50))
  <2>1. CASE total.bytes = 0
    BY <2>1 DEF Segmented
  <2>2. CASE total.bytes # 0
    <3>1. z = [sortedBy |-> "bps", slowest |-> SegmentMedian(s, 0).bytes,
               median |-> SegmentMedian(s, 50).bytes, fastest |-> SegmentMedian(s, 100).bytes]
      BY <2>2 DEF Segmented, s
    <3>2. /\ SegmentMedian(s, 0) = s[1] /\ SegmentMedian(s, 100) = s[n]
          /\ SegmentMedian(s, 50) = s[MedianIdx(n, 50)]
      BY <1>4, <1>10, <1>11 DEF SegmentMedian
    <3> HIDE DEF z
    <3> QED BY <3>1, <3>2 DEF b
  <2> QED BY <2>1, <2>2
<1>14. 1 \in 1 .. n /\ n \in 1 .. n /\ \A k \in 1 .. n : 1 <= k /\ k <= n
  BY <1>1
<1>15. \A k \in 1 .. n : b(k) \in b(1) .. b(n)
  BY <1>7, <1>8, <1>14
<1> HIDE DEF z
<1>16. z.sortedBy = "bps" =>
         /\ \A k \in Idx(segs) : segs[k].bytes \in z.slowest .. z.fastest
         /\ z.median \in z.slowest .. z.fastest
  <2> SUFFICES ASSUME z.sortedBy = "bps"
               PROVE  /\ \A k \in Idx(segs) : segs[k].bytes \in z.slowest .. z.fastest
                      /\ z.median \in z.slowest .. z.fastest
    OBVIOUS
  <2>1. z.slowest = b(1) /\ z.fastest = b(n) /\ z.median = b(MedianIdx(n, 50))
    BY <1>13
  <2>2. z.median \in b(1) .. b(n)
    BY <1>12, <1>15, <2>1
  <2>3. \A k \in Idx(segs) : segs[k].bytes \in b(1) .. b(n)
    BY <1>1, <1>9, <1>15
  <2> QED BY <2>1, <2>2, <2>3
<1> QED BY <1>16 DEF z
-----------------------------------------------------------------------------
(* The range of a list holds its times.                                    *)
LEMMA RangeHolds ==
    ASSUME NEW V, NEW o \in Seq(V), Timed(o), o # <<>>
    PROVE  LET r == TimeRange(o)
           IN  /\ \A x \in TimesOf(o) : r.start <= x /\ x <= r.end
               /\ \E i \in Idx(o) : r.start = o[i].start
               /\ \E i \in Idx(o) : r.end = o[i].end
<1> DEFINE starts == [i \in Idx(o) |-> o[i].start]
           ends == [i \in Idx(o) |-> o[i].end]
           S == {o[i].start : i \in Idx(o)}
           E == {o[i].end : i \in Idx(o)}
           r == TimeRange(o)
<1>1. Len(o) \in Nat /\ 1 \in Idx(o) /\ Idx(o) = 1 .. Len(o)
  BY DEF Idx
<1>2. Among(S, Len(o), starts, 0) /\ Among(E, Len(o), ends, 0)
  BY <1>1 DEF Timed, Times, Among
<1>3. r.start = Min(S) /\ r.end = Max(E)
  BY DEF TimeRange, Interval
<1>4. \A i \in Idx(o) : o[i].start \in S /\ o[i].end \in E
  OBVIOUS
<1>5. (\A y \in S : \E i \in Idx(o) : y = o[i].start) /\ \A y \in E : \E i \in Idx(o) : y = o[i].end
  OBVIOUS
<1> HIDE DEF starts, ends, S, E, r
<1>6. Min(S) \in Int /\ Min(S) \in S /\ \A y \in S : Min(S) <= y
  BY <1>2, MinOf
<1>7. Max(E) \in Int /\ Max(E) \in E /\ \A y \in E : y <= Max(E)
  BY <1>2, MaxOf
<1> DEFINE a == Min(S)
           b == Max(E)
<1> HIDE DEF a, b
<1>8. a \in Int /\ b \in Int /\ (\A y \in S : a <= y) /\ \A y \in E : y <= b
  BY <1>6, <1>7 DEF a, b
<1>9. ASSUME NEW i \in Idx(o)
      PROVE  /\ a <= o[i].start /\ o[i].start <= b
             /\ a <= o[i].end /\ o[i].end <= b
  <2>1. o[i].start \in Nat /\ o[i].end \in Nat /\ o[i].start <= o[i].end
    BY DEF Timed, Times
  <2>2. a <= o[i].start /\ o[i].end <= b
    BY <1>4, <1>8
  <2> DEFINE x == o[i].start
             y == o[i].end
  <2> HIDE DEF x, y
  <2>3. a <= x /\ x <= b /\ a <= y /\ y <= b
    BY <1>8, <2>1, <2>2 DEF x, y
  <2> QED BY <2>3 DEF x, y
<1>10. \A x \in TimesOf(o) : a <= x /\ x <= b
  BY <1>9 DEF TimesOf
<1> QED BY <1>3, <1>5, <1>6, <1>7, <1>10 DEF a, b, r

(* A list taken from another lasts no longer.                              *)
LEMMA DurationWithin ==
    ASSUME NEW V, NEW W, NEW o, NEW s, Listed(V, o), Listed(W, s),
           \A v \in V : \E j \in Idx(s) : v = s[j]
    PROVE  Duration(o) \in Nat /\ Duration(s) \in Nat /\ Duration(o) <= Duration(s)
<1> DEFINE a == TimeRange(o).start
           b == TimeRange(o).end
           c == TimeRange(s).start
           d == TimeRange(s).end
<1>1. o \in Seq(V) /\ Timed(o) /\ s \in Seq(W) /\ Timed(s) /\ Idx(o) = 1 .. Len(o)
  BY ListedIs
<1>2. a \in Nat /\ b \in Nat /\ a <= b /\ c \in Nat /\ d \in Nat /\ c <= d
  BY <1>1, RangeOrdered
<1>3. Duration(o) = b - a /\ Duration(s) = d - c
  BY DEF Duration
<1>4. CASE o = <<>>
  <2>1. a = 0 /\ b = 0
    BY <1>4 DEF TimeRange, Interval
  <2> HIDE DEF a, b, c, d
  <2> QED BY <1>2, <1>3, <2>1
<1>5. CASE o # <<>>
  <2>1. PICK i \in Idx(o) : a = o[i].start
    BY <1>1, <1>5, RangeHolds
  <2>2. PICK k \in Idx(o) : b = o[k].end
    BY <1>1, <1>5, RangeHolds
  <2>3. o[i] \in V /\ o[k] \in V
    BY <1>1
  <2>4. PICK j \in Idx(s) : o[i] = s[j]
    BY <2>3
  <2>5. PICK l \in Idx(s) : o[k] = s[l]
    BY <2>3
  <2>6. s # <<>>
    BY <2>4 DEF Idx
  <2>7. s[j].start \in TimesOf(s) /\ s[l].end \in TimesOf(s)
    BY DEF TimesOf
  <2>8. c <= s[j].start /\ s[l].end <= d
    BY <1>1, <2>6, <2>7, RangeHolds
  <2>9. c <= a /\ b <= d
    BY <2>1, <2>2, <2>4, <2>5, <2>8
  <2> HIDE DEF a, b, c, d
  <2> QED BY <1>2, <1>3, <2>9
<1> QED BY <1>4, <1>5

(* analysisDur chooses a duration that gives few enough segments if there  *)
(* is one, the longest otherwise.                                          *)
LEMMA DurationChosen ==
    ASSUME NEW total \in Nat \ {0}
    PROVE  LET d == analysisDur(total)
               longest == StdDurations[Len(StdDurations)]
           IN  /\ d \in Nat \ {0} /\ longest \in Nat \ {0}
               /\ \/ total \div d <= WantAtMost
                  \/ d = longest /\ total \div longest > WantAtMost
<1> DEFINE fits == {i \in Idx(StdDurations) : total \div StdDurations[i] <= WantAtMost}
           d == analysisDur(total)
           n == Len(StdDurations)
           longest == StdDurations[n]
           m == Min(fits)
<1>1. /\ n \in Nat \ {0} /\ Idx(StdDurations) = 1 .. n
      /\ \A i \in 1 .. n : StdDurations[i] \in Nat \ {0}
  BY AnalysisAssumption DEF Idx
<1>2. WantAtMost \in Nat
  BY AnalysisAssumption
<1>3. d = IF fits = {} THEN longest ELSE StdDurations[m]
  BY DEF analysisDur
<1>4. n \in 1 .. n /\ longest \in Nat \ {0}
  BY <1>1
<1>5. fits \in SUBSET (1 .. n) /\ \A i \in fits : total \div StdDurations[i] <= WantAtMost
  BY <1>1
<1>6. fits = {} => ~(total \div longest <= WantAtMost)
  BY <1>1, <1>4
<1>7. total \div longest \in Int
  <2> HIDE DEF longest
  <2> QED BY <1>4
<1> HIDE DEF fits, d, longest
<1>8. CASE fits = {}
  BY <1>2, <1>3, <1>4, <1>6, <1>7, <1>8 DEF d, longest
<1>9. CASE fits # {}
  <2>1. fits \in SUBSET Int /\ 0 \in Int /\ \A x \in fits : 0 <= x
    BY <1>1, <1>5
  <2>2. m \in fits
    BY <1>9, <2>1, MinIs
  <2> HIDE DEF m
  <2>3. d = StdDurations[m] /\ d \in Nat \ {0} /\ total \div StdDurations[m] <= WantAtMost
    BY <1>1, <1>3, <1>5, <1>9, <2>2
  <2> QED BY <1>4, <2>3 DEF d, longest
<1> QED BY <1>8, <1>9

(* Whole numbers of d in a time.                                           *)
LEMMA DivisionBounds ==
    ASSUME NEW x \in Nat, NEW y \in Nat, NEW d \in Nat \ {0}, NEW n \in Nat, NEW w \in Nat
    PROVE  /\ n * d <= x /\ x \div d <= w => n <= w
           /\ x <= y /\ x \div d > w => y \div d > w
<1> DEFINE q == x \div d
           p == y \div d
<1>1. q \in Nat /\ d * q <= x /\ x < d * (q + 1)
  OBVIOUS
<1>2. p \in Nat /\ d * p <= y /\ y < d * (p + 1)
  OBVIOUS
<1> HIDE DEF p, q
<1>3. ASSUME NEW a \in Nat, NEW b \in Nat, d * a < d * (b + 1) PROVE a <= b
  <2> SUFFICES ASSUME b + 1 <= a PROVE FALSE
    OBVIOUS
  <2> DEFINE e == a - (b + 1)
  <2>1. e \in Nat /\ a = (b + 1) + e
    OBVIOUS
  <2> HIDE DEF e
  <2>2. (b + 1) * d <= ((b + 1) + e) * d
    BY <2>1, TicksMonotone
  <2> QED BY <1>3, <2>1, <2>2
<1>4. ASSUME n * d <= x, q <= w PROVE n <= w
  <2>1. d * n < d * (q + 1)
    BY <1>1, <1>4
  <2>2. n <= q
    BY <1>1, <1>3, <2>1
  <2> QED BY <1>1, <1>4, <2>2
<1>5. ASSUME x <= y, q > w PROVE p > w
  <2>1. d * q < d * (p + 1)
    BY <1>1, <1>2, <1>5
  <2>2. q <= p
    BY <1>1, <1>2, <1>3, <2>1
  <2> QED BY <1>1, <1>2, <1>5, <2>2
<1> QED BY <1>4, <1>5 DEF p, q

(* So no more segments are made than wanted, unless the longest duration   *)
(* is too short.                                                           *)
LEMMA SegmentsWanted ==
    ASSUME NEW V, NEW o, Listed(V, o), Starting(o), NEW allThreads \in BOOLEAN,
           NEW multi \in BOOLEAN, NEW dur \in Nat, Duration(o) <= dur
    PROVE  LET segs == Segment(o, 0, analysisDur(Duration(o)), allThreads, multi)
           IN  /\ Len(segs) \in Nat /\ segs \in Seq({segs[k] : k \in 1 .. Len(segs)})
               /\ \A k \in 1 .. Len(segs) : segs[k].bytes \in Int
               /\ \/ Len(segs) <= WantAtMost
                  \/ dur \div StdDurations[Len(StdDurations)] > WantAtMost
<1> DEFINE total == Duration(o)
           d == analysisDur(total)
           longest == StdDurations[Len(StdDurations)]
           segs == Segment(o, 0, d, allThreads, multi)
           q == ActiveTimeRange(SortByStartTime(o), allThreads)
           r == ActiveTimeRange(o, allThreads)
           t == TimeRange(o)
           first == Max({0, q.start})
           n == SegmentCount(q, first, d)
<1>1. /\ Len(o) \in Nat /\ Timed(o) /\ Sized(V, o) /\ o \in Seq(V)
  BY ListedIs
<1>2. WantAtMost \in Nat
  BY AnalysisAssumption
<1>3. t.start \in Nat /\ t.end \in Nat /\ t.start <= t.end
  BY <1>1, RangeOrdered
<1>4. total = t.end - t.start /\ total \in Nat
  <2>1. total = t.end - t.start
    BY DEF Duration
  <2> HIDE DEF t, total
  <2> QED BY <1>3, <2>1
<1>5. CASE total = 0
  <2>1. d = 0
    <3> HIDE DEF total
    <3> QED BY <1>5 DEF analysisDur
  <2>2. segs = <<>>
    <3> HIDE DEF d
    <3> QED BY <2>1 DEF Segment
  <2> HIDE DEF segs
  <2>3. Len(segs) = 0 /\ 1 .. Len(segs) = {}
    BY <2>2
  <2>4. segs \in Seq({segs[k] : k \in 1 .. Len(segs)})
    BY <2>2
  <2>5. Len(segs) \in Nat /\ Len(segs) <= WantAtMost
    BY <1>2, <2>3
  <2>6. \A k \in 1 .. Len(segs) : segs[k].bytes \in Int
    BY <2>3
  <2> QED BY <2>4, <2>5, <2>6 DEF segs
<1>6. CASE total # 0
  <2>1. /\ d \in Nat \ {0} /\ longest \in Nat \ {0}
        /\ \/ total \div d <= WantAtMost
           \/ d = longest /\ total \div longest > WantAtMost
    <3>1. total \in Nat \ {0}
      BY <1>4, <1>6
    <3> HIDE DEF total
    <3> QED BY <3>1, DurationChosen
  <2>2. q = r
    <3>1. SortByStartTime(o) = o
      BY StartingSorted
    <3> QED BY <3>1
  <2> HIDE DEF d
  <2>3. /\ first \in Nat /\ first >= q.start
        /\ n \in Nat /\ n * d \in Int /\ (n # 0 => n * d <= q.end - first - 1)
        /\ Len(segs) = n /\ segs \in Seq({segs[k] : k \in 1 .. n})
        /\ \A k \in 1 .. n : segs[k].bytes \in Int
    <3> DEFINE from == 0
               first2 == Max({from, q.start})
               n2 == SegmentCount(q, first2, d)
               segs2 == Segment(o, from, d, allThreads, multi)
    <3>1. from \in Nat
      OBVIOUS
    <3>2. first2 = first /\ n2 = n /\ segs2 = segs
      OBVIOUS
    <3> HIDE DEF from
    <3>3. first2 \in Nat /\ first2 >= q.start
      BY <1>1, <2>1, <3>1, SegmentsAre
    <3>4. n2 \in Nat /\ n2 * d \in Int
      BY <1>1, <2>1, <3>1, SegmentsAre
    <3>5. n2 # 0 => n2 * d <= q.end - first2 - 1
      BY <1>1, <2>1, <3>1, SegmentsAre
    <3>6. Holds(segs2, n2, o)
      BY <1>1, <2>1, <3>1, SegmentsAre
    <3> HIDE DEF first, n, segs, first2, n2, segs2, q
    <3> QED BY <3>2, <3>3, <3>4, <3>5, <3>6 DEF Holds
  <2>4. o # <<>>
    <3> SUFFICES ASSUME o = <<>> PROVE FALSE
      OBVIOUS
    <3>1. t.start = 0 /\ t.end = 0
      BY DEF TimeRange, Interval
    <3> QED BY <1>4, <1>6, <3>1
  <2>5. r.start \in Nat /\ r.end \in Nat /\ r.start \in TimesOf(o) /\ r.end \in TimesOf(o)
    BY <1>1, <2>4, ActiveRangeIs
  <2>6. t.start <= r.start /\ r.end <= t.end
    <3> HIDE DEF r
    <3> QED BY <1>1, <2>4, <2>5, RangeHolds
  <2> HIDE DEF q, r, t, total, first, n, segs, longest
  <2>7. n * d <= total
    <3> DEFINE x == n * d
    <3>1. x \in Int /\ (n # 0 => x <= q.end - first - 1) /\ (n = 0 => x = 0)
      BY <2>1, <2>3
    <3> HIDE DEF x
    <3>2. first \in Nat /\ first >= r.start /\ (n # 0 => x <= r.end - first - 1)
      BY <2>2, <2>3, <3>1
    <3>3. total \in Nat /\ total = t.end - t.start /\ t.start \in Int /\ t.end \in Int
      BY <1>3, <1>4
    <3>4. x <= total
      BY <2>5, <2>6, <3>1, <3>2, <3>3
    <3> QED BY <3>4 DEF x
  <2>8. CASE total \div d <= WantAtMost
    <3>1. n <= WantAtMost
      BY <1>2, <1>4, <2>1, <2>3, <2>7, <2>8, DivisionBounds
    <3> QED BY <2>3, <3>1 DEF segs, d, total
  <2>9. CASE d = longest /\ total \div longest > WantAtMost
    <3>1. total <= dur
      BY DEF total
    <3>2. dur \div longest > WantAtMost
      BY <1>2, <1>4, <2>1, <2>9, <3>1, DivisionBounds
    <3> QED BY <2>3, <3>2 DEF segs, d, total, longest
  <2> QED BY <2>1, <2>8, <2>9
<1> QED BY <1>5, <1>6
-----------------------------------------------------------------------------
(* The table of sizes grows.                                               *)
LEMMA TableGrows ==
    ASSUME NEW k \in 0 .. 8, NEW l \in 0 .. 8
    PROVE  /\ log10ToLog2Size[k] \in Nat
           /\ k <= l => log10ToLog2Size[k] <= log10ToLog2Size[l]
<1>0. log10ToLog2Size[0] = 1
  <2>1. log10ToLog2Size[0] = 10 ^ (0 % 3) * 2 ^ (10 * (0 \div 3))
    BY DEF log10ToLog2Size
  <2>2. 0 % 3 = 0 /\ 0 \div 3 = 0 /\ 10 * 0 = 0
    OBVIOUS
  <2>3. 10 ^ 0 = 1 /\ 2 ^ 0 = 1 /\ 1 * 1 = 1
    OBVIOUS
  <2> QED BY <2>1, <2>2, <2>3
<1>1. log10ToLog2Size[1] = 10
  <2>1. log10ToLog2Size[1] = 10 ^ (1 % 3) * 2 ^ (10 * (1 \div 3))
    BY DEF log10ToLog2Size
  <2>2. 1 % 3 = 1 /\ 1 \div 3 = 0 /\ 10 * 0 = 0
    OBVIOUS
  <2>3. 10 ^ 1 = 10 /\ 2 ^ 0 = 1 /\ 10 * 1 = 10
    OBVIOUS
  <2> QED BY <2>1, <2>2, <2>3
<1>2. log10ToLog2Size[2] = 100
  <2>1. log10ToLog2Size[2] = 10 ^ (2 % 3) * 2 ^ (10 * (2 \div 3))
    BY DEF log10ToLog2Size
  <2>2. 2 % 3 = 2 /\ 2 \div 3 = 0 /\ 10 * 0 = 0
    OBVIOUS
  <2>3. 10 ^ 2 = 100 /\ 2 ^ 0 = 1 /\ 100 * 1 = 100
    OBVIOUS
  <2> QED BY <2>1, <2>2, <2>3
<1>3. log10ToLog2Size[3] = 1024
  <2>1. log10ToLog2Size[3] = 10 ^ (3 % 3) * 2 ^ (10 * (3 \div 3))
    BY DEF log10ToLog2Size
  <2>2. 3 % 3 = 0 /\ 3 \div 3 = 1 /\ 10 * 1 = 10
    OBVIOUS
  <2>3. 10 ^ 0 = 1 /\ 2 ^ 10 = 1024 /\ 1 * 1024 = 1024
    OBVIOUS
  <2> QED BY <2>1, <2>2, <2>3
<1>4. log10ToLog2Size[4] = 10240
  <2>1. log10ToLog2Size[4] = 10 ^ (4 % 3) * 2 ^ (10 * (4 \div 3))
    BY DEF log10ToLog2Size
  <2>2. 4 % 3 = 1 /\ 4 \div 3 = 1 /\ 10 * 1 = 10
    OBVIOUS
  <2>3. 10 ^ 1 = 10 /\ 2 ^ 10 = 1024 /\ 10 * 1024 = 10240
    OBVIOUS
  <2> QED BY <2>1, <2>2, <2>3
<1>5. log10ToLog2Size[5] = 102400
  <2>1. log10ToLog2Size[5] = 10 ^ (5 % 3) * 2 ^ (10 * (5 \div 3))
    BY DEF log10ToLog2Size
  <2>2. 5 % 3 = 2 /\ 5 \div 3 = 1 /\ 10 * 1 = 10
    OBVIOUS
  <2>3. 10 ^ 2 = 100 /\ 2 ^ 10 = 1024 /\ 100 * 1024 = 102400
    OBVIOUS
  <2> QED BY <2>1, <2>2, <2>3
<1>6. log10ToLog2Size[6] = 1048576
  <2>1. log10ToLog2Size[6] = 10 ^ (6 % 3) * 2 ^ (10 * (6 \div 3))
    BY DEF log10ToLog2Size
  <2>2. 6 % 3 = 0 /\ 6 \div 3 = 2 /\ 10 * 2 = 20
    OBVIOUS
  <2>3. 10 ^ 0 = 1 /\ 2 ^ 20 = 1048576 /\ 1 * 1048576 = 1048576
    OBVIOUS
  <2> QED BY <2>1, <2>2, <2>3
<1>7. log10ToLog2Size[7] = 10485760
  <2>1. log10ToLog2Size[7] = 10 ^ (7 % 3) * 2 ^ (10 * (7 \div 3))
    BY DEF log10ToLog2Size
  <2>2. 7 % 3 = 1 /\ 7 \div 3 = 2 /\ 10 * 2 = 20
    OBVIOUS
  <2>3. 10 ^ 1 = 10 /\ 2 ^ 20 = 1048576 /\ 10 * 1048576 = 10485760
    OBVIOUS
  <2> QED BY <2>1, <2>2, <2>3
<1>8. log10ToLog2Size[8] = 104857600
  <2>1. log10ToLog2Size[8] = 10 ^ (8 % 3) * 2 ^ (10 * (8 \div 3))
    BY DEF log10ToLog2Size
  <2>2. 8 % 3 = 2 /\ 8 \div 3 = 2 /\ 10 * 2 = 20
    OBVIOUS
  <2>3. 10 ^ 2 = 100 /\ 2 ^ 20 = 1048576 /\ 100 * 1048576 = 104857600
    OBVIOUS
  <2> QED BY <2>1, <2>2, <2>3
<1>9. \A i \in 0 .. 8 : \/ i = 0 \/ i = 1 \/ i = 2 \/ i = 3 \/ i = 4 \/ i = 5
                         \/ i = 6 \/ i = 7 \/ i = 8
  OBVIOUS
<1> DEFINE tab == log10ToLog2Size
<1> HIDE DEF tab
<1>10. /\ tab[0] = 1 /\ tab[1] = 10 /\ tab[2] = 100 /\ tab[3] = 1024 /\ tab[4] = 10240
       /\ tab[5] = 102400 /\ tab[6] = 1048576 /\ tab[7] = 10485760 /\ tab[8] = 104857600
  BY <1>0, <1>1, <1>2, <1>3, <1>4, <1>5, <1>6, <1>7, <1>8 DEF tab
<1>11. tab[k] \in Nat
  BY <1>9, <1>10
<1>12. k <= l => tab[k] <= tab[l]
  BY <1>9, <1>10
<1> QED BY <1>11, <1>12 DEF tab

(* A decimal magnitude.                                                    *)
LEMMA MagnitudeIs ==
    ASSUME NEW n \in Nat \ {0}, NEW m \in Nat, n <= m
    PROVE  Log10(n) \in 0 .. 8 /\ Log10(m) \in 0 .. 8 /\ Log10(n) <= Log10(m)
<1> DEFINE A == {k \in 0 .. 8 : 10 ^ k <= n}
           B == {k \in 0 .. 8 : 10 ^ k <= m}
<1>1. 10 ^ 0 = 1 /\ 10 ^ 0 <= n /\ 10 ^ 0 <= m
  <2>1. 10 ^ 0 = 1
    OBVIOUS
  <2> QED BY <2>1
<1>2. \A k \in 0 .. 8 : 10 ^ k \in Nat
  <2> SUFFICES ASSUME NEW k \in 0 .. 8 PROVE 10 ^ k \in Nat
    OBVIOUS
  <2>1. \/ k = 0 \/ k = 1 \/ k = 2 \/ k = 3 \/ k = 4 \/ k = 5 \/ k = 6 \/ k = 7 \/ k = 8
    OBVIOUS
  <2>2. 10 ^ 0 \in Nat /\ 10 ^ 1 \in Nat /\ 10 ^ 2 \in Nat /\ 10 ^ 3 \in Nat /\ 10 ^ 4 \in Nat
    OBVIOUS
  <2>3. 10 ^ 5 \in Nat /\ 10 ^ 6 \in Nat /\ 10 ^ 7 \in Nat /\ 10 ^ 8 \in Nat
    OBVIOUS
  <2> QED BY <2>1, <2>2, <2>3
<1>3. 0 \in A /\ 0 \in B
  BY <1>1
<1>4. A \subseteq B
  <2> SUFFICES ASSUME NEW k \in 0 .. 8, 10 ^ k <= n PROVE 10 ^ k <= m
    OBVIOUS
  <2> DEFINE x == 10 ^ k
  <2>1. x \in Nat /\ x <= n
    BY <1>2
  <2> HIDE DEF x
  <2>2. x <= m
    BY <2>1
  <2> QED BY <2>2 DEF x
<1>5. Log10(n) = Max(A) /\ Log10(m) = Max(B)
  BY DEF Log10
<1>6. A \in SUBSET (0 .. 8) /\ B \in SUBSET (0 .. 8)
  OBVIOUS
<1> HIDE DEF A, B
<1>7. 8 \in Int /\ A \in SUBSET Int /\ B \in SUBSET Int
      /\ (\A x \in A : x <= 8) /\ \A x \in B : x <= 8
  BY <1>6
<1>8. Max(A) \in A
  BY <1>3, <1>7, MaxIs
<1>9. Max(B) \in B /\ \A x \in B : x <= Max(B)
  BY <1>3, <1>7, MaxIs
<1> QED BY <1>4, <1>5, <1>6, <1>8, <1>9

(* Positions in order are a list.                                          *)
LEMMA OrderIs ==
    ASSUME NEW n \in Nat, NEW S \in SUBSET (1 .. n), NEW key
    PROVE  /\ Len(Order(S, key)) = Cardinality(S) /\ Cardinality(S) \in Nat
           /\ <<>> \o Order(S, key) = Order(S, key)
           /\ Cardinality(S) = 0 => Order(S, key) = <<>>
<1> DEFINE c == Cardinality(S)
           before(i) == {j \in S : key[j] < key[i] \/ (key[j] = key[i] /\ j < i)}
           place == [i \in S |-> Cardinality(before(i)) + 1]
           f(k) == CHOOSE i \in S : place[i] = k
           e == [k \in 1 .. c |-> f(k)]
           W == {e[k] : k \in 1 .. c}
<1>1. c \in Nat
  BY PositionsFinite
<1>2. Order(S, key) = e
  BY DEF Order
<1>3. e = [k \in 1 .. c |-> e[k]]
  <2> HIDE DEF f, c
  <2> QED OBVIOUS
<1> HIDE DEF c, e
<1>4. \A k \in 1 .. c : e[k] \in W
  OBVIOUS
<1> HIDE DEF W
<1>5. e \in Seq(W) /\ Len(e) = c
  BY <1>1, <1>3, <1>4
<1>6. <<>> \o e = e
  BY <1>5
<1>7. c = 0 => e = <<>>
  BY <1>5
<1> QED BY <1>1, <1>2, <1>5, <1>6, <1>7 DEF c

(* The positions of the sizes from a up to b, powers of the table.         *)
SizedFrom(sizes, a, b) ==
    {i \in Idx(sizes) : /\ sizes[i] >= log10ToLog2Size[a]
                        /\ sizes[i] < log10ToLog2Size[b]}

(* One step of the loop over the magnitudes ...                            *)
Grown(sizes, low, wantN, k, F) ==
    IF k = low THEN [res |-> {}, from |-> low, at |-> <<>>]
    ELSE LET p == F[k - 1]
             held == p.at \o Order(SizedFrom(sizes, p.from, k), [i \in Idx(sizes) |-> i])
         IN  IF Len(held) >= wantN
             THEN [res |-> p.res \cup {[lo |-> p.from, hi |-> k, at |-> held]},
                   from |-> k, at |-> <<>>]
             ELSE [p EXCEPT !.at = held]

(* ... and what it has built after each magnitude.                         *)
GrownTo(F, sizes, low, n, wantN) ==
    F = [k \in low .. low + n |-> Grown(sizes, low, wantN, k, F)]

LEMMA RangesExist ==
    ASSUME NEW sizes, NEW low \in Nat, NEW wantN, NEW n \in Nat
    PROVE  \E F : GrownTo(F, sizes, low, n, wantN)
<1> DEFINE Ok(j) == \E F : F = [k \in low .. low + j |-> Grown(sizes, low, wantN, k, F)]
           S == {j \in 0 .. n : Ok(j)}
<1>1. 0 \in S
  <2> DEFINE F == [k \in low .. low + 0 |-> [res |-> {}, from |-> low, at |-> <<>>]]
  <2>1. \A k \in low .. low + 0 : k = low
    OBVIOUS
  <2>2. \A k \in low .. low + 0 :
           Grown(sizes, low, wantN, k, F) = [res |-> {}, from |-> low, at |-> <<>>]
    <3> HIDE DEF F
    <3> QED BY <2>1 DEF Grown
  <2>3. F = [k \in low .. low + 0 |-> Grown(sizes, low, wantN, k, F)]
    <3> DEFINE g(k) == Grown(sizes, low, wantN, k, F)
    <3>1. \A k \in low .. low + 0 : g(k) = [res |-> {}, from |-> low, at |-> <<>>]
      BY <2>2
    <3> HIDE DEF g
    <3>2. F = [k \in low .. low + 0 |-> g(k)]
      BY <3>1
    <3> QED BY <3>2 DEF g
  <2> HIDE DEF F
  <2>4. Ok(0)
    BY <2>3
  <2> QED BY <2>4
<1>2. ASSUME NEW j \in 0 .. n - 1, Ok(j) PROVE Ok(j + 1)
  <2>1. PICK F : F = [k \in low .. low + j |-> Grown(sizes, low, wantN, k, F)]
    BY <1>2
  <2> DEFINE m == low + j
             G == [k \in low .. low + (j + 1) |->
                     IF k <= m THEN F[k] ELSE Grown(sizes, low, wantN, m + 1, F)]
  <2>2. ASSUME NEW k \in low .. low + (j + 1) PROVE G[k] = Grown(sizes, low, wantN, k, G)
    <3>1. /\ k - 1 \in Int
          /\ k # low => k - 1 \in low .. m /\ k - 1 \in low .. low + (j + 1) /\ k - 1 <= m
      OBVIOUS
    <3>2. k # low => G[k - 1] = F[k - 1]
      BY <3>1
    <3>3. Grown(sizes, low, wantN, k, G) = Grown(sizes, low, wantN, k, F)
      <4> HIDE DEF G
      <4> QED BY <3>2 DEF Grown
    <3>4. CASE k <= m
      <4>1. k \in low .. m /\ G[k] = F[k]
        BY <3>4
      <4>2. F[k] = Grown(sizes, low, wantN, k, F)
        BY <2>1, <4>1
      <4> QED BY <3>3, <4>1, <4>2
    <3>5. CASE ~(k <= m)
      <4>1. k = m + 1
        BY <3>5
      <4> QED BY <3>3, <3>5, <4>1
    <3> QED BY <3>4, <3>5
  <2>3. G = [k \in low .. low + (j + 1) |-> Grown(sizes, low, wantN, k, G)]
    BY <2>2
  <2> QED BY <2>3
<1>3. \A j \in 0 .. n - 1 : j \in S => j + 1 \in S
  <2> HIDE DEF Ok
  <2> QED BY <1>2
<1>4. \A j \in 0 .. n : j \in S
  <2> HIDE DEF S
  <2> QED BY <1>1, <1>3, Induction
<1> QED
  BY <1>4 DEF GrownTo

(* The loop with a share below two requests: every magnitude that has one  *)
(* ends a range, so no request is taken again.                             *)
Separate(sizes, low, k, x) ==
    /\ x = [res |-> x.res, from |-> x.from, at |-> <<>>] /\ x.from \in low .. k
    /\ \A z \in x.res :
          /\ z.lo \in low .. k /\ z.hi \in low .. k /\ z.lo < z.hi /\ z.hi <= x.from
          /\ Len(z.at) = Cardinality(SizedFrom(sizes, z.lo, z.hi))
    /\ \A y, z \in x.res : y # z => y.hi <= z.lo \/ z.hi <= y.lo

LEMMA RangesSeparate ==
    ASSUME NEW sizes, NEW m \in Nat, Idx(sizes) = 1 .. m, NEW low \in Nat, NEW n \in Nat,
           NEW wantN \in Nat, wantN <= 1, NEW F,
           F = [k \in low .. low + n |-> Grown(sizes, low, wantN, k, F)]
    PROVE  Separate(sizes, low, low + n, F[low + n])
<1> DEFINE id == [i \in Idx(sizes) |-> i]
           S == {j \in 0 .. n : Separate(sizes, low, low + j, F[low + j])}
<1>1. 0 \in S
  <2>1. F[low] = [res |-> {}, from |-> low, at |-> <<>>]
    BY DEF Grown
  <2>2. low + 0 = low
    OBVIOUS
  <2> QED BY <2>1, <2>2 DEF Separate
<1>2. ASSUME NEW j \in 0 .. n - 1, Separate(sizes, low, low + j, F[low + j])
      PROVE  Separate(sizes, low, low + (j + 1), F[low + (j + 1)])
  <2> DEFINE k == low + (j + 1)
             p == F[low + j]
             B == SizedFrom(sizes, p.from, k)
             held == Order(B, id)
             new == [lo |-> p.from, hi |-> k, at |-> held]
  <2>1. k \in low .. low + n /\ k # low /\ k - 1 = low + j /\ k \in Nat
    OBVIOUS
  <2>2. p.at = <<>> /\ p.from \in low .. low + j /\ p.from < k
    <3>1. p = [res |-> p.res, from |-> p.from, at |-> <<>>] /\ p.from \in low .. low + j
      BY <1>2 DEF Separate
    <3> HIDE DEF p
    <3>2. p.at = <<>>
      BY <3>1
    <3> QED BY <3>1, <3>2
  <2>3. B \in SUBSET (1 .. m)
    BY DEF SizedFrom
  <2> HIDE DEF k, p, B
  <2>4. /\ <<>> \o held = held /\ Len(held) = Cardinality(B) /\ Cardinality(B) \in Nat
        /\ Cardinality(B) = 0 => held = <<>>
    <3> HIDE DEF id
    <3> QED BY <2>3, OrderIs
  <2>5. F[k] = Grown(sizes, low, wantN, k, F)
    BY <2>1
  <2>6. F[k] = IF Len(held) >= wantN
               THEN [res |-> p.res \cup {new}, from |-> k, at |-> <<>>]
               ELSE [p EXCEPT !.at = held]
    <3>1. F[k - 1] = p
      BY <2>1 DEF p
    <3>2. p.at \o Order(SizedFrom(sizes, p.from, k), [i \in Idx(sizes) |-> i]) = held
      BY <2>2, <2>4 DEF B
    <3> HIDE DEF held
    <3> QED BY <2>1, <2>5, <3>1, <3>2 DEF Grown
  <2> HIDE DEF held
  <2>7. /\ p.from \in low .. k - 1
        /\ \A z \in p.res :
             /\ z.lo \in low .. k - 1 /\ z.hi \in low .. k - 1 /\ z.lo < z.hi /\ z.hi <= p.from
             /\ Len(z.at) = Cardinality(SizedFrom(sizes, z.lo, z.hi))
        /\ \A y, z \in p.res : y # z => y.hi <= z.lo \/ z.hi <= y.lo
    BY <1>2, <2>1 DEF Separate, p
  <2>8. \A z \in p.res : z.lo \in low .. k /\ z.hi \in low .. k /\ z.hi <= k
    BY <2>1, <2>7
  <2>9. CASE Len(held) >= wantN
    <3> DEFINE x == [res |-> p.res \cup {new}, from |-> k, at |-> <<>>]
    <3>1. F[k] = x
      BY <2>6, <2>9
    <3>2. /\ new.lo \in low .. k /\ new.hi \in low .. k /\ new.lo < new.hi /\ new.hi <= k
          /\ Len(new.at) = Cardinality(SizedFrom(sizes, new.lo, new.hi))
      BY <2>1, <2>2, <2>4, <2>7 DEF B
    <3>3. new.lo = p.from
      OBVIOUS
    <3>4. /\ x.res = p.res \cup {new} /\ x.from = k /\ k \in low .. k
          /\ x = [res |-> x.res, from |-> x.from, at |-> <<>>]
      BY <2>1
    <3> HIDE DEF x, new
    <3>5. \A z \in x.res :
             /\ z.lo \in low .. k /\ z.hi \in low .. k /\ z.lo < z.hi /\ z.hi <= x.from
             /\ Len(z.at) = Cardinality(SizedFrom(sizes, z.lo, z.hi))
      BY <2>7, <2>8, <3>2, <3>4
    <3>6. \A y, z \in x.res : y # z => y.hi <= z.lo \/ z.hi <= y.lo
      BY <2>7, <3>3, <3>4
    <3>7. Separate(sizes, low, k, x)
      BY <3>4, <3>5, <3>6 DEF Separate
    <3> QED BY <3>1, <3>7 DEF k
  <2>10. CASE ~(Len(held) >= wantN)
    <3> DEFINE x == [p EXCEPT !.at = held]
    <3>1. F[k] = x
      BY <2>6, <2>10
    <3>2. held = <<>>
      BY <2>4, <2>10
    <3>3. p = [res |-> p.res, from |-> p.from, at |-> <<>>]
      BY <1>2 DEF Separate, p
    <3>4. x = [res |-> p.res, from |-> p.from, at |-> <<>>]
      BY <3>2, <3>3
    <3> HIDE DEF x
    <3>5. x.res = p.res /\ x.from = p.from
      BY <3>4
    <3>6. x = [res |-> x.res, from |-> x.from, at |-> <<>>] /\ x.from \in low .. k
      BY <2>2, <2>7, <2>1, <3>4, <3>5
    <3>7. Separate(sizes, low, k, x)
      BY <2>7, <2>8, <3>5, <3>6 DEF Separate
    <3> QED BY <3>1, <3>7 DEF k
  <2> QED BY <2>9, <2>10
<1>3. \A j \in 0 .. n - 1 : j \in S => j + 1 \in S
  BY <1>2
<1>4. \A j \in 0 .. n : j \in S
  <2> HIDE DEF S
  <2> QED BY <1>1, <1>3, Induction
<1> QED BY <1>4

(* Sorting by throughput keeps the number.                                 *)
LEMMA FastestSorted ==
    ASSUME NEW V, NEW o \in Seq(V)
    PROVE  Len(SortByThroughput(o)) = Len(o)
<1> DEFINE key == [i \in Idx(o) |-> Cardinality({j \in Idx(o) : Faster(o[j], o[i])})]
<1>1. Len(o) \in Nat /\ Idx(o) = 1 .. Len(o)
  BY DEF Idx
<1>2. \A i \in Idx(o) : key[i] \in Int
  <2> SUFFICES ASSUME NEW i \in Idx(o) PROVE key[i] \in Int
    OBVIOUS
  <2> DEFINE J == {j \in Idx(o) : Faster(o[j], o[i])}
  <2>1. J \in SUBSET (1 .. Len(o))
    BY <1>1
  <2>2. key[i] = Cardinality(J)
    OBVIOUS
  <2> HIDE DEF J, key
  <2>3. Cardinality(J) \in Nat
    BY <1>1, <2>1, PositionsFinite
  <2> QED BY <2>2, <2>3
<1>3. SortByThroughput(o) = Arranged(o, Idx(o), key)
  BY DEF SortByThroughput
<1> HIDE DEF key
<1> QED BY <1>2, <1>3, SortedIs

(* Operations with sizes.                                                  *)
Weighed(o) == Len(o) \in Nat /\ \A i \in Idx(o) : o[i].size \in Nat

(* Two ranges that do not meet share no request.                           *)
LEMMA ApartShareNone ==
    ASSUME NEW sizes, \A i \in Idx(sizes) : sizes[i] \in Nat,
           NEW a \in Nat, NEW b \in 0 .. 8, NEW c \in 0 .. 8, NEW d \in Nat, b <= c
    PROVE  SizedFrom(sizes, a, b) \cap SizedFrom(sizes, c, d) = {}
<1>1. /\ log10ToLog2Size[b] \in Nat /\ log10ToLog2Size[c] \in Nat
      /\ log10ToLog2Size[b] <= log10ToLog2Size[c]
  BY TableGrows
<1> DEFINE tab == log10ToLog2Size
<1>2. \A i \in Idx(sizes) : ~(sizes[i] < tab[b] /\ sizes[i] >= tab[c])
  <2> HIDE DEF tab
  <2> SUFFICES ASSUME NEW i \in Idx(sizes), sizes[i] < tab[b], sizes[i] >= tab[c] PROVE FALSE
    OBVIOUS
  <2>1. tab[b] \in Nat /\ tab[c] \in Nat /\ tab[b] <= tab[c] /\ sizes[i] \in Nat
    BY <1>1 DEF tab
  <2> QED BY <2>1
<1> HIDE DEF tab
<1>3. SizedFrom(sizes, a, b) = {i \in Idx(sizes) : sizes[i] >= tab[a] /\ sizes[i] < tab[b]}
  BY DEF SizedFrom, tab
<1>4. SizedFrom(sizes, c, d) = {i \in Idx(sizes) : sizes[i] >= tab[c] /\ sizes[i] < tab[d]}
  BY DEF SizedFrom, tab
<1> QED BY <1>2, <1>3, <1>4

(* With a share below two requests each range has its own.                 *)
Ranged(sizes, res) ==
    /\ \A z \in res : Len(z.at) = Cardinality(SizedFrom(sizes, z.lo, z.hi))
    /\ \A y, z \in res : y # z =>
         SizedFrom(sizes, y.lo, y.hi) \cap SizedFrom(sizes, z.lo, z.hi) = {}

LEMMA RangesOwn ==
    ASSUME NEW sizes, NEW m \in Nat, Idx(sizes) = 1 .. m, \A i \in Idx(sizes) : sizes[i] \in Nat,
           NEW low \in 0 .. 8, NEW high \in 0 .. 8, low <= high, NEW wantN \in Nat, wantN <= 1
    PROVE  Ranged(sizes, SizeRanges(sizes, low, high, wantN))
<1> DEFINE n == high + 1 - low
           G == CHOOSE F : F = [k \in low .. high + 1 |-> Grown(sizes, low, wantN, k, F)]
           x == G[high + 1]
<1>1. n \in Nat /\ low \in Nat /\ low + n = high + 1
  OBVIOUS
<1>2. \E F : GrownTo(F, sizes, low, n, wantN)
  <2> HIDE DEF n
  <2> QED BY <1>1, RangesExist
<1>3. G = [k \in low .. high + 1 |-> Grown(sizes, low, wantN, k, G)]
  <2> HIDE DEF n
  <2> QED BY <1>1, <1>2 DEF GrownTo
<1>4. SizeRanges(sizes, low, high, wantN) = x.res
  BY DEF SizeRanges, Grown, SizedFrom
<1> HIDE DEF n, G
<1>5. G = [k \in low .. low + n |-> Grown(sizes, low, wantN, k, G)]
  BY <1>1, <1>3
<1>6. Separate(sizes, low, low + n, G[low + n])
  BY <1>1, <1>5, RangesSeparate
<1>7. Separate(sizes, low, high + 1, x)
  BY <1>1, <1>6
<1> HIDE DEF x
<1>8. ASSUME NEW y \in x.res, NEW z \in x.res, y # z
      PROVE  SizedFrom(sizes, y.lo, y.hi) \cap SizedFrom(sizes, z.lo, z.hi) = {}
  <2>1. /\ y.lo \in low .. high + 1 /\ y.hi \in low .. high + 1 /\ y.lo < y.hi
        /\ z.lo \in low .. high + 1 /\ z.hi \in low .. high + 1 /\ z.lo < z.hi
        /\ y.hi <= z.lo \/ z.hi <= y.lo
    BY <1>7, <1>8 DEF Separate
  <2> DEFINE a == y.lo
             b == y.hi
             c == z.lo
             d == z.hi
  <2>2. /\ a \in low .. high + 1 /\ b \in low .. high + 1 /\ a < b
        /\ c \in low .. high + 1 /\ d \in low .. high + 1 /\ c < d
        /\ b <= c \/ d <= a
    BY <2>1
  <2> HIDE DEF a, b, c, d
  <2>3. CASE b <= c
    <3>1. a \in Nat /\ b \in 0 .. 8 /\ c \in 0 .. 8 /\ d \in Nat
      BY <2>2, <2>3
    <3>2. SizedFrom(sizes, a, b) \cap SizedFrom(sizes, c, d) = {}
      BY <2>3, <3>1, ApartShareNone
    <3> QED BY <3>2 DEF a, b, c, d
  <2>4. CASE d <= a
    <3>1. c \in Nat /\ d \in 0 .. 8 /\ a \in 0 .. 8 /\ b \in Nat
      BY <2>2, <2>4
    <3>2. SizedFrom(sizes, c, d) \cap SizedFrom(sizes, a, b) = {}
      BY <2>4, <3>1, ApartShareNone
    <3> QED BY <3>2 DEF a, b, c, d
  <2> QED BY <2>2, <2>3, <2>4
<1>9. \A z \in x.res : Len(z.at) = Cardinality(SizedFrom(sizes, z.lo, z.hi))
  BY <1>7 DEF Separate
<1> QED BY <1>4, <1>8, <1>9 DEF Ranged

(* The magnitudes of the smallest and the largest size.                    *)
LEMMA MagnitudesOf ==
    ASSUME NEW o, Weighed(o), Idx(o) # {}
    PROVE  LET mm == MinMaxSize(o)
           IN  /\ Log10(Max({mm.start, 1})) \in 0 .. 8 /\ Log10(Max({mm.end, 1})) \in 0 .. 8
               /\ Log10(Max({mm.start, 1})) <= Log10(Max({mm.end, 1}))
<1> DEFINE A == {o[i].size : i \in Idx(o)}
           low == Min(A)
           high == Max(A)
<1>1. A \in SUBSET Int /\ A # {} /\ (\A a \in A : 0 <= a) /\ A \in SUBSET Nat
  BY DEF Weighed
<1>2. \E u \in Int : \A a \in A : a <= u
  <2> DEFINE n == Len(o)
             f == [i \in 1 .. n |-> o[i].size]
  <2>1. n \in Nat /\ Idx(o) = 1 .. n /\ \A i \in 1 .. n : o[i].size \in Nat
    BY DEF Weighed, Idx
  <2>2. PICK x \in A : x \in Int
    BY <1>1
  <2>3. \A i \in 1 .. n : f[i] \in Int
    BY <2>1
  <2>4. \A y \in A : \E i \in 1 .. n : y = f[i]
    BY <2>1
  <2> HIDE DEF A, f, n
  <2>5. Among(A, n, f, x)
    BY <1>1, <2>1, <2>2, <2>3, <2>4 DEF Among
  <2> QED BY <2>5, AmongBounded
<1>3. low \in A /\ high \in A /\ low <= high
  <2>1. PICK u \in Int : \A a \in A : a <= u
    BY <1>2
  <2> HIDE DEF A
  <2>2. low \in A /\ \A a \in A : low <= a
    BY <1>1, MinIs
  <2>3. high \in A
    BY <1>1, <2>1, MaxIs
  <2> QED BY <2>2, <2>3
<1>4. MinMaxSize(o).start = low /\ MinMaxSize(o).end = high
  BY DEF MinMaxSize, Interval
<1> HIDE DEF low, high, A
<1>5. low \in Nat /\ high \in Nat
  BY <1>1, <1>3
<1> DEFINE a == Max({low, 1})
           b == Max({high, 1})
<1>6. a \in Nat \ {0} /\ b \in Nat /\ a <= b
  <2>1. a = (IF low >= 1 THEN low ELSE 1) /\ b = (IF high >= 1 THEN high ELSE 1)
    BY <1>5, MaxTwo
  <2> HIDE DEF a, b
  <2> QED BY <1>3, <1>5, <2>1
<1> HIDE DEF a, b
<1>7. Log10(a) \in 0 .. 8 /\ Log10(b) \in 0 .. 8 /\ Log10(a) <= Log10(b)
  BY <1>6, MagnitudeIs
<1> QED BY <1>4, <1>7 DEF a, b

(* What FillMulti makes of a range of sizes.                               *)
Filled(o, seg) ==
    [range |-> FillRange(seg), first |-> FillFirst(seg),
     ttfb |-> TTFB(seg.ops, TimeRange(o).start, TimeRange(o).end)]

LEMMA FilledIs ==
    ASSUME NEW o, NEW seg
    PROVE  LET e == Filled(o, seg)
           IN  /\ e.range.lo = seg.lo /\ e.range.hi = seg.hi
               /\ e.range.requests = Len(SortByThroughput(seg.ops))
<1> DEFINE e == Filled(o, seg)
           r == FillRange(seg)
<1>1. e.range = r
  <2> HIDE DEF r
  <2> QED BY DEF Filled, r
<1>2. /\ r.lo = seg.lo /\ r.hi = seg.hi /\ r.requests = Len(SortByThroughput(seg.ops))
  BY DEF FillRange
<1> HIDE DEF r, e
<1> QED BY <1>1, <1>2 DEF e

(* The operations of a range, taken out by their positions.                *)
LEMMA TakenCount ==
    ASSUME NEW o, NEW at, Len(at) \in Nat
    PROVE  Len(SortByThroughput([k \in Idx(at) |-> o[at[k]]])) = Len(at)
<1> DEFINE s == [k \in Idx(at) |-> o[at[k]]]
           W == {s[k] : k \in 1 .. Len(at)}
<1>1. s = [k \in 1 .. Len(at) |-> s[k]]
  BY DEF Idx
<1> HIDE DEF s
<1>2. \A k \in 1 .. Len(at) : s[k] \in W
  OBVIOUS
<1> HIDE DEF W
<1>3. s \in Seq(W) /\ Len(s) = Len(at)
  BY <1>1, <1>2
<1>4. Len(SortByThroughput(s)) = Len(at)
  BY <1>3, FastestSorted
<1> QED BY <1>4 DEF s

(* Each entry of FillMulti counts requests of its own.                     *)
LEMMA SizesBounded ==
    ASSUME NEW V, NEW o \in Seq(V), Weighed(o), Idx(o) # {}, Len(o) * MinShare < 200
    PROVE  /\ SumOver(FillMulti(o), [z \in FillMulti(o) |-> z.range.requests]) <= Len(o)
<1> DEFINE n == Len(o)
           sizes == [i \in Idx(o) |-> o[i].size]
           mm == MinMaxSize(o)
           low == Log10(Max({mm.start, 1}))
           high == Log10(Max({mm.end, 1}))
           wantN == (n * MinShare) \div 100
           R == SizeRanges(sizes, low, high, wantN)
           M == FillMulti(o)
           f == [z \in M |-> z.range.requests]
           single == ~MultipleSizes(o)
           part == [z \in M |-> IF single THEN 1 .. n
                                ELSE SizedFrom(sizes, z.range.lo, z.range.hi)]
           taken(z) == [k \in Idx(z.at) |-> o[z.at[k]]]
           seg(z) == [lo |-> z.lo, hi |-> z.hi, ops |-> taken(z)]
<1>1. n \in Nat /\ Idx(o) = 1 .. n /\ n # 0
  BY DEF Weighed, Idx
<1>2. Idx(sizes) = 1 .. n /\ \A i \in Idx(sizes) : sizes[i] \in Nat
  <2>1. \A i \in 1 .. n : o[i].size \in Nat
    BY <1>1 DEF Weighed
  <2>2. sizes = [i \in 1 .. n |-> o[i].size]
    BY <1>1
  <2> HIDE DEF n
  <2>3. Len(sizes) = n
    BY <1>1, <2>2
  <2> QED BY <2>1, <2>2, <2>3 DEF Idx
<1>3. low \in 0 .. 8 /\ high \in 0 .. 8 /\ low <= high
  BY MagnitudesOf
<1>4. wantN \in Nat /\ wantN <= 1
  <2>1. MinShare \in Nat /\ n * MinShare \in Nat /\ n * MinShare < 200
    BY <1>1, AnalysisAssumption DEF AnalysisAssumption
  <2> DEFINE x == n * MinShare
  <2> HIDE DEF x, n
  <2>2. x \div 100 \in Nat /\ x \div 100 <= 1
    BY <2>1 DEF x
  <2> QED BY <2>2 DEF x
<1>5. SplitSizes(o, MinShare) =
        IF single THEN {SingleSizeSegment(o)} ELSE {seg(z) : z \in R}
  BY DEF SplitSizes
<1>6. M = {Filled(o, s) : s \in SplitSizes(o, MinShare)}
  BY DEF FillMulti, Filled
<1> HIDE DEF sizes, mm, low, high, wantN, M
<1>7. Ranged(sizes, R)
  <2> HIDE DEF n
  <2> QED BY <1>1, <1>2, <1>3, <1>4, RangesOwn
<1> HIDE DEF R, n
<1>8. Cardinality(1 .. n) = n
  <2>1. 1 \in Int /\ n \in Int /\ (IF 1 > n THEN 0 ELSE n - 1 + 1) = n
    BY <1>1
  <2> QED BY <2>1, FS_Interval
<1>9. CASE single
  <2> DEFINE s == SingleSizeSegment(o)
             e == Filled(o, s)
  <2>1. M = {e}
    BY <1>5, <1>6, <1>9
  <2>2. s.ops = o
    BY DEF SingleSizeSegment
  <2> HIDE DEF s
  <2>3. e.range.requests = n
    BY <2>2, FilledIs, FastestSorted DEF n
  <2> HIDE DEF e, single
  <2>4. Parted(M, part, n, 1 .. n)
    BY <1>1, <1>9, <2>1 DEF Parted
  <2>5. \A x \in M : f[x] \in Nat /\ f[x] <= Cardinality(part[x])
    BY <1>1, <1>8, <1>9, <2>1, <2>3
  <2> HIDE DEF f, part
  <2>6. SumOver(M, f) <= Cardinality(1 .. n)
    BY <2>4, <2>5, CountedOut
  <2> QED BY <1>8, <2>6 DEF f, M, n
<1>10. CASE ~single
  <2> DEFINE S(z) == SizedFrom(sizes, z.lo, z.hi)
  <2>1. \A x \in M : \E z \in R : x = Filled(o, seg(z))
    BY <1>5, <1>6, <1>10
  <2>2. ASSUME NEW z \in R
        PROVE  /\ Filled(o, seg(z)).range.lo = z.lo /\ Filled(o, seg(z)).range.hi = z.hi
               /\ Filled(o, seg(z)).range.requests = Cardinality(S(z))
               /\ S(z) \in SUBSET (1 .. n) /\ Cardinality(S(z)) \in Nat
    <3>1. Len(z.at) = Cardinality(S(z))
      BY <1>7 DEF Ranged
    <3>2. S(z) \in SUBSET (1 .. n)
      BY <1>2 DEF SizedFrom
    <3> HIDE DEF S
    <3>3. Cardinality(S(z)) \in Nat
      BY <1>1, <3>2, PositionsFinite
    <3>4. Len(SortByThroughput(taken(z))) = Len(z.at)
      BY <3>1, <3>3, TakenCount
    <3>5. seg(z).lo = z.lo /\ seg(z).hi = z.hi /\ seg(z).ops = taken(z)
      <4> HIDE DEF taken
      <4> QED OBVIOUS
    <3> HIDE DEF seg, taken
    <3> QED BY <3>1, <3>2, <3>3, <3>4, <3>5, FilledIs
  <2> DEFINE F(z) == Filled(o, seg(z))
  <2>3. \A x \in M : \E z \in R : x = F(z) /\ f[x] = Cardinality(S(z)) /\ part[x] = S(z)
    <3> SUFFICES ASSUME NEW x \in M
                 PROVE \E z \in R : x = F(z) /\ f[x] = Cardinality(S(z)) /\ part[x] = S(z)
      OBVIOUS
    <3>1. PICK z \in R : x = F(z)
      BY <2>1
    <3>2. x.range.lo = z.lo /\ x.range.hi = z.hi /\ x.range.requests = Cardinality(S(z))
      BY <2>2, <3>1
    <3>3. f[x] = x.range.requests /\ part[x] = SizedFrom(sizes, x.range.lo, x.range.hi)
      <4> HIDE DEF single
      <4> QED BY <1>10
    <3> HIDE DEF F, f, part
    <3> QED BY <3>1, <3>2, <3>3
  <2>4. \A y, z \in R : y # z => S(y) \cap S(z) = {}
    BY <1>7 DEF Ranged
  <2>5. \A z \in R : S(z) \in SUBSET (1 .. n) /\ Cardinality(S(z)) \in Nat
    BY <2>2
  <2> HIDE DEF F, S, f, part
  <2>6. Parted(M, part, n, 1 .. n)
    <3>1. \A x \in M : part[x] \in SUBSET (1 .. n)
      BY <2>3, <2>5
    <3>2. \A x, y \in M : x # y => part[x] \cap part[y] = {}
      BY <2>3, <2>4
    <3> QED BY <1>1, <3>1, <3>2 DEF Parted
  <2>7. \A x \in M : f[x] \in Nat /\ f[x] <= Cardinality(part[x])
    BY <2>3, <2>5
  <2>8. SumOver(M, f) <= Cardinality(1 .. n)
    BY <2>6, <2>7, CountedOut
  <2> QED BY <1>8, <2>8 DEF f, M, n
<1> QED BY <1>9, <1>10
-----------------------------------------------------------------------------
(* The statistics of requests count no more than there are, in all and, as *)
(* long as the ranges of sizes are apart, by size.                         *)
LEMMA RequestsOfType ==
    ASSUME NEW V, NEW o, Listed(V, o), NEW b \in BOOLEAN
    PROVE  LET q == IF MultipleSizes(o) THEN RequestAnalysisMultiSized(o, b)
                    ELSE RequestAnalysisSingleSized(o, b)
           IN  /\ q.requests <= Len(o)
               /\ "bySize" \in DOMAIN q /\ q.requests * MinShare < 200 =>
                    SumOver(q.bySize, [z \in q.bySize |-> z.range.requests]) <= q.requests
<1> DEFINE q == IF MultipleSizes(o) THEN RequestAnalysisMultiSized(o, b)
                ELSE RequestAnalysisSingleSized(o, b)
           r == ActiveTimeRange(o, b)
           active == FilterInsideRange(o, r.start, r.end)
           sum(x) == SumOver(x.bySize, [z \in x.bySize |-> z.range.requests])
<1>1. o \in Seq(V) /\ Len(o) \in Nat /\ Idx(o) = 1 .. Len(o) /\ \A v \in V : Reportable(v)
  BY ListedIs DEF Listed
<1>2. q.requests <= Len(o)
  <2>1. RequestAnalysisSingleSized(o, b).requests <= Len(o)
    BY <1>1, RequestsBounded
  <2>2. RequestAnalysisMultiSized(o, b).requests <= Len(o)
    BY <1>1, RequestsBounded
  <2> QED BY <2>1, <2>2
<1>3. active \in Seq(V)
  <2> HIDE DEF r
  <2> QED BY <1>1, InsideIs
<1>4. ASSUME "bySize" \in DOMAIN q, q.requests * MinShare < 200
      PROVE  sum(q) <= q.requests
  <2> DEFINE m == [requests |-> Len(active), bySize |-> FillMulti(active),
                   byHost |-> RequestAnalysisHostsMultiSized(active)]
             s == [requests |-> Len(active), all |-> FillSingle(active),
                   firstLast |-> FirstLast(o), byHost |-> RequestAnalysisHostsSingleSized(o)]
             M == FillMulti(active)
  <2>1. q = IF active = <<>> THEN [requests |-> 0] ELSE IF MultipleSizes(o) THEN m ELSE s
    BY DEF RequestAnalysisSingleSized, RequestAnalysisMultiSized
  <2>2. "bySize" \notin DOMAIN [requests |-> 0] /\ "bySize" \notin DOMAIN s
    OBVIOUS
  <2> HIDE DEF q, s, active, r
  <2>3. q = m /\ active # <<>>
    <3> HIDE DEF m
    <3> QED BY <1>4, <2>1, <2>2
  <2>4. m.bySize = M /\ m.requests = Len(active)
    OBVIOUS
  <2> HIDE DEF m
  <2>5. Weighed(active) /\ Idx(active) # {}
    <3>1. Len(active) \in Nat /\ Len(active) # 0 /\ Idx(active) = 1 .. Len(active)
      BY <1>3, <2>3 DEF Idx
    <3>2. \A i \in 1 .. Len(active) : active[i] \in V
      BY <1>3
    <3>3. \A i \in 1 .. Len(active) : active[i].size \in Nat
      BY <1>1, <3>2 DEF Reportable
    <3> QED BY <3>1, <3>3 DEF Weighed
  <2> HIDE DEF M
  <2>6. Len(active) * MinShare < 200
    BY <1>4, <2>3, <2>4
  <2>7. SumOver(M, [z \in M |-> z.range.requests]) <= Len(active)
    BY <1>3, <2>5, <2>6, SizesBounded DEF M
  <2> QED BY <2>3, <2>4, <2>7
<1> QED BY <1>2, <1>4

(* What Aggregate takes of a type: its operations, without those that the  *)
(* skip leaves out.                                                        *)
Taken(o, t, skip) ==
    LET of == FilterByOp(o, t)
        r == TimeRange(of)
    IN  IF skip > 0 THEN FilterInsideRange(of, r.start + skip, r.end) ELSE of

LEMMA TakenIs ==
    ASSUME NEW V, NEW o, Listed(V, o), Starting(o), NEW t, Named(t), NEW skip
    PROVE  /\ Listed(V, Taken(o, t, skip)) /\ Starting(Taken(o, t, skip))
           /\ skip = 0 => Taken(o, t, skip) = FilterByOp(o, t)
<1> DEFINE of == FilterByOp(o, t)
           r == TimeRange(of)
           S == {i \in Idx(o) : o[i].type = t}
           Q == {i \in Idx(of) : of[i].start >= r.start + skip /\ of[i].end <= r.end}
<1>1. Idx(o) = 1 .. Len(o)
  BY DEF Idx
<1>2. of = Keep(o, S)
  BY TypeKept
<1>3. S \in SUBSET (1 .. Len(o))
  BY <1>1
<1> HIDE DEF S
<1>4. Listed(V, of) /\ Starting(of)
  <2>1. Listed(V, Keep(o, S)) /\ Starting(Keep(o, S))
    BY <1>3, KeepStarting
  <2> QED BY <1>2, <2>1
<1>5. FilterInsideRange(of, r.start + skip, r.end) = Keep(of, Q)
  BY DEF FilterInsideRange
<1>6. Taken(o, t, skip) = IF skip > 0 THEN Keep(of, Q) ELSE of
  BY <1>5 DEF Taken
<1>7. Q \in SUBSET (1 .. Len(of))
  BY DEF Idx
<1> HIDE DEF of, Q
<1>8. Listed(V, Keep(of, Q)) /\ Starting(Keep(of, Q))
  BY <1>4, <1>7, KeepStarting
<1> QED BY <1>4, <1>6, <1>8 DEF of

(* The ranges of sizes of a type count no request twice as long as one     *)
(* request is the share of a range: of the default 5 percent, with fewer   *)
(* than 40 requests.  (SizesCountedOnce, without that limit, is violated.) *)
FewSizesOnce(a) ==
    "bySize" \in DOMAIN a.requests /\ a.requests.requests * MinShare < 200 =>
        SumOver(a.requests.bySize, [z \in a.requests.bySize |-> z.range.requests])
            <= a.requests.requests

TypeFacts(a, dur) == TypeAccounts(a, dur) /\ FewSizesOnce(a)

(* The account of one type.                                                *)
Drawn(V, s) == \A v \in V : \E j \in Idx(s) : v = s[j]

LEMMA TypeReported ==
    ASSUME NEW V, NEW o, Listed(V, o), Starting(o), NEW t, Named(t), NEW skip,
           NEW pf \in BOOLEAN, NEW W, NEW s, Listed(W, s), Drawn(V, s)
    PROVE  LET a == AggregateType(o, t, pf, skip)
               mine == Taken(o, t, skip)
           IN  /\ a.type = t /\ a.n = Len(mine) /\ a.errors = Len(FilterErrors(mine))
               /\ ~a.skipped => TypeFacts(a, Duration(s))
<1> DEFINE a == AggregateType(o, t, pf, skip)
           mine == Taken(o, t, skip)
           np == ~pf
           no == FALSE
           segs == Segment(mine, 0, analysisDur(Duration(mine)), np, no)
           good == FilterSuccessful(mine)
           total == Total(good, np)
           q == IF MultipleSizes(good) THEN RequestAnalysisMultiSized(good, np)
                ELSE RequestAnalysisSingleSized(good, np)
           th == ThroughputByHost(mine)
           short == [type |-> t, n |-> Len(mine), errors |-> Len(FilterErrors(mine)),
                     skipped |-> TRUE]
           long == [type |-> t, n |-> Len(mine), errors |-> Len(FilterErrors(mine)),
                    skipped |-> FALSE, segs |-> segs,
                    throughput |-> Throughput(total, 0),
                    segmented |-> Segmented(segs, total),
                    concurrency |-> Threads(good), clients |-> Cardinality(Clients(good)),
                    requests |-> q, byHost |-> th]
<1>0. np \in BOOLEAN /\ no \in BOOLEAN
  <2>1. pf = TRUE \/ pf = FALSE
    OBVIOUS
  <2>2. CASE pf = TRUE
    BY <2>2
  <2>3. CASE pf = FALSE
    BY <2>3
  <2> QED BY <2>1, <2>2, <2>3
<1>1. a = IF Len(segs) <= 1 \/ good = <<>> THEN short ELSE long
  BY DEF AggregateType, Taken
<1>2. Listed(V, mine) /\ Starting(mine)
  BY TakenIs
<1> HIDE DEF mine, np, no
<1>3. mine \in Seq(V)
  BY <1>2 DEF Listed
<1>4. /\ Len(mine) - Len(FilterErrors(mine)) = Len(good)
      /\ Listed(V, good) /\ Starting(good)
  <2>1. Len(mine) - Len(FilterErrors(mine)) = Len(good)
    BY <1>3, FailedAndGood
  <2>2. good = Keep(mine, {i \in Idx(mine) : ~mine[i].err})
    BY DEF FilterSuccessful
  <2>3. {i \in Idx(mine) : ~mine[i].err} \in SUBSET (1 .. Len(mine))
    BY DEF Idx
  <2> DEFINE S == {i \in Idx(mine) : ~mine[i].err}
  <2> HIDE DEF S
  <2>4. Listed(V, Keep(mine, S)) /\ Starting(Keep(mine, S))
    BY <1>2, <2>3, KeepStarting DEF S
  <2> QED BY <2>1, <2>2, <2>4 DEF S
<1>5. Duration(mine) \in Nat /\ Duration(s) \in Nat /\ Duration(mine) <= Duration(s)
  BY <1>2, DurationWithin DEF Drawn
<1> DEFINE dur == Duration(s)
<1> HIDE DEF dur
<1>6. /\ Len(segs) \in Nat /\ segs \in Seq({segs[k] : k \in 1 .. Len(segs)})
      /\ \A k \in 1 .. Len(segs) : segs[k].bytes \in Int
      /\ \/ Len(segs) <= WantAtMost
         \/ dur \div StdDurations[Len(StdDurations)] > WantAtMost
  <2>1. dur \in Nat /\ Duration(mine) <= dur
    BY <1>5 DEF dur
  <2> DEFINE segs2 == Segment(mine, 0, analysisDur(Duration(mine)), np, no)
  <2>2. Len(segs2) \in Nat
    BY <1>0, <1>2, <2>1, SegmentsWanted
  <2>4. segs2 \in Seq({segs2[k] : k \in 1 .. Len(segs2)})
    BY <1>0, <1>2, <2>1, SegmentsWanted
  <2>5. \A k \in 1 .. Len(segs2) : segs2[k].bytes \in Int
    BY <1>0, <1>2, <2>1, SegmentsWanted
  <2>6. \/ Len(segs2) <= WantAtMost
        \/ dur \div StdDurations[Len(StdDurations)] > WantAtMost
    BY <1>0, <1>2, <2>1, SegmentsWanted
  <2>3. segs2 = segs
    OBVIOUS
  <2> HIDE DEF segs2, segs
  <2> QED BY <2>2, <2>3, <2>4, <2>5, <2>6
<1> HIDE DEF segs, good, a
<1>7. total.full <= Len(good)
  BY <1>0, <1>4, TotalBounded
<1> HIDE DEF total
<1>8. /\ q.requests <= Len(good)
      /\ "bySize" \in DOMAIN q /\ q.requests * MinShare < 200 =>
           SumOver(q.bySize, [z \in q.bySize |-> z.range.requests]) <= q.requests
  BY <1>0, <1>4, RequestsOfType
<1>9. /\ SumOver(DOMAIN th, [h \in DOMAIN th |-> th[h].errors]) <= Len(FilterErrors(mine))
      /\ SumOver(DOMAIN th, [h \in DOMAIN th |-> th[h].operations]) <= Len(good)
  BY <1>2, HostsBounded DEF good
<1> HIDE DEF q, th
<1>10. CASE Len(segs) <= 1 \/ good = <<>>
  <2>1. a = short
    BY <1>1, <1>10
  <2>2. /\ short.type = t /\ short.n = Len(mine)
        /\ short.errors = Len(FilterErrors(mine)) /\ short.skipped
    OBVIOUS
  <2> HIDE DEF short
  <2> QED BY <2>1, <2>2 DEF a, mine
<1>11. CASE ~(Len(segs) <= 1 \/ good = <<>>)
  <2>1. a = long
    BY <1>1, <1>11
  <2> DEFINE z == Segmented(segs, total)
             tp == Throughput(total, 0)
  <2>2. /\ z.sortedBy = "bps" =>
             /\ \A k \in Idx(segs) : segs[k].bytes \in z.slowest .. z.fastest
             /\ z.median \in z.slowest .. z.fastest
    <3> DEFINE U == {segs[k] : k \in 1 .. Len(segs)}
    <3> HIDE DEF U
    <3>1. segs \in Seq(U) /\ segs # <<>>
      BY <1>6, <1>11 DEF U
    <3> QED BY <1>6, <3>1, SegmentedBounds
  <2>3. tp.operations = total.full
    BY DEF Throughput
  <2> HIDE DEF z, tp
  <2>4. /\ long.type = t /\ long.n = Len(mine) /\ long.errors = Len(FilterErrors(mine))
        /\ ~long.skipped /\ long.segs = segs /\ long.throughput = tp /\ long.segmented = z
        /\ long.requests = q /\ long.byHost = th
    BY DEF z, tp
  <2> HIDE DEF long
  <2>5. TypeFacts(long, dur)
    <3>1. q.requests <= long.n - long.errors
      BY <1>4, <1>8, <2>4
    <3>2. tp.operations <= long.n - long.errors
      BY <1>4, <1>7, <2>3, <2>4
    <3>3. SumOver(DOMAIN th, [h \in DOMAIN th |-> th[h].errors]) <= long.errors
      BY <1>9, <2>4
    <3>4. SumOver(DOMAIN th, [h \in DOMAIN th |-> th[h].operations]) <= long.n - long.errors
      BY <1>4, <1>9, <2>4
    <3>5. long.requests.requests <= long.n - long.errors
      BY <2>4, <3>1
    <3>10. FewSizesOnce(long)
      BY <1>8, <2>4 DEF FewSizesOnce
    <3>6. long.throughput.operations <= long.n - long.errors
      BY <2>4, <3>2
    <3>7. long.segmented.sortedBy = "bps" =>
            /\ \A k \in Idx(long.segs) :
                  long.segs[k].bytes \in long.segmented.slowest .. long.segmented.fastest
            /\ long.segmented.median \in long.segmented.slowest .. long.segmented.fastest
      BY <2>2, <2>4
    <3>8. /\ SumOver(DOMAIN long.byHost,
                     [h \in DOMAIN long.byHost |-> long.byHost[h].errors]) <= long.errors
          /\ SumOver(DOMAIN long.byHost,
                     [h \in DOMAIN long.byHost |-> long.byHost[h].operations])
                 <= long.n - long.errors
      BY <2>4, <3>3, <3>4
    <3>9. \/ Len(long.segs) <= WantAtMost
          \/ dur \div StdDurations[Len(StdDurations)] > WantAtMost
      BY <1>6, <2>4
    <3> QED BY <3>5, <3>6, <3>7, <3>8, <3>9, <3>10, Zenon DEF TypeAccounts, TypeFacts
  <2> QED BY <2>1, <2>4, <2>5 DEF a, mine, dur
<1> QED BY <1>10, <1>11

Within(x, n) == x \in Nat /\ x <= n

(* Each type of Q is reported once, with the operations of its own.        *)
LEMMA TypesAddUp ==
    ASSUME NEW V, NEW o, Listed(V, o), Starting(o), NEW Q, \A t \in Q : Named(t),
           NEW pf \in BOOLEAN
    PROVE  LET A == {AggregateType(o, t, pf, 0) : t \in Q}
           IN  /\ Within(SumOver(A, [a \in A |-> a.n]), Len(o))
               /\ OpTypes(o) \subseteq Q =>
                    /\ SumOver(A, [a \in A |-> a.n]) = Len(o)
                    /\ SumOver(A, [a \in A |-> a.errors]) = Len(FilterErrors(o))
<1> DEFINE g(t) == AggregateType(o, t, pf, 0)
           A == {g(t) : t \in Q}
           n == Len(o)
           f == [a \in A |-> a.n]
           e == [a \in A |-> a.errors]
           of == [a \in A |-> OfType(o, a.type)]
           bad == [a \in A |-> OfType(o, a.type) \cap Failed(o)]
<1>1. n \in Nat /\ Idx(o) = 1 .. n /\ o \in Seq(V)
  BY ListedIs
<1>2. ASSUME NEW t \in Q
      PROVE  /\ g(t).type = t /\ g(t).n = Cardinality(OfType(o, t))
             /\ g(t).errors = Cardinality(OfType(o, t) \cap Failed(o))
             /\ OfType(o, t) \in SUBSET (1 .. n) /\ Cardinality(OfType(o, t)) \in Nat
             /\ Cardinality(OfType(o, t) \cap Failed(o)) \in Nat
  <2> DEFINE W == {o[i] : i \in Idx(o)}
  <2>1. Listed(W, o) /\ Drawn(W, o)
    <3>1. o \in Seq(W)
      BY <1>1
    <3>2. \A v \in W : Reportable(v)
      BY ListedIs
    <3> HIDE DEF W
    <3>3. \A v \in W : \E j \in Idx(o) : v = o[j]
      BY DEF W
    <3> QED BY <3>1, <3>2, <3>3 DEF Listed, Drawn
  <2> DEFINE mine == Taken(o, t, 0)
             none == 0
  <2> HIDE DEF W
  <2>2. mine = FilterByOp(o, t)
    BY <1>2, TakenIs
  <2>3. g(t).type = t /\ g(t).n = Len(mine) /\ g(t).errors = Len(FilterErrors(mine))
    <3> HIDE DEF none
    <3> DEFINE a == AggregateType(o, t, pf, none)
               m == Taken(o, t, none)
    <3>1. a.type = t /\ a.n = Len(m) /\ a.errors = Len(FilterErrors(m))
      BY <1>2, <2>1, TypeReported
    <3> QED BY <3>1 DEF none
  <2> HIDE DEF mine, g
  <2>4. /\ OfType(o, t) \in SUBSET (1 .. n) /\ Len(mine) = Cardinality(OfType(o, t))
        /\ Cardinality(OfType(o, t)) \in Nat
    BY <1>1, <1>2, <2>2, TypeFiltered
  <2>5. Len(FilterErrors(mine)) = Cardinality(OfType(o, t) \cap Failed(o))
    BY <1>1, <1>2, <2>2, TypeFailed
  <2>6. OfType(o, t) \cap Failed(o) \in SUBSET (1 .. n)
    BY <2>4
  <2>7. Cardinality(OfType(o, t) \cap Failed(o)) \in Nat
    <3> DEFINE X == OfType(o, t) \cap Failed(o)
    <3> HIDE DEF X
    <3>1. X \in SUBSET (1 .. n)
      BY <2>6 DEF X
    <3>2. Cardinality(X) \in Nat
      BY <1>1, <3>1, PositionsFinite
    <3> QED BY <3>2 DEF X
  <2> QED BY <2>3, <2>4, <2>5, <2>7
<1>3. \A a \in A : \E t \in Q : a = g(t) /\ a.type = t
  <2>1. \A t \in Q : g(t).type = t
    BY <1>2
  <2> HIDE DEF g
  <2> QED BY <2>1
<1>4. \A a, b \in A : a # b => a.type # b.type
  <2> HIDE DEF g
  <2> QED BY <1>3
<1>5. \A t1, t2 : t1 # t2 => OfType(o, t1) \cap OfType(o, t2) = {}
  BY DEF OfType
<1>6. \A a \in A : /\ f[a] = Cardinality(of[a]) /\ f[a] \in Nat /\ f[a] <= Cardinality(of[a])
                   /\ of[a] \in SUBSET (1 .. n) /\ of[a] = OfType(o, a.type)
  <2> SUFFICES ASSUME NEW a \in A
               PROVE  /\ f[a] = Cardinality(of[a]) /\ f[a] \in Nat /\ f[a] <= Cardinality(of[a])
                      /\ of[a] \in SUBSET (1 .. n) /\ of[a] = OfType(o, a.type)
    OBVIOUS
  <2>1. PICK t \in Q : a = g(t) /\ a.type = t
    BY <1>3
  <2>2. of[a] = OfType(o, t) /\ f[a] = a.n
    BY <2>1
  <2> HIDE DEF f, of, g
  <2>3. a.n = Cardinality(OfType(o, t)) /\ OfType(o, t) \in SUBSET (1 .. n)
        /\ Cardinality(OfType(o, t)) \in Nat
    BY <1>2, <2>1
  <2> QED BY <2>1, <2>2, <2>3
<1>7. \A a \in A : /\ e[a] = Cardinality(bad[a]) /\ e[a] \in Nat /\ e[a] <= Cardinality(bad[a])
                   /\ bad[a] \in SUBSET Failed(o) /\ bad[a] = OfType(o, a.type) \cap Failed(o)
  <2> SUFFICES ASSUME NEW a \in A
               PROVE  /\ e[a] = Cardinality(bad[a]) /\ e[a] \in Nat /\ e[a] <= Cardinality(bad[a])
                      /\ bad[a] \in SUBSET Failed(o) /\ bad[a] = OfType(o, a.type) \cap Failed(o)
    OBVIOUS
  <2>1. PICK t \in Q : a = g(t) /\ a.type = t
    BY <1>3
  <2>2. bad[a] = OfType(o, t) \cap Failed(o) /\ e[a] = a.errors
    BY <2>1
  <2> HIDE DEF e, bad, g
  <2>3. a.errors = Cardinality(OfType(o, t) \cap Failed(o))
        /\ Cardinality(OfType(o, t) \cap Failed(o)) \in Nat
    BY <1>2, <2>1
  <2> QED BY <2>1, <2>2, <2>3
<1>8. Parted(A, of, n, 1 .. n)
  <2> HIDE DEF A, of
  <2>1. \A x, y \in A : x # y => of[x] \cap of[y] = {}
    BY <1>4, <1>5, <1>6
  <2> QED BY <1>1, <1>6, <2>1 DEF Parted
<1>9. Parted(A, bad, n, Failed(o))
  <2> HIDE DEF A, bad
  <2>1. \A x, y \in A : x # y => bad[x] \cap bad[y] = {}
    BY <1>4, <1>5, <1>7
  <2>2. Failed(o) \in SUBSET (1 .. n)
    BY <1>1 DEF Failed
  <2> QED BY <1>1, <1>7, <2>1, <2>2 DEF Parted
<1>10. Cardinality(1 .. n) = n
  <2>1. 1 \in Int /\ n \in Int /\ (IF 1 > n THEN 0 ELSE n - 1 + 1) = n
    BY <1>1
  <2> HIDE DEF n
  <2> QED BY <2>1, FS_Interval
<1>11. OpTypes(o) \subseteq Q => 1 .. n \subseteq UNION {of[a] : a \in A}
  <2> SUFFICES ASSUME OpTypes(o) \subseteq Q, NEW i \in 1 .. n
               PROVE  \E a \in A : i \in of[a]
    OBVIOUS
  <2>1. o[i].type \in Q
    BY <1>1 DEF OpTypes
  <2> DEFINE t == o[i].type
             a == g(t)
  <2>2. a \in A
    BY <2>1
  <2>3. a.type = t
    <3> HIDE DEF g
    <3> QED BY <1>2, <2>1
  <2> HIDE DEF a, of, A
  <2>4. i \in of[a]
    BY <1>1, <1>6, <2>2, <2>3 DEF OfType
  <2> QED BY <2>2, <2>4
<1>12. OpTypes(o) \subseteq Q => Failed(o) \subseteq UNION {bad[a] : a \in A}
  <2> SUFFICES ASSUME OpTypes(o) \subseteq Q, NEW i \in Failed(o)
               PROVE  \E a \in A : i \in bad[a]
    OBVIOUS
  <2>1. i \in 1 .. n
    BY <1>1 DEF Failed
  <2> HIDE DEF A, of, bad
  <2>2. PICK a \in A : i \in of[a]
    BY <1>11, <2>1
  <2> QED BY <1>6, <1>7, <2>2
<1>13. Len(FilterErrors(o)) = Cardinality(Failed(o))
  BY <1>1, FailedAndGood
<1> HIDE DEF A, f, e, of, bad
<1>14. SumOver(A, f) \in Nat /\ SumOver(A, f) <= Cardinality(1 .. n)
  BY <1>6, <1>8, CountedOut
<1>15. ASSUME OpTypes(o) \subseteq Q
       PROVE  SumOver(A, f) = Cardinality(1 .. n)
  <2>1. Covered(A, f, of, 1 .. n)
    BY <1>6, <1>11, <1>15, Zenon DEF Covered
  <2>2. \A x \in A : f[x] \in Nat /\ f[x] <= Cardinality(of[x])
    BY <1>6
  <2> QED BY <1>8, <2>1, <2>2, CountedOut
<1>16. ASSUME OpTypes(o) \subseteq Q
       PROVE  SumOver(A, e) = Cardinality(Failed(o))
  <2>1. Covered(A, e, bad, Failed(o))
    BY <1>7, <1>12, <1>16, Zenon DEF Covered
  <2>2. \A x \in A : e[x] \in Nat /\ e[x] <= Cardinality(bad[x])
    BY <1>7
  <2> QED BY <1>9, <2>1, <2>2, CountedOut
<1> QED BY <1>10, <1>13, <1>14, <1>15, <1>16 DEF A, f, e, Within

(* The mixed operations that are used are some of all, in their order.     *)
LEMMA MixedIs ==
    ASSUME NEW V, NEW o, Listed(V, o), Starting(o), NEW pf, NEW skip
    PROVE  LET u == MixedOps(o, pf, skip)
           IN  Listed(V, u) /\ Starting(u) /\ Len(u) <= Len(o)
<1> DEFINE act == ActiveTimeRange(o, ~pf)
           r == TimeRange(o)
           in(a, b) == {i \in Idx(o) : o[i].start >= a /\ o[i].end <= b}
<1>1. o \in Seq(V) /\ Len(o) \in Nat /\ Idx(o) = 1 .. Len(o)
  BY ListedIs
<1>2. ASSUME NEW a, NEW b
      PROVE  /\ Listed(V, FilterInsideRange(o, a, b)) /\ Starting(FilterInsideRange(o, a, b))
             /\ Len(FilterInsideRange(o, a, b)) <= Len(o)
  <2> DEFINE S == in(a, b)
  <2>1. S \in SUBSET (1 .. Len(o))
    BY <1>1
  <2>2. FilterInsideRange(o, a, b) = Keep(o, S)
    BY DEF FilterInsideRange
  <2> HIDE DEF S
  <2>3. Listed(V, Keep(o, S)) /\ Starting(Keep(o, S))
    BY <2>1, KeepStarting
  <2>4. Len(FilterInsideRange(o, a, b)) <= Len(o)
    BY <1>1, InsideIs
  <2> QED BY <2>2, <2>3, <2>4
<1> DEFINE x == FilterInsideRange(o, act.start + skip, act.end)
           y == FilterInsideRange(o, r.start + skip, r.end)
<1>3. MixedOps(o, pf, skip) \in {o, x, y}
  <2>1. MixedOps(o, pf, skip) = CASE ~HasError(o) -> x
                                  [] HasError(o) /\ skip > 0 -> y
                                  [] OTHER -> o
    BY DEF MixedOps
  <2> HIDE DEF x, y
  <2>2. CASE ~HasError(o)
    BY <2>1, <2>2
  <2>3. CASE HasError(o) /\ skip > 0
    BY <2>1, <2>3
  <2>4. CASE HasError(o) /\ ~(skip > 0)
    BY <2>1, <2>4
  <2> QED BY <2>2, <2>3, <2>4
<1>4. Listed(V, x) /\ Starting(x) /\ Len(x) <= Len(o)
  BY <1>2
<1>5. Listed(V, y) /\ Starting(y) /\ Len(y) <= Len(o)
  BY <1>2
<1> HIDE DEF x, y
<1> QED BY <1>1, <1>3, <1>4, <1>5

(* The result of an analysis accounts for the operations it is made of.    *)
Accounted(g, o, skip) ==
    /\ ~g.mixed /\ skip = 0 =>
         /\ SumOver(g.types, [a \in g.types |-> a.n]) = Len(o)
         /\ SumOver(g.types, [a \in g.types |-> a.errors]) = Len(FilterErrors(o))
    /\ g.mixed => SumOver(g.types, [a \in g.types |-> a.n]) <= Len(o)
    /\ \A a \in g.types : ~a.skipped => TypeFacts(a, Duration(o))

LEMMA AggregateReports ==
    ASSUME NEW U, NEW sel, Listed(U, sel), NEW pf \in BOOLEAN, NEW skip
    PROVE  Accounted(Aggregate(sel, pf, skip), sel, skip)
<1> DEFINE o == SortByStartTime(sel)
           V == {sel[i] : i \in Idx(sel)}
           pre == pf \/ HasError(o)
           used == MixedOps(o, pre, skip)
           Q == OpTypes(o)
           A(u, p, k) == {AggregateType(u, t, p, k) : t \in Q}
           yes == TRUE
           none == 0
<1>1. Listed(V, sel) /\ Drawn(V, sel)
  <2>1. sel \in Seq(V)
    BY ListedIs
  <2>2. \A v \in V : Reportable(v)
    BY ListedIs
  <2> HIDE DEF V
  <2>3. \A v \in V : \E j \in Idx(sel) : v = sel[j]
    BY DEF V
  <2> QED BY <2>1, <2>2, <2>3 DEF Listed, Drawn
<1> HIDE DEF V
<1>2. Listed(V, o) /\ Starting(o)
  BY <1>1, StartingSorted
<1>3. Len(o) = Len(sel) /\ Len(FilterErrors(o)) = Len(FilterErrors(sel)) /\ Len(sel) \in Nat
  BY <1>1, ListedIs, SortedCounts
<1> HIDE DEF o
<1>4. pre \in BOOLEAN /\ yes \in BOOLEAN
  <2>1. HasError(o) \in BOOLEAN
    BY DEF HasError
  <2> QED BY <2>1
<1>5. Aggregate(sel, pf, skip) =
        IF isMixed(o)
        THEN [mixed |-> TRUE, stats |-> MixedStats(used, FilterErrors(o)),
              types |-> A(used, yes, none)]
        ELSE [mixed |-> FALSE, types |-> A(o, pre, skip)]
  BY DEF Aggregate, o
<1>6. \A t \in Q : Named(t)
  <2>1. \A i \in Idx(o) : Reportable(o[i])
    BY <1>2, ListedIs
  <2> QED BY <2>1 DEF OpTypes, Reportable
<1> HIDE DEF pre, yes
<1>7. Listed(V, used) /\ Starting(used) /\ Len(used) <= Len(o)
  BY <1>2, MixedIs
<1> HIDE DEF used, Q
<1>8. \A a \in A(used, yes, none) : ~a.skipped => TypeFacts(a, Duration(sel))
  <2> SUFFICES ASSUME NEW t \in Q
               PROVE  LET a == AggregateType(used, t, yes, none)
                      IN  ~a.skipped => TypeFacts(a, Duration(sel))
    OBVIOUS
  <2> HIDE DEF none
  <2>1. Named(t)
    BY <1>6
  <2> QED BY <1>1, <1>4, <1>7, <2>1, TypeReported
<1>9. \A a \in A(o, pre, skip) : ~a.skipped => TypeFacts(a, Duration(sel))
  <2> SUFFICES ASSUME NEW t \in Q
               PROVE  LET a == AggregateType(o, t, pre, skip)
                      IN  ~a.skipped => TypeFacts(a, Duration(sel))
    OBVIOUS
  <2>1. Named(t)
    BY <1>6
  <2> QED BY <1>1, <1>2, <1>4, <2>1, TypeReported
<1>10. CASE isMixed(o)
  <2> DEFINE g == [mixed |-> TRUE, stats |-> MixedStats(used, FilterErrors(o)),
                   types |-> A(used, yes, none)]
  <2>1. Aggregate(sel, pf, skip) = g
    BY <1>5, <1>10
  <2> DEFINE M == A(used, yes, none)
  <2>2. g.mixed /\ g.types = M
    OBVIOUS
  <2>3. Within(SumOver(M, [a \in M |-> a.n]), Len(used))
    BY <1>4, <1>6, <1>7, TypesAddUp
  <2>4. \A a \in M : ~a.skipped => TypeFacts(a, Duration(sel))
    BY <1>8
  <2> HIDE DEF g, M
  <2>5. SumOver(M, [a \in M |-> a.n]) <= Len(sel)
    <3> DEFINE x == SumOver(M, [a \in M |-> a.n])
    <3> HIDE DEF x
    <3>1. x \in Nat /\ x <= Len(used) /\ Len(used) \in Nat
      BY <1>7, <2>3, ListedIs DEF x, Within
    <3>2. x <= Len(sel)
      BY <1>3, <1>7, <3>1
    <3> QED BY <3>2 DEF x
  <2> QED BY <2>1, <2>2, <2>4, <2>5 DEF Accounted
<1>11. CASE ~isMixed(o)
  <2> DEFINE g == [mixed |-> FALSE, types |-> A(o, pre, skip)]
             M == A(o, pre, skip)
  <2>1. Aggregate(sel, pf, skip) = g
    BY <1>5, <1>11
  <2>2. ~g.mixed /\ g.types = M
    OBVIOUS
  <2>3. ASSUME skip = 0
        PROVE  /\ SumOver(M, [a \in M |-> a.n]) = Len(o)
               /\ SumOver(M, [a \in M |-> a.errors]) = Len(FilterErrors(o))
    <3> DEFINE N0 == A(o, pre, 0)
    <3>1. M = N0
      BY <2>3
    <3>2. OpTypes(o) \subseteq Q
      BY DEF Q
    <3>3. SumOver(N0, [a \in N0 |-> a.n]) = Len(o)
      BY <1>2, <1>4, <1>6, <3>2, TypesAddUp
    <3>4. SumOver(N0, [a \in N0 |-> a.errors]) = Len(FilterErrors(o))
      BY <1>2, <1>4, <1>6, <3>2, TypesAddUp
    <3> HIDE DEF M, N0
    <3> QED BY <3>1, <3>3, <3>4
  <2>4. \A a \in M : ~a.skipped => TypeFacts(a, Duration(sel))
    BY <1>9
  <2> HIDE DEF g, M
  <2> QED BY <1>3, <2>1, <2>2, <2>3, <2>4 DEF Accounted
<1> QED BY <1>10, <1>11
-----------------------------------------------------------------------------
(* A recorded operation that the analysis can report, with the fields that *)
(* it looks at.                                                            *)
TickedOps == {op \in RecordedOps : Ticked(op.start) /\ Ticked(op.end)}
Reported == {"start", "end", "size", "type"}
Fielded(op) == Reported \subseteq DOMAIN op

LEMMA TickedReportable ==
    ASSUME NEW op \in TickedOps
    PROVE  Reportable(op) /\ Fielded(op) /\ IsOp(op)
<1>1. op \in RecordedOps /\ Ticked(op.start) /\ Ticked(op.end)
  BY DEF TickedOps
<1>2. Times(op) /\ IsOp(op)
  BY <1>1, RecordedIs
<1>3. op.size \in Nat
  <2>1. op.size \in {k.size : k \in Kinds}
    BY <1>1 DEF RecordedOps
  <2> QED BY <2>1, AnalysisAssumption
<1>4. Named(op.type)
  <2>1. op.type \in {k.type : k \in Kinds}
    BY <1>1 DEF RecordedOps
  <2>2. \A k \in Kinds : Named(k.type)
    BY KindsNamed DEF Named
  <2> QED BY <2>1, <2>2
<1>5. Fielded(op)
  BY <1>1 DEF RecordedOps, Fielded, Reported
<1> QED BY <1>1, <1>2, <1>3, <1>4, <1>5 DEF Reportable

(* It stays one when it is moved to another thread.                        *)
LEMMA MovedReportable ==
    ASSUME NEW op, Reportable(op), Fielded(op), IsOp(op), NEW x \in Nat
    PROVE  Reportable(Moved(op, x)) /\ Fielded(Moved(op, x))
<1>1. /\ \A f \in DOMAIN op : f # "thread" => Moved(op, x)[f] = op[f]
      /\ DOMAIN Moved(op, x) = DOMAIN op
  BY MovedIs
<1>2. /\ Moved(op, x).start = op.start /\ Moved(op, x).end = op.end
      /\ Moved(op, x).size = op.size /\ Moved(op, x).type = op.type
  BY <1>1 DEF Fielded, Reported
<1>3. Fielded(Moved(op, x))
  BY <1>1 DEF Fielded
<1> DEFINE m == Moved(op, x)
<1> HIDE DEF m
<1>4. m.start = op.start /\ m.end = op.end /\ m.size = op.size /\ m.type = op.type
  BY <1>2 DEF m
<1>5. Reportable(m)
  BY <1>4 DEF Reportable, Times
<1> QED BY <1>3, <1>5 DEF m

(* So the merged operations can be reported ...                            *)
Loadable(V, o) == Listed(V, o) /\ \A v \in V : Fielded(v)

LEMMA MergedReportable ==
    ASSUME AInv, pc = "merged", got \in [1 .. N -> Seq(TickedOps)]
    PROVE  Loadable(AllMoved(got), ops)
<1>1. ops \in Seq(AllMoved(got))
  BY MergedList
<1>2. \A i \in Idx(got) : \A j \in Idx(got[i]) : got[i][j] \in TickedOps
  <2>1. N \in Nat
    BY AnalysisAssumption
  <2> DEFINE R == TickedOps
  <2> HIDE DEF R
  <2>2. got \in [1 .. N -> Seq(R)]
    BY DEF R
  <2>3. Idx(got) = 1 .. N
    BY MergedTimed DEF AInv
  <2>4. \A i \in Idx(got) : \A j \in Idx(got[i]) : got[i][j] \in R
    <3>1. \A i \in Idx(got) : got[i] \in Seq(R)
      BY <2>2, <2>3
    <3>2. \A s \in Seq(R) : \A j \in Idx(s) : s[j] \in R
      BY DEF Idx
    <3> QED BY <3>1, <3>2
  <2> QED BY <2>4 DEF R
<1>3. \A v \in AllMoved(got) : Reportable(v) /\ Fielded(v)
  <2>1. ASSUME NEW op \in TickedOps, NEW x \in Nat
        PROVE  Reportable(Moved(op, x)) /\ Fielded(Moved(op, x))
    BY TickedReportable, MovedReportable
  <2> QED BY <1>2, <2>1 DEF AllMoved
<1> QED BY <1>1, <1>3 DEF Loadable, Listed

(* ... and those loaded from the file too.                                 *)
LEMMA LoadedReportable ==
    ASSUME NEW V, NEW rows, Loadable(V, rows), NEW offset \in Nat, NEW limit \in Nat
    PROVE  \E U : Listed(U, OperationsFromCSV(rows, offset, limit))
<1> DEFINE stop == IF limit > 0 THEN Min({Len(rows), offset + limit}) ELSE Len(rows)
           used == SubSeq(rows, offset + 1, stop)
           files == [i \in Idx(used) |-> used[i].file]
           clients == [i \in Idx(used) |-> used[i].client]
           e(i) == [used[i] EXCEPT !.file = Rank(files, @),
                                   !.client = (97 + Rank(clients, @) - 1) % 256]
           r == [i \in Idx(used) |-> e(i)]
           U == {r[i] : i \in Idx(used)}
<1>1. rows \in Seq(V) /\ Len(rows) \in Nat /\ \A v \in V : Reportable(v) /\ Fielded(v)
  BY ListedIs DEF Loadable, Listed
<1>2. stop \in Nat /\ stop <= Len(rows)
  <2>1. Len(rows) \in Int /\ offset + limit \in Int
    BY <1>1
  <2>2. Min({Len(rows), offset + limit}) =
          IF Len(rows) <= offset + limit THEN Len(rows) ELSE offset + limit
    BY <2>1, MinTwo
  <2> QED BY <1>1, <2>2
<1> HIDE DEF stop
<1>3. used \in Seq(V)
  BY <1>1, <1>2
<1>4. OperationsFromCSV(rows, offset, limit) = r
  BY DEF OperationsFromCSV, stop
<1> HIDE DEF used, files, clients
<1>5. \A i \in Idx(used) : used[i] \in V
  BY <1>3 DEF Idx
<1>6. ASSUME NEW i \in Idx(used) PROVE Reportable(e(i))
  <2> DEFINE u == used[i]
             f == Rank(files, u.file)
             c == (97 + Rank(clients, u.client) - 1) % 256
             m == [u EXCEPT !.file = f, !.client = c]
  <2>1. e(i) = m
    OBVIOUS
  <2>2. Reportable(u) /\ Fielded(u)
    BY <1>1, <1>5
  <2> HIDE DEF u, f, c
  <2>3. m.start = u.start /\ m.end = u.end /\ m.size = u.size /\ m.type = u.type
    BY <2>2 DEF Fielded, Reported
  <2> HIDE DEF m
  <2>4. Reportable(m)
    BY <2>2, <2>3 DEF Reportable, Times
  <2> HIDE DEF e
  <2> QED BY <2>1, <2>4
<1> HIDE DEF e
<1>7. \A v \in U : Reportable(v)
  BY <1>6
<1>8. r \in Seq(U)
  <2>1. Idx(used) = 1 .. Len(used) /\ Len(used) \in Nat
    BY <1>3 DEF Idx
  <2>2. r = [i \in 1 .. Len(used) |-> r[i]]
    BY <2>1
  <2>3. \A i \in 1 .. Len(used) : r[i] \in U
    BY <2>1
  <2> HIDE DEF r, U
  <2> QED BY <2>1, <2>2, <2>3
<1> QED BY <1>4, <1>7, <1>8 DEF Listed

(* The filters of the flags keep some of the operations.                   *)
LEMMA SelectedListed ==
    ASSUME NEW V, NEW o, Listed(V, o), NEW f
    PROVE  Listed(V, Selected(o, f))
<1>1. ASSUME NEW q, Listed(V, q), NEW S, S \subseteq Idx(q)
      PROVE  Listed(V, Keep(q, S))
  <2>1. S \in SUBSET (1 .. Len(q))
    BY <1>1 DEF Idx
  <2> QED BY <1>1, <2>1, KeepStarting
<1> DEFINE hosted == IF f.host = "" THEN o ELSE FilterByEndpoint(o, f.host)
           H == {i \in Idx(o) : o[i].host = f.host}
           S == {i \in Idx(hosted) : f.op \in {hosted[i].type, ""}}
<1>2. hosted = o \/ hosted = Keep(o, H)
  BY DEF FilterByEndpoint
<1>3. H \subseteq Idx(o)
  OBVIOUS
<1> HIDE DEF H
<1>4. Listed(V, Keep(o, H))
  BY <1>1, <1>3
<1>5. Selected(o, f) = Keep(hosted, S)
  BY DEF Selected, FilterByOp
<1> HIDE DEF hosted
<1>6. Listed(V, hosted)
  BY <1>2, <1>4
<1>7. S \subseteq Idx(hosted)
  OBVIOUS
<1> HIDE DEF S
<1> QED BY <1>1, <1>5, <1>6, <1>7

(* The invariant of a report: it is the result of what is analysed, and    *)
(* that can be reported.                                                   *)
ReportInv ==
    /\ got \in [1 .. N -> Seq(TickedOps)]
    /\ pc = "done" =>
         /\ flags \in Flags /\ \E U : Listed(U, ops)
         /\ aggr = Aggregate(Selected(ops, flags), Prefiltered(ops, flags), flags.skip)

LEMMA RecordTicks ==
    ASSUME AInv, NEW i \in 1 .. N, NEW t \in 0 .. T - 1, NEW k \in Kinds,
           NEW a \in 1 .. MaxTick, NEW d \in Lengths, got \in [1 .. N -> Seq(TickedOps)],
           Record(i, t, k, a * Tick, (a + d) * Tick)
    PROVE  got' \in [1 .. N -> Seq(TickedOps)]
<1> DEFINE start == a * Tick
           end == (a + d) * Tick
           fb == IF k.fb THEN (start + end) \div 2 ELSE NoTime
           op == [type |-> k.type, start |-> start, end |-> end, fb |-> fb,
                  err |-> k.err, size |-> k.size, file |-> k.file,
                  thread |-> t, client |-> i, host |-> k.host]
<1>1. a \in Nat /\ d \in Nat /\ a + d \in Nat /\ Tick \in Nat
  BY AnalysisAssumption
<1>2. start \in Nat /\ end \in Nat /\ start <= end
  BY <1>1, TicksMonotone
<1>3. Ticked(start) /\ Ticked(end)
  <2>1. \E x \in Nat : start = x * Tick
    BY <1>1
  <2>2. \E x \in Nat : end = x * Tick
    BY <1>1
  <2> QED BY <2>1, <2>2 DEF Ticked
<1>4. got' = [got EXCEPT ![i] = Append(@, op)]
  BY DEF Record
<1> HIDE DEF start, end
<1>5. fb \in Nat \cup {NoTime}
  BY <1>2
<1> HIDE DEF fb
<1>6. op \in RecordedOps /\ op.start = start /\ op.end = end
  BY <1>2, <1>5 DEF RecordedOps
<1> HIDE DEF op
<1>7. op \in TickedOps
  BY <1>3, <1>6 DEF TickedOps
<1> DEFINE R == TickedOps
<1> HIDE DEF R
<1>8. op \in R /\ got \in [1 .. N -> Seq(R)]
  BY <1>7 DEF R
<1>9. Append(got[i], op) \in Seq(R)
  BY <1>8
<1>10. got' \in [1 .. N -> Seq(R)]
  BY <1>4, <1>8, <1>9
<1> QED BY <1>10 DEF R

LEMMA ReportsAreResults == Spec => []ReportInv
<1>1. Init => ReportInv
  BY DEF Init, ReportInv
<1>2. AInv /\ ReportInv /\ [Next]_vars => ReportInv'
  <2> SUFFICES ASSUME AInv, ReportInv, [Next]_vars PROVE ReportInv'
    OBVIOUS
  <2>1. got \in [1 .. N -> Seq(TickedOps)]
    BY DEF ReportInv
  <2>2. ASSUME NEW i \in 1 .. N, NEW t \in 0 .. T - 1, NEW k \in Kinds,
               NEW a \in 1 .. MaxTick, NEW d \in Lengths, Record(i, t, k, a * Tick, (a + d) * Tick)
        PROVE  ReportInv'
    <3>1. got' \in [1 .. N -> Seq(TickedOps)]
      BY <2>1, <2>2, RecordTicks
    <3>2. pc' # "done"
      BY <2>2 DEF Record
    <3> QED BY <3>1, <3>2 DEF ReportInv, TickedOps, RecordedOps, Ticked
  <2>3. CASE MergeAll
    <3>1. got' = got /\ pc' # "done"
      BY <2>3 DEF MergeAll
    <3> QED BY <2>1, <3>1 DEF ReportInv, TickedOps, RecordedOps, Ticked
  <2>4. ASSUME NEW f \in Flags, Analyze(f) \/ AnalyzeFile(f) PROVE ReportInv'
    <3>1. /\ pc = "merged" /\ got' = got /\ flags' = f
          /\ aggr' = Aggregate(Selected(ops', f), Prefiltered(ops', f), f.skip)
          /\ ops' = ops \/ ops' = OperationsFromCSV(ops, f.offset, f.limit)
      BY <2>4 DEF Analyze, AnalyzeFile, Report, Load
    <3>2. Loadable(AllMoved(got), ops)
      BY <2>1, <3>1, MergedReportable
    <3>3. f.offset \in Nat /\ f.limit \in Nat
      BY AnalysisAssumption
    <3>4. \E U : Listed(U, ops)
      BY <3>2 DEF Loadable
    <3>5. \E U : Listed(U, OperationsFromCSV(ops, f.offset, f.limit))
      BY <3>2, <3>3, LoadedReportable
    <3>6. \E U : Listed(U, ops')
      BY <3>1, <3>4, <3>5
    <3> QED BY <2>1, <3>1, <3>6 DEF ReportInv, TickedOps, RecordedOps, Ticked
  <2>5. CASE UNCHANGED vars
    BY <2>5 DEF ReportInv, vars, TickedOps, RecordedOps, Ticked
  <2> QED BY <2>2, <2>3, <2>4, <2>5 DEF Next
<1>3. Spec => []AInv
  BY MergedFromClients
<1> QED BY <1>1, <1>2, <1>3, PTL DEF Spec

(* What an analysis reports adds up: the operations and the errors of the  *)
(* types to those it is made of, those of the hosts to no more than those  *)
(* of the type, and the segments are as few as was wanted.                 *)
THEOREM ReportsAddUp == Spec => []AggregateAccounts
<1>1. ReportInv => AggregateAccounts
  <2> SUFFICES ASSUME ReportInv, pc = "done" PROVE AggregateAccounts
    BY DEF AggregateAccounts
  <2>1. PICK U : Listed(U, ops)
    BY DEF ReportInv
  <2> DEFINE sel == Selected(ops, flags)
             pf == Prefiltered(ops, flags)
  <2>2. aggr = Aggregate(sel, pf, flags.skip)
    BY DEF ReportInv
  <2>3. Listed(U, sel)
    BY <2>1, SelectedListed
  <2>4. pf \in BOOLEAN
    BY DEF Prefiltered
  <2> HIDE DEF sel, pf
  <2>5. Accounted(aggr, sel, flags.skip)
    BY <2>2, <2>3, <2>4, AggregateReports
  <2> QED BY <2>5 DEF Accounted, AggregateAccounts, TypeFacts, sel
<1>2. Spec => []ReportInv
  BY ReportsAreResults
<1> QED BY <1>1, <1>2, PTL

(* No report counts a request in two ranges of sizes while one request is  *)
(* the share of a range (SplitSizes, pkg/bench/ops.go): it takes a share   *)
(* of two requests to violate SizesCountedOnce.                            *)
THEOREM FewSizesCountedOnce ==
    Spec => [](pc = "done" => \A a \in aggr.types : ~a.skipped => FewSizesOnce(a))
<1> DEFINE Counted == \A a \in aggr.types : ~a.skipped => FewSizesOnce(a)
<1>1. ReportInv => (pc = "done" => Counted)
  <2> SUFFICES ASSUME ReportInv, pc = "done" PROVE Counted
    OBVIOUS
  <2>1. PICK U : Listed(U, ops)
    BY DEF ReportInv
  <2> DEFINE sel == Selected(ops, flags)
             pf == Prefiltered(ops, flags)
  <2>2. aggr = Aggregate(sel, pf, flags.skip)
    BY DEF ReportInv
  <2>3. Listed(U, sel)
    BY <2>1, SelectedListed
  <2>4. pf \in BOOLEAN
    BY DEF Prefiltered
  <2> HIDE DEF sel, pf
  <2>5. Accounted(aggr, sel, flags.skip)
    BY <2>2, <2>3, <2>4, AggregateReports
  <2> QED BY <2>5 DEF Accounted, TypeFacts
<1>2. Spec => []ReportInv
  BY ReportsAreResults
<1> QED BY <1>1, <1>2, PTL
-----------------------------------------------------------------------------
(* Operations that differ in nothing but the names of files and clients,   *)
(* where the same are named the same and others differently.               *)
Same(a, b) ==
    /\ a.type = b.type /\ a.start = b.start /\ a.end = b.end /\ a.fb = b.fb
    /\ a.err = b.err /\ a.size = b.size /\ a.thread = b.thread /\ a.host = b.host
Clocked(op) == op.start \in Int /\ op.end \in Int /\ op.fb \in Int /\ op.size \in Nat
Alike(o, q) ==
    /\ Len(o) \in Nat /\ Len(q) = Len(o)
    /\ o = [i \in 1 .. Len(o) |-> o[i]] /\ q = [i \in 1 .. Len(o) |-> q[i]]
    /\ \A i \in 1 .. Len(o) : Same(o[i], q[i]) /\ Clocked(o[i])
    /\ \A i, j \in 1 .. Len(o) : /\ o[i].file = o[j].file <=> q[i].file = q[j].file
                                 /\ o[i].client = o[j].client <=> q[i].client = q[j].client

(* What o has at the c positions p.                                        *)
ElementsAt(o, c, p) == [k \in 1 .. c |-> o[p[k]]]

(* The same positions of them are alike ...                                *)
LEMMA AlikeTaken ==
    ASSUME NEW o, NEW q, Alike(o, q), NEW c \in Nat, NEW p,
           \A k \in 1 .. c : p[k] \in 1 .. Len(o)
    PROVE  Alike(ElementsAt(o, c, p), ElementsAt(q, c, p))
<1> DEFINE g(k) == o[p[k]]
           h(k) == q[p[k]]
           a == [k \in 1 .. c |-> g(k)]
           b == [k \in 1 .. c |-> h(k)]
<1>1. \A k \in 1 .. c : Same(g(k), h(k)) /\ Clocked(g(k))
  BY DEF Alike
<1>2. \A k, l \in 1 .. c : /\ g(k).file = g(l).file <=> h(k).file = h(l).file
                           /\ g(k).client = g(l).client <=> h(k).client = h(l).client
  BY DEF Alike
<1> HIDE DEF g, h
<1>3. Len(a) = c /\ Len(b) = c
  <2> DEFINE W == {g(k) : k \in 1 .. c}
             X == {h(k) : k \in 1 .. c}
  <2>1. (\A k \in 1 .. c : g(k) \in W) /\ \A k \in 1 .. c : h(k) \in X
    OBVIOUS
  <2> HIDE DEF W, X
  <2>2. a \in Seq(W) /\ Len(a) = c
    BY <2>1
  <2>3. b \in Seq(X) /\ Len(b) = c
    BY <2>1
  <2> QED BY <2>2, <2>3
<1>4. \A k \in 1 .. c : a[k] = g(k) /\ b[k] = h(k)
  OBVIOUS
<1>5. a = [k \in 1 .. c |-> a[k]] /\ b = [k \in 1 .. c |-> b[k]]
  OBVIOUS
<1> HIDE DEF a, b
<1>6. Alike(a, b)
  BY <1>1, <1>2, <1>3, <1>4, <1>5 DEF Alike
<1> QED BY <1>6 DEF a, b, g, h, ElementsAt

(* ... in whatever order.                                                  *)
LEMMA AlikeArranged ==
    ASSUME NEW o, NEW q, Alike(o, q), NEW S \in SUBSET (1 .. Len(o)), NEW key,
           \A i \in S : key[i] \in Int
    PROVE  Alike(Arranged(o, S, key), Arranged(q, S, key))
<1> DEFINE c == Cardinality(S)
           p == Order(S, key)
<1>1. Keyed(S, Len(o), key)
  BY DEF Keyed, Alike
<1>2. Orders(p, c, o, S, key)
  BY <1>1, ArrangedInOrder
<1>3. Arranged(o, S, key) = ElementsAt(o, c, p) /\ Arranged(q, S, key) = ElementsAt(q, c, p)
  BY DEF Arranged, ElementsAt
<1> HIDE DEF c, p
<1>4. c \in Nat /\ \A k \in 1 .. c : p[k] \in 1 .. Len(o)
  BY <1>2 DEF Orders
<1> QED BY <1>3, <1>4, AlikeTaken

(* The same holds for a part that keeps its order.                         *)
LEMMA AlikeKeep ==
    ASSUME NEW o, NEW q, Alike(o, q), NEW S \in SUBSET (1 .. Len(o))
    PROVE  Alike(Keep(o, S), Keep(q, S))
<1> DEFINE key == [i \in 1 .. Len(o) |-> i]
<1>1. Len(q) = Len(o) /\ \A i \in S : key[i] \in Int
  BY DEF Alike
<1>2. Keep(o, S) = Arranged(o, S, key) /\ Keep(q, S) = Arranged(q, S, key)
  BY <1>1 DEF Keep, Idx
<1> HIDE DEF key
<1> QED BY <1>1, <1>2, AlikeArranged

(* What they have in common, for short.                                    *)
LEMMA AlikeIs ==
    ASSUME NEW o, NEW q, Alike(o, q)
    PROVE  /\ Len(o) \in Nat /\ Len(q) = Len(o) /\ Idx(o) = 1 .. Len(o) /\ Idx(q) = Idx(o)
           /\ \A i \in Idx(o) : Same(o[i], q[i]) /\ Clocked(o[i])
           /\ o = <<>> => q = <<>>
           /\ q = <<>> => o = <<>>
           /\ o # <<>> => Len(o) # 0 /\ 1 \in Idx(o) /\ Len(o) \in Idx(o)
<1>1. /\ Len(o) \in Nat /\ Len(q) = Len(o) /\ Idx(o) = 1 .. Len(o) /\ Idx(q) = Idx(o)
      /\ \A i \in Idx(o) : Same(o[i], q[i]) /\ Clocked(o[i])
      /\ o = [i \in 1 .. Len(o) |-> o[i]] /\ q = [i \in 1 .. Len(o) |-> q[i]]
  BY DEF Alike, Idx
<1>2. o = <<>> => Len(o) = 0
  OBVIOUS
<1>3. q = <<>> => Len(o) = 0
  BY <1>1
<1>4. Len(o) = 0 => o = <<>> /\ q = <<>>
  <2> SUFFICES ASSUME Len(o) = 0 PROVE o = <<>> /\ q = <<>>
    OBVIOUS
  <2>1. 1 .. Len(o) = {}
    OBVIOUS
  <2> DEFINE I == 1 .. Len(o)
  <2> HIDE DEF I
  <2>2. o = [i \in I |-> o[i]] /\ q = [i \in I |-> q[i]] /\ I = {}
    BY <1>1, <2>1 DEF I
  <2> QED BY <2>2
<1> QED BY <1>1, <1>2, <1>3, <1>4

(* The filters and the sorts keep them alike.                              *)
LEMMA AlikeFilter ==
    ASSUME NEW o, NEW q, Alike(o, q), NEW t, NEW from, NEW to
    PROVE  /\ Alike(FilterByOp(o, t), FilterByOp(q, t))
           /\ Alike(FilterByEndpoint(o, t), FilterByEndpoint(q, t))
           /\ Alike(FilterByHasTTFB(o), FilterByHasTTFB(q))
           /\ Alike(FilterErrors(o), FilterErrors(q))
           /\ Alike(FilterSuccessful(o), FilterSuccessful(q))
           /\ Alike(FilterInsideRange(o, from, to), FilterInsideRange(q, from, to))
<1>1. Idx(o) = 1 .. Len(o) /\ Idx(q) = Idx(o) /\ \A i \in Idx(o) : Same(o[i], q[i])
  BY AlikeIs
<1>2. ASSUME NEW S, NEW R, S \subseteq Idx(o), S = R PROVE Alike(Keep(o, S), Keep(q, R))
  <2>1. S \in SUBSET (1 .. Len(o))
    BY <1>1, <1>2
  <2> QED BY <1>2, <2>1, AlikeKeep
<1>3. Alike(FilterByOp(o, t), FilterByOp(q, t))
  <2> DEFINE S == {i \in Idx(o) : t \in {o[i].type, ""}}
             R == {i \in Idx(q) : t \in {q[i].type, ""}}
  <2>1. S \subseteq Idx(o) /\ S = R
    BY <1>1 DEF Same
  <2> HIDE DEF S, R
  <2>2. Alike(Keep(o, S), Keep(q, R))
    BY <1>2, <2>1
  <2> QED BY <2>2 DEF FilterByOp, S, R
<1>4. Alike(FilterByEndpoint(o, t), FilterByEndpoint(q, t))
  <2> DEFINE S == {i \in Idx(o) : o[i].host = t}
             R == {i \in Idx(q) : q[i].host = t}
  <2>1. S \subseteq Idx(o) /\ S = R
    BY <1>1 DEF Same
  <2> HIDE DEF S, R
  <2>2. Alike(Keep(o, S), Keep(q, R))
    BY <1>2, <2>1
  <2> QED BY <2>2 DEF FilterByEndpoint, S, R
<1>5. Alike(FilterByHasTTFB(o), FilterByHasTTFB(q))
  <2> DEFINE S == {i \in Idx(o) : o[i].fb # NoTime}
             R == {i \in Idx(q) : q[i].fb # NoTime}
  <2>1. S \subseteq Idx(o) /\ S = R
    BY <1>1 DEF Same
  <2> HIDE DEF S, R
  <2>2. Alike(Keep(o, S), Keep(q, R))
    BY <1>2, <2>1
  <2> QED BY <2>2 DEF FilterByHasTTFB, S, R
<1>6. Alike(FilterErrors(o), FilterErrors(q))
  <2> DEFINE S == {i \in Idx(o) : o[i].err}
             R == {i \in Idx(q) : q[i].err}
  <2>1. S \subseteq Idx(o) /\ S = R
    BY <1>1, Zenon DEF Same
  <2> HIDE DEF S, R
  <2>2. Alike(Keep(o, S), Keep(q, R))
    BY <1>2, <2>1
  <2> QED BY <2>2 DEF FilterErrors, S, R
<1>7. Alike(FilterSuccessful(o), FilterSuccessful(q))
  <2> DEFINE S == {i \in Idx(o) : ~o[i].err}
             R == {i \in Idx(q) : ~q[i].err}
  <2>1. S \subseteq Idx(o) /\ S = R
    BY <1>1, Zenon DEF Same
  <2> HIDE DEF S, R
  <2>2. Alike(Keep(o, S), Keep(q, R))
    BY <1>2, <2>1
  <2> QED BY <2>2 DEF FilterSuccessful, S, R
<1>8. Alike(FilterInsideRange(o, from, to), FilterInsideRange(q, from, to))
  <2> DEFINE S == {i \in Idx(o) : o[i].start >= from /\ o[i].end <= to}
             R == {i \in Idx(q) : q[i].start >= from /\ q[i].end <= to}
  <2>1. S \subseteq Idx(o) /\ S = R
    BY <1>1 DEF Same
  <2> HIDE DEF S, R
  <2>2. Alike(Keep(o, S), Keep(q, R))
    BY <1>2, <2>1
  <2> QED BY <2>2 DEF FilterInsideRange, S, R
<1> QED BY <1>3, <1>4, <1>5, <1>6, <1>7, <1>8

(* They are sorted the same way.                                           *)
LEMMA AlikeSorted ==
    ASSUME NEW o, NEW q, Alike(o, q)
    PROVE  /\ Alike(SortByStartTime(o), SortByStartTime(q))
           /\ Alike(SortByDuration(o), SortByDuration(q))
           /\ Alike(SortByTTFB(o), SortByTTFB(q))
           /\ Alike(SortByThroughput(o), SortByThroughput(q))
<1>1. /\ Idx(o) = 1 .. Len(o) /\ Idx(q) = Idx(o) /\ Len(o) \in Nat
      /\ \A i \in Idx(o) : Same(o[i], q[i]) /\ Clocked(o[i])
  BY AlikeIs
<1>2. ASSUME NEW k, NEW l, k = l, \A i \in Idx(o) : k[i] \in Int
      PROVE  Alike(Arranged(o, Idx(o), k), Arranged(q, Idx(q), l))
  <2>1. 1 .. Len(o) \in SUBSET (1 .. Len(o)) /\ \A i \in 1 .. Len(o) : k[i] \in Int
    BY <1>1, <1>2
  <2> QED BY <1>1, <1>2, <2>1, AlikeArranged
<1>3. Alike(SortByStartTime(o), SortByStartTime(q))
  <2> DEFINE k == [i \in Idx(o) |-> o[i].start]
             l == [i \in Idx(q) |-> q[i].start]
  <2>1. k = l /\ \A i \in Idx(o) : k[i] \in Int
    BY <1>1 DEF Same, Clocked
  <2> HIDE DEF k, l
  <2>2. Alike(Arranged(o, Idx(o), k), Arranged(q, Idx(q), l))
    BY <1>2, <2>1
  <2> QED BY <2>2 DEF SortByStartTime, k, l
<1>4. Alike(SortByDuration(o), SortByDuration(q))
  <2> DEFINE k == [i \in Idx(o) |-> Dur(o[i])]
             l == [i \in Idx(q) |-> Dur(q[i])]
  <2>1. k = l /\ \A i \in Idx(o) : k[i] \in Int
    BY <1>1 DEF Same, Clocked, Dur
  <2> HIDE DEF k, l
  <2>2. Alike(Arranged(o, Idx(o), k), Arranged(q, Idx(q), l))
    BY <1>2, <2>1
  <2> QED BY <2>2 DEF SortByDuration, k, l
<1>5. Alike(SortByTTFB(o), SortByTTFB(q))
  <2> DEFINE k == [i \in Idx(o) |-> o[i].fb - o[i].start]
             l == [i \in Idx(q) |-> q[i].fb - q[i].start]
  <2>1. k = l /\ \A i \in Idx(o) : k[i] \in Int
    BY <1>1 DEF Same, Clocked
  <2> HIDE DEF k, l
  <2>2. Alike(Arranged(o, Idx(o), k), Arranged(q, Idx(q), l))
    BY <1>2, <2>1
  <2> QED BY <2>2 DEF SortByTTFB, k, l
<1>6. Alike(SortByThroughput(o), SortByThroughput(q))
  <2> DEFINE A(i) == {j \in Idx(o) : Faster(o[j], o[i])}
             B(i) == {j \in Idx(q) : Faster(q[j], q[i])}
             k == [i \in Idx(o) |-> Cardinality(A(i))]
             l == [i \in Idx(q) |-> Cardinality(B(i))]
  <2>1. \A i, j \in Idx(o) : Faster(o[j], o[i]) <=> Faster(q[j], q[i])
    BY <1>1 DEF Same, Faster, Dur
  <2>2. \A i \in Idx(o) : A(i) = B(i) /\ A(i) \in SUBSET (1 .. Len(o))
    BY <1>1, <2>1
  <2> HIDE DEF A, B
  <2>3. \A i \in Idx(o) : Cardinality(A(i)) \in Nat
    BY <1>1, <2>2, PositionsFinite
  <2>4. k = l /\ \A i \in Idx(o) : k[i] \in Int
    BY <1>1, <2>2, <2>3
  <2> HIDE DEF k, l
  <2>5. Alike(Arranged(o, Idx(o), k), Arranged(q, Idx(q), l))
    BY <1>2, <2>4
  <2> QED BY <2>5 DEF SortByThroughput, k, l, A, B
<1> QED BY <1>3, <1>4, <1>5, <1>6

(* What is read of them, without the names, is the same.                   *)
LEMMA AlikeNames ==
    ASSUME NEW o, NEW q, Alike(o, q)
    PROVE  /\ OpTypes(o) = OpTypes(q) /\ Endpoints(o) = Endpoints(q) /\ Threads(o) = Threads(q)
           /\ HasError(o) <=> HasError(q)
           /\ MultipleSizes(o) <=> MultipleSizes(q)
<1>1. /\ Idx(q) = Idx(o) /\ \A i \in Idx(o) : Same(o[i], q[i])
      /\ o = <<>> <=> q = <<>>
      /\ o # <<>> => 1 \in Idx(o)
  BY AlikeIs
<1>2. OpTypes(o) = OpTypes(q)
  BY <1>1 DEF Same, OpTypes
<1>3. Endpoints(o) = Endpoints(q)
  BY <1>1 DEF Same, Endpoints
<1>4. {o[i].thread : i \in Idx(o)} = {q[i].thread : i \in Idx(q)}
  BY <1>1 DEF Same
<1>5. Threads(o) = Threads(q)
  BY <1>1, <1>4 DEF Threads
<1>6. HasError(o) <=> HasError(q)
  BY <1>1, Zenon DEF Same, HasError
<1>7. MultipleSizes(o) <=> MultipleSizes(q)
  <2>1. CASE o = <<>>
    <3>1. Idx(o) = {}
      BY <2>1 DEF Idx
    <3> QED BY <1>1, <3>1 DEF MultipleSizes
  <2>2. CASE o # <<>>
    <3>1. \A i \in Idx(o) : o[i].size = q[i].size /\ (o[i].err <=> q[i].err)
      BY <1>1, Zenon DEF Same
    <3>2. 1 \in Idx(o)
      BY <1>1, <2>2
    <3> QED BY <1>1, <3>1, <3>2, Zenon DEF MultipleSizes
  <2> QED BY <2>1, <2>2
<1> QED BY <1>2, <1>3, <1>5, <1>6, <1>7

(* The ranges of times and of sizes are the same.                          *)
LEMMA AlikeTimes ==
    ASSUME NEW o, NEW q, Alike(o, q), NEW allThreads
    PROVE  /\ TimeRange(o) = TimeRange(q) /\ Duration(o) = Duration(q)
           /\ ActiveTimeRange(o, allThreads) = ActiveTimeRange(q, allThreads)
           /\ MinMaxSize(o) = MinMaxSize(q)
<1>1. /\ Idx(q) = Idx(o)
      /\ \A i \in Idx(o) : /\ o[i].start = q[i].start /\ o[i].end = q[i].end
                           /\ o[i].size = q[i].size /\ o[i].thread = q[i].thread
      /\ o = <<>> <=> q = <<>>
      /\ o # <<>> => 1 \in Idx(o)
  BY AlikeIs DEF Same
<1>2. {o[i].start : i \in Idx(o)} = {q[i].start : i \in Idx(q)}
  BY <1>1
<1>3. {o[i].end : i \in Idx(o)} = {q[i].end : i \in Idx(q)}
  BY <1>1
<1>4. {o[i].size : i \in Idx(o)} = {q[i].size : i \in Idx(q)}
  BY <1>1
<1>5. TimeRange(o) = TimeRange(q)
  BY <1>1, <1>2, <1>3, Zenon DEF TimeRange
<1>6. MinMaxSize(o) = MinMaxSize(q)
  BY <1>4, Zenon DEF MinMaxSize
<1>7. o # <<>> => ActiveExceptOne(o) = ActiveExceptOne(q)
  <2> SUFFICES ASSUME o # <<>> PROVE ActiveExceptOne(o) = ActiveExceptOne(q)
    OBVIOUS
  <2>1. o[1].start = q[1].start /\ o[1].end = q[1].end
    BY <1>1
  <2> DEFINE L(x) == {o[i].start : i \in {j \in Idx(o) : o[j].start > x}}
             M(x) == {q[i].start : i \in {j \in Idx(q) : q[j].start > x}}
             V(x) == {o[i].end : i \in {j \in Idx(o) : o[j].end < x}}
             W(x) == {q[i].end : i \in {j \in Idx(q) : q[j].end < x}}
  <2>2. \A x : L(x) = M(x)
    BY <1>1
  <2>3. \A x : V(x) = W(x)
    BY <1>1
  <2> DEFINE a == Min({o[1].start} \cup {o[i].end : i \in Idx(o)})
             b == Max({o[1].end} \cup {o[i].start : i \in Idx(o)})
             c == Min({q[1].start} \cup {q[i].end : i \in Idx(q)})
             d == Max({q[1].end} \cup {q[i].start : i \in Idx(q)})
  <2>4. a = c /\ b = d
    BY <1>2, <1>3, <2>1, Zenon
  <2>5. /\ ActiveExceptOne(o) =
             OrNothing(Interval(Min({b} \cup L(a)), Max({a} \cup V(b))))
        /\ ActiveExceptOne(q) =
             OrNothing(Interval(Min({d} \cup M(c)), Max({c} \cup W(d))))
    BY Zenon DEF ActiveExceptOne
  <2> HIDE DEF a, b, c, d, L, M, V, W
  <2> QED BY <2>2, <2>3, <2>4, <2>5
<1>8. ActiveAllThreads(o) = ActiveAllThreads(q)
  <2> DEFINE Of(t) == {i \in Idx(o) : o[i].thread = t}
             By(t) == {i \in Idx(q) : q[i].thread = t}
             ts == {o[i].thread : i \in Idx(o)}
             us == {q[i].thread : i \in Idx(q)}
             A(t) == Min({o[i].end : i \in Of(t)})
             B(t) == Min({q[i].end : i \in By(t)})
             C(t) == Max({o[i].start : i \in Of(t)})
             D(t) == Max({q[i].start : i \in By(t)})
  <2>1. ts = us /\ \A t : Of(t) = By(t) /\ Of(t) \subseteq Idx(o)
    BY <1>1
  <2>2. \A t : A(t) = B(t)
    <3> SUFFICES ASSUME NEW t PROVE A(t) = B(t)
      OBVIOUS
    <3>1. Of(t) = By(t) /\ \A i \in Of(t) : o[i].end = q[i].end
      BY <1>1, <2>1
    <3> HIDE DEF Of, By
    <3>2. {o[i].end : i \in Of(t)} = {q[i].end : i \in By(t)}
      BY <3>1
    <3> QED BY <3>2
  <2>3. \A t : C(t) = D(t)
    <3> SUFFICES ASSUME NEW t PROVE C(t) = D(t)
      OBVIOUS
    <3>1. Of(t) = By(t) /\ \A i \in Of(t) : o[i].start = q[i].start
      BY <1>1, <2>1
    <3> HIDE DEF Of, By
    <3>2. {o[i].start : i \in Of(t)} = {q[i].start : i \in By(t)}
      BY <3>1
    <3> QED BY <3>2
  <2>4. /\ ActiveAllThreads(o) =
             OrNothing(Interval(Max({A(t) : t \in ts}), Min({C(t) : t \in ts})))
        /\ ActiveAllThreads(q) =
             OrNothing(Interval(Max({B(t) : t \in us}), Min({D(t) : t \in us})))
    BY Zenon DEF ActiveAllThreads
  <2> HIDE DEF A, B, C, D, ts, us
  <2>5. {A(t) : t \in ts} = {B(t) : t \in us} /\ {C(t) : t \in ts} = {D(t) : t \in us}
    BY <2>1, <2>2, <2>3
  <2> QED BY <2>4, <2>5
<1>9. ActiveTimeRange(o, allThreads) = ActiveTimeRange(q, allThreads)
  BY <1>1, <1>7, <1>8, Zenon DEF ActiveTimeRange
<1>10. Duration(o) = Duration(q)
  BY <1>5 DEF Duration
<1> QED BY <1>5, <1>6, <1>9, <1>10

(* They are mixed or they are not.                                         *)
LEMMA AlikeMixed ==
    ASSUME NEW o, NEW q, Alike(o, q)
    PROVE  isMixed(o) <=> isMixed(q)
<1>1. OpTypes(o) = OpTypes(q)
  BY AlikeNames
<1> DEFINE R(t) == TimeRange(FilterByOp(o, t))
           P(t) == TimeRange(FilterByOp(q, t))
<1>2. \A t : R(t) = P(t)
  <2> SUFFICES ASSUME NEW t PROVE R(t) = P(t)
    OBVIOUS
  <2>1. Alike(FilterByOp(o, t), FilterByOp(q, t))
    BY AlikeFilter
  <2> QED BY <2>1, AlikeTimes
<1>3. /\ isMixed(o) <=> \E a, b \in OpTypes(o) : a # b /\ Overlaps(R(a), R(b))
      /\ isMixed(q) <=> \E a, b \in OpTypes(q) : a # b /\ Overlaps(P(a), P(b))
  BY Zenon DEF isMixed
<1> HIDE DEF R, P
<1> QED BY <1>1, <1>2, <1>3

(* A segment takes the same from them.                                     *)
LEMMA AlikeSegment ==
    ASSUME NEW o, NEW q, Alike(o, q), NEW s
    PROVE  FillSegment(o, s) = FillSegment(q, s)
<1>1. /\ Len(q) = Len(o) /\ Idx(q) = Idx(o) /\ Len(o) \in Nat /\ Idx(o) = 1 .. Len(o)
      /\ \A i \in Idx(o) : Same(o[i], q[i])
      /\ o # <<>> => 1 \in Idx(o)
  BY AlikeIs
<1>2. /\ \A i \in Idx(o) : o[i].start = q[i].start /\ o[i].end = q[i].end
      /\ \A i \in Idx(o) : o[i].size = q[i].size /\ o[i].type = q[i].type
      /\ \A i \in Idx(o) : o[i].err = q[i].err
  BY <1>1, Zenon DEF Same
<1>3. FirstEntry(o, s) = FirstEntry(q, s) /\ FirstEntry(o, s) .. Len(o) \subseteq Idx(o)
  <2> DEFINE A == {i \in Idx(o) : \A j \in 1 .. i : o[j].end <= s.start}
             B == {i \in Idx(q) : \A j \in 1 .. i : q[j].end <= s.start}
  <2>1. \A i \in Idx(o) : \A j \in 1 .. i : j \in Idx(o)
    BY <1>1
  <2>2. A = B
    BY <1>1, <1>2, <2>1
  <2>3. FirstEntry(o, s) = IF A = {} THEN 1 ELSE Max(A)
    BY DEF FirstEntry
  <2>4. FirstEntry(q, s) = IF B = {} THEN 1 ELSE Max(B)
    BY DEF FirstEntry
  <2>5. A # {} => Max(A) \in A
    <3>1. A \in SUBSET Int /\ Len(o) \in Int /\ \A x \in A : x <= Len(o)
      BY <1>1
    <3> HIDE DEF A
    <3> QED BY <3>1, MaxIs
  <2>6. A \subseteq Idx(o)
    OBVIOUS
  <2> HIDE DEF A, B
  <2> QED BY <1>1, <2>2, <2>3, <2>4, <2>5, <2>6
<1> DEFINE J == FirstEntry(o, s) .. Len(o)
<1>4. \A i \in J : i \in Idx(o)
  BY <1>3
<1>5. J = FirstEntry(q, s) .. Len(q)
  BY <1>1, <1>3
<1> HIDE DEF J
<1>6. \A i \in Idx(o) : /\ InSegment(o[i], s) <=> InSegment(q[i], s)
                        /\ Whole(o[i], s) <=> Whole(q[i], s)
                        /\ StartedIn(o[i], s) <=> StartedIn(q[i], s)
                        /\ EndedIn(o[i], s) <=> EndedIn(q[i], s)
  BY <1>2 DEF InSegment, Whole, StartedIn, EndedIn
<1>7. \A i \in Idx(o) : Bytes(o[i], s) = Bytes(q[i], s)
  <2> SUFFICES ASSUME NEW i \in Idx(o) PROVE Bytes(o[i], s) = Bytes(q[i], s)
    OBVIOUS
  <2>1. PartSize(o[i], s) = PartSize(q[i], s)
    BY <1>2, Zenon DEF PartSize, Dur
  <2> QED BY <1>2, <1>6, <2>1, Zenon DEF Bytes
<1> DEFINE in == {i \in J : InSegment(o[i], s)}
           jn == {i \in J : InSegment(q[i], s)}
<1>8. in = jn /\ \A i \in in : i \in Idx(o)
  BY <1>4, <1>6
<1> HIDE DEF in, jn
<1> DEFINE full == {i \in in : Whole(o[i], s) /\ ~o[i].err}
           part == {i \in in : ~Whole(o[i], s)}
           qfull == {i \in jn : Whole(q[i], s) /\ ~q[i].err}
           qpart == {i \in jn : ~Whole(q[i], s)}
<1>9. full = qfull /\ part = qpart /\ \A i \in part : i \in Idx(o)
  BY <1>2, <1>6, <1>8, Zenon
<1> DEFINE A == [i \in in |-> Bytes(o[i], s)]
           B == [i \in jn |-> Bytes(q[i], s)]
<1>10. A = B
  BY <1>7, <1>8
<1>11. {i \in in : o[i].err /\ EndedIn(o[i], s)} = {i \in jn : q[i].err /\ EndedIn(q[i], s)}
  BY <1>2, <1>6, <1>8, Zenon
<1> HIDE DEF A, B, full, part, qfull, qpart
<1>12. {i \in part : StartedIn(o[i], s)} = {i \in qpart : StartedIn(q[i], s)}
  BY <1>6, <1>9
<1>13. {i \in part : EndedIn(o[i], s)} = {i \in qpart : EndedIn(q[i], s)}
  BY <1>6, <1>9
<1>14. FillSegment(o, s) =
         [s EXCEPT !.bytes = SumAt(in, A, Len(o)),
                   !.full = Cardinality(full), !.partial = Cardinality(part),
                   !.started = Cardinality(full \cup {i \in part : StartedIn(o[i], s)}),
                   !.ended = Cardinality(full \cup {i \in part : EndedIn(o[i], s)}),
                   !.errors = Cardinality({i \in in : o[i].err /\ EndedIn(o[i], s)})]
  BY Zenon DEF FillSegment, A, full, part, in, J
<1>15. FillSegment(q, s) =
         [s EXCEPT !.bytes = SumAt(jn, B, Len(q)),
                   !.full = Cardinality(qfull), !.partial = Cardinality(qpart),
                   !.started = Cardinality(qfull \cup {i \in qpart : StartedIn(q[i], s)}),
                   !.ended = Cardinality(qfull \cup {i \in qpart : EndedIn(q[i], s)}),
                   !.errors = Cardinality({i \in jn : q[i].err /\ EndedIn(q[i], s)})]
  <2>1. FillSegment(q, s) =
          LET i0 == {i \in FirstEntry(q, s) .. Len(q) : InSegment(q[i], s)}
              f0 == {i \in i0 : Whole(q[i], s) /\ ~q[i].err}
              p0 == {i \in i0 : ~Whole(q[i], s)}
          IN [s EXCEPT !.bytes = SumAt(i0, [i \in i0 |-> Bytes(q[i], s)], Len(q)),
                   !.full = Cardinality(f0), !.partial = Cardinality(p0),
                   !.started = Cardinality(f0 \cup {i \in p0 : StartedIn(q[i], s)}),
                   !.ended = Cardinality(f0 \cup {i \in p0 : EndedIn(q[i], s)}),
                   !.errors = Cardinality({i \in i0 : q[i].err /\ EndedIn(q[i], s)})]
    BY Zenon DEF FillSegment
  <2>2. jn = {i \in FirstEntry(q, s) .. Len(q) : InSegment(q[i], s)}
    BY <1>5 DEF jn
  <2> QED BY <2>1, <2>2, Zenon DEF B, qfull, qpart
<1> QED BY <1>1, <1>8, <1>9, <1>10, <1>11, <1>12, <1>13, <1>14, <1>15, Zenon

LEMMA AlikeSegments ==
    ASSUME NEW o, NEW q, Alike(o, q), NEW from, NEW d, NEW allThreads, NEW m, NEW n, m = n
    PROVE  Segment(o, from, d, allThreads, m) = Segment(q, from, d, allThreads, n)
<1> DEFINE s == SortByStartTime(o)
           u == SortByStartTime(q)
           r == ActiveTimeRange(s, allThreads)
           first == Max({from, r.start})
           c == IF r.end - d <= first THEN 0 ELSE (r.end - first - 1) \div d
           A(k) == [NoSegment EXCEPT !.type = IF m THEN "" ELSE s[1].type,
                                     !.start = first + (k - 1) * d,
                                     !.ends = first + k * d]
           B(k) == [NoSegment EXCEPT !.type = IF m THEN "" ELSE u[1].type,
                                     !.start = first + (k - 1) * d,
                                     !.ends = first + k * d]
<1>1. Alike(s, u)
  BY AlikeSorted
<1>2. ActiveTimeRange(u, allThreads) = r
  BY <1>1, AlikeTimes
<1>3. s[1].type = u[1].type
  <2> HIDE DEF s, u
  <2>1. CASE s = <<>>
    BY <1>1, <2>1, AlikeIs
  <2>2. CASE s # <<>>
    <3>1. Same(s[1], u[1])
      BY <1>1, <2>2, AlikeIs
    <3> QED BY <3>1 DEF Same
  <2> QED BY <2>1, <2>2
<1>4. Segment(o, from, d, allThreads, m) =
        IF d <= 0 THEN <<>> ELSE [k \in 1 .. c |-> FillSegment(s, A(k))]
  BY Zenon DEF Segment
<1>5. Segment(q, from, d, allThreads, n) =
        IF d <= 0 THEN <<>> ELSE [k \in 1 .. c |-> FillSegment(u, B(k))]
  BY <1>2, Zenon DEF Segment
<1>6. \A k : A(k) = B(k)
  <2> HIDE DEF s, u, first
  <2> QED BY <1>3
<1> HIDE DEF s, u, c, A, B
<1>7. \A k : FillSegment(s, A(k)) = FillSegment(u, B(k))
  BY <1>1, <1>6, AlikeSegment
<1> QED BY <1>4, <1>5, <1>7

(* All of them make the same segment.                                      *)
LEMMA AlikeTotal ==
    ASSUME NEW o, NEW q, Alike(o, q), NEW allThreads
    PROVE  Total(o, allThreads) = Total(q, allThreads)
<1>1. ActiveTimeRange(o, allThreads) = ActiveTimeRange(q, allThreads)
  BY AlikeTimes
<1> DEFINE m == isMixed(o)
           n == isMixed(q)
<1>2. m = n
  <2>1. m \in BOOLEAN /\ n \in BOOLEAN
    BY DEF isMixed
  <2>2. m <=> n
    BY AlikeMixed
  <2> HIDE DEF m, n
  <2> QED BY <2>1, <2>2
<1> HIDE DEF m, n
<1>3. \A f, d : Segment(o, f, d, allThreads, m) = Segment(q, f, d, allThreads, n)
  BY <1>2, AlikeSegments
<1> QED BY <1>1, <1>3, Zenon DEF Total, m, n

(* Their percentiles are the same too.                                     *)
LEMMA AlikeMedian ==
    ASSUME NEW s, NEW u, Alike(s, u), s # <<>>, NEW p \in Percents
    PROVE  Same(Median(s, p), Median(u, p))
<1>1. Len(s) \in Nat /\ Len(s) # 0 /\ Len(u) = Len(s) /\ Idx(s) = 1 .. Len(s)
  BY AlikeIs
<1> DEFINE n == Len(s)
           x == (2 * n * p + 100) \div 200
<1>2. p \in Nat
  BY DEF Percents
<1>3. x \in Nat
  BY <1>1, <1>2
<1> HIDE DEF x
<1>4. MedianIdx(n, p) = (IF x <= n - 1 THEN x ELSE n - 1) + 1
  <2>1. x \in Int /\ n - 1 \in Int
    BY <1>1, <1>3
  <2>2. Min({x, n - 1}) = IF x <= n - 1 THEN x ELSE n - 1
    BY <2>1, MinTwo
  <2> QED BY <2>2 DEF MedianIdx, x
<1>5. MedianIdx(n, p) \in Idx(s)
  BY <1>1, <1>3, <1>4
<1> HIDE DEF n
<1>6. \A i \in Idx(s) : Same(s[i], u[i])
  BY AlikeIs
<1> QED BY <1>1, <1>5, <1>6 DEF Median, n

(* So are the durations and the times to the first byte that are reported. *)
LEMMA AlikePercentiles ==
    ASSUME NEW o, NEW q, Alike(o, q), NEW from, NEW to
    PROVE  /\ o # <<>> => Percentiles(o) = Percentiles(q)
           /\ TTFB(o, from, to) = TTFB(q, from, to)
<1>2. o # <<>> => Percentiles(o) = Percentiles(q)
  <2> SUFFICES ASSUME o # <<>> PROVE Percentiles(o) = Percentiles(q)
    OBVIOUS
  <2> DEFINE s == SortByDuration(o)
             u == SortByDuration(q)
  <2>1. Alike(s, u)
    BY AlikeSorted
  <2>2. s # <<>>
    <3>1. Len(o) \in Nat /\ Len(o) # 0 /\ Len(s) = Len(o)
      <4>1. Len(o) \in Nat /\ Len(o) # 0 /\ Idx(o) = 1 .. Len(o)
        BY AlikeIs
      <4>2. Len(s) = Cardinality(1 .. Len(o))
        <5> DEFINE c == Cardinality(1 .. Len(o))
                   k == [i \in Idx(o) |-> Dur(o[i])]
                   g(i) == o[Order(Idx(o), k)[i]]
                   W == {g(i) : i \in 1 .. c}
        <5>1. s = [i \in 1 .. c |-> g(i)]
          BY <4>1 DEF SortByDuration, Arranged
        <5>2. c \in Nat
          BY <4>1, PositionsFinite
        <5>3. \A i \in 1 .. c : g(i) \in W
          OBVIOUS
        <5> HIDE DEF s, c, g, W
        <5>4. s \in Seq(W) /\ Len(s) = c
          BY <5>1, <5>2, <5>3
        <5> QED BY <5>4 DEF c
      <4>3. Cardinality(1 .. Len(o)) = Len(o)
        <5>1. 1 \in Int /\ Len(o) \in Int /\ (IF 1 > Len(o) THEN 0 ELSE Len(o) - 1 + 1) = Len(o)
          BY <4>1
        <5> QED BY <5>1, FS_Interval
      <4> QED BY <4>1, <4>2, <4>3
    <3> HIDE DEF s
    <3> QED BY <3>1
  <2> HIDE DEF s, u
  <2>3. \A p \in Percents : Same(Median(s, p), Median(u, p))
    BY AlikeMedian, <2>1, <2>2
  <2>4. \A p \in Percents : Dur(Median(s, p)) = Dur(Median(u, p))
    BY <2>3 DEF Same, Dur
  <2> QED BY <2>4 DEF Percentiles, s, u
<1>3. TTFB(o, from, to) = TTFB(q, from, to)
  <2> DEFINE a == FilterByHasTTFB(o)
             b == FilterByHasTTFB(q)
             c == FilterInsideRange(a, from, to)
             d == FilterInsideRange(b, from, to)
             s == SortByTTFB(c)
             u == SortByTTFB(d)
  <2>1. Alike(a, b)
    BY AlikeFilter
  <2> HIDE DEF a, b
  <2>2. Alike(c, d)
    BY <2>1, AlikeFilter
  <2> HIDE DEF c, d
  <2>3. Alike(s, u)
    BY <2>2, AlikeSorted
  <2>4. TTFB(o, from, to) =
          IF from >= to \/ s = <<>> THEN <<>>
          ELSE [p \in Percents |-> Median(s, p).fb - Median(s, p).start]
    BY DEF TTFB, a, c
  <2>5. TTFB(q, from, to) =
          IF from >= to \/ u = <<>> THEN <<>>
          ELSE [p \in Percents |-> Median(u, p).fb - Median(u, p).start]
    BY DEF TTFB, b, d
  <2> HIDE DEF s, u
  <2>6. s = <<>> <=> u = <<>>
    BY <2>3, AlikeIs
  <2>7. s # <<>> => \A p \in Percents : Same(Median(s, p), Median(u, p))
    BY <2>3, AlikeMedian
  <2>8. s # <<>> => \A p \in Percents : Median(s, p).fb - Median(s, p).start
                                        = Median(u, p).fb - Median(u, p).start
    BY <2>7 DEF Same
  <2> QED BY <2>4, <2>5, <2>6, <2>8
<1> QED BY <1>2, <1>3

(* All values of f at the positions up to n, and another f that keeps      *)
(* apart what was apart.                                                   *)
AllOf(f, n) == {f[i] : i \in 1 .. n}
Renamed(f, g, n) == n \in Nat /\ \A i, j \in 1 .. n : f[i] = f[j] <=> g[i] = g[j]

(* It has as many values.                                                  *)
LEMMA AsManyNames ==
    ASSUME NEW n, NEW f, NEW g, Renamed(f, g, n)
    PROVE  IsFiniteSet(AllOf(f, n)) /\ Cardinality(AllOf(f, n)) = Cardinality(AllOf(g, n))
<1> DEFINE F == {f[i] : i \in 1 .. n}
           G == {g[i] : i \in 1 .. n}
           at == [x \in F |-> CHOOSE i \in 1 .. n : f[i] = x]
           h == [x \in F |-> g[at[x]]]
           p == [i \in 1 .. n |-> f[i]]
<1>0. n \in Nat /\ \A i, j \in 1 .. n : f[i] = f[j] <=> g[i] = g[j]
  BY DEF Renamed
<1>1. p \in Surjection(1 .. n, F)
  BY DEF Surjection
<1>2. IsFiniteSet(1 .. n)
  BY <1>0, PositionsFinite
<1>3. IsFiniteSet(F)
  <2> HIDE DEF p, F
  <2> QED BY <1>1, <1>2, FS_Surjection, Zenon
<1>4. \A x \in F : at[x] \in 1 .. n /\ f[at[x]] = x
  OBVIOUS
<1>5. h \in [F -> G]
  BY <1>4
<1>6. \A x, y \in F : h[x] = h[y] => x = y
  BY <1>0, <1>4
<1>7. \A z \in G : \E x \in F : h[x] = z
  <2> SUFFICES ASSUME NEW i \in 1 .. n PROVE \E x \in F : h[x] = g[i]
    <3> HIDE DEF h, F, at
    <3> QED OBVIOUS
  <2>1. f[i] \in F /\ f[at[f[i]]] = f[i] /\ at[f[i]] \in 1 .. n
    BY <1>0, <1>4
  <2>2. h[f[i]] = g[at[f[i]]]
    BY <2>1
  <2> HIDE DEF at, h, F
  <2> QED BY <1>0, <2>1, <2>2
<1> HIDE DEF h, F, G, at, p
<1>8. h \in Bijection(F, G)
  BY <1>5, <1>6, <1>7 DEF Bijection, Injection, Surjection, IsInjective
<1>9. ExistsBijection(F, G)
  BY <1>8 DEF ExistsBijection
<1>10. Cardinality(F) = Cardinality(G)
  BY <1>3, <1>9, FS_Bijection, Zenon
<1> QED BY <1>3, <1>10 DEF F, G, AllOf

(* They touch as many files, first and last in the same places.            *)
LEMMA AlikeCounts ==
    ASSUME NEW o, NEW q, Alike(o, q)
    PROVE  /\ Cardinality(Clients(o)) = Cardinality(Clients(q))
           /\ IsMultiTouch(o) <=> IsMultiTouch(q)
           /\ Alike(FilterFirst(o), FilterFirst(q))
           /\ Alike(FilterLast(o), FilterLast(q))
<1>1. Len(o) \in Nat /\ Len(q) = Len(o) /\ Idx(q) = Idx(o) /\ Idx(o) = 1 .. Len(o)
  BY AlikeIs
<1>2. Cardinality(Clients(o)) = Cardinality(Clients(q))
  <2> DEFINE f == [i \in 1 .. Len(o) |-> o[i].client]
             g == [i \in 1 .. Len(o) |-> q[i].client]
  <2>1. Renamed(f, g, Len(o))
    BY DEF Alike, Renamed
  <2>2. Clients(o) = AllOf(f, Len(o)) /\ Clients(q) = AllOf(g, Len(o))
    BY <1>1 DEF Clients, AllOf
  <2> HIDE DEF f, g
  <2> QED BY <1>1, <2>1, <2>2, AsManyNames
<1>3. IsMultiTouch(o) <=> IsMultiTouch(q)
  <2> DEFINE f == [i \in 1 .. Len(o) |-> o[i].file]
             g == [i \in 1 .. Len(o) |-> q[i].file]
  <2>1. Renamed(f, g, Len(o))
    BY DEF Alike, Renamed
  <2>2. Files(o) = AllOf(f, Len(o)) /\ Files(q) = AllOf(g, Len(o))
    BY <1>1 DEF Files, AllOf
  <2> HIDE DEF f, g
  <2>3. Cardinality(Files(o)) = Cardinality(Files(q))
    BY <1>1, <2>1, <2>2, AsManyNames
  <2> QED BY <1>1, <2>3 DEF IsMultiTouch
<1> DEFINE s == SortByStartTime(o)
           u == SortByStartTime(q)
<1>4. Alike(s, u)
  BY AlikeSorted
<1>5. FilterFirst(o) = Keep(s, {i \in Idx(s) : \A j \in 1 .. i - 1 : s[j].file # s[i].file})
  BY DEF FilterFirst
<1>6. FilterFirst(q) = Keep(u, {i \in Idx(u) : \A j \in 1 .. i - 1 : u[j].file # u[i].file})
  BY DEF FilterFirst
<1>7. FilterLast(o) =
        Arranged(s, {i \in Idx(s) : \A j \in i + 1 .. Len(s) : s[j].file # s[i].file},
                 [i \in Idx(s) |-> -i])
  BY DEF FilterLast
<1>8. FilterLast(q) =
        Arranged(u, {i \in Idx(u) : \A j \in i + 1 .. Len(u) : u[j].file # u[i].file},
                 [i \in Idx(u) |-> -i])
  BY DEF FilterLast
<1> HIDE DEF s, u
<1>9. /\ Len(s) \in Nat /\ Len(u) = Len(s) /\ Idx(u) = Idx(s) /\ Idx(s) = 1 .. Len(s)
      /\ \A i, j \in 1 .. Len(s) : s[i].file = s[j].file <=> u[i].file = u[j].file
  BY <1>4, AlikeIs DEF Alike
<1>10. Alike(FilterFirst(o), FilterFirst(q))
  <2> DEFINE S == {i \in Idx(s) : \A j \in 1 .. i - 1 : s[j].file # s[i].file}
             R == {i \in Idx(u) : \A j \in 1 .. i - 1 : u[j].file # u[i].file}
  <2>1. \A i \in 1 .. Len(s) : \A j \in 1 .. i - 1 : j \in 1 .. Len(s)
    BY <1>9
  <2>2. S = R /\ S \in SUBSET (1 .. Len(s))
    BY <1>9, <2>1
  <2> HIDE DEF S, R
  <2>3. Alike(Keep(s, S), Keep(u, R))
    BY <1>4, <2>2, AlikeKeep
  <2> QED BY <1>5, <1>6, <2>3 DEF S, R
<1>11. Alike(FilterLast(o), FilterLast(q))
  <2> DEFINE S == {i \in Idx(s) : \A j \in i + 1 .. Len(s) : s[j].file # s[i].file}
             R == {i \in Idx(u) : \A j \in i + 1 .. Len(u) : u[j].file # u[i].file}
             k == [i \in Idx(s) |-> -i]
             l == [i \in Idx(u) |-> -i]
  <2>1. \A i \in 1 .. Len(s) : \A j \in i + 1 .. Len(s) : j \in 1 .. Len(s)
    BY <1>9
  <2>2. S = R /\ S \in SUBSET (1 .. Len(s))
    BY <1>9, <2>1
  <2>3. k = l /\ \A i \in S : k[i] \in Int
    BY <1>9
  <2> HIDE DEF S, R, k, l
  <2>4. Alike(Arranged(s, S, k), Arranged(u, R, l))
    BY <1>4, <2>2, <2>3, AlikeArranged
  <2> QED BY <1>7, <1>8, <2>4 DEF S, R, k, l
<1> QED BY <1>2, <1>3, <1>10, <1>11

(* A range of sizes lists positions of the operations.                     *)
Placed(x, m) == x.at \in Seq(1 .. m) /\ \A z \in x.res : z.at \in Seq(1 .. m)

(* No step of the loop takes in another position.                          *)
LEMMA RangesPlaced ==
    ASSUME NEW sizes, NEW m \in Nat, Idx(sizes) = 1 .. m, NEW low \in Nat, NEW n \in Nat,
           NEW wantN, NEW F, GrownTo(F, sizes, low, n, wantN)
    PROVE  Placed(F[low + n], m)
<1> DEFINE Q == Seq(1 .. m)
           id == [i \in Idx(sizes) |-> i]
           Kept(x) == x = [res |-> x.res, from |-> x.from, at |-> x.at] /\ Placed(x, m)
           S == {j \in 0 .. n : Kept(F[low + j])}
<1>0. F = [k \in low .. low + n |-> Grown(sizes, low, wantN, k, F)]
  BY DEF GrownTo
<1>1. 0 \in S
  <2>1. F[low] = [res |-> {}, from |-> low, at |-> <<>>]
    BY <1>0 DEF Grown
  <2>2. low + 0 = low /\ 0 \in 0 .. n
    OBVIOUS
  <2> DEFINE x == F[low]
  <2> HIDE DEF x
  <2>3. x = [res |-> {}, from |-> low, at |-> <<>>]
    BY <2>1 DEF x
  <2>4. x.res = {} /\ x.at = <<>> /\ x = [res |-> x.res, from |-> x.from, at |-> x.at]
    BY <2>3
  <2>5. x.at \in Seq(1 .. m) /\ \A z \in x.res : z.at \in Seq(1 .. m)
    BY <2>4
  <2>6. Kept(x)
    BY <2>4, <2>5 DEF Placed
  <2> QED BY <2>2, <2>6 DEF x
<1>2. ASSUME NEW j \in 0 .. n - 1, Kept(F[low + j]) PROVE Kept(F[low + (j + 1)])
  <2> DEFINE k == low + (j + 1)
             p == F[low + j]
             B == SizedFrom(sizes, p.from, k)
             e == Order(B, id)
             held == p.at \o e
             new == [lo |-> p.from, hi |-> k, at |-> held]
  <2>1. k \in low .. low + n /\ k # low /\ k - 1 = low + j
    OBVIOUS
  <2>2. /\ p = [res |-> p.res, from |-> p.from, at |-> p.at]
        /\ p.at \in Q /\ \A z \in p.res : z.at \in Q
    BY <1>2 DEF Placed
  <2>3. e \in Q
    <3>1. B \in SUBSET (1 .. m) /\ \A i \in B : id[i] \in Int
      BY DEF SizedFrom
    <3> HIDE DEF B, id
    <3>2. Keyed(B, m, id)
      BY <3>1 DEF Keyed
    <3>3. Orders(e, Cardinality(B), id, B, id)
      BY <3>2, ArrangedInOrder
    <3> DEFINE c == Cardinality(B)
    <3>4. c \in Nat /\ e \in [1 .. c -> B]
      BY <3>3 DEF Orders
    <3> HIDE DEF c, e
    <3>5. e \in [1 .. c -> 1 .. m]
      BY <3>1, <3>4
    <3> QED BY <3>4, <3>5
  <2> HIDE DEF e, Q
  <2>4. held \in Q
    BY <2>2, <2>3 DEF Q
  <2>5. F[k] = Grown(sizes, low, wantN, k, F)
    BY <1>0, <2>1
  <2>6. F[k - 1] = p
    BY <2>1
  <2> HIDE DEF k, p
  <2>7. F[k] = IF Len(held) >= wantN
               THEN [res |-> p.res \cup {new}, from |-> k, at |-> <<>>]
               ELSE [p EXCEPT !.at = held]
    BY <2>1, <2>5, <2>6 DEF Grown, e, B
  <2> HIDE DEF held
  <2>8. CASE Len(held) >= wantN
    <3> DEFINE x == [res |-> p.res \cup {new}, from |-> k, at |-> <<>>]
    <3>1. F[k] = x
      BY <2>7, <2>8
    <3>2. new.at \in Q
      BY <2>4
    <3> HIDE DEF new
    <3>3. <<>> \in Q
      BY DEF Q
    <3>4. /\ x.res = p.res \cup {new} /\ x.at = <<>>
          /\ x = [res |-> x.res, from |-> x.from, at |-> x.at]
      OBVIOUS
    <3> HIDE DEF x
    <3>5. \A z \in x.res : z.at \in Q
      BY <2>2, <3>2, <3>4
    <3>6. Kept(x)
      BY <3>3, <3>4, <3>5 DEF Placed, Q
    <3> QED BY <3>1, <3>6 DEF k
  <2>9. CASE ~(Len(held) >= wantN)
    <3> DEFINE x == [p EXCEPT !.at = held]
    <3>1. F[k] = x
      BY <2>7, <2>9
    <3>2. x = [res |-> p.res, from |-> p.from, at |-> held]
      BY <2>2
    <3> HIDE DEF x
    <3>3. x.res = p.res /\ x.at = held /\ x = [res |-> x.res, from |-> x.from, at |-> x.at]
      BY <3>2
    <3>4. Kept(x)
      BY <2>2, <2>4, <3>3 DEF Placed, Q
    <3> QED BY <3>1, <3>4 DEF k
  <2> QED BY <2>8, <2>9
<1>3. \A j \in 0 .. n - 1 : j \in S => j + 1 \in S
  <2> HIDE DEF Kept
  <2> QED BY <1>2
<1>4. \A j \in 0 .. n : j \in S
  <2> HIDE DEF S
  <2> QED BY <1>1, <1>3, Induction
<1>5. Kept(F[low + n])
  <2> HIDE DEF Kept
  <2> QED BY <1>4
<1> QED BY <1>5

(* Nor does any range that SizeRanges returns.                             *)
LEMMA SizesPlaced ==
    ASSUME NEW sizes, NEW m \in Nat, Idx(sizes) = 1 .. m,
           NEW low \in 0 .. 8, NEW high \in 0 .. 8, low <= high, NEW wantN
    PROVE  \A z \in SizeRanges(sizes, low, high, wantN) : z.at \in Seq(1 .. m)
<1> DEFINE n == high + 1 - low
           G == CHOOSE F : F = [k \in low .. high + 1 |-> Grown(sizes, low, wantN, k, F)]
           x == G[high + 1]
<1>1. n \in Nat /\ low \in Nat /\ low + n = high + 1
  OBVIOUS
<1>2. \E F : GrownTo(F, sizes, low, n, wantN)
  <2> HIDE DEF n
  <2> QED BY <1>1, RangesExist
<1>3. G = [k \in low .. high + 1 |-> Grown(sizes, low, wantN, k, G)]
  <2> HIDE DEF n
  <2> QED BY <1>1, <1>2 DEF GrownTo
<1>4. SizeRanges(sizes, low, high, wantN) = x.res
  BY DEF SizeRanges, Grown, SizedFrom
<1> HIDE DEF n, G
<1>5. GrownTo(G, sizes, low, n, wantN)
  BY <1>1, <1>3 DEF GrownTo
<1>6. Placed(G[low + n], m)
  BY <1>1, <1>5, RangesPlaced
<1>7. Placed(x, m)
  BY <1>1, <1>6
<1> QED BY <1>4, <1>7 DEF Placed

(* Statistics of requests do not depend on the names.                      *)
LEMMA AlikeSingle ==
    ASSUME NEW o, NEW q, Alike(o, q)
    PROVE  FillSingle(o) = FillSingle(q) /\ FirstLast(o) = FirstLast(q)
<1>1. ASSUME NEW s, NEW u, Alike(s, u) PROVE FillSingle(s) = FillSingle(u)
  <2>1. CASE s = <<>>
    <3>1. u = s
      BY <1>1, <2>1, AlikeIs
    <3> QED BY <3>1
  <2>2. CASE s # <<>>
    <3>1. Percentiles(s) = Percentiles(u) /\ \A a, b : TTFB(s, a, b) = TTFB(u, a, b)
      BY <1>1, <2>2, AlikePercentiles
    <3>2. TimeRange(s) = TimeRange(u)
      BY <1>1, AlikeTimes
    <3>3. Len(s) = Len(u)
      BY <1>1, AlikeIs
    <3> QED BY <3>1, <3>2, <3>3, Zenon DEF FillSingle
  <2> QED BY <2>1, <2>2
<1>2. /\ IsMultiTouch(o) <=> IsMultiTouch(q)
      /\ Alike(FilterFirst(o), FilterFirst(q)) /\ Alike(FilterLast(o), FilterLast(q))
  BY AlikeCounts
<1>3. /\ FillSingle(FilterFirst(o)) = FillSingle(FilterFirst(q))
      /\ FillSingle(FilterLast(o)) = FillSingle(FilterLast(q))
  BY <1>1, <1>2
<1>4. FirstLast(o) = FirstLast(q)
  BY <1>2, <1>3 DEF FirstLast
<1> QED BY <1>1, <1>4

(* A range of sizes with its operations.                                   *)
RangeOf(a, b, o) == [lo |-> a, hi |-> b, ops |-> o]

(* The statistics of such a range do not depend on the names.              *)
LEMMA AlikeRange ==
    ASSUME NEW o, NEW q, Alike(o, q), NEW a, NEW b
    PROVE  /\ FillRange(RangeOf(a, b, o)) = FillRange(RangeOf(a, b, q))
           /\ FillFirst(RangeOf(a, b, o)) = FillFirst(RangeOf(a, b, q))
<1>0. \A x : RangeOf(a, b, x).lo = a /\ RangeOf(a, b, x).hi = b /\ RangeOf(a, b, x).ops = x
  BY DEF RangeOf
<1>1. ASSUME NEW x, NEW y, Alike(x, y)
      PROVE  FillRange(RangeOf(a, b, x)) = FillRange(RangeOf(a, b, y))
  <2> DEFINE s == SortByThroughput(x)
             u == SortByThroughput(y)
  <2>1. Alike(s, u)
    BY <1>1, AlikeSorted
  <2>2. FillRange(RangeOf(a, b, x)) =
          [requests |-> Len(s), lo |-> a, hi |-> b,
           bps |-> [p \in IF s = <<>> THEN {} ELSE Percents |->
                      [size |-> Median(s, p).size, dur |-> Dur(Median(s, p))]]]
    BY <1>0 DEF FillRange
  <2>3. FillRange(RangeOf(a, b, y)) =
          [requests |-> Len(u), lo |-> a, hi |-> b,
           bps |-> [p \in IF u = <<>> THEN {} ELSE Percents |->
                      [size |-> Median(u, p).size, dur |-> Dur(Median(u, p))]]]
    BY <1>0 DEF FillRange
  <2> HIDE DEF s, u
  <2>4. Len(s) = Len(u) /\ (s = <<>> <=> u = <<>>)
    BY <2>1, AlikeIs
  <2> DEFINE D == IF s = <<>> THEN {} ELSE Percents
             E == IF u = <<>> THEN {} ELSE Percents
             f(p) == [size |-> Median(s, p).size, dur |-> Dur(Median(s, p))]
             g(p) == [size |-> Median(u, p).size, dur |-> Dur(Median(u, p))]
  <2>5. D = E
    BY <2>4
  <2>6. \A p \in D : Same(Median(s, p), Median(u, p))
    BY <2>1, AlikeMedian
  <2>7. \A p \in D : f(p) = g(p)
    BY <2>6 DEF Same, Dur
  <2> HIDE DEF D, E, f, g
  <2>8. [p \in D |-> f(p)] = [p \in E |-> g(p)]
    BY <2>5, <2>7
  <2> QED BY <2>2, <2>3, <2>4, <2>8 DEF D, E, f, g
<1>2. /\ IsMultiTouch(o) <=> IsMultiTouch(q)
      /\ Alike(FilterFirst(o), FilterFirst(q))
  BY AlikeCounts
<1>3. \A x : [RangeOf(a, b, x) EXCEPT !.ops = FilterFirst(@)] = RangeOf(a, b, FilterFirst(x))
  BY DEF RangeOf
<1>4. FillRange(RangeOf(a, b, FilterFirst(o))) = FillRange(RangeOf(a, b, FilterFirst(q)))
  BY <1>1, <1>2
<1>5. \A x : FillFirst(RangeOf(a, b, x)) =
               IF IsMultiTouch(x) THEN <<FillRange(RangeOf(a, b, FilterFirst(x)))>> ELSE <<>>
  BY <1>0, <1>3 DEF FillFirst
<1> HIDE DEF RangeOf
<1>6. FillFirst(RangeOf(a, b, o)) = FillFirst(RangeOf(a, b, q))
  BY <1>2, <1>4, <1>5
<1> QED BY <1>1, <1>6

(* Nor does its entry among the ranges of all sizes.                       *)
LEMMA AlikeFilled ==
    ASSUME NEW o, NEW q, Alike(o, q), NEW s, NEW u, Alike(s, u), NEW a, NEW b
    PROVE  Filled(o, RangeOf(a, b, s)) = Filled(q, RangeOf(a, b, u))
<1>1. /\ FillRange(RangeOf(a, b, s)) = FillRange(RangeOf(a, b, u))
      /\ FillFirst(RangeOf(a, b, s)) = FillFirst(RangeOf(a, b, u))
  BY AlikeRange
<1>2. TimeRange(o) = TimeRange(q) /\ \A x, y : TTFB(s, x, y) = TTFB(u, x, y)
  BY AlikeTimes, AlikePercentiles
<1>3. RangeOf(a, b, s).ops = s /\ RangeOf(a, b, u).ops = u
  BY DEF RangeOf
<1> QED BY <1>1, <1>2, <1>3, Zenon DEF Filled

(* One size is a range of its own.                                         *)
LEMMA AlikeSize ==
    ASSUME NEW o, NEW q, Alike(o, q)
    PROVE  \E a, b : /\ SingleSizeSegment(o) = RangeOf(a, b, o)
                     /\ SingleSizeSegment(q) = RangeOf(a, b, q)
<1>1. MinMaxSize(o) = MinMaxSize(q)
  BY AlikeTimes
<1> DEFINE mm == MinMaxSize(o)
           a == Min({k \in 0 .. 7 : mm.start <= log10ToLog2Size[k + 1]})
           b == Min({k \in 0 .. 8 : mm.end < log10ToLog2Size[k]})
<1>2. SingleSizeSegment(o) = RangeOf(a, b, o)
  BY Zenon DEF SingleSizeSegment, RangeOf
<1>3. SingleSizeSegment(q) = RangeOf(a, b, q)
  BY <1>1, Zenon DEF SingleSizeSegment, RangeOf
<1> HIDE DEF a, b
<1> QED BY <1>2, <1>3

(* All ranges of sizes have the same statistics.                           *)
LEMMA AlikeMulti ==
    ASSUME NEW o, NEW q, Alike(o, q)
    PROVE  FillMulti(o) = FillMulti(q)
<1>1. FillMulti(o) = {Filled(o, seg) : seg \in SplitSizes(o, MinShare)}
  BY DEF FillMulti, Filled
<1>2. FillMulti(q) = {Filled(q, seg) : seg \in SplitSizes(q, MinShare)}
  BY DEF FillMulti, Filled
<1>3. MultipleSizes(o) <=> MultipleSizes(q)
  BY AlikeNames
<1>4. CASE ~MultipleSizes(o)
  <2>1. PICK a, b : /\ SingleSizeSegment(o) = RangeOf(a, b, o)
                   /\ SingleSizeSegment(q) = RangeOf(a, b, q)
    BY AlikeSize
  <2>2. SplitSizes(o, MinShare) = {SingleSizeSegment(o)}
    BY <1>4 DEF SplitSizes
  <2>3. SplitSizes(q, MinShare) = {SingleSizeSegment(q)}
    BY <1>3, <1>4 DEF SplitSizes
  <2>4. Filled(o, SingleSizeSegment(o)) = Filled(q, SingleSizeSegment(q))
    BY <2>1, AlikeFilled
  <2> QED BY <1>1, <1>2, <2>2, <2>3, <2>4
<1>5. CASE MultipleSizes(o)
  <2> DEFINE n == Len(o)
             sizes == [i \in Idx(o) |-> o[i].size]
             sizeq == [i \in Idx(q) |-> q[i].size]
             mm == MinMaxSize(o)
             low == Log10(Max({mm.start, 1}))
             high == Log10(Max({mm.end, 1}))
             R == SizeRanges(sizes, low, high, (n * MinShare) \div 100)
             S(z) == RangeOf(z.lo, z.hi, ElementsAt(o, Len(z.at), z.at))
             U(z) == RangeOf(z.lo, z.hi, ElementsAt(q, Len(z.at), z.at))
  <2>1. /\ n \in Nat /\ Len(q) = n /\ Idx(o) = 1 .. n /\ Idx(q) = Idx(o)
        /\ \A i \in Idx(o) : Same(o[i], q[i]) /\ Clocked(o[i])
    BY AlikeIs
  <2>2. sizes = sizeq /\ MinMaxSize(q) = mm
    BY <2>1, AlikeTimes DEF Same
  <2>3. SplitSizes(o, MinShare) = {S(z) : z \in R}
    BY <1>5 DEF SplitSizes, RangeOf, ElementsAt, Idx
  <2>4. SplitSizes(q, MinShare) = {U(z) : z \in R}
    <3>1. SplitSizes(q, MinShare) =
            {U(z) : z \in SizeRanges(sizeq, Log10(Max({MinMaxSize(q).start, 1})),
                                     Log10(Max({MinMaxSize(q).end, 1})),
                                     (Len(q) * MinShare) \div 100)}
      BY <1>3, <1>5 DEF SplitSizes, RangeOf, ElementsAt, Idx
    <3> HIDE DEF U, sizes, sizeq, mm
    <3> QED BY <2>1, <2>2, <3>1
  <2>5. \A z \in R : z.at \in Seq(1 .. n)
    <3>1. Weighed(o)
      BY <2>1 DEF Weighed, Clocked
    <3>2. Idx(o) # {}
      BY <1>5 DEF MultipleSizes
    <3>3. low \in 0 .. 8 /\ high \in 0 .. 8 /\ low <= high
      BY <3>1, <3>2, MagnitudesOf
    <3>4. Idx(sizes) = 1 .. n
      <4>1. sizes = [i \in 1 .. n |-> sizes[i]] /\ \A i \in 1 .. n : sizes[i] \in Nat
        BY <2>1 DEF Clocked
      <4> HIDE DEF sizes
      <4>2. sizes \in Seq(Nat) /\ Len(sizes) = n
        BY <2>1, <4>1
      <4> QED BY <4>2 DEF Idx
    <3> HIDE DEF low, high, sizes
    <3> QED BY <2>1, <3>3, <3>4, SizesPlaced
  <2> HIDE DEF R
  <2>6. \A z \in R : Alike(ElementsAt(o, Len(z.at), z.at), ElementsAt(q, Len(z.at), z.at))
    <3> SUFFICES ASSUME NEW z \in R
                 PROVE  Alike(ElementsAt(o, Len(z.at), z.at), ElementsAt(q, Len(z.at), z.at))
      OBVIOUS
    <3> DEFINE c == Len(z.at)
               p == z.at
    <3>1. c \in Nat /\ \A k \in 1 .. c : p[k] \in 1 .. n
      BY <2>5
    <3> HIDE DEF c, p
    <3>2. Alike(ElementsAt(o, c, p), ElementsAt(q, c, p))
      BY <3>1, AlikeTaken
    <3> QED BY <3>2 DEF c, p
  <2>7. \A z \in R : Filled(o, S(z)) = Filled(q, U(z))
    BY <2>6, AlikeFilled
  <2> HIDE DEF S, U
  <2> QED BY <1>1, <1>2, <2>3, <2>4, <2>7
<1> QED BY <1>4, <1>5

(* Statistics by host.                                                     *)
LEMMA AlikeHosts ==
    ASSUME NEW o, NEW q, Alike(o, q)
    PROVE  /\ RequestAnalysisHostsSingleSized(o) = RequestAnalysisHostsSingleSized(q)
           /\ RequestAnalysisHostsMultiSized(o) = RequestAnalysisHostsMultiSized(q)
           /\ ThroughputByHost(o) = ThroughputByHost(q)
<1> DEFINE F(h) == FilterByEndpoint(o, h)
           G(h) == FilterByEndpoint(q, h)
<1>1. \A h : Alike(F(h), G(h))
  BY AlikeFilter
<1>2. \A h : Len(F(h)) = Len(G(h))
  <2> HIDE DEF F, G
  <2> QED BY <1>1, AlikeIs
<1>3. Endpoints(o) = Endpoints(q)
  BY AlikeNames
<1>4. BusyHosts(o) = BusyHosts(q)
  BY <1>2, <1>3 DEF BusyHosts
<1>5. RequestAnalysisHostsSingleSized(o) = RequestAnalysisHostsSingleSized(q)
  <2>1. \A h : FillSingle(F(h)) = FillSingle(G(h))
    <3> HIDE DEF F, G
    <3> QED BY <1>1, AlikeSingle
  <2> QED BY <1>4, <2>1 DEF RequestAnalysisHostsSingleSized
<1>6. RequestAnalysisHostsMultiSized(o) = RequestAnalysisHostsMultiSized(q)
  <2> DEFINE r == TimeRange(o)
             A(h) == [range |-> FillRange(SingleSizeSegment(F(h))),
                      ttfb |-> TTFB(F(h), r.start, r.end)]
             B(h) == [range |-> FillRange(SingleSizeSegment(G(h))),
                      ttfb |-> TTFB(G(h), r.start, r.end)]
  <2>1. TimeRange(q) = r
    BY AlikeTimes
  <2>2. \A h : A(h) = B(h)
    <3> SUFFICES ASSUME NEW h PROVE A(h) = B(h)
      OBVIOUS
    <3> DEFINE x == F(h)
               y == G(h)
    <3>1. Alike(x, y)
      BY <1>1
    <3> HIDE DEF F, G, x, y, r
    <3>2. PICK a, b : /\ SingleSizeSegment(x) = RangeOf(a, b, x)
                     /\ SingleSizeSegment(y) = RangeOf(a, b, y)
      BY <3>1, AlikeSize
    <3>3. FillRange(SingleSizeSegment(x)) = FillRange(SingleSizeSegment(y))
      BY <3>1, <3>2, AlikeRange
    <3>4. TTFB(x, r.start, r.end) = TTFB(y, r.start, r.end)
      BY <3>1, AlikePercentiles
    <3> QED BY <3>3, <3>4 DEF x, y
  <2>3. RequestAnalysisHostsMultiSized(o) = [h \in BusyHosts(o) |-> A(h)]
    BY DEF RequestAnalysisHostsMultiSized
  <2>4. RequestAnalysisHostsMultiSized(q) = [h \in BusyHosts(q) |-> B(h)]
    BY <2>1 DEF RequestAnalysisHostsMultiSized
  <2> HIDE DEF A, B
  <2> QED BY <1>4, <2>2, <2>3, <2>4
<1>7. ThroughputByHost(o) = ThroughputByHost(q)
  <2> DEFINE A(h) == Throughput(Total(FilterSuccessful(F(h)), FALSE), Len(FilterErrors(F(h))))
             B(h) == Throughput(Total(FilterSuccessful(G(h)), FALSE), Len(FilterErrors(G(h))))
  <2>1. \A h : A(h) = B(h)
    <3> SUFFICES ASSUME NEW h PROVE A(h) = B(h)
      OBVIOUS
    <3> DEFINE x == F(h)
               y == G(h)
    <3>1. Alike(x, y)
      BY <1>1
    <3> HIDE DEF F, G, x, y
    <3>2. Alike(FilterSuccessful(x), FilterSuccessful(y)) /\ Alike(FilterErrors(x), FilterErrors(y))
      BY <3>1, AlikeFilter
    <3>3. /\ Total(FilterSuccessful(x), FALSE) = Total(FilterSuccessful(y), FALSE)
          /\ Len(FilterErrors(x)) = Len(FilterErrors(y))
      BY <3>2, AlikeTotal, AlikeIs
    <3> QED BY <3>3 DEF x, y
  <2>2. Endpoints(FilterSuccessful(o)) = Endpoints(FilterSuccessful(q))
    <3>1. Alike(FilterSuccessful(o), FilterSuccessful(q))
      BY AlikeFilter
    <3> QED BY <3>1, AlikeNames
  <2>3. ThroughputByHost(o) = [h \in Endpoints(FilterSuccessful(o)) |-> A(h)]
    BY DEF ThroughputByHost
  <2>4. ThroughputByHost(q) = [h \in Endpoints(FilterSuccessful(q)) |-> B(h)]
    BY DEF ThroughputByHost
  <2> HIDE DEF A, B
  <2> QED BY <2>1, <2>2, <2>3, <2>4
<1> QED BY <1>5, <1>6, <1>7

(* The statistics of the requests in the active range are the same.        *)
LEMMA AlikeRequests ==
    ASSUME NEW o, NEW q, Alike(o, q), NEW allThreads
    PROVE  /\ RequestAnalysisSingleSized(o, allThreads) = RequestAnalysisSingleSized(q, allThreads)
           /\ RequestAnalysisMultiSized(o, allThreads) = RequestAnalysisMultiSized(q, allThreads)
<1> DEFINE r == ActiveTimeRange(o, allThreads)
           x == FilterInsideRange(o, r.start, r.end)
           y == FilterInsideRange(q, r.start, r.end)
<1>1. ActiveTimeRange(q, allThreads) = r
  BY AlikeTimes
<1>2. Alike(x, y)
  BY AlikeFilter
<1>3. RequestAnalysisSingleSized(o, allThreads) =
        IF x = <<>> THEN [requests |-> 0]
        ELSE [requests |-> Len(x), all |-> FillSingle(x), firstLast |-> FirstLast(o),
              byHost |-> RequestAnalysisHostsSingleSized(o)]
  BY DEF RequestAnalysisSingleSized
<1>4. RequestAnalysisSingleSized(q, allThreads) =
        IF y = <<>> THEN [requests |-> 0]
        ELSE [requests |-> Len(y), all |-> FillSingle(y), firstLast |-> FirstLast(q),
              byHost |-> RequestAnalysisHostsSingleSized(q)]
  BY <1>1 DEF RequestAnalysisSingleSized
<1>5. RequestAnalysisMultiSized(o, allThreads) =
        IF x = <<>> THEN [requests |-> 0]
        ELSE [requests |-> Len(x), bySize |-> FillMulti(x),
              byHost |-> RequestAnalysisHostsMultiSized(x)]
  BY DEF RequestAnalysisMultiSized
<1>6. RequestAnalysisMultiSized(q, allThreads) =
        IF y = <<>> THEN [requests |-> 0]
        ELSE [requests |-> Len(y), bySize |-> FillMulti(y),
              byHost |-> RequestAnalysisHostsMultiSized(y)]
  BY <1>1 DEF RequestAnalysisMultiSized
<1> HIDE DEF x, y
<1>7. (x = <<>> <=> y = <<>>) /\ Len(x) = Len(y)
  BY <1>2, AlikeIs
<1>8. FillSingle(x) = FillSingle(y) /\ FirstLast(o) = FirstLast(q)
  BY <1>2, AlikeSingle
<1>9. FillMulti(x) = FillMulti(y)
  BY <1>2, AlikeMulti
<1>10. /\ RequestAnalysisHostsSingleSized(o) = RequestAnalysisHostsSingleSized(q)
       /\ RequestAnalysisHostsMultiSized(x) = RequestAnalysisHostsMultiSized(y)
  BY <1>2, AlikeHosts
<1> QED BY <1>3, <1>4, <1>5, <1>6, <1>7, <1>8, <1>9, <1>10

(* The statistics of a type of operations.                                 *)
Stats(n, failed, t, segs, empty, total, threads, clients, multi, requests, byHost) ==
    IF Len(segs) <= 1 \/ empty
    THEN [type |-> t, n |-> n, errors |-> failed, skipped |-> TRUE]
    ELSE [type |-> t, n |-> n, errors |-> failed,
          skipped |-> FALSE, segs |-> segs,
          throughput |-> Throughput(total, 0),
          segmented |-> Segmented(segs, total),
          concurrency |-> threads, clients |-> clients,
          requests |-> IF multi THEN requests[1] ELSE requests[2],
          byHost |-> byHost]
StatsOf(o, t, prefiltered) ==
    LET good == FilterSuccessful(o)
    IN  Stats(Len(o), Len(FilterErrors(o)), t,
              Segment(o, 0, analysisDur(Duration(o)), ~prefiltered, FALSE),
              good = <<>>, Total(good, ~prefiltered), Threads(good), Cardinality(Clients(good)),
              MultipleSizes(good),
              <<RequestAnalysisMultiSized(good, ~prefiltered),
                RequestAnalysisSingleSized(good, ~prefiltered)>>, ThroughputByHost(o))

(* They do not depend on the names.                                        *)
LEMMA AlikeStats ==
    ASSUME NEW o, NEW q, Alike(o, q), NEW t, NEW prefiltered
    PROVE  StatsOf(o, t, prefiltered) = StatsOf(q, t, prefiltered)
<1> DEFINE x == FilterSuccessful(o)
           y == FilterSuccessful(q)
           all == ~prefiltered
<1>1. Alike(x, y) /\ Alike(FilterErrors(o), FilterErrors(q))
  BY AlikeFilter
<1>2. Len(FilterErrors(o)) = Len(FilterErrors(q)) /\ Len(o) = Len(q)
  BY <1>1, AlikeIs
<1>3. Duration(o) = Duration(q)
  BY AlikeTimes
<1>4. \A d, a : Segment(o, 0, d, a, FALSE) = Segment(q, 0, d, a, FALSE)
  <2> DEFINE no == FALSE
  <2> HIDE DEF no
  <2>1. \A d, a : Segment(o, 0, d, a, no) = Segment(q, 0, d, a, no)
    BY AlikeSegments
  <2> QED BY <2>1 DEF no
<1> HIDE DEF x, y
<1>5. x = <<>> <=> y = <<>>
  BY <1>1, AlikeIs
<1>6. \A a : Total(x, a) = Total(y, a)
  BY <1>1, AlikeTotal
<1>7. Threads(x) = Threads(y) /\ (MultipleSizes(x) <=> MultipleSizes(y))
  BY <1>1, AlikeNames
<1>8. Cardinality(Clients(x)) = Cardinality(Clients(y))
  BY <1>1, AlikeCounts
<1>9. \A a : /\ RequestAnalysisMultiSized(x, a) = RequestAnalysisMultiSized(y, a)
             /\ RequestAnalysisSingleSized(x, a) = RequestAnalysisSingleSized(y, a)
  BY <1>1, AlikeRequests
<1>10. ThroughputByHost(o) = ThroughputByHost(q)
  BY AlikeHosts
<1> DEFINE ex == x = <<>>
           ey == y = <<>>
           mx == MultipleSizes(x)
           my == MultipleSizes(y)
           A(u, p) == <<RequestAnalysisMultiSized(u, p), RequestAnalysisSingleSized(u, p)>>
           S(u) == Segment(u, 0, analysisDur(Duration(u)), all, FALSE)
<1>11. mx = my
  <2>1. mx \in BOOLEAN /\ my \in BOOLEAN
    BY DEF MultipleSizes
  <2>2. mx <=> my
    BY <1>7
  <2> HIDE DEF mx, my
  <2> QED BY <2>1, <2>2
<1>12. ex = ey
  BY <1>5
<1>13. A(x, all) = A(y, all) /\ S(o) = S(q)
  BY <1>3, <1>4, <1>9
<1>14. /\ StatsOf(o, t, prefiltered) =
             Stats(Len(o), Len(FilterErrors(o)), t, S(o), ex, Total(x, all), Threads(x),
                   Cardinality(Clients(x)), mx, A(x, all), ThroughputByHost(o))
       /\ StatsOf(q, t, prefiltered) =
             Stats(Len(q), Len(FilterErrors(q)), t, S(q), ey, Total(y, all), Threads(y),
                   Cardinality(Clients(y)), my, A(y, all), ThroughputByHost(q))
  BY Zenon DEF StatsOf, x, y
<1> HIDE DEF ex, ey, mx, my, A, S
<1> QED BY <1>2, <1>6, <1>7, <1>8, <1>10, <1>11, <1>12, <1>13, <1>14

(* AggregateType reports just these.                                       *)
LEMMA AlikeType ==
    ASSUME NEW o, NEW q, Alike(o, q), NEW t, NEW prefiltered, NEW skip
    PROVE  AggregateType(o, t, prefiltered, skip) = AggregateType(q, t, prefiltered, skip)
<1> DEFINE x == FilterByOp(o, t)
           y == FilterByOp(q, t)
           r == TimeRange(x)
           v == IF skip > 0 THEN FilterInsideRange(x, r.start + skip, r.end) ELSE x
           w == IF skip > 0 THEN FilterInsideRange(y, r.start + skip, r.end) ELSE y
<1>1. Alike(x, y)
  BY AlikeFilter
<1>2. AggregateType(o, t, prefiltered, skip) = StatsOf(v, t, prefiltered)
  BY DEF AggregateType, StatsOf, Stats
<1>3. TimeRange(y) = r
  BY <1>1, AlikeTimes
<1>4. AggregateType(q, t, prefiltered, skip) = StatsOf(w, t, prefiltered)
  BY <1>3 DEF AggregateType, StatsOf, Stats
<1> HIDE DEF x, y
<1>5. Alike(v, w)
  <2>1. CASE skip > 0
    <3>1. Alike(FilterInsideRange(x, r.start + skip, r.end),
                FilterInsideRange(y, r.start + skip, r.end))
      BY <1>1, AlikeFilter
    <3> QED BY <2>1, <3>1
  <2>2. CASE ~(skip > 0)
    BY <1>1, <2>2
  <2> QED BY <2>1, <2>2
<1> HIDE DEF v, w
<1>6. StatsOf(v, t, prefiltered) = StatsOf(w, t, prefiltered)
  BY <1>5, AlikeStats
<1> QED BY <1>2, <1>4, <1>6

(* The mixed operations, and their statistics.                             *)
LEMMA AlikeMix ==
    ASSUME NEW o, NEW q, Alike(o, q), NEW prefiltered, NEW skip
    PROVE  Alike(MixedOps(o, prefiltered, skip), MixedOps(q, prefiltered, skip))
<1> DEFINE all == ~prefiltered
           act == ActiveTimeRange(o, all)
           r == TimeRange(o)
           x == FilterInsideRange(o, act.start + skip, act.end)
           y == FilterInsideRange(q, act.start + skip, act.end)
           v == FilterInsideRange(o, r.start + skip, r.end)
           w == FilterInsideRange(q, r.start + skip, r.end)
<1>1. Alike(x, y) /\ Alike(v, w)
  BY AlikeFilter
<1>2. HasError(o) <=> HasError(q)
  BY AlikeNames
<1>3. \A a : ActiveTimeRange(q, a) = ActiveTimeRange(o, a) /\ TimeRange(q) = r
  BY AlikeTimes
<1>4. ActiveTimeRange(q, all) = act /\ TimeRange(q) = r
  BY <1>3
<1>5. MixedOps(o, prefiltered, skip) =
        CASE ~HasError(o) -> x [] HasError(o) /\ skip > 0 -> v [] OTHER -> o
  BY Zenon DEF MixedOps
<1>6. MixedOps(q, prefiltered, skip) =
        CASE ~HasError(q) -> y [] HasError(q) /\ skip > 0 -> w [] OTHER -> q
  BY <1>4, Zenon DEF MixedOps
<1> HIDE DEF x, y, v, w
<1>7. CASE ~HasError(o)
  BY <1>1, <1>2, <1>5, <1>6, <1>7
<1>8. CASE HasError(o) /\ skip > 0
  BY <1>1, <1>2, <1>5, <1>6, <1>8
<1>9. CASE HasError(o) /\ ~(skip > 0)
  BY <1>2, <1>5, <1>6, <1>9
<1> QED BY <1>7, <1>8, <1>9

(* The statistics of the mix.                                              *)
LEMMA AlikeMixedStats ==
    ASSUME NEW o, NEW q, Alike(o, q), NEW e, NEW f, Alike(e, f)
    PROVE  MixedStats(o, e) = MixedStats(q, f)
<1> DEFINE x == FilterSuccessful(o)
           y == FilterSuccessful(q)
           no == FALSE
           yes == TRUE
           A(h) == Throughput(Total(FilterByEndpoint(x, h), FALSE), Len(FilterByEndpoint(e, h)))
           B(h) == Throughput(Total(FilterByEndpoint(y, h), FALSE), Len(FilterByEndpoint(f, h)))
           S(u, c) == Segment(u, 0, analysisDur(c.ends - c.start), no, yes)
<1>1. Alike(x, y)
  BY AlikeFilter
<1>2. /\ MixedStats(o, e) =
           [throughput |-> Throughput(Total(x, FALSE), Len(e)), segs |-> S(x, Total(x, FALSE)),
            byHost |-> [h \in Endpoints(o) |-> A(h)]]
      /\ MixedStats(q, f) =
           [throughput |-> Throughput(Total(y, FALSE), Len(f)), segs |-> S(y, Total(y, FALSE)),
            byHost |-> [h \in Endpoints(q) |-> B(h)]]
  BY DEF MixedStats
<1> HIDE DEF x, y, no, yes
<1>3. \A a : Total(x, a) = Total(y, a)
  BY <1>1, AlikeTotal
<1>4. \A c : S(x, c) = S(y, c)
  BY <1>1, AlikeSegments
<1>5. Len(e) = Len(f) /\ Endpoints(o) = Endpoints(q)
  BY AlikeIs, AlikeNames
<1>6. \A h : A(h) = B(h)
  <2> SUFFICES ASSUME NEW h PROVE A(h) = B(h)
    OBVIOUS
  <2>1. Alike(FilterByEndpoint(x, h), FilterByEndpoint(y, h))
    BY <1>1, AlikeFilter
  <2>2. Alike(FilterByEndpoint(e, h), FilterByEndpoint(f, h))
    BY AlikeFilter
  <2>3. \A a : Total(FilterByEndpoint(x, h), a) = Total(FilterByEndpoint(y, h), a)
    BY <2>1, AlikeTotal
  <2>4. Len(FilterByEndpoint(e, h)) = Len(FilterByEndpoint(f, h))
    BY <2>2, AlikeIs
  <2> QED BY <2>3, <2>4
<1> HIDE DEF A, B, S
<1> QED BY <1>2, <1>3, <1>4, <1>5, <1>6

(* An analysis does not depend on the names of files and clients.          *)
LEMMA AlikeAggregate ==
    ASSUME NEW o, NEW q, Alike(o, q), NEW filtered, NEW skip
    PROVE  Aggregate(o, filtered, skip) = Aggregate(q, filtered, skip)
<1> DEFINE x == SortByStartTime(o)
           y == SortByStartTime(q)
           pre == filtered \/ HasError(x)
           qre == filtered \/ HasError(y)
           v == MixedOps(x, pre, skip)
           w == MixedOps(y, qre, skip)
           no == 0
           yes == TRUE
<1>1. Alike(x, y)
  BY AlikeSorted
<1>2. /\ Aggregate(o, filtered, skip) =
           IF isMixed(x)
           THEN [mixed |-> TRUE, stats |-> MixedStats(v, FilterErrors(x)),
                 types |-> {AggregateType(v, t, yes, no) : t \in OpTypes(x)}]
           ELSE [mixed |-> FALSE, types |-> {AggregateType(x, t, pre, skip) : t \in OpTypes(x)}]
      /\ Aggregate(q, filtered, skip) =
           IF isMixed(y)
           THEN [mixed |-> TRUE, stats |-> MixedStats(w, FilterErrors(y)),
                 types |-> {AggregateType(w, t, yes, no) : t \in OpTypes(y)}]
           ELSE [mixed |-> FALSE, types |-> {AggregateType(y, t, qre, skip) : t \in OpTypes(y)}]
  BY Zenon DEF Aggregate
<1> HIDE DEF x, y, yes, no
<1>3. OpTypes(x) = OpTypes(y) /\ (HasError(x) <=> HasError(y)) /\ (isMixed(x) <=> isMixed(y))
  BY <1>1, AlikeNames, AlikeMixed
<1>4. pre = qre
  BY <1>3
<1> HIDE DEF pre, qre
<1>5. Alike(v, w)
  BY <1>1, <1>4, AlikeMix
<1> HIDE DEF v, w
<1>6. Alike(FilterErrors(x), FilterErrors(y))
  BY <1>1, AlikeFilter
<1>7. MixedStats(v, FilterErrors(x)) = MixedStats(w, FilterErrors(y))
  BY <1>5, <1>6, AlikeMixedStats
<1>8. \A t : AggregateType(v, t, yes, no) = AggregateType(w, t, yes, no)
  BY <1>5, AlikeType
<1>9. \A t : AggregateType(x, t, pre, skip) = AggregateType(y, t, qre, skip)
  BY <1>1, <1>4, AlikeType
<1> DEFINE M(a, b) == [mixed |-> TRUE, stats |-> a, types |-> b]
           L(b) == [mixed |-> FALSE, types |-> b]
           E == {AggregateType(v, t, yes, no) : t \in OpTypes(x)}
           F == {AggregateType(w, t, yes, no) : t \in OpTypes(y)}
           G == {AggregateType(x, t, pre, skip) : t \in OpTypes(x)}
           H == {AggregateType(y, t, qre, skip) : t \in OpTypes(y)}
<1>10. E = F /\ G = H
  BY <1>3, <1>8, <1>9
<1>11. /\ Aggregate(o, filtered, skip) =
             IF isMixed(x) THEN M(MixedStats(v, FilterErrors(x)), E) ELSE L(G)
       /\ Aggregate(q, filtered, skip) =
             IF isMixed(y) THEN M(MixedStats(w, FilterErrors(y)), F) ELSE L(H)
  BY <1>2, Zenon
<1> HIDE DEF E, F, G, H, L, M
<1> QED BY <1>3, <1>7, <1>10, <1>11

(* Nor does what the flags select.                                         *)
LEMMA AlikeReport ==
    ASSUME NEW o, NEW q, Alike(o, q), NEW f
    PROVE  Aggregate(Selected(o, f), Prefiltered(o, f), f.skip)
             = Aggregate(Selected(q, f), Prefiltered(q, f), f.skip)
<1> DEFINE x == IF f.host = "" THEN o ELSE FilterByEndpoint(o, f.host)
           y == IF f.host = "" THEN q ELSE FilterByEndpoint(q, f.host)
           pre == Prefiltered(o, f)
           qre == Prefiltered(q, f)
<1>1. Alike(FilterByEndpoint(o, f.host), FilterByEndpoint(q, f.host))
  BY AlikeFilter
<1>2. Alike(x, y)
  BY <1>1
<1>3. Selected(o, f) = FilterByOp(x, f.op) /\ Selected(q, f) = FilterByOp(y, f.op)
  BY DEF Selected
<1> HIDE DEF x, y
<1>4. Alike(Selected(o, f), Selected(q, f))
  BY <1>2, <1>3, AlikeFilter
<1>5. isMixed(o) <=> isMixed(q)
  BY AlikeMixed
<1>6. pre = qre
  BY <1>5 DEF Prefiltered
<1> HIDE DEF pre, qre
<1> QED BY <1>4, <1>6, AlikeAggregate DEF pre, qre

(* Keeping the positions from a to b is cutting them out.                  *)
LEMMA KeepCuts ==
    ASSUME NEW o, NEW m \in Nat, Idx(o) = 1 .. m, NEW a \in Nat \ {0}, NEW b \in Nat, b <= m
    PROVE  Keep(o, a .. b) = SubSeq(o, a, b)
<1> DEFINE S == a .. b
           key == [i \in Idx(o) |-> i]
           before(i) == {j \in S : key[j] < key[i] \/ (key[j] = key[i] /\ j < i)}
           place == [i \in S |-> Cardinality(before(i)) + 1]
           c == Cardinality(S)
           p == Order(S, key)
<1>1. \A i \in S : i \in 1 .. m /\ key[i] = i
  OBVIOUS
<1>2. \A i \in S : Cardinality(before(i)) = i - a
  <2> SUFFICES ASSUME NEW i \in S PROVE Cardinality(before(i)) = i - a
    OBVIOUS
  <2>1. before(i) = a .. i - 1
    BY <1>1
  <2>2. a \in Int /\ i - 1 \in Int /\ (IF a > i - 1 THEN 0 ELSE (i - 1) - a + 1) = i - a
    OBVIOUS
  <2> HIDE DEF before
  <2> QED BY <2>1, <2>2, FS_Interval
<1>3. \A i \in S : place[i] = i - a + 1
  BY <1>2
<1>4. c = IF a > b THEN 0 ELSE b - a + 1
  BY FS_Interval
<1>5. p = [k \in 1 .. c |-> CHOOSE i \in S : place[i] = k]
  BY DEF Order
<1> HIDE DEF place, before, key, c, p
<1>6. \A k \in 1 .. c : p[k] = k + a - 1
  <2> SUFFICES ASSUME NEW k \in 1 .. c PROVE p[k] = k + a - 1
    OBVIOUS
  <2>1. k + a - 1 \in S /\ k \in Int
    BY <1>4
  <2>2. \A i \in S : place[i] = k <=> i = k + a - 1
    BY <1>3, <2>1
  <2>3. p[k] = CHOOSE i \in S : place[i] = k
    BY <1>5
  <2>4. (CHOOSE i \in S : place[i] = k) = k + a - 1
    <3> HIDE DEF S
    <3> QED BY <2>1, <2>2
  <2> QED BY <2>3, <2>4
<1>7. Keep(o, S) = [k \in 1 .. c |-> o[p[k]]]
  BY DEF Keep, Arranged, c, p, key
<1>8. SubSeq(o, a, b) = [k \in 1 .. (1 + b - a) |-> o[k + a - 1]]
  OBVIOUS
<1>9. 1 .. c = 1 .. (1 + b - a)
  BY <1>4
<1>10. [k \in 1 .. c |-> o[p[k]]] = [k \in 1 .. (1 + b - a) |-> o[k + a - 1]]
  BY <1>6, <1>9
<1> QED BY <1>7, <1>8, <1>10 DEF S

(* Different names get different numbers, no more than there are names.    *)
LEMMA RankIs ==
    ASSUME NEW names, NEW n \in Nat, Idx(names) = 1 .. n, NEW i \in 1 .. n
    PROVE  /\ Rank(names, names[i]) \in 1 .. Cardinality(AllOf(names, n))
           /\ \A j \in 1 .. n : names[i] # names[j] =>
                Rank(names, names[i]) # Rank(names, names[j])
<1> DEFINE Bearing(x) == {k \in Idx(names) : names[k] = x}
           first(x) == Min(Bearing(x))
           Seen(k) == {names[l] : l \in 1 .. k}
<1>1. \A k \in 1 .. n : IsFiniteSet(Seen(k)) /\ Cardinality(Seen(k)) \in Nat
  <2> SUFFICES ASSUME NEW k \in 1 .. n
               PROVE  IsFiniteSet(Seen(k)) /\ Cardinality(Seen(k)) \in Nat
    OBVIOUS
  <2>1. Renamed(names, names, k)
    BY DEF Renamed
  <2>2. IsFiniteSet(AllOf(names, k))
    BY <2>1, AsManyNames
  <2>3. Seen(k) = AllOf(names, k)
    BY DEF AllOf
  <2> HIDE DEF Seen
  <2> QED BY <2>2, <2>3, FS_CardinalityType
<1>2. \A j \in 1 .. n : /\ first(names[j]) \in 1 .. n /\ names[first(names[j])] = names[j]
                        /\ \A l \in 1 .. n : names[l] = names[j] => first(names[j]) <= l
  <2> SUFFICES ASSUME NEW j \in 1 .. n
               PROVE  /\ first(names[j]) \in 1 .. n /\ names[first(names[j])] = names[j]
                      /\ \A l \in 1 .. n : names[l] = names[j] => first(names[j]) <= l
    OBVIOUS
  <2> DEFINE A == Bearing(names[j])
  <2>1. A # {} /\ A \in SUBSET Int /\ 0 \in Int /\ \A k \in A : 0 <= k
    OBVIOUS
  <2>2. \A l \in 1 .. n : names[l] = names[j] => l \in A
    OBVIOUS
  <2>3. \A l \in A : l \in 1 .. n /\ names[l] = names[j]
    OBVIOUS
  <2> HIDE DEF A
  <2>4. Min(A) \in A /\ \A k \in A : Min(A) <= k
    BY <2>1, MinIs
  <2>5. first(names[j]) = Min(A)
    BY DEF A
  <2> HIDE DEF first
  <2> QED BY <2>2, <2>3, <2>4, <2>5
<1>3. \A x : Rank(names, x) = Cardinality(Seen(first(x)))
  BY DEF Rank
<1> HIDE DEF first
<1>4. ASSUME NEW j \in 1 .. n, NEW l \in 1 .. n, first(names[j]) < first(names[l])
      PROVE  Rank(names, names[j]) # Rank(names, names[l])
  <2> DEFINE x == first(names[j])
             y == first(names[l])
             U == Seen(x)
             V == Seen(y)
  <2>1. x \in 1 .. n /\ y \in 1 .. n /\ x < y /\ names[y] = names[l]
    BY <1>2, <1>4
  <2>2. \A k \in 1 .. n : names[k] = names[l] => y <= k
    BY <1>2
  <2> HIDE DEF x, y
  <2>3. U \in SUBSET V
    BY <2>1
  <2>4. names[l] \in V
    BY <2>1
  <2>5. names[l] \notin U
    BY <2>1, <2>2
  <2>6. IsFiniteSet(V) /\ Rank(names, names[j]) = Cardinality(U)
        /\ Rank(names, names[l]) = Cardinality(V)
    BY <1>1, <1>3, <2>1 DEF x, y
  <2> HIDE DEF U, V
  <2>7. Cardinality(V) = Cardinality(U) => V = U
    BY <2>3, <2>6, FS_Subset, Zenon
  <2> QED BY <2>4, <2>5, <2>6, <2>7
<1>5. \A j \in 1 .. n : names[i] # names[j] => Rank(names, names[i]) # Rank(names, names[j])
  <2> SUFFICES ASSUME NEW j \in 1 .. n, names[i] # names[j]
               PROVE  Rank(names, names[i]) # Rank(names, names[j])
    OBVIOUS
  <2>1. first(names[i]) \in Int /\ first(names[j]) \in Int /\ first(names[i]) # first(names[j])
    BY <1>2
  <2>2. CASE first(names[i]) < first(names[j])
    BY <1>4, <2>2
  <2>3. CASE first(names[j]) < first(names[i])
    BY <1>4, <2>3
  <2> QED BY <2>1, <2>2, <2>3
<1>6. Rank(names, names[i]) \in 1 .. Cardinality(AllOf(names, n))
  <2> DEFINE x == first(names[i])
             U == Seen(x)
             V == Seen(n)
  <2>1. x \in 1 .. n /\ names[x] = names[i]
    BY <1>2
  <2> HIDE DEF x
  <2>2. n \in 1 .. n
    OBVIOUS
  <2>3. U \in SUBSET V /\ names[x] \in U
    BY <2>1
  <2>4. IsFiniteSet(V) /\ Cardinality(V) \in Nat
    BY <1>1, <2>2
  <2>5. IsFiniteSet(U) /\ Cardinality(U) \in Nat
    BY <1>1, <2>1
  <2>6. Rank(names, names[i]) = Cardinality(U)
    BY <1>3 DEF x
  <2>7. V = AllOf(names, n)
    BY DEF AllOf
  <2> HIDE DEF U, V
  <2>8. Cardinality(U) <= Cardinality(V)
    BY <2>3, <2>4, FS_Subset, Zenon
  <2>9. Cardinality(U) # 0
    BY <2>3, <2>5, FS_EmptySet
  <2> QED BY <2>4, <2>5, <2>6, <2>7, <2>8, <2>9
<1> QED BY <1>5, <1>6

(* A byte holds the letters of 256 clients.                                *)
LEMMA LettersApart ==
    ASSUME NEW r \in 1 .. 256, NEW s \in 1 .. 256,
           (97 + r - 1) % 256 = (97 + s - 1) % 256
    PROVE  r = s
<1> DEFINE f(x) == IF x <= 159 THEN x + 96 ELSE x - 160
<1>1. (97 + r - 1) % 256 = f(r)
  OBVIOUS
<1>2. (97 + s - 1) % 256 = f(s)
  OBVIOUS
<1>3. f(r) = f(s)
  BY <1>1, <1>2
<1> QED BY <1>3

(* A recorded operation has all its columns.                               *)
Columns == {"type", "start", "end", "fb", "err", "size", "file", "thread", "client", "host"}
Row(op) == Columns \subseteq DOMAIN op /\ Clocked(op) /\ op.client \in 1 .. N

(* The merged operations are made of such rows.                            *)
LEMMA MergedRows ==
    ASSUME AInv, pc = "merged"
    PROVE  ops \in Seq(AllMoved(got)) /\ \A v \in AllMoved(got) : Row(v)
<1>1. ASSUME NEW op \in RecordedOps PROVE Row(op) /\ IsOp(op)
  <2>1. IsOp(op)
    BY RecordedIs
  <2>2. /\ Columns \subseteq DOMAIN op /\ op.start \in Nat /\ op.end \in Nat
        /\ op.fb \in Nat \cup {NoTime} /\ op.client \in 1 .. N
    BY DEF RecordedOps, Columns
  <2>3. op.size \in {k.size : k \in Kinds}
    BY DEF RecordedOps
  <2>4. op.size \in Nat
    BY <2>3, AnalysisAssumption
  <2>5. op.fb \in Int
    BY <2>2 DEF NoTime
  <2> QED BY <2>1, <2>2, <2>4, <2>5 DEF Row, Clocked
<1>2. ASSUME NEW op \in RecordedOps, NEW x \in Nat PROVE Row(Moved(op, x))
  <2> DEFINE m == Moved(op, x)
  <2>1. Row(op) /\ IsOp(op)
    BY <1>1
  <2>2. (\A f \in DOMAIN op : f # "thread" => m[f] = op[f]) /\ DOMAIN m = DOMAIN op
    BY <2>1, MovedIs
  <2>3. /\ m.start = op.start /\ m.end = op.end /\ m.fb = op.fb
        /\ m.size = op.size /\ m.client = op.client
    BY <2>1, <2>2 DEF Row, Columns
  <2> HIDE DEF m
  <2>4. Row(m)
    BY <2>1, <2>2, <2>3 DEF Row, Clocked
  <2> QED BY <2>4 DEF m
<1>3. \A i \in Idx(got) : \A j \in Idx(got[i]) : got[i][j] \in RecordedOps
  BY MergedTimed DEF AInv
<1>4. \A v \in AllMoved(got) : Row(v)
  BY <1>2, <1>3 DEF AllMoved
<1> QED BY <1>4, MergedList

(* What is read from the file are the rows of the window, but for the      *)
(* names: files are numbered, clients have letters.                        *)
LEMMA LoadedAlike ==
    ASSUME N <= 256, NEW V, NEW rows \in Seq(V), \A v \in V : Row(v),
           NEW offset \in Nat, NEW limit \in Nat
    PROVE  Alike(Keep(rows, {i \in Idx(rows) :
                               i > offset /\ (limit = 0 \/ i <= offset + limit)}),
                 OperationsFromCSV(rows, offset, limit))
<1> DEFINE stop == IF limit > 0 THEN Min({Len(rows), offset + limit}) ELSE Len(rows)
           used == SubSeq(rows, offset + 1, stop)
           files == [i \in Idx(used) |-> used[i].file]
           clients == [i \in Idx(used) |-> used[i].client]
           letter(i) == (97 + Rank(clients, used[i].client) - 1) % 256
           number(i) == Rank(files, used[i].file)
           e(i) == [used[i] EXCEPT !.file = number(i), !.client = letter(i)]
           r == [i \in Idx(used) |-> e(i)]
           W == {i \in Idx(rows) : i > offset /\ (limit = 0 \/ i <= offset + limit)}
           n == Len(used)
<1>1. Len(rows) \in Nat /\ Idx(rows) = 1 .. Len(rows)
  BY DEF Idx
<1>2. stop \in Nat /\ stop <= Len(rows) /\ W = offset + 1 .. stop
  <2>1. Len(rows) \in Int /\ offset + limit \in Int
    BY <1>1
  <2>2. Min({Len(rows), offset + limit}) =
          IF Len(rows) <= offset + limit THEN Len(rows) ELSE offset + limit
    BY <2>1, MinTwo
  <2> DEFINE x == Min({Len(rows), offset + limit})
  <2> HIDE DEF x
  <2>3. x = IF Len(rows) <= offset + limit THEN Len(rows) ELSE offset + limit
    BY <2>2 DEF x
  <2>4. stop = IF limit > 0 THEN x ELSE Len(rows)
    BY DEF x
  <2> HIDE DEF stop
  <2>5. stop \in Nat /\ stop <= Len(rows)
    BY <1>1, <2>3, <2>4
  <2>6. W = offset + 1 .. stop
    BY <1>1, <2>3, <2>4, <2>5
  <2> QED BY <2>5, <2>6
<1> HIDE DEF stop
<1>3. Keep(rows, W) = used
  <2> HIDE DEF W
  <2>1. offset + 1 \in Nat \ {0}
    OBVIOUS
  <2> QED BY <1>1, <1>2, <2>1, KeepCuts
<1>4. OperationsFromCSV(rows, offset, limit) = r
  BY DEF OperationsFromCSV, stop
<1>5. used \in Seq(V)
  BY <1>1, <1>2
<1> HIDE DEF W, used
<1>6. /\ n \in Nat /\ Idx(used) = 1 .. n /\ \A i \in 1 .. n : Row(used[i])
      /\ used = [i \in 1 .. n |-> used[i]]
  BY <1>5 DEF Idx
<1> HIDE DEF n
<1>0. n \in Nat
  BY <1>6
<1>7. /\ Idx(files) = 1 .. n /\ Idx(clients) = 1 .. n
      /\ \A i \in 1 .. n : files[i] = used[i].file /\ clients[i] = used[i].client
  <2>1. \A i \in 1 .. n : files[i] = used[i].file /\ clients[i] = used[i].client
    BY <1>6
  <2>2. files = [i \in 1 .. n |-> files[i]]
    BY <1>6
  <2>3. clients = [i \in 1 .. n |-> clients[i]]
    BY <1>6
  <2> HIDE DEF files, clients
  <2> DEFINE X == {files[i] : i \in 1 .. n}
             Y == {clients[i] : i \in 1 .. n}
  <2>4. \A i \in 1 .. n : files[i] \in X
    OBVIOUS
  <2>5. \A i \in 1 .. n : clients[i] \in Y
    OBVIOUS
  <2> HIDE DEF X, Y
  <2>6. files \in Seq(X) /\ Len(files) = n
    BY <1>0, <2>2, <2>4
  <2>7. clients \in Seq(Y) /\ Len(clients) = n
    BY <1>0, <2>3, <2>5
  <2> QED BY <2>1, <2>6, <2>7 DEF Idx
<1> HIDE DEF files, clients
<1>8. \A i, j \in 1 .. n : used[i].file = used[j].file <=> number(i) = number(j)
  <2>1. \A i, j \in 1 .. n : files[i] # files[j] => Rank(files, files[i]) # Rank(files, files[j])
    BY <1>6, <1>7, RankIs
  <2> QED BY <1>7, <2>1
<1>9. \A i, j \in 1 .. n : used[i].client = used[j].client <=> letter(i) = letter(j)
  <2> DEFINE A == AllOf(clients, n)
  <2>1. \A i, j \in 1 .. n : clients[i] # clients[j] =>
                               Rank(clients, clients[i]) # Rank(clients, clients[j])
    BY <1>6, <1>7, RankIs
  <2>2. \A i \in 1 .. n : Rank(clients, clients[i]) \in 1 .. Cardinality(A)
    BY <1>6, <1>7, RankIs
  <2>3. Cardinality(A) \in Nat /\ Cardinality(A) <= N
    <3>1. N \in Nat
      BY AnalysisAssumption
    <3>2. A \in SUBSET (1 .. N)
      BY <1>6, <1>7 DEF AllOf, Row
    <3> HIDE DEF A
    <3> QED BY <3>1, <3>2, PositionsFinite
  <2>4. N \in Nat
    BY AnalysisAssumption
  <2> DEFINE c == Cardinality(A)
             x(i) == Rank(clients, clients[i])
  <2> HIDE DEF c, x
  <2>5. \A i \in 1 .. n : x(i) \in 1 .. 256
    <3>1. c \in Nat /\ c <= N /\ N \in Nat /\ N <= 256
      BY <2>3, <2>4 DEF c
    <3>2. \A i \in 1 .. n : x(i) \in 1 .. c
      BY <2>2 DEF c, x
    <3>3. ASSUME NEW y \in 1 .. c PROVE y \in 1 .. 256
      BY <3>1
    <3> QED BY <3>2, <3>3
  <2>6. ASSUME NEW i \in 1 .. n, NEW j \in 1 .. n, letter(i) = letter(j)
        PROVE  used[i].client = used[j].client
    <3>1. (97 + x(i) - 1) % 256 = (97 + x(j) - 1) % 256
      BY <1>7, <2>6 DEF x
    <3>2. x(i) = x(j)
      BY <2>5, <3>1, LettersApart
    <3>3. clients[i] = clients[j]
      BY <2>1, <3>2 DEF x
    <3> QED BY <1>7, <3>3
  <2> QED BY <2>6
<1> HIDE DEF letter, number
<1>10. ASSUME NEW i \in 1 .. n
       PROVE  Same(used[i], e(i)) /\ e(i).file = number(i) /\ e(i).client = letter(i)
  <2> DEFINE u == used[i]
             a == number(i)
             b == letter(i)
             m == [u EXCEPT !.file = a, !.client = b]
  <2>1. Columns \subseteq DOMAIN u
    BY <1>6 DEF Row
  <2> HIDE DEF u, a, b
  <2>2. /\ m.type = u.type /\ m.start = u.start /\ m.end = u.end /\ m.fb = u.fb /\ m.err = u.err
        /\ m.size = u.size /\ m.thread = u.thread /\ m.host = u.host
    BY <2>1 DEF Columns
  <2>3. m.file = a /\ m.client = b
    BY <2>1 DEF Columns
  <2> HIDE DEF m
  <2>4. Same(u, m)
    BY <2>2, Zenon DEF Same
  <2> QED BY <2>3, <2>4 DEF m, u, a, b
<1> HIDE DEF e
<1>11. Len(r) = n /\ r = [i \in 1 .. n |-> r[i]] /\ \A i \in 1 .. n : r[i] = e(i)
  <2>1. r = [i \in 1 .. n |-> r[i]] /\ \A i \in 1 .. n : r[i] = e(i)
    BY <1>6
  <2> HIDE DEF r
  <2> DEFINE X == {r[i] : i \in 1 .. n}
  <2>2. \A i \in 1 .. n : r[i] \in X
    OBVIOUS
  <2> HIDE DEF X
  <2>3. r \in Seq(X) /\ Len(r) = n
    BY <1>0, <2>1, <2>2
  <2> QED BY <2>1, <2>3
<1> HIDE DEF r
<1>12. \A i \in 1 .. n : /\ Same(used[i], r[i]) /\ Clocked(used[i])
                         /\ r[i].file = number(i) /\ r[i].client = letter(i)
  BY <1>6, <1>10, <1>11 DEF Row
<1>13. \A i, j \in 1 .. n : /\ used[i].file = used[j].file <=> r[i].file = r[j].file
                            /\ used[i].client = used[j].client <=> r[i].client = r[j].client
  BY <1>8, <1>9, <1>12
<1>14. Alike(used, r)
  BY <1>6, <1>11, <1>12, <1>13 DEF Alike, n
<1> QED BY <1>3, <1>4, <1>14 DEF W

(* An analysis of the file is one of the operations that were written to   *)
(* it (OperationsFromCSV, ops.go), for as many clients as a byte has       *)
(* letters: the offset and the limit cut out their window, and the names   *)
(* of files and clients do not matter to any figure of the report.         *)
THEOREM LoadingKeepsAnalysis ==
    ASSUME N <= 256
    PROVE  Spec => CSVKeepsAnalysis
<1> DEFINE W(f) == {i \in Idx(ops) : i > f.offset /\ (f.limit = 0 \/ i <= f.offset + f.limit)}
<1>1. AInv /\ [Next]_vars =>
        [\A f \in Flags : AnalyzeFile(f) =>
           LET o == Keep(ops, W(f))
           IN  aggr' = Aggregate(Selected(o, f), Prefiltered(o, f), f.skip)]_vars
  <2> SUFFICES ASSUME AInv, NEW f \in Flags, AnalyzeFile(f)
               PROVE  aggr' = Aggregate(Selected(Keep(ops, W(f)), f),
                                        Prefiltered(Keep(ops, W(f)), f), f.skip)
    OBVIOUS
  <2> DEFINE o == Keep(ops, W(f))
             q == OperationsFromCSV(ops, f.offset, f.limit)
  <2>1. pc = "merged" /\ ops' = q /\ aggr' = Aggregate(Selected(q, f), Prefiltered(q, f), f.skip)
    BY DEF AnalyzeFile, Load, Report
  <2>2. ops \in Seq(AllMoved(got)) /\ \A v \in AllMoved(got) : Row(v)
    BY <2>1, MergedRows
  <2>3. f.offset \in Nat /\ f.limit \in Nat
    BY AnalysisAssumption
  <2>4. Alike(o, q)
    BY <2>2, <2>3, LoadedAlike
  <2> HIDE DEF o, q
  <2>5. Aggregate(Selected(o, f), Prefiltered(o, f), f.skip)
          = Aggregate(Selected(q, f), Prefiltered(q, f), f.skip)
    BY <2>4, AlikeReport
  <2> QED BY <2>1, <2>5 DEF o
<1>2. Spec => []AInv
  BY MergedFromClients
<1> QED BY <1>1, <1>2, PTL DEF Spec, CSVKeepsAnalysis
=============================================================================
