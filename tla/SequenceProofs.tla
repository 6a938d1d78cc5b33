---------------------------- MODULE SequenceProofs ----------------------------
(***************************************************************************)
(* What the sequences of the window are built from, for every length: the   *)
(* filter of WindowDomain and the order it keeps, and the induction these   *)
(* facts rest on.                                                           *)
(***************************************************************************)
EXTENDS WindowDomain, FiniteSetTheorems, TLAPS

\* A set of naturals that has a member has a least one.
LEMMA LeastNat ==
  ASSUME NEW T, T \subseteq Nat, NEW top \in T
  PROVE  \E n \in T : \A m \in T : n <= m
<1> SUFFICES ASSUME NEW S, S = 0..top,
                    NEW starts, starts = {0..n : n \in {n \in T : n <= top}},
                    NEW R, R = StrictSubsetOrdering(S)
             PROVE  \E n \in T : \A m \in T : n <= m
  OBVIOUS
<1>1. IsFiniteSet(S)
  BY FS_Interval
<1>2. IsWellFoundedOn(R, SUBSET S)
  BY <1>1, FS_StrictSubsetOrderingWellFounded, FS_FiniteSubsetsOfFinite
<1>3. starts \subseteq SUBSET S
  OBVIOUS
<1>4. 0..top \in starts
  OBVIOUS
<1>5. PICK x \in starts : \A y \in starts : <<y, x>> \notin R
  BY <1>2, <1>3, <1>4, WFMin
<1>6. PICK n \in T : n <= top /\ x = 0..n
  OBVIOUS
<1>7. ASSUME NEW m \in T, m < n PROVE FALSE
  <2>1. 0..m \in starts
    BY <1>6, <1>7
  <2>2. 0..m \subseteq 0..n /\ 0..m # 0..n /\ 0..n \in SUBSET S /\ 0..m \in SUBSET S
    <3>1. n \in 0..n /\ n \notin 0..m
      BY <1>6, <1>7
    <3> QED
      BY <1>6, <1>7, <3>1
  <2>3. <<0..m, 0..n>> \in R
    BY <2>2 DEF StrictSubsetOrdering
  <2> QED
    BY <1>5, <1>6, <2>1, <2>3
<1> QED
  BY <1>7

\* Induction up to a bound, for the set of the indices at which a fact holds.
LEMMA UpTo ==
  ASSUME NEW N \in Nat, NEW T, 0 \in T, \A i \in 1..N : i - 1 \in T => i \in T
  PROVE  \A i \in 0..N : i \in T
<1> SUFFICES ASSUME NEW j \in 0..N, j \notin T PROVE FALSE
  OBVIOUS
<1>1. PICK n \in {i \in 0..N : i \notin T} : \A m \in {i \in 0..N : i \notin T} : n <= m
  <2>1. {i \in 0..N : i \notin T} \subseteq Nat
    OBVIOUS
  <2> QED
    BY <2>1, LeastNat
<1>2. n # 0 /\ n \in 1..N /\ n - 1 \in 0..N
  BY <1>1
<1>3. n - 1 \in T
  BY <1>1, <1>2
<1> QED
  BY <1>1, <1>2, <1>3

\* A recursive function up to a bound; its step is a function.
Unfolds(f, N, base, step) == f = [i \in 0..N |-> IF i = 0 THEN base ELSE step[i][f[i - 1]]]

\* It exists.
LEMMA Recursion ==
  ASSUME NEW N \in Nat, NEW V, NEW base \in V, NEW step \in [1..N -> [V -> V]]
  PROVE  \E f : Unfolds(f, N, base, step) /\ \A i \in 0..N : f[i] \in V
<1> DEFINE Fits(n, f) == /\ f \in [0..n -> V] /\ f[0] = base
                         /\ \A i \in 1..n : f[i] = step[i][f[i - 1]]
           T == {n \in 0..N : \E f : Fits(n, f)}
<1>1. 0 \in T
  <2>1. PICK f : f = [i \in 0..0 |-> base]
    OBVIOUS
  <2>2. Fits(0, f)
    BY <2>1
  <2> HIDE DEF Fits
  <2> QED
    BY <2>2
<1>2. ASSUME NEW n \in 1..N, n - 1 \in T PROVE n \in T
  <2>1. PICK f : Fits(n - 1, f)
    BY <1>2
  <2>2. PICK g : g = [i \in 0..n |-> IF i = n THEN step[n][f[n - 1]] ELSE f[i]]
    OBVIOUS
  <2>3. f[n - 1] \in V /\ step[n][f[n - 1]] \in V
    BY <2>1
  <2>4. g \in [0..n -> V] /\ g[0] = base /\ g[n] = step[n][g[n - 1]]
    BY <2>1, <2>2, <2>3
  <2>5. \A i \in 1..n : i # n => g[i] = step[i][g[i - 1]]
    BY <2>1, <2>2
  <2> QED
    BY <2>4, <2>5
<1>3. N \in T
  <2> HIDE DEF T
  <2>1. \A i \in 1..N : i - 1 \in T => i \in T
    BY <1>2
  <2>2. \A i \in 0..N : i \in T
    BY <1>1, <2>1, UpTo
  <2> QED
    BY <2>2
<1>4. PICK f : Fits(N, f)
  BY <1>3 DEF T
<1>5. Unfolds(f, N, base, step) /\ \A i \in 0..N : f[i] \in V
  BY <1>4 DEF Unfolds
<1> QED
  BY <1>5

-------------------------------------------------------------------------------
(* What a filter keeps, and in which order.                                  *)

\* The stages of the filter.
LEMMA KeepingStages ==
  ASSUME NEW V, NEW s \in Seq(V), NEW keep
  PROVE  \E f : /\ Keeping(s, keep) = f[Len(s)]
                /\ f[0] = <<>>
                /\ \A i \in 1..Len(s) :
                     f[i] = IF s[i] \in keep THEN Append(f[i - 1], s[i]) ELSE f[i - 1]
                /\ \A i \in 0..Len(s) : f[i] \in Seq(V)
<1>1. PICK step : step = [i \in 1..Len(s) |->
                            [t \in Seq(V) |-> IF s[i] \in keep THEN Append(t, s[i]) ELSE t]]
  OBVIOUS
<1>2. step \in [1..Len(s) -> [Seq(V) -> Seq(V)]]
  BY <1>1
<1>0. <<>> \in Seq(V) /\ Len(s) \in Nat /\ \A i \in 1..Len(s) : s[i] \in V
  OBVIOUS
<1>3. PICK f : Unfolds(f, Len(s), <<>>, step) /\ \A i \in 0..Len(s) : f[i] \in Seq(V)
  BY <1>0, <1>2, Recursion
<1> DEFINE Stages(g) ==
      g = [i \in 0..Len(s) |-> IF i = 0 THEN <<>>
                               ELSE IF s[i] \in keep THEN Append(g[i - 1], s[i]) ELSE g[i - 1]]
<1>4. Stages(f)
  <2>1. \A i \in 0..Len(s) : i # 0 =>
          step[i][f[i - 1]] = IF s[i] \in keep THEN Append(f[i - 1], s[i]) ELSE f[i - 1]
    <3>1. \A i \in 0..Len(s) : i # 0 => i \in 1..Len(s) /\ f[i - 1] \in Seq(V)
      BY <1>3
    <3> QED
      BY <1>1, <3>1
  <2> QED
    BY <1>0, <1>3, <2>1 DEF Unfolds
<1>5. PICK g : g = CHOOSE h : Stages(h)
  OBVIOUS
<1>6. Stages(g) /\ Keeping(s, keep) = g[Len(s)]
  <2>1. Stages(g)
    BY <1>4, <1>5
  <2>2. Keeping(s, keep) = g[Len(s)]
    BY <1>5 DEF Keeping
  <2> QED
    BY <2>1, <2>2
<1>7. /\ g[0] = <<>>
      /\ \A i \in 1..Len(s) : g[i] = IF s[i] \in keep THEN Append(g[i - 1], s[i]) ELSE g[i - 1]
  <2>1. 0 \in 0..Len(s) /\ \A i \in 1..Len(s) : i \in 0..Len(s) /\ i # 0
    BY <1>0
  <2>2. \A i \in 0..Len(s) : g[i] = IF i = 0 THEN <<>>
                                   ELSE IF s[i] \in keep THEN Append(g[i - 1], s[i]) ELSE g[i - 1]
    BY <1>6, Zenon
  <2>3. g[0] = <<>>
    BY <2>1, <2>2
  <2>4. ASSUME NEW i \in 1..Len(s)
        PROVE  g[i] = IF s[i] \in keep THEN Append(g[i - 1], s[i]) ELSE g[i - 1]
    BY <2>1, <2>2
  <2> QED
    BY <2>3, <2>4
<1> HIDE DEF Stages
<1>8. \A i \in 0..Len(s) : g[i] \in Seq(V)
  <2> DEFINE T == {i \in 0..Len(s) : g[i] \in Seq(V)}
  <2>1. 0 \in T
    <3>1. g[0] = <<>> /\ 0 \in 0..Len(s)
      BY <1>0, <1>7
    <3> QED
      BY <1>0, <3>1
  <2>2. ASSUME NEW i \in 1..Len(s), i - 1 \in T PROVE i \in T
    <3>1. g[i - 1] \in Seq(V) /\ s[i] \in V /\ i \in 0..Len(s)
      BY <1>0, <2>2
    <3>2. Append(g[i - 1], s[i]) \in Seq(V)
      BY <3>1
    <3> QED
      BY <1>7, <3>1, <3>2
  <2>3. \A i \in 0..Len(s) : i \in T
    <3> HIDE DEF T
    <3>1. \A i \in 1..Len(s) : i - 1 \in T => i \in T
      BY <2>2
    <3> QED
      BY <1>0, <2>1, <3>1, UpTo
  <2> QED
    BY <2>3
<1> QED
  BY <1>6, <1>7, <1>8

\* One value comes before another in a sequence.
Before(s, x, y) == \E i, j \in DOMAIN s : i < j /\ s[i] = x /\ s[j] = y

\* What joins at the end is the last.
LEMMA Appended ==
  ASSUME NEW V, NEW s \in Seq(V), NEW z \in V
  PROVE  /\ \A x : x \in Range(Append(s, z)) <=> x \in Range(s) \/ x = z
         /\ \A x, y : Before(Append(s, z), x, y) <=> Before(s, x, y) \/ (x \in Range(s) /\ y = z)
<1>1. PICK t : t = Append(s, z)
  OBVIOUS
<1>2. /\ DOMAIN s = 1..Len(s) /\ DOMAIN t = 1..(Len(s) + 1) /\ Len(s) \in Nat
      /\ \A i \in 1..Len(s) : t[i] = s[i]
      /\ t[Len(s) + 1] = z
  BY <1>1
<1>3. \A x : x \in Range(t) <=> x \in Range(s) \/ x = z
  BY <1>2 DEF Range
<1>4. \A x, y : Before(t, x, y) <=> Before(s, x, y) \/ (x \in Range(s) /\ y = z)
  <2> SUFFICES ASSUME NEW x, NEW y
               PROVE  Before(t, x, y) <=> Before(s, x, y) \/ (x \in Range(s) /\ y = z)
    OBVIOUS
  <2>1. ASSUME NEW i \in DOMAIN t, NEW j \in DOMAIN t, i < j, t[i] = x, t[j] = y
        PROVE  Before(s, x, y) \/ (x \in Range(s) /\ y = z)
    <3>1. i \in DOMAIN s /\ s[i] = x
      BY <1>2, <2>1
    <3>2. CASE j = Len(s) + 1
      BY <1>2, <2>1, <3>1, <3>2 DEF Range
    <3>3. CASE j \in DOMAIN s
      BY <1>2, <2>1, <3>1, <3>3 DEF Before
    <3> QED
      BY <1>2, <3>2, <3>3
  <2>2. ASSUME Before(s, x, y) PROVE Before(t, x, y)
    BY <1>2, <2>2 DEF Before
  <2>3. ASSUME x \in Range(s), y = z PROVE Before(t, x, y)
    <3>1. PICK i \in DOMAIN s : s[i] = x
      BY <2>3 DEF Range
    <3>2. i \in DOMAIN t /\ Len(s) + 1 \in DOMAIN t /\ i < Len(s) + 1
      BY <1>2
    <3> QED
      BY <1>2, <2>3, <3>1, <3>2 DEF Before
  <2> QED
    BY <2>1, <2>2, <2>3 DEF Before
<1> QED
  BY <1>1, <1>3, <1>4

\* A filter returns the members that are kept, in their order, and no more of them.
LEMMA KeepingKeeps ==
  ASSUME NEW V, NEW s \in Seq(V), NEW keep
  PROVE  /\ Keeping(s, keep) \in Seq(V)
         /\ Range(Keeping(s, keep)) = Range(s) \cap keep
         /\ \A x, y : Before(Keeping(s, keep), x, y) => Before(s, x, y)
         /\ \A x, y : Before(s, x, y) /\ x \in keep /\ y \in keep => Before(Keeping(s, keep), x, y)
         /\ Len(Keeping(s, keep)) <= Len(s)
<1>1. PICK f : /\ Keeping(s, keep) = f[Len(s)]
               /\ f[0] = <<>>
               /\ \A i \in 1..Len(s) :
                    f[i] = IF s[i] \in keep THEN Append(f[i - 1], s[i]) ELSE f[i - 1]
               /\ \A i \in 0..Len(s) : f[i] \in Seq(V)
  BY KeepingStages
<1>0. Len(s) \in Nat /\ DOMAIN s = 1..Len(s) /\ \A i \in 1..Len(s) : s[i] \in V
  OBVIOUS
<1> DEFINE Among(n, x) == \E i \in 1..n : s[i] = x
           InOrder(n, x, y) == \E i, j \in 1..n : i < j /\ s[i] = x /\ s[j] = y
           Members(t, n) == \A x : x \in Range(t) <=> x \in keep /\ Among(n, x)
           Order(t, n) ==
             \A x, y : Before(t, x, y) <=>
               /\ x \in keep /\ y \in keep
               /\ InOrder(n, x, y)
           T == {n \in 0..Len(s) : Members(f[n], n) /\ Order(f[n], n) /\ Len(f[n]) <= n}
<1>2. 0 \in T
  <2>1. f[0] = <<>> /\ 0 \in 0..Len(s)
    BY <1>0, <1>1
  <2>2. Members(<<>>, 0)
    BY DEF Range
  <2>3. Order(<<>>, 0)
    BY DEF Before
  <2> QED
    BY <2>1, <2>2, <2>3
<1>3. ASSUME NEW n \in 1..Len(s), n - 1 \in T PROVE n \in T
  <2>1. PICK t, u : t = f[n - 1] /\ u = f[n]
    OBVIOUS
  <2>2. /\ t \in Seq(V) /\ u = IF s[n] \in keep THEN Append(t, s[n]) ELSE t
        /\ n \in 0..Len(s) /\ s[n] \in V /\ n \in Nat
    BY <1>0, <1>1, <2>1
  <2>3. Members(t, n - 1) /\ Order(t, n - 1) /\ Len(t) <= n - 1
    BY <1>3, <2>1
  <2>4. \A i : i \in 1..n <=> i \in 1..(n - 1) \/ i = n
    BY <2>2
  <2>7. \A x : Among(n, x) <=> Among(n - 1, x) \/ x = s[n]
    BY <2>2, <2>4
  <2>8. \A x, y : InOrder(n, x, y) <=> InOrder(n - 1, x, y) \/ (Among(n - 1, x) /\ y = s[n])
    <3> SUFFICES ASSUME NEW x, NEW y
                 PROVE InOrder(n, x, y) <=> InOrder(n - 1, x, y) \/ (Among(n - 1, x) /\ y = s[n])
      OBVIOUS
    <3>1. ASSUME InOrder(n, x, y) PROVE InOrder(n - 1, x, y) \/ (Among(n - 1, x) /\ y = s[n])
      <4>1. PICK i, j \in 1..n : i < j /\ s[i] = x /\ s[j] = y
        BY <3>1
      <4>2. i \in 1..(n - 1) /\ (j \in 1..(n - 1) \/ j = n)
        BY <2>2, <4>1
      <4> QED
        BY <4>1, <4>2
    <3>2. ASSUME InOrder(n - 1, x, y) PROVE InOrder(n, x, y)
      BY <2>4, <3>2
    <3>3. ASSUME Among(n - 1, x), y = s[n] PROVE InOrder(n, x, y)
      <4>1. PICK i \in 1..(n - 1) : s[i] = x
        BY <3>3
      <4>2. i \in 1..n /\ n \in 1..n /\ i < n
        BY <2>2
      <4> QED
        BY <3>3, <4>1, <4>2
    <3> QED
      BY <3>1, <3>2, <3>3
  <2> HIDE DEF Among, InOrder
  <2>5. CASE s[n] \in keep
    <3>1. /\ \A x : x \in Range(u) <=> x \in Range(t) \/ x = s[n]
          /\ \A x, y : Before(u, x, y) <=> Before(t, x, y) \/ (x \in Range(t) /\ y = s[n])
      BY <2>2, <2>5, Appended
    <3>2. Members(u, n)
      BY <2>3, <2>5, <2>7, <3>1
    <3>3. Order(u, n)
      BY <2>3, <2>5, <2>8, <3>1
    <3>4. Len(u) <= n
      BY <2>2, <2>3, <2>5
    <3> QED
      BY <2>1, <2>2, <3>2, <3>3, <3>4
  <2>6. CASE s[n] \notin keep
    <3>1. u = t
      BY <2>2, <2>6
    <3>2. Members(u, n)
      BY <2>3, <2>6, <2>7, <3>1
    <3>3. Order(u, n)
      BY <2>3, <2>6, <2>8, <3>1
    <3>4. Len(u) <= n
      BY <2>2, <2>3, <3>1
    <3> QED
      BY <2>1, <2>2, <3>2, <3>3, <3>4
  <2> QED
    BY <2>5, <2>6
<1>4. Len(s) \in T
  <2> HIDE DEF T
  <2>1. \A n \in 1..Len(s) : n - 1 \in T => n \in T
    BY <1>3
  <2>2. \A n \in 0..Len(s) : n \in T
    BY <1>0, <1>2, <2>1, UpTo
  <2> QED
    BY <1>0, <2>2
<1>5. /\ Members(Keeping(s, keep), Len(s)) /\ Order(Keeping(s, keep), Len(s))
      /\ Len(Keeping(s, keep)) <= Len(s) /\ Keeping(s, keep) \in Seq(V)
  BY <1>0, <1>1, <1>4
<1>6. Range(Keeping(s, keep)) = Range(s) \cap keep
  <2>1. \A x : x \in Range(s) <=> \E i \in 1..Len(s) : s[i] = x
    BY <1>0 DEF Range
  <2> QED
    BY <1>5, <2>1
<1>7. \A x, y : Before(s, x, y) <=> InOrder(Len(s), x, y)
  BY <1>0 DEF Before
<1> QED
  BY <1>5, <1>6, <1>7

-------------------------------------------------------------------------------
(* What comes before what.                                                   *)

\* No value occurs twice.
Distinct(s) == \A x \in Range(s) : ~Before(s, x, x)

\* Of two values of a sequence one comes first, and only one where none repeats.
LEMMA BeforeIsTotal ==
  ASSUME NEW V, NEW s \in Seq(V), NEW x \in Range(s), NEW y \in Range(s), x # y
  PROVE  Before(s, x, y) \/ Before(s, y, x)
<1>1. PICK i, j \in DOMAIN s : s[i] = x /\ s[j] = y
  BY DEF Range
<1>2. i < j \/ j < i
  BY <1>1
<1> QED
  BY <1>1, <1>2 DEF Before

LEMMA BeforeIsStrict ==
  ASSUME NEW V, NEW s \in Seq(V), Distinct(s), NEW x, NEW y, Before(s, x, y)
  PROVE  ~Before(s, y, x) /\ x # y /\ x \in Range(s) /\ y \in Range(s)
<1>1. PICK i, j \in DOMAIN s : i < j /\ s[i] = x /\ s[j] = y
  BY DEF Before
<1>0. x \in Range(s) /\ y \in Range(s)
  BY <1>1 DEF Range
<1>2. x # y
  BY <1>0 DEF Distinct
<1>3. ASSUME Before(s, y, x) PROVE FALSE
  <2>1. PICK k, l \in DOMAIN s : k < l /\ s[k] = y /\ s[l] = x
    BY <1>3 DEF Before
  <2>2. i = l
    <3>1. ~(i < l) /\ ~(l < i)
      BY <1>0, <1>1, <2>1 DEF Distinct, Before
    <3> QED
      BY <3>1
  <2>3. j = k
    <3>1. ~(j < k) /\ ~(k < j)
      BY <1>0, <1>1, <2>1 DEF Distinct, Before
    <3> QED
      BY <3>1
  <2> QED
    BY <1>1, <2>1, <2>2, <2>3
<1> QED
  BY <1>0, <1>2, <1>3

\* What is pushed comes first.
LEMMA Pushed ==
  ASSUME NEW V, NEW s \in Seq(V), NEW z \in V
  PROVE  /\ <<z>> \o s \in Seq(V) /\ Len(<<z>> \o s) = Len(s) + 1 /\ (<<z>> \o s)[1] = z
         /\ \A x : x \in Range(<<z>> \o s) <=> x \in Range(s) \/ x = z
         /\ \A x, y : Before(<<z>> \o s, x, y) <=> Before(s, x, y) \/ (x = z /\ y \in Range(s))
<1>1. PICK t : t = <<z>> \o s
  OBVIOUS
<1>2. /\ t \in Seq(V) /\ Len(t) = Len(s) + 1 /\ t[1] = z
      /\ DOMAIN s = 1..Len(s) /\ DOMAIN t = 1..(Len(s) + 1) /\ Len(s) \in Nat
      /\ \A i \in 1..Len(s) : t[i + 1] = s[i]
  BY <1>1
<1>3. \A i \in DOMAIN t : i = 1 \/ (i - 1 \in DOMAIN s /\ t[i] = s[i - 1])
  <2> SUFFICES ASSUME NEW i \in DOMAIN t, i # 1 PROVE i - 1 \in DOMAIN s /\ t[i] = s[i - 1]
    OBVIOUS
  <2>1. i - 1 \in 1..Len(s) /\ (i - 1) + 1 = i
    BY <1>2
  <2> QED
    BY <1>2, <2>1
<1>4. \A i \in DOMAIN s : i + 1 \in DOMAIN t /\ t[i + 1] = s[i] /\ 1 < i + 1
  BY <1>2
<1>5. \A x : x \in Range(t) <=> x \in Range(s) \/ x = z
  <2>1. ASSUME NEW i \in DOMAIN t PROVE t[i] \in Range(s) \/ t[i] = z
    BY <1>2, <1>3 DEF Range
  <2>2. ASSUME NEW i \in DOMAIN s PROVE s[i] \in Range(t)
    BY <1>4 DEF Range
  <2>3. z \in Range(t)
    <3>1. 1 \in DOMAIN t
      BY <1>2
    <3> QED
      BY <1>2, <3>1 DEF Range
  <2> QED
    BY <2>1, <2>2, <2>3 DEF Range
<1>6. ASSUME NEW x, NEW y
      PROVE  Before(t, x, y) <=> Before(s, x, y) \/ (x = z /\ y \in Range(s))
  <2>1. ASSUME Before(t, x, y) PROVE Before(s, x, y) \/ (x = z /\ y \in Range(s))
    <3>1. PICK i, j \in DOMAIN t : i < j /\ t[i] = x /\ t[j] = y
      BY <2>1 DEF Before
    <3>2. j # 1 /\ i \in Nat /\ j \in Nat
      BY <1>2, <3>1
    <3>3. j - 1 \in DOMAIN s /\ s[j - 1] = y
      BY <1>3, <3>1, <3>2
    <3>4. CASE i = 1
      BY <1>2, <3>1, <3>3, <3>4 DEF Range
    <3>5. CASE i # 1
      <4>1. i - 1 \in DOMAIN s /\ s[i - 1] = x /\ i - 1 < j - 1
        BY <1>3, <3>1, <3>2, <3>5
      <4> QED
        BY <3>3, <4>1 DEF Before
    <3> QED
      BY <3>4, <3>5
  <2>2. ASSUME Before(s, x, y) PROVE Before(t, x, y)
    <3>1. PICK i, j \in DOMAIN s : i < j /\ s[i] = x /\ s[j] = y
      BY <2>2 DEF Before
    <3>2. i + 1 < j + 1 /\ i + 1 \in DOMAIN t /\ j + 1 \in DOMAIN t
      BY <1>2, <1>4, <3>1
    <3> QED
      BY <1>4, <3>1, <3>2 DEF Before
  <2>3. ASSUME x = z, y \in Range(s) PROVE Before(t, x, y)
    <3>1. PICK j \in DOMAIN s : s[j] = y
      BY <2>3 DEF Range
    <3>2. 1 \in DOMAIN t /\ j + 1 \in DOMAIN t /\ 1 < j + 1 /\ t[j + 1] = y /\ t[1] = x
      BY <1>2, <1>4, <2>3, <3>1
    <3> QED
      BY <3>2 DEF Before
  <2> QED
    BY <2>1, <2>2, <2>3
<1> QED
  BY <1>1, <1>2, <1>5, <1>6

\* The beginning of a sequence keeps what comes before what it keeps.
LEMMA Beginning ==
  ASSUME NEW V, NEW s \in Seq(V), NEW n \in Nat, n <= Len(s)
  PROVE  /\ SubSeq(s, 1, n) \in Seq(V) /\ Len(SubSeq(s, 1, n)) = n
         /\ Range(SubSeq(s, 1, n)) \subseteq Range(s)
         /\ \A x, y : Before(SubSeq(s, 1, n), x, y) => Before(s, x, y)
         /\ Distinct(s) => \A x, y : Before(s, x, y) /\ y \in Range(SubSeq(s, 1, n))
                                       => x \in Range(SubSeq(s, 1, n))
         /\ n > 0 => s[1] \in Range(SubSeq(s, 1, n))
<1>1. PICK t : t = SubSeq(s, 1, n)
  OBVIOUS
<1>2. /\ t \in Seq(V) /\ Len(t) = n /\ DOMAIN t = 1..n /\ DOMAIN s = 1..Len(s)
      /\ \A i \in 1..n : t[i] = s[i]
  BY <1>1
<1>3. 1..n \subseteq 1..Len(s)
  OBVIOUS
<1>4. Range(t) \subseteq Range(s)
  BY <1>2, <1>3 DEF Range
<1>5. \A x, y : Before(t, x, y) => Before(s, x, y)
  BY <1>2, <1>3 DEF Before
<1>6. ASSUME Distinct(s), NEW x, NEW y, Before(s, x, y), y \in Range(t) PROVE x \in Range(t)
  <2>1. PICK i, j \in 1..Len(s) : i < j /\ s[i] = x /\ s[j] = y
    BY <1>2, <1>6 DEF Before
  <2>2. PICK k \in 1..n : s[k] = y
    BY <1>2, <1>6 DEF Range
  <2>3. j = k
    <3>0. y \in Range(s) /\ k \in DOMAIN s /\ j \in DOMAIN s
      BY <1>2, <1>3, <2>1, <2>2 DEF Range
    <3>1. ~(j < k) /\ ~(k < j)
      BY <1>6, <2>1, <2>2, <3>0 DEF Distinct, Before
    <3> QED
      BY <2>1, <2>2, <3>1
  <2>4. i \in 1..n /\ t[i] = x
    BY <1>2, <2>1, <2>2, <2>3
  <2> QED
    BY <1>2, <2>4 DEF Range
<1>7. ASSUME n > 0 PROVE s[1] \in Range(t)
  <2>1. 1 \in 1..n
    BY <1>7
  <2> QED
    BY <1>2, <2>1 DEF Range
<1> QED
  BY <1>1, <1>2, <1>4, <1>5, <1>6, <1>7

=============================================================================
