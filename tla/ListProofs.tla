------------------------------ MODULE ListProofs ------------------------------
(***************************************************************************)
(* What Keep returns, for lists of any length: the kept nodes, each at a   *)
(* place that grows with its old one.                                      *)
(*                                                                         *)
(* Induction on the length is by the least counterexample: lemma Least.    *)
(***************************************************************************)
EXTENDS Lists, Functions, FiniteSetTheorems, SequenceTheorems, WellFoundedInduction, TLAPS

(* A set of naturals that is not empty has a least element. *)
LEMMA Least ==
    ASSUME NEW T, T \subseteq Nat, T # {}
    PROVE  \E x \in T : \A y \in T : x <= y
<1> DEFINE R == OpToRel(<, Nat)
<1>1. IsWellFoundedOn(R, Nat)
  BY NatLessThanWellFounded
<1>2. \A x, y \in Nat : <<x, y>> \in R <=> x < y
  BY DEF OpToRel
<1> HIDE DEF R
<1>3. PICK x \in T : \A y \in T : ~(<<y, x>> \in R)
  BY <1>1, WFMin
<1>4. ASSUME NEW y \in T PROVE x <= y
  <2>1. x \in Nat /\ y \in Nat
    OBVIOUS
  <2>2. ~(y < x)
    BY <1>2, <1>3, <2>1
  <2> QED
    BY <2>1, <2>2
<1> QED
  BY <1>4

(* Induction on the naturals up to n, for a set of them. *)
LEMMA UpTo ==
    ASSUME NEW n \in Nat, NEW T, 0 \in T, \A i \in 0 .. n : i < n /\ i \in T => i + 1 \in T
    PROVE  0 .. n \subseteq T
<1> DEFINE F == {i \in 0 .. n : i \notin T}
<1>1. SUFFICES ASSUME F # {} PROVE FALSE
  OBVIOUS
<1>2. PICK i \in F : \A j \in F : i <= j
  <2>1. F \subseteq Nat
    OBVIOUS
  <2> HIDE DEF F
  <2> QED
    BY <1>1, <2>1, Least
<1>3. i \in 0 .. n /\ i \notin T /\ i # 0
  BY <1>2
<1>4. i - 1 \in 0 .. n /\ i - 1 < n /\ (i - 1) + 1 = i /\ ~(i <= i - 1)
  BY <1>3
<1>5. i - 1 \in T
  BY <1>2, <1>4
<1> QED
  BY <1>3, <1>4, <1>5

-----------------------------------------------------------------------------
(* The recursive function that Keep evaluates. *)

Step(k, s, S, i) ==
    IF i = 0 THEN <<>> ELSE IF s[i] \in S THEN Append(k[i - 1], s[i]) ELSE k[i - 1]

Kept(s, S) == CHOOSE k : k = [i \in 0 .. Len(s) |-> Step(k, s, S, i)]

(* Keep is the last value of Kept. *)
LEMMA KeepIsKept == \A s, S : Keep(s, S) = Kept(s, S)[Len(s)]
BY DEF Keep, Kept, Step

(* Kept satisfies the equation it is defined by. *)
LEMMA KeptStep ==
    ASSUME NEW s, NEW S, Len(s) \in Nat
    PROVE  \A i \in 0 .. Len(s) : Kept(s, S)[i] = Step(Kept(s, S), s, S, i)
<1> DEFINE Good(n) == \E k : k = [i \in 0 .. n |-> Step(k, s, S, i)]
           T == {n \in 0 .. Len(s) : Good(n)}
<1>1. 0 \in T
  <2> DEFINE k == [i \in 0 .. 0 |-> <<>>]
  <2>1. \A i \in 0 .. 0 : Step(k, s, S, i) = <<>>
    BY DEF Step
  <2>2. k = [i \in 0 .. 0 |-> Step(k, s, S, i)]
    BY <2>1
  <2> QED
    BY <2>2
<1>2. ASSUME NEW n \in 0 .. Len(s), n < Len(s), n \in T PROVE n + 1 \in T
  <2>1. PICK k : k = [i \in 0 .. n |-> Step(k, s, S, i)]
    BY <1>2
  <2> DEFINE j == [i \in 0 .. n + 1 |-> IF i <= n THEN k[i] ELSE Step(k, s, S, i)]
  <2>2. ASSUME NEW i \in 0 .. n + 1 PROVE j[i] = Step(j, s, S, i)
    <3>1. CASE i = 0
      BY <2>1, <3>1 DEF Step
    <3>2. CASE i # 0
      <4>1. i - 1 \in 0 .. n /\ i - 1 \in 0 .. n + 1 /\ i - 1 <= n
        BY <3>2
      <4>2. j[i - 1] = k[i - 1]
        BY <4>1
      <4>3. Step(j, s, S, i) = Step(k, s, S, i)
        BY <4>2 DEF Step
      <4>4. i <= n => i \in 0 .. n
        OBVIOUS
      <4>5. i <= n => k[i] = Step(k, s, S, i)
        BY <2>1, <4>4
      <4>6. j[i] = IF i <= n THEN k[i] ELSE Step(k, s, S, i)
        OBVIOUS
      <4> QED
        BY <4>3, <4>5, <4>6
    <3> QED
      BY <3>1, <3>2
  <2>3. j = [i \in 0 .. n + 1 |-> j[i]]
    OBVIOUS
  <2> HIDE DEF j
  <2>4. j = [i \in 0 .. n + 1 |-> Step(j, s, S, i)]
    BY <2>2, <2>3
  <2> QED
    BY <1>2, <2>4
<1>3. Len(s) \in T
  <2> HIDE DEF T
  <2>1. 0 .. Len(s) \subseteq T
    BY <1>1, <1>2, UpTo
  <2> QED
    BY <2>1
<1>4. Kept(s, S) = [i \in 0 .. Len(s) |-> Step(Kept(s, S), s, S, i)]
  BY <1>3, Zenon DEF Kept
<1> QED
  BY <1>4
-----------------------------------------------------------------------------
(* t is what is left of the first n nodes of s: h says where they were.     *)
Left(t, h, s, S, n) ==
    /\ h \in [1 .. Len(t) -> 1 .. n]
    /\ \A i \in 1 .. Len(t) : t[i] = s[h[i]] /\ s[h[i]] \in S
    /\ \A i, j \in 1 .. Len(t) : i < j => h[i] < h[j]
    /\ \A k \in 1 .. n : s[k] \in S => \E i \in 1 .. Len(t) : h[i] = k

(* One more node, which is not kept. *)
LEMMA LeftSkips ==
    ASSUME NEW t, NEW h, NEW s, NEW S, NEW n \in Nat, Len(t) \in Nat,
           Left(t, h, s, S, n), s[n + 1] \notin S
    PROVE  Left(t, h, s, S, n + 1)
<1>1. h \in [1 .. Len(t) -> 1 .. n + 1]
  <2>1. \A i \in 1 .. Len(t) : h[i] \in 1 .. n + 1
    BY DEF Left
  <2> QED
    BY <2>1 DEF Left
<1>2. ASSUME NEW k \in 1 .. n + 1, s[k] \in S PROVE \E i \in 1 .. Len(t) : h[i] = k
  <2>1. k # n + 1
    BY <1>2
  <2>2. k \in 1 .. n
    BY <2>1
  <2> QED
    BY <1>2, <2>2 DEF Left
<1> QED
  BY <1>1, <1>2 DEF Left

(* One more node, which is. *)
LEMMA LeftTakes ==
    ASSUME NEW X, NEW t \in Seq(X), NEW h, NEW s, NEW S, NEW n \in Nat,
           Left(t, h, s, S, n), s[n + 1] \in S, s[n + 1] \in X
    PROVE  \E g : Left(Append(t, s[n + 1]), g, s, S, n + 1)
<1> DEFINE u == Append(t, s[n + 1])
           l == Len(t)
           g == [i \in 1 .. l + 1 |-> IF i = l + 1 THEN n + 1 ELSE h[i]]
<1>1. l \in Nat
  OBVIOUS
<1>2. Len(u) = l + 1 /\ (\A i \in 1 .. l : u[i] = t[i]) /\ u[l + 1] = s[n + 1]
  OBVIOUS
<1>3. ASSUME NEW i \in 1 .. l + 1, i # l + 1 PROVE i \in 1 .. l
  BY <1>1, <1>3
<1>4. \A i \in 1 .. l : g[i] = h[i] /\ i \in 1 .. l + 1 /\ i # l + 1
  BY <1>1
<1>5. g[l + 1] = n + 1 /\ l + 1 \in 1 .. l + 1
  BY <1>1
<1>6. DOMAIN g = 1 .. l + 1 /\ g = [i \in 1 .. l + 1 |-> g[i]]
  OBVIOUS
<1> HIDE DEF u, g, l
<1>7. \A i \in 1 .. l : h[i] \in 1 .. n /\ h[i] \in 1 .. n + 1 /\ h[i] < n + 1
  BY DEF Left, l
<1>8. ASSUME NEW i \in 1 .. l + 1 PROVE g[i] \in 1 .. n + 1 /\ u[i] = s[g[i]] /\ s[g[i]] \in S
  <2>1. CASE i = l + 1
    BY <1>2, <1>5, <2>1
  <2>2. CASE i # l + 1
    <3>1. i \in 1 .. l
      BY <1>3, <2>2
    <3>2. t[i] = s[h[i]] /\ s[h[i]] \in S
      BY <3>1 DEF Left, l
    <3> QED
      BY <1>2, <1>4, <1>7, <3>1, <3>2
  <2> QED
    BY <2>1, <2>2
<1>9. ASSUME NEW i \in 1 .. l + 1, NEW j \in 1 .. l + 1, i < j PROVE g[i] < g[j]
  <2>1. i # l + 1
    BY <1>1, <1>9
  <2>2. i \in 1 .. l
    BY <1>3, <2>1
  <2>3. CASE j = l + 1
    BY <1>4, <1>5, <1>7, <2>2, <2>3
  <2>4. CASE j # l + 1
    <3>1. j \in 1 .. l
      BY <1>3, <2>4
    <3>2. h[i] < h[j]
      BY <1>9, <2>2, <3>1 DEF Left, l
    <3> QED
      BY <1>4, <2>2, <3>1, <3>2
  <2> QED
    BY <2>3, <2>4
<1>10. ASSUME NEW k \in 1 .. n + 1, s[k] \in S PROVE \E i \in 1 .. l + 1 : g[i] = k
  <2>1. CASE k = n + 1
    BY <1>5, <2>1
  <2>2. CASE k # n + 1
    <3>1. k \in 1 .. n
      BY <2>2
    <3>2. PICK i \in 1 .. l : h[i] = k
      BY <1>10, <3>1 DEF Left, l
    <3> QED
      BY <1>4, <3>2
  <2> QED
    BY <2>1, <2>2
<1>11. g \in [1 .. l + 1 -> 1 .. n + 1]
  BY <1>6, <1>8
<1>12. Left(u, g, s, S, n + 1)
  BY <1>2, <1>8, <1>9, <1>10, <1>11 DEF Left
<1> QED
  BY <1>12 DEF u

(* What Keep leaves of a list. *)
THEOREM KeepLeaves ==
    ASSUME NEW X, NEW s \in Seq(X), NEW S
    PROVE  /\ Keep(s, S) \in Seq(X)
           /\ \E h : Left(Keep(s, S), h, s, S, Len(s))
<1> DEFINE k == Kept(s, S)
           T == {n \in 0 .. Len(s) : k[n] \in Seq(X) /\ \E h : Left(k[n], h, s, S, n)}
<1>1. Len(s) \in Nat /\ \A i \in 1 .. Len(s) : s[i] \in X
  OBVIOUS
<1>2. \A i \in 0 .. Len(s) : k[i] = Step(k, s, S, i)
  BY <1>1, KeptStep
<1> HIDE DEF k
<1>3. 0 \in T
  <2>1. k[0] = <<>>
    BY <1>1, <1>2 DEF Step
  <2>2. Left(<<>>, <<>>, s, S, 0)
    BY DEF Left
  <2>3. \E h : Left(k[0], h, s, S, 0)
    BY <2>1, <2>2
  <2>4. k[0] \in Seq(X) /\ 0 \in 0 .. Len(s)
    BY <1>1, <2>1
  <2> QED
    BY <2>3, <2>4
<1>4. ASSUME NEW n \in 0 .. Len(s), n < Len(s), n \in T PROVE n + 1 \in T
  <2>1. n \in Nat /\ n + 1 \in 0 .. Len(s) /\ n + 1 \in 1 .. Len(s) /\ n + 1 # 0 /\ (n + 1) - 1 = n
    BY <1>1, <1>4
  <2>2. k[n] \in Seq(X) /\ Len(k[n]) \in Nat
    BY <1>4
  <2>3. PICK h : Left(k[n], h, s, S, n)
    BY <1>4
  <2>4. s[n + 1] \in X
    BY <1>1, <2>1
  <2>5. k[n + 1] = IF s[n + 1] \in S THEN Append(k[n], s[n + 1]) ELSE k[n]
    BY <1>2, <2>1 DEF Step
  <2>6. k[n + 1] \in Seq(X)
    BY <2>2, <2>4, <2>5
  <2>7. \E g : Left(k[n + 1], g, s, S, n + 1)
    <3>1. CASE s[n + 1] \in S
      BY <2>1, <2>2, <2>3, <2>4, <2>5, <3>1, LeftTakes
    <3>2. CASE s[n + 1] \notin S
      BY <2>1, <2>2, <2>3, <2>5, <3>2, LeftSkips
    <3> QED
      BY <3>1, <3>2
  <2> QED
    BY <2>1, <2>6, <2>7
<1>5. Len(s) \in T
  <2> HIDE DEF T
  <2>1. 0 .. Len(s) \subseteq T
    BY <1>1, <1>3, <1>4, UpTo
  <2> QED
    BY <1>1, <2>1
<1> QED
  BY <1>5, KeepIsKept DEF k

(* The data of the nodes that are left. *)
LEMMA KeepRange ==
    ASSUME NEW X, NEW s \in Seq(X), NEW S
    PROVE  Range(Keep(s, S)) = Range(s) \cap S
<1> DEFINE t == Keep(s, S)
<1>1. t \in Seq(X) /\ DOMAIN t = 1 .. Len(t) /\ DOMAIN s = 1 .. Len(s)
  BY KeepLeaves
<1>2. PICK h : Left(t, h, s, S, Len(s))
  BY KeepLeaves
<1> HIDE DEF t
<1>3. \A i \in 1 .. Len(t) : h[i] \in 1 .. Len(s) /\ t[i] = s[h[i]] /\ s[h[i]] \in S
  BY <1>2 DEF Left
<1>4. \A k \in 1 .. Len(s) : s[k] \in S => \E i \in 1 .. Len(t) : h[i] = k
  BY <1>2 DEF Left
<1>5. ASSUME NEW x \in Range(t) PROVE x \in Range(s) \cap S
  BY <1>1, <1>3 DEF Range
<1>6. ASSUME NEW x \in Range(s), x \in S PROVE x \in Range(t)
  <2>1. PICK k \in 1 .. Len(s) : x = s[k]
    BY <1>1 DEF Range
  <2>2. PICK i \in 1 .. Len(t) : h[i] = k
    BY <1>4, <1>6, <2>1
  <2> QED
    BY <1>1, <1>3, <2>1, <2>2 DEF Range
<1> QED
  BY <1>5, <1>6 DEF t

(* A list in which no data is twice. *)
LEMMA KeepInjective ==
    ASSUME NEW X, NEW s \in Seq(X), NEW S, IsInjective(s)
    PROVE  IsInjective(Keep(s, S))
<1> DEFINE t == Keep(s, S)
<1>1. t \in Seq(X) /\ DOMAIN t = 1 .. Len(t) /\ DOMAIN s = 1 .. Len(s)
  BY KeepLeaves
<1>2. PICK h : Left(t, h, s, S, Len(s))
  BY KeepLeaves
<1> HIDE DEF t
<1>3. \A i \in 1 .. Len(t) : h[i] \in 1 .. Len(s) /\ t[i] = s[h[i]]
  BY <1>2 DEF Left
<1>4. ASSUME NEW i \in 1 .. Len(t), NEW j \in 1 .. Len(t), t[i] = t[j] PROVE i = j
  <2>1. h[i] = h[j]
    BY <1>1, <1>3, <1>4 DEF IsInjective
  <2>2. ~(h[i] < h[j]) /\ ~(h[j] < h[i])
    BY <1>3, <2>1
  <2>3. ~(i < j) /\ ~(j < i)
    BY <1>2, <2>2 DEF Left
  <2> QED
    BY <2>3
<1> QED
  BY <1>1, <1>4 DEF IsInjective, t

(* Two nodes that are left stand in their old order. *)
KeptInOrder(s, S) ==
    \A i, j \in 1 .. Len(Keep(s, S)) : i < j =>
        \E k, l \in 1 .. Len(s) : k < l /\ Keep(s, S)[i] = s[k] /\ Keep(s, S)[j] = s[l]

(* They do, whatever is deleted. *)
LEMMA KeepOrder ==
    ASSUME NEW X, NEW s \in Seq(X), NEW S
    PROVE  KeptInOrder(s, S)
<1>1. PICK h : Left(Keep(s, S), h, s, S, Len(s))
  BY KeepLeaves
<1>2. ASSUME NEW i \in 1 .. Len(Keep(s, S)), NEW j \in 1 .. Len(Keep(s, S)), i < j
      PROVE  \E k, l \in 1 .. Len(s) : k < l /\ Keep(s, S)[i] = s[k] /\ Keep(s, S)[j] = s[l]
  <2>1. /\ h[i] \in 1 .. Len(s) /\ Keep(s, S)[i] = s[h[i]]
        /\ h[j] \in 1 .. Len(s) /\ Keep(s, S)[j] = s[h[j]]
        /\ h[i] < h[j]
    BY <1>1, <1>2 DEF Left
  <2> QED
    BY <2>1
<1> QED
  BY <1>2 DEF KeptInOrder

(* The length shrinks by one at least for each position in D. *)
LEMMA KeepShorter ==
    ASSUME NEW X, NEW s \in Seq(X), NEW S,
           NEW D \in SUBSET (1 .. Len(s)), \A k \in D : s[k] \notin S
    PROVE  Len(Keep(s, S)) <= Len(s) - Cardinality(D)
<1> DEFINE t == Keep(s, S)
<1>1. t \in Seq(X) /\ Len(t) \in Nat /\ Len(s) \in Nat
  BY KeepLeaves
<1>2. PICK h : Left(t, h, s, S, Len(s))
  BY KeepLeaves
<1> HIDE DEF t
<1>3. h \in [1 .. Len(t) -> (1 .. Len(s)) \ D]
  BY <1>2 DEF Left
<1>4. \A i, j \in 1 .. Len(t) : h[i] = h[j] => i = j
  <2>1. ASSUME NEW i \in 1 .. Len(t), NEW j \in 1 .. Len(t), h[i] = h[j] PROVE i = j
    <3>1. h[i] \in 1 .. Len(s)
      BY <1>2 DEF Left
    <3>2. ~(h[i] < h[j]) /\ ~(h[j] < h[i])
      BY <2>1, <3>1
    <3>3. ~(i < j) /\ ~(j < i)
      BY <1>2, <3>2 DEF Left
    <3> QED
      BY <3>3
  <2> QED
    BY <2>1
<1>5. h \in Injection(1 .. Len(t), (1 .. Len(s)) \ D)
  BY <1>3, <1>4 DEF Injection, IsInjective
<1>6. /\ IsFiniteSet(1 .. Len(t)) /\ Cardinality(1 .. Len(t)) = Len(t)
      /\ IsFiniteSet(1 .. Len(s)) /\ Cardinality(1 .. Len(s)) = Len(s)
  <2>1. \A n \in Nat : IsFiniteSet(1 .. n) /\ Cardinality(1 .. n) = n
    <3>1. ASSUME NEW n \in Nat PROVE IsFiniteSet(1 .. n) /\ Cardinality(1 .. n) = n
      <4>1. IsFiniteSet(1 .. n) /\ Cardinality(1 .. n) = IF 1 > n THEN 0 ELSE n - 1 + 1
        BY FS_Interval
      <4> QED
        BY <4>1
    <3> QED
      BY <3>1
  <2> QED
    BY <1>1, <2>1
<1>7. (1 .. Len(s)) \cap D = D
  OBVIOUS
<1>8. /\ IsFiniteSet((1 .. Len(s)) \ D)
      /\ Cardinality((1 .. Len(s)) \ D) = Len(s) - Cardinality(D)
  <2> DEFINE I == 1 .. Len(s)
  <2>1. IsFiniteSet(I) /\ Cardinality(I) = Len(s) /\ I \cap D = D
    BY <1>6, <1>7
  <2> HIDE DEF I
  <2>2. IsFiniteSet(I \ D) /\ Cardinality(I \ D) = Cardinality(I) - Cardinality(I \cap D)
    BY <2>1, FS_Difference
  <2>3. IsFiniteSet(I \ D) /\ Cardinality(I \ D) = Len(s) - Cardinality(D)
    BY <2>1, <2>2
  <2> QED
    BY <2>3 DEF I
<1>9. Cardinality(1 .. Len(t)) <= Cardinality((1 .. Len(s)) \ D)
  BY <1>5, <1>8, FS_Injection
<1> QED
  BY <1>6, <1>8, <1>9 DEF t

(* Adding at the tail (listnode_add) what is not in the list yet. *)
LEMMA AppendNew ==
    ASSUME NEW X, NEW s \in Seq(X), NEW x \in X
    PROVE  /\ Append(s, x) \in Seq(X)
           /\ Len(s) \in Nat /\ Len(Append(s, x)) = Len(s) + 1
           /\ DOMAIN Append(s, x) = 1 .. Len(s) + 1
           /\ \A i \in 1 .. Len(s) : Append(s, x)[i] = s[i]
           /\ Append(s, x)[Len(s) + 1] = x
           /\ Range(Append(s, x)) = Range(s) \cup {x}
           /\ IsInjective(s) /\ x \notin Range(s) => IsInjective(Append(s, x))
<1> DEFINE u == Append(s, x)
           l == Len(s)
<1>1. /\ u \in Seq(X) /\ l \in Nat /\ Len(u) = l + 1
      /\ DOMAIN u = 1 .. l + 1 /\ DOMAIN s = 1 .. l
      /\ \A i \in 1 .. l : u[i] = s[i]
      /\ u[l + 1] = x
  OBVIOUS
<1> HIDE DEF u, l
<1>2. \A i \in 1 .. l + 1 : i \in 1 .. l \/ i = l + 1
  BY <1>1
<1>3. \A i \in 1 .. l : i \in 1 .. l + 1 /\ i # l + 1
  BY <1>1
<1>4. l + 1 \in 1 .. l + 1
  BY <1>1
<1>5. Range(u) = Range(s) \cup {x}
  <2>1. ASSUME NEW y \in Range(u) PROVE y \in Range(s) \cup {x}
    BY <1>1, <1>2, <2>1 DEF Range
  <2>2. ASSUME NEW y \in Range(s) PROVE y \in Range(u)
    BY <1>1, <1>3, <2>2 DEF Range
  <2>3. x \in Range(u)
    BY <1>1, <1>4 DEF Range
  <2> QED
    BY <2>1, <2>2, <2>3
<1>6. ASSUME IsInjective(s), x \notin Range(s) PROVE IsInjective(u)
  <2>1. ASSUME NEW i \in 1 .. l PROVE s[i] # x
    BY <1>1, <1>6, <2>1 DEF Range
  <2>2. ASSUME NEW i \in 1 .. l + 1, NEW j \in 1 .. l + 1, u[i] = u[j] PROVE i = j
    <3>1. CASE i \in 1 .. l /\ j \in 1 .. l
      BY <1>1, <1>6, <2>2, <3>1 DEF IsInjective
    <3>2. CASE i \in 1 .. l /\ j = l + 1
      BY <1>1, <2>1, <2>2, <3>2
    <3>3. CASE i = l + 1 /\ j \in 1 .. l
      BY <1>1, <2>1, <2>2, <3>3
    <3> QED
      BY <1>2, <3>1, <3>2, <3>3
  <2> QED
    BY <1>1, <2>2 DEF IsInjective
<1> QED
  BY <1>1, <1>5, <1>6 DEF u, l

(* One list behind another. *)
LEMMA Joined ==
    ASSUME NEW X, NEW s \in Seq(X), NEW t \in Seq(X)
    PROVE  /\ s \o t \in Seq(X)
           /\ Len(s) \in Nat /\ Len(t) \in Nat /\ DOMAIN (s \o t) = 1 .. Len(s) + Len(t)
           /\ \A i \in 1 .. Len(s) + Len(t) :
                IF i <= Len(s) THEN i \in 1 .. Len(s) /\ (s \o t)[i] = s[i]
                ELSE i - Len(s) \in 1 .. Len(t) /\ (s \o t)[i] = t[i - Len(s)]
           /\ Range(s \o t) = Range(s) \cup Range(t)
           /\ (IsInjective(s) /\ IsInjective(t) /\ Range(s) \cap Range(t) = {})
                => IsInjective(s \o t)
<1> DEFINE u == s \o t
           l == Len(s)
           k == Len(t)
<1>1. /\ u \in Seq(X) /\ l \in Nat /\ k \in Nat /\ DOMAIN u = 1 .. l + k
      /\ DOMAIN s = 1 .. l /\ DOMAIN t = 1 .. k
      /\ \A i \in 1 .. l + k : u[i] = IF i <= l THEN s[i] ELSE t[i - l]
  OBVIOUS
<1> HIDE DEF u, l, k
<1>2. \A i \in 1 .. l + k : IF i <= l THEN i \in 1 .. l /\ u[i] = s[i]
                            ELSE i - l \in 1 .. k /\ u[i] = t[i - l]
  BY <1>1
<1>3. Range(u) = Range(s) \cup Range(t)
  <2>1. ASSUME NEW y \in Range(u) PROVE y \in Range(s) \cup Range(t)
    BY <1>1, <1>2, <2>1 DEF Range
  <2>2. ASSUME NEW i \in 1 .. l PROVE s[i] \in Range(u)
    <3>1. i \in 1 .. l + k /\ i <= l
      BY <1>1
    <3> QED
      BY <1>1, <1>2, <3>1 DEF Range
  <2>3. ASSUME NEW i \in 1 .. k PROVE t[i] \in Range(u)
    <3>1. l + i \in 1 .. l + k /\ ~(l + i <= l) /\ (l + i) - l = i
      BY <1>1
    <3> QED
      BY <1>1, <1>2, <3>1 DEF Range
  <2> QED
    BY <1>1, <2>1, <2>2, <2>3 DEF Range
<1>4. ASSUME IsInjective(s), IsInjective(t), Range(s) \cap Range(t) = {},
             NEW i \in 1 .. l + k, NEW j \in 1 .. l + k, u[i] = u[j]
      PROVE  i = j
  <2>1. CASE i <= l /\ j <= l
    BY <1>1, <1>2, <1>4, <2>1 DEF IsInjective
  <2>2. CASE ~(i <= l) /\ ~(j <= l)
    <3>1. i - l = j - l
      BY <1>1, <1>2, <1>4, <2>2 DEF IsInjective
    <3> QED
      BY <1>1, <3>1
  <2>3. CASE i <= l /\ ~(j <= l)
    BY <1>1, <1>2, <1>4, <2>3 DEF Range
  <2>4. CASE ~(i <= l) /\ j <= l
    BY <1>1, <1>2, <1>4, <2>4 DEF Range
  <2> QED
    BY <2>1, <2>2, <2>3, <2>4
<1>5. (IsInjective(s) /\ IsInjective(t) /\ Range(s) \cap Range(t) = {}) => IsInjective(u)
  BY <1>1, <1>4 DEF IsInjective
<1> QED
  BY <1>1, <1>2, <1>3, <1>5 DEF u, l, k

(* A list without its head. *)
LEMMA TailOf ==
    ASSUME NEW X, NEW s \in Seq(X), s # <<>>
    PROVE  /\ Head(s) = s[1] /\ s[1] \in X /\ Tail(s) \in Seq(X) /\ Len(s) \in Nat /\ 1 <= Len(s)
           /\ DOMAIN s = 1 .. Len(s) /\ DOMAIN Tail(s) = 1 .. Len(s) - 1
           /\ \A i \in 1 .. Len(s) - 1 : i + 1 \in 1 .. Len(s) /\ Tail(s)[i] = s[i + 1]
           /\ IsInjective(s) => /\ IsInjective(Tail(s))
                                /\ Range(Tail(s)) = Range(s) \ {Head(s)}
<1> DEFINE u == Tail(s)
           l == Len(s)
<1>1. /\ Head(s) = s[1] /\ s[1] \in X /\ u \in Seq(X) /\ l \in Nat /\ 1 <= l
      /\ DOMAIN s = 1 .. l /\ DOMAIN u = 1 .. l - 1
      /\ \A i \in 1 .. l - 1 : u[i] = s[i + 1]
  OBVIOUS
<1> HIDE DEF u, l
<1>2. \A i \in 1 .. l - 1 : i + 1 \in 1 .. l
  BY <1>1
<1>3. ASSUME IsInjective(s), NEW i \in 1 .. l - 1, NEW j \in 1 .. l - 1, u[i] = u[j] PROVE i = j
  <2>1. i + 1 = j + 1
    BY <1>1, <1>2, <1>3 DEF IsInjective
  <2> QED
    BY <2>1
<1>4. ASSUME IsInjective(s) PROVE Range(u) = Range(s) \ {s[1]}
  <2>1. ASSUME NEW i \in 1 .. l - 1 PROVE u[i] \in Range(s) \ {s[1]}
    <3>1. i + 1 # 1 /\ 1 \in 1 .. l /\ i + 1 \in 1 .. l /\ u[i] = s[i + 1]
      BY <1>1, <1>2
    <3>2. \A k, j \in 1 .. l : s[k] = s[j] => k = j
      BY <1>1, <1>4 DEF IsInjective
    <3>3. s[i + 1] # s[1]
      BY <3>1, <3>2
    <3> QED
      BY <1>1, <3>1, <3>3 DEF Range
  <2>2. ASSUME NEW i \in 1 .. l, s[i] # s[1] PROVE s[i] \in Range(u)
    <3>1. i - 1 \in 1 .. l - 1 /\ (i - 1) + 1 = i
      BY <1>1, <2>2
    <3> QED
      BY <1>1, <3>1 DEF Range
  <2> QED
    <3>1. Range(u) = {u[i] : i \in 1 .. l - 1} /\ Range(s) = {s[i] : i \in 1 .. l}
      BY ONLY <1>1 DEF Range
    <3>2. Range(u) \subseteq Range(s) \ {s[1]}
      BY ONLY <3>1, <2>1
    <3>3. Range(s) \ {s[1]} \subseteq Range(u)
      BY ONLY <3>1, <2>2
    <3> QED
      BY ONLY <3>2, <3>3
<1> QED
  BY <1>1, <1>2, <1>3, <1>4 DEF u, l, IsInjective

=============================================================================
