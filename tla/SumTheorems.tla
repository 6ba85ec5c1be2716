---------------------------- MODULE SumTheorems ----------------------------
(***************************************************************************)
(* Facts about sums over finite sets, which the discount budget and the    *)
(* totals of a batch are: a sum can be taken apart at any element, and it  *)
(* grows with its set and with its terms.                                  *)
(*                                                                         *)
(* SumFunctionOnSet is a recursive function.  What it computes is proved   *)
(* by induction on the size of the set: WFMin says that a set of numbers   *)
(* has a least member, and needs no operator for the claim.                *)
(***************************************************************************)
EXTENDS Functions, FiniteSetTheorems, TLAPS

\* A set of numbers that holds 0 and every successor holds every number.
LEMMA Induction ==
    ASSUME NEW T \in SUBSET Nat, 0 \in T, \A n \in T : n + 1 \in T
    PROVE  T = Nat
  <1> DEFINE R == {p \in Nat \X Nat : p[1] < p[2]}
  <1>1. IsWellFoundedOn(R, Nat)
    BY NatLessThanWellFounded, Zenon DEF OpToRel
  <1> SUFFICES ASSUME T # Nat
               PROVE  FALSE
    OBVIOUS
  <1> HIDE DEF R
  <1>2. PICK n \in Nat \ T : \A m \in Nat \ T : <<m, n>> \notin R
    BY <1>1, WFMin
  <1>3. \A m \in Nat : m < n => m \in T
    BY <1>2 DEF R
  <1>4. n - 1 \in T
    BY <1>3
  <1> QED BY <1>2, <1>4

-----------------------------------------------------------------------------
(* The recursion *)

Pick(s) == CHOOSE x \in s : TRUE

\* One round of the sum of f over s, by the sums h of smaller sets.
Round(h, f, s) == IF s = {} THEN 0 ELSE f[Pick(s)] + h[s \ {Pick(s)}]

Iterates(h, f, S) == h = [s \in SUBSET S |-> Round(h, f, s)]

\* The sum that the library defines is this recursion.
LEMMA SumIs ==
    ASSUME NEW f, NEW S
    PROVE  SumFunctionOnSet(f, S) = (CHOOSE h : Iterates(h, f, S))[S]
  BY DEF SumFunctionOnSet, FoldFunctionOnSet, MapThenFoldSet, Iterates, Round,
         Pick

\* A member is left out, and what is left is smaller.
LEMMA Smaller ==
    ASSUME NEW S, IsFiniteSet(S), NEW x \in S
    PROVE  /\ IsFiniteSet(S \ {x})
           /\ Cardinality(S) \in Nat \ {0}
           /\ Cardinality(S \ {x}) = Cardinality(S) - 1
           /\ Cardinality(S \ {x}) \in Nat
  <1>1. /\ IsFiniteSet(S \ {x})
        /\ Cardinality(S \ {x}) = Cardinality(S) - 1
    BY FS_RemoveElement
  <1>2. Cardinality(S) \in Nat /\ Cardinality(S \ {x}) \in Nat
    BY <1>1, FS_CardinalityType
  <1> QED BY <1>1, <1>2

\* What is picked of a set that is not empty is in it.
LEMMA PickIsMember ==
    ASSUME NEW s, s # {}
    PROVE  Pick(s) \in s
  BY DEF Pick

\* The recursion has a solution: a function that solves it for the sets of n
\* members is made into one that solves it for those of n + 1.
LEMMA IterationExists ==
    ASSUME NEW f, NEW S, IsFiniteSet(S)
    PROVE  \E h : Iterates(h, f, S)
  <1> DEFINE Upto(n, h) ==
               /\ h = [s \in SUBSET S |-> h[s]]
               /\ \A s \in SUBSET S : Cardinality(s) <= n =>
                    h[s] = Round(h, f, s)
             T == {n \in Nat : \E h : Upto(n, h)}
  <1>0. \A s \in SUBSET S : IsFiniteSet(s) /\ Cardinality(s) \in Nat
                              /\ Cardinality(s) <= Cardinality(S)
    BY FS_Subset, FS_CardinalityType
  <1>1. 0 \in T
    <2> DEFINE h == [s \in SUBSET S |-> 0]
    <2>1. ASSUME NEW s \in SUBSET S, Cardinality(s) <= 0
          PROVE  s = {}
      BY <1>0, <2>1, FS_EmptySet
    <2>2. Upto(0, h)
      BY <2>1 DEF Round
    <2> QED BY <2>2
  <1>2. ASSUME NEW n \in T
        PROVE  n + 1 \in T
    <2>1. PICK g : Upto(n, g)
      OBVIOUS
    <2> DEFINE h == [s \in SUBSET S |-> Round(g, f, s)]
    <2>2. ASSUME NEW s \in SUBSET S, Cardinality(s) <= n + 1
          PROVE  h[s] = Round(h, f, s)
      <3>1. h[s] = Round(g, f, s)
        OBVIOUS
      <3>2. CASE s = {}
        BY <3>1, <3>2 DEF Round
      <3>3. CASE s # {}
        <4> DEFINE r == s \ {Pick(s)}
        <4>1. r \in SUBSET S /\ Cardinality(r) <= n
          BY <1>0, <2>2, <3>3, PickIsMember, Smaller
        <4>2. h[r] = Round(g, f, r) /\ g[r] = Round(g, f, r)
          BY <2>1, <4>1
        <4>3. h[r] = g[r]
          BY <4>2
        <4> QED BY <3>1, <3>3, <4>3 DEF Round
      <3> QED BY <3>2, <3>3
    <2>3. n \in Nat /\ Upto(n + 1, h)
      BY <2>2
    <2> HIDE DEF Upto, h
    <2> QED BY <2>3
  <1>3. T = Nat
    <2>1. T \in SUBSET Nat
      OBVIOUS
    <2> HIDE DEF T
    <2> QED BY <1>1, <1>2, <2>1, Induction
  <1>4. Cardinality(S) \in T
    BY <1>3, FS_CardinalityType
  <1>5. PICK h : Upto(Cardinality(S), h)
    BY <1>4
  <1>6. h = [s \in SUBSET S |-> Round(h, f, s)]
    BY <1>0, <1>5
  <1> QED BY <1>6 DEF Iterates

\* Two solutions agree where both are defined.
LEMMA IterationsAgree ==
    ASSUME NEW f, NEW S, IsFiniteSet(S), NEW U, NEW g, NEW h,
           Iterates(g, f, S), Iterates(h, f, U)
    PROVE  \A s \in SUBSET (S \cap U) : g[s] = h[s]
  <1> DEFINE T == {n \in Nat : \A s \in SUBSET (S \cap U) :
                                  Cardinality(s) <= n => g[s] = h[s]}
  <1>0. /\ \A s \in SUBSET (S \cap U) : /\ IsFiniteSet(s)
                                        /\ Cardinality(s) \in Nat
        /\ \A s \in SUBSET (S \cap U) : /\ g[s] = Round(g, f, s)
                                        /\ h[s] = Round(h, f, s)
    <2>1. \A s \in SUBSET (S \cap U) : IsFiniteSet(s)
      BY FS_Subset
    <2> QED BY <2>1, FS_CardinalityType DEF Iterates
  <1>1. 0 \in T
    <2>1. ASSUME NEW s \in SUBSET (S \cap U), Cardinality(s) <= 0
          PROVE  g[s] = h[s]
      <3>1. s = {}
        BY <1>0, <2>1, FS_EmptySet
      <3> QED BY <1>0, <3>1 DEF Round
    <2> QED BY <2>1
  <1>2. ASSUME NEW n \in T
        PROVE  n + 1 \in T
    <2>1. ASSUME NEW s \in SUBSET (S \cap U), Cardinality(s) <= n + 1,
                 s # {}
          PROVE  g[s] = h[s]
      <3> DEFINE r == s \ {Pick(s)}
      <3>1. r \in SUBSET (S \cap U) /\ Cardinality(r) <= n
        BY <1>0, <2>1, PickIsMember, Smaller
      <3>2. g[r] = h[r]
        BY <3>1
      <3> QED BY <1>0, <2>1, <3>2 DEF Round
    <2>2. g[{}] = h[{}]
      BY <1>0 DEF Round
    <2> QED BY <2>1, <2>2
  <1>3. T = Nat
    <2>1. T \in SUBSET Nat
      OBVIOUS
    <2> HIDE DEF T
    <2> QED BY <1>1, <1>2, <2>1, Induction
  <1>4. ASSUME NEW s \in SUBSET (S \cap U)
        PROVE  g[s] = h[s]
    <2>1. Cardinality(s) \in T
      BY <1>0, <1>3
    <2> QED BY <1>0, <2>1
  <1> QED BY <1>4

-----------------------------------------------------------------------------
(* Sums *)

\* The sum satisfies the equation it is defined by.
LEMMA SumRecursion ==
    ASSUME NEW f, NEW S, IsFiniteSet(S)
    PROVE  /\ S = {} => SumFunctionOnSet(f, S) = 0
           /\ S # {} => SumFunctionOnSet(f, S) =
                f[Pick(S)] + SumFunctionOnSet(f, S \ {Pick(S)})
  <1> DEFINE Solution(U) == CHOOSE h : Iterates(h, f, U)
             h == Solution(S)
  <1>1. Iterates(h, f, S)
    BY IterationExists
  <1>2. SumFunctionOnSet(f, S) = Round(h, f, S)
    BY <1>1, SumIs DEF Iterates
  <1>3. ASSUME S # {}
        PROVE  SumFunctionOnSet(f, S \ {Pick(S)}) = h[S \ {Pick(S)}]
    <2> DEFINE U == S \ {Pick(S)}
               g == Solution(U)
    <2>1. IsFiniteSet(U)
      BY <1>3, PickIsMember, Smaller
    <2>2. Iterates(g, f, U)
      BY <2>1, IterationExists
    <2>3. U \in SUBSET (U \cap S)
      OBVIOUS
    <2> HIDE DEF h, U
    <2>4. g[U] = h[U]
      <3> HIDE DEF g
      <3> QED BY <1>1, <2>1, <2>2, <2>3, IterationsAgree
    <2>5. SumFunctionOnSet(f, U) = g[U]
      BY SumIs
    <2> QED BY <2>4, <2>5 DEF U
  <1> HIDE DEF h
  <1> QED BY <1>2, <1>3 DEF Round

\* The sum over no indices.
THEOREM SumEmpty ==
    ASSUME NEW f
    PROVE  SumFunctionOnSet(f, {}) = 0
  BY SumRecursion, FS_EmptySet

\* A sum of integers is one, and so is a sum of naturals, whichever members
\* the recursion picks.
THEOREM SumIsInt ==
    ASSUME NEW D, NEW f \in [D -> Int], NEW S \in SUBSET D, IsFiniteSet(S)
    PROVE  SumFunctionOnSet(f, S) \in Int
  <1> DEFINE T == {n \in Nat : \A s \in SUBSET S : Cardinality(s) <= n =>
                                  SumFunctionOnSet(f, s) \in Int}
  <1>0. \A s \in SUBSET S : IsFiniteSet(s) /\ Cardinality(s) \in Nat
    BY FS_Subset, FS_CardinalityType
  <1>1. 0 \in T
    BY <1>0, FS_EmptySet, SumEmpty
  <1>2. ASSUME NEW n \in T
        PROVE  n + 1 \in T
    <2>1. ASSUME NEW s \in SUBSET S, Cardinality(s) <= n + 1, s # {}
          PROVE  SumFunctionOnSet(f, s) \in Int
      <3> DEFINE r == s \ {Pick(s)}
      <3>1. /\ Pick(s) \in D
            /\ r \in SUBSET S
            /\ Cardinality(r) <= n
        BY <1>0, <2>1, PickIsMember, Smaller
      <3>2. SumFunctionOnSet(f, r) \in Int
        BY <3>1
      <3>3. SumFunctionOnSet(f, s) = f[Pick(s)] + SumFunctionOnSet(f, r)
        BY <1>0, <2>1, SumRecursion
      <3> QED BY <3>1, <3>2, <3>3
    <2> QED BY <2>1, SumEmpty
  <1>3. T = Nat
    <2>1. T \in SUBSET Nat
      OBVIOUS
    <2> HIDE DEF T
    <2> QED BY <1>1, <1>2, <2>1, Induction
  <1>4. Cardinality(S) \in T
    BY <1>0, <1>3
  <1> QED BY <1>0, <1>4

\* Any member can be taken out of the sum, not only the one the recursion
\* picks first.
THEOREM SumTakeOut ==
    ASSUME NEW D, NEW f \in [D -> Int], NEW S \in SUBSET D, IsFiniteSet(S),
           NEW x \in S
    PROVE  SumFunctionOnSet(f, S) = f[x] + SumFunctionOnSet(f, S \ {x})
  <1> DEFINE Sum(s) == SumFunctionOnSet(f, s)
             T == {n \in Nat : \A s \in SUBSET S : Cardinality(s) <= n =>
                                  \A y \in s : Sum(s) = f[y] + Sum(s \ {y})}
  <1>1. \A s \in SUBSET S : IsFiniteSet(s) /\ Cardinality(s) \in Nat
    BY FS_Subset, FS_CardinalityType
  <1>2. \A s \in SUBSET S : Sum(s) \in Int
    BY <1>1, SumIsInt
  <1>3. 0 \in T
    BY <1>1, FS_EmptySet
  <1>4. ASSUME NEW n \in T
        PROVE  n + 1 \in T
    <2>1. ASSUME NEW s \in SUBSET S, Cardinality(s) <= n + 1, NEW y \in s
          PROVE  Sum(s) = f[y] + Sum(s \ {y})
      <3> DEFINE p == Pick(s)
                 r == s \ {p}
                 q == s \ {y}
      <3>1. /\ p \in s
            /\ r \in SUBSET S /\ Cardinality(r) <= n
            /\ q \in SUBSET S /\ Cardinality(q) <= n
            /\ r \ {y} \in SUBSET S
        BY <1>1, <2>1, PickIsMember, Smaller
      <3>2. Sum(s) = f[p] + Sum(r)
        BY <1>1, <2>1, SumRecursion
      <3>3. CASE p = y
        BY <3>2, <3>3
      <3>4. CASE p # y
        <4> HIDE DEF Sum, p
        <4>1. y \in r /\ p \in q
          BY <2>1, <3>1, <3>4
        <4>2. Sum(r) = f[y] + Sum(r \ {y})
          BY <3>1, <4>1
        <4>3. Sum(q) = f[p] + Sum(q \ {p})
          BY <3>1, <4>1
        <4>4. r \ {y} = q \ {p}
          OBVIOUS
        <4>5. /\ f[p] \in Int /\ f[y] \in Int
              /\ Sum(r \ {y}) \in Int
          BY <1>2, <2>1, <3>1
        <4>6. Sum(r \ {y}) = Sum(q \ {p})
          BY <4>4
        <4> HIDE DEF r, q
        <4>7. Sum(s) = f[y] + Sum(q)
          BY <3>2, <4>2, <4>3, <4>5, <4>6
        <4> QED BY <4>7 DEF q
      <3> QED BY <3>3, <3>4
    <2> HIDE DEF Sum
    <2> QED BY <2>1
  <1>5. T = Nat
    <2>1. T \in SUBSET Nat
      OBVIOUS
    <2> HIDE DEF T
    <2> QED BY <1>3, <1>4, <2>1, Induction
  <1>6. Cardinality(S) \in T
    BY <1>1, <1>5
  <1> HIDE DEF Sum
  <1>7. Sum(S) = f[x] + Sum(S \ {x})
    BY <1>1, <1>6
  <1> QED BY <1>7 DEF Sum

\* Larger terms over a larger set give a larger sum, if the terms that are
\* added are not negative.
THEOREM SumMonotone ==
    ASSUME NEW D, NEW f \in [D -> Int], NEW E, NEW g \in [E -> Nat],
           NEW U \in SUBSET E, IsFiniteSet(U),
           NEW S \in SUBSET (D \cap U), \A x \in S : f[x] <= g[x]
    PROVE  SumFunctionOnSet(f, S) <= SumFunctionOnSet(g, U)
  <1> DEFINE F(s) == SumFunctionOnSet(f, s)
             G(s) == SumFunctionOnSet(g, s)
             T == {n \in Nat : \A u \in SUBSET U : Cardinality(u) <= n =>
                                  F(S \cap u) <= G(u)}
  <1>1. \A u \in SUBSET U : IsFiniteSet(u) /\ Cardinality(u) \in Nat
    BY FS_Subset, FS_CardinalityType
  <1>2. \A u \in SUBSET U : /\ IsFiniteSet(S \cap u)
                            /\ F(S \cap u) \in Int
                            /\ G(u) \in Int
    <2>1. \A u \in SUBSET U : IsFiniteSet(S \cap u)
      BY FS_Subset
    <2>2. g \in [E -> Int]
      OBVIOUS
    <2>3. ASSUME NEW u \in SUBSET U
          PROVE  G(u) \in Int
      BY <1>1, <2>2, SumIsInt
    <2>4. ASSUME NEW u \in SUBSET U
          PROVE  F(S \cap u) \in Int
      BY <2>1, SumIsInt
    <2> QED BY <2>1, <2>3, <2>4
  <1>3. 0 \in T
    <2>1. ASSUME NEW u \in SUBSET U, Cardinality(u) <= 0
          PROVE  F(S \cap u) <= G(u)
      <3>1. u = {} /\ S \cap u = {}
        BY <1>1, <2>1, FS_EmptySet
      <3> QED BY <3>1, SumEmpty
    <2> QED BY <2>1
  <1>4. ASSUME NEW n \in T
        PROVE  n + 1 \in T
    <2>1. ASSUME NEW u \in SUBSET U, Cardinality(u) <= n + 1, NEW x \in u
          PROVE  F(S \cap u) <= G(u)
      <3> DEFINE r == u \ {x}
      <3>1. r \in SUBSET U /\ Cardinality(r) <= n
        BY <1>1, <2>1, Smaller
      <3>2. G(u) = g[x] + G(r) /\ g[x] \in Nat
        <4>1. g \in [E -> Int] /\ IsFiniteSet(u) /\ u \in SUBSET E
          BY <1>1
        <4>2. SumFunctionOnSet(g, u)
                = g[x] + SumFunctionOnSet(g, u \ {x})
          BY <4>1, SumTakeOut
        <4> QED BY <4>2
      <3>3. F(S \cap r) <= G(r) /\ F(S \cap r) \in Int /\ G(r) \in Int
        BY <1>2, <3>1
      <3>4. CASE x \in S
        <4>1. x \in S \cap u /\ (S \cap u) \ {x} = S \cap r
          BY <3>4
        <4>2. F(S \cap u) = f[x] + F((S \cap u) \ {x})
          <5>1. IsFiniteSet(S \cap u) /\ S \cap u \in SUBSET D
            BY <1>2
          <5> QED BY <4>1, <5>1, SumTakeOut
        <4>3. f[x] <= g[x] /\ f[x] \in Int
          BY <3>4
        <4> HIDE DEF F, G
        <4> QED BY <3>2, <3>3, <4>1, <4>2, <4>3
      <3>5. CASE x \notin S
        <4>1. S \cap u = S \cap r
          BY <3>5
        <4> HIDE DEF F, G
        <4> QED BY <3>2, <3>3, <4>1
      <3> QED BY <3>4, <3>5
    <2>2. F(S \cap {}) <= G({})
      BY <1>3, FS_EmptySet
    <2> HIDE DEF F, G
    <2> QED BY <2>1, <2>2
  <1>5. T = Nat
    <2>1. T \in SUBSET Nat
      OBVIOUS
    <2> HIDE DEF T
    <2> QED BY <1>3, <1>4, <2>1, Induction
  <1>6. Cardinality(U) \in T
    BY <1>1, <1>5
  <1>7. S \cap U = S
    OBVIOUS
  <1> HIDE DEF F, G
  <1>8. F(S \cap U) <= G(U)
    BY <1>1, <1>6
  <1> QED BY <1>7, <1>8 DEF F, G

\* A sum of naturals is a natural, and at least each of its terms.
THEOREM SumOfNats ==
    ASSUME NEW D, NEW f \in [D -> Nat], NEW S \in SUBSET D, IsFiniteSet(S)
    PROVE  /\ SumFunctionOnSet(f, S) \in Nat
           /\ \A x \in S : f[x] <= SumFunctionOnSet(f, S)
  <1>1. f \in [D -> Int]
    OBVIOUS
  <1>2. SumFunctionOnSet(f, S) \in Int
    BY <1>1, SumIsInt
  <1>3. SumFunctionOnSet(f, {}) <= SumFunctionOnSet(f, S)
    BY <1>1, SumMonotone
  <1>4. ASSUME NEW x \in S
        PROVE  f[x] <= SumFunctionOnSet(f, S)
    <2>1. IsFiniteSet({x}) /\ {x} \ {x} = {}
      BY FS_Singleton
    <2>2. SumFunctionOnSet(f, {x}) = f[x] + SumFunctionOnSet(f, {x} \ {x})
      BY <1>1, <2>1, SumTakeOut
    <2>3. SumFunctionOnSet(f, {x}) <= SumFunctionOnSet(f, S)
      BY <1>1, SumMonotone
    <2> QED BY <2>1, <2>2, <2>3, SumEmpty
  <1> QED BY <1>2, <1>3, <1>4, SumEmpty
=============================================================================
