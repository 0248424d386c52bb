------------------------------ MODULE SumProofs -------------------------------
(***************************************************************************)
(* Sums over finite sets, for the properties of this project that add up   *)
(* balances, amounts and prices: the community operator SumFunctionOnSet   *)
(* is defined by recursion over the subsets of its index set.  That the    *)
(* recursion has a solution, and that the sum does not depend on the order *)
(* in which it takes the elements, is shown with smallest counterexamples. *)
(***************************************************************************)
EXTENDS FiniteSetsExt, FiniteSetTheorems, TLAPS

\* A family of subsets of a finite set that is not empty has a smallest member.
LEMMA SmallestSubset ==
    ASSUME NEW S, IsFiniteSet(S), NEW D \in SUBSET (SUBSET S), D # {}
    PROVE  \E u \in D : \A v \in D : v \subseteq u => v = u
<1>1. IsWellFoundedOn(StrictSubsetOrdering(S), SUBSET S)
  BY FS_StrictSubsetOrderingWellFounded, FS_FiniteSubsetsOfFinite
<1>2. PICK u \in D : \A v \in D : ~ (<<v, u>> \in StrictSubsetOrdering(S))
  BY <1>1, WFMin
<1>3. ASSUME NEW v \in D, v \subseteq u, v # u
      PROVE  FALSE
  <2>1. <<v, u>> \in StrictSubsetOrdering(S)
    BY <1>3 DEF StrictSubsetOrdering
  <2> QED
    BY <1>2, <2>1
<1> QED
  BY <1>2, <1>3

-----------------------------------------------------------------------------
(* The recursion has one solution. *)

Picked(s) == CHOOSE x \in s : TRUE

\* Function g solves the recursion that defines the sums of f over subsets of S.
Solves(f, S, g) ==
    g = [s \in SUBSET S |-> IF s = {} THEN 0 ELSE f[Picked(s)] + g[s \ {Picked(s)}]]

LEMMA SumUnfolded ==
    ASSUME NEW f, NEW S
    PROVE  SumFunctionOnSet(f, S) = (CHOOSE g : Solves(f, S, g))[S]
BY DEF SumFunctionOnSet, FoldFunctionOnSet, MapThenFoldSet, Solves, Picked

LEMMA PickedIn ==
    ASSUME NEW s, s # {}
    PROVE  Picked(s) \in s
BY DEF Picked

\* What a solution gives for a set depends only on the terms of that set.
LEMMA SolutionsAgree ==
    ASSUME NEW f, NEW S, IsFiniteSet(S), NEW g, Solves(f, S, g),
           NEW k, NEW T, NEW h, Solves(k, T, h),
           NEW U, U \subseteq S, U \subseteq T, \A x \in U : f[x] = k[x]
    PROVE  g[U] = h[U]
<1> DEFINE D == {u \in SUBSET U : g[u] # h[u]}
<1>1. ASSUME D # {}
      PROVE  FALSE
  <2>1. IsFiniteSet(U) /\ D \in SUBSET (SUBSET U)
    BY FS_Subset
  <2>2. PICK u \in D : \A v \in D : v \subseteq u => v = u
    <3> HIDE DEF D
    <3> QED
      BY <1>1, <2>1, SmallestSubset
  <2>3. u \in SUBSET S /\ u \in SUBSET T
    OBVIOUS
  <2>4. /\ g[u] = IF u = {} THEN 0 ELSE f[Picked(u)] + g[u \ {Picked(u)}]
        /\ h[u] = IF u = {} THEN 0 ELSE k[Picked(u)] + h[u \ {Picked(u)}]
    BY <2>3 DEF Solves
  <2>5. u # {}
    BY <2>4
  <2>6. Picked(u) \in u
    BY <2>5, PickedIn
  <2>7. f[Picked(u)] = k[Picked(u)]
    BY <2>6
  <2>8. g[u \ {Picked(u)}] = h[u \ {Picked(u)}]
    BY <2>2, <2>6
  <2> QED
    BY <2>4, <2>5, <2>7, <2>8
<1> QED
  BY <1>1

LEMMA SolutionExists ==
    ASSUME NEW f, NEW S, IsFiniteSet(S)
    PROVE  \E g : Solves(f, S, g)
<1> DEFINE D == {u \in SUBSET S : ~\E g : Solves(f, u, g)}
<1>1. ASSUME D # {}
      PROVE  FALSE
  <2>1. PICK u \in D : \A v \in D : v \subseteq u => v = u
    <3>1. D \in SUBSET (SUBSET S)
      OBVIOUS
    <3> HIDE DEF D
    <3> QED
      BY <1>1, <3>1, SmallestSubset
  <2>2. IsFiniteSet(u)
    BY FS_Subset
  <2> DEFINE sol(v) == CHOOSE g : Solves(f, v, g)
             sum(v) == sol(v)[v]
             h == [s \in SUBSET u |->
                     IF s = {} THEN 0 ELSE f[Picked(s)] + sum(s \ {Picked(s)})]
  <2>3. ASSUME NEW v \in SUBSET u, v # u
        PROVE  Solves(f, v, sol(v))
    <3>1. \E g : Solves(f, v, g)
      BY <2>1, <2>3
    <3> QED
      BY <3>1
  <2>4. ASSUME NEW v \in SUBSET u, v # u
        PROVE  sum(v) = h[v]
    <3>1. Solves(f, v, sol(v))
      BY <2>3, <2>4
    <3>2. sum(v) = IF v = {} THEN 0 ELSE f[Picked(v)] + sol(v)[v \ {Picked(v)}]
      <4> HIDE DEF sol
      <4> QED
        BY <3>1 DEF Solves
    <3>3. CASE v = {}
      BY <3>2, <3>3
    <3>4. CASE v # {}
      <4> DEFINE w == v \ {Picked(v)}
      <4>1. Picked(v) \in v
        BY <3>4, PickedIn
      <4>2. w \in SUBSET u /\ w # u /\ w \subseteq v
        BY <4>1
      <4>3. Solves(f, w, sol(w)) /\ IsFiniteSet(v)
        BY <2>2, <2>3, <4>2, FS_Subset
      <4>4. sol(v)[w] = sol(w)[w]
        <5> HIDE DEF sol, w
        <5> QED
          BY <3>1, <4>2, <4>3, SolutionsAgree
      <4>5. h[v] = f[Picked(v)] + sum(w)
        BY <3>4
      <4> HIDE DEF sol, w, h
      <4>6. sum(v) = f[Picked(v)] + sol(v)[w]
        BY <3>2, <3>4 DEF w
      <4> QED
        BY <4>4, <4>5, <4>6
    <3> QED
      BY <3>3, <3>4
  <2>5. ASSUME NEW s \in SUBSET u, s # {}
        PROVE  sum(s \ {Picked(s)}) = h[s \ {Picked(s)}]
    <3>1. Picked(s) \in s
      BY <2>5, PickedIn
    <3>2. s \ {Picked(s)} \in SUBSET u /\ s \ {Picked(s)} # u
      BY <3>1
    <3> HIDE DEF sum, h
    <3> QED
      BY <2>4, <3>2
  <2>6. Solves(f, u, h)
    <3>1. \A s \in SUBSET u : h[s] = IF s = {} THEN 0 ELSE f[Picked(s)] + sum(s \ {Picked(s)})
      OBVIOUS
    <3>2. h = [s \in SUBSET u |-> h[s]]
      OBVIOUS
    <3> HIDE DEF sum, h
    <3>3. \A s \in SUBSET u : h[s] = IF s = {} THEN 0 ELSE f[Picked(s)] + h[s \ {Picked(s)}]
      BY <2>5, <3>1
    <3> QED
      BY <3>2, <3>3 DEF Solves
  <2> QED
    BY <2>1, <2>6
<1> QED
  BY <1>1

-----------------------------------------------------------------------------
(* What the sums are, in the form in which the other proofs cite them. *)

LEMMA SumSolves ==
    ASSUME NEW f, NEW S, IsFiniteSet(S)
    PROVE  \E g : Solves(f, S, g) /\ SumFunctionOnSet(f, S) = g[S]
<1> DEFINE g == CHOOSE h : Solves(f, S, h)
<1>1. Solves(f, S, g)
  BY SolutionExists
<1>2. SumFunctionOnSet(f, S) = g[S]
  BY SumUnfolded
<1> HIDE DEF g
<1> QED
  BY <1>1, <1>2

THEOREM SumEmpty ==
    ASSUME NEW f
    PROVE  SumFunctionOnSet(f, {}) = 0
<1>1. PICK g : Solves(f, {}, g) /\ SumFunctionOnSet(f, {}) = g[{}]
  BY SumSolves, FS_EmptySet
<1> QED
  BY <1>1 DEF Solves

\* A sum depends on nothing but its terms.
THEOREM SumAgrees ==
    ASSUME NEW f, NEW k, NEW S, IsFiniteSet(S), \A x \in S : f[x] = k[x]
    PROVE  SumFunctionOnSet(f, S) = SumFunctionOnSet(k, S)
<1>1. PICK g : Solves(f, S, g) /\ SumFunctionOnSet(f, S) = g[S]
  BY SumSolves
<1>2. PICK h : Solves(k, S, h) /\ SumFunctionOnSet(k, S) = h[S]
  BY SumSolves
<1> QED
  BY <1>1, <1>2, SolutionsAgree

LEMMA SumOfPicked ==
    ASSUME NEW f, NEW S, IsFiniteSet(S), S # {}
    PROVE  SumFunctionOnSet(f, S) = f[Picked(S)] + SumFunctionOnSet(f, S \ {Picked(S)})
<1> DEFINE T == S \ {Picked(S)}
<1>1. PICK g : Solves(f, S, g) /\ SumFunctionOnSet(f, S) = g[S]
  BY SumSolves
<1>2. IsFiniteSet(T) /\ T \subseteq S
  BY FS_Subset
<1>3. PICK h : Solves(f, T, h) /\ SumFunctionOnSet(f, T) = h[T]
  BY <1>2, SumSolves
<1>4. g[S] = f[Picked(S)] + g[T]
  BY <1>1 DEF Solves
<1> HIDE DEF T
<1>5. g[T] = h[T]
  BY <1>1, <1>2, <1>3, SolutionsAgree
<1>6. SumFunctionOnSet(f, S) = f[Picked(S)] + SumFunctionOnSet(f, T)
  BY <1>1, <1>3, <1>4, <1>5
<1> QED
  BY <1>6 DEF T

\* A sum of integers is one.
THEOREM SumIsInt ==
    ASSUME NEW f, NEW S, IsFiniteSet(S), \A x \in S : f[x] \in Int
    PROVE  SumFunctionOnSet(f, S) \in Int
<1> DEFINE D == {u \in SUBSET S : SumFunctionOnSet(f, u) \notin Int}
<1>1. ASSUME D # {}
      PROVE  FALSE
  <2>1. PICK u \in D : \A v \in D : v \subseteq u => v = u
    <3>1. D \in SUBSET (SUBSET S)
      OBVIOUS
    <3> HIDE DEF D
    <3> QED
      BY <1>1, <3>1, SmallestSubset
  <2>2. IsFiniteSet(u) /\ u # {}
    <3>1. SumFunctionOnSet(f, {}) \in Int
      BY SumEmpty
    <3> QED
      BY <2>1, <3>1, FS_Subset
  <2>3. Picked(u) \in u
    BY <2>2, PickedIn
  <2>4. SumFunctionOnSet(f, u) = f[Picked(u)] + SumFunctionOnSet(f, u \ {Picked(u)})
    BY <2>2, SumOfPicked
  <2>5. SumFunctionOnSet(f, u \ {Picked(u)}) \in Int
    BY <2>1, <2>3
  <2> QED
    BY <2>3, <2>4, <2>5
<1> QED
  BY <1>1

\* Any element can be taken out of a sum first.
THEOREM SumTakeOut ==
    ASSUME NEW f, NEW S, IsFiniteSet(S), \A x \in S : f[x] \in Int, NEW x \in S
    PROVE  SumFunctionOnSet(f, S) = f[x] + SumFunctionOnSet(f, S \ {x})
<1> DEFINE sum(u) == SumFunctionOnSet(f, u)
           D == {u \in SUBSET S : \E y \in u : sum(u) # f[y] + sum(u \ {y})}
<1>1. ASSUME D # {}
      PROVE  FALSE
  <2>1. PICK u \in D : \A v \in D : v \subseteq u => v = u
    <3>1. D \in SUBSET (SUBSET S)
      OBVIOUS
    <3> HIDE DEF D
    <3> QED
      BY <1>1, <3>1, SmallestSubset
  <2>2. PICK y \in u : sum(u) # f[y] + sum(u \ {y})
    OBVIOUS
  <2> DEFINE c == Picked(u)
             w == (u \ {c}) \ {y}
  <2>3. IsFiniteSet(u) /\ c \in u
    BY FS_Subset, PickedIn
  <2>4. sum(u) = f[c] + sum(u \ {c})
    BY <2>3, SumOfPicked
  <2>5. c # y
    BY <2>2, <2>4
  <2> HIDE DEF c, sum
  <2>6. sum(u \ {c}) = f[y] + sum(w)
    <3>1. u \ {c} \in SUBSET S /\ u \ {c} # u /\ y \in u \ {c}
      BY <2>3, <2>5
    <3>2. u \ {c} \notin D
      BY <2>1, <3>1
    <3> QED
      BY <3>1, <3>2
  <2>7. sum(u \ {y}) = f[c] + sum(w)
    <3>1. (u \ {y}) \ {c} = w
      OBVIOUS
    <3>2. u \ {y} \in SUBSET S /\ u \ {y} # u /\ c \in u \ {y}
      BY <2>3, <2>5
    <3>3. u \ {y} \notin D
      BY <2>1, <3>2
    <3> QED
      BY <3>1, <3>2, <3>3
  <2>8. f[c] \in Int /\ f[y] \in Int /\ sum(w) \in Int
    <3>1. w \subseteq S /\ IsFiniteSet(w)
      BY FS_Subset
    <3> QED
      BY <2>3, <3>1, SumIsInt DEF sum
  <2> HIDE DEF w
  <2> QED
    BY <2>2, <2>4, <2>6, <2>7, <2>8
<1>2. S \notin D
  BY <1>1
<1> QED
  BY <1>2

\* A term that is added to a sum.
THEOREM SumAddOne ==
    ASSUME NEW f, NEW S, IsFiniteSet(S), \A x \in S : f[x] \in Int,
           NEW x, x \notin S, f[x] \in Int
    PROVE  SumFunctionOnSet(f, S \cup {x}) = SumFunctionOnSet(f, S) + f[x]
<1>1. IsFiniteSet(S \cup {x}) /\ (S \cup {x}) \ {x} = S
  BY FS_AddElement
<1>2. SumFunctionOnSet(f, S \cup {x}) = f[x] + SumFunctionOnSet(f, S)
  BY <1>1, SumTakeOut
<1>3. SumFunctionOnSet(f, S) \in Int
  BY SumIsInt
<1> QED
  BY <1>2, <1>3

\* One term that changes.
THEOREM SumChangeOne ==
    ASSUME NEW f, NEW k, NEW S, IsFiniteSet(S),
           \A x \in S : f[x] \in Int /\ k[x] \in Int,
           NEW x \in S, \A y \in S \ {x} : k[y] = f[y]
    PROVE  SumFunctionOnSet(k, S) = SumFunctionOnSet(f, S) - f[x] + k[x]
<1>1. IsFiniteSet(S \ {x})
  BY FS_Subset
<1>2. /\ SumFunctionOnSet(f, S) = f[x] + SumFunctionOnSet(f, S \ {x})
      /\ SumFunctionOnSet(k, S) = k[x] + SumFunctionOnSet(k, S \ {x})
  BY SumTakeOut
<1>3. SumFunctionOnSet(k, S \ {x}) = SumFunctionOnSet(f, S \ {x})
  BY <1>1, SumAgrees
<1>4. SumFunctionOnSet(f, S \ {x}) \in Int
  BY <1>1, SumIsInt
<1> QED
  BY <1>2, <1>3, <1>4

\* A sum of naturals is one, and no less than any of its terms.
THEOREM SumIsNat ==
    ASSUME NEW f, NEW S, IsFiniteSet(S), \A x \in S : f[x] \in Nat
    PROVE  /\ SumFunctionOnSet(f, S) \in Nat
           /\ \A x \in S : f[x] <= SumFunctionOnSet(f, S)
<1> DEFINE sum(u) == SumFunctionOnSet(f, u)
           D == {u \in SUBSET S : sum(u) \notin Nat}
<1>1. ASSUME D # {}
      PROVE  FALSE
  <2>1. PICK u \in D : \A v \in D : v \subseteq u => v = u
    <3>1. D \in SUBSET (SUBSET S)
      OBVIOUS
    <3> HIDE DEF D
    <3> QED
      BY <1>1, <3>1, SmallestSubset
  <2>2. IsFiniteSet(u) /\ u # {}
    <3>1. IsFiniteSet(u)
      BY FS_Subset
    <3>2. sum({}) = 0
      BY SumEmpty
    <3>3. sum(u) \notin Nat
      BY <2>1
    <3> HIDE DEF sum
    <3> QED
      BY <3>1, <3>2, <3>3
  <2>3. PICK x \in u : TRUE
    BY <2>2
  <2>4. sum(u) = f[x] + sum(u \ {x})
    BY <2>2, <2>3, SumTakeOut
  <2>5. u \ {x} \in SUBSET S /\ u \ {x} \subseteq u /\ u \ {x} # u
    BY <2>3
  <2>6. sum(u \ {x}) \in Nat
    <3>1. u \ {x} \notin D
      BY <2>1, <2>5
    <3> HIDE DEF sum
    <3> QED
      BY <2>5, <3>1
  <2> HIDE DEF sum
  <2> QED
    BY <2>3, <2>4, <2>6
<1>2. \A u \in SUBSET S : sum(u) \in Nat
  BY <1>1
<1>3. ASSUME NEW x \in S
      PROVE  f[x] <= sum(S)
  <2>1. sum(S) = f[x] + sum(S \ {x})
    BY SumTakeOut
  <2>2. sum(S \ {x}) \in Nat
    BY <1>2
  <2> HIDE DEF sum
  <2> QED
    BY <2>1, <2>2
<1> QED
  BY <1>2, <1>3

=============================================================================
