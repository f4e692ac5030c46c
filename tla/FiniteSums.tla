----------------------------- MODULE FiniteSums -----------------------------
(***************************************************************************)
(* Sums over finite sets: that the recursive definition behind             *)
(* SumFunctionOnSet has a solution, that the order of the summands does    *)
(* not matter, and how a sum changes with a summand.  The ledger and the   *)
(* delivery of notices are proved from these.                              *)
(*                                                                         *)
(* The induction is over a set of subsets and not over a predicate: the    *)
(* least subset that is not among the good ones exists because the strict  *)
(* subsets of a finite set are well founded.                               *)
(***************************************************************************)
EXTENDS FiniteSetsExt, FiniteSetTheorems, WellFoundedInduction, TLAPS

\* A set is good if it is whenever all its strict subsets are.
LEMMA SubsetInduction ==
  ASSUME NEW S, IsFiniteSet(S), NEW Good,
         \A A \in SUBSET S : (\A B \in SUBSET A : B # A => B \in Good) => A \in Good
  PROVE  S \in Good
<1> DEFINE Bad == {A \in SUBSET S : A \notin Good}
<1> SUFFICES ASSUME Bad # {} PROVE FALSE  OBVIOUS
<1>1. Bad \subseteq FiniteSubsetsOf(S)  BY FS_FiniteSubsetsOfFinite
<1>2. IsWellFoundedOn(StrictSubsetOrdering(S), FiniteSubsetsOf(S))
  BY FS_StrictSubsetOrderingWellFounded
<1>3. PICK A \in Bad : \A B \in Bad : <<B, A>> \notin StrictSubsetOrdering(S)
  <2> HIDE DEF Bad
  <2> QED BY <1>1, <1>2, WFMin
<1>4. \A B \in SUBSET A : B # A => B \in Good
  BY <1>3 DEF StrictSubsetOrdering
<1> QED BY <1>3, <1>4

-----------------------------------------------------------------------------
First(S) == CHOOSE x \in S : TRUE

\* What the definition asks of the function it recurs on.
Adds(g, f, S) ==
  g = [s \in SUBSET S |-> IF s = {} THEN 0 ELSE f[First(s)] + g[s \ {First(s)}]]

LEMMA SumUnfolds ==
  ASSUME NEW f, NEW S
  PROVE  SumFunctionOnSet(f, S) = (CHOOSE g : Adds(g, f, S))[S]
BY DEF SumFunctionOnSet, FoldFunctionOnSet, MapThenFoldSet, Adds, First

LEMMA FirstIsIn ==
  ASSUME NEW S, S # {}
  PROVE  First(S) \in S
BY DEF First

\* Two such functions agree where both are defined.
LEMMA SumsAgree ==
  ASSUME NEW f, NEW A, NEW B, NEW g, NEW h, Adds(g, f, A), Adds(h, f, B),
         NEW C, IsFiniteSet(C), C \subseteq A, C \subseteq B
  PROVE  g[C] = h[C]
<1> DEFINE Good == {D \in SUBSET C : g[D] = h[D]}
<1>1. ASSUME NEW D \in SUBSET C, \A E \in SUBSET D : E # D => E \in Good
      PROVE  D \in Good
  <2>1. D \in SUBSET A /\ D \in SUBSET B  OBVIOUS
  <2>2. g[D] = IF D = {} THEN 0 ELSE f[First(D)] + g[D \ {First(D)}]
    BY <2>1 DEF Adds
  <2>3. h[D] = IF D = {} THEN 0 ELSE f[First(D)] + h[D \ {First(D)}]
    BY <2>1 DEF Adds
  <2>4. CASE D = {}  BY <2>2, <2>3, <2>4
  <2>5. CASE D # {}
    <3>1. D \ {First(D)} \in Good  BY <1>1, <2>5, FirstIsIn
    <3> QED BY <2>2, <2>3, <2>5, <3>1
  <2> QED BY <2>4, <2>5
<1>2. C \in Good
  <2> HIDE DEF Good
  <2> QED BY <1>1, SubsetInduction
<1> QED BY <1>2

\* There is such a function.
LEMMA SumExists ==
  ASSUME NEW f, NEW S, IsFiniteSet(S)
  PROVE  Adds(CHOOSE g : Adds(g, f, S), f, S)
<1> DEFINE Solution(A) == CHOOSE g : Adds(g, f, A)
           Good == {A \in SUBSET S : Adds(Solution(A), f, A)}
<1>1. ASSUME NEW A \in SUBSET S, \A B \in SUBSET A : B # A => B \in Good
      PROVE  A \in Good
  <2> DEFINE h == [s \in SUBSET A |->
                     IF s = {} THEN 0
                     ELSE f[First(s)] + Solution(s \ {First(s)})[s \ {First(s)}]]
  <2>1. ASSUME NEW B \in SUBSET A, B # A
        PROVE  h[B] = Solution(B)[B]
    <3>1. Adds(Solution(B), f, B)  BY <1>1, <2>1
    <3>2. Solution(B)[B] = IF B = {} THEN 0
                           ELSE f[First(B)] + Solution(B)[B \ {First(B)}]
      BY <3>1 DEF Adds
    <3>3. CASE B = {}
      BY <3>2, <3>3
    <3>4. CASE B # {}
      <4> DEFINE C == B \ {First(B)}
      <4>1. C \in SUBSET A /\ C # A /\ C \subseteq B /\ IsFiniteSet(C)
        BY <2>1, <3>4, FirstIsIn, FS_Subset
      <4>2. Adds(Solution(C), f, C)  BY <1>1, <4>1
      <4>3. Solution(B)[C] = Solution(C)[C]
        <5> HIDE DEF Solution, C
        <5> QED BY <3>1, <4>1, <4>2, SumsAgree
      <4> QED BY <3>2, <3>4, <4>3
    <3> QED BY <3>3, <3>4
  <2>2. Adds(h, f, A)
    <3>1. ASSUME NEW s \in SUBSET A, s # {}
          PROVE  h[s \ {First(s)}] = Solution(s \ {First(s)})[s \ {First(s)}]
      BY <2>1, <3>1, FirstIsIn
    <3>2. h = [s \in SUBSET A |-> IF s = {} THEN 0 ELSE f[First(s)] + h[s \ {First(s)}]]
      <4> HIDE DEF Solution
      <4> QED BY <3>1
    <3> QED BY <3>2 DEF Adds
  <2>3. Adds(Solution(A), f, A)
    <3> HIDE DEF h
    <3> QED BY <2>2
  <2> QED BY <2>3
<1>2. S \in Good
  <2> HIDE DEF Good
  <2> QED BY <1>1, SubsetInduction
<1> QED BY <1>2

LEMMA SumOfNothing ==
  ASSUME NEW f
  PROVE  SumFunctionOnSet(f, {}) = 0
BY SumUnfolds, SumExists, FS_EmptySet DEF Adds

LEMMA SumFromFirst ==
  ASSUME NEW f, NEW S, IsFiniteSet(S), S # {}
  PROVE  SumFunctionOnSet(f, S) = f[First(S)] + SumFunctionOnSet(f, S \ {First(S)})
<1> DEFINE Solution(A) == CHOOSE g : Adds(g, f, A)
           T == S \ {First(S)}
<1>1. IsFiniteSet(T) /\ T \subseteq S  BY FS_Subset
<1>2. Adds(Solution(S), f, S) /\ Adds(Solution(T), f, T)  BY <1>1, SumExists
<1>3. Solution(S)[S] = f[First(S)] + Solution(S)[T]
  BY <1>2 DEF Adds
<1>4. Solution(S)[T] = Solution(T)[T]
  <2> HIDE DEF Solution, T
  <2> QED BY <1>1, <1>2, SumsAgree
<1> QED BY <1>3, <1>4, SumUnfolds

-----------------------------------------------------------------------------
LEMMA SumType ==
  ASSUME NEW f, NEW S, IsFiniteSet(S), \A x \in S : f[x] \in Nat
  PROVE  SumFunctionOnSet(f, S) \in Nat
<1> DEFINE Good == {A \in SUBSET S : SumFunctionOnSet(f, A) \in Nat}
<1>1. ASSUME NEW A \in SUBSET S, \A B \in SUBSET A : B # A => B \in Good
      PROVE  A \in Good
  <2>1. CASE A = {}  BY <2>1, SumOfNothing
  <2>2. CASE A # {}
    <3>1. First(A) \in A /\ IsFiniteSet(A)  BY <2>2, FirstIsIn, FS_Subset
    <3>2. A \ {First(A)} \in Good  BY <1>1, <3>1
    <3>3. f[First(A)] \in Nat  BY <3>1
    <3> QED BY <2>2, <3>1, <3>2, <3>3, SumFromFirst
  <2> QED BY <2>1, <2>2
<1>2. S \in Good
  <2> HIDE DEF Good
  <2> QED BY <1>1, SubsetInduction
<1> QED BY <1>2

\* Any summand can be taken first.
LEMMA SumFromAny ==
  ASSUME NEW f, NEW S, IsFiniteSet(S), \A x \in S : f[x] \in Nat, NEW x \in S
  PROVE  SumFunctionOnSet(f, S) = f[x] + SumFunctionOnSet(f, S \ {x})
<1> DEFINE Sum(A) == SumFunctionOnSet(f, A)
           Good == {A \in SUBSET S : \A y \in A : Sum(A) = f[y] + Sum(A \ {y})}
<1>1. ASSUME NEW A \in SUBSET S, \A B \in SUBSET A : B # A => B \in Good
      PROVE  A \in Good
  <2> SUFFICES ASSUME NEW y \in A PROVE Sum(A) = f[y] + Sum(A \ {y})  OBVIOUS
  <2> DEFINE z == First(A)
  <2>1. z \in A /\ IsFiniteSet(A)  BY FirstIsIn, FS_Subset
  <2>2. Sum(A) = f[z] + Sum(A \ {z})  BY <2>1, SumFromFirst
  <2> HIDE DEF z
  <2>3. CASE y = z  BY <2>2, <2>3
  <2>4. CASE y # z
    <3>1. A \ {z} \in Good /\ A \ {y} \in Good  BY <1>1, <2>1
    <3>2. Sum(A \ {z}) = f[y] + Sum((A \ {z}) \ {y})  BY <2>1, <2>4, <3>1
    <3>3. Sum(A \ {y}) = f[z] + Sum((A \ {y}) \ {z})  BY <2>1, <2>4, <3>1
    <3>4. (A \ {z}) \ {y} = (A \ {y}) \ {z}  OBVIOUS
    <3>5. Sum((A \ {y}) \ {z}) \in Nat /\ f[y] \in Nat /\ f[z] \in Nat
      <4>1. IsFiniteSet((A \ {y}) \ {z})  BY <2>1, FS_Subset
      <4> QED BY <2>1, <4>1, SumType
    <3> HIDE DEF Sum, Good
    <3> QED BY <2>2, <3>2, <3>3, <3>4, <3>5
  <2> QED BY <2>3, <2>4
<1>2. S \in Good
  <2> HIDE DEF Good
  <2> QED BY <1>1, SubsetInduction
<1> QED BY <1>2

\* A sum depends on its summands only.
LEMMA SumOfSame ==
  ASSUME NEW f, NEW g, NEW S, IsFiniteSet(S), \A x \in S : f[x] = g[x]
  PROVE  SumFunctionOnSet(f, S) = SumFunctionOnSet(g, S)
<1> DEFINE Good == {A \in SUBSET S : SumFunctionOnSet(f, A) = SumFunctionOnSet(g, A)}
<1>1. ASSUME NEW A \in SUBSET S, \A B \in SUBSET A : B # A => B \in Good
      PROVE  A \in Good
  <2>1. CASE A = {}  BY <2>1, SumOfNothing
  <2>2. CASE A # {}
    <3>1. First(A) \in A /\ IsFiniteSet(A)  BY <2>2, FirstIsIn, FS_Subset
    <3>2. A \ {First(A)} \in Good  BY <1>1, <3>1
    <3>3. f[First(A)] = g[First(A)]  BY <3>1
    <3> QED BY <2>2, <3>1, <3>2, <3>3, SumFromFirst
  <2> QED BY <2>1, <2>2
<1>2. S \in Good
  <2> HIDE DEF Good
  <2> QED BY <1>1, SubsetInduction
<1> QED BY <1>2

LEMMA SumOfZeros ==
  ASSUME NEW f, NEW S, IsFiniteSet(S), \A x \in S : f[x] = 0
  PROVE  SumFunctionOnSet(f, S) = 0
<1> DEFINE Good == {A \in SUBSET S : SumFunctionOnSet(f, A) = 0}
<1>1. ASSUME NEW A \in SUBSET S, \A B \in SUBSET A : B # A => B \in Good
      PROVE  A \in Good
  <2>1. CASE A = {}  BY <2>1, SumOfNothing
  <2>2. CASE A # {}
    <3>1. First(A) \in A /\ IsFiniteSet(A)  BY <2>2, FirstIsIn, FS_Subset
    <3>2. A \ {First(A)} \in Good  BY <1>1, <3>1
    <3> QED BY <2>2, <3>1, <3>2, SumFromFirst
  <2> QED BY <2>1, <2>2
<1>2. S \in Good
  <2> HIDE DEF Good
  <2> QED BY <1>1, SubsetInduction
<1> QED BY <1>2

\* A summand more.
LEMMA SumWithOneMore ==
  ASSUME NEW f, NEW g, NEW S, IsFiniteSet(S), NEW x, x \notin S,
         \A y \in S : f[y] \in Nat /\ g[y] = f[y], g[x] \in Nat
  PROVE  SumFunctionOnSet(g, S \cup {x}) = SumFunctionOnSet(f, S) + g[x]
<1>1. IsFiniteSet(S \cup {x})  BY FS_AddElement
<1>2. (S \cup {x}) \ {x} = S  OBVIOUS
<1>3. SumFunctionOnSet(g, S \cup {x}) = g[x] + SumFunctionOnSet(g, S)
  BY <1>1, <1>2, SumFromAny
<1>4. SumFunctionOnSet(g, S) = SumFunctionOnSet(f, S)  BY SumOfSame
<1>5. SumFunctionOnSet(f, S) \in Nat  BY SumType
<1> QED BY <1>3, <1>4, <1>5

\* A summand that changes, comes or goes.  What is not summed up counts 0, so that S and T
\* may be the places where the summands are positive, before and after a step.
LEMMA SumChangesAt ==
  ASSUME NEW f, NEW g, NEW S, NEW T, IsFiniteSet(S), NEW x,
         T \subseteq S \cup {x}, S \subseteq T \cup {x},
         f[x] \in Nat, g[x] \in Nat,
         x \notin S => f[x] = 0,
         x \notin T => g[x] = 0,
         \A y \in S \ {x} : f[y] \in Nat /\ g[y] = f[y]
  PROVE  /\ IsFiniteSet(T)
         /\ SumFunctionOnSet(f, S) \in Nat
         /\ SumFunctionOnSet(g, T) \in Nat
         /\ SumFunctionOnSet(g, T) + f[x] = SumFunctionOnSet(f, S) + g[x]
<1> DEFINE R == S \ {x}
<1>1. IsFiniteSet(R) /\ IsFiniteSet(S \cup {x})  BY FS_Subset, FS_AddElement
<1>2. IsFiniteSet(T)  BY <1>1, FS_Subset
<1>3. R = T \ {x}  OBVIOUS
<1>4. \A y \in S : f[y] \in Nat  OBVIOUS
<1>5. \A y \in T : g[y] \in Nat  OBVIOUS
<1>6. x \notin S => R = S  OBVIOUS
<1>7. x \notin T => R = T  BY <1>3
<1> HIDE DEF R
<1>8. SumFunctionOnSet(f, S) = f[x] + SumFunctionOnSet(f, R)
  <2>1. CASE x \in S  BY <1>4, <2>1, SumFromAny DEF R
  <2>2. CASE x \notin S
    <3>1. R = S /\ SumFunctionOnSet(f, S) \in Nat  BY <1>4, <1>6, <2>2, SumType
    <3> QED BY <2>2, <3>1
  <2> QED BY <2>1, <2>2
<1>9. SumFunctionOnSet(g, T) = g[x] + SumFunctionOnSet(g, R)
  <2>1. CASE x \in T  BY <1>2, <1>3, <1>5, <2>1, SumFromAny
  <2>2. CASE x \notin T
    <3>1. R = T /\ SumFunctionOnSet(g, T) \in Nat  BY <1>2, <1>5, <1>7, <2>2, SumType
    <3> QED BY <2>2, <3>1
  <2> QED BY <2>1, <2>2
<1>10. SumFunctionOnSet(g, R) = SumFunctionOnSet(f, R)  BY <1>1, SumOfSame DEF R
<1>11. SumFunctionOnSet(f, R) \in Nat  BY <1>1, SumType DEF R
<1> QED BY <1>2, <1>8, <1>9, <1>10, <1>11
=============================================================================
