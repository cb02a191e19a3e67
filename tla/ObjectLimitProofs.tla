-------------------------- MODULE ObjectLimitProofs --------------------------
(***************************************************************************)
(* What the proofs about traversals of graphs of objects have in common:   *)
(* sums over the shares of a limit, lists without duplicates, and what can *)
(* be reached from an object.                                              *)
(***************************************************************************)
EXTENDS ObjectLimit, SequencesExt, Functions, FiniteSetTheorems, SequenceTheorems, TLAPS

-----------------------------------------------------------------------------
(* Sums over functions with a finite domain.  SumFunction() is defined by  *)
(* recursion over subsets of the domain.  That there is a function as      *)
(* defined, and that the order in which elements are picked does not       *)
(* matter, is shown by looking at the smallest subset for which it would   *)
(* not hold.                                                               *)
(* Among subsets of a finite set there are ones that contain no other. *)
LEMMA SmallestSubset ==
    ASSUME NEW S, IsFiniteSet(S), NEW B \in SUBSET (SUBSET S), B # {}
    PROVE  \E T \in B : \A U \in B : U \subseteq T => U = T
<1>1. IsWellFoundedOn(StrictSubsetOrdering(S), FiniteSubsetsOf(S))
  BY FS_StrictSubsetOrderingWellFounded
<1>2. FiniteSubsetsOf(S) = SUBSET S
  BY FS_FiniteSubsetsOfFinite
<1>3. PICK T \in B : \A U \in B : ~(<<U, T>> \in StrictSubsetOrdering(S))
  BY <1>1, <1>2, WFMin
<1> QED BY <1>3 DEF StrictSubsetOrdering

Picked(T) == CHOOSE x \in T : TRUE

(* g maps every subset of S to the sum of f over it. *)
IsSum(g, f, S) ==
    g = [T \in SUBSET S |-> IF T = {} THEN 0 ELSE f[Picked(T)] + g[T \ {Picked(T)}]]

LEMMA PickedElement ==
    ASSUME NEW T, T # {}
    PROVE  Picked(T) \in T
  BY DEF Picked

LEMMA IsSumValues ==
    ASSUME NEW f, NEW S, NEW g, IsSum(g, f, S), NEW T \in SUBSET S
    PROVE  g[T] = IF T = {} THEN 0 ELSE f[Picked(T)] + g[T \ {Picked(T)}]
  BY DEF IsSum

LEMMA IsSumUnique ==
    ASSUME NEW f, NEW S, IsFiniteSet(S), NEW g, NEW h, IsSum(g, f, S), IsSum(h, f, S)
    PROVE  g = h
<1> DEFINE B == {T \in SUBSET S : g[T] # h[T]}
<1>1. B = {}
  <2> SUFFICES ASSUME B # {} PROVE FALSE
    OBVIOUS
  <2>0. B \in SUBSET (SUBSET S)
    OBVIOUS
  <2>1. PICK T \in B : \A U \in B : U \subseteq T => U = T
    <3> HIDE DEF B
    <3> QED BY SmallestSubset, <2>0
  <2>2. T # {}
    <3> SUFFICES ASSUME T = {} PROVE FALSE
      OBVIOUS
    <3>1. T \in SUBSET S /\ g[T] # h[T]
      BY <2>1
    <3>2. g[T] = 0
      BY <3>1, IsSumValues
    <3>3. h[T] = 0
      BY <3>1, IsSumValues
    <3> QED BY <3>1, <3>2, <3>3
  <2>3. g[T \ {Picked(T)}] = h[T \ {Picked(T)}]
    BY <2>1, <2>2, PickedElement
  <2> QED BY <2>1, <2>3, IsSumValues
<1>2. \A T \in SUBSET S : g[T] = h[T]
  BY <1>1
<1>3. /\ g = [T \in SUBSET S |-> g[T]]
      /\ h = [T \in SUBSET S |-> h[T]]
  BY DEF IsSum
<1> QED BY <1>2, <1>3

LEMMA IsSumRestricted ==
    ASSUME NEW f, NEW S, NEW T \in SUBSET S, NEW g, IsSum(g, f, S)
    PROVE  IsSum([U \in SUBSET T |-> g[U]], f, T)
<1> DEFINE h == [U \in SUBSET T |-> g[U]]
<1>1. ASSUME NEW U \in SUBSET T
      PROVE  h[U] = IF U = {} THEN 0 ELSE f[Picked(U)] + h[U \ {Picked(U)}]
  <2>1. h[U] = g[U] /\ h[U \ {Picked(U)}] = g[U \ {Picked(U)}]
    OBVIOUS
  <2>2. g[U] = IF U = {} THEN 0 ELSE f[Picked(U)] + g[U \ {Picked(U)}]
    BY IsSumValues
  <2> QED BY <2>1, <2>2
<1>2. h = [U \in SUBSET T |-> h[U]]
  OBVIOUS
<1> HIDE DEF h
<1> QED BY <1>1, <1>2 DEF IsSum, h

TheSum(f, S) == CHOOSE g : IsSum(g, f, S)

HasSum(f, S) == \E g : IsSum(g, f, S)

LEMMA TheSumIsSum ==
    ASSUME NEW f, NEW S, HasSum(f, S)
    PROVE  IsSum(TheSum(f, S), f, S)
  BY DEF HasSum, TheSum

(* The sums of a set and of its subsets agree. *)
LEMMA SumOfSubset ==
    ASSUME NEW f, NEW S, IsFiniteSet(S), HasSum(f, S), NEW T \in SUBSET S
    PROVE  HasSum(f, T) /\ TheSum(f, T)[T] = TheSum(f, S)[T]
<1>1. IsSum([U \in SUBSET T |-> TheSum(f, S)[U]], f, T)
  BY TheSumIsSum, IsSumRestricted
<1>2. HasSum(f, T)
  BY <1>1 DEF HasSum
<1>3. IsFiniteSet(T)
  BY FS_Subset
<1>4. TheSum(f, T) = [U \in SUBSET T |-> TheSum(f, S)[U]]
  BY <1>1, <1>2, <1>3, TheSumIsSum, IsSumUnique
<1> QED BY <1>2, <1>4

LEMMA SumExists ==
    ASSUME NEW f, NEW S, IsFiniteSet(S)
    PROVE  HasSum(f, S)
<1> DEFINE B == {T \in SUBSET S : ~HasSum(f, T)}
<1> SUFFICES ASSUME B # {} PROVE FALSE
  OBVIOUS
<1>0. B \in SUBSET (SUBSET S)
  OBVIOUS
<1>1. PICK T \in B : \A U \in B : U \subseteq T => U = T
  <2> HIDE DEF B
  <2> QED BY SmallestSubset, <1>0
<1> DEFINE Val(U) == TheSum(f, U)[U]
           G == [U \in SUBSET T |-> IF U = {} THEN 0 ELSE f[Picked(U)] + Val(U \ {Picked(U)})]
<1>2. ASSUME NEW V \in SUBSET T, V # T
      PROVE  G[V] = Val(V)
  <2>1. HasSum(f, V) /\ IsFiniteSet(V)
    BY <1>1, <1>2, FS_Subset
  <2>2. Val(V) = IF V = {} THEN 0 ELSE f[Picked(V)] + TheSum(f, V)[V \ {Picked(V)}]
    BY <2>1, TheSumIsSum, IsSumValues
  <2>3. TheSum(f, V)[V \ {Picked(V)}] = Val(V \ {Picked(V)})
    BY <2>1, SumOfSubset
  <2> QED BY <2>2, <2>3
<1>3. ASSUME NEW U \in SUBSET T
      PROVE  G[U] = IF U = {} THEN 0 ELSE f[Picked(U)] + G[U \ {Picked(U)}]
  <2>1. CASE U = {}
    BY <2>1
  <2>2. CASE U # {}
    <3>1. U \ {Picked(U)} \in SUBSET T /\ U \ {Picked(U)} # T
      BY <2>2, PickedElement
    <3>2. G[U \ {Picked(U)}] = Val(U \ {Picked(U)})
      BY <1>2, <3>1
    <3> QED BY <2>2, <3>2
  <2> QED BY <2>1, <2>2
<1>4. G = [U \in SUBSET T |-> G[U]]
  OBVIOUS
<1> HIDE DEF G
<1>5. IsSum(G, f, T)
  BY <1>3, <1>4 DEF IsSum
<1>6. HasSum(f, T)
  BY <1>5 DEF HasSum
<1> QED BY <1>1, <1>6

LEMMA SumIsTheSum ==
    ASSUME NEW f, NEW S
    PROVE  SumFunctionOnSet(f, S) = TheSum(f, S)[S]
  BY DEF SumFunctionOnSet, FoldFunctionOnSet, MapThenFoldSet, TheSum, IsSum, Picked

-----------------------------------------------------------------------------
LEMMA SumOfNothing ==
    ASSUME NEW f
    PROVE  SumFunctionOnSet(f, {}) = 0
<1>1. HasSum(f, {})
  BY SumExists, FS_EmptySet
<1> QED BY <1>1, SumIsTheSum, TheSumIsSum, IsSumValues

LEMMA SumWithoutPicked ==
    ASSUME NEW f, NEW T, IsFiniteSet(T), T # {}
    PROVE  SumFunctionOnSet(f, T) =
              f[Picked(T)] + SumFunctionOnSet(f, T \ {Picked(T)})
<1>1. HasSum(f, T)
  BY SumExists
<1>2. TheSum(f, T)[T] = f[Picked(T)] + TheSum(f, T)[T \ {Picked(T)}]
  BY <1>1, TheSumIsSum, IsSumValues
<1>3. TheSum(f, T)[T \ {Picked(T)}] = TheSum(f, T \ {Picked(T)})[T \ {Picked(T)}]
  BY <1>1, SumOfSubset
<1> QED BY <1>2, <1>3, SumIsTheSum

NoneSmallest(B) == \A T \in B : \E U \in B : U \subseteq T /\ U # T

(* Whatever holds for a set if it holds for the set without the element    *)
(* that is picked from it, holds for every finite set: the induction that  *)
(* the lemmas below are shown by, on the set B of counterexamples.         *)
LEMMA NoSmallest ==
    ASSUME NEW S, IsFiniteSet(S), NEW B \in SUBSET (SUBSET S), NoneSmallest(B)
    PROVE  B = {}
  BY SmallestSubset DEF NoneSmallest

LEMMA SumIsInteger ==
    ASSUME NEW f, NEW S, IsFiniteSet(S), \A x \in S : f[x] \in Int
    PROVE  SumFunctionOnSet(f, S) \in Int
<1> DEFINE B == {T \in SUBSET S : SumFunctionOnSet(f, T) \notin Int}
<1>1. ASSUME NEW T \in B
      PROVE  \E U \in B : U \subseteq T /\ U # T
  <2>1. T # {}
    BY SumOfNothing
  <2>2. IsFiniteSet(T) /\ Picked(T) \in T
    BY <2>1, FS_Subset, PickedElement
  <2>3. SumFunctionOnSet(f, T \ {Picked(T)}) \notin Int
    BY <2>1, <2>2, SumWithoutPicked
  <2> QED BY <2>1, <2>2, <2>3
<1>2. B \in SUBSET (SUBSET S)
  OBVIOUS
<1>3. B = {}
  <2> HIDE DEF B
  <2>1. NoneSmallest(B)
    BY <1>1 DEF NoneSmallest
  <2> QED BY <2>1, <1>2, NoSmallest
<1> QED BY <1>3

LEMMA SumIsNatural ==
    ASSUME NEW f, NEW S, IsFiniteSet(S), \A x \in S : f[x] \in Nat
    PROVE  SumFunctionOnSet(f, S) \in Nat
<1> DEFINE B == {T \in SUBSET S : SumFunctionOnSet(f, T) \notin Nat}
<1>1. ASSUME NEW T \in B
      PROVE  \E U \in B : U \subseteq T /\ U # T
  <2>1. T # {}
    BY SumOfNothing
  <2>2. IsFiniteSet(T) /\ Picked(T) \in T
    BY <2>1, FS_Subset, PickedElement
  <2>3. SumFunctionOnSet(f, T \ {Picked(T)}) \notin Nat
    BY <2>1, <2>2, SumWithoutPicked
  <2> QED BY <2>1, <2>2, <2>3
<1>2. B \in SUBSET (SUBSET S)
  OBVIOUS
<1>3. B = {}
  <2> HIDE DEF B
  <2>1. NoneSmallest(B)
    BY <1>1 DEF NoneSmallest
  <2> QED BY <2>1, <1>2, NoSmallest
<1> QED BY <1>3

LEMMA SumsAgree ==
    ASSUME NEW f, NEW g, NEW S, IsFiniteSet(S), \A x \in S : f[x] = g[x]
    PROVE  SumFunctionOnSet(f, S) = SumFunctionOnSet(g, S)
<1> DEFINE B == {T \in SUBSET S : SumFunctionOnSet(f, T) # SumFunctionOnSet(g, T)}
<1>1. ASSUME NEW T \in B
      PROVE  \E U \in B : U \subseteq T /\ U # T
  <2>1. T # {}
    BY SumOfNothing
  <2>2. IsFiniteSet(T) /\ Picked(T) \in T
    BY <2>1, FS_Subset, PickedElement
  <2>3. SumFunctionOnSet(f, T \ {Picked(T)}) # SumFunctionOnSet(g, T \ {Picked(T)})
    BY <2>1, <2>2, SumWithoutPicked
  <2> QED BY <2>1, <2>2, <2>3
<1>2. B \in SUBSET (SUBSET S)
  OBVIOUS
<1>3. B = {}
  <2> HIDE DEF B
  <2>1. NoneSmallest(B)
    BY <1>1 DEF NoneSmallest
  <2> QED BY <2>1, <1>2, NoSmallest
<1> QED BY <1>3

(* Any element can be set apart, not just the one that is picked. *)
LEMMA SumWithout ==
    ASSUME NEW f, NEW S, IsFiniteSet(S), \A x \in S : f[x] \in Int, NEW e \in S
    PROVE  SumFunctionOnSet(f, S) = f[e] + SumFunctionOnSet(f, S \ {e})
<1> DEFINE Sum(T) == SumFunctionOnSet(f, T)
           B == {T \in SUBSET S : \E x \in T : Sum(T) # f[x] + Sum(T \ {x})}
<1>1. ASSUME NEW T \in B
      PROVE  \E U \in B : U \subseteq T /\ U # T
  <2>1. PICK x \in T : Sum(T) # f[x] + Sum(T \ {x})
    OBVIOUS
  <2>2. IsFiniteSet(T) /\ Picked(T) \in T /\ T \subseteq S
    BY <2>1, FS_Subset, PickedElement
  <2> DEFINE p == Picked(T)
             U == T \ {p}
             V == T \ {x}
  <2>3. Sum(T) = f[p] + Sum(U)
    BY <2>1, <2>2, SumWithoutPicked
  <2>4. p \in V /\ x \in U /\ U \ {x} = V \ {p}
    BY <2>1, <2>2, <2>3
  <2>5. /\ f[x] \in Int /\ f[p] \in Int
        /\ Sum(U \ {x}) \in Int
    BY <2>2, FS_Subset, SumIsInteger, U \ {x} \subseteq S
  <2>6. U \in B \/ V \in B
    <3> SUFFICES ASSUME /\ Sum(U) = f[x] + Sum(U \ {x})
                        /\ Sum(V) = f[p] + Sum(V \ {p})
                 PROVE  FALSE
      BY <2>2, <2>4
    <3> HIDE DEF Sum, p, U, V
    <3>1. V = T \ {x}
      BY DEF V
    <3>2. Sum(V \ {p}) = Sum(U \ {x})
      BY <2>4
    <3>3. f[p] + (f[x] + Sum(U \ {x})) = f[x] + (f[p] + Sum(U \ {x}))
      BY <2>5
    <3> QED BY <2>1, <2>3, <3>1, <3>2, <3>3
  <2>7. U \subseteq T /\ U # T /\ V \subseteq T /\ V # T
    BY <2>2
  <2> HIDE DEF B, U, V
  <2> QED BY <2>1, <2>6, <2>7
<1>2. B \in SUBSET (SUBSET S)
  OBVIOUS
<1>3. B = {}
  <2> HIDE DEF B
  <2>1. NoneSmallest(B)
    BY <1>1 DEF NoneSmallest
  <2> QED BY <2>1, <1>2, NoSmallest
<1> QED BY <1>3

(* The sum of a function of which one element is changed. *)
LEMMA SumChanged ==
    ASSUME NEW S, IsFiniteSet(S), NEW f \in [S -> Int], NEW g \in [S -> Int],
           NEW e \in S, \A x \in S \ {e} : f[x] = g[x]
    PROVE  SumFunction(g) = SumFunction(f) - f[e] + g[e]
<1>1. SumFunction(f) = SumFunctionOnSet(f, S) /\ SumFunction(g) = SumFunctionOnSet(g, S)
  BY DEF SumFunction
<1>2. /\ SumFunctionOnSet(f, S) = f[e] + SumFunctionOnSet(f, S \ {e})
      /\ SumFunctionOnSet(g, S) = g[e] + SumFunctionOnSet(g, S \ {e})
  BY SumWithout
<1>3. IsFiniteSet(S \ {e})
  BY FS_Subset
<1>4. SumFunctionOnSet(f, S \ {e}) = SumFunctionOnSet(g, S \ {e})
  BY <1>3, SumsAgree
<1>5. SumFunctionOnSet(f, S \ {e}) \in Int
  BY <1>3, SumIsInteger
<1> QED BY <1>1, <1>2, <1>4, <1>5

LEMMA SumType ==
    ASSUME NEW S, IsFiniteSet(S), NEW f \in [S -> Nat]
    PROVE  SumFunction(f) \in Nat
  BY SumIsNatural DEF SumFunction

(* A sum of naturals is not smaller than any of them. *)
LEMMA SumBounds ==
    ASSUME NEW S, IsFiniteSet(S), NEW f \in [S -> Nat], NEW e \in S
    PROVE  f[e] <= SumFunction(f)
<1>1. IsFiniteSet(S \ {e})
  BY FS_Subset
<1>2. SumFunctionOnSet(f, S) = f[e] + SumFunctionOnSet(f, S \ {e})
  BY SumWithout
<1>3. SumFunctionOnSet(f, S \ {e}) \in Nat
  BY <1>1, SumIsNatural
<1> QED BY <1>2, <1>3 DEF SumFunction

(* A sum of zeroes. *)
LEMMA SumOfZeroes ==
    ASSUME NEW S, IsFiniteSet(S), NEW f, \A x \in S : f[x] = 0
    PROVE  SumFunctionOnSet(f, S) = 0
<1> DEFINE B == {T \in SUBSET S : SumFunctionOnSet(f, T) # 0}
<1>1. ASSUME NEW T \in B
      PROVE  \E U \in B : U \subseteq T /\ U # T
  <2>1. T # {}
    BY SumOfNothing
  <2>2. IsFiniteSet(T) /\ Picked(T) \in T
    BY <2>1, FS_Subset, PickedElement
  <2>3. SumFunctionOnSet(f, T \ {Picked(T)}) # 0
    BY <2>1, <2>2, SumWithoutPicked
  <2> QED BY <2>1, <2>2, <2>3
<1>2. B \in SUBSET (SUBSET S)
  OBVIOUS
<1>3. B = {}
  <2> HIDE DEF B
  <2>1. NoneSmallest(B)
    BY <1>1 DEF NoneSmallest
  <2> QED BY <2>1, <1>2, NoSmallest
<1> QED BY <1>3

(* Elements that are zero do not matter. *)
LEMMA SumExtended ==
    ASSUME NEW T, IsFiniteSet(T), NEW f, \A x \in T : f[x] \in Int,
           NEW S \in SUBSET T, \A x \in T \ S : f[x] = 0
    PROVE  SumFunctionOnSet(f, T) = SumFunctionOnSet(f, S)
<1> DEFINE Sum(U) == SumFunctionOnSet(f, U)
           B == {U \in SUBSET T : U \cap S = {} /\ Sum(S \cup U) # Sum(S)}
<1>1. ASSUME NEW U \in B
      PROVE  \E V \in B : V \subseteq U /\ V # U
  <2>1. U # {}
    <3>1. S \cup {} = S
      OBVIOUS
    <3> QED BY <3>1
  <2>2. PICK x \in U : TRUE
    BY <2>1
  <2>3. /\ IsFiniteSet(S \cup U) /\ x \in S \cup U /\ f[x] = 0
        /\ (S \cup U) \ {x} = S \cup (U \ {x})
        /\ IsFiniteSet(S \cup (U \ {x}))
        /\ S \cup U \in SUBSET T /\ S \cup (U \ {x}) \in SUBSET T
    BY <2>2, FS_Subset
  <2>4. Sum(S \cup U) = f[x] + Sum((S \cup U) \ {x})
    <3>1. \A y \in S \cup U : f[y] \in Int
      BY <2>3
    <3> QED BY <2>3, <3>1, SumWithout
  <2>5. Sum(S \cup (U \ {x})) \in Int
    BY <2>3, SumIsInteger
  <2>6. Sum(S \cup U) = Sum(S \cup (U \ {x}))
    <3> HIDE DEF Sum
    <3>1. Sum((S \cup U) \ {x}) = Sum(S \cup (U \ {x}))
      BY <2>3
    <3> QED BY <2>3, <2>4, <2>5, <3>1
  <2> HIDE DEF Sum
  <2>7. U \ {x} \in B
    BY <2>2, <2>6
  <2> QED BY <2>2, <2>7
<1>2. B \in SUBSET (SUBSET T)
  OBVIOUS
<1>3. B = {}
  <2> HIDE DEF B
  <2>1. NoneSmallest(B)
    BY <1>1 DEF NoneSmallest
  <2> QED BY <2>1, <1>2, NoSmallest
<1>4. T \ S \in SUBSET T /\ (T \ S) \cap S = {} /\ S \cup (T \ S) = T
  OBVIOUS
<1>5. Sum(S \cup (T \ S)) = Sum(S)
  <2> HIDE DEF Sum
  <2> QED BY <1>3, <1>4
<1> QED BY <1>4, <1>5

-----------------------------------------------------------------------------
LEMMA NothingInEmpty == ToSet(<<>>) = {} /\ IsInjective(<<>>)
  BY DEF ToSet, IsInjective

(* Lists without duplicates. *)
LEMMA ToSetAppend ==
    ASSUME NEW S, NEW q \in Seq(S), NEW x \in S
    PROVE  /\ Append(q, x) \in Seq(S)
           /\ ToSet(Append(q, x)) = ToSet(q) \cup {x}
           /\ IsInjective(q) /\ x \notin ToSet(q) => IsInjective(Append(q, x))
<1>1. /\ Append(q, x) \in Seq(S)
      /\ DOMAIN Append(q, x) = 1 .. (Len(q) + 1) /\ DOMAIN q = 1 .. Len(q)
      /\ \A i \in 1 .. Len(q) : Append(q, x)[i] = q[i]
      /\ Append(q, x)[Len(q) + 1] = x
      /\ Len(q) \in Nat
  BY AppendProperties, LenProperties
<1> DEFINE a == Append(q, x)
<1> HIDE DEF a
<1>2. ToSet(a) = ToSet(q) \cup {x}
  BY <1>1 DEF ToSet, a
<1>3. IsInjective(q) /\ x \notin ToSet(q) => IsInjective(a)
  BY <1>1 DEF ToSet, IsInjective, a
<1> QED BY <1>1, <1>2, <1>3 DEF a

LEMMA ToSetTail ==
    ASSUME NEW S, NEW q \in Seq(S), q # <<>>, IsInjective(q)
    PROVE  /\ Head(q) \in ToSet(q) /\ Head(q) \in S
           /\ Tail(q) \in Seq(S) /\ IsInjective(Tail(q))
           /\ ToSet(Tail(q)) = ToSet(q) \ {Head(q)}
<1>1. /\ Head(q) = q[1] /\ Head(q) \in S /\ Len(q) \in Nat /\ Len(q) > 0
      /\ Tail(q) \in Seq(S)
      /\ DOMAIN q = 1 .. Len(q) /\ DOMAIN Tail(q) = 1 .. (Len(q) - 1)
      /\ \A i \in 1 .. (Len(q) - 1) : Tail(q)[i] = q[i + 1]
  BY HeadTailProperties, LenProperties, EmptySeq
<1> DEFINE a == Tail(q)
           h == Head(q)
<1> HIDE DEF a, h
<1>2. IsInjective(a)
  BY <1>1 DEF IsInjective, a
<1>3. h \in ToSet(q) /\ h \notin ToSet(a)
  BY <1>1 DEF IsInjective, ToSet, a, h
<1>4. ASSUME NEW y \in ToSet(a) PROVE y \in ToSet(q)
  BY <1>1 DEF ToSet, a
<1>5. ASSUME NEW y \in ToSet(q), y # h PROVE y \in ToSet(a)
  <2>1. PICK i \in 1 .. Len(q) : y = q[i]
    BY <1>1 DEF ToSet
  <2>2. i - 1 \in 1 .. (Len(q) - 1) /\ a[i - 1] = q[i]
    BY <1>1, <1>5, <2>1 DEF h, a
  <2> QED BY <1>1, <2>1, <2>2 DEF ToSet, a
<1> QED BY <1>1, <1>2, <1>3, <1>4, <1>5 DEF a, h

LEMMA ToSetFront ==
    ASSUME NEW S, NEW q \in Seq(S), q # <<>>, IsInjective(q)
    PROVE  /\ Last(q) \in ToSet(q) /\ Last(q) \in S
           /\ Front(q) \in Seq(S) /\ IsInjective(Front(q))
           /\ ToSet(Front(q)) = ToSet(q) \ {Last(q)}
           /\ Last(q) # q[1] => Front(q) # <<>> /\ Front(q)[1] = q[1]
           /\ Last(q) = q[1] => q = <<q[1]>>
<1>1. /\ Len(q) \in Nat /\ Len(q) > 0 /\ DOMAIN q = 1 .. Len(q)
      /\ \A i \in 1 .. Len(q) : q[i] \in S
  BY LenProperties, EmptySeq, ElementOfSeq
<1> DEFINE n == Len(q)
           a == Front(q)
<1>2. /\ a \in Seq(S) /\ DOMAIN a = 1 .. (n - 1) /\ Len(a) = n - 1
      /\ \A i \in 1 .. (n - 1) : a[i] = q[i]
  BY <1>1, SubSeqProperties DEF Front
<1> HIDE DEF a, n
<1>3. Last(q) = q[n] /\ q[n] \in S /\ q[n] \in ToSet(q)
  BY <1>1 DEF Last, n, ToSet
<1>4. IsInjective(a)
  BY <1>1, <1>2 DEF IsInjective, n
<1>5. ToSet(a) = ToSet(q) \ {q[n]}
  BY <1>1, <1>2 DEF IsInjective, ToSet, n
<1>6. ASSUME q[n] # q[1] PROVE a # <<>> /\ a[1] = q[1]
  BY <1>1, <1>2, <1>6 DEF n
<1>7. ASSUME q[n] = q[1] PROVE q = <<q[1]>>
  <2>1. Len(q) = 1
    BY <1>1, <1>7 DEF IsInjective, n
  <2> QED BY <2>1, <1>1, SeqEqual
<1> QED BY <1>2, <1>3, <1>4, <1>5, <1>6, <1>7 DEF a

-----------------------------------------------------------------------------
(* Reachable[] is what its definition says.  The objects that are in every *)
(* set that contains o and the children of its members satisfy it.         *)
Closed(C) == \A x \in C : Children[x] \subseteq C
Closure(o) == {p \in Objects : \A C \in SUBSET Objects : o \in C /\ Closed(C) => p \in C}

LEMMA ClosureOf ==
    ASSUME NEW o \in Objects
    PROVE  Closure(o) = {o} \cup UNION {Closure(c) : c \in Children[o]}
<1>1. Children[o] \subseteq Objects
  BY ReferencesAssumption
<1>2. o \in Closure(o)
  BY DEF Closure
<1>3. ASSUME NEW c \in Children[o], NEW p \in Closure(c)
      PROVE  p \in Closure(o)
  BY <1>1 DEF Closure, Closed
<1>4. ASSUME NEW p \in Closure(o), p # o
      PROVE  \E c \in Children[o] : p \in Closure(c)
  <2> DEFINE D == {o} \cup {x \in Objects : \E c \in Children[o] : x \in Closure(c)}
  <2>1. D \in SUBSET Objects /\ o \in D
    OBVIOUS
  <2>2. ASSUME NEW x \in D, NEW y \in Children[x] PROVE y \in D
    <3>1. y \in Objects
      BY <2>1, ReferencesAssumption
    <3>2. CASE x = o
      BY <3>1, <3>2 DEF Closure
    <3>3. CASE x # o
      <4>1. PICK c \in Children[o] : x \in Closure(c)
        BY <3>3
      <4>2. y \in Closure(c)
        BY <3>1, <4>1 DEF Closure, Closed
      <4> QED BY <3>1, <4>1, <4>2
    <3> QED BY <3>2, <3>3
  <2>3. Closed(D)
    BY <2>2 DEF Closed
  <2>4. p \in D
    BY <2>1, <2>3 DEF Closure
  <2> QED BY <2>4, <1>4
<1> QED BY <1>2, <1>3, <1>4

LEMMA ReachableOf ==
    ASSUME NEW o \in Objects
    PROVE  Reachable[o] = {o} \cup UNION {Reachable[c] : c \in Children[o]}
<1> DEFINE IsReachable(f) ==
              f = [x \in Objects |-> {x} \cup UNION {f[c] : c \in Children[x]}]
           F == [x \in Objects |-> Closure(x)]
<1>1. ASSUME NEW x \in Objects
      PROVE  F[x] = {x} \cup UNION {F[c] : c \in Children[x]}
  <2>1. \A c \in Children[x] : F[c] = Closure(c)
    BY ReferencesAssumption
  <2>2. {F[c] : c \in Children[x]} = {Closure(c) : c \in Children[x]}
    BY <2>1
  <2> QED BY <2>2, ClosureOf
<1>2. IsReachable(F)
  <2>1. F = [x \in Objects |-> F[x]]
    OBVIOUS
  <2> HIDE DEF F
  <2> QED BY <1>1, <2>1
<1>3. IsReachable(Reachable)
  <2> HIDE DEF F
  <2>1. Reachable = CHOOSE f : IsReachable(f)
    BY DEF Reachable
  <2> HIDE DEF IsReachable
  <2> QED BY <1>2, <2>1
<1> HIDE DEF F
<1> QED BY <1>3

(* Releasing gives back what was acquired: what remains for the parent,    *)
(* and all of it.                                                          *)
LEMMA ReleaseGivesBack ==
    ASSUME NEW limit \in [count : Nat, sizeBytes : Nat], NEW o \in Objects
    PROVE  LET m == ReleaseChildren(limit, o)
               n == ReleaseParent(limit, o)
               k == ReleaseChildren(n, o)
           IN  /\ m.count + ParentOnly(o).count = limit.count + ParentAndChildren(o).count
               /\ m.sizeBytes + ParentOnly(o).sizeBytes
                     = limit.sizeBytes + ParentAndChildren(o).sizeBytes
               /\ n.count = limit.count + ParentOnly(o).count
               /\ n.sizeBytes = limit.sizeBytes + ParentOnly(o).sizeBytes
               /\ k.count = limit.count + ParentAndChildren(o).count
               /\ k.sizeBytes = limit.sizeBytes + ParentAndChildren(o).sizeBytes
               /\ n.count \in Nat /\ n.sizeBytes \in Nat
               /\ k.count \in Nat /\ k.sizeBytes \in Nat
<1>1. PICK c \in Nat, z \in Nat : limit.count = c /\ limit.sizeBytes = z
  OBVIOUS
<1>2. PICK h \in Nat, y \in Nat, x \in Nat :
        /\ Height[o] = h /\ Size[o] = y /\ MaximumTotalParentsSizeBytes[o] = x
        /\ h = 0 => x = 0
  BY ReferencesAssumption
<1>3. CASE h = 0
  BY <1>1, <1>2, <1>3 DEF ReleaseChildren, ReleaseParent, ParentOnly, ParentAndChildren
<1>4. CASE h > 0
  BY <1>1, <1>2, <1>4 DEF ReleaseChildren, ReleaseParent, ParentOnly, ParentAndChildren
<1> QED BY <1>2, <1>3, <1>4
=============================================================================
