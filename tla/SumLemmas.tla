------------------------------ MODULE SumLemmas ------------------------------
(***************************************************************************)
(* Lemmas about sums over finite sets, about putting a finite set in       *)
(* order, and about folds along a list, for the theorems about books: what *)
(* a stock, a debt or a paid salary adds up to, and what a pass over the   *)
(* lines of a statement ends with.                                         *)
(*                                                                         *)
(* The induction they need is that of well-founded sets, in its            *)
(* first-order form: a set of subsets that is not empty has a smallest     *)
(* member, so a smallest counterexample can be looked at.                  *)
(***************************************************************************)
EXTENDS Integers, FiniteSets, FiniteSetsExt, Functions, FiniteSetTheorems,
        WellFoundedInduction, TLAPS

\* Of a set of subsets of a finite set that is not empty, one has no proper
\* subset in it: the form of induction used below.
LEMMA SmallestSubset ==
    ASSUME NEW S, IsFiniteSet(S), NEW Bad \in SUBSET (SUBSET S), Bad # {}
    PROVE  \E T \in Bad : \A U \in SUBSET T : U # T => U \notin Bad
<1>1. IsWellFoundedOn(StrictSubsetOrdering(S), FiniteSubsetsOf(S))
  BY FS_StrictSubsetOrderingWellFounded
<1>2. FiniteSubsetsOf(S) = SUBSET S
  BY FS_FiniteSubsetsOfFinite
<1>3. PICK T \in Bad : \A U \in Bad : <<U, T>> \notin StrictSubsetOrdering(S)
  BY <1>1, <1>2, WFMin
<1>4. ASSUME NEW U \in SUBSET T, U # T PROVE U \notin Bad
  <2>1. U \in SUBSET S /\ T \in SUBSET S
    OBVIOUS
  <2>2. <<U, T>> \in StrictSubsetOrdering(S)
    BY <2>1, <1>4 DEF StrictSubsetOrdering
  <2>. QED BY <1>3, <2>2
<1>. QED BY <1>4

\* The member of S a sum takes first.
Leading(S) == CHOOSE x \in S : TRUE

\* The member taken first is a member.
LEMMA LeadingIsMember == ASSUME NEW S, S # {} PROVE Leading(S) \in S
BY DEF Leading

\* g maps every subset of S to its sum under f, the way the fold works.
Adds(S, f, g) ==
    g = [s \in SUBSET S |-> IF s = {} THEN 0 ELSE f[Leading(s)] + g[s \ {Leading(s)}]]

\* The sum of the library is the value of such a function.
LEMMA SumIsChosen ==
    ASSUME NEW S, NEW f
    PROVE  SumFunctionOnSet(f, S) = (CHOOSE g : Adds(S, f, g))[S]
BY DEF SumFunctionOnSet, FoldFunctionOnSet, MapThenFoldSet, Adds, Leading

\* What such a function says of a subset, one step at a time.
LEMMA AddsStep ==
    ASSUME NEW S, NEW f, NEW g, Adds(S, f, g), NEW T \in SUBSET S
    PROVE  /\ T = {} => g[T] = 0
           /\ T # {} => g[T] = f[Leading(T)] + g[T \ {Leading(T)}]
BY DEF Adds

\* There is at most one such function.
LEMMA AddsOnce ==
    ASSUME NEW S, NEW R, IsFiniteSet(S), NEW f, NEW g, NEW h, Adds(S, f, g),
           Adds(R, f, h), NEW T \in SUBSET (S \cap R)
    PROVE  g[T] = h[T]
<1>. DEFINE Bad == {U \in SUBSET (S \cap R) : g[U] # h[U]}
<1>1. SUFFICES ASSUME Bad # {} PROVE FALSE
  OBVIOUS
<1>2. IsFiniteSet(S \cap R)
  BY FS_Intersection
<1>3. PICK U \in Bad : \A V \in SUBSET U : V # U => V \notin Bad
  <2>. HIDE DEF Bad
  <2>1. Bad \in SUBSET (SUBSET (S \cap R))
    BY DEF Bad
  <2>. QED BY <1>1, <1>2, <2>1, SmallestSubset
<1>4. U \in SUBSET S /\ U \in SUBSET R
  OBVIOUS
<1>5. CASE U = {}
  BY <1>4, <1>5, AddsStep
<1>6. CASE U # {}
  <2>1. Leading(U) \in U
    BY <1>6, LeadingIsMember
  <2>2. U \ {Leading(U)} \in SUBSET U /\ U \ {Leading(U)} # U
    BY <2>1
  <2>3. g[U \ {Leading(U)}] = h[U \ {Leading(U)}]
    BY <1>3, <2>2
  <2>. HIDE DEF Bad
  <2>4. g[U] = f[Leading(U)] + g[U \ {Leading(U)}]
    BY <1>4, <1>6 DEF Adds
  <2>5. h[U] = f[Leading(U)] + h[U \ {Leading(U)}]
    BY <1>4, <1>6 DEF Adds
  <2>6. g[U] # h[U]
    BY DEF Bad
  <2>. QED BY <2>3, <2>4, <2>5, <2>6
<1>. QED BY <1>5, <1>6

\* Where such a function exists, it is the library's sum on every subset.
LEMMA AddsIsSum ==
    ASSUME NEW S, IsFiniteSet(S), NEW f, NEW g, Adds(S, f, g)
    PROVE  g[S] = SumFunctionOnSet(f, S)
<1>1. Adds(S, f, CHOOSE h : Adds(S, f, h))
  OBVIOUS
<1>2. g[S] = (CHOOSE h : Adds(S, f, h))[S]
  BY <1>1, AddsOnce
<1>. QED BY <1>2, SumIsChosen

\* It also exists for every subset.
LEMMA AddsBelow ==
    ASSUME NEW S, NEW f, NEW g, Adds(S, f, g), NEW T \in SUBSET S
    PROVE  Adds(T, f, [s \in SUBSET T |-> g[s]])
<1>. DEFINE h == [s \in SUBSET T |-> g[s]]
<1>1. ASSUME NEW s \in SUBSET T
      PROVE  h[s] = IF s = {} THEN 0 ELSE f[Leading(s)] + h[s \ {Leading(s)}]
  <2>1. s \in SUBSET S /\ s \ {Leading(s)} \in SUBSET T
    OBVIOUS
  <2>. QED BY <2>1, AddsStep
<1>. QED BY <1>1 DEF Adds

\* A sum takes one member first and adds the sum of the others.
LEMMA AddsUnfolds ==
    ASSUME NEW S, IsFiniteSet(S), NEW f, \E g : Adds(S, f, g)
    PROVE  /\ S = {} => SumFunctionOnSet(f, S) = 0
           /\ S # {} => SumFunctionOnSet(f, S)
                = f[Leading(S)] + SumFunctionOnSet(f, S \ {Leading(S)})
<1>1. PICK g : Adds(S, f, g)
  OBVIOUS
<1>2. SumFunctionOnSet(f, S) = g[S]
  BY <1>1, AddsIsSum
<1>. DEFINE T == S \ {Leading(S)}
<1>3. IsFiniteSet(T) /\ T \in SUBSET S
  BY FS_Subset
<1>4. Adds(T, f, [s \in SUBSET T |-> g[s]])
  <2>. HIDE DEF T
  <2>. QED BY <1>1, <1>3, AddsBelow
<1>5. SumFunctionOnSet(f, T) = g[T]
  <2>. HIDE DEF T
  <2>1. [s \in SUBSET T |-> g[s]][T] = SumFunctionOnSet(f, T)
    BY <1>3, <1>4, AddsIsSum
  <2>. QED BY <2>1
<1>. QED BY <1>1, <1>2, <1>5, AddsStep

\* Such a function exists for every finite set.
LEMMA AddsExists ==
    ASSUME NEW S, IsFiniteSet(S), NEW f
    PROVE  \E g : Adds(S, f, g)
<1>. DEFINE Bad == {U \in SUBSET S : ~ \E g : Adds(U, f, g)}
<1>1. SUFFICES ASSUME Bad # {} PROVE FALSE
  OBVIOUS
<1>2. PICK U \in Bad : \A V \in SUBSET U : V # U => V \notin Bad
  <2>. HIDE DEF Bad
  <2>1. Bad \in SUBSET (SUBSET S)
    BY DEF Bad
  <2>. QED BY <1>1, <2>1, SmallestSubset
<1>3. ASSUME NEW V \in SUBSET U, V # U
      PROVE  IsFiniteSet(V) /\ \E g : Adds(V, f, g)
  BY <1>2, <1>3, FS_Subset
<1>. DEFINE g == [s \in SUBSET U |->
              IF s = {} THEN 0
              ELSE f[Leading(s)] + SumFunctionOnSet(f, s \ {Leading(s)})]
<1>4. ASSUME NEW V \in SUBSET U, V # U PROVE g[V] = SumFunctionOnSet(f, V)
  BY <1>3, <1>4, AddsUnfolds
<1>5. ASSUME NEW s \in SUBSET U
      PROVE  g[s] = IF s = {} THEN 0 ELSE f[Leading(s)] + g[s \ {Leading(s)}]
  <2>1. CASE s = {}
    BY <2>1
  <2>2. CASE s # {}
    <3>1. Leading(s) \in s
      BY <2>2, LeadingIsMember
    <3>2. s \ {Leading(s)} \in SUBSET U /\ s \ {Leading(s)} # U
      BY <3>1
    <3>3. g[s \ {Leading(s)}] = SumFunctionOnSet(f, s \ {Leading(s)})
      <4>. HIDE DEF g
      <4>. QED BY <3>2, <1>4
    <3>. QED BY <2>2, <3>3
  <2>. QED BY <2>1, <2>2
<1>6. Adds(U, f, g)
  BY <1>5 DEF Adds
<1>. QED BY <1>6

-----------------------------------------------------------------------------
(***************************************************************************)
(* What the modules that prove about sums cite.                            *)
(***************************************************************************)

\* Nothing adds up to nothing.
LEMMA SumOfNothing ==
    ASSUME NEW f
    PROVE  SumFunctionOnSet(f, {}) = 0
BY FS_EmptySet, AddsExists, AddsUnfolds

\* The sum of a set that has members takes the first and adds the others.
LEMMA SumTakesFirst ==
    ASSUME NEW S, IsFiniteSet(S), NEW f, S # {}
    PROVE  /\ Leading(S) \in S
           /\ SumFunctionOnSet(f, S)
                = f[Leading(S)] + SumFunctionOnSet(f, S \ {Leading(S)})
BY AddsExists, AddsUnfolds, LeadingIsMember

\* A sum of integers is an integer.
LEMMA SumIsInt ==
    ASSUME NEW S, IsFiniteSet(S), NEW f, \A x \in S : f[x] \in Int
    PROVE  SumFunctionOnSet(f, S) \in Int
<1>. DEFINE Bad == {U \in SUBSET S : SumFunctionOnSet(f, U) \notin Int}
<1>1. SUFFICES ASSUME Bad # {} PROVE FALSE
  OBVIOUS
<1>2. PICK U \in Bad : \A V \in SUBSET U : V # U => V \notin Bad
  <2>. HIDE DEF Bad
  <2>1. Bad \in SUBSET (SUBSET S)
    BY DEF Bad
  <2>. QED BY <1>1, <2>1, SmallestSubset
<1>3. U # {}
  BY SumOfNothing
<1>4. IsFiniteSet(U)
  BY FS_Subset
<1>5. /\ Leading(U) \in U
      /\ SumFunctionOnSet(f, U)
           = f[Leading(U)] + SumFunctionOnSet(f, U \ {Leading(U)})
  BY <1>3, <1>4, SumTakesFirst
<1>6. U \ {Leading(U)} \in SUBSET S /\ U \ {Leading(U)} # U
  BY <1>5
<1>7. SumFunctionOnSet(f, U \ {Leading(U)}) \in Int
  BY <1>2, <1>6
<1>. QED BY <1>5, <1>7

\* A sum does not depend on which member is taken first.
LEMMA SumTakesAny ==
    ASSUME NEW S, IsFiniteSet(S), NEW f, \A x \in S : f[x] \in Int,
           NEW a \in S
    PROVE  SumFunctionOnSet(f, S) = f[a] + SumFunctionOnSet(f, S \ {a})
<1>. DEFINE Bad == {U \in SUBSET S : \E x \in U :
              SumFunctionOnSet(f, U) # f[x] + SumFunctionOnSet(f, U \ {x})}
<1>1. SUFFICES ASSUME Bad # {} PROVE FALSE
  OBVIOUS
<1>2. PICK U \in Bad : \A V \in SUBSET U : V # U => V \notin Bad
  <2>. HIDE DEF Bad
  <2>1. Bad \in SUBSET (SUBSET S)
    BY DEF Bad
  <2>. QED BY <1>1, <2>1, SmallestSubset
<1>3. PICK x \in U :
        SumFunctionOnSet(f, U) # f[x] + SumFunctionOnSet(f, U \ {x})
  OBVIOUS
<1>. DEFINE c == Leading(U)
<1>4. IsFiniteSet(U) /\ U \in SUBSET S
  BY FS_Subset
<1>5. c \in U /\ SumFunctionOnSet(f, U) = f[c] + SumFunctionOnSet(f, U \ {c})
  BY <1>3, <1>4, SumTakesFirst
<1>6. c # x
  BY <1>3, <1>5
<1>. HIDE DEF c
<1>7. /\ SumFunctionOnSet(f, U \ {c})
           = f[x] + SumFunctionOnSet(f, (U \ {c}) \ {x})
      /\ SumFunctionOnSet(f, U \ {x})
           = f[c] + SumFunctionOnSet(f, (U \ {x}) \ {c})
  <2>1. U \ {c} \in SUBSET S /\ U \ {c} # U /\ U \ {c} \notin Bad /\ x \in U \ {c}
    BY <1>2, <1>5, <1>6
  <2>2. U \ {x} \in SUBSET S /\ U \ {x} # U /\ U \ {x} \notin Bad /\ c \in U \ {x}
    BY <1>2, <1>5, <1>6
  <2>. QED BY <2>1, <2>2
<1>8. (U \ {c}) \ {x} = (U \ {x}) \ {c}
  OBVIOUS
<1>9. SumFunctionOnSet(f, (U \ {x}) \ {c}) \in Int
  <2>1. IsFiniteSet((U \ {x}) \ {c}) /\ \A y \in (U \ {x}) \ {c} : f[y] \in Int
    BY <1>4, FS_Subset
  <2>. QED BY <2>1, SumIsInt
<1>10. f[c] \in Int /\ f[x] \in Int
  BY <1>4, <1>5
<1>11. SumFunctionOnSet(f, U)
         = f[c] + (f[x] + SumFunctionOnSet(f, (U \ {x}) \ {c}))
  BY <1>5, <1>7, <1>8
<1>12. f[x] + SumFunctionOnSet(f, U \ {x})
         = f[x] + (f[c] + SumFunctionOnSet(f, (U \ {x}) \ {c}))
  BY <1>7
<1>. HIDE DEF Bad
<1>13. SumFunctionOnSet(f, U) = f[x] + SumFunctionOnSet(f, U \ {x})
  BY <1>9, <1>10, <1>11, <1>12
<1>. QED BY <1>3, <1>13

\* A new member adds what it is worth.
LEMMA SumGrows ==
    ASSUME NEW S, IsFiniteSet(S), NEW a, a \notin S, NEW f,
           \A x \in S \cup {a} : f[x] \in Int
    PROVE  SumFunctionOnSet(f, S \cup {a}) = SumFunctionOnSet(f, S) + f[a]
<1>1. IsFiniteSet(S \cup {a}) /\ (S \cup {a}) \ {a} = S
  BY FS_AddElement
<1>2. SumFunctionOnSet(f, S \cup {a}) = f[a] + SumFunctionOnSet(f, S)
  BY <1>1, SumTakesAny
<1>3. SumFunctionOnSet(f, S) \in Int
  BY SumIsInt
<1>. QED BY <1>2, <1>3

\* Only what the members are worth counts.
LEMMA SumAgrees ==
    ASSUME NEW S, IsFiniteSet(S), NEW f, NEW h, \A x \in S : f[x] = h[x]
    PROVE  SumFunctionOnSet(f, S) = SumFunctionOnSet(h, S)
<1>. DEFINE Bad == {U \in SUBSET S :
              SumFunctionOnSet(f, U) # SumFunctionOnSet(h, U)}
<1>1. SUFFICES ASSUME Bad # {} PROVE FALSE
  OBVIOUS
<1>2. PICK U \in Bad : \A V \in SUBSET U : V # U => V \notin Bad
  <2>. HIDE DEF Bad
  <2>1. Bad \in SUBSET (SUBSET S)
    BY DEF Bad
  <2>. QED BY <1>1, <2>1, SmallestSubset
<1>3. U # {}
  BY SumOfNothing
<1>4. IsFiniteSet(U) /\ U \in SUBSET S
  BY FS_Subset
<1>5. /\ Leading(U) \in U
      /\ SumFunctionOnSet(f, U)
           = f[Leading(U)] + SumFunctionOnSet(f, U \ {Leading(U)})
      /\ SumFunctionOnSet(h, U)
           = h[Leading(U)] + SumFunctionOnSet(h, U \ {Leading(U)})
  BY <1>3, <1>4, SumTakesFirst
<1>6. U \ {Leading(U)} \in SUBSET S /\ U \ {Leading(U)} # U
  BY <1>4, <1>5
<1>7. SumFunctionOnSet(f, U \ {Leading(U)}) = SumFunctionOnSet(h, U \ {Leading(U)})
  BY <1>2, <1>6
<1>. QED BY <1>4, <1>5, <1>7

\* A sum of naturals is a natural, and no less than any of them.
LEMMA SumIsNat ==
    ASSUME NEW S, IsFiniteSet(S), NEW f, \A x \in S : f[x] \in Nat
    PROVE  /\ SumFunctionOnSet(f, S) \in Nat
           /\ \A x \in S : f[x] <= SumFunctionOnSet(f, S)
<1>1. ASSUME NEW T \in SUBSET S PROVE SumFunctionOnSet(f, T) \in Nat
  <2>. DEFINE Bad == {U \in SUBSET S : SumFunctionOnSet(f, U) \notin Nat}
  <2>1. SUFFICES ASSUME Bad # {} PROVE FALSE
    OBVIOUS
  <2>2. PICK U \in Bad : \A V \in SUBSET U : V # U => V \notin Bad
    <3>. HIDE DEF Bad
    <3>1. Bad \in SUBSET (SUBSET S)
      BY DEF Bad
    <3>. QED BY <2>1, <3>1, SmallestSubset
  <2>3. U # {}
    BY SumOfNothing
  <2>4. IsFiniteSet(U)
    BY FS_Subset
  <2>5. /\ Leading(U) \in U
        /\ SumFunctionOnSet(f, U)
             = f[Leading(U)] + SumFunctionOnSet(f, U \ {Leading(U)})
    BY <2>3, <2>4, SumTakesFirst
  <2>6. U \ {Leading(U)} \in SUBSET S /\ U \ {Leading(U)} # U
    BY <2>5
  <2>7. SumFunctionOnSet(f, U \ {Leading(U)}) \in Nat
    BY <2>2, <2>6
  <2>. QED BY <2>5, <2>7
<1>2. ASSUME NEW x \in S PROVE f[x] <= SumFunctionOnSet(f, S)
  <2>1. SumFunctionOnSet(f, S) = f[x] + SumFunctionOnSet(f, S \ {x})
    BY SumTakesAny
  <2>2. SumFunctionOnSet(f, S \ {x}) \in Nat
    BY <1>1
  <2>. QED BY <2>1, <2>2
<1>. QED BY <1>1, <1>2

\* When one member's worth changes, the sum changes by as much.
LEMMA SumChanges ==
    ASSUME NEW S, IsFiniteSet(S), NEW f, NEW h, NEW a \in S,
           \A x \in S : f[x] \in Int /\ h[x] \in Int,
           \A x \in S \ {a} : h[x] = f[x]
    PROVE  SumFunctionOnSet(h, S) = SumFunctionOnSet(f, S) - f[a] + h[a]
<1>1. IsFiniteSet(S \ {a})
  BY FS_Subset
<1>2. SumFunctionOnSet(h, S \ {a}) = SumFunctionOnSet(f, S \ {a})
  BY <1>1, SumAgrees
<1>3. /\ SumFunctionOnSet(f, S) = f[a] + SumFunctionOnSet(f, S \ {a})
      /\ SumFunctionOnSet(h, S) = h[a] + SumFunctionOnSet(h, S \ {a})
  BY SumTakesAny
<1>4. SumFunctionOnSet(f, S \ {a}) \in Int
  BY <1>1, SumIsInt
<1>. QED BY <1>2, <1>3, <1>4

\* The sum over a sequence grows by what is appended.
LEMMA SumAppended ==
    ASSUME NEW n \in Nat, NEW f, NEW h, h[n + 1] \in Int,
           \A i \in 1..n : f[i] \in Int /\ h[i] = f[i]
    PROVE  SumFunctionOnSet(h, 1..(n + 1)) = SumFunctionOnSet(f, 1..n) + h[n + 1]
<1>1. 1..(n + 1) = (1..n) \cup {n + 1} /\ n + 1 \notin 1..n
  OBVIOUS
<1>2. IsFiniteSet(1..n)
  BY FS_Interval
<1>3. \A i \in (1..n) \cup {n + 1} : h[i] \in Int
  OBVIOUS
<1>4. SumFunctionOnSet(h, (1..n) \cup {n + 1})
        = SumFunctionOnSet(h, 1..n) + h[n + 1]
  <2>1. PICK T, x : T = 1..n /\ x = n + 1
    OBVIOUS
  <2>2. SumFunctionOnSet(h, T \cup {x}) = SumFunctionOnSet(h, T) + h[x]
    BY <1>1, <1>2, <1>3, <2>1, SumGrows
  <2>. QED BY <2>1, <2>2
<1>5. SumFunctionOnSet(h, 1..n) = SumFunctionOnSet(f, 1..n)
  BY <1>2, SumAgrees
<1>. QED BY <1>1, <1>4, <1>5

\* A part of what is added comes to no more than all of it.
LEMMA SumOfMore ==
    ASSUME NEW S, IsFiniteSet(S), NEW T \in SUBSET S, NEW f, NEW h,
           \A x \in S : f[x] \in Nat, \A x \in T : h[x] = f[x]
    PROVE  SumFunctionOnSet(h, T) <= SumFunctionOnSet(f, S)
<1>. DEFINE Bad == {U \in SUBSET S : /\ T \subseteq U
                                     /\ ~ SumFunctionOnSet(f, T) <= SumFunctionOnSet(f, U)}
<1>1. SUFFICES ASSUME Bad # {} PROVE FALSE
  <2>1. SumFunctionOnSet(h, T) = SumFunctionOnSet(f, T)
    BY FS_Subset, SumAgrees
  <2>. QED BY <2>1
<1>2. PICK U \in Bad : \A V \in SUBSET U : V # U => V \notin Bad
  <2>. HIDE DEF Bad
  <2>1. Bad \in SUBSET (SUBSET S)
    BY DEF Bad
  <2>. QED BY <1>1, <2>1, SmallestSubset
<1>3. IsFiniteSet(U) /\ U \in SUBSET S /\ T \subseteq U /\ IsFiniteSet(T)
  BY FS_Subset
<1>4. SumFunctionOnSet(f, T) \in Nat
  BY <1>3, SumIsNat
<1>5. PICK a \in U : a \notin T
  BY <1>3, <1>4
<1>6. SumFunctionOnSet(f, U) = f[a] + SumFunctionOnSet(f, U \ {a})
  BY <1>3, SumTakesAny
<1>7. SumFunctionOnSet(f, U \ {a}) \in Nat
  <2>1. IsFiniteSet(U \ {a}) /\ \A x \in U \ {a} : f[x] \in Nat
    BY <1>3, FS_Subset
  <2>. QED BY <2>1, SumIsNat
<1>8. SumFunctionOnSet(f, T) <= SumFunctionOnSet(f, U \ {a})
  <2>1. U \ {a} \in SUBSET U /\ U \ {a} # U /\ T \subseteq U \ {a} /\ U \ {a} \in SUBSET S
    BY <1>3, <1>5
  <2>. QED BY <1>2, <2>1
<1>9. f[a] \in Nat
  BY <1>3
<1>10. SumFunctionOnSet(f, T) <= SumFunctionOnSet(f, U)
  BY <1>4, <1>6, <1>7, <1>8, <1>9
<1>. QED BY <1>10

\* Two sets without a common member are added one after the other.
LEMMA SumOfBoth ==
    ASSUME NEW S, IsFiniteSet(S), NEW R, IsFiniteSet(R), S \cap R = {}, NEW f,
           \A x \in S \cup R : f[x] \in Int
    PROVE  SumFunctionOnSet(f, S \cup R) = SumFunctionOnSet(f, S) + SumFunctionOnSet(f, R)
<1>. DEFINE Bad == {U \in SUBSET R : SumFunctionOnSet(f, S \cup U)
                       # SumFunctionOnSet(f, S) + SumFunctionOnSet(f, U)}
<1>1. SUFFICES ASSUME Bad # {} PROVE FALSE
  OBVIOUS
<1>2. PICK U \in Bad : \A V \in SUBSET U : V # U => V \notin Bad
  <2>. HIDE DEF Bad
  <2>1. Bad \in SUBSET (SUBSET R)
    BY DEF Bad
  <2>. QED BY <1>1, <2>1, SmallestSubset
<1>3. SumFunctionOnSet(f, S) \in Int
  BY SumIsInt
<1>4. U # {}
  <2>1. SumFunctionOnSet(f, {}) = 0 /\ S \cup {} = S
    BY SumOfNothing
  <2>2. SumFunctionOnSet(f, S \cup {}) = SumFunctionOnSet(f, S) + SumFunctionOnSet(f, {})
    BY <1>3, <2>1
  <2>. QED BY <2>2
<1>5. PICK a \in U : TRUE
  BY <1>4
<1>. DEFINE V == U \ {a}
<1>6. U \in SUBSET R /\ V \in SUBSET U /\ V # U /\ V \in SUBSET R
  OBVIOUS
<1>7. IsFiniteSet(U) /\ IsFiniteSet(V) /\ IsFiniteSet(S \cup V)
  BY <1>6, FS_Subset, FS_Union
<1>8. SumFunctionOnSet(f, S \cup V) = SumFunctionOnSet(f, S) + SumFunctionOnSet(f, V)
  BY <1>2, <1>6
<1>9. SumFunctionOnSet(f, V) \in Int /\ f[a] \in Int
  BY <1>6, <1>7, SumIsInt
<1>10. SumFunctionOnSet(f, U) = f[a] + SumFunctionOnSet(f, V)
  BY <1>6, <1>7, SumTakesAny
<1>11. SumFunctionOnSet(f, (S \cup V) \cup {a}) = SumFunctionOnSet(f, S \cup V) + f[a]
  <2>1. a \notin S \cup V /\ \A x \in (S \cup V) \cup {a} : f[x] \in Int
    BY <1>6
  <2>. HIDE DEF V
  <2>. QED BY <1>7, <2>1, SumGrows
<1>12. (S \cup V) \cup {a} = S \cup U
  OBVIOUS
<1>. HIDE DEF V
<1>13. SumFunctionOnSet(f, S \cup U) = SumFunctionOnSet(f, S \cup V) + f[a]
  BY <1>11, <1>12
<1>14. SumFunctionOnSet(f, S \cup U) = SumFunctionOnSet(f, S) + SumFunctionOnSet(f, U)
  BY <1>3, <1>8, <1>9, <1>10, <1>13
<1>. QED BY <1>14

\* A sum is at most what its members are at most worth, times their number.
LEMMA SumAtMost ==
    ASSUME NEW S, IsFiniteSet(S), NEW m \in Nat, NEW f, \A x \in S : f[x] \in 0 .. m
    PROVE  /\ SumFunctionOnSet(f, S) \in Nat /\ Cardinality(S) \in Nat
           /\ SumFunctionOnSet(f, S) <= m * Cardinality(S)
<1>. DEFINE Bad == {U \in SUBSET S : ~ (SumFunctionOnSet(f, U) <= m * Cardinality(U))}
<1>1. SumFunctionOnSet(f, S) \in Nat /\ Cardinality(S) \in Nat
  BY SumIsNat, FS_CardinalityType
<1>2. SUFFICES ASSUME Bad # {} PROVE FALSE
  BY <1>1
<1>3. PICK U \in Bad : \A V \in SUBSET U : V # U => V \notin Bad
  <2>. HIDE DEF Bad
  <2>1. Bad \in SUBSET (SUBSET S)
    BY DEF Bad
  <2>. QED BY <1>2, <2>1, SmallestSubset
<1>4. U # {}
  <2>1. SumFunctionOnSet(f, {}) = 0 /\ Cardinality({}) = 0 /\ m * 0 = 0
    BY SumOfNothing, FS_EmptySet
  <2>. QED BY <2>1
<1>5. PICK a \in U : TRUE
  BY <1>4
<1>. DEFINE V == U \ {a}
<1>6. /\ U \in SUBSET S /\ V \in SUBSET U /\ V # U /\ V \in SUBSET S /\ a \notin V
      /\ V \cup {a} = U /\ f[a] \in 0 .. m
  OBVIOUS
<1>7. IsFiniteSet(U) /\ IsFiniteSet(V)
  BY <1>6, FS_Subset
<1>8. SumFunctionOnSet(f, V) <= m * Cardinality(V)
  BY <1>3, <1>6
<1>9. SumFunctionOnSet(f, V) \in Nat /\ Cardinality(V) \in Nat
  BY <1>6, <1>7, SumIsNat, FS_CardinalityType
<1>10. SumFunctionOnSet(f, U) = f[a] + SumFunctionOnSet(f, V)
  <2>1. \A x \in U : f[x] \in Int
    BY <1>6
  <2>. QED BY <1>7, <2>1, SumTakesAny
<1>11. Cardinality(U) = Cardinality(V) + 1
  <2>. HIDE DEF V
  <2>1. Cardinality(V \cup {a}) = Cardinality(V) + 1
    BY <1>6, <1>7, FS_AddElement
  <2>. QED BY <1>6, <2>1
<1>. HIDE DEF V
<1>12. \A c \in Nat : m * (c + 1) = m * c + m
  OBVIOUS
<1>13. SumFunctionOnSet(f, U) <= m * Cardinality(U)
  <2>1. m * Cardinality(U) = m * Cardinality(V) + m /\ m * Cardinality(V) \in Nat
    BY <1>9, <1>11, <1>12
  <2>. QED BY <1>6, <1>8, <1>9, <1>10, <2>1
<1>. QED BY <1>13

\* Some member of a finite set of numbers that has members is the greatest.
LEMMA GreatestOfFew ==
    ASSUME NEW S, IsFiniteSet(S), S # {}, NEW f, \A x \in S : f[x] \in Int
    PROVE  \E m \in S : \A x \in S : f[x] <= f[m]
<1>. DEFINE Bad == {U \in SUBSET S : U # {} /\ ~ \E m \in U : \A x \in U : f[x] <= f[m]}
<1>1. SUFFICES ASSUME Bad # {} PROVE FALSE
  OBVIOUS
<1>2. PICK U \in Bad : \A V \in SUBSET U : V # U => V \notin Bad
  <2>. HIDE DEF Bad
  <2>1. Bad \in SUBSET (SUBSET S)
    BY DEF Bad
  <2>. QED BY <1>1, <2>1, SmallestSubset
<1>3. PICK a \in U : TRUE
  OBVIOUS
<1>4. U \ {a} \in SUBSET U /\ U \ {a} # U /\ U \ {a} \in SUBSET S
  OBVIOUS
<1>5. CASE U \ {a} = {}
  <2>1. U = {a} /\ f[a] <= f[a]
    BY <1>5
  <2>. QED BY <2>1
<1>6. CASE U \ {a} # {}
  <2>1. PICK m \in U \ {a} : \A x \in U \ {a} : f[x] <= f[m]
    BY <1>2, <1>4, <1>6
  <2>2. f[a] \in Int /\ f[m] \in Int /\ \A x \in U : f[x] \in Int
    OBVIOUS
  <2>3. CASE f[a] <= f[m]
    <3>1. m \in U /\ \A x \in U : f[x] <= f[m]
      BY <2>1, <2>3
    <3>. QED BY <3>1
  <2>4. CASE f[m] < f[a]
    <3>1. \A x \in U : f[x] <= f[a]
      BY <2>1, <2>2, <2>4
    <3>. QED BY <3>1
  <2>. QED BY <2>2, <2>3, <2>4
<1>. QED BY <1>5, <1>6

-----------------------------------------------------------------------------
(***************************************************************************)
(* Sorting, and sums along a sequence.                                     *)
(***************************************************************************)

\* Of some numbers one is the least.
LEMMA LeastOfFew ==
    ASSUME NEW S, IsFiniteSet(S), S # {}, \A x \in S : x \in Int
    PROVE  \E m \in S : \A x \in S : m <= x
<1>. DEFINE f == [x \in S |-> 0 - x]
<1>1. \A x \in S : f[x] = 0 - x /\ f[x] \in Int
  OBVIOUS
<1>. HIDE DEF f
<1>2. PICK m \in S : \A x \in S : f[x] <= f[m]
  BY <1>1, GreatestOfFew
<1>3. \A x \in S : m <= x
  BY <1>1, <1>2
<1>. QED BY <1>3

\* Of the members of a finite set in which any two are in order, one is last.
LEMMA LastInOrder ==
    ASSUME NEW S, IsFiniteSet(S), S # {}, NEW R,
           \A x, y, z \in S : <<x, y>> \in R /\ <<y, z>> \in R => <<x, z>> \in R,
           \A x, y \in S : x # y => <<x, y>> \in R \/ <<y, x>> \in R
    PROVE  \E m \in S : \A x \in S : x # m => <<x, m>> \in R
<1>. DEFINE Bad == {U \in SUBSET S :
              U # {} /\ ~ \E m \in U : \A x \in U : x # m => <<x, m>> \in R}
<1>1. SUFFICES ASSUME Bad # {} PROVE FALSE
  OBVIOUS
<1>2. PICK U \in Bad : \A V \in SUBSET U : V # U => V \notin Bad
  <2>. HIDE DEF Bad
  <2>1. Bad \in SUBSET (SUBSET S)
    BY DEF Bad
  <2>. QED BY <1>1, <2>1, SmallestSubset
<1>3. PICK a \in U : TRUE
  OBVIOUS
<1>4. U \ {a} \in SUBSET U /\ U \ {a} # U /\ U \ {a} \in SUBSET S
  OBVIOUS
<1>5. CASE U \ {a} = {}
  <2>1. \A x \in U : x # a => <<x, a>> \in R
    BY <1>5
  <2>. QED BY <2>1
<1>6. CASE U \ {a} # {}
  <2>1. PICK m \in U \ {a} : \A x \in U \ {a} : x # m => <<x, m>> \in R
    BY <1>2, <1>4, <1>6
  <2>2. m \in S /\ a \in S /\ m # a /\ \A x \in U : x \in S
    OBVIOUS
  <2>3. CASE <<a, m>> \in R
    <3>1. \A x \in U : x # m => <<x, m>> \in R
      BY <2>1, <2>3
    <3>. QED BY <3>1
  <2>4. CASE <<m, a>> \in R
    <3>1. \A x \in U : x # a => <<x, a>> \in R
      BY <2>1, <2>2, <2>4
    <3>. QED BY <3>1
  <2>. QED BY <2>2, <2>3, <2>4
<1>. QED BY <1>5, <1>6

\* A finite set in which any two members are in order can be put in order.
LEMMA SortedExists ==
    ASSUME NEW S, IsFiniteSet(S), NEW R,
           \A x, y, z \in S : <<x, y>> \in R /\ <<y, z>> \in R => <<x, z>> \in R,
           \A x, y \in S : x # y => <<x, y>> \in R \/ <<y, x>> \in R
    PROVE  \E q \in [1 .. Cardinality(S) -> S] :
              \A i, j \in 1 .. Cardinality(S) : i < j => q[i] # q[j] /\ <<q[i], q[j]>> \in R
<1>. DEFINE Sorts(q, U) ==
              \A i, j \in 1 .. Cardinality(U) : i < j => q[i] # q[j] /\ <<q[i], q[j]>> \in R
            Bad == {U \in SUBSET S : ~ \E q \in [1 .. Cardinality(U) -> U] : Sorts(q, U)}
<1>1. SUFFICES ASSUME Bad # {} PROVE FALSE
  OBVIOUS
<1>2. PICK U \in Bad : \A V \in SUBSET U : V # U => V \notin Bad
  <2>. HIDE DEF Bad
  <2>1. Bad \in SUBSET (SUBSET S)
    BY DEF Bad
  <2>. QED BY <1>1, <2>1, SmallestSubset
<1>3. IsFiniteSet(U) /\ U \in SUBSET S
  BY FS_Subset
<1>4. U # {}
  <2>1. ASSUME U = {} PROVE FALSE
    <3>1. Cardinality(U) = 0 /\ 1 .. 0 = {}
      BY <2>1, FS_EmptySet
    <3>2. [i \in 1 .. Cardinality(U) |-> i] \in [1 .. Cardinality(U) -> U]
      BY <2>1, <3>1
    <3>3. Sorts([i \in 1 .. Cardinality(U) |-> i], U)
      BY <3>1
    <3>. QED BY <3>2, <3>3
  <2>. QED BY <2>1
<1>5. PICK m \in U : \A x \in U : x # m => <<x, m>> \in R
  BY <1>3, <1>4, LastInOrder
<1>. DEFINE V == U \ {m}
<1>6. V \in SUBSET U /\ V # U /\ V \in SUBSET S
  OBVIOUS
<1>7. PICK n \in Nat : n = Cardinality(V) /\ Cardinality(U) = n + 1
  <2>1. IsFiniteSet(V) /\ Cardinality(V) = Cardinality(U) - 1
    BY <1>3, FS_RemoveElement
  <2>. QED BY <1>3, <2>1, FS_CardinalityType
<1>8. PICK q \in [1 .. n -> V] : \A i, j \in 1 .. n : i < j => q[i] # q[j] /\ <<q[i], q[j]>> \in R
  <2>1. \E q \in [1 .. Cardinality(V) -> V] : Sorts(q, V)
    BY <1>2, <1>6
  <2>. HIDE DEF V
  <2>. QED BY <1>7, <2>1
<1>. DEFINE p == [i \in 1 .. n + 1 |-> IF i = n + 1 THEN m ELSE q[i]]
<1>9. p \in [1 .. n + 1 -> U] /\ p[n + 1] = m /\ \A i \in 1 .. n : p[i] = q[i] /\ p[i] \in V
  OBVIOUS
<1>10. ASSUME NEW i \in 1 .. n + 1, NEW j \in 1 .. n + 1, i < j
       PROVE  p[i] # p[j] /\ <<p[i], p[j]>> \in R
  <2>. HIDE DEF p
  <2>1. i \in 1 .. n
    BY <1>10
  <2>2. CASE j = n + 1
    BY <1>5, <1>9, <2>1, <2>2
  <2>3. CASE j # n + 1
    <3>1. j \in 1 .. n
      BY <2>3
    <3>. QED BY <1>8, <1>9, <1>10, <2>1, <3>1
  <2>. QED BY <2>2, <2>3
<1>11. p \in [1 .. Cardinality(U) -> U] /\ Sorts(p, U)
  <2>. HIDE DEF p
  <2>. QED BY <1>7, <1>9, <1>10
<1>. QED BY <1>11

\* h has on S, member by member, what f has on T.
AddsAlike(h, S, f, T, g) ==
    /\ T = {g[x] : x \in S}
    /\ \A x, y \in S : x # y => g[x] # g[y]
    /\ \A x \in S : h[x] = f[g[x]] /\ h[x] \in Int

\* Then it comes to as much.
LEMMA SumThrough ==
    ASSUME NEW S, IsFiniteSet(S), NEW T, NEW f, NEW g, NEW h, AddsAlike(h, S, f, T, g)
    PROVE  SumFunctionOnSet(h, S) = SumFunctionOnSet(f, T)
<1>0. /\ T = {g[x] : x \in S}
      /\ \A x, y \in S : x # y => g[x] # g[y]
      /\ \A x \in S : h[x] = f[g[x]] /\ h[x] \in Int
  BY DEF AddsAlike
<1>. DEFINE Image(U) == {g[x] : x \in U}
            Good(U) == /\ IsFiniteSet(Image(U))
                       /\ SumFunctionOnSet(h, U) = SumFunctionOnSet(f, Image(U))
            Bad == {U \in SUBSET S : ~ Good(U)}
<1>1. SUFFICES ASSUME Bad # {} PROVE FALSE
  <2>1. S \in SUBSET S
    OBVIOUS
  <2>2. Bad = {} => Good(S)
    BY <2>1
  <2>3. T = Image(S)
    BY <1>0
  <2>. HIDE DEF Image, Bad
  <2>. QED BY <2>2, <2>3
<1>2. PICK U \in Bad : \A V \in SUBSET U : V # U => V \notin Bad
  <2>. HIDE DEF Bad
  <2>1. Bad \in SUBSET (SUBSET S)
    BY DEF Bad
  <2>. QED BY <1>1, <2>1, SmallestSubset
<1>3. IsFiniteSet(U) /\ U \in SUBSET S /\ ~ Good(U)
  BY <1>2, FS_Subset
<1>4. U # {}
  <2>1. Image({}) = {}
    OBVIOUS
  <2>. HIDE DEF Image
  <2>2. Good({})
    BY <2>1, SumOfNothing, FS_EmptySet
  <2>. QED BY <1>3, <2>2
<1>5. PICK a \in U : TRUE
  BY <1>4
<1>6. PICK V : V = U \ {a}
  OBVIOUS
<1>7. V \in SUBSET U /\ V # U /\ V \in SUBSET S /\ IsFiniteSet(V) /\ a \in S
  BY <1>3, <1>5, <1>6, FS_Subset
<1>8. Good(V)
  BY <1>2, <1>7
<1>9. Image(U) = Image(V) \cup {g[a]} /\ g[a] \notin Image(V)
  BY <1>0, <1>3, <1>5, <1>6, <1>7
<1>10. \A y \in Image(V) \cup {g[a]} : f[y] \in Int
  BY <1>0, <1>7
<1>11. SumFunctionOnSet(h, U) = h[a] + SumFunctionOnSet(h, V)
  BY <1>0, <1>3, <1>5, <1>6, SumTakesAny
<1>12. SumFunctionOnSet(h, V) \in Int
  BY <1>0, <1>7, SumIsInt
<1>13. h[a] = f[g[a]] /\ h[a] \in Int
  BY <1>0, <1>7
<1>. HIDE DEF Image, Bad
<1>14. /\ IsFiniteSet(Image(V)) /\ SumFunctionOnSet(h, V) = SumFunctionOnSet(f, Image(V))
  BY <1>8
<1>15. IsFiniteSet(Image(U))
  BY <1>9, <1>14, FS_AddElement
<1>16. SumFunctionOnSet(f, Image(V) \cup {g[a]}) = SumFunctionOnSet(f, Image(V)) + f[g[a]]
  <2>1. PICK G : G = Image(V)
    OBVIOUS
  <2>2. PICK b : b = g[a]
    OBVIOUS
  <2>3. IsFiniteSet(G) /\ b \notin G /\ \A y \in G \cup {b} : f[y] \in Int
    BY <1>9, <1>10, <1>14, <2>1, <2>2
  <2>4. SumFunctionOnSet(f, G \cup {b}) = SumFunctionOnSet(f, G) + f[b]
    BY <2>3, SumGrows
  <2>. QED BY <2>1, <2>2, <2>4
<1>17. SumFunctionOnSet(h, U) = SumFunctionOnSet(f, Image(U))
  BY <1>9, <1>11, <1>12, <1>13, <1>14, <1>16
<1>. QED BY <1>3, <1>15, <1>17

\* q lists the members of S: it is as long, and nothing comes twice.
Lists(q, S) ==
    /\ q \in [1 .. Cardinality(S) -> S]
    /\ \A i, j \in 1 .. Cardinality(S) : i # j => q[i] # q[j]

\* Then it has them all.
LEMMA EveryPlace ==
    ASSUME NEW S, IsFiniteSet(S), NEW q, Lists(q, S)
    PROVE  S = {q[i] : i \in 1 .. Cardinality(S)}
<1>1. Cardinality(S) \in Nat
  BY FS_CardinalityType
<1>2. PICK P : P = 1 .. Cardinality(S)
  OBVIOUS
<1>3. IsFiniteSet(P) /\ Cardinality(P) = Cardinality(S)
  BY <1>1, <1>2, FS_Interval
<1>4. q \in Injection(P, S)
  BY <1>2 DEF Injection, IsInjective, Lists
<1>5. q \in Surjection(P, S)
  BY <1>3, <1>4, FS_Injection
<1>6. \A x \in S : \E i \in P : q[i] = x
  BY <1>5 DEF Surjection
<1>7. \A i \in P : q[i] \in S
  BY <1>2 DEF Lists
<1>. QED BY <1>2, <1>6, <1>7

\* What is added along such a list is what the set adds up to.
LEMMA SumInOrder ==
    ASSUME NEW S, IsFiniteSet(S), NEW q, Lists(q, S), NEW f, NEW h,
           \A i \in 1 .. Cardinality(S) : h[i] = f[q[i]] /\ h[i] \in Int
    PROVE  SumFunctionOnSet(h, 1 .. Cardinality(S)) = SumFunctionOnSet(f, S)
<1>1. S = {q[i] : i \in 1 .. Cardinality(S)}
  BY EveryPlace
<1>2. AddsAlike(h, 1 .. Cardinality(S), f, S, q)
  BY <1>1 DEF AddsAlike, Lists
<1>3. IsFiniteSet(1 .. Cardinality(S))
  BY FS_CardinalityType, FS_Interval
<1>. QED BY <1>2, <1>3, SumThrough

-----------------------------------------------------------------------------
(***************************************************************************)
(* Folds.  A fold of the library is the value, at the whole set, of a      *)
(* function over its subsets that starts with a base and takes one step    *)
(* for the member last[T] of each.  What the base has and every step keeps *)
(* is a set Good of pairs, a subset and a value.                           *)
(***************************************************************************)

\* T has a member to take last.
TakesLast(S, last) == \A T \in SUBSET S : T # {} => last[T] \in T

\* The base is good, and so is what a step makes of something good.
StepsKeep(S, last, base, G, Good) ==
    /\ <<{}, base>> \in Good
    /\ \A T \in SUBSET S : \A v :
          T # {} /\ <<T \ {last[T]}, v>> \in Good => <<T, G[T, v]>> \in Good

\* h takes the steps, and has good values.
TakesSteps(S, last, base, G, h) ==
    h = [T \in SUBSET S |-> IF T = {} THEN base ELSE G[T, h[T \ {last[T]}]]]

GoodOn(S, Good, h) == \A T \in SUBSET S : <<T, h[T]>> \in Good

\* Where there is such a function, its values are good.
LEMMA FoldHolds ==
    ASSUME NEW S, IsFiniteSet(S), NEW last, TakesLast(S, last), NEW Good, NEW h,
           <<{}, h[{}]>> \in Good,
           \A T \in SUBSET S : T # {} /\ <<T \ {last[T]}, h[T \ {last[T]}]>> \in Good
                                  => <<T, h[T]>> \in Good
    PROVE  GoodOn(S, Good, h)
<1>. DEFINE Bad == {U \in SUBSET S : <<U, h[U]>> \notin Good}
<1>1. SUFFICES ASSUME Bad # {} PROVE FALSE
  BY DEF GoodOn
<1>2. PICK U \in Bad : \A V \in SUBSET U : V # U => V \notin Bad
  <2>. HIDE DEF Bad
  <2>1. Bad \in SUBSET (SUBSET S)
    BY DEF Bad
  <2>. QED BY <1>1, <2>1, SmallestSubset
<1>3. U \in SUBSET S /\ <<U, h[U]>> \notin Good /\ U # {}
  OBVIOUS
<1>4. last[U] \in U
  BY <1>3 DEF TakesLast
<1>. DEFINE V == U \ {last[U]}
<1>5. V \in SUBSET U /\ V # U /\ V \in SUBSET S
  BY <1>3, <1>4
<1>6. <<V, h[V]>> \in Good
  <2>. HIDE DEF V
  <2>. QED BY <1>2, <1>5
<1>. QED BY <1>3, <1>6

\* There is one, for a step given as a function G of the subset and the value
\* before: its graph is what all sets closed under the steps have in common.
LEMMA FoldExists ==
    ASSUME NEW S, IsFiniteSet(S), NEW last, TakesLast(S, last), NEW Good, NEW base, NEW G,
           StepsKeep(S, last, base, G, Good)
    PROVE  \E h : TakesSteps(S, last, base, G, h) /\ GoodOn(S, Good, h)
<1>0. /\ <<{}, base>> \in Good
      /\ \A T \in SUBSET S : \A v :
            T # {} /\ <<T \ {last[T]}, v>> \in Good => <<T, G[T, v]>> \in Good
  BY DEF StepsKeep
<1>. DEFINE Closed(C) ==
              /\ <<{}, base>> \in C
              /\ \A T \in SUBSET S : \A v :
                    T # {} /\ <<T \ {last[T]}, v>> \in C => <<T, G[T, v]>> \in C
            Graph == {p \in Good : \A C \in SUBSET Good : Closed(C) => p \in C}
            Once(T) == \E v : <<T, v>> \in Graph /\ \A w : <<T, w>> \in Graph => w = v
            Bad == {U \in SUBSET S : ~ Once(U)}
<1>1. Graph \in SUBSET Good /\ Closed(Graph)
  <2>1. Graph \in SUBSET Good /\ <<{}, base>> \in Graph
    BY <1>0
  <2>2. ASSUME NEW T \in SUBSET S, NEW v, T # {}, <<T \ {last[T]}, v>> \in Graph
        PROVE  <<T, G[T, v]>> \in Graph
    <3>1. <<T, G[T, v]>> \in Good
      BY <1>0, <2>2
    <3>2. ASSUME NEW C \in SUBSET Good, Closed(C) PROVE <<T, G[T, v]>> \in C
      <4>1. <<T \ {last[T]}, v>> \in C
        BY <2>2, <3>2
      <4>. QED BY <2>2, <3>2, <4>1
    <3>. QED BY <3>1, <3>2
  <2>. QED BY <2>1, <2>2
<1>2. ASSUME NEW C \in SUBSET Good, Closed(C), NEW p \in Graph PROVE p \in C
  BY <1>2
<1>. HIDE DEF Graph
<1>3. ASSUME Bad # {} PROVE FALSE
  <2>1. PICK U \in Bad : \A V \in SUBSET U : V # U => V \notin Bad
    <3>. HIDE DEF Bad
    <3>1. Bad \in SUBSET (SUBSET S)
      BY DEF Bad
    <3>. QED BY <1>3, <3>1, SmallestSubset
  <2>2. U \in SUBSET S /\ ~ Once(U)
    OBVIOUS
  <2>3. ASSUME NEW x, <<U, x>> \in Graph, \A w : <<U, w>> \in Graph => w = x PROVE FALSE
    <3>. HIDE DEF Bad
    <3>. QED BY <2>2, <2>3
  <2>4. CASE U = {}
    <3>1. ASSUME NEW w, <<U, w>> \in Graph, w # base PROVE FALSE
      <4>. DEFINE C == Graph \ {<<U, w>>}
      <4>1. C \in SUBSET Good
        BY <1>1
      <4>2. <<{}, base>> \in C
        BY <1>1, <3>1
      <4>3. ASSUME NEW T \in SUBSET S, NEW v, T # {}, <<T \ {last[T]}, v>> \in C
            PROVE  <<T, G[T, v]>> \in C
        BY <1>1, <2>4, <4>3
      <4>4. Closed(C)
        BY <4>2, <4>3
      <4>5. <<U, w>> \notin C
        OBVIOUS
      <4>. HIDE DEF C
      <4>. QED BY <1>2, <3>1, <4>1, <4>4, <4>5
    <3>2. <<U, base>> \in Graph
      BY <1>1, <2>4
    <3>. QED BY <2>3, <3>1, <3>2
  <2>5. CASE U # {}
    <3>0. last[U] \in U
      BY <2>2, <2>5 DEF TakesLast
    <3>. DEFINE V == U \ {last[U]}
    <3>1. V \in SUBSET U /\ V # U /\ V \in SUBSET S
      BY <2>2, <3>0
    <3>2. Once(V)
      <4>. HIDE DEF V
      <4>. QED BY <2>1, <3>1
    <3>3. PICK v : <<V, v>> \in Graph /\ \A w : <<V, w>> \in Graph => w = v
      BY <3>2
    <3>4. <<U, G[U, v]>> \in Graph
      BY <1>1, <2>2, <2>5, <3>3
    <3>5. ASSUME NEW w, <<U, w>> \in Graph, w # G[U, v] PROVE FALSE
      <4>. DEFINE C == Graph \ {<<U, w>>}
      <4>1. C \in SUBSET Good
        BY <1>1
      <4>2. <<{}, base>> \in C
        BY <1>1, <2>5
      <4>3. ASSUME NEW T \in SUBSET S, NEW x, T # {}, <<T \ {last[T]}, x>> \in C
            PROVE  <<T, G[T, x]>> \in C
        <5>1. <<T \ {last[T]}, x>> \in Graph
          BY <4>3
        <5>2. <<T, G[T, x]>> \in Graph
          BY <1>1, <4>3, <5>1
        <5>3. <<T, G[T, x]>> # <<U, w>>
          BY <3>3, <3>5, <5>1
        <5>. QED BY <5>2, <5>3
      <4>4. Closed(C)
        BY <4>2, <4>3
      <4>5. <<U, w>> \notin C
        OBVIOUS
      <4>. HIDE DEF C, V
      <4>. QED BY <1>2, <3>5, <4>1, <4>4, <4>5
    <3>. QED BY <2>3, <3>4, <3>5
  <2>. QED BY <2>4, <2>5
<1>4. \A T \in SUBSET S : Once(T)
  BY <1>3
<1>. DEFINE Value(T) == CHOOSE v : <<T, v>> \in Graph
            h == [T \in SUBSET S |-> Value(T)]
<1>5. ASSUME NEW T \in SUBSET S
      PROVE  <<T, Value(T)>> \in Graph /\ \A w : <<T, w>> \in Graph => w = Value(T)
  BY <1>4
<1>6. ASSUME NEW T \in SUBSET S
      PROVE  Value(T) = IF T = {} THEN base ELSE G[T, Value(T \ {last[T]})]
  <2>. HIDE DEF Value
  <2>1. CASE T = {}
    BY <1>1, <1>5, <2>1
  <2>2. CASE T # {}
    <3>1. T \ {last[T]} \in SUBSET S
      OBVIOUS
    <3>2. <<T, G[T, Value(T \ {last[T]})]>> \in Graph
      BY <1>1, <1>5, <2>2, <3>1
    <3>. QED BY <1>5, <2>2, <3>2
  <2>. QED BY <2>1, <2>2
<1>. HIDE DEF Value
<1>7. h = [T \in SUBSET S |-> IF T = {} THEN base ELSE G[T, h[T \ {last[T]}]]]
  BY <1>6
<1>8. \A T \in SUBSET S : <<T, h[T]>> \in Good
  BY <1>1, <1>5
<1>. HIDE DEF h
<1>. QED BY <1>7, <1>8 DEF TakesSteps, GoodOn

\* The last place of a list, as a fold takes places.
LastPlace(n) == [T \in SUBSET (1 .. n) |-> Max(T)]

LEMMA PlacesAreTaken ==
    ASSUME NEW n \in Nat
    PROVE  /\ IsFiniteSet(1 .. n) /\ TakesLast(1 .. n, LastPlace(n))
           /\ \A T \in SUBSET (1 .. n) : T # {} => Max(T) \in T /\ Max(T) \in 1 .. n
<1>1. IsFiniteSet(1 .. n)
  BY FS_Interval
<1>2. ASSUME NEW T \in SUBSET (1 .. n), T # {} PROVE Max(T) \in T
  <2>1. IsFiniteSet(T)
    BY <1>1, FS_Subset
  <2>. DEFINE f == [x \in T |-> x]
  <2>2. \A x \in T : f[x] = x /\ f[x] \in Int
    OBVIOUS
  <2>. HIDE DEF f
  <2>3. PICK m \in T : \A x \in T : f[x] <= f[m]
    BY <1>2, <2>1, <2>2, GreatestOfFew
  <2>4. \A x \in T : m >= x
    BY <2>2, <2>3
  <2>. QED BY <2>4 DEF Max
<1>. QED BY <1>1, <1>2 DEF TakesLast, LastPlace

\* A fold over a list of n members: G is the step for the member at a place.
IsFold(n, base, G, h) ==
    h = [T \in SUBSET (1 .. n) |-> IF T = {} THEN base ELSE G[h[T \ {Max(T)}], Max(T)]]

\* The base is good, and so is what a step at a place makes of something good.
PlacesKeep(n, base, G, Good) ==
    /\ <<{}, base>> \in Good
    /\ \A T \in SUBSET (1 .. n) : \A v :
          T # {} /\ <<T \ {Max(T)}, v>> \in Good => <<T, G[v, Max(T)]>> \in Good

\* k takes the steps as long as it is good.
TakesGoodSteps(n, base, G, Good, k) ==
    /\ k[{}] = base
    /\ \A T \in SUBSET (1 .. n) : T # {} /\ <<T \ {Max(T)}, k[T \ {Max(T)}]>> \in Good
                                     => k[T] = G[k[T \ {Max(T)}], Max(T)]

\* A fold exists, and it ends with what every step keeps.
LEMMA FoldOfPlaces ==
    ASSUME NEW n \in Nat, NEW base, NEW G, NEW Good, PlacesKeep(n, base, G, Good)
    PROVE  /\ \E h : IsFold(n, base, G, h) /\ GoodOn(1 .. n, Good, h)
           /\ \A k : TakesGoodSteps(n, base, G, Good, k) => <<1 .. n, k[1 .. n]>> \in Good
<1>. PICK S : S = 1 .. n
  OBVIOUS
<1>. PICK last : last = LastPlace(n)
  OBVIOUS
<1>. PICK Values : Values = {p[2] : p \in Good}
  OBVIOUS
<1>. PICK H : H = [p \in (SUBSET S) \X Values |-> G[p[2], Max(p[1])]]
  OBVIOUS
<1>0. /\ <<{}, base>> \in Good
      /\ \A T \in SUBSET S : \A v :
            T # {} /\ <<T \ {Max(T)}, v>> \in Good => <<T, G[v, Max(T)]>> \in Good
  BY DEF PlacesKeep
<1>1. IsFiniteSet(S) /\ TakesLast(S, last)
  BY PlacesAreTaken
<1>2. \A T \in SUBSET S : last[T] = Max(T)
  BY DEF LastPlace
<1>3. ASSUME NEW T \in SUBSET S, NEW v, <<T \ {Max(T)}, v>> \in Good
      PROVE  H[T, v] = G[v, Max(T)]
  <2>1. v \in Values
    <3>1. PICK p \in Good : p = <<T \ {Max(T)}, v>>
      BY <1>3
    <3>2. p[2] = v
      BY <3>1
    <3>. QED BY <3>2
  <2>. QED BY <2>1
<1>4. StepsKeep(S, last, base, H, Good)
  <2>1. ASSUME NEW T \in SUBSET S, NEW v, T # {}, <<T \ {last[T]}, v>> \in Good
        PROVE  <<T, H[T, v]>> \in Good
    <3>1. <<T \ {Max(T)}, v>> \in Good
      BY <1>2, <2>1
    <3>2. H[T, v] = G[v, Max(T)]
      BY <1>3, <3>1
    <3>. QED BY <1>0, <2>1, <3>1, <3>2
  <2>. QED BY <1>0, <2>1 DEF StepsKeep
<1>5. PICK h : TakesSteps(S, last, base, H, h) /\ GoodOn(S, Good, h)
  BY <1>1, <1>4, FoldExists
<1>6. IsFold(n, base, G, h)
  <2>1. ASSUME NEW T \in SUBSET S, T # {}
        PROVE  H[T, h[T \ {last[T]}]] = G[h[T \ {Max(T)}], Max(T)]
    <3>1. T \ {Max(T)} \in SUBSET S
      OBVIOUS
    <3>2. <<T \ {Max(T)}, h[T \ {Max(T)}]>> \in Good
      BY <1>5, <3>1 DEF GoodOn
    <3>3. H[T, h[T \ {Max(T)}]] = G[h[T \ {Max(T)}], Max(T)]
      BY <1>3, <3>2
    <3>. QED BY <1>2, <3>3
  <2>2. h = [T \in SUBSET S |-> IF T = {} THEN base ELSE G[h[T \ {Max(T)}], Max(T)]]
    BY <1>5, <2>1 DEF TakesSteps
  <2>. QED BY <2>2 DEF IsFold
<1>7. ASSUME NEW k, TakesGoodSteps(n, base, G, Good, k)
      PROVE  <<S, k[S]>> \in Good
  <2>1. <<{}, k[{}]>> \in Good
    BY <1>0, <1>7 DEF TakesGoodSteps
  <2>2. ASSUME NEW T \in SUBSET S, T # {}, <<T \ {last[T]}, k[T \ {last[T]}]>> \in Good
        PROVE  <<T, k[T]>> \in Good
    <3>1. <<T \ {Max(T)}, k[T \ {Max(T)}]>> \in Good
      BY <1>2, <2>2
    <3>2. k[T] = G[k[T \ {Max(T)}], Max(T)]
      BY <1>7, <2>2, <3>1 DEF TakesGoodSteps
    <3>. QED BY <1>0, <2>2, <3>1, <3>2
  <2>3. GoodOn(S, Good, k)
    BY <1>1, <2>1, <2>2, FoldHolds
  <2>. QED BY <2>3 DEF GoodOn
<1>. QED BY <1>5, <1>6, <1>7

\* The same for what does not depend on the places taken.
LEMMA FoldOfList ==
    ASSUME NEW n \in Nat, NEW base, NEW G, NEW Fine, base \in Fine,
           \A v \in Fine : \A i \in 1 .. n : G[v, i] \in Fine
    PROVE  /\ \E h : IsFold(n, base, G, h) /\ \A T \in SUBSET (1 .. n) : h[T] \in Fine
           /\ \A k : TakesGoodSteps(n, base, G, (SUBSET (1 .. n)) \X Fine, k)
                        => k[1 .. n] \in Fine
<1>. PICK Good : Good = (SUBSET (1 .. n)) \X Fine
  OBVIOUS
<1>1. \A T, v : <<T, v>> \in Good <=> T \in SUBSET (1 .. n) /\ v \in Fine
  OBVIOUS
<1>2. ASSUME NEW T \in SUBSET (1 .. n), NEW v, T # {}, <<T \ {Max(T)}, v>> \in Good
      PROVE  <<T, G[v, Max(T)]>> \in Good
  <2>1. Max(T) \in 1 .. n
    BY <1>2, PlacesAreTaken
  <2>. QED BY <1>1, <1>2, <2>1
<1>3. PlacesKeep(n, base, G, Good)
  <2>1. <<{}, base>> \in Good
    BY <1>1
  <2>. QED BY <1>2, <2>1 DEF PlacesKeep
<1>4. /\ \E h : IsFold(n, base, G, h) /\ GoodOn(1 .. n, Good, h)
      /\ \A k : TakesGoodSteps(n, base, G, Good, k) => <<1 .. n, k[1 .. n]>> \in Good
  BY <1>3, FoldOfPlaces
<1>5. PICK h : IsFold(n, base, G, h) /\ GoodOn(1 .. n, Good, h)
  BY <1>4
<1>6. \A T \in SUBSET (1 .. n) : h[T] \in Fine
  BY <1>1, <1>5 DEF GoodOn
<1>7. ASSUME NEW k, TakesGoodSteps(n, base, G, Good, k) PROVE k[1 .. n] \in Fine
  BY <1>1, <1>4, <1>7
<1>. QED BY <1>5, <1>6, <1>7

=============================================================================
