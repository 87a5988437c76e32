------------------------- MODULE OrderManagerProofs -------------------------
(***************************************************************************)
(* Proofs about OrderManager for every set of clients, identifiers,        *)
(* volumes and reports.  The invariant is inductive only as a whole: that  *)
(* the index and the table agree needs that a created or adopted order     *)
(* never lands on a row in use, which is what AllocatedBeforeUse says of   *)
(* the counter; and all of it needs the types.                             *)
(***************************************************************************)
EXTENDS OrderManager, FiniteSetTheorems, WellFoundedInduction, TLAPS

\* A row that is not in the table has no owner left over.
AbsentOwnsNothing ==
  \A id \in OrderIds : orders[id].state = "Absent" => orders[id].client = NoClient

OmsInv == TypeOK /\ IndexConsistent /\ AllocatedBeforeUse /\ AbsentOwnsNothing

-----------------------------------------------------------------------------
(* Sums over a finite set.  The induction theorems of the library take an  *)
(* operator; for subsets of a finite set a set of subsets does as well.    *)

\* Induction over the subsets of a finite set.
LEMMA SubsetInduction ==
  ASSUME NEW S, IsFiniteSet(S), NEW G \in SUBSET (SUBSET S),
         \A s \in SUBSET S : (\A t \in SUBSET s : t # s => t \in G) => s \in G
  PROVE  G = SUBSET S
  <1>1. IsWellFoundedOn(StrictSubsetOrdering(S), SUBSET S)
    BY FS_StrictSubsetOrderingWellFounded, FS_FiniteSubsetsOfFinite
  <1> DEFINE B == (SUBSET S) \ G
  <1>2. SUFFICES ASSUME B # {} PROVE FALSE
    OBVIOUS
  <1>3. PICK s \in B : \A t \in B : ~ (<<t, s>> \in StrictSubsetOrdering(S))
    <2> B \subseteq SUBSET S
      OBVIOUS
    <2> HIDE DEF B
    <2> QED BY <1>1, <1>2, WFMin
  <1>4. \A t \in SUBSET s : t # s => t \in G
    BY <1>3 DEF StrictSubsetOrdering
  <1> QED BY <1>3, <1>4

\* A fold takes the elements in the order CHOOSE gives.
Chosen(s) == CHOOSE x \in s : TRUE

\* What the fold computes on the subsets of S, if such a function exists.
SumsOn(g, f, S) ==
  g = [s \in SUBSET S |-> IF s = {} THEN 0 ELSE f[Chosen(s)] + g[s \ {Chosen(s)}]]

SumIsChosen(it, f, S) == it = CHOOSE g : SumsOn(g, f, S)

\* The library's definition, and nothing more.
LEMMA SumUnfolds ==
  ASSUME NEW S, NEW f
  PROVE  \E it : SumIsChosen(it, f, S) /\ SumFunctionOnSet(f, S) = it[S]
  BY DEF SumFunctionOnSet, FoldFunctionOnSet, MapThenFoldSet, SumIsChosen, SumsOn, Chosen

LEMMA ChosenFacts ==
  ASSUME NEW s, s # {}
  PROVE  Chosen(s) \in s /\ s \ {Chosen(s)} \in SUBSET s /\ s \ {Chosen(s)} # s
  BY DEF Chosen

LEMMA SumsOnFacts ==
  ASSUME NEW S, NEW f, NEW g, SumsOn(g, f, S)
  PROVE  \A s \in SUBSET S :
           g[s] = IF s = {} THEN 0 ELSE f[Chosen(s)] + g[s \ {Chosen(s)}]
  BY DEF SumsOn

\* Two such functions agree where both are defined.
LEMMA SumsOnUnique ==
  ASSUME NEW S, IsFiniteSet(S), NEW f, NEW T, NEW g, NEW h, SumsOn(g, f, S), SumsOn(h, f, T)
  PROVE  \A s \in SUBSET (S \cap T) : g[s] = h[s]
  <1> DEFINE U == S \cap T
             G == {s \in SUBSET U : g[s] = h[s]}
  <1>1. ASSUME NEW s \in SUBSET U, \A t \in SUBSET s : t # s => t \in G
        PROVE  s \in G
    <2>1. CASE s = {}
      BY <2>1, SumsOnFacts
    <2>2. CASE s # {}
      <3>1. PICK t : t = s \ {Chosen(s)}
        OBVIOUS
      <3>2. t \in SUBSET s /\ t # s
        BY <2>2, <3>1, ChosenFacts
      <3>3. t \in G
        BY <1>1, <3>2
      <3>4. g[t] = h[t]
        BY <3>3
      <3>5. g[s] = f[Chosen(s)] + g[t] /\ h[s] = f[Chosen(s)] + h[t]
        <4>1. s \in SUBSET S /\ s \in SUBSET T
          OBVIOUS
        <4> QED BY <2>2, <3>1, <4>1, SumsOnFacts
      <3> QED BY <3>4, <3>5
    <2> QED BY <2>1, <2>2
  <1>2. IsFiniteSet(U)
    BY FS_Intersection
  <1>3. G = SUBSET U
    <2> G \in SUBSET (SUBSET U)
      OBVIOUS
    <2> HIDE DEF G, U
    <2> QED BY <1>1, <1>2, SubsetInduction
  <1> QED BY <1>3

\* Such a function exists.
LEMMA SumsOnExists ==
  ASSUME NEW S, IsFiniteSet(S), NEW f
  PROVE  \E g : SumsOn(g, f, S)
  <1> DEFINE G == {s \in SUBSET S : \E g : SumsOn(g, f, s)}
  <1>1. ASSUME NEW s \in SUBSET S, \A t \in SUBSET s : t # s => t \in G
        PROVE  s \in G
    <2> DEFINE sums(t) == CHOOSE g : SumsOn(g, f, t)
               value(t) == IF t = {} THEN 0
                           ELSE LET r == t \ {Chosen(t)} IN f[Chosen(t)] + sums(r)[r]
    <2>1. ASSUME NEW t \in SUBSET s, t # s
          PROVE  SumsOn(sums(t), f, t) /\ IsFiniteSet(t)
      <3>1. \E g : SumsOn(g, f, t)
        BY <1>1, <2>1
      <3> QED BY <3>1, FS_Subset
    <2>2. ASSUME NEW t \in SUBSET s, t # s
          PROVE  sums(t)[t] = value(t)
      <3>1. CASE t = {}
        BY <2>1, <2>2, <3>1, SumsOnFacts
      <3>2. CASE t # {}
        <4>1. PICK r : r = t \ {Chosen(t)}
          OBVIOUS
        <4>2. r \in SUBSET t /\ r # t /\ r \in SUBSET s /\ r # s
          BY <2>2, <3>2, <4>1, ChosenFacts
        <4>3. sums(t)[t] = f[Chosen(t)] + sums(t)[r]
          BY <2>1, <2>2, <3>2, <4>1, SumsOnFacts
        <4>4. sums(t)[r] = sums(r)[r]
          <5>1. SumsOn(sums(t), f, t) /\ SumsOn(sums(r), f, r) /\ IsFiniteSet(t)
            BY <2>1, <2>2, <4>2
          <5> HIDE DEF sums
          <5> QED BY <4>2, <5>1, SumsOnUnique
        <4> QED BY <3>2, <4>1, <4>3, <4>4
      <3> QED BY <3>1, <3>2
    <2> DEFINE g == [t \in SUBSET s |-> value(t)]
    <2>3. ASSUME NEW t \in SUBSET s
          PROVE  g[t] = IF t = {} THEN 0 ELSE f[Chosen(t)] + g[t \ {Chosen(t)}]
      <3>1. CASE t = {}
        BY <3>1
      <3>2. CASE t # {}
        <4>1. PICK r : r = t \ {Chosen(t)}
          OBVIOUS
        <4>2. r \in SUBSET s /\ r # s
          BY <3>2, <4>1, ChosenFacts
        <4>3. value(t) = f[Chosen(t)] + sums(r)[r]
          BY <3>2, <4>1
        <4>4. sums(r)[r] = value(r) /\ g[r] = value(r) /\ g[t] = value(t)
          BY <2>2, <4>2
        <4> QED BY <3>2, <4>1, <4>3, <4>4
      <3> QED BY <3>1, <3>2
    <2>4. SumsOn(g, f, s)
      <3> DOMAIN g = SUBSET s /\ g = [t \in SUBSET s |-> g[t]]
        OBVIOUS
      <3> HIDE DEF g
      <3> QED BY <2>3 DEF SumsOn
    <2> QED BY <2>4
  <1>2. G = SUBSET S
    <2> G \in SUBSET (SUBSET S)
      OBVIOUS
    <2> HIDE DEF G
    <2> QED BY <1>1, SubsetInduction
  <1> QED BY <1>2

\* So the sum over a finite set unfolds as one expects.
LEMMA SumChosen ==
  ASSUME NEW S, IsFiniteSet(S), NEW f
  PROVE  SumFunctionOnSet(f, S) =
           IF S = {} THEN 0
           ELSE f[Chosen(S)] + SumFunctionOnSet(f, S \ {Chosen(S)})
  <1>1. PICK it : SumIsChosen(it, f, S) /\ SumFunctionOnSet(f, S) = it[S]
    BY SumUnfolds
  <1>2. SumsOn(it, f, S)
    BY <1>1, SumsOnExists DEF SumIsChosen
  <1>3. CASE S = {}
    BY <1>1, <1>2, <1>3, SumsOnFacts
  <1>4. CASE S # {}
    <2>1. PICK T : T = S \ {Chosen(S)}
      OBVIOUS
    <2>2. T \in SUBSET S /\ IsFiniteSet(T)
      BY <1>4, <2>1, ChosenFacts, FS_Subset
    <2>3. PICK ir : SumIsChosen(ir, f, T) /\ SumFunctionOnSet(f, T) = ir[T]
      BY SumUnfolds
    <2>4. SumsOn(ir, f, T)
      BY <2>2, <2>3, SumsOnExists DEF SumIsChosen
    <2>5. it[T] = ir[T]
      BY <1>2, <2>2, <2>4, SumsOnUnique
    <2> QED BY <1>1, <1>2, <1>4, <2>1, <2>3, <2>5, SumsOnFacts
  <1> QED BY <1>3, <1>4

LEMMA SumEmpty == \A f : SumFunctionOnSet(f, {}) = 0
  BY SumChosen, FS_EmptySet

LEMMA SumType ==
  ASSUME NEW S, IsFiniteSet(S), NEW f, \A x \in S : f[x] \in Int
  PROVE  SumFunctionOnSet(f, S) \in Int
  <1> DEFINE G == {s \in SUBSET S : SumFunctionOnSet(f, s) \in Int}
  <1>1. ASSUME NEW s \in SUBSET S, \A t \in SUBSET s : t # s => t \in G
        PROVE  s \in G
    <2>1. IsFiniteSet(s)
      BY FS_Subset
    <2>2. CASE s = {}
      BY <2>2, SumEmpty
    <2>3. CASE s # {}
      <3>1. PICK c, r : c = f[Chosen(s)] /\ r = SumFunctionOnSet(f, s \ {Chosen(s)})
        OBVIOUS
      <3>2. r \in Int /\ c \in Int
        BY <1>1, <2>3, <3>1, ChosenFacts
      <3>3. SumFunctionOnSet(f, s) = c + r
        BY <2>1, <2>3, <3>1, SumChosen
      <3> QED BY <3>2, <3>3
    <2> QED BY <2>2, <2>3
  <1>2. G = SUBSET S
    <2> G \in SUBSET (SUBSET S)
      OBVIOUS
    <2> HIDE DEF G
    <2> QED BY <1>1, SubsetInduction
  <1> QED BY <1>2

LEMMA SumNat ==
  ASSUME NEW S, IsFiniteSet(S), NEW f, \A x \in S : f[x] \in Nat
  PROVE  SumFunctionOnSet(f, S) \in Nat
  <1> DEFINE G == {s \in SUBSET S : SumFunctionOnSet(f, s) \in Nat}
  <1>1. ASSUME NEW s \in SUBSET S, \A t \in SUBSET s : t # s => t \in G
        PROVE  s \in G
    <2>1. IsFiniteSet(s)
      BY FS_Subset
    <2>2. CASE s = {}
      BY <2>2, SumEmpty
    <2>3. CASE s # {}
      <3>1. PICK c, r : c = f[Chosen(s)] /\ r = SumFunctionOnSet(f, s \ {Chosen(s)})
        OBVIOUS
      <3>2. r \in Nat /\ c \in Nat
        BY <1>1, <2>3, <3>1, ChosenFacts
      <3>3. SumFunctionOnSet(f, s) = c + r
        BY <2>1, <2>3, <3>1, SumChosen
      <3> QED BY <3>2, <3>3
    <2> QED BY <2>2, <2>3
  <1>2. G = SUBSET S
    <2> G \in SUBSET (SUBSET S)
      OBVIOUS
    <2> HIDE DEF G
    <2> QED BY <1>1, SubsetInduction
  <1> QED BY <1>2

\* Whichever element is taken first, the sum is the same.
LEMMA SumRemove ==
  ASSUME NEW S, IsFiniteSet(S), NEW f, \A x \in S : f[x] \in Int, NEW x \in S
  PROVE  SumFunctionOnSet(f, S) = f[x] + SumFunctionOnSet(f, S \ {x})
  <1> DEFINE G == {s \in SUBSET S : \A y \in s :
                     SumFunctionOnSet(f, s) = f[y] + SumFunctionOnSet(f, s \ {y})}
  <1>1. ASSUME NEW s \in SUBSET S, \A t \in SUBSET s : t # s => t \in G
        PROVE  s \in G
    <2> SUFFICES ASSUME NEW y \in s
                 PROVE  SumFunctionOnSet(f, s) = f[y] + SumFunctionOnSet(f, s \ {y})
      OBVIOUS
    <2>1. PICK z : z = Chosen(s)
      OBVIOUS
    <2>2. z \in s /\ IsFiniteSet(s)
          /\ SumFunctionOnSet(f, s) = f[z] + SumFunctionOnSet(f, s \ {z})
      BY <2>1, ChosenFacts, SumChosen, FS_Subset
    <2>3. CASE y = z
      BY <2>2, <2>3
    <2>4. CASE y # z
      <3>1. s \ {z} \in G /\ s \ {y} \in G
        BY <1>1, <2>2
      <3>2. SumFunctionOnSet(f, s \ {z}) = f[y] + SumFunctionOnSet(f, (s \ {z}) \ {y})
        BY <2>4, <3>1
      <3>3. SumFunctionOnSet(f, s \ {y}) = f[z] + SumFunctionOnSet(f, (s \ {y}) \ {z})
        BY <2>2, <2>4, <3>1
      <3>4. PICK r : r = (s \ {z}) \ {y}
        OBVIOUS
      <3>5. r = (s \ {y}) \ {z} /\ r \in SUBSET S /\ IsFiniteSet(r)
        BY <3>4, FS_Subset
      <3>6. f[y] \in Int /\ f[z] \in Int /\ SumFunctionOnSet(f, r) \in Int
        <4>1. \A w \in r : f[w] \in Int
          BY <3>5
        <4> QED BY <2>2, <3>5, <4>1, SumType
      <3>7. SumFunctionOnSet(f, s \ {z}) = f[y] + SumFunctionOnSet(f, r)
            /\ SumFunctionOnSet(f, s \ {y}) = f[z] + SumFunctionOnSet(f, r)
        BY <3>2, <3>3, <3>4, <3>5
      <3>8. \A a, b, c \in Int : a + (b + c) = b + (a + c)
        OBVIOUS
      <3> QED BY <2>2, <3>6, <3>7, <3>8
    <2> QED BY <2>3, <2>4
  <1>2. G = SUBSET S
    <2> G \in SUBSET (SUBSET S)
      OBVIOUS
    <2> HIDE DEF G
    <2> QED BY <1>1, SubsetInduction
  <1>3. S \in G
    BY <1>2
  <1> QED BY <1>3

LEMMA SumCongruent ==
  ASSUME NEW S, IsFiniteSet(S), NEW f, NEW g, \A x \in S : f[x] = g[x]
  PROVE  SumFunctionOnSet(f, S) = SumFunctionOnSet(g, S)
  <1> DEFINE G == {s \in SUBSET S : SumFunctionOnSet(f, s) = SumFunctionOnSet(g, s)}
  <1>1. ASSUME NEW s \in SUBSET S, \A t \in SUBSET s : t # s => t \in G
        PROVE  s \in G
    <2>1. IsFiniteSet(s)
      BY FS_Subset
    <2>2. CASE s = {}
      BY <2>2, SumEmpty
    <2>3. CASE s # {}
      <3>1. SumFunctionOnSet(f, s \ {Chosen(s)}) = SumFunctionOnSet(g, s \ {Chosen(s)})
        BY <1>1, <2>3, ChosenFacts
      <3>2. f[Chosen(s)] = g[Chosen(s)]
        BY <2>3, ChosenFacts
      <3> QED BY <2>1, <2>3, <3>1, <3>2, SumChosen
    <2> QED BY <2>2, <2>3
  <1>2. G = SUBSET S
    <2> G \in SUBSET (SUBSET S)
      OBVIOUS
    <2> HIDE DEF G
    <2> QED BY <1>1, SubsetInduction
  <1> QED BY <1>2

\* One summand changes.
LEMMA SumChanges ==
  ASSUME NEW S, IsFiniteSet(S), NEW f, NEW g, NEW x \in S,
         \A y \in S : f[y] \in Int /\ g[y] \in Int, \A y \in S : y # x => g[y] = f[y]
  PROVE  SumFunctionOnSet(g, S) = SumFunctionOnSet(f, S) - f[x] + g[x]
  <1>1. PICK T : T = S \ {x}
    OBVIOUS
  <1>2. IsFiniteSet(T) /\ \A y \in T : f[y] = g[y] /\ f[y] \in Int
    BY <1>1, FS_Subset
  <1>3. SumFunctionOnSet(f, T) = SumFunctionOnSet(g, T) /\ SumFunctionOnSet(f, T) \in Int
    BY <1>2, SumCongruent, SumType
  <1>4. SumFunctionOnSet(f, S) = f[x] + SumFunctionOnSet(f, T)
        /\ SumFunctionOnSet(g, S) = g[x] + SumFunctionOnSet(g, T)
    BY <1>1, SumRemove
  <1> QED BY <1>3, <1>4

\* One summand leaves.
LEMMA SumWithout ==
  ASSUME NEW S, IsFiniteSet(S), NEW f, NEW g, NEW x \in S,
         \A y \in S : f[y] \in Int, \A y \in S : y # x => g[y] = f[y]
  PROVE  SumFunctionOnSet(g, S \ {x}) = SumFunctionOnSet(f, S) - f[x]
  <1>1. PICK T : T = S \ {x}
    OBVIOUS
  <1>2. IsFiniteSet(T) /\ \A y \in T : f[y] = g[y] /\ f[y] \in Int
    BY <1>1, FS_Subset
  <1>3. SumFunctionOnSet(f, T) = SumFunctionOnSet(g, T) /\ SumFunctionOnSet(f, T) \in Int
    BY <1>2, SumCongruent, SumType
  <1>4. SumFunctionOnSet(f, S) = f[x] + SumFunctionOnSet(f, T)
    BY <1>1, SumRemove
  <1> QED BY <1>1, <1>3, <1>4

\* Fewer and smaller summands give no greater a sum.
LEMMA SumShrinks ==
  ASSUME NEW S, IsFiniteSet(S), NEW f, NEW g, NEW T \in SUBSET S,
         \A x \in S : f[x] \in Nat /\ g[x] \in Nat, \A x \in T : f[x] <= g[x]
  PROVE  SumFunctionOnSet(f, T) <= SumFunctionOnSet(g, S)
  <1> DEFINE G == {s \in SUBSET S :
                     SumFunctionOnSet(f, s \cap T) <= SumFunctionOnSet(g, s)}
  <1>1. ASSUME NEW s \in SUBSET S, \A t \in SUBSET s : t # s => t \in G
        PROVE  s \in G
    <2>1. IsFiniteSet(s) /\ IsFiniteSet(s \cap T)
      BY FS_Subset
    <2>2. CASE s = {}
      <3>1. s \cap T = {}
        BY <2>2
      <3> QED BY <2>2, <3>1, SumEmpty
    <2>3. CASE s # {}
      <3>1. PICK c \in s : TRUE
        BY <2>3
      <3>2. PICK r : r = s \ {c}
        OBVIOUS
      <3>3. r \in G /\ IsFiniteSet(r) /\ IsFiniteSet(r \cap T)
        BY <1>1, <2>1, <3>1, <3>2, FS_Subset
      <3>4. /\ SumFunctionOnSet(g, s) = g[c] + SumFunctionOnSet(g, r)
            /\ SumFunctionOnSet(g, r) \in Int /\ SumFunctionOnSet(f, r \cap T) \in Int
            /\ f[c] \in Nat /\ g[c] \in Nat
        BY <2>1, <3>1, <3>2, <3>3, SumRemove, SumType
      <3>5. SumFunctionOnSet(f, r \cap T) <= SumFunctionOnSet(g, r)
        BY <3>3
      <3>6. CASE c \in T
        <4>1. (s \cap T) \ {c} = r \cap T /\ c \in s \cap T /\ f[c] <= g[c]
          BY <3>1, <3>2, <3>6
        <4>2. SumFunctionOnSet(f, s \cap T) = f[c] + SumFunctionOnSet(f, r \cap T)
          <5>1. \A x \in s \cap T : f[x] \in Int
            OBVIOUS
          <5> QED BY <2>1, <4>1, <5>1, SumRemove
        <4>3. SumFunctionOnSet(f, s \cap T) <= SumFunctionOnSet(g, s)
          BY <3>4, <3>5, <4>1, <4>2
        <4> QED BY <4>3
      <3>7. CASE c \notin T
        <4>1. s \cap T = r \cap T
          BY <3>2, <3>7
        <4>2. SumFunctionOnSet(f, s \cap T) <= SumFunctionOnSet(g, s)
          <5>1. PICK a \in Int, d \in Int : /\ a = SumFunctionOnSet(f, r \cap T)
                                            /\ d = SumFunctionOnSet(g, r)
            BY <3>4
          <5>2. SumFunctionOnSet(f, s \cap T) = a
            BY <4>1, <5>1
          <5> QED BY <3>4, <3>5, <5>1, <5>2
        <4> QED BY <4>2
      <3> QED BY <3>6, <3>7
    <2> QED BY <2>2, <2>3
  <1>2. G = SUBSET S
    <2> G \in SUBSET (SUBSET S)
      OBVIOUS
    <2> HIDE DEF G
    <2> QED BY <1>1, SubsetInduction
  <1>3. S \in G /\ S \cap T = T
    BY <1>2
  <1> QED BY <1>3

\* Summands that are zero count for nothing.
LEMMA SumSupport ==
  ASSUME NEW S, IsFiniteSet(S), NEW f, NEW T \in SUBSET S, \A x \in S : f[x] \in Int,
         \A x \in S : x \notin T => f[x] = 0
  PROVE  SumFunctionOnSet(f, S) = SumFunctionOnSet(f, T)
  <1> DEFINE G == {s \in SUBSET S : SumFunctionOnSet(f, s) = SumFunctionOnSet(f, s \cap T)}
  <1>1. ASSUME NEW s \in SUBSET S, \A t \in SUBSET s : t # s => t \in G
        PROVE  s \in G
    <2>1. IsFiniteSet(s) /\ IsFiniteSet(s \cap T)
      BY FS_Subset
    <2>2. CASE s \subseteq T
      <3>1. s \cap T = s
        BY <2>2
      <3> QED BY <3>1
    <2>3. CASE ~(s \subseteq T)
      <3>1. PICK c \in s : c \notin T
        BY <2>3
      <3>2. PICK r : r = s \ {c}
        OBVIOUS
      <3>3. r \in G /\ IsFiniteSet(r)
        BY <1>1, <2>1, <3>1, <3>2, FS_Subset
      <3>4. s \cap T = r \cap T
        BY <3>1, <3>2
      <3>5. /\ SumFunctionOnSet(f, s) = f[c] + SumFunctionOnSet(f, r)
            /\ SumFunctionOnSet(f, r) \in Int /\ f[c] = 0
        BY <2>1, <3>1, <3>2, <3>3, SumRemove, SumType
      <3>6. PICK a \in Int : a = SumFunctionOnSet(f, r)
        BY <3>5
      <3>7. SumFunctionOnSet(f, s) = a /\ SumFunctionOnSet(f, r \cap T) = a
        BY <3>3, <3>5, <3>6
      <3> QED BY <3>4, <3>7
    <2> QED BY <2>2, <2>3
  <1>2. G = SUBSET S
    <2> G \in SUBSET (SUBSET S)
      OBVIOUS
    <2> HIDE DEF G
    <2> QED BY <1>1, SubsetInduction
  <1>3. S \in G /\ S \cap T = T
    BY <1>2
  <1> QED BY <1>3

\* A sum of n summands, each at most b.
LEMMA SumBound ==
  ASSUME NEW S, IsFiniteSet(S), NEW f, NEW b \in Nat,
         \A x \in S : f[x] \in Int /\ f[x] <= b
  PROVE  SumFunctionOnSet(f, S) <= Cardinality(S) * b
  <1> DEFINE G == {s \in SUBSET S : SumFunctionOnSet(f, s) <= Cardinality(s) * b}
  <1>1. ASSUME NEW s \in SUBSET S, \A t \in SUBSET s : t # s => t \in G
        PROVE  s \in G
    <2>1. IsFiniteSet(s)
      BY FS_Subset
    <2>2. CASE s = {}
      <3>1. SumFunctionOnSet(f, s) = 0 /\ Cardinality(s) = 0
        BY <2>2, SumEmpty, FS_EmptySet
      <3> QED BY <3>1
    <2>3. CASE s # {}
      <3>1. PICK c \in s : TRUE
        BY <2>3
      <3>2. PICK r : r = s \ {c}
        OBVIOUS
      <3>3. r \in G
        BY <1>1, <3>1, <3>2
      <3>4. IsFiniteSet(r) /\ Cardinality(r) = Cardinality(s) - 1 /\ Cardinality(r) \in Nat
        BY <2>1, <3>1, <3>2, FS_RemoveElement, FS_CardinalityType
      <3>5. /\ SumFunctionOnSet(f, s) = f[c] + SumFunctionOnSet(f, r)
            /\ SumFunctionOnSet(f, r) \in Int /\ f[c] \in Int /\ f[c] <= b
        BY <2>1, <3>1, <3>2, <3>4, SumRemove, SumType
      <3>6. SumFunctionOnSet(f, r) <= Cardinality(r) * b
        BY <3>3
      <3>7. Cardinality(s) \in Nat
        BY <2>1, FS_CardinalityType
      <3>8. PICK n \in Nat, m \in Nat : n = Cardinality(s) /\ m = Cardinality(r)
        BY <3>4, <3>7
      <3>9. n * b = m * b + b
        <4>1. n = m + 1
          BY <3>4, <3>8
        <4> QED BY <4>1
      <3>10. m * b \in Int /\ n * b \in Int
        OBVIOUS
      <3>11. SumFunctionOnSet(f, s) <= n * b
        BY <3>5, <3>6, <3>8, <3>9, <3>10
      <3> QED BY <3>8, <3>11
    <2> QED BY <2>2, <2>3
  <1>2. G = SUBSET S
    <2> G \in SUBSET (SUBSET S)
      OBVIOUS
    <2> HIDE DEF G
    <2> QED BY <1>1, SubsetInduction
  <1>3. S \in G
    BY <1>2
  <1> QED BY <1>3

-----------------------------------------------------------------------------
(* What the helpers on a row preserve.                                     *)

\* From a live state every legal transition leads to a live state, none leaves
\* a terminal one, and none leads back to the states before the send.
LEMMA TransitionFacts ==
  ASSUME NEW from \in Lifecycle, NEW to, CanTransition(from, to)
  PROVE  /\ to \in Lifecycle
         /\ from \in Terminal => to = from
         /\ from \notin PreSend => to \notin PreSend
  BY DEF CanTransition, Successors, Lifecycle, PreSend, Terminal

\* A row and its update: same client, live stays live, and no regression.
RowStep(old, new) ==
  /\ new \in Entry
  /\ new.client = old.client
  /\ new.state \in Lifecycle
  /\ old.state \in Terminal => new.state = old.state
  /\ old.state \notin PreSend => new.state \notin PreSend

LEMMA ApplyTransitionRow ==
  ASSUME NEW old \in Entry, old.state \in Lifecycle, NEW to
  PROVE  RowStep(old, ApplyTransition(old, to))
  <1>1. CASE CanTransition(old.state, to)
    <2>1. ApplyTransition(old, to) = [old EXCEPT !.state = to]
      BY <1>1 DEF ApplyTransition
    <2>2. to \in Lifecycle
      BY <1>1, TransitionFacts
    <2>3. [old EXCEPT !.state = to] \in Entry
      BY <2>2 DEF Entry
    <2> QED BY <1>1, <2>1, <2>2, <2>3, TransitionFacts DEF RowStep, Entry
  <1>2. CASE ~CanTransition(old.state, to)
    BY <1>2 DEF ApplyTransition, RowStep
  <1> QED BY <1>1, <1>2

LEMMA SendResultRow ==
  ASSUME NEW old \in Entry, old.state \in Lifecycle, NEW rc
  PROVE  RowStep(old, SendResult(old, rc))
  <1> DEFINE unknown  == [old EXCEPT !.status = "Unknown"]
             rejected == [old EXCEPT !.status = "Rejected"]
  <1>1. /\ unknown \in Entry /\ unknown.state = old.state
        /\ unknown.client = old.client
    BY DEF Entry, Statuses
  <1>2. /\ rejected \in Entry /\ rejected.state = old.state
        /\ rejected.client = old.client
    BY DEF Entry, Statuses
  <1>3. RowStep(old, ApplyTransition(old, "Working"))
    BY ApplyTransitionRow
  <1>4. RowStep(unknown, ApplyTransition(unknown, "SendUnknown"))
    BY <1>1, ApplyTransitionRow
  <1>5. RowStep(rejected, ApplyTransition(rejected, "Rejected"))
    BY <1>2, ApplyTransitionRow
  <1>6. RowStep(old, old)
    BY DEF RowStep
  <1>7. \/ SendResult(old, rc) = old
        \/ SendResult(old, rc) = ApplyTransition(old, "Working")
        \/ SendResult(old, rc) = ApplyTransition(unknown, "SendUnknown")
        \/ SendResult(old, rc) = ApplyTransition(rejected, "Rejected")
    BY Zenon DEF SendResult
  <1> HIDE DEF unknown, rejected
  <1> QED BY <1>1, <1>2, <1>3, <1>4, <1>5, <1>6, <1>7 DEF RowStep

LEMMA MergedRow ==
  ASSUME NEW old \in Entry, old.state \in Lifecycle, NEW r \in OrderReport
  PROVE  RowStep(old, Merged(old, r))
  <1> DEFINE snap == MergeSnapshot(old, r)
             to   == MergeTarget(old, r)
  <1>1. /\ snap \in Entry /\ snap.state = old.state
        /\ snap.client = old.client
    BY DEF MergeSnapshot, Entry, OrderReport
  <1>2. CASE MergeLegal(old, r)
    <2>1. CanTransition(old.state, to)
      BY <1>2 DEF MergeLegal
    <2>2. Merged(old, r) = [snap EXCEPT !.state = to]
      BY <1>2 DEF Merged
    <2>3. to \in Lifecycle
      BY <2>1, TransitionFacts
    <2> HIDE DEF snap, to
    <2>4. /\ [snap EXCEPT !.state = to] \in Entry
          /\ [snap EXCEPT !.state = to].state = to
          /\ [snap EXCEPT !.state = to].client = snap.client
      BY <1>1, <2>3 DEF Entry
    <2> QED BY <1>1, <2>1, <2>2, <2>3, <2>4, TransitionFacts DEF RowStep
  <1>3. CASE ~MergeLegal(old, r)
    BY <1>3 DEF Merged, RowStep
  <1> QED BY <1>2, <1>3

LEMMA TradedRow ==
  ASSUME NEW old \in Entry, old.state \in Lifecycle, NEW t, t.volume \in Nat,
         CanTransition(old.state, TradeState(old, t))
  PROVE  RowStep(old, Traded(old, t))
  <1>1. TradeTotal(old, t) \in Nat
    BY DEF TradeTotal, Entry
  <1>2. TradeState(old, t) \in Lifecycle \cap Statuses
    BY DEF TradeState, Lifecycle, Statuses, Terminal
  <1>3. /\ Traded(old, t) \in Entry
        /\ Traded(old, t).client = old.client
        /\ Traded(old, t).state = TradeState(old, t)
    <2> DEFINE total == TradeTotal(old, t)
               to    == TradeState(old, t)
               left  == IF total >= old.volume THEN 0 ELSE old.volume - total
    <2>1. left \in Nat
      BY <1>1 DEF Entry
    <2> HIDE DEF total, to, left
    <2>2. Traded(old, t) =
            [old EXCEPT !.traded = total, !.left = left, !.status = to, !.state = to]
      BY DEF Traded, total, to, left
    <2>3. total \in Nat /\ to \in Lifecycle /\ to \in Statuses
      BY <1>1, <1>2 DEF total, to
    <2>4. to = TradeState(old, t)
      BY DEF to
    <2> QED BY <2>1, <2>2, <2>3, <2>4 DEF Entry
  <1> QED BY <1>2, <1>3, TransitionFacts DEF RowStep

-----------------------------------------------------------------------------
(* What a step of the tables is to the contract.                           *)

ContractStep == [Contract!ContractNext]_(Contract!contractVars)

GoodStep == NoRegressionStep /\ ContractStep

\* The lives and owners the tables stand for.
LivesNow == [id \in OrderIds |-> Life(orders[id])]
OwnersNow == [id \in OrderIds |-> orders[id].client]

\* The contract's steps in terms of those.
SessionChange ==
  /\ initialized' \in BOOLEAN /\ ~(initialized /\ initialized')
  /\ LivesNow' = [id \in OrderIds |-> "none"]
  /\ OwnersNow' = [id \in OrderIds |-> NoClient]

OrderEnters(id, l, c) ==
  /\ initialized /\ initialized' = initialized
  /\ LivesNow[id] = "none" /\ LivesNow' = [LivesNow EXCEPT ![id] = l]
  /\ OwnersNow' = [OwnersNow EXCEPT ![id] = c]
  /\ c # NoClient => \A i \in OrderIds : OwnersNow[i] # c

OrderMovesOn(id, to) ==
  /\ initialized' = initialized /\ OwnersNow' = OwnersNow
  /\ LivesNow' = [LivesNow EXCEPT ![id] = to]
  /\ \/ LivesNow[id] = "pending" /\ to = "live"
     \/ LivesNow[id] \in {"pending", "live"} /\ to = "final"

LEMMA ContractSteps ==
  ASSUME \/ SessionChange
         \/ \E id \in OrderIds, l \in {"pending", "live", "final"},
               c \in ClientIds \cup {NoClient} : OrderEnters(id, l, c)
         \/ \E id \in OrderIds, to \in {"live", "final"} : OrderMovesOn(id, to)
         \/ UNCHANGED <<initialized, LivesNow, OwnersNow>>
  PROVE  ContractStep
  <1>1. CASE SessionChange
    BY <1>1 DEF SessionChange, ContractStep, Contract!ContractNext, Contract!Session,
                Contract!Nobody, LivesNow, OwnersNow
  <1>2. ASSUME NEW id \in OrderIds, NEW l \in {"pending", "live", "final"},
               NEW c \in ClientIds \cup {NoClient}, OrderEnters(id, l, c)
        PROVE  ContractStep
    <2>1. Contract!Enter(id)
      BY <1>2 DEF OrderEnters, Contract!Enter, LivesNow, OwnersNow
    <2> QED BY <2>1 DEF ContractStep, Contract!ContractNext
  <1>3. ASSUME NEW id \in OrderIds, NEW to \in {"live", "final"}, OrderMovesOn(id, to)
        PROVE  ContractStep
    <2>1. Contract!Send(id) \/ Contract!Finish(id)
      BY <1>3 DEF OrderMovesOn, Contract!Send, Contract!Finish, Contract!Moves,
                  LivesNow, OwnersNow
    <2> QED BY <2>1 DEF ContractStep, Contract!ContractNext
  <1>4. CASE UNCHANGED <<initialized, LivesNow, OwnersNow>>
    BY <1>4 DEF ContractStep, Contract!contractVars, LivesNow, OwnersNow
  <1> QED BY <1>1, <1>2, <1>3, <1>4

-----------------------------------------------------------------------------
(* What a step does to the tables.                                         *)

LEMMA IdFacts ==
  /\ NoId \notin OrderIds /\ LocalIds \subseteq OrderIds
  /\ ForeignIds \subseteq OrderIds /\ NoClient \notin ClientIds
  BY ConstantsAssumption DEF OrderIds, LocalIds, NoId, NoClient

\* A lookup answers with a row of the table or with NoId, and with NoId only
\* when neither the identifier nor the client is known.
LEMMA FindFacts ==
  ASSUME TypeOK, NEW id, NEW c
  PROVE  /\ Find(id, c) # NoId => Present(Find(id, c)) /\ Find(id, c) \in OrderIds
         /\ Find(id, c) = NoId => ~Present(id) /\ GetOrderByClientId(c) = NoId
  BY IdFacts DEF Find, GetOrderByClientId, Present

OtherTablesTyped ==
  /\ initialized' = initialized
  /\ counter' \in 0..MaxOrders
  /\ applied' \subseteq TradeKeys
  /\ reconciled' \subseteq OrderIds

\* A legal update of one live row keeps the invariant and takes nothing back.
LEMMA RowUpdate ==
  ASSUME OmsInv, NEW id \in OrderIds, Present(id),
         NEW new, RowStep(orders[id], new),
         orders' = [orders EXCEPT ![id] = new],
         clientIndex' = clientIndex, counter' = counter, OtherTablesTyped
  PROVE  OmsInv' /\ GoodStep
  <1>1. /\ orders' \in [OrderIds -> Entry]
        /\ \A j \in OrderIds : orders'[j] = IF j = id THEN new ELSE orders[j]
    BY DEF OmsInv, TypeOK, RowStep
  <1>2. TypeOK'
    BY <1>1 DEF OmsInv, TypeOK, OtherTablesTyped
  <1>3. \A j \in OrderIds : /\ orders'[j].client = orders[j].client
                            /\ Present(j)' <=> Present(j)
    BY <1>1 DEF RowStep, Present, Lifecycle, PreSend, Terminal
  <1>4. IndexConsistent'
    BY <1>3, IdFacts DEF OmsInv, TypeOK, IndexConsistent, Present
  <1>5. AllocatedBeforeUse'
    BY <1>3 DEF OmsInv, AllocatedBeforeUse
  <1>6. NoRegressionStep
    BY <1>1 DEF NoRegressionStep, RowStep, Lifecycle, PreSend, Terminal
  <1>7. ContractStep
    <2>0. initialized' = initialized
      BY DEF OtherTablesTyped
    <2>1. OwnersNow' = OwnersNow
      BY <1>1, <1>3 DEF OwnersNow
    <2>2. LivesNow' = [LivesNow EXCEPT ![id] = Life(new)]
      BY <1>1 DEF LivesNow
    <2>3. /\ LivesNow[id] = Life(orders[id])
          /\ orders[id].state \in Lifecycle /\ new.state \in Lifecycle
      BY DEF LivesNow, RowStep, OmsInv, TypeOK, Entry, Present
    <2>4. CASE Life(new) = Life(orders[id])
      <3>1. UNCHANGED <<initialized, LivesNow, OwnersNow>>
        BY <2>0, <2>1, <2>2, <2>3, <2>4 DEF LivesNow
      <3> QED BY <3>1, ContractSteps
    <2>5. CASE Life(new) # Life(orders[id])
      <3>1. /\ Life(new) \in {"live", "final"}
            /\ \/ Life(orders[id]) = "pending" /\ Life(new) = "live"
               \/ Life(orders[id]) \in {"pending", "live"} /\ Life(new) = "final"
        BY <2>3, <2>5 DEF RowStep, Life, Lifecycle, PreSend, Terminal
      <3>2. OrderMovesOn(id, Life(new))
        BY <2>0, <2>1, <2>2, <2>3, <3>1 DEF OrderMovesOn
      <3> QED BY <3>1, <3>2, ContractSteps
    <2> QED BY <2>4, <2>5
  <1>8. AbsentOwnsNothing'
    BY <1>1 DEF OmsInv, AbsentOwnsNothing, RowStep, Lifecycle, PreSend, Terminal
  <1> QED BY <1>2, <1>4, <1>5, <1>6, <1>7, <1>8 DEF OmsInv, GoodStep

\* A row enters the table at an unused identifier and with an unused client.
LEMMA RowAdded ==
  ASSUME OmsInv, initialized, NEW id \in OrderIds, ~Present(id),
         NEW new \in Entry, new.state \in Lifecycle,
         GetOrderByClientId(new.client) = NoId,
         orders' = [orders EXCEPT ![id] = new],
         clientIndex' = [c \in ClientIds |->
                           IF c = new.client THEN id ELSE clientIndex[c]],
         counter' >= counter, id \in ForeignIds \/ id <= counter', OtherTablesTyped
  PROVE  OmsInv' /\ GoodStep
  <1>1. /\ orders' \in [OrderIds -> Entry]
        /\ \A j \in OrderIds : orders'[j] = IF j = id THEN new ELSE orders[j]
    BY DEF OmsInv, TypeOK
  <1>2. TypeOK'
    BY <1>1 DEF OmsInv, TypeOK, OtherTablesTyped
  <1>3. orders[id].state = "Absent" /\ new.state # "Absent"
    BY DEF Present, Lifecycle, PreSend, Terminal
  <1>4. \A j \in OrderIds : Present(j)' <=> j = id \/ Present(j)
    BY <1>1, <1>3 DEF Present
  <1>5. \A j \in OrderIds :
          Present(j) /\ orders[j].client # NoClient =>
            /\ orders[j].client \in ClientIds
            /\ orders[j].client # new.client
            /\ clientIndex[orders[j].client] = j
    <2>1. SUFFICES ASSUME NEW j \in OrderIds, Present(j), orders[j].client # NoClient
                   PROVE  /\ orders[j].client \in ClientIds
                          /\ orders[j].client # new.client
                          /\ clientIndex[orders[j].client] = j
      OBVIOUS
    <2>2. orders[j].client \in ClientIds
      BY <2>1 DEF OmsInv, TypeOK, Entry
    <2>3. clientIndex[orders[j].client] = j
      BY <2>1 DEF OmsInv, IndexConsistent
    <2>4. GetOrderByClientId(orders[j].client) = j /\ j # NoId
      BY <2>1, <2>2, <2>3, IdFacts DEF GetOrderByClientId
    <2> QED BY <2>2, <2>3, <2>4
  <1>6. IndexConsistent'
    <2>0. \A c \in ClientIds :
            clientIndex'[c] = IF c = new.client THEN id ELSE clientIndex[c]
      OBVIOUS
    <2>1. ASSUME NEW c \in ClientIds, clientIndex'[c] # NoId
          PROVE  Present(clientIndex[c])' /\ orders'[clientIndex'[c]].client = c
      <3>1. CASE c = new.client
        <4>1. clientIndex'[c] = id /\ orders'[id] = new /\ Present(id)'
          BY <3>1, <2>0, <1>1, <1>4
        <4> QED BY <4>1, <3>1 DEF Present
      <3>2. CASE c # new.client
        <4>1. clientIndex'[c] = clientIndex[c]
          BY <3>2, <2>0
        <4>2. /\ Present(clientIndex[c]) /\ clientIndex[c] \in OrderIds
              /\ orders[clientIndex[c]].client = c
          BY <2>1, <4>1 DEF OmsInv, IndexConsistent, Present
        <4>3. clientIndex[c] # id
          BY <4>2
        <4> QED BY <4>1, <4>2, <4>3, <1>1 DEF Present
      <3> QED BY <3>1, <3>2
    <2>2. ASSUME NEW j \in OrderIds, Present(j)', orders'[j].client # NoClient
          PROVE  clientIndex'[orders'[j].client] = j
      <3>1. CASE j = id
        <4>1. orders'[j] = new /\ new.client \in ClientIds
          BY <3>1, <2>2, <1>1 DEF Entry
        <4> QED BY <4>1, <3>1, <2>0
      <3>2. CASE j # id
        <4>1. Present(j) /\ orders'[j] = orders[j]
          BY <3>2, <2>2, <1>1, <1>4
        <4> QED BY <4>1, <2>2, <1>5, <2>0
      <3> QED BY <3>1, <3>2
    <2> QED BY <2>1, <2>2 DEF IndexConsistent
  <1>7. AllocatedBeforeUse'
    BY <1>4, ConstantsAssumption
    DEF OmsInv, TypeOK, AllocatedBeforeUse, OtherTablesTyped, OrderIds, LocalIds
  <1>8. NoRegressionStep
    BY <1>1, <1>3 DEF NoRegressionStep, PreSend, Terminal
  <1>9. ContractStep
    <2>1. initialized /\ initialized' = initialized
      BY DEF OtherTablesTyped
    <2>2. LivesNow[id] = "none" /\ LivesNow' = [LivesNow EXCEPT ![id] = Life(new)]
      BY <1>1, <1>3 DEF LivesNow, Life, PreSend, Terminal
    <2>3. OwnersNow' = [OwnersNow EXCEPT ![id] = new.client]
      BY <1>1 DEF OwnersNow
    <2>4. Life(new) \in {"pending", "live", "final"} /\ new.client \in ClientIds \cup {NoClient}
      BY <1>3 DEF Life, Entry
    <2>5. ASSUME new.client # NoClient, NEW i \in OrderIds PROVE OwnersNow[i] # new.client
      <3>1. CASE Present(i)
        BY <2>5, <3>1, <1>5 DEF OwnersNow
      <3>2. CASE ~Present(i)
        <4>1. orders[i].client = NoClient
          BY <3>2 DEF OmsInv, AbsentOwnsNothing, Present
        <4> QED BY <2>5, <4>1 DEF OwnersNow
      <3> QED BY <3>1, <3>2
    <2>6. OrderEnters(id, Life(new), new.client)
      BY <2>1, <2>2, <2>3, <2>5 DEF OrderEnters
    <2> QED BY <2>4, <2>6, ContractSteps
  <1>10. AbsentOwnsNothing'
    BY <1>1, <1>3 DEF OmsInv, AbsentOwnsNothing
  <1> QED BY <1>2, <1>6, <1>7, <1>8, <1>9, <1>10 DEF OmsInv, GoodStep

LEMMA NoStep ==
  ASSUME OmsInv, UNCHANGED omsVars
  PROVE  OmsInv' /\ GoodStep
  <1>1. UNCHANGED <<initialized, LivesNow, OwnersNow>>
    BY DEF omsVars, LivesNow, OwnersNow
  <1>2. ContractStep
    BY <1>1, ContractSteps
  <1> QED BY <1>2 DEF OmsInv, omsVars, TypeOK, IndexConsistent, AllocatedBeforeUse, Present,
                      AbsentOwnsNothing, NoRegressionStep, GoodStep

\* Emptied tables satisfy everything.
LEMMA Cleared ==
  ASSUME ClearTables, initialized' \in BOOLEAN, counter' \in 0..MaxOrders
  PROVE  /\ OmsInv'
         /\ LivesNow' = [id \in OrderIds |-> "none"]
         /\ OwnersNow' = [id \in OrderIds |-> NoClient]
  <1>1. /\ \A id \in OrderIds : orders'[id] = Absent
        /\ \A c \in ClientIds : clientIndex'[c] = NoId
    BY DEF ClearTables
  <1>2. Absent \in Entry /\ Absent.state = "Absent"
    BY DEF Absent, Entry, Statuses
  <1>3. TypeOK'
    BY <1>2 DEF ClearTables, TypeOK
  <1>4. \A id : ~Present(id)'
    BY <1>1, <1>2 DEF Present
  <1>5. Absent.client = NoClient /\ Life(Absent) = "none"
    BY DEF Absent, Life, PreSend, Terminal
  <1>6. /\ LivesNow' = [id \in OrderIds |-> "none"]
        /\ OwnersNow' = [id \in OrderIds |-> NoClient]
    BY <1>1, <1>5 DEF LivesNow, OwnersNow
  <1>7. AbsentOwnsNothing'
    BY <1>1, <1>5 DEF AbsentOwnsNothing
  <1> QED BY <1>1, <1>3, <1>4, <1>6, <1>7 DEF OmsInv, IndexConsistent, AllocatedBeforeUse

-----------------------------------------------------------------------------
(* The steps.                                                              *)

\* An operation of OrderApi that changes at most one row by a legal update.
LEMMA OneRow ==
  ASSUME OmsInv, NEW id \in OrderIds, NEW new,
         Present(id) => RowStep(orders[id], new),
         orders' = IF Present(id) THEN [orders EXCEPT ![id] = new] ELSE orders,
         OnlyOrders
  PROVE  OmsInv' /\ GoodStep
  <1>1. OtherTablesTyped
    BY DEF OmsInv, TypeOK, OnlyOrders, OtherTablesTyped
  <1>2. CASE Present(id)
    BY <1>1, <1>2, RowUpdate DEF OnlyOrders
  <1>3. CASE ~Present(id)
    BY <1>3, NoStep DEF OnlyOrders, omsVars
  <1> QED BY <1>2, <1>3

LEMMA RowTyped ==
  ASSUME OmsInv, NEW id \in OrderIds, Present(id)
  PROVE  orders[id] \in Entry /\ orders[id].state \in Lifecycle
  BY DEF OmsInv, TypeOK, Present, Entry

LEMMA RequestStep ==
  ASSUME OmsInv, NEW id \in OrderIds, NEW target, RequestTransition(id, target)
  PROVE  OmsInv' /\ GoodStep
  <1> DEFINE new == ApplyTransition(orders[id], target)
  <1>1. Present(id) => RowStep(orders[id], new)
    BY RowTyped, ApplyTransitionRow
  <1>2. orders' = IF Present(id) THEN [orders EXCEPT ![id] = new] ELSE orders
    BY DEF RequestTransition
  <1> HIDE DEF new
  <1> QED BY <1>1, <1>2, OneRow DEF RequestTransition

LEMMA CallStep ==
  ASSUME OmsInv, NextCall
  PROVE  OmsInv' /\ GoodStep
  <1> PICK id \in OrderIds :
        \/ CancelOrder(id) \/ MarkEmsQueued(id) \/ MarkSendPending(id)
        \/ \E rc \in Results : RecordSendResult(id, rc) \/ RecordCancelResult(id, rc)
        \/ MarkReconciled(id)
    BY DEF NextCall
  <1>1. CASE CancelOrder(id) \/ MarkEmsQueued(id) \/ MarkSendPending(id)
    BY <1>1, RequestStep DEF CancelOrder, MarkEmsQueued, MarkSendPending
  <1>2. ASSUME NEW rc \in Results, RecordSendResult(id, rc)
        PROVE  OmsInv' /\ GoodStep
    <2> DEFINE new == SendResult(orders[id], rc)
    <2>1. Present(id) => RowStep(orders[id], new)
      BY RowTyped, SendResultRow
    <2>2. orders' = IF Present(id) THEN [orders EXCEPT ![id] = new] ELSE orders
      BY <1>2 DEF RecordSendResult
    <2> HIDE DEF new
    <2> QED BY <1>2, <2>1, <2>2, OneRow DEF RecordSendResult
  <1>3. ASSUME NEW rc \in Results, RecordCancelResult(id, rc)
        PROVE  OmsInv' /\ GoodStep
    <2> DEFINE new == ApplyTransition(orders[id], CancelTarget(orders[id], rc))
    <2>1. Present(id) => RowStep(orders[id], new)
      BY RowTyped, ApplyTransitionRow
    <2>2. orders' = IF Present(id) THEN [orders EXCEPT ![id] = new] ELSE orders
      BY <1>3 DEF RecordCancelResult
    <2> HIDE DEF new
    <2> QED BY <1>3, <2>1, <2>2, OneRow DEF RecordCancelResult
  <1>4. CASE MarkReconciled(id)
    <2>1. UNCHANGED <<initialized, LivesNow, OwnersNow>>
      BY <1>4 DEF MarkReconciled, LivesNow, OwnersNow
    <2>2. ContractStep
      BY <2>1, ContractSteps
    <2> QED BY <1>4, <2>2
            DEF MarkReconciled, OmsInv, TypeOK, IndexConsistent, AllocatedBeforeUse,
                Present, AbsentOwnsNothing, NoRegressionStep, GoodStep
  <1> QED BY <1>1, <1>2, <1>3, <1>4

LEMMA AllocateStep ==
  ASSUME OmsInv, AllocateOrderId
  PROVE  OmsInv' /\ GoodStep
  <1>1. counter' \in 0..MaxOrders /\ counter' >= counter
    BY ConstantsAssumption DEF AllocateOrderId, NextId, OmsInv, TypeOK
  <1>2. TypeOK'
    BY <1>1 DEF AllocateOrderId, OmsInv, TypeOK
  <1>3. AllocatedBeforeUse'
    BY <1>1, ConstantsAssumption
    DEF AllocateOrderId, OmsInv, TypeOK, AllocatedBeforeUse, Present, OrderIds, LocalIds
  <1>4. IndexConsistent' /\ AbsentOwnsNothing' /\ NoRegressionStep
    BY DEF AllocateOrderId, OmsInv, IndexConsistent, Present, AbsentOwnsNothing,
           NoRegressionStep
  <1>5. UNCHANGED <<initialized, LivesNow, OwnersNow>>
    BY DEF AllocateOrderId, LivesNow, OwnersNow
  <1>6. ContractStep
    BY <1>5, ContractSteps
  <1> QED BY <1>2, <1>3, <1>4, <1>6 DEF OmsInv, GoodStep

LEMMA CreateStep ==
  ASSUME OmsInv, NextCreate
  PROVE  OmsInv' /\ GoodStep
  <1>1. PICK req \in Request, id \in LocalIds :
          id <= counter /\ ~Present(id) /\ CreateOrder(req, id)
    BY DEF NextCreate
  <1>2. CASE Creates(req, id)
    <2> DEFINE new == NewEntry(req)
    <2>1. new \in Entry /\ new.client = req.client /\ new.state \in Lifecycle
      BY ConstantsAssumption
      DEF NewEntry, Absent, Entry, Request, Lifecycle, PreSend, Statuses
    <2>2. OtherTablesTyped /\ counter' = counter
      BY <1>1 DEF CreateOrder, OmsInv, TypeOK, OtherTablesTyped
    <2>3. GetOrderByClientId(new.client) = NoId
      BY <1>2, <2>1 DEF Creates
    <2>4. /\ orders' = [orders EXCEPT ![id] = new]
          /\ clientIndex' = [c \in ClientIds |->
                               IF c = new.client THEN id ELSE clientIndex[c]]
      BY <1>1, <1>2, <2>1 DEF CreateOrder
    <2>5. id \in OrderIds /\ counter' >= counter /\ id <= counter'
      BY <1>1, <2>2, IdFacts DEF OmsInv, TypeOK
    <2> HIDE DEF new
    <2> QED BY <1>1, <1>2, <2>1, <2>2, <2>3, <2>4, <2>5, RowAdded DEF Creates
  <1>3. CASE ~Creates(req, id)
    BY <1>1, <1>3, NoStep DEF CreateOrder, omsVars
  <1> QED BY <1>2, <1>3

\* A snapshot merged into a live row, from Lane-T or from the start-up sync.
LEMMA MergeStep ==
  ASSUME OmsInv, NEW id \in OrderIds, Present(id), NEW r \in OrderReport,
         orders' = [orders EXCEPT ![id] = Merged(@, r)],
         clientIndex' = clientIndex, counter' = counter, OtherTablesTyped
  PROVE  OmsInv' /\ GoodStep
  <1> DEFINE new == Merged(orders[id], r)
  <1>1. RowStep(orders[id], new)
    BY RowTyped, MergedRow
  <1>2. orders' = [orders EXCEPT ![id] = new]
    OBVIOUS
  <1> HIDE DEF new
  <1> QED BY <1>1, <1>2, RowUpdate

LEMMA AdoptStep ==
  ASSUME OmsInv, initialized, NEW r \in Reportable, Adopt(r), Find(r.order_id, r.client) = NoId
  PROVE  OmsInv' /\ GoodStep
  <1> DEFINE id == IF r.order_id = NoId THEN NextId ELSE r.order_id
  <1>0. r \in OrderReport /\ (r.order_id \in LocalIds => r.order_id <= counter)
    BY ConstantsAssumption DEF Reportable
  <1>1. /\ orders' = [orders EXCEPT ![id] = AdoptedEntry(r)]
        /\ clientIndex' = [c \in ClientIds |->
                             IF c = r.client THEN id ELSE clientIndex[c]]
        /\ reconciled' = reconciled \cup {id}
        /\ counter' = IF r.order_id = NoId THEN NextId ELSE counter
        /\ UNCHANGED <<initialized, applied>>
        /\ r.order_id = NoId => counter < MaxOrders
    BY DEF Adopt
  <1>2. ~Present(r.order_id) /\ GetOrderByClientId(r.client) = NoId
    BY FindFacts DEF OmsInv
  <1>3. /\ id \in OrderIds /\ ~Present(id)
        /\ counter' \in 0..MaxOrders /\ counter' >= counter
        /\ id \in ForeignIds \/ id <= counter'
    <2>1. counter \in Nat /\ MaxOrders \in Nat /\ counter <= MaxOrders
      BY ConstantsAssumption DEF OmsInv, TypeOK
    <2>2. CASE r.order_id = NoId
      <3>1. id = counter + 1 /\ counter' = counter + 1 /\ id \in LocalIds
        BY <1>1, <2>1, <2>2 DEF NextId, LocalIds
      <3>2. ~Present(id)
        BY <2>1, <3>1, ForeignIdsDisjoint DEF OmsInv, AllocatedBeforeUse, Present
      <3> QED BY <1>1, <2>1, <2>2, <3>1, <3>2, IdFacts
    <2>3. CASE r.order_id # NoId
      <3>1. id = r.order_id /\ id \in OrderIds /\ counter' = counter
        BY <1>0, <1>1, <2>3 DEF OrderReport
      <3>2. id \in ForeignIds \/ id <= counter
        BY <1>0, <3>1 DEF OrderIds
      <3> QED BY <1>2, <2>1, <3>1, <3>2
    <2> QED BY <2>2, <2>3
  <1>4. /\ AdoptedEntry(r) \in Entry /\ AdoptedEntry(r).client = r.client
        /\ AdoptedEntry(r).state \in Lifecycle
    <2>1. LifecycleFromStatus(r.status, "Working") \in Lifecycle
      BY <1>0 DEF LifecycleFromStatus, OrderReport, Statuses, Lifecycle, Terminal
    <2> QED BY <1>0, <2>1 DEF AdoptedEntry, Entry, OrderReport
  <1>5. OtherTablesTyped
    BY <1>1, <1>3 DEF OmsInv, TypeOK, OtherTablesTyped
  <1> HIDE DEF id
  <1> QED BY <1>1, <1>2, <1>3, <1>4, <1>5, RowAdded, ZenonT(40)

LEMMA VenueStep ==
  ASSUME OmsInv, NextVenue
  PROVE  OmsInv' /\ GoodStep
  <1>1. ASSUME NEW r \in Reportable, ApplyOrderReport(r)
        PROVE  OmsInv' /\ GoodStep
    <2> DEFINE id == Find(r.order_id, r.client)
    <2>1. r \in OrderReport
      BY ConstantsAssumption DEF Reportable
    <2>2. OnlyOrders /\ OtherTablesTyped
      BY <1>1 DEF ApplyOrderReport, OnlyOrders, OmsInv, TypeOK, OtherTablesTyped
    <2>3. CASE id = NoId
      BY <1>1, <2>3, NoStep DEF ApplyOrderReport, OnlyOrders, omsVars
    <2>4. CASE id # NoId
      <3>1. Present(id) /\ id \in OrderIds
        BY <2>4, FindFacts DEF OmsInv
      <3>2. orders' = [orders EXCEPT ![id] = Merged(@, r)]
        BY <1>1, <2>4 DEF ApplyOrderReport
      <3> HIDE DEF id
      <3> QED BY <2>1, <2>2, <3>1, <3>2, MergeStep DEF OnlyOrders
    <2> QED BY <2>3, <2>4
  <1>2. ASSUME NEW r \in Reportable, ReconcileBrokerOrder(r)
        PROVE  OmsInv' /\ GoodStep
    <2> DEFINE id == Find(r.order_id, r.client)
    <2>1. r \in OrderReport
      BY ConstantsAssumption DEF Reportable
    <2>2. CASE id = NoId
      BY <1>2, <2>2, AdoptStep DEF ReconcileBrokerOrder
    <2>3. CASE id # NoId
      <3>1. Present(id) /\ id \in OrderIds
        BY <2>3, FindFacts DEF OmsInv
      <3>2. ReconcileKnown(id, r)
        BY <1>2, <2>3 DEF ReconcileBrokerOrder
      <3> HIDE DEF id
      <3>3. /\ orders' = [orders EXCEPT ![id] = Merged(@, r)]
            /\ clientIndex' = clientIndex /\ counter' = counter
        BY <3>2 DEF ReconcileKnown
      <3>4. OtherTablesTyped
        BY <3>1, <3>2 DEF ReconcileKnown, OmsInv, TypeOK, OtherTablesTyped
      <3> QED BY <2>1, <3>1, <3>3, <3>4, MergeStep
    <2> QED BY <2>2, <2>3
  <1>3. ASSUME NEW t \in TradeReports, ApplyTradeReport(t)
        PROVE  OmsInv' /\ GoodStep
    <2> DEFINE id  == Find(t.order_id, t.client)
               new == Traded(orders[id], t)
    <2>1. t \in TradeReport /\ t.volume \in Nat
      BY ConstantsAssumption DEF TradeReport
    <2>2. CASE TradeAccepted(id, t)
      <3>1. Present(id) /\ id \in OrderIds
        BY <2>2, FindFacts DEF OmsInv, TradeAccepted
      <3>2. CanTransition(orders[id].state, TradeState(orders[id], t))
        BY <2>2 DEF TradeAccepted
      <3>3. RowStep(orders[id], new)
        BY <2>1, <3>1, <3>2, RowTyped, TradedRow
      <3>4. /\ orders' = [orders EXCEPT ![id] = new]
            /\ applied' = applied \cup {t.key}
            /\ UNCHANGED <<initialized, counter, clientIndex, reconciled>>
        BY <1>3, <2>2 DEF ApplyTradeReport
      <3>5. OtherTablesTyped
        BY <2>1, <3>4 DEF OmsInv, TypeOK, OtherTablesTyped, TradeReport
      <3> HIDE DEF id, new
      <3> QED BY <3>1, <3>3, <3>4, <3>5, RowUpdate
    <2>3. CASE ~TradeAccepted(id, t)
      BY <1>3, <2>3, NoStep DEF ApplyTradeReport
    <2> QED BY <2>2, <2>3
  <1> QED BY <1>1, <1>2, <1>3 DEF NextVenue

LEMMA SessionStep ==
  ASSUME OmsInv, Initialize \/ Shutdown
  PROVE  OmsInv' /\ GoodStep
  <1>0. 0 \in 0..MaxOrders
    BY ConstantsAssumption
  <1>1. ClearTables /\ initialized' \in BOOLEAN /\ counter' \in 0..MaxOrders
    BY <1>0 DEF Initialize, Shutdown, OmsInv, TypeOK
  <1>2. ~(initialized /\ initialized')
    BY DEF Initialize, Shutdown
  <1>3. SessionChange
    BY <1>1, <1>2, Cleared DEF SessionChange
  <1>4. ContractStep
    BY <1>3, ContractSteps
  <1> QED BY <1>1, <1>2, <1>4, Cleared DEF NoRegressionStep, GoodStep

-----------------------------------------------------------------------------
(* The theorems.                                                           *)

LEMMA OmsInitially == Init => OmsInv
  <1> SUFFICES ASSUME Init PROVE OmsInv
    OBVIOUS
  <1>1. /\ \A id \in OrderIds : orders[id] = Absent
        /\ \A c \in ClientIds : clientIndex[c] = NoId
    BY DEF Init, EmptyTables
  <1>2. Absent \in Entry /\ Absent.state = "Absent"
    BY DEF Absent, Entry, Statuses
  <1>3. TypeOK
    <2>1. 0 \in 0..MaxOrders
      BY ConstantsAssumption
    <2> QED BY <1>2, <2>1 DEF Init, EmptyTables, TypeOK
  <1>4. \A id : ~Present(id)
    BY <1>1, <1>2 DEF Present
  <1>5. AbsentOwnsNothing
    BY <1>1 DEF AbsentOwnsNothing, Absent
  <1> QED BY <1>1, <1>3, <1>4, <1>5 DEF OmsInv, IndexConsistent, AllocatedBeforeUse

LEMMA OmsStep == OmsInv /\ [Next]_omsVars => OmsInv' /\ GoodStep
  <1> SUFFICES ASSUME OmsInv, [Next]_omsVars PROVE OmsInv' /\ GoodStep
    OBVIOUS
  <1>1. CASE Initialize \/ Shutdown
    BY <1>1, SessionStep
  <1>2. CASE AllocateOrderId
    BY <1>2, AllocateStep
  <1>3. CASE NextCreate
    BY <1>3, CreateStep
  <1>4. CASE NextCall
    BY <1>4, CallStep
  <1>5. CASE NextVenue
    BY <1>5, VenueStep
  <1>6. CASE UNCHANGED omsVars
    BY <1>6, NoStep
  <1> QED BY <1>1, <1>2, <1>3, <1>4, <1>5, <1>6 DEF Next

\* The inductive invariant holds in every session of the order manager, for any
\* callers and any venue reports.
THEOREM OmsInvariant == Spec => []OmsInv
  BY OmsInitially, OmsStep, PTL DEF Spec

\* The OMS tables keep their types: in particular Create, Adopt and the reports
\* only ever write rows for identifiers handed out or named by the venue.
THEOREM TypeCorrect == Spec => []TypeOK
  BY OmsInvariant, PTL DEF OmsInv

\* client_order_index_ and orders_ agree in both directions in every state.
THEOREM IndexAgrees == Spec => []IndexConsistent
  BY OmsInvariant, PTL DEF OmsInv

\* AllocateOrderId never returns an identifier that a row already has.
THEOREM AllocationIsFresh == Spec => []AllocatedBeforeUse
  BY OmsInvariant, PTL DEF OmsInv

\* A client_order_id never names two orders.
THEOREM ClientNamesOneOrder == Spec => []OneOrderPerClient
  <1>1. OmsInv => OneOrderPerClient
    <2> SUFFICES ASSUME OmsInv, NEW i \in OrderIds, NEW j \in OrderIds,
                        Present(i), Present(j),
                        orders[i].client # NoClient, orders[i].client = orders[j].client
                 PROVE  i = j
      BY DEF OneOrderPerClient
    <2> QED BY DEF OmsInv, IndexConsistent
  <1> QED BY <1>1, OmsInvariant, PTL

\* No operation of a session takes a terminal order out of its final state or a
\* sent order back to a state from which it would be sent again.
THEOREM NothingRegresses == Spec => NoRegression
  BY OmsInvariant, OmsStep, PTL DEF Spec, NoRegression, GoodStep

\* The tables implement the contract: whatever calls, snapshots, trades and
\* adoptions come, every identifier enters once, is sent once and ends once.
THEOREM OneLifeHolds == Spec => OneLife
  <1>1. Init => Contract!ContractInit
    <2> SUFFICES ASSUME Init PROVE Contract!ContractInit
      OBVIOUS
    <2>1. Absent.client = NoClient /\ Life(Absent) = "none"
      BY DEF Absent, Life, PreSend, Terminal
    <2> QED BY <2>1 DEF Init, EmptyTables, Contract!ContractInit, Contract!Nobody
  <1>2. OmsInv /\ [Next]_omsVars => [Contract!ContractNext]_(Contract!contractVars)
    BY OmsStep DEF GoodStep, ContractStep
  <1> QED BY <1>1, <1>2, OmsInvariant, PTL DEF Spec, OneLife, Contract!ContractSpec
=============================================================================
