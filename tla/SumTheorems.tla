----------------------------- MODULE SumTheorems -----------------------------
(***************************************************************************)
(* Sums over finite sets, as the models take them from FiniteSetsExt: what *)
(* a sum becomes when an element joins or leaves the set, and when one     *)
(* summand changes.  f is a function, so that no lemma needs an operator   *)
(* for a parameter; induction is by a smallest set that would refute.      *)
(***************************************************************************)
EXTENDS Integers, FiniteSetsExt, FiniteSetTheorems, TLAPS

First(T) == CHOOSE x \in T : TRUE

\* The function over the subsets of S that MapThenFoldSet chooses.
IsSumming(g, f, S) ==
  g = [T \in SUBSET S |-> IF T = {} THEN 0 ELSE f[First(T)] + g[T \ {First(T)}]]
Summing(f, S) == CHOOSE g : IsSumming(g, f, S)

LEMMA SumChosen == \A f, S : SumFunctionOnSet(f, S) = Summing(f, S)[S]
  BY DEF SumFunctionOnSet, FoldFunctionOnSet, MapThenFoldSet, Summing, IsSumming, First

\* Among subsets of a finite set there is one that has no other below it.
LEMMA SmallestSubset ==
  ASSUME NEW S, IsFiniteSet(S), NEW B \in SUBSET SUBSET S, B # {}
  PROVE  \E T \in B : \A U \in B : U \subseteq T => U = T
<1>1. IsWellFoundedOn(StrictSubsetOrdering(S), FiniteSubsetsOf(S)) /\ FiniteSubsetsOf(S) = SUBSET S
  BY FS_StrictSubsetOrderingWellFounded, FS_FiniteSubsetsOfFinite
<1>2. \E T \in B : \A U \in B : <<U, T>> \notin StrictSubsetOrdering(S)
  BY <1>1, WFMin
<1> QED BY <1>2 DEF StrictSubsetOrdering

LEMMA SummingStep ==
  ASSUME NEW f, NEW S, NEW g, IsSumming(g, f, S), NEW T \in SUBSET S, T # {}
  PROVE  First(T) \in T /\ g[T] = f[First(T)] + g[T \ {First(T)}]
<1>1. First(T) \in T
  BY DEF First
<1> QED BY <1>1 DEF IsSumming

LEMMA SummingUnique ==
  ASSUME NEW f, NEW S, NEW T, NEW g, NEW h, IsFiniteSet(S), IsSumming(g, f, S), IsSumming(h, f, T),
         NEW U \in SUBSET S, U \subseteq T
  PROVE  g[U] = h[U]
<1> DEFINE B == {V \in SUBSET S : V \subseteq T /\ g[V] # h[V]}
<1>1. SUFFICES ASSUME B # {} PROVE FALSE
  OBVIOUS
<1>2. PICK V \in B : \A W \in B : W \subseteq V => W = V
  <2>1. B \in SUBSET SUBSET S
    OBVIOUS
  <2> HIDE DEF B
  <2> QED BY <1>1, <2>1, SmallestSubset
<1>3. CASE V = {}
  BY <1>3 DEF IsSumming
<1>4. CASE V # {}
  <2>0. V \in SUBSET S /\ V \in SUBSET T
    OBVIOUS
  <2>1. First(V) \in V /\ g[V] = f[First(V)] + g[V \ {First(V)}]
    BY <1>4, <2>0, SummingStep
  <2>2. h[V] = f[First(V)] + h[V \ {First(V)}]
    BY <1>4, <2>0, SummingStep
  <2>3. g[V \ {First(V)}] = h[V \ {First(V)}]
    BY <1>2, <2>1
  <2> QED BY <2>1, <2>2, <2>3
<1> QED BY <1>3, <1>4

LEMMA SummingExists ==
  ASSUME NEW f, NEW S, IsFiniteSet(S)
  PROVE  IsSumming(Summing(f, S), f, S)
<1> DEFINE B == {T \in SUBSET S : ~ IsSumming(Summing(f, T), f, T)}
<1>1. SUFFICES ASSUME B # {} PROVE FALSE
  OBVIOUS
<1>2. PICK T \in B : \A U \in B : U \subseteq T => U = T
  <2>1. B \in SUBSET SUBSET S
    OBVIOUS
  <2> HIDE DEF B
  <2> QED BY <1>1, <2>1, SmallestSubset
<1>3. ASSUME NEW U \in SUBSET T, U # T
      PROVE  IsSumming(Summing(f, U), f, U) /\ IsFiniteSet(U)
  BY <1>2, <1>3, FS_Subset
<1> DEFINE Tail(U) == U \ {First(U)}
           h == [U \in SUBSET T |-> IF U = {} THEN 0 ELSE f[First(U)] + Summing(f, Tail(U))[Tail(U)]]
<1>4. ASSUME NEW U \in SUBSET T, U # T
      PROVE  h[U] = Summing(f, U)[U]
  <2>1. CASE U = {}
    BY <1>3, <1>4, <2>1 DEF IsSumming
  <2>2. CASE U # {}
    <3>1. First(U) \in U /\ Summing(f, U)[U] = f[First(U)] + Summing(f, U)[Tail(U)]
      BY <1>3, <1>4, <2>2, SummingStep
    <3>2. Tail(U) \in SUBSET T /\ Tail(U) # T /\ Tail(U) \in SUBSET U
      BY <1>4, <3>1
    <3>3. Summing(f, U)[Tail(U)] = Summing(f, Tail(U))[Tail(U)]
      <4> HIDE DEF Tail
      <4> QED BY <1>3, <1>4, <3>2, SummingUnique
    <3>4. h[U] = f[First(U)] + Summing(f, Tail(U))[Tail(U)]
      BY <2>2
    <3> QED BY <3>1, <3>3, <3>4
  <2> QED BY <2>1, <2>2
<1>5. ASSUME NEW U \in SUBSET T, U # {}
      PROVE  h[Tail(U)] = Summing(f, Tail(U))[Tail(U)]
  <2>1. First(U) \in U
    BY <1>5 DEF First
  <2>2. Tail(U) \in SUBSET T /\ Tail(U) # T
    BY <2>1
  <2> HIDE DEF Tail, h
  <2> QED BY <2>2, <1>4
<1>6. h = [U \in SUBSET T |-> IF U = {} THEN 0 ELSE f[First(U)] + h[Tail(U)]]
  <2>1. \A U \in SUBSET T : h[U] = IF U = {} THEN 0 ELSE f[First(U)] + h[Tail(U)]
    <3> SUFFICES ASSUME NEW U \in SUBSET T
                 PROVE  h[U] = IF U = {} THEN 0 ELSE f[First(U)] + h[Tail(U)]
      OBVIOUS
    <3>1. h[U] = IF U = {} THEN 0 ELSE f[First(U)] + Summing(f, Tail(U))[Tail(U)]
      OBVIOUS
    <3> HIDE DEF h, Tail
    <3> QED BY <1>5, <3>1
  <2>2. h = [U \in SUBSET T |-> h[U]]
    OBVIOUS
  <2> HIDE DEF h, Tail
  <2> QED BY <2>1, <2>2
<1>7. IsSumming(h, f, T)
  BY <1>6 DEF IsSumming
<1>8. IsSumming(Summing(f, T), f, T)
  <2> HIDE DEF h
  <2> QED BY <1>7 DEF Summing
<1> QED BY <1>2, <1>8

LEMMA SummingIsSum ==
  ASSUME NEW f, NEW S, IsFiniteSet(S), NEW T \in SUBSET S
  PROVE  Summing(f, S)[T] = SumFunctionOnSet(f, T)
<1>1. IsFiniteSet(T)
  BY FS_Subset
<1>2. IsSumming(Summing(f, S), f, S) /\ IsSumming(Summing(f, T), f, T)
  BY <1>1, SummingExists
<1> QED BY <1>2, SummingUnique, SumChosen

\* Nothing adds up to nothing: what a table without rows contributes.
THEOREM SumEmpty == \A f : SumFunctionOnSet(f, {}) = 0
<1> TAKE f
<1>1. IsFiniteSet({})
  BY FS_EmptySet
<1>2. IsSumming(Summing(f, {}), f, {})
  BY <1>1, SummingExists
<1>3. Summing(f, {})[{}] = 0
  BY <1>2 DEF IsSumming
<1> QED BY <1>3, SumChosen

LEMMA SumFirst ==
  ASSUME NEW f, NEW S, IsFiniteSet(S), S # {}
  PROVE  First(S) \in S /\ SumFunctionOnSet(f, S) = f[First(S)] + SumFunctionOnSet(f, S \ {First(S)})
<1>1. IsSumming(Summing(f, S), f, S)
  BY SummingExists
<1>2. First(S) \in S /\ Summing(f, S)[S] = f[First(S)] + Summing(f, S)[S \ {First(S)}]
  BY <1>1, SummingStep
<1> QED BY <1>2, SummingIsSum

\* A finite sum of integers is an integer.
THEOREM SumType ==
  ASSUME NEW f, NEW S, IsFiniteSet(S), \A x \in S : f[x] \in Int
  PROVE  SumFunctionOnSet(f, S) \in Int
<1> DEFINE B == {T \in SUBSET S : SumFunctionOnSet(f, T) \notin Int}
<1>1. SUFFICES ASSUME B # {} PROVE FALSE
  OBVIOUS
<1>2. PICK T \in B : \A U \in B : U \subseteq T => U = T
  <2>1. B \in SUBSET SUBSET S
    OBVIOUS
  <2> HIDE DEF B
  <2> QED BY <1>1, <2>1, SmallestSubset
<1>3. T \in SUBSET S /\ SumFunctionOnSet(f, T) \notin Int
  OBVIOUS
<1>4. T # {} /\ IsFiniteSet(T)
  <2>1. T # {}
    BY <1>3, SumEmpty
  <2> QED BY <1>3, <2>1, FS_Subset
<1>5. First(T) \in T /\ SumFunctionOnSet(f, T) = f[First(T)] + SumFunctionOnSet(f, T \ {First(T)})
  BY <1>4, SumFirst
<1>6. SumFunctionOnSet(f, T \ {First(T)}) \in Int
  BY <1>2, <1>5
<1> QED BY <1>3, <1>5, <1>6

\* Any element may be taken first: a row leaves the sum.
THEOREM SumRemove ==
  ASSUME NEW f, NEW S, IsFiniteSet(S), \A x \in S : f[x] \in Int, NEW y \in S
  PROVE  SumFunctionOnSet(f, S) = f[y] + SumFunctionOnSet(f, S \ {y})
<1> DEFINE B == {T \in SUBSET S : \E x \in T : SumFunctionOnSet(f, T) # f[x] + SumFunctionOnSet(f, T \ {x})}
<1>1. SUFFICES ASSUME B # {} PROVE FALSE
  OBVIOUS
<1>2. PICK T \in B : \A U \in B : U \subseteq T => U = T
  <2>1. B \in SUBSET SUBSET S
    OBVIOUS
  <2> HIDE DEF B
  <2> QED BY <1>1, <2>1, SmallestSubset
<1>3. PICK x \in T : SumFunctionOnSet(f, T) # f[x] + SumFunctionOnSet(f, T \ {x})
  OBVIOUS
<1> DEFINE c == First(T)
<1>4. T \in SUBSET S /\ IsFiniteSet(T) /\ IsFiniteSet(T \ {x})
  BY FS_Subset
<1>5. c \in T /\ SumFunctionOnSet(f, T) = f[c] + SumFunctionOnSet(f, T \ {c})
  BY <1>3, <1>4, SumFirst
<1> HIDE DEF c
<1>6. x # c
  BY <1>3, <1>5
<1>7. SumFunctionOnSet(f, T \ {c}) = f[x] + SumFunctionOnSet(f, (T \ {c}) \ {x})
  BY <1>2, <1>3, <1>5, <1>6
<1> DEFINE U == (T \ {c}) \ {x}
<1>8. SumFunctionOnSet(f, T \ {x}) = f[c] + SumFunctionOnSet(f, U)
  <2>1. SumFunctionOnSet(f, T \ {x}) = f[c] + SumFunctionOnSet(f, (T \ {x}) \ {c})
    BY <1>2, <1>3, <1>5, <1>6
  <2>2. (T \ {x}) \ {c} = U
    OBVIOUS
  <2> QED BY <2>1, <2>2
<1>9. f[c] \in Int /\ f[x] \in Int /\ SumFunctionOnSet(f, U) \in Int
  <2>1. IsFiniteSet(U) /\ U \subseteq S
    BY <1>4, FS_Subset
  <2>2. SumFunctionOnSet(f, U) \in Int
    BY <2>1, SumType
  <2> QED BY <1>3, <1>4, <1>5, <2>2
<1>10. SumFunctionOnSet(f, T) = f[c] + (f[x] + SumFunctionOnSet(f, U))
  BY <1>5, <1>7
<1> HIDE DEF B, U
<1> QED BY <1>3, <1>8, <1>9, <1>10

\* A new element adds its summand to the sum: a row is inserted.
THEOREM SumAdd ==
  ASSUME NEW f, NEW S, IsFiniteSet(S), \A x \in S : f[x] \in Int, NEW y, y \notin S, f[y] \in Int
  PROVE  SumFunctionOnSet(f, S \cup {y}) = f[y] + SumFunctionOnSet(f, S)
<1>1. IsFiniteSet(S \cup {y})
  BY FS_AddElement
<1>2. (S \cup {y}) \ {y} = S
  OBVIOUS
<1>3. SumFunctionOnSet(f, S \cup {y}) = f[y] + SumFunctionOnSet(f, (S \cup {y}) \ {y})
  BY <1>1, SumRemove
<1> QED BY <1>2, <1>3

\* A sum is taken summand by summand: an allocation spread over many rows.
THEOREM SumPlus ==
  ASSUME NEW S, IsFiniteSet(S), NEW f, NEW g, NEW h,
         \A x \in S : f[x] \in Int /\ g[x] \in Int /\ h[x] = f[x] + g[x]
  PROVE  SumFunctionOnSet(h, S) = SumFunctionOnSet(f, S) + SumFunctionOnSet(g, S)
<1> DEFINE B == {T \in SUBSET S : SumFunctionOnSet(h, T) # SumFunctionOnSet(f, T) + SumFunctionOnSet(g, T)}
<1>1. SUFFICES ASSUME B # {} PROVE FALSE
  OBVIOUS
<1>2. PICK T \in B : \A U \in B : U \subseteq T => U = T
  <2>1. B \in SUBSET SUBSET S
    OBVIOUS
  <2> HIDE DEF B
  <2> QED BY <1>1, <2>1, SmallestSubset
<1>3. T \in SUBSET S /\ IsFiniteSet(T)
  BY FS_Subset
<1>4. CASE T = {}
  BY <1>4, SumEmpty
<1>5. CASE T # {}
  <2>1. PICK y \in T : TRUE
    BY <1>5
  <2> DEFINE U == T \ {y}
  <2>2. U \notin B /\ U \in SUBSET S /\ IsFiniteSet(U)
    BY <1>2, <1>3, FS_Subset
  <2>3. SumFunctionOnSet(h, U) = SumFunctionOnSet(f, U) + SumFunctionOnSet(g, U)
    BY <2>2
  <2>4. f[y] \in Int /\ g[y] \in Int /\ h[y] = f[y] + g[y] /\ y \in T
    BY <1>3
  <2>5. SumFunctionOnSet(f, U) \in Int /\ SumFunctionOnSet(g, U) \in Int
    BY <2>2, SumType
  <2>6. SumFunctionOnSet(f, T) = f[y] + SumFunctionOnSet(f, U)
    BY <1>3, SumRemove
  <2>7. SumFunctionOnSet(g, T) = g[y] + SumFunctionOnSet(g, U)
    BY <1>3, SumRemove
  <2>8. SumFunctionOnSet(h, T) = h[y] + SumFunctionOnSet(h, U)
    BY <1>3, SumRemove
  <2>9. SumFunctionOnSet(h, T) # SumFunctionOnSet(f, T) + SumFunctionOnSet(g, T)
    OBVIOUS
  <2> HIDE DEF B, U
  <2> QED BY <2>3, <2>4, <2>5, <2>6, <2>7, <2>8, <2>9
<1> QED BY <1>4, <1>5

\* Summands that are all zero add up to zero: the tables when the system starts.
THEOREM SumZero ==
  ASSUME NEW f, NEW S, IsFiniteSet(S), \A x \in S : f[x] = 0
  PROVE  SumFunctionOnSet(f, S) = 0
<1>1. SumFunctionOnSet(f, S) \in Int
  BY SumType
<1>2. SumFunctionOnSet(f, S) = SumFunctionOnSet(f, S) + SumFunctionOnSet(f, S)
  BY SumPlus
<1> QED BY <1>1, <1>2

\* Equal summands have equal sums: a step that leaves the summed column alone.
THEOREM SumSame ==
  ASSUME NEW f, NEW g, NEW S, IsFiniteSet(S), \A x \in S : f[x] \in Int /\ g[x] = f[x]
  PROVE  SumFunctionOnSet(g, S) = SumFunctionOnSet(f, S)
<1> DEFINE o == [x \in S |-> 0]
<1>1. \A x \in S : o[x] = 0
  OBVIOUS
<1> HIDE DEF o
<1>2. SumFunctionOnSet(o, S) = 0 /\ SumFunctionOnSet(f, S) \in Int
  BY <1>1, SumZero, SumType
<1>3. SumFunctionOnSet(g, S) = SumFunctionOnSet(f, S) + SumFunctionOnSet(o, S)
  <2>1. \A x \in S : f[x] \in Int /\ o[x] \in Int /\ g[x] = f[x] + o[x]
    BY <1>1
  <2> QED BY <2>1, SumPlus
<1> QED BY <1>2, <1>3

\* One row's amount changes, and the sum by the difference.
THEOREM SumChange ==
  ASSUME NEW S, IsFiniteSet(S), NEW f, NEW g, NEW y \in S, f[y] \in Int, g[y] \in Int,
         \A x \in S \ {y} : f[x] \in Int /\ g[x] = f[x]
  PROVE  SumFunctionOnSet(g, S) = SumFunctionOnSet(f, S) - f[y] + g[y]
<1>1. IsFiniteSet(S \ {y})
  BY FS_Subset
<1>2. SumFunctionOnSet(g, S \ {y}) = SumFunctionOnSet(f, S \ {y})
  BY <1>1, SumSame
<1>3. SumFunctionOnSet(f, S \ {y}) \in Int
  BY <1>1, SumType
<1>4. SumFunctionOnSet(f, S) = f[y] + SumFunctionOnSet(f, S \ {y})
  BY SumRemove
<1>5. SumFunctionOnSet(g, S) = g[y] + SumFunctionOnSet(g, S \ {y})
  <2>1. \A x \in S : g[x] \in Int
    OBVIOUS
  <2> QED BY <2>1, SumRemove
<1> QED BY <1>2, <1>3, <1>4, <1>5

\* A sum of amounts is an amount.
THEOREM SumNat ==
  ASSUME NEW f, NEW S, IsFiniteSet(S), \A x \in S : f[x] \in Nat
  PROVE  SumFunctionOnSet(f, S) \in Nat
<1> DEFINE B == {T \in SUBSET S : SumFunctionOnSet(f, T) \notin Nat}
<1>1. SUFFICES ASSUME B # {} PROVE FALSE
  OBVIOUS
<1>2. PICK T \in B : \A U \in B : U \subseteq T => U = T
  <2>1. B \in SUBSET SUBSET S
    OBVIOUS
  <2> HIDE DEF B
  <2> QED BY <1>1, <2>1, SmallestSubset
<1>3. T \in SUBSET S /\ SumFunctionOnSet(f, T) \notin Nat
  OBVIOUS
<1>4. T # {} /\ IsFiniteSet(T)
  <2>1. T # {}
    BY <1>3, SumEmpty
  <2> QED BY <1>3, <2>1, FS_Subset
<1>5. First(T) \in T /\ SumFunctionOnSet(f, T) = f[First(T)] + SumFunctionOnSet(f, T \ {First(T)})
  BY <1>4, SumFirst
<1>6. SumFunctionOnSet(f, T \ {First(T)}) \in Nat
  BY <1>2, <1>5
<1> QED BY <1>3, <1>5, <1>6

\* What a selection of the rows adds up to, and what the others do.
THEOREM SumSplit ==
  ASSUME NEW f, NEW S, IsFiniteSet(S), \A x \in S : f[x] \in Int, NEW T \in SUBSET S
  PROVE  SumFunctionOnSet(f, S) = SumFunctionOnSet(f, T) + SumFunctionOnSet(f, S \ T)
<1> DEFINE B == {U \in SUBSET T : SumFunctionOnSet(f, U \cup (S \ T))
                                   # SumFunctionOnSet(f, U) + SumFunctionOnSet(f, S \ T)}
<1>1. SUFFICES ASSUME B # {} PROVE FALSE
  <2>1. T \cup (S \ T) = S
    OBVIOUS
  <2>2. T \notin B
    BY <1>1
  <2> QED BY <2>1, <2>2
<1>2. IsFiniteSet(T) /\ IsFiniteSet(S \ T)
  BY FS_Subset
<1>3. PICK U \in B : \A V \in B : V \subseteq U => V = U
  <2>1. B \in SUBSET SUBSET T
    OBVIOUS
  <2> HIDE DEF B
  <2> QED BY <1>1, <1>2, <2>1, SmallestSubset
<1>4. U \in SUBSET T /\ IsFiniteSet(U) /\ IsFiniteSet(U \cup (S \ T))
  BY <1>2, FS_Subset, FS_Union
<1>5. SumFunctionOnSet(f, S \ T) \in Int
  BY <1>2, SumType
<1>6. CASE U = {}
  <2>1. U \cup (S \ T) = S \ T
    BY <1>6
  <2> QED BY <1>5, <1>6, <2>1, SumEmpty
<1>7. CASE U # {}
  <2>1. PICK y \in U : TRUE
    BY <1>7
  <2> DEFINE V == U \ {y}
             W == V \cup (S \ T)
  <2>2. V \notin B /\ V \in SUBSET T /\ IsFiniteSet(V) /\ IsFiniteSet(W)
    BY <1>3, <1>4, FS_Subset
  <2>3. SumFunctionOnSet(f, W) = SumFunctionOnSet(f, V) + SumFunctionOnSet(f, S \ T)
    BY <2>2
  <2>4. (U \cup (S \ T)) \ {y} = W
    BY <1>4
  <2>5. SumFunctionOnSet(f, U) = f[y] + SumFunctionOnSet(f, V)
    BY <1>4, SumRemove
  <2>6. SumFunctionOnSet(f, U \cup (S \ T)) = f[y] + SumFunctionOnSet(f, W)
    <3>1. y \in U \cup (S \ T) /\ \A x \in U \cup (S \ T) : f[x] \in Int
      BY <1>4
    <3> HIDE DEF W
    <3> QED BY <1>4, <2>4, <3>1, SumRemove
  <2>7. f[y] \in Int /\ SumFunctionOnSet(f, V) \in Int
    BY <1>4, <2>2, SumType
  <2>8. SumFunctionOnSet(f, U \cup (S \ T)) # SumFunctionOnSet(f, U) + SumFunctionOnSet(f, S \ T)
    OBVIOUS
  <2> HIDE DEF B, V, W
  <2> QED BY <1>5, <2>3, <2>5, <2>6, <2>7, <2>8
<1> QED BY <1>6, <1>7

\* Sums are ordered as their summands are.
THEOREM SumAtMost ==
  ASSUME NEW f, NEW g, NEW S, IsFiniteSet(S), \A x \in S : f[x] \in Int /\ g[x] \in Int /\ f[x] <= g[x]
  PROVE  SumFunctionOnSet(f, S) <= SumFunctionOnSet(g, S)
<1> DEFINE d == [x \in S |-> g[x] - f[x]]
<1>1. \A x \in S : d[x] \in Nat /\ d[x] \in Int /\ g[x] = f[x] + d[x] /\ f[x] \in Int
  OBVIOUS
<1> HIDE DEF d
<1>2. SumFunctionOnSet(g, S) = SumFunctionOnSet(f, S) + SumFunctionOnSet(d, S)
  BY <1>1, SumPlus
<1>3. SumFunctionOnSet(d, S) \in Nat /\ SumFunctionOnSet(f, S) \in Int
  BY <1>1, SumNat, SumType
<1> QED BY <1>2, <1>3

\* A row starts to count, with a new amount.
THEOREM SumJoins ==
  ASSUME NEW f, NEW g, NEW S, IsFiniteSet(S), NEW y, y \notin S, g[y] \in Int,
         \A x \in S : f[x] \in Int /\ g[x] = f[x]
  PROVE  SumFunctionOnSet(g, S \cup {y}) = SumFunctionOnSet(f, S) + g[y]
<1>1. SumFunctionOnSet(g, S) = SumFunctionOnSet(f, S)
  BY SumSame
<1>2. SumFunctionOnSet(g, S \cup {y}) = g[y] + SumFunctionOnSet(g, S)
  BY SumAdd
<1>3. SumFunctionOnSet(f, S) \in Int
  BY SumType
<1> QED BY <1>1, <1>2, <1>3

\* A row ceases to count.
THEOREM SumLeaves ==
  ASSUME NEW f, NEW g, NEW S, IsFiniteSet(S), NEW y \in S, f[y] \in Int,
         \A x \in S \ {y} : f[x] \in Int /\ g[x] = f[x]
  PROVE  SumFunctionOnSet(g, S \ {y}) = SumFunctionOnSet(f, S) - f[y]
<1>1. IsFiniteSet(S \ {y})
  BY FS_Subset
<1>2. SumFunctionOnSet(g, S \ {y}) = SumFunctionOnSet(f, S \ {y})
  BY <1>1, SumSame
<1>3. SumFunctionOnSet(f, S) = f[y] + SumFunctionOnSet(f, S \ {y})
  BY SumRemove
<1>4. SumFunctionOnSet(f, S \ {y}) \in Int
  BY <1>1, SumType
<1> QED BY <1>2, <1>3, <1>4
=============================================================================
