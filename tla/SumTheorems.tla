---------------------------- MODULE SumTheorems ----------------------------
(***************************************************************************)
(* Facts about SumFunctionOnSet, the sum of the values a function takes on *)
(* a finite set.  The provers know no induction over sets; a smallest      *)
(* counterexample does its work.                                           *)
(***************************************************************************)
EXTENDS Functions, FiniteSets, FiniteSetTheorems, WellFoundedInduction, TLAPS

\* Among the subsets of a finite set that have a flaw one is smallest.
LEMMA SmallestSubset ==
    ASSUME NEW S, IsFiniteSet(S), NEW Flawed, Flawed \subseteq SUBSET S, Flawed /= {}
    PROVE  \E T \in Flawed : \A U \in Flawed : U \subseteq T => U = T
<1>1. Flawed \subseteq FiniteSubsetsOf(S)
  BY FS_FiniteSubsetsOfFinite
<1>2. IsWellFoundedOn(StrictSubsetOrdering(S), FiniteSubsetsOf(S))
  BY FS_StrictSubsetOrderingWellFounded
<1>3. PICK T \in Flawed : \A U \in Flawed : <<U, T>> \notin StrictSubsetOrdering(S)
  BY <1>1, <1>2, WFMin
<1> QED
  BY <1>3 DEF StrictSubsetOrdering

------------------------------------------------------------------------------
Pick(S) == CHOOSE x \in S : TRUE

\* h is the table of the sums of f over the subsets of S.
Tabulates(h, f, S) ==
    h = [s \in SUBSET S |-> IF s = {} THEN 0 ELSE f[Pick(s)] + h[s \ {Pick(s)}]]

Table(f, S) == CHOOSE h : Tabulates(h, f, S)

LEMMA SumIsTabulated ==
    ASSUME NEW f, NEW S
    PROVE  SumFunctionOnSet(f, S) = Table(f, S)[S]
  BY DEF SumFunctionOnSet, FoldFunctionOnSet, MapThenFoldSet, Table, Tabulates, Pick

LEMMA PickIsMember == ASSUME NEW S, S /= {} PROVE Pick(S) \in S
  BY DEF Pick

\* What a table says of one subset.
LEMMA TableEntries ==
    ASSUME NEW f, NEW S, NEW h, Tabulates(h, f, S), NEW U \in SUBSET S
    PROVE  /\ U = {} => h[U] = 0
           /\ U /= {} => h[U] = f[Pick(U)] + h[U \ {Pick(U)}]
<1> DEFINE entry(s) == IF s = {} THEN 0 ELSE f[Pick(s)] + h[s \ {Pick(s)}]
<1>1. h = [s \in SUBSET S |-> entry(s)]
  BY DEF Tabulates
<1>2. h[U] = entry(U)
  <2> HIDE DEF entry
  <2> QED BY <1>1
<1> QED
  BY <1>2

\* Two tables agree wherever both have an entry.
LEMMA TablesAgree ==
    ASSUME NEW f, NEW S, NEW T, IsFiniteSet(S),
           NEW g, Tabulates(g, f, S), NEW h, Tabulates(h, f, T)
    PROVE  \A U \in SUBSET (S \cap T) : g[U] = h[U]
<1> DEFINE Flawed == {U \in SUBSET (S \cap T) : g[U] /= h[U]}
<1> SUFFICES ASSUME Flawed /= {} PROVE FALSE
  OBVIOUS
<1>1. PICK V \in Flawed : \A U \in Flawed : U \subseteq V => U = V
  <2>1. Flawed \subseteq SUBSET S
    OBVIOUS
  <2> HIDE DEF Flawed
  <2> QED
    BY <2>1, SmallestSubset
<1>2. V \in SUBSET S /\ V \in SUBSET T /\ g[V] /= h[V]
  OBVIOUS
<1>3. V /= {}
  <2>1. V = {} => g[V] = 0 /\ h[V] = 0
    BY <1>2, TableEntries
  <2> QED
    BY <1>2, <2>1
<1> DEFINE W == V \ {Pick(V)}
<1>4. W \subseteq V /\ W /= V /\ W \in SUBSET (S \cap T)
  BY <1>3, PickIsMember
<1>5. g[W] = h[W]
  BY <1>1, <1>4
<1>6. g[V] = f[Pick(V)] + g[W] /\ h[V] = f[Pick(V)] + h[W]
  BY <1>2, <1>3, TableEntries
<1> QED
  BY <1>5, <1>6

\* Every finite set has a table.
LEMMA TableExists ==
    ASSUME NEW f, NEW S, IsFiniteSet(S)
    PROVE  Tabulates(Table(f, S), f, S)
<1> SUFFICES \E h : Tabulates(h, f, S)
  BY DEF Table
<1> DEFINE Flawed == {U \in SUBSET S : ~ \E h : Tabulates(h, f, U)}
<1> SUFFICES ASSUME Flawed /= {} PROVE FALSE
  OBVIOUS
<1>1. PICK V \in Flawed : \A U \in Flawed : U \subseteq V => U = V
  <2>1. Flawed \subseteq SUBSET S
    OBVIOUS
  <2> HIDE DEF Flawed
  <2> QED
    BY <2>1, SmallestSubset
<1>2. ~ \E h : Tabulates(h, f, V)
  OBVIOUS
<1>3. IsFiniteSet(V)
  BY FS_Subset
<1> DEFINE sum(U) == IF U = {} THEN 0 ELSE f[Pick(U)] + Table(f, U \ {Pick(U)})[U \ {Pick(U)}]
           table == [U \in SUBSET V |-> sum(U)]
<1>4. ASSUME NEW U \in SUBSET V, U /= V
      PROVE  Tabulates(Table(f, U), f, U)
  <2>1. U \in SUBSET S /\ U \notin Flawed
    BY <1>1, <1>4
  <2> QED
    BY <2>1 DEF Table
<1>5. ASSUME NEW U \in SUBSET V, U /= V
      PROVE  Table(f, U)[U] = sum(U)
  <2>1. Tabulates(Table(f, U), f, U)
    BY <1>4, <1>5
  <2>2. CASE U = {}
    BY <2>1, <2>2, TableEntries
  <2>3. CASE U /= {}
    <3> DEFINE W == U \ {Pick(U)}
    <3>1. W \in SUBSET U /\ W \in SUBSET V /\ W /= V
      BY <1>5
    <3>2. Tabulates(Table(f, W), f, W)
      BY <1>4, <3>1
    <3>3. IsFiniteSet(W)
      BY <1>3, <3>1, FS_Subset
    <3>4. Table(f, W)[W] = Table(f, U)[W]
      BY <2>1, <3>1, <3>2, <3>3, TablesAgree
    <3>5. Table(f, U)[U] = f[Pick(U)] + Table(f, U)[W]
      BY <2>1, <2>3, TableEntries
    <3> QED
      BY <2>3, <3>4, <3>5
  <2> QED
    BY <2>2, <2>3
<1>6. ASSUME NEW U \in SUBSET V, U /= {}
      PROVE  sum(U) = f[Pick(U)] + table[U \ {Pick(U)}]
  <2> DEFINE W == U \ {Pick(U)}
  <2>1. W \in SUBSET V /\ W /= V
    BY <1>6, PickIsMember
  <2>2. table[W] = Table(f, W)[W]
    BY <1>5, <2>1
  <2> QED
    BY <1>6, <2>2
<1>7. \A U \in SUBSET V : sum(U) = IF U = {} THEN 0 ELSE f[Pick(U)] + table[U \ {Pick(U)}]
  BY <1>6
<1>8. table = [U \in SUBSET V |-> IF U = {} THEN 0 ELSE f[Pick(U)] + table[U \ {Pick(U)}]]
  <2>1. table = [U \in SUBSET V |-> sum(U)]
    OBVIOUS
  <2> HIDE DEF sum, table
  <2> QED
    BY <1>7, <2>1
<1>9. Tabulates(table, f, V)
  <2> HIDE DEF table
  <2> QED
    BY <1>8 DEF Tabulates
<1> QED
  BY <1>2, <1>9

\* The empty sum, and the sum as it is defined: one summand and the rest.
LEMMA SumUnfolds ==
    ASSUME NEW f, NEW S, IsFiniteSet(S)
    PROVE  /\ S = {} => SumFunctionOnSet(f, S) = 0
           /\ S /= {} => SumFunctionOnSet(f, S)
                            = f[Pick(S)] + SumFunctionOnSet(f, S \ {Pick(S)})
<1> DEFINE W == S \ {Pick(S)}
<1>1. IsFiniteSet(W)
  BY FS_Subset
<1>2. Tabulates(Table(f, S), f, S) /\ Tabulates(Table(f, W), f, W)
  BY <1>1, TableExists
<1>3. Table(f, S)[W] = Table(f, W)[W]
  <2>1. W \in SUBSET (S \cap W)
    OBVIOUS
  <2> HIDE DEF W
  <2> QED
    BY <1>2, <2>1, TablesAgree
<1>4. /\ S = {} => Table(f, S)[S] = 0
      /\ S /= {} => Table(f, S)[S] = f[Pick(S)] + Table(f, S)[W]
  BY <1>2, TableEntries
<1> HIDE DEF W
<1>5. S /= {} => Table(f, S)[S] = f[Pick(S)] + Table(f, W)[W]
  BY <1>3, <1>4
<1> USE DEF W
<1> QED
  BY <1>4, <1>5, SumIsTabulated

LEMMA SumOfNone == ASSUME NEW f PROVE SumFunctionOnSet(f, {}) = 0
  BY SumUnfolds, FS_EmptySet

------------------------------------------------------------------------------
(* What a sum of natural numbers comes to.                                 *)

LEMMA SumIsNat ==
    ASSUME NEW S, IsFiniteSet(S), NEW f, \A x \in S : f[x] \in Nat
    PROVE  SumFunctionOnSet(f, S) \in Nat
<1> DEFINE Flawed == {U \in SUBSET S : SumFunctionOnSet(f, U) \notin Nat}
<1> SUFFICES ASSUME Flawed /= {} PROVE FALSE
  OBVIOUS
<1>1. PICK V \in Flawed : \A U \in Flawed : U \subseteq V => U = V
  <2>1. Flawed \subseteq SUBSET S
    OBVIOUS
  <2> HIDE DEF Flawed
  <2> QED
    BY <2>1, SmallestSubset
<1>2. V \in SUBSET S /\ SumFunctionOnSet(f, V) \notin Nat
  OBVIOUS
<1>3. IsFiniteSet(V)
  BY <1>2, FS_Subset
<1>4. V /= {}
  BY <1>2, SumOfNone
<1> DEFINE W == V \ {Pick(V)}
<1>5. Pick(V) \in V /\ W \subseteq V /\ W /= V /\ W \in SUBSET S
  BY <1>2, <1>4, PickIsMember
<1>6. SumFunctionOnSet(f, W) \in Nat
  BY <1>1, <1>5
<1>7. SumFunctionOnSet(f, V) = f[Pick(V)] + SumFunctionOnSet(f, W)
  BY <1>3, <1>4, SumUnfolds
<1>8. f[Pick(V)] \in Nat
  BY <1>2, <1>5
<1> HIDE DEF W
<1> QED
  BY <1>2, <1>6, <1>7, <1>8

\* Any summand may be taken out first.
LEMMA SumTakesOut ==
    ASSUME NEW S, IsFiniteSet(S), NEW f, \A x \in S : f[x] \in Nat, NEW x \in S
    PROVE  SumFunctionOnSet(f, S) = f[x] + SumFunctionOnSet(f, S \ {x})
<1> DEFINE Flawed ==
      {U \in SUBSET S :
         ~ \A y \in U : SumFunctionOnSet(f, U) = f[y] + SumFunctionOnSet(f, U \ {y})}
<1>0. SUFFICES ASSUME Flawed /= {} PROVE FALSE
  OBVIOUS
<1>1. PICK V \in Flawed : \A U \in Flawed : U \subseteq V => U = V
  <2>1. Flawed \subseteq SUBSET S
    OBVIOUS
  <2> HIDE DEF Flawed
  <2> QED
    BY <1>0, <2>1, SmallestSubset
<1>2. V \in SUBSET S
  OBVIOUS
<1>3. PICK y \in V : SumFunctionOnSet(f, V) /= f[y] + SumFunctionOnSet(f, V \ {y})
  OBVIOUS
<1>4. IsFiniteSet(V)
  BY <1>2, FS_Subset
<1> DEFINE p == Pick(V)
<1>5. p \in V
  BY <1>3, PickIsMember
<1>6. SumFunctionOnSet(f, V) = f[p] + SumFunctionOnSet(f, V \ {p})
  BY <1>3, <1>4, SumUnfolds
<1> HIDE DEF p
<1>7. p /= y
  BY <1>3, <1>6
<1>8. ASSUME NEW U \in SUBSET V, U /= V, NEW z \in U
      PROVE  SumFunctionOnSet(f, U) = f[z] + SumFunctionOnSet(f, U \ {z})
  BY <1>1, <1>2, <1>8
<1>9. SumFunctionOnSet(f, V \ {p}) = f[y] + SumFunctionOnSet(f, (V \ {p}) \ {y})
  BY <1>5, <1>7, <1>8
<1>10. SumFunctionOnSet(f, V \ {y}) = f[p] + SumFunctionOnSet(f, (V \ {y}) \ {p})
  BY <1>5, <1>7, <1>8
<1> DEFINE rest == SumFunctionOnSet(f, V \ {p, y})
<1>11. (V \ {p}) \ {y} = V \ {p, y} /\ (V \ {y}) \ {p} = V \ {p, y}
  OBVIOUS
<1>12. f[p] \in Nat /\ f[y] \in Nat /\ rest \in Nat
  <2>1. f[p] \in Nat /\ f[y] \in Nat
    BY <1>2, <1>5
  <2>2. IsFiniteSet(V \ {p, y}) /\ \A z \in V \ {p, y} : f[z] \in Nat
    BY <1>2, <1>4, FS_Subset
  <2> QED
    BY <2>1, <2>2, SumIsNat
<1>13. /\ SumFunctionOnSet(f, V) = f[p] + (f[y] + rest)
       /\ SumFunctionOnSet(f, V \ {y}) = f[p] + rest
  BY <1>6, <1>9, <1>10, <1>11
<1> HIDE DEF rest
<1> QED
  BY <1>3, <1>12, <1>13

\* Functions that agree on a set have the same sum on it; one that is nowhere
\* larger has no larger sum.
LEMMA SumIsMonotone ==
    ASSUME NEW S, IsFiniteSet(S), NEW f, NEW g,
           \A x \in S : f[x] \in Nat /\ g[x] \in Nat /\ f[x] <= g[x]
    PROVE  SumFunctionOnSet(f, S) <= SumFunctionOnSet(g, S)
<1> DEFINE Flawed == {U \in SUBSET S : ~(SumFunctionOnSet(f, U) <= SumFunctionOnSet(g, U))}
<1>0. SUFFICES ASSUME Flawed /= {} PROVE FALSE
  OBVIOUS
<1>1. PICK V \in Flawed : \A U \in Flawed : U \subseteq V => U = V
  <2>1. Flawed \subseteq SUBSET S
    OBVIOUS
  <2> HIDE DEF Flawed
  <2> QED
    BY <1>0, <2>1, SmallestSubset
<1>2. V \in SUBSET S /\ ~(SumFunctionOnSet(f, V) <= SumFunctionOnSet(g, V))
  OBVIOUS
<1>3. IsFiniteSet(V)
  BY <1>2, FS_Subset
<1>4. V /= {}
  BY <1>2, SumOfNone
<1> DEFINE W == V \ {Pick(V)}
<1>5. Pick(V) \in V /\ W \subseteq V /\ W /= V /\ W \in SUBSET S
  BY <1>2, <1>4, PickIsMember
<1>6. SumFunctionOnSet(f, W) <= SumFunctionOnSet(g, W)
  BY <1>1, <1>5
<1>7. /\ SumFunctionOnSet(f, V) = f[Pick(V)] + SumFunctionOnSet(f, W)
      /\ SumFunctionOnSet(g, V) = g[Pick(V)] + SumFunctionOnSet(g, W)
  BY <1>3, <1>4, SumUnfolds
<1>8. f[Pick(V)] \in Nat /\ g[Pick(V)] \in Nat /\ f[Pick(V)] <= g[Pick(V)]
  BY <1>2, <1>5
<1>9. SumFunctionOnSet(f, W) \in Nat /\ SumFunctionOnSet(g, W) \in Nat
  <2>1. IsFiniteSet(W) /\ \A x \in W : f[x] \in Nat /\ g[x] \in Nat
    BY <1>5, FS_Subset
  <2> QED
    BY <2>1, SumIsNat
<1> HIDE DEF W
<1> QED
  BY <1>2, <1>6, <1>7, <1>8, <1>9

LEMMA SumIsExtensional ==
    ASSUME NEW S, IsFiniteSet(S), NEW f, NEW g,
           \A x \in S : f[x] \in Nat /\ g[x] = f[x]
    PROVE  SumFunctionOnSet(f, S) = SumFunctionOnSet(g, S)
<1>1. /\ SumFunctionOnSet(f, S) <= SumFunctionOnSet(g, S)
      /\ SumFunctionOnSet(g, S) <= SumFunctionOnSet(f, S)
  BY SumIsMonotone
<1>2. SumFunctionOnSet(f, S) \in Nat /\ SumFunctionOnSet(g, S) \in Nat
  BY SumIsNat
<1> QED
  BY <1>1, <1>2

\* A part of a set has no larger sum than the whole.
LEMMA SumOfPart ==
    ASSUME NEW S, IsFiniteSet(S), NEW f, \A x \in S : f[x] \in Nat,
           NEW T \in SUBSET S
    PROVE  SumFunctionOnSet(f, T) <= SumFunctionOnSet(f, S)
<1> DEFINE Flawed ==
      {U \in SUBSET S :
         T \subseteq U /\ ~(SumFunctionOnSet(f, T) <= SumFunctionOnSet(f, U))}
<1>0. SUFFICES ASSUME Flawed /= {} PROVE FALSE
  OBVIOUS
<1>1. PICK V \in Flawed : \A U \in Flawed : U \subseteq V => U = V
  <2>1. Flawed \subseteq SUBSET S
    OBVIOUS
  <2> HIDE DEF Flawed
  <2> QED
    BY <1>0, <2>1, SmallestSubset
<1>2. /\ V \in SUBSET S /\ T \subseteq V
      /\ ~(SumFunctionOnSet(f, T) <= SumFunctionOnSet(f, V))
  OBVIOUS
<1>3. IsFiniteSet(V) /\ IsFiniteSet(T)
  BY <1>2, FS_Subset
<1>4. SumFunctionOnSet(f, V) \in Nat /\ SumFunctionOnSet(f, T) \in Nat
  BY <1>2, <1>3, SumIsNat
<1>5. V /= T
  BY <1>2, <1>4
<1>6. PICK x \in V : x \notin T
  BY <1>2, <1>5
<1>7. SumFunctionOnSet(f, V) = f[x] + SumFunctionOnSet(f, V \ {x})
  BY <1>2, <1>3, SumTakesOut
<1>8. SumFunctionOnSet(f, T) <= SumFunctionOnSet(f, V \ {x})
  BY <1>1, <1>2, <1>6
<1>9. SumFunctionOnSet(f, V \ {x}) \in Nat
  <2>1. IsFiniteSet(V \ {x}) /\ \A y \in V \ {x} : f[y] \in Nat
    BY <1>2, <1>3, FS_Subset
  <2> QED
    BY <2>1, SumIsNat
<1> QED
  BY <1>2, <1>4, <1>7, <1>8, <1>9

\* One summand more.
LEMMA SumAdds ==
    ASSUME NEW S, IsFiniteSet(S), NEW x, x \notin S, NEW f,
           \A y \in S \cup {x} : f[y] \in Nat
    PROVE  SumFunctionOnSet(f, S \cup {x}) = f[x] + SumFunctionOnSet(f, S)
<1>1. IsFiniteSet(S \cup {x}) /\ (S \cup {x}) \ {x} = S
  BY FS_AddElement
<1> QED
  BY <1>1, SumTakesOut

\* Nothing is the sum of nothings.
LEMMA SumOfZeros ==
    ASSUME NEW S, IsFiniteSet(S), NEW f, \A x \in S : f[x] = 0
    PROVE  SumFunctionOnSet(f, S) = 0
<1> DEFINE Flawed == {U \in SUBSET S : SumFunctionOnSet(f, U) /= 0}
<1>0. SUFFICES ASSUME Flawed /= {} PROVE FALSE
  OBVIOUS
<1>1. PICK V \in Flawed : \A U \in Flawed : U \subseteq V => U = V
  <2>1. Flawed \subseteq SUBSET S
    OBVIOUS
  <2> HIDE DEF Flawed
  <2> QED
    BY <1>0, <2>1, SmallestSubset
<1>2. V \in SUBSET S /\ SumFunctionOnSet(f, V) /= 0
  OBVIOUS
<1>3. PICK x \in V : TRUE
  BY <1>2, SumOfNone
<1>4. SumFunctionOnSet(f, V) = f[x] + SumFunctionOnSet(f, V \ {x})
  BY <1>2, FS_Subset, SumTakesOut
<1>5. SumFunctionOnSet(f, V \ {x}) = 0
  BY <1>1, <1>2, <1>3
<1> QED
  BY <1>2, <1>4, <1>5
=============================================================================
