-------------------------------- MODULE Sums --------------------------------
(***************************************************************************)
(* What the accounting proofs need to know of SumFunctionOnSet, the sum of *)
(* f[x] for x in a finite set S, which the properties about units and      *)
(* cents are stated with: its type, what one element more or less does to  *)
(* it, and that only the values of f on S matter.                          *)
(*                                                                         *)
(* The sum is defined by a recursive function on the subsets of S.  Where  *)
(* a textbook argues by induction on S these proofs take a smallest subset *)
(* for which the claim fails: a finite set has one, because strict         *)
(* inclusion is well founded on its subsets.                               *)
(***************************************************************************)
EXTENDS Integers, FiniteSets, Functions, FiniteSetTheorems, TLAPS

\* The element the sum takes first, and the equation its table g satisfies.
First(s) == CHOOSE x \in s : TRUE

IsSumTable(g, f, S) ==
  g = [s \in SUBSET S |-> IF s = {} THEN 0 ELSE f[First(s)] + g[s \ {First(s)}]]

\* The sum is the entry of a table for the whole set.
LEMMA SumUnfold ==
  ASSUME NEW f, NEW S
  PROVE  SumFunctionOnSet(f, S) = (CHOOSE g : IsSumTable(g, f, S))[S]
BY DEF SumFunctionOnSet, FoldFunctionOnSet, MapThenFoldSet, IsSumTable, First

LEMMA FirstIn ==
  ASSUME NEW s, s # {}
  PROVE  First(s) \in s
BY DEF First

\* Among subsets of a finite set there is one none of whose strict subsets is
\* among them.
LEMMA SmallestSubset ==
  ASSUME NEW S, IsFiniteSet(S), NEW Bad, Bad \subseteq SUBSET S, Bad # {}
  PROVE  \E T \in Bad : \A U \in SUBSET T : U # T => U \notin Bad
<1>1. IsWellFoundedOn(StrictSubsetOrdering(S), SUBSET S)
  BY FS_StrictSubsetOrderingWellFounded, FS_FiniteSubsetsOfFinite
<1>2. PICK T \in Bad : \A U \in Bad : ~(<<U, T>> \in StrictSubsetOrdering(S))
  BY <1>1, WFMin
<1>3. ASSUME NEW U \in SUBSET T, U # T, U \in Bad
      PROVE  FALSE
  BY <1>2, <1>3 DEF StrictSubsetOrdering
<1> QED
  BY <1>2, <1>3

LEMMA TableEntry ==
  ASSUME NEW f, NEW S, NEW g, IsSumTable(g, f, S)
  PROVE  \A s \in SUBSET S : g[s] = IF s = {} THEN 0 ELSE f[First(s)] + g[s \ {First(s)}]
BY DEF IsSumTable

\* Two tables for the same f agree where both have an entry.
LEMMA TablesAgree ==
  ASSUME NEW f, NEW S, NEW T, NEW g, NEW h, IsSumTable(g, f, S), IsSumTable(h, f, T),
         IsFiniteSet(S)
  PROVE  \A u \in SUBSET (S \cap T) : g[u] = h[u]
<1>1. \A s \in SUBSET S : g[s] = IF s = {} THEN 0 ELSE f[First(s)] + g[s \ {First(s)}]
  BY TableEntry
<1>2. \A s \in SUBSET T : h[s] = IF s = {} THEN 0 ELSE f[First(s)] + h[s \ {First(s)}]
  BY TableEntry
<1> DEFINE Bad == {u \in SUBSET (S \cap T) : g[u] # h[u]}
<1> SUFFICES ASSUME Bad # {} PROVE FALSE
  OBVIOUS
<1>3. PICK u \in Bad : \A U \in SUBSET u : U # u => U \notin Bad
  <2>1. Bad \subseteq SUBSET S
    OBVIOUS
  <2> HIDE DEF Bad
  <2> QED
    BY <2>1, SmallestSubset
<1>4. u # {} => g[u \ {First(u)}] = h[u \ {First(u)}]
  BY <1>3, FirstIn
<1> QED
  BY <1>1, <1>2, <1>4

\* Every finite set has a table: a smallest one without would get it from the
\* tables of its subsets.
LEMMA TableExists ==
  ASSUME NEW f, NEW S, IsFiniteSet(S)
  PROVE  \E g : IsSumTable(g, f, S)
<1> DEFINE Bad == {T \in SUBSET S : ~ \E g : IsSumTable(g, f, T)}
<1> SUFFICES ASSUME Bad # {} PROVE FALSE
  OBVIOUS
<1>1. PICK T \in Bad : \A U \in SUBSET T : U # T => U \notin Bad
  <2>1. Bad \subseteq SUBSET S
    OBVIOUS
  <2> HIDE DEF Bad
  <2> QED
    BY <2>1, SmallestSubset
<1> DEFINE h(U) == CHOOSE g : IsSumTable(g, f, U)
           G == [s \in SUBSET T |->
                   IF s = {} THEN 0 ELSE f[First(s)] + h(s \ {First(s)})[s \ {First(s)}]]
<1>2. \A U \in SUBSET T : U # T => IsSumTable(h(U), f, U)
  BY <1>1
<1>3. \A s \in SUBSET T : s # T => G[s] = h(s)[s]
  <2> SUFFICES ASSUME NEW s \in SUBSET T, s # T PROVE G[s] = h(s)[s]
    OBVIOUS
  <2>1. IsSumTable(h(s), f, s)
    BY <1>2
  <2>2. CASE s = {}
    <3> HIDE DEF h
    <3>1. h(s)[s] = 0
      BY <2>1, <2>2, TableEntry
    <3> QED
      BY <3>1, <2>2
  <2>3. CASE s # {}
    <3> DEFINE r == s \ {First(s)}
    <3>1. r \in SUBSET s /\ r # s /\ r # T
      BY <2>3, FirstIn
    <3>2. IsSumTable(h(r), f, r)
      BY <3>1, <1>2
    <3>3. IsFiniteSet(s)
      BY FS_Subset
    <3> HIDE DEF h
    <3>4. h(s)[s] = f[First(s)] + h(s)[r]
      BY <2>1, <2>3, TableEntry
    <3>5. h(s)[r] = h(r)[r]
      <4>1. r \in SUBSET (s \cap r)
        BY <3>1
      <4> HIDE DEF r
      <4> QED
        BY <2>1, <3>2, <3>3, <4>1, TablesAgree
    <3> QED
      BY <3>4, <3>5, <2>3
  <2> QED
    BY <2>2, <2>3
<1>4. IsSumTable(G, f, T)
  <2>1. \A s \in SUBSET T : s # {} => s \ {First(s)} \in SUBSET T /\ s \ {First(s)} # T
    BY FirstIn
  <2>2. \A s \in SUBSET T : s # {} => h(s \ {First(s)})[s \ {First(s)}] = G[s \ {First(s)}]
    <3> HIDE DEF h, G
    <3> QED
      BY <1>3, <2>1
  <2>3. G = [s \in SUBSET T |-> IF s = {} THEN 0 ELSE f[First(s)] + G[s \ {First(s)}]]
    <3> HIDE DEF h
    <3> QED
      BY <2>2
  <2> HIDE DEF h, G
  <2> QED
    BY <2>3 DEF IsSumTable
<1> QED
  BY <1>1, <1>4

LEMMA SumIsEntry ==
  ASSUME NEW f, NEW S, IsFiniteSet(S), NEW g, IsSumTable(g, f, S)
  PROVE  \A u \in SUBSET S : SumFunctionOnSet(f, u) = g[u]
<1> SUFFICES ASSUME NEW u \in SUBSET S PROVE SumFunctionOnSet(f, u) = g[u]
  OBVIOUS
<1>1. IsFiniteSet(u)
  BY FS_Subset
<1>2. IsSumTable(CHOOSE h : IsSumTable(h, f, u), f, u)
  BY <1>1, TableExists
<1>3. PICK h : IsSumTable(h, f, u) /\ SumFunctionOnSet(f, u) = h[u]
  BY <1>2, SumUnfold
<1>4. u \in SUBSET (u \cap S)
  OBVIOUS
<1> QED
  BY <1>1, <1>3, <1>4, TablesAgree

-----------------------------------------------------------------------------
(* What the other modules use *)

\* The defining equation, with the element the sum takes first.
LEMMA SumStep ==
  ASSUME NEW f, NEW S, IsFiniteSet(S)
  PROVE  SumFunctionOnSet(f, S) =
           IF S = {} THEN 0 ELSE f[First(S)] + SumFunctionOnSet(f, S \ {First(S)})
<1>1. PICK g : IsSumTable(g, f, S)
  BY TableExists
<1>2. \A s \in SUBSET S : g[s] = IF s = {} THEN 0 ELSE f[First(s)] + g[s \ {First(s)}]
  BY <1>1, TableEntry
<1>3. g[S] = IF S = {} THEN 0 ELSE f[First(S)] + g[S \ {First(S)}]
  BY <1>2
<1>4. SumFunctionOnSet(f, S) = g[S] /\ SumFunctionOnSet(f, S \ {First(S)}) = g[S \ {First(S)}]
  BY <1>1, SumIsEntry
<1> QED
  BY <1>3, <1>4

LEMMA SumEmpty == \A f : SumFunctionOnSet(f, {}) = 0
BY SumStep, FS_EmptySet

\* A sum of naturals is a natural.
LEMMA SumNat ==
  ASSUME NEW f, NEW S, IsFiniteSet(S), \A x \in S : f[x] \in Nat
  PROVE  SumFunctionOnSet(f, S) \in Nat
<1> DEFINE Bad == {T \in SUBSET S : SumFunctionOnSet(f, T) \notin Nat}
<1> SUFFICES ASSUME Bad # {} PROVE FALSE
  OBVIOUS
<1>1. PICK T \in Bad : \A U \in SUBSET T : U # T => U \notin Bad
  <2>1. Bad \subseteq SUBSET S
    OBVIOUS
  <2> HIDE DEF Bad
  <2> QED
    BY <2>1, SmallestSubset
<1>2. IsFiniteSet(T)
  BY FS_Subset
<1>3. SumFunctionOnSet(f, T) =
        IF T = {} THEN 0 ELSE f[First(T)] + SumFunctionOnSet(f, T \ {First(T)})
  BY <1>2, SumStep
<1>4. T # {} => SumFunctionOnSet(f, T \ {First(T)}) \in Nat /\ f[First(T)] \in Nat
  BY <1>1, FirstIn
<1> QED
  BY <1>3, <1>4

\* One element can be taken out of a sum, whichever it is.
LEMMA SumRemove ==
  ASSUME NEW f, NEW S, IsFiniteSet(S), \A x \in S : f[x] \in Nat, NEW e \in S
  PROVE  SumFunctionOnSet(f, S) = f[e] + SumFunctionOnSet(f, S \ {e})
<1> DEFINE Bad == {T \in SUBSET S : ~ \A y \in T :
                     SumFunctionOnSet(f, T) = f[y] + SumFunctionOnSet(f, T \ {y})}
<1> SUFFICES ASSUME Bad # {} PROVE FALSE
  OBVIOUS
<1>1. PICK T \in Bad : \A U \in SUBSET T : U # T => U \notin Bad
  <2>1. Bad \subseteq SUBSET S
    OBVIOUS
  <2> HIDE DEF Bad
  <2> QED
    BY <2>1, SmallestSubset
<1>2. PICK y \in T : SumFunctionOnSet(f, T) # f[y] + SumFunctionOnSet(f, T \ {y})
  OBVIOUS
<1> DEFINE l == First(T)
<1>3. /\ l \in T
      /\ IsFiniteSet(T) /\ IsFiniteSet(T \ {l}) /\ IsFiniteSet(T \ {y}) /\ IsFiniteSet(T \ {l, y})
  BY FirstIn, FS_Subset
<1>4. SumFunctionOnSet(f, T) = f[l] + SumFunctionOnSet(f, T \ {l})
  BY <1>3, SumStep
<1>5. y # l
  BY <1>2, <1>4
<1>6. SumFunctionOnSet(f, T \ {l}) = f[y] + SumFunctionOnSet(f, (T \ {l}) \ {y})
  BY <1>1, <1>3, <1>5
<1>7. SumFunctionOnSet(f, T \ {y}) = f[l] + SumFunctionOnSet(f, (T \ {y}) \ {l})
  BY <1>1, <1>3, <1>5
<1>8. (T \ {l}) \ {y} = T \ {l, y} /\ (T \ {y}) \ {l} = T \ {l, y}
  OBVIOUS
<1>9. SumFunctionOnSet(f, T \ {l, y}) \in Nat /\ f[l] \in Nat /\ f[y] \in Nat
  BY <1>3, SumNat
<1>10. /\ SumFunctionOnSet(f, T) = f[l] + (f[y] + SumFunctionOnSet(f, T \ {l, y}))
       /\ SumFunctionOnSet(f, T \ {y}) = f[l] + SumFunctionOnSet(f, T \ {l, y})
  BY <1>4, <1>6, <1>7, <1>8
<1>11. \A a, b, c \in Nat : a + (b + c) = b + (a + c)
  OBVIOUS
<1> QED
  BY <1>2, <1>9, <1>10, <1>11

\* ... and one more can be added.
LEMMA SumAdd ==
  ASSUME NEW f, NEW S, IsFiniteSet(S), NEW e, e \notin S, \A x \in S \cup {e} : f[x] \in Nat
  PROVE  SumFunctionOnSet(f, S \cup {e}) = f[e] + SumFunctionOnSet(f, S)
<1>1. IsFiniteSet(S \cup {e})
  BY FS_AddElement
<1>2. (S \cup {e}) \ {e} = S
  OBVIOUS
<1> QED
  BY <1>1, <1>2, SumRemove

\* Only the values of f on S matter.
LEMMA SumCongruent ==
  ASSUME NEW f, NEW g, NEW S, IsFiniteSet(S), \A x \in S : f[x] = g[x]
  PROVE  SumFunctionOnSet(f, S) = SumFunctionOnSet(g, S)
<1> DEFINE Bad == {T \in SUBSET S : SumFunctionOnSet(f, T) # SumFunctionOnSet(g, T)}
<1> SUFFICES ASSUME Bad # {} PROVE FALSE
  OBVIOUS
<1>1. PICK T \in Bad : \A U \in SUBSET T : U # T => U \notin Bad
  <2>1. Bad \subseteq SUBSET S
    OBVIOUS
  <2> HIDE DEF Bad
  <2> QED
    BY <2>1, SmallestSubset
<1>2. IsFiniteSet(T)
  BY FS_Subset
<1>3. /\ SumFunctionOnSet(f, T) =
           IF T = {} THEN 0 ELSE f[First(T)] + SumFunctionOnSet(f, T \ {First(T)})
      /\ SumFunctionOnSet(g, T) =
           IF T = {} THEN 0 ELSE g[First(T)] + SumFunctionOnSet(g, T \ {First(T)})
  BY <1>2, SumStep
<1>4. T # {} => /\ SumFunctionOnSet(f, T \ {First(T)}) = SumFunctionOnSet(g, T \ {First(T)})
                /\ f[First(T)] = g[First(T)]
  BY <1>1, FirstIn
<1> QED
  BY <1>3, <1>4
=============================================================================
