----------------------------- MODULE LabsProofs -----------------------------
(***************************************************************************)
(* What the runs check of the labs of Labs, for every value of the         *)
(* constants: each section has the inductive invariant of one lab, its     *)
(* preservation by every action, and the theorems that follow from it.     *)
(* A step of another lab leaves the variables of this one as they are,     *)
(* so each invariant holds of Labs' Spec.  cqrs-es is in CqrsProofs.       *)
(***************************************************************************)
EXTENDS Labs, Sums, NaturalsInduction, WellFoundedInduction, TLAPS

-----------------------------------------------------------------------------
(* Sums of money: remainders, and one line more.                           *)

\* A number below the modulus is its own remainder.
LEMMA ModSmall ==
  ASSUME NEW a \in Nat, NEW m \in Nat \ {0}, a < m
  PROVE  a % m = a
OBVIOUS

\* A remainder is a natural below the modulus.
LEMMA ModNat ==
  ASSUME NEW a \in Nat, NEW m \in Nat \ {0}
  PROVE  a % m \in Nat /\ a % m < m
OBVIOUS

\* The remainder of a sum is that of the sum of a remainder.
LEMMA ModAdd ==
  ASSUME NEW a \in Nat, NEW b \in Nat, NEW m \in Nat \ {0}
  PROVE  ((a % m) + b) % m = (a + b) % m
<1> DEFINE q == a \div m
           r == a % m
           p == (r + b) \div m
           s == (r + b) % m
<1>1. q \in Nat /\ r \in Nat /\ a = m * q + r
  OBVIOUS
<1>2. p \in Nat /\ s \in Nat /\ s < m /\ r + b = m * p + s
  OBVIOUS
<1> HIDE DEF q, r, p, s
<1>3. a + b = m * (q + p) + s
  BY <1>1, <1>2
<1>4. \A k \in Nat, t \in Nat : t < m => (m * k + t) % m = t
  OBVIOUS
<1>5. q + p \in Nat
  BY <1>1, <1>2
<1>6. (m * (q + p) + s) % m = s
  BY <1>2, <1>4, <1>5
<1> QED
  BY <1>3, <1>6 DEF r, s

\* What one more line adds.
LEMMA ExactlyAppend ==
  ASSUME NEW lines \in Seq(Line), NEW units \in Seq(Nat), Len(units) < Len(lines), NEW unit \in Nat
  PROVE  /\ Exactly(lines, units) \in Nat
         /\ Exactly(lines, Append(units, unit)) =
              Exactly(lines, units) + unit * lines[Len(units) + 1].quantity
<1> DEFINE n == Len(units)
           more == Append(units, unit)
           f == [i \in DOMAIN units |-> units[i] * lines[i].quantity]
           g == [i \in DOMAIN more |-> more[i] * lines[i].quantity]
<1>1. /\ n \in Nat /\ DOMAIN units = 1..n /\ DOMAIN more = 1..(n + 1)
      /\ more[n + 1] = unit
      /\ \A i \in 1..n : more[i] = units[i] /\ units[i] \in Nat
      /\ \A i \in 1..(n + 1) : lines[i] \in Line
  OBVIOUS
<1>2. \A i \in 1..(n + 1) : more[i] \in Nat /\ lines[i].quantity \in Nat
  <2>1. \A i \in 1..(n + 1) : i \in 1..n \/ i = n + 1
    BY <1>1
  <2> HIDE DEF more
  <2> QED
    BY <1>1, <2>1 DEF Line
<1>3. \A x, y \in Nat : x * y \in Nat
  OBVIOUS
<1> HIDE DEF n, more
<1>4. /\ \A i \in 1..(n + 1) : g[i] = more[i] * lines[i].quantity /\ g[i] \in Nat
      /\ \A i \in 1..n : f[i] = g[i] /\ f[i] \in Nat
  BY <1>1, <1>2, <1>3
<1>5. IsFiniteSet(1..n) /\ n + 1 \notin 1..n /\ 1..(n + 1) = (1..n) \cup {n + 1}
  <2>1. IsFiniteSet(1..n)
    BY <1>1, FS_Interval
  <2> QED
    BY <1>1, <2>1
<1> HIDE DEF f, g
<1>6. SumFunctionOnSet(g, 1..(n + 1)) = g[n + 1] + SumFunctionOnSet(g, 1..n)
  BY <1>4, <1>5, SumAdd
<1>7. SumFunctionOnSet(f, 1..n) = SumFunctionOnSet(g, 1..n)
  <2>1. \A i \in 1..n : f[i] = g[i]
    BY <1>4
  <2> QED
    BY <1>5, <2>1, SumCongruent
<1>8. SumFunctionOnSet(f, 1..n) \in Nat
  BY <1>4, <1>5, SumNat
<1>9. g[n + 1] = unit * lines[n + 1].quantity /\ g[n + 1] \in Nat
  BY <1>1, <1>4
<1>10. Exactly(lines, units) = SumFunctionOnSet(f, 1..n) /\ Exactly(lines, more) = SumFunctionOnSet(g, 1..(n + 1))
  BY <1>1 DEF Exactly, f, g
<1> QED
  BY <1>6, <1>7, <1>8, <1>9, <1>10 DEF n, more

\* No line, no cents.
LEMMA ExactlyNothing == \A lines : Exactly(lines, <<>>) = 0
<1>1. DOMAIN <<>> = {}
  OBVIOUS
<1> QED
  BY <1>1, SumEmpty DEF Exactly

-----------------------------------------------------------------------------
(* Loops.  FoldLeft is an entry of a table over the sets of positions, of  *)
(* which the entries for 1..i are the turns of the loop.                   *)

\* A finite set of numbers has a largest one.
LEMMA MaxIsIn ==
  ASSUME NEW S, IsFiniteSet(S), S # {}, S \subseteq Nat
  PROVE  Max(S) \in S
<1> DEFINE Bad == {T \in SUBSET S : T # {} /\ ~ \E x \in T : \A y \in T : x >= y}
<1>1. Bad = {}
  <2> SUFFICES ASSUME Bad # {} PROVE FALSE
    OBVIOUS
  <2>1. PICK T \in Bad : \A U \in SUBSET T : U # T => U \notin Bad
    <3>1. Bad \subseteq SUBSET S
      OBVIOUS
    <3> HIDE DEF Bad
    <3> QED
      BY <3>1, SmallestSubset
  <2>2. PICK y \in T : TRUE
    OBVIOUS
  <2>3. CASE T \ {y} = {}
    BY <2>2, <2>3
  <2>4. CASE T \ {y} # {}
    <3>1. T \ {y} \notin Bad
      BY <2>1, <2>2
    <3>2. PICK x \in T \ {y} : \A z \in T \ {y} : x >= z
      BY <2>4, <3>1
    <3>3. x \in Nat /\ y \in Nat /\ \A z \in T : z \in Nat
      BY <2>2, <3>2
    <3>4. CASE x >= y
      BY <3>2, <3>4
    <3>5. CASE ~(x >= y)
      <4>1. \A z \in T : y >= z
        BY <3>2, <3>3, <3>5
      <4> QED
        BY <2>2, <4>1
    <3> QED
      BY <3>4, <3>5
  <2> QED
    BY <2>3, <2>4
<1>2. \E x \in S : \A y \in S : x >= y
  BY <1>1
<1> QED
  BY <1>2 DEF Max

\* What holds at 0, and at i if it holds at i - 1, holds at every i up to n.
LEMMA Climb ==
  ASSUME NEW n \in Nat, NEW Reached, 0 \in Reached,
         \A i \in 1..n : i - 1 \in Reached => i \in Reached
  PROVE  \A i \in 0..n : i \in Reached
<1> DEFINE Bad == {i \in 0..n : i \notin Reached}
<1> SUFFICES ASSUME Bad # {} PROVE FALSE
  OBVIOUS
<1>1. PICK i \in Bad : \A j \in Bad : ~(<<j, i>> \in OpToRel(<, Nat))
  <2>1. Bad \subseteq Nat
    OBVIOUS
  <2> HIDE DEF Bad
  <2> QED
    BY <2>1, NatLessThanWellFounded, WFMin
<1>0. Bad \subseteq Nat /\ i \in 0..n /\ i \notin Reached
  BY <1>1 DEF OpToRel
<1>2. \A j \in Bad : ~(j < i)
  <2> HIDE DEF Bad
  <2> QED
    BY <1>0, <1>1 DEF OpToRel
<1>3. i \in 1..n /\ i - 1 \in 0..n /\ i - 1 < i
  <2> HIDE DEF Bad
  <2>1. i # 0
    BY <1>0
  <2> QED
    BY <1>0, <2>1
<1>4. i - 1 \in Reached
  BY <1>2, <1>3
<1> QED
  BY <1>1, <1>3, <1>4

\* The table of a loop that starts with base and whose turn i takes v to
\* step[<<v, i>>]: one entry for every set of turns.
IsLoopTable(t, base, step, S) ==
  t = [s \in SUBSET S |-> IF s = {} THEN base ELSE step[<<t[s \ {Max(s)}], Max(s)>>]]

ArePositions(S) == IsFiniteSet(S) /\ S \subseteq Nat

\* Two tables of one loop agree on what both are tables of.
LEMMA LoopTablesAgree ==
  ASSUME NEW base, NEW step, NEW S, NEW T, NEW g, NEW h, ArePositions(S),
         IsLoopTable(g, base, step, S), IsLoopTable(h, base, step, T)
  PROVE  \A u \in SUBSET (S \cap T) : g[u] = h[u]
<1>1. \A s \in SUBSET S : g[s] = IF s = {} THEN base ELSE step[<<g[s \ {Max(s)}], Max(s)>>]
  BY DEF IsLoopTable
<1>2. \A s \in SUBSET T : h[s] = IF s = {} THEN base ELSE step[<<h[s \ {Max(s)}], Max(s)>>]
  BY DEF IsLoopTable
<1> DEFINE Bad == {u \in SUBSET (S \cap T) : g[u] # h[u]}
<1> SUFFICES ASSUME Bad # {} PROVE FALSE
  OBVIOUS
<1>3. PICK u \in Bad : \A U \in SUBSET u : U # u => U \notin Bad
  <2>1. Bad \subseteq SUBSET S
    OBVIOUS
  <2> HIDE DEF Bad
  <2> QED
    BY <2>1, SmallestSubset DEF ArePositions
<1>4. u # {} => Max(u) \in u
  BY <1>3, MaxIsIn, FS_Subset DEF ArePositions
<1>5. u # {} => g[u \ {Max(u)}] = h[u \ {Max(u)}]
  BY <1>3, <1>4
<1> QED
  BY <1>1, <1>2, <1>3, <1>5

\* Every loop has its table.
LEMMA LoopTableExists ==
  ASSUME NEW base, NEW step, NEW S, ArePositions(S)
  PROVE  \E t : IsLoopTable(t, base, step, S)
<1> DEFINE Bad == {T \in SUBSET S : ~ \E t : IsLoopTable(t, base, step, T)}
<1> SUFFICES ASSUME Bad # {} PROVE FALSE
  OBVIOUS
<1>1. PICK T \in Bad : \A U \in SUBSET T : U # T => U \notin Bad
  <2>1. Bad \subseteq SUBSET S
    OBVIOUS
  <2> HIDE DEF Bad
  <2> QED
    BY <2>1, SmallestSubset DEF ArePositions
<1> DEFINE h(U) == CHOOSE t : IsLoopTable(t, base, step, U)
           G == [s \in SUBSET T |->
                   IF s = {} THEN base ELSE step[<<h(s \ {Max(s)})[s \ {Max(s)}], Max(s)>>]]
<1>2. \A U \in SUBSET T : U # T => IsLoopTable(h(U), base, step, U)
  BY <1>1
<1>3. \A s \in SUBSET T : s # {} => Max(s) \in s /\ s \ {Max(s)} \in SUBSET T /\ s \ {Max(s)} # T
  <2> SUFFICES ASSUME NEW s \in SUBSET T, s # {} PROVE Max(s) \in s
    OBVIOUS
  <2>1. IsFiniteSet(s) /\ s \subseteq Nat
    BY <1>1, FS_Subset DEF ArePositions
  <2> QED
    BY <2>1, MaxIsIn
<1>4. \A s \in SUBSET T : s # T => G[s] = h(s)[s]
  <2> SUFFICES ASSUME NEW s \in SUBSET T, s # T PROVE G[s] = h(s)[s]
    OBVIOUS
  <2>1. IsLoopTable(h(s), base, step, s)
    BY <1>2
  <2>2. CASE s = {}
    <3> HIDE DEF h
    <3>1. h(s)[s] = base
      BY <2>1, <2>2 DEF IsLoopTable
    <3> QED
      BY <3>1, <2>2
  <2>3. CASE s # {}
    <3> DEFINE r == s \ {Max(s)}
    <3>1. r \in SUBSET s /\ r \in SUBSET T /\ r # T
      BY <1>3, <2>3
    <3>2. IsLoopTable(h(r), base, step, r)
      BY <3>1, <1>2
    <3>3. ArePositions(s)
      BY <1>1, FS_Subset DEF ArePositions
    <3> HIDE DEF h
    <3>4. h(s)[s] = step[<<h(s)[r], Max(s)>>]
      BY <2>1, <2>3 DEF IsLoopTable
    <3>5. h(s)[r] = h(r)[r]
      <4>1. r \in SUBSET (s \cap r)
        BY <3>1
      <4> HIDE DEF r
      <4> QED
        BY <2>1, <3>2, <3>3, <4>1, LoopTablesAgree
    <3> QED
      BY <3>4, <3>5, <2>3
  <2> QED
    BY <2>2, <2>3
<1>5. IsLoopTable(G, base, step, T)
  <2>1. \A s \in SUBSET T : s # {} => h(s \ {Max(s)})[s \ {Max(s)}] = G[s \ {Max(s)}]
    <3> HIDE DEF h, G
    <3> QED
      BY <1>3, <1>4
  <2>2. G = [s \in SUBSET T |-> IF s = {} THEN base ELSE step[<<G[s \ {Max(s)}], Max(s)>>]]
    <3> HIDE DEF h
    <3> QED
      BY <2>1
  <2> HIDE DEF h, G
  <2> QED
    BY <2>2 DEF IsLoopTable
<1> QED
  BY <1>1, <1>5

\* The positions up to i, without the last.
LEMMA UpTo ==
  ASSUME NEW n \in Nat, NEW i \in 1..n
  PROVE  1..i \in SUBSET (1..n) /\ 1..i # {} /\ Max(1..i) = i /\ (1..i) \ {Max(1..i)} = 1..(i - 1)
<1>1. Max(1..i) \in 1..i
  <2>1. IsFiniteSet(1..i)
    BY FS_Interval
  <2> QED
    BY <2>1, MaxIsIn
<1>2. Max(1..i) >= i
  <2>1. \E x \in 1..i : \A y \in 1..i : x >= y
    OBVIOUS
  <2>2. \A y \in 1..i : Max(1..i) >= y
    BY <2>1 DEF Max
  <2> QED
    BY <2>2
<1> QED
  BY <1>1, <1>2

\* The step of a loop of n turns over values of V.
IsTurn(step, n, V) == n \in Nat /\ step \in [V \X (1..n) -> V]

\* Some positions have a last one.
LEMMA LastIsIn ==
  ASSUME NEW n \in Nat, NEW s \in SUBSET (1..n), s # {}
  PROVE  Max(s) \in s
<1>1. IsFiniteSet(1..n)
  BY FS_Interval
<1>2. IsFiniteSet(s)
  BY <1>1, FS_Subset
<1>3. s \subseteq Nat
  OBVIOUS
<1> QED
  BY <1>2, <1>3, MaxIsIn

\* A loop over values of V has a table of values of V.
LEMMA LoopTableIsTyped ==
  ASSUME NEW n, NEW V, NEW base, NEW step,
         IsTurn(step, n, V), base \in V
  PROVE  \E t : IsLoopTable(t, base, step, 1..n) /\ t \in [SUBSET (1..n) -> V]
<1> USE DEF IsTurn
<1>1. IsFiniteSet(1..n) /\ 1..n \subseteq Nat
  BY FS_Interval
<1>2. PICK t : IsLoopTable(t, base, step, 1..n)
  BY <1>1, LoopTableExists DEF ArePositions
<1>3. \A s \in SUBSET (1..n) :
        t[s] = IF s = {} THEN base ELSE step[<<t[s \ {Max(s)}], Max(s)>>]
  BY <1>2 DEF IsLoopTable
<1>4. \A s \in SUBSET (1..n) : t[s] \in V
  <2> DEFINE Bad == {s \in SUBSET (1..n) : t[s] \notin V}
  <2> SUFFICES ASSUME Bad # {} PROVE FALSE
    OBVIOUS
  <2>1. PICK T \in Bad : \A U \in SUBSET T : U # T => U \notin Bad
    <3>1. Bad \subseteq SUBSET (1..n)
      OBVIOUS
    <3> HIDE DEF Bad
    <3> QED
      BY <1>1, <3>1, SmallestSubset
  <2>2. T # {} => Max(T) \in T
    BY <1>1, <2>1, MaxIsIn, FS_Subset
  <2>3. T # {} => t[T \ {Max(T)}] \in V
    BY <2>1, <2>2
  <2> QED
    BY <1>3, <2>1, <2>2, <2>3
<1>5. t \in [SUBSET (1..n) -> V]
  <2>1. t = [s \in SUBSET (1..n) |-> t[s]]
    BY <1>2 DEF IsLoopTable
  <2> QED
    BY <1>4, <2>1
<1> QED
  BY <1>2, <1>5

\* The entries for 1..i are the turns of the loop: each is its step taken from
\* the one before, and the last is what the loop comes to.
LEMMA LoopTurns ==
  ASSUME NEW n, NEW V, NEW base, NEW step, NEW t, IsLoopTable(t, base, step, 1..n),
         IsTurn(step, n, V), base \in V
  PROVE  \E run \in [0..n -> V] : /\ run[0] = base /\ run[n] = t[1..n]
                                  /\ \A i \in 1..n : run[i] = step[<<run[i - 1], i>>]
<1> USE DEF IsTurn
<1>1. \A s \in SUBSET (1..n) :
        t[s] = IF s = {} THEN base ELSE step[<<t[s \ {Max(s)}], Max(s)>>]
  BY DEF IsLoopTable
<1> DEFINE run == [i \in 0..n |-> t[1..i]]
<1>2. run[0] = base /\ run[n] = t[1..n]
  <2>1. 1..0 = {} /\ 0 \in 0..n /\ n \in 0..n
    OBVIOUS
  <2> QED
    BY <1>1, <2>1
<1>3. \A i \in 1..n : run[i] = step[<<run[i - 1], i>>]
  <2> SUFFICES ASSUME NEW i \in 1..n PROVE run[i] = step[<<run[i - 1], i>>]
    OBVIOUS
  <2>1. i \in 0..n /\ i - 1 \in 0..n
    OBVIOUS
  <2>2. t[1..i] = step[<<t[1..(i - 1)], i>>]
    BY <1>1, UpTo
  <2> QED
    BY <2>1, <2>2
<1>4. run \in [0..n -> V]
  <2> DEFINE Reached == {i \in 0..n : run[i] \in V}
  <2>1. 0 \in Reached
    BY <1>2
  <2>2. \A i \in 1..n : i - 1 \in Reached => i \in Reached
    <3> SUFFICES ASSUME NEW i \in 1..n, i - 1 \in Reached PROVE i \in Reached
      OBVIOUS
    <3>1. <<run[i - 1], i>> \in V \X (1..n)
      OBVIOUS
    <3>2. \A x \in V \X (1..n) : step[x] \in V
      OBVIOUS
    <3>3. run[i] \in V
      <4> HIDE DEF run
      <4> QED
        BY <1>3, <3>1, <3>2
    <3> QED
      BY <3>3
  <2>3. \A i \in 0..n : i \in Reached
    <3> HIDE DEF Reached
    <3> QED
      BY <2>1, <2>2, Climb
  <2> QED
    BY <2>3
<1> HIDE DEF run
<1> QED
  BY <1>2, <1>3, <1>4

-----------------------------------------------------------------------------
(* src/event-driven, the copy of the prices.  A product that is never      *)
(* written again too soon has at most one announcement outside the queues, *)
(* and those in the queues arrive in the order of the writes: the last one *)
(* to come brings the price catalog-service has.                           *)

Message == [product : Products, price : Nat]

\* In a queue of messages: is there one about p, and has the last one about p
\* this price?
Says(q, p) == \E i \in DOMAIN q : q[i].product = p
IsLast(q, i) == \A j \in DOMAIN q : j > i => q[j].product # q[i].product
LastSays(q, p, cents) == \A i \in DOMAIN q : q[i].product = p /\ IsLast(q, i) => q[i].price = cents

\* What a new message does to a queue ...
LEMMA SaysAppend ==
  ASSUME NEW q \in Seq(Message), NEW m \in Message
  PROVE  /\ Append(q, m) \in Seq(Message)
         /\ \A p : Says(Append(q, m), p) <=> Says(q, p) \/ m.product = p
         /\ LastSays(Append(q, m), m.product, m.price)
         /\ \A p, cents : p # m.product /\ LastSays(q, p, cents) => LastSays(Append(q, m), p, cents)
<1> DEFINE r == Append(q, m)
           n == Len(q)
<1>1. /\ n \in Nat /\ Len(r) = n + 1 /\ r \in Seq(Message) /\ r[n + 1] = m
      /\ DOMAIN q = 1..n /\ DOMAIN r = 1..(n + 1)
      /\ \A i \in 1..n : r[i] = q[i]
  OBVIOUS
<1> HIDE DEF r, n
<1>2. \A p : Says(r, p) <=> Says(q, p) \/ m.product = p
  BY <1>1 DEF Says
<1>3. LastSays(r, m.product, m.price)
  BY <1>1 DEF LastSays, IsLast
<1>4. ASSUME NEW p, NEW cents, p # m.product, LastSays(q, p, cents) PROVE LastSays(r, p, cents)
  <2> SUFFICES ASSUME NEW i \in DOMAIN r, r[i].product = p, IsLast(r, i) PROVE r[i].price = cents
    BY DEF LastSays
  <2>1. i \in 1..n /\ r[i] = q[i]
    BY <1>1, <1>4
  <2>2. IsLast(q, i)
    BY <1>1, <2>1 DEF IsLast
  <2> QED
    BY <1>1, <1>4, <2>1, <2>2 DEF LastSays
<1> QED
  BY <1>1, <1>2, <1>3, <1>4 DEF r

\* ... and what consuming one does.
LEMMA SaysTail ==
  ASSUME NEW q \in Seq(Message), q # <<>>
  PROVE  /\ Tail(q) \in Seq(Message) /\ Head(q) \in Message
         /\ \A p : Says(q, p) <=> Says(Tail(q), p) \/ Head(q).product = p
         /\ \A p, cents : LastSays(q, p, cents) => LastSays(Tail(q), p, cents)
         /\ \A cents : LastSays(q, Head(q).product, cents) /\ ~Says(Tail(q), Head(q).product)
                         => Head(q).price = cents
<1> DEFINE r == Tail(q)
           n == Len(q)
<1>1. /\ n \in Nat \ {0} /\ Len(r) = n - 1 /\ r \in Seq(Message) /\ Head(q) = q[1]
      /\ q[1] \in Message
      /\ DOMAIN q = 1..n /\ DOMAIN r = 1..(n - 1)
      /\ \A i \in 1..(n - 1) : r[i] = q[i + 1]
  OBVIOUS
<1> HIDE DEF r, n
<1>2. \A i \in 2..n : i - 1 \in DOMAIN r /\ r[i - 1] = q[i]
  BY <1>1
<1>3. \A p : Says(q, p) <=> Says(r, p) \/ q[1].product = p
  <2> SUFFICES ASSUME NEW p PROVE Says(q, p) <=> Says(r, p) \/ q[1].product = p
    OBVIOUS
  <2>1. Says(r, p) => Says(q, p)
    BY <1>1 DEF Says
  <2>2. q[1].product = p => Says(q, p)
    BY <1>1 DEF Says
  <2>3. ASSUME NEW i \in DOMAIN q, q[i].product = p PROVE Says(r, p) \/ q[1].product = p
    <3>1. i = 1 \/ i \in 2..n
      BY <1>1
    <3> QED
      BY <1>2, <2>3, <3>1 DEF Says
  <2> QED
    BY <2>1, <2>2, <2>3 DEF Says
<1>4. ASSUME NEW p, NEW cents, LastSays(q, p, cents) PROVE LastSays(r, p, cents)
  <2> SUFFICES ASSUME NEW i \in DOMAIN r, r[i].product = p, IsLast(r, i) PROVE r[i].price = cents
    BY DEF LastSays
  <2>1. i \in 1..(n - 1) /\ r[i] = q[i + 1] /\ i + 1 \in DOMAIN q
    BY <1>1
  <2>2. \A j \in DOMAIN q : j > i + 1 => q[j].product # q[i + 1].product
    <3> SUFFICES ASSUME NEW j \in DOMAIN q, j > i + 1 PROVE q[j].product # q[i + 1].product
      OBVIOUS
    <3>1. j - 1 \in DOMAIN r /\ r[j - 1] = q[j] /\ j - 1 > i
      BY <1>1, <1>2, <2>1
    <3> QED
      BY <2>1, <3>1 DEF IsLast
  <2> QED
    BY <1>4, <2>1, <2>2 DEF LastSays, IsLast
<1>5. ASSUME NEW cents, LastSays(q, q[1].product, cents), ~Says(r, q[1].product)
      PROVE  q[1].price = cents
  <2>1. \A j \in DOMAIN q : j > 1 => q[j].product # q[1].product
    <3> SUFFICES ASSUME NEW j \in DOMAIN q, j > 1 PROVE q[j].product # q[1].product
      OBVIOUS
    <3>1. j - 1 \in DOMAIN r /\ r[j - 1] = q[j]
      BY <1>1, <1>2
    <3> QED
      BY <1>5, <3>1 DEF Says
  <2> QED
    BY <1>1, <1>5, <2>1 DEF LastSays, IsLast
<1> QED
  BY <1>1, <1>3, <1>4, <1>5 DEF r

Mentions(s, p) == Says(wire[s], p)
Pending(p) == {c \in Calls : Call[c].product = p /\ calling[c] = "written"}
Spoken(p) == \E c \in Calls : Priced(p, Call[c].price) \in said

\* Has catalog-service such a product?
Stocked(p) == \E c \in Calls : /\ Call[c].product = p /\ Call[c].kind = "create"
                              /\ calling[c] \in {"written", "200"}

InTurn(p) ==
  /\ \A c, d \in Pending(p) : c = d
  /\ \A c \in Pending(p) : /\ Call[c].price = price[p]
                           /\ ~Mentions(ProductCreated, p)
                           /\ Call[c].kind = "update" \/ ~Mentions(ProductPriceChanged, p)
  /\ ~Mentions(ProductCreated, p) \/ ~Mentions(ProductPriceChanged, p)
  /\ Pending(p) = {} =>
       /\ LastSays(wire[ProductCreated], p, price[p])
       /\ LastSays(wire[ProductPriceChanged], p, price[p])
       /\ Mentions(ProductCreated, p) \/ Mentions(ProductPriceChanged, p) \/ quoted[p] = price[p]
       /\ price[p] = 0 \/ Spoken(p)

Untouched(p) == /\ price[p] = 0 /\ quoted[p] = 0 /\ Pending(p) = {}
                /\ ~Mentions(ProductCreated, p) /\ ~Mentions(ProductPriceChanged, p)

CopyTypes == /\ calling \in [Calls -> {"new", "written", "200", "400", "404"}]
             /\ price \in [Products -> Nat]
             /\ DOMAIN wire = Subjects
             /\ wire[ProductCreated] \in Seq(Message) /\ wire[ProductPriceChanged] \in Seq(Message)
             /\ quoted \in [Products -> Nat]

CopyInv == /\ CopyTypes
           /\ \A p \in Products : p \in hasty \cup unheard \/ InTurn(p)
           /\ \A p \in Products : Stocked(p) \/ Untouched(p)

\* Before the first announcement.
LEMMA CopyInitInv == EventDrivenInit => CopyInv
BY
DEF EventDrivenInit, AnnounceInit, CatalogInit, CopyInv, CopyTypes, InTurn, Untouched, Stocked,
    Pending,
       Mentions, Says, LastSays, Subjects, UserRegistered, ProductCreated, ProductPriceChanged

\* Nothing about products happens.
LEMMA CopyStutterInv ==
  ASSUME CopyInv, UNCHANGED <<calling, price, hasty, quoted>>,
         DOMAIN wire' = Subjects, wire'[ProductCreated] = wire[ProductCreated],
         wire'[ProductPriceChanged] = wire[ProductPriceChanged],
         said \subseteq said', unheard \subseteq unheard'
  PROVE  CopyInv'
BY DEF CopyInv, CopyTypes, InTurn, Untouched, Stocked, Pending, Mentions, Spoken

\* The subjects are three.
LEMMA SubjectsDiffer ==
  /\ UserRegistered # ProductCreated /\ UserRegistered # ProductPriceChanged
  /\ ProductCreated # ProductPriceChanged
  /\ Subjects = {UserRegistered, ProductCreated, ProductPriceChanged}
BY DEF Subjects, UserRegistered, ProductCreated, ProductPriceChanged

\* A call that is refused leaves the products as they are.
LEMMA RefuseInv ==
  ASSUME CopyInv, NEW c \in Calls, calling[c] = "new", NEW status \in {"400", "404"},
         Refuse(c, status), UNCHANGED quoted
  PROVE  CopyInv'
<1>1. /\ calling' = [calling EXCEPT ![c] = status]
      /\ UNCHANGED <<price, wire, said, unheard, hasty, quoted>>
  BY DEF Refuse, CallAt, historyVars
<1>2. \A d \in Calls : calling'[d] \in {"written", "200"} <=> calling[d] \in {"written", "200"}
  BY <1>1 DEF CopyInv, CopyTypes
<1>3. \A d \in Calls : calling'[d] = "written" <=> calling[d] = "written"
  BY <1>1 DEF CopyInv, CopyTypes
<1>4. \A p : Pending(p)' = Pending(p) /\ (Stocked(p)' <=> Stocked(p))
  BY <1>2, <1>3 DEF Pending, Stocked
<1> QED
  BY <1>1, <1>4 DEF CopyInv, CopyTypes, InTurn, Untouched, Mentions, Spoken

\* The table is written.
LEMMA WriteInv ==
  ASSUME CopyInv, NEW c \in Calls, calling[c] = "new",
         WriteRow(Call[c].product, Call[c].price), CallAt(c, "written"), UNCHANGED quoted,
         Call[c].kind = "create" \/ price[Call[c].product] > 0
  PROVE  CopyInv'
<1> DEFINE q == Call[c].product
<1>1. /\ q \in Products /\ Call[c].price \in Nat /\ Call[c].kind \in {"create", "update"}
      /\ calling' = [calling EXCEPT ![c] = "written"]
      /\ price' = [price EXCEPT ![q] = Call[c].price]
      /\ hasty \subseteq hasty' /\ (Outstanding(q) => q \in hasty')
      /\ UNCHANGED <<wire, said, unheard, quoted>>
  BY AnnouncementsAssumption DEF WriteRow, CallAt
<1>2. CopyTypes'
  BY <1>1 DEF CopyInv, CopyTypes
<1>3. \A p : p # q => Pending(p)' = Pending(p) /\ (Stocked(p)' <=> Stocked(p))
  BY <1>1 DEF CopyInv, CopyTypes, Pending, Stocked
<1>4. ASSUME NEW p \in Products, p # q
      PROVE  (p \in hasty \cup unheard \/ InTurn(p))' /\ (Stocked(p) \/ Untouched(p))'
  <2>1. price'[p] = price[p]
    BY <1>1, <1>4 DEF CopyInv, CopyTypes
  <2> QED
    BY <1>1, <1>3, <1>4, <2>1 DEF CopyInv, InTurn, Untouched, Mentions, Spoken
<1>5. Stocked(q)'
  <2>1. CASE Call[c].kind = "create"
    BY <1>1, <2>1 DEF CopyInv, CopyTypes, Stocked
  <2>2. CASE price[q] > 0
    <3>1. Stocked(q)
      BY <1>1, <2>2 DEF CopyInv, Untouched
    <3> QED
      BY <1>1, <3>1 DEF CopyInv, CopyTypes, Stocked
  <2> QED
    BY <2>1, <2>2
<1>6. CASE Outstanding(q)
  BY <1>1, <1>2, <1>4, <1>5, <1>6 DEF CopyInv
<1>7. CASE q \notin hasty \cup unheard /\ ~Outstanding(q)
  <2>1. Pending(q) = {} /\ ~Mentions(ProductCreated, q)
    BY <1>7 DEF Outstanding, Pending, Mentions, Says
  <2>2. Pending(q)' = {c}
    BY <1>1, <2>1 DEF CopyInv, CopyTypes, Pending
  <2>3. price'[q] = Call[c].price
    BY <1>1 DEF CopyInv, CopyTypes
  <2>4. Call[c].kind = "update" \/ ~Mentions(ProductPriceChanged, q)
    <3>1. CASE Call[c].kind = "create"
      <4>1. ~Stocked(q)
        BY <1>1, <3>1, AnnouncementsAssumption DEF Stocked
      <4> QED
        BY <1>1, <4>1 DEF CopyInv, Untouched
    <3> QED
      BY <1>1, <3>1
  <2>5. InTurn(q)'
    BY <1>1, <2>1, <2>2, <2>3, <2>4 DEF InTurn, Mentions
  <2> QED
    BY <1>1, <1>2, <1>4, <1>5, <2>5 DEF CopyInv
<1>8. CASE q \in hasty \cup unheard
  BY <1>1, <1>2, <1>4, <1>5, <1>8 DEF CopyInv
<1> QED
  BY <1>6, <1>7, <1>8

\* The handler that wrote it announces it.
LEMMA AnnounceInv ==
  ASSUME CopyInv, NEW c \in Calls, calling[c] = "written", CallAt(c, Status.Ok),
         NEW s, s = IF Call[c].kind = "create" THEN ProductCreated ELSE ProductPriceChanged,
         Publish(s, Priced(Call[c].product, Call[c].price), Call[c].product),
         UNCHANGED <<price, hasty, quoted>>
  PROVE  CopyInv'
<1> DEFINE q == Call[c].product
           m == Priced(q, Call[c].price)
<1>1. /\ q \in Products /\ Call[c].price \in Nat /\ Call[c].kind \in {"create", "update"}
      /\ m \in Message /\ m.product = q /\ m.price = Call[c].price
      /\ calling' = [calling EXCEPT ![c] = "200"]
      /\ s \in {ProductCreated, ProductPriceChanged}
  BY AnnouncementsAssumption DEF CallAt, Priced, Message, Status
<1>2. /\ said \subseteq said' /\ unheard \subseteq unheard'
      /\ \/ q \in unheard' /\ UNCHANGED wire
         \/ wire' = [wire EXCEPT ![s] = Append(wire[s], m)] /\ said' = said \cup {m}
  BY DEF Publish
<1>3. \A p : Stocked(p)' <=> Stocked(p)
  BY <1>1 DEF CopyInv, CopyTypes, Stocked
<1>4. Pending(q)' = Pending(q) \ {c} /\ c \in Pending(q) /\ \A p : p # q => Pending(p)' = Pending(p)
  BY <1>1 DEF CopyInv, CopyTypes, Pending
<1>5. Stocked(q)
  BY <1>1, <1>4 DEF CopyInv, Untouched
<1>6. CASE q \in unheard' /\ UNCHANGED wire
  <2>1. CopyTypes'
    BY <1>1, <1>6 DEF CopyInv, CopyTypes
  <2>2. \A p \in Products : p # q => (p \in hasty \cup unheard \/ InTurn(p))'
    BY <1>2, <1>4, <1>6 DEF CopyInv, InTurn, Mentions, Spoken
  <2>3. \A p \in Products : p # q => (Stocked(p) \/ Untouched(p))'
    BY <1>3, <1>4, <1>6 DEF CopyInv, Untouched, Mentions
  <2> QED
    BY <1>3, <1>5, <1>6, <2>1, <2>2, <2>3 DEF CopyInv
<1>7. CASE wire' = [wire EXCEPT ![s] = Append(wire[s], m)] /\ said' = said \cup {m}
  <2>1. /\ wire[s] \in Seq(Message)
        /\ wire'[s] = Append(wire[s], m)
        /\ \A z \in {ProductCreated, ProductPriceChanged} : z # s => wire'[z] = wire[z]
        /\ DOMAIN wire' = Subjects
    BY <1>1, <1>7, SubjectsDiffer DEF CopyInv, CopyTypes
  <2>2. /\ wire'[s] \in Seq(Message)
        /\ \A p : Says(wire'[s], p) <=> Says(wire[s], p) \/ q = p
        /\ LastSays(wire'[s], q, Call[c].price)
        /\ \A p, cents : p # q /\ LastSays(wire[s], p, cents) => LastSays(wire'[s], p, cents)
    BY <1>1, <2>1, SaysAppend
  <2>3. CopyTypes'
    <3>1. wire'[ProductCreated] \in Seq(Message) /\ wire'[ProductPriceChanged] \in Seq(Message)
      BY <2>1, <2>2 DEF CopyInv, CopyTypes
    <3> QED
      BY <1>1, <2>1, <3>1 DEF CopyInv, CopyTypes
  <2>4. /\ \A p, z : p # q /\ z \in {ProductCreated, ProductPriceChanged} =>
                        (Mentions(z, p)' <=> Mentions(z, p))
        /\ \A p, z, cents : p # q /\ z \in {ProductCreated, ProductPriceChanged}
                              /\ LastSays(wire[z], p, cents) => LastSays(wire'[z], p, cents)
    BY <2>1, <2>2 DEF Mentions
  <2>5. \A p \in Products : p # q => (p \in hasty \cup unheard \/ InTurn(p))'
    <3> SUFFICES ASSUME NEW p \in Products, p # q, p \notin hasty \cup unheard PROVE InTurn(p)'
      BY <1>2
    <3>1. InTurn(p)
      BY DEF CopyInv
    <3> QED
      BY <1>2, <1>4, <2>4, <3>1 DEF InTurn, Spoken
  <2>6. \A p \in Products : p # q => (Stocked(p) \/ Untouched(p))'
    BY <1>3, <1>4, <2>4 DEF CopyInv, Untouched
  <2>7. ASSUME q \notin hasty \cup unheard PROVE InTurn(q)'
    <3>1. InTurn(q)
      BY <1>1, <2>7 DEF CopyInv
    <3>2. /\ Pending(q)' = {}
          /\ Call[c].price = price[q] /\ ~Mentions(ProductCreated, q)
          /\ Call[c].kind = "update" \/ ~Mentions(ProductPriceChanged, q)
      BY <1>4, <3>1 DEF InTurn
    <3>3. \A z \in {ProductCreated, ProductPriceChanged} : z # s => ~Mentions(z, q) /\ ~Mentions(z, q)'
      BY <1>1, <2>1, <3>2 DEF Mentions
    <3>4. ASSUME NEW z \in {ProductCreated, ProductPriceChanged} PROVE LastSays(wire'[z], q, price[q])
      <4>1. CASE z = s
        BY <2>2, <3>2, <4>1
      <4>2. CASE z # s
        BY <3>3, <4>2 DEF LastSays, Mentions, Says
      <4> QED
        BY <4>1, <4>2
    <3>5. Mentions(s, q)' /\ Spoken(q)'
      BY <1>1, <1>7, <2>2 DEF Mentions, Spoken
    <3>6. ~Mentions(ProductCreated, q)' \/ ~Mentions(ProductPriceChanged, q)'
      BY <1>1, <3>3, SubjectsDiffer
    <3>7. Mentions(ProductCreated, q)' \/ Mentions(ProductPriceChanged, q)'
      BY <1>1, <3>5
    <3> QED
      BY <3>2, <3>4, <3>5, <3>6, <3>7 DEF InTurn
  <2> QED
    BY <1>2, <1>3, <1>5, <2>3, <2>5, <2>6, <2>7 DEF CopyInv
<1> QED
  BY <1>2, <1>6, <1>7

\* orders-service consumes an announcement.
LEMMA ConsumeInv ==
  ASSUME CopyInv, NEW s \in {ProductCreated, ProductPriceChanged}, Take(s),
         RecordPrice(Head(wire[s]))
  PROVE  CopyInv'
<1> DEFINE m == Head(wire[s])
           q == m.product
<1>1. /\ wire[s] \in Seq(Message) /\ wire[s] # <<>>
      /\ wire' = [wire EXCEPT ![s] = Tail(wire[s])]
      /\ quoted' = [quoted EXCEPT ![q] = m.price]
      /\ UNCHANGED <<calling, price, said, unheard, hasty>>
  BY DEF CopyInv, CopyTypes, Take, RecordPrice, sourceVars, historyVars
<1>2. /\ wire'[s] = Tail(wire[s])
      /\ \A z \in {ProductCreated, ProductPriceChanged} : z # s => wire'[z] = wire[z]
      /\ DOMAIN wire' = Subjects
  BY <1>1, SubjectsDiffer DEF CopyInv, CopyTypes
<1>3. /\ wire'[s] \in Seq(Message) /\ m \in Message
      /\ \A p : Says(wire[s], p) <=> Says(wire'[s], p) \/ q = p
      /\ \A p, cents : LastSays(wire[s], p, cents) => LastSays(wire'[s], p, cents)
      /\ \A cents : LastSays(wire[s], q, cents) /\ ~Says(wire'[s], q) => m.price = cents
  <2> DEFINE w == wire[s]
  <2>1. w \in Seq(Message) /\ w # <<>> /\ wire'[s] = Tail(w) /\ m = Head(w)
    BY <1>1, <1>2
  <2> HIDE DEF w, m
  <2>2. /\ Tail(w) \in Seq(Message) /\ Head(w) \in Message
        /\ \A p : Says(w, p) <=> Says(Tail(w), p) \/ Head(w).product = p
        /\ \A p, cents : LastSays(w, p, cents) => LastSays(Tail(w), p, cents)
        /\ \A cents : LastSays(w, Head(w).product, cents) /\ ~Says(Tail(w), Head(w).product)
                         => Head(w).price = cents
    BY <2>1, SaysTail
  <2> QED
    BY <2>1, <2>2 DEF w
<1> HIDE DEF m
<1>4. q \in Products /\ m.price \in Nat
  BY <1>3 DEF Message
<1>5. CopyTypes'
  <2>1. wire'[ProductCreated] \in Seq(Message) /\ wire'[ProductPriceChanged] \in Seq(Message)
    BY <1>2, <1>3 DEF CopyInv, CopyTypes
  <2> QED
    BY <1>1, <1>2, <1>4, <2>1 DEF CopyInv, CopyTypes
<1>6. /\ \A z \in {ProductCreated, ProductPriceChanged} : \A p :
            /\ Mentions(z, p)' => Mentions(z, p)
            /\ p # q \/ z # s => (Mentions(z, p)' <=> Mentions(z, p))
      /\ \A z \in {ProductCreated, ProductPriceChanged} : \A p, cents :
            LastSays(wire[z], p, cents) => LastSays(wire'[z], p, cents)
      /\ Mentions(s, q)
  BY <1>2, <1>3 DEF Mentions
<1>7. \A p : Pending(p)' = Pending(p) /\ (Stocked(p)' <=> Stocked(p)) /\ (Spoken(p)' <=> Spoken(p))
  BY <1>1 DEF Pending, Stocked, Spoken
<1>8. \A p \in Products : p # q => quoted'[p] = quoted[p]
  BY <1>1, <1>4 DEF CopyInv, CopyTypes
<1>9. ASSUME NEW p \in Products, p \notin hasty \cup unheard PROVE InTurn(p)'
  <2>1. InTurn(p)
    BY <1>9 DEF CopyInv
  <2>2. CASE p # q
    BY <1>1, <1>6, <1>7, <1>8, <2>1, <2>2 DEF InTurn
  <2>3. CASE p = q
    <3>1. quoted'[p] = m.price
      BY <1>1, <1>4, <2>3 DEF CopyInv, CopyTypes
    <3>2. ASSUME Pending(p) = {} PROVE Mentions(s, p)' \/ quoted'[p] = price[p]
      <4>1. LastSays(wire[s], q, price[p])
        BY <2>1, <2>3, <3>2 DEF InTurn
      <4> QED
        BY <1>3, <2>3, <3>1, <4>1 DEF Mentions
    <3> QED
      BY <1>1, <1>6, <1>7, <2>1, <3>2 DEF InTurn
  <2> QED
    BY <2>2, <2>3
<1>10. ASSUME NEW p \in Products, ~Stocked(p) PROVE Untouched(p)'
  <2>1. Untouched(p)
    BY <1>10 DEF CopyInv
  <2>2. p # q
    BY <1>6, <2>1 DEF Untouched
  <2> QED
    BY <1>1, <1>6, <1>7, <1>8, <2>1, <2>2 DEF Untouched
<1> QED
  BY <1>1, <1>5, <1>7, <1>9, <1>10 DEF CopyInv

\* orders-service stops: it forgets the prices, and what was announced of
\* them will not be heard again.
LEMMA StopInv ==
  ASSUME CopyInv, StopOrders
  PROVE  CopyInv'
<1>1. /\ wire' = [s \in Subjects |-> <<>>]
      /\ quoted' = [p \in Products |-> 0]
      /\ unheard \subseteq unheard'
      /\ \A p \in Products : Spoken(p) => p \in unheard'
      /\ UNCHANGED <<calling, price, hasty, said>>
  BY DEF StopOrders, sourceVars, Spoken
<1>2. /\ wire'[ProductCreated] = <<>> /\ wire'[ProductPriceChanged] = <<>>
      /\ DOMAIN wire' = Subjects
  BY <1>1, SubjectsDiffer
<1>3. \A p : ~Mentions(ProductCreated, p)' /\ ~Mentions(ProductPriceChanged, p)'
  BY <1>2 DEF Mentions, Says
<1>4. \A p, cents : /\ LastSays(wire'[ProductCreated], p, cents)
                    /\ LastSays(wire'[ProductPriceChanged], p, cents)
  BY <1>2 DEF LastSays
<1>5. \A p : Pending(p)' = Pending(p) /\ (Stocked(p)' <=> Stocked(p)) /\ (Spoken(p)' <=> Spoken(p))
  BY <1>1 DEF Pending, Stocked, Spoken
<1>6. CopyTypes'
  <2>1. <<>> \in Seq(Message)
    OBVIOUS
  <2>2. quoted' \in [Products -> Nat]
    BY <1>1
  <2> QED
    BY <1>1, <1>2, <2>1, <2>2 DEF CopyInv, CopyTypes
<1>7. ASSUME NEW p \in Products, p \notin (hasty \cup unheard)' PROVE InTurn(p)'
  <2>1. InTurn(p) /\ ~Spoken(p)
    BY <1>1, <1>7 DEF CopyInv
  <2> QED
    BY <1>1, <1>3, <1>4, <1>5, <2>1 DEF InTurn
<1>8. ASSUME NEW p \in Products, ~Stocked(p) PROVE Untouched(p)'
  <2>1. Untouched(p)
    BY <1>8 DEF CopyInv
  <2> QED
    BY <1>1, <1>3, <1>5, <2>1 DEF Untouched
<1> QED
  BY <1>5, <1>6, <1>7, <1>8 DEF CopyInv

\* Every step of the lab keeps the invariant of the copy.
LEMMA CopyNextInv == CopyInv /\ EventDrivenNext => CopyInv'
<1> SUFFICES ASSUME CopyInv, EventDrivenNext PROVE CopyInv'
  OBVIOUS
<1>1. CASE \E u \in Users : UsersService(u) /\ UNCHANGED quoted
  <2>1. PICK u \in Users : UsersService(u) /\ UNCHANGED quoted
    BY <1>1
  <2>2. /\ UNCHANGED <<calling, price, hasty, quoted>>
        /\ said \subseteq said' /\ unheard \subseteq unheard'
        /\ UNCHANGED wire \/ wire' = [wire EXCEPT ![UserRegistered] = Append(@, u)]
    BY <2>1 DEF UsersService, CheckUser, InsertUser, AnnounceUser, Publish, historyVars
  <2>3. /\ DOMAIN wire' = Subjects /\ wire'[ProductCreated] = wire[ProductCreated]
        /\ wire'[ProductPriceChanged] = wire[ProductPriceChanged]
    BY <2>2, SubjectsDiffer DEF CopyInv, CopyTypes
  <2> QED
    BY <2>2, <2>3, CopyStutterInv
<1>2. CASE \E c \in Calls : CatalogService(c) /\ UNCHANGED quoted
  <2>1. PICK c \in Calls : CatalogService(c) /\ UNCHANGED quoted
    BY <1>2
  <2>2. Call[c].price \in Nat /\ Call[c].kind \in {"create", "update"}
    BY AnnouncementsAssumption
  <2>3. CASE RejectProduct(c)
    BY <2>1, <2>3, RefuseInv DEF RejectProduct, Waits, Status
  <2>4. CASE RejectPrice(c)
    BY <2>1, <2>4, RefuseInv DEF RejectPrice, Waits, Status
  <2>5. CASE InsertProduct(c)
    BY <2>1, <2>5, WriteInv DEF InsertProduct, Waits
  <2>6. CASE ChangePrice(c)
    BY <2>1, <2>6, WriteInv, RefuseInv DEF ChangePrice, Waits, Status
  <2>7. CASE AnnounceProduct(c)
    BY <2>1, <2>7, AnnounceInv DEF AnnounceProduct, IsWritten
  <2>8. CASE AnnouncePrice(c)
    BY <2>1, <2>8, AnnounceInv DEF AnnouncePrice, IsWritten
  <2> QED
    BY <2>1, <2>3, <2>4, <2>5, <2>6, <2>7, <2>8 DEF CatalogService
<1>3. CASE StopOrders
  BY <1>3, StopInv
<1>4. CASE ConsumeProductsCreated \/ ConsumePriceChanged
  BY <1>4, ConsumeInv DEF ConsumeProductsCreated, ConsumePriceChanged
<1>5. CASE ConsumeUsers
  <2>1. /\ UNCHANGED <<calling, price, hasty, quoted, said, unheard>>
        /\ wire' = [wire EXCEPT ![UserRegistered] = Tail(@)]
    BY <1>5 DEF ConsumeUsers, Take, RecordUser, sourceVars, historyVars
  <2>2. /\ DOMAIN wire' = Subjects /\ wire'[ProductCreated] = wire[ProductCreated]
        /\ wire'[ProductPriceChanged] = wire[ProductPriceChanged]
    BY <2>1, SubjectsDiffer DEF CopyInv, CopyTypes
  <2> QED
    BY <2>1, <2>2, CopyStutterInv
<1>6. CASE Subscribe \/ ConsumeOrderPlaced \/ \E b \in Baskets : OrdersService(b)
  <2>1. UNCHANGED <<calling, price, hasty, quoted, said, unheard, wire>>
    BY <1>6
    DEF Subscribe, ConsumeOrderPlaced, OrdersService, Enter, PriceLine, StoreOrder, AnnounceOrder,
                BesidesDesk, announceVars, sourceVars, historyVars
  <2>2. DOMAIN wire' = Subjects
    BY <2>1 DEF CopyInv, CopyTypes
  <2> QED
    BY <2>1, <2>2, CopyStutterInv
<1> QED
  BY <1>1, <1>2, <1>3, <1>4, <1>5, <1>6 DEF EventDrivenNext, AnnounceNext

\* The copy and the queues are in turn with the table in every reachable state.
THEOREM CopyInvariance == Spec => []CopyInv
<1>1. Init => CopyInv
  BY CopyInitInv DEF Init
<1>2. CopyInv /\ [Next]_labVars => CopyInv'
  <2> SUFFICES ASSUME CopyInv, [Next]_labVars PROVE CopyInv'
    OBVIOUS
  <2>1. CASE EventDrivenNext
    BY <2>1, CopyNextInv
  <2>2. CASE UNCHANGED eventVars
    <3>1. UNCHANGED <<calling, price, hasty, quoted, said, unheard, wire>>
      BY <2>2 DEF eventVars, announceVars, sourceVars, historyVars
    <3>2. DOMAIN wire' = Subjects
      BY <3>1 DEF CopyInv, CopyTypes
    <3> QED
      BY <3>1, <3>2, CopyStutterInv
  <2> QED
    BY <2>1, <2>2 DEF Next, labVars, BesidesCqrs, BesidesOutbox
<1> QED
  BY <1>1, <1>2, PTL DEF Spec

\* orders-service's copy of a price is catalog-service's once the announcements
\* have arrived (projection.rs, catalog service.rs update_price), for every
\* product that was never written again too soon and of which nothing went
\* unheard, whatever the products, calls, losses and restarts.
THEOREM CopiesCatchUp == Spec => []CopyCatchesUp
<1>1. CopyInv => CopyCatchesUp
  <2> SUFFICES ASSUME CopyInv, NEW p \in Products, Settled(p), p \notin hasty \cup unheard
               PROVE  quoted[p] = price[p]
    BY DEF CopyCatchesUp
  <2>1. InTurn(p)
    BY DEF CopyInv
  <2>2. Pending(p) = {} /\ ~Mentions(ProductCreated, p) /\ ~Mentions(ProductPriceChanged, p)
    BY DEF Settled, Pending, Mentions, Says
  <2> QED
    BY <2>1, <2>2 DEF InTurn
<1> QED
  BY <1>1, CopyInvariance, PTL

-----------------------------------------------------------------------------
(* src/event-driven, what an order costs.  Whatever orders-service knows    *)
(* was announced, and the sum of a request is, at every line, that of the   *)
(* lines read so far.                                                       *)

\* The lines read so far, at these prices.
PricedSoFar(b, units, sum) ==
  /\ Basket[b].user \in said
  /\ Len(units) <= Len(Basket[b].lines) /\ Basket[b].lines # <<>>
  /\ \A i \in DOMAIN units : Priced(Basket[b].lines[i].product, units[i]) \in said
  /\ Exactly(Basket[b].lines, units) \in Nat
  /\ sum = Exactly(Basket[b].lines, units) % Modulus
  /\ build = "debug" => Exactly(Basket[b].lines, units) < Modulus

\* What orders-service knows was announced, and what is on its way to it was.
HeardOf ==
  /\ \A s \in Subjects : wire[s] \in Seq(said)
  /\ known \subseteq said
  /\ \A p \in Products : quoted[p] # 0 => Priced(p, quoted[p]) \in said

DeskTypes ==
  /\ desk \in [Baskets -> {"new", "400", "pricing", "stored", "200", "dropped"}]
  /\ bill \in [Baskets -> [units : Seq(Nat), sum : Nat]]
  /\ placed \subseteq Baskets

DeskInv ==
  /\ \A b \in Baskets : desk[b] = "new" => bill[b] = Nothing
  /\ \A b \in Baskets : desk[b] \in {"pricing", "stored", "200"} =>
                          PricedSoFar(b, bill[b].units, bill[b].sum)
  /\ \A b \in Baskets : desk[b] \in {"stored", "200"} => Len(bill[b].units) = Len(Basket[b].lines)
  /\ \A b \in placed : desk[b] \in {"stored", "200"}

\* The announcements of orders that are on their way or in an e-mail.
Rightly == {m \in [order : Baskets, units : Seq(Nat), sum : Nat] : IsPriced(m.order, m.units, m.sum)}
SentInv == orderQueue \in Seq(Rightly) /\ mailed \subseteq Rightly

OrderInv == HeardOf /\ DeskTypes /\ DeskInv /\ SentInv

\* No order, nothing announced.
LEMMA OrderInitInv == EventDrivenInit => OrderInv
<1> SUFFICES ASSUME EventDrivenInit PROVE OrderInv
  OBVIOUS
<1>1. HeardOf
  <2>1. <<>> \in Seq(said)
    OBVIOUS
  <2> QED
    BY <2>1 DEF EventDrivenInit, AnnounceInit, HeardOf
<1>2. DeskTypes
  <2>1. Nothing \in [units : Seq(Nat), sum : Nat]
    BY DEF Nothing
  <2> QED
    BY <2>1 DEF EventDrivenInit, DeskTypes
<1>3. DeskInv
  BY DEF EventDrivenInit, DeskInv
<1>4. SentInv
  <2>1. <<>> \in Seq(Rightly)
    OBVIOUS
  <2> QED
    BY <2>1 DEF EventDrivenInit, SentInv
<1> QED
  BY <1>1, <1>2, <1>3, <1>4 DEF OrderInv

\* What was announced stays announced.
LEMMA SaidGrows ==
  ASSUME said \subseteq said', UNCHANGED build
  PROVE  /\ \A b, units, sum : /\ PricedSoFar(b, units, sum) => PricedSoFar(b, units, sum)'
                               /\ IsPriced(b, units, sum) => IsPriced(b, units, sum)'
         /\ Rightly \subseteq Rightly'
<1>1. \A b, units, sum : PricedSoFar(b, units, sum) => PricedSoFar(b, units, sum)'
  BY DEF PricedSoFar
<1>2. \A b, units, sum : IsPriced(b, units, sum) => IsPriced(b, units, sum)'
  BY DEF IsPriced
<1>3. Rightly \subseteq Rightly'
  BY <1>2 DEF Rightly
<1> QED
  BY <1>1, <1>2, <1>3

\* A list of elements of a set is one of a larger set.
LEMMA SeqGrows ==
  ASSUME NEW S, NEW T, S \subseteq T, NEW q \in Seq(S)
  PROVE  q \in Seq(T)
OBVIOUS

\* A step that leaves the orders alone.
LEMMA OrderStutterInv ==
  ASSUME OrderInv, HeardOf', said \subseteq said', UNCHANGED <<build, deskVars>>
  PROVE  OrderInv'
<1>1. DeskTypes'
  BY DEF OrderInv, DeskTypes, deskVars
<1>2. DeskInv'
  BY SaidGrows DEF OrderInv, DeskInv, deskVars
<1>3. SentInv'
  <2>1. Rightly \subseteq Rightly'
    BY SaidGrows
  <2>2. orderQueue \in Seq(Rightly')
    BY <2>1, SeqGrows DEF OrderInv, SentInv
  <2> QED
    BY <2>1, <2>2 DEF OrderInv, SentInv, deskVars
<1> QED
  BY <1>1, <1>2, <1>3 DEF OrderInv

\* An announcement is sent, or is not.
LEMMA PublishInv ==
  ASSUME OrderInv, DOMAIN wire = Subjects, NEW s \in Subjects, NEW m, NEW about,
         Publish(s, m, about), UNCHANGED <<known, quoted>>
  PROVE  HeardOf' /\ said \subseteq said'
<1>1. /\ said \subseteq said'
      /\ UNCHANGED wire \/ (m \in said' /\ wire' = [wire EXCEPT ![s] = Append(@, m)])
  BY DEF Publish
<1>2. \A z \in Subjects : wire[z] \in Seq(said')
  BY <1>1, SeqGrows DEF OrderInv, HeardOf
<1>3. \A z \in Subjects : wire'[z] \in Seq(said')
  <2>1. CASE UNCHANGED wire
    BY <1>2, <2>1
  <2>2. CASE m \in said' /\ wire' = [wire EXCEPT ![s] = Append(@, m)]
    <3>1. Append(wire[s], m) \in Seq(said')
      BY <1>2, <2>2
    <3> QED
      BY <1>2, <2>2, <3>1
  <2> QED
    BY <1>1, <2>1, <2>2
<1> QED
  BY <1>1, <1>3 DEF OrderInv, HeardOf

\* users-service and catalog-service only add to what was announced.
LEMMA AnnounceOrderInv ==
  ASSUME OrderInv, CopyTypes, AnnounceNext, UNCHANGED <<build, known, quoted, deskVars>>
  PROVE  OrderInv'
<1>1. DOMAIN wire = Subjects
  BY DEF CopyTypes
<1>2. HeardOf' /\ said \subseteq said'
  <2>1. ASSUME NEW u \in Users, UsersService(u) PROVE HeardOf' /\ said \subseteq said'
    <3>1. CASE AnnounceUser(u)
      BY <1>1, <3>1, PublishInv, SubjectsDiffer DEF AnnounceUser
    <3>2. CASE CheckUser(u) \/ InsertUser(u)
      BY <3>2 DEF CheckUser, InsertUser, historyVars, OrderInv, HeardOf
    <3> QED
      BY <2>1, <3>1, <3>2 DEF UsersService
  <2>2. ASSUME NEW c \in Calls, CatalogService(c) PROVE HeardOf' /\ said \subseteq said'
    <3>1. CASE AnnounceProduct(c)
      BY <1>1, <3>1, PublishInv, SubjectsDiffer DEF AnnounceProduct
    <3>2. CASE AnnouncePrice(c)
      BY <1>1, <3>2, PublishInv, SubjectsDiffer DEF AnnouncePrice
    <3>3. CASE RejectProduct(c) \/ InsertProduct(c) \/ RejectPrice(c) \/ ChangePrice(c)
      <4>1. UNCHANGED <<wire, said, known, quoted>>
        BY <3>3
        DEF RejectProduct, InsertProduct, RejectPrice, ChangePrice, Refuse, WriteRow, historyVars
      <4> QED
        BY <4>1 DEF OrderInv, HeardOf
    <3> QED
      BY <2>2, <3>1, <3>2, <3>3 DEF CatalogService
  <2> QED
    BY <2>1, <2>2 DEF AnnounceNext
<1> QED
  BY <1>2, OrderStutterInv

\* One announcement more is known.
LEMMA RecordInv ==
  ASSUME OrderInv, CopyTypes, NEW s \in Subjects, Take(s),
         \/ s = UserRegistered /\ RecordUser(Head(wire[s]))
         \/ s # UserRegistered /\ RecordPrice(Head(wire[s]))
  PROVE  OrderInv'
<1>1. /\ UNCHANGED <<said, build, deskVars>>
      /\ wire[s] \in Seq(said) /\ wire[s] # <<>>
      /\ wire' = [wire EXCEPT ![s] = Tail(wire[s])]
      /\ DOMAIN wire = Subjects
  BY DEF Take, historyVars, OrderInv, HeardOf, CopyTypes
<1>2. Head(wire[s]) \in said /\ Tail(wire[s]) \in Seq(said)
  BY <1>1
<1>3. \A z \in Subjects : wire'[z] \in Seq(said')
  BY <1>1, <1>2 DEF OrderInv, HeardOf
<1>4. known' \subseteq said' /\ \A p \in Products : quoted'[p] # 0 => Priced(p, quoted'[p]) \in said'
  <2>1. CASE s = UserRegistered /\ RecordUser(Head(wire[s]))
    BY <1>1, <1>2, <2>1 DEF RecordUser, OrderInv, HeardOf
  <2>2. CASE s # UserRegistered /\ RecordPrice(Head(wire[s]))
    <3> DEFINE m == Head(wire[s])
    <3>1. m \in Message
      BY <1>1, <2>2, SubjectsDiffer DEF CopyTypes
    <3>2. /\ quoted' = [quoted EXCEPT ![m.product] = m.price]
          /\ UNCHANGED known
      BY <2>2 DEF RecordPrice
    <3> HIDE DEF m
    <3>3. Priced(m.product, m.price) = m
      BY <3>1 DEF Message, Priced
    <3>4. ASSUME NEW p \in Products, quoted'[p] # 0 PROVE Priced(p, quoted'[p]) \in said'
      <4>1. CASE p = m.product
        <5>1. quoted'[p] = m.price
          BY <3>2, <4>1 DEF CopyTypes
        <5> QED
          BY <1>1, <1>2, <3>3, <4>1, <5>1 DEF m
      <4>2. CASE p # m.product
        <5>1. quoted'[p] = quoted[p]
          BY <3>2, <4>2 DEF CopyTypes
        <5> QED
          BY <1>1, <3>4, <5>1 DEF OrderInv, HeardOf
      <4> QED
        BY <4>1, <4>2
    <3> QED
      BY <1>1, <3>2, <3>4 DEF OrderInv, HeardOf
  <2> QED
    BY <2>1, <2>2
<1>5. HeardOf'
  BY <1>3, <1>4 DEF HeardOf
<1> QED
  BY <1>1, <1>5, OrderStutterInv

\* orders-service stops: the orders and all it knew are gone.
LEMMA StopOrderInv ==
  ASSUME OrderInv, StopOrders
  PROVE  OrderInv'
<1>1. /\ UNCHANGED <<said, build, bill, orderQueue, mailed>>
      /\ wire' = [s \in Subjects |-> <<>>] /\ known' = {} /\ quoted' = [p \in Products |-> 0]
      /\ desk' = [b \in Baskets |-> IF desk[b] \in {"pricing", "stored"} THEN "dropped" ELSE desk[b]]
      /\ placed' = {}
  BY DEF StopOrders
<1>2. HeardOf'
  <2>1. <<>> \in Seq(said')
    OBVIOUS
  <2> QED
    BY <1>1, <2>1 DEF HeardOf
<1>3. DeskTypes'
  BY <1>1 DEF OrderInv, DeskTypes
<1>4. DeskInv'
  BY <1>1, SaidGrows DEF OrderInv, DeskInv
<1>5. SentInv'
  <2>1. Rightly' = Rightly
    BY <1>1 DEF Rightly, IsPriced
  <2> QED
    BY <1>1, <2>1 DEF OrderInv, SentInv
<1> QED
  BY <1>2, <1>3, <1>4, <1>5 DEF OrderInv

\* The desk goes on with one request.
LEMMA OrdersServiceInv ==
  ASSUME OrderInv, CopyTypes, NEW b \in Baskets, OrdersService(b)
  PROVE  OrderInv'
<1>1. UNCHANGED <<said, build, wire, known, quoted, mailed>>
  BY
  DEF OrdersService, Enter, PriceLine, StoreOrder, AnnounceOrder, BesidesDesk, announceVars,
      historyVars
<1>2. HeardOf'
  BY <1>1 DEF OrderInv, HeardOf
<1>3. /\ \A c, units, sum : PricedSoFar(c, units, sum)' <=> PricedSoFar(c, units, sum)
      /\ Rightly' = Rightly
  BY <1>1 DEF PricedSoFar, Rightly, IsPriced
<1>4. /\ Basket[b].user \in Users /\ Basket[b].lines \in Seq(Line) /\ Modulus \in Nat \ {0}
      /\ bill[b].units \in Seq(Nat) /\ bill[b].sum \in Nat
  BY EventDrivenAssumption, ModulusAssumption DEF OrderInv, DeskTypes
\* It is turned away.
<1>5. ASSUME NEW where \in {"400", "dropped"}, ToDesk(b, where), desk[b] \in {"new", "pricing"},
             UNCHANGED <<bill, placed, orderQueue>>
      PROVE  OrderInv'
  <2>1. /\ desk' = [desk EXCEPT ![b] = where] /\ b \notin placed
        /\ UNCHANGED <<bill, placed, orderQueue>>
    BY <1>5 DEF ToDesk, OrderInv, DeskInv
  <2>2. DeskTypes'
    BY <2>1 DEF OrderInv, DeskTypes
  <2>3. DeskInv'
    BY <1>3, <2>1 DEF OrderInv, DeskInv, DeskTypes
  <2>4. SentInv'
    BY <1>1, <1>3, <2>1 DEF OrderInv, SentInv
  <2> QED
    BY <1>2, <2>2, <2>3, <2>4 DEF OrderInv
<1>6. CASE Enter(b)
  <2>1. CASE Basket[b].lines = <<>> \/ ~UserExists(Basket[b].user)
    <3>1. ToDesk(b, "400") /\ desk[b] = "new" /\ UNCHANGED <<bill, placed, orderQueue>>
      BY <1>6, <2>1 DEF Enter, Status
    <3> QED
      BY <1>5, <3>1
  <2>2. CASE Basket[b].lines # <<>> /\ UserExists(Basket[b].user)
    <3>1. /\ desk[b] = "new" /\ desk' = [desk EXCEPT ![b] = "pricing"]
          /\ UNCHANGED <<bill, placed, orderQueue>> /\ b \notin placed
          /\ Basket[b].user \in said
      BY <1>6, <2>2 DEF Enter, ToDesk, UserExists, OrderInv, DeskInv, HeardOf
    <3>2. PricedSoFar(b, bill[b].units, bill[b].sum)
      <4>1. bill[b].units = <<>> /\ bill[b].sum = 0
        BY <3>1 DEF OrderInv, DeskInv, Nothing
      <4>2. Exactly(Basket[b].lines, <<>>) = 0
        BY ExactlyNothing
      <4>3. 0 % Modulus = 0 /\ 0 < Modulus /\ Len(<<>>) <= Len(Basket[b].lines)
        BY <1>4, ModSmall
      <4> QED
        BY <2>2, <3>1, <4>1, <4>2, <4>3 DEF PricedSoFar
    <3>3. DeskTypes'
      BY <3>1 DEF OrderInv, DeskTypes
    <3>4. DeskInv'
      BY <1>3, <3>1, <3>2 DEF OrderInv, DeskInv, DeskTypes
    <3>5. SentInv'
      BY <1>1, <1>3, <3>1 DEF OrderInv, SentInv
    <3> QED
      BY <1>2, <3>3, <3>4, <3>5 DEF OrderInv
  <2> QED
    BY <2>1, <2>2
<1>7. CASE PriceLine(b)
  <2> DEFINE line == NextLine(b)
             unit == PriceOf(line.product)
             worth == unit * line.quantity
             units == bill[b].units
             more == Append(units, unit)
             sum == (bill[b].sum + worth) % Modulus
             lines == Basket[b].lines
  <2>1. /\ desk[b] = "pricing" /\ Len(units) < Len(lines) /\ UNCHANGED <<placed, orderQueue>>
        /\ \/ ToDesk(b, "400") /\ UNCHANGED bill
           \/ ToDesk(b, "dropped") /\ UNCHANGED bill
           \/ /\ unit > 0 /\ ~Panics(bill[b].sum + worth)
              /\ bill' = [bill EXCEPT ![b] = [units |-> more, sum |-> sum]]
              /\ UNCHANGED desk
    BY <1>7 DEF PriceLine, Status
  <2>2. CASE (ToDesk(b, "400") \/ ToDesk(b, "dropped")) /\ UNCHANGED bill
    BY <1>5, <2>1, <2>2
  <2>3. CASE /\ unit > 0 /\ ~Panics(bill[b].sum + worth)
             /\ bill' = [bill EXCEPT ![b] = [units |-> more, sum |-> sum]]
             /\ UNCHANGED desk
    <3>1. /\ Len(units) + 1 \in 1..Len(lines) /\ line = lines[Len(units) + 1] /\ line \in Line
          /\ line.quantity \in Nat /\ line.product \in Products
      <4>1. Len(units) + 1 \in 1..Len(lines)
        BY <1>4, <2>1
      <4>2. lines[Len(units) + 1] \in Line
        BY <1>4, <4>1
      <4>3. line = lines[Len(units) + 1]
        BY DEF NextLine
      <4> HIDE DEF line
      <4> QED
        BY <4>1, <4>2, <4>3 DEF Line
    <3>2. unit \in Nat /\ unit = quoted[line.product]
      BY <3>1 DEF PriceOf, CopyTypes
    <3>3. worth \in Nat
      <4>1. \A x, y \in Nat : x * y \in Nat
        OBVIOUS
      <4> QED
        BY <3>1, <3>2, <4>1
    <3>4. PricedSoFar(b, units, bill[b].sum)
      BY <2>1 DEF OrderInv, DeskInv
    <3> DEFINE before == Exactly(lines, units)
               after == Exactly(lines, more)
    <3>5. before \in Nat /\ after = before + worth
      <4>1. units \in Seq(Nat) /\ lines \in Seq(Line)
        BY <1>4
      <4> QED
        BY <2>1, <3>1, <3>2, <4>1, ExactlyAppend
    <3>6. bill[b].sum = before % Modulus /\ (build = "debug" => before < Modulus)
      BY <3>4 DEF PricedSoFar
    <3> HIDE DEF before, after
    <3>7. sum = after % Modulus /\ sum \in Nat /\ after \in Nat
      <4>1. sum = ((before % Modulus) + worth) % Modulus
        BY <3>6
      <4>2. ((before % Modulus) + worth) % Modulus = (before + worth) % Modulus
        BY <1>4, <3>3, <3>5, ModAdd
      <4>3. after \in Nat
        BY <3>3, <3>5
      <4> QED
        BY <1>4, <3>5, <4>1, <4>2, <4>3, ModNat
    <3>8. build = "debug" => after < Modulus
      <4> SUFFICES ASSUME build = "debug" PROVE after < Modulus
        OBVIOUS
      <4>1. bill[b].sum = before
        BY <1>4, <3>5, <3>6, ModSmall
      <4> QED
        BY <1>4, <2>3, <3>3, <3>5, <4>1 DEF Panics
    <3>9. /\ more \in Seq(Nat) /\ Len(more) = Len(units) + 1 /\ Len(more) <= Len(lines)
          /\ DOMAIN more = 1..(Len(units) + 1) /\ more[Len(units) + 1] = unit
          /\ DOMAIN units = 1..Len(units) /\ \A i \in DOMAIN units : more[i] = units[i]
      <4>1. units \in Seq(Nat) /\ lines \in Seq(Line)
        BY <1>4
      <4> HIDE DEF units, unit, lines
      <4> QED
        BY <2>1, <3>2, <4>1
    <3>10. Priced(line.product, unit) \in said
      <4>1. quoted[line.product] # 0
        BY <2>3, <3>2
      <4> QED
        BY <3>1, <3>2, <4>1 DEF OrderInv, HeardOf
    <3>11. \A i \in DOMAIN more : Priced(lines[i].product, more[i]) \in said
      <4> SUFFICES ASSUME NEW i \in DOMAIN more PROVE Priced(lines[i].product, more[i]) \in said
        OBVIOUS
      <4>1. i \in DOMAIN units \/ i = Len(units) + 1
        BY <1>4, <3>9
      <4> QED
        BY <3>1, <3>4, <3>9, <3>10, <4>1 DEF PricedSoFar
    <3>12. PricedSoFar(b, more, sum)
      BY <3>4, <3>7, <3>8, <3>9, <3>11 DEF PricedSoFar, after
    <3> HIDE DEF sum, more, units
    <3>13. /\ bill' \in [Baskets -> [units : Seq(Nat), sum : Nat]]
           /\ bill'[b].units = more /\ bill'[b].sum = sum
           /\ \A c \in Baskets : c # b => bill'[c] = bill[c]
      BY <2>3, <3>7, <3>9 DEF OrderInv, DeskTypes
    <3>14. DeskTypes'
      BY <2>1, <2>3, <3>13 DEF OrderInv, DeskTypes
    <3>15. DeskInv'
      BY <1>3, <2>1, <2>3, <3>12, <3>13 DEF OrderInv, DeskInv
    <3>16. SentInv'
      BY <1>1, <1>3, <2>1 DEF OrderInv, SentInv
    <3> QED
      BY <1>2, <3>14, <3>15, <3>16 DEF OrderInv
  <2> QED
    BY <2>1, <2>2, <2>3
<1>8. CASE StoreOrder(b)
  <2>1. /\ desk[b] = "pricing" /\ Len(bill[b].units) = Len(Basket[b].lines)
        /\ placed' = placed \cup {b} /\ desk' = [desk EXCEPT ![b] = "stored"]
        /\ UNCHANGED <<bill, orderQueue>>
    BY <1>8 DEF StoreOrder, ToDesk
  <2>2. DeskTypes'
    BY <2>1 DEF OrderInv, DeskTypes
  <2>3. DeskInv'
    BY <1>3, <2>1 DEF OrderInv, DeskInv, DeskTypes
  <2>4. SentInv'
    BY <1>1, <1>3, <2>1 DEF OrderInv, SentInv
  <2> QED
    BY <1>2, <2>2, <2>3, <2>4 DEF OrderInv
<1>9. CASE AnnounceOrder(b)
  <2>1. /\ desk[b] = "stored" /\ desk' = [desk EXCEPT ![b] = "200"]
        /\ UNCHANGED <<bill, placed>>
        /\ UNCHANGED orderQueue \/ orderQueue' = Append(orderQueue, OrderPlaced(b))
    BY <1>9 DEF AnnounceOrder, ToDesk, Status
  <2>2. DeskTypes'
    BY <2>1 DEF OrderInv, DeskTypes
  <2>3. DeskInv'
    BY <1>3, <2>1 DEF OrderInv, DeskInv, DeskTypes
  <2>4. OrderPlaced(b) \in Rightly
    <3>1. /\ PricedSoFar(b, bill[b].units, bill[b].sum) /\ Len(bill[b].units) = Len(Basket[b].lines)
      BY <2>1 DEF OrderInv, DeskInv
    <3>2. bill[b].units # <<>>
      BY <1>4, <3>1 DEF PricedSoFar
    <3>3. IsPriced(b, bill[b].units, bill[b].sum)
      BY <3>1, <3>2 DEF PricedSoFar, IsPriced
    <3> QED
      BY <1>4, <3>3 DEF OrderPlaced, Rightly
  <2>5. SentInv'
    BY <1>1, <1>3, <2>1, <2>4 DEF OrderInv, SentInv
  <2> QED
    BY <1>2, <2>2, <2>3, <2>5 DEF OrderInv
<1> QED
  BY <1>6, <1>7, <1>8, <1>9 DEF OrdersService

\* An e-mail is what was in the queue.
LEMMA MailInv ==
  ASSUME OrderInv, ConsumeOrderPlaced
  PROVE  OrderInv'
<1>1. /\ UNCHANGED <<said, build, wire, known, quoted, desk, bill, placed>>
      /\ orderQueue # <<>> /\ orderQueue' = Tail(orderQueue)
      /\ mailed' = mailed \cup {Head(orderQueue)}
  BY DEF ConsumeOrderPlaced, BesidesDesk, announceVars, historyVars
<1>2. Rightly' = Rightly /\ \A b, units, sum : PricedSoFar(b, units, sum)' <=> PricedSoFar(b, units, sum)
  BY <1>1 DEF PricedSoFar, Rightly, IsPriced
<1>3. HeardOf'
  BY <1>1 DEF OrderInv, HeardOf
<1>4. DeskTypes' /\ DeskInv'
  BY <1>1, <1>2 DEF OrderInv, DeskTypes, DeskInv
<1>5. SentInv'
  BY <1>1, <1>2 DEF OrderInv, SentInv
<1> QED
  BY <1>3, <1>4, <1>5 DEF OrderInv

\* Every step of the lab keeps the invariant of the orders.
LEMMA OrderNextInv == OrderInv /\ CopyInv /\ EventDrivenNext => OrderInv'
<1> SUFFICES ASSUME OrderInv, CopyInv, EventDrivenNext PROVE OrderInv'
  OBVIOUS
<1>1. CopyTypes
  BY DEF CopyInv
<1>2. CASE AnnounceNext /\ UNCHANGED <<build, known, quoted, deskVars>>
  BY <1>1, <1>2, AnnounceOrderInv
<1>3. CASE Subscribe
  <2>1. UNCHANGED <<said, wire, build, known, quoted, deskVars>>
    BY <1>3 DEF Subscribe, historyVars
  <2>2. HeardOf'
    BY <2>1 DEF OrderInv, HeardOf
  <2> QED
    BY <2>1, <2>2, OrderStutterInv
<1>4. CASE StopOrders
  BY <1>4, StopOrderInv
<1>5. CASE ConsumeUsers \/ ConsumeProductsCreated \/ ConsumePriceChanged
  BY <1>1, <1>5, RecordInv, SubjectsDiffer
  DEF ConsumeUsers, ConsumeProductsCreated, ConsumePriceChanged
<1>6. CASE \E b \in Baskets : OrdersService(b)
  BY <1>1, <1>6, OrdersServiceInv
<1>7. CASE ConsumeOrderPlaced
  BY <1>7, MailInv
<1> QED
  BY <1>2, <1>3, <1>4, <1>5, <1>6, <1>7 DEF EventDrivenNext

\* The sum on every desk is that of the lines read so far, in every reachable
\* state.
THEOREM OrderInvariance == Spec => []OrderInv
<1>1. Init => OrderInv
  BY OrderInitInv DEF Init
<1>2. OrderInv /\ CopyInv /\ [Next]_labVars => OrderInv'
  <2> SUFFICES ASSUME OrderInv, CopyInv, [Next]_labVars PROVE OrderInv'
    OBVIOUS
  <2>1. CASE EventDrivenNext
    BY <2>1, OrderNextInv
  <2>2. CASE UNCHANGED eventVars
    <3>1. UNCHANGED <<said, wire, build, known, quoted, deskVars>>
      BY <2>2 DEF eventVars, announceVars, historyVars
    <3>2. HeardOf'
      BY <3>1 DEF OrderInv, HeardOf
    <3> QED
      BY <3>1, <3>2, OrderStutterInv
  <2> QED
    BY <2>1, <2>2 DEF Next, labVars, BesidesCqrs, BesidesOutbox
<1> QED
  BY <1>1, <1>2, CopyInvariance, PTL DEF Spec

\* Every order that is stored or mailed is of an announced user, at announced
\* prices, and its total is the sum of its lines: exactly in a debug build,
\* modulo 2^Width in a release build (service.rs place).
THEOREM OrdersArePricedRight == Spec => []OrdersArePricedAsAnnounced
<1>1. OrderInv => OrdersArePricedAsAnnounced
  <2> SUFFICES ASSUME OrderInv PROVE OrdersArePricedAsAnnounced
    OBVIOUS
  <2>1. \A m \in mailed : IsPriced(m.order, m.units, m.sum)
    BY DEF OrderInv, SentInv, Rightly
  <2>2. ASSUME NEW b \in placed PROVE IsPriced(b, bill[b].units, bill[b].sum)
    <3>1. /\ b \in Baskets
          /\ PricedSoFar(b, bill[b].units, bill[b].sum) /\ Len(bill[b].units) = Len(Basket[b].lines)
      BY <2>2 DEF OrderInv, DeskInv, DeskTypes
    <3>2. bill[b].units # <<>>
      <4>1. Basket[b].lines \in Seq(Line)
        BY <3>1, EventDrivenAssumption
      <4> QED
        BY <3>1, <4>1 DEF PricedSoFar
    <3> QED
      BY <3>1, <3>2 DEF PricedSoFar, IsPriced
  <2> QED
    BY <2>1, <2>2 DEF OrdersArePricedAsAnnounced
<1> QED
  BY <1>1, OrderInvariance, PTL

-----------------------------------------------------------------------------
(* src/fan-out.  The clock does not run before every branch has begun, nor *)
(* when all are over, and does not pass one by more than Lag: so it says   *)
(* how long a branch, and the search, took.                                *)

Troubles == {"none", "503", "hangs", "unreachable"}

GatewayTypes ==
  /\ registry \in Seq(Providers)
  /\ clock \in Nat
  /\ branch \in [Providers -> [state : {"idle", "out", "ok", "failed", "timed_out"},
                               began : Nat, took : Nat]]
  /\ work \in [Providers -> [due : Nat, trouble : Troubles]]

BranchInv(q) ==
  /\ clock > 0 => branch[q].state # "idle"
  /\ branch[q].state = "out" =>
       branch[q].began = 0 /\ (work[q].trouble # "hangs" => clock <= work[q].due + Lag)
  /\ branch[q].took <= clock
  /\ branch[q].state = "ok" => Good(q) /\ work[q].due <= Budget + Lag
  /\ branch[q].state = "failed" => ~Good(q)
  /\ branch[q].state = "timed_out" =>
       branch[q].took >= Budget /\ (work[q].trouble = "hangs" \/ work[q].due + Lag >= Budget)

\* Someone is still waited for, or has only now come in.
SomeoneLast == \E q \in Enrolled : branch[q].state \in {"idle", "out"} \/ branch[q].took = clock

AnsweredInv ==
  /\ search.at = "answered" => /\ \A q \in Enrolled : branch[q].state \notin {"idle", "out"}
                               /\ answered.reports = Reports
                               /\ answered.degraded = Degraded(Reports)
  /\ search.at # "answered" => answered = NoAnswer

GatewayInv == /\ GatewayTypes
              /\ clock <= Budget + Lag
              /\ search.at # "panicked" => SomeoneLast
              /\ \A q \in Enrolled : BranchInv(q)
              /\ AnsweredInv

\* A request that has just come in, or a gateway that did not start.
LEMMA GatewayInitInv == GatewayInit => GatewayInv
<1> SUFFICES ASSUME GatewayInit PROVE GatewayInv
  OBVIOUS
<1>1. registry \in Seq(Providers)
  <2>1. PICK spec \in Specs : registry = RegistryOf(spec)
    BY DEF GatewayInit
  <2>2. CASE IsValid(spec)
    <3>1. /\ registry \in Seq({registry[i] : i \in DOMAIN registry})
          /\ \A i \in DOMAIN registry : registry[i] \in Providers
      BY <2>1, <2>2, EntriesAssumption DEF RegistryOf, IsValid
    <3> QED
      BY <3>1
  <2>3. CASE ~IsValid(spec)
    BY <2>1, <2>3 DEF RegistryOf
  <2> QED
    BY <2>2, <2>3
<1>2. Enrolled \subseteq Providers
  BY <1>1 DEF Enrolled
<1>3. search.at # "panicked" => SomeoneLast
  <2>1. search.at # "panicked" => registry # <<>>
    BY DEF GatewayInit, RegistryOf, IsValid
  <2>2. registry # <<>> => 1 \in DOMAIN registry
    BY <1>1
  <2>3. \A q \in Enrolled : branch[q].state = "idle"
    BY <1>2 DEF GatewayInit, IdleBranch
  <2> QED
    BY <2>1, <2>2, <2>3 DEF SomeoneLast, Enrolled
<1> QED
  BY <1>1, <1>2, <1>3, GatewayAssumption
  DEF GatewayInit, GatewayInv, GatewayTypes, BranchInv, AnsweredInv, IdleBranch, NoWork, Troubles,
      Good

\* The types a step about provider q works with.
LEMMA EnrolledTypes ==
  ASSUME GatewayInv
  PROVE  /\ Enrolled \subseteq Providers
         /\ \A i \in DOMAIN registry : registry[i] \in Enrolled
         /\ Budget \in Nat /\ Lag \in Nat
BY GatewayAssumption DEF GatewayInv, GatewayTypes, Enrolled

\* What an answer is made of does not change once it is given.
LEMMA ReportsStay ==
  ASSUME UNCHANGED <<registry, search, branch>>
  PROVE  Reports' = Reports /\ Degraded(Reports)' = Degraded(Reports)
BY DEF Reports, Degraded, HitsOf

\* The query is looked at.
LEMMA RequestInv ==
  ASSUME GatewayInv, RejectBlank \/ \E query \in Queries : Scatter(query) PROVE GatewayInv'
BY SMTT(60) DEF RejectBlank, Scatter, GatewayInv, GatewayTypes, BranchInv, SomeoneLast, AnsweredInv,
       Enrolled, Good

\* A reply comes some ticks from now, or never.
LEMMA ReplyTypes ==
  ASSUME NEW q \in Providers, NEW reply \in Replies(q)
  PROVE  reply.ticks \in Nat /\ reply.trouble \in Troubles
BY GatewayAssumption
DEF Replies, NoReply, CatalogSearch, PartnerSearch, ArchiveSearch, After, Troubles

\* A branch begins at time 0: the clock waits for it.
LEMMA BeginInv ==
  ASSUME GatewayInv, NEW i \in DOMAIN registry, Begin(i) PROVE GatewayInv'
<1> DEFINE q == registry[i]
<1>1. q \in Enrolled /\ q \in Providers /\ search.at = "scattered" /\ branch[q].state = "idle"
  BY EnrolledTypes DEF Begin, CanBegin
<1>2. clock = 0
  BY <1>1 DEF GatewayInv, GatewayTypes, BranchInv
<1>3. PICK reply \in Replies(q) :
        /\ branch' = [branch EXCEPT ![q] = [state |-> "out", began |-> clock, took |-> 0]]
        /\ work' = [work EXCEPT ![q] = [due |-> clock + reply.ticks, trouble |-> reply.trouble]]
  BY DEF Begin
<1>4. UNCHANGED <<registry, search, clock, answered>>
  BY DEF Begin
<1>5. reply.ticks \in Nat /\ reply.trouble \in Troubles
  BY <1>1, ReplyTypes
<1>6. GatewayTypes'
  BY <1>1, <1>2, <1>3, <1>4, <1>5 DEF GatewayInv, GatewayTypes
<1>7. \A p \in Enrolled : p = q => BranchInv(p)'
  BY <1>1, <1>2, <1>3, <1>4, <1>5, EnrolledTypes DEF GatewayInv, GatewayTypes, BranchInv
<1>8. \A p \in Enrolled \ {q} : BranchInv(p)'
  BY <1>1, <1>3, <1>4, EnrolledTypes DEF GatewayInv, GatewayTypes, BranchInv, Good
<1>9. \A p \in Enrolled : BranchInv(p)'
  BY <1>7, <1>8
<1>10. SomeoneLast'
  BY <1>1, <1>3, <1>4 DEF SomeoneLast, Enrolled, GatewayInv, GatewayTypes
<1> QED
  BY <1>1, <1>4, <1>6, <1>9, <1>10 DEF GatewayInv, AnsweredInv, Enrolled

\* A branch that settles took as long as the clock says.
LEMMA SettleInv ==
  ASSUME GatewayInv, NEW q \in Enrolled, NEW state \in {"ok", "failed", "timed_out"},
         branch[q].state = "out", Settle(q, state),
         state = "ok" => Good(q) /\ work[q].due <= Budget + Lag,
         state = "failed" => ~Good(q),
         state = "timed_out" =>
           clock >= Budget /\ (work[q].trouble = "hangs" \/ work[q].due + Lag >= Budget)
  PROVE  GatewayInv'
<1>1. q \in Providers /\ Budget \in Nat
  BY EnrolledTypes
<1>2. /\ branch' = [branch EXCEPT ![q].state = state, ![q].took = clock - branch[q].began]
      /\ UNCHANGED <<registry, search, clock, work, answered>>
  BY DEF Settle
<1>3. branch[q].began = 0 /\ clock \in Nat /\ clock <= Budget + Lag
  BY DEF GatewayInv, GatewayTypes, BranchInv
<1>4. /\ branch'[q].state = state /\ branch'[q].took = clock
      /\ branch' \in [Providers -> [state : {"idle", "out", "ok", "failed", "timed_out"},
                                    began : Nat, took : Nat]]
  <2> DEFINE B == [state : {"idle", "out", "ok", "failed", "timed_out"}, began : Nat, took : Nat]
             new == [[branch[q] EXCEPT !.state = state] EXCEPT !.took = clock - branch[q].began]
  <2>1. branch \in [Providers -> B]
    BY DEF GatewayInv, GatewayTypes
  <2>2. branch' = [branch EXCEPT ![q] = new]
    BY <1>1, <1>2, <2>1
  <2>3. clock - branch[q].began = clock
    BY <1>3
  <2>4. branch[q] \in B
    BY <1>1, <2>1
  <2>5. new \in B /\ new.state = state /\ new.took = clock
    BY <1>3, <2>3, <2>4
  <2> HIDE DEF B, new
  <2>6. branch' \in [Providers -> B] /\ branch'[q] = new
    BY <1>1, <2>1, <2>2, <2>5
  <2> QED
    BY <2>5, <2>6 DEF B
<1>5. GatewayTypes'
  BY <1>2, <1>4 DEF GatewayInv, GatewayTypes
<1>6. BranchInv(q)'
  BY <1>2, <1>3, <1>4 DEF BranchInv, Good
<1>7. \A p \in Enrolled \ {q} : BranchInv(p)'
  BY <1>1, <1>2, EnrolledTypes DEF GatewayInv, GatewayTypes, BranchInv, Good
<1>8. search.at # "answered"
  BY DEF GatewayInv, AnsweredInv
<1>9. SomeoneLast'
  BY <1>2, <1>4 DEF SomeoneLast, Enrolled
<1> QED
  BY <1>2, <1>3, <1>5, <1>6, <1>7, <1>8, <1>9 DEF GatewayInv, AnsweredInv, Enrolled

\* While a branch has yet to begin there is one that can.
LEMMA SomeoneCanBegin ==
  ASSUME GatewayInv, search.at = "scattered", NEW i \in DOMAIN registry, branch[registry[i]].state = "idle"
  PROVE  \E j \in DOMAIN registry : CanBegin(j)
<1> DEFINE Idle == {j \in DOMAIN registry : branch[registry[j]].state = "idle"}
<1>1. Idle \subseteq Nat /\ i \in Idle /\ DOMAIN registry = 1..Len(registry) /\ Len(registry) \in Nat
  BY DEF GatewayInv, GatewayTypes
<1>2. PICK j \in Idle : \A k \in Idle : ~(<<k, j>> \in OpToRel(<, Nat))
  <2> HIDE DEF Idle
  <2> QED
    BY <1>1, NatLessThanWellFounded, WFMin
<1>3. \A k \in Idle : ~(k < j)
  BY <1>1, <1>2 DEF OpToRel
<1>4. \A k \in 1..(j - 1) : branch[registry[k]].state # "idle"
  BY <1>1, <1>3
<1> QED
  BY <1>4 DEF CanBegin, AtOnce

\* The clock runs only when no branch is due.
LEMMA TickInv == ASSUME GatewayInv, Tick PROVE GatewayInv'
<1>1. /\ search.at = "scattered" /\ ~Overdue /\ clock' = clock + 1
      /\ UNCHANGED <<registry, search, branch, work, answered>>
  BY DEF Tick
<1>2. \A q \in Enrolled : branch[q].state # "idle"
  BY <1>1, SomeoneCanBegin DEF Overdue, Enrolled
<1>3. clock \in Nat /\ Budget \in Nat /\ Lag \in Nat /\ clock <= Budget + Lag
  BY EnrolledTypes DEF GatewayInv, GatewayTypes
<1>4. ASSUME NEW q \in Enrolled, branch[q].state = "out"
      PROVE  /\ clock < Budget + Lag
             /\ work[q].trouble # "hangs" => clock < work[q].due + Lag
  <2>1. q \in Providers /\ branch[q].began = 0 /\ work[q].due \in Nat
    BY <1>4, EnrolledTypes DEF GatewayInv, GatewayTypes, BranchInv
  <2> QED
    BY <1>1, <1>3, <1>4, <2>1 DEF Overdue
<1>5. clock < Budget + Lag /\ SomeoneLast'
  BY <1>1, <1>4 DEF Tick, SomeoneLast, Enrolled
<1>6. \A q \in Enrolled : BranchInv(q)'
  <2> SUFFICES ASSUME NEW q \in Enrolled PROVE BranchInv(q)'
    OBVIOUS
  <2>1. q \in Providers /\ work[q].due \in Nat /\ branch[q].took \in Nat /\ BranchInv(q)
    BY EnrolledTypes DEF GatewayInv, GatewayTypes
  <2> QED
    BY <1>1, <1>2, <1>3, <1>4, <2>1 DEF BranchInv, Good
<1> QED
  BY <1>1, <1>3, <1>5, <1>6 DEF GatewayInv, GatewayTypes, AnsweredInv, Enrolled

\* The answer is made when every branch is in.
LEMMA GatherInv == ASSUME GatewayInv, Gather PROVE GatewayInv'
<1>1. /\ \A q \in Enrolled : branch[q].state \notin {"idle", "out"}
      /\ answered'.reports = Reports /\ answered'.degraded = Degraded(Reports)
      /\ search' = [search EXCEPT !.at = "answered"]
      /\ UNCHANGED <<registry, clock, branch, work>>
  BY DEF Gather
<1>2. Reports' = Reports
  BY <1>1 DEF Reports, HitsOf
<1> QED
  BY <1>1, <1>2
  DEF GatewayInv, GatewayTypes, BranchInv, SomeoneLast, AnsweredInv, Enrolled, Good, Degraded, Gather

\* Every step of the gateway keeps its invariant.
LEMMA GatewayNextInv == ASSUME GatewayInv, [GatewayNext]_gatewayVars PROVE GatewayInv'
<1>1. ASSUME NEW q \in Enrolled, Arrive(q) \/ Fail(q) \/ TimeOut(q) PROVE GatewayInv'
  <2>1. /\ branch[q].state = "out" /\ branch[q].began = 0 /\ q \in Providers
        /\ clock <= Budget + Lag /\ clock \in Nat /\ work[q].due \in Nat
    BY <1>1, EnrolledTypes DEF Arrive, Fail, TimeOut, GatewayInv, GatewayTypes, BranchInv
  <2>2. CASE Arrive(q)
    BY <2>1, <2>2, EnrolledTypes, SettleInv DEF Arrive, Answers
  <2>3. CASE Fail(q)
    BY <2>1, <2>3, SettleInv DEF Fail
  <2>4. CASE TimeOut(q)
    <3>1. clock >= Budget /\ (work[q].trouble = "hangs" \/ work[q].due + Lag >= Budget)
      BY <2>1, <2>4, EnrolledTypes DEF TimeOut, GatewayInv, GatewayTypes, BranchInv
    <3> QED
      BY <2>1, <2>4, <3>1, SettleInv DEF TimeOut
  <2> QED
    BY <1>1, <2>2, <2>3, <2>4
<1>2. CASE UNCHANGED gatewayVars
  BY <1>2, ReportsStay
  DEF gatewayVars, GatewayInv, GatewayTypes, BranchInv, SomeoneLast, AnsweredInv, Enrolled, Good
<1> QED
  BY <1>1, <1>2, RequestInv, BeginInv, TickInv, GatherInv DEF GatewayNext

\* Branches, clock and answer agree in every reachable state.
THEOREM GatewayInvariance == Spec => []GatewayInv
<1>1. Init => GatewayInv
  BY GatewayInitInv DEF Init
<1>2. GatewayInv /\ [Next]_labVars => GatewayInv'
  <2>1. [Next]_labVars => [GatewayNext]_gatewayVars
    BY DEF Next, labVars, BesidesCqrs, BesidesOutbox
  <2> QED
    BY <2>1, GatewayNextInv
<1> QED
  BY <1>1, <1>2, PTL DEF Spec

\* However many providers there are, a search takes as long as its slowest
\* branch, and that is one budget and the lateness of one poll at most; a
\* branch that timed out had its budget.
THEOREM SearchesTakeOneBudget == Spec => []AnsweredInTime
<1>1. ASSUME GatewayInv, search.at = "answered"
      PROVE  LET reports == answered.reports IN
             /\ \E i \in DOMAIN reports : reports[i].took = clock
             /\ \A i \in DOMAIN reports :
                  /\ reports[i].took <= clock
                  /\ reports[i].status = "timed_out" => reports[i].took >= Budget
  <2>1. /\ answered.reports = Reports /\ DOMAIN Reports = DOMAIN registry
        /\ \A q \in Enrolled : branch[q].state \notin {"idle", "out"} /\ BranchInv(q)
    BY <1>1 DEF GatewayInv, AnsweredInv, Reports
  <2>2. \A i \in DOMAIN registry : /\ registry[i] \in Enrolled
                                  /\ Reports[i].took = branch[registry[i]].took
                                  /\ Reports[i].status = branch[registry[i]].state
    BY DEF Reports, Enrolled
  <2>3. PICK q \in Enrolled : branch[q].took = clock
    BY <1>1, <2>1 DEF GatewayInv, SomeoneLast
  <2>4. PICK i \in DOMAIN registry : registry[i] = q
    BY DEF Enrolled
  <2> QED
    BY <2>1, <2>2, <2>3, <2>4 DEF BranchInv
<1>2. GatewayInv => AnsweredInTime
  BY <1>1 DEF AnsweredInTime, GatewayInv
<1> QED
  BY GatewayInvariance, <1>2, PTL

\* What the answer says of its providers is so.
THEOREM ReportsAreKept == Spec => []ReportsAreTrue
<1>1. ASSUME GatewayInv, search.at = "answered" PROVE ReportsAreTrue
  <2>1. /\ answered.reports = Reports /\ answered.degraded = Degraded(Reports)
        /\ registry \in Seq(Providers)
        /\ \A q \in Enrolled : branch[q].state \notin {"idle", "out"} /\ BranchInv(q)
        /\ \A q \in Enrolled : q \in Providers /\ branch[q].state \in {"idle", "out", "ok", "failed", "timed_out"}
    BY <1>1, EnrolledTypes DEF GatewayInv, AnsweredInv, GatewayTypes
  <2>2. DOMAIN Reports = DOMAIN registry
    BY DEF Reports
  <2>3. [i \in DOMAIN Reports |-> Reports[i].name] = registry
    BY <2>1 DEF Reports
  <2>4. ASSUME NEW i \in DOMAIN registry
        PROVE  LET q == registry[i] IN
               /\ Reports[i].name = q /\ Reports[i].status = branch[q].state
               /\ Reports[i].hits = Len(HitsOf(q)) /\ q \in Enrolled
    BY DEF Reports, Enrolled
  <2>5. Len(<<>>) = 0
    OBVIOUS
  <2>6. ASSUME NEW i \in DOMAIN registry
        PROVE  LET q == Reports[i].name IN
         /\ Reports[i].status = "ok" => Good(q) /\ work[q].due <= Budget + Lag
         /\ Good(q) /\ work[q].due + Lag < Budget => Reports[i].status = "ok"
         /\ Reports[i].status = "timed_out" => work[q].trouble = "hangs" \/ work[q].due + Lag >= Budget
         /\ Reports[i].hits = IF Reports[i].status = "ok" THEN Len(Found(q, search.query)) ELSE 0
    <3> DEFINE q == registry[i]
    <3>1. /\ Reports[i].name = q /\ Reports[i].status = branch[q].state
          /\ Reports[i].hits = Len(HitsOf(q)) /\ q \in Enrolled
      BY <2>4
    <3>2. Budget \in Nat /\ Lag \in Nat /\ work[q].due \in Nat
      BY <1>1, <2>1, <3>1, EnrolledTypes DEF GatewayInv, GatewayTypes
    <3> QED
      BY <2>1, <2>5, <3>1, <3>2 DEF BranchInv, HitsOf, Good
  <2> QED
    BY <2>1, <2>2, <2>3, <2>6 DEF ReportsAreTrue, Degraded
<1>2. GatewayInv => ReportsAreTrue
  BY <1>1 DEF ReportsAreTrue
<1> QED
  BY GatewayInvariance, <1>2, PTL

-----------------------------------------------------------------------------
(* src/fan-out, the merge.  Turn by turn, the two loops of the gather keep *)
(* what the answer promises for the hits they have seen.                   *)

Ids == {h.id : h \in Listed}
Offering == [id : Ids, name : DOMAIN Key, price : Nat, sources : Seq(Providers)]

\* The table of the loop over the hits of one provider.
IsAddTable(t, merged, q, found, S) ==
  t = [s \in SUBSET S |-> IF s = {} THEN merged ELSE Add(t[s \ {Max(s)}], q, found[Max(s)])]

\* The inner loop is the entry of such a table for all hits.
LEMMA AddAllUnfold ==
  ASSUME NEW merged, NEW q, NEW found
  PROVE  AddAll(merged, q, found) =
           (CHOOSE t : IsAddTable(t, merged, q, found, DOMAIN found))[DOMAIN found]
BY DEF AddAll, FoldLeft, MapThenFoldSet, IsAddTable

\* The table of the loop over the providers.
IsMergeTable(t, names, found, S) ==
  t = [s \in SUBSET S |-> IF s = {} THEN <<>>
                          ELSE AddAll(t[s \ {Max(s)}], names[Max(s)], found[names[Max(s)]])]

\* The outer loop is the entry of such a table for all providers.
LEMMA MergedUnfold ==
  ASSUME NEW names, NEW found
  PROVE  Merged(names, found) =
           (CHOOSE t : IsMergeTable(t, names, found, DOMAIN names))[DOMAIN names]
BY DEF Merged, FoldLeft, MapThenFoldSet, IsMergeTable

\* An offer that is joined by a hit is an offer.
LEMMA JoinedTypes ==
  ASSUME NEW old \in Offering, NEW q \in Providers, NEW hit \in Listed
  PROVE  Joined(old, q, hit) \in Offering
<1>1. hit.id \in Ids /\ hit.price \in Nat
  BY CorpusAssumption DEF Ids
<1>2. old.sources \in Seq(Providers) /\ Append(old.sources, q) \in Seq(Providers)
  BY DEF Offering
<1> QED
  BY <1>1, <1>2 DEF Joined, Offering

\* A hit becomes an offer of its own, or joins the one of its product.
LEMMA AddOne ==
  ASSUME NEW merged \in Seq(Offering), NEW q \in Providers, NEW hit \in Listed
  PROVE  /\ Same(merged, hit) = {} => Add(merged, q, hit) = Append(merged, Offer(q, hit))
         /\ Same(merged, hit) # {} => \E i \in Same(merged, hit) :
                Add(merged, q, hit) = [merged EXCEPT ![i] = Joined(merged[i], q, hit)]
<1> DEFINE i == CHOOSE i \in Same(merged, hit) : TRUE
<1>1. Same(merged, hit) # {} => i \in Same(merged, hit)
  OBVIOUS
<1>2. Same(merged, hit) # {} =>
        Add(merged, q, hit) = [merged EXCEPT ![i] = Joined(merged[i], q, hit)]
  BY DEF Add
<1> HIDE DEF i
<1> QED
  BY <1>1, <1>2 DEF Add

\* Offers that are joined by a hit are offers.
LEMMA AddTypes ==
  ASSUME NEW merged \in Seq(Offering), NEW q \in Providers, NEW hit \in Listed
  PROVE  Add(merged, q, hit) \in Seq(Offering)
<1>1. CASE Same(merged, hit) = {}
  <2>1. Offer(q, hit) \in Offering
    <3>1. <<q>> \in Seq(Providers)
      OBVIOUS
    <3>2. hit.id \in Ids /\ hit.price \in Nat /\ hit.name \in DOMAIN Key
      BY CorpusAssumption DEF Ids
    <3> QED
      BY <3>1, <3>2 DEF Offer, Offering
  <2> QED
    BY <1>1, <2>1, AddOne
<1>2. CASE Same(merged, hit) # {}
  <2>1. PICK i \in Same(merged, hit) :
          Add(merged, q, hit) = [merged EXCEPT ![i] = Joined(merged[i], q, hit)]
    BY <1>2, AddOne
  <2>2. i \in DOMAIN merged /\ merged[i] \in Offering
    BY DEF Same
  <2>3. Joined(merged[i], q, hit) \in Offering
    BY <2>2, JoinedTypes
  <2> QED
    BY <2>1, <2>2, <2>3
<1> QED
  BY <1>1, <1>2

\* The turns of the inner loop: one hit after the other.
LEMMA AddTurns ==
  ASSUME NEW merged \in Seq(Offering), NEW q \in Providers, NEW found \in Seq(Listed)
  PROVE  \E run \in [0..Len(found) -> Seq(Offering)] :
           /\ run[0] = merged /\ run[Len(found)] = AddAll(merged, q, found)
           /\ \A i \in 1..Len(found) : run[i] = Add(run[i - 1], q, found[i])
<1> DEFINE n == Len(found)
           V == Seq(Offering)
           step == [x \in V \X (1..n) |-> Add(x[1], q, found[x[2]])]
<1>1. n \in Nat /\ DOMAIN found = 1..n /\ \A i \in 1..n : found[i] \in Listed
  OBVIOUS
<1>2. step \in [V \X (1..n) -> V] /\ \A v \in V, i \in 1..n : step[<<v, i>>] = Add(v, q, found[i])
  <2>1. \A v \in V, i \in 1..n : Add(v, q, found[i]) \in V
    BY <1>1, AddTypes
  <2>2. \A x \in V \X (1..n) : x[1] \in V /\ x[2] \in 1..n
    OBVIOUS
  <2> HIDE DEF n, V
  <2> QED
    BY <2>1, <2>2
<1> HIDE DEF step, n, V
<1>9. IsTurn(step, n, V)
  BY <1>1, <1>2 DEF IsTurn
<1>3. ASSUME NEW t, IsAddTable(t, merged, q, found, 1..n) PROVE IsLoopTable(t, merged, step, 1..n)
  <2>1. \A s \in SUBSET (1..n) :
          t[s] = IF s = {} THEN merged ELSE Add(t[s \ {Max(s)}], q, found[Max(s)])
    BY <1>3 DEF IsAddTable
  <2>2. \A s \in SUBSET (1..n) : s # {} => Max(s) \in s
    BY <1>1, LastIsIn
  <2>3. \A s \in SUBSET (1..n) : t[s] \in V
    <3> DEFINE Bad == {s \in SUBSET (1..n) : t[s] \notin V}
    <3> SUFFICES ASSUME Bad # {} PROVE FALSE
      OBVIOUS
    <3>1. PICK s \in Bad : \A u \in SUBSET s : u # s => u \notin Bad
      <4>1. Bad \subseteq SUBSET (1..n) /\ IsFiniteSet(1..n)
        BY <1>1, FS_Interval
      <4> HIDE DEF Bad
      <4> QED
        BY <4>1, SmallestSubset
    <3>2. s # {} => Max(s) \in 1..n /\ t[s \ {Max(s)}] \in V
      BY <2>2, <3>1
    <3>3. s # {} => step[<<t[s \ {Max(s)}], Max(s)>>] \in V
      BY <1>2, <3>2
    <3>4. merged \in V
      BY DEF V
    <3> QED
      BY <1>2, <2>1, <3>1, <3>2, <3>3, <3>4
  <2>4. \A s \in SUBSET (1..n) : s # {} =>
          Add(t[s \ {Max(s)}], q, found[Max(s)]) = step[<<t[s \ {Max(s)}], Max(s)>>]
    BY <1>2, <2>2, <2>3
  <2>5. t = [s \in SUBSET (1..n) |-> t[s]]
    BY <1>3 DEF IsAddTable
  <2>6. \A s \in SUBSET (1..n) :
          t[s] = IF s = {} THEN merged ELSE step[<<t[s \ {Max(s)}], Max(s)>>]
    BY <2>1, <2>4
  <2> QED
    BY <2>5, <2>6 DEF IsLoopTable
<1>4. \E t : IsAddTable(t, merged, q, found, 1..n)
  <2>1. PICK t : IsLoopTable(t, merged, step, 1..n) /\ t \in [SUBSET (1..n) -> V]
    <3>1. merged \in V
      BY DEF V
    <3> QED
      BY <1>9, <3>1, LoopTableIsTyped
  <2>2. \A s \in SUBSET (1..n) : s # {} => Max(s) \in s
    BY <1>1, LastIsIn
  <2>3. \A s \in SUBSET (1..n) :
          t[s] = IF s = {} THEN merged ELSE Add(t[s \ {Max(s)}], q, found[Max(s)])
    <3>1. \A s \in SUBSET (1..n) :
            t[s] = IF s = {} THEN merged ELSE step[<<t[s \ {Max(s)}], Max(s)>>]
      BY <2>1 DEF IsLoopTable
    <3> QED
      BY <1>2, <2>1, <2>2, <3>1
  <2>4. t = [s \in SUBSET (1..n) |-> t[s]]
    BY <2>1
  <2> QED
    BY <2>3, <2>4 DEF IsAddTable
<1> DEFINE u == CHOOSE t : IsAddTable(t, merged, q, found, 1..n)
<1>5. AddAll(merged, q, found) = u[1..n]
  BY <1>1, AddAllUnfold
<1>6. IsLoopTable(u, merged, step, 1..n)
  BY <1>3, <1>4
<1> HIDE DEF u
<1>7. PICK run \in [0..n -> V] : /\ run[0] = merged /\ run[n] = u[1..n]
                                 /\ \A i \in 1..n : run[i] = step[<<run[i - 1], i>>]
  <2>1. merged \in V
    BY DEF V
  <2> QED
    BY <1>9, <1>6, <2>1, LoopTurns
<1>8. \A i \in 1..n : run[i] = Add(run[i - 1], q, found[i])
  <2> SUFFICES ASSUME NEW i \in 1..n PROVE run[i] = Add(run[i - 1], q, found[i])
    OBVIOUS
  <2>1. run[i - 1] \in V
    <3>1. i - 1 \in 0..n
      BY <1>1
    <3> QED
      BY <3>1
  <2> QED
    BY <1>2, <1>7, <2>1
<1> QED
  BY <1>5, <1>7, <1>8 DEF n, V

\* Offers that are joined by the hits of a provider are offers.
LEMMA AddAllTypes ==
  ASSUME NEW merged \in Seq(Offering), NEW q \in Providers, NEW found \in Seq(Listed)
  PROVE  AddAll(merged, q, found) \in Seq(Offering)
<1>1. PICK run \in [0..Len(found) -> Seq(Offering)] : run[Len(found)] = AddAll(merged, q, found)
  BY AddTurns
<1>2. Len(found) \in 0..Len(found)
  OBVIOUS
<1> QED
  BY <1>1, <1>2

\* The turns of the outer loop: one provider after the other.
LEMMA MergeTurns ==
  ASSUME NEW names \in Seq(Providers), NEW found,
         \A i \in DOMAIN names : found[names[i]] \in Seq(Listed)
  PROVE  \E run \in [0..Len(names) -> Seq(Offering)] :
           /\ run[0] = <<>> /\ run[Len(names)] = Merged(names, found)
           /\ \A i \in 1..Len(names) : run[i] = AddAll(run[i - 1], names[i], found[names[i]])
<1> DEFINE n == Len(names)
           V == Seq(Offering)
           step == [x \in V \X (1..n) |-> AddAll(x[1], names[x[2]], found[names[x[2]]])]
<1>1. /\ n \in Nat /\ DOMAIN names = 1..n
      /\ \A i \in 1..n : names[i] \in Providers /\ found[names[i]] \in Seq(Listed)
  OBVIOUS
<1>2. /\ step \in [V \X (1..n) -> V]
      /\ \A v \in V, i \in 1..n : step[<<v, i>>] = AddAll(v, names[i], found[names[i]])
  <2>1. \A v \in V, i \in 1..n : AddAll(v, names[i], found[names[i]]) \in V
    BY <1>1, AddAllTypes
  <2>2. \A x \in V \X (1..n) : x[1] \in V /\ x[2] \in 1..n
    OBVIOUS
  <2> HIDE DEF n, V
  <2> QED
    BY <2>1, <2>2
<1>0. <<>> \in V
  OBVIOUS
<1> HIDE DEF step, n, V
<1>9. IsTurn(step, n, V)
  BY <1>1, <1>2 DEF IsTurn
<1>3. ASSUME NEW t, IsMergeTable(t, names, found, 1..n) PROVE IsLoopTable(t, <<>>, step, 1..n)
  <2>1. \A s \in SUBSET (1..n) :
          t[s] = IF s = {} THEN <<>>
                 ELSE AddAll(t[s \ {Max(s)}], names[Max(s)], found[names[Max(s)]])
    BY <1>3 DEF IsMergeTable
  <2>2. \A s \in SUBSET (1..n) : s # {} => Max(s) \in s
    BY <1>1, LastIsIn
  <2>3. \A s \in SUBSET (1..n) : t[s] \in V
    <3> DEFINE Bad == {s \in SUBSET (1..n) : t[s] \notin V}
    <3> SUFFICES ASSUME Bad # {} PROVE FALSE
      OBVIOUS
    <3>1. PICK s \in Bad : \A u \in SUBSET s : u # s => u \notin Bad
      <4>1. Bad \subseteq SUBSET (1..n) /\ IsFiniteSet(1..n)
        BY <1>1, FS_Interval
      <4> HIDE DEF Bad
      <4> QED
        BY <4>1, SmallestSubset
    <3>2. s # {} => Max(s) \in 1..n /\ t[s \ {Max(s)}] \in V
      BY <2>2, <3>1
    <3>3. s # {} => step[<<t[s \ {Max(s)}], Max(s)>>] \in V
      BY <1>2, <3>2
    <3> QED
      BY <1>0, <1>2, <2>1, <3>1, <3>2, <3>3
  <2>4. \A s \in SUBSET (1..n) : s # {} =>
          AddAll(t[s \ {Max(s)}], names[Max(s)], found[names[Max(s)]])
            = step[<<t[s \ {Max(s)}], Max(s)>>]
    BY <1>2, <2>2, <2>3
  <2>5. t = [s \in SUBSET (1..n) |-> t[s]]
    BY <1>3 DEF IsMergeTable
  <2>6. \A s \in SUBSET (1..n) :
          t[s] = IF s = {} THEN <<>> ELSE step[<<t[s \ {Max(s)}], Max(s)>>]
    BY <2>1, <2>4
  <2> QED
    BY <2>5, <2>6 DEF IsLoopTable
<1>4. \E t : IsMergeTable(t, names, found, 1..n)
  <2>1. PICK t : IsLoopTable(t, <<>>, step, 1..n) /\ t \in [SUBSET (1..n) -> V]
    BY <1>0, <1>9, LoopTableIsTyped
  <2>2. \A s \in SUBSET (1..n) : s # {} => Max(s) \in s
    BY <1>1, LastIsIn
  <2>3. \A s \in SUBSET (1..n) :
          t[s] = IF s = {} THEN <<>>
                 ELSE AddAll(t[s \ {Max(s)}], names[Max(s)], found[names[Max(s)]])
    <3>1. \A s \in SUBSET (1..n) :
            t[s] = IF s = {} THEN <<>> ELSE step[<<t[s \ {Max(s)}], Max(s)>>]
      BY <2>1 DEF IsLoopTable
    <3> QED
      BY <1>2, <2>1, <2>2, <3>1
  <2>4. t = [s \in SUBSET (1..n) |-> t[s]]
    BY <2>1
  <2> QED
    BY <2>3, <2>4 DEF IsMergeTable
<1> DEFINE u == CHOOSE t : IsMergeTable(t, names, found, 1..n)
<1>5. Merged(names, found) = u[1..n]
  BY <1>1, MergedUnfold
<1>6. IsLoopTable(u, <<>>, step, 1..n)
  BY <1>3, <1>4
<1> HIDE DEF u
<1>7. PICK run \in [0..n -> V] : /\ run[0] = <<>> /\ run[n] = u[1..n]
                                 /\ \A i \in 1..n : run[i] = step[<<run[i - 1], i>>]
  BY <1>0, <1>9, <1>6, LoopTurns
<1>8. \A i \in 1..n : run[i] = AddAll(run[i - 1], names[i], found[names[i]])
  <2> SUFFICES ASSUME NEW i \in 1..n PROVE run[i] = AddAll(run[i - 1], names[i], found[names[i]])
    OBVIOUS
  <2>1. run[i - 1] \in V
    <3>1. i - 1 \in 0..n
      BY <1>1
    <3> QED
      BY <3>1
  <2> QED
    BY <1>2, <1>7, <2>1
<1> QED
  BY <1>5, <1>7, <1>8 DEF n, V

KeyOf(x) == Key[x.name]

\* The sources of an offer are in the order of names.
InOrder(sources, names) ==
  \A k, l \in DOMAIN sources, i, j \in DOMAIN names :
    sources[k] = names[i] /\ sources[l] = names[j] /\ k < l => i < j

\* e is the merge of what P holds of its product: at the lowest price, with the
\* id of a hit at that price, from all who have it.
IsMergedOffer(e, P, names) ==
  /\ \A o \in P : KeyOf(o[2]) = KeyOf(e) => e.price <= o[2].price
  /\ \E o \in P : KeyOf(o[2]) = KeyOf(e) /\ o[2].id = e.id /\ o[2].price = e.price
  /\ \A k \in DOMAIN e.sources : \E o \in P : KeyOf(o[2]) = KeyOf(e) /\ o[1] = e.sources[k]
  /\ \A o \in P : KeyOf(o[2]) = KeyOf(e) => \E k \in DOMAIN e.sources : e.sources[k] = o[1]
  /\ InOrder(e.sources, names)

\* m has one such offer for every product in P.
IsMergeOf(m, P, names) ==
  /\ m \in Seq(Offering)
  /\ \A i, j \in DOMAIN m : KeyOf(m[i]) = KeyOf(m[j]) => i = j
  /\ \A o \in P : \E i \in DOMAIN m : KeyOf(m[i]) = KeyOf(o[2])
  /\ \A i \in DOMAIN m : IsMergedOffer(m[i], P, names)

\* All of P come from q or from one before q.
UpToProvider(P, q, names) ==
  \A o \in P : o[1] # q =>
    \A i, j \in DOMAIN names : o[1] = names[i] /\ q = names[j] => i < j

\* A hit of another product says nothing of e.
LEMMA OtherProduct ==
  ASSUME NEW e, NEW P, NEW names, NEW q, NEW hit, IsMergedOffer(e, P, names), KeyOf(hit) # KeyOf(e)
  PROVE  IsMergedOffer(e, P \cup {<<q, hit>>}, names)
<1>1. \A o \in P \cup {<<q, hit>>} : KeyOf(o[2]) = KeyOf(e) => o \in P
  OBVIOUS
<1> HIDE DEF InOrder, KeyOf
<1> QED
  BY <1>1 DEF IsMergedOffer

\* The first hit of a product is its merge.
LEMMA NewProduct ==
  ASSUME NEW P, NEW names, NEW q \in Providers, NEW hit \in Listed,
         \A o \in P : KeyOf(o[2]) # KeyOf(hit),
         \A i, j \in DOMAIN names : names[i] = names[j] => i = j
  PROVE  IsMergedOffer(Offer(q, hit), P \cup {<<q, hit>>}, names)
<1> DEFINE e == Offer(q, hit)
           R == P \cup {<<q, hit>>}
<1>1. e.id = hit.id /\ KeyOf(e) = KeyOf(hit) /\ e.price = hit.price /\ e.sources = <<q>>
  BY DEF Offer, KeyOf
<1>2. hit.price \in Nat
  BY CorpusAssumption
<1>3. \A o \in R : KeyOf(o[2]) = KeyOf(e) => o = <<q, hit>>
  BY <1>1
<1>4. <<q, hit>> \in R
  OBVIOUS
<1>5. DOMAIN e.sources = {1} /\ e.sources[1] = q
  BY <1>1
<1>6. InOrder(e.sources, names)
  BY <1>5 DEF InOrder
<1> HIDE DEF e, R
<1>7. \A o \in R : KeyOf(o[2]) = KeyOf(e) => e.price <= o[2].price
  BY <1>1, <1>2, <1>3
<1>8. \E o \in R : KeyOf(o[2]) = KeyOf(e) /\ o[2].id = e.id /\ o[2].price = e.price
  BY <1>1, <1>4
<1>9. \A k \in DOMAIN e.sources : \E o \in R : KeyOf(o[2]) = KeyOf(e) /\ o[1] = e.sources[k]
  BY <1>1, <1>4, <1>5
<1>10. \A o \in R : KeyOf(o[2]) = KeyOf(e) => \E k \in DOMAIN e.sources : e.sources[k] = o[1]
  BY <1>3, <1>5
<1> QED
  BY <1>6, <1>7, <1>8, <1>9, <1>10 DEF IsMergedOffer, e, R

\* A hit of the latest provider, joined to the offer of its product: one more
\* source, and the cheaper price with its id.
LEMMA SameProduct ==
  ASSUME NEW P, NEW names, NEW q \in Providers, NEW hit \in Listed, NEW old \in Offering,
         P \subseteq Providers \X Listed, IsMergedOffer(old, P, names), KeyOf(old) = KeyOf(hit),
         UpToProvider(P, q, names)
  PROVE  /\ KeyOf(Joined(old, q, hit)) = KeyOf(old)
         /\ IsMergedOffer(Joined(old, q, hit), P \cup {<<q, hit>>}, names)
<1> DEFINE e == Joined(old, q, hit)
           R == P \cup {<<q, hit>>}
           cheaper == hit.price < old.price
           counted == \E k \in DOMAIN old.sources : old.sources[k] = q
<1>1. /\ e.name = old.name
      /\ e.id = IF cheaper THEN hit.id ELSE old.id
      /\ e.price = IF cheaper THEN hit.price ELSE old.price
      /\ e.sources = IF counted THEN old.sources ELSE Append(old.sources, q)
  BY DEF Joined
<1>2. KeyOf(e) = KeyOf(old) /\ KeyOf(e) = KeyOf(hit)
  BY <1>1 DEF KeyOf
<1>3. /\ hit.price \in Nat /\ old.price \in Nat /\ old.sources \in Seq(Providers)
      /\ \A o \in P : o[2].price \in Nat
  BY CorpusAssumption DEF Offering
<1>4. <<q, hit>> \in R /\ P \subseteq R /\ <<q, hit>>[1] = q /\ <<q, hit>>[2] = hit
  OBVIOUS
<1>5. \A o \in R : o \in P \/ o = <<q, hit>>
  OBVIOUS
<1>6. /\ \A k \in DOMAIN old.sources : k \in DOMAIN e.sources /\ e.sources[k] = old.sources[k]
      /\ \A k \in DOMAIN e.sources :
           \/ k \in DOMAIN old.sources /\ e.sources[k] = old.sources[k]
           \/ ~counted /\ k = Len(old.sources) + 1 /\ e.sources[k] = q
      /\ \E k \in DOMAIN e.sources : e.sources[k] = q
  <2>1. CASE counted
    BY <1>1, <2>1
  <2>2. CASE ~counted
    <3> DEFINE s == old.sources
    <3>1. e.sources = Append(s, q) /\ s \in Seq(Providers)
      BY <1>1, <1>3, <2>2
    <3>2. /\ DOMAIN Append(s, q) = 1..(Len(s) + 1) /\ DOMAIN s = 1..Len(s) /\ Len(s) \in Nat
          /\ \A k \in 1..Len(s) : Append(s, q)[k] = s[k]
          /\ Append(s, q)[Len(s) + 1] = q
      BY <3>1
    <3> HIDE DEF e, s
    <3>3. \A k \in 1..(Len(s) + 1) : k \in 1..Len(s) \/ k = Len(s) + 1
      BY <3>2
    <3> QED
      BY <2>2, <3>1, <3>2, <3>3 DEF s
  <2> QED
    BY <2>1, <2>2
<1>7. InOrder(e.sources, names)
  <2> SUFFICES ASSUME NEW k \in DOMAIN e.sources, NEW l \in DOMAIN e.sources,
                      NEW i \in DOMAIN names, NEW j \in DOMAIN names,
                      e.sources[k] = names[i], e.sources[l] = names[j], k < l
               PROVE  i < j
    BY DEF InOrder
  <2>1. DOMAIN old.sources = 1..Len(old.sources) /\ Len(old.sources) \in Nat
    BY <1>3
  <2>2. CASE l \in DOMAIN old.sources
    <3>1. k \in DOMAIN old.sources
      BY <1>6, <2>1, <2>2
    <3> HIDE DEF e
    <3> QED
      BY <1>6, <2>2, <3>1 DEF IsMergedOffer, InOrder
  <2>3. CASE l \notin DOMAIN old.sources
    <3>1. ~counted /\ l = Len(old.sources) + 1 /\ e.sources[l] = q
      BY <1>6, <2>3
    <3>2. k \in DOMAIN old.sources /\ e.sources[k] = old.sources[k]
      BY <1>6, <2>1, <3>1
    <3>3. PICK o \in P : o[1] = old.sources[k]
      BY <3>2 DEF IsMergedOffer
    <3>4. o[1] # q
      BY <3>1, <3>2, <3>3
    <3>5. o[1] = names[i] /\ q = names[j]
      BY <3>1, <3>2, <3>3
    <3> QED
      BY <3>4, <3>5 DEF UpToProvider
  <2> QED
    BY <2>2, <2>3
<1> HIDE DEF e, R
<1>8. \A o \in R : KeyOf(o[2]) = KeyOf(e) => e.price <= o[2].price
  <2> SUFFICES ASSUME NEW o \in R, KeyOf(o[2]) = KeyOf(e) PROVE e.price <= o[2].price
    OBVIOUS
  <2>1. CASE o \in P
    <3>1. old.price <= o[2].price /\ o[2].price \in Nat
      BY <1>2, <1>3, <2>1 DEF IsMergedOffer
    <3> QED
      BY <1>1, <1>3, <3>1
  <2>2. CASE o = <<q, hit>>
    BY <1>1, <1>3, <1>4, <2>2
  <2> QED
    BY <1>5, <2>1, <2>2
<1>9. \E o \in R : KeyOf(o[2]) = KeyOf(e) /\ o[2].id = e.id /\ o[2].price = e.price
  <2>1. CASE cheaper
    BY <1>1, <1>2, <1>4, <2>1
  <2>2. CASE ~cheaper
    <3>1. PICK o \in P : KeyOf(o[2]) = KeyOf(old) /\ o[2].id = old.id /\ o[2].price = old.price
      BY DEF IsMergedOffer
    <3> QED
      BY <1>1, <1>2, <1>4, <2>2, <3>1
  <2> QED
    BY <2>1, <2>2
<1>10. \A k \in DOMAIN e.sources : \E o \in R : KeyOf(o[2]) = KeyOf(e) /\ o[1] = e.sources[k]
  <2> SUFFICES ASSUME NEW k \in DOMAIN e.sources
               PROVE  \E o \in R : KeyOf(o[2]) = KeyOf(e) /\ o[1] = e.sources[k]
    OBVIOUS
  <2>1. CASE k \in DOMAIN old.sources /\ e.sources[k] = old.sources[k]
    <3>1. PICK o \in P : KeyOf(o[2]) = KeyOf(old) /\ o[1] = old.sources[k]
      BY <2>1 DEF IsMergedOffer
    <3> QED
      BY <1>2, <1>4, <2>1, <3>1
  <2>2. CASE e.sources[k] = q
    BY <1>2, <1>4, <2>2
  <2> QED
    BY <1>6, <2>1, <2>2
<1>11. \A o \in R : KeyOf(o[2]) = KeyOf(e) => \E k \in DOMAIN e.sources : e.sources[k] = o[1]
  <2> SUFFICES ASSUME NEW o \in R, KeyOf(o[2]) = KeyOf(e)
               PROVE  \E k \in DOMAIN e.sources : e.sources[k] = o[1]
    OBVIOUS
  <2>1. CASE o \in P
    <3>1. PICK k \in DOMAIN old.sources : old.sources[k] = o[1]
      BY <1>2, <2>1 DEF IsMergedOffer
    <3> QED
      BY <1>6, <3>1
  <2>2. CASE o = <<q, hit>>
    BY <1>4, <1>6, <2>2
  <2> QED
    BY <1>5, <2>1, <2>2
<1> QED
  BY <1>2, <1>7, <1>8, <1>9, <1>10, <1>11 DEF IsMergedOffer, e, R

\* Adding a hit of the latest provider to a merge gives the merge with it.
LEMMA AddKeeps ==
  ASSUME NEW names, NEW m, NEW P, NEW q \in Providers, NEW hit \in Listed,
         \A i, j \in DOMAIN names : names[i] = names[j] => i = j,
         P \subseteq Providers \X Listed, IsMergeOf(m, P, names), UpToProvider(P, q, names)
  PROVE  IsMergeOf(Add(m, q, hit), P \cup {<<q, hit>>}, names)
<1> DEFINE R == P \cup {<<q, hit>>}
           n == Add(m, q, hit)
<1>1. n \in Seq(Offering) /\ m \in Seq(Offering)
  BY AddTypes DEF IsMergeOf
<1>2. CASE Same(m, hit) = {}
  <2>1. n = Append(m, Offer(q, hit))
    BY <1>1, <1>2, AddOne
  <2>2. /\ DOMAIN n = 1..(Len(m) + 1) /\ DOMAIN m = 1..Len(m) /\ Len(m) \in Nat
        /\ \A i \in 1..Len(m) : n[i] = m[i]
        /\ n[Len(m) + 1] = Offer(q, hit)
    BY <1>1, <2>1
  <2> HIDE DEF n
  <2>3. \A i \in DOMAIN n : i \in DOMAIN m \/ i = Len(m) + 1
    BY <2>2
  <2>4. KeyOf(Offer(q, hit)) = KeyOf(hit) /\ \A i \in DOMAIN m : KeyOf(m[i]) # KeyOf(hit)
    BY <1>2 DEF Same, KeyOf, Offer
  <2>5. \A o \in P : KeyOf(o[2]) # KeyOf(hit)
    BY <2>4 DEF IsMergeOf
  <2>6. IsMergedOffer(Offer(q, hit), R, names)
    BY <2>5, NewProduct
  <2>7. \A i \in DOMAIN m : IsMergedOffer(m[i], R, names)
    BY <2>4, OtherProduct DEF IsMergeOf
  <2> HIDE DEF R
  <2>8. \A i \in DOMAIN n : IsMergedOffer(n[i], R, names)
    BY <2>2, <2>3, <2>6, <2>7
  <2>9. \A i, j \in DOMAIN n : KeyOf(n[i]) = KeyOf(n[j]) => i = j
    BY <2>2, <2>3, <2>4 DEF IsMergeOf
  <2>10. \A o \in R : \E i \in DOMAIN n : KeyOf(n[i]) = KeyOf(o[2])
    <3> SUFFICES ASSUME NEW o \in R PROVE \E i \in DOMAIN n : KeyOf(n[i]) = KeyOf(o[2])
      OBVIOUS
    <3>1. CASE o \in P
      <4>1. PICK i \in DOMAIN m : KeyOf(m[i]) = KeyOf(o[2])
        BY <3>1 DEF IsMergeOf
      <4> QED
        BY <2>2, <4>1
    <3>2. CASE o = <<q, hit>>
      <4>1. Len(m) + 1 \in DOMAIN n
        BY <2>2
      <4> QED
        BY <2>2, <2>4, <3>2, <4>1
    <3> QED
      BY <3>1, <3>2 DEF R
  <2> QED
    BY <1>1, <2>8, <2>9, <2>10 DEF IsMergeOf, R, n
<1>3. CASE Same(m, hit) # {}
  <2>1. PICK i \in Same(m, hit) : n = [m EXCEPT ![i] = Joined(m[i], q, hit)]
    BY <1>1, <1>3, AddOne
  <2>2. i \in DOMAIN m /\ KeyOf(m[i]) = KeyOf(hit) /\ m[i] \in Offering
    BY <1>1 DEF Same, KeyOf
  <2>3. /\ DOMAIN n = DOMAIN m /\ n[i] = Joined(m[i], q, hit)
        /\ \A j \in DOMAIN m : j # i => n[j] = m[j]
    BY <1>1, <2>1, <2>2
  <2> HIDE DEF n
  <2>4. KeyOf(n[i]) = KeyOf(m[i]) /\ IsMergedOffer(n[i], R, names)
    BY <2>2, <2>3, SameProduct DEF IsMergeOf
  <2>5. \A j \in DOMAIN m : KeyOf(n[j]) = KeyOf(m[j])
    BY <2>3, <2>4
  <2>6. \A j \in DOMAIN m : j # i => KeyOf(m[j]) # KeyOf(hit)
    BY <2>2 DEF IsMergeOf
  <2>7. \A j \in DOMAIN m : j # i => IsMergedOffer(m[j], R, names)
    BY <2>6, OtherProduct DEF IsMergeOf
  <2> HIDE DEF R
  <2>8. \A j \in DOMAIN n : IsMergedOffer(n[j], R, names)
    BY <2>3, <2>4, <2>7
  <2>9. \A j, k \in DOMAIN n : KeyOf(n[j]) = KeyOf(n[k]) => j = k
    BY <2>3, <2>5 DEF IsMergeOf
  <2>10. \A o \in R : \E j \in DOMAIN n : KeyOf(n[j]) = KeyOf(o[2])
    <3> SUFFICES ASSUME NEW o \in R PROVE \E j \in DOMAIN n : KeyOf(n[j]) = KeyOf(o[2])
      OBVIOUS
    <3>1. CASE o \in P
      <4>1. PICK j \in DOMAIN m : KeyOf(m[j]) = KeyOf(o[2])
        BY <3>1 DEF IsMergeOf
      <4> QED
        BY <2>3, <2>5, <4>1
    <3>2. CASE o = <<q, hit>>
      BY <2>2, <2>3, <2>5, <3>2
    <3> QED
      BY <3>1, <3>2 DEF R
  <2> QED
    BY <1>1, <2>8, <2>9, <2>10 DEF IsMergeOf, R, n
<1> QED
  BY <1>2, <1>3

\* The first i hits of one provider.
FirstOf(q, found, i) == {<<q, found[x]>> : x \in 1..i}

\* So does adding all of its hits.
LEMMA AddAllKeeps ==
  ASSUME NEW names, NEW m, NEW P, NEW q \in Providers, NEW found \in Seq(Listed),
         \A i, j \in DOMAIN names : names[i] = names[j] => i = j,
         P \subseteq Providers \X Listed, IsMergeOf(m, P, names), UpToProvider(P, q, names)
  PROVE  IsMergeOf(AddAll(m, q, found), P \cup FirstOf(q, found, Len(found)), names)
<1>0. m \in Seq(Offering)
  BY DEF IsMergeOf
<1>1. PICK run \in [0..Len(found) -> Seq(Offering)] :
        /\ run[0] = m /\ run[Len(found)] = AddAll(m, q, found)
        /\ \A i \in 1..Len(found) : run[i] = Add(run[i - 1], q, found[i])
  BY <1>0, AddTurns
<1> DEFINE n == Len(found)
           Up(i) == P \cup FirstOf(q, found, i)
           Reached == {i \in 0..n : IsMergeOf(run[i], Up(i), names)}
<1>2. n \in Nat /\ DOMAIN found = 1..n /\ \A i \in 1..n : found[i] \in Listed
  OBVIOUS
<1>3. 0 \in Reached
  <2>1. Up(0) = P
    <3>1. 1..0 = {}
      OBVIOUS
    <3> QED
      BY <3>1 DEF FirstOf
  <2> HIDE DEF Up
  <2> QED
    BY <1>1, <1>2, <2>1
<1>4. \A i \in 1..n : i - 1 \in Reached => i \in Reached
  <2> SUFFICES ASSUME NEW i \in 1..n, IsMergeOf(run[i - 1], Up(i - 1), names)
               PROVE  IsMergeOf(run[i], Up(i), names)
    <3>1. \A i \in 1..n : i \in 0..n
      BY <1>2
    <3> HIDE DEF n, Up
    <3> QED
      BY <3>1
  <2>1. Up(i) = Up(i - 1) \cup {<<q, found[i]>>}
    <3>1. 1..i = 1..(i - 1) \cup {i}
      BY <1>2
    <3> QED
      BY <3>1 DEF FirstOf
  <2>2. Up(i - 1) \subseteq Providers \X Listed
    BY <1>2 DEF FirstOf
  <2>3. UpToProvider(Up(i - 1), q, names)
    BY DEF UpToProvider, FirstOf
  <2>4. found[i] \in Listed /\ run[i] = Add(run[i - 1], q, found[i])
    BY <1>1, <1>2
  <2> HIDE DEF Up, n
  <2> QED
    BY <2>1, <2>2, <2>3, <2>4, AddKeeps
<1>5. n \in Reached
  <2>1. n \in 0..n
    BY <1>2
  <2> HIDE DEF Reached, n
  <2> QED
    BY <1>2, <1>3, <1>4, <2>1, Climb
<1> QED
  BY <1>1, <1>5

\* What the first c of the providers bring.
BroughtBy(names, found, c) ==
  UNION {FirstOf(names[j], found[names[j]], Len(found[names[j]])) : j \in 1..c}

\* The two loops merge all that was brought.
LEMMA MergeIsMerge ==
  ASSUME NEW names \in Seq(Providers), NEW found,
         \A i, j \in DOMAIN names : names[i] = names[j] => i = j,
         \A i \in DOMAIN names : found[names[i]] \in Seq(Listed)
  PROVE  IsMergeOf(Merged(names, found), BroughtBy(names, found, Len(names)), names)
<1>1. PICK run \in [0..Len(names) -> Seq(Offering)] :
        /\ run[0] = <<>> /\ run[Len(names)] = Merged(names, found)
        /\ \A i \in 1..Len(names) : run[i] = AddAll(run[i - 1], names[i], found[names[i]])
  BY MergeTurns
<1> DEFINE n == Len(names)
           Reached == {i \in 0..n : IsMergeOf(run[i], BroughtBy(names, found, i), names)}
<1>2. /\ n \in Nat /\ DOMAIN names = 1..n
      /\ \A i \in 1..n : names[i] \in Providers /\ found[names[i]] \in Seq(Listed)
  OBVIOUS
<1>3. 0 \in Reached
  <2>1. BroughtBy(names, found, 0) = {}
    <3>1. 1..0 = {}
      OBVIOUS
    <3> QED
      BY <3>1 DEF BroughtBy
  <2>2. IsMergeOf(<<>>, {}, names)
    BY DEF IsMergeOf
  <2>3. 0 \in 0..n
    BY <1>2
  <2> QED
    BY <1>1, <2>1, <2>2, <2>3
<1>4. \A i \in 1..n : i - 1 \in Reached => i \in Reached
  <2> SUFFICES ASSUME NEW i \in 1..n, IsMergeOf(run[i - 1], BroughtBy(names, found, i - 1), names)
               PROVE  IsMergeOf(run[i], BroughtBy(names, found, i), names)
    BY <1>2, SMTT(30)
  <2> DEFINE q == names[i]
             P == BroughtBy(names, found, i - 1)
  <2>0. 1..i = 1..(i - 1) \cup {i} /\ 1..(i - 1) \subseteq 1..n /\ \A j \in 1..(i - 1) : j < i
    BY <1>2
  <2>1. BroughtBy(names, found, i) = P \cup FirstOf(q, found[q], Len(found[q]))
    BY <2>0 DEF BroughtBy
  <2>2. \A o \in P : \E j \in 1..(i - 1) : o[1] = names[j] /\ o \in Providers \X Listed
    <3> SUFFICES ASSUME NEW j \in 1..(i - 1),
                        NEW o \in FirstOf(names[j], found[names[j]], Len(found[names[j]]))
                 PROVE  o[1] = names[j] /\ o \in Providers \X Listed
      BY DEF BroughtBy
    <3>1. names[j] \in Providers /\ found[names[j]] \in Seq(Listed)
      BY <1>2, <2>0
    <3>2. \A x \in 1..Len(found[names[j]]) : found[names[j]][x] \in Listed
      BY <3>1
    <3> QED
      BY <3>1, <3>2 DEF FirstOf
  <2>3. P \subseteq Providers \X Listed
    BY <2>2
  <2>4. UpToProvider(P, q, names)
    <3> SUFFICES ASSUME NEW o \in P, NEW a \in DOMAIN names, NEW b \in DOMAIN names,
                        o[1] = names[a], q = names[b]
                 PROVE  a < b
      BY DEF UpToProvider
    <3>1. PICK j \in 1..(i - 1) : o[1] = names[j]
      BY <2>2
    <3>2. a = j /\ b = i
      BY <1>2, <2>0, <3>1
    <3> QED
      BY <2>0, <3>2
  <2>5. q \in Providers /\ found[q] \in Seq(Listed) /\ run[i] = AddAll(run[i - 1], q, found[q])
    BY <1>1, <1>2
  <2> HIDE DEF P, q
  <2>6. IsMergeOf(run[i - 1], P, names)
    BY DEF P
  <2> QED
    BY <2>1, <2>3, <2>4, <2>5, <2>6, AddAllKeeps
<1>5. n \in Reached
  <2>1. n \in 0..n
    BY <1>2
  <2> HIDE DEF Reached, n
  <2> QED
    BY <1>2, <1>3, <1>4, <2>1, Climb
<1> QED
  BY <1>1, <1>5

\* A relation that orders n things strictly.
IsStrictOrder(less, n) ==
  /\ less \subseteq (1..n) \X (1..n)
  /\ \A i, j, k \in 1..n : <<i, j>> \in less /\ <<j, k>> \in less => <<i, k>> \in less
  /\ \A i \in 1..n : <<i, i>> \notin less
  /\ \A i, j \in 1..n : i = j \/ <<i, j>> \in less \/ <<j, i>> \in less

\* n things that are ordered can be put in order: each has as its rank the
\* number of those below it, and no two the same.
LEMMA OrderExists ==
  ASSUME NEW n \in Nat, NEW less, IsStrictOrder(less, n)
  PROVE  \E p \in Bijection(1..n, 1..n) : \A i, j \in 1..n : i < j => <<p[j], p[i]>> \notin less
<1> DEFINE N == 1..n
           Below(i) == {j \in N : <<j, i>> \in less}
           rank == [i \in N |-> Cardinality(Below(i)) + 1]
<1>0. IsFiniteSet(N) /\ Cardinality(N) = n
  BY FS_Interval
<1>1. \A i \in N : IsFiniteSet(Below(i)) /\ Cardinality(Below(i)) \in Nat
  BY <1>0, FS_Subset, FS_CardinalityType
<1>11. \A i \in N : rank[i] = Cardinality(Below(i)) + 1
  OBVIOUS
<1> HIDE DEF rank
<1>2. \A i, j \in N : <<i, j>> \in less => rank[i] < rank[j]
  <2> SUFFICES ASSUME NEW i \in N, NEW j \in N, <<i, j>> \in less
               PROVE  Cardinality(Below(i)) < Cardinality(Below(j))
    <3> HIDE DEF Below
    <3> QED
      BY <1>1, <1>11
  <2>1. Below(i) \cup {i} \subseteq Below(j) /\ i \notin Below(i)
    BY DEF IsStrictOrder
  <2> HIDE DEF Below
  <2>2. IsFiniteSet(Below(i) \cup {i}) /\ Cardinality(Below(i) \cup {i}) = Cardinality(Below(i)) + 1
    BY <1>1, <2>1, FS_AddElement
  <2>3. Cardinality(Below(i) \cup {i}) <= Cardinality(Below(j))
    BY <1>1, <2>1, FS_Subset
  <2> QED
    BY <1>1, <2>2, <2>3
<1>3. rank \in [N -> N]
  <2> SUFFICES ASSUME NEW i \in N PROVE Cardinality(Below(i)) + 1 \in 1..n
    BY DEF rank
  <2>1. Below(i) \cup {i} \subseteq N /\ i \notin Below(i)
    BY DEF IsStrictOrder
  <2> HIDE DEF Below, N
  <2>2. IsFiniteSet(Below(i) \cup {i}) /\ Cardinality(Below(i) \cup {i}) = Cardinality(Below(i)) + 1
    BY <1>1, <2>1, FS_AddElement
  <2>3. Cardinality(Below(i) \cup {i}) <= Cardinality(N)
    BY <1>0, <2>1, FS_Subset
  <2> QED
    BY <1>0, <1>1, <2>2, <2>3
<1>4. \A i, j \in N : rank[i] = rank[j] => i = j
  <2> SUFFICES ASSUME NEW i \in N, NEW j \in N, rank[i] = rank[j] PROVE i = j
    OBVIOUS
  <2>1. rank[i] \in Int /\ rank[j] \in Int
    BY <1>3
  <2>2. ~(rank[i] < rank[j]) /\ ~(rank[j] < rank[i])
    BY <2>1
  <2>3. <<i, j>> \notin less /\ <<j, i>> \notin less
    BY <1>2, <2>2
  <2> QED
    BY <2>3 DEF IsStrictOrder
<1>5. rank \in Injection(N, N)
  BY <1>3, <1>4 DEF Injection, IsInjective
<1>6. rank \in Surjection(N, N)
  BY <1>0, <1>5, FS_Injection
<1>7. \A k \in N : \E i \in N : rank[i] = k
  BY <1>6 DEF Surjection
<1> DEFINE p == [k \in N |-> CHOOSE i \in N : rank[i] = k]
<1>8. p \in [N -> N] /\ \A k \in N : rank[p[k]] = k
  BY <1>7
<1> HIDE DEF p
<1>9. p \in Bijection(N, N)
  <2>1. \A i \in N : p[rank[i]] = i
    BY <1>3, <1>4, <1>8
  <2>2. \A i \in N : rank[i] \in N
    BY <1>3
  <2>3. p \in Injection(N, N)
    BY <1>8 DEF Injection, IsInjective
  <2>4. \A i \in N : \E k \in N : p[k] = i
    BY <2>1, <2>2
  <2>5. p \in Surjection(N, N)
    BY <1>8, <2>4 DEF Surjection
  <2> QED
    BY <2>3, <2>5 DEF Bijection
<1>10. \A i, j \in N : i < j => <<p[j], p[i]>> \notin less
  <2> SUFFICES ASSUME NEW i \in N, NEW j \in N, i < j, <<p[j], p[i]>> \in less PROVE FALSE
    OBVIOUS
  <2>1. p[i] \in N /\ p[j] \in N
    BY <1>8
  <2>2. rank[p[j]] < rank[p[i]]
    BY <1>2, <2>1
  <2> QED
    BY <1>8, <2>2
<1> QED
  BY <1>9, <1>10

\* The offers are put in order, and none is lost or told twice.
LEMMA RankedIsRanking ==
  ASSUME NEW hits \in Seq(Offering),
         \A i, j \in DOMAIN hits : KeyOf(hits[i]) = KeyOf(hits[j]) => i = j
  PROVE  \E p \in Bijection(DOMAIN hits, DOMAIN hits) :
           /\ Ranked(hits) = [i \in DOMAIN hits |-> hits[p[i]]]
           /\ \A i, j \in DOMAIN hits : i < j => Before(hits[p[i]], hits[p[j]])
<1> DEFINE n == Len(hits)
           less == {x \in (1..n) \X (1..n) : Before(hits[x[1]], hits[x[2]])}
<1>1. DOMAIN hits = 1..n /\ n \in Nat /\ \A i \in 1..n : hits[i] \in Offering
  OBVIOUS
<1>2. \A i \in 1..n : hits[i].price \in Nat /\ hits[i].name \in DOMAIN Key
  BY <1>1 DEF Offering
<1>3. \A i \in 1..n : hits[i].name \in Int
  BY <1>2, CorpusAssumption
<1>4. \A i, j \in 1..n : i # j => hits[i].name # hits[j].name
  BY <1>1 DEF KeyOf
<1>5. \A i, j \in 1..n : <<i, j>> \in less <=> Before(hits[i], hits[j])
  OBVIOUS
<1>6. IsStrictOrder(less, n)
  <2>1. less \subseteq (1..n) \X (1..n)
    OBVIOUS
  <2> HIDE DEF less, n
  <2>2. \A i, j, k \in 1..n : <<i, j>> \in less /\ <<j, k>> \in less => <<i, k>> \in less
    <3> SUFFICES ASSUME NEW i \in 1..n, NEW j \in 1..n, NEW k \in 1..n,
                        Before(hits[i], hits[j]), Before(hits[j], hits[k])
                 PROVE  Before(hits[i], hits[k])
      BY <1>5
    <3>1. hits[i].price \in Int /\ hits[j].price \in Int /\ hits[k].price \in Int
      BY <1>2
    <3>2. hits[i].name \in Int /\ hits[j].name \in Int /\ hits[k].name \in Int
      BY <1>3
    <3> QED
      BY <3>1, <3>2 DEF Before
  <2>3. \A i \in 1..n : <<i, i>> \notin less
    BY <1>2, <1>3, <1>5 DEF Before
  <2>4. \A i, j \in 1..n : i = j \/ <<i, j>> \in less \/ <<j, i>> \in less
    <3> SUFFICES ASSUME NEW i \in 1..n, NEW j \in 1..n, i # j
                 PROVE  <<i, j>> \in less \/ <<j, i>> \in less
      OBVIOUS
    <3>1. hits[i].price \in Int /\ hits[j].price \in Int
      BY <1>2
    <3>2. hits[i].name \in Int /\ hits[j].name \in Int /\ hits[i].name # hits[j].name
      BY <1>3, <1>4
    <3> QED
      BY <1>5, <3>1, <3>2 DEF Before
  <2> QED
    BY <2>1, <2>2, <2>3, <2>4 DEF IsStrictOrder
<1> HIDE DEF less, n
<1>7. \E p \in Bijection(1..n, 1..n) : Sorts(p, hits)
  <2>1. PICK p \in Bijection(1..n, 1..n) : \A i, j \in 1..n : i < j => <<p[j], p[i]>> \notin less
    BY <1>1, <1>6, OrderExists
  <2>2. \A i \in 1..n : p[i] \in 1..n
    BY DEF Bijection, Injection, IsInjective
  <2> QED
    BY <1>1, <1>5, <2>1, <2>2 DEF Sorts
<1> DEFINE p == CHOOSE p \in Bijection(1..n, 1..n) : Sorts(p, hits)
<1>8. p \in Bijection(1..n, 1..n) /\ Sorts(p, hits)
  BY <1>7
<1>9. Ranked(hits) = [i \in DOMAIN hits |-> hits[p[i]]]
  BY <1>1 DEF Ranked
<1> HIDE DEF p
<1>10. ASSUME NEW i \in 1..n, NEW j \in 1..n, i < j PROVE Before(hits[p[i]], hits[p[j]])
  <2>1. p[i] \in 1..n /\ p[j] \in 1..n /\ p[i] # p[j]
    <3>1. i # j
      BY <1>1, <1>10
    <3> QED
      BY <1>8, <3>1 DEF Bijection, Injection, IsInjective
  <2>2. ~Before(hits[p[j]], hits[p[i]])
    BY <1>1, <1>8, <1>10 DEF Sorts
  <2> QED
    BY <1>5, <1>6, <2>1, <2>2 DEF IsStrictOrder
<1> QED
  BY <1>1, <1>8, <1>9, <1>10

\* The answer is the ranked merge of what the branches brought for a query.
AnswerInv ==
  /\ \A i, j \in DOMAIN registry : registry[i] = registry[j] => i = j
  /\ search.at \in {"scattered", "answered"} => search.query \in Queries \ {Blank}
  /\ search.at = "answered" => answered.hits = Ranked(Merged(registry, Brought))

\* The registry has no name twice.
LEMMA AnswerInitInv == GatewayInit => AnswerInv
<1> SUFFICES ASSUME GatewayInit PROVE AnswerInv
  OBVIOUS
<1>1. \A i, j \in DOMAIN registry : registry[i] = registry[j] => i = j
  <2>1. PICK spec \in Specs : registry = RegistryOf(spec)
    BY DEF GatewayInit
  <2> QED
    BY <2>1 DEF RegistryOf, IsValid
<1> QED
  BY <1>1 DEF GatewayInit, AnswerInv

\* The merge looks at the registry, the branches and the query only.
LEMMA BroughtStays ==
  ASSUME UNCHANGED <<registry, branch>>, search'.query = search.query
  PROVE  Brought' = Brought
BY DEF Brought, HitsOf, Enrolled

\* Only the gather makes an answer, and nothing changes after it.
LEMMA AnswerNextInv == ASSUME GatewayInv, AnswerInv, [GatewayNext]_gatewayVars PROVE AnswerInv'
<1>1. CASE RejectBlank \/ \E query \in Queries : Scatter(query)
  BY <1>1 DEF RejectBlank, Scatter, AnswerInv
<1>2. CASE \E i \in DOMAIN registry : Begin(i)
  BY <1>2 DEF Begin, CanBegin, AnswerInv
<1>3. CASE \E q \in Enrolled : Arrive(q) \/ Fail(q) \/ TimeOut(q)
  <2>1. search.at # "answered"
    BY <1>3 DEF Arrive, Fail, TimeOut, GatewayInv, AnsweredInv
  <2> QED
    BY <1>3, <2>1 DEF Arrive, Fail, TimeOut, Settle, AnswerInv
<1>4. CASE Tick
  BY <1>4 DEF Tick, AnswerInv
<1>5. CASE Gather
  <2>1. /\ search' = [search EXCEPT !.at = "answered"] /\ search.at = "scattered"
        /\ UNCHANGED <<registry, branch>>
        /\ answered'.hits = Ranked(Merged(registry, Brought))
    BY <1>5 DEF Gather
  <2>2. search'.query = search.query
    BY <2>1
  <2>3. Brought' = Brought
    BY <2>1, <2>2, BroughtStays
  <2> QED
    BY <2>1, <2>2, <2>3 DEF AnswerInv
<1>6. CASE UNCHANGED gatewayVars
  <2>1. UNCHANGED <<registry, branch, search, answered>>
    BY <1>6 DEF gatewayVars
  <2>2. Brought' = Brought
    BY <2>1, BroughtStays
  <2> QED
    BY <2>1, <2>2 DEF AnswerInv
<1> QED
  BY <1>1, <1>2, <1>3, <1>4, <1>5, <1>6 DEF GatewayNext

\* What the branches brought is what was found by those that are in time.
LEMMA OffersAreBrought ==
  ASSUME GatewayInv, AnswerInv, search.at = "answered"
  PROVE  /\ \A i \in DOMAIN registry : registry[i] \in Enrolled /\ Brought[registry[i]] \in Seq(Listed)
         /\ BroughtBy(registry, Brought, Len(registry)) \subseteq Enrolled \X Listed
         /\ \A o \in Enrolled \X Listed :
              o \in BroughtBy(registry, Brought, Len(registry)) <=>
                /\ InTime(o[1])
                /\ \E x \in DOMAIN Found(o[1], search.query) : Found(o[1], search.query)[x] = o[2]
<1> DEFINE F(q) == Found(q, search.query)
           P == BroughtBy(registry, Brought, Len(registry))
<1>1. /\ registry \in Seq(Providers) /\ DOMAIN registry = 1..Len(registry)
      /\ \A q \in Enrolled : q \in Providers
      /\ \A i \in DOMAIN registry : registry[i] \in Enrolled
      /\ \A q \in Enrolled : \E i \in DOMAIN registry : registry[i] = q
  BY DEF GatewayInv, GatewayTypes, Enrolled
<1>2. \A q \in Enrolled : F(q) \in Seq(Listed)
  <2>1. search.query \in Queries \ {Blank}
    BY DEF AnswerInv
  <2> QED
    BY <1>1, <2>1, CorpusAssumption
<1>3. \A q \in Enrolled : Brought[q] = IF branch[q].state = "ok" THEN F(q) ELSE <<>>
  BY DEF Brought, HitsOf
<1> HIDE DEF F
<1>4. /\ \A q \in Enrolled : Brought[q] \in Seq(Listed)
      /\ \A q \in Enrolled : DOMAIN Brought[q] = 1..Len(Brought[q])
      /\ \A q \in Enrolled : \A x \in DOMAIN Brought[q] : Brought[q][x] \in Listed
  <2>1. \A q \in Enrolled : Brought[q] \in Seq(Listed)
    <3>1. <<>> \in Seq(Listed)
      OBVIOUS
    <3> QED
      BY <1>2, <1>3, <3>1
  <2>2. \A s \in Seq(Listed) : DOMAIN s = 1..Len(s) /\ \A x \in DOMAIN s : s[x] \in Listed
    OBVIOUS
  <2> QED
    BY <2>1, <2>2
<1>5. \A o : o \in P <=> \E q \in Enrolled : \E x \in DOMAIN Brought[q] : o = <<q, Brought[q][x]>>
  <2>1. ASSUME NEW o \in P
        PROVE  \E q \in Enrolled : \E x \in DOMAIN Brought[q] : o = <<q, Brought[q][x]>>
    <3>1. PICK j \in DOMAIN registry :
            o \in FirstOf(registry[j], Brought[registry[j]], Len(Brought[registry[j]]))
      BY <1>1 DEF BroughtBy
    <3>2. registry[j] \in Enrolled
      BY <1>1
    <3>3. PICK x \in 1..Len(Brought[registry[j]]) : o = <<registry[j], Brought[registry[j]][x]>>
      BY <3>1 DEF FirstOf
    <3> QED
      BY <1>4, <3>2, <3>3
  <2>2. ASSUME NEW q \in Enrolled, NEW x \in DOMAIN Brought[q] PROVE <<q, Brought[q][x]>> \in P
    <3>1. PICK j \in 1..Len(registry) : registry[j] = q
      BY <1>1
    <3>2. <<q, Brought[q][x]>> \in FirstOf(registry[j], Brought[registry[j]], Len(Brought[registry[j]]))
      BY <1>4, <3>1 DEF FirstOf
    <3> QED
      BY <3>2 DEF BroughtBy
  <2> HIDE DEF P
  <2> QED
    BY <2>1, <2>2
<1> HIDE DEF P
<1>6. P \subseteq Enrolled \X Listed
  BY <1>4, <1>5
<1>7. ASSUME NEW q \in Enrolled, NEW hit \in Listed
      PROVE  <<q, hit>> \in P <=> InTime(q) /\ \E x \in DOMAIN F(q) : F(q)[x] = hit
  <2>1. <<q, hit>> \in P <=> \E x \in DOMAIN Brought[q] : Brought[q][x] = hit
    BY <1>5
  <2>2. DOMAIN <<>> = {}
    OBVIOUS
  <2> QED
    BY <1>3, <2>1, <2>2 DEF InTime
<1>8. \A o \in Enrolled \X Listed :
        o \in P <=> InTime(o[1]) /\ \E x \in DOMAIN F(o[1]) : F(o[1])[x] = o[2]
  BY <1>7
<1> QED
  BY <1>1, <1>4, <1>6, <1>8 DEF F, P

\* An answer is a ranking of the merge of what was brought.
LEMMA AnswerIsRanking ==
  ASSUME GatewayInv, AnswerInv, search.at = "answered"
  PROVE  \E m : \E p \in Bijection(DOMAIN m, DOMAIN m) :
           /\ IsMergeOf(m, BroughtBy(registry, Brought, Len(registry)), registry)
           /\ answered.hits = [i \in DOMAIN m |-> m[p[i]]]
           /\ \A i, j \in DOMAIN m : i < j => Before(m[p[i]], m[p[j]])
<1> DEFINE m == Merged(registry, Brought)
<1>1. IsMergeOf(m, BroughtBy(registry, Brought, Len(registry)), registry)
  <2>1. registry \in Seq(Providers)
    BY DEF GatewayInv, GatewayTypes
  <2> QED
    BY <2>1, OffersAreBrought, MergeIsMerge DEF AnswerInv
<1>2. answered.hits = Ranked(m)
  BY DEF AnswerInv
<1> HIDE DEF m
<1> QED
  BY <1>1, <1>2, RankedIsRanking DEF IsMergeOf

\* An offer of the merge is the best of its product.
LEMMA MergedIsBest ==
  ASSUME GatewayInv, AnswerInv, search.at = "answered", NEW e \in Offering,
         IsMergedOffer(e, BroughtBy(registry, Brought, Len(registry)), registry)
  PROVE  IsBest(e, Offers(KeyOf(e)))
<1> DEFINE P == BroughtBy(registry, Brought, Len(registry))
           R == Offers(KeyOf(e))
<1>1. \A o : o \in R <=> o \in P /\ KeyOf(o[2]) = KeyOf(e)
  BY OffersAreBrought DEF Offers, KeyOf
<1>2. \A o \in R : o[2].price \in Nat /\ o[1] \in Enrolled
  BY CorpusAssumption DEF Offers
<1> HIDE DEF P, R
<1>3. e.price \in Nat /\ e.sources \in Seq(Providers)
  BY DEF Offering
<1>4. e.price = Min({o[2].price : o \in R})
  <2> DEFINE S == {o[2].price : o \in R}
  <2>1. e.price \in S /\ \A y \in S : e.price <= y /\ y \in Nat
    BY <1>1, <1>2 DEF IsMergedOffer, P
  <2> HIDE DEF S
  <2>2. \A x \in S : (\A y \in S : x <= y) => x = e.price
    BY <1>3, <2>1
  <2>3. Min(S) \in S /\ \A y \in S : Min(S) <= y
    BY <2>1 DEF Min
  <2> QED
    BY <2>2, <2>3 DEF S
<1>5. \E o \in R : o[2].id = e.id /\ o[2].price = e.price
  BY <1>1 DEF IsMergedOffer, P
<1>6. {e.sources[k] : k \in DOMAIN e.sources} = {o[1] : o \in R}
  <2>1. \A k \in DOMAIN e.sources : \E o \in R : o[1] = e.sources[k]
    BY <1>1 DEF IsMergedOffer, P
  <2>2. \A o \in R : \E k \in DOMAIN e.sources : e.sources[k] = o[1]
    BY <1>1 DEF IsMergedOffer, P
  <2> QED
    BY <2>1, <2>2
<1>7. ASSUME NEW k \in DOMAIN e.sources, NEW l \in DOMAIN e.sources,
             NEW i \in DOMAIN registry, NEW j \in DOMAIN registry,
             e.sources[k] = registry[i], e.sources[l] = registry[j]
      PROVE  k < l <=> i < j
  <2>1. k \in Nat /\ l \in Nat
    BY <1>3
  <2>2. i \in Nat /\ j \in Nat
    BY DEF GatewayInv, GatewayTypes
  <2>3. k < l => i < j
    BY <1>7 DEF IsMergedOffer, InOrder
  <2>4. l < k => j < i
    BY <1>7 DEF IsMergedOffer, InOrder
  <2>5. k = l => i = j
    BY <1>7 DEF AnswerInv
  <2> QED
    BY <2>1, <2>2, <2>3, <2>4, <2>5
<1> QED
  BY <1>4, <1>5, <1>6, <1>7 DEF IsBest, R

\* An answer holds the best offers.
LEMMA AnswersAreBest ==
  ASSUME GatewayInv, AnswerInv PROVE AnswerIsBestOffers
<1> SUFFICES ASSUME search.at = "answered"
             PROVE  AnswerIsBestOffers
  BY DEF AnswerIsBestOffers
<1> DEFINE P == BroughtBy(registry, Brought, Len(registry))
           hits == answered.hits
<1>1. PICK m : \E p \in Bijection(DOMAIN m, DOMAIN m) :
           /\ IsMergeOf(m, P, registry) /\ hits = [i \in DOMAIN m |-> m[p[i]]]
           /\ \A i, j \in DOMAIN m : i < j => Before(m[p[i]], m[p[j]])
  BY AnswerIsRanking
<1>2. PICK p \in Bijection(DOMAIN m, DOMAIN m) :
           /\ IsMergeOf(m, P, registry) /\ hits = [i \in DOMAIN m |-> m[p[i]]]
           /\ \A i, j \in DOMAIN m : i < j => Before(m[p[i]], m[p[j]])
  BY <1>1
<1>3. /\ p \in [DOMAIN m -> DOMAIN m] /\ \A i, j \in DOMAIN m : p[i] = p[j] => i = j
      /\ \A i \in DOMAIN m : \E j \in DOMAIN m : p[j] = i
  BY DEF Bijection, Injection, Surjection, IsInjective
<1>4. \A o, key : o \in Offers(key) <=> o \in P /\ KeyOf(o[2]) = key
  BY OffersAreBrought DEF Offers, KeyOf
<1> HIDE DEF P
<1>5. DOMAIN hits = DOMAIN m /\ \A i \in DOMAIN m : hits[i] = m[p[i]] /\ p[i] \in DOMAIN m
  BY <1>2, <1>3
<1>6. \A i \in DOMAIN m : m[i] \in Offering /\ IsMergedOffer(m[i], P, registry)
  BY <1>2 DEF IsMergeOf
<1> HIDE DEF hits
<1>7. {KeyOf(hits[i]) : i \in DOMAIN hits} = {k \in {Key[n] : n \in DOMAIN Key} : Offers(k) # {}}
  <2>1. ASSUME NEW i \in DOMAIN hits
        PROVE  KeyOf(hits[i]) \in {Key[n] : n \in DOMAIN Key} /\ Offers(KeyOf(hits[i])) # {}
    <3>1. hits[i] \in Offering /\ IsMergedOffer(hits[i], P, registry)
      BY <1>5, <1>6
    <3>2. \E o \in P : KeyOf(o[2]) = KeyOf(hits[i])
      BY <3>1 DEF IsMergedOffer
    <3> QED
      BY <1>4, <3>1, <3>2 DEF Offering, KeyOf
  <2>2. ASSUME NEW k, Offers(k) # {} PROVE \E i \in DOMAIN hits : KeyOf(hits[i]) = k
    <3>1. PICK o \in P : KeyOf(o[2]) = k
      BY <1>4, <2>2
    <3>2. PICK j \in DOMAIN m : KeyOf(m[j]) = k
      BY <1>2, <3>1 DEF IsMergeOf
    <3> QED
      BY <1>3, <1>5, <3>2
  <2> QED
    BY <2>1, <2>2
<1>8. \A i, j \in DOMAIN hits : KeyOf(hits[i]) = KeyOf(hits[j]) => i = j
  BY <1>2, <1>3, <1>5 DEF IsMergeOf
<1>9. \A i \in DOMAIN hits : IsBest(hits[i], Offers(KeyOf(hits[i])))
  BY <1>5, <1>6, MergedIsBest DEF P
<1>10. \A i, j \in DOMAIN hits : i < j => Before(hits[i], hits[j])
  BY <1>2, <1>5
<1> QED
  BY <1>7, <1>8, <1>9, <1>10 DEF AnswerIsBestOffers, KeyOf, hits

\* An answer that is not degraded misses nothing.
LEMMA WholeAnswersMissNothing ==
  ASSUME GatewayInv, AnswerInv, search.at = "answered", ~answered.degraded,
         NEW q \in Enrolled, NEW i \in DOMAIN Found(q, search.query)
  PROVE  \E k \in DOMAIN answered.hits :
           Key[answered.hits[k].name] = Key[Found(q, search.query)[i].name]
<1> DEFINE hit == Found(q, search.query)[i]
<1>1. hit \in Listed /\ hit.name \in DOMAIN Key
  <2>1. search.query \in Queries \ {Blank} /\ q \in Providers
    BY DEF AnswerInv, GatewayInv, GatewayTypes, Enrolled
  <2>2. Found(q, search.query) \in Seq(Listed)
    BY <2>1, CorpusAssumption
  <2>3. hit \in Listed
    BY <2>2
  <2> QED
    BY <2>3, CorpusAssumption
<1>2. InTime(q)
  <2>1. PICK j \in DOMAIN registry : registry[j] = q
    BY DEF Enrolled
  <2>2. ~Degraded(Reports)
    BY DEF GatewayInv, AnsweredInv
  <2> QED
    BY <2>1, <2>2 DEF Degraded, Reports, InTime
<1>3. <<q, hit>> \in Offers(Key[hit.name])
  BY <1>1, <1>2 DEF Offers
<1>4. Key[hit.name] \in {Key[answered.hits[k].name] : k \in DOMAIN answered.hits}
  <2>1. {Key[answered.hits[k].name] : k \in DOMAIN answered.hits}
           = {k \in {Key[n] : n \in DOMAIN Key} : Offers(k) # {}}
    BY AnswersAreBest DEF AnswerIsBestOffers
  <2> QED
    BY <1>1, <1>3, <2>1
<1> QED
  BY <1>4

\* The gateway's answer is a ranking in every reachable state.
THEOREM AnswerInvariance == Spec => []AnswerInv
<1>1. Init => AnswerInv
  BY AnswerInitInv DEF Init
<1>2. GatewayInv /\ AnswerInv /\ [Next]_labVars => AnswerInv'
  <2>1. [Next]_labVars => [GatewayNext]_gatewayVars
    BY DEF Next, labVars, BesidesCqrs, BesidesOutbox
  <2> QED
    BY <2>1, AnswerNextInv
<1> QED
  BY GatewayInvariance, <1>1, <1>2, PTL DEF Spec

\* The answer of the gateway holds every product offered in time once, at its
\* lowest price, with the id that goes with it and all who offered it,
\* cheapest first; the order in which the branches came in does not matter.
THEOREM BestOffersAreAnswered == Spec => []AnswerIsBestOffers
<1>1. GatewayInv /\ AnswerInv => AnswerIsBestOffers
  BY AnswersAreBest
<1> QED
  BY GatewayInvariance, AnswerInvariance, <1>1, PTL

\* The reports are true, and an answer that is not degraded misses nothing
\* (scatter.rs, "completeness is data").
THEOREM CompletenessIsKept == Spec => []CompletenessIsTold
<1>1. ReportsAreTrue /\ GatewayInv /\ AnswerInv => CompletenessIsTold
  BY WholeAnswersMissNothing DEF CompletenessIsTold
<1> QED
  BY GatewayInvariance, AnswerInvariance, ReportsAreKept, <1>1, PTL

-----------------------------------------------------------------------------
(* src/bff, src/microservices and src/modular-monolith.                    *)

\* The user of an order and the product of a line are at their services, or
\* were there and have been forgotten; in the monolith they are there.
UserWasThere(k) == Checkout[k].user \in people \cup forgotten
ProductWasThere(k, i) == Lines(k)[i].product \in range \cup forgotten
UserIsThere(k) == UserWasThere(k) /\ (Apart \/ Checkout[k].user \in people)
ProductIsThere(k, i) == ProductWasThere(k, i) /\ (Apart \/ Lines(k)[i].product \in range)

\* The first lines of an order, as many as there are unit prices.
RungUp(k, units, sum) ==
  /\ Lines(k) # <<>> /\ Len(units) <= Len(Lines(k))
  /\ UserIsThere(k) /\ \A i \in 1..Len(units) : ProductIsThere(k, i)
  /\ Exactly(Lines(k), units) \in Nat
  /\ sum = Exactly(Lines(k), units) % Modulus

TillTypes ==
  /\ till \in [Checkouts -> [at : {"new", "asking", "pricing", "replying", "done"},
                             units : Seq(Nat), sum : Nat,
                             reply : {"none", "200", "400", "500", "unreachable"}]]
  /\ book \in [Checkouts -> [units : Seq(Nat), sum : Nat]]
  /\ DOMAIN told = Checkouts

TillInv(k) ==
  /\ till[k].at \in {"new", "asking"} => till[k].units = <<>> /\ till[k].sum = 0
  /\ till[k].at = "asking" => Lines(k) # <<>>
  /\ till[k].at = "pricing" => RungUp(k, till[k].units, till[k].sum)
  /\ till[k].at = "replying" /\ till[k].reply = "200" => Held(k)
  /\ Held(k) => /\ RungUp(k, book[k].units, book[k].sum)
                /\ Len(book[k].units) = Len(Lines(k))
                /\ \/ till[k].at = "replying" /\ till[k].reply = "200"
                   \/ till[k].at = "done" /\ (told[k] = "200" \/ k \in unanswered)
  /\ till[k].at # "done" => told[k] = "none"
  /\ told[k] = "200" => Held(k) \/ k \in forgotten

PageFields == {"at", "customer", "names", "status", "count"}

IsLooking(g) ==
  LET k == Order(g) IN
  /\ page[g].status = "none"
  /\ Held(k) \/ k \in forgotten
  /\ UserWasThere(k) /\ \A i \in DOMAIN Lines(k) : ProductWasThere(k, i)
  /\ page[g].names \in [DOMAIN Lines(k) -> Products \cup {"none"}]
  /\ \A i \in DOMAIN Lines(k) : page[g].names[i] \in {"none", Lines(k)[i].product}

HasACause(g) ==
  LET k == Order(g) IN
  /\ page[g].status = "404" => k \in forgotten
  /\ page[g].status = "500" =>
       \/ g \in unanswered \/ Checkout[k].user \in forgotten
       \/ Page[g].via = "web" /\ \E i \in DOMAIN Lines(k) : Lines(k)[i].product \in forgotten

IsTrue(g) ==
  page[g].status = "200" =>
    LET k == Order(g) IN
    /\ Held(k) \/ k \in forgotten
    /\ Page[g].via = "web" => page[g].names = [i \in DOMAIN Lines(k) |-> Lines(k)[i].product]
    /\ Page[g].via = "mobile" => page[g].count = Items(k) % 2^CountWidth

PageInv(g) ==
  /\ DOMAIN page[g] = PageFields
  /\ page[g].at \in {"new", "looking", "done"}
  /\ page[g].at = "new" => page[g].status = "none"
  /\ page[g].at = "looking" => IsLooking(g)
  /\ HasACause(g) /\ IsTrue(g)

PagesInv == /\ TillTypes /\ DOMAIN page = Pages
            /\ \A k \in Checkouts : TillInv(k)
            /\ \A g \in Pages : PageInv(g)

\* The items are counted one after the other; it comes to their sum.
IsItemTable(t, f, S) == t = [s \in SUBSET S |-> IF s = {} THEN 0 ELSE t[s \ {Max(s)}] + f[Max(s)].quantity]

\* The fold of the library is an entry of such a table.
LEMMA ItemsUnfold ==
  ASSUME NEW k
  PROVE  Items(k) = (CHOOSE t : IsItemTable(t, Lines(k), DOMAIN Lines(k)))[DOMAIN Lines(k)]
BY DEF Items, FoldLeft, MapThenFoldSet, IsItemTable

\* Counting items line by line comes to the sum of the quantities.
LEMMA ItemsAreCounted ==
  ASSUME NEW k, Lines(k) \in Seq(Line)
  PROVE  Items(k) = SumFunctionOnSet([i \in DOMAIN Lines(k) |-> Lines(k)[i].quantity], DOMAIN Lines(k))
<1> DEFINE lines == Lines(k)
           S == DOMAIN lines
           f == [i \in S |-> lines[i].quantity]
<1>1. IsFiniteSet(S) /\ S \subseteq Nat /\ \A i \in S : f[i] = lines[i].quantity /\ f[i] \in Nat
  <2>1. /\ S = 1..Len(lines) /\ Len(lines) \in Nat /\ \A i \in S : lines[i] \in Line
    OBVIOUS
  <2>2. IsFiniteSet(S)
    BY <2>1, FS_Interval
  <2> QED
    BY <2>1, <2>2 DEF Line
<1> HIDE DEF f, S, lines
<1>2. \A s \in SUBSET S : IsFiniteSet(s) /\ SumFunctionOnSet(f, s) \in Nat
                            /\ (s # {} => Max(s) \in s /\ s \ {Max(s)} \in SUBSET S
                                           /\ s \ {Max(s)} # s)
  <2> SUFFICES ASSUME NEW s \in SUBSET S
               PROVE  IsFiniteSet(s) /\ SumFunctionOnSet(f, s) \in Nat
                            /\ (s # {} => Max(s) \in s /\ s \ {Max(s)} \in SUBSET S
                                           /\ s \ {Max(s)} # s)
    OBVIOUS
  <2>1. IsFiniteSet(s)
    BY <1>1, FS_Subset
  <2>2. SumFunctionOnSet(f, s) \in Nat
    BY <1>1, <2>1, SumNat
  <2>3. s # {} => Max(s) \in s
    BY <1>1, <2>1, MaxIsIn
  <2> QED
    BY <2>1, <2>2, <2>3
<1>3. \A s \in SUBSET S : SumFunctionOnSet(f, s) =
         IF s = {} THEN 0 ELSE SumFunctionOnSet(f, s \ {Max(s)}) + lines[Max(s)].quantity
  <2> SUFFICES ASSUME NEW s \in SUBSET S
               PROVE  SumFunctionOnSet(f, s) =
                 IF s = {} THEN 0 ELSE SumFunctionOnSet(f, s \ {Max(s)}) + lines[Max(s)].quantity
    OBVIOUS
  <2>1. CASE s = {}
    BY <2>1, SumEmpty
  <2>2. CASE s # {}
    <3>1. IsFiniteSet(s) /\ Max(s) \in s /\ \A x \in s : f[x] \in Nat
      BY <1>1, <1>2, <2>2
    <3>2. SumFunctionOnSet(f, s) = f[Max(s)] + SumFunctionOnSet(f, s \ {Max(s)})
      BY <3>1, SumRemove
    <3>3. /\ SumFunctionOnSet(f, s \ {Max(s)}) \in Nat
          /\ f[Max(s)] = lines[Max(s)].quantity /\ f[Max(s)] \in Nat
      BY <1>1, <1>2, <2>2, <3>1
    <3> QED
      BY <2>2, <3>2, <3>3
  <2> QED
    BY <2>1, <2>2
<1> DEFINE sums == [s \in SUBSET S |-> SumFunctionOnSet(f, s)]
<1>4. IsItemTable(sums, lines, S)
  <2>1. \A s \in SUBSET S : sums[s] = IF s = {} THEN 0 ELSE sums[s \ {Max(s)}] + lines[Max(s)].quantity
    BY <1>2, <1>3
  <2>2. sums = [s \in SUBSET S |-> sums[s]]
    OBVIOUS
  <2> HIDE DEF sums
  <2> QED
    BY <2>1, <2>2 DEF IsItemTable
<1>5. ASSUME NEW t, IsItemTable(t, lines, S) PROVE t[S] = SumFunctionOnSet(f, S)
  <2>1. \A s \in SUBSET S : t[s] = IF s = {} THEN 0 ELSE t[s \ {Max(s)}] + lines[Max(s)].quantity
    BY <1>5 DEF IsItemTable
  <2> DEFINE Bad == {s \in SUBSET S : t[s] # SumFunctionOnSet(f, s)}
  <2> SUFFICES ASSUME Bad # {} PROVE FALSE
    OBVIOUS
  <2>2. PICK T \in Bad : \A U \in SUBSET T : U # T => U \notin Bad
    <3>1. Bad \subseteq SUBSET S
      OBVIOUS
    <3> HIDE DEF Bad
    <3> QED
      BY <1>1, <3>1, SmallestSubset
  <2>3. T # {} => t[T \ {Max(T)}] = SumFunctionOnSet(f, T \ {Max(T)})
    BY <1>2, <2>2
  <2> QED
    BY <1>3, <2>1, <2>2, <2>3
<1> DEFINE u == CHOOSE t : IsItemTable(t, lines, S)
<1>6. IsItemTable(u, lines, S)
  <2> HIDE DEF sums
  <2> QED
    BY <1>4
<1>7. u[S] = SumFunctionOnSet(f, S)
  <2> HIDE DEF u
  <2> QED
    BY <1>5, <1>6
<1>8. Items(k) = u[S]
  BY ItemsUnfold DEF lines, S
<1> QED
  BY <1>7, <1>8 DEF f, S, lines

\* No request, no user, no product.
LEMMA PagesInitInv == OrderPagesInit => PagesInv
<1> SUFFICES ASSUME OrderPagesInit PROVE PagesInv
  OBVIOUS
<1>1. TillTypes
  <2>1. <<>> \in Seq(Nat)
    OBVIOUS
  <2> QED
    BY <2>1 DEF OrderPagesInit, TillTypes, Fresh, NoOrder
<1>2. \A k \in Checkouts : TillInv(k)
  BY DEF OrderPagesInit, TillInv, Fresh, NoOrder, Held
<1>3. DOMAIN page = Pages /\ \A g \in Pages : PageInv(g)
  BY DEF OrderPagesInit, PageInv, EmptyPage, PageFields, HasACause, IsTrue
<1> QED
  BY <1>1, <1>2, <1>3 DEF PagesInv

\* Services may forget users and products; the monolith forgets them together
\* with the orders.
PlacesKept == /\ people \cup forgotten \subseteq (people \cup forgotten)'
              /\ range \cup forgotten \subseteq (range \cup forgotten)'
              /\ UNCHANGED style

\* What was rung up stays known while nothing is forgotten for good.
LEMMA PlacesStay ==
  ASSUME PlacesKept, Apart \/ (people \subseteq people' /\ range \subseteq range')
  PROVE  \A k, units, sum : RungUp(k, units, sum) => RungUp(k, units, sum)'
<1>1. Apart' = Apart
  BY DEF PlacesKept, Apart
<1>2. \A k : UserIsThere(k) => UserIsThere(k)'
  BY <1>1 DEF PlacesKept, UserIsThere, UserWasThere
<1>3. \A k, i : ProductIsThere(k, i) => ProductIsThere(k, i)'
  BY <1>1 DEF PlacesKept, ProductIsThere, ProductWasThere
<1> QED
  BY <1>2, <1>3 DEF RungUp

\* A page nobody touches ...
LEMMA PageStays ==
  ASSUME NEW g \in Pages, PageInv(g), page'[g] = page[g], PlacesKept,
         forgotten \subseteq forgotten', unanswered \subseteq unanswered',
         \A k \in Checkouts : Held(k) \/ k \in forgotten => (Held(k) \/ k \in forgotten)'
  PROVE  PageInv(g)'
<1>1. Order(g) \in Checkouts
  BY OrderPagesAssumption DEF Order
<1>2. IsLooking(g) => IsLooking(g)'
  BY <1>1 DEF IsLooking, PlacesKept, UserWasThere, ProductWasThere
<1>3. HasACause(g) => HasACause(g)'
  BY DEF HasACause
<1>4. IsTrue(g) => IsTrue(g)'
  BY <1>1 DEF IsTrue
<1> QED
  BY <1>2, <1>3, <1>4 DEF PageInv

\* ... and a request nobody touches.
LEMMA TillStays ==
  ASSUME NEW k \in Checkouts, TillInv(k), till'[k] = till[k], told'[k] = told[k], book'[k] = book[k],
         PlacesKept, Apart \/ (people \subseteq people' /\ range \subseteq range'),
         forgotten \subseteq forgotten', unanswered \subseteq unanswered'
  PROVE  TillInv(k)'
BY PlacesStay DEF TillInv, Held

\* A step that leaves the requests, the orders and the pages alone.
LEMMA PagesStutterInv ==
  ASSUME PagesInv, UNCHANGED <<till, told, book, page>>,
         PlacesKept, Apart \/ (people \subseteq people' /\ range \subseteq range'),
         forgotten \subseteq forgotten', unanswered \subseteq unanswered'
  PROVE  PagesInv'
<1>1. TillTypes' /\ DOMAIN page' = Pages
  BY DEF PagesInv, TillTypes
<1>2. \A k \in Checkouts : TillInv(k)'
  BY TillStays DEF PagesInv
<1>3. \A g \in Pages : PageInv(g)'
  BY PageStays DEF PagesInv, Held
<1> QED
  BY <1>1, <1>2, <1>3 DEF PagesInv

\* orders-service, or everything, starts anew.
LEMMA DropInv ==
  ASSUME PagesInv, DropOrders, UNCHANGED <<told, page, unanswered>>, PlacesKept,
         forgotten \subseteq forgotten', Kept \subseteq forgotten'
  PROVE  PagesInv'
<1>1. /\ book' = [k \in Checkouts |-> NoOrder]
      /\ till' = [k \in Checkouts |-> IF till[k].at \in {"asking", "pricing", "replying"}
                THEN [till[k] EXCEPT !.at = "replying", !.reply = "unreachable"] ELSE till[k]]
  BY DEF DropOrders
<1>2. \A k \in Checkouts : ~Held(k)' /\ (Held(k) => k \in forgotten')
  BY <1>1 DEF Held, Kept
<1>3. ASSUME NEW k \in Checkouts
      PROVE  /\ till'[k] \in [at : {"new", "asking", "pricing", "replying", "done"},
                              units : Seq(Nat), sum : Nat,
                              reply : {"none", "200", "400", "500", "unreachable"}]
             /\ till'[k].at \notin {"asking", "pricing"}
             /\ till'[k].at = "new" => till'[k] = till[k]
             /\ till'[k].at = "replying" => till'[k].reply # "200"
             /\ till'[k].at = "done" <=> till[k].at = "done"
  <2> DEFINE new == [[till[k] EXCEPT !.at = "replying"] EXCEPT !.reply = "unreachable"]
  <2>1. new \in [at : {"new", "asking", "pricing", "replying", "done"},
                 units : Seq(Nat), sum : Nat, reply : {"none", "200", "400", "500", "unreachable"}]
        /\ new.at = "replying" /\ new.reply = "unreachable"
    BY DEF PagesInv, TillTypes
  <2>2. till'[k] = IF till[k].at \in {"asking", "pricing", "replying"} THEN new ELSE till[k]
    BY <1>1
  <2> HIDE DEF new
  <2> QED
    BY <2>1, <2>2 DEF PagesInv, TillTypes
<1>4. TillTypes'
  <2>1. book' \in [Checkouts -> [units : Seq(Nat), sum : Nat]]
    <3>1. NoOrder \in [units : Seq(Nat), sum : Nat]
      BY DEF NoOrder
    <3> QED
      BY <1>1, <3>1
  <2>2. till' = [k \in Checkouts |-> till'[k]]
    BY <1>1
  <2> QED
    BY <1>3, <2>1, <2>2 DEF PagesInv, TillTypes
<1>5. \A k \in Checkouts : TillInv(k)'
  BY <1>2, <1>3 DEF PagesInv, TillInv
<1>6. \A g \in Pages : PageInv(g)'
  BY <1>2, PageStays DEF PagesInv
<1> QED
  BY <1>4, <1>5, <1>6 DEF PagesInv

\* A request at orders-service comes to an end ...
LEMMA EndTypes ==
  ASSUME TillTypes, NEW k \in Checkouts, NEW reply \in {"200", "400", "500", "unreachable"},
         End(k, reply), UNCHANGED told, book' \in [Checkouts -> [units : Seq(Nat), sum : Nat]]
  PROVE  /\ TillTypes'
         /\ till'[k].at = "replying" /\ till'[k].reply = reply
         /\ \A j \in Checkouts : j # k => till'[j] = till[j]
<1> DEFINE new == [[till[k] EXCEPT !.at = "replying"] EXCEPT !.reply = reply]
<1>1. new \in [at : {"new", "asking", "pricing", "replying", "done"},
               units : Seq(Nat), sum : Nat, reply : {"none", "200", "400", "500", "unreachable"}]
      /\ new.at = "replying" /\ new.reply = reply
  BY DEF TillTypes
<1>2. till' = [till EXCEPT ![k] = new]
  BY DEF End, TillTypes
<1> HIDE DEF new
<1> QED
  BY <1>1, <1>2 DEF TillTypes

\* ... or goes on.
LEMMA StepTypes ==
  ASSUME TillTypes, NEW k \in Checkouts, NEW where \in {"asking", "pricing", "done"},
         Step(k, where), UNCHANGED book, DOMAIN told' = Checkouts
  PROVE  /\ TillTypes'
         /\ till'[k].at = where /\ till'[k].reply = till[k].reply
         /\ till'[k].units = till[k].units /\ till'[k].sum = till[k].sum
         /\ \A j \in Checkouts : j # k => till'[j] = till[j]
<1> DEFINE new == [till[k] EXCEPT !.at = where]
<1>1. new \in [at : {"new", "asking", "pricing", "replying", "done"},
               units : Seq(Nat), sum : Nat, reply : {"none", "200", "400", "500", "unreachable"}]
      /\ new.at = where /\ new.reply = till[k].reply
      /\ new.units = till[k].units /\ new.sum = till[k].sum
  BY DEF TillTypes
<1>2. till' = [till EXCEPT ![k] = new]
  BY DEF Step, TillTypes
<1> HIDE DEF new
<1> QED
  BY <1>1, <1>2 DEF TillTypes

\* What is left to show when the till has dealt with k.
LEMMA AtTheTill ==
  ASSUME PagesInv, NEW k \in Checkouts, TillTypes', TillInv(k)',
         \A j \in Checkouts : j # k => till'[j] = till[j] /\ told'[j] = told[j] /\ book'[j] = book[j],
         Held(k) => Held(k)', UNCHANGED <<style, people, range, page, forgotten>>,
         unanswered \subseteq unanswered'
  PROVE  PagesInv'
<1>1. PlacesKept
  BY DEF PlacesKept
<1>2. \A j \in Checkouts : TillInv(j)'
  BY <1>1, TillStays DEF PagesInv
<1>3. \A j \in Checkouts : Held(j) => Held(j)'
  BY DEF Held
<1>4. \A g \in Pages : PageInv(g)'
  BY <1>1, <1>3, PageStays DEF PagesInv
<1> QED
  BY <1>2, <1>4 DEF PagesInv

\* A request that ends without an order.
LEMMA EndInv ==
  ASSUME PagesInv, NEW k \in Checkouts, till[k].at \in {"new", "asking", "pricing"},
         NEW reply \in {"400", "500", "unreachable"}, End(k, reply),
         UNCHANGED <<style, people, range, book, told, page, forgotten>>,
         unanswered \subseteq unanswered'
  PROVE  PagesInv'
<1>1. /\ TillTypes' /\ till'[k].at = "replying" /\ till'[k].reply = reply
      /\ \A j \in Checkouts : j # k => till'[j] = till[j]
  BY EndTypes DEF PagesInv, TillTypes
<1>2. TillInv(k)'
  BY <1>1 DEF PagesInv, TillInv, Held
<1> QED
  BY <1>1, <1>2, AtTheTill DEF Held

\* service.rs place: the lines are looked at.
LEMMA SubmitInv ==
  ASSUME PagesInv, NEW k \in Checkouts, Submit(k)
  PROVE  PagesInv'
<1>1. till[k].at = "new"
  BY DEF Submit
<1>2. CASE End(k, OrdersStatus.Validation) /\ TillOnly
  BY <1>1, <1>2, EndInv DEF OrdersStatus, TillOnly, stores, built, spent
<1>3. CASE Lines(k) # <<>> /\ Step(k, "asking") /\ TillOnly
  <2>1. UNCHANGED <<style, people, range, book, told, page, unanswered, forgotten>>
    BY <1>3 DEF TillOnly, stores, built, spent
  <2>2. /\ TillTypes' /\ till'[k].at = "asking"
        /\ till'[k].units = till[k].units /\ till'[k].sum = till[k].sum
        /\ \A j \in Checkouts : j # k => till'[j] = till[j]
    BY <1>3, <2>1, StepTypes DEF PagesInv, TillTypes
  <2>3. TillInv(k)'
    BY <1>1, <1>3, <2>1, <2>2 DEF PagesInv, TillInv, Held, Lines
  <2> QED
    BY <2>1, <2>2, <2>3, AtTheTill DEF Held
<1>4. CASE Hiccup(k) /\ End(k, "unreachable") /\ UNCHANGED <<built, stores, told, page>>
  BY <1>1, <1>4, EndInv DEF Hiccup, stores, built
<1> QED
  BY <1>2, <1>3, <1>4 DEF Submit

\* A call to another service fails.
LEMMA CallFailsInv ==
  ASSUME PagesInv, NEW k \in Checkouts, till[k].at \in {"asking", "pricing"}, CallFails(k)
  PROVE  PagesInv'
BY EndInv DEF CallFails, Hiccup, stores, built, OrdersStatus

\* The user is asked for.
LEMMA AskUserInv ==
  ASSUME PagesInv, NEW k \in Checkouts, AskUser(k)
  PROVE  PagesInv'
<1>1. till[k].at = "asking"
  BY DEF AskUser
<1>2. CASE Exists(Checkout[k].user) /\ Step(k, "pricing") /\ TillOnly
  <2>1. UNCHANGED <<style, people, range, book, told, page, unanswered, forgotten>>
    BY <1>2 DEF TillOnly, stores, built, spent
  <2>2. /\ TillTypes' /\ till'[k].at = "pricing"
        /\ till'[k].units = till[k].units /\ till'[k].sum = till[k].sum
        /\ \A j \in Checkouts : j # k => till'[j] = till[j]
    BY <1>2, <2>1, StepTypes DEF PagesInv, TillTypes
  <2>3. RungUp(k, <<>>, 0)
    <3>1. Lines(k) # <<>> /\ Lines(k) \in Seq(Line)
      BY <1>1, OrderPagesAssumption DEF PagesInv, TillInv, Lines
    <3>2. Len(<<>>) <= Len(Lines(k)) /\ 1..Len(<<>>) = {}
      BY <3>1
    <3>3. Exactly(Lines(k), <<>>) = 0 /\ 0 % Modulus = 0
      BY ExactlyNothing, ModulusAssumption, ModSmall
    <3>4. UserIsThere(k)
      BY <1>2 DEF Exists, UserIsThere, UserWasThere
    <3> QED
      BY <3>1, <3>2, <3>3, <3>4 DEF RungUp
  <2>4. RungUp(k, till[k].units, till[k].sum)'
    <3>1. till'[k].units = <<>> /\ till'[k].sum = 0
      BY <1>1, <2>2 DEF PagesInv, TillInv
    <3> QED
      BY <2>1, <2>3, <3>1
      DEF RungUp, UserIsThere, ProductIsThere, UserWasThere, ProductWasThere, Apart, Lines
  <2>5. TillInv(k)'
    BY <1>1, <2>1, <2>2, <2>4 DEF PagesInv, TillInv, Held
  <2> QED
    BY <2>1, <2>2, <2>5, AtTheTill DEF Held
<1>3. CASE End(k, OrdersStatus.Validation) /\ TillOnly
  BY <1>1, <1>3, EndInv DEF OrdersStatus, TillOnly, stores, built, spent
<1>4. CASE CallFails(k)
  BY <1>1, <1>4, CallFailsInv
<1> QED
  BY <1>2, <1>3, <1>4 DEF AskUser

\* One line more is rung up: the sum stays that of the lines so far.
LEMMA AskPriceInv ==
  ASSUME PagesInv, NEW k \in Checkouts, AskPrice(k)
  PROVE  PagesInv'
<1> DEFINE line == LineToPrice(k)
           unit == PriceAt(line.product)
           worth == unit * line.quantity
           units == till[k].units
           more == Append(units, unit)
           sum == (till[k].sum + worth) % Modulus
           lines == Lines(k)
<1>1. till[k].at = "pricing" /\ Len(units) < Len(lines)
  BY DEF AskPrice, MoreLines
<1>2. CASE \E reply \in {"400", "500", "unreachable"} : End(k, reply) /\ TillOnly
  BY <1>1, <1>2, EndInv DEF TillOnly, stores, built, spent
<1>3. CASE CallFails(k)
  BY <1>1, <1>3, CallFailsInv
<1>4. CASE /\ line.quantity > 0 /\ unit > 0
           /\ till' = [till EXCEPT ![k].units = Append(@, unit), ![k].sum = sum]
           /\ TillOnly
  <2>1. UNCHANGED <<style, people, range, book, told, page, unanswered, forgotten>>
    BY <1>4 DEF TillOnly, stores, built, spent
  <2>2. lines \in Seq(Line) /\ units \in Seq(Nat) /\ till[k].sum \in Nat /\ Modulus \in Nat \ {0}
    BY OrderPagesAssumption, ModulusAssumption DEF PagesInv, TillTypes, Lines
  <2>3. /\ Len(units) + 1 \in 1..Len(lines) /\ line = lines[Len(units) + 1] /\ line \in Line
        /\ line.quantity \in Nat /\ line.product \in Products
    <3>1. Len(units) + 1 \in 1..Len(lines)
      BY <1>1, <2>2
    <3>2. lines[Len(units) + 1] \in Line
      BY <2>2, <3>1
    <3>3. line = lines[Len(units) + 1]
      BY DEF LineToPrice
    <3> HIDE DEF line
    <3> QED
      BY <3>1, <3>2, <3>3 DEF Line
  <2>4. unit \in Nat /\ line.product \in range
    <3>1. Price[line.product] \in Nat
      BY <2>3, OrderPagesAssumption
    <3> QED
      BY <1>4, <3>1 DEF PriceAt
  <2>5. worth \in Nat
    <3>1. \A x, y \in Nat : x * y \in Nat
      OBVIOUS
    <3> QED
      BY <2>3, <2>4, <3>1
  <2>6. RungUp(k, units, till[k].sum)
    BY <1>1 DEF PagesInv, TillInv
  <2> DEFINE before == Exactly(lines, units)
             after == Exactly(lines, more)
  <2>7. before \in Nat /\ after = before + worth
    BY <1>1, <2>2, <2>3, <2>4, ExactlyAppend
  <2>8. till[k].sum = before % Modulus
    BY <2>6 DEF RungUp
  <2> HIDE DEF before, after
  <2>9. sum = after % Modulus /\ sum \in Nat /\ after \in Nat
    <3>1. sum = ((before % Modulus) + worth) % Modulus
      BY <2>8
    <3>2. ((before % Modulus) + worth) % Modulus = (before + worth) % Modulus
      BY <2>2, <2>5, <2>7, ModAdd
    <3>3. after \in Nat
      BY <2>5, <2>7
    <3> QED
      BY <2>2, <2>7, <3>1, <3>2, <3>3, ModNat
  <2>10. more \in Seq(Nat) /\ Len(more) = Len(units) + 1 /\ Len(more) <= Len(lines) /\ Len(units) \in Nat
    <3>1. units \in Seq(Nat) /\ lines \in Seq(Line)
      BY <2>2
    <3> HIDE DEF units, unit, lines
    <3> QED
      BY <1>1, <2>4, <3>1
  <2>11. \A i \in 1..Len(more) : ProductIsThere(k, i)
    <3>1. ProductIsThere(k, Len(units) + 1)
      BY <2>3, <2>4 DEF ProductIsThere, ProductWasThere
    <3>2. \A i \in 1..Len(more) : i \in 1..Len(units) \/ i = Len(units) + 1
      <4> HIDE DEF units, more
      <4> QED
        BY <2>10
    <3> QED
      BY <2>6, <3>1, <3>2 DEF RungUp
  <2>12. RungUp(k, more, sum)
    BY <2>6, <2>9, <2>10, <2>11 DEF RungUp, after
  <2> DEFINE new == [[till[k] EXCEPT !.units = more] EXCEPT !.sum = sum]
  <2>13. till' = [till EXCEPT ![k] = new]
    BY <1>4 DEF PagesInv, TillTypes
  <2> HIDE DEF sum, more
  <2>14. /\ new \in [at : {"new", "asking", "pricing", "replying", "done"},
                     units : Seq(Nat), sum : Nat, reply : {"none", "200", "400", "500", "unreachable"}]
         /\ new.at = "pricing" /\ new.units = more /\ new.sum = sum
    BY <1>1, <2>9, <2>10 DEF PagesInv, TillTypes
  <2> HIDE DEF new
  <2>15. /\ TillTypes' /\ till'[k] = new
         /\ \A j \in Checkouts : j # k => till'[j] = till[j]
    BY <2>1, <2>13, <2>14 DEF PagesInv, TillTypes
  <2>16. RungUp(k, till[k].units, till[k].sum)'
    BY <2>1, <2>12, <2>14, <2>15
       DEF RungUp, UserIsThere, ProductIsThere, UserWasThere, ProductWasThere, Apart, Lines
  <2>17. TillInv(k)'
    BY <1>1, <2>1, <2>14, <2>15, <2>16 DEF PagesInv, TillInv, Held
  <2> QED
    BY <2>1, <2>15, <2>17, AtTheTill DEF Held
<1> QED
  BY <1>2, <1>3, <1>4 DEF AskPrice, OrdersStatus

\* The order is kept, and its reply is on its way.
LEMMA InsertInv ==
  ASSUME PagesInv, NEW k \in Checkouts, Insert(k)
  PROVE  PagesInv'
<1> DEFINE order == [units |-> till[k].units, sum |-> till[k].sum]
<1>1. /\ till[k].at = "pricing" /\ Len(till[k].units) = Len(Lines(k))
      /\ book' = [book EXCEPT ![k] = order]
      /\ End(k, "200")
      /\ UNCHANGED <<style, people, range, told, page, unanswered, forgotten>>
  BY DEF Insert, OrdersStatus, built, spent
<1>2. /\ RungUp(k, till[k].units, till[k].sum)
      /\ till[k].units \in Seq(Nat) /\ till[k].sum \in Nat /\ Lines(k) \in Seq(Line)
  BY <1>1, OrderPagesAssumption DEF PagesInv, TillInv, TillTypes, Lines
<1>3. till[k].units # <<>>
  BY <1>1, <1>2 DEF RungUp
<1>4. /\ book' \in [Checkouts -> [units : Seq(Nat), sum : Nat]]
      /\ book'[k].units = till[k].units /\ book'[k].sum = till[k].sum /\ book'[k] # NoOrder
      /\ \A j \in Checkouts : j # k => book'[j] = book[j]
  BY <1>1, <1>2, <1>3 DEF PagesInv, TillTypes, NoOrder
<1>5. /\ TillTypes' /\ till'[k].at = "replying" /\ till'[k].reply = "200"
      /\ \A j \in Checkouts : j # k => till'[j] = till[j]
  BY <1>1, <1>4, EndTypes DEF PagesInv
<1>6. RungUp(k, book[k].units, book[k].sum)'
  BY <1>1, <1>2, <1>4
  DEF RungUp, UserIsThere, ProductIsThere, UserWasThere, ProductWasThere, Apart, Lines
<1>7. Held(k)' /\ TillInv(k)'
  BY <1>1, <1>4, <1>5, <1>6 DEF PagesInv, TillInv, Held
<1> QED
  BY <1>1, <1>4, <1>5, <1>7, AtTheTill DEF Held

\* The client is told; only a reply of 200 is passed on as 200.
LEMMA ReplyInv ==
  ASSUME PagesInv, NEW k \in Checkouts, Reply(k)
  PROVE  PagesInv'
<1>1. /\ till[k].at = "replying" /\ Step(k, "done")
      /\ UNCHANGED <<style, people, range, book, page, forgotten>>
      /\ unanswered \subseteq unanswered'
      /\ \/ told' = [told EXCEPT ![k] = PassedOn(Checkout[k].via, till[k].reply)]
         \/ k \in unanswered' /\ told' = [told EXCEPT ![k] = "500"]
  BY DEF Reply, Hiccup, BffStatus, built, stores, spent
<1>2. \A j \in Checkouts : j # k => told'[j] = told[j]
  BY <1>1 DEF PagesInv, TillTypes
<1>3. DOMAIN told' = Checkouts /\ told[k] = "none"
  BY <1>1 DEF PagesInv, TillTypes, TillInv
<1>4. /\ TillTypes' /\ till'[k].at = "done" /\ till'[k].reply = till[k].reply
      /\ \A j \in Checkouts : j # k => till'[j] = till[j]
  BY <1>1, <1>3, StepTypes DEF PagesInv
<1>5. Checkout[k].via \in {"web", "mobile", "direct"}
  BY OrderPagesAssumption
<1>6. till[k].reply = "200" => PassedOn(Checkout[k].via, till[k].reply) = "200"
  BY <1>5 DEF PassedOn, WebPlace, MobilePlace, OrdersStatus, BffStatus
<1>7. PassedOn(Checkout[k].via, till[k].reply) = "200" => till[k].reply = "200"
  BY <1>5 DEF PassedOn, WebPlace, MobilePlace, OrdersStatus, BffStatus
<1>8. /\ told'[k] = "200" => till[k].reply = "200"
      /\ till[k].reply = "200" => told'[k] = "200" \/ k \in unanswered'
  <2>1. DOMAIN told = Checkouts
    BY DEF PagesInv, TillTypes
  <2> QED
    BY <1>1, <1>6, <1>7, <2>1
<1>9. RungUp(k, book[k].units, book[k].sum) => RungUp(k, book[k].units, book[k].sum)'
  BY <1>1 DEF RungUp, UserIsThere, ProductIsThere, UserWasThere, ProductWasThere, Apart, Lines
<1>10. TillInv(k)'
  BY <1>1, <1>4, <1>8, <1>9 DEF PagesInv, TillInv, Held
<1> QED
  BY <1>1, <1>2, <1>4, <1>10, AtTheTill DEF Held

\* What is left to show when one page goes on, and when it ends with an error.
LEMMA AtThePage ==
  ASSUME PagesInv, NEW g \in Pages, DOMAIN page' = Pages, PageInv(g)',
         \A h \in Pages : h # g => page'[h] = page[h],
         UNCHANGED <<style, people, range, book, till, told, forgotten>>,
         unanswered \subseteq unanswered'
  PROVE  PagesInv'
<1>1. PlacesKept
  BY DEF PlacesKept
<1>2. TillTypes' /\ \A k \in Checkouts : TillInv(k)'
  BY <1>1, TillStays DEF PagesInv, TillTypes
<1>3. \A h \in Pages : PageInv(h)'
  BY <1>1, PageStays DEF PagesInv, Held
<1> QED
  BY <1>2, <1>3 DEF PagesInv

\* How a page looks when it ends.
LEMMA ShowTypes ==
  ASSUME PagesInv, NEW g \in Pages, NEW status, Show(g, status)
  PROVE  /\ DOMAIN page' = Pages /\ \A h \in Pages : h # g => page'[h] = page[h]
         /\ DOMAIN page'[g] = PageFields /\ page'[g].at = "done" /\ page'[g].status = status
         /\ page'[g].names = page[g].names
<1> DEFINE new == [[page[g] EXCEPT !.at = "done"] EXCEPT !.status = status]
<1>1. /\ DOMAIN new = PageFields /\ new.at = "done" /\ new.status = status
      /\ new.names = page[g].names
  BY DEF PagesInv, PageInv, PageFields
<1>2. page' = [page EXCEPT ![g] = new]
  BY DEF Show, PagesInv
<1> HIDE DEF new
<1> QED
  BY <1>1, <1>2 DEF PagesInv

\* A page that ends with an error has a cause.
LEMMA ErrorInv ==
  ASSUME PagesInv, NEW g \in Pages, NEW status \in {"404", "500", "dropped"}, Show(g, status),
         UNCHANGED <<style, people, range, book, till, told, forgotten>>,
         unanswered \subseteq unanswered',
         status = "404" => Order(g) \in forgotten,
         status = "500" =>
           \/ g \in unanswered' \/ Checkout[Order(g)].user \in forgotten
           \/ /\ Page[g].via = "web"
              /\ \E i \in DOMAIN Lines(Order(g)) : Lines(Order(g))[i].product \in forgotten
  PROVE  PagesInv'
<1>1. /\ DOMAIN page' = Pages /\ \A h \in Pages : h # g => page'[h] = page[h]
      /\ DOMAIN page'[g] = PageFields /\ page'[g].at = "done" /\ page'[g].status = status
  BY ShowTypes
<1>2. HasACause(g)' /\ IsTrue(g)'
  BY <1>1 DEF HasACause, IsTrue, Order, Lines
<1>3. PageInv(g)'
  BY <1>1, <1>2 DEF PageInv
<1> QED
  BY <1>1, <1>3, AtThePage

\* A call of the page fails.
LEMMA PageFailsInv ==
  ASSUME PagesInv, NEW g \in Pages, PageFails(g)
  PROVE  PagesInv'
BY ErrorInv DEF PageFails, Hiccup, BffStatus, built, stores

\* A client asks for an order it was told of: it is there, or was forgotten.
LEMMA GetOrderInv ==
  ASSUME PagesInv, NEW g \in Pages, GetOrder(g)
  PROVE  PagesInv'
<1> DEFINE k == Order(g)
<1>1. page[g].at = "new" /\ told[k] = "200" /\ k \in Checkouts
  BY OrderPagesAssumption DEF GetOrder, BffStatus, Order
<1>2. CASE StartLooking(g)
  <2> DEFINE names == [i \in DOMAIN Lines(k) |-> "none"]
             new == [[page[g] EXCEPT !.at = "looking"] EXCEPT !.names = names]
  <2>1. UNCHANGED <<style, people, range, book, till, told, forgotten, unanswered>> /\ Held(k)
    BY <1>2 DEF StartLooking, PageOnly, stores, built, spent
  <2>2. page' = [page EXCEPT ![g] = new]
    BY <1>2 DEF StartLooking, PagesInv
  <2>3. /\ DOMAIN new = PageFields /\ new.at = "looking" /\ new.names = names
        /\ new.status = page[g].status
    BY DEF PagesInv, PageInv, PageFields
  <2> HIDE DEF new
  <2>4. /\ DOMAIN page' = Pages /\ \A h \in Pages : h # g => page'[h] = page[h]
        /\ page'[g] = new
    BY <2>2 DEF PagesInv
  <2>5. page[g].status = "none"
    BY <1>1 DEF PagesInv, PageInv
  <2>6. /\ UserWasThere(k)
        /\ \A i \in DOMAIN Lines(k) : ProductWasThere(k, i)
    <3>1. RungUp(k, book[k].units, book[k].sum) /\ Len(book[k].units) = Len(Lines(k))
      BY <1>1, <2>1 DEF PagesInv, TillInv
    <3>2. DOMAIN Lines(k) = 1..Len(Lines(k))
      BY <1>1, OrderPagesAssumption DEF Lines
    <3> QED
      BY <3>1, <3>2 DEF RungUp, UserIsThere, ProductIsThere
  <2>7. /\ names \in [DOMAIN Lines(k) -> Products \cup {"none"}]
        /\ \A i \in DOMAIN Lines(k) : names[i] = "none"
    OBVIOUS
  <2> HIDE DEF names
  <2>8. IsLooking(g)'
    BY <2>1, <2>3, <2>4, <2>5, <2>6, <2>7
       DEF IsLooking, Order, Lines, Held, UserWasThere, ProductWasThere
  <2>9. PageInv(g)'
    BY <2>3, <2>4, <2>5, <2>8 DEF PageInv, HasACause, IsTrue
  <2> QED
    BY <2>1, <2>4, <2>9, AtThePage
<1>3. CASE ~Held(k) /\ Show(g, BffStatus.NotFound) /\ PageOnly
  <2>1. k \in forgotten
    BY <1>1, <1>3 DEF PagesInv, TillInv
  <2>2. UNCHANGED <<style, people, range, book, till, told, forgotten, unanswered>> /\ Show(g, "404")
    BY <1>3 DEF PageOnly, stores, built, spent, BffStatus
  <2> QED
    BY <2>1, <2>2, ErrorInv
<1>4. CASE PageFails(g)
  BY <1>4, PageFailsInv
<1> QED
  BY <1>2, <1>3, <1>4 DEF GetOrder

\* The customer is looked up.
LEMMA GetUserInv ==
  ASSUME PagesInv, NEW g \in Pages, GetUser(g)
  PROVE  PagesInv'
<1> DEFINE k == Order(g)
<1>1. page[g].at = "looking" /\ IsLooking(g)
  BY DEF GetUser, PagesInv, PageInv
<1>2. CASE page' = [page EXCEPT ![g].customer = TRUE] /\ PageOnly
  <2> DEFINE new == [page[g] EXCEPT !.customer = TRUE]
  <2>1. UNCHANGED <<style, people, range, book, till, told, forgotten, unanswered>>
    BY <1>2 DEF PageOnly, stores, built, spent
  <2>2. /\ DOMAIN new = PageFields /\ new.at = "looking" /\ new.names = page[g].names
        /\ new.status = page[g].status
    BY <1>1 DEF PagesInv, PageInv, PageFields
  <2>3. /\ DOMAIN page' = Pages /\ \A h \in Pages : h # g => page'[h] = page[h]
        /\ page'[g] = new
    BY <1>2 DEF PagesInv
  <2> HIDE DEF new
  <2>4. IsLooking(g)'
    BY <1>1, <2>1, <2>2, <2>3 DEF IsLooking, Order, Lines, Held, UserWasThere, ProductWasThere
  <2>5. PageInv(g)'
    BY <1>1, <2>2, <2>3, <2>4 DEF PageInv, HasACause, IsTrue, IsLooking
  <2> QED
    BY <2>1, <2>3, <2>5, AtThePage
<1>3. CASE ~Exists(Checkout[k].user) /\ Show(g, BffStatus.Internal) /\ PageOnly
  <2>1. Checkout[k].user \in forgotten
    BY <1>1, <1>3 DEF IsLooking, UserWasThere, Exists
  <2>2. UNCHANGED <<style, people, range, book, till, told, forgotten, unanswered>> /\ Show(g, "500")
    BY <1>3 DEF PageOnly, stores, built, spent, BffStatus
  <2> QED
    BY <2>1, <2>2, ErrorInv
<1>4. CASE PageFails(g)
  BY <1>4, PageFailsInv
<1> QED
  BY <1>2, <1>3, <1>4 DEF GetUser

\* A product is looked up, in any order: its name goes to its own line.
LEMMA GetProductInv ==
  ASSUME PagesInv, NEW g \in Pages, Page[g].via = "web",
         NEW i \in DOMAIN page[g].names, GetProduct(g, i)
  PROVE  PagesInv'
<1> DEFINE k == Order(g)
           product == Lines(k)[i].product
<1>1. page[g].at = "looking" /\ IsLooking(g)
  BY DEF GetProduct, PagesInv, PageInv
<1>2. i \in DOMAIN Lines(k)
  BY <1>1 DEF IsLooking
<1>3. product \in Products
  <2>1. Lines(k) \in Seq(Line)
    BY OrderPagesAssumption DEF Order, Lines
  <2>2. Lines(k)[i] \in Line
    BY <1>2, <2>1
  <2> QED
    BY <2>2 DEF Line
<1>4. CASE page' = [page EXCEPT ![g].names[i] = product] /\ PageOnly
  <2> DEFINE names == [page[g].names EXCEPT ![i] = product]
             new == [page[g] EXCEPT !.names = names]
  <2>1. UNCHANGED <<style, people, range, book, till, told, forgotten, unanswered>>
    BY <1>4 DEF PageOnly, stores, built, spent
  <2>2. /\ DOMAIN new = PageFields /\ new.at = "looking" /\ new.names = names
        /\ new.status = page[g].status
    BY <1>1 DEF PagesInv, PageInv, PageFields
  <2>3. page' = [page EXCEPT ![g] = new]
    BY <1>4 DEF PagesInv
  <2> HIDE DEF new
  <2>4. /\ DOMAIN page' = Pages /\ \A h \in Pages : h # g => page'[h] = page[h]
        /\ page'[g] = new
    BY <2>3 DEF PagesInv
  <2>5. /\ names \in [DOMAIN Lines(k) -> Products \cup {"none"}]
        /\ \A j \in DOMAIN Lines(k) : names[j] \in {"none", Lines(k)[j].product}
    BY <1>1, <1>2, <1>3 DEF IsLooking
  <2> HIDE DEF names
  <2>6. IsLooking(g)'
    BY <1>1, <2>1, <2>2, <2>4, <2>5 DEF IsLooking, Order, Lines, Held, UserWasThere, ProductWasThere
  <2>7. PageInv(g)'
    BY <1>1, <2>2, <2>4, <2>6 DEF PageInv, HasACause, IsTrue, IsLooking
  <2> QED
    BY <2>1, <2>4, <2>7, AtThePage
<1>5. CASE product \notin range /\ Show(g, BffStatus.Internal) /\ PageOnly
  <2>1. product \in forgotten
    BY <1>1, <1>2, <1>5 DEF IsLooking, ProductWasThere
  <2>2. UNCHANGED <<style, people, range, book, till, told, forgotten, unanswered>> /\ Show(g, "500")
    BY <1>5 DEF PageOnly, stores, built, spent, BffStatus
  <2> QED
    BY <1>2, <2>1, <2>2, ErrorInv
<1>6. CASE PageFails(g)
  BY <1>6, PageFailsInv
<1> QED
  BY <1>4, <1>5, <1>6 DEF GetProduct

\* web-bff shows the page when every name is in.
LEMMA FinishDetailInv ==
  ASSUME PagesInv, NEW g \in Pages, Page[g].via = "web", FinishDetail(g)
  PROVE  PagesInv'
<1> DEFINE k == Order(g)
           names == page[g].names
<1>1. IsLooking(g) /\ \A i \in DOMAIN names : names[i] # "none"
  BY DEF FinishDetail, PagesInv, PageInv
<1>2. /\ Show(g, "200")
      /\ UNCHANGED <<style, people, range, book, till, told, forgotten, unanswered>>
  BY DEF FinishDetail, BffStatus, PageOnly, stores, built, spent
<1>3. /\ DOMAIN page' = Pages /\ \A h \in Pages : h # g => page'[h] = page[h]
      /\ DOMAIN page'[g] = PageFields /\ page'[g].at = "done" /\ page'[g].status = "200"
      /\ page'[g].names = names
  BY <1>2, ShowTypes
<1>4. names = [i \in DOMAIN Lines(k) |-> Lines(k)[i].product]
  BY <1>1 DEF IsLooking
<1>5. IsTrue(g)'
  BY <1>1, <1>2, <1>3, <1>4 DEF IsTrue, IsLooking, Held, Order, Lines
<1>6. PageInv(g)'
  BY <1>3, <1>5 DEF PageInv, HasACause
<1> QED
  BY <1>2, <1>3, <1>6, AtThePage

\* mobile-bff shows the page with the count of the items.
LEMMA FinishSummaryInv ==
  ASSUME PagesInv, NEW g \in Pages, Page[g].via = "mobile", FinishSummary(g)
  PROVE  PagesInv'
<1> DEFINE k == Order(g)
           count == Items(k) % 2^CountWidth
<1>1. IsLooking(g)
  BY DEF FinishSummary, PagesInv, PageInv
<1>2. UNCHANGED <<style, people, range, book, till, told, forgotten, unanswered>>
  BY DEF FinishSummary, PageOnly, stores, built, spent
<1>3. CASE Show(g, "dropped")
  BY <1>2, <1>3, ErrorInv
<1>4. CASE page' = [page EXCEPT ![g].at = "done", ![g].status = BffStatus.Ok, ![g].count = count]
  <2> HIDE DEF count
  <2> DEFINE new == [[[page[g] EXCEPT !.at = "done"] EXCEPT !.status = "200"] EXCEPT !.count = count]
  <2>1. page' = [page EXCEPT ![g] = new]
    BY <1>4 DEF PagesInv, BffStatus
  <2>2. DOMAIN new = PageFields /\ new.at = "done" /\ new.status = "200" /\ new.count = count
    BY DEF PagesInv, PageInv, PageFields
  <2> HIDE DEF new
  <2>3. /\ DOMAIN page' = Pages /\ \A h \in Pages : h # g => page'[h] = page[h]
        /\ page'[g] = new
    BY <2>1 DEF PagesInv
  <2>4. IsTrue(g)'
    <3>1. (Items(k))' = Items(k) /\ Order(g)' = k
      BY DEF Order
    <3>2. (Held(k) \/ k \in forgotten)'
      BY <1>1, <1>2 DEF IsLooking, Held
    <3> QED
      BY <2>2, <2>3, <3>1, <3>2 DEF IsTrue, Order, count
  <2>5. PageInv(g)'
    BY <2>2, <2>3, <2>4 DEF PageInv, HasACause
  <2> QED
    BY <1>2, <2>3, <2>5, AtThePage
<1> QED
  BY <1>3, <1>4 DEF FinishSummary

\* Every step of the lab keeps its invariant.
LEMMA PagesNextInv == PagesInv /\ OrderPagesNext => PagesInv'
<1> SUFFICES ASSUME PagesInv, OrderPagesNext PROVE PagesInv'
  OBVIOUS
<1>1. ASSUME NEW u, CreateUser(u) PROVE PagesInv'
  <2>1. PlacesKept /\ people \subseteq people' /\ range \subseteq range'
        /\ UNCHANGED <<till, told, book, page, forgotten, unanswered>>
    BY <1>1 DEF CreateUser, PlacesKept, built, spent
  <2> QED
    BY <2>1, PagesStutterInv
<1>2. ASSUME NEW p, CreateProduct(p) PROVE PagesInv'
  <2>1. PlacesKept /\ people \subseteq people' /\ range \subseteq range'
        /\ UNCHANGED <<till, told, book, page, forgotten, unanswered>>
    BY <1>2 DEF CreateProduct, PlacesKept, built, spent
  <2> QED
    BY <2>1, PagesStutterInv
<1>3. CASE RestartUsers \/ RestartCatalog
  <2>1. PlacesKept /\ Apart /\ forgotten \subseteq forgotten'
        /\ UNCHANGED <<till, told, book, page, unanswered>>
    BY <1>3 DEF RestartUsers, RestartCatalog, Forget, PlacesKept, built
  <2> QED
    BY <2>1, PagesStutterInv
<1>4. CASE RestartOrders \/ RestartApp
  <2>1. PlacesKept /\ forgotten \subseteq forgotten' /\ Kept \subseteq forgotten'
        /\ DropOrders /\ UNCHANGED <<told, page, unanswered>>
    BY <1>4 DEF RestartOrders, RestartApp, Forget, PlacesKept, built
  <2> QED
    BY <2>1, DropInv
<1>5. ASSUME NEW k \in Checkouts, PlaceAtTill(k) PROVE PagesInv'
  BY <1>5, SubmitInv, AskUserInv, AskPriceInv, InsertInv DEF PlaceAtTill
<1>6. ASSUME NEW k \in Checkouts, Reply(k) PROVE PagesInv'
  BY <1>6, ReplyInv
<1>7. ASSUME NEW g \in Pages, OrderDetail(g) \/ OrderSummary(g) PROVE PagesInv'
  BY <1>7, GetOrderInv, GetUserInv, GetProductInv, FinishDetailInv, FinishSummaryInv
     DEF OrderDetail, OrderSummary
<1> QED
  BY <1>1, <1>2, <1>3, <1>4, <1>5, <1>6, <1>7
     DEF OrderPagesNext, BffPlace, MicroservicesPlace, MonolithPlace

\* Requests, orders and pages agree in every reachable state.
THEOREM PagesInvariance == Spec => []PagesInv
<1>1. Init => PagesInv
  BY PagesInitInv DEF Init
<1>2. PagesInv /\ [Next]_labVars => PagesInv'
  <2> SUFFICES ASSUME PagesInv, [Next]_labVars PROVE PagesInv'
    OBVIOUS
  <2>1. CASE OrderPagesNext
    BY <2>1, PagesNextInv
  <2>2. CASE UNCHANGED pageVars
    <3>1. UNCHANGED <<till, told, book, page, forgotten, unanswered, people, range, style>>
      BY <2>2 DEF pageVars, built
    <3>2. PlacesKept
      BY <3>1 DEF PlacesKept
    <3> QED
      BY <3>1, <3>2, PagesStutterInv
  <2> QED
    BY <2>1, <2>2 DEF Next, labVars, BesidesCqrs, BesidesOutbox
<1> QED
  BY <1>1, <1>2, PTL DEF Spec

\* A checkout that is acknowledged is kept at the sum of its lines until
\* orders-service restarts, an error means no order unless a reply was lost, and
\* the monolith keeps user and products with the order: for every number of
\* checkouts, lines, hiccups and restarts.
THEOREM AcknowledgedOrdersAreKept == Spec => []AcknowledgedIsStored
<1>1. PagesInv => AcknowledgedIsStored
  <2> SUFFICES ASSUME PagesInv, NEW k \in Checkouts
               PROVE  /\ told[k] = "200" => Held(k) \/ k \in forgotten
                      /\ Held(k) /\ told[k] \in {"400", "500"} => k \in unanswered
                      /\ Held(k) => /\ Len(book[k].units) = Len(Lines(k))
                                    /\ book[k].sum = Exactly(Lines(k), book[k].units) % Modulus
                      /\ Held(k) /\ ~Apart =>
                           /\ Checkout[k].user \in people
                           /\ \A i \in DOMAIN Lines(k) : Lines(k)[i].product \in range
    BY DEF AcknowledgedIsStored
  <2>1. TillInv(k)
    BY DEF PagesInv
  <2>2. DOMAIN Lines(k) = 1..Len(Lines(k))
    BY OrderPagesAssumption DEF Lines
  <2> QED
    BY <2>1, <2>2 DEF TillInv, RungUp, UserIsThere, ProductIsThere
<1> QED
  BY <1>1, PagesInvariance, PTL

\* A page of either BFF fails only for a call that failed or for something
\* that was forgotten, whatever the pages and the failures.
THEOREM ErrorsHaveACause == Spec => []EveryErrorHasACause
<1>1. PagesInv => EveryErrorHasACause
  BY DEF PagesInv, PageInv, HasACause, EveryErrorHasACause
<1> QED
  BY <1>1, PagesInvariance, PTL

\* A page that is shown has the name of each line's own product at that line and
\* counts the items right but for the width of the count, whatever the order in
\* which the lookups come in.
THEOREM PagesAreTrue == Spec => []PageIsTrue
<1>1. PagesInv => PageIsTrue
  <2> SUFFICES ASSUME PagesInv, NEW g \in Pages, page[g].status = "200"
               PROVE  LET k == Order(g) IN
                 /\ Held(k) \/ k \in forgotten
                 /\ Page[g].via = "web" =>
                      page[g].names = [i \in DOMAIN Lines(k) |-> Lines(k)[i].product]
                 /\ Page[g].via = "mobile" =>
                      page[g].count = SumFunctionOnSet([i \in DOMAIN Lines(k) |-> Lines(k)[i].quantity],
                                                       DOMAIN Lines(k)) % 2^CountWidth
    BY DEF PageIsTrue
  <2>1. IsTrue(g)
    BY DEF PagesInv, PageInv
  <2>2. Lines(Order(g)) \in Seq(Line)
    BY OrderPagesAssumption DEF Order, Lines
  <2>3. Items(Order(g)) = SumFunctionOnSet([i \in DOMAIN Lines(Order(g)) |-> Lines(Order(g))[i].quantity],
                                           DOMAIN Lines(Order(g)))
    BY <2>2, ItemsAreCounted
  <2> QED
    BY <2>1, <2>3 DEF IsTrue
<1> QED
  BY <1>1, PagesInvariance, PTL

-----------------------------------------------------------------------------
(* src/hexagonal.  While no insert has run across another, one at a time   *)
(* is between the load of the file and its write, what it has loaded holds *)
(* every acknowledged order, and a file that is being written does not     *)
(* parse.                                                                  *)

FileTypes ==
  /\ inserting \in [Placements -> {"new", "400", "inserting", "loading", "truncating", "writing",
                                   "200", "503", "gone"}]
  /\ basis \in [Placements -> SUBSET Placements] /\ content \subseteq Placements
  /\ shown \in [Placements -> {"none", "200", "404", "503"}]
  /\ raced \subseteq {"cli", "dropped"} /\ damaged \in BOOLEAN /\ sound \in BOOLEAN

Inserts(o) == inserting[o] = "loading" \/ Midway(o)

InFile == \A o \in Placements : Inserts(o) => ~InMemory(o)

MutexIsHeld == \A o \in Placements \ ByCli : Inserts(o) => mutex = o \/ o \in hungUp

HungUpIsDropped == /\ hungUp \subseteq Placements
                   /\ \A o \in hungUp : inserting[o] \in {"truncating", "writing", "gone"}

AskedForOnceAcknowledged == \A o \in Placements : inserting[o] # "200" => shown[o] = "none"

Acknowledged == {o \in Placements : inserting[o] = "200" /\ ~InMemory(o)}

OneAtATime ==
  raced = {} => /\ \A o, p \in Placements : Midway(o) /\ Midway(p) => o = p
            /\ \A o \in Placements : /\ inserting[o] = "writing" => ~sound
                                     /\ Midway(o) => Acknowledged \subseteq basis[o]

StaysStored ==
  \A o \in Placements : inserting[o] = "200" =>
    IF InMemory(o) THEN o \in memory \cup wiped /\ (shown[o] = "404" => o \in wiped)
    ELSE raced # {} \/ ((sound => o \in content) /\ shown[o] # "404")

FileInv == /\ FileTypes /\ InFile /\ MutexIsHeld /\ HungUpIsDropped /\ AskedForOnceAcknowledged
           /\ OneAtATime /\ StaysStored /\ UnreadableHasACause

\* Nothing has been placed.
LEMMA FileInitInv == OrderFileInit => FileInv
BY DEF OrderFileInit, FileInv, FileTypes, InFile, Inserts, Midway, MutexIsHeld, HungUpIsDropped,
       AskedForOnceAcknowledged, OneAtATime, StaysStored, UnreadableHasACause

\* An order is placed or refused.
LEMMA PlaceOrderInv == ASSUME FileInv, NEW o \in Placements, PlaceOrder(o) PROVE FileInv'
BY DEF PlaceOrder,
    FileInv, FileTypes, InFile, Inserts, Midway, MutexIsHeld, HungUpIsDropped,
    AskedForOnceAcknowledged, Acknowledged, OneAtATime, StaysStored, UnreadableHasACause,
    InMemory, store, To, Unlock

\* In memory an insert is one step.
LEMMA InsertInMemoryInv == ASSUME FileInv, NEW o \in Placements, InsertInMemory(o) PROVE FileInv'
BY DEF InsertInMemory,
    FileInv, FileTypes, InFile, Inserts, Midway, MutexIsHeld, HungUpIsDropped,
    AskedForOnceAcknowledged, Acknowledged, OneAtATime, StaysStored, UnreadableHasACause,
    InMemory, store, To, Unlock

\* The mutex keeps whoever is still there.
LEMMA LockFileInv == ASSUME FileInv, NEW o \in Placements, LockFile(o) PROVE FileInv'
<1> USE OrderFileAssumption DEF LockFile,
        FileInv, FileTypes, InFile, Inserts, Midway, MutexIsHeld, HungUpIsDropped,
        AskedForOnceAcknowledged, Acknowledged, OneAtATime, StaysStored, UnreadableHasACause,
        InMemory, store, To, Unlock
<1>1. FileTypes'
  OBVIOUS
<1>2. InFile' /\ MutexIsHeld'
  OBVIOUS
<1>3. HungUpIsDropped' /\ AskedForOnceAcknowledged'
  OBVIOUS
<1>4. OneAtATime'
  OBVIOUS
<1>5. StaysStored'
  OBVIOUS
<1>6. UnreadableHasACause'
  OBVIOUS
<1> QED
  BY <1>1, <1>2, <1>3, <1>4, <1>5, <1>6

\* What a load that succeeds, or is refused, does to the states of the inserts.
Loaded(o) ==
  /\ inserting[o] = "loading" /\ raced' = raced \cup RacesOf(o) /\ sound' = sound
  /\ backend' = backend
  /\ \A p \in Placements \ {o} : inserting'[p] = inserting[p] /\ basis'[p] = basis[p]
  /\ \/ sound /\ basis'[o] = content /\ inserting'[o] = "truncating"
     \/ ~sound /\ inserting'[o] = "503"

\* Without a race nobody is midway when an insert loads the file.
LEMMA NobodyIsMidway ==
  ASSUME FileInv, NEW o \in Placements, inserting[o] = "loading", RacesOf(o) = {},
         NEW p \in Placements, p # o, Midway(p)
  PROVE  FALSE
<1>1. "cli" \notin RacesOf(o) /\ "dropped" \notin RacesOf(o)
  OBVIOUS
<1>2. o \notin ByCli /\ p \notin ByCli
  BY <1>1 DEF RacesOf
<1>3. p \notin hungUp
  BY <1>1 DEF RacesOf
<1>4. o \notin hungUp
  BY DEF FileInv, HungUpIsDropped
<1>5. mutex = o /\ mutex = p
  BY <1>2, <1>3, <1>4 DEF FileInv, MutexIsHeld, Inserts
<1> QED
  BY <1>5

\* So one at a time is midway after the load, and has read what is acknowledged.
LEMMA LoadsAlone == ASSUME FileInv, NEW o \in Placements, Loaded(o) PROVE OneAtATime'
<1> SUFFICES ASSUME raced' = {} PROVE OneAtATime'
  BY DEF OneAtATime
<1>1. raced = {} /\ RacesOf(o) = {}
  BY DEF Loaded
<1>2. \A p \in Placements \ {o} : ~Midway(p) /\ ~Midway(p)' /\ inserting'[p] # "writing"
  BY <1>1, NobodyIsMidway DEF Loaded, Midway
<1>3. inserting'[o] # "writing"
  BY DEF Loaded
<1>4. ASSUME Midway(o)' PROVE Acknowledged' \subseteq basis'[o]
  <2>1. sound /\ basis'[o] = content /\ inserting'[o] # "200"
    BY <1>4 DEF Loaded, Midway
  <2>2. ASSUME NEW p \in Placements, (inserting[p] = "200" /\ ~InMemory(p))'  PROVE p \in content
    <3>1. p # o /\ inserting[p] = "200"
      BY <2>1, <2>2 DEF Loaded
    <3>2. ~InMemory(p)
      BY <2>2 DEF InMemory, Loaded
    <3> QED
      BY <1>1, <2>1, <3>1, <3>2 DEF FileInv, StaysStored
  <2> QED
    BY <2>1, <2>2 DEF Acknowledged
<1> QED
  BY <1>2, <1>3, <1>4 DEF OneAtATime

\* A load that overlaps with another insert is a race; any other reads all that
\* is acknowledged.
LEMMA LoadFileInv == ASSUME FileInv, NEW o \in Placements, LoadFile(o) PROVE FileInv'
<1>0. FileTypes'
  <2>1. RacesOf(o) \subseteq {"cli", "dropped"}
    BY DEF RacesOf
  <2>2. raced' \subseteq {"cli", "dropped"}
    BY <2>1 DEF LoadFile, FileInv, FileTypes
  <2> QED
    BY <2>2 DEF LoadFile, FileInv, FileTypes, store, To
<1>a. Loaded(o)
  BY DEF Loaded, LoadFile, FileInv, FileTypes, To, store
<1> USE OrderFileAssumption DEF LoadFile, RacesOf,
        FileInv, FileTypes, InFile, Inserts, Midway, MutexIsHeld, HungUpIsDropped,
        AskedForOnceAcknowledged, Acknowledged, OneAtATime, StaysStored, UnreadableHasACause,
        InMemory, store, To, Unlock
<1>1. FileTypes'
  BY <1>0
<1>2. InFile' /\ MutexIsHeld'
  OBVIOUS
<1>3. HungUpIsDropped' /\ AskedForOnceAcknowledged'
  OBVIOUS
<1>4. OneAtATime'
  BY <1>a, LoadsAlone
<1>5. StaysStored'
  OBVIOUS
<1>6. UnreadableHasACause'
  OBVIOUS
<1> QED
  BY <1>1, <1>2, <1>3, <1>4, <1>5, <1>6

\* From now on the file does not parse, and the one that writes it is the cause.
LEMMA TruncateFileInv == ASSUME FileInv, NEW o \in Placements, TruncateFile(o) PROVE FileInv'
<1> USE OrderFileAssumption DEF TruncateFile,
        FileInv, FileTypes, InFile, Inserts, Midway, MutexIsHeld, HungUpIsDropped,
        AskedForOnceAcknowledged, Acknowledged, OneAtATime, StaysStored, UnreadableHasACause,
        InMemory, store, To, Unlock
<1>1. FileTypes'
  OBVIOUS
<1>2. InFile' /\ MutexIsHeld'
  OBVIOUS
<1>3. HungUpIsDropped' /\ AskedForOnceAcknowledged'
  OBVIOUS
<1>4. OneAtATime'
  OBVIOUS
<1>5. StaysStored'
  OBVIOUS
<1>6. UnreadableHasACause'
  OBVIOUS
<1> QED
  BY <1>1, <1>2, <1>3, <1>4, <1>5, <1>6

\* The write puts back what the load has read.
LEMMA WriteFileInv == ASSUME FileInv, NEW o \in Placements, WriteFile(o) PROVE FileInv'
<1> USE OrderFileAssumption DEF WriteFile,
        FileInv, FileTypes, InFile, Inserts, Midway, MutexIsHeld, HungUpIsDropped,
        AskedForOnceAcknowledged, Acknowledged, OneAtATime, StaysStored, UnreadableHasACause,
        InMemory, store, To, Unlock
<1>1. FileTypes'
  OBVIOUS
<1>2. InFile' /\ MutexIsHeld'
  OBVIOUS
<1>3. HungUpIsDropped' /\ AskedForOnceAcknowledged'
  OBVIOUS
<1>4. OneAtATime'
  OBVIOUS
<1>5. StaysStored'
  OBVIOUS
<1>6. UnreadableHasACause'
  OBVIOUS
<1> QED
  BY <1>1, <1>2, <1>3, <1>4, <1>5, <1>6

\* A failed write leaves the damage behind, a failed read nothing.
LEMMA DiskFailsInv == ASSUME FileInv, NEW o \in Placements, DiskFails(o) PROVE FileInv'
<1>a. /\ sound' = sound /\ raced' = raced /\ damaged \in BOOLEAN
      /\ damaged' = (damaged \/ inserting[o] = "writing")
      /\ \A p \in Placements \ {o} : inserting'[p] = inserting[p]
  BY DEF DiskFails, FileInv, FileTypes, store, To
<1>6. UnreadableHasACause'
  BY <1>a DEF FileInv, UnreadableHasACause
<1> USE OrderFileAssumption DEF DiskFails,
        FileInv, FileTypes, InFile, Inserts, Midway, MutexIsHeld, HungUpIsDropped,
        AskedForOnceAcknowledged, Acknowledged, OneAtATime, StaysStored, UnreadableHasACause,
        InMemory, store, To, Unlock
<1>1. FileTypes'
  OBVIOUS
<1>2. InFile' /\ MutexIsHeld'
  OBVIOUS
<1>3. HungUpIsDropped' /\ AskedForOnceAcknowledged'
  OBVIOUS
<1>4. OneAtATime'
  OBVIOUS
<1>5. StaysStored'
  OBVIOUS
<1> QED
  BY <1>1, <1>2, <1>3, <1>4, <1>5, <1>6

\* The mutex is free and the write goes on: what LoadFile reckons with.
LEMMA HangUpFileInv == ASSUME FileInv, NEW o \in Placements, HangUpFile(o) PROVE FileInv'
<1> USE OrderFileAssumption DEF HangUpFile,
        FileInv, FileTypes, InFile, Inserts, Midway, MutexIsHeld, HungUpIsDropped,
        AskedForOnceAcknowledged, Acknowledged, OneAtATime, StaysStored, UnreadableHasACause,
        InMemory, store, To, Unlock
<1>1. FileTypes'
  OBVIOUS
<1>2. InFile' /\ MutexIsHeld'
  OBVIOUS
<1>3. HungUpIsDropped' /\ AskedForOnceAcknowledged'
  OBVIOUS
<1>4. OneAtATime'
  OBVIOUS
<1>5. StaysStored'
  OBVIOUS
<1>6. UnreadableHasACause'
  OBVIOUS
<1> QED
  BY <1>1, <1>2, <1>3, <1>4, <1>5, <1>6

\* A death in the middle of a write leaves the damage behind.
LEMMA CliDiesInv == ASSUME FileInv, NEW o \in Placements, CliDies(o) PROVE FileInv'
<1> USE OrderFileAssumption DEF CliDies, Die,
        FileInv, FileTypes, InFile, Inserts, Midway, MutexIsHeld, HungUpIsDropped,
        AskedForOnceAcknowledged, Acknowledged, OneAtATime, StaysStored, UnreadableHasACause,
        InMemory, store, To, Unlock
<1>1. FileTypes'
  OBVIOUS
<1>2. InFile' /\ MutexIsHeld'
  OBVIOUS
<1>3. HungUpIsDropped' /\ AskedForOnceAcknowledged'
  OBVIOUS
<1>4. OneAtATime'
  OBVIOUS
<1>5. StaysStored'
  OBVIOUS
<1>6. UnreadableHasACause'
  OBVIOUS
<1> QED
  BY <1>1, <1>2, <1>3, <1>4, <1>5, <1>6

\* With serve die its memory, its mutex and its inserts.
LEMMA ServeDiesInv == ASSUME FileInv, ServeDies PROVE FileInv'
<1> USE OrderFileAssumption DEF ServeDies, Die,
        FileInv, FileTypes, InFile, Inserts, Midway, MutexIsHeld, HungUpIsDropped,
        AskedForOnceAcknowledged, Acknowledged, OneAtATime, StaysStored, UnreadableHasACause,
        InMemory, store, To, Unlock
<1>1. FileTypes'
  OBVIOUS
<1>2. InFile' /\ MutexIsHeld'
  OBVIOUS
<1>3. HungUpIsDropped' /\ AskedForOnceAcknowledged'
  OBVIOUS
<1>4. OneAtATime'
  OBVIOUS
<1>5. StaysStored'
  OBVIOUS
<1>6. UnreadableHasACause'
  OBVIOUS
<1> QED
  BY <1>1, <1>2, <1>3, <1>4, <1>5, <1>6

\* A GET shows what is there.
LEMMA GetPlacedInv == ASSUME FileInv, NEW o \in Placements, GetPlaced(o) PROVE FileInv'
BY DEF GetPlaced, BesidesShown, CanAskFor, AnswerFor, IsStored,
    FileInv, FileTypes, InFile, Inserts, Midway, MutexIsHeld, HungUpIsDropped,
    AskedForOnceAcknowledged, Acknowledged, OneAtATime, StaysStored, UnreadableHasACause,
    InMemory, store, To, Unlock

\* ... and so does the list.
LEMMA ListPlacedInv == ASSUME FileInv, ListPlaced PROVE FileInv'
BY DEF ListPlaced, BesidesShown, CanAskFor, AnswerFor, IsStored,
    FileInv, FileTypes, InFile, Inserts, Midway, MutexIsHeld, HungUpIsDropped,
    AskedForOnceAcknowledged, Acknowledged, OneAtATime, StaysStored, UnreadableHasACause,
    InMemory, store, To, Unlock

\* Every step of serve and of the cli keeps the invariant.
LEMMA FileNextInv == ASSUME FileInv, [OrderFileNext]_fileVars PROVE FileInv'
<1>1. CASE UNCHANGED fileVars
  BY <1>1 DEF fileVars,
      FileInv, FileTypes, InFile, Inserts, Midway, MutexIsHeld, HungUpIsDropped,
      AskedForOnceAcknowledged, Acknowledged, OneAtATime, StaysStored, UnreadableHasACause,
      InMemory, store, To, Unlock
<1> QED
  BY <1>1, PlaceOrderInv, InsertInMemoryInv, LockFileInv, LoadFileInv, TruncateFileInv,
     WriteFileInv,
     DiskFailsInv, HangUpFileInv, CliDiesInv, ServeDiesInv, GetPlacedInv, ListPlacedInv
  DEF OrderFileNext

\* File, table and inserts agree in every reachable state.
THEOREM FileInvariance == Spec => []FileInv
<1>1. Init => FileInv
  BY FileInitInv DEF Init
<1>2. FileInv /\ [Next]_labVars => FileInv'
  <2>1. [Next]_labVars => [OrderFileNext]_fileVars
    BY DEF Next, labVars, BesidesCqrs, BesidesOutbox
  <2> QED
    BY <2>1, FileNextInv
<1> QED
  BY <1>1, <1>2, PTL DEF Spec

\* When no client hangs up in the middle of a write, only the cli races.
OnlyCliRaces == /\ \A o \in hungUp : inserting[o] = "gone"
                /\ raced \subseteq {"cli"}

\* Every step of serve and of the cli keeps it so.
LEMMA OnlyCliRacesNext ==
  ASSUME HangUpPoints \subseteq {"inserting", "loading"}, FileTypes, HungUpIsDropped, OnlyCliRaces,
         [OrderFileNext]_fileVars
  PROVE  OnlyCliRaces'
<1> USE DEF OnlyCliRaces, FileTypes, HungUpIsDropped, To
<1>1. ASSUME NEW o \in Placements, NEW where, o \notin hungUp, To(o, where),
             hungUp' = hungUp, raced' \subseteq {"cli"}
      PROVE  OnlyCliRaces'
  BY <1>1
<1>2. ASSUME NEW o \in Placements,
             PlaceOrder(o) \/ InsertInMemory(o) \/ LockFile(o) \/ TruncateFile(o) \/ WriteFile(o)
             \/ DiskFails(o)
      PROVE  OnlyCliRaces'
  <2>1. o \notin hungUp
    BY <1>2 DEF PlaceOrder, InsertInMemory, LockFile, TruncateFile, WriteFile, DiskFails
  <2>2. hungUp' = hungUp /\ raced' = raced
    BY <1>2 DEF PlaceOrder, InsertInMemory, LockFile, TruncateFile, WriteFile, DiskFails
  <2>3. \E where : To(o, where)
    BY <1>2 DEF PlaceOrder, InsertInMemory, LockFile, TruncateFile, WriteFile, DiskFails
  <2> QED
    BY <1>1, <2>1, <2>2, <2>3
<1>3. ASSUME NEW o \in Placements, LoadFile(o)
      PROVE  OnlyCliRaces'
  <2>1. RacesOf(o) \subseteq {"cli"}
    BY DEF RacesOf, Midway
  <2>2. o \notin hungUp /\ hungUp' = hungUp /\ raced' = raced \cup RacesOf(o)
    BY <1>3 DEF LoadFile
  <2>3. To(o, "truncating") \/ To(o, "503")
    BY <1>3 DEF LoadFile
  <2> QED
    BY <1>1, <2>1, <2>2, <2>3
<1>4. ASSUME NEW o \in Placements, HangUpFile(o)
      PROVE  OnlyCliRaces'
  <2>1. hungUp' = hungUp \cup {o} /\ raced' = raced /\ ~Midway(o)
    BY <1>4 DEF HangUpFile, Midway
  <2>2. To(o, "gone")
    BY <1>4, <2>1 DEF HangUpFile
  <2> QED
    BY <2>1, <2>2
<1>5. CASE ServeDies \/ \E o \in Placements : CliDies(o)
  <2>1. PICK those : Die(those)
    BY <1>5 DEF ServeDies, CliDies
  <2>2. hungUp' = hungUp /\ raced' = raced
    BY <2>1 DEF Die
  <2>3. \A p \in Placements : inserting[p] = "gone" => inserting'[p] = "gone"
    BY <2>1 DEF Die
  <2> QED
    BY <2>2, <2>3
<1>6. CASE ListPlaced \/ (\E o \in Placements : GetPlaced(o)) \/ UNCHANGED fileVars
  BY <1>6 DEF ListPlaced, GetPlaced, BesidesShown, fileVars
<1> QED
  BY <1>2, <1>3, <1>4, <1>5, <1>6 DEF OrderFileNext

\* An acknowledged order is kept as long as no client hangs up in the middle
\* of a write, the races between processes apart.
THEOREM OrdersAreKept ==
  ASSUME HangUpPoints \subseteq {"inserting", "loading"}
  PROVE  Spec => []KeptUnlessRaced
<1>1. Init => OnlyCliRaces
  BY DEF Init, OrderFileInit, OnlyCliRaces
<1>2. FileInv /\ OnlyCliRaces /\ [Next]_labVars => OnlyCliRaces'
  <2>1. [Next]_labVars => [OrderFileNext]_fileVars
    BY DEF Next, labVars, BesidesCqrs, BesidesOutbox
  <2> QED
    BY <2>1, OnlyCliRacesNext DEF FileInv
<1>3. FileInv /\ OnlyCliRaces => KeptUnlessRaced
  BY DEF FileInv, StaysStored, OnlyCliRaces, KeptUnlessRaced
<1> QED
  BY <1>1, <1>2, <1>3, FileInvariance, PTL DEF Spec

\* A file that does not parse has been left so by somebody, wherever clients
\* hang up.
THEOREM UnreadableFilesHaveACause == Spec => []UnreadableHasACause
BY FileInvariance, PTL DEF FileInv
=============================================================================
