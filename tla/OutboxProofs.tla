---------------------------- MODULE OutboxProofs ----------------------------
(***************************************************************************)
(* Proofs about Outbox, for any number of orders and failures.             *)
(*                                                                         *)
(* In outbox mode everything follows from where three frontiers stand: the *)
(* rows marked sent are 1..k, the orders the ledger has heard of are 1..n, *)
(* and n is k or k + 1, because the relay never goes past a row it has not *)
(* marked.  The row heard of but not marked is one the relay is about to   *)
(* mark, or owes a second delivery after a failure.                        *)
(***************************************************************************)
EXTENDS Outbox, Sums

\* Where the relay stands between the frontiers, and what deliveries cost.
Frontiers(k, n, m) ==
  /\ sent = 1..k
  /\ inbox = 1..n
  /\ n \in {k, k + 1}
  /\ batch = IF published = 0 THEN (k + 1)..m ELSE (k + 2)..m
  /\ published # 0 => published = k + 1 /\ n = k + 1
  /\ books.deliveries + (IF published = 0 THEN n - k ELSE 0) <= n + faults
  /\ books.with_inbox.events = n

OutboxMode == /\ publishing = {}
              /\ \E k, n, m \in Nat : Frontiers(k, n, m)

\* In naive mode the relay does nothing, and an order is published at most once.
NaiveMode == /\ sent = {} /\ batch = {} /\ published = 0
             /\ publishing \cap inbox = {}
             /\ publishing \cap DOMAIN answer = {}
             /\ \A i \in DOMAIN answer : answer[i] = "created" => i \in inbox
             /\ books.deliveries = Cardinality(inbox)
             /\ books.with_inbox.events = Cardinality(inbox)

Inv == /\ TypeOK
       /\ mode = "outbox" => OutboxMode
       /\ mode = "naive" => NaiveMode

USE OutboxAssumption

-----------------------------------------------------------------------------
(* Type correctness *)

LEMMA ReceiveType ==
  ASSUME TypeOK, NEW i \in 1..inserted, Receive(i)
  PROVE  /\ inbox' \subseteq 1..inserted
         /\ books' \in [deliveries : Nat, without_inbox : TallyType, with_inbox : TallyType]
<1>1. amount[i] \in Nat
  BY DEF TypeOK
<1>2. \A t \in TallyType : AddTo(t, amount[i]) \in TallyType
  BY <1>1 DEF TallyType, AddTo
<1>3. /\ books.deliveries \in Nat
      /\ books.without_inbox \in TallyType
      /\ books.with_inbox \in TallyType
  BY DEF TypeOK
<1> QED
  BY <1>2, <1>3 DEF Receive, TypeOK

LEMMA SendType ==
  ASSUME TypeOK, NEW i \in 1..inserted, SendOk(i) \/ SendFails(i)
  PROVE  /\ inbox' \subseteq 1..inserted
         /\ books' \in [deliveries : Nat, without_inbox : TallyType, with_inbox : TallyType]
         /\ faults' \in 0..MaxFaults
<1>1. Receive(i) \/ UNCHANGED <<inbox, books>>
  BY DEF SendOk, SendFails, ledgerVars
<1>2. faults' \in 0..MaxFaults
  BY DEF SendOk, SendFails, TypeOK
<1>3. CASE Receive(i)
  BY <1>2, <1>3, ReceiveType
<1>4. CASE UNCHANGED <<inbox, books>>
  BY <1>2, <1>4 DEF TypeOK
<1> QED
  BY <1>1, <1>3, <1>4

LEMMA InitType == OutboxInit => TypeOK
BY DEF OutboxInit, TypeOK, Empty, TallyType

LEMMA NextType == TypeOK /\ [OutboxNext]_outboxVars => TypeOK'
<1> SUFFICES ASSUME TypeOK, [OutboxNext]_outboxVars PROVE TypeOK'
  OBVIOUS
<1> USE DEF TypeOK, ordersVars, relayVars, ledgerVars
<1>1. ASSUME NEW cents \in Amounts, CommitNaive(cents) PROVE TypeOK'
  BY <1>1 DEF CommitNaive, InsertOrder
<1>2. ASSUME NEW cents \in Amounts, PlaceOutbox(cents) PROVE TypeOK'
  BY <1>2 DEF PlaceOutbox, InsertOrder, AnswerWith
<1>3. ASSUME NEW i \in 1..inserted, CrashNaive(i) PROVE TypeOK'
  BY <1>3 DEF CrashNaive, AnswerWith
<1>4. ASSUME NEW i \in 1..inserted, PublishNaive(i) PROVE TypeOK'
  <2>1. SendOk(i) \/ SendFails(i)
    BY <1>4 DEF PublishNaive
  <2>2. /\ DOMAIN answer' \subseteq 1..inserted
        /\ \A j \in DOMAIN answer' : answer'[j] \in {"created", "error"}
    BY <1>4 DEF PublishNaive, AnswerWith
  <2> QED
    BY <1>4, <2>1, <2>2, SendType DEF PublishNaive
<1>5. ASSUME NEW i \in 1..inserted, RelaySend(i) PROVE TypeOK'
  <2>1. SendOk(i) \/ SendFails(i)
    BY <1>5 DEF RelaySend
  <2>2. /\ inbox' \subseteq 1..inserted
        /\ books' \in [deliveries : Nat, without_inbox : TallyType, with_inbox : TallyType]
        /\ faults' \in 0..MaxFaults
    BY <2>1, SendType
  <2>3. /\ mode' = mode /\ inserted' = inserted /\ amount' = amount /\ sent' = sent
        /\ publishing' = publishing /\ answer' = answer
    BY <1>5 DEF RelaySend
  <2>4. batch' \subseteq 1..inserted /\ published' \in 0..inserted
    <3>1. /\ batch' = batch \ {i} \/ batch' = {}
          /\ published' = i \/ published' = published
      BY <1>5 DEF RelaySend
    <3>2. i \in 0..inserted
      OBVIOUS
    <3> QED
      BY <3>1, <3>2
  <2> QED
    BY <2>2, <2>3, <2>4
<1>6. CASE RelayTick
  BY <1>6 DEF RelayTick, Unsent
<1>7. CASE RelayCrash
  BY <1>7 DEF RelayCrash
<1>8. CASE MarkSent
  BY <1>8 DEF MarkSent
<1>9. CASE UNCHANGED outboxVars
  BY <1>9 DEF outboxVars
<1> QED
  BY <1>1, <1>2, <1>3, <1>4, <1>5, <1>6, <1>7, <1>8, <1>9 DEF OutboxNext, Relay

-----------------------------------------------------------------------------
(* The outbox path *)

\* What one delivery of row k + 1 does to the ledger.
LEMMA ReceiveNextRow ==
  ASSUME TypeOK, NEW k \in Nat, NEW n \in {k, k + 1}, inbox = 1..n,
         books.with_inbox.events = n, k + 1 \in 1..inserted, Receive(k + 1)
  PROVE  /\ inbox' = 1..(k + 1)
         /\ books'.with_inbox.events = k + 1
         /\ books'.deliveries = books.deliveries + 1
<1>1. amount[k + 1] \in Nat
  BY DEF TypeOK
<1> QED
  BY <1>1 DEF Receive, AddTo, TypeOK, TallyType

LEMMA RelayKeepsFrontiers ==
  ASSUME Inv, mode = "outbox", [OutboxNext]_outboxVars
  PROVE  OutboxMode'
<1> USE DEF Inv, OutboxMode, ordersVars, relayVars, ledgerVars
<1>1. PICK k \in Nat, n \in Nat, m \in Nat : Frontiers(k, n, m)
  OBVIOUS
<1>2. books.deliveries \in Nat /\ faults \in Nat /\ inserted \in Nat
  BY DEF TypeOK
<1>3. ASSUME NEW cents \in Amounts, PlaceOutbox(cents) PROVE OutboxMode'
  BY <1>1, <1>3 DEF PlaceOutbox, Frontiers
<1>4. CASE RelayTick
  <2>1. sent \subseteq 1..inserted /\ Unsent = (k + 1)..inserted
    BY <1>1 DEF Unsent, Frontiers, TypeOK
  <2>2. Frontiers(k, n, inserted)'
    BY <1>1, <1>4, <2>1 DEF RelayTick, Frontiers
  <2> QED
    BY <1>2, <1>4, <2>2 DEF RelayTick
<1>5. ASSUME NEW i \in 1..inserted, RelaySend(i) PROVE OutboxMode'
  <2>1. i = k + 1 /\ batch = (k + 1)..m /\ k + 1 <= m
    BY <1>1, <1>5 DEF RelaySend, Oldest, Frontiers
  <2>2. n \in {k, k + 1} /\ inbox = 1..n /\ sent = 1..k /\ books.with_inbox.events = n
        /\ books.deliveries + (n - k) <= n + faults
    BY <1>1, <1>5 DEF RelaySend, Frontiers
  <2>3. CASE SendOk(i) /\ published' = i /\ batch' = batch \ {i}
    <3>1. inbox' = 1..(k + 1) /\ books'.with_inbox.events = k + 1
          /\ books'.deliveries = books.deliveries + 1
      BY <1>5, <2>1, <2>2, <2>3, ReceiveNextRow DEF SendOk
    <3>2. batch' = (k + 2)..m
      BY <2>1, <2>3
    <3>3. published' = k + 1 /\ faults' = faults /\ sent' = 1..k /\ publishing' = {}
      BY <1>5, <2>1, <2>2, <2>3 DEF RelaySend, SendOk
    <3>4. Frontiers(k, k + 1, m)'
      BY <1>2, <2>2, <3>1, <3>2, <3>3 DEF Frontiers
    <3> QED
      BY <3>3, <3>4
  <2>4. CASE SendFails(i) /\ batch' = {} /\ published' = published
    <3>1. batch' = (k + 1)..k /\ published' = 0 /\ faults' = faults + 1 /\ sent' = 1..k /\ publishing' = {}
      BY <1>5, <2>2, <2>4 DEF RelaySend, SendFails
    <3>2. CASE Receive(i)
      <4>1. inbox' = 1..(k + 1) /\ books'.with_inbox.events = k + 1
            /\ books'.deliveries = books.deliveries + 1
        BY <1>5, <2>1, <2>2, <3>2, ReceiveNextRow
      <4>2. Frontiers(k, k + 1, k)'
        BY <1>2, <2>2, <3>1, <4>1 DEF Frontiers
      <4> QED
        BY <3>1, <4>2
    <3>3. CASE UNCHANGED ledgerVars
      <4>1. Frontiers(k, n, k)'
        BY <1>2, <2>2, <3>1, <3>3 DEF Frontiers
      <4> QED
        BY <3>1, <4>1
    <3> QED
      BY <2>4, <3>2, <3>3 DEF SendFails
  <2> QED
    BY <1>5, <2>3, <2>4 DEF RelaySend
<1>6. CASE RelayCrash
  <2>1. Frontiers(k, n, k)'
    BY <1>1, <1>2, <1>6 DEF RelayCrash, Frontiers
  <2> QED
    BY <1>6, <2>1 DEF RelayCrash
<1>7. CASE MarkSent
  <2>1. published = k + 1 /\ n = k + 1 /\ sent' = 1..(k + 1)
    BY <1>1, <1>7 DEF MarkSent, Frontiers
  <2>2. Frontiers(k + 1, n, m)'
    BY <1>1, <1>2, <1>7, <2>1 DEF MarkSent, Frontiers
  <2> QED
    BY <1>7, <2>2 DEF MarkSent
<1>8. CASE UNCHANGED outboxVars
  BY <1>1, <1>8 DEF outboxVars, Frontiers
<1>9. \A cents \in Amounts : ~CommitNaive(cents)
  BY DEF CommitNaive
<1>10. \A i \in 1..inserted : ~CrashNaive(i) /\ ~PublishNaive(i)
  BY DEF CrashNaive, PublishNaive
<1> QED
  BY <1>3, <1>4, <1>5, <1>6, <1>7, <1>8, <1>9, <1>10 DEF OutboxNext, Relay

-----------------------------------------------------------------------------
(* The naive path *)

\* The first delivery of an order's event adds one to every count.
LEMMA ReceiveNewOrder ==
  ASSUME TypeOK, NEW i \in 1..inserted, i \notin inbox, Receive(i),
         books.deliveries = Cardinality(inbox), books.with_inbox.events = Cardinality(inbox)
  PROVE  /\ books'.deliveries = Cardinality(inbox')
         /\ books'.with_inbox.events = Cardinality(inbox')
<1>1. inserted \in Nat /\ inbox \subseteq 1..inserted
  BY DEF TypeOK
<1>2. IsFiniteSet(inbox)
  <2>1. IsFiniteSet(1..inserted)
    <3>1. 1 \in Int /\ inserted \in Int
      BY <1>1
    <3> QED
      BY <3>1, FS_Interval, Zenon
  <2> QED
    BY <1>1, <2>1, FS_Subset
<1>3. inbox' = inbox \cup {i} /\ Cardinality(inbox') = Cardinality(inbox) + 1
  BY <1>2, FS_AddElement DEF Receive
<1>4. books'.deliveries = books.deliveries + 1
  BY DEF Receive
<1>5. books'.with_inbox.events = books.with_inbox.events + 1
  BY DEF Receive, AddTo
<1> QED
  BY <1>3, <1>4, <1>5

LEMMA NaiveKeepsCounts ==
  ASSUME Inv, mode = "naive", [OutboxNext]_outboxVars
  PROVE  NaiveMode'
<1> USE DEF Inv, NaiveMode, ordersVars, relayVars, ledgerVars
<1>1. ASSUME NEW cents \in Amounts, CommitNaive(cents) PROVE NaiveMode'
  <2>1. inserted + 1 \notin inbox /\ inserted + 1 \notin DOMAIN answer
    BY DEF TypeOK
  <2> QED
    BY <1>1, <2>1 DEF CommitNaive
<1>2. ASSUME NEW i \in 1..inserted, CrashNaive(i) PROVE NaiveMode'
  BY <1>2 DEF CrashNaive, AnswerWith
<1>3. ASSUME NEW i \in 1..inserted, PublishNaive(i) PROVE NaiveMode'
  <2>1. i \in publishing /\ i \notin inbox /\ publishing' = publishing \ {i}
        /\ sent' = sent /\ batch' = batch /\ published' = published
    BY <1>3 DEF PublishNaive
  <2>2. PICK what \in {"created", "error"} :
          /\ AnswerWith(i, what)
          /\ what = "created" => Receive(i)
          /\ Receive(i) \/ UNCHANGED <<inbox, books>>
    BY <1>3 DEF PublishNaive, SendOk, SendFails
  <2>3. /\ books'.deliveries = Cardinality(inbox')
        /\ books'.with_inbox.events = Cardinality(inbox')
    <3>1. CASE Receive(i)
      BY <2>1, <3>1, ReceiveNewOrder
    <3>2. CASE UNCHANGED <<inbox, books>>
      BY <3>2
    <3> QED
      BY <2>2, <3>1, <3>2
  <2>4. inbox \subseteq inbox' /\ inbox' \subseteq inbox \cup {i} /\ (what = "created" => i \in inbox')
    BY <2>2 DEF Receive
  <2>5. /\ DOMAIN answer' = DOMAIN answer \cup {i}
        /\ \A j \in DOMAIN answer' : answer'[j] = IF j = i THEN what ELSE answer[j]
    BY <2>2 DEF AnswerWith
  <2> QED
    BY <2>1, <2>3, <2>4, <2>5
<1>4. \A cents \in Amounts : ~PlaceOutbox(cents)
  BY DEF PlaceOutbox
<1>5. ~RelayTick /\ ~RelayCrash /\ ~MarkSent /\ \A i \in 1..inserted : ~RelaySend(i)
  BY DEF RelayTick, RelayCrash, MarkSent, RelaySend, Oldest
<1>6. CASE UNCHANGED outboxVars
  BY <1>6 DEF outboxVars
<1> QED
  BY <1>1, <1>2, <1>3, <1>4, <1>5, <1>6 DEF OutboxNext, Relay

-----------------------------------------------------------------------------
(* Both paths *)

LEMMA InitInv == OutboxInit => Inv
<1> SUFFICES ASSUME OutboxInit PROVE Inv
  OBVIOUS
<1> USE DEF OutboxInit, Empty
<1>1. OutboxMode
  <2>1. Frontiers(0, 0, 0)
    BY DEF Frontiers
  <2> QED
    BY <2>1 DEF OutboxMode
<1>2. NaiveMode
  BY FS_EmptySet DEF NaiveMode
<1> QED
  BY <1>1, <1>2, InitType DEF Inv

\* The mode is read once.
LEMMA ModeIsFixed == [OutboxNext]_outboxVars => mode' = mode
<1> USE DEF ordersVars
<1>1. \A cents \in Amounts : CommitNaive(cents) \/ PlaceOutbox(cents) => mode' = mode
  BY DEF CommitNaive, PlaceOutbox
<1>2. \A i \in 1..inserted : CrashNaive(i) \/ PublishNaive(i) \/ RelaySend(i) => mode' = mode
  BY DEF CrashNaive, PublishNaive, RelaySend
<1>3. RelayTick \/ RelayCrash \/ MarkSent \/ UNCHANGED outboxVars => mode' = mode
  BY DEF RelayTick, RelayCrash, MarkSent, outboxVars
<1> QED
  BY <1>1, <1>2, <1>3 DEF OutboxNext, Relay

LEMMA NextInv == Inv /\ [OutboxNext]_outboxVars => Inv'
BY NextType, ModeIsFixed, RelayKeepsFrontiers, NaiveKeepsCounts DEF Inv

THEOREM Invariance == OutboxSpec => []Inv
BY InitInv, NextInv, PTL DEF OutboxSpec

\* Every reachable state has the types TypeOK gives.
THEOREM TypeCorrect == OutboxSpec => []TypeOK
BY Invariance, PTL DEF Inv

\* A row is marked sent only once the ledger has heard of the order.
THEOREM NothingIsLost == OutboxSpec => []SentIsSeen
<1>1. Inv => SentIsSeen
  BY DEF Inv, TypeOK, OutboxMode, NaiveMode, Frontiers, SentIsSeen
<1> QED
  BY <1>1, Invariance, PTL

LEMMA SeenSize == ASSUME Inv, mode = "outbox"
                  PROVE  \E k, n, m \in Nat : Frontiers(k, n, m) /\ Cardinality(inbox) = n
<1>1. PICK k \in Nat, n \in Nat, m \in Nat : Frontiers(k, n, m)
  BY DEF Inv, OutboxMode
<1>2. Cardinality(1..n) = n
  BY FS_Interval
<1> QED
  BY <1>1, <1>2 DEF Frontiers

\* The ledger first hears of orders in the order they were placed.
THEOREM LedgerHearsInOrder == OutboxSpec => []HeardInOrder
<1>1. Inv => HeardInOrder
  BY SeenSize DEF HeardInOrder, Frontiers
<1> QED
  BY <1>1, Invariance, PTL

\* Every superfluous delivery is paid for by a failure of its own.
THEOREM DuplicatesArePaidFor == OutboxSpec => []DuplicatesNeedFaults
<1>1. ASSUME Inv PROVE DuplicatesNeedFaults
  <2>1. CASE mode = "outbox"
    <3>1. PICK k \in Nat, n \in Nat, m \in Nat : Frontiers(k, n, m) /\ Cardinality(inbox) = n
      BY <1>1, <2>1, SeenSize
    <3>2. books.deliveries \in Nat /\ faults \in Nat
      BY <1>1 DEF Inv, TypeOK
    <3> QED
      BY <3>1, <3>2 DEF Frontiers, DuplicatesNeedFaults
  <2>2. CASE mode = "naive"
    <3>1. books.deliveries \in Nat /\ faults \in Nat /\ books.deliveries = Cardinality(inbox)
      BY <1>1, <2>2 DEF Inv, TypeOK, NaiveMode
    <3> QED
      BY <3>1 DEF DuplicatesNeedFaults
  <2> QED
    BY <1>1, <2>1, <2>2 DEF Inv, TypeOK
<1> QED
  BY <1>1, Invariance, PTL

\* A naive 201 is honest.
THEOREM CreatedOrdersAreHeardOf == OutboxSpec => []CreatedIsHeard
<1>1. Inv => CreatedIsHeard
  BY DEF Inv, NaiveMode, CreatedIsHeard
<1> QED
  BY <1>1, Invariance, PTL

\* The books with the inbox count every order heard of once; with nothing
\* pending they count every order placed.
InboxCountsOrders == /\ books.with_inbox.events = Cardinality(inbox)
                     /\ mode = "outbox" /\ Unsent = {} => books.with_inbox.events = inserted

THEOREM InboxCountsEachOrderOnce == OutboxSpec => []InboxCountsOrders
<1>1. ASSUME Inv PROVE InboxCountsOrders
  <2>1. CASE mode = "outbox"
    <3>1. PICK k \in Nat, n \in Nat, m \in Nat : Frontiers(k, n, m) /\ Cardinality(inbox) = n
      BY <1>1, <2>1, SeenSize
    <3>2. books.with_inbox.events = n
      BY <3>1 DEF Frontiers
    <3>3. Unsent = {} => n = inserted
      <4>1. inserted \in Nat /\ 1..n \subseteq 1..inserted /\ sent = 1..k /\ 1..k \subseteq 1..n
        BY <1>1, <3>1 DEF Inv, TypeOK, Frontiers
      <4>2. n <= inserted
        BY <4>1
      <4>3. Unsent = {} => inserted <= k
        BY <4>1 DEF Unsent
      <4>4. k <= n
        BY <4>1
      <4> QED
        BY <4>1, <4>2, <4>3, <4>4
    <3> QED
      BY <3>1, <3>2, <3>3 DEF InboxCountsOrders
  <2>2. CASE mode = "naive"
    BY <1>1, <2>2 DEF Inv, NaiveMode, InboxCountsOrders
  <2> QED
    BY <1>1, <2>1, <2>2 DEF Inv, TypeOK
<1> QED
  BY <1>1, Invariance, PTL

-----------------------------------------------------------------------------
(* The books *)

LEMMA SeenIsFinite == TypeOK => IsFiniteSet(inbox)
<1> SUFFICES ASSUME TypeOK PROVE IsFiniteSet(inbox)
  OBVIOUS
<1>1. IsFiniteSet(1..inserted)
  <2>1. 1 \in Int /\ inserted \in Int
    BY DEF TypeOK
  <2> QED
    BY <2>1, FS_Interval, Zenon
<1> QED
  BY <1>1, FS_Subset DEF TypeOK

\* A delivery adds an order the ledger has not heard of to both sides of the
\* equation, and one it has heard of to neither.
LEMMA ReceiveIsExact ==
  ASSUME TypeOK, InboxIsExact, NEW i \in 1..inserted, Receive(i), amount' = amount
  PROVE  InboxIsExact'
<1>1. IsFiniteSet(inbox) /\ \A j \in 1..inserted : amount[j] \in Nat
  BY SeenIsFinite DEF TypeOK
<1>2. CASE i \in inbox
  <2>1. inbox' = inbox /\ books'.with_inbox = books.with_inbox
    BY <1>2 DEF Receive
  <2> QED
    BY <2>1 DEF InboxIsExact, Revenue
<1>3. CASE i \notin inbox
  <2>1. inbox' = inbox \cup {i} /\ books'.with_inbox = AddTo(books.with_inbox, amount[i])
    BY <1>3 DEF Receive
  <2>2. Cardinality(inbox \cup {i}) = Cardinality(inbox) + 1
    BY <1>1, <1>3, FS_AddElement
  <2>3. inbox \cup {i} \subseteq 1..inserted
    BY DEF TypeOK
  <2>4. /\ SumFunctionOnSet(amount, inbox \cup {i}) = amount[i] + SumFunctionOnSet(amount, inbox)
        /\ SumFunctionOnSet(amount, inbox) \in Nat
    BY <1>1, <1>3, <2>3, SumAdd, SumNat
  <2>5. amount[i] + SumFunctionOnSet(amount, inbox) = SumFunctionOnSet(amount, inbox) + amount[i]
    BY <1>1, <2>4
  <2> QED
    BY <2>1, <2>2, <2>4, <2>5 DEF InboxIsExact, Revenue, AddTo
<1> QED
  BY <1>2, <1>3

\* A new order changes no amount the sum is about.
LEMMA InsertIsExact ==
  ASSUME TypeOK, InboxIsExact, NEW cents \in Amounts, InsertOrder(cents), UNCHANGED ledgerVars
  PROVE  InboxIsExact'
<1>1. \A j \in inbox : amount[j] = amount'[j]
  BY DEF TypeOK, InsertOrder
<1>2. SumFunctionOnSet(amount, inbox) = SumFunctionOnSet(amount', inbox)
  BY <1>1, SeenIsFinite, SumCongruent
<1> QED
  BY <1>2 DEF InboxIsExact, Revenue, ledgerVars

LEMMA InitIsExact == OutboxInit => InboxIsExact
BY FS_EmptySet, SumEmpty DEF OutboxInit, Empty, InboxIsExact, Revenue

LEMMA NextIsExact == TypeOK /\ InboxIsExact /\ [OutboxNext]_outboxVars => InboxIsExact'
<1> SUFFICES ASSUME TypeOK, InboxIsExact, [OutboxNext]_outboxVars PROVE InboxIsExact'
  OBVIOUS
<1>1. ASSUME NEW cents \in Amounts, CommitNaive(cents) \/ PlaceOutbox(cents) PROVE InboxIsExact'
  BY <1>1, InsertIsExact DEF CommitNaive, PlaceOutbox, ledgerVars
<1>2. ASSUME amount' = amount, UNCHANGED ledgerVars PROVE InboxIsExact'
  BY <1>2 DEF InboxIsExact, Revenue, ledgerVars
<1>3. ASSUME NEW i \in 1..inserted, PublishNaive(i) \/ RelaySend(i) PROVE InboxIsExact'
  <2>1. amount' = amount /\ (Receive(i) \/ UNCHANGED ledgerVars)
    BY <1>3 DEF PublishNaive, RelaySend, SendOk, SendFails, ordersVars
  <2> QED
    BY <1>2, <2>1, ReceiveIsExact
<1>4. ASSUME \E i \in 1..inserted : CrashNaive(i) PROVE InboxIsExact'
  BY <1>2, <1>4 DEF CrashNaive
<1>5. CASE RelayTick \/ RelayCrash \/ MarkSent \/ UNCHANGED outboxVars
  BY <1>2, <1>5 DEF RelayTick, RelayCrash, MarkSent, outboxVars, ordersVars
<1> QED
  BY <1>1, <1>3, <1>4, <1>5 DEF OutboxNext, Relay

\* The books with the inbox hold every order heard of exactly once, its event
\* and its cents, however often it was delivered and whichever of the write
\* paths and failures led there.
THEOREM InboxBooksAreExact == OutboxSpec => []InboxIsExact
<1>1. TypeOK /\ InboxIsExact /\ [OutboxNext]_outboxVars /\ TypeOK' => InboxIsExact'
  BY NextIsExact
<1> QED
  BY <1>1, InitIsExact, TypeCorrect, PTL DEF OutboxSpec
=============================================================================
