------------------------------- MODULE Outbox -------------------------------
(***************************************************************************)
(* The outbox lab: orders-service, its relay, and ledger-service with its  *)
(* inbox.  Both write paths are here: MODE=naive commits an order and then *)
(* publishes its event, MODE=outbox commits the order and an outbox row in *)
(* one transaction and leaves publishing to the relay.                     *)
(*                                                                         *)
(* Order ids count from 1, and an event's id is made of its order's: the   *)
(* order id stands for both.  The outbox has a row per order, in order, so *)
(* `sent`, the ids of the rows marked sent, stands for the table.          *)
(* A failure is a simulated crash or a POST that comes back as an error,   *)
(* whether or not the ledger got it; MaxFaults bounds them.                *)
(***************************************************************************)
EXTENDS Naturals, FiniteSets, Functions

CONSTANTS Amounts,          \* what an order may be worth
          MaxOrders,        \* bound on the orders placed
          MaxFaults         \* bound on failures in a behaviour

ASSUME OutboxAssumption == /\ Amounts \subseteq Nat
                           /\ MaxOrders \in Nat /\ MaxFaults \in Nat

VARIABLES
  mode,                     \* MODE, read when the service starts
  inserted, amount,         \* orders table: ids 1..inserted, [1..inserted -> Amounts]
  sent,                     \* outbox table: the rows marked sent
  publishing,               \* naive: orders committed whose publish is to come
  answer,                   \* the client's answer, by order: created or error
  batch,                    \* relay: the rows of this tick still to be published
  published,                \* relay: the row just published and not marked, or 0
  inbox,                    \* ledger: the orders its inbox has the events of
  books,                    \* ledger: the two sets of books
  faults

ordersVars == <<mode, inserted, amount, sent, publishing, answer>>
relayVars == <<batch, published>>
ledgerVars == <<inbox, books>>
outboxVars == <<ordersVars, relayVars, ledgerVars, faults>>

Empty == [events |-> 0, revenue |-> 0]

OutboxInit == /\ mode \in {"naive", "outbox"}
        /\ inserted = 0 /\ amount = <<>> /\ sent = {} /\ publishing = {} /\ answer = <<>>
        /\ batch = {} /\ published = 0
        /\ inbox = {}
        /\ books = [deliveries |-> 0, without_inbox |-> Empty, with_inbox |-> Empty]
        /\ faults = 0

-----------------------------------------------------------------------------
(* ledger-service *)

AddTo(tally, cents) == [events |-> tally.events + 1, revenue |-> tally.revenue + cents]

\* Mutant: there is no inbox, every delivery is applied to both books.
ReceiveWithoutInbox(i) ==
  /\ inbox' = inbox \cup {i}
  /\ books' = [deliveries |-> books.deliveries + 1,
               without_inbox |-> AddTo(books.without_inbox, amount[i]),
               with_inbox |-> AddTo(books.with_inbox, amount[i])]

\* main.rs receive: one delivery of order i's event, under the ledger's mutex.
Receive(i) ==
  /\ inbox' = inbox \cup {i}
  /\ books' = [deliveries |-> books.deliveries + 1,
               without_inbox |-> AddTo(books.without_inbox, amount[i]),
               with_inbox |-> IF i \in inbox THEN books.with_inbox
                                            ELSE AddTo(books.with_inbox, amount[i])]

\* publish.rs send: the POST succeeds, or it fails before or after the ledger
\* has handled it.
SendOk(i) == Receive(i) /\ UNCHANGED faults

SendFails(i) == /\ faults < MaxFaults
                /\ faults' = faults + 1
                /\ Receive(i) \/ UNCHANGED ledgerVars

-----------------------------------------------------------------------------
(* orders-service: the two write paths *)

\* db.rs insert_order, the next id with this amount.
InsertOrder(cents) == /\ inserted < MaxOrders
                      /\ inserted' = inserted + 1
                      /\ amount' = [i \in 1..(inserted + 1) |->
                                      IF i = inserted + 1 THEN cents ELSE amount[i]]

AnswerWith(i, what) ==
  answer' = [j \in DOMAIN answer \cup {i} |-> IF j = i THEN what ELSE answer[j]]

\* write.rs place_naive: the commit ...
CommitNaive(cents) == /\ mode = "naive"
                      /\ InsertOrder(cents)
                      /\ publishing' = publishing \cup {inserted + 1}
                      /\ UNCHANGED <<mode, sent, answer, relayVars, ledgerVars, faults>>

\* ... then the crash in between ...
CrashNaive(i) == /\ i \in publishing
                 /\ faults < MaxFaults
                 /\ faults' = faults + 1
                 /\ publishing' = publishing \ {i}
                 /\ AnswerWith(i, "error")
                 /\ UNCHANGED <<mode, inserted, amount, sent, relayVars, ledgerVars>>

\* ... or the publish, whose error is the client's answer.
PublishNaive(i) ==
  /\ i \in publishing
  /\ publishing' = publishing \ {i}
  /\ \/ SendOk(i) /\ AnswerWith(i, "created")
     \/ SendFails(i) /\ AnswerWith(i, "error")
  /\ UNCHANGED <<mode, inserted, amount, sent, relayVars>>

\* write.rs place_outbox: order and row in one transaction, then the answer.
PlaceOutbox(cents) == /\ mode = "outbox"
                      /\ InsertOrder(cents)
                      /\ AnswerWith(inserted + 1, "created")
                      /\ UNCHANGED <<mode, sent, publishing, relayVars, ledgerVars, faults>>

-----------------------------------------------------------------------------
(* relay.rs run *)

\* Mutants: the rows marked sent are read again; the newest row is not read.
UnsentAndSent == 1..inserted
UnsentButNewest == 1..(inserted - 1) \ sent

\* db.rs unsent
Unsent == 1..inserted \ sent

\* A tick: the rows to publish are read once.
RelayTick == /\ mode = "outbox"
        /\ batch = {} /\ published = 0
        /\ Unsent # {}
        /\ batch' = Unsent
        /\ UNCHANGED <<ordersVars, published, ledgerVars, faults>>

\* Rows leave the batch oldest first.
Oldest(i) == i \in batch /\ \A j \in batch : i <= j

\* Mutant: a row is marked before it is published.
RelayMarksFirst(i) == /\ published = 0
                      /\ Oldest(i)
                      /\ sent' = sent \cup {i}
                      /\ batch' = batch \ {i}
                      /\ SendOk(i) \/ SendFails(i)
                      /\ UNCHANGED <<mode, inserted, amount, publishing, answer, published>>

\* Mutant: a failed publish does not stop the batch.
RelayGoesOn(i) == /\ published = 0
                  /\ Oldest(i)
                  /\ batch' = batch \ {i}
                  /\ \/ SendOk(i) /\ published' = i
                     \/ SendFails(i) /\ UNCHANGED published
                  /\ UNCHANGED ordersVars

\* Publishing a row; an error ends the tick.
RelaySend(i) == /\ published = 0
                /\ Oldest(i)
                /\ \/ /\ SendOk(i)
                      /\ published' = i
                      /\ batch' = batch \ {i}
                   \/ /\ SendFails(i)
                      /\ batch' = {}
                      /\ UNCHANGED published
                /\ UNCHANGED ordersVars

\* The crash after publishing: the row stays unmarked, the tick ends.
RelayCrash == /\ published # 0
              /\ faults < MaxFaults
              /\ faults' = faults + 1
              /\ published' = 0
              /\ batch' = {}
              /\ UNCHANGED <<ordersVars, ledgerVars>>

\* db.rs mark_sent
MarkSent == /\ published # 0
            /\ sent' = sent \cup {published}
            /\ published' = 0
            /\ UNCHANGED <<mode, inserted, amount, publishing, answer, batch, ledgerVars, faults>>

\* The relay's task, which a crash ends only for the tick.
Relay == RelayTick \/ MarkSent \/ \E i \in 1..inserted : RelaySend(i)

OutboxNext == \/ \E cents \in Amounts : CommitNaive(cents) \/ PlaceOutbox(cents)
              \/ \E i \in 1..inserted : CrashNaive(i) \/ PublishNaive(i)
              \/ Relay \/ RelayCrash

OutboxSpec == OutboxInit /\ [][OutboxNext]_outboxVars

-----------------------------------------------------------------------------
(* Properties *)

TallyType == [events : Nat, revenue : Nat]

TypeOK == /\ mode \in {"naive", "outbox"}
          /\ inserted \in Nat
          /\ amount \in [1..inserted -> Amounts]
          /\ sent \subseteq 1..inserted /\ publishing \subseteq 1..inserted
          /\ DOMAIN answer \subseteq 1..inserted
          /\ \A i \in DOMAIN answer : answer[i] \in {"created", "error"}
          /\ batch \subseteq 1..inserted /\ published \in 0..inserted
          /\ inbox \subseteq 1..inserted
          /\ books \in [deliveries : Nat, without_inbox : TallyType, with_inbox : TallyType]
          /\ faults \in 0..MaxFaults

\* Nothing is lost: a row is marked sent only once the ledger has the event.
SentIsSeen == sent \subseteq inbox

Revenue(ids) == SumFunctionOnSet(amount, ids)

\* The books with the inbox count each order heard of exactly once, however
\* often it was delivered.
InboxIsExact == books.with_inbox = [events |-> Cardinality(inbox), revenue |-> Revenue(inbox)]

\* The ledger first hears of orders in the order they were placed: a failed
\* publish stops the tick, and the next one retries from the same row.
HeardInOrder == mode = "outbox" => inbox = 1..Cardinality(inbox)

\* Each superfluous delivery is paid for by a failure of its own.
DuplicatesNeedFaults == books.deliveries <= Cardinality(inbox) + faults

\* A naive 201 is honest: the ledger has the event.  (A naive 500 is not: the
\* order exists either way, and the ledger may have heard of it or not.)
CreatedIsHeard ==
  mode = "naive" => \A i \in DOMAIN answer : answer[i] = "created" => i \in inbox

\* Every order committed with an outbox row reaches the ledger in the end and
\* its row is marked.  (An order that is inserted stays so, and a marked row
\* stays marked: "again and again" is "once, and from then on".)
EveryRowIsSent ==
  \A i \in 1..MaxOrders : []<>(mode = "outbox" /\ i <= inserted => i \in sent)
=============================================================================
