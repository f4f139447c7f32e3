------------------------------- MODULE CqrsEs -------------------------------
(***************************************************************************)
(* src/cqrs-es: orders-command-service keeps an order as the log of its    *)
(* events and orders-query-service lists orders from the events it hears.  *)
(*                                                                         *)
(* Every command loads the history, decides on what it folds to, appends   *)
(* an event and publishes it.  load and append take the lock separately    *)
(* and append takes no expected version, so another command may append in  *)
(* between: `seen` is how much of the log a command has loaded.            *)
(*                                                                         *)
(* An event is named for the status it folds to, OrderEvent::Paid "Paid".  *)
(* A Placed event also carries the order, reduced to the price it read:    *)
(* `price`.  users-service and catalog-service are those of src/event-     *)
(* driven (Announcements); what they announce arrives at any time.         *)
(***************************************************************************)
EXTENDS Naturals, Sequences, FiniteSets

CONSTANTS OrderIds,           \* POST /orders requests, each with the id it makes
          Commands, Command, \* [Commands -> order, event]: pay, ship or cancel
          Prices,           \* what catalog-service may announce
          MaxCommands,      \* bound on the commands sent
          MaxGone,          \* bound on clients that hang up
          MaxQueryRestarts  \* bound on restarts of orders-query-service

ASSUME CqrsAssumption ==
  /\ Command \in [Commands -> [order : OrderIds, event : {"Paid", "Shipped", "Cancelled"}]]
  /\ Prices \subseteq Nat \ {0}
  /\ MaxCommands \in Nat /\ MaxGone \in Nat /\ MaxQueryRestarts \in Nat

VARIABLES
  userKnown, rate,          \* the read model of neighbours: the user, the price (0: none)
  streams,                  \* [OrderIds -> sequence of events], the event store
  sheet,                    \* [OrderIds -> the price in its Placed event]
  placing,                  \* [OrderIds -> where POST /orders is]
  phase, seen,              \* [Commands -> where it is], [Commands -> events loaded]
  topics,                   \* [event -> orders], one subject each, for the query side
  view,                     \* [OrderIds -> status and price], the query side's map
  rushed, missed,           \* history: orders with an event appended before the one
                            \* before was consumed; with an event never consumed
  gone, queryRestarts       \* how much of each bound is spent

neighbours == <<userKnown, rate>>
log == <<streams, sheet>>
handlers == <<placing, phase, seen>>
querySide == <<topics, view>>
cqrsHistory == <<rushed, missed, gone, queryRestarts>>
cqrsVars == <<neighbours, log, handlers, querySide, cqrsHistory>>

Events == {"Placed", "Paid", "Shipped", "Cancelled"}
Unlisted == [status |-> "none", price |-> 0]

\* event_store.rs load.
History(o) == streams[o]

\* aggregate.rs fold: apply lets every event overwrite the status and only
\* Placed write the rest; None of an empty history.
Fold(history) == IF history = <<>> THEN "none" ELSE history[Len(history)]

\* Mutant: an order is cancelled whatever became of it.
AcceptsLateCancel(event) == CASE event = "Paid"      -> {"Placed"}
                              [] event = "Shipped"   -> {"Paid"}
                              [] event = "Cancelled" -> {"Placed", "Paid", "Shipped"}

\* The decisions of pay, ship and cancel: the statuses they accept.
Accepts(event) == CASE event = "Paid"      -> {"Placed"}
                    [] event = "Shipped"   -> {"Paid"}
                    [] event = "Cancelled" -> {"Placed", "Paid"}

CqrsInit ==
  /\ userKnown = FALSE /\ rate = 0
  /\ streams = [o \in OrderIds |-> <<>>]
  /\ sheet = [o \in OrderIds |-> 0]
  /\ placing = [o \in OrderIds |-> "new"]
  /\ phase = [c \in Commands |-> "new"]
  /\ seen = [c \in Commands |-> 0]
  /\ topics = [e \in Events |-> <<>>]
  /\ view = [o \in OrderIds |-> Unlisted]
  /\ rushed = {} /\ missed = {}
  /\ gone = 0 /\ queryRestarts = 0

\* projection.rs of the command service: one task per subject.
HearUser == /\ ~userKnown
            /\ userKnown' = TRUE
            /\ UNCHANGED <<rate, log, handlers, querySide, cqrsHistory>>

\* product_created and product_price_changed, in any order.
HearPrice(n) == /\ n # rate
                /\ rate' = n
                /\ UNCHANGED <<userKnown, log, handlers, querySide, cqrsHistory>>

-----------------------------------------------------------------------------
(* orders-command-service *)

\* An event of o that was appended and not yet consumed by the query side.
Underway(o) == \/ placing[o] = "appended"
               \/ \E c \in Commands : Command[c].order = o /\ phase[c] = "appended"
               \/ \E e \in Events : \E i \in DOMAIN topics[e] : topics[e][i] = o

\* event_store.rs append: pushed, whatever the stream holds by now.
AppendEvent(o, event) ==
  /\ streams' = [streams EXCEPT ![o] = Append(@, event)]
  /\ rushed' = IF Underway(o) THEN rushed \cup {o} ELSE rushed

PublishEvent(o, event) == topics' = [topics EXCEPT ![event] = Append(@, o)]

\* place 58-66: the lines, then user_exists.
EnterPlace(o) ==
  /\ placing[o] = "new"
  /\ \E hasLines \in BOOLEAN :
       placing' = [placing EXCEPT ![o] = IF hasLines /\ userKnown THEN "pricing" ELSE "refused"]
  /\ UNCHANGED <<neighbours, log, phase, seen, querySide, cqrsHistory>>

\* place 68-88: the quantity, price_of; what it comes to may panic.
PricePlace(o) ==
  /\ placing[o] = "pricing"
  /\ \E accepted \in BOOLEAN :
       placing' = [placing EXCEPT ![o] = IF accepted /\ rate > 0 THEN "priced" ELSE "refused"]
  /\ sheet' = [sheet EXCEPT ![o] = rate]
  /\ UNCHANGED <<neighbours, streams, phase, seen, querySide, cqrsHistory>>

\* place 90-96: an id nobody else has, and its first event.
AppendPlaced(o) ==
  /\ placing[o] = "priced"
  /\ placing' = [placing EXCEPT ![o] = "appended"]
  /\ AppendEvent(o, "Placed")
  /\ UNCHANGED <<neighbours, sheet, phase, seen, querySide, missed, gone, queryRestarts>>

\* place 98-117.
PublishPlaced(o) ==
  /\ placing[o] = "appended"
  /\ placing' = [placing EXCEPT ![o] = "answered"]
  /\ PublishEvent(o, "Placed")
  /\ UNCHANGED <<neighbours, log, phase, seen, view, cqrsHistory>>

Sent(c) == /\ phase[c] = "new"
           /\ Cardinality({d \in Commands : phase[d] # "new"}) < MaxCommands

\* Mutant: the status is not compared with what the command accepts.
LoadUnchecked(c) ==
  /\ Sent(c)
  /\ LET history == History(Command[c].order) IN
       /\ seen' = [seen EXCEPT ![c] = Len(history)]
       /\ phase' = [phase EXCEPT ![c] = IF history = <<>> THEN "not found" ELSE "decided"]
  /\ UNCHANGED <<neighbours, log, placing, querySide, cqrsHistory>>

\* pay 120-127, ship 140-147, cancel 161-168: load, fold, decide.
Load(c) ==
  /\ Sent(c)
  /\ LET history == History(Command[c].order) IN
       /\ seen' = [seen EXCEPT ![c] = Len(history)]
       /\ phase' = [phase EXCEPT ![c] =
            IF history = <<>> THEN "not found"
            ELSE IF Fold(history) \in Accepts(Command[c].event) THEN "decided" ELSE "invalid"]
  /\ UNCHANGED <<neighbours, log, placing, querySide, cqrsHistory>>

\* pay 129-130, ship 149-150, cancel 170-171.
AppendDecided(c) ==
  /\ phase[c] = "decided"
  /\ phase' = [phase EXCEPT ![c] = "appended"]
  /\ AppendEvent(Command[c].order, Command[c].event)
  /\ UNCHANGED <<neighbours, sheet, placing, seen, querySide, missed, gone, queryRestarts>>

\* Mutant: the handler returns before it publishes.
PublishNothing(c) ==
  /\ phase[c] = "appended"
  /\ phase' = [phase EXCEPT ![c] = "answered"]
  /\ UNCHANGED <<neighbours, log, placing, seen, querySide, cqrsHistory>>

\* pay 131-137, ship 151-158, cancel 172-179.
PublishAppended(c) ==
  /\ phase[c] = "appended"
  /\ phase' = [phase EXCEPT ![c] = "answered"]
  /\ PublishEvent(Command[c].order, Command[c].event)
  /\ UNCHANGED <<neighbours, log, placing, seen, view, cqrsHistory>>

\* A client hangs up and its handler is dropped at an await: an event already
\* appended is never published.  A publish that fails, which publish 193-198
\* logs, comes to the same.
HangUp(c) ==
  /\ gone < MaxGone
  /\ gone' = gone + 1
  /\ phase[c] \in {"decided", "appended"}
  /\ phase' = [phase EXCEPT ![c] = "abandoned"]
  /\ missed' = IF phase[c] = "appended" THEN missed \cup {Command[c].order} ELSE missed
  /\ UNCHANGED <<neighbours, log, placing, seen, querySide, rushed, queryRestarts>>

HangUpPlace(o) ==
  /\ gone < MaxGone
  /\ gone' = gone + 1
  /\ placing[o] \in {"priced", "appended"}
  /\ placing' = [placing EXCEPT ![o] = "abandoned"]
  /\ missed' = IF placing[o] = "appended" THEN missed \cup {o} ELSE missed
  /\ UNCHANGED <<neighbours, log, phase, seen, querySide, rushed, queryRestarts>>

-----------------------------------------------------------------------------
(* orders-query-service *)

TakeTopic(e) == /\ topics[e] # <<>>
                /\ topics' = [topics EXCEPT ![e] = Tail(@)]
                /\ UNCHANGED <<neighbours, log, handlers>>

InsertPlaced(o) == view' = [view EXCEPT ![o] = [status |-> "Placed", price |-> sheet[o]]]

ConsumePlaced == /\ TakeTopic("Placed")
                 /\ InsertPlaced(Head(topics["Placed"]))
                 /\ UNCHANGED cqrsHistory

\* Mutant: an order the query side has not heard of is listed by its status.
SetOrInsertStatus(o, status) == view' = [view EXCEPT ![o].status = status]

\* view.rs set_status: dropped when the order is not listed.
SetStatus(o, status) ==
  \/ view[o] # Unlisted /\ view' = [view EXCEPT ![o].status = status]
  \/ view[o] = Unlisted /\ UNCHANGED view

\* consume_paid, consume_shipped, consume_cancelled: one task each.
ConsumeChange(e) == /\ TakeTopic(e)
                    /\ SetStatus(Head(topics[e]), e)
                    /\ UNCHANGED cqrsHistory

\* "today a restart genuinely loses the projection" (view.rs:12).
RestartQuery ==
  /\ queryRestarts < MaxQueryRestarts
  /\ queryRestarts' = queryRestarts + 1
  /\ topics' = [e \in Events |-> <<>>]
  /\ view' = [o \in OrderIds |-> Unlisted]
  /\ missed' = {o \in OrderIds : streams[o] # <<>>} \cup missed
  /\ UNCHANGED <<neighbours, log, handlers, rushed, gone>>

PlaceHandler(o) == EnterPlace(o) \/ PricePlace(o) \/ AppendPlaced(o) \/ PublishPlaced(o)
Transition(c) == Load(c) \/ AppendDecided(c) \/ PublishAppended(c)
Pay(c) == Command[c].event = "Paid" /\ Transition(c)
Ship(c) == Command[c].event = "Shipped" /\ Transition(c)
Cancel(c) == Command[c].event = "Cancelled" /\ Transition(c)
CommandHandler(c) == Pay(c) \/ Ship(c) \/ Cancel(c)
Query == ConsumePlaced \/ \E e \in Events \ {"Placed"} : ConsumeChange(e)

CqrsNext ==
  \/ HearUser \/ \E n \in Prices : HearPrice(n)
  \/ \E o \in OrderIds : PlaceHandler(o) \/ HangUpPlace(o)
  \/ \E c \in Commands : CommandHandler(c) \/ HangUp(c)
  \/ Query \/ RestartQuery

CqrsSpec == CqrsInit /\ [][CqrsNext]_cqrsVars

-----------------------------------------------------------------------------
(* Properties *)

Lifecycle == INSTANCE OrderLifecycle WITH Orders <- OrderIds,
                                      status <- [o \in OrderIds |-> Fold(streams[o])]

\* "Load history, fold it into current state, check the requested transition
\* is legal from that state, append one new event" (service.rs:1-3).  A log
\* grows by one event at a time, Placed first and only first, and every other
\* is appended by a command that may take an order there from what it loaded:
\* the prefix of length seen, which others' appends may have left behind but
\* have not changed.  So an event illegal where it stands, a second payment or
\* a cancellation after a shipment, is one whose command was overtaken.
EveryEventWasLegal ==
  [][\A o \in OrderIds : streams'[o] # streams[o] =>
       \/ streams[o] = <<>> /\ streams'[o] = <<"Placed">>
       \/ \E c \in Commands :
            /\ phase[c] = "decided" /\ phase'[c] = "appended"
            /\ Command[c].order = o /\ streams'[o] = Append(streams[o], Command[c].event)
            /\ seen[c] \in 1..Len(streams[o])
            /\ Fold(SubSeq(streams[o], 1, seen[c])) \in Lifecycle!Before(Command[c].event)]_streams

\* The append of a command after another one has appended: the missing
\* expected_version (event_store.rs:6-12).
StaleAppend == \E c \in Commands : /\ phase[c] = "decided" /\ phase'[c] = "appended"
                                   /\ seen[c] # Len(streams[Command[c].order])

\* Stale appends apart, the logs implement the lifecycle of an order.
ImplementsLifecycle ==
  [][StaleAppend \/ Lifecycle!Next]_<<[o \in OrderIds |-> Fold(streams[o])]>>

\* The query side never lists an order that was not placed, a price it was
\* not placed at or a status it never had, though it may be behind for good.
ViewIsHistory ==
  \A o \in OrderIds : view[o] # Unlisted =>
    /\ view[o].price = sheet[o]
    /\ \E i \in DOMAIN streams[o] : streams[o][i] = view[o].status

\* The query side shows what became of an order in the end, unless one of its
\* events went unheard or was appended before the one before was consumed:
\* the four subjects are consumed by four tasks.
ViewCatchesUp ==
  \A o \in OrderIds : streams[o] # <<>> ~>
    view[o].status = Fold(streams[o]) \/ o \in rushed \cup missed
=============================================================================
