----------------------------- MODULE EventDriven -----------------------------
(***************************************************************************)
(* src/event-driven: orders-service prices an order from its own copy of   *)
(* what users-service and catalog-service announced (Announcements) and    *)
(* tells notifications-service.                                            *)
(*                                                                         *)
(* The copy is filled by one task per subject.  place checks the user,     *)
(* then reads the price of one line after the other; every read is atomic  *)
(* and nothing holds between two of them.                                  *)
(***************************************************************************)
EXTENDS Announcements

CONSTANTS Baskets,          \* POST /orders requests, each with its order
          Basket,           \* [Baskets -> user, lines of product and quantity]
          MaxDowntime       \* bound on restarts of orders-service

ASSUME EventDrivenAssumption ==
  /\ \A b \in Baskets : /\ Basket[b].user \in Users
                        /\ Basket[b].lines \in Seq(Line)
  /\ MaxDowntime \in Nat

VARIABLES
  known, quoted,            \* the read model: users, and cents per product (0: none)
  desk,                     \* [Baskets -> where the request is]
  bill,                     \* [Baskets -> unit prices read so far, and the sum]
  placed,                   \* the orders in orders-service's repository
  orderQueue, mailed,       \* orders.placed, and the orders notified
  downtime                  \* restarts so far

deskVars == <<desk, bill, placed, orderQueue, mailed>>
eventVars == <<announceVars, build, known, quoted, deskVars, downtime>>

Nothing == [units |-> <<>>, sum |-> 0]

\* events.rs OrderPlaced, what a notification is made of.
OrderPlaced(b) == [order |-> b, units |-> bill[b].units, sum |-> bill[b].sum]

EventDrivenInit ==
  /\ AnnounceInit
  /\ build \in {"debug", "release"}
  /\ known = {} /\ quoted = [p \in Products |-> 0]
  /\ desk = [b \in Baskets |-> "new"]
  /\ bill = [b \in Baskets |-> Nothing]
  /\ placed = {} /\ orderQueue = <<>> /\ mailed = {}
  /\ downtime = 0

-----------------------------------------------------------------------------
(* orders-service: projection.rs and read_model.rs *)

\* projection.rs spawn, from main.rs: all three subscriptions are there
\* before the first request is accepted.
Subscribe ==
  /\ ~listening
  /\ listening' = TRUE
  /\ UNCHANGED <<sourceVars, wire, historyVars, build, known, quoted, deskVars, downtime>>

\* The process stops: its memory and what was queued for it are gone.
StopOrders ==
  /\ listening
  /\ downtime < MaxDowntime
  /\ downtime' = downtime + 1
  /\ listening' = FALSE
  /\ wire' = [s \in Subjects |-> <<>>]
  /\ unheard' = unheard \cup {u \in Users : registering[u] = Status.Ok}
                        \cup {p \in Products : \E c \in Calls : Priced(p, Call[c].price) \in said}
  /\ known' = {} /\ quoted' = [p \in Products |-> 0]
  /\ desk' = [b \in Baskets |-> IF desk[b] \in {"pricing", "stored"} THEN "dropped" ELSE desk[b]]
  /\ placed' = {}
  /\ UNCHANGED <<sourceVars, unsent, said, hasty, build, bill, orderQueue, mailed>>

Take(subject) == /\ listening /\ wire[subject] # <<>>
                 /\ wire' = [wire EXCEPT ![subject] = Tail(@)]
                 /\ UNCHANGED <<sourceVars, listening, historyVars, build, deskVars, downtime>>

RecordUser(u) == known' = known \cup {u} /\ UNCHANGED quoted

ConsumeUsers == Take(UserRegistered) /\ RecordUser(Head(wire[UserRegistered]))

\* Mutant: only a product not yet known is written.
RecordFirstPrice(m) ==
  /\ quoted' = [quoted EXCEPT ![m.product] = IF @ = 0 THEN m.price ELSE @]
  /\ UNCHANGED known

RecordPrice(m) == quoted' = [quoted EXCEPT ![m.product] = m.price] /\ UNCHANGED known

ConsumeProductsCreated == Take(ProductCreated) /\ RecordPrice(Head(wire[ProductCreated]))

ConsumePriceChanged == Take(ProductPriceChanged) /\ RecordPrice(Head(wire[ProductPriceChanged]))

-----------------------------------------------------------------------------
(* orders-service: service.rs place *)

UserExists(u) == u \in known
PriceOf(p) == quoted[p]
ToDesk(b, where) == desk' = [desk EXCEPT ![b] = where]
BesidesDesk == <<announceVars, build, known, quoted, downtime>>

\* 51-62: the lines, then user_exists.
Enter(b) ==
  /\ listening
  /\ desk[b] = "new"
  /\ ToDesk(b, IF Basket[b].lines = <<>> \/ ~UserExists(Basket[b].user) THEN Status.Validation ELSE "pricing")
  /\ UNCHANGED <<BesidesDesk, bill, placed, orderQueue, mailed>>

NextLine(b) == Basket[b].lines[Len(bill[b].units) + 1]

\* Mutant: the unit price is added once, whatever the quantity.
PriceLineOnce(b) ==
  /\ desk[b] = "pricing" /\ Len(bill[b].units) < Len(Basket[b].lines)
  /\ IF NextLine(b).quantity = 0 \/ PriceOf(NextLine(b).product) = 0
       THEN ToDesk(b, Status.Validation) /\ UNCHANGED bill
       ELSE /\ bill' = [bill EXCEPT ![b] = [units |-> Append(@.units, PriceOf(NextLine(b).product)),
                                            sum |-> (@.sum + PriceOf(NextLine(b).product)) % Modulus]]
            /\ UNCHANGED desk
  /\ UNCHANGED <<BesidesDesk, placed, orderQueue, mailed>>

\* 66-84: one line: its quantity, price_of, the sum.
PriceLine(b) ==
  /\ desk[b] = "pricing" /\ Len(bill[b].units) < Len(Basket[b].lines)
  /\ LET line == NextLine(b)
         unit == PriceOf(line.product)
         amount == unit * line.quantity
     IN \/ /\ line.quantity = 0 \/ unit = 0
           /\ ToDesk(b, Status.Validation)
           /\ UNCHANGED bill
        \/ /\ line.quantity > 0 /\ unit > 0
           /\ Panics(amount) \/ Panics(bill[b].sum + amount)
           /\ ToDesk(b, "dropped")
           /\ UNCHANGED bill
        \/ /\ line.quantity > 0 /\ unit > 0
           /\ ~Panics(amount) /\ ~Panics(bill[b].sum + amount)
           /\ bill' = [bill EXCEPT ![b] = [units |-> Append(@.units, unit),
                                           sum |-> (@.sum + amount) % Modulus]]
           /\ UNCHANGED desk
  /\ UNCHANGED <<BesidesDesk, placed, orderQueue, mailed>>

\* 86-92, repository.rs insert.
StoreOrder(b) ==
  /\ desk[b] = "pricing" /\ Len(bill[b].units) = Len(Basket[b].lines)
  /\ placed' = placed \cup {b}
  /\ ToDesk(b, "stored")
  /\ UNCHANGED <<BesidesDesk, bill, orderQueue, mailed>>

\* 94-113: OrderPlaced, whose loss is only logged.
AnnounceOrder(b) ==
  /\ desk[b] = "stored"
  /\ \/ orderQueue' = Append(orderQueue, OrderPlaced(b))
        /\ UNCHANGED unsent
     \/ unsent < MaxUnsent /\ unsent' = unsent + 1 /\ UNCHANGED orderQueue
  /\ ToDesk(b, Status.Ok)
  /\ UNCHANGED <<sourceVars, wire, listening, said, unheard, hasty, build, known, quoted, downtime,
                 bill, placed, mailed>>

\* notifications-service: the e-mail.
ConsumeOrderPlaced ==
  /\ orderQueue # <<>>
  /\ orderQueue' = Tail(orderQueue)
  /\ mailed' = mailed \cup {Head(orderQueue)}
  /\ UNCHANGED <<BesidesDesk, desk, bill, placed>>

OrdersService(b) == Enter(b) \/ PriceLine(b) \/ StoreOrder(b) \/ AnnounceOrder(b)

EventDrivenNext ==
  \/ AnnounceNext /\ UNCHANGED <<build, known, quoted, deskVars, downtime>>
  \/ Subscribe \/ StopOrders
  \/ ConsumeUsers \/ ConsumeProductsCreated \/ ConsumePriceChanged
  \/ \E b \in Baskets : OrdersService(b)
  \/ ConsumeOrderPlaced

-----------------------------------------------------------------------------
(* Properties *)

\* A product about which nothing is on its way.
Settled(p) == /\ \A c \in Calls : Call[c].product = p => calling[c] # "written"
              /\ \A s \in {ProductCreated, ProductPriceChanged} :
                   \A i \in DOMAIN wire[s] : wire[s][i].product # p

\* "This is what lets Orders' read model stay in sync with a price change"
\* (catalog-service/src/service.rs:3): the copy has catalog's price once the
\* announcements have arrived, for every product none of whose announcements
\* went unheard and that was never written again before the announcement of
\* the write before was sent (of its creation, consumed).  Without the last
\* condition it fails: the announcements are sent outside the lock of the
\* table, and the two subjects are consumed by two tasks.
CopyCatchesUp ==
  listening => \A p \in Products :
    Settled(p) /\ p \notin hasty \cup unheard => quoted[p] = price[p]

IsPriced(b, units, sum) ==
  /\ Basket[b].user \in said
  /\ Len(units) = Len(Basket[b].lines) /\ units # <<>>
  /\ \A i \in DOMAIN units : Priced(Basket[b].lines[i].product, units[i]) \in said
  /\ sum = Exactly(Basket[b].lines, units) % Modulus
  /\ build = "debug" => Exactly(Basket[b].lines, units) < Modulus

\* An order in the repository and in an e-mail is of a registered user and
\* prices every line at a price catalog announced; its total is the sum of
\* the lines, exactly in a debug build and modulo 2^64 in a release build.
OrdersArePricedAsAnnounced ==
  /\ \A b \in placed : IsPriced(b, bill[b].units, bill[b].sum)
  /\ \A m \in mailed : IsPriced(m.order, m.units, m.sum)
=============================================================================
