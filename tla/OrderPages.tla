----------------------------- MODULE OrderPages -----------------------------
(***************************************************************************)
(* src/bff: three services that keep users, products and orders in memory, *)
(* and two BFFs in front of them that forward a checkout and put a page    *)
(* about an order together.  src/microservices has the same services and   *)
(* no BFF, src/modular-monolith has them as modules of one process, whose  *)
(* calls cannot fail and which forget together: `style` says which it is.  *)
(*                                                                         *)
(* A call over HTTP reads or writes its service at one instant; then the   *)
(* reply travels.  A hiccup is a call that does not come back with an      *)
(* answer that can be read: the service is down, the connection breaks,    *)
(* the JSON is bad.  No call has a timeout and none is repeated.  A        *)
(* restart forgets what a service kept, for good: ids are drawn anew.      *)
(* Two users with one address are Announcements' business.                 *)
(***************************************************************************)
EXTENDS Shop

CONSTANTS Checkouts,        \* POST /checkout (or /orders), each with its order
          Checkout,         \* [Checkouts -> via, user, lines]
          Pages, Page,      \* GET /orders/:id: [Pages -> via, of]
          Price,            \* [Products -> cents]
          CountWidth,       \* bits of mobile-bff's item_count
          MaxHiccups, MaxRestarts

ASSUME OrderPagesAssumption ==
  /\ \A k \in Checkouts : /\ Checkout[k].via \in {"web", "mobile", "direct"}
                          /\ Checkout[k].user \in Users
                          /\ Checkout[k].lines \in Seq(Line)
  /\ Page \in [Pages -> [via : {"web", "mobile"}, of : Checkouts]]
  /\ Price \in [Products -> Nat \ {0}]
  /\ CountWidth \in Nat /\ MaxHiccups \in Nat /\ MaxRestarts \in Nat

VARIABLES
  style,                    \* the lab
  people, range,            \* users-service's users, catalog-service's products
  book,                     \* orders-service's orders, Checkouts -> order
  till,                     \* [Checkouts -> the request at orders-service]
  told,                     \* [Checkouts -> the status the client got]
  page,                     \* [Pages -> the request at its BFF]
  forgotten,                \* history: users, products and orders lost in a restart
  unanswered,               \* history: checkouts and pages that met a hiccup
  hiccups, restarts

built == <<build, style>>
pageVars == <<built, people, range, book, till, told, page, forgotten, unanswered, hiccups, restarts>>
stores == <<people, range, book>>
spent == <<forgotten, hiccups, restarts>>

NoOrder == [units |-> <<>>, sum |-> 0]
Fresh == [at |-> "new", units |-> <<>>, sum |-> 0, reply |-> "none"]
EmptyPage == [at |-> "new", customer |-> FALSE, names |-> <<>>, status |-> "none", count |-> 0]
Lines(k) == Checkout[k].lines

\* orders-service asks the others over HTTP; orders/src/lib.rs of the
\* monolith hands the order module the other two as objects.
Apart == style # "modular-monolith"

OrderPagesInit ==
  /\ style \in {"bff", "microservices", "modular-monolith"}
  /\ people = {} /\ range = {}
  /\ book = [k \in Checkouts |-> NoOrder]
  /\ till = [k \in Checkouts |-> Fresh]
  /\ told = [k \in Checkouts |-> "none"]
  /\ page = [g \in Pages |-> EmptyPage]
  /\ forgotten = {} /\ unanswered = {}
  /\ hiccups = 0 /\ restarts = 0

Hiccup(who) == /\ hiccups < MaxHiccups
               /\ hiccups' = hiccups + 1
               /\ unanswered' = unanswered \cup {who}
               /\ UNCHANGED <<forgotten, restarts>>

-----------------------------------------------------------------------------
(* users-service and catalog-service *)

\* service.rs create: nobody is created twice, a new id is drawn.
CreateUser(u) == /\ u \notin people \cup forgotten
                 /\ people' = people \cup {u}
                 /\ UNCHANGED <<built, range, book, till, told, page, unanswered, spent>>

CreateProduct(p) == /\ p \notin range \cup forgotten
                    /\ range' = range \cup {p}
                    /\ UNCHANGED <<built, people, book, till, told, page, unanswered, spent>>

Forget(what) == /\ restarts < MaxRestarts
                /\ restarts' = restarts + 1
                /\ forgotten' = forgotten \cup what
                /\ UNCHANGED <<built, page, told, hiccups>>

RestartUsers == Apart /\ Forget(people) /\ people' = {} /\ UNCHANGED <<range, book, till, unanswered>>

RestartCatalog == Apart /\ Forget(range) /\ range' = {} /\ UNCHANGED <<people, book, till, unanswered>>

-----------------------------------------------------------------------------
(* orders-service *)

\* error.rs: the status of a reply.
OrdersStatus == [Ok |-> "200", Validation |-> "400", NotFound |-> "404", Internal |-> "500"]

Held(k) == book[k] # NoOrder

\* The request at orders-service comes to an end; its reply is still to be
\* delivered.
End(k, reply) == till' = [till EXCEPT ![k].at = "replying", ![k].reply = reply]
Step(k, where) == till' = [till EXCEPT ![k].at = where]
TillOnly == UNCHANGED <<built, stores, told, page, unanswered, spent>>

\* A call that is made for k fails: Internal (clients.rs).
CallFails(k) == /\ Apart
                /\ Hiccup(k)
                /\ End(k, OrdersStatus.Internal)
                /\ UNCHANGED <<built, stores, told, page>>

\* clients.rs exists and price_of, of an answer: 404 is no such user, no price.
Exists(u) == u \in people
PriceAt(p) == IF p \in range THEN Price[p] ELSE 0

\* service.rs place 49-52.
Submit(k) ==
  /\ till[k].at = "new"
  /\ \/ Lines(k) = <<>> /\ End(k, OrdersStatus.Validation) /\ TillOnly
     \/ Lines(k) # <<>> /\ Step(k, "asking") /\ TillOnly
     \/ Hiccup(k) /\ End(k, "unreachable") /\ UNCHANGED <<built, stores, told, page>>

\* 54-61.
AskUser(k) ==
  /\ till[k].at = "asking"
  /\ \/ Exists(Checkout[k].user) /\ Step(k, "pricing") /\ TillOnly
     \/ ~Exists(Checkout[k].user) /\ End(k, OrdersStatus.Validation) /\ TillOnly
     \/ CallFails(k)

LineToPrice(k) == Lines(k)[Len(till[k].units) + 1]
MoreLines(k) == till[k].at = "pricing" /\ Len(till[k].units) < Len(Lines(k))

\* 63-84: one line: the quantity, price_of, the sum.
AskPrice(k) ==
  /\ MoreLines(k)
  /\ LET line == LineToPrice(k)
         unit == PriceAt(line.product)
         amount == unit * line.quantity
         sum == till[k].sum + amount
     IN \/ /\ line.quantity = 0 \/ unit = 0
           /\ End(k, OrdersStatus.Validation) /\ TillOnly
        \/ /\ line.quantity > 0
           /\ CallFails(k)
        \/ /\ line.quantity > 0 /\ unit > 0
           /\ Panics(amount) \/ Panics(sum)
           /\ End(k, "unreachable") /\ TillOnly
        \/ /\ line.quantity > 0 /\ unit > 0
           /\ ~Panics(amount) /\ ~Panics(sum)
           /\ till' = [till EXCEPT ![k].units = Append(@, unit),
                                   ![k].sum = sum % Modulus]
           /\ TillOnly

\* 86-92.
Insert(k) ==
  /\ till[k].at = "pricing" /\ Len(till[k].units) = Len(Lines(k))
  /\ book' = [book EXCEPT ![k] = [units |-> till[k].units, sum |-> till[k].sum]]
  /\ End(k, OrdersStatus.Ok)
  /\ UNCHANGED <<built, people, range, told, page, unanswered, spent>>

PlaceAtTill(k) == Submit(k) \/ AskUser(k) \/ AskPrice(k) \/ Insert(k)

\* place in each of the three labs; without BFFs orders come in directly.
BffPlace(k) == style = "bff" /\ PlaceAtTill(k)
MicroservicesPlace(k) == style = "microservices" /\ Checkout[k].via = "direct" /\ PlaceAtTill(k)
MonolithPlace(k) == style = "modular-monolith" /\ Checkout[k].via = "direct" /\ PlaceAtTill(k)

Kept == {k \in Checkouts : Held(k)}

\* The requests being placed break off; the orders are gone.
DropOrders ==
  /\ book' = [k \in Checkouts |-> NoOrder]
  /\ till' = [k \in Checkouts |-> IF till[k].at \in {"asking", "pricing", "replying"}
                THEN [till[k] EXCEPT !.at = "replying", !.reply = "unreachable"] ELSE till[k]]

RestartOrders == Apart /\ Forget(Kept) /\ DropOrders /\ UNCHANGED <<people, range, unanswered>>

\* app/src/main.rs: one process, everything in it.
RestartApp == /\ ~Apart
              /\ Forget(people \cup range \cup Kept) /\ DropOrders
              /\ people' = {} /\ range' = {}
              /\ UNCHANGED unanswered

-----------------------------------------------------------------------------
(* The BFFs: checkout *)

\* web-bff/src/error.rs; mobile-bff has the same.
BffStatus == [Ok |-> "200", Validation |-> "400", NotFound |-> "404", Internal |-> "500"]

\* clients.rs OrdersHttpClient::place of either BFF: a success is handed on,
\* any other reply is Validation, no reply Internal.
WebPlace(reply) == CASE reply = OrdersStatus.Ok -> BffStatus.Ok
                     [] reply = "unreachable" -> BffStatus.Internal
                     [] OTHER -> BffStatus.Validation
MobilePlace(reply) == CASE reply = OrdersStatus.Ok -> BffStatus.Ok
                        [] reply = "unreachable" -> BffStatus.Internal
                        [] OTHER -> BffStatus.Validation

\* Mutant: the status of the reply is not looked at.
PassedOnUnread(via, reply) == IF reply = "unreachable" THEN BffStatus.Internal ELSE BffStatus.Ok

\* What the client is told of orders-service's reply.
PassedOn(via, reply) ==
  CASE via = "web" -> WebPlace(reply)
    [] via = "mobile" -> MobilePlace(reply)
    [] via = "direct" -> IF reply = "unreachable" THEN OrdersStatus.Internal ELSE reply

\* http.rs checkout: the reply reaches the BFF and the client, or is lost on
\* the first leg.
Reply(k) ==
  /\ till[k].at = "replying"
  /\ Step(k, "done")
  /\ \/ /\ told' = [told EXCEPT ![k] = PassedOn(Checkout[k].via, till[k].reply)]
        /\ UNCHANGED <<unanswered, spent>>
     \/ Hiccup(k) /\ told' = [told EXCEPT ![k] = BffStatus.Internal]
  /\ UNCHANGED <<built, stores, page>>

-----------------------------------------------------------------------------
(* The BFFs: pages *)

Order(g) == Page[g].of
Show(g, status) == page' = [page EXCEPT ![g].at = "done", ![g].status = status]
PageOnly == UNCHANGED <<built, stores, till, told, unanswered, spent>>
PageFails(g) == Hiccup(g) /\ Show(g, BffStatus.Internal) /\ UNCHANGED <<built, stores, till, told>>

StartLooking(g) ==
  /\ Held(Order(g))
  /\ page' = [page EXCEPT ![g].at = "looking", ![g].names = [i \in DOMAIN Lines(Order(g)) |-> "none"]]
  /\ PageOnly

\* Mutant: an orders-service that cannot be reached has no such order.
GetOrderOrNothing(g) ==
  /\ page[g].at = "new" /\ told[Order(g)] = BffStatus.Ok
  /\ \/ StartLooking(g)
     \/ ~Held(Order(g)) /\ Show(g, BffStatus.NotFound) /\ PageOnly
     \/ Hiccup(g) /\ Show(g, BffStatus.NotFound) /\ UNCHANGED <<built, stores, till, told>>

\* clients.rs OrdersHttpClient::get, the first await of either page.  A client
\* asks for an order whose id it was given.
GetOrder(g) ==
  /\ page[g].at = "new" /\ told[Order(g)] = BffStatus.Ok
  /\ \/ StartLooking(g)
     \/ ~Held(Order(g)) /\ Show(g, BffStatus.NotFound) /\ PageOnly
     \/ PageFails(g)

\* A user or product the service does not know is an internal error; the
\* first error ends the page and drops the other calls (try_join).
GetUser(g) ==
  /\ page[g].at = "looking" /\ ~page[g].customer
  /\ \/ /\ Exists(Checkout[Order(g)].user)
        /\ page' = [page EXCEPT ![g].customer = TRUE]
        /\ PageOnly
     \/ ~Exists(Checkout[Order(g)].user) /\ Show(g, BffStatus.Internal) /\ PageOnly
     \/ PageFails(g)

\* Mutant: the names are put down in the order in which they arrive.
GetProductInTurn(g, i) ==
  /\ page[g].at = "looking" /\ page[g].names[i] = "none"
  /\ LET product == Lines(Order(g))[i].product
         slot == Min({j \in DOMAIN page[g].names : page[g].names[j] = "none"})
     IN \/ /\ product \in range
           /\ page' = [page EXCEPT ![g].names[slot] = product]
           /\ PageOnly
        \/ product \notin range /\ Show(g, BffStatus.Internal) /\ PageOnly

\* The products are looked up all at once, try_join_all puts each name with
\* its line.
GetProduct(g, i) ==
  /\ page[g].at = "looking" /\ page[g].names[i] = "none"
  /\ LET product == Lines(Order(g))[i].product
     IN \/ /\ product \in range
           /\ page' = [page EXCEPT ![g].names[i] = product]
           /\ PageOnly
        \/ product \notin range /\ Show(g, BffStatus.Internal) /\ PageOnly
        \/ PageFails(g)

\* web-bff: both joins are in.
FinishDetail(g) ==
  /\ page[g].at = "looking" /\ page[g].customer
  /\ \A i \in DOMAIN page[g].names : page[g].names[i] # "none"
  /\ Show(g, BffStatus.Ok) /\ PageOnly

Items(k) == FoldLeft(LAMBDA n, line : n + line.quantity, 0, Lines(k))

\* mobile-bff: the items are counted in a u32.
FinishSummary(g) ==
  /\ page[g].at = "looking" /\ page[g].customer
  /\ LET items == Items(Order(g)) IN
       \/ /\ build = "debug" /\ items >= 2^CountWidth
          /\ Show(g, "dropped")
       \/ /\ build = "release" \/ items < 2^CountWidth
          /\ page' = [page EXCEPT ![g].at = "done", ![g].status = BffStatus.Ok,
                                  ![g].count = items % 2^CountWidth]
  /\ PageOnly

\* views.rs of web-bff and of mobile-bff, which does not ask catalog-service.
OrderDetail(g) == /\ Page[g].via = "web"
                  /\ \/ GetOrder(g) \/ GetUser(g) \/ FinishDetail(g)
                     \/ \E i \in DOMAIN page[g].names : GetProduct(g, i)
OrderSummary(g) == /\ Page[g].via = "mobile"
                   /\ GetOrder(g) \/ GetUser(g) \/ FinishSummary(g)

OrderPagesNext ==
  \/ \E k \in Checkouts : CreateUser(Checkout[k].user)
  \/ \E p \in Products : CreateProduct(p)
  \/ RestartUsers \/ RestartCatalog \/ RestartOrders \/ RestartApp
  \/ \E k \in Checkouts : BffPlace(k) \/ MicroservicesPlace(k) \/ MonolithPlace(k) \/ Reply(k)
  \/ \E g \in Pages : OrderDetail(g) \/ OrderSummary(g)

-----------------------------------------------------------------------------
(* Properties *)

\* A checkout that is acknowledged is kept, at the sum of its lines, until
\* orders-service restarts; and one whose client was told of an error is kept
\* only if its reply was lost on the way: then the client does not know it
\* has an order.  In the monolith the user and the products of a kept order
\* are kept with it; services that restart one by one do not promise that.
AcknowledgedIsStored ==
  \A k \in Checkouts :
    /\ told[k] = "200" => Held(k) \/ k \in forgotten
    /\ Held(k) /\ told[k] \in {"400", "500"} => k \in unanswered
    /\ Held(k) => /\ Len(book[k].units) = Len(Lines(k))
                  /\ book[k].sum = Exactly(Lines(k), book[k].units) % Modulus
    /\ Held(k) /\ ~Apart => /\ Checkout[k].user \in people
                            /\ \A i \in DOMAIN Lines(k) : Lines(k)[i].product \in range

\* A page that is not shown has a cause: its order is not found only if
\* orders-service has forgotten it, and it fails only if a call it needs did,
\* or if the user, or for web-bff a product, has been forgotten meanwhile.
\* mobile-bff never fails over catalog-service.
EveryErrorHasACause ==
  \A g \in Pages :
    LET k == Order(g) IN
    /\ page[g].status = "404" => k \in forgotten
    /\ page[g].status = "500" =>
         \/ g \in unanswered \/ Checkout[k].user \in forgotten
         \/ Page[g].via = "web" /\ \E i \in DOMAIN Lines(k) : Lines(k)[i].product \in forgotten

\* A page that is shown is about the order as it was placed, whatever the
\* order in which the lookups came in: each line has the name of its own
\* product, and the items are counted right but for the width of the count.
PageIsTrue ==
  \A g \in Pages : page[g].status = "200" =>
    LET k == Order(g) IN
    /\ Held(k) \/ k \in forgotten
    /\ Page[g].via = "web" => page[g].names = [i \in DOMAIN Lines(k) |-> Lines(k)[i].product]
    /\ Page[g].via = "mobile" =>
         page[g].count = SumFunctionOnSet([i \in DOMAIN Lines(k) |-> Lines(k)[i].quantity], DOMAIN Lines(k))
                           % 2^CountWidth

\* "identical to POSTing straight to orders-service" (README.md:142): a
\* client that goes through a BFF is told what orders-service replied.
CheckoutIsTransparent ==
  \A k \in Checkouts :
    told[k] # "none" /\ till[k].reply \in {"200", "400", "500"} =>
      told[k] = till[k].reply \/ (told[k] = "500" /\ k \in unanswered)
=============================================================================
