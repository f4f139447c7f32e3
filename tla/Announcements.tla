---------------------------- MODULE Announcements ----------------------------
(***************************************************************************)
(* users-service and catalog-service of src/event-driven, and the NATS     *)
(* subjects they announce users and products on.                           *)
(*                                                                         *)
(* A handler is what its awaits make of it: the check of the e-mail, the   *)
(* insertion and the announcement are three steps, a price is written      *)
(* under the lock of the table and announced when the lock is free again,  *)
(* so the announcements of two handlers are sent in either order.  A       *)
(* subject is a queue in the order of sending; what nobody is subscribed   *)
(* to, or fails to be sent, is gone (the handler logs it and answers 200). *)
(***************************************************************************)
EXTENDS Shop

CONSTANTS Email,            \* [Users -> e-mail address]
          Malformed,        \* users whose request lacks a name or an @
          Calls, Call,      \* POST /products and PUT /products/:id/price
          MaxUnsent         \* bound on announcements that fail to be sent

ASSUME AnnouncementsAssumption ==
  /\ Malformed \subseteq Users
  /\ DOMAIN Email = Users
  /\ Call \in [Calls -> [kind : {"create", "update"}, product : Products, price : Nat]]
  /\ \A p \in Products : \E c \in Calls : Call[c].product = p /\ Call[c].kind = "create"
  /\ \A c, d \in Calls : Call[c].kind = "create" /\ Call[d].kind = "create" /\ c # d =>
                            Call[c].product # Call[d].product
  /\ MaxUnsent \in Nat

VARIABLES
  registering,              \* [Users -> where the request that creates her is]
  calling,                  \* [Calls -> where the call is]
  price,                    \* [Products -> cents], catalog's table; 0: no such product
  wire,                     \* [subject -> messages orders-service has yet to consume]
  listening,                \* is orders-service subscribed?
  unsent,                   \* announcements that failed to be sent
  said,                     \* history: every announcement that was sent
  unheard,                  \* history: users and products with one nobody heard
  hasty                     \* history: products written again too soon

sourceVars == <<registering, calling, price>>
historyVars == <<unsent, said, unheard, hasty>>
announceVars == <<sourceVars, wire, listening, historyVars>>

\* error.rs: what the client is told.
Status == [Validation |-> "400", NotFound |-> "404", Conflict |-> "409", Ok |-> "200"]

UserRegistered == "users.registered"
ProductCreated == "catalog.product_created"
ProductPriceChanged == "catalog.product_price_changed"
Subjects == {UserRegistered, ProductCreated, ProductPriceChanged}

Priced(p, cents) == [product |-> p, price |-> cents]

UsersInit == registering = [u \in Users |-> "new"]

\* main.rs seeds two products before it serves: two calls like any other.
CatalogInit == /\ calling = [c \in Calls |-> "new"]
               /\ price = [p \in Products |-> 0]

AnnounceInit ==
  /\ UsersInit /\ CatalogInit
  /\ wire = [s \in Subjects |-> <<>>]
  /\ listening = FALSE
  /\ unsent = 0 /\ said = {} /\ unheard = {} /\ hasty = {}

\* bus.rs publish: to every subscriber there is, or to nobody.
Publish(subject, message, about) ==
  \/ /\ listening
     /\ wire' = [wire EXCEPT ![subject] = Append(@, message)]
     /\ said' = said \cup {message}
     /\ UNCHANGED <<unsent, unheard>>
  \/ /\ ~listening
     /\ unheard' = unheard \cup {about}
     /\ said' = said \cup {message}
     /\ UNCHANGED <<wire, unsent>>
  \/ /\ unsent < MaxUnsent
     /\ unsent' = unsent + 1
     /\ unheard' = unheard \cup {about}
     /\ UNCHANGED <<wire, said>>

-----------------------------------------------------------------------------
(* users-service *)

UserAt(u, where) == registering' = [registering EXCEPT ![u] = where]

Registered == {u \in Users : registering[u] \in {"inserted", Status.Ok}}

\* repository.rs find_by_email.
EmailIsTaken(u) == \E v \in Registered : Email[v] = Email[u]

\* service.rs create: the fields, then find_by_email.
CheckUser(u) ==
  /\ registering[u] = "new"
  /\ UserAt(u, IF u \in Malformed THEN Status.Validation
               ELSE IF EmailIsTaken(u) THEN Status.Conflict ELSE "checked")
  /\ UNCHANGED <<calling, price, wire, listening, historyVars>>

InsertUser(u) ==
  /\ registering[u] = "checked"
  /\ UserAt(u, "inserted")
  /\ UNCHANGED <<calling, price, wire, listening, historyVars>>

AnnounceUser(u) ==
  /\ registering[u] = "inserted"
  /\ UserAt(u, Status.Ok)
  /\ Publish(UserRegistered, u, u)
  /\ UNCHANGED <<calling, price, listening, hasty>>

UsersService(u) == CheckUser(u) \/ InsertUser(u) \/ AnnounceUser(u)

-----------------------------------------------------------------------------
(* catalog-service *)

CallAt(c, where) == calling' = [calling EXCEPT ![c] = where]
Waits(c, kind) == calling[c] = "new" /\ Call[c].kind = kind
IsWritten(c, kind) == calling[c] = "written" /\ Call[c].kind = kind

\* An announcement of p is outstanding until its handler has sent it, that of
\* its creation until orders-service has consumed it (the subjects are
\* consumed by different tasks).
Outstanding(p) ==
  \/ \E c \in Calls : Call[c].product = p /\ calling[c] = "written"
  \/ \E i \in DOMAIN wire[ProductCreated] : wire[ProductCreated][i].product = p

\* repository.rs insert and update_price: one row, under the lock of the table.
WriteRow(p, cents) ==
  /\ price' = [price EXCEPT ![p] = cents]
  /\ hasty' = IF Outstanding(p) THEN hasty \cup {p} ELSE hasty
  /\ UNCHANGED <<registering, wire, listening, unsent, said, unheard>>

Refuse(c, status) == CallAt(c, status) /\ UNCHANGED <<registering, price, wire, listening, historyVars>>

\* service.rs create.
RejectProduct(c) == Waits(c, "create") /\ Call[c].price = 0 /\ Refuse(c, Status.Validation)

InsertProduct(c) ==
  /\ Waits(c, "create") /\ Call[c].price > 0
  /\ WriteRow(Call[c].product, Call[c].price)
  /\ CallAt(c, "written")

\* The announcement carries the product as the write returned it.
AnnounceProduct(c) ==
  /\ IsWritten(c, "create")
  /\ CallAt(c, Status.Ok)
  /\ Publish(ProductCreated, Priced(Call[c].product, Call[c].price), Call[c].product)
  /\ UNCHANGED <<registering, price, listening, hasty>>

\* service.rs update_price.
RejectPrice(c) == Waits(c, "update") /\ Call[c].price = 0 /\ Refuse(c, Status.Validation)

ChangePrice(c) ==
  /\ Waits(c, "update") /\ Call[c].price > 0
  /\ \/ price[Call[c].product] = 0 /\ Refuse(c, Status.NotFound)
     \/ price[Call[c].product] > 0 /\ WriteRow(Call[c].product, Call[c].price) /\ CallAt(c, "written")

AnnouncePrice(c) ==
  /\ IsWritten(c, "update")
  /\ CallAt(c, Status.Ok)
  /\ Publish(ProductPriceChanged, Priced(Call[c].product, Call[c].price), Call[c].product)
  /\ UNCHANGED <<registering, price, listening, hasty>>

CatalogService(c) == \/ RejectProduct(c) \/ InsertProduct(c) \/ AnnounceProduct(c)
                     \/ RejectPrice(c) \/ ChangePrice(c) \/ AnnouncePrice(c)

AnnounceNext == (\E u \in Users : UsersService(u)) \/ \E c \in Calls : CatalogService(c)
=============================================================================
