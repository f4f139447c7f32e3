------------------------------- MODULE MCLabs -------------------------------
(* event-driven: two users with one e-mail address; a mug that is created at *)
(* 3 and lowered to 2, and two calls that are refused; one order of it on    *)
(* two lines, whose sum needs more than three bits.                          *)
(* cqrs-es: one order, two payments, a shipment and a cancellation of it.    *)
(* fan-out: the three providers with five registries, three queries; names   *)
(* 2 and 3 differ in case only.                                              *)
(* bff: a checkout of two lines through web-bff, a direct one and an empty   *)
(* one through mobile-bff; both pages of the first.                          *)
(* hexagonal: two orders and one that is refused at serve, one at the cli.   *)
(* outbox: three orders in either mode, three failures.                      *)
EXTENDS Labs

CONSTANTS ann, eve, mug, pen,
          basket, create, lower, free, nothing,
          order, pay, payAgain, ship, cancel,
          viaWeb, direct, viaMobile, detail, summary

Emails == ann :> "ann@x" @@ eve :> "ann@x"
CallOf == create :> [kind |-> "create", product |-> mug, price |-> 3]
          @@ lower :> [kind |-> "update", product |-> mug, price |-> 2]
          @@ free :> [kind |-> "update", product |-> mug, price |-> 0]
          @@ nothing :> [kind |-> "create", product |-> pen, price |-> 0]

Of(product, quantity) == [product |-> product, quantity |-> quantity]
BasketOf == basket :> [user |-> ann, lines |-> <<Of(mug, 2), Of(mug, 1)>>]

Change(event) == [order |-> order, event |-> event]
CommandOf == pay :> Change("Paid") @@ payAgain :> Change("Paid")
             @@ ship :> Change("Shipped") @@ cancel :> Change("Cancelled")

Hit(id, name, cents) == [id |-> id, name |-> name, price |-> cents]
Indexes == "catalog" :> <<Hit(1, 1, 13), Hit(2, 2, 18), Hit(3, 5, 8)>>
           @@ "partner" :> <<Hit(4, 3, 18), Hit(5, 4, 16)>>
           @@ "archive" :> <<Hit(6, 1, 10), Hit(7, 2, 18), Hit(8, 3, 9)>>
Keys == <<1, 2, 2, 3, 4>>
Containing == "mug" :> {1, 2, 3, 4} @@ "lamp" :> {5} @@ "" :> {}
ProviderSpecs == {<<"catalog", "partner", "blank", "archive">>, <<"archive", "catalog">>,
                  <<"catalog", "catalog">>, <<"bare", "catalog">>, <<"blank">>}
ServedBy == [q \in Providers |-> q]

CheckoutOf == viaWeb :> [via |-> "web", user |-> ann, lines |-> <<Of(mug, 2), Of(pen, 1)>>]
              @@ direct :> [via |-> "direct", user |-> ann, lines |-> <<Of(mug, 3)>>]
              @@ viaMobile :> [via |-> "mobile", user |-> ann, lines |-> <<>>]
PageOf == detail :> [via |-> "web", of |-> viaWeb] @@ summary :> [via |-> "mobile", of |-> viaWeb]
PriceIs == mug :> 3 @@ pen :> 1
=============================================================================
