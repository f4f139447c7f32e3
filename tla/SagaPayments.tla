---------------------------- MODULE SagaPayments ----------------------------
(***************************************************************************)
(* payments-service of src/saga: wallets, and the idempotency ledger of    *)
(* charges.  One task handles every charge, so a charge is one step.       *)
(***************************************************************************)
EXTENDS SagaBus

CONSTANT StartingBalance    \* seed.rs: STARTING_BALANCE_CENTS

ASSUME PaymentsAssumption == StartingBalance \in Nat

VARIABLES wallets,          \* [Users -> cents]; a missing wallet reads as 0
          charges           \* the ledger: [Orders -> None, Charged or Failed]

paymentsVars == <<wallets, charges>>

PaymentsInit == /\ wallets = [u \in Users |-> 0]
                /\ charges = [o \in Orders |-> "None"]

\* seed.rs consume, service.rs and repository.rs open_wallet: overwrites.
OpenWallet(u) ==
  /\ Consume(<<"UserRegistered/payments", u>>)
  /\ wallets' = [wallets EXCEPT ![u] = StartingBalance]
  /\ UNCHANGED charges

\* Mutant: the ledger is not consulted, so a redelivery charges again.
ChargeIgnoringLedger(o, u, amount) ==
  /\ InFlight(<<"ChargeRequested", o>>)
  /\ \/ /\ wallets[u] >= amount
        /\ wallets' = [wallets EXCEPT ![u] = @ - amount]
        /\ charges' = [charges EXCEPT ![o] = "Charged"]
        /\ Answer(<<"ChargeRequested", o>>, <<"PaymentCharged", o>>)
     \/ /\ wallets[u] < amount
        /\ charges' = [charges EXCEPT ![o] = "Failed"]
        /\ UNCHANGED wallets
        /\ Answer(<<"ChargeRequested", o>>, <<"PaymentChargeFailed", o>>)

\* reactor.rs consume, service.rs charge, repository.rs charge.
Charge(o, u, amount) ==
  \/ /\ charges[o] = "Charged"
     /\ Answer(<<"ChargeRequested", o>>, <<"PaymentCharged", o>>)
     /\ UNCHANGED paymentsVars
  \/ /\ charges[o] = "Failed"
     /\ Answer(<<"ChargeRequested", o>>, <<"PaymentChargeFailed", o>>)
     /\ UNCHANGED paymentsVars
  \/ /\ charges[o] = "None"
     /\ InFlight(<<"ChargeRequested", o>>)
     /\ wallets[u] >= amount
     /\ wallets' = [wallets EXCEPT ![u] = @ - amount]
     /\ charges' = [charges EXCEPT ![o] = "Charged"]
     /\ Answer(<<"ChargeRequested", o>>, <<"PaymentCharged", o>>)
  \/ /\ charges[o] = "None"
     /\ InFlight(<<"ChargeRequested", o>>)
     /\ wallets[u] < amount
     /\ charges' = [charges EXCEPT ![o] = "Failed"]
     /\ UNCHANGED wallets
     /\ Answer(<<"ChargeRequested", o>>, <<"PaymentChargeFailed", o>>)

PaymentsTypeOK == /\ wallets \in [Users -> Nat]
                  /\ charges \in [Orders -> {"None", "Charged", "Failed"}]
============================================================================
