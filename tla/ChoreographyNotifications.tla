--------------------- MODULE ChoreographyNotifications ---------------------
(***************************************************************************)
(* notifications-service of src/choreography: registry.rs joins what became *)
(* of an order with the order itself, and writes to the buyer once.        *)
(***************************************************************************)
EXTENDS ChoreographyBus

VARIABLES noted,            \* placed: the orders whose placement was heard
          awaiting,         \* [Orders -> the outcome parked for it, or "none"]
          notified,         \* the orders written about
          emails            \* [Orders \X Endings -> Nat], the emails sent

notificationsVars == <<noted, awaiting, notified, emails>>

Endings == {"confirmed", "failed"}

NotificationsInit == /\ noted = {} /\ notified = {}
                     /\ awaiting = [o \in Orders |-> "none"]
                     /\ emails = [e \in Orders \X Endings |-> 0]

Send(o, ending) == emails' = [emails EXCEPT ![<<o, ending>>] = @ + 1]

\* Registry::record_placed, from consume_placed
RecordPlaced(o) ==
  /\ Consume(<<"placed/notifications", o>>)
  /\ noted' = noted \cup {o}
  /\ awaiting' = [awaiting EXCEPT ![o] = "none"]
  /\ \/ /\ awaiting[o] = "none"
        /\ UNCHANGED <<notified, emails>>
     \/ /\ awaiting[o] # "none"
        /\ notified' = notified \cup {o}
        /\ IF o \in notified THEN UNCHANGED emails ELSE Send(o, awaiting[o])

\* Mutant: the orders written about are not remembered.
RecordForgetting(o, ending) ==
  /\ UNCHANGED <<noted, notified>>
  /\ \/ /\ o \in noted
        /\ Send(o, ending)
        /\ UNCHANGED awaiting
     \/ /\ o \notin noted
        /\ awaiting' = [awaiting EXCEPT ![o] = IF @ = "none" THEN ending ELSE @]
        /\ UNCHANGED emails

\* Registry::record_outcome
RecordOutcome(o, ending) ==
  /\ UNCHANGED noted
  /\ \/ /\ o \in notified
        /\ UNCHANGED <<awaiting, notified, emails>>
     \/ /\ o \in noted \ notified
        /\ notified' = notified \cup {o}
        /\ Send(o, ending)
        /\ UNCHANGED awaiting
     \/ /\ o \notin noted \cup notified
        /\ awaiting' = [awaiting EXCEPT ![o] = IF @ = "none" THEN ending ELSE @]
        /\ UNCHANGED <<notified, emails>>

\* main.rs: consume_charged, consume_rejected, consume_declined.
HearCharged(o)  == /\ Consume(<<"charged/notifications", o>>)
                   /\ RecordOutcome(o, "confirmed")
HearRejected(o) == /\ Consume(<<"rejected/notifications", o>>)
                   /\ RecordOutcome(o, "failed")
HearDeclined(o) == /\ Consume(<<"declined/notifications", o>>)
                   /\ RecordOutcome(o, "failed")

NotificationsTypeOK == /\ noted \subseteq Orders /\ notified \subseteq Orders
                       /\ awaiting \in [Orders -> Endings \cup {"none"}]
                       /\ emails \in [Orders \X Endings -> Nat]
============================================================================
