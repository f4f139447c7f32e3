-------------------------------- MODULE Labs --------------------------------
(***************************************************************************)
(* Labs that share no process: each behaviour runs the one that was        *)
(* started, `lab`, and leaves the state of the others as it was.  `lab` is *)
(* "bff" for microservices and modular-monolith too; `style` tells them    *)
(* apart.  (event-driven and bff share the variable `build`, which never   *)
(* changes.)                                                               *)
(***************************************************************************)
EXTENDS EventDriven, CqrsEs, SearchGateway, OrderPages, OrderFile, Outbox

VARIABLE lab

labVars == <<lab, eventVars, cqrsVars, gatewayVars, pageVars, fileVars, outboxVars>>

\* What a lab reads when it starts is left open for that lab only: how it was
\* built, which of the three it is, PROVIDERS of fan-out, ORDERS_FILE of hexagonal,
\* MODE of outbox.
Init ==
  /\ lab \in {"event-driven", "cqrs-es", "fan-out", "bff", "hexagonal", "outbox"}
  /\ EventDrivenInit /\ CqrsInit /\ GatewayInit /\ OrderPagesInit /\ OrderFileInit
  /\ OutboxInit
  /\ lab \notin {"event-driven", "bff"} => build = "release"
  /\ lab # "fan-out" => registry = <<>>
  /\ lab # "bff" => style = "bff"
  /\ lab # "hexagonal" => backend = "memory"
  /\ lab # "outbox" => mode = "naive"

BesidesCqrs == <<lab, eventVars, gatewayVars, pageVars, fileVars, outboxVars>>
BesidesOutbox == <<lab, eventVars, cqrsVars, gatewayVars, pageVars, fileVars>>

Next ==
  \/ /\ lab = "event-driven" /\ EventDrivenNext
     /\ UNCHANGED <<lab, cqrsVars, gatewayVars, pageVars, fileVars, outboxVars>>
  \/ /\ lab = "cqrs-es" /\ CqrsNext
     /\ UNCHANGED BesidesCqrs
  \/ /\ lab = "fan-out" /\ GatewayNext
     /\ UNCHANGED <<lab, eventVars, cqrsVars, pageVars, fileVars, outboxVars>>
  \/ /\ lab = "bff" /\ OrderPagesNext
     /\ UNCHANGED <<lab, eventVars, cqrsVars, gatewayVars, fileVars, outboxVars>>
  \/ /\ lab = "hexagonal" /\ OrderFileNext
     /\ UNCHANGED <<lab, eventVars, cqrsVars, gatewayVars, pageVars, outboxVars>>
  \/ /\ lab = "outbox" /\ OutboxNext
     /\ UNCHANGED BesidesOutbox

Spec == Init /\ [][Next]_labVars

\* tokio runs every handler that can go on and every task of the query side
\* that has a message.  The relay of outbox ticks for ever; whether a step of it
\* fails is a coin flip that cannot keep failing (MaxFaults).
FairSpec ==
  /\ Spec
  /\ WF_cqrsVars(lab = "cqrs-es" /\ Query /\ UNCHANGED BesidesCqrs)
  /\ \A c \in Commands : WF_cqrsVars(lab = "cqrs-es" /\ CommandHandler(c) /\ UNCHANGED BesidesCqrs)
  /\ \A o \in OrderIds : WF_cqrsVars(lab = "cqrs-es" /\ PlaceHandler(o) /\ UNCHANGED BesidesCqrs)
  /\ WF_outboxVars(lab = "outbox" /\ Relay /\ UNCHANGED BesidesOutbox)
=============================================================================
