-------------------------------- MODULE Race --------------------------------
(***************************************************************************)
(* The concurrency lab as a whole: the race-runner sends the same requests *)
(* to any of the four services.  Each behaviour is a race against one of   *)
(* them, the target, and leaves the state of the other three as it was.    *)
(***************************************************************************)
EXTENDS NaiveStock, OptimisticStock, PessimisticStock, ActorStock

vars == <<tableVars, requestVars, attempt, lockVars, hangUps, actorVars>>

\* Only pessimistic-service reads LOCK_SCOPE.
Init == /\ TableInit
        /\ attempt = [r \in Requests |-> 1]
        /\ scope \in {"key", "global"}
        /\ target # "pessimistic" => scope = "key"
        /\ holder = [l \in Locks |-> Nobody]
        /\ waiting = [l \in Locks |-> <<>>]
        /\ hangUps = 0
        /\ mailbox = <<>> /\ accepted = <<>>
        /\ current = Nobody
        /\ gone = {}

Next == \/ /\ target = "naive"
           /\ NaiveNext
           /\ UNCHANGED <<attempt, lockVars, hangUps, actorVars>>
        \/ /\ target = "optimistic"
           /\ OptimisticNext
           /\ UNCHANGED <<lockVars, hangUps, actorVars>>
        \/ /\ target = "pessimistic"
           /\ PessimisticNext
           /\ UNCHANGED <<attempt, actorVars>>
        \/ /\ target = "actor"
           /\ ActorNext
           /\ UNCHANGED <<attempt, lockVars, hangUps>>

Spec == Init /\ [][Next]_vars

\* tokio runs every handler that can go on, and the writer's task as long as
\* there are commands.
FairSpec ==
  /\ Spec
  /\ \A r \in Requests :
       WF_vars(target = "pessimistic" /\ Handle(r) /\ UNCHANGED <<attempt, actorVars>>)
  /\ WF_vars(target = "actor" /\ Writer /\ UNCHANGED <<attempt, lockVars, hangUps>>)

-----------------------------------------------------------------------------
(* Properties *)

\* Every request that waits for a mutex or in the mailbox is answered, whoever
\* hangs up before it and even if its own caller has.
EveryRequestIsAnswered ==
  \A r \in Requests : at[r] \in {"waiting", "queued"} ~> at[r] = "done"
=============================================================================
