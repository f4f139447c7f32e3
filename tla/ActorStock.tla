----------------------------- MODULE ActorStock -----------------------------
(***************************************************************************)
(* actor-service: handlers post commands to a bounded mailbox and await a  *)
(* reply; one task owns the rows and handles one command at a time.        *)
(*                                                                         *)
(* A caller may hang up; its command stays in the mailbox and is handled   *)
(* all the same (`let _ = reply.send(..)`).                                *)
(***************************************************************************)
EXTENDS StockTable, SequencesExt

CONSTANT Mailbox            \* the channel's capacity

ASSUME ActorAssumption == Mailbox \in Nat \ {0}

VARIABLES mailbox,          \* Seq(Requests)
          current,          \* the command the writer thinks about, or Nobody
          accepted,         \* history: the requests in order of acceptance
          gone              \* the requests whose caller has hung up

actorVars == <<mailbox, current, accepted, gone>>
allActorVars == <<tableVars, requestVars, actorVars>>

\* dispatch: try_send
Dispatch(r) ==
  /\ Arrives(r)
  /\ UNCHANGED <<tableVars, current, gone>>
  /\ \/ /\ Len(mailbox) < Mailbox
        /\ mailbox' = Append(mailbox, r)
        /\ accepted' = Append(accepted, r)
        /\ at' = [at EXCEPT ![r] = "queued"]
        /\ UNCHANGED <<snapshot, answer>>
     \/ /\ Len(mailbox) >= Mailbox
        /\ Done(r, "busy")
        /\ UNCHANGED <<mailbox, accepted>>

\* Mutant: the writer takes the newest command first.
NextIsNewest(r) == /\ mailbox # <<>> /\ r = Last(mailbox)
                   /\ mailbox' = Front(mailbox)

\* rx.recv().await: the slot is free as soon as the command is taken.
NextIs(r) == /\ mailbox # <<>> /\ r = Head(mailbox)
             /\ mailbox' = Tail(mailbox)

\* reserve, up to the think
BeginReserve(r) == /\ Ask[r].kind = "reserve"
                   /\ UNCHANGED tableVars
                   /\ \/ Known(r) /\ TakeSnapshot(r) /\ current' = r
                      \/ ~Known(r) /\ Done(r, "unknown") /\ UNCHANGED current

\* run: the writer's loop takes the next command ...
Receive(r) == /\ current = Nobody
              /\ NextIs(r)
              /\ \/ (ReadStock(r) \/ SeedStock(r)) /\ UNCHANGED current
                 \/ BeginReserve(r)
              /\ UNCHANGED <<accepted, gone>>

\* Mutant: a reservation whose caller is gone is dropped, and the writer with it.
EndForCaller(r) ==
  /\ at[r] = "thinking"
  /\ r \notin gone
  /\ current' = Nobody
  /\ \/ Enough(r) /\ Write(r) /\ Done(r, "granted")
     \/ ~Enough(r) /\ UNCHANGED tableVars /\ Done(r, "insufficient")
  /\ UNCHANGED <<mailbox, accepted, gone>>

\* ... and finishes a reservation before it goes on.
EndReserve(r) ==
  /\ at[r] = "thinking"
  /\ current' = Nobody
  /\ \/ Enough(r) /\ Write(r) /\ Done(r, "granted")
     \/ ~Enough(r) /\ UNCHANGED tableVars /\ Done(r, "insufficient")
  /\ UNCHANGED <<mailbox, accepted, gone>>

CallerHangsUp(r) == /\ at[r] \in {"queued", "thinking"}
                    /\ Cardinality(gone) < MaxHangUps
                    /\ gone' = gone \cup {r}
                    /\ UNCHANGED <<tableVars, requestVars, mailbox, current, accepted>>

Writer == \E r \in Requests : Receive(r) \/ EndReserve(r)

ActorNext == Writer \/ \E r \in Requests : Dispatch(r) \/ CallerHangsUp(r)

ActorInit == /\ TableInit /\ target = "actor"
             /\ mailbox = <<>> /\ accepted = <<>>
             /\ current = Nobody
             /\ gone = {}
ActorSpec == ActorInit /\ [][ActorNext]_allActorVars

-----------------------------------------------------------------------------
(* Properties *)

ActorTypeOK == /\ mailbox \in Seq(Requests) /\ Len(mailbox) <= Mailbox
               /\ current \in Requests \cup {Nobody}
               /\ accepted \in Seq(Requests)
               /\ gone \subseteq Requests

Writes(r) == answer[r].what \in {"granted", "seeded"}

\* "Commands are handled strictly in arrival order": what was accepted first
\* is done first, and its answer shows the older state of the row.
HandledInArrivalOrder ==
  \A i, j \in 1..Len(accepted) :
    LET r == accepted[i]
        s == accepted[j]
    IN i < j /\ at[s] = "done" =>
         /\ at[r] = "done"
         /\ Product(r) = Product(s) =>
              \/ answer[r].round < answer[s].round
              \/ /\ answer[r].round = answer[s].round
                 /\ answer[r].version <= answer[s].version
                 /\ Writes(s) => answer[r].version < answer[s].version
=============================================================================
