-------------------------- MODULE PessimisticStock --------------------------
(***************************************************************************)
(* pessimistic-service: take the row's mutex, then read, think and write.  *)
(* LOCK_SCOPE picks one mutex per product or one for all.  tokio's Mutex   *)
(* hands itself to its waiters first come, first served.                   *)
(*                                                                         *)
(* axum drops the handler of a client that hangs up: whoever waits leaves  *)
(* the queue, and a guard held over the think is released.                 *)
(***************************************************************************)
EXTENDS StockTable, SequencesExt

CONSTANT Everything         \* the name of the one global mutex

VARIABLES scope,            \* LOCK_SCOPE, read when the service starts
          holder,           \* [Locks -> Requests or Nobody]
          waiting,          \* [Locks -> Seq(Requests)]
          hangUps

lockVars == <<scope, holder, waiting>>
pessimisticVars == <<tableVars, requestVars, lockVars, hangUps>>

Locks == Products \cup {Everything}

\* store.rs lock_for
LockFor(r) == IF scope = "key" THEN Product(r) ELSE Everything

\* lock_for, then lock.lock().await: ours at once, or wait.
Lock(r) ==
  /\ Ask[r].kind = "reserve" /\ Arrives(r)
  /\ at' = [at EXCEPT ![r] = "waiting"]
  /\ LET l == LockFor(r) IN
       \/ /\ holder[l] = Nobody
          /\ holder' = [holder EXCEPT ![l] = r]
          /\ UNCHANGED waiting
       \/ /\ holder[l] # Nobody
          /\ waiting' = [waiting EXCEPT ![l] = Append(@, r)]
          /\ UNCHANGED holder
  /\ UNCHANGED <<tableVars, snapshot, answer, scope, hangUps>>

\* _guard is dropped.
Unlock(l) ==
  /\ UNCHANGED scope
  /\ \/ /\ waiting[l] = <<>>
        /\ holder' = [holder EXCEPT ![l] = Nobody]
        /\ UNCHANGED waiting
     \/ /\ waiting[l] # <<>>
        /\ holder' = [holder EXCEPT ![l] = Head(waiting[l])]
        /\ waiting' = [waiting EXCEPT ![l] = Tail(@)]

\* Mutant: `let _ = lock.lock().await`, a guard that guards nothing.
HoldsNothing(r) == at[r] \in {"waiting", "thinking"}

Holds(r) == holder[LockFor(r)] = r

PessimisticRead(r) ==
  /\ at[r] = "waiting"
  /\ Holds(r)
  /\ UNCHANGED <<tableVars, hangUps>>
  /\ \/ Known(r) /\ TakeSnapshot(r) /\ UNCHANGED lockVars
     \/ ~Known(r) /\ Done(r, "unknown") /\ Unlock(LockFor(r))

\* After the think; the guard goes at the end of the function.
PessimisticDecide(r) ==
  /\ at[r] = "thinking"
  /\ UNCHANGED hangUps
  /\ \/ Enough(r) /\ Write(r) /\ Done(r, "granted")
     \/ ~Enough(r) /\ UNCHANGED tableVars /\ Done(r, "insufficient")
  /\ Unlock(LockFor(r))

HangUp(r) ==
  /\ at[r] \in {"waiting", "thinking"}
  /\ hangUps < MaxHangUps
  /\ hangUps' = hangUps + 1
  /\ UNCHANGED tableVars
  /\ Done(r, "gone")
  /\ \/ Holds(r) /\ Unlock(LockFor(r))
     \/ /\ ~Holds(r)
        /\ waiting' = [waiting EXCEPT ![LockFor(r)] = SelectSeq(@, LAMBDA s : s # r)]
        /\ UNCHANGED <<scope, holder>>

Handle(r) == Lock(r) \/ PessimisticRead(r) \/ PessimisticDecide(r)

PessimisticNext == \E r \in Requests :
  \/ Endpoint(r) /\ UNCHANGED <<lockVars, hangUps>>
  \/ Handle(r) \/ HangUp(r)

PessimisticInit == /\ TableInit /\ target = "pessimistic"
                   /\ scope \in {"key", "global"}
                   /\ holder = [l \in Locks |-> Nobody]
                   /\ waiting = [l \in Locks |-> <<>>]
                   /\ hangUps = 0
PessimisticSpec == PessimisticInit /\ [][PessimisticNext]_pessimisticVars

-----------------------------------------------------------------------------
(* Properties *)

PessimisticTypeOK == /\ scope \in {"key", "global"}
                     /\ holder \in [Locks -> Requests \cup {Nobody}]
                     /\ waiting \in [Locks -> Seq(Requests)]
                     /\ hangUps \in 0..MaxHangUps

=============================================================================
