-------------------------- MODULE OptimisticStock --------------------------
(***************************************************************************)
(* optimistic-service: read the row and its version, think, and write only *)
(* if the version is still the one read; otherwise start over, at most     *)
(* Retries times.  A request that names the version it expects is not      *)
(* retried.                                                                *)
(*                                                                         *)
(* A handler whose client hangs up is dropped at one of its awaits and     *)
(* changes nothing more: the same as one that is never scheduled again.    *)
(***************************************************************************)
EXTENDS StockTable

CONSTANTS Expected,         \* [Requests -> {} or {version}], expected_version
          Retries

ASSUME OptimisticAssumption ==
  /\ Retries \in Nat
  /\ Expected \in [Requests -> SUBSET Nat]
  /\ \A r \in Requests : \A v, w \in Expected[r] : v = w

VARIABLE attempt            \* [Requests -> which turn of the loop]

optimisticVars == <<tableVars, requestVars, attempt>>

\* Mutant: one attempt too few.
BudgetOffByOne(r) == IF Expected[r] # {} THEN 1 ELSE Retries

Budget(r) == IF Expected[r] # {} THEN 1 ELSE Retries + 1

\* Mutant: the client's precondition is left to the compare-and-swap.
PreconditionUnchecked(r) == TRUE

\* The early check of expected_version against the row just read.
PreconditionHolds(r) == Expected[r] = {} \/ Row(r).version \in Expected[r]

\* The top of the loop: backoff on a later turn, then the read.
OptimisticRead(r) ==
  /\ Ask[r].kind = "reserve"
  /\ Arrives(r) \/ at[r] = "backoff"
  /\ UNCHANGED <<tableVars, attempt>>
  /\ \/ ~Known(r) /\ Done(r, "unknown")
     \/ Known(r) /\ ~PreconditionHolds(r) /\ Done(r, "conflict")
     \/ Known(r) /\ PreconditionHolds(r) /\ TakeSnapshot(r)

Reject(r) == /\ at[r] = "thinking"
             /\ ~Enough(r)
             /\ UNCHANGED <<tableVars, attempt>>
             /\ Done(r, "insufficient")

\* Mutant: the version is not compared.
SwapWithoutComparing(r) == /\ at[r] = "thinking"
                           /\ Enough(r)
                           /\ Write(r)
                           /\ Done(r, "granted")
                           /\ UNCHANGED attempt

\* The compare-and-swap succeeds, under the write guard ...
Swap(r) == /\ at[r] = "thinking"
           /\ Enough(r)
           /\ Row(r).version = snapshot[r].version
           /\ Write(r)
           /\ Done(r, "granted")
           /\ UNCHANGED attempt

\* ... or the version has moved: the next turn, or 409 after the last one.
Conflict(r) ==
  /\ at[r] = "thinking"
  /\ Enough(r)
  /\ Row(r).version # snapshot[r].version
  /\ UNCHANGED tableVars
  /\ \/ /\ attempt[r] < Budget(r)
        /\ attempt' = [attempt EXCEPT ![r] = @ + 1]
        /\ at' = [at EXCEPT ![r] = "backoff"]
        /\ UNCHANGED <<snapshot, answer>>
     \/ /\ attempt[r] >= Budget(r)
        /\ Done(r, "conflict")
        /\ UNCHANGED attempt

OptimisticNext == \E r \in Requests :
  \/ Endpoint(r) /\ UNCHANGED attempt
  \/ OptimisticRead(r) \/ Reject(r) \/ Swap(r) \/ Conflict(r)

OptimisticInit == /\ TableInit /\ target = "optimistic"
                  /\ attempt = [r \in Requests |-> 1]
OptimisticSpec == OptimisticInit /\ [][OptimisticNext]_optimisticVars

-----------------------------------------------------------------------------
(* Properties *)

OptimisticTypeOK == attempt \in [Requests -> 1..(Retries + 1)]

\* "exactly one writer wins a round": of all the handlers that decided on the
\* same version of a row, whatever they did in between, one is granted.
OneWinnerPerVersion ==
  target = "optimistic" => \A r, s \in Requests :
    /\ r # s /\ Product(r) = Product(s)
    /\ Answered(r, "granted") /\ Answered(s, "granted")
    => snapshot[r].version # snapshot[s].version

\* A request that names a version is applied to that version or not at all.
PinnedIsExact ==
  target = "optimistic" => \A r \in Requests :
    Answered(r, "granted") /\ Expected[r] # {} =>
      \E v \in Expected[r] : answer[r].version = v + 1

\* A request without a precondition gets a 409 only after as many writes of
\* others as it had attempts: with more retries than there are competitors
\* nobody gets one.
ConflictIsEarned ==
  \A r \in Requests : Answered(r, "conflict") /\ Expected[r] = {} =>
    Row(r).version > Retries
=============================================================================
