----------------------------- MODULE NaiveStock -----------------------------
(***************************************************************************)
(* naive-service: read, think, write what the read implies.  It oversells, *)
(* on purpose and under test; NeverUndersells says how wrong it can get.   *)
(***************************************************************************)
EXTENDS StockTable

naiveVars == <<tableVars, requestVars>>

NaiveRead(r) == /\ Ask[r].kind = "reserve" /\ Arrives(r)
                /\ UNCHANGED tableVars
                /\ \/ Known(r) /\ TakeSnapshot(r)
                   \/ ~Known(r) /\ Done(r, "unknown")

\* Decided on the snapshot, written over whatever is in the row by then.
NaiveDecide(r) == /\ at[r] = "thinking"
                  /\ \/ Enough(r) /\ Write(r) /\ Done(r, "granted")
                     \/ ~Enough(r) /\ UNCHANGED tableVars /\ Done(r, "insufficient")

NaiveNext == \E r \in Requests : Endpoint(r) \/ NaiveRead(r) \/ NaiveDecide(r)

NaiveInit == TableInit /\ target = "naive"
NaiveSpec == NaiveInit /\ [][NaiveNext]_naiveVars
=============================================================================
