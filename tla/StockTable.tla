----------------------------- MODULE StockTable -----------------------------
(***************************************************************************)
(* What the four services of src/concurrency share: a table of stock rows  *)
(* and the requests being handled.  NaiveStock, OptimisticStock,           *)
(* PessimisticStock and ActorStock say how a request uses the table.       *)
(*                                                                         *)
(* A product is in the HashMap once it has been seeded (round > 0) and is  *)
(* never removed.  `sold`, `seeded` and `round` are history: what the      *)
(* race-runner reckons from the answers it gets.                           *)
(***************************************************************************)
EXTENDS Naturals, FiniteSetsExt

CONSTANTS Products, Requests,
          Ask,              \* [Requests -> kind, product, units]
          SeedsRace,        \* may a product be seeded while requests run?
          Nobody,           \* no request
          Targets,          \* the services to be raced
          MaxRequests,      \* bound on the requests sent to each of them
          MaxHangUps        \* bound on the clients that hang up

ASSUME TableAssumption ==
  /\ Ask \in [Requests -> [kind : {"get", "seed", "reserve"},
                           product : Products, units : Nat \ {0}]]
  /\ SeedsRace \in BOOLEAN
  /\ Nobody \notin Requests
  /\ MaxHangUps \in Nat
  /\ Targets \subseteq {"naive", "optimistic", "pessimistic", "actor"}
  /\ MaxRequests \in [Targets -> Nat]

VARIABLES target,           \* which of the services this is
          entries,          \* [Products -> Entry]
          sold, seeded,     \* [Products -> Nat], since and by the last seeding
          round,            \* [Products -> Nat], how often it was seeded
          at,               \* [Requests -> a step of its handler]
          snapshot,         \* [Requests -> Entry], the handler's local copy
          answer            \* [Requests -> Answer]

tableVars == <<target, entries, sold, seeded, round>>
requestVars == <<at, snapshot, answer>>

Entry == [units : Nat, version : Nat]
Answer == [what : {"none", "granted", "insufficient", "unknown", "conflict",
                   "busy", "gone", "read", "seeded"},
           version : Nat, round : Nat]

TableInit == /\ target \in Targets
             /\ entries = [p \in Products |-> [units |-> 0, version |-> 0]]
             /\ sold = [p \in Products |-> 0]
             /\ seeded = [p \in Products |-> 0]
             /\ round = [p \in Products |-> 0]
             /\ at = [r \in Requests |-> "new"]
             /\ snapshot = [r \in Requests |-> [units |-> 0, version |-> 0]]
             /\ answer = [r \in Requests |-> [what |-> "none", version |-> 0, round |-> 0]]

Product(r) == Ask[r].product
Known(r)   == round[Product(r)] > 0
Row(r)     == entries[Product(r)]
Enough(r)  == snapshot[r].units >= Ask[r].units
Arrives(r) == /\ at[r] = "new"
              /\ Cardinality({q \in Requests : at[q] # "new"}) < MaxRequests[target]

\* store.rs seed (actor.rs, Command::Seed): the row is overwritten.
Seed(p, n) == /\ entries' = [entries EXCEPT ![p] = [units |-> n, version |-> 0]]
              /\ sold' = [sold EXCEPT ![p] = 0]
              /\ seeded' = [seeded EXCEPT ![p] = n]
              /\ round' = [round EXCEPT ![p] = @ + 1]
              /\ UNCHANGED target

\* Mutant: the units are taken twice.
WriteTwice(r) ==
  /\ entries' = [entries EXCEPT ![Product(r)] =
                   [units |-> IF snapshot[r].units >= 2 * Ask[r].units
                                THEN snapshot[r].units - 2 * Ask[r].units ELSE 0,
                    version |-> @.version + 1]]
  /\ sold' = [sold EXCEPT ![Product(r)] = @ + Ask[r].units]
  /\ UNCHANGED <<target, seeded, round>>

\* The same two lines in all four services: units from the snapshot, version
\* from the row.
Write(r) ==
  /\ entries' = [entries EXCEPT ![Product(r)] =
                   [units |-> snapshot[r].units - Ask[r].units, version |-> @.version + 1]]
  /\ sold' = [sold EXCEPT ![Product(r)] = @ + Ask[r].units]
  /\ UNCHANGED <<target, seeded, round>>

\* The handler returns; the answer carries the version and (history) the round
\* it is about.
Done(r, what) ==
  /\ at' = [at EXCEPT ![r] = "done"]
  /\ answer' = [answer EXCEPT ![r] =
                  [what |-> what, version |-> entries'[Product(r)].version,
                   round |-> round'[Product(r)]]]
  /\ UNCHANGED snapshot

TakeSnapshot(r) == /\ snapshot' = [snapshot EXCEPT ![r] = Row(r)]
                   /\ at' = [at EXCEPT ![r] = "thinking"]
                   /\ UNCHANGED answer

\* GET /stock/:product and POST /stock/:product/seed.
ReadStock(r) == /\ Ask[r].kind = "get"
                /\ UNCHANGED tableVars
                /\ Done(r, IF Known(r) THEN "read" ELSE "unknown")
SeedStock(r) == /\ Ask[r].kind = "seed"
                /\ Seed(Product(r), Ask[r].units)
                /\ Done(r, "seeded")

\* The stores of the first three services handle both in one step, under the
\* RwLock.  The race-runner seeds before it sends the first reservation;
\* nothing in the services makes it so.
Endpoint(r) == /\ Arrives(r)
               /\ \/ ReadStock(r)
                  \/ /\ SeedStock(r)
                     /\ SeedsRace \/ \A q \in Requests : at[q] \in {"new", "done"}

Answered(r, what) == /\ answer[r].what = what
                     /\ answer[r].round = round[Product(r)]

-----------------------------------------------------------------------------
(* Properties the strategies share *)

Steps == {"new", "waiting", "queued", "thinking", "backoff", "done"}

TableTypeOK == /\ target \in Targets
               /\ entries \in [Products -> Entry]
               /\ sold \in [Products -> Nat] /\ seeded \in [Products -> Nat]
               /\ round \in [Products -> Nat]
               /\ at \in [Requests -> Steps]
               /\ snapshot \in [Requests -> Entry]
               /\ answer \in [Requests -> Answer]

BooksBalance == \A p \in Products : entries[p].units + sold[p] = seeded[p]

\* Every unit handed out was a unit consumed (race-runner's verdict
\* CONSISTENT): the shelf and the granted answers add up to the seed.
NoOversell == target # "naive" => BooksBalance

\* Stock is never lost the other way round, even by naive-service: every
\* missing unit was handed out.  The race-runner's saturating_sub(granted,
\* consumed) hides nothing.
NeverUndersells == \A p \in Products : entries[p].units + sold[p] >= seeded[p]

\* Handing out units takes effect at one instant, on a shelf that has them:
\* every strategy but the naive one implements Shelf.
Promise == INSTANCE Shelf WITH
  units <- [p \in Products |-> entries[p].units],
  SeedAmounts <- {Ask[r].units : r \in {q \in Requests : Ask[q].kind = "seed"}}

ImplementsShelf == Promise!Init /\ [][target = "naive" \/ Promise!Next]_(Promise!vars)

\* A 422 tells the truth for as long as it is read: until the next seeding
\* there are never again as many units as the request asked for.
RejectionIsHonest ==
  target # "naive" =>
    \A r \in Requests : Answered(r, "insufficient") => Row(r).units < Ask[r].units

=============================================================================
