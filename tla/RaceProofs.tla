----------------------------- MODULE RaceProofs -----------------------------
(***************************************************************************)
(* Proofs about the concurrency lab: first each strategy by itself, then   *)
(* Race, whose behaviours are races against any of them.  What makes a     *)
(* strategy correct is what it knows of a snapshot between the read and    *)
(* the write:                                                              *)
(*   naive        the units in it were not fewer than what is left to sell *)
(*   optimistic   it is an earlier state of the row, and with the same     *)
(*                version it is the row                                    *)
(*   pessimistic  it is the row, for whoever holds the mutex               *)
(*   actor        it is the row, for the one command in hand               *)
(***************************************************************************)
EXTENDS Race, TLAPS

-----------------------------------------------------------------------------
(* naive-service loses updates, but only one way: a handler writes back no *)
(* fewer units than were left to sell when it read them.                   *)

NaiveInv ==
  /\ TableTypeOK
  /\ NeverUndersells
  /\ \A r \in Requests :
       at[r] = "thinking" => snapshot[r].units + sold[Product(r)] >= seeded[Product(r)]

\* Nothing has been seeded or read.
LEMMA NaiveInitInv == NaiveInit => NaiveInv
BY TableAssumption, SMT
DEF NaiveInit, TableInit, NaiveInv, TableTypeOK, Entry, Answer, Steps, NeverUndersells, Product

\* The types a step about request r works with.
LEMMA NaiveTypes ==
  ASSUME NaiveInv, NEW r \in Requests
  PROVE  /\ Product(r) \in Products
         /\ Row(r) \in Entry
         /\ round[Product(r)] \in Nat
         /\ Ask[r].units \in Nat \ {0}
         /\ snapshot[r] \in Entry
BY TableAssumption DEF NaiveInv, TableTypeOK, Product, Row

\* The handler returns and the table is what it was.
LEMMA NaiveEndInv ==
  ASSUME NaiveInv, NEW r \in Requests, NEW what \in {"unknown", "insufficient", "read"},
         UNCHANGED tableVars, Done(r, what)
  PROVE  NaiveInv'
<1>1. /\ entries' = entries /\ sold' = sold /\ seeded' = seeded
      /\ round' = round /\ target' = target
      /\ snapshot' = snapshot /\ at' = [at EXCEPT ![r] = "done"]
  BY DEF tableVars, Done
<1>2. answer' = [answer EXCEPT ![r] = [what |-> what, version |-> Row(r).version,
                                       round |-> round[Product(r)]]]
  BY <1>1 DEF Done, Row, Product
<1>3. [what |-> what, version |-> Row(r).version, round |-> round[Product(r)]] \in Answer
  BY NaiveTypes DEF Answer, Entry
<1>4. TableTypeOK'
  BY <1>1, <1>2, <1>3 DEF NaiveInv, TableTypeOK, Steps
<1>5. \A q \in Requests : at'[q] = "thinking" => at[q] = "thinking"
  BY <1>1 DEF NaiveInv, TableTypeOK
<1> QED
  BY <1>1, <1>4, <1>5 DEF NaiveInv, NeverUndersells, Product

\* What is read now is what is left to sell now.
LEMMA NaiveReadInv ==
  ASSUME NaiveInv, NEW r \in Requests, UNCHANGED tableVars, TakeSnapshot(r)
  PROVE  NaiveInv'
<1>1. /\ entries' = entries /\ sold' = sold /\ seeded' = seeded
      /\ round' = round /\ target' = target
      /\ answer' = answer
      /\ snapshot' = [snapshot EXCEPT ![r] = Row(r)] /\ at' = [at EXCEPT ![r] = "thinking"]
  BY DEF tableVars, TakeSnapshot
<1>2. TableTypeOK'
  BY <1>1, NaiveTypes DEF NaiveInv, TableTypeOK, Steps
<1>3. entries[Product(r)].units + sold[Product(r)] >= seeded[Product(r)]
  BY NaiveTypes DEF NaiveInv, NeverUndersells
<1>4. /\ snapshot'[r] = entries[Product(r)]
      /\ \A q \in Requests \ {r} : snapshot'[q] = snapshot[q] /\ at'[q] = at[q]
  BY <1>1 DEF NaiveInv, TableTypeOK, Row
<1> QED
  BY <1>1, <1>2, <1>3, <1>4 DEF NaiveInv, NeverUndersells, Product

\* What is written back and what has been sold by then make up the seed, or
\* more; a handler still thinking is none the worse for the sale.
LEMMA NaiveGrantInv ==
  ASSUME NaiveInv, NEW r \in Requests, at[r] = "thinking", Enough(r), Write(r), Done(r, "granted")
  PROVE  NaiveInv'
<1> DEFINE p == Product(r)
           n == Ask[r].units
<1>1. /\ entries' = [entries EXCEPT ![p] = [units |-> snapshot[r].units - n, version |-> @.version + 1]]
      /\ sold' = [sold EXCEPT ![p] = @ + n]
      /\ seeded' = seeded /\ round' = round /\ target' = target
      /\ snapshot' = snapshot /\ at' = [at EXCEPT ![r] = "done"]
  BY DEF Write, Done
<1>2. /\ p \in Products /\ n \in Nat \ {0} /\ snapshot[r].units \in Nat /\ entries[p].version \in Nat
      /\ snapshot[r].units >= n /\ round[p] \in Nat
  BY NaiveTypes DEF Entry, Enough, Row
<1>3. /\ entries'[p] = [units |-> snapshot[r].units - n, version |-> entries[p].version + 1]
      /\ \A x \in Products \ {p} : entries'[x] = entries[x]
      /\ sold'[p] = sold[p] + n
      /\ \A x \in Products \ {p} : sold'[x] = sold[x]
  BY <1>1, <1>2 DEF NaiveInv, TableTypeOK
<1>4. entries' \in [Products -> Entry] /\ sold' \in [Products -> Nat]
  BY <1>1, <1>2 DEF NaiveInv, TableTypeOK, Entry
<1>5. TableTypeOK'
  <2>1. answer' = [answer EXCEPT ![r] = [what |-> "granted", version |-> entries'[p].version,
                                         round |-> round[p]]]
    BY <1>1 DEF Done
  <2>2. [what |-> "granted", version |-> entries'[p].version, round |-> round[p]] \in Answer
    BY <1>2, <1>3 DEF Answer
  <2> QED
    BY <1>1, <1>4, <2>1, <2>2 DEF NaiveInv, TableTypeOK, Steps
<1>6. /\ snapshot[r].units + sold[p] >= seeded[p]
      /\ \A x \in Products : /\ sold[x] \in Nat /\ seeded[x] \in Nat /\ entries[x].units \in Nat
                             /\ entries[x].units + sold[x] >= seeded[x]
  BY <1>2 DEF NaiveInv, NeverUndersells, TableTypeOK, Entry
<1>7. NeverUndersells'
  <2>1. (snapshot[r].units - n) + (sold[p] + n) >= seeded[p]
    BY <1>2, <1>6
  <2> QED
    BY <1>1, <1>3, <1>6, <2>1 DEF NeverUndersells
<1>8. ASSUME NEW q \in Requests, at'[q] = "thinking"
      PROVE  snapshot'[q].units + sold'[Product(q)] >= seeded'[Product(q)]
  <2>1. at[q] = "thinking"
    BY <1>1, <1>8 DEF NaiveInv, TableTypeOK
  <2>2. /\ snapshot[q].units + sold[Product(q)] >= seeded[Product(q)]
        /\ snapshot[q].units \in Nat /\ Product(q) \in Products
    BY <2>1, NaiveTypes DEF NaiveInv, Entry
  <2>3. sold'[Product(q)] >= sold[Product(q)] /\ sold'[Product(q)] \in Nat
    BY <1>2, <1>3, <1>6, <2>2
  <2> QED
    BY <1>1, <1>6, <2>2, <2>3
<1> QED
  BY <1>5, <1>7, <1>8 DEF NaiveInv, Product

\* A seed starts a new sale, and nobody is thinking of the old one.
LEMMA NaiveSeedInv ==
  ASSUME NaiveInv, NEW r \in Requests, SeedStock(r), \A q \in Requests : at[q] \in {"new", "done"}
  PROVE  NaiveInv'
<1> DEFINE p == Product(r)
           n == Ask[r].units
<1>1. /\ entries' = [entries EXCEPT ![p] = [units |-> n, version |-> 0]]
      /\ sold' = [sold EXCEPT ![p] = 0] /\ seeded' = [seeded EXCEPT ![p] = n]
      /\ round' = [round EXCEPT ![p] = @ + 1] /\ target' = target
      /\ at' = [at EXCEPT ![r] = "done"] /\ snapshot' = snapshot
      /\ p \in Products /\ n \in Nat /\ round[p] \in Nat
  BY NaiveTypes DEF SeedStock, Seed, Done
<1>2. answer' = [answer EXCEPT ![r] = [what |-> "seeded", version |-> 0, round |-> round[p] + 1]]
  <2>1. entries'[p].version = 0 /\ round'[p] = round[p] + 1
    BY <1>1 DEF NaiveInv, TableTypeOK
  <2> QED
    BY <2>1 DEF SeedStock, Done
<1>3. TableTypeOK'
  <2>1. [what |-> "seeded", version |-> 0, round |-> round[p] + 1] \in Answer
    BY <1>1 DEF Answer
  <2> QED
    BY <1>1, <1>2, <2>1 DEF NaiveInv, TableTypeOK, Entry, Steps
<1>4. NeverUndersells'
  BY <1>1 DEF NaiveInv, NeverUndersells, TableTypeOK, Entry
<1>5. \A q \in Requests : at'[q] # "thinking"
  BY <1>1 DEF NaiveInv, TableTypeOK
<1> QED
  BY <1>3, <1>4, <1>5 DEF NaiveInv

\* Every step of naive-service keeps the invariant as long as no product is
\* seeded under a request.
LEMMA NaiveNextInv ==
  ASSUME SeedsRace = FALSE, NaiveInv, [NaiveNext]_naiveVars
  PROVE  NaiveInv'
<1>1. ASSUME NEW r \in Requests, Endpoint(r) PROVE NaiveInv'
  <2>1. CASE ReadStock(r)
    <3>1. UNCHANGED tableVars /\ (Done(r, "read") \/ Done(r, "unknown"))
      BY <2>1 DEF ReadStock
    <3> QED
      BY <3>1, NaiveEndInv
  <2>2. CASE SeedStock(r) /\ \A q \in Requests : at[q] \in {"new", "done"}
    BY <2>2, NaiveSeedInv
  <2> QED
    BY <1>1, <2>1, <2>2 DEF Endpoint
<1>2. ASSUME NEW r \in Requests, NaiveRead(r) PROVE NaiveInv'
  BY <1>2, NaiveReadInv, NaiveEndInv DEF NaiveRead
<1>3. ASSUME NEW r \in Requests, NaiveDecide(r) PROVE NaiveInv'
  BY <1>3, NaiveGrantInv, NaiveEndInv DEF NaiveDecide
<1>4. CASE UNCHANGED naiveVars
  BY <1>4 DEF naiveVars, tableVars, requestVars, NaiveInv, TableTypeOK, NeverUndersells, Product
<1> QED
  BY <1>1, <1>2, <1>3, <1>4 DEF NaiveNext

-----------------------------------------------------------------------------
(* Proofs about OptimisticStock, for any number of requests, products and  *)
(* retries: while no product is seeded under a running request, the        *)
(* compare-and-swap loses no update, implements Shelf, and its answers     *)
(* tell the truth.                                                         *)
(*                                                                         *)
(* The invariant has to say what a snapshot is worth: it is an earlier     *)
(* state of the row, so it has no fewer units and no later version, and    *)
(* with the same version it is the row.                                    *)

ThinkingInv(r) ==
  at[r] = "thinking" =>
    /\ snapshot[r].version <= Row(r).version
    /\ Row(r).units <= snapshot[r].units
    /\ snapshot[r].version = Row(r).version => snapshot[r].units = Row(r).units
    /\ Expected[r] = {} \/ snapshot[r].version \in Expected[r]
    /\ attempt[r] <= snapshot[r].version + 1

AttemptInv(r) == /\ at[r] = "new" => attempt[r] = 1
                 /\ at[r] = "backoff" => attempt[r] <= Row(r).version + 1

OptimisticAnswerInv(r) ==
  /\ answer[r].round <= round[Product(r)]
  /\ Answered(r, "granted") =>
                 /\ at[r] = "done" /\ answer[r].version = snapshot[r].version + 1
                 /\ answer[r].version <= Row(r).version
                 /\ Expected[r] # {} => \E v \in Expected[r] : answer[r].version = v + 1
  /\ Answered(r, "insufficient") => Row(r).units < Ask[r].units
  /\ Answered(r, "conflict") /\ Expected[r] = {} => Row(r).version > Retries

OneWinner ==
  \A r, s \in Requests :
    /\ r # s /\ Product(r) = Product(s)
    /\ Answered(r, "granted") /\ Answered(s, "granted")
    => answer[r].version # answer[s].version

OptimisticInv == /\ TableTypeOK /\ OptimisticTypeOK
                 /\ BooksBalance
                 /\ \A r \in Requests : ThinkingInv(r) /\ AttemptInv(r) /\ OptimisticAnswerInv(r)
                 /\ OneWinner

\* Nothing has been seeded, read or answered.
THEOREM OptimisticInitInv == OptimisticInit => OptimisticInv
  BY TableAssumption, OptimisticAssumption, SMT
  DEF OptimisticInit, TableInit, OptimisticInv, TableTypeOK, OptimisticTypeOK, Entry, Answer, Steps,
      BooksBalance, ThinkingInv,
      AttemptInv, OptimisticAnswerInv, Answered, OneWinner, Product, Row

\* The types a step about request r works with.
LEMMA OptimisticTypesOfRequest ==
  ASSUME OptimisticInv, NEW r \in Requests
  PROVE  /\ Product(r) \in Products
                   /\ Row(r) \in Entry
                   /\ round[Product(r)] \in Nat
                   /\ Ask[r].units \in Nat \ {0}
                   /\ snapshot[r] \in Entry /\ at[r] \in Steps /\ answer[r] \in Answer
                   /\ attempt[r] \in 1..(Retries + 1)
                   /\ Retries \in Nat
  BY TableAssumption, OptimisticAssumption
  DEF OptimisticInv, TableTypeOK, OptimisticTypeOK, Product, Row

\* A seeding starts a new round, in which nothing but itself has been
\* answered; no handler is anywhere between its read and its write.
LEMMA OptimisticSeedInv == ASSUME OptimisticInv, NEW r \in Requests, SeedStock(r), UNCHANGED attempt,
                                  \A q \in Requests : at[q] \in {"new", "done"}
                           PROVE  OptimisticInv'
<1> USE OptimisticTypesOfRequest
<1> DEFINE p == Product(r)
           n == Ask[r].units
<1>1. /\ entries' = [entries EXCEPT ![p] = [units |-> n, version |-> 0]]
      /\ sold' = [sold EXCEPT ![p] = 0] /\ seeded' = [seeded EXCEPT ![p] = n]
      /\ round' = [round EXCEPT ![p] = @ + 1] /\ target' = target
      /\ at' = [at EXCEPT ![r] = "done"] /\ snapshot' = snapshot /\ attempt' = attempt
  BY DEF SeedStock, Seed, Done
<1>2. /\ entries'[p] = [units |-> n, version |-> 0] /\ round'[p] = round[p] + 1
      /\ \A x \in Products \ {p} : entries'[x] = entries[x] /\ round'[x] = round[x]
  BY <1>1 DEF OptimisticInv, TableTypeOK
<1>3. answer' = [answer EXCEPT ![r] = [what |-> "seeded", version |-> 0, round |-> round[p] + 1]]
  BY <1>2 DEF SeedStock, Done
<1>4. (TableTypeOK /\ OptimisticTypeOK)'
  <2>1. [what |-> "seeded", version |-> 0, round |-> round[p] + 1] \in Answer
    BY DEF Answer
  <2> QED
    BY <1>1, <1>3, <2>1 DEF OptimisticInv, TableTypeOK, OptimisticTypeOK, Entry, Steps
<1>5. BooksBalance'
  BY <1>1 DEF OptimisticInv, BooksBalance, TableTypeOK, Entry
<1>6. \A q \in Requests : round[Product(q)] \in Nat /\ answer[q].round \in Nat
                           /\ answer[q].round <= round[Product(q)]
  BY DEF Answer, OptimisticInv, OptimisticAnswerInv
<1>7. /\ answer'[r].what = "seeded" /\ answer'[r].round = round[p] + 1
      /\ \A q \in Requests \ {r} : answer'[q] = answer[q]
  BY <1>3 DEF OptimisticInv, TableTypeOK
<1>8. \A q \in Requests : answer'[q].round = round'[Product(q)] /\ answer'[q].what # "seeded" =>
        Product(q) # p /\ answer[q] = answer'[q] /\ answer[q].round = round[Product(q)]
  BY <1>2, <1>6, <1>7
<1>9. ASSUME NEW q \in Requests
      PROVE  ThinkingInv(q)' /\ AttemptInv(q)' /\ OptimisticAnswerInv(q)'
  <2>1. /\ at'[q] \in {"new", "done"} /\ (at'[q] = "new" => at[q] = "new")
        /\ (at[q] = "done" => at'[q] = "done") /\ snapshot'[q] = snapshot[q]
    BY <1>1 DEF OptimisticInv, TableTypeOK
  <2>2. AttemptInv(q) /\ OptimisticAnswerInv(q)
    BY DEF OptimisticInv
  <2>3. OptimisticAnswerInv(q)'
    BY <1>2, <1>6, <1>7, <1>8, <2>1, <2>2 DEF OptimisticAnswerInv, Answered, Row, Product
  <2> QED
    BY <1>1, <2>1, <2>2, <2>3 DEF ThinkingInv, AttemptInv
<1>10. OneWinner'
  BY <1>8 DEF OptimisticInv, OneWinner, Answered, Product
<1> QED
  BY <1>4, <1>5, <1>9, <1>10 DEF OptimisticInv

\* A request that is answered without a write and without a snapshot.
LEMMA OptimisticEndInv == ASSUME OptimisticInv, NEW r \in Requests, NEW what \in {"unknown", "read", "conflict"},
                                 UNCHANGED <<tableVars, attempt>>, Done(r, what),
                                 what = "conflict" => Expected[r] # {}
                          PROVE  OptimisticInv'
<1> USE OptimisticTypesOfRequest
<1>1. /\ entries' = entries /\ sold' = sold /\ seeded' = seeded /\ round' = round
      /\ attempt' = attempt /\ target' = target
  BY DEF tableVars
<1>2. \A q \in Requests \ {r} : at'[q] = at[q] /\ snapshot'[q] = snapshot[q] /\ answer'[q] = answer[q]
  BY DEF Done, OptimisticInv, TableTypeOK
<1>3. /\ at'[r] = "done" /\ snapshot' = snapshot
      /\ answer'[r] = [what |-> what, version |-> Row(r).version, round |-> round[Product(r)]]
  BY <1>1 DEF Done, OptimisticInv, TableTypeOK, Row, Product
<1>4. (TableTypeOK /\ OptimisticTypeOK)'
  <2>1. [what |-> what, version |-> Row(r).version, round |-> round[Product(r)]] \in Answer
    BY DEF Answer, Entry
  <2> QED
    BY <1>1, <2>1 DEF OptimisticInv, TableTypeOK, OptimisticTypeOK, Done, Steps, Row, Product
<1>5. BooksBalance'
  BY <1>1 DEF OptimisticInv, BooksBalance
<1>6. ThinkingInv(r)' /\ AttemptInv(r)' /\ OptimisticAnswerInv(r)'
  BY <1>1, <1>3 DEF ThinkingInv, AttemptInv, OptimisticAnswerInv, Answered, Product, Row
<1>7. \A q \in Requests \ {r} : ThinkingInv(q)' /\ AttemptInv(q)' /\ OptimisticAnswerInv(q)'
  BY <1>1, <1>2
  DEF OptimisticInv, ThinkingInv, AttemptInv, OptimisticAnswerInv, Answered, Row, Product
<1>8. OneWinner'
  <2>1. answer'[r].what # "granted"
    BY <1>3
  <2> QED
    BY <1>1, <1>2, <2>1 DEF OptimisticInv, OneWinner, Answered, Product
<1> QED
  BY <1>4, <1>5, <1>6, <1>7, <1>8 DEF OptimisticInv

\* Reading the row: an unknown product, a failed precondition, or a snapshot.
LEMMA ReadInv == ASSUME OptimisticInv, NEW r \in Requests, OptimisticRead(r)
                 PROVE  OptimisticInv'
<1> USE OptimisticTypesOfRequest
<1>1. /\ entries' = entries /\ sold' = sold /\ seeded' = seeded /\ round' = round
      /\ attempt' = attempt /\ target' = target
      /\ at[r] \in {"new", "backoff"}
  BY DEF OptimisticRead, Arrives, tableVars
<1>2. \A q \in Requests \ {r} : at'[q] = at[q] /\ snapshot'[q] = snapshot[q] /\ answer'[q] = answer[q]
  BY DEF OptimisticRead, Done, TakeSnapshot, OptimisticInv, TableTypeOK, OptimisticTypeOK
<1>3. BooksBalance'
  BY <1>1 DEF OptimisticInv, BooksBalance
<1>4. CASE /\ PreconditionHolds(r) /\ TakeSnapshot(r)
  <2>1. at'[r] = "thinking" /\ snapshot'[r] = Row(r) /\ answer' = answer
    BY <1>4 DEF TakeSnapshot, OptimisticInv, TableTypeOK, OptimisticTypeOK
  <2>2. (TableTypeOK /\ OptimisticTypeOK)'
    BY <1>1, <1>4 DEF OptimisticInv, TableTypeOK, OptimisticTypeOK, TakeSnapshot, Steps
  <2>3. AttemptInv(r) /\ OptimisticAnswerInv(r) /\ Row(r).version \in Nat /\ Row(r).units \in Nat
    BY DEF OptimisticInv, Entry
  <2>4. ThinkingInv(r)'
    BY <1>1, <1>4, <2>1, <2>3 DEF ThinkingInv, AttemptInv, PreconditionHolds, Row, Product
  <2>5. AttemptInv(r)' /\ OptimisticAnswerInv(r)'
    BY <1>1, <2>1, <2>3 DEF AttemptInv, OptimisticAnswerInv, Answered, Row, Product
  <2>6. \A q \in Requests \ {r} : ThinkingInv(q)' /\ AttemptInv(q)' /\ OptimisticAnswerInv(q)'
    BY <1>1, <1>2
    DEF OptimisticInv, ThinkingInv, AttemptInv, OptimisticAnswerInv, Answered, Row, Product
  <2>7. OneWinner'
    BY <1>1, <2>1 DEF OptimisticInv, OneWinner, Answered, Product
  <2> QED
    BY <1>3, <2>2, <2>4, <2>5, <2>6, <2>7 DEF OptimisticInv
<1>5. CASE Done(r, "unknown")
  BY <1>1, <1>5, OptimisticEndInv DEF OptimisticRead
<1>6. CASE ~PreconditionHolds(r) /\ Done(r, "conflict")
  BY <1>1, <1>6, OptimisticEndInv DEF OptimisticRead, PreconditionHolds
<1> QED
  BY <1>4, <1>5, <1>6 DEF OptimisticRead

\* Too few units in the snapshot: the row has no more.
LEMMA RejectInv == ASSUME OptimisticInv, NEW r \in Requests, Reject(r)
                   PROVE  OptimisticInv'
<1> USE OptimisticTypesOfRequest
<1>1. /\ entries' = entries /\ sold' = sold /\ seeded' = seeded /\ round' = round
      /\ attempt' = attempt /\ snapshot' = snapshot /\ target' = target
      /\ at[r] = "thinking" /\ ~(snapshot[r].units >= Ask[r].units)
      /\ at' = [at EXCEPT ![r] = "done"]
  BY DEF Reject, tableVars, Done, Enough
<1>2. answer' = [answer EXCEPT ![r] = [what |-> "insufficient", version |-> Row(r).version,
                                       round |-> round[Product(r)]]]
  BY <1>1 DEF Reject, Done, Row, Product
<1>3. (TableTypeOK /\ OptimisticTypeOK)'
  <2>1. [what |-> "insufficient", version |-> Row(r).version, round |-> round[Product(r)]] \in Answer
    BY DEF Answer, Entry
  <2> QED
    BY <1>1, <1>2, <2>1 DEF OptimisticInv, TableTypeOK, OptimisticTypeOK, Steps
<1>4. BooksBalance'
  BY <1>1 DEF OptimisticInv, BooksBalance
<1>5. ThinkingInv(r)' /\ AttemptInv(r)' /\ OptimisticAnswerInv(r)'
  <2>1. Row(r).units < Ask[r].units
    BY <1>1 DEF OptimisticInv, ThinkingInv, Entry
  <2> QED
    BY <1>1, <1>2, <2>1
    DEF OptimisticInv, TableTypeOK, OptimisticTypeOK, ThinkingInv, AttemptInv,
        OptimisticAnswerInv, Answered, Product, Row
<1>6. \A q \in Requests \ {r} : ThinkingInv(q)' /\ AttemptInv(q)' /\ OptimisticAnswerInv(q)'
  BY <1>1, <1>2
  DEF OptimisticInv, ThinkingInv, AttemptInv, OptimisticAnswerInv, Answered, Row, Product
<1>7. OneWinner'
  <2>1. answer'[r].what # "granted" /\ \A q \in Requests \ {r} : answer'[q] = answer[q]
    BY <1>2 DEF OptimisticInv, TableTypeOK, OptimisticTypeOK
  <2> QED
    BY <1>1, <2>1 DEF OptimisticInv, OneWinner, Answered, Product
<1> QED
  BY <1>3, <1>4, <1>5, <1>6, <1>7 DEF OptimisticInv

\* The swap: the snapshot is the row, so its units are the shelf's; every
\* other snapshot of the product is older from now on.
LEMMA SwapInv == ASSUME OptimisticInv, NEW r \in Requests, Swap(r)
                 PROVE  OptimisticInv'
<1> USE OptimisticTypesOfRequest
<1> DEFINE p == Product(r)
<1>1. /\ at[r] = "thinking" /\ snapshot[r].units >= Ask[r].units
      /\ Row(r).version = snapshot[r].version
      /\ attempt' = attempt /\ snapshot' = snapshot /\ seeded' = seeded /\ round' = round
      /\ target' = target
      /\ at' = [at EXCEPT ![r] = "done"]
  BY DEF Swap, Write, Done, Enough
<1>2. snapshot[r].units = Row(r).units
  BY <1>1 DEF OptimisticInv, ThinkingInv
<1>3. /\ entries' = [entries EXCEPT ![p] = [units |-> Row(r).units - Ask[r].units,
                                           version |-> Row(r).version + 1]]
      /\ sold' = [sold EXCEPT ![p] = @ + Ask[r].units]
  BY <1>2 DEF Swap, Write, Row
<1>4. /\ entries'[p] = [units |-> Row(r).units - Ask[r].units, version |-> Row(r).version + 1]
      /\ entries'[p].units \in Nat /\ entries'[p].version \in Nat
      /\ \A x \in Products \ {p} : entries'[x] = entries[x]
  BY <1>1, <1>2, <1>3 DEF OptimisticInv, TableTypeOK, OptimisticTypeOK, Entry
<1>5. answer' = [answer EXCEPT ![r] = [what |-> "granted", version |-> Row(r).version + 1,
                                       round |-> round[p]]]
  BY <1>1, <1>4 DEF Swap, Done
<1>6. (TableTypeOK /\ OptimisticTypeOK)'
  <2>1. [what |-> "granted", version |-> Row(r).version + 1, round |-> round[p]] \in Answer
    BY DEF Answer, Entry
  <2>2. entries' \in [Products -> Entry]
    BY <1>3, <1>4 DEF OptimisticInv, TableTypeOK, OptimisticTypeOK, Entry
  <2>3. sold' \in [Products -> Nat]
    BY <1>3 DEF OptimisticInv, TableTypeOK, OptimisticTypeOK
  <2> QED
    BY <1>1, <1>5, <2>1, <2>2, <2>3 DEF OptimisticInv, TableTypeOK, OptimisticTypeOK, Steps
<1>7. BooksBalance'
  <2>1. ASSUME NEW x \in Products PROVE entries'[x].units + sold'[x] = seeded'[x]
    <3>1. entries[x].units + sold[x] = seeded[x] /\ entries[x].units \in Nat /\ sold[x] \in Nat
      BY DEF OptimisticInv, BooksBalance, TableTypeOK, OptimisticTypeOK, Entry
    <3>2. CASE x # p
      BY <1>1, <1>3, <1>4, <3>1, <3>2 DEF OptimisticInv, TableTypeOK, OptimisticTypeOK
    <3>3. CASE x = p
      <4>1. sold'[p] = sold[p] + Ask[r].units
        BY <1>3 DEF OptimisticInv, TableTypeOK, OptimisticTypeOK
      <4> QED
        BY <1>1, <1>4, <3>1, <3>3, <4>1 DEF Row
    <3> QED
      BY <3>2, <3>3
  <2> QED
    BY <2>1 DEF BooksBalance
<1>8. ThinkingInv(r)' /\ AttemptInv(r)' /\ OptimisticAnswerInv(r)'
  <2>1. at'[r] = "done" /\ answer'[r] = [what |-> "granted", version |-> Row(r).version + 1,
                                        round |-> round[p]]
    BY <1>1, <1>5 DEF OptimisticInv, TableTypeOK, OptimisticTypeOK
  <2>2. Expected[r] # {} => \E v \in Expected[r] : Row(r).version + 1 = v + 1
    BY <1>1 DEF OptimisticInv, ThinkingInv
  <2> QED
    BY <1>1, <1>4, <2>1, <2>2
    DEF ThinkingInv, AttemptInv, OptimisticAnswerInv, Answered, Row, Product
<1>9. ASSUME NEW q \in Requests \ {r}
      PROVE  ThinkingInv(q)' /\ AttemptInv(q)' /\ OptimisticAnswerInv(q)'
  <2>1. at'[q] = at[q] /\ answer'[q] = answer[q]
    BY <1>1, <1>5 DEF OptimisticInv, TableTypeOK, OptimisticTypeOK
  <2>2. ThinkingInv(q) /\ AttemptInv(q) /\ OptimisticAnswerInv(q)
    BY DEF OptimisticInv
  <2>3. CASE Product(q) # p
    BY <1>1, <1>4, <2>1, <2>2, <2>3
    DEF ThinkingInv, AttemptInv, OptimisticAnswerInv, Answered, Row, Product
  <2>4. CASE Product(q) = p
    <3>1. entries'[Product(q)].version = entries[Product(q)].version + 1
          /\ entries'[Product(q)].units < entries[Product(q)].units
      BY <1>4, <2>4 DEF Row, Entry
    <3>2. snapshot[q].version \in Nat /\ snapshot[q].units \in Nat /\ answer[q].version \in Nat
          /\ Row(q).version \in Nat /\ Row(q).units \in Nat
      BY DEF Entry, Answer
    <3>3. ThinkingInv(q)'
      BY <1>1, <1>4, <2>1, <2>2, <2>4, <3>1, <3>2 DEF ThinkingInv, Row, Product
    <3>4. AttemptInv(q)'
      BY <1>1, <1>4, <2>1, <2>2, <2>4, <3>1, <3>2 DEF AttemptInv, Row, Product
    <3>5. OptimisticAnswerInv(q)'
      BY <1>1, <1>4, <2>1, <2>2, <2>4, <3>1, <3>2 DEF OptimisticAnswerInv, Answered, Row, Product
    <3> QED
      BY <3>3, <3>4, <3>5
  <2> QED
    BY <2>3, <2>4
<1>10. OneWinner'
  <2>1. /\ answer'[r].version = Row(r).version + 1 /\ Row(r).version \in Nat
        /\ \A q \in Requests \ {r} : answer'[q] = answer[q]
    BY <1>5 DEF OptimisticInv, TableTypeOK, OptimisticTypeOK, Entry
  <2>2. \A q \in Requests \ {r} : Product(q) = p /\ Answered(q, "granted") =>
          answer[q].version \in Nat /\ answer[q].version <= Row(r).version
    BY DEF OptimisticInv, OptimisticAnswerInv, Answer, Row
  <2>3. \A q \in Requests \ {r} : Answered(q, "granted")' => Answered(q, "granted")
    BY <1>1, <2>1 DEF Answered, Product
  <2>4. \A q \in Requests \ {r} : Product(q) = p /\ Answered(q, "granted")' =>
          answer'[q].version # answer'[r].version
    BY <2>1, <2>2, <2>3
  <2> QED
    BY <2>1, <2>3, <2>4 DEF OptimisticInv, OneWinner, Product
<1> QED
  BY <1>6, <1>7, <1>8, <1>9, <1>10 DEF OptimisticInv

\* The version has moved past the snapshot's, so there was a write for this
\* attempt to lose against.
LEMMA ConflictInv == ASSUME OptimisticInv, NEW r \in Requests, Conflict(r)
                     PROVE  OptimisticInv'
<1> USE OptimisticTypesOfRequest
<1>1. /\ entries' = entries /\ sold' = sold /\ seeded' = seeded /\ round' = round
      /\ snapshot' = snapshot /\ target' = target
      /\ at[r] = "thinking" /\ Row(r).version # snapshot[r].version
  BY DEF Conflict, tableVars, Done
<1>2. BooksBalance'
  BY <1>1 DEF OptimisticInv, BooksBalance
<1>3. attempt[r] <= Row(r).version
  <2>1. attempt[r] <= snapshot[r].version + 1 /\ snapshot[r].version <= Row(r).version
    BY <1>1 DEF OptimisticInv, ThinkingInv
  <2> QED
    BY <1>1, <2>1 DEF Entry
<1>4. CASE /\ attempt[r] < Budget(r)
           /\ attempt' = [attempt EXCEPT ![r] = @ + 1]
           /\ at' = [at EXCEPT ![r] = "backoff"]
           /\ UNCHANGED <<snapshot, answer>>
  <2>1. /\ at'[r] = "backoff" /\ attempt'[r] = attempt[r] + 1 /\ answer' = answer
        /\ \A q \in Requests \ {r} : at'[q] = at[q] /\ attempt'[q] = attempt[q]
    BY <1>4 DEF OptimisticInv, TableTypeOK, OptimisticTypeOK
  <2>2. (TableTypeOK /\ OptimisticTypeOK)'
    <3>1. attempt[r] + 1 \in 1..(Retries + 1)
      BY <1>4 DEF Budget
    <3>2. attempt' \in [Requests -> 1..(Retries + 1)]
      BY <1>4, <3>1 DEF OptimisticInv, OptimisticTypeOK
    <3> QED
      BY <1>1, <1>4, <3>2 DEF OptimisticInv, TableTypeOK, OptimisticTypeOK, Steps
  <2>3. ThinkingInv(r)' /\ AttemptInv(r)' /\ OptimisticAnswerInv(r)'
    BY <1>1, <1>3, <2>1
    DEF OptimisticInv, ThinkingInv, AttemptInv, OptimisticAnswerInv, Answered, Row, Product, Entry
  <2>4. \A q \in Requests \ {r} : ThinkingInv(q)' /\ AttemptInv(q)' /\ OptimisticAnswerInv(q)'
    BY <1>1, <2>1
    DEF OptimisticInv, ThinkingInv, AttemptInv, OptimisticAnswerInv, Answered, Row, Product
  <2>5. OneWinner'
    BY <1>1, <2>1 DEF OptimisticInv, OneWinner, Answered, Product
  <2> QED
    BY <1>2, <2>2, <2>3, <2>4, <2>5 DEF OptimisticInv
<1>5. CASE attempt[r] >= Budget(r) /\ Done(r, "conflict") /\ UNCHANGED attempt
  <2>1. /\ at' = [at EXCEPT ![r] = "done"]
        /\ answer' = [answer EXCEPT ![r] = [what |-> "conflict", version |-> Row(r).version,
                                            round |-> round[Product(r)]]]
        /\ attempt' = attempt
    BY <1>1, <1>5 DEF Done, Row, Product
  <2>2. (TableTypeOK /\ OptimisticTypeOK)'
    <3>1. [what |-> "conflict", version |-> Row(r).version, round |-> round[Product(r)]] \in Answer
      BY DEF Answer, Entry
    <3> QED
      BY <1>1, <2>1, <3>1 DEF OptimisticInv, TableTypeOK, OptimisticTypeOK, Steps
  <2>3. /\ at'[r] = "done" /\ answer'[r].what = "conflict" /\ answer'[r].round = round[Product(r)]
        /\ \A q \in Requests \ {r} : at'[q] = at[q] /\ answer'[q] = answer[q]
    BY <2>1 DEF OptimisticInv, TableTypeOK, OptimisticTypeOK
  <2>4. Expected[r] = {} => Row(r).version > Retries
    BY <1>3, <1>5 DEF Budget, Entry
  <2>5. ThinkingInv(r)' /\ AttemptInv(r)' /\ OptimisticAnswerInv(r)'
    BY <1>1, <2>3, <2>4 DEF ThinkingInv, AttemptInv, OptimisticAnswerInv, Answered, Row, Product
  <2>6. \A q \in Requests \ {r} : ThinkingInv(q)' /\ AttemptInv(q)' /\ OptimisticAnswerInv(q)'
    BY <1>1, <2>1, <2>3
    DEF OptimisticInv, ThinkingInv, AttemptInv, OptimisticAnswerInv, Answered, Row, Product
  <2>7. OneWinner'
    BY <1>1, <2>3 DEF OptimisticInv, OneWinner, Answered, Product
  <2> QED
    BY <1>2, <2>2, <2>5, <2>6, <2>7 DEF OptimisticInv
<1> QED
  BY <1>4, <1>5 DEF Conflict

\* A step that changes nothing keeps the invariant.
LEMMA OptimisticStutterInv == ASSUME OptimisticInv, UNCHANGED optimisticVars
                              PROVE  OptimisticInv'
  BY
  DEF optimisticVars, tableVars, requestVars, OptimisticInv, TableTypeOK, OptimisticTypeOK,
      BooksBalance, ThinkingInv,
         AttemptInv, OptimisticAnswerInv, Answered, OneWinner, Product, Row

\* Every step of optimistic-service keeps the invariant as long as no product is
\* seeded under a request.
LEMMA OptimisticNextInv ==
  ASSUME SeedsRace = FALSE, OptimisticInv, [OptimisticNext]_optimisticVars
  PROVE  OptimisticInv'
<1>1. ASSUME NEW r \in Requests, Endpoint(r), UNCHANGED attempt
      PROVE  OptimisticInv'
  <2>1. CASE ReadStock(r)
    <3>1. UNCHANGED tableVars /\ (Done(r, "read") \/ Done(r, "unknown"))
      BY <2>1 DEF ReadStock
    <3> QED
      BY <1>1, <3>1, OptimisticEndInv
  <2>2. CASE SeedStock(r) /\ \A q \in Requests : at[q] \in {"new", "done"}
    BY <1>1, <2>2, OptimisticSeedInv
  <2> QED
    BY <1>1, <2>1, <2>2 DEF Endpoint
<1>2. ASSUME NEW r \in Requests, OptimisticRead(r) \/ Reject(r) \/ Swap(r) \/ Conflict(r)
      PROVE  OptimisticInv'
  BY <1>2, ReadInv, RejectInv, SwapInv, ConflictInv
<1>3. CASE UNCHANGED optimisticVars
  BY <1>3, OptimisticStutterInv
<1> QED
  BY <1>1, <1>2, <1>3 DEF OptimisticNext

\* The invariant holds in every reachable state.
THEOREM OptimisticInvariance ==
  ASSUME SeedsRace = FALSE
  PROVE  OptimisticSpec => []OptimisticInv
BY OptimisticInitInv, OptimisticNextInv, PTL DEF OptimisticSpec

\* The headline of the lab: every unit handed out was a unit consumed.
THEOREM OptimisticNothingIsOversold == ASSUME SeedsRace = FALSE
                                       PROVE  OptimisticSpec => []NoOversell
<1>1. OptimisticInv => NoOversell
  BY DEF OptimisticInv, NoOversell
<1> QED
  BY OptimisticInvariance, <1>1, PTL

\* Out of stock means out of stock.
THEOREM OptimisticRejectionsAreHonest == ASSUME SeedsRace = FALSE
                                         PROVE  OptimisticSpec => []RejectionIsHonest
<1>1. OptimisticInv => RejectionIsHonest
  BY DEF OptimisticInv, OptimisticAnswerInv, RejectionIsHonest
<1> QED
  BY OptimisticInvariance, <1>1, PTL

\* No two grants of a product were decided on the same version of its row.
THEOREM EachVersionHasOneWinner == ASSUME SeedsRace = FALSE
                                   PROVE  OptimisticSpec => []OneWinnerPerVersion
<1>1. ASSUME OptimisticInv PROVE OneWinnerPerVersion
  <2>1. \A r \in Requests : Answered(r, "granted") => answer[r].version = snapshot[r].version + 1
    BY <1>1 DEF OptimisticInv, OptimisticAnswerInv
  <2> QED
    BY <1>1, <2>1 DEF OptimisticInv, OneWinner, OneWinnerPerVersion
<1> QED
  BY OptimisticInvariance, <1>1, PTL

\* A pinned request is applied to the version it names.
THEOREM PinsAreExact == ASSUME SeedsRace = FALSE
                        PROVE  OptimisticSpec => []PinnedIsExact
<1>1. OptimisticInv => PinnedIsExact
  BY DEF OptimisticInv, OptimisticAnswerInv, PinnedIsExact
<1> QED
  BY OptimisticInvariance, <1>1, PTL

\* A 409 takes more than Retries writes of competitors.
THEOREM ConflictsAreEarned == ASSUME SeedsRace = FALSE
                              PROVE  OptimisticSpec => []ConflictIsEarned
<1>1. OptimisticInv => ConflictIsEarned
  BY DEF OptimisticInv, OptimisticAnswerInv, ConflictIsEarned
<1> QED
  BY OptimisticInvariance, <1>1, PTL

\* The swap is where the units leave the shelf; every other step of a request
\* leaves the shelf alone.
LEMMA OptimisticStepOnShelf ==
  ASSUME OptimisticInv, [OptimisticNext]_optimisticVars
  PROVE  [Promise!Next]_(Promise!vars)
<1> DEFINE shelf == [p \in Products |-> entries[p].units]
<1>1. ASSUME NEW r \in Requests, SeedStock(r)
      PROVE  Promise!Next
  <2> DEFINE p == Product(r)
             n == Ask[r].units
  <2>1. p \in Products /\ Seed(p, n) /\ Ask[r].kind = "seed"
    BY <1>1, OptimisticTypesOfRequest DEF SeedStock
  <2>2. shelf' = [shelf EXCEPT ![p] = n]
    BY <2>1 DEF Seed, OptimisticInv, TableTypeOK
  <2>3. Promise!Fill(p, n)
    BY <2>1, <2>2 DEF Seed, Promise!Fill
  <2> QED
    BY <2>1, <2>3 DEF Promise!Next
<1>2. ASSUME NEW r \in Requests, Swap(r)
      PROVE  Promise!Next
  <2> DEFINE p == Product(r)
             n == Ask[r].units
  <2>1. p \in Products /\ n \in Nat \ {0} /\ Row(r) \in Entry
    BY OptimisticTypesOfRequest
  <2>2. n <= Row(r).units /\ snapshot[r].units = Row(r).units
    BY <1>2 DEF Swap, Enough, OptimisticInv, ThinkingInv
  <2>3. shelf' = [shelf EXCEPT ![p] = @ - n]
    BY <1>2, <2>1, <2>2 DEF Swap, Write, OptimisticInv, TableTypeOK, Row
  <2>4. sold' = [sold EXCEPT ![p] = @ + n] /\ seeded' = seeded
    BY <1>2 DEF Swap, Write
  <2>5. n \in 1..shelf[p]
    BY <2>1, <2>2 DEF Row, Entry
  <2>6. Promise!Take(p, n)
    BY <2>3, <2>4 DEF Promise!Take
  <2> QED
    BY <2>1, <2>5, <2>6 DEF Promise!Next
<1>3. ASSUME NEW r \in Requests, ReadStock(r) \/ OptimisticRead(r) \/ Reject(r) \/ Conflict(r)
      PROVE  UNCHANGED <<entries, sold, seeded>>
  BY <1>3 DEF ReadStock, OptimisticRead, Reject, Conflict, tableVars
<1>4. CASE UNCHANGED optimisticVars
  BY <1>4 DEF optimisticVars, tableVars, Promise!vars
<1> QED
  BY <1>1, <1>2, <1>3, <1>4 DEF OptimisticNext, Endpoint, Promise!vars

\* ... so the strategy implements the shelf.
THEOREM SwapIsAtomic ==
  ASSUME SeedsRace = FALSE
  PROVE  OptimisticSpec => ImplementsShelf
<1>1. OptimisticInit => Promise!Init
  BY DEF OptimisticInit, TableInit, Promise!Init
<1>2. OptimisticInv /\ [OptimisticNext]_optimisticVars => [target = "naive" \/ Promise!Next]_(Promise!vars)
  BY OptimisticStepOnShelf
<1> QED
  BY OptimisticInvariance, <1>1, <1>2, PTL DEF OptimisticSpec, ImplementsShelf

-----------------------------------------------------------------------------
(* Proofs about PessimisticStock, for any number of requests and products  *)
(* and both lock scopes: while no product is seeded under a running        *)
(* request, the mutex keeps a snapshot true until it is written back.      *)
(*                                                                         *)
(* The proof needs nothing of the queue of waiters: whoever is handed the  *)
(* mutex, only its holder is between the read and the write.               *)

HolderInv(r) == at[r] = "thinking" => Holds(r) /\ snapshot[r] = Row(r)

PessimisticAnswerInv(r) == /\ answer[r].round <= round[Product(r)]
                           /\ Answered(r, "insufficient") => Row(r).units < Ask[r].units

PessimisticInv == /\ TableTypeOK
                  /\ scope \in {"key", "global"}
                  /\ holder = [l \in Locks |-> holder[l]]
                  /\ BooksBalance
                  /\ \A r \in Requests : HolderInv(r) /\ PessimisticAnswerInv(r)

\* Nothing has been seeded or read.
THEOREM PessimisticInitInv == PessimisticInit => PessimisticInv
  BY TableAssumption, SMT
  DEF PessimisticInit, TableInit, PessimisticInv, TableTypeOK, Entry, Answer, Steps, BooksBalance,
      HolderInv, PessimisticAnswerInv,
      Answered, Product, Row

\* The types a step about request r works with.
LEMMA PessimisticTypesOfRequest ==
  ASSUME PessimisticInv, NEW r \in Requests
  PROVE  /\ Product(r) \in Products /\ LockFor(r) \in Locks
                    /\ Row(r) \in Entry
                    /\ round[Product(r)] \in Nat
                    /\ Ask[r].units \in Nat \ {0}
                    /\ snapshot[r] \in Entry /\ at[r] \in Steps /\ answer[r] \in Answer
  BY TableAssumption DEF PessimisticInv, TableTypeOK, Product, Row, LockFor, Locks

\* No handler is between its read and its write while a product is seeded.
LEMMA PessimisticSeedInv == ASSUME PessimisticInv, NEW r \in Requests, SeedStock(r), UNCHANGED lockVars,
                                   \A q \in Requests : at[q] \in {"new", "done"}
                            PROVE  PessimisticInv'
<1> USE PessimisticTypesOfRequest
<1> DEFINE p == Product(r)
           n == Ask[r].units
<1>1. /\ entries' = [entries EXCEPT ![p] = [units |-> n, version |-> 0]]
      /\ sold' = [sold EXCEPT ![p] = 0] /\ seeded' = [seeded EXCEPT ![p] = n]
      /\ round' = [round EXCEPT ![p] = @ + 1] /\ target' = target
      /\ at' = [at EXCEPT ![r] = "done"] /\ snapshot' = snapshot
      /\ holder' = holder /\ scope' = scope
  BY DEF SeedStock, Seed, Done, lockVars
<1>2. /\ entries'[p] = [units |-> n, version |-> 0] /\ round'[p] = round[p] + 1
      /\ \A x \in Products \ {p} : entries'[x] = entries[x] /\ round'[x] = round[x]
  BY <1>1 DEF PessimisticInv, TableTypeOK
<1>3. answer' = [answer EXCEPT ![r] = [what |-> "seeded", version |-> 0, round |-> round[p] + 1]]
  BY <1>2 DEF SeedStock, Done
<1>4. TableTypeOK'
  <2>1. [what |-> "seeded", version |-> 0, round |-> round[p] + 1] \in Answer
    BY DEF Answer
  <2> QED
    BY <1>1, <1>3, <2>1 DEF PessimisticInv, TableTypeOK, Entry, Steps
<1>5. BooksBalance'
  BY <1>1 DEF PessimisticInv, BooksBalance, TableTypeOK, Entry
<1>6. ASSUME NEW q \in Requests
      PROVE  HolderInv(q)' /\ PessimisticAnswerInv(q)'
  <2>1. at'[q] # "thinking"
    BY <1>1 DEF PessimisticInv, TableTypeOK
  <2>2. round[Product(q)] \in Nat /\ answer[q].round \in Nat
    BY DEF Answer
  <2>3. /\ q = r => answer'[q].what = "seeded" /\ answer'[q].round = round[p] + 1
        /\ q # r => answer'[q] = answer[q]
    BY <1>3 DEF PessimisticInv, TableTypeOK
  <2>4. PessimisticAnswerInv(q)
    BY DEF PessimisticInv
  <2>5. PessimisticAnswerInv(q)'
    BY <1>2, <2>2, <2>3, <2>4 DEF PessimisticAnswerInv, Answered, Row, Product
  <2> QED
    BY <2>1, <2>5 DEF HolderInv
<1> QED
  BY <1>1, <1>4, <1>5, <1>6 DEF PessimisticInv

\* Unlocking changes the holder of that one mutex.
LEMMA UnlockOnlyThat ==
  ASSUME PessimisticInv, NEW l \in Locks, Unlock(l)
  PROVE  /\ scope' = scope
         /\ holder' = [x \in Locks |-> holder'[x]]
         /\ \A x \in Locks \ {l} : holder'[x] = holder[x]
  BY DEF PessimisticInv, Unlock

\* A handler that ends without writing, and gives up its mutex if it has it.
LEMMA PessimisticEndInv ==
  ASSUME PessimisticInv, NEW r \in Requests, NEW what \in {"unknown", "insufficient", "gone", "read"},
                    UNCHANGED <<tableVars, scope>>, Done(r, what),
                    what = "insufficient" => at[r] = "thinking" /\ ~Enough(r),
                    \/ Holds(r) /\ Unlock(LockFor(r))
                    \/ holder' = holder
  PROVE  PessimisticInv'
<1> USE PessimisticTypesOfRequest
<1>1. /\ entries' = entries /\ sold' = sold /\ seeded' = seeded
      /\ round' = round /\ target' = target
      /\ snapshot' = snapshot
      /\ at' = [at EXCEPT ![r] = "done"]
  BY DEF tableVars, Done
<1>2. answer' = [answer EXCEPT ![r] = [what |-> what, version |-> Row(r).version,
                                       round |-> round[Product(r)]]]
  BY <1>1 DEF Done, Row, Product
<1>3. TableTypeOK'
  <2>1. [what |-> what, version |-> Row(r).version, round |-> round[Product(r)]] \in Answer
    BY DEF Answer, Entry
  <2> QED
    BY <1>1, <1>2, <2>1 DEF PessimisticInv, TableTypeOK, Steps
<1>4. /\ scope' = scope
      /\ holder' = [x \in Locks |-> holder'[x]]
      /\ \A q \in Requests \ {r} : at[q] = "thinking" => holder'[LockFor(q)] = q
  <2>1. \A q \in Requests : at[q] = "thinking" => holder[LockFor(q)] = q
    BY DEF PessimisticInv, HolderInv, Holds
  <2>2. CASE Holds(r) /\ Unlock(LockFor(r))
    BY <2>1, <2>2, UnlockOnlyThat DEF Holds
  <2>3. CASE holder' = holder
    BY <2>1, <2>3 DEF PessimisticInv
  <2> QED
    BY <2>2, <2>3
<1>5. HolderInv(r)' /\ PessimisticAnswerInv(r)'
  <2>1. what = "insufficient" => Row(r).units < Ask[r].units
    BY DEF PessimisticInv, HolderInv, Enough, Entry
  <2>2. /\ at'[r] = "done" /\ answer'[r].what = what /\ answer'[r].round = round[Product(r)]
    BY <1>1, <1>2 DEF PessimisticInv, TableTypeOK
  <2> QED
    BY <1>1, <2>1, <2>2 DEF HolderInv, PessimisticAnswerInv, Answered, Product, Row
<1>6. ASSUME NEW q \in Requests \ {r}
      PROVE  HolderInv(q)' /\ PessimisticAnswerInv(q)'
  <2>1. at'[q] = at[q] /\ answer'[q] = answer[q]
    BY <1>1, <1>2 DEF PessimisticInv, TableTypeOK
  <2>2. HolderInv(q) /\ PessimisticAnswerInv(q)
    BY DEF PessimisticInv
  <2> QED
    BY <1>1, <1>4, <2>1, <2>2
    DEF HolderInv, PessimisticAnswerInv, Answered, Product, Row, Holds, LockFor
<1>7. BooksBalance'
  BY <1>1 DEF PessimisticInv, BooksBalance
<1> QED
  BY <1>3, <1>4, <1>5, <1>6, <1>7 DEF PessimisticInv

\* Asking for the mutex: nobody's holder but a free mutex's changes.
LEMMA LockInv == ASSUME PessimisticInv, NEW r \in Requests, Lock(r)
                 PROVE  PessimisticInv'
<1> USE PessimisticTypesOfRequest
<1>1. /\ entries' = entries /\ sold' = sold /\ seeded' = seeded
      /\ round' = round /\ target' = target
      /\ snapshot' = snapshot /\ answer' = answer
      /\ at[r] = "new" /\ at' = [at EXCEPT ![r] = "waiting"] /\ scope' = scope
  BY DEF Lock, Arrives, tableVars
<1>2. /\ scope' = scope
      /\ holder' = [x \in Locks |-> holder'[x]]
      /\ \A q \in Requests : at[q] = "thinking" => holder'[LockFor(q)] = q
  <2>1. \A q \in Requests : at[q] = "thinking" => holder[LockFor(q)] = q
    BY DEF PessimisticInv, HolderInv, Holds
  <2>2. CASE holder[LockFor(r)] = Nobody /\ holder' = [holder EXCEPT ![LockFor(r)] = r]
    BY <1>1, <2>1, <2>2, TableAssumption DEF PessimisticInv
  <2>3. CASE holder' = holder
    BY <1>1, <2>1, <2>3 DEF PessimisticInv
  <2> QED
    BY <2>2, <2>3 DEF Lock
<1>3. TableTypeOK' /\ BooksBalance'
  BY <1>1 DEF PessimisticInv, TableTypeOK, Steps, BooksBalance
<1>4. \A q \in Requests : HolderInv(q)' /\ PessimisticAnswerInv(q)'
  <2>1. \A q \in Requests : at'[q] = "thinking" => at[q] = "thinking"
    BY <1>1 DEF PessimisticInv, TableTypeOK
  <2> QED
    BY <1>1, <1>2, <2>1
    DEF PessimisticInv, HolderInv, PessimisticAnswerInv, Answered, Product, Row, Holds, LockFor
<1> QED
  BY <1>2, <1>3, <1>4 DEF PessimisticInv

\* The holder reads the row.
LEMMA PessimisticSnapshotInv == ASSUME PessimisticInv, NEW r \in Requests, Holds(r), TakeSnapshot(r),
                                       UNCHANGED tableVars, UNCHANGED lockVars
                                PROVE  PessimisticInv'
<1> USE PessimisticTypesOfRequest
<1>1. /\ entries' = entries /\ sold' = sold /\ seeded' = seeded
      /\ round' = round /\ target' = target
      /\ answer' = answer /\ holder' = holder /\ scope' = scope
      /\ snapshot' = [snapshot EXCEPT ![r] = Row(r)] /\ at' = [at EXCEPT ![r] = "thinking"]
  BY DEF tableVars, lockVars, TakeSnapshot
<1>2. TableTypeOK' /\ BooksBalance'
  BY <1>1 DEF PessimisticInv, TableTypeOK, Steps, BooksBalance
<1>3. /\ snapshot'[r] = Row(r)
      /\ \A q \in Requests \ {r} : at'[q] = at[q] /\ snapshot'[q] = snapshot[q]
  BY <1>1 DEF PessimisticInv, TableTypeOK
<1>4. \A q \in Requests : HolderInv(q)' /\ PessimisticAnswerInv(q)'
  BY <1>1, <1>3
  DEF PessimisticInv, HolderInv, PessimisticAnswerInv, Answered, Product, Row, Holds, LockFor
<1> QED
  BY <1>1, <1>2, <1>4 DEF PessimisticInv

\* The holder writes what its snapshot implies, which is what the row implies.
LEMMA PessimisticGrantInv == ASSUME PessimisticInv, NEW r \in Requests, at[r] = "thinking", Enough(r), Write(r),
                                    Done(r, "granted"), Unlock(LockFor(r))
                             PROVE  PessimisticInv'
<1> USE PessimisticTypesOfRequest
<1> DEFINE p == Product(r)
<1>1. /\ snapshot[r] = Row(r) /\ Holds(r)
      /\ Row(r).units >= Ask[r].units
      /\ snapshot' = snapshot /\ seeded' = seeded /\ round' = round /\ target' = target
      /\ at' = [at EXCEPT ![r] = "done"]
  BY DEF PessimisticInv, HolderInv, Enough, Write, Done
<1>2. /\ entries' = [entries EXCEPT ![p] = [units |-> Row(r).units - Ask[r].units,
                                          version |-> Row(r).version + 1]]
      /\ sold' = [sold EXCEPT ![p] = @ + Ask[r].units]
  BY <1>1 DEF Write, Row
<1>3. /\ entries'[p] = [units |-> Row(r).units - Ask[r].units, version |-> Row(r).version + 1]
      /\ entries'[p].units \in Nat /\ entries'[p].version \in Nat
      /\ \A x \in Products \ {p} : entries'[x] = entries[x]
  BY <1>1, <1>2 DEF PessimisticInv, TableTypeOK, Entry
<1>4. answer' = [answer EXCEPT ![r] = [what |-> "granted", version |-> Row(r).version + 1,
                                       round |-> round[p]]]
  BY <1>1, <1>3 DEF Done
<1>5. TableTypeOK'
  <2>1. [what |-> "granted", version |-> Row(r).version + 1, round |-> round[p]] \in Answer
    BY DEF Answer, Entry
  <2>2. entries' \in [Products -> Entry]
    BY <1>2, <1>3 DEF PessimisticInv, TableTypeOK, Entry
  <2>3. sold' \in [Products -> Nat]
    BY <1>2 DEF PessimisticInv, TableTypeOK
  <2> QED
    BY <1>1, <1>4, <2>1, <2>2, <2>3 DEF PessimisticInv, TableTypeOK, Steps
<1>6. BooksBalance'
  <2>1. ASSUME NEW x \in Products PROVE entries'[x].units + sold'[x] = seeded'[x]
    <3>1. entries[x].units + sold[x] = seeded[x] /\ entries[x].units \in Nat /\ sold[x] \in Nat
      BY DEF PessimisticInv, BooksBalance, TableTypeOK, Entry
    <3>2. CASE x # p
      BY <1>1, <1>2, <1>3, <3>1, <3>2 DEF PessimisticInv, TableTypeOK
    <3>3. CASE x = p
      <4>1. sold'[p] = sold[p] + Ask[r].units
        BY <1>2 DEF PessimisticInv, TableTypeOK
      <4> QED
        BY <1>1, <1>3, <3>1, <3>3, <4>1 DEF Row
    <3> QED
      BY <3>2, <3>3
  <2> QED
    BY <2>1 DEF BooksBalance
<1>7. /\ scope' = scope
      /\ holder' = [x \in Locks |-> holder'[x]]
      /\ \A x \in Locks \ {LockFor(r)} : holder'[x] = holder[x]
  BY UnlockOnlyThat
<1>8. HolderInv(r)' /\ PessimisticAnswerInv(r)'
  <2>1. at'[r] = "done" /\ answer'[r].what = "granted" /\ answer'[r].round = round[p]
    BY <1>1, <1>4 DEF PessimisticInv, TableTypeOK
  <2> QED
    BY <1>1, <2>1 DEF HolderInv, PessimisticAnswerInv, Answered, Product
<1>9. ASSUME NEW q \in Requests \ {r}
      PROVE  HolderInv(q)' /\ PessimisticAnswerInv(q)'
  <2>1. at'[q] = at[q] /\ answer'[q] = answer[q] /\ HolderInv(q) /\ PessimisticAnswerInv(q)
    BY <1>1, <1>4 DEF PessimisticInv, TableTypeOK
  <2>2. HolderInv(q)'
    <3>1. at[q] = "thinking" => LockFor(q) # LockFor(r)
      BY <1>1, <2>1 DEF HolderInv, Holds
    <3>2. LockFor(q) # LockFor(r) => Product(q) # p
      BY DEF LockFor
    <3> QED
      BY <1>1, <1>3, <1>7, <2>1, <3>1, <3>2 DEF HolderInv, Holds, LockFor, Row, Product
  <2>3. PessimisticAnswerInv(q)'
    <3>1. entries'[Product(q)].units <= entries[Product(q)].units
          /\ entries'[Product(q)].units \in Nat /\ entries[Product(q)].units \in Nat
      BY <1>3 DEF Row, Entry
    <3> QED
      BY <1>1, <2>1, <3>1 DEF PessimisticAnswerInv, Answered, Row, Product
  <2> QED
    BY <2>2, <2>3
<1> QED
  BY <1>5, <1>6, <1>7, <1>8, <1>9 DEF PessimisticInv

\* A step that changes nothing keeps the invariant.
LEMMA PessimisticStutterInv == ASSUME PessimisticInv, UNCHANGED pessimisticVars
                               PROVE  PessimisticInv'
  BY
  DEF pessimisticVars, tableVars, requestVars, lockVars, PessimisticInv, TableTypeOK,
      BooksBalance, HolderInv,
         PessimisticAnswerInv, Answered, Product, Row, Holds, LockFor

\* Every step of pessimistic-service keeps the invariant as long as no product is
\* seeded under a request.
LEMMA PessimisticNextInv ==
  ASSUME SeedsRace = FALSE, PessimisticInv, [PessimisticNext]_pessimisticVars
  PROVE  PessimisticInv'
<1>1. ASSUME NEW r \in Requests, Endpoint(r), UNCHANGED lockVars
      PROVE  PessimisticInv'
  <2>1. CASE ReadStock(r)
    <3>1. UNCHANGED tableVars /\ (Done(r, "read") \/ Done(r, "unknown"))
      BY <2>1 DEF ReadStock
    <3> QED
      BY <1>1, <3>1, PessimisticEndInv DEF lockVars
  <2>2. CASE SeedStock(r) /\ \A q \in Requests : at[q] \in {"new", "done"}
    BY <1>1, <2>2, PessimisticSeedInv
  <2> QED
    BY <1>1, <2>1, <2>2 DEF Endpoint
<1>2. ASSUME NEW r \in Requests, Lock(r)
      PROVE  PessimisticInv'
  BY <1>2, LockInv
<1>3. ASSUME NEW r \in Requests, PessimisticRead(r)
      PROVE  PessimisticInv'
  <2>1. CASE Known(r) /\ TakeSnapshot(r) /\ UNCHANGED lockVars
    BY <1>3, <2>1, PessimisticSnapshotInv DEF PessimisticRead
  <2>2. CASE ~Known(r) /\ Done(r, "unknown") /\ Unlock(LockFor(r))
    <3>1. Holds(r) /\ UNCHANGED tableVars
      BY <1>3 DEF PessimisticRead
    <3> QED
      BY <2>2, <3>1, PessimisticEndInv DEF Unlock
  <2> QED
    BY <1>3, <2>1, <2>2 DEF PessimisticRead
<1>4. ASSUME NEW r \in Requests, PessimisticDecide(r)
      PROVE  PessimisticInv'
  <2>1. at[r] = "thinking" /\ Unlock(LockFor(r)) /\ Holds(r)
    BY <1>4 DEF PessimisticDecide, PessimisticInv, HolderInv
  <2>2. CASE Enough(r) /\ Write(r) /\ Done(r, "granted")
    BY <2>1, <2>2, PessimisticGrantInv
  <2>3. CASE ~Enough(r) /\ UNCHANGED tableVars /\ Done(r, "insufficient")
    BY <2>1, <2>3, PessimisticEndInv DEF Unlock
  <2> QED
    BY <1>4, <2>2, <2>3 DEF PessimisticDecide
<1>5. ASSUME NEW r \in Requests, HangUp(r)
      PROVE  PessimisticInv'
  <2>1. UNCHANGED <<tableVars, scope>> /\ Done(r, "gone")
    BY <1>5 DEF HangUp, Unlock
  <2>2. \/ Holds(r) /\ Unlock(LockFor(r))
        \/ holder' = holder
    BY <1>5 DEF HangUp
  <2> QED
    BY <2>1, <2>2, PessimisticEndInv
<1>6. CASE UNCHANGED pessimisticVars
  BY <1>6, PessimisticStutterInv
<1> QED
  BY <1>1, <1>2, <1>3, <1>4, <1>5, <1>6 DEF PessimisticNext, Handle

\* The invariant holds in every reachable state.
THEOREM PessimisticInvariance ==
  ASSUME SeedsRace = FALSE
  PROVE  PessimisticSpec => []PessimisticInv
BY PessimisticInitInv, PessimisticNextInv, PTL DEF PessimisticSpec

\* The headline of the lab: every unit handed out was a unit consumed.
THEOREM PessimisticNothingIsOversold == ASSUME SeedsRace = FALSE
                                        PROVE  PessimisticSpec => []NoOversell
<1>1. PessimisticInv => NoOversell
  BY DEF PessimisticInv, NoOversell
<1> QED
  BY PessimisticInvariance, <1>1, PTL

\* Out of stock means out of stock.
THEOREM PessimisticRejectionsAreHonest == ASSUME SeedsRace = FALSE
                                          PROVE  PessimisticSpec => []RejectionIsHonest
<1>1. PessimisticInv => RejectionIsHonest
  BY DEF PessimisticInv, PessimisticAnswerInv, RejectionIsHonest
<1> QED
  BY PessimisticInvariance, <1>1, PTL

\* The write under the mutex is where the units leave the shelf.
LEMMA PessimisticStepOnShelf ==
  ASSUME PessimisticInv, [PessimisticNext]_pessimisticVars
  PROVE  [Promise!Next]_(Promise!vars)
<1> DEFINE shelf == [p \in Products |-> entries[p].units]
<1>1. ASSUME NEW r \in Requests, SeedStock(r)
      PROVE  Promise!Next
  <2> DEFINE p == Product(r)
             n == Ask[r].units
  <2>1. p \in Products /\ Seed(p, n) /\ Ask[r].kind = "seed"
    BY <1>1, PessimisticTypesOfRequest DEF SeedStock
  <2>2. shelf' = [shelf EXCEPT ![p] = n]
    BY <2>1 DEF Seed, PessimisticInv, TableTypeOK
  <2>3. Promise!Fill(p, n)
    BY <2>1, <2>2 DEF Seed, Promise!Fill
  <2> QED
    BY <2>1, <2>3 DEF Promise!Next
<1>2. ASSUME NEW r \in Requests, at[r] = "thinking", Enough(r), Write(r)
      PROVE  Promise!Next
  <2> DEFINE p == Product(r)
             n == Ask[r].units
  <2>1. p \in Products /\ n \in Nat \ {0} /\ Row(r) \in Entry
    BY PessimisticTypesOfRequest
  <2>2. n <= Row(r).units /\ snapshot[r].units = Row(r).units
    BY <1>2 DEF Enough, PessimisticInv, HolderInv
  <2>3. shelf' = [shelf EXCEPT ![p] = @ - n]
    BY <1>2, <2>1, <2>2 DEF Write, PessimisticInv, TableTypeOK, Row
  <2>4. sold' = [sold EXCEPT ![p] = @ + n] /\ seeded' = seeded
    BY <1>2 DEF Write
  <2>5. n \in 1..shelf[p]
    BY <2>1, <2>2 DEF Row, Entry
  <2>6. Promise!Take(p, n)
    BY <2>3, <2>4 DEF Promise!Take
  <2> QED
    BY <2>1, <2>5, <2>6 DEF Promise!Next
<1>3. entries' = entries /\ sold' = sold /\ seeded' = seeded => UNCHANGED Promise!vars
  BY DEF Promise!vars
<1>4. ASSUME NEW r \in Requests, ReadStock(r) \/ Lock(r) \/ PessimisticRead(r) \/ HangUp(r)
      PROVE  UNCHANGED Promise!vars
  BY <1>3, <1>4 DEF ReadStock, Lock, PessimisticRead, HangUp, tableVars
<1>5. ASSUME NEW r \in Requests, PessimisticDecide(r)
      PROVE  [Promise!Next]_(Promise!vars)
  <2>1. CASE Enough(r) /\ Write(r)
    BY <1>2, <1>5, <2>1 DEF PessimisticDecide
  <2>2. CASE UNCHANGED tableVars
    BY <1>3, <2>2 DEF tableVars
  <2> QED
    BY <1>5, <2>1, <2>2 DEF PessimisticDecide
<1>6. CASE UNCHANGED pessimisticVars
  BY <1>3, <1>6 DEF pessimisticVars, tableVars
<1> QED
  BY <1>1, <1>4, <1>5, <1>6 DEF PessimisticNext, Handle, Endpoint

\* ... so the strategy implements the shelf.
THEOREM DecisionIsAtomic ==
  ASSUME SeedsRace = FALSE
  PROVE  PessimisticSpec => ImplementsShelf
<1>1. PessimisticInit => Promise!Init
  BY DEF PessimisticInit, TableInit, Promise!Init
<1>2. PessimisticInv /\ [PessimisticNext]_pessimisticVars => [target = "naive" \/ Promise!Next]_(Promise!vars)
  BY PessimisticStepOnShelf
<1> QED
  BY PessimisticInvariance, <1>1, <1>2, PTL DEF PessimisticSpec, ImplementsShelf

-----------------------------------------------------------------------------
(* Proofs about ActorStock, for any number of commands, any mailbox and    *)
(* any mix of gets, seeds and reservations.  Nothing is assumed of when a  *)
(* product is seeded: a seed is a command like any other, and the writer   *)
(* has one command in hand.                                                *)

WriterInv(r) == at[r] = "thinking" => current = r /\ snapshot[r] = Row(r)

ActorAnswerInv(r) == /\ answer[r].round <= round[Product(r)]
                     /\ Answered(r, "insufficient") => Row(r).units < Ask[r].units

ActorInv == /\ TableTypeOK
            /\ BooksBalance
            /\ \A r \in Requests : WriterInv(r) /\ ActorAnswerInv(r)

\* Nothing has been seeded or read.
THEOREM ActorInitInv == ActorInit => ActorInv
  BY TableAssumption, SMT
  DEF ActorInit, TableInit, ActorInv, TableTypeOK, Entry, Answer, Steps, BooksBalance, WriterInv,
      ActorAnswerInv,
      Answered, Product, Row

\* The types a step about request r works with.
LEMMA ActorTypesOfRequest ==
  ASSUME ActorInv, NEW r \in Requests
  PROVE  /\ Product(r) \in Products
              /\ Row(r) \in Entry
              /\ round[Product(r)] \in Nat
              /\ Ask[r].units \in Nat \ {0}
              /\ snapshot[r] \in Entry /\ at[r] \in Steps /\ answer[r] \in Answer
  BY TableAssumption DEF ActorInv, TableTypeOK, Product, Row

\* A command that is answered without touching the rows.
LEMMA ActorEndInv ==
  ASSUME ActorInv, NEW r \in Requests, NEW what \in {"unknown", "insufficient", "busy", "read"},
              UNCHANGED tableVars, Done(r, what),
              what = "insufficient" => at[r] = "thinking" /\ ~Enough(r),
              current' = current \/ at[r] = "thinking"
  PROVE  ActorInv'
<1> USE ActorTypesOfRequest
<1>1. /\ entries' = entries /\ sold' = sold /\ seeded' = seeded
      /\ round' = round /\ target' = target
      /\ snapshot' = snapshot
      /\ at' = [at EXCEPT ![r] = "done"]
  BY DEF tableVars, Done
<1>2. answer' = [answer EXCEPT ![r] = [what |-> what, version |-> Row(r).version,
                                       round |-> round[Product(r)]]]
  BY <1>1 DEF Done, Row, Product
<1>3. TableTypeOK' /\ BooksBalance'
  <2>1. [what |-> what, version |-> Row(r).version, round |-> round[Product(r)]] \in Answer
    BY DEF Answer, Entry
  <2> QED
    BY <1>1, <1>2, <2>1 DEF ActorInv, TableTypeOK, Steps, BooksBalance
<1>4. WriterInv(r)' /\ ActorAnswerInv(r)'
  <2>1. what = "insufficient" => Row(r).units < Ask[r].units
    BY DEF ActorInv, WriterInv, Enough, Entry
  <2>2. /\ at'[r] = "done" /\ answer'[r].what = what /\ answer'[r].round = round[Product(r)]
    BY <1>1, <1>2 DEF ActorInv, TableTypeOK
  <2> QED
    BY <1>1, <2>1, <2>2 DEF WriterInv, ActorAnswerInv, Answered, Product, Row
<1>5. ASSUME NEW q \in Requests \ {r}
      PROVE  WriterInv(q)' /\ ActorAnswerInv(q)'
  <2>1. at'[q] = at[q] /\ answer'[q] = answer[q]
    BY <1>1, <1>2 DEF ActorInv, TableTypeOK
  <2>2. WriterInv(q) /\ ActorAnswerInv(q) /\ WriterInv(r)
    BY DEF ActorInv
  <2> QED
    BY <1>1, <2>1, <2>2 DEF WriterInv, ActorAnswerInv, Answered, Product, Row
<1> QED
  BY <1>3, <1>4, <1>5 DEF ActorInv

\* A step that moves a request to a point from which nothing is remembered.
LEMMA QueueInv ==
  ASSUME ActorInv, NEW r \in Requests, UNCHANGED <<tableVars, snapshot, answer, current>>,
         at' = [at EXCEPT ![r] = "queued"]
  PROVE  ActorInv'
<1>1. /\ entries' = entries /\ sold' = sold /\ seeded' = seeded
      /\ round' = round /\ target' = target
      /\ snapshot' = snapshot /\ answer' = answer /\ current' = current
  BY DEF tableVars
<1>2. TableTypeOK' /\ BooksBalance'
  BY <1>1 DEF ActorInv, TableTypeOK, Steps, BooksBalance
<1>3. \A q \in Requests : at'[q] = "thinking" => at[q] = "thinking"
  BY DEF ActorInv, TableTypeOK
<1> QED
  BY <1>1, <1>2, <1>3 DEF ActorInv, WriterInv, ActorAnswerInv, Answered, Product, Row

\* While the writer takes a new command, no reservation is half done.
LEMMA NobodyThinks ==
  ASSUME ActorInv, current = Nobody
  PROVE  \A r \in Requests : at[r] # "thinking"
  BY TableAssumption DEF ActorInv, WriterInv

\* A seed starts a new round, in which nothing but itself has been answered.
LEMMA ActorSeedInv ==
  ASSUME ActorInv, NEW r \in Requests, current = Nobody, SeedStock(r)
  PROVE  ActorInv'
<1> USE ActorTypesOfRequest
<1> DEFINE p == Product(r)
           n == Ask[r].units
<1>1. /\ entries' = [entries EXCEPT ![p] = [units |-> n, version |-> 0]]
      /\ sold' = [sold EXCEPT ![p] = 0] /\ seeded' = [seeded EXCEPT ![p] = n]
      /\ round' = [round EXCEPT ![p] = @ + 1] /\ target' = target
      /\ at' = [at EXCEPT ![r] = "done"] /\ snapshot' = snapshot
  BY DEF SeedStock, Seed, Done
<1>2. /\ entries'[p] = [units |-> n, version |-> 0] /\ round'[p] = round[p] + 1
      /\ \A x \in Products \ {p} : entries'[x] = entries[x] /\ round'[x] = round[x]
  BY <1>1 DEF ActorInv, TableTypeOK
<1>3. answer' = [answer EXCEPT ![r] = [what |-> "seeded", version |-> 0, round |-> round[p] + 1]]
  BY <1>2 DEF SeedStock, Done
<1>4. TableTypeOK'
  <2>1. [what |-> "seeded", version |-> 0, round |-> round[p] + 1] \in Answer
    BY DEF Answer
  <2> QED
    BY <1>1, <1>3, <2>1 DEF ActorInv, TableTypeOK, Entry, Steps
<1>5. BooksBalance'
  BY <1>1 DEF ActorInv, BooksBalance, TableTypeOK, Entry
<1>6. ASSUME NEW q \in Requests
      PROVE  WriterInv(q)' /\ ActorAnswerInv(q)'
  <2>1. at'[q] # "thinking"
    BY <1>1, NobodyThinks DEF ActorInv, TableTypeOK
  <2>2. round[Product(q)] \in Nat /\ answer[q].round \in Nat
    BY DEF Answer
  <2>3. q = r => answer'[q].what = "seeded" /\ answer'[q].round = round[p] + 1
    BY <1>3 DEF ActorInv, TableTypeOK
  <2>4. q # r => answer'[q] = answer[q]
    BY <1>3 DEF ActorInv, TableTypeOK
  <2>5. ActorAnswerInv(q)
    BY DEF ActorInv
  <2>6. ActorAnswerInv(q)'
    BY <1>2, <2>2, <2>3, <2>4, <2>5 DEF ActorAnswerInv, Answered, Row, Product
  <2> QED
    BY <2>1, <2>6 DEF WriterInv
<1> QED
  BY <1>4, <1>5, <1>6 DEF ActorInv

\* The writer reads the row.
LEMMA ActorSnapshotInv ==
  ASSUME ActorInv, NEW r \in Requests, current = Nobody, TakeSnapshot(r), current' = r,
              UNCHANGED tableVars
  PROVE  ActorInv'
<1> USE ActorTypesOfRequest
<1>1. /\ entries' = entries /\ sold' = sold /\ seeded' = seeded
      /\ round' = round /\ target' = target
      /\ answer' = answer
      /\ snapshot' = [snapshot EXCEPT ![r] = Row(r)] /\ at' = [at EXCEPT ![r] = "thinking"]
  BY DEF tableVars, TakeSnapshot
<1>2. TableTypeOK' /\ BooksBalance'
  BY <1>1 DEF ActorInv, TableTypeOK, Steps, BooksBalance
<1>3. /\ snapshot'[r] = Row(r)
      /\ \A q \in Requests \ {r} : at'[q] # "thinking"
  BY <1>1, NobodyThinks DEF ActorInv, TableTypeOK
<1>4. \A q \in Requests : WriterInv(q)' /\ ActorAnswerInv(q)'
  BY <1>1, <1>3 DEF ActorInv, WriterInv, ActorAnswerInv, Answered, Product, Row
<1> QED
  BY <1>2, <1>4 DEF ActorInv

\* The writer writes what its snapshot implies, which is what the row implies.
LEMMA ActorGrantInv ==
  ASSUME ActorInv, NEW r \in Requests, at[r] = "thinking", Enough(r), Write(r), Done(r, "granted")
  PROVE  ActorInv'
<1> USE ActorTypesOfRequest
<1> DEFINE p == Product(r)
<1>1. /\ snapshot[r] = Row(r) /\ current = r
      /\ Row(r).units >= Ask[r].units
      /\ snapshot' = snapshot /\ seeded' = seeded /\ round' = round /\ target' = target
      /\ at' = [at EXCEPT ![r] = "done"]
  BY DEF ActorInv, WriterInv, Enough, Write, Done
<1>2. /\ entries' = [entries EXCEPT ![p] = [units |-> Row(r).units - Ask[r].units,
                                          version |-> Row(r).version + 1]]
      /\ sold' = [sold EXCEPT ![p] = @ + Ask[r].units]
  BY <1>1 DEF Write, Row
<1>3. /\ entries'[p] = [units |-> Row(r).units - Ask[r].units, version |-> Row(r).version + 1]
      /\ entries'[p].units \in Nat /\ entries'[p].version \in Nat
      /\ \A x \in Products \ {p} : entries'[x] = entries[x]
  BY <1>1, <1>2 DEF ActorInv, TableTypeOK, Entry
<1>4. answer' = [answer EXCEPT ![r] = [what |-> "granted", version |-> Row(r).version + 1,
                                       round |-> round[p]]]
  BY <1>1, <1>3 DEF Done
<1>5. TableTypeOK'
  <2>1. [what |-> "granted", version |-> Row(r).version + 1, round |-> round[p]] \in Answer
    BY DEF Answer, Entry
  <2>2. entries' \in [Products -> Entry]
    BY <1>2, <1>3 DEF ActorInv, TableTypeOK, Entry
  <2>3. sold' \in [Products -> Nat]
    BY <1>2 DEF ActorInv, TableTypeOK
  <2> QED
    BY <1>1, <1>4, <2>1, <2>2, <2>3 DEF ActorInv, TableTypeOK, Steps
<1>6. BooksBalance'
  <2>1. ASSUME NEW x \in Products PROVE entries'[x].units + sold'[x] = seeded'[x]
    <3>1. entries[x].units + sold[x] = seeded[x] /\ entries[x].units \in Nat /\ sold[x] \in Nat
      BY DEF ActorInv, BooksBalance, TableTypeOK, Entry
    <3>2. CASE x # p
      BY <1>1, <1>2, <1>3, <3>1, <3>2 DEF ActorInv, TableTypeOK
    <3>3. CASE x = p
      <4>1. sold'[p] = sold[p] + Ask[r].units
        BY <1>2 DEF ActorInv, TableTypeOK
      <4> QED
        BY <1>1, <1>3, <3>1, <3>3, <4>1 DEF Row
    <3> QED
      BY <3>2, <3>3
  <2> QED
    BY <2>1 DEF BooksBalance
<1>7. WriterInv(r)' /\ ActorAnswerInv(r)'
  <2>1. at'[r] = "done" /\ answer'[r].what = "granted" /\ answer'[r].round = round[p]
    BY <1>1, <1>4 DEF ActorInv, TableTypeOK
  <2> QED
    BY <1>1, <2>1 DEF WriterInv, ActorAnswerInv, Answered, Product
<1>8. ASSUME NEW q \in Requests \ {r}
      PROVE  WriterInv(q)' /\ ActorAnswerInv(q)'
  <2>1. at'[q] = at[q] /\ answer'[q] = answer[q] /\ WriterInv(q) /\ ActorAnswerInv(q)
    BY <1>1, <1>4 DEF ActorInv, TableTypeOK
  <2>2. at[q] # "thinking"
    BY <1>1, <2>1 DEF WriterInv
  <2>3. entries'[Product(q)].units <= entries[Product(q)].units
        /\ entries'[Product(q)].units \in Nat /\ entries[Product(q)].units \in Nat
    BY <1>3 DEF Row, Entry
  <2>4. ActorAnswerInv(q)'
    BY <1>1, <2>1, <2>3 DEF ActorAnswerInv, Answered, Row, Product
  <2> QED
    BY <2>1, <2>2, <2>4 DEF WriterInv
<1> QED
  BY <1>5, <1>6, <1>7, <1>8 DEF ActorInv

\* A step that changes neither the rows nor the requests' progress: a caller
\* hangs up, or nothing happens.
LEMMA ActorStutterInv == ASSUME ActorInv, UNCHANGED <<tableVars, requestVars, current>>
                         PROVE  ActorInv'
  BY
  DEF tableVars, requestVars, ActorInv, TableTypeOK, BooksBalance, WriterInv, ActorAnswerInv,
      Answered,
         Product, Row

\* Every step of actor-service keeps the invariant,
\* whenever products are seeded.
LEMMA ActorNextInv ==
  ASSUME ActorInv, [ActorNext]_allActorVars
  PROVE  ActorInv'
<1>1. ASSUME NEW r \in Requests, Dispatch(r)
      PROVE  ActorInv'
  <2>1. UNCHANGED tableVars /\ current' = current
    BY <1>1 DEF Dispatch
  <2>2. CASE at' = [at EXCEPT ![r] = "queued"] /\ UNCHANGED <<snapshot, answer>>
    BY <2>1, <2>2, QueueInv
  <2>3. CASE Done(r, "busy")
    BY <2>1, <2>3, ActorEndInv
  <2> QED
    BY <1>1, <2>2, <2>3 DEF Dispatch
<1>2. ASSUME NEW r \in Requests, Receive(r)
      PROVE  ActorInv'
  <2>1. current = Nobody
    BY <1>2 DEF Receive
  <2>2. CASE ReadStock(r) /\ UNCHANGED current
    <3>1. UNCHANGED tableVars /\ current' = current
      BY <2>2 DEF ReadStock
    <3>2. Done(r, "read") \/ Done(r, "unknown")
      BY <2>2 DEF ReadStock
    <3> QED
      BY <3>1, <3>2, ActorEndInv
  <2>3. CASE SeedStock(r)
    BY <2>1, <2>3, ActorSeedInv
  <2>4. CASE BeginReserve(r)
    <3>1. UNCHANGED tableVars
      BY <2>4 DEF BeginReserve
    <3>2. CASE TakeSnapshot(r) /\ current' = r
      BY <2>1, <3>1, <3>2, ActorSnapshotInv
    <3>3. CASE Done(r, "unknown") /\ UNCHANGED current
      BY <3>1, <3>3, ActorEndInv
    <3> QED
      BY <2>4, <3>2, <3>3 DEF BeginReserve
  <2> QED
    BY <1>2, <2>2, <2>3, <2>4 DEF Receive
<1>3. ASSUME NEW r \in Requests, EndReserve(r)
      PROVE  ActorInv'
  <2>1. at[r] = "thinking"
    BY <1>3 DEF EndReserve
  <2>2. CASE Enough(r) /\ Write(r) /\ Done(r, "granted")
    BY <2>1, <2>2, ActorGrantInv
  <2>3. CASE ~Enough(r) /\ UNCHANGED tableVars /\ Done(r, "insufficient")
    BY <2>1, <2>3, ActorEndInv
  <2> QED
    BY <1>3, <2>2, <2>3 DEF EndReserve
<1>4. ASSUME NEW r \in Requests, CallerHangsUp(r)
      PROVE  ActorInv'
  BY <1>4, ActorStutterInv DEF CallerHangsUp
<1>5. CASE UNCHANGED allActorVars
  BY <1>5, ActorStutterInv DEF allActorVars, actorVars
<1> QED
  BY <1>1, <1>2, <1>3, <1>4, <1>5 DEF ActorNext, Writer

\* The invariant holds in every reachable state.
THEOREM ActorInvariance == ActorSpec => []ActorInv
BY ActorInitInv, ActorNextInv, PTL DEF ActorSpec

\* The headline of the lab: every unit handed out was a unit consumed, with
\* products seeded at any time.
THEOREM ActorNothingIsOversold == ActorSpec => []NoOversell
<1>1. ActorInv => NoOversell
  BY DEF ActorInv, NoOversell
<1> QED
  BY ActorInvariance, <1>1, PTL

\* Out of stock means out of stock.
THEOREM ActorRejectionsAreHonest == ActorSpec => []RejectionIsHonest
<1>1. ActorInv => RejectionIsHonest
  BY DEF ActorInv, ActorAnswerInv, RejectionIsHonest
<1> QED
  BY ActorInvariance, <1>1, PTL

\* The end of a reservation is where the units leave the shelf.
LEMMA ActorStepOnShelf ==
  ASSUME ActorInv, [ActorNext]_allActorVars
  PROVE  [Promise!Next]_(Promise!vars)
<1> DEFINE shelf == [p \in Products |-> entries[p].units]
<1>1. ASSUME NEW r \in Requests, SeedStock(r)
      PROVE  Promise!Next
  <2> DEFINE p == Product(r)
             n == Ask[r].units
  <2>1. p \in Products /\ Seed(p, n) /\ Ask[r].kind = "seed"
    BY <1>1, ActorTypesOfRequest DEF SeedStock
  <2>2. shelf' = [shelf EXCEPT ![p] = n]
    BY <2>1 DEF Seed, ActorInv, TableTypeOK
  <2>3. Promise!Fill(p, n)
    BY <2>1, <2>2 DEF Seed, Promise!Fill
  <2> QED
    BY <2>1, <2>3 DEF Promise!Next
<1>2. ASSUME NEW r \in Requests, at[r] = "thinking", Enough(r), Write(r)
      PROVE  Promise!Next
  <2> DEFINE p == Product(r)
             n == Ask[r].units
  <2>1. p \in Products /\ n \in Nat \ {0} /\ Row(r) \in Entry
    BY ActorTypesOfRequest
  <2>2. n <= Row(r).units /\ snapshot[r].units = Row(r).units
    BY <1>2 DEF Enough, ActorInv, WriterInv
  <2>3. shelf' = [shelf EXCEPT ![p] = @ - n]
    BY <1>2, <2>1, <2>2 DEF Write, ActorInv, TableTypeOK, Row
  <2>4. sold' = [sold EXCEPT ![p] = @ + n] /\ seeded' = seeded
    BY <1>2 DEF Write
  <2>5. n \in 1..shelf[p]
    BY <2>1, <2>2 DEF Row, Entry
  <2>6. Promise!Take(p, n)
    BY <2>3, <2>4 DEF Promise!Take
  <2> QED
    BY <2>1, <2>5, <2>6 DEF Promise!Next
<1>3. entries' = entries /\ sold' = sold /\ seeded' = seeded => UNCHANGED Promise!vars
  BY DEF Promise!vars
<1>4. ASSUME NEW r \in Requests, Dispatch(r) \/ ReadStock(r) \/ BeginReserve(r) \/ CallerHangsUp(r)
      PROVE  UNCHANGED Promise!vars
  BY <1>3, <1>4 DEF Dispatch, ReadStock, BeginReserve, CallerHangsUp, tableVars
<1>5. ASSUME NEW r \in Requests, Receive(r)
      PROVE  [Promise!Next]_(Promise!vars)
  BY <1>1, <1>4, <1>5 DEF Receive
<1>6. ASSUME NEW r \in Requests, EndReserve(r)
      PROVE  [Promise!Next]_(Promise!vars)
  <2>1. CASE Enough(r) /\ Write(r)
    BY <1>2, <1>6, <2>1 DEF EndReserve
  <2>2. CASE UNCHANGED tableVars
    BY <1>3, <2>2 DEF tableVars
  <2> QED
    BY <1>6, <2>1, <2>2 DEF EndReserve
<1>7. CASE UNCHANGED allActorVars
  BY <1>3, <1>7 DEF allActorVars, tableVars
<1> QED
  BY <1>4, <1>5, <1>6, <1>7 DEF ActorNext, Writer

\* ... so the strategy implements the shelf.
THEOREM WriterIsAtomic == ActorSpec => ImplementsShelf
<1>1. ActorInit => Promise!Init
  BY DEF ActorInit, TableInit, Promise!Init
<1>2. ActorInv /\ [ActorNext]_allActorVars => [target = "naive" \/ Promise!Next]_(Promise!vars)
  BY ActorStepOnShelf
<1> QED
  BY ActorInvariance, <1>1, <1>2, PTL DEF ActorSpec, ImplementsShelf

-----------------------------------------------------------------------------
(* actor-service handles commands in the order it accepted them: they are  *)
(* accepted at one end of the mailbox and taken from the other, so the     *)
(* commands taken so far are a prefix of those accepted.                   *)

Taken == Len(accepted) - Len(mailbox)

\* Where the command accepted as the i-th one is.
Place(i) == IF i > Taken THEN "queued"
            ELSE IF i = Taken /\ current # Nobody THEN "thinking" ELSE "done"

ArrivalInv ==
  /\ mailbox \in Seq(Requests) /\ accepted \in Seq(Requests)
  /\ Len(mailbox) <= Len(accepted)
  /\ \A k \in 1..Len(mailbox) : mailbox[k] = accepted[Taken + k]
  /\ \A i, j \in 1..Len(accepted) : accepted[i] = accepted[j] => i = j
  /\ \A i \in 1..Len(accepted) : at[accepted[i]] = Place(i)
  /\ current # Nobody => Taken \in 1..Len(accepted) /\ accepted[Taken] = current

\* The answer to s shows a later state of the row than the answer to r.
AnsweredAfter(r, s) ==
  \/ answer[r].round < answer[s].round
  \/ /\ answer[r].round = answer[s].round
     /\ answer[r].version <= answer[s].version
     /\ Writes(s) => answer[r].version < answer[s].version

\* No answer is ahead of the row.
UpToDate(r) == \/ answer[r].round < round[Product(r)]
               \/ answer[r].round = round[Product(r)] /\ answer[r].version <= Row(r).version

AnswersInv ==
  /\ \A i \in 1..Len(accepted) : at[accepted[i]] = "done" => UpToDate(accepted[i])
  /\ \A i, j \in 1..Len(accepted) :
       /\ i < j /\ at[accepted[j]] = "done"
       /\ Product(accepted[i]) = Product(accepted[j])
       => AnsweredAfter(accepted[i], accepted[j])

\* Nothing has been accepted.
LEMMA ArrivalInit == ActorInit => ArrivalInv /\ AnswersInv
BY DEF ActorInit, ArrivalInv, AnswersInv, Taken

\* What ArrivalInv says of one position, without the arithmetic.
LEMMA Positions ==
  ASSUME ArrivalInv
  PROVE  /\ Taken \in Nat /\ Len(mailbox) \in Nat /\ Len(accepted) \in Nat
         /\ Len(accepted) = Taken + Len(mailbox)
         /\ \A i \in 1..Len(accepted) : accepted[i] \in Requests
BY DEF ArrivalInv, Taken

\* A new command goes behind all others.
LEMMA DispatchArrival ==
  ASSUME ActorInv, ArrivalInv, NEW r \in Requests, Dispatch(r)
  PROVE  ArrivalInv'
<1>1. /\ mailbox \in Seq(Requests) /\ accepted \in Seq(Requests)
      /\ at[r] = "new" /\ current' = current
  BY DEF ArrivalInv, Dispatch, Arrives
<1>2. \A i \in 1..Len(accepted) : accepted[i] # r /\ accepted[i] \in Requests
  BY <1>1, Positions DEF ArrivalInv, Place
<1>3. CASE Done(r, "busy") /\ UNCHANGED <<mailbox, accepted>>
  <2>1. \A q \in Requests \ {r} : at'[q] = at[q]
    BY <1>3 DEF Done, ActorInv, TableTypeOK
  <2>2. \A i \in 1..Len(accepted) : at'[accepted[i]] = at[accepted[i]]
    BY <1>2, <2>1
  <2> QED
    BY <1>1, <1>3, <2>2 DEF ArrivalInv, Taken, Place
<1>4. CASE /\ mailbox' = Append(mailbox, r) /\ accepted' = Append(accepted, r)
           /\ at' = [at EXCEPT ![r] = "queued"]
  <2> DEFINE n == Len(accepted)
             m == Len(mailbox)
  <2>1. /\ mailbox' \in Seq(Requests) /\ Len(mailbox') = m + 1 /\ m \in Nat
        /\ \A k \in 1..m : mailbox'[k] = mailbox[k]
        /\ mailbox'[m + 1] = r
    BY <1>1, <1>4
  <2>2. /\ accepted' \in Seq(Requests) /\ Len(accepted') = n + 1 /\ n \in Nat
        /\ \A i \in 1..n : accepted'[i] = accepted[i]
        /\ accepted'[n + 1] = r
    BY <1>1, <1>4
  <2>3. Taken' = Taken /\ Taken \in Nat /\ n = Taken + m
    BY <2>1, <2>2, Positions DEF Taken
  <2>4. \A i \in 1..n : at'[accepted'[i]] = at[accepted[i]]
    BY <1>2, <1>4, <2>2 DEF ActorInv, TableTypeOK
  <2>5. at'[r] = "queued"
    BY <1>4 DEF ActorInv, TableTypeOK
  <2>6. ASSUME NEW k \in 1..(m + 1) PROVE mailbox'[k] = accepted'[Taken + k]
    <3>1. CASE k = m + 1
      BY <2>1, <2>2, <2>3, <3>1
    <3>2. CASE k # m + 1
      <4>1. k \in 1..m /\ Taken + k \in 1..n
        BY <2>1, <2>3, <3>2
      <4> QED
        BY <2>1, <2>2, <4>1 DEF ArrivalInv
    <3> QED
      BY <3>1, <3>2
  <2>7. \A i, j \in 1..(n + 1) : accepted'[i] = accepted'[j] => i = j
    BY <1>2, <2>2 DEF ArrivalInv
  <2>8. ASSUME NEW i \in 1..(n + 1) PROVE at'[accepted'[i]] = Place(i)'
    <3>1. Place(i)' = Place(i)
      BY <1>1, <2>3 DEF Place
    <3>2. CASE i = n + 1
      <4>1. i > Taken
        BY <2>1, <2>2, <2>3, <3>2
      <4> QED
        BY <2>2, <2>5, <3>1, <3>2, <4>1 DEF Place
    <3>3. CASE i # n + 1
      <4>1. i \in 1..n
        BY <2>2, <3>3
      <4> QED
        BY <2>4, <3>1, <4>1 DEF ArrivalInv
    <3> QED
      BY <3>2, <3>3
  <2>9. current' # Nobody => Taken' \in 1..(n + 1) /\ accepted'[Taken'] = current'
    BY <1>1, <2>2, <2>3 DEF ArrivalInv
  <2>10. Len(mailbox') <= Len(accepted')
    BY <2>1, <2>2, <2>3
  <2> QED
    BY <2>1, <2>2, <2>3, <2>6, <2>7, <2>8, <2>9, <2>10 DEF ArrivalInv
<1> QED
  BY <1>3, <1>4 DEF Dispatch

\* Taking a command: the oldest of those not taken.
LEMMA TakenNext ==
  ASSUME ActorInv, ArrivalInv, NEW r \in Requests, Receive(r)
  PROVE  /\ Taken + 1 \in 1..Len(accepted) /\ accepted[Taken + 1] = r
         /\ mailbox' \in Seq(Requests) /\ Len(mailbox') = Len(mailbox) - 1
         /\ \A k \in 1..Len(mailbox') : mailbox'[k] = mailbox[k + 1]
         /\ accepted' = accepted /\ current = Nobody /\ at[r] = "queued"
<1>1. /\ mailbox # <<>> /\ r = Head(mailbox) /\ mailbox' = Tail(mailbox)
      /\ mailbox \in Seq(Requests) /\ accepted' = accepted /\ current = Nobody
  BY DEF Receive, NextIs, ArrivalInv
<1>2. /\ Len(mailbox) \in Nat \ {0} /\ mailbox[1] = r
      /\ mailbox' \in Seq(Requests) /\ Len(mailbox') = Len(mailbox) - 1
      /\ \A k \in 1..Len(mailbox') : mailbox'[k] = mailbox[k + 1]
  BY <1>1
<1>3. Taken + 1 \in 1..Len(accepted) /\ accepted[Taken + 1] = r
  <2>1. Taken \in Nat /\ Len(accepted) = Taken + Len(mailbox)
    BY Positions
  <2>2. 1 \in 1..Len(mailbox)
    BY <1>2
  <2>3. mailbox[1] = accepted[Taken + 1]
    BY <2>2 DEF ArrivalInv
  <2> QED
    BY <1>2, <2>1, <2>3
<1>4. at[r] = "queued"
  BY <1>3, Positions DEF ArrivalInv, Place
<1> QED
  BY <1>1, <1>2, <1>3, <1>4

\* The command taken is the last of those no longer queued.
LEMMA ReceiveArrival ==
  ASSUME ActorInv, ArrivalInv, NEW r \in Requests, Receive(r)
  PROVE  ArrivalInv'
<1> DEFINE n == Len(accepted)
           h == Taken + 1
<1>1. /\ h \in 1..n /\ accepted[h] = r
      /\ mailbox' \in Seq(Requests) /\ Len(mailbox') = Len(mailbox) - 1
      /\ \A k \in 1..Len(mailbox') : mailbox'[k] = mailbox[k + 1]
      /\ accepted' = accepted /\ current = Nobody
  BY TakenNext
<1>2. Taken \in Nat /\ n \in Nat /\ n = Taken + Len(mailbox) /\ Taken' = h
  BY <1>1, Positions DEF Taken
<1>3. \/ at'[r] = "done" /\ current' = Nobody
      \/ at'[r] = "thinking" /\ current' = r
  BY <1>1 DEF Receive, ReadStock, SeedStock, BeginReserve, Done, TakeSnapshot, ActorInv, TableTypeOK
<1>4. \A q \in Requests \ {r} : at'[q] = at[q]
  BY DEF Receive, ReadStock, SeedStock, BeginReserve, Done, TakeSnapshot, ActorInv, TableTypeOK
<1>5. \A i \in 1..n : i # h => at'[accepted[i]] = at[accepted[i]]
  BY <1>1, <1>4, Positions DEF ArrivalInv
<1>6. \A i \in 1..n : at'[accepted[i]] = Place(i)'
  <2>1. r # Nobody
    BY TableAssumption
  <2>2. \A i \in 1..n : at[accepted[i]] = IF i > Taken THEN "queued" ELSE "done"
    BY <1>1 DEF ArrivalInv, Place
  <2> QED
    BY <1>1, <1>2, <1>3, <1>5, <2>1, <2>2 DEF Place
<1>7. \A k \in 1..Len(mailbox') : mailbox'[k] = accepted[h + k]
  <2> SUFFICES ASSUME NEW k \in 1..Len(mailbox') PROVE mailbox'[k] = accepted[h + k]
    OBVIOUS
  <2>1. k + 1 \in 1..Len(mailbox) /\ Taken + (k + 1) = h + k
    <3>1. Len(mailbox) \in Nat /\ k \in 1..(Len(mailbox) - 1)
      BY <1>1, Positions
    <3> QED
      BY <1>2, <3>1
  <2>2. mailbox[k + 1] = accepted[Taken + (k + 1)]
    BY <2>1 DEF ArrivalInv
  <2> QED
    BY <1>1, <2>1, <2>2
<1>8. current' # Nobody => h \in 1..n /\ accepted[h] = current'
  BY <1>1, <1>3
<1>9. Len(mailbox') <= Len(accepted)
  BY <1>1, <1>2
<1> HIDE DEF h, n
<1> QED
  BY <1>1, <1>2, <1>6, <1>7, <1>8, <1>9 DEF ArrivalInv, n

\* The command in hand is the last one taken, and now it is done.
LEMMA EndArrival ==
  ASSUME ActorInv, ArrivalInv, NEW r \in Requests, EndReserve(r)
  PROVE  ArrivalInv' /\ Taken \in 1..Len(accepted) /\ accepted[Taken] = r /\ current = r
<1>1. /\ current = r /\ r # Nobody /\ current' = Nobody
      /\ mailbox' = mailbox /\ accepted' = accepted
  BY TableAssumption DEF EndReserve, ActorInv, WriterInv
<1>2. Taken \in 1..Len(accepted) /\ accepted[Taken] = r /\ Taken' = Taken
  BY <1>1 DEF ArrivalInv, Taken
<1>3. at'[r] = "done" /\ \A q \in Requests \ {r} : at'[q] = at[q]
  BY DEF EndReserve, Done, ActorInv, TableTypeOK
<1>4. \A i \in 1..Len(accepted) : at'[accepted[i]] = Place(i)'
  <2> SUFFICES ASSUME NEW i \in 1..Len(accepted) PROVE at'[accepted[i]] = Place(i)'
    OBVIOUS
  <2>1. at[accepted[i]] = Place(i) /\ accepted[i] \in Requests
    BY Positions DEF ArrivalInv
  <2>2. i # Taken => accepted[i] # r
    BY <1>2 DEF ArrivalInv
  <2> QED
    BY <1>1, <1>2, <1>3, <2>1, <2>2 DEF Place
<1> QED
  BY <1>1, <1>2, <1>4 DEF ArrivalInv

-----------------------------------------------------------------------------

\* The row of a product only moves on, and a write moves it.
MovesOn(p) == \/ round[p] < round'[p]
              \/ round'[p] = round[p] /\ entries[p].version <= entries'[p].version
IsWritten(p) == \/ round[p] < round'[p]
                \/ round'[p] = round[p] /\ entries[p].version < entries'[p].version

\* The command done next: its answer is the newest, and shows the row.
LEMMA FinishInOrder ==
  ASSUME ActorInv, ActorInv', ArrivalInv, AnswersInv, NEW h \in 1..Len(accepted), NEW what,
         \A i \in 1..Len(accepted) : at[accepted[i]] = "done" <=> i < h,
         Done(accepted[h], what), accepted' = accepted,
         \A p \in Products : MovesOn(p),
         what \in {"granted", "seeded"} => IsWritten(Product(accepted[h]))
  PROVE  AnswersInv'
<1> DEFINE r == accepted[h]
           n == Len(accepted)
<1>1. n \in Nat /\ \A i \in 1..n : accepted[i] \in Requests
  BY Positions
<1>2. /\ at'[r] = "done"
      /\ answer'[r] = [what |-> what, version |-> entries'[Product(r)].version,
                       round |-> round'[Product(r)]]
      /\ \A q \in Requests \ {r} : at'[q] = at[q] /\ answer'[q] = answer[q]
  BY <1>1 DEF Done, ActorInv, TableTypeOK
<1>3. \A i \in 1..n : i # h => accepted[i] # r
  BY DEF ArrivalInv
<1>4. \A i \in 1..n : at'[accepted[i]] = "done" => i <= h
  BY <1>1, <1>2, <1>3
<1>5. \A p \in Products : /\ round[p] \in Nat /\ round'[p] \in Nat
                          /\ entries[p].version \in Nat /\ entries'[p].version \in Nat
  BY DEF ActorInv, TableTypeOK, Entry
<1>6. \A q \in Requests : /\ Product(q) \in Products /\ answer[q].round \in Nat /\ answer[q].version \in Nat
  BY TableAssumption DEF ActorInv, TableTypeOK, Product, Answer
<1>7. \A i \in 1..n : i < h => UpToDate(accepted[i]) /\ accepted[i] \in Requests \ {r}
  BY <1>1, <1>3 DEF AnswersInv
<1>8. UpToDate(r)'
  BY <1>1, <1>2, <1>5, <1>6 DEF UpToDate, Row, Product
<1>9. ASSUME NEW i \in 1..n, i < h PROVE UpToDate(accepted[i])'
  <2> DEFINE q == accepted[i]
             p == Product(q)
  <2>1. /\ q \in Requests /\ answer'[q] = answer[q] /\ p \in Products
        /\ \/ answer[q].round < round[p]
           \/ answer[q].round = round[p] /\ answer[q].version <= entries[p].version
    BY <1>2, <1>6, <1>7, <1>9 DEF UpToDate, Row, Product
  <2>2. \/ answer'[q].round < round'[p]
        \/ answer'[q].round = round'[p] /\ answer'[q].version <= entries'[p].version
    <3> HIDE DEF p, q
    <3> QED
      BY <1>5, <1>6, <2>1 DEF MovesOn
  <2> QED
    BY <2>2 DEF UpToDate, Row, Product
<1>10. \A i \in 1..n : at'[accepted[i]] = "done" => UpToDate(accepted[i])'
  <2>1. \A i \in 1..n : i <= h => UpToDate(accepted[i])'
    BY <1>8, <1>9
  <2> QED
    BY <1>4, <2>1
<1>11. ASSUME NEW i \in 1..n, i < h, Product(accepted[i]) = Product(r)
       PROVE  AnsweredAfter(accepted[i], r)'
  <2> DEFINE q == accepted[i]
             p == Product(r)
  <2>1. /\ q \in Requests /\ answer'[q] = answer[q] /\ p \in Products
        /\ \/ answer[q].round < round[p]
           \/ answer[q].round = round[p] /\ answer[q].version <= entries[p].version
    BY <1>1, <1>2, <1>6, <1>7, <1>11 DEF UpToDate, Row, Product
  <2>2. /\ answer'[r].version = entries'[p].version /\ answer'[r].round = round'[p]
        /\ answer'[r].what = what
    BY <1>2
  <2>3. MovesOn(p) /\ (what \in {"granted", "seeded"} => IsWritten(p))
    BY <2>1
  <2>4. \/ answer'[q].round < answer'[r].round
        \/ /\ answer'[q].round = answer'[r].round
           /\ answer'[q].version <= answer'[r].version
           /\ answer'[r].what \in {"granted", "seeded"} => answer'[q].version < answer'[r].version
    <3> HIDE DEF p, q, r
    <3> QED
      BY <1>5, <1>6, <2>1, <2>2, <2>3 DEF MovesOn, IsWritten
  <2> QED
    BY <2>4 DEF AnsweredAfter, Writes
<1>12. ASSUME NEW i \in 1..n, NEW j \in 1..n, i < j, at'[accepted[j]] = "done",
              Product(accepted[i]) = Product(accepted[j])
       PROVE  AnsweredAfter(accepted[i], accepted[j])'
  <2>1. CASE j = h
    BY <1>11, <1>12, <2>1
  <2>2. CASE j # h
    <3>1. j < h /\ i < h
      BY <1>4, <1>12, <2>2
    <3>2. AnsweredAfter(accepted[i], accepted[j])
      BY <1>12, <3>1 DEF AnswersInv
    <3>3. answer'[accepted[i]] = answer[accepted[i]] /\ answer'[accepted[j]] = answer[accepted[j]]
      BY <1>2, <1>7, <3>1
    <3> QED
      BY <3>2, <3>3 DEF AnsweredAfter, Writes
  <2> QED
    BY <2>1, <2>2
<1> QED
  BY <1>10, <1>12 DEF AnswersInv, Product

\* Nothing accepted is answered: the answers stay in order.
LEMMA NothingAnswered ==
  ASSUME ArrivalInv, AnswersInv, UNCHANGED tableVars, NEW n, n = Len(accepted), Len(accepted') \in Nat,
         \A i \in 1..n : /\ accepted'[i] = accepted[i] /\ answer'[accepted[i]] = answer[accepted[i]]
                         /\ at'[accepted[i]] = "done" => at[accepted[i]] = "done",
         \A i \in 1..Len(accepted') : i \notin 1..n => at'[accepted'[i]] # "done"
  PROVE  AnswersInv'
<1>1. \A i \in 1..Len(accepted') : at'[accepted'[i]] = "done" => i \in 1..n
  OBVIOUS
<1>2. n \in Nat
  BY Positions
<1>3. ASSUME NEW i \in 1..Len(accepted'), at'[accepted'[i]] = "done"
      PROVE  UpToDate(accepted[i])'
  <2>1. i \in 1..n
    BY <1>1, <1>3
  <2>2. accepted'[i] = accepted[i] /\ UpToDate(accepted[i]) /\ answer'[accepted[i]] = answer[accepted[i]]
    BY <1>3, <2>1 DEF AnswersInv
  <2>3. entries' = entries /\ round' = round
    BY DEF tableVars
  <2>4. \/ answer'[accepted'[i]].round < round'[Ask[accepted'[i]].product]
        \/ /\ answer'[accepted'[i]].round = round'[Ask[accepted'[i]].product]
           /\ answer'[accepted'[i]].version <= entries'[Ask[accepted'[i]].product].version
    BY <2>2, <2>3 DEF UpToDate, Row, Product
  <2> QED
    BY <2>4 DEF UpToDate, Row, Product
<1>4. ASSUME NEW i \in 1..Len(accepted'), NEW j \in 1..Len(accepted'), i < j,
             at'[accepted'[j]] = "done", Product(accepted'[i]) = Product(accepted'[j])
      PROVE  AnsweredAfter(accepted[i], accepted[j])'
  <2>1. j \in 1..n
    BY <1>1, <1>4
  <2>2. i \in 1..n
    BY <1>2, <1>4, <2>1
  <2>3. AnsweredAfter(accepted[i], accepted[j])
    BY <1>4, <2>1, <2>2 DEF AnswersInv
  <2>4. /\ accepted'[i] = accepted[i] /\ answer'[accepted'[i]] = answer[accepted[i]]
        /\ accepted'[j] = accepted[j] /\ answer'[accepted'[j]] = answer[accepted[j]]
    BY <2>1, <2>2
  <2> QED
    BY <2>3, <2>4 DEF AnsweredAfter, Writes
<1>5. \A i \in 1..Len(accepted') : at'[accepted'[i]] = "done" => UpToDate(accepted[i])'
  BY <1>3
<1>6. \A i, j \in 1..Len(accepted') :
        /\ i < j /\ at'[accepted'[j]] = "done"
        /\ Product(accepted'[i]) = Product(accepted'[j])
        => AnsweredAfter(accepted[i], accepted[j])'
  BY <1>4
<1> QED
  BY <1>5, <1>6 DEF AnswersInv, Product

\* A command that is handled to its end when it is taken.
LEMMA ReceiveAnswers ==
  ASSUME ActorInv, ActorInv', ArrivalInv, AnswersInv, NEW r \in Requests, Receive(r)
  PROVE  AnswersInv'
<1> DEFINE h == Taken + 1
<1>1. h \in 1..Len(accepted) /\ accepted[h] = r /\ accepted' = accepted /\ current = Nobody
  BY TakenNext
<1>2. Taken \in Nat /\ Len(accepted) \in Nat
  BY Positions
<1>3. \A i \in 1..Len(accepted) : at[accepted[i]] = "done" <=> i < h
  BY <1>1, <1>2 DEF ArrivalInv, Place
<1>4. \A p \in Products : round[p] \in Nat /\ entries[p].version \in Nat
  BY DEF ActorInv, TableTypeOK, Entry
<1>5. UNCHANGED tableVars => \A p \in Products : MovesOn(p)
  BY <1>4 DEF tableVars, MovesOn
<1> HIDE DEF h
<1>6. CASE ReadStock(r)
  <2>1. UNCHANGED tableVars
    BY <1>6 DEF ReadStock
  <2>2. CASE Done(r, "read")
    BY <1>1, <1>3, <1>5, <2>1, <2>2, FinishInOrder
  <2>3. CASE Done(r, "unknown")
    BY <1>1, <1>3, <1>5, <2>1, <2>3, FinishInOrder
  <2> QED
    BY <1>6, <2>2, <2>3 DEF ReadStock
<1>7. CASE SeedStock(r)
  <2>1. /\ round' = [round EXCEPT ![Product(r)] = @ + 1] /\ Done(r, "seeded")
        /\ entries' = [entries EXCEPT ![Product(r)] = [units |-> Ask[r].units, version |-> 0]]
        /\ Product(r) \in Products
    BY <1>7, ActorTypesOfRequest DEF SeedStock, Seed
  <2>2. /\ round'[Product(r)] = round[Product(r)] + 1
        /\ \A p \in Products \ {Product(r)} : round'[p] = round[p] /\ entries'[p] = entries[p]
    BY <2>1 DEF ActorInv, TableTypeOK
  <2>3. IsWritten(Product(r)) /\ \A p \in Products : MovesOn(p)
    BY <1>4, <2>1, <2>2 DEF IsWritten, MovesOn
  <2> QED
    BY <1>1, <1>3, <2>1, <2>3, FinishInOrder
<1>8. CASE BeginReserve(r)
  <2>1. UNCHANGED tableVars
    BY <1>8 DEF BeginReserve
  <2>2. CASE Done(r, "unknown")
    BY <1>1, <1>3, <1>5, <2>1, <2>2, FinishInOrder
  <2>3. CASE TakeSnapshot(r)
    <3>1. answer' = answer /\ \A q \in Requests : at'[q] = "done" => at[q] = "done"
      BY <2>3 DEF TakeSnapshot, ActorInv, TableTypeOK
    <3>2. \A i \in 1..Len(accepted) : accepted[i] \in Requests
      BY Positions
    <3> QED
      BY <1>1, <1>2, <2>1, <3>1, <3>2, NothingAnswered
  <2> QED
    BY <1>8, <2>2, <2>3 DEF BeginReserve
<1> QED
  BY <1>6, <1>7, <1>8 DEF Receive

\* The end of a reservation is the newest answer; a grant moves the row.
LEMMA EndAnswers ==
  ASSUME ActorInv, ActorInv', ArrivalInv, AnswersInv, NEW r \in Requests, EndReserve(r)
  PROVE  AnswersInv'
<1> DEFINE h == Taken
<1>1. h \in 1..Len(accepted) /\ accepted[h] = r /\ current = r
  BY EndArrival
<1>2. accepted' = accepted /\ r # Nobody
  BY TableAssumption DEF EndReserve
<1>3. \A i \in 1..Len(accepted) : at[accepted[i]] = "done" <=> i < h
  <2> SUFFICES ASSUME NEW i \in 1..Len(accepted) PROVE at[accepted[i]] = "done" <=> i < h
    OBVIOUS
  <2>1. at[accepted[i]] = Place(i) /\ Taken \in Nat /\ i \in Nat
    BY Positions DEF ArrivalInv
  <2> QED
    BY <1>1, <1>2, <2>1 DEF Place
<1>4. \A p \in Products : round[p] \in Nat /\ entries[p].version \in Nat
  BY DEF ActorInv, TableTypeOK, Entry
<1> HIDE DEF h
<1>5. CASE Write(r) /\ Done(r, "granted")
  <2>1. /\ round' = round /\ Product(r) \in Products
        /\ \E n : entries' = [entries EXCEPT ![Product(r)] = [units |-> n, version |-> @.version + 1]]
    BY <1>5, ActorTypesOfRequest DEF Write
  <2>2. /\ entries'[Product(r)].version = entries[Product(r)].version + 1
        /\ \A p \in Products \ {Product(r)} : entries'[p] = entries[p]
    BY <2>1 DEF ActorInv, TableTypeOK
  <2>3. IsWritten(Product(r)) /\ \A p \in Products : MovesOn(p)
    BY <1>4, <2>1, <2>2 DEF IsWritten, MovesOn
  <2> QED
    BY <1>1, <1>2, <1>3, <1>5, <2>3, FinishInOrder
<1>6. CASE UNCHANGED tableVars /\ Done(r, "insufficient")
  <2>1. \A p \in Products : MovesOn(p)
    BY <1>4, <1>6 DEF tableVars, MovesOn
  <2> QED
    BY <1>1, <1>2, <1>3, <1>6, <2>1, FinishInOrder
<1> QED
  BY <1>5, <1>6 DEF EndReserve

\* A command that is only accepted, or refused, orders no answers.
LEMMA DispatchAnswers ==
  ASSUME ActorInv, ArrivalInv, AnswersInv, NEW r \in Requests, Dispatch(r)
  PROVE  AnswersInv'
<1> DEFINE n == Len(accepted)
<1>1. n \in Nat /\ accepted \in Seq(Requests) /\ at[r] = "new" /\ UNCHANGED tableVars
  BY DEF ArrivalInv, Dispatch, Arrives
<1>2. \A i \in 1..n : accepted[i] # r /\ accepted[i] \in Requests
  BY <1>1, Positions DEF ArrivalInv, Place
<1>3. \A q \in Requests \ {r} : at'[q] = at[q] /\ answer'[q] = answer[q]
  BY DEF Dispatch, Done, ActorInv, TableTypeOK
<1>4. CASE accepted' = accepted
  BY <1>1, <1>2, <1>3, <1>4, NothingAnswered
<1>5. CASE accepted' = Append(accepted, r) /\ at' = [at EXCEPT ![r] = "queued"]
  <2>1. /\ Len(accepted') = n + 1 /\ accepted'[n + 1] = r
        /\ \A i \in 1..n : accepted'[i] = accepted[i]
    BY <1>1, <1>5
  <2>2. at'[r] = "queued"
    BY <1>5 DEF ActorInv, TableTypeOK
  <2>3. \A i \in 1..Len(accepted') : i \notin 1..n => at'[accepted'[i]] # "done"
    BY <1>1, <2>1, <2>2
  <2>4. Len(accepted') \in Nat
    BY <1>1, <2>1
  <2> QED
    BY <1>1, <1>2, <1>3, <2>1, <2>3, <2>4, NothingAnswered
<1> QED
  BY <1>4, <1>5 DEF Dispatch

\* Every step of actor-service keeps commands and answers in order.
LEMMA OrderNextInv ==
  ASSUME ActorInv, ArrivalInv, AnswersInv, [ActorNext]_allActorVars
  PROVE  ArrivalInv' /\ AnswersInv'
<1>1. ActorInv'
  BY ActorNextInv
<1>2. ASSUME UNCHANGED <<tableVars, requestVars, mailbox, current, accepted>>
      PROVE  ArrivalInv' /\ AnswersInv'
  BY <1>2 DEF tableVars, requestVars, ArrivalInv, Place, Taken, AnswersInv, UpToDate, AnsweredAfter,
              Writes, Product, Row
<1>3. ASSUME NEW r \in Requests, CallerHangsUp(r) PROVE ArrivalInv' /\ AnswersInv'
  BY <1>2, <1>3 DEF CallerHangsUp
<1>4. CASE UNCHANGED allActorVars
  BY <1>2, <1>4 DEF allActorVars, actorVars
<1> QED
  BY <1>1, <1>3, <1>4, DispatchArrival, DispatchAnswers, ReceiveArrival, ReceiveAnswers,
     EndArrival, EndAnswers
  DEF ActorNext, Writer

\* What was accepted before a command that is done is done.
LEMMA InOrder ==
  ASSUME ArrivalInv, AnswersInv PROVE HandledInArrivalOrder
<1>1. ASSUME NEW i \in 1..Len(accepted), NEW j \in 1..Len(accepted), i < j, at[accepted[j]] = "done"
      PROVE  at[accepted[i]] = "done"
  BY <1>1, Positions DEF ArrivalInv, Place
<1> QED
  BY <1>1 DEF AnswersInv, AnsweredAfter, HandledInArrivalOrder

-----------------------------------------------------------------------------
(* The race against any of the four: what each strategy keeps, of the one  *)
(* that is raced.                                                          *)

NoConflict == \A r \in Requests : answer[r].what # "conflict"

OrderInv == /\ target = "actor" => ActorInv /\ ArrivalInv /\ AnswersInv
            /\ target # "actor" => accepted = <<>>

RaceInv == /\ OrderInv
           /\ target \in Targets
           /\ target = "naive" => NaiveInv
           /\ target = "optimistic" => OptimisticInv
           /\ target = "pessimistic" => PessimisticInv
           /\ target # "optimistic" => NoConflict

\* A race begins as the service raced does.
LEMMA RaceInitInv == Init => RaceInv
<1>1. ASSUME Init PROVE target \in Targets /\ NoConflict
  BY <1>1 DEF Init, TableInit, NoConflict
<1>2. ASSUME Init, target = "naive" PROVE NaiveInv
  BY <1>2, NaiveInitInv DEF Init, NaiveInit
<1>3. ASSUME Init, target = "optimistic" PROVE OptimisticInv
  BY <1>3, OptimisticInitInv DEF Init, OptimisticInit
<1>4. ASSUME Init, target = "pessimistic" PROVE PessimisticInv
  BY <1>4, PessimisticInitInv DEF Init, PessimisticInit
<1>5. ASSUME Init, target = "actor" PROVE ActorInv /\ ArrivalInv /\ AnswersInv
  BY <1>5, ActorInitInv, ArrivalInit DEF Init, ActorInit
<1>6. Init => accepted = <<>>
  BY DEF Init
<1> QED
  BY <1>1, <1>2, <1>3, <1>4, <1>5, <1>6 DEF RaceInv, OrderInv

\* A race is a race against one service to its end.
LEMMA TargetStays ==
  ASSUME [Next]_vars PROVE target' = target
<1>1. ASSUME NEW r \in Requests, ReadStock(r) \/ SeedStock(r) PROVE target' = target
  BY <1>1 DEF ReadStock, SeedStock, Seed, tableVars
<1>2. ASSUME NEW r \in Requests, Write(r) \/ UNCHANGED tableVars PROVE target' = target
  BY <1>2 DEF Write, tableVars
<1>3. NaiveNext => target' = target
  BY <1>1, <1>2 DEF NaiveNext, Endpoint, NaiveRead, NaiveDecide
<1>4. OptimisticNext => target' = target
  BY <1>1, <1>2 DEF OptimisticNext, Endpoint, OptimisticRead, Reject, Swap, Conflict
<1>5. PessimisticNext => target' = target
  BY <1>1, <1>2
  DEF PessimisticNext, Endpoint, Handle, Lock, PessimisticRead, PessimisticDecide, HangUp
<1>6. ActorNext => target' = target
  BY <1>1, <1>2 DEF ActorNext, Writer, Dispatch, Receive, BeginReserve, EndReserve, CallerHangsUp
<1>7. UNCHANGED vars => target' = target
  BY DEF vars, tableVars
<1> QED
  BY <1>3, <1>4, <1>5, <1>6, <1>7 DEF Next

\* Only optimistic-service answers 409.
LEMMA NoConflictNext ==
  ASSUME [Next]_vars, target # "optimistic", NoConflict, TableTypeOK
  PROVE  NoConflict'
<1>1. ASSUME NEW r \in Requests, NEW what, what # "conflict", Done(r, what) PROVE NoConflict'
  BY <1>1 DEF Done, NoConflict, TableTypeOK
<1>2. answer' = answer => NoConflict'
  BY DEF NoConflict
<1>3. ASSUME NEW r \in Requests, ReadStock(r) \/ SeedStock(r) PROVE NoConflict'
  BY <1>1, <1>3 DEF ReadStock, SeedStock
<1>4. NaiveNext => NoConflict'
  BY <1>1, <1>2, <1>3 DEF NaiveNext, Endpoint, NaiveRead, NaiveDecide, TakeSnapshot
<1>5. PessimisticNext => NoConflict'
  BY <1>1, <1>2, <1>3
  DEF PessimisticNext, Endpoint, Handle, Lock, PessimisticRead, PessimisticDecide, HangUp,
      TakeSnapshot
<1>6. ActorNext => NoConflict'
  BY <1>1, <1>2, <1>3
  DEF ActorNext, Writer, Dispatch, Receive, BeginReserve, EndReserve, CallerHangsUp, TakeSnapshot,
      requestVars
<1>7. UNCHANGED vars => NoConflict'
  BY <1>2 DEF vars, requestVars
<1> QED
  BY <1>4, <1>5, <1>6, <1>7 DEF Next

\* Arrival order is kept whichever service is raced, and whenever products
\* are seeded.
LEMMA OrderInvNext ==
  ASSUME OrderInv, [Next]_vars PROVE OrderInv'
<1>1. target' = target
  BY TargetStays
<1>2. CASE target = "actor"
  <2>1. [ActorNext]_allActorVars
    BY <1>2 DEF Next, vars, allActorVars
  <2> QED
    BY <1>1, <1>2, <2>1, ActorNextInv, OrderNextInv DEF OrderInv
<1>3. CASE target # "actor"
  BY <1>1, <1>3 DEF OrderInv, Next, vars, actorVars
<1> QED
  BY <1>2, <1>3

\* A step of a race is a step of the service raced.
LEMMA RaceNextInv ==
  ASSUME SeedsRace = FALSE, RaceInv, [Next]_vars PROVE RaceInv'
<1>1. target' = target /\ OrderInv'
  BY TargetStays, OrderInvNext DEF RaceInv
<1>2. TableTypeOK
  BY TableAssumption DEF RaceInv, OrderInv, NaiveInv, OptimisticInv, PessimisticInv, ActorInv
<1>3. target = "naive" => NaiveInv'
  <2>1. target = "naive" => [NaiveNext]_naiveVars
    BY DEF Next, vars, naiveVars
  <2> QED
    BY <2>1, NaiveNextInv DEF RaceInv
<1>4. target = "optimistic" => OptimisticInv'
  <2>1. target = "optimistic" => [OptimisticNext]_optimisticVars
    BY DEF Next, vars, optimisticVars
  <2> QED
    BY <2>1, OptimisticNextInv DEF RaceInv
<1>5. target = "pessimistic" => PessimisticInv'
  <2>1. target = "pessimistic" => [PessimisticNext]_pessimisticVars
    BY DEF Next, vars, pessimisticVars
  <2> QED
    BY <2>1, PessimisticNextInv DEF RaceInv
<1>6. target # "optimistic" => NoConflict'
  BY <1>2, NoConflictNext DEF RaceInv
<1> QED
  BY <1>1, <1>3, <1>4, <1>5, <1>6 DEF RaceInv

\* The invariant holds in every reachable state of every race.
THEOREM RaceInvariance ==
  ASSUME SeedsRace = FALSE PROVE Spec => []RaceInv
BY RaceInitInv, RaceNextInv, PTL DEF Spec

\* What RaceInv says of the books of the service raced.
LEMMA BooksOfTheRaced ==
  ASSUME RaceInv PROVE /\ TableTypeOK /\ NeverUndersells
                       /\ target # "naive" => BooksBalance
<1>1. TableTypeOK /\ (target # "naive" => BooksBalance)
  BY TableAssumption DEF RaceInv, OrderInv, NaiveInv, OptimisticInv, PessimisticInv, ActorInv
<1>2. CASE target = "naive"
  BY <1>1, <1>2 DEF RaceInv, NaiveInv
<1>3. CASE target # "naive"
  BY <1>1, <1>3 DEF BooksBalance, NeverUndersells, TableTypeOK
<1> QED
  BY <1>1, <1>2, <1>3

\* Whichever of the three strategies is raced, every unit handed out was a
\* unit consumed.
THEOREM NothingIsOversold == ASSUME SeedsRace = FALSE PROVE Spec => []NoOversell
<1>1. RaceInv => NoOversell
  BY BooksOfTheRaced DEF NoOversell
<1> QED
  BY RaceInvariance, <1>1, PTL

\* Whichever of the four is raced, naive-service too, every missing unit was
\* handed out.
THEOREM NothingIsLost == ASSUME SeedsRace = FALSE PROVE Spec => []NeverUndersells
<1>1. RaceInv => NeverUndersells
  BY BooksOfTheRaced
<1> QED
  BY RaceInvariance, <1>1, PTL

\* Out of stock means out of stock, in all but naive-service.
THEOREM RejectionsAreHonest == ASSUME SeedsRace = FALSE PROVE Spec => []RejectionIsHonest
<1>1. ASSUME RaceInv PROVE RejectionIsHonest
  <2>1. CASE target = "optimistic"
    BY <1>1, <2>1 DEF RaceInv, OptimisticInv, OptimisticAnswerInv, RejectionIsHonest
  <2>2. CASE target = "pessimistic"
    BY <1>1, <2>2 DEF RaceInv, PessimisticInv, PessimisticAnswerInv, RejectionIsHonest
  <2>3. CASE target = "actor"
    BY <1>1, <2>3 DEF RaceInv, OrderInv, ActorInv, ActorAnswerInv, RejectionIsHonest
  <2> QED
    BY <1>1, <2>1, <2>2, <2>3, TableAssumption DEF RaceInv, RejectionIsHonest
<1> QED
  BY RaceInvariance, <1>1, PTL

\* No two grants of optimistic-service were decided on the same version.
THEOREM VersionsHaveOneWinner == ASSUME SeedsRace = FALSE PROVE Spec => []OneWinnerPerVersion
<1>1. ASSUME RaceInv, target = "optimistic" PROVE OneWinnerPerVersion
  <2>1. \A r \in Requests : Answered(r, "granted") => answer[r].version = snapshot[r].version + 1
    BY <1>1 DEF RaceInv, OptimisticInv, OptimisticAnswerInv
  <2> QED
    BY <1>1, <2>1 DEF RaceInv, OptimisticInv, OneWinner, OneWinnerPerVersion
<1>2. RaceInv => OneWinnerPerVersion
  BY <1>1 DEF OneWinnerPerVersion
<1> QED
  BY RaceInvariance, <1>2, PTL

\* A request that names a version is applied to that version or not at all.
THEOREM PinsAreKept == ASSUME SeedsRace = FALSE PROVE Spec => []PinnedIsExact
<1>1. RaceInv => PinnedIsExact
  BY DEF RaceInv, OptimisticInv, OptimisticAnswerInv, PinnedIsExact
<1> QED
  BY RaceInvariance, <1>1, PTL

\* A 409 is earned by the writes of others.
THEOREM NoConflictForNothing == ASSUME SeedsRace = FALSE PROVE Spec => []ConflictIsEarned
<1>1. RaceInv /\ target = "optimistic" => ConflictIsEarned
  BY DEF RaceInv, OptimisticInv, OptimisticAnswerInv, ConflictIsEarned
<1>2. RaceInv /\ target # "optimistic" => ConflictIsEarned
  BY DEF RaceInv, NoConflict, ConflictIsEarned, Answered
<1>3. RaceInv => ConflictIsEarned
  BY <1>1, <1>2
<1> QED
  BY RaceInvariance, <1>3, PTL

\* actor-service handles commands strictly in arrival order, whoever hangs up
\* and whenever products are seeded.
THEOREM ArrivalOrderIsKept == Spec => []HandledInArrivalOrder
<1>1. Init => OrderInv
  BY RaceInitInv DEF RaceInv
<1>2. ASSUME OrderInv PROVE HandledInArrivalOrder
  <2>1. CASE target = "actor"
    BY <1>2, <2>1, InOrder DEF OrderInv
  <2>2. CASE target # "actor"
    BY <1>2, <2>2 DEF OrderInv, HandledInArrivalOrder
  <2> QED
    BY <2>1, <2>2
<1> QED
  BY <1>1, <1>2, OrderInvNext, PTL DEF Spec

\* Whichever of the three strategies is raced, a reservation takes effect at
\* one instant, on a shelf that has the units: the lab implements Shelf.
THEOREM RaceImplementsShelf == ASSUME SeedsRace = FALSE PROVE Spec => ImplementsShelf
<1>1. Init => Promise!Init
  BY DEF Init, TableInit, Promise!Init
<1>2. ASSUME RaceInv, [Next]_vars PROVE [target = "naive" \/ Promise!Next]_(Promise!vars)
  <2>1. CASE target = "optimistic"
    <3>1. [OptimisticNext]_optimisticVars
      BY <1>2, <2>1 DEF Next, vars, optimisticVars
    <3> QED
      BY <1>2, <2>1, <3>1, OptimisticStepOnShelf DEF RaceInv
  <2>2. CASE target = "pessimistic"
    <3>1. [PessimisticNext]_pessimisticVars
      BY <1>2, <2>2 DEF Next, vars, pessimisticVars
    <3> QED
      BY <1>2, <2>2, <3>1, PessimisticStepOnShelf DEF RaceInv
  <2>3. CASE target = "actor"
    <3>1. [ActorNext]_allActorVars
      BY <1>2, <2>3 DEF Next, vars, allActorVars
    <3> QED
      BY <1>2, <2>3, <3>1, ActorStepOnShelf DEF RaceInv, OrderInv
  <2> QED
    BY <1>2, <2>1, <2>2, <2>3, TableAssumption DEF RaceInv
<1> QED
  BY RaceInvariance, <1>1, <1>2, PTL DEF Spec, ImplementsShelf

=============================================================================
