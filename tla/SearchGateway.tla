--------------------------- MODULE SearchGateway ---------------------------
(***************************************************************************)
(* src/fan-out: one GET /search of search-gateway, scattered to every      *)
(* provider of its registry and gathered into one answer.                  *)
(*                                                                         *)
(* Every branch has a timeout of its own, and join_all polls all of them   *)
(* before it waits for any; then the answers come when they come.  Time is *)
(* counted in ticks.  The runtime polls a branch some time after its       *)
(* answer came in or its timer ran out, up to Lag ticks later (README.md:  *)
(* 244 shows 501 ms on a budget of 500): the clock does not pass a branch  *)
(* by more than that.  When both have happened, either may be seen.  What  *)
(* a provider does with a query (how long it takes, whether it fails) is   *)
(* chosen when it is dialled.                                              *)
(*                                                                         *)
(* Names and prices are numbers, so that they have an order; Key maps a    *)
(* name to its trimmed lower-case form.                                    *)
(***************************************************************************)
EXTENDS Naturals, SequencesExt, FiniteSetsExt, TLC

CONSTANTS Providers,        \* names a registry may contain
          Specs,            \* the PROVIDERS variable: sequences of entries
          Corpus,           \* [Providers -> sequence of hits], a provider's index
          Queries, Matches, \* [Queries -> the names that contain the query]
          Blank,            \* the query of blanks
          Key,              \* [names -> keys]
          Serves,           \* [Providers -> the provider of the lab behind the url]
          Wire,             \* the ticks a call and its answer may travel
          LatencyTicks,     \* how long partner-provider stalls
          Budget,           \* ticks a branch may take
          Lag               \* ticks the runtime may be late to poll a branch

ASSUME GatewayAssumption ==
  /\ Serves \in [Providers -> {"catalog", "partner", "archive"}]
  /\ Wire \subseteq Nat /\ LatencyTicks \in Nat /\ Budget \in Nat \ {0} /\ Lag \in Nat
  /\ Blank \in Queries

VARIABLES registry,         \* the providers, in the order of the registry
          search,           \* where the request is, and its query
          clock,            \* ticks since it was scattered
          branch,           \* [Providers -> how its branch stands, since when]
          work,             \* [Providers -> when it answers, and how]
          answered          \* the answer

gatewayVars == <<registry, search, clock, branch, work, answered>>

IdleBranch == [state |-> "idle", began |-> 0, took |-> 0]
NoWork == [due |-> 0, trouble |-> "none"]
NoAnswer == [hits |-> <<>>, reports |-> <<>>, degraded |-> FALSE]
Enrolled == {registry[i] : i \in DOMAIN registry}

-----------------------------------------------------------------------------
(* provider.rs: the registry *)

\* parse_spec: blank entries are skipped; an entry without a name or a url, a
\* second one of the same name and no entry at all are errors.
Entries(spec) == SelectSeq(spec, LAMBDA e : e # "blank")

\* A list without some of its entries is a list.
ASSUME EntriesAssumption ==
  \A spec \in Specs : Entries(spec) \in Seq({Entries(spec)[i] : i \in DOMAIN Entries(spec)})

IsValid(spec) ==
  /\ Entries(spec) # <<>>
  /\ \A i \in DOMAIN Entries(spec) : Entries(spec)[i] \in Providers
  /\ \A i, j \in DOMAIN Entries(spec) : Entries(spec)[i] = Entries(spec)[j] => i = j

\* What the registry is made of, nothing if main panics.
RegistryOf(spec) == IF IsValid(spec) THEN Entries(spec) ELSE <<>>

\* main.rs: from_spec, or panic.
GatewayInit ==
  /\ \E spec \in Specs :
       /\ registry = RegistryOf(spec)
       /\ search = [at |-> IF IsValid(spec) THEN "new" ELSE "panicked", query |-> Blank]
  /\ clock = 0
  /\ branch = [q \in Providers |-> IdleBranch]
  /\ work = [q \in Providers |-> NoWork]
  /\ answered = NoAnswer

-----------------------------------------------------------------------------
(* The providers *)

\* index.rs search: the items whose name contains the query.
Found(q, query) == SelectSeq(Corpus[q], LAMBDA hit : hit.name \in Matches[query])

\* All that any provider has; what is found is a list of it.
Listed == UNION {{Corpus[q][i] : i \in DOMAIN Corpus[q]} : q \in Providers}

\* A part of a list is a list of the same items.
ASSUME CorpusAssumption ==
  /\ DOMAIN Key \subseteq Int
  /\ \A hit \in Listed : hit.name \in DOMAIN Key /\ hit.price \in Nat
  /\ \A q \in Providers, query \in Queries \ {Blank} : Found(q, query) \in Seq(Listed)

After(ticks, trouble) == [ticks : ticks, trouble : trouble]

\* http.rs of each.  partner-provider stalls first, archive-provider fails
\* some of its searches, and the call may go wrong on the way (NoReply).
CatalogSearch == After(Wire, {"none"})
PartnerSearch == After({t + LatencyTicks : t \in Wire}, {"none"})
ArchiveSearch == After(Wire, {"none", "503"})
NoReply == After({0}, {"hangs", "unreachable"})

Replies(q) == NoReply \cup CASE Serves[q] = "catalog" -> CatalogSearch
                             [] Serves[q] = "partner" -> PartnerSearch
                             [] Serves[q] = "archive" -> ArchiveSearch

\* provider.rs search: hits, or an error (not reached, no success), or
\* nothing ever.
Answers(q) == /\ work[q].trouble # "hangs"
              /\ clock >= work[q].due
Good(q) == work[q].trouble = "none"

-----------------------------------------------------------------------------
(* scatter.rs: the scatter *)

\* http.rs search.
RejectBlank == /\ search.at = "new"
               /\ search' = [at |-> "rejected", query |-> Blank]
               /\ UNCHANGED <<registry, clock, branch, work, answered>>

Scatter(query) ==
  /\ search.at = "new"
  /\ query # Blank
  /\ search' = [at |-> "scattered", query |-> query]
  /\ UNCHANGED <<registry, clock, branch, work, answered>>

\* Mutant: one branch after the other.
WhenThoseBeforeAreIn(i) == \A j \in 1..(i - 1) : branch[registry[j]].state \notin {"idle", "out"}

\* join_all polls every branch at once.
AtOnce(i) == \A j \in 1..(i - 1) : branch[registry[j]].state # "idle"

CanBegin(i) == search.at = "scattered" /\ branch[registry[i]].state = "idle" /\ AtOnce(i)

\* The first poll of a branch: the clock is read, the provider is dialled.
Begin(i) ==
  /\ CanBegin(i)
  /\ branch' = [branch EXCEPT ![registry[i]] = [state |-> "out", began |-> clock, took |-> 0]]
  /\ \E reply \in Replies(registry[i]) :
       work' = [work EXCEPT ![registry[i]] = [due |-> clock + reply.ticks, trouble |-> reply.trouble]]
  /\ UNCHANGED <<registry, search, clock, answered>>

Settle(q, state) ==
  /\ branch' = [branch EXCEPT ![q].state = state, ![q].took = clock - branch[q].began]
  /\ UNCHANGED <<registry, search, clock, work, answered>>

Arrive(q) == /\ branch[q].state = "out"
             /\ Answers(q) /\ Good(q)
             /\ Settle(q, "ok")

Fail(q) == /\ branch[q].state = "out"
           /\ Answers(q) /\ ~Good(q)
           /\ Settle(q, "failed")

\* The timed-out future is dropped; what its provider sends later goes
\* nowhere, so the clock stops when the search is answered.
TimeOut(q) == /\ branch[q].state = "out"
              /\ clock >= branch[q].began + Budget
              /\ Settle(q, "timed_out")

\* A branch yet to be polled, or polled as late as the runtime ever does.
Overdue == \/ \E i \in DOMAIN registry : CanBegin(i)
           \/ \E q \in Providers :
                /\ branch[q].state = "out"
                /\ \/ work[q].trouble # "hangs" /\ clock >= work[q].due + Lag
                   \/ clock >= branch[q].began + Budget + Lag

Tick == /\ search.at = "scattered"
        /\ ~Overdue
        /\ \E q \in Enrolled : branch[q].state = "out"
        /\ clock' = clock + 1
        /\ UNCHANGED <<registry, search, branch, work, answered>>

-----------------------------------------------------------------------------
(* scatter.rs: the gather *)

HitsOf(q) == IF branch[q].state = "ok" THEN Found(q, search.query) ELSE <<>>
Brought == [q \in Enrolled |-> HitsOf(q)]

Offer(q, hit) == [id |-> hit.id, name |-> hit.name, price |-> hit.price, sources |-> <<q>>]

\* Mutant: the price is lowered, the id of the first offer is kept.
JoinedKeepingId(old, q, hit) ==
  [id |-> old.id, name |-> old.name,
   price |-> IF hit.price < old.price THEN hit.price ELSE old.price,
   sources |-> IF \E k \in DOMAIN old.sources : old.sources[k] = q THEN old.sources
               ELSE Append(old.sources, q)]

\* 183-195: one more source, and the cheaper price with the id that goes with
\* it.
Joined(old, q, hit) ==
  [id |-> IF hit.price < old.price THEN hit.id ELSE old.id, name |-> old.name,
   price |-> IF hit.price < old.price THEN hit.price ELSE old.price,
   sources |-> IF \E k \in DOMAIN old.sources : old.sources[k] = q THEN old.sources
               ELSE Append(old.sources, q)]

Same(merged, hit) == {i \in DOMAIN merged : Key[merged[i].name] = Key[hit.name]}

\* 179-205: one hit joins the offers, if need be as a new product.
Add(merged, q, hit) ==
  IF Same(merged, hit) = {} THEN Append(merged, Offer(q, hit))
  ELSE LET i == CHOOSE i \in Same(merged, hit) : TRUE
       IN [merged EXCEPT ![i] = Joined(@, q, hit)]

\* 177-208: the hits of one provider after the other, in the order of the
\* registry.
AddAll(merged, q, found) == FoldLeft(LAMBDA m, hit : Add(m, q, hit), merged, found)
Merged(names, found) == FoldLeft(LAMBDA m, q : AddAll(m, q, found[q]), <<>>, names)

\* any branch that is not ok.
Degraded(reports) == \E i \in DOMAIN reports : reports[i].status # "ok"

\* 213-217.
Before(a, b) == a.price < b.price \/ (a.price = b.price /\ a.name < b.name)
Sorts(ranking, hits) == \A i, j \in DOMAIN hits : i < j => ~Before(hits[ranking[j]], hits[ranking[i]])
Ranked(hits) == LET ranking == CHOOSE p \in Bijection(DOMAIN hits, DOMAIN hits) : Sorts(p, hits)
                IN [i \in DOMAIN hits |-> hits[ranking[i]]]

\* Mutant: a timed-out branch has no report.
ReportThoseWhoAnswered ==
  LET told == SelectSeq(registry, LAMBDA q : branch[q].state # "timed_out")
  IN [i \in DOMAIN told |->
       [name |-> told[i], status |-> branch[told[i]].state,
        hits |-> Len(HitsOf(told[i])), took |-> branch[told[i]].took]]

\* 115-155: one report per branch, join_all keeping the order.
Reports == [i \in DOMAIN registry |->
             [name |-> registry[i], status |-> branch[registry[i]].state,
              hits |-> Len(HitsOf(registry[i])), took |-> branch[registry[i]].took]]

Gather ==
  /\ search.at = "scattered"
  /\ \A q \in Enrolled : branch[q].state \notin {"idle", "out"}
  /\ answered' = [hits |-> Ranked(Merged(registry, Brought)), reports |-> Reports,
                  degraded |-> Degraded(Reports)]
  /\ search' = [search EXCEPT !.at = "answered"]
  /\ UNCHANGED <<registry, clock, branch, work>>

GatewayNext ==
  \/ RejectBlank \/ \E query \in Queries : Scatter(query)
  \/ \E i \in DOMAIN registry : Begin(i)
  \/ \E q \in Enrolled : Arrive(q) \/ Fail(q) \/ TimeOut(q)
  \/ Tick \/ Gather

-----------------------------------------------------------------------------
(* Properties *)

\* What the providers sent in time, for the query.
InTime(q) == q \in Enrolled /\ branch[q].state = "ok"
Offers(key) == {o \in Enrolled \X Listed :
                  /\ InTime(o[1]) /\ Key[o[2].name] = key
                  /\ \E i \in DOMAIN Found(o[1], search.query) : Found(o[1], search.query)[i] = o[2]}

\* The cheapest of these offers, with the id that goes with the price and all
\* who made one, in the order of the registry.
IsBest(hit, offers) ==
  /\ hit.price = Min({o[2].price : o \in offers})
  /\ \E o \in offers : o[2].id = hit.id /\ o[2].price = hit.price
  /\ {hit.sources[k] : k \in DOMAIN hit.sources} = {o[1] : o \in offers}
  /\ \A k, l \in DOMAIN hit.sources, i, j \in DOMAIN registry :
       hit.sources[k] = registry[i] /\ hit.sources[l] = registry[j] => (k < l <=> i < j)

\* The answer holds every product offered in time exactly once, at its lowest
\* price and with the id of an offer at that price; its sources are all who
\* offered it, in the order of the registry; cheapest first, then by name.
\* None of it depends on the order in which the branches came in.
AnswerIsBestOffers ==
  search.at = "answered" =>
    LET hits == answered.hits IN
    /\ {Key[hits[i].name] : i \in DOMAIN hits} = {k \in {Key[n] : n \in DOMAIN Key} : Offers(k) # {}}
    /\ \A i, j \in DOMAIN hits : Key[hits[i].name] = Key[hits[j].name] => i = j
    /\ \A i \in DOMAIN hits : IsBest(hits[i], Offers(Key[hits[i].name]))
    /\ \A i, j \in DOMAIN hits : i < j => Before(hits[i], hits[j])

\* The budget is spent by all branches together, so that the whole request
\* costs roughly one budget and not one for each provider (scatter.rs:14-18).
\* Whatever the providers do, a search is kept no longer than one budget and
\* the lateness of one poll; however late the polls are, it takes as long as
\* its slowest branch and not longer; and no branch is cut off early.
AnsweredInTime ==
  /\ search.at = "scattered" => clock <= Budget + Lag
  /\ search.at = "answered" =>
       LET reports == answered.reports IN
       /\ \E i \in DOMAIN reports : reports[i].took = clock
       /\ \A i \in DOMAIN reports :
            /\ reports[i].took <= clock
            /\ reports[i].status = "timed_out" => reports[i].took >= Budget

\* What a report says is so: one per registered provider in the order of the
\* registry, ok if the provider's hits were there to be polled before the
\* budget was spent, and not if they came after the last poll of its timer.
ReportsAreTrue ==
  search.at = "answered" =>
    LET reports == answered.reports IN
    /\ [i \in DOMAIN reports |-> reports[i].name] = registry
    /\ \A i \in DOMAIN reports :
         LET q == reports[i].name IN
         /\ reports[i].status = "ok" => Good(q) /\ work[q].due <= Budget + Lag
         /\ Good(q) /\ work[q].due + Lag < Budget => reports[i].status = "ok"
         /\ reports[i].status = "timed_out" => work[q].trouble = "hangs" \/ work[q].due + Lag >= Budget
         /\ reports[i].hits = IF reports[i].status = "ok" THEN Len(Found(q, search.query)) ELSE 0
    /\ answered.degraded <=> \E i \in DOMAIN reports : reports[i].status # "ok"

\* "Completeness is data" (scatter.rs:20): the reports are true, and an answer
\* that is not degraded misses nothing.
CompletenessIsTold ==
  /\ ReportsAreTrue
  /\ search.at = "answered" /\ ~answered.degraded =>
       \A q \in Enrolled : \A i \in DOMAIN Found(q, search.query) :
         \E k \in DOMAIN answered.hits : Key[answered.hits[k].name] = Key[Found(q, search.query)[i].name]
=============================================================================
