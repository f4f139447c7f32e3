----------------------------- MODULE CqrsProofs -----------------------------
(***************************************************************************)
(* What the event store of src/cqrs-es guarantees although append takes no *)
(* expected version: every event is legal after the prefix of its log that *)
(* its command loaded, stale appends apart the logs implement the          *)
(* lifecycle of an order, and the query side lists nothing that is not in  *)
(* a log.                                                                  *)
(*                                                                         *)
(* The argument is that logs only grow.  A command that has decided points *)
(* with `seen` at an event that accepts its own, and that event stays      *)
(* where it is; what is underway, published or listed is in the log, and   *)
(* remains in it.                                                          *)
(***************************************************************************)
EXTENDS CqrsEs, TLAPS

\* The places of POST /orders before its first event.
Unplaced == {"new", "pricing", "priced", "refused"}

Types == /\ streams \in [OrderIds -> Seq(Events)]
         /\ placing \in [OrderIds -> Unplaced \cup {"appended", "answered", "abandoned"}]
         /\ phase \in [Commands -> {"new", "not found", "invalid", "decided", "appended",
                                    "answered", "abandoned"}]
         /\ seen \in [Commands -> Nat]
         /\ sheet \in [OrderIds -> Nat]
         /\ rate \in Nat
         /\ topics \in [Events -> Seq(OrderIds)]
         /\ view \in [OrderIds -> [status : Events \cup {"none"}, price : Nat]]

Occurs(o, event) == \E i \in DOMAIN streams[o] : streams[o][i] = event

EmptyBeforePlaced == \A o \in OrderIds : placing[o] \in Unplaced => streams[o] = <<>>

SeenAccepts(c) ==
  /\ seen[c] \in 1..Len(streams[Command[c].order])
  /\ streams[Command[c].order][seen[c]] \in Accepts(Command[c].event)

DecidedOnAPrefix == \A c \in Commands : phase[c] = "decided" => SeenAccepts(c)

PlacedIsLogged == \A o \in OrderIds : placing[o] = "appended" => Occurs(o, "Placed")

ChangeIsLogged == \A c \in Commands :
  phase[c] = "appended" => Occurs(Command[c].order, Command[c].event)

Published(o, event) == \E i \in DOMAIN topics[event] : topics[event][i] = o

PublishedIsLogged == \A o \in OrderIds, e \in Events : Published(o, e) => Occurs(o, e)

Inv == /\ Types
       /\ EmptyBeforePlaced
       /\ DecidedOnAPrefix
       /\ PlacedIsLogged /\ ChangeIsLogged /\ PublishedIsLogged
       /\ ViewIsHistory

-----------------------------------------------------------------------------
(* Lemmas *)

LEMMA CommandTypes ==
  \A c \in Commands : /\ Command[c].order \in OrderIds
                      /\ Command[c].event \in Events \ {"Placed"}
BY CqrsAssumption DEF Events

\* A log that grows keeps what it has.
LEMMA LogGrows ==
  ASSUME NEW o \in OrderIds, NEW event \in Events, Types,
         streams' = [streams EXCEPT ![o] = Append(@, event)]
  PROVE  /\ streams' \in [OrderIds -> Seq(Events)]
         /\ \A q \in OrderIds : q # o => streams'[q] = streams[q]
         /\ Len(streams'[o]) = Len(streams[o]) + 1
         /\ \A i \in 1..Len(streams[o]) : streams'[o][i] = streams[o][i]
         /\ streams'[o][Len(streams[o]) + 1] = event
         /\ Len(streams[o]) \in Nat
         /\ \A q \in OrderIds, e \in Events : Occurs(q, e) => Occurs(q, e)'
         /\ Occurs(o, event)'
<1>1. streams[o] \in Seq(Events) /\ streams'[o] = Append(streams[o], event)
  BY DEF Types
<1>2. streams' \in [OrderIds -> Seq(Events)]
  <2>1. \A s \in Seq(Events) : Append(s, event) \in Seq(Events)
    OBVIOUS
  <2>2. Append(streams[o], event) \in Seq(Events)
    BY <1>1, <2>1
  <2> QED
    BY <2>2 DEF Types
<1>3. \A q \in OrderIds : q # o => streams'[q] = streams[q]
  BY DEF Types
<1>4. /\ Len(streams'[o]) = Len(streams[o]) + 1
      /\ Len(streams[o]) \in Nat
      /\ \A i \in 1..Len(streams[o]) : streams'[o][i] = streams[o][i]
      /\ streams'[o][Len(streams[o]) + 1] = event
  <2> DEFINE s == streams[o]
  <2>1. s \in Seq(Events)
    BY <1>1
  <2>2. /\ Len(Append(s, event)) = Len(s) + 1
        /\ Len(s) \in Nat
        /\ \A i \in 1..Len(s) : Append(s, event)[i] = s[i]
        /\ Append(s, event)[Len(s) + 1] = event
    <3> HIDE DEF s
    <3> QED
      BY <2>1
  <2> QED
    BY <1>1, <2>2
<1>5. DOMAIN streams[o] = 1..Len(streams[o]) /\ DOMAIN streams'[o] = 1..Len(streams'[o])
  BY <1>1, <1>2
<1>6. ASSUME NEW q \in OrderIds, NEW e \in Events, Occurs(q, e) PROVE Occurs(q, e)'
  <2>1. CASE q # o
    BY <1>3, <1>6, <2>1 DEF Occurs
  <2>2. CASE q = o
    <3>1. PICK i \in 1..Len(streams[o]) : streams[o][i] = e
      BY <1>5, <1>6, <2>2 DEF Occurs
    <3>2. i \in DOMAIN streams'[o] /\ streams'[o][i] = e
      BY <1>4, <1>5, <3>1
    <3> QED
      BY <2>2, <3>2 DEF Occurs
  <2> QED
    BY <2>1, <2>2
<1>7. Occurs(o, event)'
  <2>1. Len(streams[o]) + 1 \in DOMAIN streams'[o]
    BY <1>4, <1>5
  <2> QED
    BY <1>4, <2>1 DEF Occurs
<1> QED
  BY <1>2, <1>3, <1>4, <1>6, <1>7

\* What a command that appends in general keeps, whoever appends.
LEMMA AppendKeeps ==
  ASSUME Inv, NEW o \in OrderIds, NEW event \in Events,
         AppendEvent(o, event), UNCHANGED <<sheet, seen, querySide>>
  PROVE  /\ ViewIsHistory'
         /\ \A c \in Commands : SeenAccepts(c) => SeenAccepts(c)'
<1>1. streams' = [streams EXCEPT ![o] = Append(@, event)]
  BY DEF AppendEvent
<1>2. Types
  BY DEF Inv
<1> DEFINE n == Len(streams[o])
<1>3. /\ \A q \in OrderIds : q # o => streams'[q] = streams[q]
      /\ Len(streams'[o]) = n + 1 /\ n \in Nat
      /\ \A i \in 1..n : streams'[o][i] = streams[o][i]
      /\ streams'[o][n + 1] = event
      /\ \A q \in OrderIds, e \in Events : Occurs(q, e) => Occurs(q, e)'
      /\ streams' \in [OrderIds -> Seq(Events)]
  BY <1>1, <1>2, LogGrows
<1>4. DOMAIN streams[o] = 1..n /\ DOMAIN streams'[o] = 1..(n + 1)
  <2>1. streams[o] \in Seq(Events) /\ streams'[o] \in Seq(Events)
    BY <1>2, <1>3 DEF Types
  <2> QED
    BY <1>3, <2>1
<1>5. ViewIsHistory'
  <2>1. view' = view /\ sheet' = sheet
    BY DEF querySide
  <2>2. ASSUME NEW q \in OrderIds, view[q] # Unlisted
        PROVE  view[q].price = sheet[q] /\ Occurs(q, view[q].status)'
    <3>1. view[q].price = sheet[q] /\ Occurs(q, view[q].status)
      BY <2>2 DEF Inv, ViewIsHistory, Occurs
    <3>2. view[q].status \in Events
      <4>1. streams[q] \in Seq(Events)
        BY <1>2 DEF Types
      <4> QED
        BY <3>1, <4>1 DEF Occurs
    <3> QED
      BY <1>3, <3>1, <3>2, <2>1 DEF Occurs
  <2> QED
    BY <2>1, <2>2 DEF ViewIsHistory, Occurs, Unlisted
<1>6. ASSUME NEW c \in Commands, SeenAccepts(c) PROVE SeenAccepts(c)'
  <2>1. seen'[c] = seen[c] /\ Command[c].order \in OrderIds
    BY CqrsAssumption
  <2>2. CASE Command[c].order # o
    BY <1>3, <1>6, <2>1, <2>2 DEF SeenAccepts, Accepts
  <2>3. CASE Command[c].order = o
    <3>1. /\ seen[c] \in 1..n
          /\ streams[o][seen[c]] \in Accepts(Command[c].event)
      BY <1>6, <2>3 DEF SeenAccepts
    <3>2. /\ seen'[c] \in 1..Len(streams'[o])
          /\ streams'[o][seen'[c]] \in Accepts(Command[c].event)
      BY <1>3, <2>1, <3>1
    <3> QED
      BY <2>3, <3>2 DEF SeenAccepts, Accepts
  <2> QED
    BY <2>2, <2>3
<1> QED
  BY <1>5, <1>6

-----------------------------------------------------------------------------
(* The invariant *)

LEMMA InitInv == CqrsInit => Inv
BY DEF CqrsInit, Inv, Types, EmptyBeforePlaced, DecidedOnAPrefix, PlacedIsLogged,
   ChangeIsLogged, PublishedIsLogged, Published, ViewIsHistory, Unplaced, Unlisted, Events

\* A step that leaves logs, sheets, topics and the view alone and decides
\* nothing.
LEMMA HandlersOnly ==
  ASSUME Inv, Types', UNCHANGED <<streams, sheet, topics, view>>,
         EmptyBeforePlaced', DecidedOnAPrefix',
         \A o \in OrderIds : placing'[o] = "appended" => placing[o] = "appended",
         \A c \in Commands : phase'[c] = "appended" => phase[c] = "appended"
  PROVE  Inv'
<1>1. ViewIsHistory'
  BY DEF Inv, ViewIsHistory
<1>2. PlacedIsLogged' /\ ChangeIsLogged' /\ PublishedIsLogged'
  BY DEF Inv, PlacedIsLogged, ChangeIsLogged, PublishedIsLogged, Published, Occurs
<1> QED
  BY <1>1, <1>2 DEF Inv

LEMMA NeighboursInv == ASSUME Inv, HearUser \/ \E n \in Prices : HearPrice(n) PROVE Inv'
<1> USE DEF log, handlers, querySide
<1>1. Types'
  BY CqrsAssumption DEF HearUser, HearPrice, Inv, Types, neighbours
<1>2. UNCHANGED <<streams, sheet, placing, phase, seen, topics, view>>
  BY DEF HearUser, HearPrice
<1>3. EmptyBeforePlaced' /\ DecidedOnAPrefix'
  BY <1>2 DEF Inv, EmptyBeforePlaced, DecidedOnAPrefix, SeenAccepts, Accepts
<1> QED
  BY <1>1, <1>2, <1>3, HandlersOnly

\* POST /orders up to its append, and a client that gives up.
LEMMA PlacingInv ==
  ASSUME Inv, NEW o \in OrderIds, EnterPlace(o) \/ HangUpPlace(o)
  PROVE  Inv'
<1> USE DEF log, neighbours, querySide, handlers
<1>1. /\ UNCHANGED <<rate, streams, sheet, topics, view, phase, seen>>
      /\ placing' = [placing EXCEPT ![o] = placing'[o]]
      /\ placing'[o] \in {"pricing", "refused", "abandoned"}
      /\ placing'[o] \in Unplaced => placing[o] \in Unplaced
  BY DEF EnterPlace, HangUpPlace, Inv, Types, Unplaced
<1>2. Types'
  BY <1>1 DEF Inv, Types, Unplaced
<1>3. EmptyBeforePlaced' /\ DecidedOnAPrefix'
  BY <1>1 DEF Inv, Types, EmptyBeforePlaced, DecidedOnAPrefix, SeenAccepts, Accepts
<1>4. \A q \in OrderIds : placing'[q] = "appended" => placing[q] = "appended"
  BY <1>1 DEF Inv, Types
<1> QED
  BY <1>1, <1>2, <1>3, <1>4, HandlersOnly

\* The sheet is only written while the log is empty.
LEMMA PricingInv == ASSUME Inv, NEW o \in OrderIds, PricePlace(o) PROVE Inv'
<1> USE DEF log, neighbours, querySide, handlers
<1>1. /\ UNCHANGED <<rate, streams, topics, view, phase, seen>>
      /\ placing' = [placing EXCEPT ![o] = placing'[o]]
      /\ placing[o] = "pricing" /\ placing'[o] \in {"priced", "refused"}
      /\ sheet' = [sheet EXCEPT ![o] = rate]
  BY DEF PricePlace, Inv, Types
<1>2. Types'
  BY <1>1 DEF Inv, Types, Unplaced
<1>3. EmptyBeforePlaced' /\ DecidedOnAPrefix'
  BY <1>1 DEF Inv, Types, EmptyBeforePlaced, DecidedOnAPrefix, SeenAccepts, Accepts, Unplaced
<1>4. PlacedIsLogged' /\ ChangeIsLogged' /\ PublishedIsLogged'
  <2>1. \A q \in OrderIds : placing'[q] = "appended" => placing[q] = "appended"
    BY <1>1 DEF Inv, Types
  <2> QED
    BY <1>1, <2>1 DEF Inv, PlacedIsLogged, ChangeIsLogged, PublishedIsLogged, Published, Occurs
<1>5. streams[o] = <<>> /\ view[o] = Unlisted
  BY <1>1 DEF Inv, EmptyBeforePlaced, Unplaced, ViewIsHistory
<1>6. ViewIsHistory'
  BY <1>1, <1>5 DEF Inv, Types, ViewIsHistory, Unlisted
<1> QED
  BY <1>2, <1>3, <1>4, <1>6 DEF Inv

\* The first event of a log.
LEMMA AppendPlacedInv == ASSUME Inv, NEW o \in OrderIds, AppendPlaced(o) PROVE Inv'
<1> USE DEF neighbours, querySide
<1>1. /\ placing[o] = "priced" /\ streams[o] = <<>>
      /\ placing' = [placing EXCEPT ![o] = "appended"]
      /\ AppendEvent(o, "Placed")
      /\ UNCHANGED <<rate, sheet, phase, seen, topics, view>>
  BY DEF AppendPlaced, Inv, EmptyBeforePlaced, Unplaced
<1>2. "Placed" \in Events /\ Types
  BY DEF Events, Inv
<1>3. /\ ViewIsHistory'
      /\ \A c \in Commands : SeenAccepts(c) => SeenAccepts(c)'
  BY <1>1, <1>2, AppendKeeps
<1>4. /\ streams' \in [OrderIds -> Seq(Events)]
      /\ \A q \in OrderIds : q # o => streams'[q] = streams[q]
      /\ \A q \in OrderIds, e \in Events : Occurs(q, e) => Occurs(q, e)'
      /\ Occurs(o, "Placed")'
  <2>1. streams' = [streams EXCEPT ![o] = Append(@, "Placed")]
    BY <1>1 DEF AppendEvent
  <2> QED
    BY <1>2, <2>1, LogGrows
<1>5. Types'
  BY <1>1, <1>4 DEF Inv, Types
<1>6. EmptyBeforePlaced'
  BY <1>1, <1>4 DEF Inv, Types, EmptyBeforePlaced, Unplaced
<1>7. DecidedOnAPrefix'
  BY <1>1, <1>3 DEF Inv, DecidedOnAPrefix
<1>8. PlacedIsLogged'
  BY <1>1, <1>2, <1>4 DEF Inv, Types, PlacedIsLogged
<1>9. ChangeIsLogged'
  BY <1>1, <1>4, CommandTypes DEF Inv, ChangeIsLogged
<1>10. PublishedIsLogged'
  BY <1>1, <1>4 DEF Inv, PublishedIsLogged, Published
<1> QED
  BY <1>3, <1>5, <1>6, <1>7, <1>8, <1>9, <1>10 DEF Inv

\* Load decides on the last event of the log and points at it.
LEMMA LoadInv == ASSUME Inv, NEW c \in Commands, Load(c) PROVE Inv'
<1> USE DEF log, neighbours, querySide
<1> DEFINE o == Command[c].order
           s == streams[o]
<1>1. /\ UNCHANGED <<rate, streams, sheet, placing, topics, view>>
      /\ phase' = [phase EXCEPT ![c] = phase'[c]]
      /\ phase'[c] \in {"not found", "invalid", "decided"}
      /\ seen' = [seen EXCEPT ![c] = Len(s)]
      /\ phase'[c] = "decided" => s # <<>> /\ Fold(s) \in Accepts(Command[c].event)
  BY DEF Load, History, Inv, Types
<1>2. s \in Seq(Events) /\ Len(s) \in Nat
  <2>1. s \in Seq(Events)
    BY CommandTypes DEF Inv, Types
  <2>2. \A t \in Seq(Events) : Len(t) \in Nat
    OBVIOUS
  <2> QED
    BY <2>1, <2>2
<1>3. Types'
  BY <1>1, <1>2 DEF Inv, Types
<1>4. EmptyBeforePlaced'
  BY <1>1 DEF Inv, EmptyBeforePlaced
<1>5. DecidedOnAPrefix'
  <2> SUFFICES ASSUME NEW d \in Commands, phase'[d] = "decided" PROVE SeenAccepts(d)'
    BY DEF DecidedOnAPrefix
  <2>1. CASE d # c
    BY <1>1, <2>1 DEF Inv, Types, DecidedOnAPrefix, SeenAccepts, Accepts
  <2>2. CASE d = c
    <3>1. s # <<>> /\ s[Len(s)] \in Accepts(Command[c].event)
      BY <1>1, <2>2 DEF Fold
    <3>2. Len(s) \in 1..Len(s)
      BY <1>2, <3>1
    <3>3. seen'[c] = Len(s) /\ streams'[o] = s
      BY <1>1 DEF Inv, Types
    <3> QED
      BY <2>2, <3>1, <3>2, <3>3 DEF SeenAccepts, Accepts
  <2> QED
    BY <2>1, <2>2
<1>6. \A d \in Commands : phase'[d] = "appended" => phase[d] = "appended"
  BY <1>1 DEF Inv, Types
<1> QED
  BY <1>1, <1>3, <1>4, <1>5, <1>6, HandlersOnly

\* Whatever has been appended since it was loaded, the event it was decided
\* on is still there.
LEMMA AppendDecidedInv == ASSUME Inv, NEW c \in Commands, AppendDecided(c) PROVE Inv'
<1> USE DEF neighbours, querySide
<1> DEFINE o == Command[c].order
           e == Command[c].event
<1>1. /\ phase[c] = "decided"
      /\ phase' = [phase EXCEPT ![c] = "appended"]
      /\ AppendEvent(o, e)
      /\ UNCHANGED <<rate, sheet, placing, seen, topics, view>>
  BY DEF AppendDecided
<1>2. o \in OrderIds /\ e \in Events /\ e # "Placed" /\ Types /\ SeenAccepts(c)
  BY <1>1, CommandTypes DEF Inv, DecidedOnAPrefix
<1>3. streams[o] # <<>>
  BY <1>2 DEF SeenAccepts
<1>4. /\ ViewIsHistory'
      /\ \A d \in Commands : SeenAccepts(d) => SeenAccepts(d)'
  BY <1>1, <1>2, AppendKeeps
<1>5. /\ streams' \in [OrderIds -> Seq(Events)]
      /\ \A q \in OrderIds : q # o => streams'[q] = streams[q]
      /\ \A q \in OrderIds, f \in Events : Occurs(q, f) => Occurs(q, f)'
      /\ Occurs(o, e)'
  <2>1. streams' = [streams EXCEPT ![o] = Append(@, e)]
    BY <1>1 DEF AppendEvent
  <2> QED
    BY <1>2, <2>1, LogGrows
<1>6. Types'
  BY <1>1, <1>5 DEF Inv, Types
<1>7. EmptyBeforePlaced'
  BY <1>1, <1>3, <1>5 DEF Inv, EmptyBeforePlaced
<1>8. DecidedOnAPrefix'
  BY <1>1, <1>4 DEF Inv, Types, DecidedOnAPrefix
<1>9. PlacedIsLogged'
  BY <1>1, <1>5 DEF Inv, PlacedIsLogged, Events
<1>10. ChangeIsLogged'
  BY <1>1, <1>5, CommandTypes DEF Inv, Types, ChangeIsLogged
<1>11. PublishedIsLogged'
  BY <1>1, <1>5 DEF Inv, PublishedIsLogged, Published
<1> QED
  BY <1>4, <1>6, <1>7, <1>8, <1>9, <1>10, <1>11 DEF Inv

\* An event that is published is in the log.
LEMMA PublishKeeps ==
  ASSUME Inv, NEW o \in OrderIds, NEW e \in Events, PublishEvent(o, e), Occurs(o, e),
         UNCHANGED streams
  PROVE  topics' \in [Events -> Seq(OrderIds)] /\ PublishedIsLogged'
<1>1. topics[e] \in Seq(OrderIds) /\ topics' = [topics EXCEPT ![e] = Append(@, o)]
  BY DEF PublishEvent, Inv, Types
<1>2. \A s \in Seq(OrderIds) :
        /\ Append(s, o) \in Seq(OrderIds)
        /\ \A i \in DOMAIN Append(s, o) : Append(s, o)[i] = o \/ \E j \in DOMAIN s : s[j] = Append(s, o)[i]
  OBVIOUS
<1>3. topics' \in [Events -> Seq(OrderIds)]
  BY <1>1, <1>2 DEF Inv, Types
<1>4. ASSUME NEW q \in OrderIds, NEW f \in Events, Published(q, f)' PROVE Occurs(q, f)'
  <2>1. CASE f # e
    BY <1>1, <1>4, <2>1 DEF Inv, Types, PublishedIsLogged, Published, Occurs
  <2>2. CASE f = e
    <3>1. topics'[e] = Append(topics[e], o)
      BY <1>1 DEF Inv, Types
    <3>2. q = o \/ Published(q, e)
      BY <1>1, <1>2, <1>4, <2>2, <3>1 DEF Published
    <3>3. Occurs(q, e)
      BY <3>2 DEF Inv, PublishedIsLogged
    <3> QED
      BY <2>2, <3>3 DEF Occurs
  <2> QED
    BY <2>1, <2>2
<1> QED
  BY <1>3, <1>4 DEF PublishedIsLogged

\* A step that leaves the logs, the sheets and the view alone.
LEMMA LogsStay ==
  ASSUME Inv, Types', UNCHANGED <<streams, sheet, view>>
  PROVE  ViewIsHistory'
BY DEF Inv, ViewIsHistory

LEMMA PublishPlacedInv == ASSUME Inv, NEW o \in OrderIds, PublishPlaced(o) PROVE Inv'
<1> USE DEF neighbours, log
<1>1. /\ placing[o] = "appended"
      /\ placing' = [placing EXCEPT ![o] = "answered"]
      /\ PublishEvent(o, "Placed")
      /\ UNCHANGED <<rate, streams, sheet, phase, seen, view>>
  BY DEF PublishPlaced
<1>2. "Placed" \in Events /\ Occurs(o, "Placed")
  BY <1>1 DEF Inv, PlacedIsLogged, Events
<1>3. topics' \in [Events -> Seq(OrderIds)] /\ PublishedIsLogged'
  BY <1>1, <1>2, PublishKeeps
<1>4. Types'
  BY <1>1, <1>3 DEF Inv, Types
<1>5. EmptyBeforePlaced' /\ DecidedOnAPrefix'
  BY <1>1 DEF Inv, Types, EmptyBeforePlaced, DecidedOnAPrefix, SeenAccepts, Accepts, Unplaced
<1>6. PlacedIsLogged' /\ ChangeIsLogged'
  <2>1. \A q \in OrderIds : placing'[q] = "appended" => placing[q] = "appended"
    BY <1>1 DEF Inv, Types
  <2> QED
    BY <1>1, <2>1 DEF Inv, PlacedIsLogged, ChangeIsLogged, Occurs
<1> QED
  BY <1>1, <1>3, <1>4, <1>5, <1>6, LogsStay DEF Inv

LEMMA PublishAppendedInv == ASSUME Inv, NEW c \in Commands, PublishAppended(c) PROVE Inv'
<1> USE DEF neighbours, log
<1>1. /\ phase[c] = "appended"
      /\ phase' = [phase EXCEPT ![c] = "answered"]
      /\ PublishEvent(Command[c].order, Command[c].event)
      /\ UNCHANGED <<rate, streams, sheet, placing, seen, view>>
  BY DEF PublishAppended
<1>2. Occurs(Command[c].order, Command[c].event)
  BY <1>1 DEF Inv, ChangeIsLogged
<1>3. topics' \in [Events -> Seq(OrderIds)] /\ PublishedIsLogged'
  BY <1>1, <1>2, CommandTypes, PublishKeeps
<1>4. Types'
  BY <1>1, <1>3 DEF Inv, Types
<1>5. EmptyBeforePlaced' /\ DecidedOnAPrefix'
  BY <1>1 DEF Inv, Types, EmptyBeforePlaced, DecidedOnAPrefix, SeenAccepts, Accepts
<1>6. PlacedIsLogged' /\ ChangeIsLogged'
  <2>1. \A d \in Commands : phase'[d] = "appended" => phase[d] = "appended"
    BY <1>1 DEF Inv, Types
  <2> QED
    BY <1>1, <2>1 DEF Inv, PlacedIsLogged, ChangeIsLogged, Occurs
<1> QED
  BY <1>1, <1>3, <1>4, <1>5, <1>6, LogsStay DEF Inv

LEMMA HangUpInv == ASSUME Inv, NEW c \in Commands, HangUp(c) PROVE Inv'
<1> USE DEF neighbours, log, querySide
<1>1. /\ phase' = [phase EXCEPT ![c] = "abandoned"]
      /\ UNCHANGED <<rate, streams, sheet, placing, seen, topics, view>>
  BY DEF HangUp
<1>2. Types'
  BY <1>1 DEF Inv, Types
<1>3. EmptyBeforePlaced' /\ DecidedOnAPrefix'
  BY <1>1 DEF Inv, Types, EmptyBeforePlaced, DecidedOnAPrefix, SeenAccepts, Accepts
<1>4. \A d \in Commands : phase'[d] = "appended" => phase[d] = "appended"
  BY <1>1 DEF Inv, Types
<1> QED
  BY <1>1, <1>2, <1>3, <1>4, HandlersOnly

\* What the query side takes from a subject is in the log.
LEMMA TakeKeeps ==
  ASSUME Inv, NEW e \in Events, TakeTopic(e)
  PROVE  /\ topics' \in [Events -> Seq(OrderIds)]
         /\ Head(topics[e]) \in OrderIds
         /\ Occurs(Head(topics[e]), e)
         /\ PublishedIsLogged'
         /\ UNCHANGED <<rate, streams, sheet, placing, phase, seen>>
<1> DEFINE s == topics[e]
<1>1. s \in Seq(OrderIds) /\ s # <<>> /\ topics' = [topics EXCEPT ![e] = Tail(@)]
  BY DEF TakeTopic, Inv, Types
<1>2. \A t \in Seq(OrderIds) : t # <<>> =>
        /\ Tail(t) \in Seq(OrderIds) /\ Head(t) \in OrderIds
        /\ \E i \in DOMAIN t : t[i] = Head(t)
        /\ \A i \in DOMAIN Tail(t) : \E j \in DOMAIN t : t[j] = Tail(t)[i]
  <2> SUFFICES ASSUME NEW t \in Seq(OrderIds), t # <<>>
               PROVE  /\ Tail(t) \in Seq(OrderIds) /\ Head(t) \in OrderIds
                      /\ \E i \in DOMAIN t : t[i] = Head(t)
                      /\ \A i \in DOMAIN Tail(t) : \E j \in DOMAIN t : t[j] = Tail(t)[i]
    OBVIOUS
  <2>1. Tail(t) \in Seq(OrderIds) /\ Head(t) \in OrderIds
    OBVIOUS
  <2>2. 1 \in DOMAIN t /\ t[1] = Head(t)
    OBVIOUS
  <2>3. ASSUME NEW i \in DOMAIN Tail(t) PROVE i + 1 \in DOMAIN t /\ t[i + 1] = Tail(t)[i]
    BY <2>3
  <2> QED
    BY <2>1, <2>2, <2>3
<1>3. topics' \in [Events -> Seq(OrderIds)]
  BY <1>1, <1>2 DEF Inv, Types
<1>4. Head(s) \in OrderIds /\ Occurs(Head(s), e)
  <2>1. Head(s) \in OrderIds /\ Published(Head(s), e)
    BY <1>1, <1>2 DEF Published
  <2> QED
    BY <2>1 DEF Inv, PublishedIsLogged
<1>5. ASSUME NEW q \in OrderIds, NEW f \in Events, Published(q, f)' PROVE Published(q, f)
  <2>1. CASE f # e
    BY <1>1, <1>5, <2>1 DEF Inv, Types, Published
  <2>2. CASE f = e
    <3>1. topics'[e] = Tail(s)
      BY <1>1 DEF Inv, Types
    <3> QED
      BY <1>1, <1>2, <1>5, <2>2, <3>1 DEF Published
  <2> QED
    BY <2>1, <2>2
<1>6. UNCHANGED <<rate, streams, sheet, placing, phase, seen>>
  BY DEF TakeTopic, neighbours, log, handlers
<1>7. PublishedIsLogged'
  BY <1>5, <1>6 DEF Inv, PublishedIsLogged, Occurs
<1> QED
  BY <1>3, <1>4, <1>6, <1>7

\* A step of the query side that changes at most what it lists of one order.
LEMMA ViewKeeps ==
  ASSUME Inv, NEW o \in OrderIds, topics' \in [Events -> Seq(OrderIds)], PublishedIsLogged',
         UNCHANGED <<rate, streams, sheet, placing, phase, seen>>,
         NEW row \in [status : Events \cup {"none"}, price : Nat],
         view' = [view EXCEPT ![o] = row],
         row # Unlisted => row.price = sheet[o] /\ Occurs(o, row.status)
  PROVE  Inv'
<1>1. Types'
  BY DEF Inv, Types
<1>2. EmptyBeforePlaced' /\ DecidedOnAPrefix' /\ PlacedIsLogged' /\ ChangeIsLogged'
  BY DEF Inv, EmptyBeforePlaced, DecidedOnAPrefix, PlacedIsLogged, ChangeIsLogged,
     SeenAccepts, Occurs, Accepts
<1>3. ViewIsHistory'
  BY DEF Inv, Types, ViewIsHistory, Occurs, Unlisted
<1> QED
  BY <1>1, <1>2, <1>3 DEF Inv

LEMMA ConsumePlacedInv == ASSUME Inv, ConsumePlaced PROVE Inv'
<1> DEFINE o == Head(topics["Placed"])
           row == [status |-> "Placed", price |-> sheet[o]]
<1>1. TakeTopic("Placed") /\ view' = [view EXCEPT ![o] = row] /\ "Placed" \in Events
  BY DEF ConsumePlaced, InsertPlaced, Events
<1>2. /\ topics' \in [Events -> Seq(OrderIds)] /\ o \in OrderIds /\ Occurs(o, "Placed")
      /\ PublishedIsLogged' /\ UNCHANGED <<rate, streams, sheet, placing, phase, seen>>
  BY <1>1, TakeKeeps
<1>3. row \in [status : Events \cup {"none"}, price : Nat]
  BY <1>1, <1>2 DEF Inv, Types
<1>4. row.price = sheet[o] /\ Occurs(o, row.status)
  BY <1>2
<1> HIDE DEF row, o
<1> QED
  BY <1>1, <1>2, <1>3, <1>4, ViewKeeps

LEMMA ConsumeChangeInv == ASSUME Inv, NEW e \in Events, ConsumeChange(e) PROVE Inv'
<1> DEFINE o == Head(topics[e])
           row == view'[o]
<1>1. TakeTopic(e) /\ SetStatus(o, e)
  BY DEF ConsumeChange
<1>2. /\ topics' \in [Events -> Seq(OrderIds)] /\ o \in OrderIds /\ Occurs(o, e)
      /\ PublishedIsLogged' /\ UNCHANGED <<rate, streams, sheet, placing, phase, seen>>
  BY <1>1, TakeKeeps
<1>3. view[o] \in [status : Events \cup {"none"}, price : Nat]
  BY <1>2 DEF Inv, Types
<1>4. /\ view' = [view EXCEPT ![o] = row]
      /\ row \in [status : Events \cup {"none"}, price : Nat]
      /\ row # Unlisted => row.price = sheet[o] /\ Occurs(o, row.status)
  <2>1. CASE view[o] # Unlisted /\ view' = [view EXCEPT ![o].status = e]
    <3>1. row = [view[o] EXCEPT !.status = e] /\ view' = [view EXCEPT ![o] = row]
      BY <1>2, <2>1 DEF Inv, Types
    <3>2. view[o].price = sheet[o]
      BY <1>2, <2>1 DEF Inv, ViewIsHistory
    <3>3. row.status = e /\ row.price = view[o].price /\ row \in [status : Events \cup {"none"}, price : Nat]
      BY <1>3, <3>1
    <3> QED
      BY <1>2, <3>1, <3>2, <3>3
  <2>2. CASE view[o] = Unlisted /\ view' = view
    BY <1>2, <1>3, <2>2 DEF Inv, Types
  <2> QED
    BY <1>1, <2>1, <2>2 DEF SetStatus
<1> HIDE DEF row, o
<1> QED
  BY <1>2, <1>4, ViewKeeps

LEMMA RestartQueryInv == ASSUME Inv, RestartQuery PROVE Inv'
<1> USE DEF neighbours, log, handlers
<1>1. /\ topics' = [e \in Events |-> <<>>] /\ view' = [o \in OrderIds |-> Unlisted]
      /\ UNCHANGED <<rate, streams, sheet, placing, phase, seen>>
  BY DEF RestartQuery
<1>2. Types'
  <2>1. [e \in Events |-> <<>>] \in [Events -> Seq(OrderIds)]
    OBVIOUS
  <2>2. Unlisted \in [status : Events \cup {"none"}, price : Nat]
    BY DEF Unlisted
  <2> QED
    BY <1>1, <2>1, <2>2 DEF Inv, Types
<1>3. EmptyBeforePlaced' /\ DecidedOnAPrefix' /\ PlacedIsLogged' /\ ChangeIsLogged'
  BY <1>1 DEF Inv, EmptyBeforePlaced, DecidedOnAPrefix, PlacedIsLogged, ChangeIsLogged,
     SeenAccepts, Occurs, Accepts
<1>4. PublishedIsLogged' /\ ViewIsHistory'
  BY <1>1 DEF PublishedIsLogged, Published, ViewIsHistory
<1> QED
  BY <1>2, <1>3, <1>4 DEF Inv

LEMMA NextInv == Inv /\ [CqrsNext]_cqrsVars => Inv'
<1> SUFFICES ASSUME Inv, [CqrsNext]_cqrsVars PROVE Inv'
  OBVIOUS
<1>1. CASE HearUser \/ \E n \in Prices : HearPrice(n)
  BY <1>1, NeighboursInv
<1>2. ASSUME NEW o \in OrderIds, PlaceHandler(o) \/ HangUpPlace(o) PROVE Inv'
  BY <1>2, PlacingInv, PricingInv, AppendPlacedInv, PublishPlacedInv DEF PlaceHandler
<1>3. ASSUME NEW c \in Commands, CommandHandler(c) \/ HangUp(c) PROVE Inv'
  BY <1>3, LoadInv, AppendDecidedInv, PublishAppendedInv, HangUpInv
     DEF CommandHandler, Pay, Ship, Cancel, Transition
<1>4. CASE Query \/ RestartQuery
  BY <1>4, ConsumePlacedInv, ConsumeChangeInv, RestartQueryInv DEF Query
<1>5. CASE UNCHANGED cqrsVars
  <2>1. UNCHANGED <<rate, streams, sheet, placing, phase, seen, topics, view>>
    BY <1>5 DEF cqrsVars, neighbours, log, handlers, querySide
  <2>2. Types'
    BY <2>1 DEF Inv, Types
  <2>3. EmptyBeforePlaced' /\ DecidedOnAPrefix'
    BY <2>1 DEF Inv, EmptyBeforePlaced, DecidedOnAPrefix, SeenAccepts, Accepts
  <2> QED
    BY <2>1, <2>2, <2>3, HandlersOnly
<1> QED
  BY <1>1, <1>2, <1>3, <1>4, <1>5 DEF CqrsNext

THEOREM Invariance == CqrsSpec => []Inv
BY InitInv, NextInv, PTL DEF CqrsSpec

-----------------------------------------------------------------------------
(* The properties *)

\* What the query side lists of an order is from the order's log.
THEOREM ViewsAreHistory == CqrsSpec => []ViewIsHistory
<1>1. Inv => ViewIsHistory
  BY DEF Inv
<1> QED
  BY <1>1, Invariance, PTL

\* Only two steps touch the logs.
LEMMA WhoAppends ==
  ASSUME [CqrsNext]_cqrsVars
  PROVE  \/ UNCHANGED streams
         \/ \E o \in OrderIds : AppendPlaced(o)
         \/ \E c \in Commands : AppendDecided(c)
<1> USE DEF neighbours, log, handlers, querySide
<1>1. ASSUME NEW o \in OrderIds, PlaceHandler(o) \/ HangUpPlace(o)
      PROVE  UNCHANGED streams \/ AppendPlaced(o)
  BY <1>1 DEF PlaceHandler, EnterPlace, PricePlace, PublishPlaced, HangUpPlace
<1>2. ASSUME NEW c \in Commands, CommandHandler(c) \/ HangUp(c)
      PROVE  UNCHANGED streams \/ AppendDecided(c)
  BY <1>2 DEF CommandHandler, Pay, Ship, Cancel, Transition, Load, PublishAppended, HangUp
<1>3. ASSUME \/ HearUser \/ Query \/ RestartQuery \/ UNCHANGED cqrsVars
             \/ \E n \in Prices : HearPrice(n)
      PROVE  UNCHANGED streams
  BY <1>3 DEF HearUser, HearPrice, Query, ConsumePlaced, ConsumeChange, TakeTopic, RestartQuery, cqrsVars
<1> QED
  BY <1>1, <1>2, <1>3 DEF CqrsNext

\* The event a command loaded last is what its prefix folds to.
LEMMA PrefixAccepts ==
  ASSUME Inv, NEW c \in Commands, SeenAccepts(c)
  PROVE  Fold(SubSeq(streams[Command[c].order], 1, seen[c])) \in Lifecycle!Before(Command[c].event)
<1> DEFINE s == streams[Command[c].order]
           n == seen[c]
<1>1. s \in Seq(Events) /\ n \in 1..Len(s) /\ s[n] \in Accepts(Command[c].event)
  BY CommandTypes DEF SeenAccepts, Inv, Types
<1>2. Accepts(Command[c].event) = Lifecycle!Before(Command[c].event)
  BY CommandTypes DEF Accepts, Lifecycle!Before, Events
<1>3. Len(SubSeq(s, 1, n)) = n /\ SubSeq(s, 1, n)[n] = s[n] /\ n # 0
  <2> HIDE DEF s, n
  <2> QED
    BY <1>1
<1>4. SubSeq(s, 1, n) # <<>>
  <2> HIDE DEF s, n
  <2> QED
    BY <1>3
<1>5. Fold(SubSeq(s, 1, n)) = s[n]
  BY <1>3, <1>4 DEF Fold
<1> QED
  BY <1>1, <1>2, <1>5

\* A step that lengthens a log is a placement, or a command whose prefix
\* allows its event.
LEMMA StepIsLegal ==
  ASSUME Inv, [CqrsNext]_cqrsVars, NEW o \in OrderIds, streams'[o] # streams[o]
  PROVE  \/ streams[o] = <<>> /\ streams'[o] = <<"Placed">>
         \/ \E c \in Commands :
              /\ phase[c] = "decided" /\ phase'[c] = "appended"
              /\ Command[c].order = o /\ streams'[o] = Append(streams[o], Command[c].event)
              /\ seen[c] \in 1..Len(streams[o])
              /\ Fold(SubSeq(streams[o], 1, seen[c])) \in Lifecycle!Before(Command[c].event)
<1>1. ASSUME NEW q \in OrderIds, AppendPlaced(q)
      PROVE  streams[o] = <<>> /\ streams'[o] = <<"Placed">>
  <2>1. /\ streams[q] = <<>>
        /\ streams' = [streams EXCEPT ![q] = Append(@, "Placed")]
    BY <1>1 DEF AppendPlaced, AppendEvent, Inv, EmptyBeforePlaced, Unplaced
  <2>2. q = o
    BY <2>1 DEF Inv, Types
  <2>3. Append(<<>>, "Placed") = <<"Placed">>
    OBVIOUS
  <2> QED
    BY <2>1, <2>2, <2>3 DEF Inv, Types
<1>2. ASSUME NEW c \in Commands, AppendDecided(c)
      PROVE  /\ phase[c] = "decided" /\ phase'[c] = "appended"
             /\ Command[c].order = o /\ streams'[o] = Append(streams[o], Command[c].event)
             /\ seen[c] \in 1..Len(streams[o])
             /\ Fold(SubSeq(streams[o], 1, seen[c])) \in Lifecycle!Before(Command[c].event)
  <2>1. /\ phase[c] = "decided" /\ phase'[c] = "appended" /\ SeenAccepts(c)
        /\ streams' = [streams EXCEPT ![Command[c].order] = Append(@, Command[c].event)]
    BY <1>2 DEF AppendDecided, AppendEvent, Inv, Types, DecidedOnAPrefix
  <2>2. Command[c].order = o
    BY <2>1, CommandTypes DEF Inv, Types
  <2> QED
    BY <2>1, <2>2, PrefixAccepts DEF SeenAccepts, Inv, Types
<1> QED
  BY <1>1, <1>2, WhoAppends

\* However commands overlap, each appends what the lifecycle allows after the
\* prefix it loaded, for any orders and commands.
THEOREM EventsWereLegal == CqrsSpec => EveryEventWasLegal
<1>1. Inv /\ [CqrsNext]_cqrsVars =>
        [\A o \in OrderIds : streams'[o] # streams[o] =>
           \/ streams[o] = <<>> /\ streams'[o] = <<"Placed">>
           \/ \E c \in Commands :
                /\ phase[c] = "decided" /\ phase'[c] = "appended"
                /\ Command[c].order = o /\ streams'[o] = Append(streams[o], Command[c].event)
                /\ seen[c] \in 1..Len(streams[o])
                /\ Fold(SubSeq(streams[o], 1, seen[c])) \in Lifecycle!Before(Command[c].event)]_streams
  BY StepIsLegal
<1> QED
  BY <1>1, Invariance, PTL DEF CqrsSpec, EveryEventWasLegal

\* A step that appends to a log takes its order where a command may take it.
LEMMA StepImplements ==
  ASSUME Inv, [CqrsNext]_cqrsVars
  PROVE  \/ StaleAppend \/ Lifecycle!Next
         \/ UNCHANGED [o \in OrderIds |-> Fold(streams[o])]
<1> USE DEF neighbours, log, handlers, querySide
<1> DEFINE status == [o \in OrderIds |-> Fold(streams[o])]
<1>1. ASSUME NEW o \in OrderIds, NEW e \in Events, AppendEvent(o, e), Fold(streams[o]) \in Lifecycle!Before(e)
      PROVE  Lifecycle!Next
  <2>1. streams' = [streams EXCEPT ![o] = Append(@, e)] /\ Types
    BY <1>1 DEF AppendEvent, Inv
  <2>2. /\ \A q \in OrderIds : q # o => streams'[q] = streams[q]
        /\ Len(streams'[o]) = Len(streams[o]) + 1 /\ Len(streams[o]) \in Nat
        /\ streams'[o][Len(streams[o]) + 1] = e
    BY <2>1, LogGrows
  <2>3. streams'[o] # <<>>
    BY <2>2
  <2>4. Fold(streams'[o]) = e
    BY <2>2, <2>3 DEF Fold
  <2>5. status' = [status EXCEPT ![o] = e]
    BY <2>2, <2>4
  <2> QED
    BY <1>1, <2>5 DEF Lifecycle!Next, Lifecycle!Become, Lifecycle!Statuses, Events
<1>2. ASSUME NEW o \in OrderIds, AppendPlaced(o) PROVE Lifecycle!Next
  <2>1. streams[o] = <<>> /\ AppendEvent(o, "Placed") /\ "Placed" \in Events
    BY <1>2 DEF AppendPlaced, Inv, EmptyBeforePlaced, Unplaced, Events
  <2>2. Fold(streams[o]) \in Lifecycle!Before("Placed")
    BY <2>1 DEF Fold, Lifecycle!Before
  <2> QED
    BY <1>1, <2>1, <2>2
<1>3. ASSUME NEW c \in Commands, AppendDecided(c) PROVE StaleAppend \/ Lifecycle!Next
  <2>1. phase[c] = "decided" /\ phase'[c] = "appended"
    BY <1>3 DEF AppendDecided, Inv, Types
  <2>2. CASE seen[c] # Len(streams[Command[c].order])
    BY <2>1, <2>2 DEF StaleAppend
  <2>3. CASE seen[c] = Len(streams[Command[c].order])
    <3>1. SeenAccepts(c)
      BY <2>1 DEF Inv, DecidedOnAPrefix
    <3>2. streams[Command[c].order] # <<>>
      BY <3>1 DEF SeenAccepts
    <3>3. Fold(streams[Command[c].order]) \in Accepts(Command[c].event)
      BY <2>3, <3>1, <3>2 DEF SeenAccepts, Fold
    <3>4. Accepts(Command[c].event) = Lifecycle!Before(Command[c].event)
      BY CommandTypes DEF Accepts, Lifecycle!Before, Events
    <3>5. AppendEvent(Command[c].order, Command[c].event)
      BY <1>3 DEF AppendDecided
    <3> QED
      BY <1>1, <3>3, <3>4, <3>5, CommandTypes
  <2> QED
    BY <2>2, <2>3
<1>4. CASE UNCHANGED streams
  BY <1>4
<1> QED
  BY <1>2, <1>3, <1>4, WhoAppends

\* Stale appends apart, the logs implement the lifecycle of an order: what
\* append lacks is the expected version and nothing else.
THEOREM LogsImplementLifecycle == CqrsSpec => ImplementsLifecycle
<1>1. Inv /\ [CqrsNext]_cqrsVars =>
        [StaleAppend \/ Lifecycle!Next]_<<[o \in OrderIds |-> Fold(streams[o])]>>
  BY StepImplements
<1> QED
  BY <1>1, Invariance, PTL DEF CqrsSpec, ImplementsLifecycle
=============================================================================
