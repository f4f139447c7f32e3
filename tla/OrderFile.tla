------------------------------ MODULE OrderFile ------------------------------
(***************************************************************************)
(* src/hexagonal: orders kept by serve and by the cli, in a JSON file or   *)
(* (serve only) in memory.                                                 *)
(*                                                                         *)
(* insert reads the whole file, adds an order and writes it back under a   *)
(* mutex of the process.  A write truncates the file and then fills it, on *)
(* a blocking thread that goes on when the handler that waits for it is    *)
(* dropped, while the mutex is then free.  Every cli call is a process of  *)
(* its own.  get and all take no lock.                                     *)
(*                                                                         *)
(* The file is what a reader makes of it: the orders in it, or unsound     *)
(* (it does not parse: truncated, or one write over another).              *)
(***************************************************************************)
EXTENDS Naturals, FiniteSets

CONSTANTS Placements,       \* requests to place an order, each with its order
          ByCli,            \* those that come from the command line
          Unacceptable,     \* those place refuses: lines, quantity, user, product
          HangUpPoints,     \* where an insert may be when its client hangs up
          MaxDropped,       \* bound on requests whose client hangs up
          MaxCrashes,       \* bound on processes that die
          MaxDiskFailures   \* bound on reads and writes that fail

ASSUME OrderFileAssumption ==
  /\ ByCli \subseteq Placements /\ Unacceptable \subseteq Placements /\ "free" \notin Placements
  /\ HangUpPoints \subseteq {"inserting", "loading", "truncating", "writing"}
  /\ MaxDropped \in Nat /\ MaxCrashes \in Nat /\ MaxDiskFailures \in Nat

VARIABLES
  backend,                  \* "file" or "memory": what serve was started with
  memory,                   \* the orders of the in-memory repository
  content, sound,           \* the orders in the file; does it parse?
  mutex,                    \* serve's write_lock: a placement or "free"
  inserting,                \* [Placements -> how far it is]
  basis,                    \* [Placements -> the orders its insert has loaded]
  hungUp,                   \* placements whose client has gone
  shown,                    \* [Placements -> the last answer to GET /orders/:id]
  raced, damaged, wiped,    \* history: see RacesOf, Die and the properties
  crashes, diskFailures

store == <<memory, content, sound>>
fileVars == <<backend, store, mutex, inserting, basis, hungUp, shown, raced, damaged, wiped,
              crashes, diskFailures>>

\* bin/serve.rs: ORDERS_FILE decides.  A missing file is an empty store.
OrderFileInit ==
  /\ backend \in {"file", "memory"}
  /\ memory = {} /\ content = {} /\ sound = TRUE
  /\ mutex = "free"
  /\ inserting = [o \in Placements |-> "new"]
  /\ basis = [o \in Placements |-> {}]
  /\ hungUp = {}
  /\ shown = [o \in Placements |-> "none"]
  /\ raced = {} /\ damaged = FALSE /\ wiped = {}
  /\ crashes = 0 /\ diskFailures = 0

InMemory(o) == backend = "memory" /\ o \notin ByCli

\* Its insert has loaded the file and not yet written it back.
Midway(o) == inserting[o] \in {"truncating", "writing"}

To(o, where) == inserting' = [inserting EXCEPT ![o] = where]
Unlock(o) == mutex' = IF mutex = o THEN "free" ELSE mutex

-----------------------------------------------------------------------------
(* Placing an order *)

\* service.rs place, up to the insert: the tables behind its other two ports
\* never change.
PlaceOrder(o) ==
  /\ inserting[o] = "new"
  /\ To(o, IF o \in Unacceptable THEN "400" ELSE "inserting")
  /\ UNCHANGED <<backend, store, mutex, basis, hungUp, shown, raced, damaged, wiped, crashes, diskFailures>>

InsertInMemory(o) ==
  /\ InMemory(o) /\ inserting[o] = "inserting"
  /\ memory' = memory \cup {o}
  /\ To(o, "200")
  /\ UNCHANGED <<backend, content, sound, mutex, basis, hungUp, shown, raced, damaged, wiped, crashes, diskFailures>>

\* Mutant: insert takes no lock.
LockNothing(o) ==
  /\ ~InMemory(o) /\ inserting[o] = "inserting"
  /\ To(o, "loading")
  /\ UNCHANGED <<backend, store, mutex, basis, hungUp, shown, raced, damaged, wiped, crashes, diskFailures>>

\* A cli process has its mutex to itself.
LockFile(o) ==
  /\ ~InMemory(o) /\ inserting[o] = "inserting"
  /\ IF o \in ByCli THEN UNCHANGED mutex ELSE mutex = "free" /\ mutex' = o
  /\ To(o, "loading")
  /\ UNCHANGED <<backend, store, basis, hungUp, shown, raced, damaged, wiped, crashes, diskFailures>>

\* The reads of two inserts overlap where no mutex keeps them apart: one is
\* another process ("cli"), or its handler was dropped and its guard with it
\* while its write goes on ("dropped").
RacesOf(o) == {cause \in {"cli", "dropped"} :
                 \E p \in Placements \ {o} :
                   /\ Midway(p)
                   /\ IF cause = "cli" THEN {o, p} \cap ByCli # {} ELSE p \in hungUp}

\* Mutant: what does not parse counts as no orders.
LoadAnything(o) ==
  /\ inserting[o] = "loading"
  /\ basis' = [basis EXCEPT ![o] = content] /\ To(o, "truncating") /\ UNCHANGED mutex
  /\ raced' = raced \cup RacesOf(o)
  /\ UNCHANGED <<backend, store, hungUp, shown, damaged, wiped, crashes, diskFailures>>

\* load: a file that does not parse is Unavailable, and the guard drops.
LoadFile(o) ==
  /\ inserting[o] = "loading"
  /\ \/ sound /\ basis' = [basis EXCEPT ![o] = content] /\ To(o, "truncating") /\ UNCHANGED mutex
     \/ ~sound /\ To(o, "503") /\ Unlock(o) /\ UNCHANGED basis
  /\ raced' = raced \cup RacesOf(o)
  /\ UNCHANGED <<backend, store, hungUp, shown, damaged, wiped, crashes, diskFailures>>

TruncateFile(o) ==
  /\ inserting[o] = "truncating"
  /\ content' = {} /\ sound' = FALSE
  /\ To(o, "writing")
  /\ UNCHANGED <<backend, memory, mutex, basis, hungUp, shown, raced, damaged, wiped, crashes, diskFailures>>

\* store: the orders go into the file.  Over what another write has put there
\* since the truncation they may be too short to cover it.
WriteFile(o) ==
  /\ inserting[o] = "writing"
  /\ \/ content' = basis[o] \cup {o} /\ sound' = TRUE
     \/ sound /\ content' = {} /\ sound' = FALSE
  /\ To(o, IF o \in hungUp THEN "gone" ELSE "200")
  /\ Unlock(o)
  /\ UNCHANGED <<backend, memory, basis, hungUp, shown, raced, damaged, wiped, crashes, diskFailures>>

\* The read, the open or the write itself fails, all Unavailable: only the
\* last leaves something behind, a file that is truncated and not filled.
DiskFails(o) ==
  /\ diskFailures < MaxDiskFailures
  /\ diskFailures' = diskFailures + 1
  /\ inserting[o] \in {"loading", "truncating", "writing"}
  /\ To(o, IF o \in hungUp THEN "gone" ELSE "503")
  /\ Unlock(o)
  /\ damaged' = (damaged \/ inserting[o] = "writing")
  /\ UNCHANGED <<backend, store, basis, hungUp, shown, raced, wiped, crashes>>

-----------------------------------------------------------------------------
(* Hanging up and dying *)

\* The handler is dropped and its guard with it; the write goes on.
HangUpFile(o) ==
  /\ o \notin ByCli \cup hungUp
  /\ Cardinality(hungUp) < MaxDropped
  /\ inserting[o] \in HangUpPoints
  /\ hungUp' = hungUp \cup {o}
  /\ IF Midway(o) THEN UNCHANGED inserting ELSE To(o, "gone")
  /\ Unlock(o)
  /\ UNCHANGED <<backend, store, basis, shown, raced, damaged, wiped, crashes, diskFailures>>

\* The process that handles these dies; a file it has truncated stays so.
Die(those) ==
  /\ crashes < MaxCrashes
  /\ crashes' = crashes + 1
  /\ inserting' = [o \in Placements |->
       IF o \in those /\ (inserting[o] \in {"inserting", "loading"} \/ Midway(o)) THEN "gone" ELSE inserting[o]]
  /\ damaged' = (damaged \/ \E o \in those : inserting[o] = "writing")
  /\ UNCHANGED <<backend, content, sound, basis, hungUp, shown, raced, diskFailures>>

\* serve is started again, with the same backend.
ServeDies == /\ Die(Placements \ ByCli)
             /\ memory' = {} /\ wiped' = wiped \cup memory
             /\ mutex' = "free"

CliDies(o) == o \in ByCli /\ Midway(o) /\ Die({o}) /\ UNCHANGED <<memory, wiped, mutex>>

-----------------------------------------------------------------------------
(* Reading, without a lock *)

\* Whoever has an order's id has it from the answer to its placement.
CanAskFor == {o \in Placements : inserting[o] = "200"}

IsStored(o) == IF InMemory(o) THEN o \in memory ELSE o \in content

\* http.rs, console.rs: Unavailable, NotFound or the order.
AnswerFor(o) == IF ~InMemory(o) /\ ~sound THEN "503" ELSE IF IsStored(o) THEN "200" ELSE "404"

BesidesShown == <<backend, store, mutex, inserting, basis, hungUp, raced, damaged, wiped, crashes, diskFailures>>

GetPlaced(o) == /\ o \in CanAskFor
                /\ shown' = [shown EXCEPT ![o] = AnswerFor(o)]
                /\ UNCHANGED BesidesShown

ListPlaced == /\ CanAskFor # {}
              /\ shown' = [o \in Placements |-> IF o \in CanAskFor THEN AnswerFor(o) ELSE shown[o]]
              /\ UNCHANGED BesidesShown

OrderFileNext ==
  \/ \E o \in Placements :
       \/ PlaceOrder(o) \/ InsertInMemory(o) \/ LockFile(o) \/ LoadFile(o) \/ TruncateFile(o) \/ WriteFile(o)
       \/ DiskFails(o) \/ HangUpFile(o) \/ CliDies(o) \/ GetPlaced(o)
  \/ ServeDies \/ ListPlaced

-----------------------------------------------------------------------------
(* Properties *)

\* An acknowledged order is kept: the file holds it, and no GET ever says
\* that it is not found, or the file does not parse and every later insert is
\* refused, but never is it replaced by a shorter one that does.  The two
\* exceptions are an insert of a cli process that ran across another ("two
\* processes writing at once can clobber each other", README.md:209), and an
\* order in memory whose process has died.
KeptUnlessRaced ==
  \A o \in Placements : inserting[o] = "200" =>
    IF InMemory(o) THEN o \in memory \cup wiped /\ (shown[o] = "404" => o \in wiped)
    ELSE "cli" \in raced \/ ((sound => o \in content) /\ shown[o] # "404")

\* "with a mutex so two concurrent requests can't interleave" (repository.rs:
\* 44-46): what one request has stored and acknowledged, another request of
\* the same process does not write over.
MutexKeepsOrders ==
  ByCli = {} => \A o \in Placements :
    inserting[o] = "200" /\ ~InMemory(o) => (sound => o \in content) /\ shown[o] # "404"

\* A file that does not parse, which turns every call into a 503, is being
\* written at the moment, was left so by a death or a disk failure in the
\* middle of a write, or is one write over another.
UnreadableHasACause ==
  ~sound => damaged \/ raced # {} \/ \E o \in Placements : inserting[o] = "writing"
=============================================================================
