---------------------------- MODULE OrderReading ----------------------------
(***************************************************************************)
(* The scheduler's job order-lines of one account.  The channel lists the  *)
(* order lines changed since an instant, latest change first, by offset; a *)
(* line that changes while a window is read moves to the top, above the    *)
(* offset already reached.  A run reads at most MaxPages pages (one line   *)
(* each here), records what it read and saves its place: the start of the  *)
(* window, the cursor, the instant the reading of the window began, and    *)
(* the refusals of the cursor.  Runs fail, die, and may overlap.           *)
(***************************************************************************)
EXTENDS Integers, FiniteSets, FiniteSetsExt

CONSTANTS
  Runs,         \* processes that may run the job; they overlap when a lease lapsed
  Lines,        \* order lines: numbers, so that equal instants have an order
  None,         \* no cursor, no instant, no place
  Interval,     \* orderLinesEverySeconds
  Lookback,     \* orderLinesFirstLookbackSeconds
  MaxPages,     \* maxPages of a run
  DropAfter,    \* ORDER_CURSOR_DROP_AFTER_FAILURES
  MaxTime,      \* bound of the clock
  MaxChanges,   \* bound of changes of lines
  MaxFaults     \* bound of failures, of the channel and of runs

Instants == 0..MaxTime

(* What may be saved: a cursor is an offset in the window, and is saved    *)
(* with the instant at which the reading of the window began.              *)
Places ==
  {p \in [since: Instants, cursor: 0..Cardinality(Lines) \cup {None},
          readFrom: Instants \cup {None}, failures: 0..(DropAfter - 1)] :
     p.cursor # None => p.readFrom # None}

ASSUME OrderReadingAssumption ==
  /\ Lines \subseteq Nat /\ IsFiniteSet(Lines)
  /\ None \notin Nat /\ None \notin Places
  /\ Interval \in Nat /\ Lookback \in Nat
  /\ MaxPages \in Nat \ {0} /\ DropAfter \in Nat \ {0}
  /\ MaxTime \in Nat /\ MaxFaults \in Nat

VARIABLES
  now,
  changed,   \* instant of the last change of each line, None before the first
  version,   \* number of its changes
  recorded,  \* the latest version a run recorded
  place,     \* saved place: since, cursor, readFrom, failures
  expired,   \* the channel no longer accepts the saved cursor
  run,       \* state of each run
  first,     \* start of the first window
  faults

channel == <<now, changed, version>>
vars == <<channel, recorded, place, expired, run, first, faults>>

Less(a, b) == IF a > b THEN a - b ELSE 0

Place(since, cursor, readFrom, failures) ==
  [since |-> since, cursor |-> cursor, readFrom |-> readFrom, failures |-> failures]

Unread == [l \in Lines |-> 0]

(* A run at its beginning: it goes on from the cursor, if there is one.    *)
Begun(at, since, cursor, readFrom, failures) ==
  [at |-> at, since |-> since, cursor |-> cursor, readFrom |-> readFrom, failures |-> failures,
   offset |-> IF cursor # None THEN cursor ELSE 0, pages |-> 0, got |-> Unread, next |-> None]

Idle == Begun("idle", 0, None, 0, 0)

Init ==
  /\ now = 0
  /\ changed = [l \in Lines |-> None] /\ version = Unread
  /\ recorded = Unread
  /\ place = None /\ expired = FALSE
  /\ run = [r \in Runs |-> Idle]
  /\ first = None
  /\ faults = 0

-----------------------------------------------------------------------------
(* The channel *)

Tick ==
  /\ now < MaxTime
  /\ now' = now + 1
  /\ UNCHANGED <<changed, version, recorded, place, expired, run, first, faults>>

(* A line is ordered, shipped, cancelled or returned. *)
Change(l) ==
  /\ MapThenSumSet(LAMBDA k : version[k], Lines) < MaxChanges
  /\ version' = [version EXCEPT ![l] = @ + 1]
  /\ changed' = [changed EXCEPT ![l] = now]
  /\ UNCHANGED <<now, recorded, place, expired, run, first, faults>>

Window(since) == {l \in Lines : changed[l] # None /\ changed[l] >= since}

Above(l, since) ==
  {k \in Window(since) : changed[k] > changed[l] \/ (changed[k] = changed[l] /\ k > l)}

PageAt(since, offset) == {l \in Window(since) : Cardinality(Above(l, since)) = offset}

(* The channel may stop accepting a cursor it handed out. *)
Expire ==
  /\ faults < MaxFaults /\ ~expired
  /\ place # None /\ place.cursor # None
  /\ expired' = TRUE /\ faults' = faults + 1
  /\ UNCHANGED <<channel, recorded, place, run, first>>

-----------------------------------------------------------------------------
(* One run *)

FirstSince == Less(now, Lookback)

(* Without a place the first window is pinned before anything is read.     *)
(* Runs overlap here only once there is a place: two first runs that       *)
(* overlap may pin the later of their windows.                             *)
Begin(r) ==
  /\ run[r].at = "idle"
  /\ place = None => \A q \in Runs : run[q].at = "idle"
  /\ run' = [run EXCEPT ![r] =
       IF place = None
         THEN Begun("pin", FirstSince, None, now, 0)
         ELSE Begun("read", place.since, place.cursor,
                    IF place.cursor # None THEN place.readFrom ELSE now, place.failures)]
  /\ UNCHANGED <<channel, recorded, place, expired, first, faults>>

Pin(r) ==
  /\ run[r].at = "pin"
  /\ place' = Place(run[r].since, None, None, 0)
  /\ first' = run[r].since
  /\ run' = [run EXCEPT ![r].at = "read"]
  /\ UNCHANGED <<channel, recorded, expired, faults>>

Refused(r) == run[r].cursor # None /\ run[r].pages = 0 /\ expired

ReadPage(r) ==
  /\ run[r].at = "read" /\ run[r].pages < MaxPages /\ ~Refused(r)
  /\ \E l \in PageAt(run[r].since, run[r].offset) :
       run' = [run EXCEPT ![r].got[l] = version[l], ![r].offset = @ + 1, ![r].pages = @ + 1]
  /\ UNCHANGED <<channel, recorded, place, expired, first, faults>>

(* recordOrderLines and the recalculation; a line read again does no harm. *)
Record(r, next) ==
  /\ recorded' = [l \in Lines |->
       IF run[r].got[l] > recorded[l] THEN run[r].got[l] ELSE recorded[l]]
  /\ run' = [run EXCEPT ![r].at = "save", ![r].next = next]
  /\ UNCHANGED <<channel, place, expired, first>>

(* Mutant: the next window begins where the reading of this one ended.     *)
OnwardFromEnd(r) == Place(Less(now, Interval), None, None, 0)

(* The next window begins where the reading of this one began.             *)
Onward(r) == Place(Less(run[r].readFrom, Interval), None, None, 0)

(* Mutant: the cursor is saved one page ahead.                             *)
ContinueAhead(r) == Place(run[r].since, run[r].offset + 1, run[r].readFrom, 0)

Continue(r) == Place(run[r].since, run[r].offset, run[r].readFrom, 0)

ReadLast(r) ==
  /\ run[r].at = "read" /\ run[r].pages < MaxPages /\ ~Refused(r)
  /\ PageAt(run[r].since, run[r].offset) = {}
  /\ Record(r, Onward(r))
  /\ UNCHANGED faults

PageLimit(r) ==
  /\ run[r].at = "read" /\ run[r].pages = MaxPages
  /\ Record(r, Continue(r))
  /\ UNCHANGED faults

(* The channel fails in the middle of the window, or hands out a cursor it *)
(* handed out before: then the window is read again from its start.        *)
Interrupt(r) ==
  /\ faults < MaxFaults
  /\ run[r].at = "read" /\ run[r].pages > 0
  /\ \/ run[r].pages < MaxPages /\ Record(r, Continue(r))
     \/ Record(r, Place(run[r].since, None, None, 0))
  /\ faults' = faults + 1

(* Mutant: a refused cursor is never dropped.                              *)
AfterRefusalKeep(r) ==
  Place(run[r].since, run[r].offset, run[r].readFrom, run[r].failures + 1)

(* Mutant: refusals are not counted.                                       *)
AfterRefusalRetry(r) == Place(run[r].since, run[r].offset, run[r].readFrom, 0)

(* The first page fails: on a cursor the refusals are counted, and the     *)
(* cursor is dropped at the last of them; the window stays.                *)
AfterRefusal(r) ==
  IF run[r].failures + 1 >= DropAfter
    THEN Place(run[r].since, None, run[r].readFrom, 0)
    ELSE Place(run[r].since, run[r].offset, run[r].readFrom, run[r].failures + 1)

FirstPageFails(r) ==
  /\ run[r].at = "read" /\ run[r].pages = 0
  /\ IF Refused(r) THEN UNCHANGED faults ELSE faults < MaxFaults /\ faults' = faults + 1
  /\ run' = [run EXCEPT ![r] =
       IF @.cursor # None THEN [@ EXCEPT !.at = "save", !.next = AfterRefusal(r)] ELSE Idle]
  /\ UNCHANGED <<channel, recorded, place, expired, first>>

Save(r) ==
  /\ run[r].at = "save"
  /\ place' = run[r].next
  /\ expired' = (expired /\ place'.cursor # None)
  /\ run' = [run EXCEPT ![r] = Idle]
  /\ UNCHANGED <<channel, recorded, first, faults>>

Crash(r) ==
  /\ faults < MaxFaults
  /\ run[r].at # "idle"
  /\ faults' = faults + 1
  /\ run' = [run EXCEPT ![r] = Idle]
  /\ UNCHANGED <<channel, recorded, place, expired, first>>

RunStep(r) ==
  \/ Begin(r) \/ Pin(r) \/ ReadPage(r) \/ ReadLast(r) \/ PageLimit(r) \/ Save(r)
  \/ Refused(r) /\ FirstPageFails(r)

Next ==
  \/ Tick \/ Expire \/ \E l \in Lines : Change(l)
  \/ \E r \in Runs : RunStep(r) \/ Interrupt(r) \/ FirstPageFails(r) \/ Crash(r)

Spec == Init /\ [][Next]_vars

(* The scheduler starts the job again and again, and a live run goes on.   *)
FairSpec == Spec /\ \A r \in Runs : WF_vars(RunStep(r))

-----------------------------------------------------------------------------
RunStates ==
  [at: {"idle", "pin", "read", "save"}, since: Instants, readFrom: Instants,
   cursor: 0..Cardinality(Lines) \cup {None}, failures: 0..(DropAfter - 1),
   offset: 0..Cardinality(Lines), pages: 0..MaxPages, got: [Lines -> Nat],
   next: Places \cup {None}]

TypeOK ==
  /\ now \in Instants
  /\ changed \in [Lines -> Instants \cup {None}] /\ version \in [Lines -> Nat]
  /\ recorded \in [Lines -> Nat]
  /\ place \in Places \cup {None} /\ expired \in BOOLEAN
  /\ run \in [Runs -> RunStates]
  /\ first \in Instants \cup {None}
  /\ faults \in 0..MaxFaults

(* The window never moves past a change that was not recorded: every       *)
(* change before the saved start of the window, since the first window     *)
(* began, is recorded, whichever runs failed, died or overlapped.          *)
NothingLeftBehind ==
  place # None =>
    \A l \in Lines :
      changed[l] # None /\ changed[l] >= first /\ changed[l] < place.since
        => recorded[l] = version[l]

(* A cursor stands for what was read: every line of the window changed     *)
(* before the reading began and listed above the cursor is recorded.       *)
CursorIsEarned ==
  place # None /\ place.cursor # None =>
    \A l \in Window(place.since) :
      changed[l] < place.readFrom /\ Cardinality(Above(l, place.since)) < place.cursor
        => recorded[l] = version[l]

(* Every change of an order line in reach of the first window is recorded  *)
(* in the end, also when the channel forgets a cursor for good.            *)
EveryChangeIsRead ==
  \A l \in Lines :
    (first # None /\ changed[l] # None /\ changed[l] >= first) ~> recorded[l] = version[l]
=============================================================================
