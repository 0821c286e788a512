------------------------------ MODULE Scheduler ------------------------------
(***************************************************************************)
(* The scheduler of periodic jobs: several processes tick over one table   *)
(* of jobs.  A tick lists the jobs, claims a lease for each one that is    *)
(* due, runs it and records the result with its line of the journal.       *)
(* Every statement to the database is a step of its own; between two of    *)
(* them other processes run, time passes, leases expire and the process    *)
(* may stop.  The review of the lag that ends a tick is not modelled.      *)
(*                                                                         *)
(* The jobs are registered and stay: a tick's `ensure' and `prune' change  *)
(* nothing.  The unit of time is the shortest pause between two ticks of a *)
(* process (minSleepMs); how much longer it sleeps is left open.           *)
(***************************************************************************)
EXTENDS Integers, FiniteSets, Sequences

CONSTANTS
  Processes,   \* scheduler processes; each is an owner of leases
  Jobs,
  Interval,    \* time between two slots of a job
  Lease,       \* leaseSeconds
  MaxSlots,    \* maxSlotsPerTick
  AlertAfter,  \* failureAlertAfter
  RetryBase,   \* pause after a first failure: the interval (CHANNEL) or a minute (INTERNAL)
  RetryCap,    \* the longest pause
  MaxTime,     \* bound: the clock
  MaxRuns,     \* bound: recorded runs of a job
  MaxStops,    \* bound: processes that stop, or whose tick fails
  MaxLapses    \* bound: leases that expire under a process that still runs the job

None == -1
Nobody == "NOBODY"

ASSUME SchedulerAssumption ==
  /\ Interval \in Nat \ {0} /\ Lease \in Nat \ {0} /\ MaxSlots \in Nat \ {0}
  /\ AlertAfter \in Nat \ {0} /\ RetryBase \in Nat /\ RetryCap \in Nat
  /\ Nobody \notin Processes /\ Nobody \notin Jobs
  /\ MaxTime \in Nat /\ MaxRuns \in Nat /\ MaxStops \in Nat /\ MaxLapses \in Nat

VARIABLES
  now,       \* the clock of the database: slots, starts and leases go by it
  catchUp,   \* scheduled_job.catch_up
  job,       \* scheduled_job: next slot, lease, failures in a row
  log,       \* scheduled_job_run of a job; the last line holds last_outcome and last_error
  process,   \* where the tick of a process is, and what it has read
  told,      \* how often each alert was raised
  stops,
  lapses

vars == <<now, catchUp, job, log, process, told, stops, lapses>>

Times == 0..MaxTime
CatchUps == {"EVERY_SLOT", "LATEST"}
Outcomes == {"SUCCEEDED", "FAILED", "HOLDS_WINDOW"}  \* the last: a failure that keeps its window
JobRows == [due: Nat, owner: Processes \cup {Nobody}, until: Nat, failures: Nat]
Records == [slot: Nat, started: Times, finished: Times, outcome: Outcomes]

Failing(j) == [code |-> "SCHEDULER_JOB_FAILING", job |-> j]
LeaseLost(j) == [code |-> "SCHEDULER_LEASE_LOST", job |-> j]
Alerts == [code: {"SCHEDULER_JOB_FAILING", "SCHEDULER_LEASE_LOST"}, job: Jobs]

(* at, seen: the time of the tick and the due slots its list showed; todo: *)
(* the jobs still to look at; slots: how many runs of the current job; job,*)
(* slot, failures, started: the run, as it was claimed.                    *)
PCs == {"IDLE", "READY", "CLAIMING", "WORKING", "ALARMING"}
Ticks == [pc: PCs, at: Times \cup {None}, seen: [Jobs -> Nat \cup {None}], todo: SUBSET Jobs,
          slots: Nat, job: Jobs \cup {Nobody}, slot: Nat, failures: Nat, started: Times]

TypeOK ==
  /\ now \in Times
  /\ catchUp \in [Jobs -> CatchUps]
  /\ job \in [Jobs -> JobRows]
  /\ log \in [Jobs -> Seq(Records)]
  /\ process \in [Processes -> Ticks]
  /\ \A p \in Processes : process[p].pc \in {"WORKING", "ALARMING"} => process[p].job \in Jobs
  /\ told \in [Alerts -> Nat]
  /\ stops \in 0..MaxStops
  /\ lapses \in 0..MaxLapses

Idle == [pc |-> "IDLE", at |-> None, seen |-> [j \in Jobs |-> None], todo |-> {}, slots |-> 0,
         job |-> Nobody, slot |-> 0, failures |-> 0, started |-> 0]

Init ==
  /\ now = 0
  /\ catchUp \in [Jobs -> CatchUps]
  /\ job = [j \in Jobs |-> [due |-> 0, owner |-> Nobody, until |-> 0, failures |-> 0]]
  /\ log = [j \in Jobs |-> <<>>]
  /\ process = [p \in Processes |-> Idle]
  /\ told = [a \in Alerts |-> 0]
  /\ stops = 0 /\ lapses = 0

Larger(a, b) == IF a >= b THEN a ELSE b
Smaller(a, b) == IF a <= b THEN a ELSE b

(***************************************************************************)
(* When a job is due.                                                      *)
(***************************************************************************)
RetryDelay(failures) == Smaller(RetryBase * 2^(failures - 1), RetryCap)

(* dueOf: after a failure not before the pause has passed.                 *)
DueOf(j) ==
  LET last == log[j][Len(log[j])]
      delay == IF last.outcome = "HOLDS_WINDOW" THEN Interval ELSE RetryDelay(job[j].failures)
  IN IF log[j] = <<>> \/ last.outcome = "SUCCEEDED" THEN job[j].due
     ELSE Larger(job[j].due, last.finished + delay)

(* nextSlotAfter: the first slot later than `at'.                          *)
NextSlotAfter(slot, at) == slot + Interval * Larger(1, (at - slot) \div Interval + 1)

(* Mutants: the next slot of a job that runs late is not moved away; the   *)
(* slot of a failed run is given up.                                       *)
NextDueUnspaced(j, outcome, slot, at, started) ==
  IF outcome # "SUCCEEDED" THEN slot
  ELSE IF catchUp[j] = "EVERY_SLOT" THEN slot + Interval
  ELSE NextSlotAfter(slot, at)

NextDueAlways(j, outcome, slot, at, started) ==
  IF catchUp[j] = "EVERY_SLOT" THEN slot + Interval
  ELSE Larger(NextSlotAfter(slot, at), started + Interval)

NextDue(j, outcome, slot, at, started) ==
  IF outcome # "SUCCEEDED" THEN slot
  ELSE IF catchUp[j] = "EVERY_SLOT" THEN slot + Interval
  ELSE Larger(NextSlotAfter(slot, at), started + Interval)

(***************************************************************************)
(* A tick: lists, leases and runs.                                         *)
(***************************************************************************)
(* A lease that expires under a run: the heartbeat failed to renew it.     *)
Lapsing(p) ==
  LET j == process[p].job
  IN process[p].pc = "WORKING" /\ job[j].owner = p /\ job[j].until = now + 1

Tick ==
  /\ now < MaxTime
  /\ now' = now + 1
  /\ lapses' = lapses + (IF \E p \in Processes : Lapsing(p) THEN 1 ELSE 0)
  /\ lapses' <= MaxLapses
  /\ UNCHANGED <<catchUp, job, log, process, told, stops>>

Begin(p) ==
  /\ process[p].pc = "IDLE" /\ process[p].at < now
  /\ process' = [process EXCEPT ![p].pc = "READY", ![p].at = now]
  /\ UNCHANGED <<now, catchUp, job, log, told, stops, lapses>>

(* The end of a tick: the time of the next one counts from this one.      *)
Rest(p) == [Idle EXCEPT !.at = process[p].at]

Look(p) ==
  /\ process[p].pc = "READY"
  /\ LET due == {j \in Jobs : DueOf(j) <= process[p].at}
     IN process' = [process EXCEPT ![p] =
          IF due = {} THEN Rest(p)
          ELSE [@ EXCEPT !.pc = "CLAIMING", !.todo = due,
                         !.seen = [j \in Jobs |-> IF j \in due THEN job[j].due ELSE None]]]
  /\ UNCHANGED <<now, catchUp, job, log, told, stops, lapses>>

(* The job in hand: the current one while its slots go on, else the first. *)
InHand(p, j) ==
  /\ process[p].pc = "CLAIMING" /\ j \in process[p].todo
  /\ IF process[p].slots > 0 THEN j = process[p].job
     ELSE \A k \in process[p].todo : process[p].seen[j] <= process[p].seen[k]

Free(j) == job[j].owner = Nobody \/ job[j].until <= now

Leased(p, j) ==
  /\ job' = [job EXCEPT ![j].owner = p, ![j].until = now + Lease]
  /\ process' = [process EXCEPT
       ![p].pc = "WORKING", ![p].slots = @ + 1, ![p].job = j, ![p].slot = job[j].due,
       ![p].failures = job[j].failures, ![p].started = now]

(* Mutant: a lease is taken whoever holds it.                              *)
ClaimAnyway(p, j) ==
  /\ InHand(p, j) /\ job[j].due <= process[p].at /\ Len(log[j]) < MaxRuns
  /\ Leased(p, j)
  /\ UNCHANGED <<now, catchUp, log, told, stops, lapses>>

(* claim looks at the next slot and at the lease, not at the pause.        *)
Claim(p, j) ==
  /\ InHand(p, j) /\ job[j].due <= process[p].at /\ Len(log[j]) < MaxRuns
  /\ Free(j)
  /\ Leased(p, j)
  /\ UNCHANGED <<now, catchUp, log, told, stops, lapses>>

Done(p, j) ==
  IF process[p].todo = {j} THEN Rest(p)
  ELSE [process[p] EXCEPT !.pc = "CLAIMING", !.todo = @ \ {j}, !.slots = 0, !.job = Nobody,
                          !.slot = 0, !.failures = 0, !.started = 0]

(* The job is leased, or not due any more: it is left to the other process.*)
Skip(p, j) ==
  /\ InHand(p, j)
  /\ job[j].due > process[p].at \/ ~Free(j)
  /\ process' = [process EXCEPT ![p] = Done(p, j)]
  /\ UNCHANGED <<now, catchUp, job, log, told, stops, lapses>>

(* The heartbeat of a run.                                                 *)
Renew(p) ==
  /\ process[p].pc = "WORKING"
  /\ LET j == process[p].job IN
       /\ job[j].owner = p /\ job[j].until > now
       /\ job' = [job EXCEPT ![j].until = now + Lease]
  /\ UNCHANGED <<now, catchUp, log, process, told, stops, lapses>>

(* Mutant: a success takes back one failure.                               *)
RecordedLess(p, outcome) ==
  LET j == process[p].job
      run == process[p]
  IN /\ job' = [job EXCEPT
          ![j].owner = Nobody, ![j].until = 0,
          ![j].due = NextDue(j, outcome, run.slot, run.at, run.started),
          ![j].failures = IF outcome = "SUCCEEDED" THEN @ - 1 ELSE @ + 1]
     /\ log' = [log EXCEPT ![j] = Append(@, [slot |-> run.slot, started |-> run.started,
                                             finished |-> now, outcome |-> outcome])]

Recorded(p, outcome) ==
  LET j == process[p].job
      run == process[p]
  IN /\ job' = [job EXCEPT
          ![j].owner = Nobody, ![j].until = 0,
          ![j].due = NextDue(j, outcome, run.slot, run.at, run.started),
          ![j].failures = IF outcome = "SUCCEEDED" THEN 0 ELSE @ + 1]
     /\ log' = [log EXCEPT ![j] = Append(@, [slot |-> run.slot, started |-> run.started,
                                             finished |-> now, outcome |-> outcome])]

(* Mutant: the alert is raised from that failure on.                       *)
AlertDueFrom(p, outcome) == outcome # "SUCCEEDED" /\ process[p].failures + 1 >= AlertAfter
AlertDue(p, outcome) == outcome # "SUCCEEDED" /\ process[p].failures + 1 = AlertAfter

(* finish: the result, the next slot, the end of the lease and the line of *)
(* the journal in one transaction, by the owner of the lease.              *)
Finish(p, outcome) ==
  LET j == process[p].job IN
  /\ process[p].pc = "WORKING" /\ job[j].owner = p
  /\ Recorded(p, outcome)
  /\ process' = [process EXCEPT ![p] =
       IF outcome = "SUCCEEDED" /\ catchUp[j] = "EVERY_SLOT" /\ @.slots < MaxSlots
       THEN [@ EXCEPT !.pc = "CLAIMING", !.slot = 0, !.failures = 0, !.started = 0]
       ELSE IF AlertDue(p, outcome) THEN [@ EXCEPT !.pc = "ALARMING"]
       ELSE Done(p, j)]
  /\ UNCHANGED <<now, catchUp, told, stops, lapses>>

Raise(alert) == [told EXCEPT ![alert] = @ + 1]

(* The lease is somebody else's by now: nothing is recorded.               *)
LoseLease(p) ==
  LET j == process[p].job IN
  /\ process[p].pc = "WORKING" /\ job[j].owner # p
  /\ process' = [process EXCEPT ![p] = Done(p, j)]
  /\ told' = Raise(LeaseLost(j))
  /\ UNCHANGED <<now, catchUp, job, log, stops, lapses>>

Alarm(p) ==
  /\ process[p].pc = "ALARMING"
  /\ process' = [process EXCEPT ![p] = Done(p, process[p].job)]
  /\ told' = Raise(Failing(process[p].job))
  /\ UNCHANGED <<now, catchUp, job, log, stops, lapses>>

(* The process stops and starts again, or a statement of its tick fails.   *)
Stop(p) ==
  /\ stops < MaxStops
  /\ process[p].pc # "IDLE"
  /\ stops' = stops + 1
  /\ process' = [process EXCEPT ![p] = Idle]
  /\ UNCHANGED <<now, catchUp, job, log, told, lapses>>

Next ==
  \/ Tick
  \/ \E p \in Processes :
       \/ Begin(p) \/ Look(p) \/ Renew(p) \/ LoseLease(p) \/ Alarm(p) \/ Stop(p)
       \/ \E j \in Jobs : Claim(p, j) \/ Skip(p, j)
       \/ \E outcome \in Outcomes : Finish(p, outcome)

Spec == Init /\ [][Next]_vars

(***************************************************************************)
(* Properties.                                                             *)
(***************************************************************************)
Working(p, j) == process[p].pc = "WORKING" /\ process[p].job = j

(* R-126, one process per job: as long as the heartbeats come in time, no  *)
(* two processes run the same job.                                         *)
OneRunner ==
  lapses = 0 => \A p, q \in Processes, j \in Jobs : Working(p, j) /\ Working(q, j) => p = q

(* R-126: a missed slot is not lost and a slot is not run twice, whichever *)
(* processes run the job and whatever leases they lose: the journal goes   *)
(* from slot to slot, staying at a slot that failed.                       *)
Follows(j, run, slot) ==
  IF run.outcome # "SUCCEEDED" THEN slot = run.slot
  ELSE IF catchUp[j] = "EVERY_SLOT" THEN slot = run.slot + Interval
  ELSE slot >= run.slot + Interval

SlotsInOrder ==
  \A j \in Jobs :
    /\ \A i \in 1..Len(log[j]) - 1 : Follows(j, log[j][i], log[j][i + 1].slot)
    /\ log[j] # <<>> => Follows(j, log[j][Len(log[j])], job[j].due)

(* R-128: a LATEST job does not start earlier than an interval after the   *)
(* start of any run it has completed.                                      *)
Completed(j) == {i \in DOMAIN log[j] : catchUp[j] = "LATEST" /\ log[j][i].outcome = "SUCCEEDED"}
StartsSpaced ==
  \A j \in Jobs : \A i \in Completed(j), k \in DOMAIN log[j] :
    i < k => log[j][k].started >= log[j][i].started + Interval

(* Both in the form that is inductive: the owner of a lease still holds    *)
(* what it read when it claimed it, it claimed no slot before its time,    *)
(* and the next slot keeps its distance too.                               *)
ClaimIsCurrent ==
  \A p \in Processes :
    /\ process[p].at <= now
    /\ \A j \in Jobs : Working(p, j) /\ job[j].owner = p =>
         /\ process[p].slot = job[j].due
         /\ process[p].failures = job[j].failures
         /\ process[p].started >= process[p].slot

DueIsSpaced ==
  \A j \in Jobs : \A i \in Completed(j) : job[j].due >= log[j][i].started + Interval

JournalInv == ClaimIsCurrent /\ SlotsInOrder /\ DueIsSpaced /\ StartsSpaced

(* scheduler.ts: a CRITICAL alert once for every series of AlertAfter      *)
(* failures, unless the process stops before it raises it.                 *)
Failed(j, i) == i \in DOMAIN log[j] /\ log[j][i].outcome # "SUCCEEDED"
Series(j) ==
  {i \in DOMAIN log[j] : /\ \A k \in i - AlertAfter + 1 .. i : Failed(j, k)
                         /\ ~Failed(j, i - AlertAfter)}
Alarming(j) == {p \in Processes : process[p].pc = "ALARMING" /\ process[p].job = j}
SeriesToldOnce ==
  \A j \in Jobs :
    LET accounted == told[Failing(j)] + Cardinality(Alarming(j))
    IN accounted <= Cardinality(Series(j)) /\ Cardinality(Series(j)) <= accounted + stops

=============================================================================
