------------------------------ MODULE BulkJobs ------------------------------
(***************************************************************************)
(* Bulk operations of a seller as background jobs.  A person creates a     *)
(* job; processes of the bulk worker claim it under a lease, do the work   *)
(* and record the outcome.  An import job applies a checked file to the    *)
(* seller's stock pool, in one transaction with its row of the import      *)
(* journal, and then recalculates what is published; an export job stores  *)
(* a file.  A process can die at any step, its lease can run out while it  *)
(* still works, and the pool moves meanwhile.                              *)
(***************************************************************************)
EXTENDS Integers

CONSTANTS
  Workers,      \* processes of the bulk worker, each with its lease-owner name
  Imports,      \* numbers of the import jobs, in the order of creation
  Exports,      \* numbers of the export jobs, in the same order
  Nobody,       \* no owner
  MaxAttempts,  \* MAX_ATTEMPTS of the runner
  Seen,         \* on-hand quantity the check of the file was made against
  Counted,      \* on-hand quantity the file states
  MaxOnHand,    \* bound of the pool
  MaxMoves,     \* bound of sales and returns between the steps
  MaxStalls,    \* bound of leases that run out while their owner works
  MaxFaults     \* bound of store errors inside the work

ASSUME BulkJobsAssumption ==
  /\ Imports \subseteq Nat \ {0} /\ Exports \subseteq Nat \ {0} /\ Imports \cap Exports = {}
  /\ Nobody \notin Workers
  /\ MaxAttempts \in Nat \ {0}
  /\ MaxOnHand \in Nat /\ Seen \in 0..MaxOnHand /\ Counted \in 0..MaxOnHand
  /\ Seen # Counted

VARIABLES
  status,   \* status of each job; NONE before it is created
  owner,    \* lease_owner
  live,     \* whether lease_until is still ahead
  attempts, \* claims so far, not counted past MaxAttempts + 1
  journal,  \* outcome in the row of import_run of an import job
  onHand,   \* stock_pool.on_hand of the product of the file
  file,     \* process whose content is the stored file of an export
  result,   \* process whose checksum is in the outcome of an export
  at,       \* step of each process
  job,      \* the job it has in hand, 0 while idle
  plan,     \* on-hand quantity its plan was computed from
  applied,  \* how many times an import was applied
  owed,     \* applied, and no recalculation of the job followed yet
  moves, stalls, faults

jobVars  == <<status, owner, live, attempts>>
workVars == <<at, job, plan>>
dataVars == <<journal, onHand, file, applied, owed>>
counters == <<moves, stalls, faults>>
vars     == <<jobVars, workVars, dataVars, result, counters>>

Jobs  == Imports \cup Exports
Final == {"SUCCEEDED", "FAILED", "CANCELLED"}
Work  == {"prepare", "look", "write", "refuse", "after", "produce"}
Steps == Work \cup {"idle", "finish", "fail"}

Init ==
  /\ status = [j \in Jobs |-> "NONE"]
  /\ owner = [j \in Jobs |-> Nobody]
  /\ live = [j \in Jobs |-> FALSE]
  /\ attempts = [j \in Jobs |-> 0]
  /\ journal = [j \in Imports |-> "NONE"]
  /\ onHand = Seen
  /\ file = [j \in Exports |-> Nobody]
  /\ result = [j \in Exports |-> Nobody]
  /\ at = [w \in Workers |-> "idle"]
  /\ job = [w \in Workers |-> 0]
  /\ plan = [w \in Workers |-> Seen]
  /\ applied = [j \in Imports |-> 0]
  /\ owed = [j \in Imports |-> FALSE]
  /\ moves = 0 /\ stalls = 0 /\ faults = 0

Goto(w, s) == at' = [at EXCEPT ![w] = s]

-----------------------------------------------------------------------------
(* The person *)

Create(j) ==
  /\ status[j] = "NONE"
  /\ \A k \in Jobs : k < j => status[k] # "NONE"
  /\ status' = [status EXCEPT ![j] = "PENDING"]
  /\ UNCHANGED <<owner, live, attempts, workVars, dataVars, result, counters>>

Cancel(j) ==
  /\ status[j] = "PENDING"
  /\ status' = [status EXCEPT ![j] = "CANCELLED"]
  /\ UNCHANGED <<owner, live, attempts, workVars, dataVars, result, counters>>

(* A sale or a return moves the pool. *)
Move ==
  /\ moves < MaxMoves
  /\ moves' = moves + 1
  /\ onHand' \in {onHand - 1, onHand + 1} \cap 0..MaxOnHand
  /\ UNCHANGED <<jobVars, workVars, journal, file, applied, owed, result, stalls, faults>>

-----------------------------------------------------------------------------
(* Claim and lease *)

Claimable(j) == status[j] = "PENDING" \/ (status[j] = "RUNNING" /\ ~live[j])

(* Mutant: a job is taken again however often it brought a process down.   *)
ClaimForEver(w, j) ==
  /\ at[w] = "idle"
  /\ Claimable(j)
  /\ \A k \in Jobs : k < j => ~Claimable(k)
  /\ status' = [status EXCEPT ![j] = "RUNNING"]
  /\ owner' = [owner EXCEPT ![j] = w]
  /\ live' = [live EXCEPT ![j] = TRUE]
  /\ Goto(w, "prepare")
  /\ job' = [job EXCEPT ![w] = j]
  /\ UNCHANGED <<attempts, plan, dataVars, result, counters>>

Claim(w, j) ==
  /\ at[w] = "idle"
  /\ Claimable(j)
  /\ \A k \in Jobs : k < j => ~Claimable(k)
  /\ status' = [status EXCEPT ![j] = "RUNNING"]
  /\ owner' = [owner EXCEPT ![j] = w]
  /\ live' = [live EXCEPT ![j] = TRUE]
  /\ attempts' = [attempts EXCEPT ![j] = IF @ > MaxAttempts THEN @ ELSE @ + 1]
  /\ at' = [at EXCEPT ![w] = IF attempts'[j] > MaxAttempts THEN "fail" ELSE "prepare"]
  /\ job' = [job EXCEPT ![w] = j]
  /\ UNCHANGED <<plan, dataVars, result, counters>>

Holds(w) == at[w] # "idle" /\ owner[job[w]] = w

(* The timer, and every record of progress, moves the lease of a job the   *)
(* process still owns, even one that has run out meanwhile.                *)
Beat(w) ==
  /\ Holds(w)
  /\ ~live[job[w]]
  /\ live' = [live EXCEPT ![job[w]] = TRUE]
  /\ UNCHANGED <<status, owner, attempts, workVars, dataVars, result, counters>>

(* The lease of a process that died runs out. *)
Lapse(j) ==
  /\ status[j] = "RUNNING" /\ live[j]
  /\ ~\E w \in Workers : Holds(w) /\ job[w] = j
  /\ live' = [live EXCEPT ![j] = FALSE]
  /\ UNCHANGED <<status, owner, attempts, workVars, dataVars, result, counters>>

(* The lease runs out while its owner is busy or cut off from the store. *)
Stall(w) ==
  /\ stalls < MaxStalls
  /\ Holds(w) /\ live[job[w]]
  /\ live' = [live EXCEPT ![job[w]] = FALSE]
  /\ stalls' = stalls + 1
  /\ UNCHANGED <<status, owner, attempts, workVars, dataVars, result, moves, faults>>

-----------------------------------------------------------------------------
(* The work *)

(* The database takes the journal row of a job only while that job runs    *)
(* under a live lease, whoever holds it.                                   *)
Journals(j) == status[j] = "RUNNING" /\ live[j]

(* Mutant: any process may store the file of a job that runs.              *)
StoresAny(w, j) == Journals(j)

(* It takes the file of a job only from the holder of that lease. *)
Stores(w, j) == Journals(j) /\ owner[j] = w

Written(j, outcome) ==
  journal' = [journal EXCEPT ![j] = IF @ = "NONE" THEN outcome ELSE @]

(* The plan of an import is computed again from the stock of the moment. *)
Prepare(w) ==
  /\ at[w] = "prepare"
  /\ IF job[w] \in Imports
       THEN plan' = [plan EXCEPT ![w] = onHand] /\ Goto(w, "look")
       ELSE Goto(w, "produce") /\ UNCHANGED plan
  /\ UNCHANGED <<jobVars, job, dataVars, result, counters>>

(* Mutants: a repeated job does not look at the journal; it takes an       *)
(* applied import for finished.                                            *)
AfterLookBlind(w) == IF plan[w] # Seen THEN "refuse" ELSE "write"

AfterLookDone(w) == IF journal[job[w]] = "APPLIED" THEN "finish" ELSE AfterLookBlind(w)

(* What was applied before is not applied again: only its recalculation is *)
(* repeated.  A plan other than the checked one, or one that changes       *)
(* nothing, is refused.                                                    *)
AfterLook(w) ==
  CASE journal[job[w]] = "APPLIED" -> "after"
    [] journal[job[w]] = "REFUSED" -> "fail"
    [] OTHER -> IF plan[w] # Seen THEN "refuse" ELSE "write"

Look(w) ==
  /\ at[w] = "look"
  /\ Goto(w, AfterLook(w))
  /\ UNCHANGED <<jobVars, job, plan, dataVars, result, counters>>

(* Mutant: the journal row is left to a transaction of its own.            *)
WriteAlone(w) ==
  /\ at[w] = "write" /\ onHand = plan[w] /\ Journals(job[w])
  /\ onHand' = Counted
  /\ applied' = [applied EXCEPT ![job[w]] = @ + 1]
  /\ owed' = [owed EXCEPT ![job[w]] = TRUE]
  /\ Goto(w, "after")
  /\ UNCHANGED <<jobVars, job, plan, journal, file, result, counters>>

(* One transaction: the pool is locked and compared with the plan, set to  *)
(* the counted quantity, and the journal row inserted.                     *)
Write(w) ==
  /\ at[w] = "write"
  /\ LET j == job[w] IN
     \/ /\ onHand # plan[w]
        /\ Goto(w, "refuse")
        /\ UNCHANGED dataVars
     \/ /\ onHand = plan[w] /\ ~Journals(j)
        /\ Goto(w, "fail")
        /\ UNCHANGED dataVars
     \/ /\ onHand = plan[w] /\ Journals(j)
        /\ onHand' = Counted
        /\ Written(j, "APPLIED")
        /\ applied' = [applied EXCEPT ![j] = @ + 1]
        /\ owed' = [owed EXCEPT ![j] = TRUE]
        /\ Goto(w, "after")
        /\ UNCHANGED file
  /\ UNCHANGED <<jobVars, job, plan, result, counters>>

(* Mutant: the reason of a refusal is stored as its outcome.               *)
RefuseReason(w) ==
  /\ at[w] = "refuse"
  /\ IF Journals(job[w]) THEN Written(job[w], "DATA_CHANGED") ELSE UNCHANGED journal
  /\ Goto(w, "fail")
  /\ UNCHANGED <<jobVars, job, plan, onHand, file, applied, owed, result, counters>>

Refuse(w) ==
  /\ at[w] = "refuse"
  /\ IF Journals(job[w]) THEN Written(job[w], "REFUSED") ELSE UNCHANGED journal
  /\ Goto(w, "fail")
  /\ UNCHANGED <<jobVars, job, plan, onHand, file, applied, owed, result, counters>>

(* The published quantity of every product of the file is recalculated. *)
After(w) ==
  /\ at[w] = "after"
  /\ owed' = [owed EXCEPT ![job[w]] = FALSE]
  /\ Goto(w, "finish")
  /\ UNCHANGED <<jobVars, job, plan, journal, onHand, file, applied, result, counters>>

(* Storing the file again replaces the file of an earlier attempt. *)
Produce(w) ==
  /\ at[w] = "produce"
  /\ IF Stores(w, job[w])
       THEN file' = [file EXCEPT ![job[w]] = w] /\ Goto(w, "finish")
       ELSE Goto(w, "fail") /\ UNCHANGED file
  /\ UNCHANGED <<jobVars, job, plan, journal, onHand, applied, owed, result, counters>>

(* A call to the store fails inside the work. *)
Fault(w) ==
  /\ faults < MaxFaults
  /\ at[w] \in Work
  /\ faults' = faults + 1
  /\ Goto(w, "fail")
  /\ UNCHANGED <<jobVars, job, plan, dataVars, result, moves, stalls>>

(* The outcome is recorded only by the owner of the lease; a process that  *)
(* lost it changes nothing and reports LEASE_LOST.                         *)
Settle(w, outcome) ==
  LET j == job[w] IN
  /\ IF Holds(w)
       THEN /\ status' = [status EXCEPT ![j] = outcome]
            /\ owner' = [owner EXCEPT ![j] = Nobody]
            /\ live' = [live EXCEPT ![j] = FALSE]
       ELSE UNCHANGED <<status, owner, live>>
  /\ at' = [at EXCEPT ![w] = "idle"]
  /\ job' = [job EXCEPT ![w] = 0]
  /\ UNCHANGED <<attempts, plan, dataVars, counters>>

Finish(w) ==
  /\ at[w] = "finish"
  /\ result' = IF Holds(w) /\ job[w] \in Exports
                 THEN [result EXCEPT ![job[w]] = w] ELSE result
  /\ Settle(w, "SUCCEEDED")

Fail(w) == at[w] = "fail" /\ Settle(w, "FAILED") /\ UNCHANGED result

(* The process dies in the work.  A job claimed once too often is not      *)
(* worked on any more, so it brings no process down.                       *)
Crash(w) ==
  /\ at[w] # "idle"
  /\ attempts[job[w]] <= MaxAttempts
  /\ at' = [at EXCEPT ![w] = "idle"]
  /\ job' = [job EXCEPT ![w] = 0]
  /\ UNCHANGED <<jobVars, plan, dataVars, result, counters>>

-----------------------------------------------------------------------------
WorkStep(w) ==
  \/ Prepare(w) \/ Look(w) \/ Write(w) \/ Refuse(w) \/ After(w) \/ Produce(w)
  \/ Finish(w) \/ Fail(w)

Next ==
  \/ \E j \in Jobs : Create(j) \/ Cancel(j) \/ Lapse(j)
  \/ \E w \in Workers : WorkStep(w) \/ Beat(w) \/ Stall(w) \/ Fault(w) \/ Crash(w)
  \/ \E w \in Workers, j \in Jobs : Claim(w, j)
  \/ Move

Spec == Init /\ [][Next]_vars

(* The loop of a live process goes on, and the lease of a dead one ends. *)
FairSpec ==
  /\ Spec
  /\ \A w \in Workers : WF_vars(WorkStep(w)) /\ WF_vars(\E j \in Jobs : Claim(w, j))
  /\ \A j \in Jobs : WF_vars(Lapse(j))

-----------------------------------------------------------------------------
TypeOK ==
  /\ status \in [Jobs -> {"NONE", "PENDING", "RUNNING"} \cup Final]
  /\ owner \in [Jobs -> Workers \cup {Nobody}]
  /\ live \in [Jobs -> BOOLEAN]
  /\ attempts \in [Jobs -> 0..(MaxAttempts + 1)]
  /\ journal \in [Imports -> {"NONE", "APPLIED", "REFUSED"}]
  /\ onHand \in 0..MaxOnHand
  /\ file \in [Exports -> Workers \cup {Nobody}]
  /\ result \in [Exports -> Workers \cup {Nobody}]
  /\ at \in [Workers -> Steps]
  /\ job \in [Workers -> Jobs \cup {0}]
  /\ plan \in [Workers -> 0..MaxOnHand]
  /\ applied \in [Imports -> Nat] /\ owed \in [Imports -> BOOLEAN]
  /\ moves \in Nat /\ stalls \in Nat /\ faults \in Nat
  /\ \A w \in Workers :
       /\ at[w] = "idle" <=> job[w] = 0
       /\ at[w] = "produce" => job[w] \in Exports
       /\ at[w] \in {"look", "write", "refuse", "after"} => job[w] \in Imports

(* The journal of imports tells what is in the data: a row APPLIED stands  *)
(* only for data that were written, and no import was written without a    *)
(* row (the row is inserted in the transaction of the data).               *)
JournalIsTrue ==
  \A j \in Imports : /\ journal[j] = "APPLIED" => applied[j] > 0
                     /\ applied[j] > 0 => journal[j] # "NONE"

(* A job shown as done has done both of its steps, whatever processes died *)
(* in between: the stock is written, and the published quantity was        *)
(* recalculated after it.                                                  *)
SucceededIsWhole ==
  \A j \in Imports : status[j] = "SUCCEEDED" =>
    applied[j] > 0 /\ (applied[j] = 1 => ~owed[j])

(* A repeated job does not apply its import again after a crash: a second  *)
(* application takes a lease that ran out under a working process and a    *)
(* pool that came back to the quantity of the check.                       *)
CrashNeverAppliesTwice ==
  \A j \in Imports : applied[j] > 1 => stalls > 0 /\ moves > 0

(* The file a seller downloads is the one whose checksum the finished job  *)
(* shows: a process that lost the lease does not replace it.               *)
FileMatchesResult ==
  \A j \in Exports : status[j] = "SUCCEEDED" => file[j] = result[j]

(* Every created job ends, also one that brings down each process that     *)
(* takes it, and so none of them blocks the queue of the tenant for ever.  *)
EveryJobSettles ==
  \A j \in Jobs : status[j] # "NONE" ~> status[j] \in Final

=============================================================================
