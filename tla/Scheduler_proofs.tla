-------------------------- MODULE Scheduler_proofs --------------------------
(***************************************************************************)
(* Proofs about Scheduler, for any number of processes and jobs, of both   *)
(* kinds, and whatever leases are lost and processes stop.                 *)
(***************************************************************************)
EXTENDS Scheduler, FiniteSetTheorems, TLAPS

(* A run in hand names a job, and its claim is in range.                   *)
LEMMA RunTyped ==
  ASSUME TypeOK, NEW p \in Processes
  PROVE  /\ process[p] \in Ticks
         /\ process[p].at \in Int /\ process[p].slot \in Nat /\ process[p].started \in Times
         /\ process[p].pc \in {"WORKING", "ALARMING"} => process[p].job \in Jobs
  BY DEF TypeOK, Ticks, Times, None

(* nextSlotAfter moves on by at least one interval.                        *)
LEMMA NextSlot ==
  ASSUME SchedulerAssumption, NEW slot \in Nat, NEW at \in Int
  PROVE  NextSlotAfter(slot, at) \in Nat /\ NextSlotAfter(slot, at) >= slot + Interval
<1> DEFINE k == Larger(1, (at - slot) \div Interval + 1)
<1>1. Interval \in Nat /\ Interval > 0
  BY DEF SchedulerAssumption
<1>2. (at - slot) \div Interval \in Int
  BY <1>1
<1>3. k \in Nat /\ k >= 1
  BY <1>2 DEF Larger
<1>4. NextSlotAfter(slot, at) = slot + Interval * k
  BY DEF NextSlotAfter
<1> HIDE DEF k
<1>5. Interval * k \in Nat /\ Interval * k >= Interval
  BY <1>1, <1>3
<1> QED
  BY <1>1, <1>4, <1>5

(* What finish makes of the slot it was given.                             *)
LEMMA NextDueMoves ==
  ASSUME SchedulerAssumption, NEW j \in Jobs, NEW outcome \in Outcomes,
         NEW slot \in Nat, NEW at \in Int, NEW started \in Nat
  PROVE  LET due == NextDue(j, outcome, slot, at, started)
         IN /\ due \in Nat /\ due >= slot
            /\ outcome # "SUCCEEDED" => due = slot
            /\ outcome = "SUCCEEDED" /\ catchUp[j] = "EVERY_SLOT" => due = slot + Interval
            /\ outcome = "SUCCEEDED" => due >= slot + Interval
            /\ outcome = "SUCCEEDED" /\ catchUp[j] # "EVERY_SLOT" => due >= started + Interval
<1>1. Interval \in Nat /\ Interval > 0
  BY DEF SchedulerAssumption
<1>2. NextSlotAfter(slot, at) \in Nat /\ NextSlotAfter(slot, at) >= slot + Interval
  BY NextSlot
<1> QED
  BY <1>1, <1>2 DEF NextDue, Larger

(* A process that has done with a job goes on with the others, or rests.   *)
LEMMA DoneTyped ==
  ASSUME SchedulerAssumption, TypeOK, NEW p \in Processes, NEW j
  PROVE  /\ Idle \in Ticks /\ Idle.pc = "IDLE" /\ Idle.at = None
         /\ Rest(p) \in Ticks /\ Rest(p).pc = "IDLE" /\ Rest(p).at = process[p].at
         /\ Done(p, j) \in Ticks /\ Done(p, j).pc \in {"IDLE", "CLAIMING"}
         /\ Done(p, j).at = process[p].at
<1>0. 0 \in Times
  BY DEF Times, SchedulerAssumption
<1>1. Idle \in Ticks /\ Idle.pc = "IDLE" /\ Idle.at = None
  BY <1>0 DEF Idle, Ticks, PCs, None, Nobody
<1>2. Rest(p) \in Ticks /\ Rest(p).pc = "IDLE" /\ Rest(p).at = process[p].at
  BY <1>1, RunTyped DEF Rest, Ticks
<1>3. CASE process[p].todo = {j}
  BY <1>1, <1>2, <1>3 DEF Done
<1>4. CASE process[p].todo # {j}
  <2>1. process[p] \in Ticks
    BY RunTyped
  <2> QED BY <1>0, <1>1, <1>2, <1>4, <2>1 DEF Done, Ticks, PCs, Nobody
<1> QED
  BY <1>3, <1>4

LEMMA SchedulerInit ==
  ASSUME SchedulerAssumption, Init
  PROVE  TypeOK /\ JournalInv
<1>1. 0 \in Times
  BY DEF Times, SchedulerAssumption
<1>2. Idle \in Ticks /\ Idle.pc = "IDLE" /\ Idle.at <= 0
  BY <1>1 DEF Idle, Ticks, PCs, None, Nobody
<1>3. log \in [Jobs -> Seq(Records)]
  BY DEF Init
<1>4. TypeOK
  BY <1>1, <1>2, <1>3 DEF Init, TypeOK, JobRows, CatchUps, SchedulerAssumption
<1>5. ClaimIsCurrent
  BY <1>2 DEF Init, ClaimIsCurrent, Working
<1>6. \A j \in Jobs : log[j] = <<>> /\ DOMAIN log[j] = {} /\ Len(log[j]) = 0
  BY DEF Init
<1>7. SlotsInOrder /\ DueIsSpaced /\ StartsSpaced
  BY <1>6 DEF SlotsInOrder, DueIsSpaced, StartsSpaced, Completed
<1> QED
  BY <1>4, <1>5, <1>7 DEF JournalInv

(***************************************************************************)
(* Types.                                                                  *)
(***************************************************************************)
LEMMA SchedulerTyped ==
  ASSUME SchedulerAssumption, TypeOK, [Next]_vars
  PROVE  TypeOK'
<1> USE DEF TypeOK
<1>1. CASE Tick
  <2>1. now' \in Times
    BY <1>1 DEF Tick, Times, SchedulerAssumption
  <2>2. lapses' \in 0..MaxLapses
    BY <1>1 DEF Tick, SchedulerAssumption
  <2> QED BY <1>1, <2>1, <2>2 DEF Tick
<1>2. ASSUME NEW p \in Processes, Begin(p) PROVE TypeOK'
  <2> DEFINE tick == [process[p] EXCEPT !.pc = "READY", !.at = now]
  <2>1. process' = [process EXCEPT ![p] = tick]
    BY <1>2 DEF Begin
  <2>2. tick \in Ticks /\ tick.pc = "READY"
    <3>1. process[p] \in Ticks
      BY RunTyped
    <3> QED BY <3>1 DEF Ticks, PCs
  <2> HIDE DEF tick
  <2>3. process' \in [Processes -> Ticks]
    BY <2>1, <2>2
  <2>4. \A q \in Processes : process'[q].pc \in {"WORKING", "ALARMING"} => process'[q].job \in Jobs
    <3>1. \A q \in Processes : process'[q] = IF q = p THEN tick ELSE process[q]
      BY <2>1
    <3> QED BY <2>2, <3>1
  <2>5. UNCHANGED <<now, catchUp, job, log, told, stops, lapses>>
    BY <1>2 DEF Begin
  <2> QED BY <2>3, <2>4, <2>5
<1>3. ASSUME NEW p \in Processes, Look(p) PROVE TypeOK'
  <2> DEFINE due == {j \in Jobs : DueOf(j) <= process[p].at}
             seen == [j \in Jobs |-> IF j \in due THEN job[j].due ELSE None]
             looked == [process[p] EXCEPT !.pc = "CLAIMING", !.todo = due, !.seen = seen]
  <2>1. seen \in [Jobs -> Nat \cup {None}]
    BY DEF JobRows
  <2>2. due \in SUBSET Jobs
    OBVIOUS
  <2>3. process' = [process EXCEPT ![p] = IF due = {} THEN Rest(p) ELSE looked]
    BY <1>3 DEF Look
  <2> HIDE DEF due, seen
  <2>4. looked \in Ticks /\ looked.pc = "CLAIMING"
    <3>1. process[p] \in Ticks
      BY RunTyped
    <3> QED BY <2>1, <2>2, <3>1 DEF Ticks, PCs
  <2> HIDE DEF looked
  <2>5. Rest(p) \in Ticks /\ Rest(p).pc = "IDLE"
    BY DoneTyped
  <2>6. PICK tick \in {Rest(p), looked} : process' = [process EXCEPT ![p] = tick]
    BY <2>3
  <2>7. tick \in Ticks /\ tick.pc \notin {"WORKING", "ALARMING"}
    BY <2>4, <2>5, <2>6
  <2>8. UNCHANGED <<now, catchUp, job, log, told, stops, lapses>>
    BY <1>3 DEF Look
  <2> QED BY <2>6, <2>7, <2>8
<1>4. ASSUME NEW p \in Processes, NEW j \in Jobs, Claim(p, j) PROVE TypeOK'
  <2> DEFINE run == [process[p] EXCEPT !.pc = "WORKING", !.slots = @ + 1, !.job = j,
                       !.slot = job[j].due, !.failures = job[j].failures, !.started = now]
             row == [job[j] EXCEPT !.owner = p, !.until = now + Lease]
  <2>1. job[j] \in JobRows /\ job[j].due \in Nat /\ job[j].failures \in Nat /\ process[p] \in Ticks
    BY RunTyped DEF JobRows
  <2>2. now + Lease \in Nat
    BY DEF Times, SchedulerAssumption
  <2>4. row \in JobRows
    BY <2>1, <2>2 DEF JobRows
  <2>5. run \in Ticks
    <3>1. process[p].slots + 1 \in Nat
      BY <2>1 DEF Ticks
    <3> QED BY <2>1, <3>1 DEF Ticks, PCs
  <2>6. run.job = j
    BY <2>1 DEF Ticks
  <2>3. process' = [process EXCEPT ![p] = run] /\ job' = [job EXCEPT ![j] = row]
    BY <1>4 DEF Claim, Leased
  <2> HIDE DEF run, row
  <2> QED BY <1>4, <2>3, <2>4, <2>5, <2>6 DEF Claim
<1>5. ASSUME NEW p \in Processes, NEW j \in Jobs, Skip(p, j) PROVE TypeOK'
  BY <1>5, DoneTyped DEF Skip
<1>6. ASSUME NEW p \in Processes, Renew(p) PROVE TypeOK'
  <2> DEFINE j == process[p].job
             row == [job[j] EXCEPT !.until = now + Lease]
  <2>1. j \in Jobs
    BY <1>6, RunTyped DEF Renew
  <2>2. row \in JobRows
    <3>1. job[j] \in JobRows /\ now + Lease \in Nat
      BY <2>1 DEF Times, SchedulerAssumption
    <3> HIDE DEF j
    <3> QED BY <3>1 DEF JobRows
  <2>3. job' = [job EXCEPT ![j] = row]
    BY <1>6 DEF Renew
  <2> HIDE DEF j, row
  <2> QED BY <1>6, <2>1, <2>2, <2>3 DEF Renew
<1>7. ASSUME NEW p \in Processes, NEW outcome \in Outcomes, Finish(p, outcome) PROVE TypeOK'
  <2> DEFINE j == process[p].job
             due == NextDue(j, outcome, process[p].slot, process[p].at, process[p].started)
             record == [slot |-> process[p].slot, started |-> process[p].started,
                        finished |-> now, outcome |-> outcome]
             failures == IF outcome = "SUCCEEDED" THEN 0 ELSE job[j].failures + 1
             row == [job[j] EXCEPT !.owner = Nobody, !.until = 0, !.due = due,
                                   !.failures = failures]
             next == [process[p] EXCEPT !.pc = "CLAIMING", !.slot = 0, !.failures = 0, !.started = 0]
             alarm == [process[p] EXCEPT !.pc = "ALARMING"]
  <2>1. j \in Jobs
    BY <1>7, RunTyped DEF Finish
  <2>2. due \in Nat
    BY <2>1, RunTyped, NextDueMoves DEF Times
  <2>3. record \in Records
    BY RunTyped DEF Records
  <2>4. job' = [job EXCEPT ![j] = row] /\ log' = [log EXCEPT ![j] = Append(@, record)]
    BY <1>7 DEF Finish, Recorded
  <2>5. PICK tick \in {next, alarm, Done(p, j)} : process' = [process EXCEPT ![p] = tick]
    BY <1>7 DEF Finish
  <2> HIDE DEF due, record
  <2>6. row \in JobRows
    <3>1. job[j] \in JobRows
      BY <2>1
    <3>2. failures \in Nat
      <4>1. job[j].failures \in Nat
        BY <3>1 DEF JobRows
      <4> HIDE DEF j
      <4> QED BY <4>1
    <3> HIDE DEF j, failures
    <3> QED BY <2>2, <3>1, <3>2 DEF JobRows
  <2>7. process[p] \in Ticks /\ 0 \in Times
    BY RunTyped DEF Times, SchedulerAssumption
  <2>8. /\ next \in Ticks /\ next.pc = "CLAIMING"
        /\ alarm \in Ticks /\ alarm.job = j
        /\ Done(p, j) \in Ticks /\ Done(p, j).pc \in {"IDLE", "CLAIMING"}
    <3>1. next \in Ticks /\ next.pc = "CLAIMING"
      BY <2>7 DEF Ticks, PCs
    <3>2. alarm \in Ticks /\ alarm.job = j
      BY <2>7 DEF Ticks, PCs
    <3> QED BY <3>1, <3>2, DoneTyped
  <2> HIDE DEF j, row, next, alarm
  <2>9. job' \in [Jobs -> JobRows] /\ log' \in [Jobs -> Seq(Records)]
    BY <2>1, <2>3, <2>4, <2>6
  <2>10. tick \in Ticks /\ (tick.pc \in {"WORKING", "ALARMING"} => tick.job \in Jobs)
    BY <2>1, <2>5, <2>8
  <2>11. process' \in [Processes -> Ticks]
    BY <2>5, <2>10
  <2>12. \A q \in Processes : process'[q].pc \in {"WORKING", "ALARMING"} => process'[q].job \in Jobs
    BY <2>5, <2>10
  <2>13. UNCHANGED <<now, catchUp, told, stops, lapses>>
    BY <1>7 DEF Finish
  <2> QED BY <2>9, <2>11, <2>12, <2>13
<1>8. ASSUME NEW p \in Processes, LoseLease(p) PROVE TypeOK'
  <2>1. process[p].job \in Jobs
    BY <1>8, RunTyped DEF LoseLease
  <2>2. LeaseLost(process[p].job) \in Alerts
    BY <2>1 DEF LeaseLost, Alerts
  <2>3. told' \in [Alerts -> Nat]
    BY <1>8, <2>2 DEF LoseLease, Raise
  <2> QED BY <1>8, <2>3, DoneTyped DEF LoseLease
<1>9. ASSUME NEW p \in Processes, Alarm(p) PROVE TypeOK'
  <2>1. process[p].job \in Jobs
    BY <1>9, RunTyped DEF Alarm
  <2>2. Failing(process[p].job) \in Alerts
    BY <2>1 DEF Failing, Alerts
  <2>3. told' \in [Alerts -> Nat]
    BY <1>9, <2>2 DEF Alarm, Raise
  <2> QED BY <1>9, <2>3, DoneTyped DEF Alarm
<1>10. ASSUME NEW p \in Processes, Stop(p) PROVE TypeOK'
  <2>1. stops' \in 0..MaxStops
    BY <1>10 DEF Stop, SchedulerAssumption
  <2> QED BY <1>10, <2>1, DoneTyped DEF Stop
<1>11. CASE UNCHANGED vars
  BY <1>11 DEF vars
<1> QED
  BY <1>1, <1>2, <1>3, <1>4, <1>5, <1>6, <1>7, <1>8, <1>9, <1>10, <1>11 DEF Next

(* Types: the rows of the jobs, the journal and what every process holds   *)
(* stay in range, and a process that runs or raises has a job in hand.     *)
THEOREM TypeCorrect == ASSUME SchedulerAssumption PROVE Spec => []TypeOK
<1>1. Init => TypeOK
  BY SchedulerInit
<1>2. TypeOK /\ [Next]_vars => TypeOK'
  BY SchedulerTyped
<1> QED
  BY <1>1, <1>2, PTL DEF Spec

(***************************************************************************)
(* The journal.                                                            *)
(***************************************************************************)
(* A step that records nothing leaves the journal as it is: what is left   *)
(* to show is that every claim is current.                                 *)
LEMMA NothingRecorded ==
  ASSUME JournalInv, UNCHANGED <<catchUp, log>>, ClaimIsCurrent',
         \A j \in Jobs : job'[j].due = job[j].due
  PROVE  JournalInv'
  BY DEF JournalInv, SlotsInOrder, DueIsSpaced, StartsSpaced, Completed, Follows

(* A line appended to a journal.                                           *)
LEMMA Appended ==
  ASSUME NEW L \in Seq(Records), NEW run \in Records
  PROVE  LET M == Append(L, run)
         IN /\ Len(L) \in Nat /\ Len(M) = Len(L) + 1 /\ DOMAIN M = 1..Len(L) + 1
            /\ DOMAIN L = 1..Len(L)
            /\ \A i \in 1..Len(L) : M[i] = L[i] /\ L[i] \in Records
            /\ M[Len(L) + 1] = run
            /\ M # <<>> /\ (L # <<>> => Len(L) >= 1)
  OBVIOUS

(* What the owner of a lease records: the slot that is due, and a next one *)
(* that follows it and keeps its distance.                                 *)
LEMMA RecordingFollows ==
  ASSUME SchedulerAssumption, TypeOK, JournalInv, NEW p \in Processes, NEW outcome \in Outcomes,
         Finish(p, outcome), NEW j \in Jobs, j = process[p].job,
         NEW run, run = [slot |-> process[p].slot, started |-> process[p].started,
                         finished |-> now, outcome |-> outcome]
  PROVE  /\ run \in Records /\ run.outcome = outcome /\ run.slot = job[j].due
         /\ run.started >= job[j].due /\ run.started \in Nat
         /\ log' = [log EXCEPT ![j] = Append(log[j], run)]
         /\ \A k \in Jobs : k # j => job'[k] = job[k]
         /\ job'[j].due \in Nat /\ job'[j].due >= job[j].due
         /\ Follows(j, run, job'[j].due)
         /\ outcome = "SUCCEEDED" /\ catchUp[j] = "LATEST" => job'[j].due >= run.started + Interval
         /\ job'[j].owner = Nobody
<1>1. /\ process[p].at \in Int /\ process[p].slot \in Nat /\ process[p].started \in Times
      /\ process[p].started \in Nat
  BY RunTyped DEF Times
<1>2. run \in Records /\ run.outcome = outcome /\ run.slot = process[p].slot
      /\ run.started = process[p].started
  BY <1>1 DEF Records, TypeOK
<1>3. process[p].slot = job[j].due /\ process[p].started >= process[p].slot
  BY DEF Finish, JournalInv, ClaimIsCurrent, Working
<1> DEFINE due == NextDue(j, outcome, process[p].slot, process[p].at, process[p].started)
<1>4. /\ due \in Nat /\ due >= process[p].slot
      /\ outcome # "SUCCEEDED" => due = process[p].slot
      /\ outcome = "SUCCEEDED" /\ catchUp[j] = "EVERY_SLOT" => due = process[p].slot + Interval
      /\ outcome = "SUCCEEDED" => due >= process[p].slot + Interval
      /\ outcome = "SUCCEEDED" /\ catchUp[j] # "EVERY_SLOT" => due >= process[p].started + Interval
  BY <1>1, NextDueMoves
<1>5. /\ log' = [log EXCEPT ![j] = Append(log[j], run)]
      /\ job' = [job EXCEPT ![j] = [job[j] EXCEPT !.owner = Nobody, !.until = 0, !.due = due,
                   !.failures = IF outcome = "SUCCEEDED" THEN 0 ELSE @ + 1]]
  BY DEF Finish, Recorded
<1> HIDE DEF due
<1>6. job'[j].due = due /\ job'[j].owner = Nobody /\ \A k \in Jobs : k # j => job'[k] = job[k]
  <2>1. job[j] \in JobRows /\ job \in [Jobs -> JobRows]
    BY DEF TypeOK
  <2> QED BY <1>5, <2>1 DEF JobRows
<1>7. Follows(j, run, due)
  BY <1>2, <1>4 DEF Follows
<1> QED
  BY <1>1, <1>2, <1>3, <1>4, <1>5, <1>6, <1>7

(* The journal of the job goes on in order, and keeps its distance.        *)
LEMMA RecordingKeepsJournal ==
  ASSUME SchedulerAssumption, TypeOK, JournalInv, NEW p \in Processes, NEW outcome \in Outcomes,
         Finish(p, outcome)
  PROVE  SlotsInOrder' /\ DueIsSpaced' /\ StartsSpaced'
<1> DEFINE j == process[p].job
           L == log[j]
           run == [slot |-> process[p].slot, started |-> process[p].started,
                   finished |-> now, outcome |-> outcome]
<1>1. j \in Jobs
  BY RunTyped DEF Finish
<1>2. /\ run \in Records /\ run.outcome = outcome /\ run.slot = job[j].due
      /\ run.started >= job[j].due /\ run.started \in Nat
      /\ log' = [log EXCEPT ![j] = Append(L, run)]
      /\ \A k \in Jobs : k # j => job'[k] = job[k]
      /\ job'[j].due \in Nat /\ job'[j].due >= job[j].due
      /\ Follows(j, run, job'[j].due)
      /\ outcome = "SUCCEEDED" /\ catchUp[j] = "LATEST" => job'[j].due >= run.started + Interval
  BY <1>1, RecordingFollows
<1>3. log \in [Jobs -> Seq(Records)] /\ L \in Seq(Records) /\ catchUp' = catchUp
  BY <1>1 DEF TypeOK, Finish
<1>4. job[j].due \in Nat /\ Interval \in Nat
  BY <1>1 DEF TypeOK, JobRows, SchedulerAssumption
<1> HIDE DEF run, L, j
<1>5. log'[j] = Append(L, run) /\ \A k \in Jobs : k # j => log'[k] = log[k]
  BY <1>1, <1>2, <1>3
<1> DEFINE M == Append(L, run)
<1>6. /\ Len(L) \in Nat /\ Len(M) = Len(L) + 1 /\ DOMAIN M = 1..Len(L) + 1
      /\ DOMAIN L = 1..Len(L)
      /\ \A i \in 1..Len(L) : M[i] = L[i] /\ L[i] \in Records
      /\ M[Len(L) + 1] = run
      /\ M # <<>> /\ (L # <<>> => Len(L) >= 1)
  BY <1>2, <1>3, Appended
<1> HIDE DEF M
<1>7. /\ \A i \in 1..Len(L) - 1 : Follows(j, L[i], L[i + 1].slot)
      /\ L # <<>> => Follows(j, L[Len(L)], job[j].due)
  BY <1>1 DEF JournalInv, SlotsInOrder, L
<1>8. /\ \A i \in 1..Len(M) - 1 : Follows(j, M[i], M[i + 1].slot)
      /\ Follows(j, M[Len(M)], job'[j].due)
  <2> DEFINE n == Len(L)
  <2>0. n \in Nat /\ Len(M) = n + 1
    BY <1>6
  <2>a. /\ \A i \in 1..n : M[i] = L[i]
        /\ M[n + 1] = run
        /\ \A i \in 1..n - 1 : Follows(j, L[i], L[i + 1].slot)
        /\ n >= 1 => Follows(j, L[n], job[j].due)
    BY <1>6, <1>7
  <2> HIDE DEF n
  <2>1. ASSUME NEW i \in 1..n, i # n PROVE Follows(j, M[i], M[i + 1].slot)
    <3>1. i \in 1..n - 1 /\ i + 1 \in 1..n
      BY <2>0, <2>1
    <3> QED BY <2>a, <3>1
  <2>2. ASSUME n >= 1 PROVE Follows(j, M[n], M[n + 1].slot)
    <3>1. n \in 1..n
      BY <2>0, <2>2
    <3> QED BY <1>2, <2>2, <2>a, <3>1
  <2>3. \A i \in 1..n : Follows(j, M[i], M[i + 1].slot)
    <3>1. ASSUME NEW i \in 1..n PROVE n >= 1
      BY <2>0
    <3> QED BY <2>1, <2>2, <3>1
  <2>4. Len(M) - 1 = n /\ M[Len(M)] = run
    BY <2>0, <2>a
  <2> QED BY <1>2, <2>3, <2>4
<1>9. SlotsInOrder'
  <2>1. ASSUME NEW k \in Jobs
        PROVE  /\ \A i \in 1..Len(log'[k]) - 1 : Follows(k, log'[k][i], log'[k][i + 1].slot)
               /\ log'[k] # <<>> => Follows(k, log'[k][Len(log'[k])], job'[k].due)
    <3>1. CASE k = j
      BY <1>5, <1>8, <3>1 DEF M
    <3>2. CASE k # j
      BY <1>2, <1>5, <3>2 DEF JournalInv, SlotsInOrder
    <3> QED BY <3>1, <3>2
  <2> QED BY <1>3, <2>1 DEF SlotsInOrder, Follows
<1>10. \A i \in 1..Len(L) : catchUp[j] = "LATEST" /\ L[i].outcome = "SUCCEEDED"
         => /\ job[j].due >= L[i].started + Interval
            /\ L[i].started \in Nat
            /\ \A k \in 1..Len(L) : i < k => L[k].started >= L[i].started + Interval
  <2>1. ASSUME NEW i \in 1..Len(L), catchUp[j] = "LATEST", L[i].outcome = "SUCCEEDED"
        PROVE  i \in Completed(j) /\ L[i] \in Records
    BY <1>6, <2>1 DEF Completed, L
  <2>2. \A i \in 1..Len(L) : L[i] \in Records => L[i].started \in Nat
    BY DEF Records, Times
  <2>3. \A i \in Completed(j) :
          /\ job[j].due >= L[i].started + Interval
          /\ \A k \in DOMAIN L : i < k => L[k].started >= L[i].started + Interval
    BY <1>1 DEF JournalInv, DueIsSpaced, StartsSpaced, L
  <2> QED BY <1>6, <2>1, <2>2, <2>3
<1>11. ASSUME NEW k \in Jobs, NEW i \in Completed(k)'
       PROVE  /\ job'[k].due >= log'[k][i].started + Interval
              /\ \A h \in DOMAIN log'[k] : i < h => log'[k][h].started >= log'[k][i].started + Interval
  <2>1. CASE k # j
    BY <1>2, <1>3, <1>5, <2>1 DEF JournalInv, DueIsSpaced, StartsSpaced, Completed
  <2>2. CASE k = j
    <3>1. i \in 1..Len(L) + 1 /\ catchUp[j] = "LATEST" /\ M[i].outcome = "SUCCEEDED"
      BY <1>3, <1>5, <1>6, <1>11, <2>2 DEF Completed, M
    <3>2. CASE i = Len(L) + 1
      <4>1. M[i] = run /\ outcome = "SUCCEEDED" /\ \A h \in DOMAIN M : ~(i < h)
        BY <1>2, <1>6, <3>1, <3>2
      <4>2. job'[j].due >= M[i].started + Interval
        BY <1>2, <3>1, <4>1
      <4> QED BY <1>5, <2>2, <4>1, <4>2 DEF M
    <3>3. CASE i # Len(L) + 1
      <4>1. i \in 1..Len(L) /\ M[i] = L[i]
        BY <1>6, <3>1, <3>3
      <4>2. /\ job[j].due >= L[i].started + Interval
            /\ L[i].started \in Nat
            /\ \A h \in 1..Len(L) : i < h => L[h].started >= L[i].started + Interval
        BY <1>10, <3>1, <4>1
      <4>3. run.started >= L[i].started + Interval /\ job'[j].due >= L[i].started + Interval
        BY <1>2, <1>4, <4>2
      <4>4. ASSUME NEW h \in DOMAIN M, i < h PROVE M[h].started >= M[i].started + Interval
        <5>1. CASE h = Len(L) + 1
          BY <1>6, <4>1, <4>3, <5>1
        <5>2. CASE h # Len(L) + 1
          BY <1>6, <4>1, <4>2, <4>4, <5>2
        <5> QED BY <5>1, <5>2
      <4> QED BY <1>5, <2>2, <4>1, <4>3, <4>4 DEF M
    <3> QED BY <3>2, <3>3
  <2> QED BY <2>1, <2>2
<1> QED
  BY <1>9, <1>11 DEF DueIsSpaced, StartsSpaced

(* A step of a tick that neither runs a job nor raises an alert: where the *)
(* process goes from it.                                                   *)
LEMMA GoesOnQuietly ==
  ASSUME SchedulerAssumption, TypeOK, NEW p \in Processes, process[p].at <= now,
         Begin(p) \/ Look(p) \/ (\E j \in Jobs : Skip(p, j)) \/ LoseLease(p) \/ Alarm(p) \/ Stop(p)
  PROVE  \E tick : /\ process' = [process EXCEPT ![p] = tick]
                   /\ tick.at <= now /\ tick.pc \notin {"WORKING", "ALARMING"}
<1>0. now \in Int /\ process[p] \in Ticks
  BY RunTyped DEF TypeOK, Times
<1>a. process[p].at <= now
  OBVIOUS
<1>1. CASE Begin(p)
  <2> DEFINE ready == [process[p] EXCEPT !.pc = "READY", !.at = now]
  <2>1. process' = [process EXCEPT ![p] = ready]
    BY <1>1 DEF Begin
  <2>2. ready.at = now /\ ready.pc = "READY"
    BY RunTyped DEF Ticks
  <2> HIDE DEF ready
  <2>3. ready.at <= now /\ ready.pc \notin {"WORKING", "ALARMING"}
    BY <1>0, <2>2
  <2> QED BY <2>1, <2>3
<1>2. CASE Look(p)
  <2> DEFINE due == {j \in Jobs : DueOf(j) <= process[p].at}
             looked == [process[p] EXCEPT !.pc = "CLAIMING", !.todo = due,
               !.seen = [j \in Jobs |-> IF j \in due THEN job[j].due ELSE None]]
  <2>1. process' = [process EXCEPT ![p] = IF due = {} THEN Rest(p) ELSE looked]
    BY <1>2 DEF Look
  <2>2. looked.at = process[p].at /\ looked.pc = "CLAIMING"
    BY RunTyped DEF Ticks
  <2>3. Rest(p).at = process[p].at /\ Rest(p).pc = "IDLE"
    BY DoneTyped
  <2>4. process[p].at <= now
    BY <1>a
  <2> HIDE DEF due, looked
  <2>5. CASE due = {}
    <3>1. process' = [process EXCEPT ![p] = Rest(p)]
      BY <2>1, <2>5
    <3>2. Rest(p).at <= now /\ Rest(p).pc \notin {"WORKING", "ALARMING"}
      BY <2>3, <2>4
    <3> QED BY <3>1, <3>2
  <2>6. CASE due # {}
    <3>1. process' = [process EXCEPT ![p] = looked]
      BY <2>1, <2>6
    <3>2. looked.at <= now /\ looked.pc \notin {"WORKING", "ALARMING"}
      BY <2>2, <2>4
    <3> QED BY <3>1, <3>2
  <2> QED BY <2>5, <2>6
<1>3. CASE \E j \in Jobs : Skip(p, j)
  BY <1>a, <1>3, DoneTyped DEF Skip
<1>4. CASE LoseLease(p)
  BY <1>a, <1>4, DoneTyped DEF LoseLease
<1>5. CASE Alarm(p)
  BY <1>a, <1>5, DoneTyped DEF Alarm
<1>6. CASE Stop(p)
  <2>1. None <= now
    BY DEF TypeOK, Times, None
  <2> QED BY <1>6, <2>1, DoneTyped DEF Stop
<1> QED
  BY <1>1, <1>2, <1>3, <1>4, <1>5, <1>6

LEMMA JournalStep ==
  ASSUME SchedulerAssumption, TypeOK, JournalInv, [Next]_vars
  PROVE  JournalInv'
<1>0. ClaimIsCurrent /\ now \in Int /\ process \in [Processes -> Ticks] /\ job \in [Jobs -> JobRows]
  BY DEF JournalInv, TypeOK, Times
<1>a. \A p \in Processes : process[p].at <= now /\ process[p].at \in Int
  BY <1>0, RunTyped DEF ClaimIsCurrent
<1>1. CASE Tick
  <2>1. ClaimIsCurrent'
    BY <1>0, <1>a, <1>1 DEF Tick, ClaimIsCurrent, Working
  <2> QED BY <1>1, <2>1, NothingRecorded DEF Tick
<1>2. ASSUME NEW p \in Processes,
             Begin(p) \/ Look(p) \/ (\E j \in Jobs : Skip(p, j)) \/ LoseLease(p) \/ Alarm(p) \/ Stop(p)
      PROVE  JournalInv'
  <2>1. PICK tick : /\ process' = [process EXCEPT ![p] = tick]
                    /\ tick.at <= now /\ tick.pc \notin {"WORKING", "ALARMING"}
    BY <1>2, <1>a, GoesOnQuietly
  <2>2. UNCHANGED <<now, catchUp, job, log>>
    BY <1>2 DEF Begin, Look, Skip, LoseLease, Alarm, Stop
  <2>3. ClaimIsCurrent'
    BY <1>0, <2>1, <2>2 DEF ClaimIsCurrent, Working
  <2> QED BY <2>2, <2>3, NothingRecorded
<1>3. ASSUME NEW p \in Processes, NEW j \in Jobs, Claim(p, j) PROVE JournalInv'
  <2>1. /\ process'[p].at = process[p].at /\ process'[p].job = j
        /\ process'[p].slot = job[j].due /\ process'[p].failures = job[j].failures
        /\ process'[p].started = now
        /\ \A q \in Processes : q # p => process'[q] = process[q]
    <3>1. process[p] \in Ticks
      BY RunTyped
    <3> QED BY <1>0, <1>3, <3>1 DEF Claim, Leased, Ticks
  <2>2. /\ job'[j].owner = p /\ job'[j].due = job[j].due /\ job'[j].failures = job[j].failures
        /\ \A k \in Jobs : k # j => job'[k] = job[k]
    <3>1. job[j] \in JobRows
      BY <1>0
    <3> QED BY <1>0, <1>3, <3>1 DEF Claim, Leased, JobRows
  <2>3. job[j].due <= now
    <3>1. job[j].due \in Int
      BY <1>0 DEF JobRows
    <3> QED BY <1>0, <1>a, <1>3, <3>1 DEF Claim
  <2>4. UNCHANGED <<now, catchUp, log>>
    BY <1>3 DEF Claim
  <2>5. ClaimIsCurrent'
    <3>1. ASSUME NEW q \in Processes PROVE process'[q].at <= now'
      BY <1>a, <2>1, <2>4
    <3>2. ASSUME NEW q \in Processes, NEW k \in Jobs, Working(q, k)', job'[k].owner = q
          PROVE  /\ process'[q].slot = job'[k].due
                 /\ process'[q].failures = job'[k].failures
                 /\ process'[q].started >= process'[q].slot
      <4>1. CASE q = p
        BY <2>1, <2>2, <2>3, <3>2, <4>1 DEF Working
      <4>2. CASE q # p
        BY <1>0, <2>1, <2>2, <3>2, <4>2 DEF ClaimIsCurrent, Working
      <4> QED BY <4>1, <4>2
    <3> QED BY <3>1, <3>2 DEF ClaimIsCurrent
  <2>6. \A k \in Jobs : job'[k].due = job[k].due
    BY <2>2
  <2> QED BY <2>4, <2>5, <2>6, NothingRecorded
<1>4. ASSUME NEW p \in Processes, Renew(p) PROVE JournalInv'
  <2> DEFINE j == process[p].job
  <2>1. j \in Jobs
    BY <1>4, RunTyped DEF Renew
  <2>2. \A k \in Jobs : job'[k].due = job[k].due /\ job'[k].owner = job[k].owner
                        /\ job'[k].failures = job[k].failures
    <3>1. job[j] \in JobRows /\ job' = [job EXCEPT ![j] = [job[j] EXCEPT !.until = now + Lease]]
      BY <1>0, <1>4, <2>1 DEF Renew
    <3> HIDE DEF j
    <3> QED BY <1>0, <2>1, <3>1 DEF JobRows
  <2>3. UNCHANGED <<now, catchUp, log, process>>
    BY <1>4 DEF Renew
  <2>4. ClaimIsCurrent'
    BY <1>0, <2>2, <2>3 DEF ClaimIsCurrent, Working
  <2> QED BY <2>2, <2>3, <2>4, NothingRecorded
<1>5. ASSUME NEW p \in Processes, NEW outcome \in Outcomes, Finish(p, outcome) PROVE JournalInv'
  <2> DEFINE j == process[p].job
             run == [slot |-> process[p].slot, started |-> process[p].started,
                     finished |-> now, outcome |-> outcome]
  <2>1. j \in Jobs
    BY <1>5, RunTyped DEF Finish
  <2>2. run \in Records /\ job'[j].owner = Nobody /\ \A k \in Jobs : k # j => job'[k] = job[k]
    BY <1>5, <2>1, RecordingFollows
  <2>3. /\ process'[p].at = process[p].at
        /\ process'[p].pc # "WORKING"
        /\ \A q \in Processes : q # p => process'[q] = process[q]
    <3>1. process[p] \in Ticks
      BY RunTyped
    <3>2. Done(p, j).at = process[p].at /\ Done(p, j).pc # "WORKING"
      BY DoneTyped
    <3> QED BY <1>0, <1>5, <3>1, <3>2 DEF Finish, Ticks
  <2>4. ClaimIsCurrent'
    <3>1. now' = now
      BY <1>5 DEF Finish
    <3>2. ASSUME NEW q \in Processes PROVE process'[q].at <= now'
      BY <1>a, <2>3, <3>1
    <3>3. ASSUME NEW q \in Processes, NEW k \in Jobs, Working(q, k)', job'[k].owner = q
          PROVE  /\ process'[q].slot = job'[k].due
                 /\ process'[q].failures = job'[k].failures
                 /\ process'[q].started >= process'[q].slot
      <4>1. q # p /\ k # j
        BY <2>2, <2>3, <3>3 DEF Working, SchedulerAssumption
      <4> QED BY <1>0, <2>2, <2>3, <3>3, <4>1 DEF ClaimIsCurrent, Working
    <3> QED BY <3>2, <3>3 DEF ClaimIsCurrent
  <2> QED BY <1>5, <2>4, RecordingKeepsJournal DEF JournalInv
<1>6. CASE UNCHANGED vars
  BY <1>0, <1>6, NothingRecorded DEF vars, ClaimIsCurrent, Working
<1> QED
  BY <1>1, <1>2, <1>3, <1>4, <1>5, <1>6 DEF Next

(* The inductive invariant of the journal.                                 *)
THEOREM JournalHolds ==
  ASSUME SchedulerAssumption PROVE Spec => [](TypeOK /\ JournalInv)
<1>1. Init => TypeOK /\ JournalInv
  BY SchedulerInit
<1>2. TypeOK /\ JournalInv /\ [Next]_vars => TypeOK' /\ JournalInv'
  BY SchedulerTyped, JournalStep
<1> QED
  BY <1>1, <1>2, PTL DEF Spec

(* R-126: whichever processes run a job and whatever leases they lose, no  *)
(* slot is lost, none is completed twice, and they come in order.          *)
THEOREM SlotsInOrderHolds == ASSUME SchedulerAssumption PROVE Spec => []SlotsInOrder
<1>1. TypeOK /\ JournalInv => SlotsInOrder
  BY DEF JournalInv
<1> QED
  BY <1>1, JournalHolds, PTL

(* R-128: the starts of a LATEST job keep an interval after every run it   *)
(* has completed.                                                          *)
THEOREM StartsSpacedHolds == ASSUME SchedulerAssumption PROVE Spec => []StartsSpaced
<1>1. TypeOK /\ JournalInv => StartsSpaced
  BY DEF JournalInv
<1> QED
  BY <1>1, JournalHolds, PTL

(***************************************************************************)
(* One process per job.                                                    *)
(***************************************************************************)
(* While no lease has expired under a run, whoever runs a job has a lease  *)
(* of it that has not run out: the row names one owner, so one runs.       *)
LeaseHeld ==
  lapses = 0 => \A p \in Processes, j \in Jobs : Working(p, j) =>
                  job[j].owner = p /\ job[j].until > now

LEMMA LeaseStep ==
  ASSUME SchedulerAssumption, TypeOK, JournalInv, LeaseHeld, [Next]_vars
  PROVE  LeaseHeld'
<1>0. /\ now \in Int /\ lapses \in Nat
      /\ process \in [Processes -> Ticks] /\ job \in [Jobs -> JobRows]
      /\ Lease \in Nat /\ Lease > 0 /\ Nobody \notin Processes
  BY DEF TypeOK, Times, SchedulerAssumption
<1>a. \A p \in Processes : process[p].at <= now
  BY DEF JournalInv, ClaimIsCurrent
<1>b. \A j \in Jobs : job[j].until \in Int
  BY <1>0 DEF JobRows
<1>1. CASE Tick
  <2>1. ASSUME lapses' = 0, NEW p \in Processes, NEW j \in Jobs, Working(p, j)'
        PROVE  job'[j].owner = p /\ job'[j].until > now'
    <3>1. lapses = 0 /\ ~(\E q \in Processes : Lapsing(q))
      BY <1>0, <1>1, <2>1 DEF Tick
    <3>2. job' = job /\ process' = process /\ now' = now + 1
      BY <1>1 DEF Tick
    <3>3. Working(p, j)
      BY <2>1, <3>2 DEF Working
    <3>4. job[j].owner = p /\ job[j].until > now
      BY <3>1, <3>3 DEF LeaseHeld
    <3>5. job[j].until # now + 1
      BY <3>1, <3>3, <3>4 DEF Lapsing, Working
    <3> QED BY <1>0, <1>b, <3>2, <3>4, <3>5
  <2> QED BY <2>1 DEF LeaseHeld
<1>2. ASSUME NEW p \in Processes,
             Begin(p) \/ Look(p) \/ (\E j \in Jobs : Skip(p, j)) \/ LoseLease(p) \/ Alarm(p) \/ Stop(p)
      PROVE  LeaseHeld'
  <2>1. PICK tick : /\ process' = [process EXCEPT ![p] = tick]
                    /\ tick.at <= now /\ tick.pc \notin {"WORKING", "ALARMING"}
    BY <1>2, <1>a, GoesOnQuietly
  <2>2. UNCHANGED <<now, job, lapses>>
    BY <1>2 DEF Begin, Look, Skip, LoseLease, Alarm, Stop
  <2> QED BY <1>0, <2>1, <2>2 DEF LeaseHeld, Working
<1>3. ASSUME NEW p \in Processes, NEW j \in Jobs, Claim(p, j) PROVE LeaseHeld'
  <2>1. /\ process'[p].job = j
        /\ \A q \in Processes : q # p => process'[q] = process[q]
    <3>1. process[p] \in Ticks
      BY <1>0
    <3> QED BY <1>0, <1>3, <3>1 DEF Claim, Leased, Ticks
  <2>2. /\ job'[j].owner = p /\ job'[j].until = now + Lease
        /\ \A k \in Jobs : k # j => job'[k] = job[k]
    <3>1. job[j] \in JobRows
      BY <1>0
    <3> QED BY <1>0, <1>3, <3>1 DEF Claim, Leased, JobRows
  <2>3. UNCHANGED <<now, lapses>> /\ Free(j)
    BY <1>3 DEF Claim
  <2>4. ASSUME lapses = 0, NEW q \in Processes, NEW k \in Jobs, Working(q, k)'
        PROVE  job'[k].owner = q /\ job'[k].until > now
    <3>1. CASE q = p
      BY <1>0, <2>1, <2>2, <2>4, <3>1 DEF Working
    <3>2. CASE q # p
      <4>1. Working(q, k)
        BY <2>1, <2>4, <3>2 DEF Working
      <4>2. job[k].owner = q /\ job[k].until > now
        BY <2>4, <4>1 DEF LeaseHeld
      <4>3. k # j
        BY <1>0, <1>b, <2>3, <4>2 DEF Free
      <4> QED BY <2>2, <4>2, <4>3
    <3> QED BY <3>1, <3>2
  <2> QED BY <2>3, <2>4 DEF LeaseHeld
<1>4. ASSUME NEW p \in Processes, Renew(p) PROVE LeaseHeld'
  <2> DEFINE j == process[p].job
  <2>1. j \in Jobs
    BY <1>4, RunTyped DEF Renew
  <2>2. /\ \A k \in Jobs : job'[k].owner = job[k].owner
        /\ \A k \in Jobs : k # j => job'[k].until = job[k].until
        /\ job'[j].until = now + Lease
    <3>1. job[j] \in JobRows /\ job' = [job EXCEPT ![j] = [job[j] EXCEPT !.until = now + Lease]]
      BY <1>0, <1>4, <2>1 DEF Renew
    <3> HIDE DEF j
    <3> QED BY <1>0, <2>1, <3>1 DEF JobRows
  <2>3. UNCHANGED <<now, lapses, process>>
    BY <1>4 DEF Renew
  <2> HIDE DEF j
  <2>4. ASSUME NEW k \in Jobs, job[k].until > now PROVE job'[k].until > now
    BY <1>0, <2>2, <2>4
  <2> QED BY <2>2, <2>3, <2>4 DEF LeaseHeld, Working
<1>5. ASSUME NEW p \in Processes, NEW outcome \in Outcomes, Finish(p, outcome) PROVE LeaseHeld'
  <2> DEFINE j == process[p].job
             run == [slot |-> process[p].slot, started |-> process[p].started,
                     finished |-> now, outcome |-> outcome]
  <2>1. j \in Jobs
    BY <1>5, RunTyped DEF Finish
  <2>2. job[j].owner = p /\ \A k \in Jobs : k # j => job'[k] = job[k]
    <3>1. run \in Records /\ \A k \in Jobs : k # j => job'[k] = job[k]
      BY <1>5, <2>1, RecordingFollows
    <3> QED BY <1>5, <3>1 DEF Finish
  <2>3. process'[p].pc # "WORKING" /\ \A q \in Processes : q # p => process'[q] = process[q]
    <3>1. process[p] \in Ticks
      BY RunTyped
    <3>2. Done(p, j).pc # "WORKING"
      BY DoneTyped
    <3> QED BY <1>0, <1>5, <3>1, <3>2 DEF Finish, Ticks
  <2>4. UNCHANGED <<now, lapses>>
    BY <1>5 DEF Finish
  <2> HIDE DEF j
  <2> QED BY <2>2, <2>3, <2>4 DEF LeaseHeld, Working
<1>6. CASE UNCHANGED vars
  BY <1>6 DEF vars, LeaseHeld, Working
<1> QED
  BY <1>1, <1>2, <1>3, <1>4, <1>5, <1>6 DEF Next

(* R-126: as long as the heartbeats come in time, a job runs in one        *)
(* process, however many tick and whichever of them stop.                  *)
THEOREM OneRunnerHolds == ASSUME SchedulerAssumption PROVE Spec => []OneRunner
<1>1. Init => LeaseHeld
  <2>1. ASSUME Init PROVE \A p \in Processes : process[p].pc = "IDLE"
    BY <2>1 DEF Init, Idle
  <2> QED BY <2>1 DEF LeaseHeld, Working
<1>2. TypeOK /\ JournalInv /\ LeaseHeld /\ [Next]_vars => LeaseHeld'
  BY LeaseStep
<1>3. LeaseHeld => OneRunner
  BY DEF LeaseHeld, OneRunner
<1> QED
  BY <1>1, <1>2, <1>3, JournalHolds, PTL DEF Spec

(***************************************************************************)
(* One alert for a series.                                                 *)
(***************************************************************************)
FailedIn(L, i) == i \in DOMAIN L /\ L[i].outcome # "SUCCEEDED"
SeriesIn(L) ==
  {i \in DOMAIN L : /\ \A k \in i - AlertAfter + 1 .. i : FailedIn(L, k)
                    /\ ~FailedIn(L, i - AlertAfter)}

(* The row counts the failures at the end of the journal.                  *)
CountedIn(L, failures) ==
  /\ failures <= Len(L)
  /\ \A k \in Len(L) - failures + 1 .. Len(L) : FailedIn(L, k)
  /\ ~FailedIn(L, Len(L) - failures)

(* What the alerts of a job are compared with: raised, or about to be.     *)
Accounted(j) == told[Failing(j)] + Cardinality(Alarming(j))

AlertInv ==
  \A j \in Jobs :
    /\ CountedIn(log[j], job[j].failures)
    /\ IsFiniteSet(Alarming(j))
    /\ Accounted(j) <= Cardinality(SeriesIn(log[j]))
    /\ Cardinality(SeriesIn(log[j])) <= Accounted(j) + stops

(* A line of the journal completes a series exactly if it is a failure and *)
(* the failures before it are one short of a series.                       *)
LEMMA SeriesGrows ==
  ASSUME SchedulerAssumption, NEW L \in Seq(Records), NEW run \in Records,
         NEW f \in Nat, CountedIn(L, f)
  PROVE  LET M == Append(L, run)
             failed == run.outcome # "SUCCEEDED"
         IN /\ CountedIn(M, IF failed THEN f + 1 ELSE 0)
            /\ failed /\ f + 1 = AlertAfter => SeriesIn(M) = SeriesIn(L) \cup {Len(L) + 1}
            /\ ~failed \/ f + 1 # AlertAfter => SeriesIn(M) = SeriesIn(L)
<1> DEFINE M == Append(L, run)
           n == Len(L)
           A == AlertAfter
<1>1. /\ n \in Nat /\ Len(M) = n + 1 /\ DOMAIN M = 1..n + 1 /\ DOMAIN L = 1..n
      /\ \A i \in 1..n : M[i] = L[i]
      /\ M[n + 1] = run
  BY Appended
<1>2. A \in Nat /\ A > 0
  BY DEF SchedulerAssumption
<1>3. /\ f <= n
      /\ \A k \in n - f + 1 .. n : FailedIn(L, k)
      /\ ~FailedIn(L, n - f)
  BY DEF CountedIn
<1> HIDE DEF M, n, A
<1>4. \A i \in Int : i # n + 1 => (FailedIn(M, i) <=> FailedIn(L, i))
  BY <1>1 DEF FailedIn
<1>5. FailedIn(M, n + 1) <=> run.outcome # "SUCCEEDED"
  BY <1>1 DEF FailedIn
<1>6. CountedIn(M, IF run.outcome # "SUCCEEDED" THEN f + 1 ELSE 0)
  <2>1. CASE run.outcome # "SUCCEEDED"
    <3>1. \A k \in n + 1 - (f + 1) + 1 .. n + 1 : FailedIn(M, k)
      BY <1>1, <1>3, <1>4, <1>5, <2>1
    <3>2. ~FailedIn(M, n + 1 - (f + 1))
      <4>1. n + 1 - (f + 1) = n - f /\ n - f \in Int /\ n - f # n + 1
        BY <1>1
      <4> QED BY <1>3, <1>4, <4>1
    <3> QED BY <1>1, <1>3, <2>1, <3>1, <3>2 DEF CountedIn
  <2>2. CASE run.outcome = "SUCCEEDED"
    <3>1. ~FailedIn(M, n + 1 - 0)
      BY <1>1, <1>5, <2>2
    <3> QED BY <1>1, <2>2, <3>1 DEF CountedIn
  <2> QED BY <2>1, <2>2
<1>7. \A i \in 1..n : i \in SeriesIn(M) <=> i \in SeriesIn(L)
  <2>1. ASSUME NEW i \in 1..n PROVE i \in SeriesIn(M) <=> i \in SeriesIn(L)
    <3>1. /\ i \in DOMAIN M /\ i \in DOMAIN L
          /\ \A k \in i - A + 1 .. i : FailedIn(M, k) <=> FailedIn(L, k)
          /\ FailedIn(M, i - A) <=> FailedIn(L, i - A)
      BY <1>1, <1>2, <1>4
    <3> QED BY <3>1 DEF SeriesIn, A
  <2> QED BY <2>1
<1>8. n + 1 \in SeriesIn(M) <=> run.outcome # "SUCCEEDED" /\ f + 1 = A
  <2>0. n + 1 \in SeriesIn(M) <=> /\ \A k \in n + 1 - A + 1 .. n + 1 : FailedIn(M, k)
                                  /\ ~FailedIn(M, n + 1 - A)
    BY <1>1 DEF SeriesIn, A
  <2>1. CASE run.outcome = "SUCCEEDED"
    <3>1. n + 1 \in n + 1 - A + 1 .. n + 1
      BY <1>1, <1>2
    <3> QED BY <1>5, <2>0, <2>1, <3>1
  <2>2. CASE run.outcome # "SUCCEEDED" /\ f + 1 = A
    <3>1. \A k \in n + 1 - A + 1 .. n + 1 : FailedIn(M, k)
      BY <1>1, <1>3, <1>4, <1>5, <2>2
    <3>2. n + 1 - A = n - f /\ n - f \in Int /\ n - f # n + 1
      BY <1>1, <2>2
    <3> QED BY <1>3, <1>4, <2>0, <2>2, <3>1, <3>2
  <2>3. CASE f + 1 < A
    <3>1. n - f \in n + 1 - A + 1 .. n + 1 /\ n - f \in Int /\ n - f # n + 1
      BY <1>1, <1>2, <1>3, <2>3
    <3> QED BY <1>2, <1>3, <1>4, <2>0, <2>3, <3>1
  <2>4. CASE f + 1 > A
    <3>1. n + 1 - A \in n - f + 1 .. n /\ n + 1 - A \in Int /\ n + 1 - A # n + 1
      BY <1>1, <1>2, <1>3, <2>4
    <3> QED BY <1>2, <1>3, <1>4, <2>0, <2>4, <3>1
  <2> QED BY <1>2, <2>1, <2>2, <2>3, <2>4
<1>9. SeriesIn(M) \subseteq 1..n + 1 /\ SeriesIn(L) \subseteq 1..n
  BY <1>1 DEF SeriesIn
<1>10. run.outcome # "SUCCEEDED" /\ f + 1 = A => SeriesIn(M) = SeriesIn(L) \cup {n + 1}
  BY <1>1, <1>7, <1>8, <1>9
<1>11. run.outcome = "SUCCEEDED" \/ f + 1 # A => SeriesIn(M) = SeriesIn(L)
  <2>1. ASSUME run.outcome = "SUCCEEDED" \/ f + 1 # A PROVE SeriesIn(M) = SeriesIn(L)
    <3>1. n + 1 \notin SeriesIn(M)
      BY <1>8, <2>1
    <3>2. SeriesIn(M) \subseteq 1..n
      BY <1>1, <1>9, <3>1
    <3> QED BY <1>7, <1>9, <3>2
  <2> QED BY <2>1
<1> USE DEF M, n, A
<1>12. run.outcome # "SUCCEEDED" /\ f + 1 = AlertAfter
         => SeriesIn(Append(L, run)) = SeriesIn(L) \cup {Len(L) + 1}
  BY <1>10
<1>13. ~(run.outcome # "SUCCEEDED") \/ f + 1 # AlertAfter
         => SeriesIn(Append(L, run)) = SeriesIn(L)
  BY <1>11
<1> QED
  BY <1>6, <1>12, <1>13

LEMMA SeriesFinite ==
  ASSUME NEW L \in Seq(Records)
  PROVE  IsFiniteSet(SeriesIn(L)) /\ Len(L) + 1 \notin SeriesIn(L)
<1>1. IsFiniteSet(1..Len(L))
  BY FS_Interval
<1>2. SeriesIn(L) \subseteq 1..Len(L)
  BY DEF SeriesIn
<1>3. Len(L) + 1 \notin 1..Len(L)
  OBVIOUS
<1> QED
  BY <1>1, <1>2, <1>3, FS_Subset

(* A step that records nothing and raises no alert of a failing job.       *)
LEMMA AlertsKept ==
  ASSUME AlertInv, log' = log, stops' = stops,
         \A j \in Jobs : job'[j].failures = job[j].failures,
         \A j \in Jobs : told'[Failing(j)] = told[Failing(j)],
         \A j \in Jobs : Alarming(j)' = Alarming(j)
  PROVE  AlertInv'
<1>1. ASSUME NEW j \in Jobs
      PROVE  /\ CountedIn(log'[j], job'[j].failures)
             /\ IsFiniteSet(Alarming(j)')
             /\ Accounted(j)' = Accounted(j)
  BY DEF AlertInv, Accounted
<1> QED
  BY <1>1 DEF AlertInv

LEMMA AlertStep ==
  ASSUME SchedulerAssumption, TypeOK, JournalInv, AlertInv, [Next]_vars
  PROVE  AlertInv'
<1>0. /\ process \in [Processes -> Ticks] /\ job \in [Jobs -> JobRows]
      /\ log \in [Jobs -> Seq(Records)] /\ stops \in Nat
      /\ told \in [Alerts -> Nat] /\ told' \in [Alerts -> Nat] /\ stops' \in Nat
  BY SchedulerTyped DEF TypeOK
<1>a. \A p \in Processes : process[p].at <= now
  BY DEF JournalInv, ClaimIsCurrent
<1>b. \A j \in Jobs : /\ job[j].failures \in Nat /\ Failing(j) \in Alerts
                      /\ told[Failing(j)] \in Nat /\ told'[Failing(j)] \in Nat
  BY <1>0 DEF JobRows, Failing, Alerts
<1>c. \A j \in Jobs : /\ IsFiniteSet(SeriesIn(log[j])) /\ Len(log[j]) + 1 \notin SeriesIn(log[j])
                      /\ Cardinality(SeriesIn(log[j])) \in Nat
  BY <1>0, SeriesFinite, FS_CardinalityType
<1>d. \A j \in Jobs : IsFiniteSet(Alarming(j)) /\ Cardinality(Alarming(j)) \in Nat
  BY FS_CardinalityType DEF AlertInv
<1>1. CASE Tick
  <2>1. UNCHANGED <<job, log, process, told, stops>>
    BY <1>1 DEF Tick
  <2> QED BY <2>1, AlertsKept DEF Alarming
<1>2. ASSUME NEW p \in Processes, Begin(p) \/ Look(p) \/ (\E j \in Jobs : Skip(p, j)) \/ LoseLease(p)
      PROVE  AlertInv'
  <2>1. PICK tick : /\ process' = [process EXCEPT ![p] = tick]
                    /\ tick.pc \notin {"WORKING", "ALARMING"}
    BY <1>2, <1>a, GoesOnQuietly
  <2>2. UNCHANGED <<job, log, stops>> /\ process[p].pc # "ALARMING"
    BY <1>2 DEF Begin, Look, Skip, LoseLease, InHand
  <2>3. \A j \in Jobs : Alarming(j)' = Alarming(j)
    BY <1>0, <2>1, <2>2 DEF Alarming
  <2>4. ASSUME NEW j \in Jobs PROVE told'[Failing(j)] = told[Failing(j)]
    <3>1. CASE LoseLease(p)
      <4>1. LeaseLost(process[p].job) # Failing(j)
        BY DEF LeaseLost, Failing
      <4> QED BY <1>0, <1>b, <3>1, <4>1 DEF LoseLease, Raise
    <3>2. CASE ~LoseLease(p)
      BY <1>2, <3>2 DEF Begin, Look, Skip
    <3> QED BY <3>1, <3>2
  <2> QED BY <2>2, <2>3, <2>4, AlertsKept
<1>3. ASSUME NEW p \in Processes, NEW j \in Jobs, Claim(p, j) PROVE AlertInv'
  <2>1. /\ process[p].pc = "CLAIMING" /\ process'[p].pc = "WORKING"
        /\ \A q \in Processes : q # p => process'[q] = process[q]
    <3>1. process[p] \in Ticks
      BY <1>0
    <3> QED BY <1>0, <1>3, <3>1 DEF Claim, Leased, Ticks, InHand
  <2>2. \A k \in Jobs : job'[k].failures = job[k].failures
    <3>1. job[j] \in JobRows
      BY <1>0
    <3> QED BY <1>0, <1>3, <3>1 DEF Claim, Leased, JobRows
  <2>3. UNCHANGED <<log, told, stops>>
    BY <1>3 DEF Claim
  <2>4. \A k \in Jobs : Alarming(k)' = Alarming(k)
    BY <2>1 DEF Alarming
  <2> QED BY <2>2, <2>3, <2>4, AlertsKept
<1>4. ASSUME NEW p \in Processes, Renew(p) PROVE AlertInv'
  <2> DEFINE j == process[p].job
  <2>1. j \in Jobs
    BY <1>4, RunTyped DEF Renew
  <2>2. \A k \in Jobs : job'[k].failures = job[k].failures
    <3>1. job[j] \in JobRows /\ job' = [job EXCEPT ![j] = [job[j] EXCEPT !.until = now + Lease]]
      BY <1>0, <1>4, <2>1 DEF Renew
    <3> HIDE DEF j
    <3> QED BY <1>0, <2>1, <3>1 DEF JobRows
  <2>3. UNCHANGED <<log, process, told, stops>>
    BY <1>4 DEF Renew
  <2> QED BY <2>2, <2>3, AlertsKept DEF Alarming
<1>5. ASSUME NEW p \in Processes, NEW outcome \in Outcomes, Finish(p, outcome) PROVE AlertInv'
  <2>0. process[p].job \in Jobs /\ process[p].pc = "WORKING"
    BY <1>5, RunTyped DEF Finish
  <2>1. PICK j \in Jobs : j = process[p].job /\ process[p].pc = "WORKING"
    BY <2>0
  <2> DEFINE run == [slot |-> process[p].slot, started |-> process[p].started,
                     finished |-> now, outcome |-> outcome]
             failures == IF outcome # "SUCCEEDED" THEN job[j].failures + 1 ELSE 0
  <2>2. /\ run \in Records /\ run.outcome = outcome
        /\ log' = [log EXCEPT ![j] = Append(log[j], run)]
        /\ \A k \in Jobs : k # j => job'[k] = job[k]
    BY <1>5, <2>1, RecordingFollows
  <2>3. process[p].failures = job[j].failures
    BY <1>5, <2>1 DEF JournalInv, ClaimIsCurrent, Working, Finish
  <2>4. job'[j].failures = failures
    <3>1. job[j] \in JobRows
      BY <1>0, <2>1
    <3> QED BY <1>0, <1>5, <2>1, <3>1 DEF Finish, Recorded, JobRows
  <2>5. /\ process'[p].pc = "ALARMING" <=> AlertDue(p, outcome)
        /\ AlertDue(p, outcome) => process'[p].job = j
        /\ \A q \in Processes : q # p => process'[q] = process[q]
    <3>1. process[p] \in Ticks
      BY RunTyped
    <3>2. Done(p, j).pc # "ALARMING"
      BY DoneTyped
    <3>3. AlertDue(p, outcome) => outcome # "SUCCEEDED"
      BY DEF AlertDue
    <3> QED BY <1>0, <1>5, <2>1, <3>1, <3>2, <3>3 DEF Finish, Ticks
  <2>6. AlertDue(p, outcome) <=> outcome # "SUCCEEDED" /\ job[j].failures + 1 = AlertAfter
    BY <2>3 DEF AlertDue
  <2>7. UNCHANGED <<told, stops>>
    BY <1>5 DEF Finish
  <2> HIDE DEF run, failures
  <2>8. ASSUME NEW k \in Jobs, k # j
        PROVE  log'[k] = log[k] /\ job'[k] = job[k] /\ Alarming(k)' = Alarming(k)
    <3>1. log'[k] = log[k] /\ job'[k] = job[k]
      BY <1>0, <2>2, <2>8
    <3>2. Alarming(k)' = Alarming(k)
      BY <2>1, <2>5, <2>8 DEF Alarming
    <3> QED BY <3>1, <3>2
  <2>9. p \notin Alarming(j)
    BY <2>1 DEF Alarming
  <2>10. log'[j] = Append(log[j], run) /\ log[j] \in Seq(Records) /\ CountedIn(log[j], job[j].failures)
    BY <1>0, <2>1, <2>2 DEF AlertInv
  <2>11. /\ CountedIn(log'[j], failures)
         /\ AlertDue(p, outcome) => SeriesIn(log'[j]) = SeriesIn(log[j]) \cup {Len(log[j]) + 1}
         /\ ~AlertDue(p, outcome) => SeriesIn(log'[j]) = SeriesIn(log[j])
    <3> DEFINE L == log[j]
               f == job[j].failures
               failed == run.outcome # "SUCCEEDED"
    <3>1. f \in Nat /\ L \in Seq(Records) /\ CountedIn(L, f) /\ run \in Records
      BY <1>b, <2>2, <2>10
    <3> HIDE DEF L, f
    <3>2. /\ CountedIn(Append(L, run), IF failed THEN f + 1 ELSE 0)
          /\ failed /\ f + 1 = AlertAfter => SeriesIn(Append(L, run)) = SeriesIn(L) \cup {Len(L) + 1}
          /\ ~failed \/ f + 1 # AlertAfter => SeriesIn(Append(L, run)) = SeriesIn(L)
      BY <3>1, SeriesGrows
    <3>3. failures = IF failed THEN f + 1 ELSE 0
      BY <2>2 DEF failures, f
    <3>4. AlertDue(p, outcome) <=> failed /\ f + 1 = AlertAfter
      BY <2>2, <2>6 DEF f
    <3>5. log'[j] = Append(L, run) /\ log[j] = L
      BY <2>10 DEF L
    <3> HIDE DEF failed
    <3> QED BY <3>2, <3>3, <3>4, <3>5
  <2>12. CASE AlertDue(p, outcome)
    <3>1. Alarming(j)' = Alarming(j) \cup {p}
      BY <2>5, <2>12 DEF Alarming
    <3>2. IsFiniteSet(Alarming(j)') /\ Cardinality(Alarming(j)') = Cardinality(Alarming(j)) + 1
      BY <1>d, <2>1, <2>9, <3>1, FS_AddElement
    <3>3. Cardinality(SeriesIn(log'[j])) = Cardinality(SeriesIn(log[j])) + 1
      <4>1. IsFiniteSet(SeriesIn(log[j])) /\ Len(log[j]) + 1 \notin SeriesIn(log[j])
        BY <1>c
      <4>2. SeriesIn(log'[j]) = SeriesIn(log[j]) \cup {Len(log[j]) + 1}
        BY <2>11, <2>12
      <4> QED BY <4>1, <4>2, FS_AddElement
    <3>4. Accounted(j)' = Accounted(j) + 1
      BY <1>b, <1>d, <2>1, <2>7, <3>2 DEF Accounted
    <3>5. /\ Accounted(j) \in Nat
          /\ Accounted(j) <= Cardinality(SeriesIn(log[j]))
          /\ Cardinality(SeriesIn(log[j])) <= Accounted(j) + stops
      BY <1>b, <1>d, <2>1 DEF AlertInv, Accounted
    <3>6. /\ Accounted(j)' <= Cardinality(SeriesIn(log'[j]))
          /\ Cardinality(SeriesIn(log'[j])) <= Accounted(j)' + stops'
      BY <1>0, <1>c, <2>1, <2>7, <3>3, <3>4, <3>5
    <3>7. ASSUME NEW k \in Jobs, k # j
          PROVE  /\ CountedIn(log'[k], job'[k].failures)
                 /\ IsFiniteSet(Alarming(k)')
                 /\ Accounted(k)' <= Cardinality(SeriesIn(log'[k]))
                 /\ Cardinality(SeriesIn(log'[k])) <= Accounted(k)' + stops'
      BY <2>7, <2>8, <3>7 DEF AlertInv, Accounted
    <3>8. CountedIn(log'[j], job'[j].failures)
      BY <2>4, <2>11
    <3> QED BY <3>2, <3>6, <3>7, <3>8 DEF AlertInv
  <2>13. CASE ~AlertDue(p, outcome)
    <3>1. Alarming(j)' = Alarming(j)
      BY <2>5, <2>9, <2>13 DEF Alarming
    <3>2. \A k \in Jobs : Alarming(k)' = Alarming(k) /\ Accounted(k)' = Accounted(k)
      BY <2>7, <2>8, <3>1 DEF Accounted
    <3>3. \A k \in Jobs : SeriesIn(log'[k]) = SeriesIn(log[k])
      BY <2>8, <2>11, <2>13
    <3>4. \A k \in Jobs : CountedIn(log'[k], job'[k].failures)
      BY <2>4, <2>8, <2>11 DEF AlertInv
    <3>5. ASSUME NEW k \in Jobs
          PROVE  /\ IsFiniteSet(Alarming(k)')
                 /\ Accounted(k)' <= Cardinality(SeriesIn(log'[k]))
                 /\ Cardinality(SeriesIn(log'[k])) <= Accounted(k)' + stops'
      BY <2>7, <3>2, <3>3 DEF AlertInv
    <3> QED BY <3>4, <3>5 DEF AlertInv
  <2> QED BY <2>12, <2>13
<1>6. ASSUME NEW p \in Processes, Alarm(p) \/ Stop(p) PROVE AlertInv'
  <2>1. PICK tick : /\ process' = [process EXCEPT ![p] = tick]
                    /\ tick.pc \notin {"WORKING", "ALARMING"}
    BY <1>6, <1>a, GoesOnQuietly
  <2>2. UNCHANGED <<job, log>>
    BY <1>6 DEF Alarm, Stop
  <2>3. ASSUME NEW j \in Jobs PROVE Alarming(j)' = Alarming(j) \ {p}
    BY <1>0, <2>1 DEF Alarming
  <2>4. ASSUME NEW j \in Jobs
        PROVE  /\ IsFiniteSet(Alarming(j)')
               /\ Cardinality(Alarming(j)') = Cardinality(Alarming(j)) - (IF p \in Alarming(j) THEN 1 ELSE 0)
    BY <1>d, <2>3, FS_RemoveElement
  <2>5. ASSUME NEW j \in Jobs
        PROVE  /\ Accounted(j)' <= Accounted(j)
               /\ Accounted(j) + stops <= Accounted(j)' + stops'
    <3>1. CASE Alarm(p)
      <4>1. process[p].pc = "ALARMING" /\ process[p].job \in Jobs /\ stops' = stops
        BY <1>0, <3>1, RunTyped DEF Alarm
      <4>2. p \in Alarming(j) <=> process[p].job = j
        BY <4>1 DEF Alarming
      <4>3. Failing(process[p].job) = Failing(j) <=> process[p].job = j
        BY DEF Failing
      <4>4. told'[Failing(j)] = told[Failing(j)] + (IF p \in Alarming(j) THEN 1 ELSE 0)
        BY <1>0, <1>b, <3>1, <4>1, <4>2, <4>3 DEF Alarm, Raise
      <4>5. Cardinality(Alarming(j)') \in Nat
        BY <2>4, FS_CardinalityType
      <4> QED BY <1>0, <1>b, <1>d, <2>4, <4>1, <4>4, <4>5 DEF Accounted
    <3>2. CASE Stop(p)
      <4>1. told' = told /\ stops' = stops + 1
        BY <3>2 DEF Stop
      <4>2. Cardinality(Alarming(j)') \in Nat
        BY <2>4, FS_CardinalityType
      <4>3. /\ Accounted(j) = told[Failing(j)] + Cardinality(Alarming(j))
            /\ Accounted(j)' = told[Failing(j)] + Cardinality(Alarming(j)')
        BY <4>1 DEF Accounted
      <4>4. /\ Cardinality(Alarming(j)') <= Cardinality(Alarming(j))
            /\ Cardinality(Alarming(j)) <= Cardinality(Alarming(j)') + 1
        BY <1>d, <2>4, <4>2
      <4> QED BY <1>0, <1>b, <1>d, <4>1, <4>2, <4>3, <4>4
    <3> QED BY <1>6, <3>1, <3>2
  <2>6. \A j \in Jobs : Accounted(j) \in Int /\ Accounted(j)' \in Int
    BY <1>b, <1>d, <2>4, FS_CardinalityType DEF Accounted
  <2>7. ASSUME NEW j \in Jobs
        PROVE  /\ Accounted(j)' <= Cardinality(SeriesIn(log[j]))
               /\ Cardinality(SeriesIn(log[j])) <= Accounted(j)' + stops'
    <3>1. /\ Accounted(j) <= Cardinality(SeriesIn(log[j]))
          /\ Cardinality(SeriesIn(log[j])) <= Accounted(j) + stops
      BY DEF AlertInv
    <3> QED BY <1>0, <1>c, <2>5, <2>6, <3>1
  <2>8. \A j \in Jobs : CountedIn(log'[j], job'[j].failures)
    BY <2>2 DEF AlertInv
  <2> QED BY <2>2, <2>4, <2>7, <2>8 DEF AlertInv
<1>7. CASE UNCHANGED vars
  <2>1. UNCHANGED <<job, log, process, told, stops>>
    BY <1>7 DEF vars
  <2> QED BY <2>1, AlertsKept DEF Alarming
<1> QED
  BY <1>1, <1>2, <1>3, <1>4, <1>5, <1>6, <1>7 DEF Next

(* scheduler.ts: a series of failures raises one alert, never a second,    *)
(* and misses it only if a process stopped before raising it.              *)
THEOREM SeriesToldOnceHolds == ASSUME SchedulerAssumption PROVE Spec => []SeriesToldOnce
<1>1. Init => AlertInv
  <2>1. ASSUME Init, NEW j \in Jobs
        PROVE  /\ CountedIn(log[j], job[j].failures)
               /\ IsFiniteSet(Alarming(j))
               /\ Accounted(j) <= Cardinality(SeriesIn(log[j]))
               /\ Cardinality(SeriesIn(log[j])) <= Accounted(j) + stops
    <3>1. log[j] = <<>> /\ job[j].failures = 0 /\ told[Failing(j)] = 0 /\ stops = 0
      BY <2>1 DEF Init, Failing, Alerts
    <3>2. Alarming(j) = {}
      BY <2>1 DEF Init, Idle, Alarming
    <3>3. SeriesIn(log[j]) = {}
      BY <3>1 DEF SeriesIn
    <3>4. CountedIn(log[j], 0)
      BY <3>1 DEF CountedIn, FailedIn
    <3>5. IsFiniteSet({}) /\ Cardinality({}) = 0
      BY FS_EmptySet
    <3>6. Accounted(j) = 0 /\ Cardinality(SeriesIn(log[j])) = 0
      <4>1. Accounted(j) = told[Failing(j)] + Cardinality(Alarming(j))
        BY DEF Accounted
      <4>2. told[Failing(j)] = 0 /\ Cardinality(Alarming(j)) = 0 /\ Cardinality(SeriesIn(log[j])) = 0
        BY <3>1, <3>2, <3>3, <3>5
      <4> QED BY <4>1, <4>2
    <3> QED BY <3>1, <3>2, <3>4, <3>5, <3>6
  <2> QED BY <2>1 DEF AlertInv
<1>2. TypeOK /\ JournalInv /\ AlertInv /\ [Next]_vars => AlertInv'
  BY AlertStep
<1>3. AlertInv => SeriesToldOnce
  <2>1. \A j \in Jobs : Series(j) = SeriesIn(log[j])
    BY DEF Series, SeriesIn, Failed, FailedIn
  <2> QED BY <2>1 DEF AlertInv, SeriesToldOnce, Accounted
<1> QED
  BY <1>1, <1>2, <1>3, JournalHolds, PTL DEF Spec

=============================================================================
