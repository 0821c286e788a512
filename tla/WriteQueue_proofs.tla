-------------------------- MODULE WriteQueue_proofs --------------------------
(***************************************************************************)
(* Proofs about WriteQueue, for every number of processes, versions,       *)
(* attempts and crashes, both kinds of channel and both fields. The second *)
(* half, about requests on their way, assumes one dispatcher process for   *)
(* the scope and deadlines longer than what they wait for.                 *)
(***************************************************************************)
EXTENDS WriteQueue, TLAPS

USE DEF Versions, NoValue

(* What the insert of version latestCreated + 1 does to the rows.          *)
LEMMA InsertedRows ==
  ASSUME WriteQueueAssumption, TypeOK, NEW q \in Values, latestCreated + 1 \in Versions
  PROVE  /\ Inserted(q) \in [Versions -> Rows]
         /\ Inserted(q)[latestCreated + 1].status \in {"PENDING", "BLOCKED"}
         /\ Inserted(q)[latestCreated + 1].attempts = 0
         /\ \A v \in Versions : v # latestCreated + 1 => Inserted(q)[v] = Superseded(write[v])
<1>1. NewRow(q) \in Rows /\ NewRow(q).status \in {"PENDING", "BLOCKED"} /\ NewRow(q).attempts = 0
  <2>1. Direction(q) \in Directions
    BY DEF Direction, Directions
  <2>2. NoRow \in Rows /\ NoRow.attempts = 0
    BY MaxAttemptsAssumption DEF NoRow, Rows, Statuses, Directions, Ages
  <2> DEFINE row == [NoRow EXCEPT !.status = "PENDING", !.value = q, !.direction = Direction(q)]
  <2>3. row \in Rows /\ row.attempts = 0
    BY <2>1, <2>2 DEF Rows, Statuses
  <2>4. NewRow(q) = [row EXCEPT !.status = IF Barred(row) THEN "BLOCKED" ELSE "PENDING"]
    BY DEF NewRow
  <2> HIDE DEF row
  <2> QED BY <2>3, <2>4 DEF Rows, Statuses
<1>2. ASSUME NEW v \in Versions PROVE Superseded(write[v]) \in Rows
  <2>1. write[v] \in Rows
    BY DEF TypeOK
  <2>2. \A status \in {"DISCARDED_STALE", "SUPERSEDED"} : Ended(write[v], status) \in Rows
    BY <2>1 DEF Ended, Rows, Statuses, Ages
  <2> QED BY <2>1, <2>2 DEF Superseded
<1> QED
  BY <1>1, <1>2 DEF Inserted

(* A row that waits may be claimed as long as it has an attempt left.      *)
LEMMA ClaimedRow ==
  ASSUME WriteQueueAssumption, NEW row \in Rows, row.attempts < MaxAttempts
  PROVE  /\ Claimed(row) \in Rows
         /\ Claimed(row).status = "DISPATCHED"
         /\ row.attempts + 1 \in 1..MaxAttempts
<1>1. row.attempts \in 0..MaxAttempts
  BY DEF Rows
<1>2. row.attempts + 1 \in 0..MaxAttempts /\ row.attempts + 1 \in 1..MaxAttempts
  BY <1>1, MaxAttemptsAssumption
<1> QED
  BY <1>2 DEF Claimed, Rows, Statuses, Ages

(* What recording an outcome or a reading may do to a row.                 *)
LEMMA PlannedRow ==
  ASSUME NEW row \in Rows, NEW plan
  PROVE  /\ AfterPlan(row, plan) \in Rows
         /\ AfterPlan(row, plan).attempts = row.attempts
         /\ AfterPlan(row, plan).value = row.value
         /\ row.status \in {"DISPATCHED", "ACCEPTED"}
              => AfterPlan(row, plan).status \in Statuses \ {"NONE", "PENDING", "BLOCKED"}
<1> DEFINE Good(r) == /\ r \in Rows /\ r.attempts = row.attempts /\ r.value = row.value
                      /\ row.status \in {"DISPATCHED", "ACCEPTED"}
                           => r.status \in Statuses \ {"NONE", "PENDING", "BLOCKED"}
<1>1. \A s \in {"ACCEPTED", "FAILED"}, n \in {"NONE", "LATER", "DUE"} :
        Good([row EXCEPT !.status = s, !.next = n, !.age = "FRESH"])
  <2>1. ASSUME NEW s \in {"ACCEPTED", "FAILED"}, NEW n \in {"NONE", "LATER", "DUE"}
        PROVE  Good([row EXCEPT !.status = s, !.next = n, !.age = "FRESH"])
    <3> DEFINE r == [row EXCEPT !.status = s, !.next = n, !.age = "FRESH"]
    <3>1. r \in Rows
      BY DEF Rows, Statuses, Ages
    <3>2. r.attempts = row.attempts /\ r.value = row.value /\ r.status = s
      BY DEF Rows
    <3> HIDE DEF r
    <3>3. Good(r)
      BY <3>1, <3>2 DEF Statuses
    <3> QED BY <3>3 DEF r
  <2> QED BY <2>1
<1>2. \A n \in {"NONE", "LATER"} : Good([row EXCEPT !.next = n])
  BY DEF Rows, Statuses
<1>3. \A s \in Final : Good(Ended(row, s)) /\ Good([Ended(row, s) EXCEPT !.refused = TRUE])
  <2>1. ASSUME NEW s \in Final PROVE Good(Ended(row, s))
    BY <2>1 DEF Ended, Rows, Statuses, Ages, Final
  <2>2. ASSUME NEW s \in Final PROVE Good([Ended(row, s) EXCEPT !.refused = TRUE])
    BY <2>1, <2>2 DEF Rows
  <2> QED BY <2>1, <2>2
<1> HIDE DEF Good
<1>4. Good(AfterPlan(row, plan))
  BY <1>1, <1>2, <1>3 DEF AfterPlan, Final
<1> QED
  BY <1>4 DEF Good

(* One field of a row set to a value of its range.                         *)
LEMMA SetField ==
  ASSUME NEW row \in Rows
  PROVE  /\ \A s \in Statuses : [row EXCEPT !.status = s] \in Rows
         /\ [row EXCEPT !.next = "DUE"] \in Rows
         /\ \A a \in Ages : [row EXCEPT !.age = a] \in Rows
  BY DEF Rows, Statuses, Ages

(* Ending a row keeps its attempts.                                        *)
LEMMA EndedRow ==
  ASSUME NEW row \in Rows, NEW status \in Final
  PROVE  Ended(row, status) \in Rows /\ Ended(row, status).attempts = row.attempts
         /\ Ended(row, status).status = status
  BY DEF Ended, Rows, Statuses, Final, Ages

(* Where settling leaves a row that was in flight.                         *)
LEMMA PlanStatus ==
  ASSUME NEW row \in Rows, NEW plan
  PROVE  /\ row.status = "DISPATCHED" =>
              AfterPlan(row, plan).status \in Final \cup {"DISPATCHED", "ACCEPTED", "FAILED"}
         /\ row.status = "ACCEPTED" /\ plan \in {"ACCEPT_APPLIED", "NOT_APPLIED", "RECONCILE", "UNRESOLVED"}
              => AfterPlan(row, plan).status \in Final \cup {"ACCEPTED"}
  BY DEF AfterPlan, Ended, Rows, Final

(***************************************************************************)
(* Type correctness.                                                       *)
(***************************************************************************)
LEMMA InitTyped == ASSUME WriteQueueAssumption PROVE Init => TypeOK
  BY MaxAttemptsAssumption
     DEF WriteQueueAssumption, Init, TypeOK, NoRow, Rows, Statuses, Directions, Ages, Idle, Jobs

LEMMA NextTyped ==
  ASSUME WriteQueueAssumption, TypeOK, [Next]_vars
  PROVE  TypeOK'
<1> USE DEF WriteQueueAssumption
<1>1. ASSUME NEW p \in Deciders, NEW q \in Values, CommitDecision(p, q) PROVE TypeOK'
  <2> DEFINE v == latestCreated + 1
             rows == Inserted(q)
  <2>1. v \in Versions /\ latestCreated' = v
    BY <1>1 DEF CommitDecision
  <2>2. rows \in [Versions -> Rows] /\ rows[v].attempts = 0
    BY <2>1, InsertedRows
  <2>3. Claimed(rows[v]) \in Rows /\ Ended(rows[v], "BUDGET_EXHAUSTED") \in Rows
    BY <2>1, <2>2, ClaimedRow, EndedRow, MaxAttemptsAssumption DEF Final
  <2>4. write' \in [Versions -> Rows]
    BY <1>1, <2>1, <2>2, <2>3 DEF CommitDecision
  <2>5. inFlight' \in 0..MaxVersion /\ latestDispatched' \in 0..MaxVersion
    BY <1>1, <2>1 DEF CommitDecision, Fly, Larger, TypeOK
  <2>6. thread' \in [Threads -> Jobs]
    <3>1. [pc |-> "CLAIMED", v |-> v, attempt |-> 1] \in Jobs
      BY <2>1, MaxAttemptsAssumption DEF Jobs
    <3> QED BY <1>1, <3>1 DEF CommitDecision, Fly, TypeOK
  <2> QED BY <1>1, <2>1, <2>4, <2>5, <2>6 DEF CommitDecision, TypeOK, outside
<1>2. ASSUME NEW q \in Values, Recalculate(q) PROVE TypeOK'
  BY <1>2, InsertedRows DEF Recalculate, TypeOK, outside
<1>3. ASSUME NEW c \in Chains, ClaimNext(c) PROVE TypeOK'
  <2>1. CASE ClaimReconciliation(c)
    <3>1. inFlight \in Versions
      BY <2>1 DEF ClaimReconciliation, TypeOK
    <3>2. [pc |-> "READING", v |-> inFlight] \in Jobs
      BY <3>1 DEF Jobs
    <3> QED BY <2>1, <3>2 DEF ClaimReconciliation, TypeOK, queue, outside
  <2>2. CASE DiscardOlder(c)
    <3>1. \A v \in Versions : Ended(write[v], "DISCARDED_STALE") \in Rows
      BY EndedRow DEF TypeOK, Final
    <3> QED BY <2>2, <3>1 DEF DiscardOlder, TypeOK, outside
  <2>3. ASSUME NEW v \in Versions, ClaimDispatch(c, v) PROVE TypeOK'
    <3>1. Claimed(write[v]) \in Rows /\ write[v].attempts + 1 \in 1..MaxAttempts
      BY <2>3, ClaimedRow DEF ClaimDispatch, TypeOK
    <3>2. [pc |-> "CLAIMED", v |-> v, attempt |-> write[v].attempts + 1] \in Jobs
      BY <3>1 DEF Jobs
    <3>3. write' \in [Versions -> Rows]
      BY <2>3, <3>1 DEF ClaimDispatch, TypeOK
    <3>4. thread' \in [Threads -> Jobs]
      BY <2>3, <3>2 DEF ClaimDispatch, Fly, TypeOK
    <3>5. inFlight' \in 0..MaxVersion /\ latestDispatched' \in 0..MaxVersion
      BY <2>3 DEF ClaimDispatch, Fly, Larger, TypeOK
    <3> QED BY <2>3, <3>3, <3>4, <3>5 DEF ClaimDispatch, TypeOK, outside
  <2>4. ASSUME NEW v \in Versions, ClaimEnds(c, v) PROVE TypeOK'
    <3>1. \A status \in Refusals \cup {"DISCARDED_STALE"} : Ended(write[v], status) \in Rows
      BY EndedRow DEF TypeOK, Final
    <3> QED BY <2>4, <3>1 DEF ClaimEnds, TypeOK, outside
  <2>5. ASSUME NEW v \in Versions, ClaimBlocks(c, v) PROVE TypeOK'
    <3>1. [write[v] EXCEPT !.status = "BLOCKED"] \in Rows
      BY SetField DEF TypeOK, Statuses
    <3> QED BY <2>5, <3>1 DEF ClaimBlocks, TypeOK, outside
  <2> QED BY <1>3, <2>1, <2>2, <2>3, <2>4, <2>5 DEF ClaimNext
<1>4. ASSUME NEW p \in Threads, Settle(p) PROVE TypeOK'
  <2>0. thread[p] \in Jobs
    BY DEF TypeOK
  <2>1. CASE Plan(p) \/ GiveUp(p)
    <3>1. thread[p].v \in Versions
      BY <2>0, <2>1 DEF Plan, GiveUp, Jobs
    <3>2. \A answer \in Answers : [pc |-> "ANSWERED", v |-> thread[p].v, answer |-> answer] \in Jobs
      BY <3>1 DEF Jobs
    <3>3. PICK answer \in Answers :
            thread' = [thread EXCEPT ![p] = [pc |-> "ANSWERED", v |-> thread[p].v, answer |-> answer]]
      BY <2>1 DEF Plan, GiveUp, Answered, Answers, Refused
    <3>4. thread' \in [Threads -> Jobs]
      BY <3>2, <3>3 DEF TypeOK
    <3>5. UNCHANGED <<queue, scope, outside, crashes>>
      BY <2>1 DEF Plan, GiveUp
    <3> QED BY <3>4, <3>5 DEF TypeOK, queue, outside
  <2>2. CASE Send(p)
    <3>1. /\ Request(p) \in Requests
          /\ [thread[p] EXCEPT !.pc = "SENDING"] \in Jobs
      BY <2>0, <2>2 DEF Send, Request, Requests, Jobs
    <3> QED BY <2>2, <3>1 DEF Send, TypeOK, queue
  <2>3. CASE ReadBack(p)
    <3>1. thread[p].v \in Versions
      BY <2>0, <2>3 DEF ReadBack, Jobs
    <3>2. \A reading \in Readings : [pc |-> "OBSERVED", v |-> thread[p].v, reading |-> reading] \in Jobs
      BY <3>1 DEF Jobs
    <3>3. PICK reading \in Readings :
            thread' = [thread EXCEPT ![p] = [pc |-> "OBSERVED", v |-> thread[p].v, reading |-> reading]]
      BY <2>3 DEF ReadBack, Readings
    <3>4. thread' \in [Threads -> Jobs]
      BY <3>2, <3>3 DEF TypeOK
    <3> QED BY <2>3, <3>4 DEF ReadBack, TypeOK, queue, outside
  <2>4. ASSUME NEW v \in Versions, NEW plan, Apply(v, plan) PROVE
        /\ write' \in [Versions -> Rows] /\ inFlight' \in 0..MaxVersion
        /\ lastSent' \in Values \cup {NoValue} /\ latestApplied' \in 0..MaxVersion
        /\ scope' \in [field: Fields, status: {"ACTIVE", "HELD", "BLOCKED"}]
        /\ latestCreated' \in 0..MaxVersion /\ latestDispatched' \in 0..MaxVersion
    <3>1. AfterPlan(write[v], plan) \in Rows
      BY PlannedRow DEF TypeOK
    <3>2. write' \in [Versions -> Rows]
      BY <2>4, <3>1 DEF Apply, TypeOK
    <3>3. lastSent' \in Values \cup {NoValue}
      BY <2>4, <3>1 DEF Apply, TypeOK, Rows
    <3> QED BY <2>4, <3>2, <3>3 DEF Apply, Larger, TypeOK
  <2>5. CASE RecordOutcome(p)
    <3>1. thread[p].v \in Versions
      BY <2>0, <2>5 DEF RecordOutcome, Jobs
    <3>2. thread' \in [Threads -> Jobs]
      BY <2>5 DEF RecordOutcome, TypeOK, Idle, Jobs
    <3>3. CASE write[thread[p].v].status = "DISPATCHED"
      BY <2>4, <2>5, <3>1, <3>2, <3>3 DEF RecordOutcome, TypeOK, outside
    <3>4. CASE write[thread[p].v].status # "DISPATCHED"
      BY <2>5, <3>2, <3>4 DEF RecordOutcome, TypeOK, outside, queue
    <3> QED BY <3>3, <3>4
  <2>6. CASE RecordReconciliation(p)
    <3>1. thread[p].v \in Versions
      BY <2>0, <2>6 DEF RecordReconciliation, Jobs
    <3>2. thread' \in [Threads -> Jobs]
      BY <2>6 DEF RecordReconciliation, TypeOK, Idle, Jobs
    <3>3. CASE write[thread[p].v].status \in {"DISPATCHED", "ACCEPTED"}
      BY <2>4, <2>6, <3>1, <3>2, <3>3 DEF RecordReconciliation, TypeOK, outside
    <3>4. CASE write[thread[p].v].status \notin {"DISPATCHED", "ACCEPTED"}
      BY <2>6, <3>2, <3>4 DEF RecordReconciliation, TypeOK, outside, queue
    <3> QED BY <3>3, <3>4
  <2> QED BY <1>4, <2>1, <2>2, <2>3, <2>5, <2>6 DEF Settle
<1>5. ASSUME NEW p \in Threads, Crash(p) PROVE TypeOK'
  BY <1>5 DEF Crash, TypeOK, queue, outside, Idle, Jobs
<1>6. ASSUME NEW r \in transit, Deliver(r) \/ Refuse(r) PROVE TypeOK'
  <2>1. r \in Requests
    BY DEF TypeOK
  <2>2. ASSUME NEW answers \in SUBSET Answers, Reply(r, answers) PROVE thread' \in [Threads -> Jobs]
    <3>1. PICK answer \in Answers : thread' = [p \in Threads |->
             IF p \in Waiting(r) THEN Answered(p, answer)[p] ELSE thread[p]]
      BY <2>2 DEF Reply, Answers
    <3>2. ASSUME NEW p \in Waiting(r) PROVE Answered(p, answer)[p] \in Jobs
      <4>1. p \in Threads /\ thread[p] \in Jobs /\ thread[p].pc = "SENDING"
        BY <3>2 DEF Waiting, TypeOK
      <4>2. thread[p].v \in Versions
        BY <4>1 DEF Jobs
      <4>3. [pc |-> "ANSWERED", v |-> thread[p].v, answer |-> answer] \in Jobs
        BY <4>2 DEF Jobs
      <4> QED BY <4>1, <4>3 DEF Answered, TypeOK
    <3> QED BY <3>1, <3>2 DEF TypeOK
  <2>3. CASE Deliver(r)
    <3>1. thread' \in [Threads -> Jobs]
      BY <2>2, <2>3 DEF Deliver, Answers
    <3> QED BY <2>1, <2>3, <3>1 DEF Deliver, TypeOK, queue, Requests
  <2>4. CASE Refuse(r)
    <3>1. thread' \in [Threads -> Jobs]
      BY <2>2, <2>4 DEF Refuse, Answers
    <3> QED BY <2>4, <3>1 DEF Refuse, TypeOK, queue
  <2> QED BY <1>6, <2>3, <2>4
<1>7. ASSUME NEW r \in submitted, ApplySubmitted(r) \/ DropSubmitted(r) PROVE TypeOK'
  <2>1. r.v \in Versions
    BY DEF TypeOK, Requests
  <2>2. submitted' \subseteq Requests /\ channel' \in 0..MaxVersion
    BY <1>7, <2>1 DEF ApplySubmitted, DropSubmitted, TypeOK, Versions
  <2>3. UNCHANGED <<queue, scope, thread, transit, crashes>>
    BY <1>7 DEF ApplySubmitted, DropSubmitted
  <2> QED BY <2>2, <2>3 DEF TypeOK, queue
<1>8. ASSUME NEW v \in Versions, NextDue(v) \/ Age(v) PROVE TypeOK'
  <2>1. write' \in [Versions -> Rows]
    <3>1. [write[v] EXCEPT !.next = "DUE"] \in Rows
      BY SetField DEF TypeOK
    <3>2. \A a \in Ages : [write[v] EXCEPT !.age = a] \in Rows
      BY SetField DEF TypeOK
    <3>3. CASE NextDue(v)
      <4>1. write' = [write EXCEPT ![v] = [write[v] EXCEPT !.next = "DUE"]]
        BY <3>3 DEF NextDue
      <4> QED BY <3>1, <4>1 DEF TypeOK
    <3>4. CASE Age(v)
      <4>1. PICK a \in Ages : write' = [write EXCEPT ![v] = [write[v] EXCEPT !.age = a]]
        BY <3>4 DEF Age, Ages
      <4> QED BY <3>2, <4>1 DEF TypeOK
    <3> QED BY <1>8, <3>3, <3>4
  <2> QED BY <1>8, <2>1 DEF NextDue, Age, TypeOK, outside
<1>9. ASSUME NEW status \in {"ACTIVE", "HELD"}, SetScopeStatus(status) PROVE TypeOK'
  BY <1>9 DEF SetScopeStatus, TypeOK, queue, outside
<1>10. CASE UNCHANGED vars
  BY <1>10 DEF vars, queue, outside, TypeOK
<1> QED
  BY <1>1, <1>2, <1>3, <1>4, <1>5, <1>6, <1>7, <1>8, <1>9, <1>10 DEF Next

(* Every reachable state is well typed; in particular no write is ever     *)
(* attempted more than MaxAttempts times.                                  *)
THEOREM TypeCorrect == Spec => []TypeOK
<1>1. Init => TypeOK
  BY InitTyped, WriteQueueAssumption
<1>2. TypeOK /\ [Next]_vars => TypeOK'
  BY NextTyped, WriteQueueAssumption DEF vars
<1> QED BY <1>1, <1>2, PTL DEF Spec

(***************************************************************************)
(* The slot discipline.  For it a step is one of four kinds: it creates a  *)
(* version, it lets the newest one leave, it settles one that left, or it  *)
(* keeps the slot and at most sets rows aside.                             *)
(***************************************************************************)
Waits == {"PENDING", "FAILED"}

Creates ==
  /\ latestCreated' = latestCreated + 1 /\ latestCreated' \in Versions
  /\ \A w \in Versions : w # latestCreated' =>
       /\ write'[w].status = Superseded(write[w]).status
       /\ write'[w].attempts = write[w].attempts
  /\ \/ /\ write'[latestCreated'].status \in {"PENDING", "BLOCKED", "BUDGET_EXHAUSTED"}
        /\ UNCHANGED <<inFlight, latestDispatched>>
        /\ write'[latestCreated'].status = "BUDGET_EXHAUSTED" => inFlight = 0
     \/ /\ write'[latestCreated'].status = "DISPATCHED"
        /\ inFlight = 0 /\ inFlight' = latestCreated'
        /\ latestDispatched' = Larger(latestDispatched, latestCreated')

Leaves ==
  /\ UNCHANGED latestCreated /\ latestCreated \in Versions
  /\ write[latestCreated].status \in Waits
  /\ write'[latestCreated].status = "DISPATCHED"
  /\ \A w \in Versions : w # latestCreated => write'[w] = write[w]
  /\ inFlight = 0 /\ inFlight' = latestCreated
  /\ latestDispatched' = Larger(latestDispatched, latestCreated)

Settles ==
  /\ UNCHANGED <<latestCreated, latestDispatched>>
  /\ \E v \in Versions :
       /\ \A w \in Versions : w # v => write'[w] = write[w]
       /\ write'[v].attempts = write[v].attempts
       /\ \/ write[v].status = "DISPATCHED"
             /\ write'[v].status \in Final \cup {"DISPATCHED", "ACCEPTED", "FAILED"}
          \/ write[v].status = "ACCEPTED" /\ write'[v].status \in Final \cup {"ACCEPTED"}
       /\ inFlight' = IF inFlight = v /\ ~HoldsSlot(write'[v]) THEN 0 ELSE inFlight

Keeps ==
  /\ UNCHANGED <<latestCreated, latestDispatched, inFlight>>
  /\ \A w \in Versions :
       /\ write'[w].attempts = write[w].attempts
       /\ \/ write'[w].status = write[w].status
          \/ write[w].status \in Waits /\ write'[w].status \in Final
          \/ w = latestCreated /\ write[w].status \in Waits /\ write'[w].status = "BLOCKED"

(* Every step of the specification is of one of these kinds.               *)
LEMMA StepKinds ==
  ASSUME WriteQueueAssumption, TypeOK, [Next]_vars
  PROVE  Creates \/ Leaves \/ Settles \/ Keeps
<1> USE DEF WriteQueueAssumption
<1>1. ASSUME NEW p \in Deciders, NEW q \in Values, CommitDecision(p, q) PROVE Creates
  <2> DEFINE v == latestCreated + 1
             rows == Inserted(q)
  <2>1. v \in Versions /\ latestCreated' = v
    BY <1>1 DEF CommitDecision
  <2>2. /\ rows \in [Versions -> Rows]
        /\ rows[v].status \in {"PENDING", "BLOCKED"} /\ rows[v].attempts = 0
        /\ \A w \in Versions : w # v => rows[w] = Superseded(write[w])
    BY <2>1, InsertedRows
  <2>3. \A w \in Versions : Superseded(write[w]).attempts = write[w].attempts
    BY EndedRow DEF TypeOK, Superseded, Final
  <2>4. Claimed(rows[v]).status = "DISPATCHED"
    BY <2>1, <2>2, ClaimedRow, MaxAttemptsAssumption
  <2>5. Ended(rows[v], "BUDGET_EXHAUSTED").status = "BUDGET_EXHAUSTED"
    BY <2>1, <2>2, EndedRow DEF Final
  <2> HIDE DEF v, rows
  <2>6. CASE /\ MayFly(rows[v]) /\ write' = [rows EXCEPT ![v] = Claimed(rows[v])] /\ Fly(p, v, 1)
    BY <2>1, <2>2, <2>3, <2>4, <2>6 DEF Creates, MayFly, Fly, v
  <2>7. CASE /\ MayFly(rows[v]) /\ write' = [rows EXCEPT ![v] = Ended(rows[v], "BUDGET_EXHAUSTED")]
             /\ UNCHANGED <<inFlight, latestDispatched>>
    BY <2>1, <2>2, <2>3, <2>5, <2>7 DEF Creates, MayFly, v
  <2>8. CASE write' = rows /\ UNCHANGED <<inFlight, latestDispatched>>
    BY <2>1, <2>2, <2>3, <2>8 DEF Creates, v
  <2> QED BY <1>1, <2>6, <2>7, <2>8 DEF CommitDecision, v, rows
<1>2. ASSUME NEW q \in Values, Recalculate(q) PROVE Creates
  <2>1. latestCreated + 1 \in Versions /\ latestCreated' = latestCreated + 1 /\ write' = Inserted(q)
    BY <1>2 DEF Recalculate
  <2>2. /\ write'[latestCreated'].status \in {"PENDING", "BLOCKED"}
        /\ \A w \in Versions : w # latestCreated' => write'[w] = Superseded(write[w])
    BY <2>1, InsertedRows
  <2>3. \A w \in Versions : Superseded(write[w]).attempts = write[w].attempts
    BY EndedRow DEF TypeOK, Superseded, Final
  <2> QED BY <1>2, <2>1, <2>2, <2>3 DEF Recalculate, Creates
<1>3. ASSUME NEW c \in Chains, ClaimNext(c) PROVE Leaves \/ Keeps
  <2>1. CASE ClaimReconciliation(c)
    BY <2>1 DEF ClaimReconciliation, Keeps, queue
  <2>2. CASE DiscardOlder(c)
    <3>1. \A v \in Versions : /\ Ended(write[v], "DISCARDED_STALE").status = "DISCARDED_STALE"
                              /\ Ended(write[v], "DISCARDED_STALE").attempts = write[v].attempts
      BY EndedRow DEF TypeOK, Final
    <3> QED BY <2>2, <3>1 DEF DiscardOlder, Keeps, Candidates, Waits, Final
  <2>3. ASSUME NEW v \in Versions, ClaimDispatch(c, v) PROVE Leaves
    <3>1. Claimed(write[v]).status = "DISPATCHED"
      BY <2>3, ClaimedRow DEF ClaimDispatch, TypeOK
    <3> QED BY <2>3, <3>1 DEF ClaimDispatch, Leaves, Ready, Candidates, Waits, Fly, TypeOK
  <2>4. ASSUME NEW v \in Versions, ClaimEnds(c, v) PROVE Keeps
    <3>1. \A status \in Refusals \cup {"DISCARDED_STALE"} :
            status \in Final /\ Ended(write[v], status).status = status
            /\ Ended(write[v], status).attempts = write[v].attempts
      BY EndedRow DEF TypeOK, Final
    <3> QED BY <2>4, <3>1 DEF ClaimEnds, Ready, Candidates, Keeps, Waits, TypeOK
  <2>5. ASSUME NEW v \in Versions, ClaimBlocks(c, v) PROVE Keeps
    <3>1. write[v] \in Rows
      BY DEF TypeOK
    <3>2. /\ [write[v] EXCEPT !.status = "BLOCKED"].status = "BLOCKED"
          /\ [write[v] EXCEPT !.status = "BLOCKED"].attempts = write[v].attempts
      BY <3>1 DEF Rows
    <3> QED BY <2>5, <3>2 DEF ClaimBlocks, Ready, Candidates, Keeps, Waits, TypeOK
  <2> QED BY <1>3, <2>1, <2>2, <2>3, <2>4, <2>5 DEF ClaimNext
<1>4. ASSUME NEW p \in Threads, Settle(p) PROVE Settles \/ Keeps
  <2>1. CASE Plan(p) \/ Send(p) \/ GiveUp(p) \/ ReadBack(p)
    BY <2>1 DEF Plan, Send, GiveUp, ReadBack, Keeps, queue
  <2>2. ASSUME NEW v \in Versions, NEW plan, Apply(v, plan),
               \/ write[v].status = "DISPATCHED"
               \/ write[v].status = "ACCEPTED" /\ plan \in {"ACCEPT_APPLIED", "NOT_APPLIED", "RECONCILE", "UNRESOLVED"}
        PROVE  Settles
    <3>1. write[v] \in Rows
      BY DEF TypeOK
    <3>2. /\ AfterPlan(write[v], plan).attempts = write[v].attempts
          /\ write[v].status = "DISPATCHED" =>
               AfterPlan(write[v], plan).status \in Final \cup {"DISPATCHED", "ACCEPTED", "FAILED"}
          /\ write[v].status = "ACCEPTED" => AfterPlan(write[v], plan).status \in Final \cup {"ACCEPTED"}
      BY <2>2, <3>1, PlanStatus, PlannedRow
    <3> QED BY <2>2, <3>2 DEF Apply, Settles, TypeOK
  <2>3. CASE RecordOutcome(p)
    <3>1. thread[p].v \in Versions
      BY <2>3 DEF RecordOutcome, TypeOK, Jobs
    <3>2. CASE write[thread[p].v].status = "DISPATCHED"
      BY <2>2, <2>3, <3>1, <3>2 DEF RecordOutcome
    <3>3. CASE write[thread[p].v].status # "DISPATCHED"
      BY <2>3, <3>3 DEF RecordOutcome, Keeps, queue
    <3> QED BY <3>2, <3>3
  <2>4. CASE RecordReconciliation(p)
    <3>1. thread[p].v \in Versions
      BY <2>4 DEF RecordReconciliation, TypeOK, Jobs
    <3>2. CASE write[thread[p].v].status \in {"DISPATCHED", "ACCEPTED"}
      <4>1. \A reading, attempts, age :
              planReconciliationTransition("ACCEPTED", reading, attempts, age)
                \in {"ACCEPT_APPLIED", "NOT_APPLIED", "RECONCILE", "UNRESOLVED"}
        BY DEF planReconciliationTransition
      <4> QED BY <2>2, <2>4, <3>1, <3>2, <4>1 DEF RecordReconciliation
    <3>3. CASE write[thread[p].v].status \notin {"DISPATCHED", "ACCEPTED"}
      BY <2>4, <3>3 DEF RecordReconciliation, Keeps, queue
    <3> QED BY <3>2, <3>3
  <2> QED BY <1>4, <2>1, <2>3, <2>4 DEF Settle
<1>5. ASSUME NEW p \in Threads, Crash(p) PROVE Keeps
  BY <1>5 DEF Crash, Keeps, queue
<1>6. ASSUME NEW r \in transit, Deliver(r) \/ Refuse(r) PROVE Keeps
  BY <1>6 DEF Deliver, Refuse, Keeps, queue
<1>7. ASSUME NEW r \in submitted, ApplySubmitted(r) \/ DropSubmitted(r) PROVE Keeps
  BY <1>7 DEF ApplySubmitted, DropSubmitted, Keeps, queue
<1>8. ASSUME NEW v \in Versions, NextDue(v) \/ Age(v) PROVE Keeps
  <2>1. write \in [Versions -> Rows]
    BY DEF TypeOK
  <2>2. \A w \in Versions : write'[w].status = write[w].status /\ write'[w].attempts = write[w].attempts
    <3>1. CASE NextDue(v)
      BY <2>1, <3>1 DEF NextDue, Rows
    <3>2. CASE Age(v)
      <4>1. /\ write'[v].status = write[v].status /\ write'[v].attempts = write[v].attempts
        BY <2>1, <3>2 DEF Age, Rows
      <4>2. \A w \in Versions : w # v => write'[w] = write[w]
        BY <2>1, <3>2 DEF Age
      <4> QED BY <4>1, <4>2
    <3> QED BY <1>8, <3>1, <3>2
  <2> QED BY <1>8, <2>2 DEF NextDue, Age, Keeps
<1>9. ASSUME NEW status \in {"ACTIVE", "HELD"}, SetScopeStatus(status) PROVE Keeps
  BY <1>9 DEF SetScopeStatus, Keeps, queue
<1>10. CASE UNCHANGED vars
  BY <1>10 DEF vars, queue, Keeps
<1> QED
  BY <1>1, <1>2, <1>3, <1>4, <1>5, <1>6, <1>7, <1>8, <1>9, <1>10 DEF Next

(* The statuses the slot discipline looks at: with them OneInFlight is     *)
(* about the statuses of the rows alone.                                   *)
LEMMA SupersededStatus ==
  ASSUME NEW row \in Rows
  PROVE  /\ Superseded(row).status \notin Waits \cup {"BLOCKED"}
         /\ Superseded(row).status = "NONE" <=> row.status = "NONE"
         /\ HoldsSlot(Superseded(row)) <=> HoldsSlot(row)
         /\ row.status \in Final \cup {"ACCEPTED"} => Superseded(row).status = row.status
<1>1. /\ Ended(row, "DISCARDED_STALE").status = "DISCARDED_STALE"
      /\ Ended(row, "SUPERSEDED").status = "SUPERSEDED"
  BY EndedRow DEF Final
<1> QED
  BY <1>1 DEF Superseded, HoldsSlot, Waits, Final

LEMMA InitSlot == Init => SlotInv
  BY DEF Init, SlotInv, OneInFlight, OnlyNewestWaits, CreatedRows, HoldsSlot, NoRow

(* The slot discipline is kept by every step.  Superseding the rows that   *)
(* wait is what OnlyNewestWaits needs, MayFly and Ready are what           *)
(* OneInFlight needs.                                                      *)
LEMMA NextSlot ==
  ASSUME WriteQueueAssumption, TypeOK, SlotInv, [Next]_vars
  PROVE  SlotInv'
<1> USE DEF WriteQueueAssumption, SlotInv, HoldsSlot
<1>1. CASE Creates
  <2>1. \A w \in Versions : w # latestCreated' =>
          /\ write'[w].status \notin Waits \cup {"BLOCKED"}
          /\ write'[w].status = "NONE" <=> write[w].status = "NONE"
          /\ HoldsSlot(write'[w]) <=> HoldsSlot(write[w])
    <3>1. ASSUME NEW w \in Versions, w # latestCreated'
          PROVE  /\ write'[w].status = Superseded(write[w]).status
                 /\ write[w] \in Rows
      BY <1>1, <3>1 DEF Creates, TypeOK
    <3> QED BY <3>1, SupersededStatus
  <2>2. write[latestCreated'].status = "NONE"
    BY <1>1 DEF Creates, CreatedRows, TypeOK
  <2>3. OneInFlight'
    <3> DEFINE new == latestCreated'
    <3>1. new \in Versions /\ ~HoldsSlot(write[new])
      BY <1>1, <2>2 DEF Creates
    <3>2. inFlight # new /\ \A w \in Versions : w # new => (HoldsSlot(write'[w]) <=> inFlight = w)
      <4>1. inFlight # 0 => inFlight \in Versions
        BY DEF TypeOK, Versions
      <4>2. new # 0
        BY <3>1 DEF Versions
      <4> QED BY <2>1, <3>1, <4>1, <4>2 DEF OneInFlight, Versions
    <3>3. CASE inFlight' = inFlight /\ ~HoldsSlot(write'[new])
      BY <3>1, <3>2, <3>3 DEF OneInFlight, TypeOK, Versions
    <3>4. CASE inFlight = 0 /\ inFlight' = new /\ HoldsSlot(write'[new])
      BY <3>1, <3>2, <3>4 DEF OneInFlight, Versions
    <3> QED BY <1>1, <3>3, <3>4 DEF Creates
  <2>4. OnlyNewestWaits'
    BY <1>1, <2>1 DEF Creates, OnlyNewestWaits, Waits
  <2>5. CreatedRows'
    <3>1. latestCreated' = latestCreated + 1 /\ latestCreated \in Int
          /\ write'[latestCreated'].status # "NONE"
      BY <1>1 DEF Creates, TypeOK
    <3>2. \A w \in Versions : w # latestCreated' => (w > latestCreated' <=> w > latestCreated)
      BY <3>1 DEF Versions
    <3> QED BY <2>1, <3>1, <3>2 DEF CreatedRows, Versions
  <2>6. latestDispatched' <= latestCreated'
    BY <1>1 DEF Creates, Larger, TypeOK
  <2> QED BY <2>3, <2>4, <2>5, <2>6
<1>2. CASE Leaves
  <2>1. OneInFlight'
    BY <1>2 DEF Leaves, OneInFlight, Waits, TypeOK
  <2>2. OnlyNewestWaits'
    BY <1>2 DEF Leaves, OnlyNewestWaits
  <2>3. CreatedRows'
    BY <1>2 DEF Leaves, CreatedRows, Waits
  <2>4. latestDispatched' <= latestCreated'
    BY <1>2 DEF Leaves, Larger, TypeOK
  <2> QED BY <2>1, <2>2, <2>3, <2>4
<1>3. CASE Settles
  <2>1. OneInFlight'
    BY <1>3 DEF Settles, OneInFlight, Final, TypeOK
  <2>2. OnlyNewestWaits'
    BY <1>3 DEF Settles, OnlyNewestWaits, Final
  <2>3. CreatedRows'
    BY <1>3 DEF Settles, CreatedRows, Final
  <2> QED BY <1>3, <2>1, <2>2, <2>3 DEF Settles
<1>4. CASE Keeps
  <2>1. OneInFlight'
    <3>1. ASSUME NEW w \in Versions PROVE HoldsSlot(write'[w]) <=> HoldsSlot(write[w])
      BY <1>4 DEF Keeps, Waits, Final
    <3>2. inFlight' = inFlight /\ inFlight \in 0..MaxVersion
      BY <1>4 DEF Keeps, TypeOK
    <3> QED BY <3>1, <3>2 DEF OneInFlight, Versions
  <2>2. OnlyNewestWaits'
    BY <1>4 DEF Keeps, OnlyNewestWaits, Final
  <2>3. CreatedRows'
    BY <1>4 DEF Keeps, CreatedRows, Waits, Final
  <2> QED BY <1>4, <2>1, <2>2, <2>3 DEF Keeps
<1> QED
  BY <1>1, <1>2, <1>3, <1>4, StepKinds

(* The inductive invariant: types and slot discipline together.            *)
THEOREM SlotDiscipline == Spec => [](TypeOK /\ SlotInv)
<1>1. Init => TypeOK /\ SlotInv
  BY InitTyped, InitSlot, WriteQueueAssumption
<1>2. TypeOK /\ SlotInv /\ [Next]_vars => TypeOK' /\ SlotInv'
  BY NextTyped, NextSlot, WriteQueueAssumption
<1> QED BY <1>1, <1>2, PTL DEF Spec

(* The slot discipline holds in every reachable state.                     *)
THEOREM SlotHolds == Spec => []SlotInv
BY SlotDiscipline, PTL

(* At most one write of a scope holds its slot, and in_flight_write_id     *)
(* names it: whatever the channel, the dispatchers, crashes and late       *)
(* answers do.                                                             *)
THEOREM AtMostOneInFlight == Spec => []OneInFlight
<1>1. SlotInv => OneInFlight
  BY DEF SlotInv
<1> QED BY <1>1, SlotDiscipline, PTL

(* Only the newest version ever waits to be sent.                          *)
THEOREM NewestWaits == Spec => []OnlyNewestWaits
<1>1. SlotInv => OnlyNewestWaits
  BY DEF SlotInv
<1> QED BY <1>1, SlotDiscipline, PTL

(* No attempt of a version starts once a newer version exists or was sent. *)
THEOREM OlderNeverLeaves == Spec => NoOlderDispatch
<1> DEFINE A == \A v \in Versions : write'[v].attempts # write[v].attempts
                  => v = latestCreated' /\ v >= latestDispatched
<1>1. ASSUME TypeOK, SlotInv, [Next]_vars PROVE A
  <2>1. CASE Creates
    BY <1>1, <2>1, WriteQueueAssumption DEF Creates, SlotInv, TypeOK, WriteQueueAssumption
  <2>2. CASE Leaves
    BY <1>1, <2>2, WriteQueueAssumption DEF Leaves, SlotInv, TypeOK, WriteQueueAssumption
  <2>3. CASE Settles
    BY <2>3 DEF Settles
  <2>4. CASE Keeps
    BY <2>4 DEF Keeps
  <2> QED BY <1>1, <2>1, <2>2, <2>3, <2>4, StepKinds, WriteQueueAssumption
<1>2. TypeOK /\ SlotInv /\ [Next]_vars => [A]_vars
  BY <1>1
<1> QED BY <1>2, SlotDiscipline, PTL DEF Spec, NoOlderDispatch

(***************************************************************************)
(* The queue implements SingleFlight.                                      *)
(***************************************************************************)
LandsAt(row) == row.status \in Final \/ (row.status = "ACCEPTED" /\ ProcessingMode = "SYNC")

(* What has landed stays landed, has been created and is not in flight.    *)
LEMMA LandedStays ==
  ASSUME WriteQueueAssumption, TypeOK, SlotInv, TypeOK', SlotInv',
         \A w \in Versions : LandsAt(write[w]) => LandsAt(write'[w])
  PROVE  Flight!End
<1>1. Landed \subseteq Landed'
  BY DEF Landed, LandsAt
<1>2. Landed' \subseteq 1..latestCreated'
  BY DEF Landed, SlotInv, CreatedRows, Final, TypeOK, WriteQueueAssumption
<1>3. inFlight' \notin Landed'
  BY DEF Landed, SlotInv, OneInFlight, HoldsSlot, Final, WriteQueueAssumption
<1> QED
  BY <1>1, <1>2, <1>3 DEF Flight!End

LEMMA InitFlight == ASSUME WriteQueueAssumption PROVE Init => Flight!Init
  BY DEF Init, Flight!Init, Landed, NoRow, Final

LEMMA NextFlight ==
  ASSUME WriteQueueAssumption, TypeOK, SlotInv, TypeOK', SlotInv', [Next]_vars
  PROVE  Flight!Next
<1> USE DEF WriteQueueAssumption
<1>1. CASE Creates
  <2>1. \A w \in Versions : LandsAt(write[w]) => LandsAt(write'[w])
    <3>1. ASSUME NEW w \in Versions, LandsAt(write[w]) PROVE LandsAt(write'[w])
      <4>1. w # latestCreated'
        BY <1>1, <3>1 DEF Creates, SlotInv, CreatedRows, LandsAt, Final, TypeOK
      <4>2. write'[w].status = write[w].status
        BY <1>1, <3>1, <4>1, SupersededStatus DEF Creates, LandsAt, TypeOK
      <4> QED BY <3>1, <4>2 DEF LandsAt
    <3> QED BY <3>1
  <2>2. Flight!End
    BY <2>1, LandedStays
  <2>3. CASE UNCHANGED <<inFlight, latestDispatched>>
    BY <1>1, <2>2, <2>3 DEF Creates, Flight!Next, Flight!Create
  <2>4. CASE /\ write'[latestCreated'].status = "DISPATCHED"
             /\ inFlight = 0 /\ inFlight' = latestCreated'
             /\ latestDispatched' = Larger(latestDispatched, latestCreated')
    <3>1. latestDispatched' = latestCreated'
      BY <1>1, <2>4 DEF Creates, Larger, SlotInv, TypeOK
    <3>2. latestCreated' \notin Landed
      BY <1>1 DEF Creates, SlotInv, CreatedRows, Landed, Final, TypeOK
    <3>3. Flight!TakeOff
      BY <2>4, <3>1, <3>2 DEF Flight!TakeOff
    <3> QED BY <1>1, <2>2, <3>3 DEF Creates, Flight!Next, Flight!Create
  <2> QED BY <1>1, <2>3, <2>4 DEF Creates
<1>2. CASE Leaves
  <2>1. \A w \in Versions : LandsAt(write[w]) => LandsAt(write'[w])
    BY <1>2 DEF Leaves, LandsAt, Waits, Final
  <2>2. latestDispatched' = latestCreated'
    BY <1>2 DEF Leaves, Larger, SlotInv, TypeOK
  <2>3. latestCreated' \notin Landed
    BY <1>2 DEF Leaves, Landed, Waits, Final
  <2>4. latestCreated > 0
    BY <1>2 DEF Leaves
  <2> QED
    BY <1>2, <2>1, <2>2, <2>3, <2>4, LandedStays DEF Leaves, Flight!Next, Flight!Fly, Flight!TakeOff
<1>3. CASE Settles
  <2>1. \A w \in Versions : LandsAt(write[w]) => LandsAt(write'[w])
    BY <1>3 DEF Settles, LandsAt, Final
  <2>2. Flight!End
    BY <2>1, LandedStays
  <2>3. inFlight' = 0 \/ inFlight' = inFlight
    BY <1>3 DEF Settles
  <2> QED
    BY <1>3, <2>2, <2>3 DEF Settles, Flight!Next, Flight!Land, Flight!Drop
<1>4. CASE Keeps
  <2>1. \A w \in Versions : LandsAt(write[w]) => LandsAt(write'[w])
    BY <1>4 DEF Keeps, LandsAt, Waits, Final
  <2> QED
    BY <1>4, <2>1, LandedStays DEF Keeps, Flight!Next, Flight!Drop
<1> QED
  BY <1>1, <1>2, <1>3, <1>4, StepKinds

(* The queue of a scope, with every crash, retry and lost answer, keeps    *)
(* the promise of SingleFlight: one version at a time, the newest, once.   *)
THEOREM QueueImplementsSingleFlight == Spec => KeepsOneInFlight
<1>1. Init => Flight!Init
  BY InitFlight, WriteQueueAssumption
<1>2. TypeOK /\ SlotInv /\ TypeOK' /\ SlotInv' /\ [Next]_vars => [Flight!Next]_Flight!vars
  BY NextFlight, WriteQueueAssumption
<1> QED BY <1>1, <1>2, SlotDiscipline, PTL DEF Spec, KeepsOneInFlight, Flight!Spec

(***************************************************************************)
(* What is on its way.  With one dispatcher process, and deadlines that    *)
(* pass only after what they wait for is settled, the row of the write in  *)
(* flight, the request, the channel and the thread at work always fit      *)
(* together, which NoBlindRetry, ChannelNeverGoesBack, AppliedIsShown and  *)
(* UnchangedWhenQueueEmpty all rest on.                                    *)
(***************************************************************************)
OneChain == \A c, d \in Chains : c = d

Flown == {"DISPATCHED", "ACCEPTED", "FAILED", "APPLIED"}

(* What a row says of the channel, which shows version `shown' with value  *)
(* `value': a version waits unsent, an attempt counts, a version that will *)
(* be tried again or was refused is not the one shown, and an applied one  *)
(* is shown until a later one is.                                          *)
RowFits(v, row, highest, shown, value) ==
  /\ row.status \in {"PENDING", "BLOCKED"} => row.attempts = 0
  /\ row.status \in Flown => row.attempts >= 1
  /\ row.attempts >= 1 => v <= highest
  /\ row.attempts >= 1 \/ row.status \in {"PENDING", "BLOCKED"} => row.value # NoValue
  /\ row.refused = TRUE => row.status \in Final
  /\ shown = v => /\ row.attempts >= 1 /\ row.refused = FALSE
                  /\ row.status = "FAILED" => row.next = "NONE"
  /\ row.status = "APPLIED" => shown > v \/ value = row.value

(* What a thread at work knows of the write in flight.                     *)
JobFits(job, v, row, sent, taken, shown, value) ==
  /\ v # 0 /\ job.v = v
  /\ job.pc \in {"CLAIMED", "SENDING", "ANSWERED"} => row.status = "DISPATCHED"
  /\ job.pc \in {"CLAIMED", "SENDING"} => job.attempt = row.attempts
  /\ job.pc = "CLAIMED" => sent = {} /\ taken = {} /\ shown # v
  /\ job.pc = "ANSWERED" =>
       /\ sent = {}
       /\ job.answer \in Refused => taken = {} /\ shown # v
       /\ job.answer = "APPLIED" => taken = {} /\ value = row.value
  /\ job.pc \in {"READING", "OBSERVED"} => sent = {} /\ (row.status = "DISPATCHED" => taken = {})
  /\ job.pc = "OBSERVED" =>
       /\ job.reading = "APPLIED" => taken = {} /\ value = row.value
       /\ job.reading = "NOT_APPLIED" /\ row.status = "DISPATCHED" => shown # v

(* At most one request is on its way, it is the last attempt of the write  *)
(* in flight and has not taken effect; a deadline of that write has passed *)
(* only when it is settled.                                                *)
FlightFits(v, row, sent, taken, shown) ==
  /\ \A r \in sent \cup taken : v # 0 /\ r.v = v /\ r.attempt = row.attempts
  /\ sent \cup taken # {} => shown # v
  /\ sent = {} \/ taken = {}
  /\ ProcessingMode = "SYNC" => taken = {}
  /\ v # 0 /\ (row.next = "DUE" \/ row.age # "FRESH") =>
       sent = {} /\ (row.status = "DISPATCHED" => taken = {})
  /\ v # 0 /\ row.age = "EXPIRED" => taken = {}

RowIn == IF inFlight = 0 THEN NoRow ELSE write[inFlight]

(* One thread at most is at work, on the write in flight; it reads back    *)
(* only as a dispatcher, and is not before the answer once a deadline of   *)
(* that write has passed.                                                  *)
ThreadsFit ==
  /\ \A p \in Threads : thread[p].pc # "IDLE" =>
       JobFits(thread[p], inFlight, RowIn, transit, submitted, channel, ValueAt(channel))
  /\ \A p, q \in Threads : thread[p].pc # "IDLE" /\ thread[q].pc # "IDLE" => p = q
  /\ \A p \in Threads : thread[p].pc \in {"READING", "OBSERVED"} => p \in Chains
  /\ inFlight # 0 /\ (RowIn.next = "DUE" \/ RowIn.age # "FRESH") =>
       \A p \in Threads : thread[p].pc \notin {"CLAIMED", "SENDING", "ANSWERED"}

RowsFit == \A v \in Versions : RowFits(v, write[v], latestDispatched, channel, ValueAt(channel))

SentInv ==
  /\ RowsFit
  /\ ThreadsFit
  /\ FlightFits(inFlight, RowIn, transit, submitted, channel)
  /\ inFlight # 0 => inFlight = latestDispatched
  /\ channel <= latestDispatched

LEMMA InitSent == ASSUME WriteQueueAssumption PROVE Init => SentInv
  BY DEF Init, SentInv, RowsFit, RowFits, ThreadsFit, FlightFits, RowIn, NoRow, Idle, Flown, Final,
         WriteQueueAssumption

(* While the slot is free nothing is on its way and nobody is at work.     *)
LEMMA FreeSlot ==
  ASSUME SentInv, inFlight = 0
  PROVE  transit = {} /\ submitted = {} /\ \A p \in Threads : thread[p].pc = "IDLE"
<1>1. \A r \in transit \cup submitted : FALSE
  BY DEF SentInv, FlightFits
<1>2. \A p \in Threads : thread[p].pc = "IDLE"
  BY DEF SentInv, ThreadsFit, JobFits
<1> QED BY <1>1, <1>2

(* The value the channel shows does not change with the rows of the queue. *)
LEMMA ValueKept ==
  ASSUME WriteQueueAssumption, TypeOK, SlotInv, SentInv, UNCHANGED channel,
         \A w \in Versions : w <= latestCreated => write'[w].value = write[w].value
  PROVE  ValueAt(channel)' = ValueAt(channel)
<1>1. channel \in 0..MaxVersion /\ channel <= latestCreated
  BY DEF TypeOK, SlotInv, SentInv, WriteQueueAssumption
<1> QED BY <1>1 DEF ValueAt, WriteQueueAssumption

(* A step that leaves the write in flight and the channel alone, and at    *)
(* most stops threads, keeps the invariant if the rows still fit.          *)
LEMMA Untouched ==
  ASSUME SentInv, UNCHANGED <<inFlight, transit, submitted, channel, latestDispatched>>,
         inFlight # 0 => write'[inFlight] = write[inFlight],
         ValueAt(channel)' = ValueAt(channel),
         \A p \in Threads : thread'[p] = thread[p] \/ thread'[p].pc = "IDLE",
         RowsFit'
  PROVE  SentInv'
<1>1. RowIn' = RowIn
  BY DEF RowIn
<1>2. ThreadsFit'
  BY <1>1 DEF SentInv, ThreadsFit
<1> QED BY <1>1, <1>2 DEF SentInv

(* What the helpers make of a row.                                         *)
LEMMA EndedFields ==
  ASSUME NEW row \in Rows, NEW status
  PROVE  /\ Ended(row, status).status = status /\ Ended(row, status).attempts = row.attempts
         /\ Ended(row, status).value = row.value /\ Ended(row, status).refused = row.refused
         /\ Ended(row, status).next = "NONE" /\ Ended(row, status).age = "FRESH"
  BY DEF Ended, Rows

LEMMA ClaimedFields ==
  ASSUME NEW row \in Rows
  PROVE  /\ Claimed(row).status = "DISPATCHED" /\ Claimed(row).attempts = row.attempts + 1
         /\ Claimed(row).value = row.value /\ Claimed(row).refused = row.refused
         /\ Claimed(row).next = "NONE" /\ Claimed(row).age = "FRESH"
  BY DEF Claimed, Rows

(* A row that is set aside or superseded still fits.                       *)
LEMMA RowSetAside ==
  ASSUME NEW row \in Rows, NEW v, NEW highest, NEW shown, NEW value,
         RowFits(v, row, highest, shown, value)
  PROVE  /\ \A status \in Final \ {"APPLIED"} : RowFits(v, Ended(row, status), highest, shown, value)
         /\ RowFits(v, Superseded(row), highest, shown, value)
         /\ Superseded(row).value = row.value
         /\ row.status = "PENDING" => RowFits(v, [row EXCEPT !.status = "BLOCKED"], highest, shown, value)
<1>1. ASSUME NEW status \in Final \ {"APPLIED"}
      PROVE  RowFits(v, Ended(row, status), highest, shown, value)
  BY <1>1, EndedFields DEF RowFits, Flown, Final
<1>2. RowFits(v, Superseded(row), highest, shown, value) /\ Superseded(row).value = row.value
  BY <1>1, EndedFields DEF Superseded, Final
<1>3. ASSUME row.status = "PENDING"
      PROVE  RowFits(v, [row EXCEPT !.status = "BLOCKED"], highest, shown, value)
  <2> DEFINE b == [row EXCEPT !.status = "BLOCKED"]
  <2>1. /\ b.status = "BLOCKED" /\ b.attempts = row.attempts /\ b.refused = row.refused
        /\ b.next = row.next /\ b.value = row.value
    BY DEF Rows
  <2> HIDE DEF b
  <2>2. RowFits(v, b, highest, shown, value)
    BY <1>3, <2>1 DEF RowFits, Flown, Final
  <2> QED BY <2>2 DEF b
<1> QED BY <1>1, <1>2, <1>3

(* A row that may be claimed is not the one shown, and fits once claimed.  *)
LEMMA RowTakesOff ==
  ASSUME NEW row \in Rows, NEW v \in Int, NEW highest \in Int, NEW shown, NEW value,
         RowFits(v, row, highest, shown, value),
         row.status = "PENDING" \/ (row.status = "FAILED" /\ row.next = "DUE")
  PROVE  RowFits(v, Claimed(row), v, shown, value) /\ shown # v
<1>1. row.attempts \in Nat
  BY MaxAttemptsAssumption DEF Rows
<1>2. shown # v
  BY <1>1 DEF RowFits
<1> QED BY <1>1, <1>2, ClaimedFields DEF RowFits, Flown, Final

(* A claim takes the slot for a version the channel has not seen.          *)
LEMMA TakesOff ==
  ASSUME TypeOK, SentInv, inFlight = 0,
         NEW p \in Threads, NEW v \in Versions, NEW k,
         inFlight' = v, latestDispatched' = v,
         write'[v].status = "DISPATCHED", write'[v].attempts = k,
         write'[v].next = "NONE", write'[v].age = "FRESH",
         thread' = [thread EXCEPT ![p] = [pc |-> "CLAIMED", v |-> v, attempt |-> k]],
         UNCHANGED outside, channel # v, channel <= v, RowsFit'
  PROVE  SentInv'
<1>1. transit' = {} /\ submitted' = {} /\ channel' = channel
  BY FreeSlot DEF outside
<1>2. v # 0 /\ RowIn' = write'[v]
  BY DEF RowIn
<1>3. FlightFits(v, write'[v], {}, {}, channel)
  BY DEF FlightFits
<1>4. \A q \in Threads : q # p => thread'[q].pc = "IDLE"
  BY FreeSlot DEF TypeOK
<1>5. thread'[p] = [pc |-> "CLAIMED", v |-> v, attempt |-> k]
  BY DEF TypeOK
<1>6. \A value : JobFits(thread'[p], v, write'[v], {}, {}, channel, value)
  BY <1>2, <1>5 DEF JobFits
<1>7. ThreadsFit'
  <2>1. \A q \in Threads : thread'[q].pc # "IDLE" => q = p
    BY <1>4
  <2>2. \A q \in Threads : thread'[q].pc \notin {"READING", "OBSERVED"}
    BY <1>4, <1>5
  <2> QED BY <1>1, <1>2, <1>6, <2>1, <2>2 DEF ThreadsFit
<1> QED BY <1>1, <1>2, <1>3, <1>7 DEF SentInv

(***************************************************************************)
(* One lemma for each part of Next that does something to the invariant.   *)
(***************************************************************************)
(* The rows an insert leaves: the new one and the superseded ones.         *)
LEMMA InsertFits ==
  ASSUME WriteQueueAssumption, TypeOK, SlotInv, SentInv, NEW q \in Values, latestCreated + 1 \in Versions
  PROVE  /\ Inserted(q) \in [Versions -> Rows]
         /\ \A w \in Versions : w <= latestCreated => Inserted(q)[w].value = write[w].value
         /\ \A w \in Versions : RowFits(w, Inserted(q)[w], latestDispatched, channel, ValueAt(channel))
         /\ Inserted(q)[latestCreated + 1].status \in {"PENDING", "BLOCKED"}
         /\ inFlight # 0 => Inserted(q)[inFlight] = write[inFlight]
<1> DEFINE new == latestCreated + 1
<1>1. channel # new /\ inFlight # new /\ latestCreated \in Nat
  BY DEF TypeOK, SlotInv, SentInv, OneInFlight, CreatedRows, HoldsSlot, WriteQueueAssumption
<1>2. /\ NewRow(q).status \in {"PENDING", "BLOCKED"} /\ NewRow(q).attempts = 0
      /\ NewRow(q).refused = FALSE /\ NewRow(q).value # NoValue
  BY DEF NewRow, NoRow, WriteQueueAssumption
<1>3. RowFits(new, NewRow(q), latestDispatched, channel, ValueAt(channel))
  BY <1>1, <1>2 DEF RowFits, Flown, Final
<1>4. \A w \in Versions : w # new => Inserted(q)[w] = Superseded(write[w])
  BY DEF Inserted
<1>5. Inserted(q)[new] = NewRow(q)
  BY DEF Inserted
<1>6. \A w \in Versions : w # new =>
        /\ RowFits(w, Superseded(write[w]), latestDispatched, channel, ValueAt(channel))
        /\ Superseded(write[w]).value = write[w].value
  <2>1. \A w \in Versions : write[w] \in Rows /\ RowFits(w, write[w], latestDispatched, channel, ValueAt(channel))
    BY DEF TypeOK, SentInv, RowsFit
  <2> QED BY <2>1, RowSetAside
<1>7. inFlight # 0 => Superseded(write[inFlight]) = write[inFlight]
  BY DEF SlotInv, OneInFlight, HoldsSlot, Superseded
<1>8. inFlight # 0 => inFlight \in Versions
  BY DEF TypeOK, WriteQueueAssumption
<1> HIDE DEF new
<1>9. \A w \in Versions : w <= latestCreated => w # new
  BY <1>1 DEF new
<1>10. \A w \in Versions : RowFits(w, Inserted(q)[w], latestDispatched, channel, ValueAt(channel))
  <2>1. ASSUME NEW w \in Versions PROVE RowFits(w, Inserted(q)[w], latestDispatched, channel, ValueAt(channel))
    <3>1. CASE w = new
      BY <1>3, <1>5, <3>1
    <3>2. CASE w # new
      BY <1>4, <1>6, <3>2
    <3> QED BY <3>1, <3>2
  <2> QED BY <2>1
<1>11. \A w \in Versions : w <= latestCreated => Inserted(q)[w].value = write[w].value
  BY <1>4, <1>6, <1>9
<1>12. inFlight # 0 => Inserted(q)[inFlight] = write[inFlight]
  BY <1>1, <1>4, <1>7, <1>8 DEF new
<1> QED BY <1>2, <1>5, <1>10, <1>11, <1>12, InsertedRows DEF new

LEMMA CommitSent ==
  ASSUME WriteQueueAssumption, TypeOK, SlotInv, SentInv, NEW p \in Deciders, NEW q \in Values, CommitDecision(p, q)
  PROVE  SentInv'
<1> DEFINE v == latestCreated + 1
           rows == Inserted(q)
<1>1. v \in Versions /\ latestCreated' = v /\ UNCHANGED <<outside, channel, transit, submitted>>
  BY DEF CommitDecision, outside
<1>2. /\ rows \in [Versions -> Rows]
      /\ \A w \in Versions : w <= latestCreated => rows[w].value = write[w].value
      /\ \A w \in Versions : RowFits(w, rows[w], latestDispatched, channel, ValueAt(channel))
      /\ rows[v].status \in {"PENDING", "BLOCKED"}
      /\ inFlight # 0 => rows[inFlight] = write[inFlight]
  BY <1>1, InsertFits
<1>3. latestCreated \in Nat /\ latestDispatched \in Nat /\ latestDispatched <= latestCreated
  BY DEF TypeOK, SlotInv, WriteQueueAssumption
<1>4. p \in Threads
  BY DEF Threads
<1> HIDE DEF v, rows
<1>5. v = latestCreated + 1 /\ rows = Inserted(q)
  BY DEF v, rows
<1>6. CASE /\ MayFly(rows[v]) /\ write' = [rows EXCEPT ![v] = Claimed(rows[v])] /\ Fly(p, v, 1)
  <2>1. rows[v].status = "PENDING" /\ inFlight = 0 /\ rows[v] \in Rows
    BY <1>1, <1>2, <1>6 DEF MayFly
  <2>2. RowFits(v, Claimed(rows[v]), v, channel, ValueAt(channel)) /\ channel # v
    BY <1>1, <1>2, <1>3, <2>1, RowTakesOff
  <2>3. write'[v] = Claimed(rows[v]) /\ \A w \in Versions : w # v => write'[w] = rows[w]
    BY <1>1, <1>2, <1>6
  <2>4. ValueAt(channel)' = ValueAt(channel)
    <3>1. \A w \in Versions : w <= latestCreated => write'[w].value = write[w].value
      BY <1>2, <1>3, <1>5, <2>3
    <3> QED BY <1>1, <3>1, ValueKept
  <2>5. latestDispatched' = v /\ inFlight' = v
        /\ thread' = [thread EXCEPT ![p] = [pc |-> "CLAIMED", v |-> v, attempt |-> 1]]
    BY <1>3, <1>5, <1>6 DEF Fly, Larger
  <2>6. RowsFit'
    <3>1. \A w \in Versions : RowFits(w, rows[w], v, channel, ValueAt(channel))
      <4>1. ASSUME NEW w \in Versions PROVE RowFits(w, rows[w], v, channel, ValueAt(channel))
        BY <1>1, <1>2, <1>3, <1>5 DEF RowFits
      <4> QED BY <4>1
    <3>2. ASSUME NEW w \in Versions PROVE RowFits(w, write'[w], v, channel, ValueAt(channel))
      <4>1. CASE w = v
        BY <2>2, <2>3, <4>1
      <4>2. CASE w # v
        BY <2>3, <3>1, <4>2
      <4> QED BY <4>1, <4>2
    <3> QED BY <1>1, <2>4, <2>5, <3>2 DEF RowsFit
  <2>7. rows[v].attempts = 0
    BY <1>1, <1>2, <2>1 DEF RowFits
  <2>8. write'[v].status = "DISPATCHED" /\ write'[v].attempts = 1
        /\ write'[v].next = "NONE" /\ write'[v].age = "FRESH"
    BY <2>1, <2>3, <2>7, ClaimedFields
  <2>9. channel <= v
    BY <1>3, <1>5 DEF SentInv, TypeOK, WriteQueueAssumption
  <2> QED BY <1>1, <1>4, <2>1, <2>2, <2>5, <2>6, <2>8, <2>9, TakesOff
<1>7. CASE /\ UNCHANGED <<inFlight, latestDispatched, thread>>
           /\ \/ write' = rows
              \/ MayFly(rows[v]) /\ write' = [rows EXCEPT ![v] = Ended(rows[v], "BUDGET_EXHAUSTED")]
  <2>1. \A w \in Versions : w # v => write'[w] = rows[w]
    BY <1>1, <1>2, <1>7
  <2>2. write'[v] = rows[v] \/ write'[v] = Ended(rows[v], "BUDGET_EXHAUSTED")
    BY <1>1, <1>2, <1>7
  <2>3. ValueAt(channel)' = ValueAt(channel)
    <3>1. \A w \in Versions : w <= latestCreated => write'[w].value = write[w].value
      BY <1>2, <1>3, <1>5, <2>1
    <3> QED BY <1>1, <3>1, ValueKept
  <2>4. RowFits(v, write'[v], latestDispatched, channel, ValueAt(channel))
    <3>1. rows[v] \in Rows /\ RowFits(v, rows[v], latestDispatched, channel, ValueAt(channel))
      BY <1>1, <1>2
    <3>2. RowFits(v, Ended(rows[v], "BUDGET_EXHAUSTED"), latestDispatched, channel, ValueAt(channel))
      BY <3>1, RowSetAside DEF Final
    <3> QED BY <2>2, <3>1, <3>2
  <2>5. RowsFit'
    BY <1>1, <1>2, <1>7, <2>1, <2>3, <2>4 DEF RowsFit
  <2>6. inFlight # 0 => write'[inFlight] = write[inFlight]
    <3>1. inFlight # 0 => inFlight \in Versions /\ inFlight # v
      BY <1>3, <1>5 DEF TypeOK, SlotInv, OneInFlight, CreatedRows, HoldsSlot, WriteQueueAssumption
    <3> QED BY <1>2, <2>1, <3>1
  <2> QED BY <1>1, <1>7, <2>3, <2>5, <2>6, Untouched
<1> QED
  BY <1>6, <1>7 DEF CommitDecision, v, rows

LEMMA RecalculateSent ==
  ASSUME WriteQueueAssumption, TypeOK, SlotInv, SentInv, NEW q \in Values, Recalculate(q)
  PROVE  SentInv'
<1>1. /\ write' = Inserted(q) /\ latestCreated + 1 \in Versions
      /\ UNCHANGED <<latestDispatched, inFlight, thread, transit, submitted, channel>>
  BY DEF Recalculate, outside
<1>2. /\ \A w \in Versions : w <= latestCreated => write'[w].value = write[w].value
      /\ \A w \in Versions : RowFits(w, write'[w], latestDispatched, channel, ValueAt(channel))
      /\ inFlight # 0 => write'[inFlight] = write[inFlight]
  BY <1>1, InsertFits
<1>3. ValueAt(channel)' = ValueAt(channel)
  BY <1>1, <1>2, ValueKept
<1>4. RowsFit'
  BY <1>1, <1>2, <1>3 DEF RowsFit
<1> QED BY <1>1, <1>2, <1>3, <1>4, Untouched

(* A claim that does not send: rows of versions that are not in flight end *)
(* or are set aside.                                                       *)
LEMMA SetAsideSent ==
  ASSUME WriteQueueAssumption, TypeOK, SlotInv, SentInv, inFlight = 0,
         UNCHANGED <<latestDispatched, inFlight, thread, outside>>,
         \A w \in Versions :
           \/ write'[w] = write[w]
           \/ \E status \in Final \ {"APPLIED"} : write'[w] = Ended(write[w], status)
           \/ write[w].status = "PENDING" /\ write'[w] = [write[w] EXCEPT !.status = "BLOCKED"]
  PROVE  SentInv'
<1>1. \A w \in Versions : write[w] \in Rows /\ RowFits(w, write[w], latestDispatched, channel, ValueAt(channel))
  BY DEF TypeOK, SentInv, RowsFit
<1>2. \A w \in Versions : RowFits(w, write'[w], latestDispatched, channel, ValueAt(channel))
  <2>1. ASSUME NEW w \in Versions PROVE RowFits(w, write'[w], latestDispatched, channel, ValueAt(channel))
    <3>1. CASE write'[w] = write[w]
      BY <1>1, <3>1
    <3>2. ASSUME NEW status \in Final \ {"APPLIED"}, write'[w] = Ended(write[w], status)
          PROVE  RowFits(w, write'[w], latestDispatched, channel, ValueAt(channel))
      <4>1. RowFits(w, Ended(write[w], status), latestDispatched, channel, ValueAt(channel))
        BY <1>1, <3>2, RowSetAside
      <4> QED BY <3>2, <4>1
    <3>3. CASE write[w].status = "PENDING" /\ write'[w] = [write[w] EXCEPT !.status = "BLOCKED"]
      BY <1>1, <3>3, RowSetAside
    <3> QED BY <3>1, <3>2, <3>3
  <2> QED BY <2>1
<1>3. \A w \in Versions : write'[w].value = write[w].value
  <2>1. ASSUME NEW w \in Versions PROVE write'[w].value = write[w].value
    <3>1. write[w] \in Rows
      BY <1>1
    <3>2. \A status : Ended(write[w], status).value = write[w].value
      BY <3>1, EndedFields
    <3>3. [write[w] EXCEPT !.status = "BLOCKED"].value = write[w].value
      BY <3>1 DEF Rows
    <3> QED BY <3>2, <3>3
  <2> QED BY <2>1
<1>4. ValueAt(channel)' = ValueAt(channel)
  BY <1>3, ValueKept DEF outside
<1>5. RowsFit'
  BY <1>2, <1>4 DEF RowsFit, outside
<1> QED BY <1>4, <1>5, Untouched DEF outside

LEMMA ClaimSent ==
  ASSUME WriteQueueAssumption, OneChain, TypeOK, SlotInv, SentInv, NEW c \in Chains, ClaimNext(c)
  PROVE  SentInv'
<1>0. /\ c \in Threads
      /\ \A w \in Versions : write[w] \in Rows /\ RowFits(w, write[w], latestDispatched, channel, ValueAt(channel))
  BY DEF Threads, TypeOK, SentInv, RowsFit
<1>1. CASE ClaimReconciliation(c)
  <2>1. /\ inFlight # 0 /\ RowIn = write[inFlight] /\ thread[c].pc = "IDLE"
        /\ thread' = [thread EXCEPT ![c] = [pc |-> "READING", v |-> inFlight]]
        /\ UNCHANGED <<write, inFlight, latestDispatched, transit, submitted, channel>>
    BY <1>1 DEF ClaimReconciliation, RowIn, queue, outside
  <2>2. RowIn.next = "DUE" \/ RowIn.age # "FRESH"
    BY <1>1, <2>1 DEF ClaimReconciliation, InFlightDue
  <2>3. transit = {} /\ (RowIn.status = "DISPATCHED" => submitted = {})
    BY <2>1, <2>2 DEF SentInv, FlightFits
  <2>4. \A p \in Threads : p # c => thread[p].pc = "IDLE"
    <3>1. ASSUME NEW p \in Threads, p # c, thread[p].pc # "IDLE" PROVE FALSE
      <4>1. thread[p].pc \in {"READING", "OBSERVED"}
        BY <2>1, <2>2, <3>1 DEF SentInv, ThreadsFit, TypeOK, Jobs
      <4>2. p \in Chains
        BY <4>1 DEF SentInv, ThreadsFit
      <4> QED BY <3>1, <4>2 DEF OneChain
    <3> QED BY <3>1
  <2>5. thread'[c] = [pc |-> "READING", v |-> inFlight] /\ \A p \in Threads : p # c => thread'[p].pc = "IDLE"
    BY <1>0, <2>1, <2>4 DEF TypeOK
  <2>6. ValueAt(channel)' = ValueAt(channel) /\ RowIn' = RowIn
    BY <2>1 DEF ValueAt, RowIn
  <2>7. JobFits(thread'[c], inFlight, RowIn, transit, submitted, channel, ValueAt(channel))
    BY <2>1, <2>3, <2>5 DEF JobFits
  <2>8. ThreadsFit'
    <3>1. \A p \in Threads : thread'[p].pc # "IDLE" => p = c
      BY <2>5
    <3>2. \A p \in Threads : thread'[p].pc \notin {"CLAIMED", "SENDING", "ANSWERED"}
      BY <2>5
    <3> QED BY <2>1, <2>6, <2>7, <3>1, <3>2 DEF ThreadsFit
  <2> QED BY <2>1, <2>6, <2>8 DEF SentInv, RowsFit
<1>2. CASE DiscardOlder(c)
  <2>1. \A w \in Versions : write'[w] = write[w] \/ write'[w] = Ended(write[w], "DISCARDED_STALE")
    BY <1>2 DEF DiscardOlder, TypeOK
  <2>2. inFlight = 0 /\ UNCHANGED <<latestDispatched, inFlight, thread, outside>>
    BY <1>2 DEF DiscardOlder
  <2> QED BY <2>1, <2>2, SetAsideSent DEF Final
<1>3. ASSUME NEW v \in Versions, ClaimDispatch(c, v) PROVE SentInv'
  <2>1. /\ inFlight = 0 /\ v = latestCreated
        /\ write[v].status = "PENDING" \/ (write[v].status = "FAILED" /\ write[v].next = "DUE")
        /\ write' = [write EXCEPT ![v] = Claimed(write[v])]
        /\ Fly(c, v, write[v].attempts + 1)
        /\ UNCHANGED <<outside, transit, submitted, channel>>
    BY <1>3 DEF ClaimDispatch, Ready, Candidates, outside
  <2>2. v \in Int /\ latestDispatched \in Nat /\ latestDispatched <= v /\ channel \in Nat /\ channel <= latestDispatched
    BY <2>1 DEF TypeOK, SlotInv, SentInv, WriteQueueAssumption
  <2>3. RowFits(v, Claimed(write[v]), v, channel, ValueAt(channel)) /\ channel # v
    BY <1>0, <2>1, <2>2, RowTakesOff
  <2>4. write'[v] = Claimed(write[v]) /\ \A w \in Versions : w # v => write'[w] = write[w]
    BY <2>1 DEF TypeOK
  <2>5. /\ write'[v].status = "DISPATCHED" /\ write'[v].attempts = write[v].attempts + 1
        /\ write'[v].next = "NONE" /\ write'[v].age = "FRESH" /\ write'[v].value = write[v].value
    BY <1>0, <2>4, ClaimedFields
  <2>6. ValueAt(channel)' = ValueAt(channel)
    BY <2>1, <2>4, <2>5, ValueKept
  <2>7. latestDispatched' = v /\ inFlight' = v
        /\ thread' = [thread EXCEPT ![c] = [pc |-> "CLAIMED", v |-> v, attempt |-> write[v].attempts + 1]]
    BY <2>1, <2>2 DEF Fly, Larger
  <2>8. RowsFit'
    <3>1. ASSUME NEW w \in Versions PROVE RowFits(w, write'[w], v, channel, ValueAt(channel))
      <4>1. CASE w = v
        BY <2>3, <2>4, <4>1
      <4>2. CASE w # v
        <5>1. RowFits(w, write[w], latestDispatched, channel, ValueAt(channel))
          BY <1>0
        <5>2. RowFits(w, write[w], v, channel, ValueAt(channel))
          BY <2>2, <5>1 DEF RowFits
        <5> QED BY <2>4, <4>2, <5>2
      <4> QED BY <4>1, <4>2
    <3> QED BY <2>1, <2>6, <2>7, <3>1 DEF RowsFit
  <2>9. channel <= v
    BY <2>2
  <2> QED BY <1>0, <2>1, <2>3, <2>5, <2>7, <2>8, <2>9, TakesOff
<1>4. ASSUME NEW v \in Versions, ClaimEnds(c, v) PROVE SentInv'
  <2>1. \A status \in Refusals \cup {"DISCARDED_STALE"} : status \in Final \ {"APPLIED"}
    BY DEF WriteQueueAssumption, Final
  <2>2. \A w \in Versions : \/ write'[w] = write[w]
                            \/ \E status \in Final \ {"APPLIED"} : write'[w] = Ended(write[w], status)
    BY <1>4, <2>1 DEF ClaimEnds, TypeOK
  <2>3. inFlight = 0 /\ UNCHANGED <<latestDispatched, inFlight, thread, outside>>
    BY <1>4 DEF ClaimEnds, Ready
  <2> QED BY <2>2, <2>3, SetAsideSent
<1>5. ASSUME NEW v \in Versions, ClaimBlocks(c, v) PROVE SentInv'
  <2>1. \A w \in Versions :
          \/ write'[w] = write[w]
          \/ write[w].status = "PENDING" /\ write'[w] = [write[w] EXCEPT !.status = "BLOCKED"]
    BY <1>5 DEF ClaimBlocks, TypeOK
  <2>2. inFlight = 0 /\ UNCHANGED <<latestDispatched, inFlight, thread, outside>>
    BY <1>5 DEF ClaimBlocks, Ready
  <2> QED BY <2>1, <2>2, SetAsideSent
<1> QED
  BY <1>1, <1>2, <1>3, <1>4, <1>5 DEF ClaimNext

(* A thread at work goes on: it sends, gets a refusal of its own, or reads *)
(* the channel.                                                            *)
LEMMA WorksOn ==
  ASSUME TypeOK, SentInv, NEW p \in Threads, thread[p].pc # "IDLE", NEW job,
         thread' = [thread EXCEPT ![p] = job],
         UNCHANGED <<write, inFlight, latestDispatched, submitted, channel>>,
         JobFits(job, inFlight, RowIn, transit', submitted, channel, ValueAt(channel)),
         FlightFits(inFlight, RowIn, transit', submitted, channel),
         job.pc \in {"READING", "OBSERVED"} => p \in Chains,
         RowIn.next = "DUE" \/ RowIn.age # "FRESH" => job.pc \notin {"CLAIMED", "SENDING", "ANSWERED"}
  PROVE  SentInv'
<1>1. ValueAt(channel)' = ValueAt(channel) /\ RowIn' = RowIn
  BY DEF ValueAt, RowIn
<1>2. thread'[p] = job /\ \A q \in Threads : q # p => thread'[q] = thread[q]
  BY DEF TypeOK
<1>3. \A q \in Threads : q # p => thread'[q].pc = "IDLE"
  BY <1>2 DEF SentInv, ThreadsFit
<1>4. ThreadsFit'
  <2>1. \A q \in Threads : thread'[q].pc # "IDLE" => q = p
    BY <1>3
  <2>2. \A q \in Threads : thread'[q].pc # "IDLE" => thread'[q] = job
    BY <1>2, <2>1
  <2>3. \A q \in Threads : thread'[q].pc # "IDLE" =>
          JobFits(thread'[q], inFlight, RowIn, transit', submitted, channel, ValueAt(channel))
    BY <2>2
  <2> QED BY <1>1, <2>1, <2>2, <2>3 DEF ThreadsFit
<1> QED BY <1>1, <1>4 DEF SentInv, RowsFit

LEMMA PlanSendSent ==
  ASSUME TypeOK, SentInv, NEW p \in Threads, Plan(p) \/ Send(p)
  PROVE  SentInv'
<1>1. /\ thread[p].pc = "CLAIMED"
      /\ UNCHANGED <<write, inFlight, latestDispatched, submitted, channel>>
  BY DEF Plan, Send, queue, outside
<1>2. JobFits(thread[p], inFlight, RowIn, transit, submitted, channel, ValueAt(channel))
  BY <1>1 DEF SentInv, ThreadsFit
<1>3. /\ thread[p].v = inFlight /\ inFlight # 0 /\ RowIn.status = "DISPATCHED"
      /\ transit = {} /\ submitted = {} /\ channel # inFlight
      /\ thread[p].attempt = RowIn.attempts
  BY <1>1, <1>2 DEF JobFits
<1>4. RowIn.next # "DUE" /\ RowIn.age = "FRESH"
  BY <1>1, <1>3 DEF SentInv, ThreadsFit
<1>5. thread[p] \in [pc: {"CLAIMED"}, v: Versions, attempt: 1..MaxAttempts]
  BY <1>1 DEF TypeOK, Jobs
<1>6. CASE Plan(p)
  <2>1. PICK answer \in {"UNSENDABLE", "TRANSIENT", "OUTCOME_UNKNOWN"} :
          thread' = [thread EXCEPT ![p] = [pc |-> "ANSWERED", v |-> thread[p].v, answer |-> answer]]
    BY <1>6 DEF Plan, Answered
  <2>2. transit' = transit
    BY <1>6 DEF Plan, outside
  <2> DEFINE job == [pc |-> "ANSWERED", v |-> thread[p].v, answer |-> answer]
  <2>3. job.pc = "ANSWERED" /\ job.v = inFlight /\ job.answer # "APPLIED"
    BY <1>3
  <2>4. thread' = [thread EXCEPT ![p] = job]
    BY <2>1
  <2> HIDE DEF job
  <2>5. JobFits(job, inFlight, RowIn, transit', submitted, channel, ValueAt(channel))
    BY <1>3, <2>2, <2>3 DEF JobFits
  <2>6. FlightFits(inFlight, RowIn, transit', submitted, channel)
    BY <2>2 DEF SentInv
  <2> QED BY <1>1, <1>4, <2>3, <2>4, <2>5, <2>6, WorksOn
<1>7. CASE Send(p)
  <2> DEFINE job == [thread[p] EXCEPT !.pc = "SENDING"]
  <2>1. job.pc = "SENDING" /\ job.v = inFlight /\ job.attempt = RowIn.attempts
    BY <1>3, <1>5
  <2>2. thread' = [thread EXCEPT ![p] = job]
    BY <1>7 DEF Send
  <2>3. transit' = {Request(p)}
    BY <1>3, <1>7 DEF Send
  <2>4. Request(p).v = inFlight /\ Request(p).attempt = RowIn.attempts
    BY <1>3 DEF Request
  <2> HIDE DEF job
  <2>5. JobFits(job, inFlight, RowIn, transit', submitted, channel, ValueAt(channel))
    BY <1>3, <2>1 DEF JobFits
  <2>6. FlightFits(inFlight, RowIn, transit', submitted, channel)
    BY <1>3, <1>4, <2>3, <2>4 DEF FlightFits
  <2> QED BY <1>1, <1>4, <2>1, <2>2, <2>5, <2>6, WorksOn
<1> QED BY <1>6, <1>7

(* A value read back is the version in flight when the values differ; on a *)
(* synchronous channel nothing is on its way that could change it.         *)
LEMMA ReadBackSent ==
  ASSUME WriteQueueAssumption, TypeOK, SlotInv, SentInv, ProcessingMode = "ASYNC" => DistinctValues,
         NEW p \in Threads, ReadBack(p)
  PROVE  SentInv'
<1>1. /\ thread[p].pc = "READING"
      /\ UNCHANGED <<write, inFlight, latestDispatched, transit, submitted, channel>>
  BY DEF ReadBack, queue, outside
<1>2. JobFits(thread[p], inFlight, RowIn, transit, submitted, channel, ValueAt(channel))
  BY <1>1 DEF SentInv, ThreadsFit
<1>3. /\ thread[p].v = inFlight /\ inFlight \in Versions /\ RowIn = write[inFlight] /\ inFlight # 0
      /\ transit = {} /\ (RowIn.status = "DISPATCHED" => submitted = {})
  BY <1>1, <1>2 DEF JobFits, TypeOK, RowIn, WriteQueueAssumption
<1>4. RowIn.value # NoValue /\ inFlight \in 1..latestCreated
  <2>1. RowIn.status \in {"DISPATCHED", "ACCEPTED"}
    BY <1>3 DEF SlotInv, OneInFlight, HoldsSlot
  <2>2. RowFits(inFlight, RowIn, latestDispatched, channel, ValueAt(channel))
    BY <1>3 DEF SentInv, RowsFit
  <2>3. inFlight <= latestDispatched
    BY <1>3 DEF SentInv, TypeOK
  <2> QED BY <1>3, <2>1, <2>2, <2>3 DEF RowFits, Flown, SlotInv, TypeOK, WriteQueueAssumption
<1>5. ValueAt(channel) = RowIn.value => submitted = {}
  <2>1. ASSUME ValueAt(channel) = RowIn.value, submitted # {} PROVE FALSE
    <3>1. ProcessingMode = "ASYNC" /\ channel # inFlight
      BY <1>3, <2>1 DEF SentInv, FlightFits, WriteQueueAssumption
    <3>2. channel # 0 /\ write[channel].value = RowIn.value
      BY <1>4, <2>1 DEF ValueAt
    <3>3. channel \in 1..latestCreated
      BY <3>2 DEF SentInv, SlotInv, TypeOK, WriteQueueAssumption
    <3> QED BY <1>3, <1>4, <3>1, <3>2, <3>3 DEF DistinctValues
  <2> QED BY <2>1
<1>6. ValueAt(channel) # RowIn.value => channel # inFlight
  BY <1>3 DEF ValueAt
<1>7. PICK reading \in Readings :
        /\ thread' = [thread EXCEPT ![p] = [pc |-> "OBSERVED", v |-> inFlight, reading |-> reading]]
        /\ reading = "APPLIED" => ValueAt(channel) = RowIn.value
        /\ reading = "NOT_APPLIED" => ValueAt(channel) # RowIn.value
  BY <1>3 DEF ReadBack, Readings
<1> DEFINE job == [pc |-> "OBSERVED", v |-> inFlight, reading |-> reading]
<1>8. job.pc = "OBSERVED" /\ job.v = inFlight /\ job.reading = reading
  OBVIOUS
<1>9. thread' = [thread EXCEPT ![p] = job] /\ p \in Chains
  BY <1>1, <1>7 DEF SentInv, ThreadsFit
<1> HIDE DEF job
<1>10. JobFits(job, inFlight, RowIn, transit', submitted, channel, ValueAt(channel))
  BY <1>1, <1>3, <1>5, <1>6, <1>7, <1>8 DEF JobFits
<1>11. FlightFits(inFlight, RowIn, transit', submitted, channel)
  BY <1>1 DEF SentInv
<1> QED BY <1>1, <1>8, <1>9, <1>10, <1>11, WorksOn

(* A request on its way is the only one, it is the last attempt of the     *)
(* write in flight, and nobody but its sender is at work.                  *)
LEMMA OnTheWay ==
  ASSUME WriteQueueAssumption, TypeOK, SlotInv, SentInv, NEW r \in transit \cup submitted
  PROVE  /\ inFlight \in Versions /\ inFlight # 0 /\ RowIn = write[inFlight] /\ inFlight = latestDispatched
         /\ r.v = inFlight /\ r.attempt = RowIn.attempts /\ channel # inFlight
         /\ transit \cup submitted = {r}
         /\ r \in transit => submitted = {} /\ RowIn.next # "DUE" /\ RowIn.age = "FRESH"
         /\ RowIn.status \in {"DISPATCHED", "ACCEPTED"}
<1>1. /\ \A s \in transit \cup submitted : inFlight # 0 /\ s.v = inFlight /\ s.attempt = RowIn.attempts
      /\ channel # inFlight
      /\ transit = {} \/ submitted = {}
      /\ RowIn.next = "DUE" \/ RowIn.age # "FRESH" => transit = {}
  BY DEF SentInv, FlightFits
<1>2. \A s \in transit \cup submitted : s \in [v: Versions, attempt: 1..MaxAttempts]
  BY DEF TypeOK, Requests
<1>3. \A s \in transit \cup submitted : s = r
  BY <1>1, <1>2
<1>4. inFlight \in Versions /\ RowIn = write[inFlight]
  BY <1>1 DEF TypeOK, RowIn, WriteQueueAssumption
<1>5. RowIn.status \in {"DISPATCHED", "ACCEPTED"}
  BY <1>1, <1>4 DEF SlotInv, OneInFlight, HoldsSlot
<1> QED BY <1>1, <1>3, <1>4, <1>5 DEF SentInv

(* The version in flight takes effect: the rows still fit.                 *)
LEMMA ShowsFlight ==
  ASSUME WriteQueueAssumption, TypeOK, SlotInv, SentInv, UNCHANGED <<write, latestDispatched>>,
         inFlight \in Versions, inFlight = latestDispatched, channel' = inFlight
  PROVE  RowsFit' /\ ValueAt(channel)' = write[inFlight].value
<1>1. ValueAt(channel)' = write[inFlight].value
  BY DEF ValueAt, WriteQueueAssumption
<1>2. write[inFlight].status \in {"DISPATCHED", "ACCEPTED"} /\ write[inFlight].refused \in BOOLEAN
  BY DEF SlotInv, OneInFlight, HoldsSlot, TypeOK, Rows, WriteQueueAssumption
<1>3. ASSUME NEW w \in Versions
      PROVE  RowFits(w, write[w], latestDispatched, inFlight, write[inFlight].value)
  <2>1. RowFits(w, write[w], latestDispatched, channel, ValueAt(channel))
    BY DEF SentInv, RowsFit
  <2>2. CASE w = inFlight
    BY <1>2, <2>1, <2>2 DEF RowFits, Flown, Final
  <2>3. CASE w # inFlight
    BY <2>1, <2>3 DEF RowFits, Flown, WriteQueueAssumption
  <2> QED BY <2>2, <2>3
<1> QED BY <1>1, <1>3 DEF RowsFit

(* The answer to the request reaches the thread that waits for it, if it   *)
(* still does.                                                             *)
LEMMA Replied ==
  ASSUME WriteQueueAssumption, TypeOK, SlotInv, SentInv, NEW r \in transit,
         NEW answers, Reply(r, answers)
  PROVE  /\ \A p \in Threads : thread[p].pc = "IDLE" => thread'[p] = thread[p]
         /\ \A p \in Threads : thread[p].pc # "IDLE" => RowIn.status = "DISPATCHED"
         /\ \E answer \in answers \cup {"OUTCOME_UNKNOWN"} :
              \A p \in Threads : thread[p].pc # "IDLE" =>
                thread'[p] = [pc |-> "ANSWERED", v |-> inFlight, answer |-> answer]
<1>1. r.v = inFlight /\ r.attempt = RowIn.attempts /\ r \in [v: Versions, attempt: 1..MaxAttempts]
  BY OnTheWay DEF TypeOK, Requests
<1>2. ASSUME NEW p \in Threads, thread[p].pc # "IDLE"
      PROVE  thread[p].v = inFlight /\ RowIn.status = "DISPATCHED" /\ p \in Waiting(r)
  <2>1. JobFits(thread[p], inFlight, RowIn, transit, submitted, channel, ValueAt(channel))
    BY <1>2 DEF SentInv, ThreadsFit
  <2>2. thread[p].pc = "SENDING"
    <3>1. thread[p].pc \notin {"CLAIMED", "ANSWERED", "READING", "OBSERVED"}
      BY <2>1 DEF JobFits
    <3> QED BY <1>2, <3>1 DEF TypeOK, Jobs
  <2>3. thread[p].v = inFlight /\ thread[p].attempt = RowIn.attempts /\ RowIn.status = "DISPATCHED"
    BY <2>1, <2>2 DEF JobFits
  <2>4. Request(p) = r
    BY <1>1, <2>3 DEF Request
  <2> QED BY <2>2, <2>3, <2>4 DEF Waiting
<1>3. PICK answer \in answers \cup {"OUTCOME_UNKNOWN"} :
        thread' = [p \in Threads |-> IF p \in Waiting(r) THEN Answered(p, answer)[p] ELSE thread[p]]
  BY DEF Reply
<1>4. ASSUME NEW p \in Threads, thread[p].pc = "IDLE" PROVE thread'[p] = thread[p]
  BY <1>3, <1>4 DEF Waiting
<1>5. ASSUME NEW p \in Threads, thread[p].pc # "IDLE"
      PROVE  thread'[p] = [pc |-> "ANSWERED", v |-> inFlight, answer |-> answer]
  <2>1. thread'[p] = Answered(p, answer)[p]
    BY <1>2, <1>3, <1>5
  <2>2. Answered(p, answer)[p] = [pc |-> "ANSWERED", v |-> thread[p].v, answer |-> answer]
    BY DEF Answered, TypeOK
  <2> QED BY <1>2, <1>5, <2>1, <2>2
<1> QED BY <1>2, <1>3, <1>4, <1>5

LEMMA DeliverSent ==
  ASSUME WriteQueueAssumption, TypeOK, SlotInv, SentInv, NEW r \in transit, Deliver(r) \/ Refuse(r)
  PROVE  SentInv'
<1>1. /\ inFlight \in Versions /\ inFlight # 0 /\ RowIn = write[inFlight] /\ inFlight = latestDispatched
      /\ r.v = inFlight /\ r.attempt = RowIn.attempts /\ channel # inFlight
      /\ transit \cup submitted = {r} /\ submitted = {} /\ RowIn.next # "DUE" /\ RowIn.age = "FRESH"
  BY OnTheWay
<1>2. UNCHANGED <<write, inFlight, latestDispatched>> /\ RowIn' = RowIn
  BY DEF Deliver, Refuse, queue, RowIn
<1>3. PICK answers :
        /\ Reply(r, answers)
        /\ \/ answers = Refused /\ UNCHANGED <<submitted, channel>>
           \/ answers = {"ACCEPTED", "APPLIED"} /\ ProcessingMode = "SYNC" /\ channel' = inFlight /\ UNCHANGED submitted
           \/ answers = {"ACCEPTED"} /\ ProcessingMode = "ASYNC" /\ submitted' = {r} /\ UNCHANGED channel
  BY <1>1 DEF Deliver, Refuse, WriteQueueAssumption
<1>4. transit' = {}
  BY <1>1 DEF Deliver, Refuse
<1>5. PICK answer \in answers \cup {"OUTCOME_UNKNOWN"} :
        \A p \in Threads : thread[p].pc # "IDLE" =>
          thread'[p] = [pc |-> "ANSWERED", v |-> inFlight, answer |-> answer]
  BY <1>3, Replied
<1>6. /\ \A p \in Threads : thread[p].pc = "IDLE" => thread'[p] = thread[p]
      /\ \A p \in Threads : thread[p].pc # "IDLE" => RowIn.status = "DISPATCHED"
  BY <1>3, Replied
<1>7. RowsFit' /\ (channel' = inFlight => ValueAt(channel)' = RowIn.value)
  <2>1. CASE channel' = channel
    <3>1. ValueAt(channel)' = ValueAt(channel)
      BY <1>2, <2>1 DEF ValueAt
    <3> QED BY <1>1, <1>2, <2>1, <3>1 DEF SentInv, RowsFit
  <2>2. CASE channel' = inFlight
    BY <1>1, <1>2, <2>2, ShowsFlight
  <2> QED BY <1>3, <2>1, <2>2
<1>8. FlightFits(inFlight, RowIn, {}, submitted', channel')
  BY <1>1, <1>3 DEF FlightFits
<1> DEFINE job == [pc |-> "ANSWERED", v |-> inFlight, answer |-> answer]
<1>9. job.pc = "ANSWERED" /\ job.v = inFlight /\ job.answer = answer
  OBVIOUS
<1>10. \A p \in Threads : thread'[p].pc # "IDLE" => thread[p].pc # "IDLE" /\ thread'[p] = job
  BY <1>5, <1>6
<1> HIDE DEF job
<1>11. (\E p \in Threads : thread'[p].pc # "IDLE") =>
         JobFits(job, inFlight, RowIn, {}, submitted', channel', ValueAt(channel)')
  <2>1. ASSUME RowIn.status = "DISPATCHED"
        PROVE  JobFits(job, inFlight, RowIn, {}, submitted', channel', ValueAt(channel)')
    <3>1. answer \in Refused => submitted' = {} /\ channel' # inFlight
      BY <1>1, <1>3 DEF Refused
    <3>2. answer = "APPLIED" => submitted' = {} /\ channel' = inFlight
      BY <1>1, <1>3 DEF Refused
    <3> QED BY <1>1, <1>7, <1>9, <2>1, <3>1, <3>2 DEF JobFits
  <2> QED BY <1>6, <1>10, <2>1
<1>12. ThreadsFit'
  <2>1. \A p \in Threads : thread'[p].pc # "IDLE" =>
          JobFits(thread'[p], inFlight, RowIn, {}, submitted', channel', ValueAt(channel)')
    BY <1>10, <1>11
  <2>2. \A p, q \in Threads : thread'[p].pc # "IDLE" /\ thread'[q].pc # "IDLE" => p = q
    BY <1>10 DEF SentInv, ThreadsFit
  <2>3. \A p \in Threads : thread'[p].pc \notin {"READING", "OBSERVED"}
    BY <1>9, <1>10
  <2> QED BY <1>1, <1>2, <1>4, <2>1, <2>2, <2>3 DEF ThreadsFit
<1>13. channel' <= latestDispatched'
  BY <1>1, <1>2, <1>3 DEF SentInv, WriteQueueAssumption
<1> QED BY <1>1, <1>2, <1>4, <1>7, <1>8, <1>12, <1>13 DEF SentInv

(* An asynchronous channel settles what it accepted.                       *)
LEMMA SubmittedSent ==
  ASSUME WriteQueueAssumption, TypeOK, SlotInv, SentInv, NEW r \in submitted,
         ApplySubmitted(r) \/ DropSubmitted(r)
  PROVE  SentInv'
<1>1. /\ inFlight \in Versions /\ inFlight # 0 /\ RowIn = write[inFlight] /\ inFlight = latestDispatched
      /\ r.v = inFlight /\ transit \cup submitted = {r}
  BY OnTheWay
<1>2. /\ UNCHANGED <<write, inFlight, latestDispatched, thread, transit>> /\ RowIn' = RowIn
      /\ submitted' = {} /\ channel' \in {channel, inFlight}
  BY <1>1 DEF ApplySubmitted, DropSubmitted, queue, RowIn
<1>3. RowsFit'
  <2>1. CASE channel' = channel
    <3>1. ValueAt(channel)' = ValueAt(channel)
      BY <1>2, <2>1 DEF ValueAt
    <3> QED BY <1>1, <1>2, <2>1, <3>1 DEF SentInv, RowsFit
  <2>2. CASE channel' = inFlight
    BY <1>1, <1>2, <2>2, ShowsFlight
  <2> QED BY <1>2, <2>1, <2>2
<1>4. transit = {}
  BY DEF SentInv, FlightFits
<1>5. FlightFits(inFlight, RowIn, {}, {}, channel')
  BY DEF FlightFits
<1>6. ASSUME NEW p \in Threads, thread[p].pc # "IDLE"
      PROVE  JobFits(thread[p], inFlight, RowIn, {}, {}, channel', ValueAt(channel)')
  <2>1. JobFits(thread[p], inFlight, RowIn, transit, submitted, channel, ValueAt(channel))
    BY <1>6 DEF SentInv, ThreadsFit
  <2>2. submitted # {}
    OBVIOUS
  <2> QED BY <1>4, <2>1, <2>2 DEF JobFits
<1>7. ThreadsFit'
  BY <1>2, <1>4, <1>6 DEF SentInv, ThreadsFit
<1>8. channel' <= latestDispatched'
  BY <1>1, <1>2 DEF SentInv, WriteQueueAssumption
<1> QED BY <1>1, <1>2, <1>3, <1>4, <1>5, <1>7, <1>8 DEF SentInv

(* The write in flight is settled: either it keeps the slot, or nothing is *)
(* left on its way.                                                        *)
LEMMA SettledFits ==
  ASSUME WriteQueueAssumption, TypeOK, SlotInv, SentInv,
         NEW p \in Threads, thread[p].pc # "IDLE", NEW row,
         inFlight \in Versions, write' = [write EXCEPT ![inFlight] = row],
         row.value = write[inFlight].value,
         RowFits(inFlight, row, latestDispatched, channel, ValueAt(channel)),
         thread' = [thread EXCEPT ![p] = Idle],
         inFlight' = IF HoldsSlot(row) THEN inFlight ELSE 0,
         IF HoldsSlot(row) THEN FlightFits(inFlight, row, transit, submitted, channel)
                           ELSE transit = {} /\ submitted = {},
         UNCHANGED <<latestDispatched, transit, submitted, channel>>
  PROVE  SentInv'
<1>1. write'[inFlight] = row /\ \A w \in Versions : w # inFlight => write'[w] = write[w]
  BY DEF TypeOK
<1>2. ValueAt(channel)' = ValueAt(channel)
  BY <1>1, ValueKept
<1>3. RowsFit'
  <2>1. ASSUME NEW w \in Versions PROVE RowFits(w, write'[w], latestDispatched, channel, ValueAt(channel))
    BY <1>1 DEF SentInv, RowsFit
  <2> QED BY <1>2, <2>1 DEF RowsFit
<1>4. \A q \in Threads : thread'[q].pc = "IDLE"
  BY DEF SentInv, ThreadsFit, TypeOK, Idle
<1>5. ThreadsFit'
  BY <1>4 DEF ThreadsFit
<1>6. inFlight # 0
  BY DEF WriteQueueAssumption
<1>7. FlightFits(inFlight', RowIn', transit, submitted, channel)
  <2>1. CASE HoldsSlot(row)
    <3>1. inFlight' = inFlight /\ RowIn' = row
      BY <1>1, <1>6, <2>1 DEF RowIn
    <3> QED BY <2>1, <3>1
  <2>2. CASE ~HoldsSlot(row)
    <3>1. inFlight' = 0 /\ transit = {} /\ submitted = {}
      BY <2>2
    <3> QED BY <3>1 DEF FlightFits
  <2> QED BY <2>1, <2>2
<1> QED BY <1>3, <1>5, <1>6, <1>7 DEF SentInv

(* What each plan does to the fields of a row in flight.                   *)
LEMMA PlanFields ==
  ASSUME NEW row \in Rows, row.status \in {"DISPATCHED", "ACCEPTED"}, NEW plan \in Plans
  PROVE  LET new == AfterPlan(row, plan) IN
         /\ new.attempts = row.attempts /\ new.value = row.value
         /\ plan = "ACCEPT" => new.status = "ACCEPTED" /\ new.next = "NONE" /\ new.age = "FRESH"
         /\ plan = "ACCEPT_APPLIED" => new.status = "APPLIED"
         /\ plan \in {"RETRY_LATER", "RETRY_NOW"} => new.status = "FAILED"
         /\ plan = "RECONCILE" => new.status = row.status /\ new.next = "LATER" /\ new.age = row.age
         /\ plan \in {"DISCARD", "DISCARD_REFUSED"} => new.status = "DISCARDED_STALE"
         /\ plan = "BUDGET_EXHAUSTED" => new.status = "BUDGET_EXHAUSTED"
         /\ plan = "NOT_APPLIED" => new.status = "NOT_APPLIED"
         /\ plan = "UNRESOLVED" /\ row.status = "ACCEPTED" =>
              new.status = "ACCEPTED" /\ new.next = "NONE" /\ new.age = row.age
         /\ plan = "BLOCK_SCOPE" \/ (plan = "UNRESOLVED" /\ row.status = "DISPATCHED") =>
              new.status = "FAILED" /\ new.next = "NONE"
         /\ plan # "DISCARD_REFUSED" => new.refused = row.refused
<1> DEFINE new == AfterPlan(row, plan)
<1>1. new.attempts = row.attempts /\ new.value = row.value
  BY PlannedRow
<1>2. CASE plan \in {"ACCEPT", "RETRY_LATER", "RETRY_NOW", "BLOCK_SCOPE"}
  BY <1>1, <1>2 DEF AfterPlan, Rows
<1>3. CASE plan \in {"RECONCILE", "UNRESOLVED"}
  BY <1>1, <1>3 DEF AfterPlan, Rows
<1>4. CASE plan \in {"ACCEPT_APPLIED", "DISCARD", "BUDGET_EXHAUSTED", "NOT_APPLIED"}
  <2>1. CASE plan = "ACCEPT_APPLIED"
    BY <1>1, <2>1, EndedFields DEF AfterPlan
  <2>2. CASE plan = "DISCARD"
    BY <1>1, <2>2, EndedFields DEF AfterPlan
  <2>3. CASE plan = "BUDGET_EXHAUSTED"
    BY <1>1, <2>3, EndedFields DEF AfterPlan
  <2>4. CASE plan = "NOT_APPLIED"
    BY <1>1, <2>4, EndedFields DEF AfterPlan
  <2> QED BY <1>4, <2>1, <2>2, <2>3, <2>4
<1>5. CASE plan = "DISCARD_REFUSED"
  <2>1. new = [Ended(row, "DISCARDED_STALE") EXCEPT !.refused = TRUE]
    BY <1>5 DEF AfterPlan
  <2>2. new.status = "DISCARDED_STALE"
    BY <2>1, EndedFields, EndedRow DEF Rows, Final
  <2> QED BY <1>1, <1>5, <2>2
<1> QED BY <1>1, <1>2, <1>3, <1>4, <1>5 DEF Plans

(* A plan leaves a row that fits, when it tries again or takes a refusal   *)
(* as final only if the version is not shown, and takes a write for        *)
(* applied only if its value is.                                           *)
LEMMA PlanFits ==
  ASSUME NEW row \in Rows, row.status \in {"DISPATCHED", "ACCEPTED"}, NEW plan \in Plans,
         NEW v \in Int, NEW highest \in Int, NEW shown, NEW value,
         RowFits(v, row, highest, shown, value),
         plan \in {"RETRY_LATER", "RETRY_NOW", "DISCARD_REFUSED"} => shown # v,
         plan = "ACCEPT_APPLIED" => value = row.value
  PROVE  RowFits(v, AfterPlan(row, plan), highest, shown, value)
<1> DEFINE new == AfterPlan(row, plan)
<1>1. /\ new.attempts = row.attempts /\ new.value = row.value
      /\ plan = "ACCEPT_APPLIED" <=> new.status = "APPLIED"
      /\ new.status \notin {"PENDING", "BLOCKED"}
      /\ new.status = "FAILED" => plan \in {"RETRY_LATER", "RETRY_NOW"} \/ new.next = "NONE"
      /\ plan # "DISCARD_REFUSED" => new.refused = row.refused
      /\ plan = "DISCARD_REFUSED" => new.status \in Final
  BY PlanFields DEF Plans, Final
<1>2. row.refused \in BOOLEAN /\ row.refused # TRUE /\ row.attempts >= 1
  BY DEF Rows, RowFits, Final, Flown
<1> HIDE DEF new
<1>3. RowFits(v, new, highest, shown, value)
  BY <1>1, <1>2 DEF RowFits
<1> QED BY <1>3 DEF new

LEMMA AppliedPlanSent ==
  ASSUME WriteQueueAssumption, TypeOK, SlotInv, SentInv,
         NEW p \in Threads, thread[p].pc # "IDLE", NEW plan \in Plans,
         inFlight \in Versions, Apply(inFlight, plan),
         thread' = [thread EXCEPT ![p] = Idle], UNCHANGED outside,
         write[inFlight].status \in {"DISPATCHED", "ACCEPTED"},
         plan \in {"RETRY_LATER", "RETRY_NOW", "DISCARD_REFUSED"} => channel # inFlight,
         plan = "ACCEPT_APPLIED" => ValueAt(channel) = write[inFlight].value,
         transit = {},
         submitted # {} => \/ plan \in {"ACCEPT", "RECONCILE"}
                           \/ plan = "UNRESOLVED" /\ write[inFlight].status = "ACCEPTED"
  PROVE  SentInv'
<1> DEFINE v == inFlight
           row == write[v]
           new == AfterPlan(row, plan)
<1>1. row \in Rows /\ RowIn = row /\ v # 0
  BY DEF TypeOK, RowIn, WriteQueueAssumption
<1>2. RowFits(v, row, latestDispatched, channel, ValueAt(channel))
  BY DEF SentInv, RowsFit
<1>3. v \in Int /\ latestDispatched \in Int
  BY DEF TypeOK, WriteQueueAssumption
<1>4. RowFits(v, new, latestDispatched, channel, ValueAt(channel))
  BY <1>1, <1>2, <1>3, PlanFits
<1>5. /\ new.attempts = row.attempts /\ new.value = row.value
      /\ plan = "ACCEPT" => new.status = "ACCEPTED" /\ new.next = "NONE" /\ new.age = "FRESH"
      /\ plan = "RECONCILE" => new.status = row.status /\ new.next = "LATER" /\ new.age = row.age
      /\ plan = "UNRESOLVED" /\ row.status = "ACCEPTED" =>
           new.status = "ACCEPTED" /\ new.next = "NONE" /\ new.age = row.age
  BY <1>1, PlanFields
<1>6. HoldsSlot(new) => \/ plan \in {"ACCEPT", "RECONCILE"}
                        \/ plan = "UNRESOLVED" /\ row.status = "ACCEPTED"
  BY <1>1, PlanFields DEF HoldsSlot, Plans
<1>7. HoldsSlot(row)
  BY <1>1 DEF SlotInv, OneInFlight
<1>8. FlightFits(v, row, {}, submitted, channel)
  BY <1>1 DEF SentInv
<1>9. HoldsSlot(new) => FlightFits(v, new, {}, submitted, channel)
  <2>1. ASSUME HoldsSlot(new), plan = "ACCEPT" PROVE FlightFits(v, new, {}, submitted, channel)
    BY <1>5, <1>8, <2>1 DEF FlightFits
  <2>2. ASSUME plan = "RECONCILE" PROVE FlightFits(v, new, {}, submitted, channel)
    BY <1>5, <1>8, <2>2 DEF FlightFits
  <2>3. ASSUME plan = "UNRESOLVED" /\ row.status = "ACCEPTED" PROVE FlightFits(v, new, {}, submitted, channel)
    BY <1>5, <1>8, <2>3 DEF FlightFits
  <2> QED BY <1>6, <2>1, <2>2, <2>3
<1>10. ~HoldsSlot(new) => submitted = {}
  BY <1>5, <1>7, <1>8 DEF HoldsSlot, FlightFits, WriteQueueAssumption
<1>11. /\ write' = [write EXCEPT ![v] = new]
       /\ inFlight' = IF HoldsSlot(new) THEN v ELSE 0
       /\ UNCHANGED <<latestDispatched, transit, submitted, channel>>
  BY <1>1 DEF Apply, outside
<1> HIDE DEF new
<1> QED BY <1>4, <1>5, <1>9, <1>10, <1>11, SettledFits

LEMMA RecordSent ==
  ASSUME WriteQueueAssumption, TypeOK, SlotInv, SentInv,
         NEW p \in Threads, RecordOutcome(p) \/ RecordReconciliation(p)
  PROVE  SentInv'
<1>1. /\ thread[p].pc \in {"ANSWERED", "OBSERVED"} /\ thread[p] \in Jobs
      /\ thread' = [thread EXCEPT ![p] = Idle] /\ UNCHANGED outside
  BY DEF RecordOutcome, RecordReconciliation, TypeOK
<1>2. JobFits(thread[p], inFlight, RowIn, transit, submitted, channel, ValueAt(channel))
  BY <1>1 DEF SentInv, ThreadsFit
<1>3. thread[p].v = inFlight /\ inFlight \in Versions /\ RowIn = write[inFlight] /\ transit = {}
  BY <1>1, <1>2 DEF JobFits, TypeOK, RowIn, WriteQueueAssumption
<1>4. write[inFlight].status \in {"DISPATCHED", "ACCEPTED"}
  BY <1>3 DEF SlotInv, OneInFlight, HoldsSlot, WriteQueueAssumption
<1>5. CASE RecordOutcome(p)
  <2> DEFINE answer == thread[p].answer
             plan == planOutcomeTransition(answer, write[inFlight].attempts)
  <2>1. thread[p].pc = "ANSWERED" /\ answer \in Answers
    BY <1>1, <1>5 DEF RecordOutcome, Jobs
  <2>2. /\ write[inFlight].status = "DISPATCHED"
        /\ answer \in Refused => submitted = {} /\ channel # inFlight
        /\ answer = "APPLIED" => submitted = {} /\ ValueAt(channel) = write[inFlight].value
    BY <1>2, <1>3, <2>1 DEF JobFits
  <2>3. Apply(inFlight, plan)
    BY <1>3, <1>5, <2>2 DEF RecordOutcome
  <2>4. /\ plan \in Plans
        /\ plan \in {"RETRY_LATER", "RETRY_NOW", "DISCARD_REFUSED"} => answer \in Refused
        /\ plan = "ACCEPT_APPLIED" => answer = "APPLIED"
        /\ plan \in {"ACCEPT", "RECONCILE"} \/ answer \in Refused \cup {"APPLIED"}
    BY <2>1 DEF planOutcomeTransition, planFailure, Plans, Answers, Refused
  <2> HIDE DEF answer, plan
  <2> QED BY <1>1, <1>3, <1>4, <2>2, <2>3, <2>4, AppliedPlanSent
<1>6. CASE RecordReconciliation(p)
  <2> DEFINE reading == thread[p].reading
             row == write[inFlight]
             plan == planReconciliationTransition(row.status, reading, row.attempts, row.age)
  <2>1. thread[p].pc = "OBSERVED" /\ reading \in Readings
    BY <1>1, <1>6 DEF RecordReconciliation, Jobs
  <2>2. /\ row.status = "DISPATCHED" => submitted = {}
        /\ reading = "APPLIED" => submitted = {} /\ ValueAt(channel) = row.value
        /\ reading = "NOT_APPLIED" /\ row.status = "DISPATCHED" => channel # inFlight
    BY <1>2, <1>3, <2>1 DEF JobFits
  <2>3. row.age = "EXPIRED" => submitted = {}
    BY <1>3 DEF SentInv, FlightFits, WriteQueueAssumption
  <2>4. Apply(inFlight, plan)
    BY <1>3, <1>4, <1>6 DEF RecordReconciliation
  <2>5. /\ plan \in Plans
        /\ plan \in {"RETRY_LATER", "RETRY_NOW", "DISCARD_REFUSED"} =>
             reading = "NOT_APPLIED" /\ row.status = "DISPATCHED"
        /\ plan = "ACCEPT_APPLIED" => reading = "APPLIED"
        /\ \/ plan \in {"RECONCILE", "UNRESOLVED"}
           \/ reading = "APPLIED" \/ row.status = "DISPATCHED" \/ row.age = "EXPIRED"
    BY <1>4, <2>1 DEF planReconciliationTransition, Plans, Readings
  <2> HIDE DEF reading, plan
  <2> QED BY <1>1, <1>3, <1>4, <2>2, <2>3, <2>4, <2>5, AppliedPlanSent
<1> QED BY <1>5, <1>6

(* Deadlines pass only when nothing they wait for is on its way.           *)
LEMMA TimeSent ==
  ASSUME WriteQueueAssumption, LateDelivery = FALSE, TypeOK, SlotInv, SentInv,
         NEW v \in Versions, NextDue(v) \/ Age(v)
  PROVE  SentInv'
<1>1. /\ UNCHANGED <<inFlight, latestDispatched, thread, transit, submitted, channel>>
      /\ ~Unsettled(v) /\ (Age(v) => write[v].age = "FRESH" \/ submitted = {})
  BY DEF NextDue, Age, outside
<1>2. PICK row : write' = [write EXCEPT ![v] = row] /\
        \/ NextDue(v) /\ row = [write[v] EXCEPT !.next = "DUE"]
        \/ Age(v) /\ row = [write[v] EXCEPT !.age = IF write[v].age = "FRESH" THEN "STALE" ELSE "EXPIRED"]
  BY DEF NextDue, Age
<1>3. write[v] \in Rows /\ RowFits(v, write[v], latestDispatched, channel, ValueAt(channel))
  BY DEF TypeOK, SentInv, RowsFit
<1>4. /\ row.status = write[v].status /\ row.attempts = write[v].attempts
      /\ row.value = write[v].value /\ row.refused = write[v].refused
      /\ row.next = write[v].next \/ (NextDue(v) /\ row.next = "DUE" /\ row.age = write[v].age)
      /\ row.age = "EXPIRED" => write[v].age = "EXPIRED" \/ (Age(v) /\ write[v].age # "FRESH")
  BY <1>2, <1>3 DEF Rows
<1>5. RowFits(v, row, latestDispatched, channel, ValueAt(channel))
  BY <1>3, <1>4 DEF RowFits, NextDue
<1>6. write'[v] = row /\ \A w \in Versions : w # v => write'[w] = write[w]
  BY <1>2 DEF TypeOK
<1>7. ValueAt(channel)' = ValueAt(channel)
  BY <1>1, <1>4, <1>6, ValueKept
<1>8. RowsFit'
  <2>1. ASSUME NEW w \in Versions PROVE RowFits(w, write'[w], latestDispatched, channel, ValueAt(channel))
    BY <1>5, <1>6 DEF SentInv, RowsFit
  <2> QED BY <1>1, <1>7, <2>1 DEF RowsFit
<1>9. CASE inFlight # v
  <2>1. inFlight # 0 => write'[inFlight] = write[inFlight]
    BY <1>6, <1>9 DEF TypeOK, WriteQueueAssumption
  <2> QED BY <1>1, <1>7, <1>8, <2>1, Untouched
<1>10. CASE inFlight = v
  <2>1. v # 0 /\ RowIn = write[v] /\ RowIn' = row
    BY <1>1, <1>6, <1>10 DEF RowIn, WriteQueueAssumption
  <2>2. /\ transit = {} /\ \A p \in Threads : thread[p].pc = "IDLE"
        /\ row.status = "DISPATCHED" => submitted = {}
    BY <1>1, <1>4 DEF Unsettled
  <2>3. FlightFits(v, write[v], transit, submitted, channel)
    BY <1>10, <2>1 DEF SentInv
  <2>4. row.age = "EXPIRED" => submitted = {}
    BY <1>1, <1>4, <2>1, <2>3 DEF FlightFits
  <2>5. FlightFits(v, row, transit, submitted, channel)
    BY <1>4, <2>2, <2>3, <2>4 DEF FlightFits
  <2>6. ThreadsFit'
    BY <1>1, <2>2 DEF ThreadsFit
  <2> QED BY <1>1, <1>8, <1>10, <2>1, <2>5, <2>6 DEF SentInv
<1> QED BY <1>9, <1>10

LEMMA NextSent ==
  ASSUME WriteQueueAssumption, LateDelivery = FALSE, OneChain,
         TypeOK, SlotInv, SentInv, ProcessingMode = "ASYNC" => DistinctValues, [Next]_vars
  PROVE  SentInv'
<1>1. ASSUME NEW p \in Threads, GiveUp(p) PROVE FALSE
  BY <1>1 DEF GiveUp
<1>2. ASSUME NEW p \in Threads, Crash(p) PROVE SentInv'
  <2>1. /\ \A q \in Threads : thread'[q] = thread[q] \/ thread'[q].pc = "IDLE"
        /\ UNCHANGED <<write, inFlight, transit, submitted, channel, latestDispatched>>
    BY <1>2 DEF Crash, TypeOK, Idle, queue, outside
  <2>2. ValueAt(channel)' = ValueAt(channel)
    BY <2>1 DEF ValueAt
  <2>3. RowsFit'
    BY <2>1, <2>2 DEF SentInv, RowsFit
  <2> QED BY <2>1, <2>2, <2>3, Untouched
<1>3. ASSUME UNCHANGED <<queue, thread, outside>> PROVE SentInv'
  <2>1. UNCHANGED <<write, inFlight, thread, transit, submitted, channel, latestDispatched>>
    BY <1>3 DEF queue, outside
  <2>2. ValueAt(channel)' = ValueAt(channel)
    BY <2>1 DEF ValueAt
  <2>3. RowsFit'
    BY <2>1, <2>2 DEF SentInv, RowsFit
  <2> QED BY <2>1, <2>2, <2>3, Untouched
<1>4. ASSUME NEW p \in Threads, Settle(p) PROVE SentInv'
  BY <1>1, <1>4, PlanSendSent, ReadBackSent, RecordSent DEF Settle
<1>5. ASSUME NEW status \in {"ACTIVE", "HELD"}, SetScopeStatus(status) PROVE SentInv'
  BY <1>3, <1>5 DEF SetScopeStatus
<1>6. CASE UNCHANGED vars
  BY <1>3, <1>6 DEF vars
<1>7. ASSUME NEW p \in Deciders, NEW q \in Values, CommitDecision(p, q) PROVE SentInv'
  BY <1>7, CommitSent
<1>8. ASSUME NEW q \in Values, Recalculate(q) PROVE SentInv'
  BY <1>8, RecalculateSent
<1>9. ASSUME NEW c \in Chains, ClaimNext(c) PROVE SentInv'
  BY <1>9, ClaimSent
<1>10. ASSUME NEW r \in transit, Deliver(r) \/ Refuse(r) PROVE SentInv'
  BY <1>10, DeliverSent
<1>11. ASSUME NEW r \in submitted, ApplySubmitted(r) \/ DropSubmitted(r) PROVE SentInv'
  BY <1>11, SubmittedSent
<1>12. ASSUME NEW v \in Versions, NextDue(v) \/ Age(v) PROVE SentInv'
  BY <1>12, TimeSent
<1> QED
  BY <1>2, <1>4, <1>5, <1>6, <1>7, <1>8, <1>9, <1>10, <1>11, <1>12 DEF Next

(* A reading of an asynchronous channel tells the versions apart.          *)
TellApart == ProcessingMode = "ASYNC" => DistinctValues

(* The inductive invariant of what is on its way: with one dispatcher      *)
(* process and deadlines longer than what they wait for, the write in      *)
(* flight, its request, the channel and the thread at work fit together in *)
(* every reachable state.                                                  *)
THEOREM SentHolds ==
  ASSUME LateDelivery = FALSE, OneChain
  PROVE  Spec /\ []TellApart => [](TypeOK /\ SlotInv /\ SentInv)
<1>1. Init => TypeOK /\ SlotInv /\ SentInv
  BY InitTyped, InitSlot, InitSent, WriteQueueAssumption
<1>2. TypeOK /\ SlotInv /\ SentInv /\ TellApart /\ [Next]_vars => TypeOK' /\ SlotInv' /\ SentInv'
  BY NextTyped, NextSlot, NextSent, WriteQueueAssumption DEF TellApart
<1> QED BY <1>1, <1>2, PTL DEF Spec

(* No blind retry: a request that may still take effect is the last        *)
(* attempt of the write in flight, whatever answers are lost and whichever *)
(* process stops.                                                          *)
THEOREM NoRetryIsBlind ==
  ASSUME LateDelivery = FALSE, OneChain
  PROVE  Spec /\ []TellApart => []NoBlindRetry
<1>1. TypeOK /\ SlotInv /\ SentInv => NoBlindRetry
  <2>1. ASSUME TypeOK, SlotInv, SentInv, NEW r \in transit \cup submitted
        PROVE  r.v = inFlight /\ r.attempt = write[r.v].attempts
    BY <2>1, OnTheWay, WriteQueueAssumption
  <2> QED BY <2>1 DEF NoBlindRetry
<1> QED BY <1>1, SentHolds, PTL

(* An old value never replaces a newer one at the channel.                 *)
THEOREM ChannelOnlyAdvances ==
  ASSUME LateDelivery = FALSE, OneChain
  PROVE  Spec /\ []TellApart => ChannelNeverGoesBack
<1>1. ASSUME TypeOK, SlotInv, SentInv, [Next]_vars PROVE channel' >= channel
  <2>1. channel \in Int /\ latestDispatched \in Int /\ channel <= latestDispatched
    BY <1>1 DEF TypeOK, SentInv
  <2>2. \A r \in transit \cup submitted : r.v = latestDispatched
    BY <1>1, OnTheWay, WriteQueueAssumption
  <2>3. channel' = channel \/ \E r \in transit \cup submitted : channel' = r.v
    <3>1. ASSUME NEW p \in Threads, Settle(p) \/ Crash(p) PROVE channel' = channel
      BY <3>1 DEF Settle, Plan, Send, GiveUp, ReadBack, RecordOutcome, RecordReconciliation, Crash, outside
    <3>2. ASSUME NEW c \in Chains, ClaimNext(c) PROVE channel' = channel
      BY <3>2 DEF ClaimNext, ClaimReconciliation, DiscardOlder, ClaimDispatch, ClaimEnds, ClaimBlocks, outside
    <3>3. ASSUME NEW v \in Versions, NextDue(v) \/ Age(v) PROVE channel' = channel
      BY <3>3 DEF NextDue, Age, outside
    <3>4. ASSUME NEW r \in transit, Deliver(r) \/ Refuse(r) PROVE channel' = channel \/ channel' = r.v
      BY <3>4 DEF Deliver, Refuse
    <3>5. ASSUME NEW r \in submitted, ApplySubmitted(r) \/ DropSubmitted(r)
          PROVE  channel' = channel \/ channel' = r.v
      BY <3>5 DEF ApplySubmitted, DropSubmitted
    <3>6. ASSUME NEW p \in Deciders, NEW q \in Values, CommitDecision(p, q) PROVE channel' = channel
      BY <3>6 DEF CommitDecision, outside
    <3>7. ASSUME NEW q \in Values, Recalculate(q) PROVE channel' = channel
      BY <3>7 DEF Recalculate, outside
    <3>8. ASSUME NEW status \in {"ACTIVE", "HELD"}, SetScopeStatus(status) PROVE channel' = channel
      BY <3>8 DEF SetScopeStatus, outside
    <3>9. UNCHANGED vars => channel' = channel
      BY DEF vars, outside
    <3> QED BY <1>1, <3>1, <3>2, <3>3, <3>4, <3>5, <3>6, <3>7, <3>8, <3>9 DEF Next
  <2> QED BY <2>1, <2>2, <2>3
<1>2. TypeOK /\ SlotInv /\ SentInv /\ [Next]_vars => [channel' >= channel]_vars
  BY <1>1
<1> QED BY <1>2, SentHolds, PTL DEF Spec, ChannelNeverGoesBack

(* What was applied last and nothing was sent after is what the channel    *)
(* shows.                                                                  *)
THEOREM AppliedStaysShown ==
  ASSUME LateDelivery = FALSE, OneChain
  PROVE  Spec /\ []TellApart => []AppliedIsShown
<1>1. TypeOK /\ SlotInv /\ SentInv => AppliedIsShown
  <2>1. ASSUME TypeOK, SentInv, latestDispatched # 0, write[latestDispatched].status = "APPLIED"
        PROVE  ValueAt(channel) = write[latestDispatched].value
    <3>1. latestDispatched \in Versions /\ channel <= latestDispatched /\ channel \in Int /\ latestDispatched \in Int
      BY <2>1, WriteQueueAssumption DEF TypeOK, SentInv, WriteQueueAssumption
    <3>2. RowFits(latestDispatched, write[latestDispatched], latestDispatched, channel, ValueAt(channel))
      BY <2>1, <3>1 DEF SentInv, RowsFit
    <3> QED BY <2>1, <3>1, <3>2 DEF RowFits
  <2> QED BY <2>1 DEF AppliedIsShown
<1> QED BY <1>1, SentHolds, PTL

(* A recalculation that takes the quantity for unchanged once the queue is *)
(* empty is right: the channel holds that quantity.                        *)
THEOREM UnchangedIsRight ==
  ASSUME LateDelivery = FALSE, OneChain
  PROVE  Spec /\ []TellApart => []UnchangedWhenQueueEmpty
<1>1. ASSUME TypeOK, SlotInv, SentInv, latestCreated # 0, QueueIsEmpty, LastQuantity(TRUE) # NoValue
      PROVE  ValueAt(channel) = LastQuantity(TRUE)
  <2> USE <1>1
  <2>1. /\ latestCreated \in Versions /\ channel \in 0..MaxVersion /\ channel <= latestCreated
        /\ latestCreated \in 0..MaxVersion /\ MaxVersion \in Nat
    BY WriteQueueAssumption DEF TypeOK, SlotInv, SentInv, WriteQueueAssumption
  <2>2. \A v \in Versions : /\ write[v] \in Rows
                            /\ RowFits(v, write[v], latestDispatched, channel, ValueAt(channel))
    BY DEF TypeOK, SentInv, RowsFit
  <2>3. \A v \in 1..latestCreated : write[v].status \in Final
    BY DEF QueueIsEmpty
  <2> DEFINE applied == {v \in Versions : write[v].status = "APPLIED"}
  <2>4. \A v \in applied : v \in Versions /\ write[v].status = "APPLIED" /\ write[v].attempts >= 1
    BY <2>2 DEF RowFits, Flown
  <2>5. CASE write[latestCreated].status = "APPLIED"
    <3>1. LastQuantity(TRUE) = write[latestCreated].value
      BY <2>1, <2>5 DEF LastQuantity, Final
    <3>2. RowFits(latestCreated, write[latestCreated], latestDispatched, channel, ValueAt(channel))
      BY <2>1, <2>2
    <3>3. channel > latestCreated \/ ValueAt(channel) = write[latestCreated].value
      BY <2>5, <3>2 DEF RowFits
    <3>4. ~(channel > latestCreated)
      BY <2>1
    <3> QED BY <3>1, <3>3, <3>4
  <2>6. CASE write[latestCreated].status # "APPLIED"
    <3>1. write[latestCreated].status \in Final
      BY <2>1, <2>3
    <3>2. LastQuantity(TRUE) =
            IF \E a \in applied : \A v \in Versions : v > a => SurelyNotReceived(write[v])
            THEN write[CHOOSE a \in applied : \A b \in applied : b <= a].value
            ELSE NoValue
      BY <2>6, <3>1 DEF LastQuantity
    <3>3. PICK a \in applied : \A v \in Versions : v > a => SurelyNotReceived(write[v])
      BY <3>2
    <3>4. \A b \in applied : b <= a
      <4>1. ASSUME NEW b \in applied, ~(b <= a) PROVE FALSE
        <5>1. b > a /\ b \in Versions /\ write[b].status = "APPLIED" /\ write[b].attempts >= 1
          BY <2>1, <2>4, <4>1
        <5>2. SurelyNotReceived(write[b])
          BY <3>3, <5>1
        <5> QED BY <5>1, <5>2 DEF SurelyNotReceived, Final
      <4> QED BY <4>1
    <3>5. (CHOOSE x \in applied : \A b \in applied : b <= x) = a
      <4>1. \A x \in applied : x \in Int
        BY <2>4
      <4> DEFINE top == CHOOSE x \in applied : \A b \in applied : b <= x
      <4>2. top \in applied /\ \A b \in applied : b <= top
        BY <3>3, <3>4
      <4> QED BY <3>3, <3>4, <4>1, <4>2
    <3>6. LastQuantity(TRUE) = write[a].value
      BY <3>2, <3>3, <3>5
    <3>7. ~(channel > a)
      <4>1. ASSUME channel > a PROVE FALSE
        <5>1. a \in Versions /\ channel \in Versions /\ channel \in 1..latestCreated
          BY <2>1, <2>4, <4>1
        <5>2. /\ SurelyNotReceived(write[channel]) /\ write[channel].status \in Final
              /\ write[channel].attempts >= 1 /\ write[channel].refused = FALSE
          BY <2>2, <2>3, <3>3, <4>1, <5>1 DEF RowFits
        <5> QED BY <5>2 DEF SurelyNotReceived
      <4> QED BY <4>1
    <3> QED BY <2>2, <2>4, <3>6, <3>7 DEF RowFits
  <2> QED BY <2>5, <2>6
<1>2. TypeOK /\ SlotInv /\ SentInv => UnchangedWhenQueueEmpty
  BY <1>1 DEF UnchangedWhenQueueEmpty
<1> QED BY <1>2, SentHolds, PTL
=============================================================================
