-------------------------- MODULE BulkJobs_proofs --------------------------
(***************************************************************************)
(* Theorems about BulkJobs, for any number of processes, import and export *)
(* jobs, attempts, moves of the pool, lost leases and failing calls.       *)
(***************************************************************************)
EXTENDS BulkJobs, TLAPS

USE DEF Jobs

-----------------------------------------------------------------------------
(* The types *)

(* A process at work has a job in hand. *)
LEMMA InHand ==
  ASSUME TypeOK, NEW w \in Workers, at[w] # "idle"
  PROVE  job[w] \in Jobs
  BY DEF TypeOK

(* The shape of the work: a process has a job exactly while it is at work, *)
(* and the steps of an import or an export are taken for one.              *)
Shape ==
  \A w \in Workers :
    /\ at[w] = "idle" <=> job[w] = 0
    /\ at[w] = "produce" => job[w] \in Exports
    /\ at[w] \in {"look", "write", "refuse", "after"} => job[w] \in Imports

LEMMA TypeIsShape == TypeOK => Shape
  BY DEF TypeOK, Shape

(* One process goes on with the job it has. *)
LEMMA ShapeGoesOn ==
  ASSUME TypeOK, NEW w \in Workers, NEW s \in Steps \ {"idle"}, at[w] # "idle",
         Goto(w, s), UNCHANGED job,
         s = "produce" => job[w] \in Exports,
         s \in {"look", "write", "refuse", "after"} => job[w] \in Imports
  PROVE  at' \in [Workers -> Steps] /\ Shape'
  <1>1. at' \in [Workers -> Steps]
    BY DEF TypeOK, Goto
  <1>2. ASSUME NEW v \in Workers
        PROVE  /\ at'[v] = "idle" <=> job'[v] = 0
               /\ at'[v] = "produce" => job'[v] \in Exports
               /\ at'[v] \in {"look", "write", "refuse", "after"} => job'[v] \in Imports
    <2>1. CASE v = w
      BY <2>1 DEF TypeOK, Goto
    <2>2. CASE v # w
      BY <2>2 DEF TypeOK, Goto
    <2>3. QED
      BY <2>1, <2>2
  <1>3. QED
    BY <1>1, <1>2 DEF Shape

(* One process puts its job down. *)
LEMMA ShapePutDown ==
  ASSUME TypeOK, NEW w \in Workers,
         at' = [at EXCEPT ![w] = "idle"], job' = [job EXCEPT ![w] = 0]
  PROVE  at' \in [Workers -> Steps] /\ job' \in [Workers -> Jobs \cup {0}] /\ Shape'
  <1>1. at' \in [Workers -> Steps] /\ job' \in [Workers -> Jobs \cup {0}]
    BY DEF TypeOK, Steps
  <1>2. ASSUME NEW v \in Workers
        PROVE  /\ at'[v] = "idle" <=> job'[v] = 0
               /\ at'[v] = "produce" => job'[v] \in Exports
               /\ at'[v] \in {"look", "write", "refuse", "after"} => job'[v] \in Imports
    <2>1. CASE v = w
      BY <2>1 DEF TypeOK
    <2>2. CASE v # w
      BY <2>2 DEF TypeOK
    <2>3. QED
      BY <2>1, <2>2
  <1>3. QED
    BY <1>1, <1>2 DEF Shape

(* What the outcome of a job changes. *)
LEMMA SettleTyped ==
  ASSUME TypeOK, NEW w \in Workers, at[w] # "idle", NEW o \in Final, Settle(w, o)
  PROVE  /\ status' \in [Jobs -> {"NONE", "PENDING", "RUNNING"} \cup Final]
         /\ owner' \in [Jobs -> Workers \cup {Nobody}]
         /\ live' \in [Jobs -> BOOLEAN]
         /\ at' \in [Workers -> Steps] /\ job' \in [Workers -> Jobs \cup {0}]
         /\ Shape'
  <1>1. job[w] \in Jobs
    BY InHand
  <1>2. at' \in [Workers -> Steps] /\ job' \in [Workers -> Jobs \cup {0}] /\ Shape'
    BY ShapePutDown DEF Settle
  <1>3. CASE Holds(w)
    <2>1. status' = [status EXCEPT ![job[w]] = o] /\ owner' = [owner EXCEPT ![job[w]] = Nobody]
          /\ live' = [live EXCEPT ![job[w]] = FALSE]
      BY <1>3 DEF Settle
    <2>2. status' \in [Jobs -> {"NONE", "PENDING", "RUNNING"} \cup Final]
      BY <1>1, <2>1 DEF TypeOK
    <2>3. owner' \in [Jobs -> Workers \cup {Nobody}]
      BY <1>1, <2>1 DEF TypeOK
    <2>4. live' \in [Jobs -> BOOLEAN]
      BY <1>1, <2>1 DEF TypeOK
    <2>5. QED
      BY <1>2, <2>2, <2>3, <2>4
  <1>4. CASE ~Holds(w)
    <2>1. UNCHANGED <<status, owner, live>>
      BY <1>4 DEF Settle
    <2>2. QED
      BY <1>2, <2>1 DEF TypeOK
  <1>5. QED
    BY <1>3, <1>4

LEMMA InitTyped == Init => TypeOK
  BY BulkJobsAssumption DEF Init, TypeOK, Steps, Work, Final

LEMMA TypeStep ==
  ASSUME TypeOK, [Next]_vars
  PROVE  TypeOK'
  <1> USE DEF jobVars, workVars, dataVars, counters, Final
  <1>1. ASSUME NEW j \in Jobs, Create(j) \/ Cancel(j) \/ Lapse(j)
        PROVE  TypeOK'
    BY <1>1 DEF Create, Cancel, Lapse, TypeOK
  <1>2. ASSUME NEW w \in Workers, Beat(w)
        PROVE  TypeOK'
    BY <1>2, InHand DEF Beat, Holds, TypeOK
  <1>3. ASSUME NEW w \in Workers, Stall(w)
        PROVE  TypeOK'
    BY <1>3, InHand DEF Stall, Holds, TypeOK
  <1>4. ASSUME NEW w \in Workers, NEW j \in Jobs, Claim(w, j)
        PROVE  TypeOK'
    <2>1. /\ status' \in [Jobs -> {"NONE", "PENDING", "RUNNING"} \cup Final]
          /\ owner' \in [Jobs -> Workers \cup {Nobody}]
          /\ live' \in [Jobs -> BOOLEAN]
      BY <1>4 DEF Claim, TypeOK
    <2>2. attempts' \in [Jobs -> 0..(MaxAttempts + 1)]
      BY <1>4, BulkJobsAssumption DEF Claim, TypeOK
    <2>3. at' \in [Workers -> Steps] /\ job' \in [Workers -> Jobs \cup {0}]
      BY <1>4 DEF Claim, TypeOK, Steps, Work
    <2>4. Shape'
      <3>1. PICK s \in {"fail", "prepare"} : at' = [at EXCEPT ![w] = s]
        BY <1>4 DEF Claim
      <3>2. job' = [job EXCEPT ![w] = j] /\ j # 0
        BY <1>4, BulkJobsAssumption DEF Claim
      <3>3. QED
        BY <3>1, <3>2 DEF TypeOK, Shape
    <2>5. QED
      BY <1>4, <2>1, <2>2, <2>3, <2>4 DEF Claim, TypeOK, Shape
  <1>5. ASSUME NEW w \in Workers, Prepare(w)
        PROVE  TypeOK'
    <2>1. job[w] \in Jobs /\ at[w] # "idle"
      BY <1>5, InHand DEF Prepare
    <2>2. at' \in [Workers -> Steps] /\ Shape'
      <3>1. CASE job[w] \in Imports
        BY <1>5, <2>1, <3>1, ShapeGoesOn DEF Prepare, Steps, Work
      <3>2. CASE job[w] \notin Imports
        BY <1>5, <2>1, <3>2, ShapeGoesOn DEF Prepare, Steps, Work
      <3>3. QED
        BY <3>1, <3>2
    <2>3. QED
      BY <1>5, <2>2 DEF Prepare, TypeOK, Shape
  <1>6. ASSUME NEW w \in Workers, Look(w)
        PROVE  TypeOK'
    <2>1. job[w] \in Imports /\ at[w] # "idle"
      BY <1>6 DEF Look, TypeOK
    <2>2. PICK s \in {"after", "fail", "refuse", "write"} : Goto(w, s)
      BY <1>6, <2>1 DEF Look, AfterLook
    <2>3. at' \in [Workers -> Steps] /\ Shape'
      BY <1>6, <2>1, <2>2, ShapeGoesOn DEF Look, Steps, Work
    <2>4. QED
      BY <1>6, <2>3 DEF Look, TypeOK, Shape
  <1>7. ASSUME NEW w \in Workers, Write(w)
        PROVE  TypeOK'
    <2>1. job[w] \in Imports /\ at[w] # "idle"
      BY <1>7 DEF Write, TypeOK
    <2>2. PICK s \in {"refuse", "fail", "after"} : Goto(w, s)
      BY <1>7 DEF Write
    <2>3. at' \in [Workers -> Steps] /\ Shape'
      BY <1>7, <2>1, <2>2, ShapeGoesOn DEF Write, Steps, Work
    <2>4. /\ journal' \in [Imports -> {"NONE", "APPLIED", "REFUSED"}]
          /\ onHand' \in 0..MaxOnHand
          /\ file' \in [Exports -> Workers \cup {Nobody}]
          /\ applied' \in [Imports -> Nat] /\ owed' \in [Imports -> BOOLEAN]
      <3>1. CASE UNCHANGED dataVars
        BY <3>1 DEF TypeOK
      <3>2. CASE /\ onHand' = Counted /\ Written(job[w], "APPLIED") /\ UNCHANGED file
                 /\ applied' = [applied EXCEPT ![job[w]] = @ + 1]
                 /\ owed' = [owed EXCEPT ![job[w]] = TRUE]
        <4>1. journal' \in [Imports -> {"NONE", "APPLIED", "REFUSED"}]
          BY <3>2, <2>1 DEF Written, TypeOK
        <4>2. applied' \in [Imports -> Nat] /\ owed' \in [Imports -> BOOLEAN]
          BY <3>2, <2>1 DEF TypeOK
        <4>3. QED
          BY <3>2, <4>1, <4>2, BulkJobsAssumption DEF TypeOK
      <3>3. QED
        BY <1>7, <3>1, <3>2 DEF Write
    <2>5. QED
      BY <1>7, <2>3, <2>4 DEF Write, TypeOK, Shape
  <1>8. ASSUME NEW w \in Workers, Refuse(w)
        PROVE  TypeOK'
    <2>1. job[w] \in Imports /\ at[w] # "idle"
      BY <1>8 DEF Refuse, TypeOK
    <2>2. at' \in [Workers -> Steps] /\ Shape'
      BY <1>8, <2>1, ShapeGoesOn DEF Refuse, Steps, Work
    <2>3. journal' \in [Imports -> {"NONE", "APPLIED", "REFUSED"}]
      BY <1>8, <2>1 DEF Refuse, Written, TypeOK
    <2>4. QED
      BY <1>8, <2>2, <2>3 DEF Refuse, TypeOK, Shape
  <1>9. ASSUME NEW w \in Workers, After(w)
        PROVE  TypeOK'
    <2>1. job[w] \in Imports /\ at[w] # "idle"
      BY <1>9 DEF After, TypeOK
    <2>2. at' \in [Workers -> Steps] /\ Shape'
      BY <1>9, <2>1, ShapeGoesOn DEF After, Steps, Work
    <2>3. QED
      BY <1>9, <2>1, <2>2 DEF After, TypeOK, Shape
  <1>10. ASSUME NEW w \in Workers, Produce(w)
         PROVE  TypeOK'
    <2>1. job[w] \in Exports /\ at[w] # "idle"
      BY <1>10 DEF Produce, TypeOK
    <2>2. PICK s \in {"finish", "fail"} : Goto(w, s)
      BY <1>10 DEF Produce
    <2>3. at' \in [Workers -> Steps] /\ Shape'
      BY <1>10, <2>1, <2>2, ShapeGoesOn DEF Produce, Steps, Work
    <2>4. file' \in [Exports -> Workers \cup {Nobody}]
      BY <1>10, <2>1 DEF Produce, TypeOK
    <2>5. QED
      BY <1>10, <2>3, <2>4 DEF Produce, TypeOK, Shape
  <1>11. ASSUME NEW w \in Workers, Fault(w)
         PROVE  TypeOK'
    <2>1. at[w] # "idle"
      BY <1>11 DEF Fault, Work
    <2>2. at' \in [Workers -> Steps] /\ Shape'
      BY <1>11, <2>1, ShapeGoesOn DEF Fault, Steps
    <2>3. QED
      BY <1>11, <2>2 DEF Fault, TypeOK, Shape
  <1>12. ASSUME NEW w \in Workers, Finish(w)
         PROVE  TypeOK'
    <2>1. at[w] # "idle" /\ Settle(w, "SUCCEEDED") /\ "SUCCEEDED" \in Final
      BY <1>12 DEF Finish
    <2>2. result' \in [Exports -> Workers \cup {Nobody}]
      BY <1>12 DEF Finish, TypeOK
    <2>3. QED
      BY <2>1, <2>2, SettleTyped DEF Settle, TypeOK, Shape
  <1>13. ASSUME NEW w \in Workers, Fail(w)
         PROVE  TypeOK'
    <2>1. at[w] # "idle" /\ Settle(w, "FAILED") /\ UNCHANGED result /\ "FAILED" \in Final
      BY <1>13 DEF Fail
    <2>2. QED
      BY <2>1, SettleTyped DEF Settle, TypeOK, Shape
  <1>14. ASSUME NEW w \in Workers, Crash(w)
         PROVE  TypeOK'
    <2>1. at' \in [Workers -> Steps] /\ job' \in [Workers -> Jobs \cup {0}] /\ Shape'
      BY <1>14, ShapePutDown DEF Crash
    <2>2. QED
      BY <1>14, <2>1 DEF Crash, TypeOK, Shape
  <1>15. CASE Move
    BY <1>15 DEF Move, TypeOK
  <1>16. CASE UNCHANGED vars
    BY <1>16 DEF vars, TypeOK
  <1>17. QED
    BY <1>1, <1>2, <1>3, <1>4, <1>5, <1>6, <1>7, <1>8, <1>9, <1>10, <1>11, <1>12,
       <1>13, <1>14, <1>15, <1>16 DEF Next, WorkStep

(* The jobs, the journal, the pool and the processes stay typed: attempts  *)
(* are counted to one past their maximum, and a process at work has a job  *)
(* of the kind its step is for.                                            *)
THEOREM TypeCorrect == Spec => []TypeOK
  <1>1. TypeOK /\ [Next]_vars => TypeOK'
    BY TypeStep
  <1>2. QED
    BY <1>1, InitTyped, PTL DEF Spec

-----------------------------------------------------------------------------
(* The journal *)

(* Only the two transactions of an import touch its row and its data. *)
LEMMA JournalTouched ==
  ASSUME [Next]_vars
  PROVE  UNCHANGED <<journal, applied>> \/ \E w \in Workers : Write(w) \/ Refuse(w)
  <1> USE DEF jobVars, workVars, dataVars, counters
  <1>1. ASSUME NEW j \in Jobs, Create(j) \/ Cancel(j) \/ Lapse(j)
        PROVE  UNCHANGED <<journal, applied>>
    BY <1>1 DEF Create, Cancel, Lapse
  <1>2. ASSUME NEW w \in Workers, NEW j \in Jobs, Claim(w, j)
        PROVE  UNCHANGED <<journal, applied>>
    BY <1>2 DEF Claim
  <1>3. ASSUME NEW w \in Workers, Beat(w) \/ Stall(w) \/ Fault(w) \/ Crash(w)
        PROVE  UNCHANGED <<journal, applied>>
    BY <1>3 DEF Beat, Stall, Fault, Crash
  <1>4. ASSUME NEW w \in Workers,
               Prepare(w) \/ Look(w) \/ After(w) \/ Produce(w) \/ Finish(w) \/ Fail(w)
        PROVE  UNCHANGED <<journal, applied>>
    BY <1>4 DEF Prepare, Look, After, Produce, Finish, Fail, Settle
  <1>5. CASE Move \/ UNCHANGED vars
    BY <1>5 DEF Move, vars
  <1>6. QED
    BY <1>1, <1>2, <1>3, <1>4, <1>5 DEF Next, WorkStep

LEMMA JournalStep ==
  ASSUME TypeOK, JournalIsTrue, [Next]_vars
  PROVE  JournalIsTrue'
  <1> USE DEF dataVars
  <1>1. CASE UNCHANGED <<journal, applied>>
    BY <1>1 DEF JournalIsTrue
  <1>2. ASSUME NEW w \in Workers, Write(w)
        PROVE  JournalIsTrue'
    <2>1. job[w] \in Imports
      BY <1>2 DEF Write, TypeOK
    <2>2. CASE UNCHANGED dataVars
      BY <2>2 DEF JournalIsTrue
    <2>3. CASE /\ Written(job[w], "APPLIED")
               /\ applied' = [applied EXCEPT ![job[w]] = @ + 1]
      BY <2>1, <2>3 DEF JournalIsTrue, Written, TypeOK
    <2>4. QED
      BY <1>2, <2>2, <2>3 DEF Write
  <1>3. ASSUME NEW w \in Workers, Refuse(w)
        PROVE  JournalIsTrue'
    <2>1. job[w] \in Imports /\ UNCHANGED applied
      BY <1>3 DEF Refuse, TypeOK
    <2>2. Written(job[w], "REFUSED") \/ UNCHANGED journal
      BY <1>3 DEF Refuse
    <2>3. QED
      BY <2>1, <2>2 DEF JournalIsTrue, Written, TypeOK
  <1>4. QED
    BY <1>1, <1>2, <1>3, JournalTouched

(* The import journal tells what is in the data, whoever wrote the row and *)
(* however many processes worked on the job: it is never APPLIED without   *)
(* the data, and the data are never written without a row.                 *)
THEOREM JournalAlwaysTrue == Spec => []JournalIsTrue
  <1>1. Init => JournalIsTrue
    BY DEF Init, JournalIsTrue
  <1>2. TypeOK /\ JournalIsTrue /\ [Next]_vars => JournalIsTrue'
    BY JournalStep
  <1>3. QED
    BY <1>1, <1>2, TypeCorrect, PTL DEF Spec

-----------------------------------------------------------------------------
(* A finished job is whole *)

(* What a process knows that has gone past the write of an import: it is   *)
(* applied, and if only once, the recalculation has followed.              *)
WholeAt(w) ==
  job[w] \in Imports =>
    /\ at[w] \in {"after", "finish"} => applied[job[w]] > 0
    /\ at[w] = "finish" /\ applied[job[w]] = 1 => ~owed[job[w]]

WholeInv ==
  /\ SucceededIsWhole
  /\ \A w \in Workers : WholeAt(w)

(* A step that leaves the data alone and takes no job past the write. *)
LEMMA WholeElsewhere ==
  ASSUME TypeOK, WholeInv, UNCHANGED <<applied, owed>>, NEW w \in Workers,
         at' = [at EXCEPT ![w] = at'[w]], job' = [job EXCEPT ![w] = job'[w]],
         WholeAt(w)',
         \A j \in Imports : status'[j] = "SUCCEEDED" /\ status[j] # "SUCCEEDED" =>
           at[w] = "finish" /\ job[w] = j
  PROVE  WholeInv'
  <1>1. ASSUME NEW v \in Workers
        PROVE  WholeAt(v)'
    <2>1. CASE v = w
      BY <2>1
    <2>2. CASE v # w
      <3>1. at'[v] = at[v] /\ job'[v] = job[v]
        BY <2>2 DEF TypeOK
      <3>2. QED
        BY <3>1 DEF WholeInv, WholeAt
    <2>3. QED
      BY <2>1, <2>2
  <1>2. ASSUME NEW j \in Imports, status'[j] = "SUCCEEDED"
        PROVE  applied'[j] > 0 /\ (applied'[j] = 1 => ~owed'[j])
    <2>1. CASE status[j] = "SUCCEEDED"
      BY <2>1 DEF WholeInv, SucceededIsWhole
    <2>2. CASE status[j] # "SUCCEEDED"
      BY <1>2, <2>2 DEF WholeInv, WholeAt
    <2>3. QED
      BY <2>1, <2>2
  <1>3. QED
    BY <1>1, <1>2 DEF WholeInv, SucceededIsWhole

LEMMA WholeStep ==
  ASSUME TypeOK, JournalIsTrue, WholeInv, [Next]_vars
  PROVE  WholeInv'
  <1> USE DEF jobVars, workVars, dataVars, counters
  <1>1. ASSUME NEW j \in Jobs, Create(j) \/ Cancel(j) \/ Lapse(j)
        PROVE  WholeInv'
    <2>1. UNCHANGED <<applied, owed, at, job>>
      BY <1>1 DEF Create, Cancel, Lapse
    <2>2. \A k \in Jobs : status'[k] = "SUCCEEDED" => status[k] = "SUCCEEDED"
      BY <1>1 DEF Create, Cancel, Lapse, TypeOK
    <2>3. QED
      BY <2>1, <2>2 DEF WholeInv, WholeAt, SucceededIsWhole
  <1>2. ASSUME NEW w \in Workers, Beat(w) \/ Stall(w)
        PROVE  WholeInv'
    BY <1>2 DEF Beat, Stall, WholeInv, WholeAt, SucceededIsWhole
  <1>3. ASSUME NEW w \in Workers, NEW j \in Jobs, Claim(w, j)
        PROVE  WholeInv'
    <2>1. UNCHANGED <<applied, owed>> /\ job' = [job EXCEPT ![w] = job'[w]]
      BY <1>3 DEF Claim, TypeOK
    <2>2. at' = [at EXCEPT ![w] = at'[w]] /\ at'[w] \in {"fail", "prepare"}
      BY <1>3 DEF Claim, TypeOK
    <2>3. \A k \in Jobs : status'[k] = "SUCCEEDED" => status[k] = "SUCCEEDED"
      BY <1>3 DEF Claim, TypeOK
    <2>4. QED
      BY <2>1, <2>2, <2>3, WholeElsewhere DEF WholeAt
  <1>4. ASSUME NEW w \in Workers, Prepare(w) \/ Refuse(w) \/ Fault(w)
        PROVE  WholeInv'
    <2>1. UNCHANGED <<applied, owed, job, status>> /\ job' = [job EXCEPT ![w] = job'[w]]
      BY <1>4 DEF Prepare, Refuse, Fault, TypeOK
    <2>2. at' = [at EXCEPT ![w] = at'[w]] /\ at'[w] \notin {"after", "finish"}
      BY <1>4 DEF Prepare, Refuse, Fault, Goto, TypeOK
    <2>3. QED
      BY <2>1, <2>2, WholeElsewhere DEF WholeAt
  <1>5. ASSUME NEW w \in Workers, Look(w)
        PROVE  WholeInv'
    <2>1. UNCHANGED <<applied, owed, job, status>> /\ job' = [job EXCEPT ![w] = job'[w]]
      BY <1>5 DEF Look, TypeOK
    <2>2. at' = [at EXCEPT ![w] = at'[w]] /\ at'[w] = AfterLook(w)
      BY <1>5 DEF Look, Goto, TypeOK
    <2>3. job[w] \in Imports
      BY <1>5 DEF Look, TypeOK
    <2>4. at'[w] # "finish" /\ (at'[w] = "after" => journal[job[w]] = "APPLIED")
      BY <2>2 DEF AfterLook
    <2>5. WholeAt(w)'
      BY <2>1, <2>3, <2>4 DEF WholeAt, JournalIsTrue
    <2>6. QED
      BY <2>1, <2>2, <2>5, WholeElsewhere
  <1>6. ASSUME NEW w \in Workers, Produce(w)
        PROVE  WholeInv'
    <2>1. UNCHANGED <<applied, owed, job, status>> /\ job' = [job EXCEPT ![w] = job'[w]]
      BY <1>6 DEF Produce, TypeOK
    <2>2. at' = [at EXCEPT ![w] = at'[w]]
      BY <1>6 DEF Produce, Goto, TypeOK
    <2>3. job[w] \notin Imports
      BY <1>6, BulkJobsAssumption DEF Produce, TypeOK
    <2>4. QED
      BY <2>1, <2>2, <2>3, WholeElsewhere DEF WholeAt
  <1>7. ASSUME NEW w \in Workers, Write(w)
        PROVE  WholeInv'
    <2>1. job[w] \in Imports /\ UNCHANGED <<status, job>>
      BY <1>7 DEF Write, TypeOK
    <2>2. CASE UNCHANGED dataVars /\ (Goto(w, "refuse") \/ Goto(w, "fail"))
      <3>1. /\ job' = [job EXCEPT ![w] = job'[w]] /\ at' = [at EXCEPT ![w] = at'[w]]
            /\ at'[w] \in {"refuse", "fail"}
        BY <2>1, <2>2 DEF Goto, TypeOK
      <3>2. QED
        BY <2>1, <2>2, <3>1, WholeElsewhere DEF WholeAt
    <2>3. CASE /\ Journals(job[w]) /\ Goto(w, "after")
               /\ applied' = [applied EXCEPT ![job[w]] = @ + 1]
               /\ owed' = [owed EXCEPT ![job[w]] = TRUE]
      <3>1. applied'[job[w]] = applied[job[w]] + 1 /\ applied[job[w]] \in Nat
        BY <2>1, <2>3 DEF TypeOK
      <3>2. \A j \in Imports \ {job[w]} : applied'[j] = applied[j] /\ owed'[j] = owed[j]
        BY <2>3 DEF TypeOK
      <3>3. status[job[w]] # "SUCCEEDED"
        BY <2>3 DEF Journals
      <3>4. SucceededIsWhole'
        BY <2>1, <3>2, <3>3 DEF WholeInv, SucceededIsWhole
      <3>5. ASSUME NEW v \in Workers, job[v] \in Imports, at'[v] \in {"after", "finish"}
            PROVE  /\ applied'[job[v]] > 0
                   /\ at'[v] = "finish" /\ applied'[job[v]] = 1 => ~owed'[job[v]]
        <4>1. CASE v = w
          <5>1. at'[v] = "after"
            BY <2>3, <4>1 DEF Goto, TypeOK
          <5>2. QED
            BY <3>1, <4>1, <5>1
        <4>2. CASE v # w
          <5>1. at'[v] = at[v]
            BY <2>3, <4>2 DEF Goto, TypeOK
          <5>2. applied[job[v]] > 0
            BY <3>5, <5>1 DEF WholeInv, WholeAt
          <5>3. CASE job[v] = job[w]
            BY <3>1, <5>2, <5>3
          <5>4. CASE job[v] # job[w]
            BY <3>2, <3>5, <5>1, <5>4 DEF WholeInv, WholeAt
          <5>5. QED
            BY <5>3, <5>4
        <4>3. QED
          BY <4>1, <4>2
      <3>6. QED
        BY <2>1, <3>4, <3>5 DEF WholeInv, WholeAt
    <2>4. QED
      BY <1>7, <2>2, <2>3 DEF Write
  <1>8. ASSUME NEW w \in Workers, After(w)
        PROVE  WholeInv'
    <2>1. job[w] \in Imports /\ UNCHANGED <<status, job, applied>>
      BY <1>8 DEF After, TypeOK
    <2>2. \A j \in Imports : owed'[j] => owed[j]
      BY <1>8 DEF After, TypeOK
    <2>3. owed'[job[w]] = FALSE /\ applied[job[w]] > 0
      BY <1>8, <2>1 DEF After, TypeOK, WholeInv, WholeAt
    <2>4. ASSUME NEW v \in Workers
          PROVE  WholeAt(v)'
      <3>1. CASE v = w
        BY <2>1, <2>3, <3>1 DEF WholeAt
      <3>2. CASE v # w
        <4>1. at'[v] = at[v]
          BY <1>8, <3>2 DEF After, Goto, TypeOK
        <4>2. QED
          BY <2>1, <2>2, <4>1 DEF WholeInv, WholeAt
      <3>3. QED
        BY <3>1, <3>2
    <2>5. SucceededIsWhole'
      BY <2>1, <2>2 DEF WholeInv, SucceededIsWhole
    <2>6. QED
      BY <2>4, <2>5 DEF WholeInv
  <1>9. ASSUME NEW w \in Workers, Finish(w)
        PROVE  WholeInv'
    <2>1. UNCHANGED <<applied, owed>> /\ at[w] = "finish"
      BY <1>9 DEF Finish, Settle
    <2>2. /\ at' = [at EXCEPT ![w] = at'[w]] /\ job' = [job EXCEPT ![w] = job'[w]]
          /\ at'[w] = "idle"
      BY <1>9 DEF Finish, Settle, TypeOK
    <2>3. \A j \in Jobs : status'[j] # status[j] => job[w] = j
      BY <1>9 DEF Finish, Settle, TypeOK
    <2>4. QED
      BY <2>1, <2>2, <2>3, WholeElsewhere DEF WholeAt
  <1>10. ASSUME NEW w \in Workers, Fail(w) \/ Crash(w)
         PROVE  WholeInv'
    <2>1. UNCHANGED <<applied, owed>>
      BY <1>10 DEF Fail, Settle, Crash
    <2>2. /\ at' = [at EXCEPT ![w] = at'[w]] /\ job' = [job EXCEPT ![w] = job'[w]]
          /\ at'[w] = "idle"
      BY <1>10 DEF Fail, Settle, Crash, TypeOK
    <2>3. \A j \in Jobs : status'[j] = "SUCCEEDED" => status[j] = "SUCCEEDED"
      BY <1>10 DEF Fail, Settle, Crash, TypeOK
    <2>4. QED
      BY <2>1, <2>2, <2>3, WholeElsewhere DEF WholeAt
  <1>11. CASE Move \/ UNCHANGED vars
    BY <1>11 DEF Move, vars, WholeInv, WholeAt, SucceededIsWhole
  <1>12. QED
    BY <1>1, <1>2, <1>3, <1>4, <1>5, <1>6, <1>7, <1>8, <1>9, <1>10, <1>11
       DEF Next, WorkStep

(* A job shown as done has written the stock and recalculated what is      *)
(* published, at whatever step the processes before it died.               *)
THEOREM SucceededAlwaysWhole == Spec => []SucceededIsWhole
  <1>1. Init => WholeInv
    BY DEF Init, WholeInv, WholeAt, SucceededIsWhole
  <1>2. TypeOK /\ JournalIsTrue /\ WholeInv /\ [Next]_vars => WholeInv'
    BY WholeStep
  <1>3. WholeInv => SucceededIsWhole
    BY DEF WholeInv
  <1>4. QED
    BY <1>1, <1>2, <1>3, TypeCorrect, JournalAlwaysTrue, PTL DEF Spec

-----------------------------------------------------------------------------
(* Owners *)

(* A job that has an owner runs. *)
Leased == \A j \in Jobs : owner[j] # Nobody => status[j] = "RUNNING"

LEMMA LeasedStep ==
  ASSUME TypeOK, Leased, [Next]_vars
  PROVE  Leased'
  <1> USE DEF jobVars, workVars, dataVars, counters
  <1>1. ASSUME NEW j \in Jobs, Create(j) \/ Cancel(j) \/ Lapse(j)
        PROVE  Leased'
    BY <1>1 DEF Create, Cancel, Lapse, Leased, TypeOK
  <1>2. ASSUME NEW w \in Workers, NEW j \in Jobs, Claim(w, j)
        PROVE  Leased'
    BY <1>2 DEF Claim, Leased, TypeOK
  <1>3. ASSUME NEW w \in Workers, Beat(w) \/ Stall(w) \/ Fault(w) \/ Crash(w)
        PROVE  Leased'
    BY <1>3 DEF Beat, Stall, Fault, Crash, Leased
  <1>4. ASSUME NEW w \in Workers, Prepare(w) \/ Look(w) \/ Write(w) \/ Refuse(w)
                                  \/ After(w) \/ Produce(w)
        PROVE  Leased'
    BY <1>4 DEF Prepare, Look, Write, Refuse, After, Produce, Leased
  <1>5. ASSUME NEW w \in Workers, Finish(w) \/ Fail(w)
        PROVE  Leased'
    BY <1>5 DEF Finish, Fail, Settle, Leased, TypeOK
  <1>6. CASE Move \/ UNCHANGED vars
    BY <1>6 DEF Move, vars, Leased
  <1>7. QED
    BY <1>1, <1>2, <1>3, <1>4, <1>5, <1>6 DEF Next, WorkStep

(* Only a job that runs has an owner: settling a job and losing its lease  *)
(* clear it, and a claim starts the job.                                   *)
THEOREM OwnedJobsRun == Spec => []Leased
  <1>1. Init => Leased
    BY DEF Init, Leased
  <1>2. TypeOK /\ Leased /\ [Next]_vars => Leased'
    BY LeasedStep
  <1>3. QED
    BY <1>1, <1>2, TypeCorrect, PTL DEF Spec

-----------------------------------------------------------------------------
(* The file of an export *)

(* The owner of an export that goes to record its outcome has stored the   *)
(* file, and nobody has replaced it.                                       *)
FileInv ==
  /\ FileMatchesResult
  /\ \A w \in Workers :
       at[w] = "finish" /\ job[w] \in Exports /\ owner[job[w]] = w => file[job[w]] = w

LEMMA FileStep ==
  ASSUME TypeOK, FileInv, [Next]_vars
  PROVE  FileInv'
  <1> USE DEF jobVars, workVars, dataVars, counters
  <1>1. ASSUME NEW j \in Jobs, Create(j) \/ Cancel(j) \/ Lapse(j)
        PROVE  FileInv'
    <2>1. UNCHANGED <<at, job, owner, file, result>>
      BY <1>1 DEF Create, Cancel, Lapse
    <2>2. \A k \in Jobs : status'[k] = "SUCCEEDED" => status[k] = "SUCCEEDED"
      BY <1>1 DEF Create, Cancel, Lapse, TypeOK
    <2>3. QED
      BY <2>1, <2>2 DEF FileInv, FileMatchesResult
  <1>2. ASSUME NEW w \in Workers, NEW j \in Jobs, Claim(w, j)
        PROVE  FileInv'
    <2>1. UNCHANGED <<file, result>>
      BY <1>2 DEF Claim
    <2>2. \A k \in Jobs : status'[k] = "SUCCEEDED" => status[k] = "SUCCEEDED"
      BY <1>2 DEF Claim, TypeOK
    <2>3. ASSUME NEW v \in Workers, at'[v] = "finish", job'[v] \in Exports,
                 owner'[job'[v]] = v
          PROVE  at[v] = "finish" /\ job[v] = job'[v] /\ owner[job[v]] = v
      <3>1. v # w
        BY <1>2, <2>3 DEF Claim, TypeOK
      <3>2. at[v] = "finish" /\ job[v] = job'[v]
        BY <1>2, <2>3, <3>1 DEF Claim, TypeOK
      <3>3. job[v] # j
        BY <1>2, <2>3, <3>1, <3>2 DEF Claim, TypeOK
      <3>4. QED
        BY <1>2, <2>3, <3>2, <3>3 DEF Claim, TypeOK
    <2>4. QED
      BY <2>1, <2>2, <2>3 DEF FileInv, FileMatchesResult
  <1>3. ASSUME NEW w \in Workers, Beat(w) \/ Stall(w)
        PROVE  FileInv'
    BY <1>3 DEF Beat, Stall, FileInv, FileMatchesResult
  <1>4. ASSUME NEW w \in Workers,
               Prepare(w) \/ Look(w) \/ Write(w) \/ Refuse(w) \/ After(w) \/ Fault(w)
        PROVE  FileInv'
    <2>1. UNCHANGED <<job, owner, file, result, status>>
      BY <1>4 DEF Prepare, Look, Write, Refuse, After, Fault
    <2>2. PICK s : Goto(w, s)
      BY <1>4 DEF Prepare, Look, Write, Refuse, After, Fault
    <2>3. s = "finish" => job[w] \notin Exports
      <3>1. s = at'[w]
        BY <2>2 DEF Goto, TypeOK
      <3>2. at'[w] = "finish" => After(w)
        BY <1>4, <2>2, <3>1 DEF Prepare, Look, AfterLook, Write, Refuse, Fault, Goto, TypeOK
      <3>3. QED
        BY <3>1, <3>2, BulkJobsAssumption DEF After, TypeOK
    <2>4. ASSUME NEW v \in Workers, at'[v] = "finish", job[v] \in Exports
          PROVE  at[v] = "finish"
      BY <2>2, <2>3, <2>4 DEF Goto, TypeOK
    <2>5. QED
      BY <2>1, <2>4 DEF FileInv, FileMatchesResult
  <1>5. ASSUME NEW w \in Workers, Produce(w)
        PROVE  FileInv'
    <2>1. UNCHANGED <<job, owner, result, status>> /\ job[w] \in Exports
      BY <1>5 DEF Produce, TypeOK
    <2>2. CASE UNCHANGED file /\ Goto(w, "fail")
      BY <2>1, <2>2 DEF Goto, FileInv, FileMatchesResult, TypeOK
    <2>3. CASE /\ Stores(w, job[w]) /\ file' = [file EXCEPT ![job[w]] = w]
               /\ Goto(w, "finish")
      <3>1. file'[job[w]] = w /\ \A k \in Exports \ {job[w]} : file'[k] = file[k]
        BY <2>1, <2>3 DEF TypeOK
      <3>2. status[job[w]] # "SUCCEEDED" /\ owner[job[w]] = w
        BY <2>3 DEF Stores, Journals
      <3>3. FileMatchesResult'
        BY <2>1, <3>1, <3>2 DEF FileInv, FileMatchesResult
      <3>4. ASSUME NEW v \in Workers, at'[v] = "finish", job[v] \in Exports,
                   owner[job[v]] = v
            PROVE  file'[job[v]] = v
        <4>1. CASE job[v] = job[w]
          BY <3>1, <3>2, <3>4, <4>1
        <4>2. CASE job[v] # job[w]
          <5>1. at[v] = "finish"
            BY <2>3, <3>4, <4>2 DEF Goto, TypeOK
          <5>2. QED
            BY <3>1, <3>4, <4>2, <5>1 DEF FileInv
        <4>3. QED
          BY <4>1, <4>2
      <3>5. QED
        BY <2>1, <3>3, <3>4 DEF FileInv
    <2>4. QED
      BY <1>5, <2>2, <2>3 DEF Produce
  <1>6. ASSUME NEW w \in Workers, Finish(w)
        PROVE  FileInv'
    <2>1. UNCHANGED file /\ at[w] = "finish"
      BY <1>6 DEF Finish, Settle
    <2>2. \A v \in Workers : at'[v] = "finish" => v # w /\ at[v] = "finish" /\ job'[v] = job[v]
      BY <1>6 DEF Finish, Settle, TypeOK
    <2>3. \A k \in Jobs : owner'[k] # owner[k] => owner'[k] = Nobody
      BY <1>6 DEF Finish, Settle, TypeOK
    <2>4. \A v \in Workers : at'[v] = "finish" /\ job'[v] \in Exports /\ owner'[job'[v]] = v
                             => file'[job'[v]] = v
      BY <2>1, <2>2, <2>3, BulkJobsAssumption DEF FileInv
    <2>5. CASE Holds(w)
      <3>1. job[w] \in Jobs /\ owner[job[w]] = w
        BY <2>1, <2>5, InHand DEF Holds
      <3>2. \A k \in Jobs \ {job[w]} : status'[k] = status[k]
        BY <1>6, <2>5, <3>1 DEF Finish, Settle, TypeOK
      <3>3. \A k \in Exports \ {job[w]} : result'[k] = result[k]
        BY <1>6, <3>1 DEF Finish, TypeOK
      <3>4. job[w] \in Exports => result'[job[w]] = w /\ file[job[w]] = w
        BY <1>6, <2>1, <2>5, <3>1 DEF Finish, TypeOK, FileInv
      <3>5. QED
        BY <2>1, <2>4, <3>2, <3>3, <3>4 DEF FileInv, FileMatchesResult
    <2>6. CASE ~Holds(w)
      <3>1. UNCHANGED <<status, result>>
        BY <1>6, <2>6 DEF Finish, Settle
      <3>2. QED
        BY <2>1, <2>4, <3>1 DEF FileInv, FileMatchesResult
    <2>7. QED
      BY <2>5, <2>6
  <1>7. ASSUME NEW w \in Workers, Fail(w) \/ Crash(w)
        PROVE  FileInv'
    <2>1. UNCHANGED <<file, result>>
      BY <1>7 DEF Fail, Settle, Crash
    <2>2. \A v \in Workers : at'[v] = "finish" => at[v] = "finish" /\ job'[v] = job[v]
      BY <1>7 DEF Fail, Settle, Crash, TypeOK
    <2>3. \A k \in Jobs : /\ owner'[k] # owner[k] => owner'[k] = Nobody
                          /\ status'[k] = "SUCCEEDED" => status[k] = "SUCCEEDED"
      BY <1>7 DEF Fail, Settle, Crash, TypeOK
    <2>4. QED
      BY <2>1, <2>2, <2>3, BulkJobsAssumption DEF FileInv, FileMatchesResult
  <1>8. CASE Move \/ UNCHANGED vars
    BY <1>8 DEF Move, vars, FileInv, FileMatchesResult
  <1>9. QED
    BY <1>1, <1>2, <1>3, <1>4, <1>5, <1>6, <1>7, <1>8 DEF Next, WorkStep

(* What a seller downloads is what the finished job vouches for, though a  *)
(* process that lost the lease goes on and stores its own.                 *)
THEOREM FileAlwaysMatches == Spec => []FileMatchesResult
  <1>1. Init => FileInv
    BY DEF Init, FileInv, FileMatchesResult
  <1>2. TypeOK /\ FileInv /\ [Next]_vars => FileInv'
    BY FileStep
  <1>3. FileInv => FileMatchesResult
    BY DEF FileInv
  <1>4. QED
    BY <1>1, <1>2, <1>3, TypeCorrect, PTL DEF Spec

-----------------------------------------------------------------------------
(* Applied once *)

(* While no lease has run out under its owner, a process at work owns its  *)
(* job, and so works on it alone.                                          *)
Solo ==
  stalls = 0 => \A w \in Workers : at[w] # "idle" =>
                  owner[job[w]] = w /\ live[job[w]]

LEMMA SoloStep ==
  ASSUME TypeOK, Leased, Solo, [Next]_vars
  PROVE  Solo'
  <1> USE DEF jobVars, workVars, dataVars, counters
  <1>1. ASSUME NEW j \in Jobs, Create(j) \/ Cancel(j)
        PROVE  Solo'
    BY <1>1 DEF Create, Cancel, Solo
  <1>2. ASSUME NEW j \in Jobs, Lapse(j)
        PROVE  Solo'
    <2>1. \A v \in Workers : stalls = 0 /\ at[v] # "idle" => job[v] # j
      BY <1>2 DEF Lapse, Holds, Solo
    <2>2. QED
      BY <1>2, <2>1, InHand DEF Lapse, Solo, TypeOK
  <1>3. ASSUME NEW w \in Workers, NEW j \in Jobs, Claim(w, j)
        PROVE  Solo'
    <2>1. owner'[j] = w /\ live'[j] /\ job'[w] = j
      BY <1>3 DEF Claim, TypeOK
    <2>2. \A k \in Jobs \ {j} : owner'[k] = owner[k] /\ live'[k] = live[k]
      BY <1>3 DEF Claim, TypeOK
    <2>3. \A v \in Workers \ {w} : at'[v] = at[v] /\ job'[v] = job[v]
      BY <1>3 DEF Claim, TypeOK
    <2>4. ~live[j] \/ owner[j] = Nobody
      BY <1>3, BulkJobsAssumption DEF Claim, Claimable, Leased
    <2>5. \A v \in Workers \ {w} : stalls = 0 /\ at[v] # "idle" => job[v] \in Jobs \ {j}
      BY <2>4, InHand, BulkJobsAssumption DEF Solo
    <2>6. stalls' = stalls
      BY <1>3 DEF Claim
    <2>7. QED
      BY <2>1, <2>2, <2>3, <2>5, <2>6 DEF Solo
  <1>4. ASSUME NEW w \in Workers, Beat(w)
        PROVE  Solo'
    BY <1>4, InHand DEF Beat, Holds, Solo, TypeOK
  <1>5. ASSUME NEW w \in Workers, Stall(w)
        PROVE  Solo'
    BY <1>5 DEF Stall, Solo, TypeOK
  <1>6. ASSUME NEW w \in Workers, Prepare(w) \/ Look(w) \/ Write(w) \/ Refuse(w)
                                  \/ After(w) \/ Produce(w) \/ Fault(w)
        PROVE  Solo'
    <2>1. UNCHANGED <<job, owner, live, stalls>> /\ at[w] # "idle"
      BY <1>6 DEF Prepare, Look, Write, Refuse, After, Produce, Fault, Work
    <2>2. \A v \in Workers : at'[v] # "idle" => at[v] # "idle"
      BY <1>6, <2>1 DEF Prepare, Look, Write, Refuse, After, Produce, Fault, Goto, TypeOK
    <2>3. QED
      BY <2>1, <2>2 DEF Solo
  <1>7. ASSUME NEW w \in Workers, Finish(w) \/ Fail(w)
        PROVE  Solo'
    <2>1. at[w] # "idle" /\ UNCHANGED stalls
      BY <1>7 DEF Finish, Fail, Settle
    <2>2. \A v \in Workers : at'[v] # "idle" => v # w /\ at[v] # "idle" /\ job'[v] = job[v]
      BY <1>7 DEF Finish, Fail, Settle, TypeOK
    <2>3. \A k \in Jobs \ {job[w]} : owner'[k] = owner[k] /\ live'[k] = live[k]
      BY <1>7, <2>1, InHand DEF Finish, Fail, Settle, TypeOK
    <2>4. \A v \in Workers \ {w} : stalls = 0 /\ at[v] # "idle" => job[v] \in Jobs \ {job[w]}
      BY <2>1, InHand DEF Solo
    <2>5. QED
      BY <2>1, <2>2, <2>3, <2>4 DEF Solo
  <1>8. ASSUME NEW w \in Workers, Crash(w)
        PROVE  Solo'
    BY <1>8 DEF Crash, Solo, TypeOK
  <1>9. CASE Move \/ UNCHANGED vars
    BY <1>9 DEF Move, vars, Solo
  <1>10. QED
    BY <1>1, <1>2, <1>3, <1>4, <1>5, <1>6, <1>7, <1>8, <1>9 DEF Next, WorkStep

(* Two processes at work on one job: not while no lease has run out.       *)
LEMMA SoloMeansAlone ==
  ASSUME Solo, stalls = 0, NEW v \in Workers, NEW w \in Workers,
         at[v] # "idle", at[w] # "idle", job[v] = job[w]
  PROVE  v = w
  BY DEF Solo

(* A process that goes to write an import has seen it unwritten, and alone *)
(* it stays so.                                                            *)
Fresh ==
  stalls = 0 => \A w \in Workers : at[w] \in {"write", "refuse"} => journal[job[w]] = "NONE"

OnceAlone == stalls = 0 => \A j \in Imports : applied[j] <= 1

(* A process writes only where its plan is the one that was checked, and   *)
(* while the pool has not moved the first write makes that plan impossible.*)
Checked == \A w \in Workers : at[w] = "write" => plan[w] = Seen

OnceStill ==
  moves = 0 => \/ onHand = Seen /\ \A j \in Imports : applied[j] = 0
               \/ onHand = Counted /\ \A j \in Imports : applied[j] <= 1

OnceInv == Fresh /\ OnceAlone /\ Checked /\ OnceStill

(* A step that touches neither journal nor data, and sends no process to   *)
(* the write.                                                              *)
LEMMA OnceElsewhere ==
  ASSUME OnceInv, UNCHANGED <<journal, applied, onHand>>,
         stalls' = 0 => stalls = 0, moves' = 0 => moves = 0,
         \A w \in Workers : at'[w] \in {"write", "refuse"} =>
                            at'[w] = at[w] /\ job'[w] = job[w] /\ plan'[w] = plan[w]
  PROVE  OnceInv'
  BY DEF OnceInv, Fresh, OnceAlone, Checked, OnceStill

LEMMA OnceStep ==
  ASSUME TypeOK, JournalIsTrue, Solo, OnceInv, [Next]_vars
  PROVE  OnceInv'
  <1> USE DEF jobVars, workVars, dataVars, counters
  <1>1. ASSUME NEW j \in Jobs, Create(j) \/ Cancel(j) \/ Lapse(j)
        PROVE  OnceInv'
    BY <1>1, OnceElsewhere DEF Create, Cancel, Lapse
  <1>2. ASSUME NEW w \in Workers, NEW j \in Jobs, Claim(w, j)
        PROVE  OnceInv'
    <2>1. \A v \in Workers : at'[v] \in {"write", "refuse"} =>
                             at'[v] = at[v] /\ job'[v] = job[v]
      BY <1>2 DEF Claim, TypeOK
    <2>2. QED
      BY <1>2, <2>1, OnceElsewhere DEF Claim
  <1>3. ASSUME NEW w \in Workers, Beat(w) \/ Stall(w)
        PROVE  OnceInv'
    BY <1>3, OnceElsewhere DEF Beat, Stall, TypeOK
  <1>4. ASSUME NEW w \in Workers,
               Prepare(w) \/ After(w) \/ Produce(w) \/ Fault(w)
        PROVE  OnceInv'
    <2>1. UNCHANGED <<journal, applied, onHand, job, stalls, moves>>
      BY <1>4 DEF Prepare, After, Produce, Fault
    <2>2. \A v \in Workers : at'[v] \in {"write", "refuse"} => v # w /\ at'[v] = at[v]
      BY <1>4 DEF Prepare, After, Produce, Fault, Goto, TypeOK
    <2>3. \A v \in Workers \ {w} : plan'[v] = plan[v]
      BY <1>4 DEF Prepare, After, Produce, Fault, TypeOK
    <2>4. QED
      BY <2>1, <2>2, <2>3, OnceElsewhere
  <1>5. ASSUME NEW w \in Workers, Look(w)
        PROVE  OnceInv'
    <2>1. UNCHANGED <<journal, applied, onHand, job, plan, stalls, moves>>
      BY <1>5 DEF Look
    <2>2. job[w] \in Imports
      BY <1>5 DEF Look, TypeOK
    <2>3. /\ at'[w] \in {"write", "refuse"} => journal[job[w]] = "NONE"
          /\ at'[w] = "write" => plan[w] = Seen
      BY <1>5, <2>2 DEF Look, Goto, AfterLook, TypeOK
    <2>4. \A v \in Workers \ {w} : at'[v] = at[v]
      BY <1>5 DEF Look, Goto, TypeOK
    <2>5. QED
      BY <2>1, <2>3, <2>4 DEF OnceInv, Fresh, OnceAlone, Checked, OnceStill
  <1>6. ASSUME NEW w \in Workers, Write(w)
        PROVE  OnceInv'
    <2>1. job[w] \in Imports /\ UNCHANGED <<job, plan, stalls, moves>> /\ at[w] = "write"
      BY <1>6 DEF Write, TypeOK
    <2>2. CASE UNCHANGED dataVars /\ Goto(w, "refuse")
      <3>1. \A v \in Workers : /\ at'[v] = "write" => at[v] = "write"
                               /\ at'[v] = "refuse" => at[v] \in {"write", "refuse"}
        BY <2>1, <2>2 DEF Goto, TypeOK
      <3>2. QED
        BY <2>1, <2>2, <3>1 DEF OnceInv, Fresh, OnceAlone, Checked, OnceStill
    <2>3. CASE UNCHANGED dataVars /\ Goto(w, "fail")
      <3>1. \A v \in Workers : at'[v] \in {"write", "refuse"} => at'[v] = at[v]
        BY <2>3 DEF Goto, TypeOK
      <3>2. QED
        BY <2>1, <2>3, <3>1, OnceElsewhere
    <2>4. CASE /\ onHand = plan[w] /\ onHand' = Counted
               /\ Written(job[w], "APPLIED") /\ Goto(w, "after")
               /\ applied' = [applied EXCEPT ![job[w]] = @ + 1]
      <3>1. applied'[job[w]] = applied[job[w]] + 1 /\ applied[job[w]] \in Nat
        BY <2>1, <2>4 DEF TypeOK
      <3>2. \A j \in Imports \ {job[w]} : applied'[j] = applied[j] /\ journal'[j] = journal[j]
        BY <2>1, <2>4 DEF Written, TypeOK
      <3>3. \A v \in Workers : at'[v] \in {"write", "refuse"} => v # w /\ at'[v] = at[v]
        BY <2>4 DEF Goto, TypeOK
      <3>4. Fresh'
        <4>1. SUFFICES ASSUME stalls = 0, NEW v \in Workers, at'[v] \in {"write", "refuse"}
                       PROVE  journal'[job[v]] = "NONE"
          BY <2>1 DEF Fresh
        <4>2. v # w /\ at[v] \in {"write", "refuse"}
          BY <3>3, <4>1
        <4>3. job[v] # job[w]
          BY <2>1, <4>1, <4>2, SoloMeansAlone
        <4>4. job[v] \in Imports
          BY <4>2 DEF TypeOK
        <4>5. QED
          BY <3>2, <4>1, <4>2, <4>3, <4>4 DEF OnceInv, Fresh
      <3>5. OnceAlone'
        <4>1. SUFFICES ASSUME stalls = 0
                       PROVE  \A j \in Imports : applied'[j] <= 1
          BY <2>1 DEF OnceAlone
        <4>2. journal[job[w]] = "NONE"
          BY <2>1, <4>1 DEF OnceInv, Fresh
        <4>3. applied[job[w]] = 0
          BY <2>1, <3>1, <4>2 DEF JournalIsTrue
        <4>4. QED
          BY <3>1, <3>2, <4>1, <4>3 DEF OnceInv, OnceAlone
      <3>6. Checked'
        BY <2>1, <3>3 DEF OnceInv, Checked
      <3>7. OnceStill'
        <4>1. onHand = Seen
          BY <2>1, <2>4 DEF OnceInv, Checked
        <4>2. moves = 0 => \A j \in Imports : applied[j] = 0
          BY <4>1, BulkJobsAssumption DEF OnceInv, OnceStill
        <4>3. moves = 0 => \A j \in Imports : applied'[j] <= 1
          BY <2>1, <3>1, <3>2, <4>2
        <4>4. QED
          BY <2>1, <2>4, <4>3 DEF OnceStill
      <3>8. QED
        BY <3>4, <3>5, <3>6, <3>7 DEF OnceInv
    <2>5. QED
      BY <1>6, <2>2, <2>3, <2>4 DEF Write
  <1>7. ASSUME NEW w \in Workers, Refuse(w)
        PROVE  OnceInv'
    <2>1. job[w] \in Imports /\ UNCHANGED <<job, plan, stalls, moves, onHand, applied>>
      BY <1>7 DEF Refuse, TypeOK
    <2>2. \A v \in Workers : at'[v] \in {"write", "refuse"} => v # w /\ at'[v] = at[v]
      BY <1>7 DEF Refuse, Goto, TypeOK
    <2>3. \A j \in Imports \ {job[w]} : journal'[j] = journal[j]
      BY <1>7, <2>1 DEF Refuse, Written, TypeOK
    <2>4. ASSUME stalls = 0, NEW v \in Workers, at'[v] \in {"write", "refuse"}
          PROVE  journal'[job[v]] = "NONE"
      <3>1. job[v] # job[w]
        BY <1>7, <2>2, <2>4, SoloMeansAlone DEF Refuse
      <3>2. QED
        BY <2>2, <2>3, <2>4, <3>1 DEF OnceInv, Fresh, TypeOK
    <2>5. QED
      BY <2>1, <2>2, <2>4 DEF OnceInv, Fresh, OnceAlone, Checked, OnceStill
  <1>8. ASSUME NEW w \in Workers, Finish(w) \/ Fail(w) \/ Crash(w)
        PROVE  OnceInv'
    <2>1. UNCHANGED <<journal, applied, onHand, plan, stalls, moves>>
      BY <1>8 DEF Finish, Fail, Crash, Settle
    <2>2. \A v \in Workers : at'[v] \in {"write", "refuse"} => at'[v] = at[v] /\ job'[v] = job[v]
      BY <1>8 DEF Finish, Fail, Crash, Settle, TypeOK
    <2>3. QED
      BY <2>1, <2>2, OnceElsewhere
  <1>9. CASE Move
    BY <1>9 DEF Move, OnceInv, Fresh, OnceAlone, Checked, OnceStill, TypeOK
  <1>10. CASE UNCHANGED vars
    BY <1>10, OnceElsewhere DEF vars
  <1>11. QED
    BY <1>1, <1>2, <1>3, <1>4, <1>5, <1>6, <1>7, <1>8, <1>9, <1>10 DEF Next, WorkStep

(* Deaths and failing calls alone, however many, never make an import be   *)
(* applied again: that takes a lease that ran out under a working process  *)
(* and a pool that moved.                                                  *)
THEOREM CrashesNeverApplyTwice == Spec => []CrashNeverAppliesTwice
  <1>1. Init => Solo /\ OnceInv
    BY DEF Init, Solo, OnceInv, Fresh, OnceAlone, Checked, OnceStill
  <1>2. TypeOK /\ Leased /\ Solo /\ [Next]_vars => Solo'
    BY SoloStep
  <1>3. TypeOK /\ JournalIsTrue /\ Solo /\ OnceInv /\ [Next]_vars => OnceInv'
    BY OnceStep
  <1>4. TypeOK /\ OnceInv => CrashNeverAppliesTwice
    BY DEF OnceInv, OnceAlone, OnceStill, CrashNeverAppliesTwice, TypeOK
  <1>5. QED
    BY <1>1, <1>2, <1>3, <1>4, TypeCorrect, JournalAlwaysTrue, OwnedJobsRun, PTL DEF Spec

=============================================================================
