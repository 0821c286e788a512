----------------------------- MODULE WriteQueue -----------------------------
(***************************************************************************)
(* One write scope: the queue of versioned writes the database keeps for   *)
(* it, the dispatcher chains and decision paths that claim, send and       *)
(* settle them, and the channel at the other end.                          *)
(*                                                                         *)
(* A transaction of the source holds the row lock of the scope's sync      *)
(* state from its first read to its commit, so it is one action; a chain   *)
(* that waits for the channel between two transactions is in one of the    *)
(* states of Threads.  Instants are abstracted to flags: `next' is         *)
(* next_attempt_at (none, in the future, passed) and `age' is how long a   *)
(* write has been in flight.                                               *)
(***************************************************************************)
EXTENDS Integers, FiniteSets, Transitions

CONSTANTS
  Chains,          \* dispatcher processes: each serializes its own calls for the scope
  Deciders,        \* decision paths: they send the write they commit, outside any chain
  Values,          \* prices or quantities a write may carry
  MaxVersion,      \* bound: versions created in a behaviour
  MaxCrashes,      \* bound: process crashes in a behaviour
  Fields,          \* the fields the scope may be of: "PRICE", "QUANTITY"
  ProcessingMode,  \* "SYNC" or "ASYNC": whether ACCEPTED already ends the flight
  LateDelivery,    \* may a deadline of ours pass while a request is still on its way?
  Refusals,        \* refusals of the dispatch guards kept by other components
  HumanActs        \* do people hold and release the scope?

ASSUME WriteQueueAssumption ==
  /\ MaxVersion \in Nat \ {0}
  /\ MaxCrashes \in Nat
  /\ Values \subseteq Nat
  /\ Fields \subseteq {"PRICE", "QUANTITY"}
  /\ ProcessingMode \in {"SYNC", "ASYNC"}
  /\ LateDelivery \in BOOLEAN
  /\ HumanActs \in BOOLEAN
  /\ Refusals \subseteq {"DISCARDED_STALE", "BUDGET_EXHAUSTED"}
  /\ Chains \cap Deciders = {}

VARIABLES
  write,             \* the rows of the scope, and what history keeps of the ended ones
  latestCreated,     \* write_scope_sync_state.latest_version_created
  latestDispatched,  \* ... latest_version_dispatched
  latestApplied,     \* ... latest_version_applied
  inFlight,          \* ... in_flight_write_id, as a version; 0 is NULL
  lastSent,          \* ... last_sent_amount_minor or last_sent_quantity; -1 is NULL
  scope,             \* write_scope: its field, which never changes, and its status
  thread,            \* what every chain and decision path is doing
  transit,           \* requests on their way to the channel
  submitted,         \* requests an asynchronous channel accepted and has not applied
  channel,           \* the version whose value the channel shows; 0 is a foreign value
  crashes

queue == <<write, latestCreated, latestDispatched, latestApplied, inFlight, lastSent>>
outside == <<transit, submitted, channel>>
vars == <<queue, scope, thread, outside, crashes>>

Versions == 1..MaxVersion
Threads == Chains \cup Deciders
NoValue == -1

Statuses == {"NONE", "PENDING", "BLOCKED", "DISPATCHED", "ACCEPTED", "FAILED", "APPLIED",
             "NOT_APPLIED", "SUPERSEDED", "DISCARDED_STALE", "BUDGET_EXHAUSTED"}
Final == {"APPLIED", "NOT_APPLIED", "SUPERSEDED", "DISCARDED_STALE", "BUDGET_EXHAUSTED"}
Directions == {"NONE", "INCREASE", "DECREASE", "SAME"}
Held == {"HELD", "BLOCKED"}

Rows == [status: Statuses, value: Values \cup {NoValue}, direction: Directions,
         attempts: 0..MaxAttempts, next: {"NONE", "LATER", "DUE"}, age: Ages, refused: BOOLEAN]
Requests == [v: Versions, attempt: 1..MaxAttempts]
Jobs == [pc: {"CLAIMED", "SENDING"}, v: Versions, attempt: 1..MaxAttempts]
  \cup [pc: {"ANSWERED"}, v: Versions, answer: Answers]
  \cup [pc: {"READING"}, v: Versions]
  \cup [pc: {"OBSERVED"}, v: Versions, reading: Readings]
  \cup [pc: {"IDLE"}]

TypeOK ==
  /\ write \in [Versions -> Rows]
  /\ latestCreated \in 0..MaxVersion
  /\ latestDispatched \in 0..MaxVersion
  /\ latestApplied \in 0..MaxVersion
  /\ inFlight \in 0..MaxVersion
  /\ lastSent \in Values \cup {NoValue}
  /\ scope \in [field: Fields, status: {"ACTIVE", "HELD", "BLOCKED"}]
  /\ thread \in [Threads -> Jobs]
  /\ transit \subseteq Requests
  /\ submitted \subseteq Requests
  /\ channel \in 0..MaxVersion
  /\ crashes \in 0..MaxCrashes

NoRow == [status |-> "NONE", value |-> NoValue, direction |-> "NONE", attempts |-> 0,
          next |-> "NONE", age |-> "FRESH", refused |-> FALSE]
Idle == [pc |-> "IDLE"]

Init ==
  /\ write = [v \in Versions |-> NoRow]
  /\ latestCreated = 0 /\ latestDispatched = 0 /\ latestApplied = 0
  /\ inFlight = 0
  /\ lastSent = NoValue
  /\ scope \in [field: Fields, status: {"ACTIVE"}]
  /\ thread = [p \in Threads |-> Idle]
  /\ transit = {} /\ submitted = {} /\ channel = 0
  /\ crashes = 0

Larger(a, b) == IF a >= b THEN a ELSE b

(***************************************************************************)
(* Creating a write: the triggers of INSERT INTO channel_write.            *)
(***************************************************************************)
Direction(q) ==
  CASE scope.field = "PRICE"     -> "NONE"
    [] lastSent = NoValue  -> "INCREASE"
    [] q < lastSent        -> "DECREASE"
    [] q > lastSent        -> "INCREASE"
    [] OTHER               -> "SAME"

(* A held scope lets nothing out except a decrease of a quantity.          *)
Barred(row) == scope.status \in Held /\ row.direction # "DECREASE"

NewRow(q) ==
  LET row == [NoRow EXCEPT !.status = "PENDING", !.value = q, !.direction = Direction(q)]
  IN [row EXCEPT !.status = IF Barred(row) THEN "BLOCKED" ELSE "PENDING"]

Ended(row, status) == [row EXCEPT !.status = status, !.next = "NONE", !.age = "FRESH"]

Superseded(row) ==
  IF row.status = "FAILED" THEN Ended(row, "DISCARDED_STALE")
  ELSE IF row.status \in {"PENDING", "BLOCKED"} THEN Ended(row, "SUPERSEDED")
  ELSE row

Inserted(q) ==
  [v \in Versions |-> IF v = latestCreated + 1 THEN NewRow(q) ELSE Superseded(write[v])]

(* A claim: attempt_count grows, the row goes out and takes the slot.      *)
Claimed(row) ==
  [row EXCEPT !.status = "DISPATCHED", !.attempts = @ + 1, !.next = "NONE", !.age = "FRESH"]

Fly(p, v, attempt) ==
  /\ inFlight' = v
  /\ latestDispatched' = Larger(latestDispatched, v)
  /\ thread' = [thread EXCEPT ![p] = [pc |-> "CLAIMED", v |-> v, attempt |-> attempt]]

MayFly(row) == row.status = "PENDING" /\ inFlight = 0

(* The decision path commits an approved price: the write is inserted and, *)
(* if nothing is in flight, claimed in the same transaction.               *)
CommitDecision(p, q) ==
  LET v == latestCreated + 1
      rows == Inserted(q)
      free == MayFly(rows[v])
  IN /\ scope.field = "PRICE"
     /\ thread[p].pc = "IDLE"
     /\ v \in Versions
     /\ latestCreated' = v
     /\ \/ /\ free
           /\ write' = [rows EXCEPT ![v] = Claimed(rows[v])]
           /\ Fly(p, v, 1)
        \/ /\ free
           /\ "BUDGET_EXHAUSTED" \in Refusals
           /\ write' = [rows EXCEPT ![v] = Ended(rows[v], "BUDGET_EXHAUSTED")]
           /\ UNCHANGED <<inFlight, latestDispatched, thread>>
        \/ /\ ~free
           /\ write' = rows
           /\ UNCHANGED <<inFlight, latestDispatched, thread>>
     /\ UNCHANGED <<latestApplied, lastSent, scope, outside, crashes>>

(* What the recalculation of the stock takes for the quantity the channel  *)
(* has or will get: the newest version while it is in the queue or after   *)
(* it was applied (or its edit budget is still spent: dayPassed is FALSE), *)
(* else the last applied one if nothing after it can have got through.     *)
(* Mutant: any single attempt that was discarded counts as not received.   *)
DiscardedOnce(row) ==
  \/ row.status \in Final /\ row.attempts = 0
  \/ row.status = "DISCARDED_STALE" /\ row.attempts = 1
  \/ row.status \notin Final

SurelyNotReceived(row) ==
  \/ row.status \in Final /\ row.attempts = 0
  \/ row.status = "DISCARDED_STALE" /\ row.attempts = 1 /\ row.refused
  \/ row.status \notin Final   \* still in channel_write: not a row of the history

LastQuantity(dayPassed) ==
  LET newest == write[latestCreated]
      applied == {v \in Versions : write[v].status = "APPLIED"}
  IN IF latestCreated = 0 THEN NoValue
     ELSE IF newest.status \notin Final THEN newest.value
     ELSE IF newest.status = "APPLIED" \/ (newest.status = "BUDGET_EXHAUSTED" /\ ~dayPassed)
     THEN newest.value
     ELSE IF \E a \in applied : \A v \in Versions : v > a => SurelyNotReceived(write[v])
     THEN write[CHOOSE a \in applied : \A b \in applied : b <= a].value
     ELSE NoValue

(* PgStockStore.recalculate: the published quantity became q.              *)
Recalculate(q) ==
  /\ scope.field = "QUANTITY"
  /\ latestCreated + 1 \in Versions
  /\ \E dayPassed \in BOOLEAN : LastQuantity(dayPassed) # q
  /\ latestCreated' = latestCreated + 1
  /\ write' = Inserted(q)
  /\ UNCHANGED <<latestDispatched, latestApplied, inFlight, lastSent, scope, thread, outside, crashes>>

(***************************************************************************)
(* claimNext: what a chain does when it looks at the scope.  It may look   *)
(* at any time (an event, the hand-off of a decision path, the sweep).     *)
(***************************************************************************)
InFlightDue(row) == IF row.next # "NONE" THEN row.next = "DUE" ELSE row.age # "FRESH"

Candidates == {v \in Versions : write[v].status \in {"PENDING", "FAILED"}}

(* Mutant: the claim does not compare the version with the newest one.     *)
ReadyOlder(v) ==
  /\ inFlight = 0
  /\ v \in Candidates
  /\ write[v].status = "FAILED" => write[v].next = "DUE"

(* The newest candidate, when it is the newest version and may go now.     *)
Ready(v) ==
  /\ inFlight = 0
  /\ v \in Candidates
  /\ v = latestCreated
  /\ write[v].status = "FAILED" => write[v].next = "DUE"

(* Something has been in flight for too long: its value is read back.      *)
ClaimReconciliation(c) ==
  /\ thread[c].pc = "IDLE"
  /\ inFlight # 0
  /\ InFlightDue(write[inFlight])
  /\ thread' = [thread EXCEPT ![c] = [pc |-> "READING", v |-> inFlight]]
  /\ UNCHANGED <<queue, scope, outside, crashes>>

(* Only older versions are left waiting: all of them are discarded.        *)
DiscardOlder(c) ==
  /\ thread[c].pc = "IDLE"
  /\ inFlight = 0
  /\ Candidates # {}
  /\ latestCreated \notin Candidates
  /\ write' = [v \in Versions |->
                 IF v \in Candidates THEN Ended(write[v], "DISCARDED_STALE") ELSE write[v]]
  /\ UNCHANGED <<latestCreated, latestDispatched, latestApplied, inFlight, lastSent,
                 scope, thread, outside, crashes>>

(* Mutant: a failed write is claimed like a waiting one, whatever its      *)
(* deadline and its number of attempts.                                    *)
ClaimDispatchFailed(c, v) ==
  /\ thread[c].pc = "IDLE"
  /\ inFlight = 0 /\ v \in Candidates /\ v = latestCreated
  /\ ~Barred(write[v])
  /\ write' = [write EXCEPT ![v] = Claimed(@)]
  /\ Fly(c, v, write[v].attempts + 1)
  /\ UNCHANGED <<latestCreated, latestApplied, lastSent, scope, outside, crashes>>

ClaimDispatch(c, v) ==
  /\ thread[c].pc = "IDLE"
  /\ Ready(v)
  /\ write[v].attempts < MaxAttempts
  /\ ~Barred(write[v])
  /\ write' = [write EXCEPT ![v] = Claimed(@)]
  /\ Fly(c, v, write[v].attempts + 1)
  /\ UNCHANGED <<latestCreated, latestApplied, lastSent, scope, outside, crashes>>

(* The claim ends the row instead: no attempt is left, or a dispatch guard *)
(* (price floor, stop, distrust, edit budget, ...) refuses it.             *)
ClaimEnds(c, v) ==
  /\ thread[c].pc = "IDLE"
  /\ Ready(v)
  /\ \E status \in Refusals \cup {"DISCARDED_STALE"} :
       /\ IF write[v].status = "FAILED" /\ write[v].attempts >= MaxAttempts
          THEN status = "DISCARDED_STALE"
          ELSE status \in Refusals /\ ~Barred(write[v])
       /\ write' = [write EXCEPT ![v] = Ended(@, status)]
  /\ UNCHANGED <<latestCreated, latestDispatched, latestApplied, inFlight, lastSent,
                 scope, thread, outside, crashes>>

(* The scope is held: a waiting row is set aside, a failed one stays.      *)
ClaimBlocks(c, v) ==
  /\ thread[c].pc = "IDLE"
  /\ Ready(v)
  /\ write[v].status = "PENDING" /\ Barred(write[v])
  /\ write' = [write EXCEPT ![v].status = "BLOCKED"]
  /\ UNCHANGED <<latestCreated, latestDispatched, latestApplied, inFlight, lastSent,
                 scope, thread, outside, crashes>>

ClaimNext(c) ==
  \/ ClaimReconciliation(c)
  \/ DiscardOlder(c)
  \/ \E v \in Versions : ClaimDispatch(c, v) \/ ClaimEnds(c, v) \/ ClaimBlocks(c, v)

(* Mutant: the sweep overlooks the deadlines that have passed.            *)
DueWithoutDeadlines ==
  \/ inFlight = 0 /\ \E v \in Versions : write[v].status = "PENDING"
  \/ inFlight # 0 /\ write[inFlight].next = "NONE" /\ write[inFlight].age # "FRESH"

(* due_write_scopes: the scope is one the sweep will look at.              *)
Due ==
  \/ inFlight = 0 /\ \E v \in Versions : write[v].status = "PENDING"
  \/ \E v \in Versions : write[v].next = "DUE" /\ ~Barred(write[v])
  \/ /\ inFlight # 0
     /\ write[inFlight].next = "NONE"
     /\ write[inFlight].age # "FRESH"
     /\ ~Barred(write[inFlight])

(***************************************************************************)
(* The channel and the calls to it.                                        *)
(***************************************************************************)
Request(p) == [v |-> thread[p].v, attempt |-> thread[p].attempt]
Answered(p, answer) == [thread EXCEPT ![p] = [pc |-> "ANSWERED", v |-> @.v, answer |-> answer]]
Waiting(r) == {p \in Threads : thread[p].pc = "SENDING" /\ Request(p) = r}

(* planDispatch refuses the write, or its batch fails before it is sent.   *)
Plan(p) ==
  /\ thread[p].pc = "CLAIMED"
  /\ \E answer \in {"UNSENDABLE", "TRANSIENT", "OUTCOME_UNKNOWN"} : thread' = Answered(p, answer)
  /\ UNCHANGED <<queue, scope, outside, crashes>>

Send(p) ==
  /\ thread[p].pc = "CLAIMED"
  /\ thread' = [thread EXCEPT ![p].pc = "SENDING"]
  /\ transit' = transit \cup {Request(p)}
  /\ UNCHANGED <<queue, scope, submitted, channel, crashes>>

(* The answer to r reaches whoever still waits for it; it may be lost.     *)
Reply(r, answers) ==
  \E answer \in answers \cup {"OUTCOME_UNKNOWN"} :
    thread' = [p \in Threads |-> IF p \in Waiting(r) THEN Answered(p, answer)[p] ELSE thread[p]]

Deliver(r) ==
  /\ r \in transit
  /\ transit' = transit \ {r}
  /\ IF ProcessingMode = "SYNC"
     THEN channel' = r.v /\ UNCHANGED submitted /\ Reply(r, {"ACCEPTED", "APPLIED"})
     ELSE submitted' = submitted \cup {r} /\ UNCHANGED channel /\ Reply(r, {"ACCEPTED"})
  /\ UNCHANGED <<queue, scope, crashes>>

(* The channel refuses the request, or the request is lost on its way.     *)
Refuse(r) ==
  /\ r \in transit
  /\ transit' = transit \ {r}
  /\ Reply(r, Refused)
  /\ UNCHANGED <<queue, scope, submitted, channel, crashes>>

ApplySubmitted(r) ==
  /\ r \in submitted
  /\ submitted' = submitted \ {r}
  /\ channel' = r.v
  /\ UNCHANGED <<queue, scope, thread, transit, crashes>>

DropSubmitted(r) ==
  /\ r \in submitted
  /\ submitted' = submitted \ {r}
  /\ UNCHANGED <<queue, scope, thread, transit, channel, crashes>>

(* The caller stops waiting while its request may still arrive.            *)
GiveUp(p) ==
  /\ LateDelivery
  /\ thread[p].pc = "SENDING"
  /\ thread' = Answered(p, "OUTCOME_UNKNOWN")
  /\ UNCHANGED <<queue, scope, outside, crashes>>

ValueAt(v) == IF v = 0 THEN NoValue ELSE write[v].value

(* readBack: the value of the field, compared by sameWriteValue.           *)
ReadBack(p) ==
  /\ thread[p].pc = "READING"
  /\ LET v == thread[p].v
         seen == IF ValueAt(channel) = write[v].value THEN "APPLIED" ELSE "NOT_APPLIED"
     IN \E reading \in {seen, "UNKNOWN", "UNREADABLE"} :
          thread' = [thread EXCEPT ![p] = [pc |-> "OBSERVED", v |-> v, reading |-> reading]]
  /\ UNCHANGED <<queue, scope, outside, crashes>>

(***************************************************************************)
(* Settling a write: recordOutcome and recordReconciliation.               *)
(***************************************************************************)
AfterPlan(row, plan) ==
  CASE plan = "ACCEPT"          -> [row EXCEPT !.status = "ACCEPTED", !.next = "NONE", !.age = "FRESH"]
    [] plan = "ACCEPT_APPLIED"  -> Ended(row, "APPLIED")
    [] plan = "RETRY_LATER"     -> [row EXCEPT !.status = "FAILED", !.next = "LATER", !.age = "FRESH"]
    [] plan = "RETRY_NOW"       -> [row EXCEPT !.status = "FAILED", !.next = "DUE", !.age = "FRESH"]
    [] plan = "RECONCILE"       -> [row EXCEPT !.next = "LATER"]
    [] plan = "DISCARD"         -> Ended(row, "DISCARDED_STALE")
    [] plan = "DISCARD_REFUSED" -> [Ended(row, "DISCARDED_STALE") EXCEPT !.refused = TRUE]
    [] plan = "BUDGET_EXHAUSTED" -> Ended(row, "BUDGET_EXHAUSTED")
    [] plan = "NOT_APPLIED"     -> Ended(row, "NOT_APPLIED")
    [] plan = "UNRESOLVED" /\ row.status = "ACCEPTED" -> [row EXCEPT !.next = "NONE"]
    [] OTHER -> [row EXCEPT !.status = "FAILED", !.next = "NONE", !.age = "FRESH"]

(* Mutant: an accepted write frees the slot of an asynchronous channel too. *)
HoldsSlotSync(row) == row.status = "DISPATCHED"
HoldsSlot(row) == row.status = "DISPATCHED" \/ (row.status = "ACCEPTED" /\ ProcessingMode = "ASYNC")

Apply(v, plan) ==
  LET row == AfterPlan(write[v], plan)
      accepted == plan \in {"ACCEPT", "ACCEPT_APPLIED"} /\ write[v].status = "DISPATCHED"
  IN /\ write' = [write EXCEPT ![v] = row]
     /\ inFlight' = IF inFlight = v /\ ~HoldsSlot(row) THEN 0 ELSE inFlight
     /\ lastSent' = IF accepted THEN row.value ELSE lastSent
     /\ latestApplied' = IF plan = "ACCEPT_APPLIED" THEN Larger(latestApplied, v) ELSE latestApplied
     /\ scope' = [scope EXCEPT !.status = IF plan \in {"BLOCK_SCOPE", "UNRESOLVED"} THEN "BLOCKED" ELSE @]
     /\ UNCHANGED <<latestCreated, latestDispatched>>

(* Mutant: the outcome is recorded whatever the row has become.            *)
RecordOutcomeAlways(p) ==
  /\ thread[p].pc = "ANSWERED"
  /\ Apply(thread[p].v, planOutcomeTransition(thread[p].answer, write[thread[p].v].attempts))
  /\ thread' = [thread EXCEPT ![p] = Idle]
  /\ UNCHANGED <<outside, crashes>>

(* The attempt count is the one the row has now, not the one that was sent *)
(* or read: neither transaction compares them.                             *)
RecordOutcome(p) ==
  /\ thread[p].pc = "ANSWERED"
  /\ LET v == thread[p].v IN
       IF write[v].status = "DISPATCHED"
       THEN Apply(v, planOutcomeTransition(thread[p].answer, write[v].attempts))
       ELSE UNCHANGED <<queue, scope>>
  /\ thread' = [thread EXCEPT ![p] = Idle]
  /\ UNCHANGED <<outside, crashes>>

RecordReconciliation(p) ==
  /\ thread[p].pc = "OBSERVED"
  /\ LET v == thread[p].v IN
       IF write[v].status \in {"DISPATCHED", "ACCEPTED"}
       THEN Apply(v, planReconciliationTransition(write[v].status, thread[p].reading,
                                                  write[v].attempts, write[v].age))
       ELSE UNCHANGED <<queue, scope>>
  /\ thread' = [thread EXCEPT ![p] = Idle]
  /\ UNCHANGED <<outside, crashes>>

(***************************************************************************)
(* Time, crashes and people.                                               *)
(***************************************************************************)
(* With LateDelivery FALSE no deadline passes in the middle of a call or   *)
(* while a request (for the deadlines of a write that is still DISPATCHED: *)
(* or a submission) is unsettled.                                          *)
Unsettled(v) ==
  \/ transit # {}
  \/ \E p \in Threads : thread[p].pc # "IDLE"
  \/ write[v].status = "DISPATCHED" /\ submitted # {}

NextDue(v) ==
  /\ write[v].next = "LATER"
  /\ LateDelivery \/ ~Unsettled(v)
  /\ write' = [write EXCEPT ![v].next = "DUE"]
  /\ UNCHANGED <<latestCreated, latestDispatched, latestApplied, inFlight, lastSent,
                 scope, thread, outside, crashes>>

Age(v) ==
  /\ write[v].status \in {"DISPATCHED", "ACCEPTED"}
  /\ write[v].age # "EXPIRED"
  /\ LateDelivery \/ ~Unsettled(v)
  /\ LateDelivery \/ write[v].age = "FRESH" \/ submitted = {}
  /\ write' = [write EXCEPT ![v].age = IF @ = "FRESH" THEN "STALE" ELSE "EXPIRED"]
  /\ UNCHANGED <<latestCreated, latestDispatched, latestApplied, inFlight, lastSent,
                 scope, thread, outside, crashes>>

(* The process of a thread stops and starts again; its requests travel on. *)
Crash(p) ==
  /\ crashes < MaxCrashes
  /\ thread[p].pc # "IDLE"
  /\ crashes' = crashes + 1
  /\ thread' = [thread EXCEPT ![p] = Idle]
  /\ UNCHANGED <<queue, scope, outside>>

(* No code holds or releases a scope: people do, in the database.          *)
SetScopeStatus(status) ==
  /\ HumanActs
  /\ scope' = [scope EXCEPT !.status = status]
  /\ UNCHANGED <<queue, thread, outside, crashes>>

Settle(p) == Plan(p) \/ Send(p) \/ GiveUp(p) \/ ReadBack(p) \/ RecordOutcome(p) \/ RecordReconciliation(p)

Next ==
  \/ \E p \in Deciders, q \in Values : CommitDecision(p, q)
  \/ \E q \in Values : Recalculate(q)
  \/ \E c \in Chains : ClaimNext(c)
  \/ \E p \in Threads : Settle(p) \/ Crash(p)
  \/ \E r \in transit : Deliver(r) \/ Refuse(r)
  \/ \E r \in submitted : ApplySubmitted(r) \/ DropSubmitted(r)
  \/ \E v \in Versions : NextDue(v) \/ Age(v)
  \/ \E status \in {"ACTIVE", "HELD"} : SetScopeStatus(status)

Spec == Init /\ [][Next]_vars

(* The sweep looks at due scopes every few seconds, calls have deadlines,  *)
(* the channel settles what it was sent, and clocks advance.               *)
Fairness ==
  /\ \A c \in Chains : WF_vars(Due /\ ClaimNext(c))
  /\ \A p \in Threads : WF_vars(Settle(p))
  /\ \A r \in Requests : WF_vars(Deliver(r) \/ Refuse(r)) /\ WF_vars(ApplySubmitted(r) \/ DropSubmitted(r))
  /\ \A v \in Versions : SF_vars(NextDue(v)) /\ SF_vars(Age(v))

FairSpec == Spec /\ Fairness

(***************************************************************************)
(* Properties.                                                             *)
(***************************************************************************)
(* At most one write holds the slot of the scope, and in_flight_write_id   *)
(* names exactly that write (migrations 0018, 0036, 0128).                 *)
OneInFlight ==
  /\ inFlight # 0 => HoldsSlot(write[inFlight])
  /\ \A v \in Versions : HoldsSlot(write[v]) => inFlight = v

(* INV-03: only the newest version waits to be sent; an older one that     *)
(* waited was superseded by the insert of the newer one.                   *)
OnlyNewestWaits ==
  \A v \in Versions : write[v].status \in {"PENDING", "BLOCKED"} => v = latestCreated

(* The slot discipline as a whole, in the form that is inductive: besides  *)
(* the two above, the rows are exactly the versions created so far, and    *)
(* no version was sent before it was created.                              *)
CreatedRows == \A v \in Versions : v > latestCreated <=> write[v].status = "NONE"
SlotInv ==
  /\ OneInFlight
  /\ OnlyNewestWaits
  /\ CreatedRows
  /\ latestDispatched <= latestCreated

(* INV-03: an attempt of an older version never starts once a newer one    *)
(* exists, nor once a newer one was sent.                                  *)
NoOlderDispatch ==
  [][\A v \in Versions : write'[v].attempts # write[v].attempts
       => v = latestCreated' /\ v >= latestDispatched]_vars

(* Every version carries a value of its own, so that a value read back     *)
(* tells which version the channel shows: what NoBlindRetry needs of an    *)
(* asynchronous channel.                                                   *)
DistinctValues ==
  \A v, w \in 1..latestCreated : write[v].value = write[w].value => v = w

(* ADR-0009 3, no blind retry: a request that may still take effect at the *)
(* channel is the last attempt of the write that is in flight.             *)
NoBlindRetry ==
  \A r \in transit \cup submitted : r.v = inFlight /\ r.attempt = write[r.v].attempts

(* ADR-0009 1: an old value never replaces a newer one at the channel.     *)
ChannelNeverGoesBack == [][channel' >= channel]_vars

(* A write recorded as APPLIED that nothing was sent after is what the     *)
(* channel shows: neither a lost answer nor a stale reading misled us.     *)
AppliedIsShown ==
  latestDispatched # 0 /\ write[latestDispatched].status = "APPLIED"
    => ValueAt(channel) = write[latestDispatched].value

(* ADR-0009 2: no write stays behind.  In an active scope every write is   *)
(* sent, retried, reconciled or replaced until it has ended, whatever is   *)
(* lost and whichever process stops.                                       *)
Outstanding(v) == write[v].status \in {"PENDING", "FAILED"} \/ HoldsSlot(write[v])
EveryWriteSettles ==
  \A v \in Versions : Outstanding(v) ~> ~Outstanding(v) \/ scope.status # "ACTIVE"

(* stock.ts: once no version is left in the queue, a recalculation that    *)
(* finds the quantity unchanged is right: the channel holds that quantity. *)
QueueIsEmpty == \A v \in 1..latestCreated : write[v].status \in Final
UnchangedWhenQueueEmpty ==
  latestCreated # 0 /\ QueueIsEmpty /\ LastQuantity(TRUE) # NoValue
    => ValueAt(channel) = LastQuantity(TRUE)

(* The queue implements the abstract promise.                              *)
Landed == {v \in Versions : write[v].status \in Final
                            \/ (write[v].status = "ACCEPTED" /\ ProcessingMode = "SYNC")}
Flight == INSTANCE SingleFlight WITH
  created <- latestCreated, flying <- inFlight, highest <- latestDispatched, ended <- Landed
KeepsOneInFlight == Flight!Spec
=============================================================================
