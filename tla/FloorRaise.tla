----------------------------- MODULE FloorRaise -----------------------------
(***************************************************************************)
(* How a price that stands below its floor is raised.  The floor is the    *)
(* larger of min_price and the margin floor.  The database notes a request *)
(* when an input of the floor changes or a write fails its last floor      *)
(* check; the scheduled recomputation re-evaluates the scopes with a       *)
(* request and those in the middle of a ladder.  A step larger than the    *)
(* step limit becomes a rung: the highest price the limit lets through,    *)
(* still below the floor, which the Gate and the database admit only       *)
(* because it is above the price that stands.                              *)
(*                                                                         *)
(* Two paths evaluate the same price scope concurrently: the scheduled     *)
(* recomputation and a competitor snapshot (pricing-pipeline/pipeline.ts,  *)
(* strategy-engine/index.ts, price-gate/index.ts, 0180, 0182).  Each reads *)
(* the context in one transaction and commits in a later one.              *)
(*                                                                         *)
(* One LIVE scope of a synchronous channel under a strategy that follows   *)
(* the market and stops at its bounds.                                     *)
(***************************************************************************)
EXTENDS Integers

CONSTANTS
  Prices,       \* the prices that occur, in minor units
  Floors,       \* the floors the owner's inputs can produce
  Targets,      \* what the strategy makes of a competitor snapshot
  Ceiling,      \* max_price
  StepLimit,    \* maxStepChangeBp of the guardrail, in basis points
  MaxRetries,   \* attempts of one evaluation before it gives up
  MaxChanges,   \* bound: how often an input of the floor changes
  MaxStops,     \* bound: how often a person stops prices
  MaxSnapshots, \* bound: how many competitor snapshots arrive
  MaxFaults     \* bound: refusals, failed attempts and crashes together

Paths == {"schedule", "snapshot"}
NoWrite == [amount |-> 0, rung |-> FALSE]
NoMarket == 0

VARIABLES
  floor,     \* the floor in force
  version,   \* of the bounds: a new min_price is a new row, a new cost is not
  stopped,   \* does a person's stop cover the scope?
  sent,      \* last_sent_amount_minor: the price the channel last accepted
  flight,    \* the write in flight
  checked,   \* floor_at_dispatch_minor of the write in flight, 0 if none
  waiting,   \* the newest write that waits for the slot
  request,   \* floor_raise_request: "none", "fresh", or "read" by the pass
  lastRung,  \* is the last approved change of the price a rung?
  paced,     \* was a rung decided less than a pace ago?
  market,    \* target of the last accepted snapshot while it is fresh
  eval,      \* per path: the evaluation in progress
  lapsed,    \* history: a raise was lost, or a price below the floor landed
  changes, stops, snapshots, faults

vars == <<floor, version, stopped, sent, flight, checked, waiting, request,
          lastRung, paced, market, eval, lapsed, changes, stops, snapshots,
          faults>>
inputs == <<floor, version, stopped>>
queue == <<sent, flight, checked, waiting>>
ladder == <<lastRung, paced>>
counters == <<changes, stops, snapshots, faults>>

Contexts == [version: Nat, stopped: BOOLEAN, current: {0} \cup Prices,
             floor: {0} \cup Floors, paced: BOOLEAN,
             target: {NoMarket} \cup Targets]
Evaluations == [pc: {"idle", "listed", "decided", "judged"},
                attempt: 1..MaxRetries, ctx: Contexts]
Unread == [version |-> 0, stopped |-> FALSE, current |-> 0, floor |-> 0,
           paced |-> FALSE, target |-> NoMarket]
Idle == [pc |-> "idle", attempt |-> 1, ctx |-> Unread]
-----------------------------------------------------------------------------
(* The strategy engine *)

Abs(n) == IF n < 0 THEN -n ELSE n

\* The step in basis points as the Gate counts it, rounded up.
StepBp(from, to) == (Abs(to - from) * 10000 + from - 1) \div from

\* The highest price the step limit lets through.
RungFrom(price) == price + (price * StepLimit) \div 10000

\* Does a rung from this price climb at all?
Climbs(price) == price * StepLimit >= 10000

\* The way up from a price below the floor: to the floor, or one rung.
RaiseStep(c) ==
  IF StepBp(c.current, c.floor) > StepLimit /\ RungFrom(c.current) > c.current
  THEN [amount |-> RungFrom(c.current), rung |-> TRUE]
  ELSE [amount |-> c.floor, rung |-> FALSE]

BelowFloor(c) == c.current < c.floor

\* Where the strategy wants the price, given a fresh snapshot or none.
Capped(c) == IF c.target > Ceiling THEN Ceiling ELSE c.target
Proposal(c) ==
  IF \/ c.target = NoMarket
     \/ c.target < c.floor
     \/ StepBp(c.current, Capped(c)) > StepLimit
  THEN IF BelowFloor(c) THEN RaiseStep(c)
       ELSE [amount |-> IF c.target = NoMarket THEN c.current
                        ELSE IF c.target < c.floor THEN c.floor
                        ELSE Capped(c),
             rung |-> FALSE]
  ELSE [amount |-> Capped(c), rung |-> FALSE]

\* A raise from below the floor waits until a pace has passed since a rung.
LadderPaced(c) ==
  BelowFloor(c) /\ Proposal(c).amount > c.current /\ c.paced

\* The Gate: a stop holds every price; only a rung passes below the floor.
GatePasses(c) ==
  LET p == Proposal(c) IN
  /\ ~c.stopped
  /\ \/ p.amount >= c.floor
     \/ p.rung /\ p.amount > c.current
  /\ p.amount <= Ceiling
  /\ StepBp(c.current, p.amount) <= StepLimit

Approved(c) ==
  Proposal(c).amount # c.current /\ ~LadderPaced(c) /\ GatePasses(c)

\* NOT_EVALUATED: no fresh snapshot, and nothing to raise.
Unevaluated(c) == c.target = NoMarket /\ ~BelowFloor(c)

\* An outcome after which the request is asked again: the pause of the
\* ladder, or a price held by a stop.
Retryable(c) ==
  \/ LadderPaced(c)
  \/ c.stopped /\ ~Unevaluated(c)

\* Prices are positive and the floor is not above max_price; each rung
\* climbs (from less than 10000 / StepLimit minor units it would not).  The last two
\* say that Prices holds every price the strategy can arrive at.
ASSUME FloorRaiseAssumption ==
  /\ Prices \subseteq Nat \ {0}
  /\ Floors \subseteq Prices
  /\ Targets \subseteq Nat \ {0}
  /\ Ceiling \in Prices
  /\ StepLimit \in Nat
  /\ MaxRetries \in Nat \ {0}
  /\ \A f \in Floors : f <= Ceiling
  /\ \A p \in Prices : Climbs(p)
  /\ \A p \in Prices : RungFrom(p) \in Prices \/ RungFrom(p) > Ceiling
  /\ \A t \in Targets : t \in Prices \/ t > Ceiling
-----------------------------------------------------------------------------
(* The database *)

(* Mutant: every rung passes, whatever price stands.                      *)
LadderStepAnyway(w) == w.rung

\* price_ladder_step_allowed: a rung above the price last accepted.
LadderStepAllowed(w) == w.rung /\ w.amount > sent

\* assert_price_floor, at creation and before every send.
MayStand(w) == w.amount >= floor \/ LadderStepAllowed(w)

\* contextVersion: the rows of the bounds and the stop, not the price itself.
ContextHolds(c) == c.version = version /\ c.stopped = stopped

\* The triggers of request_floor_raise on an input of the floor.
SetFloor(f, rowOfBounds) ==
  /\ changes < MaxChanges
  /\ f # floor
  /\ floor' = f
  /\ version' = IF rowOfBounds THEN version + 1 ELSE version
  /\ request' = "fresh"
  /\ lapsed' = FALSE
  /\ changes' = changes + 1
  /\ UNCHANGED <<stopped, queue, ladder, market, eval, stops, snapshots,
                 faults>>

StopPrices ==
  /\ ~stopped
  /\ stops < MaxStops
  /\ stopped' = TRUE
  /\ stops' = stops + 1
  /\ UNCHANGED <<floor, version, queue, request, ladder, market, eval, lapsed,
                 changes, snapshots, faults>>

ReleaseStop ==
  /\ stopped
  /\ stopped' = FALSE
  /\ UNCHANGED <<floor, version, queue, request, ladder, market, eval, lapsed,
                 counters>>
-----------------------------------------------------------------------------
(* The two paths of evaluation *)

(* Mutant: only requests are looked for.                                  *)
CandidateAsked == ~stopped /\ request # "none"

\* listFloorRaiseScopes: a request, or a ladder whose last rung has landed.
Candidate == ~stopped /\ (request # "none" \/ (lastRung /\ flight = NoWrite))

BeginPass ==
  /\ eval["schedule"].pc = "idle"
  /\ Candidate
  /\ request' = IF request = "none" THEN "none" ELSE "read"
  /\ eval' = [eval EXCEPT !["schedule"].pc = "listed"]
  /\ UNCHANGED <<inputs, queue, ladder, market, lapsed, counters>>

\* A competitor snapshot arrives; the strategy will make target of it.
Observe(target) ==
  /\ eval["snapshot"].pc = "idle"
  /\ snapshots < MaxSnapshots
  /\ snapshots' = snapshots + 1
  /\ eval' = [eval EXCEPT !["snapshot"].pc = "listed",
                          !["snapshot"].ctx.target = target]
  /\ UNCHANGED <<inputs, queue, request, ladder, market, lapsed, changes,
                 stops, faults>>

\* loadScopeContext: the first transaction of an attempt.
ReadContext(p) ==
  /\ eval[p].pc = "listed"
  /\ eval' = [eval EXCEPT ![p].pc = "decided",
                ![p].ctx = [version |-> version, stopped |-> stopped,
                            current |-> sent, floor |-> floor,
                            paced |-> paced,
                            target |-> IF p = "snapshot" THEN @.target
                                       ELSE market]]
  /\ UNCHANGED <<inputs, queue, request, ladder, market, lapsed, counters>>

\* The projection a snapshot leaves, committed with or without a decision.
Projected(p) == IF p = "snapshot" THEN eval[p].ctx.target ELSE market

\* Where a path goes when its evaluation is over.  Only the scheduled pass
\* has a request to consume, and only if the outcome is a judgement.
After(p, judged) ==
  [eval EXCEPT ![p] =
     IF p = "schedule" /\ judged THEN [Idle EXCEPT !.pc = "judged"] ELSE Idle]

\* writeDecision: the newer write ends the waiting one, and takes the slot in
\* the same transaction if it is free.
Queued(w) ==
  IF flight = NoWrite
  THEN flight' = w /\ checked' = floor /\ waiting' = NoWrite
  ELSE waiting' = w /\ UNCHANGED <<flight, checked>>

CommitChange(p) ==
  LET c == eval[p].ctx
      w == Proposal(c)
  IN
  /\ eval[p].pc = "decided"
  /\ Approved(c)
  /\ ContextHolds(c)
  /\ MayStand(w)
  /\ Queued(w)
  /\ lastRung' = w.rung
  /\ paced' = (paced \/ w.rung)
  /\ market' = Projected(p)
  /\ eval' = After(p, TRUE)
  /\ UNCHANGED <<inputs, sent, request, lapsed, counters>>

\* Under a stop what was not evaluated leaves no row, so nothing is compared.
Unrecorded(c) == c.stopped /\ Unevaluated(c)

\* A decision without a write: no change, held, or refused by the Gate.
CommitNothing(p) ==
  LET c == eval[p].ctx IN
  /\ eval[p].pc = "decided"
  /\ ~Approved(c)
  /\ ContextHolds(c) \/ Unrecorded(c)
  /\ market' = Projected(p)
  /\ eval' = After(p, ~Retryable(c))
  /\ UNCHANGED <<inputs, queue, request, ladder, lapsed, counters>>

(* Mutant: one attempt too many.                                          *)
MayRetryAgain(e) == e.attempt <= MaxRetries

\* Is the last attempt still to come?
MayRetry(e) == e.attempt < MaxRetries

\* commitWithRetry after CONTEXT_CHANGED: once more from the start, or give
\* up; a refusal of the floor check is a judgement, a changed context is not.
CommitFails(p) ==
  LET e == eval[p] IN
  /\ e.pc = "decided"
  /\ \/ ~ContextHolds(e.ctx) /\ ~Unrecorded(e.ctx)
     \/ Approved(e.ctx) /\ ~MayStand(Proposal(e.ctx))
  /\ IF MayRetry(e)
     THEN /\ eval' = [eval EXCEPT ![p] =
                [pc |-> "listed", attempt |-> e.attempt + 1,
                 ctx |-> [Unread EXCEPT !.target =
                            IF p = "snapshot" THEN e.ctx.target ELSE @]]]
          /\ UNCHANGED market
     ELSE /\ eval' = After(p, ContextHolds(e.ctx))
          /\ market' = Projected(p)
  /\ UNCHANGED <<inputs, queue, request, ladder, lapsed, counters>>

(* Mutant: a request renewed since it was read is consumed with it.        *)
ConsumeAny ==
  /\ eval["schedule"].pc = "judged"
  /\ request' = "none"
  /\ eval' = [eval EXCEPT !["schedule"] = Idle]
  /\ UNCHANGED <<inputs, queue, ladder, market, lapsed, counters>>

\* consumeFloorRaise: the request, unless it has been renewed since it was
\* read.
Consume ==
  /\ eval["schedule"].pc = "judged"
  /\ request' = IF request = "read" THEN "none" ELSE request
  /\ eval' = [eval EXCEPT !["schedule"] = Idle]
  /\ UNCHANGED <<inputs, queue, ladder, market, lapsed, counters>>

\* The process of a path dies between two of its transactions.
Die(p) ==
  /\ eval[p].pc # "idle"
  /\ faults < MaxFaults
  /\ faults' = faults + 1
  /\ eval' = [eval EXCEPT ![p] = Idle]
  /\ UNCHANGED <<inputs, queue, request, ladder, market, lapsed, changes,
                 stops, snapshots>>
-----------------------------------------------------------------------------
(* The dispatcher and the channel *)

\* claimNext: the floor, the stop and the rung are checked again.
Claim ==
  /\ flight = NoWrite
  /\ waiting # NoWrite
  /\ ~stopped
  /\ MayStand(waiting)
  /\ flight' = waiting
  /\ checked' = floor
  /\ waiting' = NoWrite
  /\ UNCHANGED <<inputs, sent, request, ladder, market, eval, lapsed, counters>>

\* WRITE_BLOCKED_BY_BOUND_RECHECK: the trigger asks for a re-evaluation.
ClaimBlocked ==
  /\ flight = NoWrite
  /\ waiting # NoWrite
  /\ ~stopped
  /\ ~MayStand(waiting)
  /\ waiting' = NoWrite
  /\ request' = "fresh"
  /\ lapsed' = FALSE
  /\ UNCHANGED <<inputs, sent, flight, checked, ladder, market, eval, counters>>

\* PRICING_STOPPED ends the write; nothing asks for another.
ClaimStopped ==
  /\ flight = NoWrite
  /\ waiting # NoWrite
  /\ stopped
  /\ waiting' = NoWrite
  /\ lapsed' = (lapsed \/ ~waiting.rung)
  /\ UNCHANGED <<inputs, sent, flight, checked, request, ladder, market, eval,
                 counters>>

Accept ==
  /\ flight # NoWrite
  /\ sent' = flight.amount
  /\ flight' = NoWrite
  /\ checked' = 0
  /\ lapsed' = (lapsed \/ (~flight.rung /\ flight.amount < floor))
  /\ UNCHANGED <<inputs, waiting, request, ladder, market, eval,
                 counters>>

\* The channel refuses the price, or the last attempt fails.
Refuse ==
  /\ flight # NoWrite
  /\ faults < MaxFaults
  /\ faults' = faults + 1
  /\ flight' = NoWrite
  /\ checked' = 0
  /\ lapsed' = (lapsed \/ (~flight.rung /\ waiting = NoWrite))
  /\ UNCHANGED <<inputs, sent, waiting, request, ladder, market, eval,
                 changes, stops, snapshots>>

\* A failed attempt waits to be claimed again, unless a newer write exists.
Fail ==
  /\ flight # NoWrite
  /\ faults < MaxFaults
  /\ faults' = faults + 1
  /\ flight' = NoWrite
  /\ checked' = 0
  /\ waiting' = IF waiting = NoWrite THEN flight ELSE waiting
  /\ UNCHANGED <<inputs, sent, request, ladder, market, eval, lapsed,
                 changes, stops, snapshots>>

\* The period of the scheduled recomputation passes.
PacePasses ==
  /\ paced
  /\ paced' = FALSE
  /\ UNCHANGED <<inputs, queue, request, lastRung, market, eval, lapsed,
                 counters>>

\* The last snapshot grows older than the strategy allows.
SnapshotAges ==
  /\ market # NoMarket
  /\ market' = NoMarket
  /\ UNCHANGED <<inputs, queue, request, ladder, eval, lapsed, counters>>
-----------------------------------------------------------------------------
Init ==
  /\ floor \in Floors
  /\ sent \in {p \in Prices : p >= floor /\ p <= Ceiling}
  /\ version = 0
  /\ stopped = FALSE
  /\ flight = NoWrite
  /\ checked = 0
  /\ waiting = NoWrite
  /\ request = "none"
  /\ lastRung = FALSE
  /\ paced = FALSE
  /\ market = NoMarket
  /\ eval = [p \in Paths |-> Idle]
  /\ lapsed = FALSE
  /\ changes = 0
  /\ stops = 0
  /\ snapshots = 0
  /\ faults = 0

Evaluate(p) ==
  ReadContext(p) \/ CommitChange(p) \/ CommitNothing(p) \/ CommitFails(p)

Next ==
  \/ \E f \in Floors, rowOfBounds \in BOOLEAN : SetFloor(f, rowOfBounds)
  \/ StopPrices \/ ReleaseStop
  \/ BeginPass \/ Consume
  \/ \E t \in Targets : Observe(t)
  \/ \E p \in Paths : Evaluate(p) \/ Die(p)
  \/ Claim \/ ClaimBlocked \/ ClaimStopped
  \/ Accept \/ Refuse \/ Fail
  \/ PacePasses \/ SnapshotAges

Spec == Init /\ [][Next]_vars

\* The scheduler calls the pass again and again and a pass that has begun goes
\* on; the dispatcher serves a free slot and the channel answers; time passes.
\* Nothing is assumed of competitor snapshots or of people.
Pass == BeginPass \/ Evaluate("schedule") \/ Consume
Sending == Claim \/ ClaimBlocked \/ ClaimStopped \/ Accept
Fairness == WF_vars(Pass) /\ WF_vars(Sending) /\ WF_vars(PacePasses)

FairSpec == Spec /\ Fairness
-----------------------------------------------------------------------------
Writes == [amount: Prices, rung: BOOLEAN] \cup {NoWrite}

(* Types of the variables. *)
TypeOK ==
  /\ floor \in Floors
  /\ version \in Nat
  /\ stopped \in BOOLEAN
  /\ sent \in Prices
  /\ flight \in Writes /\ waiting \in Writes
  /\ checked \in {0} \cup Floors
  /\ request \in {"none", "fresh", "read"}
  /\ lastRung \in BOOLEAN
  /\ paced \in BOOLEAN
  /\ market \in {NoMarket} \cup Targets
  /\ eval \in [Paths -> Evaluations]
  /\ \A p \in Paths : eval[p].pc = "decided" =>
       eval[p].ctx.current \in Prices /\ eval[p].ctx.floor \in Floors
  /\ lapsed \in BOOLEAN

(* A price sent below the floor it was checked against is above the price  *)
(* that stands, for as long as it is under way: a rung never lowers a      *)
(* price, however old the context it was decided from.                     *)
RungsClimb ==
  flight # NoWrite /\ flight.amount < checked => flight.amount > sent

(* A price below the floor is owed a raise: a request waits, the ladder    *)
(* goes on, a price at the floor or above is on its way, or a write waits  *)
(* whose floor check will ask again if it must.  The exceptions (lapsed)   *)
(* are a raise the channel refused or a stop ended after its request was   *)
(* consumed, and a price sent before the floor rose and accepted after.    *)
BelowFloorIsOwed ==
  sent < floor =>
    \/ lapsed
    \/ request # "none"
    \/ lastRung
    \/ flight.amount >= floor
    \/ waiting # NoWrite

(* A price below the floor is raised to it without a competitor's help,    *)
(* unless a person holds it or the raise has lapsed.                       *)
BelowFloorIsRaised == sent < floor ~> (sent >= floor \/ stopped \/ lapsed)

=============================================================================
