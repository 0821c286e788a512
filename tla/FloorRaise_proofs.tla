------------------------- MODULE FloorRaise_proofs --------------------------
(***************************************************************************)
(* Proofs about FloorRaise, for any prices, floors and snapshots, any step *)
(* limit under which a rung makes progress, and any number of changes,     *)
(* stops and faults.                                                       *)
(***************************************************************************)
EXTENDS FloorRaise, TLAPS

(* What the arithmetic of basis points comes to: a quotient is within a    *)
(* bound exactly when the dividend is below the next multiple.             *)
LEMMA QuotientBound ==
  ASSUME NEW a \in Nat, NEW p \in Nat \ {0}, NEW n \in Nat
  PROVE  a \div p <= n <=> a < p * (n + 1)
<1> DEFINE q == a \div p
<1>1. q \in Nat /\ p * q <= a /\ a < p * (q + 1)
  OBVIOUS
<1>2. p * (n + 1) \in Nat /\ p * q \in Nat /\ p * (q + 1) \in Nat
  BY <1>1
<1>3. ASSUME q <= n PROVE a < p * (n + 1)
  <2>1. p * (q + 1) <= p * (n + 1)
    BY <1>1, <1>3
  <2> QED
    BY <1>1, <1>2, <2>1
<1>4. ASSUME ~ (q <= n) PROVE ~ (a < p * (n + 1))
  <2>1. n + 1 <= q
    BY <1>1, <1>4
  <2>2. p * (n + 1) <= p * q
    BY <1>1, <2>1
  <2> QED
    BY <1>1, <1>2, <2>2
<1> QED
  BY <1>3, <1>4

(* The step from p to a higher price is within the limit exactly when the  *)
(* way is not longer than the rung.                                        *)
LEMMA StepIsRung ==
  ASSUME FloorRaiseAssumption, NEW p \in Nat \ {0}, NEW t \in Nat, p < t
  PROVE  /\ RungFrom(p) \in Nat
         /\ StepBp(p, t) <= StepLimit <=> t <= RungFrom(p)
<1>1. StepLimit \in Nat
  BY DEF FloorRaiseAssumption
<1> DEFINE d == t - p
           m == p * StepLimit
           r == m \div 10000
           a == d * 10000 + p - 1
<1>2. d \in Nat /\ m \in Nat /\ a \in Nat /\ Abs(d) = d
  BY <1>1 DEF Abs
<1>3. StepBp(p, t) = a \div p
  BY <1>2 DEF StepBp, Abs
<1>4. r \in Nat /\ r * 10000 <= m /\ m < (r + 1) * 10000
  BY <1>2
<1>5. RungFrom(p) = p + r
  BY DEF RungFrom
<1>6. p * (StepLimit + 1) = m + p
  BY <1>1
<1>7. StepBp(p, t) <= StepLimit <=> a < m + p
  <2> HIDE DEF a, m
  <2> QED
    BY <1>1, <1>2, <1>3, <1>6, QuotientBound
<1>8. a < m + p <=> d * 10000 <= m
  BY <1>2
<1>9. d * 10000 <= m <=> d <= r
  BY <1>2, <1>4
<1> QED
  BY <1>2, <1>4, <1>5, <1>7, <1>8, <1>9

(* The assumption, without its products.                                   *)
LEMMA Numbers ==
  ASSUME FloorRaiseAssumption
  PROVE  /\ \A p \in Prices : p \in Nat \ {0}
         /\ \A f \in Floors : f \in Prices /\ f <= Ceiling
         /\ \A t \in Targets : t \in Nat \ {0} /\ (t \in Prices \/ t > Ceiling)
         /\ Ceiling \in Prices
         /\ StepLimit \in Nat
         /\ MaxRetries \in Nat \ {0}
<1>1. /\ Prices \subseteq Nat \ {0} /\ Floors \subseteq Prices /\ Targets \subseteq Nat \ {0}
      /\ Ceiling \in Prices /\ StepLimit \in Nat /\ MaxRetries \in Nat \ {0}
  BY DEF FloorRaiseAssumption
<1>2. \A f \in Floors : f <= Ceiling
  BY DEF FloorRaiseAssumption
<1>3. \A t \in Targets : t \in Prices \/ t > Ceiling
  BY DEF FloorRaiseAssumption
<1> QED
  BY <1>1, <1>2, <1>3

(* What an evaluation reads.                                               *)
ReadContexts ==
  {c \in Contexts : c.current \in Prices /\ c.floor \in Floors}

(* The target a snapshot leads to, cut at max_price.                       *)
LEMMA CappedTyped ==
  ASSUME FloorRaiseAssumption, NEW c \in Contexts, c.target # NoMarket
  PROVE  c.target \in Nat \ {0} /\ Capped(c) \in Prices /\ Capped(c) <= Ceiling
<1>1. c.target \in Targets
  BY DEF Contexts
<1>2. c.target \in Nat \ {0} /\ (c.target \in Prices \/ c.target > Ceiling)
  BY <1>1, Numbers
<1>3. Ceiling \in Prices /\ Ceiling \in Nat
  BY Numbers
<1>4. Capped(c) = IF c.target > Ceiling THEN Ceiling ELSE c.target
  BY DEF Capped
<1> QED
  BY <1>2, <1>3, <1>4

(* The way up from below the floor: higher than the price that stands, not *)
(* above max_price, and within the step limit if it is a rung.             *)
LEMMA RaiseStepGood ==
  ASSUME FloorRaiseAssumption, NEW c \in ReadContexts, BelowFloor(c)
  PROVE  LET w == RaiseStep(c)
         IN /\ w \in [amount: Prices, rung: BOOLEAN]
            /\ w.amount > c.current
            /\ w.amount <= Ceiling
            /\ StepBp(c.current, w.amount) <= StepLimit
            /\ w.rung \/ w.amount = c.floor
<1> DEFINE p == c.current
           f == c.floor
<1>1. /\ p \in Prices /\ f \in Floors /\ p \in Nat \ {0} /\ f \in Nat \ {0}
      /\ p < f /\ f <= Ceiling /\ f \in Prices
      /\ StepLimit \in Nat /\ Ceiling \in Nat
  BY Numbers DEF ReadContexts, BelowFloor
<1>7. p * StepLimit >= 10000
  BY <1>1 DEF FloorRaiseAssumption, Climbs
<1>2. RungFrom(p) \in Nat /\ (StepBp(p, f) <= StepLimit <=> f <= RungFrom(p))
  BY <1>1, StepIsRung
<1>3. RungFrom(p) > p
  <2>1. p * StepLimit \in Nat
    BY <1>1
  <2>2. (p * StepLimit) \div 10000 >= 1
    BY <1>7, <2>1
  <2> QED
    BY <1>1, <2>2 DEF RungFrom
<1>4. StepBp(p, f) \in Int
  BY <1>1 DEF StepBp, Abs
<1>5. CASE StepBp(p, f) > StepLimit
  <2>1. RaiseStep(c) = [amount |-> RungFrom(p), rung |-> TRUE]
    BY <1>3, <1>5 DEF RaiseStep
  <2>2. RungFrom(p) < f
    BY <1>1, <1>2, <1>4, <1>5
  <2>3. RungFrom(p) \in Prices
    <3>1. RungFrom(p) \in Prices \/ RungFrom(p) > Ceiling
      BY <1>1 DEF FloorRaiseAssumption
    <3> QED
      BY <1>1, <1>2, <2>2, <3>1
  <2>4. StepBp(p, RungFrom(p)) <= StepLimit
    BY <1>1, <1>2, <1>3, StepIsRung
  <2> QED
    BY <1>1, <1>2, <1>3, <2>1, <2>2, <2>3, <2>4
<1>6. CASE ~ (StepBp(p, f) > StepLimit)
  <2>1. RaiseStep(c) = [amount |-> f, rung |-> FALSE]
    BY <1>6 DEF RaiseStep
  <2> QED
    BY <1>1, <1>4, <1>6, <2>1
<1> QED
  BY <1>5, <1>6

(* A raise from below the floor that neither a stop nor the pause of the   *)
(* ladder holds is approved.                                               *)
LEMMA RaiseApproved ==
  ASSUME FloorRaiseAssumption, NEW c \in ReadContexts, BelowFloor(c),
         ~ c.stopped, ~ LadderPaced(c)
  PROVE  Approved(c)
<1>1. c \in Contexts /\ c.current \in Nat \ {0} /\ c.floor \in Nat \ {0} /\ c.current < c.floor
  BY Numbers DEF ReadContexts, BelowFloor
<1>2. CASE Proposal(c) = RaiseStep(c)
  <2>1. RaiseStep(c).amount \in Nat \ {0}
    BY RaiseStepGood, Numbers
  <2> QED
    BY <1>1, <1>2, <2>1, RaiseStepGood DEF Approved, GatePasses
<1>3. CASE Proposal(c) # RaiseStep(c)
  <2>1. /\ c.target # NoMarket /\ ~ (c.target < c.floor)
        /\ ~ (StepBp(c.current, Capped(c)) > StepLimit)
        /\ Proposal(c) = [amount |-> Capped(c), rung |-> FALSE]
    BY <1>3 DEF Proposal
  <2>2. /\ c.target \in Nat \ {0} /\ Capped(c) \in Prices /\ Capped(c) <= Ceiling
        /\ Capped(c) \in Nat \ {0} /\ Ceiling \in Nat /\ c.floor <= Ceiling /\ StepLimit \in Nat
    BY <1>1, <2>1, CappedTyped, Numbers DEF ReadContexts
  <2>3. Capped(c) >= c.floor
    BY <1>1, <2>1, <2>2 DEF Capped
  <2>4. StepBp(c.current, Capped(c)) \in Int
    BY <1>1, <2>2 DEF StepBp, Abs
  <2> QED
    BY <1>1, <2>1, <2>2, <2>3, <2>4 DEF Approved, GatePasses
<1> QED
  BY <1>2, <1>3

(* What is approved is a price of the model; below the floor it is a rung. *)
LEMMA ApprovedTyped ==
  ASSUME FloorRaiseAssumption, NEW c \in ReadContexts, Approved(c)
  PROVE  /\ Proposal(c) \in [amount: Prices, rung: BOOLEAN]
         /\ Proposal(c) # NoWrite
         /\ Proposal(c).rung \/ Proposal(c).amount >= c.floor
<1>1. /\ c \in Contexts /\ c.current \in Prices /\ c.floor \in Prices
      /\ c.current \in Nat \ {0} /\ c.floor \in Nat \ {0}
  BY Numbers DEF ReadContexts
<1>2. Proposal(c) \in [amount: Prices, rung: BOOLEAN]
  <2>1. CASE BelowFloor(c) /\ Proposal(c) = RaiseStep(c)
    BY <2>1, RaiseStepGood
  <2>2. CASE c.target = NoMarket /\ ~ BelowFloor(c)
    BY <1>1, <2>2 DEF Proposal
  <2>3. CASE c.target # NoMarket /\ ~ (BelowFloor(c) /\ Proposal(c) = RaiseStep(c))
    BY <1>1, <2>3, CappedTyped DEF Proposal
  <2>4. c.target = NoMarket /\ BelowFloor(c) => Proposal(c) = RaiseStep(c)
    BY DEF Proposal
  <2> QED
    BY <2>1, <2>2, <2>3, <2>4
<1>3. Proposal(c).amount \in Nat \ {0}
  BY <1>2, Numbers
<1>4. Proposal(c).rung \/ Proposal(c).amount >= c.floor
  BY DEF Approved, GatePasses
<1> QED
  BY <1>2, <1>3, <1>4 DEF NoWrite

(***************************************************************************)
(* The invariant of the types.                                             *)
(***************************************************************************)

LEMMA WriteFacts ==
  ASSUME FloorRaiseAssumption
  PROVE  /\ NoWrite \in Writes
         /\ \A w \in Writes : w.amount \in Nat /\ w.rung \in BOOLEAN
         /\ \A w \in Writes : w # NoWrite => w.amount \in Prices
         /\ NoWrite.amount = 0 /\ NoWrite.rung = FALSE
<1>1. NoWrite = [amount |-> 0, rung |-> FALSE]
  BY DEF NoWrite
<1>2. ASSUME NEW w \in Writes, w # NoWrite PROVE w.amount \in Prices /\ w.rung \in BOOLEAN
  BY <1>2 DEF Writes
<1>3. NoWrite.amount = 0 /\ NoWrite.rung = FALSE
  BY <1>1
<1>4. NoWrite \in Writes
  BY DEF Writes
<1>5. ASSUME NEW w \in Writes PROVE w.amount \in Nat /\ w.rung \in BOOLEAN
  <2>1. CASE w = NoWrite
    BY <2>1 DEF NoWrite
  <2>2. CASE w # NoWrite
    <3>1. w.amount \in Prices /\ w.rung \in BOOLEAN
      BY <1>2, <2>2
    <3> QED
      BY <3>1, Numbers
  <2> QED
    BY <2>1, <2>2
<1> QED
  BY <1>2, <1>3, <1>4, <1>5

LEMMA IdleTyped ==
  ASSUME FloorRaiseAssumption
  PROVE  /\ Unread \in Contexts
         /\ Idle \in Evaluations /\ [Idle EXCEPT !.pc = "judged"] \in Evaluations
         /\ Idle.pc = "idle" /\ [Idle EXCEPT !.pc = "judged"].pc = "judged"
<1>1. Unread \in Contexts
  BY DEF Unread, Contexts
<1>2. 1 \in 1..MaxRetries
  BY Numbers
<1> QED
  BY <1>1, <1>2 DEF Idle, Evaluations

LEMMA InitTyped ==
  ASSUME FloorRaiseAssumption, Init
  PROVE  TypeOK
<1>1. eval \in [Paths -> Evaluations] /\ \A p \in Paths : eval[p].pc = "idle"
  BY IdleTyped DEF Init
<1> QED
  BY <1>1, WriteFacts DEF Init, TypeOK

(* What an evaluation that has decided has read.                           *)
LEMMA DecidedRead ==
  ASSUME TypeOK, NEW p \in Paths, eval[p].pc = "decided"
  PROVE  eval[p].ctx \in ReadContexts
  BY DEF TypeOK, Evaluations, ReadContexts

LEMMA ProjectedTyped ==
  ASSUME TypeOK, NEW p \in Paths
  PROVE  Projected(p) \in {NoMarket} \cup Targets
  BY DEF TypeOK, Projected, Evaluations, Contexts

(* The part of the type invariant that is about the evaluations.           *)
EvalOK ==
  /\ eval \in [Paths -> Evaluations]
  /\ \A p \in Paths : eval[p].pc = "decided" =>
       eval[p].ctx.current \in Prices /\ eval[p].ctx.floor \in Floors

LEMMA Replaced ==
  ASSUME TypeOK, NEW p \in Paths, NEW e \in Evaluations,
         e.pc = "decided" => e.ctx \in ReadContexts,
         eval' = [eval EXCEPT ![p] = e]
  PROVE  EvalOK'
<1>1. eval \in [Paths -> Evaluations] /\ EvalOK
  BY DEF TypeOK, EvalOK
<1>2. eval' \in [Paths -> Evaluations] /\ eval'[p] = e
  BY <1>1
<1>3. \A q \in Paths : q # p => eval'[q] = eval[q]
  BY <1>1
<1>4. e.pc = "decided" => e.ctx.current \in Prices /\ e.ctx.floor \in Floors
  BY DEF ReadContexts
<1> HIDE DEF EvalOK
<1>5. ASSUME NEW q \in Paths, eval'[q].pc = "decided"
      PROVE  eval'[q].ctx.current \in Prices /\ eval'[q].ctx.floor \in Floors
  BY <1>1, <1>2, <1>3, <1>4, <1>5 DEF EvalOK
<1> QED
  BY <1>2, <1>5 DEF EvalOK

(* What a path becomes that has ended its evaluation.                      *)
Ended(p, judged) ==
  IF p = "schedule" /\ judged THEN [Idle EXCEPT !.pc = "judged"] ELSE Idle

LEMMA AfterTyped ==
  ASSUME FloorRaiseAssumption, TypeOK, NEW p \in Paths, NEW judged,
         eval' = After(p, judged)
  PROVE  EvalOK'
<1> DEFINE e == Ended(p, judged)
<1>1. e \in Evaluations /\ e.pc # "decided"
  BY IdleTyped DEF Ended
<1>2. eval' = [eval EXCEPT ![p] = e]
  BY DEF After, Ended
<1> HIDE DEF e
<1> QED
  BY <1>1, <1>2, Replaced

LEMMA TypeStep ==
  ASSUME FloorRaiseAssumption, TypeOK, [Next]_vars
  PROVE  TypeOK'
<1> USE DEF inputs, queue, ladder, counters
<1>0. EvalOK /\ \A p \in Paths : eval[p] \in Evaluations /\ eval[p].ctx \in Contexts
  BY DEF TypeOK, EvalOK, Evaluations
<1>1. ASSUME NEW f \in Floors, NEW row \in BOOLEAN, SetFloor(f, row) PROVE TypeOK'
  <2>1. version' \in Nat
    BY <1>1 DEF TypeOK, SetFloor
  <2>2. floor' \in Floors /\ request' = "fresh" /\ lapsed' = FALSE
        /\ UNCHANGED <<stopped, queue, ladder, market, eval>>
    BY <1>1 DEF SetFloor
  <2> QED
    BY <2>1, <2>2 DEF TypeOK
<1>2. ASSUME StopPrices \/ ReleaseStop PROVE TypeOK'
  BY <1>2 DEF TypeOK, StopPrices, ReleaseStop
<1>3. ASSUME BeginPass PROVE TypeOK'
  <2> DEFINE e == [eval["schedule"] EXCEPT !.pc = "listed"]
  <2>1. e \in Evaluations /\ e.pc # "decided"
    BY <1>0 DEF Evaluations, Paths
  <2>2. eval' = [eval EXCEPT !["schedule"] = e]
    BY <1>3 DEF BeginPass
  <2> HIDE DEF e
  <2>3. EvalOK'
    BY <2>1, <2>2, Replaced DEF Paths
  <2> QED
    BY <1>3, <2>3 DEF TypeOK, BeginPass, EvalOK
<1>4. ASSUME Consume PROVE TypeOK'
  <2>1. EvalOK'
    BY <1>4, IdleTyped, Replaced DEF Consume, Paths
  <2> QED
    BY <1>4, <2>1 DEF TypeOK, Consume, EvalOK
<1>5. ASSUME NEW t \in Targets, Observe(t) PROVE TypeOK'
  <2> DEFINE old == eval["snapshot"]
             e == [old EXCEPT !.pc = "listed", !.ctx.target = t]
  <2>0. old \in Evaluations /\ "snapshot" \in Paths /\ eval \in [Paths -> Evaluations]
    BY <1>0 DEF Paths, TypeOK
  <2>1. e \in Evaluations /\ e.pc # "decided"
    <3> HIDE DEF old
    <3>1. [old.ctx EXCEPT !.target = t] \in Contexts
      BY <2>0 DEF Evaluations, Contexts
    <3> QED
      BY <2>0, <3>1 DEF Evaluations
  <2>2. eval' = [eval EXCEPT !["snapshot"] = e]
    <3>1. eval' = [eval EXCEPT !["snapshot"].pc = "listed", !["snapshot"].ctx.target = t]
      BY <1>5 DEF Observe
    <3> QED
      BY <2>0, <3>1 DEF Evaluations
  <2> HIDE DEF e
  <2>3. EvalOK'
    BY <2>1, <2>2, Replaced DEF Paths
  <2> QED
    BY <1>5, <2>3 DEF TypeOK, Observe, EvalOK
<1>6. ASSUME NEW p \in Paths, ReadContext(p) PROVE TypeOK'
  <2> DEFINE t == IF p = "snapshot" THEN eval[p].ctx.target ELSE market
             c == [version |-> version, stopped |-> stopped, current |-> sent,
                   floor |-> floor, paced |-> paced, target |-> t]
             e == [eval[p] EXCEPT !.pc = "decided", !.ctx = c]
  <2>1. t \in {NoMarket} \cup Targets
    BY <1>0 DEF Contexts, TypeOK
  <2>2. c \in ReadContexts
    BY <2>1 DEF ReadContexts, Contexts, TypeOK
  <2>3. eval' = [eval EXCEPT ![p] = e]
    BY <1>0, <1>6 DEF ReadContext
  <2> HIDE DEF c
  <2>4. e \in Evaluations /\ e.ctx = c
    BY <1>0, <2>2 DEF Evaluations, ReadContexts
  <2> HIDE DEF e
  <2>5. EvalOK'
    BY <2>2, <2>3, <2>4, Replaced
  <2> QED
    BY <1>6, <2>5 DEF TypeOK, ReadContext, EvalOK
<1>7. ASSUME NEW p \in Paths, CommitChange(p) PROVE TypeOK'
  <2>1. Proposal(eval[p].ctx) \in Writes /\ Proposal(eval[p].ctx).rung \in BOOLEAN
    BY <1>7, DecidedRead, ApprovedTyped DEF CommitChange, Writes
  <2>2. /\ Queued(Proposal(eval[p].ctx)) /\ lastRung' = Proposal(eval[p].ctx).rung
        /\ paced' = (paced \/ Proposal(eval[p].ctx).rung) /\ market' = Projected(p)
        /\ eval' = After(p, TRUE)
        /\ UNCHANGED <<inputs, sent, request, lapsed, counters>>
    BY <1>7 DEF CommitChange
  <2>3. flight' \in Writes /\ waiting' \in Writes /\ checked' \in {0} \cup Floors
    BY <2>1, <2>2, WriteFacts DEF Queued, TypeOK
  <2>4. EvalOK'
    BY <2>2, AfterTyped
  <2>5. lastRung' \in BOOLEAN /\ paced' \in BOOLEAN
    BY <2>1, <2>2 DEF TypeOK
  <2>6. market' \in {NoMarket} \cup Targets
    BY <2>2, ProjectedTyped
  <2> QED
    BY <2>2, <2>3, <2>4, <2>5, <2>6 DEF TypeOK, EvalOK
<1>8. ASSUME NEW p \in Paths, CommitNothing(p) PROVE TypeOK'
  <2>1. /\ eval' = After(p, ~ Retryable(eval[p].ctx)) /\ market' = Projected(p)
        /\ UNCHANGED <<inputs, queue, request, ladder, lapsed, counters>>
    BY <1>8 DEF CommitNothing
  <2>2. EvalOK' /\ market' \in {NoMarket} \cup Targets
    BY <2>1, AfterTyped, ProjectedTyped
  <2> QED
    BY <2>1, <2>2 DEF TypeOK, EvalOK
<1>9. ASSUME NEW p \in Paths, CommitFails(p) PROVE TypeOK'
  <2>1. CASE MayRetry(eval[p])
    <3> DEFINE c == [Unread EXCEPT !.target = IF p = "snapshot" THEN eval[p].ctx.target ELSE @]
               e == [pc |-> "listed", attempt |-> eval[p].attempt + 1, ctx |-> c]
    <3>1. c \in Contexts
      BY <1>0, IdleTyped DEF Contexts
    <3>2. eval[p].attempt + 1 \in 1..MaxRetries
      <4>1. eval[p].attempt \in 1..MaxRetries /\ eval[p].attempt < MaxRetries
        BY <1>0, <2>1 DEF Evaluations, MayRetry
      <4> QED
        BY <4>1, Numbers
    <3>3. eval' = [eval EXCEPT ![p] = e] /\ market' = market
      BY <1>9, <2>1 DEF CommitFails
    <3> HIDE DEF c
    <3>4. e \in Evaluations /\ e.pc # "decided"
      BY <3>1, <3>2 DEF Evaluations
    <3> HIDE DEF e
    <3>5. EvalOK'
      BY <3>3, <3>4, Replaced
    <3> QED
      BY <1>9, <3>3, <3>5 DEF CommitFails, TypeOK, EvalOK
  <2>2. CASE ~ MayRetry(eval[p])
    <3>1. /\ eval' = After(p, ContextHolds(eval[p].ctx)) /\ market' = Projected(p)
          /\ UNCHANGED <<inputs, queue, request, ladder, lapsed, counters>>
      BY <1>9, <2>2 DEF CommitFails
    <3>2. EvalOK' /\ market' \in {NoMarket} \cup Targets
      BY <3>1, AfterTyped, ProjectedTyped
    <3> QED
      BY <3>1, <3>2 DEF TypeOK, EvalOK
  <2> QED
    BY <2>1, <2>2
<1>10. ASSUME NEW p \in Paths, Die(p) PROVE TypeOK'
  <2>1. EvalOK'
    BY <1>10, IdleTyped, Replaced DEF Die
  <2> QED
    BY <1>10, <2>1 DEF Die, TypeOK, EvalOK
<1>11. ASSUME Claim \/ ClaimBlocked \/ ClaimStopped PROVE TypeOK'
  BY <1>11, WriteFacts DEF Claim, ClaimBlocked, ClaimStopped, TypeOK
<1>12. ASSUME Accept \/ Refuse \/ Fail PROVE TypeOK'
  BY <1>12, WriteFacts DEF Accept, Refuse, Fail, TypeOK
<1>13. ASSUME PacePasses \/ SnapshotAges PROVE TypeOK'
  BY <1>13 DEF PacePasses, SnapshotAges, TypeOK
<1>14. ASSUME UNCHANGED vars PROVE TypeOK'
  BY <1>14 DEF vars, TypeOK
<1> QED
  BY <1>1, <1>2, <1>3, <1>4, <1>5, <1>6, <1>7, <1>8, <1>9, <1>10, <1>11, <1>12, <1>13, <1>14
  DEF Next, Evaluate

(* The variables keep their types.                                         *)
THEOREM TypeCorrect == Spec => []TypeOK
<1>1. Init => TypeOK
  BY InitTyped, FloorRaiseAssumption
<1>2. TypeOK /\ [Next]_vars => TypeOK'
  BY TypeStep, FloorRaiseAssumption
<1> QED
  BY <1>1, <1>2, PTL DEF Spec

(***************************************************************************)
(* A rung never lowers the price.                                          *)
(***************************************************************************)

LEMMA ClimbStep ==
  ASSUME FloorRaiseAssumption, TypeOK, TypeOK', RungsClimb, [Next]_vars
  PROVE  RungsClimb'
<1> USE DEF inputs, queue, ladder, counters
<1>0. floor \in Nat /\ sent \in Nat
  BY Numbers DEF TypeOK
<1>1. ASSUME NEW p \in Paths, CommitChange(p) PROVE RungsClimb'
  <2> DEFINE w == Proposal(eval[p].ctx)
  <2>1. MayStand(w) /\ Queued(w) /\ sent' = sent /\ floor' = floor
    BY <1>1 DEF CommitChange
  <2>2. CASE flight = NoWrite
    <3>1. flight' = w /\ checked' = floor
      BY <2>1, <2>2 DEF Queued
    <3> HIDE DEF w
    <3>2. w.amount >= floor \/ w.amount > sent
      BY <2>1 DEF MayStand, LadderStepAllowed
    <3>3. w.amount \in Nat
      BY <3>1, WriteFacts DEF TypeOK
    <3> QED
      BY <1>0, <2>1, <3>1, <3>2, <3>3 DEF RungsClimb
  <2>3. CASE flight # NoWrite
    BY <2>1, <2>3 DEF Queued, RungsClimb
  <2> QED
    BY <2>2, <2>3
<1>2. ASSUME Claim PROVE RungsClimb'
  <2>1. flight' = waiting /\ checked' = floor /\ sent' = sent
    BY <1>2 DEF Claim
  <2>2. waiting.amount >= floor \/ waiting.amount > sent
    BY <1>2 DEF Claim, MayStand, LadderStepAllowed
  <2>3. waiting.amount \in Nat
    BY WriteFacts DEF TypeOK
  <2> QED
    BY <1>0, <2>1, <2>2, <2>3 DEF RungsClimb
<1>3. ASSUME Accept \/ Refuse \/ Fail PROVE RungsClimb'
  BY <1>3 DEF Accept, Refuse, Fail, RungsClimb
<1>4. ASSUME UNCHANGED <<flight, checked, sent>> PROVE RungsClimb'
  BY <1>4 DEF RungsClimb
<1>5. ASSUME NEW f \in Floors, NEW row \in BOOLEAN, SetFloor(f, row)
      PROVE  UNCHANGED <<flight, checked, sent>>
  BY <1>5 DEF SetFloor
<1>6. ASSUME NEW t \in Targets, Observe(t) PROVE UNCHANGED <<flight, checked, sent>>
  BY <1>6 DEF Observe
<1>7. ASSUME NEW p \in Paths, ReadContext(p) \/ CommitNothing(p) \/ CommitFails(p) \/ Die(p)
      PROVE  UNCHANGED <<flight, checked, sent>>
  BY <1>7 DEF ReadContext, CommitNothing, CommitFails, Die
<1>8. ASSUME StopPrices \/ ReleaseStop \/ BeginPass \/ Consume
      PROVE  UNCHANGED <<flight, checked, sent>>
  BY <1>8 DEF StopPrices, ReleaseStop, BeginPass, Consume
<1>9. ASSUME ClaimBlocked \/ ClaimStopped \/ PacePasses \/ SnapshotAges \/ UNCHANGED vars
      PROVE  UNCHANGED <<flight, checked, sent>>
  BY <1>9 DEF ClaimBlocked, ClaimStopped, PacePasses, SnapshotAges, vars
<1> QED
  BY <1>1, <1>2, <1>3, <1>4, <1>5, <1>6, <1>7, <1>8, <1>9 DEF Next, Evaluate

(* A price sent below the floor it was checked against is above the price  *)
(* that stands, for as long as it is under way.                            *)
THEOREM RungsAlwaysClimb == Spec => []RungsClimb
<1>1. Init => RungsClimb
  BY DEF Init, RungsClimb
<1>2. TypeOK /\ TypeOK' /\ RungsClimb /\ [Next]_vars => RungsClimb'
  BY ClimbStep, FloorRaiseAssumption
<1> QED
  BY <1>1, <1>2, TypeCorrect, PTL DEF Spec

(***************************************************************************)
(* A price below the floor is owed a raise.  When the request is consumed  *)
(* the raise must be owed on other grounds (Cared): the pass has judged    *)
(* the price that stood when it read the context, so it must be known for  *)
(* a pass under way (Decided) and for one that has judged (Judged) what    *)
(* has changed since.  Rungs ties the queue to the last decision.          *)
(***************************************************************************)

Rungs ==
  /\ waiting # NoWrite => waiting.rung = lastRung
  /\ waiting = NoWrite /\ flight # NoWrite => flight.rung = lastRung

Cared == lapsed \/ lastRung \/ flight.amount >= floor \/ waiting # NoWrite

Judged ==
  eval["schedule"].pc = "judged" /\ request = "read" /\ sent < floor => Cared

Decided ==
  eval["schedule"].pc = "decided" /\ request = "read" =>
    /\ eval["schedule"].ctx.floor = floor
    /\ sent # eval["schedule"].ctx.current /\ sent < floor => Cared

OwedInv == Rungs /\ BelowFloorIsOwed /\ Judged /\ Decided

(* A step after which the raise is owed anyway keeps the rest.             *)
LEMMA CaredFor ==
  ASSUME OwedInv, Rungs', sent' < floor' => Cared',
         UNCHANGED <<floor, request>>,
         eval'["schedule"].pc = "decided" => eval'["schedule"] = eval["schedule"]
  PROVE  OwedInv'
<1>1. BelowFloorIsOwed' /\ Judged'
  BY DEF BelowFloorIsOwed, Judged, Cared
<1>2. Decided'
  BY DEF OwedInv, Decided
<1> QED
  BY <1>1, <1>2 DEF OwedInv

(* A step that leaves the queue and the request alone keeps the rest, if   *)
(* the scheduled pass does not come to a judgement.                        *)
LEMMA QuietStep ==
  ASSUME OwedInv,
         UNCHANGED <<floor, sent, flight, waiting, request, lastRung, lapsed>>,
         \/ eval'["schedule"] = eval["schedule"]
         \/ eval'["schedule"].pc \notin {"judged", "decided"}
  PROVE  OwedInv'
<1>1. Cared' = Cared /\ Rungs' = Rungs /\ BelowFloorIsOwed' = BelowFloorIsOwed
  BY DEF Cared, Rungs, BelowFloorIsOwed
<1>2. Judged' /\ Decided'
  BY <1>1 DEF OwedInv, Judged, Decided
<1> QED
  BY <1>1, <1>2 DEF OwedInv

(* A request made anew settles everything but the queue.                   *)
LEMMA FreshRequest ==
  ASSUME request' = "fresh", Rungs'
  PROVE  OwedInv'
  BY DEF OwedInv, BelowFloorIsOwed, Judged, Decided

(* What the other path does leaves the scheduled one alone.                *)
LEMMA AfterSchedule ==
  ASSUME FloorRaiseAssumption, TypeOK, NEW p \in Paths, NEW judged,
         eval' = After(p, judged)
  PROVE  /\ p # "schedule" => eval'["schedule"] = eval["schedule"]
         /\ p = "schedule" => eval'["schedule"].pc # "decided"
         /\ p = "schedule" /\ eval'["schedule"].pc = "judged" => judged
<1> DEFINE e == Ended(p, judged)
<1>1. e.pc # "decided" /\ (e.pc = "judged" => judged)
  BY IdleTyped DEF Ended
<1>2. eval' = [eval EXCEPT ![p] = e]
  BY DEF After, Ended
<1> HIDE DEF e
<1>3. eval'[p] = e /\ \A q \in Paths : q # p => eval'[q] = eval[q]
  BY <1>2 DEF TypeOK
<1> QED
  BY <1>1, <1>3 DEF Paths

LEMMA OwedStep ==
  ASSUME FloorRaiseAssumption, TypeOK, TypeOK', OwedInv, [Next]_vars
  PROVE  OwedInv'
<1> USE DEF inputs, queue, ladder, counters
<1>0. /\ floor \in Nat /\ sent \in Nat /\ flight.amount \in Nat /\ waiting.amount \in Nat
      /\ NoWrite.amount = 0 /\ "schedule" \in Paths
      /\ eval' \in [Paths -> Evaluations]
  BY Numbers, WriteFacts DEF TypeOK, Paths
<1>1. ASSUME NEW f \in Floors, NEW row \in BOOLEAN, SetFloor(f, row) PROVE OwedInv'
  BY <1>1, FreshRequest DEF SetFloor, OwedInv, Rungs
<1>2. ASSUME StopPrices \/ ReleaseStop \/ PacePasses \/ SnapshotAges \/ UNCHANGED vars
      PROVE  OwedInv'
  BY <1>2, QuietStep DEF StopPrices, ReleaseStop, PacePasses, SnapshotAges, vars
<1>3. ASSUME BeginPass PROVE OwedInv'
  <2>1. eval'["schedule"].pc = "listed"
    BY <1>0, <1>3 DEF BeginPass, TypeOK, Evaluations
  <2>2. request' = "none" <=> request = "none"
    BY <1>3 DEF BeginPass
  <2>3. UNCHANGED <<floor, sent, flight, waiting, lastRung, lapsed>>
    BY <1>3 DEF BeginPass
  <2> QED
    BY <2>1, <2>2, <2>3 DEF OwedInv, Rungs, BelowFloorIsOwed, Judged, Decided
<1>4. ASSUME Consume PROVE OwedInv'
  <2>1. eval'["schedule"].pc = "idle" /\ eval["schedule"].pc = "judged"
    BY <1>0, <1>4, IdleTyped DEF Consume, TypeOK
  <2>2. /\ request' = IF request = "read" THEN "none" ELSE request
        /\ UNCHANGED <<floor, sent, flight, waiting, lastRung, lapsed>>
    BY <1>4 DEF Consume
  <2>3. CASE request = "read"
    <3>1. sent < floor => Cared
      BY <2>1, <2>3 DEF OwedInv, Judged
    <3> QED
      BY <2>1, <2>2, <3>1 DEF OwedInv, Rungs, BelowFloorIsOwed, Judged, Decided, Cared
  <2>4. CASE request # "read"
    BY <2>1, <2>2, <2>4, QuietStep
  <2> QED
    BY <2>3, <2>4
<1>5. ASSUME NEW t \in Targets, Observe(t) PROVE OwedInv'
  <2>1. eval'["schedule"] = eval["schedule"]
    BY <1>0, <1>5 DEF Observe, TypeOK
  <2> QED
    BY <1>5, <2>1, QuietStep DEF Observe
<1>6. ASSUME NEW p \in Paths, ReadContext(p) PROVE OwedInv'
  <2>1. UNCHANGED <<floor, sent, flight, waiting, request, lastRung, lapsed>>
    BY <1>6 DEF ReadContext
  <2>2. CASE p # "schedule"
    <3>1. eval'["schedule"] = eval["schedule"]
      BY <1>0, <1>6, <2>2 DEF ReadContext, TypeOK
    <3> QED
      BY <2>1, <3>1, QuietStep
  <2>3. CASE p = "schedule"
    <3>1. /\ eval'["schedule"].pc = "decided"
          /\ eval'["schedule"].ctx.floor = floor /\ eval'["schedule"].ctx.current = sent
      BY <1>0, <1>6, <2>3 DEF ReadContext, TypeOK, Evaluations
    <3> QED
      BY <2>1, <3>1 DEF OwedInv, Rungs, BelowFloorIsOwed, Judged, Decided
  <2> QED
    BY <2>2, <2>3
<1>7. ASSUME NEW p \in Paths, CommitChange(p) PROVE OwedInv'
  <2> DEFINE w == Proposal(eval[p].ctx)
  <2>1. /\ MayStand(w) /\ Queued(w) /\ lastRung' = w.rung /\ eval' = After(p, TRUE)
        /\ UNCHANGED <<floor, sent, request, lapsed>>
    BY <1>7 DEF CommitChange
  <2>2. w.rung \in BOOLEAN /\ w # NoWrite
    BY <1>7, DecidedRead, ApprovedTyped DEF CommitChange
  <2> HIDE DEF w
  <2>3. w.rung \/ w.amount >= floor
    BY <2>1 DEF MayStand, LadderStepAllowed
  <2>4. \/ flight = NoWrite /\ flight' = w /\ waiting' = NoWrite
        \/ waiting' = w /\ flight' = flight
    BY <2>1 DEF Queued
  <2>5. Rungs' /\ Cared'
    BY <2>1, <2>2, <2>3, <2>4 DEF Rungs, Cared
  <2>6. eval'["schedule"].pc = "decided" => eval'["schedule"] = eval["schedule"]
    BY <2>1, AfterSchedule
  <2> QED
    BY <2>1, <2>5, <2>6, CaredFor
<1>8. ASSUME NEW p \in Paths, CommitNothing(p) PROVE OwedInv'
  <2> DEFINE c == eval[p].ctx
  <2>1. /\ eval[p].pc = "decided" /\ ~ Approved(c) /\ eval' = After(p, ~ Retryable(c))
        /\ UNCHANGED <<floor, sent, flight, waiting, request, lastRung, lapsed>>
    BY <1>8 DEF CommitNothing
  <2>2. CASE ~ (p = "schedule" /\ eval'["schedule"].pc = "judged")
    BY <2>1, <2>2, AfterSchedule, QuietStep
  <2>3. CASE p = "schedule" /\ eval'["schedule"].pc = "judged"
    <3>1. ~ Retryable(c)
      BY <2>1, <2>3, AfterSchedule
    <3>2. c \in ReadContexts
      BY <2>1, DecidedRead
    <3>3. ASSUME request = "read", sent < floor PROVE Cared
      <4>1. CASE sent = c.current
        <5>1. c.floor = floor
          BY <2>1, <2>3, <3>3 DEF OwedInv, Decided
        <5>2. BelowFloor(c)
          BY <3>3, <4>1, <5>1 DEF BelowFloor
        <5>3. ~ LadderPaced(c) /\ ~ c.stopped
          BY <3>1, <5>2 DEF Retryable, Unevaluated
        <5> QED
          BY <2>1, <3>2, <5>2, <5>3, RaiseApproved
      <4>2. CASE sent # c.current
        BY <2>1, <2>3, <3>3, <4>2 DEF OwedInv, Decided
      <4> QED
        BY <4>1, <4>2
    <3> QED
      BY <2>1, <2>3, <3>3 DEF OwedInv, Rungs, BelowFloorIsOwed, Judged, Decided, Cared
  <2> QED
    BY <2>2, <2>3
<1>9. ASSUME NEW p \in Paths, CommitFails(p) PROVE OwedInv'
  <2> DEFINE c == eval[p].ctx
  <2>1. /\ eval[p].pc = "decided"
        /\ UNCHANGED <<floor, sent, flight, waiting, request, lastRung, lapsed>>
    BY <1>9 DEF CommitFails
  <2>2. CASE MayRetry(eval[p])
    <3>1. eval'[p].pc = "listed" /\ \A q \in Paths : q # p => eval'[q] = eval[q]
      BY <1>9, <2>2 DEF CommitFails, TypeOK
    <3> QED
      BY <1>0, <2>1, <3>1, QuietStep
  <2>3. CASE ~ MayRetry(eval[p])
    <3>1. eval' = After(p, ContextHolds(c))
      BY <1>9, <2>3 DEF CommitFails
    <3>2. CASE ~ (p = "schedule" /\ eval'["schedule"].pc = "judged")
      BY <2>1, <3>1, <3>2, AfterSchedule, QuietStep
    <3>3. CASE p = "schedule" /\ eval'["schedule"].pc = "judged"
      <4>1. Approved(c) /\ ~ MayStand(Proposal(c))
        BY <1>9, <3>1, <3>3, AfterSchedule DEF CommitFails
      <4>2. c \in ReadContexts
        BY <2>1, DecidedRead
      <4>3. ASSUME request = "read", sent < floor, sent = c.current PROVE FALSE
        <5>1. c.floor = floor
          BY <2>1, <3>3, <4>3 DEF OwedInv, Decided
        <5>2. Proposal(c).rung /\ Proposal(c).amount > c.current
          BY <4>1, <5>1 DEF MayStand, Approved, GatePasses
        <5> QED
          BY <4>1, <4>3, <5>2 DEF MayStand, LadderStepAllowed
      <4>4. ASSUME request = "read", sent < floor PROVE Cared
        BY <2>1, <3>3, <4>3, <4>4 DEF OwedInv, Decided
      <4> QED
        BY <2>1, <3>3, <4>4 DEF OwedInv, Rungs, BelowFloorIsOwed, Judged, Decided, Cared
    <3> QED
      BY <3>2, <3>3
  <2> QED
    BY <2>2, <2>3
<1>10. ASSUME NEW p \in Paths, Die(p) PROVE OwedInv'
  <2>1. eval'[p].pc = "idle" /\ \A q \in Paths : q # p => eval'[q] = eval[q]
    BY <1>10, IdleTyped DEF Die, TypeOK
  <2>2. UNCHANGED <<floor, sent, flight, waiting, request, lastRung, lapsed>>
    BY <1>10 DEF Die
  <2> QED
    BY <1>0, <2>1, <2>2, QuietStep
<1>11. ASSUME Claim PROVE OwedInv'
  <2>1. /\ flight' = waiting /\ waiting' = NoWrite /\ waiting # NoWrite
        /\ waiting.amount >= floor \/ waiting.rung
        /\ UNCHANGED <<floor, sent, request, lastRung, lapsed, eval>>
    BY <1>11 DEF Claim, MayStand, LadderStepAllowed
  <2>2. waiting.rung = lastRung
    BY <2>1 DEF OwedInv, Rungs
  <2>3. Rungs' /\ Cared'
    BY <2>1, <2>2 DEF Rungs, Cared
  <2> QED
    BY <2>1, <2>3, CaredFor
<1>12. ASSUME ClaimBlocked PROVE OwedInv'
  BY <1>12, FreshRequest DEF ClaimBlocked, Rungs
<1>13. ASSUME ClaimStopped PROVE OwedInv'
  <2>1. /\ flight = NoWrite /\ flight' = flight /\ waiting' = NoWrite /\ waiting # NoWrite
        /\ lapsed' = (lapsed \/ ~ waiting.rung)
        /\ UNCHANGED <<floor, sent, request, lastRung, eval>>
    BY <1>13 DEF ClaimStopped
  <2>2. waiting.rung = lastRung
    BY <2>1 DEF OwedInv, Rungs
  <2>3. Rungs' /\ Cared'
    BY <2>1, <2>2 DEF Rungs, Cared
  <2> QED
    BY <2>1, <2>3, CaredFor
<1>14. ASSUME Accept PROVE OwedInv'
  <2>1. /\ flight # NoWrite /\ flight' = NoWrite /\ sent' = flight.amount
        /\ lapsed' = (lapsed \/ (~ flight.rung /\ flight.amount < floor))
        /\ UNCHANGED <<floor, waiting, request, lastRung, eval>>
    BY <1>14 DEF Accept
  <2>2. waiting = NoWrite => flight.rung = lastRung
    BY <2>1 DEF OwedInv, Rungs
  <2>3. Rungs' /\ (sent' < floor' => Cared')
    BY <2>1, <2>2 DEF OwedInv, Rungs, Cared
  <2> QED
    BY <2>1, <2>3, CaredFor
<1>15. ASSUME Refuse PROVE OwedInv'
  <2>1. /\ flight # NoWrite /\ flight' = NoWrite
        /\ lapsed' = (lapsed \/ (~ flight.rung /\ waiting = NoWrite))
        /\ UNCHANGED <<floor, sent, waiting, request, lastRung, eval>>
    BY <1>15 DEF Refuse
  <2>2. waiting = NoWrite => flight.rung = lastRung
    BY <2>1 DEF OwedInv, Rungs
  <2>3. Rungs' /\ Cared'
    BY <2>1, <2>2 DEF OwedInv, Rungs, Cared
  <2> QED
    BY <2>1, <2>3, CaredFor
<1>16. ASSUME Fail PROVE OwedInv'
  <2>1. /\ flight # NoWrite /\ flight' = NoWrite
        /\ waiting' = IF waiting = NoWrite THEN flight ELSE waiting
        /\ UNCHANGED <<floor, sent, request, lastRung, lapsed, eval>>
    BY <1>16 DEF Fail
  <2>2. Rungs' /\ Cared'
    BY <2>1 DEF OwedInv, Rungs, Cared
  <2> QED
    BY <2>1, <2>2, CaredFor
<1> QED
  BY <1>1, <1>2, <1>3, <1>4, <1>5, <1>6, <1>7, <1>8, <1>9, <1>10, <1>11, <1>12, <1>13, <1>14,
     <1>15, <1>16
  DEF Next, Evaluate

(* A price below the floor is owed a raise, unless the raise has lapsed:   *)
(* consuming the request never forgets a price that was not raised.        *)
THEOREM BelowFloorAlwaysOwed == Spec => []BelowFloorIsOwed
<1>1. Init => OwedInv
  <2>1. ASSUME Init PROVE OwedInv
    <3>1. TypeOK /\ sent >= floor /\ eval["schedule"].pc = "idle"
      BY <2>1, InitTyped, IdleTyped, FloorRaiseAssumption DEF Init, Paths
    <3>2. ~ (sent < floor)
      BY <3>1, Numbers, FloorRaiseAssumption DEF TypeOK
    <3> QED
      BY <2>1, <3>1, <3>2 DEF Init, OwedInv, Rungs, BelowFloorIsOwed, Judged, Decided
  <2> QED
    BY <2>1
<1>2. TypeOK /\ TypeOK' /\ OwedInv /\ [Next]_vars => OwedInv'
  BY OwedStep, FloorRaiseAssumption
<1>3. OwedInv => BelowFloorIsOwed
  BY DEF OwedInv
<1> QED
  BY <1>1, <1>2, <1>3, TypeCorrect, PTL DEF Spec
=============================================================================
