---------------------------- MODULE Transitions ----------------------------
(***************************************************************************)
(* The pure rules of the write dispatcher: what happens to a write after   *)
(* the channel answered (planOutcomeTransition) and after its value was    *)
(* read back (planReconciliationTransition).  Instants are abstracted to   *)
(* what the rules tell apart: the age of a write in flight is FRESH, STALE *)
(* (inFlightTimeoutMs has passed) or EXPIRED (confirmationTimeoutMs and    *)
(* unresolvedOutcomeLimitMs have passed, one hour each by default).        *)
(***************************************************************************)
EXTENDS Integers

CONSTANT MaxAttempts    \* policy.maxAttempts

ASSUME MaxAttemptsAssumption == MaxAttempts \in Nat \ {0}

Ages == {"FRESH", "STALE", "EXPIRED"}

(* What a dispatch call reports for one write.  A REJECTED answer is split *)
(* by the class and code the rules look at: REFUSED is a PERMANENT error   *)
(* (or one the channel forbids to retry) with a 4xx status, UNSENDABLE a   *)
(* PERMANENT error without one, such as a malformed batch.                 *)
Refused == {"REFUSED", "UNSENDABLE", "TRANSIENT", "REQUIRES_HUMAN", "EDIT_BUDGET_EXHAUSTED"}
Answers == Refused \cup {"ACCEPTED", "APPLIED", "OUTCOME_UNKNOWN"}

(* What a read back reports: UNREADABLE is a REQUIRES_HUMAN failure about  *)
(* the offer itself (foreign pricing, precondition, response mismatch).    *)
Readings == {"APPLIED", "NOT_APPLIED", "UNKNOWN", "UNREADABLE"}

Plans == {"ACCEPT", "ACCEPT_APPLIED", "RETRY_LATER", "RETRY_NOW", "RECONCILE", "DISCARD",
          "DISCARD_REFUSED", "BUDGET_EXHAUSTED", "BLOCK_SCOPE", "NOT_APPLIED", "UNRESOLVED"}

planFailure(answer, attempts) ==
  CASE answer = "EDIT_BUDGET_EXHAUSTED" -> "BUDGET_EXHAUSTED"
    [] answer = "REQUIRES_HUMAN"        -> "BLOCK_SCOPE"
    [] answer = "REFUSED"               -> "DISCARD_REFUSED"
    [] answer = "UNSENDABLE"            -> "DISCARD"
    [] OTHER -> IF attempts >= MaxAttempts THEN "DISCARD" ELSE "RETRY_LATER"

(* Mutant: an unknown outcome is taken for a success.                      *)
planOutcomeOptimistic(answer, attempts) ==
  CASE answer \in {"APPLIED", "OUTCOME_UNKNOWN"} -> "ACCEPT_APPLIED"
    [] answer = "ACCEPTED" -> "ACCEPT"
    [] OTHER               -> planFailure(answer, attempts)

planOutcomeTransition(answer, attempts) ==
  CASE answer = "APPLIED"         -> "ACCEPT_APPLIED"
    [] answer = "ACCEPTED"        -> "ACCEPT"
    [] answer = "OUTCOME_UNKNOWN" -> "RECONCILE"
    [] OTHER                      -> planFailure(answer, attempts)

planReconciliationTransition(status, reading, attempts, age) ==
  CASE reading = "APPLIED" -> "ACCEPT_APPLIED"
    [] reading = "NOT_APPLIED" /\ status = "DISPATCHED" ->
         IF attempts >= MaxAttempts THEN "DISCARD" ELSE "RETRY_NOW"
    [] reading = "NOT_APPLIED" /\ status # "DISPATCHED" ->
         IF age = "EXPIRED" THEN "NOT_APPLIED" ELSE "RECONCILE"
    [] reading = "UNREADABLE" -> "UNRESOLVED"
    [] OTHER -> IF age = "EXPIRED" THEN "UNRESOLVED" ELSE "RECONCILE"
=============================================================================
