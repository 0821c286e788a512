-------------------------- MODULE AccountSwitches --------------------------
(***************************************************************************)
(* The switches of a channel account and the transactions that run past    *)
(* them: SHADOW and LIVE, the confirmation of quantity writes, the answer  *)
(* about other tools and the synchronisation of the quantity scope, against*)
(* the claims, decisions and recalculations of one price and one quantity  *)
(* scope.                                                                  *)
(*                                                                         *)
(* A session runs one transaction at a time, in the steps between which    *)
(* others get in: every statement reads what is committed when it starts,  *)
(* a row that had to be waited for is looked at again, locks are held until*)
(* the end, and the changes of a transaction appear when it commits.       *)
(***************************************************************************)
EXTENDS Integers, FiniteSets

CONSTANTS
  Owners,       \* sessions of people with the right to turn the switches
  Dispatchers,  \* sessions that claim writes
  Deciders,     \* sessions that commit price decisions
  Stockers,     \* sessions that recalculate quantities
  MaxVersion,   \* bound: writes of a scope, by scope
  MaxActs       \* bound: transactions of owners

Sessions == Owners \cup Dispatchers \cup Deciders \cup Stockers
Scopes == {"PRICE", "QUANTITY"}
Waiting == {"PENDING", "FAILED"}
Statuses == Waiting \cup {"NONE", "DISPATCHED", "ENDED"}
Answers == {"UNKNOWN", "NONE", "STOCK"}
Ids == UNION {{s} \X (1..MaxVersion[s]) : s \in Scopes}

ASSUME SwitchesAssumption ==
  MaxVersion \in [Scopes -> Nat] /\ MaxActs \in Nat

VARIABLES
  account,      \* channel_account: write_mode, quantity_writes_confirmed, other_tools
  enabled,      \* quantity_sync_enabled of the quantity scope
  row,          \* channel_write, committed: the status of each version of a scope
  tx,           \* the transaction of each session
  acts

vars == <<account, enabled, row, tx, acts>>

NoRow == <<"NONE", 0>>
Idle == [op |-> "NONE", at |-> "IDLE", scope |-> "NONE", arg |-> "NONE", row |-> NoRow,
         todo |-> {}, then |-> "IDLE", waited |-> {}, locks |-> {}, changes |-> {}]

Status(id) == row[id[1]][id[2]]
In(S) == {id \in Ids : Status(id) \in S}
Of(s, S) == {id \in In(S) : id[1] = s}
Latest(s) == Cardinality({id \in Ids : id[1] = s /\ Status(id) # "NONE"})
Room(s) == Latest(s) < MaxVersion[s]
Newest(I) == {id \in I : \A other \in I : other[2] <= id[2]}

(***************************************************************************)
(* Locks.                                                                  *)
(***************************************************************************)
Want(p) ==
  LET t == tx[p]
  IN CASE t.at = "ACCOUNT"  -> <<<<"account">>, "X">>
       [] t.at = "ADVISORY" -> <<<<"202">>, IF t.op \in {"CLAIM", "ENABLE"} THEN "S" ELSE "X">>
       [] t.at = "SCOPE"    -> <<<<"scope", t.scope>>, IF t.op = "RECALCULATE" THEN "S" ELSE "X">>
       [] t.at = "SYNC"     -> <<<<"sync", t.scope>>, "X">>
       [] t.at = "ROW"      -> <<<<"row", t.row[1], t.row[2]>>, "X">>

Locker(id) == <<"row", id[1], id[2]>>
HeldBy(q, lock) == \E l \in tx[q].locks : l[1] = lock
Free(p, want) ==
  \A q \in Sessions \ {p} : \A l \in tx[q].locks :
    l[1] = want[1] => l[2] = "S" /\ want[2] = "S"

(* p stands at a lock nobody else holds in its way.                        *)
Reaches(p, at) == tx[p].at = at /\ Free(p, Want(p))
Go(p, t) == tx' = [tx EXCEPT ![p] = t]
Locked(p) == [tx[p] EXCEPT !.locks = @ \cup {Want(p)}]
Ends(ids) == {<<id, "ENDED">> : id \in ids}

(* A statement over several rows locks them one after the other.           *)
Through(p, t, ids, then) ==
  IF ids = {} THEN Go(p, [t EXCEPT !.at = then, !.row = NoRow, !.todo = {}, !.then = "IDLE"])
  ELSE \E id \in ids :
         Go(p, [t EXCEPT !.at = "ROW", !.row = id, !.todo = ids \ {id}, !.then = then])

Unchanged == UNCHANGED <<account, enabled, row, acts>>
Rollback(p) == Go(p, Idle) /\ Unchanged

TypeOK ==
  /\ account \in [mode: {"SHADOW", "LIVE"}, confirmed: BOOLEAN, other: Answers]
  /\ enabled \in BOOLEAN
  /\ \A s \in Scopes : row[s] \in [1..MaxVersion[s] -> Statuses]
  /\ \A p \in Sessions :
       /\ tx[p].todo \cup tx[p].waited \subseteq Ids
       /\ \A c \in tx[p].changes : c[1] \in Ids /\ c[2] \in Statuses \ {"NONE", "FAILED"}
       /\ \A c, d \in tx[p].changes : c[1] = d[1] => c = d
       /\ \A q \in Sessions \ {p} : \A l \in tx[p].locks, k \in tx[q].locks :
            l[1] = k[1] => l[2] = "S" /\ k[2] = "S"
  /\ acts \in 0..MaxActs

(* An account whose owner has turned its switches some way or other.       *)
Init ==
  /\ account \in [mode: {"SHADOW", "LIVE"}, confirmed: BOOLEAN, other: Answers]
  /\ account.confirmed => account.other = "NONE"
  /\ enabled \in {FALSE, account.confirmed}
  /\ row = [s \in Scopes |-> [v \in 1..MaxVersion[s] |-> "NONE"]]
  /\ tx = [p \in Sessions |-> Idle]
  /\ acts = 0

Begin(p, op, at, scope, arg) ==
  /\ tx[p] = Idle
  /\ Go(p, [Idle EXCEPT !.op = op, !.at = at, !.scope = scope, !.arg = arg])
  /\ UNCHANGED <<account, enabled, row>>

Act(p, op, at, scope, arg) ==
  acts < MaxActs /\ acts' = acts + 1 /\ Begin(p, op, at, scope, arg)

(***************************************************************************)
(* The owner's transactions.                                               *)
(***************************************************************************)
(* A switch starts from the mode the account has.                          *)
BeginSwitch(p) ==
  /\ acts < MaxActs /\ acts' = acts + 1
  /\ tx[p] = Idle
  /\ Go(p, [Idle EXCEPT !.op = "SWITCH", !.at = "ACCOUNT", !.waited = In({"PENDING"}),
                        !.arg = IF account.mode = "LIVE" THEN "SHADOW" ELSE "LIVE"])
  /\ UNCHANGED <<account, enabled, row>>

SwitchMode(p) ==
  /\ tx[p].op = "SWITCH" /\ Reaches(p, "ACCOUNT")
  /\ Go(p, [Locked(p) EXCEPT !.at = IF tx[p].arg = "SHADOW" THEN "HOLD" ELSE "COMMIT"])
  /\ Unchanged

(* Mutant: a row that a claim holds is passed over, as a revocation does.  *)
HoldFree(p) ==
  /\ tx[p].at = "HOLD"
  /\ Through(p, tx[p], {id \in In({"PENDING"}) : Free(p, <<Locker(id), "X">>)}, "DROP")
  /\ Unchanged

(* What waits and never left is held by the shadow; what the channel has   *)
(* refused is discarded.                                                   *)
Hold(p) ==
  /\ tx[p].at = "HOLD"
  /\ Through(p, tx[p], In({"PENDING"}), "DROP")
  /\ Unchanged

Drop(p) ==
  /\ tx[p].at = "DROP"
  /\ Through(p, tx[p], In({"FAILED"}), "COMMIT")
  /\ Unchanged

(* Another tool that keeps the stock and a confirmation make two writers.  *)
Answer(p) ==
  /\ tx[p].op = "ANSWER" /\ Reaches(p, "ACCOUNT")
  /\ IF tx[p].arg = "STOCK" /\ account.confirmed THEN Rollback(p)
     ELSE Go(p, [Locked(p) EXCEPT !.at = "COMMIT"]) /\ Unchanged

(* The guard of the journal: the account's lock, then the reading.         *)
ConfirmationGuard(p) ==
  /\ tx[p].op \in {"CONFIRM", "REVOKE"} /\ Reaches(p, "ADVISORY")
  /\ IF \/ tx[p].op = "CONFIRM" /\ ~account.confirmed /\ account.other # "UNKNOWN"
        \/ tx[p].op = "REVOKE" /\ account.confirmed
     THEN Go(p, [Locked(p) EXCEPT !.at = "ACCOUNT", !.arg = account.other]) /\ Unchanged
     ELSE Rollback(p)

(* Mutant: the other tool is what the guard of the journal has read.       *)
ConfirmAsRead(p) ==
  /\ tx[p].op = "CONFIRM" /\ Reaches(p, "ACCOUNT")
  /\ IF tx[p].arg = "STOCK" THEN Rollback(p)
     ELSE Go(p, [Locked(p) EXCEPT !.at = "COMMIT"]) /\ Unchanged

(* Two writers are refused on the row as it is when it is changed.         *)
Confirm(p) ==
  /\ tx[p].op = "CONFIRM" /\ Reaches(p, "ACCOUNT")
  /\ IF account.other = "STOCK" THEN Rollback(p)
     ELSE Go(p, [Locked(p) EXCEPT !.at = "COMMIT"]) /\ Unchanged

Revoke(p) ==
  /\ tx[p].op = "REVOKE" /\ Reaches(p, "ACCOUNT")
  /\ Go(p, [Locked(p) EXCEPT !.at = IF enabled THEN "SCOPE" ELSE "DISCARD"])
  /\ Unchanged

DisableSync(p) ==
  /\ tx[p].op = "REVOKE" /\ Reaches(p, "SCOPE")
  /\ Go(p, [Locked(p) EXCEPT !.at = "DISCARD"])
  /\ Unchanged

(* Waiting quantities are discarded, except the rows somebody has locked.  *)
Discard(p) ==
  /\ tx[p].at = "DISCARD"
  /\ LET ids == {id \in Of("QUANTITY", Waiting) : Free(p, <<Locker(id), "X">>)}
     IN Go(p, [tx[p] EXCEPT !.at = "COMMIT", !.changes = Ends(ids),
                            !.locks = @ \cup {<<Locker(id), "X">> : id \in ids}])
  /\ Unchanged

EnableScope(p) ==
  /\ tx[p].op = "ENABLE" /\ Reaches(p, "SCOPE")
  /\ IF enabled THEN Rollback(p)
     ELSE Go(p, [Locked(p) EXCEPT !.at = "ADVISORY"]) /\ Unchanged

EnableGuard(p) ==
  /\ tx[p].op = "ENABLE" /\ Reaches(p, "ADVISORY")
  /\ IF account.confirmed THEN Go(p, [Locked(p) EXCEPT !.at = "COMMIT"]) /\ Unchanged
     ELSE Rollback(p)

OwnerActs(p) ==
  \/ BeginSwitch(p)
  \/ \E a \in Answers \ {"UNKNOWN"} : Act(p, "ANSWER", "ACCOUNT", "NONE", a)
  \/ \E op \in {"CONFIRM", "REVOKE"} : Act(p, op, "ADVISORY", "QUANTITY", "NONE")
  \/ ~enabled /\ Act(p, "ENABLE", "SCOPE", "QUANTITY", "NONE")
  \/ SwitchMode(p) \/ Hold(p) \/ Drop(p)
  \/ Answer(p)
  \/ ConfirmationGuard(p) \/ Confirm(p) \/ Revoke(p) \/ DisableSync(p) \/ Discard(p)
  \/ EnableScope(p) \/ EnableGuard(p)

(***************************************************************************)
(* claimNext: the scope's state, the newest waiting row, the guards of its *)
(* dispatch.                                                               *)
(***************************************************************************)
ClaimSync(p) ==
  /\ tx[p].op = "CLAIM" /\ Reaches(p, "SYNC")
  /\ Go(p, [Locked(p) EXCEPT !.at = "PICK"])
  /\ Unchanged

(* What an earlier round of the same claim has discarded is not seen.      *)
Candidates(p) == Of(tx[p].scope, Waiting) \ {c[1] : c \in tx[p].changes}

Pick(p) ==
  /\ tx[p].at = "PICK"
  /\ LET t == tx[p]
     IN IF Of(t.scope, {"DISPATCHED"}) # {} \/ Candidates(p) = {}
        THEN Go(p, [t EXCEPT !.at = "COMMIT"])
        ELSE \E id \in Newest(Candidates(p)) :
               Go(p, [t EXCEPT !.at = "ROW", !.row = id,
                               !.then = IF id[2] < Latest(t.scope) THEN "PICK" ELSE "GUARD"])
  /\ Unchanged

(* Mutant: the row is taken without waiting for whoever has locked it.     *)
ClaimRowAtOnce(p) ==
  /\ tx[p].op = "CLAIM" /\ tx[p].then = "GUARD" /\ tx[p].at = "ROW"
  /\ IF Status(tx[p].row) \in Waiting
     THEN Go(p, [Locked(p) EXCEPT !.at = "GUARD"]) /\ Unchanged
     ELSE Rollback(p)

(* A row that has ended meanwhile is not there any more: the claim fails.  *)
ClaimRow(p) ==
  /\ tx[p].op = "CLAIM" /\ tx[p].then = "GUARD" /\ Reaches(p, "ROW")
  /\ IF Status(tx[p].row) \in Waiting
     THEN Go(p, [Locked(p) EXCEPT !.at = "GUARD"]) /\ Unchanged
     ELSE Rollback(p)

(* A refusal undoes the claim and its locks, and ends the row.             *)
Refused(p) ==
  Go(p, [tx[p] EXCEPT !.at = "ROW", !.then = "COMMIT",
                      !.locks = {l \in @ : l[1] = <<"sync", tx[p].scope>>}])

Dispatch(t, id) == [t EXCEPT !.at = "COMMIT",
                             !.changes = {c \in @ : c[1] # id} \cup {<<id, "DISPATCHED">>}]

ModeGuard(p) ==
  /\ tx[p].op = "CLAIM" /\ tx[p].at = "GUARD"
  /\ IF account.mode = "SHADOW" THEN Refused(p)
     ELSE IF tx[p].scope = "QUANTITY" THEN Go(p, [tx[p] EXCEPT !.at = "ADVISORY"])
     ELSE Go(p, Dispatch(tx[p], tx[p].row))
  /\ Unchanged

(* Mutant: the confirmation is read without waiting for a revocation.      *)
QuantityUnlocked(p) ==
  /\ tx[p].op = "CLAIM" /\ tx[p].at = "ADVISORY"
  /\ IF account.confirmed THEN Go(p, Dispatch(tx[p], tx[p].row)) ELSE Refused(p)
  /\ Unchanged

(* A quantity leaves only while its owner's confirmation stands.           *)
QuantityGuard(p) ==
  /\ tx[p].op = "CLAIM" /\ Reaches(p, "ADVISORY")
  /\ IF account.confirmed THEN Go(p, Dispatch(Locked(p), tx[p].row)) ELSE Refused(p)
  /\ Unchanged

(***************************************************************************)
(* A new version: a decision or a recalculation.                           *)
(***************************************************************************)
(* The scope is locked, the mode read; in SHADOW the write is born ended.  *)
InsertScope(p) ==
  /\ tx[p].op \in {"DECIDE", "RECALCULATE"} /\ Reaches(p, "SCOPE")
  /\ IF tx[p].op = "RECALCULATE" /\ ~enabled THEN Rollback(p)
     ELSE /\ Go(p, [Locked(p) EXCEPT !.at = "SYNC", !.arg = account.mode])
          /\ Unchanged

(* The version is taken and what waits is superseded.                      *)
InsertRow(p) ==
  /\ tx[p].op \in {"DECIDE", "RECALCULATE"} /\ Reaches(p, "SYNC") /\ Room(tx[p].scope)
  /\ LET t == tx[p]
         new == <<t.scope, Latest(t.scope) + 1>>
         live == t.arg = "LIVE"
     IN Through(p, [Locked(p) EXCEPT !.changes = {<<new, IF live THEN "PENDING" ELSE "ENDED">>}],
                Of(t.scope, Waiting),
                IF t.op = "DECIDE" /\ live THEN "GUARD" ELSE "COMMIT")
  /\ Unchanged

(* A decision claims its own write at once, if the slot is free.  A refusal*)
(* undoes the decision.                                                    *)
DecideGuard(p) ==
  /\ tx[p].op = "DECIDE" /\ tx[p].at = "GUARD"
  /\ IF Of("PRICE", {"DISPATCHED"}) # {} THEN Go(p, [tx[p] EXCEPT !.at = "COMMIT"]) /\ Unchanged
     ELSE IF account.mode = "SHADOW" THEN Rollback(p)
     ELSE Go(p, Dispatch(tx[p], <<"PRICE", Latest("PRICE") + 1>>)) /\ Unchanged

(***************************************************************************)
(* Common steps.                                                           *)
(***************************************************************************)
(* The row is ended if it still is what the statement looked for.          *)
Sought(t) ==
  CASE t.op = "SWITCH" /\ t.then = "DROP" -> {"PENDING"}
    [] t.op = "SWITCH" /\ t.then # "DROP" -> {"FAILED"}
    [] OTHER -> Waiting

EndRow(p) ==
  /\ tx[p].then # "GUARD" \/ tx[p].op # "CLAIM"
  /\ Reaches(p, "ROW")
  /\ LET t == tx[p]
     IN IF Status(t.row) \in Sought(t)
        THEN Through(p, [Locked(p) EXCEPT !.changes = @ \cup Ends({t.row})], t.todo, t.then)
        ELSE Through(p, t, t.todo, t.then)
  /\ Unchanged

Commit(p) ==
  /\ tx[p].at = "COMMIT"
  /\ LET t == tx[p]
     IN /\ account' = CASE t.op = "SWITCH"  -> [account EXCEPT !.mode = t.arg]
                        [] t.op = "ANSWER"  -> [account EXCEPT !.other = t.arg]
                        [] t.op = "CONFIRM" -> [account EXCEPT !.confirmed = TRUE]
                        [] t.op = "REVOKE"  -> [account EXCEPT !.confirmed = FALSE]
                        [] OTHER -> account
        /\ enabled' = CASE t.op = "ENABLE" -> TRUE [] t.op = "REVOKE" -> FALSE [] OTHER -> enabled
        /\ row' = [s \in Scopes |-> [v \in 1..MaxVersion[s] |->
                     IF \E c \in t.changes : c[1] = <<s, v>>
                     THEN (CHOOSE c \in t.changes : c[1] = <<s, v>>)[2] ELSE row[s][v]]]
  /\ Go(p, Idle)
  /\ UNCHANGED acts

(* A connection is lost, a statement times out, a deadlock takes a victim. *)
Dies(p) == tx[p] # Idle /\ Rollback(p)

(* recordOutcome: the channel has taken the write, or refused it for now.  *)
Settle(id, status) ==
  /\ Status(id) = "DISPATCHED"
  /\ \A q \in Sessions : ~HeldBy(q, Locker(id)) /\ ~HeldBy(q, <<"sync", id[1]>>)
  /\ row' = [row EXCEPT ![id[1]][id[2]] = status]
  /\ UNCHANGED <<account, enabled, tx, acts>>

Next ==
  \/ \E p \in Owners : OwnerActs(p)
  \/ \E p \in Dispatchers :
       \/ \E s \in Scopes : Begin(p, "CLAIM", "SYNC", s, "NONE") /\ UNCHANGED acts
       \/ ClaimSync(p) \/ Pick(p) \/ ClaimRow(p) \/ ModeGuard(p) \/ QuantityGuard(p)
  \/ \E p \in Deciders :
       \/ Room("PRICE") /\ Begin(p, "DECIDE", "SCOPE", "PRICE", "NONE") /\ UNCHANGED acts
       \/ DecideGuard(p)
  \/ \E p \in Stockers :
       enabled /\ Room("QUANTITY") /\ Begin(p, "RECALCULATE", "SCOPE", "QUANTITY", "NONE")
       /\ UNCHANGED acts
  \/ \E p \in Deciders \cup Stockers : InsertScope(p) \/ InsertRow(p)
  \/ \E p \in Sessions : EndRow(p) \/ Commit(p) \/ Dies(p)
  \/ \E id \in Ids, status \in {"FAILED", "ENDED"} : Settle(id, status)

Spec == Init /\ [][Next]_vars

(***************************************************************************)
(* Properties.                                                             *)
(***************************************************************************)
Leaves(s) == \E v \in 1..MaxVersion[s] : row[s][v] # "DISPATCHED" /\ row'[s][v] = "DISPATCHED"

(* 0160, 0162, R-202: no quantity leaves once the owner's revocation is    *)
(* in force, whichever claim was under way.                                *)
NoQuantityUnconfirmed == [][Leaves("QUANTITY") => account.confirmed]_vars

(* R-202: the engine never writes quantities without the owner's word, and *)
(* never beside another tool that keeps the stock: a synchronised scope    *)
(* has a confirmation, a confirmation has no second writer.                *)
SwitchesAgree ==
  /\ enabled => account.confirmed
  /\ account.confirmed => account.other = "NONE"

(* 0128: going into the shadow holds everything that has not left: no      *)
(* write that waited when the switch began waits for its first dispatch    *)
(* when it has committed, though a claim held it meanwhile.                *)
ShadowHoldsTheQueue ==
  [][\A p \in Owners :
       tx[p].op = "SWITCH" /\ tx[p].at = "COMMIT" /\ tx[p].arg = "SHADOW" /\ account' # account
         => \A id \in tx[p].waited : row'[id[1]][id[2]] # "PENDING"]_vars

(* 0128, 0160, 0162, 0164: to whoever does not see the locks, each         *)
(* transaction happens at its commit, under conditions that hold then.     *)
Atomic == INSTANCE AtomicSwitches
SwitchesAreAtomic == Atomic!Spec
=============================================================================
