----------------------- MODULE AccountSwitches_proofs -----------------------
(***************************************************************************)
(* Proofs about AccountSwitches, for any number of owners, dispatchers,    *)
(* decision paths, recalculations and writes, whichever transaction waits  *)
(* for which, is rolled back or dies.                                      *)
(***************************************************************************)
EXTENDS AccountSwitches, FiniteSetTheorems, TLAPS

Confirming == <<<<"202">>, "X">>  \* the lock of the confirmations of an account
Sending == <<<<"202">>, "S">>     \* and the share of it a sender takes
AccountRow == <<<<"account">>, "X">>

(***************************************************************************)
(* Where a transaction can stand.                                          *)
(***************************************************************************)
Stands(t) ==
  \/ t.op = "NONE" /\ t.at = "IDLE"
  \/ t.op = "SWITCH" /\ t.at \in {"ACCOUNT", "HOLD", "DROP", "ROW", "COMMIT"}
                     /\ (t.at = "ROW" => t.then \in {"DROP", "COMMIT"})
  \/ t.op = "ANSWER" /\ t.at \in {"ACCOUNT", "COMMIT"} /\ t.arg \in {"NONE", "STOCK"}
  \/ t.op = "CONFIRM" /\ t.at \in {"ADVISORY", "ACCOUNT", "COMMIT"}
  \/ t.op = "REVOKE" /\ t.at \in {"ADVISORY", "ACCOUNT", "SCOPE", "DISCARD", "COMMIT"}
  \/ t.op = "ENABLE" /\ t.at \in {"SCOPE", "ADVISORY", "COMMIT"}
  \/ t.op = "CLAIM" /\ t.at \in {"SYNC", "PICK", "ROW", "GUARD", "ADVISORY", "COMMIT"}
                    /\ (t.at = "ROW" => t.then \in {"PICK", "GUARD", "COMMIT"})
                    /\ (t.at \in {"ROW", "GUARD", "ADVISORY"} => t.row[1] = t.scope)
                    /\ t.todo = {}
  \/ t.op \in {"DECIDE", "RECALCULATE"}
                    /\ t.at \in {"SCOPE", "SYNC", "ROW", "GUARD", "COMMIT"}
                    /\ (t.at = "ROW" => t.then \in {"GUARD", "COMMIT"})

(***************************************************************************)
(* What its locks protect: the reading it has made of the account a is     *)
(* still true, and a quantity it is about to send is confirmed.            *)
(***************************************************************************)
Protected(t, a) ==
  /\ t.op \in {"CONFIRM", "REVOKE"} /\ t.at # "ADVISORY" => Confirming \in t.locks
  /\ t.op = "CONFIRM" /\ t.at # "ADVISORY" => a.other # "UNKNOWN"
  /\ t.op \in {"CONFIRM", "ANSWER"} /\ t.at = "COMMIT" => AccountRow \in t.locks
  /\ t.op = "CONFIRM" /\ t.at = "COMMIT" => a.other = "NONE"
  /\ t.op = "ANSWER" /\ t.at = "COMMIT" /\ t.arg = "STOCK" => ~a.confirmed
  /\ t.op = "ENABLE" /\ t.at = "COMMIT" => Sending \in t.locks /\ a.confirmed
  /\ \A c \in t.changes : c[1][1] = "QUANTITY" /\ c[2] = "DISPATCHED" =>
        t.op = "CLAIM" /\ t.at = "COMMIT" /\ Sending \in t.locks /\ a.confirmed

Fields == {"op", "at", "scope", "arg", "row", "todo", "then", "waited", "locks", "changes"}
Shaped(t) == t = [f \in Fields |-> t[f]]

Good(t, a) == Shaped(t) /\ Stands(t) /\ Protected(t, a)

(* No two sessions hold a lock in modes that exclude each other.           *)
Exclusive ==
  \A p \in Sessions : \A q \in Sessions \ {p} : \A l \in tx[p].locks, k \in tx[q].locks :
    l[1] = k[1] => l[2] = "S" /\ k[2] = "S"

Shapes ==
  /\ account = [mode |-> account.mode, confirmed |-> account.confirmed, other |-> account.other]
  /\ account.confirmed \in BOOLEAN /\ account.other \in Answers /\ enabled \in BOOLEAN
  /\ tx = [p \in Sessions |-> tx[p]]

SwitchInv ==
  /\ Shapes
  /\ Exclusive
  /\ \A p \in Sessions : Good(tx[p], account)
  /\ SwitchesAgree

(***************************************************************************)
(* A step of one session that leaves the account alone.                    *)
(***************************************************************************)
Leads(p, t) ==
  /\ Good(t, account)
  /\ \A l \in t.locks : l \in tx[p].locks \/ Free(p, l)

LEMMA IdleLeads ==
  ASSUME NEW p \in Sessions
  PROVE  Leads(p, Idle)
  BY DEF Leads, Good, Shaped, Fields, Stands, Protected, Idle

LEMMA GoKeeps ==
  ASSUME SwitchInv, NEW p \in Sessions, NEW t, Leads(p, t), Go(p, t),
         UNCHANGED <<account, enabled>>
  PROVE  SwitchInv'
<1>1. Shapes' /\ SwitchesAgree'
  BY DEF SwitchInv, Shapes, SwitchesAgree, Go
<1>2. \A q \in Sessions : tx'[q] = IF q = p THEN t ELSE tx[q]
  BY DEF SwitchInv, Shapes, Go
<1>3. \A q \in Sessions : Good(tx'[q], account')
  BY <1>2 DEF SwitchInv, Leads
<1>4. Exclusive'
  <2> SUFFICES ASSUME NEW q \in Sessions, NEW r \in Sessions \ {q},
                      NEW l \in tx'[q].locks, NEW k \in tx'[r].locks, l[1] = k[1]
               PROVE  l[2] = "S" /\ k[2] = "S"
    BY DEF Exclusive
  <2>1. CASE q = p
    <3>1. l \in t.locks /\ k \in tx[r].locks
      BY <1>2, <2>1
    <3>2. CASE l \in tx[p].locks
      BY <3>1, <3>2, <2>1 DEF SwitchInv, Exclusive
    <3>3. CASE Free(p, l)
      BY <3>1, <3>3, <2>1 DEF Free
    <3> QED
      BY <3>1, <3>2, <3>3 DEF Leads
  <2>2. CASE r = p
    <3>1. k \in t.locks /\ l \in tx[q].locks
      BY <1>2, <2>2
    <3>2. CASE k \in tx[p].locks
      BY <3>1, <3>2, <2>2 DEF SwitchInv, Exclusive
    <3>3. CASE Free(p, k)
      BY <3>1, <3>3, <2>2 DEF Free
    <3> QED
      BY <3>1, <3>2, <3>3 DEF Leads
  <2>3. CASE q # p /\ r # p
    BY <1>2, <2>3 DEF SwitchInv, Exclusive
  <2> QED
    BY <2>1, <2>2, <2>3
<1> QED
  BY <1>1, <1>3, <1>4 DEF SwitchInv

LEMMA RollbackKeeps ==
  ASSUME SwitchInv, NEW p \in Sessions, Rollback(p)
  PROVE  SwitchInv'
  BY IdleLeads, GoKeeps DEF Rollback, Unchanged

(* Where a statement over rows may go from a transaction like t.           *)
May(t, at, id, todo, then) ==
  \/ /\ t.op = "SWITCH" /\ at \in {"DROP", "COMMIT", "ROW"}
     /\ at = "ROW" => then \in {"DROP", "COMMIT"}
  \/ /\ t.op = "CLAIM" /\ at \in {"PICK", "COMMIT", "ROW"} /\ todo = {}
     /\ at = "ROW" => then \in {"PICK", "GUARD", "COMMIT"} /\ id[1] = t.scope
  \/ /\ t.op \in {"DECIDE", "RECALCULATE"} /\ at \in {"GUARD", "COMMIT", "ROW"}
     /\ at = "ROW" => then \in {"GUARD", "COMMIT"}

Unsent(t) == \A c \in t.changes : ~(c[1][1] = "QUANTITY" /\ c[2] = "DISPATCHED")

LEMMA MovedLeads ==
  ASSUME NEW p \in Sessions, NEW t, Shaped(t), Unsent(t), NEW at, NEW id, NEW todo, NEW then,
         \A l \in t.locks : l \in tx[p].locks \/ Free(p, l), May(t, at, id, todo, then)
  PROVE  Leads(p, [t EXCEPT !.at = at, !.row = id, !.todo = todo, !.then = then])
<1> DEFINE u == [t EXCEPT !.at = at, !.row = id, !.todo = todo, !.then = then]
<1>1. /\ Shaped(u)
      /\ u.op = t.op /\ u.scope = t.scope
      /\ u.locks = t.locks /\ u.changes = t.changes
      /\ u.at = at /\ u.row = id /\ u.todo = todo /\ u.then = then
  BY DEF Shaped, Fields
<1> HIDE DEF u
<1>2. Stands(u)
  BY <1>1 DEF Stands, May
<1>3. Protected(u, account)
  BY <1>1 DEF Protected, May, Unsent
<1>4. Leads(p, u)
  BY <1>1, <1>2, <1>3 DEF Leads, Good
<1> QED
  BY <1>4 DEF u

(* A statement over several rows.                                          *)
LEMMA ThroughKeeps ==
  ASSUME SwitchInv, NEW p \in Sessions, NEW t, NEW ids, NEW then,
         Through(p, t, ids, then), UNCHANGED <<account, enabled>>,
         Shaped(t), Unsent(t), \A l \in t.locks : l \in tx[p].locks \/ Free(p, l),
         May(t, then, NoRow, {}, "IDLE"),
         \A id \in ids : May(t, "ROW", id, ids \ {id}, then)
  PROVE  SwitchInv'
<1>1. CASE ids = {}
  <2> DEFINE u == [t EXCEPT !.at = then, !.row = NoRow, !.todo = {}, !.then = "IDLE"]
  <2>1. Leads(p, u) /\ Go(p, u)
    BY <1>1, MovedLeads DEF Through
  <2> QED
    BY <2>1, GoKeeps
<1>2. CASE ids # {}
  <2>1. PICK id \in ids :
          Go(p, [t EXCEPT !.at = "ROW", !.row = id, !.todo = ids \ {id}, !.then = then])
    BY <1>2 DEF Through
  <2>2. Leads(p, [t EXCEPT !.at = "ROW", !.row = id, !.todo = ids \ {id}, !.then = then])
    BY <2>1, MovedLeads
  <2> QED
    BY <2>1, <2>2, GoKeeps
<1> QED
  BY <1>1, <1>2

(* A lock that is reached excludes nobody.                                 *)
LEMMA LockedLocks ==
  ASSUME NEW p \in Sessions, NEW at, Reaches(p, at), Shaped(tx[p])
  PROVE  /\ \A l \in Locked(p).locks : l \in tx[p].locks \/ Free(p, l)
         /\ tx[p].locks \subseteq Locked(p).locks
         /\ Want(p) \in Locked(p).locks
         /\ Locked(p) = [tx[p] EXCEPT !.locks = Locked(p).locks]
         /\ tx[p].at = at
  BY DEF Reaches, Locked, Shaped, Fields

(* A transaction that has its lock and goes on differs in nothing else.    *)
Moved(p, t, at) ==
  /\ Shaped(t) /\ t.at = at
  /\ t.op = tx[p].op /\ t.arg = tx[p].arg /\ t.scope = tx[p].scope /\ t.row = tx[p].row
  /\ t.todo = tx[p].todo /\ t.changes = tx[p].changes
  /\ tx[p].locks \subseteq t.locks /\ Want(p) \in t.locks
  /\ \A l \in t.locks : l \in tx[p].locks \/ Free(p, l)

LEMMA LockedMoves ==
  ASSUME NEW p \in Sessions, NEW from, Reaches(p, from), Good(tx[p], account), NEW to
  PROVE  tx[p].at = from /\ Moved(p, [Locked(p) EXCEPT !.at = to], to)
<1> DEFINE t == [Locked(p) EXCEPT !.at = to]
<1>0. Shaped(tx[p])
  BY DEF Good
<1>1. /\ \A l \in Locked(p).locks : l \in tx[p].locks \/ Free(p, l)
      /\ tx[p].locks \subseteq Locked(p).locks /\ Want(p) \in Locked(p).locks
      /\ Locked(p) = [tx[p] EXCEPT !.locks = Locked(p).locks] /\ tx[p].at = from
  BY <1>0, LockedLocks
<1> DEFINE locks == Locked(p).locks
<1>2. t = [tx[p] EXCEPT !.at = to, !.locks = locks]
  BY <1>0, <1>1 DEF Shaped, Fields
<1> HIDE DEF locks, t
<1>3. /\ Shaped(t) /\ t.at = to /\ t.locks = locks
      /\ t.op = tx[p].op /\ t.arg = tx[p].arg /\ t.scope = tx[p].scope /\ t.row = tx[p].row
      /\ t.todo = tx[p].todo /\ t.changes = tx[p].changes
  BY <1>0, <1>2 DEF Shaped, Fields
<1> QED BY <1>1, <1>3 DEF locks, t, Moved

(***************************************************************************)
(* The owner's transactions.                                               *)
(***************************************************************************)
LEMMA BeginKeeps ==
  ASSUME SwitchInv, NEW p \in Sessions, NEW op, NEW at, NEW scope, NEW arg,
         Begin(p, op, at, scope, arg),
         Stands([Idle EXCEPT !.op = op, !.at = at, !.scope = scope, !.arg = arg]),
         op \in {"CONFIRM", "REVOKE"} => at = "ADVISORY",
         at # "COMMIT"
  PROVE  SwitchInv'
<1> DEFINE t == [Idle EXCEPT !.op = op, !.at = at, !.scope = scope, !.arg = arg]
<1>1. Shaped(t) /\ t.op = op /\ t.at = at /\ t.locks = {} /\ t.changes = {}
  BY DEF Idle, Shaped, Fields
<1>2. Leads(p, t)
  BY <1>1 DEF Leads, Good, Protected
<1> QED
  BY <1>2, GoKeeps DEF Begin

LEMMA BeginSwitchKeeps ==
  ASSUME SwitchInv, NEW p \in Sessions, BeginSwitch(p)
  PROVE  SwitchInv'
<1> DEFINE t == [Idle EXCEPT !.op = "SWITCH", !.at = "ACCOUNT", !.waited = In({"PENDING"}),
                             !.arg = IF account.mode = "LIVE" THEN "SHADOW" ELSE "LIVE"]
<1>1. Leads(p, t)
  BY DEF Leads, Good, Stands, Protected, Idle, Shaped, Fields
<1> QED
  BY <1>1, GoKeeps DEF BeginSwitch

LEMMA SwitchModeKeeps ==
  ASSUME SwitchInv, NEW p \in Sessions, SwitchMode(p) \/ Hold(p) \/ Drop(p)
  PROVE  SwitchInv'
<1> USE DEF Unchanged
<1>0. Good(tx[p], account)
  BY DEF SwitchInv
<1>1. CASE SwitchMode(p)
  <2> DEFINE t == [Locked(p) EXCEPT !.at = IF tx[p].arg = "SHADOW" THEN "HOLD" ELSE "COMMIT"]
  <2>1. Leads(p, t)
    <3>0. tx[p].op = "SWITCH" /\ Reaches(p, "ACCOUNT")
      BY <1>1 DEF SwitchMode
    <3> DEFINE at == IF tx[p].arg = "SHADOW" THEN "HOLD" ELSE "COMMIT"
    <3>a. at \in {"HOLD", "COMMIT"}
      OBVIOUS
    <3> HIDE DEF at
    <3>1. tx[p].at = "ACCOUNT" /\ Moved(p, t, at)
      BY <1>0, <3>0, LockedMoves DEF at
    <3> HIDE DEF t
    <3>2. Stands(t)
      BY <1>0, <3>0, <3>1, <3>a DEF Moved, Good, Stands
    <3>3. Protected(t, account)
      BY <1>0, <3>0, <3>1, <3>a DEF Moved, Good, Protected
    <3> QED BY <3>1, <3>2, <3>3 DEF Moved, Leads, Good
  <2> QED
    BY <1>1, <2>1, GoKeeps DEF SwitchMode
<1>2. CASE Hold(p)
  <2>1. tx[p].op = "SWITCH"
    BY <1>0, <1>2 DEF Hold, Good, Stands
  <2>2. Shaped(tx[p]) /\ Unsent(tx[p])
    BY <1>0, <2>1 DEF Good, Protected, Unsent
  <2> QED
    BY <1>2, <2>1, <2>2, ThroughKeeps DEF Hold, May
<1>3. CASE Drop(p)
  <2>1. tx[p].op = "SWITCH"
    BY <1>0, <1>3 DEF Drop, Good, Stands
  <2>2. Shaped(tx[p]) /\ Unsent(tx[p])
    BY <1>0, <2>1 DEF Good, Protected, Unsent
  <2> QED
    BY <1>3, <2>1, <2>2, ThroughKeeps DEF Drop, May
<1> QED
  BY <1>1, <1>2, <1>3

LEMMA AnswerKeeps ==
  ASSUME SwitchInv, NEW p \in Sessions, Answer(p)
  PROVE  SwitchInv'
<1> USE DEF Unchanged
<1>0. Good(tx[p], account)
  BY DEF SwitchInv
<1>1. CASE tx[p].arg = "STOCK" /\ account.confirmed
  BY <1>1, RollbackKeeps DEF Answer
<1>2. CASE ~(tx[p].arg = "STOCK" /\ account.confirmed)
  <2>1. Want(p) = AccountRow
    BY DEF Answer, Reaches, Want, AccountRow
  <2>2. Leads(p, [Locked(p) EXCEPT !.at = "COMMIT"])
    BY <1>0, <1>2, <2>1, LockedLocks DEF Answer, Leads, Good, Stands, Protected, Shaped, Fields
  <2> QED
    BY <1>2, <2>2, GoKeeps DEF Answer
<1> QED
  BY <1>1, <1>2

LEMMA ConfirmKeeps ==
  ASSUME SwitchInv, NEW p \in Sessions, ConfirmationGuard(p) \/ Confirm(p)
  PROVE  SwitchInv'
<1> USE DEF Unchanged
<1>0. Good(tx[p], account) /\ account.other \in Answers
  BY DEF SwitchInv, Shapes
<1>1. CASE ConfirmationGuard(p)
  <2>1. Want(p) = Confirming
    BY <1>1 DEF ConfirmationGuard, Reaches, Want, Confirming
  <2>2. CASE \/ tx[p].op = "CONFIRM" /\ ~account.confirmed /\ account.other # "UNKNOWN"
             \/ tx[p].op = "REVOKE" /\ account.confirmed
    <3>1. Leads(p, [Locked(p) EXCEPT !.at = "ACCOUNT", !.arg = account.other])
      <4> DEFINE next == [Locked(p) EXCEPT !.at = "ACCOUNT", !.arg = account.other]
      <4>1. /\ \A l \in Locked(p).locks : l \in tx[p].locks \/ Free(p, l)
            /\ Confirming \in Locked(p).locks /\ Locked(p) = [tx[p] EXCEPT !.locks = Locked(p).locks]
            /\ tx[p].at = "ADVISORY" /\ tx[p].op \in {"CONFIRM", "REVOKE"}
        BY <1>0, <1>1, <2>1, LockedLocks DEF ConfirmationGuard, Good
      <4>2. /\ Shaped(next) /\ next.locks = Locked(p).locks /\ next.op = tx[p].op
            /\ next.at = "ACCOUNT" /\ next.changes = tx[p].changes
        BY <1>0, <4>1 DEF Good, Shaped, Fields
      <4> HIDE DEF next
      <4>3. Stands(next)
        BY <4>1, <4>2 DEF Stands
      <4>4. Protected(next, account)
        BY <1>0, <2>2, <4>1, <4>2 DEF Good, Protected
      <4>5. Good(next, account)
        BY <4>2, <4>3, <4>4 DEF Good
      <4> QED BY <4>1, <4>2, <4>5 DEF Leads, next
    <3> QED
      BY <1>1, <2>2, <3>1, GoKeeps DEF ConfirmationGuard
  <2>3. CASE ~ (\/ tx[p].op = "CONFIRM" /\ ~account.confirmed /\ account.other # "UNKNOWN"
                \/ tx[p].op = "REVOKE" /\ account.confirmed)
    BY <1>1, <2>3, RollbackKeeps DEF ConfirmationGuard
  <2> QED
    BY <2>2, <2>3
<1>2. CASE Confirm(p)
  <2>1. Want(p) = AccountRow
    BY <1>2 DEF Confirm, Reaches, Want, AccountRow
  <2>2. CASE account.other = "STOCK"
    BY <1>2, <2>2, RollbackKeeps DEF Confirm
  <2>3. CASE account.other # "STOCK"
    <3>1. Leads(p, [Locked(p) EXCEPT !.at = "COMMIT"])
      <4> DEFINE t == [Locked(p) EXCEPT !.at = "COMMIT"]
      <4>0. tx[p].op = "CONFIRM" /\ Reaches(p, "ACCOUNT")
        BY <1>2 DEF Confirm
      <4>1. tx[p].at = "ACCOUNT" /\ Moved(p, t, "COMMIT")
        BY <1>0, <4>0, LockedMoves
      <4> HIDE DEF t
      <4>2. Stands(t)
        BY <1>0, <4>0, <4>1 DEF Moved, Good, Stands
      <4>3. Protected(t, account)
        BY <1>0, <4>0, <4>1, <2>1, <2>3 DEF Moved, Good, Protected, Answers
      <4> QED BY <4>1, <4>2, <4>3 DEF Moved, Leads, Good, t
    <3> QED
      BY <1>2, <2>3, <3>1, GoKeeps DEF Confirm
  <2> QED
    BY <2>2, <2>3
<1> QED
  BY <1>1, <1>2

LEMMA EndsEnd ==
  ASSUME NEW ids
  PROVE  \A c \in Ends(ids) : c[2] = "ENDED"
  BY DEF Ends

LEMMA DiscardLeads ==
  ASSUME NEW p \in Sessions, NEW t, t = tx[p], Good(t, account),
         t.op = "REVOKE", t.at = "DISCARD",
         NEW changes, \A c \in changes : c[2] = "ENDED",
         NEW locks, \A l \in locks : l \in tx[p].locks \/ Free(p, l), tx[p].locks \subseteq locks
  PROVE  Leads(p, [t EXCEPT !.at = "COMMIT", !.changes = changes, !.locks = locks])
<1> DEFINE u == [t EXCEPT !.at = "COMMIT", !.changes = changes, !.locks = locks]
<1>1. Shaped(u) /\ u.op = t.op /\ u.at = "COMMIT" /\ u.changes = changes /\ u.locks = locks
  BY DEF Good, Shaped, Fields
<1> HIDE DEF u
<1>2. Stands(u)
  BY <1>1 DEF Stands
<1>3. Protected(u, account)
  BY <1>1 DEF Protected, Good
<1>4. Leads(p, u)
  BY <1>1, <1>2, <1>3 DEF Leads, Good
<1> QED
  BY <1>4 DEF u

LEMMA RevokeKeeps ==
  ASSUME SwitchInv, NEW p \in Sessions, Revoke(p) \/ DisableSync(p) \/ Discard(p)
  PROVE  SwitchInv'
<1> USE DEF Unchanged
<1>0. Good(tx[p], account)
  BY DEF SwitchInv
<1>1. CASE Revoke(p)
  <2>1. Leads(p, [Locked(p) EXCEPT !.at = IF enabled THEN "SCOPE" ELSE "DISCARD"])
    <3> DEFINE t == [Locked(p) EXCEPT !.at = IF enabled THEN "SCOPE" ELSE "DISCARD"]
    <3>0. tx[p].op = "REVOKE" /\ Reaches(p, "ACCOUNT")
      BY <1>1 DEF Revoke
    <3> DEFINE at == IF enabled THEN "SCOPE" ELSE "DISCARD"
    <3>a. at \in {"SCOPE", "DISCARD"}
      OBVIOUS
    <3> HIDE DEF at
    <3>1. tx[p].at = "ACCOUNT" /\ Moved(p, t, at)
      BY <1>0, <3>0, LockedMoves DEF at
    <3> HIDE DEF t
    <3>2. Stands(t)
      BY <1>0, <3>0, <3>1, <3>a DEF Moved, Good, Stands
    <3>3. Protected(t, account)
      BY <1>0, <3>0, <3>1, <3>a DEF Moved, Good, Protected
    <3> QED BY <3>1, <3>2, <3>3 DEF Moved, Leads, Good, t
  <2> QED
    BY <1>1, <2>1, GoKeeps DEF Revoke
<1>2. CASE DisableSync(p)
  <2>1. Leads(p, [Locked(p) EXCEPT !.at = "DISCARD"])
    <3> DEFINE t == [Locked(p) EXCEPT !.at = "DISCARD"]
    <3>0. tx[p].op = "REVOKE" /\ Reaches(p, "SCOPE")
      BY <1>2 DEF DisableSync
    <3>1. tx[p].at = "SCOPE" /\ Moved(p, t, "DISCARD")
      BY <1>0, <3>0, LockedMoves
    <3> HIDE DEF t
    <3>2. Stands(t)
      BY <1>0, <3>0, <3>1 DEF Moved, Good, Stands
    <3>3. Protected(t, account)
      BY <1>0, <3>0, <3>1 DEF Moved, Good, Protected
    <3> QED BY <3>1, <3>2, <3>3 DEF Moved, Leads, Good, t
  <2> QED
    BY <1>2, <2>1, GoKeeps DEF DisableSync
<1>3. CASE Discard(p)
  <2> DEFINE ids == {id \in Of("QUANTITY", Waiting) : Free(p, <<Locker(id), "X">>)}
             locks == {<<Locker(id), "X">> : id \in ids}
  <2>1. tx[p].op = "REVOKE" /\ tx[p].at = "DISCARD"
    BY <1>0, <1>3 DEF Discard, Good, Stands
  <2>2. \A c \in Ends(ids) : c[2] = "ENDED"
    BY EndsEnd
  <2>3. \A l \in locks : Free(p, l)
    OBVIOUS
  <2> DEFINE changes == Ends(ids)
             both == tx[p].locks \cup locks
  <2>4. Go(p, [tx[p] EXCEPT !.at = "COMMIT", !.changes = changes, !.locks = both])
    BY <1>3 DEF Discard
  <2> HIDE DEF changes, both
  <2>5. Leads(p, [tx[p] EXCEPT !.at = "COMMIT", !.changes = changes, !.locks = both])
    <3>1. \A c \in changes : c[2] = "ENDED"
      BY <2>2 DEF changes
    <3>2. (\A l \in both : l \in tx[p].locks \/ Free(p, l)) /\ tx[p].locks \subseteq both
      BY <2>3 DEF both
    <3> QED
      BY <1>0, <2>1, <3>1, <3>2, DiscardLeads
  <2> QED
    BY <1>3, <2>4, <2>5, GoKeeps DEF Discard
<1> QED
  BY <1>1, <1>2, <1>3

LEMMA EnableKeeps ==
  ASSUME SwitchInv, NEW p \in Sessions, EnableScope(p) \/ EnableGuard(p)
  PROVE  SwitchInv'
<1> USE DEF Unchanged
<1>0. Good(tx[p], account)
  BY DEF SwitchInv
<1>1. CASE EnableScope(p)
  <2>1. Leads(p, [Locked(p) EXCEPT !.at = "ADVISORY"])
    <3> DEFINE t == [Locked(p) EXCEPT !.at = "ADVISORY"]
    <3>0. tx[p].op = "ENABLE" /\ Reaches(p, "SCOPE")
      BY <1>1 DEF EnableScope
    <3>1. tx[p].at = "SCOPE" /\ Moved(p, t, "ADVISORY")
      BY <1>0, <3>0, LockedMoves
    <3> HIDE DEF t
    <3>2. Stands(t)
      BY <1>0, <3>0, <3>1 DEF Moved, Good, Stands
    <3>3. Protected(t, account)
      BY <1>0, <3>0, <3>1 DEF Moved, Good, Protected
    <3> QED BY <3>1, <3>2, <3>3 DEF Moved, Leads, Good, t
  <2> QED
    BY <1>1, <2>1, GoKeeps, RollbackKeeps DEF EnableScope
<1>2. CASE EnableGuard(p)
  <2>1. Want(p) = Sending
    BY <1>2 DEF EnableGuard, Reaches, Want, Sending
  <2>2. ASSUME account.confirmed PROVE Leads(p, [Locked(p) EXCEPT !.at = "COMMIT"])
    <3> DEFINE t == [Locked(p) EXCEPT !.at = "COMMIT"]
    <3>0. tx[p].op = "ENABLE" /\ Reaches(p, "ADVISORY")
      BY <1>2 DEF EnableGuard
    <3>1. tx[p].at = "ADVISORY" /\ Moved(p, t, "COMMIT")
      BY <1>0, <3>0, LockedMoves
    <3> HIDE DEF t
    <3>2. Stands(t)
      BY <1>0, <3>0, <3>1 DEF Moved, Good, Stands
    <3>3. Protected(t, account)
      BY <1>0, <2>1, <2>2, <3>0, <3>1 DEF Moved, Good, Protected
    <3> QED BY <3>1, <3>2, <3>3 DEF Moved, Leads, Good, t
  <2> QED
    BY <1>2, <2>2, GoKeeps, RollbackKeeps DEF EnableGuard
<1> QED
  BY <1>1, <1>2

LEMMA OwnerKeeps ==
  ASSUME SwitchInv, NEW p \in Owners, OwnerActs(p)
  PROVE  SwitchInv'
<1>0. p \in Sessions
  BY DEF Sessions
<1>1. ASSUME NEW a \in Answers \ {"UNKNOWN"}, Act(p, "ANSWER", "ACCOUNT", "NONE", a)
      PROVE  SwitchInv'
  BY <1>0, <1>1, BeginKeeps DEF Act, Stands, Idle, Answers
<1>2. ASSUME NEW op \in {"CONFIRM", "REVOKE"}, Act(p, op, "ADVISORY", "QUANTITY", "NONE")
      PROVE  SwitchInv'
  BY <1>0, <1>2, BeginKeeps DEF Act, Stands, Idle
<1>3. ASSUME Act(p, "ENABLE", "SCOPE", "QUANTITY", "NONE")
      PROVE  SwitchInv'
  BY <1>0, <1>3, BeginKeeps DEF Act, Stands, Idle
<1> QED
  BY <1>0, <1>1, <1>2, <1>3, BeginSwitchKeeps, SwitchModeKeeps, AnswerKeeps, ConfirmKeeps,
     RevokeKeeps, EnableKeeps DEF OwnerActs

(***************************************************************************)
(* Claims.                                                                 *)
(***************************************************************************)
LEMMA SentOnlyAtCommit ==
  ASSUME NEW t, Good(t, account), t.at # "COMMIT" \/ t.op # "CLAIM"
  PROVE  Unsent(t)
  BY DEF Good, Protected, Unsent

(* A transaction that has sent nothing goes on to its next step.           *)
LEMMA SyncKeeps ==
  ASSUME SwitchInv, NEW p \in Sessions, ClaimSync(p) \/ ClaimRow(p)
  PROVE  SwitchInv'
<1> USE DEF Unchanged
<1>0. Good(tx[p], account)
  BY DEF SwitchInv
<1>1. CASE ClaimSync(p)
  <2>1. Leads(p, [Locked(p) EXCEPT !.at = "PICK"])
    <3> DEFINE t == [Locked(p) EXCEPT !.at = "PICK"]
    <3>0. tx[p].op = "CLAIM" /\ Reaches(p, "SYNC")
      BY <1>1 DEF ClaimSync
    <3>1. tx[p].at = "SYNC" /\ Moved(p, t, "PICK")
      BY <1>0, <3>0, LockedMoves
    <3> HIDE DEF t
    <3>2. Stands(t)
      BY <1>0, <3>0, <3>1 DEF Moved, Good, Stands
    <3>3. Protected(t, account)
      BY <1>0, <3>0, <3>1 DEF Moved, Good, Protected
    <3> QED BY <3>1, <3>2, <3>3 DEF Moved, Leads, Good, t
  <2> QED
    BY <1>1, <2>1, GoKeeps DEF ClaimSync
<1>2. CASE ClaimRow(p)
  <2>1. Leads(p, [Locked(p) EXCEPT !.at = "GUARD"])
    <3> DEFINE t == [Locked(p) EXCEPT !.at = "GUARD"]
    <3>0. tx[p].op = "CLAIM" /\ Reaches(p, "ROW")
      BY <1>2 DEF ClaimRow
    <3>1. tx[p].at = "ROW" /\ Moved(p, t, "GUARD")
      BY <1>0, <3>0, LockedMoves
    <3> HIDE DEF t
    <3>2. Stands(t)
      BY <1>0, <3>0, <3>1 DEF Moved, Good, Stands
    <3>3. Protected(t, account)
      BY <1>0, <3>0, <3>1 DEF Moved, Good, Protected
    <3> QED BY <3>1, <3>2, <3>3 DEF Moved, Leads, Good, t
  <2> QED
    BY <1>2, <2>1, GoKeeps, RollbackKeeps DEF ClaimRow
<1> QED
  BY <1>1, <1>2

LEMMA PickLeads ==
  ASSUME NEW p \in Sessions, Good(tx[p], account), tx[p].op = "CLAIM", tx[p].at = "PICK",
         NEW id, id[1] = tx[p].scope, NEW then \in {"PICK", "GUARD"}
  PROVE  Leads(p, [tx[p] EXCEPT !.at = "ROW", !.row = id, !.then = then])
<1> DEFINE u == [tx[p] EXCEPT !.at = "ROW", !.row = id, !.then = then]
<1>1. /\ Shaped(u)
      /\ u.op = tx[p].op /\ u.scope = tx[p].scope /\ u.todo = tx[p].todo
      /\ u.locks = tx[p].locks /\ u.changes = tx[p].changes
      /\ u.at = "ROW" /\ u.row = id /\ u.then = then
  BY DEF Good, Shaped, Fields
<1> HIDE DEF u
<1>2. Stands(u)
  BY <1>1 DEF Stands, Good
<1>3. Protected(u, account)
  BY <1>1 DEF Protected, Good
<1>4. Leads(p, u)
  BY <1>1, <1>2, <1>3 DEF Leads, Good
<1> QED
  BY <1>4 DEF u

LEMMA PickKeeps ==
  ASSUME SwitchInv, NEW p \in Sessions, Pick(p)
  PROVE  SwitchInv'
<1> USE DEF Unchanged
<1>0. Good(tx[p], account)
  BY DEF SwitchInv
<1>1. tx[p].op = "CLAIM" /\ tx[p].at = "PICK"
  BY <1>0 DEF Pick, Good, Stands
<1>2. CASE Of(tx[p].scope, {"DISPATCHED"}) # {} \/ Candidates(p) = {}
  <2>1. Leads(p, [tx[p] EXCEPT !.at = "COMMIT"])
    BY <1>0, <1>1 DEF Leads, Good, Stands, Protected, Shaped, Fields
  <2> QED
    BY <1>2, <2>1, GoKeeps DEF Pick
<1>3. CASE ~(Of(tx[p].scope, {"DISPATCHED"}) # {} \/ Candidates(p) = {})
  <2>1. PICK id \in Newest(Candidates(p)) :
          Go(p, [tx[p] EXCEPT !.at = "ROW", !.row = id,
                              !.then = IF id[2] < Latest(tx[p].scope) THEN "PICK" ELSE "GUARD"])
    BY <1>3 DEF Pick
  <2>2. id[1] = tx[p].scope
    BY DEF Newest, Candidates, Of
  <2>3. \A then \in {"PICK", "GUARD"} :
           Leads(p, [tx[p] EXCEPT !.at = "ROW", !.row = id, !.then = then])
    BY <1>0, <1>1, <2>2, PickLeads
  <2>4. CASE id[2] < Latest(tx[p].scope)
    <3>1. Go(p, [tx[p] EXCEPT !.at = "ROW", !.row = id, !.then = "PICK"])
      BY <2>1, <2>4
    <3> QED
      BY <2>3, <3>1, GoKeeps DEF Pick
  <2>5. CASE ~(id[2] < Latest(tx[p].scope))
    <3>1. Go(p, [tx[p] EXCEPT !.at = "ROW", !.row = id, !.then = "GUARD"])
      BY <2>1, <2>5
    <3> QED
      BY <2>3, <3>1, GoKeeps DEF Pick
  <2> QED
    BY <2>4, <2>5
<1> QED
  BY <1>2, <1>3

LEMMA RefusedKeeps ==
  ASSUME SwitchInv, NEW p \in Sessions, Refused(p), UNCHANGED <<account, enabled>>,
         tx[p].op = "CLAIM", tx[p].at \in {"GUARD", "ADVISORY"}
  PROVE  SwitchInv'
<1> DEFINE locks == {l \in tx[p].locks : l[1] = <<"sync", tx[p].scope>>}
           u == [tx[p] EXCEPT !.at = "ROW", !.then = "COMMIT", !.locks = locks]
<1>0. Good(tx[p], account)
  BY DEF SwitchInv
<1>1. Go(p, u)
  BY DEF Refused
<1>2. locks \subseteq tx[p].locks
  OBVIOUS
<1> HIDE DEF locks
<1>3. /\ Shaped(u)
      /\ u.op = tx[p].op /\ u.scope = tx[p].scope /\ u.todo = tx[p].todo /\ u.row = tx[p].row
      /\ u.locks = locks /\ u.changes = tx[p].changes /\ u.at = "ROW" /\ u.then = "COMMIT"
  BY <1>0 DEF Good, Shaped, Fields
<1> HIDE DEF u
<1>4. Stands(u)
  BY <1>0, <1>3 DEF Stands, Good
<1>5. Protected(u, account)
  BY <1>0, <1>3 DEF Protected, Good
<1>6. Leads(p, u)
  BY <1>2, <1>3, <1>4, <1>5 DEF Leads, Good
<1> QED
  BY <1>1, <1>6, GoKeeps

(* A write that is sent is a price, or a quantity under a confirmation     *)
(* that nobody can withdraw meanwhile.                                     *)
LEMMA DispatchLeads ==
  ASSUME NEW p \in Sessions, NEW t, Shaped(t), Stands(t), Unsent(t), NEW id,
         \A l \in t.locks : l \in tx[p].locks \/ Free(p, l),
         \/ t.op = "DECIDE" /\ id[1] = "PRICE"
         \/ t.op = "CLAIM" /\ id[1] # "QUANTITY"
         \/ t.op = "CLAIM" /\ Sending \in t.locks /\ account.confirmed
  PROVE  Leads(p, Dispatch(t, id))
<1> DEFINE changes == {c \in t.changes : c[1] # id} \cup {<<id, "DISPATCHED">>}
           u == [t EXCEPT !.at = "COMMIT", !.changes = changes]
<1>1. Dispatch(t, id) = u
  BY DEF Dispatch
<1>2. \A c \in changes : c \in t.changes \/ c = <<id, "DISPATCHED">>
  OBVIOUS
<1> HIDE DEF changes
<1>3. /\ Shaped(u) /\ u.op = t.op /\ u.todo = t.todo
      /\ u.locks = t.locks /\ u.changes = changes /\ u.at = "COMMIT"
  BY DEF Shaped, Fields
<1> HIDE DEF u
<1>4. Stands(u)
  BY <1>3 DEF Stands
<1>5. ASSUME NEW c \in changes, c[1][1] = "QUANTITY", c[2] = "DISPATCHED"
      PROVE  t.op = "CLAIM" /\ Sending \in t.locks /\ account.confirmed
  BY <1>2, <1>5 DEF Unsent
<1>6. Protected(u, account)
  BY <1>3, <1>5 DEF Protected
<1>7. Leads(p, u)
  BY <1>3, <1>4, <1>6 DEF Leads, Good
<1> QED
  BY <1>1, <1>7

LEMMA GuardKeeps ==
  ASSUME SwitchInv, NEW p \in Sessions, ModeGuard(p) \/ QuantityGuard(p)
  PROVE  SwitchInv'
<1> USE DEF Unchanged
<1>0. Good(tx[p], account)
  BY DEF SwitchInv
<1>1. CASE ModeGuard(p)
  <2>1. tx[p].op = "CLAIM" /\ tx[p].at = "GUARD" /\ tx[p].row[1] = tx[p].scope
    BY <1>0, <1>1 DEF ModeGuard, Good, Stands
  <2>2. Unsent(tx[p])
    BY <1>0, <2>1, SentOnlyAtCommit
  <2>3. CASE account.mode = "SHADOW"
    BY <1>1, <2>1, <2>3, RefusedKeeps DEF ModeGuard
  <2>4. CASE account.mode # "SHADOW" /\ tx[p].scope = "QUANTITY"
    <3>1. Leads(p, [tx[p] EXCEPT !.at = "ADVISORY"])
      BY <1>0, <2>1 DEF Leads, Good, Stands, Protected, Shaped, Fields
    <3> QED
      BY <1>1, <2>4, <3>1, GoKeeps DEF ModeGuard
  <2>5. CASE account.mode # "SHADOW" /\ tx[p].scope # "QUANTITY"
    <3>1. Leads(p, Dispatch(tx[p], tx[p].row))
      BY <1>0, <2>1, <2>2, <2>5, DispatchLeads DEF Good
    <3> QED
      BY <1>1, <2>5, <3>1, GoKeeps DEF ModeGuard
  <2> QED
    BY <2>3, <2>4, <2>5
<1>2. CASE QuantityGuard(p)
  <2>1. tx[p].op = "CLAIM" /\ tx[p].at = "ADVISORY"
    BY <1>2 DEF QuantityGuard, Reaches
  <2>2. CASE ~account.confirmed
    BY <1>2, <2>1, <2>2, RefusedKeeps DEF QuantityGuard
  <2>3. CASE account.confirmed
    <3>1. Want(p) = Sending
      BY <2>1 DEF Want, Sending
    <3>2. /\ Shaped(Locked(p)) /\ Stands(Locked(p)) /\ Unsent(Locked(p))
          /\ Locked(p).op = "CLAIM" /\ Sending \in Locked(p).locks
          /\ \A l \in Locked(p).locks : l \in tx[p].locks \/ Free(p, l)
      <4>1. Locked(p) = [tx[p] EXCEPT !.locks = Locked(p).locks] /\ Sending \in Locked(p).locks
            /\ \A l \in Locked(p).locks : l \in tx[p].locks \/ Free(p, l)
        BY <1>0, <1>2, <3>1, LockedLocks DEF QuantityGuard, Good
      <4> DEFINE locks == Locked(p).locks
                 t == [tx[p] EXCEPT !.locks = locks]
      <4> HIDE DEF locks
      <4>2. /\ Shaped(t) /\ t.op = tx[p].op /\ t.at = tx[p].at /\ t.changes = tx[p].changes
            /\ t.scope = tx[p].scope /\ t.row = tx[p].row /\ t.todo = tx[p].todo
        BY <1>0 DEF Good, Shaped, Fields
      <4>3. Locked(p) = t
        BY <4>1 DEF locks
      <4> HIDE DEF t
      <4>4. Unsent(t)
        BY <1>0, <2>1, <4>2, SentOnlyAtCommit DEF Unsent
      <4>5. Stands(t)
        BY <1>0, <2>1, <4>2 DEF Good, Stands
      <4> QED BY <2>1, <4>1, <4>2, <4>3, <4>4, <4>5
    <3>3. Leads(p, Dispatch(Locked(p), tx[p].row))
      BY <2>3, <3>2, DispatchLeads
    <3> QED
      BY <1>2, <2>3, <3>3, GoKeeps DEF QuantityGuard
  <2> QED
    BY <2>2, <2>3
<1> QED
  BY <1>1, <1>2

(***************************************************************************)
(* New versions.                                                           *)
(***************************************************************************)
LEMMA InsertKeeps ==
  ASSUME SwitchInv, NEW p \in Sessions, InsertScope(p) \/ InsertRow(p)
  PROVE  SwitchInv'
<1> USE DEF Unchanged
<1>0. Good(tx[p], account)
  BY DEF SwitchInv
<1>1. CASE InsertScope(p)
  <2>1. Leads(p, [Locked(p) EXCEPT !.at = "SYNC", !.arg = account.mode])
    <3> DEFINE t == Locked(p)
    <3>0. /\ Shaped(t) /\ t.op = tx[p].op /\ t.changes = tx[p].changes
          /\ \A l \in t.locks : l \in tx[p].locks \/ Free(p, l)
      BY <1>0, <1>1, LockedLocks DEF InsertScope, Good, Shaped, Fields
    <3> HIDE DEF t
    <3> DEFINE u == [t EXCEPT !.at = "SYNC", !.arg = account.mode]
    <3>1. /\ Shaped(u) /\ u.op = tx[p].op /\ u.at = "SYNC" /\ u.changes = tx[p].changes
          /\ \A l \in u.locks : l \in tx[p].locks \/ Free(p, l)
      BY <3>0 DEF Shaped, Fields
    <3> HIDE DEF u
    <3>2. Stands(u) /\ Protected(u, account)
      BY <1>0, <1>1, <3>1 DEF InsertScope, Good, Stands, Protected
    <3>3. Leads(p, u)
      BY <3>1, <3>2 DEF Leads, Good
    <3> QED
      BY <3>3 DEF t, u
  <2> QED
    BY <1>1, <2>1, GoKeeps, RollbackKeeps DEF InsertScope
<1>2. CASE InsertRow(p)
  <2> DEFINE new == <<tx[p].scope, Latest(tx[p].scope) + 1>>
             changes == {<<new, IF tx[p].arg = "LIVE" THEN "PENDING" ELSE "ENDED">>}
             t == [Locked(p) EXCEPT !.changes = changes]
             then == IF tx[p].op = "DECIDE" /\ tx[p].arg = "LIVE" THEN "GUARD" ELSE "COMMIT"
  <2>1. Through(p, t, Of(tx[p].scope, Waiting), then)
    BY <1>2 DEF InsertRow
  <2>2. \A c \in changes : c[2] # "DISPATCHED"
    OBVIOUS
  <2> HIDE DEF changes
  <2>3. /\ Shaped(t) /\ t.op = tx[p].op /\ t.changes = changes
        /\ \A l \in t.locks : l \in tx[p].locks \/ Free(p, l)
    BY <1>0, <1>2, LockedLocks DEF InsertRow, Good, Shaped, Fields
  <2> HIDE DEF t
  <2>4. Unsent(t)
    BY <2>2, <2>3 DEF Unsent
  <2>5. t.op \in {"DECIDE", "RECALCULATE"} /\ then \in {"GUARD", "COMMIT"}
    BY <1>2, <2>3 DEF InsertRow
  <2> QED
    BY <1>2, <2>1, <2>3, <2>4, <2>5, ThroughKeeps DEF InsertRow, May
<1> QED
  BY <1>1, <1>2

LEMMA DecideKeeps ==
  ASSUME SwitchInv, NEW p \in Sessions, DecideGuard(p)
  PROVE  SwitchInv'
<1> USE DEF Unchanged
<1>0. Good(tx[p], account)
  BY DEF SwitchInv
<1>1. Leads(p, [tx[p] EXCEPT !.at = "COMMIT"])
  BY <1>0 DEF DecideGuard, Leads, Good, Stands, Protected, Shaped, Fields
<1>2. Unsent(tx[p])
  BY <1>0, SentOnlyAtCommit DEF DecideGuard
<1>3. Leads(p, Dispatch(tx[p], <<"PRICE", Latest("PRICE") + 1>>))
  BY <1>0, <1>2, DispatchLeads DEF DecideGuard, Good
<1> QED
  BY <1>1, <1>3, GoKeeps, RollbackKeeps DEF DecideGuard

LEMMA EndRowKeeps ==
  ASSUME SwitchInv, NEW p \in Sessions, EndRow(p)
  PROVE  SwitchInv'
<1> USE DEF Unchanged
<1>0. Good(tx[p], account) /\ tx[p].at = "ROW"
  BY DEF SwitchInv, EndRow, Reaches
<1>1. Unsent(tx[p])
  BY <1>0, SentOnlyAtCommit
<1>2. \A t : t.op = tx[p].op /\ t.scope = tx[p].scope /\ t.todo = tx[p].todo =>
         /\ May(t, tx[p].then, NoRow, {}, "IDLE")
         /\ \A id \in tx[p].todo : May(t, "ROW", id, tx[p].todo \ {id}, tx[p].then)
  BY <1>0 DEF EndRow, Good, Stands, May
<1>3. CASE Status(tx[p].row) \in Sought(tx[p])
  <2> DEFINE changes == tx[p].changes \cup Ends({tx[p].row})
             t == [Locked(p) EXCEPT !.changes = changes]
  <2>1. Through(p, t, tx[p].todo, tx[p].then)
    <3>1. Locked(p).changes = tx[p].changes
      BY <1>0, LockedLocks DEF EndRow, Good, Shaped, Fields
    <3> QED
      BY <1>3, <3>1 DEF EndRow
  <2>2. \A c \in changes : c \in tx[p].changes \/ c[2] = "ENDED"
    BY EndsEnd
  <2> HIDE DEF changes
  <2>3. /\ Shaped(t) /\ t.op = tx[p].op /\ t.scope = tx[p].scope /\ t.todo = tx[p].todo
        /\ t.changes = changes
        /\ \A l \in t.locks : l \in tx[p].locks \/ Free(p, l)
    BY <1>0, LockedLocks DEF EndRow, Good, Shaped, Fields
  <2> HIDE DEF t
  <2>4. Unsent(t)
    BY <1>1, <2>2, <2>3 DEF Unsent
  <2> QED
    BY <1>2, <2>1, <2>3, <2>4, ThroughKeeps DEF EndRow
<1>4. CASE Status(tx[p].row) \notin Sought(tx[p])
  BY <1>0, <1>1, <1>2, <1>4, ThroughKeeps DEF EndRow, Good
<1> QED
  BY <1>3, <1>4

(***************************************************************************)
(* What a commit makes of the account, and of what others have read of it. *)
(***************************************************************************)
LEMMA OthersKeep ==
  ASSUME SwitchInv, NEW p \in Sessions, tx[p].at = "COMMIT", Go(p, Idle),
         Shapes',
         account'.other # "UNKNOWN" \/ account'.other = account.other,
         account'.other # account.other \/ (account'.confirmed /\ ~account.confirmed)
            => AccountRow \in tx[p].locks,
         account.confirmed /\ ~account'.confirmed => Confirming \in tx[p].locks,
         SwitchesAgree'
  PROVE  SwitchInv'
<1>1. \A q \in Sessions : tx'[q] = IF q = p THEN Idle ELSE tx[q]
  BY DEF SwitchInv, Shapes, Go
<1>2. Exclusive'
  <2>1. Idle.locks = {}
    BY DEF Idle
  <2> QED
    BY <1>1, <2>1 DEF SwitchInv, Exclusive
<1>3. ASSUME NEW q \in Sessions \ {p}
      PROVE  Protected(tx[q], account')
  <2>1. Protected(tx[q], account)
    BY DEF SwitchInv, Good
  <2>2. Sending \in tx[q].locks => (account.confirmed => account'.confirmed)
    BY DEF SwitchInv, Exclusive, Sending, Confirming
  <2>3. AccountRow \in tx[q].locks =>
           account'.other = account.other /\ (account'.confirmed => account.confirmed)
    BY DEF SwitchInv, Exclusive, AccountRow
  <2> QED
    BY <2>1, <2>2, <2>3 DEF Protected
<1>4. \A q \in Sessions : Good(tx'[q], account')
  <2>1. Good(Idle, account')
    BY DEF Good, Shaped, Fields, Stands, Protected, Idle
  <2> QED
    BY <1>1, <1>3, <2>1 DEF SwitchInv, Good
<1> QED
  BY <1>2, <1>4 DEF SwitchInv

LEMMA CommitKeeps ==
  ASSUME SwitchInv, NEW p \in Sessions, Commit(p)
  PROVE  SwitchInv'
<1>0. Good(tx[p], account) /\ tx[p].at = "COMMIT" /\ Shapes /\ SwitchesAgree
  BY DEF SwitchInv, Commit
<1>1. tx' = [q \in Sessions |-> tx'[q]]
  BY DEF Commit, Go, SwitchInv, Shapes
<1>2. CASE tx[p].op = "SWITCH"
  <2>1. account' = [account EXCEPT !.mode = tx[p].arg] /\ enabled' = enabled
    BY <1>2 DEF Commit
  <2>2. Shapes' /\ SwitchesAgree' /\ account'.other = account.other
        /\ account'.confirmed = account.confirmed
    BY <1>0, <1>1, <2>1 DEF Shapes, SwitchesAgree
  <2> QED
    BY <1>0, <2>2, OthersKeep DEF Commit, SwitchInv
<1>3. CASE tx[p].op = "ANSWER"
  <2>1. account' = [account EXCEPT !.other = tx[p].arg] /\ enabled' = enabled
    BY <1>3 DEF Commit
  <2>2. /\ tx[p].arg \in {"NONE", "STOCK"} /\ AccountRow \in tx[p].locks
        /\ tx[p].arg = "STOCK" => ~account.confirmed
    BY <1>0, <1>3 DEF Good, Stands, Protected
  <2>3. Shapes' /\ SwitchesAgree' /\ account'.other = tx[p].arg
        /\ account'.confirmed = account.confirmed
    BY <1>0, <1>1, <2>1, <2>2 DEF Shapes, SwitchesAgree, Answers
  <2> QED
    BY <1>0, <2>2, <2>3, OthersKeep DEF Commit, SwitchInv
<1>4. CASE tx[p].op = "CONFIRM"
  <2>1. account' = [account EXCEPT !.confirmed = TRUE] /\ enabled' = enabled
    BY <1>4 DEF Commit
  <2>2. AccountRow \in tx[p].locks /\ account.other = "NONE"
    BY <1>0, <1>4 DEF Good, Protected
  <2>3. Shapes' /\ SwitchesAgree' /\ account'.other = account.other /\ account'.confirmed
    BY <1>0, <1>1, <2>1, <2>2 DEF Shapes, SwitchesAgree
  <2> QED
    BY <1>0, <2>2, <2>3, OthersKeep DEF Commit, SwitchInv
<1>5. CASE tx[p].op = "REVOKE"
  <2>1. account' = [account EXCEPT !.confirmed = FALSE] /\ enabled' = FALSE
    BY <1>5 DEF Commit
  <2>2. Confirming \in tx[p].locks
    BY <1>0, <1>5 DEF Good, Protected
  <2>3. Shapes' /\ SwitchesAgree' /\ account'.other = account.other /\ ~account'.confirmed
    BY <1>0, <1>1, <2>1 DEF Shapes, SwitchesAgree
  <2> QED
    BY <1>0, <2>2, <2>3, OthersKeep DEF Commit, SwitchInv
<1>6. CASE tx[p].op = "ENABLE"
  <2>1. account' = account /\ enabled' = TRUE
    BY <1>6 DEF Commit
  <2>2. account.confirmed
    BY <1>0, <1>6 DEF Good, Protected
  <2>3. Shapes' /\ SwitchesAgree'
    BY <1>0, <1>1, <2>1, <2>2 DEF Shapes, SwitchesAgree
  <2> QED
    BY <1>0, <2>1, <2>3, OthersKeep DEF Commit, SwitchInv
<1>7. CASE tx[p].op \notin {"SWITCH", "ANSWER", "CONFIRM", "REVOKE", "ENABLE"}
  <2>1. account' = account /\ enabled' = enabled
    BY <1>7 DEF Commit
  <2>2. Shapes' /\ SwitchesAgree'
    BY <1>0, <1>1, <2>1 DEF Shapes, SwitchesAgree
  <2> QED
    BY <1>0, <2>1, <2>2, OthersKeep DEF Commit, SwitchInv
<1> QED
  BY <1>2, <1>3, <1>4, <1>5, <1>6, <1>7

(***************************************************************************)
(* The invariant.                                                          *)
(***************************************************************************)
LEMMA SwitchInit ==
  ASSUME Init
  PROVE  SwitchInv
<1>1. /\ account = [mode |-> account.mode, confirmed |-> account.confirmed, other |-> account.other]
      /\ account.confirmed \in BOOLEAN /\ account.other \in Answers
  BY DEF Init
<1>2. enabled \in BOOLEAN /\ (enabled => account.confirmed)
  BY <1>1 DEF Init
<1>3. \A p \in Sessions : tx[p] = Idle
  BY DEF Init
<1>4. tx = [p \in Sessions |-> tx[p]]
  BY <1>3 DEF Init
<1>5. \A p \in Sessions : Good(tx[p], account)
  BY <1>3 DEF Good, Shaped, Fields, Stands, Protected, Idle
<1>6. Exclusive
  BY <1>3 DEF Exclusive, Idle
<1>7. SwitchesAgree
  BY <1>2 DEF Init, SwitchesAgree
<1> QED
  BY <1>1, <1>2, <1>4, <1>5, <1>6, <1>7 DEF SwitchInv, Shapes

LEMMA StutterKeeps ==
  ASSUME SwitchInv, UNCHANGED <<account, enabled, tx>>
  PROVE  SwitchInv'
<1>1. Exclusive'
  BY DEF SwitchInv, Exclusive, Sessions
<1>2. Shapes' /\ SwitchesAgree' /\ (\A p \in Sessions : Good(tx'[p], account'))
  BY DEF SwitchInv, Shapes, SwitchesAgree, Sessions, Answers
<1> QED
  BY <1>1, <1>2 DEF SwitchInv

LEMMA SwitchStep ==
  ASSUME SwitchInv, [Next]_vars
  PROVE  SwitchInv'
<1>0. Owners \subseteq Sessions /\ Dispatchers \subseteq Sessions /\ Deciders \subseteq Sessions
      /\ Stockers \subseteq Sessions
  BY DEF Sessions
<1>1. ASSUME NEW p \in Dispatchers, NEW s \in Scopes, Begin(p, "CLAIM", "SYNC", s, "NONE")
      PROVE  SwitchInv'
  BY <1>0, <1>1, BeginKeeps DEF Stands, Idle
<1>2. ASSUME NEW p \in Dispatchers,
             ClaimSync(p) \/ Pick(p) \/ ClaimRow(p) \/ ModeGuard(p) \/ QuantityGuard(p)
      PROVE  SwitchInv'
  BY <1>0, <1>2, SyncKeeps, PickKeeps, GuardKeeps
<1>3. ASSUME NEW p \in Deciders, Begin(p, "DECIDE", "SCOPE", "PRICE", "NONE")
      PROVE  SwitchInv'
  BY <1>0, <1>3, BeginKeeps DEF Stands, Idle
<1>4. ASSUME NEW p \in Stockers, Begin(p, "RECALCULATE", "SCOPE", "QUANTITY", "NONE")
      PROVE  SwitchInv'
  BY <1>0, <1>4, BeginKeeps DEF Stands, Idle
<1>5. ASSUME NEW p \in Deciders \cup Stockers, InsertScope(p) \/ InsertRow(p)
      PROVE  SwitchInv'
  BY <1>0, <1>5, InsertKeeps
<1>6. ASSUME NEW p \in Sessions, EndRow(p) \/ Commit(p) \/ Dies(p)
      PROVE  SwitchInv'
  BY <1>6, EndRowKeeps, CommitKeeps, RollbackKeeps DEF Dies
<1>7. ASSUME NEW id \in Ids, NEW status, Settle(id, status)
      PROVE  SwitchInv'
  BY <1>7, StutterKeeps DEF Settle
<1>8. ASSUME NEW p \in Deciders, DecideGuard(p)
      PROVE  SwitchInv'
  BY <1>0, <1>8, DecideKeeps
<1>9. CASE UNCHANGED vars
  BY <1>9, StutterKeeps DEF vars
<1> QED
  BY <1>1, <1>2, <1>3, <1>4, <1>5, <1>6, <1>7, <1>8, <1>9, OwnerKeeps DEF Next

(* The inductive invariant of the switches: what a transaction has read of *)
(* them under a lock still stands, because the locks of the owner's        *)
(* transactions and those of a sender exclude each other.                  *)
THEOREM SwitchesHold == Spec => []SwitchInv
<1>1. Init => SwitchInv
  BY SwitchInit
<1>2. SwitchInv /\ [Next]_vars => SwitchInv'
  BY SwitchStep
<1> QED
  BY <1>1, <1>2, PTL DEF Spec

(* A synchronised scope has a confirmation, and a confirmation no second   *)
(* writer, in whatever order the owners' transactions meet (R-202).        *)
THEOREM SwitchesAlwaysAgree == Spec => []SwitchesAgree
<1>1. SwitchInv => SwitchesAgree
  BY DEF SwitchInv
<1> QED
  BY <1>1, SwitchesHold, PTL

(***************************************************************************)
(* A quantity leaves in the commit of a claim that has its share of the    *)
(* lock of the confirmations, so that a revocation is before or after it.  *)
(***************************************************************************)
LEMMA LeavesConfirmed ==
  ASSUME SwitchInv, [Next]_vars, Leaves("QUANTITY")
  PROVE  account.confirmed
<1>1. PICK v \in 1..MaxVersion["QUANTITY"] :
        row["QUANTITY"][v] # "DISPATCHED" /\ row'["QUANTITY"][v] = "DISPATCHED"
  BY DEF Leaves
<1>2. ASSUME NEW p \in Sessions, Commit(p)
      PROVE  account.confirmed
  <2> DEFINE changed == {c \in tx[p].changes : c[1] = <<"QUANTITY", v>>}
  <2>1. row'["QUANTITY"][v] = IF \E c \in tx[p].changes : c[1] = <<"QUANTITY", v>>
                              THEN (CHOOSE c \in tx[p].changes : c[1] = <<"QUANTITY", v>>)[2]
                              ELSE row["QUANTITY"][v]
    BY <1>2 DEF Commit, Scopes
  <2>2. PICK c \in tx[p].changes : c[1] = <<"QUANTITY", v>> /\ c[2] = "DISPATCHED"
    BY <1>1, <2>1
  <2>3. c[1][1] = "QUANTITY"
    BY <2>2
  <2> QED
    BY <2>2, <2>3 DEF SwitchInv, Good, Protected
<1>3. ASSUME NEW id \in Ids, NEW status \in {"FAILED", "ENDED"}, Settle(id, status)
      PROVE  FALSE
  BY <1>1, <1>3 DEF Settle
<1>4. ASSUME UNCHANGED row
      PROVE  FALSE
  BY <1>1, <1>4
<1> QED
  BY <1>2, <1>3, <1>4 DEF Next, vars, OwnerActs, Act, Begin, BeginSwitch, SwitchMode, Hold, Drop,
     Answer, ConfirmationGuard, Confirm, Revoke, DisableSync, Discard, EnableScope, EnableGuard,
     ClaimSync, Pick, ClaimRow, ModeGuard, QuantityGuard, InsertScope, InsertRow, DecideGuard,
     EndRow, Dies, Rollback, Unchanged

(* No quantity leaves once the owner's revocation is in force, whichever   *)
(* claim was under way (0160, 0162, R-202).                                *)
THEOREM NoQuantityLeavesUnconfirmed == Spec => NoQuantityUnconfirmed
<1>1. SwitchInv /\ [Next]_vars => [Leaves("QUANTITY") => account.confirmed]_vars
  BY LeavesConfirmed
<1> QED
  BY <1>1, SwitchesHold, PTL DEF Spec, NoQuantityUnconfirmed

(***************************************************************************)
(* What a transaction has made of the rows r, and what it has still to do. *)
(***************************************************************************)
SyncOf(s) == <<<<"sync", s>>, "X">>    \* the lock under which versions are taken
At(r, id) == r[id[1]][id[2]]
New(t, r) == {c \in t.changes : At(r, c[1]) = "NONE"}
Owned == {"SWITCH", "ANSWER", "CONFIRM", "REVOKE"}     \* what changes the account

(* The rows it goes through exist.                                         *)
Named(t, r) ==
  /\ \A id \in t.todo \cup t.waited : id \in Ids /\ At(r, id) # "NONE"
  /\ t.at = "ROW" \/ (t.op = "CLAIM" /\ t.at \in {"GUARD", "ADVISORY"})
       => t.row \in Ids /\ At(r, t.row) # "NONE"

(* It changes a row once; what is new is the next version of its scope,    *)
(* taken under the lock of the scope's versions; what waits is new.        *)
Changing(t, r) ==
  /\ \A c \in t.changes : c = <<c[1], c[2]>> /\ c[1] \in Ids /\ c[2] \in {"PENDING", "ENDED", "DISPATCHED"}
  /\ \A c, d \in t.changes : c[1] = d[1] => c = d
  /\ \A c \in t.changes : c[2] = "PENDING" => c \in New(t, r)
  /\ \A c \in New(t, r) : /\ t.op \in {"DECIDE", "RECALCULATE"} /\ SyncOf(c[1][1]) \in t.locks
                          /\ \A v \in 1..MaxVersion[c[1][1]] : v < c[1][2] => r[c[1][1]][v] # "NONE"

Unsending(t) == \A c \in t.changes : c[2] # "DISPATCHED"

(* A decision keeps its version until it has decided.                      *)
Versioned(t, r) ==
  /\ t.op = "DECIDE" => t.scope = "PRICE"
  /\ t.op = "RECALCULATE" => t.scope = "QUANTITY"
  /\ t.op = "CLAIM" => t.scope \in Scopes
  /\ t.op = "DECIDE" /\ t.at \in {"ROW", "GUARD"} => \E c \in New(t, r) : c[1][1] = "PRICE"

(* A switch into the shadow has ended, or will, what waited when it began. *)
Held(t, r, at, ids) ==
  \A id \in t.waited : At(r, id) = "PENDING" =>
    <<id, "ENDED">> \in t.changes \/ (at = "DROP" /\ id \in ids)

Turning(t, r) ==
  /\ t.op = "SWITCH" => t.arg \in {"SHADOW", "LIVE"}
  /\ t.op \in Owned /\ t.at \notin {"ACCOUNT", "ADVISORY"} => AccountRow \in t.locks
  /\ t.op = "SWITCH" /\ t.arg = "SHADOW" /\ t.at \notin {"ACCOUNT", "HOLD"} =>
       Held(t, r, IF t.at = "ROW" THEN t.then ELSE t.at,
            IF t.at = "ROW" THEN t.todo \cup {t.row} ELSE {})

Writes(t, r) ==
  /\ Named(t, r) /\ Changing(t, r) /\ Versioned(t, r) /\ Turning(t, r)
  /\ t.at # "COMMIT" => Unsending(t)

(* Statuses, and the versions of a scope are taken one after the other.    *)
RowsTyped(r) ==
  /\ r = [s \in Scopes |-> r[s]]
  /\ \A s \in Scopes : r[s] \in [1..MaxVersion[s] -> Statuses]

Grown(r) ==
  \A s \in Scopes : \E n \in 0..MaxVersion[s] :
    \A v \in 1..MaxVersion[s] : r[s][v] # "NONE" <=> v <= n

RowInv ==
  /\ RowsTyped(row) /\ Grown(row)
  /\ \A p \in Sessions : Writes(tx[p], row)
  /\ account.mode \in {"SHADOW", "LIVE"} /\ acts \in 0..MaxActs

(* A write is one of a version of a scope.                                 *)
LEMMA IdsOf ==
  /\ \A s \in Scopes : \A v \in 1..MaxVersion[s] : <<s, v>> \in Ids
  /\ \A id \in Ids : /\ id[1] \in Scopes /\ id[2] \in 1..MaxVersion[id[1]]
                     /\ id = <<id[1], id[2]>>
<1>1. \A s \in Scopes : MaxVersion[s] \in Nat
  BY SwitchesAssumption DEF SwitchesAssumption
<1>2. \A s \in Scopes : \A v \in 1..MaxVersion[s] : <<s, v>> \in Ids
  BY DEF Ids
<1>3. ASSUME NEW id \in Ids
      PROVE  id[1] \in Scopes /\ id[2] \in 1..MaxVersion[id[1]] /\ id = <<id[1], id[2]>>
  <2>1. PICK s \in Scopes : id \in {s} \X (1..MaxVersion[s])
    BY DEF Ids
  <2> QED BY <2>1
<1> QED BY <1>2, <1>3

LEMMA StatusIs == \A id : Status(id) = At(row, id)
BY DEF Status, At

(* The number of versions of a scope is its latest version.                *)
LEMMA LatestIs ==
  ASSUME Grown(row), NEW s \in Scopes
  PROVE  /\ Latest(s) \in 0..MaxVersion[s]
         /\ \A v \in 1..MaxVersion[s] : row[s][v] # "NONE" <=> v <= Latest(s)
<1>1. PICK n \in 0..MaxVersion[s] : \A v \in 1..MaxVersion[s] : row[s][v] # "NONE" <=> v <= n
  BY DEF Grown
<1> DEFINE T == {id \in Ids : id[1] = s /\ Status(id) # "NONE"}
           f == [v \in 1..n |-> <<s, v>>]
<1>2. MaxVersion[s] \in Nat
  BY SwitchesAssumption DEF SwitchesAssumption
<1>3. \A v \in 1..n : v \in 1..MaxVersion[s] /\ v <= n
  BY <1>1, <1>2
<1>4. \A v \in 1..n : <<s, v>> \in T
  <2> SUFFICES ASSUME NEW v \in 1..n PROVE <<s, v>> \in T
    OBVIOUS
  <2>1. v \in 1..MaxVersion[s] /\ row[s][v] # "NONE"
    BY <1>1, <1>3
  <2> QED BY <2>1, IdsOf DEF Status
<1>5. \A id \in T : \E v \in 1..n : id = <<s, v>>
  <2> SUFFICES ASSUME NEW id \in T PROVE \E v \in 1..n : id = <<s, v>>
    OBVIOUS
  <2>1. id[2] \in 1..MaxVersion[s] /\ id = <<s, id[2]>> /\ row[s][id[2]] # "NONE"
    BY IdsOf DEF Status
  <2>2. id[2] <= n
    BY <1>1, <2>1
  <2> QED BY <1>1, <1>2, <2>1, <2>2
<1> HIDE DEF T
<1>6. f \in Bijection(1..n, T)
  <2>1. f = [v \in 1..n |-> f[v]] /\ \A v \in 1..n : f[v] = <<s, v>>
    OBVIOUS
  <2>2. f \in [1..n -> T]
    BY <1>4
  <2> HIDE DEF f
  <2>3. \A v, w \in 1..n : f[v] = f[w] => v = w
    BY <2>1
  <2>4. \A id \in T : \E v \in 1..n : f[v] = id
    BY <1>5, <2>1
  <2>5. f \in Injection(1..n, T)
    BY <2>2, <2>3 DEF Injection, IsInjective
  <2>6. f \in Surjection(1..n, T)
    BY <2>2, <2>4 DEF Surjection
  <2> QED BY <2>5, <2>6 DEF Bijection
<1>7. Cardinality(T) = n
  <2>1. IsFiniteSet(1..n) /\ Cardinality(1..n) = n
    BY <1>1, <1>2, FS_Interval
  <2> HIDE DEF f
  <2>2. ExistsBijection(1..n, T)
    BY <1>6 DEF ExistsBijection
  <2> QED BY <2>1, <2>2, FS_Bijection
<1>8. Latest(s) = n
  BY <1>7 DEF Latest, T
<1> QED BY <1>1, <1>8

(***************************************************************************)
(* A step of one session that leaves the rows alone.                       *)
(***************************************************************************)
LEMMA IdleWrites == ASSUME NEW r PROVE Writes(Idle, r)
BY DEF Writes, Named, Changing, New, Versioned, Turning, Unsending, Idle, Owned

LEMMA GoWrites ==
  ASSUME SwitchInv, RowInv, NEW p \in Sessions, NEW t, Go(p, t), Writes(t, row),
         row' = row, account' = account, acts' \in 0..MaxActs
  PROVE  RowInv'
<1>1. \A q \in Sessions : tx'[q] = IF q = p THEN t ELSE tx[q]
  BY DEF SwitchInv, Shapes, Go
<1>2. \A q \in Sessions : Writes(tx'[q], row)
  BY <1>1 DEF RowInv
<1> QED BY <1>2 DEF RowInv

LEMMA RollbackWrites ==
  ASSUME SwitchInv, RowInv, NEW p \in Sessions, Rollback(p)
  PROVE  RowInv'
BY IdleWrites, GoWrites DEF Rollback, Unchanged, RowInv

(* A transaction t goes on as u, with the same changes to make.            *)
LEMMA OnWrites ==
  ASSUME NEW t, NEW u, Writes(t, row), t.at # "COMMIT",
         u.op = t.op, u.scope = t.scope, u.todo = t.todo, u.waited = t.waited,
         u.changes = t.changes, t.locks \subseteq u.locks,
         u.op = "SWITCH" => u.arg = t.arg,
         u.at = "ROW" \/ (u.op = "CLAIM" /\ u.at \in {"GUARD", "ADVISORY"})
           => u.row \in Ids /\ At(row, u.row) # "NONE",
         u.op = "DECIDE" /\ u.at \in {"ROW", "GUARD"} => t.at \in {"ROW", "GUARD"},
         u.op \in Owned /\ u.at \notin {"ACCOUNT", "ADVISORY"} => AccountRow \in u.locks,
         u.op = "SWITCH" /\ u.arg = "SHADOW" => u.at \in {"ACCOUNT", "HOLD"}
  PROVE  Writes(u, row)
<1>1. Named(u, row)
  BY DEF Writes, Named
<1>2. New(u, row) = New(t, row)
  BY DEF New
<1>3. Changing(u, row)
  BY <1>2 DEF Writes, Changing
<1>4. Versioned(u, row)
  BY <1>2 DEF Writes, Versioned
<1>5. Turning(u, row)
  BY DEF Writes, Turning
<1>6. Unsending(u)
  BY DEF Writes, Unsending
<1> QED BY <1>1, <1>3, <1>4, <1>5, <1>6 DEF Writes

(* A statement over several rows.                                          *)
LEMMA ThroughWrites ==
  ASSUME SwitchInv, RowInv, NEW p \in Sessions, NEW t, NEW ids, NEW then,
         Through(p, t, ids, then), UNCHANGED <<account, row, acts>>,
         Shaped(t), Changing(t, row), Unsending(t),
         \A id \in ids \cup t.waited : id \in Ids /\ At(row, id) # "NONE",
         t.op \in {"SWITCH", "CLAIM", "DECIDE", "RECALCULATE"},
         t.op = "CLAIM" => t.scope \in Scopes /\ then \notin {"GUARD", "ADVISORY"},
         t.op = "DECIDE" => t.scope = "PRICE" /\ \E c \in New(t, row) : c[1][1] = "PRICE",
         t.op = "RECALCULATE" => t.scope = "QUANTITY",
         t.op = "SWITCH" => t.arg \in {"SHADOW", "LIVE"} /\ AccountRow \in t.locks,
         t.op = "SWITCH" /\ t.arg = "SHADOW" => Held(t, row, then, ids),
         then # "ROW"
  PROVE  RowInv'
<1>1. acts' \in 0..MaxActs /\ account' = account /\ row' = row
  BY DEF RowInv
<1>2. ASSUME NEW u, Shaped(u), u.op = t.op, u.scope = t.scope, u.arg = t.arg, u.locks = t.locks,
             u.waited = t.waited, u.changes = t.changes,
             \/ u.at = then /\ u.todo = {} /\ ids = {}
             \/ u.at = "ROW" /\ u.then = then /\ ids = u.todo \cup {u.row}
      PROVE  Writes(u, row)
  <2>1. Named(u, row)
    BY <1>2 DEF Named
  <2>2. New(u, row) = New(t, row)
    BY <1>2 DEF New
  <2>3. Changing(u, row)
    BY <1>2, <2>2 DEF Changing
  <2>4. Versioned(u, row)
    BY <1>2, <2>2 DEF Versioned
  <2>5. Turning(u, row)
    BY <1>2 DEF Turning, Held, Owned
  <2>6. Unsending(u)
    BY <1>2 DEF Unsending
  <2> QED BY <2>1, <2>3, <2>4, <2>5, <2>6 DEF Writes
<1>3. CASE ids = {}
  <2> DEFINE u == [t EXCEPT !.at = then, !.row = NoRow, !.todo = {}, !.then = "IDLE"]
  <2>1. /\ Shaped(u) /\ u.op = t.op /\ u.scope = t.scope /\ u.arg = t.arg /\ u.locks = t.locks
        /\ u.waited = t.waited /\ u.changes = t.changes /\ u.at = then /\ u.todo = {}
    BY DEF Shaped, Fields
  <2>2. Go(p, u)
    BY <1>3 DEF Through
  <2> HIDE DEF u
  <2>3. Writes(u, row)
    BY <1>2, <1>3, <2>1
  <2> QED BY <1>1, <2>2, <2>3, GoWrites
<1>4. CASE ids # {}
  <2>1. PICK id \in ids :
          Go(p, [t EXCEPT !.at = "ROW", !.row = id, !.todo = ids \ {id}, !.then = then])
    BY <1>4 DEF Through
  <2> DEFINE u == [t EXCEPT !.at = "ROW", !.row = id, !.todo = ids \ {id}, !.then = then]
  <2>2. /\ Shaped(u) /\ u.op = t.op /\ u.scope = t.scope /\ u.arg = t.arg /\ u.locks = t.locks
        /\ u.waited = t.waited /\ u.changes = t.changes /\ u.at = "ROW" /\ u.todo = ids \ {id}
        /\ u.row = id /\ u.then = then
    BY DEF Shaped, Fields
  <2>3. Go(p, u)
    BY <2>1
  <2> HIDE DEF u
  <2>4. ids = u.todo \cup {u.row}
    BY <2>2
  <2>5. Writes(u, row)
    BY <1>2, <2>2, <2>4
  <2> QED BY <1>1, <2>3, <2>5, GoWrites
<1> QED BY <1>3, <1>4

(***************************************************************************)
(* The steps of each transaction.                                          *)
(***************************************************************************)
LEMMA BeginWrites ==
  ASSUME SwitchInv, RowInv, NEW p \in Sessions, NEW op, NEW at, NEW scope, NEW arg,
         Begin(p, op, at, scope, arg), acts' \in 0..MaxActs,
         at \in {"ACCOUNT", "ADVISORY", "SCOPE", "SYNC"},
         op \in {"CLAIM", "DECIDE", "RECALCULATE", "ANSWER", "CONFIRM", "REVOKE", "ENABLE"},
         op = "CLAIM" => scope \in Scopes /\ at = "SYNC",
         op = "DECIDE" => scope = "PRICE", op = "RECALCULATE" => scope = "QUANTITY",
         op \in Owned => at \in {"ACCOUNT", "ADVISORY"}
  PROVE  RowInv'
<1> DEFINE t == [Idle EXCEPT !.op = op, !.at = at, !.scope = scope, !.arg = arg]
<1>1. /\ t.op = op /\ t.at = at /\ t.scope = scope /\ t.changes = {}
      /\ t.todo = {} /\ t.waited = {}
  BY DEF Idle
<1>2. Go(p, t) /\ row' = row /\ account' = account
  BY DEF Begin
<1> HIDE DEF t
<1>3. Writes(t, row)
  BY <1>1 DEF Writes, Named, Changing, New, Versioned, Turning, Unsending, Owned
<1> QED BY <1>2, <1>3, GoWrites

LEMMA BeginSwitchWrites ==
  ASSUME SwitchInv, RowInv, NEW p \in Sessions, BeginSwitch(p)
  PROVE  RowInv'
<1> DEFINE t == [Idle EXCEPT !.op = "SWITCH", !.at = "ACCOUNT", !.waited = In({"PENDING"}),
                             !.arg = IF account.mode = "LIVE" THEN "SHADOW" ELSE "LIVE"]
<1>1. /\ t.op = "SWITCH" /\ t.at = "ACCOUNT" /\ t.changes = {} /\ t.todo = {}
      /\ t.waited = In({"PENDING"}) /\ t.arg \in {"SHADOW", "LIVE"}
  BY DEF Idle
<1>2. Go(p, t) /\ row' = row /\ account' = account /\ acts' \in 0..MaxActs
  BY SwitchesAssumption DEF BeginSwitch, RowInv, SwitchesAssumption
<1> HIDE DEF t
<1>3. \A id \in t.waited : id \in Ids /\ At(row, id) # "NONE"
  BY <1>1, StatusIs DEF In
<1>4. Writes(t, row)
  BY <1>1, <1>3 DEF Writes, Named, Changing, New, Versioned, Turning, Unsending, Owned
<1> QED BY <1>2, <1>4, GoWrites

(* What is common to the steps after the first.                            *)
LEMMA Midway ==
  ASSUME SwitchInv, RowInv, NEW p \in Sessions
  PROVE  /\ Good(tx[p], account) /\ Shaped(tx[p]) /\ Stands(tx[p]) /\ Writes(tx[p], row)
         /\ acts \in 0..MaxActs
BY DEF SwitchInv, Good, RowInv

(* A lock is taken, and the transaction goes on.                           *)
LEMMA LockWrites ==
  ASSUME SwitchInv, RowInv, NEW p \in Sessions, NEW at, Reaches(p, tx[p].at), tx[p].at # "COMMIT",
         NEW arg, tx[p].op = "SWITCH" => arg = tx[p].arg,
         Go(p, [Locked(p) EXCEPT !.at = at, !.arg = arg]), UNCHANGED <<account, row, acts>>,
         at \notin {"ROW", "ADVISORY"} \/ (at = "ADVISORY" /\ tx[p].op # "CLAIM"),
         tx[p].op = "DECIDE" => at # "GUARD",
         tx[p].op = "CLAIM" /\ at = "GUARD" => tx[p].at = "ROW",
         tx[p].op \in Owned /\ at \notin {"ACCOUNT", "ADVISORY"} =>
           tx[p].at = "ACCOUNT" \/ AccountRow \in tx[p].locks,
         tx[p].op = "SWITCH" /\ arg = "SHADOW" => at \in {"ACCOUNT", "HOLD"}
  PROVE  RowInv'
<1> DEFINE u == [Locked(p) EXCEPT !.at = at, !.arg = arg]
<1>0. Shaped(tx[p]) /\ Writes(tx[p], row) /\ acts \in 0..MaxActs
  BY Midway
<1>1. /\ u.op = tx[p].op /\ u.scope = tx[p].scope /\ u.todo = tx[p].todo /\ u.row = tx[p].row
      /\ u.waited = tx[p].waited /\ u.changes = tx[p].changes /\ u.at = at /\ u.arg = arg
      /\ u.locks = tx[p].locks \cup {Want(p)}
  BY <1>0 DEF Locked, Shaped, Fields
<1>2. tx[p].at = "ACCOUNT" => Want(p) = AccountRow
  BY DEF Want, AccountRow
<1> HIDE DEF u
<1>3. Writes(u, row)
  BY <1>0, <1>1, <1>2, OnWrites DEF Writes, Named
<1>4. Go(p, u)
  BY DEF u
<1> QED BY <1>0, <1>3, <1>4, GoWrites

(* Where the argument stays, the step is the same.                         *)
LEMMA SameArg ==
  ASSUME NEW p \in Sessions, Shaped(tx[p]), NEW at
  PROVE  [Locked(p) EXCEPT !.at = at] = [Locked(p) EXCEPT !.at = at, !.arg = tx[p].arg]
BY DEF Locked, Shaped, Fields

LEMMA OwnerLocksWrite ==
  ASSUME SwitchInv, RowInv, NEW p \in Sessions,
         \/ SwitchMode(p) \/ Answer(p) \/ ConfirmationGuard(p) \/ Confirm(p)
         \/ Revoke(p) \/ DisableSync(p) \/ EnableScope(p) \/ EnableGuard(p)
  PROVE  RowInv'
<1> USE DEF Unchanged
<1>0. Shaped(tx[p]) /\ Stands(tx[p]) /\ Writes(tx[p], row)
  BY Midway
<1>1. CASE SwitchMode(p)
  <2> DEFINE at == IF tx[p].arg = "SHADOW" THEN "HOLD" ELSE "COMMIT"
  <2>1. Go(p, [Locked(p) EXCEPT !.at = at, !.arg = tx[p].arg])
    BY <1>0, <1>1, SameArg DEF SwitchMode
  <2> QED BY <1>1, <2>1, LockWrites DEF SwitchMode, Reaches
<1>2. CASE Answer(p)
  <2>1. CASE tx[p].arg = "STOCK" /\ account.confirmed
    BY <1>2, <2>1, RollbackWrites DEF Answer
  <2>2. CASE ~(tx[p].arg = "STOCK" /\ account.confirmed)
    <3>1. Go(p, [Locked(p) EXCEPT !.at = "COMMIT", !.arg = tx[p].arg])
      BY <1>0, <1>2, <2>2, SameArg DEF Answer
    <3> QED BY <1>2, <2>2, <3>1, LockWrites DEF Answer, Reaches
  <2> QED BY <2>1, <2>2
<1>3. CASE ConfirmationGuard(p)
  <2>1. CASE Rollback(p)
    BY <2>1, RollbackWrites
  <2>2. CASE Go(p, [Locked(p) EXCEPT !.at = "ACCOUNT", !.arg = account.other]) /\ Unchanged
    BY <1>3, <2>2, LockWrites DEF ConfirmationGuard, Reaches
  <2> QED BY <1>3, <2>1, <2>2 DEF ConfirmationGuard
<1>4. CASE Confirm(p)
  <2>1. CASE account.other = "STOCK"
    BY <1>4, <2>1, RollbackWrites DEF Confirm
  <2>2. CASE account.other # "STOCK"
    <3>1. Go(p, [Locked(p) EXCEPT !.at = "COMMIT", !.arg = tx[p].arg])
      BY <1>0, <1>4, <2>2, SameArg DEF Confirm
    <3> QED BY <1>4, <2>2, <3>1, LockWrites DEF Confirm, Reaches
  <2> QED BY <2>1, <2>2
<1>5. CASE Revoke(p)
  <2> DEFINE at == IF enabled THEN "SCOPE" ELSE "DISCARD"
  <2>1. Go(p, [Locked(p) EXCEPT !.at = at, !.arg = tx[p].arg])
    BY <1>0, <1>5, SameArg DEF Revoke
  <2> QED BY <1>5, <2>1, LockWrites DEF Revoke, Reaches
<1>6. CASE DisableSync(p)
  <2>1. Go(p, [Locked(p) EXCEPT !.at = "DISCARD", !.arg = tx[p].arg])
    BY <1>0, <1>6, SameArg DEF DisableSync
  <2>2. AccountRow \in tx[p].locks
    BY <1>0, <1>6 DEF DisableSync, Reaches, Writes, Turning, Owned
  <2> QED BY <1>6, <2>1, <2>2, LockWrites DEF DisableSync, Reaches
<1>7. CASE EnableScope(p)
  <2>1. CASE enabled
    BY <1>7, <2>1, RollbackWrites DEF EnableScope
  <2>2. CASE ~enabled
    <3>1. Go(p, [Locked(p) EXCEPT !.at = "ADVISORY", !.arg = tx[p].arg])
      BY <1>0, <1>7, <2>2, SameArg DEF EnableScope
    <3> QED BY <1>7, <2>2, <3>1, LockWrites DEF EnableScope, Reaches
  <2> QED BY <2>1, <2>2
<1>8. CASE EnableGuard(p)
  <2>1. CASE ~account.confirmed
    BY <1>8, <2>1, RollbackWrites DEF EnableGuard
  <2>2. CASE account.confirmed
    <3>1. Go(p, [Locked(p) EXCEPT !.at = "COMMIT", !.arg = tx[p].arg])
      BY <1>0, <1>8, <2>2, SameArg DEF EnableGuard
    <3> QED BY <1>8, <2>2, <3>1, LockWrites DEF EnableGuard, Reaches, Owned
  <2> QED BY <2>1, <2>2
<1> QED BY <1>1, <1>2, <1>3, <1>4, <1>5, <1>6, <1>7, <1>8

LEMMA HoldWrites ==
  ASSUME SwitchInv, RowInv, NEW p \in Sessions, Hold(p) \/ Drop(p)
  PROVE  RowInv'
<1> USE DEF Unchanged
<1>0. Shaped(tx[p]) /\ Stands(tx[p]) /\ Writes(tx[p], row)
  BY Midway
<1>1. tx[p].op = "SWITCH" /\ tx[p].at \in {"HOLD", "DROP"}
  BY <1>0 DEF Hold, Drop, Stands
<1>2. /\ Changing(tx[p], row) /\ Unsending(tx[p]) /\ tx[p].arg \in {"SHADOW", "LIVE"}
      /\ AccountRow \in tx[p].locks /\ \A id \in tx[p].waited : id \in Ids /\ At(row, id) # "NONE"
  BY <1>0, <1>1 DEF Writes, Named, Turning, Owned
<1>3. CASE Hold(p)
  <2>1. \A id \in In({"PENDING"}) : id \in Ids /\ At(row, id) # "NONE"
    BY StatusIs DEF In
  <2>2. Held(tx[p], row, "DROP", In({"PENDING"}))
    BY <1>2, StatusIs DEF Held, In
  <2> QED BY <1>0, <1>1, <1>2, <1>3, <2>1, <2>2, ThroughWrites DEF Hold
<1>4. CASE Drop(p)
  <2>1. \A id \in In({"FAILED"}) : id \in Ids /\ At(row, id) # "NONE"
    BY StatusIs DEF In
  <2>2. tx[p].arg = "SHADOW" => Held(tx[p], row, "COMMIT", In({"FAILED"}))
    BY <1>0, <1>4, <1>1 DEF Drop, Held, Writes, Turning
  <2> QED BY <1>0, <1>1, <1>2, <1>4, <2>1, <2>2, ThroughWrites DEF Drop
<1> QED BY <1>3, <1>4

LEMMA DiscardWrites ==
  ASSUME SwitchInv, RowInv, NEW p \in Sessions, Discard(p)
  PROVE  RowInv'
<1> DEFINE ids == {id \in Of("QUANTITY", Waiting) : Free(p, <<Locker(id), "X">>)}
           changes == Ends(ids)
           locks == tx[p].locks \cup {<<Locker(id), "X">> : id \in ids}
           u == [tx[p] EXCEPT !.at = "COMMIT", !.changes = changes, !.locks = locks]
<1>0. Shaped(tx[p]) /\ Stands(tx[p]) /\ Writes(tx[p], row) /\ acts \in 0..MaxActs
  BY Midway
<1>1. tx[p].op = "REVOKE" /\ tx[p].at = "DISCARD" /\ AccountRow \in tx[p].locks
  BY <1>0 DEF Discard, Stands, Writes, Turning, Owned
<1>2. Go(p, u)
  BY DEF Discard
<1>3. \A c \in changes : c = <<c[1], "ENDED">> /\ c[1] \in Ids /\ At(row, c[1]) # "NONE"
  <2>1. \A id \in ids : id \in Ids /\ At(row, id) # "NONE"
    BY StatusIs DEF Of, In, Waiting
  <2> HIDE DEF ids
  <2>2. ASSUME NEW c \in changes PROVE \E id \in ids : c = <<id, "ENDED">>
    BY DEF Ends
  <2> QED BY <2>1, <2>2
<1> HIDE DEF changes
<1>4. tx[p].locks \subseteq locks
  OBVIOUS
<1> HIDE DEF locks
<1>5. /\ u.op = tx[p].op /\ u.at = "COMMIT" /\ u.changes = changes /\ u.locks = locks
      /\ u.todo = tx[p].todo /\ u.waited = tx[p].waited
  BY <1>0 DEF Shaped, Fields
<1> HIDE DEF u
<1>6. New(u, row) = {}
  BY <1>3, <1>5 DEF New
<1>7. Changing(u, row)
  BY <1>3, <1>5, <1>6 DEF Changing
<1>8. Named(u, row) /\ Versioned(u, row) /\ Turning(u, row)
  BY <1>0, <1>1, <1>4, <1>5 DEF Writes, Named, Versioned, Turning
<1>9. Writes(u, row)
  BY <1>5, <1>7, <1>8 DEF Writes
<1> QED BY <1>0, <1>2, <1>9, GoWrites DEF Discard, Unchanged

LEMMA OwnerWrites ==
  ASSUME SwitchInv, RowInv, NEW p \in Owners, OwnerActs(p)
  PROVE  RowInv'
<1>0. p \in Sessions
  BY DEF Sessions
<1>1. ASSUME NEW op, NEW at, NEW scope, NEW arg, Act(p, op, at, scope, arg)
      PROVE  acts' \in 0..MaxActs /\ Begin(p, op, at, scope, arg)
  BY <1>1, SwitchesAssumption DEF Act, RowInv, SwitchesAssumption
<1>2. ASSUME NEW a \in Answers \ {"UNKNOWN"}, Act(p, "ANSWER", "ACCOUNT", "NONE", a)
      PROVE  RowInv'
  BY <1>0, <1>1, <1>2, BeginWrites
<1>3. ASSUME NEW op \in {"CONFIRM", "REVOKE"}, Act(p, op, "ADVISORY", "QUANTITY", "NONE")
      PROVE  RowInv'
  BY <1>0, <1>1, <1>3, BeginWrites
<1>4. ASSUME Act(p, "ENABLE", "SCOPE", "QUANTITY", "NONE")
      PROVE  RowInv'
  BY <1>0, <1>1, <1>4, BeginWrites DEF Owned
<1> QED
  BY <1>0, <1>2, <1>3, <1>4, BeginSwitchWrites, OwnerLocksWrite, HoldWrites, DiscardWrites
     DEF OwnerActs

(***************************************************************************)
(* Claims.                                                                 *)
(***************************************************************************)
LEMMA ClaimWrites ==
  ASSUME SwitchInv, RowInv, NEW p \in Sessions, ClaimSync(p) \/ ClaimRow(p)
  PROVE  RowInv'
<1> USE DEF Unchanged
<1>0. Shaped(tx[p]) /\ Stands(tx[p]) /\ Writes(tx[p], row)
  BY Midway
<1>1. CASE ClaimSync(p)
  <2>1. Go(p, [Locked(p) EXCEPT !.at = "PICK", !.arg = tx[p].arg])
    BY <1>0, <1>1, SameArg DEF ClaimSync
  <2> QED BY <1>1, <2>1, LockWrites DEF ClaimSync, Reaches, Owned
<1>2. CASE ClaimRow(p)
  <2>1. CASE Status(tx[p].row) \in Waiting
    <3>1. Go(p, [Locked(p) EXCEPT !.at = "GUARD", !.arg = tx[p].arg])
      BY <1>0, <1>2, <2>1, SameArg DEF ClaimRow
    <3> QED BY <1>2, <2>1, <3>1, LockWrites DEF ClaimRow, Reaches, Owned
  <2>2. CASE Status(tx[p].row) \notin Waiting
    BY <1>2, <2>2, RollbackWrites DEF ClaimRow
  <2> QED BY <2>1, <2>2
<1> QED BY <1>1, <1>2

LEMMA PickWrites ==
  ASSUME SwitchInv, RowInv, NEW p \in Sessions, Pick(p)
  PROVE  RowInv'
<1> USE DEF Unchanged
<1>0. Shaped(tx[p]) /\ Stands(tx[p]) /\ Writes(tx[p], row) /\ acts \in 0..MaxActs
  BY Midway
<1>1. tx[p].op = "CLAIM" /\ tx[p].at = "PICK"
  BY <1>0 DEF Pick, Stands
<1>2. CASE Of(tx[p].scope, {"DISPATCHED"}) # {} \/ Candidates(p) = {}
  <2> DEFINE u == [tx[p] EXCEPT !.at = "COMMIT"]
  <2>1. /\ u.op = "CLAIM" /\ u.scope = tx[p].scope /\ u.todo = tx[p].todo /\ u.at = "COMMIT"
        /\ u.waited = tx[p].waited /\ u.changes = tx[p].changes /\ u.locks = tx[p].locks
    BY <1>0, <1>1 DEF Shaped, Fields
  <2>2. Go(p, u)
    BY <1>2 DEF Pick
  <2> HIDE DEF u
  <2>3. Writes(u, row)
    BY <1>0, <1>1, <2>1, OnWrites DEF Owned
  <2> QED BY <1>0, <2>2, <2>3, GoWrites DEF Pick
<1>3. CASE ~(Of(tx[p].scope, {"DISPATCHED"}) # {} \/ Candidates(p) = {})
  <2>1. PICK id \in Newest(Candidates(p)) :
          Go(p, [tx[p] EXCEPT !.at = "ROW", !.row = id,
                              !.then = IF id[2] < Latest(tx[p].scope) THEN "PICK" ELSE "GUARD"])
    BY <1>3 DEF Pick
  <2> DEFINE then == IF id[2] < Latest(tx[p].scope) THEN "PICK" ELSE "GUARD"
             u == [tx[p] EXCEPT !.at = "ROW", !.row = id, !.then = then]
  <2>2. id \in Ids /\ At(row, id) # "NONE"
    BY StatusIs DEF Newest, Candidates, Of, In, Waiting
  <2>3. Go(p, u)
    BY <2>1
  <2> HIDE DEF then
  <2>4. /\ u.op = "CLAIM" /\ u.scope = tx[p].scope /\ u.todo = tx[p].todo /\ u.at = "ROW"
        /\ u.waited = tx[p].waited /\ u.changes = tx[p].changes /\ u.locks = tx[p].locks
        /\ u.row = id
    BY <1>0, <1>1 DEF Shaped, Fields
  <2> HIDE DEF u
  <2>5. Writes(u, row)
    BY <1>0, <1>1, <2>2, <2>4, OnWrites DEF Owned
  <2> QED BY <1>0, <2>3, <2>5, GoWrites DEF Pick
<1> QED BY <1>2, <1>3

LEMMA RefusedWrites ==
  ASSUME SwitchInv, RowInv, NEW p \in Sessions, Refused(p), UNCHANGED <<account, row, acts>>,
         tx[p].op = "CLAIM", tx[p].at \in {"GUARD", "ADVISORY"}
  PROVE  RowInv'
<1> DEFINE locks == {l \in tx[p].locks : l[1] = <<"sync", tx[p].scope>>}
           u == [tx[p] EXCEPT !.at = "ROW", !.then = "COMMIT", !.locks = locks]
<1>0. Shaped(tx[p]) /\ Writes(tx[p], row) /\ acts \in 0..MaxActs
  BY Midway
<1>1. Go(p, u)
  BY DEF Refused
<1> HIDE DEF locks
<1>2. /\ u.op = "CLAIM" /\ u.scope = tx[p].scope /\ u.todo = tx[p].todo /\ u.row = tx[p].row
      /\ u.waited = tx[p].waited /\ u.changes = tx[p].changes /\ u.at = "ROW"
  BY <1>0 DEF Shaped, Fields
<1> HIDE DEF u
<1>3. New(u, row) = New(tx[p], row) /\ New(tx[p], row) = {}
  BY <1>0, <1>2 DEF New, Writes, Changing
<1>4. Changing(u, row)
  BY <1>0, <1>2, <1>3 DEF Writes, Changing
<1>5. Named(u, row) /\ Versioned(u, row) /\ Turning(u, row) /\ Unsending(u)
  BY <1>0, <1>2 DEF Writes, Named, Versioned, Turning, Unsending, Owned
<1>6. Writes(u, row)
  BY <1>4, <1>5 DEF Writes
<1> QED BY <1>0, <1>1, <1>6, GoWrites

(* A write is sent: one that waits, or the new one of its transaction.     *)
LEMMA DispatchWrites ==
  ASSUME NEW t, Shaped(t), Writes(t, row), t.op \in {"CLAIM", "DECIDE"}, NEW id \in Ids,
         At(row, id) = "NONE" => \E c \in New(t, row) : c[1] = id
  PROVE  Writes(Dispatch(t, id), row)
<1> DEFINE changes == {c \in t.changes : c[1] # id} \cup {<<id, "DISPATCHED">>}
           u == [t EXCEPT !.at = "COMMIT", !.changes = changes]
<1>1. Dispatch(t, id) = u
  BY DEF Dispatch
<1>2. /\ \A c \in changes : (c \in t.changes /\ c[1] # id) \/ c = <<id, "DISPATCHED">>
      /\ \A c \in t.changes : c[1] # id => c \in changes
  OBVIOUS
<1> HIDE DEF changes
<1>3. /\ u.op = t.op /\ u.scope = t.scope /\ u.todo = t.todo /\ u.waited = t.waited
      /\ u.locks = t.locks /\ u.changes = changes /\ u.at = "COMMIT"
  BY DEF Shaped, Fields
<1> HIDE DEF u
<1>4. ASSUME NEW c \in New(u, row) PROVE \E d \in New(t, row) : d[1] = c[1]
  BY <1>2, <1>3, <1>4 DEF New
<1>5. \A c \in changes : c = <<c[1], c[2]>> /\ c[1] \in Ids /\ c[2] \in {"PENDING", "ENDED", "DISPATCHED"}
  BY <1>2 DEF Writes, Changing
<1>6. \A c, d \in changes : c[1] = d[1] => c = d
  BY <1>2 DEF Writes, Changing
<1>7. \A c \in changes : c[2] = "PENDING" => c \in New(u, row)
  BY <1>2, <1>3 DEF Writes, Changing, New
<1>8. \A c \in New(u, row) :
        /\ u.op \in {"DECIDE", "RECALCULATE"} /\ SyncOf(c[1][1]) \in u.locks
        /\ \A v \in 1..MaxVersion[c[1][1]] : v < c[1][2] => row[c[1][1]][v] # "NONE"
  BY <1>3, <1>4 DEF Writes, Changing
<1>9. Changing(u, row)
  BY <1>3, <1>5, <1>6, <1>7, <1>8 DEF Changing
<1>10. Named(u, row) /\ Versioned(u, row) /\ Turning(u, row)
  BY <1>3 DEF Writes, Named, Versioned, Turning, Owned
<1> QED BY <1>1, <1>3, <1>9, <1>10 DEF Writes

LEMMA GuardWrites ==
  ASSUME SwitchInv, RowInv, NEW p \in Sessions, ModeGuard(p) \/ QuantityGuard(p)
  PROVE  RowInv'
<1> USE DEF Unchanged
<1>0. Shaped(tx[p]) /\ Stands(tx[p]) /\ Writes(tx[p], row) /\ acts \in 0..MaxActs
  BY Midway
<1>1. /\ tx[p].op = "CLAIM" /\ tx[p].at \in {"GUARD", "ADVISORY"}
      /\ tx[p].row \in Ids /\ At(row, tx[p].row) # "NONE"
  BY <1>0 DEF ModeGuard, QuantityGuard, Reaches, Writes, Named
<1>2. CASE ModeGuard(p)
  <2>1. CASE account.mode = "SHADOW"
    BY <1>1, <1>2, <2>1, RefusedWrites DEF ModeGuard
  <2>2. CASE account.mode # "SHADOW" /\ tx[p].scope = "QUANTITY"
    <3> DEFINE u == [tx[p] EXCEPT !.at = "ADVISORY"]
    <3>1. /\ u.op = "CLAIM" /\ u.scope = tx[p].scope /\ u.todo = tx[p].todo /\ u.at = "ADVISORY"
          /\ u.waited = tx[p].waited /\ u.changes = tx[p].changes /\ u.locks = tx[p].locks
          /\ u.row = tx[p].row
      BY <1>0, <1>1 DEF Shaped, Fields
    <3>2. Go(p, u)
      BY <1>2, <2>2 DEF ModeGuard
    <3> HIDE DEF u
    <3>3. tx[p].at # "COMMIT"
      BY <1>1
    <3>4. Writes(u, row)
      BY <1>0, <1>1, <3>1, <3>3, OnWrites DEF Owned
    <3> QED BY <1>0, <1>2, <3>2, <3>4, GoWrites DEF ModeGuard
  <2>3. CASE account.mode # "SHADOW" /\ tx[p].scope # "QUANTITY"
    <3>1. Go(p, Dispatch(tx[p], tx[p].row))
      BY <1>2, <2>3 DEF ModeGuard
    <3>2. Writes(Dispatch(tx[p], tx[p].row), row)
      BY <1>0, <1>1, DispatchWrites
    <3> QED BY <1>0, <1>2, <3>1, <3>2, GoWrites DEF ModeGuard
  <2> QED BY <2>1, <2>2, <2>3
<1>3. CASE QuantityGuard(p)
  <2>1. CASE ~account.confirmed
    BY <1>1, <1>3, <2>1, RefusedWrites DEF QuantityGuard
  <2>2. CASE account.confirmed
    <3> DEFINE t == Locked(p)
    <3>1. /\ Shaped(t) /\ t.op = "CLAIM" /\ t.scope = tx[p].scope /\ t.todo = tx[p].todo
          /\ t.at = tx[p].at /\ t.row = tx[p].row /\ t.arg = tx[p].arg
          /\ t.waited = tx[p].waited /\ t.changes = tx[p].changes /\ tx[p].locks \subseteq t.locks
      BY <1>0, <1>1 DEF Locked, Shaped, Fields
    <3>2. Go(p, Dispatch(t, tx[p].row))
      BY <1>3, <2>2 DEF QuantityGuard
    <3> HIDE DEF t
    <3>3. Writes(t, row)
      <4>1. tx[p].at # "COMMIT" /\ t.op \notin Owned
        BY <1>1, <3>1 DEF Owned
      <4> QED BY <1>0, <1>1, <3>1, <4>1, OnWrites
    <3>4. Writes(Dispatch(t, tx[p].row), row)
      BY <1>1, <3>1, <3>3, DispatchWrites
    <3> QED BY <1>0, <1>3, <3>2, <3>4, GoWrites DEF QuantityGuard
  <2> QED BY <2>1, <2>2
<1> QED BY <1>2, <1>3

(***************************************************************************)
(* New versions.                                                           *)
(***************************************************************************)
LEMMA InsertScopeWrites ==
  ASSUME SwitchInv, RowInv, NEW p \in Sessions, InsertScope(p)
  PROVE  RowInv'
<1>1. CASE tx[p].op = "RECALCULATE" /\ ~enabled
  BY <1>1, RollbackWrites DEF InsertScope
<1>2. CASE ~(tx[p].op = "RECALCULATE" /\ ~enabled)
  <2>1. /\ Go(p, [Locked(p) EXCEPT !.at = "SYNC", !.arg = account.mode])
        /\ UNCHANGED <<account, row, acts>>
    BY <1>2 DEF InsertScope, Unchanged
  <2>2. /\ tx[p].op \in {"DECIDE", "RECALCULATE"} /\ tx[p].op \notin Owned /\ tx[p].at = "SCOPE"
        /\ Reaches(p, tx[p].at)
    BY DEF InsertScope, Reaches, Owned
  <2> DEFINE mode == account.mode
  <2>3. Go(p, [Locked(p) EXCEPT !.at = "SYNC", !.arg = mode])
    BY <2>1
  <2> HIDE DEF mode
  <2> QED BY <2>1, <2>2, <2>3, LockWrites
<1> QED BY <1>1, <1>2

LEMMA InsertRowWrites ==
  ASSUME SwitchInv, RowInv, NEW p \in Sessions, InsertRow(p)
  PROVE  RowInv'
<1> DEFINE s == tx[p].scope
           n == Latest(s)
           status == IF tx[p].arg = "LIVE" THEN "PENDING" ELSE "ENDED"
           changes == {<<<<s, n + 1>>, status>>}
           t == [Locked(p) EXCEPT !.changes = changes]
           then == IF tx[p].op = "DECIDE" /\ tx[p].arg = "LIVE" THEN "GUARD" ELSE "COMMIT"
<1>0. Shaped(tx[p]) /\ Stands(tx[p]) /\ Writes(tx[p], row) /\ acts \in 0..MaxActs
  BY Midway
<1>1. /\ tx[p].op \in {"DECIDE", "RECALCULATE"} /\ tx[p].at = "SYNC" /\ Room(s)
      /\ Through(p, t, Of(s, Waiting), then) /\ UNCHANGED <<account, row, acts>>
  BY DEF InsertRow, Reaches, Unchanged
<1>2. Want(p) = SyncOf(s)
  BY <1>1 DEF Want, SyncOf
<1>3. s \in Scopes /\ (tx[p].op = "DECIDE" => s = "PRICE") /\ (tx[p].op = "RECALCULATE" => s = "QUANTITY")
  BY <1>0, <1>1 DEF Writes, Versioned, Scopes
<1>4. /\ n + 1 \in 1..MaxVersion[s] /\ row[s][n + 1] = "NONE"
      /\ \A v \in 1..MaxVersion[s] : v < n + 1 => row[s][v] # "NONE"
  <2>1. /\ n \in 0..MaxVersion[s] /\ n < MaxVersion[s] /\ MaxVersion[s] \in Nat
        /\ \A v \in 1..MaxVersion[s] : row[s][v] # "NONE" <=> v <= n
    BY <1>1, <1>3, LatestIs, SwitchesAssumption DEF Room, RowInv, SwitchesAssumption
  <2> HIDE DEF n
  <2> QED BY <2>1
<1>5. status \in {"PENDING", "ENDED"} /\ then \in {"GUARD", "COMMIT"}
  OBVIOUS
<1> HIDE DEF n, status, then
<1>6. <<s, n + 1>> \in Ids
  BY <1>3, <1>4, IdsOf
<1> DEFINE new == <<<<s, n + 1>>, status>>
<1>7. /\ Shaped(t) /\ t.op = tx[p].op /\ t.scope = s /\ t.waited = tx[p].waited /\ t.arg = tx[p].arg
      /\ t.changes = {new} /\ SyncOf(s) \in t.locks
  BY <1>0, <1>2 DEF Locked, Shaped, Fields
<1>8. At(row, new[1]) = "NONE" /\ new[1] = <<s, n + 1>> /\ new[2] = status /\ new[1][1] = s /\ new[1][2] = n + 1
  BY <1>4 DEF At
<1> HIDE DEF t, new
<1>9. New(t, row) = {new}
  BY <1>7, <1>8 DEF New
<1>10. new = <<new[1], new[2]>>
  BY <1>8 DEF new
<1>11. Changing(t, row) /\ Unsending(t)
  BY <1>1, <1>4, <1>5, <1>6, <1>7, <1>8, <1>9, <1>10 DEF Changing, Unsending
<1>12. \A id \in Of(s, Waiting) \cup t.waited : id \in Ids /\ At(row, id) # "NONE"
  BY <1>0, <1>7, StatusIs DEF Of, In, Waiting, Writes, Named
<1> QED BY <1>1, <1>3, <1>5, <1>7, <1>8, <1>9, <1>11, <1>12, ThroughWrites

LEMMA DecideWrites ==
  ASSUME SwitchInv, RowInv, NEW p \in Sessions, DecideGuard(p)
  PROVE  RowInv'
<1> USE DEF Unchanged
<1>0. Shaped(tx[p]) /\ Writes(tx[p], row) /\ acts \in 0..MaxActs /\ Grown(row)
  BY Midway DEF RowInv
<1>1. tx[p].op = "DECIDE" /\ tx[p].at = "GUARD"
  BY DEF DecideGuard
<1>2. CASE Of("PRICE", {"DISPATCHED"}) # {}
  <2> DEFINE u == [tx[p] EXCEPT !.at = "COMMIT"]
  <2>1. /\ u.op = "DECIDE" /\ u.scope = tx[p].scope /\ u.todo = tx[p].todo /\ u.at = "COMMIT"
        /\ u.waited = tx[p].waited /\ u.changes = tx[p].changes /\ u.locks = tx[p].locks
    BY <1>0, <1>1 DEF Shaped, Fields
  <2>2. Go(p, u)
    BY <1>2 DEF DecideGuard
  <2> HIDE DEF u
  <2>3. Writes(u, row)
    BY <1>0, <1>1, <2>1, OnWrites DEF Owned
  <2> QED BY <1>0, <1>2, <2>2, <2>3, GoWrites DEF DecideGuard
<1>3. CASE Of("PRICE", {"DISPATCHED"}) = {} /\ account.mode = "SHADOW"
  BY <1>3, RollbackWrites DEF DecideGuard
<1>4. CASE Of("PRICE", {"DISPATCHED"}) = {} /\ account.mode # "SHADOW"
  <2> DEFINE n == Latest("PRICE")
  <2>1. PICK c \in New(tx[p], row) : c[1][1] = "PRICE"
    BY <1>0, <1>1 DEF Writes, Versioned
  <2>2. c \in tx[p].changes /\ At(row, c[1]) = "NONE" /\ c[1] \in Ids
    BY <1>0, <2>1 DEF New, Writes, Changing
  <2>3. c[1][2] \in 1..MaxVersion["PRICE"] /\ c[1] = <<"PRICE", c[1][2]>>
    BY <2>1, <2>2, IdsOf
  <2>4. /\ n \in 0..MaxVersion["PRICE"] /\ MaxVersion["PRICE"] \in Nat
        /\ \A v \in 1..MaxVersion["PRICE"] : row["PRICE"][v] # "NONE" <=> v <= n
    BY <1>0, LatestIs, SwitchesAssumption DEF Scopes, SwitchesAssumption
  <2>5. \A v \in 1..MaxVersion["PRICE"] : v < c[1][2] => row["PRICE"][v] # "NONE"
    BY <1>0, <2>1 DEF Writes, Changing
  <2> HIDE DEF n
  <2>6. ~ (c[1][2] <= n)
    BY <2>1, <2>2, <2>3, <2>4 DEF At
  <2>7. n + 1 = c[1][2]
    <3>1. ASSUME n + 1 < c[1][2] PROVE FALSE
      <4>1. n + 1 \in 1..MaxVersion["PRICE"]
        BY <2>3, <2>4, <3>1
      <4>2. row["PRICE"][n + 1] # "NONE"
        BY <2>5, <3>1, <4>1
      <4> QED BY <2>4, <4>1, <4>2
    <3> QED BY <2>3, <2>4, <2>6, <3>1
  <2>8. <<"PRICE", n + 1>> = c[1]
    BY <2>3, <2>7
  <2>9. Writes(Dispatch(tx[p], c[1]), row)
    BY <1>0, <1>1, <2>1, <2>2, DispatchWrites
  <2>10. Go(p, Dispatch(tx[p], c[1])) /\ UNCHANGED <<account, row, acts>>
    BY <1>4, <2>8 DEF DecideGuard, n
  <2> QED BY <1>0, <2>9, <2>10, GoWrites
<1> QED BY <1>2, <1>3, <1>4

LEMMA EndRowWrites ==
  ASSUME SwitchInv, RowInv, NEW p \in Sessions, EndRow(p)
  PROVE  RowInv'
<1> USE DEF Unchanged
<1>0. Shaped(tx[p]) /\ Stands(tx[p]) /\ Writes(tx[p], row) /\ acts \in 0..MaxActs
  BY Midway
<1>1. tx[p].at = "ROW" /\ (tx[p].then # "GUARD" \/ tx[p].op # "CLAIM")
  BY DEF EndRow, Reaches
<1>2. /\ tx[p].op \in {"SWITCH", "CLAIM", "DECIDE", "RECALCULATE"}
      /\ tx[p].then \in {"DROP", "COMMIT", "PICK", "GUARD"}
      /\ tx[p].op = "SWITCH" => tx[p].then \in {"DROP", "COMMIT"}
      /\ tx[p].op = "CLAIM" => tx[p].then \notin {"GUARD", "ADVISORY"}
  BY <1>0, <1>1 DEF Stands
<1>3. /\ Changing(tx[p], row) /\ Unsending(tx[p]) /\ tx[p].row \in Ids /\ At(row, tx[p].row) # "NONE"
      /\ \A id \in tx[p].todo \cup tx[p].waited : id \in Ids /\ At(row, id) # "NONE"
      /\ tx[p].op = "CLAIM" => tx[p].scope \in Scopes
      /\ tx[p].op = "DECIDE" => tx[p].scope = "PRICE" /\ \E c \in New(tx[p], row) : c[1][1] = "PRICE"
      /\ tx[p].op = "RECALCULATE" => tx[p].scope = "QUANTITY"
      /\ tx[p].op = "SWITCH" => tx[p].arg \in {"SHADOW", "LIVE"} /\ AccountRow \in tx[p].locks
      /\ tx[p].op = "SWITCH" /\ tx[p].arg = "SHADOW" =>
           Held(tx[p], row, tx[p].then, tx[p].todo \cup {tx[p].row})
  BY <1>0, <1>1 DEF Writes, Named, Versioned, Turning, Owned
<1>4. UNCHANGED <<account, row, acts>>
  BY DEF EndRow
<1>5. CASE Status(tx[p].row) \notin Sought(tx[p])
  <2>1. Through(p, tx[p], tx[p].todo, tx[p].then)
    BY <1>5 DEF EndRow
  <2>2. tx[p].op = "SWITCH" /\ tx[p].arg = "SHADOW" => Held(tx[p], row, tx[p].then, tx[p].todo)
    <3>1. tx[p].op = "SWITCH" /\ tx[p].then = "DROP" => At(row, tx[p].row) # "PENDING"
      BY <1>5, StatusIs DEF Sought
    <3> QED BY <1>3, <3>1 DEF Held
  <2> QED BY <1>0, <1>2, <1>3, <1>4, <2>1, <2>2, ThroughWrites
<1>6. CASE Status(tx[p].row) \in Sought(tx[p])
  <2> DEFINE end == <<tx[p].row, "ENDED">>
             t == [Locked(p) EXCEPT !.changes = tx[p].changes \cup {end}]
  <2>1. Through(p, t, tx[p].todo, tx[p].then)
    <3>1. Locked(p).changes = tx[p].changes /\ Ends({tx[p].row}) = {end}
      BY <1>0 DEF Ends, Locked, Shaped, Fields
    <3> QED BY <1>6, <3>1 DEF EndRow
  <2>2. end[1] = tx[p].row /\ end[2] = "ENDED" /\ end = <<end[1], end[2]>>
    OBVIOUS
  <2>3. /\ Shaped(t) /\ t.op = tx[p].op /\ t.scope = tx[p].scope /\ t.arg = tx[p].arg
        /\ t.waited = tx[p].waited /\ t.changes = tx[p].changes \cup {end}
        /\ tx[p].locks \subseteq t.locks
    <3> HIDE DEF end
    <3> QED BY <1>0 DEF Locked, Shaped, Fields
  <2> HIDE DEF t
  <2>4. New(t, row) = New(tx[p], row)
    BY <1>3, <2>2, <2>3 DEF New
  <2>5. \A c \in tx[p].changes : c[1] = tx[p].row => c = end
    <3> SUFFICES ASSUME NEW c \in tx[p].changes, c[1] = tx[p].row PROVE c = end
      OBVIOUS
    <3>1. c \notin New(tx[p], row)
      BY <1>3 DEF New
    <3>2. c = <<c[1], c[2]>> /\ c[2] = "ENDED"
      BY <1>3, <3>1 DEF Changing, Unsending
    <3> QED BY <3>2
  <2>6. Unsending(t)
    BY <1>3, <2>2, <2>3 DEF Unsending
  <2>7. Held(tx[p], row, tx[p].then, tx[p].todo \cup {tx[p].row}) => Held(t, row, tx[p].then, tx[p].todo)
    BY <2>3 DEF Held
  <2> HIDE DEF end
  <2>8. Changing(t, row)
    <3>1. \A c \in t.changes : c \in tx[p].changes \/ c = end
      BY <2>3
    <3>2. \A c \in t.changes : c = <<c[1], c[2]>> /\ c[1] \in Ids /\ c[2] \in {"PENDING", "ENDED", "DISPATCHED"}
      BY <1>3, <2>2, <3>1 DEF Changing
    <3>3. \A c, d \in t.changes : c[1] = d[1] => c = d
      BY <1>3, <2>2, <2>5, <3>1 DEF Changing
    <3>4. \A c \in t.changes : c[2] = "PENDING" => c \in New(t, row)
      BY <1>3, <2>2, <2>4, <3>1 DEF Changing
    <3>5. \A c \in New(t, row) :
            /\ t.op \in {"DECIDE", "RECALCULATE"} /\ SyncOf(c[1][1]) \in t.locks
            /\ \A v \in 1..MaxVersion[c[1][1]] : v < c[1][2] => row[c[1][1]][v] # "NONE"
      BY <1>3, <2>3, <2>4 DEF Changing
    <3> QED BY <3>2, <3>3, <3>4, <3>5 DEF Changing
  <2> QED BY <1>2, <1>3, <1>4, <2>1, <2>3, <2>4, <2>6, <2>7, <2>8, ThroughWrites
<1> QED BY <1>5, <1>6

(***************************************************************************)
(* What a commit, or an outcome, makes of the rows for others.             *)
(***************************************************************************)
(* Rows r follow the present ones for a transaction that holds locks: a    *)
(* status stays a status, only a new row comes to wait, and under its lock *)
(* a scope gets no version.                                                *)
Follows(r, locks) ==
  \A id \in Ids :
    /\ At(row, id) # "NONE" => At(r, id) # "NONE"
    /\ At(r, id) = "PENDING" => At(row, id) \in {"PENDING", "NONE"}
    /\ At(row, id) = "NONE" /\ SyncOf(id[1]) \in locks => At(r, id) = "NONE"

LEMMA OthersWrite ==
  ASSUME NEW t, Writes(t, row), NEW r, Follows(r, t.locks)
  PROVE  Writes(t, r)
<1>1. Named(t, r)
  BY DEF Writes, Named, Follows
<1>2. \A c \in t.changes : c[1] \in Ids
  BY DEF Writes, Changing
<1>3. New(t, r) = New(t, row)
  <2>1. ASSUME NEW c \in New(t, row) PROVE c \in New(t, r)
    <3>1. c \in t.changes /\ c[1] \in Ids /\ At(row, c[1]) = "NONE" /\ SyncOf(c[1][1]) \in t.locks
      BY <1>2, <2>1 DEF New, Writes, Changing
    <3> QED BY <3>1 DEF New, Follows
  <2>2. ASSUME NEW c \in New(t, r) PROVE c \in New(t, row)
    BY <1>2, <2>2 DEF New, Follows
  <2> QED BY <2>1, <2>2
<1>4. ASSUME NEW c \in New(t, r), NEW v \in 1..MaxVersion[c[1][1]], v < c[1][2]
      PROVE  r[c[1][1]][v] # "NONE"
  <2>1. c \in New(t, row)
    BY <1>3
  <2>2. row[c[1][1]][v] # "NONE" /\ c[1][1] \in Scopes
    BY <1>2, <1>4, <2>1, IdsOf DEF Writes, Changing, New
  <2> DEFINE id == <<c[1][1], v>>
  <2>3. id \in Ids /\ id[1] = c[1][1] /\ id[2] = v
    BY <2>2, IdsOf
  <2> HIDE DEF id
  <2>4. At(row, id) # "NONE"
    BY <2>2, <2>3 DEF At
  <2>5. At(r, id) # "NONE"
    BY <2>3, <2>4 DEF Follows
  <2> QED BY <2>3, <2>5 DEF At
<1>5. Changing(t, r)
  BY <1>3, <1>4 DEF Writes, Changing
<1>6. Versioned(t, r)
  BY <1>3 DEF Writes, Versioned
<1>7. \A id \in t.waited : At(r, id) = "PENDING" => At(row, id) = "PENDING"
  BY DEF Writes, Named, Follows
<1>8. Turning(t, r)
  BY <1>7 DEF Writes, Turning, Held
<1> QED BY <1>1, <1>5, <1>6, <1>8 DEF Writes

LEMMA SettleWrites ==
  ASSUME SwitchInv, RowInv, NEW id \in Ids, NEW status \in {"FAILED", "ENDED"}, Settle(id, status)
  PROVE  RowInv'
<1>1. /\ At(row, id) = "DISPATCHED" /\ row' = [row EXCEPT ![id[1]][id[2]] = status]
      /\ account' = account /\ tx' = tx /\ acts' = acts
  BY StatusIs DEF Settle
<1>2. id[1] \in Scopes /\ id[2] \in 1..MaxVersion[id[1]] /\ id = <<id[1], id[2]>>
  BY IdsOf
<1>3. \A s \in Scopes : row[s] \in [1..MaxVersion[s] -> Statuses]
  BY DEF RowInv, RowsTyped
<1>4. \A s \in Scopes : row'[s] = IF s = id[1] THEN [row[s] EXCEPT ![id[2]] = status] ELSE row[s]
  BY <1>1, <1>2 DEF RowInv, RowsTyped
<1>5. \A s \in Scopes : \A v \in 1..MaxVersion[s] :
        row'[s][v] = IF s = id[1] /\ v = id[2] THEN status ELSE row[s][v]
  BY <1>2, <1>3, <1>4
<1>6. RowsTyped(row')
  <2>1. row' = [s \in Scopes |-> row'[s]]
    BY <1>1 DEF RowInv, RowsTyped
  <2>2. status \in Statuses
    BY DEF Statuses, Waiting
  <2>3. \A s \in Scopes : row'[s] \in [1..MaxVersion[s] -> Statuses]
    <3>1. ASSUME NEW s \in Scopes PROVE row'[s] \in [1..MaxVersion[s] -> Statuses]
      <4>1. row[s] \in [1..MaxVersion[s] -> Statuses]
        BY <1>3
      <4>2. CASE s = id[1]
        <5>1. row'[s] = [row[s] EXCEPT ![id[2]] = status]
          BY <1>4, <4>2
        <5> QED BY <2>2, <4>1, <5>1
      <4>3. CASE s # id[1]
        BY <1>4, <4>1, <4>3
      <4> QED BY <4>2, <4>3
    <3> QED BY <3>1
  <2> QED BY <2>1, <2>3 DEF RowsTyped
<1>7. \A s \in Scopes : \A v \in 1..MaxVersion[s] : row'[s][v] # "NONE" <=> row[s][v] # "NONE"
  BY <1>1, <1>5 DEF At
<1>8. Grown(row')
  BY <1>7 DEF Grown, RowInv
<1>9. ASSUME NEW locks PROVE Follows(row', locks)
  <2> SUFFICES ASSUME NEW other \in Ids
               PROVE  /\ At(row, other) # "NONE" <=> At(row', other) # "NONE"
                      /\ At(row', other) = "PENDING" => At(row, other) = "PENDING"
    BY DEF Follows
  <2>1. other[1] \in Scopes /\ other[2] \in 1..MaxVersion[other[1]]
    BY IdsOf
  <2> QED BY <1>5, <1>7, <2>1 DEF At
<1>10. \A p \in Sessions : Writes(tx'[p], row')
  <2> SUFFICES ASSUME NEW p \in Sessions PROVE Writes(tx[p], row')
    BY <1>1
  <2>1. Writes(tx[p], row)
    BY DEF RowInv
  <2> QED BY <1>9, <2>1, OthersWrite
<1> QED BY <1>1, <1>6, <1>8, <1>10 DEF RowInv

(* A commit gives each row what the transaction has made of it.            *)
LEMMA CommitRows ==
  ASSUME RowInv, NEW p \in Sessions, Commit(p)
  PROVE  /\ row' = [s \in Scopes |-> row'[s]]
         /\ \A s \in Scopes : row'[s] = [v \in 1..MaxVersion[s] |-> row'[s][v]]
         /\ \A id \in Ids : At(row', id) = At(row, id)
                            \/ \E c \in tx[p].changes : c = <<id, At(row', id)>>
         /\ \A c \in tx[p].changes : At(row', c[1]) = c[2]
<1>1. row' = [s \in Scopes |-> [v \in 1..MaxVersion[s] |->
                IF \E c \in tx[p].changes : c[1] = <<s, v>>
                THEN (CHOOSE c \in tx[p].changes : c[1] = <<s, v>>)[2] ELSE row[s][v]]]
  BY DEF Commit
<1>2. /\ \A c \in tx[p].changes : c = <<c[1], c[2]>> /\ c[1] \in Ids
      /\ \A c, d \in tx[p].changes : c[1] = d[1] => c = d
  BY DEF RowInv, Writes, Changing
<1>3. ASSUME NEW id \in Ids
      PROVE  At(row', id) = IF \E c \in tx[p].changes : c[1] = id
                            THEN (CHOOSE c \in tx[p].changes : c[1] = id)[2] ELSE At(row, id)
  <2>1. id[1] \in Scopes /\ id[2] \in 1..MaxVersion[id[1]] /\ id = <<id[1], id[2]>>
    BY IdsOf
  <2> QED BY <1>1, <2>1 DEF At
<1>4. ASSUME NEW c \in tx[p].changes PROVE At(row', c[1]) = c[2]
  <2>1. (CHOOSE d \in tx[p].changes : d[1] = c[1]) = c
    BY <1>2
  <2> QED BY <1>2, <1>3, <2>1
<1>5. ASSUME NEW id \in Ids, At(row', id) # At(row, id)
      PROVE  \E c \in tx[p].changes : c = <<id, At(row', id)>>
  <2>1. PICK c \in tx[p].changes : c[1] = id
    BY <1>3, <1>5
  <2> QED BY <1>2, <1>4, <2>1
<1>6. /\ row' = [s \in Scopes |-> row'[s]]
      /\ \A s \in Scopes : row'[s] = [v \in 1..MaxVersion[s] |-> row'[s][v]]
  BY <1>1
<1> QED BY <1>4, <1>5, <1>6

LEMMA CommitWrites ==
  ASSUME SwitchInv, RowInv, NEW p \in Sessions, Commit(p)
  PROVE  RowInv'
<1>0. Shaped(tx[p]) /\ Stands(tx[p]) /\ Writes(tx[p], row) /\ acts' \in 0..MaxActs
  BY Midway DEF Commit
<1>1. /\ row' = [s \in Scopes |-> row'[s]]
      /\ \A s \in Scopes : row'[s] = [v \in 1..MaxVersion[s] |-> row'[s][v]]
      /\ \A id \in Ids : At(row', id) = At(row, id)
                         \/ \E c \in tx[p].changes : c = <<id, At(row', id)>>
  BY CommitRows
<1>2. ASSUME NEW id \in Ids, At(row', id) # At(row, id)
      PROVE  /\ At(row', id) \in {"PENDING", "ENDED", "DISPATCHED"}
             /\ At(row', id) = "PENDING" => At(row, id) = "NONE"
             /\ At(row, id) = "NONE" => SyncOf(id[1]) \in tx[p].locks
             /\ At(row, id) = "NONE" => \A v \in 1..MaxVersion[id[1]] : v < id[2] => row[id[1]][v] # "NONE"
  <2>1. PICK c \in tx[p].changes : c = <<id, At(row', id)>>
    BY <1>1, <1>2
  <2>2. c[1] = id /\ c[2] = At(row', id)
    BY <2>1
  <2>3. c[2] \in {"PENDING", "ENDED", "DISPATCHED"} /\ (c[2] = "PENDING" => At(row, c[1]) = "NONE")
    BY <1>0 DEF Writes, Changing, New
  <2>4. At(row, c[1]) = "NONE" =>
          /\ SyncOf(c[1][1]) \in tx[p].locks
          /\ \A v \in 1..MaxVersion[c[1][1]] : v < c[1][2] => row[c[1][1]][v] # "NONE"
    BY <1>0 DEF Writes, Changing, New
  <2> QED BY <2>2, <2>3, <2>4
<1>3. \A s \in Scopes : MaxVersion[s] \in Nat /\ row[s] \in [1..MaxVersion[s] -> Statuses]
  BY SwitchesAssumption DEF SwitchesAssumption, RowInv, RowsTyped
<1>4. ASSUME NEW s \in Scopes, NEW v \in 1..MaxVersion[s]
      PROVE  <<s, v>> \in Ids /\ At(row, <<s, v>>) = row[s][v] /\ At(row', <<s, v>>) = row'[s][v]
  BY IdsOf DEF At
<1>5. RowsTyped(row')
  <2>1. ASSUME NEW s \in Scopes, NEW v \in 1..MaxVersion[s] PROVE row'[s][v] \in Statuses
    <3>1. row[s][v] \in Statuses
      BY <1>3
    <3> DEFINE id == <<s, v>>
    <3>2. id \in Ids /\ At(row, id) = row[s][v] /\ At(row', id) = row'[s][v]
      BY <1>4
    <3> HIDE DEF id
    <3>3. At(row', id) = At(row, id) \/ At(row', id) \in {"PENDING", "ENDED", "DISPATCHED"}
      BY <1>2, <3>2
    <3>4. {"PENDING", "ENDED", "DISPATCHED"} \subseteq Statuses
      BY DEF Statuses, Waiting
    <3> QED BY <3>1, <3>2, <3>3, <3>4
  <2>2. \A s \in Scopes : row'[s] \in [1..MaxVersion[s] -> Statuses]
    BY <1>1, <2>1
  <2> QED BY <1>1, <2>2 DEF RowsTyped
<1>6. Grown(row')
  <2> SUFFICES ASSUME NEW s \in Scopes
               PROVE  \E n \in 0..MaxVersion[s] :
                        \A v \in 1..MaxVersion[s] : row'[s][v] # "NONE" <=> v <= n
    BY DEF Grown
  <2>1. PICK n \in 0..MaxVersion[s] : \A v \in 1..MaxVersion[s] : row[s][v] # "NONE" <=> v <= n
    BY DEF RowInv, Grown
  <2>2. ASSUME NEW v \in 1..MaxVersion[s] PROVE row[s][v] # "NONE" => row'[s][v] # "NONE"
    <3> DEFINE id == <<s, v>>
    <3>1. id \in Ids /\ At(row, id) = row[s][v] /\ At(row', id) = row'[s][v]
      BY <1>4
    <3> HIDE DEF id
    <3>2. At(row', id) = At(row, id) \/ At(row', id) \in {"PENDING", "ENDED", "DISPATCHED"}
      BY <1>2, <3>1
    <3> QED BY <3>1, <3>2
  <2>3. CASE \A v \in 1..MaxVersion[s] : row[s][v] = "NONE" => row'[s][v] = "NONE"
    BY <2>1, <2>2, <2>3
  <2>4. CASE ~ \A v \in 1..MaxVersion[s] : row[s][v] = "NONE" => row'[s][v] = "NONE"
    <3>1. ASSUME NEW v \in 1..MaxVersion[s], row[s][v] = "NONE", row'[s][v] # "NONE" PROVE v = n + 1
      <4>1. \A w \in 1..MaxVersion[s] : w < v => row[s][w] # "NONE"
        <5> DEFINE id == <<s, v>>
        <5>1. id \in Ids /\ id[1] = s /\ id[2] = v /\ At(row, id) = "NONE" /\ At(row', id) # "NONE"
          BY <1>4, <3>1
        <5> HIDE DEF id
        <5> QED BY <1>2, <5>1
      <4>2. ~ (v <= n)
        BY <2>1, <3>1
      <4>3. ASSUME n + 1 < v PROVE FALSE
        <5>1. n + 1 \in 1..MaxVersion[s]
          BY <1>3, <4>3
        <5> QED BY <2>1, <4>1, <4>3, <5>1
      <4> QED BY <1>3, <4>2, <4>3
    <3>2. PICK v \in 1..MaxVersion[s] : row[s][v] = "NONE" /\ row'[s][v] # "NONE"
      BY <2>4
    <3>3. v = n + 1 /\ n + 1 \in 0..MaxVersion[s]
      BY <1>3, <3>1, <3>2
    <3>4. ASSUME NEW w \in 1..MaxVersion[s] PROVE row'[s][w] # "NONE" <=> w <= n + 1
      <4>1. CASE w = n + 1
        BY <3>2, <3>3, <4>1
      <4>2. CASE w # n + 1
        <5>1. row'[s][w] # "NONE" <=> row[s][w] # "NONE"
          BY <2>2, <3>1, <4>2
        <5>2. row[s][w] # "NONE" <=> w <= n
          BY <2>1
        <5> QED BY <4>2, <5>1, <5>2
      <4> QED BY <4>1, <4>2
    <3> QED BY <3>3, <3>4
  <2> QED BY <2>3, <2>4
<1>7. ASSUME NEW q \in Sessions \ {p} PROVE Follows(row', tx[q].locks)
  <2>1. ASSUME NEW s, SyncOf(s) \in tx[p].locks, SyncOf(s) \in tx[q].locks PROVE FALSE
    BY <2>1 DEF SwitchInv, Exclusive, SyncOf
  <2> SUFFICES ASSUME NEW id \in Ids
               PROVE  /\ At(row, id) # "NONE" => At(row', id) # "NONE"
                      /\ At(row', id) = "PENDING" => At(row, id) \in {"PENDING", "NONE"}
                      /\ At(row, id) = "NONE" /\ SyncOf(id[1]) \in tx[q].locks => At(row', id) = "NONE"
    BY DEF Follows
  <2>2. CASE At(row', id) = At(row, id)
    BY <2>2
  <2>3. CASE At(row', id) # At(row, id)
    BY <1>2, <2>1, <2>3
  <2> QED BY <2>2, <2>3
<1>8. \A q \in Sessions : Writes(tx'[q], row')
  <2> SUFFICES ASSUME NEW q \in Sessions PROVE Writes(tx'[q], row')
    OBVIOUS
  <2>1. tx'[q] = IF q = p THEN Idle ELSE tx[q]
    BY DEF Commit, Go, SwitchInv, Shapes
  <2>2. CASE q = p
    BY <2>1, <2>2, IdleWrites
  <2>3. CASE q # p
    <3>1. Writes(tx[q], row) /\ Follows(row', tx[q].locks)
      BY <1>7, <2>3 DEF RowInv
    <3> QED BY <2>1, <2>3, <3>1, OthersWrite
  <2> QED BY <2>2, <2>3
<1>9. account'.mode \in {"SHADOW", "LIVE"}
  <2>1. account.mode \in {"SHADOW", "LIVE"}
    BY DEF RowInv
  <2>2. account = [mode |-> account.mode, confirmed |-> account.confirmed, other |-> account.other]
    BY DEF SwitchInv, Shapes
  <2>3. CASE tx[p].op = "SWITCH"
    <3>1. account' = [account EXCEPT !.mode = tx[p].arg] /\ tx[p].arg \in {"SHADOW", "LIVE"}
      BY <1>0, <2>3 DEF Commit, Writes, Turning
    <3> QED BY <2>2, <3>1
  <2>4. CASE tx[p].op # "SWITCH"
    <3>1. \/ account' = account
          \/ account' = [account EXCEPT !.other = tx[p].arg]
          \/ account' = [account EXCEPT !.confirmed = TRUE]
          \/ account' = [account EXCEPT !.confirmed = FALSE]
      BY <2>4 DEF Commit
    <3> QED BY <2>1, <2>2, <3>1
  <2> QED BY <2>3, <2>4
<1> QED BY <1>0, <1>5, <1>6, <1>8, <1>9 DEF RowInv

(***************************************************************************)
(* The invariant of the rows, and what follows from it.                    *)
(***************************************************************************)
LEMMA RowInit ==
  ASSUME Init
  PROVE  RowInv
<1>1. \A p \in Sessions : Writes(tx[p], row)
  BY IdleWrites DEF Init
<1>2. RowsTyped(row)
  BY DEF Init, RowsTyped, Statuses
<1>3. Grown(row)
  <2> SUFFICES ASSUME NEW s \in Scopes
               PROVE  \A v \in 1..MaxVersion[s] : row[s][v] # "NONE" <=> v <= 0
    BY SwitchesAssumption DEF Grown, SwitchesAssumption
  <2>1. \A v \in 1..MaxVersion[s] : row[s][v] = "NONE" /\ ~ (v <= 0)
    BY SwitchesAssumption DEF Init, SwitchesAssumption
  <2> QED BY <2>1
<1>4. account.mode \in {"SHADOW", "LIVE"} /\ acts \in 0..MaxActs
  BY SwitchesAssumption DEF Init, SwitchesAssumption
<1> QED BY <1>1, <1>2, <1>3, <1>4 DEF RowInv

LEMMA RowStep ==
  ASSUME SwitchInv, RowInv, [Next]_vars
  PROVE  RowInv'
<1>0. /\ Owners \subseteq Sessions /\ Dispatchers \subseteq Sessions /\ Deciders \subseteq Sessions
      /\ Stockers \subseteq Sessions /\ acts \in 0..MaxActs
  BY DEF Sessions, RowInv
<1>1. ASSUME NEW p \in Dispatchers, NEW s \in Scopes,
             Begin(p, "CLAIM", "SYNC", s, "NONE") /\ UNCHANGED acts
      PROVE  RowInv'
  BY <1>0, <1>1, BeginWrites DEF Owned
<1>2. ASSUME NEW p \in Dispatchers,
             ClaimSync(p) \/ Pick(p) \/ ClaimRow(p) \/ ModeGuard(p) \/ QuantityGuard(p)
      PROVE  RowInv'
  BY <1>0, <1>2, ClaimWrites, PickWrites, GuardWrites
<1>3. ASSUME NEW p \in Deciders, Begin(p, "DECIDE", "SCOPE", "PRICE", "NONE") /\ UNCHANGED acts
      PROVE  RowInv'
  BY <1>0, <1>3, BeginWrites DEF Owned
<1>4. ASSUME NEW p \in Stockers, Begin(p, "RECALCULATE", "SCOPE", "QUANTITY", "NONE") /\ UNCHANGED acts
      PROVE  RowInv'
  BY <1>0, <1>4, BeginWrites DEF Owned
<1>5. ASSUME NEW p \in Deciders \cup Stockers, InsertScope(p) \/ InsertRow(p)
      PROVE  RowInv'
  BY <1>0, <1>5, InsertScopeWrites, InsertRowWrites
<1>6. ASSUME NEW p \in Sessions, EndRow(p) \/ Commit(p) \/ Dies(p)
      PROVE  RowInv'
  BY <1>6, EndRowWrites, CommitWrites, RollbackWrites DEF Dies
<1>7. ASSUME NEW id \in Ids, NEW status \in {"FAILED", "ENDED"}, Settle(id, status)
      PROVE  RowInv'
  BY <1>7, SettleWrites
<1>8. ASSUME NEW p \in Deciders, DecideGuard(p)
      PROVE  RowInv'
  BY <1>0, <1>8, DecideWrites
<1>9. CASE UNCHANGED vars
  BY <1>9 DEF vars, RowInv, Sessions
<1> QED
  BY <1>1, <1>2, <1>3, <1>4, <1>5, <1>6, <1>7, <1>8, <1>9, OwnerWrites DEF Next

(* The inductive invariant with the rows of the queue: a transaction that  *)
(* has locked a row, or is about to write one, writes a row that fits its  *)
(* status and its place in the transaction.                                *)
THEOREM RowsHold == Spec => [](SwitchInv /\ RowInv)
<1>1. Init => SwitchInv /\ RowInv
  BY SwitchInit, RowInit
<1>2. SwitchInv /\ RowInv /\ [Next]_vars => SwitchInv' /\ RowInv'
  BY SwitchStep, RowStep
<1> QED BY <1>1, <1>2, PTL DEF Spec

(* Types, and with them what the locks are for: no two sessions hold one   *)
(* in modes that exclude each other, a transaction gives a row one status, *)
(* and what it changes are writes that exist or the next version.          *)
THEOREM TypeCorrect == Spec => []TypeOK
<1>1. ASSUME SwitchInv, RowInv PROVE TypeOK
  <2>1. account \in [mode: {"SHADOW", "LIVE"}, confirmed: BOOLEAN, other: Answers]
    BY <1>1 DEF SwitchInv, Shapes, RowInv
  <2>2. enabled \in BOOLEAN /\ acts \in 0..MaxActs
    BY <1>1 DEF SwitchInv, Shapes, RowInv
  <2>3. \A s \in Scopes : row[s] \in [1..MaxVersion[s] -> Statuses]
    BY <1>1 DEF RowInv, RowsTyped
  <2>4. ASSUME NEW p \in Sessions
        PROVE  /\ tx[p].todo \cup tx[p].waited \subseteq Ids
               /\ \A c \in tx[p].changes : c[1] \in Ids /\ c[2] \in Statuses \ {"NONE", "FAILED"}
               /\ \A c, d \in tx[p].changes : c[1] = d[1] => c = d
    <3>1. Writes(tx[p], row)
      BY <1>1 DEF RowInv
    <3>2. tx[p].todo \cup tx[p].waited \subseteq Ids
      BY <3>1 DEF Writes, Named
    <3>3. /\ \A c \in tx[p].changes : c[1] \in Ids /\ c[2] \in {"PENDING", "ENDED", "DISPATCHED"}
          /\ \A c, d \in tx[p].changes : c[1] = d[1] => c = d
      BY <3>1 DEF Writes, Changing
    <3> QED BY <3>2, <3>3 DEF Statuses, Waiting
  <2>5. \A p \in Sessions : \A q \in Sessions \ {p} : \A l \in tx[p].locks, k \in tx[q].locks :
          l[1] = k[1] => l[2] = "S" /\ k[2] = "S"
    BY <1>1 DEF SwitchInv, Exclusive
  <2> QED BY <2>1, <2>2, <2>3, <2>4, <2>5 DEF TypeOK
<1> QED BY <1>1, RowsHold, PTL

(* The account's row has one writer at a time: who commits a change of it  *)
(* while a switch is about to commit is the switch itself.                 *)
LEMMA SwitchCommits ==
  ASSUME SwitchInv, RowInv, [Next]_vars, account' # account, NEW p \in Sessions,
         tx[p].op = "SWITCH", tx[p].at = "COMMIT"
  PROVE  Commit(p)
<1>1. PICK q \in Sessions : Commit(q)
  BY DEF Next, vars, OwnerActs, Act, Begin, BeginSwitch, SwitchMode, Hold, Drop, Answer,
         ConfirmationGuard, Confirm, Revoke, DisableSync, Discard, EnableScope, EnableGuard,
         ClaimSync, Pick, ClaimRow, ModeGuard, QuantityGuard, InsertScope, InsertRow, DecideGuard,
         EndRow, Dies, Settle, Rollback, Unchanged
<1>2. tx[q].op \in Owned /\ tx[q].at = "COMMIT"
  BY <1>1 DEF Commit, Owned
<1>3. AccountRow \in tx[q].locks /\ AccountRow \in tx[p].locks
  BY <1>2 DEF RowInv, Writes, Turning, Owned
<1>4. ASSUME q # p PROVE FALSE
  BY <1>3, <1>4 DEF SwitchInv, Exclusive, AccountRow
<1> QED BY <1>1, <1>4

(* 0128: going into the shadow holds everything that has not left: no      *)
(* write that waited when the switch began waits for its first dispatch    *)
(* when it has committed, whatever held it meanwhile.                      *)
THEOREM TheShadowHoldsTheQueue == Spec => ShadowHoldsTheQueue
<1> DEFINE A == \A p \in Owners :
                  tx[p].op = "SWITCH" /\ tx[p].at = "COMMIT" /\ tx[p].arg = "SHADOW" /\ account' # account
                    => \A id \in tx[p].waited : row'[id[1]][id[2]] # "PENDING"
<1>1. ASSUME SwitchInv, RowInv, [Next]_vars PROVE A
  <2> SUFFICES ASSUME NEW p \in Owners, tx[p].op = "SWITCH", tx[p].at = "COMMIT",
                      tx[p].arg = "SHADOW", account' # account,
                      NEW id \in tx[p].waited, At(row', id) = "PENDING"
               PROVE  FALSE
    BY DEF At
  <2>1. p \in Sessions
    BY DEF Sessions
  <2>2. Commit(p)
    BY <1>1, <2>1, SwitchCommits
  <2>3. Writes(tx[p], row) /\ id \in Ids /\ At(row, id) # "NONE"
    BY <1>1, <2>1 DEF RowInv, Writes, Named
  <2>4. At(row', id) = At(row, id) \/ \E c \in tx[p].changes : c = <<id, At(row', id)>>
    BY <1>1, <2>1, <2>2, <2>3, CommitRows
  <2>5. ASSUME NEW c \in tx[p].changes, c = <<id, "PENDING">> PROVE FALSE
    <3>1. c[1] = id /\ c[2] = "PENDING"
      BY <2>5
    <3> QED BY <2>3, <3>1 DEF Writes, Changing, New
  <2>6. At(row, id) = "PENDING"
    BY <2>4, <2>5
  <2>7. <<id, "ENDED">> \in tx[p].changes
    BY <2>3, <2>6 DEF Writes, Turning, Held
  <2>8. At(row', id) = "ENDED"
    <3> DEFINE c == <<id, "ENDED">>
    <3>1. c \in tx[p].changes /\ c[1] = id /\ c[2] = "ENDED"
      BY <2>7
    <3> HIDE DEF c
    <3> QED BY <1>1, <2>1, <2>2, <3>1, CommitRows
  <2> QED BY <2>8
<1>2. SwitchInv /\ RowInv /\ [Next]_vars => [A]_vars
  BY <1>1
<1> HIDE DEF A
<1>3. Spec => [][A]_vars
  BY <1>2, RowsHold, PTL DEF Spec
<1> QED BY <1>3 DEF ShadowHoldsTheQueue, A

(***************************************************************************)
(* The transactions are as if each happened at its commit.                 *)
(***************************************************************************)
ScopeOwned == <<<<"scope", "QUANTITY">>, "X">>   \* the row of the quantity scope
ScopeShared == <<<<"scope", "QUANTITY">>, "S">>  \* and the share of a recalculation
RowOf(id) == <<Locker(id), "X">>
Inserts == {"DECIDE", "RECALCULATE"}

(* What it has read of the switches is still so.                           *)
Still(t, a, e) ==
  /\ t.op \in {"CONFIRM", "REVOKE", "ENABLE"} => t.scope = "QUANTITY"
  /\ t.op = "CONFIRM" /\ t.at # "ADVISORY" => ~a.confirmed
  /\ t.op = "REVOKE" /\ t.at # "ADVISORY" => a.confirmed
  /\ t.op = "REVOKE" /\ t.at \in {"DISCARD", "COMMIT"} => ~e \/ ScopeOwned \in t.locks
  /\ t.op = "ENABLE" /\ t.at # "SCOPE" => ~e /\ ScopeOwned \in t.locks
  /\ t.op = "RECALCULATE" /\ t.at # "SCOPE" => e /\ ScopeShared \in t.locks

Vacant(r, s) == \A id \in Ids : id[1] = s => At(r, id) # "DISPATCHED"
NewestIn(r, id) == \A other \in Ids : other[1] = id[1] /\ other[2] > id[2] => At(r, other) = "NONE"

(* A claim takes the newest version of a scope whose slot is free.         *)
Claiming(t, r) ==
  /\ t.op = "CLAIM" /\ t.at # "SYNC" => SyncOf(t.scope) \in t.locks
  /\ t.op = "CLAIM" /\ t.at \in {"ROW", "GUARD", "ADVISORY"} => Vacant(r, t.scope)
  /\ t.op = "CLAIM" /\ (t.at \in {"GUARD", "ADVISORY"} \/ (t.at = "ROW" /\ t.then = "GUARD"))
       => NewestIn(r, t.row)
  /\ t.op = "CLAIM" /\ t.at \in {"GUARD", "ADVISORY"} =>
       RowOf(t.row) \in t.locks /\ At(r, t.row) \in Waiting

(* What is about to be sent may still be sent.                             *)
Takes(t, r) ==
  \A c \in t.changes : c[2] = "DISPATCHED" =>
    /\ SyncOf(t.scope) \in t.locks /\ Vacant(r, t.scope)
    /\ \/ t.op = "DECIDE" /\ c \in New(t, r)
       \/ t.op = "CLAIM" /\ RowOf(c[1]) \in t.locks /\ At(r, c[1]) \in Waiting /\ NewestIn(r, c[1])

(* What is about to end waits, or has been ended by another one since: a   *)
(* claim that was refused keeps what it has superseded, not its row locks. *)
Drops(t, r) ==
  \A c \in t.changes : c[2] = "ENDED" /\ c \notin New(t, r) =>
    /\ At(r, c[1]) \in Waiting \cup {"ENDED"}
    /\ RowOf(c[1]) \in t.locks \/ (t.op = "CLAIM" /\ SyncOf(t.scope) \in t.locks)

(* It changes rows of its own scope.                                       *)
Confined(t) ==
  /\ t.op \in {"ANSWER", "CONFIRM", "ENABLE"} => t.changes = {}
  /\ t.op = "SWITCH" /\ t.arg # "SHADOW" => t.changes = {} /\ t.at \in {"ACCOUNT", "COMMIT"}
  /\ t.op \in Inserts \cup {"CLAIM", "REVOKE"} => \A c \in t.changes : c[1][1] = t.scope
  /\ t.op \in Inserts /\ t.at = "ROW" => \A id \in t.todo \cup {t.row} : id[1] = t.scope

(* A new version has superseded, or will, everything that waits.           *)
Supersedes(t, r) ==
  t.op \in Inserts /\ t.at \in {"ROW", "GUARD", "COMMIT"} =>
    /\ SyncOf(t.scope) \in t.locks
    /\ New(t, r) # {}
    /\ \A id \in Ids : id[1] = t.scope /\ At(r, id) \in Waiting =>
         <<id, "ENDED">> \in t.changes \/ (t.at = "ROW" /\ id \in t.todo \cup {t.row})

Serial(t, a, e, r) ==
  /\ Still(t, a, e) /\ Claiming(t, r) /\ Takes(t, r)
  /\ Drops(t, r) /\ Confined(t) /\ Supersedes(t, r)

SerialInv == \A p \in Sessions : Serial(tx[p], account, enabled, row)

(* All that is known.                                                      *)
AllInv == SwitchInv /\ RowInv /\ SerialInv

LEMMA SerialIdle ==
  ASSUME NEW a, NEW e, NEW r
  PROVE  Serial(Idle, a, e, r)
BY DEF Serial, Still, Claiming, Takes, Drops, Confined, Supersedes, Idle, Inserts

LEMMA GoSerial ==
  ASSUME AllInv, NEW p \in Sessions, NEW t, Go(p, t), Serial(t, account, enabled, row),
         UNCHANGED <<account, enabled, row>>
  PROVE  SerialInv'
<1>1. \A q \in Sessions : tx'[q] = IF q = p THEN t ELSE tx[q]
  BY DEF AllInv, SwitchInv, Shapes, Go
<1>2. \A q \in Sessions : Serial(tx'[q], account, enabled, row)
  BY <1>1 DEF AllInv, SerialInv
<1> QED BY <1>2 DEF SerialInv

LEMMA RollbackSerial ==
  ASSUME AllInv, NEW p \in Sessions, Rollback(p)
  PROVE  SerialInv'
BY SerialIdle, GoSerial DEF Rollback, Unchanged

(* What is common to the steps after the first.                            *)
LEMMA Underway ==
  ASSUME AllInv, NEW p \in Sessions
  PROVE  /\ Shaped(tx[p]) /\ Stands(tx[p]) /\ Writes(tx[p], row)
         /\ Serial(tx[p], account, enabled, row)
BY Midway DEF AllInv, SerialInv

(* It goes on with the same changes to make, and no lock less.             *)
LEMMA Onward ==
  ASSUME NEW t, NEW u, Serial(t, account, enabled, row),
         u.op = t.op, u.scope = t.scope, u.changes = t.changes, t.locks \subseteq u.locks,
         Still(u, account, enabled), Claiming(u, row), Confined(u), Supersedes(u, row)
  PROVE  Serial(u, account, enabled, row)
<1>1. New(u, row) = New(t, row)
  BY DEF New
<1>2. Takes(u, row)
  BY <1>1 DEF Serial, Takes
<1>3. Drops(u, row)
  BY <1>1 DEF Serial, Drops
<1> QED BY <1>2, <1>3 DEF Serial

(* A statement over several rows.                                          *)
LEMMA ThroughSerial ==
  ASSUME AllInv, NEW p \in Sessions, NEW t, NEW ids, NEW then,
         Through(p, t, ids, then), UNCHANGED <<account, enabled, row>>,
         Shaped(t), t.op \in {"SWITCH", "CLAIM"} \cup Inserts,
         Takes(t, row), Drops(t, row),
         t.op = "RECALCULATE" => enabled /\ ScopeShared \in t.locks,
         t.op = "CLAIM" => ids = {} /\ then \in {"PICK", "COMMIT"} /\ SyncOf(t.scope) \in t.locks,
         t.op = "SWITCH" => t.arg = "SHADOW",
         t.op \in Inserts \cup {"CLAIM"} => \A c \in t.changes : c[1][1] = t.scope,
         t.op \in Inserts =>
           /\ then \in {"GUARD", "COMMIT"} /\ SyncOf(t.scope) \in t.locks /\ New(t, row) # {}
           /\ \A id \in ids : id[1] = t.scope
           /\ \A id \in Ids : id[1] = t.scope /\ At(row, id) \in Waiting =>
                <<id, "ENDED">> \in t.changes \/ id \in ids
  PROVE  SerialInv'
<1>1. ASSUME NEW u, u.op = t.op, u.scope = t.scope, u.arg = t.arg, u.locks = t.locks,
             u.changes = t.changes,
             \/ u.at = then /\ ids = {}
             \/ u.at = "ROW" /\ ids # {} /\ ids = u.todo \cup {u.row}
      PROVE  Serial(u, account, enabled, row)
  <2>1. New(u, row) = New(t, row)
    BY <1>1 DEF New
  <2>2. Takes(u, row)
    BY <1>1, <2>1 DEF Takes
  <2>3. Drops(u, row)
    BY <1>1, <2>1 DEF Drops
  <2>4. Still(u, account, enabled)
    BY <1>1 DEF Still, Inserts
  <2>5. Claiming(u, row)
    BY <1>1 DEF Claiming
  <2>6. Confined(u)
    BY <1>1 DEF Confined, Inserts
  <2>7. Supersedes(u, row)
    <3>1. CASE u.at = then /\ ids = {}
      BY <1>1, <2>1, <3>1 DEF Supersedes
    <3>2. CASE u.at = "ROW" /\ ids = u.todo \cup {u.row}
      BY <1>1, <2>1, <3>2 DEF Supersedes
    <3> QED BY <1>1, <3>1, <3>2
  <2> QED BY <2>2, <2>3, <2>4, <2>5, <2>6, <2>7 DEF Serial
<1>2. CASE ids = {}
  <2> DEFINE u == [t EXCEPT !.at = then, !.row = NoRow, !.todo = {}, !.then = "IDLE"]
  <2>1. /\ u.op = t.op /\ u.scope = t.scope /\ u.arg = t.arg /\ u.locks = t.locks
        /\ u.changes = t.changes /\ u.at = then
    BY DEF Shaped, Fields
  <2>2. Go(p, u)
    BY <1>2 DEF Through
  <2> HIDE DEF u
  <2>3. Serial(u, account, enabled, row)
    BY <1>1, <1>2, <2>1
  <2> QED BY <2>2, <2>3, GoSerial
<1>3. CASE ids # {}
  <2>1. PICK id \in ids :
          Go(p, [t EXCEPT !.at = "ROW", !.row = id, !.todo = ids \ {id}, !.then = then])
    BY <1>3 DEF Through
  <2> DEFINE u == [t EXCEPT !.at = "ROW", !.row = id, !.todo = ids \ {id}, !.then = then]
  <2>2. /\ u.op = t.op /\ u.scope = t.scope /\ u.arg = t.arg /\ u.locks = t.locks
        /\ u.changes = t.changes /\ u.at = "ROW" /\ u.todo = ids \ {id} /\ u.row = id
    BY DEF Shaped, Fields
  <2>3. Go(p, u)
    BY <2>1
  <2> HIDE DEF u
  <2>4. ids = u.todo \cup {u.row}
    BY <2>2
  <2>5. Serial(u, account, enabled, row)
    BY <1>1, <1>3, <2>2, <2>4
  <2> QED BY <2>3, <2>5, GoSerial
<1> QED BY <1>2, <1>3

(***************************************************************************)
(* The owner's steps.                                                      *)
(***************************************************************************)
LEMMA BeginSerial ==
  ASSUME AllInv, NEW p \in Sessions, NEW op, NEW at, NEW scope, NEW arg,
         Begin(p, op, at, scope, arg),
         \/ op = "ANSWER" /\ at = "ACCOUNT"
         \/ op \in {"CONFIRM", "REVOKE"} /\ at = "ADVISORY" /\ scope = "QUANTITY"
         \/ op = "ENABLE" /\ at = "SCOPE" /\ scope = "QUANTITY"
         \/ op = "CLAIM" /\ at = "SYNC"
         \/ op \in Inserts /\ at = "SCOPE"
  PROVE  SerialInv'
<1> DEFINE t == [Idle EXCEPT !.op = op, !.at = at, !.scope = scope, !.arg = arg]
<1>1. t.op = op /\ t.at = at /\ t.scope = scope /\ t.changes = {}
  BY DEF Idle
<1>2. Go(p, t) /\ UNCHANGED <<account, enabled, row>>
  BY DEF Begin
<1> HIDE DEF t
<1>3. Serial(t, account, enabled, row)
  BY <1>1 DEF Serial, Still, Claiming, Takes, Drops, Confined, Supersedes, Inserts
<1> QED BY <1>2, <1>3, GoSerial

LEMMA BeginSwitchSerial ==
  ASSUME AllInv, NEW p \in Sessions, BeginSwitch(p)
  PROVE  SerialInv'
<1> DEFINE t == [Idle EXCEPT !.op = "SWITCH", !.at = "ACCOUNT", !.waited = In({"PENDING"}),
                             !.arg = IF account.mode = "LIVE" THEN "SHADOW" ELSE "LIVE"]
<1>1. t.op = "SWITCH" /\ t.at = "ACCOUNT" /\ t.changes = {}
  BY DEF Idle
<1>2. Go(p, t) /\ UNCHANGED <<account, enabled, row>>
  BY DEF BeginSwitch
<1> HIDE DEF t
<1>3. Serial(t, account, enabled, row)
  BY <1>1 DEF Serial, Still, Claiming, Takes, Drops, Confined, Supersedes, Inserts
<1> QED BY <1>2, <1>3, GoSerial

(* A lock is taken, and the owner's transaction goes on.                   *)
Locks(p, at, arg) == [Locked(p) EXCEPT !.at = at, !.arg = arg]

LEMMA OwnerLocks ==
  ASSUME AllInv, NEW p \in Sessions, NEW at, NEW arg,
         tx[p].op \in {"SWITCH", "ANSWER", "CONFIRM", "REVOKE", "ENABLE"},
         Go(p, Locks(p, at, arg)), UNCHANGED <<account, enabled, row>>,
         tx[p].op = "SWITCH" => arg = tx[p].arg /\ (arg # "SHADOW" => at = "COMMIT"),
         tx[p].op = "CONFIRM" => at # "ADVISORY" /\ ~account.confirmed,
         tx[p].op = "REVOKE" => at # "ADVISORY" /\ account.confirmed,
         tx[p].op = "REVOKE" /\ at \in {"DISCARD", "COMMIT"} => ~enabled \/ Want(p) = ScopeOwned,
         tx[p].op = "ENABLE" => ~enabled /\ (Want(p) = ScopeOwned \/ ScopeOwned \in tx[p].locks)
  PROVE  SerialInv'
<1> DEFINE u == Locks(p, at, arg)
<1>0. Shaped(tx[p]) /\ Serial(tx[p], account, enabled, row)
  BY Underway
<1>1. /\ u.op = tx[p].op /\ u.scope = tx[p].scope /\ u.changes = tx[p].changes /\ u.at = at
      /\ u.arg = arg /\ u.locks = tx[p].locks \cup {Want(p)}
  BY <1>0 DEF Locks, Locked, Shaped, Fields
<1>2. Go(p, u)
  OBVIOUS
<1> HIDE DEF u
<1>3. Still(u, account, enabled)
  BY <1>0, <1>1 DEF Serial, Still
<1>4. Claiming(u, row) /\ Supersedes(u, row)
  BY <1>1 DEF Claiming, Supersedes, Inserts
<1>5. Confined(u)
  BY <1>0, <1>1 DEF Serial, Confined, Inserts
<1>6. Serial(u, account, enabled, row)
  BY <1>0, <1>1, <1>3, <1>4, <1>5, Onward
<1> QED BY <1>2, <1>6, GoSerial

LEMMA OwnerLocksSerial ==
  ASSUME AllInv, NEW p \in Sessions,
         \/ SwitchMode(p) \/ Answer(p) \/ ConfirmationGuard(p) \/ Confirm(p)
         \/ Revoke(p) \/ DisableSync(p) \/ EnableScope(p) \/ EnableGuard(p)
  PROVE  SerialInv'
<1> USE DEF Unchanged
<1>0. Shaped(tx[p]) /\ Stands(tx[p]) /\ Still(tx[p], account, enabled)
  BY Underway DEF Serial
<1>1. CASE SwitchMode(p)
  <2> DEFINE at == IF tx[p].arg = "SHADOW" THEN "HOLD" ELSE "COMMIT"
  <2>1. Go(p, Locks(p, at, tx[p].arg))
    BY <1>0, <1>1, SameArg DEF Locks, SwitchMode
  <2> QED BY <1>1, <2>1, OwnerLocks DEF SwitchMode
<1>2. CASE Answer(p)
  <2>1. CASE tx[p].arg = "STOCK" /\ account.confirmed
    BY <1>2, <2>1, RollbackSerial DEF Answer
  <2>2. CASE ~(tx[p].arg = "STOCK" /\ account.confirmed)
    <3>1. Go(p, Locks(p, "COMMIT", tx[p].arg))
      BY <1>0, <1>2, <2>2, SameArg DEF Locks, Answer
    <3> QED BY <1>2, <2>2, <3>1, OwnerLocks DEF Answer
  <2> QED BY <2>1, <2>2
<1>3. CASE ConfirmationGuard(p)
  <2>1. CASE Rollback(p)
    BY <2>1, RollbackSerial
  <2>2. CASE ~Rollback(p)
    <3>1. /\ Go(p, Locks(p, "ACCOUNT", account.other))
          /\ UNCHANGED <<account, enabled, row>> /\ tx[p].op \in {"CONFIRM", "REVOKE"}
          /\ tx[p].op = "CONFIRM" => ~account.confirmed
          /\ tx[p].op = "REVOKE" => account.confirmed
      BY <1>3, <2>2 DEF Locks, ConfirmationGuard
    <3> QED BY <3>1, OwnerLocks
  <2> QED BY <2>1, <2>2
<1>4. CASE Confirm(p)
  <2>1. CASE account.other = "STOCK"
    BY <1>4, <2>1, RollbackSerial DEF Confirm
  <2>2. CASE account.other # "STOCK"
    <3>1. Go(p, Locks(p, "COMMIT", tx[p].arg))
      BY <1>0, <1>4, <2>2, SameArg DEF Locks, Confirm
    <3>2. ~account.confirmed
      BY <1>0, <1>4 DEF Confirm, Reaches, Still
    <3> QED BY <1>4, <2>2, <3>1, <3>2, OwnerLocks DEF Confirm
  <2> QED BY <2>1, <2>2
<1>5. CASE Revoke(p)
  <2> DEFINE at == IF enabled THEN "SCOPE" ELSE "DISCARD"
  <2>1. Go(p, Locks(p, at, tx[p].arg))
    BY <1>0, <1>5, SameArg DEF Locks, Revoke
  <2>2. account.confirmed
    BY <1>0, <1>5 DEF Revoke, Reaches, Still
  <2> QED BY <1>5, <2>1, <2>2, OwnerLocks DEF Revoke
<1>6. CASE DisableSync(p)
  <2>1. Go(p, Locks(p, "DISCARD", tx[p].arg))
    BY <1>0, <1>6, SameArg DEF Locks, DisableSync
  <2>2. account.confirmed
    BY <1>0, <1>6 DEF DisableSync, Reaches, Still
  <2>3. Want(p) = ScopeOwned
    BY <1>0, <1>6 DEF DisableSync, Reaches, Still, Want, ScopeOwned
  <2> QED BY <1>6, <2>1, <2>2, <2>3, OwnerLocks DEF DisableSync
<1>7. CASE EnableScope(p)
  <2>1. CASE enabled
    BY <1>7, <2>1, RollbackSerial DEF EnableScope
  <2>2. CASE ~enabled
    <3>1. Go(p, Locks(p, "ADVISORY", tx[p].arg))
      BY <1>0, <1>7, <2>2, SameArg DEF Locks, EnableScope
    <3>2. Want(p) = ScopeOwned
      BY <1>0, <1>7 DEF EnableScope, Reaches, Still, Want, ScopeOwned
    <3> QED BY <1>7, <2>2, <3>1, <3>2, OwnerLocks DEF EnableScope
  <2> QED BY <2>1, <2>2
<1>8. CASE EnableGuard(p)
  <2>1. CASE ~account.confirmed
    BY <1>8, <2>1, RollbackSerial DEF EnableGuard
  <2>2. CASE account.confirmed
    <3>1. Go(p, Locks(p, "COMMIT", tx[p].arg))
      BY <1>0, <1>8, <2>2, SameArg DEF Locks, EnableGuard
    <3>2. ~enabled /\ ScopeOwned \in tx[p].locks
      BY <1>0, <1>8 DEF EnableGuard, Reaches, Still
    <3> QED BY <1>8, <2>2, <3>1, <3>2, OwnerLocks DEF EnableGuard
  <2> QED BY <2>1, <2>2
<1> QED BY <1>1, <1>2, <1>3, <1>4, <1>5, <1>6, <1>7, <1>8

LEMMA HoldSerial ==
  ASSUME AllInv, NEW p \in Sessions, Hold(p) \/ Drop(p)
  PROVE  SerialInv'
<1> USE DEF Unchanged
<1>0. Shaped(tx[p]) /\ Stands(tx[p]) /\ Serial(tx[p], account, enabled, row)
  BY Underway
<1>1. tx[p].op = "SWITCH" /\ tx[p].arg = "SHADOW"
  BY <1>0 DEF Hold, Drop, Stands, Serial, Confined
<1>2. Takes(tx[p], row) /\ Drops(tx[p], row)
  BY <1>0 DEF Serial
<1>3. tx[p].op \notin Inserts
  BY <1>1 DEF Inserts
<1>4. CASE Hold(p)
  BY <1>0, <1>1, <1>2, <1>3, <1>4, ThroughSerial DEF Hold
<1>5. CASE Drop(p)
  BY <1>0, <1>1, <1>2, <1>3, <1>5, ThroughSerial DEF Drop
<1> QED BY <1>4, <1>5

LEMMA DiscardSerial ==
  ASSUME AllInv, NEW p \in Sessions, Discard(p)
  PROVE  SerialInv'
<1> DEFINE ids == {id \in Of("QUANTITY", Waiting) : Free(p, <<Locker(id), "X">>)}
           changes == Ends(ids)
           locks == tx[p].locks \cup {<<Locker(id), "X">> : id \in ids}
           u == [tx[p] EXCEPT !.at = "COMMIT", !.changes = changes, !.locks = locks]
<1>0. Shaped(tx[p]) /\ Stands(tx[p]) /\ Still(tx[p], account, enabled)
  BY Underway DEF Serial
<1>1. tx[p].op = "REVOKE" /\ tx[p].at = "DISCARD"
  BY <1>0 DEF Discard, Stands
<1>2. Go(p, u) /\ UNCHANGED <<account, enabled, row>>
  BY DEF Discard, Unchanged
<1>3. \A id \in ids : At(row, id) \in Waiting /\ id[1] = "QUANTITY" /\ RowOf(id) \in locks
  BY StatusIs DEF Of, In, RowOf
<1>4. \A c \in changes : \E id \in ids : c[1] = id /\ c[2] = "ENDED"
  <2> HIDE DEF ids
  <2> QED BY DEF Ends
<1> HIDE DEF ids
<1>5. tx[p].locks \subseteq locks
  OBVIOUS
<1> HIDE DEF changes, locks
<1>6. /\ u.op = "REVOKE" /\ u.at = "COMMIT" /\ u.changes = changes /\ u.locks = locks
      /\ u.scope = tx[p].scope
  BY <1>0, <1>1 DEF Shaped, Fields
<1> HIDE DEF u
<1>7. Still(u, account, enabled)
  BY <1>0, <1>1, <1>5, <1>6 DEF Still
<1>8. Claiming(u, row) /\ Supersedes(u, row)
  BY <1>6 DEF Claiming, Supersedes, Inserts
<1>9. Takes(u, row) /\ Drops(u, row)
  BY <1>3, <1>4, <1>6 DEF Takes, Drops
<1>10. u.scope = "QUANTITY"
  BY <1>0, <1>1, <1>6 DEF Still
<1>11. Confined(u)
  BY <1>3, <1>4, <1>6, <1>10 DEF Confined, Inserts
<1> QED BY <1>2, <1>7, <1>8, <1>9, <1>11, GoSerial DEF Serial

LEMMA OwnerSerial ==
  ASSUME AllInv, NEW p \in Owners, OwnerActs(p)
  PROVE  SerialInv'
<1>0. p \in Sessions
  BY DEF Sessions
<1>1. ASSUME NEW op, NEW at, NEW scope, NEW arg, Act(p, op, at, scope, arg)
      PROVE  Begin(p, op, at, scope, arg)
  BY <1>1 DEF Act
<1>2. ASSUME NEW a, Act(p, "ANSWER", "ACCOUNT", "NONE", a) PROVE SerialInv'
  BY <1>0, <1>1, <1>2, BeginSerial
<1>3. ASSUME NEW op \in {"CONFIRM", "REVOKE"}, Act(p, op, "ADVISORY", "QUANTITY", "NONE")
      PROVE  SerialInv'
  BY <1>0, <1>1, <1>3, BeginSerial
<1>4. ASSUME Act(p, "ENABLE", "SCOPE", "QUANTITY", "NONE") PROVE SerialInv'
  BY <1>0, <1>1, <1>4, BeginSerial
<1> QED
  BY <1>0, <1>2, <1>3, <1>4, BeginSwitchSerial, OwnerLocksSerial, HoldSerial, DiscardSerial
     DEF OwnerActs


(***************************************************************************)
(* Claims.                                                                 *)
(***************************************************************************)
LEMMA ClaimSerial ==
  ASSUME AllInv, NEW p \in Sessions, ClaimSync(p) \/ ClaimRow(p)
  PROVE  SerialInv'
<1>0. Shaped(tx[p]) /\ Stands(tx[p]) /\ Serial(tx[p], account, enabled, row)
  BY Underway
<1>1. ASSUME NEW at, tx[p].op = "CLAIM"
      PROVE  /\ Locks(p, at, tx[p].arg).op = "CLAIM" /\ Locks(p, at, tx[p].arg).at = at
             /\ Locks(p, at, tx[p].arg).scope = tx[p].scope /\ Locks(p, at, tx[p].arg).row = tx[p].row
             /\ Locks(p, at, tx[p].arg).changes = tx[p].changes
             /\ Locks(p, at, tx[p].arg).locks = tx[p].locks \cup {Want(p)}
  BY <1>0, <1>1 DEF Locks, Locked, Shaped, Fields
<1>2. CASE ClaimSync(p)
  <2> DEFINE u == Locks(p, "PICK", tx[p].arg)
  <2>1. tx[p].op = "CLAIM" /\ tx[p].at = "SYNC" /\ UNCHANGED <<account, enabled, row>>
    BY <1>2 DEF ClaimSync, Reaches, Unchanged
  <2>2. Go(p, u)
    BY <1>0, <1>2, SameArg DEF ClaimSync, Locks
  <2>3. Want(p) = SyncOf(tx[p].scope)
    BY <2>1 DEF Want, SyncOf
  <2>4. /\ u.op = "CLAIM" /\ u.at = "PICK" /\ u.scope = tx[p].scope /\ u.changes = tx[p].changes
        /\ u.locks = tx[p].locks \cup {Want(p)}
    BY <1>1, <2>1
  <2> HIDE DEF u
  <2>5. Claiming(u, row) /\ Supersedes(u, row) /\ Still(u, account, enabled)
    BY <2>3, <2>4 DEF Claiming, Supersedes, Still, Inserts
  <2>6. Confined(u)
    BY <1>0, <2>1, <2>4 DEF Serial, Confined, Inserts
  <2>7. Serial(u, account, enabled, row)
    BY <1>0, <2>1, <2>4, <2>5, <2>6, Onward
  <2> QED BY <2>1, <2>2, <2>7, GoSerial
<1>3. CASE ClaimRow(p) /\ Status(tx[p].row) \notin Waiting
  BY <1>3, RollbackSerial DEF ClaimRow
<1>4. CASE ClaimRow(p) /\ Status(tx[p].row) \in Waiting
  <2> DEFINE u == Locks(p, "GUARD", tx[p].arg)
  <2>1. /\ tx[p].op = "CLAIM" /\ tx[p].at = "ROW" /\ tx[p].then = "GUARD"
        /\ UNCHANGED <<account, enabled, row>>
    BY <1>4 DEF ClaimRow, Reaches, Unchanged
  <2>2. Go(p, u)
    BY <1>0, <1>4, SameArg DEF ClaimRow, Locks
  <2>3. Want(p) = RowOf(tx[p].row)
    BY <2>1 DEF Want, RowOf, Locker
  <2>4. /\ u.op = "CLAIM" /\ u.at = "GUARD" /\ u.scope = tx[p].scope /\ u.changes = tx[p].changes
        /\ u.row = tx[p].row /\ u.locks = tx[p].locks \cup {Want(p)}
    BY <1>1, <2>1
  <2> HIDE DEF u
  <2>5. Claiming(u, row)
    <3>1. /\ SyncOf(tx[p].scope) \in tx[p].locks /\ Vacant(row, tx[p].scope)
          /\ NewestIn(row, tx[p].row)
      BY <1>0, <2>1 DEF Serial, Claiming
    <3>2. At(row, tx[p].row) \in Waiting
      BY <1>4, StatusIs
    <3> QED BY <2>3, <2>4, <3>1, <3>2 DEF Claiming
  <2>6. Supersedes(u, row) /\ Still(u, account, enabled)
    BY <2>4 DEF Supersedes, Still, Inserts
  <2>7. Confined(u)
    BY <1>0, <2>1, <2>4 DEF Serial, Confined, Inserts
  <2>8. Serial(u, account, enabled, row)
    BY <1>0, <2>1, <2>4, <2>5, <2>6, <2>7, Onward
  <2> QED BY <2>1, <2>2, <2>8, GoSerial
<1> QED BY <1>2, <1>3, <1>4

(* The newest version is the one that has the number of the versions.      *)
LEMMA LatestIsNewest ==
  ASSUME Grown(row), NEW id \in Ids, ~ (id[2] < Latest(id[1]))
  PROVE  NewestIn(row, id)
<1> DEFINE n == Latest(id[1])
<1>1. id[1] \in Scopes /\ id[2] \in 1..MaxVersion[id[1]] /\ MaxVersion[id[1]] \in Nat
  BY IdsOf, SwitchesAssumption DEF SwitchesAssumption
<1>2. /\ n \in 0..MaxVersion[id[1]]
      /\ \A v \in 1..MaxVersion[id[1]] : row[id[1]][v] # "NONE" <=> v <= n
  BY <1>1, LatestIs
<1> HIDE DEF n
<1>3. ~ (id[2] < n)
  BY DEF n
<1> SUFFICES ASSUME NEW other \in Ids, other[1] = id[1], other[2] > id[2]
             PROVE  At(row, other) = "NONE"
  BY DEF NewestIn
<1>4. other[2] \in 1..MaxVersion[id[1]]
  BY IdsOf
<1>5. ~ (other[2] <= n)
  BY <1>1, <1>2, <1>3, <1>4
<1> QED BY <1>2, <1>4, <1>5 DEF At

LEMMA PickSerial ==
  ASSUME AllInv, NEW p \in Sessions, Pick(p)
  PROVE  SerialInv'
<1>0. Shaped(tx[p]) /\ Stands(tx[p]) /\ Serial(tx[p], account, enabled, row)
  BY Underway
<1>1. /\ tx[p].op = "CLAIM" /\ tx[p].at = "PICK" /\ SyncOf(tx[p].scope) \in tx[p].locks
      /\ UNCHANGED <<account, enabled, row>>
  BY <1>0 DEF Pick, Stands, Unchanged, Serial, Claiming
<1>2. ASSUME NEW u, Go(p, u), u.op = "CLAIM", u.scope = tx[p].scope, u.changes = tx[p].changes,
             u.locks = tx[p].locks, Claiming(u, row)
      PROVE  SerialInv'
  <2>1. Supersedes(u, row) /\ Still(u, account, enabled)
    BY <1>2 DEF Supersedes, Still, Inserts
  <2>2. Confined(u)
    BY <1>0, <1>1, <1>2 DEF Serial, Confined, Inserts
  <2>3. Serial(u, account, enabled, row)
    BY <1>0, <1>1, <1>2, <2>1, <2>2, Onward
  <2> QED BY <1>1, <1>2, <2>3, GoSerial
<1>3. CASE Of(tx[p].scope, {"DISPATCHED"}) # {} \/ Candidates(p) = {}
  <2> DEFINE u == [tx[p] EXCEPT !.at = "COMMIT"]
  <2>1. /\ u.op = "CLAIM" /\ u.scope = tx[p].scope /\ u.at = "COMMIT"
        /\ u.changes = tx[p].changes /\ u.locks = tx[p].locks
    BY <1>0, <1>1 DEF Shaped, Fields
  <2>2. Go(p, u)
    BY <1>3 DEF Pick
  <2> HIDE DEF u
  <2>3. Claiming(u, row)
    BY <1>1, <2>1 DEF Claiming
  <2> QED BY <1>2, <2>1, <2>2, <2>3
<1>4. CASE ~(Of(tx[p].scope, {"DISPATCHED"}) # {} \/ Candidates(p) = {})
  <2>1. PICK id \in Newest(Candidates(p)) :
          Go(p, [tx[p] EXCEPT !.at = "ROW", !.row = id,
                              !.then = IF id[2] < Latest(tx[p].scope) THEN "PICK" ELSE "GUARD"])
    BY <1>4 DEF Pick
  <2> DEFINE then == IF id[2] < Latest(tx[p].scope) THEN "PICK" ELSE "GUARD"
             u == [tx[p] EXCEPT !.at = "ROW", !.row = id, !.then = then]
  <2>2. id \in Ids /\ id[1] = tx[p].scope
    BY DEF Newest, Candidates, Of, In
  <2>3. Go(p, u)
    BY <2>1
  <2>4. then = "GUARD" => NewestIn(row, id)
    BY <2>2, LatestIsNewest DEF AllInv, RowInv
  <2> HIDE DEF then
  <2>5. /\ u.op = "CLAIM" /\ u.scope = tx[p].scope /\ u.at = "ROW" /\ u.row = id /\ u.then = then
        /\ u.changes = tx[p].changes /\ u.locks = tx[p].locks
    BY <1>0, <1>1 DEF Shaped, Fields
  <2> HIDE DEF u
  <2>6. Vacant(row, tx[p].scope)
    BY <1>4, StatusIs DEF Vacant, Of, In
  <2>7. Claiming(u, row)
    BY <1>1, <2>4, <2>5, <2>6 DEF Claiming
  <2> QED BY <1>2, <2>3, <2>5, <2>7
<1> QED BY <1>3, <1>4

LEMMA RefusedSerial ==
  ASSUME AllInv, NEW p \in Sessions, Refused(p), UNCHANGED <<account, enabled, row>>,
         tx[p].op = "CLAIM", tx[p].at \in {"GUARD", "ADVISORY"}
  PROVE  SerialInv'
<1> DEFINE locks == {l \in tx[p].locks : l[1] = <<"sync", tx[p].scope>>}
           u == [tx[p] EXCEPT !.at = "ROW", !.then = "COMMIT", !.locks = locks]
<1>0. Shaped(tx[p]) /\ Writes(tx[p], row) /\ Serial(tx[p], account, enabled, row)
  BY Underway
<1>1. Go(p, u)
  BY DEF Refused
<1>2. SyncOf(tx[p].scope) \in locks /\ Vacant(row, tx[p].scope)
  BY <1>0 DEF Serial, Claiming, SyncOf
<1> HIDE DEF locks
<1>3. /\ u.op = "CLAIM" /\ u.scope = tx[p].scope /\ u.changes = tx[p].changes
      /\ u.at = "ROW" /\ u.then = "COMMIT" /\ u.locks = locks
  BY <1>0 DEF Shaped, Fields
<1> HIDE DEF u
<1>4. Claiming(u, row) /\ Supersedes(u, row) /\ Still(u, account, enabled)
  BY <1>2, <1>3 DEF Claiming, Supersedes, Still, Inserts
<1>5. Takes(u, row)
  BY <1>0, <1>3 DEF Takes, Writes, Unsending
<1>6. New(u, row) = New(tx[p], row)
  BY <1>3 DEF New
<1>7. Drops(u, row)
  BY <1>0, <1>2, <1>3, <1>6 DEF Serial, Drops
<1>8. Confined(u)
  BY <1>0, <1>3 DEF Serial, Confined, Inserts
<1> QED BY <1>1, <1>4, <1>5, <1>7, <1>8, GoSerial DEF Serial

(* What is sent is the row a claim has looked at, or the new version.      *)
LEMMA DispatchSerial ==
  ASSUME NEW t, Shaped(t), Writes(t, row), t.at # "COMMIT", NEW id, id[1] = t.scope,
         Drops(t, row), Confined(t), SyncOf(t.scope) \in t.locks, Vacant(row, t.scope),
         \/ t.op = "CLAIM" /\ RowOf(id) \in t.locks /\ At(row, id) \in Waiting /\ NewestIn(row, id)
         \/ /\ t.op = "DECIDE" /\ At(row, id) = "NONE"
            /\ \A other \in Ids : other[1] = t.scope /\ At(row, other) \in Waiting =>
                 <<other, "ENDED">> \in t.changes
  PROVE  Serial(Dispatch(t, id), account, enabled, row)
<1> DEFINE changes == {c \in t.changes : c[1] # id} \cup {<<id, "DISPATCHED">>}
           u == [t EXCEPT !.at = "COMMIT", !.changes = changes]
           out == <<id, "DISPATCHED">>
<1>1. Dispatch(t, id) = u
  BY DEF Dispatch
<1>2. out \in changes /\ out[1] = id /\ out[2] = "DISPATCHED"
  OBVIOUS
<1>3. /\ \A c \in changes : (c \in t.changes /\ c[1] # id) \/ c = out
      /\ \A c \in t.changes : c[1] # id => c \in changes
  OBVIOUS
<1> HIDE DEF changes, out
<1>4. /\ u.op = t.op /\ u.scope = t.scope /\ u.locks = t.locks /\ u.changes = changes
      /\ u.at = "COMMIT"
  BY DEF Shaped, Fields
<1> HIDE DEF u
<1>5. Still(u, account, enabled) /\ Claiming(u, row)
  BY <1>4 DEF Still, Claiming
<1>6. Takes(u, row)
  <2> SUFFICES ASSUME NEW c \in changes, c[2] = "DISPATCHED"
               PROVE  /\ SyncOf(u.scope) \in u.locks /\ Vacant(row, u.scope)
                      /\ \/ u.op = "DECIDE" /\ c \in New(u, row)
                         \/ u.op = "CLAIM" /\ RowOf(c[1]) \in u.locks /\ At(row, c[1]) \in Waiting
                                           /\ NewestIn(row, c[1])
    BY <1>4 DEF Takes
  <2>1. c = out
    BY <1>3 DEF Writes, Unsending
  <2> QED BY <1>2, <1>4, <2>1 DEF New
<1>7. Drops(u, row)
  <2> SUFFICES ASSUME NEW c \in changes, c[2] = "ENDED", c \notin New(u, row)
               PROVE  /\ At(row, c[1]) \in Waiting \cup {"ENDED"}
                      /\ RowOf(c[1]) \in u.locks \/ (u.op = "CLAIM" /\ SyncOf(u.scope) \in u.locks)
    BY <1>4 DEF Drops
  <2>1. c \in t.changes /\ c \notin New(t, row)
    BY <1>2, <1>3, <1>4 DEF New
  <2> QED BY <1>4, <2>1 DEF Drops
<1>8. Confined(u)
  BY <1>2, <1>3, <1>4 DEF Confined, Inserts
<1>9. Supersedes(u, row)
  <2>1. CASE t.op = "DECIDE" /\ At(row, id) = "NONE"
    <3>1. out \in New(u, row)
      BY <1>2, <1>4, <2>1 DEF New
    <3>2. ASSUME NEW other \in Ids, other[1] = t.scope, At(row, other) \in Waiting
          PROVE  <<other, "ENDED">> \in changes
      <4> DEFINE c == <<other, "ENDED">>
      <4>1. c[1] = other /\ other # id
        BY <2>1, <3>2 DEF Waiting
      <4>2. c \in t.changes
        BY <2>1, <3>2
      <4> HIDE DEF c
      <4>3. c \in changes
        BY <1>3, <4>1, <4>2
      <4> QED BY <4>3 DEF c
    <3> QED BY <1>4, <3>1, <3>2 DEF Supersedes
  <2>2. CASE t.op = "CLAIM"
    BY <1>4, <2>2 DEF Supersedes, Inserts
  <2> QED BY <2>1, <2>2
<1> QED BY <1>1, <1>5, <1>6, <1>7, <1>8, <1>9 DEF Serial

LEMMA GuardSerial ==
  ASSUME AllInv, NEW p \in Sessions, ModeGuard(p) \/ QuantityGuard(p)
  PROVE  SerialInv'
<1>0. Shaped(tx[p]) /\ Stands(tx[p]) /\ Writes(tx[p], row) /\ Serial(tx[p], account, enabled, row)
  BY Underway
<1>1. /\ tx[p].op = "CLAIM" /\ tx[p].at \in {"GUARD", "ADVISORY"} /\ tx[p].at # "COMMIT"
      /\ UNCHANGED <<account, enabled, row>>
  BY DEF ModeGuard, QuantityGuard, Reaches, Unchanged
<1>2. /\ SyncOf(tx[p].scope) \in tx[p].locks /\ Vacant(row, tx[p].scope)
      /\ RowOf(tx[p].row) \in tx[p].locks /\ At(row, tx[p].row) \in Waiting
      /\ NewestIn(row, tx[p].row) /\ tx[p].row[1] = tx[p].scope
  BY <1>0, <1>1 DEF Serial, Claiming, Stands
<1>3. Drops(tx[p], row) /\ Confined(tx[p])
  BY <1>0 DEF Serial
<1>4. CASE ModeGuard(p) /\ account.mode = "SHADOW"
  BY <1>1, <1>4, RefusedSerial DEF ModeGuard
<1>5. CASE ModeGuard(p) /\ account.mode # "SHADOW" /\ tx[p].scope = "QUANTITY"
  <2> DEFINE u == [tx[p] EXCEPT !.at = "ADVISORY"]
  <2>1. /\ u.op = "CLAIM" /\ u.scope = tx[p].scope /\ u.at = "ADVISORY" /\ u.row = tx[p].row
        /\ u.changes = tx[p].changes /\ u.locks = tx[p].locks
    BY <1>0, <1>1 DEF Shaped, Fields
  <2>2. Go(p, u)
    BY <1>5 DEF ModeGuard
  <2> HIDE DEF u
  <2>3. Claiming(u, row)
    BY <1>2, <2>1 DEF Claiming
  <2>4. Supersedes(u, row) /\ Still(u, account, enabled)
    BY <2>1 DEF Supersedes, Still, Inserts
  <2>5. Confined(u)
    BY <1>1, <1>3, <2>1 DEF Confined, Inserts
  <2>6. Serial(u, account, enabled, row)
    BY <1>0, <1>1, <2>1, <2>3, <2>4, <2>5, Onward
  <2> QED BY <1>1, <2>2, <2>6, GoSerial
<1>6. CASE ModeGuard(p) /\ account.mode # "SHADOW" /\ tx[p].scope # "QUANTITY"
  <2>1. Go(p, Dispatch(tx[p], tx[p].row))
    BY <1>6 DEF ModeGuard
  <2>2. Serial(Dispatch(tx[p], tx[p].row), account, enabled, row)
    BY <1>0, <1>1, <1>2, <1>3, DispatchSerial
  <2> QED BY <1>1, <2>1, <2>2, GoSerial
<1>7. CASE QuantityGuard(p) /\ ~account.confirmed
  BY <1>1, <1>7, RefusedSerial DEF QuantityGuard
<1>8. CASE QuantityGuard(p) /\ account.confirmed
  <2> DEFINE t == Locked(p)
  <2>1. /\ Shaped(t) /\ t.op = "CLAIM" /\ t.scope = tx[p].scope /\ t.todo = tx[p].todo
        /\ t.at = tx[p].at /\ t.row = tx[p].row /\ t.arg = tx[p].arg
        /\ t.waited = tx[p].waited /\ t.changes = tx[p].changes /\ tx[p].locks \subseteq t.locks
    BY <1>0, <1>1 DEF Locked, Shaped, Fields
  <2>2. Go(p, Dispatch(t, tx[p].row))
    BY <1>8 DEF QuantityGuard
  <2> HIDE DEF t
  <2>3. Writes(t, row)
    <3>1. tx[p].row \in Ids /\ At(row, tx[p].row) # "NONE"
      BY <1>0, <1>1 DEF Writes, Named
    <3>2. t.op \notin Owned
      BY <2>1 DEF Owned
    <3> QED BY <1>0, <1>1, <2>1, <3>1, <3>2, OnWrites
  <2>4. New(t, row) = New(tx[p], row)
    BY <2>1 DEF New
  <2>5. Drops(t, row)
    BY <1>1, <1>3, <2>1, <2>4 DEF Drops
  <2>6. Confined(t)
    BY <1>1, <1>3, <2>1 DEF Confined, Inserts
  <2>7. Serial(Dispatch(t, tx[p].row), account, enabled, row)
    BY <1>1, <1>2, <2>1, <2>3, <2>5, <2>6, DispatchSerial
  <2> QED BY <1>1, <2>2, <2>7, GoSerial
<1> QED BY <1>4, <1>5, <1>6, <1>7, <1>8

(***************************************************************************)
(* New versions.                                                           *)
(***************************************************************************)
LEMMA InsertScopeSerial ==
  ASSUME AllInv, NEW p \in Sessions, InsertScope(p)
  PROVE  SerialInv'
<1>0. Shaped(tx[p]) /\ Writes(tx[p], row) /\ Serial(tx[p], account, enabled, row)
  BY Underway
<1>1. CASE tx[p].op = "RECALCULATE" /\ ~enabled
  BY <1>1, RollbackSerial DEF InsertScope
<1>2. CASE ~(tx[p].op = "RECALCULATE" /\ ~enabled)
  <2> DEFINE u == Locks(p, "SYNC", account.mode)
  <2>1. /\ tx[p].op \in Inserts /\ tx[p].at = "SCOPE" /\ Go(p, u)
        /\ UNCHANGED <<account, enabled, row>>
    BY <1>2 DEF InsertScope, Reaches, Unchanged, Locks, Inserts
  <2>2. tx[p].op = "RECALCULATE" => Want(p) = ScopeShared
    BY <1>0, <2>1 DEF Want, ScopeShared, Writes, Versioned
  <2>3. /\ u.op = tx[p].op /\ u.at = "SYNC" /\ u.scope = tx[p].scope /\ u.changes = tx[p].changes
        /\ u.locks = tx[p].locks \cup {Want(p)}
    BY <1>0 DEF Locks, Locked, Shaped, Fields
  <2> HIDE DEF u
  <2>4. Still(u, account, enabled)
    BY <1>2, <2>1, <2>2, <2>3 DEF Still, Inserts
  <2>5. Claiming(u, row) /\ Supersedes(u, row)
    BY <2>1, <2>3 DEF Claiming, Supersedes, Inserts
  <2>6. Confined(u)
    BY <1>0, <2>1, <2>3 DEF Serial, Confined, Inserts
  <2>7. Serial(u, account, enabled, row)
    BY <1>0, <2>1, <2>3, <2>4, <2>5, <2>6, Onward
  <2> QED BY <2>1, <2>7, GoSerial
<1> QED BY <1>1, <1>2

LEMMA InsertRowSerial ==
  ASSUME AllInv, NEW p \in Sessions, InsertRow(p)
  PROVE  SerialInv'
<1> DEFINE s == tx[p].scope
           id == <<s, Latest(s) + 1>>
           status == IF tx[p].arg = "LIVE" THEN "PENDING" ELSE "ENDED"
           new == <<id, status>>
           t == [Locked(p) EXCEPT !.changes = {new}]
           then == IF tx[p].op = "DECIDE" /\ tx[p].arg = "LIVE" THEN "GUARD" ELSE "COMMIT"
<1>0. Shaped(tx[p]) /\ Writes(tx[p], row) /\ Serial(tx[p], account, enabled, row)
  BY Underway
<1>1. /\ tx[p].op \in Inserts /\ tx[p].at = "SYNC" /\ Room(s)
      /\ Through(p, t, Of(s, Waiting), then) /\ UNCHANGED <<account, enabled, row>>
  BY DEF InsertRow, Reaches, Unchanged, Inserts
<1>2. Want(p) = SyncOf(s)
  BY <1>1 DEF Want, SyncOf
<1>3. At(row, id) = "NONE"
  <2>1. s \in Scopes
    BY <1>0, <1>1 DEF Writes, Versioned, Scopes, Inserts
  <2> DEFINE n == Latest(s)
  <2>2. /\ n \in 0..MaxVersion[s] /\ n < MaxVersion[s] /\ MaxVersion[s] \in Nat
        /\ \A v \in 1..MaxVersion[s] : row[s][v] # "NONE" <=> v <= n
    BY <1>1, <2>1, LatestIs, SwitchesAssumption DEF Room, AllInv, RowInv, SwitchesAssumption
  <2> HIDE DEF n
  <2>3. row[s][n + 1] = "NONE"
    BY <2>2
  <2> QED BY <2>3 DEF At, n
<1>4. id[1] = s /\ status \in {"PENDING", "ENDED"} /\ then \in {"GUARD", "COMMIT"}
  OBVIOUS
<1> HIDE DEF id, status, then
<1>5. new[1] = id /\ new[2] = status
  OBVIOUS
<1> HIDE DEF new
<1>6. /\ Shaped(t) /\ t.op = tx[p].op /\ t.scope = s /\ t.changes = {new}
      /\ t.locks = tx[p].locks \cup {SyncOf(s)}
  BY <1>0, <1>2 DEF Locked, Shaped, Fields
<1> HIDE DEF t
<1>7. New(t, row) = {new}
  BY <1>3, <1>5, <1>6 DEF New
<1>8. Takes(t, row) /\ Drops(t, row)
  BY <1>4, <1>5, <1>6, <1>7 DEF Takes, Drops
<1>9. tx[p].op = "RECALCULATE" => enabled /\ ScopeShared \in t.locks
  BY <1>0, <1>1, <1>6 DEF Serial, Still
<1>10. \A other \in Of(s, Waiting) : other[1] = s
  BY DEF Of
<1>11. \A other \in Ids : other[1] = s /\ At(row, other) \in Waiting => other \in Of(s, Waiting)
  BY StatusIs DEF Of, In
<1>12. tx[p].op \notin {"SWITCH", "CLAIM"}
  BY <1>1 DEF Inserts
<1>13. \A c \in t.changes : c[1][1] = s
  BY <1>4, <1>5, <1>6
<1>14. SyncOf(s) \in t.locks /\ New(t, row) # {}
  BY <1>6, <1>7
<1> HIDE DEF s
<1> QED BY <1>1, <1>4, <1>6, <1>8, <1>9, <1>10, <1>11, <1>12, <1>13, <1>14, ThroughSerial

LEMMA DecideSerial ==
  ASSUME AllInv, NEW p \in Sessions, DecideGuard(p)
  PROVE  SerialInv'
<1>0. Shaped(tx[p]) /\ Writes(tx[p], row) /\ Serial(tx[p], account, enabled, row)
  BY Underway
<1>1. tx[p].op = "DECIDE" /\ tx[p].at = "GUARD" /\ tx[p].at # "COMMIT" /\ tx[p].op \in Inserts
  BY DEF DecideGuard, Inserts
<1>2. /\ SyncOf(tx[p].scope) \in tx[p].locks /\ New(tx[p], row) # {}
      /\ \A other \in Ids : other[1] = tx[p].scope /\ At(row, other) \in Waiting =>
           <<other, "ENDED">> \in tx[p].changes
  BY <1>0, <1>1 DEF Serial, Supersedes
<1>3. CASE Of("PRICE", {"DISPATCHED"}) # {}
  <2> DEFINE u == [tx[p] EXCEPT !.at = "COMMIT"]
  <2>1. /\ u.op = "DECIDE" /\ u.scope = tx[p].scope /\ u.at = "COMMIT"
        /\ u.changes = tx[p].changes /\ u.locks = tx[p].locks
    BY <1>0, <1>1 DEF Shaped, Fields
  <2>2. Go(p, u) /\ UNCHANGED <<account, enabled, row>>
    BY <1>3 DEF DecideGuard, Unchanged
  <2> HIDE DEF u
  <2>3. New(u, row) = New(tx[p], row)
    BY <2>1 DEF New
  <2>4. Supersedes(u, row)
    BY <1>2, <2>1, <2>3 DEF Supersedes
  <2>5. Claiming(u, row) /\ Still(u, account, enabled)
    BY <2>1 DEF Claiming, Still
  <2>6. Confined(u)
    BY <1>0, <1>1, <2>1 DEF Serial, Confined
  <2>7. Serial(u, account, enabled, row)
    BY <1>0, <1>1, <2>1, <2>4, <2>5, <2>6, Onward
  <2> QED BY <2>2, <2>7, GoSerial
<1>4. CASE Of("PRICE", {"DISPATCHED"}) = {} /\ account.mode = "SHADOW"
  BY <1>4, RollbackSerial DEF DecideGuard
<1>5. CASE Of("PRICE", {"DISPATCHED"}) = {} /\ account.mode # "SHADOW"
  <2> DEFINE id == <<"PRICE", Latest("PRICE") + 1>>
  <2>1. Go(p, Dispatch(tx[p], id)) /\ UNCHANGED <<account, enabled, row>>
    BY <1>5 DEF DecideGuard, Unchanged
  <2>2. tx[p].scope = "PRICE"
    BY <1>0, <1>1 DEF Writes, Versioned
  <2>3. Vacant(row, "PRICE")
    BY <1>5, StatusIs DEF Vacant, Of, In
  <2>4. At(row, id) = "NONE"
    <3>1. PICK c \in New(tx[p], row) : c[1][1] = "PRICE"
      BY <1>0, <1>1 DEF Writes, Versioned
    <3>2. c[1] \in Ids /\ row["PRICE"][c[1][2]] = "NONE"
      BY <1>0, <3>1 DEF Writes, Changing, New, At
    <3> DEFINE n == Latest("PRICE")
    <3>3. c[1][2] \in 1..MaxVersion["PRICE"]
      BY <3>1, <3>2, IdsOf
    <3>4. /\ n \in 0..MaxVersion["PRICE"] /\ MaxVersion["PRICE"] \in Nat
          /\ \A v \in 1..MaxVersion["PRICE"] : row["PRICE"][v] # "NONE" <=> v <= n
      BY LatestIs, SwitchesAssumption DEF Scopes, SwitchesAssumption, AllInv, RowInv
    <3> HIDE DEF n
    <3>5. n + 1 \in 1..MaxVersion["PRICE"]
      BY <3>2, <3>3, <3>4
    <3>6. row["PRICE"][n + 1] = "NONE"
      BY <3>4, <3>5
    <3> QED BY <3>6 DEF At, n
  <2>5. id[1] = "PRICE"
    OBVIOUS
  <2> HIDE DEF id
  <2>6. Drops(tx[p], row) /\ Confined(tx[p])
    BY <1>0 DEF Serial
  <2>7. Serial(Dispatch(tx[p], id), account, enabled, row)
    BY <1>0, <1>1, <1>2, <2>2, <2>3, <2>4, <2>5, <2>6, DispatchSerial
  <2> QED BY <2>1, <2>7, GoSerial
<1> QED BY <1>3, <1>4, <1>5

LEMMA EndRowSerial ==
  ASSUME AllInv, NEW p \in Sessions, EndRow(p)
  PROVE  SerialInv'
<1> DEFINE id == tx[p].row
<1>0. /\ Shaped(tx[p]) /\ Stands(tx[p]) /\ Writes(tx[p], row)
      /\ Serial(tx[p], account, enabled, row)
  BY Underway
<1>1. /\ tx[p].at = "ROW" /\ (tx[p].then # "GUARD" \/ tx[p].op # "CLAIM")
      /\ UNCHANGED <<account, enabled, row>>
  BY DEF EndRow, Reaches, Unchanged
<1>2. /\ tx[p].op \in {"SWITCH", "CLAIM"} \cup Inserts
      /\ tx[p].op = "CLAIM" => /\ tx[p].then \in {"PICK", "COMMIT"} /\ tx[p].todo = {}
                               /\ id[1] = tx[p].scope
      /\ tx[p].op \in Inserts => tx[p].then \in {"GUARD", "COMMIT"}
  BY <1>0, <1>1 DEF Stands, Inserts
<1>3. /\ tx[p].op = "CLAIM" => SyncOf(tx[p].scope) \in tx[p].locks
      /\ tx[p].op = "RECALCULATE" => enabled /\ ScopeShared \in tx[p].locks
      /\ tx[p].op = "SWITCH" => tx[p].arg = "SHADOW"
      /\ tx[p].op \in Inserts \cup {"CLAIM"} => \A c \in tx[p].changes : c[1][1] = tx[p].scope
      /\ tx[p].op \in Inserts => \A other \in tx[p].todo \cup {id} : other[1] = tx[p].scope
  BY <1>0, <1>1 DEF Serial, Claiming, Still, Confined
<1>4. tx[p].op \in Inserts =>
        /\ SyncOf(tx[p].scope) \in tx[p].locks /\ New(tx[p], row) # {}
        /\ \A other \in Ids : other[1] = tx[p].scope /\ At(row, other) \in Waiting =>
             <<other, "ENDED">> \in tx[p].changes \/ other \in tx[p].todo \cup {id}
  BY <1>0, <1>1 DEF Serial, Supersedes
<1>5. Sought(tx[p]) \subseteq Waiting /\ (tx[p].op # "SWITCH" => Sought(tx[p]) = Waiting)
  BY DEF Sought, Waiting
<1>6. Takes(tx[p], row) /\ Drops(tx[p], row)
  BY <1>0 DEF Serial
<1>7. CASE Status(id) \notin Sought(tx[p])
  <2>1. Through(p, tx[p], tx[p].todo, tx[p].then)
    BY <1>7 DEF EndRow
  <2>2. tx[p].op \in Inserts => At(row, id) \notin Waiting
    BY <1>5, <1>7, StatusIs DEF Inserts
  <2>3. tx[p].op \in Inserts =>
          \A other \in Ids : other[1] = tx[p].scope /\ At(row, other) \in Waiting =>
            <<other, "ENDED">> \in tx[p].changes \/ other \in tx[p].todo
    BY <1>4, <2>2
  <2> HIDE DEF id
  <2> QED BY <1>0, <1>1, <1>2, <1>3, <1>4, <1>6, <2>1, <2>3, ThroughSerial
<1>8. CASE Status(id) \in Sought(tx[p])
  <2> DEFINE end == <<id, "ENDED">>
             t == [Locked(p) EXCEPT !.changes = tx[p].changes \cup {end}]
  <2>1. Through(p, t, tx[p].todo, tx[p].then)
    <3>1. Locked(p).changes = tx[p].changes /\ Ends({id}) = {end}
      BY <1>0 DEF Ends, Locked, Shaped, Fields
    <3> QED BY <1>8, <3>1 DEF EndRow
  <2>2. end[1] = id /\ end[2] = "ENDED"
    OBVIOUS
  <2>3. Want(p) = RowOf(id) /\ At(row, id) \in Waiting
    BY <1>1, <1>5, <1>8, StatusIs DEF Want, RowOf, Locker
  <2> HIDE DEF id
  <2>4. /\ Shaped(t) /\ t.op = tx[p].op /\ t.scope = tx[p].scope /\ t.arg = tx[p].arg
        /\ t.changes = tx[p].changes \cup {end} /\ t.locks = tx[p].locks \cup {RowOf(id)}
    <3> HIDE DEF end
    <3> QED BY <1>0, <2>3 DEF Locked, Shaped, Fields
  <2> HIDE DEF t
  <2>5. \A other \in tx[p].todo \cup {id} : other \in tx[p].todo \/ <<other, "ENDED">> \in t.changes
    BY <2>4
  <2> HIDE DEF end
  <2>6. New(t, row) = New(tx[p], row)
    <3>1. end \notin New(t, row)
      BY <2>2, <2>3 DEF New, Waiting
    <3> QED BY <2>4, <3>1 DEF New
  <2>7. Takes(t, row)
    BY <1>0, <1>1, <2>2, <2>4 DEF Takes, Writes, Unsending
  <2>8. Drops(t, row)
    <3>1. \A c \in t.changes : c \in tx[p].changes \/ c = end
      BY <2>4
    <3> SUFFICES ASSUME NEW c \in t.changes, c[2] = "ENDED", c \notin New(t, row)
                 PROVE  /\ At(row, c[1]) \in Waiting \cup {"ENDED"}
                        /\ RowOf(c[1]) \in t.locks \/ (t.op = "CLAIM" /\ SyncOf(t.scope) \in t.locks)
      BY DEF Drops
    <3>2. CASE c = end
      BY <2>2, <2>3, <2>4, <3>2
    <3>3. CASE c \in tx[p].changes
      BY <1>6, <2>4, <2>6, <3>3 DEF Drops
    <3> QED BY <3>1, <3>2, <3>3
  <2>9. tx[p].op \in Inserts \cup {"CLAIM"} => \A c \in t.changes : c[1][1] = tx[p].scope
    <3>1. tx[p].op \in Inserts \cup {"CLAIM"} => id[1] = tx[p].scope
      BY <1>2, <1>3
    <3> QED BY <1>3, <2>2, <2>4, <3>1
  <2>10. tx[p].op \in Inserts =>
           \A other \in Ids : other[1] = tx[p].scope /\ At(row, other) \in Waiting =>
             <<other, "ENDED">> \in t.changes \/ other \in tx[p].todo
    BY <1>4, <2>4, <2>5
  <2> QED BY <1>1, <1>2, <1>3, <1>4, <2>1, <2>4, <2>6, <2>7, <2>8, <2>9, <2>10, ThroughSerial
<1> QED BY <1>7, <1>8


(***************************************************************************)
(* What a commit, or an outcome, does to the others.                       *)
(***************************************************************************)
(* Rows r differ from the present ones only where a transaction that holds *)
(* locks does not look: a new version, a write that leaves, one that ends, *)
(* one that has an outcome.                                                *)
Spares(r, locks) ==
  \A id \in Ids : At(r, id) # At(row, id) =>
    \/ At(row, id) = "NONE" /\ SyncOf(id[1]) \notin locks
    \/ /\ At(row, id) \in Waiting /\ At(r, id) = "DISPATCHED"
       /\ RowOf(id) \notin locks /\ SyncOf(id[1]) \notin locks
    \/ /\ At(row, id) \in Waiting /\ At(r, id) = "ENDED"
       /\ RowOf(id) \notin locks \/ SyncOf(id[1]) \notin locks
    \/ /\ At(row, id) = "DISPATCHED" /\ At(r, id) \in {"FAILED", "ENDED"}
       /\ RowOf(id) \notin locks /\ SyncOf(id[1]) \notin locks

LEMMA OthersSerial ==
  ASSUME NEW t, Stands(t), Writes(t, row), Serial(t, account, enabled, row), NEW r, Spares(r, t.locks),
         NEW a, NEW e, Still(t, a, e)
  PROVE  Serial(t, a, e, r)
<1>1. \A c \in t.changes : c[1] \in Ids
  BY DEF Writes, Changing
<1>2. ASSUME NEW id \in Ids, SyncOf(id[1]) \in t.locks, At(r, id) # At(row, id)
      PROVE  At(row, id) \in Waiting /\ At(r, id) = "ENDED" /\ RowOf(id) \notin t.locks
  BY <1>2 DEF Spares
<1>3. ASSUME NEW s, SyncOf(s) \in t.locks, Vacant(row, s) PROVE Vacant(r, s)
  BY <1>2, <1>3 DEF Vacant
<1>4. ASSUME NEW id, SyncOf(id[1]) \in t.locks, NewestIn(row, id) PROVE NewestIn(r, id)
  <2> SUFFICES ASSUME NEW other \in Ids, other[1] = id[1], other[2] > id[2]
               PROVE  At(r, other) = "NONE"
    BY DEF NewestIn
  <2>1. At(row, other) = "NONE"
    BY <1>4 DEF NewestIn
  <2> QED BY <1>2, <1>4, <2>1 DEF Waiting
<1>5. ASSUME NEW id \in Ids, SyncOf(id[1]) \in t.locks, RowOf(id) \in t.locks
      PROVE  At(r, id) = At(row, id)
  BY <1>2, <1>5
<1>6. New(t, r) = New(t, row)
  <2>1. ASSUME NEW c \in New(t, row) PROVE At(r, c[1]) = "NONE"
    <3>1. c \in t.changes /\ c[1] \in Ids /\ At(row, c[1]) = "NONE" /\ SyncOf(c[1][1]) \in t.locks
      BY <1>1, <2>1 DEF New, Writes, Changing
    <3> QED BY <1>2, <3>1 DEF Waiting
  <2>2. ASSUME NEW c \in New(t, r) PROVE At(row, c[1]) = "NONE"
    <3>1. c[1] \in Ids /\ At(r, c[1]) = "NONE"
      BY <1>1, <2>2 DEF New
    <3> QED BY <3>1 DEF Spares, Waiting
  <2> QED BY <2>1, <2>2 DEF New
<1>7. Claiming(t, r)
  <2>1. CASE t.op # "CLAIM"
    BY <2>1 DEF Claiming
  <2>2. CASE t.op = "CLAIM"
    <3>1. Claiming(t, row)
      BY DEF Serial
    <3>2. t.at \in {"ROW", "GUARD", "ADVISORY"} => t.row[1] = t.scope /\ t.row \in Ids
      BY <2>2 DEF Stands, Writes, Named
    <3>3. t.at # "SYNC" => SyncOf(t.scope) \in t.locks
      BY <2>2, <3>1 DEF Claiming
    <3>4. t.at \in {"ROW", "GUARD", "ADVISORY"} => Vacant(r, t.scope)
      BY <1>3, <2>2, <3>1, <3>3 DEF Claiming
    <3>5. t.at \in {"GUARD", "ADVISORY"} \/ (t.at = "ROW" /\ t.then = "GUARD") => NewestIn(r, t.row)
      BY <1>4, <2>2, <3>1, <3>2, <3>3 DEF Claiming
    <3>6. t.at \in {"GUARD", "ADVISORY"} => RowOf(t.row) \in t.locks /\ At(r, t.row) \in Waiting
      BY <1>5, <2>2, <3>1, <3>2, <3>3 DEF Claiming
    <3> QED BY <3>3, <3>4, <3>5, <3>6 DEF Claiming
  <2> QED BY <2>1, <2>2
<1>8. Confined(t) /\ (t.op \in Inserts \cup {"CLAIM"} => \A c \in t.changes : c[1][1] = t.scope)
  BY DEF Serial, Confined
<1>9. Takes(t, r)
  <2> SUFFICES ASSUME NEW c \in t.changes, c[2] = "DISPATCHED"
               PROVE  /\ SyncOf(t.scope) \in t.locks /\ Vacant(r, t.scope)
                      /\ \/ t.op = "DECIDE" /\ c \in New(t, r)
                         \/ /\ t.op = "CLAIM" /\ RowOf(c[1]) \in t.locks
                            /\ At(r, c[1]) \in Waiting /\ NewestIn(r, c[1])
    BY DEF Takes
  <2>1. /\ SyncOf(t.scope) \in t.locks /\ Vacant(row, t.scope)
        /\ \/ t.op = "DECIDE" /\ c \in New(t, row)
           \/ t.op = "CLAIM" /\ RowOf(c[1]) \in t.locks /\ At(row, c[1]) \in Waiting /\ NewestIn(row, c[1])
    BY DEF Serial, Takes
  <2>2. CASE t.op = "DECIDE" /\ c \in New(t, row)
    BY <1>3, <1>6, <2>1, <2>2
  <2>3. CASE t.op = "CLAIM" /\ RowOf(c[1]) \in t.locks /\ At(row, c[1]) \in Waiting /\ NewestIn(row, c[1])
    <3>1. c[1] \in Ids /\ SyncOf(c[1][1]) \in t.locks
      BY <1>1, <1>8, <2>1, <2>3
    <3> QED BY <1>3, <1>4, <1>5, <2>1, <2>3, <3>1
  <2> QED BY <2>1, <2>2, <2>3
<1>10. Drops(t, r)
  <2> SUFFICES ASSUME NEW c \in t.changes, c[2] = "ENDED", c \notin New(t, r)
               PROVE  /\ At(r, c[1]) \in Waiting \cup {"ENDED"}
                      /\ RowOf(c[1]) \in t.locks \/ (t.op = "CLAIM" /\ SyncOf(t.scope) \in t.locks)
    BY DEF Drops
  <2>1. /\ At(row, c[1]) \in Waiting \cup {"ENDED"} /\ c[1] \in Ids
        /\ RowOf(c[1]) \in t.locks \/ (t.op = "CLAIM" /\ SyncOf(t.scope) \in t.locks)
    BY <1>1, <1>6 DEF Serial, Drops
  <2>2. RowOf(c[1]) \in t.locks \/ SyncOf(c[1][1]) \in t.locks
    BY <1>8, <2>1
  <2>3. At(r, c[1]) \in Waiting \cup {"ENDED"}
    BY <2>1, <2>2 DEF Spares, Waiting
  <2> QED BY <2>1, <2>3
<1>11. Supersedes(t, r)
  <2> SUFFICES ASSUME t.op \in Inserts, t.at \in {"ROW", "GUARD", "COMMIT"}
               PROVE  /\ SyncOf(t.scope) \in t.locks
                      /\ New(t, r) # {}
                      /\ \A id \in Ids : id[1] = t.scope /\ At(r, id) \in Waiting =>
                           <<id, "ENDED">> \in t.changes \/ (t.at = "ROW" /\ id \in t.todo \cup {t.row})
    BY DEF Supersedes
  <2>1. /\ SyncOf(t.scope) \in t.locks /\ New(t, r) # {}
        /\ \A id \in Ids : id[1] = t.scope /\ At(row, id) \in Waiting =>
             <<id, "ENDED">> \in t.changes \/ (t.at = "ROW" /\ id \in t.todo \cup {t.row})
    BY <1>6 DEF Serial, Supersedes
  <2>2. ASSUME NEW id \in Ids, id[1] = t.scope, At(r, id) \in Waiting PROVE At(row, id) \in Waiting
    BY <1>2, <2>1, <2>2
  <2> QED BY <2>1, <2>2
<1> QED BY <1>7, <1>8, <1>9, <1>10, <1>11 DEF Serial

(* A commit changes a row in one of three ways, under the locks for it.    *)
LEMMA CommitChanges ==
  ASSUME AllInv, NEW p \in Sessions, Commit(p), NEW id \in Ids, At(row', id) # At(row, id)
  PROVE  \E c \in tx[p].changes :
           /\ c[1] = id /\ c[2] = At(row', id)
           /\ \/ /\ At(row, id) = "NONE" /\ c \in New(tx[p], row)
                 /\ tx[p].op \in Inserts /\ SyncOf(id[1]) \in tx[p].locks
              \/ /\ At(row, id) \in Waiting /\ c[2] = "DISPATCHED" /\ tx[p].op = "CLAIM"
                 /\ RowOf(id) \in tx[p].locks /\ SyncOf(id[1]) \in tx[p].locks
                 /\ NewestIn(row, id) /\ Vacant(row, id[1])
              \/ /\ At(row, id) \in Waiting /\ c[2] = "ENDED"
                 /\ RowOf(id) \in tx[p].locks \/ SyncOf(id[1]) \in tx[p].locks
<1>0. Writes(tx[p], row) /\ Serial(tx[p], account, enabled, row)
  BY Underway
<1>1. PICK c \in tx[p].changes : c = <<id, At(row', id)>>
  BY CommitRows DEF AllInv
<1>2. c[1] = id /\ c[2] = At(row', id)
  BY <1>1
<1>3. /\ c[2] \in {"PENDING", "ENDED", "DISPATCHED"}
      /\ c[2] = "PENDING" => c \in New(tx[p], row)
      /\ c \in New(tx[p], row) => tx[p].op \in Inserts /\ SyncOf(c[1][1]) \in tx[p].locks
  BY <1>0 DEF Writes, Changing, Inserts
<1>4. tx[p].op = "CLAIM" => id[1] = tx[p].scope
  BY <1>0, <1>2 DEF Serial, Confined, Inserts
<1>5. CASE c \in New(tx[p], row)
  BY <1>2, <1>3, <1>5 DEF New
<1>6. CASE c \notin New(tx[p], row) /\ c[2] = "DISPATCHED"
  <2>1. /\ SyncOf(tx[p].scope) \in tx[p].locks /\ Vacant(row, tx[p].scope)
        /\ tx[p].op = "CLAIM" /\ RowOf(c[1]) \in tx[p].locks /\ At(row, c[1]) \in Waiting
        /\ NewestIn(row, c[1])
    BY <1>0, <1>6 DEF Serial, Takes
  <2> QED BY <1>2, <1>4, <1>6, <2>1
<1>7. CASE c \notin New(tx[p], row) /\ c[2] = "ENDED"
  <2>1. /\ At(row, c[1]) \in Waiting \cup {"ENDED"}
        /\ RowOf(c[1]) \in tx[p].locks \/ (tx[p].op = "CLAIM" /\ SyncOf(tx[p].scope) \in tx[p].locks)
    BY <1>0, <1>7 DEF Serial, Drops
  <2> QED BY <1>2, <1>4, <1>7, <2>1
<1> QED BY <1>3, <1>5, <1>6, <1>7

(* Two sessions do not hold one of these locks, nor one of them a share.   *)
LEMMA Excludes ==
  ASSUME AllInv, NEW p \in Sessions, NEW q \in Sessions \ {p}
  PROVE  /\ \A s : SyncOf(s) \in tx[p].locks => SyncOf(s) \notin tx[q].locks
         /\ \A id : RowOf(id) \in tx[p].locks => RowOf(id) \notin tx[q].locks
         /\ ScopeOwned \in tx[p].locks => ScopeOwned \notin tx[q].locks /\ ScopeShared \notin tx[q].locks
         /\ Confirming \in tx[p].locks => Confirming \notin tx[q].locks /\ Sending \notin tx[q].locks
         /\ Sending \in tx[p].locks => Confirming \notin tx[q].locks
<1>1. \A l \in tx[p].locks, k \in tx[q].locks : l[1] = k[1] => l[2] = "S" /\ k[2] = "S"
  BY DEF AllInv, SwitchInv, Exclusive
<1>2. \A s : SyncOf(s)[1] = <<"sync", s>> /\ SyncOf(s)[2] = "X"
  BY DEF SyncOf
<1>3. \A id : RowOf(id)[1] = Locker(id) /\ RowOf(id)[2] = "X"
  BY DEF RowOf
<1>4. /\ ScopeOwned[1] = ScopeShared[1] /\ ScopeOwned[2] = "X"
      /\ Confirming[1] = Sending[1] /\ Confirming[2] = "X"
  BY DEF ScopeOwned, ScopeShared, Confirming, Sending
<1>5. \A s : SyncOf(s) \in tx[p].locks => SyncOf(s) \notin tx[q].locks
  BY <1>1, <1>2
<1>6. \A id : RowOf(id) \in tx[p].locks => RowOf(id) \notin tx[q].locks
  BY <1>1, <1>3
<1> QED BY <1>1, <1>4, <1>5, <1>6

(* The switches change under locks that keep the readings of others.       *)
LEMMA CommitStill ==
  ASSUME AllInv, NEW p \in Sessions, Commit(p), NEW q \in Sessions \ {p}
  PROVE  Still(tx[q], account', enabled')
<1>0. /\ Good(tx[p], account) /\ Good(tx[q], account) /\ tx[p].at = "COMMIT"
      /\ Still(tx[p], account, enabled) /\ Still(tx[q], account, enabled)
  BY DEF AllInv, SwitchInv, SerialInv, Serial, Commit
<1>1. /\ tx[q].op \in {"CONFIRM", "REVOKE"} /\ tx[q].at # "ADVISORY" => Confirming \in tx[q].locks
      /\ tx[q].op = "REVOKE" /\ tx[q].at \in {"DISCARD", "COMMIT"} => Confirming \in tx[q].locks
  BY <1>0 DEF Good, Protected
<1>2. CASE tx[p].op \in {"CONFIRM", "REVOKE"}
  <2>1. Confirming \in tx[p].locks
    BY <1>0, <1>2 DEF Good, Protected
  <2>2. ~(tx[q].op \in {"CONFIRM", "REVOKE"} /\ tx[q].at # "ADVISORY")
    BY <1>1, <2>1, Excludes
  <2>3. enabled' = enabled \/ (enabled' = FALSE /\ (enabled = FALSE \/ ScopeOwned \in tx[p].locks))
    <3>1. CASE tx[p].op = "CONFIRM"
      BY <3>1 DEF Commit
    <3>2. CASE tx[p].op = "REVOKE"
      <4>1. enabled' = FALSE
        BY <3>2 DEF Commit
      <4>2. ~enabled \/ ScopeOwned \in tx[p].locks
        BY <1>0, <3>2 DEF Still
      <4>3. enabled \in BOOLEAN
        BY DEF AllInv, SwitchInv, Shapes
      <4> QED BY <4>1, <4>2, <4>3
    <3> QED BY <1>2, <3>1, <3>2
  <2>4. tx[q].op = "RECALCULATE" /\ tx[q].at # "SCOPE" => enabled' = enabled
    BY <1>0, <2>3, Excludes DEF Still
  <2> QED BY <1>0, <2>2, <2>3, <2>4 DEF Still
<1>3. CASE tx[p].op = "ENABLE"
  <2>1. account' = account /\ enabled' = TRUE /\ Sending \in tx[p].locks /\ ScopeOwned \in tx[p].locks
    BY <1>0, <1>3 DEF Commit, Good, Protected, Still
  <2>2. ~(tx[q].op = "REVOKE" /\ tx[q].at \in {"DISCARD", "COMMIT"})
    BY <1>1, <2>1, Excludes
  <2>3. ScopeOwned \notin tx[q].locks
    BY <2>1, Excludes
  <2> QED BY <1>0, <2>1, <2>2, <2>3 DEF Still
<1>4. CASE tx[p].op \notin {"CONFIRM", "REVOKE", "ENABLE"}
  <2>1. account'.confirmed = account.confirmed /\ enabled' = enabled
    <3>1. account = [mode |-> account.mode, confirmed |-> account.confirmed, other |-> account.other]
      BY DEF AllInv, SwitchInv, Shapes
    <3>2. \/ account' = [account EXCEPT !.mode = tx[p].arg]
          \/ account' = [account EXCEPT !.other = tx[p].arg]
          \/ account' = account
      BY <1>4 DEF Commit
    <3>3. enabled' = enabled
      BY <1>4 DEF Commit
    <3> QED BY <3>1, <3>2, <3>3
  <2> QED BY <1>0, <2>1 DEF Still
<1> QED BY <1>2, <1>3, <1>4

LEMMA CommitSerial ==
  ASSUME AllInv, NEW p \in Sessions, Commit(p)
  PROVE  SerialInv'
<1> SUFFICES ASSUME NEW q \in Sessions PROVE Serial(tx'[q], account', enabled', row')
  BY DEF SerialInv
<1>1. tx'[q] = IF q = p THEN Idle ELSE tx[q]
  BY DEF Commit, Go, AllInv, SwitchInv, Shapes
<1>2. CASE q = p
  BY <1>1, <1>2, SerialIdle
<1>3. CASE q # p
  <2>1. Stands(tx[q]) /\ Writes(tx[q], row) /\ Serial(tx[q], account, enabled, row)
    BY Underway
  <2>2. Still(tx[q], account', enabled')
    BY <1>3, CommitStill
  <2>3. Spares(row', tx[q].locks)
    <3> SUFFICES ASSUME NEW id \in Ids, At(row', id) # At(row, id)
                 PROVE  \/ At(row, id) = "NONE" /\ SyncOf(id[1]) \notin tx[q].locks
                        \/ /\ At(row, id) \in Waiting /\ At(row', id) = "DISPATCHED"
                           /\ RowOf(id) \notin tx[q].locks /\ SyncOf(id[1]) \notin tx[q].locks
                        \/ /\ At(row, id) \in Waiting /\ At(row', id) = "ENDED"
                           /\ RowOf(id) \notin tx[q].locks \/ SyncOf(id[1]) \notin tx[q].locks
      BY DEF Spares
    <3>1. \/ At(row, id) = "NONE" /\ SyncOf(id[1]) \in tx[p].locks
          \/ /\ At(row, id) \in Waiting /\ At(row', id) = "DISPATCHED"
             /\ RowOf(id) \in tx[p].locks /\ SyncOf(id[1]) \in tx[p].locks
          \/ /\ At(row, id) \in Waiting /\ At(row', id) = "ENDED"
             /\ RowOf(id) \in tx[p].locks \/ SyncOf(id[1]) \in tx[p].locks
      BY CommitChanges
    <3>2. /\ SyncOf(id[1]) \in tx[p].locks => SyncOf(id[1]) \notin tx[q].locks
          /\ RowOf(id) \in tx[p].locks => RowOf(id) \notin tx[q].locks
      BY <1>3, Excludes
    <3> QED BY <3>1, <3>2
  <2> QED BY <1>1, <1>3, <2>1, <2>2, <2>3, OthersSerial
<1> QED BY <1>2, <1>3

LEMMA SettleSerial ==
  ASSUME AllInv, NEW id \in Ids, NEW status \in {"FAILED", "ENDED"}, Settle(id, status)
  PROVE  SerialInv'
<1>1. /\ At(row, id) = "DISPATCHED" /\ row' = [row EXCEPT ![id[1]][id[2]] = status]
      /\ account' = account /\ enabled' = enabled /\ tx' = tx
  BY StatusIs DEF Settle
<1>2. ASSUME NEW other \in Ids, At(row', other) # At(row, other)
      PROVE  other = id /\ At(row', other) = status
  <2>1. /\ id[1] \in Scopes /\ id = <<id[1], id[2]>>
        /\ other[1] \in Scopes /\ other[2] \in 1..MaxVersion[other[1]] /\ other = <<other[1], other[2]>>
    BY IdsOf
  <2>2. row[other[1]] = [v \in 1..MaxVersion[other[1]] |-> row[other[1]][v]]
    BY <2>1 DEF AllInv, RowInv, RowsTyped
  <2>3. row'[other[1]] = IF other[1] = id[1] THEN [row[other[1]] EXCEPT ![id[2]] = status] ELSE row[other[1]]
    BY <1>1, <2>1 DEF AllInv, RowInv, RowsTyped
  <2>4. row'[other[1]][other[2]] =
          IF other[1] = id[1] /\ other[2] = id[2] THEN status ELSE row[other[1]][other[2]]
    BY <2>1, <2>2, <2>3
  <2> QED BY <1>2, <2>1, <2>4 DEF At
<1> SUFFICES ASSUME NEW q \in Sessions PROVE Serial(tx[q], account, enabled, row')
  BY <1>1 DEF SerialInv
<1>3. Stands(tx[q]) /\ Writes(tx[q], row) /\ Serial(tx[q], account, enabled, row)
      /\ Still(tx[q], account, enabled)
  BY Underway DEF Serial
<1>4. RowOf(id) \notin tx[q].locks /\ SyncOf(id[1]) \notin tx[q].locks
  <2>1. RowOf(id)[1] = Locker(id) /\ SyncOf(id[1])[1] = <<"sync", id[1]>>
    BY DEF RowOf, SyncOf
  <2>2. \A l \in tx[q].locks : l[1] # Locker(id) /\ l[1] # <<"sync", id[1]>>
    BY DEF Settle, HeldBy
  <2> QED BY <2>1, <2>2
<1>5. Spares(row', tx[q].locks)
  BY <1>1, <1>2, <1>4 DEF Spares
<1> QED BY <1>3, <1>5, OthersSerial

LEMMA SerialInit ==
  ASSUME Init
  PROVE  SerialInv
BY SerialIdle DEF Init, SerialInv

LEMMA SerialStep ==
  ASSUME AllInv, [Next]_vars
  PROVE  SerialInv'
<1>0. /\ Owners \subseteq Sessions /\ Dispatchers \subseteq Sessions /\ Deciders \subseteq Sessions
      /\ Stockers \subseteq Sessions
  BY DEF Sessions
<1>1. ASSUME NEW p \in Dispatchers, NEW s \in Scopes, Begin(p, "CLAIM", "SYNC", s, "NONE")
      PROVE  SerialInv'
  BY <1>0, <1>1, BeginSerial
<1>2. ASSUME NEW p \in Dispatchers,
             ClaimSync(p) \/ Pick(p) \/ ClaimRow(p) \/ ModeGuard(p) \/ QuantityGuard(p)
      PROVE  SerialInv'
  BY <1>0, <1>2, ClaimSerial, PickSerial, GuardSerial
<1>3. ASSUME NEW p \in Deciders, Begin(p, "DECIDE", "SCOPE", "PRICE", "NONE")
      PROVE  SerialInv'
  BY <1>0, <1>3, BeginSerial DEF Inserts
<1>4. ASSUME NEW p \in Stockers, Begin(p, "RECALCULATE", "SCOPE", "QUANTITY", "NONE")
      PROVE  SerialInv'
  BY <1>0, <1>4, BeginSerial DEF Inserts
<1>5. ASSUME NEW p \in Deciders \cup Stockers, InsertScope(p) \/ InsertRow(p)
      PROVE  SerialInv'
  BY <1>0, <1>5, InsertScopeSerial, InsertRowSerial
<1>6. ASSUME NEW p \in Sessions, EndRow(p) \/ Commit(p) \/ Dies(p)
      PROVE  SerialInv'
  BY <1>6, EndRowSerial, CommitSerial, RollbackSerial DEF Dies
<1>7. ASSUME NEW id \in Ids, NEW status \in {"FAILED", "ENDED"}, Settle(id, status)
      PROVE  SerialInv'
  BY <1>7, SettleSerial
<1>8. ASSUME NEW p \in Deciders, DecideGuard(p)
      PROVE  SerialInv'
  BY <1>0, <1>8, DecideSerial
<1>9. CASE UNCHANGED vars
  BY <1>9 DEF vars, AllInv, SerialInv
<1> QED
  BY <1>1, <1>2, <1>3, <1>4, <1>5, <1>6, <1>7, <1>8, <1>9, OwnerSerial DEF Next

(* The inductive invariant of the transactions: what one has read of the   *)
(* switches, of the slot and of the rows it is about to change still holds *)
(* when it commits, whatever others have committed since.                  *)
THEOREM TransactionsAreSerial == Spec => []AllInv
<1>1. Init => AllInv
  BY SwitchInit, RowInit, SerialInit DEF AllInv
<1>2. AllInv /\ [Next]_vars => AllInv'
  BY SwitchStep, RowStep, SerialStep DEF AllInv
<1> QED BY <1>1, <1>2, PTL DEF Spec


(***************************************************************************)
(* The transactions implement AtomicSwitches: each commit is a step of it. *)
(***************************************************************************)
LEMMA AtomicInit ==
  ASSUME Init
  PROVE  Atomic!Init
<1>1. enabled => account.confirmed
  BY DEF Init
<1>2. Atomic!Shaped
  BY DEF Init, Scopes, Atomic!Shaped, Atomic!Scopes, Atomic!Versions, Atomic!Statuses
<1> QED BY <1>1, <1>2 DEF Init, Answers, Scopes, Atomic!Init, Atomic!Scopes, Atomic!Versions

LEMMA AtomicShaped ==
  ASSUME RowsTyped(row)
  PROVE  Atomic!Shaped
BY DEF RowsTyped, Scopes, Statuses, Waiting, Atomic!Shaped, Atomic!Scopes, Atomic!Versions,
       Atomic!Statuses, Atomic!Waiting

(* Only a commit and an outcome show.                                      *)
LEMMA StepKinds ==
  ASSUME [Next]_vars
  PROVE  \/ UNCHANGED <<account, enabled, row>>
         \/ \E p \in Sessions : Commit(p)
         \/ \E id \in Ids : Settle(id, "FAILED") \/ Settle(id, "ENDED")
BY DEF Next, vars, OwnerActs, Act, Begin, BeginSwitch, SwitchMode, Hold, Drop, Answer,
       ConfirmationGuard, Confirm, Revoke, DisableSync, Discard, EnableScope, EnableGuard,
       ClaimSync, Pick, ClaimRow, ModeGuard, QuantityGuard, InsertScope, InsertRow, DecideGuard,
       EndRow, Dies, Rollback, Unchanged

(* The rows of a scope a commit does not change.                           *)
LEMMA ScopeStays ==
  ASSUME AllInv, NEW p \in Sessions, Commit(p), NEW s \in Scopes,
         \A id \in Ids : id[1] = s => At(row', id) = At(row, id)
  PROVE  row'[s] = row[s]
<1>1. row'[s] = [v \in 1..MaxVersion[s] |-> row'[s][v]]
  BY CommitRows DEF AllInv
<1>2. row[s] = [v \in 1..MaxVersion[s] |-> row[s][v]]
  BY DEF AllInv, RowInv, RowsTyped
<1>3. ASSUME NEW v \in 1..MaxVersion[s] PROVE row'[s][v] = row[s][v]
  <2> DEFINE id == <<s, v>>
  <2>1. id \in Ids /\ id[1] = s /\ id[2] = v
    BY IdsOf
  <2> HIDE DEF id
  <2> QED BY <2>1 DEF At
<1> QED BY <1>1, <1>2, <1>3

LEMMA RowsStay ==
  ASSUME AllInv, NEW p \in Sessions, Commit(p), tx[p].changes = {}
  PROVE  row' = row
<1>1. \A id \in Ids : At(row', id) = At(row, id)
  BY CommitChanges
<1>2. row' = [s \in Scopes |-> row'[s]] /\ row = [s \in Scopes |-> row[s]]
  BY CommitRows DEF AllInv, RowInv, RowsTyped
<1> QED BY <1>1, <1>2, ScopeStays

(* What a commit that is no new version makes of a version.                *)
LEMMA Fates ==
  ASSUME AllInv, NEW p \in Sessions, Commit(p), tx[p].op \notin Inserts,
         NEW s \in Scopes, NEW v \in 1..MaxVersion[s]
  PROVE  \/ Atomic!Stays(s, v)
         \/ /\ Atomic!Ends(s, v) /\ \E c \in tx[p].changes : c[1] = <<s, v>>
         \/ tx[p].op = "CLAIM" /\ Atomic!Leaves(s, v)
<1> DEFINE id == <<s, v>>
<1>1. id \in Ids /\ id[1] = s /\ id[2] = v
  BY IdsOf
<1>2. id = <<s, v>>
  OBVIOUS
<1> HIDE DEF id
<1>3. At(row, id) = row[s][v] /\ At(row', id) = row'[s][v]
  BY <1>1 DEF At
<1>4. CASE At(row', id) = At(row, id)
  BY <1>3, <1>4 DEF Atomic!Stays
<1>5. CASE At(row', id) # At(row, id)
  <2>1. PICK c \in tx[p].changes :
          /\ c[1] = id /\ c[2] = At(row', id)
          /\ \/ /\ At(row, id) \in Waiting /\ c[2] = "DISPATCHED" /\ tx[p].op = "CLAIM"
                /\ NewestIn(row, id) /\ Vacant(row, id[1])
             \/ At(row, id) \in Waiting /\ c[2] = "ENDED"
    BY <1>1, <1>5, CommitChanges
  <2>2. CASE At(row, id) \in Waiting /\ c[2] = "ENDED"
    BY <1>2, <1>3, <2>1, <2>2 DEF Atomic!Ends, Atomic!Waiting, Waiting
  <2>3. CASE /\ At(row, id) \in Waiting /\ c[2] = "DISPATCHED" /\ tx[p].op = "CLAIM"
             /\ NewestIn(row, id) /\ Vacant(row, id[1])
    <3>1. \A w \in 1..MaxVersion[s] :
            <<s, w>> \in Ids /\ <<s, w>>[1] = s /\ <<s, w>>[2] = w /\ At(row, <<s, w>>) = row[s][w]
      BY IdsOf DEF At
    <3>2. Atomic!Newest(s, v)
      BY <1>1, <2>3, <3>1 DEF NewestIn, Atomic!Newest, Atomic!Versions
    <3>3. Atomic!Free(s)
      <4>1. ASSUME NEW w \in 1..MaxVersion[s] PROVE row[s][w] # "DISPATCHED"
        <5> DEFINE other == <<s, w>>
        <5>1. other \in Ids /\ other[1] = id[1] /\ At(row, other) = row[s][w]
          BY <1>1, <3>1
        <5> HIDE DEF other
        <5> QED BY <2>3, <5>1 DEF Vacant
      <4> QED BY <4>1 DEF Atomic!Free, Atomic!Versions
    <3>4. s = "QUANTITY" => account.confirmed
      <4>1. Protected(tx[p], account)
        BY DEF AllInv, SwitchInv, Good
      <4> QED BY <1>1, <2>1, <2>3, <4>1 DEF Protected
    <3> QED BY <1>3, <2>1, <2>3, <3>2, <3>3, <3>4 DEF Atomic!Leaves, Atomic!Waiting, Waiting
  <2> QED BY <2>1, <2>2, <2>3
<1> QED BY <1>4, <1>5

LEMMA OwnerCommits ==
  ASSUME AllInv, NEW p \in Sessions, Commit(p),
         tx[p].op \in {"SWITCH", "ANSWER", "CONFIRM", "REVOKE", "ENABLE"}
  PROVE  \/ \E mode \in {"SHADOW", "LIVE"} : Atomic!Switch(mode)
         \/ \E a \in {"NONE", "STOCK"} : Atomic!Answer(a)
         \/ Atomic!Confirm \/ Atomic!Revoke \/ Atomic!Enable
<1>0. /\ Good(tx[p], account) /\ tx[p].at = "COMMIT" /\ Writes(tx[p], row)
      /\ Still(tx[p], account, enabled) /\ Confined(tx[p]) /\ tx[p].op \notin Inserts
  BY DEF AllInv, SwitchInv, RowInv, SerialInv, Serial, Commit, Inserts
<1>1. ASSUME NEW s \in Atomic!Scopes, NEW v \in Atomic!Versions(s), tx[p].op # "CLAIM"
      PROVE  \/ Atomic!Stays(s, v)
             \/ Atomic!Ends(s, v) /\ \E c \in tx[p].changes : c[1][1] = s
  <2>1. s \in Scopes /\ v \in 1..MaxVersion[s]
    BY DEF Scopes, Atomic!Scopes, Atomic!Versions
  <2>2. \A c : c[1] = <<s, v>> => c[1][1] = s
    OBVIOUS
  <2> QED BY <1>0, <1>1, <2>1, <2>2, Fates
<1>2. CASE tx[p].op = "SWITCH"
  <2>1. /\ account' = [account EXCEPT !.mode = tx[p].arg] /\ enabled' = enabled
        /\ tx[p].arg \in {"SHADOW", "LIVE"}
    BY <1>0, <1>2 DEF Commit, Writes, Turning
  <2>2. tx[p].arg # "SHADOW" => tx[p].changes = {}
    BY <1>0, <1>2 DEF Confined
  <2> QED BY <1>1, <1>2, <2>1, <2>2 DEF Atomic!Switch
<1>3. CASE tx[p].op = "ANSWER"
  <2>1. account' = [account EXCEPT !.other = tx[p].arg] /\ enabled' = enabled
    BY <1>3 DEF Commit
  <2>2. tx[p].arg \in {"NONE", "STOCK"} /\ (tx[p].arg = "STOCK" => ~account.confirmed)
    BY <1>0, <1>3 DEF Good, Stands, Protected
  <2>3. row' = row
    BY <1>0, <1>3, RowsStay DEF Confined
  <2> QED BY <2>1, <2>2, <2>3 DEF Atomic!Answer
<1>4. CASE tx[p].op = "CONFIRM"
  <2>1. account' = [account EXCEPT !.confirmed = TRUE] /\ enabled' = enabled
    BY <1>4 DEF Commit
  <2>2. ~account.confirmed /\ account.other = "NONE"
    BY <1>0, <1>4 DEF Good, Protected, Still
  <2>3. row' = row
    BY <1>0, <1>4, RowsStay DEF Confined
  <2> QED BY <2>1, <2>2, <2>3 DEF Atomic!Confirm
<1>5. CASE tx[p].op = "REVOKE"
  <2>1. account' = [account EXCEPT !.confirmed = FALSE] /\ enabled' = FALSE
    BY <1>5 DEF Commit
  <2>2. account.confirmed /\ \A c \in tx[p].changes : c[1][1] = "QUANTITY"
    BY <1>0, <1>5 DEF Still, Confined
  <2> QED BY <1>1, <1>5, <2>1, <2>2 DEF Atomic!Revoke
<1>6. CASE tx[p].op = "ENABLE"
  <2>1. account' = account /\ enabled' = TRUE
    BY <1>6 DEF Commit
  <2>2. account.confirmed /\ ~enabled
    BY <1>0, <1>6 DEF Good, Protected, Still
  <2>3. row' = row
    BY <1>0, <1>6, RowsStay DEF Confined
  <2> QED BY <2>1, <2>2, <2>3 DEF Atomic!Enable
<1> QED BY <1>2, <1>3, <1>4, <1>5, <1>6

LEMMA ClaimCommits ==
  ASSUME AllInv, NEW p \in Sessions, Commit(p), tx[p].op = "CLAIM"
  PROVE  tx[p].scope \in Atomic!Scopes /\ Atomic!Claim(tx[p].scope)
<1> DEFINE s == tx[p].scope
<1>1. /\ s \in Scopes /\ tx[p].op \notin Inserts /\ \A c \in tx[p].changes : c[1][1] = s
      /\ UNCHANGED <<account, enabled>>
  BY DEF AllInv, RowInv, Writes, Versioned, SerialInv, Serial, Confined, Inserts, Commit
<1> HIDE DEF s
<1>2. ASSUME NEW v \in Atomic!Versions(s)
      PROVE  Atomic!Stays(s, v) \/ Atomic!Ends(s, v) \/ Atomic!Leaves(s, v)
  <2>1. v \in 1..MaxVersion[s]
    BY DEF Atomic!Versions
  <2> QED BY <1>1, <2>1, Fates
<1>3. ASSUME NEW other \in Atomic!Scopes \ {s} PROVE row'[other] = row[other]
  <2>1. other \in Scopes
    BY DEF Scopes, Atomic!Scopes
  <2>2. \A id \in Ids : id[1] = other => At(row', id) = At(row, id)
    BY <1>1, CommitChanges
  <2> QED BY <2>1, <2>2, ScopeStays
<1>4. s \in Atomic!Scopes
  BY <1>1 DEF Scopes, Atomic!Scopes
<1> QED BY <1>1, <1>2, <1>3, <1>4 DEF Atomic!Claim, s

LEMMA InsertCommits ==
  ASSUME AllInv, NEW p \in Sessions, Commit(p), tx[p].op \in Inserts
  PROVE  /\ tx[p].scope \in Atomic!Scopes
         /\ \E v \in Atomic!Versions(tx[p].scope) : Atomic!Insert(tx[p].scope, v)
<1> DEFINE s == tx[p].scope
<1>0. Writes(tx[p], row) /\ Serial(tx[p], account, enabled, row) /\ tx[p].at = "COMMIT"
  BY Underway DEF Commit
<1>1. /\ s \in Scopes /\ (tx[p].op = "DECIDE" => s = "PRICE")
      /\ (tx[p].op = "RECALCULATE" => s = "QUANTITY")
      /\ UNCHANGED <<account, enabled>>
  BY <1>0 DEF Writes, Versioned, Scopes, Inserts, Commit
<1>2. /\ \A c \in tx[p].changes : c[1][1] = s
      /\ \A id \in Ids : id[1] = s /\ At(row, id) \in Waiting => <<id, "ENDED">> \in tx[p].changes
      /\ New(tx[p], row) # {}
  BY <1>0 DEF Serial, Confined, Supersedes
<1>3. tx[p].op = "RECALCULATE" => enabled
  BY <1>0 DEF Serial, Still
<1> HIDE DEF s
<1>4. PICK new \in New(tx[p], row) : TRUE
  BY <1>2
<1>5. /\ new \in tx[p].changes /\ new[1] \in Ids /\ new[1][1] = s /\ At(row, new[1]) = "NONE"
      /\ At(row', new[1]) = new[2]
  BY <1>0, <1>2, <1>4, CommitRows DEF New, Writes, Changing, AllInv
<1> DEFINE n == new[1][2]
<1>6. /\ n \in 1..MaxVersion[s] /\ row[s][n] = "NONE" /\ row'[s][n] = new[2]
      /\ \A v \in 1..MaxVersion[s] : v < n => row[s][v] # "NONE"
  <2>1. n \in 1..MaxVersion[s]
    BY <1>5, IdsOf
  <2>2. row[s][n] = "NONE" /\ row'[s][n] = new[2]
    BY <1>5 DEF At
  <2>3. \A v \in 1..MaxVersion[s] : v < n => row[s][v] # "NONE"
    BY <1>0, <1>4, <1>5 DEF Writes, Changing
  <2> QED BY <2>1, <2>2, <2>3
<1>7. \/ new[2] \in {"PENDING", "ENDED"}
      \/ new[2] = "DISPATCHED" /\ s = "PRICE" /\ Vacant(row, s)
  <2>1. new[2] \in {"PENDING", "ENDED", "DISPATCHED"}
    BY <1>0, <1>5 DEF Writes, Changing
  <2>2. ASSUME new[2] = "DISPATCHED" PROVE s = "PRICE" /\ Vacant(row, s)
    <3>1. Vacant(row, tx[p].scope) /\ tx[p].op \in {"DECIDE", "CLAIM"}
      BY <1>0, <1>5, <2>2 DEF Serial, Takes
    <3> QED BY <1>1, <3>1 DEF Inserts, s
  <2> QED BY <2>1, <2>2
<1>8. ASSUME NEW v \in 1..MaxVersion[s], v # n
      PROVE  IF row[s][v] \in Waiting THEN row'[s][v] = "ENDED" ELSE row'[s][v] = row[s][v]
  <2> DEFINE id == <<s, v>>
  <2>1. id \in Ids /\ id[1] = s /\ id[2] = v
    BY <1>1, IdsOf
  <2> HIDE DEF id
  <2>2. At(row, id) = row[s][v] /\ At(row', id) = row'[s][v]
    BY <2>1 DEF At
  <2>3. CASE At(row, id) \in Waiting
    <3> DEFINE c == <<id, "ENDED">>
    <3>1. c \in tx[p].changes /\ c[1] = id /\ c[2] = "ENDED"
      BY <1>2, <2>1, <2>3
    <3> HIDE DEF c
    <3>2. At(row', id) = "ENDED"
      BY <3>1, CommitRows DEF AllInv
    <3> QED BY <2>2, <2>3, <3>2
  <2>4. CASE At(row, id) \notin Waiting
    <3>1. ASSUME At(row', id) # At(row, id) PROVE FALSE
      <4>1. PICK c \in New(tx[p], row) : c[1] = id
        BY <2>1, <2>4, <3>1, CommitChanges
      <4>2. row[s][v] = "NONE"
        BY <2>2, <4>1 DEF New
      <4>3. v \in Int /\ n \in Int
        BY <1>6
      <4>4. CASE v < n
        BY <1>6, <4>2, <4>4
      <4>5. CASE n < v
        <5>1. row[c[1][1]][n] # "NONE"
          BY <1>0, <1>6, <2>1, <4>1, <4>5 DEF Writes, Changing
        <5> QED BY <1>6, <2>1, <4>1, <5>1
      <4> QED BY <1>8, <4>3, <4>4, <4>5
    <3> QED BY <2>2, <2>4, <3>1
  <2> QED BY <2>3, <2>4
<1>9. ASSUME NEW other \in Atomic!Scopes \ {s} PROVE row'[other] = row[other]
  <2>1. other \in Scopes
    BY DEF Scopes, Atomic!Scopes
  <2>2. \A id \in Ids : id[1] = other => At(row', id) = At(row, id)
    BY <1>2, CommitChanges
  <2> QED BY <2>1, <2>2, ScopeStays
<1>10. Vacant(row, s) => Atomic!Free(s)
  <2> SUFFICES ASSUME Vacant(row, s), NEW v \in 1..MaxVersion[s] PROVE row[s][v] # "DISPATCHED"
    BY DEF Atomic!Free, Atomic!Versions
  <2> DEFINE id == <<s, v>>
  <2>1. id \in Ids /\ id[1] = s /\ id[2] = v
    BY <1>1, IdsOf
  <2> HIDE DEF id
  <2> QED BY <2>1 DEF Vacant, At
<1>11. s = "QUANTITY" => enabled
  BY <1>1, <1>3 DEF Inserts
<1> HIDE DEF n
<1>12. Atomic!Insert(s, n)
  <2>1. \A v \in Atomic!Versions(s) \ {n} :
          IF row[s][v] \in Atomic!Waiting THEN Atomic!Ends(s, v) ELSE Atomic!Stays(s, v)
    BY <1>8 DEF Waiting, Atomic!Waiting, Atomic!Ends, Atomic!Stays, Atomic!Versions
  <2>2. row[s][n] = "NONE" /\ \A v \in Atomic!Versions(s) : v < n => row[s][v] # "NONE"
    BY <1>6 DEF Atomic!Versions
  <2>3. \/ row'[s][n] \in {"PENDING", "ENDED"}
        \/ row'[s][n] = "DISPATCHED" /\ s = "PRICE" /\ Atomic!Free(s)
    BY <1>6, <1>7, <1>10
  <2> QED BY <1>1, <1>9, <1>11, <2>1, <2>2, <2>3 DEF Atomic!Insert
<1>13. s \in Atomic!Scopes /\ n \in Atomic!Versions(s)
  BY <1>1, <1>6 DEF Scopes, Atomic!Scopes, Atomic!Versions
<1> QED BY <1>12, <1>13 DEF s

LEMMA AtomicStep ==
  ASSUME AllInv, AllInv', [Next]_vars
  PROVE  [Atomic!Next]_Atomic!vars
<1>1. (Atomic!Shaped)'
  <2>1. RowsTyped(row')
    BY DEF AllInv, RowInv
  <2> QED BY <2>1 DEF RowsTyped, Scopes, Statuses, Waiting, Atomic!Shaped, Atomic!Scopes,
                      Atomic!Versions, Atomic!Statuses, Atomic!Waiting
<1>2. CASE UNCHANGED <<account, enabled, row>>
  BY <1>2 DEF Atomic!vars
<1>3. ASSUME NEW p \in Sessions, Commit(p) PROVE Atomic!Next
  <2>1. Stands(tx[p]) /\ tx[p].at = "COMMIT"
    BY <1>3, Underway DEF Commit
  <2>2. CASE tx[p].op \in {"SWITCH", "ANSWER", "CONFIRM", "REVOKE", "ENABLE"}
    BY <1>1, <1>3, <2>2, OwnerCommits DEF Atomic!Next
  <2>3. CASE tx[p].op = "CLAIM"
    BY <1>1, <1>3, <2>3, ClaimCommits DEF Atomic!Next
  <2>4. CASE tx[p].op \in Inserts
    BY <1>1, <1>3, <2>4, InsertCommits DEF Atomic!Next
  <2> QED BY <2>1, <2>2, <2>3, <2>4 DEF Stands, Inserts
<1>4. ASSUME NEW id \in Ids, NEW status \in {"FAILED", "ENDED"}, Settle(id, status)
      PROVE  Atomic!Next
  <2>1. id[1] \in Scopes /\ id[2] \in 1..MaxVersion[id[1]]
    BY IdsOf
  <2>2. /\ row[id[1]][id[2]] = "DISPATCHED" /\ row' = [row EXCEPT ![id[1]][id[2]] = status]
        /\ UNCHANGED <<account, enabled>>
    BY <1>4 DEF Settle, Status
  <2>3. Atomic!Settle(id[1], id[2])
    BY <2>2 DEF Atomic!Settle
  <2>4. id[1] \in Atomic!Scopes /\ id[2] \in Atomic!Versions(id[1])
    BY <2>1 DEF Scopes, Atomic!Scopes, Atomic!Versions
  <2> QED BY <1>1, <2>3, <2>4 DEF Atomic!Next
<1> QED BY <1>2, <1>3, <1>4, StepKinds

(* 0128, 0160, 0162, 0164, ADR-0009: the transactions with their locks are *)
(* as good as atomic ones.  Each shows only at its commit, and what its    *)
(* statements have read on the way, of the switches, of the slot of the    *)
(* scope, of the newest version and of everything that waits, is true of   *)
(* the moment it commits.                                                  *)
THEOREM TransactionsHappenAtOnce == Spec => SwitchesAreAtomic
<1>1. Init => Atomic!Init
  BY AtomicInit
<1>2. AllInv /\ AllInv' /\ [Next]_vars => [Atomic!Next]_Atomic!vars
  BY AtomicStep
<1> QED BY <1>1, <1>2, TransactionsAreSerial, PTL DEF Spec, SwitchesAreAtomic, Atomic!Spec

=============================================================================
