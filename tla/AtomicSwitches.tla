--------------------------- MODULE AtomicSwitches ---------------------------
(***************************************************************************)
(* What the transactions of an account promise to those who never see a    *)
(* lock: each takes effect at one instant, when it commits, and its        *)
(* conditions are true of the account and of the queue as they are then.   *)
(* The mode is not among them: it is read without a lock, and a write may  *)
(* leave just after the account went into the shadow.                      *)
(***************************************************************************)
EXTENDS Integers

CONSTANT MaxVersion   \* writes of a scope, by scope

VARIABLES
  account,   \* write_mode, quantity_writes_confirmed, other_tools
  enabled,   \* quantity_sync_enabled
  row        \* the status of each version of a scope

vars == <<account, enabled, row>>

Scopes == {"PRICE", "QUANTITY"}
Versions(s) == 1..MaxVersion[s]
Waiting == {"PENDING", "FAILED"}
Statuses == Waiting \cup {"NONE", "DISPATCHED", "ENDED"}

Shaped ==
  /\ DOMAIN row = Scopes
  /\ \A s \in Scopes : row[s] \in [Versions(s) -> Statuses]

Init ==
  /\ account \in [mode: {"SHADOW", "LIVE"}, confirmed: BOOLEAN, other: {"UNKNOWN", "NONE", "STOCK"}]
  /\ account.confirmed => account.other = "NONE"
  /\ enabled => account.confirmed
  /\ Shaped /\ \A s \in Scopes : \A v \in Versions(s) : row[s][v] = "NONE"

(***************************************************************************)
(* What happens to a write.                                                *)
(***************************************************************************)
Stays(s, v) == row'[s][v] = row[s][v]
Ends(s, v) == row[s][v] \in Waiting /\ row'[s][v] = "ENDED"

Free(s) == \A v \in Versions(s) : row[s][v] # "DISPATCHED"
Newest(s, v) == \A w \in Versions(s) : w > v => row[s][w] = "NONE"

(* It leaves only as the newest version, into a free slot, and a quantity  *)
(* only with the owner's confirmation.                                     *)
Leaves(s, v) ==
  /\ row[s][v] \in Waiting /\ row'[s][v] = "DISPATCHED"
  /\ Newest(s, v) /\ Free(s)
  /\ s = "QUANTITY" => account.confirmed

(***************************************************************************)
(* The owner's transactions.                                               *)
(***************************************************************************)
Switch(mode) ==
  /\ account' = [account EXCEPT !.mode = mode]
  /\ \A s \in Scopes : \A v \in Versions(s) : Stays(s, v) \/ (mode = "SHADOW" /\ Ends(s, v))
  /\ UNCHANGED enabled

(* Another tool that keeps the stock and a confirmation exclude each other.*)
Answer(a) ==
  /\ a = "STOCK" => ~account.confirmed
  /\ account' = [account EXCEPT !.other = a]
  /\ UNCHANGED <<enabled, row>>

Confirm ==
  /\ ~account.confirmed /\ account.other = "NONE"
  /\ account' = [account EXCEPT !.confirmed = TRUE]
  /\ UNCHANGED <<enabled, row>>

Revoke ==
  /\ account.confirmed
  /\ account' = [account EXCEPT !.confirmed = FALSE]
  /\ enabled' = FALSE
  /\ \A s \in Scopes : \A v \in Versions(s) : Stays(s, v) \/ (s = "QUANTITY" /\ Ends(s, v))

Enable ==
  /\ account.confirmed /\ ~enabled
  /\ enabled' = TRUE
  /\ UNCHANGED <<account, row>>

(***************************************************************************)
(* The queue's.                                                            *)
(***************************************************************************)
(* A claim ends what is superseded or refused, and takes one write or none.*)
Claim(s) ==
  /\ \A v \in Versions(s) : Stays(s, v) \/ Ends(s, v) \/ Leaves(s, v)
  /\ \A other \in Scopes \ {s} : row'[other] = row[other]
  /\ UNCHANGED <<account, enabled>>

(* A new version supersedes everything that waits.  A price may leave at   *)
(* once; a quantity needs a scope that is synchronised.                    *)
Insert(s, new) ==
  /\ row[s][new] = "NONE" /\ \A v \in Versions(s) : v < new => row[s][v] # "NONE"
  /\ \/ row'[s][new] \in {"PENDING", "ENDED"}
     \/ row'[s][new] = "DISPATCHED" /\ s = "PRICE" /\ Free(s)
  /\ \A v \in Versions(s) \ {new} : IF row[s][v] \in Waiting THEN Ends(s, v) ELSE Stays(s, v)
  /\ \A other \in Scopes \ {s} : row'[other] = row[other]
  /\ s = "QUANTITY" => enabled
  /\ UNCHANGED <<account, enabled>>

Settle(s, v) ==
  /\ row[s][v] = "DISPATCHED" /\ \E status \in {"FAILED", "ENDED"} :
       row' = [row EXCEPT ![s][v] = status]
  /\ UNCHANGED <<account, enabled>>

Next ==
  /\ Shaped'
  /\ \/ \E mode \in {"SHADOW", "LIVE"} : Switch(mode)
     \/ \E a \in {"NONE", "STOCK"} : Answer(a)
     \/ Confirm \/ Revoke \/ Enable
     \/ \E s \in Scopes :
          \/ Claim(s)
          \/ \E v \in Versions(s) : Insert(s, v) \/ Settle(s, v)

Spec == Init /\ [][Next]_vars
=============================================================================
