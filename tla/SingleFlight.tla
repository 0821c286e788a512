---------------------------- MODULE SingleFlight ----------------------------
(***************************************************************************)
(* What the write queue of one scope promises (INV-03 and the first layer  *)
(* of ADR-0009): at most one version is in flight, a version that leaves   *)
(* is the newest one, and a version that has ended never leaves again.     *)
(***************************************************************************)
EXTENDS Integers

VARIABLES
  created,   \* the newest version; versions are 1..created
  flying,    \* the version in flight, 0 if none
  highest,   \* the newest version that ever left
  ended      \* versions that never leave (again)

vars == <<created, flying, highest, ended>>

Init == created = 0 /\ flying = 0 /\ highest = 0 /\ ended = {}

(* Any step may end versions, but not the one that flies.                  *)
End == /\ ended \subseteq ended'
       /\ ended' \subseteq 1..created'
       /\ flying' \notin ended'

TakeOff == /\ flying = 0
           /\ flying' = created'
           /\ highest' = created'
           /\ created' \notin ended

Create == /\ created' = created + 1
          /\ TakeOff \/ UNCHANGED <<flying, highest>>
          /\ End

Fly == created > 0 /\ UNCHANGED created /\ TakeOff /\ End

Land == /\ flying # 0
        /\ flying' = 0
        /\ UNCHANGED <<created, highest>>
        /\ End

Drop == UNCHANGED <<created, flying, highest>> /\ End

Next == Create \/ Fly \/ Land \/ Drop

Spec == Init /\ [][Next]_vars
=============================================================================
