--------------------------- MODULE MCReservations ---------------------------
(* Model-checking instances of Reservations: the cfg files give the sizes. *)
(* One product has a pool of our own, the other one of a warehouse.        *)
EXTENDS Reservations, TLC

CONSTANTS l1, l2, own, wh

MixedLines == l1 :> wh @@ l2 :> own
WarehouseLines == l1 :> wh @@ l2 :> wh

(* At most one of these in a behaviour: a death, a stocktake, a count that *)
(* is taken over from the warehouse.                                       *)
OneDisturbance ==
  crashes + counted[own].times + Cardinality({p \in Inbound : pool[p].asOf > 0}) <= 1
=============================================================================
