------------------------- MODULE MCAccountSwitches -------------------------
(* Model-checking instances of AccountSwitches: the cfg gives the sizes.   *)
EXTENDS AccountSwitches, TLC

OneOrTwo == [s \in Scopes |-> IF s = "PRICE" THEN 1 ELSE 2]

(* Owners act alike.                                                       *)
Symmetry == Permutations(Owners)
=============================================================================
