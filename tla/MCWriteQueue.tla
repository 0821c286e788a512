---------------------------- MODULE MCWriteQueue ----------------------------
(* Model-checking instances of WriteQueue: the cfg files give the sizes.   *)
EXTENDS WriteQueue, TLC

(* Chains are interchangeable, and so are decision paths.                  *)
Symmetry == Permutations(Chains) \cup Permutations(Deciders)
=============================================================================
