---------------------------- MODULE MCScheduler ----------------------------
(* Model-checking instances of Scheduler: the cfg files give the sizes.    *)
EXTENDS Scheduler, TLC

(* Processes are interchangeable, and so are jobs.                         *)
Symmetry == Permutations(Processes) \cup Permutations(Jobs)
=============================================================================
