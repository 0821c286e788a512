--------------------------- MODULE MCOutboxRelay ---------------------------
(* Model-checking instances of OutboxRelay: the cfg files give the sizes.  *)
EXTENDS OutboxRelay, TLC

(* Relays are interchangeable, and so are scopes.                          *)
Symmetry == Permutations(Relays) \cup Permutations(Scopes)
=============================================================================
