--------------------------- MODULE MCOutboxRelay ---------------------------
(* Small instances of OutboxRelay for TLC. *)
EXTENDS OutboxRelay, TLC

CONSTANTS h1, h2

(* Every process registers the same handlers. *)
SameHandlers == [r \in Relays |-> {h1, h2}]

(* A rolling deploy: the old process has no subscriber for the type. *)
CONSTANTS r1, r2
MixedHandlers == [r \in Relays |-> IF r = r1 THEN {} ELSE {h1}]

RelaySymmetry == Permutations(Relays)
=============================================================================
