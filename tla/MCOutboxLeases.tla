-------------------------- MODULE MCOutboxLeases --------------------------
(* OutboxLeases for TLC: interchangeable rows and drains. *)
EXTENDS OutboxLeases, TLC

Symmetry == Permutations(Events) \cup Permutations(Drains)
============================================================================
