------------------------ MODULE MCAvailabilityHolds ------------------------
(* AvailabilityHolds for TLC: interchangeable rows, tokens and connections. *)
EXTENDS AvailabilityHolds, TLC

Symmetry == UNION {Permutations(Holds), Permutations(Tokens), Permutations(Workers)}
============================================================================
