---------------------------- MODULE MCSeatLedger ----------------------------
(* SeatLedger for TLC: interchangeable claims. *)
EXTENDS SeatLedger, TLC

Symmetry == Permutations(Claims)
============================================================================
