--------------------------- MODULE MCEventOutbox ---------------------------
(* EventOutbox for TLC: interchangeable subscribers, requests and drains. *)
EXTENDS EventOutbox, TLC

Symmetry == UNION {Permutations(Subscribers), Permutations(Requests), Permutations(Drains)}
============================================================================
