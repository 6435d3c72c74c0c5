------------------------- MODULE MCBookingLifecycle -------------------------
(* BookingLifecycle for TLC: interchangeable items, departures and workers. *)
EXTENDS BookingLifecycle, TLC

Symmetry == UNION {Permutations(Items), Permutations(Slots), Permutations(Workers)}
============================================================================
