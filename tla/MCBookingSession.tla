------------------------- MODULE MCBookingSession -------------------------
(* BookingSession for TLC: the bounds are those of BookingSession.cfg. *)
EXTENDS BookingSession
============================================================================
