----------------------------- MODULE SeatLedger -----------------------------
(***************************************************************************)
(* What the availability code promises about the seats of a departure,     *)
(* without transactions or locks.  A claim is a soft hold or a booking's   *)
(* allocation.  A seat is either free or held by exactly one live claim; a *)
(* claim gives its seats back, or hands them to a booking, exactly once,   *)
(* and is never live again.  A departure whose remaining seats the code    *)
(* stops telling (it becomes unlimited, is given fewer seats than are      *)
(* claimed, or loses a booking while it is cancelled) is written off: the  *)
(* ledger promises nothing of it any more.                                 *)
(***************************************************************************)
EXTENDS Integers, FiniteSets

CONSTANTS Slots,      \* departures
          Elsewhere,  \* where a claim is that was never placed
          Claims,     \* identifiers of holds and of bookings
          MaxPax,     \* the largest party
          Capacities  \* what a capacity may be

ASSUME ElsewhereAssumption == Elsewhere \notin Slots
ASSUME ClaimsAssumption == IsFiniteSet(Claims)
ASSUME MaxPaxAssumption == MaxPax \in Nat \ {0}
ASSUME CapacitiesAssumption == Capacities \subseteq Nat

VARIABLES counted,  \* departures whose seats are told
          initial,  \* seats such a departure was given
          free,     \* seats nobody claims
          phase,    \* life of a claim
          at,       \* departure a claim is on
          size      \* seats it claims

ledger == <<counted, initial, free, phase, at, size>>

Places == Slots \cup {Elsewhere}

\* The seats of the claims C on departure s, one pair per seat.
SeatsOf(C, s) == {p \in C \X (1..MaxPax) : at[p[1]] = s /\ p[2] <= size[p[1]]}
Claimed(C, s) == Cardinality(SeatsOf(C, s))

LiveClaims == {c \in Claims : phase[c] = "live"}

LedgerTypeOK ==
  /\ counted \subseteq Slots
  /\ initial \in [counted -> Int]
  /\ free \in [counted -> Int]
  /\ phase \in [Claims -> {"unused", "live", "settled"}]
  /\ at \in [Claims -> Places]
  /\ size \in [Claims -> 0..MaxPax]

Init ==
  /\ counted \in SUBSET Slots
  /\ initial \in [counted -> Capacities]
  /\ free = initial
  /\ phase = [c \in Claims |-> "unused"]
  /\ at = [c \in Claims |-> Elsewhere]
  /\ size = [c \in Claims |-> 0]
----------------------------------------------------------------------------
\* The live claims C give their seats back.
GiveBack(C) ==
  /\ C # {} /\ C \subseteq LiveClaims
  /\ phase' = [c \in Claims |-> IF c \in C THEN "settled" ELSE phase[c]]
  /\ free' = [s \in counted |-> free[s] + Claimed(C, s)]
  /\ UNCHANGED <<counted, initial, at, size>>

\* The live claims C give their seats back and c takes n seats of s, among
\* them, if need be, the ones just given back.
Exchange(C, c, s, n) ==
  /\ C \subseteq LiveClaims /\ phase[c] = "unused"
  /\ phase' = [b \in Claims |-> IF b = c THEN "live"
                                ELSE IF b \in C THEN "settled" ELSE phase[b]]
  /\ s \in counted => n <= free[s] + Claimed(C, s)
  /\ free' = [t \in counted |-> free[t] + Claimed(C, t) - IF t = s THEN n ELSE 0]
  /\ at' = [at EXCEPT ![c] = s]
  /\ size' = [size EXCEPT ![c] = n]
  /\ UNCHANGED <<counted, initial>>

\* Mutant: the seats handed over are given back as well.
HandOverAndFree(C, h, c) ==
  /\ C \subseteq LiveClaims /\ h \in C /\ phase[c] = "unused"
  /\ phase' = [b \in Claims |-> IF b = c THEN "live"
                                ELSE IF b \in C THEN "settled" ELSE phase[b]]
  /\ free' = [t \in counted |-> free[t] + Claimed(C, t)]
  /\ at' = [at EXCEPT ![c] = at[h]]
  /\ size' = [size EXCEPT ![c] = size[h]]
  /\ UNCHANGED <<counted, initial>>

\* The live claims C give their seats back, except that those of h become c's.
HandOver(C, h, c) ==
  /\ C \subseteq LiveClaims /\ h \in C /\ phase[c] = "unused"
  /\ phase' = [b \in Claims |-> IF b = c THEN "live"
                                ELSE IF b \in C THEN "settled" ELSE phase[b]]
  /\ free' = [t \in counted |-> free[t] + Claimed(C \ {h}, t)]
  /\ at' = [at EXCEPT ![c] = at[h]]
  /\ size' = [size EXCEPT ![c] = size[h]]
  /\ UNCHANGED <<counted, initial>>

\* Mutant: a claim grows without asking.
ResizeUnchecked(c, n) ==
  /\ phase[c] = "live"
  /\ free' = [s \in counted |-> free[s] - IF s = at[c] THEN n - size[c] ELSE 0]
  /\ size' = [size EXCEPT ![c] = n]
  /\ UNCHANGED <<counted, initial, phase, at>>

\* A live claim grows or shrinks to n seats.
Resize(c, n) ==
  /\ phase[c] = "live"
  /\ at[c] \in counted => n - size[c] <= free[at[c]]
  /\ free' = [s \in counted |-> free[s] - IF s = at[c] THEN n - size[c] ELSE 0]
  /\ size' = [size EXCEPT ![c] = n]
  /\ UNCHANGED <<counted, initial, phase, at>>

\* The operator gives departure s another capacity; what is claimed stays so.
Recapacitate(s, n) ==
  /\ s \in counted /\ n >= initial[s] - free[s]
  /\ initial' = [initial EXCEPT ![s] = n]
  /\ free' = [free EXCEPT ![s] = @ + (n - initial[s])]
  /\ UNCHANGED <<counted, phase, at, size>>

\* Departure s is written off, with it the live claims C that end there.
WriteOff(C, s) ==
  /\ C \subseteq LiveClaims /\ \A c \in C : at[c] = s
  /\ counted' = counted \ {s}
  /\ initial' = [t \in counted \ {s} |-> initial[t]]
  /\ free' = [t \in counted \ {s} |-> free[t]]
  /\ phase' = [c \in Claims |-> IF c \in C THEN "settled" ELSE phase[c]]
  /\ UNCHANGED <<at, size>>

Next ==
  \/ \E C \in SUBSET LiveClaims : GiveBack(C)
  \/ \E C \in SUBSET LiveClaims, c \in Claims, s \in Slots, n \in 1..MaxPax : Exchange(C, c, s, n)
  \/ \E C \in SUBSET LiveClaims, h, c \in Claims : HandOver(C, h, c)
  \/ \E c \in Claims, n \in 1..MaxPax : Resize(c, n)
  \/ \E s \in Slots, n \in Capacities : Recapacitate(s, n)
  \/ \E C \in SUBSET LiveClaims, s \in Slots : WriteOff(C, s)

Spec == Init /\ [][Next]_ledger
----------------------------------------------------------------------------
\* Every seat of a departure is free or claimed once: placing, resizing,
\* releasing, converting and cancelling never mint or lose a seat of a
\* departure that is not written off.
Conserved == \A s \in counted : free[s] + Claimed(LiveClaims, s) = initial[s]

\* No departure is ever oversold.
NeverOversold == \A s \in counted : free[s] >= 0
============================================================================
