------------------------- MODULE AvailabilityHolds -------------------------
(***************************************************************************)
(* Soft holds on the seats of a departure, and their conversion into a     *)
(* booking: packages/operations/src/availability/service-holds.ts, the     *)
(* capacity edit of its service-core.ts, and the capacity half of booking  *)
(* creation and cancellation in packages/bookings/src/service-core.ts.     *)
(*                                                                         *)
(* A worker runs one transaction at a time.  A step is one statement that  *)
(* takes a row lock or reads what a later step relies on; what the         *)
(* transaction writes becomes visible in its last step, as the commit      *)
(* makes it, and every way of ending without one is Rollback.  A NULL      *)
(* remaining_pax is None: an unlimited departure has it, and keeps it when *)
(* updateSlot makes the departure finite without giving a capacity.  A hold*)
(* token stands for the token, draft and product of a request, which       *)
(* callers keep together.                                                  *)
(*                                                                         *)
(* SessionFlow says who calls.  TRUE: the Booking Session module of        *)
(* packages/catalog, which holds the session row FOR UPDATE around every   *)
(* call about the session's holds, and places a hold by first releasing    *)
(* the live ones.  FALSE: callers of the exported operations service,      *)
(* which replay a placement under its own token and extend it.             *)
(***************************************************************************)
EXTENDS Integers, FiniteSets, FiniteSetsExt

CONSTANTS Slots,            \* departures; their ids order the lock acquisition
          Unlimited,        \* the ones created without a finite capacity
          Holds,            \* rows availability_holds has room for
          Tokens,           \* hold tokens, one per Booking Session
          Workers,          \* connections running a transaction
          MaxPax,           \* the largest party
          InitialPax,       \* seats of every departure at first
          Edited,           \* the departures an operator edits later
          CapacityChoices,  \* seats an operator may give them
          UnlimitedChoices, \* what an operator may make of `unlimited`
          StatusChoices,    \* statuses an operator may give them
          SessionFlow,      \* who calls (see above)
          None

ASSUME SlotsAssumption == Slots \subseteq Nat /\ IsFiniteSet(Slots)
ASSUME UnlimitedAssumption == Unlimited \subseteq Slots
ASSUME EditedAssumption == Edited \subseteq Slots
ASSUME RowsAssumption == IsFiniteSet(Holds) /\ IsFiniteSet(Tokens) /\ Holds \cap Tokens = {}
ASSUME PaxAssumption == MaxPax \in Nat \ {0} /\ InitialPax \in Nat /\ CapacityChoices \subseteq Nat
ASSUME UnlimitedChoicesAssumption == UnlimitedChoices \subseteq BOOLEAN \cup {None}
ASSUME StatusChoicesAssumption == StatusChoices \subseteq {"open", "sold_out", "closed", "cancelled"}
ASSUME FlowAssumption == SessionFlow \in BOOLEAN
ASSUME NoneAssumption == None \notin Nat \cup BOOLEAN \cup Holds \cup Tokens

VARIABLES slot,     \* availability_slots
          hold,     \* availability_holds
          booking,  \* the booking a token was converted into, its allocation
          tx,       \* the transaction each worker has open
          counted   \* the departures whose remaining_pax never stopped telling
                    \* the seats left; only the properties read it

vars == <<slot, hold, booking, tx, counted>>

SlotRow == [unlimited: BOOLEAN, initial: Nat, remaining: Nat \cup {None},
            status: {"open", "sold_out", "closed", "cancelled"}]

HoldRow == [state: {"unused", "live", "released", "converted"},
            token: Tokens \cup {None}, slot: Slots \cup {None},
            pax: 0..MaxPax, expired: BOOLEAN]
Allocation == [state: {"unused", "live", "released"}, slot: Slots \cup {None}, pax: 0..MaxPax]

\* row: the hold an earlier statement read; rows, slots: the row locks held;
\* todo: departures still to be locked.
Transaction == [op: {"idle", "place", "rehold", "extend", "release", "reap", "book"},
                token: Tokens \cup {None}, slot: Slots \cup {None}, pax: 0..MaxPax,
                row: Holds \cup {None}, rows: SUBSET Holds,
                slots: SUBSET Slots, todo: SUBSET Slots]

NoTransaction == [op |-> "idle", token |-> None, slot |-> None, pax |-> 0,
                  row |-> None, rows |-> {}, slots |-> {}, todo |-> {}]

TypeOK ==
  /\ slot \in [Slots -> SlotRow]
  /\ hold \in [Holds -> HoldRow]
  /\ booking \in [Tokens -> Allocation]
  /\ tx \in [Workers -> Transaction]
  /\ counted \subseteq Slots
  /\ \A s \in counted : ~slot[s].unlimited /\ slot[s].remaining # None

Init ==
  /\ slot = [s \in Slots |-> [unlimited |-> s \in Unlimited, initial |-> InitialPax, status |-> "open",
                              remaining |-> IF s \in Unlimited THEN None ELSE InitialPax]]
  /\ hold = [h \in Holds |-> [state |-> "unused", token |-> None, slot |-> None,
                              pax |-> 0, expired |-> FALSE]]
  /\ booking = [t \in Tokens |-> [state |-> "unused", slot |-> None, pax |-> 0]]
  /\ tx = [w \in Workers |-> NoTransaction]
  /\ counted = Slots \ Unlimited
----------------------------------------------------------------------------
(* Rows, locks and seats *)

Idle(w) == tx[w].op = "idle"
Op(w, op) == tx[w].op = op

Live(h) == hold[h].state = "live"
LiveOf(t) == {h \in Holds : Live(h) /\ hold[h].token = t}
Expired == {h \in Holds : Live(h) /\ hold[h].expired}
On(s) == {h \in Holds : hold[h].slot = s}
SlotsOf(H) == {hold[h].slot : h \in H}

SlotFree(s) == \A w \in Workers : s \notin tx[w].slots
RowsFree(w, H) == \A v \in Workers \ {w} : H \cap tx[v].rows = {}

\* Mutant: the session row is not locked.
SessionFreeAlways(t) == TRUE

\* withSessionTransaction: SELECT the session row FOR UPDATE.
SessionFree(t) ==
  SessionFlow => \A w \in Workers : tx[w].token # t

SeatsHeld(H, s) ==
  Cardinality({p \in H \X (1..MaxPax) : hold[p[1]].slot = s /\ p[2] <= hold[p[1]].pax})
SeatsBooked(s) ==
  Cardinality({p \in Tokens \X (1..MaxPax) :
                 /\ booking[p[1]].state = "live" /\ booking[p[1]].slot = s
                 /\ p[2] <= booking[p[1]].pax})

Begin(w, op, t, s, n, h, H, S, todo) ==
  /\ Idle(w)
  /\ tx' = [tx EXCEPT ![w] = [op |-> op, token |-> t, slot |-> s, pax |-> n, row |-> h,
                              rows |-> H, slots |-> S, todo |-> todo]]

End(w) == tx' = [tx EXCEPT ![w] = NoTransaction]

Released(H) ==
  [h \in Holds |-> IF h \in H THEN [hold[h] EXCEPT !.state = "released"] ELSE hold[h]]

\* remaining_pax ?? 0
Left(row) == IF row.remaining = None THEN 0 ELSE row.remaining

\* The hold service adds d to remaining_pax in SQL, where NULL stays NULL, and
\* leaves the status alone.
Moved(row, d) ==
  IF row.unlimited \/ row.remaining = None THEN row ELSE [row EXCEPT !.remaining = @ + d]

\* adjustSlotCapacity: bookings also keep the status in step, and give nothing
\* back to a cancelled departure.
Adjusted(row, d) ==
  IF row.unlimited \/ row.status = "cancelled" THEN row
  ELSE [row EXCEPT !.remaining = Left(row) + d,
                   !.status = IF Left(row) + d = 0 /\ @ = "open" THEN "sold_out"
                              ELSE IF Left(row) + d > 0 /\ @ = "sold_out" THEN "open" ELSE @]

\* The departures once the holds H have given their seats back.
Restored(H) == [s \in Slots |-> Moved(slot[s], SeatsHeld(H, s))]

\* Mutant: one seat too many.
FitsOneTooMany(row, n) == row.unlimited \/ n <= Left(row) + 1

\* The capacity check of a placement or a booking.
Fits(row, n) == row.unlimited \/ n <= Left(row)

Sellable(S) == \A s \in S : slot[s].status \in {"open", "sold_out"}

NewHold(w) == [state |-> "live", token |-> tx[w].token, slot |-> tx[w].slot,
               pax |-> tx[w].pax, expired |-> FALSE]
----------------------------------------------------------------------------
(* What the transactions wait for *)

\* Mutant: the departures to restore are locked in any order.
WantsSlotAnyOrder(w) ==
  IF tx[w].todo # {} THEN tx[w].todo \ tx[w].slots
  ELSE IF tx[w].op \in {"rehold", "book"} /\ tx[w].row = None THEN {tx[w].slot} \ tx[w].slots
  ELSE {}

\* The departure w locks next: those to restore in ascending order, then the
\* one it takes seats of.
WantsSlot(w) ==
  IF tx[w].todo # {} THEN {Min(tx[w].todo)} \ tx[w].slots
  ELSE IF tx[w].op \in {"rehold", "book"} /\ tx[w].row = None THEN {tx[w].slot} \ tx[w].slots
  ELSE {}

\* The sweep re-selects, under the slot lock, what expired there.
SweepRows(w) ==
  IF Op(w, "reap") /\ tx[w].todo # {} /\ WantsSlot(w) = {}
  THEN Expired \cap On(Min(tx[w].todo)) ELSE {}

WantsRows(w) ==
  IF tx[w].op \in {"place", "extend"} THEN {tx[w].row} \ {None} ELSE SweepRows(w)

WaitsFor(w, v) ==
  /\ w # v
  /\ WantsSlot(w) \cap tx[v].slots # {} \/ WantsRows(w) \cap tx[v].rows # {}

\* SELECT ... FOR UPDATE of the next departure.
LockSlot(w) ==
  \E s \in WantsSlot(w) :
    /\ SlotFree(s)
    /\ tx' = [tx EXCEPT ![w].slots = @ \cup {s},
                        ![w].todo = IF Op(w, "reap") THEN @ ELSE @ \ {s}]
    /\ UNCHANGED <<slot, hold, booking, counted>>

\* Nothing was written: a refusal, a deadlock victim, a lost connection.
Rollback(w) ==
  /\ ~Idle(w)
  /\ End(w)
  /\ UNCHANGED <<slot, hold, booking, counted>>
----------------------------------------------------------------------------
(* placeAvailabilityHold, called directly *)

\* Mutant: the existing hold is looked up before the departure is locked.
PlaceUnlocked(w, t, s, n) ==
  \E h \in (LiveOf(t) \cap On(s)) \cup {None} :
    /\ ~SessionFlow
    /\ h = None => LiveOf(t) \cap On(s) = {}
    /\ Begin(w, "place", t, s, n, h, {}, {}, {})
    /\ UNCHANGED <<slot, hold, booking, counted>>

\* Lock the departure, then look for the hold this request already has there.
BeginPlace(w, t, s, n) ==
  \E h \in (LiveOf(t) \cap On(s)) \cup {None} :
    /\ ~SessionFlow
    /\ SlotFree(s)
    /\ h = None => LiveOf(t) \cap On(s) = {}
    /\ Begin(w, "place", t, s, n, h, {}, {s}, {})
    /\ UNCHANGED <<slot, hold, booking, counted>>

PlaceNew(w, h) ==
  /\ Op(w, "place") /\ tx[w].row = None /\ hold[h].state = "unused"
  /\ Fits(slot[tx[w].slot], tx[w].pax)
  /\ slot' = [slot EXCEPT ![tx[w].slot] = Moved(@, -tx[w].pax)]
  /\ hold' = [hold EXCEPT ![h] = NewHold(w)]
  /\ End(w)
  /\ UNCHANGED <<booking, counted>>

\* A replay resizes and renews the hold it found, by id: the row may have
\* been released or converted meanwhile.
PlaceAgain(w) ==
  /\ Op(w, "place") /\ tx[w].row # None /\ RowsFree(w, {tx[w].row})
  /\ LET s == tx[w].slot
         h == tx[w].row
         delta == tx[w].pax - hold[h].pax
     IN /\ delta > 0 => Fits(slot[s], delta)
        /\ slot' = [slot EXCEPT ![s] = Moved(@, -delta)]
        /\ hold' = [hold EXCEPT ![h].pax = tx[w].pax, ![h].expired = FALSE]
  /\ End(w)
  /\ UNCHANGED <<booking, counted>>
----------------------------------------------------------------------------
(* placeHold of a Booking Session: release what it holds, then place anew *)

BeginRehold(w, t, s, n) ==
  /\ SessionFlow /\ SessionFree(t) /\ booking[t].state = "unused"
  /\ RowsFree(w, LiveOf(t))
  /\ Begin(w, "rehold", t, s, n, None, LiveOf(t), {}, SlotsOf(LiveOf(t)))
  /\ UNCHANGED <<slot, hold, booking, counted>>

Ready(w) == ~Idle(w) /\ tx[w].todo = {} /\ WantsSlot(w) = {}

ReholdPlaces(w, h) ==
  /\ Op(w, "rehold") /\ Ready(w) /\ hold[h].state = "unused"
  /\ Fits(Restored(tx[w].rows)[tx[w].slot], tx[w].pax)
  /\ slot' = [Restored(tx[w].rows) EXCEPT ![tx[w].slot] = Moved(@, -tx[w].pax)]
  /\ hold' = [Released(tx[w].rows) EXCEPT ![h] = NewHold(w)]
  /\ End(w)
  /\ UNCHANGED <<booking, counted>>

\* The session reports availability_changed; its old holds stay released.
ReholdRefused(w) ==
  /\ Op(w, "rehold") /\ Ready(w)
  /\ ~Fits(Restored(tx[w].rows)[tx[w].slot], tx[w].pax)
  /\ slot' = Restored(tx[w].rows)
  /\ hold' = Released(tx[w].rows)
  /\ End(w)
  /\ UNCHANGED <<booking, counted>>
----------------------------------------------------------------------------
(* extendAvailabilityHold: two statements, no transaction, no slot lock *)

BeginExtend(w, t) ==
  \E h \in LiveOf(t) :
    /\ ~SessionFlow
    /\ Begin(w, "extend", t, None, 0, h, {}, {}, {})
    /\ UNCHANGED <<slot, hold, booking, counted>>

ExtendWrites(w) ==
  /\ Op(w, "extend") /\ RowsFree(w, {tx[w].row})
  /\ hold' = [hold EXCEPT ![tx[w].row].expired = FALSE]
  /\ End(w)
  /\ UNCHANGED <<slot, booking, counted>>
----------------------------------------------------------------------------
(* releaseAvailabilityHoldsByToken: the holds first, then their departures *)

BeginRelease(w, t) ==
  /\ SessionFree(t) /\ LiveOf(t) # {} /\ RowsFree(w, LiveOf(t))
  /\ Begin(w, "release", t, None, 0, None, LiveOf(t), {}, SlotsOf(LiveOf(t)))
  /\ UNCHANGED <<slot, hold, booking, counted>>

ReleaseWrites(w) ==
  /\ Op(w, "release") /\ Ready(w)
  /\ slot' = Restored(tx[w].rows)
  /\ hold' = Released(tx[w].rows)
  /\ End(w)
  /\ UNCHANGED <<booking, counted>>
----------------------------------------------------------------------------
(* releaseExpiredHolds: each departure, then its holds *)

\* Mutant: the sweep locks the holds it selects, the departures after.
SweepRowsFirst(w) ==
  /\ Expired # {} /\ RowsFree(w, Expired)
  /\ Begin(w, "reap", None, None, 0, None, Expired, {}, SlotsOf(Expired))
  /\ UNCHANGED <<slot, hold, booking, counted>>

\* The unlocked probe for the departures with expired holds.
BeginReap(w) ==
  /\ Expired # {}
  /\ Begin(w, "reap", None, None, 0, None, {}, {}, SlotsOf(Expired))
  /\ UNCHANGED <<slot, hold, booking, counted>>

\* Mutant: the re-select does not wait for the holds' row locks.
ReapRowsUnlocked(w) ==
  /\ Op(w, "reap") /\ tx[w].todo # {} /\ WantsSlot(w) = {}
  /\ tx' = [tx EXCEPT ![w].rows = @ \cup SweepRows(w), ![w].todo = @ \ {Min(@)}]
  /\ UNCHANGED <<slot, hold, booking, counted>>

\* Re-select what has expired on the departure just locked, and lock it.
ReapRows(w) ==
  /\ Op(w, "reap") /\ tx[w].todo # {} /\ WantsSlot(w) = {}
  /\ RowsFree(w, SweepRows(w))
  /\ tx' = [tx EXCEPT ![w].rows = @ \cup SweepRows(w), ![w].todo = @ \ {Min(@)}]
  /\ UNCHANGED <<slot, hold, booking, counted>>

ReapWrites(w) ==
  /\ Op(w, "reap") /\ Ready(w)
  /\ slot' = Restored(tx[w].rows)
  /\ hold' = Released(tx[w].rows)
  /\ End(w)
  /\ UNCHANGED <<booking, counted>>
----------------------------------------------------------------------------
(* convertProductToBooking, with or without a hold, and cancelBooking *)

\* Lock the token's live holds.  The one on the booked departure, unless it
\* has expired, becomes the allocation; the others are to be restored.
BeginBook(w, t, s, n) ==
  LET usable == {h \in LiveOf(t) \cap On(s) : ~hold[h].expired}
  IN \E h \in usable \cup {None} :
       /\ h = None => usable = {}
       /\ SessionFree(t) /\ booking[t].state = "unused" /\ RowsFree(w, LiveOf(t))
       /\ Begin(w, "book", t, s, n, h, LiveOf(t), {}, SlotsOf(LiveOf(t) \ {h}))
       /\ UNCHANGED <<slot, hold, booking, counted>>

\* adjustSlotCapacity gives back the holds H, one departure after another.
BackToSale(H) ==
  [s \in Slots |-> IF s \in SlotsOf(H)
                   THEN Adjusted(slot[s], SeatsHeld(H, s)) ELSE slot[s]]

Allocate(t, s, n) ==
  booking' = [booking EXCEPT ![t] = [state |-> "live", slot |-> s, pax |-> n]]

\* The hold's seats become the booking's: remaining_pax stays as it is, and
\* the departure is neither locked nor asked whether it is still on sale.
BookFromHold(w) ==
  LET h == tx[w].row
      others == tx[w].rows \ {h}
  IN /\ Op(w, "book") /\ Ready(w) /\ h # None
     /\ Sellable(SlotsOf(others))
     /\ slot' = BackToSale(others)
     /\ hold' = [Released(others) EXCEPT ![h].state = "converted"]
     /\ Allocate(tx[w].token, hold[h].slot, hold[h].pax)
     /\ End(w)
     /\ UNCHANGED counted

\* No usable hold: the booking takes its seats like anyone else.
BookAfresh(w) ==
  LET s == tx[w].slot
      H == tx[w].rows
  IN /\ Op(w, "book") /\ Ready(w) /\ tx[w].row = None
     /\ Sellable(SlotsOf(H) \cup {s})
     /\ Fits(BackToSale(H)[s], tx[w].pax)
     /\ slot' = [BackToSale(H) EXCEPT ![s] = Adjusted(@, -tx[w].pax)]
     /\ hold' = Released(H)
     /\ Allocate(tx[w].token, s, tx[w].pax)
     /\ End(w)
     /\ UNCHANGED counted

\* Cancelling gives the seats back even on a closed departure.  On a cancelled
\* one the allocation ends all the same, and the seats are gone.
CancelBooking(t) ==
  LET s == booking[t].slot
  IN /\ booking[t].state = "live" /\ SlotFree(s)
     /\ slot' = [slot EXCEPT ![s] = Adjusted(@, booking[t].pax)]
     /\ booking' = [booking EXCEPT ![t].state = "released"]
     /\ counted' = IF slot[s].status = "cancelled" THEN counted \ {s} ELSE counted
     /\ UNCHANGED <<hold, tx>>
----------------------------------------------------------------------------
(* updateSlot, and time *)

AtLeast(a, b) == IF a < b THEN b ELSE a
OrElse(x, default) == IF x = None THEN default ELSE x

\* Seats taken of departure s, as a new capacity of n sees it:
\* GREATEST(0, COALESCE(initial, n) - COALESCE(remaining, n)).
Consumed(s, n) == AtLeast(slot[s].initial - OrElse(slot[s].remaining, n), 0)

\* Mutant: the capacity given is what remains.
RemainingIsGiven(s, u, n) == IF u = TRUE THEN None ELSE OrElse(n, slot[s].remaining)

\* remaining_pax after a patch with unlimited u and initialPax n (None: not in
\* the patch): NULL, rebalanced, or left alone.
Rebalanced(s, u, n) ==
  IF u = TRUE THEN None
  ELSE IF n = None THEN slot[s].remaining ELSE AtLeast(n - Consumed(s, n), 0)

\* The departure stops telling its seats when it becomes unlimited, and when it
\* is given fewer than it has given away.
EditCapacity(s, u, n) ==
  /\ SlotFree(s)
  /\ slot' = [slot EXCEPT ![s].unlimited = OrElse(u, @), ![s].initial = OrElse(n, @),
                          ![s].remaining = Rebalanced(s, u, n)]
  /\ counted' = IF u = TRUE \/ (n # None /\ n < Consumed(s, n)) THEN counted \ {s} ELSE counted
  /\ UNCHANGED <<hold, booking, tx>>

EditStatus(s, status) ==
  /\ SlotFree(s) /\ slot[s].status # status
  /\ slot' = [slot EXCEPT ![s].status = status]
  /\ UNCHANGED <<hold, booking, tx, counted>>

\* expires_at passes.
HoldExpires(h) ==
  /\ Live(h) /\ ~hold[h].expired
  /\ hold' = [hold EXCEPT ![h].expired = TRUE]
  /\ UNCHANGED <<slot, booking, tx, counted>>
----------------------------------------------------------------------------
Sweep(w) ==
  \/ BeginReap(w)
  \/ Op(w, "reap") /\ LockSlot(w)
  \/ ReapRows(w)
  \/ ReapWrites(w)

Caller(w) ==
  \/ \E t \in Tokens, s \in Slots, n \in 1..MaxPax :
       BeginPlace(w, t, s, n) \/ BeginRehold(w, t, s, n) \/ BeginBook(w, t, s, n)
  \/ \E t \in Tokens : BeginExtend(w, t) \/ BeginRelease(w, t)
  \/ ~Op(w, "reap") /\ LockSlot(w)
  \/ \E h \in Holds : PlaceNew(w, h) \/ ReholdPlaces(w, h)
  \/ PlaceAgain(w) \/ ReholdRefused(w) \/ ExtendWrites(w) \/ ReleaseWrites(w)
  \/ BookFromHold(w) \/ BookAfresh(w)

Next ==
  \/ \E w \in Workers : Sweep(w) \/ Caller(w) \/ Rollback(w)
  \/ \E t \in Tokens : CancelBooking(t)
  \/ \E s \in Edited, u \in UnlimitedChoices \cup {None}, n \in CapacityChoices \cup {None} : EditCapacity(s, u, n)
  \/ \E s \in Edited, status \in StatusChoices : EditStatus(s, status)
  \/ \E h \in Holds : HoldExpires(h)

Spec == Init /\ [][Next]_vars
----------------------------------------------------------------------------
(* Properties *)

LiveHolds == {h \in Holds : Live(h)}

\* remaining_pax, the live holds and the allocations of a departure add up to
\* its capacity at every commit: no interleaving of placements, releases,
\* sweeps, conversions, cancellations and capacity edits mints a seat or loses
\* one (service-holds.ts, adjustSlotCapacity, updateSlot), except where the
\* code gives up telling: see counted.
SeatsConserved ==
  \A s \in counted :
    slot[s].remaining + SeatsHeld(LiveHolds, s) + SeatsBooked(s) = slot[s].initial

\* However often and however concurrently a placement is replayed, its request
\* has at most one live hold on a departure (service-holds.ts:67-115).
OneHoldPerRequest == \A t \in Tokens, s \in Slots : Cardinality(LiveOf(t) \cap On(s)) <= 1

\* A Booking Session has at most one live hold, whatever requests about it run
\* at once (sessions-service.ts:1362-1468, releaseLiveHolds).
OneHoldPerSession == \A t \in Tokens : Cardinality(LiveOf(t)) <= 1

Deadlocked(w, v) == WaitsFor(w, v) /\ WaitsFor(v, w)

\* The sweep never deadlocks with a caller of placeAvailabilityHold: both take
\* the departure before its holds (service-holds.ts:277-278).
SweepSparesPlacement ==
  \A w, v \in Workers : Op(w, "reap") /\ Op(v, "place") => ~Deadlocked(w, v)

\* Two sweeps never deadlock: each takes the departures in ascending order
\* (service-holds.ts:308-309).
SweepsSpareEachOther ==
  \A w, v \in Workers : Op(w, "reap") /\ Op(v, "reap") => ~Deadlocked(w, v)

\* How the rows map to the ledger: holds and bookings are claims.
Claims == Holds \cup Tokens
Given == [s \in counted |-> slot[s].initial]
Free == [s \in counted |-> slot[s].remaining]
Phase ==
  [c \in Claims |-> LET state == IF c \in Holds THEN hold[c].state ELSE booking[c].state
                    IN IF state \in {"unused", "live"} THEN state ELSE "settled"]
At == [c \in Claims |-> IF c \in Holds THEN hold[c].slot ELSE booking[c].slot]
Size == [c \in Claims |-> IF c \in Holds THEN hold[c].pax ELSE booking[c].pax]

\* Every transaction is one of the ledger's exchanges, whatever interleaves
\* with it: claims are settled once and seats move only as the ledger says.
\* (The many steps that leave the ledger alone are named first, for TLC.)
Ledger == INSTANCE SeatLedger WITH
  Elsewhere <- None, Capacities <- CapacityChoices \cup {InitialPax},
  initial <- Given, free <- Free, phase <- Phase, at <- At, size <- Size

ImplementsSeatLedger ==
  Ledger!Init /\ [][UNCHANGED Ledger!ledger \/ Ledger!Next]_Ledger!ledger
============================================================================
