-------------------------- MODULE BookingLifecycle --------------------------
(***************************************************************************)
(* One booking, its items and the allocations that hold seats for them:    *)
(* packages/bookings/src/service-core.ts.  Operators change its status,    *)
(* force a status, change its party, and create, update or delete items,   *)
(* several requests at a time, each in a READ COMMITTED transaction.       *)
(*                                                                         *)
(* A step is a statement that takes a row lock or reads something a later  *)
(* step relies on; writes become visible in a transaction's last step, and *)
(* Rollback stands for every way of ending without them.  fence is the     *)
(* lock on the bookings row: "exclusive" for SELECT ... FOR UPDATE,        *)
(* "shared" for the FOR KEY SHARE that a foreign key takes when an item is *)
(* inserted; the closing UPDATE conflicts with exclusive only, because it  *)
(* commits at once.                                                        *)
(*                                                                         *)
(* An item's total is its quantity at a unit price of one, and each item   *)
(* has at most one allocation, the only shape the code creates.  A booking *)
(* is created on one departure; an amendment may have moved lines since.   *)
(* Departures are open or sold out here; AvailabilityHolds has the others. *)
(***************************************************************************)
EXTENDS Integers, FiniteSets, FiniteSetsExt

CONSTANTS Items,        \* booking items, created or yet to be created
          Slots,        \* departures
          Workers,      \* connections running a transaction
          MaxQuantity,  \* largest quantity of an item
          Seats,        \* capacity of a departure
          Parties,      \* values of bookings.pax, None among them or not
          HoldSizes,    \* seats of the holds that bookings convert, if any
          Overrides,    \* the statuses operators override
          None

ASSUME ItemsAssumption == IsFiniteSet(Items) /\ None \notin Items
ASSUME QuantityAssumption == MaxQuantity \in Nat \ {0} /\ Seats \in Nat
ASSUME PartyAssumption == Parties \subseteq (Nat \ {0}) \cup {None}
ASSUME HoldsAssumption == HoldSizes \subseteq Nat \ {0}

VARIABLES booking,    \* the bookings row
          item,       \* booking_items
          alloc,      \* booking_allocations, by the item they are for
          remaining,  \* remaining_pax of the departures
          tx          \* the transaction each worker has open

vars == <<booking, item, alloc, remaining, tx>>

\* What an allocation, or an item's quantity read in its place, may count.
MaxClaim == Seats + MaxQuantity
MaxTotal == Cardinality(Items) * MaxQuantity
Statuses == {"confirmed", "in_progress", "completed", "cancelled"}

ASSUME OverridesAssumption == Overrides \subseteq Statuses

StatusOps == {"cancel", "complete", "forceCancel", "forceComplete"}
ItemOps == {"create", "update", "delete"}

Transaction ==
  [op: {"idle"} \cup StatusOps \cup ItemOps,
   step: {"begin", "own", "siblings", "slots", "marked", "read", "write"},
   item: Items \cup {None}, quantity: 0..MaxQuantity,
   fence: {"none", "shared", "exclusive"},
   items: SUBSET Items, allocs: SUBSET Items, slots: SUBSET Slots,  \* locked
   todo: SUBSET Slots,                \* departures still to be locked
   seen: [Items -> 0..MaxClaim],      \* allocations read, 0 if not consuming
   pax: Parties \cup {None},          \* bookings.pax, as the operation read it
   total: 0..MaxTotal]                \* sum of the items read

NoTransaction ==
  [op |-> "idle", step |-> "begin", item |-> None, quantity |-> 0, fence |-> "none",
   items |-> {}, allocs |-> {}, slots |-> {}, todo |-> {},
   seen |-> [i \in Items |-> 0], pax |-> None, total |-> 0]

TypeOK ==
  /\ booking \in [status: Statuses, total: 0..MaxTotal, pax: Parties]
  /\ item \in [Items -> [state: {"absent", "confirmed", "fulfilled", "cancelled"},
                         quantity: 0..MaxQuantity]]
  /\ alloc \in [Items -> [state: {"none", "confirmed", "fulfilled", "cancelled"},
                          quantity: 0..MaxClaim, slot: Slots]]
  /\ remaining \in [Slots -> 0..Seats]
  /\ tx \in [Workers -> Transaction]
----------------------------------------------------------------------------
Present == {i \in Items : item[i].state # "absent"}

\* allocationStatusConsumesSlotCapacity
Consuming == {i \in Items : alloc[i].state \in {"confirmed", "fulfilled"}}
On(s) == {i \in Items : alloc[i].slot = s}

\* Seats the allocations of the items I claim of departure s.
Claim(I, s) ==
  Cardinality({p \in (I \cap On(s)) \X (1..MaxClaim) : p[2] <= alloc[p[1]].quantity})
Quantity(I) == Cardinality({p \in I \X (1..MaxQuantity) : p[2] <= item[p[1]].quantity})
Given(w, s) == Cardinality({p \in On(s) \X (1..MaxClaim) : p[2] <= tx[w].seen[p[1]]})

\* Seats taken afresh: every line's allocation has the line's own quantity, or
\* the party's if the line is the only one and counts rooms or vehicles.
TakesItsOwn(booked, n, pax, claims) ==
  \A i \in booked : claims[i] \in {n[i]} \cup IF booked = {i} THEN {pax} \ {None} ELSE {}

\* A converted hold: the first line carries the hold's seats, the others have
\* no allocation.
TakesTheHold(carriers, claims) ==
  Cardinality(carriers) = 1 /\ \A i \in carriers : claims[i] \in HoldSizes

\* As convertProductToBooking leaves the booking.
Init ==
  /\ \E booked \in SUBSET Items, n \in [Items -> 1..MaxQuantity], pax \in Parties,
        carriers \in SUBSET Items, claims \in [Items -> 0..Seats], departure \in [Items -> Slots] :
       /\ item = [i \in Items |-> IF i \in booked
                                  THEN [state |-> "confirmed", quantity |-> n[i]]
                                  ELSE [state |-> "absent", quantity |-> 0]]
       /\ booked # {} /\ carriers \subseteq booked
       /\ \/ carriers = booked /\ TakesItsOwn(booked, n, pax, claims)
          \/ TakesTheHold(carriers, claims)
       /\ alloc = [i \in Items |->
                     IF i \in carriers
                     THEN [state |-> "confirmed", quantity |-> claims[i], slot |-> departure[i]]
                     ELSE [state |-> "none", quantity |-> 0, slot |-> departure[i]]]
       /\ booking = [status |-> "confirmed", total |-> Quantity(Present), pax |-> pax]
  /\ \A s \in Slots : Claim(Consuming, s) <= Seats
  /\ remaining = [s \in Slots |-> Seats - Claim(Consuming, s)]
  /\ tx = [w \in Workers |-> NoTransaction]
----------------------------------------------------------------------------
(* Locks *)

Op(w, ops) == tx[w].op \in ops
At(w, step) == tx[w].step = step

FenceFree(w, held) == \A v \in Workers \ {w} : tx[v].fence \notin held
ItemsFree(w, I) == \A v \in Workers \ {w} : I \cap tx[v].items = {}
AllocsFree(w, I) == \A v \in Workers \ {w} : I \cap tx[v].allocs = {}
SlotFree(w, s) == \A v \in Workers \ {w} : s \notin tx[v].slots

Begin(w, t) == tx[w].op = "idle" /\ tx' = [tx EXCEPT ![w] = t]
Continue(w, t) == tx' = [tx EXCEPT ![w] = t] /\ UNCHANGED <<booking, item, alloc, remaining>>
End(w) == tx' = [tx EXCEPT ![w] = NoTransaction]

\* A refusal, a deadlock victim, a lost connection.
Rollback(w) ==
  /\ tx[w].op # "idle"
  /\ End(w)
  /\ UNCHANGED <<booking, item, alloc, remaining>>

\* adjustSlotCapacity locks the departure before it reads the seats left.
LockSlot(w) ==
  \E s \in tx[w].todo :
    /\ At(w, "slots") /\ SlotFree(w, s)
    /\ LET t == tx[w] IN
         Continue(w, [t EXCEPT
           !.slots = @ \cup {s}, !.todo = @ \ {s},
           !.step = IF t.todo # {s} THEN "slots" ELSE IF t.op \in StatusOps THEN "marked" ELSE "read"])
----------------------------------------------------------------------------
(* startBooking, completeBooking, cancelBooking, overrideBookingStatus *)

\* BOOKING_TRANSITIONS; an override asks no questions.
Permitted(op) ==
  CASE op = "cancel" -> booking.status \in {"confirmed", "in_progress"}
    [] op = "complete" -> booking.status = "in_progress"
    [] OTHER -> booking.status \in Overrides

\* Which items and allocations the operation marks, and how.
Marks(op) ==
  IF op \in {"cancel", "complete"} THEN {"confirmed"} ELSE {"confirmed", "fulfilled"}
Outcome(op) == IF op \in {"cancel", "forceCancel"} THEN "cancelled" ELSE "completed"
Marked(op) == IF Outcome(op) = "cancelled" THEN "cancelled" ELSE "fulfilled"
ToMark(op, rows) == {i \in Items : rows[i].state \in Marks(op)}
Mark(op, rows) ==
  [i \in Items |-> IF i \in ToMark(op, rows) THEN [rows[i] EXCEPT !.state = Marked(op)] ELSE rows[i]]

\* Mutant: the booking row is read without FOR UPDATE.
BeginStatusUnlocked(w, op) ==
  LET giving == IF Outcome(op) = "cancelled" THEN Consuming ELSE {} IN
  /\ Permitted(op)
  /\ Begin(w, [NoTransaction EXCEPT
       !.op = op,
       !.step = IF giving = {} THEN "marked" ELSE "slots",
       !.todo = {alloc[i].slot : i \in giving},
       !.seen = [i \in Items |-> IF i \in giving THEN alloc[i].quantity ELSE 0]])
  /\ UNCHANGED <<booking, item, alloc, remaining>>

\* Lock the booking, check the transition and read, without locking them, the
\* allocations whose seats are to be given back.
BeginStatus(w, op) ==
  LET giving == IF Outcome(op) = "cancelled" THEN Consuming ELSE {} IN
  /\ FenceFree(w, {"shared", "exclusive"})
  /\ Permitted(op)
  /\ Begin(w, [NoTransaction EXCEPT
       !.op = op, !.fence = "exclusive",
       !.step = IF giving = {} THEN "marked" ELSE "slots",
       !.todo = {alloc[i].slot : i \in giving},
       !.seen = [i \in Items |-> IF i \in giving THEN alloc[i].quantity ELSE 0]])
  /\ UNCHANGED <<booking, item, alloc, remaining>>

LockMarked(w) ==
  LET rows == ToMark(tx[w].op, alloc) IN
  /\ Op(w, StatusOps) /\ At(w, "marked") /\ AllocsFree(w, rows)
  /\ Continue(w, [tx[w] EXCEPT !.allocs = rows, !.step = "write"])

ChangeStatus(w) ==
  LET op == tx[w].op IN
  /\ Op(w, StatusOps) /\ At(w, "write") /\ ItemsFree(w, ToMark(op, item))
  /\ remaining' = [s \in Slots |-> remaining[s] + Given(w, s)]
  /\ alloc' = Mark(op, alloc)
  /\ item' = Mark(op, item)
  /\ booking' = [booking EXCEPT !.status = Outcome(op)]
  /\ End(w)

\* Touches the booking row only.
StartBooking(w) ==
  /\ tx[w].op = "idle" /\ FenceFree(w, {"shared", "exclusive"})
  /\ booking.status = "confirmed"
  /\ booking' = [booking EXCEPT !.status = "in_progress"]
  /\ UNCHANGED <<item, alloc, remaining, tx>>

\* "non-terminal overrides remain booking-row data correction"
ForceStatus(w, status) ==
  /\ booking.status \in Overrides
  /\ tx[w].op = "idle" /\ FenceFree(w, {"shared", "exclusive"})
  /\ booking' = [booking EXCEPT !.status = status]
  /\ UNCHANGED <<item, alloc, remaining, tx>>

\* Travellers added, changed or removed, or updateBooking: bookings.pax is
\* rewritten and the allocations are left alone.
EditParty(w, pax) ==
  /\ tx[w].op = "idle" /\ FenceFree(w, {"shared", "exclusive"})
  /\ booking' = [booking EXCEPT !.pax = pax]
  /\ UNCHANGED <<item, alloc, remaining, tx>>
----------------------------------------------------------------------------
(* createItem, updateItem, deleteItem *)

\* Mutant: the check is missing.
MutableAlways == TRUE

\* bookingAllowsItemMutation
Mutable == booking.status # "cancelled"

\* The booking's status is read without a lock.
BeginCreate(w, i, n) ==
  /\ item[i].state = "absent" /\ ItemsFree(w, {i}) /\ Mutable
  /\ Begin(w, [NoTransaction EXCEPT !.op = "create", !.item = i, !.quantity = n, !.items = {i}])
  /\ UNCHANGED <<booking, item, alloc, remaining>>

\* The insert's foreign key waits for whoever has the booking FOR UPDATE.
InsertItem(w) ==
  /\ Op(w, {"create"}) /\ At(w, "begin") /\ FenceFree(w, {"exclusive"})
  /\ Continue(w, [tx[w] EXCEPT !.fence = "shared", !.step = "read"])

\* Mutant: the item is read without FOR UPDATE.
BeginUpdateUnlocked(w, i, n) ==
  /\ i \in Present /\ Mutable
  /\ Begin(w, [NoTransaction EXCEPT
       !.op = "update", !.item = i, !.quantity = n,
       !.seen = [NoTransaction.seen EXCEPT ![i] = item[i].quantity],
       !.step = IF booking.pax = None /\ n # item[i].quantity THEN "own" ELSE "read"])
  /\ UNCHANGED <<booking, item, alloc, remaining>>

\* Lock the item, then read the booking's status and the old quantity.
BeginUpdate(w, i, n) ==
  /\ i \in Present /\ ItemsFree(w, {i}) /\ Mutable
  /\ Begin(w, [NoTransaction EXCEPT
       !.op = "update", !.item = i, !.quantity = n, !.items = {i},
       !.seen = [NoTransaction.seen EXCEPT ![i] = item[i].quantity],
       !.step = IF booking.pax = None /\ n # item[i].quantity THEN "own" ELSE "read"])
  /\ UNCHANGED <<booking, item, alloc, remaining>>

\* Lock the item, then read the booking's status and party.
BeginDelete(w, i) ==
  /\ i \in Present /\ ItemsFree(w, {i}) /\ Mutable
  /\ Begin(w, [NoTransaction EXCEPT
       !.op = "delete", !.item = i, !.items = {i}, !.pax = booking.pax, !.step = "own"])
  /\ UNCHANGED <<booking, item, alloc, remaining>>

\* The item's own allocation, if it consumes a seat.
LockOwn(w) ==
  LET i == tx[w].item
      next == IF i \notin Consuming THEN "read" ELSE IF Op(w, {"delete"}) THEN "siblings" ELSE "slots"
  IN /\ At(w, "own") /\ AllocsFree(w, {i})
     /\ Continue(w, [tx[w] EXCEPT !.allocs = {i}, !.step = next,
                                  !.todo = IF next = "slots" THEN {alloc[i].slot} ELSE {}])

\* What the booking claims of the departure once item i is gone, by the party
\* that was read with the item.
Siblings(i) == (Consuming \cap On(alloc[i].slot)) \ {i}
Desired(i, pax) ==
  IF Siblings(i) = {} THEN 0
  ELSE IF pax # None THEN pax ELSE Claim(Siblings(i), alloc[i].slot)

Surplus(i, pax) == Claim(Consuming, alloc[i].slot) - Desired(i, pax)

\* The other allocations the booking has on that departure.
LockSiblings(w) ==
  LET i == tx[w].item
      even == Surplus(i, tx[w].pax) = 0
  IN /\ At(w, "siblings") /\ AllocsFree(w, Siblings(i))
     /\ Continue(w, [tx[w] EXCEPT !.allocs = @ \cup Siblings(i),
                                  !.step = IF even THEN "read" ELSE "slots",
                                  !.todo = IF even THEN {} ELSE {alloc[i].slot}])

\* recomputeBookingTotal sums the items it can see, its own change among them.
ReadItems(w) ==
  LET i == tx[w].item IN
  /\ Op(w, ItemOps) /\ At(w, "read")
  /\ Continue(w, [tx[w] EXCEPT !.step = "write",
                               !.total = Quantity(Present \ {i}) + tx[w].quantity])

\* The closing UPDATE of the booking row, and the commit.
Finish(w) ==
  /\ At(w, "write") /\ FenceFree(w, {"exclusive"})
  /\ booking' = [booking EXCEPT !.total = tx[w].total]
  /\ End(w)

CreateItem(w) ==
  /\ Op(w, {"create"})
  /\ item' = [item EXCEPT ![tx[w].item] = [state |-> "confirmed", quantity |-> tx[w].quantity]]
  /\ Finish(w)
  /\ UNCHANGED <<alloc, remaining>>

\* Mutant: the seats left are not asked for.
UpdateItemUnchecked(w) ==
  LET i == tx[w].item
      delta == tx[w].quantity - tx[w].seen[i]
      s == alloc[i].slot
  IN /\ Op(w, {"update"})
     /\ item' = [item EXCEPT ![i].quantity = tx[w].quantity]
     /\ IF tx[w].slots = {} THEN UNCHANGED <<alloc, remaining>>
        ELSE /\ remaining' = [remaining EXCEPT ![s] = @ - delta]
             /\ alloc' = [alloc EXCEPT ![i].quantity = @ + delta]
     /\ Finish(w)

\* syncAllocationQuantity: the seats move with the allocation, if it has one
\* and the quantity changed; more seats than are left is an error.
UpdateItem(w) ==
  LET i == tx[w].item
      delta == tx[w].quantity - tx[w].seen[i]
      s == alloc[i].slot
  IN /\ Op(w, {"update"})
     /\ item' = [item EXCEPT ![i].quantity = tx[w].quantity]
     /\ IF tx[w].slots = {} THEN UNCHANGED <<alloc, remaining>>
        ELSE /\ delta <= remaining[s] /\ alloc[i].quantity + delta >= 0
             /\ remaining' = [remaining EXCEPT ![s] = @ - delta]
             /\ alloc' = [alloc EXCEPT ![i].quantity = @ + delta]
     /\ Finish(w)

\* Mutant: the other allocations keep what they had.
WithoutOnly(i, carrier, pax) == [alloc EXCEPT ![i].state = "none", ![i].quantity = 0]

\* The allocations once item i and, by cascade, its own are gone: one sibling
\* carries the whole claim.
Without(i, carrier, pax) ==
  [j \in Items |->
     IF j = i THEN [alloc[j] EXCEPT !.state = "none", !.quantity = 0]
     ELSE IF j \notin Siblings(i) THEN alloc[j]
     ELSE [alloc[j] EXCEPT !.quantity = IF j = carrier THEN Desired(i, pax) ELSE 0]]

\* The oldest sibling is the carrier; which one that is, is left open.
DeleteItem(w) ==
  LET i == tx[w].item
      s == alloc[i].slot
      surplus == Surplus(i, tx[w].pax)
  IN /\ Op(w, {"delete"})
     /\ item' = [item EXCEPT ![i] = [state |-> "absent", quantity |-> 0]]
     /\ IF i \notin Consuming
        THEN alloc' = [alloc EXCEPT ![i].state = "none", ![i].quantity = 0] /\ UNCHANGED remaining
        ELSE /\ \E carrier \in IF Siblings(i) = {} THEN {None} ELSE Siblings(i) :
                  alloc' = Without(i, carrier, tx[w].pax)
             /\ surplus + remaining[s] >= 0
             /\ remaining' = [remaining EXCEPT ![s] = @ + surplus]
     /\ Finish(w)
----------------------------------------------------------------------------
Next ==
  \E w \in Workers :
    \/ \E op \in StatusOps : BeginStatus(w, op)
    \/ StartBooking(w)
    \/ \E status \in {"confirmed", "in_progress"} : ForceStatus(w, status)
    \/ \E pax \in Parties : EditParty(w, pax)
    \/ \E i \in Items : BeginDelete(w, i)
    \/ \E i \in Items, n \in 1..MaxQuantity : BeginCreate(w, i, n) \/ BeginUpdate(w, i, n)
    \/ LockSlot(w) \/ LockMarked(w) \/ LockOwn(w) \/ LockSiblings(w)
    \/ InsertItem(w) \/ ReadItems(w)
    \/ ChangeStatus(w) \/ CreateItem(w) \/ UpdateItem(w) \/ DeleteItem(w)
    \/ Rollback(w)

Spec == Init /\ [][Next]_vars
----------------------------------------------------------------------------
(* Properties *)

\* Whatever cancellations, completions and item edits interleave, a departure's
\* free seats and the booking's allocations add up to its capacity
\* (releaseAllocationCapacity, syncAllocationQuantity, deleteItem).
SeatsConserved == \A s \in Slots : remaining[s] + Claim(Consuming, s) = Seats

\* updateItem and deleteItem leave the items of a cancelled booking alone, even
\* those requested before the cancellation (bookingAllowsItemMutation).
ItemsOfCancelledAreKept ==
  [][booking.status = "cancelled" => \A i \in Present : item'[i] = item[i]]_vars

\* A cancelled booking claims no seat, though completions, overrides and edits
\* that started before the cancellation may commit around it
\* (transitionAllocationsForBookingStatus).
CancelledHoldsNoSeats == booking.status = "cancelled" => Consuming = {}

\* While items neither come nor go, an item's seats move, if at all, by what its
\* quantity moves, though other updates and deletions of the item were requested
\* at the same time (lockBookingItemForCapacityChange).
EditsMoveTogether ==
  [][Present' = Present =>
       \A i \in Present \cap Consuming :
         alloc'[i].quantity # alloc[i].quantity =>
           alloc'[i].quantity - alloc[i].quantity = item'[i].quantity - item[i].quantity]_vars
==============================================================================
