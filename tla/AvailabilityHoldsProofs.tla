----------------------- MODULE AvailabilityHoldsProofs -----------------------
(***************************************************************************)
(* Proofs about AvailabilityHolds, for any departures, holds, tokens and   *)
(* connections, any party size and capacity, and both ways of calling: the *)
(* type invariant, one live hold for a request and for a session, and that *)
(* the sweeps do not deadlock with each other nor with a placement.  For   *)
(* Booking Sessions every commit is a step of SeatLedger, and so no seat   *)
(* of a departure that is counted is minted or lost.                       *)
(***************************************************************************)
EXTENDS AvailabilityHolds, FiniteSetTheorems, TLAPS

\* remaining_pax tells the seats left.
Numbered(row) == ~row.unlimited /\ row.remaining # None

SlotsTyped == /\ slot \in [Slots -> SlotRow] /\ counted \subseteq Slots
              /\ \A s \in counted : Numbered(slot[s])

Used(h) == hold[h].state # "unused"

\* A hold that was ever placed is somebody's, somewhere.
HoldsTyped == /\ hold \in [Holds -> HoldRow]
              /\ \A h \in Holds : Used(h) => /\ hold[h].token \in Tokens /\ hold[h].slot \in Slots
                                             /\ hold[h].pax \in 1..MaxPax
BookingsTyped == /\ booking \in [Tokens -> Allocation]
                 /\ \A t \in Tokens : booking[t].state = "live" => booking[t].slot \in Slots

\* What the transaction x has read and locked, and what it may rely on.
HasArguments(x) ==
  /\ x.op = "idle" => x = NoTransaction
  /\ x.op \in {"place", "rehold", "book"} => x.token \in Tokens /\ x.slot \in Slots /\ x.pax \in 1..MaxPax
  /\ x.op \in {"extend", "release"} => x.token \in Tokens
  /\ x.op = "extend" => x.row \in Holds
  /\ x.op \in {"place", "extend"} => ~SessionFlow /\ x.rows = {} /\ x.todo = {}
  /\ x.op = "place" => x.slots = {x.slot}
  /\ x.op = "rehold" => SessionFlow
  /\ x.op \in {"rehold", "release", "reap"} => x.row = None
  /\ x.op = "book" /\ x.row # None => x.row \in x.rows
  /\ x.op = "reap" => x.token = None

\* The row locks keep the holds alive.
RowsAreLive(x) == \A h \in x.rows : Live(h)

\* The lock on the departure keeps the answer to whether there is a hold.
PlaceKnows(x) ==
  x.op = "place" => /\ x.row = None => LiveOf(x.token) \cap On(x.slot) = {}
                    /\ x.row # None => Used(x.row) /\ hold[x.row].slot = x.slot

\* A sweep locks departures in ascending order, and the holds on them only.
SweepsUpwards(x) ==
  x.op = "reap" => /\ \A s \in x.slots, r \in x.todo : s <= r
                   /\ \A h \in x.rows : hold[h].slot \in x.slots

\* The session's lock keeps the set of its live holds, and that it has no booking.
SessionKnows(x) ==
  SessionFlow => /\ x.op \in {"rehold", "release", "book"} => x.rows = LiveOf(x.token)
                 /\ x.op \in {"rehold", "book"} => booking[x.token].state = "unused"

Good(x) == HasArguments(x) /\ RowsAreLive(x) /\ PlaceKnows(x) /\ SweepsUpwards(x) /\ SessionKnows(x)

\* Locks are exclusive.
Apart(x, y) == /\ x.rows \cap y.rows = {} /\ x.slots \cap y.slots = {}
               /\ SessionFlow /\ x.token = y.token => x.token = None

TransactionsTyped == tx \in [Workers -> Transaction]
TransactionsGood == /\ \A w \in Workers : Good(tx[w])
                    /\ \A w, v \in Workers : w # v => Apart(tx[w], tx[v])

OneOfRequest ==
  \A g, h \in Holds :
    Live(g) /\ Live(h) /\ hold[g].token = hold[h].token /\ hold[g].slot = hold[h].slot => g = h
OneOfSession ==
  SessionFlow => \A g, h \in Holds : Live(g) /\ Live(h) /\ hold[g].token = hold[h].token => g = h

IInv == /\ SlotsTyped /\ HoldsTyped /\ BookingsTyped /\ TransactionsTyped
        /\ TransactionsGood /\ OneOfRequest /\ OneOfSession

----------------------------------------------------------------------------
(* Finite sets of numbers *)

\* More numbers than places: two of them share one.
LEMMA SharedPlace ==
  ASSUME NEW S, IsFiniteSet(S), NEW n \in Int, 0 <= n, n < Cardinality(S), NEW place \in [S -> 1..n]
  PROVE  \E x, y \in S : x # y /\ place[x] = place[y]
<1> DEFINE places == 1..n
<1>1. IsFiniteSet(1..n) /\ Cardinality(1..n) = IF 1 > n THEN 0 ELSE n - 1 + 1
  BY FS_Interval
<1>2. IsFiniteSet(places) /\ Cardinality(places) < Cardinality(S)
  BY <1>1
<1>3. place \in [S -> places]
  OBVIOUS
<1> HIDE DEF places
<1> QED
  BY <1>2, <1>3, FS_PigeonHole

\* A finite set of numbers has a smallest: otherwise the number of members below
\* a member is at least 1 and less than all, and two members would share it.
LEMMA SmallestOf ==
  ASSUME NEW S \in SUBSET Nat, IsFiniteSet(S), S # {}
  PROVE  \E n \in S : \A m \in S : n <= m
<1> DEFINE Below(n) == {m \in S : m < n}
           rank == [n \in S |-> Cardinality(Below(n))]
<1>1. PICK size \in Nat : size = Cardinality(S)
  BY FS_CardinalityType
<1>2. \A n \in S : /\ IsFiniteSet(Below(n)) /\ Cardinality(Below(n)) \in Nat
                   /\ Cardinality(Below(n)) < size
  <2> SUFFICES ASSUME NEW n \in S
               PROVE  /\ IsFiniteSet(Below(n)) /\ Cardinality(Below(n)) \in Nat
                      /\ Cardinality(Below(n)) < size
    OBVIOUS
  <2>1. Below(n) \in SUBSET S /\ Below(n) # S
    OBVIOUS
  <2>2. IsFiniteSet(Below(n)) /\ Cardinality(Below(n)) <= size /\ Cardinality(Below(n)) # size
    BY <1>1, <2>1, FS_Subset
  <2> QED
    BY <2>2, FS_CardinalityType
<1>3. ASSUME NEW a \in S, NEW b \in S, a < b
      PROVE  Cardinality(Below(a)) # Cardinality(Below(b))
  <2>1. \A m \in S : m < a => m < b
    BY <1>3
  <2>2. Below(a) \in SUBSET Below(b)
    BY <2>1
  <2>3. a \in Below(b) /\ a \notin Below(a)
    BY <1>3
  <2>4. IsFiniteSet(Below(b))
    BY <1>2
  <2> HIDE DEF Below
  <2>5. Cardinality(Below(a)) = Cardinality(Below(b)) => Below(a) = Below(b)
    BY <2>2, <2>4, FS_Subset
  <2> QED
    BY <2>3, <2>5
<1>4. rank \in [S -> 1..(size - 1)] => \E x, y \in S : x # y /\ rank[x] = rank[y]
  <2>1. PICK n \in Int : n = size - 1
    OBVIOUS
  <2>2. size # 0
    BY <1>1, FS_EmptySet
  <2>3. 0 <= n /\ n < Cardinality(S)
    BY <1>1, <2>1, <2>2
  <2> HIDE DEF rank
  <2>4. rank \in [S -> 1..n] => \E x, y \in S : x # y /\ rank[x] = rank[y]
    BY <2>3, SharedPlace
  <2> QED
    BY <2>1, <2>4
<1>5. ~(rank \in [S -> 1..(size - 1)])
  <2> SUFFICES ASSUME NEW x \in S, NEW y \in S, x # y, rank[x] = rank[y]
               PROVE  FALSE
    BY <1>4
  <2>1. Cardinality(Below(x)) = Cardinality(Below(y))
    OBVIOUS
  <2>2. x < y \/ y < x
    OBVIOUS
  <2> HIDE DEF rank, Below
  <2> QED
    BY <1>3, <2>1, <2>2
<1>6. PICK n \in S : ~(Cardinality(Below(n)) \in 1..(size - 1))
  BY <1>5
<1>7. Cardinality(Below(n)) = 0
  BY <1>2, <1>6
<1>8. Below(n) = {}
  BY <1>2, <1>7, FS_EmptySet
<1> QED
  BY <1>8
----------------------------------------------------------------------------
USE SlotsAssumption, RowsAssumption, PaxAssumption, FlowAssumption, NoneAssumption

LEMMA TypedIsTypeOK == SlotsTyped /\ HoldsTyped /\ BookingsTyped /\ TransactionsTyped => TypeOK
BY DEF SlotsTyped, Numbered, HoldsTyped, BookingsTyped, TransactionsTyped, TypeOK

LEMMA NoTransactionIsGood ==
  /\ NoTransaction \in Transaction /\ Good(NoTransaction) /\ Good(NoTransaction)'
  /\ \A x : NoTransaction.token # x.token \/ x.token = None
  /\ \A x : Apart(NoTransaction, x) /\ Apart(x, NoTransaction)
BY DEF NoTransaction, Transaction, Good, HasArguments, RowsAreLive, PlaceKnows, SweepsUpwards, SessionKnows, Apart

LEMMA InitIInv == Init => IInv
<1> SUFFICES ASSUME Init PROVE IInv
  OBVIOUS
<1>1. SlotsTyped
  <2>0. InitialPax \in Nat /\ None \notin Nat
    OBVIOUS
  <2>1. ASSUME NEW s \in Slots
        PROVE  /\ slot[s] \in SlotRow
               /\ s \notin Unlimited => ~slot[s].unlimited /\ slot[s].remaining # None
    <3>1. CASE s \in Unlimited
      <4>1. slot[s] = [unlimited |-> TRUE, initial |-> InitialPax, status |-> "open", remaining |-> None]
        BY <3>1, Zenon DEF Init
      <4> QED
        BY <2>0, <3>1, <4>1 DEF SlotRow
    <3>2. CASE s \notin Unlimited
      <4>a. slot[s] = [unlimited |-> s \in Unlimited, initial |-> InitialPax, status |-> "open",
                       remaining |-> IF s \in Unlimited THEN None ELSE InitialPax]
        BY DEF Init
      <4>b. (s \in Unlimited) = FALSE
        BY <3>2
      <4>1. slot[s] = [unlimited |-> FALSE, initial |-> InitialPax, status |-> "open", remaining |-> InitialPax]
        BY <4>a, <4>b, Zenon
      <4>2. InitialPax # None
        BY <2>0
      <4> QED
        BY <2>0, <4>1, <4>2 DEF SlotRow
    <3> QED
      BY <3>1, <3>2
  <2>2. slot \in [Slots -> SlotRow]
    BY <2>1 DEF Init
  <2> QED
    BY <2>1, <2>2 DEF Init, SlotsTyped, Numbered
<1>2. \A h \in Holds : hold[h] = [state |-> "unused", token |-> None, slot |-> None, pax |-> 0, expired |-> FALSE]
  BY DEF Init
<1>3. HoldsTyped
  BY <1>2 DEF Init, HoldsTyped, HoldRow, Used
<1>4. BookingsTyped
  BY DEF Init, BookingsTyped, Allocation
<1>5. TransactionsTyped /\ TransactionsGood
  BY NoTransactionIsGood DEF Init, TransactionsTyped, TransactionsGood
<1>6. OneOfRequest /\ OneOfSession
  BY <1>2 DEF OneOfRequest, OneOfSession, Live
<1> QED
  BY <1>1, <1>3, <1>4, <1>5, <1>6 DEF IInv
----------------------------------------------------------------------------
(* Seats *)

LEMMA SeatsHeldType ==
  ASSUME NEW H \in SUBSET Holds, NEW s
  PROVE  SeatsHeld(H, s) \in Nat
<1>1. IsFiniteSet(H)
  BY FS_Subset
<1>a. IsFiniteSet(1..MaxPax)
  BY FS_Interval
<1>2. IsFiniteSet(H \X (1..MaxPax))
  BY <1>1, <1>a, FS_Product
<1>3. {p \in H \X (1..MaxPax) : hold[p[1]].slot = s /\ p[2] <= hold[p[1]].pax} \in SUBSET (H \X (1..MaxPax))
  OBVIOUS
<1> QED
  BY <1>2, <1>3, FS_Subset, FS_CardinalityType DEF SeatsHeld

\* What the hold service and adjustSlotCapacity make of a row.
LEMMA MovedType ==
  ASSUME NEW row \in SlotRow, NEW d \in Int, row.unlimited \/ row.remaining = None \/ row.remaining + d \in Nat
  PROVE  /\ Moved(row, d) \in SlotRow
         /\ Moved(row, d).initial = row.initial /\ Moved(row, d).status = row.status
         /\ Numbered(row) => Numbered(Moved(row, d)) /\ Moved(row, d).remaining = row.remaining + d
<1>1. CASE row.unlimited \/ row.remaining = None
  BY <1>1 DEF Moved, Numbered
<1>2. CASE ~row.unlimited /\ row.remaining # None
  <2>1. PICK m \in Nat : m = row.remaining + d
    BY <1>2
  <2>2. Moved(row, d) = [row EXCEPT !.remaining = m]
    BY <1>2, <2>1 DEF Moved, SlotRow
  <2>3. m # None
    OBVIOUS
  <2> QED
    BY <2>1, <2>2, <2>3 DEF SlotRow, Numbered
<1> QED
  BY <1>1, <1>2

LEMMA LeftType == \A row \in SlotRow : Left(row) \in Nat /\ (Numbered(row) => Left(row) = row.remaining)
BY DEF Left, SlotRow, Numbered

OnSale(row) == row.status \in {"open", "sold_out"}

LEMMA AdjustedType ==
  ASSUME NEW row \in SlotRow, NEW d \in Int,
         row.unlimited \/ row.status = "cancelled" \/ Left(row) + d \in Nat
  PROVE  /\ Adjusted(row, d) \in SlotRow /\ Adjusted(row, d).initial = row.initial
         /\ OnSale(row) => OnSale(Adjusted(row, d))
         /\ Numbered(row) => Numbered(Adjusted(row, d))
         /\ Numbered(row) /\ row.status # "cancelled" => Adjusted(row, d).remaining = row.remaining + d
<1>1. CASE row.unlimited \/ row.status = "cancelled"
  BY <1>1 DEF Adjusted, Numbered
<1>2. CASE ~row.unlimited /\ row.status # "cancelled"
  <2>1. PICK m \in Nat : m = Left(row) + d
    BY <1>2
  <2>2. PICK status \in {"open", "sold_out", "closed"} :
          /\ status = IF m = 0 /\ row.status = "open" THEN "sold_out"
                      ELSE IF m > 0 /\ row.status = "sold_out" THEN "open" ELSE row.status
          /\ OnSale(row) => status \in {"open", "sold_out"}
    BY <1>2 DEF SlotRow, OnSale
  <2>3. Adjusted(row, d) = [row EXCEPT !.remaining = m, !.status = status]
    BY <1>2, <2>1, <2>2 DEF Adjusted, SlotRow
  <2>4. /\ [row EXCEPT !.remaining = m, !.status = status] \in SlotRow
        /\ [row EXCEPT !.remaining = m, !.status = status].initial = row.initial
        /\ [row EXCEPT !.remaining = m, !.status = status].unlimited = row.unlimited
        /\ [row EXCEPT !.remaining = m, !.status = status].remaining = m
        /\ [row EXCEPT !.remaining = m, !.status = status].status = status
    BY DEF SlotRow
  <2>5. m # None
    OBVIOUS
  <2> QED
    BY <2>1, <2>2, <2>3, <2>4, <2>5, LeftType DEF Numbered, OnSale
<1> QED
  BY <1>1, <1>2

\* One row is written, or the whole table.
LEMMA RowWritten ==
  ASSUME SlotsTyped, NEW s \in Slots, NEW row \in SlotRow, Numbered(slot[s]) => Numbered(row),
         slot' = [slot EXCEPT ![s] = row], counted' \subseteq counted
  PROVE  SlotsTyped'
BY DEF SlotsTyped, Numbered

LEMMA TableWritten ==
  ASSUME SlotsTyped, NEW table \in [Slots -> SlotRow], \A s \in Slots : Numbered(slot[s]) => Numbered(table[s]),
         slot' = table, counted' = counted
  PROVE  SlotsTyped'
BY DEF SlotsTyped, Numbered

\* The table and then a row of it.
LEMMA TableAndRowWritten ==
  ASSUME SlotsTyped, NEW table \in [Slots -> SlotRow], \A r \in Slots : Numbered(slot[r]) => Numbered(table[r]),
         NEW s \in Slots, NEW row \in SlotRow, Numbered(table[s]) => Numbered(row),
         slot' = [table EXCEPT ![s] = row], counted' = counted
  PROVE  SlotsTyped'
<1>1. PICK new \in [Slots -> SlotRow] : new = [table EXCEPT ![s] = row]
  OBVIOUS
<1>2. \A r \in Slots : Numbered(slot[r]) => Numbered(new[r])
  BY <1>1
<1> QED
  BY <1>1, <1>2, TableWritten

\* Departures after the holds H are returned to them.
LEMMA RestoredType ==
  ASSUME SlotsTyped, NEW H \in SUBSET Holds
  PROVE  /\ Restored(H) \in [Slots -> SlotRow]
         /\ \A s \in Slots :
              /\ Restored(H)[s].initial = slot[s].initial
              /\ Numbered(slot[s]) => /\ Numbered(Restored(H)[s])
                                     /\ Restored(H)[s].remaining = slot[s].remaining + SeatsHeld(H, s)
<1>1. ASSUME NEW s \in Slots
      PROVE  /\ Restored(H)[s] \in SlotRow /\ Restored(H)[s].initial = slot[s].initial
             /\ Numbered(slot[s]) => /\ Numbered(Restored(H)[s])
                                    /\ Restored(H)[s].remaining = slot[s].remaining + SeatsHeld(H, s)
  <2>1. slot[s] \in SlotRow /\ SeatsHeld(H, s) \in Nat
    BY SeatsHeldType DEF SlotsTyped
  <2>2. PICK row \in SlotRow, d \in Nat : row = slot[s] /\ d = SeatsHeld(H, s)
    BY <2>1
  <2>3. row.remaining = None \/ row.remaining + d \in Nat
    BY DEF SlotRow
  <2>4. Restored(H)[s] = Moved(row, d)
    BY <2>2 DEF Restored
  <2> QED
    BY <2>2, <2>3, <2>4, MovedType
<1> QED
  BY <1>1 DEF Restored

LEMMA BackToSaleType ==
  ASSUME SlotsTyped, NEW H \in SUBSET Holds
  PROVE  /\ BackToSale(H) \in [Slots -> SlotRow]
         /\ \A s \in Slots :
              /\ BackToSale(H)[s].initial = slot[s].initial
              /\ OnSale(slot[s]) => OnSale(BackToSale(H)[s])
              /\ Numbered(slot[s]) => Numbered(BackToSale(H)[s])
              /\ Sellable(SlotsOf(H)) /\ Numbered(slot[s]) =>
                   BackToSale(H)[s].remaining = slot[s].remaining + SeatsHeld(H, s)
<1>1. ASSUME NEW s \in Slots
      PROVE  /\ BackToSale(H)[s] \in SlotRow
             /\ BackToSale(H)[s].initial = slot[s].initial
             /\ OnSale(slot[s]) => OnSale(BackToSale(H)[s])
             /\ Numbered(slot[s]) => Numbered(BackToSale(H)[s])
             /\ Sellable(SlotsOf(H)) /\ Numbered(slot[s]) =>
                  BackToSale(H)[s].remaining = slot[s].remaining + SeatsHeld(H, s)
  <2>1. PICK row \in SlotRow, d \in Nat : row = slot[s] /\ d = SeatsHeld(H, s)
    BY SeatsHeldType DEF SlotsTyped
  <2>2. CASE s \in SlotsOf(H)
    <3>1. Left(row) + d \in Nat
      BY LeftType
    <3>2. BackToSale(H)[s] = Adjusted(row, d)
      BY <2>1, <2>2 DEF BackToSale
    <3>3. Sellable(SlotsOf(H)) => row.status # "cancelled"
      BY <2>1, <2>2 DEF Sellable
    <3> QED
      BY <2>1, <3>1, <3>2, <3>3, AdjustedType
  <2>3. CASE s \notin SlotsOf(H)
    <3>1. {p \in H \X (1..MaxPax) : hold[p[1]].slot = s /\ p[2] <= hold[p[1]].pax} = {}
      BY <2>3 DEF SlotsOf
    <3>2. d = 0
      BY <2>1, <3>1, FS_EmptySet DEF SeatsHeld
    <3>3. BackToSale(H)[s] = row
      BY <2>1, <2>3 DEF BackToSale
    <3>4. Numbered(row) => row.remaining + 0 = row.remaining
      BY DEF SlotRow, Numbered
    <3> QED
      BY <2>1, <3>2, <3>3, <3>4
  <2> QED
    BY <2>2, <2>3
<1> QED
  BY <1>1 DEF BackToSale
----------------------------------------------------------------------------
(* What a step does *)

\* A worker opens a transaction or goes on with one: nothing is written.
Continues(w, x) == tx' = [tx EXCEPT ![w] = x] /\ UNCHANGED <<slot, hold, booking, counted>>

KeptHold(h) == /\ hold'[h].state = hold[h].state
               /\ hold'[h].token = hold[h].token /\ hold'[h].slot = hold[h].slot

\* A hold that is neither locked nor new keeps its life, its owner and its
\* place, and the locked ones are over.
KeepsOthers(R, new) ==
  /\ \A h \in R : /\ hold'[h].state \in {"released", "converted"}
                  /\ hold'[h].token = hold[h].token /\ hold'[h].slot = hold[h].slot
  /\ \A h \in Holds \ (R \cup new) : KeptHold(h)

\* A transaction commits: its rows are released or converted, and it places
\* at most one hold.
Commits(w) ==
  /\ tx' = [tx EXCEPT ![w] = NoTransaction]
  /\ \/ KeepsOthers(tx[w].rows, {})
     \/ \E n \in Holds :
          /\ KeepsOthers(tx[w].rows, {n}) /\ hold[n].state = "unused" /\ hold'[n].state = "live"
          /\ hold'[n].token = tx[w].token /\ hold'[n].slot = tx[w].slot
          /\ \/ tx[w].op = "place" /\ tx[w].row = None
             \/ tx[w].op = "rehold"
  /\ \A t \in Tokens : (tx[w].op = "book" /\ t = tx[w].token) \/ booking'[t] = booking[t]

\* Time, an operator, or a cancellation.
Outside ==
  /\ UNCHANGED tx /\ \A h \in Holds : KeptHold(h)
  /\ \A t \in Tokens : booking'[t] = booking[t] \/ booking[t].state = "live"

LEMMA ReleasedHolds ==
  ASSUME HoldsTyped, NEW R \in SUBSET Holds
  PROVE  /\ Released(R) \in [Holds -> HoldRow]
         /\ \A h \in Holds : /\ Released(R)[h].token = hold[h].token /\ Released(R)[h].slot = hold[h].slot
                             /\ Released(R)[h].pax = hold[h].pax
                             /\ Released(R)[h].state = IF h \in R THEN "released" ELSE hold[h].state
<1>1. ASSUME NEW h \in Holds
      PROVE  /\ [hold[h] EXCEPT !.state = "released"] \in HoldRow
             /\ [hold[h] EXCEPT !.state = "released"].token = hold[h].token
             /\ [hold[h] EXCEPT !.state = "released"].slot = hold[h].slot
             /\ [hold[h] EXCEPT !.state = "released"].pax = hold[h].pax
             /\ [hold[h] EXCEPT !.state = "released"].state = "released"
  <2>1. hold[h] \in HoldRow
    BY DEF HoldsTyped
  <2> QED
    BY <2>1 DEF HoldRow
<1> QED
  BY <1>1 DEF Released, HoldsTyped

\* Writing one row of the table of holds.
LEMMA WrittenHold ==
  ASSUME NEW table \in [Holds -> HoldRow], NEW n \in Holds, NEW r \in HoldRow
  PROVE  /\ [table EXCEPT ![n] = r] \in [Holds -> HoldRow]
         /\ [table EXCEPT ![n] = r][n] = r
         /\ \A h \in Holds \ {n} : [table EXCEPT ![n] = r][h] = table[h]
OBVIOUS

LEMMA NewHoldType ==
  ASSUME TransactionsTyped, NEW w \in Workers, HasArguments(tx[w]), tx[w].op \in {"place", "rehold"}
  PROVE  /\ NewHold(w) \in HoldRow
         /\ NewHold(w).state = "live" /\ NewHold(w).token = tx[w].token /\ NewHold(w).slot = tx[w].slot
         /\ NewHold(w).pax = tx[w].pax
         /\ tx[w].token \in Tokens /\ tx[w].slot \in Slots /\ tx[w].pax \in 1..MaxPax
<1>1. tx[w].token \in Tokens /\ tx[w].slot \in Slots /\ tx[w].pax \in 1..MaxPax
  BY DEF HasArguments
<1> QED
  BY <1>1 DEF NewHold, HoldRow

LEMMA WorkerFacts ==
  ASSUME IInv, NEW w \in Workers
  PROVE  /\ tx[w] \in Transaction /\ Good(tx[w]) /\ HasArguments(tx[w])
         /\ tx[w].rows \in SUBSET Holds /\ \A h \in tx[w].rows : Live(h)
         /\ \A x : [tx EXCEPT ![w] = x][w] = x
BY DEF IInv, TransactionsTyped, TransactionsGood, Good, RowsAreLive, Transaction

\* A transaction that ends with the release of its rows.
LEMMA ReleaseCommits ==
  ASSUME IInv, NEW w \in Workers, hold' = Released(tx[w].rows), UNCHANGED booking, End(w)
  PROVE  Commits(w) /\ HoldsTyped'
<1>1. tx[w].rows \in SUBSET Holds /\ HoldsTyped
  BY WorkerFacts DEF IInv
<1>2. /\ hold' \in [Holds -> HoldRow]
      /\ \A h \in Holds : /\ hold'[h].token = hold[h].token /\ hold'[h].slot = hold[h].slot
                          /\ hold'[h].pax = hold[h].pax
                          /\ hold'[h].state = IF h \in tx[w].rows THEN "released" ELSE hold[h].state
  BY <1>1, ReleasedHolds
<1>3. \A h \in tx[w].rows : Used(h) /\ h \in Holds
  BY WorkerFacts DEF Live, Used
<1>4. HoldsTyped'
  BY <1>1, <1>2, <1>3 DEF HoldsTyped, Used
<1> QED
  BY <1>1, <1>2, <1>4 DEF Commits, KeepsOthers, KeptHold, End

LEMMA PlaceNewCommits ==
  ASSUME IInv, NEW w \in Workers, NEW h \in Holds, PlaceNew(w, h)
  PROVE  Commits(w) /\ SlotsTyped' /\ HoldsTyped' /\ BookingsTyped'
<1> USE DEF IInv
<1>1. HasArguments(tx[w]) /\ tx[w].op = "place" /\ tx[w].rows = {} /\ hold[h].state = "unused" /\ tx[w].row = None
  BY WorkerFacts DEF PlaceNew, Op, HasArguments
<1>2. /\ NewHold(w) \in HoldRow
      /\ NewHold(w).state = "live" /\ NewHold(w).token = tx[w].token /\ NewHold(w).slot = tx[w].slot
      /\ NewHold(w).pax = tx[w].pax
      /\ tx[w].token \in Tokens /\ tx[w].slot \in Slots /\ tx[w].pax \in 1..MaxPax
  BY <1>1, NewHoldType
<1>3. /\ hold' = [hold EXCEPT ![h] = NewHold(w)] /\ hold \in [Holds -> HoldRow]
      /\ UNCHANGED booking /\ tx' = [tx EXCEPT ![w] = NoTransaction]
  BY DEF PlaceNew, HoldsTyped, End
<1>4. /\ hold' \in [Holds -> HoldRow] /\ hold'[h] = NewHold(w)
      /\ \A g \in Holds \ {h} : hold'[g] = hold[g]
  BY <1>2, <1>3, WrittenHold
<1>5. HoldsTyped'
  BY <1>2, <1>4 DEF HoldsTyped, Used
<1>6. Commits(w)
  BY <1>1, <1>2, <1>3, <1>4 DEF Commits, KeepsOthers, KeptHold
<1>7. SlotsTyped'
  <2>0. tx[w].pax \in Nat
    BY <1>2
  <2>1. PICK s \in Slots, n \in Nat : s = tx[w].slot /\ n = tx[w].pax
    BY <1>2, <2>0
  <2>2. PICK row \in SlotRow : row = slot[s]
    BY DEF SlotsTyped
  <2>3. row.unlimited \/ row.remaining = None \/ row.remaining + (-n) \in Nat
    BY <2>1, <2>2, LeftType DEF PlaceNew, Fits, Numbered, SlotRow
  <2>4. Moved(row, -n) \in SlotRow /\ (Numbered(row) => Numbered(Moved(row, -n)))
    BY <2>3, MovedType
  <2>5. slot' = [slot EXCEPT ![s] = Moved(row, -n)] /\ counted' = counted
    BY <2>1, <2>2 DEF PlaceNew
  <2> QED
    BY <2>2, <2>4, <2>5, RowWritten
<1> QED
  BY <1>3, <1>5, <1>6, <1>7 DEF BookingsTyped

LEMMA PlaceAgainCommits ==
  ASSUME IInv, NEW w \in Workers, PlaceAgain(w)
  PROVE  Commits(w) /\ SlotsTyped' /\ HoldsTyped' /\ BookingsTyped'
<1> USE DEF IInv
<1>1. /\ HasArguments(tx[w]) /\ PlaceKnows(tx[w]) /\ tx[w].op = "place" /\ tx[w].rows = {} /\ tx[w].row # None
      /\ tx[w].pax \in 1..MaxPax /\ tx[w].slot \in Slots /\ tx[w].row \in Holds
  BY WorkerFacts DEF PlaceAgain, Op, HasArguments, Good, Transaction
<1>2. PICK h \in Holds : h = tx[w].row
  BY <1>1
<1>3. /\ hold[h] \in HoldRow /\ hold \in [Holds -> HoldRow] /\ Used(h)
      /\ hold[h].token \in Tokens /\ hold[h].slot \in Slots
  BY <1>1, <1>2 DEF HoldsTyped, PlaceKnows
<1>4. PICK r : r = [hold[h] EXCEPT !.pax = tx[w].pax, !.expired = FALSE]
  OBVIOUS
<1>5. /\ r \in HoldRow /\ r.state = hold[h].state /\ r.token = hold[h].token /\ r.slot = hold[h].slot
      /\ r.pax = tx[w].pax
  <2>1. ASSUME NEW row \in HoldRow, NEW n \in 0..MaxPax
        PROVE  LET new == [row EXCEPT !.pax = n, !.expired = FALSE]
               IN /\ new \in HoldRow /\ new.state = row.state /\ new.token = row.token
                  /\ new.slot = row.slot /\ new.pax = n
    BY <2>1 DEF HoldRow
  <2>2. tx[w].pax \in 0..MaxPax
    BY <1>1
  <2> QED
    BY <1>3, <1>4, <2>1, <2>2
<1>6. /\ hold' = [hold EXCEPT ![h] = r]
      /\ UNCHANGED booking /\ tx' = [tx EXCEPT ![w] = NoTransaction]
  BY <1>2, <1>4 DEF PlaceAgain, End
<1>7. /\ hold' \in [Holds -> HoldRow] /\ hold'[h] = r
      /\ \A g \in Holds \ {h} : hold'[g] = hold[g]
  BY <1>3, <1>5, <1>6, WrittenHold
<1>8. HoldsTyped'
  BY <1>1, <1>3, <1>5, <1>7 DEF HoldsTyped, Used
<1>9. \A g \in Holds : KeptHold(g)
  BY <1>5, <1>7 DEF KeptHold
<1>10. Commits(w)
  BY <1>1, <1>6, <1>9 DEF Commits, KeepsOthers
<1>11. SlotsTyped'
  <2>1. PICK s \in Slots : s = tx[w].slot
    BY <1>1
  <2>2. PICK row \in SlotRow : row = slot[s]
    BY DEF SlotsTyped
  <2>3. PICK delta \in Int : delta = tx[w].pax - hold[h].pax
    BY <1>1, <1>3 DEF HoldRow
  <2>4. /\ delta > 0 => Fits(row, delta)
        /\ slot' = [slot EXCEPT ![s] = Moved(row, -delta)] /\ counted' = counted
    BY <1>2, <2>1, <2>2, <2>3 DEF PlaceAgain
  <2>5. row.unlimited \/ row.remaining = None \/ row.remaining + (-delta) \in Nat
    BY <2>4, LeftType DEF Fits, Numbered, SlotRow
  <2>6. Moved(row, -delta) \in SlotRow /\ (Numbered(row) => Numbered(Moved(row, -delta)))
    BY <2>5, MovedType
  <2> QED
    BY <2>2, <2>4, <2>6, RowWritten
<1> QED
  BY <1>6, <1>8, <1>10, <1>11 DEF BookingsTyped

LEMMA ReholdPlacesCommits ==
  ASSUME IInv, NEW w \in Workers, NEW h \in Holds, ReholdPlaces(w, h)
  PROVE  Commits(w) /\ SlotsTyped' /\ HoldsTyped' /\ BookingsTyped'
<1> USE DEF IInv
<1>1. HasArguments(tx[w]) /\ tx[w].op = "rehold" /\ hold[h].state = "unused" /\ tx[w].rows \in SUBSET Holds
  BY WorkerFacts DEF ReholdPlaces, Op
<1>2. /\ NewHold(w) \in HoldRow
      /\ NewHold(w).state = "live" /\ NewHold(w).token = tx[w].token /\ NewHold(w).slot = tx[w].slot
      /\ NewHold(w).pax = tx[w].pax
      /\ tx[w].token \in Tokens /\ tx[w].slot \in Slots /\ tx[w].pax \in 1..MaxPax
  BY <1>1, NewHoldType
<1>3. /\ hold' = [Released(tx[w].rows) EXCEPT ![h] = NewHold(w)]
      /\ UNCHANGED booking /\ tx' = [tx EXCEPT ![w] = NoTransaction]
  BY DEF ReholdPlaces, End
<1>4. PICK table \in [Holds -> HoldRow] :
        /\ table = Released(tx[w].rows)
        /\ \A g \in Holds : /\ table[g].token = hold[g].token /\ table[g].slot = hold[g].slot
                            /\ table[g].pax = hold[g].pax
                            /\ table[g].state = IF g \in tx[w].rows THEN "released" ELSE hold[g].state
  BY <1>1, ReleasedHolds
<1>5. /\ hold' \in [Holds -> HoldRow] /\ hold'[h] = NewHold(w)
      /\ \A g \in Holds \ {h} : hold'[g] = table[g]
  BY <1>2, <1>3, <1>4, WrittenHold
<1>6. h \notin tx[w].rows /\ \A g \in tx[w].rows : Used(g)
  BY <1>1, WorkerFacts DEF Live, Used
<1>7. HoldsTyped'
  BY <1>2, <1>4, <1>5, <1>6 DEF HoldsTyped, Used
<1>8. KeepsOthers(tx[w].rows, {h})
  BY <1>1, <1>4, <1>5, <1>6 DEF KeepsOthers, KeptHold
<1>9. Commits(w)
  BY <1>1, <1>2, <1>3, <1>5, <1>8 DEF Commits
<1>10. SlotsTyped'
  <2>0. tx[w].pax \in Nat
    BY <1>2
  <2>1. PICK s \in Slots, n \in Nat : s = tx[w].slot /\ n = tx[w].pax
    BY <1>2, <2>0
  <2>2. PICK back \in [Slots -> SlotRow] :
          back = Restored(tx[w].rows) /\ \A r \in Slots : Numbered(slot[r]) => Numbered(back[r])
    BY <1>1, RestoredType
  <2>3. PICK row \in SlotRow : row = back[s]
    OBVIOUS
  <2>4. row.unlimited \/ row.remaining = None \/ row.remaining + (-n) \in Nat
    BY <2>1, <2>2, <2>3, LeftType DEF ReholdPlaces, Fits, Numbered, SlotRow
  <2>5. Moved(row, -n) \in SlotRow /\ (Numbered(row) => Numbered(Moved(row, -n)))
    BY <2>4, MovedType
  <2>6. slot' = [back EXCEPT ![s] = Moved(row, -n)] /\ counted' = counted
    BY <2>1, <2>2, <2>3 DEF ReholdPlaces
  <2> QED
    BY <2>2, <2>3, <2>5, <2>6, TableAndRowWritten
<1> QED
  BY <1>3, <1>7, <1>9, <1>10 DEF BookingsTyped

LEMMA ReleaseOnlyCommits ==
  ASSUME IInv, NEW w \in Workers, ReholdRefused(w) \/ ReleaseWrites(w) \/ ReapWrites(w)
  PROVE  Commits(w) /\ SlotsTyped' /\ HoldsTyped' /\ BookingsTyped'
<1> USE DEF IInv
<1>1. slot' = Restored(tx[w].rows) /\ hold' = Released(tx[w].rows) /\ End(w) /\ UNCHANGED <<booking, counted>>
  BY DEF ReholdRefused, ReleaseWrites, ReapWrites
<1>2. Commits(w) /\ HoldsTyped'
  BY <1>1, ReleaseCommits
<1>3. tx[w].rows \in SUBSET Holds
  BY WorkerFacts
<1>4. PICK back \in [Slots -> SlotRow] :
        back = Restored(tx[w].rows) /\ \A r \in Slots : Numbered(slot[r]) => Numbered(back[r])
  BY <1>3, RestoredType
<1>5. SlotsTyped'
  BY <1>1, <1>4, TableWritten
<1> QED
  BY <1>1, <1>2, <1>5 DEF BookingsTyped

LEMMA ExtendCommits ==
  ASSUME IInv, NEW w \in Workers, ExtendWrites(w)
  PROVE  Commits(w) /\ SlotsTyped' /\ HoldsTyped' /\ BookingsTyped'
<1> USE DEF IInv
<1>1. tx[w].row \in Holds /\ tx[w].rows = {}
  BY WorkerFacts DEF ExtendWrites, Op, HasArguments
<1>2. PICK h \in Holds : h = tx[w].row
  BY <1>1
<1>3. hold[h] \in HoldRow /\ hold \in [Holds -> HoldRow]
  BY DEF HoldsTyped
<1>4. PICK r : r = [hold[h] EXCEPT !.expired = FALSE]
  OBVIOUS
<1>5. r \in HoldRow /\ r.state = hold[h].state /\ r.token = hold[h].token /\ r.slot = hold[h].slot /\ r.pax = hold[h].pax
  BY <1>3, <1>4 DEF HoldRow
<1>6. hold' = [hold EXCEPT ![h] = r] /\ UNCHANGED <<slot, booking, counted>> /\ tx' = [tx EXCEPT ![w] = NoTransaction]
  BY <1>2, <1>4 DEF ExtendWrites, End
<1>7. /\ hold' \in [Holds -> HoldRow] /\ hold'[h] = r
      /\ \A g \in Holds \ {h} : hold'[g] = hold[g]
  BY <1>3, <1>5, <1>6, WrittenHold
<1>8. \A g \in Holds : KeptHold(g) /\ hold'[g].pax = hold[g].pax
  BY <1>5, <1>7 DEF KeptHold
<1>9. HoldsTyped'
  BY <1>7, <1>8 DEF HoldsTyped, Used, KeptHold
<1> QED
  BY <1>1, <1>6, <1>8, <1>9 DEF Commits, KeepsOthers, SlotsTyped, Numbered, BookingsTyped

LEMMA AllocatedBooking ==
  ASSUME BookingsTyped, NEW t \in Tokens, NEW s \in Slots, NEW n \in 0..MaxPax, Allocate(t, s, n)
  PROVE  BookingsTyped' /\ \A u \in Tokens : u = t \/ booking'[u] = booking[u]
<1>1. [state |-> "live", slot |-> s, pax |-> n] \in Allocation
  BY DEF Allocation
<1> QED
  BY <1>1 DEF BookingsTyped, Allocate

LEMMA BookFromHoldCommits ==
  ASSUME IInv, NEW w \in Workers, BookFromHold(w)
  PROVE  Commits(w) /\ SlotsTyped' /\ HoldsTyped' /\ BookingsTyped'
<1> USE DEF IInv
<1>1. /\ HasArguments(tx[w]) /\ tx[w].op = "book" /\ tx[w].row # None /\ tx[w].row \in tx[w].rows
      /\ tx[w].rows \in SUBSET Holds /\ tx[w].token \in Tokens
  BY WorkerFacts DEF BookFromHold, Op, HasArguments
<1>2. PICK h \in Holds : h = tx[w].row /\ h \in tx[w].rows
  BY <1>1
<1>3. PICK others \in SUBSET Holds : others = tx[w].rows \ {h}
  BY <1>1
<1>4. /\ hold[h] \in HoldRow /\ Live(h) /\ hold[h].token \in Tokens /\ hold[h].slot \in Slots
      /\ hold[h].pax \in 1..MaxPax /\ \A g \in tx[w].rows : Used(g) /\ Live(g)
  BY <1>2, WorkerFacts DEF HoldsTyped, Live, Used
<1>5. /\ slot' = BackToSale(others)
      /\ hold' = [Released(others) EXCEPT ![h].state = "converted"]
      /\ Allocate(tx[w].token, hold[h].slot, hold[h].pax)
      /\ tx' = [tx EXCEPT ![w] = NoTransaction]
  BY <1>2, <1>3 DEF BookFromHold, End
<1>6. PICK table \in [Holds -> HoldRow] :
        /\ table = Released(others)
        /\ \A g \in Holds : /\ table[g].token = hold[g].token /\ table[g].slot = hold[g].slot
                            /\ table[g].pax = hold[g].pax
                            /\ table[g].state = IF g \in others THEN "released" ELSE hold[g].state
  BY ReleasedHolds
<1>7. /\ table[h] \in HoldRow /\ table[h].token = hold[h].token /\ table[h].slot = hold[h].slot
      /\ table[h].pax = hold[h].pax
  BY <1>6
<1>r. PICK r : r = [table[h] EXCEPT !.state = "converted"]
  OBVIOUS
<1>8. /\ r \in HoldRow /\ r.state = "converted"
      /\ r.token = hold[h].token /\ r.slot = hold[h].slot /\ r.pax = hold[h].pax
  BY <1>7, <1>r DEF HoldRow
<1>9. /\ hold' \in [Holds -> HoldRow] /\ hold'[h] = r
      /\ \A g \in Holds \ {h} : hold'[g] = table[g]
  <2>1. hold' = [table EXCEPT ![h] = r]
    BY <1>5, <1>6, <1>r
  <2> QED
    BY <1>8, <2>1, WrittenHold
<1>10. HoldsTyped'
  <2> SUFFICES ASSUME NEW g \in Holds, hold'[g].state # "unused"
               PROVE  hold'[g].token \in Tokens /\ hold'[g].slot \in Slots /\ hold'[g].pax \in 1..MaxPax
    BY <1>9 DEF HoldsTyped, Used
  <2>1. Used(g)
    <3>1. CASE g \in tx[w].rows
      BY <1>4, <3>1
    <3>2. CASE g \notin tx[w].rows
      BY <1>2, <1>3, <1>6, <1>9, <3>2 DEF Used
    <3> QED
      BY <3>1, <3>2
  <2>2. hold'[g].token = hold[g].token /\ hold'[g].slot = hold[g].slot /\ hold'[g].pax = hold[g].pax
    BY <1>6, <1>8, <1>9
  <2> QED
    BY <2>1, <2>2 DEF HoldsTyped
<1>11. KeepsOthers(tx[w].rows, {})
  <2>1. ASSUME NEW g \in tx[w].rows
        PROVE  /\ hold'[g].state \in {"released", "converted"}
               /\ hold'[g].token = hold[g].token /\ hold'[g].slot = hold[g].slot
    <3>1. CASE g = h
      BY <1>8, <1>9, <3>1
    <3>2. CASE g # h
      <4>1. g \in Holds \ {h} /\ g \in others
        BY <1>1, <1>3, <3>2
      <4>2. hold'[g] = table[g]
        BY <1>9, <4>1
      <4> QED
        BY <1>6, <4>1, <4>2
    <3> QED
      BY <3>1, <3>2
  <2>2. ASSUME NEW g \in Holds \ tx[w].rows PROVE KeptHold(g)
    BY <1>2, <1>3, <1>6, <1>9, <2>2 DEF KeptHold
  <2> QED
    BY <2>1, <2>2 DEF KeepsOthers
<1>12. BookingsTyped' /\ \A u \in Tokens : u = tx[w].token \/ booking'[u] = booking[u]
  <2>1. hold[h].pax \in 0..MaxPax
    BY <1>4
  <2> QED
    BY <1>1, <1>4, <1>5, <2>1, AllocatedBooking
<1>13. Commits(w)
  BY <1>1, <1>5, <1>11, <1>12 DEF Commits
<1>14. SlotsTyped'
  <2>1. PICK back \in [Slots -> SlotRow] :
          back = BackToSale(others) /\ \A q \in Slots : Numbered(slot[q]) => Numbered(back[q])
    BY BackToSaleType
  <2>2. counted' = counted
    BY DEF BookFromHold
  <2> QED
    BY <1>5, <2>1, <2>2, TableWritten
<1> QED
  BY <1>10, <1>12, <1>13, <1>14

LEMMA BookAfreshCommits ==
  ASSUME IInv, NEW w \in Workers, BookAfresh(w)
  PROVE  Commits(w) /\ SlotsTyped' /\ HoldsTyped' /\ BookingsTyped'
<1> USE DEF IInv
<1>1. /\ HasArguments(tx[w]) /\ tx[w].op = "book"
      /\ tx[w].rows \in SUBSET Holds /\ tx[w].token \in Tokens /\ tx[w].slot \in Slots
      /\ tx[w].pax \in 1..MaxPax /\ tx[w].pax \in 0..MaxPax
  BY WorkerFacts DEF BookAfresh, Op, HasArguments
<1>2. /\ hold' = Released(tx[w].rows) /\ Allocate(tx[w].token, tx[w].slot, tx[w].pax)
      /\ tx' = [tx EXCEPT ![w] = NoTransaction]
  BY DEF BookAfresh, End
<1>3. /\ hold' \in [Holds -> HoldRow]
      /\ \A g \in Holds : /\ hold'[g].token = hold[g].token /\ hold'[g].slot = hold[g].slot
                          /\ hold'[g].pax = hold[g].pax
                          /\ hold'[g].state = IF g \in tx[w].rows THEN "released" ELSE hold[g].state
  BY <1>1, <1>2, ReleasedHolds
<1>4. \A g \in tx[w].rows : Used(g) /\ g \in Holds
  BY WorkerFacts DEF Live, Used
<1>5. HoldsTyped'
  BY <1>3, <1>4 DEF HoldsTyped, Used
<1>6. KeepsOthers(tx[w].rows, {})
  BY <1>1, <1>3 DEF KeepsOthers, KeptHold
<1>7. BookingsTyped' /\ \A u \in Tokens : u = tx[w].token \/ booking'[u] = booking[u]
  BY <1>1, <1>2, AllocatedBooking
<1>8. Commits(w)
  BY <1>1, <1>2, <1>6, <1>7 DEF Commits
<1>9. SlotsTyped'
  <2>1. PICK s \in Slots, n \in Nat : s = tx[w].slot /\ n = tx[w].pax
    BY <1>1
  <2>2. PICK back \in [Slots -> SlotRow] :
          back = BackToSale(tx[w].rows) /\ \A r \in Slots : Numbered(slot[r]) => Numbered(back[r])
    BY <1>1, BackToSaleType
  <2>3. PICK row \in SlotRow : row = back[s]
    OBVIOUS
  <2>4. row.unlimited \/ Left(row) + (-n) \in Nat
    BY <2>1, <2>2, <2>3, LeftType DEF BookAfresh, Fits
  <2>5. Adjusted(row, -n) \in SlotRow /\ (Numbered(row) => Numbered(Adjusted(row, -n)))
    BY <2>4, AdjustedType
  <2>6. slot' = [back EXCEPT ![s] = Adjusted(row, -n)] /\ counted' = counted
    BY <2>1, <2>2, <2>3 DEF BookAfresh
  <2> QED
    BY <2>2, <2>3, <2>5, <2>6, TableAndRowWritten
<1> QED
  BY <1>5, <1>7, <1>8, <1>9

LEMMA CancelIsOutside ==
  ASSUME IInv, NEW t \in Tokens, CancelBooking(t)
  PROVE  Outside /\ SlotsTyped' /\ HoldsTyped' /\ BookingsTyped'
<1> USE DEF IInv
<1>1. PICK s \in Slots : s = booking[t].slot
  BY DEF CancelBooking, BookingsTyped
<1>2. booking[t] \in Allocation /\ booking \in [Tokens -> Allocation] /\ booking[t].state = "live"
  BY DEF BookingsTyped, CancelBooking
<1>3. UNCHANGED <<hold, tx>> /\ booking' = [booking EXCEPT ![t].state = "released"]
  BY DEF CancelBooking
<1>4. [booking[t] EXCEPT !.state = "released"] \in Allocation /\ [booking[t] EXCEPT !.state = "released"].state = "released"
  BY <1>2 DEF Allocation
<1>5. BookingsTyped'
  BY <1>2, <1>3, <1>4 DEF BookingsTyped
<1>6. Outside
  BY <1>2, <1>3 DEF Outside, KeptHold
<1>7. SlotsTyped'
  <2>1. PICK row \in SlotRow, n \in Nat : row = slot[s] /\ n = booking[t].pax
    BY <1>2 DEF SlotsTyped, Allocation
  <2>2. Left(row) + n \in Nat
    BY LeftType
  <2>3. Adjusted(row, n) \in SlotRow /\ (Numbered(row) => Numbered(Adjusted(row, n)))
    BY <2>2, AdjustedType
  <2>4. slot' = [slot EXCEPT ![s] = Adjusted(row, n)] /\ counted' \subseteq counted
    BY <1>1, <2>1 DEF CancelBooking
  <2> QED
    BY <2>1, <2>3, <2>4, RowWritten
<1>8. HoldsTyped'
  BY <1>3 DEF HoldsTyped, Used
<1> QED
  BY <1>5, <1>6, <1>7, <1>8

\* What updateSlot makes of remaining_pax.
LEMMA RebalancedType ==
  ASSUME SlotsTyped, NEW s \in Slots, NEW u \in BOOLEAN \cup {None}, NEW n \in CapacityChoices \cup {None}
  PROVE  /\ Rebalanced(s, u, n) \in Nat \cup {None}
         /\ u # TRUE /\ Numbered(slot[s]) => Rebalanced(s, u, n) # None
         /\ u # TRUE /\ n # None => Consumed(s, n) \in Nat /\ Rebalanced(s, u, n) = AtLeast(n - Consumed(s, n), 0)
<1>1. slot[s] \in SlotRow
  BY DEF SlotsTyped
<1>2. PICK given \in Nat, left \in Nat \cup {None} : given = slot[s].initial /\ left = slot[s].remaining
  BY <1>1 DEF SlotRow
<1>3. n # None => n \in Nat
  OBVIOUS
<1>4. n # None => OrElse(left, n) \in Nat
  BY <1>3 DEF OrElse
<1>5. n # None => Consumed(s, n) \in Nat
  BY <1>2, <1>4 DEF Consumed, AtLeast
<1>6. n # None => AtLeast(n - Consumed(s, n), 0) \in Nat
  BY <1>3, <1>5 DEF AtLeast
<1> QED
  BY <1>2, <1>5, <1>6 DEF Rebalanced, Numbered

LEMMA EditsAreOutside ==
  ASSUME IInv, \/ \E s \in Slots, u \in UnlimitedChoices \cup {None}, n \in CapacityChoices \cup {None} : EditCapacity(s, u, n)
               \/ \E s \in Slots, status \in StatusChoices : EditStatus(s, status)
  PROVE  Outside /\ SlotsTyped' /\ HoldsTyped' /\ BookingsTyped'
<1> USE DEF IInv
<1>1. UNCHANGED <<hold, booking, tx>>
  BY DEF EditCapacity, EditStatus
<1>2. ASSUME NEW s \in Slots, NEW u \in UnlimitedChoices \cup {None}, NEW n \in CapacityChoices \cup {None},
             EditCapacity(s, u, n)
      PROVE  SlotsTyped'
  <2>1. slot \in [Slots -> SlotRow] /\ slot[s] \in SlotRow /\ u \in BOOLEAN \cup {None}
    BY UnlimitedChoicesAssumption DEF SlotsTyped
  <2>2. PICK m \in Nat \cup {None} : m = Rebalanced(s, u, n) /\ (u # TRUE /\ Numbered(slot[s]) => m # None)
    BY <2>1, RebalancedType
  <2>3. PICK unlimited \in BOOLEAN : unlimited = OrElse(u, slot[s].unlimited)
    BY <2>1 DEF OrElse, SlotRow
  <2>4. PICK given \in Nat : given = OrElse(n, slot[s].initial)
    BY <2>1 DEF OrElse, SlotRow
  <2>5. PICK row : row = [slot[s] EXCEPT !.unlimited = unlimited, !.initial = given, !.remaining = m]
    OBVIOUS
  <2>6. row \in SlotRow /\ row.unlimited = unlimited /\ row.remaining = m
    BY <2>1, <2>5 DEF SlotRow
  <2>7. slot' = [slot EXCEPT ![s] = row]
    BY <1>2, <2>1, <2>2, <2>3, <2>4, <2>5 DEF EditCapacity
  <2>8. slot' \in [Slots -> SlotRow] /\ \A r \in Slots : slot'[r] = IF r = s THEN row ELSE slot[r]
    BY <2>1, <2>6, <2>7
  <2>9. counted' \subseteq counted /\ (u = TRUE => s \notin counted')
    BY <1>2 DEF EditCapacity
  <2>10. u # TRUE /\ Numbered(slot[s]) => Numbered(row)
    BY <2>1, <2>2, <2>3, <2>6 DEF Numbered, OrElse
  <2>11. \A r \in counted' : Numbered(slot'[r])
    BY <2>8, <2>9, <2>10 DEF SlotsTyped
  <2> QED
    BY <2>8, <2>9, <2>11 DEF SlotsTyped, Numbered
<1>3. ASSUME NEW s \in Slots, NEW status \in StatusChoices, EditStatus(s, status) PROVE SlotsTyped'
  <2>1. slot \in [Slots -> SlotRow] /\ slot[s] \in SlotRow
    BY DEF SlotsTyped
  <2>2. [slot[s] EXCEPT !.status = status] \in SlotRow
    BY <2>1, StatusChoicesAssumption DEF SlotRow
  <2>3. Numbered(slot[s]) => Numbered([slot[s] EXCEPT !.status = status])
    BY <2>1 DEF SlotRow, Numbered
  <2>4. slot' = [slot EXCEPT ![s] = [slot[s] EXCEPT !.status = status]] /\ counted' = counted
    BY <1>3 DEF EditStatus
  <2> QED
    BY <2>2, <2>3, <2>4, RowWritten
<1> QED
  BY <1>1, <1>2, <1>3 DEF Outside, KeptHold, HoldsTyped, BookingsTyped, Used

LEMMA ExpiryIsOutside ==
  ASSUME IInv, NEW h \in Holds, HoldExpires(h)
  PROVE  Outside /\ SlotsTyped' /\ HoldsTyped' /\ BookingsTyped'
<1> USE DEF IInv
<1>1. hold[h] \in HoldRow /\ hold \in [Holds -> HoldRow]
  BY DEF HoldsTyped
<1>2. PICK r : r = [hold[h] EXCEPT !.expired = TRUE]
  OBVIOUS
<1>3. r \in HoldRow /\ r.state = hold[h].state /\ r.token = hold[h].token /\ r.slot = hold[h].slot /\ r.pax = hold[h].pax
  BY <1>1, <1>2 DEF HoldRow
<1>4. hold' = [hold EXCEPT ![h] = r] /\ UNCHANGED <<slot, booking, tx, counted>>
  BY <1>2 DEF HoldExpires
<1>5. /\ hold' \in [Holds -> HoldRow] /\ hold'[h] = r
      /\ \A g \in Holds \ {h} : hold'[g] = hold[g]
  BY <1>1, <1>3, <1>4, WrittenHold
<1>6. \A g \in Holds : KeptHold(g) /\ hold'[g].pax = hold[g].pax
  BY <1>3, <1>5 DEF KeptHold
<1>7. HoldsTyped'
  BY <1>5, <1>6 DEF HoldsTyped, Used, KeptHold
<1> QED
  BY <1>4, <1>6, <1>7 DEF Outside, SlotsTyped, Numbered, BookingsTyped
----------------------------------------------------------------------------
(* Transactions that go on *)

\* The departure that comes next in a set of them.
LEMMA MinOfSlots ==
  ASSUME NEW S \in SUBSET Slots, S # {}
  PROVE  Min(S) \in S /\ Min(S) \in Slots /\ \A r \in S : Min(S) <= r
<1>1. IsFiniteSet(S) /\ S \in SUBSET Nat
  BY FS_Subset
<1> QED
  BY <1>1, SmallestOf DEF Min

LEMMA WantsSlotType ==
  ASSUME IInv, NEW w \in Workers
  PROVE  /\ WantsSlot(w) \subseteq Slots
         /\ tx[w].todo # {} => Min(tx[w].todo) \in Slots
         /\ Op(w, "reap") => \A s \in WantsSlot(w) : tx[w].todo # {} /\ s = Min(tx[w].todo)
         /\ WantsSlot(w) # {} => tx[w].op \in {"rehold", "release", "reap", "book"}
<1>1. HasArguments(tx[w]) /\ tx[w].todo \in SUBSET Slots /\ tx[w].op \in {"idle", "place", "rehold", "extend", "release", "reap", "book"}
  BY WorkerFacts DEF Transaction
<1>2. tx[w].todo # {} => Min(tx[w].todo) \in Slots
  BY <1>1, MinOfSlots
<1> QED
  BY <1>1, <1>2 DEF WantsSlot, HasArguments, Op, NoTransaction

LEMMA LiveAreTyped ==
  ASSUME HoldsTyped, NEW t \in Tokens
  PROVE  /\ LiveOf(t) \in SUBSET Holds /\ SlotsOf(LiveOf(t)) \in SUBSET Slots
         /\ SlotsOf(Expired) \in SUBSET Slots
         /\ \A h \in LiveOf(t) : Live(h) /\ Used(h) /\ SlotsOf(LiveOf(t) \ {h}) \in SUBSET Slots
<1>1. \A h \in Holds : Live(h) => Used(h) /\ hold[h].slot \in Slots
  BY DEF HoldsTyped, Live, Used
<1> QED
  BY <1>1 DEF LiveOf, SlotsOf, Expired

\* What a worker does next, and that it is entitled to it.
GoesOn(w) == \E x \in Transaction : /\ Continues(w, x) /\ Good(x)
                                    /\ \A v \in Workers : v # w => Apart(x, tx[v])

LEMMA BeginGoesOn ==
  ASSUME IInv, NEW w \in Workers,
         \/ BeginReap(w)
         \/ \E t \in Tokens, s \in Slots, n \in 1..MaxPax :
              BeginPlace(w, t, s, n) \/ BeginRehold(w, t, s, n) \/ BeginBook(w, t, s, n)
         \/ \E t \in Tokens : BeginExtend(w, t) \/ BeginRelease(w, t)
  PROVE  GoesOn(w)
<1> USE DEF IInv
<1>0. \A v \in Workers : tx[v] \in Transaction
  BY WorkerFacts
<1>1. ASSUME NEW t \in Tokens, NEW s \in Slots, NEW n \in 1..MaxPax, BeginPlace(w, t, s, n) PROVE GoesOn(w)
  <2>1. PICK h \in (LiveOf(t) \cap On(s)) \cup {None} :
          /\ ~SessionFlow /\ SlotFree(s)
          /\ h = None => LiveOf(t) \cap On(s) = {}
          /\ Begin(w, "place", t, s, n, h, {}, {s}, {}) /\ UNCHANGED <<slot, hold, booking, counted>>
    BY <1>1 DEF BeginPlace
  <2>2. PICK x : x = [op |-> "place", token |-> t, slot |-> s, pax |-> n, row |-> h,
                      rows |-> {}, slots |-> {s}, todo |-> {}]
    OBVIOUS
  <2>3. h \in Holds => Used(h) /\ hold[h].slot = s
    BY <2>1 DEF LiveOf, On, Live, Used
  <2>4. x \in Transaction
    BY <2>1, <2>2 DEF Transaction, LiveOf
  <2>5. Good(x)
    BY <2>1, <2>2, <2>3 DEF Good, HasArguments, RowsAreLive, PlaceKnows, SweepsUpwards, SessionKnows, LiveOf
  <2>6. \A v \in Workers : Apart(x, tx[v])
    BY <2>1, <2>2 DEF Apart, SlotFree
  <2> QED
    BY <2>1, <2>2, <2>4, <2>5, <2>6 DEF GoesOn, Continues, Begin
<1>2. ASSUME NEW t \in Tokens, NEW s \in Slots, NEW n \in 1..MaxPax, BeginRehold(w, t, s, n) PROVE GoesOn(w)
  <2>1. /\ SessionFlow /\ SessionFree(t) /\ booking[t].state = "unused" /\ RowsFree(w, LiveOf(t))
        /\ UNCHANGED <<slot, hold, booking, counted>>
    BY <1>2 DEF BeginRehold
  <2>2. PICK x : x = [op |-> "rehold", token |-> t, slot |-> s, pax |-> n, row |-> None,
                      rows |-> LiveOf(t), slots |-> {}, todo |-> SlotsOf(LiveOf(t))]
    OBVIOUS
  <2>3. tx' = [tx EXCEPT ![w] = x]
    BY <1>2, <2>2 DEF BeginRehold, Begin
  <2>4. x \in Transaction
    BY <2>2, LiveAreTyped DEF Transaction
  <2>5. Good(x)
    BY <2>1, <2>2, LiveAreTyped DEF Good, HasArguments, RowsAreLive, PlaceKnows, SweepsUpwards, SessionKnows
  <2>6. \A v \in Workers : v # w => Apart(x, tx[v])
    BY <2>1, <2>2 DEF Apart, RowsFree, SessionFree
  <2> QED
    BY <2>1, <2>3, <2>4, <2>5, <2>6 DEF GoesOn, Continues
<1>3. ASSUME NEW t \in Tokens, NEW s \in Slots, NEW n \in 1..MaxPax, BeginBook(w, t, s, n) PROVE GoesOn(w)
  <2>1. PICK h \in LiveOf(t) \cup {None} :
          /\ SessionFree(t) /\ booking[t].state = "unused" /\ RowsFree(w, LiveOf(t))
          /\ Begin(w, "book", t, s, n, h, LiveOf(t), {}, SlotsOf(LiveOf(t) \ {h}))
          /\ UNCHANGED <<slot, hold, booking, counted>>
    BY <1>3 DEF BeginBook
  <2>2. PICK x : x = [op |-> "book", token |-> t, slot |-> s, pax |-> n, row |-> h,
                      rows |-> LiveOf(t), slots |-> {}, todo |-> SlotsOf(LiveOf(t) \ {h})]
    OBVIOUS
  <2>3. tx' = [tx EXCEPT ![w] = x]
    BY <2>1, <2>2 DEF Begin
  <2>4. SlotsOf(LiveOf(t) \ {h}) \in SUBSET Slots
    BY LiveAreTyped DEF SlotsOf
  <2>a. LiveOf(t) \in SUBSET Holds /\ h \in Holds \cup {None} /\ n \in 0..MaxPax
    BY <2>1, LiveAreTyped
  <2>5. x \in Transaction
    BY <2>2, <2>4, <2>a DEF Transaction
  <2>6. Good(x)
    BY <2>1, <2>2, LiveAreTyped DEF Good, HasArguments, RowsAreLive, PlaceKnows, SweepsUpwards, SessionKnows
  <2>7. \A v \in Workers : v # w => Apart(x, tx[v])
    BY <2>1, <2>2 DEF Apart, RowsFree, SessionFree
  <2> QED
    BY <2>1, <2>3, <2>5, <2>6, <2>7 DEF GoesOn, Continues
<1>4. ASSUME NEW t \in Tokens, BeginExtend(w, t) PROVE GoesOn(w)
  <2>1. PICK h \in LiveOf(t) : /\ ~SessionFlow /\ Begin(w, "extend", t, None, 0, h, {}, {}, {})
                               /\ UNCHANGED <<slot, hold, booking, counted>>
    BY <1>4 DEF BeginExtend
  <2>2. PICK x : x = [op |-> "extend", token |-> t, slot |-> None, pax |-> 0, row |-> h,
                      rows |-> {}, slots |-> {}, todo |-> {}]
    OBVIOUS
  <2>3. tx' = [tx EXCEPT ![w] = x] /\ h \in Holds
    BY <2>1, <2>2 DEF Begin, LiveOf
  <2>4. x \in Transaction
    BY <2>2, <2>3 DEF Transaction
  <2>5. Good(x) /\ \A v \in Workers : v # w => Apart(x, tx[v])
    BY <2>1, <2>2, <2>3 DEF Good, HasArguments, RowsAreLive, PlaceKnows, SweepsUpwards, SessionKnows, Apart
  <2> QED
    BY <2>1, <2>3, <2>4, <2>5 DEF GoesOn, Continues
<1>5. ASSUME NEW t \in Tokens, BeginRelease(w, t) PROVE GoesOn(w)
  <2>1. SessionFree(t) /\ RowsFree(w, LiveOf(t)) /\ UNCHANGED <<slot, hold, booking, counted>>
    BY <1>5 DEF BeginRelease
  <2>2. PICK x : x = [op |-> "release", token |-> t, slot |-> None, pax |-> 0, row |-> None,
                      rows |-> LiveOf(t), slots |-> {}, todo |-> SlotsOf(LiveOf(t))]
    OBVIOUS
  <2>3. tx' = [tx EXCEPT ![w] = x]
    BY <1>5, <2>2 DEF BeginRelease, Begin
  <2>4. x \in Transaction
    BY <2>2, LiveAreTyped DEF Transaction
  <2>5. Good(x)
    BY <2>1, <2>2, LiveAreTyped DEF Good, HasArguments, RowsAreLive, PlaceKnows, SweepsUpwards, SessionKnows
  <2>6. \A v \in Workers : v # w => Apart(x, tx[v])
    BY <2>1, <2>2 DEF Apart, RowsFree, SessionFree
  <2> QED
    BY <2>1, <2>3, <2>4, <2>5, <2>6 DEF GoesOn, Continues
<1>6. ASSUME BeginReap(w) PROVE GoesOn(w)
  <2>1. PICK x : x = [op |-> "reap", token |-> None, slot |-> None, pax |-> 0, row |-> None,
                      rows |-> {}, slots |-> {}, todo |-> SlotsOf(Expired)]
    OBVIOUS
  <2>2. tx' = [tx EXCEPT ![w] = x] /\ UNCHANGED <<slot, hold, booking, counted>>
    BY <1>6, <2>1 DEF BeginReap, Begin
  <2>3. SlotsOf(Expired) \in SUBSET Slots
    BY DEF HoldsTyped, Live, Used, Expired, SlotsOf
  <2>4. x \in Transaction
    BY <2>1, <2>3 DEF Transaction
  <2>5. Good(x) /\ \A v \in Workers : v # w => Apart(x, tx[v])
    BY <2>1 DEF Good, HasArguments, RowsAreLive, PlaceKnows, SweepsUpwards, SessionKnows, Apart
  <2> QED
    BY <2>2, <2>4, <2>5 DEF GoesOn, Continues
<1> QED
  BY <1>1, <1>2, <1>3, <1>4, <1>5, <1>6

LEMMA LockSlotGoesOn ==
  ASSUME IInv, NEW w \in Workers, LockSlot(w)
  PROVE  GoesOn(w)
<1>1. PICK y \in Transaction : y = tx[w] /\ Good(y) /\ tx \in [Workers -> Transaction]
  BY WorkerFacts DEF IInv, TransactionsTyped
<1>2. PICK s \in Slots : /\ SlotFree(s) /\ s \in WantsSlot(w)
                         /\ tx' = [tx EXCEPT ![w].slots = @ \cup {s},
                                             ![w].todo = IF Op(w, "reap") THEN @ ELSE @ \ {s}]
                         /\ UNCHANGED <<slot, hold, booking, counted>>
  BY WantsSlotType DEF LockSlot
<1>3. PICK left \in SUBSET y.todo : left = IF y.op = "reap" THEN y.todo ELSE y.todo \ {s}
  OBVIOUS
<1>4. /\ y.op \in {"rehold", "release", "reap", "book"}
      /\ y.op = "reap" => y.todo # {} /\ s = Min(y.todo)
  BY <1>1, <1>2, WantsSlotType DEF Op
<1>5. y.todo \in SUBSET Slots /\ y.slots \in SUBSET Slots
  BY DEF Transaction
<1>6. PICK x : x = [y EXCEPT !.slots = y.slots \cup {s}, !.todo = left]
  OBVIOUS
<1>7. /\ x \in Transaction /\ x.slots = y.slots \cup {s} /\ x.todo = left
      /\ x.op = y.op /\ x.token = y.token /\ x.slot = y.slot /\ x.pax = y.pax /\ x.row = y.row /\ x.rows = y.rows
  BY <1>3, <1>5, <1>6 DEF Transaction
<1>8. tx' = [tx EXCEPT ![w] = x]
  BY <1>1, <1>2, <1>3, <1>6 DEF Op
<1>9. HasArguments(x)
  BY <1>1, <1>4, <1>7 DEF Good, HasArguments
<1>10. SweepsUpwards(x)
  <2> SUFFICES ASSUME y.op = "reap"
               PROVE  /\ \A r \in x.slots, q \in x.todo : r <= q
                      /\ \A h \in x.rows : hold[h].slot \in x.slots
    BY <1>7 DEF SweepsUpwards
  <2>1. /\ \A r \in y.slots, q \in y.todo : r <= q
        /\ \A h \in y.rows : hold[h].slot \in y.slots
    BY <1>1 DEF Good, SweepsUpwards
  <2>2. \A q \in y.todo : s <= q
    BY <1>4, <1>5, MinOfSlots
  <2> QED
    BY <1>3, <1>7, <2>1, <2>2
<1>11. RowsAreLive(x) /\ PlaceKnows(x) /\ SessionKnows(x)
  BY <1>1, <1>4, <1>7 DEF Good, RowsAreLive, PlaceKnows, SessionKnows
<1>12. \A v \in Workers : v # w => Apart(x, tx[v])
  BY <1>1, <1>2, <1>7 DEF IInv, TransactionsGood, Apart, SlotFree
<1> QED
  BY <1>2, <1>7, <1>8, <1>9, <1>10, <1>11, <1>12 DEF GoesOn, Continues, Good

LEMMA ReapRowsGoesOn ==
  ASSUME IInv, NEW w \in Workers, ReapRows(w)
  PROVE  GoesOn(w)
<1>1. PICK y \in Transaction : y = tx[w] /\ Good(y) /\ tx \in [Workers -> Transaction]
  BY WorkerFacts DEF IInv, TransactionsTyped
<1>2. /\ y.op = "reap" /\ y.todo # {} /\ WantsSlot(w) = {} /\ RowsFree(w, SweepRows(w))
      /\ UNCHANGED <<slot, hold, booking, counted>>
      /\ tx' = [tx EXCEPT ![w].rows = @ \cup SweepRows(w), ![w].todo = @ \ {Min(@)}]
  BY <1>1 DEF ReapRows, Op
<1>3. PICK s \in Slots : s = Min(y.todo)
  BY <1>1, <1>2, WantsSlotType
<1>4. s \in y.slots /\ SweepRows(w) = Expired \cap On(s)
  BY <1>1, <1>2, <1>3 DEF WantsSlot, SweepRows, Op
<1>5. PICK H \in SUBSET Holds : H = SweepRows(w)
  BY <1>4 DEF Expired
<1>6. \A h \in H : Live(h) /\ hold[h].slot = s
  BY <1>4, <1>5 DEF Expired, On
<1>7. y.rows \in SUBSET Holds /\ y.todo \in SUBSET Slots
  BY DEF Transaction
<1>8. PICK x : x = [y EXCEPT !.rows = y.rows \cup H, !.todo = y.todo \ {s}]
  OBVIOUS
<1>9. /\ x \in Transaction /\ x.rows = y.rows \cup H /\ x.todo = y.todo \ {s}
      /\ x.op = y.op /\ x.token = y.token /\ x.slot = y.slot /\ x.pax = y.pax /\ x.row = y.row /\ x.slots = y.slots
  BY <1>7, <1>8 DEF Transaction
<1>10. tx' = [tx EXCEPT ![w] = x]
  BY <1>1, <1>2, <1>3, <1>5, <1>8
<1>11. HasArguments(x)
  BY <1>1, <1>2, <1>9 DEF Good, HasArguments
<1>12. SweepsUpwards(x)
  <2>1. /\ \A r \in y.slots, q \in y.todo : r <= q
        /\ \A h \in y.rows : hold[h].slot \in y.slots
    BY <1>1, <1>2 DEF Good, SweepsUpwards
  <2> QED
    BY <1>4, <1>6, <1>9, <2>1 DEF SweepsUpwards
<1>13. RowsAreLive(x) /\ PlaceKnows(x) /\ SessionKnows(x)
  BY <1>1, <1>2, <1>6, <1>9 DEF Good, RowsAreLive, PlaceKnows, SessionKnows
<1>14. \A v \in Workers : v # w => Apart(x, tx[v])
  BY <1>1, <1>2, <1>5, <1>9 DEF IInv, TransactionsGood, Apart, RowsFree
<1> QED
  BY <1>2, <1>9, <1>10, <1>11, <1>12, <1>13, <1>14 DEF GoesOn, Continues, Good

LEMMA RollbackGoesOn ==
  ASSUME IInv, NEW w \in Workers, Rollback(w)
  PROVE  GoesOn(w)
BY NoTransactionIsGood DEF GoesOn, Continues, Rollback, End
----------------------------------------------------------------------------
(* What every step keeps *)

Writes == SlotsTyped' /\ HoldsTyped' /\ BookingsTyped'

LEMMA StepShape ==
  ASSUME IInv, Next
  PROVE  \/ \E w \in Workers : GoesOn(w)
         \/ Writes /\ \E w \in Workers : Commits(w)
         \/ Writes /\ Outside
<1>1. ASSUME NEW w \in Workers, Sweep(w) PROVE GoesOn(w) \/ (Commits(w) /\ Writes)
  BY <1>1, BeginGoesOn, LockSlotGoesOn, ReapRowsGoesOn, ReleaseOnlyCommits DEF Sweep, Writes
<1>2. ASSUME NEW w \in Workers, Caller(w) PROVE GoesOn(w) \/ (Commits(w) /\ Writes)
  <2>1. CASE \/ \E t \in Tokens, s \in Slots, n \in 1..MaxPax :
                  BeginPlace(w, t, s, n) \/ BeginRehold(w, t, s, n) \/ BeginBook(w, t, s, n)
             \/ \E t \in Tokens : BeginExtend(w, t) \/ BeginRelease(w, t)
    BY <2>1, BeginGoesOn
  <2>2. CASE LockSlot(w)
    BY <2>2, LockSlotGoesOn
  <2>3. CASE \E h \in Holds : PlaceNew(w, h) \/ ReholdPlaces(w, h)
    BY <2>3, PlaceNewCommits, ReholdPlacesCommits DEF Writes
  <2>4. CASE PlaceAgain(w) \/ ExtendWrites(w) \/ ReholdRefused(w) \/ ReleaseWrites(w)
    BY <2>4, PlaceAgainCommits, ExtendCommits, ReleaseOnlyCommits DEF Writes
  <2>5. CASE BookFromHold(w) \/ BookAfresh(w)
    BY <2>5, BookFromHoldCommits, BookAfreshCommits DEF Writes
  <2> QED
    BY <1>2, <2>1, <2>2, <2>3, <2>4, <2>5 DEF Caller
<1>3. ASSUME NEW w \in Workers, Rollback(w) PROVE GoesOn(w)
  BY <1>3, RollbackGoesOn
<1> QED
  BY <1>1, <1>2, <1>3, CancelIsOutside, EditsAreOutside, ExpiryIsOutside, EditedAssumption DEF Next, Writes

\* Locks stay exclusive, and workers keep to their places.
LEMMA StepApart ==
  ASSUME IInv, NEW w \in Workers, NEW x \in Transaction, tx' = [tx EXCEPT ![w] = x],
         \A v \in Workers : v # w => Apart(x, tx[v])
  PROVE  /\ TransactionsTyped'
         /\ \A v, u \in Workers : v # u => Apart(tx[v], tx[u])'
<1>1. tx \in [Workers -> Transaction]
  BY DEF IInv, TransactionsTyped
<1>2. tx' \in [Workers -> Transaction] /\ tx'[w] = x /\ \A v \in Workers \ {w} : tx'[v] = tx[v]
  BY <1>1
<1>3. \A v, u \in Workers : v # u => Apart(tx[v], tx[u])
  BY DEF IInv, TransactionsGood
<1>4. ASSUME NEW v \in Workers, NEW u \in Workers, v # u PROVE Apart(tx[v], tx[u])'
  <2>1. CASE v = w
    BY <1>2, <1>4, <2>1 DEF Apart
  <2>2. CASE u = w
    BY <1>2, <1>4, <2>2 DEF Apart
  <2>3. CASE v # w /\ u # w
    BY <1>2, <1>3, <1>4, <2>3 DEF Apart
  <2> QED
    BY <2>1, <2>2, <2>3
<1> QED
  BY <1>2, <1>4 DEF TransactionsTyped

LEMMA GoesOnKeepsIInv ==
  ASSUME IInv, NEW w \in Workers, GoesOn(w)
  PROVE  IInv'
<1>1. PICK x \in Transaction : Continues(w, x) /\ Good(x) /\ \A v \in Workers : v # w => Apart(x, tx[v])
  BY DEF GoesOn
<1>2. tx' = [tx EXCEPT ![w] = x] /\ UNCHANGED <<slot, hold, booking, counted>> /\ tx \in [Workers -> Transaction]
  BY <1>1 DEF Continues, IInv, TransactionsTyped
<1>3. TransactionsTyped' /\ \A v, u \in Workers : v # u => Apart(tx[v], tx[u])'
  BY <1>1, <1>2, StepApart
<1>4. \A v \in Workers : Good(tx[v])'
  <2> SUFFICES ASSUME NEW v \in Workers PROVE Good(tx[v])'
    OBVIOUS
  <2>1. PICK y : y = tx'[v] /\ Good(y)
    BY <1>1, <1>2 DEF IInv, TransactionsGood
  <2> QED
    BY <1>2, <2>1 DEF Good, HasArguments, RowsAreLive, PlaceKnows, SweepsUpwards, SessionKnows,
                      Live, LiveOf, On, Used
<1>5. OneOfRequest' /\ OneOfSession' /\ SlotsTyped' /\ HoldsTyped' /\ BookingsTyped'
  BY <1>2 DEF IInv, OneOfRequest, OneOfSession, SlotsTyped, Numbered, HoldsTyped, BookingsTyped, Live, Used
<1> QED
  BY <1>3, <1>4, <1>5 DEF IInv, TransactionsGood

\* What another worker relies on survives a commit.
LEMMA CommitKeepsGood ==
  ASSUME IInv, NEW w \in Workers, Commits(w), NEW v \in Workers, v # w
  PROVE  Good(tx[v])'
<1>1. PICK y \in Transaction : y = tx[v] /\ Good(y)
  BY WorkerFacts
<1>2. y = tx'[v]
  BY <1>1 DEF Commits, IInv, TransactionsTyped
<1>3. PICK x \in Transaction : x = tx[w] /\ Good(x) /\ Apart(x, y) /\ Apart(y, x)
  BY <1>1, WorkerFacts DEF IInv, TransactionsGood
<1>4. PICK new \in SUBSET Holds :
        /\ KeepsOthers(x.rows, new)
        /\ \A n \in new : /\ hold[n].state = "unused" /\ hold'[n].state = "live"
                          /\ hold'[n].token = x.token /\ hold'[n].slot = x.slot
                          /\ (x.op = "place" /\ x.row = None) \/ x.op = "rehold"
  <2>1. CASE KeepsOthers(x.rows, {})
    BY <2>1
  <2>2. CASE \E n \in Holds :
               /\ KeepsOthers(x.rows, {n}) /\ hold[n].state = "unused" /\ hold'[n].state = "live"
               /\ hold'[n].token = x.token /\ hold'[n].slot = x.slot
               /\ (x.op = "place" /\ x.row = None) \/ x.op = "rehold"
    BY <2>2
  <2> QED
    BY <1>3, <2>1, <2>2 DEF Commits
<1>5. x.rows \in SUBSET Holds /\ y.rows \in SUBSET Holds /\ y.row \in Holds \cup {None}
  BY DEF Transaction
<1>6. /\ \A h \in x.rows : /\ hold'[h].state \in {"released", "converted"}
                           /\ hold'[h].token = hold[h].token /\ hold'[h].slot = hold[h].slot
      /\ \A h \in Holds : h \in x.rows \/ h \in new \/ KeptHold(h)
  BY <1>4 DEF KeepsOthers
<1>7. ASSUME NEW h \in y.rows PROVE KeptHold(h)
  BY <1>1, <1>3, <1>4, <1>5, <1>6 DEF Good, RowsAreLive, Live, Apart
<1>8. RowsAreLive(y)'
  BY <1>1, <1>7 DEF Good, RowsAreLive, Live, KeptHold
<1>9. SweepsUpwards(y)'
  BY <1>1, <1>7 DEF Good, SweepsUpwards, KeptHold
<1>10. PlaceKnows(y)'
  <2> SUFFICES ASSUME y.op = "place" PROVE PlaceKnows(y)'
    BY DEF PlaceKnows
  <2>1. ~SessionFlow /\ y.slots = {y.slot}
    BY <1>1 DEF Good, HasArguments
  <2>2. \A n \in new : hold'[n].slot # y.slot
    BY <1>3, <1>4, <2>1 DEF Good, HasArguments, Apart
  <2>3. ASSUME y.row = None, NEW h \in Holds, Live(h)', hold'[h].token = y.token, hold'[h].slot = y.slot
        PROVE  FALSE
    <3>1. h \notin x.rows /\ h \notin new
      BY <1>6, <2>2, <2>3 DEF Live
    <3>2. Live(h) /\ hold[h].token = y.token /\ hold[h].slot = y.slot
      BY <1>6, <2>3, <3>1 DEF KeptHold, Live
    <3> QED
      BY <1>1, <2>3, <3>2 DEF Good, PlaceKnows, LiveOf, On
  <2>4. ASSUME y.row # None PROVE Used(y.row)' /\ hold'[y.row].slot = y.slot
    <3>1. y.row \in Holds /\ Used(y.row) /\ hold[y.row].slot = y.slot
      BY <1>1, <1>5, <2>4 DEF Good, PlaceKnows
    <3>2. y.row \notin new
      BY <1>4, <3>1 DEF Used
    <3> QED
      BY <1>6, <3>1, <3>2 DEF KeptHold, Used
  <2> QED
    BY <2>3, <2>4 DEF PlaceKnows, LiveOf, On
<1>11. SessionKnows(y)'
  <2> SUFFICES ASSUME SessionFlow, y.op \in {"rehold", "release", "book"}
               PROVE  /\ y.rows = LiveOf(y.token)'
                      /\ y.op \in {"rehold", "book"} => booking'[y.token].state = "unused"
    BY DEF SessionKnows
  <2>1. y.token \in Tokens /\ y.token # x.token
    BY <1>1, <1>3 DEF Good, HasArguments, Apart
  <2>2. y.rows = LiveOf(y.token) /\ (y.op \in {"rehold", "book"} => booking[y.token].state = "unused")
    BY <1>1 DEF Good, SessionKnows
  <2>3. booking'[y.token] = booking[y.token]
    BY <1>3, <2>1 DEF Commits
  <2>4. ASSUME NEW h \in Holds, Live(h)', hold'[h].token = y.token PROVE h \in y.rows
    <3>1. h \notin x.rows /\ h \notin new
      BY <1>4, <1>6, <2>1, <2>4 DEF Live
    <3> QED
      BY <1>6, <2>2, <2>4, <3>1 DEF KeptHold, Live, LiveOf
  <2>5. ASSUME NEW h \in y.rows PROVE Live(h)' /\ hold'[h].token = y.token
    BY <1>7, <2>2, <2>5 DEF LiveOf, Live, KeptHold
  <2> QED
    BY <1>5, <2>2, <2>3, <2>4, <2>5 DEF LiveOf
<1>12. Good(y)'
  BY <1>1, <1>8, <1>9, <1>10, <1>11 DEF Good, HasArguments
<1> QED
  BY <1>2, <1>12 DEF Good, HasArguments, RowsAreLive, PlaceKnows, SweepsUpwards, SessionKnows, LiveOf, Live, On, Used

\* A hold is placed only where its request has none: the lock on the departure,
\* or on the session, has kept that answer since it was read.
LEMMA CommitKeepsOneHold ==
  ASSUME IInv, NEW w \in Workers, Commits(w)
  PROVE  OneOfRequest' /\ OneOfSession'
<1>1. PICK x \in Transaction : x = tx[w] /\ Good(x)
  BY WorkerFacts
<1>2. OneOfRequest /\ OneOfSession
  BY DEF IInv
<1>3. CASE KeepsOthers(x.rows, {})
  <2>1. \A h \in Holds : Live(h)' => Live(h) /\ KeptHold(h)
    BY <1>3 DEF KeepsOthers, KeptHold, Live
  <2> QED
    BY <1>2, <2>1 DEF OneOfRequest, OneOfSession, KeptHold
<1>4. ASSUME NEW n \in Holds,
             /\ KeepsOthers(x.rows, {n}) /\ hold[n].state = "unused" /\ hold'[n].state = "live"
             /\ hold'[n].token = x.token /\ hold'[n].slot = x.slot
             /\ (x.op = "place" /\ x.row = None) \/ x.op = "rehold"
      PROVE  OneOfRequest' /\ OneOfSession'
  <2>1. \A h \in Holds : h # n /\ Live(h)' => Live(h) /\ KeptHold(h) /\ h \notin x.rows
    BY <1>4 DEF KeepsOthers, KeptHold, Live
  <2>2. ASSUME NEW h \in Holds, h # n, Live(h)', hold'[h].token = x.token
        PROVE  hold'[h].slot # x.slot /\ ~SessionFlow
    <3>1. Live(h) /\ hold[h].token = x.token /\ hold'[h].slot = hold[h].slot /\ h \notin x.rows
      BY <2>1, <2>2 DEF KeptHold
    <3>2. CASE x.op = "place" /\ x.row = None
      BY <1>1, <3>1, <3>2 DEF Good, HasArguments, PlaceKnows, LiveOf, On
    <3>3. CASE x.op = "rehold"
      BY <1>1, <3>1, <3>3 DEF Good, HasArguments, SessionKnows, LiveOf
    <3> QED
      BY <1>4, <3>2, <3>3
  <2>3. ASSUME NEW g \in Holds, NEW h \in Holds, Live(g)', Live(h)', hold'[g].token = hold'[h].token, g # h
        PROVE  hold'[g].slot # hold'[h].slot /\ ~SessionFlow
    <3>1. CASE g = n
      BY <1>4, <2>2, <2>3, <3>1
    <3>2. CASE h = n
      BY <1>4, <2>2, <2>3, <3>2
    <3>3. CASE g # n /\ h # n
      BY <1>2, <2>1, <2>3, <3>3 DEF OneOfRequest, OneOfSession, KeptHold
    <3> QED
      BY <3>1, <3>2, <3>3
  <2> QED
    BY <2>3 DEF OneOfRequest, OneOfSession
<1> QED
  BY <1>1, <1>3, <1>4 DEF Commits

LEMMA StepIInv == IInv /\ [Next]_vars => IInv'
<1> SUFFICES ASSUME IInv, [Next]_vars PROVE IInv'
  OBVIOUS
<1>1. CASE UNCHANGED vars
  BY <1>1 DEF vars, IInv, SlotsTyped, Numbered, HoldsTyped, BookingsTyped, TransactionsTyped, TransactionsGood, Good,
              HasArguments, RowsAreLive, PlaceKnows, SweepsUpwards, SessionKnows, Apart,
              OneOfRequest, OneOfSession, Used, Live, LiveOf, On
<1>2. ASSUME NEW w \in Workers, GoesOn(w) PROVE IInv'
  BY <1>2, GoesOnKeepsIInv
<1>3. ASSUME Writes, NEW w \in Workers, Commits(w) PROVE IInv'
  <2>1. TransactionsTyped' /\ \A v, u \in Workers : v # u => Apart(tx[v], tx[u])'
    <3>1. /\ tx' = [tx EXCEPT ![w] = NoTransaction] /\ NoTransaction \in Transaction
          /\ \A v \in Workers : v # w => Apart(NoTransaction, tx[v])
      BY <1>3, NoTransactionIsGood DEF Commits
    <3> QED
      BY <3>1, StepApart
  <2>2. \A v \in Workers : Good(tx[v])'
    <3>1. ASSUME NEW v \in Workers, v # w PROVE Good(tx[v])'
      BY <1>3, <3>1, CommitKeepsGood
    <3>2. tx'[w] = NoTransaction
      BY <1>3 DEF Commits, IInv, TransactionsTyped
    <3>3. Good(tx[w])'
      BY <3>2, NoTransactionIsGood DEF Good, HasArguments, RowsAreLive, PlaceKnows, SweepsUpwards, SessionKnows,
                                       NoTransaction
    <3> QED
      BY <3>1, <3>3
  <2>3. OneOfRequest' /\ OneOfSession'
    BY <1>3, CommitKeepsOneHold
  <2> QED
    BY <1>3, <2>1, <2>2, <2>3 DEF IInv, TransactionsGood, Writes
<1>4. ASSUME Writes, Outside PROVE IInv'
  <2>1. tx' = tx /\ \A h \in Holds : KeptHold(h)
    BY <1>4 DEF Outside
  <2>2. TransactionsTyped' /\ \A v, u \in Workers : v # u => Apart(tx[v], tx[u])'
    BY <2>1 DEF IInv, TransactionsTyped, TransactionsGood, Apart
  <2>3. \A v \in Workers : Good(tx[v])'
    <3> SUFFICES ASSUME NEW v \in Workers PROVE Good(tx[v])'
      OBVIOUS
    <3>1. PICK y \in Transaction : y = tx[v] /\ y = tx'[v] /\ Good(y)
      BY <2>1, WorkerFacts
    <3>2. y.rows \in SUBSET Holds /\ y.row \in Holds \cup {None}
      BY DEF Transaction
    <3>3. \A h \in Holds : /\ Live(h)' <=> Live(h)
                           /\ Used(h)' <=> Used(h)
                           /\ hold'[h].token = hold[h].token /\ hold'[h].slot = hold[h].slot
      BY <2>1 DEF KeptHold, Live, Used
    <3>4. LiveOf(y.token)' = LiveOf(y.token) /\ On(y.slot)' = On(y.slot)
      BY <3>3 DEF LiveOf, On
    <3>5. HasArguments(y)' /\ RowsAreLive(y)' /\ SweepsUpwards(y)'
      BY <3>1, <3>2, <3>3 DEF Good, HasArguments, RowsAreLive, SweepsUpwards
    <3>6. PlaceKnows(y)'
      BY <3>1, <3>2, <3>3, <3>4 DEF Good, PlaceKnows
    <3>7. SessionKnows(y)'
      <4>1. y.op \in {"rehold", "book"} => y.token \in Tokens
        BY <3>1 DEF Good, HasArguments
      <4>2. y.op \in {"rehold", "book"} /\ booking[y.token].state = "unused" => booking'[y.token].state = "unused"
        BY <1>4, <4>1 DEF Outside
      <4> QED
        BY <3>1, <3>4, <4>2 DEF Good, SessionKnows
    <3>8. Good(y)'
      BY <3>5, <3>6, <3>7 DEF Good
    <3> QED
      BY <3>1, <3>8 DEF Good, HasArguments, RowsAreLive, PlaceKnows, SweepsUpwards, SessionKnows, LiveOf, Live, On, Used
  <2>4. OneOfRequest' /\ OneOfSession'
    BY <2>1 DEF IInv, OneOfRequest, OneOfSession, KeptHold, Live
  <2> QED
    BY <1>4, <2>2, <2>3, <2>4 DEF IInv, TransactionsGood, Writes
<1> QED
  BY <1>1, <1>2, <1>3, <1>4, StepShape

LEMMA InvariantHolds == Spec => []IInv
BY InitIInv, StepIInv, PTL DEF Spec
----------------------------------------------------------------------------
(* Theorems *)

\* Whatever interleaves, departures, holds, bookings and transactions are what
\* the tables can hold; no departure is ever sold below zero (the guards of
\* placeAvailabilityHold and adjustSlotCapacity, GREATEST of updateSlot).
THEOREM TypeCorrect == Spec => []TypeOK
<1>1. IInv => TypeOK
  BY TypedIsTypeOK DEF IInv
<1> QED
  BY InvariantHolds, <1>1, PTL

LEMMA AtMostOne ==
  ASSUME NEW S \in SUBSET Holds, \A g, h \in S : g = h
  PROVE  Cardinality(S) <= 1
<1>1. CASE S = {}
  BY <1>1, FS_EmptySet
<1>2. CASE S # {}
  <2>1. PICK h \in S : S = {h}
    BY <1>2
  <2> QED
    BY <2>1, FS_Singleton
<1> QED
  BY <1>1, <1>2

\* Replays and concurrent placements of one request leave one live hold on a
\* departure, whoever calls (service-holds.ts:67-115).
THEOREM OneHoldForARequest == Spec => []OneHoldPerRequest
<1>1. IInv => OneHoldPerRequest
  <2> SUFFICES ASSUME IInv, NEW t \in Tokens, NEW s \in Slots
               PROVE  Cardinality(LiveOf(t) \cap On(s)) <= 1
    BY DEF OneHoldPerRequest
  <2>1. LiveOf(t) \cap On(s) \in SUBSET Holds
    BY DEF LiveOf
  <2>2. \A g, h \in LiveOf(t) \cap On(s) : g = h
    BY DEF IInv, OneOfRequest, LiveOf, On
  <2> QED
    BY <2>1, <2>2, AtMostOne
<1> QED
  BY InvariantHolds, <1>1, PTL

\* Under the session's row lock a Booking Session has one live hold, whatever
\* requests about it run at once (sessions-service.ts:1362-1468).
THEOREM OneHoldForASession ==
  ASSUME SessionFlow PROVE Spec => []OneHoldPerSession
<1>1. IInv => OneHoldPerSession
  <2> SUFFICES ASSUME IInv, NEW t \in Tokens
               PROVE  Cardinality(LiveOf(t)) <= 1
    BY DEF OneHoldPerSession
  <2>1. LiveOf(t) \in SUBSET Holds
    BY DEF LiveOf
  <2>2. \A g, h \in LiveOf(t) : g = h
    BY DEF IInv, OneOfSession, LiveOf
  <2> QED
    BY <2>1, <2>2, AtMostOne
<1> QED
  BY InvariantHolds, <1>1, PTL

\* The holds a sweep has locked, and those it is about to lock, lie on departures
\* it has locked before: what it waits for is a departure only.
LEMMA SweepWaits ==
  ASSUME IInv, NEW w \in Workers, NEW v \in Workers, w # v, Op(w, "reap"), Op(v, "reap"), WaitsFor(w, v)
  PROVE  tx[w].todo # {} /\ Min(tx[w].todo) \in tx[v].slots
<1>1. PICK x \in Transaction : x = tx[w]
  BY WorkerFacts
<1>2. PICK y \in Transaction : y = tx[v] /\ Good(y) /\ Apart(x, y) /\ y.op = "reap"
  BY <1>1, WorkerFacts DEF IInv, TransactionsGood, Op
<1>3. \A h \in y.rows : hold[h].slot \in y.slots
  BY <1>2 DEF Good, SweepsUpwards
<1>4. CASE WantsSlot(w) \cap y.slots # {}
  BY <1>1, <1>2, <1>4, WantsSlotType
<1>5. CASE WantsSlot(w) = {}
  <2>1. SweepRows(w) = {} \/ (SweepRows(w) \subseteq On(Min(x.todo)) /\ Min(x.todo) \in x.slots)
    BY <1>1, <1>5 DEF SweepRows, WantsSlot
  <2>2. SweepRows(w) \cap y.rows = {}
    BY <1>2, <1>3, <2>1 DEF On, Apart
  <2> QED
    BY <1>2, <1>5, <2>2 DEF WaitsFor, WantsRows, Op
<1>6. CASE WantsSlot(w) # {} /\ WantsSlot(w) \cap y.slots = {}
  <2>1. WantsRows(w) = {}
    BY <1>6 DEF WantsRows, SweepRows, Op
  <2> QED
    BY <1>2, <1>6, <2>1 DEF WaitsFor
<1> QED
  BY <1>4, <1>5, <1>6

\* Two sweeps never wait for each other: each locks its departures in ascending
\* order (service-holds.ts:308-309).
THEOREM SweepsDoNotDeadlock == Spec => []SweepsSpareEachOther
<1>1. IInv => SweepsSpareEachOther
  <2> SUFFICES ASSUME IInv, NEW w \in Workers, NEW v \in Workers, Op(w, "reap"), Op(v, "reap"),
                      WaitsFor(w, v), WaitsFor(v, w)
               PROVE  FALSE
    BY DEF SweepsSpareEachOther, Deadlocked
  <2>0. w # v
    BY DEF WaitsFor
  <2>1. PICK x \in Transaction : x = tx[w] /\ SweepsUpwards(x) /\ x.op = "reap"
    BY WorkerFacts DEF Good, Op
  <2>2. PICK y \in Transaction : y = tx[v] /\ SweepsUpwards(y) /\ y.op = "reap"
    BY WorkerFacts DEF Good, Op
  <2>3. x.slots \cap y.slots = {}
    BY <2>0, <2>1, <2>2 DEF IInv, TransactionsGood, Apart
  <2>4. x.todo \in SUBSET Slots /\ y.todo \in SUBSET Slots
    BY DEF Transaction
  <2>5. /\ x.todo # {} /\ Min(x.todo) \in y.slots
        /\ y.todo # {} /\ Min(y.todo) \in x.slots
    BY <2>0, <2>1, <2>2, SweepWaits
  <2>6. Min(x.todo) \in x.todo /\ Min(y.todo) \in y.todo /\ Min(x.todo) \in Nat /\ Min(y.todo) \in Nat
    BY <2>4, <2>5, MinOfSlots
  <2>7. Min(x.todo) <= Min(y.todo) /\ Min(y.todo) <= Min(x.todo)
    BY <2>1, <2>2, <2>5, <2>6 DEF SweepsUpwards
  <2>8. Min(x.todo) = Min(y.todo)
    BY <2>6, <2>7
  <2> QED
    BY <2>3, <2>5, <2>8
<1> QED
  BY InvariantHolds, <1>1, PTL

\* A caller of placeAvailabilityHold never waits for a sweep once it has its
\* departure: the hold it replays is on it (service-holds.ts:277-278).
THEOREM SweepsSparePlacements == Spec => []SweepSparesPlacement
<1>1. IInv => SweepSparesPlacement
  <2> SUFFICES ASSUME IInv, NEW w \in Workers, NEW v \in Workers, Op(w, "reap"), Op(v, "place"),
                      WaitsFor(v, w)
               PROVE  FALSE
    BY DEF SweepSparesPlacement, Deadlocked
  <2>0. w # v
    BY DEF WaitsFor
  <2>1. PICK x \in Transaction : x = tx[w] /\ SweepsUpwards(x) /\ x.op = "reap"
    BY WorkerFacts DEF Good, Op
  <2>2. PICK y \in Transaction : y = tx[v] /\ HasArguments(y) /\ PlaceKnows(y) /\ y.op = "place"
    BY WorkerFacts DEF Good, Op
  <2>3. x.slots \cap y.slots = {} /\ y.slots = {y.slot} /\ y.todo = {}
    BY <2>0, <2>1, <2>2 DEF IInv, TransactionsGood, Apart, HasArguments
  <2>4. WantsSlot(v) = {} /\ WantsRows(v) = {y.row} \ {None}
    BY <2>2, <2>3 DEF WantsSlot, WantsRows
  <2>5. y.row # None /\ y.row \in x.rows
    BY <2>1, <2>4 DEF WaitsFor
  <2>6. hold[y.row].slot = y.slot /\ hold[y.row].slot \in x.slots
    BY <2>1, <2>2, <2>5 DEF SweepsUpwards, PlaceKnows
  <2> QED
    BY <2>3, <2>6
<1> QED
  BY InvariantHolds, <1>1, PTL
----------------------------------------------------------------------------
(* The ledger *)

L == INSTANCE SeatLedgerProofs WITH
  Elsewhere <- None, Capacities <- CapacityChoices \cup {InitialPax},
  initial <- Given, free <- Free, phase <- Phase, at <- At, size <- Size

LEMMA OneCardinality ==
  /\ \A S : Ledger!Cardinality(S) = Cardinality(S)
  /\ \A S : L!Cardinality(S) = Cardinality(S)
  /\ \A S : L!IsFiniteSet(S) <=> IsFiniteSet(S)
<1>1. \A S : Ledger!Cardinality(S) = Cardinality(S)
  BY Zenon DEF Ledger!Cardinality, Cardinality
<1>2. \A S : L!Cardinality(S) = Cardinality(S)
  BY Zenon DEF L!Cardinality, Cardinality
<1>3. \A S : L!IsFiniteSet(S) <=> IsFiniteSet(S)
  BY Zenon DEF L!IsFiniteSet, IsFiniteSet
<1> QED
  BY <1>1, <1>2, <1>3

LEMMA LedgerAssumptions ==
  /\ None \notin Slots /\ L!IsFiniteSet(Claims) /\ MaxPax \in Nat \ {0}
  /\ CapacityChoices \cup {InitialPax} \subseteq Nat
BY FS_Union, OneCardinality DEF Claims

LEMMA SameClaimed == \A C, s : L!Claimed(C, s) = Ledger!Claimed(C, s)
<1>1. \A C, s : L!SeatsOf(C, s) = Ledger!SeatsOf(C, s)
  BY Zenon DEF L!SeatsOf, Ledger!SeatsOf
<1> QED
  BY <1>1, OneCardinality DEF L!Claimed, Ledger!Claimed

LEMMA SameLedger ==
  /\ Ledger!Init <=> L!Init
  /\ [Ledger!Next]_Ledger!ledger <=> [L!Next]_L!ledger
<1>1. Ledger!Init <=> L!Init
  BY Zenon DEF L!Init, Ledger!Init
<1>2. L!LiveClaims = Ledger!LiveClaims /\ L!ledger = Ledger!ledger
      /\ (L!ledger' = L!ledger <=> Ledger!ledger' = Ledger!ledger)
  BY Zenon DEF L!LiveClaims, Ledger!LiveClaims, L!ledger, Ledger!ledger
<1>3. \A C : L!GiveBack(C) <=> Ledger!GiveBack(C)
  BY <1>2, SameClaimed DEF L!GiveBack, Ledger!GiveBack
<1>4. \A C, c, s, n : L!Exchange(C, c, s, n) <=> Ledger!Exchange(C, c, s, n)
  BY <1>2, SameClaimed DEF L!Exchange, Ledger!Exchange
<1>5. \A C, h, c : L!HandOver(C, h, c) <=> Ledger!HandOver(C, h, c)
  BY <1>2, SameClaimed DEF L!HandOver, Ledger!HandOver
<1>6. \A c, n : L!Resize(c, n) <=> Ledger!Resize(c, n)
  BY Zenon DEF L!Resize, Ledger!Resize
<1>7. \A s, n : L!Recapacitate(s, n) <=> Ledger!Recapacitate(s, n)
  BY Zenon DEF L!Recapacitate, Ledger!Recapacitate
<1>8. \A C, s : L!WriteOff(C, s) <=> Ledger!WriteOff(C, s)
  BY <1>2, Zenon DEF L!WriteOff, Ledger!WriteOff
<1>9. L!Next <=> Ledger!Next
  BY <1>2, <1>3, <1>4, <1>5, <1>6, <1>7, <1>8 DEF L!Next, Ledger!Next
<1> QED
  BY <1>1, <1>2, <1>9

\* The ledger's view of a hold, of a token and of a departure.
LEMMA HoldClaims ==
  \A h \in Holds :
    /\ h \in Claims
    /\ Phase[h] = IF hold[h].state \in {"unused", "live"} THEN hold[h].state ELSE "settled"
    /\ Phase'[h] = IF hold'[h].state \in {"unused", "live"} THEN hold'[h].state ELSE "settled"
    /\ At[h] = hold[h].slot /\ At'[h] = hold'[h].slot
    /\ Size[h] = hold[h].pax /\ Size'[h] = hold'[h].pax
BY DEF Claims, Phase, At, Size

LEMMA TokenClaims ==
  \A t \in Tokens :
    /\ t \in Claims /\ t \notin Holds
    /\ Phase[t] = IF booking[t].state \in {"unused", "live"} THEN booking[t].state ELSE "settled"
    /\ Phase'[t] = IF booking'[t].state \in {"unused", "live"} THEN booking'[t].state ELSE "settled"
    /\ At[t] = booking[t].slot /\ At'[t] = booking'[t].slot
    /\ Size[t] = booking[t].pax /\ Size'[t] = booking'[t].pax
BY DEF Claims, Phase, At, Size

LEMMA CountedSeats ==
  /\ \A s \in counted : Given[s] = slot[s].initial /\ Free[s] = slot[s].remaining
  /\ \A s \in counted' : Given'[s] = slot'[s].initial /\ Free'[s] = slot'[s].remaining
BY DEF Given, Free

\* The functions the ledger's state is made of.
LEMMA ViewsAreFunctions ==
  /\ Phase = [c \in Claims |-> Phase[c]] /\ Phase' = [c \in Claims |-> Phase'[c]]
  /\ At = [c \in Claims |-> At[c]] /\ At' = [c \in Claims |-> At'[c]]
  /\ Size = [c \in Claims |-> Size[c]] /\ Size' = [c \in Claims |-> Size'[c]]
  /\ Given = [s \in counted |-> Given[s]] /\ Given' = [s \in counted' |-> Given'[s]]
  /\ Free = [s \in counted |-> Free[s]] /\ Free' = [s \in counted' |-> Free'[s]]
BY DEF Phase, At, Size, Given, Free

LEMMA HeldIsClaimed ==
  ASSUME NEW H \in SUBSET Holds, NEW s
  PROVE  Ledger!Claimed(H, s) = SeatsHeld(H, s)
<1>1. \A h \in H : At[h] = hold[h].slot /\ Size[h] = hold[h].pax
  BY HoldClaims
<1>2. Ledger!SeatsOf(H, s) = {p \in H \X (1..MaxPax) : hold[p[1]].slot = s /\ p[2] <= hold[p[1]].pax}
  BY <1>1 DEF Ledger!SeatsOf
<1> QED
  BY <1>2, OneCardinality DEF Ledger!Claimed, SeatsHeld

LEMMA SeatNumbers ==
  ASSUME SlotsTyped, NEW H \in SUBSET Holds, NEW s \in counted
  PROVE  /\ s \in Slots /\ Numbered(slot[s]) /\ slot[s] \in SlotRow
         /\ Free[s] \in Nat /\ Given[s] \in Nat /\ Ledger!Claimed(H, s) \in Nat
<1>1. s \in Slots /\ Numbered(slot[s]) /\ slot[s] \in SlotRow
  BY DEF SlotsTyped
<1>2. Free[s] \in Nat /\ Given[s] \in Nat
  BY <1>1, CountedSeats DEF SlotRow, Numbered
<1> QED
  BY <1>1, <1>2, SeatsHeldType, HeldIsClaimed

\* Nothing the ledger sees.
LEMMA Unseen ==
  ASSUME Phase' = Phase, At' = At, Size' = Size, counted' = counted, Given' = Given, Free' = Free
  PROVE  [Ledger!Next]_Ledger!ledger
BY DEF Ledger!ledger

LEMMA RowsAreLiveClaims ==
  ASSUME IInv, NEW w \in Workers
  PROVE  tx[w].rows \in SUBSET Holds /\ tx[w].rows \in SUBSET Ledger!LiveClaims
<1>1. \A h \in tx[w].rows : h \in Holds /\ Phase[h] = "live"
  BY WorkerFacts, HoldClaims DEF Live
<1> QED
  BY <1>1, HoldClaims DEF Ledger!LiveClaims

\* A transaction that releases its rows gives their seats back.
LEMMA ReleaseGivesBack ==
  ASSUME IInv, NEW w \in Workers, slot' = Restored(tx[w].rows), hold' = Released(tx[w].rows),
         UNCHANGED <<booking, counted>>
  PROVE  [Ledger!Next]_Ledger!ledger
<1> DEFINE R == tx[w].rows
<1>1. R \in SUBSET Holds /\ R \in SUBSET Ledger!LiveClaims /\ HoldsTyped /\ SlotsTyped
  BY RowsAreLiveClaims DEF IInv
<1>2. \A h \in Holds : /\ hold'[h].slot = hold[h].slot /\ hold'[h].pax = hold[h].pax
                       /\ hold'[h].state = IF h \in R THEN "released" ELSE hold[h].state
  BY <1>1, ReleasedHolds
<1>3. ASSUME NEW s \in counted
      PROVE  Given'[s] = Given[s] /\ Free'[s] = Free[s] + Ledger!Claimed(R, s)
  <2>1. s \in Slots /\ Numbered(slot[s])
    BY <1>1, SeatNumbers
  <2>2. /\ slot'[s].initial = slot[s].initial
        /\ slot'[s].remaining = slot[s].remaining + SeatsHeld(R, s)
    BY <1>1, <2>1, RestoredType
  <2> QED
    BY <1>1, <2>2, CountedSeats, HeldIsClaimed
<1>4. \A c \in Claims : /\ Phase'[c] = IF c \in R THEN "settled" ELSE Phase[c]
                        /\ At'[c] = At[c] /\ Size'[c] = Size[c]
  <2>1. \A c \in Holds : /\ Phase'[c] = IF c \in R THEN "settled" ELSE Phase[c]
                         /\ At'[c] = At[c] /\ Size'[c] = Size[c]
    BY <1>2, HoldClaims
  <2>2. \A c \in Tokens : /\ Phase'[c] = IF c \in R THEN "settled" ELSE Phase[c]
                          /\ At'[c] = At[c] /\ Size'[c] = Size[c]
    BY <1>1, TokenClaims
  <2> QED
    BY <2>1, <2>2 DEF Claims
<1> HIDE DEF R
<1>5. /\ Phase' = [c \in Claims |-> IF c \in R THEN "settled" ELSE Phase[c]]
      /\ Free' = [s \in counted |-> Free[s] + Ledger!Claimed(R, s)]
      /\ UNCHANGED <<counted, Given, At, Size>>
  BY <1>3, <1>4, ViewsAreFunctions
<1>6. CASE R # {}
  <2>1. Ledger!GiveBack(R)
    BY <1>1, <1>5, <1>6 DEF Ledger!GiveBack
  <2> QED
    BY <1>1, <2>1 DEF Ledger!Next
<1>7. CASE R = {}
  <2>1. ASSUME NEW s \in counted PROVE Ledger!Claimed(R, s) = 0 /\ Free[s] \in Nat
    <3>1. Ledger!SeatsOf(R, s) = {}
      BY <1>7 DEF Ledger!SeatsOf
    <3>2. Ledger!Claimed(R, s) = 0
      BY <3>1, FS_EmptySet, OneCardinality DEF Ledger!Claimed
    <3> QED
      BY <1>1, <3>2, SeatNumbers
  <2>2. \A s \in counted : Free'[s] = Free[s]
    BY <1>3, <2>1
  <2>3. \A c \in Claims : Phase'[c] = Phase[c]
    BY <1>4, <1>7
  <2>4. Phase' = Phase /\ Free' = Free
    BY <2>2, <2>3, ViewsAreFunctions
  <2> QED
    BY <1>5, <2>4, Unseen
<1> QED
  BY <1>6, <1>7

\* The session's new hold takes its seats, the old ones give theirs back.
LEMMA ReholdExchanges ==
  ASSUME IInv, NEW w \in Workers, NEW h \in Holds, ReholdPlaces(w, h)
  PROVE  [Ledger!Next]_Ledger!ledger
<1> DEFINE R == tx[w].rows
           n == tx[w].pax
<1>1. R \in SUBSET Holds /\ R \in SUBSET Ledger!LiveClaims /\ HoldsTyped /\ SlotsTyped
  BY RowsAreLiveClaims DEF IInv
<1>2. /\ NewHold(w) \in HoldRow
      /\ NewHold(w).state = "live" /\ NewHold(w).slot = tx[w].slot /\ NewHold(w).pax = n
      /\ n \in 1..MaxPax
  BY WorkerFacts, NewHoldType DEF ReholdPlaces, Op, IInv
<1>3. PICK s \in Slots : s = tx[w].slot
  BY WorkerFacts DEF ReholdPlaces, Op, HasArguments
<1>4. /\ hold[h].state = "unused" /\ h \notin R /\ UNCHANGED <<booking, counted>>
      /\ hold' = [Released(R) EXCEPT ![h] = NewHold(w)]
      /\ Fits(Restored(R)[s], n)
      /\ slot' = [Restored(R) EXCEPT ![s] = Moved(Restored(R)[s], -n)]
  BY <1>3, WorkerFacts DEF ReholdPlaces, Live
<1>5. /\ hold'[h] = NewHold(w)
      /\ \A g \in Holds \ {h} : /\ hold'[g].slot = hold[g].slot /\ hold'[g].pax = hold[g].pax
                                /\ hold'[g].state = IF g \in R THEN "released" ELSE hold[g].state
  BY <1>1, <1>4, ReleasedHolds
<1>6. PICK back \in [Slots -> SlotRow] : back = Restored(R)
  BY <1>1, <1>3, RestoredType
<1>7. ASSUME NEW r \in counted
      PROVE  /\ Given'[r] = Given[r]
             /\ Free'[r] = Free[r] + Ledger!Claimed(R, r) - IF r = s THEN n ELSE 0
             /\ r = s => n <= Free[r] + Ledger!Claimed(R, r)
  <2>1. r \in Slots /\ Numbered(slot[r])
    BY <1>1, SeatNumbers
  <2>2. PICK free, claimed \in Nat : free = Free[r] /\ claimed = Ledger!Claimed(R, r)
    BY <1>1, SeatNumbers
  <2>3. PICK row \in SlotRow : /\ row = back[r] /\ Numbered(row)
                               /\ row.initial = Given[r] /\ row.remaining = free + claimed
    <3>1. /\ back[r].initial = slot[r].initial /\ Numbered(back[r])
          /\ back[r].remaining = slot[r].remaining + SeatsHeld(R, r)
      BY <1>1, <1>6, <2>1, RestoredType
    <3>2. back[r].remaining = free + claimed /\ back[r].initial = Given[r]
      BY <1>1, <2>2, <3>1, CountedSeats, HeldIsClaimed
    <3> QED
      BY <2>1, <3>1, <3>2
  <2>4. CASE r = s
    <3>1. PICK m \in Nat : m = n
      BY <1>2
    <3>2. Fits(row, m) /\ slot'[r] = Moved(row, -m)
      BY <1>4, <1>6, <2>1, <2>3, <2>4, <3>1
    <3>3. m <= free + claimed
      BY <2>3, <3>2, LeftType DEF Fits, Numbered
    <3>4. row.remaining + (-m) \in Nat
      BY <2>3, <3>3
    <3>5. slot'[r].remaining = row.remaining + (-m) /\ slot'[r].initial = Given[r]
      BY <2>3, <3>2, <3>4, MovedType
    <3>6. Free'[r] = free + claimed - m /\ Given'[r] = Given[r]
      BY <1>4, <2>3, <3>5, CountedSeats
    <3> HIDE DEF R, n
    <3> QED
      BY <2>2, <2>4, <3>1, <3>3, <3>6
  <2>5. CASE r # s
    <3>1. slot'[r] = row
      BY <1>4, <1>6, <2>1, <2>3, <2>5
    <3>2. Free'[r] = free + claimed - 0 /\ Given'[r] = Given[r]
      BY <1>4, <2>3, <3>1, CountedSeats
    <3> HIDE DEF R, n
    <3> QED
      BY <2>2, <2>5, <3>2
  <2> QED
    BY <2>4, <2>5
<1>8. \A c \in Claims : /\ Phase'[c] = IF c = h THEN "live" ELSE IF c \in R THEN "settled" ELSE Phase[c]
                        /\ At'[c] = IF c = h THEN s ELSE At[c]
                        /\ Size'[c] = IF c = h THEN n ELSE Size[c]
  <2>1. ASSUME NEW c \in Holds
        PROVE  /\ Phase'[c] = IF c = h THEN "live" ELSE IF c \in R THEN "settled" ELSE Phase[c]
               /\ At'[c] = IF c = h THEN s ELSE At[c]
               /\ Size'[c] = IF c = h THEN n ELSE Size[c]
    BY <1>2, <1>3, <1>5, HoldClaims
  <2>2. ASSUME NEW c \in Tokens
        PROVE  /\ Phase'[c] = IF c = h THEN "live" ELSE IF c \in R THEN "settled" ELSE Phase[c]
               /\ At'[c] = IF c = h THEN s ELSE At[c]
               /\ Size'[c] = IF c = h THEN n ELSE Size[c]
    BY <1>1, <1>4, TokenClaims
  <2> QED
    BY <2>1, <2>2 DEF Claims
<1>9. Phase[h] = "unused" /\ h \in Claims
  BY <1>4, HoldClaims
<1> HIDE DEF R, n
<1>10. /\ Phase' = [c \in Claims |-> IF c = h THEN "live" ELSE IF c \in R THEN "settled" ELSE Phase[c]]
       /\ Free' = [r \in counted |-> Free[r] + Ledger!Claimed(R, r) - IF r = s THEN n ELSE 0]
       /\ At' = [At EXCEPT ![h] = s] /\ Size' = [Size EXCEPT ![h] = n] /\ UNCHANGED <<counted, Given>>
  BY <1>4, <1>7, <1>8, ViewsAreFunctions
<1>11. Ledger!Exchange(R, h, s, n)
  BY <1>1, <1>7, <1>9, <1>10 DEF Ledger!Exchange
<1> QED
  BY <1>1, <1>2, <1>9, <1>11 DEF Ledger!Next, n

\* What an allocation changes in the table of bookings.
LEMMA Allocated ==
  ASSUME BookingsTyped, NEW t \in Tokens, NEW s, NEW n, Allocate(t, s, n)
  PROVE  /\ booking'[t].state = "live" /\ booking'[t].slot = s /\ booking'[t].pax = n
         /\ \A u \in Tokens \ {t} : booking'[u] = booking[u]
BY DEF BookingsTyped, Allocate

\* A booking without a usable hold takes seats, the session's holds give theirs back.
LEMMA BookAfreshExchanges ==
  ASSUME IInv, SessionFlow, NEW w \in Workers, BookAfresh(w)
  PROVE  [Ledger!Next]_Ledger!ledger
<1> DEFINE R == tx[w].rows
           n == tx[w].pax
           t == tx[w].token
<1>1. R \in SUBSET Holds /\ R \in SUBSET Ledger!LiveClaims /\ HoldsTyped /\ SlotsTyped /\ BookingsTyped
  BY RowsAreLiveClaims DEF IInv
<1>2. n \in 1..MaxPax /\ t \in Tokens /\ booking[t].state = "unused"
  BY WorkerFacts DEF BookAfresh, Op, Good, HasArguments, SessionKnows
<1>3. PICK s \in Slots : s = tx[w].slot
  BY WorkerFacts DEF BookAfresh, Op, HasArguments
<1>4. /\ hold' = Released(R) /\ Allocate(t, s, n) /\ Fits(BackToSale(R)[s], n)
      /\ slot' = [BackToSale(R) EXCEPT ![s] = Adjusted(BackToSale(R)[s], -n)]
      /\ Sellable(SlotsOf(R) \cup {s}) /\ UNCHANGED counted
  BY <1>3 DEF BookAfresh
<1>5. \A g \in Holds : /\ hold'[g].slot = hold[g].slot /\ hold'[g].pax = hold[g].pax
                       /\ hold'[g].state = IF g \in R THEN "released" ELSE hold[g].state
  BY <1>1, <1>4, ReleasedHolds
<1>6. PICK back \in [Slots -> SlotRow] : back = BackToSale(R)
  BY <1>1, <1>3, BackToSaleType
<1>a. Sellable(SlotsOf(R)) /\ OnSale(slot[s])
  BY <1>4 DEF Sellable, OnSale
<1>7. ASSUME NEW r \in counted
      PROVE  /\ Given'[r] = Given[r]
             /\ Free'[r] = Free[r] + Ledger!Claimed(R, r) - IF r = s THEN n ELSE 0
             /\ r = s => n <= Free[r] + Ledger!Claimed(R, r)
  <2>1. r \in Slots /\ Numbered(slot[r])
    BY <1>1, SeatNumbers
  <2>2. PICK free, claimed \in Nat : free = Free[r] /\ claimed = Ledger!Claimed(R, r)
    BY <1>1, SeatNumbers
  <2>3. PICK row \in SlotRow : /\ row = back[r] /\ Numbered(row) /\ (r = s => OnSale(row))
                               /\ row.initial = Given[r] /\ row.remaining = free + claimed
    <3>1. /\ back[r].initial = slot[r].initial /\ Numbered(back[r]) /\ (r = s => OnSale(back[r]))
          /\ back[r].remaining = slot[r].remaining + SeatsHeld(R, r)
      BY <1>1, <1>6, <1>a, <2>1, BackToSaleType
    <3>2. back[r].remaining = free + claimed /\ back[r].initial = Given[r]
      BY <1>1, <2>2, <3>1, CountedSeats, HeldIsClaimed
    <3> QED
      BY <2>1, <3>1, <3>2
  <2>4. CASE r = s
    <3>1. PICK m \in Nat : m = n
      BY <1>2
    <3>2. Fits(row, m) /\ slot'[r] = Adjusted(row, -m)
      BY <1>4, <1>6, <2>1, <2>3, <2>4, <3>1
    <3>3. m <= free + claimed
      BY <2>3, <3>2, LeftType DEF Fits, Numbered
    <3>4. Left(row) + (-m) \in Nat /\ row.status # "cancelled"
      BY <2>3, <2>4, <3>3, LeftType DEF OnSale
    <3>5. slot'[r].remaining = row.remaining + (-m) /\ slot'[r].initial = Given[r]
      BY <2>3, <3>2, <3>4, AdjustedType
    <3>6. Free'[r] = free + claimed - m /\ Given'[r] = Given[r]
      BY <1>4, <2>3, <3>5, CountedSeats
    <3> HIDE DEF R, n
    <3> QED
      BY <2>2, <2>4, <3>1, <3>3, <3>6
  <2>5. CASE r # s
    <3>1. slot'[r] = row
      BY <1>4, <1>6, <2>1, <2>3, <2>5
    <3>2. Free'[r] = free + claimed - 0 /\ Given'[r] = Given[r]
      BY <1>4, <2>3, <3>1, CountedSeats
    <3> HIDE DEF R, n
    <3> QED
      BY <2>2, <2>5, <3>2
  <2> QED
    BY <2>4, <2>5
<1>8. \A c \in Claims : /\ Phase'[c] = IF c = t THEN "live" ELSE IF c \in R THEN "settled" ELSE Phase[c]
                        /\ At'[c] = IF c = t THEN s ELSE At[c]
                        /\ Size'[c] = IF c = t THEN n ELSE Size[c]
  <2>1. ASSUME NEW c \in Holds
        PROVE  /\ Phase'[c] = IF c = t THEN "live" ELSE IF c \in R THEN "settled" ELSE Phase[c]
               /\ At'[c] = IF c = t THEN s ELSE At[c]
               /\ Size'[c] = IF c = t THEN n ELSE Size[c]
    BY <1>2, <1>5, HoldClaims
  <2>2. ASSUME NEW c \in Tokens
        PROVE  /\ Phase'[c] = IF c = t THEN "live" ELSE IF c \in R THEN "settled" ELSE Phase[c]
               /\ At'[c] = IF c = t THEN s ELSE At[c]
               /\ Size'[c] = IF c = t THEN n ELSE Size[c]
    <3>1. /\ booking'[t].state = "live" /\ booking'[t].slot = s /\ booking'[t].pax = n
          /\ \A u \in Tokens \ {t} : booking'[u] = booking[u]
      BY <1>1, <1>2, <1>4, Allocated
    <3>2. c \notin R
      BY <1>1
    <3> QED
      BY <1>2, <3>1, <3>2, TokenClaims
  <2> QED
    BY <2>1, <2>2 DEF Claims
<1>9. Phase[t] = "unused" /\ t \in Claims
  BY <1>2, TokenClaims
<1> HIDE DEF R, n, t
<1>10. /\ Phase' = [c \in Claims |-> IF c = t THEN "live" ELSE IF c \in R THEN "settled" ELSE Phase[c]]
       /\ Free' = [r \in counted |-> Free[r] + Ledger!Claimed(R, r) - IF r = s THEN n ELSE 0]
       /\ At' = [At EXCEPT ![t] = s] /\ Size' = [Size EXCEPT ![t] = n] /\ UNCHANGED <<counted, Given>>
  BY <1>4, <1>7, <1>8, ViewsAreFunctions
<1>11. Ledger!Exchange(R, t, s, n)
  BY <1>1, <1>7, <1>9, <1>10 DEF Ledger!Exchange
<1> QED
  BY <1>1, <1>2, <1>9, <1>11 DEF Ledger!Next

\* A booking from a hold: the hold's seats become the booking's.
LEMMA BookFromHoldHandsOver ==
  ASSUME IInv, SessionFlow, NEW w \in Workers, BookFromHold(w)
  PROVE  [Ledger!Next]_Ledger!ledger
<1> DEFINE R == tx[w].rows
           t == tx[w].token
<1>1. R \in SUBSET Holds /\ R \in SUBSET Ledger!LiveClaims /\ HoldsTyped /\ SlotsTyped /\ BookingsTyped
  BY RowsAreLiveClaims DEF IInv
<1>2. t \in Tokens /\ booking[t].state = "unused"
  BY WorkerFacts DEF BookFromHold, Op, Good, HasArguments, SessionKnows
<1>3. PICK h \in R : h = tx[w].row
  BY WorkerFacts DEF BookFromHold, Op, HasArguments
<1>4. PICK others \in SUBSET Holds : others = R \ {h}
  BY <1>1
<1>5. /\ hold' = [Released(others) EXCEPT ![h].state = "converted"]
      /\ slot' = BackToSale(others) /\ Allocate(t, hold[h].slot, hold[h].pax)
      /\ Sellable(SlotsOf(others)) /\ UNCHANGED counted
  BY <1>3, <1>4 DEF BookFromHold
<1>6. \A g \in Holds : /\ hold'[g].slot = hold[g].slot /\ hold'[g].pax = hold[g].pax
                       /\ g \in R => hold'[g].state \in {"released", "converted"}
                       /\ g \notin R => hold'[g].state = hold[g].state
  <2>1. PICK table \in [Holds -> HoldRow] : table = Released(others)
    BY <1>1, ReleasedHolds
  <2>2. \A g \in Holds : /\ table[g].slot = hold[g].slot /\ table[g].pax = hold[g].pax
                         /\ table[g].state = IF g \in others THEN "released" ELSE hold[g].state
    BY <1>1, <2>1, ReleasedHolds
  <2>3. PICK r : r = [table[h] EXCEPT !.state = "converted"]
    OBVIOUS
  <2>4. h \in Holds /\ r \in HoldRow /\ r.state = "converted" /\ r.slot = table[h].slot /\ r.pax = table[h].pax
    BY <1>1, <2>3 DEF HoldRow
  <2>5. hold' = [table EXCEPT ![h] = r]
    BY <1>5, <2>1, <2>3
  <2>6. hold'[h] = r /\ \A g \in Holds \ {h} : hold'[g] = table[g]
    BY <2>4, <2>5, WrittenHold
  <2> SUFFICES ASSUME NEW g \in Holds
               PROVE  /\ hold'[g].slot = hold[g].slot /\ hold'[g].pax = hold[g].pax
                      /\ g \in R => hold'[g].state \in {"released", "converted"}
                      /\ g \notin R => hold'[g].state = hold[g].state
    OBVIOUS
  <2>7. CASE g = h
    BY <2>2, <2>4, <2>6, <2>7
  <2>8. CASE g # h
    <3>1. hold'[g] = table[g] /\ (g \in others <=> g \in R)
      BY <1>4, <2>6, <2>8
    <3> QED
      BY <2>2, <3>1
  <2> QED
    BY <2>7, <2>8
<1>7. ASSUME NEW r \in counted
      PROVE  Given'[r] = Given[r] /\ Free'[r] = Free[r] + Ledger!Claimed(R \ {h}, r)
  <2>1. r \in Slots /\ Numbered(slot[r])
    BY <1>1, SeatNumbers
  <2>2. /\ BackToSale(others)[r].initial = slot[r].initial
        /\ BackToSale(others)[r].remaining = slot[r].remaining + SeatsHeld(others, r)
    BY <1>1, <1>5, <2>1, BackToSaleType
  <2>3. Ledger!Claimed(others, r) = SeatsHeld(others, r)
    BY HeldIsClaimed
  <2> QED
    BY <1>4, <1>5, <2>2, <2>3, CountedSeats
<1>8. \A c \in Claims : /\ Phase'[c] = IF c = t THEN "live" ELSE IF c \in R THEN "settled" ELSE Phase[c]
                        /\ At'[c] = IF c = t THEN At[h] ELSE At[c]
                        /\ Size'[c] = IF c = t THEN Size[h] ELSE Size[c]
  <2>1. ASSUME NEW c \in Holds
        PROVE  /\ Phase'[c] = IF c = t THEN "live" ELSE IF c \in R THEN "settled" ELSE Phase[c]
               /\ At'[c] = IF c = t THEN At[h] ELSE At[c]
               /\ Size'[c] = IF c = t THEN Size[h] ELSE Size[c]
    BY <1>2, <1>6, HoldClaims
  <2>2. ASSUME NEW c \in Tokens
        PROVE  /\ Phase'[c] = IF c = t THEN "live" ELSE IF c \in R THEN "settled" ELSE Phase[c]
               /\ At'[c] = IF c = t THEN At[h] ELSE At[c]
               /\ Size'[c] = IF c = t THEN Size[h] ELSE Size[c]
    <3>1. /\ booking'[t].state = "live" /\ booking'[t].slot = hold[h].slot /\ booking'[t].pax = hold[h].pax
          /\ \A u \in Tokens \ {t} : booking'[u] = booking[u]
      BY <1>1, <1>2, <1>5, Allocated
    <3>2. c \notin R /\ h \in Holds
      BY <1>1
    <3> QED
      BY <1>2, <3>1, <3>2, TokenClaims, HoldClaims
  <2> QED
    BY <2>1, <2>2 DEF Claims
<1>9. Phase[t] = "unused" /\ t \in Claims /\ h \in Claims
  BY <1>1, <1>2, TokenClaims, HoldClaims
<1> HIDE DEF R, t
<1>10. /\ Phase' = [c \in Claims |-> IF c = t THEN "live" ELSE IF c \in R THEN "settled" ELSE Phase[c]]
       /\ Free' = [r \in counted |-> Free[r] + Ledger!Claimed(R \ {h}, r)]
       /\ At' = [At EXCEPT ![t] = At[h]] /\ Size' = [Size EXCEPT ![t] = Size[h]] /\ UNCHANGED <<counted, Given>>
  BY <1>5, <1>7, <1>8, ViewsAreFunctions
<1>11. Ledger!HandOver(R, h, t)
  BY <1>1, <1>9, <1>10 DEF Ledger!HandOver
<1> QED
  BY <1>1, <1>9, <1>11 DEF Ledger!Next

\* A claim written off, or none, with its departure.
LEMMA WrittenOff ==
  ASSUME NEW C \in SUBSET Ledger!LiveClaims, NEW s \in Slots, \A c \in C : At[c] = s,
         counted' = counted \ {s}, \A r \in counted \ {s} : slot'[r] = slot[r],
         \A c \in Claims : /\ Phase'[c] = IF c \in C THEN "settled" ELSE Phase[c]
                           /\ At'[c] = At[c] /\ Size'[c] = Size[c]
  PROVE  [Ledger!Next]_Ledger!ledger
<1>1. \A r \in counted \ {s} : Given'[r] = Given[r] /\ Free'[r] = Free[r]
  BY CountedSeats
<1>2. /\ Given' = [r \in counted \ {s} |-> Given[r]]
      /\ Free' = [r \in counted \ {s} |-> Free[r]]
      /\ Phase' = [c \in Claims |-> IF c \in C THEN "settled" ELSE Phase[c]]
      /\ UNCHANGED <<At, Size>>
  BY <1>1, ViewsAreFunctions
<1>3. Ledger!WriteOff(C, s)
  BY <1>2 DEF Ledger!WriteOff
<1> QED
  BY <1>3 DEF Ledger!Next

\* Cancelling gives back the booking's seats, except on a cancelled departure,
\* whose seats nobody tells any more.
LEMMA CancelGivesBack ==
  ASSUME IInv, NEW t \in Tokens, CancelBooking(t)
  PROVE  [Ledger!Next]_Ledger!ledger
<1>1. HoldsTyped /\ SlotsTyped /\ BookingsTyped
  BY DEF IInv
<1>2. PICK s \in Slots : s = booking[t].slot
  BY <1>1 DEF CancelBooking, BookingsTyped
<1>3. /\ booking[t].state = "live" /\ booking[t] \in Allocation /\ UNCHANGED hold
      /\ slot' = [slot EXCEPT ![s] = Adjusted(slot[s], booking[t].pax)]
      /\ booking' = [booking EXCEPT ![t].state = "released"] /\ booking \in [Tokens -> Allocation]
      /\ counted' = IF slot[s].status = "cancelled" THEN counted \ {s} ELSE counted
  BY <1>1, <1>2 DEF CancelBooking, BookingsTyped
<1>4. /\ booking'[t].state = "released" /\ booking'[t].slot = booking[t].slot /\ booking'[t].pax = booking[t].pax
      /\ \A u \in Tokens \ {t} : booking'[u] = booking[u]
  BY <1>3 DEF Allocation
<1>5. \A r \in Slots : slot'[r] = IF r = s THEN Adjusted(slot[s], booking[t].pax) ELSE slot[r]
  BY <1>1, <1>3 DEF SlotsTyped
<1>6. t \in Claims /\ Phase[t] = "live" /\ At[t] = s /\ Size[t] = booking[t].pax /\ booking[t].pax \in Nat
  BY <1>2, <1>3, TokenClaims DEF Allocation
<1>7. {t} \in SUBSET Ledger!LiveClaims
  BY <1>6 DEF Ledger!LiveClaims
<1>8. \A c \in Claims : /\ Phase'[c] = IF c \in {t} THEN "settled" ELSE Phase[c]
                        /\ At'[c] = At[c] /\ Size'[c] = Size[c]
  <2>1. ASSUME NEW c \in Holds
        PROVE  Phase'[c] = Phase[c] /\ At'[c] = At[c] /\ Size'[c] = Size[c] /\ c # t
    BY <1>3, HoldClaims, TokenClaims
  <2>2. ASSUME NEW c \in Tokens
        PROVE  /\ Phase'[c] = IF c \in {t} THEN "settled" ELSE Phase[c]
               /\ At'[c] = At[c] /\ Size'[c] = Size[c]
    BY <1>4, TokenClaims
  <2> QED
    BY <2>1, <2>2 DEF Claims
<1>9. CASE slot[s].status = "cancelled"
  <2>1. \A r \in counted \ {s} : slot'[r] = slot[r]
    BY <1>1, <1>5 DEF SlotsTyped
  <2> QED
    BY <1>3, <1>6, <1>7, <1>8, <1>9, <2>1, WrittenOff
<1>10. CASE slot[s].status # "cancelled"
  <2>1. Size \in [Claims -> 0..MaxPax]
    <3>1. \A h \in Holds : Size[h] \in 0..MaxPax
      BY <1>1, HoldClaims DEF HoldsTyped, HoldRow
    <3>2. \A u \in Tokens : Size[u] \in 0..MaxPax
      BY <1>1, TokenClaims DEF BookingsTyped, Allocation
    <3>3. \A c \in Claims : Size[c] \in 0..MaxPax
      BY <3>1, <3>2 DEF Claims
    <3> QED
      BY <3>3, ViewsAreFunctions
  <2>2. \A r : Ledger!Claimed({t}, r) = IF At[t] = r THEN Size[t] ELSE 0
    <3>1. \A r : L!SeatTotal(At, Size, {t}, r) = IF At[t] = r THEN Size[t] ELSE 0
      BY <1>6, <2>1, L!SeatsOfOne, LedgerAssumptions
    <3>2. \A r : L!Claimed({t}, r) = L!SeatTotal(At, Size, {t}, r)
      BY L!ClaimedIsTotal, LedgerAssumptions
    <3> QED
      BY <3>1, <3>2, SameClaimed
  <2>3. ASSUME NEW r \in counted
        PROVE  Given'[r] = Given[r] /\ Free'[r] = Free[r] + Ledger!Claimed({t}, r)
    <3>1. PICK free \in Nat : free = Free[r] /\ free = slot[r].remaining /\ Given[r] = slot[r].initial
      BY <1>1, SeatNumbers, CountedSeats
    <3>2. r \in Slots /\ counted' = counted
      BY <1>1, <1>3, <1>10, SeatNumbers
    <3>3. CASE r = s
      <4>1. PICK row \in SlotRow, d \in Nat : row = slot[s] /\ Numbered(row) /\ d = booking[t].pax
        BY <1>1, <1>6, <3>3, SeatNumbers
      <4>2. Left(row) + d \in Nat
        BY <4>1, LeftType
      <4>3. slot'[r].remaining = free + d /\ slot'[r].initial = slot[r].initial
        BY <1>5, <1>10, <3>1, <3>2, <3>3, <4>1, <4>2, AdjustedType
      <4>4. Ledger!Claimed({t}, r) = d
        BY <1>6, <2>2, <3>3, <4>1
      <4> QED
        BY <3>1, <3>2, <4>3, <4>4, CountedSeats
    <3>4. CASE r # s
      <4>1. slot'[r] = slot[r]
        BY <1>5, <3>2, <3>4
      <4>2. Ledger!Claimed({t}, r) = 0
        BY <1>6, <2>2, <3>4
      <4>3. Free'[r] = free /\ Given'[r] = Given[r]
        BY <3>1, <3>2, <4>1, CountedSeats
      <4> QED
        BY <3>1, <4>2, <4>3
    <3> QED
      BY <3>3, <3>4
  <2>4. counted' = counted
    BY <1>3, <1>10
  <2>5. Free' = [r \in counted |-> Free[r] + Ledger!Claimed({t}, r)] /\ Given' = Given
    BY <2>3, <2>4, ViewsAreFunctions
  <2>6. Phase' = [c \in Claims |-> IF c \in {t} THEN "settled" ELSE Phase[c]] /\ UNCHANGED <<At, Size>>
    BY <1>8, ViewsAreFunctions
  <2>7. Ledger!GiveBack({t})
    BY <1>7, <2>4, <2>5, <2>6 DEF Ledger!GiveBack
  <2> QED
    BY <1>7, <2>7 DEF Ledger!Next
<1> QED
  BY <1>9, <1>10

\* A patch of updateSlot: a departure made unlimited, or given fewer seats than
\* are taken, is written off; another capacity leaves the claims alone.
LEMMA EditIsLedgers ==
  ASSUME IInv, \A r \in counted : Free[r] <= Given[r],
         NEW s \in Slots, NEW u \in UnlimitedChoices \cup {None}, NEW n \in CapacityChoices \cup {None},
         EditCapacity(s, u, n)
  PROVE  [Ledger!Next]_Ledger!ledger
<1>1. SlotsTyped /\ slot \in [Slots -> SlotRow] /\ slot[s] \in SlotRow /\ u \in BOOLEAN \cup {None}
  BY UnlimitedChoicesAssumption DEF IInv, SlotsTyped
<1>2. /\ UNCHANGED <<hold, booking>>
      /\ slot' = [slot EXCEPT ![s].unlimited = OrElse(u, @), ![s].initial = OrElse(n, @),
                              ![s].remaining = Rebalanced(s, u, n)]
      /\ counted' = IF u = TRUE \/ (n # None /\ n < Consumed(s, n)) THEN counted \ {s} ELSE counted
  BY DEF EditCapacity
<1>3. /\ slot'[s].initial = OrElse(n, slot[s].initial) /\ slot'[s].remaining = Rebalanced(s, u, n)
      /\ \A r \in Slots \ {s} : slot'[r] = slot[r]
  BY <1>1, <1>2 DEF SlotRow
<1>4. UNCHANGED <<Phase, At, Size>>
  BY <1>2 DEF Phase, At, Size
<1>5. CASE u = TRUE \/ (n # None /\ n < Consumed(s, n))
  <2>1. counted' = counted \ {s}
    BY <1>2, <1>5
  <2>2. \A r \in counted \ {s} : slot'[r] = slot[r]
    BY <1>1, <1>3 DEF SlotsTyped
  <2>3. \A c \in Claims : /\ Phase'[c] = IF c \in {} THEN "settled" ELSE Phase[c]
                          /\ At'[c] = At[c] /\ Size'[c] = Size[c]
    BY <1>4
  <2> QED
    BY <2>1, <2>2, <2>3, WrittenOff
<1>6. CASE ~(u = TRUE \/ (n # None /\ n < Consumed(s, n)))
  <2>0. counted' = counted
    BY <1>2, <1>6
  <2>1. CASE s \notin counted \/ n = None
    <3>1. \A r \in counted : slot'[r].initial = slot[r].initial /\ slot'[r].remaining = slot[r].remaining
      <4>1. n = None => slot'[s].initial = slot[s].initial /\ slot'[s].remaining = slot[s].remaining
        BY <1>3, <1>6 DEF OrElse, Rebalanced
      <4> QED
        BY <1>1, <1>3, <2>1, <4>1 DEF SlotsTyped
    <3>2. Given' = Given /\ Free' = Free
      BY <2>0, <3>1 DEF Given, Free
    <3> QED
      BY <1>4, <2>0, <3>2, Unseen
  <2>2. CASE s \in counted /\ n # None
    <3>1. PICK free, given \in Nat : /\ free = Free[s] /\ free = slot[s].remaining
                                     /\ given = Given[s] /\ given = slot[s].initial /\ free <= given
      BY <1>1, <2>2, SeatNumbers, CountedSeats
    <3>2. free # None
      BY <3>1
    <3>3. Consumed(s, n) = given - free
      BY <3>1, <3>2 DEF Consumed, OrElse, AtLeast
    <3>4. PICK m \in Nat : m = n /\ n \in CapacityChoices
      BY <2>2
    <3>5. m >= given - free
      BY <1>6, <2>2, <3>1, <3>3, <3>4
    <3>6. Rebalanced(s, u, n) = free + (m - given)
      BY <1>6, <2>2, <3>1, <3>3, <3>4, <3>5 DEF Rebalanced, AtLeast
    <3>7. slot'[s].initial = m /\ slot'[s].remaining = free + (m - given)
      BY <1>3, <2>2, <3>4, <3>6 DEF OrElse
    <3>8. /\ Given'[s] = m /\ Free'[s] = free + (m - given)
          /\ \A r \in counted \ {s} : Given'[r] = Given[r] /\ Free'[r] = Free[r]
      BY <1>1, <1>3, <2>0, <2>2, <3>7, CountedSeats DEF SlotsTyped
    <3>9. Given' = [Given EXCEPT ![s] = m] /\ Free' = [Free EXCEPT ![s] = Free[s] + (m - Given[s])]
      BY <2>0, <2>2, <3>1, <3>8, ViewsAreFunctions
    <3>10. Ledger!Recapacitate(s, m)
      BY <1>4, <2>0, <2>2, <3>1, <3>5, <3>9 DEF Ledger!Recapacitate
    <3> QED
      BY <3>4, <3>10 DEF Ledger!Next
  <2> QED
    BY <2>1, <2>2
<1> QED
  BY <1>5, <1>6

LEMMA QuietIsUnseen ==
  ASSUME IInv,
         \/ UNCHANGED <<slot, hold, booking, counted>>
         \/ \E s \in Slots, status \in StatusChoices : EditStatus(s, status)
         \/ \E h \in Holds : HoldExpires(h)
  PROVE  [Ledger!Next]_Ledger!ledger
<1>1. CASE UNCHANGED <<slot, hold, booking, counted>>
  BY <1>1, Unseen DEF Phase, At, Size, Given, Free
<1>2. ASSUME NEW s \in Slots, NEW status \in StatusChoices, EditStatus(s, status)
      PROVE  [Ledger!Next]_Ledger!ledger
  <2>1. /\ UNCHANGED <<hold, booking, counted>> /\ slot' = [slot EXCEPT ![s].status = status]
        /\ slot \in [Slots -> SlotRow] /\ counted \subseteq Slots
    BY <1>2 DEF EditStatus, IInv, SlotsTyped
  <2>2. \A r \in Slots : slot'[r].initial = slot[r].initial /\ slot'[r].remaining = slot[r].remaining
    BY <2>1 DEF SlotRow
  <2>3. Given' = Given /\ Free' = Free
    BY <2>1, <2>2 DEF Given, Free
  <2>4. Phase' = Phase /\ At' = At /\ Size' = Size
    BY <2>1 DEF Phase, At, Size
  <2> QED
    BY <2>1, <2>3, <2>4, Unseen
<1>3. ASSUME NEW h \in Holds, HoldExpires(h)
      PROVE  [Ledger!Next]_Ledger!ledger
  <2>1. UNCHANGED <<slot, booking, counted>> /\ hold' = [hold EXCEPT ![h].expired = TRUE] /\ hold \in [Holds -> HoldRow]
    BY <1>3 DEF HoldExpires, IInv, HoldsTyped
  <2>2. \A g \in Holds : /\ hold'[g].state = hold[g].state /\ hold'[g].slot = hold[g].slot
                         /\ hold'[g].pax = hold[g].pax
    BY <2>1 DEF HoldRow
  <2>3. \A c \in Claims : Phase'[c] = Phase[c] /\ At'[c] = At[c] /\ Size'[c] = Size[c]
    BY <2>1, <2>2, HoldClaims, TokenClaims DEF Claims
  <2>4. Phase' = Phase /\ At' = At /\ Size' = Size
    BY <2>3, ViewsAreFunctions
  <2>5. Given' = Given /\ Free' = Free
    BY <2>1 DEF Given, Free
  <2> QED
    BY <2>1, <2>4, <2>5, Unseen
<1> QED
  BY <1>1, <1>2, <1>3

LEMMA InitLedger == Init => Ledger!Init
<1> SUFFICES ASSUME Init PROVE Ledger!Init
  OBVIOUS
<1>1. counted \in SUBSET Slots /\ \A s \in counted : s \in Slots /\ s \notin Unlimited
  BY DEF Init
<1>2. \A s \in counted : Given[s] = InitialPax /\ Free[s] = InitialPax
  BY <1>1, CountedSeats DEF Init
<1>3. \A c \in Claims : Phase[c] = "unused" /\ At[c] = None /\ Size[c] = 0
  BY HoldClaims, TokenClaims DEF Init, Claims
<1>4. Given \in [counted -> CapacityChoices \cup {InitialPax}] /\ Free = Given
  BY <1>2, ViewsAreFunctions
<1>5. Phase = [c \in Claims |-> "unused"] /\ At = [c \in Claims |-> None] /\ Size = [c \in Claims |-> 0]
  BY <1>3, ViewsAreFunctions
<1> QED
  BY <1>1, <1>4, <1>5 DEF Ledger!Init

\* Every step of the sessions is the ledger's.
LEMMA StepImplements ==
  ASSUME IInv, SessionFlow, [Next]_vars, \A r \in counted : Free[r] <= Given[r]
  PROVE  [Ledger!Next]_Ledger!ledger
<1>1. ASSUME NEW w \in Workers, GoesOn(w) PROVE [Ledger!Next]_Ledger!ledger
  BY <1>1, QuietIsUnseen DEF GoesOn, Continues
<1>2. ASSUME NEW w \in Workers, Sweep(w) PROVE [Ledger!Next]_Ledger!ledger
  <2>1. CASE ReapWrites(w)
    BY <2>1, ReleaseGivesBack DEF ReapWrites
  <2>2. CASE BeginReap(w) \/ LockSlot(w) \/ ReapRows(w)
    BY <1>1, <2>2, BeginGoesOn, LockSlotGoesOn, ReapRowsGoesOn
  <2> QED
    BY <1>2, <2>1, <2>2 DEF Sweep
<1>3. ASSUME NEW w \in Workers, Caller(w) PROVE [Ledger!Next]_Ledger!ledger
  <2>1. CASE \/ \E t \in Tokens, s \in Slots, n \in 1..MaxPax :
                  BeginPlace(w, t, s, n) \/ BeginRehold(w, t, s, n) \/ BeginBook(w, t, s, n)
             \/ \E t \in Tokens : BeginExtend(w, t) \/ BeginRelease(w, t)
             \/ LockSlot(w)
    BY <1>1, <2>1, BeginGoesOn, LockSlotGoesOn
  <2>2. ASSUME NEW h \in Holds, PlaceNew(w, h) PROVE FALSE
    BY <2>2, WorkerFacts DEF PlaceNew, Op, HasArguments
  <2>3. ASSUME PlaceAgain(w) \/ ExtendWrites(w) PROVE FALSE
    BY <2>3, WorkerFacts DEF PlaceAgain, ExtendWrites, Op, HasArguments
  <2>4. ASSUME NEW h \in Holds, ReholdPlaces(w, h) PROVE [Ledger!Next]_Ledger!ledger
    BY <2>4, ReholdExchanges
  <2>5. CASE ReholdRefused(w) \/ ReleaseWrites(w)
    BY <2>5, ReleaseGivesBack DEF ReholdRefused, ReleaseWrites
  <2>6. CASE BookFromHold(w) \/ BookAfresh(w)
    BY <2>6, BookFromHoldHandsOver, BookAfreshExchanges
  <2> QED
    BY <1>3, <2>1, <2>2, <2>3, <2>4, <2>5, <2>6 DEF Caller
<1>4. ASSUME NEW w \in Workers, Rollback(w) PROVE [Ledger!Next]_Ledger!ledger
  BY <1>1, <1>4, RollbackGoesOn
<1>5. ASSUME NEW s \in Slots, NEW u \in UnlimitedChoices \cup {None}, NEW n \in CapacityChoices \cup {None},
             EditCapacity(s, u, n)
      PROVE  [Ledger!Next]_Ledger!ledger
  BY <1>5, EditIsLedgers
<1>6. CASE UNCHANGED vars
  BY <1>6, QuietIsUnseen DEF vars
<1> QED
  BY <1>2, <1>3, <1>4, <1>5, <1>6, CancelGivesBack, QuietIsUnseen, EditedAssumption DEF Next

\* What the ledger's proof says of the rows.
LEMMA LedgerBalance ==
  ASSUME IInv, L!IInv
  PROVE  SeatsConserved /\ \A r \in counted : Free[r] <= Given[r]
<1> DEFINE booked == {t \in Tokens : booking[t].state = "live"}
<1>1. SlotsTyped /\ LiveHolds \in SUBSET Holds /\ booked \in SUBSET Tokens
  BY DEF IInv, LiveHolds
<1>2. Ledger!LiveClaims = LiveHolds \cup booked
  <2>1. \A h \in Holds : Phase[h] = "live" <=> Live(h)
    BY HoldClaims DEF Live
  <2>2. \A t \in Tokens : Phase[t] = "live" <=> booking[t].state = "live"
    BY TokenClaims
  <2> QED
    BY <2>1, <2>2 DEF Ledger!LiveClaims, LiveHolds, Claims
<1>3. \A s \in counted : Free[s] + Ledger!Claimed(Ledger!LiveClaims, s) = Given[s]
  <2>1. L!LiveClaims = Ledger!LiveClaims
    BY Zenon DEF L!LiveClaims, Ledger!LiveClaims
  <2> QED
    BY <2>1, SameClaimed DEF L!IInv, L!Conserved
<1>4. ASSUME NEW s \in counted
      PROVE  /\ Ledger!Claimed(Ledger!LiveClaims, s) = SeatsHeld(LiveHolds, s) + SeatsBooked(s)
             /\ SeatsHeld(LiveHolds, s) \in Nat /\ SeatsBooked(s) \in Nat
  <2>1. \A C : Ledger!Claimed(C, s) = L!SeatTotal(At, Size, C, s)
    BY SameClaimed, L!ClaimedIsTotal, LedgerAssumptions
  <2>2. LiveHolds \in SUBSET Claims /\ booked \in SUBSET Claims /\ LiveHolds \cap booked = {}
    BY <1>1 DEF Claims
  <2> HIDE DEF booked
  <2>3. L!SeatTotal(At, Size, LiveHolds \cup booked, s)
          = L!SeatTotal(At, Size, LiveHolds, s) + L!SeatTotal(At, Size, booked, s)
    BY <2>2, L!SeatsAdd, LedgerAssumptions
  <2>4. L!SeatTotal(At, Size, LiveHolds, s) = SeatsHeld(LiveHolds, s)
    BY <1>1, <2>1, HeldIsClaimed
  <2>5. L!SeatTotal(At, Size, booked, s) = SeatsBooked(s)
    <3>1. \A t \in booked : /\ t \in Tokens /\ booking[t].state = "live"
                            /\ Size[t] = booking[t].pax /\ At[t] = booking[t].slot
      BY TokenClaims DEF booked
    <3>2. Ledger!SeatsOf(booked, s) = {p \in Tokens \X (1..MaxPax) :
                                         /\ booking[p[1]].state = "live" /\ booking[p[1]].slot = s
                                         /\ p[2] <= booking[p[1]].pax}
      BY <3>1 DEF Ledger!SeatsOf, booked
    <3>3. Ledger!Claimed(booked, s) = SeatsBooked(s)
      BY <3>2, OneCardinality DEF Ledger!Claimed, SeatsBooked
    <3> QED
      BY <2>1, <3>3
  <2>6. SeatsHeld(LiveHolds, s) \in Nat /\ L!SeatTotal(At, Size, booked, s) \in Nat
    BY <1>1, <2>2, SeatsHeldType, L!SeatsFinite, LedgerAssumptions
  <2> QED
    BY <1>2, <2>1, <2>3, <2>4, <2>5, <2>6 DEF booked
<1>5. ASSUME NEW s \in counted
      PROVE  /\ slot[s].remaining + SeatsHeld(LiveHolds, s) + SeatsBooked(s) = slot[s].initial
             /\ Free[s] <= Given[s]
  <2>1. PICK free, held, bought \in Nat :
          /\ free = slot[s].remaining /\ free = Free[s]
          /\ held = SeatsHeld(LiveHolds, s) /\ bought = SeatsBooked(s)
    BY <1>1, <1>4, SeatNumbers, CountedSeats
  <2>2. free + (held + bought) = Given[s] /\ Given[s] = slot[s].initial
    BY <1>3, <1>4, <2>1, CountedSeats
  <2>3. free + held + bought = slot[s].initial /\ free <= Given[s]
    BY <2>2
  <2> QED
    BY <2>1, <2>3
<1> QED
  BY <1>5 DEF SeatsConserved

\* Under the session's row lock, whatever transactions interleave, each commit
\* of service-holds.ts, of booking creation, of cancellation and of updateSlot is
\* one step of the seat ledger: an exchange of claims, another capacity, or the
\* writing off of the one departure whose seats that statement stops telling.
THEOREM Refinement ==
  ASSUME SessionFlow PROVE Spec => ImplementsSeatLedger
<1>1. IInv /\ L!IInv /\ [Next]_vars => [Ledger!Next]_Ledger!ledger
  BY LedgerBalance, StepImplements
<1>2. L!IInv /\ [Ledger!Next]_Ledger!ledger => L!IInv'
  BY L!StepIInv, LedgerAssumptions, SameLedger
<1>3. Init => Ledger!Init /\ L!IInv
  BY InitLedger, SameLedger, L!InitIInv, LedgerAssumptions
<1> QED
  BY InvariantHolds, <1>1, <1>2, <1>3, PTL DEF Spec, ImplementsSeatLedger

\* The free seats of a departure, its live holds and its bookings add up to its
\* capacity at every commit, until an operator makes it unlimited or gives it
\* fewer seats than are taken, or a booking of it ends while it is cancelled.
THEOREM NoSeatMintedOrLost ==
  ASSUME SessionFlow PROVE Spec => []SeatsConserved
<1>1. L!IInv /\ [Ledger!Next]_Ledger!ledger => L!IInv'
  BY L!StepIInv, LedgerAssumptions, SameLedger
<1>2. Ledger!Init => L!IInv
  BY SameLedger, L!InitIInv, LedgerAssumptions
<1>3. IInv /\ L!IInv => SeatsConserved
  BY LedgerBalance
<1> QED
  BY InvariantHolds, Refinement, <1>1, <1>2, <1>3, PTL DEF ImplementsSeatLedger
=============================================================================
