---------------------------- MODULE OutboxLeases ----------------------------
(***************************************************************************)
(* The timing EventOutbox abstracts from: how long a drain holds the rows  *)
(* of one claim against the visibility timeout that hides them.            *)
(*                                                                         *)
(* drainOutbox claims a whole batch with one statement, so every row of it *)
(* gets the same lease, but delivers only Concurrency of them at a time;   *)
(* the rest of the batch waits.  A delivery lasts at most HandlerTimeout,  *)
(* the bound the event bus puts on the handlers, which run in parallel.    *)
(* Statements take no time.  Time is measured in units of the              *)
(* handler timeout or finer; lease and elapsed are relative to now, so no  *)
(* bound on time is needed.                                                *)
(*                                                                         *)
(* Two history variables, age and overran, record which claims outlived    *)
(* their lease; nothing in the code reads them.                            *)
(***************************************************************************)
EXTENDS Integers, FiniteSets, FiniteSetsExt

CONSTANTS Events,          \* rows captured at the start
          Drains,          \* concurrent drains
          BatchSize,       \* limit
          Concurrency,     \* concurrency
          HandlerTimeout,  \* the bus's handlerTimeoutMs
          Visibility,      \* visibilityTimeoutMs
          Backoff          \* delay after a failed delivery

ASSUME EventsAssumption == IsFiniteSet(Events)
ASSUME LeaseParameters ==
  {BatchSize, Concurrency, HandlerTimeout, Visibility, Backoff} \subseteq Nat \ {0}

VARIABLES settled,   \* rows delivered
          lease,     \* time until the row is due again, 0 if it is due
          waiting,   \* waiting[d]: claimed rows d has not started
          running,   \* running[d]: rows d is delivering
          elapsed,   \* how long each of them has been going
          age,       \* age[d]: time since d claimed the rows it holds (history)
          overran    \* rows some drain still held when their lease ran out (history)

vars == <<settled, lease, waiting, running, elapsed, age, overran>>

Held(d) == waiting[d] \cup running[d]
Longest == IF Visibility > Backoff THEN Visibility ELSE Backoff

TypeOK ==
  /\ settled \in SUBSET Events
  /\ lease \in [Events -> 0..Longest]
  /\ waiting \in [Drains -> SUBSET Events]
  /\ running \in [Drains -> SUBSET Events]
  /\ \A d \in Drains : Cardinality(running[d]) <= Concurrency
  /\ elapsed \in [Drains -> [Events -> 0..HandlerTimeout]]
  /\ age \in [Drains -> Nat]
  /\ overran \in SUBSET Events

Init ==
  /\ settled = {}
  /\ lease = [e \in Events |-> 0]
  /\ waiting = [d \in Drains |-> {}]
  /\ running = [d \in Drains |-> {}]
  /\ elapsed = [d \in Drains |-> [e \in Events |-> 0]]
  /\ age = [d \in Drains |-> 0]
  /\ overran = {}

Due == {e \in Events \ settled : lease[e] = 0}

\* Mutant: the claim forgets its LIMIT.
ClaimSizeUnlimited(due) == Cardinality(due)

ClaimSize(due) == IF Cardinality(due) < BatchSize THEN Cardinality(due) ELSE BatchSize

\* Mutant: the claim forgets to hide the rows it takes.
ClaimWithoutLease(d) ==
  /\ Held(d) = {}
  /\ Due # {}
  /\ \E batch \in kSubset(ClaimSize(Due), Due) : waiting' = [waiting EXCEPT ![d] = batch]
  /\ age' = [age EXCEPT ![d] = 0]
  /\ UNCHANGED <<settled, lease, running, elapsed, overran>>

\* One statement claims up to BatchSize due rows and hides them all for the
\* visibility timeout; the drain comes back when the batch is through.
Claim(d) ==
  /\ Held(d) = {}
  /\ Due # {}
  /\ \E batch \in kSubset(ClaimSize(Due), Due) :
       /\ waiting' = [waiting EXCEPT ![d] = batch]
       /\ lease' = [e \in Events |-> IF e \in batch THEN Visibility ELSE lease[e]]
  /\ age' = [age EXCEPT ![d] = 0]
  /\ UNCHANGED <<settled, running, elapsed, overran>>

\* Mutant: the whole batch is started at once.
StartUnbounded(d, e) ==
  /\ e \in waiting[d]
  /\ waiting' = [waiting EXCEPT ![d] = @ \ {e}]
  /\ running' = [running EXCEPT ![d] = @ \cup {e}]
  /\ UNCHANGED <<settled, lease, elapsed, age, overran>>

\* A worker of forEachConcurrent takes the next row of the batch.
Start(d, e) ==
  /\ e \in waiting[d] /\ Cardinality(running[d]) < Concurrency
  /\ waiting' = [waiting EXCEPT ![d] = @ \ {e}]
  /\ running' = [running EXCEPT ![d] = @ \cup {e}]
  /\ UNCHANGED <<settled, lease, elapsed, age, overran>>

\* Handlers done or timed out: complete the row, or fail it and back off.
Finish(d, e, ok) ==
  /\ e \in running[d]
  /\ running' = [running EXCEPT ![d] = @ \ {e}]
  /\ elapsed' = [elapsed EXCEPT ![d][e] = 0]
  /\ IF ok THEN settled' = settled \cup {e} /\ UNCHANGED lease
           ELSE lease' = [lease EXCEPT ![e] = Backoff] /\ UNCHANGED settled
  /\ UNCHANGED <<waiting, age, overran>>

\* Time passes only while no worker is free to start a row and no delivery has
\* reached the bus's timeout.
Tick ==
  /\ \A d \in Drains : /\ waiting[d] = {} \/ Cardinality(running[d]) >= Concurrency
                       /\ \A e \in running[d] : elapsed[d][e] < HandlerTimeout
  /\ lease' = [e \in Events |-> IF lease[e] > 0 THEN lease[e] - 1 ELSE 0]
  /\ elapsed' = [d \in Drains |-> [e \in Events |->
                   IF e \in running[d] THEN elapsed[d][e] + 1 ELSE 0]]
  /\ age' = [d \in Drains |-> IF Held(d) = {} THEN 0 ELSE age[d] + 1]
  /\ overran' = overran \cup {e \in Events : \E d \in Drains : e \in Held(d) /\ age'[d] >= Visibility}
  /\ UNCHANGED <<settled, waiting, running>>

Next == \/ \E d \in Drains : Claim(d)
        \/ \E d \in Drains, e \in Events : Start(d, e)
        \/ \E d \in Drains, e \in Events, ok \in BOOLEAN : Finish(d, e, ok)
        \/ Tick

Spec == Init /\ [][Next]_vars
----------------------------------------------------------------------------
\* Rounds of deliveries that are over before a lease is, however slow, and the
\* rows of a full batch that are left for after them.
LeaseRounds == (Visibility - 1) \div HandlerTimeout
Tail == IF LeaseRounds * Concurrency < BatchSize THEN BatchSize - LeaseRounds * Concurrency ELSE 0

\* "concurrent drains (and a crashed claimer's successor) never double-claim"
\* (outbox.ts:236): no row is held by two drains at once.
NeverDoubleClaimed ==
  \A d1, d2 \in Drains : d1 # d2 => Held(d1) \cap Held(d2) = {}

\* What claim and settlement do guarantee, whatever the lease: a row two drains
\* hold is one that a drain held beyond its lease, now or earlier.  Another row of
\* the same late batch is safe, and so is the batch of the drain that was on time.
OnlyOverdueRowsTwice ==
  \A d1, d2 \in Drains : d1 # d2 => Held(d1) \cap Held(d2) \subseteq overran

\* How many rows that can be: forEachConcurrent (outbox.ts:446) idles no worker
\* while a row waits, so only the tail of a batch outlives the lease it shares.
OverdueRowsAreTheTail ==
  \A d \in Drains : age[d] >= Visibility => Cardinality(Held(d)) <= Tail
============================================================================
