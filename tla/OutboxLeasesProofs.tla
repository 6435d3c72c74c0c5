------------------------- MODULE OutboxLeasesProofs -------------------------
(***************************************************************************)
(* Proofs about OutboxLeases, for any rows, drains, batch size,            *)
(* concurrency, timeouts and backoff, long enough lease or not: only rows  *)
(* that outlived their lease are ever held twice, and those are at most    *)
(* the Tail of a batch.                                                    *)
(*                                                                         *)
(* The argument is that of list scheduling.  No worker idles while a row   *)
(* waits, so once a batch is older than k handler timeouts, (k + 1) times  *)
(* Concurrency of its rows were started by then.                           *)
(***************************************************************************)
EXTENDS OutboxLeases, FiniteSetTheorems, TLAPS

\* Rows of d's batch that were not started k timeouts after it was claimed.
Late(d, k) == {e \in Held(d) : elapsed[d][e] < age[d] - k * HandlerTimeout}

OnSchedule(d) ==
  /\ Cardinality(Held(d)) <= BatchSize
  /\ \A k \in Nat : age[d] > k * HandlerTimeout =>
       Late(d, k) = {} \/ Cardinality(Late(d, k)) <= BatchSize - (k + 1) * Concurrency

StartedOnce == \A d \in Drains : waiting[d] \cap running[d] = {}
FreshRows == \A d \in Drains, e \in Events : e \notin running[d] => elapsed[d][e] = 0
Scheduled == \A d \in Drains : OnSchedule(d)

\* A row is hidden for the rest of the lease it is held under, unless it overran one.
LeasesRun == \A d \in Drains : \A e \in Held(d) : e \in overran \/ lease[e] = Visibility - age[d]
OverdueIsOverran == \A d \in Drains : age[d] >= Visibility => Held(d) \subseteq overran

IInv == /\ TypeOK /\ StartedOnce /\ FreshRows
        /\ Scheduled /\ LeasesRun /\ OverdueIsOverran /\ OnlyOverdueRowsTwice

USE EventsAssumption, LeaseParameters

LEMMA Parameters ==
  /\ BatchSize \in Nat /\ Concurrency \in Nat /\ HandlerTimeout \in Nat /\ Visibility \in Nat /\ Backoff \in Nat
  /\ BatchSize > 0 /\ Concurrency > 0 /\ HandlerTimeout > 0 /\ Visibility > 0 /\ Backoff > 0
OBVIOUS

LEMMA RoundsInLease ==
  /\ LeaseRounds \in Nat /\ LeaseRounds * HandlerTimeout < Visibility
  /\ LeaseRounds * Concurrency \in Nat
<1>1. PICK v \in Nat, h \in Nat : v = Visibility - 1 /\ h = HandlerTimeout /\ h > 0
  OBVIOUS
<1>2. PICK n \in Int : n = v \div h
  BY <1>1
<1>3. h * n <= v /\ v < h * n + h
  BY <1>1, <1>2
<1>4. n >= 0
  BY <1>1, <1>3
<1> QED
  BY <1>1, <1>2, <1>3, <1>4 DEF LeaseRounds

LEMMA HeldFinite ==
  ASSUME TypeOK, NEW d \in Drains
  PROVE  /\ waiting[d] \in SUBSET Events /\ running[d] \in SUBSET Events /\ Held(d) \in SUBSET Events
         /\ IsFiniteSet(waiting[d]) /\ IsFiniteSet(running[d]) /\ IsFiniteSet(Held(d))
         /\ Cardinality(waiting[d]) \in Nat /\ Cardinality(running[d]) \in Nat /\ Cardinality(Held(d)) \in Nat
<1>1. waiting[d] \in SUBSET Events /\ running[d] \in SUBSET Events /\ Held(d) \in SUBSET Events
  BY DEF TypeOK, Held
<1> QED
  BY <1>1, FS_Subset, FS_CardinalityType

LEMMA LateFinite ==
  ASSUME TypeOK, NEW d \in Drains, NEW k \in Nat
  PROVE  /\ Late(d, k) \in SUBSET Held(d) /\ IsFiniteSet(Late(d, k))
         /\ Cardinality(Late(d, k)) \in Nat
<1>1. Late(d, k) \in SUBSET Held(d)
  BY DEF Late
<1> QED
  BY <1>1, HeldFinite, FS_Subset, FS_CardinalityType

LEMMA InitIInv == Init => IInv
<1> SUFFICES ASSUME Init PROVE IInv
  OBVIOUS
<1>1. \A d \in Drains : Held(d) = {} /\ running[d] = {} /\ waiting[d] = {} /\ age[d] = 0
  BY DEF Init, Held
<1>2. 0 \in 0..Longest /\ 0 \in 0..HandlerTimeout
  BY DEF Longest
<1>3. Cardinality({}) = 0
  BY FS_EmptySet
<1>4. TypeOK
  BY <1>1, <1>2, <1>3 DEF Init, TypeOK
<1>5. Scheduled
  <2>1. ASSUME NEW d \in Drains PROVE OnSchedule(d)
    <3>1. \A k \in Nat : Late(d, k) = {}
      BY <1>1 DEF Late
    <3>2. Cardinality(Held(d)) <= BatchSize
      BY <1>1, <1>3
    <3> QED
      BY <3>1, <3>2 DEF OnSchedule
  <2> QED
    BY <2>1 DEF Scheduled
<1> QED
  BY <1>1, <1>4, <1>5
  DEF IInv, StartedOnce, FreshRows, LeasesRun, OverdueIsOverran, OnlyOverdueRowsTwice, Init

\* A batch that only shrinks stays on schedule.
LEMMA ScheduleStays ==
  ASSUME TypeOK, NEW d \in Drains, OnSchedule(d), age'[d] = age[d], Held(d)' \subseteq Held(d),
         \A e \in Held(d)' : elapsed'[d][e] = elapsed[d][e]
  PROVE  OnSchedule(d)'
<1>1. Cardinality(Held(d)') <= BatchSize
  <2>1. Held(d)' \in SUBSET Held(d) /\ IsFiniteSet(Held(d))
    BY HeldFinite
  <2>2. Cardinality(Held(d)') <= Cardinality(Held(d)) /\ Cardinality(Held(d)') \in Nat /\ Cardinality(Held(d)) \in Nat
    BY <2>1, HeldFinite, FS_Subset, FS_CardinalityType
  <2>3. Cardinality(Held(d)) <= BatchSize
    BY DEF OnSchedule
  <2> QED
    BY <2>2, <2>3
<1>2. ASSUME NEW k \in Nat, age'[d] > k * HandlerTimeout
      PROVE  Late(d, k)' = {} \/ Cardinality(Late(d, k)') <= BatchSize - (k + 1) * Concurrency
  <2>1. Late(d, k)' \in SUBSET Late(d, k)
    BY DEF Late
  <2>2. /\ Cardinality(Late(d, k)') <= Cardinality(Late(d, k))
        /\ Cardinality(Late(d, k)') \in Nat /\ Cardinality(Late(d, k)) \in Nat
    BY <2>1, LateFinite, FS_Subset, FS_CardinalityType
  <2>3. Late(d, k) = {} \/ Cardinality(Late(d, k)) <= BatchSize - (k + 1) * Concurrency
    BY <1>2 DEF OnSchedule
  <2>4. PICK room \in Int : room = BatchSize - (k + 1) * Concurrency
    OBVIOUS
  <2> QED
    BY <2>1, <2>2, <2>3, <2>4
<1> QED
  BY <1>1, <1>2 DEF OnSchedule

\* What the types, StartedOnce and FreshRows need holds on its own.
Typed == TypeOK /\ StartedOnce /\ FreshRows

LEMMA Leases == Visibility \in 0..Longest /\ Backoff \in 0..Longest /\ 0 \in 0..Longest /\ Longest \in Nat
BY DEF Longest

LEMMA ClaimTyped == ASSUME Typed, NEW d \in Drains, Claim(d) PROVE Typed'
<1>1. PICK batch \in SUBSET Due :
        /\ waiting' = [waiting EXCEPT ![d] = batch]
        /\ lease' = [e \in Events |-> IF e \in batch THEN Visibility ELSE lease[e]]
  BY DEF Claim, kSubset
<1>2. batch \in SUBSET Events
  BY DEF Due
<1>3. /\ settled' = settled /\ running' = running /\ elapsed' = elapsed /\ running[d] = {}
      /\ overran' = overran /\ age' \in [Drains -> Nat]
  BY DEF Claim, Held, Typed, TypeOK
<1>4. lease' \in [Events -> 0..Longest]
  BY <1>1, Leases DEF Typed, TypeOK
<1>5. waiting' \in [Drains -> SUBSET Events]
  BY <1>1, <1>2 DEF Typed, TypeOK
<1>6. TypeOK'
  BY <1>3, <1>4, <1>5 DEF Typed, TypeOK
<1>7. StartedOnce'
  BY <1>1, <1>3 DEF Typed, StartedOnce, TypeOK
<1> QED
  BY <1>3, <1>6, <1>7 DEF Typed, FreshRows

LEMMA StartTyped ==
  ASSUME Typed, NEW d \in Drains, NEW e \in Events, Start(d, e)
  PROVE  Typed' /\ \A x \in Drains : Held(x)' = Held(x)
<1>1. /\ waiting' = [waiting EXCEPT ![d] = waiting[d] \ {e}]
      /\ running' = [running EXCEPT ![d] = running[d] \cup {e}]
      /\ settled' = settled /\ lease' = lease /\ elapsed' = elapsed /\ e \in waiting[d]
      /\ age' = age /\ overran' = overran
  BY DEF Start
<1>2. waiting' \in [Drains -> SUBSET Events] /\ running' \in [Drains -> SUBSET Events]
  BY <1>1 DEF Typed, TypeOK
<1>3. \A x \in Drains : Cardinality(running'[x]) <= Concurrency
  <2>1. IsFiniteSet(running[d]) /\ Cardinality(running[d]) \in Nat
    BY HeldFinite DEF Typed
  <2>2. Cardinality(running[d] \cup {e}) = Cardinality(running[d]) + 1
    <3>1. e \notin running[d]
      BY <1>1 DEF Typed, StartedOnce
    <3> QED
      BY <2>1, <3>1, FS_AddElement
  <2>3. Cardinality(running[d]) < Concurrency
    BY DEF Start
  <2>4. Cardinality(running[d] \cup {e}) <= Concurrency
    BY <2>1, <2>2, <2>3
  <2> QED
    BY <1>1, <2>4 DEF Typed, TypeOK
<1>4. TypeOK'
  BY <1>1, <1>2, <1>3 DEF Typed, TypeOK
<1>5. \A x \in Drains : IF x = d THEN waiting'[x] = waiting[x] \ {e} /\ running'[x] = running[x] \cup {e}
                                 ELSE waiting'[x] = waiting[x] /\ running'[x] = running[x]
  BY <1>1 DEF Typed, TypeOK
<1>6. StartedOnce'
  BY <1>5 DEF Typed, StartedOnce
<1>7. FreshRows'
  BY <1>1, <1>5 DEF Typed, FreshRows
<1>8. \A x \in Drains : Held(x)' = Held(x)
  BY <1>1, <1>5 DEF Held
<1> QED
  BY <1>4, <1>6, <1>7, <1>8 DEF Typed

LEMMA FinishTyped ==
  ASSUME Typed, NEW d \in Drains, NEW e \in Events, NEW ok \in BOOLEAN, Finish(d, e, ok)
  PROVE  /\ Typed'
         /\ e \in Held(d)
         /\ e \in running[d] /\ waiting' = waiting /\ age' = age /\ overran' = overran
         /\ \A x \in Drains : running'[x] = IF x = d THEN running[x] \ {e} ELSE running[x]
         /\ \A x \in Drains, r \in Events : ~(x = d /\ r = e) => elapsed'[x][r] = elapsed[x][r]
         /\ \A r \in Events : r # e => lease'[r] = lease[r]
<1>1. /\ running' = [running EXCEPT ![d] = running[d] \ {e}]
      /\ elapsed' = [elapsed EXCEPT ![d] = [elapsed[d] EXCEPT ![e] = 0]]
      /\ waiting' = waiting /\ e \in running[d] /\ age' = age /\ overran' = overran
  BY DEF Finish
<1>2. lease' = lease \/ lease' = [lease EXCEPT ![e] = Backoff]
  BY DEF Finish
<1>3. settled' \in SUBSET Events
  BY DEF Finish, Typed, TypeOK
<1>4. lease' \in [Events -> 0..Longest] /\ \A r \in Events : r # e => lease'[r] = lease[r]
  BY <1>2, Leases DEF Typed, TypeOK
<1>5. running' \in [Drains -> SUBSET Events]
  BY <1>1 DEF Typed, TypeOK
<1>6. \A x \in Drains : running'[x] = IF x = d THEN running[x] \ {e} ELSE running[x]
  BY <1>1 DEF Typed, TypeOK
<1>7. \A x \in Drains : Cardinality(running'[x]) <= Concurrency
  <2>1. IsFiniteSet(running[d]) /\ Cardinality(running[d]) \in Nat /\ running[d] \ {e} \in SUBSET running[d]
    BY HeldFinite DEF Typed
  <2>2. Cardinality(running[d] \ {e}) <= Cardinality(running[d]) /\ Cardinality(running[d] \ {e}) \in Nat
    BY <2>1, FS_Subset, FS_CardinalityType
  <2>3. Cardinality(running[d]) <= Concurrency
    BY DEF Typed, TypeOK
  <2>4. Cardinality(running[d] \ {e}) <= Concurrency
    BY <2>1, <2>2, <2>3
  <2> QED
    BY <1>6, <2>4 DEF Typed, TypeOK
<1>8. 0 \in 0..HandlerTimeout
  OBVIOUS
<1>9. [elapsed[d] EXCEPT ![e] = 0] \in [Events -> 0..HandlerTimeout]
  BY <1>8 DEF Typed, TypeOK
<1>10. elapsed' \in [Drains -> [Events -> 0..HandlerTimeout]]
  BY <1>1, <1>9 DEF Typed, TypeOK
<1>11. /\ \A x \in Drains, r \in Events : ~(x = d /\ r = e) => elapsed'[x][r] = elapsed[x][r]
       /\ elapsed'[d][e] = 0
  BY <1>1 DEF Typed, TypeOK
<1>12. TypeOK'
  BY <1>1, <1>3, <1>4, <1>5, <1>7, <1>10 DEF Typed, TypeOK
<1>13. StartedOnce'
  BY <1>1, <1>6 DEF Typed, StartedOnce
<1>14. FreshRows'
  BY <1>6, <1>11 DEF Typed, FreshRows
<1> QED
  BY <1>1, <1>4, <1>6, <1>11, <1>12, <1>13, <1>14 DEF Typed, Held

LEMMA TickTyped == ASSUME Typed, Tick PROVE Typed' /\ \A d \in Drains : Held(d)' = Held(d)
<1>1. settled' = settled /\ waiting' = waiting /\ running' = running
  BY DEF Tick
<1>2. lease' \in [Events -> 0..Longest]
  <2>1. \A e \in Events : lease[e] \in 0..Longest
    BY DEF Typed, TypeOK
  <2>2. \A e \in Events : (IF lease[e] > 0 THEN lease[e] - 1 ELSE 0) \in 0..Longest
    BY <2>1, Leases
  <2> QED
    BY <2>2 DEF Tick
<1>3. elapsed' \in [Drains -> [Events -> 0..HandlerTimeout]]
  <2>1. \A d \in Drains, e \in Events :
          (IF e \in running[d] THEN elapsed[d][e] + 1 ELSE 0) \in 0..HandlerTimeout
    BY DEF Typed, TypeOK, Tick
  <2> QED
    BY <2>1 DEF Tick
<1>4. TypeOK'
  <2>1. age' \in [Drains -> Nat] /\ overran' \in SUBSET Events
    BY DEF Typed, TypeOK, Tick
  <2> QED
    BY <1>1, <1>2, <1>3, <2>1 DEF Typed, TypeOK
<1>5. StartedOnce' /\ \A d \in Drains : Held(d)' = Held(d)
  BY <1>1 DEF Typed, StartedOnce, Held
<1>6. FreshRows'
  BY <1>1 DEF Typed, FreshRows, Tick
<1> QED
  BY <1>4, <1>5, <1>6 DEF Typed

\* The rows, the leases and the clocks keep their types, and a drain never
\* delivers more than Concurrency rows at a time (forEachConcurrent, outbox.ts:446).
THEOREM TypeCorrect == Spec => []TypeOK
<1>1. Init => Typed
  BY InitIInv DEF IInv, Typed
<1>2. Typed /\ [Next]_vars => Typed'
  <2>1. CASE UNCHANGED vars
    BY <2>1 DEF vars, Typed, TypeOK, StartedOnce, FreshRows
  <2> QED
    BY <2>1, ClaimTyped, StartTyped, FinishTyped, TickTyped DEF Next
<1>3. Typed => TypeOK
  BY DEF Typed
<1> QED
  BY <1>1, <1>2, <1>3, PTL DEF Spec

LEMMA ClaimStep == ASSUME IInv, NEW d \in Drains, Claim(d) PROVE IInv'
<1>1. PICK batch \in SUBSET Due :
        /\ waiting' = [waiting EXCEPT ![d] = batch]
        /\ lease' = [e \in Events |-> IF e \in batch THEN Visibility ELSE lease[e]]
        /\ Cardinality(batch) = ClaimSize(Due)
  BY DEF Claim, kSubset
<1>2. batch \in SUBSET Events /\ \A e \in batch : lease[e] = 0
  BY DEF Due
<1>3. TypeOK /\ running' = running /\ elapsed' = elapsed /\ running[d] = {} /\ overran' = overran
  BY DEF IInv, Claim, Held
<1>4. age'[d] = 0 /\ \A x \in Drains : x # d => age'[x] = age[x]
  BY <1>3 DEF Claim, TypeOK
<1>5. Held(d)' = batch /\ \A x \in Drains : x # d => Held(x)' = Held(x)
  BY <1>1, <1>3 DEF Held, TypeOK
<1>6. \A x \in Drains : Held(x) \cap batch \subseteq overran
  <2>1. ASSUME NEW x \in Drains, NEW e \in Held(x) \cap batch PROVE e \in overran
    <3>1. age[x] \in Nat /\ lease[e] = 0
      BY <1>2, <1>3 DEF TypeOK
    <3>2. CASE lease[e] = Visibility - age[x]
      BY <3>1, <3>2 DEF IInv, OverdueIsOverran
    <3> QED
      BY <3>2 DEF IInv, LeasesRun
  <2> QED
    BY <2>1
<1>7. Typed'
  BY ClaimTyped DEF Typed, IInv
<1>8. OnlyOverdueRowsTwice'
  BY <1>3, <1>5, <1>6 DEF IInv, OnlyOverdueRowsTwice
<1>9. OnSchedule(d)'
  <2>1. Cardinality(Held(d)') <= BatchSize
    <3>1. IsFiniteSet(Due) /\ Due \in SUBSET Events
      BY FS_Subset DEF Due
    <3>2. Cardinality(Due) \in Nat
      BY <3>1, FS_CardinalityType
    <3> QED
      BY <1>1, <1>5, <3>2 DEF ClaimSize
  <2>2. \A k \in Nat : ~(0 > k * HandlerTimeout)
    OBVIOUS
  <2> QED
    BY <1>4, <2>1, <2>2 DEF OnSchedule
<1>10. ASSUME NEW x \in Drains, x # d PROVE OnSchedule(x)'
  <2>1. OnSchedule(x) /\ age'[x] = age[x] /\ Held(x)' = Held(x)
    BY <1>4, <1>5, <1>10 DEF IInv, Scheduled
  <2>2. \A e \in Held(x)' : elapsed'[x][e] = elapsed[x][e]
    BY <1>3
  <2> QED
    BY <1>3, <2>1, <2>2, ScheduleStays
<1>11. Scheduled'
  BY <1>9, <1>10 DEF Scheduled
<1>12. LeasesRun'
  <2>1. ASSUME NEW e \in batch PROVE lease'[e] = Visibility - age'[d]
    BY <1>1, <1>2, <1>4
  <2>2. ASSUME NEW x \in Drains, x # d, NEW e \in Held(x)
        PROVE  e \in overran \/ lease'[e] = Visibility - age'[x]
    <3>1. CASE e \in batch
      BY <1>6, <3>1
    <3>2. CASE e \notin batch
      <4>1. e \in Events
        BY <1>3, HeldFinite
      <4> QED
        BY <1>1, <1>4, <2>2, <3>2, <4>1 DEF IInv, LeasesRun
    <3> QED
      BY <3>1, <3>2
  <2> QED
    BY <1>3, <1>5, <2>1, <2>2 DEF LeasesRun
<1>13. OverdueIsOverran'
  BY <1>3, <1>4, <1>5 DEF IInv, OverdueIsOverran
<1> QED
  BY <1>7, <1>8, <1>11, <1>12, <1>13 DEF IInv, Typed

LEMMA StartStep == ASSUME IInv, NEW d \in Drains, NEW e \in Events, Start(d, e) PROVE IInv'
<1>1. TypeOK /\ lease' = lease /\ elapsed' = elapsed /\ age' = age /\ overran' = overran
  BY DEF IInv, Start
<1>2. Typed' /\ \A x \in Drains : Held(x)' = Held(x)
  BY StartTyped DEF IInv, Typed
<1>3. OnlyOverdueRowsTwice' /\ LeasesRun' /\ OverdueIsOverran'
  BY <1>1, <1>2 DEF IInv, OnlyOverdueRowsTwice, LeasesRun, OverdueIsOverran
<1>4. ASSUME NEW x \in Drains PROVE OnSchedule(x)'
  <2>1. OnSchedule(x)
    BY DEF IInv, Scheduled
  <2> QED
    BY <1>1, <1>2, <2>1, ScheduleStays
<1>5. Scheduled'
  BY <1>4 DEF Scheduled
<1> QED
  BY <1>2, <1>3, <1>5 DEF IInv, Typed

\* Failing a row that overran its lease may put it back on sale under another
\* drain's hands; failing any other row concerns its only holder.
LEMMA FinishStep ==
  ASSUME IInv, NEW d \in Drains, NEW e \in Events, NEW ok \in BOOLEAN, Finish(d, e, ok)
  PROVE  IInv'
<1>1. /\ Typed'
      /\ e \in Held(d)
      /\ waiting' = waiting
      /\ \A x \in Drains : running'[x] = IF x = d THEN running[x] \ {e} ELSE running[x]
      /\ \A x \in Drains, r \in Events : ~(x = d /\ r = e) => elapsed'[x][r] = elapsed[x][r]
      /\ \A r \in Events : r # e => lease'[r] = lease[r]
      /\ e \in running[d] /\ age' = age /\ overran' = overran
  <2>1. Typed
    BY DEF IInv, Typed
  <2> QED
    BY <2>1, FinishTyped, SMT
<1>2. e \in running[d] /\ e \notin waiting[d] /\ TypeOK /\ age' = age /\ overran' = overran
  BY <1>1 DEF IInv, StartedOnce
<1>3. \A x \in Drains : Held(x)' = IF x = d THEN Held(x) \ {e} ELSE Held(x)
  BY <1>1, <1>2 DEF Held
<1>4. OnlyOverdueRowsTwice' /\ OverdueIsOverran'
  BY <1>2, <1>3 DEF IInv, OnlyOverdueRowsTwice, OverdueIsOverran
<1>5. ASSUME NEW x \in Drains PROVE OnSchedule(x)'
  <2>1. OnSchedule(x) /\ age'[x] = age[x] /\ Held(x)' \subseteq Held(x)
    BY <1>2, <1>3 DEF IInv, Scheduled
  <2>2. \A r \in Held(x)' : r \in Events /\ elapsed'[x][r] = elapsed[x][r]
    BY <1>1, <1>2, <1>3, HeldFinite
  <2> QED
    BY <1>2, <2>1, <2>2, ScheduleStays
<1>6. Scheduled'
  BY <1>5 DEF Scheduled
<1>7. LeasesRun'
  <2>1. ASSUME NEW x \in Drains, NEW r \in Held(x)'
        PROVE  r \in overran' \/ lease'[r] = Visibility - age'[x]
    <3>1. r \in Held(x) /\ r \in Events /\ (x = d => r # e)
      BY <1>2, <1>3, <2>1, HeldFinite
    <3>2. CASE r = e
      BY <1>1, <1>2, <3>1, <3>2 DEF IInv, OnlyOverdueRowsTwice
    <3>3. CASE r # e
      BY <1>1, <1>2, <3>1, <3>3 DEF IInv, LeasesRun
    <3> QED
      BY <3>2, <3>3
  <2> QED
    BY <2>1 DEF LeasesRun
<1> QED
  BY <1>1, <1>4, <1>6, <1>7 DEF IInv, Typed

\* When a batch is exactly k timeouts old, what waits still is what the (k + 1)
\* rounds begun by now did not reach: every row of a round before is through.
LEMMA RoundBegins ==
  ASSUME TypeOK, StartedOnce, FreshRows, NEW d \in Drains, NEW k \in Nat,
         age[d] = k * HandlerTimeout, OnSchedule(d),
         waiting[d] = {} \/ Cardinality(running[d]) >= Concurrency,
         \A e \in running[d] : elapsed[d][e] < HandlerTimeout
  PROVE  waiting[d] = {} \/ Cardinality(waiting[d]) <= BatchSize - (k + 1) * Concurrency
<1>1. Held(d) = {} \/ Cardinality(Held(d)) <= BatchSize - k * Concurrency
  <2>1. CASE k = 0
    BY <2>1 DEF OnSchedule
  <2>2. CASE k > 0
    <3>1. PICK j \in Nat : j = k - 1
      BY <2>2
    <3>2. PICK last \in Nat : last = j * HandlerTimeout
      OBVIOUS
    <3>3. age[d] = last + HandlerTimeout /\ age[d] > j * HandlerTimeout
      BY <3>1, <3>2
    <3>4. Late(d, j) = Held(d)
      <4>1. \A e \in Held(d) : elapsed[d][e] \in Nat /\ elapsed[d][e] < HandlerTimeout
        BY HeldFinite DEF Held, FreshRows, TypeOK
      <4>2. age[d] - j * HandlerTimeout = HandlerTimeout
        BY <3>2, <3>3
      <4> QED
        BY <4>1, <4>2 DEF Late
    <3>5. Late(d, j) = {} \/ Cardinality(Late(d, j)) <= BatchSize - (j + 1) * Concurrency
      BY <3>3 DEF OnSchedule
    <3> QED
      BY <3>1, <3>4, <3>5
  <2> QED
    BY <2>1, <2>2
<1>2. CASE waiting[d] # {}
  <2>1. Held(d) # {} /\ Cardinality(running[d]) >= Concurrency
    BY <1>2 DEF Held
  <2>2. Cardinality(Held(d)) = Cardinality(waiting[d]) + Cardinality(running[d])
    <3>1. Cardinality(waiting[d] \cap running[d]) = 0
      BY FS_EmptySet DEF StartedOnce
    <3>2. Cardinality(Held(d)) = Cardinality(waiting[d]) + Cardinality(running[d]) - Cardinality(waiting[d] \cap running[d])
      BY HeldFinite, FS_Union DEF Held
    <3>3. PICK w \in Nat, r \in Nat : w = Cardinality(waiting[d]) /\ r = Cardinality(running[d])
      BY HeldFinite
    <3> QED
      BY <3>1, <3>2, <3>3
  <2>3. PICK h \in Nat, w \in Nat, r \in Nat :
          h = Cardinality(Held(d)) /\ w = Cardinality(waiting[d]) /\ r = Cardinality(running[d])
    BY HeldFinite
  <2>4. h <= BatchSize - k * Concurrency /\ h = w + r /\ r >= Concurrency
    BY <1>1, <2>1, <2>2, <2>3
  <2>5. PICK rows \in Nat : rows = k * Concurrency /\ (k + 1) * Concurrency = rows + Concurrency
    OBVIOUS
  <2> QED
    BY <2>3, <2>4, <2>5
<1> QED
  BY <1>2

\* A unit of time later a batch is still on schedule.
LEMMA TimePasses ==
  ASSUME IInv, Tick, NEW d \in Drains, Held(d) # {}
  PROVE  OnSchedule(d)'
<1>1. Typed /\ TypeOK /\ StartedOnce /\ FreshRows /\ OnSchedule(d)
  BY DEF IInv, Typed, Scheduled
<1>2. Held(d)' = Held(d) /\ waiting' = waiting /\ running' = running
  BY <1>1, TickTyped DEF Tick
<1>3. \A e \in Held(d) : /\ e \in Events /\ elapsed[d][e] \in Nat
                         /\ e \in running[d] => elapsed'[d][e] = elapsed[d][e] + 1
                         /\ e \notin running[d] => elapsed[d][e] = 0 /\ elapsed'[d][e] = 0
  BY <1>1, HeldFinite DEF Tick, FreshRows, TypeOK
<1>4. PICK now \in Nat : now = age[d] /\ age'[d] = now + 1
  BY <1>1 DEF Tick, TypeOK
<1>5. Cardinality(Held(d)') <= BatchSize
  BY <1>1, <1>2 DEF OnSchedule
<1>6. ASSUME NEW k \in Nat, age'[d] > k * HandlerTimeout
      PROVE  Late(d, k)' = {} \/ Cardinality(Late(d, k)') <= BatchSize - (k + 1) * Concurrency
  <2>1. PICK past \in Nat : past = k * HandlerTimeout
    OBVIOUS
  <2>2. Late(d, k)' = {e \in Held(d) : elapsed'[d][e] < now + 1 - past}
    BY <1>2, <1>4, <2>1 DEF Late
  <2>3. Late(d, k) = {e \in Held(d) : elapsed[d][e] < now - past}
    BY <1>4, <2>1 DEF Late
  <2>4. CASE now > past
    <3>1. Late(d, k)' = Late(d, k)
      BY <1>3, <2>2, <2>3, <2>4
    <3> QED
      BY <1>1, <1>4, <2>1, <2>4, <3>1 DEF OnSchedule
  <2>5. CASE now = past
    <3>1. Late(d, k)' = waiting[d]
      <4>1. now + 1 - past = 1
        BY <2>5
      <4>2. \A e \in Held(d) : elapsed'[d][e] < 1 <=> e \notin running[d]
        BY <1>3
      <4>3. Late(d, k)' = {e \in Held(d) : e \notin running[d]}
        BY <2>2, <4>1, <4>2
      <4> QED
        BY <1>1, <4>3 DEF StartedOnce, Held
    <3>2. waiting[d] = {} \/ Cardinality(waiting[d]) <= BatchSize - (k + 1) * Concurrency
      BY <1>1, <1>4, <2>1, <2>5, RoundBegins DEF Tick
    <3> QED
      BY <3>1, <3>2
  <2> QED
    BY <1>4, <1>6, <2>1, <2>4, <2>5
<1> QED
  BY <1>5, <1>6 DEF OnSchedule

LEMMA TickStep == ASSUME IInv, Tick PROVE IInv'
<1>1. Typed' /\ \A d \in Drains : Held(d)' = Held(d) /\ Held(d) \in SUBSET Events
  BY TickTyped, HeldFinite DEF IInv, Typed
<1>2. \A d \in Drains : age[d] \in Nat /\ age'[d] = IF Held(d) = {} THEN 0 ELSE age[d] + 1
  BY DEF IInv, TypeOK, Tick
<1>3. overran \subseteq overran' /\ \A d \in Drains : age'[d] >= Visibility => Held(d) \subseteq overran'
  BY <1>1 DEF Tick
<1>4. OnlyOverdueRowsTwice' /\ OverdueIsOverran'
  BY <1>1, <1>3 DEF IInv, OnlyOverdueRowsTwice, OverdueIsOverran
<1>5. LeasesRun'
  <2>1. ASSUME NEW d \in Drains, NEW e \in Held(d), e \notin overran'
        PROVE  lease'[e] = Visibility - age'[d]
    <3>1. e \in Events /\ e \notin overran /\ lease[e] = Visibility - age[d] /\ age'[d] = age[d] + 1
      BY <1>1, <1>2, <1>3, <2>1 DEF IInv, LeasesRun
    <3>2. age'[d] < Visibility
      BY <1>2, <1>3, <2>1
    <3>3. lease'[e] = IF lease[e] > 0 THEN lease[e] - 1 ELSE 0
      BY <3>1 DEF Tick
    <3> QED
      BY <1>2, <3>1, <3>2, <3>3
  <2> QED
    BY <1>1, <2>1 DEF LeasesRun
<1>6. ASSUME NEW d \in Drains PROVE OnSchedule(d)'
  <2>1. CASE Held(d) # {}
    BY <2>1, TimePasses
  <2>2. CASE Held(d) = {}
    <3>1. Held(d)' = {} /\ Cardinality({}) = 0
      BY <1>1, <2>2, FS_EmptySet
    <3>2. \A k \in Nat : Late(d, k)' = {}
      BY <3>1 DEF Late
    <3> QED
      BY <3>1, <3>2 DEF OnSchedule
  <2> QED
    BY <2>1, <2>2
<1>7. Scheduled'
  BY <1>6 DEF Scheduled
<1> QED
  BY <1>1, <1>4, <1>5, <1>7 DEF IInv, Typed

LEMMA StepIInv == ASSUME IInv, [Next]_vars PROVE IInv'
<1>1. CASE UNCHANGED vars
  BY <1>1
  DEF vars, IInv, TypeOK, StartedOnce, FreshRows, Scheduled, OnSchedule, Late,
      LeasesRun, OverdueIsOverran, OnlyOverdueRowsTwice, Held
<1> QED
  BY <1>1, ClaimStep, StartStep, FinishStep, TickStep DEF Next

\* Whatever the lease, the batch size and the pace of the handlers, a row is held
\* by two drains only if some drain held it beyond its lease: claiming and settling
\* (outbox.ts:240, 352) endanger no row of a batch that is on time.
THEOREM OnlyOverdue == Spec => []OnlyOverdueRowsTwice
<1>1. IInv /\ [Next]_vars => IInv'
  BY StepIInv
<1>2. IInv => OnlyOverdueRowsTwice
  BY DEF IInv
<1> QED
  BY InitIInv, <1>1, <1>2, PTL DEF Spec

\* A batch that is on schedule has no more than its tail left when its lease is over.
LEMMA TailOfSchedule ==
  ASSUME IInv, NEW d \in Drains, age[d] >= Visibility
  PROVE  Cardinality(Held(d)) <= Tail
<1>1. TypeOK /\ OnSchedule(d) /\ Cardinality(Held(d)) \in Nat /\ Cardinality(Held(d)) <= BatchSize
  BY HeldFinite DEF IInv, Scheduled, OnSchedule
<1>2. PICK n \in Nat, rows \in Nat : n = LeaseRounds /\ rows = n * Concurrency
  BY RoundsInLease
<1>3. PICK now \in Nat, spent \in Nat : now = age[d] /\ spent = n * HandlerTimeout /\ now > spent
  BY <1>1, <1>2, RoundsInLease DEF TypeOK
<1>4. CASE n = 0
  BY <1>1, <1>2, <1>4 DEF Tail
<1>5. CASE n > 0
  <2>1. PICK k \in Nat : n = k + 1
    BY <1>5
  <2>2. PICK past \in Nat : past = k * HandlerTimeout /\ spent = past + HandlerTimeout
    BY <1>3, <2>1
  <2>3. Late(d, k) = Held(d)
    <3>1. \A e \in Held(d) : elapsed[d][e] \in Nat /\ elapsed[d][e] <= HandlerTimeout
      BY <1>1, HeldFinite DEF TypeOK
    <3>2. now - past > HandlerTimeout
      BY <1>3, <2>2
    <3>3. \A e \in Held(d) : elapsed[d][e] < now - past
      BY <3>1, <3>2
    <3> QED
      BY <1>3, <2>2, <3>3 DEF Late
  <2>4. Late(d, k) = {} \/ Cardinality(Late(d, k)) <= BatchSize - (k + 1) * Concurrency
    BY <1>1, <1>3, <2>2 DEF OnSchedule
  <2>5. Held(d) = {} \/ Cardinality(Held(d)) <= BatchSize - rows
    BY <1>2, <2>1, <2>3, <2>4
  <2>6. CASE Held(d) = {}
    <3>1. Cardinality(Held(d)) = 0
      BY <2>6, FS_EmptySet
    <3> QED
      BY <1>2, <3>1 DEF Tail
  <2>7. CASE Cardinality(Held(d)) <= BatchSize - rows
    BY <1>1, <1>2, <2>7 DEF Tail
  <2> QED
    BY <2>5, <2>6, <2>7
<1> QED
  BY <1>4, <1>5

\* Of a batch claimed with one statement, at most the last BatchSize - LeaseRounds *
\* Concurrency rows are still held when the lease they share runs out, however
\* slow the handlers (forEachConcurrent, outbox.ts:446, outbox.ts:345).
THEOREM OverdueTail == Spec => []OverdueRowsAreTheTail
<1>1. IInv /\ [Next]_vars => IInv'
  BY StepIInv
<1>2. IInv => OverdueRowsAreTheTail
  BY TailOfSchedule DEF OverdueRowsAreTheTail
<1> QED
  BY InitIInv, <1>1, <1>2, PTL DEF Spec
=============================================================================
