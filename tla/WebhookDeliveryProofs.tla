------------------------ MODULE WebhookDeliveryProofs ------------------------
(***************************************************************************)
(* Proofs about WebhookDelivery, for any keys, producers and workers, any  *)
(* limit on retries and any number of faults: its type invariant; that the *)
(* attempts of an operator's delivery are a chain; that a failure to be    *)
(* retried has its retry, and so that the rows of the model never run out; *)
(* and that an operator's deliveries implement DurableDelivery.            *)
(***************************************************************************)
EXTENDS WebhookDelivery, FiniteSetTheorems, TLAPS

Statuses == {"absent"} \cup Live \cup Final
Attempts == 1..(MaxRetries + 1)
Row == [key: Keys \cup {None}, attempt: 0..(MaxRetries + 1), status: Statuses, ripe: BOOLEAN]
Task == [at: {"idle", "load", "send", "finish", "count", "pause"},
         row: Ids \cup {0}, retries: 0..MaxRetries, result: Results]
Subscription == [active: BOOLEAN, keyed: BOOLEAN, retries: 0..MaxRetries, failures: 0..Threshold]

Used(i) == rows[i].status # "absent"

\* Rows are filled in order of their ids, each with a key and a number.
RowsInOrder == \E n \in Nat : \A i \in Ids : Used(i) <=> i <= n

RowsFilled == \A i \in Ids : /\ Used(i) => rows[i].key \in Keys /\ rows[i].attempt \in Attempts
                             /\ ~Used(i) => rows[i].key = None

\* A worker that has claimed a row has claimed one that exists.
WorkersHaveRows ==
  \A w \in Workers : work[w].at \in {"load", "send", "finish"} => work[w].row \in Ids /\ Used(work[w].row)

\* Neither store makes the same retry twice.
OneRetryEach ==
  \A i, j \in Ids :
    Used(i) /\ rows[i].key = rows[j].key /\ rows[i].attempt = rows[j].attempt /\ rows[i].attempt > 1
    => i = j

\* Every first attempt was a producer's, or may be yet.
FirstAttempts(k) == {i \in Ids : rows[i].key = k /\ rows[i].attempt = 1}
Holders(k) == {p \in Producers : producer[p] = k}

FirstsAreFew ==
  \A k \in Keys : Cardinality(FirstAttempts(k)) + Cardinality(Holders(k)) <= Cardinality(Producers)

\* What the advisory lock and the check of in_flight give the operator's store:
\* the attempts of a key have different numbers, and all but the last failed.
LastIsOpen ==
  \A i, j \in Ids :
    Used(i) /\ rows[i].key = rows[j].key =>
      /\ rows[i].attempt = rows[j].attempt => i = j
      /\ rows[i].attempt < rows[j].attempt => rows[i].status = "failed"

NothingSkipped ==
  \A i \in Ids : \A n \in Attempts :
    Used(i) /\ n <= rows[i].attempt => \E j \in Ids : rows[j].key = rows[i].key /\ rows[j].attempt = n

OperatorsChain ==
  store = "operator" => /\ \A p \in Producers : producer[p] = None
                        /\ LastIsOpen /\ NothingSkipped

\* Success is recorded only of what the endpoint has accepted.
SuccessIsEarned ==
  /\ \A k \in accepted : \E i \in Ids : rows[i].key = k
  /\ \A i \in Ids : rows[i].status = "succeeded" => rows[i].key \in accepted
  /\ \A w \in Workers : work[w].at = "finish" /\ work[w].result = "ok"
                        => rows[work[w].row].key \in accepted

RowsTyped == rows \in [Ids -> Row] /\ RowsFilled
WorkTyped == work \in [Workers -> Task] /\ WorkersHaveRows
RestTyped ==
  /\ store \in {"operator", "app"} /\ sub \in Subscription
  /\ accepted \subseteq Keys /\ producer \in [Producers -> Keys \cup {None}]
  /\ faults \in 0..MaxFaults

IInv == /\ RowsTyped /\ WorkTyped /\ RestTyped
        /\ RowsInOrder /\ OneRetryEach /\ FirstsAreFew
        /\ OperatorsChain /\ SuccessIsEarned /\ FailedHasSuccessor

USE ConstantsAssumption

LEMMA TypedIsTypeOK == RowsTyped /\ WorkTyped /\ RestTyped => TypeOK
BY DEF RowsTyped, WorkTyped, RestTyped, TypeOK, Row, Task, Subscription, Statuses

LEMMA Counts ==
  /\ Cardinality(Keys) \in Nat /\ Cardinality(Producers) \in Nat \ {0}
  /\ \E last \in Nat : Ids = 1..last
<1>1. Cardinality(Keys) \in Nat /\ Cardinality(Producers) \in Nat \ {0}
  BY FS_CardinalityType
<1>2. Cardinality(Keys) * (Cardinality(Producers) + MaxRetries) \in Nat
  BY <1>1
<1> QED
  BY <1>1, <1>2 DEF Ids

LEMMA FirstsFinite ==
  ASSUME NEW k
  PROVE  /\ IsFiniteSet(FirstAttempts(k)) /\ Cardinality(FirstAttempts(k)) \in Nat
         /\ IsFiniteSet(Holders(k)) /\ Cardinality(Holders(k)) \in Nat
         /\ Cardinality(Holders(k)) <= Cardinality(Producers)
<1>1. IsFiniteSet(Ids)
  BY Counts, FS_Interval
<1>2. IsFiniteSet(FirstAttempts(k))
  BY <1>1, FS_Subset DEF FirstAttempts
<1>3. Holders(k) \in SUBSET Producers
  BY DEF Holders
<1>4. IsFiniteSet(Holders(k)) /\ Cardinality(Holders(k)) <= Cardinality(Producers)
  BY <1>3, FS_Subset
<1> QED
  BY <1>2, <1>4, FS_CardinalityType

LEMMA InitIInv == Init => IInv
<1> SUFFICES ASSUME Init PROVE IInv
  OBVIOUS
<1>1. /\ \A i \in Ids : rows[i] = [key |-> None, attempt |-> 0, status |-> "absent", ripe |-> FALSE]
      /\ \A w \in Workers : work[w] = Idle
  BY DEF Init
<1>2. RowsTyped /\ WorkTyped /\ RestTyped
  <2>1. RowsTyped
    BY <1>1 DEF Init, RowsTyped, Row, Statuses, RowsFilled, Used
  <2>2. Idle \in Task
    BY DEF Idle, Task, Results
  <2>3. WorkTyped
    BY <1>1, <2>2 DEF Init, WorkTyped, WorkersHaveRows, Idle
  <2>4. RestTyped
    BY DEF Init, RestTyped, Subscription
  <2> QED
    BY <2>1, <2>3, <2>4
<1>3. RowsInOrder
  <2>1. \A i \in Ids : Used(i) <=> i <= 0
    BY <1>1, Counts DEF Used
  <2> QED
    BY <2>1 DEF RowsInOrder
<1>4. OneRetryEach /\ OperatorsChain /\ SuccessIsEarned
  BY <1>1 DEF Init, OneRetryEach, OperatorsChain, LastIsOpen, NothingSkipped, SuccessIsEarned, Used,
          Idle
<1>5. FirstsAreFew
  <2> SUFFICES ASSUME NEW k \in Keys
               PROVE  Cardinality(FirstAttempts(k)) + Cardinality(Holders(k)) <= Cardinality(Producers)
    BY DEF FirstsAreFew
  <2>1. FirstAttempts(k) = {} /\ Holders(k) = {}
    BY <1>1 DEF Init, FirstAttempts, Holders
  <2> QED
    BY <2>1, FS_EmptySet, Counts
<1>6. FailedHasSuccessor
  BY <1>1 DEF FailedHasSuccessor
<1> QED
  BY <1>2, <1>3, <1>4, <1>5, <1>6 DEF IInv
----------------------------------------------------------------------------
(* Where rows go *)

\* The rows in use are the first ones, and the next one is free if there is one.
LEMMA NextIsFree ==
  ASSUME RowsInOrder
  PROVE  /\ NextId \in Nat \ {0}
         /\ \A i \in Ids : Used(i) <=> i < NextId
<1>1. PICK n \in Nat : \A i \in Ids : Used(i) <=> i <= n
  BY DEF RowsInOrder
<1>2. PICK last \in Nat : Ids = 1..last
  BY Counts
<1>3. PICK m \in Nat : m <= last /\ \A i \in Ids : Used(i) <=> i <= m
  <2>1. CASE n <= last
    BY <1>1, <2>1
  <2>2. CASE last < n
    BY <1>1, <1>2, <2>2
  <2> QED
    BY <2>1, <2>2
<1>4. {i \in Ids : rows[i].status # "absent"} = 1..m
  BY <1>2, <1>3 DEF Used
<1>5. Cardinality(1..m) = m
  BY FS_Interval
<1>6. NextId = 1 + m
  BY <1>4, <1>5 DEF NextId
<1> QED
  BY <1>2, <1>3, <1>6

\* What fits a smaller set of places fits injectively.
LEMMA SmallerInjects ==
  ASSUME NEW S, NEW T, IsFiniteSet(S), IsFiniteSet(T), Cardinality(S) <= Cardinality(T)
  PROVE  \E f \in [S -> T] : \A x, y \in S : f[x] = f[y] => x = y
<1>1. Cardinality(S) \in Nat /\ Cardinality(T) \in Nat
  BY FS_CardinalityType
<1>2. PICK b \in Bijection(1..Cardinality(S), S) : TRUE
  BY FS_CardinalityType DEF ExistsBijection
<1>3. PICK c \in Bijection(1..Cardinality(T), T) : TRUE
  BY FS_CardinalityType DEF ExistsBijection
<1>4. \A x \in S : \E j \in 1..Cardinality(S) : b[j] = x
  BY <1>2 DEF Bijection, Surjection
<1>5. /\ c \in [1..Cardinality(T) -> T]
      /\ \A i, j \in 1..Cardinality(T) : c[i] = c[j] => i = j
  BY <1>3 DEF Bijection, Injection, IsInjective
<1> DEFINE at == [x \in S |-> CHOOSE j \in 1..Cardinality(S) : b[j] = x]
           f == [x \in S |-> c[at[x]]]
<1>6. \A x \in S : at[x] \in 1..Cardinality(S) /\ b[at[x]] = x
  BY <1>4
<1> HIDE DEF at
<1>7. \A x \in S : at[x] \in 1..Cardinality(T)
  BY <1>1, <1>6
<1>8. f \in [S -> T]
  BY <1>5, <1>7
<1>9. ASSUME NEW x \in S, NEW y \in S, f[x] = f[y] PROVE x = y
  <2>1. at[x] = at[y]
    BY <1>5, <1>7, <1>9
  <2> QED
    BY <1>6, <2>1
<1> QED
  BY <1>8, <1>9

LEMMA TaggedCount ==
  ASSUME NEW t, NEW S, IsFiniteSet(S)
  PROVE  IsFiniteSet({t} \X S) /\ Cardinality({t} \X S) = Cardinality(S)
<1>1. IsFiniteSet({t}) /\ Cardinality({t}) = 1
  BY FS_Singleton
<1>2. Cardinality(S) \in Nat /\ 1 * Cardinality(S) = Cardinality(S)
  BY FS_CardinalityType
<1>3. IsFiniteSet({t} \X S) /\ Cardinality({t} \X S) = Cardinality({t}) * Cardinality(S)
  BY <1>1, FS_Product
<1> QED
  BY <1>1, <1>2, <1>3

\* While a key lacks one of its numbers there is room for a row: each first
\* attempt has a producer of its own, and each retry its number.
LEMMA RoomForRetry ==
  ASSUME RowsTyped, RowsInOrder, OneRetryEach, FirstsAreFew,
         NEW k \in Keys, NEW n \in 2..(MaxRetries + 1),
         \A i \in Ids : rows[i].key = k => rows[i].attempt # n
  PROVE  NextId \in Ids
<1> SUFFICES ASSUME NextId \notin Ids PROVE FALSE
  OBVIOUS
<1> DEFINE Seats == ({0} \X Producers) \cup ({1} \X (2..(MaxRetries + 1)))
           Places == Keys \X Seats
           Injects(f, q) == \A x, y \in FirstAttempts(q) : f[x] = f[y] => x = y
           seat == [q \in Keys |-> CHOOSE f \in [FirstAttempts(q) -> Producers] : Injects(f, q)]
           place == [i \in Ids |-> <<rows[i].key, IF rows[i].attempt = 1 THEN <<0, seat[rows[i].key][i]>>
                                                  ELSE <<1, rows[i].attempt>>>>]
<1>1. \A i \in Ids : Used(i) /\ rows[i].key \in Keys /\ rows[i].attempt \in Attempts
  <2>1. PICK last \in Nat : Ids = 1..last
    BY Counts
  <2>2. \A i \in Ids : Used(i)
    BY <2>1, NextIsFree
  <2> QED
    BY <2>2 DEF RowsTyped, RowsFilled
<1>2. \A q \in Keys : seat[q] \in [FirstAttempts(q) -> Producers] /\ Injects(seat[q], q)
  <2> SUFFICES ASSUME NEW q \in Keys
               PROVE  \E f \in [FirstAttempts(q) -> Producers] : Injects(f, q)
    OBVIOUS
  <2>1. Cardinality(FirstAttempts(q)) <= Cardinality(Producers)
    BY FirstsFinite, Counts DEF FirstsAreFew
  <2> QED
    BY <2>1, FirstsFinite, SmallerInjects
<1> HIDE DEF seat
<1>3. IsFiniteSet(Places) /\ Cardinality(Places) = Cardinality(Ids)
  <2>1. /\ IsFiniteSet({0} \X Producers)
        /\ Cardinality({0} \X Producers) = Cardinality(Producers)
    BY TaggedCount
  <2>2. /\ IsFiniteSet({1} \X (2..(MaxRetries + 1)))
        /\ Cardinality({1} \X (2..(MaxRetries + 1))) = MaxRetries
    <3>1. IsFiniteSet(2..(MaxRetries + 1)) /\ Cardinality(2..(MaxRetries + 1)) = MaxRetries
      BY FS_Interval
    <3> QED
      BY ONLY <3>1, TaggedCount
  <2>3. ({0} \X Producers) \cap ({1} \X (2..(MaxRetries + 1))) = {}
    OBVIOUS
  <2>4. IsFiniteSet(Seats) /\ Cardinality(Seats) = Cardinality(Producers) + MaxRetries - 0
    BY <2>1, <2>2, <2>3, FS_Union, FS_EmptySet
  <2>5. Cardinality(Seats) = Cardinality(Producers) + MaxRetries
    BY <2>4, Counts
  <2> HIDE DEF Seats
  <2>6. IsFiniteSet(Places) /\ Cardinality(Places) = Cardinality(Keys) * (Cardinality(Producers) + MaxRetries)
    <3>1. Cardinality(Keys \X Seats) = Cardinality(Keys) * Cardinality(Seats) /\ IsFiniteSet(Keys \X Seats)
      BY <2>4, FS_Product
    <3> QED
      BY <2>5, <3>1
  <2>7. PICK size \in Nat : size = Cardinality(Keys) * (Cardinality(Producers) + MaxRetries)
    BY Counts
  <2>8. Cardinality(1..size) = size
    BY FS_Interval
  <2>9. Ids = 1..size
    BY <2>7 DEF Ids
  <2> QED
    BY <2>6, <2>7, <2>8, <2>9
<1> DEFINE missing == <<k, <<1, n>>>>
<1>4. place \in [Ids -> Places \ {missing}]
  <2> SUFFICES ASSUME NEW i \in Ids PROVE place[i] \in Places /\ place[i] # missing
    OBVIOUS
  <2>1. CASE rows[i].attempt = 1
    <3>1. i \in FirstAttempts(rows[i].key)
      BY <2>1 DEF FirstAttempts
    <3> QED
      BY <1>1, <1>2, <2>1, <3>1
  <2>2. CASE rows[i].attempt # 1
    <3>1. rows[i].attempt \in 2..(MaxRetries + 1)
      BY <1>1, <2>2 DEF Attempts
    <3> QED
      BY <1>1, <2>2, <3>1
  <2> QED
    BY <2>1, <2>2
<1>5. \A i, j \in Ids : place[i] = place[j] => i = j
  <2> SUFFICES ASSUME NEW i \in Ids, NEW j \in Ids, place[i] = place[j] PROVE i = j
    OBVIOUS
  <2>1. rows[i].key = rows[j].key
    OBVIOUS
  <2>2. CASE rows[i].attempt = 1
    <3>1. rows[j].attempt = 1 /\ seat[rows[i].key][i] = seat[rows[j].key][j]
      BY <2>2
    <3>2. {i, j} \subseteq FirstAttempts(rows[i].key)
      BY <2>1, <2>2, <3>1 DEF FirstAttempts
    <3> QED
      BY <1>1, <1>2, <2>1, <3>1, <3>2
  <2>3. CASE rows[i].attempt # 1
    <3>1. rows[i].attempt = rows[j].attempt
      BY <2>3
    <3>2. rows[i].attempt > 1
      BY <1>1, <2>3 DEF Attempts
    <3> QED
      BY <1>1, <2>1, <3>1, <3>2 DEF OneRetryEach
  <2> QED
    BY <2>2, <2>3
<1> HIDE DEF place
<1>6. missing \in Places
  OBVIOUS
<1> HIDE DEF Places, missing
<1>7. /\ IsFiniteSet(Places \ {missing})
      /\ Cardinality(Places \ {missing}) = Cardinality(Places) - 1
  BY <1>3, <1>6, FS_RemoveElement
<1>8. IsFiniteSet(Ids) /\ Cardinality(Ids) \in Nat
  BY Counts, FS_Interval, FS_CardinalityType
<1>9. Cardinality(Places \ {missing}) < Cardinality(Ids)
  BY <1>3, <1>7, <1>8
<1> QED
  BY <1>4, <1>5, <1>7, <1>8, <1>9, FS_PigeonHole
----------------------------------------------------------------------------
(* What a step does to the rows *)

KeptRow(i) == /\ rows'[i].key = rows[i].key /\ rows'[i].attempt = rows[i].attempt
              /\ rows'[i].status = "absent" <=> rows[i].status = "absent"

Rest(others) == rows' \in [Ids -> Row] /\ \A j \in Ids \ others : rows'[j] = rows[j]

\* A live row is claimed, or becomes due.
Marks(i) == rows[i].status \in Live /\ rows'[i].status \in Live /\ KeptRow(i) /\ Rest({i})

AddsRow(k, n) == NextId \in Ids /\ rows'[NextId] = [key |-> k, attempt |-> n, status |-> "pending", ripe |-> n = 1]

Enqueues(k) == AddsRow(k, 1) /\ Rest({NextId})

Settles(w) ==
  LET i == work[w].row
  IN /\ i \in Ids /\ Used(i) /\ Completes(i)
     /\ KeptRow(i) /\ rows'[i].status = Verdict(w)

SettlesAlone(w) ==
  /\ Settles(w) /\ Rest({work[w].row})
  /\ Verdict(w) = "failed" => Existing(rows[work[w].row].key, rows[work[w].row].attempt + 1)

SettlesAndRetries(w) ==
  LET i == work[w].row
      n == rows[i].attempt + 1
  IN /\ Settles(w) /\ Verdict(w) = "failed" /\ Rest({i, NextId})
     /\ n \in 2..(MaxRetries + 1) /\ ~Existing(rows[i].key, n) /\ AddsRow(rows[i].key, n)

RowsChange ==
  \/ UNCHANGED rows
  \/ \E i \in Ids : Marks(i)
  \/ \E k \in Keys : Enqueues(k) /\ (~Existing(k, 1) \/ store = "app")
  \/ \E w \in Workers : SettlesAlone(w) \/ SettlesAndRetries(w)

Stamped(i, s, b) == [rows EXCEPT ![i].status = s, ![i].ripe = b]

LEMMA StampedRows ==
  ASSUME rows \in [Ids -> Row], NEW i \in Ids, NEW s \in Statuses, NEW b \in BOOLEAN,
         NEW table, table = Stamped(i, s, b)
  PROVE  /\ table \in [Ids -> Row]
         /\ \A j \in Ids \ {i} : table[j] = rows[j]
         /\ table[i].status = s /\ table[i].key = rows[i].key /\ table[i].attempt = rows[i].attempt
<1>1. rows[i] \in Row
  OBVIOUS
<1>2. table[i] = [rows[i] EXCEPT !.status = s, !.ripe = b]
  BY DEF Stamped
<1>3. table[i] \in Row
  BY <1>1, <1>2 DEF Row
<1>4. table = [rows EXCEPT ![i] = table[i]]
  BY DEF Stamped
<1>5. table[i].status = s /\ table[i].key = rows[i].key /\ table[i].attempt = rows[i].attempt
  BY <1>1, <1>2 DEF Row
<1>6. \A j \in Ids \ {i} : table[j] = rows[j]
  BY DEF Stamped
<1>7. table \in [Ids -> Row]
  BY ONLY <1>3, <1>4, rows \in [Ids -> Row], i \in Ids
<1> QED
  BY <1>5, <1>6, <1>7

LEMMA InsertedRow ==
  ASSUME NEW table \in [Ids -> Row], NextId \in Ids, NEW k \in Keys, NEW n \in Attempts
  PROVE  /\ Inserted(table, k, n) \in [Ids -> Row]
         /\ \A j \in Ids \ {NextId} : Inserted(table, k, n)[j] = table[j]
         /\ Inserted(table, k, n)[NextId] = [key |-> k, attempt |-> n, status |-> "pending", ripe |-> n = 1]
<1>1. (n = 1) \in BOOLEAN
  OBVIOUS
<1>2. ASSUME NEW b \in BOOLEAN
      PROVE  [key |-> k, attempt |-> n, status |-> "pending", ripe |-> b] \in Row
  BY DEF Row, Statuses, Live, Attempts
<1>3. [key |-> k, attempt |-> n, status |-> "pending", ripe |-> n = 1] \in Row
  BY <1>1, <1>2
<1> QED
  BY <1>3 DEF Inserted

LEMMA MarkedRows ==
  ASSUME RowsTyped, NEW i \in Ids, rows[i].status \in Live, NEW s \in Live, NEW b \in BOOLEAN,
         rows' = Stamped(i, s, b)
  PROVE  Marks(i)
<1>1. rows \in [Ids -> Row] /\ s \in Statuses
  BY DEF RowsTyped, Statuses
<1>2. /\ rows' \in [Ids -> Row] /\ \A j \in Ids \ {i} : rows'[j] = rows[j]
      /\ rows'[i].status = s /\ rows'[i].key = rows[i].key /\ rows'[i].attempt = rows[i].attempt
  BY <1>1, StampedRows
<1>3. rows'[i].status # "absent" /\ rows[i].status # "absent"
  BY <1>2 DEF Live
<1> QED
  BY <1>2, <1>3 DEF Marks, KeptRow, Rest

LEMMA ClaimRows == ASSUME RowsTyped, NEW w \in Workers, NEW i \in Ids, Claim(w, i) PROVE Marks(i)
<1>1. rows' = Stamped(i, "in_flight", FALSE) /\ rows[i].status \in Live
  BY DEF Claim, Ready, Stamped
<1>2. "in_flight" \in Live
  BY DEF Live
<1> QED
  BY <1>1, <1>2, MarkedRows

LEMMA RipenRows == ASSUME RowsTyped, NEW i \in Ids, Ripen(i) PROVE Marks(i)
<1>1. rows' = [rows EXCEPT ![i].ripe = TRUE] /\ rows[i].status \in Live
  BY DEF Ripen
<1>2. rows[i] \in Row /\ rows \in [Ids -> Row]
  BY DEF RowsTyped
<1>3. [rows EXCEPT ![i].ripe = TRUE] = Stamped(i, rows[i].status, TRUE)
  <2>1. [rows[i] EXCEPT !.ripe = TRUE] = [[rows[i] EXCEPT !.status = rows[i].status] EXCEPT !.ripe = TRUE]
    BY <1>2 DEF Row
  <2> QED
    BY <1>2, <2>1 DEF Stamped
<1> QED
  BY <1>1, <1>3, MarkedRows

LEMMA EnqueuedRows ==
  ASSUME RowsTyped, NEW k \in Keys, NextId \in Ids, rows' = Inserted(rows, k, 1)
  PROVE  Enqueues(k)
<1>1. 1 \in Attempts /\ rows \in [Ids -> Row]
  BY DEF Attempts, RowsTyped
<1> QED
  BY <1>1, InsertedRow DEF Enqueues, AddsRow, Rest

LEMMA SettledRows ==
  ASSUME RowsTyped, NEW i \in Ids, Used(i), NEW s \in Final
  PROVE  /\ Settled(i, s) \in [Ids -> Row]
         /\ \A j \in Ids \ {i} : Settled(i, s)[j] = rows[j]
         /\ Settled(i, s)[i].status = s
         /\ Settled(i, s)[i].key = rows[i].key /\ Settled(i, s)[i].attempt = rows[i].attempt
<1>1. rows \in [Ids -> Row] /\ s \in Statuses
  BY DEF RowsTyped, Statuses
<1>2. PICK b \in BOOLEAN : b = FALSE
  OBVIOUS
<1>3. PICK table : table = Settled(i, s) /\ table = Stamped(i, s, b)
  BY <1>2 DEF Settled, Stamped
<1>4. /\ table \in [Ids -> Row]
      /\ \A j \in Ids \ {i} : table[j] = rows[j]
      /\ table[i].status = s /\ table[i].key = rows[i].key /\ table[i].attempt = rows[i].attempt
  BY <1>1, <1>3, StampedRows
<1> QED
  BY <1>3, <1>4

LEMMA VerdictTyped == ASSUME NEW w PROVE Verdict(w) \in Final
BY DEF Verdict, Final

\* A failure that is to be retried finds room for the retry, unless it exists.
LEMMA FinishRows ==
  ASSUME IInv, NEW w \in Workers, Finish(w)
  PROVE  UNCHANGED rows \/ SettlesAlone(w) \/ SettlesAndRetries(w)
<1> USE DEF IInv
<1> SUFFICES ASSUME ~(UNCHANGED rows) PROVE SettlesAlone(w) \/ SettlesAndRetries(w)
  OBVIOUS
<1> DEFINE i == work[w].row
           n == rows[i].attempt + 1
<1>1. i \in Ids /\ Used(i)
  BY DEF Finish, At, WorkTyped, WorkersHaveRows
<1>2. Completes(i) /\ rows' = Completed(i, Verdict(w))
  BY DEF Finish
<1>3. rows[i].key \in Keys /\ rows[i].attempt \in Attempts /\ rows \in [Ids -> Row]
  BY <1>1 DEF RowsTyped, RowsFilled
<1>4. Verdict(w) \in Final /\ Verdict(w) # "absent"
  BY VerdictTyped DEF Final
<1> DEFINE settled == Settled(i, Verdict(w))
<1>5. /\ settled \in [Ids -> Row]
      /\ \A j \in Ids \ {i} : settled[j] = rows[j]
      /\ settled[i].status = Verdict(w)
      /\ settled[i].key = rows[i].key /\ settled[i].attempt = rows[i].attempt
  BY <1>1, <1>4, SettledRows
<1>6. Verdict(w) = "failed" => n \in 2..(MaxRetries + 1) /\ n \in Attempts
  <2> SUFFICES ASSUME Verdict(w) = "failed" PROVE n \in 2..(MaxRetries + 1)
    BY <1>3 DEF Attempts
  <2>1. rows[i].attempt <= work[w].retries
    BY DEF Verdict, MayRetry
  <2>2. work[w].retries \in 0..MaxRetries
    BY DEF WorkTyped, Task
  <2> QED
    BY <1>3, <2>1, <2>2 DEF Attempts
<1>7. Verdict(w) = "failed" /\ ~Existing(rows[i].key, n) => NextId \in Ids
  <2> SUFFICES ASSUME Verdict(w) = "failed", ~Existing(rows[i].key, n) PROVE NextId \in Ids
    OBVIOUS
  <2>1. \A j \in Ids : rows[j].key = rows[i].key => rows[j].attempt # n
    BY DEF Existing, OfKey
  <2> QED
    BY <1>3, <1>6, <2>1, RoomForRetry
<1>8. Existing(rows[i].key, n) => store = "app"
  <2> SUFFICES ASSUME Existing(rows[i].key, n), store = "operator" PROVE FALSE
    BY DEF RestTyped
  <2>1. PICK j \in Ids : rows[j].key = rows[i].key /\ rows[j].attempt = n
    BY DEF Existing, OfKey
  <2>2. rows[i].status = "failed"
    BY <1>1, <1>3, <2>1 DEF OperatorsChain, LastIsOpen, Attempts
  <2>3. rows[i].status = "in_flight"
    BY <1>2 DEF Completes
  <2> QED
    BY <2>2, <2>3
<1>9. CASE Verdict(w) = "failed" /\ ~Existing(rows[i].key, n)
  <2>1. rows' = Inserted(settled, rows[i].key, n)
    <3>1. store = "operator" \/ store = "app"
      BY DEF RestTyped
    <3> QED
      BY <1>2, <1>7, <1>9, <3>1 DEF Completed
  <2> HIDE DEF settled
  <2>2. /\ rows' \in [Ids -> Row]
        /\ \A j \in Ids \ {NextId} : rows'[j] = settled[j]
        /\ rows'[NextId] = [key |-> rows[i].key, attempt |-> n, status |-> "pending", ripe |-> n = 1]
    <3>1. NextId \in Ids /\ n \in Attempts
      BY <1>6, <1>7, <1>9
    <3>2. /\ Inserted(settled, rows[i].key, n) \in [Ids -> Row]
          /\ \A j \in Ids \ {NextId} : Inserted(settled, rows[i].key, n)[j] = settled[j]
          /\ Inserted(settled, rows[i].key, n)[NextId]
                = [key |-> rows[i].key, attempt |-> n, status |-> "pending", ripe |-> n = 1]
      <4> HIDE DEF n, IInv
      <4> QED
        BY <1>3, <1>5, <3>1, InsertedRow
    <3> QED
      BY <2>1, <3>2
  <2>3. NextId # i
    BY <1>1, NextIsFree
  <2>4. rows'[i] = settled[i]
    BY <1>1, <2>2, <2>3
  <2>5. Settles(w)
    BY <1>1, <1>2, <1>4, <1>5, <2>4 DEF Settles, KeptRow, Used
  <2>6. Rest({i, NextId})
    BY <1>5, <2>2 DEF Rest
  <2> QED
    BY <1>6, <1>7, <1>9, <2>2, <2>5, <2>6 DEF SettlesAndRetries, AddsRow
<1>10. CASE Verdict(w) # "failed" \/ Existing(rows[i].key, n)
  <2>1. rows' = settled
    <3>1. ~(Verdict(w) = "failed" /\ (store = "operator" \/ ~Existing(rows[i].key, n)) /\ NextId \in Ids)
      BY <1>8, <1>10
    <3> QED
      BY <1>2, <3>1 DEF Completed
  <2>2. Settles(w)
    BY <1>1, <1>2, <1>4, <1>5, <2>1 DEF Settles, KeptRow, Used
  <2> QED
    BY <1>5, <1>10, <2>1, <2>2 DEF SettlesAlone, Rest
<1> QED
  BY <1>9, <1>10

LEMMA StepRows == IInv /\ [Next]_vars => RowsChange
<1> SUFFICES ASSUME IInv, [Next]_vars PROVE RowsChange
  OBVIOUS
<1> USE DEF IInv
<1>1. ASSUME NEW k \in Keys, EnqueueLocked(k) PROVE RowsChange
  <2>1. NextId \in Ids /\ rows' = Inserted(rows, k, 1) /\ ~Existing(k, 1)
    BY <1>1 DEF EnqueueLocked
  <2> QED
    BY <2>1, EnqueuedRows DEF RowsChange
<1>2. ASSUME NEW p \in Producers, EnqueueInsert(p) PROVE RowsChange
  <2>1. NextId \in Ids /\ producer[p] # None /\ rows' = Inserted(rows, producer[p], 1)
    BY <1>2 DEF EnqueueInsert
  <2>2. producer[p] \in Keys /\ store = "app"
    BY <2>1 DEF RestTyped, OperatorsChain
  <2> QED
    BY <2>1, <2>2, EnqueuedRows DEF RowsChange
<1>3. ASSUME NEW w \in Workers, NEW i \in Ids, Claim(w, i) PROVE RowsChange
  BY <1>3, ClaimRows DEF RowsChange
<1>4. ASSUME NEW w \in Workers, Finish(w) PROVE RowsChange
  BY <1>4, FinishRows DEF RowsChange
<1>5. ASSUME NEW i \in Ids, Ripen(i) PROVE RowsChange
  BY <1>5, RipenRows DEF RowsChange
<1>6. ASSUME NEW w \in Workers, Load(w) \/ Send(w) \/ Count(w) \/ Pause(w) \/ WorkerFails(w) PROVE RowsChange
  BY <1>6 DEF RowsChange, Load, Send, Count, Pause, WorkerFails
<1>7. ASSUME NEW p \in Producers, NEW k \in Keys, EnqueueLook(p, k) PROVE RowsChange
  BY <1>7 DEF RowsChange, EnqueueLook
<1>8. ASSUME Deactivate \/ IssueSigningKey \/ Activate \/ \E n \in 0..MaxRetries : ChangeRetries(n) PROVE RowsChange
  BY <1>8 DEF RowsChange, Deactivate, IssueSigningKey, Activate, ChangeRetries
<1>9. ASSUME UNCHANGED vars PROVE RowsChange
  BY <1>9 DEF vars, RowsChange
<1> QED
  BY <1>1, <1>2, <1>3, <1>4, <1>5, <1>6, <1>7, <1>8, <1>9 DEF Next, Execute

\* Either no row is added, or one is, and its number is one that was due.
Added(k, n) ==
  /\ AddsRow(k, n) /\ \A j \in Ids \ {NextId} : KeptRow(j)
  /\ n > 1 => ~Existing(k, n) /\ Existing(k, n - 1)
  /\ n = 1 => ~Existing(k, 1) \/ store = "app"

LEMMA Shape ==
  ASSUME IInv, RowsChange
  PROVE  /\ rows' \in [Ids -> Row]
         /\ \/ \A i \in Ids : KeptRow(i)
            \/ \E k \in Keys, n \in Attempts : Added(k, n)
<1> USE DEF IInv
<1> DEFINE Goal == /\ rows' \in [Ids -> Row]
                   /\ \/ \A i \in Ids : KeptRow(i)
                      \/ \E k \in Keys, n \in Attempts : Added(k, n)
<1>0. rows \in [Ids -> Row] /\ \A i \in Ids : rows'[i] = rows[i] => KeptRow(i)
  BY DEF RowsTyped, KeptRow
<1>1. CASE UNCHANGED rows
  BY <1>0, <1>1
<1>2. ASSUME NEW i \in Ids, Marks(i) PROVE Goal
  BY <1>0, <1>2 DEF Marks, Rest
<1>3. ASSUME NEW k \in Keys, Enqueues(k), ~Existing(k, 1) \/ store = "app" PROVE Goal
  <2>1. 1 \in Attempts /\ Added(k, 1)
    BY <1>0, <1>3 DEF Enqueues, Rest, Added, Attempts
  <2> QED
    BY <1>3, <2>1 DEF Enqueues, Rest
<1>4. ASSUME NEW w \in Workers, SettlesAlone(w) PROVE Goal
  BY <1>0, <1>4 DEF SettlesAlone, Settles, Rest
<1>5. ASSUME NEW w \in Workers, SettlesAndRetries(w) PROVE Goal
  <2> DEFINE i == work[w].row
             n == rows[i].attempt + 1
  <2>1. i \in Ids /\ Used(i) /\ n \in Attempts /\ n > 1 /\ rows[i].key \in Keys /\ n - 1 = rows[i].attempt
    BY <1>5 DEF SettlesAndRetries, Settles, RowsTyped, RowsFilled, Attempts
  <2>2. Existing(rows[i].key, n - 1)
    BY <2>1 DEF Existing, OfKey
  <2>3. ~Existing(rows[i].key, n) /\ AddsRow(rows[i].key, n)
    BY <1>5 DEF SettlesAndRetries
  <2>4. \A j \in Ids \ {NextId} : KeptRow(j)
    BY <1>0, <1>5 DEF SettlesAndRetries, Settles, Rest
  <2>5. Added(rows[i].key, n)
    BY <2>1, <2>2, <2>3, <2>4 DEF Added
  <2> QED
    BY <1>5, <2>1, <2>5 DEF SettlesAndRetries, Rest
<1> QED
  BY <1>1, <1>2, <1>3, <1>4, <1>5 DEF RowsChange

LEMMA UsedRowsStay ==
  ASSUME IInv, RowsChange
  PROVE  \A i \in Ids : Used(i) => KeptRow(i) /\ Used(i)'
<1>1. CASE \A i \in Ids : KeptRow(i)
  BY <1>1 DEF KeptRow, Used
<1>2. ASSUME NEW k \in Keys, NEW n \in Attempts, Added(k, n)
      PROVE  \A i \in Ids : Used(i) => KeptRow(i) /\ Used(i)'
  <2>1. ~Used(NextId) \/ NextId \notin Ids
    BY NextIsFree DEF IInv
  <2> QED
    BY <1>2, <2>1 DEF Added, KeptRow, Used
<1> QED
  BY <1>1, <1>2, Shape

LEMMA StepRowsTyped == IInv /\ RowsChange => RowsTyped'
<1> SUFFICES ASSUME IInv, RowsChange PROVE RowsTyped'
  OBVIOUS
<1>1. CASE \A i \in Ids : KeptRow(i)
  BY <1>1, Shape DEF IInv, RowsTyped, RowsFilled, KeptRow, Used
<1>2. ASSUME NEW k \in Keys, NEW n \in Attempts, Added(k, n) PROVE RowsTyped'
  <2>1. /\ rows'[NextId].key = k /\ rows'[NextId].attempt = n /\ rows'[NextId].status # "absent"
    BY <1>2 DEF Added, AddsRow
  <2>2. ASSUME NEW i \in Ids
        PROVE  /\ Used(i)' => rows'[i].key \in Keys /\ rows'[i].attempt \in Attempts
               /\ ~Used(i)' => rows'[i].key = None
    <3>1. CASE i = NextId
      BY <2>1, <3>1 DEF Used
    <3>2. CASE i # NextId
      BY <1>2, <3>2 DEF Added, KeptRow, Used, IInv, RowsTyped, RowsFilled
    <3> QED
      BY <3>1, <3>2
  <2> QED
    BY <2>2, Shape DEF RowsTyped, RowsFilled
<1> QED
  BY <1>1, <1>2, Shape

LEMMA StepRowsInOrder == IInv /\ RowsChange => RowsInOrder'
<1> SUFFICES ASSUME IInv, RowsChange PROVE RowsInOrder'
  OBVIOUS
<1>1. NextId \in Nat \ {0} /\ \A i \in Ids : Used(i) <=> i < NextId
  BY NextIsFree DEF IInv
<1>2. Ids \subseteq Nat
  BY Counts
<1>3. CASE \A i \in Ids : KeptRow(i)
  <2>1. PICK n \in Nat : n = NextId - 1
    BY <1>1
  <2>2. \A i \in Ids : Used(i)' <=> i <= n
    BY <1>1, <1>2, <1>3, <2>1 DEF KeptRow, Used
  <2> QED
    BY <2>2 DEF RowsInOrder
<1>4. ASSUME NEW k \in Keys, NEW m \in Attempts, Added(k, m) PROVE RowsInOrder'
  <2>1. PICK n \in Nat : n = NextId
    BY <1>1
  <2>2. \A i \in Ids : Used(i)' <=> i <= n
    BY <1>1, <1>2, <1>4, <2>1 DEF Added, AddsRow, KeptRow, Used
  <2> QED
    BY <2>2 DEF RowsInOrder
<1> QED
  BY <1>3, <1>4, Shape

LEMMA StepOneRetry == IInv /\ RowsChange => OneRetryEach'
<1> SUFFICES ASSUME IInv, RowsChange PROVE OneRetryEach'
  OBVIOUS
<1>1. CASE \A i \in Ids : KeptRow(i)
  BY <1>1 DEF KeptRow, Used, IInv, OneRetryEach
<1>2. ASSUME NEW k \in Keys, NEW n \in Attempts, Added(k, n) PROVE OneRetryEach'
  <2> SUFFICES ASSUME NEW i \in Ids, NEW j \in Ids,
                      Used(i)', rows'[i].key = rows'[j].key,
                      rows'[i].attempt = rows'[j].attempt, rows'[i].attempt > 1
               PROVE  i = j
    BY DEF OneRetryEach
  <2>0. rows'[NextId].key = k /\ rows'[NextId].attempt = n /\ \A q \in Ids \ {NextId} : KeptRow(q)
    BY <1>2 DEF Added, AddsRow
  <2>1. CASE i = NextId /\ j # NextId
    <3>1. Existing(k, n)
      BY <2>0, <2>1 DEF KeptRow, Existing, OfKey
    <3> QED
      BY <1>2, <2>0, <2>1, <3>1 DEF Added
  <2>2. CASE i # NextId /\ j = NextId
    <3>1. Existing(k, n)
      BY <2>0, <2>2 DEF KeptRow, Existing, OfKey
    <3> QED
      BY <1>2, <2>0, <2>2, <3>1 DEF Added
  <2>3. CASE i # NextId /\ j # NextId
    BY <2>0, <2>3 DEF KeptRow, Used, IInv, OneRetryEach
  <2> QED
    BY <2>1, <2>2, <2>3
<1> QED
  BY <1>1, <1>2, Shape

\* What the operator's store completes is the last attempt of its key.
LEMMA CompletesTheLast ==
  ASSUME IInv, store = "operator", NEW w \in Workers, Settles(w)
  PROVE  \A j \in Ids : rows[j].key = rows[work[w].row].key /\ j # work[w].row
                        => rows[j].attempt < rows[work[w].row].attempt /\ rows[j].status = "failed"
<1> DEFINE i == work[w].row
<1> SUFFICES ASSUME NEW j \in Ids, rows[j].key = rows[i].key, j # i
             PROVE  rows[j].attempt < rows[i].attempt /\ rows[j].status = "failed"
  OBVIOUS
<1>1. /\ LastIsOpen
      /\ \A q \in Ids : Used(q) => rows[q].key \in Keys /\ rows[q].attempt \in Attempts
      /\ \A q \in Ids : ~Used(q) => rows[q].key = None
  BY DEF IInv, OperatorsChain, RowsTyped, RowsFilled
<1>2. i \in Ids /\ rows[i].status = "in_flight" /\ Used(i)
  BY DEF Settles, Completes
<1>3. Used(j) /\ rows[j].attempt \in Attempts /\ rows[i].attempt \in Attempts
  BY <1>1, <1>2
<1>4. ~(rows[i].attempt < rows[j].attempt) /\ rows[i].attempt # rows[j].attempt
  BY <1>1, <1>2 DEF LastIsOpen
<1>5. rows[j].attempt < rows[i].attempt
  BY <1>3, <1>4 DEF Attempts
<1> QED
  BY <1>1, <1>2, <1>3, <1>5 DEF LastIsOpen

LEMMA StepLastIsOpen ==
  ASSUME IInv, RowsChange, store = "operator"
  PROVE  LastIsOpen'
<1> USE DEF IInv
<1> DEFINE Goal == \A i, j \in Ids :
                     rows'[i].status # "absent" /\ rows'[i].key = rows'[j].key =>
                       /\ rows'[i].attempt = rows'[j].attempt => i = j
                       /\ rows'[i].attempt < rows'[j].attempt => rows'[i].status = "failed"
<1>0. /\ LastIsOpen /\ NothingSkipped
      /\ \A i \in Ids : Used(i) => rows[i].key \in Keys /\ rows[i].attempt \in Attempts
      /\ \A i \in Ids : rows'[i] = rows[i] => KeptRow(i)
      /\ \A i \in Ids : ~Used(i) => rows[i].key = None
  BY DEF OperatorsChain, RowsTyped, RowsFilled, KeptRow
<1>1. ASSUME UNCHANGED rows PROVE Goal
  BY <1>0, <1>1 DEF LastIsOpen, Used
<1>2. ASSUME NEW m \in Ids, Marks(m) PROVE Goal
  <2>1. \A i \in Ids : KeptRow(i) /\ (rows[i].status = "failed" => rows'[i].status = "failed")
    BY <1>0, <1>2 DEF Marks, Rest, Live
  <2> QED
    BY <1>0, <2>1 DEF LastIsOpen, KeptRow, Used
<1>3. ASSUME NEW k \in Keys, Enqueues(k), ~Existing(k, 1) PROVE Goal
  <2>1. \A i \in Ids : rows[i].key # k
    <3> SUFFICES ASSUME NEW i \in Ids, rows[i].key = k PROVE FALSE
      OBVIOUS
    <3>1. Used(i) /\ 1 \in Attempts /\ 1 <= rows[i].attempt
      BY <1>0 DEF Attempts
    <3> QED
      BY <1>0, <1>3, <3>1 DEF NothingSkipped, Existing, OfKey
  <2>2. rows'[NextId].key = k /\ \A i \in Ids \ {NextId} : rows'[i] = rows[i]
    BY <1>3 DEF Enqueues, AddsRow, Rest
  <2>3. ASSUME NEW i \in Ids, NEW j \in Ids, rows'[i].status # "absent", rows'[i].key = rows'[j].key
        PROVE  /\ rows'[i].attempt = rows'[j].attempt => i = j
               /\ rows'[i].attempt < rows'[j].attempt => rows'[i].status = "failed"
    <3>1. CASE i = NextId \/ j = NextId
      <4>1. i = j
        BY <2>1, <2>2, <2>3, <3>1
      <4>2. rows'[i].attempt = 1
        BY <1>3, <3>1, <4>1 DEF Enqueues, AddsRow
      <4> QED
        BY <4>1, <4>2
    <3>2. CASE i # NextId /\ j # NextId
      BY <1>0, <2>2, <2>3, <3>2 DEF LastIsOpen, Used
    <3> QED
      BY <3>1, <3>2
  <2> QED
    BY <2>3
<1>4. ASSUME NEW w \in Workers, SettlesAlone(w) PROVE Goal
  <2> DEFINE s == work[w].row
  <2>1. s \in Ids /\ Used(s) /\ KeptRow(s) /\ \A i \in Ids \ {s} : rows'[i] = rows[i]
    BY <1>4 DEF SettlesAlone, Settles, Rest
  <2>2. \A j \in Ids : rows[j].key = rows[s].key /\ j # s
                       => rows[j].attempt < rows[s].attempt /\ rows[j].status = "failed"
    BY <1>4, CompletesTheLast DEF SettlesAlone
  <2> HIDE DEF s
  <2>3. \A i \in Ids : KeptRow(i)
    BY <1>0, <2>1
  <2>4. ASSUME NEW i \in Ids, NEW j \in Ids, rows'[i].status # "absent", rows'[i].key = rows'[j].key
        PROVE  /\ rows'[i].attempt = rows'[j].attempt => i = j
               /\ rows'[i].attempt < rows'[j].attempt => rows'[i].status = "failed"
    <3>1. Used(i) /\ rows[i].key = rows[j].key /\ rows'[i].attempt = rows[i].attempt /\ rows'[j].attempt = rows[j].attempt
      BY <2>3, <2>4 DEF KeptRow, Used
    <3>2. Used(j) /\ rows[i].attempt \in Attempts /\ rows[j].attempt \in Attempts
      BY <1>0, <3>1
    <3>3. CASE i = s
      BY <2>2, <3>1, <3>2, <3>3 DEF Attempts
    <3>4. CASE i # s
      BY <1>0, <2>1, <3>1, <3>4 DEF LastIsOpen
    <3> QED
      BY <3>3, <3>4
  <2> QED
    BY <2>4
<1>5. ASSUME NEW w \in Workers, SettlesAndRetries(w) PROVE Goal
  <2> DEFINE s == work[w].row
  <2>1. /\ s \in Ids /\ Used(s) /\ KeptRow(s) /\ rows'[s].status = "failed"
        /\ NextId \in Ids /\ \A i \in Ids \ {s, NextId} : rows'[i] = rows[i]
        /\ rows'[NextId].key = rows[s].key /\ rows'[NextId].attempt = rows[s].attempt + 1
    BY <1>5 DEF SettlesAndRetries, Settles, Rest, AddsRow
  <2>2. \A j \in Ids : rows[j].key = rows[s].key /\ j # s
                       => rows[j].attempt < rows[s].attempt /\ rows[j].status = "failed"
    BY <1>5, CompletesTheLast DEF SettlesAndRetries
  <2> HIDE DEF s
  <2>3. \A i \in Ids \ {NextId} : KeptRow(i)
    BY <1>0, <2>1
  <2>4. rows[s].attempt \in Attempts /\ rows[s].key \in Keys
    BY <1>0, <2>1
  <2>5. ASSUME NEW i \in Ids, NEW j \in Ids, rows'[i].status # "absent", rows'[i].key = rows'[j].key
        PROVE  /\ rows'[i].attempt = rows'[j].attempt => i = j
               /\ rows'[i].attempt < rows'[j].attempt => rows'[i].status = "failed"
    <3>1. ASSUME NEW q \in Ids, q # NextId, rows'[q].key = rows[s].key
          PROVE  /\ rows'[q].attempt \in Attempts /\ rows'[q].attempt <= rows[s].attempt
                 /\ rows'[q].status = "failed"
      <4>1. rows[q].key = rows[s].key /\ rows'[q].attempt = rows[q].attempt
        BY <2>3, <3>1 DEF KeptRow
      <4>2. Used(q)
        BY <1>0, <2>4, <4>1
      <4>3. CASE q = s
        BY <2>1, <2>4, <4>1, <4>3 DEF Attempts
      <4>4. CASE q # s
        BY <1>0, <2>1, <2>2, <2>4, <3>1, <4>1, <4>2, <4>4 DEF Attempts
      <4> QED
        BY <4>3, <4>4
    <3>2. CASE i = NextId /\ j = NextId
      BY <2>1, <2>4, <3>2 DEF Attempts
    <3>3. CASE i = NextId /\ j # NextId
      BY <2>1, <2>4, <2>5, <3>1, <3>3 DEF Attempts
    <3>4. CASE i # NextId /\ j = NextId
      BY <2>1, <2>4, <2>5, <3>1, <3>4 DEF Attempts
    <3>5. CASE i # NextId /\ j # NextId
      <4>1. Used(i) /\ rows[i].key = rows[j].key /\ rows'[i].attempt = rows[i].attempt /\ rows'[j].attempt = rows[j].attempt
        BY <2>3, <2>5, <3>5 DEF KeptRow, Used
      <4>2. CASE rows[i].key = rows[s].key
        <5>1. rows'[i].key = rows[s].key
          BY <2>3, <3>5, <4>2 DEF KeptRow
        <5>2. rows'[i].status = "failed"
          BY <3>1, <3>5, <5>1
        <5> QED
          BY <1>0, <4>1, <5>2 DEF LastIsOpen
      <4>3. CASE rows[i].key # rows[s].key
        BY <1>0, <2>1, <3>5, <4>1, <4>3 DEF LastIsOpen
      <4> QED
        BY <4>2, <4>3
    <3> QED
      BY <3>2, <3>3, <3>4, <3>5
  <2> QED
    BY <2>5
<1>6. Goal
  BY <1>1, <1>2, <1>3, <1>4, <1>5 DEF RowsChange
<1> QED
  BY <1>6 DEF LastIsOpen, Used

LEMMA StepNothingSkipped ==
  ASSUME IInv, RowsChange, NothingSkipped
  PROVE  NothingSkipped'
<1>0. \A q \in Ids : Used(q) => KeptRow(q) /\ Used(q)'
  BY UsedRowsStay
<1>1. \A q \in Ids : rows[q].key \in Keys => Used(q)
  BY DEF IInv, RowsTyped, RowsFilled
<1>2. \A q \in Ids : Used(q) => rows[q].key \in Keys /\ rows[q].attempt \in Attempts
  BY DEF IInv, RowsTyped, RowsFilled
<1>3. ASSUME NEW q \in Ids, Used(q), NEW n \in Attempts, n <= rows[q].attempt
      PROVE  \E j \in Ids : rows'[j].key = rows'[q].key /\ rows'[j].attempt = n
  <2>1. PICK j \in Ids : rows[j].key = rows[q].key /\ rows[j].attempt = n
    BY <1>3 DEF NothingSkipped
  <2>2. Used(j)
    BY <1>1, <1>2, <1>3, <2>1
  <2> QED
    BY <1>0, <1>3, <2>1, <2>2 DEF KeptRow
<1>4. CASE \A i \in Ids : KeptRow(i)
  <2> SUFFICES ASSUME NEW i \in Ids, NEW n \in Attempts, Used(i)', n <= rows'[i].attempt
               PROVE  \E j \in Ids : rows'[j].key = rows'[i].key /\ rows'[j].attempt = n
    BY DEF NothingSkipped
  <2> QED
    BY <1>3, <1>4 DEF KeptRow, Used
<1>5. ASSUME NEW k \in Keys, NEW m \in Attempts, Added(k, m) PROVE NothingSkipped'
  <2> SUFFICES ASSUME NEW i \in Ids, NEW n \in Attempts, Used(i)', n <= rows'[i].attempt
               PROVE  \E j \in Ids : rows'[j].key = rows'[i].key /\ rows'[j].attempt = n
    BY DEF NothingSkipped
  <2>1. CASE i # NextId
    BY <1>3, <1>5, <2>1 DEF Added, KeptRow, Used
  <2>2. CASE i = NextId /\ n = m
    BY <1>5, <2>2 DEF Added, AddsRow
  <2>3. CASE i = NextId /\ n # m
    <3>1. rows'[i].key = k /\ rows'[i].attempt = m
      BY <1>5, <2>3 DEF Added, AddsRow
    <3>2. n <= m - 1 /\ m > 1
      BY <2>3, <3>1 DEF Attempts
    <3>3. PICK q \in Ids : rows[q].key = k /\ rows[q].attempt = m - 1
      BY <1>5, <3>2 DEF Added, Existing, OfKey
    <3>4. Used(q) /\ rows'[q].key = k
      BY <1>0, <1>1, <3>3 DEF KeptRow
    <3> QED
      BY <1>3, <3>1, <3>2, <3>3, <3>4
  <2> QED
    BY <2>1, <2>2, <2>3
<1> QED
  BY <1>4, <1>5, Shape

LEMMA StepFailedHasSuccessor ==
  ASSUME IInv, RowsChange
  PROVE  FailedHasSuccessor'
<1> USE DEF IInv
<1> DEFINE Succeeds(i) == \E j \in Ids : rows'[j].key = rows'[i].key /\ rows'[j].attempt = rows'[i].attempt + 1
<1>0. \A q \in Ids : rows[q].key \in Keys => Used(q) /\ KeptRow(q)
  BY UsedRowsStay DEF RowsTyped, RowsFilled
<1>1. ASSUME NEW i \in Ids, Used(i), Existing(rows[i].key, rows[i].attempt + 1) PROVE Succeeds(i)
  <2>1. PICK j \in Ids : rows[j].key = rows[i].key /\ rows[j].attempt = rows[i].attempt + 1
    BY <1>1 DEF Existing, OfKey
  <2>2. rows[i].key \in Keys
    BY <1>1 DEF RowsTyped, RowsFilled
  <2> QED
    BY <1>0, <2>1, <2>2 DEF KeptRow
<1>2. ASSUME NEW i \in Ids, rows[i].status = "failed" PROVE Succeeds(i)
  <2>1. Used(i) /\ Existing(rows[i].key, rows[i].attempt + 1)
    BY <1>2 DEF FailedHasSuccessor, Existing, OfKey, Used
  <2> QED
    BY <1>1, <2>1
<1>3. ASSUME NEW i \in Ids, rows'[i].status = "failed", rows[i].status # "failed" PROVE Succeeds(i)
  <2>1. rows'[i] # rows[i]
    BY <1>3
  <2>2. ASSUME NEW m \in Ids, Marks(m) PROVE FALSE
    BY <1>3, <2>1, <2>2 DEF Marks, Rest, Live
  <2>3. ASSUME NEW k \in Keys, Enqueues(k) PROVE FALSE
    BY <1>3, <2>1, <2>3 DEF Enqueues, AddsRow, Rest
  <2>4. ASSUME NEW w \in Workers, SettlesAlone(w) PROVE Succeeds(i)
    <3>1. i = work[w].row /\ Used(i) /\ Verdict(w) = "failed"
      BY <1>3, <2>1, <2>4 DEF SettlesAlone, Settles, Rest
    <3> QED
      BY <1>1, <2>4, <3>1 DEF SettlesAlone
  <2>5. ASSUME NEW w \in Workers, SettlesAndRetries(w) PROVE Succeeds(i)
    <3>1. i # NextId
      BY <1>3, <2>5 DEF SettlesAndRetries, AddsRow
    <3>2. i = work[w].row
      BY <2>1, <2>5, <3>1 DEF SettlesAndRetries, Rest
    <3> QED
      BY <2>5, <3>2 DEF SettlesAndRetries, Settles, AddsRow, KeptRow
  <2> QED
    BY <2>1, <2>2, <2>3, <2>4, <2>5 DEF RowsChange
<1> QED
  BY <1>2, <1>3 DEF FailedHasSuccessor, OfKey
----------------------------------------------------------------------------
(* Producers, workers and what the endpoint has accepted *)

\* Only a producer, or the lock in its stead, adds first attempts.
LEMMA FirstsKept ==
  ASSUME IInv, RowsChange, \A k \in Keys : ~Enqueues(k), NEW q \in Keys
  PROVE  FirstAttempts(q)' = FirstAttempts(q)
<1>1. CASE \A i \in Ids : KeptRow(i)
  BY <1>1 DEF FirstAttempts, KeptRow
<1>2. ASSUME NEW k \in Keys, NEW n \in Attempts, Added(k, n), n > 1 PROVE FirstAttempts(q)' = FirstAttempts(q)
  <2>1. \A i \in Ids \ {NextId} : KeptRow(i)
    BY <1>2 DEF Added
  <2>2. NextId \notin FirstAttempts(q)
    BY NextIsFree DEF FirstAttempts, IInv, RowsTyped, RowsFilled
  <2>3. rows'[NextId].attempt # 1
    BY <1>2 DEF Added, AddsRow
  <2> QED
    BY <2>1, <2>2, <2>3 DEF FirstAttempts, KeptRow
<1>3. \/ \A i \in Ids : KeptRow(i)
      \/ \E k \in Keys, n \in Attempts : Added(k, n) /\ n > 1
  <2>0. \A i \in Ids : rows'[i] = rows[i] => KeptRow(i)
    BY DEF KeptRow
  <2>1. CASE UNCHANGED rows
    BY <2>0, <2>1
  <2>2. ASSUME NEW m \in Ids, Marks(m) PROVE \A i \in Ids : KeptRow(i)
    BY <2>0, <2>2 DEF Marks, Rest
  <2>3. ASSUME NEW w \in Workers, SettlesAlone(w) PROVE \A i \in Ids : KeptRow(i)
    BY <2>0, <2>3 DEF SettlesAlone, Settles, Rest
  <2>4. ASSUME NEW w \in Workers, SettlesAndRetries(w), NEW k \in Keys, NEW n \in Attempts, Added(k, n)
        PROVE  n > 1
    BY <2>4 DEF SettlesAndRetries, Added, AddsRow
  <2>5. ASSUME NEW w \in Workers, SettlesAndRetries(w)
        PROVE  \/ \A i \in Ids : KeptRow(i)
               \/ \E k \in Keys, n \in Attempts : Added(k, n) /\ n > 1
    BY <2>4, <2>5, Shape
  <2> QED
    BY <2>1, <2>2, <2>3, <2>5 DEF RowsChange
<1> QED
  BY <1>1, <1>2, <1>3

LEMMA FirstsEnqueued ==
  ASSUME IInv, NEW k \in Keys, Enqueues(k), NEW q \in Keys
  PROVE  FirstAttempts(q)' = IF q = k THEN FirstAttempts(q) \cup {NextId} ELSE FirstAttempts(q)
<1>1. /\ NextId \in Ids /\ rows'[NextId].key = k /\ rows'[NextId].attempt = 1
      /\ \A i \in Ids \ {NextId} : rows'[i] = rows[i]
  BY DEF Enqueues, AddsRow, Rest
<1>2. NextId \notin FirstAttempts(q)
  BY NextIsFree DEF FirstAttempts, IInv, RowsTyped, RowsFilled
<1> QED
  BY <1>1, <1>2 DEF FirstAttempts

LEMMA NoneEnqueued ==
  ASSUME IInv, [Next]_vars,
         \A k \in Keys : ~EnqueueLocked(k), \A p \in Producers : ~EnqueueInsert(p)
  PROVE  \A k \in Keys : ~Enqueues(k)
<1>0. RowsChange
  BY StepRows
<1> SUFFICES ASSUME NEW k \in Keys, Enqueues(k) PROVE FALSE
  OBVIOUS
<1>1. NextId \in Ids /\ ~Used(NextId) /\ rows'[NextId].status = "pending" /\ rows'[NextId].attempt = 1
  BY NextIsFree DEF IInv, Enqueues, AddsRow
<1>2. ASSUME NEW w \in Workers, NEW i \in Ids, Claim(w, i) PROVE FALSE
  <2>1. Marks(i)
    BY <1>2, ClaimRows DEF IInv
  <2> QED
    BY <1>1, <2>1 DEF Marks, Rest, KeptRow, Used
<1>3. ASSUME NEW i \in Ids, Ripen(i) PROVE FALSE
  <2>1. Marks(i)
    BY <1>3, RipenRows DEF IInv
  <2> QED
    BY <1>1, <2>1 DEF Marks, Rest, KeptRow, Used
<1>4. ASSUME NEW w \in Workers, Finish(w) PROVE FALSE
  <2>1. CASE UNCHANGED rows
    BY <1>1, <2>1 DEF Used
  <2>2. CASE SettlesAlone(w)
    BY <1>1, <2>2 DEF SettlesAlone, Settles, Rest, KeptRow, Used
  <2>3. CASE SettlesAndRetries(w)
    BY <1>1, <2>3 DEF SettlesAndRetries, AddsRow
  <2> QED
    BY <1>4, <2>1, <2>2, <2>3, FinishRows
<1>5. CASE UNCHANGED rows
  BY <1>1, <1>5 DEF Used
<1> QED
  BY <1>2, <1>3, <1>4, <1>5
  DEF Next, Execute, Load, Send, Count, Pause, WorkerFails, EnqueueLook, Deactivate, IssueSigningKey, Activate, ChangeRetries, vars

LEMMA StepFirstsAreFew ==
  ASSUME IInv, [Next]_vars
  PROVE  FirstsAreFew'
<1> USE DEF IInv
<1> SUFFICES ASSUME NEW q \in Keys
             PROVE  Cardinality(FirstAttempts(q)') + Cardinality(Holders(q)') <= Cardinality(Producers)
  BY DEF FirstsAreFew
<1>0. RowsChange
  BY StepRows
<1>1. /\ IsFiniteSet(FirstAttempts(q)) /\ Cardinality(FirstAttempts(q)) \in Nat
      /\ IsFiniteSet(Holders(q)) /\ Cardinality(Holders(q)) \in Nat
      /\ Cardinality(Holders(q)) <= Cardinality(Producers)
      /\ Cardinality(FirstAttempts(q)) + Cardinality(Holders(q)) <= Cardinality(Producers)
  BY FirstsFinite DEF FirstsAreFew
<1>2. Cardinality(Producers) \in Nat \ {0}
  BY Counts
<1>3. CASE UNCHANGED producer /\ \A k \in Keys : ~Enqueues(k)
  <2>1. FirstAttempts(q)' = FirstAttempts(q) /\ Holders(q)' = Holders(q)
    BY <1>0, <1>3, FirstsKept DEF Holders
  <2> QED
    BY <1>1, <2>1
<1>4. ASSUME NEW k \in Keys, EnqueueLocked(k)
      PROVE  Cardinality(FirstAttempts(q)') + Cardinality(Holders(q)') <= Cardinality(Producers)
  <2>1. Enqueues(k) /\ Holders(q)' = Holders(q)
    BY <1>4, EnqueuedRows DEF EnqueueLocked, Holders
  <2>2. CASE q = k
    <3>1. FirstAttempts(q) = {} /\ Holders(q) = {}
      BY <1>4, <2>2 DEF EnqueueLocked, Existing, OfKey, FirstAttempts, Holders, OperatorsChain
    <3>2. FirstAttempts(q)' = {NextId}
      BY <2>1, <2>2, <3>1, FirstsEnqueued
    <3>3. Cardinality(FirstAttempts(q)') = 1 /\ Cardinality(Holders(q)') = 0
      BY <2>1, <3>1, <3>2, FS_Singleton, FS_EmptySet
    <3> QED
      BY <1>2, <3>3
  <2>3. CASE q # k
    <3>1. FirstAttempts(q)' = FirstAttempts(q)
      BY <2>1, <2>3, FirstsEnqueued
    <3> QED
      BY <1>1, <2>1, <3>1
  <2> QED
    BY <2>2, <2>3
<1>5. ASSUME NEW p \in Producers, EnqueueInsert(p)
      PROVE  Cardinality(FirstAttempts(q)') + Cardinality(Holders(q)') <= Cardinality(Producers)
  <2>1. PICK k \in Keys : k = producer[p]
    BY <1>5 DEF EnqueueInsert, RestTyped
  <2>2. producer' = [producer EXCEPT ![p] = None] /\ Enqueues(k) /\ producer \in [Producers -> Keys \cup {None}]
    BY <1>5, <2>1, EnqueuedRows DEF EnqueueInsert, RestTyped
  <2>3. CASE q = k
    <3>1. Holders(q)' = Holders(q) \ {p} /\ p \in Holders(q)
      BY <2>1, <2>2, <2>3 DEF Holders
    <3>2. FirstAttempts(q)' = FirstAttempts(q) \cup {NextId}
      BY <2>2, <2>3, FirstsEnqueued
    <3>3. Cardinality(Holders(q)') = Cardinality(Holders(q)) - 1
      <4>1. Cardinality(Holders(q) \ {p})
              = IF p \in Holders(q) THEN Cardinality(Holders(q)) - 1 ELSE Cardinality(Holders(q))
        <5> HIDE DEF IInv
        <5> QED
          BY <1>1, FS_RemoveElement
      <4> QED
        BY <3>1, <4>1
    <3>4. \/ Cardinality(FirstAttempts(q)') = Cardinality(FirstAttempts(q)) + 1
          \/ Cardinality(FirstAttempts(q)') = Cardinality(FirstAttempts(q))
      <4>1. Cardinality(FirstAttempts(q) \cup {NextId})
              = IF NextId \in FirstAttempts(q) THEN Cardinality(FirstAttempts(q))
                ELSE Cardinality(FirstAttempts(q)) + 1
        <5> HIDE DEF IInv
        <5> QED
          BY <1>1, FS_AddElement
      <4> QED
        BY <3>2, <4>1
    <3> QED
      BY <1>1, <1>2, <3>3, <3>4
  <2>4. CASE q # k
    <3>1. Holders(q)' = Holders(q)
      BY <2>1, <2>2, <2>4 DEF Holders
    <3>2. FirstAttempts(q)' = FirstAttempts(q)
      BY <2>2, <2>4, FirstsEnqueued
    <3> QED
      BY <1>1, <3>1, <3>2
  <2> QED
    BY <2>3, <2>4
<1>6. ASSUME NEW p \in Producers, NEW k \in Keys, EnqueueLook(p, k)
      PROVE  Cardinality(FirstAttempts(q)') + Cardinality(Holders(q)') <= Cardinality(Producers)
  <2>1. /\ FirstAttempts(q)' = FirstAttempts(q)
        /\ producer[p] = None /\ producer' = [producer EXCEPT ![p] = k]
        /\ producer \in [Producers -> Keys \cup {None}]
    BY <1>6 DEF EnqueueLook, FirstAttempts, RestTyped
  <2>2. CASE q = k
    <3>1. FirstAttempts(q) = {}
      BY <1>6, <2>2 DEF EnqueueLook, Existing, OfKey, FirstAttempts
    <3>2. Holders(q)' \in SUBSET Producers
      BY DEF Holders
    <3>3. Cardinality(Holders(q)') <= Cardinality(Producers) /\ Cardinality(Holders(q)') \in Nat
      BY <3>2, FS_Subset, FS_CardinalityType
    <3> QED
      BY <1>2, <2>1, <3>1, <3>3, FS_EmptySet
  <2>3. CASE q # k
    <3>1. Holders(q)' = Holders(q)
      BY <2>1, <2>3 DEF Holders
    <3> QED
      BY <1>1, <2>1, <3>1
  <2> QED
    BY <2>2, <2>3
<1>7. CASE /\ \A k \in Keys : ~EnqueueLocked(k) /\ \A p \in Producers : ~EnqueueLook(p, k)
           /\ \A p \in Producers : ~EnqueueInsert(p)
  <2>1. UNCHANGED producer
    BY <1>7
    DEF Next, Execute, Load, Send, Finish, Count, Pause, WorkerFails, Claim, Ripen, Deactivate, IssueSigningKey, Activate,
        ChangeRetries, vars
  <2> QED
    BY <1>3, <1>7, <2>1, NoneEnqueued
<1> QED
  BY <1>4, <1>5, <1>6, <1>7

LEMMA StepStore ==
  ASSUME IInv, [Next]_vars
  PROVE  store' = store /\ (store = "operator" => producer' = producer)
<1>1. ASSUME NEW p \in Producers, EnqueueInsert(p) PROVE store = "app"
  BY <1>1 DEF EnqueueInsert, IInv, OperatorsChain, RestTyped
<1> QED
  BY <1>1
  DEF Next, Execute, Load, Send, Finish, Count, Pause, WorkerFails, Claim, Ripen, Deactivate, IssueSigningKey, Activate,
      ChangeRetries, vars, EnqueueLocked, EnqueueLook, EnqueueInsert

LEMMA StepOperatorsChain == ASSUME IInv, [Next]_vars PROVE OperatorsChain'
<1>1. RowsChange
  BY StepRows
<1>2. CASE store = "operator"
  BY <1>1, <1>2, StepStore, StepLastIsOpen, StepNothingSkipped DEF IInv, OperatorsChain
<1> QED
  BY <1>2, StepStore DEF OperatorsChain

LEMMA StepRestTyped == ASSUME IInv, [Next]_vars PROVE RestTyped'
<1> USE DEF IInv
<1>0. sub \in Subscription /\ faults \in 0..MaxFaults /\ producer \in [Producers -> Keys \cup {None}] /\ accepted \subseteq Keys
  BY DEF RestTyped
<1>1. store' \in {"operator", "app"}
  BY StepStore DEF RestTyped
<1>2. sub' \in Subscription
  <2>1. ASSUME NEW a \in BOOLEAN PROVE [sub EXCEPT !.active = a] \in Subscription
    BY <1>0 DEF Subscription
  <2>2. ASSUME NEW a \in BOOLEAN, NEW f \in 0..Threshold
        PROVE  [sub EXCEPT !.active = a, !.keyed = TRUE, !.failures = f] \in Subscription
    BY <1>0 DEF Subscription
  <2>3. ASSUME NEW n \in 0..MaxRetries PROVE [sub EXCEPT !.retries = n] \in Subscription
    BY <1>0 DEF Subscription
  <2>4. ASSUME NEW f \in 0..Threshold PROVE [sub EXCEPT !.failures = f] \in Subscription
    BY <1>0 DEF Subscription
  <2>5. ASSUME Deactivate PROVE sub' \in Subscription
    BY <2>1, <2>5 DEF Deactivate
  <2>6. ASSUME Activate PROVE sub' \in Subscription
    <3>1. PICK f \in 0..Threshold : f = IF store = "app" THEN 0 ELSE sub.failures
      BY <1>0 DEF Subscription
    <3>2. sub' = [sub EXCEPT !.active = TRUE, !.keyed = TRUE, !.failures = f]
      BY <2>6, <3>1 DEF Activate
    <3> QED
      BY <2>2, <3>2
  <2>7. ASSUME NEW n \in 0..MaxRetries, ChangeRetries(n) PROVE sub' \in Subscription
    BY <2>3, <2>7 DEF ChangeRetries
  <2>8. ASSUME NEW w \in Workers, Count(w) PROVE sub' \in Subscription
    <3>1. PICK f \in 0..Threshold : f = IF work[w].result = "ok" THEN 0
                                        ELSE IF sub.failures = Threshold THEN Threshold ELSE sub.failures + 1
      BY <1>0 DEF Subscription
    <3>2. sub' = [sub EXCEPT !.failures = f]
      BY <2>8, <3>1 DEF Count
    <3> QED
      BY <2>4, <3>2
  <2>9. ASSUME NEW w \in Workers, Pause(w) PROVE sub' \in Subscription
    BY <2>1, <2>9 DEF Pause
  <2>10. ASSUME IssueSigningKey PROVE sub' \in Subscription
    BY <1>0, <2>10 DEF IssueSigningKey, Subscription
  <2>11. CASE UNCHANGED sub
    BY <1>0, <2>11
  <2> QED
    BY <2>5, <2>6, <2>7, <2>8, <2>9, <2>10, <2>11
    DEF Next, Execute, Load, Send, Finish, WorkerFails, Claim, Ripen, EnqueueLocked, EnqueueLook, EnqueueInsert, vars
<1>3. accepted' \subseteq Keys
  <2>1. ASSUME NEW w \in Workers, Send(w) PROVE accepted' \subseteq Keys
    <3>1. rows[work[w].row].key \in Keys
      BY <2>1 DEF Send, At, WorkTyped, WorkersHaveRows, RowsTyped, RowsFilled
    <3> QED
      BY <1>0, <2>1, <3>1 DEF Send
  <2> QED
    BY <1>0, <2>1
    DEF Next, Execute, Load, Finish, Count, Pause, WorkerFails, Claim, Ripen, Deactivate, IssueSigningKey, Activate,
        ChangeRetries, vars, EnqueueLocked, EnqueueLook, EnqueueInsert
<1>4. producer' \in [Producers -> Keys \cup {None}]
  BY <1>0
  DEF Next, Execute, Load, Send, Finish, Count, Pause, WorkerFails, Claim, Ripen, Deactivate, IssueSigningKey, Activate,
      ChangeRetries, vars, EnqueueLocked, EnqueueLook, EnqueueInsert
<1>5. faults' = faults \/ (faults < MaxFaults /\ faults' = faults + 1)
  BY DEF Next, Execute, Load, Send, Finish, Count, Pause, WorkerFails, Claim, Ripen, Deactivate, IssueSigningKey, Activate,
         ChangeRetries, vars, EnqueueLocked, EnqueueLook, EnqueueInsert
<1>6. faults' \in 0..MaxFaults
  BY <1>0, <1>5
<1> QED
  BY <1>1, <1>2, <1>3, <1>4, <1>6 DEF RestTyped

LEMMA StepWorkTyped == ASSUME IInv, [Next]_vars PROVE WorkTyped'
<1> USE DEF IInv
<1>0. /\ work \in [Workers -> Task] /\ WorkersHaveRows
      /\ \A i \in Ids : Used(i) => Used(i)'
  BY StepRows, UsedRowsStay DEF WorkTyped
<1>1. Idle \in Task
  BY DEF Idle, Task, Results
<1>2. ASSUME NEW w \in Workers, NEW t \in Task, work' = [work EXCEPT ![w] = t],
             t.at \in {"load", "send", "finish"} => t.row \in Ids /\ Used(t.row)
      PROVE  WorkTyped'
  <2>1. work' \in [Workers -> Task]
    BY <1>0, <1>2
  <2>2. ASSUME NEW v \in Workers, work'[v].at \in {"load", "send", "finish"}
        PROVE  work'[v].row \in Ids /\ rows'[work'[v].row].status # "absent"
    <3>1. PICK i : i = work'[v].row
      OBVIOUS
    <3>2. i \in Ids /\ Used(i)
      BY <1>0, <1>2, <2>2, <3>1 DEF WorkersHaveRows
    <3> QED
      BY <1>0, <3>1, <3>2 DEF Used
  <2> QED
    BY <2>1, <2>2 DEF WorkTyped, WorkersHaveRows, Used
<1>3. ASSUME UNCHANGED work PROVE WorkTyped'
  <2>1. ASSUME NEW v \in Workers, work'[v].at \in {"load", "send", "finish"}
        PROVE  work'[v].row \in Ids /\ rows'[work'[v].row].status # "absent"
    <3>1. PICK i : i = work[v].row
      OBVIOUS
    <3>2. i \in Ids /\ Used(i)
      BY <1>0, <1>3, <2>1, <3>1 DEF WorkersHaveRows
    <3> QED
      BY <1>0, <1>3, <3>1, <3>2 DEF Used
  <2> QED
    BY <1>0, <1>3, <2>1 DEF WorkTyped, WorkersHaveRows, Used
<1>idle. ASSUME NEW w \in Workers, work' = [work EXCEPT ![w] = Idle] PROVE WorkTyped'
  BY <1>idle, <1>1, <1>2 DEF Idle
<1>4. ASSUME NEW w \in Workers, NEW i \in Ids, Claim(w, i) PROVE WorkTyped'
  <2>1. PICK t : t = [Idle EXCEPT !.at = "load", !.row = i]
    OBVIOUS
  <2>2. t \in Task /\ t.row = i
    <3>1. t = [at |-> "load", row |-> i, retries |-> 0, result |-> "none"]
      BY <2>1 DEF Idle
    <3> QED
      BY <3>1 DEF Task, Results
  <2>3. Used(i) /\ work' = [work EXCEPT ![w] = t]
    BY <1>4, <2>1 DEF Claim, Ready, Live, Used
  <2> QED
    BY <1>2, <2>2, <2>3
<1>5. ASSUME NEW w \in Workers, Load(w) PROVE WorkTyped'
  <2>0. work[w] \in Task /\ work[w].row \in Ids /\ Used(work[w].row) /\ sub.retries \in 0..MaxRetries
    BY <1>0, <1>5 DEF Load, At, WorkersHaveRows, RestTyped, Subscription
  <2>1. CASE work' = [work EXCEPT ![w] = Idle]
    BY <1>idle, <2>1
  <2>2. CASE work' # [work EXCEPT ![w] = Idle]
    <3>1. PICK t : t = IF sub.active THEN [work[w] EXCEPT !.at = "send", !.retries = sub.retries]
                                     ELSE [work[w] EXCEPT !.at = "finish", !.result = "never"]
      OBVIOUS
    <3>2. t \in Task /\ t.row = work[w].row
      BY <2>0, <3>1 DEF Task, Results
    <3>3. work' = [work EXCEPT ![w] = t]
      BY <1>5, <2>2, <3>1 DEF Load
    <3> QED
      BY <1>2, <2>0, <3>2, <3>3
  <2> QED
    BY <2>1, <2>2
<1>6. ASSUME NEW w \in Workers, Send(w) PROVE WorkTyped'
  <2>0. work[w] \in Task /\ work[w].row \in Ids /\ Used(work[w].row)
    BY <1>0, <1>6 DEF Send, At, WorkersHaveRows
  <2>1. PICK result \in Results : work' = [work EXCEPT ![w].at = "finish", ![w].result = result]
    BY <1>6 DEF Send, Results
  <2>2. PICK t : t = [work[w] EXCEPT !.at = "finish", !.result = result]
    OBVIOUS
  <2>3. t \in Task /\ t.row = work[w].row
    BY <2>0, <2>2 DEF Task
  <2>4. work' = [work EXCEPT ![w] = t]
    BY <2>1, <2>2
  <2> QED
    BY <1>2, <2>0, <2>3, <2>4
<1>7. ASSUME NEW w \in Workers, Finish(w) PROVE WorkTyped'
  <2>0. work[w] \in Task
    BY <1>0
  <2>1. PICK t : t = [Idle EXCEPT !.at = "count", !.result = work[w].result]
    OBVIOUS
  <2>2. t \in Task /\ t.at = "count"
    <3>1. t = [at |-> "count", row |-> 0, retries |-> 0, result |-> work[w].result]
      BY <2>1 DEF Idle
    <3> QED
      BY <2>0, <3>1 DEF Task
  <2>3. work' = [work EXCEPT ![w] = t] \/ work' = [work EXCEPT ![w] = Idle]
    BY <1>7, <2>1 DEF Finish, GoTo
  <2> QED
    BY <1>2, <1>idle, <2>2, <2>3
<1>8. ASSUME NEW w \in Workers, Count(w) PROVE WorkTyped'
  <2>0. work[w] \in Task
    BY <1>0
  <2>1. PICK t : t = [work[w] EXCEPT !.at = "pause"]
    OBVIOUS
  <2>2. t \in Task /\ t.at = "pause"
    BY <2>0, <2>1 DEF Task
  <2>3. work' = [work EXCEPT ![w] = t] \/ work' = [work EXCEPT ![w] = Idle]
    BY <1>8, <2>1 DEF Count, GoTo
  <2> QED
    BY <1>2, <1>idle, <2>2, <2>3
<1>9. ASSUME NEW w \in Workers, Pause(w) \/ WorkerFails(w) PROVE WorkTyped'
  BY <1>9, <1>idle DEF Pause, WorkerFails, GoTo
<1> QED
  BY <1>3, <1>4, <1>5, <1>6, <1>7, <1>8, <1>9
  DEF Next, Execute, Ripen, Deactivate, IssueSigningKey, Activate, ChangeRetries, vars, EnqueueLocked, EnqueueLook, EnqueueInsert

LEMMA StepSuccessIsEarned == ASSUME IInv, [Next]_vars PROVE SuccessIsEarned'
<1> USE DEF IInv
<1>0. /\ RowsChange
      /\ \A i \in Ids : Used(i) => KeptRow(i) /\ rows[i].key \in Keys
      /\ \A i \in Ids : rows[i].key \in Keys => Used(i)
  BY StepRows, UsedRowsStay DEF RowsTyped, RowsFilled
<1>1. /\ accepted \subseteq accepted'
      /\ \A k \in accepted' \ accepted : \E i \in Ids : Used(i) /\ rows[i].key = k
  <2>1. ASSUME NEW w \in Workers, Send(w)
        PROVE  /\ accepted \subseteq accepted'
               /\ \A k \in accepted' \ accepted : \E i \in Ids : Used(i) /\ rows[i].key = k
    <3>1. work[w].row \in Ids /\ Used(work[w].row)
      BY <2>1 DEF Send, At, WorkTyped, WorkersHaveRows
    <3>2. accepted' = accepted \/ accepted' = accepted \cup {rows[work[w].row].key}
      BY <2>1 DEF Send
    <3> QED
      BY <3>1, <3>2
  <2>2. CASE UNCHANGED accepted
    BY <2>2
  <2> QED
    BY <2>1, <2>2
    DEF Next, Execute, Load, Finish, Count, Pause, WorkerFails, Claim, Ripen, Deactivate, IssueSigningKey, Activate,
        ChangeRetries, vars, EnqueueLocked, EnqueueLook, EnqueueInsert
<1>2. \A k \in accepted' : \E i \in Ids : rows'[i].key = k
  <2> SUFFICES ASSUME NEW k \in accepted' PROVE \E i \in Ids : rows'[i].key = k
    OBVIOUS
  <2>1. PICK i \in Ids : Used(i) /\ rows[i].key = k
    BY <1>0, <1>1 DEF SuccessIsEarned, RestTyped
  <2> QED
    BY <1>0, <2>1 DEF KeptRow
<1>3. ASSUME NEW i \in Ids, rows'[i].status = "succeeded" PROVE rows'[i].key \in accepted'
  <2>1. CASE rows[i].status = "succeeded"
    BY <1>0, <1>1, <2>1 DEF SuccessIsEarned, KeptRow, Used
  <2>2. ASSUME NEW w \in Workers, Settles(w), i = work[w].row, Finish(w) PROVE rows'[i].key \in accepted'
    <3>1. work[w].at = "finish" /\ work[w].result = "ok"
      BY <1>3, <2>2 DEF Finish, At, Settles, Verdict
    <3> QED
      BY <1>1, <2>2, <3>1 DEF SuccessIsEarned, Settles, KeptRow
  <2>3. CASE rows[i].status # "succeeded" /\ ~\E w \in Workers : Finish(w)
    <3>1. ASSUME NEW m \in Ids, Marks(m) PROVE FALSE
      BY <1>3, <2>3, <3>1 DEF Marks, Rest, Live
    <3>2. ASSUME NEW k \in Keys, Enqueues(k) PROVE FALSE
      BY <1>3, <2>3, <3>2 DEF Enqueues, AddsRow, Rest
    <3>3. CASE UNCHANGED rows
      BY <1>3, <2>3, <3>3
    <3>4. ASSUME NEW k \in Keys, EnqueueLocked(k) PROVE Enqueues(k)
      BY <3>4, EnqueuedRows DEF EnqueueLocked
    <3>5. ASSUME NEW p \in Producers, EnqueueInsert(p) PROVE \E k \in Keys : Enqueues(k)
      <4>1. producer[p] \in Keys
        BY <3>5 DEF EnqueueInsert, RestTyped
      <4> QED
        BY <3>5, <4>1, EnqueuedRows DEF EnqueueInsert
    <3> QED
      BY <2>3, <3>1, <3>2, <3>3, <3>4, <3>5, ClaimRows, RipenRows
      DEF Next, Execute, Load, Send, Count, Pause, WorkerFails, Deactivate, IssueSigningKey, Activate, ChangeRetries, vars, EnqueueLook
  <2>4. ASSUME NEW w \in Workers, Finish(w), rows[i].status # "succeeded" PROVE rows'[i].key \in accepted'
    <3>1. CASE UNCHANGED rows
      BY <1>3, <2>4, <3>1
    <3>2. CASE SettlesAlone(w)
      <4>1. i = work[w].row
        BY <1>3, <2>4, <3>2 DEF SettlesAlone, Rest
      <4> QED
        BY <2>2, <2>4, <3>2, <4>1 DEF SettlesAlone
    <3>3. CASE SettlesAndRetries(w)
      BY <1>3, <2>4, <3>3 DEF SettlesAndRetries, Settles, Rest, AddsRow
    <3> QED
      BY <2>4, <3>1, <3>2, <3>3, FinishRows
  <2> QED
    BY <2>1, <2>3, <2>4
<1>4. ASSUME NEW w \in Workers, work'[w].at = "finish", work'[w].result = "ok"
      PROVE  rows'[work'[w].row].key \in accepted'
  <2>1. CASE work'[w] = work[w]
    <3>1. PICK i : i = work[w].row
      OBVIOUS
    <3>2. i \in Ids /\ Used(i) /\ rows[i].key \in accepted
      BY <1>4, <2>1, <3>1 DEF WorkTyped, WorkersHaveRows, SuccessIsEarned
    <3> QED
      BY <1>0, <1>1, <2>1, <3>1, <3>2 DEF KeptRow
  <2>2. CASE Send(w)
    <3>1. PICK result \in {"ok", "again", "never"} :
            /\ accepted' \in (IF result = "ok" THEN {} ELSE {accepted})
                             \cup (IF result = "never" THEN {} ELSE {accepted \cup {rows[work[w].row].key}})
            /\ work' = [work EXCEPT ![w].at = "finish", ![w].result = result]
      BY <2>2 DEF Send
    <3>2. work[w] \in Task /\ work[w].row \in Ids /\ Used(work[w].row) /\ UNCHANGED rows
      BY <2>2 DEF Send, At, WorkTyped, WorkersHaveRows
    <3>3. work'[w] = [work[w] EXCEPT !.at = "finish", !.result = result]
      BY <3>1 DEF WorkTyped
    <3>4. result = "ok" /\ work'[w].row = work[w].row
      BY <1>4, <3>2, <3>3 DEF Task
    <3>5. accepted' = accepted \cup {rows[work[w].row].key}
      BY <3>1, <3>4
    <3> QED
      BY <3>2, <3>4, <3>5
  <2>3. CASE work'[w] # work[w] /\ ~Send(w)
    <3>0. work[w] \in Task /\ work \in [Workers -> Task]
      BY DEF WorkTyped
    <3>1. ASSUME NEW v \in Workers, NEW t, work' = [work EXCEPT ![v] = t]
          PROVE  v = w /\ work'[w] = t
      BY <2>3, <3>0, <3>1
    <3>2. work'[w] # Idle
      BY <1>4 DEF Idle
    <3>3. ASSUME NEW v \in Workers, NEW i \in Ids, Claim(v, i) PROVE FALSE
      <4>1. work'[w] = [Idle EXCEPT !.at = "load", !.row = i]
        BY <3>1, <3>3 DEF Claim
      <4> QED
        BY <1>4, <4>1 DEF Idle
    <3>4. ASSUME NEW v \in Workers, Load(v) PROVE FALSE
      <4>1. \/ work'[w] = [work[w] EXCEPT !.at = "send", !.retries = sub.retries]
            \/ work'[w] = [work[w] EXCEPT !.at = "finish", !.result = "never"]
            \/ work'[w] = Idle
        BY <3>1, <3>4 DEF Load
      <4> QED
        BY <1>4, <3>0, <3>2, <4>1 DEF Task
    <3>5. ASSUME NEW v \in Workers, Finish(v) PROVE FALSE
      <4>1. work'[w] = Idle \/ work'[w] = [Idle EXCEPT !.at = "count", !.result = work[w].result]
        BY <3>1, <3>5 DEF Finish, GoTo
      <4> QED
        BY <1>4, <3>2, <4>1 DEF Idle
    <3>6. ASSUME NEW v \in Workers, Count(v) PROVE FALSE
      <4>1. \/ work' = [work EXCEPT ![v] = Idle]
            \/ work' = [work EXCEPT ![v].at = "pause"]
        BY <3>6 DEF Count, GoTo
      <4>2. work'[w] = Idle \/ work'[w] = [work[w] EXCEPT !.at = "pause"]
        BY <2>3, <3>0, <4>1
      <4> QED
        BY <1>4, <3>0, <3>2, <4>2 DEF Task
    <3>7. ASSUME NEW v \in Workers, Pause(v) \/ WorkerFails(v) PROVE FALSE
      <4>1. work'[w] = Idle
        BY <3>1, <3>7 DEF Pause, WorkerFails, GoTo
      <4> QED
        BY <3>2, <4>1
    <3>8. ASSUME NEW v \in Workers, Send(v) PROVE FALSE
      <4>1. v = w
        BY <2>3, <3>0, <3>8 DEF Send
      <4> QED
        BY <2>3, <3>8, <4>1
    <3> QED
      BY <2>3, <3>3, <3>4, <3>5, <3>6, <3>7, <3>8
      DEF Next, Execute, Ripen, Deactivate, IssueSigningKey, Activate, ChangeRetries, vars, EnqueueLocked, EnqueueLook, EnqueueInsert
  <2> QED
    BY <2>1, <2>2, <2>3
<1> QED
  BY <1>2, <1>3, <1>4 DEF SuccessIsEarned

LEMMA StepIInv == IInv /\ [Next]_vars => IInv'
<1> SUFFICES ASSUME IInv, [Next]_vars PROVE IInv'
  OBVIOUS
<1>1. RowsChange
  BY StepRows
<1>2. RowsTyped' /\ RowsInOrder' /\ OneRetryEach' /\ FailedHasSuccessor'
  BY <1>1, StepRowsTyped, StepRowsInOrder, StepOneRetry, StepFailedHasSuccessor
<1> QED
  BY <1>2, StepWorkTyped, StepRestTyped, StepFirstsAreFew, StepOperatorsChain, StepSuccessIsEarned DEF IInv

LEMMA InvariantHolds == Spec => []IInv
BY InitIInv, StepIInv, PTL DEF Spec

\* Every variable keeps to its set: in particular no retry is numbered beyond
\* the limit, and every worker between claim and completion has a row.
THEOREM TypeCorrect == Spec => []TypeOK
<1>1. IInv => TypeOK
  BY TypedIsTypeOK DEF IInv
<1> QED
  BY <1>1, InvariantHolds, PTL

\* A failure that is to be retried has its retry (completeAndEnqueueRetry),
\* with either store, whatever dies and however often a row is completed.
THEOREM RetriesAreEnqueued == Spec => []FailedHasSuccessor
<1>1. IInv => FailedHasSuccessor
  BY DEF IInv
<1> QED
  BY <1>1, InvariantHolds, PTL

\* The attempts of an operator's delivery are a chain, by the advisory lock and
\* the check that a completed row is in flight.
THEOREM AttemptsAreAChain == Spec => []ChainIsLinear
<1>1. IInv => ChainIsLinear
  <2> SUFFICES ASSUME IInv, store = "operator", NEW k \in Keys, NEW i \in OfKey(k)
               PROVE  /\ \A j \in OfKey(k) : rows[i].attempt = rows[j].attempt => i = j
                      /\ rows[i].attempt > 1 =>
                           \E j \in OfKey(k) : rows[j].attempt = rows[i].attempt - 1 /\ rows[j].status = "failed"
    BY DEF ChainIsLinear
  <2>1. LastIsOpen /\ NothingSkipped /\ \A j \in OfKey(k) : j \in Ids /\ rows[j].key = k /\ Used(j) /\ rows[j].attempt \in Attempts
    BY DEF IInv, OperatorsChain, OfKey, RowsTyped, RowsFilled
  <2>2. ASSUME rows[i].attempt > 1
        PROVE  \E j \in OfKey(k) : rows[j].attempt = rows[i].attempt - 1 /\ rows[j].status = "failed"
    <3>1. rows[i].attempt - 1 \in Attempts /\ rows[i].attempt - 1 <= rows[i].attempt
      BY <2>1, <2>2 DEF Attempts
    <3>2. PICK j \in Ids : rows[j].key = k /\ rows[j].attempt = rows[i].attempt - 1
      BY <2>1, <3>1 DEF NothingSkipped
    <3>3. j \in OfKey(k) /\ Used(j) /\ rows[j].attempt < rows[i].attempt
      BY <2>1, <3>1, <3>2 DEF OfKey, Attempts
    <3> QED
      BY <2>1, <3>2, <3>3 DEF LastIsOpen
  <2>3. \A j \in OfKey(k) : rows[i].attempt = rows[j].attempt => i = j
    BY <2>1 DEF LastIsOpen
  <2> QED
    BY <2>2, <2>3
<1> QED
  BY <1>1, InvariantHolds, PTL
----------------------------------------------------------------------------
(* Refinement *)

Accepting == [k \in Keys |-> IF Promised(k) /\ k \in accepted THEN {"endpoint"} ELSE {}]

\* Only the rows of a key and their status make its phase.
LEMMA SamePhase ==
  ASSUME store' = store, NEW k \in Keys,
         \A i \in Ids : /\ rows'[i].key = k <=> rows[i].key = k
                        /\ rows[i].key = k => /\ rows'[i].status = "succeeded" <=> rows[i].status = "succeeded"
                                              /\ rows'[i].status \in Live <=> rows[i].status \in Live
  PROVE  DeliveryPhase'[k] = DeliveryPhase[k] /\ (Promised(k)' <=> Promised(k))
<1>1. OfKey(k)' = OfKey(k)
  BY DEF OfKey
<1>2. Promised(k)' <=> Promised(k)
  BY <1>1 DEF Promised
<1>3. (\E i \in OfKey(k)' : rows'[i].status = "succeeded") <=> (\E i \in OfKey(k) : rows[i].status = "succeeded")
  BY <1>1 DEF OfKey
<1>4. (\E i \in OfKey(k)' : rows'[i].status \in Live) <=> (\E i \in OfKey(k) : rows[i].status \in Live)
  BY <1>1 DEF OfKey
<1> QED
  BY <1>2, <1>3, <1>4 DEF DeliveryPhase

LEMMA StepRefines ==
  ASSUME IInv, [Next]_vars
  PROVE  [Contract!Next]_(Contract!contract)
<1> USE DEF IInv
<1> DEFINE Step == [Contract!Next]_(Contract!contract)
<1>0. /\ store' = store /\ store \in {"operator", "app"}
      /\ RowsChange /\ IInv'
      /\ \A i \in Ids : Used(i) <=> rows[i].key \in Keys
      /\ None \notin Keys
      /\ DOMAIN DeliveryPhase = Keys /\ DOMAIN DeliveryPhase' = Keys
  BY StepStore, StepRows, StepIInv DEF RestTyped, RowsTyped, RowsFilled, DeliveryPhase
<1>same. ASSUME UNCHANGED DeliveryPhase, UNCHANGED Accepting PROVE Step
  BY <1>same DEF Contract!contract, Accepting
<1>phases. ASSUME \A k \in Keys : DeliveryPhase'[k] = DeliveryPhase[k] PROVE UNCHANGED DeliveryPhase
  BY <1>phases DEF DeliveryPhase
<1> HIDE DEF Step
<1>app. ASSUME store = "app" PROVE Step
  <2>1. UNCHANGED DeliveryPhase /\ UNCHANGED Accepting
    BY <1>0, <1>app DEF DeliveryPhase, Accepting, Promised
  <2> QED
    BY <1>same, <2>1
<1>op. ASSUME store = "operator" PROVE Step
  <2>send. ASSUME NEW w \in Workers, Send(w) PROVE Step
    <3>1. PICK k \in Keys : k = rows[work[w].row].key /\ OfKey(k) # {}
      BY <2>send DEF Send, At, WorkTyped, WorkersHaveRows, RowsTyped, RowsFilled, OfKey
    <3>2. UNCHANGED rows /\ (accepted' = accepted \/ accepted' = accepted \cup {k})
      BY <2>send, <3>1 DEF Send
    <3>3. UNCHANGED DeliveryPhase /\ \A q \in Keys : Promised(q)' <=> Promised(q)
      BY <1>0, <3>2 DEF DeliveryPhase, Promised, OfKey
    <3>4. CASE accepted' = accepted
      <4>1. UNCHANGED Accepting
        BY <3>3, <3>4 DEF Accepting
      <4> QED
        BY <1>same, <3>3, <4>1
    <3>5. CASE accepted' = accepted \cup {k}
      <4>1. Promised(k)
        BY <1>op, <3>1 DEF Promised
      <4>2. DeliveryPhase[k] # "none"
        BY <4>1 DEF DeliveryPhase
      <4>3. Accepting' = [Accepting EXCEPT ![k] = @ \cup {"endpoint"}]
        <5>1. \A q \in Keys : Accepting'[q] = IF q = k THEN Accepting[q] \cup {"endpoint"} ELSE Accepting[q]
          BY <3>3, <3>5, <4>1 DEF Accepting
        <5> QED
          BY <5>1 DEF Accepting
      <4>4. Contract!Handle(k, "endpoint")
        BY <3>3, <4>2, <4>3 DEF Contract!Handle, Accepting
      <4> QED
        BY <4>4 DEF Contract!Next, Step
    <3> QED
      BY <3>2, <3>4, <3>5
  <2>kept. ASSUME accepted' = accepted PROVE Step
    <3>0. ASSUME \A k \in Keys : Promised(k)' <=> Promised(k) PROVE UNCHANGED Accepting
      BY <2>kept, <3>0 DEF Accepting
    <3>1. CASE UNCHANGED rows
      <4>1. \A k \in Keys : DeliveryPhase'[k] = DeliveryPhase[k] /\ (Promised(k)' <=> Promised(k))
        BY <1>0, <3>1, SamePhase
      <4> QED
        BY <1>phases, <1>same, <3>0, <4>1
    <3>2. ASSUME NEW i \in Ids, Marks(i) PROVE Step
      <4>1. /\ \A j \in Ids \ {i} : rows'[j] = rows[j]
            /\ rows'[i].key = rows[i].key /\ rows[i].status \in Live /\ rows'[i].status \in Live
        BY <3>2 DEF Marks, Rest, KeptRow
      <4>2. \A k \in Keys : DeliveryPhase'[k] = DeliveryPhase[k] /\ (Promised(k)' <=> Promised(k))
        BY <1>0, <4>1, SamePhase DEF Live
      <4> QED
        BY <1>phases, <1>same, <3>0, <4>2
    <3>3. ASSUME NEW k \in Keys, Enqueues(k), ~Existing(k, 1) PROVE Step
      <4>1. OfKey(k) = {}
        <5> SUFFICES ASSUME NEW i \in Ids, rows[i].key = k PROVE FALSE
          BY DEF OfKey
        <5>1. Used(i) /\ 1 \in Attempts /\ 1 <= rows[i].attempt
          BY <1>0 DEF RowsTyped, RowsFilled, Attempts
        <5> QED
          BY <1>op, <3>3, <5>1 DEF OperatorsChain, NothingSkipped, Existing, OfKey
      <4>2. /\ NextId \in Ids /\ rows'[NextId].key = k /\ rows'[NextId].status = "pending"
            /\ \A j \in Ids \ {NextId} : rows'[j] = rows[j]
            /\ rows[NextId].key \notin Keys
        BY <1>0, <3>3, NextIsFree DEF Enqueues, AddsRow, Rest
      <4>3. OfKey(k)' = {NextId}
        BY <4>1, <4>2 DEF OfKey
      <4>4. DeliveryPhase[k] = "none" /\ DeliveryPhase'[k] = "owed"
        BY <1>0, <1>op, <4>1, <4>2, <4>3 DEF DeliveryPhase, Promised, Live
      <4>5. \A q \in Keys : q # k => DeliveryPhase'[q] = DeliveryPhase[q] /\ (Promised(q)' <=> Promised(q))
        BY <1>0, <4>2, SamePhase
      <4>6. DeliveryPhase' = [DeliveryPhase EXCEPT ![k] = "owed"]
        BY <4>4, <4>5 DEF DeliveryPhase
      <4>7. k \notin accepted
        BY <4>1 DEF SuccessIsEarned, OfKey
      <4>8. Accepting' = [Accepting EXCEPT ![k] = {}]
        <5>1. \A q \in Keys : Accepting'[q] = IF q = k THEN {} ELSE Accepting[q]
          BY <2>kept, <4>5, <4>7 DEF Accepting
        <5> QED
          BY <5>1 DEF Accepting
      <4>9. Contract!Capture(k)
        BY <4>4, <4>6, <4>8 DEF Contract!Capture, Accepting
      <4> QED
        BY <4>9 DEF Contract!Next, Step
    <3>4. ASSUME NEW w \in Workers, Settles(w)
          PROVE  \E i \in Ids, k \in Keys :
                   /\ i = work[w].row /\ k = rows[i].key /\ rows[i].status = "in_flight"
                   /\ rows'[i].key = k /\ rows'[i].status = Verdict(w)
                   /\ \A j \in OfKey(k) : j # i => rows[j].status = "failed"
                   /\ DeliveryPhase[k] = "owed"
      <4>1. PICK i \in Ids, k \in Keys :
              /\ i = work[w].row /\ k = rows[i].key /\ rows[i].status = "in_flight"
              /\ rows'[i].key = k /\ rows'[i].status = Verdict(w)
        BY <1>0, <1>op, <3>4 DEF Settles, Completes, KeptRow
      <4>2. \A j \in OfKey(k) : j # i => rows[j].status = "failed"
        BY <1>op, <3>4, <4>1, CompletesTheLast DEF OfKey
      <4>3. i \in OfKey(k)
        BY <4>1 DEF OfKey
      <4>4. DeliveryPhase[k] = "owed"
        BY <1>op, <4>1, <4>2, <4>3 DEF DeliveryPhase, Promised, Live
      <4> QED
        BY <4>1, <4>2, <4>4
    <3>5. ASSUME NEW w \in Workers, SettlesAlone(w) PROVE Step
      <4>1. PICK i \in Ids, k \in Keys :
              /\ i = work[w].row /\ k = rows[i].key /\ rows[i].status = "in_flight"
              /\ rows'[i].key = k /\ rows'[i].status = Verdict(w)
              /\ \A j \in OfKey(k) : j # i => rows[j].status = "failed"
              /\ DeliveryPhase[k] = "owed"
        BY <3>4, <3>5 DEF SettlesAlone
      <4>2. \A j \in Ids \ {i} : rows'[j] = rows[j]
        BY <3>5, <4>1 DEF SettlesAlone, Rest
      <4>3. OfKey(k)' = OfKey(k) /\ i \in OfKey(k)
        BY <4>1, <4>2 DEF OfKey
      <4>4. \A q \in Keys : q # k => DeliveryPhase'[q] = DeliveryPhase[q]
        BY <1>0, <4>1, <4>2, SamePhase
      <4>5. UNCHANGED Accepting
        <5>1. \A q \in Keys : OfKey(q)' = OfKey(q)
          BY <4>1, <4>2 DEF OfKey
        <5> QED
          BY <1>0, <3>0, <5>1 DEF Promised
      <4>6. Promised(k) /\ Promised(k)'
        BY <1>0, <1>op, <4>3 DEF Promised
      <4>7. Verdict(w) # "failed"
        <5> SUFFICES ASSUME Verdict(w) = "failed" PROVE FALSE
          OBVIOUS
        <5>1. PICK j \in OfKey(k) : rows[j].attempt = rows[i].attempt + 1
          BY <3>5, <4>1 DEF SettlesAlone, Existing
        <5>2. rows[i].attempt \in Attempts
          BY <4>1 DEF RowsTyped, RowsFilled, Used
        <5>3. j # i
          BY <5>1, <5>2 DEF Attempts
        <5>4. rows[j].attempt < rows[i].attempt
          BY <1>op, <3>5, <4>1, <5>1, <5>3, CompletesTheLast DEF SettlesAlone, OfKey
        <5> QED
          BY <5>1, <5>2, <5>4 DEF Attempts
      <4>8. CASE Verdict(w) = "succeeded"
        <5>1. DeliveryPhase'[k] = "delivered"
          BY <4>1, <4>3, <4>6, <4>8 DEF DeliveryPhase
        <5>2. DeliveryPhase' = [DeliveryPhase EXCEPT ![k] = "delivered"]
          BY <4>4, <5>1 DEF DeliveryPhase
        <5>3. k \in accepted
          BY <1>0, <2>kept, <4>1, <4>8 DEF SuccessIsEarned
        <5>4. Accepting[k] = {"endpoint"}
          BY <4>6, <5>3 DEF Accepting
        <5>5. Contract!Deliver(k)
          BY <4>1, <4>5, <5>2, <5>4 DEF Contract!Deliver, Accepting
        <5> QED
          BY <5>5 DEF Contract!Next, Step
      <4>9. CASE Verdict(w) = "abandoned"
        <5>1. \A j \in OfKey(k) : rows'[j].status \in {"failed", "abandoned"}
          BY <4>1, <4>2, <4>9 DEF OfKey
        <5>2. DeliveryPhase'[k] = "deadLetter"
          BY <4>3, <4>6, <5>1 DEF DeliveryPhase, Live
        <5>3. DeliveryPhase' = [DeliveryPhase EXCEPT ![k] = "deadLetter"]
          BY <4>4, <5>2 DEF DeliveryPhase
        <5>4. Contract!GiveUp(k)
          BY <4>1, <4>5, <5>3 DEF Contract!GiveUp, Accepting
        <5> QED
          BY <5>4 DEF Contract!Next, Step
      <4> QED
        BY <4>7, <4>8, <4>9, VerdictTyped DEF Final
    <3>6. ASSUME NEW w \in Workers, SettlesAndRetries(w) PROVE Step
      <4>1. PICK i \in Ids, k \in Keys :
              /\ i = work[w].row /\ k = rows[i].key /\ rows[i].status = "in_flight"
              /\ rows'[i].key = k /\ rows'[i].status = Verdict(w)
              /\ \A j \in OfKey(k) : j # i => rows[j].status = "failed"
              /\ DeliveryPhase[k] = "owed"
        BY <3>4, <3>6 DEF SettlesAndRetries
      <4>2. /\ Verdict(w) = "failed" /\ NextId \in Ids
            /\ rows'[NextId].key = k /\ rows'[NextId].status = "pending"
            /\ \A j \in Ids \ {i, NextId} : rows'[j] = rows[j]
            /\ rows[NextId].key \notin Keys
        BY <1>0, <3>6, <4>1, NextIsFree DEF SettlesAndRetries, AddsRow, Rest
      <4>3. OfKey(k)' = OfKey(k) \cup {NextId} /\ i \in OfKey(k)
        BY <4>1, <4>2 DEF OfKey
      <4>4. \A q \in Keys : q # k => DeliveryPhase'[q] = DeliveryPhase[q] /\ (Promised(q)' <=> Promised(q))
        BY <1>0, <4>1, <4>2, SamePhase
      <4>5. Promised(k) /\ Promised(k)'
        BY <1>0, <1>op, <4>3 DEF Promised
      <4>6. \A j \in OfKey(k)' : rows'[j].status \in {"failed", "pending"}
        BY <4>1, <4>2, <4>3 DEF OfKey
      <4>7. DeliveryPhase'[k] = "owed"
        BY <4>2, <4>3, <4>5, <4>6 DEF DeliveryPhase, Live
      <4>8. UNCHANGED DeliveryPhase /\ UNCHANGED Accepting
        BY <1>phases, <3>0, <4>1, <4>4, <4>5, <4>7
      <4> QED
        BY <1>same, <4>8
    <3> QED
      BY <1>0, <1>op, <3>1, <3>2, <3>3, <3>5, <3>6 DEF RowsChange
  <2> QED
    BY <2>send, <2>kept
    DEF Next, Execute, Load, Finish, Count, Pause, WorkerFails, Claim, Ripen, Deactivate, IssueSigningKey, Activate,
        ChangeRetries, vars, EnqueueLocked, EnqueueLook, EnqueueInsert
<1> QED
  BY <1>0, <1>app, <1>op DEF Step

\* An operator's deliveries keep the contract of durable delivery: what was
\* enqueued is owed until the endpoint has accepted it or it is a dead letter.
THEOREM Refinement == Spec => ImplementsDurableDelivery
<1>1. Init => Contract!Init
  BY DEF Init, Contract!Init, DeliveryPhase, Promised, OfKey
<1>2. IInv /\ [Next]_vars => [Contract!Next]_(Contract!contract)
  BY StepRefines
<1> QED
  BY <1>1, <1>2, InvariantHolds, PTL DEF Spec, Contract!Spec, ImplementsDurableDelivery
=============================================================================
