----------------------- MODULE BookingLifecycleProofs -----------------------
(***************************************************************************)
(* Proofs about BookingLifecycle, for any number of items, departures and  *)
(* workers, any quantities, capacities and parties, and for bookings that  *)
(* took their seats afresh or from a hold: the seats of the allocations    *)
(* and the free seats add up, a cancelled booking claims none, and its     *)
(* items are left alone.                                                   *)
(*                                                                         *)
(* Sums over allocations are cardinalities of sets of pairs, so they need  *)
(* no induction: Sum(M, n, C) adds up n[i] for the i in C, each at most M. *)
(***************************************************************************)
EXTENDS BookingLifecycle, FiniteSetTheorems, TLAPS

Sum(M, n, C) == Cardinality({p \in C \X (1..M) : p[2] <= n[p[1]]})

LEMMA FirstNumbers == ASSUME NEW M \in Nat PROVE IsFiniteSet(1..M) /\ Cardinality(1..M) = M
BY FS_Interval

\* A finite set of items has finitely many seats, Cardinality(C) * M at most.
LEMMA SumFinite ==
  ASSUME NEW M \in Nat, NEW n, NEW C, IsFiniteSet(C)
  PROVE  /\ IsFiniteSet({p \in C \X (1..M) : p[2] <= n[p[1]]})
         /\ Sum(M, n, C) \in Nat /\ Sum(M, n, C) <= Cardinality(C) * M
<1>1. IsFiniteSet(1..M) /\ Cardinality(1..M) = M
  BY FirstNumbers
<1>2. IsFiniteSet(C \X (1..M)) /\ Cardinality(C \X (1..M)) = Cardinality(C) * M
  BY <1>1, FS_Product
<1>3. {p \in C \X (1..M) : p[2] <= n[p[1]]} \in SUBSET (C \X (1..M))
  OBVIOUS
<1> QED
  BY <1>2, <1>3, FS_Subset, FS_CardinalityType DEF Sum

LEMMA SumEmpty == ASSUME NEW M, NEW n PROVE Sum(M, n, {}) = 0
<1>1. {p \in {} \X (1..M) : p[2] <= n[p[1]]} = {}
  OBVIOUS
<1> QED
  BY <1>1, FS_EmptySet DEF Sum

LEMMA SumFrame ==
  ASSUME NEW M, NEW n, NEW m, NEW C, \A i \in C : n[i] = m[i]
  PROVE  Sum(M, n, C) = Sum(M, m, C)
<1>1. {p \in C \X (1..M) : p[2] <= n[p[1]]} = {p \in C \X (1..M) : p[2] <= m[p[1]]}
  OBVIOUS
<1> QED
  BY <1>1 DEF Sum

LEMMA SumZero ==
  ASSUME NEW M \in Nat, NEW n, NEW C, \A i \in C : n[i] = 0
  PROVE  Sum(M, n, C) = 0
<1>1. {p \in C \X (1..M) : p[2] <= n[p[1]]} = {}
  OBVIOUS
<1> QED
  BY <1>1, FS_EmptySet DEF Sum

\* Different items have different seats.
LEMMA SumAdd ==
  ASSUME NEW M \in Nat, NEW n, NEW C, NEW D, IsFiniteSet(C), IsFiniteSet(D), C \cap D = {}
  PROVE  Sum(M, n, C \cup D) = Sum(M, n, C) + Sum(M, n, D)
<1> DEFINE PC == {p \in C \X (1..M) : p[2] <= n[p[1]]}
           PD == {p \in D \X (1..M) : p[2] <= n[p[1]]}
<1>1. {p \in (C \cup D) \X (1..M) : p[2] <= n[p[1]]} = PC \cup PD /\ PC \cap PD = {}
  OBVIOUS
<1>2. IsFiniteSet(PC) /\ IsFiniteSet(PD)
  BY SumFinite
<1>3. PICK c \in Nat, d \in Nat : c = Cardinality(PC) /\ d = Cardinality(PD)
  BY <1>2, FS_CardinalityType
<1>4. Cardinality(PC \cap PD) = 0
  BY <1>1, FS_EmptySet
<1>5. Cardinality(PC \cup PD) = Cardinality(PC) + Cardinality(PD) - Cardinality(PC \cap PD)
  BY <1>2, FS_Union
<1>6. Cardinality(PC \cup PD) = c + d
  BY <1>3, <1>4, <1>5
<1> QED
  BY <1>1, <1>3, <1>6 DEF Sum

LEMMA SumMonotone ==
  ASSUME NEW M \in Nat, NEW n, NEW C, IsFiniteSet(C), NEW D \in SUBSET C
  PROVE  Sum(M, n, D) <= Sum(M, n, C)
<1>1. {p \in D \X (1..M) : p[2] <= n[p[1]]} \in SUBSET {p \in C \X (1..M) : p[2] <= n[p[1]]}
  OBVIOUS
<1>2. IsFiniteSet({p \in C \X (1..M) : p[2] <= n[p[1]]})
  BY SumFinite
<1>3. Cardinality({p \in D \X (1..M) : p[2] <= n[p[1]]}) <= Cardinality({p \in C \X (1..M) : p[2] <= n[p[1]]})
  BY <1>1, <1>2, FS_Subset
<1> QED
  BY <1>3 DEF Sum

LEMMA SumOne ==
  ASSUME NEW M \in Nat, NEW n, NEW i, n[i] \in 0..M
  PROVE  Sum(M, n, {i}) = n[i]
<1> DEFINE S == {p \in {i} \X (1..M) : p[2] <= n[p[1]]}
           f == [k \in 1..n[i] |-> <<i, k>>]
<1>1. \A k \in 1..n[i] : <<i, k>> \in S
  OBVIOUS
<1>2. \A p \in S : p[2] \in 1..n[i] /\ p = <<i, p[2]>>
  OBVIOUS
<1>3. f \in [1..n[i] -> S]
  BY <1>1
<1>4. \A j, k \in 1..n[i] : f[j] = f[k] => j = k
  OBVIOUS
<1>5. \A p \in S : \E k \in 1..n[i] : f[k] = p
  BY <1>2
<1> HIDE DEF f, S
<1>6. f \in Bijection(1..n[i], S)
  BY <1>3, <1>4, <1>5 DEF Bijection, Injection, Surjection, IsInjective
<1>7. ExistsBijection(1..n[i], S)
  BY <1>6 DEF ExistsBijection
<1>8. IsFiniteSet(1..n[i]) /\ Cardinality(1..n[i]) = n[i]
  <2>1. PICK last \in Nat : last = n[i]
    OBVIOUS
  <2>2. IsFiniteSet(1..last) /\ Cardinality(1..last) = last
    BY FirstNumbers
  <2> QED
    BY <2>1, <2>2
<1>9. Cardinality(S) = n[i]
  BY <1>7, <1>8, FS_Bijection
<1> QED
  BY <1>9 DEF Sum, S

\* One item's part of a sum.
LEMMA SumSplit ==
  ASSUME NEW M \in Nat, NEW n, NEW C, IsFiniteSet(C), NEW i \in C, n[i] \in 0..M
  PROVE  Sum(M, n, C) = Sum(M, n, C \ {i}) + n[i]
<1>1. IsFiniteSet(C \ {i}) /\ IsFiniteSet({i})
  BY FS_Subset, FS_Singleton
<1>2. (C \ {i}) \cup {i} = C /\ (C \ {i}) \cap {i} = {}
  OBVIOUS
<1>3. Sum(M, n, (C \ {i}) \cup {i}) = Sum(M, n, C \ {i}) + Sum(M, n, {i})
  BY <1>1, <1>2, SumAdd
<1> QED
  BY <1>2, <1>3, SumOne

LEMMA Constants ==
  /\ IsFiniteSet(Items) /\ None \notin Items
  /\ MaxQuantity \in Nat /\ Seats \in Nat /\ MaxTotal \in Nat
  /\ MaxClaim \in Nat /\ Seats <= MaxClaim /\ MaxQuantity <= MaxClaim
<1>1. Cardinality(Items) \in Nat
  BY ItemsAssumption, FS_CardinalityType
<1> QED
  BY <1>1, ItemsAssumption, QuantityAssumption DEF MaxClaim, MaxTotal
----------------------------------------------------------------------------
(* What the tables add up to *)

ItemTable == [Items -> [state: {"absent", "confirmed", "fulfilled", "cancelled"},
                        quantity: 0..MaxQuantity]]
AllocTable == [Items -> [state: {"none", "confirmed", "fulfilled", "cancelled"},
                         quantity: 0..MaxClaim, slot: Slots]]

Consumers(a) == {i \in Items : a[i].state \in {"confirmed", "fulfilled"}}
Together(a, s) == {i \in Consumers(a) : a[i].slot = s}
Carried(a) == [i \in Items |-> a[i].quantity]
Asked(rows) == [i \in Items |-> rows[i].quantity]
SeatsOf(a, s) == Sum(MaxClaim, Carried(a), Together(a, s))

LEMMA ConsumersFinite ==
  ASSUME NEW a PROVE  IsFiniteSet(Consumers(a)) /\ \A s : IsFiniteSet(Together(a, s))
<1>1. Consumers(a) \in SUBSET Items /\ \A s : Together(a, s) \in SUBSET Items
  BY DEF Consumers, Together
<1> QED
  BY <1>1, Constants, FS_Subset

LEMMA SumsTyped == ASSUME NEW a PROVE \A s : SeatsOf(a, s) \in Nat
BY ConsumersFinite, Constants, SumFinite DEF SeatsOf

\* Claims in terms of Sum.
LEMMA ClaimsAreSums ==
  /\ Consuming = Consumers(alloc)
  /\ \A s : Claim(Consuming, s) = SeatsOf(alloc, s)
  /\ \A I \in SUBSET Items : \A s : Claim(I, s) = Sum(MaxClaim, Carried(alloc), I \cap On(s))
  /\ \A I \in SUBSET Items : Quantity(I) = Sum(MaxQuantity, Asked(item), I)
  /\ \A w, s : Given(w, s) = Sum(MaxClaim, tx[w].seen, On(s))
<1>1. Consuming = Consumers(alloc)
  BY DEF Consuming, Consumers
<1>2. ASSUME NEW I \in SUBSET Items, NEW s
      PROVE  Claim(I, s) = Sum(MaxClaim, Carried(alloc), I \cap On(s))
  <2>1. {p \in (I \cap On(s)) \X (1..MaxClaim) : p[2] <= alloc[p[1]].quantity}
          = {p \in (I \cap On(s)) \X (1..MaxClaim) : p[2] <= Carried(alloc)[p[1]]}
    BY DEF Carried, On
  <2> QED
    BY <2>1 DEF Claim, Sum
<1>3. ASSUME NEW I \in SUBSET Items PROVE Quantity(I) = Sum(MaxQuantity, Asked(item), I)
  <2>1. {p \in I \X (1..MaxQuantity) : p[2] <= item[p[1]].quantity}
          = {p \in I \X (1..MaxQuantity) : p[2] <= Asked(item)[p[1]]}
    BY DEF Asked
  <2> QED
    BY <2>1 DEF Quantity, Sum
<1>4. \A s : Consumers(alloc) \cap On(s) = Together(alloc, s)
  BY DEF Consumers, Together, On
<1>5. Consuming \in SUBSET Items
  BY DEF Consuming
<1>6. \A s : Claim(Consuming, s) = SeatsOf(alloc, s)
  BY <1>1, <1>2, <1>4, <1>5 DEF SeatsOf
<1>7. \A w, s : Given(w, s) = Sum(MaxClaim, tx[w].seen, On(s))
  BY DEF Given, Sum
<1> QED
  BY <1>1, <1>2, <1>3, <1>6, <1>7

\* No items other than those that claim seats of a departure count for it.
LEMMA SameSeats ==
  ASSUME NEW a, NEW b, NEW s, Together(b, s) = Together(a, s),
         \A i \in Together(a, s) : b[i].quantity = a[i].quantity
  PROVE  SeatsOf(b, s) = SeatsOf(a, s)
<1>1. \A i \in Together(a, s) : Carried(b)[i] = Carried(a)[i]
  BY DEF Carried, Together, Consumers
<1>2. Sum(MaxClaim, Carried(b), Together(a, s)) = Sum(MaxClaim, Carried(a), Together(a, s))
  BY <1>1, SumFrame
<1> QED
  BY <1>2 DEF SeatsOf

\* An allocation takes n seats instead of what it had.
Resized(a, i, n) == [a EXCEPT ![i].quantity = n]

LEMMA ResizedSums ==
  ASSUME NEW a \in AllocTable, NEW i \in Consumers(a), NEW n \in 0..MaxClaim
  PROVE  LET b == Resized(a, i, n)  s == a[i].slot IN
         /\ b \in AllocTable /\ Consumers(b) = Consumers(a)
         /\ \A j \in Items : b[j].slot = a[j].slot /\ b[j].state = a[j].state
         /\ \A j \in Items \ {i} : b[j] = a[j]
         /\ b[i].quantity = n
         /\ \E rest \in Nat : SeatsOf(a, s) = rest + a[i].quantity /\ SeatsOf(b, s) = rest + n
         /\ \A u \in Slots \ {s} : SeatsOf(b, u) = SeatsOf(a, u)
<1> DEFINE b == Resized(a, i, n)
           s == a[i].slot
<1>1. i \in Items /\ a[i] \in [state: {"none", "confirmed", "fulfilled", "cancelled"},
                               quantity: 0..MaxClaim, slot: Slots]
  BY DEF Consumers, AllocTable
<1>2. PICK row : row = [a[i] EXCEPT !.quantity = n]
  OBVIOUS
<1>3. /\ row \in [state: {"none", "confirmed", "fulfilled", "cancelled"}, quantity: 0..MaxClaim, slot: Slots]
      /\ row.quantity = n /\ row.slot = a[i].slot /\ row.state = a[i].state
  BY <1>1, <1>2
<1>4. b = [a EXCEPT ![i] = row]
  BY <1>2 DEF Resized
<1>5. b \in AllocTable /\ b[i] = row /\ \A j \in Items \ {i} : b[j] = a[j]
  BY <1>1, <1>3, <1>4 DEF AllocTable
<1>6. \A j \in Items : b[j].slot = a[j].slot /\ b[j].state = a[j].state
  BY <1>3, <1>5
<1>7. Consumers(b) = Consumers(a) /\ \A u : Together(b, u) = Together(a, u)
  BY <1>6 DEF Consumers, Together
<1> HIDE DEF b
<1>8. ASSUME NEW C \in SUBSET Consumers(a), i \in C
      PROVE  \E rest \in Nat : /\ Sum(MaxClaim, Carried(a), C) = rest + a[i].quantity
                               /\ Sum(MaxClaim, Carried(b), C) = rest + n
  <2>1. IsFiniteSet(C) /\ IsFiniteSet(C \ {i})
    BY ConsumersFinite, FS_Subset
  <2>2. Carried(a)[i] = a[i].quantity /\ Carried(b)[i] = n /\ a[i].quantity \in 0..MaxClaim
    BY <1>1, <1>3, <1>5 DEF Carried
  <2>3. \A j \in C \ {i} : Carried(b)[j] = Carried(a)[j]
    BY <1>5 DEF Carried, Consumers
  <2>4. PICK rest \in Nat : rest = Sum(MaxClaim, Carried(a), C \ {i})
    BY <2>1, Constants, SumFinite
  <2>5. Sum(MaxClaim, Carried(b), C \ {i}) = rest
    BY <2>3, <2>4, SumFrame
  <2>6. Sum(MaxClaim, Carried(a), C) = rest + a[i].quantity
    BY <1>8, <2>1, <2>2, <2>4, Constants, SumSplit
  <2>7. Sum(MaxClaim, Carried(b), C) = rest + n
    BY <1>8, <2>1, <2>2, <2>5, Constants, SumSplit
  <2> QED
    BY <2>6, <2>7
<1>10. \E rest \in Nat : SeatsOf(a, s) = rest + a[i].quantity /\ SeatsOf(b, s) = rest + n
  <2>1. i \in Together(a, s) /\ Together(a, s) \in SUBSET Consumers(a)
    BY DEF Together
  <2> QED
    BY <1>7, <1>8, <2>1 DEF SeatsOf
<1>11. \A u \in Slots \ {s} : SeatsOf(b, u) = SeatsOf(a, u)
  <2> SUFFICES ASSUME NEW u \in Slots \ {s} PROVE SeatsOf(b, u) = SeatsOf(a, u)
    OBVIOUS
  <2>1. \A j \in Together(a, u) : b[j].quantity = a[j].quantity
    BY <1>5 DEF Together, Consumers
  <2> QED
    BY <1>7, <2>1, SameSeats
<1> QED
  BY <1>3, <1>5, <1>6, <1>7, <1>10, <1>11 DEF b

\* Item i and its allocation are gone, and carrier has what is left of the claim.
Others(a, i) == Together(a, a[i].slot) \ {i}
Handed(a, i, carrier, n) ==
  [j \in Items |->
     IF j = i THEN [a[j] EXCEPT !.state = "none", !.quantity = 0]
     ELSE IF j \notin Others(a, i) THEN a[j]
     ELSE [a[j] EXCEPT !.quantity = IF j = carrier THEN n ELSE 0]]

LEMMA HandedRows ==
  ASSUME NEW a \in AllocTable, NEW i \in Items, NEW carrier, NEW n \in 0..MaxClaim
  PROVE  LET b == Handed(a, i, carrier, n) IN
         /\ b \in AllocTable /\ Consumers(b) = Consumers(a) \ {i}
         /\ \A j \in Items : b[j].slot = a[j].slot
         /\ \A j \in Consumers(b) : b[j].state = a[j].state
         /\ \A j \in Items \ {i} : b[j].state = a[j].state
         /\ \A j \in (Items \ {i}) \ Others(a, i) : b[j] = a[j]
         /\ \A j \in Others(a, i) : b[j].quantity = IF j = carrier THEN n ELSE 0
<1> DEFINE b == Handed(a, i, carrier, n)
<1> DEFINE Row == [state: {"none", "confirmed", "fulfilled", "cancelled"}, quantity: 0..MaxClaim, slot: Slots]
<1>1. 0 \in 0..MaxClaim
  BY Constants
<1>2. ASSUME NEW j \in Items
      PROVE  /\ b[j] \in Row /\ b[j].slot = a[j].slot
             /\ j = i => b[j].state = "none"
             /\ j # i => b[j].state = a[j].state
             /\ j # i /\ j \notin Others(a, i) => b[j] = a[j]
             /\ j # i /\ j \in Others(a, i) => b[j].quantity = IF j = carrier THEN n ELSE 0
  <2>1. a[j] \in Row
    BY DEF AllocTable
  <2>2. PICK gone : gone = [a[j] EXCEPT !.state = "none", !.quantity = 0]
    OBVIOUS
  <2>3. gone \in Row /\ gone.slot = a[j].slot /\ gone.state = "none"
    BY <1>1, <2>1, <2>2
  <2>4. PICK m \in 0..MaxClaim : m = IF j = carrier THEN n ELSE 0
    BY <1>1
  <2>5. PICK kept : kept = [a[j] EXCEPT !.quantity = m]
    OBVIOUS
  <2>6. kept \in Row /\ kept.slot = a[j].slot /\ kept.state = a[j].state /\ kept.quantity = m
    BY <2>1, <2>5
  <2>7. b[j] = IF j = i THEN gone ELSE IF j \notin Others(a, i) THEN a[j] ELSE kept
    BY <2>2, <2>4, <2>5 DEF Handed
  <2> HIDE DEF b
  <2> QED
    BY <2>1, <2>3, <2>4, <2>6, <2>7
<1>3. b = [j \in Items |-> b[j]]
  BY DEF Handed
<1> HIDE DEF b
<1>4. b \in AllocTable
  BY <1>2, <1>3 DEF AllocTable
<1>5. Consumers(b) = Consumers(a) \ {i}
  BY <1>2 DEF Consumers
<1>6. i \notin Others(a, i) /\ Others(a, i) \subseteq Items
  BY DEF Others, Together, Consumers
<1> QED
  BY <1>2, <1>4, <1>5, <1>6 DEF b, Consumers

LEMMA HandedSums ==
  ASSUME NEW a \in AllocTable, NEW i \in Consumers(a), NEW n \in 0..MaxClaim,
         NEW carrier, IF Others(a, i) = {} THEN n = 0 ELSE carrier \in Others(a, i)
  PROVE  LET b == Handed(a, i, carrier, n)  s == a[i].slot IN
         /\ Together(b, s) = Others(a, i) /\ SeatsOf(b, s) = n
         /\ \A u \in Slots \ {s} : Together(b, u) = Together(a, u) /\ SeatsOf(b, u) = SeatsOf(a, u)
<1> DEFINE b == Handed(a, i, carrier, n)
           s == a[i].slot
           O == Others(a, i)
<1>1. i \in Items /\ O \subseteq Consumers(a) \ {i} /\ Consumers(a) \subseteq Items
  BY DEF Consumers, Others, Together
<1>2. /\ b \in AllocTable /\ Consumers(b) = Consumers(a) \ {i}
      /\ \A j \in Items : b[j].slot = a[j].slot
      /\ \A j \in (Items \ {i}) \ O : b[j] = a[j]
      /\ \A j \in O : b[j].quantity = IF j = carrier THEN n ELSE 0
  BY <1>1, HandedRows
<1> HIDE DEF b
<1>3. \A j \in O : j \in Items /\ Carried(b)[j] = IF j = carrier THEN n ELSE 0
  BY <1>1, <1>2 DEF Carried
<1>4. Together(b, s) = O
  BY <1>1, <1>2 DEF Together, Others
<1>5. \A u \in Slots \ {s} : Together(b, u) = Together(a, u)
  BY <1>1, <1>2 DEF Together
<1>6. IsFiniteSet(O) /\ IsFiniteSet(Consumers(a)) /\ IsFiniteSet(Consumers(a) \ O)
      /\ IsFiniteSet(Consumers(b) \ O)
  BY <1>1, <1>2, ConsumersFinite, FS_Subset
<1>7. Sum(MaxClaim, Carried(b), O) = n
  <2>1. CASE O = {}
    BY <2>1, SumEmpty
  <2>2. CASE O # {}
    <3>1. carrier \in O /\ Carried(b)[carrier] = n
      BY <1>3, <2>2
    <3>2. Sum(MaxClaim, Carried(b), O) = Sum(MaxClaim, Carried(b), O \ {carrier}) + n
      BY <1>6, <3>1, Constants, SumSplit
    <3>3. Sum(MaxClaim, Carried(b), O \ {carrier}) = 0
      BY <1>3, Constants, SumZero
    <3> QED
      BY <3>2, <3>3
  <2> QED
    BY <2>1, <2>2
<1>8. SeatsOf(b, s) = n
  BY <1>4, <1>7 DEF SeatsOf
<1>9. \A u \in Slots \ {s} : SeatsOf(b, u) = SeatsOf(a, u)
  <2> SUFFICES ASSUME NEW u \in Slots \ {s} PROVE SeatsOf(b, u) = SeatsOf(a, u)
    OBVIOUS
  <2>1. \A j \in Together(a, u) : b[j].quantity = a[j].quantity
    BY <1>1, <1>2 DEF Together, Others
  <2> QED
    BY <1>5, <2>1, SameSeats
<1> QED
  BY <1>4, <1>5, <1>8, <1>9 DEF b
----------------------------------------------------------------------------
(* The inductive invariant *)

BookingTyped == booking \in [status: Statuses, total: 0..MaxTotal, pax: Parties]
ItemsTyped == item \in ItemTable
AllocsTyped == alloc \in AllocTable
RemainingTyped == remaining \in [Slots -> Nat]
TransactionsTyped == tx \in [Workers -> Transaction]

\* What a transaction has read still holds: a change of status has the booking
\* row to itself, and an edit has its item's row and, once it moves seats, the
\* allocation's row.
Knows(t) ==
  /\ t.op = "idle" => t = NoTransaction
  /\ t.op \in StatusOps =>
       /\ t.fence = "exclusive" /\ t.step \in {"slots", "marked", "write"} /\ Permitted(t.op)
       /\ \A i \in Items :
            t.seen[i] = IF Outcome(t.op) = "cancelled" /\ i \in Consuming THEN alloc[i].quantity ELSE 0
       /\ t.step = "write" => t.allocs = ToMark(t.op, alloc)
  /\ t.op \in ItemOps => t.item \in Items /\ t.items = {t.item} /\ t.fence # "exclusive"
  /\ t.op = "create" => item[t.item].state = "absent" /\ t.step \in {"begin", "read", "write"}
  /\ t.op = "update" =>
       /\ t.item \in Present /\ t.seen[t.item] = item[t.item].quantity
       /\ t.step \in {"own", "slots", "read", "write"}
       /\ t.step = "own" => t.slots = {}
       /\ t.step = "slots" \/ t.slots # {} => t.item \in Consuming /\ t.allocs = {t.item}
  /\ t.op = "delete" => /\ t.item \in Present /\ t.quantity = 0
                        /\ t.step \in {"own", "siblings", "slots", "read", "write"}

\* Row locks exclude.
Apart(t, u) ==
  /\ ~(t.fence = "exclusive" /\ u.fence = "exclusive")
  /\ t.items \cap u.items = {} /\ t.allocs \cap u.allocs = {}

TransactionsGood == /\ \A w \in Workers : Knows(tx[w])
                    /\ \A v, w \in Workers : v # w => Apart(tx[v], tx[w])

ConsumersPresent == Consumers(alloc) \subseteq {i \in Items : item[i].state # "absent"}

\* A cancellation or a completion marks all of the allocations or none.
Alike == \A i, j \in Consumers(alloc) : alloc[i].state = alloc[j].state

\* Where completed bookings are final, only they have fulfilled allocations.
NoneFulfilled == booking.status # "completed" => \A i \in Items : alloc[i].state # "fulfilled"

\* Where completed and cancelled bookings are final, all items of a live one
\* are confirmed, and no edit of a cancelled one is under way.
Kept ==
  /\ booking.status \in {"confirmed", "in_progress"} =>
       \A i \in Items : item[i].state \in {"absent", "confirmed"}
  /\ \A w \in Workers : tx[w].op \in {"update", "delete"} => booking.status # "cancelled"

CompletedIsFinal == "completed" \notin Overrides
OutcomesAreFinal == Overrides \cap {"completed", "cancelled"} = {}

Typed == BookingTyped /\ ItemsTyped /\ AllocsTyped /\ RemainingTyped
Claimed == ConsumersPresent /\ Alike
Balanced == CompletedIsFinal => NoneFulfilled /\ SeatsConserved /\ CancelledHoldsNoSeats
Guarded == OutcomesAreFinal => Kept

IInv == /\ Typed /\ Claimed /\ Balanced /\ Guarded
        /\ TransactionsTyped /\ TransactionsGood
----------------------------------------------------------------------------
(* Steps of a transaction that nobody sees *)

LEMMA NoTransactionTyped == NoTransaction \in Transaction /\ Knows(NoTransaction)
<1>1. 0 \in 0..MaxClaim /\ 0 \in 0..MaxQuantity /\ 0 \in 0..MaxTotal
  BY Constants
<1> QED
  BY <1>1 DEF NoTransaction, Transaction, Knows, StatusOps, ItemOps

LEMMA NoTransactionApart ==
  ASSUME NEW t PROVE Apart(NoTransaction, t) /\ Apart(t, NoTransaction)
BY DEF NoTransaction, Apart

\* The transactions after one of them has become t, if the others keep knowing
\* what they know.
LEMMA TransactionsGoOn ==
  ASSUME TransactionsTyped, TransactionsGood, NEW w \in Workers, NEW t \in Transaction, Knows(t)',
         \A v \in Workers \ {w} : Knows(tx[v]) => \A u \in Transaction : u = tx[v] => Knows(u)',
         \A v \in Workers \ {w} : Apart(t, tx[v]),
         tx' = [tx EXCEPT ![w] = t]
  PROVE  TransactionsTyped' /\ TransactionsGood'
<1>1. TransactionsTyped'
  BY DEF TransactionsTyped
<1>2. \A v \in Workers : tx'[v] = IF v = w THEN t ELSE tx[v]
  BY DEF TransactionsTyped
<1>3. ASSUME NEW v \in Workers PROVE Knows(tx[v])'
  <2>1. PICK u \in Transaction : u = tx'[v]
    BY <1>1 DEF TransactionsTyped
  <2>2. CASE v = w
    <3>1. u = t
      BY <1>2, <2>1, <2>2
    <3>2. Knows(u)'
      BY <3>1
    <3> QED
      BY <2>1, <3>2
  <2>3. CASE v # w
    <3>1. u = tx[v] /\ Knows(tx[v])
      BY <1>2, <2>1, <2>3 DEF TransactionsGood
    <3>2. Knows(u)'
      BY <2>3, <3>1
    <3> QED
      BY <2>1, <3>2
  <2> QED
    BY <2>2, <2>3
<1>4. ASSUME NEW v \in Workers, NEW u \in Workers, v # u PROVE Apart(tx[v], tx[u])'
  <2>1. PICK x, y : x = tx'[v] /\ y = tx'[u]
    OBVIOUS
  <2>2. Apart(x, y)
    BY <1>2, <1>4, <2>1 DEF TransactionsGood, Apart
  <2> QED
    BY <2>1, <2>2 DEF Apart
<1> QED
  BY <1>1, <1>3, <1>4 DEF TransactionsGood

\* A step that changes no table.
LEMMA TxStep ==
  ASSUME IInv, NEW w \in Workers, NEW t \in Transaction, Knows(t),
         \A v \in Workers \ {w} : Apart(t, tx[v]),
         t.op \in {"update", "delete"} => booking.status # "cancelled" \/ tx[w].op = t.op,
         tx' = [tx EXCEPT ![w] = t], UNCHANGED <<booking, item, alloc, remaining>>
  PROVE  IInv'
<1>1. \A u : Knows(u) => Knows(u)'
  BY DEF Knows, Permitted, Consuming, Present, ToMark
<1>2. TransactionsTyped' /\ TransactionsGood'
  BY <1>1, TransactionsGoOn DEF IInv
<1>3. Typed'
  BY DEF IInv, Typed, BookingTyped, ItemsTyped, AllocsTyped, RemainingTyped
<1>4. Claimed'
  BY DEF IInv, Claimed, ConsumersPresent, Alike
<1>5. Balanced'
  BY DEF IInv, Balanced, NoneFulfilled, SeatsConserved, CancelledHoldsNoSeats, Consuming, Claim, On
<1>6. Guarded'
  BY DEF IInv, Guarded, Kept, TransactionsTyped
<1> QED
  BY <1>2, <1>3, <1>4, <1>5, <1>6 DEF IInv

\* What the locks of the others leave to one of them.
LEMMA LocksFree ==
  ASSUME IInv, NEW w \in Workers, NEW v \in Workers \ {w}
  PROVE  /\ tx[w] \in Transaction /\ tx[v] \in Transaction
         /\ Knows(tx[w]) /\ Knows(tx[v]) /\ Apart(tx[w], tx[v])
         /\ FenceFree(w, {"exclusive"}) => tx[v].fence # "exclusive" /\ tx[v].op \notin StatusOps
         /\ \A I : ItemsFree(w, I) => I \cap tx[v].items = {}
         /\ \A I : AllocsFree(w, I) => I \cap tx[v].allocs = {}
<1>1. tx[w] \in Transaction /\ tx[v] \in Transaction
  BY DEF IInv, TransactionsTyped
<1>2. Knows(tx[w]) /\ Knows(tx[v]) /\ Apart(tx[w], tx[v])
  BY DEF IInv, TransactionsGood
<1>3. FenceFree(w, {"exclusive"}) => tx[v].fence # "exclusive"
  BY DEF FenceFree
<1>4. tx[v].op \in StatusOps => tx[v].fence = "exclusive"
  BY <1>2 DEF Knows
<1>5. /\ \A I : ItemsFree(w, I) => I \cap tx[v].items = {}
      /\ \A I : AllocsFree(w, I) => I \cap tx[v].allocs = {}
  BY DEF ItemsFree, AllocsFree
<1> QED
  BY <1>1, <1>2, <1>3, <1>4, <1>5

LEMMA MineIsTyped ==
  ASSUME IInv, NEW w \in Workers
  PROVE  tx[w] \in Transaction /\ Knows(tx[w])
BY DEF IInv, TransactionsTyped, TransactionsGood

LEMMA RollbackStep ==
  ASSUME IInv, NEW w \in Workers, Rollback(w) PROVE IInv'
<1>1. tx' = [tx EXCEPT ![w] = NoTransaction] /\ UNCHANGED <<booking, item, alloc, remaining>>
  BY DEF Rollback, End
<1>2. NoTransaction.op \notin {"update", "delete"}
  BY DEF NoTransaction
<1> QED
  BY <1>1, <1>2, NoTransactionTyped, NoTransactionApart, TxStep

LEMMA LockSlotStep ==
  ASSUME IInv, NEW w \in Workers, LockSlot(w) PROVE IInv'
<1>1. PICK s \in tx[w].todo :
        /\ At(w, "slots") /\ SlotFree(w, s)
        /\ LET t == tx[w] IN
             Continue(w, [t EXCEPT
               !.slots = @ \cup {s}, !.todo = @ \ {s},
               !.step = IF t.todo # {s} THEN "slots" ELSE IF t.op \in StatusOps THEN "marked" ELSE "read"])
  BY DEF LockSlot
<1>2. PICK t \in Transaction : t = tx[w] /\ Knows(t) /\ t.step = "slots" /\ s \in t.todo
  BY <1>1, MineIsTyped DEF At
<1>3. PICK step \in {"slots", "marked", "read"} :
        step = IF t.todo # {s} THEN "slots" ELSE IF t.op \in StatusOps THEN "marked" ELSE "read"
  OBVIOUS
<1>4. PICK u : u = [t EXCEPT !.slots = @ \cup {s}, !.todo = @ \ {s}, !.step = step]
  OBVIOUS
<1>5. tx' = [tx EXCEPT ![w] = u] /\ UNCHANGED <<booking, item, alloc, remaining>>
  BY <1>1, <1>2, <1>3, <1>4 DEF Continue
<1>6. s \in Slots
  BY <1>2 DEF Transaction
<1>7. u \in Transaction
  BY <1>2, <1>4, <1>6 DEF Transaction
<1>8. /\ u.op = t.op /\ u.item = t.item /\ u.quantity = t.quantity /\ u.fence = t.fence
      /\ u.items = t.items /\ u.allocs = t.allocs /\ u.seen = t.seen
      /\ u.slots = t.slots \cup {s} /\ u.step = step
  BY <1>2, <1>4 DEF Transaction
<1>9. Knows(u)
  <2>1. t.op # "idle"
    BY <1>2 DEF Knows, NoTransaction
  <2>2. t.op \in StatusOps => step \in {"slots", "marked"}
    BY <1>3
  <2>3. t.op \notin StatusOps => step \in {"slots", "read"}
    BY <1>3
  <2>4. t.op \in {"update", "delete", "create"} => t.op \notin StatusOps
    BY DEF StatusOps
  <2> QED
    BY <1>2, <1>8, <2>1, <2>2, <2>3, <2>4 DEF Knows
<1>10. \A v \in Workers \ {w} : Apart(u, tx[v])
  BY <1>2, <1>8, LocksFree DEF Apart
<1> QED
  BY <1>2, <1>5, <1>7, <1>8, <1>9, <1>10, TxStep

LEMMA LockMarkedStep ==
  ASSUME IInv, NEW w \in Workers, LockMarked(w) PROVE IInv'
<1>1. PICK t \in Transaction : t = tx[w] /\ Knows(t) /\ t.step = "marked" /\ t.op \in StatusOps
  BY MineIsTyped DEF LockMarked, Op, At
<1>2. PICK rows \in SUBSET Items : rows = ToMark(t.op, alloc)
  BY DEF ToMark
<1>3. PICK u : u = [t EXCEPT !.allocs = rows, !.step = "write"]
  OBVIOUS
<1>4. tx' = [tx EXCEPT ![w] = u] /\ UNCHANGED <<booking, item, alloc, remaining>>
  BY <1>1, <1>2, <1>3 DEF LockMarked, Continue
<1>5. u \in Transaction
  BY <1>1, <1>3 DEF Transaction
<1>6. /\ u.op = t.op /\ u.item = t.item /\ u.quantity = t.quantity /\ u.fence = t.fence
      /\ u.items = t.items /\ u.allocs = rows /\ u.seen = t.seen /\ u.step = "write"
  BY <1>1, <1>3 DEF Transaction
<1>7. Knows(u)
  <2>1. t.op \notin ItemOps /\ t.op \notin {"idle", "create", "update", "delete"}
    BY <1>1 DEF StatusOps, ItemOps
  <2> QED
    BY <1>1, <1>2, <1>6, <2>1 DEF Knows
<1>8. \A v \in Workers \ {w} : Apart(u, tx[v])
  BY <1>1, <1>2, <1>6, LocksFree DEF Apart, LockMarked
<1>9. t.op \notin {"update", "delete"}
  BY <1>1 DEF StatusOps
<1> QED
  BY <1>4, <1>5, <1>6, <1>7, <1>8, <1>9, TxStep

LEMMA InsertItemStep ==
  ASSUME IInv, NEW w \in Workers, InsertItem(w) PROVE IInv'
<1>1. PICK t \in Transaction : t = tx[w] /\ Knows(t) /\ t.step = "begin" /\ t.op = "create"
  BY MineIsTyped DEF InsertItem, Op, At
<1>2. PICK u : u = [t EXCEPT !.fence = "shared", !.step = "read"]
  OBVIOUS
<1>3. tx' = [tx EXCEPT ![w] = u] /\ UNCHANGED <<booking, item, alloc, remaining>>
  BY <1>1, <1>2 DEF InsertItem, Continue
<1>4. u \in Transaction
  BY <1>1, <1>2 DEF Transaction
<1>5. /\ u.op = "create" /\ u.item = t.item /\ u.quantity = t.quantity /\ u.fence = "shared"
      /\ u.items = t.items /\ u.allocs = t.allocs /\ u.seen = t.seen /\ u.step = "read"
  BY <1>1, <1>2 DEF Transaction
<1>6. Knows(u)
  BY <1>1, <1>5 DEF Knows, StatusOps, ItemOps
<1>7. \A v \in Workers \ {w} : Apart(u, tx[v])
  BY <1>1, <1>5, LocksFree DEF Apart
<1> QED
  BY <1>3, <1>4, <1>5, <1>6, <1>7, TxStep

\* The sum of the items with one of them changed.
LEMMA TotalFits ==
  ASSUME ItemsTyped, NEW i \in Items, NEW n \in 0..MaxQuantity
  PROVE  Quantity(Present \ {i}) + n \in 0..MaxTotal
<1> DEFINE f == [j \in Items |-> IF j = i THEN n ELSE item[j].quantity]
           P == Present \ {i}
<1>1. P \in SUBSET Items /\ P \cup {i} \in SUBSET Items /\ i \in P \cup {i} /\ (P \cup {i}) \ {i} = P
  BY DEF Present
<1>2. IsFiniteSet(P) /\ IsFiniteSet(P \cup {i})
  BY <1>1, Constants, FS_Subset
<1>3. Quantity(P) = Sum(MaxQuantity, Asked(item), P)
  BY <1>1, ClaimsAreSums
<1>4. \A j \in P : Asked(item)[j] = f[j]
  BY <1>1 DEF Asked
<1>5. f[i] = n
  OBVIOUS
<1> HIDE DEF f, P
<1>6. Sum(MaxQuantity, Asked(item), P) = Sum(MaxQuantity, f, P)
  BY <1>4, SumFrame
<1>7. Sum(MaxQuantity, f, P \cup {i}) = Sum(MaxQuantity, f, P) + n
  <2>1. Sum(MaxQuantity, f, P \cup {i}) = Sum(MaxQuantity, f, (P \cup {i}) \ {i}) + f[i]
    BY <1>1, <1>2, <1>5, Constants, SumSplit
  <2> QED
    BY <1>1, <1>5, <2>1
<1>8. Sum(MaxQuantity, f, P \cup {i}) <= Sum(MaxQuantity, f, Items)
  BY <1>1, Constants, SumMonotone
<1>9. Sum(MaxQuantity, f, Items) \in Nat /\ Sum(MaxQuantity, f, Items) <= MaxTotal
  BY Constants, SumFinite DEF MaxTotal
<1>10. PICK q \in Nat : q = Sum(MaxQuantity, f, P)
  BY <1>2, Constants, SumFinite
<1>11. q + n <= MaxTotal
  <2>1. PICK m \in Nat : m = n
    OBVIOUS
  <2> QED
    BY <1>7, <1>8, <1>9, <1>10, <2>1, Constants
<1>12. Quantity(P) = q
  BY <1>3, <1>6, <1>10
<1>13. Quantity(P) + n \in 0..MaxTotal
  BY <1>10, <1>11, <1>12, Constants
<1> QED
  BY <1>13 DEF P

LEMMA ReadItemsStep ==
  ASSUME IInv, NEW w \in Workers, ReadItems(w) PROVE IInv'
<1>1. PICK t \in Transaction : t = tx[w] /\ Knows(t) /\ t.step = "read" /\ t.op \in ItemOps
  BY MineIsTyped DEF ReadItems, Op, At
<1>2. PICK total \in 0..MaxTotal : total = Quantity(Present \ {t.item}) + t.quantity
  <2>1. t.item \in Items /\ t.quantity \in 0..MaxQuantity
    BY <1>1 DEF Knows, Transaction
  <2> QED
    BY <2>1, TotalFits DEF IInv, Typed
<1>3. PICK u : u = [t EXCEPT !.step = "write", !.total = total]
  OBVIOUS
<1>4. tx' = [tx EXCEPT ![w] = u] /\ UNCHANGED <<booking, item, alloc, remaining>>
  BY <1>1, <1>2, <1>3 DEF ReadItems, Continue
<1>5. u \in Transaction
  BY <1>1, <1>3 DEF Transaction
<1>6. /\ u.op = t.op /\ u.item = t.item /\ u.quantity = t.quantity /\ u.fence = t.fence
      /\ u.items = t.items /\ u.allocs = t.allocs /\ u.seen = t.seen /\ u.slots = t.slots
      /\ u.step = "write"
  BY <1>1, <1>3 DEF Transaction
<1>7. Knows(u)
  <2>1. t.op \notin StatusOps /\ t.op # "idle"
    BY <1>1 DEF StatusOps, ItemOps
  <2> QED
    BY <1>1, <1>6, <2>1 DEF Knows
<1>8. \A v \in Workers \ {w} : Apart(u, tx[v])
  BY <1>1, <1>6, LocksFree DEF Apart
<1> QED
  BY <1>1, <1>4, <1>5, <1>6, <1>7, <1>8, TxStep

LEMMA BeginStatusStep ==
  ASSUME IInv, NEW w \in Workers, NEW op \in StatusOps, BeginStatus(w, op) PROVE IInv'
<1>1. PICK giving \in SUBSET Items : giving = IF Outcome(op) = "cancelled" THEN Consuming ELSE {}
  BY DEF Consuming
<1>2. PICK step \in {"marked", "slots"} : step = IF giving = {} THEN "marked" ELSE "slots"
  OBVIOUS
<1>3. PICK todo : todo = {alloc[i].slot : i \in giving}
  OBVIOUS
<1>4. PICK seen : seen = [i \in Items |-> IF i \in giving THEN alloc[i].quantity ELSE 0]
  OBVIOUS
<1>5. PICK u : u = [NoTransaction EXCEPT !.op = op, !.fence = "exclusive", !.step = step,
                                         !.todo = todo, !.seen = seen]
  OBVIOUS
<1>6. /\ tx' = [tx EXCEPT ![w] = u] /\ UNCHANGED <<booking, item, alloc, remaining>>
      /\ FenceFree(w, {"shared", "exclusive"}) /\ Permitted(op)
  BY <1>1, <1>2, <1>3, <1>4, <1>5 DEF BeginStatus, Begin
<1>7. alloc \in AllocTable
  BY DEF IInv, Typed, AllocsTyped
<1>8. todo \in SUBSET Slots /\ seen \in [Items -> 0..MaxClaim]
  <2>1. \A i \in giving : alloc[i].slot \in Slots
    BY <1>7 DEF AllocTable
  <2>2. \A i \in Items : alloc[i].quantity \in 0..MaxClaim /\ 0 \in 0..MaxClaim
    BY <1>7, Constants DEF AllocTable
  <2> QED
    BY <1>3, <1>4, <2>1, <2>2
<1>9. /\ u.op = op /\ u.fence = "exclusive" /\ u.step = step /\ u.todo = todo /\ u.seen = seen
      /\ u.items = {} /\ u.allocs = {}
  BY <1>5 DEF NoTransaction
<1>10. u \in Transaction
  BY <1>5, <1>8, NoTransactionTyped DEF Transaction
<1>11. Knows(u)
  <2>1. op \notin ItemOps /\ op \notin {"idle", "create", "update", "delete"}
    BY DEF StatusOps, ItemOps
  <2>2. \A i \in Items :
          seen[i] = IF Outcome(op) = "cancelled" /\ i \in Consuming THEN alloc[i].quantity ELSE 0
    BY <1>1, <1>4
  <2> QED
    BY <1>2, <1>6, <1>9, <2>1, <2>2 DEF Knows
<1>12. \A v \in Workers \ {w} : Apart(u, tx[v])
  BY <1>6, <1>9 DEF Apart, FenceFree
<1>13. op \notin {"update", "delete"}
  BY DEF StatusOps
<1> QED
  BY <1>6, <1>9, <1>10, <1>11, <1>12, <1>13, TxStep

LEMMA BeginCreateStep ==
  ASSUME IInv, NEW w \in Workers, NEW i \in Items, NEW n \in 1..MaxQuantity, BeginCreate(w, i, n)
  PROVE  IInv'
<1>1. PICK u : u = [NoTransaction EXCEPT !.op = "create", !.item = i, !.quantity = n, !.items = {i}]
  OBVIOUS
<1>2. /\ tx' = [tx EXCEPT ![w] = u] /\ UNCHANGED <<booking, item, alloc, remaining>>
      /\ item[i].state = "absent" /\ ItemsFree(w, {i})
  BY <1>1 DEF BeginCreate, Begin
<1>3. /\ u.op = "create" /\ u.item = i /\ u.items = {i} /\ u.fence = "none" /\ u.step = "begin"
      /\ u.allocs = {}
  BY <1>1 DEF NoTransaction
<1>4. u \in Transaction
  <2>1. n \in 0..MaxQuantity
    BY Constants
  <2> QED
    BY <1>1, <2>1, NoTransactionTyped DEF Transaction, ItemOps
<1>5. Knows(u)
  BY <1>2, <1>3 DEF Knows, StatusOps
<1>6. \A v \in Workers \ {w} : Apart(u, tx[v])
  BY <1>2, <1>3, LocksFree DEF Apart
<1> QED
  BY <1>2, <1>3, <1>4, <1>5, <1>6, TxStep

LEMMA BeginUpdateStep ==
  ASSUME IInv, NEW w \in Workers, NEW i \in Items, NEW n \in 1..MaxQuantity, BeginUpdate(w, i, n)
  PROVE  IInv'
<1>1. PICK seen : seen = [NoTransaction.seen EXCEPT ![i] = item[i].quantity]
  OBVIOUS
<1>2. PICK step \in {"own", "read"} :
        step = IF booking.pax = None /\ n # item[i].quantity THEN "own" ELSE "read"
  OBVIOUS
<1>3. PICK u : u = [NoTransaction EXCEPT !.op = "update", !.item = i, !.quantity = n, !.items = {i},
                                         !.seen = seen, !.step = step]
  OBVIOUS
<1>4. /\ tx' = [tx EXCEPT ![w] = u] /\ UNCHANGED <<booking, item, alloc, remaining>>
      /\ i \in Present /\ ItemsFree(w, {i}) /\ booking.status # "cancelled"
  BY <1>1, <1>2, <1>3 DEF BeginUpdate, Begin, Mutable
<1>5. item[i].quantity \in 0..MaxQuantity
  BY DEF IInv, Typed, ItemsTyped, ItemTable
<1>6. NoTransaction.seen \in [Items -> 0..MaxClaim]
  BY NoTransactionTyped DEF Transaction
<1>7. seen \in [Items -> 0..MaxClaim] /\ seen[i] = item[i].quantity
  <2>1. item[i].quantity \in 0..MaxClaim
    BY <1>5, Constants
  <2> QED
    BY <1>1, <1>6, <2>1
<1>8. /\ u.op = "update" /\ u.item = i /\ u.quantity = n /\ u.items = {i} /\ u.fence = "none"
      /\ u.step = step /\ u.seen = seen /\ u.allocs = {} /\ u.slots = {}
  BY <1>3 DEF NoTransaction
<1>9. u \in Transaction
  <2>1. n \in 0..MaxQuantity
    BY Constants
  <2> QED
    BY <1>3, <1>7, <2>1, NoTransactionTyped DEF Transaction, ItemOps
<1>10. Knows(u)
  BY <1>2, <1>4, <1>7, <1>8 DEF Knows, StatusOps
<1>11. \A v \in Workers \ {w} : Apart(u, tx[v])
  BY <1>4, <1>8, LocksFree DEF Apart
<1> QED
  BY <1>4, <1>8, <1>9, <1>10, <1>11, TxStep

LEMMA BeginDeleteStep ==
  ASSUME IInv, NEW w \in Workers, NEW i \in Items, BeginDelete(w, i) PROVE IInv'
<1>1. PICK u : u = [NoTransaction EXCEPT !.op = "delete", !.item = i, !.items = {i},
                                         !.pax = booking.pax, !.step = "own"]
  OBVIOUS
<1>2. /\ tx' = [tx EXCEPT ![w] = u] /\ UNCHANGED <<booking, item, alloc, remaining>>
      /\ i \in Present /\ ItemsFree(w, {i}) /\ booking.status # "cancelled"
  BY <1>1 DEF BeginDelete, Begin, Mutable
<1>3. /\ u.op = "delete" /\ u.item = i /\ u.quantity = 0 /\ u.items = {i} /\ u.fence = "none"
      /\ u.step = "own" /\ u.allocs = {}
  BY <1>1 DEF NoTransaction
<1>4. u \in Transaction
  <2>1. booking.pax \in Parties \cup {None}
    BY DEF IInv, Typed, BookingTyped
  <2> QED
    BY <1>1, <2>1, NoTransactionTyped DEF Transaction, ItemOps
<1>5. Knows(u)
  BY <1>2, <1>3 DEF Knows, StatusOps
<1>6. \A v \in Workers \ {w} : Apart(u, tx[v])
  BY <1>2, <1>3, LocksFree DEF Apart
<1> QED
  BY <1>2, <1>3, <1>4, <1>5, <1>6, TxStep

LEMMA LockOwnStep ==
  ASSUME IInv, NEW w \in Workers, LockOwn(w) PROVE IInv'
<1>1. PICK t \in Transaction : t = tx[w] /\ Knows(t) /\ t.step = "own"
  BY MineIsTyped DEF LockOwn, At
<1>2. t.op \in {"update", "delete"} /\ t.op \notin StatusOps /\ t.item \in Items /\ t.items = {t.item}
  <2>1. t.op \in {"idle"} \cup StatusOps \cup ItemOps
    BY <1>1 DEF Transaction
  <2>2. t.op # "idle"
    BY <1>1 DEF Knows, NoTransaction
  <2>3. t.op \notin StatusOps /\ t.op # "create"
    BY <1>1 DEF Knows
  <2> QED
    BY <1>1, <2>1, <2>2, <2>3 DEF Knows, ItemOps
<1>3. PICK i \in Items : i = t.item
  BY <1>2
<1>4. PICK next \in {"read", "siblings", "slots"} :
        next = IF i \notin Consuming THEN "read" ELSE IF t.op \in {"delete"} THEN "siblings" ELSE "slots"
  OBVIOUS
<1>5. PICK todo \in SUBSET Slots : todo = IF next = "slots" THEN {alloc[i].slot} ELSE {}
  BY DEF IInv, Typed, AllocsTyped, AllocTable
<1>6. PICK u : u = [t EXCEPT !.allocs = {i}, !.step = next, !.todo = todo]
  OBVIOUS
<1>7. /\ tx' = [tx EXCEPT ![w] = u] /\ UNCHANGED <<booking, item, alloc, remaining>>
      /\ AllocsFree(w, {i})
  BY <1>1, <1>3, <1>4, <1>5, <1>6 DEF LockOwn, Continue, Op
<1>8. u \in Transaction
  BY <1>1, <1>6 DEF Transaction
<1>9. /\ u.op = t.op /\ u.item = t.item /\ u.quantity = t.quantity /\ u.fence = t.fence
      /\ u.items = t.items /\ u.allocs = {i} /\ u.seen = t.seen /\ u.slots = t.slots
      /\ u.step = next
  BY <1>1, <1>6 DEF Transaction
<1>10. Knows(u)
  BY <1>1, <1>2, <1>3, <1>4, <1>9 DEF Knows
<1>11. \A v \in Workers \ {w} : Apart(u, tx[v])
  BY <1>1, <1>7, <1>9, LocksFree DEF Apart
<1> QED
  BY <1>1, <1>7, <1>8, <1>9, <1>10, <1>11, TxStep

LEMMA LockSiblingsStep ==
  ASSUME IInv, NEW w \in Workers, LockSiblings(w) PROVE IInv'
<1>1. PICK t \in Transaction : t = tx[w] /\ Knows(t) /\ t.step = "siblings"
  BY MineIsTyped DEF LockSiblings, At
<1>2. t.op = "delete" /\ t.op \notin StatusOps /\ t.item \in Items /\ t.items = {t.item}
  <2>1. t.op \in {"idle"} \cup StatusOps \cup ItemOps
    BY <1>1 DEF Transaction
  <2>2. t.op # "idle"
    BY <1>1 DEF Knows, NoTransaction
  <2>3. t.op \notin StatusOps /\ t.op # "create" /\ t.op # "update"
    BY <1>1 DEF Knows
  <2> QED
    BY <1>1, <2>1, <2>2, <2>3 DEF Knows, ItemOps
<1>3. PICK i \in Items : i = t.item
  BY <1>2
<1>4. PICK step \in {"read", "slots"} : step = IF Surplus(i, t.pax) = 0 THEN "read" ELSE "slots"
  OBVIOUS
<1>5. PICK todo \in SUBSET Slots : todo = IF Surplus(i, t.pax) = 0 THEN {} ELSE {alloc[i].slot}
  BY DEF IInv, Typed, AllocsTyped, AllocTable
<1>6. PICK rows \in SUBSET Items : rows = Siblings(i)
  BY DEF Siblings, Consuming
<1>7. PICK u : u = [t EXCEPT !.allocs = @ \cup rows, !.step = step, !.todo = todo]
  OBVIOUS
<1>8. /\ tx' = [tx EXCEPT ![w] = u] /\ UNCHANGED <<booking, item, alloc, remaining>>
      /\ AllocsFree(w, rows)
  BY <1>1, <1>3, <1>4, <1>5, <1>6, <1>7 DEF LockSiblings, Continue
<1>9. u \in Transaction
  BY <1>1, <1>7 DEF Transaction
<1>10. /\ u.op = t.op /\ u.item = t.item /\ u.quantity = t.quantity /\ u.fence = t.fence
       /\ u.items = t.items /\ u.allocs = t.allocs \cup rows /\ u.step = step
  BY <1>1, <1>7 DEF Transaction
<1>11. Knows(u)
  BY <1>1, <1>2, <1>4, <1>10 DEF Knows
<1>12. \A v \in Workers \ {w} : Apart(u, tx[v])
  BY <1>1, <1>8, <1>10, LocksFree DEF Apart
<1> QED
  BY <1>1, <1>8, <1>9, <1>10, <1>11, <1>12, TxStep
----------------------------------------------------------------------------
(* Commits *)

\* Another transaction keeps knowing what it knows when a commit leaves its
\* item alone, and its allocation if that is locked, and adds no allocation.
LEMMA OthersKnow ==
  ASSUME NEW t \in Transaction, Knows(t), t.op \notin StatusOps,
         Consumers(alloc') \subseteq Consumers(alloc),
         t.op \in ItemOps => item'[t.item] = item[t.item],
         t.op = "update" /\ t.allocs = {t.item} /\ t.item \in Consumers(alloc) =>
           t.item \in Consumers(alloc')
  PROVE  Knows(t)'
<1>1. Consuming = Consumers(alloc) /\ Consuming' = Consumers(alloc')
  BY DEF Consuming, Consumers
<1>2. CASE t.op = "idle"
  BY <1>2 DEF Knows, StatusOps, ItemOps, NoTransaction
<1>3. CASE t.op = "create"
  BY <1>3 DEF Knows, StatusOps, ItemOps
<1>4. CASE t.op = "delete"
  BY <1>4 DEF Knows, StatusOps, ItemOps, Present
<1>5. CASE t.op = "update"
  <2>1. t.item \in Present' /\ item'[t.item] = item[t.item]
    BY <1>5 DEF Knows, ItemOps, Present
  <2> QED
    BY <1>1, <1>5, <2>1 DEF Knows, StatusOps, ItemOps
<1> QED
  BY <1>2, <1>3, <1>4, <1>5 DEF Transaction, ItemOps

\* The transactions after a commit.
LEMMA CommittedTransactions ==
  ASSUME IInv, NEW w \in Workers, tx' = [tx EXCEPT ![w] = NoTransaction],
         \A v \in Workers \ {w} : tx[v].op \notin StatusOps,
         Consumers(alloc') \subseteq Consumers(alloc),
         \A v \in Workers \ {w} : tx[v].op \in ItemOps => item'[tx[v].item] = item[tx[v].item],
         \A v \in Workers \ {w} :
           tx[v].op = "update" /\ tx[v].allocs = {tx[v].item} /\ tx[v].item \in Consumers(alloc) =>
             tx[v].item \in Consumers(alloc')
  PROVE  TransactionsTyped' /\ TransactionsGood'
<1>1. ASSUME NEW v \in Workers \ {w}, Knows(tx[v])
      PROVE  \A u \in Transaction : u = tx[v] => Knows(u)'
  <2> SUFFICES ASSUME NEW u \in Transaction, u = tx[v] PROVE Knows(u)'
    OBVIOUS
  <2> QED
    BY <1>1, OthersKnow
<1>2. Knows(NoTransaction)'
  BY NoTransactionTyped DEF Knows, NoTransaction, StatusOps, ItemOps
<1> QED
  BY <1>1, <1>2, NoTransactionTyped, NoTransactionApart, TransactionsGoOn DEF IInv

\* No edit works on the item of another.
LEMMA OneEditAnItem ==
  ASSUME IInv, NEW w \in Workers, NEW v \in Workers \ {w}, tx[w].op \in ItemOps, tx[v].op \in ItemOps
  PROVE  tx[v].item \in Items /\ tx[v].item # tx[w].item
BY LocksFree DEF Knows, Apart

\* The claims about seats in terms of sums, before and after a step.
SeatsInSums(a, r) == \A s \in Slots : r[s] + SeatsOf(a, s) = Seats
NoneCancelled(a, b) == b.status = "cancelled" => Consumers(a) = {}

LEMMA Readings ==
  /\ SeatsConserved <=> SeatsInSums(alloc, remaining)
  /\ CancelledHoldsNoSeats <=> NoneCancelled(alloc, booking)
BY ClaimsAreSums DEF SeatsConserved, SeatsInSums, CancelledHoldsNoSeats, NoneCancelled

LEMMA ReadingsAfter ==
  /\ SeatsConserved' <=> SeatsInSums(alloc', remaining')
  /\ CancelledHoldsNoSeats' <=> NoneCancelled(alloc', booking')
<1>1. (SeatsConserved <=> SeatsInSums(alloc, remaining))'
  BY Readings, PTL
<1>2. (CancelledHoldsNoSeats <=> NoneCancelled(alloc, booking))'
  BY Readings, PTL
<1> QED
  BY <1>1, <1>2 DEF SeatsInSums, NoneCancelled

\* A step that touches the booking row only.
LEMMA BookingOnlyStep ==
  ASSUME IInv, NEW w \in Workers, tx[w].op = "idle", FenceFree(w, {"shared", "exclusive"}),
         BookingTyped',
         \/ booking'.status = booking.status
         \/ /\ booking'.status \in {"confirmed", "in_progress"}
            /\ CompletedIsFinal => booking.status # "completed"
            /\ OutcomesAreFinal => booking.status \in {"confirmed", "in_progress"},
         UNCHANGED <<item, alloc, remaining, tx>>
  PROVE  IInv'
<1>1. Typed' /\ Claimed'
  BY DEF IInv, Typed, ItemsTyped, AllocsTyped, RemainingTyped, Claimed, ConsumersPresent, Alike
<1>2. /\ SeatsConserved => SeatsConserved'
      /\ CancelledHoldsNoSeats => CancelledHoldsNoSeats'
  BY Readings, ReadingsAfter DEF NoneCancelled
<1>3. Balanced'
  <2> SUFFICES ASSUME CompletedIsFinal PROVE NoneFulfilled' /\ SeatsConserved' /\ CancelledHoldsNoSeats'
    BY DEF Balanced
  <2> QED
    BY <1>2 DEF IInv, Balanced, NoneFulfilled
<1>4. Guarded'
  <2> SUFFICES ASSUME OutcomesAreFinal PROVE Kept'
    BY DEF Guarded
  <2>1. Kept
    BY DEF IInv, Guarded
  <2> QED
    BY <2>1 DEF Kept
<1>5. TransactionsTyped' /\ TransactionsGood'
  <2>1. tx' = [tx EXCEPT ![w] = NoTransaction]
    <3>1. tx[w] = NoTransaction
      BY MineIsTyped DEF Knows
    <3> QED
      BY <3>1 DEF IInv, TransactionsTyped
  <2>2. FenceFree(w, {"exclusive"})
    BY DEF FenceFree
  <2>3. \A v \in Workers \ {w} : tx[v].op \notin StatusOps
    BY <2>2, LocksFree
  <2> QED
    BY <2>1, <2>3, CommittedTransactions
<1> QED
  BY <1>1, <1>3, <1>4, <1>5 DEF IInv

LEMMA StatusOnlyStep ==
  ASSUME IInv, NEW w \in Workers, tx[w].op = "idle", FenceFree(w, {"shared", "exclusive"}),
         NEW status \in {"confirmed", "in_progress"}, booking' = [booking EXCEPT !.status = status],
         CompletedIsFinal => booking.status # "completed",
         OutcomesAreFinal => booking.status \in {"confirmed", "in_progress"},
         UNCHANGED <<item, alloc, remaining, tx>>
  PROVE  IInv'
<1>1. BookingTyped' /\ booking'.status = status
  BY DEF IInv, Typed, BookingTyped, Statuses
<1> QED
  BY <1>1, BookingOnlyStep

LEMMA EditPartyStep ==
  ASSUME IInv, NEW w \in Workers, NEW pax \in Parties, EditParty(w, pax) PROVE IInv'
<1>1. BookingTyped' /\ booking'.status = booking.status
  BY DEF EditParty, IInv, Typed, BookingTyped
<1> QED
  BY <1>1, BookingOnlyStep DEF EditParty

LEMMA StartBookingStep ==
  ASSUME IInv, NEW w \in Workers, StartBooking(w) PROVE IInv'
BY StatusOnlyStep DEF StartBooking

LEMMA ForceStatusStep ==
  ASSUME IInv, NEW w \in Workers, NEW status \in {"confirmed", "in_progress"}, ForceStatus(w, status)
  PROVE  IInv'
<1>1. booking.status \in Statuses /\ booking.status \in Overrides
  BY DEF ForceStatus, IInv, Typed, BookingTyped
<1>2. CompletedIsFinal => booking.status # "completed"
  BY <1>1 DEF CompletedIsFinal
<1>3. OutcomesAreFinal => booking.status \in {"confirmed", "in_progress"}
  BY <1>1 DEF OutcomesAreFinal, Statuses
<1> QED
  BY <1>2, <1>3, StatusOnlyStep DEF ForceStatus

\* What a change of status does to rows of either table.
LEMMA MarkedRows ==
  ASSUME NEW op \in StatusOps, NEW rows
  PROVE  /\ Outcome(op) \in {"cancelled", "completed"}
         /\ Marked(op) = IF Outcome(op) = "cancelled" THEN "cancelled" ELSE "fulfilled"
         /\ "confirmed" \in Marks(op) /\ Marks(op) \subseteq {"confirmed", "fulfilled"}
         /\ \A i \in Items : i \notin ToMark(op, rows) => Mark(op, rows)[i] = rows[i]
         /\ \A i \in ToMark(op, rows) :
              i \in Items /\ Mark(op, rows)[i] = [rows[i] EXCEPT !.state = Marked(op)]
BY DEF Outcome, Marked, Marks, ToMark, Mark

LEMMA MarkedAllocs ==
  ASSUME NEW op \in StatusOps, NEW a \in AllocTable
  PROVE  LET b == Mark(op, a) IN
         /\ b \in AllocTable
         /\ \A i \in Items : b[i].quantity = a[i].quantity /\ b[i].slot = a[i].slot
         /\ \A i \in Items : b[i].state = IF i \in ToMark(op, a) THEN Marked(op) ELSE a[i].state
         /\ Consumers(b) \subseteq Consumers(a)
<1> DEFINE b == Mark(op, a)
           Row == [state: {"none", "confirmed", "fulfilled", "cancelled"}, quantity: 0..MaxClaim, slot: Slots]
<1>1. Marked(op) \in {"cancelled", "fulfilled"}
  BY MarkedRows
<1>2. ASSUME NEW i \in Items
      PROVE  /\ b[i] \in Row /\ b[i].quantity = a[i].quantity /\ b[i].slot = a[i].slot
             /\ b[i].state = IF i \in ToMark(op, a) THEN Marked(op) ELSE a[i].state
  <2>1. a[i] \in Row
    BY DEF AllocTable
  <2>2. CASE i \notin ToMark(op, a)
    BY <2>1, <2>2, MarkedRows
  <2>3. CASE i \in ToMark(op, a)
    <3>1. PICK row : row = [a[i] EXCEPT !.state = Marked(op)]
      OBVIOUS
    <3>2. row \in Row /\ row.quantity = a[i].quantity /\ row.slot = a[i].slot /\ row.state = Marked(op)
      BY <1>1, <2>1, <3>1
    <3>3. b[i] = row
      BY <2>3, <3>1, MarkedRows
    <3> QED
      BY <2>3, <3>2, <3>3
  <2> QED
    BY <2>2, <2>3
<1>3. b = [i \in Items |-> b[i]]
  BY DEF Mark
<1> HIDE DEF b
<1>4. b \in AllocTable
  BY <1>2, <1>3 DEF AllocTable
<1>5. Consumers(b) \subseteq Consumers(a)
  <2>1. \A i \in ToMark(op, a) : i \in Consumers(a)
    BY MarkedRows DEF ToMark, Consumers
  <2> QED
    BY <1>2, <2>1 DEF Consumers
<1> QED
  BY <1>2, <1>4, <1>5 DEF b

LEMMA MarkedItems ==
  ASSUME NEW op \in StatusOps, NEW rows \in ItemTable
  PROVE  /\ Mark(op, rows) \in ItemTable
         /\ \A i \in Items : /\ Mark(op, rows)[i].quantity = rows[i].quantity
                             /\ rows[i].state # "absent" => Mark(op, rows)[i].state # "absent"
<1> DEFINE b == Mark(op, rows)
           Row == [state: {"absent", "confirmed", "fulfilled", "cancelled"}, quantity: 0..MaxQuantity]
<1>1. Marked(op) \in {"cancelled", "fulfilled"}
  BY MarkedRows
<1>2. ASSUME NEW i \in Items
      PROVE  /\ b[i] \in Row /\ b[i].quantity = rows[i].quantity
             /\ rows[i].state # "absent" => b[i].state # "absent"
  <2>1. rows[i] \in Row
    BY DEF ItemTable
  <2>2. CASE i \notin ToMark(op, rows)
    BY <2>1, <2>2, MarkedRows
  <2>3. CASE i \in ToMark(op, rows)
    <3>1. PICK row : row = [rows[i] EXCEPT !.state = Marked(op)]
      OBVIOUS
    <3>2. row \in Row /\ row.quantity = rows[i].quantity /\ row.state # "absent"
      BY <1>1, <2>1, <3>1
    <3>3. b[i] = row
      BY <2>3, <3>1, MarkedRows
    <3> QED
      BY <3>2, <3>3
  <2> QED
    BY <2>2, <2>3
<1>3. b = [i \in Items |-> b[i]]
  BY DEF Mark
<1> HIDE DEF b
<1>4. b \in ItemTable
  BY <1>2, <1>3 DEF ItemTable
<1> QED
  BY <1>2, <1>4 DEF b

\* What a cancellation gives back is what the booking's allocations claim; a
\* completion gives nothing back.
LEMMA GivenBack ==
  ASSUME IInv, NEW w \in Workers, tx[w].op \in StatusOps, NEW s
  PROVE  Given(w, s) = IF Outcome(tx[w].op) = "cancelled" THEN SeatsOf(alloc, s) ELSE 0
<1>1. \A i \in Items :
        tx[w].seen[i] = IF Outcome(tx[w].op) = "cancelled" /\ i \in Consuming THEN alloc[i].quantity ELSE 0
  BY MineIsTyped DEF Knows
<1>2. Given(w, s) = Sum(MaxClaim, tx[w].seen, On(s)) /\ Consuming = Consumers(alloc)
  BY ClaimsAreSums
<1>3. On(s) \subseteq Items
  BY DEF On
<1>4. CASE Outcome(tx[w].op) # "cancelled"
  <2>1. \A i \in On(s) : tx[w].seen[i] = 0
    BY <1>1, <1>3, <1>4
  <2> QED
    BY <1>2, <1>4, <2>1, Constants, SumZero
<1>5. CASE Outcome(tx[w].op) = "cancelled"
  <2> DEFINE T == Together(alloc, s)
             R == On(s) \ T
  <2>1. T \cup R = On(s) /\ T \cap R = {} /\ T \subseteq Consumers(alloc) /\ T \subseteq Items
    BY DEF Together, On, Consumers
  <2>2. IsFiniteSet(T) /\ IsFiniteSet(R)
    BY <1>3, <2>1, Constants, FS_Subset
  <2>3. \A i \in T : tx[w].seen[i] = Carried(alloc)[i]
    BY <1>1, <1>2, <1>5, <2>1 DEF Carried
  <2>4. \A i \in R : tx[w].seen[i] = 0
    BY <1>1, <1>2, <1>3, <1>5 DEF Together, On
  <2> HIDE DEF T, R
  <2>5. Sum(MaxClaim, tx[w].seen, R) = 0
    BY <2>4, Constants, SumZero
  <2>6. Sum(MaxClaim, tx[w].seen, T) = Sum(MaxClaim, Carried(alloc), T)
    BY <2>3, SumFrame
  <2>7. Sum(MaxClaim, tx[w].seen, T \cup R) = Sum(MaxClaim, tx[w].seen, T) + Sum(MaxClaim, tx[w].seen, R)
    BY <2>1, <2>2, Constants, SumAdd
  <2>8. PICK m \in Nat : m = Sum(MaxClaim, Carried(alloc), T)
    BY <2>2, Constants, SumFinite
  <2>9. Given(w, s) = m
    <3>1. Sum(MaxClaim, tx[w].seen, T) = m
      BY <2>6, <2>8
    <3>2. Sum(MaxClaim, tx[w].seen, T \cup R) = m + 0
      BY <2>5, <2>7, <3>1
    <3>3. Sum(MaxClaim, tx[w].seen, T \cup R) = m
      BY <3>2
    <3> QED
      BY <1>2, <2>1, <3>3
  <2> QED
    BY <1>5, <2>8, <2>9 DEF SeatsOf, T
<1> QED
  BY <1>4, <1>5

LEMMA ChangeStatusStep ==
  ASSUME IInv, NEW w \in Workers, ChangeStatus(w) PROVE IInv'
<1>1. PICK t \in Transaction : t = tx[w] /\ Knows(t) /\ t.step = "write" /\ t.op \in StatusOps
  BY MineIsTyped DEF ChangeStatus, Op, At
<1>2. PICK op \in StatusOps : op = t.op
  BY <1>1
<1>3. /\ ItemsFree(w, ToMark(op, item))
      /\ remaining' = [s \in Slots |-> remaining[s] + Given(w, s)]
      /\ alloc' = Mark(op, alloc) /\ item' = Mark(op, item)
      /\ booking' = [booking EXCEPT !.status = Outcome(op)]
      /\ tx' = [tx EXCEPT ![w] = NoTransaction]
  BY <1>1, <1>2 DEF ChangeStatus, End
<1>4. /\ Permitted(op) /\ t.fence = "exclusive" /\ t.allocs = ToMark(op, alloc)
  BY <1>1, <1>2 DEF Knows
<1>5. alloc \in AllocTable /\ item \in ItemTable /\ remaining \in [Slots -> Nat] /\ BookingTyped
      /\ ConsumersPresent /\ Alike
  BY Readings DEF IInv, Typed, ItemsTyped, AllocsTyped, RemainingTyped, Claimed
<1>6. /\ alloc' \in AllocTable
      /\ \A i \in Items : alloc'[i].quantity = alloc[i].quantity /\ alloc'[i].slot = alloc[i].slot
      /\ \A i \in Items :
           alloc'[i].state = IF i \in ToMark(op, alloc) THEN Marked(op) ELSE alloc[i].state
      /\ \A i \in Items : i \notin ToMark(op, alloc) => alloc'[i] = alloc[i]
      /\ Consumers(alloc') \subseteq Consumers(alloc)
  BY <1>3, <1>5, MarkedAllocs, MarkedRows
<1>7. /\ item' \in ItemTable
      /\ \A i \in Items : /\ item'[i].quantity = item[i].quantity
                          /\ item[i].state # "absent" => item'[i].state # "absent"
                          /\ i \notin ToMark(op, item) => item'[i] = item[i]
  BY <1>3, <1>5, MarkedItems, MarkedRows
<1>8. /\ Outcome(op) \in {"cancelled", "completed"}
      /\ Marked(op) = IF Outcome(op) = "cancelled" THEN "cancelled" ELSE "fulfilled"
      /\ "confirmed" \in Marks(op) /\ Marks(op) \subseteq {"confirmed", "fulfilled"}
  BY MarkedRows
<1>9. \A s \in Slots : Given(w, s) = IF Outcome(op) = "cancelled" THEN SeatsOf(alloc, s) ELSE 0
  BY <1>1, <1>2, GivenBack
<1>10. BookingTyped' /\ booking'.status = Outcome(op)
  BY <1>3, <1>5, <1>8 DEF BookingTyped, Statuses
<1>11. Typed'
  <2>1. \A s \in Slots : remaining[s] + Given(w, s) \in Nat
    BY <1>5, <1>9, SumsTyped
  <2>2. remaining' \in [Slots -> Nat]
    BY <1>3, <2>1
  <2> QED
    BY <1>6, <1>7, <1>10, <2>2 DEF Typed, ItemsTyped, AllocsTyped, RemainingTyped
<1>12. Consumers(alloc') = Consumers(alloc) \/ Consumers(alloc') = {}
  <2>1. \A i \in Consumers(alloc) : i \in Items
    BY DEF Consumers
  <2>2. CASE Consumers(alloc) \cap ToMark(op, alloc) = {}
    BY <1>6, <2>1, <2>2 DEF Consumers
  <2>3. CASE Consumers(alloc) \cap ToMark(op, alloc) # {}
    <3>1. Consumers(alloc) \subseteq ToMark(op, alloc)
      BY <1>5, <2>1, <2>3 DEF Alike, ToMark
    <3>2. \A i \in Consumers(alloc) : alloc'[i].state = Marked(op)
      BY <1>6, <2>1, <3>1
    <3> QED
      BY <1>6, <1>8, <2>1, <3>2 DEF Consumers
  <2> QED
    BY <2>2, <2>3
<1>13. \A s : Consumers(alloc') = Consumers(alloc) => SeatsOf(alloc', s) = SeatsOf(alloc, s)
  <2> SUFFICES ASSUME NEW s, Consumers(alloc') = Consumers(alloc)
               PROVE  SeatsOf(alloc', s) = SeatsOf(alloc, s)
    OBVIOUS
  <2>1. \A i \in Consumers(alloc) : i \in Items
    BY DEF Consumers
  <2>2. Together(alloc', s) = Together(alloc, s)
    BY <1>6, <2>1 DEF Together
  <2>3. \A i \in Together(alloc, s) : alloc'[i].quantity = alloc[i].quantity
    BY <1>6, <2>1 DEF Together
  <2> QED
    BY <2>2, <2>3, SameSeats
<1>14. \A s : Consumers(alloc') = {} => SeatsOf(alloc', s) = 0
  <2> SUFFICES ASSUME NEW s, Consumers(alloc') = {} PROVE SeatsOf(alloc', s) = 0
    OBVIOUS
  <2>1. Together(alloc', s) = {}
    BY DEF Together
  <2> QED
    BY <2>1, SumEmpty DEF SeatsOf
<1>15. Claimed'
  <2>1. ConsumersPresent'
    <3>1. \A i \in Consumers(alloc) : i \in Items /\ item[i].state # "absent"
      BY <1>5 DEF ConsumersPresent, Consumers
    <3> QED
      BY <1>6, <1>7, <3>1 DEF ConsumersPresent
  <2>3. Alike'
    <3>1. \A i \in Consumers(alloc') : i \in Items /\ i \in Consumers(alloc)
      BY <1>6 DEF Consumers
    <3>2. \A i, j \in Consumers(alloc') : i \in ToMark(op, alloc) <=> j \in ToMark(op, alloc)
      BY <1>5, <3>1 DEF Alike, ToMark
    <3> QED
      BY <1>5, <1>6, <3>1, <3>2 DEF Alike
  <2> QED
    BY <2>1, <2>3 DEF Claimed
<1>16. Balanced'
  <2> SUFFICES ASSUME CompletedIsFinal
               PROVE  NoneFulfilled' /\ SeatsConserved' /\ CancelledHoldsNoSeats'
    BY DEF Balanced
  <2>1. NoneFulfilled /\ SeatsInSums(alloc, remaining)
    BY Readings DEF IInv, Balanced
  <2>2. booking.status # "completed"
    <3>1. op = "cancel" \/ op = "complete" \/ booking.status \in Overrides
      BY <1>4 DEF Permitted
    <3>2. op = "cancel" => booking.status \in {"confirmed", "in_progress"}
      BY <1>4 DEF Permitted
    <3>3. op = "complete" => booking.status = "in_progress"
      BY <1>4 DEF Permitted
    <3> QED
      BY <3>1, <3>2, <3>3 DEF CompletedIsFinal
  <2>3. \A i \in Items : alloc[i].state # "fulfilled"
    BY <2>1, <2>2 DEF NoneFulfilled
  <2>4. Consumers(alloc) \subseteq ToMark(op, alloc)
    BY <1>8, <2>3 DEF Consumers, ToMark
  <2>5. CASE Outcome(op) = "cancelled"
    <3>1. \A i \in Items : alloc'[i].state # "fulfilled"
      BY <1>6, <1>8, <2>3, <2>5
    <3>2. Consumers(alloc') = {}
      BY <1>6, <1>8, <2>4, <2>5 DEF Consumers
    <3>3. SeatsInSums(alloc', remaining')
      <4> SUFFICES ASSUME NEW s \in Slots PROVE remaining'[s] + SeatsOf(alloc', s) = Seats
        BY DEF SeatsInSums
      <4>1. remaining'[s] = remaining[s] + SeatsOf(alloc, s)
        BY <1>3, <1>9, <2>5
      <4>2. remaining'[s] = Seats /\ SeatsOf(alloc', s) = 0
        BY <1>14, <2>1, <3>2, <4>1 DEF SeatsInSums
      <4> QED
        BY <4>2, Constants
    <3> QED
      BY <3>1, <3>2, <3>3, ReadingsAfter DEF NoneFulfilled, NoneCancelled
  <2>6. CASE Outcome(op) = "completed"
    <3>1. NoneFulfilled'
      BY <1>10, <2>6 DEF NoneFulfilled
    <3>2. Consumers(alloc') = Consumers(alloc)
      BY <1>6, <1>8, <2>6 DEF Consumers
    <3>3. SeatsInSums(alloc', remaining')
      <4> SUFFICES ASSUME NEW s \in Slots PROVE remaining'[s] + SeatsOf(alloc', s) = Seats
        BY DEF SeatsInSums
      <4>1. remaining[s] \in Nat /\ Given(w, s) = 0
        BY <1>5, <1>9, <2>6
      <4>2. remaining'[s] = remaining[s]
        BY <1>3, <4>1
      <4> QED
        BY <1>13, <2>1, <3>2, <4>2 DEF SeatsInSums
    <3> QED
      BY <1>10, <2>6, <3>1, <3>3, ReadingsAfter DEF NoneCancelled
  <2> QED
    BY <1>8, <2>5, <2>6
<1>17. \A v \in Workers \ {w} : tx[v].op \notin StatusOps
  BY <1>1, <1>4, LocksFree DEF Apart, Knows
<1>18. \A v \in Workers \ {w} :
         tx[v].op \in ItemOps => /\ tx[v].item \in Items /\ tx[v].item \notin ToMark(op, item)
                                 /\ item'[tx[v].item] = item[tx[v].item]
  BY <1>3, <1>7, LocksFree DEF Knows
<1>19. TransactionsTyped' /\ TransactionsGood'
  <2>1. \A v \in Workers \ {w} :
          tx[v].op = "update" /\ tx[v].allocs = {tx[v].item} /\ tx[v].item \in Consumers(alloc) =>
            tx[v].item \in Consumers(alloc')
    BY <1>1, <1>4, <1>6, LocksFree DEF Apart, Consumers
  <2> QED
    BY <1>3, <1>6, <1>10, <1>17, <1>18, <2>1, CommittedTransactions
<1>20. Guarded'
  <2> SUFFICES ASSUME OutcomesAreFinal PROVE Kept'
    BY DEF Guarded
  <2>1. Kept
    BY DEF IInv, Guarded
  <2>2. ASSUME Outcome(op) = "cancelled", NEW v \in Workers, tx'[v].op \in {"update", "delete"}
        PROVE  FALSE
    <3>1. booking.status \in {"confirmed", "in_progress"}
      <4>1. op \in {"cancel", "forceCancel"}
        BY <2>2 DEF Outcome
      <4>2. op = "cancel" => booking.status \in {"confirmed", "in_progress"}
        BY <1>4 DEF Permitted
      <4>3. op = "forceCancel" => booking.status \in Overrides
        BY <1>4 DEF Permitted
      <4>4. booking.status \in Statuses
        BY <1>5 DEF BookingTyped
      <4> QED
        BY <4>1, <4>2, <4>3, <4>4 DEF OutcomesAreFinal, Statuses
    <3>2. v # w /\ tx'[v] = tx[v]
      BY <1>3, <2>2 DEF IInv, TransactionsTyped, NoTransaction
    <3>3. tx[v].item \in Present /\ tx[v].item \in Items /\ tx[v].item \notin ToMark(op, item)
      BY <1>18, <2>2, <3>2, LocksFree DEF Knows, ItemOps
    <3>4. item[tx[v].item].state = "confirmed"
      BY <2>1, <3>1, <3>3 DEF Kept, Present
    <3> QED
      BY <1>8, <3>3, <3>4 DEF ToMark
  <2>3. CASE Outcome(op) = "cancelled"
    BY <1>10, <2>2, <2>3 DEF Kept
  <2>4. CASE Outcome(op) = "completed"
    BY <1>10, <2>4 DEF Kept
  <2> QED
    BY <1>8, <2>3, <2>4
<1> QED
  BY <1>11, <1>15, <1>16, <1>19, <1>20 DEF IInv

\* What the closing update of the booking leaves as it was.
LEMMA FinishFacts ==
  ASSUME IInv, NEW w \in Workers, tx[w].op \in ItemOps, Finish(w)
  PROVE  /\ BookingTyped' /\ booking'.status = booking.status
         /\ tx' = [tx EXCEPT ![w] = NoTransaction]
         /\ \A v \in Workers \ {w} : tx[v].op \notin StatusOps
         /\ \A v \in Workers \ {w} :
              tx[v].op \in ItemOps => tx[v].item \in Items /\ tx[v].item # tx[w].item
<1>1. tx[w].total \in 0..MaxTotal
  BY MineIsTyped DEF Transaction
<1>2. /\ booking' = [booking EXCEPT !.total = tx[w].total] /\ FenceFree(w, {"exclusive"})
      /\ tx' = [tx EXCEPT ![w] = NoTransaction]
  BY DEF Finish, End
<1>3. BookingTyped' /\ booking'.status = booking.status
  BY <1>1, <1>2 DEF IInv, Typed, BookingTyped
<1>4. \A v \in Workers \ {w} : tx[v].op \notin StatusOps
  BY <1>2, LocksFree
<1> QED
  BY <1>2, <1>3, <1>4, OneEditAnItem

LEMMA FinishGuarded ==
  ASSUME IInv, NEW w \in Workers, tx[w].op \in ItemOps, Finish(w),
         \A j \in Items : item'[j].state \in {item[j].state, "absent", "confirmed"}
  PROVE  Guarded'
<1> SUFFICES ASSUME OutcomesAreFinal PROVE Kept'
  BY DEF Guarded
<1>1. Kept
  BY DEF IInv, Guarded
<1>2. booking'.status = booking.status /\ tx' = [tx EXCEPT ![w] = NoTransaction]
  BY FinishFacts
<1>3. \A v \in Workers : tx'[v] = tx[v] \/ tx'[v].op = "idle"
  BY <1>2 DEF IInv, TransactionsTyped, NoTransaction
<1> QED
  BY <1>1, <1>2, <1>3 DEF Kept

LEMMA CreateItemStep ==
  ASSUME IInv, NEW w \in Workers, CreateItem(w) PROVE IInv'
<1>1. PICK t \in Transaction : t = tx[w] /\ Knows(t) /\ t.op = "create"
  BY MineIsTyped DEF CreateItem, Op
<1>2. Finish(w) /\ tx[w].op \in ItemOps /\ UNCHANGED <<alloc, remaining>>
  BY <1>1 DEF CreateItem, ItemOps
<1>3. PICK i \in Items : i = t.item /\ item[i].state = "absent"
  BY <1>1 DEF Knows, ItemOps
<1>4. t.quantity \in 0..MaxQuantity
  BY <1>1 DEF Transaction
<1>5. PICK row : row = [state |-> "confirmed", quantity |-> t.quantity]
  OBVIOUS
<1>6. row \in [state: {"absent", "confirmed", "fulfilled", "cancelled"}, quantity: 0..MaxQuantity]
      /\ row.state = "confirmed"
  BY <1>4, <1>5
<1>7. item \in ItemTable /\ ConsumersPresent /\ Alike
  BY Readings DEF IInv, Typed, ItemsTyped, Claimed
<1>8. item' = [item EXCEPT ![i] = row]
  BY <1>1, <1>3, <1>5 DEF CreateItem
<1>9. item' \in ItemTable /\ item'[i] = row /\ \A j \in Items \ {i} : item'[j] = item[j]
  BY <1>6, <1>7, <1>8 DEF ItemTable
<1>10. BookingTyped' /\ booking'.status = booking.status
  BY <1>2, FinishFacts
<1>11. \A j \in Consumers(alloc) : j \in Items /\ j # i /\ item'[j] = item[j]
  BY <1>3, <1>7, <1>9 DEF ConsumersPresent, Consumers
<1>12. Typed'
  BY <1>2, <1>9, <1>10 DEF IInv, Typed, ItemsTyped, AllocsTyped, RemainingTyped
<1>13. /\ SeatsConserved => SeatsConserved'
       /\ CancelledHoldsNoSeats => CancelledHoldsNoSeats'
  BY <1>2, <1>10, Readings, ReadingsAfter DEF NoneCancelled
<1>14. Claimed'
  BY <1>2, <1>7, <1>11 DEF Claimed, ConsumersPresent, Alike
<1>15. Balanced'
  BY <1>2, <1>10, <1>13 DEF IInv, Balanced, NoneFulfilled
<1>16. Guarded'
  BY <1>2, <1>6, <1>9, FinishGuarded
<1>17. TransactionsTyped' /\ TransactionsGood'
  <2>1. \A v \in Workers \ {w} : tx[v].op \in ItemOps => item'[tx[v].item] = item[tx[v].item]
    BY <1>1, <1>2, <1>3, <1>9, FinishFacts
  <2> QED
    BY <1>2, <2>1, FinishFacts, CommittedTransactions
<1> QED
  BY <1>12, <1>14, <1>15, <1>16, <1>17 DEF IInv

\* An update that moves seats takes as many as its item grows by.
LEMMA UpdateMoves ==
  ASSUME IInv, CompletedIsFinal, NEW w \in Workers, UpdateItem(w), tx[w].slots # {}
  PROVE  \E i \in Consumers(alloc), n \in 0..MaxQuantity, seats \in 0..MaxClaim :
           LET s == alloc[i].slot IN
            /\ i = tx[w].item /\ n = tx[w].quantity
            /\ seats = alloc[i].quantity + (n - item[i].quantity)
            /\ alloc' = Resized(alloc, i, seats) /\ n - item[i].quantity <= remaining[s]
            /\ remaining' = [remaining EXCEPT ![s] = @ - (n - item[i].quantity)]
<1>1. PICK t \in Transaction : t = tx[w] /\ Knows(t) /\ t.op = "update" /\ t.step = "write"
  BY MineIsTyped DEF UpdateItem, Op, Finish, At
<1>2. PICK i \in Items : i = t.item
  BY <1>1 DEF Knows, ItemOps
<1>3. /\ i \in Consumers(alloc) /\ t.seen[i] = item[i].quantity
  BY <1>1, <1>2 DEF Knows, Consuming, Consumers
<1>4. PICK n \in 0..MaxQuantity : n = t.quantity
  BY <1>1 DEF Transaction
<1>5. item \in ItemTable /\ alloc \in AllocTable /\ remaining \in [Slots -> Nat]
      /\ SeatsInSums(alloc, remaining)
  BY Readings DEF IInv, Typed, ItemsTyped, AllocsTyped, RemainingTyped, Balanced
<1>6. PICK q \in 0..MaxQuantity, a \in 0..MaxClaim : q = item[i].quantity /\ a = alloc[i].quantity
  BY <1>5 DEF ItemTable, AllocTable
<1>7. PICK delta \in Int : delta = n - q
  BY Constants
<1>8. /\ delta <= remaining[alloc[i].slot] /\ a + delta >= 0
      /\ remaining' = [remaining EXCEPT ![alloc[i].slot] = @ - delta]
      /\ alloc' = [alloc EXCEPT ![i].quantity = @ + delta]
  BY <1>1, <1>2, <1>3, <1>4, <1>6, <1>7 DEF UpdateItem
<1>9. PICK seats \in Int : seats = a + delta
  OBVIOUS
<1>10. alloc' = Resized(alloc, i, seats)
  BY <1>6, <1>8, <1>9 DEF Resized
<1>11. seats \in 0..MaxClaim
  <2>1. PICK s \in Slots : s = alloc[i].slot
    BY <1>5 DEF AllocTable
  <2>2. PICK rest \in Nat : SeatsOf(alloc, s) = rest + a
    BY <1>3, <1>5, <1>6, <2>1, ResizedSums
  <2>3. PICK left \in Nat : left = remaining[s] /\ left + (rest + a) = Seats
    BY <1>5, <2>1, <2>2 DEF SeatsInSums
  <2> QED
    BY <1>7, <1>8, <1>9, <2>1, <2>3, Constants
<1>12. seats = alloc[i].quantity + (n - item[i].quantity)
  BY <1>6, <1>7, <1>9
<1>13. /\ n - item[i].quantity <= remaining[alloc[i].slot]
       /\ remaining' = [remaining EXCEPT ![alloc[i].slot] = @ - (n - item[i].quantity)]
  BY <1>6, <1>7, <1>8
<1> QED
  BY <1>1, <1>2, <1>3, <1>4, <1>10, <1>11, <1>12, <1>13

LEMMA UpdateItemStep ==
  ASSUME IInv, CompletedIsFinal, NEW w \in Workers, UpdateItem(w) PROVE IInv'
<1>1. PICK t \in Transaction : t = tx[w] /\ Knows(t) /\ t.op = "update" /\ t.step = "write"
  BY MineIsTyped DEF UpdateItem, Op, Finish, At
<1>2. Finish(w) /\ tx[w].op \in ItemOps
  BY <1>1 DEF UpdateItem, ItemOps
<1>3. PICK i \in Items : i = t.item
  BY <1>1 DEF Knows, ItemOps
<1>4. PICK n \in 0..MaxQuantity : n = t.quantity
  BY <1>1 DEF Transaction
<1>5. /\ item \in ItemTable /\ alloc \in AllocTable /\ remaining \in [Slots -> Nat]
      /\ ConsumersPresent /\ Alike
  BY Readings DEF IInv, Typed, ItemsTyped, AllocsTyped, RemainingTyped, Claimed
<1>6. PICK row : row = [item[i] EXCEPT !.quantity = n]
  OBVIOUS
<1>7. row \in [state: {"absent", "confirmed", "fulfilled", "cancelled"}, quantity: 0..MaxQuantity]
      /\ row.state = item[i].state /\ row.quantity = n
  BY <1>5, <1>6 DEF ItemTable
<1>8. item' = [item EXCEPT ![i] = row]
  BY <1>1, <1>3, <1>4, <1>6 DEF UpdateItem
<1>9. /\ item' \in ItemTable /\ item'[i] = row /\ \A j \in Items \ {i} : item'[j] = item[j]
      /\ \A j \in Items : item'[j].state = item[j].state
  BY <1>5, <1>7, <1>8 DEF ItemTable
<1>10. BookingTyped' /\ booking'.status = booking.status
  BY <1>2, FinishFacts
<1>11. Guarded'
  BY <1>2, <1>9, FinishGuarded
<1>12. Consumers(alloc') = Consumers(alloc) =>
         TransactionsTyped' /\ TransactionsGood'
  <2>1. \A v \in Workers \ {w} : tx[v].op \in ItemOps => item'[tx[v].item] = item[tx[v].item]
    BY <1>1, <1>2, <1>3, <1>9, FinishFacts
  <2> QED
    BY <1>2, <2>1, FinishFacts, CommittedTransactions
<1>13. CASE tx[w].slots = {}
  <2>1. UNCHANGED <<alloc, remaining>>
    BY <1>13 DEF UpdateItem
  <2>2. Typed'
    BY <1>9, <1>10, <2>1 DEF IInv, Typed, ItemsTyped, AllocsTyped, RemainingTyped
  <2>3. /\ SeatsConserved => SeatsConserved'
        /\ CancelledHoldsNoSeats => CancelledHoldsNoSeats'
    BY <1>10, <2>1, Readings, ReadingsAfter DEF NoneCancelled
  <2>5. Claimed'
    BY <1>5, <1>9, <2>1 DEF IInv, Claimed, ConsumersPresent, Alike
  <2>6. Balanced'
    BY <1>10, <2>1, <2>3 DEF IInv, Balanced, NoneFulfilled
  <2> QED
    BY <1>11, <1>12, <2>1, <2>2, <2>5, <2>6 DEF IInv
<1>14. CASE tx[w].slots # {}
  <2>1. PICK seats \in 0..MaxClaim :
          /\ i \in Consumers(alloc)
          /\ seats = alloc[i].quantity + (n - item[i].quantity)
          /\ alloc' = Resized(alloc, i, seats) /\ n - item[i].quantity <= remaining[alloc[i].slot]
          /\ remaining' = [remaining EXCEPT ![alloc[i].slot] = @ - (n - item[i].quantity)]
    BY <1>1, <1>3, <1>4, <1>14, UpdateMoves
  <2>2. PICK q \in 0..MaxQuantity, a \in 0..MaxClaim, s \in Slots :
          q = item[i].quantity /\ a = alloc[i].quantity /\ s = alloc[i].slot
    BY <1>5 DEF ItemTable, AllocTable
  <2>3. /\ alloc' \in AllocTable /\ Consumers(alloc') = Consumers(alloc)
        /\ \A j \in Items : alloc'[j].slot = alloc[j].slot /\ alloc'[j].state = alloc[j].state
        /\ \E rest \in Nat : SeatsOf(alloc, s) = rest + a /\ SeatsOf(alloc', s) = rest + seats
        /\ \A u \in Slots \ {s} : SeatsOf(alloc', u) = SeatsOf(alloc, u)
    BY <1>5, <2>1, <2>2, ResizedSums
  <2>4. seats = a + (n - q)
    BY <2>1, <2>2
  <2>5. remaining[s] \in Nat /\ remaining[s] - (n - q) \in Nat
    BY <1>5, <2>1, <2>2
  <2>6. /\ remaining' \in [Slots -> Nat] /\ remaining'[s] = remaining[s] - (n - q)
        /\ \A u \in Slots \ {s} : remaining'[u] = remaining[u]
    BY <1>5, <2>1, <2>2, <2>5
  <2>7. Typed'
    BY <1>9, <1>10, <2>3, <2>6 DEF Typed, ItemsTyped, AllocsTyped, RemainingTyped
  <2>10. Alike' /\ ConsumersPresent'
    BY <1>5, <1>9, <2>3 DEF Alike, ConsumersPresent, Consumers
  <2>11. Balanced'
        <3>1. NoneFulfilled /\ SeatsInSums(alloc, remaining) /\ NoneCancelled(alloc, booking)
      BY Readings DEF IInv, Balanced
    <3>2. NoneFulfilled'
      BY <1>10, <2>3, <3>1 DEF NoneFulfilled
    <3>3. SeatsInSums(alloc', remaining')
      <4> SUFFICES ASSUME NEW u \in Slots PROVE remaining'[u] + SeatsOf(alloc', u) = Seats
        BY DEF SeatsInSums
      <4>1. CASE u # s
        BY <2>3, <2>6, <3>1, <4>1 DEF SeatsInSums
      <4>2. CASE u = s
        <5>1. PICK rest \in Nat : SeatsOf(alloc, s) = rest + a /\ SeatsOf(alloc', s) = rest + seats
          BY <2>3
        <5>2. remaining[s] + (rest + a) = Seats
          BY <3>1, <5>1 DEF SeatsInSums
        <5>3. (remaining[s] - (n - q)) + (rest + seats) = Seats
          BY <2>4, <2>5, <5>2, Constants
        <5> QED
          BY <2>6, <4>2, <5>1, <5>3
      <4> QED
        BY <4>1, <4>2
    <3> QED
      BY <1>10, <2>3, <3>1, <3>2, <3>3, ReadingsAfter DEF Balanced, NoneCancelled
  <2> QED
    BY <1>11, <1>12, <2>3, <2>7, <2>10, <2>11 DEF IInv, Claimed
<1> QED
  BY <1>13, <1>14

\* A deletion of an item with seats hands what is left of the claim to a sibling.
LEMMA DeleteHands ==
  ASSUME IInv, CompletedIsFinal, NEW w \in Workers, DeleteItem(w), NEW i \in Items, i = tx[w].item,
         i \in Consumers(alloc)
  PROVE  \E n, carrier :
           LET s == alloc[i].slot IN
           /\ n \in 0..MaxClaim
           /\ IF Others(alloc, i) = {} THEN n = 0 ELSE carrier \in Others(alloc, i)
           /\ alloc' = Handed(alloc, i, carrier, n)
           /\ (SeatsOf(alloc, s) - n) + remaining[s] >= 0
           /\ remaining' = [remaining EXCEPT ![s] = @ + (SeatsOf(alloc, s) - n)]
<1> DEFINE s == alloc[i].slot
           O == Others(alloc, i)
<1>1. /\ alloc \in AllocTable /\ remaining \in [Slots -> Nat] /\ SeatsInSums(alloc, remaining)
      /\ s \in Slots
  BY Readings DEF IInv, Typed, AllocsTyped, RemainingTyped, Balanced, AllocTable
<1>2. Consuming = Consumers(alloc) /\ Siblings(i) = O /\ O \subseteq Consumers(alloc)
      /\ O \subseteq Items /\ O \cap On(s) = O
  BY DEF Consuming, Consumers, Siblings, Others, Together, On
<1>3. IsFiniteSet(O)
  BY <1>2, Constants, FS_Subset
<1>4. Claim(Siblings(i), alloc[i].slot) = Sum(MaxClaim, Carried(alloc), O)
  BY <1>2, ClaimsAreSums
<1>5. PICK rest \in Nat : rest = Sum(MaxClaim, Carried(alloc), O)
  BY <1>3, Constants, SumFinite
<1>6. PICK pax \in Parties \cup {None} : pax = tx[w].pax
  BY MineIsTyped DEF Transaction
<1>7. PICK n : n = Desired(i, pax)
  OBVIOUS
<1>8. n = IF O = {} THEN 0 ELSE IF pax # None THEN pax ELSE rest
  BY <1>2, <1>4, <1>5, <1>7 DEF Desired
<1>9. n \in Nat
  <2>1. pax # None => pax \in Nat
    BY <1>6, PartyAssumption
  <2> QED
    BY <1>8, <2>1
<1>10. Surplus(i, pax) = SeatsOf(alloc, s) - n
  BY <1>7, ClaimsAreSums DEF Surplus
<1>11. PICK carrier \in IF O = {} THEN {None} ELSE O : alloc' = Without(i, carrier, pax)
  BY <1>2, <1>6 DEF DeleteItem
<1>12. alloc' = Handed(alloc, i, carrier, n)
  BY <1>2, <1>7, <1>11 DEF Without, Handed
<1>13. /\ (SeatsOf(alloc, s) - n) + remaining[s] >= 0
       /\ remaining' = [remaining EXCEPT ![s] = @ + (SeatsOf(alloc, s) - n)]
  BY <1>2, <1>6, <1>10 DEF DeleteItem
<1>14. n \in 0..MaxClaim
  <2>1. PICK had \in Nat, left \in Nat : had = SeatsOf(alloc, s) /\ left = remaining[s]
    BY <1>1, SumsTyped
  <2>2. left + had = Seats
    BY <1>1, <2>1 DEF SeatsInSums
  <2> QED
    BY <1>9, <1>13, <2>1, <2>2, Constants
<1> QED
  BY <1>8, <1>11, <1>12, <1>13, <1>14

\* A deletion of an item without seats takes its allocation, if any, along.
TakenAlong(a, i, b) ==
  /\ b \in AllocTable /\ Consumers(b) = Consumers(a)
  /\ \A j \in Items : b[j].slot = a[j].slot
  /\ \A j \in Items \ {i} : b[j] = a[j]
  /\ b[i].state = "none"
  /\ \A s : SeatsOf(b, s) = SeatsOf(a, s)

LEMMA DeleteTakesAlong ==
  ASSUME NEW a \in AllocTable, NEW i \in Items, i \notin Consumers(a),
         NEW b, b = [a EXCEPT ![i].state = "none", ![i].quantity = 0]
  PROVE  TakenAlong(a, i, b)
<1>1. PICK row : row = [a[i] EXCEPT !.state = "none", !.quantity = 0]
  OBVIOUS
<1>2. /\ row \in [state: {"none", "confirmed", "fulfilled", "cancelled"}, quantity: 0..MaxClaim, slot: Slots]
      /\ row.state = "none" /\ row.slot = a[i].slot
  <2>1. a[i] \in [state: {"none", "confirmed", "fulfilled", "cancelled"}, quantity: 0..MaxClaim, slot: Slots]
    BY DEF AllocTable
  <2>2. 0 \in 0..MaxClaim
    BY Constants
  <2> QED
    BY <1>1, <2>1, <2>2
<1>3. b = [a EXCEPT ![i] = row]
  BY <1>1 DEF AllocTable
<1>4. /\ b \in AllocTable /\ b[i] = row /\ \A j \in Items \ {i} : b[j] = a[j]
      /\ \A j \in Items : b[j].slot = a[j].slot
  BY <1>2, <1>3 DEF AllocTable
<1>5. Consumers(b) = Consumers(a)
  BY <1>2, <1>4 DEF Consumers
<1>6. \A j \in Consumers(a) : j \in Items /\ j # i /\ b[j] = a[j]
  BY <1>4 DEF Consumers
<1>7. \A s : SeatsOf(b, s) = SeatsOf(a, s)
  <2> SUFFICES ASSUME NEW s PROVE SeatsOf(b, s) = SeatsOf(a, s)
    OBVIOUS
  <2>1. Together(b, s) = Together(a, s) /\ \A j \in Together(a, s) : b[j].quantity = a[j].quantity
    BY <1>5, <1>6 DEF Together
  <2> QED
    BY <2>1, SameSeats
<1> QED
  BY <1>2, <1>4, <1>5, <1>7 DEF TakenAlong

LEMMA DeleteItemStep ==
  ASSUME IInv, CompletedIsFinal, NEW w \in Workers, DeleteItem(w) PROVE IInv'
<1>1. PICK t \in Transaction : t = tx[w] /\ Knows(t) /\ t.op = "delete"
  BY MineIsTyped DEF DeleteItem, Op
<1>2. Finish(w) /\ tx[w].op \in ItemOps
  BY <1>1 DEF DeleteItem, ItemOps
<1>3. PICK i \in Items : i = t.item
  BY <1>1 DEF Knows, ItemOps
<1>4. /\ item \in ItemTable /\ alloc \in AllocTable /\ remaining \in [Slots -> Nat]
      /\ ConsumersPresent /\ Alike
  BY Readings DEF IInv, Typed, ItemsTyped, AllocsTyped, RemainingTyped, Claimed
<1>5. PICK row : row = [state |-> "absent", quantity |-> 0]
  OBVIOUS
<1>6. row \in [state: {"absent", "confirmed", "fulfilled", "cancelled"}, quantity: 0..MaxQuantity]
      /\ row.state = "absent"
  BY <1>5, Constants
<1>7. item' = [item EXCEPT ![i] = row]
  BY <1>1, <1>3, <1>5 DEF DeleteItem
<1>8. item' \in ItemTable /\ item'[i] = row /\ \A j \in Items \ {i} : item'[j] = item[j]
  BY <1>4, <1>6, <1>7 DEF ItemTable
<1>9. BookingTyped' /\ booking'.status = booking.status
  BY <1>2, FinishFacts
<1>10. Guarded'
  BY <1>2, <1>6, <1>8, FinishGuarded
<1>11. Consumers(alloc') = Consumers(alloc) \ {i} => TransactionsTyped' /\ TransactionsGood'
  <2>1. \A v \in Workers \ {w} : tx[v].op \in ItemOps => item'[tx[v].item] = item[tx[v].item]
    BY <1>1, <1>2, <1>3, <1>8, FinishFacts
  <2>2. \A v \in Workers \ {w} : tx[v].op \in ItemOps => tx[v].item # i
    BY <1>1, <1>2, <1>3, FinishFacts
  <2> QED
    BY <1>2, <2>1, <2>2, FinishFacts, CommittedTransactions DEF ItemOps
<1>12. CASE i \notin Consumers(alloc)
  <2>1. alloc' = [alloc EXCEPT ![i].state = "none", ![i].quantity = 0] /\ UNCHANGED remaining
    BY <1>1, <1>3, <1>12 DEF DeleteItem, Consuming, Consumers
  <2>2. /\ alloc' \in AllocTable /\ Consumers(alloc') = Consumers(alloc)
        /\ \A j \in Items : alloc'[j].slot = alloc[j].slot
        /\ \A j \in Items \ {i} : alloc'[j] = alloc[j]
        /\ alloc'[i].state = "none"
        /\ \A s : SeatsOf(alloc', s) = SeatsOf(alloc, s)
    <3>1. TakenAlong(alloc, i, alloc')
      BY <1>4, <1>12, <2>1, DeleteTakesAlong
    <3> QED
      BY <3>1 DEF TakenAlong
  <2>3. Typed'
    BY <1>4, <1>8, <1>9, <2>1, <2>2 DEF Typed, ItemsTyped, AllocsTyped, RemainingTyped
  <2>4. \A j \in Consumers(alloc) : j \in Items /\ j # i
    BY <1>12 DEF Consumers
  <2>7. Claimed'
    BY <1>4, <1>8, <2>2, <2>4 DEF Claimed, ConsumersPresent, Alike
  <2>8. Balanced'
    <3>1. SeatsConserved => SeatsConserved'
      BY <2>1, <2>2, Readings, ReadingsAfter DEF SeatsInSums
    <3>2. NoneFulfilled => NoneFulfilled'
      BY <1>9, <2>2 DEF NoneFulfilled
    <3>3. CancelledHoldsNoSeats => CancelledHoldsNoSeats'
      BY <1>9, <2>2, Readings, ReadingsAfter DEF NoneCancelled
    <3> QED
      BY <3>1, <3>2, <3>3 DEF IInv, Balanced
  <2>9. Consumers(alloc') = Consumers(alloc) \ {i}
    BY <1>12, <2>2
  <2> QED
    BY <1>10, <1>11, <2>3, <2>7, <2>8, <2>9 DEF IInv
<1>13. CASE i \in Consumers(alloc)
  <2>1. PICK n, carrier :
          /\ n \in 0..MaxClaim
          /\ IF Others(alloc, i) = {} THEN n = 0 ELSE carrier \in Others(alloc, i)
          /\ alloc' = Handed(alloc, i, carrier, n)
          /\ (SeatsOf(alloc, alloc[i].slot) - n) + remaining[alloc[i].slot] >= 0
          /\ remaining' = [remaining EXCEPT ![alloc[i].slot] = @ + (SeatsOf(alloc, alloc[i].slot) - n)]
    BY <1>1, <1>3, <1>13, DeleteHands
  <2>2. PICK s \in Slots : s = alloc[i].slot
    BY <1>4 DEF AllocTable
  <2>3. /\ alloc' \in AllocTable /\ Consumers(alloc') = Consumers(alloc) \ {i}
        /\ \A j \in Items : alloc'[j].slot = alloc[j].slot
        /\ \A j \in Consumers(alloc') : alloc'[j].state = alloc[j].state
        /\ \A j \in Items \ {i} : alloc'[j].state = alloc[j].state
    BY <1>4, <2>1, HandedRows
  <2>4. /\ Together(alloc', s) = Others(alloc, i) /\ SeatsOf(alloc', s) = n
        /\ \A u \in Slots \ {s} : /\ Together(alloc', u) = Together(alloc, u)
                                  /\ SeatsOf(alloc', u) = SeatsOf(alloc, u)
    BY <1>4, <1>13, <2>1, <2>2, HandedSums
  <2>5. PICK had \in Nat, left \in Nat : had = SeatsOf(alloc, s) /\ left = remaining[s]
    BY <1>4, SumsTyped
  <2>6. (had - n) + left >= 0 /\ remaining' = [remaining EXCEPT ![s] = @ + (had - n)]
    BY <2>1, <2>2, <2>5
  <2>7. n \in Nat /\ \E free \in Nat : free = left + (had - n)
    BY <2>1, <2>6, Constants
  <2>8. PICK free \in Nat : free = left + (had - n)
    BY <2>7
  <2>9. /\ remaining' \in [Slots -> Nat] /\ remaining'[s] = free
        /\ \A u \in Slots \ {s} : remaining'[u] = remaining[u]
    BY <1>4, <2>5, <2>6, <2>7, <2>8
  <2>10. Typed'
    BY <1>8, <1>9, <2>3, <2>9 DEF Typed, ItemsTyped, AllocsTyped, RemainingTyped
  <2>11. \A j \in Consumers(alloc') : j \in Items /\ j # i /\ j \in Consumers(alloc)
    BY <2>3 DEF Consumers
  <2>14. Claimed'
    <3>1. ConsumersPresent'
      BY <1>4, <1>8, <2>11 DEF ConsumersPresent
    <3>2. Alike'
      BY <1>4, <2>3, <2>11 DEF Alike
    <3> QED
      BY <3>1, <3>2 DEF Claimed
  <2>15. Balanced'
        <3>1. NoneFulfilled /\ SeatsInSums(alloc, remaining) /\ NoneCancelled(alloc, booking)
      BY Readings DEF IInv, Balanced
    <3>2. alloc'[i].state # "fulfilled"
      BY <2>3 DEF Consumers
    <3>3. NoneFulfilled'
      BY <1>9, <2>3, <3>1, <3>2 DEF NoneFulfilled
    <3>4. SeatsInSums(alloc', remaining')
      <4> SUFFICES ASSUME NEW u \in Slots PROVE remaining'[u] + SeatsOf(alloc', u) = Seats
        BY DEF SeatsInSums
      <4>1. CASE u # s
        BY <2>4, <2>9, <3>1, <4>1 DEF SeatsInSums
      <4>2. CASE u = s
        <5>1. left + had = Seats
          BY <2>5, <3>1 DEF SeatsInSums
        <5>2. free + n = Seats
          BY <2>7, <2>8, <5>1
        <5> QED
          BY <2>4, <2>9, <4>2, <5>2
      <4> QED
        BY <4>1, <4>2
    <3>5. NoneCancelled(alloc', booking')
      BY <1>9, <2>3, <3>1 DEF NoneCancelled
    <3> QED
      BY <3>3, <3>4, <3>5, ReadingsAfter DEF Balanced
  <2> QED
    BY <1>10, <1>11, <2>3, <2>10, <2>14, <2>15 DEF IInv
<1> QED
  BY <1>12, <1>13
----------------------------------------------------------------------------
(* The initial states *)

LEMMA QuantityFits ==
  ASSUME NEW I \in SUBSET Items PROVE Quantity(I) \in 0..MaxTotal
<1>1. Quantity(I) = Sum(MaxQuantity, Asked(item), I)
  BY ClaimsAreSums
<1>2. IsFiniteSet(I)
  BY Constants, FS_Subset
<1>3. Sum(MaxQuantity, Asked(item), I) \in Nat
  BY <1>2, Constants, SumFinite
<1>4. Sum(MaxQuantity, Asked(item), I) <= Sum(MaxQuantity, Asked(item), Items)
  BY Constants, SumMonotone
<1>5. Sum(MaxQuantity, Asked(item), Items) \in Nat /\ Sum(MaxQuantity, Asked(item), Items) <= MaxTotal
  BY Constants, SumFinite DEF MaxTotal
<1> QED
  BY <1>1, <1>3, <1>4, <1>5, Constants

LEMMA InitIInv == Init => IInv
<1> SUFFICES ASSUME Init PROVE IInv
  OBVIOUS
<1>1. PICK booked \in SUBSET Items, n \in [Items -> 1..MaxQuantity], pax \in Parties,
           carriers \in SUBSET Items, claims \in [Items -> 0..Seats], departure \in [Items -> Slots] :
        /\ item = [i \in Items |-> IF i \in booked THEN [state |-> "confirmed", quantity |-> n[i]]
                                  ELSE [state |-> "absent", quantity |-> 0]]
        /\ booked # {} /\ carriers \subseteq booked
        /\ \/ carriers = booked /\ TakesItsOwn(booked, n, pax, claims)
           \/ TakesTheHold(carriers, claims)
        /\ alloc = [i \in Items |->
                      IF i \in carriers
                      THEN [state |-> "confirmed", quantity |-> claims[i], slot |-> departure[i]]
                      ELSE [state |-> "none", quantity |-> 0, slot |-> departure[i]]]
        /\ booking = [status |-> "confirmed", total |-> Quantity(Present), pax |-> pax]
  BY DEF Init
<1>3. /\ \A s \in Slots : Claim(Consuming, s) <= Seats
      /\ remaining = [s \in Slots |-> Seats - Claim(Consuming, s)]
      /\ tx = [w \in Workers |-> NoTransaction]
  BY DEF Init
<1>4. ASSUME NEW i \in Items
      PROVE  /\ item[i] \in [state: {"absent", "confirmed", "fulfilled", "cancelled"}, quantity: 0..MaxQuantity]
             /\ item[i].state \in {"absent", "confirmed"}
             /\ i \in booked => item[i].state = "confirmed"
  <2>1. PICK m \in 0..MaxQuantity : m = n[i]
    BY Constants
  <2>2. PICK taken : taken = [state |-> "confirmed", quantity |-> m]
    OBVIOUS
  <2>3. PICK free : free = [state |-> "absent", quantity |-> 0]
    OBVIOUS
  <2>4. item[i] = IF i \in booked THEN taken ELSE free
    BY <1>1, <2>1, <2>2, <2>3
  <2>5. /\ taken \in [state: {"absent", "confirmed", "fulfilled", "cancelled"}, quantity: 0..MaxQuantity]
        /\ free \in [state: {"absent", "confirmed", "fulfilled", "cancelled"}, quantity: 0..MaxQuantity]
        /\ taken.state = "confirmed" /\ free.state = "absent"
    BY <2>2, <2>3, Constants
  <2> QED
    BY <2>4, <2>5
<1>5. item = [i \in Items |-> item[i]]
  BY <1>1
<1>6. item \in ItemTable
  BY <1>4, <1>5 DEF ItemTable
<1>7. ASSUME NEW i \in Items
      PROVE  /\ alloc[i] \in [state: {"none", "confirmed", "fulfilled", "cancelled"}, quantity: 0..MaxClaim, slot: Slots]
             /\ alloc[i].state = IF i \in carriers THEN "confirmed" ELSE "none"
  <2>1. PICK m \in 0..MaxClaim, s \in Slots : m = claims[i] /\ s = departure[i]
    BY Constants
  <2>2. PICK taken : taken = [state |-> "confirmed", quantity |-> m, slot |-> s]
    OBVIOUS
  <2>3. PICK free : free = [state |-> "none", quantity |-> 0, slot |-> s]
    OBVIOUS
  <2>4. alloc[i] = IF i \in carriers THEN taken ELSE free
    BY <1>1, <2>1, <2>2, <2>3
  <2>5. /\ taken \in [state: {"none", "confirmed", "fulfilled", "cancelled"}, quantity: 0..MaxClaim, slot: Slots]
        /\ free \in [state: {"none", "confirmed", "fulfilled", "cancelled"}, quantity: 0..MaxClaim, slot: Slots]
        /\ taken.state = "confirmed" /\ free.state = "none"
    BY <2>2, <2>3, Constants
  <2> QED
    BY <2>4, <2>5
<1>8. alloc \in AllocTable
  <2>1. alloc = [i \in Items |-> alloc[i]]
    BY <1>1
  <2> QED
    BY <1>7, <2>1 DEF AllocTable
<1>9. BookingTyped /\ booking.status = "confirmed"
  <2>1. PICK total \in 0..MaxTotal : total = Quantity(Present)
    BY QuantityFits DEF Present
  <2>2. booking = [status |-> "confirmed", total |-> total, pax |-> pax]
    BY <1>1, <2>1
  <2> QED
    BY <2>2 DEF BookingTyped, Statuses
<1>10. \A s \in Slots : remaining[s] = Seats - SeatsOf(alloc, s) /\ Seats - SeatsOf(alloc, s) \in Nat
  <2> SUFFICES ASSUME NEW s \in Slots
               PROVE  remaining[s] = Seats - SeatsOf(alloc, s) /\ Seats - SeatsOf(alloc, s) \in Nat
    OBVIOUS
  <2>1. Claim(Consuming, s) = SeatsOf(alloc, s) /\ SeatsOf(alloc, s) \in Nat
    BY ClaimsAreSums, SumsTyped
  <2>2. SeatsOf(alloc, s) <= Seats
    BY <1>3, <2>1
  <2> QED
    BY <1>3, <2>1, <2>2, Constants
<1>11. remaining \in [Slots -> Nat]
  BY <1>3, <1>10
<1>12. Typed
  BY <1>6, <1>8, <1>9, <1>11 DEF Typed, ItemsTyped, AllocsTyped, RemainingTyped
<1>13. \A i \in Consumers(alloc) : i \in Items /\ i \in booked /\ alloc[i].state = "confirmed"
  BY <1>1, <1>7 DEF Consumers
<1>14. Claimed
  <2>1. ConsumersPresent
    BY <1>4, <1>13 DEF ConsumersPresent
  <2>2. Alike
    BY <1>13 DEF Alike
  <2> QED
    BY <2>1, <2>2 DEF Claimed
<1>15. Balanced
  <2>1. NoneFulfilled
    BY <1>7 DEF NoneFulfilled
  <2>2. SeatsInSums(alloc, remaining)
    <3> SUFFICES ASSUME NEW s \in Slots PROVE remaining[s] + SeatsOf(alloc, s) = Seats
      BY DEF SeatsInSums
    <3>1. SeatsOf(alloc, s) \in Nat
      BY SumsTyped
    <3> QED
      BY <1>10, <3>1, Constants
  <2> QED
    BY <1>9, <2>1, <2>2, Readings DEF Balanced, NoneCancelled
<1>16. Guarded
  BY <1>3, <1>4, <1>9 DEF Guarded, Kept, NoTransaction
<1>17. TransactionsTyped /\ TransactionsGood
  BY <1>3, NoTransactionTyped, NoTransactionApart DEF TransactionsTyped, TransactionsGood
<1> QED
  BY <1>12, <1>14, <1>15, <1>16, <1>17 DEF IInv
----------------------------------------------------------------------------
(* Theorems *)

LEMMA NextIInv == ASSUME CompletedIsFinal PROVE IInv /\ [Next]_vars => IInv'
<1> SUFFICES ASSUME IInv, [Next]_vars PROVE IInv'
  OBVIOUS
<1>1. CASE UNCHANGED vars
  <2>1. UNCHANGED <<booking, item, alloc, remaining, tx>>
    BY <1>1 DEF vars
  <2>2. \A u : Knows(u) => Knows(u)'
    BY <2>1 DEF Knows, Permitted, Consuming, Present, ToMark
  <2>3. TransactionsTyped' /\ TransactionsGood'
    <3>1. TransactionsTyped'
      BY <2>1 DEF IInv, TransactionsTyped
    <3>2. ASSUME NEW w \in Workers PROVE Knows(tx[w])'
      <4>1. PICK u : u = tx[w] /\ u = tx'[w]
        BY <2>1
      <4>2. Knows(u)
        BY <4>1 DEF IInv, TransactionsGood
      <4>3. Knows(u)'
        BY <2>2, <4>2
      <4> QED
        BY <4>1, <4>3
    <3> QED
      BY <2>1, <3>1, <3>2 DEF IInv, TransactionsGood, Apart
  <2>4. Typed'
    BY <2>1 DEF IInv, Typed, BookingTyped, ItemsTyped, AllocsTyped, RemainingTyped
  <2>5. Claimed'
    BY <2>1 DEF IInv, Claimed, ConsumersPresent, Alike
  <2>6. Balanced'
    BY <2>1 DEF IInv, Balanced, NoneFulfilled, SeatsConserved, CancelledHoldsNoSeats, Consuming, Claim, On
  <2>7. Guarded'
    BY <2>1 DEF IInv, Guarded, Kept
  <2> QED
    BY <2>3, <2>4, <2>5, <2>6, <2>7 DEF IInv
<1>2. ASSUME NEW w \in Workers, NEW op \in StatusOps, BeginStatus(w, op) PROVE IInv'
  BY <1>2, BeginStatusStep
<1>3. ASSUME NEW w \in Workers, StartBooking(w) PROVE IInv'
  BY <1>3, StartBookingStep
<1>4. ASSUME NEW w \in Workers, NEW status \in {"confirmed", "in_progress"}, ForceStatus(w, status)
      PROVE  IInv'
  BY <1>4, ForceStatusStep
<1>10. ASSUME NEW w \in Workers, NEW pax \in Parties, EditParty(w, pax) PROVE IInv'
  BY <1>10, EditPartyStep
<1>5. ASSUME NEW w \in Workers, NEW i \in Items, BeginDelete(w, i) PROVE IInv'
  BY <1>5, BeginDeleteStep
<1>6. ASSUME NEW w \in Workers, NEW i \in Items, NEW n \in 1..MaxQuantity,
             BeginCreate(w, i, n) \/ BeginUpdate(w, i, n)
      PROVE  IInv'
  BY <1>6, BeginCreateStep, BeginUpdateStep
<1>7. ASSUME NEW w \in Workers, LockSlot(w) \/ LockMarked(w) \/ LockOwn(w) \/ LockSiblings(w)
      PROVE  IInv'
  BY <1>7, LockSlotStep, LockMarkedStep, LockOwnStep, LockSiblingsStep
<1>8. ASSUME NEW w \in Workers, InsertItem(w) \/ ReadItems(w) \/ Rollback(w) PROVE IInv'
  BY <1>8, InsertItemStep, ReadItemsStep, RollbackStep
<1>9. ASSUME NEW w \in Workers, ChangeStatus(w) \/ CreateItem(w) \/ UpdateItem(w) \/ DeleteItem(w)
      PROVE  IInv'
  BY <1>9, ChangeStatusStep, CreateItemStep, UpdateItemStep, DeleteItemStep
<1> QED
  BY <1>1, <1>2, <1>3, <1>4, <1>5, <1>6, <1>7, <1>8, <1>9, <1>10 DEF Next

LEMMA Inductive == ASSUME CompletedIsFinal PROVE Spec => []IInv
BY InitIInv, NextIInv, PTL DEF Spec

\* No seat is minted or lost: free seats and allocations add up to the capacity
\* whatever interleaves (releaseAllocationCapacity, syncAllocationQuantity,
\* deleteItem), provided operators leave completed bookings completed.
THEOREM SeatsAddUp == ASSUME CompletedIsFinal PROVE Spec => []SeatsConserved
<1>1. IInv => SeatsConserved
  BY DEF IInv, Balanced
<1> QED
  BY <1>1, Inductive, PTL

\* A cancelled booking claims no seat, though completions and edits that began
\* before the cancellation commit around it, under the same proviso
\* (transitionAllocationsForBookingStatus).
THEOREM CancelledClaimsNothing == ASSUME CompletedIsFinal PROVE Spec => []CancelledHoldsNoSeats
<1>1. IInv => CancelledHoldsNoSeats
  BY DEF IInv, Balanced
<1> QED
  BY <1>1, Inductive, PTL

\* Every variable keeps its type, the free seats of a departure within its
\* capacity among them, under the same proviso (adjustSlotCapacity).
THEOREM TypeCorrect == ASSUME CompletedIsFinal PROVE Spec => []TypeOK
<1>1. IInv => TypeOK
  <2> SUFFICES ASSUME IInv PROVE TypeOK
    OBVIOUS
  <2>1. remaining \in [Slots -> Nat] /\ SeatsInSums(alloc, remaining)
    BY Readings DEF IInv, Typed, RemainingTyped, Balanced
  <2>2. \A s \in Slots : remaining[s] \in 0..Seats
    <3> SUFFICES ASSUME NEW s \in Slots PROVE remaining[s] \in 0..Seats
      OBVIOUS
    <3>1. remaining[s] \in Nat /\ SeatsOf(alloc, s) \in Nat /\ remaining[s] + SeatsOf(alloc, s) = Seats
      BY <2>1, SumsTyped DEF SeatsInSums
    <3> QED
      BY <3>1, Constants
  <2>3. remaining \in [Slots -> 0..Seats]
    BY <2>1, <2>2
  <2> QED
    BY <2>3 DEF TypeOK, IInv, Typed, BookingTyped, ItemsTyped, ItemTable, AllocsTyped, AllocTable,
                TransactionsTyped
<1> QED
  BY <1>1, Inductive, PTL

\* The items of a cancelled booking are left alone, also by edits requested
\* before the cancellation (bookingAllowsItemMutation), provided operators leave
\* completed and cancelled bookings as they are.
THEOREM CancelledItemsAreKept == ASSUME OutcomesAreFinal PROVE Spec => ItemsOfCancelledAreKept
<1> CompletedIsFinal
  BY DEF OutcomesAreFinal, CompletedIsFinal
<1>1. ASSUME IInv, Next, booking.status = "cancelled", NEW i \in Present
      PROVE  item'[i] = item[i]
  <2> USE <1>1
  <2>1. Kept /\ item \in ItemTable
    BY DEF IInv, Guarded, Typed, ItemsTyped
  <2>2. i \in Items /\ item[i].state # "absent"
    BY DEF Present
  <2>3. ASSUME NEW w \in Workers, ChangeStatus(w) PROVE FALSE
    <3>1. Permitted(tx[w].op) /\ tx[w].op \in StatusOps
      BY <2>3, MineIsTyped DEF ChangeStatus, Op, Knows
    <3>2. "cancelled" \notin Overrides
      BY DEF OutcomesAreFinal
    <3> QED
      BY <3>1, <3>2 DEF Permitted
  <2>4. ASSUME NEW w \in Workers, CreateItem(w) PROVE item'[i] = item[i]
    <3>1. tx[w].item \in Items /\ item[tx[w].item].state = "absent"
      BY <2>4, MineIsTyped DEF CreateItem, Op, Knows, ItemOps
    <3>2. tx[w].item # i
      BY <2>2, <3>1
    <3> QED
      BY <2>1, <2>2, <2>4, <3>2 DEF CreateItem, ItemTable
  <2>5. ASSUME NEW w \in Workers, UpdateItem(w) \/ DeleteItem(w) PROVE FALSE
    BY <2>1, <2>5 DEF Kept, UpdateItem, DeleteItem, Op
  <2>6. item' = item \/ \E w \in Workers : \/ ChangeStatus(w) \/ CreateItem(w)
                                           \/ UpdateItem(w) \/ DeleteItem(w)
    BY DEF Next, BeginStatus, StartBooking, ForceStatus, BeginDelete, BeginCreate, BeginUpdate,
           LockSlot, LockMarked, LockOwn, LockSiblings, InsertItem, ReadItems, Rollback, Continue,
           EditParty
  <2> QED
    BY <2>3, <2>4, <2>5, <2>6
<1>2. IInv /\ [Next]_vars =>
        [booking.status = "cancelled" => \A i \in Present : item'[i] = item[i]]_vars
  BY <1>1
<1> QED
  BY <1>2, Inductive, PTL DEF Spec, ItemsOfCancelledAreKept

\* While items neither come nor go, an item's seats move by what its quantity
\* moves, whatever other edits are under way (lockBookingItemForCapacityChange),
\* under the proviso of SeatsAddUp.
THEOREM EditsKeepTogether == ASSUME CompletedIsFinal PROVE Spec => EditsMoveTogether
<1>1. ASSUME IInv, Next, Present' = Present, NEW i \in Present \cap Consuming,
             alloc'[i].quantity # alloc[i].quantity
      PROVE  alloc'[i].quantity - alloc[i].quantity = item'[i].quantity - item[i].quantity
  <2> USE <1>1
  <2>1. item \in ItemTable /\ alloc \in AllocTable /\ i \in Items
    BY DEF IInv, Typed, ItemsTyped, AllocsTyped, Present
  <2>2. ASSUME NEW w \in Workers, ChangeStatus(w) PROVE FALSE
    <3>1. alloc' = Mark(tx[w].op, alloc) /\ tx[w].op \in StatusOps
      BY <2>2 DEF ChangeStatus, Op
    <3>2. \A j \in Items : alloc'[j].quantity = alloc[j].quantity
      BY <2>1, <3>1, MarkedAllocs
    <3> QED
      BY <2>1, <3>2
  <2>3. ASSUME NEW w \in Workers, CreateItem(w) PROVE FALSE
    BY <2>3 DEF CreateItem
  <2>4. ASSUME NEW w \in Workers, DeleteItem(w) PROVE FALSE
    <3>1. PICK row : row = [state |-> "absent", quantity |-> 0]
      OBVIOUS
    <3>2. tx[w].item \in Present
      BY <2>4, MineIsTyped DEF DeleteItem, Op, Knows
    <3>3. item' = [item EXCEPT ![tx[w].item] = row]
      BY <2>4, <3>1 DEF DeleteItem
    <3>4. item'[tx[w].item] = row
      BY <2>1, <3>2, <3>3 DEF ItemTable, Present
    <3> QED
      BY <3>1, <3>2, <3>4 DEF Present
  <2>5. ASSUME NEW w \in Workers, UpdateItem(w)
        PROVE  alloc'[i].quantity - alloc[i].quantity = item'[i].quantity - item[i].quantity
    <3>1. tx[w].slots # {}
      BY <2>5 DEF UpdateItem
    <3>2. tx[w].item \in Items
      BY <2>5, MineIsTyped DEF UpdateItem, Op, Knows, Present
    <3>3. PICK n \in 0..MaxQuantity, seats \in 0..MaxClaim :
            /\ n = tx[w].quantity
            /\ seats = alloc[tx[w].item].quantity + (n - item[tx[w].item].quantity)
            /\ alloc' = Resized(alloc, tx[w].item, seats)
      BY <2>5, <3>1, <3>2, UpdateMoves
    <3>4. tx[w].item = i
      BY <2>1, <3>2, <3>3 DEF Resized, AllocTable
    <3>5. alloc'[i].quantity = seats
      BY <2>1, <3>3, <3>4 DEF Resized, AllocTable
    <3>6. item'[i].quantity = n
      BY <2>1, <2>5, <3>3, <3>4 DEF UpdateItem, ItemTable
    <3>7. item[i].quantity \in 0..MaxQuantity /\ alloc[i].quantity \in 0..MaxClaim
      BY <2>1 DEF ItemTable, AllocTable
    <3> QED
      BY <3>3, <3>4, <3>5, <3>6, <3>7, Constants
  <2>6. alloc' = alloc \/ \E w \in Workers : \/ ChangeStatus(w) \/ CreateItem(w)
                                             \/ UpdateItem(w) \/ DeleteItem(w)
    BY DEF Next, BeginStatus, StartBooking, ForceStatus, BeginDelete, BeginCreate, BeginUpdate,
           LockSlot, LockMarked, LockOwn, LockSiblings, InsertItem, ReadItems, Rollback, Continue,
           EditParty
  <2> QED
    BY <2>2, <2>3, <2>4, <2>5, <2>6
<1>2. IInv /\ [Next]_vars =>
        [Present' = Present =>
           \A i \in Present \cap Consuming :
             alloc'[i].quantity # alloc[i].quantity =>
               alloc'[i].quantity - alloc[i].quantity = item'[i].quantity - item[i].quantity]_vars
  BY <1>1
<1> QED
  BY <1>2, Inductive, PTL DEF Spec, EditsMoveTogether
==============================================================================
