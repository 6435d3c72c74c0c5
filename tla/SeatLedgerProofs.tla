-------------------------- MODULE SeatLedgerProofs --------------------------
(***************************************************************************)
(* Proofs about SeatLedger, for any departures, claims, party sizes and    *)
(* capacities: a seat is free or claimed once, and no departure is ever    *)
(* oversold.  The seats of a set of claims form a set of pairs, so sums    *)
(* over claims are cardinalities and need no induction.                    *)
(***************************************************************************)
EXTENDS SeatLedger, FiniteSetTheorems, TLAPS

USE ElsewhereAssumption, ClaimsAssumption, MaxPaxAssumption, CapacitiesAssumption

\* The seats claims C have of s, where claim c is at a[c] and has n[c] seats.
SeatPairs(a, n, C, s) == {p \in C \X (1..MaxPax) : a[p[1]] = s /\ p[2] <= n[p[1]]}
SeatTotal(a, n, C, s) == Cardinality(SeatPairs(a, n, C, s))

LEMMA ClaimedIsTotal ==
  \A C, s : /\ Claimed(C, s) = SeatTotal(at, size, C, s)
            /\ Claimed(C, s)' = SeatTotal(at', size', C, s)
BY DEF Claimed, SeatsOf, SeatTotal, SeatPairs

\* Finitely many claims have finitely many seats.
LEMMA SeatsFinite ==
  ASSUME NEW a, NEW n, NEW s, NEW C \in SUBSET Claims
  PROVE  IsFiniteSet(SeatPairs(a, n, C, s)) /\ SeatTotal(a, n, C, s) \in Nat
<1>1. IsFiniteSet(C)
  BY FS_Subset
<1>2. IsFiniteSet(1..MaxPax)
  BY FS_Interval
<1>3. IsFiniteSet(C \X (1..MaxPax))
  BY <1>1, <1>2, FS_Product
<1>4. SeatPairs(a, n, C, s) \in SUBSET (C \X (1..MaxPax))
  BY DEF SeatPairs
<1>5. IsFiniteSet(SeatPairs(a, n, C, s))
  BY <1>3, <1>4, FS_Subset
<1> QED
  BY <1>5, FS_CardinalityType DEF SeatTotal

\* Different claims have different seats.
LEMMA SeatsAdd ==
  ASSUME NEW a, NEW n, NEW s, NEW C \in SUBSET Claims, NEW D \in SUBSET Claims, C \cap D = {}
  PROVE  SeatTotal(a, n, C \cup D, s) = SeatTotal(a, n, C, s) + SeatTotal(a, n, D, s)
<1> DEFINE SC == SeatPairs(a, n, C, s)
           SD == SeatPairs(a, n, D, s)
<1>1. SeatPairs(a, n, C \cup D, s) = SC \cup SD
  BY DEF SeatPairs
<1>2. SC \cap SD = {}
  BY DEF SeatPairs
<1>3. IsFiniteSet(SC) /\ IsFiniteSet(SD)
  BY SeatsFinite
<1>4. Cardinality(SC) \in Nat /\ Cardinality(SD) \in Nat
  BY <1>3, FS_CardinalityType
<1>5. Cardinality(SC \cup SD) = Cardinality(SC) + Cardinality(SD) - Cardinality(SC \cap SD)
  BY <1>3, FS_Union
<1>6. Cardinality(SC \cap SD) = 0
  BY <1>2, FS_EmptySet
<1>7. Cardinality(SC \cup SD) = Cardinality(SC) + Cardinality(SD)
  BY <1>4, <1>5, <1>6
<1> QED
  BY <1>1, <1>7 DEF SeatTotal

\* One claim has the seats it was sized for, where it is.
LEMMA SeatsOfOne ==
  ASSUME NEW c \in Claims, NEW a, NEW n \in [Claims -> 0..MaxPax], NEW s
  PROVE  SeatTotal(a, n, {c}, s) = IF a[c] = s THEN n[c] ELSE 0
<1>1. CASE a[c] = s
  <2> DEFINE f == [k \in 1..n[c] |-> <<c, k>>]
             S == SeatPairs(a, n, {c}, s)
  <2>1. n[c] \in Nat /\ n[c] <= MaxPax
    OBVIOUS
  <2>2. \A k \in 1..n[c] : <<c, k>> \in S
    BY <1>1, <2>1 DEF SeatPairs
  <2>3. \A p \in S : p[2] \in 1..n[c] /\ p = <<c, p[2]>>
    BY <1>1, <2>1 DEF SeatPairs
  <2>4. f \in [1..n[c] -> S]
    BY <2>2
  <2>5. \A j, k \in 1..n[c] : f[j] = f[k] => j = k
    OBVIOUS
  <2>6. \A p \in S : \E k \in 1..n[c] : f[k] = p
    BY <2>3
  <2>7. f \in Bijection(1..n[c], S)
    BY <2>4, <2>5, <2>6 DEF Bijection, Injection, Surjection, IsInjective
  <2>8. ExistsBijection(1..n[c], S)
    BY <2>7 DEF ExistsBijection
  <2>9. IsFiniteSet(1..n[c]) /\ Cardinality(1..n[c]) = n[c]
    BY <2>1, FS_Interval
  <2>10. Cardinality(S) = n[c]
    BY <2>8, <2>9, FS_Bijection
  <2> QED
    BY <1>1, <2>10 DEF SeatTotal
<1>2. CASE a[c] # s
  <2>1. SeatPairs(a, n, {c}, s) = {}
    BY <1>2 DEF SeatPairs
  <2> QED
    BY <1>2, <2>1, FS_EmptySet DEF SeatTotal
<1> QED
  BY <1>1, <1>2

\* Claims nobody touched have the seats they had.
LEMMA SeatsFrame ==
  ASSUME NEW a, NEW n, NEW b, NEW m, NEW C, NEW s, \A c \in C : a[c] = b[c] /\ n[c] = m[c]
  PROVE  SeatTotal(a, n, C, s) = SeatTotal(b, m, C, s)
<1>1. SeatPairs(a, n, C, s) = SeatPairs(b, m, C, s)
  BY DEF SeatPairs
<1> QED
  BY <1>1 DEF SeatTotal
----------------------------------------------------------------------------
IInv == LedgerTypeOK /\ Conserved /\ NeverOversold

\* Claimed is a natural number of seats, whichever claims it counts.
LEMMA ClaimedType == \A C \in SUBSET Claims : \A s : Claimed(C, s) \in Nat
BY ClaimedIsTotal, SeatsFinite

LEMMA LiveAreClaims == LiveClaims \in SUBSET Claims
BY DEF LiveClaims

LEMMA InitIInv == Init => IInv
<1> SUFFICES ASSUME Init PROVE IInv
  OBVIOUS
<1>0. \A s \in counted : free[s] = initial[s] /\ initial[s] \in Nat
  BY DEF Init, CapacitiesAssumption
<1>1. LedgerTypeOK
  <2>1. counted \subseteq Slots /\ initial \in [counted -> Int] /\ free \in [counted -> Int]
    BY <1>0 DEF Init
  <2>2. at \in [Claims -> Places] /\ size \in [Claims -> 0..MaxPax]
    BY DEF Init, Places, MaxPaxAssumption
  <2> QED
    BY <2>1, <2>2 DEF Init, LedgerTypeOK
<1>2. Conserved
  <2> SUFFICES ASSUME NEW s \in counted PROVE free[s] + Claimed(LiveClaims, s) = initial[s]
    BY DEF Conserved
  <2>1. SeatsOf(LiveClaims, s) = {}
    BY DEF Init, LiveClaims, SeatsOf
  <2>2. Claimed(LiveClaims, s) = 0
    BY <2>1, FS_EmptySet DEF Claimed
  <2> QED
    BY <1>0, <2>2
<1>3. NeverOversold
  BY <1>0 DEF NeverOversold
<1> QED
  BY <1>1, <1>2, <1>3 DEF IInv

\* A set of claims that loses some and gains another: what it claims of s is
\* what the ones it keeps claim and what the new one does.
LEMMA Regrouped ==
  ASSUME LedgerTypeOK, NEW C \in SUBSET LiveClaims, NEW c \in Claims, c \notin LiveClaims \ C,
         at' \in [Claims -> Places], size' \in [Claims -> 0..MaxPax],
         \A b \in Claims \ {c} : at'[b] = at[b] /\ size'[b] = size[b],
         LiveClaims' = (LiveClaims \ C) \cup {c},
         NEW s
  PROVE  Claimed(LiveClaims, s)' =
           Claimed(LiveClaims, s) - Claimed(C, s) + IF at'[c] = s THEN size'[c] ELSE 0
<1> DEFINE K == LiveClaims \ C
<1>1. K \in SUBSET Claims /\ C \in SUBSET Claims /\ {c} \in SUBSET Claims
  BY LiveAreClaims
<1>2. Claimed(LiveClaims, s)' = SeatTotal(at', size', K \cup {c}, s)
  BY ClaimedIsTotal DEF Claimed, SeatsOf, SeatTotal, SeatPairs
<1>3. K \cap {c} = {}
  OBVIOUS
<1>4. SeatTotal(at', size', K \cup {c}, s)
        = SeatTotal(at', size', K, s) + SeatTotal(at', size', {c}, s)
  BY <1>1, <1>3, SeatsAdd
<1>5. SeatTotal(at', size', {c}, s) = IF at'[c] = s THEN size'[c] ELSE 0
  BY SeatsOfOne
<1>6. SeatTotal(at', size', K, s) = SeatTotal(at, size, K, s)
  <2>1. \A b \in K : at'[b] = at[b] /\ size'[b] = size[b]
    BY <1>1, <1>3
  <2> QED
    BY <2>1, SeatsFrame
<1>7. SeatTotal(at, size, K \cup C, s) = SeatTotal(at, size, K, s) + SeatTotal(at, size, C, s)
  BY <1>1, SeatsAdd
<1>8. K \cup C = LiveClaims
  OBVIOUS
<1>9. SeatTotal(at, size, K, s) \in Nat /\ SeatTotal(at, size, C, s) \in Nat
  BY <1>1, SeatsFinite
<1>10. Claimed(LiveClaims, s) = SeatTotal(at, size, K, s) + SeatTotal(at, size, C, s)
  BY <1>7, <1>8, ClaimedIsTotal
<1>11. Claimed(C, s) = SeatTotal(at, size, C, s)
  BY ClaimedIsTotal
<1>12. (IF at'[c] = s THEN size'[c] ELSE 0) \in Nat
  OBVIOUS
<1> QED
  BY <1>2, <1>4, <1>5, <1>6, <1>9, <1>10, <1>11, <1>12

LEMMA GiveBackIInv ==
  ASSUME IInv, NEW C \in SUBSET Claims, GiveBack(C)
  PROVE  IInv'
<1>1. \A s : Claimed(C, s) \in Nat
  BY ClaimedType
<1>2. LedgerTypeOK'
  BY <1>1 DEF IInv, LedgerTypeOK, GiveBack
<1>3. Conserved'
  <2> SUFFICES ASSUME NEW s \in counted PROVE (free[s] + Claimed(LiveClaims, s) = initial[s])'
    BY DEF Conserved, GiveBack
  <2> DEFINE K == LiveClaims \ C
  <2>1. K \in SUBSET Claims /\ K \cap C = {} /\ K \cup C = LiveClaims
    BY LiveAreClaims DEF GiveBack
  <2>2. LiveClaims' = K
    BY DEF LiveClaims, GiveBack, IInv, LedgerTypeOK
  <2>3. Claimed(LiveClaims, s)' = SeatTotal(at, size, K, s)
    BY <2>2 DEF Claimed, SeatsOf, SeatTotal, SeatPairs, GiveBack
  <2>4. SeatTotal(at, size, LiveClaims, s) = SeatTotal(at, size, K, s) + SeatTotal(at, size, C, s)
    BY <2>1, SeatsAdd
  <2>5. SeatTotal(at, size, K, s) \in Nat /\ SeatTotal(at, size, C, s) \in Nat
    BY <2>1, SeatsFinite
  <2>6. free'[s] = free[s] + SeatTotal(at, size, C, s) /\ initial'[s] = initial[s]
    BY ClaimedIsTotal DEF GiveBack
  <2>7. free[s] + SeatTotal(at, size, LiveClaims, s) = initial[s]
    BY ClaimedIsTotal DEF IInv, Conserved
  <2>8. free[s] \in Int /\ initial[s] \in Int
    BY DEF IInv, LedgerTypeOK
  <2> QED
    BY <2>3, <2>4, <2>5, <2>6, <2>7, <2>8
<1>4. NeverOversold'
  BY <1>1 DEF IInv, LedgerTypeOK, NeverOversold, GiveBack
<1> QED
  BY <1>2, <1>3, <1>4 DEF IInv

LEMMA ExchangeIInv ==
  ASSUME IInv, NEW C \in SUBSET Claims, NEW c \in Claims, NEW p \in Slots, NEW n \in 1..MaxPax,
         Exchange(C, c, p, n)
  PROVE  IInv'
<1>1. \A s : Claimed(C, s) \in Nat
  BY ClaimedType
<1>2. LedgerTypeOK'
  <2>1. free' \in [counted' -> Int]
    BY <1>1 DEF IInv, LedgerTypeOK, Exchange
  <2>2. at' \in [Claims -> Places] /\ size' \in [Claims -> 0..MaxPax]
    BY DEF IInv, LedgerTypeOK, Exchange, Places
  <2>3. phase' \in [Claims -> {"unused", "live", "settled"}] /\ counted' \subseteq Slots /\ initial' \in [counted' -> Int]
    BY DEF IInv, LedgerTypeOK, Exchange
  <2> QED
    BY <2>1, <2>2, <2>3 DEF LedgerTypeOK
<1>3. Conserved'
  <2> SUFFICES ASSUME NEW s \in counted PROVE (free[s] + Claimed(LiveClaims, s) = initial[s])'
    BY DEF Conserved, Exchange
  <2>1. LiveClaims' = (LiveClaims \ C) \cup {c}
    BY DEF LiveClaims, Exchange, IInv, LedgerTypeOK
  <2>2. c \notin LiveClaims \ C /\ C \in SUBSET LiveClaims
    BY DEF LiveClaims, Exchange
  <2>3. \A b \in Claims \ {c} : at'[b] = at[b] /\ size'[b] = size[b]
    BY DEF Exchange, IInv, LedgerTypeOK
  <2>4. at'[c] = p /\ size'[c] = n
    BY DEF Exchange, IInv, LedgerTypeOK
  <2>5. Claimed(LiveClaims, s)' = Claimed(LiveClaims, s) - Claimed(C, s) + IF p = s THEN n ELSE 0
    <3>1. LedgerTypeOK /\ at' \in [Claims -> Places] /\ size' \in [Claims -> 0..MaxPax]
      BY <1>2 DEF IInv, LedgerTypeOK
    <3>2. Claimed(LiveClaims, s)'
            = Claimed(LiveClaims, s) - Claimed(C, s) + IF at'[c] = s THEN size'[c] ELSE 0
      BY <2>1, <2>2, <2>3, <3>1, Regrouped
    <3> QED
      BY <2>4, <3>2
  <2>6. free'[s] = free[s] + Claimed(C, s) - (IF s = p THEN n ELSE 0) /\ initial'[s] = initial[s]
    BY DEF Exchange
  <2>7. free[s] + Claimed(LiveClaims, s) = initial[s] /\ free[s] \in Int
    BY DEF IInv, Conserved, LedgerTypeOK
  <2>8. Claimed(LiveClaims, s) \in Nat /\ Claimed(C, s) \in Nat
    BY ClaimedType, LiveAreClaims
  <2> QED
    BY <2>5, <2>6, <2>7, <2>8
<1>4. NeverOversold'
  BY <1>1 DEF IInv, LedgerTypeOK, NeverOversold, Exchange
<1> QED
  BY <1>2, <1>3, <1>4 DEF IInv

LEMMA HandOverIInv ==
  ASSUME IInv, NEW C \in SUBSET Claims, NEW h \in Claims, NEW c \in Claims, HandOver(C, h, c)
  PROVE  IInv'
<1> DEFINE D == C \ {h}
<1>1. D \in SUBSET Claims /\ {h} \in SUBSET Claims
  OBVIOUS
<1>2. \A s : Claimed(D, s) \in Nat
  BY <1>1, ClaimedType
<1>3. LedgerTypeOK'
  <2>1. free' \in [counted' -> Int]
    <3>1. free' = [t \in counted |-> free[t] + Claimed(D, t)] /\ counted' = counted
      BY DEF HandOver
    <3>2. \A t \in counted : free[t] \in Int
      BY DEF IInv, LedgerTypeOK
    <3> HIDE DEF D
    <3> QED
      BY <1>2, <3>1, <3>2
  <2>2. at' \in [Claims -> Places] /\ size' \in [Claims -> 0..MaxPax]
    BY DEF IInv, LedgerTypeOK, HandOver
  <2>3. phase' \in [Claims -> {"unused", "live", "settled"}] /\ counted' \subseteq Slots /\ initial' \in [counted' -> Int]
    BY DEF IInv, LedgerTypeOK, HandOver
  <2> QED
    BY <2>1, <2>2, <2>3 DEF LedgerTypeOK
<1>4. Conserved'
  <2> SUFFICES ASSUME NEW s \in counted PROVE (free[s] + Claimed(LiveClaims, s) = initial[s])'
    BY DEF Conserved, HandOver
  <2>1. LiveClaims' = (LiveClaims \ C) \cup {c}
    BY DEF LiveClaims, HandOver, IInv, LedgerTypeOK
  <2>2. c \notin LiveClaims \ C /\ C \in SUBSET LiveClaims
    BY DEF LiveClaims, HandOver
  <2>3. \A b \in Claims \ {c} : at'[b] = at[b] /\ size'[b] = size[b]
    BY DEF HandOver, IInv, LedgerTypeOK
  <2>4. at'[c] = at[h] /\ size'[c] = size[h]
    BY DEF HandOver, IInv, LedgerTypeOK
  <2>5. Claimed(LiveClaims, s)'
          = Claimed(LiveClaims, s) - Claimed(C, s) + IF at[h] = s THEN size[h] ELSE 0
    <3>1. LedgerTypeOK /\ at' \in [Claims -> Places] /\ size' \in [Claims -> 0..MaxPax]
      BY <1>3 DEF IInv, LedgerTypeOK
    <3>2. Claimed(LiveClaims, s)'
            = Claimed(LiveClaims, s) - Claimed(C, s) + IF at'[c] = s THEN size'[c] ELSE 0
      BY <2>1, <2>2, <2>3, <3>1, Regrouped
    <3> QED
      BY <2>4, <3>2
  <2>6. Claimed(C, s) = Claimed(D, s) + IF at[h] = s THEN size[h] ELSE 0
    <3>1. D \cup {h} = C /\ D \cap {h} = {}
      BY DEF HandOver
    <3>2. SeatTotal(at, size, C, s) = SeatTotal(at, size, D, s) + SeatTotal(at, size, {h}, s)
      BY <1>1, <3>1, SeatsAdd
    <3>3. SeatTotal(at, size, {h}, s) = IF at[h] = s THEN size[h] ELSE 0
      BY SeatsOfOne DEF IInv, LedgerTypeOK
    <3> QED
      BY <3>2, <3>3, ClaimedIsTotal
  <2>7. free'[s] = free[s] + Claimed(D, s) /\ initial'[s] = initial[s]
    BY DEF HandOver
  <2>8. free[s] + Claimed(LiveClaims, s) = initial[s] /\ free[s] \in Int /\ size[h] \in Nat
    BY DEF IInv, Conserved, LedgerTypeOK
  <2>9. Claimed(LiveClaims, s) \in Nat /\ Claimed(D, s) \in Nat
    BY <1>2, ClaimedType, LiveAreClaims
  <2> QED
    BY <2>5, <2>6, <2>7, <2>8, <2>9
<1>5. NeverOversold'
  <2> SUFFICES ASSUME NEW s \in counted PROVE free'[s] >= 0
    BY DEF NeverOversold, HandOver
  <2>1. free'[s] = free[s] + Claimed(D, s) /\ free[s] \in Int /\ free[s] >= 0
    BY DEF HandOver, IInv, LedgerTypeOK, NeverOversold
  <2> QED
    BY <1>2, <2>1
<1> QED
  BY <1>3, <1>4, <1>5 DEF IInv

LEMMA ResizeIInv ==
  ASSUME IInv, NEW c \in Claims, NEW n \in 1..MaxPax, Resize(c, n)
  PROVE  IInv'
<1>1. c \in LiveClaims /\ size[c] \in 0..MaxPax /\ n \in Nat
  BY DEF Resize, LiveClaims, IInv, LedgerTypeOK
<1>2. LedgerTypeOK'
  <2>1. free' \in [counted' -> Int]
    BY <1>1 DEF IInv, LedgerTypeOK, Resize
  <2>2. size' \in [Claims -> 0..MaxPax]
    BY DEF IInv, LedgerTypeOK, Resize
  <2> QED
    BY <2>1, <2>2 DEF IInv, LedgerTypeOK, Resize
<1>3. Conserved'
  <2> SUFFICES ASSUME NEW s \in counted PROVE (free[s] + Claimed(LiveClaims, s) = initial[s])'
    BY DEF Conserved, Resize
  <2>1. LiveClaims' = (LiveClaims \ {c}) \cup {c} /\ {c} \in SUBSET LiveClaims
    BY <1>1 DEF LiveClaims, Resize
  <2>2. \A b \in Claims \ {c} : at'[b] = at[b] /\ size'[b] = size[b]
    BY DEF Resize, IInv, LedgerTypeOK
  <2>3. at'[c] = at[c] /\ size'[c] = n
    BY DEF Resize, IInv, LedgerTypeOK
  <2>4. Claimed(LiveClaims, s)'
          = Claimed(LiveClaims, s) - Claimed({c}, s) + IF at[c] = s THEN n ELSE 0
    <3>1. LedgerTypeOK /\ at' \in [Claims -> Places] /\ size' \in [Claims -> 0..MaxPax]
      BY <1>2 DEF IInv, LedgerTypeOK
    <3>2. c \notin LiveClaims \ {c}
      OBVIOUS
    <3> QED
      <4>1. Claimed(LiveClaims, s)'
              = Claimed(LiveClaims, s) - Claimed({c}, s) + IF at'[c] = s THEN size'[c] ELSE 0
        BY <2>1, <2>2, <3>1, <3>2, Regrouped
      <4> QED
        BY <2>3, <4>1
  <2>5. Claimed({c}, s) = IF at[c] = s THEN size[c] ELSE 0
    BY ClaimedIsTotal, SeatsOfOne DEF IInv, LedgerTypeOK
  <2>6. free'[s] = free[s] - (IF s = at[c] THEN n - size[c] ELSE 0) /\ initial'[s] = initial[s]
    BY DEF Resize
  <2>7. free[s] + Claimed(LiveClaims, s) = initial[s] /\ free[s] \in Int
    BY DEF IInv, Conserved, LedgerTypeOK
  <2>8. Claimed(LiveClaims, s) \in Nat
    BY ClaimedType, LiveAreClaims
  <2> QED
    BY <1>1, <2>4, <2>5, <2>6, <2>7, <2>8
<1>4. NeverOversold'
  <2> SUFFICES ASSUME NEW s \in counted PROVE free'[s] >= 0
    BY DEF NeverOversold, Resize
  <2>1. /\ free'[s] = free[s] - IF s = at[c] THEN n - size[c] ELSE 0
        /\ s = at[c] => n - size[c] <= free[s]
        /\ free[s] \in Int /\ free[s] >= 0
    BY DEF Resize, IInv, LedgerTypeOK, NeverOversold
  <2> QED
    BY <1>1, <2>1
<1> QED
  BY <1>2, <1>3, <1>4 DEF IInv

LEMMA RecapacitateIInv ==
  ASSUME IInv, NEW r \in Slots, NEW n \in Capacities, Recapacitate(r, n)
  PROVE  IInv'
<1>1. n \in Nat
  BY DEF CapacitiesAssumption
<1>2. LedgerTypeOK'
  BY <1>1 DEF IInv, LedgerTypeOK, Recapacitate
<1>3. \A s \in counted : /\ free'[s] = free[s] + IF s = r THEN n - initial[s] ELSE 0
                       /\ initial'[s] = IF s = r THEN n ELSE initial[s]
  BY <1>1 DEF IInv, LedgerTypeOK, Recapacitate
<1>4. Conserved'
  <2> SUFFICES ASSUME NEW s \in counted PROVE (free[s] + Claimed(LiveClaims, s) = initial[s])'
    BY DEF Conserved, Recapacitate
  <2>1. Claimed(LiveClaims, s)' = Claimed(LiveClaims, s)
    BY DEF Claimed, SeatsOf, LiveClaims, Recapacitate
  <2>2. free[s] + Claimed(LiveClaims, s) = initial[s] /\ free[s] \in Int /\ initial[s] \in Int
    BY DEF IInv, Conserved, LedgerTypeOK
  <2>3. Claimed(LiveClaims, s) \in Nat
    BY ClaimedType, LiveAreClaims
  <2> QED
    BY <1>1, <1>3, <2>1, <2>2, <2>3
<1>5. NeverOversold'
  BY <1>1, <1>3 DEF IInv, LedgerTypeOK, NeverOversold, Recapacitate
<1> QED
  BY <1>2, <1>4, <1>5 DEF IInv

LEMMA WriteOffIInv ==
  ASSUME IInv, NEW C \in SUBSET Claims, NEW r \in Slots, WriteOff(C, r)
  PROVE  IInv'
<1>1. counted' = counted \ {r} /\ \A s \in counted' : free'[s] = free[s] /\ initial'[s] = initial[s]
  BY DEF WriteOff
<1>2. LedgerTypeOK'
  BY DEF IInv, LedgerTypeOK, WriteOff
<1>3. Conserved'
  <2> SUFFICES ASSUME NEW s \in counted' PROVE (free[s] + Claimed(LiveClaims, s) = initial[s])'
    BY DEF Conserved
  <2>1. \A c \in C : at[c] # s
    BY <1>1 DEF WriteOff
  <2>2. LiveClaims' = LiveClaims \ C
    BY DEF LiveClaims, WriteOff, IInv, LedgerTypeOK
  <2>3. Claimed(LiveClaims, s)' = SeatTotal(at, size, LiveClaims \ C, s)
    BY <2>2 DEF Claimed, SeatsOf, SeatTotal, SeatPairs, WriteOff
  <2>4. SeatPairs(at, size, LiveClaims \ C, s) = SeatPairs(at, size, LiveClaims, s)
    BY <2>1 DEF SeatPairs
  <2>5. Claimed(LiveClaims, s)' = Claimed(LiveClaims, s)
    BY <2>3, <2>4, ClaimedIsTotal DEF SeatTotal
  <2>6. free[s] + Claimed(LiveClaims, s) = initial[s]
    BY <1>1 DEF IInv, Conserved
  <2> QED
    BY <1>1, <2>5, <2>6
<1>4. NeverOversold'
  BY <1>1 DEF IInv, NeverOversold
<1> QED
  BY <1>2, <1>3, <1>4 DEF IInv

LEMMA StepIInv == IInv /\ [Next]_ledger => IInv'
<1> SUFFICES ASSUME IInv, [Next]_ledger PROVE IInv'
  OBVIOUS
<1>1. ASSUME NEW C \in SUBSET Claims, GiveBack(C) PROVE IInv'
  BY <1>1, GiveBackIInv
<1>2. ASSUME NEW C \in SUBSET Claims, NEW c \in Claims, NEW s \in Slots, NEW n \in 1..MaxPax,
             Exchange(C, c, s, n)
      PROVE  IInv'
  BY <1>2, ExchangeIInv
<1>3. ASSUME NEW C \in SUBSET Claims, NEW h \in Claims, NEW c \in Claims, HandOver(C, h, c)
      PROVE  IInv'
  BY <1>3, HandOverIInv
<1>4. ASSUME NEW c \in Claims, NEW n \in 1..MaxPax, Resize(c, n) PROVE IInv'
  BY <1>4, ResizeIInv
<1>5. ASSUME NEW s \in Slots, NEW n \in Capacities, Recapacitate(s, n) PROVE IInv'
  BY <1>5, RecapacitateIInv
<1>6. ASSUME NEW C \in SUBSET Claims, NEW s \in Slots, WriteOff(C, s) PROVE IInv'
  BY <1>6, WriteOffIInv
<1>7. CASE UNCHANGED ledger
  BY <1>7 DEF ledger, IInv, LedgerTypeOK, Conserved, NeverOversold, Claimed, SeatsOf, LiveClaims
<1>8. \A C \in SUBSET LiveClaims : C \in SUBSET Claims
  BY LiveAreClaims
<1> QED
  BY <1>1, <1>2, <1>3, <1>4, <1>5, <1>6, <1>7, <1>8 DEF Next

\* The ledger's state is well typed: no claim is ever larger than a party.
THEOREM LedgerTypeCorrect == Spec => []LedgerTypeOK
<1>1. IInv => LedgerTypeOK
  BY DEF IInv
<1> QED
  BY <1>1, InitIInv, StepIInv, PTL DEF Spec

\* Placing, resizing, releasing, converting and cancelling never mint or lose
\* a seat: what is free and what live claims hold add up to the capacity of
\* every departure that is not written off.
THEOREM SeatsAreConserved == Spec => []Conserved
<1>1. IInv => Conserved
  BY DEF IInv
<1> QED
  BY <1>1, InitIInv, StepIInv, PTL DEF Spec

\* No departure in the books has fewer than no seats left, whatever is claimed
\* of it and whatever its operator makes of its capacity.
THEOREM NothingIsOversold == Spec => []NeverOversold
<1>1. IInv => NeverOversold
  BY DEF IInv
<1> QED
  BY <1>1, InitIInv, StepIInv, PTL DEF Spec
============================================================================
