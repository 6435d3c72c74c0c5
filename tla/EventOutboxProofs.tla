------------------------- MODULE EventOutboxProofs -------------------------
(***************************************************************************)
(* Proofs about EventOutbox, for any number of events, subscribers,        *)
(* requests and drains and any limit on attempts: its type invariant; that *)
(* a delivered row has been handled by every subscriber, and no other row  *)
(* is pruned; that a capture has one emit to deliver it; how far attempts  *)
(* pass their limit; and that every step is a step of the contract         *)
(* DurableDelivery or leaves it alone.                                     *)
(***************************************************************************)
EXTENDS EventOutbox, FiniteSetTheorems, TLAPS

\* A run belongs to a row that exists: retention waits for runs to end.
RunsHaveRows ==
  /\ \A w \in Workers, e \in Events : Running(w, e) => status[e] # "absent"
  /\ \A e \in Events, s \in Subscribers : <<e, s>> \in detached => status[e] # "absent"

\* As long as a delivery has seen no failure, whoever returned has handled.
VerdictsAreEarned ==
  \A w \in Workers, e \in Events :
    Running(w, e) /\ ~job[w][e].failed => Subscribers \ job[w][e].todo \subseteq handled[e]

IInv == TypeOK /\ DeliveredMeansHandled /\ RunsHaveRows /\ VerdictsAreEarned

USE MaxAttemptsAssumption, BatchLimitAssumption, MaxFaultsAssumption, WorkersDistinct

LEMMA JobShapes == NoJob \in Job /\ NewJob \in Job
BY DEF NoJob, NewJob, Job

LEMMA InitIInv == Init => IInv
<1> SUFFICES ASSUME Init PROVE IInv
  OBVIOUS
<1>1. \A w \in Workers, e \in Events : job[w][e] = NoJob
  BY DEF Init
<1>2. TypeOK
  <2>1. job \in [Workers -> [Events -> Job]]
    BY JobShapes DEF Init
  <2>2. \A r \in Requests, e \in Events : job[r][e].stage # "announcing"
    BY <1>1 DEF NoJob, Workers
  <2> QED
    BY <2>1, <2>2 DEF Init, TypeOK, Statuses
<1>3. DeliveredMeansHandled
  BY DEF Init, DeliveredMeansHandled
<1>4. RunsHaveRows /\ VerdictsAreEarned
  BY <1>1 DEF Init, RunsHaveRows, VerdictsAreEarned, Running, NoJob
<1> QED
  BY <1>2, <1>3, <1>4 DEF IInv

\* The type invariant is inductive on its own.
LEMMA StepTypeOK == TypeOK /\ [Next]_vars => TypeOK'
<1> SUFFICES ASSUME TypeOK, [Next]_vars PROVE TypeOK'
  OBVIOUS
<1> USE JobShapes DEF TypeOK, Statuses
<1>1. ASSUME NEW e \in Events, CaptureInTransaction(e) PROVE TypeOK'
  BY <1>1 DEF CaptureInTransaction, InsertRow
<1>2. ASSUME NEW r \in Requests, NEW e \in Events, EmitDurably(r, e) PROVE TypeOK'
  BY <1>2 DEF EmitDurably, InsertRow, Workers, NewJob
<1>3. ASSUME NEW w \in Workers, NEW e \in Events, NEW s \in Subscribers,
             HandlerSucceeds(w, e, s)
      PROVE  TypeOK'
  <2>1. job[w][e] \in Job /\ job[w][e].stage = "running"
    BY <1>3 DEF HandlerSucceeds, Running, Workers
  <2>2. PICK run : run = [job[w][e] EXCEPT !.todo = @ \ {s}]
    OBVIOUS
  <2>3. run \in Job /\ run.stage = "running"
    BY <2>1, <2>2 DEF Job
  <2>4. job' = [job EXCEPT ![w] = [job[w] EXCEPT ![e] = run]]
    BY <1>3, <2>2 DEF HandlerSucceeds
  <2>5. job' \in [Workers -> [Events -> Job]]
    BY <2>3, <2>4
  <2>6. \A r \in Requests, f \in Events : job'[r][f].stage # "announcing"
    BY <2>3, <2>4 DEF Workers
  <2> QED
    BY <1>3, <2>5, <2>6 DEF HandlerSucceeds
<1>4. ASSUME NEW w \in Workers, NEW e \in Events, NEW s \in Subscribers, NEW p \in BOOLEAN,
             HandlerThrows(w, e, s, p)
      PROVE  TypeOK'
  <2>1. AfterFailure(job[w][e], s, p) \in Job /\ AfterFailure(job[w][e], s, p).stage = "running"
    BY <1>4 DEF HandlerThrows, Running, Job, AfterFailure
  <2> QED
    BY <1>4, <2>1 DEF HandlerThrows, Running, Workers
<1>5. ASSUME NEW w \in Workers, NEW e \in Events, NEW s \in Subscribers,
             HandlerTimesOut(w, e, s)
      PROVE  TypeOK'
  <2>1. AfterFailure(job[w][e], s, FALSE) \in Job
        /\ AfterFailure(job[w][e], s, FALSE).stage = "running"
    BY <1>5 DEF HandlerTimesOut, Running, Job, AfterFailure
  <2>2. detached' \in SUBSET (Events \X Subscribers)
    BY <1>5 DEF HandlerTimesOut
  <2>3. job' \in [Workers -> [Events -> Job]]
    BY <1>5, <2>1 DEF HandlerTimesOut
  <2>4. \A r \in Requests, f \in Events : job'[r][f].stage # "announcing"
    BY <1>5, <2>1 DEF HandlerTimesOut, Workers
  <2> QED
    BY <1>5, <2>2, <2>3, <2>4 DEF HandlerTimesOut
<1>6. ASSUME NEW e \in Events, NEW s \in Subscribers, NEW ok \in BOOLEAN,
             DetachedEnds(e, s, ok)
      PROVE  TypeOK'
  BY <1>6 DEF DetachedEnds
<1>7. ASSUME NEW w \in Workers, NEW e \in Events, SettleSuccess(w, e) PROVE TypeOK'
  BY <1>7 DEF SettleSuccess, CompleteRow, Workers, NoJob
<1>8. ASSUME NEW r \in Requests, NEW e \in Events, SettleEmitFailure(r, e) PROVE TypeOK'
  BY <1>8 DEF SettleEmitFailure, FailRow, Workers, NoJob
<1>9. ASSUME NEW d \in Drains, NEW e \in Events, SettleDrainFailure(d, e) PROVE TypeOK'
  BY <1>9 DEF SettleDrainFailure, FailRow, Workers, NoJob, Job
<1>10. ASSUME NEW d \in Drains, NEW e \in Events, Announce(d, e) PROVE TypeOK'
  BY <1>10 DEF Announce, Workers, NoJob
<1>11. ASSUME NEW d \in Drains, NEW batch \in SUBSET Events, Claim(d, batch) PROVE TypeOK'
  BY <1>11 DEF Claim, Workers, NewJob
<1>12. ASSUME NEW e \in Events, BecomesDue(e) PROVE TypeOK'
  BY <1>12 DEF BecomesDue
<1>13. ASSUME NEW e \in Events, Prune(e) PROVE TypeOK'
  BY <1>13 DEF Prune
<1>14. ASSUME NEW w \in Workers, Crash(w) PROVE TypeOK'
  BY <1>14 DEF Crash, Workers, NoJob
<1>15. ASSUME NEW w \in Workers, NEW e \in Events, LoseSettlement(w, e) PROVE TypeOK'
  BY <1>15 DEF LoseSettlement, Workers, NoJob
<1>16. CASE UNCHANGED vars
  BY <1>16 DEF vars
<1> QED
  BY <1>1, <1>2, <1>3, <1>4, <1>5, <1>6, <1>7, <1>8, <1>9, <1>10, <1>11, <1>12, <1>13,
     <1>14, <1>15, <1>16
  DEF Next, ClaimOf, HandlerReturns, RequestSettles, DrainSettles, Workers

THEOREM TypeCorrect == Spec => []TypeOK
<1>1. Init => TypeOK
  BY InitIInv DEF IInv
<1> QED
  BY <1>1, StepTypeOK, PTL DEF Spec

\* What one step does to the parts of the state the invariant speaks of.
LEMMA StepIInv == IInv /\ [Next]_vars => IInv'
<1> SUFFICES ASSUME IInv, [Next]_vars PROVE IInv'
  OBVIOUS
<1>0. TypeOK /\ TypeOK'
  BY StepTypeOK DEF IInv
<1> DEFINE Rest == DeliveredMeansHandled /\ RunsHaveRows /\ VerdictsAreEarned
<1> SUFFICES Rest'
  BY <1>0 DEF IInv
<1> USE <1>0 DEF IInv, TypeOK, DeliveredMeansHandled, RunsHaveRows, VerdictsAreEarned, Running
<1>1. ASSUME NEW e \in Events, CaptureInTransaction(e) PROVE Rest'
  BY <1>1 DEF CaptureInTransaction, InsertRow
<1>2. ASSUME NEW r \in Requests, NEW e \in Events, EmitDurably(r, e) PROVE Rest'
  BY <1>2 DEF EmitDurably, InsertRow, Workers, NewJob
<1>3. ASSUME NEW w \in Workers, NEW e \in Events, NEW s \in Subscribers,
             HandlerSucceeds(w, e, s)
      PROVE  Rest'
  BY <1>3 DEF HandlerSucceeds, Job
<1>4. ASSUME NEW w \in Workers, NEW e \in Events, NEW s \in Subscribers, NEW p \in BOOLEAN,
             HandlerThrows(w, e, s, p)
      PROVE  Rest'
  BY <1>4 DEF HandlerThrows, AfterFailure
<1>5. ASSUME NEW w \in Workers, NEW e \in Events, NEW s \in Subscribers,
             HandlerTimesOut(w, e, s)
      PROVE  Rest'
  <2>1. UNCHANGED <<status, handled>> /\ status[e] # "absent" /\ detached' = detached \cup {<<e, s>>}
    BY <1>5 DEF HandlerTimesOut
  <2>2. \A v \in Workers, f \in Events :
           /\ Running(v, f)' => Running(v, f)
           /\ ~(job[v][f].failed)' => job'[v][f] = job[v][f]
    BY <1>5 DEF HandlerTimesOut, AfterFailure
  <2> QED
    BY <2>1, <2>2
<1>6. ASSUME NEW e \in Events, NEW s \in Subscribers, NEW ok \in BOOLEAN,
             DetachedEnds(e, s, ok)
      PROVE  Rest'
  <2>1. UNCHANGED <<status, job>> /\ detached' \subseteq detached
    BY <1>6 DEF DetachedEnds
  <2>2. \A f \in Events : handled[f] \subseteq handled'[f] /\ handled'[f] \subseteq Subscribers
    BY <1>6 DEF DetachedEnds
  <2>3. DeliveredMeansHandled'
    BY <2>1, <2>2
  <2>4. RunsHaveRows'
    BY <2>1
  <2>5. VerdictsAreEarned'
    BY <2>1, <2>2
  <2> QED
    BY <2>3, <2>4, <2>5
<1>7. ASSUME NEW w \in Workers, NEW e \in Events, SettleSuccess(w, e) PROVE Rest'
  <2>1. /\ UNCHANGED <<detached, handled>> /\ status[e] # "absent"
        /\ status' = [status EXCEPT ![e] = "delivered"]
    BY <1>7 DEF SettleSuccess, Settling, CompleteRow
  <2>2. handled[e] = Subscribers
    <3>1. Subscribers \ {} \subseteq handled[e]
      BY <1>7 DEF SettleSuccess, Settling
    <3>2. handled[e] \subseteq Subscribers
      OBVIOUS
    <3> QED
      BY <3>1, <3>2
  <2>3. \A v \in Workers, f \in Events : Running(v, f)' => job'[v][f] = job[v][f]
    BY <1>7 DEF SettleSuccess, NoJob
  <2>4. DeliveredMeansHandled'
    BY <2>1, <2>2
  <2>5. RunsHaveRows' /\ VerdictsAreEarned'
    BY <2>1, <2>3
  <2> QED
    BY <2>4, <2>5
<1>8. ASSUME NEW r \in Requests, NEW e \in Events, SettleEmitFailure(r, e) PROVE Rest'
  BY <1>8 DEF SettleEmitFailure, Settling, FailRow, Workers, NoJob
<1>9. ASSUME NEW d \in Drains, NEW e \in Events, SettleDrainFailure(d, e) PROVE Rest'
  <2>1. UNCHANGED <<detached, handled>> /\ status[e] # "absent"
    BY <1>9 DEF SettleDrainFailure, Settling, Workers
  <2>2. \A f \in Events : status'[f] \in {status[f], "failed"}
    <3>1. \/ status' = [status EXCEPT ![e] = "failed"]
          \/ status' = status
      BY <1>9 DEF SettleDrainFailure, FailRow
    <3> QED
      BY <3>1
  <2>3. \A v \in Workers, f \in Events : Running(v, f)' => job'[v][f] = job[v][f]
    BY <1>9 DEF SettleDrainFailure, NoJob, Workers
  <2>4. DeliveredMeansHandled'
    BY <2>1, <2>2
  <2>5. RunsHaveRows'
    BY <2>1, <2>2, <2>3
  <2>6. VerdictsAreEarned'
    BY <2>1, <2>3
  <2> QED
    BY <2>4, <2>5, <2>6
<1>10. ASSUME NEW d \in Drains, NEW e \in Events, Announce(d, e) PROVE Rest'
  BY <1>10 DEF Announce, Workers, NoJob
<1>11. ASSUME NEW d \in Drains, NEW batch \in SUBSET Events, Claim(d, batch) PROVE Rest'
  BY <1>11 DEF Claim, Workers, NewJob
<1>12. ASSUME NEW e \in Events, BecomesDue(e) PROVE Rest'
  BY <1>12 DEF BecomesDue
<1>13. ASSUME NEW e \in Events, Prune(e) PROVE Rest'
  BY <1>13 DEF Prune
<1>14. ASSUME NEW w \in Workers, Crash(w) PROVE Rest'
  BY <1>14 DEF Crash, NoJob
<1>15. ASSUME NEW w \in Workers, NEW e \in Events, LoseSettlement(w, e) PROVE Rest'
  BY <1>15 DEF LoseSettlement, NoJob
<1>16. CASE UNCHANGED vars
  BY <1>16 DEF vars
<1> HIDE DEF Rest
<1> QED
  BY <1>1, <1>2, <1>3, <1>4, <1>5, <1>6, <1>7, <1>8, <1>9, <1>10, <1>11, <1>12, <1>13,
     <1>14, <1>15, <1>16
  DEF Next, ClaimOf, HandlerReturns, RequestSettles, DrainSettles, Workers

\* At least once, for every instance: no interleaving of emits, drains, late
\* settlements, detached runs and deaths marks a row delivered that some
\* subscriber has not handled since it was captured.
THEOREM DeliveredIsHandled == Spec => []DeliveredMeansHandled
<1>1. IInv => DeliveredMeansHandled
  BY DEF IInv
<1> QED
  BY <1>1, InitIInv, StepIInv, PTL DEF Spec
----------------------------------------------------------------------------
(* Ownership of a capture *)

\* A handler that returns leaves every delivery at the stage it was at.
LEMMA RunsStay ==
  ASSUME TypeOK, NEW w \in Workers, NEW e \in Events, HandlerReturns(w, e)
  PROVE  \A v \in Workers, f \in Events : job'[v][f].stage = job[v][f].stage
<1> DEFINE Kept == \A v \in Workers, f \in Events : job'[v][f].stage = job[v][f].stage
<1>1. ASSUME NEW j, j.stage = job[w][e].stage, job' = [job EXCEPT ![w][e] = j] PROVE Kept
  BY <1>1 DEF Workers
<1>2. ASSUME NEW s \in Subscribers, HandlerSucceeds(w, e, s) PROVE Kept
  <2>1. job' = [job EXCEPT ![w][e] = [job[w][e] EXCEPT !.todo = @ \ {s}]]
    BY <1>2 DEF HandlerSucceeds
  <2>2. [job[w][e] EXCEPT !.todo = @ \ {s}].stage = job[w][e].stage
    BY DEF Job
  <2> QED
    BY <1>1, <2>1, <2>2
<1>3. ASSUME NEW s \in Subscribers, NEW p \in BOOLEAN, HandlerThrows(w, e, s, p) PROVE Kept
  <2>1. job' = [job EXCEPT ![w][e] = AfterFailure(job[w][e], s, p)]
    BY <1>3 DEF HandlerThrows
  <2> QED
    BY <1>1, <2>1 DEF AfterFailure
<1>4. ASSUME NEW s \in Subscribers, HandlerTimesOut(w, e, s) PROVE Kept
  <2>1. job' = [job EXCEPT ![w][e] = AfterFailure(job[w][e], s, FALSE)]
    BY <1>4 DEF HandlerTimesOut
  <2> QED
    BY <1>1, <2>1 DEF AfterFailure
<1> QED
  BY <1>2, <1>3, <1>4 DEF HandlerReturns

\* What a capture's owner is known by.
OwnerInv == IInv /\ SingleEmitOwner

\* An emit gets to deliver only what was not there, and nobody is at work on
\* what was not there.
LEMMA StepOwnerInv == OwnerInv /\ [Next]_vars => OwnerInv'
<1> SUFFICES ASSUME OwnerInv, [Next]_vars,
                    NEW f \in Events, NEW r1 \in Requests, NEW r2 \in Requests,
                    job'[r1][f].stage # "idle", job'[r2][f].stage # "idle"
             PROVE  r1 = r2
  BY StepIInv DEF OwnerInv, SingleEmitOwner
<1>0. TypeOK /\ RunsHaveRows
  BY DEF OwnerInv, IInv
<1>1. \A r \in Requests : job[r][f].stage # "idle" => status[f] # "absent"
  <2>1. ASSUME NEW r \in Requests, job[r][f].stage # "idle" PROVE Running(r, f)
    BY <1>0, <2>1 DEF TypeOK, Job, Workers, Running
  <2> QED
    BY <1>0, <2>1 DEF RunsHaveRows, Workers
<1>2. \/ \A r \in Requests : job'[r][f].stage # "idle" => job[r][f].stage # "idle"
      \/ \E q \in Requests : EmitDurably(q, f)
  <2> USE <1>0 DEF TypeOK, Running
  <2>1. ASSUME NEW e \in Events, NEW q \in Requests, EmitDurably(q, e), e # f
        PROVE  \A r \in Requests : job'[r][f] = job[r][f]
    BY <2>1 DEF EmitDurably, Workers
  <2>2. ASSUME NEW d \in Drains, NEW batch \in SUBSET Events, Claim(d, batch)
        PROVE  \A r \in Requests : job'[r][f] = job[r][f]
    BY <2>2, WorkersDistinct DEF Claim, Workers
  <2>3. ASSUME NEW w \in Workers, NEW e \in Events, HandlerReturns(w, e)
        PROVE  \A r \in Requests : job'[r][f].stage = job[r][f].stage
    BY <1>0, <2>3, RunsStay DEF Workers
  <2>4. ASSUME NEW w \in Workers, NEW e \in Events, LoseSettlement(w, e) \/ SettleSuccess(w, e)
        PROVE  \A r \in Requests : job'[r][f] \in {job[r][f], NoJob}
    <3>1. job' = [job EXCEPT ![w][e] = NoJob]
      BY <2>4 DEF LoseSettlement, SettleSuccess
    <3> QED
      BY <3>1 DEF Workers
  <2>5. ASSUME NEW r0 \in Requests, NEW e \in Events, SettleEmitFailure(r0, e)
        PROVE  \A r \in Requests : job'[r][f] \in {job[r][f], NoJob}
    BY <2>5 DEF SettleEmitFailure, Workers
  <2>6. ASSUME NEW d \in Drains, NEW e \in Events, SettleDrainFailure(d, e) \/ Announce(d, e)
        PROVE  \A r \in Requests : job'[r][f] = job[r][f]
    BY <2>6, WorkersDistinct DEF SettleDrainFailure, Announce, Workers
  <2>7. ASSUME NEW w \in Workers, Crash(w)
        PROVE  \A r \in Requests : job'[r][f] \in {job[r][f], NoJob}
    BY <2>7 DEF Crash, Workers
  <2>8. ASSUME NEW e \in Events,
               \/ CaptureInTransaction(e) \/ BecomesDue(e) \/ Prune(e) \/ UNCHANGED vars
               \/ \E s \in Subscribers, ok \in BOOLEAN : DetachedEnds(e, s, ok)
        PROVE  job' = job
    BY <2>8 DEF CaptureInTransaction, BecomesDue, Prune, vars, DetachedEnds
  <2>9. NoJob.stage = "idle"
    BY DEF NoJob
  <2> QED
    BY <2>1, <2>2, <2>3, <2>4, <2>5, <2>6, <2>7, <2>8, <2>9
    DEF Next, ClaimOf, RequestSettles, DrainSettles, Workers
<1>3. CASE \A r \in Requests : job'[r][f].stage # "idle" => job[r][f].stage # "idle"
  BY <1>3 DEF OwnerInv, SingleEmitOwner
<1>4. ASSUME NEW q \in Requests, EmitDurably(q, f) PROVE r1 = r2
  <2>1. \A r \in Requests : job[r][f].stage = "idle"
    BY <1>1, <1>4 DEF EmitDurably, InsertRow
  <2>2. \A r \in Requests \ {q} : job'[r][f] = job[r][f]
    BY <1>0, <1>4 DEF EmitDurably, TypeOK, Workers
  <2> QED
    BY <2>1, <2>2
<1> QED
  BY <1>2, <1>3, <1>4

\* However many requests emit one event id, one of them delivers it.
THEOREM CaptureHasOneOwner == Spec => []SingleEmitOwner
<1>1. Init => OwnerInv
  BY InitIInv DEF Init, OwnerInv, SingleEmitOwner, NoJob, Workers
<1>2. OwnerInv => SingleEmitOwner
  BY DEF OwnerInv
<1> QED
  BY <1>1, <1>2, StepOwnerInv, PTL DEF Spec
----------------------------------------------------------------------------
(* Claims past the limit *)

\* The bound needs nothing but the types.
OverrunInv == TypeOK /\ OverrunIsExplained

\* A row is claimed by finitely many drains at a time.
LEMMA ClaimsCount == \A e : IsFiniteSet(ClaimsInFlight(e)) /\ Cardinality(ClaimsInFlight(e)) \in Nat
<1> TAKE e
<1>1. ClaimsInFlight(e) \in SUBSET Drains
  BY DEF ClaimsInFlight
<1> QED
  BY <1>1, DrainsAssumption, FS_Subset, FS_CardinalityType

\* A delivery that is dropped without a settlement drops one claim of a row.
LEMMA DroppedClaim ==
  ASSUME NEW f \in Events, NEW w, ClaimsInFlight(f) \ {w} \subseteq ClaimsInFlight(f)'
  PROVE  Cardinality(ClaimsInFlight(f)) <= Cardinality(ClaimsInFlight(f)') + 1
<1> DEFINE old == ClaimsInFlight(f)
<1> DEFINE new == ClaimsInFlight(f)'
<1>1. IsFiniteSet(old) /\ Cardinality(old) \in Nat
  BY ClaimsCount
<1>2. IsFiniteSet(new)
  <2>1. new \in SUBSET Drains
    BY DEF ClaimsInFlight
  <2> QED
    BY <2>1, DrainsAssumption, FS_Subset
<1> HIDE DEF old, new
<1>3. Cardinality(old) <= Cardinality(old \ {w}) + 1
  BY <1>1, FS_RemoveElement
<1>4. Cardinality(old \ {w}) <= Cardinality(new) /\ Cardinality(old \ {w}) \in Nat
  <2>1. old \ {w} \in SUBSET new
    BY DEF old, new
  <2> QED
    BY <1>2, <2>1, FS_Subset, FS_CardinalityType
<1>5. Cardinality(new) \in Nat
  BY <1>2, FS_CardinalityType
<1> QED
  BY <1>1, <1>3, <1>4, <1>5 DEF old, new

\* A drain that claims a row it was not at work on adds one claim of it.
LEMMA AddedClaim ==
  ASSUME NEW f \in Events, NEW d, d \notin ClaimsInFlight(f),
         ClaimsInFlight(f)' = ClaimsInFlight(f) \cup {d}
  PROVE  Cardinality(ClaimsInFlight(f)') = Cardinality(ClaimsInFlight(f)) + 1
BY ClaimsCount, FS_AddElement

\* The bound is inductive: a claim adds one attempt and one delivery, a fault
\* ends a delivery and counts itself, and a settlement ends one of a row that is
\* then below the limit or not pending.
LEMMA StepOverrunInv == OverrunInv /\ [Next]_vars => OverrunInv'
<1> SUFFICES ASSUME OverrunInv, [Next]_vars, NEW f \in Events, status'[f] = "pending"
             PROVE  attempts'[f] < MaxAttempts + Cardinality(ClaimsInFlight(f)') + faults'
  BY StepTypeOK DEF OverrunInv, OverrunIsExplained
<1> DEFINE old == Cardinality(ClaimsInFlight(f))
<1> DEFINE new == Cardinality(ClaimsInFlight(f)')
<1> DEFINE Bounded == attempts'[f] < MaxAttempts + new + faults'
<1>t. TypeOK /\ TypeOK' /\ (status[f] = "pending" => attempts[f] < MaxAttempts + old + faults)
  BY StepTypeOK DEF OverrunInv, OverrunIsExplained
<1>n. /\ old \in Nat /\ new \in Nat /\ faults \in Nat /\ faults' \in Nat
      /\ attempts[f] \in Nat /\ attempts'[f] \in Nat
  <2>1. old \in Nat
    BY ClaimsCount
  <2>2. new \in Nat
    <3>1. ClaimsInFlight(f)' \in SUBSET Drains
      BY DEF ClaimsInFlight
    <3> QED
      BY <3>1, DrainsAssumption, FS_Subset, FS_CardinalityType
  <2> QED
    BY <1>t, <2>1, <2>2 DEF TypeOK
<1> HIDE DEF old, new
<1>below. ASSUME attempts'[f] < MaxAttempts PROVE Bounded
  BY <1>n, <1>below
<1>same. ASSUME status[f] = "pending", attempts'[f] = attempts[f], faults' = faults,
                ClaimsInFlight(f)' = ClaimsInFlight(f)
         PROVE  Bounded
  BY <1>t, <1>n, <1>same DEF old, new
<1>drop. ASSUME NEW w, status[f] = "pending", attempts'[f] = attempts[f], faults' = faults + 1,
                ClaimsInFlight(f) \ {w} \subseteq ClaimsInFlight(f)'
         PROVE  Bounded
  <2>1. old <= new + 1
    BY <1>drop, DroppedClaim DEF old, new
  <2> QED
    BY <1>t, <1>n, <1>drop, <2>1
<1> HIDE DEF Bounded
<1> USE DEF TypeOK
<1>1. ASSUME NEW e \in Events, CaptureInTransaction(e) PROVE Bounded
  <2>1. CASE e = f
    BY <1>t, <1>1, <1>below, <2>1 DEF CaptureInTransaction, InsertRow
  <2>2. CASE e # f
    BY <1>t, <1>1, <1>same, <2>2 DEF CaptureInTransaction, InsertRow, ClaimsInFlight, Running
  <2> QED
    BY <2>1, <2>2
<1>2. ASSUME NEW r \in Requests, NEW e \in Events, EmitDurably(r, e) PROVE Bounded
  <2>1. CASE e = f
    BY <1>t, <1>2, <1>below, <2>1 DEF EmitDurably, InsertRow
  <2>2. CASE e # f
    <3>1. ClaimsInFlight(f)' = ClaimsInFlight(f)
      BY <1>t, <1>2, <2>2 DEF EmitDurably, ClaimsInFlight, Running, Workers
    <3> QED
      BY <1>t, <1>2, <1>same, <2>2, <3>1 DEF EmitDurably, InsertRow
  <2> QED
    BY <2>1, <2>2
<1>3. ASSUME NEW w \in Workers, NEW e \in Events, HandlerReturns(w, e) PROVE Bounded
  <2>1. UNCHANGED <<status, attempts, faults>>
    BY <1>3 DEF HandlerReturns, HandlerSucceeds, HandlerThrows, HandlerTimesOut
  <2>2. \A d \in Drains : Running(d, f)' <=> Running(d, f)
    BY <1>t, <1>3, RunsStay DEF Running, Workers
  <2>3. ClaimsInFlight(f)' = ClaimsInFlight(f)
    BY <2>2 DEF ClaimsInFlight
  <2> QED
    BY <1>same, <2>1, <2>3
<1>4. ASSUME NEW w \in Workers, NEW e \in Events, SettleSuccess(w, e) PROVE Bounded
  <2>1. e # f
    BY <1>t, <1>4 DEF SettleSuccess, CompleteRow
  <2>2. ClaimsInFlight(f)' = ClaimsInFlight(f)
    BY <1>t, <1>4, <2>1 DEF SettleSuccess, ClaimsInFlight, Running, Workers
  <2> QED
    BY <1>t, <1>4, <1>same, <2>1, <2>2 DEF SettleSuccess, CompleteRow
<1>5. ASSUME NEW r \in Requests, NEW e \in Events, SettleEmitFailure(r, e) PROVE Bounded
  <2>1. ClaimsInFlight(f)' = ClaimsInFlight(f)
    BY <1>t, <1>5, WorkersDistinct DEF SettleEmitFailure, ClaimsInFlight, Running, Workers
  <2>2. status[f] = "pending"
    BY <1>t, <1>5 DEF SettleEmitFailure, FailRow
  <2> QED
    BY <1>5, <1>same, <2>1, <2>2 DEF SettleEmitFailure
<1>6. ASSUME NEW d \in Drains, NEW e \in Events, SettleDrainFailure(d, e) PROVE Bounded
  <2>1. UNCHANGED <<attempts, faults>>
    BY <1>6 DEF SettleDrainFailure
  <2>2. CASE e = f
    <3>1. ~Exhausted(f)
      BY <1>t, <1>6, <2>2 DEF SettleDrainFailure, FailRow
    <3> QED
      BY <1>n, <1>below, <2>1, <3>1 DEF Exhausted
  <2>3. CASE e # f
    <3>1. ClaimsInFlight(f)' = ClaimsInFlight(f)
      <4>1. \A v \in Drains : job'[v][f] = job[v][f]
        BY <1>t, <1>6, <2>3 DEF SettleDrainFailure, Workers
      <4> QED
        BY <4>1 DEF ClaimsInFlight, Running
    <3>2. status[f] = "pending"
      BY <1>t, <1>6, <2>3 DEF SettleDrainFailure, FailRow
    <3> QED
      BY <1>same, <2>1, <3>1, <3>2
  <2> QED
    BY <2>2, <2>3
<1>7. ASSUME NEW d \in Drains, NEW e \in Events, Announce(d, e) PROVE Bounded
  <2>1. \A v \in Drains : Running(v, f)' <=> Running(v, f)
    BY <1>t, <1>7 DEF Announce, Running, Workers, NoJob
  <2>2. ClaimsInFlight(f)' = ClaimsInFlight(f)
    BY <2>1 DEF ClaimsInFlight
  <2> QED
    BY <1>7, <1>same, <2>2 DEF Announce
<1>8. ASSUME NEW d \in Drains, NEW batch \in SUBSET Events, Claim(d, batch) PROVE Bounded
  <2>1. status[f] = "pending" /\ faults' = faults
    BY <1>8 DEF Claim
  <2>2. CASE f \in batch
    <3>1. d \notin ClaimsInFlight(f) /\ ClaimsInFlight(f)' = ClaimsInFlight(f) \cup {d}
      BY <1>t, <1>8, <2>2 DEF Claim, Idle, ClaimsInFlight, Running, Workers, NewJob
    <3>2. new = old + 1
      BY <3>1, AddedClaim DEF old, new
    <3>3. attempts'[f] = attempts[f] + 1
      BY <1>8, <2>2 DEF Claim
    <3> QED
      BY <1>t, <1>n, <2>1, <3>2, <3>3 DEF Bounded
  <2>3. CASE f \notin batch
    <3>1. ClaimsInFlight(f)' = ClaimsInFlight(f)
      BY <1>t, <1>8, <2>3 DEF Claim, ClaimsInFlight, Running, Workers
    <3>2. attempts'[f] = attempts[f]
      BY <1>8, <2>3 DEF Claim
    <3> QED
      BY <1>same, <2>1, <3>1, <3>2
  <2> QED
    BY <2>2, <2>3
<1>9. ASSUME NEW e \in Events, BecomesDue(e) PROVE Bounded
  BY <1>9, <1>same DEF BecomesDue, ClaimsInFlight, Running
<1>10. ASSUME NEW e \in Events, Prune(e) PROVE Bounded
  <2>1. e # f
    BY <1>t, <1>10 DEF Prune
  <2> QED
    BY <1>t, <1>10, <1>same, <2>1 DEF Prune, ClaimsInFlight, Running
<1>11. ASSUME NEW e \in Events, NEW s \in Subscribers, NEW ok \in BOOLEAN, DetachedEnds(e, s, ok)
       PROVE  Bounded
  BY <1>11, <1>same DEF DetachedEnds, ClaimsInFlight, Running
<1>12. ASSUME NEW w \in Workers, Crash(w) PROVE Bounded
  <2>1. ClaimsInFlight(f) \ {w} \subseteq ClaimsInFlight(f)'
    BY <1>t, <1>12 DEF Crash, ClaimsInFlight, Running, Workers
  <2> QED
    BY <1>12, <1>drop, <2>1 DEF Crash
<1>13. ASSUME NEW w \in Workers, NEW e \in Events, LoseSettlement(w, e) PROVE Bounded
  <2>1. ClaimsInFlight(f) \ {w} \subseteq ClaimsInFlight(f)'
    BY <1>t, <1>13 DEF LoseSettlement, ClaimsInFlight, Running, Workers
  <2> QED
    BY <1>13, <1>drop, <2>1 DEF LoseSettlement
<1>14. ASSUME UNCHANGED vars PROVE Bounded
  BY <1>14, <1>same DEF vars, ClaimsInFlight, Running
<1> QED
  BY <1>1, <1>2, <1>3, <1>4, <1>5, <1>6, <1>7, <1>8, <1>9, <1>10, <1>11, <1>12, <1>13, <1>14
  DEF Next, ClaimOf, RequestSettles, DrainSettles, Workers, Bounded, new

\* A row is claimed beyond max_attempts only for deliveries that are still
\* going or were cut short, for any number of drains and faults.
THEOREM OverrunsAreExplained == Spec => []OverrunIsExplained
<1>1. Init => OverrunInv
  <2> SUFFICES ASSUME Init PROVE OverrunInv
    OBVIOUS
  <2>1. \A e \in Events : status[e] = "absent"
    BY DEF Init
  <2> QED
    BY <2>1, InitIInv DEF OverrunInv, OverrunIsExplained, IInv
<1>2. OverrunInv => OverrunIsExplained
  BY DEF OverrunInv
<1> QED
  BY <1>1, <1>2, StepOverrunInv, PTL DEF Spec
----------------------------------------------------------------------------
(* Retention *)

\* Of all steps only retention empties a row, and it takes delivered rows only.
LEMMA StepForgets ==
  IInv /\ [Next]_vars =>
    \A f \in Events : status[f] # "absent" /\ status'[f] = "absent" => handled[f] = Subscribers
<1> SUFFICES ASSUME IInv, [Next]_vars, NEW f \in Events,
                    status[f] # "absent", status'[f] = "absent"
             PROVE  handled[f] = Subscribers
  OBVIOUS
<1>0. status \in [Events -> Statuses]
  BY DEF IInv, TypeOK
<1>1. ASSUME NEW e \in Events, InsertRow(e) PROVE FALSE
  BY <1>0, <1>1 DEF InsertRow
<1>2. ASSUME NEW e \in Events, CompleteRow(e) PROVE FALSE
  BY <1>0, <1>2 DEF CompleteRow
<1>3. ASSUME NEW e \in Events, NEW p \in BOOLEAN, FailRow(e, p) PROVE FALSE
  BY <1>0, <1>3 DEF FailRow
<1>4. ASSUME UNCHANGED status PROVE FALSE
  BY <1>4
<1>5. ASSUME NEW e \in Events, Prune(e) PROVE handled[f] = Subscribers
  <2>1. f = e
    BY <1>0, <1>5 DEF Prune
  <2> QED
    BY <1>5, <2>1 DEF Prune, IInv, DeliveredMeansHandled
<1>6. ASSUME NEW w \in Workers, NEW e \in Events,
             SettleSuccess(w, e) \/ SettleEmitFailure(w, e) PROVE FALSE
  BY <1>2, <1>3, <1>6 DEF SettleSuccess, SettleEmitFailure
<1>7. ASSUME NEW d \in Drains, NEW e \in Events, DrainSettles(d, e) PROVE FALSE
  <2>1. job[d][e].permanent \in BOOLEAN
    BY DEF IInv, TypeOK, Job, Workers
  <2> QED
    BY <1>2, <1>3, <1>4, <1>7, <2>1
    DEF DrainSettles, SettleSuccess, SettleDrainFailure, Announce
<1>8. ASSUME NEW w \in Workers, NEW e \in Events,
             HandlerReturns(w, e) \/ LoseSettlement(w, e) \/ Crash(w) PROVE FALSE
  BY <1>4, <1>8 DEF HandlerReturns, HandlerSucceeds, HandlerThrows, HandlerTimesOut,
                    LoseSettlement, Crash
<1>9. ASSUME NEW e \in Events,
             \/ CaptureInTransaction(e) \/ BecomesDue(e) \/ ClaimOf(e)
             \/ \E r \in Requests : EmitDurably(r, e)
             \/ \E s \in Subscribers, ok \in BOOLEAN : DetachedEnds(e, s, ok)
      PROVE  FALSE
  BY <1>1, <1>4, <1>9 DEF CaptureInTransaction, EmitDurably, BecomesDue, ClaimOf, Claim,
                          DetachedEnds
<1> QED
  BY <1>4, <1>5, <1>6, <1>7, <1>8, <1>9 DEF Next, RequestSettles, Workers, vars

\* A dead letter is never lost: a captured event leaves the table only after
\* every subscriber has handled it.
THEOREM NothingUnhandledIsForgotten == Spec => OnlyHandledEventsAreForgotten
<1>1. IInv /\ [Next]_vars =>
        [\A e \in Events :
           status[e] # "absent" /\ status'[e] = "absent" => handled[e] = Subscribers]_vars
  BY StepForgets
<1> QED
  BY <1>1, InitIInv, StepIInv, PTL DEF Spec, OnlyHandledEventsAreForgotten
----------------------------------------------------------------------------
(* Refinement *)

\* An update of one row's status is the update of one event's phase.
LEMMA PhaseUpdate ==
  ASSUME TypeOK, NEW e \in Events, NEW st \in Statuses,
         status' = [status EXCEPT ![e] = st]
  PROVE  [f \in Events |-> PhaseOf[status'[f]]]
           = [[f \in Events |-> PhaseOf[status[f]]] EXCEPT ![e] = PhaseOf[st]]
BY DEF TypeOK

LEMMA PhaseNames ==
  /\ PhaseOf["absent"] = "none" /\ PhaseOf["pending"] = "owed"
  /\ PhaseOf["delivered"] = "delivered" /\ PhaseOf["failed"] = "deadLetter"
BY DEF PhaseOf

LEMMA StepRefines == IInv /\ [Next]_vars => [Contract!Next]_(Contract!contract)
<1> SUFFICES ASSUME IInv, [Next]_vars PROVE [Contract!Next]_(Contract!contract)
  OBVIOUS
<1> DEFINE Step == [Contract!Next]_(Contract!contract)
<1>0. TypeOK
  BY DEF IInv
<1>same. UNCHANGED <<status, handled>> => Step
  BY DEF Contract!contract
<1>capture. ASSUME NEW e \in Events, InsertRow(e) PROVE Step
  <2>1. PhaseOf[status[e]] = "none"
    BY <1>capture, PhaseNames DEF InsertRow
  <2>2. Contract!Capture(e)
    BY <1>0, <1>capture, <2>1, PhaseUpdate, PhaseNames DEF Contract!Capture, InsertRow, Statuses
  <2> QED
    BY <2>2 DEF Contract!Next
<1>handle. ASSUME NEW e \in Events, NEW s \in Subscribers, status[e] # "absent",
                  UNCHANGED status, handled' = [handled EXCEPT ![e] = @ \cup {s}]
           PROVE  Step
  <2>1. PhaseOf[status[e]] # "none"
    BY <1>0, <1>handle, PhaseNames DEF TypeOK, Statuses
  <2>2. Contract!Handle(e, s)
    BY <1>handle, <2>1 DEF Contract!Handle
  <2> QED
    BY <2>2 DEF Contract!Next
<1>giveUp. ASSUME NEW e \in Events, NEW p, status[e] # "absent", FailRow(e, p), UNCHANGED handled
           PROVE  Step
  <2>1. CASE UNCHANGED status
    BY <1>same, <1>giveUp, <2>1
  <2>2. CASE status' = [status EXCEPT ![e] = "failed"]
    <3>1. PhaseOf[status[e]] # "none"
      BY <1>0, <1>giveUp, PhaseNames DEF TypeOK, Statuses
    <3>2. [f \in Events |-> PhaseOf[status'[f]]]
            = [[f \in Events |-> PhaseOf[status[f]]] EXCEPT ![e] = "deadLetter"]
      BY <1>0, <2>2, PhaseUpdate, PhaseNames DEF Statuses
    <3>3. Contract!GiveUp(e)
      BY <1>giveUp, <3>1, <3>2 DEF Contract!GiveUp
    <3> QED
      BY <3>3 DEF Contract!Next
  <2> QED
    BY <1>giveUp, <2>1, <2>2 DEF FailRow
<1> HIDE DEF Step
<1>1. ASSUME NEW e \in Events, CaptureInTransaction(e) PROVE Step
  BY <1>1, <1>capture DEF CaptureInTransaction
<1>2. ASSUME NEW r \in Requests, NEW e \in Events, EmitDurably(r, e) PROVE Step
  BY <1>2, <1>capture DEF EmitDurably
<1>3. ASSUME NEW w \in Workers, NEW e \in Events, NEW s \in Subscribers,
             HandlerSucceeds(w, e, s)
      PROVE  Step
  <2>1. status[e] # "absent"
    BY <1>3 DEF HandlerSucceeds, IInv, RunsHaveRows
  <2> QED
    BY <1>3, <2>1, <1>handle DEF HandlerSucceeds
<1>4. ASSUME NEW w \in Workers, NEW e \in Events, NEW s \in Subscribers, NEW p \in BOOLEAN,
             HandlerThrows(w, e, s, p)
      PROVE  Step
  BY <1>4, <1>same DEF HandlerThrows
<1>5. ASSUME NEW w \in Workers, NEW e \in Events, NEW s \in Subscribers,
             HandlerTimesOut(w, e, s)
      PROVE  Step
  BY <1>5, <1>same DEF HandlerTimesOut
<1>6. ASSUME NEW e \in Events, NEW s \in Subscribers, NEW ok \in BOOLEAN,
             DetachedEnds(e, s, ok)
      PROVE  Step
  <2>1. status[e] # "absent"
    BY <1>6 DEF DetachedEnds, IInv, RunsHaveRows
  <2> QED
    BY <1>6, <2>1, <1>handle, <1>same DEF DetachedEnds
<1>7. ASSUME NEW w \in Workers, NEW e \in Events, SettleSuccess(w, e) PROVE Step
  <2>1. status[e] # "absent"
    BY <1>7 DEF SettleSuccess, Settling, IInv, RunsHaveRows
  <2>2. PhaseOf[status[e]] # "none"
    BY <1>0, <2>1, PhaseNames DEF TypeOK, Statuses
  <2>3. handled[e] = Subscribers
    <3>1. Subscribers \ {} \subseteq handled[e]
      BY <1>7 DEF SettleSuccess, Settling, IInv, VerdictsAreEarned
    <3>2. handled[e] \subseteq Subscribers
      BY <1>0 DEF TypeOK
    <3> QED
      BY <3>1, <3>2
  <2>4. status' = [status EXCEPT ![e] = "delivered"] /\ UNCHANGED handled
    BY <1>7 DEF SettleSuccess, CompleteRow
  <2>5. [f \in Events |-> PhaseOf[status'[f]]]
          = [[f \in Events |-> PhaseOf[status[f]]] EXCEPT ![e] = "delivered"]
    BY <1>0, <2>4, PhaseUpdate, PhaseNames DEF Statuses
  <2>6. Contract!Deliver(e)
    BY <2>2, <2>3, <2>4, <2>5 DEF Contract!Deliver
  <2> QED
    BY <2>6 DEF Contract!Next, Step
<1>8. ASSUME NEW r \in Requests, NEW e \in Events, SettleEmitFailure(r, e) PROVE Step
  <2>1. status[e] # "absent"
    BY <1>8 DEF SettleEmitFailure, Settling, IInv, RunsHaveRows, Workers
  <2> QED
    BY <1>8, <2>1, <1>giveUp DEF SettleEmitFailure
<1>9. ASSUME NEW d \in Drains, NEW e \in Events, SettleDrainFailure(d, e) PROVE Step
  <2>1. status[e] # "absent"
    BY <1>9 DEF SettleDrainFailure, Settling, IInv, RunsHaveRows, Workers
  <2> QED
    BY <1>9, <2>1, <1>giveUp DEF SettleDrainFailure
<1>10. ASSUME NEW d \in Drains, NEW e \in Events, Announce(d, e) PROVE Step
  BY <1>10, <1>same DEF Announce
<1>11. ASSUME NEW d \in Drains, NEW batch \in SUBSET Events, Claim(d, batch) PROVE Step
  BY <1>11, <1>same DEF Claim
<1>12. ASSUME NEW e \in Events, BecomesDue(e) PROVE Step
  BY <1>12, <1>same DEF BecomesDue
<1>13. ASSUME NEW e \in Events, Prune(e) PROVE Step
  <2>1. PhaseOf[status[e]] = "delivered"
    BY <1>13, PhaseNames DEF Prune
  <2>2. status' = [status EXCEPT ![e] = "absent"] /\ handled' = [handled EXCEPT ![e] = {}]
    BY <1>13 DEF Prune
  <2>3. Contract!Forget(e)
    BY <1>0, <2>1, <2>2, PhaseUpdate, PhaseNames DEF Contract!Forget, Statuses
  <2> QED
    BY <2>3 DEF Contract!Next, Step
<1>14. ASSUME NEW w \in Workers, Crash(w) PROVE Step
  BY <1>14, <1>same DEF Crash
<1>15. ASSUME NEW w \in Workers, NEW e \in Events, LoseSettlement(w, e) PROVE Step
  BY <1>15, <1>same DEF LoseSettlement
<1>16. ASSUME UNCHANGED vars PROVE Step
  BY <1>16, <1>same DEF vars
<1>17. Step
  BY <1>1, <1>2, <1>3, <1>4, <1>5, <1>6, <1>7, <1>8, <1>9, <1>10, <1>11, <1>12, <1>13,
     <1>14, <1>15, <1>16
  DEF Next, ClaimOf, HandlerReturns, RequestSettles, DrainSettles, Workers
<1> QED
  BY <1>17 DEF Step

\* The outbox keeps the durable-delivery contract, for every instance.
THEOREM Refinement == Spec => ImplementsDurableDelivery
<1>1. Init => Contract!Init
  BY PhaseNames DEF Init, Contract!Init
<1> QED
  BY <1>1, InitIInv, StepIInv, StepRefines, PTL DEF Spec, Contract!Spec, ImplementsDurableDelivery
============================================================================
