---------------------------- MODULE EventOutbox ----------------------------
(***************************************************************************)
(* The transactional outbox (packages/db/src/outbox.ts) together with the  *)
(* two things that deliver from it: the durable emit of the in-process     *)
(* event bus (packages/core/src/events.ts), run by requests, and the       *)
(* drain, run by the scheduled job and by wake-ups, possibly several at a  *)
(* time.                                                                   *)
(*                                                                         *)
(* An action is one database statement or one handler returning; a worker  *)
(* may die, or lose its settling statement, between any two of them.  The  *)
(* clock is abstracted to one bit per row, due: a row that is not due may  *)
(* become due at any moment, so every property below holds however a       *)
(* delivery's duration compares to the visibility timeout.                 *)
(***************************************************************************)
EXTENDS Naturals, FiniteSets

CONSTANTS Events,        \* metadata.eventId values
          Subscribers,   \* the handlers registered for them
          Requests,      \* request handlers that emit with a store
          Drains,        \* concurrent invocations of drainOutbox
          MaxAttempts,   \* the max_attempts column
          BatchLimit,    \* DrainOutboxOptions.limit
          MaxFaults      \* bound on worker deaths and lost settlements

ASSUME MaxAttemptsAssumption == MaxAttempts \in Nat \ {0}
ASSUME BatchLimitAssumption == BatchLimit \in Nat \ {0}
ASSUME MaxFaultsAssumption == MaxFaults \in Nat
ASSUME WorkersDistinct == Requests \cap Drains = {}
ASSUME DrainsAssumption == IsFiniteSet(Drains)

VARIABLES status,     \* event_outbox.status, "absent" when there is no row
          attempts,   \* event_outbox.attempts
          due,        \* next_attempt_at <= now()
          job,        \* job[w][e]: what worker w is doing with event e
          detached,   \* runs the bus timed out on, still going
          handled,    \* subscribers that completed since the row was captured
          faults      \* deaths and lost settlements so far

vars == <<status, attempts, due, job, detached, handled, faults>>

Workers == Requests \cup Drains

Statuses == {"absent", "pending", "delivered", "failed"}

\* todo: handlers not settled yet; failed, permanent: the verdict so far.
Job == [stage: {"idle", "running", "announcing"},
        todo: SUBSET Subscribers, failed: BOOLEAN, permanent: BOOLEAN]

NoJob == [stage |-> "idle", todo |-> {}, failed |-> FALSE, permanent |-> FALSE]
NewJob == [stage |-> "running", todo |-> Subscribers,
           failed |-> FALSE, permanent |-> FALSE]

Idle(w) == \A e \in Events : job[w][e].stage = "idle"
Running(w, e) == job[w][e].stage = "running"
Settling(w, e) == Running(w, e) /\ job[w][e].todo = {}

TypeOK ==
  /\ status \in [Events -> Statuses]
  /\ attempts \in [Events -> Nat]
  /\ due \in [Events -> BOOLEAN]
  /\ job \in [Workers -> [Events -> Job]]
  /\ \A r \in Requests, e \in Events : job[r][e].stage # "announcing"
  /\ detached \in SUBSET (Events \X Subscribers)
  /\ handled \in [Events -> SUBSET Subscribers]
  /\ faults \in 0..MaxFaults

Init ==
  /\ status = [e \in Events |-> "absent"]
  /\ attempts = [e \in Events |-> 0]
  /\ due = [e \in Events |-> FALSE]
  /\ job = [w \in Workers |-> [e \in Events |-> NoJob]]
  /\ detached = {}
  /\ handled = [e \in Events |-> {}]
  /\ faults = 0
----------------------------------------------------------------------------
(* Capture *)

\* insertOutboxEvents: INSERT ... ON CONFLICT (event_id) DO NOTHING, with the
\* column defaults: pending, no attempts, due at once.
InsertRow(e) ==
  /\ status[e] = "absent"
  /\ status' = [status EXCEPT ![e] = "pending"]
  /\ attempts' = [attempts EXCEPT ![e] = 0]
  /\ due' = [due EXCEPT ![e] = TRUE]
  /\ handled' = [handled EXCEPT ![e] = {}]

\* A service captures the event in its own transaction; nobody delivers yet.
CaptureInTransaction(e) ==
  /\ InsertRow(e)
  /\ UNCHANGED <<job, detached, faults>>

\* Mutant: the emit delivers although the insert returned no record.
EmitEvenDuplicates(r, e) ==
  /\ Idle(r)
  /\ \/ InsertRow(e)
     \/ status[e] # "absent" /\ UNCHANGED <<status, attempts, due, handled>>
  /\ job' = [job EXCEPT ![r][e] = NewJob]
  /\ UNCHANGED <<detached, faults>>

\* emit with a store: persist before any handler runs, then run them all.  A
\* duplicate event id gets no record back and the emit returns at once.
EmitDurably(r, e) ==
  /\ Idle(r)
  /\ InsertRow(e)
  /\ job' = [job EXCEPT ![r][e] = NewJob]
  /\ UNCHANGED <<detached, faults>>
----------------------------------------------------------------------------
(* Delivery: the handlers of one event run in parallel *)

HandlerSucceeds(w, e, s) ==
  /\ Running(w, e) /\ s \in job[w][e].todo
  /\ job' = [job EXCEPT ![w][e].todo = @ \ {s}]
  /\ handled' = [handled EXCEPT ![e] = @ \cup {s}]
  /\ UNCHANGED <<status, attempts, due, detached, faults>>

AfterFailure(j, s, permanent) ==
  [stage |-> j.stage, todo |-> j.todo \ {s}, failed |-> TRUE,
   permanent |-> j.permanent \/ permanent]

HandlerThrows(w, e, s, permanent) ==
  /\ Running(w, e) /\ s \in job[w][e].todo
  /\ job' = [job EXCEPT ![w][e] = AfterFailure(@, s, permanent)]
  /\ UNCHANGED <<status, attempts, due, detached, handled, faults>>

\* Mutant: a timed-out handler is taken for a finished one.
TimeoutTakenForSuccess(w, e, s) ==
  /\ Running(w, e) /\ s \in job[w][e].todo
  /\ job' = [job EXCEPT ![w][e].todo = @ \ {s}]
  /\ detached' = detached \cup {<<e, s>>}
  /\ UNCHANGED <<status, attempts, due, handled, faults>>

\* The bus stops waiting; the handler keeps running and counts as a failure.
HandlerTimesOut(w, e, s) ==
  /\ Running(w, e) /\ s \in job[w][e].todo
  /\ job' = [job EXCEPT ![w][e] = AfterFailure(@, s, FALSE)]
  /\ detached' = detached \cup {<<e, s>>}
  /\ UNCHANGED <<status, attempts, due, handled, faults>>

DetachedEnds(e, s, succeeds) ==
  /\ <<e, s>> \in detached
  /\ detached' = detached \ {<<e, s>>}
  /\ handled' = IF succeeds THEN [handled EXCEPT ![e] = @ \cup {s}] ELSE handled
  /\ UNCHANGED <<status, attempts, due, job, faults>>
----------------------------------------------------------------------------
(* Settlement: neither statement looks at the status it overwrites *)

CompleteRow(e) == status' = [status EXCEPT ![e] = "delivered"]

\* Mutant: one attempt too many.
ExhaustedLate(e) == attempts[e] > MaxAttempts

Exhausted(e) == attempts[e] >= MaxAttempts

\* failOutboxEvent: dead-letter, or keep the status and back off.
FailRow(e, permanent) ==
  IF permanent \/ Exhausted(e)
  THEN /\ status' = [status EXCEPT ![e] = "failed"]
       /\ UNCHANGED due
  ELSE /\ due' = [due EXCEPT ![e] = FALSE]
       /\ UNCHANGED status

\* Mutant: the verdict of a handler that failed earlier is dropped.
SettleSuccessAlways(w, e) ==
  /\ Settling(w, e)
  /\ CompleteRow(e)
  /\ job' = [job EXCEPT ![w][e] = NoJob]
  /\ UNCHANGED <<attempts, due, detached, handled, faults>>

SettleSuccess(w, e) ==
  /\ Settling(w, e) /\ ~job[w][e].failed
  /\ CompleteRow(e)
  /\ job' = [job EXCEPT ![w][e] = NoJob]
  /\ UNCHANGED <<attempts, due, detached, handled, faults>>

\* Mutant: a request announces the dead letter itself.
SettleEmitFailureAnnouncing(r, e) ==
  /\ Settling(r, e) /\ job[r][e].failed
  /\ FailRow(e, FALSE)
  /\ job' = [job EXCEPT ![r][e] = [NoJob EXCEPT !.stage = "announcing"]]
  /\ UNCHANGED <<attempts, detached, handled, faults>>

\* The emit path passes no permanent flag and never announces.
SettleEmitFailure(r, e) ==
  /\ Settling(r, e) /\ job[r][e].failed
  /\ FailRow(e, FALSE)
  /\ job' = [job EXCEPT ![r][e] = NoJob]
  /\ UNCHANGED <<attempts, detached, handled, faults>>

\* The drain announces whenever the statement returns "failed".
SettleDrainFailure(d, e) ==
  /\ Settling(d, e) /\ job[d][e].failed
  /\ FailRow(e, job[d][e].permanent)
  /\ job' = [job EXCEPT ![d][e] = IF status'[e] = "failed"
                                  THEN [NoJob EXCEPT !.stage = "announcing"]
                                  ELSE NoJob]
  /\ UNCHANGED <<attempts, detached, handled, faults>>

\* event.dead_lettered is delivered, not emitted; its own failure is swallowed.
Announce(d, e) ==
  /\ job[d][e].stage = "announcing"
  /\ job' = [job EXCEPT ![d][e] = NoJob]
  /\ UNCHANGED <<status, attempts, due, detached, handled, faults>>
----------------------------------------------------------------------------
(* The drain *)

\* Mutant: the claim hides the rows but does not count the attempt.
ClaimUncounted(d, batch) ==
  /\ Idle(d)
  /\ batch # {} /\ Cardinality(batch) <= BatchLimit
  /\ \A e \in batch : status[e] = "pending" /\ due[e]
  /\ due' = [e \in Events |-> due[e] /\ e \notin batch]
  /\ job' = [job EXCEPT ![d] = [e \in Events |-> IF e \in batch THEN NewJob ELSE @[e]]]
  /\ UNCHANGED <<status, attempts, detached, handled, faults>>

\* claimDueOutboxEvents: one statement; SKIP LOCKED may leave due rows behind,
\* and a drain claims again only when its previous batch is through.
Claim(d, batch) ==
  /\ Idle(d)
  /\ batch # {} /\ Cardinality(batch) <= BatchLimit
  /\ \A e \in batch : status[e] = "pending" /\ due[e]
  /\ attempts' = [e \in Events |-> IF e \in batch THEN attempts[e] + 1 ELSE attempts[e]]
  /\ due' = [e \in Events |-> due[e] /\ e \notin batch]
  /\ job' = [job EXCEPT ![d] = [e \in Events |-> IF e \in batch THEN NewJob ELSE @[e]]]
  /\ UNCHANGED <<status, detached, handled, faults>>

\* The visibility timeout or the backoff of a pending row runs out.
BecomesDue(e) ==
  /\ status[e] = "pending" /\ ~due[e]
  /\ due' = [due EXCEPT ![e] = TRUE]
  /\ UNCHANGED <<status, attempts, job, detached, handled, faults>>

\* pruneDeliveredOutboxEvents deletes rows delivered 14 days ago, when no run
\* of the event can still be going.
Prune(e) ==
  /\ status[e] = "delivered"
  /\ \A w \in Workers : job[w][e].stage = "idle"
  /\ \A s \in Subscribers : <<e, s>> \notin detached
  /\ status' = [status EXCEPT ![e] = "absent"]
  /\ attempts' = [attempts EXCEPT ![e] = 0]
  /\ due' = [due EXCEPT ![e] = FALSE]
  /\ handled' = [handled EXCEPT ![e] = {}]
  /\ UNCHANGED <<job, detached, faults>>
----------------------------------------------------------------------------
(* Faults *)

Crash(w) ==
  /\ faults < MaxFaults /\ ~Idle(w)
  /\ faults' = faults + 1
  /\ job' = [job EXCEPT ![w] = [e \in Events |-> NoJob]]
  /\ UNCHANGED <<status, attempts, due, detached, handled>>

\* The settling statement throws: emit swallows it, the drain rejects.
LoseSettlement(w, e) ==
  /\ faults < MaxFaults /\ Settling(w, e)
  /\ faults' = faults + 1
  /\ job' = [job EXCEPT ![w][e] = NoJob]
  /\ UNCHANGED <<status, attempts, due, detached, handled>>
----------------------------------------------------------------------------
HandlerReturns(w, e) ==
  \E s \in Subscribers : \/ HandlerSucceeds(w, e, s)
                         \/ \E p \in BOOLEAN : HandlerThrows(w, e, s, p)
                         \/ HandlerTimesOut(w, e, s)

RequestSettles(r, e) == SettleSuccess(r, e) \/ SettleEmitFailure(r, e)
DrainSettles(d, e) == SettleSuccess(d, e) \/ SettleDrainFailure(d, e) \/ Announce(d, e)

ClaimOf(e) == \E d \in Drains, batch \in SUBSET Events : e \in batch /\ Claim(d, batch)

Next ==
  \/ \E e \in Events : CaptureInTransaction(e) \/ BecomesDue(e) \/ Prune(e) \/ ClaimOf(e)
  \/ \E e \in Events, s \in Subscribers, ok \in BOOLEAN : DetachedEnds(e, s, ok)
  \/ \E w \in Workers, e \in Events : HandlerReturns(w, e) \/ LoseSettlement(w, e)
  \/ \E r \in Requests, e \in Events : EmitDurably(r, e) \/ RequestSettles(r, e)
  \/ \E d \in Drains, e \in Events : DrainSettles(d, e)
  \/ \E w \in Workers : Crash(w)

Spec == Init /\ [][Next]_vars

\* Handlers return (the bus times them out), their worker then settles, time
\* passes, and the scheduled job keeps draining.  A claim is strongly fair
\* because it takes rows in next_attempt_at order: a due row is overtaken only
\* by the rows that were due before it.  Emits, deaths and detached runs are
\* owed nothing.
Fairness ==
  /\ \A w \in Workers, e \in Events : WF_vars(HandlerReturns(w, e))
  /\ \A r \in Requests, e \in Events : WF_vars(RequestSettles(r, e))
  /\ \A d \in Drains, e \in Events : WF_vars(DrainSettles(d, e))
  /\ \A e \in Events : WF_vars(BecomesDue(e)) /\ SF_vars(ClaimOf(e))

FairSpec == Spec /\ Fairness
----------------------------------------------------------------------------
(* Properties *)

\* At least once: a row is marked delivered only when every subscriber has
\* completed for this capture, whichever worker marks it, late settlements and
\* detached runs included (settle in events.ts, completeOutboxEvent).
DeliveredMeansHandled ==
  \A e \in Events : status[e] = "delivered" => handled[e] = Subscribers

\* Capturing once gives one owner: of several emits of one event id, at most
\* one ever runs handlers inline (the conflict-skipping insert of emit).
SingleEmitOwner ==
  \A e \in Events, r1, r2 \in Requests :
    job[r1][e].stage # "idle" /\ job[r2][e].stage # "idle" => r1 = r2

ClaimsInFlight(e) == {d \in Drains : Running(d, e)}

\* A pending row is claimed beyond max_attempts only on behalf of drains that
\* are still delivering it, or that died or lost their settlement: every claim
\* that settles past the limit takes the row out of the pending state.
OverrunIsExplained ==
  \A e \in Events :
    status[e] = "pending" =>
      attempts[e] < MaxAttempts + Cardinality(ClaimsInFlight(e)) + faults

\* A captured event leaves the table only after all subscribers handled it; a
\* dead letter waits for a human (pruneDeliveredOutboxEvents).
OnlyHandledEventsAreForgotten ==
  [][\A e \in Events :
       status[e] # "absent" /\ status'[e] = "absent" => handled[e] = Subscribers]_vars

\* Every captured event is eventually delivered or dead-lettered, whatever the
\* handlers do and although workers die between the claim and the settlement.
EventuallySettled ==
  \A e \in Events : status[e] = "pending" ~> status[e] \in {"delivered", "failed"}

\* The outbox implements the durable-delivery contract: the row's status is the
\* event's phase.
PhaseOf == [absent |-> "none", pending |-> "owed",
            delivered |-> "delivered", failed |-> "deadLetter"]
Contract == INSTANCE DurableDelivery WITH phase <- [e \in Events |-> PhaseOf[status[e]]]
ImplementsDurableDelivery == Contract!Spec
============================================================================
