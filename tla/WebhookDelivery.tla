-------------------------- MODULE WebhookDelivery --------------------------
(***************************************************************************)
(* Outbound webhooks: the attempts in webhook_deliveries, the workers that *)
(* claim and send them (packages/webhook-delivery/src/worker.ts) and the   *)
(* two stores they are kept with: subscriptions of operators               *)
(* (postgres-store.ts) and of installed apps (packages/apps/src/           *)
(* webhook-delivery.ts).  The stores use the same worker and share no row, *)
(* so a behaviour is one store's, for one subscription.                    *)
(*                                                                         *)
(* A delivery is a chain of rows under one idempotency key.  A claim is    *)
(* not fenced: after a minute another worker may take the row, and the     *)
(* first one, if it was only slow, still writes its outcome.  An attempt   *)
(* that cannot be signed for an app throws instead, and stays claimed.     *)
(***************************************************************************)
EXTENDS Integers, FiniteSets

CONSTANTS Keys,       \* idempotency keys: an event, a test or a replay
          Producers,  \* outbox drains that enqueue for an app
          Workers,    \* delivery loops of the hosts
          MaxRetries, \* bound: maxRetries of the subscription (5 for an app)
          Threshold,  \* terminalFailureThreshold
          MaxFaults,  \* bound: workers that die, or whose database throws
          None

ASSUME ConstantsAssumption ==
  /\ IsFiniteSet(Keys) /\ IsFiniteSet(Producers) /\ Cardinality(Producers) > 0
  /\ None \notin Keys /\ MaxRetries \in Nat /\ Threshold \in Nat \ {0} /\ MaxFaults \in Nat

\* Every row there can be: each producer may insert a first attempt, and a
\* retry is made once for each key and number.
Ids == 1..(Cardinality(Keys) * (Cardinality(Producers) + MaxRetries))

VARIABLES store,    \* "operator" or "app"
          sub,      \* the subscription
          rows,     \* webhook_deliveries, in order of insertion
          accepted, \* keys the endpoint has answered well at least once
          producer, \* the key a drain has looked up in vain and will insert
          work,     \* what each worker is doing
          faults

vars == <<store, sub, rows, accepted, producer, work, faults>>

Live == {"pending", "in_flight"}
Final == {"succeeded", "failed", "abandoned"}
Results == {"none", "ok", "again", "never"}

\* ripe: the row is due, or its claim has timed out.  keyed: the signing key
\* the host resolves for the app is the one that the app has confirmed.
TypeOK ==
  /\ store \in {"operator", "app"}
  /\ sub \in [active: BOOLEAN, keyed: BOOLEAN, retries: 0..MaxRetries, failures: 0..Threshold]
  /\ rows \in [Ids -> [key: Keys \cup {None}, attempt: 0..(MaxRetries + 1),
                       status: {"absent"} \cup Live \cup Final, ripe: BOOLEAN]]
  /\ accepted \subseteq Keys
  /\ producer \in [Producers -> Keys \cup {None}]
  /\ work \in [Workers -> [at: {"idle", "load", "send", "finish", "count", "pause"},
                           row: Ids \cup {0}, retries: 0..MaxRetries, result: Results]]
  /\ faults \in 0..MaxFaults

Idle == [at |-> "idle", row |-> 0, retries |-> 0, result |-> "none"]

Init ==
  /\ store \in {"operator", "app"}
  /\ sub = [active |-> TRUE, keyed |-> TRUE, retries |-> MaxRetries, failures |-> 0]
  /\ rows = [i \in Ids |-> [key |-> None, attempt |-> 0, status |-> "absent", ripe |-> FALSE]]
  /\ accepted = {}
  /\ producer = [p \in Producers |-> None]
  /\ work = [w \in Workers |-> Idle]
  /\ faults = 0
----------------------------------------------------------------------------
OfKey(k) == {i \in Ids : rows[i].key = k}

\* Mutant: rows that are settled do not count.
ExistingLive(k, n) == \E i \in OfKey(k) : rows[i].attempt = n /\ rows[i].status \in Live

Existing(k, n) == \E i \in OfKey(k) : rows[i].attempt = n

NextId == 1 + Cardinality({i \in Ids : rows[i].status # "absent"})

\* table with a pending row added; the first attempt is due at once.
Inserted(table, k, n) ==
  [table EXCEPT ![NextId] = [key |-> k, attempt |-> n, status |-> "pending", ripe |-> n = 1]]

At(w, step) == work[w].at = step
GoTo(w, step) == work' = IF step = "idle" THEN [work EXCEPT ![w] = Idle]
                         ELSE [work EXCEPT ![w].at = step]
----------------------------------------------------------------------------
(* Enqueueing.  The outbox does so at least once for an event, and two      *)
(* drains may do so at the same time.  A test or a replay that an operator  *)
(* asks for is enqueued once, under a key of its own.                       *)

\* The operator's store looks and inserts under an advisory lock.
EnqueueLocked(k) ==
  /\ store = "operator" /\ sub.active /\ ~Existing(k, 1) /\ NextId \in Ids
  /\ rows' = Inserted(rows, k, 1)
  /\ UNCHANGED <<store, sub, accepted, producer, work, faults>>

\* The store of apps looks, and inserts later.  Without the confirmed key the
\* listing of subscriptions throws, and so does a replay.
EnqueueLook(p, k) ==
  /\ store = "app" /\ sub.active /\ sub.keyed /\ producer[p] = None /\ ~Existing(k, 1)
  /\ producer' = [producer EXCEPT ![p] = k]
  /\ UNCHANGED <<store, sub, rows, accepted, work, faults>>

EnqueueInsert(p) ==
  /\ producer[p] # None /\ NextId \in Ids
  /\ rows' = Inserted(rows, producer[p], 1)
  /\ producer' = [producer EXCEPT ![p] = None]
  /\ UNCHANGED <<store, sub, accepted, work, faults>>
----------------------------------------------------------------------------
(* The subscription *)

Deactivate ==
  /\ sub.active
  /\ sub' = [sub EXCEPT !.active = FALSE]
  /\ UNCHANGED <<store, rows, accepted, producer, work, faults>>

\* The host makes a new signing key for the app, which has yet to confirm it.
IssueSigningKey ==
  /\ store = "app" /\ sub.keyed
  /\ sub' = [sub EXCEPT !.keyed = FALSE]
  /\ UNCHANGED <<store, rows, accepted, producer, work, faults>>

\* An app confirms its signing key (again), and its count starts afresh.
Activate ==
  /\ ~sub.active \/ (store = "app" /\ (sub.failures > 0 \/ ~sub.keyed))
  /\ sub' = [sub EXCEPT !.active = TRUE, !.keyed = TRUE,
                       !.failures = IF store = "app" THEN 0 ELSE @]
  /\ UNCHANGED <<store, rows, accepted, producer, work, faults>>

ChangeRetries(n) ==
  /\ store = "operator" /\ sub.retries # n
  /\ sub' = [sub EXCEPT !.retries = n]
  /\ UNCHANGED <<store, rows, accepted, producer, work, faults>>
----------------------------------------------------------------------------
(* A worker *)

\* Mutant: rows in flight are never taken over.
ReadyPendingOnly(i) == rows[i].ripe /\ rows[i].status = "pending"

Ready(i) == rows[i].ripe /\ rows[i].status \in Live

\* listReadyAttemptIds and claimAttempt; one that loses the race is idle.
Claim(w, i) ==
  /\ At(w, "idle") /\ Ready(i)
  /\ rows' = [rows EXCEPT ![i].status = "in_flight", ![i].ripe = FALSE]
  /\ work' = [work EXCEPT ![w] = [Idle EXCEPT !.at = "load", !.row = i]]
  /\ UNCHANGED <<store, sub, accepted, producer, faults>>

\* getSubscription; without an active one the attempt is abandoned.  Without the
\* confirmed key it throws: no attempt is counted, and the row stays in flight
\* until its claim times out.
Load(w) ==
  /\ At(w, "load")
  /\ work' = [work EXCEPT ![w] = IF ~sub.active
                                 THEN [@ EXCEPT !.at = "finish", !.result = "never"]
                                 ELSE IF sub.keyed
                                 THEN [@ EXCEPT !.at = "send", !.retries = sub.retries]
                                 ELSE Idle]
  /\ UNCHANGED <<store, sub, rows, accepted, producer, faults>>

\* dispatch: the endpoint may have accepted what a timeout calls failed.
Send(w) ==
  /\ At(w, "send")
  /\ \E result \in {"ok", "again", "never"} :
       /\ accepted' \in (IF result = "ok" THEN {} ELSE {accepted})
                        \cup (IF result = "never" THEN {}
                              ELSE {accepted \cup {rows[work[w].row].key}})
       /\ work' = [work EXCEPT ![w].at = "finish", ![w].result = result]
  /\ UNCHANGED <<store, sub, rows, producer, faults>>

\* Mutant: one retry more.
MayRetryOnceMore(w) ==
  work[w].result = "again" /\ rows[work[w].row].attempt <= work[w].retries + 1

MayRetry(w) == work[w].result = "again" /\ rows[work[w].row].attempt <= work[w].retries

Verdict(w) == CASE work[w].result = "ok" -> "succeeded"
                [] MayRetry(w) -> "failed"
                [] OTHER -> "abandoned"

\* Mutant: the operator's store completes any row, as the store of apps does.
CompletesAny(i) == TRUE

\* The operator's store completes only what is in flight, by whoever's claim.
Completes(i) == store = "app" \/ rows[i].status = "in_flight"

Settled(i, status) == [rows EXCEPT ![i].status = status, ![i].ripe = FALSE]

\* Mutant: a failure that may be retried is completed without its retry.
CompletedAlone(i, status) == Settled(i, status)

\* completeAttempt, or completeAndEnqueueRetry in one transaction.  The store
\* of apps makes no retry that exists.
Completed(i, status) ==
  LET key == rows[i].key
      next == rows[i].attempt + 1
  IN IF status = "failed" /\ (store = "operator" \/ ~Existing(key, next)) /\ NextId \in Ids
     THEN Inserted(Settled(i, status), key, next)
     ELSE Settled(i, status)

\* A completion that is refused throws, and nothing is counted.
Finish(w) ==
  LET i == work[w].row
  IN /\ At(w, "finish")
     /\ IF Completes(i)
        THEN /\ rows' = Completed(i, Verdict(w))
             /\ work' = [work EXCEPT ![w] = IF Verdict(w) = "failed" THEN Idle
                                           ELSE [Idle EXCEPT !.at = "count",
                                                             !.result = work[w].result]]
        ELSE UNCHANGED rows /\ GoTo(w, "idle")
     /\ UNCHANGED <<store, sub, accepted, producer, faults>>

\* recordSubscriptionOutcome; the count stops at the threshold.
Count(w) ==
  LET failures == IF work[w].result = "ok" THEN 0
                  ELSE IF sub.failures = Threshold THEN Threshold ELSE sub.failures + 1
  IN /\ At(w, "count")
     /\ sub' = [sub EXCEPT !.failures = failures]
     /\ GoTo(w, IF store = "app" /\ failures = Threshold THEN "pause" ELSE "idle")
     /\ UNCHANGED <<store, rows, accepted, producer, faults>>

\* The app's subscription has failed, and its installation is degraded.
Pause(w) ==
  /\ At(w, "pause")
  /\ sub' = [sub EXCEPT !.active = FALSE]
  /\ GoTo(w, "idle")
  /\ UNCHANGED <<store, rows, accepted, producer, faults>>

\* The process dies, or a call to the database throws.
WorkerFails(w) ==
  /\ ~At(w, "idle") /\ faults < MaxFaults
  /\ faults' = faults + 1
  /\ GoTo(w, "idle")
  /\ UNCHANGED <<store, sub, rows, accepted, producer>>

\* The time of a retry has come, or that of a claim has run out.
Ripen(i) ==
  /\ rows[i].status \in Live /\ ~rows[i].ripe
  /\ rows' = [rows EXCEPT ![i].ripe = TRUE]
  /\ UNCHANGED <<store, sub, accepted, producer, work, faults>>
----------------------------------------------------------------------------
Execute(w) == Load(w) \/ Send(w) \/ Finish(w) \/ Count(w) \/ Pause(w)

Next ==
  \/ \E k \in Keys : EnqueueLocked(k) \/ \E p \in Producers : EnqueueLook(p, k)
  \/ \E p \in Producers : EnqueueInsert(p)
  \/ Deactivate \/ IssueSigningKey \/ Activate \/ \E n \in 0..MaxRetries : ChangeRetries(n)
  \/ \E w \in Workers : Execute(w) \/ WorkerFails(w) \/ \E i \in Ids : Claim(w, i)
  \/ \E i \in Ids : Ripen(i)

\* Each loop polls again and again, its requests time out, and time passes.
Fairness ==
  /\ \A w \in Workers : WF_vars(Execute(w)) /\ WF_vars(\E i \in Ids : Claim(w, i))
  /\ \A i \in Ids : WF_vars(Ripen(i))

Spec == Init /\ [][Next]_vars /\ Fairness
----------------------------------------------------------------------------
(* Properties *)

\* For an operator's subscription the attempts of a delivery are a chain: no
\* number twice, none skipped, and only the last one anything but failed (the
\* advisory lock of enqueueAttempt, and that a row is completed but once).
ChainIsLinear ==
  store = "operator" =>
    \A k \in Keys : \A i \in OfKey(k) :
      /\ \A j \in OfKey(k) : rows[i].attempt = rows[j].attempt => i = j
      /\ rows[i].attempt > 1 =>
           \E j \in OfKey(k) : rows[j].attempt = rows[i].attempt - 1 /\ rows[j].status = "failed"

\* A failure that is to be retried has its retry, whatever dies when and
\* however often the row is completed (completeAndEnqueueRetry).
FailedHasSuccessor ==
  \A i \in Ids : rows[i].status = "failed"
                => \E j \in OfKey(rows[i].key) : rows[j].attempt = rows[i].attempt + 1

Ends(k) == OfKey(k) # {} ~> OfKey(k) # {} /\ \A i \in OfKey(k) : rows[i].status \in Final

Signable == sub.keyed \/ ~sub.active

\* A delivery that was enqueued comes to an end, with success or as a dead letter
\* (webhook-delivery/README.md:5), if its attempts can be signed from some time
\* on, whatever died before, however often its claims were taken over and whatever
\* else happens to the subscription (claimTimeoutMs, maxRetries).
SignableDeliveriesEnd == <>[]Signable => \A k \in Keys : Ends(k)

\* Nothing is promised here for apps, whose completions may undo each other.
Promised(k) == store = "operator" /\ OfKey(k) # {}

DeliveryPhase ==
  [k \in Keys |->
     IF ~Promised(k) THEN "none"
     ELSE IF \E i \in OfKey(k) : rows[i].status = "succeeded" THEN "delivered"
     ELSE IF \E i \in OfKey(k) : rows[i].status \in Live THEN "owed"
     ELSE "deadLetter"]

Contract == INSTANCE DurableDelivery
              WITH Subscribers <- {"endpoint"},
                   Events <- Keys,
                   phase <- DeliveryPhase,
                   handled <- [k \in Keys |-> IF Promised(k) /\ k \in accepted
                                              THEN {"endpoint"} ELSE {}]

\* An operator's delivery keeps the promise of the outbox that feeds it: owed
\* until the endpoint has accepted it or it is a dead letter, and never owed
\* again after that, although claims overlap.
ImplementsDurableDelivery == Contract!Spec
============================================================================
