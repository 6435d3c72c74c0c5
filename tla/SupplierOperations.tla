------------------------ MODULE SupplierOperations ------------------------
(***************************************************************************)
(* The Commit of a Booking Session for sourced inventory                   *)
(* (packages/catalog/src/booking-engine/supplier-operation-workflow.ts,    *)
(* supplier-operations.ts, supplier-operations-operator.ts and             *)
(* commitSourcedBooking of sessions-production.ts).                        *)
(*                                                                         *)
(* The supplier is asked first: a durable operation is written, sent, and  *)
(* only when its reservation is secured a booking is made.  The request or *)
(* its answer may be lost, the process may die, and an operator reconciles *)
(* or resolves operations meanwhile.  A commit key owns one operation.     *)
(*                                                                         *)
(* Operations are saved with an optimistic version.  Instead of numbers, a *)
(* worker knows whether the record it read is still fresh: every write of  *)
(* the row makes the copies of the other workers stale.                    *)
(*                                                                         *)
(* A Commit is the shopper's own.  A settlement of a paid session loads the*)
(* quote it settles, superseded or not, and is not modelled here.          *)
(***************************************************************************)
EXTENDS Integers, FiniteSets

CONSTANTS Keys,        \* commit idempotency keys of the session
          Workers,     \* requests: Commits and an operator's reconciliations
          MaxQuotes,   \* bound: quotes of the session
          MaxDeaths,   \* bound: workers that die
          LookupByKey, \* supportsReservationLookupByIdempotencyKey
          None

ASSUME ConstantsAssumption ==
  /\ IsFiniteSet(Keys) /\ None \notin Keys
  /\ MaxQuotes \in Nat \ {0} /\ MaxDeaths \in Nat /\ LookupByKey \in BOOLEAN

VARIABLES session,  \* booking_sessions, and the active quote
          op,       \* supplier_operations, by commit key
          wire,     \* keys of reservation requests underway to the supplier
          upstream, \* the supplier's reservations, by idempotency key
          work,     \* what each worker is doing
          deaths

vars == <<session, op, wire, upstream, work, deaths>>

\* Mutant: a reservation that is still pending counts as secured.
SecuredWhenPending == {"pending", "succeeded", "resolved_succeeded"}

\* manually_resolved stands for two states, by its upstream status.
Unsettled == {"queued", "submitted", "pending", "in_doubt", "manual_review"}
Secured == {"succeeded", "resolved_succeeded"}
Failed == {"refused", "cancelled", "resolved_failed"}

\* uidx_supplier_operations_subject_active_guard
Blocking == Unsettled \cup Secured

TypeOK ==
  /\ session \in [state: {"active", "supplier_pending", "consumed", "over"},
                  quote: 1..MaxQuotes, lapsed: BOOLEAN]
  /\ op \in [Keys -> [state: {"none"} \cup Blocking \cup Failed, quote: 0..MaxQuotes,
                      ref: BOOLEAN, booked: BOOLEAN]]
  /\ wire \subseteq Keys
  /\ upstream \in [Keys -> {"none", "pending", "confirmed", "failed", "cancelled"}]
  /\ work \in [Workers -> [at: {"idle", "claim", "dispatch", "await", "book", "reopen",
                                "ask", "giveback", "stamp"},
                           key: Keys \cup {None}, quote: 0..MaxQuotes, fresh: BOOLEAN]]
  /\ deaths \in 0..MaxDeaths

Idle == [at |-> "idle", key |-> None, quote |-> 0, fresh |-> FALSE]

Init ==
  /\ session = [state |-> "active", quote |-> 1, lapsed |-> FALSE]
  /\ op = [k \in Keys |-> [state |-> "none", quote |-> 0, ref |-> FALSE, booked |-> FALSE]]
  /\ wire = {}
  /\ upstream = [k \in Keys |-> "none"]
  /\ work = [w \in Workers |-> Idle]
  /\ deaths = 0
----------------------------------------------------------------------------
At(w, step) == work[w].at = step
Done(w) == work' = [work EXCEPT ![w] = Idle]
GoTo(w, step) == work' = [work EXCEPT ![w].at = step]

Blocked == \E k \in Keys : op[k].state \in Blocking

\* Worker w has written operation k: what the others read of it is stale, and
\* w goes on to step.
Wrote(w, k, step) ==
  work' = [x \in Workers |->
             IF x = w THEN IF step = "idle" THEN Idle
                           ELSE [work[w] EXCEPT !.at = step, !.fresh = TRUE]
             ELSE [work[x] EXCEPT !.fresh = @ /\ work[x].key # k]]

\* Mutant: the save does not compare versions.
SaveBlindly(w, k, state, step) ==
  op' = [op EXCEPT ![k].state = state] /\ Wrote(w, k, step)

\* save: the version must be the one that was read, or nothing is written and
\* the worker throws.
Save(w, k, state, step) ==
  IF work[w].fresh
  THEN op' = [op EXCEPT ![k].state = state] /\ Wrote(w, k, step)
  ELSE UNCHANGED op /\ Done(w)
----------------------------------------------------------------------------
(* The shopper *)

Requote ==
  /\ session.state = "active" /\ ~session.lapsed /\ session.quote < MaxQuotes
  /\ session' = [session EXCEPT !.quote = @ + 1]
  /\ UNCHANGED <<op, wire, upstream, work, deaths>>

AbandonSession ==
  /\ session.state = "active" /\ ~Blocked
  /\ session' = [session EXCEPT !.state = "over"]
  /\ UNCHANGED <<op, wire, upstream, work, deaths>>

SessionLapses ==
  /\ session.state \in {"active", "supplier_pending"} /\ ~session.lapsed
  /\ session' = [session EXCEPT !.lapsed = TRUE]
  /\ UNCHANGED <<op, wire, upstream, work, deaths>>

\* The sweep passes over a session with an operation; the first call on a
\* lapsed session does not ask.
ExpireSession ==
  /\ session.state = "active" /\ session.lapsed
  /\ session' = [session EXCEPT !.state = "over"]
  /\ UNCHANGED <<op, wire, upstream, work, deaths>>
----------------------------------------------------------------------------
(* A Commit *)

\* The preflight of commitSession; under supplier_pending it continues the
\* Commit that is underway.
BeginCommit(w, k) ==
  /\ At(w, "idle")
  /\ session.state = "supplier_pending" \/ (session.state = "active" /\ ~session.lapsed)
  /\ work' = [work EXCEPT ![w] = [at |-> "claim", key |-> k, quote |-> session.quote,
                                  fresh |-> FALSE]]
  /\ UNCHANGED <<session, op, wire, upstream, deaths>>

\* createOrReplay under the lock of the session: the key's own operation if it
\* was for the same request, a new one if none blocks it, or a conflict.
ClaimOperation(w) ==
  LET k == work[w].key
      mine == op[k].state # "none"
      granted == /\ session.state \in {"active", "supplier_pending"}
                 /\ IF mine THEN op[k].quote = work[w].quote ELSE ~Blocked
  IN /\ At(w, "claim")
     /\ IF granted
        THEN /\ session' = [session EXCEPT !.state = "supplier_pending"]
             /\ op' = IF mine THEN op
                      ELSE [op EXCEPT ![k].state = "queued", ![k].quote = work[w].quote]
             /\ GoTo(w, "dispatch")
        ELSE Done(w) /\ UNCHANGED <<session, op>>
     /\ UNCHANGED <<wire, upstream, deaths>>

\* claimDispatch takes a queued operation; any other state is an answer.
Dispatch(w) ==
  LET k == work[w].key
  IN /\ At(w, "dispatch")
     /\ CASE op[k].state = "queued" ->
               /\ op' = [op EXCEPT ![k].state = "submitted"]
               /\ wire' = wire \cup {k}
               /\ Wrote(w, k, "await")
          [] op[k].state \in Failed -> GoTo(w, "reopen") /\ UNCHANGED <<op, wire>>
          [] op[k].state \in Secured -> GoTo(w, "book") /\ UNCHANGED <<op, wire>>
          [] OTHER -> Done(w) /\ UNCHANGED <<op, wire>>
     /\ UNCHANGED <<session, upstream, deaths>>

\* operationFailedWithoutDispatch: the connection has no adapter any more.
DispatchUnsupported(w) ==
  LET k == work[w].key
  IN /\ At(w, "dispatch") /\ op[k].state = "queued"
     /\ op' = [op EXCEPT ![k].state = "refused"]
     /\ Wrote(w, k, "reopen")
     /\ UNCHANGED <<session, wire, upstream, deaths>>

\* What the answer to a reservation may say.
Answers(status) ==
  CASE status = "failed" -> {"pending", "refused"}
    [] status = "pending" -> {"pending"}
    [] OTHER -> {"pending", "succeeded"}

\* Mutant: a refusal is reported and the session stays as it is.
AfterNoReopening(state) == IF state \in Secured THEN "book" ELSE "idle"

After(state) ==
  CASE state \in Secured -> "book" [] state \in Failed -> "reopen" [] OTHER -> "idle"

AdapterAnswers(w) ==
  LET k == work[w].key
  IN /\ At(w, "await") /\ k \notin wire /\ upstream[k] # "none"
     /\ IF work[w].fresh
        THEN \E state \in Answers(upstream[k]) :
               /\ op' = [op EXCEPT ![k].state = state, ![k].ref = TRUE]
               /\ Wrote(w, k, After(state))
        ELSE UNCHANGED op /\ Done(w)
     /\ UNCHANGED <<session, wire, upstream, deaths>>

\* ReservationDispatchError with certainty not_sent
AdapterNotSent(w) ==
  LET k == work[w].key
  IN /\ At(w, "await") /\ k \in wire
     /\ wire' = wire \ {k}
     /\ Save(w, k, "queued", "idle")
     /\ UNCHANGED <<session, upstream, deaths>>

\* Any other error: the request may have arrived, or may yet.
AdapterInDoubt(w) ==
  /\ At(w, "await")
  /\ Save(w, work[w].key, "in_doubt", "idle")
  /\ UNCHANGED <<session, wire, upstream, deaths>>

\* reopenSessionAfterSupplierFailure
Reopen ==
  session' = IF session.state = "supplier_pending" THEN [session EXCEPT !.state = "active"]
             ELSE session

ReopenSession(w) ==
  /\ At(w, "reopen")
  /\ Reopen /\ Done(w)
  /\ UNCHANGED <<op, wire, upstream, deaths>>

\* consumeCommittedSources, for a continued Commit or a fresh one
Consumable(w) ==
  /\ session.state = "supplier_pending" \/ (session.state = "active" /\ ~session.lapsed)
  /\ session.quote = work[w].quote

\* The booking's transaction, with the operation FOR UPDATE.
MaterializeBooking(w) ==
  LET k == work[w].key
  IN /\ At(w, "book")
     /\ IF op[k].state \in Secured /\ ~op[k].booked /\ Consumable(w)
        THEN /\ op' = [op EXCEPT ![k].booked = TRUE]
             /\ session' = [session EXCEPT !.state = "consumed"]
             /\ Wrote(w, k, "idle")
        ELSE Done(w) /\ UNCHANGED <<op, session>>
     /\ UNCHANGED <<wire, upstream, deaths>>

WorkerDies(w) ==
  /\ ~At(w, "idle") /\ deaths < MaxDeaths
  /\ deaths' = deaths + 1
  /\ Done(w)
  /\ UNCHANGED <<session, op, wire, upstream>>
----------------------------------------------------------------------------
(* The operator *)

\* What reconcile does with the operation it read.  Verdicts, and those that
\* wait for a dispatch or a person, are left alone.  The supplier is asked about
\* the others, even a succeeded one; where the connection's adapter is gone or
\* cannot retrieve a reservation, the operation waits for a person.
Reconcile(w, k) ==
  LET state == op[k].state
      asking == [at |-> "ask", key |-> k, quote |-> 0, fresh |-> TRUE]
  IN /\ At(w, "idle") /\ state # "none"
     /\ CASE state \in Failed ->
               work' = [work EXCEPT ![w] = [asking EXCEPT !.at = "giveback"]] /\ UNCHANGED op
          [] state \in {"submitted", "manual_review", "resolved_succeeded"} ->
               work' = [work EXCEPT ![w] = [asking EXCEPT !.at = "stamp"]] /\ UNCHANGED op
          [] OTHER ->
               \/ /\ op[k].ref \/ LookupByKey
                  /\ work' = [work EXCEPT ![w] = asking] /\ UNCHANGED op
               \/ /\ op' = [op EXCEPT ![k].state = "manual_review"]
                  /\ work' = [x \in Workers |->
                                IF x = w THEN [asking EXCEPT !.at = "stamp"]
                                ELSE [work[x] EXCEPT !.fresh = @ /\ work[x].key # k]]
     /\ UNCHANGED <<session, wire, upstream, deaths>>

\* Mutant: a reservation that is not found counts as refused.
ObservedAbsenceRefuses(status) ==
  CASE status = "none" -> {"in_doubt", "refused"}
    [] status = "pending" -> {"in_doubt", "pending"}
    [] status = "confirmed" -> {"in_doubt", "pending", "succeeded"}
    [] status = "failed" -> {"in_doubt", "pending", "refused"}
    [] status = "cancelled" -> {"in_doubt", "cancelled"}

\* Mutant: the supplier's word is stored as the state of the operation.
ObservedVerbatim(status) == IF status = "none" THEN {"in_doubt"} ELSE {status}

\* What an observation makes of the operation; nothing there, or an error,
\* leaves it in doubt.
Observed(status) ==
  CASE status = "none" -> {"in_doubt"}
    [] status = "pending" -> {"in_doubt", "pending"}
    [] status = "confirmed" -> {"in_doubt", "pending", "succeeded"}
    [] status = "failed" -> {"in_doubt", "pending", "refused"}
    [] status = "cancelled" -> {"in_doubt", "cancelled"}

\* The answer of getReservation; one that is no newer than the last changes
\* nothing.
SupplierObserved(w) ==
  LET k == work[w].key
  IN /\ At(w, "ask")
     /\ \E state \in Observed(upstream[k])
                      \cup (IF upstream[k] = "none" THEN {} ELSE {op[k].state}) :
          Save(w, k, state, IF state \in Failed THEN "giveback" ELSE "stamp")
     /\ UNCHANGED <<session, wire, upstream, deaths>>

GiveBack(w) ==
  /\ At(w, "giveback")
  /\ Reopen /\ GoTo(w, "stamp")
  /\ UNCHANGED <<op, wire, upstream, deaths>>

\* The reconciliation is noted on the operation, which is one more write.
Stamp(w) ==
  LET k == work[w].key
  IN /\ At(w, "stamp")
     /\ IF work[w].fresh THEN Wrote(w, k, "idle") ELSE Done(w)
     /\ UNCHANGED <<session, op, wire, upstream, deaths>>

\* resolve, in one transaction with the operation FOR UPDATE.  The operator
\* knows what the supplier has, once nothing is underway.
Resolve(k, state) ==
  /\ op[k].state \in Unsettled /\ k \notin wire
  /\ state = "resolved_succeeded" => upstream[k] = "confirmed"
  /\ state = "resolved_failed" => upstream[k] \in {"none", "failed", "cancelled"}
  /\ op' = [op EXCEPT ![k].state = state, ![k].ref = @ \/ state = "resolved_succeeded"]
  /\ IF state = "resolved_failed" THEN Reopen ELSE UNCHANGED session
  /\ work' = [x \in Workers |-> [work[x] EXCEPT !.fresh = @ /\ work[x].key # k]]
  /\ UNCHANGED <<wire, upstream, deaths>>

ResolveOperation(k) == \E state \in {"resolved_succeeded", "resolved_failed"} : Resolve(k, state)
----------------------------------------------------------------------------
(* The supplier, who knows a request by its key *)

Receives(k) ==
  /\ k \in wire
  /\ wire' = wire \ {k}
  /\ \E status \in {"pending", "confirmed", "failed"} :
       upstream' = IF upstream[k] = "none" THEN [upstream EXCEPT ![k] = status] ELSE upstream
  /\ UNCHANGED <<session, op, work, deaths>>

RequestLost(k) ==
  /\ k \in wire
  /\ wire' = wire \ {k}
  /\ UNCHANGED <<session, op, upstream, work, deaths>>

Settles(k) ==
  /\ upstream[k] = "pending"
  /\ \E status \in {"confirmed", "failed"} : upstream' = [upstream EXCEPT ![k] = status]
  /\ UNCHANGED <<session, op, wire, work, deaths>>

Withdraws(k) ==
  /\ upstream[k] = "confirmed"
  /\ upstream' = [upstream EXCEPT ![k] = "cancelled"]
  /\ UNCHANGED <<session, op, wire, work, deaths>>
----------------------------------------------------------------------------
CommitSteps(w) ==
  \/ ClaimOperation(w) \/ Dispatch(w)
  \/ AdapterAnswers(w) \/ AdapterInDoubt(w)
  \/ ReopenSession(w) \/ MaterializeBooking(w)

OperatorSteps(w) == SupplierObserved(w) \/ GiveBack(w) \/ Stamp(w)

Supplier(k) == Receives(k) \/ Settles(k)

Next ==
  \/ Requote \/ AbandonSession \/ SessionLapses \/ ExpireSession
  \/ \E w \in Workers, k \in Keys : BeginCommit(w, k) \/ Reconcile(w, k)
  \/ \E w \in Workers : CommitSteps(w) \/ OperatorSteps(w) \/ DispatchUnsupported(w)
                          \/ AdapterNotSent(w) \/ WorkerDies(w)
  \/ \E k \in Keys : Supplier(k) \/ RequestLost(k) \/ Withdraws(k) \/ ResolveOperation(k)

Spec == Init /\ [][Next]_vars
----------------------------------------------------------------------------
(* Properties *)

\* The supplier holds at most one reservation for a session, requests that are
\* still underway included (catalog-booking-engine.md, sourced supplier-first).
OneReservation ==
  Cardinality({k \in Keys : k \in wire \/ upstream[k] \in {"pending", "confirmed"}}) <= 1

\* A session is consumed by one booking, of an operation whose reservation the
\* supplier had confirmed (commitSourcedBooking).
BookedIsSecured ==
  /\ session.state = "consumed" <=> \E k \in Keys : op[k].booked
  /\ Cardinality({k \in Keys : op[k].booked}) <= 1
  /\ \A k \in Keys : op[k].booked => upstream[k] \in {"confirmed", "cancelled"}

\* A refusal, a cancellation and an operator's verdict are final, whoever read
\* the operation before (save, resolve).
VerdictsStand ==
  [][\A k \in Keys : op[k].state \in Failed \cup {"resolved_succeeded"}
                       => op'[k].state = op[k].state]_vars

\* Unless a process died, a session is never left frozen over a refusal: when no
\* request is at work, the operation it waits for is one that may still end well,
\* whichever of a Commit, a reconciliation and an operator's verdict brought the
\* refusal (reopenSessionAfterSupplierFailure, reopenSupplierPendingSession).
RefusalsReopen ==
  deaths = 0 /\ (\A w \in Workers : At(w, "idle")) /\ session.state = "supplier_pending" => Blocked

\* A secured operation that has no booking yet can still become one, for its
\* quote is current and its session is open (catalog-booking-engine.md:209).
SecuredCanBeBooked ==
  \A k \in Keys :
    op[k].state \in Secured /\ ~op[k].booked
    => session.quote = op[k].quote /\ session.state \in {"active", "supplier_pending"}
============================================================================
