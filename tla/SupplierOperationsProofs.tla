---------------------- MODULE SupplierOperationsProofs ----------------------
(***************************************************************************)
(* Proofs about SupplierOperations, for any commit keys, requests, quotes  *)
(* and deaths, and whether or not the supplier can be asked by key: its    *)
(* type invariant; that the supplier holds one reservation for a session;  *)
(* that a consumed session has one booking, of a confirmed reservation;    *)
(* that verdicts are final; and that a session is not left frozen over a   *)
(* refusal.                                                                *)
(***************************************************************************)
EXTENDS SupplierOperations, FiniteSetTheorems, TLAPS

\* A busy worker is about an operation.
WorkersKnowTheirKey == \A w \in Workers : ~At(w, "idle") => work[w].key \in Keys

\* A worker that sends or asks, and whose copy is fresh, knows how far the
\* operation has come.
FreshMeansUnchanged ==
  \A w \in Workers :
    work[w].fresh =>
      /\ At(w, "await") => op[work[w].key].state = "submitted"
      /\ At(w, "ask") => op[work[w].key].state \in {"queued", "pending", "in_doubt", "succeeded"}

\* What the state of an operation says about the supplier: one that was not
\* sent is not known there, a failed one is not held there and will not be, a
\* secured or booked one was confirmed.
MatchesSupplier(k) ==
  /\ op[k].state \in {"none", "queued"} => k \notin wire /\ upstream[k] = "none"
  /\ op[k].state \in Failed => k \notin wire /\ upstream[k] \in {"none", "failed", "cancelled"}
  /\ op[k].state \in Secured \/ op[k].booked => upstream[k] \in {"confirmed", "cancelled"}
  /\ k \in wire => upstream[k] = "none"

StatesMatchSupplier == \A k \in Keys : MatchesSupplier(k)

\* The partial unique index on the operations of a session.
OneBlocks == \A j, k \in Keys : op[j].state \in Blocking /\ op[k].state \in Blocking => j = k

OneBooking ==
  /\ session.state = "consumed" <=> \E k \in Keys : op[k].booked
  /\ \A j, k \in Keys : op[j].booked /\ op[k].booked => j = k

Job == [at: {"idle", "claim", "dispatch", "await", "book", "reopen", "ask", "giveback", "stamp"},
        key: Keys \cup {None}, quote: 0..MaxQuotes, fresh: BOOLEAN]

WorkTyped == work \in [Workers -> Job] /\ WorkersKnowTheirKey

Row == [state: {"none"} \cup Blocking \cup Failed, quote: 0..MaxQuotes, ref: BOOLEAN, booked: BOOLEAN]

RowsTyped ==
  /\ session \in [state: {"active", "supplier_pending", "consumed", "over"},
                  quote: 1..MaxQuotes, lapsed: BOOLEAN]
  /\ op \in [Keys -> Row]
  /\ wire \subseteq Keys
  /\ upstream \in [Keys -> {"none", "pending", "confirmed", "failed", "cancelled"}]
  /\ deaths \in 0..MaxDeaths

Typed == RowsTyped /\ WorkTyped

IInv == Typed /\ FreshMeansUnchanged /\ StatesMatchSupplier /\ OneBlocks /\ OneBooking

USE ConstantsAssumption

LEMMA TypedIsTypeOK == Typed => TypeOK
BY DEF Typed, RowsTyped, WorkTyped, TypeOK, Row, Job

LEMMA InitIInv == Init => IInv
BY DEF Init, IInv, Typed, RowsTyped, WorkTyped, Row, Job, WorkersKnowTheirKey, FreshMeansUnchanged,
       StatesMatchSupplier, MatchesSupplier, OneBlocks, OneBooking, At, Idle, Blocking, Unsettled, Secured, Failed

Steps == {"idle", "claim", "dispatch", "await", "book", "reopen", "ask", "giveback", "stamp"}

LEMMA IdleJob == Idle \in Job
BY DEF Job, Idle

LEMMA MovedJob == ASSUME NEW job \in Job, NEW step \in Steps PROVE [job EXCEPT !.at = step] \in Job
BY DEF Job, Steps

LEMMA WrittenJob ==
  ASSUME NEW job \in Job, NEW step \in Steps
  PROVE  [job EXCEPT !.at = step, !.fresh = TRUE] \in Job
BY DEF Job, Steps

\* A copy that goes stale if it is of operation k.
Stale(job, k) == [job EXCEPT !.fresh = @ /\ job.key # k]

LEMMA StaleJob ==
  ASSUME NEW job \in Job, NEW k
  PROVE  Stale(job, k) \in Job /\ Stale(job, k).at = job.at /\ Stale(job, k).key = job.key
<1>1. (job.fresh /\ job.key # k) \in BOOLEAN
  OBVIOUS
<1>2. ASSUME NEW fresh \in BOOLEAN
      PROVE  /\ [job EXCEPT !.fresh = fresh] \in Job
             /\ [job EXCEPT !.fresh = fresh].at = job.at
             /\ [job EXCEPT !.fresh = fresh].key = job.key
  BY DEF Job
<1> QED
  BY <1>1, <1>2 DEF Stale

\* Writing operation k, or only one's own step, leaves every worker well typed.
LEMMA WorkersTyped ==
  ASSUME WorkTyped, DOMAIN work' = Workers, NEW k,
         work' = [x \in Workers |-> work'[x]],
         \A x \in Workers : \/ work'[x] = work[x]
                            \/ work'[x] = Stale(work[x], k)
                            \/ work'[x] \in Job /\ (work'[x].at # "idle" => work'[x].key \in Keys)
  PROVE  WorkTyped'
<1> USE DEF WorkTyped
<1>1. ASSUME NEW x \in Workers
      PROVE  work'[x] \in Job /\ (work'[x].at # "idle" => work'[x].key \in Keys)
  <2>1. work[x] \in Job /\ (work[x].at # "idle" => work[x].key \in Keys)
    BY DEF WorkersKnowTheirKey, At
  <2> QED
    BY <2>1, StaleJob
<1> QED
  BY <1>1 DEF WorkersKnowTheirKey, At

LEMMA WroteTyped ==
  ASSUME WorkTyped, NEW w \in Workers, ~At(w, "idle"), NEW k, NEW step \in Steps, Wrote(w, k, step)
  PROVE  WorkTyped'
<1>1. work[w] \in Job /\ work[w].key \in Keys
  BY DEF WorkTyped, WorkersKnowTheirKey, At
<1>2. work'[w] \in Job /\ (work'[w].at # "idle" => work'[w].key \in Keys)
  <2>1. CASE step = "idle"
    BY <2>1, IdleJob DEF Wrote, Idle
  <2>2. CASE step # "idle"
    BY <1>1, <2>2, WrittenJob DEF Wrote, Job
  <2> QED
    BY <2>1, <2>2
<1>3. \A x \in Workers \ {w} : work'[x] = Stale(work[x], k)
  BY DEF Wrote, Stale
<1> QED
  BY <1>2, <1>3, WorkersTyped DEF Wrote

LEMMA DoneTyped == ASSUME WorkTyped, NEW w \in Workers, Done(w) PROVE WorkTyped'
BY IdleJob DEF WorkTyped, Done, WorkersKnowTheirKey, At, Idle

LEMMA GoToTyped ==
  ASSUME WorkTyped, NEW w \in Workers, ~At(w, "idle"), NEW step \in Steps, GoTo(w, step)
  PROVE  WorkTyped'
<1> USE DEF WorkTyped
<1>1. work[w] \in Job /\ work[w].key \in Keys
  BY DEF WorkersKnowTheirKey, At
<1>2. work'[w] \in Job /\ work'[w].key \in Keys
  BY <1>1, MovedJob DEF GoTo, Job
<1>3. \A x \in Workers \ {w} : work'[x] = work[x]
  BY DEF GoTo
<1> QED
  BY <1>2, <1>3, WorkersTyped DEF GoTo

LEMMA StepWorkTyped == Typed /\ [Next]_vars => WorkTyped'
<1> SUFFICES ASSUME Typed, [Next]_vars PROVE WorkTyped'
  OBVIOUS
<1>0. WorkTyped /\ session.quote \in 0..MaxQuotes
  BY DEF Typed, RowsTyped
<1>1. ASSUME UNCHANGED work PROVE WorkTyped'
  BY <1>0, <1>1 DEF WorkTyped, WorkersKnowTheirKey, At
<1>2. ASSUME NEW w \in Workers, NEW k \in Keys, BeginCommit(w, k) PROVE WorkTyped'
  <2> DEFINE job == [at |-> "claim", key |-> k, quote |-> session.quote, fresh |-> FALSE]
  <2>1. job \in Job /\ job.key = k
    BY <1>0 DEF Job
  <2>2. work' = [work EXCEPT ![w] = job]
    BY <1>2 DEF BeginCommit
  <2> HIDE DEF job
  <2>3. work'[w] \in Job /\ work'[w].key = k /\ \A x \in Workers \ {w} : work'[x] = work[x]
    BY <1>0, <2>1, <2>2 DEF WorkTyped
  <2> QED
    BY <1>0, <2>3, <2>2, WorkersTyped DEF WorkTyped
<1>3. ASSUME NEW w \in Workers, NEW k \in Keys, Reconcile(w, k) PROVE WorkTyped'
  <2> DEFINE asking == [at |-> "ask", key |-> k, quote |-> 0, fresh |-> TRUE]
  <2>1. asking \in Job /\ asking.key = k
    BY DEF Job
  <2>2. \A step \in Steps : [asking EXCEPT !.at = step] \in Job /\ [asking EXCEPT !.at = step].key = k
    BY <2>1, MovedJob
  <2>3. \E job \in {asking, [asking EXCEPT !.at = "giveback"], [asking EXCEPT !.at = "stamp"]} :
          \/ work' = [work EXCEPT ![w] = job]
          \/ work' = [x \in Workers |-> IF x = w THEN job ELSE Stale(work[x], k)]
    BY <1>3 DEF Reconcile, Stale
  <2>4. PICK job \in {asking, [asking EXCEPT !.at = "giveback"], [asking EXCEPT !.at = "stamp"]} :
          \/ work' = [work EXCEPT ![w] = job]
          \/ work' = [x \in Workers |-> IF x = w THEN job ELSE Stale(work[x], k)]
    BY <2>3
  <2>5. job \in Job /\ job.key \in Keys
    BY <2>1, <2>2 DEF Steps
  <2> QED
    BY <1>0, <2>4, <2>5, WorkersTyped DEF WorkTyped
<1>4. ASSUME NEW w \in Workers, CommitSteps(w) PROVE WorkTyped'
  <2>1. ~At(w, "idle") /\ work[w].key \in Keys
    BY <1>0, <1>4 DEF CommitSteps, ClaimOperation, Dispatch, AdapterAnswers, AdapterInDoubt, ReopenSession,
            MaterializeBooking, At, WorkTyped, WorkersKnowTheirKey
  <2>2. \/ Done(w)
        \/ GoTo(w, "dispatch") \/ GoTo(w, "reopen") \/ GoTo(w, "book")
        \/ \E step \in {"idle", "await", "book", "reopen"} : Wrote(w, work[w].key, step)
    BY <1>4 DEF CommitSteps, ClaimOperation, Dispatch, AdapterAnswers, After, AdapterInDoubt, Save,
            ReopenSession, MaterializeBooking
  <2> QED
    BY <1>0, <2>1, <2>2, DoneTyped, GoToTyped, WroteTyped DEF Steps
<1>5. ASSUME NEW w \in Workers, OperatorSteps(w) PROVE WorkTyped'
  <2>1. ~At(w, "idle")
    BY <1>5 DEF OperatorSteps, SupplierObserved, GiveBack, Stamp, At
  <2>2. \/ Done(w) \/ GoTo(w, "stamp")
        \/ \E step \in {"idle", "giveback", "stamp"} : Wrote(w, work[w].key, step)
    BY <1>5 DEF OperatorSteps, SupplierObserved, Save, GiveBack, Stamp
  <2> QED
    BY <1>0, <2>1, <2>2, DoneTyped, GoToTyped, WroteTyped DEF Steps
<1>6. ASSUME NEW w \in Workers, DispatchUnsupported(w) \/ AdapterNotSent(w) \/ WorkerDies(w)
      PROVE  WorkTyped'
  <2>1. ~At(w, "idle")
    BY <1>6 DEF DispatchUnsupported, AdapterNotSent, WorkerDies, At
  <2>2. Done(w) \/ \E step \in {"idle", "reopen"} : Wrote(w, work[w].key, step)
    BY <1>6 DEF DispatchUnsupported, AdapterNotSent, WorkerDies, Save
  <2> QED
    BY <1>0, <2>1, <2>2, DoneTyped, WroteTyped DEF Steps
<1>7. ASSUME NEW k \in Keys, ResolveOperation(k) PROVE WorkTyped'
  <2>1. work' = [x \in Workers |-> Stale(work[x], k)]
    BY <1>7 DEF ResolveOperation, Resolve, Stale
  <2> QED
    BY <1>0, <2>1, WorkersTyped
<1>8. ASSUME \/ Requote \/ AbandonSession \/ SessionLapses \/ ExpireSession
             \/ \E k \in Keys : Supplier(k) \/ RequestLost(k) \/ Withdraws(k)
      PROVE  UNCHANGED work
  BY <1>8 DEF Requote, AbandonSession, SessionLapses, ExpireSession, Supplier, Receives, Settles,
          RequestLost, Withdraws
<1> QED
  BY <1>1, <1>2, <1>3, <1>4, <1>5, <1>6, <1>7, <1>8 DEF Next, vars

\* What a step may make of operation k.
Rewritten(k) ==
  \/ op' = op
  \/ op' = [op EXCEPT ![k].booked = TRUE]
  \/ \E state \in {"none"} \cup Blocking \cup Failed :
       \/ op' = [op EXCEPT ![k].state = state]
       \/ \E quote \in 0..MaxQuotes : op' = [op EXCEPT ![k].state = state, ![k].quote = quote]
       \/ \E ref \in BOOLEAN : op' = [op EXCEPT ![k].state = state, ![k].ref = ref]

LEMMA RewrittenTyped ==
  ASSUME op \in [Keys -> Row], NEW k \in Keys, Rewritten(k)
  PROVE  op' \in [Keys -> Row]
<1>1. op[k] \in Row
  OBVIOUS
<1>2. ASSUME NEW row \in Row, op' = [op EXCEPT ![k] = row] PROVE op' \in [Keys -> Row]
  BY <1>2
<1>3. [op[k] EXCEPT !.booked = TRUE] \in Row
  BY <1>1 DEF Row
<1>4. ASSUME NEW state \in {"none"} \cup Blocking \cup Failed
      PROVE  /\ [op[k] EXCEPT !.state = state] \in Row
             /\ \A quote \in 0..MaxQuotes : [op[k] EXCEPT !.state = state, !.quote = quote] \in Row
             /\ \A ref \in BOOLEAN : [op[k] EXCEPT !.state = state, !.ref = ref] \in Row
  BY <1>1 DEF Row
<1> QED
  BY <1>2, <1>3, <1>4 DEF Rewritten

LEMMA StepRowsTyped == Typed /\ [Next]_vars => RowsTyped'
<1> SUFFICES ASSUME Typed, [Next]_vars PROVE RowsTyped'
  OBVIOUS
<1>0. RowsTyped /\ \A w \in Workers : /\ ~At(w, "idle") => work[w].key \in Keys
                                      /\ work[w].quote \in 0..MaxQuotes
  BY DEF Typed, WorkTyped, WorkersKnowTheirKey, Job
<1> USE <1>0 DEF RowsTyped, At
<1>1. CASE Requote
  BY <1>1 DEF Requote
<1>2. CASE AbandonSession \/ SessionLapses \/ ExpireSession
  BY <1>2 DEF AbandonSession, SessionLapses, ExpireSession
<1>3. ASSUME NEW w \in Workers, NEW k \in Keys, BeginCommit(w, k) PROVE RowsTyped'
  BY <1>3 DEF BeginCommit
<1>4. ASSUME NEW w \in Workers, NEW k \in Keys, Reconcile(w, k) PROVE RowsTyped'
  <2>1. op' \in [Keys -> Row]
    BY <1>4, RewrittenTyped DEF Rewritten, Reconcile, Blocking, Unsettled
  <2> QED
    BY <1>4, <2>1 DEF Reconcile
<1>5. ASSUME NEW w \in Workers, ClaimOperation(w) PROVE RowsTyped'
  <2>1. op' \in [Keys -> Row]
    BY <1>5, RewrittenTyped DEF Rewritten, ClaimOperation, Blocking, Unsettled
  <2> QED
    BY <1>5, <2>1 DEF ClaimOperation
<1>6. ASSUME NEW w \in Workers, Dispatch(w) PROVE RowsTyped'
  <2>1. op' \in [Keys -> Row]
    BY <1>6, RewrittenTyped DEF Rewritten, Dispatch, Blocking, Unsettled
  <2> QED
    BY <1>6, <2>1 DEF Dispatch
<1>7. ASSUME NEW w \in Workers, AdapterAnswers(w) PROVE RowsTyped'
  <2>1. op' \in [Keys -> Row]
    BY <1>7, RewrittenTyped DEF Rewritten, AdapterAnswers, Answers, Blocking, Unsettled, Secured, Failed
  <2> QED
    BY <1>7, <2>1 DEF AdapterAnswers
<1>8. ASSUME NEW w \in Workers, AdapterInDoubt(w) \/ AdapterNotSent(w) \/ DispatchUnsupported(w)
      PROVE  RowsTyped'
  <2>1. op' \in [Keys -> Row]
    BY <1>8, RewrittenTyped DEF Rewritten, AdapterInDoubt, AdapterNotSent, DispatchUnsupported, Save, Blocking,
           Unsettled, Failed
  <2> QED
    BY <1>8, <2>1 DEF AdapterInDoubt, AdapterNotSent, DispatchUnsupported
<1>9. ASSUME NEW w \in Workers, ReopenSession(w) \/ GiveBack(w) PROVE RowsTyped'
  BY <1>9 DEF ReopenSession, GiveBack, Reopen
<1>10. ASSUME NEW w \in Workers, MaterializeBooking(w) PROVE RowsTyped'
  <2>1. op' \in [Keys -> Row]
    BY <1>10, RewrittenTyped DEF Rewritten, MaterializeBooking, Secured, Blocking
  <2> QED
    BY <1>10, <2>1 DEF MaterializeBooking
<1>11. ASSUME NEW w \in Workers, SupplierObserved(w) PROVE RowsTyped'
  <2> DEFINE k == work[w].key
  <2>1. k \in Keys /\ op[k].state \in {"none"} \cup Blocking \cup Failed
    BY <1>11 DEF SupplierObserved, Row
  <2>2. Observed(upstream[k]) \subseteq Blocking \cup Failed
    BY <2>1 DEF Observed, Blocking, Unsettled, Secured, Failed
  <2>3. Rewritten(k)
    BY <1>11, <2>1, <2>2 DEF SupplierObserved, Save, Rewritten
  <2>4. op' \in [Keys -> Row]
    BY <2>1, <2>3, RewrittenTyped
  <2> QED
    BY <1>11, <2>4 DEF SupplierObserved
<1>12. ASSUME NEW w \in Workers, Stamp(w) \/ WorkerDies(w) PROVE RowsTyped'
  BY <1>12 DEF Stamp, WorkerDies
<1>13. ASSUME NEW k \in Keys, Supplier(k) \/ RequestLost(k) \/ Withdraws(k) PROVE RowsTyped'
  BY <1>13 DEF Supplier, Receives, Settles, RequestLost, Withdraws
<1>14. ASSUME NEW k \in Keys, NEW state \in {"resolved_succeeded", "resolved_failed"},
              Resolve(k, state)
       PROVE  RowsTyped'
  <2>1. op[k] \in Row /\ (op[k].ref \/ state = "resolved_succeeded") \in BOOLEAN
    OBVIOUS
  <2>2. op' \in [Keys -> Row]
    BY <1>14, <2>1, RewrittenTyped DEF Rewritten, Resolve, Blocking, Secured, Failed
  <2> QED
    BY <1>14, <2>2 DEF Resolve, Reopen
<1>15. CASE UNCHANGED vars
  BY <1>15 DEF vars
<1> QED
  BY <1>1, <1>2, <1>3, <1>4, <1>5, <1>6, <1>7, <1>8, <1>9, <1>10, <1>11, <1>12, <1>13, <1>14, <1>15
  DEF Next, CommitSteps, OperatorSteps, ResolveOperation

\* Every row and every worker keeps its type (TypeOK).
THEOREM TypeCorrect == Spec => []TypeOK
<1>1. Init => Typed
  BY InitIInv DEF IInv
<1>2. Typed /\ [Next]_vars => Typed'
  BY StepRowsTyped, StepWorkTyped DEF Typed
<1> QED
  BY <1>1, <1>2, TypedIsTypeOK, PTL DEF Spec
----------------------------------------------------------------------------
\* A copy stays fresh only as long as nobody writes the operation.
LEMMA FreshKept ==
  ASSUME Typed, FreshMeansUnchanged, NEW k \in Keys,
         \A j \in Keys \ {k} : op'[j].state = op[j].state,
         \A x \in Workers :
           \/ work'[x] = Stale(work[x], k)
           \/ work'[x] = work[x] /\ op'[k].state = op[k].state
           \/ work'[x].at \notin {"await", "ask"} \/ ~work'[x].fresh
           \/ work'[x].at = "await" /\ op'[work'[x].key].state = "submitted"
           \/ /\ work'[x].at = "ask"
              /\ op'[work'[x].key].state \in {"queued", "pending", "in_doubt", "succeeded"}
  PROVE  FreshMeansUnchanged'
<1> SUFFICES ASSUME NEW x \in Workers, work'[x].fresh, work'[x].at \in {"await", "ask"}
             PROVE  /\ work'[x].at = "await" => op'[work'[x].key].state = "submitted"
                    /\ work'[x].at = "ask" => op'[work'[x].key].state
                                                \in {"queued", "pending", "in_doubt", "succeeded"}
  BY DEF FreshMeansUnchanged, At
<1>0. work[x] \in Job /\ (work[x].at # "idle" => work[x].key \in Keys)
  BY DEF Typed, WorkTyped, WorkersKnowTheirKey, At
<1>1. CASE work'[x] = Stale(work[x], k)
  <2>1. work'[x].at = work[x].at /\ work'[x].key = work[x].key
    BY <1>0, <1>1, StaleJob
  <2>2. work[x].fresh /\ work[x].key # k
    BY <1>0, <1>1 DEF Stale, Job
  <2> QED
    BY <1>0, <2>1, <2>2 DEF FreshMeansUnchanged, At
<1>2. CASE work'[x] = work[x] /\ op'[k].state = op[k].state
  BY <1>0, <1>2 DEF FreshMeansUnchanged, At
<1> QED
  BY <1>1, <1>2

\* Who else is stale after a write.
LEMMA WroteStale ==
  ASSUME NEW w \in Workers, NEW k, NEW step, Wrote(w, k, step)
  PROVE  \A x \in Workers \ {w} : work'[x] = Stale(work[x], k)
BY DEF Wrote, Stale

LEMMA WroteAt ==
  ASSUME Typed, NEW w \in Workers, NEW k, NEW step \in Steps, Wrote(w, k, step)
  PROVE  work'[w].at = step /\ (step # "idle" => work'[w].key = work[w].key)
BY DEF Typed, WorkTyped, Job, Wrote, Idle

Quiet == Steps \ {"await", "ask"}

LEMMA WroteKeepsFresh ==
  ASSUME Typed, FreshMeansUnchanged, NEW w \in Workers, NEW k \in Keys, NEW step \in Quiet,
         \A j \in Keys \ {k} : op'[j].state = op[j].state, Wrote(w, k, step)
  PROVE  FreshMeansUnchanged'
<1>1. work'[w].at \notin {"await", "ask"}
  BY WroteAt DEF Quiet
<1>2. \A x \in Workers \ {w} : work'[x] = Stale(work[x], k)
  BY WroteStale
<1> QED
  BY <1>1, <1>2, FreshKept

LEMMA MoveKeepsFresh ==
  ASSUME Typed, FreshMeansUnchanged, NEW w \in Workers, UNCHANGED op,
         Done(w) \/ \E step \in Quiet : GoTo(w, step)
  PROVE  FreshMeansUnchanged'
<1>1. \A x \in Workers \ {w} : work'[x] = work[x]
  BY DEF Done, GoTo, Typed, WorkTyped
<1>2. work'[w].at \notin {"await", "ask"}
  BY DEF Done, GoTo, Quiet, Idle, Typed, WorkTyped, Job
<1> QED
  BY <1>1, <1>2 DEF FreshMeansUnchanged, At

\* Every write of an operation is one of these.
LEMMA SaveKeepsFresh ==
  ASSUME Typed, FreshMeansUnchanged, NEW w \in Workers, ~At(w, "idle"),
         NEW state, NEW step \in Quiet, Save(w, work[w].key, state, step)
  PROVE  FreshMeansUnchanged'
<1>1. work[w].key \in Keys
  BY DEF Typed, WorkTyped, WorkersKnowTheirKey
<1>2. CASE work[w].fresh
  <2>1. \A j \in Keys \ {work[w].key} : op'[j].state = op[j].state
    BY <1>2 DEF Save, Typed, RowsTyped
  <2> QED
    BY <1>1, <1>2, <2>1, WroteKeepsFresh DEF Save
<1>3. CASE ~work[w].fresh
  BY <1>3, MoveKeepsFresh DEF Save
<1> QED
  BY <1>2, <1>3

LEMMA StepFresh == IInv /\ [Next]_vars => FreshMeansUnchanged'
<1> SUFFICES ASSUME IInv, [Next]_vars PROVE FreshMeansUnchanged'
  OBVIOUS
<1>0. /\ Typed /\ FreshMeansUnchanged /\ op \in [Keys -> Row] /\ work \in [Workers -> Job]
      /\ \A w \in Workers : ~At(w, "idle") => work[w].key \in Keys
  BY DEF IInv, Typed, RowsTyped, WorkTyped, WorkersKnowTheirKey
<1>1. ASSUME UNCHANGED <<op, work>> PROVE FreshMeansUnchanged'
  BY <1>0, <1>1 DEF FreshMeansUnchanged, At
<1>2. ASSUME NEW w \in Workers, NEW k \in Keys, BeginCommit(w, k) PROVE FreshMeansUnchanged'
  BY <1>0, <1>2 DEF BeginCommit, FreshMeansUnchanged, At
<1>3. ASSUME NEW w \in Workers, NEW k \in Keys, Reconcile(w, k) PROVE FreshMeansUnchanged'
  <2>1. \/ /\ UNCHANGED op /\ \A x \in Workers \ {w} : work'[x] = work[x]
           /\ \/ work'[w].at \in Quiet
              \/ /\ work'[w].at = "ask" /\ work'[w].key = k
                 /\ op[k].state \in {"queued", "pending", "in_doubt", "succeeded"}
        \/ /\ \A j \in Keys \ {k} : op'[j] = op[j]
           /\ \A x \in Workers \ {w} : work'[x] = Stale(work[x], k)
           /\ work'[w].at = "stamp"
    BY <1>0, <1>3 DEF Reconcile, Stale, Quiet, Steps, Row, Blocking, Unsettled, Secured, Failed
  <2> QED
    BY <1>0, <2>1, FreshKept DEF Quiet
<1>4. ASSUME NEW w \in Workers, ClaimOperation(w) PROVE FreshMeansUnchanged'
  <2>0. GoTo(w, "dispatch") \/ Done(w)
    BY <1>4 DEF ClaimOperation
  <2>1. \A x \in Workers \ {w} : work'[x] = work[x]
    BY <1>0, <2>0 DEF GoTo, Done
  <2>2. work'[w].at \in {"dispatch", "idle"}
    BY <1>0, <2>0 DEF GoTo, Done, Idle, Job
  <2>3. \A k \in Keys : op'[k].state = op[k].state \/ op[k].state = "none"
    BY <1>0, <1>4 DEF ClaimOperation
  <2> QED
    BY <1>0, <2>1, <2>2, <2>3 DEF FreshMeansUnchanged, At
<1>5. ASSUME NEW w \in Workers, Dispatch(w) PROVE FreshMeansUnchanged'
  <2> DEFINE k == work[w].key
  <2>0. k \in Keys /\ ~At(w, "idle")
    BY <1>0, <1>5 DEF Dispatch, At
  <2>1. CASE op[k].state = "queued"
    <3>1. op' = [op EXCEPT ![k].state = "submitted"] /\ Wrote(w, k, "await")
      BY <1>5, <2>1 DEF Dispatch, Failed, Secured
    <3>2. work'[w].at = "await" /\ work'[w].key = k
      <4>1. Wrote(w, k, "await") /\ "await" \in Steps
        BY <3>1 DEF Steps
      <4> HIDE DEF k
      <4>2. work'[w].at = "await" /\ work'[w].key = work[w].key
        BY <1>0, <4>1, WroteAt
      <4> QED
        BY <4>2 DEF k
    <3>3. \A x \in Workers \ {w} : work'[x] = Stale(work[x], k)
      BY <3>1, WroteStale
    <3>4. op'[k].state = "submitted" /\ \A j \in Keys \ {k} : op'[j].state = op[j].state
      BY <1>0, <2>0, <3>1 DEF Row
    <3> QED
      BY <1>0, <2>0, <3>2, <3>3, <3>4, FreshKept
  <2>2. CASE op[k].state # "queued"
    <3>1. UNCHANGED op /\ (Done(w) \/ GoTo(w, "reopen") \/ GoTo(w, "book"))
      BY <1>5, <2>2 DEF Dispatch
    <3> QED
      BY <1>0, <3>1, MoveKeepsFresh DEF Quiet, Steps
  <2> QED
    BY <2>1, <2>2
<1>6. ASSUME NEW w \in Workers, AdapterAnswers(w) PROVE FreshMeansUnchanged'
  <2> DEFINE k == work[w].key
  <2>1. CASE work[w].fresh
    <3>1. PICK state : op' = [op EXCEPT ![k].state = state, ![k].ref = TRUE]
                       /\ Wrote(w, k, After(state))
      BY <1>6, <2>1 DEF AdapterAnswers
    <3>2. After(state) \in Quiet
      BY DEF After, Quiet, Steps
    <3>3. k \in Keys /\ \A j \in Keys \ {k} : op'[j].state = op[j].state
      BY <1>0, <1>6, <3>1 DEF AdapterAnswers, At
    <3> QED
      BY <1>0, <3>1, <3>2, <3>3, WroteKeepsFresh
  <2>2. CASE ~work[w].fresh
    BY <1>0, <1>6, <2>2, MoveKeepsFresh DEF AdapterAnswers
  <2> QED
    BY <2>1, <2>2
<1>7. ASSUME NEW w \in Workers, AdapterInDoubt(w) \/ AdapterNotSent(w) PROVE FreshMeansUnchanged'
  <2>1. ~At(w, "idle")
    BY <1>7 DEF AdapterInDoubt, AdapterNotSent, At
  <2> QED
    BY <1>0, <1>7, <2>1, SaveKeepsFresh DEF AdapterInDoubt, AdapterNotSent, Quiet, Steps
<1>8. ASSUME NEW w \in Workers, DispatchUnsupported(w) PROVE FreshMeansUnchanged'
  <2>1. work[w].key \in Keys
    BY <1>0, <1>8 DEF DispatchUnsupported, At
  <2>2. \A j \in Keys \ {work[w].key} : op'[j].state = op[j].state
    BY <1>0, <1>8 DEF DispatchUnsupported
  <2> QED
    BY <1>0, <1>8, <2>1, <2>2, WroteKeepsFresh DEF DispatchUnsupported, Quiet, Steps
<1>9. ASSUME NEW w \in Workers, ReopenSession(w) \/ GiveBack(w) \/ WorkerDies(w)
      PROVE  FreshMeansUnchanged'
  BY <1>0, <1>9, MoveKeepsFresh DEF ReopenSession, GiveBack, WorkerDies, Quiet, Steps
<1>10. ASSUME NEW w \in Workers, MaterializeBooking(w) PROVE FreshMeansUnchanged'
  <2>1. work[w].key \in Keys
    BY <1>0, <1>10 DEF MaterializeBooking, At
  <2>2. \A j \in Keys \ {work[w].key} : op'[j].state = op[j].state
    BY <1>0, <1>10 DEF MaterializeBooking
  <2>3. Wrote(w, work[w].key, "idle") \/ (Done(w) /\ UNCHANGED op)
    BY <1>10 DEF MaterializeBooking
  <2> QED
    BY <1>0, <2>1, <2>2, <2>3, WroteKeepsFresh, MoveKeepsFresh DEF Quiet, Steps
<1>11. ASSUME NEW w \in Workers, SupplierObserved(w) PROVE FreshMeansUnchanged'
  <2>1. ~At(w, "idle")
    BY <1>11 DEF SupplierObserved, At
  <2>2. \E state : \E step \in {"giveback", "stamp"} : Save(w, work[w].key, state, step)
    BY <1>11 DEF SupplierObserved
  <2> QED
    BY <1>0, <2>1, <2>2, SaveKeepsFresh DEF Quiet, Steps
<1>12. ASSUME NEW w \in Workers, Stamp(w) PROVE FreshMeansUnchanged'
  <2>1. work[w].key \in Keys /\ UNCHANGED op
    BY <1>0, <1>12 DEF Stamp, At
  <2>2. Wrote(w, work[w].key, "idle") \/ Done(w)
    BY <1>12 DEF Stamp
  <2> QED
    BY <1>0, <2>1, <2>2, WroteKeepsFresh, MoveKeepsFresh DEF Quiet, Steps
<1>13. ASSUME NEW k \in Keys, ResolveOperation(k) PROVE FreshMeansUnchanged'
  <2>1. \A x \in Workers : work'[x] = Stale(work[x], k)
    BY <1>13 DEF ResolveOperation, Resolve, Stale
  <2>2. \A j \in Keys \ {k} : op'[j].state = op[j].state
    BY <1>0, <1>13 DEF ResolveOperation, Resolve
  <2> QED
    BY <1>0, <2>1, <2>2, FreshKept
<1>14. ASSUME \/ Requote \/ AbandonSession \/ SessionLapses \/ ExpireSession
              \/ \E k \in Keys : Supplier(k) \/ RequestLost(k) \/ Withdraws(k)
       PROVE  UNCHANGED <<op, work>>
  BY <1>14 DEF Requote, AbandonSession, SessionLapses, ExpireSession, Supplier, Receives, Settles,
           RequestLost, Withdraws
<1> QED
  BY <1>1, <1>2, <1>3, <1>4, <1>5, <1>6, <1>7, <1>8, <1>9, <1>10, <1>11, <1>12, <1>13, <1>14
  DEF Next, CommitSteps, OperatorSteps, vars
----------------------------------------------------------------------------
\* An operation is written in its own row; others match as they did.
LEMMA MatchKept ==
  ASSUME StatesMatchSupplier, NEW k \in Keys, MatchesSupplier(k)',
         \A j \in Keys \ {k} : /\ op'[j] = op[j] /\ upstream'[j] = upstream[j]
                               /\ j \in wire' <=> j \in wire
  PROVE  StatesMatchSupplier'
BY DEF StatesMatchSupplier, MatchesSupplier

LEMMA SaveMatches ==
  ASSUME IInv, NEW k \in Keys, NEW w \in Workers, NEW state, NEW step, Save(w, k, state, step),
         UNCHANGED upstream, wire' = wire \/ wire' = wire \ {k}
  PROVE  /\ work[w].fresh /\ MatchesSupplier(k)' => StatesMatchSupplier'
         /\ ~work[w].fresh => StatesMatchSupplier'
         /\ work[w].fresh => op'[k].state = state /\ op'[k].booked = op[k].booked
<1>0. StatesMatchSupplier /\ op \in [Keys -> Row]
  BY DEF IInv, Typed, RowsTyped
<1>1. CASE work[w].fresh
  <2>1. op' = [op EXCEPT ![k].state = state]
    BY <1>1 DEF Save
  <2>2. op'[k].state = state /\ op'[k].booked = op[k].booked /\ \A j \in Keys \ {k} : op'[j] = op[j]
    BY <1>0, <2>1 DEF Row
  <2> QED
    BY <1>0, <1>1, <2>2, MatchKept
<1>2. CASE ~work[w].fresh
  BY <1>0, <1>2 DEF Save, StatesMatchSupplier, MatchesSupplier
<1> QED
  BY <1>1, <1>2

LEMMA StepStates == IInv /\ [Next]_vars => StatesMatchSupplier'
<1> SUFFICES ASSUME IInv, [Next]_vars PROVE StatesMatchSupplier'
  OBVIOUS
<1>0. /\ StatesMatchSupplier /\ op \in [Keys -> Row]
      /\ upstream \in [Keys -> {"none", "pending", "confirmed", "failed", "cancelled"}]
      /\ \A w \in Workers : ~At(w, "idle") => work[w].key \in Keys
  BY DEF IInv, Typed, RowsTyped, WorkTyped, WorkersKnowTheirKey
<1> USE DEF Failed, Secured
<1>1. ASSUME UNCHANGED <<op, wire, upstream>> PROVE StatesMatchSupplier'
  BY <1>0, <1>1 DEF StatesMatchSupplier, MatchesSupplier
<1>2. ASSUME NEW w \in Workers, NEW k \in Keys, Reconcile(w, k) PROVE StatesMatchSupplier'
  <2>1. CASE op' = op
    BY <1>1, <1>2, <2>1 DEF Reconcile
  <2>2. CASE op' # op
    <3>1. op' = [op EXCEPT ![k].state = "manual_review"]
      BY <1>2, <2>2 DEF Reconcile
    <3>2. op'[k].state = "manual_review" /\ op'[k].booked = op[k].booked
          /\ \A j \in Keys \ {k} : op'[j] = op[j]
      BY <1>0, <3>1 DEF Row
    <3>3. op[k].state \notin {"none", "queued"} \/ (k \notin wire /\ upstream[k] = "none")
      BY <1>0 DEF StatesMatchSupplier, MatchesSupplier
    <3>4. MatchesSupplier(k)'
      BY <1>0, <1>2, <3>2 DEF Reconcile, StatesMatchSupplier, MatchesSupplier
    <3> QED
      BY <1>0, <1>2, <3>2, <3>4, MatchKept DEF Reconcile
  <2> QED
    BY <2>1, <2>2
<1>3. ASSUME NEW w \in Workers, ClaimOperation(w) PROVE StatesMatchSupplier'
  <2>1. CASE op' = op
    BY <1>1, <1>3, <2>1 DEF ClaimOperation
  <2>2. CASE op' # op
    <3>0. PICK k \in Keys : k = work[w].key
      BY <1>0, <1>3 DEF ClaimOperation, At
    <3> USE <3>0
    <3>1. op' = [op EXCEPT ![k].state = "queued", ![k].quote = work[w].quote] /\ op[k].state = "none"
      BY <1>3, <2>2 DEF ClaimOperation
    <3>2. k \in Keys
      BY <1>0, <1>3 DEF ClaimOperation, At
    <3>3. op'[k].state = "queued" /\ op'[k].booked = op[k].booked
          /\ \A j \in Keys \ {k} : op'[j] = op[j]
      BY <1>0, <3>1, <3>2 DEF Row
    <3>4. MatchesSupplier(k)'
      BY <1>0, <1>3, <3>1, <3>2, <3>3 DEF ClaimOperation, StatesMatchSupplier, MatchesSupplier
    <3> QED
      BY <1>0, <1>3, <3>2, <3>3, <3>4, MatchKept DEF ClaimOperation
  <2> QED
    BY <2>1, <2>2
<1>4. ASSUME NEW w \in Workers, Dispatch(w) PROVE StatesMatchSupplier'
  <2>0. PICK k \in Keys : k = work[w].key
    BY <1>0, <1>4 DEF Dispatch, At
  <2> USE <2>0
  <2>1. CASE op[k].state = "queued"
    <3>1. op' = [op EXCEPT ![k].state = "submitted"] /\ wire' = wire \cup {k} /\ UNCHANGED upstream
      BY <1>4, <2>1 DEF Dispatch
    <3>2. op'[k].state = "submitted" /\ op'[k].booked = op[k].booked
          /\ \A j \in Keys \ {k} : op'[j] = op[j]
      BY <1>0, <3>1 DEF Row
    <3>3. MatchesSupplier(k)'
      BY <1>0, <2>1, <3>1, <3>2 DEF StatesMatchSupplier, MatchesSupplier
    <3> QED
      BY <1>0, <3>1, <3>2, <3>3, MatchKept
  <2>2. CASE op[k].state # "queued"
    BY <1>1, <1>4, <2>2 DEF Dispatch
  <2> QED
    BY <2>1, <2>2
<1>5. ASSUME NEW w \in Workers, DispatchUnsupported(w) PROVE StatesMatchSupplier'
  <2>0. PICK k \in Keys : k = work[w].key
    BY <1>0, <1>5 DEF DispatchUnsupported, At
  <2> USE <2>0
  <2>1. k \in Keys
    BY <1>0, <1>5 DEF DispatchUnsupported, At
  <2>2. op'[k].state = "refused" /\ op'[k].booked = op[k].booked
        /\ \A j \in Keys \ {k} : op'[j] = op[j]
    BY <1>0, <1>5, <2>1 DEF DispatchUnsupported, Row
  <2>3. MatchesSupplier(k)'
    BY <1>0, <1>5, <2>1, <2>2 DEF DispatchUnsupported, StatesMatchSupplier, MatchesSupplier
  <2> QED
    BY <1>0, <1>5, <2>1, <2>2, <2>3, MatchKept DEF DispatchUnsupported
<1>6. ASSUME NEW w \in Workers, AdapterAnswers(w) PROVE StatesMatchSupplier'
  <2>0. PICK k \in Keys : k = work[w].key
    BY <1>0, <1>6 DEF AdapterAnswers, At
  <2> USE <2>0
  <2>3. upstream[k] # "none" /\ k \notin wire /\ UNCHANGED <<wire, upstream>>
    BY <1>6 DEF AdapterAnswers
  <2>1. CASE work[w].fresh
    <3>1. PICK state \in Answers(upstream[k]) :
            op' = [op EXCEPT ![k].state = state, ![k].ref = TRUE]
      BY <1>6, <2>1 DEF AdapterAnswers
    <3>2. op'[k].state = state /\ op'[k].booked = op[k].booked
          /\ \A j \in Keys \ {k} : op'[j] = op[j]
      BY <1>0, <2>3, <3>1 DEF Row
    <3>3. /\ state \in {"pending", "refused", "succeeded"}
          /\ state = "refused" => upstream[k] = "failed"
          /\ state = "succeeded" => upstream[k] \in {"confirmed", "cancelled"}
      BY <1>0, <2>3 DEF Answers
    <3>4. MatchesSupplier(k)'
      BY <1>0, <2>3, <3>2, <3>3 DEF StatesMatchSupplier, MatchesSupplier
    <3> QED
      BY <1>0, <2>3, <3>2, <3>4, MatchKept
  <2>2. CASE ~work[w].fresh
    BY <1>1, <1>6, <2>2 DEF AdapterAnswers
  <2> QED
    BY <2>1, <2>2
<1>7. ASSUME NEW w \in Workers, AdapterNotSent(w) PROVE StatesMatchSupplier'
  <2>0. PICK k \in Keys : k = work[w].key
    BY <1>0, <1>7 DEF AdapterNotSent, At
  <2> USE <2>0
  <2>1. k \in Keys /\ k \in wire /\ wire' = wire \ {k} /\ Save(w, k, "queued", "idle")
        /\ UNCHANGED upstream
    BY <1>0, <1>7 DEF AdapterNotSent, At
  <2>2. upstream[k] = "none" /\ ~op[k].booked
    BY <1>0, <2>1 DEF StatesMatchSupplier, MatchesSupplier
  <2>3. op'[k].state = "queued" /\ op'[k].booked = op[k].booked => MatchesSupplier(k)'
    BY <2>1, <2>2 DEF MatchesSupplier
  <2> QED
    BY <2>1, <2>3, SaveMatches
<1>8. ASSUME NEW w \in Workers, AdapterInDoubt(w) PROVE StatesMatchSupplier'
  <2>0. PICK k \in Keys : k = work[w].key
    BY <1>0, <1>8 DEF AdapterInDoubt, At
  <2> USE <2>0
  <2>1. k \in Keys /\ Save(w, k, "in_doubt", "idle") /\ UNCHANGED <<wire, upstream>>
    BY <1>0, <1>8 DEF AdapterInDoubt, At
  <2>2. op'[k].state = "in_doubt" /\ op'[k].booked = op[k].booked => MatchesSupplier(k)'
    BY <1>0, <2>1 DEF StatesMatchSupplier, MatchesSupplier
  <2> QED
    BY <2>1, <2>2, SaveMatches
<1>9. ASSUME NEW w \in Workers, MaterializeBooking(w) PROVE StatesMatchSupplier'
  <2>0. PICK k \in Keys : k = work[w].key
    BY <1>0, <1>9 DEF MaterializeBooking, At
  <2> USE <2>0
  <2>1. CASE op' = op
    BY <1>1, <1>9, <2>1 DEF MaterializeBooking
  <2>2. CASE op' # op
    <3>1. op' = [op EXCEPT ![k].booked = TRUE] /\ op[k].state \in Secured
      BY <1>9, <2>2 DEF MaterializeBooking
    <3>2. k \in Keys /\ UNCHANGED <<wire, upstream>>
      BY <1>0, <1>9 DEF MaterializeBooking, At
    <3>3. op'[k].state = op[k].state /\ \A j \in Keys \ {k} : op'[j] = op[j]
      BY <1>0, <3>1, <3>2 DEF Row
    <3>4. MatchesSupplier(k)'
      BY <1>0, <3>1, <3>2, <3>3 DEF StatesMatchSupplier, MatchesSupplier
    <3> QED
      BY <1>0, <3>2, <3>3, <3>4, MatchKept
  <2> QED
    BY <2>1, <2>2
<1>10. ASSUME NEW w \in Workers, SupplierObserved(w) PROVE StatesMatchSupplier'
  <2>0. PICK k \in Keys : k = work[w].key
    BY <1>0, <1>10 DEF SupplierObserved, At
  <2> USE <2>0
  <2>1. k \in Keys /\ UNCHANGED <<wire, upstream>>
    BY <1>0, <1>10 DEF SupplierObserved, At
  <2>2. PICK state \in Observed(upstream[k]) \cup {op[k].state} : \E step : Save(w, k, state, step)
    BY <1>10 DEF SupplierObserved
  <2>3. \/ state = op[k].state
        \/ /\ state \in {"in_doubt", "pending", "succeeded", "refused", "cancelled"}
           /\ state = "succeeded" => upstream[k] = "confirmed"
           /\ state = "refused" => upstream[k] = "failed"
           /\ state = "cancelled" => upstream[k] = "cancelled"
    BY <1>0, <2>1, <2>2 DEF Observed
  <2>4. op'[k].state = state /\ op'[k].booked = op[k].booked => MatchesSupplier(k)'
    BY <1>0, <2>1, <2>3 DEF StatesMatchSupplier, MatchesSupplier
  <2> QED
    BY <2>1, <2>2, <2>4, SaveMatches
<1>11. ASSUME NEW k \in Keys, Receives(k) PROVE StatesMatchSupplier'
  <2>1. UNCHANGED op /\ wire' = wire \ {k} /\ k \in wire /\ \A j \in Keys \ {k} : upstream'[j] = upstream[j]
    BY <1>0, <1>11 DEF Receives
  <2>2. MatchesSupplier(k)'
    BY <1>0, <2>1 DEF StatesMatchSupplier, MatchesSupplier
  <2> QED
    BY <1>0, <2>1, <2>2, MatchKept
<1>12. ASSUME NEW k \in Keys, RequestLost(k) PROVE StatesMatchSupplier'
  BY <1>0, <1>12 DEF RequestLost, StatesMatchSupplier, MatchesSupplier
<1>13. ASSUME NEW k \in Keys, Settles(k) \/ Withdraws(k) PROVE StatesMatchSupplier'
  <2>1. /\ UNCHANGED <<op, wire>> /\ \A j \in Keys \ {k} : upstream'[j] = upstream[j]
        /\ \/ upstream[k] = "pending" /\ upstream'[k] \in {"confirmed", "failed"}
           \/ upstream[k] = "confirmed" /\ upstream'[k] = "cancelled"
    BY <1>0, <1>13 DEF Settles, Withdraws
  <2>2. MatchesSupplier(k)'
    BY <1>0, <2>1 DEF StatesMatchSupplier, MatchesSupplier
  <2> QED
    BY <1>0, <2>1, <2>2, MatchKept
<1>14. ASSUME NEW k \in Keys, NEW state \in {"resolved_succeeded", "resolved_failed"},
              Resolve(k, state)
       PROVE  StatesMatchSupplier'
  <2>1. op'[k].state = state /\ op'[k].booked = op[k].booked
        /\ \A j \in Keys \ {k} : op'[j] = op[j]
    BY <1>0, <1>14 DEF Resolve, Row
  <2>2. MatchesSupplier(k)'
    BY <1>0, <1>14, <2>1 DEF Resolve, StatesMatchSupplier, MatchesSupplier
  <2> QED
    BY <1>0, <1>14, <2>1, <2>2, MatchKept DEF Resolve
<1>15. ASSUME \/ Requote \/ AbandonSession \/ SessionLapses \/ ExpireSession
              \/ \E w \in Workers : \/ ReopenSession(w) \/ GiveBack(w) \/ Stamp(w) \/ WorkerDies(w)
                                    \/ \E k \in Keys : BeginCommit(w, k)
       PROVE  UNCHANGED <<op, wire, upstream>>
  BY <1>15 DEF Requote, AbandonSession, SessionLapses, ExpireSession, ReopenSession, GiveBack, Stamp,
           WorkerDies, BeginCommit
<1> QED
  BY <1>1, <1>2, <1>3, <1>4, <1>5, <1>6, <1>7, <1>8, <1>9, <1>10, <1>11, <1>12, <1>13, <1>14, <1>15
  DEF Next, CommitSteps, OperatorSteps, Supplier, ResolveOperation, vars
----------------------------------------------------------------------------
\* How an operation may move, and no booking is made.
Moves(k) ==
  /\ op'[k].booked = op[k].booked
  /\ \/ op'[k].state = op[k].state
     \/ op[k].state \in Unsettled \cup {"succeeded"}
     \/ /\ op[k].state = "none" /\ ~Blocked
        /\ \A j \in Keys \ {k} : op'[j].state = op[j].state

\* Only MaterializeBooking books, and only it consumes the session.
LEMMA StepMoves ==
  ASSUME IInv, [Next]_vars, ~\E w \in Workers : MaterializeBooking(w)
  PROVE  /\ \A k \in Keys : Moves(k)
         /\ session'.state = "consumed" <=> session.state = "consumed"
<1> DEFINE Goal == /\ \A k \in Keys : Moves(k)
                   /\ session'.state = "consumed" <=> session.state = "consumed"
<1>0. /\ op \in [Keys -> Row] /\ FreshMeansUnchanged
      /\ session \in [state: {"active", "supplier_pending", "consumed", "over"},
                      quote: 1..MaxQuotes, lapsed: BOOLEAN]
      /\ \A w \in Workers : ~At(w, "idle") => work[w].key \in Keys
  BY DEF IInv, Typed, RowsTyped, WorkTyped, WorkersKnowTheirKey
<1> USE DEF Unsettled
\* One operation is written, one that may move.
<1>1. ASSUME NEW k \in Keys, \A j \in Keys \ {k} : op'[j] = op[j],
             op'[k].booked = op[k].booked,
             op'[k].state = op[k].state \/ op[k].state \in Unsettled \cup {"succeeded"}
      PROVE  \A j \in Keys : Moves(j)
  BY <1>1 DEF Moves
<1>2. ASSUME UNCHANGED <<op, session>> PROVE Goal
  BY <1>2 DEF Moves
<1>3. ASSUME NEW w \in Workers, NEW k \in Keys, NEW state, NEW step, Save(w, k, state, step),
             UNCHANGED session,
             work[w].fresh => op[k].state \in Unsettled \cup {"succeeded"}
      PROVE  Goal
  BY <1>0, <1>1, <1>3 DEF Save, Row, Moves
<1>4. CASE Requote \/ AbandonSession \/ SessionLapses \/ ExpireSession
  BY <1>0, <1>4 DEF Requote, AbandonSession, SessionLapses, ExpireSession, Moves
<1>5. ASSUME NEW w \in Workers, NEW k \in Keys, Reconcile(w, k) PROVE Goal
  <2>1. CASE op' = op
    BY <1>2, <1>5, <2>1 DEF Reconcile
  <2>2. CASE op' # op
    <3>1. op' = [op EXCEPT ![k].state = "manual_review"] /\ UNCHANGED session
      BY <1>5, <2>2 DEF Reconcile
    <3>2. op[k].state \in Unsettled \cup {"succeeded"}
      BY <1>0, <1>5, <2>2 DEF Reconcile, Row, Blocking, Secured, Failed
    <3> QED
      BY <1>0, <1>1, <3>1, <3>2 DEF Row
  <2> QED
    BY <2>1, <2>2
<1>6. ASSUME NEW w \in Workers, ClaimOperation(w) PROVE Goal
  <2>1. PICK k \in Keys : k = work[w].key
    BY <1>0, <1>6 DEF ClaimOperation, At
  <2>2. CASE op' = op
    BY <1>0, <1>6, <2>2 DEF ClaimOperation, Moves
  <2>3. CASE op' # op
    <3>1. op' = [op EXCEPT ![k].state = "queued", ![k].quote = work[w].quote]
          /\ op[k].state = "none" /\ ~Blocked
      BY <1>6, <2>1, <2>3 DEF ClaimOperation
    <3>2. session'.state = "consumed" <=> session.state = "consumed"
      BY <1>0, <1>6, <2>3 DEF ClaimOperation
    <3> QED
      BY <1>0, <3>1, <3>2 DEF Moves, Row
  <2> QED
    BY <2>2, <2>3
<1>7. ASSUME NEW w \in Workers, Dispatch(w) \/ DispatchUnsupported(w) PROVE Goal
  <2>1. PICK k \in Keys : k = work[w].key
    BY <1>0, <1>7 DEF Dispatch, DispatchUnsupported, At
  <2>2. UNCHANGED session
    BY <1>7 DEF Dispatch, DispatchUnsupported
  <2>3. \/ UNCHANGED op
        \/ op[k].state = "queued" /\ \E state : op' = [op EXCEPT ![k].state = state]
    BY <1>7, <2>1 DEF Dispatch, DispatchUnsupported, Failed, Secured
  <2>4. /\ op'[k].booked = op[k].booked /\ \A j \in Keys \ {k} : op'[j] = op[j]
        /\ op'[k].state = op[k].state \/ op[k].state = "queued"
    BY <1>0, <2>3 DEF Row
  <2> QED
    BY <1>1, <2>2, <2>4
<1>8. ASSUME NEW w \in Workers, AdapterAnswers(w) PROVE Goal
  <2>1. PICK k \in Keys : k = work[w].key
    BY <1>0, <1>8 DEF AdapterAnswers, At
  <2>2. UNCHANGED session /\ (~work[w].fresh => UNCHANGED op)
    BY <1>8 DEF AdapterAnswers
  <2>3. work[w].fresh => /\ op[k].state = "submitted"
                         /\ \E state : op' = [op EXCEPT ![k].state = state, ![k].ref = TRUE]
    BY <1>0, <1>8, <2>1 DEF AdapterAnswers, FreshMeansUnchanged
  <2>4. /\ op'[k].booked = op[k].booked /\ \A j \in Keys \ {k} : op'[j] = op[j]
        /\ op'[k].state = op[k].state \/ op[k].state = "submitted"
    <3>1. CASE work[w].fresh
      <4>1. PICK state : op' = [op EXCEPT ![k].state = state, ![k].ref = TRUE]
        BY <2>3, <3>1
      <4>2. op'[k].booked = op[k].booked /\ \A j \in Keys \ {k} : op'[j] = op[j]
        BY <1>0, <4>1 DEF Row
      <4> QED
        BY <2>3, <3>1, <4>2
    <3>2. CASE ~work[w].fresh
      BY <2>2, <3>2
    <3> QED
      BY <3>1, <3>2
  <2> QED
    BY <1>1, <2>2, <2>4
<1>9. ASSUME NEW w \in Workers, AdapterInDoubt(w) \/ AdapterNotSent(w) PROVE Goal
  <2>1. work[w].key \in Keys /\ UNCHANGED session
    BY <1>0, <1>9 DEF AdapterInDoubt, AdapterNotSent, At
  <2>2. work[w].fresh => op[work[w].key].state = "submitted"
    BY <1>0, <1>9 DEF AdapterInDoubt, AdapterNotSent, FreshMeansUnchanged
  <2>3. \E state, step : Save(w, work[w].key, state, step)
    BY <1>9 DEF AdapterInDoubt, AdapterNotSent
  <2> QED
    BY <1>3, <2>1, <2>2, <2>3
<1>10. ASSUME NEW w \in Workers, SupplierObserved(w) PROVE Goal
  <2>1. work[w].key \in Keys /\ UNCHANGED session
    BY <1>0, <1>10 DEF SupplierObserved, At
  <2>2. work[w].fresh
        => op[work[w].key].state \in {"queued", "pending", "in_doubt", "succeeded"}
    BY <1>0, <1>10 DEF SupplierObserved, FreshMeansUnchanged
  <2>3. \E state, step : Save(w, work[w].key, state, step)
    BY <1>10 DEF SupplierObserved
  <2> QED
    BY <1>3, <2>1, <2>2, <2>3
<1>11. ASSUME NEW w \in Workers, ReopenSession(w) \/ GiveBack(w) PROVE Goal
  BY <1>0, <1>11 DEF ReopenSession, GiveBack, Reopen, Moves
<1>12. ASSUME NEW k \in Keys, NEW state \in {"resolved_succeeded", "resolved_failed"},
              Resolve(k, state)
       PROVE  Goal
  <2>1. session'.state = "consumed" <=> session.state = "consumed"
    BY <1>0, <1>12 DEF Resolve, Reopen
  <2>2. /\ op[k].state \in Unsettled /\ op'[k].booked = op[k].booked
        /\ \A j \in Keys \ {k} : op'[j] = op[j]
    BY <1>0, <1>12 DEF Resolve, Row
  <2> QED
    BY <1>1, <2>1, <2>2
<1>13. ASSUME \/ \E k \in Keys : Supplier(k) \/ RequestLost(k) \/ Withdraws(k)
              \/ \E w \in Workers : \/ Stamp(w) \/ WorkerDies(w)
                                    \/ \E k \in Keys : BeginCommit(w, k)
              \/ UNCHANGED vars
       PROVE  UNCHANGED <<op, session>>
  BY <1>13 DEF Supplier, Receives, Settles, RequestLost, Withdraws, Stamp, WorkerDies, BeginCommit,
           vars
<1> QED
  BY <1>2, <1>4, <1>5, <1>6, <1>7, <1>8, <1>9, <1>10, <1>11, <1>12, <1>13
  DEF Next, CommitSteps, OperatorSteps, ResolveOperation

\* A booking is made of a secured operation, while the session is open.
LEMMA StepBooks ==
  ASSUME IInv, NEW w \in Workers, MaterializeBooking(w)
  PROVE  \/ UNCHANGED <<op, session>>
         \/ /\ session.state # "consumed" /\ session'.state = "consumed"
            /\ \E k \in Keys : /\ op'[k].booked /\ op'[k].state = op[k].state
                               /\ \A j \in Keys \ {k} : op'[j] = op[j]
<1>1. op \in [Keys -> Row] /\ work[w].key \in Keys
  BY DEF IInv, Typed, RowsTyped, WorkTyped, WorkersKnowTheirKey, MaterializeBooking, At
<1>2. session \in [state: {"active", "supplier_pending", "consumed", "over"},
                   quote: 1..MaxQuotes, lapsed: BOOLEAN]
  BY DEF IInv, Typed, RowsTyped
<1>3. CASE op[work[w].key].state \in Secured /\ ~op[work[w].key].booked /\ Consumable(w)
  <2>1. op' = [op EXCEPT ![work[w].key].booked = TRUE]
        /\ session' = [session EXCEPT !.state = "consumed"]
    BY <1>3 DEF MaterializeBooking
  <2>2. session.state # "consumed" /\ session'.state = "consumed"
    BY <1>2, <1>3, <2>1 DEF Consumable
  <2> QED
    BY <1>1, <2>1, <2>2 DEF Row
<1> QED
  BY <1>3 DEF MaterializeBooking

LEMMA StepOneBlocks == IInv /\ [Next]_vars => OneBlocks'
<1> SUFFICES ASSUME IInv, [Next]_vars PROVE OneBlocks'
  OBVIOUS
<1>1. OneBlocks /\ op \in [Keys -> Row]
  BY DEF IInv, Typed, RowsTyped
<1>2. CASE \E w \in Workers : MaterializeBooking(w)
  <2>1. \A k \in Keys : op'[k].state = op[k].state
    BY <1>2, StepBooks
  <2> QED
    BY <1>1, <2>1 DEF OneBlocks
<1>3. CASE ~\E w \in Workers : MaterializeBooking(w)
  <2>1. \A k \in Keys : Moves(k)
    BY <1>3, StepMoves
  <2>2. CASE \E k \in Keys : op[k].state = "none" /\ op'[k].state # "none"
    <3>1. PICK k \in Keys : op[k].state = "none" /\ op'[k].state # "none"
      BY <2>2
    <3>2. ~Blocked /\ \A j \in Keys \ {k} : op'[j].state = op[j].state
      BY <2>1, <3>1 DEF Moves, Unsettled
    <3> QED
      BY <3>2 DEF OneBlocks, Blocked
  <2>3. CASE ~\E k \in Keys : op[k].state = "none" /\ op'[k].state # "none"
    <3>1. \A k \in Keys : op'[k].state = op[k].state \/ op[k].state \in Blocking
      BY <2>1, <2>3 DEF Moves, Blocking, Secured
    <3> QED
      BY <1>1, <3>1 DEF OneBlocks
  <2> QED
    BY <2>2, <2>3
<1> QED
  BY <1>2, <1>3

LEMMA StepOneBooking == IInv /\ [Next]_vars => OneBooking'
<1> SUFFICES ASSUME IInv, [Next]_vars PROVE OneBooking'
  OBVIOUS
<1>1. OneBooking
  BY DEF IInv
<1>2. CASE \E w \in Workers : MaterializeBooking(w)
  BY <1>1, <1>2, StepBooks DEF OneBooking
<1>3. CASE ~\E w \in Workers : MaterializeBooking(w)
  BY <1>1, <1>3, StepMoves DEF OneBooking, Moves
<1> QED
  BY <1>2, <1>3

LEMMA Invariance == Spec => []IInv
<1>1. IInv /\ [Next]_vars => IInv'
  <2>1. IInv /\ [Next]_vars => Typed'
    BY StepRowsTyped, StepWorkTyped DEF IInv, Typed
  <2> QED
    BY <2>1, StepFresh, StepStates, StepOneBlocks, StepOneBooking DEF IInv
<1> QED
  BY <1>1, InitIInv, PTL DEF Spec
----------------------------------------------------------------------------
\* A set whose members are all the same has at most one.
LEMMA AtMostOne ==
  ASSUME NEW S \in SUBSET Keys, \A j, k \in S : j = k
  PROVE  Cardinality(S) <= 1
<1>1. CASE S = {}
  BY <1>1, FS_EmptySet
<1>2. CASE S # {}
  <2>1. PICK k \in S : S = {k}
    BY <1>2
  <2> QED
    BY <2>1, FS_Singleton
<1> QED
  BY <1>1, <1>2

\* The supplier holds or is sent at most one reservation for a session, although
\* requests are lost, repeated and reconciled (OneReservation).
THEOREM OneReservationHeld == Spec => []OneReservation
<1>1. IInv => OneReservation
  <2> SUFFICES ASSUME IInv PROVE OneReservation
    OBVIOUS
  <2> DEFINE Reserved == {k \in Keys : k \in wire \/ upstream[k] \in {"pending", "confirmed"}}
  <2>1. \A k \in Reserved : op[k].state \notin {"none"} \cup Failed
    BY DEF IInv, StatesMatchSupplier, MatchesSupplier
  <2>2. \A k \in Reserved : op[k].state \in Blocking
    BY <2>1 DEF IInv, Typed, RowsTyped, Row
  <2>3. \A j, k \in Reserved : j = k
    BY <2>2 DEF IInv, OneBlocks
  <2>4. Reserved \in SUBSET Keys
    OBVIOUS
  <2> HIDE DEF Reserved
  <2>5. Cardinality(Reserved) <= 1
    BY <2>3, <2>4, AtMostOne
  <2> QED
    BY <2>5 DEF OneReservation, Reserved
<1> QED
  BY <1>1, Invariance, PTL

\* A consumed session has one booking, of a reservation the supplier had
\* confirmed (BookedIsSecured).
THEOREM BookingsAreSecured == Spec => []BookedIsSecured
<1>1. IInv => BookedIsSecured
  <2> SUFFICES ASSUME IInv PROVE BookedIsSecured
    OBVIOUS
  <2> DEFINE Booked == {k \in Keys : op[k].booked}
  <2>1. \A j, k \in Booked : j = k
    BY DEF IInv, OneBooking
  <2>2. Booked \in SUBSET Keys
    OBVIOUS
  <2> HIDE DEF Booked
  <2>3. Cardinality(Booked) <= 1
    BY <2>1, <2>2, AtMostOne
  <2> QED
    BY <2>3 DEF BookedIsSecured, Booked, IInv, OneBooking, StatesMatchSupplier, MatchesSupplier
<1> QED
  BY <1>1, Invariance, PTL

\* A refusal, a cancellation and a person's verdict are final, however stale
\* the copy of whoever writes next (VerdictsStand).
THEOREM VerdictsAreFinal == Spec => VerdictsStand
<1>1. IInv /\ [Next]_vars
      => [\A k \in Keys : op[k].state \in Failed \cup {"resolved_succeeded"}
                            => op'[k].state = op[k].state]_vars
  <2> SUFFICES ASSUME IInv, [Next]_vars, NEW k \in Keys,
                      op[k].state \in Failed \cup {"resolved_succeeded"}
               PROVE  op'[k].state = op[k].state
    OBVIOUS
  <2>1. CASE \E w \in Workers : MaterializeBooking(w)
    BY <2>1, StepBooks
  <2>2. CASE ~\E w \in Workers : MaterializeBooking(w)
    BY <2>2, StepMoves DEF Moves, Unsettled, Failed
  <2> QED
    BY <2>1, <2>2
<1> QED
  BY <1>1, Invariance, PTL DEF Spec, VerdictsStand
----------------------------------------------------------------------------
\* A worker that is about to reopen the session, or will find that it has to.
Reopens(w) ==
  \/ At(w, "reopen") \/ At(w, "giveback")
  \/ At(w, "dispatch") /\ op[work[w].key].state \in Failed

\* A frozen session waits for an operation that may end well, or a worker
\* attends to it, or a process died.
FrozenIsAttended ==
  session.state = "supplier_pending" => deaths > 0 \/ Blocked \/ \E w \in Workers : Reopens(w)

LEMMA VerdictsKept ==
  ASSUME IInv, [Next]_vars, NEW k \in Keys, op[k].state \in Failed
  PROVE  op'[k].state \in Failed
<1>1. CASE \E w \in Workers : MaterializeBooking(w)
  BY <1>1, StepBooks
<1>2. CASE ~\E w \in Workers : MaterializeBooking(w)
  BY <1>2, StepMoves DEF Moves, Unsettled, Failed
<1> QED
  BY <1>1, <1>2

\* What a busy worker does itself.
Acts(w) ==
  CommitSteps(w) \/ OperatorSteps(w) \/ DispatchUnsupported(w) \/ AdapterNotSent(w) \/ WorkerDies(w)

\* A busy worker is moved by its own steps only.
LEMMA OthersStay ==
  ASSUME IInv, [Next]_vars, NEW w \in Workers, ~At(w, "idle"), ~Acts(w)
  PROVE  work'[w].at = work[w].at /\ work'[w].key = work[w].key
<1>0. work \in [Workers -> Job] /\ work[w] \in Job
  BY DEF IInv, Typed, WorkTyped
<1>1. ASSUME work'[w] = work[w] \/ \E k \in Keys : work'[w] = Stale(work[w], k)
      PROVE  work'[w].at = work[w].at /\ work'[w].key = work[w].key
  BY <1>0, <1>1, StaleJob
<1>2. ASSUME NEW x \in Workers, x # w,
             Done(x) \/ (\E step \in Steps : GoTo(x, step))
               \/ \E k \in Keys, step \in Steps : Wrote(x, k, step)
      PROVE  work'[w].at = work[w].at /\ work'[w].key = work[w].key
  BY <1>0, <1>1, <1>2 DEF Done, GoTo, Wrote, Stale
<1>3. CASE UNCHANGED work
  BY <1>1, <1>3
<1>4. CASE \E x \in Workers, k \in Keys : BeginCommit(x, k) \/ Reconcile(x, k)
  BY <1>0, <1>1, <1>4 DEF BeginCommit, Reconcile, Stale, At
<1>5. CASE \E x \in Workers : Acts(x)
  <2>1. PICK x \in Workers \ {w} : Acts(x)
    BY <1>5
  <2>2. ~At(x, "idle") => work[x].key \in Keys
    BY DEF IInv, Typed, WorkTyped, WorkersKnowTheirKey
  <2>3. ~At(x, "idle")
    BY <2>1 DEF Acts, CommitSteps, OperatorSteps, ClaimOperation, Dispatch, AdapterAnswers, AdapterInDoubt,
            ReopenSession, MaterializeBooking, SupplierObserved, GiveBack, Stamp, DispatchUnsupported,
            AdapterNotSent, WorkerDies, At
  <2>4. Done(x) \/ (\E step \in Steps : GoTo(x, step)) \/ \E step \in Steps : Wrote(x, work[x].key, step)
    BY <2>1 DEF Acts, CommitSteps, OperatorSteps, ClaimOperation, Dispatch, AdapterAnswers, AdapterInDoubt,
            ReopenSession, MaterializeBooking, SupplierObserved, GiveBack, Stamp, DispatchUnsupported,
            AdapterNotSent, WorkerDies, Save, After, Steps
  <2> QED
    BY <1>2, <2>2, <2>3, <2>4
<1>6. CASE \E k \in Keys : ResolveOperation(k)
  BY <1>0, <1>1, <1>6 DEF ResolveOperation, Resolve, Stale
<1> QED
  BY <1>3, <1>4, <1>5, <1>6 DEF Next, vars, Acts, Requote, AbandonSession, SessionLapses, ExpireSession,
     Supplier, Receives, Settles, RequestLost, Withdraws

\* Whoever is about to reopen the session does so, unless its process dies.
LEMMA ReopensStands ==
  ASSUME IInv, [Next]_vars, NEW w \in Workers, Reopens(w), deaths' = 0
  PROVE  Reopens(w)' \/ session'.state # "supplier_pending"
<1>0. /\ ~At(w, "idle") /\ work \in [Workers -> Job] /\ work[w].key \in Keys
      /\ At(w, "dispatch") => op[work[w].key].state \in Failed
      /\ deaths \in Nat
  BY DEF Reopens, At, IInv, Typed, RowsTyped, WorkTyped, WorkersKnowTheirKey
<1>1. At(w, "dispatch") => op'[work[w].key].state \in Failed
  BY <1>0, VerdictsKept
<1>2. CASE ~Acts(w)
  <2>1. work'[w].at = work[w].at /\ work'[w].key = work[w].key
    BY <1>0, <1>2, OthersStay
  <2> QED
    BY <1>1, <2>1 DEF Reopens, At
<1>3. CASE Acts(w)
  <2>1. CASE At(w, "dispatch")
    <3>1. op[work[w].key].state \in Failed
      BY <1>0, <2>1
    <3>2. WorkerDies(w) \/ GoTo(w, "reopen")
      BY <1>3, <2>1, <3>1 DEF Acts, CommitSteps, OperatorSteps, ClaimOperation, Dispatch, AdapterAnswers,
              AdapterInDoubt, ReopenSession, MaterializeBooking, SupplierObserved, GiveBack, Stamp,
              DispatchUnsupported, AdapterNotSent, At, Failed, Secured
    <3>3. CASE WorkerDies(w)
      BY <1>0, <3>3 DEF WorkerDies
    <3>4. CASE GoTo(w, "reopen")
      <4>1. work'[w].at = "reopen"
        BY <1>0, <3>4 DEF GoTo, Job
      <4> QED
        BY <4>1 DEF Reopens, At
    <3> QED
      BY <3>2, <3>3, <3>4
  <2>2. CASE At(w, "reopen") \/ At(w, "giveback")
    <3>1. WorkerDies(w) \/ ReopenSession(w) \/ GiveBack(w)
      BY <1>3, <2>2 DEF Acts, CommitSteps, OperatorSteps, ClaimOperation, Dispatch, AdapterAnswers,
              AdapterInDoubt, MaterializeBooking, SupplierObserved, Stamp,
              DispatchUnsupported, AdapterNotSent, At
    <3>2. Reopen => session'.state # "supplier_pending"
      BY DEF Reopen, IInv, Typed, RowsTyped
    <3> QED
      BY <1>0, <3>1, <3>2 DEF WorkerDies, ReopenSession, GiveBack
  <2> QED
    BY <2>1, <2>2 DEF Reopens
<1> QED
  BY <1>2, <1>3

\* Whoever brings the last hope of a frozen session to an end is about to
\* reopen it, or has reopened it.
LEMMA EndingReopens ==
  ASSUME IInv, [Next]_vars, Blocked, ~Blocked', session'.state = "supplier_pending"
  PROVE  \E w \in Workers : Reopens(w)'
<1>0. /\ op \in [Keys -> Row] /\ work \in [Workers -> Job]
      /\ \A w \in Workers : ~At(w, "idle") => work[w].key \in Keys
      /\ Failed \cap Blocking = {}
  BY DEF IInv, Typed, RowsTyped, WorkTyped, WorkersKnowTheirKey, Failed, Blocking, Unsettled, Secured
<1>1. PICK k \in Keys : op[k].state \in Blocking /\ op'[k].state \notin Blocking
  BY DEF Blocked
<1>2. ASSUME NEW w \in Workers, NEW j \in Keys, NEW step \in {"reopen", "giveback"}, Wrote(w, j, step)
      PROVE  Reopens(w)'
  BY <1>0, <1>2 DEF Wrote, Reopens, At, Job
<1>3. ASSUME NEW w \in Workers, CommitSteps(w) PROVE Reopens(w)'
  <2>0. ~At(w, "idle") /\ work[w].key \in Keys
    BY <1>0, <1>3 DEF CommitSteps, ClaimOperation, Dispatch, AdapterAnswers, AdapterInDoubt, ReopenSession,
            MaterializeBooking, At
  <2>1. CASE AdapterAnswers(w)
    <3>1. PICK state \in {"pending", "refused", "succeeded"} :
             op' = [op EXCEPT ![work[w].key].state = state, ![work[w].key].ref = TRUE]
               /\ Wrote(w, work[w].key, After(state))
      BY <1>1, <2>1 DEF AdapterAnswers, Answers
    <3>2. state = "refused"
      BY <1>0, <1>1, <3>1, <2>0 DEF Blocking, Unsettled, Secured, Row
    <3> QED
      BY <1>2, <2>0, <3>1, <3>2 DEF After, Secured, Failed
  <2>2. CASE ~AdapterAnswers(w)
    <3>1. op'[k].state \in Blocking
      BY <1>0, <1>1, <1>3, <2>0, <2>2 DEF CommitSteps, ClaimOperation, Dispatch, AdapterInDoubt, Save,
         ReopenSession, MaterializeBooking, Blocking, Unsettled, Secured, Row
    <3> QED
      BY <1>1, <3>1
  <2> QED
    BY <2>1, <2>2
<1>4. ASSUME NEW w \in Workers, OperatorSteps(w) PROVE Reopens(w)'
  <2>0. ~At(w, "idle") /\ work[w].key \in Keys
    BY <1>0, <1>4 DEF OperatorSteps, SupplierObserved, GiveBack, Stamp, At
  <2>1. PICK state : Save(w, work[w].key, state, IF state \in Failed THEN "giveback" ELSE "stamp")
    BY <1>1, <1>4 DEF OperatorSteps, SupplierObserved, GiveBack, Stamp
  <2>2. op' = [op EXCEPT ![work[w].key].state = state]
          /\ Wrote(w, work[w].key, IF state \in Failed THEN "giveback" ELSE "stamp")
    BY <1>1, <2>1 DEF Save
  <2>3. state \in Failed
    <3>1. SupplierObserved(w)
      BY <1>1, <1>4 DEF OperatorSteps, GiveBack, Stamp
    <3>2. op'[work[w].key].state \notin Blocking /\ op[work[w].key].state \in Blocking
      BY <1>0, <1>1, <2>0, <2>2 DEF Row
    <3>3. op'[work[w].key].state \in Observed(upstream[work[w].key]) \cup {op[work[w].key].state}
      BY <1>0, <1>1, <2>0, <3>1 DEF SupplierObserved, Save, Row
    <3>4. op'[work[w].key].state = state
      BY <1>0, <2>0, <2>2 DEF Row
    <3>5. upstream[work[w].key] \in {"none", "pending", "confirmed", "failed", "cancelled"}
      BY <2>0 DEF IInv, Typed, RowsTyped
    <3> QED
      BY <3>2, <3>3, <3>4, <3>5 DEF Observed, Blocking, Unsettled, Secured, Failed
  <2> QED
    BY <1>2, <2>0, <2>2, <2>3
<1>5. ASSUME NEW w \in Workers, DispatchUnsupported(w) PROVE Reopens(w)'
  BY <1>0, <1>2, <1>5 DEF DispatchUnsupported, At
<1>6. ASSUME NEW w \in Workers,
             AdapterNotSent(w) \/ WorkerDies(w) \/ \E j \in Keys : BeginCommit(w, j) \/ Reconcile(w, j)
      PROVE  FALSE
  <2>1. CASE AdapterNotSent(w)
    BY <1>0, <1>1, <2>1 DEF AdapterNotSent, Save, Blocking, Unsettled, Row, At
  <2>2. CASE WorkerDies(w) \/ \E j \in Keys : BeginCommit(w, j)
    BY <1>1, <2>2 DEF WorkerDies, BeginCommit
  <2>3. ASSUME NEW j \in Keys, Reconcile(w, j) PROVE FALSE
    <3>1. op' = op \/ op' = [op EXCEPT ![j].state = "manual_review"]
      BY <2>3 DEF Reconcile
    <3> QED
      BY <1>0, <1>1, <3>1 DEF Blocking, Unsettled, Row
  <2> QED
    BY <1>6, <2>1, <2>2, <2>3
<1>7. ASSUME NEW j \in Keys, ResolveOperation(j) PROVE FALSE
  <2>1. PICK state \in {"resolved_succeeded", "resolved_failed"} : Resolve(j, state)
    BY <1>7 DEF ResolveOperation
  <2>2. CASE state = "resolved_failed"
    BY <2>1, <2>2 DEF Resolve, Reopen, IInv, Typed, RowsTyped
  <2>3. CASE state = "resolved_succeeded"
    BY <1>0, <1>1, <2>1, <2>3 DEF Resolve, Blocking, Secured, Row
  <2> QED
    BY <2>1, <2>2, <2>3
<1>8. op' # op
  BY <1>1
<1> QED
  BY <1>3, <1>4, <1>5, <1>6, <1>7, <1>8 DEF Next, vars, Requote, AbandonSession, SessionLapses, ExpireSession,
     Supplier, Receives, Settles, RequestLost, Withdraws

\* A Commit freezes the session for an operation, or on its way to find that
\* the operation was refused.
LEMMA FreezingIsAttended ==
  ASSUME IInv, [Next]_vars, session.state # "supplier_pending", session'.state = "supplier_pending"
  PROVE  Blocked' \/ \E w \in Workers : Reopens(w)'
<1>0. /\ op \in [Keys -> Row] /\ work \in [Workers -> Job]
      /\ \A w \in Workers : ~At(w, "idle") => work[w].key \in Keys
      /\ session \in [state: {"active", "supplier_pending", "consumed", "over"},
                      quote: 1..MaxQuotes, lapsed: BOOLEAN]
  BY DEF IInv, Typed, RowsTyped, WorkTyped, WorkersKnowTheirKey
<1>1. PICK w \in Workers : ClaimOperation(w)
  <2>1. session' # session
    OBVIOUS
  <2>2. ~(Requote \/ AbandonSession \/ SessionLapses \/ ExpireSession)
    BY <1>0 DEF Requote, AbandonSession, SessionLapses, ExpireSession
  <2>3. \A x \in Workers : ~ReopenSession(x) /\ ~MaterializeBooking(x) /\ ~GiveBack(x)
    BY <1>0 DEF ReopenSession, MaterializeBooking, GiveBack, Reopen
  <2>4. \A j \in Keys : ~ResolveOperation(j)
    BY <1>0 DEF ResolveOperation, Resolve, Reopen
  <2> QED
    BY <2>1, <2>2, <2>3, <2>4 DEF Next, vars, CommitSteps, OperatorSteps, BeginCommit, Reconcile, Dispatch,
       AdapterAnswers, AdapterInDoubt, SupplierObserved, Stamp, DispatchUnsupported, AdapterNotSent,
       WorkerDies, Supplier, Receives, Settles, RequestLost, Withdraws
<1>2. work[w].key \in Keys
  BY <1>0, <1>1 DEF ClaimOperation, At
<1>3. GoTo(w, "dispatch")
  BY <1>1 DEF ClaimOperation
<1>4. At(w, "dispatch")' /\ work'[w].key = work[w].key
  BY <1>0, <1>3 DEF GoTo, At, Job
<1>5. CASE op[work[w].key].state = "none"
  <2>1. op'[work[w].key].state = "queued"
    BY <1>0, <1>1, <1>2, <1>5 DEF ClaimOperation, Row
  <2> QED
    BY <1>2, <2>1 DEF Blocked, Blocking, Unsettled
<1>6. CASE op[work[w].key].state # "none"
  <2>1. op' = op
    BY <1>1, <1>6 DEF ClaimOperation
  <2>2. op'[work[w].key].state \in Blocking \cup Failed
    BY <1>0, <1>2, <1>6, <2>1 DEF Row
  <2> QED
    BY <1>2, <1>4, <2>2 DEF Blocked, Reopens
<1> QED
  BY <1>5, <1>6

\* Unless a process died, a session is never left frozen over a refusal,
\* whoever brought the refusal and whoever else is at work on the session
\* (RefusalsReopen).
THEOREM RefusalsAreReopened == Spec => []RefusalsReopen
<1>1. Init => FrozenIsAttended
  BY DEF Init, FrozenIsAttended
<1>2. IInv /\ FrozenIsAttended /\ [Next]_vars => FrozenIsAttended'
  <2> SUFFICES ASSUME IInv, FrozenIsAttended, [Next]_vars, session'.state = "supplier_pending", deaths' = 0
               PROVE  Blocked' \/ \E w \in Workers : Reopens(w)'
    <3>1. deaths' \in Nat \/ ~(IInv /\ [Next]_vars)
      BY StepRowsTyped DEF IInv, Typed, RowsTyped
    <3> QED
      BY <3>1 DEF FrozenIsAttended
  <2>1. deaths = 0
    <3>1. deaths' = deaths \/ \E w \in Workers : WorkerDies(w)
      BY DEF Next, vars, Requote, AbandonSession, SessionLapses, ExpireSession, CommitSteps, OperatorSteps,
         BeginCommit, Reconcile, ClaimOperation, Dispatch, AdapterAnswers, AdapterInDoubt, ReopenSession,
         MaterializeBooking, SupplierObserved, GiveBack, Stamp, DispatchUnsupported, AdapterNotSent,
         Supplier, Receives, Settles, RequestLost, Withdraws, ResolveOperation, Resolve
    <3>2. deaths \in Nat
      BY DEF IInv, Typed, RowsTyped
    <3> QED
      BY <3>1, <3>2 DEF WorkerDies
  <2>2. CASE session.state # "supplier_pending"
    BY <2>2, FreezingIsAttended
  <2>3. CASE Blocked
    BY <2>3, EndingReopens
  <2>4. CASE \E w \in Workers : Reopens(w)
    BY <2>4, ReopensStands
  <2> QED
    BY <2>1, <2>2, <2>3, <2>4 DEF FrozenIsAttended
<1>3. FrozenIsAttended => RefusalsReopen
  BY DEF FrozenIsAttended, RefusalsReopen, Reopens, At
<1> QED
  BY <1>1, <1>2, <1>3, Invariance, PTL DEF Spec
=============================================================================
