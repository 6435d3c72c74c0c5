-------------------------- MODULE BookingSession --------------------------
(***************************************************************************)
(* One Booking Session for an owned product, from shopping to the Commit:  *)
(* packages/catalog/src/booking-engine/sessions-service.ts over            *)
(* sessions-drizzle.ts, the payments port of sessions-payment-production.ts*)
(* and the payment rows of packages/finance (booking-session-payment.ts,   *)
(* card-payment.ts, payment-adapter-events.ts).                            *)
(*                                                                         *)
(* What the shopper does runs in a transaction that holds the session row  *)
(* FOR UPDATE, but asks about payments on another connection: Begin and    *)
(* the action that ends it are that question and the writes.  A Commit is  *)
(* several transactions, and more than one may be underway: a retry, a     *)
(* second tab, and the settlement of a captured payment, which the outbox  *)
(* delivers until it is done or gives up.  A commit key owns one payment,  *)
(* so Keys names both.  Inventory answers placeCapacityHold as it likes    *)
(* here (AvailabilityHolds says how), and so does a price composed anew.   *)
(***************************************************************************)
EXTENDS Integers, FiniteSets

CONSTANTS MaxQuotes,       \* bound: rows of booking_session_quotes
          MaxHolds,        \* bound: rows of booking_session_holds
          Keys,            \* commit idempotency keys, and their payments
          MaxAmount,       \* bound: different amounts quoted
          Clocks,          \* what may lapse: of "session", "quote" and "hold"
          MaxAttempts,     \* deliveries before a settlement is dead-lettered
          None

Quotes == 1..MaxQuotes
Holds == 1..MaxHolds

ASSUME RowsAssumption ==
  /\ MaxQuotes \in Nat /\ MaxHolds \in Nat
  /\ IsFiniteSet(Keys) /\ None \notin Quotes \cup Holds \cup Keys
ASSUME LimitsAssumption == MaxAmount \in Nat \ {0} /\ MaxAttempts \in Nat \ {0}

VARIABLES session,   \* booking_sessions
          quote,     \* booking_session_quotes
          hold,      \* booking_session_holds
          payment,   \* payment_sessions of the session, by commit key
          bookings,  \* bookings the session's commits created
          begun,     \* the shopper's transaction that holds the session row
          commit,    \* the shopper's commit attempts
          settlement \* delivery of payment.completed to the settlement

vars == <<session, quote, hold, payment, bookings, begun, commit, settlement>>

\* "open" is requires_redirect and "embedded" the pending of a checkout
\* rendered in the page; "failed" is failed, cancelled or expired.
Statuses == {"none", "pending", "processing", "open", "embedded", "failed", "authorized", "paid"}

TypeOK ==
  /\ session \in [state: {"active", "consumed", "abandoned", "expired"}, lapsed: BOOLEAN]
  /\ quote \in [Quotes -> [state: {"unused", "active", "superseded", "expired", "consumed"},
                           amount: 0..MaxAmount, lapsed: BOOLEAN]]
  /\ hold \in [Holds -> [state: {"unused", "active", "released", "expired", "converted"},
                         quote: Quotes \cup {None}, lapsed: BOOLEAN]]
  /\ payment \in [Keys -> [status: Statuses, amount: 0..MaxAmount,
                           quote: Quotes \cup {None}, hold: Holds \cup {None}, booked: BOOLEAN]]
  /\ bookings \subseteq [quote: Quotes, hold: Holds, payment: Keys \cup {None}]
  /\ begun \in {"nothing", "operation", "expiry"}
  /\ commit \in [Keys -> [at: {"idle", "prepare", "create", "start", "check", "write",
                               "failed", "retire"},
                          quote: Quotes \cup {None}, hold: Holds \cup {None},
                          payment: Keys \cup {None}]]
  /\ settlement \in [Keys -> [at: {"none", "queued", "check", "write", "refused", "done",
                                   "dead", "lost"},
                              why: {"none", "session", "quote", "hold", "capacity"},
                              hold: Holds \cup {None}, attempts: 0..MaxAttempts]]

NoCommit == [at |-> "idle", quote |-> None, hold |-> None, payment |-> None]

Init ==
  /\ session = [state |-> "active", lapsed |-> FALSE]
  /\ quote = [q \in Quotes |-> [state |-> "unused", amount |-> 0, lapsed |-> FALSE]]
  /\ hold = [h \in Holds |-> [state |-> "unused", quote |-> None, lapsed |-> FALSE]]
  /\ payment = [k \in Keys |-> [status |-> "none", amount |-> 0, quote |-> None,
                                hold |-> None, booked |-> FALSE]]
  /\ bookings = {}
  /\ begun = "nothing"
  /\ commit = [k \in Keys |-> NoCommit]
  /\ settlement = [k \in Keys |-> [at |-> "none", why |-> "none", hold |-> None, attempts |-> 0]]
----------------------------------------------------------------------------
(* What the rows say *)

Active == session.state = "active"
ActiveHolds == {h \in Holds : hold[h].state = "active"}

\* No transaction holds the session row.
RowFree == begun = "nothing"

Settled(k) == payment[k].status \in {"authorized", "paid"}

\* payment_sessions.expires_at: the earliest of session, quote and hold.
HandoffLapsed(k) ==
  session.lapsed \/ quote[payment[k].quote].lapsed \/ hold[payment[k].hold].lapsed

\* Mutant: a handoff counts as in flight for as long as its row says so.
LiveForever(k) ==
  ~payment[k].booked /\ payment[k].status \in {"authorized", "paid", "processing", "open"}

\* liveBookingSessionPayment
Live(k) ==
  /\ ~payment[k].booked
  /\ \/ Settled(k)
     \/ payment[k].status \in {"processing", "open"} /\ ~HandoffLapsed(k)

\* hasInFlightBookingSessionPayment
InFlight == \E k \in Keys : Live(k)

\* loadUsableQuote, and loadUsableHold for a hold of quote q
UsableQuote(q) == quote[q].state = "active" /\ ~quote[q].lapsed
UsableHold(h, q) == hold[h].state = "active" /\ hold[h].quote = q /\ ~hold[h].lapsed

\* releaseLiveHolds, on the holds H
Released(H) ==
  [h \in Holds |->
     IF h \in H THEN [hold[h] EXCEPT !.state = IF hold[h].lapsed THEN "expired" ELSE "released"]
     ELSE hold[h]]

\* The active quotes become superseded or expired.
Retired(state) ==
  [q \in Quotes |->
     IF quote[q].state = "active" THEN [quote[q] EXCEPT !.state = state] ELSE quote[q]]

\* expirePendingBookingSessionPayments
PaymentsExpired ==
  [k \in Keys |->
     [payment[k] EXCEPT !.status =
        IF @ \in {"pending", "processing", "open", "embedded"} THEN "failed" ELSE @]]

\* Rows are inserted in the order of their ids.
NextQuote(q) == quote[q].state = "unused" /\ \A r \in 1..(q - 1) : quote[r].state # "unused"
NextHold(h) == hold[h].state = "unused" /\ \A g \in 1..(h - 1) : hold[g].state # "unused"
NewHold(q) == [state |-> "active", quote |-> q, lapsed |-> FALSE]
----------------------------------------------------------------------------
(* The shopper's operations, and the sweep *)

\* rejectWhilePaymentInFlight, the last check before an operation writes.
BeginOperation ==
  /\ RowFree /\ Active /\ ~session.lapsed /\ ~InFlight
  /\ begun' = "operation"
  /\ UNCHANGED <<session, quote, hold, payment, bookings, commit, settlement>>

\* expireSession asks the same.  The sweep comes here, and so does the first
\* operation on a lapsed session.
BeginExpiry ==
  /\ RowFree /\ Active /\ session.lapsed /\ ~InFlight
  /\ begun' = "expiry"
  /\ UNCHANGED <<session, quote, hold, payment, bookings, commit, settlement>>

Ends(what) == begun = what /\ begun' = "nothing" /\ UNCHANGED <<bookings, commit, settlement>>

\* Renewing extends expires_at from where it is.  The revision is not kept
\* here: what moves it supersedes the active quotes as well, but for the adoption
\* of an anonymous session, whose quote no Commit accepts any more.  Such Commits
\* are refused by PreflightRefuses, and the model allows them too.
RenewSession ==
  /\ Ends("operation")
  /\ session' = [session EXCEPT !.lapsed = FALSE]
  /\ hold' = Released(ActiveHolds)
  /\ quote' = Retired("superseded")
  /\ UNCHANGED payment

UpdateSession ==
  /\ Ends("operation")
  /\ hold' = Released(ActiveHolds)
  /\ quote' = Retired("superseded")
  /\ UNCHANGED <<session, payment>>

\* The last quote and its hold go even when the new one is unavailable.  Only
\* whether two quotes ask for the same is told apart: the first asks for 1.
QuoteSession ==
  /\ Ends("operation")
  /\ hold' = Released(ActiveHolds)
  /\ \/ quote' = Retired("superseded")
     \/ \E q \in Quotes, amount \in 1..MaxAmount :
          /\ NextQuote(q) /\ amount <= q
          /\ quote' = [Retired("superseded") EXCEPT
                         ![q] = [state |-> "active", amount |-> amount, lapsed |-> FALSE]]
  /\ UNCHANGED <<session, payment>>

\* Refused for the quote it names, or by inventory, a request for a hold still
\* gives up the one the session had.
PlaceHold ==
  /\ Ends("operation")
  /\ \E q \in Quotes :
       /\ quote[q].state \in {"active", "superseded", "expired"}
       /\ quote' = IF quote[q].state = "active" /\ quote[q].lapsed
                   THEN [quote EXCEPT ![q].state = "expired"] ELSE quote
       /\ \/ hold' = Released(ActiveHolds)
          \/ \E h \in Holds :
               /\ UsableQuote(q) /\ NextHold(h)
               /\ hold' = [Released(ActiveHolds) EXCEPT ![h] = NewHold(q)]
  /\ UNCHANGED <<session, payment>>

AbandonSession ==
  /\ Ends("operation")
  /\ session' = [session EXCEPT !.state = "abandoned"]
  /\ hold' = Released(ActiveHolds)
  /\ payment' = PaymentsExpired
  /\ quote' = Retired("superseded")

ExpireSession ==
  /\ Ends("expiry")
  /\ session' = [session EXCEPT !.state = "expired"]
  /\ hold' = Released(ActiveHolds)
  /\ payment' = PaymentsExpired
  /\ quote' = Retired("expired")
----------------------------------------------------------------------------
(* A shopper's Commit under key k *)

At(k, step) == commit[k].at = step
GoTo(k, step) == commit' = [commit EXCEPT ![k].at = step]
Stop(k) == commit' = [commit EXCEPT ![k] = NoCommit]

\* Every check of the preflight passes: the money comes next.
Preflight(k, q, h) ==
  /\ At(k, "idle") /\ RowFree /\ Active
  /\ session.lapsed => InFlight
  /\ UsableQuote(q) /\ UsableHold(h, q)
  /\ commit' = [commit EXCEPT ![k] = [at |-> "prepare", quote |-> q, hold |-> h, payment |-> None]]
  /\ UNCHANGED <<session, quote, hold, payment, bookings, begun, settlement>>

\* The quote or the hold will not do, or what the quote says has moved: the
\* holds go, and perhaps the quote, whoever is paying for them.
PreflightRefuses(k, q) ==
  /\ At(k, "idle") /\ RowFree /\ Active
  /\ session.lapsed => InFlight
  /\ quote[q].state # "unused"
  /\ hold' = Released(ActiveHolds)
  /\ \/ ~(quote[q].state = "active" /\ quote[q].lapsed) /\ quote' = quote
     \/ /\ quote[q].state = "active"
        /\ quote' = [quote EXCEPT ![q].state = IF quote[q].lapsed THEN "expired" ELSE "superseded"]
  /\ UNCHANGED <<session, payment, bookings, begun, commit, settlement>>

\* Mutant: money for another amount will do.
EstablishedAnyAmount(k) == {p \in Keys : Settled(p) /\ ~payment[p].booked}

\* findEstablishedBookingSessionPayment
Established(k) ==
  {p \in Keys : Settled(p) /\ ~payment[p].booked /\ payment[p].amount = quote[commit[k].quote].amount}

\* A live payment that collects something else, under another key.
Competing(k) ==
  {p \in Keys \ {k} : Live(p) /\ payment[p].amount # quote[commit[k].quote].amount}

\* prepare: nothing to collect, money already there, or a payment to open.
Prepare(k) ==
  /\ At(k, "prepare")
  /\ \/ GoTo(k, "check")
     \/ \E p \in Established(k) : commit' = [commit EXCEPT ![k].at = "check", ![k].payment = p]
     \/ Established(k) = {} /\ Competing(k) # {} /\ Stop(k)
     \/ Established(k) = {} /\ Competing(k) = {} /\ GoTo(k, "create")
  /\ UNCHANGED <<session, quote, hold, payment, bookings, begun, settlement>>

CreatePayment(k) ==
  /\ At(k, "create") /\ payment[k].status = "none"
  /\ payment' = [payment EXCEPT ![k] = [status |-> "pending", amount |-> quote[commit[k].quote].amount,
                                        quote |-> commit[k].quote, hold |-> commit[k].hold,
                                        booked |-> FALSE]]
  /\ GoTo(k, "start")
  /\ UNCHANGED <<session, quote, hold, bookings, begun, settlement>>

\* The key has a payment: for another amount it is a conflict, and its quote
\* and hold stay those it was created with.
ReusePayment(k) ==
  LET same == payment[k].amount = quote[commit[k].quote].amount
  IN /\ At(k, "create") /\ payment[k].status # "none"
     /\ CASE same /\ Settled(k) /\ ~payment[k].booked ->
               commit' = [commit EXCEPT ![k].at = "check", ![k].payment = k]
          [] same /\ payment[k].status = "pending" -> GoTo(k, "start")
          [] OTHER -> Stop(k)
     /\ UNCHANGED <<session, quote, hold, payment, bookings, begun, settlement>>

\* startPaymentAdapterCardPayment claims the payment; the caller is told to pay.
StartPayment(k) ==
  /\ At(k, "start")
  /\ payment' = IF payment[k].status = "pending"
                THEN [payment EXCEPT ![k].status = "processing"] ELSE payment
  /\ Stop(k)
  /\ UNCHANGED <<session, quote, hold, bookings, begun, settlement>>

\* consumeCommittedSources reads everything anew, without a lock.
CheckSources(k) ==
  LET c == commit[k]
  IN /\ At(k, "check")
     /\ IF session.state = "consumed" THEN Stop(k)
        ELSE IF ~Active \/ session.lapsed THEN GoTo(k, "retire")
        ELSE IF UsableQuote(c.quote) /\ UsableHold(c.hold, c.quote)
             THEN GoTo(k, "write") \/ GoTo(k, "failed")
             ELSE GoTo(k, "failed")
     /\ UNCHANGED <<session, quote, hold, payment, bookings, begun, settlement>>

\* Mutant: the rows are claimed by their ids alone.
ConsumableUnconditionally(q, h, p, states) ==
  RowFree /\ (p # None => Settled(p))

\* consumeCommit updates each row in the states it may be claimed from;
\* transferToBooking refuses a payment that is not the session's any more.
Consumable(q, h, p, states) ==
  /\ RowFree /\ Active
  /\ quote[q].state \in states /\ hold[h].state = "active"
  /\ p # None => Settled(p) /\ ~payment[p].booked

Consume(q, h, p) ==
  /\ session' = [session EXCEPT !.state = "consumed"]
  /\ quote' = [quote EXCEPT ![q].state = "consumed"]
  /\ hold' = [hold EXCEPT ![h].state = "converted"]
  /\ payment' = IF p = None THEN payment ELSE [payment EXCEPT ![p].booked = TRUE]
  /\ bookings' = bookings \cup {[quote |-> q, hold |-> h, payment |-> p]}

CommitBooks(k) ==
  LET c == commit[k]
  IN /\ At(k, "write")
     /\ Consumable(c.quote, c.hold, c.payment, {"active"})
     /\ Consume(c.quote, c.hold, c.payment)
     /\ Stop(k)
     /\ UNCHANGED <<begun, settlement>>

\* A row was claimed or retired meanwhile, inventory refused, or the request
\* died: whatever the transaction did is undone.
CommitStops(k) ==
  /\ ~At(k, "idle")
  /\ Stop(k)
  /\ UNCHANGED <<session, quote, hold, payment, bookings, begun, settlement>>

\* persistCommitFailureState gives up what the commit rested on.
PersistFailure(k) ==
  LET q == commit[k].quote
  IN /\ At(k, "failed") /\ RowFree /\ ~(Active /\ session.lapsed)
     /\ IF Active
        THEN /\ hold' = Released(ActiveHolds)
             /\ \/ quote' = quote
                \/ /\ quote[q].state = "active"
                   /\ quote' = [quote EXCEPT ![q].state =
                                  IF quote[q].lapsed THEN "expired" ELSE "superseded"]
        ELSE UNCHANGED <<hold, quote>>
     /\ Stop(k)
     /\ UNCHANGED <<session, payment, bookings, begun, settlement>>

\* expireSessionInSessionTransaction takes any session that is not consumed.
RetireSession(k) ==
  /\ RowFree
  /\ At(k, "retire") \/ (At(k, "failed") /\ Active /\ session.lapsed)
  /\ begun' = IF session.state = "consumed" \/ InFlight THEN begun ELSE "expiry"
  /\ Stop(k)
  /\ UNCHANGED <<session, quote, hold, payment, bookings, settlement>>
----------------------------------------------------------------------------
(* The processor *)

\* The claim of the initiation ends: a page to send the shopper to, a form in
\* the page, or a failure that may be tried again.
InitiationAnswers(k) ==
  /\ payment[k].status = "processing"
  /\ \E status \in {"open", "embedded", "pending"} : payment' = [payment EXCEPT ![k].status = status]
  /\ UNCHANGED <<session, quote, hold, bookings, begun, commit, settlement>>

AtProcessor(k) == payment[k].status \in {"processing", "open", "embedded"}

PaymentFails(k) ==
  /\ AtProcessor(k)
  /\ payment' = [payment EXCEPT ![k].status = "failed"]
  /\ UNCHANGED <<session, quote, hold, bookings, begun, commit, settlement>>

\* canApplyPaymentAdapterStateTransition: money may arrive after a failure, or
\* be entered by hand for a payment that was never handed to the processor.
PaymentAuthorized(k) ==
  /\ payment[k].status \notin {"none", "authorized", "paid"}
  /\ payment' = [payment EXCEPT ![k].status = "authorized"]
  /\ UNCHANGED <<session, quote, hold, bookings, begun, commit, settlement>>

\* payment.completed is emitted after the commit that says paid, so a process
\* that dies in between loses it: a later callback finds the payment paid.
PaymentPaid(k) ==
  /\ payment[k].status \notin {"none", "paid"}
  /\ payment' = [payment EXCEPT ![k].status = "paid"]
  /\ \E at \in {"queued", "lost"} : settlement' = [settlement EXCEPT ![k].at = at]
  /\ UNCHANGED <<session, quote, hold, bookings, begun, commit>>
----------------------------------------------------------------------------
(* commitPaidSession, on each delivery of payment.completed *)

Settling(k, step) == settlement[k].at = step
Proceed(k, step, h) ==
  settlement' = [settlement EXCEPT ![k].at = step, ![k].hold = h]
Refuse(k, why) ==
  settlement' = [settlement EXCEPT ![k].at = "refused", ![k].why = why, ![k].hold = None]

\* Mutant: the limit is compared before the attempt is counted.
AgainOnceMore(k) ==
  settlement' = [settlement EXCEPT
    ![k].at = IF settlement[k].attempts = MaxAttempts THEN "dead" ELSE "queued",
    ![k].attempts = @ + 1, ![k].why = "none", ![k].hold = None]

\* Mutant: a retry is not counted.
AgainUncounted(k) ==
  settlement' = [settlement EXCEPT ![k].at = "queued", ![k].why = "none", ![k].hold = None]

\* A failure that is not a verdict: another delivery, while there is one.
Again(k) ==
  settlement' = [settlement EXCEPT
    ![k].at = IF settlement[k].attempts + 1 = MaxAttempts THEN "dead" ELSE "queued",
    ![k].attempts = @ + 1, ![k].why = "none", ![k].hold = None]

Reusable(k) == {h \in Holds : UsableHold(h, payment[k].quote)}

\* What a settlement rests on: the quote of the payment, though it may be
\* superseded, and of its live holds the recorded one first.
FindSources(k) ==
  /\ quote[payment[k].quote].state # "expired"
  /\ \E h \in Reusable(k) :
       /\ payment[k].hold \in Reusable(k) => h = payment[k].hold
       /\ Proceed(k, "check", h)
  /\ UNCHANGED hold

\* Mutant: the seats are asked for without looking for a hold an earlier
\* attempt took.
RetakeHoldAnew(k) ==
  /\ quote[payment[k].quote].state # "expired"
  /\ \E h \in Holds :
       /\ NextHold(h)
       /\ hold' = [Released(ActiveHolds) EXCEPT ![h] = NewHold(payment[k].quote)]
       /\ Proceed(k, "check", h)

\* Mutant: what the session still held is left in place.
RetakeHoldBeside(k) ==
  /\ quote[payment[k].quote].state # "expired" /\ Reusable(k) = {}
  /\ \E h \in Holds :
       /\ NextHold(h)
       /\ hold' = [hold EXCEPT ![h] = NewHold(payment[k].quote)]
       /\ Proceed(k, "check", h)

\* reestablishSettlementHold: none is usable, so the stale ones go and
\* inventory is asked for the seats again.
RetakeHold(k) ==
  /\ quote[payment[k].quote].state # "expired" /\ Reusable(k) = {}
  /\ \/ \E h \in Holds :
          /\ NextHold(h)
          /\ hold' = [Released(ActiveHolds) EXCEPT ![h] = NewHold(payment[k].quote)]
          /\ Proceed(k, "check", h)
     \/ hold' = Released(ActiveHolds) /\ Refuse(k, "capacity")

SettlementBegins(k) ==
  /\ Settling(k, "queued") /\ RowFree
  /\ IF bookings # {} THEN Proceed(k, "done", None) /\ UNCHANGED hold
     ELSE IF ~Active THEN Refuse(k, "session") /\ UNCHANGED hold
     ELSE \/ quote[payment[k].quote].state = "expired" /\ Refuse(k, "quote") /\ UNCHANGED hold
          \/ FindSources(k)
          \/ RetakeHold(k)
  /\ UNCHANGED <<session, quote, payment, bookings, begun, commit>>

\* The same rules again, inside the booking's transaction and without a lock.
\* Then inventory books the seats of the hold, or refuses to for good.
SettlementChecks(k) ==
  LET h == settlement[k].hold
  IN /\ Settling(k, "check")
     /\ IF bookings # {} THEN Proceed(k, "done", None)
        ELSE IF ~Active THEN Refuse(k, "session")
        ELSE IF quote[payment[k].quote].state = "expired" THEN Refuse(k, "quote")
        ELSE IF h \notin Reusable(k) THEN Refuse(k, "hold")
        ELSE Proceed(k, "write", h) \/ Refuse(k, "capacity")
     /\ UNCHANGED <<session, quote, hold, payment, bookings, begun, commit>>

SettlementBooks(k) ==
  LET q == payment[k].quote
      h == settlement[k].hold
  IN /\ Settling(k, "write")
     /\ Consumable(q, h, k, {"active", "superseded"})
     /\ Consume(q, h, k)
     /\ Proceed(k, "done", None)
     /\ UNCHANGED <<begun, commit>>

\* A row it meant to consume is gone: a booking made under another key ends
\* the settlement, anything else is tried again.
SettlementBlocked(k) ==
  /\ Settling(k, "write") /\ RowFree
  /\ ~Consumable(payment[k].quote, settlement[k].hold, k, {"active", "superseded"})
  /\ IF bookings # {} THEN Proceed(k, "done", None) ELSE Again(k)
  /\ UNCHANGED <<session, quote, hold, payment, bookings, begun, commit>>

SettlementFails(k) ==
  /\ settlement[k].at \in {"check", "write", "refused"}
  /\ Again(k)
  /\ UNCHANGED <<session, quote, hold, payment, bookings, begun, commit>>

\* settlementRefusalIsFinal: the delivery is dead-lettered at once, and what
\* the session still holds is given up.
SettlementRefused(k) ==
  /\ Settling(k, "refused") /\ RowFree
  /\ hold' = IF Active THEN Released(ActiveHolds) ELSE hold
  /\ settlement' = [settlement EXCEPT ![k].at = "dead"]
  /\ UNCHANGED <<session, quote, payment, bookings, begun, commit>>
----------------------------------------------------------------------------
(* Clocks *)

SessionLapses ==
  /\ "session" \in Clocks
  /\ Active /\ ~session.lapsed
  /\ session' = [session EXCEPT !.lapsed = TRUE]
  /\ UNCHANGED <<quote, hold, payment, bookings, begun, commit, settlement>>

\* A handoff of payment k ends by the clocks of its quote and its hold.
HandedOff(k) == payment[k].status \in {"processing", "open"}

\* Clocks nothing reads any more stand still.
QuoteLapses(q) ==
  /\ "quote" \in Clocks
  /\ quote[q].state = "active" \/ \E k \in Keys : HandedOff(k) /\ payment[k].quote = q
  /\ ~quote[q].lapsed
  /\ quote' = [quote EXCEPT ![q].lapsed = TRUE]
  /\ UNCHANGED <<session, hold, payment, bookings, begun, commit, settlement>>

HoldLapses(h) ==
  /\ "hold" \in Clocks
  /\ hold[h].state = "active" \/ \E k \in Keys : HandedOff(k) /\ payment[k].hold = h
  /\ ~hold[h].lapsed
  /\ hold' = [hold EXCEPT ![h].lapsed = TRUE]
  /\ UNCHANGED <<session, quote, payment, bookings, begun, commit, settlement>>
----------------------------------------------------------------------------
Shopper ==
  \/ BeginOperation
  \/ RenewSession \/ UpdateSession \/ QuoteSession \/ PlaceHold \/ AbandonSession

Sweep == BeginExpiry \/ ExpireSession

Commit(k) ==
  \/ \E q \in Quotes, h \in Holds : Preflight(k, q, h)
  \/ \E q \in Quotes : PreflightRefuses(k, q)
  \/ Prepare(k) \/ CreatePayment(k) \/ ReusePayment(k) \/ StartPayment(k)
  \/ CheckSources(k) \/ CommitBooks(k) \/ CommitStops(k)
  \/ PersistFailure(k) \/ RetireSession(k)

Processor(k) ==
  InitiationAnswers(k) \/ PaymentFails(k) \/ PaymentAuthorized(k) \/ PaymentPaid(k)

Settle(k) ==
  SettlementBegins(k) \/ SettlementChecks(k) \/ SettlementBooks(k) \/ SettlementBlocked(k)
    \/ SettlementRefused(k)

Next ==
  \/ Shopper \/ Sweep
  \/ \E k \in Keys : Commit(k) \/ Processor(k) \/ Settle(k) \/ SettlementFails(k)
  \/ SessionLapses
  \/ \E q \in Quotes : QuoteLapses(q)
  \/ \E h \in Holds : HoldLapses(h)

\* The sweep is a schedule, a delivery is retried by the outbox, and a
\* transaction that was begun ends.
Fairness ==
  /\ WF_vars(Sweep)
  /\ WF_vars(begun # "nothing" /\ Shopper)
  /\ \A k \in Keys : WF_vars(Settle(k))

Spec == Init /\ [][Next]_vars /\ Fairness
----------------------------------------------------------------------------
(* Properties *)

\* A session makes at most one booking, whoever commits it: the booking, the
\* session, the quote, the hold and the payment change together
\* (consumeCommit, transferToBooking; voyant#4636).
BookedTogether ==
  /\ Cardinality(bookings) <= 1
  /\ session.state = "consumed" <=> bookings # {}
  /\ \A b \in bookings :
       /\ {q \in Quotes : quote[q].state = "consumed"} = {b.quote}
       /\ {h \in Holds : hold[h].state = "converted"} = {b.hold}
       /\ {k \in Keys : payment[k].booked} = {b.payment} \ {None}

\* The booking is for the quote whose amount was collected and for a hold of
\* that quote, whatever was quoted meanwhile (loadSettledQuote, prepare).
BookedAsPaid ==
  \A b \in bookings :
    /\ hold[b.hold].quote = b.quote
    /\ b.payment # None => payment[b.payment].amount = quote[b.quote].amount

\* A session reserves seats for one party only, and for none once it is over
\* (releaseLiveHolds, reestablishSettlementHold, expireSession).
HoldsFollowSession ==
  Cardinality(ActiveHolds) <= (IF Active THEN 1 ELSE 0)

\* A settlement never gives up a hold it could have used while it may still be
\* retried (sessions-service.ts:2862-2868, voyant#4636).
SettlementSparesItsHold ==
  [][\A k \in Keys, h \in Holds :
       /\ settlement[k].at # settlement'[k].at /\ settlement'[k].at # "dead"
       /\ h \in Reusable(k)
       => hold'[h].state # "released"]_vars

\* Every captured payment that was announced ends as a booking or as a
\* dead-lettered delivery (commitPaidSession under the outbox's retries).
SettlementEnds ==
  \A k \in Keys : settlement[k].at = "queued" ~> settlement[k].at \in {"done", "dead"}

\* A lapsed session is retired and its seats go back on sale, unless its money
\* has settled (expireSession, booking-session-maintenance-job.ts).
LapsedSessionRetires ==
  Active /\ session.lapsed
    ~> ~(Active /\ session.lapsed) \/ \E k \in Keys : Settled(k) /\ ~payment[k].booked
============================================================================
