------------------------ MODULE BookingSessionProofs ------------------------
(***************************************************************************)
(* Proofs about BookingSession, for any number of quotes, holds, commit    *)
(* keys, amounts and deliveries: a session makes one booking, of the quote *)
(* that was paid for and of a hold of that quote, and holds seats for one  *)
(* party only; a settlement spares the hold it could have used.            *)
(*                                                                         *)
(* A Commit and a settlement carry what they read across transactions that *)
(* other transactions run between.  What makes that safe is that a quote's *)
(* amount, a hold's quote and a payment's amount and quote never change    *)
(* once the row is there (QuotesGoOn, HoldsGoOn, PaymentsGoOn), and that   *)
(* the booking's transaction claims every row in the state it needs.       *)
(***************************************************************************)
EXTENDS BookingSession, FiniteSetTheorems, TLAPS

SessionRow == [state: {"active", "consumed", "abandoned", "expired"}, lapsed: BOOLEAN]
QuoteRow == [state: {"unused", "active", "superseded", "expired", "consumed"},
             amount: 0..MaxAmount, lapsed: BOOLEAN]
HoldRow == [state: {"unused", "active", "released", "expired", "converted"},
            quote: Quotes \cup {None}, lapsed: BOOLEAN]
PaymentRow == [status: Statuses, amount: 0..MaxAmount,
               quote: Quotes \cup {None}, hold: Holds \cup {None}, booked: BOOLEAN]
BookingRow == [quote: Quotes, hold: Holds, payment: Keys \cup {None}]
CommitRow == [at: {"idle", "prepare", "create", "start", "check", "write", "failed", "retire"},
              quote: Quotes \cup {None}, hold: Holds \cup {None}, payment: Keys \cup {None}]
SettlementRow == [at: {"none", "queued", "check", "write", "refused", "done", "dead", "lost"},
                  why: {"none", "session", "quote", "hold", "capacity"},
                  hold: Holds \cup {None}, attempts: 0..MaxAttempts]

\* A payment collects the amount of the quote it was created for.
PaymentsOfQuotes ==
  \A k \in Keys :
    /\ payment[k].status # "none" =>
         /\ payment[k].quote \in Quotes /\ quote[payment[k].quote].state # "unused"
         /\ payment[k].amount = quote[payment[k].quote].amount
    /\ payment[k].booked => Settled(k)

\* What the commit attempt c rests on: a hold of its quote, money for its amount.
Rests(c) ==
  /\ c.quote \in Quotes /\ quote[c.quote].state # "unused"
  /\ c.hold \in Holds /\ hold[c.hold].state # "unused" /\ hold[c.hold].quote = c.quote
  /\ c.payment # None => /\ payment[c.payment].status # "none"
                         /\ payment[c.payment].amount = quote[c.quote].amount
CommitsRest == \A k \in Keys : commit[k].at # "idle" => Rests(commit[k])

\* What the settlement s of the paid payment p rests on.
RestsOn(s, p) ==
  /\ s.at # "none" => p.status = "paid"
  /\ s.at \notin {"done", "dead", "lost"} => s.attempts < MaxAttempts
  /\ s.at \in {"check", "write"} => /\ s.hold \in Holds /\ hold[s.hold].state # "unused"
                                    /\ hold[s.hold].quote = p.quote
SettlementsRest == \A k \in Keys : RestsOn(settlement[k], payment[k])

\* The session row is locked between Begin and the writes.
RowIsLocked ==
  /\ begun = "operation" => Active
  /\ begun = "expiry" => session.state # "consumed"

OneHold == /\ \A g, h \in ActiveHolds : g = h
           /\ ~Active => ActiveHolds = {}

OneBooking == \A b, c \in bookings : b = c

\* BookedTogether but for the number of bookings, and what holds before there is one.
AllOrNothing ==
  /\ session.state = "consumed" <=> bookings # {}
  /\ bookings = {} => /\ \A q \in Quotes : quote[q].state # "consumed"
                      /\ \A h \in Holds : hold[h].state # "converted"
                      /\ \A k \in Keys : ~payment[k].booked
  /\ \A b \in bookings :
       /\ {q \in Quotes : quote[q].state = "consumed"} = {b.quote}
       /\ {h \in Holds : hold[h].state = "converted"} = {b.hold}
       /\ {k \in Keys : payment[k].booked} = {b.payment} \ {None}

Reasons == /\ PaymentsOfQuotes /\ CommitsRest /\ SettlementsRest
Outcomes == /\ RowIsLocked /\ OneHold /\ OneBooking /\ AllOrNothing /\ BookedAsPaid
IInv == TypeOK /\ Reasons /\ Outcomes

-----------------------------------------------------------------------------
(* How the tables change *)

\* A row that is there stays, and keeps what others rely on.
QuotesGoOn ==
  /\ quote' \in [Quotes -> QuoteRow]
  /\ \A q \in Quotes :
       /\ quote[q].state # "unused" => quote'[q].state # "unused" /\ quote'[q].amount = quote[q].amount
       /\ quote'[q].state = "consumed" <=> quote[q].state = "consumed"
HoldsGoOn ==
  /\ hold' \in [Holds -> HoldRow]
  /\ \A h \in Holds :
       /\ hold[h].state # "unused" => hold'[h].state # "unused" /\ hold'[h].quote = hold[h].quote
       /\ hold'[h].state = "converted" <=> hold[h].state = "converted"
PaymentsGoOn ==
  /\ payment' \in [Keys -> PaymentRow]
  /\ \A k \in Keys :
       /\ payment'[k].booked = payment[k].booked
       /\ payment[k].booked => payment'[k].status \in {"authorized", "paid"}
       /\ payment[k].status = "paid" => payment'[k].status = "paid"
       /\ payment[k].status # "none" => /\ payment'[k].status # "none"
                                        /\ payment'[k].amount = payment[k].amount
                                        /\ payment'[k].quote = payment[k].quote
       /\ payment[k].status = "none" /\ payment'[k].status # "none" =>
            /\ payment'[k].quote \in Quotes /\ quote[payment'[k].quote].state # "unused"
            /\ payment'[k].amount = quote[payment'[k].quote].amount
SessionGoesOn ==
  session' \in SessionRow /\ (session'.state = "consumed" <=> session.state = "consumed")

\* A step that books nothing.
TablesGoOn == QuotesGoOn /\ HoldsGoOn /\ PaymentsGoOn /\ SessionGoesOn /\ bookings' = bookings

\* What a commit and a settlement rest on outlives any step that books nothing.
LEMMA RestsStays ==
  ASSUME TypeOK, TablesGoOn, NEW c, c.payment \in Keys \cup {None}, Rests(c) PROVE Rests(c)'
BY DEF TablesGoOn, QuotesGoOn, HoldsGoOn, PaymentsGoOn, Rests

LEMMA PaymentsStay == ASSUME TypeOK, TablesGoOn, PaymentsOfQuotes PROVE PaymentsOfQuotes'
<1> SUFFICES ASSUME NEW k \in Keys
             PROVE  /\ payment'[k].status # "none" =>
                         /\ payment'[k].quote \in Quotes /\ quote'[payment'[k].quote].state # "unused"
                         /\ payment'[k].amount = quote'[payment'[k].quote].amount
                    /\ payment'[k].booked => Settled(k)'
  BY DEF PaymentsOfQuotes
<1>1. /\ payment[k].status # "none" =>
           /\ payment[k].quote \in Quotes /\ quote[payment[k].quote].state # "unused"
           /\ payment[k].amount = quote[payment[k].quote].amount
      /\ payment[k].booked => Settled(k)
  BY DEF PaymentsOfQuotes
<1> QED
  BY <1>1 DEF TablesGoOn, QuotesGoOn, PaymentsGoOn, Settled

LEMMA SettlementsStay ==
  ASSUME TypeOK, TablesGoOn, PaymentsOfQuotes, NEW k \in Keys, NEW s, RestsOn(s, payment[k])
  PROVE  RestsOn(s, payment[k])'
<1>1. payment[k].status = "paid" => payment'[k].status = "paid" /\ payment'[k].quote = payment[k].quote
  BY DEF TablesGoOn, PaymentsGoOn
<1> QED
  BY <1>1 DEF RestsOn, TablesGoOn, HoldsGoOn

LEMMA BookingStays ==
  ASSUME TypeOK, PaymentsOfQuotes, TablesGoOn, OneBooking, AllOrNothing, BookedAsPaid
  PROVE  OneBooking' /\ AllOrNothing' /\ BookedAsPaid'
<1>1. OneBooking'
  BY DEF OneBooking, TablesGoOn
<1>2. AllOrNothing'
  <2>1. session'.state = "consumed" <=> bookings' # {}
    BY DEF AllOrNothing, TablesGoOn, SessionGoesOn
  <2>2. {q \in Quotes : quote'[q].state = "consumed"} = {q \in Quotes : quote[q].state = "consumed"}
    BY DEF TablesGoOn, QuotesGoOn
  <2>3. {h \in Holds : hold'[h].state = "converted"} = {h \in Holds : hold[h].state = "converted"}
    BY DEF TablesGoOn, HoldsGoOn
  <2>4. {k \in Keys : payment'[k].booked} = {k \in Keys : payment[k].booked}
    BY DEF TablesGoOn, PaymentsGoOn
  <2>5. bookings = {} => /\ \A q \in Quotes : quote'[q].state # "consumed"
                         /\ \A h \in Holds : hold'[h].state # "converted"
                         /\ \A k \in Keys : ~payment'[k].booked
    BY DEF AllOrNothing, TablesGoOn, QuotesGoOn, HoldsGoOn, PaymentsGoOn
  <2> QED
    BY <2>1, <2>2, <2>3, <2>4, <2>5 DEF AllOrNothing, TablesGoOn
<1>3. BookedAsPaid'
  <2> SUFFICES ASSUME NEW b \in bookings
               PROVE  /\ hold'[b.hold].quote = b.quote
                      /\ b.payment # None => payment'[b.payment].amount = quote'[b.quote].amount
    BY DEF BookedAsPaid, TablesGoOn
  <2>1. b.quote \in Quotes /\ b.hold \in Holds /\ b.payment \in Keys \cup {None}
    BY DEF TypeOK
  <2>2. /\ quote[b.quote].state = "consumed" /\ hold[b.hold].state = "converted"
        /\ b.payment # None => payment[b.payment].booked
    BY <2>1 DEF AllOrNothing
  <2>3. b.payment # None => payment[b.payment].status # "none"
    BY <2>1, <2>2 DEF PaymentsOfQuotes, Settled
  <2>4. /\ hold[b.hold].quote = b.quote
        /\ b.payment # None => payment[b.payment].amount = quote[b.quote].amount
    BY DEF BookedAsPaid
  <2> QED
    BY <2>1, <2>2, <2>3, <2>4 DEF TablesGoOn, QuotesGoOn, HoldsGoOn, PaymentsGoOn
<1> QED
  BY <1>1, <1>2, <1>3

LEMMA RetiredQuotes ==
  ASSUME TypeOK, NEW s \in {"superseded", "expired"}
  PROVE  /\ Retired(s) \in [Quotes -> QuoteRow]
         /\ \A q \in Quotes : /\ Retired(s)[q].amount = quote[q].amount
                              /\ Retired(s)[q].state = IF quote[q].state = "active" THEN s ELSE quote[q].state
<1>1. quote \in [Quotes -> QuoteRow]
  BY DEF TypeOK, QuoteRow
<1>2. ASSUME NEW q \in Quotes
      PROVE  /\ Retired(s)[q] \in QuoteRow
             /\ Retired(s)[q].amount = quote[q].amount
             /\ Retired(s)[q].state = IF quote[q].state = "active" THEN s ELSE quote[q].state
  <2>1. PICK r : r = [quote[q] EXCEPT !.state = s]
    OBVIOUS
  <2>2. quote[q] \in QuoteRow
    BY <1>1
  <2>3. r \in QuoteRow /\ r.amount = quote[q].amount /\ r.state = s
    BY <2>1, <2>2 DEF QuoteRow
  <2>4. Retired(s)[q] = IF quote[q].state = "active" THEN r ELSE quote[q]
    BY <2>1 DEF Retired
  <2> QED
    BY <2>2, <2>3, <2>4
<1> QED
  BY <1>2 DEF Retired

LEMMA RetiredGoesOn ==
  ASSUME TypeOK, NEW s \in {"superseded", "expired"}, quote' = Retired(s) PROVE QuotesGoOn
BY RetiredQuotes DEF QuotesGoOn

LEMMA NewQuoteGoesOn ==
  ASSUME TypeOK, NEW q \in Quotes, NEW amount \in 1..MaxAmount, NextQuote(q),
         quote' = [Retired("superseded") EXCEPT ![q] = [state |-> "active", amount |-> amount, lapsed |-> FALSE]]
  PROVE  QuotesGoOn
<1>1. PICK new : new = [state |-> "active", amount |-> amount, lapsed |-> FALSE]
  OBVIOUS
<1>2. new \in QuoteRow /\ new.state = "active"
  BY <1>1, LimitsAssumption DEF QuoteRow
<1>3. PICK old \in [Quotes -> QuoteRow] :
        /\ old = Retired("superseded")
        /\ \A p \in Quotes : /\ old[p].amount = quote[p].amount
                             /\ old[p].state = IF quote[p].state = "active" THEN "superseded" ELSE quote[p].state
  BY RetiredQuotes
<1>4. quote' = [old EXCEPT ![q] = new]
  BY <1>1, <1>3
<1>5. quote[q].state = "unused"
  BY DEF NextQuote
<1> QED
  BY <1>2, <1>3, <1>4, <1>5 DEF QuotesGoOn

LEMMA QuoteSetGoesOn ==
  ASSUME TypeOK, NEW q \in Quotes, quote[q].state = "active", NEW s \in {"superseded", "expired"},
         quote' = [quote EXCEPT ![q].state = s]
  PROVE  QuotesGoOn
<1>1. quote \in [Quotes -> QuoteRow]
  BY DEF TypeOK, QuoteRow
<1>2. PICK r : r = [quote[q] EXCEPT !.state = s]
  OBVIOUS
<1>3. r \in QuoteRow /\ r.amount = quote[q].amount /\ r.state = s
  BY <1>1, <1>2 DEF QuoteRow
<1>4. quote' = [quote EXCEPT ![q] = r]
  BY <1>2
<1> QED
  BY <1>1, <1>3, <1>4 DEF QuotesGoOn

LEMMA QuoteLapseGoesOn ==
  ASSUME TypeOK, NEW q \in Quotes, quote' = [quote EXCEPT ![q].lapsed = TRUE]
  PROVE  QuotesGoOn
<1>1. quote \in [Quotes -> QuoteRow]
  BY DEF TypeOK, QuoteRow
<1>2. PICK r : r = [quote[q] EXCEPT !.lapsed = TRUE]
  OBVIOUS
<1>3. r \in QuoteRow /\ r.amount = quote[q].amount /\ r.state = quote[q].state
  BY <1>1, <1>2 DEF QuoteRow
<1>4. quote' = [quote EXCEPT ![q] = r]
  BY <1>2
<1> QED
  BY <1>1, <1>3, <1>4 DEF QuotesGoOn

LEMMA SameQuotesGoOn == ASSUME TypeOK, quote' = quote PROVE QuotesGoOn
BY DEF TypeOK, QuoteRow, QuotesGoOn

LEMMA ReleasedHolds ==
  ASSUME TypeOK
  PROVE  /\ Released(ActiveHolds) \in [Holds -> HoldRow]
         /\ \A h \in Holds :
              /\ Released(ActiveHolds)[h].quote = hold[h].quote
              /\ Released(ActiveHolds)[h].state # "active"
              /\ hold[h].state # "active" => Released(ActiveHolds)[h] = hold[h]
              /\ hold[h].state = "active" => Released(ActiveHolds)[h].state \in {"released", "expired"}
<1>1. hold \in [Holds -> HoldRow]
  BY DEF TypeOK, HoldRow
<1>2. ASSUME NEW h \in Holds
      PROVE  /\ Released(ActiveHolds)[h] \in HoldRow
             /\ Released(ActiveHolds)[h].quote = hold[h].quote
             /\ Released(ActiveHolds)[h].state # "active"
             /\ hold[h].state # "active" => Released(ActiveHolds)[h] = hold[h]
             /\ hold[h].state = "active" => Released(ActiveHolds)[h].state \in {"released", "expired"}
  <2>1. PICK s : s = IF hold[h].lapsed THEN "expired" ELSE "released"
    OBVIOUS
  <2>2. PICK r : r = [hold[h] EXCEPT !.state = s]
    OBVIOUS
  <2>3. hold[h] \in HoldRow /\ s \in {"released", "expired"}
    BY <1>1, <2>1
  <2>4. r \in HoldRow /\ r.quote = hold[h].quote /\ r.state = s
    BY <2>2, <2>3 DEF HoldRow
  <2>5. Released(ActiveHolds)[h] = IF hold[h].state = "active" THEN r ELSE hold[h]
    BY <2>1, <2>2 DEF Released, ActiveHolds
  <2> QED
    BY <2>3, <2>4, <2>5
<1> QED
  BY <1>2 DEF Released

LEMMA ReleasedGoOn ==
  ASSUME TypeOK, hold' = Released(ActiveHolds) PROVE HoldsGoOn /\ ActiveHolds' = {} /\ OneHold'
<1>1. HoldsGoOn
  BY ReleasedHolds DEF HoldsGoOn
<1>2. ActiveHolds' = {}
  BY ReleasedHolds DEF ActiveHolds
<1> QED
  BY <1>1, <1>2 DEF OneHold

LEMMA NewHoldGoesOn ==
  ASSUME TypeOK, NEW h \in Holds, NEW q \in Quotes, NextHold(h),
         hold' = [Released(ActiveHolds) EXCEPT ![h] = NewHold(q)]
  PROVE  HoldsGoOn /\ hold'[h] = NewHold(q) /\ ActiveHolds' = {h}
<1>1. PICK new : new = NewHold(q)
  OBVIOUS
<1>2. new \in HoldRow /\ new.state = "active" /\ new.quote = q
  BY <1>1 DEF NewHold, HoldRow
<1>3. PICK old \in [Holds -> HoldRow] :
        /\ old = Released(ActiveHolds)
        /\ \A g \in Holds : /\ old[g].quote = hold[g].quote
                            /\ old[g].state # "active"
                            /\ hold[g].state # "active" => old[g] = hold[g]
                            /\ hold[g].state = "active" => old[g].state \in {"released", "expired"}
  BY ReleasedHolds
<1>4. hold' = [old EXCEPT ![h] = new] /\ hold[h].state = "unused"
  BY <1>1, <1>3 DEF NextHold
<1>5. HoldsGoOn
  BY <1>2, <1>3, <1>4 DEF HoldsGoOn
<1>6. ActiveHolds' = {h}
  <2>1. hold'[h].state = "active"
    BY <1>2, <1>3, <1>4
  <2>2. \A g \in Holds : g # h => hold'[g].state # "active"
    BY <1>3, <1>4
  <2> QED
    BY <2>1, <2>2 DEF ActiveHolds
<1> QED
  BY <1>1, <1>3, <1>4, <1>5, <1>6

LEMMA HoldLapseGoesOn ==
  ASSUME TypeOK, NEW h \in Holds, hold' = [hold EXCEPT ![h].lapsed = TRUE]
  PROVE  HoldsGoOn /\ ActiveHolds' = ActiveHolds
<1>1. hold \in [Holds -> HoldRow]
  BY DEF TypeOK, HoldRow
<1>2. PICK r : r = [hold[h] EXCEPT !.lapsed = TRUE]
  OBVIOUS
<1>3. r \in HoldRow /\ r.quote = hold[h].quote /\ r.state = hold[h].state
  BY <1>1, <1>2 DEF HoldRow
<1>4. hold' = [hold EXCEPT ![h] = r]
  BY <1>2
<1> QED
  BY <1>1, <1>3, <1>4 DEF HoldsGoOn, ActiveHolds

LEMMA SameHoldsGoOn == ASSUME TypeOK, hold' = hold PROVE HoldsGoOn /\ ActiveHolds' = ActiveHolds
BY DEF TypeOK, HoldRow, HoldsGoOn, ActiveHolds

LEMMA ExpiredPaymentsGoOn ==
  ASSUME TypeOK, PaymentsOfQuotes, payment' = PaymentsExpired PROVE PaymentsGoOn
<1>1. payment \in [Keys -> PaymentRow]
  BY DEF TypeOK, PaymentRow
<1>2. ASSUME NEW k \in Keys
      PROVE  /\ payment'[k] \in PaymentRow
             /\ payment'[k].booked = payment[k].booked
             /\ payment'[k].amount = payment[k].amount
             /\ payment'[k].quote = payment[k].quote
             /\ payment[k].status \in {"none", "authorized", "paid"} => payment'[k].status = payment[k].status
             /\ payment[k].status # "none" => payment'[k].status # "none"
  <2>1. PICK s : s = IF payment[k].status \in {"pending", "processing", "open", "embedded"} THEN "failed"
                     ELSE payment[k].status
    OBVIOUS
  <2>2. payment[k] \in PaymentRow /\ s \in Statuses
    BY <1>1, <2>1 DEF PaymentRow, Statuses
  <2>3. PICK r : r = [payment[k] EXCEPT !.status = s]
    OBVIOUS
  <2>4. /\ r \in PaymentRow /\ r.status = s
        /\ r.booked = payment[k].booked /\ r.amount = payment[k].amount /\ r.quote = payment[k].quote
    BY <2>2, <2>3 DEF PaymentRow
  <2>5. payment'[k] = r
    BY <2>1, <2>3 DEF PaymentsExpired
  <2> QED
    BY <2>1, <2>4, <2>5
<1>3. payment' \in [Keys -> PaymentRow]
  BY <1>2 DEF PaymentsExpired
<1> QED
  BY <1>2, <1>3 DEF PaymentsGoOn, PaymentsOfQuotes, Settled

LEMMA StatusGoesOn ==
  ASSUME TypeOK, PaymentsOfQuotes, NEW k \in Keys, NEW s \in Statuses \ {"none"},
         payment[k].status \notin {"none", "paid"}, Settled(k) => s \in {"authorized", "paid"},
         payment' = [payment EXCEPT ![k].status = s]
  PROVE  PaymentsGoOn /\ payment'[k].status = s
<1>1. payment \in [Keys -> PaymentRow]
  BY DEF TypeOK, PaymentRow
<1>2. PICK r : r = [payment[k] EXCEPT !.status = s]
  OBVIOUS
<1>3. /\ r \in PaymentRow /\ r.status = s
      /\ r.booked = payment[k].booked /\ r.amount = payment[k].amount /\ r.quote = payment[k].quote
  BY <1>1, <1>2 DEF PaymentRow
<1>4. payment' = [payment EXCEPT ![k] = r]
  BY <1>2
<1> QED
  BY <1>1, <1>3, <1>4 DEF PaymentsGoOn, PaymentsOfQuotes, Settled

LEMMA SamePaymentsGoOn == ASSUME TypeOK, PaymentsOfQuotes, payment' = payment PROVE PaymentsGoOn
BY DEF TypeOK, PaymentRow, PaymentsGoOn, PaymentsOfQuotes, Settled

\* Commit attempts that rest on what is there; a step that books nothing keeps it so.
CommitsGoOn ==
  /\ commit' \in [Keys -> CommitRow]
  /\ \A k \in Keys : commit'[k].at # "idle" => Rests(commit'[k])

LEMMA SameCommitsGoOn == ASSUME TypeOK, CommitsRest, commit' = commit PROVE CommitsGoOn
BY DEF TypeOK, CommitRow, CommitsRest, CommitsGoOn

LEMMA StopGoesOn == ASSUME TypeOK, CommitsRest, NEW k \in Keys, Stop(k) PROVE CommitsGoOn
<1>1. commit \in [Keys -> CommitRow] /\ NoCommit \in CommitRow /\ NoCommit.at = "idle"
  BY DEF TypeOK, CommitRow, NoCommit
<1>2. commit' = [commit EXCEPT ![k] = NoCommit]
  BY DEF Stop
<1> QED
  BY <1>1, <1>2 DEF CommitsRest, CommitsGoOn

LEMMA GoToGoesOn ==
  ASSUME TypeOK, CommitsRest, NEW k \in Keys, ~At(k, "idle"),
         NEW step \in {"prepare", "create", "start", "check", "write", "failed", "retire"}, GoTo(k, step)
  PROVE  CommitsGoOn
<1>1. commit \in [Keys -> CommitRow]
  BY DEF TypeOK, CommitRow
<1>2. PICK r : r = [commit[k] EXCEPT !.at = step]
  OBVIOUS
<1>3. r \in CommitRow /\ r.quote = commit[k].quote /\ r.hold = commit[k].hold /\ r.payment = commit[k].payment
  BY <1>1, <1>2 DEF CommitRow
<1>4. commit' = [commit EXCEPT ![k] = r]
  BY <1>2 DEF GoTo
<1>5. Rests(commit[k])
  BY DEF CommitsRest, At
<1>6. Rests(r)
  BY <1>3, <1>5 DEF Rests
<1> QED
  BY <1>1, <1>3, <1>4, <1>6 DEF CommitsRest, CommitsGoOn

\* The money of another attempt, if it is for the amount of this one's quote.
LEMMA PaidGoesOn ==
  ASSUME TypeOK, CommitsRest, NEW k \in Keys, ~At(k, "idle"), NEW p \in Keys,
         Settled(p), payment[p].amount = quote[commit[k].quote].amount,
         commit' = [commit EXCEPT ![k].at = "check", ![k].payment = p]
  PROVE  CommitsGoOn
<1>1. commit \in [Keys -> CommitRow]
  BY DEF TypeOK, CommitRow
<1>2. PICK r : r = [commit[k] EXCEPT !.at = "check", !.payment = p]
  OBVIOUS
<1>3. r \in CommitRow /\ r.quote = commit[k].quote /\ r.hold = commit[k].hold /\ r.payment = p
  BY <1>1, <1>2 DEF CommitRow
<1>4. commit' = [commit EXCEPT ![k] = r]
  BY <1>1, <1>2 DEF CommitRow
<1>5. Rests(commit[k])
  BY DEF CommitsRest, At
<1>6. Rests(r)
  BY <1>3, <1>5 DEF Rests, Settled
<1> QED
  BY <1>1, <1>3, <1>4, <1>6 DEF CommitsRest, CommitsGoOn

LEMMA StepGoesOn ==
  ASSUME TypeOK, Reasons, Outcomes, TablesGoOn, CommitsGoOn,
         settlement' \in [Keys -> SettlementRow], SettlementsRest',
         begun' \in {"nothing", "operation", "expiry"}, RowIsLocked', OneHold'
  PROVE  IInv'
<1>1. TypeOK'
  BY DEF TypeOK, TablesGoOn, QuotesGoOn, HoldsGoOn, PaymentsGoOn, SessionGoesOn, CommitsGoOn,
         SessionRow, QuoteRow, HoldRow, PaymentRow, CommitRow, SettlementRow
<1>2. CommitsRest'
  <2> SUFFICES ASSUME NEW k \in Keys, commit'[k].at # "idle" PROVE Rests(commit[k])'
    BY DEF CommitsRest
  <2>1. PICK c \in CommitRow : c = commit'[k]
    BY DEF CommitsGoOn
  <2>2. Rests(c) /\ c.payment \in Keys \cup {None}
    BY <2>1 DEF CommitsGoOn, CommitRow
  <2>3. Rests(c)'
    BY <2>2, RestsStays
  <2> QED
    BY <2>1, <2>3 DEF Rests
<1>3. PaymentsOfQuotes'
  BY PaymentsStay DEF Reasons
<1>4. OneBooking' /\ AllOrNothing' /\ BookedAsPaid'
  BY BookingStays DEF Reasons, Outcomes
<1> QED
  BY <1>1, <1>2, <1>3, <1>4 DEF IInv, Reasons, Outcomes

\* Most steps leave the deliveries as they are.
LEMMA SameSettlements ==
  ASSUME TypeOK, Reasons, TablesGoOn, settlement' = settlement
  PROVE  settlement' \in [Keys -> SettlementRow] /\ SettlementsRest'
<1>1. settlement \in [Keys -> SettlementRow]
  BY DEF TypeOK, SettlementRow
<1>2. ASSUME NEW k \in Keys PROVE RestsOn(settlement[k], payment[k])'
  <2>1. PICK s \in SettlementRow : s = settlement[k]
    BY <1>1
  <2>2. RestsOn(s, payment[k])
    BY <2>1 DEF Reasons, SettlementsRest
  <2>3. RestsOn(s, payment[k])'
    BY <2>2, SettlementsStay DEF Reasons
  <2> QED
    BY <2>1, <2>3 DEF RestsOn
<1> QED
  BY <1>1, <1>2 DEF SettlementsRest

LEMMA SessionSame ==
  ASSUME TypeOK, Outcomes, session' = session, begun' = begun
  PROVE  /\ SessionGoesOn /\ RowIsLocked' /\ begun' \in {"nothing", "operation", "expiry"}
         /\ ActiveHolds' = ActiveHolds => OneHold'
BY DEF TypeOK, SessionRow, SessionGoesOn, Outcomes, RowIsLocked, OneHold, Active

\* The sources a settlement rests on are untouched: only its delivery moves on.
LEMMA NothingBooked ==
  ASSUME IInv, session' = session, quote' = quote, hold' = hold, payment' = payment, bookings' = bookings
  PROVE  TablesGoOn /\ ActiveHolds' = ActiveHolds
BY SameQuotesGoOn, SameHoldsGoOn, SamePaymentsGoOn
   DEF IInv, Reasons, TablesGoOn, SessionGoesOn, TypeOK, SessionRow

\* A commit attempt moves on and no other row changes.
LEMMA AttemptMoves ==
  ASSUME IInv, CommitsGoOn,
         UNCHANGED <<session, quote, hold, payment, bookings, begun, settlement>>
  PROVE  IInv'
<1>1. TablesGoOn /\ ActiveHolds' = ActiveHolds
  BY NothingBooked
<1>2. TypeOK /\ Reasons /\ Outcomes
  BY DEF IInv
<1>3. RowIsLocked' /\ begun' \in {"nothing", "operation", "expiry"} /\ OneHold'
  BY <1>1, <1>2, SessionSame
<1>4. settlement' \in [Keys -> SettlementRow] /\ SettlementsRest'
  BY <1>1, <1>2, SameSettlements
<1> QED
  BY <1>1, <1>2, <1>3, <1>4, StepGoesOn

LEMMA Begins == ASSUME IInv, BeginOperation \/ BeginExpiry PROVE IInv'
<1>1. UNCHANGED <<session, quote, hold, payment, bookings, commit, settlement>>
  BY DEF BeginOperation, BeginExpiry
<1>2. TablesGoOn /\ ActiveHolds' = ActiveHolds
  BY <1>1, NothingBooked
<1>3. TypeOK /\ Reasons /\ Outcomes
  BY DEF IInv
<1>4. OneHold' /\ RowIsLocked' /\ begun' \in {"nothing", "operation", "expiry"}
  BY <1>1, <1>2, <1>3 DEF Outcomes, OneHold, RowIsLocked, BeginOperation, BeginExpiry, Active
<1>5. settlement' \in [Keys -> SettlementRow] /\ SettlementsRest'
  BY <1>1, <1>2, <1>3, SameSettlements
<1>6. CommitsGoOn
  BY <1>1, <1>3, SameCommitsGoOn DEF Reasons
<1> QED
  BY <1>2, <1>3, <1>4, <1>5, <1>6, StepGoesOn

\* What ends the transaction that holds the session row.
LEMMA RowReleased ==
  ASSUME IInv, NEW what, Ends(what), QuotesGoOn, HoldsGoOn, PaymentsGoOn, SessionGoesOn, OneHold'
  PROVE  IInv'
<1>1. begun' = "nothing" /\ bookings' = bookings /\ commit' = commit /\ settlement' = settlement
  BY DEF Ends
<1>2. TablesGoOn
  BY <1>1 DEF TablesGoOn
<1>3. TypeOK /\ Reasons /\ Outcomes
  BY DEF IInv
<1>4. settlement' \in [Keys -> SettlementRow] /\ SettlementsRest'
  BY <1>1, <1>2, <1>3, SameSettlements
<1>5. CommitsGoOn
  BY <1>1, <1>3, SameCommitsGoOn DEF Reasons
<1>6. RowIsLocked' /\ begun' \in {"nothing", "operation", "expiry"}
  BY <1>1 DEF RowIsLocked
<1> QED
  BY <1>2, <1>3, <1>4, <1>5, <1>6, StepGoesOn

LEMMA ShopperSteps ==
  ASSUME IInv, RenewSession \/ UpdateSession \/ QuoteSession \/ PlaceHold \/ AbandonSession
  PROVE  IInv'
<1>1. TypeOK /\ PaymentsOfQuotes /\ Ends("operation") /\ Active /\ session \in SessionRow
  BY DEF IInv, Reasons, Outcomes, RowIsLocked, RenewSession, UpdateSession, QuoteSession, PlaceHold,
         AbandonSession, Ends, TypeOK, SessionRow
<1>2. CASE RenewSession
  <2>1. session' \in SessionRow /\ session'.state = session.state
    BY <1>1, <1>2 DEF RenewSession, SessionRow
  <2>2. QuotesGoOn /\ HoldsGoOn /\ OneHold' /\ PaymentsGoOn
    BY <1>1, <1>2, RetiredGoesOn, ReleasedGoOn, SamePaymentsGoOn DEF RenewSession
  <2> QED
    BY <1>1, <2>1, <2>2, RowReleased DEF SessionGoesOn
<1>3. CASE UpdateSession
  <2>1. QuotesGoOn /\ HoldsGoOn /\ OneHold' /\ PaymentsGoOn /\ session' = session
    BY <1>1, <1>3, RetiredGoesOn, ReleasedGoOn, SamePaymentsGoOn DEF UpdateSession
  <2> QED
    BY <1>1, <2>1, RowReleased DEF SessionGoesOn
<1>4. CASE QuoteSession
  <2>1. HoldsGoOn /\ OneHold' /\ PaymentsGoOn /\ session' = session
    BY <1>1, <1>4, ReleasedGoOn, SamePaymentsGoOn DEF QuoteSession
  <2>2. QuotesGoOn
    BY <1>1, <1>4, RetiredGoesOn, NewQuoteGoesOn DEF QuoteSession
  <2> QED
    BY <1>1, <2>1, <2>2, RowReleased DEF SessionGoesOn
<1>5. CASE PlaceHold
  <2>1. PaymentsGoOn /\ session' = session
    BY <1>1, <1>5, SamePaymentsGoOn DEF PlaceHold
  <2>2. PICK q \in Quotes :
          /\ quote' = IF quote[q].state = "active" /\ quote[q].lapsed
                      THEN [quote EXCEPT ![q].state = "expired"] ELSE quote
          /\ \/ hold' = Released(ActiveHolds)
             \/ \E h \in Holds : /\ NextHold(h)
                                 /\ hold' = [Released(ActiveHolds) EXCEPT ![h] = NewHold(q)]
    BY <1>5 DEF PlaceHold
  <2>3. QuotesGoOn
    BY <1>1, <2>2, QuoteSetGoesOn, SameQuotesGoOn
  <2>4. HoldsGoOn /\ OneHold'
    <3>1. CASE hold' = Released(ActiveHolds)
      BY <1>1, <3>1, ReleasedGoOn
    <3>2. ASSUME NEW h \in Holds, NextHold(h), hold' = [Released(ActiveHolds) EXCEPT ![h] = NewHold(q)]
          PROVE  HoldsGoOn /\ OneHold'
      <4>1. HoldsGoOn /\ ActiveHolds' = {h}
        BY <1>1, <3>2, NewHoldGoesOn
      <4> QED
        BY <1>1, <2>1, <4>1 DEF OneHold, Active
    <3> QED
      BY <2>2, <3>1, <3>2
  <2> QED
    BY <1>1, <2>1, <2>3, <2>4, RowReleased DEF SessionGoesOn
<1>6. CASE AbandonSession
  <2>1. session' \in SessionRow /\ session'.state = "abandoned" /\ session.state = "active"
    BY <1>1, <1>6 DEF AbandonSession, SessionRow, Active
  <2>2. QuotesGoOn /\ HoldsGoOn /\ OneHold' /\ PaymentsGoOn
    BY <1>1, <1>6, RetiredGoesOn, ReleasedGoOn, ExpiredPaymentsGoOn DEF AbandonSession
  <2> QED
    BY <1>1, <2>1, <2>2, RowReleased DEF SessionGoesOn
<1> QED
  BY <1>2, <1>3, <1>4, <1>5, <1>6

LEMMA ExpiryStep == ASSUME IInv, ExpireSession PROVE IInv'
<1>1. TypeOK /\ PaymentsOfQuotes /\ Ends("expiry") /\ session.state # "consumed" /\ session \in SessionRow
  BY DEF IInv, Reasons, Outcomes, RowIsLocked, ExpireSession, Ends, TypeOK, SessionRow
<1>2. session' \in SessionRow /\ session'.state = "expired"
  BY <1>1 DEF ExpireSession, SessionRow
<1>3. QuotesGoOn /\ HoldsGoOn /\ OneHold' /\ PaymentsGoOn
  BY <1>1, RetiredGoesOn, ReleasedGoOn, ExpiredPaymentsGoOn DEF ExpireSession
<1> QED
  BY <1>1, <1>2, <1>3, RowReleased DEF SessionGoesOn

\* A commit attempt moves on, and with it holds, quotes or its payment.
LEMMA AttemptWrites ==
  ASSUME IInv, CommitsGoOn, QuotesGoOn, HoldsGoOn, PaymentsGoOn, OneHold',
         UNCHANGED <<session, bookings, begun, settlement>>
  PROVE  IInv'
<1>1. TypeOK /\ Reasons /\ Outcomes
  BY DEF IInv
<1>2. SessionGoesOn /\ RowIsLocked' /\ begun' \in {"nothing", "operation", "expiry"}
  BY <1>1, SessionSame
<1>3. TablesGoOn
  BY <1>2 DEF TablesGoOn
<1>4. settlement' \in [Keys -> SettlementRow] /\ SettlementsRest'
  BY <1>1, <1>3, SameSettlements
<1> QED
  BY <1>1, <1>2, <1>3, <1>4, StepGoesOn

LEMMA PreflightStep ==
  ASSUME IInv, NEW k \in Keys, NEW q \in Quotes, NEW h \in Holds, Preflight(k, q, h) PROVE IInv'
<1>1. PICK c : c = [at |-> "prepare", quote |-> q, hold |-> h, payment |-> None]
  OBVIOUS
<1>2. c \in CommitRow /\ c.quote = q /\ c.hold = h /\ c.payment = None
  BY <1>1 DEF CommitRow
<1>3. Rests(c)
  BY <1>2 DEF Preflight, UsableQuote, UsableHold, Rests
<1>4. commit' = [commit EXCEPT ![k] = c] /\ commit \in [Keys -> CommitRow] /\ CommitsRest
  BY <1>1 DEF Preflight, IInv, TypeOK, CommitRow, Reasons
<1>5. CommitsGoOn
  BY <1>2, <1>3, <1>4 DEF CommitsRest, CommitsGoOn
<1> QED
  BY <1>5, AttemptMoves DEF Preflight

LEMMA RefusalStep ==
  ASSUME IInv, NEW k \in Keys, NEW q \in Quotes, PreflightRefuses(k, q) PROVE IInv'
<1>1. TypeOK /\ Reasons
  BY DEF IInv
<1>2. CommitsGoOn /\ PaymentsGoOn
  BY <1>1, SameCommitsGoOn, SamePaymentsGoOn DEF Reasons, PreflightRefuses
<1>3. HoldsGoOn /\ OneHold'
  BY <1>1, ReleasedGoOn DEF PreflightRefuses
<1>4. QuotesGoOn
  <2> DEFINE s == IF quote[q].lapsed THEN "expired" ELSE "superseded"
  <2>1. s \in {"superseded", "expired"}
    OBVIOUS
  <2>2. \/ quote' = quote
        \/ quote[q].state = "active" /\ quote' = [quote EXCEPT ![q].state = s]
    <3>1. \/ quote' = quote
          \/ /\ quote[q].state = "active"
             /\ quote' = [quote EXCEPT ![q].state = IF quote[q].lapsed THEN "expired" ELSE "superseded"]
      BY DEF PreflightRefuses
    <3> QED
      BY <3>1
  <2> HIDE DEF s
  <2> QED
    BY <1>1, <2>1, <2>2, SameQuotesGoOn, QuoteSetGoesOn
<1> QED
  BY <1>2, <1>3, <1>4, AttemptWrites DEF PreflightRefuses

LEMMA PrepareStep == ASSUME IInv, NEW k \in Keys, Prepare(k) PROVE IInv'
<1>1. TypeOK /\ CommitsRest /\ ~At(k, "idle")
  BY DEF IInv, Reasons, Prepare, At
<1>2. CASE \E step \in {"check", "create"} : GoTo(k, step)
  BY <1>1, <1>2, GoToGoesOn, AttemptMoves DEF Prepare
<1>3. CASE Stop(k)
  BY <1>1, <1>3, StopGoesOn, AttemptMoves DEF Prepare
<1>4. ASSUME NEW p \in Established(k), commit' = [commit EXCEPT ![k].at = "check", ![k].payment = p]
      PROVE  IInv'
  BY <1>1, <1>4, PaidGoesOn, AttemptMoves DEF Prepare, Established
<1> QED
  BY <1>2, <1>3, <1>4 DEF Prepare

LEMMA CreateStep == ASSUME IInv, NEW k \in Keys, CreatePayment(k) PROVE IInv'
<1>1. TypeOK /\ Reasons /\ Outcomes /\ CommitsRest /\ ~At(k, "idle") /\ GoTo(k, "start")
  BY DEF IInv, Reasons, CreatePayment, At
<1>2. CommitsGoOn
  BY <1>1, GoToGoesOn
<1>3. PaymentsGoOn
  <2>1. PICK p : p = [status |-> "pending", amount |-> quote[commit[k].quote].amount,
                      quote |-> commit[k].quote, hold |-> commit[k].hold, booked |-> FALSE]
    OBVIOUS
  <2>2. Rests(commit[k])
    BY <1>1 DEF CommitsRest, At
  <2>3. p \in PaymentRow
    BY <1>1, <2>1, <2>2 DEF Rests, PaymentRow, TypeOK, Statuses
  <2>4. /\ p.status = "pending" /\ p.quote \in Quotes /\ quote[p.quote].state # "unused"
        /\ p.amount = quote[p.quote].amount /\ p.booked = FALSE
    BY <2>1, <2>2 DEF Rests
  <2>5. payment' = [payment EXCEPT ![k] = p] /\ payment[k].status = "none" /\ payment \in [Keys -> PaymentRow]
    BY <1>1, <2>1 DEF CreatePayment, TypeOK, PaymentRow
  <2>6. payment[k].booked = FALSE
    BY <1>1, <2>5 DEF Reasons, PaymentsOfQuotes, Settled, PaymentRow
  <2> QED
    BY <1>1, <2>3, <2>4, <2>5, <2>6 DEF PaymentsGoOn, Reasons, PaymentsOfQuotes, Settled
<1>4. QuotesGoOn /\ HoldsGoOn /\ OneHold'
  BY <1>1, SameQuotesGoOn, SameHoldsGoOn, SessionSame DEF CreatePayment
<1> QED
  BY <1>2, <1>3, <1>4, AttemptWrites DEF CreatePayment

LEMMA ReuseStep == ASSUME IInv, NEW k \in Keys, ReusePayment(k) PROVE IInv'
<1>1. TypeOK /\ CommitsRest /\ ~At(k, "idle")
  BY DEF IInv, Reasons, ReusePayment, At
<1>2. CASE /\ payment[k].amount = quote[commit[k].quote].amount /\ Settled(k)
           /\ commit' = [commit EXCEPT ![k].at = "check", ![k].payment = k]
  BY <1>1, <1>2, PaidGoesOn, AttemptMoves DEF ReusePayment
<1>3. CASE GoTo(k, "start")
  BY <1>1, <1>3, GoToGoesOn, AttemptMoves DEF ReusePayment
<1>4. CASE Stop(k)
  BY <1>1, <1>4, StopGoesOn, AttemptMoves DEF ReusePayment
<1> QED
  BY <1>2, <1>3, <1>4 DEF ReusePayment

LEMMA StartPaymentStep == ASSUME IInv, NEW k \in Keys, StartPayment(k) PROVE IInv'
<1>1. TypeOK /\ Reasons /\ Outcomes
  BY DEF IInv
<1>2. CommitsGoOn
  BY <1>1, StopGoesOn DEF StartPayment, Reasons
<1>3. PaymentsGoOn
  BY <1>1, SamePaymentsGoOn, StatusGoesOn DEF StartPayment, Reasons, Settled, Statuses
<1>4. QuotesGoOn /\ HoldsGoOn /\ OneHold'
  BY <1>1, SameQuotesGoOn, SameHoldsGoOn, SessionSame DEF StartPayment
<1> QED
  BY <1>2, <1>3, <1>4, AttemptWrites DEF StartPayment

LEMMA CheckStep == ASSUME IInv, NEW k \in Keys, CheckSources(k) PROVE IInv'
<1>1. TypeOK /\ CommitsRest /\ ~At(k, "idle")
  BY DEF IInv, Reasons, CheckSources, At
<1>2. Stop(k) \/ \E step \in {"retire", "write", "failed"} : GoTo(k, step)
  BY DEF CheckSources
<1> QED
  BY <1>1, <1>2, StopGoesOn, GoToGoesOn, AttemptMoves DEF CheckSources

LEMMA StopStep == ASSUME IInv, NEW k \in Keys, CommitStops(k) PROVE IInv'
BY StopGoesOn, AttemptMoves DEF CommitStops, IInv, Reasons

LEMMA FailureStep == ASSUME IInv, NEW k \in Keys, PersistFailure(k) PROVE IInv'
<1>1. TypeOK /\ Reasons /\ Outcomes
  BY DEF IInv
<1>2. CommitsGoOn /\ PaymentsGoOn
  BY <1>1, StopGoesOn, SamePaymentsGoOn DEF Reasons, PersistFailure
<1>3. HoldsGoOn /\ OneHold'
  BY <1>1, ReleasedGoOn, SameHoldsGoOn, SessionSame DEF PersistFailure
<1>4. QuotesGoOn
  <2>1. PICK q \in Quotes : q = commit[k].quote
    BY <1>1 DEF Reasons, CommitsRest, Rests, PersistFailure, At
  <2> DEFINE s == IF quote[q].lapsed THEN "expired" ELSE "superseded"
  <2>2. s \in {"superseded", "expired"}
    OBVIOUS
  <2>3. \/ quote' = quote
        \/ quote[q].state = "active" /\ quote' = [quote EXCEPT ![q].state = s]
    <3>1. \/ quote' = quote
          \/ /\ quote[q].state = "active"
             /\ quote' = [quote EXCEPT ![q].state = IF quote[q].lapsed THEN "expired" ELSE "superseded"]
      BY <2>1 DEF PersistFailure
    <3> QED
      BY <2>1, <3>1
  <2> HIDE DEF s
  <2> QED
    BY <1>1, <2>2, <2>3, SameQuotesGoOn, QuoteSetGoesOn
<1> QED
  BY <1>2, <1>3, <1>4, AttemptWrites DEF PersistFailure

LEMMA RetireStep == ASSUME IInv, NEW k \in Keys, RetireSession(k) PROVE IInv'
<1>1. TypeOK /\ Reasons /\ Outcomes
  BY DEF IInv
<1>2. TablesGoOn /\ ActiveHolds' = ActiveHolds
  BY NothingBooked DEF RetireSession
<1>3. CommitsGoOn
  BY <1>1, StopGoesOn DEF RetireSession, Reasons
<1>4. settlement' \in [Keys -> SettlementRow] /\ SettlementsRest'
  BY <1>1, <1>2, SameSettlements DEF RetireSession
<1>5. OneHold' /\ RowIsLocked' /\ begun' \in {"nothing", "operation", "expiry"}
  BY <1>1, <1>2 DEF RetireSession, Outcomes, OneHold, RowIsLocked, Active, TypeOK
<1> QED
  BY <1>1, <1>2, <1>3, <1>4, <1>5, StepGoesOn

\* The processor sets a payment's status and, once it is paid, announces it.
LEMMA ProcessorStep == ASSUME IInv, NEW k \in Keys, Processor(k) PROVE IInv'
<1>1. TypeOK /\ Reasons /\ Outcomes
  BY DEF IInv
<1>2. UNCHANGED <<session, quote, hold, bookings, begun, commit>>
  BY DEF Processor, InitiationAnswers, PaymentFails, PaymentAuthorized, PaymentPaid
<1>3. PaymentsGoOn /\ (PaymentPaid(k) => payment'[k].status = "paid")
  <2>1. PICK s \in Statuses \ {"none"} :
          /\ payment' = [payment EXCEPT ![k].status = s]
          /\ Settled(k) => s \in {"authorized", "paid"}
          /\ PaymentPaid(k) => s = "paid"
    BY DEF Processor, InitiationAnswers, PaymentFails, PaymentAuthorized, PaymentPaid, AtProcessor,
           Settled, Statuses
  <2>2. payment[k].status \notin {"none", "paid"}
    BY DEF Processor, InitiationAnswers, PaymentFails, PaymentAuthorized, PaymentPaid, AtProcessor
  <2> QED
    BY <1>1, <2>1, <2>2, StatusGoesOn DEF Reasons
<1>4. TablesGoOn /\ ActiveHolds' = ActiveHolds
  BY <1>1, <1>2, <1>3, SameQuotesGoOn, SameHoldsGoOn, SessionSame DEF TablesGoOn
<1>5. CommitsGoOn
  BY <1>1, <1>2, SameCommitsGoOn DEF Reasons
<1>6. OneHold' /\ RowIsLocked' /\ begun' \in {"nothing", "operation", "expiry"}
  BY <1>1, <1>2, <1>4, SessionSame
<1>7. settlement' \in [Keys -> SettlementRow] /\ SettlementsRest'
  <2>1. CASE settlement' = settlement
    BY <1>1, <1>4, <2>1, SameSettlements
  <2>2. CASE PaymentPaid(k)
    <3>1. PICK at \in {"queued", "lost"} : settlement' = [settlement EXCEPT ![k].at = at]
      BY <2>2 DEF PaymentPaid
    <3>2. settlement \in [Keys -> SettlementRow]
      BY <1>1 DEF TypeOK, SettlementRow
    <3>3. PICK r : r = [settlement[k] EXCEPT !.at = at]
      OBVIOUS
    <3>4. r \in SettlementRow /\ r.at = at /\ r.attempts = settlement[k].attempts
      BY <3>2, <3>3 DEF SettlementRow
    <3>5. settlement' = [settlement EXCEPT ![k] = r]
      BY <3>1, <3>3
    <3>6. payment[k].status # "paid"
      BY <2>2 DEF PaymentPaid, AtProcessor
    <3>7. settlement[k].attempts < MaxAttempts
      BY <1>1, <3>6 DEF Reasons, SettlementsRest, RestsOn
    <3>8. ASSUME NEW j \in Keys PROVE RestsOn(settlement[j], payment[j])'
      <4>1. CASE j = k
        BY <1>3, <2>2, <3>2, <3>4, <3>5, <3>7, <4>1 DEF RestsOn
      <4>2. CASE j # k
        <5>1. PICK s \in SettlementRow : s = settlement[j]
          BY <3>2
        <5>2. RestsOn(s, payment[j])
          BY <1>1, <5>1 DEF Reasons, SettlementsRest
        <5>3. RestsOn(s, payment[j])' /\ settlement'[j] = s
          BY <1>1, <1>4, <3>2, <3>5, <4>2, <5>1, <5>2, SettlementsStay DEF Reasons
        <5> QED
          BY <5>3 DEF RestsOn
      <4> QED
        BY <4>1, <4>2
    <3> QED
      BY <3>2, <3>4, <3>5, <3>8 DEF SettlementsRest
  <2> QED
    BY <2>1, <2>2 DEF Processor, InitiationAnswers, PaymentFails, PaymentAuthorized
<1> QED
  BY <1>1, <1>4, <1>5, <1>6, <1>7, StepGoesOn

LEMMA ClockStep ==
  ASSUME IInv, SessionLapses \/ (\E q \in Quotes : QuoteLapses(q)) \/ (\E h \in Holds : HoldLapses(h))
  PROVE  IInv'
<1>1. TypeOK /\ Reasons /\ Outcomes
  BY DEF IInv
<1>2. UNCHANGED <<payment, bookings, begun, commit, settlement>>
  BY DEF SessionLapses, QuoteLapses, HoldLapses
<1>3. SessionGoesOn /\ session'.state = session.state
  <2>1. session \in SessionRow
    BY <1>1 DEF TypeOK, SessionRow
  <2> QED
    BY <2>1 DEF SessionLapses, QuoteLapses, HoldLapses, SessionGoesOn, SessionRow
<1>4. QuotesGoOn
  BY <1>1, SameQuotesGoOn, QuoteLapseGoesOn DEF SessionLapses, QuoteLapses, HoldLapses
<1>5. HoldsGoOn /\ ActiveHolds' = ActiveHolds
  BY <1>1, SameHoldsGoOn, HoldLapseGoesOn DEF SessionLapses, QuoteLapses, HoldLapses
<1>6. TablesGoOn
  BY <1>1, <1>2, <1>3, <1>4, <1>5, SamePaymentsGoOn DEF TablesGoOn, Reasons
<1>7. RowIsLocked' /\ begun' \in {"nothing", "operation", "expiry"} /\ OneHold'
  BY <1>1, <1>2, <1>3, <1>5 DEF Outcomes, RowIsLocked, OneHold, Active, TypeOK
<1>8. settlement' \in [Keys -> SettlementRow] /\ SettlementsRest'
  BY <1>1, <1>2, <1>6, SameSettlements
<1>9. CommitsGoOn
  BY <1>1, <1>2, SameCommitsGoOn DEF Reasons
<1> QED
  BY <1>1, <1>6, <1>7, <1>8, <1>9, StepGoesOn

\* The delivery of one payment moves on to r.
LEMMA DeliveryMoves ==
  ASSUME IInv, TablesGoOn, OneHold', UNCHANGED <<session, payment, begun, commit>>,
         NEW k \in Keys, NEW r \in SettlementRow, settlement' = [settlement EXCEPT ![k] = r],
         payment[k].status = "paid",
         r.at \notin {"done", "dead", "lost"} => r.attempts < MaxAttempts,
         r.at \in {"check", "write"} => /\ r.hold \in Holds /\ hold'[r.hold].state # "unused"
                                        /\ hold'[r.hold].quote = payment[k].quote
  PROVE  IInv'
<1>1. TypeOK /\ Reasons /\ Outcomes
  BY DEF IInv
<1>2. settlement \in [Keys -> SettlementRow]
  BY <1>1 DEF TypeOK, SettlementRow
<1>3. ASSUME NEW j \in Keys PROVE RestsOn(settlement[j], payment[j])'
  <2>1. CASE j = k
    BY <1>2, <2>1 DEF RestsOn
  <2>2. CASE j # k
    <3>1. PICK s \in SettlementRow : s = settlement[j]
      BY <1>2
    <3>2. RestsOn(s, payment[j])
      BY <1>1, <3>1 DEF Reasons, SettlementsRest
    <3>3. RestsOn(s, payment[j])' /\ settlement'[j] = s
      BY <1>1, <1>2, <2>2, <3>1, <3>2, SettlementsStay DEF Reasons
    <3> QED
      BY <3>3 DEF RestsOn
  <2> QED
    BY <2>1, <2>2
<1>4. RowIsLocked' /\ begun' \in {"nothing", "operation", "expiry"}
  BY <1>1, SessionSame
<1>5. CommitsGoOn
  BY <1>1, SameCommitsGoOn DEF Reasons
<1> QED
  BY <1>1, <1>2, <1>3, <1>4, <1>5, StepGoesOn DEF SettlementsRest

LEMMA ProceedRow ==
  ASSUME TypeOK, NEW k \in Keys, NEW step \in {"check", "write", "done"}, NEW h \in Holds \cup {None},
         Proceed(k, step, h)
  PROVE  \E r \in SettlementRow : /\ settlement' = [settlement EXCEPT ![k] = r]
                                  /\ r.at = step /\ r.hold = h /\ r.attempts = settlement[k].attempts
<1>1. settlement \in [Keys -> SettlementRow]
  BY DEF TypeOK, SettlementRow
<1>2. PICK r : r = [settlement[k] EXCEPT !.at = step, !.hold = h]
  OBVIOUS
<1>3. r \in SettlementRow /\ r.at = step /\ r.hold = h /\ r.attempts = settlement[k].attempts
  BY <1>1, <1>2 DEF SettlementRow
<1>4. settlement' = [settlement EXCEPT ![k] = r]
  BY <1>1, <1>2 DEF Proceed, SettlementRow
<1> QED
  BY <1>3, <1>4

LEMMA RefuseRow ==
  ASSUME TypeOK, NEW k \in Keys, NEW why \in {"session", "quote", "hold", "capacity"}, Refuse(k, why)
  PROVE  \E r \in SettlementRow : /\ settlement' = [settlement EXCEPT ![k] = r]
                                  /\ r.at = "refused" /\ r.attempts = settlement[k].attempts
<1>1. settlement \in [Keys -> SettlementRow]
  BY DEF TypeOK, SettlementRow
<1>2. PICK r : r = [settlement[k] EXCEPT !.at = "refused", !.why = why, !.hold = None]
  OBVIOUS
<1>3. r \in SettlementRow /\ r.at = "refused" /\ r.attempts = settlement[k].attempts
  BY <1>1, <1>2 DEF SettlementRow
<1>4. settlement' = [settlement EXCEPT ![k] = r]
  BY <1>1, <1>2 DEF Refuse, SettlementRow
<1> QED
  BY <1>3, <1>4

LEMMA AgainRow ==
  ASSUME TypeOK, NEW k \in Keys, settlement[k].attempts < MaxAttempts, Again(k)
  PROVE  \E r \in SettlementRow : /\ settlement' = [settlement EXCEPT ![k] = r]
                                  /\ r.at \in {"queued", "dead"}
                                  /\ r.at = "queued" => r.attempts < MaxAttempts
<1>1. settlement \in [Keys -> SettlementRow]
  BY DEF TypeOK, SettlementRow
<1>2. PICK n \in 0..MaxAttempts : n = settlement[k].attempts + 1
  BY <1>1, LimitsAssumption DEF SettlementRow
<1>3. PICK at : at = IF n = MaxAttempts THEN "dead" ELSE "queued"
  OBVIOUS
<1>4. PICK r : r = [settlement[k] EXCEPT !.at = at, !.attempts = n, !.why = "none", !.hold = None]
  OBVIOUS
<1>5. r \in SettlementRow /\ r.at = at /\ r.attempts = n
  BY <1>1, <1>3, <1>4 DEF SettlementRow
<1>6. settlement' = [settlement EXCEPT ![k] = r]
  BY <1>1, <1>2, <1>3, <1>4 DEF Again, SettlementRow
<1>7. r.at \in {"queued", "dead"} /\ (r.at = "queued" => r.attempts < MaxAttempts)
  BY <1>2, <1>3, <1>5, LimitsAssumption
<1> QED
  BY <1>5, <1>6, <1>7

\* What a delivery underway knows of its payment.
LEMMA Underway ==
  ASSUME IInv, NEW k \in Keys, settlement[k].at \in {"queued", "check", "write", "refused"}
  PROVE  /\ payment[k].status = "paid" /\ settlement[k].attempts < MaxAttempts
         /\ payment[k].quote \in Quotes /\ quote[payment[k].quote].state # "unused"
         /\ payment[k].amount = quote[payment[k].quote].amount
BY DEF IInv, Reasons, SettlementsRest, RestsOn, PaymentsOfQuotes

LEMMA ProceedStep ==
  ASSUME IInv, TablesGoOn, OneHold', UNCHANGED <<session, payment, begun, commit>>,
         NEW k \in Keys, settlement[k].at \in {"queued", "check", "write", "refused"},
         NEW step \in {"check", "write", "done"}, NEW h \in Holds \cup {None}, Proceed(k, step, h),
         step # "done" => h \in Holds /\ hold'[h].state # "unused" /\ hold'[h].quote = payment[k].quote
  PROVE  IInv'
<1>1. PICK r \in SettlementRow : /\ settlement' = [settlement EXCEPT ![k] = r]
                                 /\ r.at = step /\ r.hold = h /\ r.attempts = settlement[k].attempts
  BY ProceedRow DEF IInv
<1> QED
  BY <1>1, Underway, DeliveryMoves

LEMMA RefuseStep ==
  ASSUME IInv, TablesGoOn, OneHold', UNCHANGED <<session, payment, begun, commit>>,
         NEW k \in Keys, settlement[k].at \in {"queued", "check", "write", "refused"},
         NEW why \in {"session", "quote", "hold", "capacity"}, Refuse(k, why)
  PROVE  IInv'
<1>1. PICK r \in SettlementRow : /\ settlement' = [settlement EXCEPT ![k] = r]
                                 /\ r.at = "refused" /\ r.attempts = settlement[k].attempts
  BY RefuseRow DEF IInv
<1> QED
  BY <1>1, Underway, DeliveryMoves

LEMMA AgainStep ==
  ASSUME IInv, UNCHANGED <<session, quote, hold, payment, bookings, begun, commit>>,
         NEW k \in Keys, settlement[k].at \in {"queued", "check", "write", "refused"}, Again(k)
  PROVE  IInv'
<1>1. PICK r \in SettlementRow : /\ settlement' = [settlement EXCEPT ![k] = r]
                                 /\ r.at \in {"queued", "dead"}
                                 /\ r.at = "queued" => r.attempts < MaxAttempts
  BY Underway, AgainRow DEF IInv
<1>2. TablesGoOn /\ ActiveHolds' = ActiveHolds
  BY NothingBooked
<1>3. OneHold'
  BY <1>2 DEF IInv, Outcomes, OneHold, Active
<1> QED
  BY <1>1, <1>2, <1>3, Underway, DeliveryMoves

LEMMA BeginsStep == ASSUME IInv, NEW k \in Keys, SettlementBegins(k) PROVE IInv'
<1>1. /\ settlement[k].at \in {"queued", "check", "write", "refused"}
      /\ UNCHANGED <<session, quote, payment, bookings, begun, commit>>
  BY DEF SettlementBegins, Settling
<1>2. TypeOK /\ Reasons /\ Outcomes
  BY DEF IInv
<1>3. CASE hold' = hold /\ Proceed(k, "done", None)
  <2>1. TablesGoOn /\ OneHold'
    BY <1>1, <1>2, <1>3, NothingBooked, SessionSame
  <2> QED
    BY <1>1, <1>3, <2>1, ProceedStep
<1>4. CASE hold' = hold /\ \E why \in {"session", "quote"} : Refuse(k, why)
  <2>1. TablesGoOn /\ OneHold'
    BY <1>1, <1>2, <1>4, NothingBooked, SessionSame
  <2> QED
    BY <1>1, <1>4, <2>1, RefuseStep
<1>5. CASE FindSources(k)
  <2>1. TablesGoOn /\ OneHold' /\ hold' = hold
    BY <1>1, <1>2, <1>5, NothingBooked, SessionSame DEF FindSources
  <2>2. PICK h \in Reusable(k) : Proceed(k, "check", h)
    BY <1>5 DEF FindSources
  <2>3. h \in Holds /\ hold[h].state = "active" /\ hold[h].quote = payment[k].quote
    BY <2>2 DEF Reusable, UsableHold
  <2> QED
    BY <1>1, <2>1, <2>2, <2>3, ProceedStep
<1>6. CASE RetakeHold(k) /\ Active
  <2>1. QuotesGoOn /\ PaymentsGoOn /\ SessionGoesOn
    BY <1>1, <1>2, SameQuotesGoOn, SamePaymentsGoOn, SessionSame DEF Reasons
  <2>2. CASE hold' = Released(ActiveHolds) /\ Refuse(k, "capacity")
    <3>1. TablesGoOn /\ OneHold'
      BY <1>1, <1>2, <2>1, <2>2, ReleasedGoOn DEF TablesGoOn
    <3> QED
      BY <1>1, <2>2, <3>1, RefuseStep
  <2>3. ASSUME NEW h \in Holds, NextHold(h), Proceed(k, "check", h),
               hold' = [Released(ActiveHolds) EXCEPT ![h] = NewHold(payment[k].quote)]
        PROVE  IInv'
    <3>1. PICK q \in Quotes : q = payment[k].quote
      BY <1>1, Underway
    <3>2. HoldsGoOn /\ hold'[h] = NewHold(q) /\ ActiveHolds' = {h}
      BY <1>2, <2>3, <3>1, NewHoldGoesOn
    <3>3. TablesGoOn /\ OneHold'
      BY <1>1, <1>6, <2>1, <3>2 DEF TablesGoOn, OneHold, Active
    <3>4. hold'[h].state # "unused" /\ hold'[h].quote = payment[k].quote
      BY <3>1, <3>2 DEF NewHold
    <3> QED
      BY <1>1, <2>3, <3>3, <3>4, ProceedStep
  <2> QED
    BY <1>6, <2>2, <2>3 DEF RetakeHold
<1> QED
  BY <1>3, <1>4, <1>5, <1>6 DEF SettlementBegins

LEMMA ChecksStep == ASSUME IInv, NEW k \in Keys, SettlementChecks(k) PROVE IInv'
<1>1. /\ settlement[k].at \in {"queued", "check", "write", "refused"}
      /\ UNCHANGED <<session, quote, hold, payment, bookings, begun, commit>>
  BY DEF SettlementChecks, Settling
<1>2. TablesGoOn /\ OneHold'
  BY <1>1, NothingBooked, SessionSame DEF IInv
<1>3. CASE Proceed(k, "done", None)
  BY <1>1, <1>2, <1>3, ProceedStep
<1>4. CASE \E why \in {"session", "quote", "hold", "capacity"} : Refuse(k, why)
  BY <1>1, <1>2, <1>4, RefuseStep
<1>5. CASE settlement[k].hold \in Reusable(k) /\ Proceed(k, "write", settlement[k].hold)
  <2>1. PICK h \in Holds : h = settlement[k].hold /\ hold[h].state = "active" /\ hold[h].quote = payment[k].quote
    BY <1>5 DEF Reusable, UsableHold
  <2> QED
    BY <1>1, <1>2, <1>5, <2>1, ProceedStep
<1> QED
  BY <1>3, <1>4, <1>5 DEF SettlementChecks

LEMMA BlockedStep == ASSUME IInv, NEW k \in Keys, SettlementBlocked(k) \/ SettlementFails(k) PROVE IInv'
<1>1. /\ settlement[k].at \in {"queued", "check", "write", "refused"}
      /\ UNCHANGED <<session, quote, hold, payment, bookings, begun, commit>>
  BY DEF SettlementBlocked, SettlementFails, Settling
<1>2. TablesGoOn /\ OneHold'
  BY <1>1, NothingBooked, SessionSame DEF IInv
<1>3. CASE Proceed(k, "done", None)
  BY <1>1, <1>2, <1>3, ProceedStep
<1>4. CASE Again(k)
  BY <1>1, <1>4, AgainStep
<1> QED
  BY <1>3, <1>4 DEF SettlementBlocked, SettlementFails

LEMMA RefusedStep == ASSUME IInv, NEW k \in Keys, SettlementRefused(k) PROVE IInv'
<1>1. /\ settlement[k].at \in {"queued", "check", "write", "refused"}
      /\ UNCHANGED <<session, quote, payment, bookings, begun, commit>>
  BY DEF SettlementRefused, Settling
<1>2. TypeOK /\ Reasons /\ Outcomes
  BY DEF IInv
<1>3. HoldsGoOn /\ OneHold'
  BY <1>1, <1>2, ReleasedGoOn, SameHoldsGoOn, SessionSame DEF SettlementRefused
<1>4. TablesGoOn
  BY <1>1, <1>2, <1>3, SameQuotesGoOn, SamePaymentsGoOn, SessionSame DEF TablesGoOn, Reasons
<1>5. PICK r : r = [settlement[k] EXCEPT !.at = "dead"]
  OBVIOUS
<1>6. r \in SettlementRow /\ r.at = "dead" /\ settlement' = [settlement EXCEPT ![k] = r]
  <2>1. settlement[k] \in SettlementRow
    BY <1>2 DEF TypeOK, SettlementRow
  <2>2. settlement' = [settlement EXCEPT ![k] = r]
    BY <1>5 DEF SettlementRefused
  <2> QED
    BY <1>5, <2>1, <2>2 DEF SettlementRow
<1> QED
  BY <1>1, <1>3, <1>4, <1>6, Underway, DeliveryMoves

-----------------------------------------------------------------------------
(* The booking *)

\* The booking of the quote q, with the hold h and the payment p, is the first,
\* and claims each row in the state it needs it in.
LEMMA BooksOnce ==
  ASSUME IInv, NEW q \in Quotes, NEW h \in Holds, NEW p \in Keys \cup {None},
         NEW states \in SUBSET {"active", "superseded"},
         Consumable(q, h, p, states), Consume(q, h, p), begun' = begun,
         hold[h].quote = q, p # None => payment[p].amount = quote[q].amount
  PROVE  /\ session' \in SessionRow
         /\ quote' \in [Quotes -> QuoteRow]
         /\ \A r \in Quotes : /\ quote'[r].amount = quote[r].amount
                              /\ quote'[r].state = IF r = q THEN "consumed" ELSE quote[r].state
         /\ hold' \in [Holds -> HoldRow]
         /\ \A g \in Holds : /\ hold'[g].quote = hold[g].quote
                             /\ hold'[g].state = IF g = h THEN "converted" ELSE hold[g].state
         /\ payment' \in [Keys -> PaymentRow]
         /\ \A k \in Keys : /\ payment'[k].status = payment[k].status
                            /\ payment'[k].amount = payment[k].amount
                            /\ payment'[k].quote = payment[k].quote
                            /\ payment'[k].booked = (k = p \/ payment[k].booked)
         /\ bookings' \subseteq BookingRow
         /\ quote[q].state \in {"active", "superseded"}
         /\ begun' = "nothing"
         /\ Outcomes'
<1>1. /\ session \in SessionRow /\ quote \in [Quotes -> QuoteRow] /\ hold \in [Holds -> HoldRow]
      /\ payment \in [Keys -> PaymentRow] /\ bookings \subseteq BookingRow
  BY DEF IInv, TypeOK, SessionRow, QuoteRow, HoldRow, PaymentRow, BookingRow
<1>2. /\ session' \in SessionRow /\ session'.state = "consumed" /\ session.state = "active"
  BY <1>1 DEF Consume, Consumable, Active, SessionRow
<1>3. /\ quote' \in [Quotes -> QuoteRow]
      /\ \A r \in Quotes : /\ quote'[r].amount = quote[r].amount
                           /\ quote'[r].state = IF r = q THEN "consumed" ELSE quote[r].state
  <2>1. PICK new : new = [quote[q] EXCEPT !.state = "consumed"]
    OBVIOUS
  <2>2. new \in QuoteRow /\ new.amount = quote[q].amount /\ new.state = "consumed"
    BY <1>1, <2>1 DEF QuoteRow
  <2>3. quote' = [quote EXCEPT ![q] = new]
    BY <2>1 DEF Consume
  <2> QED
    BY <1>1, <2>2, <2>3
<1>4. /\ hold' \in [Holds -> HoldRow]
      /\ \A g \in Holds : /\ hold'[g].quote = hold[g].quote
                          /\ hold'[g].state = IF g = h THEN "converted" ELSE hold[g].state
  <2>1. PICK new : new = [hold[h] EXCEPT !.state = "converted"]
    OBVIOUS
  <2>2. new \in HoldRow /\ new.quote = hold[h].quote /\ new.state = "converted"
    BY <1>1, <2>1 DEF HoldRow
  <2>3. hold' = [hold EXCEPT ![h] = new]
    BY <2>1 DEF Consume
  <2> QED
    BY <1>1, <2>2, <2>3
<1>5. /\ payment' \in [Keys -> PaymentRow]
      /\ \A k \in Keys : /\ payment'[k].status = payment[k].status
                         /\ payment'[k].amount = payment[k].amount
                         /\ payment'[k].quote = payment[k].quote
                         /\ payment'[k].booked = (k = p \/ payment[k].booked)
  <2>1. CASE p = None
    <3>1. payment' = payment /\ \A k \in Keys : k # p
      BY <2>1, RowsAssumption DEF Consume
    <3>2. \A k \in Keys : payment[k].booked \in BOOLEAN
      BY <1>1 DEF PaymentRow
    <3> QED
      BY <1>1, <3>1, <3>2
  <2>2. CASE p \in Keys
    <3>1. PICK new : new = [payment[p] EXCEPT !.booked = TRUE]
      OBVIOUS
    <3>2. /\ new \in PaymentRow /\ new.status = payment[p].status /\ new.amount = payment[p].amount
          /\ new.quote = payment[p].quote /\ new.booked = TRUE
      BY <1>1, <2>2, <3>1 DEF PaymentRow
    <3>3. payment' = [payment EXCEPT ![p] = new]
      BY <2>2, <3>1, RowsAssumption DEF Consume
    <3>4. \A k \in Keys : payment[k].booked \in BOOLEAN
      BY <1>1 DEF PaymentRow
    <3> QED
      BY <1>1, <2>2, <3>2, <3>3, <3>4
  <2> QED
    BY <2>1, <2>2
<1>6. bookings = {}
  BY <1>2 DEF IInv, Outcomes, AllOrNothing
<1>7. PICK b \in BookingRow : /\ b = [quote |-> q, hold |-> h, payment |-> p]
                              /\ b.quote = q /\ b.hold = h /\ b.payment = p
  <2>1. PICK b : b = [quote |-> q, hold |-> h, payment |-> p]
    OBVIOUS
  <2>2. b \in BookingRow /\ b.quote = q /\ b.hold = h /\ b.payment = p
    BY <2>1 DEF BookingRow
  <2> QED
    BY <2>1, <2>2
<1>8. bookings' = {b}
  BY <1>6, <1>7 DEF Consume
<1>9. OneBooking'
  BY <1>8 DEF OneBooking
<1>10. RowIsLocked' /\ begun' = "nothing"
  BY DEF Consumable, RowFree, RowIsLocked
<1>11. OneHold'
  <2>1. \A g \in Holds : g # h => hold[g].state # "active"
    BY DEF IInv, Outcomes, OneHold, ActiveHolds, Consumable
  <2>2. ActiveHolds' = {}
    BY <1>4, <2>1 DEF ActiveHolds
  <2> QED
    BY <2>2 DEF OneHold
<1>12. AllOrNothing'
  <2>1. /\ \A r \in Quotes : quote[r].state # "consumed"
        /\ \A g \in Holds : hold[g].state # "converted"
        /\ \A k \in Keys : ~payment[k].booked
    BY <1>6 DEF IInv, Outcomes, AllOrNothing
  <2>2. {r \in Quotes : quote'[r].state = "consumed"} = {b.quote}
    BY <1>3, <1>7, <2>1
  <2>3. {g \in Holds : hold'[g].state = "converted"} = {b.hold}
    BY <1>4, <1>7, <2>1
  <2>4. {k \in Keys : payment'[k].booked} = {b.payment} \ {None}
    BY <1>5, <1>7, <2>1, RowsAssumption
  <2> QED
    BY <1>2, <1>8, <2>2, <2>3, <2>4 DEF AllOrNothing
<1>13. BookedAsPaid'
  <2>1. hold'[b.hold].quote = b.quote
    BY <1>4, <1>7
  <2>2. b.payment # None => payment'[b.payment].amount = quote'[b.quote].amount
    BY <1>3, <1>5, <1>7
  <2> QED
    BY <1>8, <2>1, <2>2 DEF BookedAsPaid
<1>14. quote[q].state \in {"active", "superseded"}
  BY DEF Consumable
<1> QED
  BY <1>2, <1>3, <1>4, <1>5, <1>7, <1>8, <1>9, <1>10, <1>11, <1>12, <1>13, <1>14 DEF Outcomes

\* What others rest on outlives the booking, too.
LEMMA BookingSparesReasons ==
  ASSUME IInv, NEW q \in Quotes, NEW h \in Holds,
         hold[h].state = "active", quote[q].state \in {"active", "superseded"},
         \A r \in Quotes : /\ quote'[r].amount = quote[r].amount
                           /\ quote'[r].state = IF r = q THEN "consumed" ELSE quote[r].state,
         \A g \in Holds : /\ hold'[g].quote = hold[g].quote
                          /\ hold'[g].state = IF g = h THEN "converted" ELSE hold[g].state,
         NEW p \in Keys \cup {None}, p # None => Settled(p),
         \A k \in Keys : /\ payment'[k].status = payment[k].status
                         /\ payment'[k].amount = payment[k].amount
                         /\ payment'[k].quote = payment[k].quote
                         /\ payment'[k].booked = (k = p \/ payment[k].booked)
  PROVE  /\ PaymentsOfQuotes'
         /\ \A c \in CommitRow : Rests(c) => Rests(c)'
         /\ \A k \in Keys, s \in SettlementRow : RestsOn(s, payment[k]) => RestsOn(s, payment[k])'
<1>1. PaymentsOfQuotes'
  <2> SUFFICES ASSUME NEW k \in Keys
               PROVE  /\ payment'[k].status # "none" =>
                           /\ payment'[k].quote \in Quotes /\ quote'[payment'[k].quote].state # "unused"
                           /\ payment'[k].amount = quote'[payment'[k].quote].amount
                      /\ payment'[k].booked => Settled(k)'
    BY DEF PaymentsOfQuotes
  <2>1. /\ payment[k].status # "none" =>
             /\ payment[k].quote \in Quotes /\ quote[payment[k].quote].state # "unused"
             /\ payment[k].amount = quote[payment[k].quote].amount
        /\ payment[k].booked => Settled(k)
    BY DEF IInv, Reasons, PaymentsOfQuotes
  <2>2. payment'[k].status = payment[k].status /\ payment'[k].booked = (k = p \/ payment[k].booked)
    OBVIOUS
  <2>3. payment'[k].booked => Settled(k)'
    <3> SUFFICES ASSUME payment'[k].booked PROVE Settled(k)'
      OBVIOUS
    <3>1. k = p \/ payment[k].booked
      BY <2>2
    <3>2. k # None
      BY RowsAssumption
    <3>3. k = p => Settled(k)
      BY <3>2
    <3>4. Settled(k)
      BY <2>1, <3>1, <3>3
    <3> QED
      BY <2>2, <3>4 DEF Settled
  <2> QED
    BY <2>1, <2>2, <2>3
<1>2. ASSUME NEW c \in CommitRow, Rests(c) PROVE Rests(c)'
  <2>1. c.payment \in Keys \cup {None}
    BY DEF CommitRow
  <2> QED
    BY <1>2, <2>1 DEF Rests
<1>3. ASSUME NEW k \in Keys, NEW s \in SettlementRow, RestsOn(s, payment[k]) PROVE RestsOn(s, payment[k])'
  BY <1>3 DEF RestsOn
<1> QED
  BY <1>1, <1>2, <1>3

LEMMA CommitBooksStep == ASSUME IInv, NEW k \in Keys, CommitBooks(k) PROVE IInv'
<1>1. PICK c \in CommitRow : c = commit[k] /\ c.at = "write" /\ Rests(c)
  BY DEF IInv, TypeOK, CommitRow, Reasons, CommitsRest, CommitBooks, At
<1>2. PICK q \in Quotes, h \in Holds, p \in Keys \cup {None} :
        q = c.quote /\ h = c.hold /\ p = c.payment
  BY <1>1 DEF CommitRow, Rests
<1>3. Consumable(q, h, p, {"active"}) /\ Consume(q, h, p) /\ Stop(k) /\ UNCHANGED <<begun, settlement>>
  BY <1>1, <1>2 DEF CommitBooks
<1>4. hold[h].quote = q /\ (p # None => payment[p].amount = quote[q].amount)
  BY <1>1, <1>2 DEF Rests
<1>5. /\ hold[h].state = "active" /\ (p # None => Settled(p))
      /\ {"active"} \in SUBSET {"active", "superseded"}
  BY <1>3 DEF Consumable
<1>6. /\ session' \in SessionRow
      /\ quote' \in [Quotes -> QuoteRow]
      /\ \A r \in Quotes : /\ quote'[r].amount = quote[r].amount
                           /\ quote'[r].state = IF r = q THEN "consumed" ELSE quote[r].state
      /\ hold' \in [Holds -> HoldRow]
      /\ \A g \in Holds : /\ hold'[g].quote = hold[g].quote
                          /\ hold'[g].state = IF g = h THEN "converted" ELSE hold[g].state
      /\ payment' \in [Keys -> PaymentRow]
      /\ \A j \in Keys : /\ payment'[j].status = payment[j].status
                         /\ payment'[j].amount = payment[j].amount
                         /\ payment'[j].quote = payment[j].quote
                         /\ payment'[j].booked = (j = p \/ payment[j].booked)
      /\ bookings' \subseteq BookingRow
      /\ quote[q].state \in {"active", "superseded"}
      /\ begun' = "nothing"
      /\ Outcomes'
  BY <1>3, <1>4, <1>5, BooksOnce
<1>7. /\ PaymentsOfQuotes'
      /\ \A d \in CommitRow : Rests(d) => Rests(d)'
      /\ \A j \in Keys, s \in SettlementRow : RestsOn(s, payment[j]) => RestsOn(s, payment[j])'
  BY <1>5, <1>6, BookingSparesReasons
<1>8. commit' \in [Keys -> CommitRow] /\ \A j \in Keys : commit'[j].at = "idle" \/ commit'[j] = commit[j]
  <2>1. commit \in [Keys -> CommitRow] /\ NoCommit \in CommitRow /\ NoCommit.at = "idle"
    BY DEF IInv, TypeOK, CommitRow, NoCommit
  <2> QED
    BY <1>3, <2>1 DEF Stop
<1>9. CommitsRest'
  <2> SUFFICES ASSUME NEW j \in Keys, commit'[j].at # "idle" PROVE Rests(commit[j])'
    BY DEF CommitsRest
  <2>1. PICK d \in CommitRow : d = commit'[j] /\ d = commit[j]
    BY <1>8
  <2>2. Rests(d)
    BY <2>1 DEF IInv, Reasons, CommitsRest
  <2>3. Rests(d)'
    BY <1>7, <2>2
  <2> QED
    BY <2>1, <2>3 DEF Rests
<1>10. settlement' \in [Keys -> SettlementRow] /\ settlement' = settlement
  BY <1>3 DEF IInv, TypeOK, SettlementRow
<1>11. SettlementsRest'
  <2> SUFFICES ASSUME NEW j \in Keys PROVE RestsOn(settlement[j], payment[j])'
    BY DEF SettlementsRest
  <2>1. PICK s \in SettlementRow : s = settlement[j] /\ s = settlement'[j]
    BY <1>10
  <2>2. RestsOn(s, payment[j])'
    BY <1>7, <2>1 DEF IInv, Reasons, SettlementsRest
  <2> QED
    BY <2>1, <2>2 DEF RestsOn
<1>12. TypeOK'
  BY <1>6, <1>8, <1>10 DEF TypeOK, SessionRow, QuoteRow, HoldRow, PaymentRow, BookingRow, CommitRow, SettlementRow
<1> QED
  BY <1>6, <1>7, <1>9, <1>11, <1>12 DEF IInv, Reasons

LEMMA SettlementBooksStep == ASSUME IInv, NEW k \in Keys, SettlementBooks(k) PROVE IInv'
<1>1. settlement[k].at = "write" /\ UNCHANGED <<begun, commit>>
  BY DEF SettlementBooks, Settling
<1>2. /\ payment[k].status = "paid" /\ settlement[k].attempts < MaxAttempts
      /\ payment[k].quote \in Quotes /\ payment[k].amount = quote[payment[k].quote].amount
  BY <1>1, Underway
<1>3. /\ settlement[k].hold \in Holds /\ hold[settlement[k].hold].quote = payment[k].quote
  BY <1>1 DEF IInv, Reasons, SettlementsRest, RestsOn
<1>4. PICK q \in Quotes, h \in Holds : q = payment[k].quote /\ h = settlement[k].hold
  BY <1>2, <1>3
<1>5. /\ Consumable(q, h, k, {"active", "superseded"}) /\ Consume(q, h, k) /\ Proceed(k, "done", None)
      /\ hold[h].quote = q /\ payment[k].amount = quote[q].amount /\ Settled(k)
  BY <1>2, <1>3, <1>4 DEF SettlementBooks, Settled
<1>6. hold[h].state = "active" /\ {"active", "superseded"} \in SUBSET {"active", "superseded"}
  BY <1>5 DEF Consumable
<1>7. /\ session' \in SessionRow
      /\ quote' \in [Quotes -> QuoteRow]
      /\ \A r \in Quotes : /\ quote'[r].amount = quote[r].amount
                           /\ quote'[r].state = IF r = q THEN "consumed" ELSE quote[r].state
      /\ hold' \in [Holds -> HoldRow]
      /\ \A g \in Holds : /\ hold'[g].quote = hold[g].quote
                          /\ hold'[g].state = IF g = h THEN "converted" ELSE hold[g].state
      /\ payment' \in [Keys -> PaymentRow]
      /\ \A j \in Keys : /\ payment'[j].status = payment[j].status
                         /\ payment'[j].amount = payment[j].amount
                         /\ payment'[j].quote = payment[j].quote
                         /\ payment'[j].booked = (j = k \/ payment[j].booked)
      /\ bookings' \subseteq BookingRow
      /\ quote[q].state \in {"active", "superseded"}
      /\ begun' = "nothing"
      /\ Outcomes'
  <2>1. k \in Keys \cup {None} /\ begun' = begun
    BY <1>1
  <2> QED
    BY <1>5, <1>6, <2>1, BooksOnce
<1>8. /\ PaymentsOfQuotes'
      /\ \A d \in CommitRow : Rests(d) => Rests(d)'
      /\ \A j \in Keys, s \in SettlementRow : RestsOn(s, payment[j]) => RestsOn(s, payment[j])'
  <2>1. k \in Keys \cup {None}
    OBVIOUS
  <2> QED
    BY <1>5, <1>6, <1>7, <2>1, BookingSparesReasons
<1>9. commit' \in [Keys -> CommitRow] /\ commit' = commit
  BY <1>1 DEF IInv, TypeOK, CommitRow
<1>10. CommitsRest'
  <2> SUFFICES ASSUME NEW j \in Keys, commit'[j].at # "idle" PROVE Rests(commit[j])'
    BY DEF CommitsRest
  <2>1. PICK d \in CommitRow : d = commit'[j] /\ d = commit[j]
    BY <1>9
  <2>2. Rests(d)'
    BY <1>8, <2>1 DEF IInv, Reasons, CommitsRest
  <2> QED
    BY <2>1, <2>2 DEF Rests
<1>11. PICK r \in SettlementRow : settlement' = [settlement EXCEPT ![k] = r] /\ r.at = "done"
  BY <1>5, ProceedRow DEF IInv
<1>12. settlement \in [Keys -> SettlementRow] /\ settlement' \in [Keys -> SettlementRow]
  BY <1>11 DEF IInv, TypeOK, SettlementRow
<1>13. SettlementsRest'
  <2> SUFFICES ASSUME NEW j \in Keys PROVE RestsOn(settlement[j], payment[j])'
    BY DEF SettlementsRest
  <2>1. CASE j = k
    BY <1>2, <1>7, <1>11, <1>12, <2>1 DEF RestsOn
  <2>2. CASE j # k
    <3>1. PICK s \in SettlementRow : s = settlement[j] /\ s = settlement'[j]
      BY <1>11, <1>12, <2>2
    <3>2. RestsOn(s, payment[j])'
      BY <1>8, <3>1 DEF IInv, Reasons, SettlementsRest
    <3> QED
      BY <3>1, <3>2 DEF RestsOn
  <2> QED
    BY <2>1, <2>2
<1>14. TypeOK'
  BY <1>7, <1>9, <1>12 DEF TypeOK, SessionRow, QuoteRow, HoldRow, PaymentRow, BookingRow, CommitRow, SettlementRow
<1> QED
  BY <1>7, <1>8, <1>10, <1>13, <1>14 DEF IInv, Reasons

-----------------------------------------------------------------------------

LEMMA InitIInv == Init => IInv
<1> SUFFICES ASSUME Init PROVE IInv
  OBVIOUS
<1>1. /\ session = [state |-> "active", lapsed |-> FALSE]
      /\ \A q \in Quotes : quote[q].state = "unused"
      /\ \A h \in Holds : hold[h].state = "unused"
      /\ \A k \in Keys : /\ payment[k].status = "none" /\ payment[k].booked = FALSE
                         /\ commit[k].at = "idle"
                         /\ settlement[k].at = "none" /\ settlement[k].attempts = 0
      /\ bookings = {} /\ begun = "nothing"
  BY DEF Init, NoCommit
<1>2. TypeOK
  <2>1. 0 \in 0..MaxAmount /\ 0 \in 0..MaxAttempts
    BY LimitsAssumption
  <2>2. quote \in [Quotes -> QuoteRow] /\ hold \in [Holds -> HoldRow] /\ payment \in [Keys -> PaymentRow]
    BY <2>1 DEF Init, QuoteRow, HoldRow, PaymentRow, Statuses
  <2>3. commit \in [Keys -> CommitRow] /\ settlement \in [Keys -> SettlementRow]
    BY <2>1 DEF Init, NoCommit, CommitRow, SettlementRow
  <2> QED
    BY <1>1, <2>2, <2>3 DEF TypeOK, QuoteRow, HoldRow, PaymentRow, CommitRow, SettlementRow
<1>3. Reasons
  BY <1>1, LimitsAssumption DEF Reasons, PaymentsOfQuotes, CommitsRest, SettlementsRest, RestsOn
<1>4. Outcomes
  BY <1>1 DEF Outcomes, RowIsLocked, OneHold, ActiveHolds, OneBooking, AllOrNothing, BookedAsPaid
<1> QED
  BY <1>2, <1>3, <1>4 DEF IInv

LEMMA StepIInv == ASSUME IInv, [Next]_vars PROVE IInv'
<1>1. CASE UNCHANGED vars
  BY <1>1 DEF vars, IInv, TypeOK, Reasons, PaymentsOfQuotes, CommitsRest, Rests, SettlementsRest, RestsOn,
              Outcomes, RowIsLocked, OneHold, ActiveHolds, Active, OneBooking, AllOrNothing,
              BookedAsPaid, Settled
<1>2. CASE Shopper \/ Sweep
  BY <1>2, Begins, ShopperSteps, ExpiryStep DEF Shopper, Sweep
<1>3. ASSUME NEW k \in Keys, Commit(k) PROVE IInv'
  BY <1>3, PreflightStep, RefusalStep, PrepareStep, CreateStep, ReuseStep, StartPaymentStep, CheckStep,
     CommitBooksStep, StopStep, FailureStep, RetireStep DEF Commit
<1>4. ASSUME NEW k \in Keys, Settle(k) \/ SettlementFails(k) PROVE IInv'
  BY <1>4, BeginsStep, ChecksStep, SettlementBooksStep, BlockedStep, RefusedStep DEF Settle
<1> QED
  BY <1>1, <1>2, <1>3, <1>4, ProcessorStep, ClockStep DEF Next

LEMMA Invariance == Spec => []IInv
<1>1. IInv /\ [Next]_vars => IInv'
  BY StepIInv
<1> QED
  BY InitIInv, <1>1, PTL DEF Spec

\* The rows of the session, its payments and the attempts on them keep their
\* types, and no settlement is delivered more often than it may
\* (sessions-drizzle.ts, booking-session-payment.ts, deliverSubscriberRow).
THEOREM TypeCorrect == Spec => []TypeOK
<1>1. IInv => TypeOK
  BY DEF IInv
<1> QED
  BY Invariance, <1>1, PTL

\* A session makes at most one booking, whoever commits it and however retries,
\* tabs, settlements and sweeps interleave, and the session, the quote, the hold
\* and the payment say so together (consumeCommit, transferToBooking).
THEOREM OneBookingTogether == Spec => []BookedTogether
<1>1. IInv => BookedTogether
  <2> SUFFICES ASSUME IInv PROVE BookedTogether
    OBVIOUS
  <2>1. Cardinality(bookings) <= 1
    <3>1. CASE bookings = {}
      BY <3>1, FS_EmptySet
    <3>2. ASSUME NEW b \in bookings PROVE Cardinality(bookings) <= 1
      <4>1. bookings = {b}
        BY <3>2 DEF IInv, Outcomes, OneBooking
      <4> QED
        BY <4>1, FS_Singleton
    <3> QED
      BY <3>1, <3>2
  <2> QED
    BY <2>1 DEF IInv, Outcomes, AllOrNothing, BookedTogether
<1> QED
  BY Invariance, <1>1, PTL

\* The booking is for the quote whose amount was collected and for a hold of that
\* quote, although both were read in earlier transactions (loadSettledQuote, prepare).
THEOREM PaidForWhatIsBooked == Spec => []BookedAsPaid
<1>1. IInv => BookedAsPaid
  BY DEF IInv, Outcomes
<1> QED
  BY Invariance, <1>1, PTL

\* Seats are reserved for one party only, and for none once the session is over
\* (releaseLiveHolds, reestablishSettlementHold, expireSession).
THEOREM OneHoldWhileActive == Spec => []HoldsFollowSession
<1>1. IInv => HoldsFollowSession
  <2> SUFFICES ASSUME IInv PROVE HoldsFollowSession
    OBVIOUS
  <2>1. CASE ActiveHolds = {}
    <3>1. Cardinality(ActiveHolds) = 0
      BY <2>1, FS_EmptySet
    <3> QED
      BY <3>1 DEF HoldsFollowSession
  <2>2. ASSUME NEW h \in ActiveHolds PROVE HoldsFollowSession
    <3>1. ActiveHolds = {h} /\ Active
      BY <2>2 DEF IInv, Outcomes, OneHold
    <3>2. Cardinality(ActiveHolds) = 1
      BY <3>1, FS_Singleton
    <3> QED
      BY <3>1, <3>2 DEF HoldsFollowSession
  <2> QED
    BY <2>1, <2>2
<1> QED
  BY Invariance, <1>1, PTL

\* A settlement never gives up a hold it could have used while it may still be
\* retried (reestablishSettlementHold, sessions-service.ts:2862-2868).
THEOREM SettlementsSpareTheirHold == Spec => SettlementSparesItsHold
<1>1. ASSUME IInv, [Next]_vars, NEW k \in Keys, NEW h \in Holds,
             settlement[k].at # settlement'[k].at, settlement'[k].at # "dead", h \in Reusable(k)
      PROVE  hold'[h].state # "released"
  <2>1. hold[h].state = "active" /\ hold \in [Holds -> HoldRow] /\ settlement \in [Keys -> SettlementRow]
    BY <1>1 DEF Reusable, UsableHold, IInv, TypeOK, HoldRow, SettlementRow
  <2>2. CASE hold' = hold
    BY <2>1, <2>2
  <2>3. CASE settlement' = settlement
    BY <1>1, <2>3
  <2>4. ASSUME NEW j \in Keys, SettlementBegins(j) PROVE hold'[h].state # "released"
    <3>1. CASE j = k
      BY <1>1, <2>1, <2>4, <3>1 DEF SettlementBegins, FindSources, RetakeHold
    <3>2. CASE j # k
      BY <1>1, <2>1, <2>4, <3>2 DEF SettlementBegins, FindSources, RetakeHold, Proceed, Refuse
    <3> QED
      BY <3>1, <3>2
  <2>5. ASSUME NEW j \in Keys, SettlementBooks(j) PROVE hold'[h].state # "released"
    <3>1. hold' = [hold EXCEPT ![settlement[j].hold].state = "converted"]
      BY <2>5 DEF SettlementBooks, Consume
    <3> QED
      BY <2>1, <3>1
  <2>6. ASSUME NEW j \in Keys, SettlementRefused(j) PROVE FALSE
    BY <1>1, <2>1, <2>6 DEF SettlementRefused
  <2>7. CASE Shopper \/ Sweep
    BY <2>3, <2>7 DEF Shopper, Sweep, BeginOperation, BeginExpiry, RenewSession, UpdateSession,
         QuoteSession, PlaceHold, AbandonSession, ExpireSession, Ends
  <2>8. ASSUME NEW j \in Keys, Commit(j) PROVE settlement' = settlement
    BY <2>8 DEF Commit, Preflight, PreflightRefuses, Prepare, CreatePayment, ReusePayment, StartPayment,
         CheckSources, CommitBooks, CommitStops, PersistFailure, RetireSession
  <2>9. ASSUME NEW j \in Keys, Processor(j) PROVE hold' = hold
    BY <2>9 DEF Processor, InitiationAnswers, PaymentFails, PaymentAuthorized, PaymentPaid
  <2>10. ASSUME NEW j \in Keys, Settle(j) \/ SettlementFails(j) PROVE hold'[h].state # "released"
    BY <2>2, <2>4, <2>5, <2>6, <2>10 DEF Settle, SettlementChecks, SettlementBlocked, SettlementFails
  <2>11. CASE SessionLapses \/ (\E q \in Quotes : QuoteLapses(q)) \/ (\E g \in Holds : HoldLapses(g))
    BY <2>3, <2>11 DEF SessionLapses, QuoteLapses, HoldLapses
  <2>12. CASE UNCHANGED vars
    BY <2>2, <2>12 DEF vars
  <2> QED
    BY <1>1, <2>2, <2>3, <2>7, <2>8, <2>9, <2>10, <2>11, <2>12 DEF Next
<1>2. IInv /\ [Next]_vars =>
        [\A k \in Keys, h \in Holds :
           /\ settlement[k].at # settlement'[k].at /\ settlement'[k].at # "dead"
           /\ h \in Reusable(k)
           => hold'[h].state # "released"]_vars
  BY <1>1
<1> QED
  BY Invariance, <1>2, PTL DEF Spec, SettlementSparesItsHold
=============================================================================
