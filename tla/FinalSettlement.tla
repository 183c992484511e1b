-------------------------- MODULE FinalSettlement --------------------------
(***************************************************************************)
(* How one finished job is settled: finalizeCompletedBooking on the three  *)
(* payment sources, for a booking prepaid at acceptance or not, with the   *)
(* customer's retries, duration approval, disputes, Stripe and its webhook *)
(* and the refund of an unused prepayment.                                 *)
(*                                                                         *)
(* finalizeCompletedBooking is not a transaction: a call is a process with *)
(* one action per database transaction or Stripe request and with what it  *)
(* has read so far in call[c].  It may stop between any two of them.       *)
(***************************************************************************)
EXTENDS Integers

CONSTANTS
  Calls,      \* settlement calls that can be under way at once
  Sources,    \* Booking.paymentSource when the job ends
  Cards,      \* Stripe payment methods of the customer
  Captures,   \* what acceptance captured, 0 for nothing
  Costs,      \* price of the labour really worked (serviceAmount)
  Fee,        \* platform fee, surcharge and donation on top of it
  Tips,       \* tips the customer may set
  Funds       \* the customer's wallet balance when the job ends

ASSUME AmountsAssumption ==
  /\ Captures \subseteq Nat
  /\ Costs \subseteq Nat \ {0}
  /\ Tips \subseteq Nat
  /\ Fee \in Nat
  /\ Funds \in Nat
ASSUME SourcesAssumption == Sources \subseteq {"stripe", "wallet", "cash"}
ASSUME CardsAssumption == "none" \notin Cards

VARIABLES
  booking,   \* the Booking row
  charge,    \* status of the PaymentTransaction booking-charge:ID:v1
  underuse,  \* the PaymentTransaction acceptance-underuse-refund:ID
  earning,   \* the TaskerEarning row
  cash,      \* cash collected (TaskerPlatformReceivable), 0 for no row
  wallet,    \* ledger entries of this settlement in the customer's wallet
  intent,    \* Stripe: the PaymentIntent of the final charge
  refund,    \* Stripe: status of the refund of the unused prepayment
  events,    \* Stripe: webhook events this backend has not processed yet
  call       \* settlement calls

vars == <<booking, charge, underuse, earning, cash, wallet, intent, refund, events, call>>

rows == <<booking, charge, underuse, earning, cash, wallet>>
stripe == <<intent, refund, events>>

-----------------------------------------------------------------------------
(* Rows and Stripe objects. *)

PaymentStatuses ==
  {"ready", "payment_method_required", "processing", "requires_action", "failed",
   "review_required_duration_exceeded", "on_hold_dispute",
   "cash_confirmation_required", "cash_confirmed", "paid"}

Answers == {"succeeded", "processing", "requires_action", "requires_payment_method"}

BookingRow ==
  [status : {"in_progress", "completed"},
   source : {"stripe", "wallet", "cash"},
   payment : PaymentStatuses,
   card : Cards \union {"none"},             \* stripePaymentMethodId
   intent : BOOLEAN,                         \* stripePaymentIntentId is the intent's
   capture : {"none", "stripe", "internal_wallet"},   \* who captured at acceptance
   captured : Captures \union {0},
   cost : Costs, tip : Tips,
   overtime : BOOLEAN,                       \* worked longer than authorised
   charged : Nat,                            \* totalChargedAmount, 0 for null
   dispute : {"none", "open", "closed"}]

NoEarning == [ref |-> "none", net |-> 0, gross |-> 0]
NoUnderuse == [provider |-> "none", amount |-> 0, status |-> "none"]

\* Stripe repeats the answer of the creation to a request with the same
\* idempotency key and the same parameters, and refuses other parameters.
NoIntent == [status |-> "none", amount |-> 0, card |-> "none", answer |-> "none"]

Pcs == {"idle", "read", "cash", "settle", "wallet", "stripe", "create", "retrieve",
        "confirm", "reconcile", "record", "record_confirm", "record_error",
        "on_hold_dispute", "review_required_duration_exceeded", "payment_method_required"}

Idle == [pc |-> "idle", card |-> "none", amount |-> 0, total |-> 0, seen |-> "none"]

At(c, pc) == call[c].pc = pc
End(c) == call' = [call EXCEPT ![c] = Idle]
Goto(c, pc) == call' = [call EXCEPT ![c].pc = pc]

Total(b) == b.cost + Fee + b.tip
Net(b) == b.cost + b.tip

Init ==
  /\ \E source \in Sources, captured \in Captures, cost \in Costs, tip \in Tips,
        overtime \in BOOLEAN, card \in Cards \union {"none"} :
       /\ source = "cash" => captured = 0
       /\ source = "stripe" => card # "none"
       /\ booking =
            [status |-> "in_progress", source |-> source, payment |-> "ready",
             card |-> card, intent |-> FALSE,
             capture |-> CASE captured = 0 -> "none"
                           [] captured # 0 /\ source = "stripe" -> "stripe"
                           [] OTHER -> "internal_wallet",
             captured |-> captured, cost |-> cost, tip |-> tip,
             overtime |-> overtime, charged |-> 0, dispute |-> "none"]
  /\ charge = "none"
  /\ underuse = NoUnderuse
  /\ earning = NoEarning
  /\ cash = 0
  /\ wallet = [debit |-> 0, credit |-> 0]
  /\ intent = NoIntent
  /\ refund = "none"
  /\ events = {}
  /\ call = [c \in Calls |-> Idle]

-----------------------------------------------------------------------------
(* What starts a settlement. *)

\* A step that ends in finalizeCompletedBooking, which the same request runs
\* after its own transaction has committed.
ThenFinalize(c) ==
  /\ At(c, "idle")
  /\ call' = [call EXCEPT ![c].pc = "read"]

Complete(c) ==
  /\ booking.status = "in_progress"
  /\ booking' = [booking EXCEPT !.status = "completed"]
  /\ ThenFinalize(c)
  /\ UNCHANGED <<charge, underuse, earning, cash, wallet, stripe>>

RetryReady(b, card) ==
  [b EXCEPT !.card = card, !.source = "stripe", !.payment = "ready", !.intent = FALSE]

\* Nothing asks whether the booking is paid already.
RetryWithCard(c) ==
  /\ booking.status = "completed"
  /\ \E card \in Cards : booking' = RetryReady(booking, card)
  /\ ThenFinalize(c)
  /\ UNCHANGED <<charge, underuse, earning, cash, wallet, stripe>>

\* An intent that waits for the customer is handed back, not finalised.
Retry(c) ==
  /\ booking.status = "completed"
  /\ ~(booking.intent /\ intent.status \in {"requires_action", "requires_payment_method"})
  /\ ThenFinalize(c)
  /\ UNCHANGED <<rows, stripe>>

ApproveDurationReview(c) ==
  /\ booking.status = "completed"
  /\ booking.payment = "review_required_duration_exceeded"
  /\ booking' = [booking EXCEPT !.overtime = FALSE, !.payment = "ready"]
  /\ ThenFinalize(c)
  /\ UNCHANGED <<charge, underuse, earning, cash, wallet, stripe>>

ReleaseDisputeHold(c) ==
  /\ booking.dispute = "closed"
  /\ booking.payment = "on_hold_dispute"
  /\ booking' = [booking EXCEPT !.payment = "ready"]
  /\ IF booking.status = "completed" THEN ThenFinalize(c) ELSE UNCHANGED call
  /\ UNCHANGED <<charge, underuse, earning, cash, wallet, stripe>>

FileComplaint ==
  /\ booking.status = "completed"
  /\ booking.dispute = "none"
  /\ booking' = [booking EXCEPT !.dispute = "open",
                   !.payment = IF @ \in {"paid", "cash_confirmed"} THEN @ ELSE "on_hold_dispute"]
  /\ UNCHANGED <<charge, underuse, earning, cash, wallet, stripe, call>>

CloseDispute ==
  /\ booking.dispute = "open"
  /\ booking' = [booking EXCEPT !.dispute = "closed"]
  /\ UNCHANGED <<charge, underuse, earning, cash, wallet, stripe, call>>

UpdateBilling ==
  /\ booking.payment \notin {"paid", "cash_confirmed"}
  /\ \E tip \in Tips : booking' = [booking EXCEPT !.tip = tip]
  /\ UNCHANGED <<charge, underuse, earning, cash, wallet, stripe, call>>

-----------------------------------------------------------------------------
(* finalizeCompletedBooking. *)

\* What the customer still owes, from the row as this call read it.
Due(b) == Total(b) - b.captured

Route(b) ==
  CASE b.dispute = "open" -> "on_hold_dispute"
    [] b.dispute # "open" /\ b.overtime -> "review_required_duration_exceeded"
    [] b.dispute # "open" /\ ~b.overtime /\ b.source = "cash" -> "cash"
    [] b.dispute # "open" /\ ~b.overtime /\ b.source # "cash" /\ b.captured > 0 /\ Due(b) <= 0 ->
         "settle"
    [] OTHER -> b.source

FinalizeRead(c) ==
  /\ At(c, "read")
  /\ IF booking.payment \in {"paid", "cash_confirmed"}
       THEN End(c)
       ELSE call' = [call EXCEPT ![c] = [Idle EXCEPT !.pc = Route(booking),
                       !.amount = Due(booking), !.total = Total(booking)]]
  /\ UNCHANGED <<rows, stripe>>

\* An update by id that assumes nothing about the row any more.
WriteStatus(c) ==
  /\ call[c].pc \in {"on_hold_dispute", "review_required_duration_exceeded",
                     "payment_method_required"}
  /\ booking' = [booking EXCEPT !.payment = call[c].pc]
  /\ End(c)
  /\ UNCHANGED <<charge, underuse, earning, cash, wallet, stripe>>

PrepareCash(c) ==
  /\ At(c, "cash")
  /\ booking' = [booking EXCEPT !.payment = "cash_confirmation_required",
                                !.charged = call[c].total]
  /\ End(c)
  /\ UNCHANGED <<charge, underuse, earning, cash, wallet, stripe>>

ConfirmCashCollection ==
  /\ booking.source = "cash" /\ booking.status = "completed"
  /\ booking.payment # "on_hold_dispute"
  /\ booking.charged > 0
  /\ booking.charged >= Net(booking)
  /\ cash = 0
  /\ cash' = booking.charged
  /\ booking' = [booking EXCEPT !.payment = "cash_confirmed"]
  /\ UNCHANGED <<charge, underuse, earning, wallet, stripe, call>>

-----------------------------------------------------------------------------
(* The earning and the refund of an unused prepayment. *)

\* createPendingEarning: once per booking; the same settlement again changes
\* nothing, a different one is a conflict that rolls its transaction back.
Settlement(b, ref, gross) == [ref |-> ref, net |-> Net(b), gross |-> gross]

CreditableAlways(b, ref, gross) == TRUE   \* mutant: any earning will do

Creditable(b, ref, gross) == earning \in {NoEarning, Settlement(b, ref, gross)}

Credited(b, ref, gross) ==
  IF earning = NoEarning THEN Settlement(b, ref, gross) ELSE earning

Paid(b, total) == [b EXCEPT !.payment = "paid", !.charged = total]

\* refundUnusedPrepayment: at once to the wallet, or a pending row for the card.
RefundUnusedWhole(amount) ==   \* mutant: all of the prepayment goes back
  IF amount <= 0 \/ underuse # NoUnderuse
    THEN UNCHANGED <<underuse, wallet>>
    ELSE /\ underuse' = [provider |-> "stripe", amount |-> booking.captured,
                         status |-> "pending"]
         /\ UNCHANGED wallet

RefundUnused(amount) ==
  IF amount <= 0 \/ underuse # NoUnderuse
    THEN UNCHANGED <<underuse, wallet>>
    ELSE IF booking.source = "wallet"
      THEN /\ underuse' = [provider |-> "internal_wallet", amount |-> amount,
                           status |-> "succeeded"]
           /\ wallet' = [wallet EXCEPT !.credit = @ + amount]
      ELSE /\ underuse' = [provider |-> "stripe", amount |-> amount, status |-> "pending"]
           /\ UNCHANGED wallet

SettleCapturedBooking(c) ==
  /\ At(c, "settle")
  /\ IF booking.payment # "paid" /\ Creditable(booking, "acceptance", call[c].total)
       THEN /\ booking' = Paid(booking, call[c].total)
            /\ earning' = Credited(booking, "acceptance", call[c].total)
            /\ RefundUnused(-call[c].amount)
       ELSE UNCHANGED <<booking, earning, underuse, wallet>>
  /\ End(c)
  /\ UNCHANGED <<charge, cash, stripe>>

Balance == Funds - wallet.debit + wallet.credit

\* The ledger key wallet:booking:ID:debit is unique.
Debited(amount) ==
  IF wallet.debit = 0 THEN [wallet EXCEPT !.debit = amount] ELSE wallet

SettleFromWallet(c) ==
  LET total == booking.captured + call[c].amount IN
  /\ At(c, "wallet")
  /\ CASE booking.payment = "paid" -> UNCHANGED <<booking, wallet, earning>>
       [] booking.payment # "paid" /\ Balance < call[c].amount ->
            /\ booking' = [booking EXCEPT !.payment = "payment_method_required"]
            /\ UNCHANGED <<wallet, earning>>
       [] booking.payment # "paid" /\ Balance >= call[c].amount
          /\ Creditable(booking, "wallet", total) ->
            /\ wallet' = Debited(call[c].amount)
            /\ booking' = Paid(booking, total)
            /\ earning' = Credited(booking, "wallet", total)
       [] OTHER -> UNCHANGED <<booking, wallet, earning>>
  /\ End(c)
  /\ UNCHANGED <<charge, underuse, cash, stripe>>

-----------------------------------------------------------------------------
(* The final card charge: createStripeBookingCharge and                    *)
(* confirmExistingBookingIntent.                                           *)

\* The attempt's row exists and names the intent: look that intent up first.
StartCharge(c) ==
  /\ At(c, "stripe")
  /\ call' = [call EXCEPT ![c].card = booking.card,
                ![c].pc = CASE booking.card = "none" -> "payment_method_required"
                            [] booking.card # "none" /\ charge = "none" -> "create"
                            [] OTHER -> "retrieve"]
  /\ UNCHANGED <<rows, stripe>>

RetrieveIntent(c) ==
  /\ At(c, "retrieve")
  /\ CASE intent.status = "succeeded" -> Goto(c, "reconcile")
       [] intent.status = "requires_payment_method" ->
            call' = [call EXCEPT ![c].card = booking.card,
                       ![c].pc = IF booking.card = "none" THEN "payment_method_required"
                                                          ELSE "confirm"]
       [] OTHER -> End(c)
  /\ UNCHANGED <<rows, stripe>>

\* A PaymentIntent that succeeds or is declined is announced by an event.
Announced(status) ==
  events \union CASE status = "succeeded" -> {"succeeded"}
                  [] status = "requires_payment_method" -> {"failed"}
                  [] OTHER -> {}

Replayed(c) == /\ intent.status # "none"
               /\ intent.amount = call[c].amount /\ intent.card = call[c].card

CreateIntent(c) ==
  /\ At(c, "create")
  /\ \/ /\ intent.status = "none"
        /\ \E answer \in Answers :
             /\ intent' = [status |-> answer, amount |-> call[c].amount,
                           card |-> call[c].card, answer |-> answer]
             /\ events' = Announced(answer)
             /\ call' = [call EXCEPT ![c].pc = "record", ![c].seen = answer]
     \/ /\ Replayed(c)
        /\ call' = [call EXCEPT ![c].pc = "record", ![c].seen = intent.answer]
        /\ UNCHANGED <<intent, events>>
     \/ /\ intent.status # "none" /\ ~Replayed(c)
        /\ End(c)
        /\ UNCHANGED <<intent, events>>
  /\ UNCHANGED <<rows, refund>>

\* Stripe confirms an intent that waits for a payment method, and answers any
\* other confirmation with an error that carries the intent.
ConfirmIntent(c) ==
  /\ At(c, "confirm")
  /\ IF intent.status \in {"requires_payment_method", "requires_action"}
       THEN \E answer \in Answers :
              /\ intent' = [intent EXCEPT !.status = answer]
              /\ events' = Announced(answer)
              /\ call' = [call EXCEPT ![c].pc = "record_confirm", ![c].seen = answer]
       ELSE /\ call' = [call EXCEPT ![c].pc = "record_error", ![c].seen = intent.status]
            /\ UNCHANGED <<intent, events>>
  /\ UNCHANGED <<rows, refund>>

MapStripeIntentStatus(status) ==
  CASE status \in {"succeeded", "processing"} -> "processing"
    [] status = "requires_payment_method" -> "failed"
    [] OTHER -> status

\* handleBookingIntent, success: only for the intent the booking remembers.
IntentTotalPriced == Total(booking)   \* mutant: the price of now, not what was paid

IntentTotal == booking.captured + intent.amount

SettlesUnpaid(b) ==   \* mutant: only a booking that waits for the intent
  b.payment = "processing" /\ b.intent /\ Creditable(b, "intent", IntentTotal)

Settles(b) == b.intent /\ Creditable(b, "intent", IntentTotal)

HandleSucceeded(b) ==
  /\ booking' = Paid(b, IntentTotal)
  /\ earning' = Credited(b, "intent", IntentTotal)
  /\ charge' = IF charge = "none" THEN "none" ELSE "succeeded"

\* The intent found succeeded by a later call.
ReconcileIntent(c) ==
  /\ At(c, "reconcile")
  /\ IF Settles(booking) THEN HandleSucceeded(booking)
                         ELSE UNCHANGED <<booking, earning, charge>>
  /\ End(c)
  /\ UNCHANGED <<underuse, cash, wallet, stripe>>

RecordCharge(c) ==
  LET recorded == [booking EXCEPT !.intent = TRUE,
                     !.payment = MapStripeIntentStatus(call[c].seen),
                     !.charged = IF call[c].seen = "processing" THEN 0 ELSE @]
  IN
  /\ At(c, "record")
  /\ CASE call[c].seen # "succeeded" ->
            /\ booking' = recorded
            /\ charge' = call[c].seen
            /\ UNCHANGED earning
       [] call[c].seen = "succeeded" /\ Settles(recorded) ->
            /\ booking' = Paid(recorded, IntentTotal)
            /\ earning' = Credited(booking, "intent", IntentTotal)
            /\ charge' = "succeeded"
       [] OTHER -> UNCHANGED <<booking, charge, earning>>
  /\ End(c)
  /\ UNCHANGED <<underuse, cash, wallet, stripe>>

\* Nothing here gives the booking the intent back that a retry made it forget.
RecordConfirm(c) ==
  /\ At(c, "record_confirm")
  /\ CASE call[c].seen # "succeeded" ->
            /\ booking' = [booking EXCEPT !.payment = MapStripeIntentStatus(call[c].seen)]
            /\ charge' = call[c].seen
            /\ UNCHANGED earning
       [] call[c].seen = "succeeded" /\ Settles(booking) -> HandleSucceeded(booking)
       [] OTHER -> UNCHANGED <<booking, charge, earning>>
  /\ End(c)
  /\ UNCHANGED <<underuse, cash, wallet, stripe>>

RecordError(c) ==
  /\ At(c, "record_error")
  /\ booking' = [booking EXCEPT !.payment = MapStripeIntentStatus(call[c].seen)]
  /\ charge' = call[c].seen
  /\ End(c)
  /\ UNCHANGED <<underuse, earning, cash, wallet, stripe>>

\* The process stops, or the request fails, before the next step.
CallInterrupted(c) ==
  /\ ~At(c, "idle")
  /\ End(c)
  /\ UNCHANGED <<rows, stripe>>

-----------------------------------------------------------------------------
(* Stripe, its webhook and the sweeps. *)

\* The card network answers, or the customer passes a challenge or pays with
\* the client secret the failed charge returned.
IntentSettles ==
  /\ intent.status \in {"processing", "requires_action", "requires_payment_method"}
  /\ \E status \in {"succeeded", "requires_payment_method"} :
       /\ intent' = [intent EXCEPT !.status = status]
       /\ events' = Announced(status)
  /\ UNCHANGED <<rows, refund, call>>

\* An event whose handler throws is redelivered: it stays.
EventSucceeded ==
  /\ "succeeded" \in events
  /\ Settles(booking)
  /\ HandleSucceeded(booking)
  /\ events' = events \ {"succeeded"}
  /\ UNCHANGED <<underuse, cash, wallet, intent, refund, call>>

\* The order of events is not that of what they tell of.
EventFailed ==
  /\ "failed" \in events
  /\ booking.intent
  /\ booking' = [booking EXCEPT !.payment = "failed"]
  /\ charge' = IF charge = "none" THEN "none" ELSE "failed"
  /\ events' = events \ {"failed"}
  /\ UNCHANGED <<underuse, earning, cash, wallet, intent, refund, call>>

\* mutant: the rail is the payment source of now, not that of the capture.
RefundRailBySource == booking.source = "wallet"

RefundRail == booking.capture = "stripe"

\* processUnusedPrepaymentRefund, up to Stripe's answer.  The key makes a
\* repeated request the same refund.
RequestUnusedRefund ==
  /\ underuse.status = "pending"
  /\ RefundRail
  /\ underuse.amount <= booking.captured
  /\ refund = "none"
  /\ refund' \in {"succeeded", "processing"}
  /\ UNCHANGED <<rows, intent, events, call>>

\* ... and the update that records it, by this request or by the next sweep.
RecordUnusedRefund ==
  /\ underuse.status = "pending"
  /\ refund # "none"
  /\ underuse' = [underuse EXCEPT !.status = refund]
  /\ UNCHANGED <<booking, charge, earning, cash, wallet, stripe, call>>

RefundSettles ==
  /\ refund = "processing"
  /\ refund' \in {"succeeded", "failed"}
  /\ events' = events \union {"refund"}
  /\ UNCHANGED <<rows, intent, call>>

\* An event for a refund whose identifier is not recorded yet is acknowledged.
EventRefund ==
  /\ "refund" \in events
  /\ underuse' = IF underuse.status = "pending" THEN underuse
                                                ELSE [underuse EXCEPT !.status = refund]
  /\ events' = events \ {"refund"}
  /\ UNCHANGED <<booking, charge, earning, cash, wallet, intent, refund, call>>

ReconcileOverCaptured ==
  /\ booking.status = "completed" /\ booking.payment = "paid" /\ booking.captured > 0
  /\ booking.charged > Total(booking)
  /\ underuse = NoUnderuse
  /\ RefundUnused(booking.charged - Total(booking))
  /\ booking' = [booking EXCEPT !.charged = Total(booking)]
  /\ earning' = IF earning = NoEarning THEN earning
                                       ELSE [earning EXCEPT !.gross = Total(booking)]
  /\ UNCHANGED <<charge, cash, stripe, call>>

-----------------------------------------------------------------------------

CallStep(c) ==
  \/ FinalizeRead(c) \/ WriteStatus(c) \/ PrepareCash(c)
  \/ SettleCapturedBooking(c) \/ SettleFromWallet(c)
  \/ StartCharge(c) \/ RetrieveIntent(c) \/ CreateIntent(c) \/ ConfirmIntent(c)
  \/ ReconcileIntent(c) \/ RecordCharge(c) \/ RecordConfirm(c) \/ RecordError(c)

Next ==
  \/ \E c \in Calls :
       \/ Complete(c) \/ RetryWithCard(c) \/ Retry(c)
       \/ ApproveDurationReview(c) \/ ReleaseDisputeHold(c)
       \/ CallStep(c) \/ CallInterrupted(c)
  \/ FileComplaint \/ CloseDispute \/ UpdateBilling \/ ConfirmCashCollection
  \/ IntentSettles \/ EventSucceeded \/ EventFailed
  \/ RequestUnusedRefund \/ RecordUnusedRefund \/ RefundSettles \/ EventRefund
  \/ ReconcileOverCaptured

\* Stripe redelivers an event until it is handled, and the refund sweep runs
\* again and again.  Nothing makes a person act or a call go on.
Fairness ==
  /\ WF_vars(EventSucceeded)
  /\ WF_vars(RequestUnusedRefund)
  /\ WF_vars(RecordUnusedRefund)

Spec == Init /\ [][Next]_vars /\ Fairness

-----------------------------------------------------------------------------
(* Properties. *)

Received == booking.captured + wallet.debit
              + (IF intent.status = "succeeded" THEN intent.amount ELSE 0)
Returned == underuse.amount

\* Rows, Stripe objects and calls have their types; a payment status is one the
\* code knows, whatever Stripe answered.
TypeOK ==
  /\ booking \in BookingRow
  /\ charge \in Answers \union {"none", "failed"}
  /\ underuse \in {NoUnderuse} \union
       [provider : {"stripe", "internal_wallet"}, amount : Nat \ {0},
        status : {"pending", "processing", "succeeded", "failed"}]
  /\ earning \in {NoEarning} \union
       [ref : {"acceptance", "wallet", "intent"}, net : Nat, gross : Nat \ {0}]
  /\ cash \in Nat
  /\ wallet \in [debit : Nat, credit : Nat]
  /\ intent \in {NoIntent} \union
       [status : Answers, amount : Nat \ {0}, card : Cards, answer : Answers]
  /\ refund \in {"none", "processing", "succeeded", "failed"}
  /\ events \subseteq {"succeeded", "failed", "refund"}
  /\ call \in [Calls -> [pc : Pcs, card : Cards \union {"none"},
                         amount : Int, total : Nat, seen : Answers \union {"none"}]]

\* A booking that reads as paid has its earning, of exactly the amount the
\* booking says was charged, whatever retries, events and sweeps did to it.
PaidSettled ==
  booking.payment = "paid" => /\ earning # NoEarning
                              /\ earning.gross = booking.charged

\* The Tasker's gross amount and what goes back to the customer together are
\* money that really came in, on whichever rail.
CreditBacked == earning # NoEarning => earning.gross + Returned <= Received

Promise == INSTANCE MoneyOnce WITH
  prepaid <- booking.captured,
  debited <- wallet.debit,
  charged <- IF intent.status = "succeeded" THEN intent.amount ELSE 0,
  credited <- earning.gross,
  returned <- Returned

\* FinalSettlement implements MoneyOnce.
MoneyMovesOnce == Promise!Spec

\* A final card charge that succeeds and that the booking still remembers ends
\* as an earning, however the call that made it ended.
ChargeEventsSettle ==
  (booking.intent /\ intent.status = "succeeded" /\ earning = NoEarning)
    ~> (earning # NoEarning \/ ~booking.intent)

\* Settled for less than acceptance captured.
Unused == earning.ref = "acceptance" /\ earning.gross < booking.captured

\* What a prepaid booking did not use, and what it was found to have paid too much
\* for, goes back to the wallet or is asked back from Stripe, unless it is owed by
\* card and Stripe can never be asked: the prepayment came from the wallet before a
\* retry by card, or it is less than what is owed.
UnusedReturned ==
  (Unused \/ underuse.status = "pending") ~>
    \/ wallet.credit > 0
    \/ refund # "none"
    \/ underuse.provider = "stripe" /\ booking.capture # "stripe"
    \/ underuse.amount > booking.captured

\* A retry settles the booking once the intent of its first, recorded attempt
\* succeeds.
RetrySettles ==
  (charge # "none" /\ intent.status = "succeeded") ~> (earning # NoEarning)

\* payments.service.ts:1201: the card refund of what was not used is "retried by the
\* acceptance-refund sweep until it succeeds".
UnusedRefundSucceeds == underuse.status = "pending" ~> refund # "none"
=============================================================================
