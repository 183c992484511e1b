------------------------- MODULE AcceptancePayment -------------------------
(***************************************************************************)
(* How the customer pays for one accepted booking, and how the money comes *)
(* back when the booking is cancelled: complete-payment calls of the       *)
(* customer, Stripe and its webhook, the expiry and refund sweeps, and the *)
(* cancelling handlers, all interleaved.                                   *)
(*                                                                         *)
(* completeAcceptancePayment is not a transaction, so a call is a process: *)
(* one action per database transaction or Stripe request, with what it has *)
(* read so far in call[c].  It may stop between any two of them.           *)
(***************************************************************************)
EXTENDS Integers, FiniteSets

CONSTANTS
  Calls,           \* complete-payment calls that can be under way at once
  Sources,         \* payment sources the customer asks for
  InitialSources,  \* Booking.paymentSource as booked ("unset" for null)
  Cards,           \* Stripe payment methods of the customer
  Amounts,         \* what the booking may cost, as tip and donation change
  Funds,           \* the customer's wallet balance before the booking
  MaxIntents       \* bound on the PaymentIntents created for the booking

ASSUME SourcesAssumption ==
  /\ Sources \subseteq {"stripe", "wallet", "cash"}
  /\ InitialSources \subseteq {"stripe", "wallet", "cash", "unset"}
ASSUME CallsAssumption == IsFiniteSet(Calls)
ASSUME AmountsAssumption ==
  /\ Amounts \subseteq Nat \ {0}
  /\ Funds \in Nat
  /\ MaxIntents \in Nat

VARIABLES
  booking,    \* the Booking row
  txn,        \* the PaymentTransaction row acceptance-capture:ID
  wallet,     \* ledger entries of this booking in the customer's wallet
  intents,    \* Stripe: PaymentIntents of the booking
  refunds,    \* Stripe: refunds, by idempotency key
  events,     \* Stripe: webhook events this backend has not processed yet
  call,       \* complete-payment calls
  sweep,      \* the awaiting-payment expiry sweep
  refunding   \* processAcceptanceRefund has Stripe's answer, not yet recorded

vars == <<booking, txn, wallet, intents, refunds, events, call, sweep, refunding>>

stripe == <<intents, refunds, events>>
sweeps == <<sweep, refunding>>

-----------------------------------------------------------------------------
(* Rows and Stripe objects. *)

Intents == 1 .. MaxIntents
NoRef == 0         \* no providerReference read or written
WalletRef == -1    \* the reference wallet:acceptance:ID, not a PaymentIntent
Refs == Intents \union {NoRef, WalletRef}

\* Intents are confirmed on creation: the two states that still wait for the
\* customer are a declined card and a 3DS challenge.
OpenIntent == {"requires_payment_method", "requires_action"}
Answers == OpenIntent \union {"processing", "succeeded"}
IntentStatuses == Answers \union {"canceled"}

BookingRow ==
  [status : {"pending", "awaiting_payment", "confirmed", "cancelled"},
   paymentSource : {"stripe", "wallet", "cash", "unset"},
   paymentStatus : {"payment_method_required", "ready", "refund_pending", "refunded",
                    "on_hold_dispute"},
   capturedAmount : {0} \union Amounts,    \* 0 for null
   estimate : Amounts,                     \* paymentEstimate.total
   pastDue : BOOLEAN,                      \* paymentDueAt <= now
   noShow : BOOLEAN]                       \* a customer_no_show complaint is filed

\* The row's updatedAt.  Versions are only compared with those that calls have
\* read and intents were created under, so one that none of these carries serves
\* again.  Two writes in one millisecond, which leave it as it was, are left out.
Versions == 1 .. Cardinality(Calls) + MaxIntents + 1

NoTxn == [provider |-> "none", ref |-> NoRef, status |-> "none", version |-> 0]

PaymentTransaction ==
  [provider : {"stripe", "internal_wallet"}, ref : Refs,
   status : IntentStatuses \union {"refunded"}, version : Versions]

\* An intent keeps the amount and the idempotency key it was created with (the
\* card and the version of the row, 0 for the key of the booking alone) and the
\* answer its creation got, which Stripe repeats to a request with that key.
PaymentIntent ==
  [status : IntentStatuses, amount : Amounts, card : Cards,
   answer : Answers, version : {0} \union Versions]

NoIntent == [status |-> "none"]

NoRefund == [intent |-> NoRef, amount |-> 0]

Pcs == {"idle", "attempt", "switch", "window", "cash", "wallet",
        "lookup", "retrieve", "confirm", "create", "record", "record_error",
        "mark", "marked"}

\* What a call knows: its request, the estimate of its first read, whether the
\* window was closed when it looked, the reference and status it last saw, and the
\* version of the row until it has decided whether to create an intent.
Idle ==
  [pc |-> "idle", source |-> "unset", card |-> "none", amount |-> 0,
   closed |-> FALSE, ref |-> NoRef, seen |-> "none", version |-> 0]

Balance == Funds - wallet.debit + wallet.credit

Init ==
  /\ \E source \in InitialSources, amount \in Amounts :
       booking = [status |-> "pending", paymentSource |-> source,
                  paymentStatus |-> IF source = "unset" THEN "payment_method_required"
                                                        ELSE "ready",
                  capturedAmount |-> 0, estimate |-> amount, pastDue |-> FALSE,
                  noShow |-> FALSE]
  /\ txn = NoTxn
  /\ wallet = [debit |-> 0, credit |-> 0]
  /\ intents = [i \in Intents |-> NoIntent]
  /\ refunds = [key \in {"cancel", "late"} |-> NoRefund]
  /\ events = {}
  /\ call = [c \in Calls |-> Idle]
  /\ sweep = [pc |-> "idle", ref |-> NoRef]
  /\ refunding = FALSE

-----------------------------------------------------------------------------
(* Stripe. *)

\* A PaymentIntent that succeeds or is declined is announced by an event.
Announced(i, status) ==
  events \union
    CASE status = "succeeded" -> {[intent |-> i, type |-> "succeeded"]}
      [] status = "requires_payment_method" -> {[intent |-> i, type |-> "failed"]}
      [] OTHER -> {}

\* The customer finishes the 3DS challenge, or the card network answers.
IntentSettles(i) ==
  /\ intents[i].status \in {"requires_action", "processing"}
  /\ \E answer \in {"succeeded", "requires_payment_method"} :
       /\ intents' = [intents EXCEPT ![i].status = answer]
       /\ events' = Announced(i, answer)
  /\ UNCHANGED <<booking, txn, wallet, refunds, call, sweeps>>

-----------------------------------------------------------------------------
(* The row acceptance-capture:ID and the capture. *)

Created == {i \in Intents : intents[i] # NoIntent}

VersionsInUse ==
  {call[c].version : c \in Calls} \union {intents[i].version : i \in Created}

\* Every write of the row moves its updatedAt.
NewVersion == CHOOSE version \in Versions \ VersionsInUse : TRUE

\* An upsert: the provider of an existing row stays.
Recorded(ref, status) ==
  [provider |-> IF txn = NoTxn THEN "stripe" ELSE txn.provider,
   ref |-> ref, status |-> status, version |-> NewVersion]

CapturedAnyStatus(amount) ==   \* mutant: the claim forgets the status
  [booking EXCEPT !.status = "confirmed", !.capturedAmount = amount,
                  !.paymentStatus = "ready"]

LandedOrProcessing(status) ==   \* mutant: processing counts as paid
  status \in {"succeeded", "processing"}

Landed(status) == status = "succeeded"

\* markAcceptanceCaptured: a conditional update of the booking.
Captured(amount) ==
  IF booking.status = "awaiting_payment" /\ booking.capturedAmount = 0
  THEN [booking EXCEPT !.status = "confirmed", !.capturedAmount = amount,
                       !.paymentStatus = "ready"]
  ELSE booking

-----------------------------------------------------------------------------
(* complete-payment. *)

Goes(c, pc) == call' = [call EXCEPT ![c].pc = pc]
Decides(c, pc) == call' = [call EXCEPT ![c].pc = pc, ![c].version = 0]
Ends(c) == call' = [call EXCEPT ![c] = Idle]

\* The unlocked read of the booking; what is read here is never read again.
StartPayment(c, source, card) ==
  /\ call[c].pc = "idle"
  /\ booking.status = "awaiting_payment"
  /\ call' = [call EXCEPT ![c] =
       [Idle EXCEPT
          !.pc = IF source = booking.paymentSource THEN "window" ELSE "attempt",
          !.source = source, !.card = card, !.amount = booking.estimate]]
  /\ UNCHANGED <<booking, txn, wallet, stripe, sweeps>>

\* A switch of the source is refused while a recorded attempt is in flight.
CheckAttempt(c) ==
  /\ call[c].pc = "attempt"
  /\ IF txn.status \in {"none", "requires_payment_method", "canceled"}
     THEN Goes(c, "switch")
     ELSE Ends(c)
  /\ UNCHANGED <<booking, txn, wallet, stripe, sweeps>>

\* The update has no condition on what the booking has become meanwhile.
SwitchSource(c) ==
  /\ call[c].pc = "switch"
  /\ booking' = [booking EXCEPT !.paymentSource = call[c].source,
                                !.paymentStatus = "ready"]
  /\ Goes(c, "window")
  /\ UNCHANGED <<txn, wallet, stripe, sweeps>>

\* Past the deadline only a card attempt that has already succeeded may land.
CheckWindow(c) ==
  /\ call[c].pc = "window"
  /\ CASE call[c].source = "stripe" ->
            call' = [call EXCEPT ![c].pc = "lookup", ![c].closed = booking.pastDue]
       [] call[c].source # "stripe" /\ ~booking.pastDue -> Goes(c, call[c].source)
       [] OTHER -> Ends(c)
  /\ UNCHANGED <<booking, txn, wallet, stripe, sweeps>>

ConfirmAcceptedCash(c) ==
  /\ call[c].pc = "cash"
  /\ IF booking.status = "awaiting_payment"
     THEN /\ booking' = [booking EXCEPT !.status = "confirmed",
                                        !.paymentSource = "cash",
                                        !.paymentStatus = "ready"]
          /\ Ends(c)
     ELSE /\ Ends(c)
          /\ UNCHANGED booking
  /\ UNCHANGED <<txn, wallet, stripe, sweeps>>

\* One transaction: debit, ledger entry, a new row acceptance-capture:ID (whose
\* unique key rolls everything back when a row exists) and the capture.
CaptureFromWallet(c) ==
  /\ call[c].pc = "wallet"
  /\ booking.capturedAmount = 0
  /\ booking.status = "awaiting_payment"
  /\ booking.paymentSource = "wallet"
  /\ Balance >= call[c].amount
  /\ txn = NoTxn
  /\ wallet' = [wallet EXCEPT !.debit = call[c].amount]
  /\ txn' = [provider |-> "internal_wallet", ref |-> WalletRef,
             status |-> "succeeded", version |-> NewVersion]
  /\ booking' = Captured(call[c].amount)
  /\ Ends(c)
  /\ UNCHANGED <<stripe, sweeps>>

WalletCaptureRefused(c) ==
  /\ call[c].pc = "wallet"
  /\ \/ booking.capturedAmount # 0
     \/ booking.status # "awaiting_payment"
     \/ booking.paymentSource # "wallet"
     \/ Balance < call[c].amount
     \/ txn # NoTxn
  /\ Ends(c)
  /\ UNCHANGED <<booking, txn, wallet, stripe, sweeps>>

\* Stripe knows no PaymentIntent by the reference of a wallet capture.
Lookup(c) ==
  /\ call[c].pc = "lookup"
  /\ CASE txn.ref = NoRef /\ ~call[c].closed -> Goes(c, "create")
       [] txn.ref \in Intents ->
            call' = [call EXCEPT ![c].pc = "retrieve", ![c].ref = txn.ref,
                                 ![c].version = txn.version]
       [] OTHER -> Ends(c)
  /\ UNCHANGED <<booking, txn, wallet, stripe, sweeps>>

Retrieve(c) ==
  /\ call[c].pc = "retrieve"
  /\ LET intent == intents[call[c].ref] IN
     IF Landed(intent.status)
     THEN Decides(c, "mark")
     ELSE IF \/ call[c].closed
             \/ intent.status = "processing"
             \/ intent.status = "requires_action" /\ intent.card = call[c].card
     THEN Ends(c)
     ELSE IF intent.status = "canceled" THEN Goes(c, "create")
                                        ELSE Decides(c, "confirm")
  /\ UNCHANGED <<booking, txn, wallet, stripe, sweeps>>

\* Confirming again an intent that has moved on is an error that carries it; a
\* repeated idempotency key gets an answer, taken to be the intent's status.
ConfirmIntent(c) ==
  /\ call[c].pc = "confirm"
  /\ LET i == call[c].ref IN
     IF intents[i].status \in OpenIntent
     THEN \E answer \in Answers :
            /\ intents' = [intents EXCEPT ![i].status = answer,
                                          ![i].card = call[c].card]
            /\ events' = Announced(i, answer)
            /\ call' = [call EXCEPT ![c].pc = "record", ![c].seen = answer]
     ELSE /\ \E pc \in {"record", "record_error"} :
               call' = [call EXCEPT ![c].pc = pc, ![c].seen = intents[i].status]
          /\ UNCHANGED <<intents, events>>
  /\ UNCHANGED <<booking, txn, wallet, refunds, sweeps>>

ReplaysNothing(c) == {}   \* mutant: requests without idempotency keys

\* Intents a creation's idempotency key has already created: without a row the
\* key is acceptance-capture:ID, for one that replaces a canceled intent it also
\* has the card and the version of the row this call read.
Replays(c) ==
  {i \in Created :
     /\ intents[i].version = call[c].version
     /\ call[c].version = 0 \/ intents[i].card = call[c].card}

CreateIntent(c) ==
  /\ call[c].pc = "create"
  /\ Replays(c) = {}
  /\ \E i \in Intents, answer \in Answers :
       /\ intents[i] = NoIntent
       /\ \A j \in 1 .. i - 1 : intents[j] # NoIntent
       /\ intents' = [intents EXCEPT ![i] =
            [status |-> answer, amount |-> call[c].amount, card |-> call[c].card,
             answer |-> answer, version |-> call[c].version]]
       /\ events' = Announced(i, answer)
       /\ call' = [call EXCEPT ![c].pc = "record", ![c].version = 0,
                                ![c].ref = i, ![c].seen = answer]
  /\ UNCHANGED <<booking, txn, wallet, refunds, sweeps>>

\* The same key with other parameters is refused.
CreateReplayed(c) ==
  /\ call[c].pc = "create"
  /\ \E i \in Replays(c) :
       IF intents[i].amount = call[c].amount /\ intents[i].card = call[c].card
       THEN call' = [call EXCEPT ![c].pc = "record", ![c].version = 0,
                                 ![c].ref = i, ![c].seen = intents[i].answer]
       ELSE Ends(c)
  /\ UNCHANGED <<booking, txn, wallet, stripe, sweeps>>

RecordAttempt(c) ==
  /\ call[c].pc \in {"record", "record_error"}
  /\ txn' = Recorded(call[c].ref, call[c].seen)
  /\ IF call[c].pc = "record" /\ Landed(call[c].seen)
     THEN Goes(c, "mark")
     ELSE Ends(c)
  /\ UNCHANGED <<booking, wallet, stripe, sweeps>>

\* Outside a transaction the two updates of markAcceptanceCaptured are two steps.
MarkCaptured(c) ==
  /\ call[c].pc = "mark"
  /\ booking' = Captured(call[c].amount)
  /\ Goes(c, "marked")
  /\ UNCHANGED <<txn, wallet, stripe, sweeps>>

RecordCaptured(c) ==
  /\ call[c].pc = "marked"
  /\ txn' = [txn EXCEPT !.ref = call[c].ref, !.status = "succeeded",
                         !.version = NewVersion]
  /\ Ends(c)
  /\ UNCHANGED <<booking, wallet, stripe, sweeps>>

\* The process dies, a request to Stripe times out, a check that changes nothing
\* (the card's owner, the Tasker's cash restriction) fails.
Abandon(c) ==
  /\ call[c].pc # "idle"
  /\ Ends(c)
  /\ UNCHANGED <<booking, txn, wallet, stripe, sweeps>>

-----------------------------------------------------------------------------
(* The Tasker, the customer's tip and donation, and time. *)

\* Cash, and a booking that was paid and then moved, need no payment.
TaskerConfirm ==
  /\ booking.status = "pending"
  /\ booking' =
       IF booking.paymentSource = "cash" \/ booking.capturedAmount # 0
       THEN [booking EXCEPT !.status = "confirmed"]
       ELSE [booking EXCEPT !.status = "awaiting_payment", !.pastDue = FALSE]
  /\ UNCHANGED <<txn, wallet, stripe, call, sweeps>>

\* Rescheduled or reassigned: to be accepted again, the payment as it is.
StartOver ==
  /\ booking.status = "confirmed"
  /\ booking' = [booking EXCEPT !.status = "pending"]
  /\ UNCHANGED <<txn, wallet, stripe, call, sweeps>>

\* Tip and donation move the estimate until something is captured.
UpdateBilling(amount) ==
  /\ booking.capturedAmount = 0
  /\ booking' = [booking EXCEPT !.estimate = amount]
  /\ UNCHANGED <<txn, wallet, stripe, call, sweeps>>

DeadlinePasses ==
  /\ booking.status = "awaiting_payment"
  /\ ~booking.pastDue
  /\ booking' = [booking EXCEPT !.pastDue = TRUE]
  /\ UNCHANGED <<txn, wallet, stripe, call, sweeps>>

-----------------------------------------------------------------------------
(* Webhook. *)

RefundableLateIfCaptured ==   \* mutant: the test of capturedAt inverted
  booking.status = "cancelled" /\ booking.capturedAmount # 0

RefundableLateAlways == booking.status = "cancelled"   \* mutant: paid or not

\* Paid after the booking was cancelled.
RefundableLate == booking.status = "cancelled" /\ booking.capturedAmount = 0

\* Stripe repeats the refund of a key for the same intent and refuses another.
LateRefund(i) ==
  /\ refunds["late"].intent \in {NoRef, i}
  /\ refunds' = [refunds EXCEPT !["late"] =
                   [intent |-> i, amount |-> intents[i].amount]]

\* handleAcceptanceIntent for a success, in a transaction with the row locked.
HandleSucceeded(i) ==
  IF RefundableLate
  THEN /\ LateRefund(i)
       /\ txn' = Recorded(i, "refunded")
       /\ UNCHANGED booking
  ELSE /\ booking' = Captured(intents[i].amount)
       /\ txn' = Recorded(i, "succeeded")
       /\ UNCHANGED refunds

\* An event is processed once: a redelivery finds its StripeWebhookEvent row.
\* Events may arrive in any order; a declined one carries its old status.
HandleStripeEvent(e) ==
  /\ e \in events
  /\ IF e.type = "succeeded"
     THEN HandleSucceeded(e.intent)
     ELSE /\ txn' = Recorded(e.intent, "requires_payment_method")
          /\ UNCHANGED <<booking, refunds>>
  /\ events' = events \ {e}
  /\ UNCHANGED <<wallet, intents, call, sweeps>>

\* The refund is made but the transaction does not commit; Stripe redelivers.
HandlerRolledBack(e) ==
  /\ e \in events
  /\ e.type = "succeeded"
  /\ RefundableLate
  /\ LateRefund(e.intent)
  /\ UNCHANGED <<booking, txn, wallet, intents, events, call, sweeps>>

-----------------------------------------------------------------------------
(* Cancelling and the refund of what was captured. *)

NothingEver == TRUE   \* mutant: the cancelling path does not refund

NothingToRefund ==
  \/ booking.capturedAmount = 0
  \/ booking.paymentStatus \in {"refunded", "refund_pending"}
  \/ booking.paymentSource = "wallet" /\ wallet.credit # 0

\* refundAcceptanceCaptureOnCancel, in the transaction that cancels.
RefundAcceptanceCaptureOnCancel(cancelled) ==
  IF NothingToRefund
  THEN booking' = cancelled /\ UNCHANGED wallet
  ELSE IF booking.paymentSource = "wallet"
  THEN /\ booking' = [cancelled EXCEPT !.paymentStatus = "refunded"]
       /\ wallet' = [wallet EXCEPT !.credit = booking.capturedAmount]
  ELSE /\ booking' = [cancelled EXCEPT !.paymentStatus = "refund_pending"]
       /\ UNCHANGED wallet

CancelFrom(statuses) ==
  /\ booking.status \in statuses
  /\ RefundAcceptanceCaptureOnCancel([booking EXCEPT !.status = "cancelled"])
  /\ UNCHANGED <<txn, stripe, call, sweeps>>

\* By the customer, the Tasker or an administrator.
Cancel == CancelFrom({"pending", "awaiting_payment", "confirmed"})

ExpirePending == CancelFrom({"pending"})

\* The Tasker has arrived and nobody is there: the complaint cancels the booking
\* and holds what was captured for an administrator; nothing goes back here.
CustomerNoShow ==
  /\ booking.status = "confirmed"
  /\ booking' = [booking EXCEPT
       !.status = "cancelled", !.noShow = TRUE,
       !.paymentStatus = IF @ = "refunded" THEN @ ELSE "on_hold_dispute"]
  /\ UNCHANGED <<txn, wallet, stripe, call, sweeps>>

\* The complaint is closed without a refund.
ReleaseDisputeHold ==
  /\ booking.paymentStatus = "on_hold_dispute"
  /\ booking' = [booking EXCEPT !.paymentStatus = "ready"]
  /\ UNCHANGED <<txn, wallet, stripe, call, sweeps>>

\* processAcceptanceRefund asks Stripe, which repeats the refund of a known key
\* and refuses more than the intent received.
RequestRefund ==
  /\ ~refunding
  /\ booking.paymentStatus = "refund_pending"
  /\ booking.capturedAmount # 0
  /\ txn.provider = "stripe"
  /\ txn.ref \in Intents
  /\ LET refund == [intent |-> txn.ref, amount |-> booking.capturedAmount] IN
       /\ refunds["cancel"] \in {NoRefund, refund}
       /\ intents[txn.ref].status = "succeeded"
       /\ refund.amount <= intents[txn.ref].amount
       /\ refunds' = [refunds EXCEPT !["cancel"] = refund]
  /\ refunding' = TRUE
  /\ UNCHANGED <<booking, txn, wallet, intents, events, call, sweep>>

RecordRefund ==
  /\ refunding
  /\ refunding' = FALSE
  /\ booking' = IF booking.paymentStatus = "refund_pending"
                THEN [booking EXCEPT !.paymentStatus = "refunded"] ELSE booking
  /\ UNCHANGED <<txn, wallet, stripe, call, sweep>>

RefundInterrupted ==
  /\ refunding
  /\ refunding' = FALSE
  /\ UNCHANGED <<booking, txn, wallet, stripe, call, sweep>>

-----------------------------------------------------------------------------
(* The sweep that cancels an accepted booking nobody paid for. *)

SweepAt(pc, ref) == sweep' = [pc |-> pc, ref |-> ref]

SweepPick ==
  /\ sweep.pc = "idle"
  /\ booking.status = "awaiting_payment"
  /\ booking.pastDue
  /\ SweepAt(IF booking.paymentSource = "stripe" THEN "settle" ELSE "expire", NoRef)
  /\ UNCHANGED <<booking, txn, wallet, stripe, call, refunding>>

\* Cancels the intent at Stripe unless it has moved on.
SweepSettle ==
  /\ sweep.pc = "settle"
  /\ IF txn.provider # "stripe"
     THEN SweepAt("expire", NoRef) /\ UNCHANGED intents
     ELSE LET status == intents[txn.ref].status IN
          CASE status \in OpenIntent ->
                 /\ intents' = [intents EXCEPT ![txn.ref].status = "canceled"]
                 /\ SweepAt("close", txn.ref)
            [] status = "canceled"   -> SweepAt("close", txn.ref) /\ UNCHANGED intents
            [] status = "succeeded"  -> SweepAt("capture", txn.ref) /\ UNCHANGED intents
            [] status = "processing" -> SweepAt("idle", NoRef) /\ UNCHANGED intents
  /\ UNCHANGED <<booking, txn, wallet, refunds, events, call, refunding>>

SweepCapture ==
  /\ sweep.pc = "capture"
  /\ HandleSucceeded(sweep.ref)
  /\ SweepAt("idle", NoRef)
  /\ UNCHANGED <<wallet, intents, events, call, refunding>>

SweepClose ==
  /\ sweep.pc = "close"
  /\ txn' = [txn EXCEPT !.status = "canceled", !.version = NewVersion]
  /\ SweepAt("expire", NoRef)
  /\ UNCHANGED <<booking, wallet, stripe, call, refunding>>

ExpiryDueUnattempted ==   \* mutant: an attempt on record keeps the booking
  /\ booking.status = "awaiting_payment"
  /\ booking.capturedAmount = 0
  /\ booking.pastDue
  /\ txn = NoTxn

ExpiryDue ==
  /\ booking.status = "awaiting_payment"
  /\ booking.capturedAmount = 0
  /\ booking.pastDue

\* Under the row lock; what it cancels has captured nothing.
SweepExpire ==
  /\ sweep.pc = "expire"
  /\ booking' =
       IF ExpiryDue
       THEN [booking EXCEPT !.status = "cancelled"] ELSE booking
  /\ SweepAt("idle", NoRef)
  /\ UNCHANGED <<txn, wallet, stripe, call, refunding>>

SweepInterrupted ==
  /\ sweep.pc # "idle"
  /\ SweepAt("idle", NoRef)
  /\ UNCHANGED <<booking, txn, wallet, stripe, call, refunding>>

-----------------------------------------------------------------------------

CompleteAcceptancePayment(c) ==
  \/ \E source \in Sources :
       \E card \in IF source = "stripe" THEN Cards ELSE {"none"} :
         StartPayment(c, source, card)
  \/ CheckAttempt(c)
  \/ SwitchSource(c)
  \/ CheckWindow(c)
  \/ ConfirmAcceptedCash(c)
  \/ CaptureFromWallet(c)
  \/ WalletCaptureRefused(c)
  \/ Lookup(c)
  \/ Retrieve(c)
  \/ ConfirmIntent(c)
  \/ CreateIntent(c)
  \/ CreateReplayed(c)
  \/ RecordAttempt(c)
  \/ MarkCaptured(c)
  \/ RecordCaptured(c)
  \/ Abandon(c)

AtStripe ==
  \/ \E i \in Intents : IntentSettles(i)
  \/ \E e \in events : HandleStripeEvent(e) \/ HandlerRolledBack(e)

Users ==
  \/ TaskerConfirm
  \/ StartOver
  \/ \E amount \in Amounts : UpdateBilling(amount)
  \/ Cancel
  \/ CustomerNoShow
  \/ ReleaseDisputeHold

Scheduled ==
  \/ DeadlinePasses
  \/ ExpirePending
  \/ RequestRefund
  \/ RecordRefund
  \/ RefundInterrupted
  \/ SweepPick
  \/ SweepSettle
  \/ SweepCapture
  \/ SweepClose
  \/ SweepExpire
  \/ SweepInterrupted

Next ==
  \/ \E c \in Calls : CompleteAcceptancePayment(c)
  \/ AtStripe
  \/ Users
  \/ Scheduled

Spec == Init /\ [][Next]_vars

\* Time goes on, both sweeps run again and again and are not interrupted at the
\* same place for ever, the card network answers and Stripe redelivers an event
\* until it is processed.  Customers and Taskers owe nothing.
Fairness ==
  /\ WF_vars(DeadlinePasses)
  /\ WF_vars(RequestRefund) /\ SF_vars(RecordRefund)
  /\ WF_vars(SweepPick) /\ SF_vars(SweepSettle)
  /\ SF_vars(SweepCapture \/ SweepClose) /\ SF_vars(SweepExpire)
  /\ \A i \in Intents :
       /\ WF_vars(IntentSettles(i) /\ intents[i].status = "processing")
       /\ \A type \in {"succeeded", "failed"} :
            WF_vars(HandleStripeEvent([intent |-> i, type |-> type]))

FairSpec == Spec /\ Fairness

-----------------------------------------------------------------------------
(* Properties. *)

CallRecord ==
  [pc : Pcs, source : Sources \union {"unset"}, card : Cards \union {"none"},
   amount : {0} \union Amounts, closed : BOOLEAN, ref : {NoRef} \union Intents,
   seen : {"none"} \union IntentStatuses, version : {0} \union Versions]

\* The rows, Stripe's objects and the calls under way have their types.
TypeOK ==
  /\ booking \in BookingRow
  /\ txn \in PaymentTransaction \union {NoTxn}
  /\ wallet \in [debit : {0} \union Amounts, credit : {0} \union Amounts]
  /\ intents \in [Intents -> PaymentIntent \union {NoIntent}]
  /\ refunds \in [{"cancel", "late"} ->
                    [intent : {NoRef} \union Intents, amount : {0} \union Amounts]]
  /\ events \subseteq [intent : Intents, type : {"succeeded", "failed"}]
  /\ call \in [Calls -> CallRecord]
  /\ sweep \in [pc : {"idle", "settle", "capture", "close", "expire"},
                ref : {NoRef} \union Intents]
  /\ refunding \in BOOLEAN

Charged == {i \in Intents : intents[i].status = "succeeded"}

\* A booking counts as captured only for money that has moved: the wallet was
\* debited by exactly that amount or an intent succeeded, whatever webhooks,
\* sweeps and retries did in between.
CaptureBacked ==
  booking.capturedAmount # 0 =>
    wallet.debit = booking.capturedAmount \/ Charged # {}

\* Money goes back only for a cancelled booking and along one of the three
\* ways back: the wallet credit, the card refund, the late-payment refund.
RefundedOneWay ==
  LET used == (IF wallet.credit # 0 THEN {"wallet"} ELSE {}) \union
              {key \in {"cancel", "late"} : refunds[key] # NoRefund}
  IN  /\ Cardinality(used) <= 1
      /\ used # {} => booking.status = "cancelled"

Returned == wallet.credit + refunds["cancel"].amount + refunds["late"].amount

\* What the booking records as captured is what one payment took.
CaptureExact ==
  booking.capturedAmount # 0 =>
    \/ wallet.debit = booking.capturedAmount
    \/ \E i \in Charged : intents[i].amount = booking.capturedAmount

\* The customer never gets back more, over both rails together, than one payment
\* took: the debit of the wallet or the charge of one intent, whatever tip and
\* donation did to the price between two attempts.  The exception is a credit of
\* the wallet for a capture recorded with an amount nothing was charged with.
RefundsCovered ==
  (wallet.credit # 0 => CaptureExact) =>
    Returned <= wallet.debit \/ \E i \in Charged : Returned <= intents[i].amount

\* However many calls are clicked, retried and stopped with whatever cards, the
\* booking has one PaymentIntent, unless the expiry sweep canceled one at Stripe
\* and it had to be replaced.
OneIntent ==
  (\A i \in Created : intents[i].status # "canceled") => Cardinality(Created) <= 1

\* No late answer brings a cancelled booking back or captures a second time.
NoRevival ==
  [][/\ booking.status = "cancelled" => booking'.status = "cancelled"
     /\ booking.capturedAmount # 0 =>
          booking'.capturedAmount = booking.capturedAmount]_vars

\* An accepted booking is paid or cancelled in the end.
PaymentWaitEnds ==
  booking.status = "awaiting_payment" ~> booking.status # "awaiting_payment"

\* The row names a charge that holds what was captured by card.
CardRefundable ==
  /\ txn.provider = "stripe"
  /\ txn.ref \in Charged
  /\ booking.capturedAmount <= intents[txn.ref].amount

\* What was captured for a booking that is cancelled comes back, to the wallet or
\* the card, and the booking says so.  Not so after a customer no-show, and for two
\* faults of the code: a switch of the source decided before the capture and written
\* after it loses the mark of the refund, and for a card capture the refund asks for
\* the intent the row names, which a late event or call may have replaced by
\* another, or for more than that intent received.
CapturedMoneyReturned ==
  [](\A c \in Calls : call[c].pc = "switch" => booking.status = "awaiting_payment")
    => ((booking.status = "cancelled" /\ booking.capturedAmount # 0 /\ ~booking.noShow)
         ~> \/ /\ wallet.credit + refunds["cancel"].amount = booking.capturedAmount
               /\ booking.paymentStatus = "refunded"
            \/ wallet.debit = 0 /\ ~CardRefundable)

\* A card payment whose success is delivered to a cancelled booking that was not
\* paid comes back, unless a second intent was charged too: the late refunds of a
\* booking share one idempotency key.
LateMoneyReturned ==
  \A i \in Intents :
    (/\ booking.status = "cancelled" /\ booking.capturedAmount = 0
     /\ [intent |-> i, type |-> "succeeded"] \in events)
      ~> refunds["late"].intent = i \/ Charged # {i}

\* payments.service.ts:640: "so money can't move on two rails".
OneRail == wallet.debit # 0 => Charged = {}

\* payments.service.ts:839: on a cancellation the card payment is "marked
\* refund_pending here, then refunded via Stripe by processAcceptanceRefund()
\* after commit (and retried by the sweep)".
RefundPendingKept ==
  [][booking.paymentStatus = "refund_pending" =>
       booking'.paymentStatus \in {"refund_pending", "refunded"}]_vars

\* payments.service.ts:656: "Charge exactly what the booking shows".  What the
\* booking records as captured by card is what the card was charged.
CapturedIsCharged ==
  booking.capturedAmount # 0 /\ wallet.debit = 0 =>
    \E i \in Charged : intents[i].amount = booking.capturedAmount

\* payments.service.ts:691: "One PaymentIntent per booking", so one charge.
OneCardCharge == Cardinality(Charged) <= 1

\* payments.service.ts:832: "Every cancellation path (customer, Tasker, admin)
\* calls this inside its cancellation transaction".
EveryCancellationRefunds ==
  [][booking.status # "cancelled" /\ booking'.status = "cancelled"
       /\ booking.capturedAmount # 0 =>
         booking'.paymentStatus \in {"refunded", "refund_pending"}]_vars
=============================================================================
