# Latache backend: specifications, model checks and proofs

TLA+ models of the Latache backend (NestJS, Prisma on PostgreSQL, Stripe, BullMQ
on Redis), the TLC configurations that check them and theorems checked by TLAPS.
`PROJECT.json` maps every definition to the lines it stands for and lists the
hazards. Paths below are relative to `src/src/modules/` unless they begin with
`docs/` or `prisma/`.

| module | models | run | theorems in |
|---|---|---|---|
| `BookingSlots` | availability slots and the bookings that hold them | `slots_contested`, `slots_waits` | `BookingSlotsProofs` |
| `AcceptancePayment` | paying for one accepted booking, and its refund | `accept_race`, `accept_retry`, `accept_live` | `AcceptancePaymentProofs` |
| `BookingWork` | codes, proofs and timer between arrival and completion | `work` | `BookingWorkProofs` |
| `FinalSettlement`, implementing `MoneyOnce` | charging and crediting a completed booking | `settle` | `FinalSettlementProofs` |
| `DisputeRefund` | complaints, refunds, chargebacks, the held earning | `disputes` | `DisputeRefundProofs` |
| `TaskerLedger` | a Tasker's balances, commission debt, settlements, withdrawals | `ledger` | `TaskerLedgerProofs` |
| `ReferralRewards` | referral discounts and bonuses | `referrals` | `ReferralRewardsProofs` |
| `RealtimeOutbox`, implementing `AtLeastOnce` | the transactional outbox and its dispatchers | `outbox` | `RealtimeProofs` |
| `RealtimeCalls`, composed with `AtLeastOnce` in `CallEvents` | voice and video calls and what their parties are told | `calls` | `RealtimeProofs` |

Each `MC...` module is the finite instance of the module it extends. `Sums` adds up amounts over
the rows of a table, for `DisputeRefund` and `TaskerLedger`.

## 1. Inventory

### Components, their state and their operations

| component | state | operations | hard behaviour | what makes it correct | status |
|---|---|---|---|---|---|
| Booking reservation (`bookings/bookings.service.ts`, `bookings.repository.ts`, `tasker-dashboard/services/tasker-profile.service.ts`, `admin-dashboard/services/admin-bookings.service.ts`) | `UserAvailability`, `Booking`, `RescheduleProposal` | list and delete slots, book (listed or custom time), reschedule, propose and answer, reassign, confirm, visit steps, cancel, two expiry sweeps | concurrent requests for one slot, release by id, deletion outside a transaction, windows | a slot has one holder, no held slot on offer, no leaked slot, no overlap, waits end | partly |
| Acceptance payment (`payments/payments.service.ts` 608-976) | payment columns, `PaymentTransaction`, wallet ledger, Stripe's intents and refunds | complete-payment on card, wallet, cash; webhook; expiry and refund sweeps; refund on cancellation; tip and donation | no transaction around Stripe; retries; late webhooks; crash between charge and record | captures are backed, one intent at a time, money of cancelled bookings returns once | partly |
| Work verification and timers (`bookings/booking-work-verification.service.ts`, `tasker-dashboard/services/tasker-tasks.service.ts`) | codes and attempts, proofs, work session, extension requests | proof, issue code, start, pause, resume, stop, finish, submit, approve, extend | code reissue against attempts, timer against proof, approval that never comes | the timer bills what was worked, dead codes stay dead, no completion over a dispute | modelled |
| Final settlement (`payments.service.ts` 998-1509, 2784-3281) | charge, payment status, intent, earning | finalise on three rails, retry, unused prepayment, reconcile | crash after completion, duplicate events, retry of a paid booking | money is taken once per rail and credited once | modelled |
| Disputes (`disputes`, `admin-disputes.service.ts`, `payments.service.ts` 1511-2252) | complaints, resolutions, refunds, hold | file, withdraw, appeal, reopen, propose, resolve, refund, chargeback | answers of Stripe late, lost or reordered; clearance worker | no more than the charge goes back; held money stays held | partly |
| Tasker earnings, receivables, withdrawals (`tasker-finance`, `tasker-wallet.service.ts`, `admin-finance.service.ts`) | wallet, account, earnings, receivables, settlements, payouts | release, offset, claw back, settle by four methods, restrict, withdraw | allocation against reversal, card payment against cancellation | the ledger balances, to the unit | partly |
| Referrals (`referrals`) | referral, reservation, rewards | claim, reserve, qualify, release, expire, revoke | parallel charges for one discount; worker against refund | one discount; a revoked referral keeps nothing; a bonus goes with the money that earned it | partly |
| Realtime outbox and dispatcher (`realtime/realtime-outbox.service.ts`, `realtime-dispatcher.service.ts`) | event rows with leases | enqueue, claim, emit, mark, clean | several dispatchers, crash after emission | delivered at least once, more often only after trouble | modelled |
| Calls (`realtime/realtime-calls.service.ts`) | call rows | ring, answer, reject, cancel, end, time out | two calls at once, answer against withdrawal, reassignment | nobody in two calls; every call ends and its parties learn of it | modelled |
| Customer wallet, custom time requests, authentication, plans, Elite, deletion, uploads, notifications, support, conversations, search, settings, content | see section 12 | | | | not modelled |

### How they interact

HTTP handlers run concurrently in any number of API processes; scheduled jobs
run in a worker (`src/src/infrastructure/jobs/performance-jobs.service.ts`). They
share nothing but PostgreSQL and Stripe. Three disciplines are used side by side:

- *Transaction with a row lock*: `SELECT ... FOR UPDATE` on the booking, wallet, complaint or
  referral, then a fresh read. Such a handler is one action. Booking itself locks both users.
- *Conditional update* without a lock (`updateMany` with the expected status):
  `claimSlot`, `markAcceptanceCaptured`, `confirmAcceptedCashBooking`, everything about calls.
  One action, with its failing branch.
- *Neither*: `completeAcceptancePayment`, `finalizeCompletedBooking`, `issueDisputeRefund`,
  the card settlement of the payable, `deleteAvailability`, the refund sweeps read, call
  Stripe or another statement and write. Each is several actions with a program
  counter, and everything else may happen in between.

Stripe answers synchronously and announces the same facts again by webhook, at
least once and in any order. Notifications and realtime events are rows written
in the transaction of the change they tell of; they carry no state back.

A booking passes through the modules in this order: `BookingSlots` (reservation,
every status) and `AcceptancePayment` (its money until it is confirmed),
`BookingWork` (arrival to completion), `FinalSettlement` (the charge and the earning),
`DisputeRefund` (what goes back) with `TaskerLedger` (the Tasker's books) and
`ReferralRewards` (what the payment earns others). Each has of its neighbours what
its guards read, and leaves their steps free: `FinalSettlement` starts with a
completed booking and any captured amount, `DisputeRefund` with a paid
one, with or without a refund of its unused part, `TaskerLedger` claws an earning
back whenever a refund could, `ReferralRewards` writes the booking columns that its
transactions read. Over-approximating a neighbour is sound for safety: the product
of the modules has fewer behaviours, not more. Two compositions are explicit
refinements (`MoneyOnce`, `AtLeastOnce`), and `CallEvents` composes the calls with
the promise that `RealtimeOutbox` is shown to keep.

### Hazards

`PROJECT.json` lists them with their lines and the properties that would catch them.
The patterns behind most of them: a booking moves back to `pending` (reschedule,
reassignment) while facts of its first life (creation time, captured money, slot,
intent) stay; a handler that waits for Stripe acts on a row it read before; an
event that is late overwrites what came after it; amounts that were partly refunded,
reversed or settled are counted again by the next operation.

## 2. `BookingSlots`

One row of `UserAvailability` is `slot[s]`, one of `Booking` is `booking[b]`; a
row that does not exist yet has the status `"none"`, one deleted by a cascade
`"gone"`. `Times` are wall-clock ranges on one day, `now` a clock in ticks. The
history variables `moved`, `reassigned`, `strayed` and `pendingSince` only serve
properties; no guard reads them.

| action | code |
|---|---|
| `AddAvailability` | `tasker-profile.service.ts` `addAvailability` |
| `CheckDeletable`, `DeleteChecked`, `DeleteFails` | `deleteAvailability`, its reads and its delete apart; the foreign key of a booking cascades, those of payments and work proofs restrict |
| `BookListed`, `BookCustom` | `book` with and without a custom time request |
| `Reschedule`, `AcceptRescheduleProposal` (both `MoveTo`), `CreateRescheduleProposal`, `RejectRescheduleProposal` | the handlers of these names |
| `Reassign` | the administrator's `reassign`, with the new Tasker's calendar unchecked and `availabilityId` unchanged, as in the code |
| `Confirm`, `CompletePayment`, `StartNavigation`, `Arrive`, `StartWork`, `FinishWork` | acceptance and the visit, as far as they change the status |
| `CancelCustomer`, `CancelTasker`, `CancelAdmin`, `CustomerNoShow`, `ExpirePending`, `ExpireAwaitingPayment` | every path that releases a slot |

Abstractions. Pricing, services, addresses and notifications are left out. A
date with a time is one range. Whether an accepted booking needs payment (cash
or online) is a free choice while nothing is captured; `AcceptancePayment` has the
detail. The legacy status `awaiting_customer_approval` is not reachable for a
booking made by this code (`workVerificationRequired` is set by `book`). A batch of a
sweep is its single-row transactions, and the candidate query, which the
transaction of `expireOnePendingBooking` does not repeat in full, is the guard.
`addAvailability` is atomic although its lock is empty for a Tasker without
slots.

### Properties and runs

- `slots_contested` (two bookings, three slots, one Tasker, three ranges of which two
  overlap): `SlotExclusive`, `OpenSlotUnheld`, `NoLeakedSlot`, `CalendarSafe`.
  Two bookings and three slots are what a chain needs in which one booking
  moves away, the other takes its place, and a third slot is the target; windows
  of 0 let every sweep fire at any moment. `SlotExclusive` and `OpenSlotUnheld` except
  the slots in `strayed`: a reassignment frees the slot of a booking that keeps
  pointing at it, so after one both are false of that slot by design of the code.
  Identities are interchangeable, so symmetry is used; `Reassign` needs a second
  Tasker and `Tick` a second instant, both are in the next run.
- `slots_waits` (one booking, two slots, two Taskers, a clock up to 3, no symmetry):
  `WaitsEnd` under `FairSpec`. Fairness: the clock advances and each expiry
  transaction, if due, runs in the end, which is what the scheduler's repeated jobs
  give; users owe nothing. `MaxNow` cuts the clock, and the property speaks only of
  windows that end before it.
- False of the code and in no run: `MoveLandsOnFreeTime` (`bookings.service.ts:3250`
  says an open slot does not prove the Tasker free; `reschedule` claims one without that
  test and lands on a custom booking). Also in no run: the expiry sweep measures a booking's
  window from `createdAt`, so one rescheduled late is cancelled at once, where
  `docs/booking-pending-expiration.md:17` measures the time it stays pending.

### Proofs

`BookingSlotsProofs` proves for every `Bookings`, `Slots`, `Taskers`, `Times` and every
window, finite or not, from `TimesAssumption` and `WindowAssumption` alone:
`TypeCorrect`, `SlotsExclusive`, `OpenSlotsUnheld`, `NoSlotLeaks` and `CalendarsSafe`.

`SlotExclusive` is not inductive: nothing in it keeps a held slot off the market, so a
claim could add a second holder. `Reserved == SlotExclusive /\ OpenSlotUnheld` is: a claim
needs an open slot, which by the second part has no holder (`ClaimReserved`), and a
release by id frees the slot of a booking that, by the first part, was its
only holder (`KeepReserved`). `NoLeakedSlot` is inductive with the types: what takes a
slot holds it, and the only booking that leaves a slot releases it
(`ReleaseNoLeak`). `CalendarSafe` is inductive because only creation makes an
unmoved booking live, and it tests the calendar (`CreationCalendar`). Each proof has
one lemma per group of `Next`, one step per action, and one `PTL` step at the end.

## 3. `AcceptancePayment`

One booking, one customer, any number of concurrent `complete-payment` calls.
`completeAcceptancePayment` is cut where another transaction or Stripe may come in
between; `call[c].pc` says where a call stands and the record what it has read:

```
StartPayment -> [CheckAttempt -> SwitchSource] -> CheckWindow
   cash:   ConfirmAcceptedCash
   wallet: CaptureFromWallet | WalletCaptureRefused
   card:   Lookup -> Retrieve -> ConfirmIntent | CreateIntent | CreateReplayed
                  -> RecordAttempt -> MarkCaptured -> RecordCaptured
Abandon at every point: crash, timeout, failed check
```

`HandleStripeEvent` is the webhook transaction, `HandlerRolledBack` one whose refund
reached Stripe and whose transaction failed. `SweepPick`, `SweepSettle`,
`SweepCapture`, `SweepClose`, `SweepExpire` are `expireDueAwaitingPaymentBookings` with
`settleAcceptancePaymentBeforeExpiry`. `RequestRefund`, `RecordRefund`, `RefundInterrupted` are
`processAcceptanceRefund`. `Cancel` and `ExpirePending` carry
`refundAcceptanceCaptureOnCancel` in their transaction. `TaskerConfirm`, `StartOver`
(reschedule or reassignment) and `UpdateBilling` are the other handlers that touch
the rows.

Stripe is external and modelled by what the code relies on: an intent is charged
at most once, keeps its amount, is confirmed when created, may ask for a 3DS challenge, be
declined, stay processing; a request repeated with its idempotency key gets the
first answer, with other parameters an error; a refund never exceeds the intent; events are
delivered at least once in any order, and the `StripeWebhookEvent` row drops the
duplicates.

`CustomerNoShow` is the complaint with which the Tasker cancels a visit nobody opened the door for: it
puts the captured money on hold and, unlike every other cancellation, does not call
`refundAcceptanceCaptureOnCancel`. `ReleaseDisputeHold` ends the hold without a refund; what an
administrator decides to return is in `DisputeRefund`.

Idempotency keys. The creation of the first intent has the key of the booking. The creation of a replacement
(`payments.service.ts:696`, `:716`) has a key made of the card and the row's `updatedAt`, which every
write of the row moves. The row, the intents and the calls therefore carry a version: each write
of the row takes one that nobody has seen (`NewVersion`), a call keeps the version it read, an intent the
one it was created under, and `Replays` compares both version and card. Versions are only compared, so
a finite set suffices: one more than there are calls and intents to remember one.

Abstractions. The deadline is the flag `pastDue`, which passes at any moment after
acceptance. Two writes of the row in one millisecond, which leave `updatedAt` as it was, are left out. The reads of
`processAcceptanceRefund` and of the sweep's settle step are merged with the Stripe request after them, one refund
process and one sweep run at a time (the job's lock). A cancel at Stripe that loses
to a success is the branch of the status it then finds. Statuses after `confirmed`
are not distinguished from it: the cancellations they allow are `Cancel`, with the refund, and
`CustomerNoShow`, without. Amounts are small numbers, cents and currencies do not matter.

### Properties and runs

- `accept_race` (two calls, card and wallet, two cards, two prices, one intent): `CaptureBacked`,
  `RefundedOneWay`, `RefundsCovered`. Two calls are enough for every race between a call's
  stale read and another call; the sweeps, the webhook, tip changes, cancellations and the no-show
  interleave freely with both. `RefundsCovered` bounds everything returned, on both rails together, by one debit or
  one charged intent, at changing prices. It has one exception, a credit of the wallet for a capture
  recorded with an amount nobody was charged: an intent charged at one price, recorded by a retry at another
  (see `CapturedIsCharged` below) and, after a late switch of the source, credited at the recorded one. Without the
  exception the property is false of the code.
- `accept_retry` (two calls at once, one of them perhaps in cash, one card, two intents): `OneIntent`,
  `NoRevival`. `OneIntent` is the double click and the retry: as long as no intent was canceled there is
  one, though both calls read, create, confirm and record at the same time, and each write moves the version the
  other's key is made of. Only the expiry sweep cancels intents; what happens after that is `OneCardCharge` below.
- `accept_live` (one call after another, card and wallet, one card, two intents): `PaymentWaitEnds`,
  `CapturedMoneyReturned`, `LateMoneyReturned` under `FairSpec`. Two intents and the wallet let a late event, a
  late call or a switch of the source replace the row's reference and provider. Weak fairness for time, for
  picking a due booking, for a refund request and for the card network's answer; strong
  fairness for the later steps of the sweeps and for an event's handler, because each can be
  interrupted and is tried again: the job runs every minute and Stripe redelivers. Customers,
  Taskers and 3DS challenges owe nothing. `CapturedMoneyReturned` states its three exceptions: a no-show, which
  the code leaves to an administrator; a source switch decided before the capture and written after it (`:647`),
  which loses the mark of the refund; and a row that a late `payment_failed` event (`:810`) or a late call has
  pointed at an intent that does not hold the money, so that Stripe refuses the refund for ever. Without either
  of the last two TLC finds a counterexample in this run. `LateMoneyReturned` starts where the success reaches a booking
  that is already cancelled. A card payment that succeeds while the booking is being confirmed in cash, and is
  handled before it is cancelled, is neither captured nor returned (`markAcceptanceCaptured` captures nothing
  and `:820` sees no cancellation).

False of the code and in no run; naming one in `AcceptRace.cfg` (`OneCardCharge`: in `AcceptRetry.cfg`, with three intents) shows it:

| statement | quoted from | why it fails |
|---|---|---|
| `OneRail` | `payments.service.ts:640` "so money can't move on two rails" | the attempt is recorded only after Stripe has answered, so a call that stops before lets the switch to the wallet through |
| `OneCardCharge` | `:691` "One PaymentIntent per booking" | the expiry sweep cancels the intent and writes the row between the reads of two calls: their replacement keys differ and both intents are charged |
| `CapturedIsCharged` | `:656` "Charge exactly what the booking shows" | a re-confirmed intent keeps its old amount and the booking records the new one |
| `RefundPendingKept` | `:839` a marked refund is retried by the sweep | a stale source switch, `:647`, overwrites the mark |
| `EveryCancellationRefunds` | `:832` "Every cancellation path" calls the refund | the no-show (`bookings.service.ts:2297`) does not; `bookings/participant-disputes.controller.ts:72` documents the hold |

Bounds: `MaxIntents` caps the intents of a booking, `Calls` the calls under way. No run
bounds the number of retries, events, sweeps or cancellations in a behaviour.

The first two runs use symmetry and a view (`MCAcceptancePayment`), which forgets what no later step and no property
reads: fields of a call that it is past, the answer of a creation whose key nobody can repeat, the
names of the versions (a version is replaced by the set of calls and intents that hold it), and of a cancelled
booking what only payments read. That it is exact was checked by counting: in three instances small enough to run without
it, the distinct views among all reachable states are as many as the states found with it (153616,
96405 and 94237). `accept_live` uses neither.

### Proofs

`AcceptancePaymentProofs` proves `TypeCorrect`, `CapturesBacked`, `NoRevivals`, `RefundsGoOneWay`, `OneIntentOnly`,
`NeverMoreThanTaken`, `CardRefundsAreCovered` and `CreditsAreCaptures` for any
sets of calls, sources, cards and amounts, any wallet
balance and any number of intents, from `SourcesAssumption`, `AmountsAssumption` and `CallsAssumption` (finitely many
calls, so that a version nobody holds exists: `NewVersionIsFree`). No theorem has a hypothesis of its own: cards and
prices vary as they do in the code.

`TypeOK` is not inductive: a call that confirms or records writes with the reference it
read earlier, which must be an intent that exists. `CaptureBacked` is not inductive either: a
call at `mark` captures on the strength of an answer it got before other calls, events and
sweeps ran. `Inv` adds to both what every holder of a reference knows of it (`Knowledge`):
the row names a known intent (`RowKnows`), an event of a success and a sweep that is about
to capture name a paid one (`EventsKnow`, `SweepKnows`), and so does a call that is
about to mark (`CallsKnow`); a creation replayed with its key repeats a success only
of an intent that is paid (`AnswersStand`). The argument is that knowledge is monotone:
`Advances` (intents do not vanish, success is final, the row stays) holds of every
step, and under it `KnowsStays` carries the knowledge of every call that the step does not
touch. `RowStep`, `BookingStep`, `StripeStep` and `CallStep` reduce an action to
what it writes; then there is one lemma per action or group of alike actions.
`NoRevivals` needs the types and the conditional update of `Captured` (`CapturedKeeps`).
`RefundsGoOneWay` rests on `Ways`: each way back is open only in a booking of its kind (a late
refund where nothing was captured, a credit where no refund is marked), and once it is cancelled
the kind no longer changes. `OneIntentOnly` rests on `Keys`: while no intent is canceled, the one there is was
created under the key of the booking (`Lone`), and a call takes the version of a row into a creation only if an
intent is canceled (`Decided`). So a creation is the first one or repeats it, whatever versions the
row has gone through (`CreationIsFirst`), and a canceled intent stays so (`CanceledStays`).
`NeverMoreThanTaken` joins the one way back, what it carries, and that a refund stays covered when intents and
wallet move on (`ReturnedIsCovered`, `WalletMoves`).

## 4. `BookingWork`

One booking from arrival on, in one of two flows: with work verification
(`required`, every booking this code makes) and without (the legacy flow). The
record `booking` has the columns that count (status, proof and completion times, the two
codes), `session` is the `TaskWorkSession` row, `request` an extension request,
`dispute` the complaint. Times are ticks; `worked` counts those during which the
timer ran and `issued` numbers the codes, both for properties only.

| action | code |
|---|---|
| `AttachFrontDoor`, `AttachCompletion` | the proof photos of `booking-work-verification.service.ts`; the second stops the timer in its transaction |
| `IssueStartCode`, `IssueCompletionCode` | a new code with its expiry, attempts back to 0 |
| `GuessStartCode`, `StartWork`, `GuessCompletionCode`, `FinishWork` | `startWork` and `finishWork` with a wrong and the right code; the attempt is committed before the request fails |
| `StartTimer`, `PauseTimer`, `ResumeTimer`, `StopTimer` | the timer of `tasker-tasks.service.ts`, which looks at the session alone |
| `Submit`, `CompleteByCustomer`, `AutoApproveOne` | legacy submission, the customer's completion, the sweep |
| `FileComplaint`, `CloseDispute`, `ReleaseHold`, `CustomerNoShow`, `Cancel` | what cuts in |
| `RespondExtensionRequest`, `CancelExtensionRequest` | answers to a request made before arrival |

Every handler is one transaction under the booking's lock, hence one action. The hash of a
code, the photos themselves and the payment that follows a completion are left out.
`Guesses` are the codes the customer has generated, and 0 for anything else.

Run `work` (clock to 5, two codes of lifetime 2, two attempts, review window 2):
`BillableTimeIsWorked` (elapsed time less pauses is the time the timer ran,
whichever step ended an open pause), `DisputeBlocksCompletion` (the Tasker's finish does
not look for a dispute), `DeadCodeStaysDead`, and `ReviewEnds` under weak
fairness of the clock and of the completion sweep, a repeated job (of the legacy flow only, see below). Five ticks
hold a start, a pause with its resumption, a dead code replaced by a new one and
a whole review window. Two codes are what a reissue needs, two attempts what the
last but one needs. False of the code and in no run: `ProofEndsInCompletion`
(`docs/booking-completion-approval.md:10`): the sweep
takes bookings without work verification only, so a verified booking whose
customer does nothing stays in progress.

`BookingWorkProofs` proves `TypeCorrect`, `BillsWhatWasWorked`, `DisputesBlockCompletion`,
`DeadCodesStayDead`, and, model-checked in no run, `TasksCountedOnce` and
`EvidenceGathered`, from `BoundsAssumption`. `BillableTimeIsWorked` is inductive only with the
shape of the session (`Timed`: a paused session has a pause time no earlier than
its start, a stopped one a stop, and the sum holds in each status).
`DisputeBlocksCompletion` needs to know that a booking with an open dispute is never
`in_progress`: `Course` relates status, submission, completion and dispute, and every
action preserves it. `Evidence` gives the order of the proofs.

## 5. `FinalSettlement` and `MoneyOnce`

`finalizeCompletedBooking` is not a transaction: a call is a process with one action
per transaction or Stripe request and with what it has read in `call[c]`.

```
Complete | RetryWithCard | Retry | ApproveDurationReview | ReleaseDisputeHold
  -> FinalizeRead -> WriteStatus                 (dispute, duration review)
                   | PrepareCash, later ConfirmCashCollection
                   | SettleCapturedBooking       (the prepayment covers it)
                   | SettleFromWallet
                   | StartCharge -> RetrieveIntent | CreateIntent -> ConfirmIntent
                       -> RecordCharge | RecordConfirm | RecordError | ReconcileIntent
CallInterrupted between any two
```

`EventSucceeded` and `EventFailed` are the webhook's `handleBookingIntent`, `IntentSettles` the
card network or the customer's challenge; `RequestUnusedRefund`, `RecordUnusedRefund`,
`RefundSettles`, `EventRefund` are `processUnusedPrepaymentRefund` with its sweep and event,
`ReconcileOverCaptured` the administrator's repair. `FileComplaint`, `CloseDispute` and
`UpdateBilling` are the transactions that change what a call has read. Variables: the
booking's payment columns, the charge's and the unused-prepayment's `PaymentTransaction` rows,
the earning, the cash confirmation, the wallet, and Stripe's intent, refund and events.
Left out: the referral discount (in `ReferralRewards`), plan fees (inside `Fee`), mail, and
more than one final intent, whose idempotency key is the booking's.

`MoneyOnce` is what settling promises: taken at most once from each rail, credited at most
once, nothing credited or returned that was not taken. `FinalSettlement` implements it:
`prepaid` is the captured amount, `debited` the wallet's debit, `charged` the amount of a
succeeded intent, `credited` the earning's gross, `returned` the unused prepayment. That
debit and charge can both happen, for a retry from the wallet after a card attempt, is
in the abstract specification: each rail is charged once, and the code does not promise one rail.

Run `settle` (one call at a time repeated without bound, three sources, one card, prepaid 0,
2 or 3, cost and fee 1, tip 0 or 3, wallet 3): `PaidSettled`, `CreditBacked`, `MoneyMovesOnce`,
`ChargeEventsSettle`, `UnusedReturned`. The total is 2 or 5, so a prepayment of 3 has an unused
part that the settlement returns, one of 2 covers exactly, and both are too little once there is a tip;
a tip charged and then withdrawn gives `ReconcileOverCaptured` something to return. One call suffices for TLC because events, retries after interruption and the
sweeps supply the concurrent actor; the theorems hold for any number of calls. Weak
fairness: Stripe redelivers an event until it is handled, and the refund sweep repeats;
nothing makes a person act or a call go on, so a completed booking whose request crashed may
stay unsettled, and `ChargeEventsSettle` starts where Stripe has charged.
`UnusedReturned` starts where the prepayment exceeds what was settled, or a refund of it is due, on whichever
rail. Two cases are excepted, and each is a refund that waits for ever: a capture from the wallet whose booking
was retried by card, which is asked of Stripe (`:1240` looks at the source the booking has then), and an excess above the
captured amount, which the correction of a too high total writes and Stripe refuses for the captured intent.
Without either exception TLC refutes the property in this run.
False of the code and in no run: `UnusedRefundSucceeds` (`payments.service.ts:1201`, the sweep retries "until it
succeeds"), which has neither exception, and `RetrySettles` (`payments.service.ts:1480`, `:2799`,
`docs/payments-stripe.md:64`): a retry with another card makes the booking forget its
intent, and the success of that intent then settles nothing. `MoneyMovesOnce` shows that such a retry does not move the
money twice, and `ChargeEventsSettle` does not speak of it, nor of a call that stops between Stripe's charge
and its record: it starts where the booking names the intent.

`FinalSettlementProofs` proves `TypeCorrect`, `PaidBookingsAreSettled`, `CreditsAreBacked` and
`PromiseKept` (`Spec => MoneyMovesOnce`) for any `Calls`, `Sources`, `Cards` and amounts from
`AmountsAssumption`, `SourcesAssumption`, `CardsAssumption`. `PaidSettled` and `CreditBacked` are
inductive only together (`Books`) and with `Informed(c)`: what a call between its read and its
write holds is still true enough: for instance, a call about to record a success
knows an intent that succeeded with an amount that does not change; and with `Announces`: an
event of a success is about a succeeded intent. Each step then maps to `Take`, `Credit`,
`Return` or a stutter.

## 6. `DisputeRefund`

The disputes of one paid booking. `complaint[c]` is a `TaskComplaint`, `resolution[r]` a
`ComplaintResolution` from proposal to execution, `payment[r]` the refund's
`PaymentTransaction`, `work[r]` where `issueDisputeRefund` stands, `stripe[r]` and `events` the
provider; `earning` and `wallet` are the Tasker's, `clawed[r]` and `credited` the two ledgers'
keys, `chargeback` what the rows say and what is really so.

| action | code |
|---|---|
| `FileComplaint`, `Withdraw`, `Reopen` | `fileComplaint`, the participants' actions and appeals, the administrator's reopening |
| `Propose`, `AcceptProposal`, `CloseProposal` | `dispute-lifecycle.service.ts`; the deadline sweep and a rejection are the last |
| `ResolveWithoutRefund`, `ResolveWithRefund` | `admin-disputes.service.ts` `resolve` |
| `PrepareRefund`, `RequestRefund`, `SettleWalletRefund`, `FailDisputeRefund`, `SyncRefund`, `WorkInterrupted` | `issueDisputeRefund`, on card and wallet |
| `RefundEvent`, `StripeRefundSettles`, `ChargebackMoves`, `ChargebackEvent` | the webhook and Stripe; events in any order, each at least once |
| `ReleaseMatureEarning`, `HoldFoundDispute`, `ReleaseHold`, `EarningAction` | the clearance worker, the releases after a decision, the administrator's block |

Abstractions: the active statuses of a complaint are one; a draft does not exist;
rejected, expired, superseded and cancelled proposals are `closed`; a proposal's
terms are not kept because the resolution states its own; a lost chargeback is as
adverse as an open one. Evidence, assignment, priority, escalation and warnings change nothing
that a guard reads. Cash refunds are in `TaskerLedger`.

Run `disputes` (one complaint, reopened at will, two resolutions, charge 3, net 4, partial
refund 1, unused prepayment 0 or 1): `EarningBalances`, `RefundsWithinCharge`,
`FullRefundTakesAll`, `HeldWhileDisputed`, and `RefundReachesBooks` under weak fairness of
event handling (Stripe redelivers). Two resolutions are what two partial
refunds, a partial and a full one, and a second refund granted while the first is
thought failed need; one third of a net of 4 is rounded down and two thirds are rounded up, and
a share can be taken twice without exceeding the net.

`EarningBalances` bounds each clawback by its refund's share unless the whole earning is gone. The
booking's status says nothing of that: after a refund in full, an earlier refund that fails at Stripe
and a late `succeeded` event make it `partially_refunded` again. `FullRefundTakesAll` has an exception,
which the proof brought out and which needs three resolutions, one more than the run has. Of three
refunds of a third each the first is made, clawed back, and returned by its bank; the
other two are made; then the first one's late `succeeded` event is processed. Its payment counts as succeeded again, so the
booking reads `refunded`, but its clawback is in the ledger already and nothing more is taken
(`payments.service.ts:2006-2120`, `tasker-finance.service.ts:620`): the Tasker keeps what rounding left.
The property therefore allows a clawed-back refund that has failed at Stripe, and nothing else.

`RefundReachesBooks` speaks of the clawback, not of the status: a stale `pending` event after
`succeeded` leaves payment and resolution `processing` for ever. `HeldWhileDisputed` speaks of the chargeback
status the row has, not of whether the last event brought Stripe's final one, and not of an outcome that
ignores a refund under way. False of the code and in no
run: `ActiveWhilePending` (`docs/admin-bookings-disputes.md:92`; an outcome without refund closes a
dispute whose refund is pending) and `RefundedInFull` (the refund of an unused prepayment is
subtracted from a charge that was recorded without it, `admin-disputes.service.ts:1872`).

`DisputeRefundProofs` proves, from `AmountsAssumption`, `SourcesAssumption` and `RowsAssumption` (amounts
are natural numbers and charge and net positive, a booking is paid by card or wallet, tables are finite), for any
number of complaints and resolutions, every safety property of the run, `TypeOK`, and
`AppliedRefundsWereMade` (neither is in a run): a resolution is applied, and a clawback booked, only for a refund
that was made. There are two inductive invariants. `IInv` is `Typed /\ Backed`; `Backed` says of every
resolution that what its execution saw of Stripe is what Stripe did (`Seen`), and the same of events.
`MoneyInv`, relative to `IInv`, has five parts.

- `Rows`, for each resolution. `Fresh`: a refund is prepared once, from nothing. `OneWay`: Stripe never sees a refund
  to the wallet, nor the wallet one by Stripe. `History`: what may still be reported of a refund, given what it
  is at Stripe. Its last line is what `FullRefundTakesAll` needs: a refund that is made, clawed back, and about to be
  reported as made once more was one from the start, so no report of it being pending can have taken it out of the
  sum between.
- `Charges`: what Stripe has made or is making is within the final charge, which Stripe enforces; refunds to
  the wallet are within the total, which `Refundable` enforces.
- `Counted`: a booking that does not read as refunded has not been refunded in full.
- `Purse` and `Shares` are `EarningBalances`.

The two sums of payments, by status in the books and by status at Stripe, each change with one row at
a time (`BookMoves`, `StripeMoves`, from `SumChange`).

## 7. `TaskerLedger`

The books of one Tasker. `wallet` (pending, available), `account` (payable, restricted),
`earning[e]`, `receivable[c]` of a cash booking, `refund[r]` in cash, `settlement[s]` with its
`card` and `call` (the request to Stripe under way), `withdrawal[w]`. Transactions hold the row
locks of wallet and account and are one action; a settlement first reads the payable without a
lock, and its card payment talks to Stripe, so these are several.

| action | code |
|---|---|
| `CreatePendingEarning`, `ReleaseMatureEarning`, `ApplyRefundAdjustment` | `tasker-finance.service.ts`; the release pays the debt first (`PayDebt`, oldest receivable first) |
| `ConfirmCashCollection`, `GrantCashRefund`, `ConfirmCashRefund` | the receivable and its reversal: what is owed is forgiven, what was paid is reimbursed |
| `CreateFromWallet`, `PayFromWallet`, `CreateBankTransfer`, `CreateByCard`, `CreateIntent`, `RecordIntent`, `AbandonIntent`, `PayByCard`, `Cancel`, `CancelAtStripe`, `CancelHere`, `HandleIntent`, `CallInterrupted` | `platform-payable-settlements.service.ts` and its webhook |
| `AdminRecord`, `Approve`, `Reject` | the administrator's side of it |
| `RequestWithdrawal`, `ApprovePayout`, `ReturnWithdrawal`, `MarkPaid` | `tasker-wallet.service.ts`, `admin-finance.service.ts` |
| `ReconcileCashRestrictions` | the sweep |

Left out: holds of earnings (`DisputeRefund`), the plan's revenue share, the clearance mark of a
receivable, payout methods, PIN, views. Locks are taken in different orders
(`tasker-finance.service.ts:490`, `:1376`); PostgreSQL ends one of two that wait for each other,
and atomic actions do not show it.

Run `ledger` (one earning of net 2, two cash bookings with commission 2, two cash refunds, one
settlement, one withdrawal, amounts of 2, restriction from 3): `ReceivableBalances`, `PayableIsCollectible`,
`PendingBacked`, `BooksBalance`, and `CardPaymentCounts`, `RestrictionFollowsDebt` under weak
fairness of the webhook and of the sweep. Two bookings make first-in-first-out visible,
a limit between one and two debts the restriction; two refunds of one booking the
repeated reversal. The earning of 2 against a debt of 4 or 2 is offset in part or in full.
The real restriction sweep takes at most 500 accounts a run in the order of their Taskers (`tasker-finance.service.ts:1016`);
`RestrictionFollowsDebt` is about an account that the sweep reaches.

`TaskerLedgerProofs` proves the four invariants of this run and `TypeOK` (which no run checks) for any number of
rows and any amounts, from `AmountsAssumption` and `RowsAssumption`: the constants of the amounts are positive, the commission
is at most the cash taken, tables are finite. The invariant, `Books`, has three parts.

- Each receivable is balanced, and what is owed has a status that payments look for (`Balanced`);
  a pending refund names a confirmed booking (`Pending`).
- The rows have their types. A settlement is paid by the method it was created for and not before its intent
  is made or its wallet request decided (`Known`): else a payment from outside would count as one from the wallet.
- The balances are sums over all rows (`Ledger`): the payable is what receivables owe, pending
  is unreleased earnings and open withdrawals, the total is what `BooksBalance` says. This must be
  one invariant, since a release moves money between all three.

A sum is the number of its units (`Sum`, in `Sums`), a cardinality: the library's theorems on finite sets then say
how one changes with a row (`SumChange`), which folds and recursion leave to an induction the
prover cannot do. `SumAddsUp`, evaluated by the run, says that counting is adding. The types
include that neither payable nor pending balance becomes negative; the available balance may, and does
when an earning is clawed back after it was spent.

## 8. `ReferralRewards`

The referrals of one customer and of the Tasker who works for him. `referral[p]` is the
`Referral` of a program with its rewards (discount, referrer's and referred user's bonus) by kind,
`booking[b]` the columns that the referral transactions read, with the handlers that write them.

| action | code |
|---|---|
| `Claim`, `Revoke`, `Lapse`, `Clear` | `claim`, the administrator's `revoke`, two instants |
| `ChargeDiscounted` (`ReserveCustomerDiscount`), `Cancel` | reservation and its release |
| `SettleCaptured`, `SettleFromWallet`, `ChargeSucceeded` (`QualifiesWith`) | the three online payments, each with its earning and `qualifyPaidBooking` |
| `ReleaseMatureReward`, `ExpireStaleReferral` | the worker |
| `IssueRefund`, `RefundFailed`, `RefundSucceeded`, `ChargebackEvent` | refunds of disputes and chargebacks; the last two revoke (`RevokeWhere`) |
| `UnusedReturned`, `ReconcileOverCaptured` | money that goes back and tells the referrals nothing |
| `ChargeRest`, `ChargeDiscounted` (`Attempted`, `Answered`), `LateAnswer` | the final charge: an unfinished intent clears the total (`payments.service.ts:2986`), an answer or a failed event may be recorded after the success |
| `Complete`, `UpdateBilling`, `FileDispute`, `CloseDispute`, `FinalizeCash`, `ConfirmCash`, `RetryWithCard` | the rest of the booking's course: the bill with its tip, the hold of a dispute, the rail |

Every handler that writes a column the referral code reads is here: status, payment status, source, total,
discount, intent, the sums of refunds, disputes and chargebacks. `earning` is the `TaskerEarning` row with what its
settlement names (`by`), its gross amount and, for the net amount, the bill: `createPendingEarning` refuses a
second settlement with other values, and with it the whole transaction (`Settles`).

Left out: the referrer's cap, the creation of codes, history and leaderboard,
notifications, the worker's batch of 100. The branches for a cancelled booking that still
has a reservation are dead, because only completed bookings reserve. The read of
`finalizeCompletedBooking` and its transaction are one action; their interleavings are in `FinalSettlement`.

`BonusIsEarned` asks of a bonus in a wallet that its booking was settled online, that what the settlement took,
less refunds of disputes, is the minimum, and that no chargeback that found the booking is lost. It does not look
at `totalChargedAmount`, which an unfinished retry clears and a correction lowers. A correction returns what was
charged too much and tells the referrals nothing, so it counts as taken; that the document promises more is
`BonusIsPaidFor` below.

Run `referrals` (two bookings, the customer program, prepaid 3 against bills of 2 and 4, discount 1,
refund 2, minimum 2): `OneDiscount`, `RevokedKeepsNothing`, `BonusIsEarned`. Two bookings
are what a second claim to the discount needs; a refund of 2 takes one bill below the minimum
and leaves the other at it. One of the two, `Disturbed`, begins on any rail and has its bill changed, its charge answered late, its
money disputed, refunded and charged back; the other begins with cash and competes for the discount and the qualification
by way of retries with a card. With both disturbed, or with both programs, TLC does not finish in the time of a
run; the theorems cover any number of either. The view (`MCReferralRewards`) forgets whether a referral has lapsed once it has
qualified, and everything but discounts and rewards once every referral is revoked or expired.

False of the code and in no run:

| statement | quoted from | why it fails |
|---|---|---|
| `BonusIsPaidFor` | `docs/production-referral-reward-system.md:29` what remains paid satisfies the minimum | `reconcileOverCapturedBookings` (`payments.service.ts:1272-1299`) lowers the charge without `handleBookingRefund`; a chargeback lost after a retry does not find the booking, whose intent is forgotten |
| `RevokedForCause` | `referrals.service.ts:858` "payment was refunded" | a reserved discount is a pending reward due at once (`:763`): the worker takes it before its booking is paid, finds no money behind it and revokes the referral |
| `DiscountIsNoCredit` | `docs/production-referral-reward-system.md:19` | the worker can also credit that discount to the wallet |

`ReferralRewardsProofs` proves `TypeCorrect`, `OneDiscountOnly`, `RevokedKeepNothing` and `BonusesAreEarned`
for any bookings, programs, amounts and policy, all of them disturbed or not, from `AmountsAssumption` and
`ProgramsAssumption`. `IInv` says per reward that the wallet entries match its row, that an open
referral has nothing reversed and a revoked one nothing left (`Sound`), and that a booking with
a discount is the one its referral names (`Given`, `Reserved`). For the bonuses that is not enough: a
bonus is backed by a *booking*, which other transactions change. `EInv` adds how a booking's row relates to its
earning (`Priced`: a paid booking has the earning of its total, a corrected or cleared total is never above it) and that
every settled bonus names a booking that is settled and good (`Backed`); each step either keeps that worth
(`Worth`) or is a refund or a lost chargeback, and those revoke in the same transaction.

## 9. `RealtimeOutbox` and `AtLeastOnce`

`row[e]` is an event with its state and lease, `disp[d]` a dispatcher with its batch. `Enqueue` is
the insert in a handler's transaction; `Claim` the one statement with `SKIP LOCKED`;
`Emit`, `EmitThrows`, `MarkPublished`, `MarkFails`, `RecordError` the loop of `flush`, one
statement each; `FlushAborted` a process that stops; `LeaseExpires`, `RetentionPasses`, `CleanupPublished`
time and the cleanup. The number of an event is the order of `createdAt`, which need not be the
order of commits. `emitted` and `troubled` serve the properties.

Run `outbox` (two events, two dispatchers, batches of 2): `OnceUnlessTroubled` and `DeliveredAtLeastOnce`,
which is `AtLeastOnce`'s full specification, liveness included, under the refinement in the
module. Fairness: dispatchers poll on a timer and their steps go on (weak), leases
expire (weak), and emission and marking succeed for a claim that comes again and again (strong: an
event that always fails is never delivered by the code either). Two dispatchers make the
stale lease and the update by id visible (`lockToken` is written and never compared).

`RealtimeProofs` proves `TypeCorrect`, `OncePerEvent` and `PromiseKept` (the safety part of the
refinement) for any number of events and dispatchers. The invariant says of every event
without trouble that at most one dispatcher has it and the row is locked while it does (`Quiet`).

## 10. `RealtimeCalls` and `CallEvents`

`call[c]` is a `ConversationCall` (one per `clientRequestId`), `booking[b]` the parties and whether
the status allows calls, `asked` the initiations between their reads and their transaction, `acting[c]`
the conditional updates that handlers have decided on. `CreateCall` takes both users' advisory locks;
`Accept` and `SignalTarget` decide, `Answer` and `FinishSystemCall` update; `Reject`, `Cancel`, `End` and
the two time-outs decide on nothing but the status that their update tests again and are one action.
`Reassign` and `StatusChanges` are what happens to the booking under a call; the latter moves freely
between statuses. Checks of the recipient's account, pushes and relayed media are left out; a time-out
is the flag `due`.

`CallEvents` composes this with `AtLeastOnce`, one event per call: the transaction that finishes a call
commits its last `call:state` (`FinishAndTell`), and of the delivery the module has what
`RealtimeOutbox` promises. Earlier events of a call go the same way and are left out.

Run `calls` (two calls, two bookings of one customer, two Taskers): `OneCallEach` and, under weak
fairness of time, of the sweep that runs every few seconds and of the outbox's delivery,
`EveryCallEnds`: a call ends and its parties learn of it even if its Tasker lost the booking and
may not hang up (`realtime-calls.service.ts:721`), or an answer overtakes the ring's time-out. Two bookings of one
customer are the smallest instance in which a user can be wanted twice. False of the code and in no run:
`CancelledUnanswered` (`realtime-calls.service.ts:581`): one device answers while another, having
read that the booking moved on, cancels the call.

`RealtimeProofs` proves, for any number of calls, bookings and users, `OneCallEach` of the calls alone
(`OneActiveCall`) and of their composition (`OneActiveCallTold`, through `CallsStayCalls`), `EndsAreTold` and
`CallsKeepPromise`, the safety part of `AtLeastOnce`. `OneCallEach` becomes inductive
with two facts about what is under way: an initiation has no row yet (`Unwritten`), so no row is written
twice, and a decided update is about an active call (`Undecided`), so none brings a finished one back.

## 11. What the checks do not show

- Liveness is model-checked only; `ENABLED` and fairness are outside TLAPS.
- Induction over data is outside TLAPS. Sums are therefore cardinalities (`Sums`), and what is proved of them
  is how they change with one row; `SumAddsUp` in the run `ledger` ties them to addition.
- Type invariants are proved and not among the runs' properties.
- The statements called false above are comments and documents of the repository that the program
  does not meet. The properties that pass hold beside them: no run hides them by leaving
  the action out. To see one, name it in the cfg of its module's run.
- `strayed` and `moved` in `BookingSlots`, and `troubled` in `RealtimeOutbox`, are exceptions written into
  the properties, one hazard each; so are the exceptions of `RefundsCovered`, `CapturedMoneyReturned` and
  `UnusedReturned`, which sections 3 and 5 give with the statement that lacks them.
- Isolation: a transaction with a row lock is atomic. A read that does not lock inside such a
  transaction (the calendar of `assertTaskerTimeFree`) is covered by the lock on
  the users that `book` takes; `reschedule` takes only the booking's, and makes no such read. Deadlocks
  between transactions are the database's to end.
- No composition of two full modules is checked: `FinalSettlement` with `DisputeRefund`, or `RealtimeCalls` with
  `RealtimeOutbox`, exceed what TLC explores in minutes; the interfaces are over-approximated instead.

## 12. Not modelled

| part | why |
|---|---|
| Customer wallet top-ups and withdrawals | one balance under one row lock; the booking's debits and credits are in sections 3, 5 and 6 |
| Custom time requests | a few transitions under one lock and an expiry sweep; the booking made from an accepted request is in `BookingSlots`; a composition would multiply the states of `slots_waits`, which are 1.7 million |
| Authentication | token rotation is one transaction under the lock of its row; lockout and code attempts are counters of one row |
| Tasker plans | subscription transactions under the Tasker's lock, their card payment like that of a settlement in `TaskerLedger` |
| Account deletion, stored files | a queue of leased rows of the shape of `RealtimeOutbox`, and I/O |
| Elite programme | scoring over a period; administrator decisions under one lock |
| Notifications, push, mail | rows written with their event and leased sweeps; templates |
| Conversations, support | one write per operation, read markers |
| Realtime gateway | rooms and session checks, no state in the database |
| Search, profiles, settings, content, analytics | queries, configuration, single-row edits |

## 13. Plan

Done: the reservation, the money from acceptance to refund, the Tasker's books, referrals, the
outbox and calls, with two refinements. What would add most next: custom time requests with their
booking; authentication sessions; plans with their renewal; an abstract slot ledger that `BookingSlots` without reassignment implements.
