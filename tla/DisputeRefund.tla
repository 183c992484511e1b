---------------------------- MODULE DisputeRefund ----------------------------
(***************************************************************************)
(* The disputes of one paid booking and the money they move: complaints,   *)
(* proposals, refund resolutions executed through Stripe or the customer's *)
(* wallet, card chargebacks, and the Tasker's earning that is held, clawed *)
(* back and released meanwhile.                                            *)
(*                                                                         *)
(* A resolution is one transaction, its execution (issueDisputeRefund)     *)
(* several more with a Stripe request in between: work[r] is where the     *)
(* execution of resolution r stands, and it may stop anywhere.             *)
(***************************************************************************)
EXTENDS Sums

CONSTANTS
  Complaints,    \* TaskComplaint rows that may be filed for the booking
  Resolutions,   \* DisputeResolution rows that may be created
  Charged,       \* Booking.totalChargedAmount
  Net,           \* TaskerEarning.taskerNetAmount
  Sources,       \* Booking.paymentSource
  Intents,       \* amounts of the final charge, 0 when a prepayment covered it
  Unused,        \* unused prepayment that settlement has refunded already
  Amounts        \* partial refunds an administrator may grant

ASSUME AmountsAssumption ==
  /\ Charged \in Nat \ {0} /\ Net \in Nat \ {0}
  /\ Unused \subseteq Nat /\ Intents \subseteq 0 .. Charged
  /\ Amounts \subseteq Nat \ {0}
\* Tables have finitely many rows.
ASSUME RowsAssumption == IsFiniteSet(Resolutions)
ASSUME SourcesAssumption == Sources \subseteq {"stripe", "wallet"}

VARIABLES
  booking,      \* the Booking row: source, intent, paymentStatus, unused
  complaint,    \* TaskComplaint rows: status, who has appealed
  resolution,   \* DisputeResolution rows
  payment,      \* PaymentTransaction dispute-refund:RESOLUTION
  work,         \* executions of issueDisputeRefund under way
  stripe,       \* Stripe: status of the refund of a resolution
  events,       \* Stripe: refund events not processed yet
  earning,      \* the TaskerEarning row
  wallet,       \* what this booking put into the Tasker's wallet
  clawed,       \* ledger booking:ID:refund-clawback:PAYMENT, 0 for no entry
  credited,     \* ledger dispute-refund:RESOLUTION:customer
  chargeback    \* whether the StripeChargeback row is adverse, and the status at Stripe

vars == <<booking, complaint, resolution, payment, work, stripe, events, earning,
          wallet, clawed, credited, chargeback>>

money == <<earning, wallet, clawed, credited>>
provider == <<stripe, events>>

-----------------------------------------------------------------------------

Users == {"customer", "tasker"}
None == "none"

\* open, under_investigation and escalated: nothing tells them apart but the
\* order of an administrator's queue.
ActiveComplaint == \E c \in Complaints : complaint[c] = "active"

\* needs_response, under_review and their warnings; lost is as adverse.
AdverseChargeback == chargeback.adverse

NoResolution ==
  [status |-> None, complaint |-> None, refund |-> FALSE, accepted |-> {}]
NoPayment == [status |-> None, amount |-> 0]
Idle == [pc |-> "idle", amount |-> 0, seen |-> None]

Init ==
  /\ \E source \in Sources, intent \in Intents, unused \in Unused :
       \* The final charge is the rest of the total after a prepayment, and a
       \* booking with an unused prepayment had no final charge.
       /\ source = "wallet" \/ unused > 0 => intent = 0
       /\ booking = [source |-> source, intent |-> intent, unused |-> unused,
                     payment |-> "paid"]
  /\ complaint = [c \in Complaints |-> None]
  /\ resolution = [r \in Resolutions |-> NoResolution]
  /\ payment = [r \in Resolutions |-> NoPayment]
  /\ work = [r \in Resolutions |-> Idle]
  /\ stripe = [r \in Resolutions |-> None]
  /\ events = {}
  /\ earning = [status |-> "pending", blocked |-> FALSE, reversed |-> 0, released |-> FALSE]
  /\ wallet = [pending |-> Net, available |-> 0]
  /\ clawed = [r \in Resolutions |-> 0]
  /\ credited = {}
  /\ chargeback = [adverse |-> FALSE, real |-> None]

-----------------------------------------------------------------------------
(* The hold on the earning. *)

Holdable(e) == e.status \in {"pending", "partially_reversed"}

\* blockForDispute
Blocked(e) == IF Holdable(e) THEN [e EXCEPT !.blocked = TRUE] ELSE e

\* unblockAfterDispute: rechecks every other reason to hold.  There is one flag:
\* an administrator's own hold goes with it.
Unblocked(e, active) ==
  IF active \/ AdverseChargeback \/ ~Holdable(e) THEN e ELSE [e EXCEPT !.blocked = FALSE]

ReleasableUnchecked ==   \* mutant: trusts the flag alone
  Holdable(earning) /\ ~earning.blocked /\ ~earning.released

Releasable ==
  /\ Holdable(earning) /\ ~earning.blocked /\ ~earning.released
  /\ ~ActiveComplaint /\ ~AdverseChargeback

\* The clearance worker; the earning is mature.
ReleaseMatureEarning ==
  /\ Releasable
  /\ earning' = [earning EXCEPT !.status = "available", !.released = TRUE]
  /\ wallet' = [pending |-> wallet.pending - (Net - earning.reversed),
                available |-> wallet.available + (Net - earning.reversed)]
  /\ UNCHANGED <<booking, complaint, resolution, payment, work, provider, clawed,
                 credited, chargeback>>

\* The worker meets a dispute the flag does not know of.
HoldFoundDispute ==
  /\ Holdable(earning) /\ ~earning.blocked /\ ~earning.released
  /\ ActiveComplaint \/ AdverseChargeback
  /\ earning' = [earning EXCEPT !.blocked = TRUE]
  /\ UNCHANGED <<booking, complaint, resolution, payment, work, provider, wallet,
                 clawed, credited, chargeback>>

\* The administrator's block and unblock.
EarningAction ==
  /\ Holdable(earning) /\ ~earning.released
  /\ \/ earning' = [earning EXCEPT !.blocked = TRUE]
     \/ /\ ~ActiveComplaint /\ ~AdverseChargeback
        /\ earning' = [earning EXCEPT !.blocked = FALSE]
  /\ UNCHANGED <<booking, complaint, resolution, payment, work, provider, wallet,
                 clawed, credited, chargeback>>

-----------------------------------------------------------------------------
(* Complaints. *)

FileComplaint(c) ==
  /\ complaint[c] = None
  /\ ~ActiveComplaint
  /\ complaint' = [complaint EXCEPT ![c] = "active"]
  /\ earning' = Blocked(earning)
  /\ UNCHANGED <<booking, resolution, payment, work, provider, wallet, clawed,
                 credited, chargeback>>

Withdrawn(r) == IF r.status = "proposed"
                THEN [r EXCEPT !.status = "closed", !.accepted = {}] ELSE r

\* Closing commits first; releaseDisputeHold follows (ReleaseHold), or never.
Withdraw(c) ==
  /\ complaint[c] = "active"
  /\ \A r \in Resolutions :
       resolution[r].complaint = c => resolution[r].status # "processing"
  /\ complaint' = [complaint EXCEPT ![c] = "withdrawn"]
  /\ resolution' = [r \in Resolutions |-> IF resolution[r].complaint = c
                                          THEN Withdrawn(resolution[r]) ELSE resolution[r]]
  /\ UNCHANGED <<booking, payment, work, provider, money, chargeback>>

\* A participant's appeal of a closed case.
Reopened(c) ==
  /\ complaint[c] \in {"resolved", "dismissed"}
  /\ ~ActiveComplaint
  /\ complaint' = [complaint EXCEPT ![c] = "active"]
  /\ earning' = Blocked(earning)

\* An administrator's reopening does the same.
Reopen(c) ==
  /\ Reopened(c)
  /\ UNCHANGED <<booking, resolution, payment, work, provider, wallet, clawed,
                 credited, chargeback>>

\* releaseDisputeHold, of a settled booking, after a withdrawal, a dismissal or
\* a resolution without refund.
ReleaseHold ==
  /\ \E c \in Complaints : complaint[c] \in {"withdrawn", "resolved", "dismissed"}
  /\ earning' = Unblocked(earning, ActiveComplaint)
  /\ UNCHANGED <<booking, complaint, resolution, payment, work, provider, wallet,
                 clawed, credited, chargeback>>

-----------------------------------------------------------------------------
(* Proposals and resolutions. *)

\* What is refunded or about to be.
Refunded(statuses) ==
  Sum([r \in Resolutions |-> IF payment[r].status \in statuses THEN payment[r].amount ELSE 0])

RefundableWhole == Charged   \* mutant: earlier refunds are not counted

\* The refund of the unused prepayment counts as a refund of the charge here,
\* although the charge was already recorded without it.
Refundable == Charged - booking.unused - Refunded({"processing", "succeeded"})

SettledPayment == booking.payment \in {"paid", "partially_refunded"}

Grants == Amounts \union {Refundable}

\* rejected, expired, superseded and cancelled are all "closed".
\* Its terms bind nobody: the resolution states its own.
Propose(r, c) ==
  /\ complaint[c] = "active"
  /\ resolution[r].status = None
  /\ resolution' = [s \in Resolutions |->
       IF s = r THEN [NoResolution EXCEPT !.status = "proposed", !.complaint = c]
       ELSE IF resolution[s].complaint = c THEN Withdrawn(resolution[s])
       ELSE resolution[s]]
  /\ UNCHANGED <<booking, complaint, payment, work, provider, money, chargeback>>

AcceptProposal(r, user) ==
  /\ resolution[r].status = "proposed"
  /\ complaint[resolution[r].complaint] = "active"
  /\ user \notin resolution[r].accepted
  /\ resolution' = [resolution EXCEPT ![r] =
       IF @.accepted = {} THEN [@ EXCEPT !.accepted = {user}]
                          ELSE [@ EXCEPT !.accepted = {}, !.status = "accepted"]]
  /\ UNCHANGED <<booking, complaint, payment, work, provider, money, chargeback>>

\* A participant's rejection, or the response deadline.
CloseProposal(r) ==
  /\ resolution[r].status = "proposed"
  /\ resolution' = [resolution EXCEPT ![r] = Withdrawn(@)]
  /\ UNCHANGED <<booking, complaint, payment, work, provider, money, chargeback>>

\* A resolution is new, or reuses an accepted proposal, whose terms may change.
Usable(r, c) ==
  /\ complaint[c] = "active"
  /\ \/ resolution[r].status = None
     \/ resolution[r].status = "accepted" /\ resolution[r].complaint = c

Resolved(r, c, status, refund) ==
  resolution' = [resolution EXCEPT ![r] =
    [status |-> status, complaint |-> c, refund |-> refund, accepted |-> {}]]

\* An outcome that moves no money does not look for a refund under way.
ResolveWithoutRefund(r, c) ==
  /\ Usable(r, c)
  /\ Resolved(r, c, "applied", FALSE)
  /\ \E status \in {"resolved", "dismissed"} :
       complaint' = [complaint EXCEPT ![c] = status]
  /\ UNCHANGED <<booking, payment, work, provider, money, chargeback>>

NoRefundUnderWay(c) ==
  \A r \in Resolutions :
    resolution[r].complaint = c /\ resolution[r].refund => resolution[r].status # "processing"

ResolveWithRefund(r, c) ==
  /\ Usable(r, c)
  /\ NoRefundUnderWay(c)
  /\ SettledPayment
  /\ \E amount \in Grants :
       /\ amount \in 1 .. Refundable
       /\ Resolved(r, c, "processing", TRUE)
       /\ work' = [work EXCEPT ![r] = [Idle EXCEPT !.pc = "prepare", !.amount = amount]]
  /\ UNCHANGED <<booking, complaint, payment, provider, money, chargeback>>

-----------------------------------------------------------------------------
(* issueDisputeRefund. *)

At(r, pc) == work[r].pc = pc
Goto(r, pc) == work' = [work EXCEPT ![r].pc = pc]
End(r) == work' = [work EXCEPT ![r] = Idle]

PrepareRefund(r) ==
  /\ At(r, "prepare")
  /\ IF SettledPayment /\ work[r].amount <= Refundable
       THEN /\ payment' = [payment EXCEPT ![r] = [status |-> "processing",
                             amount |-> work[r].amount]]
            /\ resolution' = [resolution EXCEPT ![r].status = "processing"]
            /\ Goto(r, CASE booking.source = "wallet" -> "settle"
                         [] booking.source = "stripe" /\ booking.intent = 0 -> "fail"
                         [] OTHER -> "request")
       ELSE End(r) /\ UNCHANGED <<payment, resolution>>
  /\ UNCHANGED <<booking, complaint, provider, money, chargeback>>

\* What Stripe has refunded or is refunding of the final charge.
AtStripe ==
  Sum([r \in Resolutions |->
         IF stripe[r] \in {"pending", "succeeded"} THEN payment[r].amount ELSE 0])

\* Stripe makes the refund or refuses it; the answer may be lost on its way.
RequestRefund(r) ==
  /\ At(r, "request")
  /\ \/ /\ AtStripe + payment[r].amount <= booking.intent
        /\ \E status \in {"pending", "succeeded", "failed"} :
             /\ stripe' = [stripe EXCEPT ![r] = status]
             /\ events' = events \union {<<r, status>>}
             /\ \/ work' = [work EXCEPT ![r].pc = "record", ![r].seen = status]
                \/ Goto(r, "fail")
     \/ Goto(r, "fail") /\ UNCHANGED provider
  /\ UNCHANGED <<booking, complaint, resolution, payment, money, chargeback>>

\* failRefundResolutionInTransaction, from resolutions rs.
FailedResolution(rs, r) ==
  IF rs[r].status = "applied"
  THEN resolution' = rs /\ UNCHANGED complaint
  ELSE /\ resolution' = [rs EXCEPT ![r].status = "failed"]
       /\ complaint' = [complaint EXCEPT ![rs[r].complaint] =
                          IF @ = "resolved" THEN "active" ELSE @]

FailDisputeRefund(r) ==
  /\ At(r, "fail")
  /\ payment' = [payment EXCEPT ![r].status = IF @ = "succeeded" THEN @ ELSE "failed"]
  /\ FailedResolution(resolution, r)
  /\ End(r)
  /\ UNCHANGED <<booking, provider, money, chargeback>>

\* Half a unit is rounded up.
Rounded(n, d) == (2 * n + d) \div (2 * d)

\* Refunds of the booking as the books of payments (pay) have them.
Succeeded(pay) ==
  booking.unused
    + Sum([r \in Resolutions |-> IF pay[r].status = "succeeded" THEN pay[r].amount ELSE 0])

RemainingEarning == Net - earning.reversed

ClawbackProportional(pay, r) ==   \* mutant: never more than its share, or rounding up
  Rounded(pay[r].amount * Net, Charged)

Clawback(pay, r) ==
  LET share == IF Succeeded(pay) >= Charged THEN RemainingEarning
                                            ELSE Rounded(pay[r].amount * Net, Charged)
  IN IF share <= RemainingEarning THEN share ELSE RemainingEarning

Unreleased == IF earning.released THEN 0 ELSE RemainingEarning

ClawableAgain(r) == TRUE   \* mutant: the ledger key is not looked up

Clawable(r) == clawed[r] = 0

\* applyRefundAdjustment: once per refund, the unreleased part first.
Adjusted(pay, r) ==
  LET amount == IF Clawable(r) THEN Clawback(pay, r) ELSE 0
      pending == IF amount <= Unreleased THEN amount ELSE Unreleased
      whole == earning.reversed + amount = Net
  IN
  /\ clawed' = [clawed EXCEPT ![r] = @ + amount]
  /\ wallet' = [pending |-> wallet.pending - pending,
                available |-> wallet.available - (amount - pending)]
  /\ LET adjusted == IF amount = 0 THEN earning
           ELSE [earning EXCEPT !.reversed = @ + amount,
                   !.status = IF whole THEN "reversed" ELSE "partially_reversed",
                   !.blocked = IF whole THEN FALSE ELSE @]
         others == \E c \in Complaints \ {resolution[r].complaint} :
                     complaint[c] = "active"
     IN earning' = Unblocked(adjusted, others)

\* A refund that settled: clawback, status of the booking, end of the dispute.
RefundSettled(pay, r) ==
  /\ payment' = pay
  /\ Adjusted(pay, r)
  /\ booking' = [booking EXCEPT !.payment =
                   IF Succeeded(pay) >= Charged THEN "refunded" ELSE "partially_refunded"]
  /\ resolution' = [resolution EXCEPT ![r].status = "applied"]
  /\ complaint' = [complaint EXCEPT ![resolution[r].complaint] = "resolved"]

\* settleWalletDisputeRefund
SettleWalletRefund(r) ==
  /\ At(r, "settle")
  /\ RefundSettled([payment EXCEPT ![r].status = "succeeded"], r)
  /\ credited' = credited \union {r}
  /\ End(r)
  /\ UNCHANGED <<provider, chargeback>>

\* mapRefundStatus; requires_action is pending, canceled is failed.
MapRefundStatus(status) == IF status = "pending" THEN "processing" ELSE status

\* syncStripeRefundState and handleRefundEvent write what they were told,
\* whatever is recorded already.
BookedAs(r, seen) ==
  LET status == MapRefundStatus(seen)
      pay == [payment EXCEPT ![r].status = status]
  IN
  \/ status = "succeeded" /\ RefundSettled(pay, r)
  \/ /\ status = "failed"
     /\ payment' = pay
     /\ FailedResolution([resolution EXCEPT ![r].status = "failed"], r)
     /\ UNCHANGED <<booking, earning, wallet, clawed>>
  \/ /\ status = "processing"
     /\ payment' = pay
     /\ resolution' = [resolution EXCEPT ![r].status = "processing"]
     /\ UNCHANGED <<booking, complaint, earning, wallet, clawed>>

SyncRefund(r) ==
  /\ At(r, "record")
  /\ BookedAs(r, work[r].seen)
  /\ End(r)
  /\ UNCHANGED <<provider, credited, chargeback>>

KnownOpen(r) == payment[r].status = "processing"   \* mutant: a failed refund is final

\* By the reference, or by the payment's id in the refund's metadata.
Known(r) == payment[r].status # None

RefundEvent(r, status) ==
  /\ <<r, status>> \in events
  /\ IF Known(r) THEN BookedAs(r, status)
                 ELSE UNCHANGED <<booking, complaint, resolution, payment, earning, wallet, clawed>>
  /\ events' = events \ {<<r, status>>}
  /\ UNCHANGED <<work, stripe, credited, chargeback>>

WorkInterrupted(r) ==
  /\ ~At(r, "idle")
  /\ End(r)
  /\ UNCHANGED <<booking, complaint, resolution, payment, provider, money, chargeback>>

-----------------------------------------------------------------------------
(* Stripe. *)

\* A bank may return a refund that had succeeded.
StripeRefundSettles(r) ==
  /\ \E status \in {"succeeded", "failed"} :
       /\ <<stripe[r], status>> \in
            {<<"pending", "succeeded">>, <<"pending", "failed">>, <<"succeeded", "failed">>}
       /\ stripe' = [stripe EXCEPT ![r] = status]
       /\ events' = events \union {<<r, status>>}
  /\ UNCHANGED <<booking, complaint, resolution, payment, work, money, chargeback>>

ChargebackMoves ==
  /\ booking.intent > 0
  /\ \E real \in {"open", "won"} :
       /\ <<chargeback.real, real>> \in {<<None, "open">>, <<"open", "won">>}
       /\ chargeback' = [chargeback EXCEPT !.real = real]
  /\ UNCHANGED <<booking, complaint, resolution, payment, work, provider, money>>

\* handleStripeChargebackEvent, with a status of now or of before: events come
\* in any order, each at least once.
ChargebackEvent ==
  /\ chargeback.real # None
  /\ \E status \in {"open", chargeback.real} :
       /\ chargeback' = [chargeback EXCEPT !.adverse = (status = "open")]
       /\ earning' = IF status = "open" THEN Blocked(earning)
                     ELSE IF ActiveComplaint \/ ~Holdable(earning) THEN earning
                     ELSE [earning EXCEPT !.blocked = FALSE]
  /\ UNCHANGED <<booking, complaint, resolution, payment, work, provider, wallet,
                 clawed, credited>>

-----------------------------------------------------------------------------

Execute(r) ==
  \/ PrepareRefund(r) \/ RequestRefund(r) \/ FailDisputeRefund(r)
  \/ SettleWalletRefund(r) \/ SyncRefund(r)

SomeEvent ==
  \E r \in Resolutions, status \in {"pending", "succeeded", "failed"} : RefundEvent(r, status)

Next ==
  \/ \E c \in Complaints :
       \/ FileComplaint(c) \/ Withdraw(c) \/ Reopen(c)
       \/ \E r \in Resolutions :
            Propose(r, c) \/ ResolveWithoutRefund(r, c) \/ ResolveWithRefund(r, c)
  \/ \E r \in Resolutions :
       \/ Execute(r) \/ WorkInterrupted(r) \/ CloseProposal(r) \/ StripeRefundSettles(r)
       \/ \E user \in Users : AcceptProposal(r, user)
  \/ SomeEvent
  \/ ReleaseHold \/ ReleaseMatureEarning \/ HoldFoundDispute \/ EarningAction
  \/ ChargebackMoves \/ ChargebackEvent

\* Stripe redelivers an event until it is processed.
Spec == Init /\ [][Next]_vars /\ WF_vars(SomeEvent)

-----------------------------------------------------------------------------
(* Properties. *)

\* Rows, refunds, events and executions have their types.
TypeOK ==
  /\ booking \in [source : {"stripe", "wallet"}, intent : 0 .. Charged, unused : Nat,
                  payment : {"paid", "partially_refunded", "refunded"}]
  /\ complaint \in [Complaints -> {None, "active", "resolved", "dismissed", "withdrawn"}]
  /\ resolution \in [Resolutions ->
       [status : {None, "proposed", "accepted", "closed", "processing", "applied", "failed"},
        complaint : Complaints \union {None}, refund : BOOLEAN, accepted : SUBSET Users]]
  /\ payment \in [Resolutions -> [status : {None, "processing", "succeeded", "failed"},
                                  amount : Nat]]
  /\ work \in [Resolutions ->
       [pc : {"idle", "prepare", "request", "settle", "fail", "record"}, amount : Nat,
        seen : {None, "pending", "succeeded", "failed"}]]
  /\ stripe \in [Resolutions -> {None, "pending", "succeeded", "failed"}]
  /\ events \subseteq Resolutions \X {"pending", "succeeded", "failed"}
  /\ earning \in [status : {"pending", "partially_reversed", "reversed", "available"},
                  blocked : BOOLEAN, reversed : 0 .. Net, released : BOOLEAN]
  /\ wallet \in [pending : Nat, available : Int]
  /\ clawed \in [Resolutions -> Nat]
  /\ credited \subseteq Resolutions
  /\ chargeback \in [adverse : BOOLEAN, real : {None, "open", "won"}]

\* The Tasker's wallet holds what the earning says: all of it pending until the
\* release and available after it, less what refunds took back: each at most its
\* share and once, but for one that took all the rest.
EarningBalances ==
  /\ earning.reversed = Sum(clawed) /\ earning.reversed <= Net
  /\ wallet.pending = IF earning.released THEN 0 ELSE Net - earning.reversed
  /\ wallet.pending + wallet.available = Net - earning.reversed
  /\ \A r \in Resolutions :
       earning.reversed = Net \/ clawed[r] <= Rounded(payment[r].amount * Net, Charged)

Returned ==
  AtStripe + Sum([r \in credited |-> payment[r].amount])

\* However many disputes, reopenings, failures and repeated answers there are,
\* they return no more than the customer was charged.
RefundsWithinCharge == Returned <= Charged

\* A refund resolution counts as applied only if the money went out, and the
\* Tasker bears a clawback only for a refund that Stripe or the wallet made.
AppliedIsReturned ==
  \A r \in Resolutions :
    (resolution[r].status = "applied" /\ resolution[r].refund) \/ clawed[r] > 0 =>
      r \in credited \/ stripe[r] \in {"succeeded", "failed"}

\* A refund that settled in full leaves the Tasker nothing of the earning, unless
\* a bank has returned a refund that was clawed back: told late that it had
\* succeeded, the books count it once more and take nothing.
FullRefundTakesAll ==
  [][booking.payment # "refunded" /\ booking'.payment = "refunded" =>
       \/ earning'.reversed = Net
       \/ \E r \in Resolutions : stripe[r] = "failed" /\ clawed[r] > 0]_vars

\* docs/dispute-lifecycle-hardening.md:101: one closed dispute never releases
\* the earning while another valid hold remains; nothing becomes available to
\* the Tasker while a dispute is active or a chargeback is open or lost.
HeldWhileDisputed ==
  [][ActiveComplaint \/ AdverseChargeback => wallet'.available <= wallet.available]_vars

\* A refund that Stripe made reaches the books, wherever the execution stopped.
RefundReachesBooks ==
  []<>(\A r \in Resolutions :
         stripe[r] = "succeeded" => clawed[r] > 0 \/ earning.reversed = Net)

\* docs/admin-bookings-disputes.md:92: the dispute stays active while the
\* refund is pending at the provider.
ActiveWhilePending ==
  \A r \in Resolutions :
    stripe[r] = "pending" /\ resolution[r].status = "processing" =>
      complaint[resolution[r].complaint] = "active"

\* A booking counts as refunded when the customer got the whole charge back.
RefundedInFull ==
  booking.payment = "refunded" /\ (\A r \in Resolutions : stripe[r] # "failed") =>
    Returned = Charged
=============================================================================
