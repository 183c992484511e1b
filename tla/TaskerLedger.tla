---------------------------- MODULE TaskerLedger -----------------------------
(***************************************************************************)
(* The books of one Tasker: online earnings on their way from pending to   *)
(* available, the commission owed on cash bookings (receivables, whose sum *)
(* is the platform payable), the three ways it is paid back (offset at the *)
(* release of an earning, wallet, card or bank), cash refunds that reverse *)
(* it, and withdrawals.                                                    *)
(*                                                                         *)
(* Every operation is one transaction under the row locks of wallet and    *)
(* account, but a settlement of the Tasker's, which reads the payable  *)
(* first, and its card payment, which talks to Stripe.                     *)
(***************************************************************************)
EXTENDS Sums

CONSTANTS
  Earnings,       \* TaskerEarning rows that may be created
  CashBookings,   \* completed cash bookings, each with one receivable
  CashRefunds,    \* DisputeCashRefund rows that may be created
  Settlements,    \* TaskerPlatformSettlement rows that may be created
  Withdrawals,    \* TaskerWithdrawal rows that may be created
  Net,            \* TaskerEarning.taskerNetAmount
  Collected,      \* cash the Tasker took for a cash booking
  Payable,        \* what of it is Latache's
  Amounts,        \* amounts users and administrators enter
  Limit           \* maximumOutstandingPlatformDebt

ASSUME AmountsAssumption ==
  /\ {Net, Collected, Payable, Limit} \subseteq Nat \ {0}
  /\ Payable <= Collected
  /\ Amounts \subseteq Nat \ {0}

\* Tables have finitely many rows.
ASSUME RowsAssumption ==
  /\ IsFiniteSet(Earnings) /\ IsFiniteSet(CashBookings) /\ IsFiniteSet(CashRefunds)
  /\ IsFiniteSet(Settlements) /\ IsFiniteSet(Withdrawals)

VARIABLES
  wallet,       \* TaskerWallet: available and pending balance
  account,      \* TaskerPlatformAccount: outstandingPayable, cashBookingsRestricted
  earning,      \* TaskerEarning rows
  receivable,   \* TaskerPlatformReceivable rows; at: their order of confirmation,
                \* reimbursed: the wallet entries of their reversals
  refund,       \* DisputeCashRefund rows
  settlement,   \* TaskerPlatformSettlement rows
  card,         \* Stripe: PaymentIntent of a settlement
  call,         \* settlement requests under way
  withdrawal    \* TaskerWithdrawal rows

vars == <<wallet, account, earning, receivable, refund, settlement, card, call, withdrawal>>

stripe == <<card, call>>

-----------------------------------------------------------------------------

None == "none"

Least(m, n) == IF m <= n THEN m ELSE n
Rounded(n, d) == (2 * n + d) \div (2 * d)

NoEarning == [status |-> None, reversed |-> 0, released |-> FALSE]
NoReceivable ==
  [status |-> None, at |-> 0, outstanding |-> 0, settled |-> 0, reversed |-> 0, reimbursed |-> 0]
NoRefund == [status |-> None, booking |-> None, amount |-> 0]
NoSettlement == [status |-> None, method |-> None, amount |-> 0, reference |-> FALSE]
NoWithdrawal == [status |-> None, amount |-> 0]

Init ==
  /\ wallet = [available |-> 0, pending |-> 0]
  /\ account = [payable |-> 0, restricted |-> FALSE]
  /\ earning = [e \in Earnings |-> NoEarning]
  /\ receivable = [c \in CashBookings |-> NoReceivable]
  /\ refund = [r \in CashRefunds |-> NoRefund]
  /\ settlement = [s \in Settlements |-> NoSettlement]
  /\ card = [s \in Settlements |-> None]
  /\ call = [s \in Settlements |-> "idle"]
  /\ withdrawal = [w \in Withdrawals |-> NoWithdrawal]

-----------------------------------------------------------------------------
(* The platform payable. *)

CollectibleUntouched(c) ==   \* mutant: forgets what a refund has partly reversed
  receivable[c].outstanding > 0 /\ receivable[c].status \in {"outstanding", "partially_settled"}

Collectible(c) ==
  /\ receivable[c].outstanding > 0
  /\ receivable[c].status \in {"outstanding", "partially_settled", "partially_reversed"}

Older(c) == {d \in CashBookings : Collectible(d) /\ receivable[d].at < receivable[c].at}

\* What an amount settles of each receivable, the oldest first.  The code
\* refuses an amount that the receivables do not take up: the set is empty.
FifoPayments(amount) ==
  {paid \in [CashBookings -> 0 .. Payable] :
     /\ \A c \in CashBookings :
          paid[c] <= IF Collectible(c) THEN receivable[c].outstanding ELSE 0
     /\ \A c \in CashBookings : paid[c] > 0 =>
          \A d \in Older(c) : paid[d] = receivable[d].outstanding
     /\ Sum(paid) = amount}

Settled(c, portion) ==
  IF portion = 0 THEN receivable[c]
  ELSE [receivable[c] EXCEPT !.outstanding = @ - portion, !.settled = @ + portion,
          !.status = IF receivable[c].outstanding = portion THEN "settled"
                                                           ELSE "partially_settled"]

\* applyRestrictionPolicy, with the payable it is given.
Account(payable) == [payable |-> payable, restricted |-> payable >= Limit]

\* An amount goes to the receivables and lowers the payable.
PayDebt(amount) ==
  /\ \E paid \in FifoPayments(amount) :
       receivable' = [c \in CashBookings |-> Settled(c, paid[c])]
  /\ account' = Account(account.payable - amount)

SweepOver == account.payable >= Limit   \* mutant: only accounts to be restricted

\* reconcileCashRestrictions
SweepDue == account.restricted \/ account.payable >= Limit

ReconcileCashRestrictions ==
  /\ SweepDue
  /\ account' = Account(account.payable)
  /\ UNCHANGED <<wallet, earning, receivable, refund, settlement, stripe, withdrawal>>

-----------------------------------------------------------------------------
(* Earnings. *)

CreatePendingEarning(e) ==
  /\ earning[e].status = None
  /\ earning' = [earning EXCEPT ![e].status = "pending"]
  /\ wallet' = [wallet EXCEPT !.pending = @ + Net]
  /\ UNCHANGED <<account, receivable, refund, settlement, stripe, withdrawal>>

\* A mature earning on which nothing holds; DisputeRefund has the holds.  The
\* debt is paid from it first.
ReleaseMatureEarning(e) ==
  LET releasable == Net - earning[e].reversed
      debtOffset == Least(releasable, account.payable)
  IN
  /\ earning[e].status \in {"pending", "partially_reversed"} /\ ~earning[e].released
  /\ wallet.pending >= releasable
  /\ wallet' = [available |-> wallet.available + (releasable - debtOffset),
                pending |-> wallet.pending - releasable]
  /\ earning' = [earning EXCEPT ![e].status = "available", ![e].released = TRUE]
  /\ PayDebt(debtOffset)
  /\ UNCHANGED <<refund, settlement, stripe, withdrawal>>

UnreleasedWhole(e) == Net - earning[e].reversed   \* mutant: of a released earning too

Unreleased(e) == IF earning[e].released THEN 0 ELSE Net - earning[e].reversed

\* A settled refund takes back its share (DisputeRefund has which).
ApplyRefundAdjustment(e) ==
  /\ earning[e].status # None
  /\ \E amount \in 1 .. Net - earning[e].reversed :
       LET pending == Least(amount, Unreleased(e)) IN
       /\ wallet' = [available |-> wallet.available - (amount - pending),
                     pending |-> wallet.pending - pending]
       /\ earning' = [earning EXCEPT ![e].reversed = @ + amount,
            ![e].status = IF earning[e].reversed + amount = Net THEN "reversed" ELSE "partially_reversed"]
  /\ UNCHANGED <<account, receivable, refund, settlement, stripe, withdrawal>>
-----------------------------------------------------------------------------
(* Cash bookings and their refunds. *)

\* A confirmation repeated with its idempotency key changes nothing.
ConfirmCashCollection(c) ==
  /\ receivable[c].status = None
  /\ receivable' = [receivable EXCEPT ![c] =
       [NoReceivable EXCEPT !.status = "outstanding", !.outstanding = Payable,
          !.at = Cardinality({d \in CashBookings : receivable[d].status # None}) + 1]]
  /\ account' = Account(account.payable + Payable)
  /\ UNCHANGED <<wallet, earning, refund, settlement, stripe, withdrawal>>

Confirmed(c) == {r \in CashRefunds : refund[r].booking = c /\ refund[r].status = "confirmed"}

CashRefunded(c) == Sum([r \in Confirmed(c) |-> refund[r].amount])

\* A cash refund is decided (resolve) and waits for the transfer.  What waits
\* is not counted: another complaint of the booking may grant it again.
GrantCashRefund(r, c) ==
  /\ refund[r].status = None
  /\ receivable[c].status # None
  /\ \E amount \in 1 .. Collected - CashRefunded(c) :
       refund' = [refund EXCEPT ![r] = [status |-> "pending", booking |-> c, amount |-> amount]]
  /\ UNCHANGED <<wallet, account, earning, receivable, settlement, stripe, withdrawal>>

ReversibleWhole(c) == Payable   \* mutant: earlier reversals are not counted

Reversible(c) == Payable - receivable[c].reversed

\* confirmManualCashDisputeRefund and the reversal of the commission: what is
\* still owed is forgiven, what was paid comes back to the wallet.  The cash
\* restriction is left to the sweep.
ConfirmCashRefund(r) ==
  LET c == refund[r].booking
      reversal == Least(Rounded(refund[r].amount * Payable, Collected), Reversible(c))
      forgiven == Least(receivable[c].outstanding, reversal)
  IN
  /\ refund[r].status = "pending"
  /\ refund' = [refund EXCEPT ![r].status = "confirmed"]
  /\ receivable' = IF reversal = 0 THEN receivable
       ELSE [receivable EXCEPT ![c].outstanding = @ - forgiven, ![c].reversed = @ + reversal,
               ![c].reimbursed = @ + (reversal - forgiven),
               ![c].status = IF receivable[c].reversed + reversal >= Payable
                             THEN "reversed" ELSE "partially_reversed"]
  /\ account' = [account EXCEPT !.payable = @ - forgiven]
  /\ wallet' = [wallet EXCEPT !.available = @ + (reversal - forgiven)]
  /\ UNCHANGED <<earning, settlement, stripe, withdrawal>>

-----------------------------------------------------------------------------
(* Settlements of the payable. *)

OpenSettlement(s) == settlement[s].status \in {"pending_payment", "pending_review"}

\* applyPayableSettlement: what exceeds the payable goes to the wallet, from
\* which debited was taken.
ApplyPayableSettlement(amount, debited) ==
  LET applied == Least(amount, account.payable) IN
  /\ PayDebt(applied)
  /\ wallet' = [wallet EXCEPT !.available = @ - debited + (amount - applied)]

NewSettlement(s, method, status, amount) ==
  /\ settlement[s].status = None
  /\ settlement' = [settlement EXCEPT ![s] =
       [status |-> status, method |-> method, amount |-> amount, reference |-> FALSE]]

Payments == {amount \in Amounts : amount <= account.payable}

\* The Tasker's own requests take turns on the row of the user.
NoOpenSettlement == \A s \in Settlements : ~OpenSettlement(s) /\ call[s] # "wallet"

\* The amount is held against a payable that no lock keeps.
CreateFromWallet(s) ==
  /\ NoOpenSettlement
  /\ settlement[s].status = None
  /\ \E amount \in Payments : settlement' = [settlement EXCEPT ![s].amount = amount]
  /\ call' = [call EXCEPT ![s] = "wallet"]
  /\ UNCHANGED <<wallet, account, earning, receivable, refund, card, withdrawal>>

PayFromWallet(s) ==
  LET amount == settlement[s].amount IN
  /\ call[s] = "wallet"
  /\ wallet.available >= amount
  /\ NewSettlement(s, "wallet", "completed", amount)
  /\ ApplyPayableSettlement(amount, amount)
  /\ call' = [call EXCEPT ![s] = "idle"]
  /\ UNCHANGED <<earning, refund, card, withdrawal>>

CreateBankTransfer(s) ==
  /\ NoOpenSettlement
  /\ \E amount \in Payments : NewSettlement(s, "bank_transfer", "pending_review", amount)
  /\ UNCHANGED <<wallet, account, earning, receivable, refund, stripe, withdrawal>>

CreateByCard(s) ==
  /\ NoOpenSettlement
  /\ \E amount \in Payments : NewSettlement(s, "stripe", "pending_payment", amount)
  /\ call' = [call EXCEPT ![s] = "create"]
  /\ UNCHANGED <<wallet, account, earning, receivable, refund, card, withdrawal>>

\* The request to Stripe fails, or makes the intent; its answer may be lost.
CreateIntent(s) ==
  /\ call[s] = "create"
  /\ \/ card' = [card EXCEPT ![s] = "open"] /\ call' = [call EXCEPT ![s] = "record"]
     \/ card' = [card EXCEPT ![s] = "open"] /\ call' = [call EXCEPT ![s] = "abandon"]
     \/ UNCHANGED card /\ call' = [call EXCEPT ![s] = "abandon"]
  /\ UNCHANGED <<wallet, account, earning, receivable, refund, settlement, withdrawal>>

RecordIntent(s) ==
  /\ call[s] = "record"
  /\ \/ settlement' = [settlement EXCEPT ![s].reference = TRUE] /\ call' = [call EXCEPT ![s] = "idle"]
     \/ UNCHANGED settlement /\ call' = [call EXCEPT ![s] = "abandon"]
  /\ UNCHANGED <<wallet, account, earning, receivable, refund, card, withdrawal>>

\* Unconditional: whatever the settlement has become since.
AbandonIntent(s) ==
  /\ call[s] = "abandon"
  /\ settlement' = [settlement EXCEPT ![s].status = "cancelled"]
  /\ call' = [call EXCEPT ![s] = "idle"]
  /\ UNCHANGED <<wallet, account, earning, receivable, refund, card, withdrawal>>

\* The Tasker's payment needs the client secret, which only a recorded intent
\* has given away.
PayByCard(s) ==
  /\ card[s] = "open" /\ settlement[s].reference
  /\ card' = [card EXCEPT ![s] = "succeeded"]
  /\ UNCHANGED <<wallet, account, earning, receivable, refund, settlement, call, withdrawal>>

\* The Tasker cancels what has no intent yet, though one may be under way.
Cancel(s) ==
  /\ OpenSettlement(s) /\ ~settlement[s].reference
  /\ settlement' = [settlement EXCEPT ![s].status = "cancelled"]
  /\ UNCHANGED <<wallet, account, earning, receivable, refund, stripe, withdrawal>>

\* Stripe may refuse the cancellation of the intent; the code goes on.
CancelAtStripe(s) ==
  /\ call[s] = "idle" /\ OpenSettlement(s) /\ settlement[s].reference
  /\ card[s] # "succeeded"
  /\ UNCHANGED card \/ card' = [card EXCEPT ![s] = "canceled"]
  /\ call' = [call EXCEPT ![s] = "cancel"]
  /\ UNCHANGED <<wallet, account, earning, receivable, refund, settlement, withdrawal>>

CancelHere(s) ==
  /\ call[s] = "cancel"
  /\ settlement' = IF OpenSettlement(s) THEN [settlement EXCEPT ![s].status = "cancelled"]
                                        ELSE settlement
  /\ call' = [call EXCEPT ![s] = "idle"]
  /\ UNCHANGED <<wallet, account, earning, receivable, refund, card, withdrawal>>

CallInterrupted(s) ==
  /\ call[s] # "idle"
  /\ settlement' = IF call[s] = "wallet" THEN [settlement EXCEPT ![s] = NoSettlement]
                                        ELSE settlement
  /\ call' = [call EXCEPT ![s] = "idle"]
  /\ UNCHANGED <<wallet, account, earning, receivable, refund, card, withdrawal>>

HonoursAny(s) == TRUE   \* mutant: a repeated event counts again
HonoursOpen(s) == OpenSettlement(s)   \* mutant: not what the Tasker has cancelled

Honours(s) == settlement[s].status # "completed"

\* handleIntent: the money that came, also for a cancelled settlement.  The
\* event may come again.
HandleIntent(s) ==
  /\ card[s] = "succeeded"
  /\ Honours(s)
  /\ settlement' = [settlement EXCEPT ![s].status = "completed"]
  /\ ApplyPayableSettlement(settlement[s].amount, 0)
  /\ UNCHANGED <<earning, refund, stripe, withdrawal>>

\* The account comes with the first receivable or release.
AccountExists ==
  (\E c \in CashBookings : receivable[c].status # None) \/ \E e \in Earnings : earning[e].released

AdminRecord(s) ==
  /\ AccountExists /\ call[s] = "idle"
  /\ \E amount \in Amounts :
       /\ NewSettlement(s, "offline", "completed", amount)
       /\ ApplyPayableSettlement(amount, 0)
  /\ UNCHANGED <<earning, refund, stripe, withdrawal>>

Approve(s) ==
  /\ settlement[s].status = "pending_review"
  /\ \E received \in Amounts :
       /\ settlement' = [settlement EXCEPT ![s].status = "completed", ![s].amount = received]
       /\ ApplyPayableSettlement(received, 0)
  /\ UNCHANGED <<earning, refund, stripe, withdrawal>>

Reject(s) ==
  /\ settlement[s].status = "pending_review"
  /\ settlement' = [settlement EXCEPT ![s].status = "rejected"]
  /\ UNCHANGED <<wallet, account, earning, receivable, refund, stripe, withdrawal>>
-----------------------------------------------------------------------------
(* Withdrawals. *)

RequestWithdrawal(w) ==
  /\ withdrawal[w].status = None
  /\ \E amount \in Amounts :
       /\ wallet.available >= amount
       /\ withdrawal' = [withdrawal EXCEPT ![w] = [status |-> "pending_review", amount |-> amount]]
       /\ wallet' = [available |-> wallet.available - amount, pending |-> wallet.pending + amount]
  /\ UNCHANGED <<account, earning, receivable, refund, settlement, stripe>>

ApprovePayout(w) ==
  /\ withdrawal[w].status = "pending_review"
  /\ withdrawal' = [withdrawal EXCEPT ![w].status = "processing"]
  /\ UNCHANGED <<wallet, account, earning, receivable, refund, settlement, stripe>>

\* The Tasker cancels or an administrator rejects a request, or an approved
\* transfer fails.
ReturnWithdrawal(w) ==
  /\ \E move \in {<<"pending_review", "cancelled">>, <<"pending_review", "rejected">>,
                  <<"processing", "failed">>} :
       /\ withdrawal[w].status = move[1]
       /\ move[2] = "cancelled" \/ wallet.pending >= withdrawal[w].amount
       /\ withdrawal' = [withdrawal EXCEPT ![w].status = move[2]]
  /\ wallet' = [available |-> wallet.available + withdrawal[w].amount,
                pending |-> wallet.pending - withdrawal[w].amount]
  /\ UNCHANGED <<account, earning, receivable, refund, settlement, stripe>>

MarkPaid(w) ==
  /\ withdrawal[w].status = "processing"
  /\ wallet.pending >= withdrawal[w].amount
  /\ withdrawal' = [withdrawal EXCEPT ![w].status = "paid"]
  /\ wallet' = [wallet EXCEPT !.pending = @ - withdrawal[w].amount]
  /\ UNCHANGED <<account, earning, receivable, refund, settlement, stripe>>

-----------------------------------------------------------------------------

Next ==
  \/ ReconcileCashRestrictions
  \/ \E e \in Earnings :
       CreatePendingEarning(e) \/ ReleaseMatureEarning(e) \/ ApplyRefundAdjustment(e)
  \/ \E c \in CashBookings :
       ConfirmCashCollection(c) \/ \E r \in CashRefunds : GrantCashRefund(r, c)
  \/ \E r \in CashRefunds : ConfirmCashRefund(r)
  \/ \E s \in Settlements :
       \/ CreateFromWallet(s) \/ PayFromWallet(s) \/ CreateBankTransfer(s)
       \/ CreateByCard(s) \/ CreateIntent(s) \/ RecordIntent(s) \/ AbandonIntent(s)
       \/ PayByCard(s) \/ Cancel(s) \/ CancelAtStripe(s) \/ CancelHere(s)
       \/ CallInterrupted(s) \/ HandleIntent(s) \/ AdminRecord(s) \/ Approve(s) \/ Reject(s)
  \/ \E w \in Withdrawals :
       RequestWithdrawal(w) \/ ApprovePayout(w) \/ ReturnWithdrawal(w) \/ MarkPaid(w)

\* Stripe redelivers an event until it is processed, and the sweep runs again
\* and again.
Spec ==
  /\ Init /\ [][Next]_vars
  /\ WF_vars(ReconcileCashRestrictions)
  /\ \A s \in Settlements : WF_vars(HandleIntent(s))

-----------------------------------------------------------------------------
(* Properties. *)

\* Rows, balances and calls have their types; the payable is never negative.
TypeOK ==
  /\ wallet \in [available : Int, pending : Nat]
  /\ account \in [payable : Nat, restricted : BOOLEAN]
  /\ earning \in [Earnings -> [status : {None, "pending", "partially_reversed", "reversed",
                                         "available"}, reversed : 0 .. Net, released : BOOLEAN]]
  /\ receivable \in [CashBookings ->
       [status : {None, "outstanding", "partially_settled", "settled", "partially_reversed",
                  "reversed"},
        at : Nat, outstanding : 0 .. Payable, settled : 0 .. Payable, reversed : 0 .. Payable,
        reimbursed : 0 .. Payable]]
  /\ refund \in [CashRefunds -> [status : {None, "pending", "confirmed"},
                                 booking : CashBookings \union {None}, amount : Nat]]
  /\ settlement \in [Settlements ->
       [status : {None, "pending_payment", "pending_review", "completed", "cancelled", "rejected"},
        method : {None, "wallet", "stripe", "bank_transfer", "offline"}, amount : Nat,
        reference : BOOLEAN]]
  /\ card \in [Settlements -> {None, "open", "succeeded", "canceled"}]
  /\ call \in [Settlements -> {"idle", "wallet", "create", "record", "abandon", "cancel"}]
  /\ withdrawal \in [Withdrawals ->
       [status : {None, "pending_review", "processing", "cancelled", "rejected", "failed", "paid"},
        amount : Nat]]

\* Each receivable accounts for the commission of its booking: what is owed,
\* what was paid and what was reversed add up, and only what was paid is ever
\* reimbursed (docs/dispute-lifecycle-hardening.md:112).
ReceivableBalances ==
  \A c \in CashBookings : receivable[c].status # None =>
    /\ receivable[c].outstanding + receivable[c].settled + receivable[c].reversed
         = Payable + receivable[c].reimbursed
    /\ receivable[c].reimbursed <= receivable[c].settled

\* The payable is what payments can still settle, to the last unit: no release
\* and no settlement finds the "aggregate inconsistent with receivable ledger".
PayableIsCollectible ==
  account.payable =
    Sum([c \in {b \in CashBookings : Collectible(b)} |-> receivable[c].outstanding])

RecordedEarnings == {e \in Earnings : earning[e].status # None}

OpenWithdrawals == {w \in Withdrawals : withdrawal[w].status \in {"pending_review", "processing"}}

\* The pending balance is exactly the unreleased earnings and the withdrawals
\* under way: no clawback, release or payout takes another's money, none is
\* refused for want of it.
PendingBacked ==
  wallet.pending =
    Sum([e \in {d \in RecordedEarnings : ~earning[d].released} |-> Net - earning[e].reversed])
      + Sum([w \in OpenWithdrawals |-> withdrawal[w].amount])

ConfirmedBookings == {c \in CashBookings : receivable[c].status # None}

\* Settlements whose money came from outside the wallet.
PaidIn == {s \in Settlements : settlement[s].status = "completed" /\ settlement[s].method # "wallet"}

PaidOut == {w \in Withdrawals : withdrawal[w].status = "paid"}

\* Nothing is created and nothing lost: the balances less the debt are what the
\* Tasker earned, less the commission on cash, plus what came from outside,
\* less what was paid out.
BooksBalance ==
  wallet.available + wallet.pending - account.payable =
    Sum([e \in RecordedEarnings |-> Net - earning[e].reversed])
      - Sum([c \in ConfirmedBookings |-> Payable - receivable[c].reversed])
      + Sum([s \in PaidIn |-> settlement[s].amount])
      - Sum([w \in PaidOut |-> withdrawal[w].amount])

\* A card payment that Stripe took is applied, cancelled settlement or not.
CardPaymentCounts ==
  []<>(\A s \in Settlements : card[s] = "succeeded" => settlement[s].status = "completed")

\* The cash restriction follows the debt, also after the reversals that leave
\* it alone.
RestrictionFollowsDebt ==
  []<>(account.restricted = (account.payable >= Limit))
=============================================================================
