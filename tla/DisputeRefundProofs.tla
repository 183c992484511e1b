------------------------ MODULE DisputeRefundProofs ------------------------
(***************************************************************************)
(* Proofs about DisputeRefund, for any number of complaints and            *)
(* resolutions and any amounts: a refund that counts as made was made, the *)
(* earning is held while anything is disputed, what refunds return is      *)
(* within the charge, and the Tasker's wallet holds what they left.        *)
(***************************************************************************)
EXTENDS DisputeRefund, FiniteSetTheorems, TLAPS

ResolutionRow ==
  [status : {"none", "proposed", "accepted", "closed", "processing", "applied", "failed"},
   complaint : Complaints \union {None}, refund : BOOLEAN, accepted : SUBSET Users]
PaymentRow == [status : {"none", "processing", "succeeded", "failed"}, amount : Nat]
EarningRow == [status : {"pending", "partially_reversed", "reversed", "available"},
               blocked : BOOLEAN, reversed : Int, released : BOOLEAN]
WorkRow == [pc : {"idle", "prepare", "request", "settle", "fail", "record"}, amount : Nat,
            seen : {"none", "pending", "succeeded", "failed"}]

Typed ==
  /\ resolution \in [Resolutions -> ResolutionRow]
  /\ payment \in [Resolutions -> PaymentRow]
  /\ work \in [Resolutions -> WorkRow]
  /\ stripe \in [Resolutions -> {"none", "pending", "succeeded", "failed"}]
  /\ clawed \in [Resolutions -> Int]
  /\ earning \in EarningRow
  /\ wallet \in [pending : Int, available : Int]

\* Stripe once reported this refund as made.
Made(r) == stripe[r] \in {"succeeded", "failed"}

\* A resolution that nobody has begun to execute.
Untouched(r) == resolution[r].status \in {"none", "proposed", "accepted", "closed"}

\* What execution r has seen of Stripe is what Stripe did.
Seen(r) ==
  /\ Untouched(r) => work[r].pc = "idle" /\ stripe[r] = "none"
  /\ work[r].pc \in {"prepare", "request"} => stripe[r] = "none"
  /\ work[r].pc = "record" /\ work[r].seen = "succeeded" => Made(r)
  /\ <<r, "succeeded">> \in events => Made(r)

Applied(r) ==
  (resolution[r].status = "applied" /\ resolution[r].refund) \/ clawed[r] > 0 =>
    r \in credited \/ Made(r)

Backed == \A r \in Resolutions : Seen(r) /\ Applied(r)

IInv == Typed /\ Backed

books == <<resolution, work, stripe, events, clawed, credited>>

-----------------------------------------------------------------------------
(* Amounts. *)

LEMMA AmountsAreNat == Net \in Nat /\ Charged \in Nat /\ Charged > 0
  BY AmountsAssumption

LEMMA ProductIsNat == ASSUME NEW m \in Nat, NEW n \in Nat PROVE m * n \in Nat
  OBVIOUS

LEMMA QuotientIsNat == ASSUME NEW m \in Nat, NEW n \in Nat, n > 0 PROVE m \div n \in Nat
  OBVIOUS

LEMMA RoundedIsNat == ASSUME NEW n \in Nat, NEW d \in Nat, d > 0 PROVE Rounded(n, d) \in Nat
<1>1. 2 * n + d \in Nat /\ 2 * d \in Nat /\ 2 * d > 0
  OBVIOUS
<1> QED
  BY <1>1, QuotientIsNat DEF Rounded

LEMMA ClawbackIsInt ==
  ASSUME Typed, NEW pay \in [Resolutions -> PaymentRow], NEW r \in Resolutions
  PROVE Clawback(pay, r) \in Int /\ Unreleased \in Int
<1>1. pay[r].amount \in Nat /\ earning.reversed \in Int
  BY DEF Typed, PaymentRow, EarningRow
<1>2. Rounded(pay[r].amount * Net, Charged) \in Int
  BY <1>1, AmountsAreNat, ProductIsNat, RoundedIsNat
<1>3. RemainingEarning \in Int
  BY <1>1, AmountsAreNat DEF RemainingEarning
<1> QED
  BY <1>2, <1>3 DEF Clawback, Unreleased

\* An adjustment keeps the types, touches one clawback and gives the Tasker nothing.
LEMMA AdjustedTakes ==
  ASSUME Typed, NEW pay \in [Resolutions -> PaymentRow], NEW r \in Resolutions,
         Adjusted(pay, r)
  PROVE /\ clawed' \in [Resolutions -> Int]
        /\ \A q \in Resolutions : q # r => clawed'[q] = clawed[q]
        /\ earning' \in EarningRow
        /\ wallet' \in [pending : Int, available : Int]
        /\ wallet'.available <= wallet.available
<1> DEFINE amount == IF Clawable(r) THEN Clawback(pay, r) ELSE 0
           pending == IF amount <= Unreleased THEN amount ELSE Unreleased
           whole == earning.reversed + amount = Net
           adjusted == IF amount = 0 THEN earning
             ELSE [earning EXCEPT !.reversed = @ + amount,
                     !.status = IF whole THEN "reversed" ELSE "partially_reversed",
                     !.blocked = IF whole THEN FALSE ELSE @]
           others == \E c \in Complaints \ {resolution[r].complaint} :
                       complaint[c] = "active"
<1>1. amount \in Int /\ Unreleased \in Int
  BY ClawbackIsInt
<1>2. pending \in Int /\ amount - pending \in Int /\ amount - pending >= 0
  BY <1>1
<1>3. /\ clawed' = [clawed EXCEPT ![r] = @ + amount]
      /\ wallet' = [pending |-> wallet.pending - pending,
                    available |-> wallet.available - (amount - pending)]
      /\ earning' = Unblocked(adjusted, others)
  BY DEF Adjusted
<1> HIDE DEF amount, pending
<1>4. adjusted \in EarningRow
  <2>1. earning.reversed + amount \in Int
    BY <1>1 DEF Typed, EarningRow
  <2>2. whole \in BOOLEAN
    OBVIOUS
  <2> HIDE DEF whole
  <2>3. (IF whole THEN FALSE ELSE earning.blocked) \in BOOLEAN
    BY <2>2 DEF Typed, EarningRow
  <2> QED
    BY <2>1, <2>2, <2>3 DEF Typed, EarningRow
<1>5. earning' \in EarningRow
  <2> HIDE DEF adjusted
  <2> QED BY <1>3, <1>4 DEF Unblocked, EarningRow
<1>6. /\ wallet' \in [pending : Int, available : Int]
      /\ wallet'.available <= wallet.available
  <2>1. wallet.pending \in Int /\ wallet.available \in Int
    BY DEF Typed
  <2>2. /\ wallet.pending - pending \in Int /\ wallet.available - (amount - pending) \in Int
        /\ wallet.available - (amount - pending) <= wallet.available
    BY <1>2, <2>1
  <2> QED
    BY <1>3, <2>2
<1>7. /\ clawed' \in [Resolutions -> Int]
      /\ \A q \in Resolutions : q # r => clawed'[q] = clawed[q]
  BY <1>1, <1>3 DEF Typed
<1> QED
  BY <1>5, <1>6, <1>7

-----------------------------------------------------------------------------
(* What a step does to the resolutions it does not execute. *)

\* Nothing that Seen and Applied read of resolution q changes for the worse.
Spared(q) ==
  /\ resolution'[q] = resolution[q] /\ work'[q] = work[q]
  /\ stripe'[q] = stripe[q] /\ clawed'[q] = clawed[q]
  /\ q \in credited => q \in credited'
  /\ <<q, "succeeded">> \in events' => <<q, "succeeded">> \in events

LEMMA SparedStays ==
  ASSUME NEW q \in Resolutions, Backed, Spared(q) PROVE Seen(q)' /\ Applied(q)'
  BY DEF Backed, Spared, Seen, Applied, Untouched, Made

LEMMA OnlyOne ==
  ASSUME NEW r \in Resolutions, Backed, \A q \in Resolutions \ {r} : Spared(q),
         Seen(r)', Applied(r)'
  PROVE Backed'
  BY SparedStays DEF Backed

LEMMA BooksKept == Backed /\ UNCHANGED books => Backed'
<1> SUFFICES ASSUME Backed, UNCHANGED books PROVE Backed'
  OBVIOUS
<1>1. \A q \in Resolutions : Spared(q)
  BY DEF books, Spared
<1> QED
  BY <1>1, SparedStays DEF Backed

\* While anything is disputed nothing becomes available to the Tasker.
Held == ActiveComplaint \/ AdverseChargeback => wallet'.available <= wallet.available

LEMMA WalletKept == Typed /\ UNCHANGED wallet => Held
  BY DEF Typed, Held

Keeps == IInv' /\ Held

-----------------------------------------------------------------------------
(* Actions that leave the execution of refunds alone. *)

LEMMA BlockedIsTyped == Typed => Blocked(earning) \in EarningRow
  BY DEF Typed, Blocked, EarningRow

LEMMA UnblockedIsTyped == Typed => \A active : Unblocked(earning, active) \in EarningRow
  BY DEF Typed, Unblocked, EarningRow

\* Only the earning's flag changes.
LEMMA FlagKeeps ==
  ASSUME IInv, UNCHANGED books, UNCHANGED <<payment, wallet>>,
         earning' \in EarningRow
  PROVE Keeps
<1>1. Typed'
  BY DEF IInv, Typed, books
<1> QED
  BY <1>1, BooksKept, WalletKept DEF IInv, Keeps

LEMMA HoldingKeeps ==
  ASSUME IInv,
         \/ \E c \in Complaints : FileComplaint(c) \/ Reopen(c)
         \/ ReleaseHold \/ HoldFoundDispute \/ EarningAction
         \/ ChargebackMoves \/ ChargebackEvent
  PROVE Keeps
<1>1. /\ UNCHANGED books /\ UNCHANGED <<payment, wallet>>
  BY DEF FileComplaint, Reopen, ReleaseHold, HoldFoundDispute, EarningAction,
         ChargebackMoves, ChargebackEvent, provider, money, books
<1>2. earning' \in EarningRow
  <2>1. Typed /\ earning \in EarningRow
    BY DEF IInv, Typed
  <2>2. \/ earning' = Blocked(earning) \/ earning' = Unblocked(earning, ActiveComplaint)
        \/ earning' = [earning EXCEPT !.blocked = TRUE]
        \/ earning' = [earning EXCEPT !.blocked = FALSE]
        \/ earning' = earning
    BY DEF FileComplaint, Reopen, Reopened, ReleaseHold, HoldFoundDispute, EarningAction,
           ChargebackMoves, ChargebackEvent, money
  <2> QED
    BY <2>1, <2>2, BlockedIsTyped, UnblockedIsTyped DEF EarningRow
<1> QED
  BY <1>1, <1>2, FlagKeeps

\* The worker releases only what no complaint and no chargeback holds.
LEMMA ReleaseKeeps == IInv /\ ReleaseMatureEarning => Keeps
<1> SUFFICES ASSUME IInv, ReleaseMatureEarning PROVE Keeps
  OBVIOUS
<1>1. Held
  BY DEF ReleaseMatureEarning, Releasable, Held
<1>2. Backed'
  BY BooksKept DEF ReleaseMatureEarning, IInv, provider, books
<1>3. Typed'
  <2>1. /\ wallet.pending - (Net - earning.reversed) \in Int
        /\ wallet.available + (Net - earning.reversed) \in Int
    BY AmountsAreNat DEF IInv, Typed, EarningRow
  <2> QED
    BY <2>1 DEF ReleaseMatureEarning, IInv, Typed, provider, EarningRow
<1> QED
  BY <1>1, <1>2, <1>3 DEF IInv, Keeps

-----------------------------------------------------------------------------
(* Proposals: they touch resolutions that nobody executes. *)

\* An untouched resolution stays so, or is applied without a refund; the others
\* stay what they are.
LEMMA ProposalKeeps ==
  ASSUME IInv, UNCHANGED <<payment, work, provider, money>>,
         resolution' \in [Resolutions -> ResolutionRow],
         \A q \in Resolutions :
           \/ resolution'[q] = resolution[q]
           \/ /\ Untouched(q)
              /\ Untouched(q)' \/ resolution'[q].refund = FALSE
  PROVE Keeps
<1>1. Typed'
  BY DEF IInv, Typed, money, provider
<1>2. ASSUME NEW q \in Resolutions PROVE Seen(q)' /\ Applied(q)'
  BY DEF IInv, Backed, Seen, Applied, Untouched, Made, money, provider
<1>3. Held
  BY WalletKept DEF IInv, money
<1> QED
  BY <1>1, <1>2, <1>3 DEF IInv, Keeps, Backed

LEMMA WithdrawnIs ==
  ASSUME NEW r \in ResolutionRow
  PROVE /\ Withdrawn(r) \in ResolutionRow
        /\ \/ Withdrawn(r) = r
           \/ (r.status = "proposed" /\ Withdrawn(r).status = "closed")
<1> DEFINE closed == [r EXCEPT !.status = "closed", !.accepted = {}]
<1>1. closed \in ResolutionRow /\ closed.status = "closed"
  BY DEF ResolutionRow
<1>2. Withdrawn(r) = IF r.status = "proposed" THEN closed ELSE r
  BY DEF Withdrawn
<1> HIDE DEF closed
<1>3. CASE r.status = "proposed"
  BY <1>1, <1>2, <1>3
<1>4. CASE r.status # "proposed"
  BY <1>2, <1>4
<1> QED
  BY <1>3, <1>4

LEMMA WithdrawKeeps == ASSUME IInv, NEW c \in Complaints, Withdraw(c) PROVE Keeps
<1>1. \A q \in Resolutions : resolution[q] \in ResolutionRow
  BY DEF IInv, Typed
<1>2. UNCHANGED <<payment, work, provider, money>>
  BY DEF Withdraw
<1>3. resolution' \in [Resolutions -> ResolutionRow]
  BY <1>1, WithdrawnIs DEF Withdraw
<1>4. ASSUME NEW q \in Resolutions
      PROVE resolution'[q] = resolution[q] \/ (Untouched(q) /\ Untouched(q)')
  BY <1>1, WithdrawnIs DEF Withdraw, Untouched
<1> QED
  BY <1>2, <1>3, <1>4, ProposalKeeps

LEMMA ProposeKeeps ==
  ASSUME IInv, NEW r \in Resolutions, NEW c \in Complaints, Propose(r, c) PROVE Keeps
<1> DEFINE new == [NoResolution EXCEPT !.status = "proposed", !.complaint = c]
<1>1. \A q \in Resolutions : resolution[q] \in ResolutionRow
  BY DEF IInv, Typed
<1>2. UNCHANGED <<payment, work, provider, money>>
  BY DEF Propose
<1>3. new \in ResolutionRow /\ new.status = "proposed"
  BY DEF NoResolution, ResolutionRow, None
<1>4. resolution' = [s \in Resolutions |->
        IF s = r THEN new
        ELSE IF resolution[s].complaint = c THEN Withdrawn(resolution[s])
        ELSE resolution[s]]
  BY DEF Propose
<1> HIDE DEF new
<1>5. resolution' \in [Resolutions -> ResolutionRow]
  BY <1>1, <1>3, <1>4, WithdrawnIs
<1>6. ASSUME NEW q \in Resolutions
      PROVE resolution'[q] = resolution[q] \/ (Untouched(q) /\ Untouched(q)')
  BY <1>1, <1>3, <1>4, WithdrawnIs DEF Propose, Untouched, None
<1> QED
  BY <1>2, <1>5, <1>6, ProposalKeeps

LEMMA AnswerKeeps ==
  ASSUME IInv, NEW r \in Resolutions,
         CloseProposal(r) \/ \E user \in Users : AcceptProposal(r, user)
  PROVE Keeps
<1>1. resolution[r] \in ResolutionRow /\ resolution \in [Resolutions -> ResolutionRow]
  BY DEF IInv, Typed
<1>2. UNCHANGED <<payment, work, provider, money>>
  BY DEF CloseProposal, AcceptProposal
<1>3. PICK new \in ResolutionRow :
        /\ resolution' = [resolution EXCEPT ![r] = new]
        /\ new.status \in {"none", "proposed", "accepted", "closed"}
  <2>1. CASE CloseProposal(r)
    <3>1. Withdrawn(resolution[r]) \in ResolutionRow /\ Withdrawn(resolution[r]).status
            \in {"none", "proposed", "accepted", "closed"}
      BY <1>1, <2>1, WithdrawnIs DEF CloseProposal
    <3> QED
      BY <2>1, <3>1 DEF CloseProposal
  <2>2. ASSUME NEW user \in Users, AcceptProposal(r, user)
        PROVE \E new \in ResolutionRow :
                /\ resolution' = [resolution EXCEPT ![r] = new]
                /\ new.status \in {"none", "proposed", "accepted", "closed"}
    <3> DEFINE first == [resolution[r] EXCEPT !.accepted = {user}]
               second == [resolution[r] EXCEPT !.accepted = {}, !.status = "accepted"]
    <3>1. first \in ResolutionRow /\ first.status = "proposed"
      BY <1>1, <2>2 DEF ResolutionRow, AcceptProposal
    <3>2. second \in ResolutionRow /\ second.status = "accepted"
      BY <1>1 DEF ResolutionRow
    <3>3. resolution' = [resolution EXCEPT ![r] = first]
            \/ resolution' = [resolution EXCEPT ![r] = second]
      BY <2>2 DEF AcceptProposal
    <3> QED
      BY <3>1, <3>2, <3>3
  <2> QED
    BY <2>1, <2>2
<1>4. Untouched(r) /\ Untouched(r)'
  BY <1>1, <1>3 DEF Untouched, CloseProposal, AcceptProposal
<1>5. resolution' \in [Resolutions -> ResolutionRow]
        /\ \A q \in Resolutions \ {r} : resolution'[q] = resolution[q]
  BY <1>1, <1>3
<1> QED
  BY <1>2, <1>4, <1>5, ProposalKeeps

-----------------------------------------------------------------------------
(* Resolutions by an administrator. *)

LEMMA ResolvedIs ==
  ASSUME NEW r \in Resolutions, NEW c \in Complaints, NEW status, NEW refund \in BOOLEAN,
         status \in {"applied", "processing"}, Typed, Resolved(r, c, status, refund)
  PROVE /\ resolution' \in [Resolutions -> ResolutionRow]
        /\ resolution'[r].status = status /\ resolution'[r].refund = refund
        /\ \A q \in Resolutions \ {r} : resolution'[q] = resolution[q]
<1>1. [status |-> status, complaint |-> c, refund |-> refund, accepted |-> {}]
        \in ResolutionRow
  BY DEF ResolutionRow
<1> QED
  BY <1>1 DEF Resolved, Typed

LEMMA ResolveKeeps ==
  ASSUME IInv, NEW r \in Resolutions, NEW c \in Complaints, ResolveWithoutRefund(r, c)
  PROVE Keeps
<1>1. Resolved(r, c, "applied", FALSE) /\ UNCHANGED <<payment, work, provider, money>>
  BY DEF ResolveWithoutRefund
<1>2. Untouched(r)
  BY DEF ResolveWithoutRefund, Usable, Untouched, None
<1> QED
  BY <1>1, <1>2, ResolvedIs, ProposalKeeps DEF IInv

LEMMA ResolveRefundKeeps ==
  ASSUME IInv, NEW r \in Resolutions, NEW c \in Complaints, ResolveWithRefund(r, c)
  PROVE Keeps
<1>1. Resolved(r, c, "processing", TRUE) /\ UNCHANGED <<payment, provider, money>>
  BY DEF ResolveWithRefund
<1>2. Untouched(r)
  BY DEF ResolveWithRefund, Usable, Untouched, None
<1>3. PICK amount \in Nat :
        work' = [work EXCEPT ![r] = [Idle EXCEPT !.pc = "prepare", !.amount = amount]]
  <2>1. PICK amount \in 1 .. Refundable :
          work' = [work EXCEPT ![r] = [Idle EXCEPT !.pc = "prepare", !.amount = amount]]
    BY DEF ResolveWithRefund
  <2>2. amount \in Nat
    OBVIOUS
  <2> QED
    BY <2>1, <2>2
<1>4. [Idle EXCEPT !.pc = "prepare", !.amount = amount] \in WorkRow
  BY DEF Idle, WorkRow, None
<1>5. /\ work' \in [Resolutions -> WorkRow]
      /\ \A q \in Resolutions \ {r} : work'[q] = work[q]
      /\ work'[r].pc = "prepare"
  BY <1>3, <1>4 DEF IInv, Typed, Idle
<1>6. /\ resolution' \in [Resolutions -> ResolutionRow]
      /\ resolution'[r].status = "processing"
      /\ \A q \in Resolutions \ {r} : resolution'[q] = resolution[q]
  BY <1>1, ResolvedIs DEF IInv
<1>7. Typed'
  BY <1>1, <1>5, <1>6 DEF IInv, Typed, money, provider
<1>8. Seen(r)' /\ Applied(r)'
  BY <1>1, <1>2, <1>5, <1>6
  DEF IInv, Backed, Seen, Applied, Untouched, Made, money, provider
<1>9. Backed'
  BY <1>1, <1>5, <1>6, <1>8, OnlyOne DEF IInv, Spared, money, provider
<1> QED
  BY <1>1, <1>7, <1>9, WalletKept DEF IInv, Keeps, money

-----------------------------------------------------------------------------
(* The execution of a refund. *)

\* What an execution does to its own entry.
LEMMA ExecutionKeeps ==
  ASSUME IInv, Typed', Held, NEW r \in Resolutions, Seen(r)', Applied(r)',
         \A q \in Resolutions \ {r} : Spared(q)
  PROVE Keeps
  BY OnlyOne DEF IInv, Keeps

LEMMA EndIs == ASSUME Typed, NEW r \in Resolutions, End(r) PROVE
  /\ work' \in [Resolutions -> WorkRow] /\ work'[r].pc = "idle"
  /\ \A q \in Resolutions \ {r} : work'[q] = work[q]
<1>1. Idle \in WorkRow /\ Idle.pc = "idle"
  BY DEF Idle, WorkRow, None
<1> QED
  BY <1>1 DEF End, Typed

LEMMA GotoIs ==
  ASSUME Typed, NEW r \in Resolutions, NEW pc, Goto(r, pc),
         pc \in {"idle", "prepare", "request", "settle", "fail", "record"}
  PROVE /\ work' \in [Resolutions -> WorkRow] /\ work'[r].pc = pc
        /\ \A q \in Resolutions \ {r} : work'[q] = work[q]
<1>1. [work[r] EXCEPT !.pc = pc] \in WorkRow /\ work[r] \in WorkRow
  BY DEF Typed, WorkRow
<1>2. [work[r] EXCEPT !.pc = pc].pc = pc
  BY <1>1 DEF WorkRow
<1>3. work' = [work EXCEPT ![r] = [work[r] EXCEPT !.pc = pc]]
  BY DEF Goto
<1> QED
  BY <1>1, <1>2, <1>3 DEF Typed

\* A status written into a row.
LEMMA StatusIs ==
  ASSUME Typed, NEW r \in Resolutions,
         NEW s \in {"processing", "applied", "failed"}
  PROVE /\ [resolution EXCEPT ![r].status = s] \in [Resolutions -> ResolutionRow]
        /\ [resolution EXCEPT ![r].status = s][r].status = s
        /\ \A q \in Resolutions \ {r} : [resolution EXCEPT ![r].status = s][q] = resolution[q]
<1> DEFINE row == [resolution[r] EXCEPT !.status = s]
<1>1. row \in ResolutionRow /\ row.status = s
  BY DEF Typed, ResolutionRow
<1>2. [resolution EXCEPT ![r].status = s] = [resolution EXCEPT ![r] = row]
  OBVIOUS
<1> HIDE DEF row
<1> QED
  BY <1>1, <1>2 DEF Typed

LEMMA PaidIs ==
  ASSUME Typed, NEW r \in Resolutions, NEW s \in {"processing", "succeeded", "failed"}
  PROVE [payment EXCEPT ![r].status = s] \in [Resolutions -> PaymentRow]
<1> DEFINE row == [payment[r] EXCEPT !.status = s]
<1>1. row \in PaymentRow
  BY DEF Typed, PaymentRow
<1>2. [payment EXCEPT ![r].status = s] = [payment EXCEPT ![r] = row]
  OBVIOUS
<1> HIDE DEF row
<1> QED
  BY <1>1, <1>2 DEF Typed

LEMMA InterruptedKeeps == ASSUME IInv, NEW r \in Resolutions, WorkInterrupted(r) PROVE Keeps
<1>1. /\ work' \in [Resolutions -> WorkRow] /\ work'[r].pc = "idle"
      /\ \A q \in Resolutions \ {r} : work'[q] = work[q]
  BY EndIs DEF WorkInterrupted, IInv
<1>2. UNCHANGED <<resolution, payment, provider, money>>
  BY DEF WorkInterrupted
<1>3. Typed'
  BY <1>1, <1>2 DEF IInv, Typed, money, provider
<1>4. Seen(r)' /\ Applied(r)'
  BY <1>1, <1>2 DEF IInv, Backed, Seen, Applied, Untouched, Made, money, provider
<1>5. \A q \in Resolutions \ {r} : Spared(q)
  BY <1>1, <1>2 DEF Spared, money, provider
<1> QED
  BY <1>2, <1>3, <1>4, <1>5, WalletKept, ExecutionKeeps DEF IInv, money

LEMMA PrepareKeeps == ASSUME IInv, NEW r \in Resolutions, PrepareRefund(r) PROVE Keeps
<1> USE DEF IInv
<1>1. UNCHANGED <<provider, money>> /\ At(r, "prepare")
  BY DEF PrepareRefund
<1>2. /\ ~Untouched(r) /\ stripe[r] = "none"
  BY <1>1 DEF Backed, Seen, At
<1>3. /\ work' \in [Resolutions -> WorkRow]
      /\ work'[r].pc \in {"idle", "settle", "fail", "request"}
      /\ \A q \in Resolutions \ {r} : work'[q] = work[q]
      /\ payment' \in [Resolutions -> PaymentRow]
      /\ \/ resolution' = resolution
         \/ resolution' = [resolution EXCEPT ![r].status = "processing"]
  <2>1. CASE SettledPayment /\ work[r].amount <= Refundable
    <3> DEFINE pc == CASE booking.source = "wallet" -> "settle"
                       [] booking.source = "stripe" /\ booking.intent = 0 -> "fail"
                       [] OTHER -> "request"
               row == [status |-> "processing", amount |-> work[r].amount]
    <3>1. pc \in {"settle", "fail", "request"}
      OBVIOUS
    <3>2. row \in PaymentRow
      BY DEF Typed, WorkRow, PaymentRow
    <3>3. payment' = [payment EXCEPT ![r] = row] /\ Goto(r, pc)
            /\ resolution' = [resolution EXCEPT ![r].status = "processing"]
      BY <2>1 DEF PrepareRefund
    <3> HIDE DEF pc, row
    <3> QED
      BY <3>1, <3>2, <3>3, GotoIs DEF Typed
  <2>2. CASE ~(SettledPayment /\ work[r].amount <= Refundable)
    BY <2>2, EndIs DEF PrepareRefund, Typed
  <2> QED
    BY <2>1, <2>2
<1>4. /\ resolution' \in [Resolutions -> ResolutionRow]
      /\ resolution'[r] = resolution[r] \/ resolution'[r].status = "processing"
      /\ \A q \in Resolutions \ {r} : resolution'[q] = resolution[q]
  <2>1. CASE resolution' = resolution
    BY <2>1 DEF Typed
  <2>2. CASE resolution' = [resolution EXCEPT ![r].status = "processing"]
    <3> DEFINE s == "processing"
    <3>1. s \in {"processing", "applied", "failed"} /\ s = "processing"
      OBVIOUS
    <3>2. resolution' = [resolution EXCEPT ![r].status = s]
      BY <2>2
    <3> HIDE DEF s
    <3> QED
      BY <3>1, <3>2, StatusIs
  <2> QED
    BY <1>3, <2>1, <2>2
<1>5. Typed'
  BY <1>1, <1>3, <1>4 DEF Typed, money, provider
<1>6. Seen(r)' /\ Applied(r)'
  BY <1>1, <1>2, <1>3, <1>4 DEF Backed, Seen, Applied, Untouched, Made, money, provider
<1>7. \A q \in Resolutions \ {r} : Spared(q)
  BY <1>1, <1>3, <1>4 DEF Spared, money, provider
<1> QED
  BY <1>1, <1>5, <1>6, <1>7, WalletKept, ExecutionKeeps DEF money

LEMMA RequestKeeps == ASSUME IInv, NEW r \in Resolutions, RequestRefund(r) PROVE Keeps
<1> USE DEF IInv
<1>1. UNCHANGED <<resolution, payment, money>> /\ At(r, "request")
  BY DEF RequestRefund
<1>2. ~Untouched(r) /\ stripe[r] = "none"
  BY <1>1 DEF Backed, Seen, At
<1>3. CASE Goto(r, "fail") /\ UNCHANGED provider
  <2>1. /\ work' \in [Resolutions -> WorkRow] /\ work'[r].pc = "fail"
        /\ \A q \in Resolutions \ {r} : work'[q] = work[q]
    BY <1>3, GotoIs
  <2>2. Typed'
    BY <1>1, <1>3, <2>1 DEF Typed, money, provider
  <2>3. Seen(r)' /\ Applied(r)'
    BY <1>1, <1>2, <1>3, <2>1 DEF Backed, Seen, Applied, Untouched, Made, money, provider
  <2>4. \A q \in Resolutions \ {r} : Spared(q)
    BY <1>1, <1>3, <2>1 DEF Spared, money, provider
  <2> QED
    BY <1>1, <2>2, <2>3, <2>4, WalletKept, ExecutionKeeps DEF money
<1>4. ASSUME NEW status \in {"pending", "succeeded", "failed"},
             stripe' = [stripe EXCEPT ![r] = status],
             events' = events \union {<<r, status>>},
             \/ work' = [work EXCEPT ![r].pc = "record", ![r].seen = status]
             \/ Goto(r, "fail")
      PROVE Keeps
  <2>1. /\ work' \in [Resolutions -> WorkRow]
        /\ \A q \in Resolutions \ {r} : work'[q] = work[q]
        /\ \/ work'[r].pc = "record" /\ work'[r].seen = status
           \/ work'[r].pc = "fail"
    <3>1. CASE Goto(r, "fail")
      BY <3>1, GotoIs
    <3>2. CASE work' = [work EXCEPT ![r].pc = "record", ![r].seen = status]
      <4> DEFINE row == [work[r] EXCEPT !.pc = "record", !.seen = status]
      <4>1. row \in WorkRow /\ row.pc = "record" /\ row.seen = status
        BY DEF Typed, WorkRow
      <4>2. work' = [work EXCEPT ![r] = row]
        BY <3>2
      <4> HIDE DEF row
      <4> QED
        BY <4>1, <4>2 DEF Typed
    <3> QED
      BY <1>4, <3>1, <3>2
  <2>2. /\ stripe' \in [Resolutions -> {"none", "pending", "succeeded", "failed"}]
        /\ stripe'[r] = status /\ \A q \in Resolutions \ {r} : stripe'[q] = stripe[q]
    BY <1>4 DEF Typed
  <2>3. Typed'
    BY <1>1, <2>1, <2>2 DEF Typed, money
  <2>4. Seen(r)' /\ Applied(r)'
    BY <1>1, <1>2, <1>4, <2>1, <2>2 DEF Backed, Seen, Applied, Untouched, Made, money
  <2>5. \A q \in Resolutions \ {r} : Spared(q)
    BY <1>1, <1>4, <2>1, <2>2 DEF Spared, money
  <2> QED
    BY <1>1, <2>3, <2>4, <2>5, WalletKept, ExecutionKeeps DEF money
<1> QED
  BY <1>3, <1>4 DEF RequestRefund

-----------------------------------------------------------------------------
(* What is recorded of a refund. *)

\* A record about refund r writes no other row and gives the Tasker nothing.
Recorded(r) ==
  /\ payment' \in [Resolutions -> PaymentRow]
  /\ resolution' \in [Resolutions -> ResolutionRow]
  /\ clawed' \in [Resolutions -> Int]
  /\ earning' \in EarningRow
  /\ wallet' \in [pending : Int, available : Int]
  /\ wallet'.available <= wallet.available
  /\ \A q \in Resolutions \ {r} : resolution'[q] = resolution[q] /\ clawed'[q] = clawed[q]

LEMMA SettledIs ==
  ASSUME Typed, NEW r \in Resolutions, NEW pay \in [Resolutions -> PaymentRow],
         RefundSettled(pay, r)
  PROVE Recorded(r) /\ resolution'[r].status = "applied"
<1>1. Adjusted(pay, r) /\ payment' = pay
  BY DEF RefundSettled
<1>2. /\ resolution' \in [Resolutions -> ResolutionRow]
      /\ resolution'[r].status = "applied"
      /\ \A q \in Resolutions \ {r} : resolution'[q] = resolution[q]
  <2> DEFINE s == "applied"
  <2>1. s \in {"processing", "applied", "failed"} /\ s = "applied"
    OBVIOUS
  <2>2. resolution' = [resolution EXCEPT ![r].status = s]
    BY DEF RefundSettled
  <2> HIDE DEF s
  <2> QED
    BY <2>1, <2>2, StatusIs
<1>3. /\ clawed' \in [Resolutions -> Int]
      /\ \A q \in Resolutions \ {r} : clawed'[q] = clawed[q]
      /\ earning' \in EarningRow
      /\ wallet' \in [pending : Int, available : Int]
      /\ wallet'.available <= wallet.available
  BY <1>1, AdjustedTakes DEF EarningRow
<1> QED
  BY <1>1, <1>2, <1>3 DEF Recorded

LEMMA FailedIs ==
  ASSUME NEW rs \in [Resolutions -> ResolutionRow], NEW r \in Resolutions,
         FailedResolution(rs, r)
  PROVE /\ resolution' \in [Resolutions -> ResolutionRow]
        /\ \A q \in Resolutions \ {r} : resolution'[q] = rs[q]
        /\ \/ resolution'[r] = rs[r] /\ rs[r].status = "applied"
           \/ resolution'[r].status = "failed"
<1>1. CASE rs[r].status = "applied"
  BY <1>1 DEF FailedResolution
<1>2. CASE rs[r].status # "applied"
  <2> DEFINE row == [rs[r] EXCEPT !.status = "failed"]
  <2>1. row \in ResolutionRow /\ row.status = "failed"
    BY DEF ResolutionRow
  <2>2. resolution' = [rs EXCEPT ![r] = row]
    BY <1>2 DEF FailedResolution
  <2> HIDE DEF row
  <2> QED
    BY <2>1, <2>2
<1> QED
  BY <1>1, <1>2

LEMMA BookedIs ==
  ASSUME Typed, NEW r \in Resolutions, NEW seen \in {"pending", "succeeded", "failed"},
         BookedAs(r, seen)
  PROVE /\ Recorded(r)
        /\ resolution'[r].status \in {"processing", "applied", "failed"}
        /\ seen # "succeeded" =>
             resolution'[r].status # "applied" /\ clawed'[r] = clawed[r]
<1> DEFINE status == MapRefundStatus(seen)
           pay == [payment EXCEPT ![r].status = status]
<1>1. /\ status \in {"processing", "succeeded", "failed"}
      /\ status = "succeeded" => seen = "succeeded"
  BY DEF MapRefundStatus
<1>2. pay \in [Resolutions -> PaymentRow]
  <2> HIDE DEF status
  <2> QED
    BY <1>1, PaidIs
<1>3. CASE status = "succeeded" /\ RefundSettled(pay, r)
  <2> HIDE DEF pay
  <2> QED
    BY <1>1, <1>2, <1>3, SettledIs
<1>4. ASSUME UNCHANGED <<earning, wallet, clawed>>, payment' = pay,
             resolution' \in [Resolutions -> ResolutionRow],
             \A q \in Resolutions \ {r} : resolution'[q] = resolution[q],
             resolution'[r].status \in {"processing", "failed"}
      PROVE /\ Recorded(r)
            /\ resolution'[r].status \in {"processing", "applied", "failed"}
            /\ resolution'[r].status # "applied" /\ clawed'[r] = clawed[r]
  <2> HIDE DEF pay
  <2>1. wallet.available <= wallet.available /\ earning \in EarningRow
    BY DEF Typed, EarningRow
  <2> QED
    BY <1>2, <1>4, <2>1 DEF Typed, Recorded
<1>5. CASE status = "failed" /\ payment' = pay
           /\ FailedResolution([resolution EXCEPT ![r].status = "failed"], r)
           /\ UNCHANGED <<booking, earning, wallet, clawed>>
  <2> DEFINE s == "failed"
             rs == [resolution EXCEPT ![r].status = s]
  <2>1. s \in {"processing", "applied", "failed"} /\ s = "failed"
    OBVIOUS
  <2>2. FailedResolution(rs, r)
    BY <1>5
  <2>3. /\ rs \in [Resolutions -> ResolutionRow] /\ rs[r].status = "failed"
        /\ \A q \in Resolutions \ {r} : rs[q] = resolution[q]
    <3> HIDE DEF s
    <3> QED
      BY <2>1, StatusIs
  <2> HIDE DEF rs
  <2>4. /\ resolution' \in [Resolutions -> ResolutionRow]
        /\ \A q \in Resolutions \ {r} : resolution'[q] = resolution[q]
        /\ resolution'[r].status = "failed"
    BY <2>2, <2>3, FailedIs
  <2> QED
    BY <1>4, <1>5, <2>4
<1>6. CASE status = "processing" /\ payment' = pay
           /\ resolution' = [resolution EXCEPT ![r].status = "processing"]
           /\ UNCHANGED <<booking, complaint, earning, wallet, clawed>>
  <2> DEFINE s == "processing"
  <2>1. s \in {"processing", "applied", "failed"} /\ s = "processing"
    OBVIOUS
  <2>2. resolution' = [resolution EXCEPT ![r].status = s]
    BY <1>6
  <2>3. /\ resolution' \in [Resolutions -> ResolutionRow]
        /\ \A q \in Resolutions \ {r} : resolution'[q] = resolution[q]
        /\ resolution'[r].status = "processing"
    <3> HIDE DEF s
    <3> QED
      BY <2>1, <2>2, StatusIs
  <2> QED
    BY <1>4, <1>6, <2>3
<1> QED
  BY <1>3, <1>5, <1>6 DEF BookedAs

-----------------------------------------------------------------------------
(* The actions that record a refund. *)

LEMMA FailKeeps == ASSUME IInv, NEW r \in Resolutions, FailDisputeRefund(r) PROVE Keeps
<1> USE DEF IInv
<1>1. /\ UNCHANGED <<provider, money>> /\ At(r, "fail")
      /\ FailedResolution(resolution, r) /\ End(r)
  BY DEF FailDisputeRefund
<1>2. ~Untouched(r)
  BY <1>1 DEF Backed, Seen, At
<1>3. payment' \in [Resolutions -> PaymentRow]
  <2> DEFINE row == [payment[r] EXCEPT !.status = IF @ = "succeeded" THEN @ ELSE "failed"]
  <2>1. row \in PaymentRow
    BY DEF Typed, PaymentRow
  <2>2. payment' = [payment EXCEPT ![r] = row]
    BY DEF FailDisputeRefund
  <2> HIDE DEF row
  <2> QED
    BY <2>1, <2>2 DEF Typed
<1>4. /\ resolution' \in [Resolutions -> ResolutionRow]
      /\ \A q \in Resolutions \ {r} : resolution'[q] = resolution[q]
      /\ resolution'[r] = resolution[r] \/ resolution'[r].status = "failed"
  BY <1>1, FailedIs DEF Typed
<1>5. /\ work' \in [Resolutions -> WorkRow] /\ work'[r].pc = "idle"
      /\ \A q \in Resolutions \ {r} : work'[q] = work[q]
  BY <1>1, EndIs
<1>6. Typed'
  BY <1>1, <1>3, <1>4, <1>5 DEF Typed, money, provider
<1>7. Seen(r)' /\ Applied(r)'
  BY <1>1, <1>2, <1>4, <1>5 DEF Backed, Seen, Applied, Untouched, Made, money, provider
<1>8. \A q \in Resolutions \ {r} : Spared(q)
  BY <1>1, <1>4, <1>5 DEF Spared, money, provider
<1> QED
  BY <1>1, <1>6, <1>7, <1>8, WalletKept, ExecutionKeeps DEF money

LEMMA SettleWalletKeeps == ASSUME IInv, NEW r \in Resolutions, SettleWalletRefund(r) PROVE Keeps
<1> USE DEF IInv
<1>1. /\ UNCHANGED provider /\ credited' = credited \union {r} /\ End(r)
  BY DEF SettleWalletRefund
<1>2. Recorded(r) /\ resolution'[r].status = "applied"
  <2> DEFINE s == "succeeded"
             pay == [payment EXCEPT ![r].status = s]
  <2>1. s \in {"processing", "succeeded", "failed"}
    OBVIOUS
  <2>2. RefundSettled(pay, r)
    BY DEF SettleWalletRefund
  <2>3. pay \in [Resolutions -> PaymentRow]
    <3> HIDE DEF s
    <3> QED
      BY <2>1, PaidIs
  <2> HIDE DEF pay
  <2> QED
    BY <2>2, <2>3, SettledIs
<1>3. /\ work' \in [Resolutions -> WorkRow] /\ work'[r].pc = "idle"
      /\ \A q \in Resolutions \ {r} : work'[q] = work[q]
  BY <1>1, EndIs
<1>4. Typed' /\ Held
  BY <1>1, <1>2, <1>3 DEF Typed, Held, Recorded, EarningRow, provider
<1>5. Seen(r)' /\ Applied(r)'
  BY <1>1, <1>2, <1>3 DEF Backed, Seen, Applied, Untouched, Made, provider
<1>6. \A q \in Resolutions \ {r} : Spared(q)
  BY <1>1, <1>2, <1>3 DEF Spared, Recorded, provider
<1> QED
  BY <1>4, <1>5, <1>6, ExecutionKeeps

LEMMA SyncKeeps == ASSUME IInv, NEW r \in Resolutions, SyncRefund(r) PROVE Keeps
<1> USE DEF IInv
<1>1. /\ UNCHANGED <<provider, credited>> /\ At(r, "record") /\ BookedAs(r, work[r].seen)
      /\ End(r)
  BY DEF SyncRefund
<1>2. /\ work' \in [Resolutions -> WorkRow] /\ work'[r].pc = "idle"
      /\ \A q \in Resolutions \ {r} : work'[q] = work[q]
  BY <1>1, EndIs
<1>3. work[r].seen = "succeeded" => Made(r)
  BY <1>1 DEF Backed, Seen, At
<1>4. work[r].seen \in {"pending", "succeeded", "failed"}
  <2>1. work[r].seen \in {"none", "pending", "succeeded", "failed"}
    BY DEF Typed, WorkRow
  <2>2. MapRefundStatus(work[r].seen) \in {"processing", "succeeded", "failed"}
    BY <1>1 DEF BookedAs
  <2> QED
    BY <2>1, <2>2 DEF MapRefundStatus
<1>5. /\ Recorded(r)
      /\ resolution'[r].status \in {"processing", "applied", "failed"}
      /\ work[r].seen # "succeeded" =>
           resolution'[r].status # "applied" /\ clawed'[r] = clawed[r]
  BY <1>1, <1>4, BookedIs
<1>6. Typed' /\ Held
  BY <1>1, <1>2, <1>5 DEF Typed, Held, Recorded, EarningRow, provider
<1>7. Seen(r)' /\ Applied(r)'
  BY <1>1, <1>2, <1>3, <1>5 DEF Backed, Seen, Applied, Untouched, Made, provider
<1>8. \A q \in Resolutions \ {r} : Spared(q)
  BY <1>1, <1>2, <1>5 DEF Spared, Recorded, provider
<1> QED
  BY <1>6, <1>7, <1>8, ExecutionKeeps

LEMMA EventKeeps ==
  ASSUME IInv, NEW r \in Resolutions, NEW status \in {"pending", "succeeded", "failed"},
         RefundEvent(r, status)
  PROVE Keeps
<1> USE DEF IInv
<1>1. /\ UNCHANGED <<work, stripe, credited>> /\ <<r, status>> \in events
      /\ events' = events \ {<<r, status>>}
  BY DEF RefundEvent
<1>2. status = "succeeded" => Made(r)
  BY <1>1 DEF Backed, Seen
<1>3. CASE BookedAs(r, status)
  <2>1. /\ Recorded(r)
        /\ resolution'[r].status \in {"processing", "applied", "failed"}
        /\ status # "succeeded" =>
             resolution'[r].status # "applied" /\ clawed'[r] = clawed[r]
    BY <1>3, BookedIs
  <2>2. Typed' /\ Held
    BY <1>1, <2>1 DEF Typed, Held, Recorded, EarningRow
  <2>3. Seen(r)' /\ Applied(r)'
    BY <1>1, <1>2, <2>1 DEF Backed, Seen, Applied, Untouched, Made
  <2>4. \A q \in Resolutions \ {r} : Spared(q)
    BY <1>1, <2>1 DEF Spared, Recorded
  <2> QED
    BY <2>2, <2>3, <2>4, ExecutionKeeps
<1>4. CASE UNCHANGED <<booking, complaint, resolution, payment, earning, wallet, clawed>>
  <2>1. Typed'
    BY <1>1, <1>4 DEF Typed
  <2>2. Seen(r)' /\ Applied(r)'
    BY <1>1, <1>4 DEF Backed, Seen, Applied, Untouched, Made
  <2>3. \A q \in Resolutions \ {r} : Spared(q)
    BY <1>1, <1>4 DEF Spared
  <2> QED
    BY <1>4, <2>1, <2>2, <2>3, WalletKept, ExecutionKeeps
<1> QED
  BY <1>3, <1>4 DEF RefundEvent

LEMMA StripeKeeps == ASSUME IInv, NEW r \in Resolutions, StripeRefundSettles(r) PROVE Keeps
<1> USE DEF IInv
<1>1. UNCHANGED <<resolution, payment, work, money>>
  BY DEF StripeRefundSettles
<1>2. PICK status \in {"succeeded", "failed"} :
        /\ stripe[r] \in {"pending", "succeeded"}
        /\ stripe' = [stripe EXCEPT ![r] = status]
        /\ events' = events \union {<<r, status>>}
  BY DEF StripeRefundSettles
<1>3. /\ stripe' \in [Resolutions -> {"none", "pending", "succeeded", "failed"}]
      /\ stripe'[r] = status /\ \A q \in Resolutions \ {r} : stripe'[q] = stripe[q]
  BY <1>2 DEF Typed
<1>4. Typed'
  BY <1>1, <1>3 DEF Typed, money
<1>5. Seen(r)' /\ Applied(r)'
  BY <1>1, <1>2, <1>3 DEF Backed, Seen, Applied, Untouched, Made, money
<1>6. \A q \in Resolutions \ {r} : Spared(q)
  BY <1>1, <1>2, <1>3 DEF Spared, money
<1> QED
  BY <1>1, <1>4, <1>5, <1>6, WalletKept, ExecutionKeeps DEF money

-----------------------------------------------------------------------------
(* The results. *)

LEMMA InitInv == Init => IInv
<1> SUFFICES ASSUME Init PROVE IInv
  OBVIOUS
<1>1. NoResolution \in ResolutionRow /\ NoPayment \in PaymentRow /\ Idle \in WorkRow
  BY DEF NoResolution, NoPayment, Idle, ResolutionRow, PaymentRow, WorkRow, None
<1>2. Typed
  BY <1>1, AmountsAreNat DEF Init, Typed, None, EarningRow
<1>3. Backed
  BY DEF Init, Backed, Seen, Applied, Untouched, Made, NoResolution, Idle, None
<1> QED
  BY <1>2, <1>3 DEF IInv

LEMMA StepKeeps == IInv /\ Next => Keeps
<1> SUFFICES ASSUME IInv, Next PROVE Keeps
  OBVIOUS
<1>1. ASSUME NEW c \in Complaints,
             \/ FileComplaint(c) \/ Withdraw(c) \/ Reopen(c)
             \/ \E r \in Resolutions :
                  Propose(r, c) \/ ResolveWithoutRefund(r, c) \/ ResolveWithRefund(r, c)
      PROVE Keeps
  BY <1>1, HoldingKeeps, WithdrawKeeps, ProposeKeeps, ResolveKeeps, ResolveRefundKeeps
<1>2. ASSUME NEW r \in Resolutions,
             \/ Execute(r) \/ WorkInterrupted(r) \/ CloseProposal(r) \/ StripeRefundSettles(r)
             \/ \E user \in Users : AcceptProposal(r, user)
      PROVE Keeps
  BY <1>2, PrepareKeeps, RequestKeeps, FailKeeps, SettleWalletKeeps, SyncKeeps,
     InterruptedKeeps, AnswerKeeps, StripeKeeps
  DEF Execute
<1>3. CASE SomeEvent
  BY <1>3, EventKeeps DEF SomeEvent
<1>4. CASE \/ ReleaseHold \/ HoldFoundDispute \/ EarningAction
           \/ ChargebackMoves \/ ChargebackEvent
  BY <1>4, HoldingKeeps
<1>5. CASE ReleaseMatureEarning
  BY <1>5, ReleaseKeeps
<1> QED
  BY <1>1, <1>2, <1>3, <1>4, <1>5 DEF Next

LEMMA StutterKeeps == IInv /\ UNCHANGED vars => IInv'
  BY BooksKept DEF IInv, Typed, vars, books

\* The strengthened invariant holds in every reachable state.
THEOREM Invariance == Spec => []IInv
<1>1. IInv /\ [Next]_vars => IInv'
  BY StepKeeps, StutterKeeps DEF Keeps
<1> QED
  BY <1>1, InitInv, PTL DEF Spec

\* A refund resolution counts as applied, and the Tasker bears a clawback, only
\* for a refund that the wallet or Stripe made.
THEOREM AppliedRefundsWereMade == Spec => []AppliedIsReturned
<1>1. IInv => AppliedIsReturned
  BY DEF IInv, Backed, Applied, Made, AppliedIsReturned
<1> QED
  BY <1>1, Invariance, PTL

\* Nothing becomes available to the Tasker while a dispute is active or a
\* chargeback open or lost, whatever set or cleared the flag of the earning.
THEOREM EarningsHeldWhileDisputed == Spec => HeldWhileDisputed
<1>1. IInv /\ [Next]_vars =>
        [ActiveComplaint \/ AdverseChargeback => wallet'.available <= wallet.available]_vars
  BY StepKeeps DEF Keeps, Held
<1> QED
  BY <1>1, Invariance, PTL DEF Spec, HeldWhileDisputed

-----------------------------------------------------------------------------
(* Sums. *)

LEMMA DisjointUnion ==
  ASSUME NEW A, NEW B, IsFiniteSet(A), IsFiniteSet(B), A \intersect B = {}
  PROVE  Cardinality(A \union B) = Cardinality(A) + Cardinality(B)
<1>1. Cardinality(A \union B) = Cardinality(A) + Cardinality(B) - Cardinality({})
  BY FS_Union
<1>2. Cardinality(A) \in Nat /\ Cardinality(B) \in Nat
  BY FS_CardinalityType
<1> QED
  BY <1>1, <1>2, FS_EmptySet

\* The units of a function: as many of each argument as its value says.
LEMMA UnitsAre ==
  ASSUME NEW S, NEW f \in [S -> Nat]
  PROVE  \A u : u \in Units(f) <=> \E x \in S, n \in Nat : u = <<x, n>> /\ 1 <= n /\ n <= f[x]
BY DEF Units

LEMMA ColumnIs ==
  ASSUME NEW x, NEW n \in Nat
  PROVE  IsFiniteSet({x} \X (1 .. n)) /\ Cardinality({x} \X (1 .. n)) = n
<1>1. IsFiniteSet({x}) /\ Cardinality({x}) = 1
  BY FS_Singleton
<1>2. IsFiniteSet(1 .. n) /\ Cardinality(1 .. n) = n
  BY FS_Interval
<1>3. /\ IsFiniteSet({x} \X (1 .. n))
      /\ Cardinality({x} \X (1 .. n)) = Cardinality({x}) * Cardinality(1 .. n)
  BY <1>1, <1>2, FS_Product
<1> QED
  BY <1>1, <1>2, <1>3

\* A sum over finitely many rows is a number.
LEMMA SumType ==
  ASSUME NEW S, IsFiniteSet(S), NEW f \in [S -> Nat]
  PROVE  IsFiniteSet(Units(f)) /\ Sum(f) \in Nat
<1> DEFINE columns == {{x} \X (1 .. f[x]) : x \in S}
           g == [x \in S |-> {x} \X (1 .. f[x])]
<1>1. g \in Surjection(S, columns)
  BY DEF Surjection
<1>2. IsFiniteSet(columns)
  BY <1>1, FS_Surjection
<1>3. ASSUME NEW T \in columns PROVE IsFiniteSet(T)
  <2>1. PICK x \in S : T = {x} \X (1 .. f[x])
    OBVIOUS
  <2>2. f[x] \in Nat
    OBVIOUS
  <2> QED
    BY <2>1, <2>2, ColumnIs
<1>4. Units(f) = UNION columns
  BY DEF Units
<1>5. IsFiniteSet(Units(f))
  BY <1>2, <1>3, <1>4, FS_UNION
<1> QED
  BY <1>5, FS_CardinalityType DEF Sum

\* When one row changes, the sum changes by as much.
LEMMA SumChange ==
  ASSUME NEW S, IsFiniteSet(S), NEW f \in [S -> Nat], NEW g \in [S -> Nat], NEW x \in S,
         \A y \in S \ {x} : g[y] = f[y]
  PROVE  Sum(g) = Sum(f) - f[x] + g[x]
<1> DEFINE rest == Units(f) \ ({x} \X Nat)
           old == {x} \X (1 .. f[x])
           new == {x} \X (1 .. g[x])
<1>1. Units(f) = rest \union old /\ rest \intersect old = {}
  BY UnitsAre
<1>2. Units(g) = rest \union new /\ rest \intersect new = {}
  BY UnitsAre
<1>3. IsFiniteSet(rest) /\ Cardinality(rest) \in Nat
  BY SumType, FS_Difference, FS_CardinalityType
<1>4. IsFiniteSet(old) /\ Cardinality(old) = f[x] /\ IsFiniteSet(new) /\ Cardinality(new) = g[x]
  BY ColumnIs
<1> HIDE DEF rest, old, new
<1>6. Sum(f) = Cardinality(rest) + f[x]
  BY <1>1, <1>3, <1>4, DisjointUnion DEF Sum
<1>7. Sum(g) = Cardinality(rest) + g[x]
  BY <1>2, <1>3, <1>4, DisjointUnion DEF Sum
<1> QED
  BY <1>3, <1>6, <1>7

LEMMA SumZero ==
  ASSUME NEW S, NEW f \in [S -> Nat], \A x \in S : f[x] = 0
  PROVE  Sum(f) = 0
<1>1. Units(f) = {}
  BY UnitsAre
<1> QED
  BY <1>1, FS_EmptySet DEF Sum

\* A sum over some rows is the sum over all, with nothing for the others.
LEMMA SumWhere ==
  ASSUME NEW S, NEW T, T \subseteq S, NEW f \in [S -> Nat], NEW g \in [T -> Nat],
         \A x \in S : f[x] = IF x \in T THEN g[x] ELSE 0
  PROVE  Sum(g) = Sum(f)
<1>1. ASSUME NEW u PROVE u \in Units(g) <=> u \in Units(f)
  <2>1. u \in Units(g) <=> \E x \in T, n \in Nat : u = <<x, n>> /\ 1 <= n /\ n <= g[x]
    BY UnitsAre
  <2>2. u \in Units(f) <=> \E x \in S, n \in Nat : u = <<x, n>> /\ 1 <= n /\ n <= f[x]
    BY UnitsAre
  <2> QED
    BY <2>1, <2>2
<1>2. Units(g) = Units(f)
  BY <1>1
<1> QED
  BY <1>2 DEF Sum

\* Row by row no more is in all no more.
LEMMA SumBelow ==
  ASSUME NEW S, IsFiniteSet(S), NEW f \in [S -> Nat], NEW g \in [S -> Nat],
         \A x \in S : f[x] <= g[x]
  PROVE  Sum(f) <= Sum(g)
<1>1. Units(f) \subseteq Units(g)
  <2>1. ASSUME NEW x \in S, NEW n \in Nat, n <= f[x] PROVE n <= g[x]
    BY <2>1
  <2> QED
    BY <2>1, UnitsAre
<1>2. IsFiniteSet(Units(g))
  BY SumType
<1> QED
  BY <1>1, <1>2, FS_Subset DEF Sum

-----------------------------------------------------------------------------
(* The money: what the refunds take from the charge and from the earning. *)

Answers == {"pending", "succeeded", "failed"}

\* An event or an answer says this of the refund of resolution r.
Reports(r, status) ==
  <<r, status>> \in events \/ (work[r].pc = "record" /\ work[r].seen = status)

\* A refund is prepared once, from nothing, and of a positive amount.
Fresh(r) ==
  /\ Untouched(r) \/ work[r].pc = "prepare" => payment[r].status = "none"
  /\ work[r].pc = "prepare" => work[r].amount > 0
  /\ work[r].pc \in {"request", "settle", "fail", "record"} => payment[r].status # "none"
  /\ payment[r].status = "none" => clawed[r] = 0
  /\ work[r].pc \in {"request", "settle"} => clawed[r] = 0 /\ stripe[r] = "none"

\* What may be reported of a refund, given what it is at Stripe.  A success that
\* is told twice was one from the start: it overwrites nothing between.
History(r) ==
  /\ stripe[r] = "none" => \A status \in Answers : ~Reports(r, status)
  /\ stripe[r] = "pending" => clawed[r] = 0 /\ ~Reports(r, "succeeded")
  /\ stripe[r] # "failed" => ~Reports(r, "failed")
  /\ work[r].pc = "record" /\ work[r].seen = "succeeded" => <<r, "pending">> \notin events
  /\ stripe[r] = "succeeded" /\ clawed[r] > 0 /\ Reports(r, "succeeded") =>
       payment[r].status = "succeeded" /\ ~Reports(r, "pending")

\* A booking paid by wallet is refunded to the wallet, any other by Stripe.
OneWay(r) ==
  /\ booking.source = "stripe" => work[r].pc # "settle" /\ r \notin credited
  /\ booking.source = "wallet" =>
       /\ stripe[r] = "none" /\ work[r].pc \in {"idle", "prepare", "settle"}
       /\ work[r].pc = "settle" => payment[r].status = "processing"
       /\ r \in credited => payment[r].status = "succeeded"

Rows == \A r \in Resolutions : Fresh(r) /\ History(r) /\ OneWay(r)

BookingRow == [source : {"stripe", "wallet"}, intent : 0 .. Charged, unused : Nat,
               payment : {"paid", "partially_refunded", "refunded"}]

\* What the refunds may have taken from the charge.
Charges ==
  /\ booking \in BookingRow
  /\ credited \subseteq Resolutions
  /\ AtStripe <= booking.intent
  /\ booking.source = "wallet" => Refunded({"processing", "succeeded"}) <= Charged

\* A booking that does not read as refunded is not: before its first refund it
\* may be by its unused prepayment.
Counted ==
  \/ booking.payment = "refunded"
  \/ booking.unused + Refunded({"succeeded"}) < Charged
  \/ \A r \in Resolutions : payment[r].status = "none"

\* The Tasker's wallet holds what is left of the earning.
Purse ==
  /\ clawed \in [Resolutions -> Nat]
  /\ earning.reversed = Sum(clawed) /\ earning.reversed <= Net
  /\ wallet.pending = IF earning.released THEN 0 ELSE Net - earning.reversed
  /\ wallet.pending + wallet.available = Net - earning.reversed

\* No refund took more than its share, but for the one that took the rest.
Shares ==
  \A r \in Resolutions :
    earning.reversed = Net \/ clawed[r] <= Rounded(payment[r].amount * Net, Charged)

MoneyInv == Rows /\ Charges /\ Counted /\ Purse /\ Shares

-----------------------------------------------------------------------------
(* The sums. *)

StripeAmount(r) == IF stripe[r] \in {"pending", "succeeded"} THEN payment[r].amount ELSE 0
BookAmount(r, statuses) == IF payment[r].status \in statuses THEN payment[r].amount ELSE 0

LEMMA AmountsAreNats ==
  ASSUME Typed, NEW r \in Resolutions
  PROVE  /\ payment[r].amount \in Nat /\ StripeAmount(r) \in Nat
         /\ \A statuses : BookAmount(r, statuses) \in Nat
<1>1. payment[r].amount \in Nat
  BY DEF Typed, PaymentRow
<1> QED
  BY <1>1 DEF StripeAmount, BookAmount

LEMMA StripeSum ==
  ASSUME Typed PROVE [r \in Resolutions |-> StripeAmount(r)] \in [Resolutions -> Nat]
                     /\ AtStripe \in Nat
<1> DEFINE f == [r \in Resolutions |-> StripeAmount(r)]
<1>1. f \in [Resolutions -> Nat]
  BY AmountsAreNats
<1>2. AtStripe = Sum(f)
  BY DEF AtStripe, StripeAmount
<1> HIDE DEF f
<1>3. Sum(f) \in Nat
  BY <1>1, SumType, RowsAssumption
<1> QED
  BY <1>1, <1>2, <1>3 DEF f

LEMMA BookSum ==
  ASSUME Typed, NEW statuses
  PROVE  [r \in Resolutions |-> BookAmount(r, statuses)] \in [Resolutions -> Nat]
         /\ Refunded(statuses) \in Nat
<1> DEFINE f == [r \in Resolutions |-> BookAmount(r, statuses)]
<1>1. f \in [Resolutions -> Nat]
  BY AmountsAreNats
<1>2. Refunded(statuses) = Sum(f)
  BY DEF Refunded, BookAmount
<1> HIDE DEF f
<1>3. Sum(f) \in Nat
  BY <1>1, SumType, RowsAssumption
<1> QED
  BY <1>1, <1>2, <1>3 DEF f

\* A step that touches one refund changes both sums by its amounts.
LEMMA StripeMoves ==
  ASSUME Typed, Typed', NEW r \in Resolutions,
         \A q \in Resolutions \ {r} : StripeAmount(q)' = StripeAmount(q)
  PROVE  AtStripe' = AtStripe - StripeAmount(r) + StripeAmount(r)'
<1> DEFINE f == [q \in Resolutions |-> StripeAmount(q)]
           g == [q \in Resolutions |-> StripeAmount(q)']
<1>1. f \in [Resolutions -> Nat] /\ g \in [Resolutions -> Nat]
  <2>1. \A q \in Resolutions : StripeAmount(q) \in Nat
    BY AmountsAreNats
  <2>2. \A q \in Resolutions : StripeAmount(q)' \in Nat
    <3>1. \A q \in Resolutions : payment'[q].amount \in Nat
      BY DEF Typed, PaymentRow
    <3> QED
      BY <3>1 DEF StripeAmount
  <2> QED
    BY <2>1, <2>2
<1>2. AtStripe = Sum(f) /\ AtStripe' = Sum(g)
  BY DEF AtStripe, StripeAmount
<1>3. f[r] = StripeAmount(r) /\ g[r] = StripeAmount(r)' /\ \A q \in Resolutions \ {r} : g[q] = f[q]
  OBVIOUS
<1> HIDE DEF f, g
<1> QED
  BY <1>1, <1>2, <1>3, SumChange, RowsAssumption

LEMMA BookMoves ==
  ASSUME Typed, Typed', NEW statuses, NEW r \in Resolutions,
         \A q \in Resolutions \ {r} : BookAmount(q, statuses)' = BookAmount(q, statuses)
  PROVE  Refunded(statuses)' = Refunded(statuses) - BookAmount(r, statuses) + BookAmount(r, statuses)'
<1> DEFINE f == [q \in Resolutions |-> BookAmount(q, statuses)]
           g == [q \in Resolutions |-> BookAmount(q, statuses)']
<1>1. f \in [Resolutions -> Nat] /\ g \in [Resolutions -> Nat]
  <2>1. \A q \in Resolutions : BookAmount(q, statuses) \in Nat
    BY AmountsAreNats
  <2>2. \A q \in Resolutions : BookAmount(q, statuses)' \in Nat
    <3>1. \A q \in Resolutions : payment'[q].amount \in Nat
      BY DEF Typed, PaymentRow
    <3> QED
      BY <3>1 DEF BookAmount
  <2> QED
    BY <2>1, <2>2
<1>2. Refunded(statuses) = Sum(f) /\ Refunded(statuses)' = Sum(g)
  BY DEF Refunded, BookAmount
<1>3. /\ f[r] = BookAmount(r, statuses) /\ g[r] = BookAmount(r, statuses)'
      /\ \A q \in Resolutions \ {r} : g[q] = f[q]
  OBVIOUS
<1> HIDE DEF f, g
<1> QED
  BY <1>1, <1>2, <1>3, SumChange, RowsAssumption

\* What the code adds up to tell whether the booking is refunded in full.
LEMMA SucceededIs ==
  ASSUME NEW pay, payment' = pay
  PROVE  Succeeded(pay) = booking.unused + Refunded({"succeeded"})'
<1>1. [r \in Resolutions |-> IF pay[r].status = "succeeded" THEN pay[r].amount ELSE 0] =
        [r \in Resolutions |-> IF payment'[r].status \in {"succeeded"} THEN payment'[r].amount ELSE 0]
  OBVIOUS
<1> QED
  BY <1>1 DEF Succeeded, Refunded

-----------------------------------------------------------------------------
(* The earning. *)

LEMMA RestIs ==
  ASSUME Typed, Purse
  PROVE  /\ earning.reversed \in Nat /\ Net \in Nat
         /\ RemainingEarning \in Nat /\ RemainingEarning = Net - earning.reversed
         /\ Unreleased = IF earning.released THEN 0 ELSE RemainingEarning
<1>1. earning.reversed \in Nat
  BY SumType, RowsAssumption DEF Purse
<1> QED
  BY <1>1, AmountsAreNat DEF Purse, RemainingEarning, Unreleased

\* What refund r takes of the earning.
Taken(pay, r) == IF Clawable(r) THEN Clawback(pay, r) ELSE 0

LEMMA TakenIs ==
  ASSUME Typed, Purse, NEW pay \in [Resolutions -> PaymentRow], NEW r \in Resolutions
  PROVE  /\ Taken(pay, r) \in Nat /\ Taken(pay, r) <= RemainingEarning
         /\ Clawable(r) /\ Succeeded(pay) >= Charged => Taken(pay, r) = RemainingEarning
         /\ ~Clawable(r) => Taken(pay, r) = 0
         /\ \/ Taken(pay, r) = RemainingEarning
            \/ Taken(pay, r) <= Rounded(pay[r].amount * Net, Charged)
<1>1. pay[r].amount \in Nat
  BY DEF PaymentRow
<1>2. Rounded(pay[r].amount * Net, Charged) \in Nat
  BY <1>1, AmountsAreNat, ProductIsNat, RoundedIsNat
<1>3. RemainingEarning \in Nat
  BY RestIs
<1> QED
  BY <1>2, <1>3 DEF Taken, Clawback

\* An adjustment takes an amount from the earning and from the wallet.
LEMMA AdjustedIs ==
  ASSUME Typed, Purse, NEW pay \in [Resolutions -> PaymentRow], NEW r \in Resolutions,
         Adjusted(pay, r)
  PROVE  /\ clawed' = [clawed EXCEPT ![r] = @ + Taken(pay, r)]
         /\ earning'.reversed = earning.reversed + Taken(pay, r)
         /\ earning'.released = earning.released
         /\ wallet'.pending = wallet.pending - (IF earning.released THEN 0 ELSE Taken(pay, r))
         /\ wallet'.available = wallet.available - (IF earning.released THEN Taken(pay, r) ELSE 0)
<1> DEFINE amount == Taken(pay, r)
           pending == IF amount <= Unreleased THEN amount ELSE Unreleased
           whole == earning.reversed + amount = Net
           adjusted == IF amount = 0 THEN earning
             ELSE [earning EXCEPT !.reversed = @ + amount,
                     !.status = IF whole THEN "reversed" ELSE "partially_reversed",
                     !.blocked = IF whole THEN FALSE ELSE @]
           others == \E c \in Complaints \ {resolution[r].complaint} :
                       complaint[c] = "active"
<1>1. amount \in Nat /\ amount <= RemainingEarning /\ RemainingEarning \in Nat
  BY TakenIs, RestIs
<1>2. Unreleased = IF earning.released THEN 0 ELSE RemainingEarning
  BY RestIs
<1>3. /\ clawed' = [clawed EXCEPT ![r] = @ + amount]
      /\ wallet' = [pending |-> wallet.pending - pending,
                    available |-> wallet.available - (amount - pending)]
      /\ earning' = Unblocked(adjusted, others)
  BY DEF Adjusted, Taken
<1> HIDE DEF amount
<1>4. pending = (IF earning.released THEN 0 ELSE amount)
      /\ amount - pending = (IF earning.released THEN amount ELSE 0)
  BY <1>1, <1>2
<1>5. /\ wallet'.pending = wallet.pending - (IF earning.released THEN 0 ELSE amount)
      /\ wallet'.available = wallet.available - (IF earning.released THEN amount ELSE 0)
  <2> HIDE DEF pending
  <2>1. wallet'.pending = wallet.pending - pending /\ wallet'.available = wallet.available - (amount - pending)
    BY <1>3
  <2> QED
    BY <1>4, <2>1
<1>6. adjusted \in [status : {"pending", "partially_reversed", "reversed", "available"},
                    blocked : {TRUE, FALSE, earning.blocked}, reversed : Int, released : BOOLEAN]
      /\ adjusted.reversed = earning.reversed + amount /\ adjusted.released = earning.released
  <2>1. earning.reversed \in Int /\ earning.reversed + amount \in Int /\ earning.reversed + 0 = earning.reversed
    BY <1>1 DEF Typed, EarningRow
  <2> HIDE DEF whole
  <2> QED
    BY <2>1 DEF Typed, EarningRow
<1>7. earning'.reversed = adjusted.reversed /\ earning'.released = adjusted.released
  <2> HIDE DEF adjusted, others
  <2> QED
    BY <1>3, <1>6 DEF Unblocked
<1> HIDE DEF adjusted
<1> QED
  BY <1>3, <1>5, <1>6, <1>7 DEF amount

LEMMA AdjustedPurse ==
  ASSUME Typed, Purse, NEW pay \in [Resolutions -> PaymentRow], NEW r \in Resolutions,
         Adjusted(pay, r)
  PROVE  /\ Purse'
         /\ clawed'[r] = clawed[r] + Taken(pay, r)
         /\ \A q \in Resolutions \ {r} : clawed'[q] = clawed[q]
<1> DEFINE amount == Taken(pay, r)
<1>1. amount \in Nat /\ amount <= Net - earning.reversed /\ earning.reversed \in Nat /\ Net \in Nat
  BY TakenIs, RestIs
<1>2. /\ clawed' = [clawed EXCEPT ![r] = @ + amount]
      /\ earning'.reversed = earning.reversed + amount
      /\ earning'.released = earning.released
      /\ wallet'.pending = wallet.pending - (IF earning.released THEN 0 ELSE amount)
      /\ wallet'.available = wallet.available - (IF earning.released THEN amount ELSE 0)
  BY AdjustedIs
<1> HIDE DEF amount
<1>3. clawed \in [Resolutions -> Nat]
  BY DEF Purse
<1>4. /\ clawed' \in [Resolutions -> Nat] /\ clawed'[r] = clawed[r] + amount
      /\ \A q \in Resolutions \ {r} : clawed'[q] = clawed[q]
  BY <1>1, <1>2, <1>3
<1>5. Sum(clawed') = Sum(clawed) - clawed[r] + clawed'[r]
  BY <1>3, <1>4, SumChange, RowsAssumption
<1>6. earning'.reversed = Sum(clawed') /\ earning'.reversed <= Net
  <2>1. clawed[r] \in Nat /\ Sum(clawed) = earning.reversed
    BY <1>3 DEF Purse
  <2> QED
    BY <1>1, <1>2, <1>4, <1>5, <2>1
<1>7. wallet'.pending = (IF earning'.released THEN 0 ELSE Net - earning'.reversed)
      /\ wallet'.pending + wallet'.available = Net - earning'.reversed
  <2>1. /\ wallet.pending = IF earning.released THEN 0 ELSE Net - earning.reversed
        /\ wallet.pending + wallet.available = Net - earning.reversed
        /\ wallet.pending \in Int /\ wallet.available \in Int
    BY DEF Purse, Typed
  <2>2. CASE earning.released
    BY <1>1, <1>2, <2>1, <2>2
  <2>3. CASE ~earning.released
    BY <1>1, <1>2, <2>1, <2>3
  <2> QED
    BY <2>2, <2>3
<1> QED
  BY <1>4, <1>6, <1>7 DEF Purse, amount

LEMMA AdjustedShares ==
  ASSUME Typed, Purse, Shares, NEW pay \in [Resolutions -> PaymentRow], NEW r \in Resolutions,
         Adjusted(pay, r), payment' = pay,
         \A q \in Resolutions : pay[q].amount = payment[q].amount
  PROVE  Shares'
<1> DEFINE amount == Taken(pay, r)
           share(q) == Rounded(payment[q].amount * Net, Charged)
<1>1. /\ amount \in Nat /\ amount <= Net - earning.reversed
      /\ earning.reversed \in Nat /\ Net \in Nat
      /\ ~Clawable(r) => amount = 0
      /\ amount = Net - earning.reversed \/ amount <= share(r)
  BY TakenIs, RestIs
<1>2. /\ clawed'[r] = clawed[r] + amount
      /\ \A q \in Resolutions \ {r} : clawed'[q] = clawed[q]
      /\ earning'.reversed = earning.reversed + amount
  BY AdjustedPurse, AdjustedIs
<1>3. \A q \in Resolutions : share(q)' = share(q)
  OBVIOUS
<1>4. \A q \in Resolutions : clawed[q] \in Nat /\ (earning.reversed = Net \/ clawed[q] <= share(q))
  BY DEF Purse, Shares
<1> HIDE DEF amount, share
<1>5. ASSUME NEW q \in Resolutions
      PROVE earning'.reversed = Net \/ clawed'[q] <= share(q)'
  <2>1. CASE earning.reversed = Net
    BY <1>1, <1>2, <2>1
  <2>2. CASE q # r
    BY <1>2, <1>3, <1>4, <2>1, <2>2
  <2>3. CASE q = r /\ clawed[r] = 0
    BY <1>1, <1>2, <1>3, <2>3
  <2>4. CASE q = r /\ clawed[r] # 0
    BY <1>1, <1>2, <1>3, <1>4, <2>1, <2>4 DEF Clawable
  <2> QED
    BY <2>2, <2>3, <2>4
<1> QED
  BY <1>5 DEF Shares, share

-----------------------------------------------------------------------------
(* Steps that leave the money alone. *)

\* Nothing that Fresh, History and OneWay read of refund q changes for the worse.
Same(q) ==
  /\ Untouched(q)' => Untouched(q)
  /\ work'[q] = work[q] /\ payment'[q] = payment[q]
  /\ stripe'[q] = stripe[q] /\ clawed'[q] = clawed[q]
  /\ q \in credited' <=> q \in credited
  /\ \A status \in Answers : <<q, status>> \in events' => <<q, status>> \in events
  /\ booking'.source = booking.source

LEMMA SameRow ==
  ASSUME NEW q \in Resolutions, Rows, Same(q) PROVE Fresh(q)' /\ History(q)' /\ OneWay(q)'
<1>1. Fresh(q) /\ History(q) /\ OneWay(q)
  BY DEF Rows
<1>2. Fresh(q)'
  BY <1>1 DEF Same, Fresh
<1>3. \A status \in Answers : Reports(q, status)' => Reports(q, status)
  BY DEF Same, Reports
<1>4. History(q)'
  BY <1>1, <1>3 DEF Same, History, Answers
<1>5. OneWay(q)'
  BY <1>1 DEF Same, OneWay
<1> QED
  BY <1>2, <1>4, <1>5

LEMMA RowsKept ==
  ASSUME Rows, NEW r \in Resolutions, \A q \in Resolutions \ {r} : Same(q),
         Fresh(r)', History(r)', OneWay(r)'
  PROVE  Rows'
  BY SameRow DEF Rows

\* The money and what is known of it stays, while a complaint, a proposal or the
\* flag of the earning moves.
LEMMA QuietMoney ==
  ASSUME MoneyInv, UNCHANGED <<booking, payment, work, stripe, events, clawed, credited, wallet>>,
         earning'.reversed = earning.reversed, earning'.released = earning.released,
         \A q \in Resolutions : Untouched(q)' => Untouched(q)
  PROVE  MoneyInv'
<1>1. \A q \in Resolutions : Same(q)
  BY DEF Same
<1>2. Rows'
  BY <1>1, SameRow DEF MoneyInv, Rows
<1>3. Charges' /\ Counted'
  BY DEF MoneyInv, Charges, Counted, AtStripe, Refunded, BookingRow
<1>4. Purse' /\ Shares'
  BY DEF MoneyInv, Purse, Shares
<1> QED
  BY <1>2, <1>3, <1>4 DEF MoneyInv

LEMMA HoldingMoney ==
  ASSUME IInv, MoneyInv,
         \/ \E c \in Complaints : FileComplaint(c) \/ Reopen(c)
         \/ ReleaseHold \/ HoldFoundDispute \/ EarningAction
         \/ ChargebackMoves \/ ChargebackEvent
  PROVE  MoneyInv'
<1>1. UNCHANGED <<booking, resolution, payment, work, stripe, events, clawed, credited, wallet>>
  BY DEF FileComplaint, Reopen, ReleaseHold, HoldFoundDispute, EarningAction,
         ChargebackMoves, ChargebackEvent, provider, money
<1>2. earning \in EarningRow
  BY DEF IInv, Typed
<1>3. \/ earning' = Blocked(earning) \/ earning' = Unblocked(earning, ActiveComplaint)
      \/ earning' = [earning EXCEPT !.blocked = TRUE]
      \/ earning' = [earning EXCEPT !.blocked = FALSE]
      \/ earning' = earning
  BY DEF FileComplaint, Reopen, Reopened, ReleaseHold, HoldFoundDispute, EarningAction,
         ChargebackMoves, ChargebackEvent, money
<1>4. earning'.reversed = earning.reversed /\ earning'.released = earning.released
  BY <1>2, <1>3 DEF Blocked, Unblocked, EarningRow
<1>5. \A q \in Resolutions : Untouched(q)' => Untouched(q)
  BY <1>1 DEF Untouched
<1> QED
  BY <1>1, <1>4, <1>5, QuietMoney

\* A proposal is made, answered or closed, or a case closed without a refund.
LEMMA ProposalMoney ==
  ASSUME IInv, MoneyInv,
         \/ \E c \in Complaints :
              Withdraw(c) \/ \E r \in Resolutions : Propose(r, c) \/ ResolveWithoutRefund(r, c)
         \/ \E r \in Resolutions : CloseProposal(r) \/ \E user \in Users : AcceptProposal(r, user)
  PROVE  MoneyInv' /\ UNCHANGED booking
<1>1. UNCHANGED <<booking, payment, work, stripe, events, clawed, credited, wallet, earning>>
  BY DEF Withdraw, Propose, ResolveWithoutRefund, CloseProposal, AcceptProposal, provider, money
<1>2. resolution \in [Resolutions -> ResolutionRow]
  BY DEF IInv, Typed
<1>3. ASSUME NEW q \in Resolutions PROVE Untouched(q)' => Untouched(q)
  <2>1. \/ Withdrawn(resolution[q]) = resolution[q]
        \/ resolution[q].status = "proposed"
    BY <1>2, WithdrawnIs
  <2>2. ASSUME NEW c \in Complaints, Withdraw(c) PROVE Untouched(q)' => Untouched(q)
    BY <2>1, <2>2 DEF Withdraw, Untouched
  <2>3. ASSUME NEW r \in Resolutions, NEW c \in Complaints, Propose(r, c)
        PROVE Untouched(q)' => Untouched(q)
    BY <2>1, <2>3 DEF Propose, Untouched, None
  <2>4. ASSUME NEW r \in Resolutions, NEW c \in Complaints, ResolveWithoutRefund(r, c)
        PROVE Untouched(q)' => Untouched(q)
    BY <1>2, <2>4 DEF ResolveWithoutRefund, Resolved, Usable, Untouched, None
  <2>5. ASSUME NEW r \in Resolutions, CloseProposal(r) PROVE Untouched(q)' => Untouched(q)
    BY <1>2, <2>1, <2>5 DEF CloseProposal, Untouched
  <2>6. ASSUME NEW r \in Resolutions, NEW user \in Users, AcceptProposal(r, user)
        PROVE Untouched(q)' => Untouched(q)
    BY <1>2, <2>6 DEF AcceptProposal, Untouched
  <2> QED
    BY <2>2, <2>3, <2>4, <2>5, <2>6
<1> QED
  BY <1>1, <1>3, QuietMoney

\* The release makes available what is left of the earning.
LEMMA ReleaseMoney == ASSUME IInv, MoneyInv, ReleaseMatureEarning PROVE MoneyInv'
<1>1. UNCHANGED <<booking, resolution, payment, work, stripe, events, clawed, credited>>
  BY DEF ReleaseMatureEarning, provider
<1>2. earning'.reversed = earning.reversed /\ earning'.released = TRUE
  BY DEF ReleaseMatureEarning, IInv, Typed, EarningRow
<1>3. Rows'
  <2>1. \A q \in Resolutions : Same(q)
    BY <1>1 DEF Same, Untouched
  <2> QED
    BY <2>1, SameRow DEF MoneyInv, Rows
<1>4. Charges' /\ Counted'
  BY <1>1 DEF MoneyInv, Charges, Counted, AtStripe, Refunded, BookingRow
<1>5. Purse'
  <2>1. earning.reversed \in Nat /\ Net \in Nat /\ wallet.pending \in Int /\ wallet.available \in Int
    BY RestIs DEF IInv, Typed, MoneyInv
  <2>2. /\ ~earning.released /\ wallet.pending = Net - earning.reversed
        /\ wallet.pending + wallet.available = Net - earning.reversed
    BY DEF ReleaseMatureEarning, Releasable, MoneyInv, Purse
  <2>3. /\ wallet'.pending = wallet.pending - (Net - earning.reversed)
        /\ wallet'.available = wallet.available + (Net - earning.reversed)
    BY DEF ReleaseMatureEarning
  <2>4. wallet'.pending = 0 /\ wallet'.pending + wallet'.available = Net - earning.reversed
    BY <2>1, <2>2, <2>3
  <2> QED
    BY <1>1, <1>2, <2>4 DEF MoneyInv, Purse
<1>6. Shares'
  BY <1>1, <1>2 DEF MoneyInv, Shares
<1> QED
  BY <1>3, <1>4, <1>5, <1>6 DEF MoneyInv

-----------------------------------------------------------------------------
(* Steps of an execution, up to the request. *)

\* A step of execution r that moves no money.
LEMMA WorkMoney ==
  ASSUME MoneyInv, NEW r \in Resolutions,
         UNCHANGED <<booking, payment, stripe, events, clawed, credited, earning, wallet>>,
         \A q \in Resolutions \ {r} : resolution'[q] = resolution[q] /\ work'[q] = work[q],
         Fresh(r)', History(r)', OneWay(r)'
  PROVE  MoneyInv'
<1>1. \A q \in Resolutions \ {r} : Same(q)
  BY DEF Same, Untouched
<1>2. Rows'
  BY <1>1, RowsKept DEF MoneyInv
<1>3. Charges' /\ Counted' /\ Purse' /\ Shares'
  BY DEF MoneyInv, Charges, Counted, AtStripe, Refunded, BookingRow, Purse, Shares
<1> QED
  BY <1>2, <1>3 DEF MoneyInv

LEMMA ResolveRefundMoney ==
  ASSUME IInv, MoneyInv, NEW r \in Resolutions, NEW c \in Complaints, ResolveWithRefund(r, c)
  PROVE  MoneyInv'
<1>1. /\ Resolved(r, c, "processing", TRUE)
      /\ UNCHANGED <<booking, payment, stripe, events, clawed, credited, earning, wallet>>
  BY DEF ResolveWithRefund, provider, money
<1>2. Untouched(r)
  BY DEF ResolveWithRefund, Usable, Untouched, None
<1>3. /\ resolution'[r].status = "processing"
      /\ \A q \in Resolutions \ {r} : resolution'[q] = resolution[q]
  BY <1>1, ResolvedIs DEF IInv
<1>4. PICK amount \in 1 .. Refundable :
        work' = [work EXCEPT ![r] = [Idle EXCEPT !.pc = "prepare", !.amount = amount]]
  BY DEF ResolveWithRefund
<1>5. /\ work'[r].pc = "prepare" /\ work'[r].amount > 0
      /\ \A q \in Resolutions \ {r} : work'[q] = work[q]
  BY <1>4 DEF IInv, Typed, Idle
<1>6. Fresh(r) /\ History(r) /\ OneWay(r) /\ Seen(r)
  BY DEF IInv, Backed, MoneyInv, Rows
<1>7. Fresh(r)'
  BY <1>1, <1>2, <1>3, <1>5, <1>6 DEF Fresh, Untouched
<1>8. History(r)'
  BY <1>1, <1>2, <1>5, <1>6 DEF History, Reports, Seen, Answers
<1>9. OneWay(r)'
  BY <1>1, <1>5, <1>6 DEF OneWay
<1> QED
  BY <1>1, <1>3, <1>5, <1>7, <1>8, <1>9, WorkMoney

LEMMA InterruptedMoney ==
  ASSUME IInv, MoneyInv, NEW r \in Resolutions, WorkInterrupted(r) PROVE MoneyInv'
<1>1. UNCHANGED <<booking, resolution, payment, stripe, events, clawed, credited, earning, wallet>>
  BY DEF WorkInterrupted, provider, money
<1>2. work'[r].pc = "idle" /\ \A q \in Resolutions \ {r} : work'[q] = work[q]
  BY EndIs DEF WorkInterrupted, IInv
<1>3. Fresh(r) /\ History(r) /\ OneWay(r)
  BY DEF MoneyInv, Rows
<1>4. Fresh(r)' /\ History(r)' /\ OneWay(r)'
  BY <1>1, <1>2, <1>3 DEF Fresh, History, OneWay, Reports, Untouched, Answers
<1> QED
  BY <1>1, <1>2, <1>4, WorkMoney

LEMMA PrepareMoney ==
  ASSUME IInv, IInv', MoneyInv, NEW r \in Resolutions, PrepareRefund(r) PROVE MoneyInv'
<1> USE DEF IInv
<1>1. /\ UNCHANGED <<booking, stripe, events, clawed, credited, earning, wallet>>
      /\ work[r].pc = "prepare"
  BY DEF PrepareRefund, provider, money, At
<1>2. Fresh(r) /\ History(r) /\ OneWay(r) /\ Seen(r)
  BY DEF Backed, MoneyInv, Rows
<1>3. payment[r].status = "none" /\ clawed[r] = 0 /\ stripe[r] = "none" /\ work[r].amount > 0
  BY <1>1, <1>2 DEF Fresh, Seen
<1>4. CASE End(r) /\ UNCHANGED <<payment, resolution>>
  <2>1. work'[r].pc = "idle" /\ \A q \in Resolutions \ {r} : work'[q] = work[q]
    BY <1>4, EndIs
  <2>2. Fresh(r)' /\ History(r)' /\ OneWay(r)'
    BY <1>1, <1>2, <1>4, <2>1 DEF Fresh, History, OneWay, Reports, Untouched, Answers
  <2> QED
    BY <1>1, <1>4, <2>1, <2>2, WorkMoney
<1>5. ASSUME NEW pc, pc = CASE booking.source = "wallet" -> "settle"
                            [] booking.source = "stripe" /\ booking.intent = 0 -> "fail"
                            [] OTHER -> "request",
             work[r].amount <= Refundable,
             payment' = [payment EXCEPT ![r] = [status |-> "processing", amount |-> work[r].amount]],
             resolution' = [resolution EXCEPT ![r].status = "processing"],
             Goto(r, pc)
      PROVE MoneyInv'
  <2>1. /\ booking \in BookingRow /\ work[r].amount \in Nat /\ work \in [Resolutions -> WorkRow]
        /\ payment \in [Resolutions -> PaymentRow] /\ resolution \in [Resolutions -> ResolutionRow]
    BY DEF MoneyInv, Charges, Typed, WorkRow
  <2>2. /\ pc \in {"settle", "fail", "request"}
        /\ pc = "settle" <=> booking.source = "wallet"
    BY <1>5, <2>1 DEF BookingRow
  <2>3. /\ work'[r].pc = pc /\ \A q \in Resolutions \ {r} : work'[q] = work[q]
        /\ payment'[r].status = "processing" /\ payment'[r].amount = work[r].amount
        /\ \A q \in Resolutions \ {r} : payment'[q] = payment[q]
        /\ \A q \in Resolutions \ {r} : resolution'[q] = resolution[q]
        /\ resolution'[r].status = "processing"
    BY <1>5, <2>1 DEF Goto, WorkRow, PaymentRow, ResolutionRow
  <2>4. Fresh(r)'
    BY <1>1, <1>3, <2>2, <2>3 DEF Fresh, Untouched
  <2>5. History(r)'
    BY <1>1, <1>2, <1>3, <2>2, <2>3 DEF History, Reports, Answers
  <2>6. OneWay(r)'
    <3>1. booking.source = "wallet" => r \notin credited
      BY <1>2, <1>3 DEF OneWay
    <3> QED
      BY <1>1, <1>2, <1>3, <2>1, <2>2, <2>3, <3>1 DEF OneWay, BookingRow
  <2>7. \A q \in Resolutions \ {r} : Same(q)
    BY <1>1, <2>3 DEF Same, Untouched
  <2>8. Rows'
    BY <2>4, <2>5, <2>6, <2>7, RowsKept DEF MoneyInv
  <2>9. Refunded({"processing", "succeeded"})' = Refunded({"processing", "succeeded"}) + work[r].amount
    <3>1. Refunded({"processing", "succeeded"})' = Refunded({"processing", "succeeded"})
            - BookAmount(r, {"processing", "succeeded"}) + BookAmount(r, {"processing", "succeeded"})'
      BY <2>3, BookMoves DEF BookAmount
    <3>2. /\ BookAmount(r, {"processing", "succeeded"}) = 0
          /\ BookAmount(r, {"processing", "succeeded"})' = work[r].amount
      BY <1>3, <2>3 DEF BookAmount
    <3>3. Refunded({"processing", "succeeded"}) \in Nat
      BY BookSum
    <3> QED
      BY <2>1, <3>1, <3>2, <3>3
  <2>10. /\ Refunded({"processing", "succeeded"}) \in Nat
         /\ work[r].amount <= Charged - booking.unused - Refunded({"processing", "succeeded"})
         /\ booking.unused \in Nat /\ Charged \in Nat
    BY <1>5, <2>1, BookSum, AmountsAreNat DEF Refundable, BookingRow
  <2>11. Charges'
    <3>1. AtStripe' = AtStripe
      <4>1. AtStripe' = AtStripe - StripeAmount(r) + StripeAmount(r)'
        BY <1>1, <2>3, StripeMoves DEF StripeAmount
      <4>2. StripeAmount(r) = 0 /\ StripeAmount(r)' = 0 /\ AtStripe \in Nat
        BY <1>1, <1>3, StripeSum DEF StripeAmount
      <4> QED
        BY <4>1, <4>2
    <3>2. Refunded({"processing", "succeeded"})' <= Charged
      BY <2>1, <2>9, <2>10
    <3> QED
      BY <1>1, <3>1, <3>2 DEF MoneyInv, Charges, BookingRow
  <2>12. Counted'
    <3>1. Refunded({"succeeded"})' = Refunded({"succeeded"})
      <4>1. Refunded({"succeeded"})' = Refunded({"succeeded"})
              - BookAmount(r, {"succeeded"}) + BookAmount(r, {"succeeded"})'
        BY <2>3, BookMoves DEF BookAmount
      <4>2. BookAmount(r, {"succeeded"}) = 0 /\ BookAmount(r, {"succeeded"})' = 0
        BY <1>3, <2>3 DEF BookAmount
      <4>3. Refunded({"succeeded"}) \in Nat
        BY BookSum
      <4> QED
        BY <4>1, <4>2, <4>3
    <3>2. CASE \A q \in Resolutions : payment[q].status = "none"
      <4> DEFINE f == [q \in Resolutions |-> BookAmount(q, {"succeeded"})]
      <4>1. f \in [Resolutions -> Nat] /\ \A q \in Resolutions : f[q] = 0
        BY <3>2 DEF BookAmount
      <4>2. Refunded({"succeeded"}) = Sum(f)
        BY DEF Refunded, BookAmount
      <4> HIDE DEF f
      <4>3. Refunded({"succeeded"}) = 0
        BY <4>1, <4>2, SumZero
      <4>4. booking.unused < Charged
        BY <1>3, <2>1, <2>10
      <4> QED
        BY <1>1, <2>10, <3>1, <4>3, <4>4 DEF Counted
    <3>3. CASE booking.payment = "refunded" \/ booking.unused + Refunded({"succeeded"}) < Charged
      BY <1>1, <3>1, <3>3 DEF Counted
    <3> QED
      BY <3>2, <3>3 DEF MoneyInv, Counted
  <2>13. Purse'
    BY <1>1 DEF MoneyInv, Purse
  <2>14. Shares'
    <3>1. Rounded(work[r].amount * Net, Charged) \in Nat
      BY <2>1, AmountsAreNat, ProductIsNat, RoundedIsNat
    <3>2. clawed'[r] <= Rounded(payment'[r].amount * Net, Charged)
      BY <1>1, <1>3, <2>3, <3>1
    <3> QED
      BY <1>1, <2>3, <3>2 DEF MoneyInv, Shares
  <2> QED
    BY <2>8, <2>11, <2>12, <2>13, <2>14 DEF MoneyInv
<1> QED
  BY <1>4, <1>5 DEF PrepareRefund

LEMMA RequestMoney ==
  ASSUME IInv, IInv', MoneyInv, NEW r \in Resolutions, RequestRefund(r) PROVE MoneyInv'
<1> USE DEF IInv
<1>1. /\ UNCHANGED <<booking, resolution, payment, clawed, credited, earning, wallet>>
      /\ work[r].pc = "request"
  BY DEF RequestRefund, money, At
<1>2. Fresh(r) /\ History(r) /\ OneWay(r) /\ Seen(r)
  BY DEF Backed, MoneyInv, Rows
<1>3. /\ ~Untouched(r) /\ stripe[r] = "none" /\ clawed[r] = 0 /\ payment[r].status # "none"
      /\ \A status \in Answers : <<r, status>> \notin events
      /\ booking.source # "wallet"
  BY <1>1, <1>2 DEF Fresh, Seen, History, Reports, OneWay
<1>4. CASE Goto(r, "fail") /\ UNCHANGED provider
  <2>1. /\ work'[r].pc = "fail" /\ UNCHANGED <<stripe, events>>
        /\ \A q \in Resolutions \ {r} : work'[q] = work[q]
    BY <1>4, GotoIs DEF provider
  <2>2. Fresh(r)' /\ History(r)' /\ OneWay(r)'
    BY <1>1, <1>2, <1>3, <2>1 DEF Fresh, History, OneWay, Reports, Untouched, Answers
  <2> QED
    BY <1>1, <2>1, <2>2, WorkMoney
<1>5. ASSUME NEW status \in {"pending", "succeeded", "failed"},
             AtStripe + payment[r].amount <= booking.intent,
             stripe' = [stripe EXCEPT ![r] = status],
             events' = events \union {<<r, status>>},
             \/ work' = [work EXCEPT ![r].pc = "record", ![r].seen = status]
             \/ Goto(r, "fail")
      PROVE MoneyInv'
  <2>1. /\ \A q \in Resolutions \ {r} : work'[q] = work[q]
        /\ \/ work'[r].pc = "record" /\ work'[r].seen = status
           \/ work'[r].pc = "fail"
    <3>1. CASE Goto(r, "fail")
      BY <3>1, GotoIs
    <3>2. CASE work' = [work EXCEPT ![r].pc = "record", ![r].seen = status]
      BY <3>2 DEF Typed, WorkRow
    <3> QED
      BY <1>5, <3>1, <3>2
  <2>2. stripe'[r] = status /\ \A q \in Resolutions \ {r} : stripe'[q] = stripe[q]
    BY <1>5 DEF Typed
  <2>3. Fresh(r)'
    BY <1>1, <1>2, <1>3, <2>1 DEF Fresh, Untouched
  <2>4. \A s \in Answers : Reports(r, s)' => s = status
    BY <1>3, <1>5, <2>1 DEF Reports, Answers
  <2>5. History(r)'
    BY <1>1, <1>3, <1>5, <2>1, <2>2, <2>4 DEF History, Answers, Reports
  <2>6. OneWay(r)'
    BY <1>1, <1>2, <1>3, <2>1 DEF OneWay
  <2>7. \A q \in Resolutions \ {r} : Same(q)
    BY <1>1, <1>5, <2>1, <2>2 DEF Same, Untouched
  <2>8. Rows'
    BY <2>3, <2>5, <2>6, <2>7, RowsKept DEF MoneyInv
  <2>9. AtStripe' <= booking.intent
    <3>1. AtStripe' = AtStripe - StripeAmount(r) + StripeAmount(r)'
      BY <1>1, <2>2, StripeMoves DEF StripeAmount
    <3>2. StripeAmount(r) = 0 /\ StripeAmount(r)' \in {0, payment[r].amount}
      BY <1>1, <1>3 DEF StripeAmount
    <3>3. AtStripe \in Nat /\ payment[r].amount \in Nat /\ booking.intent \in Int
      BY StripeSum, AmountsAreNats, AmountsAreNat DEF MoneyInv, Charges, BookingRow
    <3> QED
      BY <1>5, <3>1, <3>2, <3>3
  <2>10. Charges' /\ Counted' /\ Purse' /\ Shares'
    BY <1>1, <2>9 DEF MoneyInv, Charges, Counted, Refunded, BookingRow, Purse, Shares
  <2> QED
    BY <2>8, <2>10 DEF MoneyInv
<1> QED
  BY <1>4, <1>5 DEF RequestRefund

\* The bank or Stripe decides: what was refunded becomes no more.
LEMMA StripeMoney ==
  ASSUME IInv, IInv', MoneyInv, NEW r \in Resolutions, StripeRefundSettles(r) PROVE MoneyInv'
<1> USE DEF IInv
<1>1. UNCHANGED <<booking, resolution, payment, work, clawed, credited, earning, wallet>>
  BY DEF StripeRefundSettles, money
<1>2. PICK status \in {"succeeded", "failed"} :
        /\ <<stripe[r], status>> \in
             {<<"pending", "succeeded">>, <<"pending", "failed">>, <<"succeeded", "failed">>}
        /\ stripe' = [stripe EXCEPT ![r] = status]
        /\ events' = events \union {<<r, status>>}
  BY DEF StripeRefundSettles
<1>3. stripe'[r] = status /\ \A q \in Resolutions \ {r} : stripe'[q] = stripe[q]
  BY <1>2 DEF Typed
<1>4. Fresh(r) /\ History(r) /\ OneWay(r) /\ Seen(r)
  BY DEF Backed, MoneyInv, Rows
<1>5. Fresh(r)'
  BY <1>1, <1>2, <1>4 DEF Fresh, Untouched
<1>6. /\ \A s \in Answers : Reports(r, s)' => Reports(r, s) \/ s = status
      /\ <<r, "pending">> \in events' => <<r, "pending">> \in events
  BY <1>1, <1>2 DEF Reports
<1>7. History(r)'
  <2>1. CASE stripe[r] = "pending" /\ status = "succeeded"
    BY <1>1, <1>3, <1>4, <1>6, <2>1 DEF History, Answers, Reports
  <2>2. CASE status = "failed"
    BY <1>1, <1>3, <1>4, <1>6, <2>2 DEF History, Answers
  <2> QED
    BY <1>2, <2>1, <2>2
<1>8. OneWay(r)'
  BY <1>1, <1>2, <1>4 DEF OneWay
<1>9. \A q \in Resolutions \ {r} : Same(q)
  BY <1>1, <1>2, <1>3 DEF Same, Untouched
<1>10. Rows'
  BY <1>5, <1>7, <1>8, <1>9, RowsKept DEF MoneyInv
<1>11. AtStripe' <= booking.intent
  <2>1. AtStripe' = AtStripe - StripeAmount(r) + StripeAmount(r)'
    BY <1>1, <1>3, StripeMoves DEF StripeAmount
  <2>2. StripeAmount(r)' <= StripeAmount(r) /\ StripeAmount(r)' \in Nat /\ StripeAmount(r) \in Nat
    BY <1>1, <1>2, <1>3, AmountsAreNats DEF StripeAmount
  <2>3. AtStripe \in Nat /\ booking.intent \in Int /\ AtStripe <= booking.intent
    BY StripeSum, AmountsAreNat DEF MoneyInv, Charges, BookingRow
  <2> QED
    BY <2>1, <2>2, <2>3
<1>12. Charges' /\ Counted' /\ Purse' /\ Shares'
  BY <1>1, <1>11 DEF MoneyInv, Charges, Counted, Refunded, BookingRow, Purse, Shares
<1> QED
  BY <1>10, <1>12 DEF MoneyInv

-----------------------------------------------------------------------------
(* What is recorded of a refund. *)

\* The row of a prepared refund changes its status and nothing else.
Marked(r) ==
  /\ payment[r].status # "none" /\ payment'[r].status # "none"
  /\ payment'[r].amount = payment[r].amount
  /\ \A q \in Resolutions \ {r} : payment'[q] = payment[q]

LEMMA MarkIs ==
  ASSUME Typed, NEW r \in Resolutions, NEW s \in {"processing", "succeeded", "failed"},
         payment[r].status # "none", payment' = [payment EXCEPT ![r].status = s]
  PROVE  Marked(r) /\ payment'[r].status = s
         /\ \A q \in Resolutions : payment'[q].amount = payment[q].amount
<1>1. payment[r] \in PaymentRow /\ payment'[r] = [payment[r] EXCEPT !.status = s]
  BY DEF Typed
<1>2. payment'[r].status = s /\ payment'[r].amount = payment[r].amount
  BY <1>1 DEF PaymentRow
<1>3. \A q \in Resolutions \ {r} : payment'[q] = payment[q]
  OBVIOUS
<1> QED
  BY <1>2, <1>3 DEF Marked

LEMMA StripeMarked ==
  ASSUME IInv, IInv', Charges, NEW r \in Resolutions, Marked(r), UNCHANGED stripe
  PROVE  AtStripe' = AtStripe
<1>1. Typed /\ Typed'
  BY DEF IInv
<1>2. AtStripe' = AtStripe - StripeAmount(r) + StripeAmount(r)'
  BY <1>1, StripeMoves DEF StripeAmount, Marked
<1>3. StripeAmount(r)' = StripeAmount(r) /\ StripeAmount(r) \in Nat /\ AtStripe \in Nat
  BY <1>1, StripeSum, AmountsAreNats DEF StripeAmount, Marked
<1> QED
  BY <1>2, <1>3

\* What does not count as refunded but did brings the booking no nearer to it.
LEMMA MarkedCounts ==
  ASSUME IInv, IInv', Charges, Counted, NEW r \in Resolutions, Marked(r), UNCHANGED booking,
         payment'[r].status = "succeeded" => payment[r].status = "succeeded"
  PROVE  Counted'
<1>1. Typed /\ Typed'
  BY DEF IInv
<1>2. Refunded({"succeeded"})' = Refunded({"succeeded"})
        - BookAmount(r, {"succeeded"}) + BookAmount(r, {"succeeded"})'
  BY <1>1, BookMoves DEF BookAmount, Marked
<1>3. /\ BookAmount(r, {"succeeded"})' <= BookAmount(r, {"succeeded"})
      /\ BookAmount(r, {"succeeded"})' \in Nat /\ BookAmount(r, {"succeeded"}) \in Nat
  BY <1>1, AmountsAreNats DEF BookAmount, Marked
<1>4. Refunded({"succeeded"}) \in Nat /\ booking.unused \in Nat /\ Charged \in Nat
  BY <1>1, BookSum, AmountsAreNat DEF Charges, BookingRow
<1>5. booking.payment = "refunded" \/ booking.unused + Refunded({"succeeded"}) < Charged
  BY DEF Counted, Marked
<1> QED
  BY <1>2, <1>3, <1>4, <1>5 DEF Counted

LEMMA FailMoney ==
  ASSUME IInv, IInv', MoneyInv, NEW r \in Resolutions, FailDisputeRefund(r) PROVE MoneyInv'
<1> USE DEF IInv
<1>1. /\ UNCHANGED <<booking, stripe, events, clawed, credited, earning, wallet>>
      /\ work[r].pc = "fail" /\ End(r) /\ FailedResolution(resolution, r)
  BY DEF FailDisputeRefund, provider, money, At
<1>2. Fresh(r) /\ History(r) /\ OneWay(r) /\ Seen(r)
  BY DEF Backed, MoneyInv, Rows
<1>3. ~Untouched(r) /\ payment[r].status # "none" /\ booking.source # "wallet"
  BY <1>1, <1>2 DEF Fresh, Seen, OneWay
<1>4. work'[r].pc = "idle" /\ \A q \in Resolutions \ {r} : work'[q] = work[q]
  BY <1>1, EndIs
<1>5. /\ \A q \in Resolutions \ {r} : resolution'[q] = resolution[q]
      /\ resolution'[r] = resolution[r] \/ resolution'[r].status = "failed"
  BY <1>1, FailedIs DEF Typed
<1>6. PICK s \in {"succeeded", "failed"} :
        /\ payment' = [payment EXCEPT ![r].status = s]
        /\ s = "succeeded" <=> payment[r].status = "succeeded"
  BY DEF FailDisputeRefund
<1>7. /\ Marked(r) /\ payment'[r].status = s
      /\ \A q \in Resolutions : payment'[q].amount = payment[q].amount
  BY <1>3, <1>6, MarkIs
<1>8. Fresh(r)'
  BY <1>1, <1>2, <1>3, <1>4, <1>5, <1>7 DEF Fresh, Untouched, Marked
<1>9. History(r)'
  BY <1>1, <1>2, <1>4, <1>6, <1>7 DEF History, Reports, Answers
<1>10. OneWay(r)'
  BY <1>1, <1>2, <1>3, <1>4 DEF OneWay
<1>11. \A q \in Resolutions \ {r} : Same(q)
  BY <1>1, <1>4, <1>5, <1>7 DEF Same, Untouched, Marked
<1>12. Rows'
  BY <1>8, <1>9, <1>10, <1>11, RowsKept DEF MoneyInv
<1>13. Charges'
  <2>1. AtStripe' = AtStripe
    BY <1>1, <1>7, StripeMarked DEF MoneyInv
  <2> QED
    BY <1>1, <1>3, <2>1 DEF MoneyInv, Charges, BookingRow
<1>14. Counted'
  BY <1>1, <1>6, <1>7, MarkedCounts DEF MoneyInv
<1>15. Purse' /\ Shares'
  BY <1>1, <1>7 DEF MoneyInv, Purse, Shares
<1> QED
  BY <1>12, <1>13, <1>14, <1>15 DEF MoneyInv

\* A settled refund: the books of the booking, the earning and the wallet after
\* it, and what FullRefundTakesAll says of it.
LEMMA SettledMoney ==
  ASSUME IInv, IInv', MoneyInv, NEW r \in Resolutions, payment[r].status # "none",
         RefundSettled([payment EXCEPT ![r].status = "succeeded"], r)
  PROVE  /\ Marked(r) /\ payment'[r].status = "succeeded" /\ Purse' /\ Shares' /\ Counted'
         /\ booking' = [booking EXCEPT !.payment = booking'.payment] /\ booking' \in BookingRow
         /\ clawed'[r] >= clawed[r] /\ \A q \in Resolutions \ {r} : clawed'[q] = clawed[q]
         /\ resolution'[r].status = "applied"
         /\ \A q \in Resolutions \ {r} : resolution'[q] = resolution[q]
         /\ booking.payment # "refunded" /\ booking'.payment = "refunded" =>
              \/ earning'.reversed = Net
              \/ clawed[r] > 0 /\ payment[r].status # "succeeded"
<1> USE DEF IInv
<1> DEFINE s == "succeeded"
           pay == [payment EXCEPT ![r].status = s]
<1>1. s \in {"processing", "succeeded", "failed"} /\ s = "succeeded"
  OBVIOUS
<1>2. pay \in [Resolutions -> PaymentRow] /\ RefundSettled(pay, r)
  <2> HIDE DEF s
  <2> QED
    BY <1>1, PaidIs
<1>3. payment' = pay
  BY <1>2 DEF RefundSettled
<1>4. /\ Marked(r) /\ payment'[r].status = "succeeded"
      /\ \A q \in Resolutions : payment'[q].amount = payment[q].amount
  <2> HIDE DEF s
  <2> QED
    BY <1>1, <1>3, MarkIs
<1> HIDE DEF pay
<1>5. Recorded(r) /\ resolution'[r].status = "applied"
  BY <1>2, SettledIs
<1>6. /\ Adjusted(pay, r) /\ Purse /\ Shares /\ Charges /\ Counted
      /\ booking' = [booking EXCEPT !.payment =
                       IF Succeeded(pay) >= Charged THEN "refunded" ELSE "partially_refunded"]
  BY <1>2 DEF RefundSettled, MoneyInv
<1>7. Purse' /\ clawed'[r] = clawed[r] + Taken(pay, r)
  BY <1>2, <1>6, AdjustedPurse
<1>8. Shares'
  BY <1>2, <1>3, <1>4, <1>6, AdjustedShares
<1>9. /\ Taken(pay, r) \in Nat
      /\ Clawable(r) /\ Succeeded(pay) >= Charged => Taken(pay, r) = RemainingEarning
  BY <1>2, <1>6, TakenIs
<1>10. clawed[r] \in Nat /\ clawed'[r] >= clawed[r]
  BY <1>6, <1>7, <1>9 DEF Purse
<1>11. Succeeded(pay) = booking.unused + Refunded({"succeeded"})'
  BY <1>3, SucceededIs
<1>12. /\ booking \in BookingRow /\ Refunded({"succeeded"})' \in Nat /\ Refunded({"succeeded"}) \in Nat
       /\ Charged \in Nat /\ booking.unused \in Nat
  <2>1. Refunded({"succeeded"}) \in Nat
    BY BookSum
  <2>2. Refunded({"succeeded"})' = Refunded({"succeeded"})
          - BookAmount(r, {"succeeded"}) + BookAmount(r, {"succeeded"})'
    BY <1>4, BookMoves DEF BookAmount, Marked
  <2>3. BookAmount(r, {"succeeded"})' >= BookAmount(r, {"succeeded"})
        /\ BookAmount(r, {"succeeded"}) \in Nat /\ BookAmount(r, {"succeeded"})' \in Nat
    BY <1>4, AmountsAreNats DEF BookAmount
  <2> QED
    BY <1>6, <2>1, <2>2, <2>3, AmountsAreNat DEF Charges, BookingRow
<1>13. /\ booking' \in BookingRow /\ booking'.unused = booking.unused
       /\ booking' = [booking EXCEPT !.payment = booking'.payment]
       /\ booking'.payment = "refunded" <=> Succeeded(pay) >= Charged
  BY <1>6, <1>12 DEF BookingRow
<1>14. Counted'
  BY <1>11, <1>12, <1>13 DEF Counted
<1>15. ASSUME booking.payment # "refunded", booking'.payment = "refunded"
       PROVE earning'.reversed = Net \/ (clawed[r] > 0 /\ payment[r].status # "succeeded")
  <2>1. CASE clawed[r] = 0
    <3>1. earning'.reversed = earning.reversed + RemainingEarning
      BY <1>2, <1>6, <1>9, <1>13, <1>15, <2>1, AdjustedIs DEF Clawable
    <3> QED
      BY <1>6, <3>1, RestIs
  <2>2. CASE payment[r].status = "succeeded"
    <3>1. Refunded({"succeeded"})' = Refunded({"succeeded"})
            - BookAmount(r, {"succeeded"}) + BookAmount(r, {"succeeded"})'
      BY <1>4, BookMoves DEF BookAmount, Marked
    <3>2. BookAmount(r, {"succeeded"})' = BookAmount(r, {"succeeded"})
          /\ BookAmount(r, {"succeeded"}) \in Nat
      BY <1>4, <2>2, AmountsAreNats DEF BookAmount
    <3>3. booking.unused + Refunded({"succeeded"}) < Charged
      BY <1>6, <1>15, <2>2 DEF Counted
    <3> QED
      BY <1>11, <1>12, <1>13, <1>15, <3>1, <3>2, <3>3
  <2> QED
    BY <1>10, <2>1, <2>2
<1> QED
  BY <1>4, <1>5, <1>7, <1>8, <1>10, <1>13, <1>14, <1>15 DEF Recorded

\* What FullRefundTakesAll says of a step.
TakesAll ==
  booking.payment # "refunded" /\ booking'.payment = "refunded" =>
    \/ earning'.reversed = Net
    \/ \E r \in Resolutions : stripe[r] = "failed" /\ clawed[r] > 0

LEMMA SettleWalletMoney ==
  ASSUME IInv, IInv', MoneyInv, NEW r \in Resolutions, SettleWalletRefund(r)
  PROVE  MoneyInv' /\ TakesAll
<1> USE DEF IInv
<1>1. /\ RefundSettled([payment EXCEPT ![r].status = "succeeded"], r)
      /\ UNCHANGED <<stripe, events>> /\ work[r].pc = "settle" /\ End(r)
      /\ credited' = credited \union {r}
  BY DEF SettleWalletRefund, provider, At
<1>2. Fresh(r) /\ History(r) /\ OneWay(r) /\ Seen(r) /\ booking \in BookingRow
  BY DEF Backed, MoneyInv, Rows, Charges
<1>3. /\ ~Untouched(r) /\ booking.source = "wallet" /\ stripe[r] = "none"
      /\ payment[r].status = "processing" /\ clawed[r] = 0
  BY <1>1, <1>2 DEF Fresh, Seen, OneWay, BookingRow
<1>4. /\ Marked(r) /\ payment'[r].status = "succeeded" /\ Purse' /\ Shares' /\ Counted'
      /\ booking' = [booking EXCEPT !.payment = booking'.payment] /\ booking' \in BookingRow
      /\ \A q \in Resolutions \ {r} : clawed'[q] = clawed[q]
      /\ resolution'[r].status = "applied"
      /\ \A q \in Resolutions \ {r} : resolution'[q] = resolution[q]
      /\ booking.payment # "refunded" /\ booking'.payment = "refunded" =>
           earning'.reversed = Net \/ clawed[r] > 0
  BY <1>1, <1>3, SettledMoney
<1>5. TakesAll
  BY <1>3, <1>4 DEF TakesAll
<1>6. booking'.source = booking.source /\ booking'.intent = booking.intent
  BY <1>2, <1>4 DEF BookingRow
<1>7. work'[r].pc = "idle" /\ \A q \in Resolutions \ {r} : work'[q] = work[q]
  BY <1>1, EndIs
<1>8. Fresh(r)'
  BY <1>4, <1>7 DEF Fresh, Untouched, Marked
<1>9. History(r)'
  BY <1>1, <1>2, <1>3, <1>7 DEF History, Reports, Answers
<1>10. OneWay(r)'
  BY <1>1, <1>3, <1>4, <1>6, <1>7 DEF OneWay
<1>11. \A q \in Resolutions \ {r} : Same(q)
  BY <1>1, <1>4, <1>6, <1>7 DEF Same, Untouched, Marked
<1>12. Rows'
  BY <1>8, <1>9, <1>10, <1>11, RowsKept DEF MoneyInv
<1>13. Charges'
  <2>1. AtStripe' = AtStripe
    BY <1>1, <1>4, StripeMarked DEF MoneyInv
  <2>2. Refunded({"processing", "succeeded"})' = Refunded({"processing", "succeeded"})
    <3>1. Refunded({"processing", "succeeded"})' = Refunded({"processing", "succeeded"})
            - BookAmount(r, {"processing", "succeeded"}) + BookAmount(r, {"processing", "succeeded"})'
      BY <1>4, BookMoves DEF BookAmount, Marked
    <3>2. /\ BookAmount(r, {"processing", "succeeded"})' = BookAmount(r, {"processing", "succeeded"})
          /\ BookAmount(r, {"processing", "succeeded"}) \in Nat
          /\ Refunded({"processing", "succeeded"}) \in Nat
      BY <1>3, <1>4, AmountsAreNats, BookSum DEF BookAmount, Marked
    <3> QED
      BY <3>1, <3>2
  <2> QED
    BY <1>1, <1>4, <1>6, <2>1, <2>2 DEF MoneyInv, Charges
<1> QED
  BY <1>4, <1>5, <1>12, <1>13 DEF MoneyInv

\* What a record about refund r has heard is heard no more, unless it was said
\* both in answer and in an event.
Heard(r, seen) ==
  /\ UNCHANGED <<stripe, credited>>
  /\ \A q \in Resolutions \ {r} : work'[q] = work[q]
  /\ work'[r] = work[r] \/ work'[r].pc = "idle"
  /\ events' \subseteq events
  /\ Reports(r, seen)
  /\ Reports(r, seen)' =>
       work[r].pc = "record" /\ work[r].seen = seen /\ <<r, seen>> \in events

LEMMA BookedMoney ==
  ASSUME IInv, IInv', MoneyInv, NEW r \in Resolutions, NEW seen \in Answers, BookedAs(r, seen),
         payment[r].status # "none", Heard(r, seen)
  PROVE  MoneyInv' /\ TakesAll
<1> USE DEF IInv
<1>1. Fresh(r) /\ History(r) /\ OneWay(r) /\ Seen(r) /\ booking \in BookingRow
  BY DEF Backed, MoneyInv, Rows, Charges
<1>2. /\ stripe[r] # "none" /\ ~Untouched(r) /\ booking.source = "stripe"
      /\ work[r].pc \notin {"prepare", "request", "settle"}
  BY <1>1 DEF Heard, History, Answers, OneWay, Seen, BookingRow, Fresh
<1>3. \A s \in Answers : Reports(r, s)' => Reports(r, s)
  BY DEF Heard, Reports
<1>4. /\ Recorded(r) /\ resolution'[r].status \in {"processing", "applied", "failed"}
      /\ seen # "succeeded" => clawed'[r] = clawed[r]
  BY BookedIs DEF Answers
<1>5. ASSUME Marked(r), booking'.source = booking.source,
             clawed'[r] = clawed[r] \/ (seen = "succeeded" /\ clawed'[r] >= clawed[r]),
             seen = "succeeded" => payment'[r].status = "succeeded"
      PROVE Rows'
  <2>1. Fresh(r)'
    BY <1>2, <1>4, <1>5 DEF Heard, Fresh, Untouched, Marked
  <2>2. History(r)'
    <3>1. stripe[r] # "failed" => ~Reports(r, "failed") /\ ~Reports(r, "failed")'
      BY <1>1, <1>3 DEF History, Answers
    <3>2. stripe[r] = "pending" => clawed'[r] = 0 /\ ~Reports(r, "succeeded")'
      BY <1>1, <1>3, <1>5 DEF Heard, History, Answers
    <3>3. work'[r].pc = "record" /\ work'[r].seen = "succeeded" => <<r, "pending">> \notin events'
      BY <1>1 DEF Heard, History
    <3>4. ASSUME stripe[r] = "succeeded", clawed'[r] > 0, Reports(r, "succeeded")'
          PROVE payment'[r].status = "succeeded" /\ ~Reports(r, "pending")'
      <4>1. CASE seen = "succeeded"
        <5>1. work[r].pc = "record" /\ work[r].seen = "succeeded"
          BY <3>4, <4>1 DEF Heard
        <5>2. <<r, "pending">> \notin events
          BY <1>1, <5>1 DEF History
        <5>3. ~Reports(r, "pending")
          BY <5>1, <5>2 DEF Reports
        <5> QED
          BY <1>3, <1>5, <4>1, <5>3 DEF Answers
      <4>2. CASE seen # "succeeded"
        <5>1. Reports(r, "succeeded") /\ clawed[r] > 0
          BY <1>3, <1>4, <3>4, <4>2 DEF Answers
        <5>2. ~Reports(r, "pending") /\ ~Reports(r, "failed")
          BY <1>1, <3>1, <3>4, <5>1 DEF History
        <5> QED
          BY <4>2, <5>2 DEF Heard, Answers
      <4> QED
        BY <4>1, <4>2
    <3> QED
      BY <1>2, <3>1, <3>2, <3>3, <3>4 DEF History, Heard
  <2>3. OneWay(r)'
    BY <1>1, <1>2, <1>5 DEF Heard, OneWay
  <2>4. \A q \in Resolutions \ {r} : Same(q)
    BY <1>4, <1>5 DEF Same, Untouched, Marked, Heard, Recorded
  <2> QED
    BY <2>1, <2>2, <2>3, <2>4, RowsKept DEF MoneyInv
<1>6. CASE seen = "succeeded"
  <2>1. RefundSettled([payment EXCEPT ![r].status = "succeeded"], r)
    BY <1>6 DEF BookedAs, MapRefundStatus
  <2>2. /\ Marked(r) /\ payment'[r].status = "succeeded" /\ Purse' /\ Shares' /\ Counted'
        /\ booking' = [booking EXCEPT !.payment = booking'.payment] /\ booking' \in BookingRow
        /\ clawed'[r] >= clawed[r]
        /\ booking.payment # "refunded" /\ booking'.payment = "refunded" =>
             \/ earning'.reversed = Net
             \/ clawed[r] > 0 /\ payment[r].status # "succeeded"
    BY <2>1, SettledMoney
  <2>3. booking'.source = booking.source /\ booking'.intent = booking.intent
    BY <1>1, <2>2 DEF BookingRow
  <2>4. Rows'
    BY <1>5, <1>6, <2>2, <2>3
  <2>5. Charges'
    <3>1. AtStripe' = AtStripe
      BY <2>2, StripeMarked DEF MoneyInv, Heard
    <3> QED
      BY <1>2, <2>2, <2>3, <3>1 DEF MoneyInv, Charges, Heard
  <2>6. TakesAll
    <3>1. clawed[r] > 0 /\ payment[r].status # "succeeded" => stripe[r] = "failed"
      <4>1. Reports(r, "succeeded") /\ stripe[r] \in {"none", "pending", "succeeded", "failed"}
        BY <1>6 DEF Heard, Typed
      <4> QED
        BY <1>1, <1>2, <4>1 DEF History
    <3> QED
      BY <2>2, <3>1 DEF TakesAll
  <2> QED
    BY <2>2, <2>4, <2>5, <2>6 DEF MoneyInv
<1>7. CASE seen # "succeeded"
  <2>1. PICK s \in {"processing", "failed"} : payment' = [payment EXCEPT ![r].status = s]
    BY <1>7 DEF BookedAs, MapRefundStatus, Answers
  <2>2. UNCHANGED <<booking, earning, wallet, clawed>>
    BY <1>7 DEF BookedAs, MapRefundStatus, Answers
  <2>3. /\ Marked(r) /\ payment'[r].status = s
        /\ \A q \in Resolutions : payment'[q].amount = payment[q].amount
    BY <2>1, MarkIs
  <2>4. Rows'
    BY <1>5, <1>7, <2>2, <2>3
  <2>5. Charges'
    <3>1. AtStripe' = AtStripe
      BY <2>3, StripeMarked DEF MoneyInv, Heard
    <3> QED
      BY <1>2, <2>2, <3>1 DEF MoneyInv, Charges, Heard
  <2>6. Counted'
    BY <2>2, <2>3, MarkedCounts DEF MoneyInv
  <2>7. Purse' /\ Shares' /\ TakesAll
    BY <2>2, <2>3 DEF MoneyInv, Purse, Shares, TakesAll
  <2> QED
    BY <2>4, <2>5, <2>6, <2>7 DEF MoneyInv
<1> QED
  BY <1>6, <1>7

LEMMA SyncMoney ==
  ASSUME IInv, IInv', MoneyInv, NEW r \in Resolutions, SyncRefund(r) PROVE MoneyInv' /\ TakesAll
<1>1. /\ UNCHANGED <<stripe, events, credited>> /\ work[r].pc = "record"
      /\ BookedAs(r, work[r].seen) /\ End(r)
  BY DEF SyncRefund, provider, At
<1>2. work'[r].pc = "idle" /\ \A q \in Resolutions \ {r} : work'[q] = work[q]
  BY <1>1, EndIs DEF IInv
<1>3. payment[r].status # "none"
  BY <1>1 DEF MoneyInv, Rows, Fresh
<1>4. work[r].seen \in Answers
  <2>1. work[r].seen \in {"none", "pending", "succeeded", "failed"}
    BY DEF IInv, Typed, WorkRow
  <2>2. MapRefundStatus(work[r].seen) \in {"processing", "succeeded", "failed"}
    BY <1>1 DEF BookedAs
  <2> QED
    BY <2>1, <2>2 DEF MapRefundStatus, Answers
<1>5. PICK seen \in Answers : work[r].seen = seen
  BY <1>4
<1>6. Heard(r, seen)
  BY <1>1, <1>2, <1>5 DEF Heard, Reports
<1> QED
  BY <1>1, <1>3, <1>5, <1>6, BookedMoney

LEMMA EventMoney ==
  ASSUME IInv, IInv', MoneyInv, NEW r \in Resolutions, NEW status \in Answers,
         RefundEvent(r, status)
  PROVE  MoneyInv' /\ TakesAll
<1>1. /\ UNCHANGED <<work, stripe, credited>> /\ <<r, status>> \in events
      /\ events' = events \ {<<r, status>>}
  BY DEF RefundEvent
<1>2. CASE Known(r) /\ BookedAs(r, status)
  <2>1. payment[r].status # "none"
    BY <1>2 DEF Known, None
  <2>2. Heard(r, status)
    BY <1>1 DEF Heard, Reports
  <2> QED
    BY <1>2, <2>1, <2>2, BookedMoney
<1>3. CASE UNCHANGED <<booking, complaint, resolution, payment, earning, wallet, clawed>>
  <2>1. \A q \in Resolutions : Same(q)
    BY <1>1, <1>3 DEF Same, Untouched
  <2>2. Rows'
    BY <2>1, SameRow DEF MoneyInv, Rows
  <2>3. Charges' /\ Counted' /\ Purse' /\ Shares' /\ TakesAll
    BY <1>1, <1>3 DEF MoneyInv, Charges, Counted, AtStripe, Refunded, BookingRow, Purse, Shares, TakesAll
  <2> QED
    BY <2>2, <2>3 DEF MoneyInv
<1> QED
  BY <1>2, <1>3 DEF RefundEvent

-----------------------------------------------------------------------------
(* The results about the money. *)

LEMMA InitMoney == Init => MoneyInv
<1> SUFFICES ASSUME Init PROVE MoneyInv
  OBVIOUS
<1>1. Typed
  BY InitInv DEF IInv
<1>2. \A r \in Resolutions :
        /\ payment[r].status = "none" /\ payment[r].amount = 0 /\ work[r].pc = "idle"
        /\ clawed[r] = 0 /\ stripe[r] = "none" /\ r \notin credited
  BY DEF Init, NoPayment, Idle, None
<1>3. events = {}
  BY DEF Init
<1>4. Rows
  BY <1>2, <1>3 DEF Rows, Fresh, History, OneWay, Reports, Answers
<1>5. Charges
  <2>1. booking \in BookingRow
    BY AmountsAssumption, SourcesAssumption DEF Init, BookingRow
  <2>2. AtStripe = 0
    <3> DEFINE f == [r \in Resolutions |-> StripeAmount(r)]
    <3>1. f \in [Resolutions -> Nat] /\ \A r \in Resolutions : f[r] = 0
      BY <1>2 DEF StripeAmount
    <3>2. AtStripe = Sum(f)
      BY DEF AtStripe, StripeAmount
    <3> HIDE DEF f
    <3> QED
      BY <3>1, <3>2, SumZero
  <2>3. Refunded({"processing", "succeeded"}) = 0
    <3> DEFINE f == [r \in Resolutions |-> BookAmount(r, {"processing", "succeeded"})]
    <3>1. f \in [Resolutions -> Nat] /\ \A r \in Resolutions : f[r] = 0
      BY <1>2 DEF BookAmount
    <3>2. Refunded({"processing", "succeeded"}) = Sum(f)
      BY DEF Refunded, BookAmount
    <3> HIDE DEF f
    <3> QED
      BY <3>1, <3>2, SumZero
  <2>4. credited \subseteq Resolutions
    BY DEF Init
  <2> QED
    BY <2>1, <2>2, <2>3, <2>4, AmountsAreNat DEF Charges, BookingRow
<1>6. Counted
  BY <1>2 DEF Counted
<1>7. Purse
  <2>1. clawed \in [Resolutions -> Nat]
    BY DEF Init
  <2>2. Sum(clawed) = 0
    BY <1>2, <2>1, SumZero
  <2> QED
    BY <2>1, <2>2, AmountsAreNat DEF Purse, Init
<1>8. Shares
  <2>1. Rounded(0 * Net, Charged) \in Nat
    BY AmountsAreNat, RoundedIsNat
  <2> QED
    BY <1>2, <2>1 DEF Shares
<1> QED
  BY <1>4, <1>5, <1>6, <1>7, <1>8 DEF MoneyInv

LEMMA NextMoney ==
  ASSUME IInv, IInv', MoneyInv, Next PROVE MoneyInv' /\ TakesAll
<1>1. CASE \/ \E c \in Complaints :
                Withdraw(c) \/ \E r \in Resolutions : Propose(r, c) \/ ResolveWithoutRefund(r, c)
           \/ \E r \in Resolutions : CloseProposal(r) \/ \E user \in Users : AcceptProposal(r, user)
  BY <1>1, ProposalMoney DEF TakesAll
<1>2. CASE \/ \E c \in Complaints : FileComplaint(c) \/ Reopen(c)
           \/ ReleaseHold \/ HoldFoundDispute \/ EarningAction
           \/ ChargebackMoves \/ ChargebackEvent
  <2>1. UNCHANGED booking
    BY <1>2 DEF FileComplaint, Reopen, ReleaseHold, HoldFoundDispute, EarningAction,
                ChargebackMoves, ChargebackEvent
  <2> QED
    BY <1>2, <2>1, HoldingMoney DEF TakesAll
<1>3. CASE ReleaseMatureEarning
  <2>1. UNCHANGED booking
    BY <1>3 DEF ReleaseMatureEarning
  <2> QED
    BY <1>3, <2>1, ReleaseMoney DEF TakesAll
<1>4. ASSUME NEW r \in Resolutions, NEW c \in Complaints, ResolveWithRefund(r, c)
      PROVE MoneyInv' /\ TakesAll
  <2>1. UNCHANGED booking
    BY <1>4 DEF ResolveWithRefund
  <2> QED
    BY <1>4, <2>1, ResolveRefundMoney DEF TakesAll
<1>5. ASSUME NEW r \in Resolutions,
             \/ PrepareRefund(r) \/ RequestRefund(r) \/ FailDisputeRefund(r)
             \/ WorkInterrupted(r) \/ StripeRefundSettles(r)
      PROVE MoneyInv' /\ TakesAll
  <2>1. UNCHANGED booking
    BY <1>5 DEF PrepareRefund, RequestRefund, FailDisputeRefund, WorkInterrupted, StripeRefundSettles
  <2>2. MoneyInv'
    BY <1>5, PrepareMoney, RequestMoney, FailMoney, InterruptedMoney, StripeMoney
  <2> QED
    BY <2>1, <2>2 DEF TakesAll
<1>6. ASSUME NEW r \in Resolutions, SettleWalletRefund(r) \/ SyncRefund(r)
      PROVE MoneyInv' /\ TakesAll
  BY <1>6, SettleWalletMoney, SyncMoney
<1>7. CASE SomeEvent
  BY <1>7, EventMoney DEF SomeEvent, Answers
<1> QED
  BY <1>1, <1>2, <1>3, <1>4, <1>5, <1>6, <1>7 DEF Next, Execute

LEMMA StutterMoney == ASSUME MoneyInv, UNCHANGED vars PROVE MoneyInv' /\ TakesAll
<1>1. \A q \in Resolutions : Untouched(q)' => Untouched(q)
  BY DEF vars, Untouched
<1>2. MoneyInv'
  BY <1>1, QuietMoney DEF vars
<1> QED
  BY <1>2 DEF vars, TakesAll

\* The inductive invariant about the money: where each refund stands and what is
\* still to be heard of it, what the refunds take from the charge, and what is
\* left of the earning in the Tasker's wallet.
THEOREM MoneyKept == Spec => []MoneyInv
<1>1. Init => MoneyInv
  BY InitMoney
<1>2. IInv /\ IInv' /\ MoneyInv /\ [Next]_vars => MoneyInv'
  BY NextMoney, StutterMoney
<1> QED
  BY <1>1, <1>2, Invariance, PTL DEF Spec

\* Whatever clawbacks, releases and repeated answers come in which order, the
\* Tasker's wallet holds what is left of the earning, pending until its release,
\* and no refund takes more than its share but one that takes all the rest.
THEOREM EarningAlwaysBalances == Spec => []EarningBalances
<1>1. MoneyInv => EarningBalances
  BY DEF MoneyInv, Purse, Shares, EarningBalances
<1> QED
  BY <1>1, MoneyKept, PTL

LEMMA ReturnsAreCovered == ASSUME IInv, MoneyInv PROVE RefundsWithinCharge
<1> USE DEF IInv
<1>1. /\ booking \in BookingRow /\ AtStripe \in Nat /\ AtStripe <= booking.intent
      /\ Charged \in Nat /\ credited \subseteq Resolutions
  BY StripeSum, AmountsAreNat DEF MoneyInv, Charges
<1> DEFINE g == [r \in credited |-> payment[r].amount]
<1>2. g \in [credited -> Nat]
  BY <1>1, AmountsAreNats
<1>3. Returned = AtStripe + Sum(g)
  BY DEF Returned
<1>4. CASE booking.source = "stripe"
  <2>1. credited = {}
    BY <1>1, <1>4 DEF MoneyInv, Rows, OneWay
  <2>2. \A r \in credited : g[r] = 0
    BY <2>1
  <2> HIDE DEF g
  <2>3. Sum(g) = 0
    BY <1>2, <2>2, SumZero
  <2> QED
    BY <1>1, <1>3, <2>3 DEF RefundsWithinCharge, BookingRow
<1>5. CASE booking.source = "wallet"
  <2>1. AtStripe = 0
    <3> DEFINE f == [r \in Resolutions |-> StripeAmount(r)]
    <3>1. f \in [Resolutions -> Nat] /\ \A r \in Resolutions : f[r] = 0
      BY <1>5 DEF StripeAmount, MoneyInv, Rows, OneWay
    <3>2. AtStripe = Sum(f)
      BY DEF AtStripe, StripeAmount
    <3> HIDE DEF f
    <3> QED
      BY <3>1, <3>2, SumZero
  <2>2. Sum(g) <= Refunded({"processing", "succeeded"})
    <3> DEFINE f == [r \in Resolutions |-> IF r \in credited THEN payment[r].amount ELSE 0]
               h == [r \in Resolutions |-> BookAmount(r, {"processing", "succeeded"})]
    <3>1. f \in [Resolutions -> Nat] /\ h \in [Resolutions -> Nat]
      BY AmountsAreNats, BookSum
    <3>2. \A r \in Resolutions : f[r] = IF r \in credited THEN g[r] ELSE 0
      OBVIOUS
    <3>3. \A r \in Resolutions : f[r] <= h[r]
      BY <1>5, <3>1 DEF BookAmount, MoneyInv, Rows, OneWay
    <3>4. Refunded({"processing", "succeeded"}) = Sum(h)
      BY DEF Refunded, BookAmount
    <3> HIDE DEF f, g, h
    <3>5. Sum(g) = Sum(f)
      BY <1>1, <1>2, <3>1, <3>2, SumWhere
    <3> QED
      BY <3>1, <3>3, <3>4, <3>5, SumBelow, RowsAssumption
  <2>3. Refunded({"processing", "succeeded"}) \in Nat /\ Refunded({"processing", "succeeded"}) <= Charged
    BY <1>5, BookSum DEF MoneyInv, Charges
  <2>4. Sum(g) \in Nat
    <3>1. IsFiniteSet(credited)
      BY <1>1, FS_Subset, RowsAssumption
    <3> HIDE DEF g
    <3> QED
      BY <1>2, <3>1, SumType
  <2> HIDE DEF g
  <2> QED
    BY <1>1, <1>3, <2>1, <2>2, <2>3, <2>4 DEF RefundsWithinCharge
<1> QED
  BY <1>1, <1>4, <1>5 DEF BookingRow

\* However many disputes, reopenings, failures and repeated answers there are,
\* refunds by Stripe or to the wallet return no more than was charged.
THEOREM RefundsStayWithinCharge == Spec => []RefundsWithinCharge
<1>1. IInv /\ MoneyInv => RefundsWithinCharge
  BY ReturnsAreCovered
<1> QED
  BY <1>1, Invariance, MoneyKept, PTL

\* The refund with which a booking reads as refunded in full takes the rest of
\* the earning, unless a refund that was clawed back has failed at Stripe since.
THEOREM FullRefundsTakeAll == Spec => FullRefundTakesAll
<1>1. IInv /\ IInv' /\ MoneyInv /\ [Next]_vars =>
        [booking.payment # "refunded" /\ booking'.payment = "refunded" =>
           \/ earning'.reversed = Net
           \/ \E r \in Resolutions : stripe[r] = "failed" /\ clawed[r] > 0]_vars
  BY NextMoney DEF TakesAll
<1> QED
  BY <1>1, Invariance, MoneyKept, PTL DEF Spec, FullRefundTakesAll

-----------------------------------------------------------------------------
(* Types. *)

ComplaintStatuses == {"none", "active", "resolved", "dismissed", "withdrawn"}

\* What the other parts of the invariant say nothing of.
RestTyped ==
  /\ complaint \in [Complaints -> ComplaintStatuses]
  /\ events \subseteq Resolutions \X Answers
  /\ chargeback \in [adverse : BOOLEAN, real : {"none", "open", "won"}]

LEMMA ComplaintIs ==
  ASSUME RestTyped, NEW c, NEW status \in ComplaintStatuses
  PROVE  [complaint EXCEPT ![c] = status] \in [Complaints -> ComplaintStatuses]
  BY DEF RestTyped

\* A failed refund reopens the complaint that it had resolved.
LEMMA FailedComplaint ==
  ASSUME RestTyped, NEW rs, NEW r, FailedResolution(rs, r)
  PROVE  complaint' \in [Complaints -> ComplaintStatuses]
<1>1. CASE UNCHANGED complaint
  BY <1>1 DEF RestTyped
<1>2. CASE complaint' = [complaint EXCEPT ![rs[r].complaint] =
                           IF @ = "resolved" THEN "active" ELSE @]
  BY <1>2 DEF RestTyped, ComplaintStatuses
<1> QED
  BY <1>1, <1>2 DEF FailedResolution

LEMMA BookedComplaint ==
  ASSUME RestTyped, NEW r, NEW seen, BookedAs(r, seen)
  PROVE  complaint' \in [Complaints -> ComplaintStatuses]
<1>1. ASSUME NEW rs, FailedResolution(rs, r)
      PROVE complaint' \in [Complaints -> ComplaintStatuses]
  BY <1>1, FailedComplaint
<1>2. ASSUME NEW pay, RefundSettled(pay, r)
      PROVE complaint' \in [Complaints -> ComplaintStatuses]
  BY <1>2, ComplaintIs DEF RefundSettled, ComplaintStatuses
<1>3. CASE UNCHANGED complaint
  BY <1>3 DEF RestTyped
<1> QED
  BY <1>1, <1>2, <1>3 DEF BookedAs

LEMMA ComplaintTyped ==
  ASSUME RestTyped, Next PROVE complaint' \in [Complaints -> ComplaintStatuses]
<1>1. ASSUME NEW c \in Complaints,
             \/ FileComplaint(c) \/ Withdraw(c) \/ Reopen(c)
             \/ \E r \in Resolutions : ResolveWithoutRefund(r, c)
      PROVE complaint' \in [Complaints -> ComplaintStatuses]
  <2>1. \E status \in {"active", "withdrawn", "resolved", "dismissed"} :
          complaint' = [complaint EXCEPT ![c] = status]
    BY <1>1 DEF FileComplaint, Withdraw, Reopen, Reopened, ResolveWithoutRefund
  <2> QED
    BY <2>1, ComplaintIs DEF ComplaintStatuses
<1>2. ASSUME NEW r \in Resolutions, SettleWalletRefund(r) \/ SyncRefund(r) \/ FailDisputeRefund(r)
      PROVE complaint' \in [Complaints -> ComplaintStatuses]
  <2>1. ASSUME NEW pay, RefundSettled(pay, r)
        PROVE complaint' \in [Complaints -> ComplaintStatuses]
    BY <2>1, ComplaintIs DEF RefundSettled, ComplaintStatuses
  <2> QED
    BY <1>2, <2>1, BookedComplaint, FailedComplaint
    DEF SettleWalletRefund, SyncRefund, FailDisputeRefund
<1>3. CASE SomeEvent
  <2>1. PICK r \in Resolutions, status \in Answers : RefundEvent(r, status)
    BY <1>3 DEF SomeEvent, Answers
  <2> QED
    BY <2>1, BookedComplaint DEF RefundEvent, RestTyped
<1>4. CASE UNCHANGED complaint
  BY <1>4 DEF RestTyped
<1>5. ASSUME NEW r \in Resolutions,
             \/ \E c \in Complaints : Propose(r, c) \/ ResolveWithRefund(r, c)
             \/ \E user \in Users : AcceptProposal(r, user)
             \/ PrepareRefund(r) \/ RequestRefund(r)
             \/ WorkInterrupted(r) \/ CloseProposal(r) \/ StripeRefundSettles(r)
      PROVE UNCHANGED complaint
  BY <1>5 DEF Propose, ResolveWithRefund, AcceptProposal, PrepareRefund, RequestRefund,
              WorkInterrupted, CloseProposal, StripeRefundSettles
<1>6. ASSUME \/ ReleaseHold \/ ReleaseMatureEarning \/ HoldFoundDispute \/ EarningAction
             \/ ChargebackMoves \/ ChargebackEvent
      PROVE UNCHANGED complaint
  BY <1>6 DEF ReleaseHold, ReleaseMatureEarning, HoldFoundDispute, EarningAction,
              ChargebackMoves, ChargebackEvent
<1> QED
  BY <1>1, <1>2, <1>3, <1>4, <1>5, <1>6 DEF Next, Execute

LEMMA ProviderTyped ==
  ASSUME RestTyped, Next
  PROVE  /\ events' \subseteq Resolutions \X Answers
         /\ chargeback' \in [adverse : BOOLEAN, real : {"none", "open", "won"}]
<1>1. ASSUME NEW c \in Complaints,
             \/ FileComplaint(c) \/ Withdraw(c) \/ Reopen(c)
             \/ \E r \in Resolutions :
                  Propose(r, c) \/ ResolveWithoutRefund(r, c) \/ ResolveWithRefund(r, c)
      PROVE UNCHANGED <<events, chargeback>>
  BY <1>1 DEF FileComplaint, Withdraw, Reopen, Propose, ResolveWithoutRefund,
              ResolveWithRefund, provider
<1>2. ASSUME NEW r \in Resolutions,
             \/ PrepareRefund(r) \/ FailDisputeRefund(r) \/ SettleWalletRefund(r) \/ SyncRefund(r)
             \/ WorkInterrupted(r) \/ CloseProposal(r)
             \/ \E user \in Users : AcceptProposal(r, user)
      PROVE UNCHANGED <<events, chargeback>>
  BY <1>2 DEF PrepareRefund, FailDisputeRefund, SettleWalletRefund, SyncRefund,
              WorkInterrupted, CloseProposal, AcceptProposal, provider
<1>3. ASSUME \/ ReleaseHold \/ ReleaseMatureEarning \/ HoldFoundDispute \/ EarningAction
      PROVE UNCHANGED <<events, chargeback>>
  BY <1>3 DEF ReleaseHold, ReleaseMatureEarning, HoldFoundDispute, EarningAction, provider
<1>4. ASSUME NEW r \in Resolutions,
             \/ RequestRefund(r) \/ StripeRefundSettles(r)
             \/ \E status \in Answers : RefundEvent(r, status)
      PROVE UNCHANGED chargeback /\ events' \subseteq Resolutions \X Answers
  BY <1>4 DEF RequestRefund, StripeRefundSettles, RefundEvent, RestTyped, Answers, provider
<1>5. CASE ChargebackMoves
  BY <1>5 DEF ChargebackMoves, RestTyped, provider, None
<1>6. CASE ChargebackEvent
  BY <1>6 DEF ChargebackEvent, RestTyped, provider
<1>7. ASSUME UNCHANGED <<events, chargeback>>
      PROVE /\ events' \subseteq Resolutions \X Answers
            /\ chargeback' \in [adverse : BOOLEAN, real : {"none", "open", "won"}]
  BY <1>7 DEF RestTyped
<1> QED
  BY <1>1, <1>2, <1>3, <1>4, <1>5, <1>6, <1>7 DEF Next, Execute, SomeEvent, Answers, RestTyped

LEMMA RestStaysTyped == Spec => []RestTyped
<1>1. Init => RestTyped
  BY DEF Init, RestTyped, ComplaintStatuses, None
<1>2. RestTyped /\ [Next]_vars => RestTyped'
  <2>1. RestTyped /\ Next => RestTyped'
    BY ComplaintTyped, ProviderTyped DEF RestTyped
  <2>2. RestTyped /\ UNCHANGED vars => RestTyped'
    BY DEF RestTyped, vars
  <2> QED
    BY <2>1, <2>2
<1> QED
  BY <1>1, <1>2, PTL DEF Spec

\* Every row, event and amount keeps its type: the earning never loses more than
\* it was and the pending part of the Tasker's wallet is never negative.
THEOREM TypeCorrect == Spec => []TypeOK
<1>1. IInv /\ MoneyInv /\ RestTyped => TypeOK
  <2> SUFFICES ASSUME IInv, MoneyInv, RestTyped PROVE TypeOK
    OBVIOUS
  <2>1. earning.reversed \in 0 .. Net
    BY SumType, RowsAssumption, AmountsAreNat DEF MoneyInv, Purse
  <2>2. wallet.pending \in Nat
    BY <2>1, AmountsAreNat DEF MoneyInv, Purse
  <2>3. earning \in [status : {"pending", "partially_reversed", "reversed", "available"},
                     blocked : BOOLEAN, reversed : 0 .. Net, released : BOOLEAN]
    BY <2>1 DEF IInv, Typed, EarningRow
  <2>4. wallet \in [pending : Nat, available : Int]
    BY <2>2 DEF IInv, Typed
  <2>5. booking \in BookingRow /\ credited \subseteq Resolutions /\ clawed \in [Resolutions -> Nat]
    BY DEF MoneyInv, Charges, Purse
  <2> QED
    BY <2>3, <2>4, <2>5
    DEF TypeOK, IInv, Typed, RestTyped, ResolutionRow, PaymentRow, WorkRow, BookingRow,
        ComplaintStatuses, Answers, None
<1> QED
  BY <1>1, Invariance, MoneyKept, RestStaysTyped, PTL
=============================================================================
