--------------------------- MODULE ReferralRewards ---------------------------
(***************************************************************************)
(* The referrals of one customer and of the Tasker who works for him: the  *)
(* code is claimed before the first settled booking, the customer gets a   *)
(* discount reserved against one booking, the first settled online booking *)
(* qualifies the referral, its bonuses go to wallets after a clearance     *)
(* time, and a refund, a lost chargeback or an administrator takes all of  *)
(* it back.                                                                *)
(*                                                                         *)
(* Every operation of the referral code is one transaction that locks the  *)
(* referral.  Of the bookings the module has what these transactions read, *)
(* with every handler that writes it, each in one step; the interleavings  *)
(* inside a settlement call and inside a refund are those of               *)
(* FinalSettlement and DisputeRefund.                                      *)
(***************************************************************************)
EXTENDS Integers, FiniteSets

CONSTANTS
  Bookings,    \* bookings of the customer with the Tasker
  Sources,     \* how each of them may come to be paid
  Disturbed,   \* those whose bill is changed, whose charge is answered late and
               \* whose money may go back
  Programs,    \* subset of {"customer", "tasker"}: the programs with a code to claim
  Captured,    \* what an online booking prepays
  Bills,       \* what the work of a booking may cost
  Discounts,   \* discounts the policy may yield, all positive
  Refunds,     \* amounts that disputes refund
  Minimum,     \* minimumQualifyingBookingAmount
  Bonus,       \* the bonus of each kind of reward, 0 for none
  Clearances   \* subset of BOOLEAN: whether a bonus has to clear first

Kinds == {"discount", "referrer", "referred"}

ASSUME AmountsAssumption ==
  /\ Captured \in Nat \ {0} /\ Bills \subseteq Nat \ {0}
  /\ Discounts \union Refunds \subseteq Nat \ {0} /\ Minimum \in Nat
  /\ Bonus \in [Programs -> [Kinds -> Nat]]
  /\ \A p \in Programs : Bonus[p]["discount"] = 0

ASSUME ProgramsAssumption ==
  /\ Disturbed \subseteq Bookings
  /\ Sources \in [Bookings -> SUBSET {"stripe", "wallet", "cash"}]
  /\ Programs \subseteq {"customer", "tasker"}
  /\ Clearances \subseteq BOOLEAN

VARIABLES
  booking,   \* Booking rows; returning, returned: refunds of disputes, under way and
             \* made; unusedDue, unused: the same of unused prepayment; earning: the
             \* TaskerEarning row; intent: amount of the PaymentIntent of the final
             \* charge, 0 for none, linked: stripePaymentIntentId names it.  Whether
             \* Stripe has charged it shows only when Stripe tells.
  referral   \* Referral rows with their ReferralReward rows; credited and
             \* reversed: the wallet entries of a reward

vars == <<booking, referral>>

-----------------------------------------------------------------------------

NoBooking == "no booking"
Online == {"stripe", "wallet"}
SettledPayments == {"paid", "partially_refunded", "refunded", "cash_confirmed"}

NoReward ==
  [status |-> "none", booking |-> NoBooking, amount |-> 0, matured |-> FALSE,
   wallet |-> 0, credited |-> 0, reversed |-> 0]

Unclaimed ==
  [status |-> "none", lapsed |-> FALSE, booking |-> NoBooking,
   reward |-> [k \in Kinds |-> NoReward]]

\* by: what providerSettlementReference names; bill stands for taskerNetAmount.
NoEarning == [by |-> "none", gross |-> 0, bill |-> 0]

NewBooking(source) ==
  [source |-> source, captured |-> IF source \in Online THEN Captured ELSE 0,
   status |-> "live", payment |-> "due", bill |-> 0, total |-> 0, discount |-> 0,
   earning |-> NoEarning, intent |-> 0, linked |-> FALSE,
   returning |-> 0, returned |-> 0, unused |-> 0, unusedDue |-> 0,
   disputed |-> FALSE, chargeback |-> "none"]

Init ==
  /\ \E source \in [Bookings -> Online \union {"cash"}] :
       /\ \A b \in Bookings : source[b] \in Sources[b]
       /\ booking = [b \in Bookings |-> NewBooking(source[b])]
  /\ referral = [p \in Programs |-> Unclaimed]

-----------------------------------------------------------------------------
(* Rewards. *)

\* Money of the booking that has not gone back, as the referral code counts it:
\* every refund row against the final total.
Remaining(bk) ==
  LET left == bk.total - bk.returned - bk.unused IN IF left > 0 THEN left ELSE 0

StillEligible(bk) == Remaining(bk) > 0 /\ Remaining(bk) >= Minimum

Held(bk) == bk.disputed \/ bk.chargeback \in {"active", "lost", "missed"}

RevokedReward(w) ==
  IF w.status = "pending" THEN [w EXCEPT !.status = "cancelled"]
  ELSE IF w.status = "settled" THEN [w EXCEPT !.status = "reversed", !.reversed = @ + w.wallet]
  ELSE w

PendingRevoked(ref) ==   \* mutant: leaves settled rewards as they are
  [ref EXCEPT !.status = "revoked",
     !.reward = [k \in Kinds |-> IF ref.reward[k].status = "pending"
                                   THEN RevokedReward(ref.reward[k]) ELSE ref.reward[k]]]

\* revokeLockedReferral
Revoked(ref) ==
  [ref EXCEPT !.status = "revoked",
     !.reward = [k \in Kinds |-> RevokedReward(ref.reward[k])]]

\* creditCustomerReward, creditTaskerReward: one wallet entry for each reward.
Credited(w) ==
  [w EXCEPT !.status = "settled", !.wallet = w.amount,
     !.credited = IF w.credited = 0 THEN w.amount ELSE w.credited]

\* refreshReferralRewardedStatus
Refreshed(ref) ==
  IF /\ ref.status = "qualified"
     /\ \A k \in Kinds : ref.reward[k].status # "pending"
     /\ \E k \in Kinds : ref.reward[k].status # "none"
    THEN [ref EXCEPT !.status = "rewarded"]
    ELSE ref

Mature(ref) == {k \in Kinds : ref.reward[k].status = "pending" /\ ref.reward[k].matured}

\* releaseReward of some mature rewards of one booking on which nothing holds.
Released(ref, kinds, bk) ==
  IF StillEligible(bk)
    THEN Refreshed([ref EXCEPT !.reward =
           [k \in Kinds |-> IF k \in kinds THEN Credited(ref.reward[k]) ELSE ref.reward[k]]])
    ELSE Revoked(ref)

\* expireLockedReferral: not while a booking that was not cancelled has the
\* discount reserved.  No booking is cancelled and still has it (see Cancel), so
\* that the handler also clears the booking's discount is left out.
Expired(ref) ==
  LET w == ref.reward["discount"] IN
  IF w.status # "pending" THEN [ref EXCEPT !.status = "expired"]
  ELSE IF booking[w.booking].status # "cancelled" THEN ref
  ELSE [ref EXCEPT !.status = "expired", !.reward["discount"].status = "cancelled"]

-----------------------------------------------------------------------------
(* Qualification. *)

\* createPendingReward, and the settlement of a discount that was given.
QualifyingReward(w, b, bonus, matured) ==
  IF w.status # "none" THEN [w EXCEPT !.status = "settled"]
  ELSE IF bonus = 0 THEN w
  ELSE [NoReward EXCEPT !.status = "pending", !.booking = b, !.amount = bonus,
                        !.matured = matured]

Qualifying(ref, p, b, matured) ==
  [ref EXCEPT !.status = "qualified", !.booking = b,
     !.reward = [k \in Kinds |-> QualifyingReward(ref.reward[k], b, Bonus[p][k], matured)]]

\* What is mature at once is released at once.
Immediate(ref, bk) ==
  IF Mature(ref) = {} \/ Held(bk) THEN Refreshed(ref) ELSE Released(ref, Mature(ref), bk)

\* qualifyPaidBooking for one program: bk is the booking as it was just paid.
Qualified(p, b, bk, matured) ==
  LET ref == referral[p]
      w == ref.reward["discount"]
  IN
  IF ref.status # "claimed" THEN ref
  ELSE IF w.booking # b /\ ref.lapsed THEN Expired(ref)
  ELSE IF (w.status # "none" /\ w.booking # b) \/ bk.total < Minimum THEN ref
  ELSE Immediate(Qualifying(ref, p, b, matured), bk)

\* The booking is paid with bk and qualifies the referrals of its two parties.
QualifiesWith(b, bk) ==
  \E matured \in Clearances :
    referral' = [p \in Programs |-> Qualified(p, b, bk, matured)]

RevokeWhereQualified(b, ineligible) ==   \* mutant: forgets referrals already rewarded
  referral' = [p \in Programs |->
    IF ineligible /\ referral[p].booking = b /\ referral[p].status = "qualified"
      THEN Revoked(referral[p]) ELSE referral[p]]

\* handleBookingRefund, handleBookingChargeback: referrals this booking qualified.
RevokeWhere(b, ineligible) ==
  referral' = [p \in Programs |->
    IF ineligible /\ referral[p].booking = b /\ referral[p].status \in {"qualified", "rewarded"}
      THEN Revoked(referral[p]) ELSE referral[p]]

-----------------------------------------------------------------------------
(* Participants, administrator and maintenance worker. *)

\* Claims come before the first settled booking.
Claim(p) ==
  /\ referral[p].status = "none"
  /\ \A b \in Bookings : booking[b].payment \notin SettledPayments
  /\ referral' = [referral EXCEPT ![p].status = "claimed"]
  /\ UNCHANGED booking

Revoke(p) ==
  /\ referral[p].status \notin {"none", "revoked"}
  /\ referral' = [referral EXCEPT ![p] = Revoked(@)]
  /\ UNCHANGED booking

\* The expiry of the claim and the clearance of a reward are instants.
Lapse(p) ==
  /\ referral[p].status = "claimed" /\ ~referral[p].lapsed
  /\ referral' = [referral EXCEPT ![p].lapsed = TRUE]
  /\ UNCHANGED booking

Clear(p, k) ==
  /\ referral[p].reward[k].status = "pending" /\ ~referral[p].reward[k].matured
  /\ referral' = [referral EXCEPT ![p].reward[k].matured = TRUE]
  /\ UNCHANGED booking

ExpireStaleReferral(p) ==
  /\ referral[p].status = "claimed" /\ referral[p].lapsed
  /\ referral' = [referral EXCEPT ![p] = Expired(@)]
  /\ UNCHANGED booking

\* The worker takes every pending reward that is due, the discount of a booking
\* that is not paid yet included.
ReleaseMatureReward(p, k) ==
  LET ref == referral[p]
      bk == booking[ref.reward[k].booking]
  IN
  /\ k \in Mature(ref) /\ ref.status # "revoked" /\ ~Held(bk)
  /\ referral' = [referral EXCEPT ![p] = Released(ref, {k}, bk)]
  /\ UNCHANGED booking

-----------------------------------------------------------------------------
(* Bookings until they are completed. *)

Complete(b) ==
  /\ booking[b].status = "live"
  /\ \E bill \in Bills :
       booking' = [booking EXCEPT ![b].status = "completed", ![b].bill = bill]
  /\ UNCHANGED referral

\* updateBilling: the tip belongs to the bill.
UpdateBilling(b) ==
  /\ booking[b].status = "completed"
  /\ booking[b].payment \notin {"paid", "cash_confirmed"}
  /\ \E bill \in Bills : booking' = [booking EXCEPT ![b].bill = bill]
  /\ UNCHANGED referral

\* Every cancellation releases a reservation of the booking.
Cancel(b) ==
  LET reserved == /\ "customer" \in Programs
                  /\ referral["customer"].reward["discount"].status = "pending"
                  /\ referral["customer"].reward["discount"].booking = b
  IN
  /\ booking[b].status = "live"
  /\ IF reserved
       THEN /\ referral' = [referral EXCEPT !["customer"].reward["discount"].status = "cancelled"]
            /\ booking' = [booking EXCEPT ![b].status = "cancelled", ![b].discount = 0]
       ELSE /\ booking' = [booking EXCEPT ![b].status = "cancelled"]
            /\ UNCHANGED referral

FileDispute(b) ==
  /\ booking[b].status = "completed" /\ ~booking[b].disputed
  /\ booking' = [booking EXCEPT ![b].disputed = TRUE]
  /\ UNCHANGED referral

CloseDispute(b) ==
  /\ booking[b].disputed
  /\ booking' = [booking EXCEPT ![b].disputed = FALSE]
  /\ UNCHANGED referral

-----------------------------------------------------------------------------
(* finalizeCompletedBooking. *)

Chargeable(b) ==
  /\ booking[b].status = "completed"
  /\ booking[b].payment \notin {"paid", "cash_confirmed"}
  /\ ~booking[b].disputed

FinalizeCash(b) ==
  /\ Chargeable(b) /\ booking[b].source = "cash"
  /\ booking' = [booking EXCEPT ![b].total = booking[b].bill]
  /\ UNCHANGED referral

ConfirmCash(b) ==
  /\ booking[b].source = "cash" /\ booking[b].payment = "due" /\ booking[b].total > 0
  /\ booking' = [booking EXCEPT ![b].payment = "cash_confirmed"]
  /\ UNCHANGED referral

\* A retry with a card, which is possible for every completed booking.
RetryWithCard(b) ==
  /\ booking[b].status = "completed"
  /\ booking' = [booking EXCEPT ![b].source = "stripe", ![b].payment = "due",
                                ![b].linked = FALSE]
  /\ UNCHANGED referral

Earning(by, total, bill) == [by |-> by, gross |-> total, bill |-> bill]

\* createPendingEarning: another settlement than the one recorded is a conflict,
\* which rolls its transaction back.
Settles(bk, by, total) == bk.earning \in {NoEarning, Earning(by, total, bk.bill)}

Settled(bk, by, total) ==
  [bk EXCEPT !.payment = "paid", !.total = total, !.earning = Earning(by, total, bk.bill)]

\* refundUnusedPrepayment, once for a booking: to the wallet in the same
\* transaction, to the card afterwards.
UnusedRefunded(bk, amount) ==
  IF amount = 0 \/ bk.unused + bk.unusedDue > 0 THEN bk
  ELSE IF bk.source = "wallet" THEN [bk EXCEPT !.unused = amount]
  ELSE [bk EXCEPT !.unusedDue = amount]

\* The prepayment covers the bill.
SettleCaptured(b) ==
  LET bk == booking[b]
      paid == Settled(bk, "acceptance", bk.bill)
  IN
  /\ Chargeable(b) /\ bk.captured > 0 /\ bk.captured >= bk.bill
  /\ Settles(bk, "acceptance", bk.bill)
  /\ QualifiesWith(b, paid)
  /\ booking' = [booking EXCEPT ![b] = UnusedRefunded(paid, bk.captured - bk.bill)]

UnusedReturned(b) ==
  /\ booking[b].unusedDue > 0
  /\ booking' = [booking EXCEPT ![b].unused = booking[b].unusedDue, ![b].unusedDue = 0]
  /\ UNCHANGED referral

\* What was charged is more than the bill: no handler of referrals is called.
ReconcileOverCaptured(b) ==
  LET bk == booking[b] IN
  /\ bk.payment = "paid" /\ bk.captured > 0 /\ bk.total > bk.bill
  /\ bk.unused + bk.unusedDue = 0
  /\ booking' = [booking EXCEPT ![b] =
       [UnusedRefunded(bk, bk.total - bk.bill) EXCEPT !.total = bk.bill,
                                                      !.earning.gross = bk.bill]]
  /\ UNCHANGED referral

SettleFromWallet(b) ==
  LET bk == booking[b] IN
  /\ Chargeable(b) /\ bk.source = "wallet" /\ bk.captured < bk.bill
  /\ Settles(bk, "wallet", bk.bill)
  /\ QualifiesWith(b, Settled(bk, "wallet", bk.bill))
  /\ booking' = [booking EXCEPT ![b] = Settled(bk, "wallet", bk.bill)]

\* The answer to the creation of the intent, if it is not a success; the total is
\* cleared unless the answer came as an error.
Answered(bk) ==
  {[bk EXCEPT !.payment = "due", !.linked = TRUE, !.total = total] : total \in {0, bk.total}}

\* The card is charged what is due.  The amount of the booking's intent is fixed
\* when it is created, and Stripe refuses one that is not positive; a later attempt
\* confirms the intent there is.
Attempted(bk, due) ==
  IF bk.intent # 0 THEN {[bk EXCEPT !.payment = "due"]}
  ELSE {new \in Answered([bk EXCEPT !.intent = due]) : due > 0}

ChargeRest(b) ==
  LET due == booking[b].bill - booking[b].captured IN
  /\ Chargeable(b) /\ booking[b].source = "stripe" /\ booking[b].captured > 0 /\ due > 0
  /\ \E bk \in Attempted(booking[b], due) : booking' = [booking EXCEPT ![b] = bk]
  /\ UNCHANGED referral

Customer == referral["customer"]

\* A discount already given is given to another booking only if the reservation
\* was cancelled or its booking was.
AlwaysReusable(w) == w.status \in {"none", "pending", "cancelled"}   \* mutant: of a live booking too

Reusable(w) ==
  \/ w.status \in {"none", "cancelled"}
  \/ w.status = "pending" /\ booking[w.booking].status = "cancelled"

\* reserveCustomerDiscount yields d for the booking; 0 also stands for a policy
\* without discount and for a bill too small for one.
ReserveCustomerDiscount(b, d) ==
  \/ /\ d = booking[b].discount
     /\ \/ booking[b].discount > 0 \/ "customer" \notin Programs
        \/ Customer.status # "claimed" \/ ~Customer.lapsed
     /\ UNCHANGED referral
  \/ /\ d = 0 /\ booking[b].discount = 0
     /\ "customer" \in Programs /\ Customer.status = "claimed" /\ Customer.lapsed
     /\ referral' = [referral EXCEPT !["customer"] = Expired(@)]
  \/ /\ d \in Discounts /\ booking[b].bill - d >= Minimum /\ booking[b].bill > d
     /\ booking[b].discount = 0
     /\ "customer" \in Programs /\ Customer.status = "claimed" /\ ~Customer.lapsed
     /\ Reusable(Customer.reward["discount"])
     /\ referral' = [referral EXCEPT !["customer"].reward["discount"] =
          [@ EXCEPT !.status = "pending", !.booking = b, !.amount = d,
                    !.matured = TRUE, !.wallet = 0]]

\* Only a booking without prepayment has a discount.
ChargeDiscounted(b) ==
  /\ Chargeable(b) /\ booking[b].source = "stripe" /\ booking[b].captured = 0
  /\ \E d \in Discounts \union {0} :
       /\ ReserveCustomerDiscount(b, d)
       /\ \E bk \in Attempted([booking[b] EXCEPT !.discount = d], booking[b].bill - d) :
            booking' = [booking EXCEPT ![b] = bk]

\* A late event of a failure, or an answer that a parallel call got earlier and
\* records now, the repeated answer to the creation included.
LateAnswer(b) ==
  LET bk == booking[b] IN
  /\ bk.intent > 0
  /\ \E late \in Answered(bk) \union {[bk EXCEPT !.payment = "due"]} :
       booking' = [booking EXCEPT ![b] = late]
  /\ UNCHANGED referral

\* handleBookingIntent, by event or by answer, however late and often.
ChargeSucceeded(b) ==
  LET bk == booking[b]
      total == bk.captured + bk.intent
  IN
  /\ bk.intent > 0 /\ bk.linked
  /\ Settles(bk, "intent", total)
  /\ QualifiesWith(b, Settled(bk, "intent", total))
  /\ booking' = [booking EXCEPT ![b] = Settled(bk, "intent", total)]

-----------------------------------------------------------------------------
(* Money that goes back. *)

Refundable(bk) == bk.total - bk.returning - bk.returned - bk.unusedDue - bk.unused

\* A resolution grants a refund: of cash for a booking that was paid in cash, to
\* the card only if the booking has its intent.
IssueRefund(b) ==
  LET bk == booking[b] IN
  /\ \/ bk.payment \in {"paid", "partially_refunded"}
     \/ bk.payment = "cash_confirmed" /\ bk.source = "cash"
  /\ bk.source = "stripe" => bk.linked
  /\ bk.returning = 0
  /\ \E amount \in Refunds :
       /\ amount <= Refundable(bk)
       /\ booking' = [booking EXCEPT ![b].returning = amount]
  /\ UNCHANGED referral

\* The refund fails, or succeeds with the handlers that follow it.
RefundFailed(b) ==
  /\ booking[b].returning > 0
  /\ booking' = [booking EXCEPT ![b].returning = 0]
  /\ UNCHANGED referral

RefundSucceeded(b) ==
  LET bk == booking[b]
      returned == bk.returned + bk.returning
      refunded == [bk EXCEPT !.returning = 0, !.returned = returned,
        !.payment = IF bk.total > 0 /\ returned + bk.unused >= bk.total
                      THEN "refunded" ELSE "partially_refunded"]
  IN
  /\ bk.returning > 0
  /\ booking' = [booking EXCEPT ![b] = refunded]
  /\ RevokeWhere(b, ~StillEligible(refunded))

\* An event of a chargeback of the final charge, in any order; "none" is also one
\* that was won.  It finds the
\* booking by its intent.  If a retry made the booking forget the intent, only the
\* chargeback's row is updated: "missed" is a loss that nobody was told of.
ChargebackEvent(b, status) ==
  LET bk == booking[b] IN
  /\ bk.intent > 0
  /\ \/ /\ bk.linked /\ bk.chargeback # status
        /\ booking' = [booking EXCEPT ![b].chargeback = status]
        /\ RevokeWhere(b, status = "lost")
     \/ /\ ~bk.linked /\ bk.chargeback # "none"
        /\ booking' = [booking EXCEPT ![b].chargeback =
             IF status # "lost" THEN status ELSE IF @ = "lost" THEN @ ELSE "missed"]
        /\ UNCHANGED referral

-----------------------------------------------------------------------------

Participants == \E p \in Programs : Claim(p) \/ Revoke(p) \/ Lapse(p)

Maintenance(p) ==
  \/ ExpireStaleReferral(p)
  \/ \E k \in Kinds : Clear(p, k) \/ ReleaseMatureReward(p, k)

Course(b) == Complete(b) \/ Cancel(b)

Settlement(b) ==
  \/ FinalizeCash(b) \/ ConfirmCash(b) \/ RetryWithCard(b)
  \/ SettleCaptured(b) \/ UnusedReturned(b) \/ ReconcileOverCaptured(b)
  \/ SettleFromWallet(b) \/ ChargeRest(b) \/ ChargeDiscounted(b)
  \/ ChargeSucceeded(b)

Disturbance(b) ==
  \/ UpdateBilling(b) \/ LateAnswer(b) \/ FileDispute(b) \/ CloseDispute(b)
  \/ IssueRefund(b) \/ RefundFailed(b) \/ RefundSucceeded(b)
  \/ \E status \in {"none", "active", "lost"} : ChargebackEvent(b, status)

Next ==
  \/ Participants
  \/ \E p \in Programs : Maintenance(p)
  \/ \E b \in Bookings : Course(b) \/ Settlement(b)
  \/ \E b \in Disturbed : Disturbance(b)

Spec == Init /\ [][Next]_vars

-----------------------------------------------------------------------------

Money == {"amount", "wallet", "credited", "reversed"}

TypeOK ==
  /\ \A b \in Bookings :
       /\ booking[b].status \in {"live", "completed", "cancelled"}
       /\ booking[b].payment \in SettledPayments \union {"due"}
       /\ booking[b].source \in Online \union {"cash"}
       /\ booking[b].chargeback \in {"none", "active", "lost", "missed"}
       /\ \A f \in {"bill", "total", "discount", "intent", "returning", "returned",
                    "unused", "unusedDue"} : booking[b][f] \in Nat
       /\ booking[b].earning.by \in {"none", "acceptance", "wallet", "intent"}
  /\ \A p \in Programs :
       /\ referral[p].status \in {"none", "claimed", "qualified", "rewarded", "expired", "revoked"}
       /\ referral[p].booking \in Bookings \union {NoBooking}
       /\ \A k \in Kinds :
            /\ referral[p].reward[k].status \in
                 {"none", "pending", "settled", "reversed", "cancelled"}
            /\ referral[p].reward[k].booking \in Bookings \union {NoBooking}
            /\ \A f \in Money : referral[p].reward[k][f] \in Nat

\* A referral gives its discount to one booking, however many are charged,
\* declined, billed anew and retried in parallel.
OneDiscount ==
  \A b, c \in Bookings : booking[b].discount > 0 /\ booking[c].discount > 0 => b = c

\* The wallet keeps of a reward what its row says, and of a revoked referral
\* nothing, whether the reward was credited before, by the qualification itself
\* or by the worker in parallel.
RevokedKeepsNothing ==
  \A p \in Programs, k \in Kinds :
    LET w == referral[p].reward[k] IN
    /\ w.credited - w.reversed = IF w.status = "settled" THEN w.wallet ELSE 0
    /\ referral[p].status = "revoked" => w.status \in {"none", "cancelled", "reversed"}

Bonuses == Kinds \ {"discount"}

\* What an online settlement of the booking took: the correction of a charge that
\* was too high lowers the earning and returns the difference.
Took(bk) ==
  bk.earning.gross + (IF bk.earning.by = "intent" THEN bk.unused + bk.unusedDue ELSE 0)

\* A bonus stays in a wallet only while the booking that earned it was settled
\* online, what the settlement took less the refunds of disputes satisfies the
\* minimum, and no chargeback that found the booking is lost: whether refund and
\* chargeback come before or after the bonus, and whatever retries, late answers,
\* tips and corrections do to the row in between.
BonusIsEarned ==
  \A p \in Programs, k \in Bonuses :
    LET w == referral[p].reward[k]
        bk == booking[w.booking]
    IN
    w.credited > w.reversed =>
      /\ w.booking = referral[p].booking
      /\ bk.earning.by # "none"
      /\ Took(bk) - bk.returned >= Minimum
      /\ bk.chargeback # "lost"

\* docs/production-referral-reward-system.md:29-30: what remains paid satisfies the
\* minimum.  False of the code: the correction of a charge that was too high, and a
\* chargeback lost after a retry made the booking forget its intent, leave the bonus.
BonusIsPaidFor ==
  \A p \in Programs, k \in Bonuses :
    LET w == referral[p].reward[k]
        bk == booking[w.booking]
    IN
    w.credited > w.reversed =>
      bk.earning.gross - bk.returned >= Minimum /\ bk.chargeback # "missed"

\* The reason the worker gives, referrals.service.ts:858, says the payment was
\* refunded.  False of the code: the reserved discount of a booking that is not
\* paid yet is due at once and has no money behind it, and the unused part of a
\* prepayment, which the total no longer has, is subtracted from it once more.
RevokedForCause ==
  [][\A p \in Programs, k \in Kinds :
       ReleaseMatureReward(p, k) /\ referral'[p].status = "revoked" =>
         booking[referral[p].reward[k].booking].returned > 0]_vars

\* docs/production-referral-reward-system.md:19: the discount is taken off the
\* booking.  False of the code: the worker can also pay it out to the wallet.
DiscountIsNoCredit ==
  \A p \in Programs : referral[p].reward["discount"].credited = 0
=============================================================================
