-------------------------- MODULE MCReferralRewards --------------------------
(* The instance of ReferralRewards that TLC checks: one bonus of each kind a *)
(* program has.  The undisturbed bookings are those that begin with cash,    *)
(* which compete with the others for the discount.                           *)
EXTENDS ReferralRewards

MCBonus ==
  [p \in Programs |->
    [discount |-> 0, referrer |-> 1, referred |-> IF p = "tasker" THEN 1 ELSE 0]]

MCSources ==
  [b \in Bookings |-> IF b \in Disturbed THEN {"stripe", "wallet", "cash"} ELSE {"cash"}]

\* What can still matter: of a referral whether it has lapsed only until it
\* qualifies; once every referral is revoked or expired, which nothing undoes and
\* after which no discount is given and no bonus is in a wallet, of the bookings
\* only their discounts.
View ==
  IF \A p \in Programs : referral[p].status \in {"revoked", "expired"}
    THEN <<[b \in Bookings |-> booking[b].discount], [p \in Programs |-> referral[p].reward]>>
    ELSE <<booking, [p \in Programs |->
           IF referral[p].status = "claimed" THEN referral[p]
                                             ELSE [referral[p] EXCEPT !.lapsed = FALSE]]>>
=============================================================================
