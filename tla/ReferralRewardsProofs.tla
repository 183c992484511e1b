------------------------ MODULE ReferralRewardsProofs ------------------------
(***************************************************************************)
(* Proofs about ReferralRewards: the ledger of every reward, the discount  *)
(* that is given once, and the bonuses with a settlement behind them.      *)
(***************************************************************************)
EXTENDS ReferralRewards, TLAPS

-----------------------------------------------------------------------------
(* Types, and the ledger of a reward. *)

Rails == Online \union {"cash"}

EarningRow == [by : {"none", "acceptance", "wallet", "intent"}, gross : Nat, bill : Nat]

BookingRow ==
  [source : Rails, captured : Nat, status : {"live", "completed", "cancelled"},
   payment : SettledPayments \union {"due"}, bill : Nat, total : Nat, discount : Nat,
   earning : EarningRow, intent : Nat, linked : BOOLEAN, returning : Nat,
   returned : Nat, unused : Nat, unusedDue : Nat, disputed : BOOLEAN,
   chargeback : {"none", "active", "lost", "missed"}]

RewardRow ==
  [status : {"none", "pending", "settled", "reversed", "cancelled"},
   booking : Bookings \union {NoBooking}, amount : Nat, matured : BOOLEAN,
   wallet : Nat, credited : Nat, reversed : Nat]

Ledger(w) ==
  /\ w.status \in {"none", "pending", "cancelled"} =>
       w.wallet = 0 /\ w.credited = 0 /\ w.reversed = 0
  /\ w.status = "settled" => w.credited = w.wallet /\ w.reversed = 0
  /\ w.status = "reversed" => w.credited = w.reversed

ReferralRow ==
  [status : {"none", "claimed", "qualified", "rewarded", "expired", "revoked"},
   lapsed : BOOLEAN, booking : Bookings \union {NoBooking}, reward : [Kinds -> RewardRow]]

\* What one referral is, whatever the bookings are: a referral that is still
\* open has nothing reversed or cancelled, a revoked one nothing else.
Sound(ref) ==
  /\ ref \in ReferralRow
  /\ \A k \in Kinds : Ledger(ref.reward[k])
  /\ ref.status \in {"none", "claimed"} =>
       \A k \in Kinds : ref.reward[k].status \in {"none", "pending", "settled"}
  /\ ref.status = "revoked" =>
       \A k \in Kinds : ref.reward[k].status \in {"none", "cancelled", "reversed"}

\* What happens to a reward once it is there, but for the reservation of the
\* discount: it stays with its booking and is not pending again.
Keeps(w, v) ==
  /\ v.booking = w.booking
  /\ v.status = "none" <=> w.status = "none"
  /\ v.status = "pending" => w.status = "pending"

Given(b) ==
  booking[b].discount > 0 =>
    /\ booking[b].status = "completed"
    /\ "customer" \in Programs
    /\ Customer.reward["discount"].booking = b
    /\ Customer.reward["discount"].status # "none"

Reserved ==
  "customer" \in Programs /\ Customer.reward["discount"].status = "pending" =>
    /\ Customer.reward["discount"].booking \in Bookings
    /\ booking[Customer.reward["discount"].booking].status = "completed"

IInv ==
  /\ booking \in [Bookings -> BookingRow]
  /\ referral \in [Programs -> ReferralRow]
  /\ \A p \in Programs : Sound(referral[p])
  /\ \A b \in Bookings : Given(b)
  /\ Reserved

-----------------------------------------------------------------------------
(* Rewards. *)

LEMMA DiscountIsKind == "discount" \in Kinds
  BY DEF Kinds

LEMMA RevokedRewardIs ==
  ASSUME NEW w \in RewardRow, Ledger(w)
  PROVE /\ RevokedReward(w) \in RewardRow /\ Ledger(RevokedReward(w))
        /\ RevokedReward(w).status \in {"none", "cancelled", "reversed"}
        /\ Keeps(w, RevokedReward(w))
<1>1. CASE w.status = "pending"
  BY <1>1 DEF RevokedReward, RewardRow, Ledger, Keeps
<1>2. CASE w.status = "settled"
  <2>1. w.reversed + w.wallet \in Nat /\ w.reversed = 0
    BY <1>2 DEF RewardRow, Ledger
  <2>2. RevokedReward(w) = [w EXCEPT !.status = "reversed", !.reversed = w.reversed + w.wallet]
    BY <1>2 DEF RevokedReward
  <2>3. w.credited = w.reversed + w.wallet
    BY <1>2, <2>1 DEF RewardRow, Ledger
  <2> DEFINE n == w.reversed + w.wallet
  <2>4. n \in Nat /\ w.credited = n /\ RevokedReward(w) = [w EXCEPT !.status = "reversed", !.reversed = n]
    BY <2>1, <2>2, <2>3
  <2> HIDE DEF n
  <2> QED
    BY <1>2, <2>4 DEF RewardRow, Ledger, Keeps
<1>3. CASE w.status \notin {"pending", "settled"}
  BY <1>3 DEF RevokedReward, RewardRow, Ledger, Keeps
<1> QED
  BY <1>1, <1>2, <1>3

LEMMA ReferralIs ==
  ASSUME NEW ref \in ReferralRow, NEW status, NEW reward
  PROVE /\ [ref EXCEPT !.status = status, !.reward = reward] =
             [status |-> status, lapsed |-> ref.lapsed, booking |-> ref.booking, reward |-> reward]
        /\ [ref EXCEPT !.reward = reward] =
             [status |-> ref.status, lapsed |-> ref.lapsed, booking |-> ref.booking, reward |-> reward]
        /\ [ref EXCEPT !.status = status] =
             [status |-> status, lapsed |-> ref.lapsed, booking |-> ref.booking, reward |-> ref.reward]
<1> DEFINE moved == [ref EXCEPT !.status = status]
<1>1. moved = [status |-> status, lapsed |-> ref.lapsed, booking |-> ref.booking, reward |-> ref.reward]
  BY DEF ReferralRow
<1>2. [ref EXCEPT !.status = status, !.reward = reward] = [moved EXCEPT !.reward = reward]
  OBVIOUS
<1> HIDE DEF moved
<1>3. [moved EXCEPT !.reward = reward] =
        [status |-> status, lapsed |-> ref.lapsed, booking |-> ref.booking, reward |-> reward]
  BY <1>1
<1>4. [ref EXCEPT !.reward = reward] =
        [status |-> ref.status, lapsed |-> ref.lapsed, booking |-> ref.booking, reward |-> reward]
  BY DEF ReferralRow
<1> QED
  BY <1>1, <1>2, <1>3, <1>4 DEF moved

\* revokeLockedReferral leaves a revoked referral of which the wallets keep nothing.
LEMMA RevokedIs ==
  ASSUME NEW ref, Sound(ref)
  PROVE /\ Sound(Revoked(ref)) /\ Revoked(ref).status = "revoked"
        /\ Revoked(ref).booking = ref.booking
        /\ \A k \in Kinds : Keeps(ref.reward[k], Revoked(ref).reward[k])
<1> DEFINE reward == [k \in Kinds |-> RevokedReward(ref.reward[k])]
<1>1. ref \in ReferralRow /\ \A k \in Kinds : ref.reward[k] \in RewardRow /\ Ledger(ref.reward[k])
  BY DEF Sound, ReferralRow
<1>2. reward \in [Kinds -> RewardRow]
  BY <1>1, RevokedRewardIs
<1>3. Revoked(ref) =
        [status |-> "revoked", lapsed |-> ref.lapsed, booking |-> ref.booking, reward |-> reward]
  <2>1. Revoked(ref) = [ref EXCEPT !.status = "revoked", !.reward = reward]
    BY DEF Revoked
  <2> HIDE DEF reward
  <2> QED
    BY <1>1, <2>1, ReferralIs
<1>4. \A k \in Kinds : /\ Ledger(reward[k]) /\ Keeps(ref.reward[k], reward[k])
                       /\ reward[k].status \in {"none", "cancelled", "reversed"}
  BY <1>1, RevokedRewardIs
<1> HIDE DEF reward
<1> QED
  BY <1>1, <1>2, <1>3, <1>4 DEF Sound, ReferralRow

LEMMA CreditedIs ==
  ASSUME NEW w \in RewardRow, Ledger(w), w.status = "pending"
  PROVE /\ Credited(w) \in RewardRow /\ Ledger(Credited(w)) /\ Keeps(w, Credited(w))
        /\ Credited(w).status = "settled"
  BY DEF Credited, RewardRow, Ledger, Keeps

LEMMA RefreshedIs ==
  ASSUME NEW ref, Sound(ref)
  PROVE /\ Sound(Refreshed(ref)) /\ Refreshed(ref).reward = ref.reward
        /\ Refreshed(ref).booking = ref.booking
        /\ \/ Refreshed(ref).status = ref.status
           \/ ref.status = "qualified" /\ Refreshed(ref).status = "rewarded"
<1>1. ref \in ReferralRow
  BY DEF Sound
<1>2. CASE Refreshed(ref) = ref
  BY <1>2
<1>3. CASE ref.status = "qualified" /\ Refreshed(ref) = [ref EXCEPT !.status = "rewarded"]
  BY <1>1, <1>3 DEF Sound, ReferralRow
<1> QED
  BY <1>2, <1>3 DEF Refreshed

\* The referral in which some pending rewards are credited.
CreditedIn(ref, kinds) ==
  [ref EXCEPT !.reward = [k \in Kinds |-> IF k \in kinds THEN Credited(ref.reward[k]) ELSE ref.reward[k]]]

LEMMA CreditedInIs ==
  ASSUME NEW ref, Sound(ref), ref.status # "revoked", NEW kinds, kinds \subseteq Mature(ref)
  PROVE /\ Sound(CreditedIn(ref, kinds)) /\ CreditedIn(ref, kinds).status = ref.status
        /\ CreditedIn(ref, kinds).booking = ref.booking
        /\ \A k \in Kinds : Keeps(ref.reward[k], CreditedIn(ref, kinds).reward[k])
<1> DEFINE reward == [k \in Kinds |-> IF k \in kinds THEN Credited(ref.reward[k]) ELSE ref.reward[k]]
<1>1. ref \in ReferralRow /\ \A k \in Kinds : ref.reward[k] \in RewardRow /\ Ledger(ref.reward[k])
  BY DEF Sound, ReferralRow
<1>2. \A k \in kinds : k \in Kinds /\ ref.reward[k].status = "pending"
  BY DEF Mature
<1>3. \A k \in Kinds :
        /\ reward[k] \in RewardRow /\ Ledger(reward[k]) /\ Keeps(ref.reward[k], reward[k])
        /\ reward[k].status \in {"settled", ref.reward[k].status}
  <2> TAKE k \in Kinds
  <2>1. CASE k \in kinds
    BY <1>1, <1>2, <2>1, CreditedIs
  <2>2. CASE k \notin kinds
    BY <1>1, <2>2 DEF Keeps
  <2> QED
    BY <2>1, <2>2
<1>4. reward \in [Kinds -> RewardRow]
  BY <1>3
<1>5. CreditedIn(ref, kinds) =
        [status |-> ref.status, lapsed |-> ref.lapsed, booking |-> ref.booking, reward |-> reward]
  <2>1. CreditedIn(ref, kinds) = [ref EXCEPT !.reward = reward]
    BY DEF CreditedIn
  <2> HIDE DEF reward
  <2> QED
    BY <1>1, <2>1, ReferralIs
<1> HIDE DEF reward
<1>6. ref.status \in {"none", "claimed"} =>
        \A k \in Kinds : reward[k].status \in {"none", "pending", "settled"}
  BY <1>3 DEF Sound
<1> QED
  BY <1>1, <1>3, <1>4, <1>5, <1>6 DEF Sound, ReferralRow

\* releaseReward credits what is pending, or revokes the referral.
LEMMA ReleasedIs ==
  ASSUME NEW ref, Sound(ref), ref.status # "revoked", NEW kinds, kinds \subseteq Mature(ref), NEW bk
  PROVE /\ Sound(Released(ref, kinds, bk)) /\ Released(ref, kinds, bk).booking = ref.booking
        /\ \A k \in Kinds : Keeps(ref.reward[k], Released(ref, kinds, bk).reward[k])
        /\ Released(ref, kinds, bk).status \in {"revoked", "rewarded", ref.status}
<1>1. CASE StillEligible(bk)
  <2>1. Released(ref, kinds, bk) = Refreshed(CreditedIn(ref, kinds))
    BY <1>1 DEF Released, CreditedIn
  <2> QED
    BY <2>1, CreditedInIs, RefreshedIs
<1>2. CASE ~StillEligible(bk)
  BY <1>2, RevokedIs DEF Released
<1> QED
  BY <1>1, <1>2

LEMMA ExpiredIs ==
  ASSUME NEW ref, Sound(ref), ref.status = "claimed"
  PROVE /\ Sound(Expired(ref)) /\ Expired(ref).booking = ref.booking
        /\ \A k \in Kinds : Keeps(ref.reward[k], Expired(ref).reward[k])
        /\ Expired(ref).status \in {"claimed", "expired"}
        /\ \A k \in Kinds \ {"discount"} : Expired(ref).reward[k] = ref.reward[k]
<1>1. ref \in ReferralRow /\ ref.reward["discount"] \in RewardRow
  BY DiscountIsKind DEF Sound, ReferralRow
<1>2. CASE Expired(ref) = [ref EXCEPT !.status = "expired"]
  BY <1>1, <1>2 DEF Sound, ReferralRow, Keeps
<1>3. CASE Expired(ref) = ref
  BY <1>3 DEF Keeps
<1>4. CASE /\ ref.reward["discount"].status = "pending"
           /\ Expired(ref) = [ref EXCEPT !.status = "expired", !.reward["discount"].status = "cancelled"]
  <2> DEFINE w == [ref.reward["discount"] EXCEPT !.status = "cancelled"]
             reward == [ref.reward EXCEPT !["discount"] = w]
  <2>1. w \in RewardRow /\ Ledger(w) /\ Keeps(ref.reward["discount"], w)
    BY <1>1, <1>4, DiscountIsKind DEF Sound, RewardRow, Ledger, Keeps
  <2>2. Expired(ref) =
          [status |-> "expired", lapsed |-> ref.lapsed, booking |-> ref.booking, reward |-> reward]
    BY <1>1, <1>4 DEF ReferralRow
  <2> HIDE DEF w
  <2>3. reward \in [Kinds -> RewardRow]
    BY <1>1, <2>1 DEF ReferralRow
  <2>4. \A k \in Kinds : Ledger(reward[k]) /\ Keeps(ref.reward[k], reward[k])
    BY <1>1, <2>1 DEF Sound, ReferralRow, Keeps
  <2>5. \A k \in Kinds \ {"discount"} : reward[k] = ref.reward[k]
    BY <1>1 DEF ReferralRow
  <2> HIDE DEF reward
  <2> QED
    BY <1>1, <2>2, <2>3, <2>4, <2>5 DEF Sound, ReferralRow
<1> QED
  BY <1>2, <1>3, <1>4 DEF Expired

-----------------------------------------------------------------------------
(* Qualification. *)

LEMMA QualifyingRewardIs ==
  ASSUME NEW w \in RewardRow, Ledger(w), w.status \in {"none", "pending", "settled"},
         NEW b \in Bookings, NEW bonus \in Nat, NEW matured \in BOOLEAN
  PROVE /\ QualifyingReward(w, b, bonus, matured) \in RewardRow
        /\ Ledger(QualifyingReward(w, b, bonus, matured))
        /\ bonus = 0 => Keeps(w, QualifyingReward(w, b, bonus, matured))
<1>1. CASE w.status # "none"
  BY <1>1 DEF QualifyingReward, RewardRow, Ledger, Keeps
<1>2. CASE w.status = "none" /\ bonus = 0
  BY <1>2 DEF QualifyingReward, Keeps
<1>3. CASE w.status = "none" /\ bonus # 0
  <2>1. QualifyingReward(w, b, bonus, matured) =
          [status |-> "pending", booking |-> b, amount |-> bonus, matured |-> matured,
           wallet |-> 0, credited |-> 0, reversed |-> 0]
    BY <1>3 DEF QualifyingReward, NoReward
  <2> QED
    BY <1>3, <2>1 DEF RewardRow, Ledger
<1> QED
  BY <1>1, <1>2, <1>3

LEMMA QualifyingShape ==
  ASSUME NEW ref \in ReferralRow, NEW p, NEW b, NEW matured
  PROVE Qualifying(ref, p, b, matured) =
          [status |-> "qualified", lapsed |-> ref.lapsed, booking |-> b,
           reward |-> [k \in Kinds |-> QualifyingReward(ref.reward[k], b, Bonus[p][k], matured)]]
<1> DEFINE reward == [k \in Kinds |-> QualifyingReward(ref.reward[k], b, Bonus[p][k], matured)]
           q == [ref EXCEPT !.status = "qualified"]
           n == [q EXCEPT !.booking = b]
<1>1. Qualifying(ref, p, b, matured) = [n EXCEPT !.reward = reward]
  BY DEF Qualifying
<1> HIDE DEF reward
<1>2. q = [status |-> "qualified", lapsed |-> ref.lapsed, booking |-> ref.booking, reward |-> ref.reward]
  BY ReferralIs
<1> HIDE DEF q
<1>3. n = [status |-> "qualified", lapsed |-> ref.lapsed, booking |-> b, reward |-> ref.reward]
  BY <1>2
<1> HIDE DEF n
<1>4. [n EXCEPT !.reward = reward] =
        [status |-> "qualified", lapsed |-> ref.lapsed, booking |-> b, reward |-> reward]
  BY <1>3
<1> QED
  BY <1>1, <1>4 DEF reward

LEMMA QualifyingIs ==
  ASSUME NEW ref, Sound(ref), ref.status = "claimed",
         NEW p \in Programs, NEW b \in Bookings, NEW matured \in BOOLEAN
  PROVE /\ Sound(Qualifying(ref, p, b, matured))
        /\ Qualifying(ref, p, b, matured).status = "qualified"
        /\ Qualifying(ref, p, b, matured).booking = b
        /\ Keeps(ref.reward["discount"], Qualifying(ref, p, b, matured).reward["discount"])
<1> DEFINE reward == [k \in Kinds |-> QualifyingReward(ref.reward[k], b, Bonus[p][k], matured)]
<1>1. ref \in ReferralRow /\ \A k \in Kinds :
        /\ ref.reward[k] \in RewardRow /\ Ledger(ref.reward[k])
        /\ ref.reward[k].status \in {"none", "pending", "settled"}
  BY DEF Sound, ReferralRow
<1>2. \A k \in Kinds : Bonus[p][k] \in Nat
  BY AmountsAssumption
<1>3. \A k \in Kinds : reward[k] \in RewardRow /\ Ledger(reward[k])
  BY <1>1, <1>2, QualifyingRewardIs
<1>4. Keeps(ref.reward["discount"], reward["discount"])
  BY <1>1, <1>2, AmountsAssumption, DiscountIsKind, QualifyingRewardIs
<1>5. reward \in [Kinds -> RewardRow]
  BY <1>3
<1>6. Qualifying(ref, p, b, matured) =
        [status |-> "qualified", lapsed |-> ref.lapsed, booking |-> b, reward |-> reward]
  BY <1>1, QualifyingShape
<1> HIDE DEF reward
<1> QED
  BY <1>1, <1>3, <1>4, <1>5, <1>6 DEF Sound, ReferralRow

LEMMA ImmediateIs ==
  ASSUME NEW ref, Sound(ref), ref.status = "qualified", NEW bk
  PROVE /\ Sound(Immediate(ref, bk)) /\ Immediate(ref, bk).booking = ref.booking
        /\ Keeps(ref.reward["discount"], Immediate(ref, bk).reward["discount"])
        /\ Immediate(ref, bk).status \in {"qualified", "rewarded", "revoked"}
<1>1. CASE Immediate(ref, bk) = Refreshed(ref)
  BY <1>1, RefreshedIs DEF Keeps
<1>2. CASE Immediate(ref, bk) = Released(ref, Mature(ref), bk)
  BY <1>2, ReleasedIs, DiscountIsKind
<1> QED
  BY <1>1, <1>2 DEF Immediate

\* qualifyPaidBooking leaves a sound referral and reserves no discount.
LEMMA QualifiedIs ==
  ASSUME NEW p \in Programs, Sound(referral[p]),
         NEW b \in Bookings, NEW bk, NEW matured \in BOOLEAN
  PROVE /\ Sound(Qualified(p, b, bk, matured))
        /\ Keeps(referral[p].reward["discount"], Qualified(p, b, bk, matured).reward["discount"])
<1> DEFINE ref == referral[p]
<1>1. CASE Qualified(p, b, bk, matured) = ref
  BY <1>1 DEF Keeps
<1>2. CASE ref.status = "claimed" /\ Qualified(p, b, bk, matured) = Expired(ref)
  BY <1>2, ExpiredIs, DiscountIsKind
<1>3. CASE /\ ref.status = "claimed"
           /\ Qualified(p, b, bk, matured) = Immediate(Qualifying(ref, p, b, matured), bk)
  <2> DEFINE q == Qualifying(ref, p, b, matured)
  <2>1. Sound(q) /\ q.status = "qualified" /\ Keeps(ref.reward["discount"], q.reward["discount"])
    BY <1>3, QualifyingIs
  <2> HIDE DEF q
  <2>2. Sound(Immediate(q, bk)) /\ Keeps(q.reward["discount"], Immediate(q, bk).reward["discount"])
    BY <2>1, ImmediateIs
  <2>3. Qualified(p, b, bk, matured) = Immediate(q, bk)
    BY <1>3 DEF q
  <2> QED
    BY <2>1, <2>2, <2>3 DEF Keeps
<1> QED
  BY <1>1, <1>2, <1>3 DEF Qualified

-----------------------------------------------------------------------------
(* Steps. *)

\* The discount stays, and so does a completed booking.
Stays(b) ==
  /\ booking'[b].discount = booking[b].discount
  /\ booking[b].status = "completed" => booking'[b].status = "completed"

LEMMA Carried ==
  ASSUME IInv, booking' \in [Bookings -> BookingRow], referral' \in [Programs -> ReferralRow],
         \A p \in Programs : /\ Sound(referral'[p])
                             /\ Keeps(referral[p].reward["discount"], referral'[p].reward["discount"]),
         \A b \in Bookings : Stays(b)
  PROVE IInv'
<1>2. ASSUME NEW b \in Bookings PROVE Given(b)'
  <2>1. Given(b) /\ Stays(b)
    BY DEF IInv
  <2>2. "customer" \in Programs =>
          Keeps(referral["customer"].reward["discount"], referral'["customer"].reward["discount"])
    OBVIOUS
  <2> QED
    BY <2>1, <2>2 DEF Given, Stays, Keeps, Customer
<1>3. Reserved'
  <2> SUFFICES ASSUME "customer" \in Programs, Customer'.reward["discount"].status = "pending"
               PROVE  /\ Customer'.reward["discount"].booking \in Bookings
                      /\ booking'[Customer'.reward["discount"].booking].status = "completed"
    BY DEF Reserved
  <2>1. Keeps(referral["customer"].reward["discount"], referral'["customer"].reward["discount"])
    OBVIOUS
  <2>2. /\ Customer.reward["discount"].status = "pending"
        /\ Customer'.reward["discount"].booking = Customer.reward["discount"].booking
    BY <2>1 DEF Keeps, Customer
  <2> QED
    BY <2>2 DEF IInv, Reserved, Stays
<1> QED
  BY <1>2, <1>3 DEF IInv

\* The referrals change, each on its own.
Moved ==
  /\ referral' \in [Programs -> ReferralRow]
  /\ \A p \in Programs :
       /\ Sound(referral'[p])
       /\ Keeps(referral[p].reward["discount"], referral'[p].reward["discount"])

LEMMA OneMoves ==
  ASSUME IInv, NEW p \in Programs, NEW ref, referral' = [referral EXCEPT ![p] = ref],
         Sound(ref), Keeps(referral[p].reward["discount"], ref.reward["discount"])
  PROVE Moved
  BY DEF IInv, Moved, Sound, Keeps

LEMMA NoneMoves == ASSUME IInv, referral' = referral PROVE Moved
  BY DEF IInv, Moved, Keeps

LEMMA PaidMoves ==
  ASSUME IInv, NEW b \in Bookings, NEW bk, NEW matured \in Clearances,
         referral' = [p \in Programs |-> Qualified(p, b, bk, matured)]
  PROVE Moved
<1>1. matured \in BOOLEAN
  BY ProgramsAssumption
<1>2. ASSUME NEW p \in Programs
      PROVE /\ Sound(Qualified(p, b, bk, matured))
            /\ Keeps(referral[p].reward["discount"], Qualified(p, b, bk, matured).reward["discount"])
  BY <1>1, QualifiedIs DEF IInv
<1>3. \A p \in Programs : Qualified(p, b, bk, matured) \in ReferralRow
  BY <1>2 DEF Sound
<1> QED
  BY <1>2, <1>3 DEF Moved

LEMMA RevokeMoves ==
  ASSUME IInv, NEW b \in Bookings, NEW x \in BOOLEAN, RevokeWhere(b, x) PROVE Moved
<1> DEFINE hit(p) == x /\ referral[p].booking = b /\ referral[p].status \in {"qualified", "rewarded"}
<1>1. referral' = [p \in Programs |-> IF hit(p) THEN Revoked(referral[p]) ELSE referral[p]]
  BY DEF RevokeWhere
<1> HIDE DEF hit
<1>2. ASSUME NEW p \in Programs
      PROVE /\ Sound(referral'[p])
            /\ Keeps(referral[p].reward["discount"], referral'[p].reward["discount"])
  <2>1. Sound(referral[p])
    BY DEF IInv
  <2>2. CASE hit(p)
    <3>1. referral'[p] = Revoked(referral[p])
      BY <1>1, <2>2
    <3> QED
      BY <2>1, <3>1, RevokedIs, DiscountIsKind
  <2>3. CASE ~hit(p)
    <3>1. referral'[p] = referral[p]
      BY <1>1, <2>3
    <3> QED
      BY <2>1, <3>1 DEF Keeps
  <2> QED
    BY <2>2, <2>3
<1>3. referral' \in [Programs -> ReferralRow]
  BY <1>1, <1>2 DEF Sound
<1> QED
  BY <1>2, <1>3 DEF Moved

\* One booking changes, not its discount.
Turns(b, bk) ==
  /\ bk \in BookingRow
  /\ bk.discount = booking[b].discount
  /\ booking[b].status = "completed" => bk.status = "completed"

LEMMA OneTurns ==
  ASSUME IInv, NEW b \in Bookings, NEW bk, booking' = [booking EXCEPT ![b] = bk],
         Turns(b, bk), Moved
  PROVE IInv'
<1>1. booking' \in [Bookings -> BookingRow]
  BY DEF IInv, Turns
<1>2. ASSUME NEW c \in Bookings PROVE Stays(c)
  BY DEF IInv, Turns, Stays
<1> QED
  BY <1>1, <1>2, Carried DEF Moved

LEMMA NoneTurns == ASSUME IInv, booking' = booking, Moved PROVE IInv'
  BY Carried DEF IInv, Stays, Moved

-----------------------------------------------------------------------------
(* Participants and worker. *)

LEMMA ParticipantsInv == ASSUME IInv, Participants PROVE IInv'
<1>1. PICK p \in Programs : Claim(p) \/ Revoke(p) \/ Lapse(p)
  BY DEF Participants
<1> DEFINE ref == referral[p]
<1>2. Sound(ref) /\ ref \in ReferralRow
  BY DEF IInv
<1>3. booking' = booking
  BY <1>1 DEF Claim, Revoke, Lapse
<1>4. CASE Claim(p)
  <2>1. referral' = [referral EXCEPT ![p] = [ref EXCEPT !.status = "claimed"]]
    BY <1>4 DEF Claim
  <2>2. Sound([ref EXCEPT !.status = "claimed"])
    BY <1>2, <1>4 DEF Claim, Sound, ReferralRow
  <2> QED
    BY <1>2, <1>3, <2>1, <2>2, OneMoves, NoneTurns DEF Keeps, ReferralRow
<1>5. CASE Revoke(p)
  <2>1. referral' = [referral EXCEPT ![p] = Revoked(ref)]
    BY <1>5 DEF Revoke
  <2> QED
    BY <1>2, <1>3, <2>1, RevokedIs, DiscountIsKind, OneMoves, NoneTurns
<1>6. CASE Lapse(p)
  <2>1. referral' = [referral EXCEPT ![p] = [ref EXCEPT !.lapsed = TRUE]]
    BY <1>6 DEF Lapse
  <2>2. Sound([ref EXCEPT !.lapsed = TRUE])
    BY <1>2 DEF Sound, ReferralRow
  <2> QED
    BY <1>2, <1>3, <2>1, <2>2, OneMoves, NoneTurns DEF Keeps, ReferralRow
<1> QED
  BY <1>1, <1>4, <1>5, <1>6

LEMMA MaintenanceInv == ASSUME IInv, NEW p \in Programs, Maintenance(p) PROVE IInv'
<1> DEFINE ref == referral[p]
<1>1. Sound(ref) /\ ref \in ReferralRow
  BY DEF IInv
<1>2. booking' = booking
  BY DEF Maintenance, ExpireStaleReferral, Clear, ReleaseMatureReward
<1>3. CASE ExpireStaleReferral(p)
  <2>1. referral' = [referral EXCEPT ![p] = Expired(ref)] /\ ref.status = "claimed"
    BY <1>3 DEF ExpireStaleReferral
  <2> QED
    BY <1>1, <1>2, <2>1, ExpiredIs, DiscountIsKind, OneMoves, NoneTurns
<1>4. ASSUME NEW k \in Kinds, Clear(p, k) PROVE IInv'
  <2> DEFINE w == [ref.reward[k] EXCEPT !.matured = TRUE]
             reward == [ref.reward EXCEPT ![k] = w]
  <2>1. ref.reward \in [Kinds -> RewardRow] /\ ref.reward[k] \in RewardRow /\ Ledger(ref.reward[k])
    BY <1>1 DEF Sound, ReferralRow
  <2>2. referral' = [referral EXCEPT ![p] = [ref EXCEPT !.reward = reward]]
    BY <1>4 DEF Clear
  <2>3. /\ w \in RewardRow /\ Ledger(w) /\ w.status = ref.reward[k].status
        /\ w.booking = ref.reward[k].booking
    BY <2>1 DEF RewardRow, Ledger
  <2> HIDE DEF w
  <2>4. reward \in [Kinds -> RewardRow]
    BY <2>1, <2>3
  <2>5. \A j \in Kinds : /\ Ledger(reward[j]) /\ reward[j].status = ref.reward[j].status
                         /\ reward[j].booking = ref.reward[j].booking
    BY <1>1, <2>1, <2>3 DEF Sound
  <2> HIDE DEF reward
  <2>6. [ref EXCEPT !.reward = reward] =
          [status |-> ref.status, lapsed |-> ref.lapsed, booking |-> ref.booking, reward |-> reward]
    BY <1>1, ReferralIs
  <2>7. Sound([ref EXCEPT !.reward = reward])
    BY <1>1, <2>4, <2>5, <2>6 DEF Sound, ReferralRow
  <2>8. Keeps(ref.reward["discount"], reward["discount"])
    BY <2>5, DiscountIsKind DEF Keeps
  <2> QED
    BY <1>2, <2>2, <2>6, <2>7, <2>8, OneMoves, NoneTurns
<1>5. ASSUME NEW k \in Kinds, ReleaseMatureReward(p, k) PROVE IInv'
  <2> DEFINE bk == booking[ref.reward[k].booking]
  <2>1. /\ referral' = [referral EXCEPT ![p] = Released(ref, {k}, bk)]
        /\ ref.status # "revoked" /\ {k} \subseteq Mature(ref)
    BY <1>5 DEF ReleaseMatureReward
  <2> HIDE DEF bk
  <2> QED
    BY <1>1, <1>2, <2>1, ReleasedIs, DiscountIsKind, OneMoves, NoneTurns
<1> QED
  BY <1>3, <1>4, <1>5 DEF Maintenance

-----------------------------------------------------------------------------
(* Bookings. *)

LEMMA AmountsAreNat ==
  /\ Captured \in Nat /\ Bills \subseteq Nat /\ Discounts \subseteq Nat /\ Refunds \subseteq Nat
  /\ \A d \in Discounts \union Bills : d > 0
<1>1. Captured \in Nat /\ Bills \subseteq Nat \ {0} /\ Discounts \union Refunds \subseteq Nat \ {0}
  BY AmountsAssumption
<1>2. \A n \in Bills \union Discounts \union Refunds : n \in Nat /\ n > 0
  BY <1>1
<1> QED
  BY <1>1, <1>2

LEMMA BookingIs ==
  ASSUME IInv, NEW b \in Bookings
  PROVE /\ booking[b] \in BookingRow
        /\ booking[b].bill \in Nat /\ booking[b].captured \in Nat /\ booking[b].intent \in Nat
        /\ booking[b].returned \in Nat /\ booking[b].discount \in Nat
        /\ booking[b].unusedDue \in Nat /\ booking[b].status \in {"live", "completed", "cancelled"}
  BY DEF IInv, BookingRow

\* Every cancellation: a booking with the discount is completed.
LEMMA CancelInv == ASSUME IInv, NEW b \in Bookings, Cancel(b) PROVE IInv'
<1>1. /\ booking' = [booking EXCEPT ![b] = [booking[b] EXCEPT !.status = "cancelled"]]
      /\ referral' = referral
  BY DEF IInv, Reserved, Customer, Cancel
<1>2. Turns(b, [booking[b] EXCEPT !.status = "cancelled"])
  BY BookingIs DEF Cancel, Turns, BookingRow
<1> QED
  BY <1>1, <1>2, NoneMoves, OneTurns

LEMMA CourseInv == ASSUME IInv, NEW b \in Bookings, Course(b) PROVE IInv'
<1>1. CASE Complete(b)
  <2>1. PICK bill \in Bills : booking' = [booking EXCEPT ![b] =
                                 [booking[b] EXCEPT !.status = "completed", !.bill = bill]]
    BY <1>1 DEF Complete
  <2>2. Turns(b, [booking[b] EXCEPT !.status = "completed", !.bill = bill])
    <3>1. bill \in Nat /\ booking[b] \in BookingRow
      BY BookingIs, AmountsAreNat
    <3>2. [booking[b] EXCEPT !.status = "completed", !.bill = bill] \in BookingRow
      BY <3>1 DEF BookingRow
    <3> QED
      BY <3>1, <3>2 DEF Turns, BookingRow
  <2>3. Moved
    BY <1>1, NoneMoves DEF Complete
  <2> QED
    BY <2>1, <2>2, <2>3, OneTurns
<1> QED
  BY <1>1, CancelInv DEF Course

LEMMA CashInv ==
  ASSUME IInv, NEW b \in Bookings, FinalizeCash(b) \/ ConfirmCash(b) \/ RetryWithCard(b)
  PROVE IInv'
<1>1. PICK bk : booking' = [booking EXCEPT ![b] = bk] /\ Turns(b, bk)
  <2>1. CASE FinalizeCash(b)
    <3>1. Turns(b, [booking[b] EXCEPT !.total = booking[b].bill])
      BY BookingIs DEF Turns, BookingRow
    <3>2. booking' = [booking EXCEPT ![b] = [booking[b] EXCEPT !.total = booking[b].bill]]
      BY <2>1 DEF FinalizeCash
    <3> QED
      BY <3>1, <3>2
  <2>2. CASE ConfirmCash(b)
    <3>1. Turns(b, [booking[b] EXCEPT !.payment = "cash_confirmed"])
      BY BookingIs DEF Turns, BookingRow, SettledPayments
    <3>2. booking' = [booking EXCEPT ![b] = [booking[b] EXCEPT !.payment = "cash_confirmed"]]
      BY <2>2 DEF ConfirmCash
    <3> QED
      BY <3>1, <3>2
  <2>3. CASE RetryWithCard(b)
    <3>1. Turns(b, [booking[b] EXCEPT !.source = "stripe", !.payment = "due", !.linked = FALSE])
      <4> DEFINE bk == [booking[b] EXCEPT !.source = "stripe", !.payment = "due", !.linked = FALSE]
      <4>1. booking[b] \in BookingRow
        BY BookingIs
      <4>2. bk \in BookingRow
        BY <4>1 DEF BookingRow, Rails, Online
      <4>3. bk.discount = booking[b].discount /\ bk.status = booking[b].status /\ bk.bill = booking[b].bill
        BY <4>1 DEF BookingRow
      <4> QED
        BY <4>2, <4>3 DEF Turns
    <3>2. booking' = [booking EXCEPT ![b] = [booking[b] EXCEPT !.source = "stripe", !.payment = "due", !.linked = FALSE]]
      BY <2>3 DEF RetryWithCard
    <3> QED
      BY <3>1, <3>2
  <2> QED
    BY <2>1, <2>2, <2>3
<1>2. referral' = referral
  BY DEF FinalizeCash, ConfirmCash, RetryWithCard
<1> QED
  BY <1>1, <1>2, NoneMoves, OneTurns

\* A settlement: the row it writes and the earning it records.
LEMMA SettledIs ==
  ASSUME NEW bk \in BookingRow, NEW total \in Nat,
         NEW by, by \in {"acceptance", "wallet", "intent"},
         NEW to, to = Settled(bk, by, total)
  PROVE /\ to \in BookingRow
        /\ to.source = bk.source /\ to.captured = bk.captured /\ to.status = bk.status
        /\ to.payment = "paid" /\ to.bill = bk.bill /\ to.total = total
        /\ to.discount = bk.discount /\ to.intent = bk.intent /\ to.linked = bk.linked
        /\ to.earning.by = by /\ to.earning.gross = total /\ to.earning.bill = bk.bill
        /\ to.returned = bk.returned /\ to.unused = bk.unused /\ to.unusedDue = bk.unusedDue
        /\ to.chargeback = bk.chargeback
<1> DEFINE earning == Earning(by, total, bk.bill)
<1>1. /\ earning \in EarningRow
      /\ earning.by = by /\ earning.gross = total /\ earning.bill = bk.bill
  BY DEF Earning, EarningRow, BookingRow
<1>2. to = [bk EXCEPT !.payment = "paid", !.total = total, !.earning = earning]
  BY DEF Settled
<1> HIDE DEF earning
<1>3. to \in BookingRow /\ to.payment = "paid" /\ to.total = total /\ to.earning = earning
  BY <1>1, <1>2 DEF BookingRow, SettledPayments
<1>4. /\ to.source = bk.source /\ to.captured = bk.captured /\ to.status = bk.status
      /\ to.bill = bk.bill /\ to.discount = bk.discount
      /\ to.intent = bk.intent /\ to.linked = bk.linked
      /\ to.returned = bk.returned /\ to.unused = bk.unused /\ to.unusedDue = bk.unusedDue
      /\ to.chargeback = bk.chargeback
  BY <1>2 DEF BookingRow
<1> QED
  BY <1>1, <1>3, <1>4

\* The refund of unused prepayment touches nothing else.
LEMMA UnusedRefundedIs ==
  ASSUME NEW bk \in BookingRow, NEW amount \in Nat, NEW to, to = UnusedRefunded(bk, amount)
  PROVE /\ to \in BookingRow
        /\ to.source = bk.source /\ to.captured = bk.captured /\ to.status = bk.status
        /\ to.payment = bk.payment /\ to.bill = bk.bill /\ to.total = bk.total
        /\ to.discount = bk.discount /\ to.intent = bk.intent /\ to.linked = bk.linked
        /\ to.earning = bk.earning /\ to.returned = bk.returned
        /\ to.chargeback = bk.chargeback
        /\ bk.unused + bk.unusedDue = 0 => to.unused + to.unusedDue = amount
        /\ to.unused + to.unusedDue >= bk.unused + bk.unusedDue
        /\ bk.unused = 0 \/ bk.unusedDue = 0 => to.unused = 0 \/ to.unusedDue = 0
<1>1. bk.unused \in Nat /\ bk.unusedDue \in Nat
  BY DEF BookingRow
<1>2. CASE to = bk /\ (amount = 0 \/ bk.unused + bk.unusedDue > 0)
  BY <1>1, <1>2
<1>3. CASE to = [bk EXCEPT !.unused = amount] /\ bk.unused = 0 /\ bk.unusedDue = 0
  BY <1>3 DEF BookingRow
<1>4. CASE to = [bk EXCEPT !.unusedDue = amount] /\ bk.unused = 0 /\ bk.unusedDue = 0
  BY <1>4 DEF BookingRow
<1>5. bk.unused + bk.unusedDue > 0 \/ (bk.unused = 0 /\ bk.unusedDue = 0)
  BY <1>1
<1> QED
  BY <1>2, <1>3, <1>4, <1>5 DEF UnusedRefunded

LEMMA SettlementInv ==
  ASSUME IInv, NEW b \in Bookings, NEW bk, NEW to,
         QualifiesWith(b, bk), booking' = [booking EXCEPT ![b] = to], Turns(b, to)
  PROVE IInv'
<1>1. Moved
  BY PaidMoves DEF QualifiesWith
<1> QED
  BY <1>1, OneTurns

LEMMA SettleCapturedInv == ASSUME IInv, NEW b \in Bookings, SettleCaptured(b) PROVE IInv'
<1> DEFINE bk == booking[b]
           unused == bk.captured - bk.bill
           total == bk.bill
           paid == Settled(bk, "acceptance", total)
           to == UnusedRefunded(paid, unused)
<1>1. bk \in BookingRow /\ total \in Nat /\ unused \in Nat
  BY BookingIs DEF SettleCaptured
<1>2. QualifiesWith(b, paid) /\ booking' = [booking EXCEPT ![b] = to]
  BY DEF SettleCaptured
<1>3. paid = Settled(bk, "acceptance", total) /\ to = UnusedRefunded(paid, unused)
  OBVIOUS
<1> HIDE DEF to, paid, unused, total
<1>4. paid \in BookingRow /\ paid.discount = bk.discount /\ paid.status = bk.status
  BY <1>1, <1>3, SettledIs
<1>5. to \in BookingRow /\ to.discount = paid.discount /\ to.status = paid.status
  BY <1>1, <1>3, <1>4, UnusedRefundedIs
<1>6. Turns(b, to)
  BY <1>4, <1>5 DEF Turns
<1> QED
  BY <1>2, <1>6, SettlementInv

LEMMA UnusedReturnedInv == ASSUME IInv, NEW b \in Bookings, UnusedReturned(b) PROVE IInv'
<1> DEFINE bk == [booking[b] EXCEPT !.unused = booking[b].unusedDue, !.unusedDue = 0]
<1>1. booking' = [booking EXCEPT ![b] = bk] /\ referral' = referral
  BY DEF UnusedReturned
<1>2. Turns(b, bk)
  BY BookingIs DEF Turns, BookingRow
<1> QED
  BY <1>1, <1>2, NoneMoves, OneTurns

Corrected(bk, excess) ==
  [UnusedRefunded(bk, excess) EXCEPT !.total = bk.bill, !.earning.gross = bk.bill]

\* The correction of a charge that was too high: what the total and the earning
\* lose is on its way back.
LEMMA ReconcileIs ==
  ASSUME NEW bk \in BookingRow, bk.total > bk.bill, bk.unused + bk.unusedDue = 0,
         NEW excess, excess = bk.total - bk.bill,
         NEW to, to = Corrected(bk, excess)
  PROVE /\ to \in BookingRow
        /\ to.source = bk.source /\ to.captured = bk.captured /\ to.status = bk.status
        /\ to.payment = bk.payment /\ to.bill = bk.bill /\ to.total = bk.bill
        /\ to.discount = bk.discount /\ to.intent = bk.intent /\ to.linked = bk.linked
        /\ to.earning.by = bk.earning.by /\ to.earning.gross = bk.bill
        /\ to.earning.bill = bk.earning.bill /\ to.returned = bk.returned
        /\ to.chargeback = bk.chargeback
        /\ to.unused + to.unusedDue = excess
        /\ to.unused = 0 \/ to.unusedDue = 0
<1> DEFINE refunded == UnusedRefunded(bk, excess)
           row == [bk.earning EXCEPT !.gross = bk.bill]
<1>1. /\ bk.bill \in Nat /\ bk.total \in Nat /\ bk.earning \in EarningRow
      /\ bk.unused = 0 /\ bk.unusedDue = 0
  BY DEF BookingRow
<1>2. excess \in Nat
  BY <1>1
<1>3. /\ row \in EarningRow /\ row.by = bk.earning.by /\ row.gross = bk.bill
      /\ row.bill = bk.earning.bill
  BY <1>1 DEF EarningRow
<1>4. /\ to = [refunded EXCEPT !.total = bk.bill, !.earning.gross = bk.bill]
      /\ refunded = UnusedRefunded(bk, excess)
  BY DEF Corrected
<1> HIDE DEF refunded
<1>5. refunded \in BookingRow
  BY <1>2, <1>4, UnusedRefundedIs
<1>6. /\ refunded.source = bk.source /\ refunded.captured = bk.captured
      /\ refunded.status = bk.status /\ refunded.payment = bk.payment
      /\ refunded.bill = bk.bill /\ refunded.discount = bk.discount
      /\ refunded.intent = bk.intent /\ refunded.linked = bk.linked
      /\ refunded.earning = bk.earning /\ refunded.returned = bk.returned
      /\ refunded.chargeback = bk.chargeback
      /\ refunded.unused + refunded.unusedDue = excess
      /\ refunded.unused = 0 \/ refunded.unusedDue = 0
  BY <1>1, <1>2, <1>4, UnusedRefundedIs
<1> HIDE DEF row
<1>7. to = [refunded EXCEPT !.total = bk.bill, !.earning = row]
  BY <1>4, <1>5, <1>6 DEF BookingRow, row
<1>8. /\ to \in BookingRow /\ to.total = bk.bill /\ to.earning = row
      /\ to.source = refunded.source /\ to.captured = refunded.captured
      /\ to.status = refunded.status /\ to.payment = refunded.payment
      /\ to.bill = refunded.bill /\ to.discount = refunded.discount
      /\ to.intent = refunded.intent /\ to.linked = refunded.linked
      /\ to.returned = refunded.returned /\ to.chargeback = refunded.chargeback
      /\ to.unused = refunded.unused /\ to.unusedDue = refunded.unusedDue
  BY <1>1, <1>3, <1>5, <1>7 DEF BookingRow
<1> QED
  BY <1>3, <1>6, <1>8

LEMMA ReconcileInv == ASSUME IInv, NEW b \in Bookings, ReconcileOverCaptured(b) PROVE IInv'
<1> DEFINE bk == booking[b]
           excess == bk.total - bk.bill
           to == Corrected(bk, excess)
<1>1. bk \in BookingRow /\ bk.total > bk.bill /\ bk.unused + bk.unusedDue = 0
  BY BookingIs DEF ReconcileOverCaptured
<1>2. booking' = [booking EXCEPT ![b] = to] /\ Moved
  BY NoneMoves DEF ReconcileOverCaptured, Corrected
<1>3. to = Corrected(bk, excess) /\ excess = bk.total - bk.bill
  OBVIOUS
<1> HIDE DEF to, excess
<1>4. to \in BookingRow /\ to.discount = bk.discount /\ to.status = bk.status
  BY <1>1, <1>3, ReconcileIs
<1>5. Turns(b, to)
  BY <1>4 DEF Turns
<1> QED
  BY <1>2, <1>5, OneTurns

LEMMA SettleFromWalletInv == ASSUME IInv, NEW b \in Bookings, SettleFromWallet(b) PROVE IInv'
<1> DEFINE bk == booking[b]
           total == bk.bill
           paid == Settled(bk, "wallet", total)
<1>1. QualifiesWith(b, paid) /\ booking' = [booking EXCEPT ![b] = paid]
  BY DEF SettleFromWallet
<1>2. bk \in BookingRow /\ total \in Nat /\ paid = Settled(bk, "wallet", total)
  BY BookingIs
<1> HIDE DEF paid, total
<1>3. paid \in BookingRow /\ paid.discount = bk.discount /\ paid.status = bk.status
  BY <1>2, SettledIs
<1> QED
  BY <1>1, <1>3, SettlementInv DEF Turns

\* What the answer of Stripe that is not a success makes of the row.
LEMMA AnsweredIs ==
  ASSUME NEW bk \in BookingRow, NEW to, to \in Answered(bk) \union {[bk EXCEPT !.payment = "due"]}
  PROVE /\ to \in BookingRow
        /\ to.source = bk.source /\ to.captured = bk.captured /\ to.status = bk.status
        /\ to.payment = "due" /\ to.bill = bk.bill /\ to.total \in {0, bk.total}
        /\ to.discount = bk.discount /\ to.intent = bk.intent /\ to.earning = bk.earning
        /\ to.returned = bk.returned /\ to.unused = bk.unused /\ to.unusedDue = bk.unusedDue
        /\ to.chargeback = bk.chargeback
<1>1. bk.total \in Nat /\ \A total \in {0, bk.total} : total \in Nat
  BY DEF BookingRow
<1>2. CASE to = [bk EXCEPT !.payment = "due"]
  BY <1>2 DEF BookingRow
<1>3. ASSUME NEW total \in {0, bk.total},
             to = [bk EXCEPT !.payment = "due", !.linked = TRUE, !.total = total]
      PROVE /\ to \in BookingRow
            /\ to.source = bk.source /\ to.captured = bk.captured /\ to.status = bk.status
            /\ to.payment = "due" /\ to.bill = bk.bill /\ to.total = total
            /\ to.discount = bk.discount /\ to.intent = bk.intent /\ to.earning = bk.earning
            /\ to.returned = bk.returned /\ to.unused = bk.unused /\ to.unusedDue = bk.unusedDue
            /\ to.chargeback = bk.chargeback
  BY <1>1, <1>3 DEF BookingRow
<1> QED
  BY <1>2, <1>3 DEF Answered

LEMMA AttemptedIs ==
  ASSUME NEW bk \in BookingRow, NEW due \in Int, NEW to, to \in Attempted(bk, due)
  PROVE /\ to \in BookingRow
        /\ to.source = bk.source /\ to.captured = bk.captured /\ to.status = bk.status
        /\ to.payment = "due" /\ to.bill = bk.bill /\ to.total \in {0, bk.total}
        /\ to.discount = bk.discount /\ to.intent \in {bk.intent, due} /\ to.earning = bk.earning
        /\ to.returned = bk.returned /\ to.unused = bk.unused /\ to.unusedDue = bk.unusedDue
        /\ to.chargeback = bk.chargeback
<1>1. CASE bk.intent # 0
  <2>1. to \in {[bk EXCEPT !.payment = "due"]}
    BY <1>1 DEF Attempted
  <2> QED
    BY <2>1, AnsweredIs
<1>2. CASE bk.intent = 0
  <2> DEFINE new == [bk EXCEPT !.intent = due]
  <2>1. to \in Answered(new) /\ due \in Nat
    BY <1>2 DEF Attempted
  <2>2. /\ new \in BookingRow
        /\ new.source = bk.source /\ new.captured = bk.captured /\ new.status = bk.status
        /\ new.bill = bk.bill /\ new.total = bk.total
        /\ new.discount = bk.discount /\ new.intent = due /\ new.earning = bk.earning
        /\ new.returned = bk.returned /\ new.unused = bk.unused /\ new.unusedDue = bk.unusedDue
        /\ new.chargeback = bk.chargeback
    BY <2>1 DEF BookingRow
  <2> HIDE DEF new
  <2> QED
    BY <2>1, <2>2, AnsweredIs
<1> QED
  BY <1>1, <1>2

LEMMA AttemptedTurns ==
  ASSUME NEW bk \in BookingRow, NEW due \in Int, NEW to \in Attempted(bk, due)
  PROVE to \in BookingRow /\ to.discount = bk.discount /\ to.status = bk.status
  BY AttemptedIs

LEMMA ChargeRestInv == ASSUME IInv, NEW b \in Bookings, ChargeRest(b) PROVE IInv'
<1> DEFINE due == booking[b].bill - booking[b].captured
<1>1. due \in Int /\ booking[b] \in BookingRow /\ referral' = referral
  BY BookingIs DEF ChargeRest
<1>2. PICK to \in Attempted(booking[b], due) : booking' = [booking EXCEPT ![b] = to]
  BY DEF ChargeRest
<1> HIDE DEF due
<1>3. Turns(b, to)
  BY <1>1, AttemptedTurns DEF Turns
<1> QED
  BY <1>1, <1>2, <1>3, NoneMoves, OneTurns

LEMMA ChargeSucceededInv == ASSUME IInv, NEW b \in Bookings, ChargeSucceeded(b) PROVE IInv'
<1> DEFINE total == booking[b].captured + booking[b].intent
           paid == Settled(booking[b], "intent", total)
<1>1. total \in Nat
  BY BookingIs
<1>2. QualifiesWith(b, paid) /\ booking' = [booking EXCEPT ![b] = paid]
  BY DEF ChargeSucceeded
<1> HIDE DEF total
<1>3. paid \in BookingRow /\ paid.discount = booking[b].discount /\ paid.status = booking[b].status
  BY <1>1, BookingIs, SettledIs
<1> HIDE DEF paid
<1> QED
  BY <1>2, <1>3, SettlementInv DEF Turns

\* What else may happen to the row of a booking without a word to the referrals.
LEMMA DisturbedInv ==
  ASSUME IInv, NEW b \in Bookings,
         UpdateBilling(b) \/ LateAnswer(b) \/ FileDispute(b) \/ CloseDispute(b)
           \/ IssueRefund(b) \/ RefundFailed(b)
  PROVE IInv'
<1> DEFINE bk == booking[b]
<1>1. bk \in BookingRow
  BY BookingIs
<1>2. \E to : booking' = [booking EXCEPT ![b] = to] /\ Turns(b, to)
  <2>1. CASE UpdateBilling(b)
    <3>1. PICK bill \in Bills : booking' = [booking EXCEPT ![b] = [bk EXCEPT !.bill = bill]]
      BY <2>1 DEF UpdateBilling
    <3>2. Turns(b, [bk EXCEPT !.bill = bill])
      BY <1>1, AmountsAreNat DEF Turns, BookingRow
    <3> QED
      BY <3>1, <3>2
  <2>2. CASE LateAnswer(b)
    <3>1. PICK to \in Answered(bk) \union {[bk EXCEPT !.payment = "due"]} :
            booking' = [booking EXCEPT ![b] = to]
      BY <2>2 DEF LateAnswer
    <3>2. to \in BookingRow /\ to.discount = bk.discount /\ to.status = bk.status
      BY <1>1, <3>1, AnsweredIs
    <3>3. Turns(b, to)
      BY <3>2 DEF Turns
    <3> QED
      BY <3>1, <3>3
  <2>3. CASE FileDispute(b) \/ CloseDispute(b)
    <3>1. PICK open \in BOOLEAN : booking' = [booking EXCEPT ![b] = [bk EXCEPT !.disputed = open]]
      BY <2>3 DEF FileDispute, CloseDispute
    <3>2. Turns(b, [bk EXCEPT !.disputed = open])
      BY <1>1 DEF Turns, BookingRow
    <3> QED
      BY <3>1, <3>2
  <2>4. CASE IssueRefund(b) \/ RefundFailed(b)
    <3>1. PICK amount \in Nat : booking' = [booking EXCEPT ![b] = [bk EXCEPT !.returning = amount]]
      BY <2>4, AmountsAreNat DEF IssueRefund, RefundFailed
    <3>2. Turns(b, [bk EXCEPT !.returning = amount])
      BY <1>1 DEF Turns, BookingRow
    <3> QED
      BY <3>1, <3>2
  <2> QED
    BY <2>1, <2>2, <2>3, <2>4
<1>3. referral' = referral
  BY DEF UpdateBilling, LateAnswer, FileDispute, CloseDispute, IssueRefund, RefundFailed
<1> QED
  BY <1>2, <1>3, NoneMoves, OneTurns

LEMMA RefundSucceededInv == ASSUME IInv, NEW b \in Bookings, RefundSucceeded(b) PROVE IInv'
<1> DEFINE bk == booking[b]
           returned == bk.returned + bk.returning
           payment == IF bk.total > 0 /\ returned + bk.unused >= bk.total
                        THEN "refunded" ELSE "partially_refunded"
           to == [bk EXCEPT !.returning = 0, !.returned = returned, !.payment = payment]
<1>1. bk \in BookingRow /\ returned \in Nat /\ payment \in SettledPayments
  BY BookingIs DEF BookingRow, SettledPayments
<1>2. booking' = [booking EXCEPT ![b] = to] /\ RevokeWhere(b, ~StillEligible(to))
  BY DEF RefundSucceeded
<1> HIDE DEF returned, payment
<1>3. Turns(b, to)
  BY <1>1 DEF Turns, BookingRow
<1> HIDE DEF to
<1>4. (~StillEligible(to)) \in BOOLEAN
  OBVIOUS
<1> QED
  BY <1>2, <1>3, <1>4, RevokeMoves, OneTurns

LEMMA ChargebackInv ==
  ASSUME IInv, NEW b \in Bookings, NEW status \in {"none", "active", "lost"},
         ChargebackEvent(b, status)
  PROVE IInv'
<1> DEFINE to(s) == [booking[b] EXCEPT !.chargeback = s]
<1>1. ASSUME NEW s \in {"none", "active", "lost", "missed"} PROVE Turns(b, to(s))
  BY BookingIs DEF Turns, BookingRow
<1>2. CASE /\ booking' = [booking EXCEPT ![b] = to(status)]
           /\ RevokeWhere(b, status = "lost")
  <2>1. Moved
    BY <1>2, RevokeMoves
  <2> QED
    BY <1>1, <1>2, <2>1, OneTurns
<1>3. CASE /\ booking' = [booking EXCEPT ![b] =
                to(IF status # "lost" THEN status
                   ELSE IF booking[b].chargeback = "lost" THEN "lost" ELSE "missed")]
           /\ referral' = referral
  BY <1>1, <1>3, NoneMoves, OneTurns
<1> QED
  BY <1>2, <1>3 DEF ChargebackEvent

LEMMA DisturbanceInv == ASSUME IInv, NEW b \in Bookings, Disturbance(b) PROVE IInv'
  BY DisturbedInv, RefundSucceededInv, ChargebackInv DEF Disturbance

-----------------------------------------------------------------------------
(* The charge with the discount. *)

\* The discount is given only if no booking has it.
LEMMA FreeDiscount ==
  ASSUME IInv, "customer" \in Programs, Customer.status = "claimed", Reusable(Customer.reward["discount"])
  PROVE \A b \in Bookings : booking[b].discount = 0
<1> DEFINE w == Customer.reward["discount"]
<1>1. w.status \in {"none", "pending", "settled"}
  BY DiscountIsKind DEF IInv, Sound, Customer
<1>2. w.status = "none"
  BY <1>1 DEF IInv, Reserved, Reusable
<1>3. ASSUME NEW b \in Bookings PROVE booking[b].discount = 0
  <2>1. booking[b].discount \in Nat /\ Given(b)
    BY BookingIs DEF IInv
  <2> QED
    BY <1>2, <2>1 DEF Given
<1> QED
  BY <1>3

LEMMA GivenInv ==
  ASSUME IInv, NEW b \in Bookings, NEW d \in Discounts,
         "customer" \in Programs, Customer.status = "claimed", Reusable(Customer.reward["discount"]),
         NEW bk \in BookingRow, booking' = [booking EXCEPT ![b] = bk],
         bk.status = "completed", bk.discount = d,
         referral' = [referral EXCEPT !["customer"].reward["discount"] =
           [@ EXCEPT !.status = "pending", !.booking = b, !.amount = d, !.matured = TRUE, !.wallet = 0]]
  PROVE IInv'
<1> DEFINE ref == referral["customer"]
           w == ref.reward["discount"]
           v == [w EXCEPT !.status = "pending", !.booking = b, !.amount = d, !.matured = TRUE, !.wallet = 0]
           reward == [ref.reward EXCEPT !["discount"] = v]
           new == [ref EXCEPT !.reward = reward]
<1>1. /\ Sound(ref) /\ ref \in ReferralRow /\ ref.reward \in [Kinds -> RewardRow]
      /\ w \in RewardRow /\ Ledger(w)
  BY DiscountIsKind DEF IInv, Sound, ReferralRow
<1>2. w.status = "none"
  BY DiscountIsKind DEF IInv, Sound, Customer, Reserved, Reusable
<1>3. d \in Nat /\ d > 0
  BY AmountsAreNat
<1>4. v \in RewardRow /\ Ledger(v) /\ v.status = "pending" /\ v.booking = b
  BY <1>1, <1>2, <1>3 DEF RewardRow, Ledger
<1>5. referral' = [referral EXCEPT !["customer"] = new]
  BY <1>1 DEF ReferralRow
<1> HIDE DEF v
<1>6. reward \in [Kinds -> RewardRow] /\ reward["discount"] = v
  BY <1>1, <1>4, DiscountIsKind
<1>7. \A k \in Kinds : Ledger(reward[k]) /\ reward[k].status \in {"pending", ref.reward[k].status}
  BY <1>1, <1>4 DEF Sound
<1> HIDE DEF reward
<1>8. new = [status |-> ref.status, lapsed |-> ref.lapsed, booking |-> ref.booking, reward |-> reward]
  BY <1>1, ReferralIs
<1>9. Sound(new)
  BY <1>1, <1>6, <1>7, <1>8 DEF Sound, ReferralRow, Customer
<1>10. new.reward["discount"] = v
  BY <1>6, <1>8
<1> HIDE DEF new
<1>11. /\ referral'["customer"] = new /\ \A p \in Programs : p # "customer" => referral'[p] = referral[p]
       /\ referral' \in [Programs -> ReferralRow]
  BY <1>5, <1>9 DEF IInv, Sound
<1>12. \A c \in Bookings \ {b} : booking'[c] = booking[c]
  BY DEF IInv
<1>13. booking' \in [Bookings -> BookingRow] /\ booking'[b] = bk
  BY DEF IInv
<1>14. \A p \in Programs : Sound(referral'[p])
  BY <1>9, <1>11 DEF IInv
<1>15. \A c \in Bookings : Given(c)'
  <2>1. ASSUME NEW c \in Bookings \ {b} PROVE Given(c)'
    BY <1>12, FreeDiscount DEF Given
  <2>2. Given(b)'
    BY <1>4, <1>10, <1>11, <1>13 DEF Given, Customer
  <2> QED
    BY <2>1, <2>2
<1>16. Reserved'
  BY <1>4, <1>10, <1>11, <1>13 DEF Reserved, Customer
<1> QED
  BY <1>11, <1>13, <1>14, <1>15, <1>16 DEF IInv

LEMMA ChargeDiscountedInv == ASSUME IInv, NEW b \in Bookings, ChargeDiscounted(b) PROVE IInv'
<1>1. PICK d \in Discounts \union {0} :
        /\ ReserveCustomerDiscount(b, d)
        /\ \E bk \in Attempted([booking[b] EXCEPT !.discount = d], booking[b].bill - d) :
             booking' = [booking EXCEPT ![b] = bk]
  BY DEF ChargeDiscounted
<1> DEFINE due == booking[b].bill - d
           off == [booking[b] EXCEPT !.discount = d]
<1>2. d \in Nat /\ due \in Int
  BY AmountsAreNat, BookingIs
<1>3. off \in BookingRow /\ off.discount = d /\ off.status = "completed"
  BY <1>2, BookingIs DEF BookingRow, ChargeDiscounted, Chargeable
<1>4. PICK bk \in Attempted(off, due) : booking' = [booking EXCEPT ![b] = bk]
  BY <1>1
<1> HIDE DEF off, due
<1>5. bk \in BookingRow /\ bk.discount = d /\ bk.status = "completed"
  BY <1>2, <1>3, AttemptedTurns
<1>6. d = booking[b].discount => Turns(b, bk)
  BY <1>5 DEF Turns
<1>7. CASE d = booking[b].discount /\ referral' = referral
  BY <1>4, <1>6, <1>7, NoneMoves, OneTurns
<1>8. CASE /\ d = 0 /\ booking[b].discount = 0 /\ "customer" \in Programs /\ Customer.status = "claimed"
           /\ referral' = [referral EXCEPT !["customer"] = Expired(@)]
  <2>1. Sound(referral["customer"]) /\ referral["customer"].status = "claimed"
    BY <1>8 DEF IInv, Customer
  <2>2. referral' = [referral EXCEPT !["customer"] = Expired(referral["customer"])]
    BY <1>8
  <2>3. Moved
    BY <1>8, <2>1, <2>2, ExpiredIs, DiscountIsKind, OneMoves
  <2> QED
    BY <1>4, <1>6, <1>8, <2>3, OneTurns
<1>9. CASE /\ d \in Discounts
           /\ "customer" \in Programs /\ Customer.status = "claimed"
           /\ Reusable(Customer.reward["discount"])
           /\ referral' = [referral EXCEPT !["customer"].reward["discount"] =
                [@ EXCEPT !.status = "pending", !.booking = b, !.amount = d, !.matured = TRUE, !.wallet = 0]]
  BY <1>4, <1>5, <1>9, GivenInv
<1> QED
  BY <1>1, <1>7, <1>8, <1>9 DEF ReserveCustomerDiscount

-----------------------------------------------------------------------------

LEMMA InitInv == Init => IInv
<1> SUFFICES ASSUME Init PROVE IInv
  OBVIOUS
<1>1. \A s \in Rails : NewBooking(s) \in BookingRow /\ NewBooking(s).discount = 0
  BY AmountsAreNat DEF NewBooking, BookingRow, Rails, Online, NoEarning, EarningRow
<1>2. NoReward \in RewardRow /\ Ledger(NoReward) /\ NoReward.status = "none"
  BY DEF NoReward, RewardRow, Ledger
<1>3. Sound(Unclaimed) /\ Unclaimed.reward["discount"].status = "none"
  BY <1>2, DiscountIsKind DEF Unclaimed, Sound, ReferralRow
<1>4. booking \in [Bookings -> BookingRow] /\ \A b \in Bookings : booking[b].discount = 0
  BY <1>1 DEF Init, Rails
<1>5. \A p \in Programs : referral[p] = Unclaimed
  BY DEF Init
<1>6. referral \in [Programs -> ReferralRow]
  BY <1>3 DEF Init, Sound
<1> QED
  BY <1>3, <1>4, <1>5, <1>6 DEF IInv, Given, Reserved, Customer

LEMMA NextInv == IInv /\ [Next]_vars => IInv'
<1> SUFFICES ASSUME IInv, [Next]_vars PROVE IInv'
  OBVIOUS
<1>1. CASE Participants
  BY <1>1, ParticipantsInv
<1>2. ASSUME NEW p \in Programs, Maintenance(p) PROVE IInv'
  BY <1>2, MaintenanceInv
<1>3. ASSUME NEW b \in Bookings, Course(b) \/ Settlement(b) \/ Disturbance(b) PROVE IInv'
  BY <1>3, CourseInv, CashInv, SettleCapturedInv, UnusedReturnedInv, ReconcileInv,
     SettleFromWalletInv, ChargeRestInv, ChargeDiscountedInv, ChargeSucceededInv,
     DisturbanceInv DEF Settlement
<1>4. CASE UNCHANGED vars
  BY <1>4, NoneMoves, NoneTurns DEF vars
<1> QED
  BY <1>1, <1>2, <1>3, <1>4, ProgramsAssumption DEF Next

\* Rows keep their types, for any number of bookings and any policy.
THEOREM TypeCorrect == Spec => []TypeOK
<1>1. IInv => TypeOK
  BY DEF IInv, TypeOK, BookingRow, EarningRow, ReferralRow, RewardRow, Rails, Money
<1> QED
  BY <1>1, InitInv, NextInv, PTL DEF Spec

\* However many completed bookings are charged, declined and retried in
\* parallel, reserveCustomerDiscount gives one of them the discount.
THEOREM OneDiscountOnly == Spec => []OneDiscount
<1>1. IInv => OneDiscount
  BY DEF IInv, Given, OneDiscount
<1> QED
  BY <1>1, InitInv, NextInv, PTL DEF Spec

\* revokeLockedReferral leaves nothing in a wallet, whichever of refund,
\* chargeback, administrator and worker calls it, and no later release, payment
\* or claim puts something back.
THEOREM RevokedKeepNothing == Spec => []RevokedKeepsNothing
<1>1. IInv => RevokedKeepsNothing
  <2> SUFFICES ASSUME IInv, NEW p \in Programs, NEW k \in Kinds
               PROVE  LET w == referral[p].reward[k] IN
                      /\ w.credited - w.reversed = IF w.status = "settled" THEN w.wallet ELSE 0
                      /\ referral[p].status = "revoked" => w.status \in {"none", "cancelled", "reversed"}
    BY DEF RevokedKeepsNothing
  <2>1. Sound(referral[p]) /\ referral[p].reward[k] \in RewardRow /\ Ledger(referral[p].reward[k])
    BY DEF IInv, Sound, ReferralRow
  <2> QED
    BY <2>1 DEF Sound, RewardRow, Ledger
<1> QED
  BY <1>1, InitInv, NextInv, PTL DEF Spec

-----------------------------------------------------------------------------
(* Bonuses and the booking that earned them. *)

Paid(bk) == bk.earning.by # "none"

Good(bk) ==
  Paid(bk) /\ Took(bk) - bk.returned >= Minimum /\ bk.chargeback # "lost"

\* What the row of a booking and its earning have to do with each other.
Priced(bk) ==
  /\ bk.intent > 0 \/ bk.payment = "paid" => bk.status = "completed" /\ bk.source # "cash"
  /\ Paid(bk) => bk.source # "cash" /\ bk.total <= bk.earning.gross
  /\ bk.payment = "paid" =>
       Paid(bk) /\ bk.total = bk.earning.gross /\ bk.bill = bk.earning.bill
  /\ bk.earning.by \in {"acceptance", "wallet"} => bk.earning.gross = bk.earning.bill
  /\ bk.unused = 0 \/ bk.unusedDue = 0
  /\ bk.captured > 0 => bk.source # "cash"

Qualifies(ref) == ref.status \in {"qualified", "rewarded"}

\* A bonus belongs to the qualifying booking, and to a referral that has one.
Named(ref) ==
  /\ Qualifies(ref) => ref.booking \in Bookings
  /\ \A k \in Bonuses : ref.reward[k].status # "none" =>
       /\ ref.reward[k].booking = ref.booking
       /\ Qualifies(ref) \/ ref.status = "revoked"

Backed(ref, bk) ==
  /\ Named(ref)
  /\ Qualifies(ref) =>
       /\ Paid(bk)
       /\ (\E k \in Bonuses : ref.reward[k].status = "settled") => Good(bk)

EInv ==
  /\ \A b \in Bookings : Priced(booking[b])
  /\ \A p \in Programs : Backed(referral[p], booking[referral[p].booking])

\* A booking that was paid has its earning, and stays good for a bonus.
Worth(bk, to) == Paid(bk) => Paid(to) /\ (Good(bk) => Good(to))

\* A row that changes in nothing but what says that it is due.
LEMMA LeftAlone ==
  ASSUME NEW bk \in BookingRow, Priced(bk), NEW to \in BookingRow,
         to.earning = bk.earning, to.returned = bk.returned, to.chargeback = bk.chargeback,
         to.unused = bk.unused, to.unusedDue = bk.unusedDue, to.captured = bk.captured,
         to.payment # "paid"
           \/ (to.payment = bk.payment /\ to.bill = bk.bill /\ to.total = bk.total),
         to.total <= bk.total \/ ~Paid(bk),
         to.intent > 0 \/ to.payment = "paid" => to.status = "completed" /\ to.source # "cash",
         bk.source # "cash" => to.source # "cash"
  PROVE Priced(to) /\ Worth(bk, to)
<1>1. /\ bk.total \in Nat /\ to.total \in Nat /\ bk.earning \in EarningRow
      /\ bk.earning.gross \in Nat
  BY DEF BookingRow, EarningRow
<1>2. Took(to) = Took(bk)
  BY DEF Took
<1>3. Worth(bk, to)
  BY <1>2 DEF Worth, Good, Paid
<1> QED
  BY <1>1, <1>3 DEF Priced, Paid

LEMMA BonusesAreKinds == \A k \in Bonuses : k \in Kinds
  BY DEF Bonuses

LEMMA RevokedBacked ==
  ASSUME NEW ref, Sound(ref), Named(ref), NEW bk PROVE Backed(Revoked(ref), bk)
<1>1. /\ Revoked(ref).status = "revoked" /\ Revoked(ref).booking = ref.booking
      /\ \A k \in Kinds : Keeps(ref.reward[k], Revoked(ref).reward[k])
  BY RevokedIs
<1> QED
  BY <1>1, BonusesAreKinds DEF Backed, Named, Qualifies, Keeps

LEMMA EligibleIsGood ==
  ASSUME NEW bk \in BookingRow, Priced(bk), Paid(bk), StillEligible(bk), bk.chargeback # "lost"
  PROVE Good(bk)
<1>1. /\ bk.total \in Nat /\ bk.returned \in Nat /\ bk.unused \in Nat /\ bk.unusedDue \in Nat
      /\ bk.earning.gross \in Nat /\ Minimum \in Nat
  BY AmountsAssumption DEF BookingRow, EarningRow
<1>2. bk.total - bk.returned - bk.unused >= Minimum
  BY <1>1 DEF StillEligible, Remaining
<1>3. Took(bk) \in Nat /\ Took(bk) >= bk.total
  BY <1>1 DEF Took, Priced
<1> QED
  BY <1>1, <1>2, <1>3 DEF Good

\* releaseReward credits a bonus only with the money of its booking behind it.
LEMMA ReleasedBacked ==
  ASSUME NEW ref, Sound(ref), ref.status # "revoked", NEW kinds, kinds \subseteq Mature(ref),
         NEW bk \in BookingRow, Priced(bk), Backed(ref, bk), NEW from,
         (\E k \in kinds : k \in Bonuses) => from = bk /\ ~Held(bk)
  PROVE Backed(Released(ref, kinds, from), bk)
<1>1. CASE StillEligible(from)
  <2> DEFINE some == CreditedIn(ref, kinds)
             new == Refreshed(some)
  <2>1. Sound(some) /\ some.status = ref.status /\ some.booking = ref.booking
    BY CreditedInIs
  <2>2. \A k \in Kinds : Keeps(ref.reward[k], some.reward[k])
    BY CreditedInIs
  <2>3. \A k \in Kinds \ kinds : some.reward[k] = ref.reward[k]
    <3>1. some.reward = [k \in Kinds |-> IF k \in kinds THEN Credited(ref.reward[k]) ELSE ref.reward[k]]
      BY ReferralIs DEF Sound, CreditedIn
    <3> HIDE DEF some
    <3> QED
      BY <3>1
  <2> HIDE DEF some
  <2>4. /\ new.reward = some.reward /\ new.booking = ref.booking
        /\ new.status = ref.status \/ (ref.status = "qualified" /\ new.status = "rewarded")
    BY <2>1, RefreshedIs
  <2>5. Released(ref, kinds, from) = new
    BY <1>1 DEF Released, CreditedIn, some
  <2> HIDE DEF new
  <2>6. Named(new) /\ (Qualifies(new) => Qualifies(ref))
    BY <2>2, <2>4, BonusesAreKinds DEF Backed, Named, Qualifies, Keeps
  <2>7. ASSUME Qualifies(ref), NEW k \in Bonuses, new.reward[k].status = "settled" PROVE Good(bk)
    <3>1. CASE k \in kinds
      <4>1. from = bk /\ ~Held(bk) /\ Paid(bk)
        BY <2>7, <3>1 DEF Backed
      <4> QED
        BY <1>1, <4>1, EligibleIsGood DEF Held
    <3>2. CASE k \notin kinds
      <4>1. ref.reward[k].status = "settled"
        BY <2>3, <2>4, <2>7, <3>2, BonusesAreKinds
      <4> QED
        BY <2>7, <4>1 DEF Backed
    <3> QED
      BY <3>1, <3>2
  <2> QED
    BY <2>5, <2>6, <2>7 DEF Backed
<1>2. CASE ~StillEligible(from)
  BY <1>2, RevokedBacked DEF Released, Backed
<1> QED
  BY <1>1, <1>2

LEMMA ExpiredBacked ==
  ASSUME NEW ref, Sound(ref), ref.status = "claimed", Named(ref), NEW bk PROVE Backed(Expired(ref), bk)
<1>1. /\ Expired(ref).status \in {"claimed", "expired"}
      /\ \A k \in Bonuses : Expired(ref).reward[k] = ref.reward[k]
  BY ExpiredIs DEF Bonuses
<1>2. \A k \in Bonuses : ref.reward[k].status = "none"
  BY DEF Named, Qualifies
<1> QED
  BY <1>1, <1>2 DEF Backed, Named, Qualifies

\* qualifyPaidBooking: bk is what the booking reads when its bonuses are made.
LEMMA QualifiedBacked ==
  ASSUME NEW p \in Programs, Sound(referral[p]), Named(referral[p]), referral[p].status = "claimed",
         NEW b \in Bookings, NEW bk \in BookingRow, NEW matured \in BOOLEAN,
         Paid(bk), Priced(bk)
  PROVE LET new == Qualified(p, b, bk, matured) IN
        /\ Backed(new, bk) /\ (Qualifies(new) => new.booking = b)
<1> DEFINE ref == referral[p]
           q == Qualifying(ref, p, b, matured)
           new == Qualified(p, b, bk, matured)
<1>1. ref.status = "claimed" /\ \A k \in Bonuses : ref.reward[k].status = "none"
  BY DEF Named, Qualifies
<1>2. CASE new = ref
  BY <1>1, <1>2 DEF Backed, Named, Qualifies
<1>3. CASE new = Expired(ref)
  <2>1. Expired(ref).status \in {"claimed", "expired"}
    BY <1>1, ExpiredIs
  <2> QED
    BY <1>1, <1>3, <2>1, ExpiredBacked DEF Qualifies
<1>4. CASE new = Immediate(q, bk)
  <2>1. Sound(q) /\ q.status = "qualified" /\ q.booking = b
    BY <1>1, QualifyingIs
  <2>2. \A k \in Bonuses : q.reward[k] = QualifyingReward(ref.reward[k], b, Bonus[p][k], matured)
    BY QualifyingShape, BonusesAreKinds DEF Sound
  <2>3. \A k \in Bonuses : /\ q.reward[k].status \in {"none", "pending"}
                           /\ q.reward[k].status # "none" => q.reward[k].booking = b
    BY <1>1, <2>2 DEF QualifyingReward, NoReward
  <2> HIDE DEF q
  <2>4. Backed(q, bk)
    BY <2>1, <2>3 DEF Backed, Named, Qualifies
  <2>5. CASE Immediate(q, bk) = Refreshed(q)
    <3>1. /\ Refreshed(q).reward = q.reward /\ Refreshed(q).booking = b
          /\ Refreshed(q).status \in {"qualified", "rewarded"}
      BY <2>1, RefreshedIs
    <3> QED
      BY <1>4, <2>1, <2>4, <2>5, <3>1 DEF Backed, Named, Qualifies
  <2>6. CASE ~Held(bk) /\ Immediate(q, bk) = Released(q, Mature(q), bk)
    <3>1. Backed(Released(q, Mature(q), bk), bk)
      BY <2>1, <2>4, <2>6, ReleasedBacked
    <3>2. Released(q, Mature(q), bk).booking = b
      BY <2>1, ReleasedIs
    <3> QED
      BY <1>4, <2>6, <3>1, <3>2
  <2> QED
    BY <2>5, <2>6 DEF Immediate
<1>5. new = ref \/ new = Expired(ref) \/ new = Immediate(q, bk)
  BY DEF Qualified
<1> HIDE DEF new
<1> QED
  BY <1>2, <1>3, <1>4, <1>5 DEF new

-----------------------------------------------------------------------------
(* Steps. *)

\* A referral that is left alone.
LEMMA Carries ==
  ASSUME EInv, NEW p \in Programs, referral'[p] = referral[p],
         \A c \in Bookings : Worth(booking[c], booking'[c])
  PROVE Backed(referral'[p], booking'[referral'[p].booking])
<1> DEFINE ref == referral[p]
<1>1. Backed(ref, booking[ref.booking])
  BY DEF EInv
<1>2. Qualifies(ref) => Worth(booking[ref.booking], booking'[ref.booking])
  BY <1>1 DEF Backed, Named
<1> QED
  BY <1>1, <1>2 DEF Backed, Worth

\* One booking changes, which is worth what it was, and some referrals.
LEMMA OneEarns ==
  ASSUME IInv, EInv, NEW b \in Bookings, NEW bk, booking' = [booking EXCEPT ![b] = bk],
         Priced(bk), Worth(booking[b], bk),
         \A p \in Programs : \/ referral'[p] = referral[p]
                             \/ Backed(referral'[p], booking'[referral'[p].booking])
  PROVE EInv'
<1>1. booking'[b] = bk /\ \A c \in Bookings \ {b} : booking'[c] = booking[c]
  BY DEF IInv
<1>2. \A c \in Bookings : Priced(booking'[c]) /\ Worth(booking[c], booking'[c])
  BY <1>1 DEF EInv, Worth
<1>3. \A p \in Programs : Backed(referral'[p], booking'[referral'[p].booking])
  BY <1>2, Carries
<1> QED
  BY <1>2, <1>3 DEF EInv

LEMMA NoneEarns ==
  ASSUME EInv, booking' = booking,
         \A p \in Programs : \/ referral'[p] = referral[p]
                             \/ Backed(referral'[p], booking[referral'[p].booking])
  PROVE EInv'
  BY DEF EInv

LEMMA ParticipantsEarn == ASSUME IInv, EInv, Participants PROVE EInv'
<1>1. PICK p \in Programs : Claim(p) \/ Revoke(p) \/ Lapse(p)
  BY DEF Participants
<1> DEFINE ref == referral[p]
<1>2. Sound(ref) /\ ref \in ReferralRow /\ Backed(ref, booking[ref.booking])
  BY DEF IInv, EInv
<1>3. booking' = booking
  BY <1>1 DEF Claim, Revoke, Lapse
<1>4. ASSUME NEW new, referral' = [referral EXCEPT ![p] = new], Backed(new, booking[new.booking])
      PROVE EInv'
  <2>1. referral'[p] = new /\ \A q \in Programs \ {p} : referral'[q] = referral[q]
    BY <1>4 DEF IInv
  <2> QED
    BY <1>3, <1>4, <2>1, NoneEarns
<1>5. CASE Claim(p)
  <2>1. referral' = [referral EXCEPT ![p] = [ref EXCEPT !.status = "claimed"]] /\ ref.status = "none"
    BY <1>5 DEF Claim
  <2>2. [ref EXCEPT !.status = "claimed"] =
          [status |-> "claimed", lapsed |-> ref.lapsed, booking |-> ref.booking, reward |-> ref.reward]
    BY <1>2, ReferralIs
  <2>3. Backed([ref EXCEPT !.status = "claimed"], booking[ref.booking])
    BY <1>2, <2>1, <2>2 DEF Backed, Named, Qualifies
  <2> QED
    BY <1>4, <2>1, <2>2, <2>3
<1>6. CASE Revoke(p)
  <2>1. referral' = [referral EXCEPT ![p] = Revoked(ref)]
    BY <1>6 DEF Revoke
  <2>2. Backed(Revoked(ref), booking[Revoked(ref).booking])
    BY <1>2, RevokedBacked DEF Backed
  <2> QED
    BY <1>4, <2>1, <2>2
<1>7. CASE Lapse(p)
  <2>1. referral' = [referral EXCEPT ![p] = [ref EXCEPT !.lapsed = TRUE]]
    BY <1>7 DEF Lapse
  <2>2. LET new == [ref EXCEPT !.lapsed = TRUE] IN
        new.status = ref.status /\ new.booking = ref.booking /\ new.reward = ref.reward
    BY <1>2 DEF ReferralRow
  <2>3. Backed([ref EXCEPT !.lapsed = TRUE], booking[[ref EXCEPT !.lapsed = TRUE].booking])
    BY <1>2, <2>2 DEF Backed, Named, Qualifies
  <2> QED
    BY <1>4, <2>1, <2>3
<1> QED
  BY <1>1, <1>5, <1>6, <1>7

LEMMA MaintenanceEarns == ASSUME IInv, EInv, NEW p \in Programs, Maintenance(p) PROVE EInv'
<1> DEFINE ref == referral[p]
<1>1. Sound(ref) /\ ref \in ReferralRow /\ Backed(ref, booking[ref.booking])
  BY DEF IInv, EInv
<1>2. booking' = booking
  BY DEF Maintenance, ExpireStaleReferral, Clear, ReleaseMatureReward
<1>3. ASSUME NEW new, referral' = [referral EXCEPT ![p] = new], Backed(new, booking[new.booking])
      PROVE EInv'
  <2>1. referral'[p] = new /\ \A q \in Programs \ {p} : referral'[q] = referral[q]
    BY <1>3 DEF IInv
  <2> QED
    BY <1>2, <1>3, <2>1, NoneEarns
<1>4. CASE ExpireStaleReferral(p)
  <2>1. referral' = [referral EXCEPT ![p] = Expired(ref)] /\ ref.status = "claimed"
    BY <1>4 DEF ExpireStaleReferral
  <2>2. Backed(Expired(ref), booking[Expired(ref).booking])
    BY <1>1, <2>1, ExpiredBacked DEF Backed
  <2> QED
    BY <1>3, <2>1, <2>2
<1>5. ASSUME NEW k \in Kinds, Clear(p, k) PROVE EInv'
  <2> DEFINE new == [ref EXCEPT !.reward[k].matured = TRUE]
  <2>1. referral' = [referral EXCEPT ![p] = new]
    BY <1>5 DEF Clear
  <2>2. /\ new.status = ref.status /\ new.booking = ref.booking
        /\ \A j \in Kinds : /\ new.reward[j].status = ref.reward[j].status
                            /\ new.reward[j].booking = ref.reward[j].booking
    BY <1>1 DEF ReferralRow, RewardRow
  <2> HIDE DEF new
  <2>3. Backed(new, booking[new.booking])
    BY <1>1, <2>2, BonusesAreKinds DEF Backed, Named, Qualifies
  <2> QED
    BY <1>3, <2>1, <2>3
<1>6. ASSUME NEW k \in Kinds, ReleaseMatureReward(p, k) PROVE EInv'
  <2> DEFINE from == booking[ref.reward[k].booking]
             bk == booking[ref.booking]
  <2>1. /\ referral' = [referral EXCEPT ![p] = Released(ref, {k}, from)]
        /\ ref.status # "revoked" /\ {k} \subseteq Mature(ref) /\ ~Held(from)
    BY <1>6 DEF ReleaseMatureReward
  <2>2. ref.reward[k].status = "pending"
    BY <2>1 DEF Mature
  <2>3. Sound(Released(ref, {k}, from)) /\ Released(ref, {k}, from).booking = ref.booking
    BY <1>1, <2>1, ReleasedIs
  <2>4. Backed(Released(ref, {k}, from), bk)
    <3>1. CASE StillEligible(from) /\ Qualifies(ref)
      <4>1. bk \in BookingRow /\ Priced(bk)
        BY <1>1, <3>1 DEF IInv, EInv, Backed, Named
      <4>2. k \in Bonuses => from = bk
        BY <1>1, <2>2 DEF Backed, Named
      <4> HIDE DEF bk, from
      <4> QED
        BY <1>1, <2>1, <4>1, <4>2, ReleasedBacked DEF bk
    <3>2. CASE StillEligible(from) /\ ~Qualifies(ref)
      <4>1. \A j \in Bonuses : ref.reward[j].status = "none"
        BY <1>1, <2>1, <3>2 DEF Backed, Named
      <4>2. Released(ref, {k}, from) = Refreshed(CreditedIn(ref, {k}))
        BY <3>2 DEF Released, CreditedIn
      <4>3. /\ Sound(CreditedIn(ref, {k})) /\ CreditedIn(ref, {k}).status = ref.status
            /\ \A j \in Kinds : Keeps(ref.reward[j], CreditedIn(ref, {k}).reward[j])
        BY <1>1, <2>1, CreditedInIs
      <4>4. /\ Refreshed(CreditedIn(ref, {k})).status = ref.status
            /\ Refreshed(CreditedIn(ref, {k})).reward = CreditedIn(ref, {k}).reward
        BY <3>2, <4>3, RefreshedIs DEF Qualifies
      <4>5. \A j \in Bonuses : Released(ref, {k}, from).reward[j].status = "none"
        BY <4>1, <4>2, <4>3, <4>4, BonusesAreKinds DEF Keeps
      <4> QED
        BY <3>2, <4>2, <4>4, <4>5 DEF Backed, Named, Qualifies
    <3>3. CASE ~StillEligible(from)
      BY <1>1, <3>3, RevokedBacked DEF Released, Backed
    <3> QED
      BY <3>1, <3>2, <3>3
  <2> QED
    BY <1>3, <2>1, <2>3, <2>4
<1> QED
  BY <1>4, <1>5, <1>6 DEF Maintenance

\* What does not touch a referral.
LEMMA AloneEarns ==
  ASSUME IInv, EInv, NEW b \in Bookings, NEW bk, booking' = [booking EXCEPT ![b] = bk],
         Priced(bk), Worth(booking[b], bk), referral' = referral
  PROVE EInv'
  BY OneEarns

LEMMA CourseEarns == ASSUME IInv, EInv, NEW b \in Bookings, Course(b) PROVE EInv'
<1>1. booking[b] \in BookingRow /\ Priced(booking[b])
  BY BookingIs DEF EInv
<1>2. CASE Complete(b)
  <2>1. PICK bill \in Bills : booking' = [booking EXCEPT ![b] =
                                 [booking[b] EXCEPT !.status = "completed", !.bill = bill]]
    BY <1>2 DEF Complete
  <2> DEFINE bk == [booking[b] EXCEPT !.status = "completed", !.bill = bill]
  <2>2. bill \in Nat /\ booking[b].status = "live" /\ referral' = referral
    BY <1>2, AmountsAreNat DEF Complete
  <2>3. /\ bk \in BookingRow /\ bk.earning = booking[b].earning
        /\ bk.returned = booking[b].returned /\ bk.captured = booking[b].captured
        /\ bk.chargeback = booking[b].chargeback
        /\ bk.unused = booking[b].unused /\ bk.unusedDue = booking[b].unusedDue
        /\ bk.payment = booking[b].payment /\ bk.total = booking[b].total
        /\ bk.intent = booking[b].intent /\ bk.source = booking[b].source
    BY <1>1, <2>2 DEF BookingRow
  <2>4. booking[b].payment # "paid" /\ ~(booking[b].intent > 0) /\ bk.total <= booking[b].total
    BY <1>1, <2>2, <2>3 DEF Priced, BookingRow
  <2>5. booking' = [booking EXCEPT ![b] = bk]
    BY <2>1
  <2> HIDE DEF bk
  <2>6. Priced(bk) /\ Worth(booking[b], bk)
    BY <1>1, <2>3, <2>4, LeftAlone
  <2> QED
    BY <2>2, <2>5, <2>6, AloneEarns
<1>3. CASE Cancel(b)
  <2> DEFINE bk == [booking[b] EXCEPT !.status = "cancelled"]
  <2>1. /\ booking' = [booking EXCEPT ![b] = bk]
        /\ referral' = referral /\ booking[b].status = "live"
    BY <1>3 DEF IInv, Reserved, Customer, Cancel
  <2>2. /\ bk \in BookingRow /\ bk.earning = booking[b].earning
        /\ bk.returned = booking[b].returned /\ bk.captured = booking[b].captured
        /\ bk.chargeback = booking[b].chargeback
        /\ bk.unused = booking[b].unused /\ bk.unusedDue = booking[b].unusedDue
        /\ bk.payment = booking[b].payment /\ bk.total = booking[b].total
        /\ bk.intent = booking[b].intent /\ bk.source = booking[b].source
    BY <1>1 DEF BookingRow
  <2>3. booking[b].payment # "paid" /\ ~(booking[b].intent > 0) /\ bk.total <= booking[b].total
    BY <1>1, <2>1, <2>2 DEF Priced, BookingRow
  <2> HIDE DEF bk
  <2>4. Priced(bk) /\ Worth(booking[b], bk)
    BY <1>1, <2>2, <2>3, LeftAlone
  <2> QED
    BY <2>1, <2>4, AloneEarns
<1> QED
  BY <1>2, <1>3 DEF Course

LEMMA CashEarns ==
  ASSUME IInv, EInv, NEW b \in Bookings,
         FinalizeCash(b) \/ ConfirmCash(b) \/ RetryWithCard(b) \/ UnusedReturned(b)
  PROVE EInv'
<1> DEFINE old == booking[b]
<1>1. old \in BookingRow /\ Priced(old)
  BY BookingIs DEF EInv
<1>2. PICK bk : booking' = [booking EXCEPT ![b] = bk] /\ Priced(bk) /\ Worth(old, bk)
  <2>1. CASE FinalizeCash(b) \/ ConfirmCash(b) \/ RetryWithCard(b)
    <3>1. PICK bk \in BookingRow :
            /\ booking' = [booking EXCEPT ![b] = bk]
            /\ bk.earning = old.earning /\ bk.returned = old.returned
            /\ bk.chargeback = old.chargeback /\ bk.captured = old.captured
            /\ bk.unused = old.unused /\ bk.unusedDue = old.unusedDue
            /\ bk.payment # "paid" /\ (bk.total = old.total \/ ~Paid(old))
            /\ bk.intent = old.intent /\ bk.status = old.status
            /\ (old.intent > 0 \/ old.source # "cash") => bk.source # "cash"
      <4>1. CASE FinalizeCash(b)
        <5> DEFINE bk == [old EXCEPT !.total = old.bill]
        <5>1. old.payment # "paid" /\ old.source = "cash" /\ booking' = [booking EXCEPT ![b] = bk]
          BY <4>1 DEF FinalizeCash, Chargeable
        <5>2. ~Paid(old) /\ ~(old.intent > 0)
          BY <1>1, <5>1 DEF Priced
        <5>3. /\ bk \in BookingRow /\ bk.earning = old.earning /\ bk.returned = old.returned
              /\ bk.chargeback = old.chargeback /\ bk.captured = old.captured
              /\ bk.unused = old.unused /\ bk.unusedDue = old.unusedDue
              /\ bk.payment = old.payment
              /\ bk.intent = old.intent /\ bk.status = old.status
          BY <1>1 DEF BookingRow
        <5> HIDE DEF bk
        <5> QED
          BY <5>1, <5>2, <5>3
      <4>2. CASE ConfirmCash(b)
        <5> DEFINE bk == [old EXCEPT !.payment = "cash_confirmed"]
        <5>1. old.source = "cash" /\ booking' = [booking EXCEPT ![b] = bk]
          BY <4>2 DEF ConfirmCash
        <5>2. ~Paid(old) /\ ~(old.intent > 0)
          BY <1>1, <5>1 DEF Priced
        <5>3. /\ bk \in BookingRow /\ bk.earning = old.earning /\ bk.returned = old.returned
              /\ bk.chargeback = old.chargeback /\ bk.captured = old.captured
              /\ bk.unused = old.unused /\ bk.unusedDue = old.unusedDue
              /\ bk.payment = "cash_confirmed" /\ bk.total = old.total
              /\ bk.intent = old.intent /\ bk.status = old.status
          BY <1>1 DEF BookingRow, SettledPayments
        <5> HIDE DEF bk
        <5> QED
          BY <5>1, <5>2, <5>3
      <4>3. CASE RetryWithCard(b)
        <5> DEFINE bk == [old EXCEPT !.source = "stripe", !.payment = "due", !.linked = FALSE]
        <5>1. booking' = [booking EXCEPT ![b] = bk]
          BY <4>3 DEF RetryWithCard
        <5>2. /\ bk.earning = old.earning /\ bk.returned = old.returned
              /\ bk.chargeback = old.chargeback /\ bk.captured = old.captured
              /\ bk.unused = old.unused /\ bk.unusedDue = old.unusedDue
              /\ bk.payment = "due" /\ bk.total = old.total /\ bk.source = "stripe"
              /\ bk.intent = old.intent /\ bk.status = old.status
          BY <1>1 DEF BookingRow
        <5>3. bk \in BookingRow
          BY <1>1 DEF BookingRow, Rails, Online
        <5> HIDE DEF bk
        <5> QED
          BY <5>1, <5>2, <5>3
      <4> QED
        BY <2>1, <4>1, <4>2, <4>3
    <3>2. /\ bk.total <= old.total \/ ~Paid(old)
          /\ bk.intent > 0 \/ bk.payment = "paid" => bk.status = "completed" /\ bk.source # "cash"
      BY <1>1, <3>1 DEF Priced, BookingRow
    <3>3. Priced(bk) /\ Worth(old, bk)
      BY <1>1, <3>1, <3>2, LeftAlone
    <3> QED
      BY <3>1, <3>3
  <2>2. CASE UnusedReturned(b)
    <3> DEFINE bk == [old EXCEPT !.unused = old.unusedDue, !.unusedDue = 0]
    <3>1. booking' = [booking EXCEPT ![b] = bk] /\ old.unusedDue > 0
      BY <2>2 DEF UnusedReturned
    <3>2. old.unused = 0
      BY <1>1, <3>1 DEF Priced
    <3>3. /\ bk.unused + bk.unusedDue = old.unused + old.unusedDue /\ bk.unusedDue = 0
          /\ bk.earning = old.earning /\ bk.returned = old.returned
          /\ bk.chargeback = old.chargeback /\ bk.captured = old.captured /\ bk.payment = old.payment /\ bk.total = old.total
          /\ bk.bill = old.bill /\ bk.source = old.source
          /\ bk.intent = old.intent /\ bk.status = old.status
      BY <1>1, <3>2 DEF BookingRow
    <3> HIDE DEF bk
    <3>4. Took(bk) = Took(old)
      BY <3>3 DEF Took
    <3>5. Priced(bk) /\ Worth(old, bk)
      BY <1>1, <3>3, <3>4 DEF Priced, Worth, Good, Paid
    <3> QED
      BY <3>1, <3>5
  <2> QED
    BY <2>1, <2>2
<1>3. referral' = referral
  BY DEF FinalizeCash, ConfirmCash, RetryWithCard, UnusedReturned
<1> QED
  BY <1>2, <1>3, AloneEarns

\* A payment: paid is the booking when its referrals qualify, bk what it is in
\* the end, with the unused part of the prepayment on its way.
LEMMA PaidEarns ==
  ASSUME IInv, EInv, NEW b \in Bookings, NEW bk, booking' = [booking EXCEPT ![b] = bk],
         NEW matured \in Clearances, NEW paid \in BookingRow,
         referral' = [p \in Programs |-> Qualified(p, b, paid, matured)],
         Paid(paid), Priced(paid), Priced(bk), Worth(booking[b], bk), Worth(paid, bk)
  PROVE EInv'
<1>1. matured \in BOOLEAN
  BY ProgramsAssumption
<1>2. booking'[b] = bk
  BY DEF IInv
<1>3. ASSUME NEW p \in Programs
      PROVE \/ referral'[p] = referral[p]
            \/ Backed(referral'[p], booking'[referral'[p].booking])
  <2>1. referral'[p] = Qualified(p, b, paid, matured) /\ Sound(referral[p]) /\ Named(referral[p])
    BY DEF IInv, EInv, Backed
  <2>2. CASE referral[p].status = "claimed"
    <3>1. Backed(referral'[p], paid) /\ (Qualifies(referral'[p]) => referral'[p].booking = b)
      BY <1>1, <2>1, <2>2, QualifiedBacked
    <3> QED
      BY <1>2, <3>1 DEF Backed, Worth
  <2>3. CASE referral[p].status # "claimed"
    BY <2>1, <2>3 DEF Qualified
  <2> QED
    BY <2>2, <2>3
<1> QED
  BY <1>3, OneEarns

\* A settlement, of a booking that has no earning or the same.
LEMMA SettledEarns ==
  ASSUME NEW bk \in BookingRow, Priced(bk), NEW total \in Nat,
         NEW by, by \in {"acceptance", "wallet", "intent"}, Settles(bk, by, total),
         by # "intent" => total = bk.bill, bk.status = "completed", bk.source # "cash",
         NEW to, to = Settled(bk, by, total)
  PROVE to \in BookingRow /\ Paid(to) /\ Priced(to) /\ Worth(bk, to)
<1>1. /\ to \in BookingRow /\ to.source = bk.source /\ to.status = bk.status
      /\ to.payment = "paid" /\ to.bill = bk.bill /\ to.total = total /\ to.intent = bk.intent
      /\ to.earning.by = by /\ to.earning.gross = total /\ to.earning.bill = bk.bill
      /\ to.returned = bk.returned /\ to.unused = bk.unused /\ to.unusedDue = bk.unusedDue
      /\ to.chargeback = bk.chargeback /\ to.captured = bk.captured
  BY SettledIs
<1>2. Paid(to) /\ Priced(to)
  BY <1>1 DEF Paid, Priced
<1>3. CASE bk.earning = NoEarning
  BY <1>1, <1>2, <1>3 DEF Worth, Paid, NoEarning
<1>4. CASE bk.earning = Earning(by, total, bk.bill)
  <2>1. bk.earning.by = by /\ bk.earning.gross = total
    BY <1>4 DEF Earning
  <2>2. Took(to) = Took(bk)
    BY <1>1, <2>1 DEF Took
  <2> QED
    BY <1>1, <1>2, <2>2 DEF Worth, Good
<1> QED
  BY <1>1, <1>2, <1>3, <1>4 DEF Settles

\* Unused prepayment on its way back does not touch what the settlement took.
LEMMA UnusedEarns ==
  ASSUME NEW bk \in BookingRow, Priced(bk), bk.earning.by # "intent", NEW amount \in Nat,
         NEW to, to = UnusedRefunded(bk, amount)
  PROVE Priced(to) /\ Worth(bk, to)
<1>1. /\ to \in BookingRow /\ to.source = bk.source /\ to.status = bk.status
      /\ to.payment = bk.payment /\ to.bill = bk.bill /\ to.total = bk.total
      /\ to.intent = bk.intent /\ to.earning = bk.earning /\ to.returned = bk.returned
      /\ to.chargeback = bk.chargeback /\ to.captured = bk.captured
      /\ bk.unused = 0 \/ bk.unusedDue = 0 => to.unused = 0 \/ to.unusedDue = 0
  BY UnusedRefundedIs
<1>2. Took(to) = Took(bk)
  BY <1>1 DEF Took
<1> QED
  BY <1>1, <1>2 DEF Priced, Worth, Good, Paid

LEMMA SettleCapturedEarns == ASSUME IInv, EInv, NEW b \in Bookings, SettleCaptured(b) PROVE EInv'
<1> DEFINE bk == booking[b]
           unused == bk.captured - bk.bill
           total == bk.bill
           paid == Settled(bk, "acceptance", total)
           to == UnusedRefunded(paid, unused)
<1>1. /\ bk \in BookingRow /\ Priced(bk) /\ total \in Nat /\ unused \in Nat
      /\ bk.status = "completed" /\ bk.captured > 0
  BY BookingIs DEF EInv, SettleCaptured, Chargeable
<1>2. /\ QualifiesWith(b, paid) /\ booking' = [booking EXCEPT ![b] = to]
      /\ Settles(bk, "acceptance", total)
  BY DEF SettleCaptured
<1>3. bk.source # "cash"
  BY <1>1 DEF Priced
<1>4. paid = Settled(bk, "acceptance", total) /\ to = UnusedRefunded(paid, unused) /\ total = bk.bill
  OBVIOUS
<1> HIDE DEF to, paid, unused, total
<1>5. paid \in BookingRow /\ Paid(paid) /\ Priced(paid) /\ Worth(bk, paid)
  BY <1>1, <1>2, <1>3, <1>4, SettledEarns
<1>6. paid.earning.by = "acceptance"
  BY <1>1, <1>4, SettledIs
<1>7. Priced(to) /\ Worth(paid, to)
  BY <1>1, <1>4, <1>5, <1>6, UnusedEarns
<1>8. Worth(bk, to)
  BY <1>5, <1>7 DEF Worth
<1> QED
  BY <1>2, <1>5, <1>7, <1>8, PaidEarns DEF QualifiesWith

LEMMA SettleFromWalletEarns ==
  ASSUME IInv, EInv, NEW b \in Bookings, SettleFromWallet(b) PROVE EInv'
<1> DEFINE bk == booking[b]
           total == bk.bill
           paid == Settled(bk, "wallet", total)
<1>1. /\ bk \in BookingRow /\ Priced(bk) /\ total \in Nat
      /\ bk.status = "completed" /\ bk.source # "cash"
  BY BookingIs DEF EInv, SettleFromWallet, Chargeable
<1>2. /\ QualifiesWith(b, paid) /\ booking' = [booking EXCEPT ![b] = paid]
      /\ Settles(bk, "wallet", total)
  BY DEF SettleFromWallet
<1>3. paid = Settled(bk, "wallet", total) /\ total = bk.bill
  OBVIOUS
<1> HIDE DEF paid, total
<1>4. paid \in BookingRow /\ Paid(paid) /\ Priced(paid) /\ Worth(bk, paid)
  BY <1>1, <1>2, <1>3, SettledEarns
<1>5. Worth(paid, paid)
  BY DEF Worth
<1> QED
  BY <1>2, <1>4, <1>5, PaidEarns DEF QualifiesWith

LEMMA ChargeSucceededEarns == ASSUME IInv, EInv, NEW b \in Bookings, ChargeSucceeded(b) PROVE EInv'
<1> DEFINE bk == booking[b]
           total == bk.captured + bk.intent
           paid == Settled(bk, "intent", total)
<1>1. bk \in BookingRow /\ Priced(bk) /\ total \in Nat /\ bk.intent > 0
  BY BookingIs DEF EInv, ChargeSucceeded
<1>2. /\ QualifiesWith(b, paid) /\ booking' = [booking EXCEPT ![b] = paid]
      /\ Settles(bk, "intent", total)
  BY DEF ChargeSucceeded
<1>3. paid = Settled(bk, "intent", total)
  OBVIOUS
<1> HIDE DEF paid, total
<1>4. bk.status = "completed" /\ bk.source # "cash"
  BY <1>1 DEF Priced
<1>5. paid \in BookingRow /\ Paid(paid) /\ Priced(paid) /\ Worth(bk, paid)
  BY <1>1, <1>2, <1>3, <1>4, SettledEarns
<1>6. Worth(paid, paid)
  BY DEF Worth
<1> QED
  BY <1>2, <1>5, <1>6, PaidEarns DEF QualifiesWith

\* The correction of a charge that was too high: by what the total and the
\* earning lose, the money on its way back grows.
LEMMA ReconcileEarns ==
  ASSUME IInv, EInv, NEW b \in Bookings, ReconcileOverCaptured(b) PROVE EInv'
<1> DEFINE bk == booking[b]
           excess == bk.total - bk.bill
           to == Corrected(bk, excess)
<1>1. /\ bk \in BookingRow /\ Priced(bk) /\ bk.payment = "paid"
      /\ bk.total > bk.bill /\ bk.unused + bk.unusedDue = 0
  BY BookingIs DEF EInv, ReconcileOverCaptured
<1>2. booking' = [booking EXCEPT ![b] = to] /\ referral' = referral
  BY DEF ReconcileOverCaptured, Corrected
<1>3. to = Corrected(bk, excess) /\ excess = bk.total - bk.bill
  OBVIOUS
<1> HIDE DEF to, excess
<1>4. /\ to.source = bk.source /\ to.status = bk.status
      /\ to.payment = bk.payment /\ to.bill = bk.bill /\ to.total = bk.bill
      /\ to.intent = bk.intent /\ to.earning.by = bk.earning.by /\ to.earning.gross = bk.bill
      /\ to.earning.bill = bk.earning.bill /\ to.returned = bk.returned
      /\ to.chargeback = bk.chargeback /\ to.captured = bk.captured
  BY <1>1, <1>3, ReconcileIs
<1>11. /\ to.unused + to.unusedDue = excess
       /\ to.unused = 0 \/ to.unusedDue = 0
  BY <1>1, <1>3, ReconcileIs
<1>5. bk.total \in Nat /\ bk.bill \in Nat /\ bk.earning \in EarningRow
  BY <1>1 DEF BookingRow
<1>6. Paid(bk) /\ bk.earning.gross = bk.total /\ bk.earning.bill = bk.bill
  BY <1>1 DEF Priced
<1>7. bk.earning.by = "intent"
  BY <1>1, <1>5, <1>6 DEF Priced, Paid, EarningRow
<1>8. Took(to) = Took(bk)
  BY <1>1, <1>3, <1>4, <1>5, <1>6, <1>7, <1>11 DEF Took
<1>9. Paid(to) /\ Priced(to)
  BY <1>1, <1>4, <1>5, <1>6, <1>7, <1>11 DEF Priced, Paid
<1>10. Worth(bk, to)
  BY <1>4, <1>8, <1>9 DEF Worth, Good
<1> QED
  BY <1>2, <1>9, <1>10, AloneEarns

\* An attempt to charge the card leaves what was paid.
LEMMA AttemptedEarns ==
  ASSUME NEW bk \in BookingRow, Priced(bk), bk.status = "completed", bk.source = "stripe",
         NEW due \in Int, NEW to, to \in Attempted(bk, due)
  PROVE Priced(to) /\ Worth(bk, to)
<1>1. /\ to \in BookingRow /\ to.source = bk.source /\ to.status = bk.status
      /\ to.payment = "due" /\ to.total \in {0, bk.total} /\ to.earning = bk.earning
      /\ to.returned = bk.returned /\ to.unused = bk.unused /\ to.unusedDue = bk.unusedDue
      /\ to.chargeback = bk.chargeback /\ to.captured = bk.captured
  BY AttemptedIs
<1>2. to.total <= bk.total
  BY <1>1 DEF BookingRow
<1> QED
  BY <1>1, <1>2, LeftAlone

LEMMA ChargeRestEarns == ASSUME IInv, EInv, NEW b \in Bookings, ChargeRest(b) PROVE EInv'
<1> DEFINE due == booking[b].bill - booking[b].captured
<1>1. /\ due \in Int /\ booking[b] \in BookingRow /\ Priced(booking[b]) /\ referral' = referral
      /\ booking[b].status = "completed" /\ booking[b].source = "stripe"
  BY BookingIs DEF EInv, ChargeRest, Chargeable
<1>2. PICK to \in Attempted(booking[b], due) : booking' = [booking EXCEPT ![b] = to]
  BY DEF ChargeRest
<1> HIDE DEF due
<1>3. Priced(to) /\ Worth(booking[b], to)
  BY <1>1, AttemptedEarns
<1> QED
  BY <1>1, <1>2, <1>3, AloneEarns

LEMMA ChargeDiscountedEarns ==
  ASSUME IInv, EInv, NEW b \in Bookings, ChargeDiscounted(b) PROVE EInv'
<1>1. PICK d \in Discounts \union {0} :
        /\ ReserveCustomerDiscount(b, d)
        /\ \E bk \in Attempted([booking[b] EXCEPT !.discount = d], booking[b].bill - d) :
             booking' = [booking EXCEPT ![b] = bk]
  BY DEF ChargeDiscounted
<1> DEFINE old == booking[b]
           due == old.bill - d
           off == [old EXCEPT !.discount = d]
<1>2. /\ old \in BookingRow /\ Priced(old) /\ old.status = "completed" /\ old.source = "stripe"
      /\ d \in Nat /\ due \in Int
  BY BookingIs, AmountsAreNat DEF EInv, ChargeDiscounted, Chargeable
<1>3. /\ off \in BookingRow /\ off.earning = old.earning /\ off.returned = old.returned
      /\ off.chargeback = old.chargeback /\ off.captured = old.captured
      /\ off.unused = old.unused /\ off.unusedDue = old.unusedDue
      /\ off.payment = old.payment /\ off.bill = old.bill /\ off.total = old.total
      /\ off.intent = old.intent /\ off.status = old.status /\ off.source = old.source
  BY <1>2 DEF BookingRow
<1>4. PICK bk \in Attempted(off, due) : booking' = [booking EXCEPT ![b] = bk]
  BY <1>1
<1> HIDE DEF off, due
<1>5. off.total <= old.total
  BY <1>2, <1>3 DEF BookingRow
<1>6. Priced(off) /\ Worth(old, off)
  BY <1>2, <1>3, <1>5, LeftAlone
<1>7. Priced(bk) /\ Worth(old, bk)
  <2>1. Priced(bk) /\ Worth(off, bk)
    BY <1>2, <1>3, <1>6, AttemptedEarns
  <2> QED
    BY <1>6, <2>1 DEF Worth
<1>8. ASSUME NEW p \in Programs
      PROVE \/ referral'[p] = referral[p]
            \/ Backed(referral'[p], booking'[referral'[p].booking])
  <2> DEFINE ref == referral["customer"]
             w == ref.reward["discount"]
             v == [w EXCEPT !.status = "pending", !.booking = b, !.amount = d, !.matured = TRUE, !.wallet = 0]
             new == [ref EXCEPT !.reward["discount"] = v]
  <2>1. CASE referral' = referral
    BY <2>1
  <2>2. CASE p # "customer"
    BY <1>1, <2>2 DEF ReserveCustomerDiscount, IInv
  <2>3. CASE p = "customer" /\ ref.status = "claimed" /\ referral' = [referral EXCEPT !["customer"] = Expired(ref)]
    <3>1. Sound(ref) /\ Named(ref) /\ referral'[p] = Expired(ref)
      BY <2>3 DEF IInv, EInv, Backed
    <3> QED
      BY <2>3, <3>1, ExpiredBacked
  <2>4. CASE p = "customer" /\ ref.status = "claimed" /\ referral' = [referral EXCEPT !["customer"] = new]
    <3>1. ref \in ReferralRow /\ Named(ref) /\ referral'[p] = new
      BY <2>4 DEF IInv, EInv, Backed
    <3> HIDE DEF v
    <3>2. /\ new.status = ref.status /\ new.booking = ref.booking
          /\ \A k \in Bonuses : new.reward[k] = ref.reward[k]
      BY <3>1 DEF ReferralRow, Bonuses
    <3> HIDE DEF new
    <3> QED
      BY <2>4, <3>1, <3>2 DEF Backed, Named, Qualifies
  <2>5. \/ referral' = referral
        \/ Customer.status = "claimed" /\ referral' = [referral EXCEPT !["customer"] = Expired(@)]
        \/ /\ Customer.status = "claimed"
           /\ referral' = [referral EXCEPT !["customer"].reward["discount"] =
                [@ EXCEPT !.status = "pending", !.booking = b, !.amount = d, !.matured = TRUE, !.wallet = 0]]
    BY <1>1 DEF ReserveCustomerDiscount
  <2> QED
    BY <2>1, <2>2, <2>3, <2>4, <2>5 DEF Customer
<1> QED
  BY <1>4, <1>7, <1>8, OneEarns

-----------------------------------------------------------------------------
\* A booking that loses something: the referrals it qualified are revoked, or
\* what is left of it still backs them.
LEMMA ReturnsEarn ==
  ASSUME IInv, EInv, NEW b \in Bookings, NEW bk, booking' = [booking EXCEPT ![b] = bk],
         NEW ineligible \in BOOLEAN, RevokeWhere(b, ineligible), Priced(bk),
         Paid(booking[b]) => Paid(bk), Good(booking[b]) /\ ~ineligible => Good(bk)
  PROVE EInv'
<1>1. booking'[b] = bk /\ \A c \in Bookings \ {b} : booking'[c] = booking[c]
  BY DEF IInv
<1>2. ASSUME NEW p \in Programs
      PROVE Backed(referral'[p], booking'[referral'[p].booking])
  <2> DEFINE ref == referral[p]
  <2>1. Sound(ref) /\ Backed(ref, booking[ref.booking]) /\ Named(ref)
    BY DEF IInv, EInv, Backed
  <2>2. CASE referral'[p] = Revoked(ref)
    BY <2>1, <2>2, RevokedBacked
  <2>3. CASE referral'[p] = ref /\ ~Qualifies(ref)
    BY <2>1, <2>3 DEF Backed
  <2>4. CASE referral'[p] = ref /\ Qualifies(ref) /\ ref.booking # b
    BY <1>1, <2>1, <2>4 DEF Named
  <2>5. CASE referral'[p] = ref /\ Qualifies(ref) /\ ref.booking = b /\ ~ineligible
    BY <1>1, <2>1, <2>5 DEF Backed
  <2>6. referral'[p] = IF ineligible /\ ref.booking = b /\ Qualifies(ref) THEN Revoked(ref) ELSE ref
    BY DEF RevokeWhere, Qualifies
  <2> QED
    BY <2>2, <2>3, <2>4, <2>5, <2>6
<1>3. \A c \in Bookings : Priced(booking'[c])
  BY <1>1 DEF EInv
<1> QED
  BY <1>2, <1>3 DEF EInv

LEMMA RefundEarns == ASSUME IInv, EInv, NEW b \in Bookings, RefundSucceeded(b) PROVE EInv'
<1> DEFINE old == booking[b]
           returned == old.returned + old.returning
           payment == IF old.total > 0 /\ returned + old.unused >= old.total
                        THEN "refunded" ELSE "partially_refunded"
           bk == [old EXCEPT !.returning = 0, !.returned = returned, !.payment = payment]
<1>1. /\ old \in BookingRow /\ Priced(old) /\ returned \in Nat
      /\ payment \in SettledPayments /\ payment # "paid"
  BY BookingIs DEF EInv, BookingRow, SettledPayments
<1>2. booking' = [booking EXCEPT ![b] = bk] /\ RevokeWhere(b, ~StillEligible(bk))
  BY DEF RefundSucceeded
<1> HIDE DEF payment, returned
<1>3. bk \in BookingRow
  BY <1>1 DEF BookingRow
<1>4. /\ bk.earning = old.earning /\ bk.chargeback = old.chargeback /\ bk.captured = old.captured
      /\ bk.unused = old.unused /\ bk.unusedDue = old.unusedDue /\ bk.total = old.total
      /\ bk.intent = old.intent /\ bk.status = old.status /\ bk.source = old.source
      /\ bk.payment # "paid"
  BY <1>1 DEF BookingRow
<1> HIDE DEF bk
<1>5. Priced(bk) /\ (Paid(old) => Paid(bk))
  BY <1>1, <1>4 DEF Priced, Paid
<1>6. Good(old) /\ StillEligible(bk) => Good(bk)
  BY <1>3, <1>4, <1>5, EligibleIsGood DEF Good
<1>7. (~StillEligible(bk)) \in BOOLEAN
  OBVIOUS
<1> QED
  BY <1>2, <1>5, <1>6, <1>7, ReturnsEarn

\* A chargeback: the handler revokes, or it does not find the booking.
LEMMA ChargebackEarns ==
  ASSUME IInv, EInv, NEW b \in Bookings, NEW status \in {"none", "active", "lost"},
         ChargebackEvent(b, status)
  PROVE EInv'
<1> DEFINE old == booking[b]
           to(s) == [old EXCEPT !.chargeback = s]
<1>1. old \in BookingRow /\ Priced(old)
  BY BookingIs DEF EInv
<1>2. ASSUME NEW s \in {"none", "active", "lost", "missed"}
      PROVE /\ Priced(to(s)) /\ (Paid(old) => Paid(to(s)))
            /\ Good(old) /\ s # "lost" => Good(to(s))
  <2> DEFINE bk == to(s)
  <2>1. /\ bk.earning = old.earning /\ bk.returned = old.returned /\ bk.captured = old.captured
        /\ bk.unused = old.unused /\ bk.unusedDue = old.unusedDue /\ bk.total = old.total
        /\ bk.bill = old.bill /\ bk.payment = old.payment
        /\ bk.intent = old.intent /\ bk.status = old.status /\ bk.source = old.source
        /\ bk.chargeback = s
    BY <1>1 DEF BookingRow
  <2> HIDE DEF bk
  <2>2. Took(bk) = Took(old)
    BY <2>1 DEF Took
  <2>3. /\ Priced(bk) /\ (Paid(old) => Paid(bk))
        /\ Good(old) /\ s # "lost" => Good(bk)
    BY <1>1, <2>1, <2>2 DEF Priced, Paid, Good
  <2> QED
    BY <2>3 DEF bk
<1>3. CASE /\ booking' = [booking EXCEPT ![b] = to(status)]
           /\ RevokeWhere(b, status = "lost")
  <2>1. /\ Priced(to(status)) /\ (Paid(old) => Paid(to(status)))
        /\ Good(old) /\ ~(status = "lost") => Good(to(status))
    BY <1>2
  <2> HIDE DEF to
  <2> QED
    BY <1>3, <2>1, ReturnsEarn
<1>4. ASSUME NEW s \in {"none", "active", "lost", "missed"},
             booking' = [booking EXCEPT ![b] = to(s)], referral' = referral,
             s = "lost" => old.chargeback = "lost"
      PROVE EInv'
  <2>1. Priced(to(s)) /\ (Paid(old) => Paid(to(s)))
    BY <1>2
  <2>2. Good(old) => Good(to(s))
    BY <1>2, <1>4 DEF Good
  <2> HIDE DEF to
  <2>3. Worth(old, to(s))
    BY <2>1, <2>2 DEF Worth
  <2> QED
    BY <1>4, <2>1, <2>3, AloneEarns
<1>5. CASE /\ booking' = [booking EXCEPT ![b] =
                to(IF status # "lost" THEN status
                   ELSE IF old.chargeback = "lost" THEN "lost" ELSE "missed")]
           /\ referral' = referral
  <2> DEFINE s == IF status # "lost" THEN status
                  ELSE IF old.chargeback = "lost" THEN "lost" ELSE "missed"
  <2>1. s \in {"none", "active", "lost", "missed"} /\ (s = "lost" => old.chargeback = "lost")
    OBVIOUS
  <2>2. booking' = [booking EXCEPT ![b] = to(s)] /\ referral' = referral
    BY <1>5
  <2> HIDE DEF s, to
  <2> QED
    BY <1>4, <2>1, <2>2 DEF to
<1> QED
  BY <1>3, <1>5 DEF ChargebackEvent

\* What else happens to the row of a booking without a word to the referrals.
LEMMA DisturbedEarns ==
  ASSUME IInv, EInv, NEW b \in Bookings,
         UpdateBilling(b) \/ LateAnswer(b) \/ FileDispute(b) \/ CloseDispute(b)
           \/ IssueRefund(b) \/ RefundFailed(b)
  PROVE EInv'
<1> DEFINE old == booking[b]
<1>1. old \in BookingRow /\ Priced(old) /\ old.total \in Nat
  BY BookingIs DEF EInv, BookingRow
<1>2. PICK bk \in BookingRow :
        /\ booking' = [booking EXCEPT ![b] = bk]
        /\ bk.earning = old.earning /\ bk.returned = old.returned
        /\ bk.chargeback = old.chargeback /\ bk.captured = old.captured
        /\ bk.unused = old.unused /\ bk.unusedDue = old.unusedDue
        /\ \/ bk.payment # "paid"
           \/ bk.payment = old.payment /\ bk.bill = old.bill /\ bk.total = old.total
        /\ bk.total \in {0, old.total}
        /\ bk.intent = old.intent /\ bk.status = old.status /\ bk.source = old.source
  <2>1. CASE UpdateBilling(b)
    <3>1. PICK bill \in Bills : booking' = [booking EXCEPT ![b] = [old EXCEPT !.bill = bill]]
      BY <2>1 DEF UpdateBilling
    <3> DEFINE bk == [old EXCEPT !.bill = bill]
    <3>2. old.payment # "paid" /\ bill \in Nat
      BY <2>1, AmountsAreNat DEF UpdateBilling
    <3>3. /\ bk \in BookingRow /\ bk.earning = old.earning /\ bk.returned = old.returned
          /\ bk.chargeback = old.chargeback /\ bk.captured = old.captured
          /\ bk.unused = old.unused /\ bk.unusedDue = old.unusedDue
          /\ bk.payment = old.payment /\ bk.total = old.total
          /\ bk.intent = old.intent /\ bk.status = old.status /\ bk.source = old.source
      BY <1>1, <3>2 DEF BookingRow
    <3>4. booking' = [booking EXCEPT ![b] = bk]
      BY <3>1
    <3> HIDE DEF bk
    <3> QED
      BY <3>2, <3>3, <3>4
  <2>2. CASE LateAnswer(b)
    <3>1. PICK bk \in Answered(old) \union {[old EXCEPT !.payment = "due"]} :
            booking' = [booking EXCEPT ![b] = bk]
      BY <2>2 DEF LateAnswer
    <3>2. /\ bk \in BookingRow /\ bk.earning = old.earning /\ bk.returned = old.returned
          /\ bk.chargeback = old.chargeback /\ bk.captured = old.captured
          /\ bk.unused = old.unused /\ bk.unusedDue = old.unusedDue
          /\ bk.payment = "due" /\ bk.total \in {0, old.total}
          /\ bk.intent = old.intent /\ bk.status = old.status /\ bk.source = old.source
      BY <1>1, <3>1, AnsweredIs
    <3> QED
      BY <3>1, <3>2
  <2>3. CASE FileDispute(b) \/ CloseDispute(b)
    <3>1. PICK open \in BOOLEAN : booking' = [booking EXCEPT ![b] = [old EXCEPT !.disputed = open]]
      BY <2>3 DEF FileDispute, CloseDispute
    <3> DEFINE bk == [old EXCEPT !.disputed = open]
    <3>2. /\ bk \in BookingRow /\ bk.earning = old.earning /\ bk.returned = old.returned
          /\ bk.chargeback = old.chargeback /\ bk.captured = old.captured
          /\ bk.unused = old.unused /\ bk.unusedDue = old.unusedDue
          /\ bk.payment = old.payment /\ bk.bill = old.bill /\ bk.total = old.total
          /\ bk.intent = old.intent /\ bk.status = old.status /\ bk.source = old.source
      BY <1>1 DEF BookingRow
    <3>3. booking' = [booking EXCEPT ![b] = bk]
      BY <3>1
    <3> HIDE DEF bk
    <3> QED
      BY <3>2, <3>3
  <2>4. CASE IssueRefund(b) \/ RefundFailed(b)
    <3>1. PICK amount \in Nat : booking' = [booking EXCEPT ![b] = [old EXCEPT !.returning = amount]]
      BY <2>4, AmountsAreNat DEF IssueRefund, RefundFailed
    <3> DEFINE bk == [old EXCEPT !.returning = amount]
    <3>2. /\ bk \in BookingRow /\ bk.earning = old.earning /\ bk.returned = old.returned
          /\ bk.chargeback = old.chargeback /\ bk.captured = old.captured
          /\ bk.unused = old.unused /\ bk.unusedDue = old.unusedDue
          /\ bk.payment = old.payment /\ bk.bill = old.bill /\ bk.total = old.total
          /\ bk.intent = old.intent /\ bk.status = old.status /\ bk.source = old.source
      BY <1>1 DEF BookingRow
    <3>3. booking' = [booking EXCEPT ![b] = bk]
      BY <3>1
    <3> HIDE DEF bk
    <3> QED
      BY <3>2, <3>3
  <2> QED
    BY <2>1, <2>2, <2>3, <2>4
<1>3. bk.total <= old.total
  BY <1>1, <1>2
<1>4. bk.intent > 0 \/ bk.payment = "paid" => bk.status = "completed" /\ bk.source # "cash"
  BY <1>1, <1>2 DEF Priced
<1>5. Priced(bk) /\ Worth(old, bk)
  BY <1>1, <1>2, <1>3, <1>4, LeftAlone
<1>6. referral' = referral
  BY DEF UpdateBilling, LateAnswer, FileDispute, CloseDispute, IssueRefund, RefundFailed
<1> QED
  BY <1>2, <1>5, <1>6, AloneEarns

LEMMA DisturbanceEarns == ASSUME IInv, EInv, NEW b \in Bookings, Disturbance(b) PROVE EInv'
  BY DisturbedEarns, RefundEarns, ChargebackEarns DEF Disturbance

-----------------------------------------------------------------------------

LEMMA InitEarns == Init => EInv
<1> SUFFICES ASSUME Init PROVE EInv
  OBVIOUS
<1>1. ASSUME NEW b \in Bookings PROVE Priced(booking[b])
  <2>1. PICK s \in Online \union {"cash"} : booking[b] = NewBooking(s)
    BY DEF Init
  <2> QED
    BY <2>1, AmountsAssumption DEF NewBooking, NoEarning, Priced, Paid, Online
<1>2. ASSUME NEW p \in Programs PROVE Backed(referral[p], booking[referral[p].booking])
  <2>1. referral[p] = Unclaimed
    BY DEF Init
  <2> QED
    BY <2>1, BonusesAreKinds DEF Unclaimed, NoReward, Backed, Named, Qualifies
<1> QED
  BY <1>1, <1>2 DEF EInv

LEMMA NextEarns == IInv /\ EInv /\ [Next]_vars => EInv'
<1> SUFFICES ASSUME IInv, EInv, [Next]_vars PROVE EInv'
  OBVIOUS
<1>1. CASE UNCHANGED vars
  BY <1>1, NoneEarns DEF vars, EInv
<1>2. CASE Participants
  BY <1>2, ParticipantsEarn
<1>3. ASSUME NEW p \in Programs, Maintenance(p) PROVE EInv'
  BY <1>3, MaintenanceEarns
<1>4. ASSUME NEW b \in Bookings, Course(b) \/ Settlement(b) \/ Disturbance(b) PROVE EInv'
  <2>1. CASE Course(b)
    BY <2>1, CourseEarns
  <2>2. CASE Settlement(b)
    BY <2>2, CashEarns, SettleCapturedEarns, ReconcileEarns, SettleFromWalletEarns,
       ChargeRestEarns, ChargeDiscountedEarns, ChargeSucceededEarns DEF Settlement
  <2>3. CASE Disturbance(b)
    BY <2>3, DisturbanceEarns
  <2> QED
    BY <1>4, <2>1, <2>2, <2>3
<1> QED
  BY <1>1, <1>2, <1>3, <1>4, ProgramsAssumption DEF Next

\* releaseReward and qualifyPaidBooking put a bonus into a wallet only for a booking
\* with its earning, and handleBookingRefund and handleBookingChargeback take it
\* back as soon as what the settlement took less the refunds of disputes falls below
\* the minimum or a chargeback that found the booking is lost: for any bills and tips,
\* and whatever retries, unfinished and late answers, corrections of the charge, failed
\* refunds and runs of the worker do in between.
THEOREM BonusesAreEarned == Spec => []BonusIsEarned
<1>1. IInv /\ EInv => BonusIsEarned
  <2> SUFFICES ASSUME IInv, EInv, NEW p \in Programs, NEW k \in Bonuses,
                      referral[p].reward[k].credited > referral[p].reward[k].reversed
               PROVE  LET w == referral[p].reward[k]
                          bk == booking[w.booking]
                      IN /\ w.booking = referral[p].booking
                         /\ bk.earning.by # "none"
                         /\ Took(bk) - bk.returned >= Minimum
                         /\ bk.chargeback # "lost"
    BY DEF BonusIsEarned
  <2> DEFINE ref == referral[p]
             w == ref.reward[k]
  <2>1. Sound(ref) /\ Backed(ref, booking[ref.booking]) /\ w \in RewardRow /\ Ledger(w)
    BY BonusesAreKinds DEF IInv, EInv, Sound, ReferralRow
  <2>2. w.status = "settled"
    BY <2>1 DEF RewardRow, Ledger
  <2>3. w.booking = ref.booking /\ Qualifies(ref)
    BY <2>1, <2>2, BonusesAreKinds DEF Backed, Named, Sound
  <2>4. Good(booking[ref.booking])
    BY <2>1, <2>2, <2>3 DEF Backed
  <2> QED
    BY <2>3, <2>4 DEF Good, Paid
<1>2. Init => IInv /\ EInv
  BY InitInv, InitEarns
<1>3. IInv /\ EInv /\ [Next]_vars => (IInv /\ EInv)'
  BY NextInv, NextEarns
<1> QED
  BY <1>1, <1>2, <1>3, PTL DEF Spec
=============================================================================
