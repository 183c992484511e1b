------------------------- MODULE TaskerLedgerProofs -------------------------
(***************************************************************************)
(* Proofs about TaskerLedger: each receivable accounts for the commission  *)
(* of its booking, the payable is what can be collected, the pending       *)
(* balance what is not released or under way, and the books balance.       *)
(*                                                                         *)
(* The sums are cardinalities of sets of units, so that the library's      *)
(* theorems on finite sets say how a sum changes with one of its rows.     *)
(***************************************************************************)
EXTENDS TaskerLedger, FiniteSetTheorems, FunctionTheorems, TLAPS

\* What is owed, paid and reversed of a receivable adds up, what was
\* reimbursed had been paid, no more than the commission is owed and paid, or
\* reversed, and what is owed has a status that payments look for.
Balanced(r) ==
  /\ r.status # None => r.outstanding + r.settled + r.reversed = Payable + r.reimbursed
  /\ r.reimbursed <= r.settled
  /\ r.outstanding + r.settled <= Payable
  /\ r.reversed <= Payable
  /\ r.outstanding > 0 => r.status \in {"outstanding", "partially_settled", "partially_reversed"}

Statuses ==
  {"none", "outstanding", "partially_settled", "settled", "partially_reversed", "reversed"}

Row == [status : Statuses, at : Nat, outstanding : Nat, settled : Nat, reversed : Nat,
        reimbursed : Nat]

RefundRow == [status : {"none", "pending", "confirmed"}, booking : CashBookings \union {None}, amount : Nat]

\* A refund that is pending is about a booking that has its receivable.
Pending(r) ==
  refund[r].status = "pending" =>
    refund[r].booking \in CashBookings /\ receivable[refund[r].booking].status # None

IInv ==
  /\ receivable \in [CashBookings -> Row]
  /\ refund \in [CashRefunds -> RefundRow]
  /\ \A c \in CashBookings : Balanced(receivable[c])
  /\ \A r \in CashRefunds : Pending(r)

-----------------------------------------------------------------------------
(* Arithmetic. *)

LEMMA PayableIsNat == Payable \in Nat /\ Collected \in Nat /\ Collected > 0 /\ Limit \in Nat
  BY AmountsAssumption

LEMMA LeastIs ==
  ASSUME NEW m \in Nat, NEW n \in Nat
  PROVE Least(m, n) \in Nat /\ Least(m, n) <= m /\ Least(m, n) <= n /\ Least(m, n) \in {m, n}
  BY DEF Least

LEMMA ProductIsNat == ASSUME NEW m \in Nat, NEW n \in Nat PROVE m * n \in Nat
  OBVIOUS

LEMMA QuotientIsNat ==
  ASSUME NEW m \in Nat, NEW n \in Nat, n > 0 PROVE m \div n \in Nat
  OBVIOUS

LEMMA RoundedIsNat ==
  ASSUME NEW n \in Nat, NEW d \in Nat, d > 0 PROVE Rounded(n, d) \in Nat
<1>1. 2 * n + d \in Nat /\ 2 * d \in Nat /\ 2 * d > 0
  OBVIOUS
<1> QED
  BY <1>1, QuotientIsNat DEF Rounded

\* A payment that is no more than what is owed keeps a receivable in balance.
LEMMA SettledBalances ==
  ASSUME receivable \in [CashBookings -> Row], NEW c \in CashBookings, Balanced(receivable[c]),
         NEW portion \in Nat, portion <= receivable[c].outstanding,
         portion > 0 => receivable[c].status # None
  PROVE /\ Settled(c, portion) \in Row /\ Balanced(Settled(c, portion))
        /\ Settled(c, portion).status = None => receivable[c].status = None
<1> DEFINE r == receivable[c]
           paidOff == IF r.outstanding = portion THEN "settled" ELSE "partially_settled"
<1>1. r \in Row
  OBVIOUS
<1>2. CASE portion = 0
  BY <1>1, <1>2 DEF Settled
<1>3. CASE portion # 0
  <2>1. Settled(c, portion) =
          [status |-> paidOff, at |-> r.at, outstanding |-> r.outstanding - portion,
           settled |-> r.settled + portion, reversed |-> r.reversed, reimbursed |-> r.reimbursed]
    BY <1>1, <1>3 DEF Settled, Row
  <2>2. r.outstanding - portion \in Nat /\ r.settled + portion \in Nat
    BY <1>1 DEF Row
  <2> QED
    BY <1>1, <1>3, <2>1, <2>2, PayableIsNat DEF Row, Statuses, Balanced, None
<1> QED
  BY <1>2, <1>3
\* So does a payment that goes to the oldest receivables.
LEMMA PayDebtInv ==
  ASSUME IInv, NEW amount, PayDebt(amount), refund' = refund PROVE IInv'
<1>1. PICK paid \in FifoPayments(amount) : receivable' = [c \in CashBookings |-> Settled(c, paid[c])]
  BY DEF PayDebt
<1>2. ASSUME NEW c \in CashBookings
      PROVE /\ Settled(c, paid[c]) \in Row /\ Balanced(Settled(c, paid[c]))
            /\ Settled(c, paid[c]).status = None => receivable[c].status = None
  <2>1. /\ paid[c] \in Nat
        /\ paid[c] <= IF Collectible(c) THEN receivable[c].outstanding ELSE 0
    BY <1>1, PayableIsNat DEF FifoPayments
  <2>2. receivable[c] \in Row /\ receivable[c].outstanding \in Nat
    BY DEF IInv, Row
  <2>3. paid[c] <= receivable[c].outstanding /\ (paid[c] > 0 => receivable[c].status # None)
    BY <2>1, <2>2 DEF Collectible, None
  <2> QED
    BY <2>1, <2>3, SettledBalances DEF IInv
<1> QED
  BY <1>1, <1>2 DEF IInv, Pending

\* What leaves receivables and refunds alone.
LEMMA Elsewhere ==
  ASSUME IInv, receivable' = receivable, refund' = refund PROVE IInv'
  BY DEF IInv, Pending

LEMMA InitInv == Init => IInv
  BY PayableIsNat DEF Init, IInv, Row, Statuses, RefundRow, Balanced, Pending, NoReceivable, NoRefund, None

LEMMA ConfirmCashCollectionInv ==
  ASSUME IInv, NEW c \in CashBookings, ConfirmCashCollection(c) PROVE IInv'
<1> DEFINE at == Cardinality({d \in CashBookings : receivable[d].status # None}) + 1
           new == [NoReceivable EXCEPT !.status = "outstanding", !.outstanding = Payable, !.at = at]
<1>1. at \in Nat
  BY RowsAssumption, FS_Subset, FS_CardinalityType
<1>2. receivable' = [receivable EXCEPT ![c] = new]
  BY DEF ConfirmCashCollection
<1> HIDE DEF at
<1>3. new \in Row /\ Balanced(new) /\ new.status # None
  <2>1. NoReceivable \in Row
    BY DEF NoReceivable, Row, Statuses, None
  <2>2. new \in Row
    BY <1>1, <2>1, PayableIsNat DEF Row, Statuses
  <2>3. /\ new.status = "outstanding" /\ new.outstanding = Payable /\ new.settled = 0
        /\ new.reversed = 0 /\ new.reimbursed = 0
    BY DEF NoReceivable
  <2> QED
    BY <2>2, <2>3, PayableIsNat DEF Balanced, None
<1>4. refund' = refund
  BY DEF ConfirmCashCollection
<1> HIDE DEF new
<1> QED
  BY <1>2, <1>3, <1>4 DEF IInv, Pending

LEMMA GrantCashRefundInv ==
  ASSUME IInv, NEW r \in CashRefunds, NEW c \in CashBookings, GrantCashRefund(r, c) PROVE IInv'
<1>1. PICK amount \in 1 .. Collected - CashRefunded(c) :
        refund' = [refund EXCEPT ![r] = [status |-> "pending", booking |-> c, amount |-> amount]]
  BY DEF GrantCashRefund
<1>2. receivable' = receivable /\ receivable[c].status # None
  BY DEF GrantCashRefund
<1>3. amount \in Nat
  OBVIOUS
<1>4. [status |-> "pending", booking |-> c, amount |-> amount] \in RefundRow
  BY <1>3 DEF RefundRow
<1> QED
  BY <1>1, <1>2, <1>4 DEF IInv, Pending, RefundRow

LEMMA ConfirmCashRefundInv ==
  ASSUME IInv, NEW r \in CashRefunds, ConfirmCashRefund(r) PROVE IInv'
<1> DEFINE c == refund[r].booking
           row == receivable[c]
           reversal == Least(Rounded(refund[r].amount * Payable, Collected), Reversible(c))
           forgiven == Least(row.outstanding, reversal)
           new == [row EXCEPT !.outstanding = @ - forgiven, !.reversed = @ + reversal,
                     !.reimbursed = @ + (reversal - forgiven),
                     !.status = IF row.reversed + reversal >= Payable
                                THEN "reversed" ELSE "partially_reversed"]
<1>1. c \in CashBookings /\ row.status # None /\ row \in Row /\ Balanced(row)
  BY DEF ConfirmCashRefund, IInv, Pending
<1>2. refund[r].amount \in Nat
  BY DEF IInv, RefundRow
<1>3. Rounded(refund[r].amount * Payable, Collected) \in Nat
  BY <1>2, PayableIsNat, ProductIsNat, RoundedIsNat
<1>4. row.outstanding \in Nat /\ row.settled \in Nat /\ row.reversed \in Nat
        /\ row.reimbursed \in Nat /\ row.at \in Nat
  BY <1>1 DEF Row
<1>5. Reversible(c) \in Nat /\ Reversible(c) = Payable - row.reversed
  BY <1>1, <1>4, PayableIsNat DEF Reversible, Balanced
<1>6. reversal \in Nat /\ reversal <= Payable - row.reversed
  BY <1>3, <1>5, LeastIs
<1> HIDE DEF reversal
<1>7. forgiven \in Nat /\ forgiven <= row.outstanding /\ forgiven <= reversal
        /\ (forgiven = row.outstanding \/ forgiven = reversal)
  BY <1>4, <1>6, LeastIs
<1> HIDE DEF forgiven
<1>8. new \in Row /\ Balanced(new) /\ new.status # None
  <2>1. /\ row.outstanding - forgiven \in Nat /\ row.reversed + reversal \in Nat
        /\ row.reimbursed + (reversal - forgiven) \in Nat
    BY <1>4, <1>6, <1>7
  <2>2. new \in Row
    BY <1>1, <2>1 DEF Row, Statuses
  <2>3. /\ new.status = IF row.reversed + reversal >= Payable THEN "reversed" ELSE "partially_reversed"
        /\ new.settled = row.settled
        /\ new.outstanding = row.outstanding - forgiven /\ new.reversed = row.reversed + reversal
        /\ new.reimbursed = row.reimbursed + (reversal - forgiven)
    BY <1>1 DEF Row
  <2> HIDE DEF new
  <2>4. /\ new.outstanding + new.settled + new.reversed = Payable + new.reimbursed
        /\ new.reimbursed <= new.settled
        /\ new.outstanding + new.settled <= Payable
        /\ new.reversed <= Payable
    BY <1>1, <1>4, <1>6, <1>7, <2>3, PayableIsNat DEF Balanced, None
  <2>5. new.outstanding > 0 => new.status = "partially_reversed"
    <3>1. row.reversed + reversal >= Payable => new.outstanding <= 0
      BY <1>4, <1>6, <1>7, <2>3, <2>4, PayableIsNat
    <3> QED
      BY <1>4, <1>6, <1>7, <2>3, <3>1, PayableIsNat
  <2>6. new.status # "none"
    BY <2>3
  <2> QED
    BY <2>2, <2>4, <2>5, <2>6 DEF Balanced, None
<1>9. receivable' = receivable \/ receivable' = [receivable EXCEPT ![c] = new]
  <2>1. CASE reversal = 0
    BY <2>1 DEF ConfirmCashRefund, reversal
  <2>2. CASE reversal # 0
    <3>1. receivable' =
            IF reversal = 0 THEN receivable
            ELSE [receivable EXCEPT ![c].outstanding = @ - forgiven, ![c].reversed = @ + reversal,
                    ![c].reimbursed = @ + (reversal - forgiven),
                    ![c].status = IF receivable[c].reversed + reversal >= Payable
                                  THEN "reversed" ELSE "partially_reversed"]
      BY DEF ConfirmCashRefund, reversal, forgiven
    <3> QED
      BY <1>1, <2>2, <3>1 DEF IInv
  <2> QED
    BY <2>1, <2>2
<1>10. refund' = [refund EXCEPT ![r].status = "confirmed"]
  BY DEF ConfirmCashRefund
<1> HIDE DEF new
<1>11. receivable' \in [CashBookings -> Row] /\ \A d \in CashBookings : Balanced(receivable'[d])
  BY <1>1, <1>8, <1>9 DEF IInv
<1>12. refund' \in [CashRefunds -> RefundRow]
  BY <1>10 DEF IInv, RefundRow
<1>13. \A d \in CashBookings : receivable[d].status # None => receivable'[d].status # None
  BY <1>1, <1>8, <1>9 DEF IInv
<1>14. ASSUME NEW s \in CashRefunds PROVE Pending(s)'
  BY <1>10, <1>13 DEF IInv, Pending, RefundRow
<1> QED
  BY <1>11, <1>12, <1>14 DEF IInv
\* Every settlement pays the debt in the same way.
LEMMA PaymentsInv ==
  ASSUME IInv, NEW s \in Settlements,
         PayFromWallet(s) \/ HandleIntent(s) \/ AdminRecord(s) \/ Approve(s)
  PROVE IInv'
<1>2. CASE PayFromWallet(s)
  BY <1>2, PayDebtInv DEF PayFromWallet, ApplyPayableSettlement
<1>3. CASE HandleIntent(s)
  BY <1>3, PayDebtInv DEF HandleIntent, ApplyPayableSettlement
<1>4. CASE AdminRecord(s)
  BY <1>4, PayDebtInv DEF AdminRecord, ApplyPayableSettlement
<1>5. CASE Approve(s)
  BY <1>5, PayDebtInv DEF Approve, ApplyPayableSettlement
<1> QED
  BY <1>2, <1>3, <1>4, <1>5

LEMMA NextInv == ASSUME IInv, [Next]_vars PROVE IInv'
<1>1. CASE ReconcileCashRestrictions
  BY <1>1, Elsewhere DEF ReconcileCashRestrictions
<1>2. ASSUME NEW e \in Earnings, CreatePendingEarning(e) \/ ApplyRefundAdjustment(e) PROVE IInv'
  BY <1>2, Elsewhere DEF CreatePendingEarning, ApplyRefundAdjustment
<1>3. ASSUME NEW e \in Earnings, ReleaseMatureEarning(e) PROVE IInv'
  BY <1>3, PayDebtInv DEF ReleaseMatureEarning
<1>4. ASSUME NEW c \in CashBookings, ConfirmCashCollection(c) PROVE IInv'
  BY <1>4, ConfirmCashCollectionInv
<1>5. ASSUME NEW c \in CashBookings, NEW r \in CashRefunds, GrantCashRefund(r, c) PROVE IInv'
  BY <1>5, GrantCashRefundInv
<1>6. ASSUME NEW r \in CashRefunds, ConfirmCashRefund(r) PROVE IInv'
  BY <1>6, ConfirmCashRefundInv
<1>7. ASSUME NEW s \in Settlements,
             \/ CreateFromWallet(s) \/ CreateBankTransfer(s) \/ CreateByCard(s)
             \/ CreateIntent(s) \/ RecordIntent(s) \/ AbandonIntent(s) \/ PayByCard(s)
             \/ Cancel(s) \/ CancelAtStripe(s) \/ CancelHere(s) \/ CallInterrupted(s)
             \/ Reject(s)
      PROVE IInv'
  <2>1. receivable' = receivable /\ refund' = refund
    BY <1>7 DEF CreateFromWallet, CreateBankTransfer, CreateByCard, CreateIntent, RecordIntent,
      AbandonIntent, PayByCard, Cancel, CancelAtStripe, CancelHere, CallInterrupted, Reject
  <2> QED
    BY <2>1, Elsewhere
<1>8. ASSUME NEW s \in Settlements,
             PayFromWallet(s) \/ HandleIntent(s) \/ AdminRecord(s) \/ Approve(s)
      PROVE IInv'
  BY <1>8, PaymentsInv
<1>9. ASSUME NEW w \in Withdrawals,
             RequestWithdrawal(w) \/ ApprovePayout(w) \/ ReturnWithdrawal(w) \/ MarkPaid(w)
      PROVE IInv'
  BY <1>9, Elsewhere DEF RequestWithdrawal, ApprovePayout, ReturnWithdrawal, MarkPaid
<1>10. CASE UNCHANGED vars
  BY <1>10, Elsewhere DEF vars
<1> QED
  BY <1>1, <1>2, <1>3, <1>4, <1>5, <1>6, <1>7, <1>8, <1>9, <1>10 DEF Next

\* For any number of cash bookings, refunds, settlements and releases, in any
\* order and any amounts: the reversals of applyConfirmedCashRefundReceivable-
\* Reversal and the payments of applyPayableSettlement and releaseMatureEarning
\* leave every receivable balanced, and no refund gives back what was not paid.
THEOREM ReceivablesBalance == Spec => []ReceivableBalances
<1>1. IInv => ReceivableBalances
  BY DEF IInv, Balanced, ReceivableBalances
<1> QED
  BY <1>1, InitInv, NextInv, PTL DEF Spec

-----------------------------------------------------------------------------
(* Sums. *)

LEMMA DisjointUnion ==
  ASSUME NEW A, NEW B, IsFiniteSet(A), IsFiniteSet(B), A \intersect B = {}
  PROVE  Cardinality(A \union B) = Cardinality(A) + Cardinality(B)
<1>1. Cardinality(A \union B) = Cardinality(A) + Cardinality(B) - Cardinality({})
  BY FS_Union
<1>2. Cardinality(A) \in Nat /\ Cardinality(B) \in Nat
  BY FS_CardinalityType
<1> QED
  BY <1>1, <1>2, FS_EmptySet

\* The units of a function: as many of each argument as its value says.
LEMMA UnitsAre ==
  ASSUME NEW S, NEW f \in [S -> Nat]
  PROVE  \A u : u \in Units(f) <=> \E x \in S, n \in Nat : u = <<x, n>> /\ 1 <= n /\ n <= f[x]
BY DEF Units

LEMMA ColumnIs ==
  ASSUME NEW x, NEW n \in Nat
  PROVE  IsFiniteSet({x} \X (1 .. n)) /\ Cardinality({x} \X (1 .. n)) = n
<1>1. IsFiniteSet({x}) /\ Cardinality({x}) = 1
  BY FS_Singleton
<1>2. IsFiniteSet(1 .. n) /\ Cardinality(1 .. n) = n
  BY FS_Interval
<1>3. /\ IsFiniteSet({x} \X (1 .. n))
      /\ Cardinality({x} \X (1 .. n)) = Cardinality({x}) * Cardinality(1 .. n)
  BY <1>1, <1>2, FS_Product
<1> QED
  BY <1>1, <1>2, <1>3

\* A sum over finitely many rows is a number.
LEMMA SumType ==
  ASSUME NEW S, IsFiniteSet(S), NEW f \in [S -> Nat]
  PROVE  IsFiniteSet(Units(f)) /\ Sum(f) \in Nat
<1> DEFINE columns == {{x} \X (1 .. f[x]) : x \in S}
           g == [x \in S |-> {x} \X (1 .. f[x])]
<1>1. g \in Surjection(S, columns)
  BY DEF Surjection
<1>2. IsFiniteSet(columns)
  BY <1>1, FS_Surjection
<1>3. ASSUME NEW T \in columns PROVE IsFiniteSet(T)
  <2>1. PICK x \in S : T = {x} \X (1 .. f[x])
    OBVIOUS
  <2>2. f[x] \in Nat
    OBVIOUS
  <2> QED
    BY <2>1, <2>2, ColumnIs
<1>4. Units(f) = UNION columns
  BY DEF Units
<1>5. IsFiniteSet(Units(f))
  BY <1>2, <1>3, <1>4, FS_UNION
<1> QED
  BY <1>5, FS_CardinalityType DEF Sum

\* When one row changes, the sum changes by as much.
LEMMA SumChange ==
  ASSUME NEW S, IsFiniteSet(S), NEW f \in [S -> Nat], NEW g \in [S -> Nat], NEW x \in S,
         \A y \in S \ {x} : g[y] = f[y]
  PROVE  Sum(g) = Sum(f) - f[x] + g[x]
<1> DEFINE rest == Units(f) \ ({x} \X Nat)
           old == {x} \X (1 .. f[x])
           new == {x} \X (1 .. g[x])
<1>1. Units(f) = rest \union old /\ rest \intersect old = {}
  BY UnitsAre
<1>2. Units(g) = rest \union new /\ rest \intersect new = {}
  BY UnitsAre
<1>3. IsFiniteSet(rest) /\ Cardinality(rest) \in Nat
  BY SumType, FS_Difference, FS_CardinalityType
<1>4. IsFiniteSet(old) /\ Cardinality(old) = f[x] /\ IsFiniteSet(new) /\ Cardinality(new) = g[x]
  BY ColumnIs
<1> HIDE DEF rest, old, new
<1>6. Sum(f) = Cardinality(rest) + f[x]
  BY <1>1, <1>3, <1>4, DisjointUnion DEF Sum
<1>7. Sum(g) = Cardinality(rest) + g[x]
  BY <1>2, <1>3, <1>4, DisjointUnion DEF Sum
<1> QED
  BY <1>3, <1>6, <1>7

\* Row by row, what is paid of what is owed leaves the sum less what is paid.
LEMMA SumSplit ==
  ASSUME NEW S, IsFiniteSet(S), NEW f \in [S -> Nat], NEW g \in [S -> Nat], NEW h \in [S -> Nat],
         \A x \in S : f[x] = g[x] + h[x]
  PROVE  Sum(f) = Sum(g) + Sum(h)
<1> DEFINE rest == Units(f) \ Units(g)
           up == [u \in Units(h) |-> <<u[1], u[2] + g[u[1]]>>]
<1>1. Units(f) = Units(g) \union rest /\ Units(g) \intersect rest = {}
  BY UnitsAre
<1>2. up \in Bijection(Units(h), rest)
  <2>1. ASSUME NEW u \in Units(h) PROVE up[u] \in rest
    BY UnitsAre
  <2>2. ASSUME NEW u \in Units(h), NEW v \in Units(h), up[u] = up[v] PROVE u = v
    BY <2>2, UnitsAre
  <2>3. ASSUME NEW v \in rest PROVE \E u \in Units(h) : up[u] = v
    <3>1. PICK x \in S, n \in Nat : v = <<x, n>> /\ 1 <= n /\ n <= f[x]
      BY UnitsAre
    <3>2. n > g[x]
      BY <3>1, UnitsAre
    <3>3. <<x, n - g[x]>> \in Units(h)
      BY <3>1, <3>2, UnitsAre
    <3> QED
      BY <3>1, <3>3
  <2>4. up \in [Units(h) -> rest]
    BY <2>1
  <2> HIDE DEF rest, up
  <2> QED
    BY <2>2, <2>3, <2>4, Fun_IsBij
<1>3. IsFiniteSet(Units(g)) /\ IsFiniteSet(Units(h)) /\ Sum(g) \in Nat /\ Sum(h) \in Nat
  BY SumType
<1>4. IsFiniteSet(rest) /\ Cardinality(rest) = Sum(h)
  BY <1>2, <1>3, FS_Bijection DEF Sum, ExistsBijection
<1> HIDE DEF rest
<1> QED
  BY <1>1, <1>3, <1>4, DisjointUnion DEF Sum

LEMMA SumZero ==
  ASSUME NEW S, NEW f \in [S -> Nat], \A x \in S : f[x] = 0
  PROVE  Sum(f) = 0
<1>1. Units(f) = {}
  BY UnitsAre
<1> QED
  BY <1>1, FS_EmptySet DEF Sum

\* A sum over some rows is the sum over all, with nothing for the others.
LEMMA SumWhere ==
  ASSUME NEW S, NEW T, T \subseteq S, NEW f \in [S -> Nat], NEW g \in [T -> Nat],
         \A x \in S : f[x] = IF x \in T THEN g[x] ELSE 0
  PROVE  Sum(g) = Sum(f)
<1>1. ASSUME NEW u PROVE u \in Units(g) <=> u \in Units(f)
  <2>1. u \in Units(g) <=> \E x \in T, n \in Nat : u = <<x, n>> /\ 1 <= n /\ n <= g[x]
    BY UnitsAre
  <2>2. u \in Units(f) <=> \E x \in S, n \in Nat : u = <<x, n>> /\ 1 <= n /\ n <= f[x]
    BY UnitsAre
  <2> QED
    BY <2>1, <2>2
<1>2. Units(g) = Units(f)
  BY <1>1
<1> QED
  BY <1>2 DEF Sum
-----------------------------------------------------------------------------
(* The other rows, and the balances as sums over all rows. *)

EarningRow == [status : {"none", "pending", "partially_reversed", "reversed", "available"},
               reversed : 0 .. Net, released : BOOLEAN]

WithdrawalRow ==
  [status : {"none", "pending_review", "processing", "cancelled", "rejected", "failed", "paid"},
   amount : Nat]

SettlementRow ==
  [status : {"none", "pending_payment", "pending_review", "completed", "cancelled", "rejected"},
   method : {"none", "wallet", "stripe", "bank_transfer", "offline"}, amount : Nat,
   reference : BOOLEAN]

Cards == {"none", "open", "succeeded", "canceled"}
CallStates == {"idle", "wallet", "create", "record", "abandon", "cancel"}

\* An earning that is not recorded has nothing to release or to reverse.
EarningRows ==
  /\ earning \in [Earnings -> EarningRow]
  /\ \A e \in Earnings :
       earning[e].status = None => earning[e].reversed = 0 /\ ~earning[e].released

\* A settlement (its row r, card d and call k) is paid by the card, the transfer
\* or the wallet it was created for; while its intent is being made it cannot
\* have been paid, nor before a wallet's request is decided.
Known(r, d, k) ==
  /\ r.status = None => ~r.reference /\ d = None
  /\ r.status = "pending_review" => r.method = "bank_transfer"
  /\ d # None \/ r.reference => r.method = "stripe"
  /\ k = "wallet" => r.status = None
  /\ k \in {"create", "record", "abandon"} =>
       /\ r.method = "stripe" /\ ~r.reference
       /\ r.status \in {"pending_payment", "cancelled"}
       /\ d # "succeeded"

SettlementRows ==
  /\ settlement \in [Settlements -> SettlementRow]
  /\ card \in [Settlements -> Cards]
  /\ call \in [Settlements -> CallStates]
  /\ \A s \in Settlements : Known(settlement[s], card[s], call[s])

WithdrawalRows == withdrawal \in [Withdrawals -> WithdrawalRow]

Rows ==
  /\ wallet \in [available : Int, pending : Int]
  /\ account \in [payable : Int, restricted : BOOLEAN]
  /\ EarningRows /\ SettlementRows /\ WithdrawalRows

\* What each row stands for in the balances.
Held(r) == IF r.status = None \/ r.released THEN 0 ELSE Net - r.reversed
Earned(r) == IF r.status = None THEN 0 ELSE Net - r.reversed
Commission(r) == IF r.status = None THEN 0 ELSE Payable - r.reversed
Received(r) == IF r.status = "completed" /\ r.method # "wallet" THEN r.amount ELSE 0
Requested(r) == IF r.status \in {"pending_review", "processing"} THEN r.amount ELSE 0
Spent(r) == IF r.status = "paid" THEN r.amount ELSE 0

AllOwed == Sum([c \in CashBookings |-> receivable[c].outstanding])
AllCommission == Sum([c \in CashBookings |-> Commission(receivable[c])])
AllHeld == Sum([e \in Earnings |-> Held(earning[e])])
AllEarned == Sum([e \in Earnings |-> Earned(earning[e])])
AllReceived == Sum([s \in Settlements |-> Received(settlement[s])])
AllRequested == Sum([w \in Withdrawals |-> Requested(withdrawal[w])])
AllSpent == Sum([w \in Withdrawals |-> Spent(withdrawal[w])])

\* The three balances by rows.
Ledger ==
  /\ account.payable = AllOwed
  /\ wallet.pending = AllHeld + AllRequested
  /\ wallet.available + wallet.pending - account.payable =
       AllEarned - AllCommission + AllReceived - AllSpent

LEMMA NetIsNat == Net \in Nat
  BY AmountsAssumption

LEMMA EarningValue ==
  ASSUME NEW r \in EarningRow PROVE Held(r) \in Nat /\ Earned(r) \in Nat
  BY NetIsNat DEF EarningRow, Held, Earned

LEMMA ReceivableValue ==
  ASSUME NEW r \in Row, Balanced(r) PROVE r.outstanding \in Nat /\ Commission(r) \in Nat
  BY PayableIsNat DEF Row, Balanced, Commission

LEMMA SettlementValue == ASSUME NEW r \in SettlementRow PROVE Received(r) \in Nat
  BY DEF SettlementRow, Received

LEMMA WithdrawalValue ==
  ASSUME NEW r \in WithdrawalRow PROVE Requested(r) \in Nat /\ Spent(r) \in Nat
  BY DEF WithdrawalRow, Requested, Spent

LEMMA EarningChanges ==
  ASSUME earning \in [Earnings -> EarningRow], earning' \in [Earnings -> EarningRow],
         NEW e \in Earnings, \A d \in Earnings \ {e} : earning'[d] = earning[d]
  PROVE  /\ AllHeld' = AllHeld - Held(earning[e]) + Held(earning'[e])
         /\ AllEarned' = AllEarned - Earned(earning[e]) + Earned(earning'[e])
<1> DEFINE held == [d \in Earnings |-> Held(earning[d])]
           heldNext == [d \in Earnings |-> Held(earning'[d])]
           earned == [d \in Earnings |-> Earned(earning[d])]
           earnedNext == [d \in Earnings |-> Earned(earning'[d])]
<1>1. /\ held \in [Earnings -> Nat] /\ heldNext \in [Earnings -> Nat]
      /\ earned \in [Earnings -> Nat] /\ earnedNext \in [Earnings -> Nat]
  BY EarningValue
<1>2. /\ \A d \in Earnings \ {e} : heldNext[d] = held[d] /\ earnedNext[d] = earned[d]
      /\ held[e] = Held(earning[e]) /\ heldNext[e] = Held(earning'[e])
      /\ earned[e] = Earned(earning[e]) /\ earnedNext[e] = Earned(earning'[e])
  OBVIOUS
<1>3. /\ AllHeld = Sum(held) /\ AllHeld' = Sum(heldNext)
      /\ AllEarned = Sum(earned) /\ AllEarned' = Sum(earnedNext)
  BY DEF AllHeld, AllEarned
<1> HIDE DEF held, heldNext, earned, earnedNext
<1>4. Sum(heldNext) = Sum(held) - held[e] + heldNext[e]
  BY <1>1, <1>2, SumChange, RowsAssumption
<1>5. Sum(earnedNext) = Sum(earned) - earned[e] + earnedNext[e]
  BY <1>1, <1>2, SumChange, RowsAssumption
<1> QED
  BY <1>2, <1>3, <1>4, <1>5

LEMMA WithdrawalChanges ==
  ASSUME withdrawal \in [Withdrawals -> WithdrawalRow],
         withdrawal' \in [Withdrawals -> WithdrawalRow],
         NEW w \in Withdrawals, \A v \in Withdrawals \ {w} : withdrawal'[v] = withdrawal[v]
  PROVE  /\ AllRequested' = AllRequested - Requested(withdrawal[w]) + Requested(withdrawal'[w])
         /\ AllSpent' = AllSpent - Spent(withdrawal[w]) + Spent(withdrawal'[w])
<1> DEFINE requested == [v \in Withdrawals |-> Requested(withdrawal[v])]
           requestedNext == [v \in Withdrawals |-> Requested(withdrawal'[v])]
           spent == [v \in Withdrawals |-> Spent(withdrawal[v])]
           spentNext == [v \in Withdrawals |-> Spent(withdrawal'[v])]
<1>1. /\ requested \in [Withdrawals -> Nat] /\ requestedNext \in [Withdrawals -> Nat]
      /\ spent \in [Withdrawals -> Nat] /\ spentNext \in [Withdrawals -> Nat]
  BY WithdrawalValue
<1>2. /\ \A v \in Withdrawals \ {w} : requestedNext[v] = requested[v] /\ spentNext[v] = spent[v]
      /\ requested[w] = Requested(withdrawal[w]) /\ requestedNext[w] = Requested(withdrawal'[w])
      /\ spent[w] = Spent(withdrawal[w]) /\ spentNext[w] = Spent(withdrawal'[w])
  OBVIOUS
<1>3. /\ AllRequested = Sum(requested) /\ AllRequested' = Sum(requestedNext)
      /\ AllSpent = Sum(spent) /\ AllSpent' = Sum(spentNext)
  BY DEF AllRequested, AllSpent
<1> HIDE DEF requested, requestedNext, spent, spentNext
<1>4. Sum(requestedNext) = Sum(requested) - requested[w] + requestedNext[w]
  BY <1>1, <1>2, SumChange, RowsAssumption
<1>5. Sum(spentNext) = Sum(spent) - spent[w] + spentNext[w]
  BY <1>1, <1>2, SumChange, RowsAssumption
<1> QED
  BY <1>2, <1>3, <1>4, <1>5

LEMMA SettlementChanges ==
  ASSUME settlement \in [Settlements -> SettlementRow],
         settlement' \in [Settlements -> SettlementRow],
         NEW s \in Settlements, \A t \in Settlements \ {s} : settlement'[t] = settlement[t]
  PROVE  AllReceived' = AllReceived - Received(settlement[s]) + Received(settlement'[s])
<1> DEFINE received == [t \in Settlements |-> Received(settlement[t])]
           receivedNext == [t \in Settlements |-> Received(settlement'[t])]
<1>1. received \in [Settlements -> Nat] /\ receivedNext \in [Settlements -> Nat]
  BY SettlementValue
<1>2. /\ \A t \in Settlements \ {s} : receivedNext[t] = received[t]
      /\ received[s] = Received(settlement[s]) /\ receivedNext[s] = Received(settlement'[s])
  OBVIOUS
<1>3. AllReceived = Sum(received) /\ AllReceived' = Sum(receivedNext)
  BY DEF AllReceived
<1> HIDE DEF received, receivedNext
<1>4. Sum(receivedNext) = Sum(received) - received[s] + receivedNext[s]
  BY <1>1, <1>2, SumChange, RowsAssumption
<1> QED
  BY <1>2, <1>3, <1>4

LEMMA ReceivableChanges ==
  ASSUME IInv, IInv', NEW c \in CashBookings,
         \A b \in CashBookings \ {c} : receivable'[b] = receivable[b]
  PROVE  /\ AllOwed' = AllOwed - receivable[c].outstanding + receivable'[c].outstanding
         /\ AllCommission' = AllCommission - Commission(receivable[c]) + Commission(receivable'[c])
<1> DEFINE owed == [b \in CashBookings |-> receivable[b].outstanding]
           owedNext == [b \in CashBookings |-> receivable'[b].outstanding]
           commission == [b \in CashBookings |-> Commission(receivable[b])]
           commissionNext == [b \in CashBookings |-> Commission(receivable'[b])]
<1>1. /\ owed \in [CashBookings -> Nat] /\ owedNext \in [CashBookings -> Nat]
      /\ commission \in [CashBookings -> Nat] /\ commissionNext \in [CashBookings -> Nat]
  BY ReceivableValue DEF IInv
<1>2. /\ \A b \in CashBookings \ {c} : owedNext[b] = owed[b] /\ commissionNext[b] = commission[b]
      /\ owed[c] = receivable[c].outstanding /\ owedNext[c] = receivable'[c].outstanding
      /\ commission[c] = Commission(receivable[c])
      /\ commissionNext[c] = Commission(receivable'[c])
  OBVIOUS
<1>3. /\ AllOwed = Sum(owed) /\ AllOwed' = Sum(owedNext)
      /\ AllCommission = Sum(commission) /\ AllCommission' = Sum(commissionNext)
  BY DEF AllOwed, AllCommission
<1> HIDE DEF owed, owedNext, commission, commissionNext
<1>4. Sum(owedNext) = Sum(owed) - owed[c] + owedNext[c]
  BY <1>1, <1>2, SumChange, RowsAssumption
<1>5. Sum(commissionNext) = Sum(commission) - commission[c] + commissionNext[c]
  BY <1>1, <1>2, SumChange, RowsAssumption
<1> QED
  BY <1>2, <1>3, <1>4, <1>5

LEMMA TotalsAreNat ==
  ASSUME IInv, Rows
  PROVE  /\ AllOwed \in Nat /\ AllCommission \in Nat /\ AllHeld \in Nat /\ AllEarned \in Nat
         /\ AllReceived \in Nat /\ AllRequested \in Nat /\ AllSpent \in Nat
<1> DEFINE owed == [b \in CashBookings |-> receivable[b].outstanding]
           commission == [b \in CashBookings |-> Commission(receivable[b])]
           held == [d \in Earnings |-> Held(earning[d])]
           earned == [d \in Earnings |-> Earned(earning[d])]
           received == [t \in Settlements |-> Received(settlement[t])]
           requested == [v \in Withdrawals |-> Requested(withdrawal[v])]
           spent == [v \in Withdrawals |-> Spent(withdrawal[v])]
<1>1. owed \in [CashBookings -> Nat] /\ commission \in [CashBookings -> Nat]
  BY ReceivableValue DEF IInv
<1>2. held \in [Earnings -> Nat] /\ earned \in [Earnings -> Nat]
  BY EarningValue DEF Rows, EarningRows
<1>3. received \in [Settlements -> Nat]
  BY SettlementValue DEF Rows, SettlementRows
<1>4. requested \in [Withdrawals -> Nat] /\ spent \in [Withdrawals -> Nat]
  BY WithdrawalValue DEF Rows, WithdrawalRows
<1>5. /\ AllOwed = Sum(owed) /\ AllCommission = Sum(commission)
      /\ AllHeld = Sum(held) /\ AllEarned = Sum(earned) /\ AllReceived = Sum(received)
      /\ AllRequested = Sum(requested) /\ AllSpent = Sum(spent)
  BY DEF AllOwed, AllCommission, AllHeld, AllEarned, AllReceived, AllRequested, AllSpent
<1> HIDE DEF owed, commission, held, earned, received, requested, spent
<1> QED
  BY <1>1, <1>2, <1>3, <1>4, <1>5, SumType, RowsAssumption

LEMMA InitLedger == Init => Rows /\ Ledger
<1> SUFFICES ASSUME Init PROVE Rows /\ Ledger
  OBVIOUS
<1>1. Rows
  <2>1. NoEarning \in EarningRow /\ NoEarning.reversed = 0 /\ ~NoEarning.released
    BY NetIsNat DEF NoEarning, EarningRow, None
  <2>2. NoSettlement \in SettlementRow /\ Known(NoSettlement, None, "idle")
    BY DEF NoSettlement, SettlementRow, Known, None
  <2>3. NoWithdrawal \in WithdrawalRow
    BY DEF NoWithdrawal, WithdrawalRow, None
  <2>4. None \in Cards /\ "idle" \in CallStates
    BY DEF Cards, CallStates, None
  <2> QED
    BY <2>1, <2>2, <2>3, <2>4 DEF Init, Rows, EarningRows, SettlementRows, WithdrawalRows
<1>2. AllOwed = 0 /\ AllCommission = 0
  <2> DEFINE owed == [c \in CashBookings |-> receivable[c].outstanding]
             commission == [c \in CashBookings |-> Commission(receivable[c])]
  <2>1. \A c \in CashBookings : receivable[c].outstanding = 0 /\ receivable[c].status = None
    BY DEF Init, NoReceivable
  <2>2. /\ owed \in [CashBookings -> Nat] /\ commission \in [CashBookings -> Nat]
        /\ \A c \in CashBookings : owed[c] = 0 /\ commission[c] = 0
    BY <2>1 DEF Commission
  <2>3. AllOwed = Sum(owed) /\ AllCommission = Sum(commission)
    BY DEF AllOwed, AllCommission
  <2> HIDE DEF owed, commission
  <2> QED
    BY <2>2, <2>3, SumZero
<1>3. AllHeld = 0 /\ AllEarned = 0
  <2> DEFINE held == [e \in Earnings |-> Held(earning[e])]
             earned == [e \in Earnings |-> Earned(earning[e])]
  <2>1. \A e \in Earnings : earning[e].status = None
    BY DEF Init, NoEarning
  <2>2. /\ held \in [Earnings -> Nat] /\ earned \in [Earnings -> Nat]
        /\ \A e \in Earnings : held[e] = 0 /\ earned[e] = 0
    BY <2>1 DEF Held, Earned
  <2>3. AllHeld = Sum(held) /\ AllEarned = Sum(earned)
    BY DEF AllHeld, AllEarned
  <2> HIDE DEF held, earned
  <2> QED
    BY <2>2, <2>3, SumZero
<1>4. AllReceived = 0
  <2> DEFINE received == [t \in Settlements |-> Received(settlement[t])]
  <2>1. \A t \in Settlements : settlement[t].status = None
    BY DEF Init, NoSettlement
  <2>2. received \in [Settlements -> Nat] /\ \A t \in Settlements : received[t] = 0
    BY <2>1 DEF Received, None
  <2>3. AllReceived = Sum(received)
    BY DEF AllReceived
  <2> HIDE DEF received
  <2> QED
    BY <2>2, <2>3, SumZero
<1>5. AllRequested = 0 /\ AllSpent = 0
  <2> DEFINE requested == [v \in Withdrawals |-> Requested(withdrawal[v])]
             spent == [v \in Withdrawals |-> Spent(withdrawal[v])]
  <2>1. \A v \in Withdrawals : withdrawal[v].status = None
    BY DEF Init, NoWithdrawal
  <2>2. /\ requested \in [Withdrawals -> Nat] /\ spent \in [Withdrawals -> Nat]
        /\ \A v \in Withdrawals : requested[v] = 0 /\ spent[v] = 0
    BY <2>1 DEF Requested, Spent, None
  <2>3. AllRequested = Sum(requested) /\ AllSpent = Sum(spent)
    BY DEF AllRequested, AllSpent
  <2> HIDE DEF requested, spent
  <2> QED
    BY <2>2, <2>3, SumZero
<1>6. wallet.available = 0 /\ wallet.pending = 0 /\ account.payable = 0
  BY DEF Init
<1> QED
  BY <1>1, <1>2, <1>3, <1>4, <1>5, <1>6 DEF Ledger

LEMMA PayDebtLedger ==
  ASSUME IInv, IInv', NEW amount, PayDebt(amount)
  PROVE  /\ amount \in Nat /\ AllOwed' = AllOwed - amount /\ AllCommission' = AllCommission
         /\ account' = Account(account.payable - amount)
<1>1. PICK paid \in FifoPayments(amount) : receivable' = [c \in CashBookings |-> Settled(c, paid[c])]
  BY DEF PayDebt
<1>2. /\ paid \in [CashBookings -> Nat] /\ Sum(paid) = amount
      /\ \A c \in CashBookings :
           paid[c] <= IF Collectible(c) THEN receivable[c].outstanding ELSE 0
  BY <1>1, PayableIsNat DEF FifoPayments
<1>3. ASSUME NEW c \in CashBookings
      PROVE /\ receivable[c].outstanding = receivable'[c].outstanding + paid[c]
            /\ Commission(receivable'[c]) = Commission(receivable[c])
  <2>1. receivable'[c] = Settled(c, paid[c]) /\ receivable[c] \in Row /\ receivable[c].outstanding \in Nat
    BY <1>1 DEF IInv, Row
  <2>2. CASE paid[c] = 0
    BY <2>1, <2>2 DEF Settled
  <2>3. CASE paid[c] # 0
    <3>1. receivable[c].status # None
      BY <1>2, <2>1, <2>3 DEF Collectible, None
    <3>2. /\ receivable'[c].outstanding = receivable[c].outstanding - paid[c]
          /\ receivable'[c].reversed = receivable[c].reversed
          /\ receivable'[c].status \in {"settled", "partially_settled"}
      BY <2>1, <2>3 DEF Settled, Row
    <3> QED
      BY <1>2, <2>1, <3>1, <3>2 DEF Commission, None
  <2> QED
    BY <2>2, <2>3
<1> DEFINE owed == [b \in CashBookings |-> receivable[b].outstanding]
           owedNext == [b \in CashBookings |-> receivable'[b].outstanding]
<1>4. /\ owed \in [CashBookings -> Nat] /\ owedNext \in [CashBookings -> Nat]
      /\ \A c \in CashBookings : owed[c] = owedNext[c] + paid[c]
  BY <1>3, ReceivableValue DEF IInv
<1>5. AllOwed = Sum(owed) /\ AllOwed' = Sum(owedNext)
  BY DEF AllOwed
<1>6. AllCommission' = AllCommission
  BY <1>3 DEF AllCommission
<1> HIDE DEF owed, owedNext
<1>7. Sum(owed) = Sum(owedNext) + Sum(paid) /\ Sum(owedNext) \in Nat /\ Sum(paid) \in Nat
  BY <1>2, <1>4, SumSplit, SumType, RowsAssumption
<1> QED
  BY <1>2, <1>5, <1>6, <1>7 DEF PayDebt

-----------------------------------------------------------------------------
(* Each step keeps the rows and the balances. *)

Books == IInv /\ Rows /\ Ledger

LEMMA BalancesAre ==
  ASSUME Books
  PROVE  /\ wallet.available \in Int /\ wallet.pending \in Int /\ account.payable \in Nat
         /\ wallet = [available |-> wallet.available, pending |-> wallet.pending]
         /\ account = [payable |-> account.payable, restricted |-> account.restricted]
         /\ account.restricted \in BOOLEAN
  BY TotalsAreNat DEF Books, Rows, Ledger

LEMMA AccountType == ASSUME NEW payable \in Int
                     PROVE  /\ Account(payable) \in [payable : Int, restricted : BOOLEAN]
                            /\ Account(payable).payable = payable
  BY PayableIsNat DEF Account

LEMMA CreatePendingEarningLedger ==
  ASSUME Books, NEW e \in Earnings, CreatePendingEarning(e) PROVE Rows' /\ Ledger'
<1>1. /\ earning[e] \in EarningRow /\ earning[e].status = None /\ earning[e].reversed = 0
      /\ ~earning[e].released
  BY DEF Books, Rows, EarningRows, CreatePendingEarning
<1>2. PICK new : new = [earning[e] EXCEPT !.status = "pending"]
  OBVIOUS
<1>3. /\ new \in EarningRow /\ new.status = "pending" /\ new.reversed = 0 /\ ~new.released
  BY <1>1, <1>2 DEF EarningRow
<1>4. earning' = [earning EXCEPT ![e] = new]
  BY <1>2 DEF CreatePendingEarning, Books, Rows, EarningRows
<1>5. EarningRows' /\ earning'[e] = new /\ \A d \in Earnings \ {e} : earning'[d] = earning[d]
  BY <1>3, <1>4 DEF Books, Rows, EarningRows, None
<1>6. AllHeld' = AllHeld + Net /\ AllEarned' = AllEarned + Net
  <2>1. /\ Held(earning[e]) = 0 /\ Earned(earning[e]) = 0
        /\ Held(new) = Net /\ Earned(new) = Net
    BY <1>1, <1>3, NetIsNat DEF Held, Earned, None
  <2>2. AllHeld \in Nat /\ AllEarned \in Nat
    BY TotalsAreNat DEF Books
  <2> QED
    BY <1>5, <2>1, <2>2, NetIsNat, EarningChanges DEF Books, Rows, EarningRows
<1>7. /\ wallet' = [available |-> wallet.available, pending |-> wallet.pending + Net]
      /\ account' = account /\ receivable' = receivable /\ settlement' = settlement
      /\ card' = card /\ call' = call /\ withdrawal' = withdrawal
  BY BalancesAre DEF CreatePendingEarning, stripe
<1>8. /\ AllOwed' = AllOwed /\ AllCommission' = AllCommission /\ AllReceived' = AllReceived
      /\ AllRequested' = AllRequested /\ AllSpent' = AllSpent
  BY <1>7 DEF AllOwed, AllCommission, AllReceived, AllRequested, AllSpent
<1>9. Rows'
  BY <1>5, <1>7, BalancesAre, NetIsNat DEF Books, Rows, SettlementRows, WithdrawalRows
<1> QED
  BY <1>6, <1>7, <1>8, <1>9, BalancesAre, TotalsAreNat, NetIsNat DEF Books, Ledger

LEMMA ReleaseMatureEarningLedger ==
  ASSUME Books, IInv', NEW e \in Earnings, ReleaseMatureEarning(e) PROVE Rows' /\ Ledger'
<1> DEFINE releasable == Net - earning[e].reversed
           debtOffset == Least(releasable, account.payable)
<1>1. /\ earning[e] \in EarningRow /\ earning[e].status # None /\ ~earning[e].released
  BY DEF Books, Rows, EarningRows, ReleaseMatureEarning, None
<1>2. releasable \in Nat
  BY <1>1, NetIsNat DEF EarningRow
<1>3. debtOffset \in Nat /\ PayDebt(debtOffset)
  BY <1>2, BalancesAre, LeastIs DEF ReleaseMatureEarning
<1>4. /\ wallet' = [available |-> wallet.available + (releasable - debtOffset),
                    pending |-> wallet.pending - releasable]
      /\ settlement' = settlement /\ card' = card /\ call' = call /\ withdrawal' = withdrawal
  BY DEF ReleaseMatureEarning, stripe
<1>5. PICK new : new = [earning[e] EXCEPT !.status = "available", !.released = TRUE]
  OBVIOUS
<1>6. /\ new \in EarningRow /\ new.status = "available" /\ new.released
      /\ new.reversed = earning[e].reversed
  BY <1>1, <1>5 DEF EarningRow
<1>7. earning' = [earning EXCEPT ![e] = new]
  BY <1>5 DEF ReleaseMatureEarning, Books, Rows, EarningRows
<1>8. EarningRows' /\ earning'[e] = new /\ \A d \in Earnings \ {e} : earning'[d] = earning[d]
  BY <1>6, <1>7 DEF Books, Rows, EarningRows, None
<1>9. AllHeld' = AllHeld - releasable /\ AllEarned' = AllEarned
  <2>1. /\ Held(earning[e]) = releasable /\ Earned(earning[e]) = releasable
        /\ Held(new) = 0 /\ Earned(new) = releasable
    BY <1>1, <1>6 DEF Held, Earned, None
  <2>2. AllHeld \in Nat /\ AllEarned \in Nat
    BY TotalsAreNat DEF Books
  <2> HIDE DEF releasable
  <2> QED
    BY <1>2, <1>8, <2>1, <2>2, EarningChanges DEF Books, Rows, EarningRows
<1> HIDE DEF releasable, debtOffset
<1>10. /\ AllOwed' = AllOwed - debtOffset /\ AllCommission' = AllCommission
       /\ account' = Account(account.payable - debtOffset)
  BY <1>3, PayDebtLedger DEF Books
<1>11. /\ AllReceived' = AllReceived /\ AllRequested' = AllRequested /\ AllSpent' = AllSpent
  BY <1>4 DEF AllReceived, AllRequested, AllSpent
<1>12. /\ account'.payable = account.payable - debtOffset
       /\ account' \in [payable : Int, restricted : BOOLEAN]
  BY <1>3, <1>10, BalancesAre, AccountType
<1>13. /\ wallet'.available = wallet.available + (releasable - debtOffset)
       /\ wallet'.pending = wallet.pending - releasable
       /\ wallet' \in [available : Int, pending : Int]
  BY <1>2, <1>3, <1>4, BalancesAre
<1>14. Rows'
  BY <1>4, <1>8, <1>12, <1>13 DEF Books, Rows, SettlementRows, WithdrawalRows
<1> QED
  BY <1>2, <1>3, <1>9, <1>10, <1>11, <1>12, <1>13, <1>14, BalancesAre, TotalsAreNat DEF Books, Ledger

LEMMA ApplyRefundAdjustmentLedger ==
  ASSUME Books, NEW e \in Earnings, ApplyRefundAdjustment(e) PROVE Rows' /\ Ledger'
<1>1. /\ earning[e] \in EarningRow /\ earning[e].status # None
  BY DEF Books, Rows, EarningRows, ApplyRefundAdjustment
<1>2. PICK amount \in 1 .. Net - earning[e].reversed :
        LET pending == Least(amount, Unreleased(e)) IN
        /\ wallet' = [available |-> wallet.available - (amount - pending),
                      pending |-> wallet.pending - pending]
        /\ earning' = [earning EXCEPT ![e].reversed = @ + amount,
             ![e].status = IF earning[e].reversed + amount = Net THEN "reversed" ELSE "partially_reversed"]
  BY DEF ApplyRefundAdjustment
<1> DEFINE pending == Least(amount, Unreleased(e))
<1>3. /\ earning[e].reversed \in Nat /\ amount \in Nat /\ earning[e].reversed + amount <= Net
  BY <1>1, NetIsNat DEF EarningRow
<1>4. pending = IF earning[e].released THEN 0 ELSE amount
  BY <1>3, NetIsNat DEF Least, Unreleased
<1>5. PICK new : new = [earning[e] EXCEPT !.reversed = @ + amount,
             !.status = IF earning[e].reversed + amount = Net THEN "reversed" ELSE "partially_reversed"]
  OBVIOUS
<1>6. /\ new.status \in {"reversed", "partially_reversed"} /\ new.released = earning[e].released
      /\ new.reversed = earning[e].reversed + amount
  BY <1>1, <1>5 DEF EarningRow
<1>7. new \in EarningRow
  <2>1. earning[e].reversed + amount \in 0 .. Net
    BY <1>3, NetIsNat
  <2> QED
    BY <1>1, <1>5, <2>1 DEF EarningRow
<1>8. earning' = [earning EXCEPT ![e] = new]
  BY <1>2, <1>5 DEF Books, Rows, EarningRows
<1>9. EarningRows' /\ earning'[e] = new /\ \A d \in Earnings \ {e} : earning'[d] = earning[d]
  BY <1>6, <1>7, <1>8 DEF Books, Rows, EarningRows, None
<1>10. AllHeld' = AllHeld - pending /\ AllEarned' = AllEarned - amount
  <2>1. /\ Held(earning[e]) = IF earning[e].released THEN 0 ELSE Net - earning[e].reversed
        /\ Held(new) = IF earning[e].released THEN 0 ELSE Net - (earning[e].reversed + amount)
        /\ Earned(earning[e]) = Net - earning[e].reversed
        /\ Earned(new) = Net - (earning[e].reversed + amount)
    BY <1>1, <1>6 DEF Held, Earned, None
  <2>2. AllHeld \in Nat /\ AllEarned \in Nat
    BY TotalsAreNat DEF Books
  <2>3. /\ AllHeld' = AllHeld - Held(earning[e]) + Held(new)
        /\ AllEarned' = AllEarned - Earned(earning[e]) + Earned(new)
    BY <1>9, EarningChanges DEF Books, Rows, EarningRows
  <2> QED
    BY <1>3, <1>4, <2>1, <2>2, <2>3, NetIsNat
<1> HIDE DEF pending
<1>11. /\ wallet' = [available |-> wallet.available - (amount - pending),
                     pending |-> wallet.pending - pending]
       /\ pending \in Nat
       /\ account' = account /\ receivable' = receivable /\ settlement' = settlement
       /\ card' = card /\ call' = call /\ withdrawal' = withdrawal
  BY <1>2, <1>3, <1>4 DEF ApplyRefundAdjustment, stripe, pending
<1>12. /\ AllOwed' = AllOwed /\ AllCommission' = AllCommission /\ AllReceived' = AllReceived
       /\ AllRequested' = AllRequested /\ AllSpent' = AllSpent
  BY <1>11 DEF AllOwed, AllCommission, AllReceived, AllRequested, AllSpent
<1>13. /\ wallet'.available = wallet.available - (amount - pending)
       /\ wallet'.pending = wallet.pending - pending
       /\ wallet' \in [available : Int, pending : Int]
  BY <1>3, <1>11, BalancesAre
<1>14. Rows'
  BY <1>9, <1>11, <1>13 DEF Books, Rows, SettlementRows, WithdrawalRows
<1> QED
  BY <1>3, <1>10, <1>11, <1>12, <1>13, <1>14, BalancesAre, TotalsAreNat DEF Books, Ledger

LEMMA ConfirmCashCollectionLedger ==
  ASSUME Books, IInv', NEW c \in CashBookings, ConfirmCashCollection(c) PROVE Rows' /\ Ledger'
<1>1. receivable[c] \in Row /\ receivable[c].status = None /\ Balanced(receivable[c])
  BY DEF Books, IInv, ConfirmCashCollection
<1>2. PICK new : new = [NoReceivable EXCEPT !.status = "outstanding", !.outstanding = Payable,
                !.at = Cardinality({d \in CashBookings : receivable[d].status # None}) + 1]
  OBVIOUS
<1>3. new.status = "outstanding" /\ new.outstanding = Payable /\ new.reversed = 0
  BY <1>2 DEF NoReceivable
<1>4. receivable' = [receivable EXCEPT ![c] = new]
  BY <1>2 DEF ConfirmCashCollection
<1>5. receivable'[c] = new /\ \A b \in CashBookings \ {c} : receivable'[b] = receivable[b]
  BY <1>4 DEF Books, IInv
<1>6. /\ receivable[c].outstanding = 0 /\ Commission(receivable[c]) = 0
      /\ Commission(new) = Payable
  BY <1>1, <1>3, PayableIsNat DEF Balanced, Row, Commission, None
<1>7. AllOwed' = AllOwed + Payable /\ AllCommission' = AllCommission + Payable
  BY <1>3, <1>5, <1>6, ReceivableChanges, TotalsAreNat, PayableIsNat DEF Books
<1>8. /\ account' = Account(account.payable + Payable)
      /\ wallet' = wallet /\ earning' = earning /\ settlement' = settlement
      /\ card' = card /\ call' = call /\ withdrawal' = withdrawal
  BY DEF ConfirmCashCollection, stripe
<1>9. /\ AllHeld' = AllHeld /\ AllEarned' = AllEarned /\ AllReceived' = AllReceived
      /\ AllRequested' = AllRequested /\ AllSpent' = AllSpent
  BY <1>8 DEF AllHeld, AllEarned, AllReceived, AllRequested, AllSpent
<1>10. /\ account'.payable = account.payable + Payable
       /\ account' \in [payable : Int, restricted : BOOLEAN]
  BY <1>8, BalancesAre, AccountType, PayableIsNat
<1>11. Rows'
  BY <1>8, <1>10 DEF Books, Rows, EarningRows, SettlementRows, WithdrawalRows
<1> QED
  BY <1>7, <1>8, <1>9, <1>10, <1>11, BalancesAre, TotalsAreNat, PayableIsNat DEF Books, Ledger

LEMMA ConfirmCashRefundLedger ==
  ASSUME Books, IInv', NEW r \in CashRefunds, ConfirmCashRefund(r) PROVE Rows' /\ Ledger'
<1> DEFINE c == refund[r].booking
           row == receivable[c]
           reversal == Least(Rounded(refund[r].amount * Payable, Collected), Reversible(c))
           forgiven == Least(row.outstanding, reversal)
<1>1. c \in CashBookings /\ row.status # None /\ row \in Row /\ Balanced(row)
  BY DEF ConfirmCashRefund, Books, IInv, Pending
<1>2. refund[r].amount \in Nat
  BY DEF Books, IInv, RefundRow
<1>3. Rounded(refund[r].amount * Payable, Collected) \in Nat
  BY <1>2, PayableIsNat, ProductIsNat, RoundedIsNat
<1>4. row.outstanding \in Nat /\ row.reversed \in Nat
  BY <1>1 DEF Row
<1>5. Reversible(c) \in Nat /\ Reversible(c) = Payable - row.reversed
  BY <1>1, <1>4, PayableIsNat DEF Reversible, Balanced
<1>6. reversal \in Nat /\ reversal <= Payable - row.reversed
  BY <1>3, <1>5, LeastIs
<1>7. /\ receivable' = IF reversal = 0 THEN receivable
           ELSE [receivable EXCEPT ![c].outstanding = @ - forgiven, ![c].reversed = @ + reversal,
                   ![c].reimbursed = @ + (reversal - forgiven),
                   ![c].status = IF receivable[c].reversed + reversal >= Payable
                                 THEN "reversed" ELSE "partially_reversed"]
      /\ account' = [account EXCEPT !.payable = @ - forgiven]
      /\ wallet' = [wallet EXCEPT !.available = @ + (reversal - forgiven)]
  BY DEF ConfirmCashRefund
<1>8. /\ earning' = earning /\ settlement' = settlement /\ card' = card /\ call' = call
      /\ withdrawal' = withdrawal
  BY DEF ConfirmCashRefund, stripe
<1> HIDE DEF reversal
<1>9. forgiven \in Nat /\ forgiven <= row.outstanding /\ forgiven <= reversal
  BY <1>4, <1>6, LeastIs
<1> HIDE DEF forgiven
<1>10. /\ \A b \in CashBookings \ {c} : receivable'[b] = receivable[b]
       /\ receivable'[c].outstanding = row.outstanding - forgiven
       /\ Commission(receivable'[c]) = Commission(row) - reversal
  <2>1. CASE reversal = 0
    <3>1. forgiven = 0 /\ Commission(row) \in Nat
      BY <1>1, <1>9, <2>1, ReceivableValue
    <3> QED
      BY <1>4, <1>7, <2>1, <3>1
  <2>2. CASE reversal # 0
    <3>1. PICK new : new = [row EXCEPT !.outstanding = @ - forgiven, !.reversed = @ + reversal,
                       !.reimbursed = @ + (reversal - forgiven),
                       !.status = IF receivable[c].reversed + reversal >= Payable
                                  THEN "reversed" ELSE "partially_reversed"]
      OBVIOUS
    <3>2. receivable' = [receivable EXCEPT ![c] = new]
      BY <1>1, <1>7, <2>2, <3>1 DEF Books, IInv
    <3>3. /\ new.outstanding = row.outstanding - forgiven /\ new.reversed = row.reversed + reversal
          /\ new.status \in {"reversed", "partially_reversed"}
      BY <1>1, <3>1 DEF Row
    <3>4. receivable'[c] = new /\ \A b \in CashBookings \ {c} : receivable'[b] = receivable[b]
      BY <1>1, <3>2 DEF Books, IInv
    <3>5. Commission(new) = Commission(row) - reversal
      BY <1>1, <1>4, <1>6, <3>3, PayableIsNat DEF Commission, None
    <3> QED
      BY <3>3, <3>4, <3>5
  <2> QED
    BY <2>1, <2>2
<1>11. Commission(row) \in Nat
  BY <1>1, ReceivableValue
<1>12. PICK d : d = c
  OBVIOUS
<1>13. /\ AllOwed' = AllOwed - receivable[d].outstanding + receivable'[d].outstanding
       /\ AllCommission' = AllCommission - Commission(receivable[d]) + Commission(receivable'[d])
  BY <1>1, <1>10, <1>12, ReceivableChanges DEF Books
<1>14. AllOwed' = AllOwed - forgiven /\ AllCommission' = AllCommission - reversal
  <2>1. AllOwed \in Nat /\ AllCommission \in Nat
    BY TotalsAreNat DEF Books
  <2>2. /\ AllOwed' = AllOwed - row.outstanding + (row.outstanding - forgiven)
        /\ AllCommission' = AllCommission - Commission(row) + (Commission(row) - reversal)
    BY <1>10, <1>12, <1>13
  <2> QED
    BY <1>4, <1>6, <1>9, <1>11, <2>1, <2>2
<1>15. /\ AllHeld' = AllHeld /\ AllEarned' = AllEarned /\ AllReceived' = AllReceived
       /\ AllRequested' = AllRequested /\ AllSpent' = AllSpent
  BY <1>8 DEF AllHeld, AllEarned, AllReceived, AllRequested, AllSpent
<1>16. /\ account'.payable = account.payable - forgiven
       /\ account' \in [payable : Int, restricted : BOOLEAN]
       /\ wallet'.available = wallet.available + (reversal - forgiven)
       /\ wallet'.pending = wallet.pending
       /\ wallet' \in [available : Int, pending : Int]
  <2>1. /\ wallet.available \in Int /\ wallet.pending \in Int /\ account.payable \in Int
        /\ account \in [payable : Int, restricted : BOOLEAN]
        /\ wallet \in [available : Int, pending : Int]
    BY BalancesAre DEF Books, Rows
  <2>2. account.payable - forgiven \in Int /\ wallet.available + (reversal - forgiven) \in Int
    BY <1>6, <1>9, <2>1
  <2> QED
    BY <1>7, <2>1, <2>2
<1>17. Rows'
  BY <1>8, <1>16 DEF Books, Rows, EarningRows, SettlementRows, WithdrawalRows
<1> QED
  BY <1>6, <1>9, <1>14, <1>15, <1>16, <1>17, BalancesAre, TotalsAreNat DEF Books, Ledger

\* What only pays the debt and moves money in or out of the wallet, as every
\* settlement does.
LEMMA ApplyPayableSettlementLedger ==
  ASSUME Books, IInv', NEW amount \in Nat, NEW debited \in Nat,
         ApplyPayableSettlement(amount, debited)
  PROVE  /\ wallet' \in [available : Int, pending : Int] /\ wallet'.pending = wallet.pending
         /\ account' \in [payable : Int, restricted : BOOLEAN]
         /\ account'.payable = AllOwed' /\ AllCommission' = AllCommission
         /\ wallet'.available - account'.payable =
              wallet.available - account.payable + amount - debited
<1> DEFINE applied == Least(amount, account.payable)
<1>1. applied \in Nat
  BY BalancesAre, LeastIs
<1>2. PayDebt(applied) /\ wallet' = [wallet EXCEPT !.available = @ - debited + (amount - applied)]
  BY DEF ApplyPayableSettlement
<1> HIDE DEF applied
<1>3. /\ AllOwed' = AllOwed - applied /\ AllCommission' = AllCommission
      /\ account' = Account(account.payable - applied)
  BY <1>2, PayDebtLedger DEF Books
<1>4. /\ account'.payable = account.payable - applied
      /\ account' \in [payable : Int, restricted : BOOLEAN]
  BY <1>1, <1>3, BalancesAre, AccountType
<1>5. /\ wallet'.available = wallet.available - debited + (amount - applied)
      /\ wallet'.pending = wallet.pending
      /\ wallet' \in [available : Int, pending : Int]
  BY <1>1, <1>2, BalancesAre DEF Books, Rows
<1> QED
  BY <1>1, <1>3, <1>4, <1>5, BalancesAre, TotalsAreNat DEF Books, Ledger

\* A settlement goes over to another row, card and call.
Turns(s, r, d, k) ==
  /\ r \in SettlementRow /\ d \in Cards /\ k \in CallStates /\ Known(r, d, k)
  /\ settlement' = [settlement EXCEPT ![s] = r]
  /\ card' = [card EXCEPT ![s] = d]
  /\ call' = [call EXCEPT ![s] = k]

LEMMA SettlementTurns ==
  ASSUME SettlementRows, NEW s \in Settlements, NEW r, NEW d, NEW k, Turns(s, r, d, k)
  PROVE  SettlementRows' /\ AllReceived' = AllReceived - Received(settlement[s]) + Received(r)
<1>1. SettlementRows'
  BY DEF SettlementRows, Turns
<1>2. settlement'[s] = r /\ \A t \in Settlements \ {s} : settlement'[t] = settlement[t]
  BY DEF SettlementRows, Turns
<1> QED
  BY <1>1, <1>2, SettlementChanges DEF SettlementRows

\* What a settlement is before it turns.
LEMMA SettlementIs ==
  ASSUME SettlementRows, NEW s \in Settlements
  PROVE  /\ settlement[s] \in SettlementRow /\ card[s] \in Cards /\ call[s] \in CallStates
         /\ Known(settlement[s], card[s], call[s])
         /\ settlement = [settlement EXCEPT ![s] = settlement[s]]
         /\ card = [card EXCEPT ![s] = card[s]] /\ call = [call EXCEPT ![s] = call[s]]
  BY DEF SettlementRows

\* A new row.
LEMMA NewSettlementRow ==
  ASSUME SettlementRows, NEW s \in Settlements,
         NEW method \in {"wallet", "stripe", "bank_transfer", "offline"},
         NEW status \in {"pending_payment", "pending_review", "completed"},
         NEW amount \in Nat, NewSettlement(s, method, status, amount)
  PROVE  \E r \in SettlementRow :
           /\ r.status = status /\ r.method = method /\ r.amount = amount /\ ~r.reference
           /\ settlement' = [settlement EXCEPT ![s] = r]
           /\ settlement[s].status = None /\ card[s] = None /\ Received(settlement[s]) = 0
<1> DEFINE r == [status |-> status, method |-> method, amount |-> amount, reference |-> FALSE]
<1>1. r \in SettlementRow
  BY DEF SettlementRow
<1>2. r.status = status /\ r.method = method /\ r.amount = amount /\ ~r.reference
  OBVIOUS
<1>3. settlement' = [settlement EXCEPT ![s] = r] /\ settlement[s].status = None
  BY DEF NewSettlement
<1>4. card[s] = None /\ Received(settlement[s]) = 0
  BY <1>3, SettlementIs DEF Known, Received, None
<1> QED
  BY <1>1, <1>2, <1>3, <1>4

\* A row with another status.
LEMMA StatusTurns ==
  ASSUME SettlementRows, NEW s \in Settlements,
         NEW status \in {"completed", "cancelled", "rejected"},
         settlement' = [settlement EXCEPT ![s].status = status]
  PROVE  \E r \in SettlementRow :
           /\ r.status = status /\ r.method = settlement[s].method
           /\ r.amount = settlement[s].amount /\ r.reference = settlement[s].reference
           /\ settlement' = [settlement EXCEPT ![s] = r]
<1>1. PICK r : r = [settlement[s] EXCEPT !.status = status]
  OBVIOUS
<1>2. /\ r \in SettlementRow /\ r.status = status /\ r.method = settlement[s].method
      /\ r.amount = settlement[s].amount /\ r.reference = settlement[s].reference
  BY <1>1, SettlementIs DEF SettlementRow
<1>3. settlement' = [settlement EXCEPT ![s] = r]
  BY <1>1 DEF SettlementRows
<1> QED
  BY <1>2, <1>3

\* Requests, cancellations and the steps of an intent that is being made move
\* no money: Received stays.
Quiet(s) ==
  \/ CreateFromWallet(s) \/ CreateBankTransfer(s) \/ CreateByCard(s) \/ CreateIntent(s)
  \/ RecordIntent(s) \/ AbandonIntent(s) \/ PayByCard(s) \/ Cancel(s) \/ CancelAtStripe(s)
  \/ CancelHere(s) \/ CallInterrupted(s) \/ Reject(s)

LEMMA QuietTurns ==
  ASSUME SettlementRows, NEW s \in Settlements, Quiet(s)
  PROVE  \E r, d, k : Turns(s, r, d, k) /\ Received(r) = Received(settlement[s])
<1> DEFINE row == settlement[s]
<1> USE DEF None
<1>1. CASE CreateFromWallet(s)
  <2>1. PICK amount \in Payments : settlement' = [settlement EXCEPT ![s].amount = amount]
    BY <1>1 DEF CreateFromWallet
  <2>2. PICK r : r = [row EXCEPT !.amount = amount]
    OBVIOUS
  <2>3. amount \in Nat
    BY AmountsAssumption DEF Payments
  <2>4. /\ r \in SettlementRow /\ r.status = row.status /\ r.method = row.method
        /\ r.reference = row.reference
    BY <2>2, <2>3, SettlementIs DEF SettlementRow
  <2>5. row.status = None /\ call' = [call EXCEPT ![s] = "wallet"] /\ card' = card
    BY <1>1 DEF CreateFromWallet
  <2>6. Turns(s, r, card[s], "wallet")
    BY <2>1, <2>2, <2>4, <2>5, SettlementIs DEF Turns, Known, CallStates, SettlementRows
  <2>7. Received(r) = Received(row)
    BY <2>4, <2>5 DEF Received
  <2> QED
    BY <2>6, <2>7
<1>2. CASE CreateBankTransfer(s)
  <2>1. PICK amount \in Payments : NewSettlement(s, "bank_transfer", "pending_review", amount)
    BY <1>2 DEF CreateBankTransfer
  <2>2. amount \in Nat
    BY AmountsAssumption DEF Payments
  <2>3. PICK r \in SettlementRow :
          /\ r.status = "pending_review" /\ r.method = "bank_transfer" /\ ~r.reference
          /\ settlement' = [settlement EXCEPT ![s] = r]
          /\ row.status = None /\ card[s] = None /\ Received(row) = 0
    BY <2>1, <2>2, NewSettlementRow
  <2>4. call[s] # "wallet" /\ card' = card /\ call' = call
    BY <1>2 DEF CreateBankTransfer, NoOpenSettlement, stripe
  <2>5. call[s] \notin {"create", "record", "abandon"}
    BY <2>3, SettlementIs DEF Known
  <2>6. Turns(s, r, card[s], call[s])
    BY <2>3, <2>4, <2>5, SettlementIs DEF Turns, Known
  <2>7. Received(r) = 0
    BY <2>3 DEF Received
  <2> QED
    BY <2>3, <2>6, <2>7
<1>3. CASE CreateByCard(s)
  <2>1. PICK amount \in Payments : NewSettlement(s, "stripe", "pending_payment", amount)
    BY <1>3 DEF CreateByCard
  <2>2. amount \in Nat
    BY AmountsAssumption DEF Payments
  <2>3. PICK r \in SettlementRow :
          /\ r.status = "pending_payment" /\ r.method = "stripe" /\ ~r.reference
          /\ settlement' = [settlement EXCEPT ![s] = r]
          /\ row.status = None /\ card[s] = None /\ Received(row) = 0
    BY <2>1, <2>2, NewSettlementRow
  <2>4. card' = card /\ call' = [call EXCEPT ![s] = "create"]
    BY <1>3 DEF CreateByCard
  <2>5. Turns(s, r, card[s], "create")
    BY <2>3, <2>4, SettlementIs DEF Turns, Known, CallStates
  <2>6. Received(r) = 0
    BY <2>3 DEF Received
  <2> QED
    BY <2>3, <2>5, <2>6
<1>4. CASE CreateIntent(s)
  <2>1. call[s] = "create" /\ settlement' = settlement
    BY <1>4 DEF CreateIntent
  <2>2. PICK d \in {card[s], "open"}, k \in {"record", "abandon"} :
          card' = [card EXCEPT ![s] = d] /\ call' = [call EXCEPT ![s] = k]
    BY <1>4, SettlementIs DEF CreateIntent
  <2>3. Turns(s, row, d, k)
    BY <2>1, <2>2, SettlementIs DEF Turns, Known, CallStates, Cards
  <2> QED
    BY <2>3
<1>5. CASE RecordIntent(s)
  <2>1. call[s] = "record" /\ card' = card
    BY <1>5 DEF RecordIntent
  <2>2. CASE settlement' = [settlement EXCEPT ![s].reference = TRUE] /\ call' = [call EXCEPT ![s] = "idle"]
    <3>1. PICK r : r = [row EXCEPT !.reference = TRUE]
      OBVIOUS
    <3>2. /\ r \in SettlementRow /\ r.status = row.status /\ r.method = row.method
          /\ r.amount = row.amount
      BY <3>1, SettlementIs DEF SettlementRow
    <3>3. settlement' = [settlement EXCEPT ![s] = r]
      BY <2>2, <3>1 DEF SettlementRows
    <3>4. Turns(s, r, card[s], "idle")
      BY <2>1, <2>2, <3>2, <3>3, SettlementIs DEF Turns, Known, CallStates
    <3>5. Received(r) = Received(row)
      BY <3>2 DEF Received
    <3> QED
      BY <3>4, <3>5
  <2>3. CASE settlement' = settlement /\ call' = [call EXCEPT ![s] = "abandon"]
    <3>1. Turns(s, row, card[s], "abandon")
      BY <2>1, <2>3, SettlementIs DEF Turns, Known, CallStates
    <3> QED
      BY <3>1
  <2> QED
    BY <1>5, <2>2, <2>3 DEF RecordIntent
<1>6. CASE AbandonIntent(s)
  <2>1. call[s] = "abandon" /\ card' = card /\ call' = [call EXCEPT ![s] = "idle"]
    BY <1>6 DEF AbandonIntent
  <2>2. PICK r \in SettlementRow :
          /\ r.status = "cancelled" /\ r.method = row.method /\ r.reference = row.reference
          /\ settlement' = [settlement EXCEPT ![s] = r]
    BY <1>6, StatusTurns DEF AbandonIntent
  <2>3. row.status \in {"pending_payment", "cancelled"}
    BY <2>1, SettlementIs DEF Known
  <2>4. Turns(s, r, card[s], "idle")
    BY <2>1, <2>2, SettlementIs DEF Turns, Known, CallStates
  <2>5. Received(r) = Received(row)
    BY <2>2, <2>3 DEF Received
  <2> QED
    BY <2>4, <2>5
<1>7. CASE PayByCard(s)
  <2>1. /\ card[s] = "open" /\ row.reference /\ settlement' = settlement /\ call' = call
        /\ card' = [card EXCEPT ![s] = "succeeded"]
    BY <1>7 DEF PayByCard
  <2>2. Turns(s, row, "succeeded", call[s])
    BY <2>1, SettlementIs DEF Turns, Known, Cards
  <2> QED
    BY <2>2
<1>8. CASE Cancel(s)
  <2>1. OpenSettlement(s) /\ ~row.reference /\ card' = card /\ call' = call
    BY <1>8 DEF Cancel, stripe
  <2>2. PICK r \in SettlementRow :
          /\ r.status = "cancelled" /\ r.method = row.method /\ r.reference = row.reference
          /\ settlement' = [settlement EXCEPT ![s] = r]
    BY <1>8, StatusTurns DEF Cancel
  <2>3. Turns(s, r, card[s], call[s])
    BY <2>1, <2>2, SettlementIs DEF Turns, Known, OpenSettlement
  <2>4. Received(r) = Received(row)
    BY <2>1, <2>2 DEF Received, OpenSettlement
  <2> QED
    BY <2>3, <2>4
<1>9. CASE CancelAtStripe(s)
  <2>1. /\ row.reference /\ settlement' = settlement /\ call' = [call EXCEPT ![s] = "cancel"]
    BY <1>9 DEF CancelAtStripe
  <2>2. PICK d \in {card[s], "canceled"} : card' = [card EXCEPT ![s] = d]
    BY <1>9, SettlementIs DEF CancelAtStripe
  <2>3. row.status # None
    BY <2>1, SettlementIs DEF Known
  <2>4. Turns(s, row, d, "cancel")
    BY <2>1, <2>2, <2>3, SettlementIs DEF Turns, Known, CallStates, Cards
  <2> QED
    BY <2>4
<1>10. CASE CancelHere(s)
  <2>1. call[s] = "cancel" /\ card' = card /\ call' = [call EXCEPT ![s] = "idle"]
    BY <1>10 DEF CancelHere
  <2>2. CASE OpenSettlement(s)
    <3>1. PICK r \in SettlementRow :
            /\ r.status = "cancelled" /\ r.method = row.method /\ r.reference = row.reference
            /\ settlement' = [settlement EXCEPT ![s] = r]
      BY <1>10, <2>2, StatusTurns DEF CancelHere
    <3>2. Turns(s, r, card[s], "idle")
      BY <2>1, <2>2, <3>1, SettlementIs DEF Turns, Known, CallStates, OpenSettlement
    <3>3. Received(r) = Received(row)
      BY <2>2, <3>1 DEF Received, OpenSettlement
    <3> QED
      BY <3>2, <3>3
  <2>3. CASE ~OpenSettlement(s)
    <3>1. Turns(s, row, card[s], "idle")
      BY <1>10, <2>1, <2>3, SettlementIs DEF CancelHere, Turns, Known, CallStates
    <3> QED
      BY <3>1
  <2> QED
    BY <2>2, <2>3
<1>11. CASE CallInterrupted(s)
  <2>1. card' = card /\ call' = [call EXCEPT ![s] = "idle"]
    BY <1>11 DEF CallInterrupted
  <2>2. CASE call[s] = "wallet"
    <3>1. settlement' = [settlement EXCEPT ![s] = NoSettlement]
      BY <1>11, <2>2 DEF CallInterrupted
    <3>2. row.status = None
      BY <2>2, SettlementIs DEF Known
    <3>3. NoSettlement \in SettlementRow /\ NoSettlement.status = None /\ ~NoSettlement.reference
      BY DEF NoSettlement, SettlementRow
    <3>4. card[s] = None
      BY <3>2, SettlementIs DEF Known
    <3>5. Turns(s, NoSettlement, card[s], "idle")
      BY <2>1, <3>1, <3>3, <3>4, SettlementIs DEF Turns, Known, CallStates
    <3>6. Received(NoSettlement) = Received(row)
      BY <3>2, <3>3 DEF Received
    <3> QED
      BY <3>5, <3>6
  <2>3. CASE call[s] # "wallet"
    <3>1. Turns(s, row, card[s], "idle")
      BY <1>11, <2>1, <2>3, SettlementIs DEF CallInterrupted, Turns, Known, CallStates
    <3> QED
      BY <3>1
  <2> QED
    BY <2>2, <2>3
<1>12. CASE Reject(s)
  <2>1. row.status = "pending_review" /\ card' = card /\ call' = call
    BY <1>12 DEF Reject, stripe
  <2>2. PICK r \in SettlementRow :
          /\ r.status = "rejected" /\ r.method = row.method /\ r.reference = row.reference
          /\ settlement' = [settlement EXCEPT ![s] = r]
    BY <1>12, StatusTurns DEF Reject
  <2>3. Turns(s, r, card[s], call[s])
    BY <2>1, <2>2, SettlementIs DEF Turns, Known
  <2>4. Received(r) = Received(row)
    BY <2>1, <2>2 DEF Received
  <2> QED
    BY <2>3, <2>4
<1> QED
  BY <1>1, <1>2, <1>3, <1>4, <1>5, <1>6, <1>7, <1>8, <1>9, <1>10, <1>11, <1>12 DEF Quiet

\* A settlement that counts adds what came from outside to what was received.
Paying(s) == PayFromWallet(s) \/ HandleIntent(s) \/ AdminRecord(s) \/ Approve(s)

LEMMA PayingTurns ==
  ASSUME SettlementRows, NEW s \in Settlements, Paying(s)
  PROVE  \E r, d, k : \E amount \in Nat, debited \in Nat :
           /\ Turns(s, r, d, k) /\ ApplyPayableSettlement(amount, debited)
           /\ Received(settlement[s]) = 0 /\ Received(r) = amount - debited
<1> DEFINE row == settlement[s]
<1> USE DEF None
<1>1. CASE PayFromWallet(s)
  <2>1. row.amount \in Nat
    BY SettlementIs DEF SettlementRow
  <2>2. PICK r \in SettlementRow :
          /\ r.status = "completed" /\ r.method = "wallet" /\ ~r.reference
          /\ settlement' = [settlement EXCEPT ![s] = r]
          /\ row.status = None /\ card[s] = None /\ Received(row) = 0
    BY <1>1, <2>1, NewSettlementRow DEF PayFromWallet
  <2>3. card' = card /\ call' = [call EXCEPT ![s] = "idle"]
    BY <1>1 DEF PayFromWallet
  <2>4. Turns(s, r, card[s], "idle")
    BY <2>2, <2>3, SettlementIs DEF Turns, Known, CallStates
  <2>5. Received(r) = row.amount - row.amount
    BY <2>1, <2>2 DEF Received
  <2>6. ApplyPayableSettlement(row.amount, row.amount)
    BY <1>1 DEF PayFromWallet
  <2> QED
    BY <2>1, <2>2, <2>4, <2>5, <2>6
<1>2. CASE HandleIntent(s)
  <2>1. card[s] = "succeeded" /\ row.status # "completed" /\ card' = card /\ call' = call
    BY <1>2 DEF HandleIntent, Honours, stripe
  <2>2. PICK r \in SettlementRow :
          /\ r.status = "completed" /\ r.method = row.method /\ r.amount = row.amount
          /\ r.reference = row.reference /\ settlement' = [settlement EXCEPT ![s] = r]
    <3>1. settlement' = [settlement EXCEPT ![s].status = "completed"]
      BY <1>2 DEF HandleIntent
    <3> HIDE <1>2
    <3> QED
      BY <3>1, StatusTurns
  <2>3. row.method = "stripe" /\ row.status # None /\ row.amount \in Nat
    BY <2>1, SettlementIs DEF Known, SettlementRow
  <2>4. Turns(s, r, card[s], call[s])
    BY <2>1, <2>2, <2>3, SettlementIs DEF Turns, Known
  <2>5. Received(row) = 0 /\ Received(r) = row.amount - 0
    BY <2>1, <2>2, <2>3 DEF Received
  <2>6. ApplyPayableSettlement(row.amount, 0)
    BY <1>2 DEF HandleIntent
  <2> QED
    BY <2>3, <2>4, <2>5, <2>6
<1>3. CASE AdminRecord(s)
  <2>1. PICK amount \in Amounts :
          NewSettlement(s, "offline", "completed", amount) /\ ApplyPayableSettlement(amount, 0)
    BY <1>3 DEF AdminRecord
  <2>2. amount \in Nat
    BY AmountsAssumption
  <2>3. PICK r \in SettlementRow :
          /\ r.status = "completed" /\ r.method = "offline" /\ r.amount = amount /\ ~r.reference
          /\ settlement' = [settlement EXCEPT ![s] = r]
          /\ row.status = None /\ card[s] = None /\ Received(row) = 0
    BY <2>1, <2>2, NewSettlementRow
  <2>4. call[s] = "idle" /\ card' = card /\ call' = call
    BY <1>3 DEF AdminRecord, stripe
  <2>5. Turns(s, r, card[s], call[s])
    BY <2>3, <2>4, SettlementIs DEF Turns, Known
  <2>6. Received(r) = amount - 0
    BY <2>2, <2>3 DEF Received
  <2> QED
    BY <2>1, <2>2, <2>3, <2>5, <2>6
<1>4. CASE Approve(s)
  <2>1. row.status = "pending_review" /\ card' = card /\ call' = call
    BY <1>4 DEF Approve, stripe
  <2>2. PICK received \in Amounts :
          /\ settlement' = [settlement EXCEPT ![s].status = "completed", ![s].amount = received]
          /\ ApplyPayableSettlement(received, 0)
    BY <1>4 DEF Approve
  <2>3. received \in Nat
    BY AmountsAssumption
  <2>4. PICK r : r = [row EXCEPT !.status = "completed", !.amount = received]
    OBVIOUS
  <2>5. /\ r \in SettlementRow /\ r.status = "completed" /\ r.method = row.method
        /\ r.amount = received /\ r.reference = row.reference
    BY <2>3, <2>4, SettlementIs DEF SettlementRow
  <2>6. settlement' = [settlement EXCEPT ![s] = r]
    BY <2>2, <2>4 DEF SettlementRows
  <2>7. Turns(s, r, card[s], call[s])
    BY <2>1, <2>5, <2>6, SettlementIs DEF Turns, Known
  <2>8. Received(row) = 0 /\ Received(r) = received - 0
    <3>1. row.method = "bank_transfer"
      BY <2>1, SettlementIs DEF Known
    <3> QED
      BY <2>1, <2>3, <2>5, <3>1 DEF Received
  <2> QED
    BY <2>2, <2>3, <2>7, <2>8
<1> QED
  BY <1>1, <1>2, <1>3, <1>4 DEF Paying

LEMMA SettlementLedger ==
  ASSUME Books, IInv', NEW s \in Settlements, Quiet(s) \/ Paying(s) PROVE Rows' /\ Ledger'
<1>1. SettlementRows /\ Received(settlement[s]) \in Nat
  BY SettlementValue DEF Books, Rows, SettlementRows
<1>2. earning' = earning /\ withdrawal' = withdrawal
  BY DEF Quiet, Paying, CreateFromWallet, CreateBankTransfer, CreateByCard, CreateIntent, RecordIntent,
    AbandonIntent, PayByCard, Cancel, CancelAtStripe, CancelHere, CallInterrupted, Reject,
    PayFromWallet, HandleIntent, AdminRecord, Approve
<1>3. /\ AllHeld' = AllHeld /\ AllEarned' = AllEarned
      /\ AllRequested' = AllRequested /\ AllSpent' = AllSpent
  BY <1>2 DEF AllHeld, AllEarned, AllRequested, AllSpent
<1>4. CASE Quiet(s)
  <2>1. wallet' = wallet /\ account' = account /\ receivable' = receivable
    BY <1>4 DEF Quiet, CreateFromWallet, CreateBankTransfer, CreateByCard, CreateIntent, RecordIntent,
      AbandonIntent, PayByCard, Cancel, CancelAtStripe, CancelHere, CallInterrupted, Reject
  <2>2. AllOwed' = AllOwed /\ AllCommission' = AllCommission
    BY <2>1 DEF AllOwed, AllCommission
  <2>3. PICK r, d, k : Turns(s, r, d, k) /\ Received(r) = Received(settlement[s])
    BY <1>1, <1>4, QuietTurns
  <2>4. SettlementRows' /\ AllReceived' = AllReceived - Received(settlement[s]) + Received(r)
    BY <1>1, <2>3, SettlementTurns
  <2>5. AllReceived' = AllReceived
    BY <1>1, <2>3, <2>4, TotalsAreNat DEF Books
  <2>6. Rows'
    BY <1>2, <2>1, <2>4 DEF Books, Rows, EarningRows, WithdrawalRows
  <2> QED
    BY <1>3, <2>1, <2>2, <2>5, <2>6 DEF Books, Ledger
<1>5. CASE Paying(s)
  <2>1. PICK r, d, k : \E amount \in Nat, debited \in Nat :
          /\ Turns(s, r, d, k) /\ ApplyPayableSettlement(amount, debited)
          /\ Received(settlement[s]) = 0 /\ Received(r) = amount - debited
    BY <1>1, <1>5, PayingTurns
  <2>2. PICK amount \in Nat, debited \in Nat :
          /\ Turns(s, r, d, k) /\ ApplyPayableSettlement(amount, debited)
          /\ Received(settlement[s]) = 0 /\ Received(r) = amount - debited
    BY <2>1
  <2>3. SettlementRows' /\ AllReceived' = AllReceived + (amount - debited)
    BY <1>1, <2>2, SettlementTurns, TotalsAreNat DEF Books
  <2>4. /\ wallet' \in [available : Int, pending : Int] /\ wallet'.pending = wallet.pending
        /\ account' \in [payable : Int, restricted : BOOLEAN]
        /\ account'.payable = AllOwed' /\ AllCommission' = AllCommission
        /\ wallet'.available - account'.payable =
             wallet.available - account.payable + amount - debited
    BY <2>2, ApplyPayableSettlementLedger
  <2>5. Rows'
    BY <1>2, <2>3, <2>4 DEF Books, Rows, EarningRows, WithdrawalRows
  <2>6. wallet'.available \in Int /\ account'.payable \in Int
    BY <2>4
  <2> QED
    <3>1. /\ wallet.available \in Int /\ wallet.pending \in Int /\ account.payable \in Int
          /\ wallet.pending = AllHeld + AllRequested
          /\ wallet.available + wallet.pending - account.payable =
               AllEarned - AllCommission + AllReceived - AllSpent
      BY BalancesAre DEF Books, Ledger
    <3>2. wallet'.pending = AllHeld' + AllRequested'
      BY <1>3, <2>4, <3>1
    <3>3. /\ AllEarned \in Nat /\ AllCommission \in Nat /\ AllReceived \in Nat /\ AllSpent \in Nat
      BY TotalsAreNat DEF Books
    <3>4. wallet'.available + wallet'.pending - account'.payable =
            AllEarned' - AllCommission' + AllReceived' - AllSpent'
      <4>1. wallet'.available + wallet.pending - account'.payable =
              wallet.available + wallet.pending - account.payable + (amount - debited)
        BY <2>4, <2>6, <3>1
      <4>2. AllEarned - AllCommission + (AllReceived + (amount - debited)) - AllSpent =
              AllEarned - AllCommission + AllReceived - AllSpent + (amount - debited)
        BY <3>3
      <4> QED
        BY <1>3, <2>3, <2>4, <3>1, <4>1, <4>2
    <3> QED
      BY <2>4, <2>5, <3>2, <3>4 DEF Ledger
<1> QED
  BY <1>4, <1>5

\* A withdrawal's row changes and the balances with it.
Withdraws(w, r) ==
  /\ withdrawal' = [withdrawal EXCEPT ![w] = r]
  /\ wallet' \in [available : Int, pending : Int]
  /\ wallet'.pending = wallet.pending - Requested(withdrawal[w]) + Requested(r)
  /\ wallet'.available + wallet'.pending =
       wallet.available + wallet.pending + Spent(withdrawal[w]) - Spent(r)

LEMMA WithdrawalLedger ==
  ASSUME Books, NEW w \in Withdrawals,
         RequestWithdrawal(w) \/ ApprovePayout(w) \/ ReturnWithdrawal(w) \/ MarkPaid(w)
  PROVE  Rows' /\ Ledger'
<1> DEFINE row == withdrawal[w]
<1>1. /\ account' = account /\ earning' = earning /\ receivable' = receivable
      /\ settlement' = settlement /\ card' = card /\ call' = call
  BY DEF RequestWithdrawal, ApprovePayout, ReturnWithdrawal, MarkPaid, stripe
<1>2. /\ AllOwed' = AllOwed /\ AllCommission' = AllCommission /\ AllHeld' = AllHeld
      /\ AllEarned' = AllEarned /\ AllReceived' = AllReceived
  BY <1>1 DEF AllOwed, AllCommission, AllHeld, AllEarned, AllReceived
<1>3. row \in WithdrawalRow /\ row.amount \in Nat /\ Requested(row) \in Nat /\ Spent(row) \in Nat
  BY WithdrawalValue DEF Books, Rows, WithdrawalRows, WithdrawalRow
<1>4. \E r \in WithdrawalRow : Withdraws(w, r)
  <2>1. ASSUME NEW status \in {"processing", "cancelled", "rejected", "failed", "paid"},
               withdrawal' = [withdrawal EXCEPT ![w].status = status]
        PROVE \E r \in WithdrawalRow :
                withdrawal' = [withdrawal EXCEPT ![w] = r] /\ r.status = status /\ r.amount = row.amount
    <3>1. PICK r : r = [row EXCEPT !.status = status]
      OBVIOUS
    <3>2. r \in WithdrawalRow /\ r.status = status /\ r.amount = row.amount
      BY <1>3, <3>1 DEF WithdrawalRow
    <3>3. withdrawal' = [withdrawal EXCEPT ![w] = r]
      BY <2>1, <3>1 DEF Books, Rows, WithdrawalRows
    <3> QED
      BY <3>2, <3>3
  <2>2. CASE RequestWithdrawal(w)
    <3>1. PICK amount \in Amounts :
            /\ withdrawal' = [withdrawal EXCEPT ![w] = [status |-> "pending_review", amount |-> amount]]
            /\ wallet' = [available |-> wallet.available - amount, pending |-> wallet.pending + amount]
      BY <2>2 DEF RequestWithdrawal
    <3>2. amount \in Nat
      BY AmountsAssumption
    <3>3. PICK r : r = [status |-> "pending_review", amount |-> amount]
      OBVIOUS
    <3>4. r \in WithdrawalRow /\ Requested(r) = amount /\ Spent(r) = 0
      BY <3>2, <3>3 DEF WithdrawalRow, Requested, Spent
    <3>5. Requested(row) = 0 /\ Spent(row) = 0
      BY <2>2 DEF RequestWithdrawal, Requested, Spent, None
    <3>6. /\ wallet' \in [available : Int, pending : Int]
          /\ wallet'.available = wallet.available - amount
          /\ wallet'.pending = wallet.pending + amount
      BY <3>1, <3>2, BalancesAre
    <3>7. Withdraws(w, r)
      BY <3>1, <3>2, <3>3, <3>4, <3>5, <3>6, BalancesAre DEF Withdraws
    <3> QED
      BY <3>4, <3>7
  <2>3. CASE ApprovePayout(w)
    <3>1. PICK r \in WithdrawalRow :
            withdrawal' = [withdrawal EXCEPT ![w] = r] /\ r.status = "processing" /\ r.amount = row.amount
      BY <2>1, <2>3 DEF ApprovePayout
    <3>2. row.status = "pending_review" /\ wallet' = wallet
      BY <2>3 DEF ApprovePayout
    <3>3. Requested(r) = row.amount /\ Requested(row) = row.amount /\ Spent(r) = 0 /\ Spent(row) = 0
      BY <3>1, <3>2 DEF Requested, Spent
    <3>4. wallet' \in [available : Int, pending : Int]
      BY <3>2 DEF Books, Rows
    <3>5. Withdraws(w, r)
      BY <1>3, <3>1, <3>2, <3>3, <3>4, BalancesAre DEF Withdraws
    <3> QED
      BY <3>1, <3>5
  <2>4. CASE ReturnWithdrawal(w)
    <3>1. PICK status \in {"cancelled", "rejected", "failed"} :
            withdrawal' = [withdrawal EXCEPT ![w].status = status]
      <4>1. PICK move \in {<<"pending_review", "cancelled">>, <<"pending_review", "rejected">>,
                           <<"processing", "failed">>} :
              withdrawal' = [withdrawal EXCEPT ![w].status = move[2]]
        BY <2>4 DEF ReturnWithdrawal
      <4>2. PICK status : status = move[2]
        OBVIOUS
      <4>3. status \in {"cancelled", "rejected", "failed"}
        BY <4>2
      <4>4. withdrawal' = [withdrawal EXCEPT ![w].status = status]
        BY <4>1, <4>2
      <4> QED
        BY <4>3, <4>4
    <3>2. PICK r \in WithdrawalRow :
            withdrawal' = [withdrawal EXCEPT ![w] = r] /\ r.status = status /\ r.amount = row.amount
      BY <2>1, <3>1
    <3>3. row.status \in {"pending_review", "processing"}
      BY <2>4 DEF ReturnWithdrawal
    <3>4. wallet' = [available |-> wallet.available + row.amount, pending |-> wallet.pending - row.amount]
      BY <2>4 DEF ReturnWithdrawal
    <3>5. Requested(r) = 0 /\ Requested(row) = row.amount /\ Spent(r) = 0 /\ Spent(row) = 0
      BY <3>2, <3>3 DEF Requested, Spent
    <3>6. /\ wallet' \in [available : Int, pending : Int]
          /\ wallet'.available = wallet.available + row.amount
          /\ wallet'.pending = wallet.pending - row.amount
      BY <1>3, <3>4, BalancesAre
    <3>7. Withdraws(w, r)
      BY <1>3, <3>2, <3>5, <3>6, BalancesAre DEF Withdraws
    <3> QED
      BY <3>2, <3>7
  <2>5. CASE MarkPaid(w)
    <3>1. PICK r \in WithdrawalRow :
            withdrawal' = [withdrawal EXCEPT ![w] = r] /\ r.status = "paid" /\ r.amount = row.amount
      BY <2>1, <2>5 DEF MarkPaid
    <3>2. row.status = "processing" /\ wallet' = [wallet EXCEPT !.pending = @ - row.amount]
      BY <2>5 DEF MarkPaid
    <3>3. /\ Requested(r) = 0 /\ Requested(row) = row.amount
          /\ Spent(r) = row.amount /\ Spent(row) = 0
      BY <3>1, <3>2 DEF Requested, Spent
    <3>4. /\ wallet' \in [available : Int, pending : Int]
          /\ wallet'.available = wallet.available
          /\ wallet'.pending = wallet.pending - row.amount
      BY <1>3, <3>2, BalancesAre DEF Books, Rows
    <3>5. Withdraws(w, r)
      BY <1>3, <3>1, <3>3, <3>4, BalancesAre DEF Withdraws
    <3> QED
      BY <3>1, <3>5
  <2> QED
    BY <2>2, <2>3, <2>4, <2>5
<1>5. PICK r \in WithdrawalRow :
        /\ Withdraws(w, r)
        /\ withdrawal' = [withdrawal EXCEPT ![w] = r]
        /\ wallet' \in [available : Int, pending : Int]
        /\ wallet'.pending = wallet.pending - Requested(row) + Requested(r)
        /\ wallet'.available + wallet'.pending =
             wallet.available + wallet.pending + Spent(row) - Spent(r)
  BY <1>4 DEF Withdraws
<1>6. WithdrawalRows' /\ withdrawal'[w] = r /\ \A v \in Withdrawals \ {w} : withdrawal'[v] = withdrawal[v]
  BY <1>5 DEF Books, Rows, WithdrawalRows
<1>7. /\ AllRequested' = AllRequested - Requested(row) + Requested(r)
      /\ AllSpent' = AllSpent - Spent(row) + Spent(r)
  BY <1>6, WithdrawalChanges DEF Books, Rows, WithdrawalRows
<1>8. Requested(r) \in Nat /\ Spent(r) \in Nat
  BY WithdrawalValue
<1>9. Rows'
  BY <1>1, <1>5, <1>6 DEF Books, Rows, EarningRows, SettlementRows
<1>10. wallet'.available \in Int /\ wallet'.pending \in Int
  BY <1>5
<1> QED
  BY <1>1, <1>2, <1>3, <1>5, <1>7, <1>8, <1>9, <1>10, BalancesAre, TotalsAreNat DEF Books, Ledger

LEMMA NextBooks == ASSUME Books, [Next]_vars PROVE Books'
<1> USE DEF Books
<1>1. IInv'
  BY NextInv
<1>2. ASSUME UNCHANGED <<earning, receivable, settlement, stripe, withdrawal>>,
             wallet' = wallet, account' \in [payable : Int, restricted : BOOLEAN],
             account'.payable = account.payable
      PROVE  Books'
  <2>1. Rows'
    BY <1>2 DEF Rows, EarningRows, SettlementRows, WithdrawalRows, stripe
  <2>2. /\ AllOwed' = AllOwed /\ AllCommission' = AllCommission /\ AllHeld' = AllHeld
        /\ AllEarned' = AllEarned /\ AllReceived' = AllReceived
        /\ AllRequested' = AllRequested /\ AllSpent' = AllSpent
    BY <1>2 DEF AllOwed, AllCommission, AllHeld, AllEarned, AllReceived, AllRequested, AllSpent
  <2> QED
    BY <1>1, <1>2, <2>1, <2>2 DEF Ledger
<1>3. CASE ReconcileCashRestrictions
  <2>1. /\ UNCHANGED <<earning, receivable, settlement, stripe, withdrawal>>
        /\ wallet' = wallet /\ account' = Account(account.payable)
    BY <1>3 DEF ReconcileCashRestrictions
  <2> QED
    BY <1>2, <2>1, BalancesAre, AccountType
<1>4. ASSUME NEW c \in CashBookings, NEW r \in CashRefunds, GrantCashRefund(r, c) PROVE Books'
  <2>1. /\ UNCHANGED <<earning, receivable, settlement, stripe, withdrawal>>
        /\ wallet' = wallet /\ account' = account
    BY <1>4 DEF GrantCashRefund
  <2> QED
    BY <1>2, <2>1 DEF Rows
<1>5. CASE UNCHANGED vars
  BY <1>2, <1>5 DEF vars, stripe, Rows
<1>6. ASSUME NEW e \in Earnings,
             CreatePendingEarning(e) \/ ReleaseMatureEarning(e) \/ ApplyRefundAdjustment(e)
      PROVE  Books'
  BY <1>1, <1>6, CreatePendingEarningLedger, ReleaseMatureEarningLedger, ApplyRefundAdjustmentLedger
<1>7. ASSUME NEW c \in CashBookings, ConfirmCashCollection(c) PROVE Books'
  BY <1>1, <1>7, ConfirmCashCollectionLedger
<1>8. ASSUME NEW r \in CashRefunds, ConfirmCashRefund(r) PROVE Books'
  BY <1>1, <1>8, ConfirmCashRefundLedger
<1>9. ASSUME NEW s \in Settlements, Quiet(s) \/ Paying(s) PROVE Books'
  BY <1>1, <1>9, SettlementLedger
<1>10. ASSUME NEW w \in Withdrawals,
              RequestWithdrawal(w) \/ ApprovePayout(w) \/ ReturnWithdrawal(w) \/ MarkPaid(w)
       PROVE  Books'
  BY <1>1, <1>10, WithdrawalLedger
<1> HIDE DEF Books
<1> QED
  BY <1>3, <1>4, <1>5, <1>6, <1>7, <1>8, <1>9, <1>10 DEF Next, Quiet, Paying

-----------------------------------------------------------------------------
(* What the balances by rows say. *)

LEMMA PayableMeans == ASSUME Books PROVE PayableIsCollectible
<1> DEFINE collectible == {b \in CashBookings : Collectible(b)}
           some == [c \in collectible |-> receivable[c].outstanding]
           all == [c \in CashBookings |-> receivable[c].outstanding]
<1>1. \A c \in CashBookings : receivable[c] \in Row /\ Balanced(receivable[c])
  BY DEF Books, IInv
<1>2. \A c \in CashBookings : receivable[c].outstanding \in Nat
  BY <1>1, ReceivableValue
<1>3. collectible \subseteq CashBookings /\ some \in [collectible -> Nat] /\ all \in [CashBookings -> Nat]
  BY <1>2
<1>4. ASSUME NEW c \in CashBookings PROVE all[c] = IF c \in collectible THEN some[c] ELSE 0
  <2>1. receivable[c].outstanding > 0 => Collectible(c)
    BY <1>1 DEF Balanced, Collectible
  <2> QED
    BY <1>2, <2>1
<1>5. account.payable = Sum(all)
  BY DEF Books, Ledger, AllOwed
<1>6. PayableIsCollectible <=> account.payable = Sum(some)
  BY DEF PayableIsCollectible
<1> HIDE DEF collectible, some, all
<1>7. Sum(some) = Sum(all)
  BY <1>3, <1>4, SumWhere
<1> QED
  BY <1>5, <1>6, <1>7

\* The sums over the rows of a kind are the sums over all rows.
LEMMA EarningSums ==
  ASSUME Books
  PROVE  /\ AllHeld = Sum([e \in {d \in RecordedEarnings : ~earning[d].released} |-> Net - earning[e].reversed])
         /\ AllEarned = Sum([e \in RecordedEarnings |-> Net - earning[e].reversed])
<1> DEFINE unreleased == {d \in RecordedEarnings : ~earning[d].released}
           held == [e \in unreleased |-> Net - earning[e].reversed]
           earned == [e \in RecordedEarnings |-> Net - earning[e].reversed]
           allHeld == [e \in Earnings |-> Held(earning[e])]
           allEarned == [e \in Earnings |-> Earned(earning[e])]
<1>1. \A e \in Earnings : /\ Net - earning[e].reversed \in Nat
                          /\ Held(earning[e]) \in Nat /\ Earned(earning[e]) \in Nat
  BY EarningValue, NetIsNat DEF Books, Rows, EarningRows, EarningRow
<1>2. /\ unreleased \subseteq Earnings /\ RecordedEarnings \subseteq Earnings
      /\ held \in [unreleased -> Nat] /\ earned \in [RecordedEarnings -> Nat]
      /\ allHeld \in [Earnings -> Nat] /\ allEarned \in [Earnings -> Nat]
  BY <1>1 DEF RecordedEarnings
<1>3. \A e \in Earnings : /\ allHeld[e] = IF e \in unreleased THEN held[e] ELSE 0
                          /\ allEarned[e] = IF e \in RecordedEarnings THEN earned[e] ELSE 0
  BY DEF RecordedEarnings, Held, Earned
<1>4. AllHeld = Sum(allHeld) /\ AllEarned = Sum(allEarned)
  BY DEF AllHeld, AllEarned
<1> SUFFICES AllHeld = Sum(held) /\ AllEarned = Sum(earned)
  OBVIOUS
<1> HIDE DEF unreleased, held, earned, allHeld, allEarned
<1> QED
  BY <1>2, <1>3, <1>4, SumWhere

LEMMA CommissionSum ==
  ASSUME Books PROVE AllCommission = Sum([c \in ConfirmedBookings |-> Payable - receivable[c].reversed])
<1> DEFINE some == [c \in ConfirmedBookings |-> Payable - receivable[c].reversed]
           all == [c \in CashBookings |-> Commission(receivable[c])]
<1>1. \A c \in CashBookings : receivable[c] \in Row /\ Balanced(receivable[c])
  BY DEF Books, IInv
<1>2. \A c \in CashBookings : Payable - receivable[c].reversed \in Nat /\ Commission(receivable[c]) \in Nat
  BY <1>1, ReceivableValue, PayableIsNat DEF Row, Balanced
<1>3. /\ ConfirmedBookings \subseteq CashBookings /\ some \in [ConfirmedBookings -> Nat]
      /\ all \in [CashBookings -> Nat]
  BY <1>2 DEF ConfirmedBookings
<1>4. \A c \in CashBookings : all[c] = IF c \in ConfirmedBookings THEN some[c] ELSE 0
  BY DEF ConfirmedBookings, Commission
<1>5. AllCommission = Sum(all)
  BY DEF AllCommission
<1> SUFFICES AllCommission = Sum(some)
  OBVIOUS
<1> HIDE DEF some, all
<1> QED
  BY <1>3, <1>4, <1>5, SumWhere

LEMMA ReceivedSum == ASSUME Books PROVE AllReceived = Sum([s \in PaidIn |-> settlement[s].amount])
<1> DEFINE some == [s \in PaidIn |-> settlement[s].amount]
           all == [s \in Settlements |-> Received(settlement[s])]
<1>1. \A s \in Settlements : settlement[s].amount \in Nat /\ Received(settlement[s]) \in Nat
  BY SettlementValue DEF Books, Rows, SettlementRows, SettlementRow
<1>2. PaidIn \subseteq Settlements /\ some \in [PaidIn -> Nat] /\ all \in [Settlements -> Nat]
  BY <1>1 DEF PaidIn
<1>3. \A s \in Settlements : all[s] = IF s \in PaidIn THEN some[s] ELSE 0
  BY DEF PaidIn, Received
<1>4. AllReceived = Sum(all)
  BY DEF AllReceived
<1> SUFFICES AllReceived = Sum(some)
  OBVIOUS
<1> HIDE DEF some, all
<1> QED
  BY <1>2, <1>3, <1>4, SumWhere

LEMMA WithdrawalSums ==
  ASSUME Books
  PROVE  /\ AllRequested = Sum([w \in OpenWithdrawals |-> withdrawal[w].amount])
         /\ AllSpent = Sum([w \in PaidOut |-> withdrawal[w].amount])
<1> DEFINE open == [w \in OpenWithdrawals |-> withdrawal[w].amount]
           paid == [w \in PaidOut |-> withdrawal[w].amount]
           allRequested == [w \in Withdrawals |-> Requested(withdrawal[w])]
           allSpent == [w \in Withdrawals |-> Spent(withdrawal[w])]
<1>1. \A w \in Withdrawals : /\ withdrawal[w].amount \in Nat
                             /\ Requested(withdrawal[w]) \in Nat /\ Spent(withdrawal[w]) \in Nat
  BY WithdrawalValue DEF Books, Rows, WithdrawalRows, WithdrawalRow
<1>2. /\ OpenWithdrawals \subseteq Withdrawals /\ PaidOut \subseteq Withdrawals
      /\ open \in [OpenWithdrawals -> Nat] /\ paid \in [PaidOut -> Nat]
      /\ allRequested \in [Withdrawals -> Nat] /\ allSpent \in [Withdrawals -> Nat]
  BY <1>1 DEF OpenWithdrawals, PaidOut
<1>3. \A w \in Withdrawals : /\ allRequested[w] = IF w \in OpenWithdrawals THEN open[w] ELSE 0
                             /\ allSpent[w] = IF w \in PaidOut THEN paid[w] ELSE 0
  BY DEF OpenWithdrawals, PaidOut, Requested, Spent
<1>4. AllRequested = Sum(allRequested) /\ AllSpent = Sum(allSpent)
  BY DEF AllRequested, AllSpent
<1> SUFFICES AllRequested = Sum(open) /\ AllSpent = Sum(paid)
  OBVIOUS
<1> HIDE DEF open, paid, allRequested, allSpent
<1> QED
  BY <1>2, <1>3, <1>4, SumWhere

LEMMA BooksType == ASSUME Books PROVE TypeOK
<1> USE DEF None
<1>1. wallet \in [available : Int, pending : Nat] /\ account \in [payable : Nat, restricted : BOOLEAN]
  <2>1. wallet.pending \in Nat /\ account.payable \in Nat
    BY TotalsAreNat DEF Books, Ledger
  <2> QED
    BY <2>1, BalancesAre DEF Books, Rows
<1>2. receivable \in [CashBookings ->
        [status : {None, "outstanding", "partially_settled", "settled", "partially_reversed",
                   "reversed"},
         at : Nat, outstanding : 0 .. Payable, settled : 0 .. Payable, reversed : 0 .. Payable,
         reimbursed : 0 .. Payable]]
  <2> DEFINE rows == [status : {None, "outstanding", "partially_settled", "settled", "partially_reversed",
                                "reversed"},
                      at : Nat, outstanding : 0 .. Payable, settled : 0 .. Payable,
                      reversed : 0 .. Payable, reimbursed : 0 .. Payable]
  <2>1. ASSUME NEW c \in CashBookings PROVE receivable[c] \in rows
    <3>1. receivable[c] \in Row /\ Balanced(receivable[c])
      BY DEF Books, IInv
    <3>2. /\ receivable[c].outstanding \in 0 .. Payable /\ receivable[c].settled \in 0 .. Payable
          /\ receivable[c].reversed \in 0 .. Payable /\ receivable[c].reimbursed \in 0 .. Payable
      BY <3>1, PayableIsNat DEF Row, Balanced
    <3> QED
      BY <3>1, <3>2 DEF Row, Statuses
  <2> QED
    BY <2>1 DEF Books, IInv
<1>3. refund \in [CashRefunds -> [status : {None, "pending", "confirmed"},
                                  booking : CashBookings \union {None}, amount : Nat]]
  BY DEF Books, IInv, RefundRow
<1> QED
  BY <1>1, <1>2, <1>3 DEF TypeOK, Books, Rows, EarningRows, EarningRow, SettlementRows, SettlementRow,
    Cards, CallStates, WithdrawalRows, WithdrawalRow

\* The inductive invariant: the rows are well-formed, each receivable is balanced
\* and the three balances of wallet and account are sums over the rows.
THEOREM BooksKept == Spec => []Books
<1>1. Init => Books
  BY InitInv, InitLedger DEF Books
<1> QED
  BY <1>1, NextBooks, PTL DEF Spec

\* Rows, balances and calls keep their types for any number of rows and any
\* amounts; neither the payable nor the pending balance ever falls below zero.
THEOREM TypeCorrect == Spec => []TypeOK
  BY BooksKept, BooksType, PTL

\* The payable of the account is what applyPayableSettlement can still collect
\* from the receivables, after any releases, settlements and cash refunds.
THEOREM PayablesAreCollectible == Spec => []PayableIsCollectible
  BY BooksKept, PayableMeans, PTL

\* The pending balance is to the unit the unreleased earnings and the
\* withdrawals under way (tasker-finance.service.ts, tasker-wallet.service.ts).
THEOREM PendingIsBacked == Spec => []PendingBacked
<1>1. Books => PendingBacked
  BY EarningSums, WithdrawalSums DEF Books, Ledger, PendingBacked
<1> QED
  BY <1>1, BooksKept, PTL

\* No operation on the books of a Tasker creates or loses money, whatever the
\* payments from outside, the refunds and the payouts.
THEOREM BooksAlwaysBalance == Spec => []BooksBalance
<1>1. Books => BooksBalance
  BY EarningSums, CommissionSum, ReceivedSum, WithdrawalSums DEF Books, Ledger, BooksBalance
<1> QED
  BY <1>1, BooksKept, PTL
=============================================================================
