----------------------- MODULE FinalSettlementProofs -----------------------
(***************************************************************************)
(* Proofs about FinalSettlement, for any number of settlement calls, cards *)
(* and amounts: a paid booking has its earning, every credit is backed by  *)
(* money that came in, and settling implements MoneyOnce.                  *)
(***************************************************************************)
EXTENDS FinalSettlement, TLAPS

\* What a call knows at each of its steps, whatever the others did meanwhile.
Informed(c) ==
  /\ call[c].pc \in {"wallet", "stripe", "create"} => call[c].amount > 0
  /\ call[c].pc = "settle" =>
       /\ call[c].amount = call[c].total - booking.captured
       /\ call[c].amount <= 0 /\ call[c].total > 0
  /\ call[c].pc = "create" => call[c].card \in Cards
  /\ call[c].pc = "confirm" => intent.status # "none"
  /\ call[c].pc = "reconcile" => intent.status = "succeeded"
  /\ call[c].pc \in {"record", "record_confirm", "record_error"} => call[c].seen \in Answers
  /\ call[c].pc \in {"record", "record_confirm"} /\ call[c].seen = "succeeded" =>
       intent.status = "succeeded"

\* What was announced, or answered, as a success is one; Stripe refunds only
\* what the table asks for.
Announces ==
  /\ "refund" \in events => refund # "none"
  /\ refund # "none" => underuse # NoUnderuse
  /\ "succeeded" \in events => intent.status = "succeeded"
  /\ intent.answer = "succeeded" => intent.status = "succeeded"

\* The wallet is debited, and the unused rest returned, with an earning.
Together ==
  /\ wallet.debit # 0 \/ underuse # NoUnderuse => earning # NoEarning
  /\ earning.ref = "acceptance" /\ underuse = NoUnderuse => earning.gross >= booking.captured

Books == PaidSettled /\ CreditBacked /\ Together

IInv == TypeOK /\ (\A c \in Calls : Informed(c)) /\ Announces /\ Books

UnderuseRow == [provider : {"stripe", "internal_wallet"}, amount : Nat \ {0},
                status : {"pending", "processing", "succeeded", "failed"}]
EarningRow == [ref : {"acceptance", "wallet", "intent"}, net : Nat, gross : Nat \ {0}]
IntentRow == [status : Answers, amount : Nat \ {0}, card : Cards, answer : Answers]
CallRow == [pc : Pcs, card : Cards \union {"none"}, amount : Int, total : Nat,
            seen : Answers \union {"none"}]

\* What the card has paid.
Charged == IF intent.status = "succeeded" THEN intent.amount ELSE 0

\* A step of the promise, or none.
Moves == [Promise!Next]_(Promise!vars)

Keeps == IInv' /\ Moves

-----------------------------------------------------------------------------
(* Rows that do not exist, and amounts. *)

LEMMA Absent ==
  /\ NoEarning.ref = "none" /\ NoEarning.net = 0 /\ NoEarning.gross = 0
  /\ NoUnderuse.amount = 0 /\ NoUnderuse.status = "none"
  /\ NoIntent.status = "none" /\ NoIntent.amount = 0 /\ NoIntent.answer = "none"
  BY DEF NoEarning, NoUnderuse, NoIntent

LEMMA RowAmounts ==
  ASSUME NEW b \in BookingRow
  PROVE /\ b.cost \in Nat \ {0} /\ b.tip \in Nat /\ Fee \in Nat
        /\ b.captured \in Nat /\ b.charged \in Nat
<1>1. /\ b.cost \in Costs /\ b.tip \in Tips /\ b.captured \in Captures \union {0}
      /\ b.charged \in Nat
  BY DEF BookingRow
<1>2. /\ Captures \subseteq Nat /\ Costs \subseteq Nat \ {0} /\ Tips \subseteq Nat
      /\ Fee \in Nat
  BY AmountsAssumption
<1>3. ASSUME NEW n \in Captures \union {0} PROVE n \in Nat
  <2>1. CASE n \in Captures
    BY <1>2, <2>1
  <2>2. CASE n \in {0}
    BY <2>2
  <2> QED
    BY <2>1, <2>2
<1> QED
  BY <1>1, <1>2, <1>3

LEMMA Amounts ==
  ASSUME TypeOK
  PROVE /\ booking.captured \in Nat /\ booking.charged \in Nat
        /\ wallet.debit \in Nat /\ wallet.credit \in Nat
        /\ intent.amount \in Nat /\ (intent.status # "none" => intent.amount > 0)
        /\ underuse.amount \in Nat /\ (underuse # NoUnderuse => underuse.amount > 0)
        /\ earning.gross \in Nat /\ (earning # NoEarning => earning.gross > 0)
        /\ Charged \in Nat
<1>1. booking.captured \in Nat /\ booking.charged \in Nat
  BY RowAmounts DEF TypeOK
<1>2. intent.amount \in Nat /\ (intent.status # "none" => intent.amount > 0)
  BY Absent DEF TypeOK
<1>3. underuse.amount \in Nat /\ (underuse # NoUnderuse => underuse.amount > 0)
  BY Absent DEF TypeOK
<1>4. earning.gross \in Nat /\ (earning # NoEarning => earning.gross > 0)
  BY Absent DEF TypeOK
<1>5. wallet.debit \in Nat /\ wallet.credit \in Nat
  BY DEF TypeOK
<1> QED
  BY <1>1, <1>2, <1>3, <1>4, <1>5 DEF Charged

LEMMA PricesAreNat ==
  ASSUME NEW b \in BookingRow
  PROVE Total(b) \in Nat \ {0} /\ Net(b) \in Nat /\ Due(b) \in Int
  BY RowAmounts DEF Total, Net, Due

-----------------------------------------------------------------------------
(* Calls. *)

\* A call that moves on leaves the others where they are.
LEMMA CallMoves ==
  ASSUME TypeOK, NEW c \in Calls, NEW row \in CallRow, call' = [call EXCEPT ![c] = row]
  PROVE /\ call' \in [Calls -> CallRow] /\ call'[c] = row
        /\ \A q \in Calls \ {c} : call'[q] = call[q]
  BY DEF TypeOK, CallRow

LEMMA IdleIs == Idle \in CallRow /\ Idle.pc = "idle"
  BY DEF Idle, CallRow, Pcs

\* Nothing a call knows is undone by the steps of others.
Monotone ==
  /\ booking'.captured = booking.captured
  /\ intent.status # "none" => intent'.status # "none"
  /\ intent.status = "succeeded" => intent'.status = "succeeded"

LEMMA OthersInformed ==
  ASSUME \A q \in Calls : Informed(q), Monotone, NEW q \in Calls, call'[q] = call[q]
  PROVE Informed(q)'
  BY DEF Informed, Monotone

LEMMA CallEnds ==
  ASSUME IInv, Monotone, NEW c \in Calls, End(c)
  PROVE call' \in [Calls -> CallRow] /\ \A q \in Calls : Informed(q)'
<1>1. /\ call' \in [Calls -> CallRow] /\ call'[c] = Idle
      /\ \A q \in Calls \ {c} : call'[q] = call[q]
  BY IdleIs, CallMoves DEF End, IInv
<1>2. Informed(c)'
  BY <1>1, IdleIs DEF Informed
<1> QED
  BY <1>1, <1>2, OthersInformed DEF IInv

LEMMA CallsWait ==
  ASSUME IInv, Monotone, UNCHANGED call
  PROVE call' \in [Calls -> CallRow] /\ \A q \in Calls : Informed(q)'
<1>1. call' \in [Calls -> CallRow]
  BY DEF IInv, TypeOK, CallRow
<1> QED
  BY <1>1, OthersInformed DEF IInv

\* A call that only turns to its next step.
LEMMA CallTurns ==
  ASSUME IInv, Monotone, NEW c \in Calls, NEW row \in CallRow,
         call' = [call EXCEPT ![c] = row], Informed(c)'
  PROVE call' \in [Calls -> CallRow] /\ \A q \in Calls : Informed(q)'
<1>1. /\ call' \in [Calls -> CallRow]
      /\ \A q \in Calls \ {c} : call'[q] = call[q]
  BY CallMoves DEF IInv
<1> QED
  BY <1>1, OthersInformed DEF IInv

LEMMA GoesTo ==
  ASSUME TypeOK, NEW c \in Calls, NEW pc \in Pcs, Goto(c, pc)
  PROVE \E row \in CallRow :
          /\ call' = [call EXCEPT ![c] = row]
          /\ row.pc = pc /\ row.card = call[c].card /\ row.amount = call[c].amount
          /\ row.total = call[c].total /\ row.seen = call[c].seen
<1> DEFINE row == [call[c] EXCEPT !.pc = pc]
<1>1. /\ row \in CallRow
      /\ row.pc = pc /\ row.card = call[c].card /\ row.amount = call[c].amount
      /\ row.total = call[c].total /\ row.seen = call[c].seen
  BY DEF TypeOK, CallRow
<1>2. call' = [call EXCEPT ![c] = row]
  BY DEF Goto
<1> HIDE DEF row
<1> QED
  BY <1>1, <1>2

\* A step that begins a settlement.
LEMMA Begins ==
  ASSUME IInv, Monotone, NEW c \in Calls, ThenFinalize(c)
  PROVE call' \in [Calls -> CallRow] /\ \A q \in Calls : Informed(q)'
<1>1. Goto(c, "read") /\ "read" \in Pcs
  BY DEF ThenFinalize, Goto, Pcs
<1>2. PICK row \in CallRow : call' = [call EXCEPT ![c] = row] /\ row.pc = "read"
  <2> DEFINE pc == "read"
  <2>1. pc \in Pcs /\ pc = "read" /\ Goto(c, pc)
    BY <1>1
  <2> HIDE DEF pc
  <2> QED
    BY <2>1, GoesTo DEF IInv
<1>3. call'[c] = row
  BY <1>2, CallMoves DEF IInv
<1>4. Informed(c)'
  BY <1>2, <1>3 DEF Informed
<1> QED
  BY <1>2, <1>4, CallTurns

-----------------------------------------------------------------------------
(* Steps that credit nobody. *)

\* Credit and return stand; what came in does not shrink; a booking that reads
\* as paid did so before.
Stands ==
  /\ booking' \in BookingRow /\ booking'.captured = booking.captured
  /\ booking'.payment = "paid" => booking.payment = "paid" /\ booking'.charged = booking.charged
  /\ UNCHANGED <<underuse, earning, wallet>>

\* The tables and Stripe objects that a step of a row may leave alone.
Others ==
  /\ charge' \in Answers \union {"none", "failed"}
  /\ cash' \in Nat
  /\ refund' \in {"none", "processing", "succeeded", "failed"}
  /\ events' \subseteq {"succeeded", "failed", "refund"}

LEMMA RowSteps ==
  ASSUME IInv, Stands, Others, UNCHANGED <<intent, refund>>, events' \subseteq events,
         call' \in [Calls -> CallRow] /\ \A q \in Calls : Informed(q)'
  PROVE Keeps
<1>1. TypeOK'
  BY DEF IInv, TypeOK, Stands, Others, CallRow
<1>2. Announces'
  BY DEF IInv, Announces, Stands
<1>3. Books'
  BY DEF IInv, Books, PaidSettled, CreditBacked, Together, Stands, Received, Returned
<1>4. UNCHANGED Promise!vars
  BY DEF Stands, Promise!vars, Returned
<1> QED
  BY <1>1, <1>2, <1>3, <1>4 DEF IInv, Keeps, Moves

LEMMA OthersStand ==
  IInv /\ UNCHANGED <<charge, cash, refund>> /\ events' \subseteq events => Others
  BY DEF IInv, TypeOK, Others

\* A settlement starts, or a person or an event only changes the row.
LEMMA RequestsKeep ==
  ASSUME IInv,
         \E c \in Calls : Complete(c) \/ RetryWithCard(c) \/ Retry(c)
                            \/ ApproveDurationReview(c) \/ ReleaseDisputeHold(c)
  PROVE Keeps
<1>1. PICK c \in Calls : Complete(c) \/ RetryWithCard(c) \/ Retry(c)
                            \/ ApproveDurationReview(c) \/ ReleaseDisputeHold(c)
  OBVIOUS
<1>2. booking \in BookingRow
  BY DEF IInv, TypeOK
<1>3. UNCHANGED <<charge, underuse, earning, cash, wallet, intent, refund, events>>
  BY <1>1 DEF Complete, RetryWithCard, Retry, ApproveDurationReview, ReleaseDisputeHold,
              stripe, rows
<1>4. Stands
  <2>1. ASSUME NEW card \in Cards, booking' = RetryReady(booking, card) PROVE Stands
    BY <1>2, <1>3, <2>1 DEF RetryReady, Stands, BookingRow, PaymentStatuses
  <2>2. CASE Complete(c)
    BY <1>2, <1>3, <2>2 DEF Complete, Stands, BookingRow
  <2>3. CASE RetryWithCard(c)
    BY <2>1, <2>3 DEF RetryWithCard
  <2>4. CASE Retry(c)
    BY <1>2, <1>3, <2>4 DEF Retry, rows, Stands
  <2>5. CASE ApproveDurationReview(c)
    BY <1>2, <1>3, <2>5 DEF ApproveDurationReview, Stands, BookingRow, PaymentStatuses
  <2>6. CASE ReleaseDisputeHold(c)
    BY <1>2, <1>3, <2>6 DEF ReleaseDisputeHold, Stands, BookingRow, PaymentStatuses
  <2> QED
    BY <1>1, <2>2, <2>3, <2>4, <2>5, <2>6
<1>5. Monotone
  BY <1>3, <1>4 DEF Monotone, Stands
<1>6. ThenFinalize(c) \/ UNCHANGED call
  BY <1>1 DEF Complete, RetryWithCard, Retry, ApproveDurationReview, ReleaseDisputeHold
<1>7. call' \in [Calls -> CallRow] /\ \A q \in Calls : Informed(q)'
  BY <1>5, <1>6, Begins, CallsWait
<1> QED
  BY <1>3, <1>4, <1>7, OthersStand, RowSteps

LEMMA WaitingKeeps ==
  ASSUME IInv, FileComplaint \/ CloseDispute \/ UpdateBilling \/ ConfirmCashCollection
                 \/ EventFailed
  PROVE Keeps
<1>1. booking \in BookingRow /\ booking.charged \in Nat
  BY Amounts DEF IInv, TypeOK
<1>2. UNCHANGED <<underuse, earning, wallet, intent, refund, call>> /\ events' \subseteq events
  BY DEF FileComplaint, CloseDispute, UpdateBilling, ConfirmCashCollection, EventFailed, stripe
<1>3. Stands
  <2>1. CASE FileComplaint
    BY <1>1, <1>2, <2>1 DEF FileComplaint, Stands, BookingRow, PaymentStatuses
  <2>2. CASE CloseDispute
    BY <1>1, <1>2, <2>2 DEF CloseDispute, Stands, BookingRow, PaymentStatuses
  <2>3. CASE UpdateBilling
    BY <1>1, <1>2, <2>3 DEF UpdateBilling, Stands, BookingRow, PaymentStatuses
  <2>4. CASE ConfirmCashCollection
    BY <1>1, <1>2, <2>4 DEF ConfirmCashCollection, Stands, BookingRow, PaymentStatuses
  <2>5. CASE EventFailed
    BY <1>1, <1>2, <2>5 DEF EventFailed, Stands, BookingRow, PaymentStatuses
  <2> QED
    BY <2>1, <2>2, <2>3, <2>4, <2>5
<1>4. Others
  BY <1>1, <1>2 DEF FileComplaint, CloseDispute, UpdateBilling, ConfirmCashCollection,
                    EventFailed, IInv, TypeOK, Others
<1>5. Monotone
  BY <1>2, <1>3 DEF Monotone, Stands
<1> QED
  BY <1>2, <1>3, <1>4, <1>5, CallsWait, RowSteps

\* A call gives up, or writes a status that is not "paid".
LEMMA EndingsKeep ==
  ASSUME IInv, NEW c \in Calls,
         CallInterrupted(c) \/ WriteStatus(c) \/ PrepareCash(c) \/ RecordError(c)
  PROVE Keeps
<1>1. booking \in BookingRow /\ call[c] \in CallRow /\ call[c].total \in Nat
  BY DEF IInv, TypeOK, CallRow
<1>2. UNCHANGED <<underuse, earning, cash, wallet, intent, refund, events>> /\ End(c)
  BY DEF CallInterrupted, WriteStatus, PrepareCash, RecordError, rows, stripe
<1>3. Stands /\ Others
  <2>1. CASE CallInterrupted(c)
    BY <1>1, <1>2, <2>1, OthersStand DEF CallInterrupted, Stands, rows
  <2>2. CASE WriteStatus(c)
    BY <1>1, <1>2, <2>2, OthersStand DEF WriteStatus, Stands, BookingRow, PaymentStatuses
  <2>3. CASE PrepareCash(c)
    BY <1>1, <1>2, <2>3, OthersStand DEF PrepareCash, Stands, BookingRow, PaymentStatuses
  <2>4. CASE RecordError(c)
    <3>1. call[c].seen \in Answers
      BY <2>4 DEF RecordError, At, IInv, Informed
    <3>2. MapStripeIntentStatus(call[c].seen) \in PaymentStatuses \ {"paid"}
      BY <3>1 DEF MapStripeIntentStatus, Answers, PaymentStatuses
    <3>3. Stands
      BY <1>1, <1>2, <2>4, <3>2 DEF RecordError, Stands, BookingRow
    <3>4. Others
      BY <1>2, <2>4, <3>1 DEF RecordError, Others, IInv, TypeOK
    <3> QED
      BY <3>3, <3>4
  <2> QED
    BY <2>1, <2>2, <2>3, <2>4
<1>4. Monotone
  BY <1>2, <1>3 DEF Monotone, Stands
<1> QED
  BY <1>2, <1>3, <1>4, CallEnds, RowSteps

-----------------------------------------------------------------------------
(* Steps of a call that only move it. *)

LEMMA TurnsKeep ==
  ASSUME IInv, UNCHANGED <<rows, stripe>>, NEW c \in Calls, NEW row \in CallRow,
         call' = [call EXCEPT ![c] = row], Informed(c)'
  PROVE Keeps
<1>1. UNCHANGED <<booking, charge, underuse, earning, cash, wallet, intent, refund, events>>
  BY DEF rows, stripe
<1>2. Stands /\ Monotone /\ Others
  BY <1>1, OthersStand DEF Stands, Monotone, IInv, TypeOK
<1> QED
  BY <1>1, <1>2, CallTurns, RowSteps

LEMMA RouteIs ==
  ASSUME NEW b \in BookingRow
  PROVE /\ Route(b) \in Pcs \ {"create", "confirm", "reconcile", "record", "record_confirm",
                               "record_error"}
        /\ Route(b) \in {"wallet", "stripe"} => Due(b) > 0
        /\ Route(b) = "settle" => Due(b) <= 0
<1>1. Total(b) \in Nat \ {0} /\ Due(b) \in Int /\ b.captured \in Nat
  BY PricesAreNat, RowAmounts
<1>2. b.source \in {"stripe", "wallet", "cash"}
  BY DEF BookingRow
<1>3. Route(b) \in {"on_hold_dispute", "review_required_duration_exceeded", "cash", "settle",
                    "stripe", "wallet"}
  BY <1>2 DEF Route
<1>4. /\ Route(b) \in {"wallet", "stripe"} => ~(b.captured > 0 /\ Due(b) <= 0)
      /\ Route(b) = "settle" => Due(b) <= 0
  BY <1>2 DEF Route
<1>5. b.captured = 0 => Due(b) > 0
  BY <1>1 DEF Due
<1> QED
  BY <1>1, <1>3, <1>4, <1>5 DEF Pcs

LEMMA ReadKeeps == ASSUME IInv, NEW c \in Calls, FinalizeRead(c) PROVE Keeps
<1>1. booking \in BookingRow
  BY DEF IInv, TypeOK
<1> DEFINE row == [Idle EXCEPT !.pc = Route(booking), !.amount = Due(booking),
                               !.total = Total(booking)]
<1>2. CASE End(c)
  <2>1. CallInterrupted(c)
    BY <1>2 DEF CallInterrupted, FinalizeRead, At
  <2> QED
    BY <2>1, EndingsKeep
<1>3. CASE call' = [call EXCEPT ![c] = row]
  <2>1. /\ row \in CallRow /\ row.pc = Route(booking) /\ row.amount = Due(booking)
        /\ row.total = Total(booking)
    BY <1>1, PricesAreNat, RouteIs, IdleIs DEF CallRow
  <2>2. call'[c] = row
    <3> HIDE DEF row
    <3> QED BY <1>3, <2>1, CallMoves DEF IInv
  <2> HIDE DEF row
  <2>3. UNCHANGED <<rows, stripe>>
    BY DEF FinalizeRead
  <2>4. Informed(c)'
    <3>1. booking' = booking /\ Total(booking) \in Nat \ {0} /\ booking.captured \in Nat
      BY <1>1, <2>3, PricesAreNat, RowAmounts DEF rows
    <3> QED
      BY <1>1, <2>1, <2>2, <3>1, RouteIs DEF Informed, Due
  <2> QED
    BY <1>3, <2>1, <2>3, <2>4, TurnsKeep
<1> QED
  BY <1>2, <1>3 DEF FinalizeRead

-----------------------------------------------------------------------------
(* The card charge. *)

LEMMA SeenIs == ASSUME IInv, NEW c \in Calls PROVE call[c] \in CallRow
  BY DEF IInv, TypeOK, CallRow

LEMMA StartKeeps == ASSUME IInv, NEW c \in Calls, StartCharge(c) PROVE Keeps
<1> DEFINE pc == CASE booking.card = "none" -> "payment_method_required"
                   [] booking.card # "none" /\ charge = "none" -> "create"
                   [] OTHER -> "retrieve"
           row == [call[c] EXCEPT !.card = booking.card, !.pc = pc]
<1>1. booking.card \in Cards \union {"none"} /\ booking' = booking /\ intent' = intent
  BY DEF IInv, TypeOK, BookingRow, StartCharge, rows, stripe
<1>2. /\ pc \in {"payment_method_required", "create", "retrieve"}
      /\ pc = "create" => booking.card \in Cards
  BY <1>1
<1>3. /\ call' = [call EXCEPT ![c] = row] /\ UNCHANGED <<rows, stripe>>
      /\ call[c].pc = "stripe" /\ call[c].amount > 0
  BY DEF StartCharge, At, IInv, Informed
<1> HIDE DEF pc
<1>4. /\ row \in CallRow /\ row.pc = pc /\ row.card = booking.card
      /\ row.amount = call[c].amount
  BY <1>1, <1>2, SeenIs DEF CallRow, Pcs
<1> HIDE DEF row
<1>5. call'[c] = row
  BY <1>3, <1>4, CallMoves DEF IInv
<1>6. Informed(c)'
  BY <1>2, <1>3, <1>4, <1>5 DEF Informed
<1> QED
  BY <1>3, <1>4, <1>6, TurnsKeep

LEMMA IdleCallKeeps ==
  ASSUME IInv, NEW c \in Calls, ~At(c, "idle"), End(c), UNCHANGED <<rows, stripe>>
  PROVE Keeps
  BY EndingsKeep DEF CallInterrupted

LEMMA RetrieveKeeps == ASSUME IInv, NEW c \in Calls, RetrieveIntent(c) PROVE Keeps
<1>1. UNCHANGED <<rows, stripe>> /\ ~At(c, "idle") /\ intent' = intent
  BY DEF RetrieveIntent, At, stripe
<1>2. CASE End(c)
  BY <1>1, <1>2, IdleCallKeeps
<1>3. CASE intent.status = "succeeded" /\ Goto(c, "reconcile")
  <2> DEFINE pc == "reconcile"
  <2>1. pc \in Pcs /\ pc = "reconcile" /\ Goto(c, pc)
    BY <1>3 DEF Pcs
  <2> HIDE DEF pc
  <2>2. PICK row \in CallRow : call' = [call EXCEPT ![c] = row] /\ row.pc = pc
    BY <2>1, GoesTo DEF IInv
  <2>3. call'[c] = row
    BY <2>2, CallMoves DEF IInv
  <2>4. Informed(c)'
    BY <1>1, <1>3, <2>1, <2>2, <2>3 DEF Informed
  <2> QED
    BY <1>1, <2>2, <2>4, TurnsKeep
<1>4. CASE /\ intent.status = "requires_payment_method"
           /\ call' = [call EXCEPT ![c].card = booking.card,
                         ![c].pc = IF booking.card = "none" THEN "payment_method_required"
                                                            ELSE "confirm"]
  <2> DEFINE pc == IF booking.card = "none" THEN "payment_method_required" ELSE "confirm"
             row == [call[c] EXCEPT !.card = booking.card, !.pc = pc]
  <2>1. booking.card \in Cards \union {"none"}
    BY DEF IInv, TypeOK, BookingRow
  <2>2. pc \in {"payment_method_required", "confirm"} /\ call' = [call EXCEPT ![c] = row]
    BY <1>4
  <2> HIDE DEF pc
  <2>3. row \in CallRow /\ row.pc = pc
    BY <2>1, <2>2, SeenIs DEF CallRow, Pcs
  <2> HIDE DEF row
  <2>4. call'[c] = row
    BY <2>2, <2>3, CallMoves DEF IInv
  <2>5. Informed(c)'
    BY <1>1, <1>4, <2>2, <2>3, <2>4 DEF Informed
  <2> QED
    BY <1>1, <2>2, <2>3, <2>5, TurnsKeep
<1> QED
  BY <1>2, <1>3, <1>4 DEF RetrieveIntent

\* The intent comes to be, is confirmed or settles; it had not succeeded yet.
LEMMA IntentSteps ==
  ASSUME IInv, UNCHANGED <<rows, refund>>, intent.status # "succeeded",
         intent' \in IntentRow, events' = Announced(intent'.status),
         intent'.answer \in {intent.answer, intent'.status},
         call' \in [Calls -> CallRow], \A q \in Calls : Informed(q)'
  PROVE Keeps
<1>1. UNCHANGED <<booking, charge, underuse, earning, cash, wallet, refund>>
  BY DEF rows
<1>2. intent'.status \in Answers /\ intent'.amount \in Nat \ {0}
  BY DEF IntentRow
<1>3. /\ events' \subseteq events \union {"succeeded", "failed"}
      /\ "succeeded" \in events' => "succeeded" \in events \/ intent'.status = "succeeded"
      /\ "refund" \in events' => "refund" \in events
  BY <1>2 DEF Announced
<1>4. TypeOK'
  BY <1>1, <1>3 DEF IInv, TypeOK, IntentRow, CallRow
<1>5. Announces'
  BY <1>1, <1>3 DEF IInv, Announces
<1>6. Charged = 0 /\ Charged' \in Nat /\ (Charged' # 0 => Charged' \in Nat \ {0})
  BY <1>2 DEF Charged
<1>7. Books'
  <2>1. /\ booking.captured \in Nat /\ wallet.debit \in Nat
        /\ earning.gross \in Nat /\ underuse.amount \in Nat
    BY Amounts DEF IInv
  <2> QED
    BY <1>1, <1>6, <2>1
    DEF IInv, Books, PaidSettled, CreditBacked, Together, Received, Returned, Charged
<1>8. Moves
  <2>1. CASE Charged' = 0
    BY <1>1, <1>6, <2>1 DEF Moves, Promise!vars, Returned, Charged
  <2>2. CASE Charged' # 0
    <3>1. Promise!TakeFromCard
      BY <1>1, <1>6, <2>2 DEF Promise!TakeFromCard, Charged
    <3>2. Promise!Take
      BY <1>1, <3>1 DEF Promise!Take, Returned
    <3> QED
      BY <3>2 DEF Moves, Promise!Next
  <2> QED
    BY <2>1, <2>2
<1> QED
  BY <1>4, <1>5, <1>7, <1>8 DEF IInv, Keeps

\* A call that has its answer records it next.
LEMMA Answered ==
  ASSUME IInv, Monotone, NEW c \in Calls, NEW seen \in Answers,
         NEW pc \in {"record", "record_confirm", "record_error"},
         call' = [call EXCEPT ![c].pc = pc, ![c].seen = seen],
         pc # "record_error" /\ seen = "succeeded" => intent'.status = "succeeded"
  PROVE call' \in [Calls -> CallRow] /\ \A q \in Calls : Informed(q)'
<1>1. pc \in Pcs
  BY DEF Pcs
<1> DEFINE row == [call[c] EXCEPT !.pc = pc, !.seen = seen]
<1>2. row \in CallRow /\ row.pc = pc /\ row.seen = seen
  BY <1>1, SeenIs DEF CallRow
<1>3. call' = [call EXCEPT ![c] = row]
  OBVIOUS
<1> HIDE DEF row
<1>4. call'[c] = row
  BY <1>2, <1>3, CallMoves DEF IInv
<1>5. Informed(c)'
  BY <1>2, <1>4 DEF Informed
<1> QED
  BY <1>2, <1>3, <1>5, CallTurns

LEMMA IntentType ==
  IInv => intent = NoIntent \/ intent \in IntentRow
  BY DEF IInv, TypeOK, IntentRow

LEMMA CreateKeeps == ASSUME IInv, NEW c \in Calls, CreateIntent(c) PROVE Keeps
<1>1. UNCHANGED <<rows, refund>> /\ ~At(c, "idle") /\ booking' = booking
  BY DEF CreateIntent, At, rows
<1>2. call[c].amount > 0 /\ call[c].amount \in Int /\ call[c].card \in Cards
  BY SeenIs DEF CreateIntent, At, IInv, Informed, CallRow
<1>3. ASSUME NEW answer \in Answers, intent.status = "none",
             intent' = [status |-> answer, amount |-> call[c].amount,
                        card |-> call[c].card, answer |-> answer],
             events' = Announced(answer),
             call' = [call EXCEPT ![c].pc = "record", ![c].seen = answer]
      PROVE Keeps
  <2>1. intent' \in IntentRow /\ intent'.status = answer /\ intent'.answer = answer
    BY <1>2, <1>3 DEF IntentRow
  <2>2. Monotone
    BY <1>1, <1>3 DEF Monotone
  <2>3. call' \in [Calls -> CallRow] /\ \A q \in Calls : Informed(q)'
    BY <1>3, <2>1, <2>2, Answered
  <2> QED
    BY <1>1, <1>3, <2>1, <2>3, IntentSteps
<1>4. CASE /\ Replayed(c)
           /\ call' = [call EXCEPT ![c].pc = "record", ![c].seen = intent.answer]
           /\ UNCHANGED <<intent, events>>
  <2> DEFINE seen == intent.answer
  <2>1. seen \in Answers /\ (seen = "succeeded" => intent'.status = "succeeded")
    BY <1>4, IntentType, Absent DEF Replayed, IInv, Announces, IntentRow
  <2> HIDE DEF seen
  <2>2. call' = [call EXCEPT ![c].pc = "record", ![c].seen = seen]
    BY <1>4 DEF seen
  <2> DEFINE row == [call[c] EXCEPT !.pc = "record", !.seen = seen]
  <2>3. row \in CallRow /\ row.pc = "record" /\ row.seen = seen
    BY <2>1, SeenIs DEF CallRow, Pcs
  <2>4. call' = [call EXCEPT ![c] = row]
    BY <2>2
  <2> HIDE DEF row
  <2>5. call'[c] = row
    BY <2>3, <2>4, CallMoves DEF IInv
  <2>6. Informed(c)'
    BY <2>1, <2>3, <2>5 DEF Informed
  <2>7. UNCHANGED <<rows, stripe>>
    BY <1>1, <1>4 DEF stripe
  <2> QED
    BY <2>3, <2>4, <2>6, <2>7, TurnsKeep
<1>5. CASE End(c) /\ UNCHANGED <<intent, events>>
  BY <1>1, <1>5, IdleCallKeeps DEF stripe
<1> QED
  BY <1>3, <1>4, <1>5 DEF CreateIntent

LEMMA ConfirmKeeps == ASSUME IInv, NEW c \in Calls, ConfirmIntent(c) PROVE Keeps
<1>1. UNCHANGED <<rows, refund>> /\ booking' = booking /\ intent.status # "none"
  BY DEF ConfirmIntent, At, rows, IInv, Informed
<1>2. intent \in IntentRow
  BY <1>1, IntentType, Absent
<1>3. ASSUME NEW answer \in Answers,
             intent.status \in {"requires_payment_method", "requires_action"},
             intent' = [intent EXCEPT !.status = answer],
             events' = Announced(answer),
             call' = [call EXCEPT ![c].pc = "record_confirm", ![c].seen = answer]
      PROVE Keeps
  <2>1. intent' \in IntentRow /\ intent'.status = answer /\ intent'.answer = intent.answer
    BY <1>2, <1>3 DEF IntentRow
  <2>2. Monotone
    BY <1>1, <1>3, <2>1 DEF Monotone, Answers
  <2>3. call' \in [Calls -> CallRow] /\ \A q \in Calls : Informed(q)'
    BY <1>3, <2>1, <2>2, Answered
  <2> QED
    BY <1>1, <1>3, <2>1, <2>3, IntentSteps
<1>4. CASE /\ call' = [call EXCEPT ![c].pc = "record_error", ![c].seen = intent.status]
           /\ UNCHANGED <<intent, events>>
  <2> DEFINE seen == intent.status
  <2>1. seen \in Answers
    BY <1>2 DEF IntentRow
  <2> HIDE DEF seen
  <2>2. call' = [call EXCEPT ![c].pc = "record_error", ![c].seen = seen]
    BY <1>4 DEF seen
  <2> DEFINE row == [call[c] EXCEPT !.pc = "record_error", !.seen = seen]
  <2>3. row \in CallRow /\ row.pc = "record_error" /\ row.seen = seen
    BY <2>1, SeenIs DEF CallRow, Pcs
  <2>4. call' = [call EXCEPT ![c] = row]
    BY <2>2
  <2> HIDE DEF row
  <2>5. call'[c] = row
    BY <2>3, <2>4, CallMoves DEF IInv
  <2>6. Informed(c)'
    BY <2>1, <2>3, <2>5 DEF Informed
  <2>7. UNCHANGED <<rows, stripe>>
    BY <1>1, <1>4 DEF stripe
  <2> QED
    BY <2>3, <2>4, <2>6, <2>7, TurnsKeep
<1> QED
  BY <1>3, <1>4 DEF ConfirmIntent

LEMMA SettlesKeep == IInv /\ IntentSettles => Keeps
<1> SUFFICES ASSUME IInv, IntentSettles PROVE Keeps
  OBVIOUS
<1>1. PICK status \in {"succeeded", "requires_payment_method"} :
        /\ intent' = [intent EXCEPT !.status = status] /\ events' = Announced(status)
  BY DEF IntentSettles
<1>2. /\ UNCHANGED <<rows, refund, call>> /\ booking' = booking
      /\ intent.status \in {"processing", "requires_action", "requires_payment_method"}
  BY DEF IntentSettles, rows
<1>3. intent \in IntentRow
  BY <1>2, IntentType, Absent
<1>4. intent' \in IntentRow /\ intent'.status = status /\ intent'.answer = intent.answer
  BY <1>1, <1>3 DEF IntentRow, Answers
<1>5. Monotone
  BY <1>2, <1>4 DEF Monotone
<1> QED
  BY <1>1, <1>2, <1>4, <1>5, CallsWait, IntentSteps

-----------------------------------------------------------------------------
(* Steps that credit the Tasker. *)

\* An earning is made once, with the amount asked for.
LEMMA CreditedIs ==
  ASSUME IInv, NEW b \in BookingRow, NEW ref \in {"acceptance", "wallet", "intent"},
         NEW gross \in Nat \ {0}, Creditable(b, ref, gross)
  PROVE LET e == Credited(b, ref, gross)
        IN /\ e \in EarningRow /\ e.gross = gross /\ e.ref = ref /\ e # NoEarning
           /\ earning # NoEarning => e = earning
<1> DEFINE new == Settlement(b, ref, gross)
<1>1. new \in EarningRow /\ new.gross = gross /\ new.ref = ref
  BY PricesAreNat DEF Settlement, EarningRow
<1>2. new # NoEarning
  BY <1>1, Absent
<1>3. earning \in {NoEarning, new} /\ Credited(b, ref, gross) =
        IF earning = NoEarning THEN new ELSE earning
  BY DEF Creditable, Credited
<1> HIDE DEF new
<1> QED
  BY <1>1, <1>2, <1>3

LEMMA PaidIs ==
  ASSUME NEW b \in BookingRow, NEW total \in Nat
  PROVE /\ Paid(b, total) \in BookingRow /\ Paid(b, total).payment = "paid"
        /\ Paid(b, total).charged = total /\ Paid(b, total).captured = b.captured
  BY DEF Paid, BookingRow, PaymentStatuses

\* A success of the intent is credited.
LEMMA IntentCredits ==
  ASSUME IInv, NEW b \in BookingRow, b.captured = booking.captured,
         Creditable(b, "intent", IntentTotal), intent.status = "succeeded",
         booking' = Paid(b, IntentTotal), earning' = Credited(b, "intent", IntentTotal),
         UNCHANGED <<underuse, cash, wallet, intent, refund>>,
         charge' \in Answers \union {"none", "failed"}, events' \subseteq events,
         call' \in [Calls -> CallRow], \A q \in Calls : Informed(q)'
  PROVE Keeps
<1>1. /\ booking.captured \in Nat /\ wallet.debit \in Nat /\ intent.amount \in Nat \ {0}
      /\ underuse.amount \in Nat /\ earning.gross \in Nat
  BY Amounts DEF IInv
<1>2. IntentTotal \in Nat \ {0} /\ IntentTotal = booking.captured + intent.amount
  BY <1>1 DEF IntentTotal
<1>3. /\ booking' \in BookingRow /\ booking'.payment = "paid"
      /\ booking'.charged = IntentTotal /\ booking'.captured = booking.captured
  BY <1>2, PaidIs
<1>4. /\ earning' \in EarningRow /\ earning'.gross = IntentTotal /\ earning'.ref = "intent"
      /\ earning' # NoEarning /\ (earning # NoEarning => earning' = earning)
  BY <1>2, CreditedIs
<1>5. TypeOK'
  BY <1>3, <1>4 DEF IInv, TypeOK, EarningRow, CallRow
<1>6. Announces'
  BY DEF IInv, Announces
<1>7. Books'
  <2>1. earning = NoEarning => underuse.amount = 0
    BY Absent DEF IInv, Books, Together
  <2> QED
    BY <1>1, <1>2, <1>3, <1>4, <2>1
    DEF IInv, Books, PaidSettled, CreditBacked, Together, Received, Returned
<1>8. Moves
  <2>1. CASE earning # NoEarning
    BY <1>3, <1>4, <2>1 DEF Moves, Promise!vars, Returned
  <2>2. CASE earning = NoEarning
    <3>1. underuse.amount = 0 /\ earning.gross = 0
      BY <2>2, Absent DEF IInv, Books, Together
    <3>2. Promise!TakeNothing
      BY DEF Promise!TakeNothing
    <3>3. Promise!Credit
      BY <1>1, <1>2, <1>3, <1>4, <3>1, <3>2 DEF Promise!Credit, Promise!Taken, Returned
    <3> QED
      BY <3>3 DEF Moves, Promise!Next
  <2> QED
    BY <2>1, <2>2
<1> QED
  BY <1>5, <1>6, <1>7, <1>8 DEF IInv, Keeps

LEMMA HandleKeeps ==
  ASSUME IInv, Settles(booking), HandleSucceeded(booking), intent.status = "succeeded",
         UNCHANGED <<underuse, cash, wallet, intent, refund>>, events' \subseteq events,
         UNCHANGED call \/ \E c \in Calls : End(c)
  PROVE Keeps
<1>1. booking \in BookingRow /\ Creditable(booking, "intent", IntentTotal)
  BY DEF IInv, TypeOK, Settles
<1>2. /\ booking' = Paid(booking, IntentTotal)
      /\ earning' = Credited(booking, "intent", IntentTotal)
      /\ charge' \in Answers \union {"none", "failed"}
  BY DEF HandleSucceeded, Answers
<1>3. booking'.captured = booking.captured
  BY <1>1, <1>2 DEF Paid, BookingRow
<1>4. Monotone
  BY <1>3 DEF Monotone
<1>5. call' \in [Calls -> CallRow] /\ \A q \in Calls : Informed(q)'
  BY <1>4, CallEnds, CallsWait
<1> QED
  BY <1>1, <1>2, <1>5, IntentCredits

LEMMA ReconcileKeeps == ASSUME IInv, NEW c \in Calls, ReconcileIntent(c) PROVE Keeps
<1>1. /\ intent.status = "succeeded" /\ End(c) /\ ~At(c, "idle")
      /\ UNCHANGED <<underuse, cash, wallet, intent, refund, events>>
  BY DEF ReconcileIntent, At, stripe, IInv, Informed
<1>2. CASE Settles(booking) /\ HandleSucceeded(booking)
  BY <1>1, <1>2, HandleKeeps
<1>3. CASE UNCHANGED <<booking, earning, charge>>
  BY <1>1, <1>3, IdleCallKeeps DEF rows, stripe
<1> QED
  BY <1>2, <1>3 DEF ReconcileIntent

LEMMA EventKeeps == IInv /\ EventSucceeded => Keeps
<1> SUFFICES ASSUME IInv, EventSucceeded PROVE Keeps
  OBVIOUS
<1>1. /\ intent.status = "succeeded" /\ Settles(booking) /\ HandleSucceeded(booking)
      /\ UNCHANGED <<underuse, cash, wallet, intent, refund, call>> /\ events' \subseteq events
  BY DEF EventSucceeded, IInv, Announces
<1> QED
  BY <1>1, HandleKeeps

LEMMA RecordConfirmKeeps == ASSUME IInv, NEW c \in Calls, RecordConfirm(c) PROVE Keeps
<1>1. /\ End(c) /\ ~At(c, "idle") /\ call[c].seen \in Answers
      /\ UNCHANGED <<underuse, cash, wallet, intent, refund, events>>
      /\ call[c].seen = "succeeded" => intent.status = "succeeded"
  BY DEF RecordConfirm, At, stripe, IInv, Informed
<1>2. CASE call[c].seen = "succeeded" /\ Settles(booking) /\ HandleSucceeded(booking)
  BY <1>1, <1>2, HandleKeeps
<1>3. CASE UNCHANGED <<booking, charge, earning>>
  BY <1>1, <1>3, IdleCallKeeps DEF rows, stripe
<1>4. CASE /\ call[c].seen # "succeeded"
           /\ booking' = [booking EXCEPT !.payment = MapStripeIntentStatus(call[c].seen)]
           /\ charge' = call[c].seen /\ UNCHANGED earning
  <2>1. MapStripeIntentStatus(call[c].seen) \in PaymentStatuses \ {"paid"}
    BY <1>1 DEF MapStripeIntentStatus, Answers, PaymentStatuses
  <2>2. Stands
    BY <1>1, <1>4, <2>1 DEF IInv, TypeOK, Stands, BookingRow
  <2>3. Others /\ Monotone
    BY <1>1, <1>4, <2>2 DEF IInv, TypeOK, Others, Monotone, Stands
  <2> QED
    BY <1>1, <2>2, <2>3, CallEnds, RowSteps
<1> QED
  BY <1>2, <1>3, <1>4 DEF RecordConfirm

LEMMA RecordChargeKeeps == ASSUME IInv, NEW c \in Calls, RecordCharge(c) PROVE Keeps
<1> DEFINE recorded == [booking EXCEPT !.intent = TRUE,
                          !.payment = MapStripeIntentStatus(call[c].seen),
                          !.charged = IF call[c].seen = "processing" THEN 0 ELSE @]
<1>1. /\ End(c) /\ ~At(c, "idle") /\ call[c].seen \in Answers
      /\ UNCHANGED <<underuse, cash, wallet, intent, refund, events>>
      /\ call[c].seen = "succeeded" => intent.status = "succeeded"
  BY DEF RecordCharge, At, stripe, IInv, Informed
<1>2. booking \in BookingRow /\ booking.charged \in Nat
  BY Amounts DEF IInv, TypeOK
<1>3. /\ recorded \in BookingRow /\ recorded.payment # "paid"
      /\ recorded.captured = booking.captured /\ Net(recorded) = Net(booking)
  <2>1. MapStripeIntentStatus(call[c].seen) \in PaymentStatuses \ {"paid"}
    BY <1>1 DEF MapStripeIntentStatus, Answers, PaymentStatuses
  <2>2. (IF call[c].seen = "processing" THEN 0 ELSE booking.charged) \in Nat
    BY <1>2
  <2> QED
    BY <1>2, <2>1, <2>2 DEF BookingRow, Net
<1>4. CASE UNCHANGED <<booking, charge, earning>>
  BY <1>1, <1>4, IdleCallKeeps DEF rows, stripe
<1>5. CASE booking' = recorded /\ charge' = call[c].seen /\ UNCHANGED earning
  <2> HIDE DEF recorded
  <2>1. Stands
    BY <1>1, <1>3, <1>5 DEF Stands
  <2>2. Others /\ Monotone
    BY <1>1, <1>5, <2>1 DEF IInv, TypeOK, Others, Monotone, Stands
  <2> QED
    BY <1>1, <2>1, <2>2, CallEnds, RowSteps
<1>6. CASE /\ call[c].seen = "succeeded" /\ Settles(recorded)
           /\ booking' = Paid(recorded, IntentTotal)
           /\ earning' = Credited(booking, "intent", IntentTotal)
           /\ charge' = "succeeded"
  <2> HIDE DEF recorded
  <2>1. Credited(booking, "intent", IntentTotal) = Credited(recorded, "intent", IntentTotal)
    BY <1>3 DEF Credited, Settlement
  <2>2. Creditable(recorded, "intent", IntentTotal)
    BY <1>6 DEF Settles
  <2>3. booking'.captured = booking.captured
    BY <1>3, <1>6 DEF Paid, BookingRow
  <2>4. Monotone
    BY <1>1, <2>3 DEF Monotone
  <2>5. call' \in [Calls -> CallRow] /\ \A q \in Calls : Informed(q)'
    BY <1>1, <2>4, CallEnds
  <2>6. charge' \in Answers \union {"none", "failed"}
    BY <1>6 DEF Answers
  <2> QED
    BY <1>1, <1>3, <1>6, <2>1, <2>2, <2>5, <2>6, IntentCredits
<1> QED
  BY <1>4, <1>5, <1>6 DEF RecordCharge

LEMMA SettleWalletKeeps == ASSUME IInv, NEW c \in Calls, SettleFromWallet(c) PROVE Keeps
<1> DEFINE amount == call[c].amount
           total == booking.captured + call[c].amount
<1>1. /\ End(c) /\ ~At(c, "idle") /\ amount \in Nat \ {0}
      /\ UNCHANGED <<charge, underuse, cash, intent, refund, events>>
  BY SeenIs DEF SettleFromWallet, At, stripe, IInv, Informed, CallRow
<1>2. /\ booking \in BookingRow /\ booking.captured \in Nat /\ wallet.debit \in Nat
      /\ underuse.amount \in Nat /\ earning.gross \in Nat /\ Charged \in Nat
      /\ wallet \in [debit : Nat, credit : Nat]
  BY Amounts DEF IInv, TypeOK
<1>3. CASE UNCHANGED <<booking, wallet, earning>>
  BY <1>1, <1>3, IdleCallKeeps DEF rows, stripe
<1>4. CASE /\ booking' = [booking EXCEPT !.payment = "payment_method_required"]
           /\ UNCHANGED <<wallet, earning>>
  <2>1. Stands
    BY <1>1, <1>2, <1>4 DEF Stands, BookingRow, PaymentStatuses
  <2>2. Others /\ Monotone
    BY <1>1, <1>4, <2>1 DEF IInv, TypeOK, Others, Monotone, Stands
  <2> QED
    BY <1>1, <2>1, <2>2, CallEnds, RowSteps
<1>5. CASE /\ Creditable(booking, "wallet", total) /\ wallet' = Debited(amount)
           /\ booking' = Paid(booking, total)
           /\ earning' = Credited(booking, "wallet", total)
  <2>1. total \in Nat \ {0} /\ total = booking.captured + amount
    BY <1>1, <1>2
  <2> HIDE DEF total, amount
  <2>2. /\ booking' \in BookingRow /\ booking'.payment = "paid"
        /\ booking'.charged = total /\ booking'.captured = booking.captured
    BY <1>2, <1>5, <2>1, PaidIs
  <2>3. /\ earning' \in EarningRow /\ earning'.gross = total /\ earning'.ref = "wallet"
        /\ earning' # NoEarning /\ (earning # NoEarning => earning' = earning)
    BY <1>2, <1>5, <2>1, CreditedIs
  <2>4. /\ wallet' \in [debit : Nat, credit : Nat]
        /\ wallet'.debit = IF wallet.debit = 0 THEN amount ELSE wallet.debit
    BY <1>1, <1>2, <1>5 DEF Debited
  <2>5. Monotone
    BY <1>1, <2>2 DEF Monotone
  <2>6. call' \in [Calls -> CallRow] /\ \A q \in Calls : Informed(q)'
    BY <1>1, <2>5, CallEnds
  <2>7. TypeOK'
    BY <1>1, <2>2, <2>3, <2>4, <2>6 DEF IInv, TypeOK, EarningRow, CallRow
  <2>8. Announces'
    BY <1>1 DEF IInv, Announces
  <2>9. earning = NoEarning => /\ wallet.debit = 0 /\ underuse.amount = 0
                               /\ earning.gross = 0
    BY Absent DEF IInv, Books, Together
  <2>10. Books'
    BY <1>1, <1>2, <2>1, <2>2, <2>3, <2>4, <2>9
    DEF IInv, Books, PaidSettled, CreditBacked, Together, Received, Returned, Charged
  <2>11. Charged' = Charged /\ underuse' = underuse
    BY <1>1 DEF Charged
  <2>12. Moves
    <3>1. CASE earning = NoEarning
      <4>1. Promise!TakeFromWallet
        BY <1>1, <2>4, <2>9, <2>11, <3>1 DEF Promise!TakeFromWallet, Charged
      <4>2. Promise!Credit
        BY <1>1, <1>2, <2>1, <2>2, <2>3, <2>4, <2>9, <2>11, <3>1, <4>1
        DEF Promise!Credit, Promise!Taken, Returned, Charged
      <4> QED
        BY <4>2 DEF Moves, Promise!Next
    <3>2. CASE earning # NoEarning /\ wallet.debit = 0
      <4>1. Promise!TakeFromWallet
        BY <1>1, <2>4, <2>11, <3>2 DEF Promise!TakeFromWallet, Charged
      <4>2. Promise!Take
        BY <2>2, <2>3, <2>11, <3>2, <4>1 DEF Promise!Take, Returned
      <4> QED
        BY <4>2 DEF Moves, Promise!Next
    <3>3. CASE earning # NoEarning /\ wallet.debit # 0
      BY <1>1, <2>2, <2>3, <2>4, <2>11, <3>3 DEF Moves, Promise!vars, Returned
    <3> QED
      BY <3>1, <3>2, <3>3
  <2> QED
    BY <2>6, <2>7, <2>8, <2>10, <2>12 DEF IInv, Keeps
<1> QED
  BY <1>3, <1>4, <1>5 DEF SettleFromWallet

\* The refund of an unused prepayment.
LEMMA RefundIs ==
  ASSUME IInv, NEW amount \in Nat, RefundUnused(amount)
  PROVE /\ underuse' \in {NoUnderuse} \union UnderuseRow
        /\ wallet' \in [debit : Nat, credit : Nat] /\ wallet'.debit = wallet.debit
        /\ underuse # NoUnderuse => underuse' = underuse
        /\ underuse = NoUnderuse =>
             underuse'.amount = amount /\ (underuse' = NoUnderuse => amount = 0)
<1>1. wallet \in [debit : Nat, credit : Nat] /\ underuse \in {NoUnderuse} \union UnderuseRow
  BY DEF IInv, TypeOK, UnderuseRow
<1>2. CASE amount = 0 \/ underuse # NoUnderuse
  BY <1>1, <1>2, Absent DEF RefundUnused
<1>3. CASE amount > 0 /\ underuse = NoUnderuse
  <2>1. CASE booking.source = "wallet"
    <3>1. underuse' \in UnderuseRow /\ underuse'.amount = amount
      BY <1>3, <2>1 DEF RefundUnused, UnderuseRow
    <3>2. wallet' \in [debit : Nat, credit : Nat] /\ wallet'.debit = wallet.debit
      BY <1>1, <1>3, <2>1 DEF RefundUnused
    <3> QED
      BY <1>3, <3>1, <3>2, Absent
  <2>2. CASE booking.source # "wallet"
    <3>1. underuse' \in UnderuseRow /\ underuse'.amount = amount
      BY <1>3, <2>2 DEF RefundUnused, UnderuseRow
    <3>2. wallet' = wallet
      BY <1>3, <2>2 DEF RefundUnused
    <3> QED
      BY <1>1, <1>3, <3>1, <3>2, Absent
  <2> QED
    BY <2>1, <2>2
<1> QED
  BY <1>2, <1>3

LEMMA SettleCapturedKeeps == ASSUME IInv, NEW c \in Calls, SettleCapturedBooking(c) PROVE Keeps
<1> DEFINE total == call[c].total
           rest == -call[c].amount
<1>1. /\ booking \in BookingRow /\ booking.captured \in Nat /\ wallet.debit \in Nat
      /\ underuse.amount \in Nat /\ earning.gross \in Nat /\ Charged \in Nat
  BY Amounts DEF IInv, TypeOK
<1>2. /\ End(c) /\ ~At(c, "idle") /\ UNCHANGED <<charge, cash, intent, refund, events>>
      /\ total \in Nat \ {0} /\ rest \in Nat /\ total + rest = booking.captured
  BY <1>1, SeenIs DEF SettleCapturedBooking, At, stripe, IInv, Informed, CallRow
<1>3. CASE UNCHANGED <<booking, earning, underuse, wallet>>
  BY <1>2, <1>3, IdleCallKeeps DEF rows, stripe
<1>4. CASE /\ Creditable(booking, "acceptance", total) /\ booking' = Paid(booking, total)
           /\ earning' = Credited(booking, "acceptance", total) /\ RefundUnused(rest)
  <2> HIDE DEF total, rest
  <2>1. /\ booking' \in BookingRow /\ booking'.payment = "paid"
        /\ booking'.charged = total /\ booking'.captured = booking.captured
    BY <1>1, <1>2, <1>4, PaidIs
  <2>2. /\ earning' \in EarningRow /\ earning'.gross = total /\ earning'.ref = "acceptance"
        /\ earning' # NoEarning /\ (earning # NoEarning => earning' = earning)
    BY <1>1, <1>2, <1>4, CreditedIs
  <2>3. /\ underuse' \in {NoUnderuse} \union UnderuseRow
        /\ wallet' \in [debit : Nat, credit : Nat] /\ wallet'.debit = wallet.debit
        /\ underuse # NoUnderuse => underuse' = underuse
        /\ underuse = NoUnderuse =>
             underuse'.amount = rest /\ (underuse' = NoUnderuse => rest = 0)
    BY <1>2, <1>4, RefundIs
  <2>4. Monotone
    BY <1>2, <2>1 DEF Monotone
  <2>5. call' \in [Calls -> CallRow] /\ \A q \in Calls : Informed(q)'
    BY <1>2, <2>4, CallEnds
  <2>6. TypeOK'
    BY <1>2, <2>1, <2>2, <2>3, <2>5 DEF IInv, TypeOK, EarningRow, UnderuseRow, CallRow
  <2>7. Announces'
    BY <1>2, <2>3 DEF IInv, Announces
  <2>8. /\ earning = NoEarning => /\ underuse = NoUnderuse /\ underuse.amount = 0
                                  /\ earning.gross = 0
        /\ earning # NoEarning /\ underuse = NoUnderuse => rest = 0 /\ underuse.amount = 0
    BY <1>1, <1>2, <2>2, Absent DEF IInv, Books, Together
  <2>9. Charged' = Charged
    BY <1>2 DEF Charged
  <2>10. Books'
    BY <1>1, <1>2, <2>1, <2>2, <2>3, <2>8, <2>9
    DEF IInv, Books, PaidSettled, CreditBacked, Together, Received, Returned, Charged
  <2>11. Moves
    <3>1. CASE earning = NoEarning
      <4>1. Promise!TakeNothing
        BY <2>3, <2>9 DEF Promise!TakeNothing, Charged
      <4>2. Promise!Credit
        BY <1>1, <1>2, <2>1, <2>2, <2>3, <2>8, <2>9, <3>1, <4>1
        DEF Promise!Credit, Promise!Taken, Returned, Charged
      <4> QED
        BY <4>2 DEF Moves, Promise!Next
    <3>2. CASE earning # NoEarning
      <4>1. underuse'.amount = underuse.amount
        BY <2>3, <2>8, <3>2
      <4> QED
        BY <2>1, <2>2, <2>3, <2>9, <3>2, <4>1 DEF Moves, Promise!vars, Returned, Charged
    <3> QED
      BY <3>1, <3>2
  <2> QED
    BY <2>5, <2>6, <2>7, <2>10, <2>11 DEF IInv, Keeps
<1> QED
  BY <1>3, <1>4 DEF SettleCapturedBooking

LEMMA OverCapturedKeeps == IInv /\ ReconcileOverCaptured => Keeps
<1> SUFFICES ASSUME IInv, ReconcileOverCaptured PROVE Keeps
  OBVIOUS
<1> DEFINE total == Total(booking)
           excess == booking.charged - total
<1>1. /\ booking \in BookingRow /\ booking.captured \in Nat /\ wallet.debit \in Nat
      /\ underuse.amount \in Nat /\ earning.gross \in Nat /\ Charged \in Nat
      /\ booking.charged \in Nat
  BY Amounts DEF IInv, TypeOK
<1>2. total \in Nat \ {0} /\ excess \in Nat \ {0} /\ total + excess = booking.charged
  BY <1>1, PricesAreNat DEF ReconcileOverCaptured
<1>3. /\ UNCHANGED <<charge, cash, intent, refund, events, call>> /\ RefundUnused(excess)
      /\ underuse = NoUnderuse /\ booking.payment = "paid"
      /\ booking' = [booking EXCEPT !.charged = total]
  BY DEF ReconcileOverCaptured, stripe
<1>4. earning # NoEarning /\ earning.gross = booking.charged /\ underuse.amount = 0
  BY <1>3, Absent DEF IInv, Books, PaidSettled
<1>5. earning \in EarningRow /\ earning' = [earning EXCEPT !.gross = total]
  BY <1>4 DEF ReconcileOverCaptured, IInv, TypeOK, EarningRow
<1> HIDE DEF total, excess
<1>6. /\ earning' \in EarningRow /\ earning'.gross = total /\ earning'.ref = earning.ref
      /\ earning' # NoEarning
  BY <1>2, <1>5, Absent DEF EarningRow
<1>7. /\ booking' \in BookingRow /\ booking'.payment = "paid" /\ booking'.charged = total
      /\ booking'.captured = booking.captured
  BY <1>1, <1>2, <1>3 DEF BookingRow
<1>8. /\ underuse' \in {NoUnderuse} \union UnderuseRow
      /\ wallet' \in [debit : Nat, credit : Nat] /\ wallet'.debit = wallet.debit
      /\ underuse'.amount = excess /\ underuse' # NoUnderuse
  BY <1>2, <1>3, RefundIs
<1>9. Monotone
  BY <1>3, <1>7 DEF Monotone
<1>10. call' \in [Calls -> CallRow] /\ \A q \in Calls : Informed(q)'
  BY <1>3, <1>9, CallsWait
<1>11. TypeOK'
  BY <1>3, <1>6, <1>7, <1>8, <1>10 DEF IInv, TypeOK, EarningRow, UnderuseRow, CallRow
<1>12. Announces'
  BY <1>3, <1>8 DEF IInv, Announces
<1>13. Charged' = Charged
  BY <1>3 DEF Charged
<1>14. Books'
  BY <1>1, <1>2, <1>3, <1>4, <1>6, <1>7, <1>8, <1>13
  DEF IInv, Books, PaidSettled, CreditBacked, Together, Received, Returned, Charged
<1>15. Moves
  <2>1. Promise!Return
    BY <1>1, <1>2, <1>3, <1>4, <1>6, <1>7, <1>8, <1>13 DEF Promise!Return, Returned, Charged
  <2> QED
    BY <2>1 DEF Moves, Promise!Next
<1> QED
  BY <1>10, <1>11, <1>12, <1>14, <1>15 DEF IInv, Keeps

-----------------------------------------------------------------------------
(* The refund of the unused prepayment at Stripe. *)

LEMMA RefundSteps ==
  ASSUME IInv, RequestUnusedRefund \/ RecordUnusedRefund \/ RefundSettles \/ EventRefund
  PROVE Keeps
<1>1. UNCHANGED <<booking, charge, earning, cash, wallet, intent, call>>
  BY DEF RequestUnusedRefund, RecordUnusedRefund, RefundSettles, EventRefund, rows, stripe
<1>2. underuse \in UnderuseRow /\ underuse # NoUnderuse
  <2>1. underuse # NoUnderuse
    BY Absent DEF RequestUnusedRefund, RecordUnusedRefund, RefundSettles, EventRefund,
                  IInv, Announces
  <2> QED
    BY <2>1 DEF IInv, TypeOK, UnderuseRow
<1>3. /\ refund \in {"none", "processing", "succeeded", "failed"}
      /\ RecordUnusedRefund \/ EventRefund => refund # "none"
  BY DEF RecordUnusedRefund, EventRefund, IInv, TypeOK, Announces
<1>4. /\ underuse' \in UnderuseRow /\ underuse'.amount = underuse.amount
      /\ underuse' # NoUnderuse
  <2>1. \/ underuse' = underuse
        \/ underuse' = [underuse EXCEPT !.status = refund] /\ refund # "none"
    BY <1>3 DEF RequestUnusedRefund, RecordUnusedRefund, RefundSettles, EventRefund, rows
  <2>2. CASE underuse' = underuse
    BY <1>2, <2>2
  <2>3. CASE underuse' = [underuse EXCEPT !.status = refund] /\ refund # "none"
    <3>1. underuse' \in UnderuseRow /\ underuse'.amount = underuse.amount
      BY <1>2, <1>3, <2>3 DEF UnderuseRow
    <3> QED
      BY <3>1, Absent DEF UnderuseRow
  <2> QED
    BY <2>1, <2>2, <2>3
<1>5. /\ refund' \in {"none", "processing", "succeeded", "failed"}
      /\ events' \subseteq events \union {"refund"}
      /\ "refund" \in events' => refund' # "none"
  BY <1>3 DEF RequestUnusedRefund, RecordUnusedRefund, RefundSettles, EventRefund, rows,
              stripe, IInv, Announces
<1>6. call' \in [Calls -> CallRow] /\ \A q \in Calls : Informed(q)'
  BY <1>1, CallsWait DEF Monotone
<1>7. TypeOK'
  BY <1>1, <1>4, <1>5 DEF IInv, TypeOK, UnderuseRow
<1>8. Announces'
  BY <1>1, <1>4, <1>5 DEF IInv, Announces
<1>9. Books'
  BY <1>1, <1>2, <1>4
  DEF IInv, Books, PaidSettled, CreditBacked, Together, Received, Returned
<1>10. Moves
  BY <1>1, <1>4 DEF Moves, Promise!vars, Returned
<1> QED
  BY <1>6, <1>7, <1>8, <1>9, <1>10 DEF IInv, Keeps

-----------------------------------------------------------------------------
(* The results. *)

LEMMA InitInv == Init => IInv /\ Promise!Init
<1> SUFFICES ASSUME Init PROVE IInv /\ Promise!Init
  OBVIOUS
<1>1. booking \in BookingRow /\ booking.payment = "ready"
  BY SourcesAssumption, CardsAssumption DEF Init, BookingRow, PaymentStatuses
<1>2. /\ charge = "none" /\ underuse = NoUnderuse /\ earning = NoEarning /\ cash = 0
      /\ wallet = [debit |-> 0, credit |-> 0] /\ intent = NoIntent /\ refund = "none"
      /\ events = {} /\ call = [c \in Calls |-> Idle]
  BY DEF Init
<1>3. TypeOK
  BY <1>1, <1>2, IdleIs DEF TypeOK, CallRow
<1>4. booking.captured \in Nat
  BY <1>1, RowAmounts
<1>5. \A c \in Calls : Informed(c)
  BY <1>2, IdleIs DEF Informed
<1>6. Announces /\ Books
  BY <1>1, <1>2, <1>4, Absent DEF Announces, Books, PaidSettled, CreditBacked, Together
<1>7. Promise!Init
  BY <1>2, <1>4, Absent DEF Promise!Init, Returned
<1> QED
  BY <1>3, <1>5, <1>6, <1>7 DEF IInv

LEMMA StepKeeps == IInv /\ Next => Keeps
<1> SUFFICES ASSUME IInv, Next PROVE Keeps
  OBVIOUS
<1>1. ASSUME NEW c \in Calls, CallStep(c) \/ CallInterrupted(c) PROVE Keeps
  BY <1>1, EndingsKeep, ReadKeeps, SettleCapturedKeeps, SettleWalletKeeps, StartKeeps,
     RetrieveKeeps, CreateKeeps, ConfirmKeeps, ReconcileKeeps, RecordChargeKeeps,
     RecordConfirmKeeps
  DEF CallStep
<1>2. CASE \E c \in Calls : Complete(c) \/ RetryWithCard(c) \/ Retry(c)
                              \/ ApproveDurationReview(c) \/ ReleaseDisputeHold(c)
  BY <1>2, RequestsKeep
<1>3. CASE FileComplaint \/ CloseDispute \/ UpdateBilling \/ ConfirmCashCollection
             \/ EventFailed
  BY <1>3, WaitingKeeps
<1>4. CASE RequestUnusedRefund \/ RecordUnusedRefund \/ RefundSettles \/ EventRefund
  BY <1>4, RefundSteps
<1>5. CASE IntentSettles \/ EventSucceeded \/ ReconcileOverCaptured
  BY <1>5, SettlesKeep, EventKeeps, OverCapturedKeeps
<1> QED
  BY <1>1, <1>2, <1>3, <1>4, <1>5 DEF Next

LEMMA StutterKeeps == IInv /\ UNCHANGED vars => Keeps
<1> SUFFICES ASSUME IInv, UNCHANGED vars PROVE Keeps
  OBVIOUS
<1>1. UNCHANGED <<booking, charge, underuse, earning, cash, wallet, intent, refund, events, call>>
  BY DEF vars
<1>2. Stands /\ Others /\ Monotone
  BY <1>1, OthersStand DEF Stands, Monotone, IInv, TypeOK
<1> QED
  BY <1>1, <1>2, CallsWait, RowSteps

\* The strengthened invariant holds in every reachable state.
THEOREM Invariance == Spec => []IInv
<1>1. IInv /\ [Next]_vars => IInv'
  BY StepKeeps, StutterKeeps DEF Keeps
<1> QED
  BY <1>1, InitInv, PTL DEF Spec

\* Rows, Stripe objects and calls keep their types: no status outside the code's
\* enumeration is ever written.
THEOREM TypeCorrect == Spec => []TypeOK
<1>1. IInv => TypeOK
  BY DEF IInv
<1> QED
  BY <1>1, Invariance, PTL

\* A booking that reads as paid has its earning, of the amount it says was charged.
THEOREM PaidBookingsAreSettled == Spec => []PaidSettled
<1>1. IInv => PaidSettled
  BY DEF IInv, Books
<1> QED
  BY <1>1, Invariance, PTL

\* What is credited to the Tasker and returned to the customer came in before.
THEOREM CreditsAreBacked == Spec => []CreditBacked
<1>1. IInv => CreditBacked
  BY DEF IInv, Books
<1> QED
  BY <1>1, Invariance, PTL

\* Settling implements MoneyOnce: money is taken at most once per rail, the
\* Tasker is credited once, and only from money that was taken.
THEOREM PromiseKept == Spec => MoneyMovesOnce
<1>1. IInv /\ [Next]_vars => Moves
  BY StepKeeps, StutterKeeps DEF Keeps
<1> QED
  BY <1>1, InitInv, Invariance, PTL DEF Spec, MoneyMovesOnce, Moves, Promise!Spec
=============================================================================
