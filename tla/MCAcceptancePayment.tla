------------------------ MODULE MCAcceptancePayment ------------------------
(* AcceptancePayment for TLC. *)
EXTENDS AcceptancePayment, TLC

Symmetry == Permutations(Calls) \union Permutations(Cards)

-----------------------------------------------------------------------------
(* The view: states that differ only in what nothing reads any more, or in *)
(* the names of versions, have the same future and satisfy the same        *)
(* properties.                                                             *)

\* The fields of a call that its remaining steps still read.
Read(pc) ==
  CASE pc \in {"attempt", "switch", "window"} -> {"source", "card", "amount"}
    [] pc = "wallet" -> {"amount"}
    [] pc = "lookup" -> {"card", "amount", "closed"}
    [] pc = "retrieve" -> {"card", "amount", "closed", "ref", "version"}
    [] pc = "confirm" -> {"card", "amount", "ref"}
    [] pc = "create" -> {"card", "amount", "version"}
    [] pc = "record" -> {"amount", "ref", "seen"}
    [] pc = "record_error" -> {"ref", "seen"}
    [] pc = "mark" -> {"amount", "ref"}
    [] pc = "marked" -> {"ref"}
    [] OTHER -> {}

Holds(c, version) ==
  call[c].pc \in {"retrieve", "create"} /\ call[c].version = version

\* The booking is over and no call is about to read its rows.
Over ==
  /\ booking.status = "cancelled"
  /\ \A c \in Calls : call[c].pc \notin {"attempt", "switch", "window", "lookup"}

\* A version is only ever compared with others: it stands for those that have it.
Holders(version) ==
  {c \in Calls : Holds(c, version)} \union
  {i \in Created : intents[i].version = version}

\* The answer of an intent's creation is repeated only under its key.
IntentView(i, over) ==
  IF \/ ~over /\ intents[i].version = txn.version
     \/ \E c \in Calls : Holds(c, intents[i].version)
  THEN [intents[i] EXCEPT !.version = Holders(@)]
  ELSE [intents[i] EXCEPT !.version = {}, !.answer = "none"]

CallView(c) ==
  [field \in {"pc"} \union Read(call[c].pc) |->
     IF field = "version" THEN Holders(call[c].version) ELSE call[c][field]]

TxnView(over) ==
  IF over THEN [txn EXCEPT !.version = {}, !.status = "any"]
          ELSE [txn EXCEPT !.version = Holders(@)]

\* Nobody pays again for a booking that is cancelled or captured; a paymentStatus
\* that is no refund is not read.
BookingView(over) ==
  [booking EXCEPT
     !.estimate = IF booking.status = "cancelled" \/ booking.capturedAmount # 0
                  THEN 0 ELSE @,
     !.paymentSource = IF booking.status = "cancelled" THEN "unset" ELSE @,
     !.paymentStatus = IF @ \in {"refund_pending", "refunded"} THEN @ ELSE "ready",
     !.pastDue = @ /\ ~over,
     !.noShow = FALSE]

View ==
  LET over == Over IN
    <<BookingView(over), TxnView(over), [i \in Created |-> IntentView(i, over)],
      [c \in Calls |-> CallView(c)], wallet, refunds, events, sweep, refunding>>
=============================================================================
