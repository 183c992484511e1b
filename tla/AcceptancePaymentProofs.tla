----------------------- MODULE AcceptancePaymentProofs -----------------------
(***************************************************************************)
(* Theorems about AcceptancePayment, for any sets of calls, sources, cards *)
(* and amounts and any number of PaymentIntents.                           *)
(***************************************************************************)
EXTENDS AcceptancePayment, TLAPS, FiniteSetTheorems

-----------------------------------------------------------------------------
(* The invariant: what a call, a sweep or a row that names a PaymentIntent *)
(* knows of it.                                                            *)

Known(i) == i \in Intents /\ intents[i] \in PaymentIntent

Paid(i) == Known(i) /\ intents[i].status = "succeeded"

\* A replayed creation may repeat "succeeded" because success is final.
AnswersStand ==
  \A i \in Intents : Known(i) /\ intents[i].answer = "succeeded" => Paid(i)

RowKnows ==
  /\ txn.provider = "stripe" => txn.ref \in Intents
  /\ txn.ref \in Intents => Known(txn.ref)

EventsKnow ==
  \A e \in events : Known(e.intent) /\ (e.type = "succeeded" => Paid(e.intent))

SweepKnows ==
  /\ sweep.pc = "close" => txn # NoTxn
  /\ sweep.pc = "capture" => Paid(sweep.ref)

CardPcs == {"lookup", "retrieve", "confirm", "create", "record", "record_error",
            "mark", "marked"}

\* A call, by its record r.
Knows(r) ==
  /\ r.pc # "idle" => /\ r.source \in Sources
                      /\ r.amount \in Amounts
                      /\ r.source = "stripe" => r.card \in Cards
  /\ r.pc \in CardPcs => r.source = "stripe"
  /\ r.pc \in {"retrieve", "confirm", "record", "record_error"} => Known(r.ref)
  /\ r.pc \in {"record", "record_error"} => r.seen \in IntentStatuses
  /\ r.pc = "record" /\ r.seen = "succeeded" => Paid(r.ref)
  /\ r.pc \in {"mark", "marked"} => Paid(r.ref)
  /\ r.pc \in {"retrieve", "mark", "marked"} => txn # NoTxn

CallsKnow == \A c \in Calls : Knows(call[c])

\* TypeOK is not inductive: a call that confirms or records must hold a
\* reference to an intent.  CaptureBacked needs the same facts about success.
Knowledge ==
  AnswersStand /\ RowKnows /\ EventsKnow /\ SweepKnows /\ CallsKnow

Inv == TypeOK /\ Knowledge /\ CaptureBacked

-----------------------------------------------------------------------------
(* Versions of the row.  Calls and intents hold one each at most, so there is *)
(* always one that nobody holds.                                              *)

LEMMA ImageIsNoLarger ==
  ASSUME NEW S, IsFiniteSet(S), NEW T, NEW f \in [S -> T], \A t \in T : \E x \in S : f[x] = t
  PROVE  IsFiniteSet(T) /\ Cardinality(T) <= Cardinality(S)
  <1>1. f \in Surjection(S, T)
    BY DEF Surjection
  <1>2. QED
    BY <1>1, FS_Surjection

LEMMA FewInUse ==
  /\ IsFiniteSet(VersionsInUse)
  /\ Cardinality(VersionsInUse) <= Cardinality(Calls) + MaxIntents
  <1> DEFINE read == {call[c].version : c \in Calls}
             keys == {intents[i].version : i \in Created}
             reads == [c \in Calls |-> call[c].version]
             held == [i \in Created |-> intents[i].version]
  <1>1. IsFiniteSet(read) /\ Cardinality(read) <= Cardinality(Calls)
    <2>1. reads \in [Calls -> read] /\ \A v \in read : \E c \in Calls : reads[c] = v
      OBVIOUS
    <2>2. QED
      BY <2>1, CallsAssumption, ImageIsNoLarger
  <1>2. IsFiniteSet(Created) /\ Cardinality(Created) <= MaxIntents
    <2>1. IsFiniteSet(Intents) /\ Cardinality(Intents) = MaxIntents
      BY FS_Interval, AmountsAssumption DEF Intents
    <2>2. Created \in SUBSET Intents
      BY DEF Created
    <2>3. QED
      BY <2>1, <2>2, FS_Subset
  <1>3. IsFiniteSet(keys) /\ Cardinality(keys) <= Cardinality(Created)
    <2>1. held \in [Created -> keys] /\ \A v \in keys : \E i \in Created : held[i] = v
      OBVIOUS
    <2>2. QED
      BY <1>2, <2>1, ImageIsNoLarger
  <1> DEFINE both == read \intersect keys
  <1>4. IsFiniteSet(both) /\ Cardinality(both) \in Nat
    BY <1>1, FS_Subset, FS_CardinalityType
  <1> HIDE DEF both
  <1>5. /\ IsFiniteSet(read \union keys)
        /\ Cardinality(read \union keys)
             = Cardinality(read) + Cardinality(keys) - Cardinality(both)
    BY <1>1, <1>3, FS_Union DEF both
  <1>6. VersionsInUse = read \union keys
    BY DEF VersionsInUse
  <1>7. /\ Cardinality(Calls) \in Nat /\ Cardinality(read) \in Nat
        /\ Cardinality(keys) \in Nat /\ Cardinality(Created) \in Nat
    BY <1>1, <1>2, <1>3, CallsAssumption, FS_CardinalityType
  <1> HIDE DEF read, keys
  <1>8. QED
    BY <1>1, <1>2, <1>3, <1>4, <1>5, <1>6, <1>7, AmountsAssumption

LEMMA NewVersionIsFree == NewVersion \in Versions \ VersionsInUse
  <1>1. Cardinality(Calls) \in Nat
    BY CallsAssumption, FS_CardinalityType
  <1> DEFINE n == Cardinality(Calls) + MaxIntents + 1
  <1>2. n \in Nat /\ n >= 1
    BY <1>1, AmountsAssumption
  <1>3. IsFiniteSet(1 .. n) /\ Cardinality(1 .. n) = n
    BY <1>2, FS_Interval
  <1>4. ~(Versions \subseteq VersionsInUse)
    <2> SUFFICES ASSUME Versions \subseteq VersionsInUse PROVE FALSE
      OBVIOUS
    <2>1. Cardinality(Versions) <= Cardinality(VersionsInUse)
      BY FewInUse, FS_Subset
    <2>2. Cardinality(Versions) = n
      BY <1>3 DEF Versions
    <2>3. Cardinality(VersionsInUse) \in Nat
      BY FewInUse, FS_CardinalityType
    <2>4. QED
      BY <1>1, <1>2, <2>1, <2>2, <2>3, FewInUse, AmountsAssumption
  <1>5. \E v : v \in Versions \ VersionsInUse
    BY <1>4
  <1>6. QED
    BY <1>5 DEF NewVersion

-----------------------------------------------------------------------------
(* Knowledge is not lost. *)

\* Intents do not vanish, success is final and the row stays.
Advances ==
  /\ \A i \in Intents : Known(i) => Known(i)'
  /\ \A i \in Intents : Paid(i) => Paid(i)'
  /\ txn # NoTxn => txn' # NoTxn

LEMMA KnowsStays ==
  ASSUME Advances, NEW r, Knows(r)
  PROVE  Knows(r)'
  BY DEF Advances, Knows, Known, Paid

\* An invariant step: its parts, with only the calls it changes.
LEMMA Assemble ==
  ASSUME Inv, TypeOK', Advances, AnswersStand', RowKnows', EventsKnow', SweepKnows',
         CaptureBacked',
         \A c \in Calls : call'[c] = call[c] \/ Knows(call[c])'
  PROVE  Inv'
  <1>1. ASSUME NEW c \in Calls
        PROVE  Knows(call[c])'
    <2>1. CASE call'[c] = call[c]
      <3> DEFINE r == call[c]
      <3>1. Knows(r)
        BY DEF Inv, Knowledge, CallsKnow
      <3>2. ASSUME NEW q, Knows(q) PROVE Knows(q)'
        BY <3>2, KnowsStays
      <3>3. QED
        BY <2>1, <3>1, <3>2 DEF Knows
    <2>2. QED
      BY <2>1
  <1>2. QED
    BY <1>1 DEF Inv, Knowledge, CallsKnow

LEMMA SameIntents ==
  ASSUME UNCHANGED intents, txn # NoTxn => txn' # NoTxn
  PROVE  /\ Advances
         /\ AnswersStand => AnswersStand'
  BY DEF Advances, AnswersStand, Known, Paid

LEMMA Success ==
  ASSUME TypeOK, NEW i \in Intents, intents[i].status = "succeeded"
  PROVE  Paid(i)
  BY DEF TypeOK, Paid, Known, NoIntent

\* What was backed stays backed.
LEMMA StillBacked ==
  ASSUME TypeOK, CaptureBacked, Advances, UNCHANGED wallet.debit,
         booking'.capturedAmount \in {0, booking.capturedAmount}
  PROVE  CaptureBacked'
  BY Success DEF CaptureBacked, Charged, Advances, Paid

LEMMA BackedByCard ==
  ASSUME NEW i \in Intents, Paid(i)'
  PROVE  CaptureBacked'
  BY DEF CaptureBacked, Charged, Paid

-----------------------------------------------------------------------------
(* Steps that only move a call on. *)

\* The types of what a step leaves alone.
LEMMA TypesOf ==
  ASSUME Inv
  PROVE  /\ booking \in BookingRow
         /\ txn \in PaymentTransaction \union {NoTxn}
         /\ wallet \in [debit : {0} \union Amounts, credit : {0} \union Amounts]
         /\ refunds \in [{"cancel", "late"} ->
              [intent : {NoRef} \union Intents, amount : {0} \union Amounts]]
         /\ sweep \in [pc : {"idle", "settle", "capture", "close", "expire"},
                       ref : {NoRef} \union Intents]
         /\ refunding \in BOOLEAN
         /\ call \in [Calls -> CallRecord]
         /\ intents \in [Intents -> PaymentIntent \union {NoIntent}]
  BY DEF Inv, TypeOK

LEMMA CallStep ==
  ASSUME Inv, UNCHANGED <<booking, txn, wallet, stripe, sweeps>>,
         NEW c \in Calls, NEW r \in CallRecord, Knows(r),
         call' = [call EXCEPT ![c] = r]
  PROVE  Inv'
  <1>1. TypeOK'
    BY DEF Inv, TypeOK, stripe, sweeps
  <1>2. Advances /\ AnswersStand'
    BY SameIntents DEF Inv, Knowledge, stripe
  <1>3. RowKnows' /\ EventsKnow' /\ SweepKnows' /\ CaptureBacked'
    BY DEF Inv, Knowledge, RowKnows, EventsKnow, SweepKnows, CaptureBacked, Charged,
           Known, Paid, stripe, sweeps
  <1>4. ASSUME NEW d \in Calls
        PROVE  call'[d] = call[d] \/ Knows(call[d])'
    <2>1. CASE d = c
      <3>1. call'[d] = r
        BY <2>1 DEF Inv, TypeOK
      <3>2. Knows(r)'
        BY <1>2, KnowsStays
      <3>3. QED
        BY <3>1, <3>2 DEF Knows
    <2>2. CASE d # c
      BY <2>2 DEF Inv, TypeOK
    <2>3. QED
      BY <2>1, <2>2
  <1>5. QED
    BY <1>1, <1>2, <1>3, <1>4, Assemble

LEMMA IdleKnows == Idle \in CallRecord /\ Knows(Idle)
  BY DEF Idle, CallRecord, Pcs, Knows, CardPcs

LEMMA EndStep ==
  ASSUME Inv, UNCHANGED <<booking, txn, wallet, stripe, sweeps>>,
         NEW c \in Calls, Ends(c)
  PROVE  Inv'
  BY IdleKnows, CallStep DEF Ends

LEMMA GoStep ==
  ASSUME Inv, UNCHANGED <<booking, txn, wallet, stripe, sweeps>>,
         NEW c \in Calls, NEW pc \in Pcs, Goes(c, pc),
         Knows([call[c] EXCEPT !.pc = pc])
  PROVE  Inv'
  <1>1. call[c] \in CallRecord
    BY DEF Inv, TypeOK
  <1>2. [call[c] EXCEPT !.pc = pc] \in CallRecord
    BY <1>1 DEF CallRecord
  <1>3. call' = [call EXCEPT ![c] = [call[c] EXCEPT !.pc = pc]]
    BY DEF Goes
  <1>4. QED
    BY <1>2, <1>3, CallStep

LEMMA DecideStep ==
  ASSUME Inv, UNCHANGED <<booking, txn, wallet, stripe, sweeps>>,
         NEW c \in Calls, NEW pc \in Pcs, Decides(c, pc),
         Knows([call[c] EXCEPT !.pc = pc, !.version = 0])
  PROVE  Inv'
  <1>1. call[c] \in CallRecord
    BY DEF Inv, TypeOK
  <1>2. [call[c] EXCEPT !.pc = pc, !.version = 0] \in CallRecord
    BY <1>1 DEF CallRecord
  <1>3. call' = [call EXCEPT ![c] = [call[c] EXCEPT !.pc = pc, !.version = 0]]
    BY DEF Decides
  <1>4. QED
    BY <1>2, <1>3, CallStep

LEMMA StartPaymentInv ==
  ASSUME Inv, NEW c \in Calls, NEW source \in Sources,
         NEW card \in (IF source = "stripe" THEN Cards ELSE {"none"}),
         StartPayment(c, source, card)
  PROVE  Inv'
  <1> DEFINE r == [Idle EXCEPT
                     !.pc = IF source = booking.paymentSource THEN "window" ELSE "attempt",
                     !.source = source, !.card = card, !.amount = booking.estimate]
  <1>1. booking.estimate \in Amounts
    BY DEF Inv, TypeOK, BookingRow
  <1>2. r \in CallRecord
    BY <1>1 DEF Idle, CallRecord, Pcs
  <1>3. Knows(r)
    BY <1>1 DEF Idle, Knows, CardPcs
  <1>4. QED
    BY <1>2, <1>3, CallStep DEF StartPayment

LEMMA CheckAttemptInv ==
  ASSUME Inv, NEW c \in Calls, CheckAttempt(c)
  PROVE  Inv'
  <1>1. call[c] \in CallRecord /\ Knows(call[c])
    BY DEF Inv, TypeOK, Knowledge, CallsKnow
  <1>2. Knows([call[c] EXCEPT !.pc = "switch"])
    BY <1>1 DEF CheckAttempt, Knows, CallRecord, CardPcs
  <1>3. QED
    BY <1>2, GoStep, EndStep DEF CheckAttempt, Pcs

LEMMA CheckWindowInv ==
  ASSUME Inv, NEW c \in Calls, CheckWindow(c)
  PROVE  Inv'
  <1>1. call[c] \in CallRecord /\ Knows(call[c]) /\ call[c].pc = "window"
    BY DEF CheckWindow, Inv, TypeOK, Knowledge, CallsKnow
  <1>2. CASE call[c].source = "stripe"
    <2> DEFINE r == [call[c] EXCEPT !.pc = "lookup", !.closed = booking.pastDue]
    <2>1. r \in CallRecord
      BY <1>1 DEF CallRecord, Pcs, Inv, TypeOK, BookingRow
    <2>2. Knows(r)
      BY <1>1, <1>2 DEF Knows, CallRecord, CardPcs
    <2>3. call' = [call EXCEPT ![c] = r]
      BY <1>2 DEF CheckWindow
    <2>4. QED
      BY <2>1, <2>2, <2>3, CallStep DEF CheckWindow
  <1>3. CASE call[c].source # "stripe" /\ ~booking.pastDue
    <2>1. call[c].source \in {"wallet", "cash"}
      BY <1>1, <1>3, SourcesAssumption DEF Knows
    <2>2. Knows([call[c] EXCEPT !.pc = call[c].source])
      BY <1>1, <2>1 DEF Knows, CallRecord, CardPcs
    <2>3. Goes(c, call[c].source)
      BY <1>3 DEF CheckWindow
    <2>4. QED
      BY <2>1, <2>2, <2>3, GoStep DEF CheckWindow, Pcs
  <1>4. CASE call[c].source # "stripe" /\ booking.pastDue
    <2>1. Ends(c)
      BY <1>4 DEF CheckWindow
    <2>2. QED
      BY <2>1, EndStep DEF CheckWindow
  <1>5. QED
    BY <1>2, <1>3, <1>4 DEF Inv, TypeOK, BookingRow

LEMMA LookupInv ==
  ASSUME Inv, NEW c \in Calls, Lookup(c)
  PROVE  Inv'
  <1>1. call[c] \in CallRecord /\ Knows(call[c]) /\ call[c].pc = "lookup"
    BY DEF Lookup, Inv, TypeOK, Knowledge, CallsKnow
  <1>2. CASE txn.ref = NoRef /\ ~call[c].closed
    <2>1. Knows([call[c] EXCEPT !.pc = "create"])
      BY <1>1 DEF Knows, CallRecord, CardPcs
    <2>2. Goes(c, "create")
      BY <1>2 DEF Lookup, Intents, NoRef
    <2>3. QED
      BY <2>1, <2>2, GoStep DEF Lookup, Pcs
  <1>3. CASE ~(txn.ref = NoRef /\ ~call[c].closed) /\ txn.ref \in Intents
    <2> DEFINE r == [call[c] EXCEPT !.pc = "retrieve", !.ref = txn.ref,
                                    !.version = txn.version]
    <2>0. txn.version \in Versions
      BY <1>3, TypesOf DEF NoTxn, NoRef, Intents, PaymentTransaction
    <2>1. r \in CallRecord
      BY <1>1, <1>3, <2>0 DEF CallRecord, Pcs
    <2>2. Known(txn.ref) /\ txn # NoTxn
      BY <1>3 DEF Inv, Knowledge, RowKnows, NoTxn, NoRef, Intents
    <2>3. Knows(r)
      BY <1>1, <2>2 DEF Knows, CallRecord, CardPcs
    <2>4. call' = [call EXCEPT ![c] = r]
      BY <1>3 DEF Lookup
    <2>5. QED
      BY <2>1, <2>3, <2>4, CallStep DEF Lookup
  <1>4. CASE ~(txn.ref = NoRef /\ ~call[c].closed) /\ txn.ref \notin Intents
    <2>1. Ends(c)
      BY <1>4 DEF Lookup
    <2>2. QED
      BY <2>1, EndStep DEF Lookup
  <1>5. QED
    BY <1>2, <1>3, <1>4

LEMMA RetrieveInv ==
  ASSUME Inv, NEW c \in Calls, Retrieve(c)
  PROVE  Inv'
  <1>1. call[c] \in CallRecord /\ Knows(call[c]) /\ call[c].pc = "retrieve"
    BY DEF Retrieve, Inv, TypeOK, Knowledge, CallsKnow
  <1>2. CASE Landed(intents[call[c].ref].status)
    <2>1. Paid(call[c].ref) /\ txn # NoTxn
      BY <1>1, <1>2 DEF Knows, Landed, Paid
    <2>2. Knows([call[c] EXCEPT !.pc = "mark", !.version = 0])
      BY <1>1, <2>1 DEF Knows, CallRecord, CardPcs
    <2>3. QED
      BY <1>2, <2>2, DecideStep DEF Retrieve, Pcs
  <1>3. CASE ~Landed(intents[call[c].ref].status)
    <2>1. /\ Knows([call[c] EXCEPT !.pc = "create"])
          /\ Knows([call[c] EXCEPT !.pc = "confirm", !.version = 0])
      BY <1>1 DEF Knows, CallRecord, CardPcs
    <2>2. Ends(c) \/ Goes(c, "create") \/ Decides(c, "confirm")
      BY <1>3 DEF Retrieve
    <2>3. QED
      BY <2>1, <2>2, GoStep, DecideStep, EndStep DEF Retrieve, Pcs
  <1>4. QED
    BY <1>2, <1>3

\* A creation that repeats its first answer: what it repeats still stands.
LEMMA CreateReplayedInv ==
  ASSUME Inv, NEW c \in Calls, CreateReplayed(c)
  PROVE  Inv'
  <1>1. call[c] \in CallRecord /\ Knows(call[c]) /\ call[c].pc = "create"
    BY DEF CreateReplayed, Inv, TypeOK, Knowledge, CallsKnow
  <1>2. PICK i \in Replays(c) :
          IF intents[i].amount = call[c].amount /\ intents[i].card = call[c].card
          THEN call' = [call EXCEPT ![c].pc = "record", ![c].version = 0,
                                    ![c].ref = i, ![c].seen = intents[i].answer]
          ELSE Ends(c)
    BY DEF CreateReplayed
  <1>3. i \in Intents /\ intents[i] \in PaymentIntent /\ Known(i)
    BY DEF Replays, Created, Inv, TypeOK, Known
  <1>4. CASE Ends(c)
    BY <1>4, EndStep DEF CreateReplayed
  <1>5. CASE ~Ends(c)
    <2> DEFINE r == [call[c] EXCEPT !.pc = "record", !.version = 0,
                                    !.ref = i, !.seen = intents[i].answer]
    <2>1. intents[i].answer \in IntentStatuses
      BY <1>3 DEF PaymentIntent, IntentStatuses
    <2>2. intents[i].answer = "succeeded" => Paid(i)
      BY <1>3 DEF Inv, Knowledge, AnswersStand
    <2>3. r \in CallRecord
      BY <1>1, <1>3, <2>1 DEF CallRecord, Pcs
    <2>4. Knows(r)
      BY <1>1, <1>3, <2>1, <2>2 DEF Knows, CallRecord, CardPcs
    <2>5. call' = [call EXCEPT ![c] = r]
      BY <1>2, <1>5
    <2>6. QED
      BY <2>3, <2>4, <2>5, CallStep DEF CreateReplayed
  <1>6. QED
    BY <1>4, <1>5

\* Steps after which a call is idle.
LEMMA AbandonInv ==
  ASSUME Inv, NEW c \in Calls, Abandon(c) \/ WalletCaptureRefused(c)
  PROVE  Inv'
  BY EndStep DEF Abandon, WalletCaptureRefused

-----------------------------------------------------------------------------
(* Steps of a call that change the booking or its row. *)

\* A call that ends: the parts of the invariant that concern calls.
LEMMA EndedCall ==
  ASSUME Inv, NEW c \in Calls, Ends(c)
  PROVE  /\ call' \in [Calls -> CallRecord]
         /\ \A d \in Calls : call'[d] = call[d] \/ Knows(call[d])'
  <1>1. call' \in [Calls -> CallRecord] /\ call'[c] = Idle
    BY IdleKnows DEF Inv, TypeOK, Ends
  <1>2. Knows(Idle)'
    BY DEF Idle, Knows, CardPcs
  <1>3. Knows(call[c])'
    BY <1>1, <1>2 DEF Knows, Idle
  <1>4. \A d \in Calls \ {c} : call'[d] = call[d]
    BY DEF Inv, TypeOK, Ends
  <1>5. QED
    BY <1>1, <1>3, <1>4

\* A call that goes on with a record r that knows what it needs afterwards.
LEMMA MovedCall ==
  ASSUME Inv, NEW c \in Calls, NEW r \in CallRecord, Knows(r)',
         call' = [call EXCEPT ![c] = r]
  PROVE  /\ call' \in [Calls -> CallRecord]
         /\ \A d \in Calls : call'[d] = call[d] \/ Knows(call[d])'
  <1>1. call' \in [Calls -> CallRecord] /\ call'[c] = r
    BY DEF Inv, TypeOK
  <1>2. Knows(call[c])'
    BY <1>1 DEF Knows
  <1>3. \A d \in Calls \ {c} : call'[d] = call[d]
    BY DEF Inv, TypeOK
  <1>4. QED
    BY <1>1, <1>2, <1>3

\* A step that leaves the intents alone.
LEMMA RowStep ==
  ASSUME Inv, UNCHANGED intents, events' \subseteq events,
         refunds' \in [{"cancel", "late"} ->
                         [intent : {NoRef} \union Intents, amount : {0} \union Amounts]],
         booking' \in BookingRow,
         txn' \in PaymentTransaction \union {NoTxn},
         wallet' \in [debit : {0} \union Amounts, credit : {0} \union Amounts],
         sweep' \in [pc : {"idle", "settle", "capture", "close", "expire"},
                     ref : {NoRef} \union Intents],
         refunding' \in BOOLEAN,
         call' \in [Calls -> CallRecord],
         \A d \in Calls : call'[d] = call[d] \/ Knows(call[d])',
         txn # NoTxn => txn' # NoTxn,
         RowKnows', SweepKnows', CaptureBacked'
  PROVE  Inv'
  <1>1. TypeOK'
    BY DEF Inv, TypeOK
  <1>2. Advances /\ AnswersStand'
    BY SameIntents DEF Inv, Knowledge
  <1>3. EventsKnow'
    BY DEF Inv, Knowledge, EventsKnow, Known, Paid
  <1>4. QED
    BY <1>1, <1>2, <1>3, Assemble

\* What such a step need not prove again of what it leaves alone.
LEMMA Untouched ==
  ASSUME Inv, UNCHANGED intents
  PROVE  /\ UNCHANGED txn => RowKnows'
         /\ UNCHANGED <<txn, sweep>> => SweepKnows'
         /\ txn' # NoTxn /\ UNCHANGED sweep => SweepKnows'
         /\ txn' # NoTxn /\ sweep'.pc \notin {"close", "capture"} => SweepKnows'
         /\ sweep'.pc \notin {"close", "capture"} => SweepKnows'
         /\ UNCHANGED wallet /\ booking'.capturedAmount \in {0, booking.capturedAmount}
              => CaptureBacked'
  BY DEF Inv, Knowledge, RowKnows, SweepKnows, Known, Paid, CaptureBacked, Charged

\* The booking alone changes, or with it the wallet's credit, the sweep's place
\* when it is done, or the end of a refund.
LEMMA BookingStep ==
  ASSUME Inv, UNCHANGED <<txn, stripe, call>>, booking' \in BookingRow,
         booking'.capturedAmount = booking.capturedAmount,
         wallet' \in [debit : {0} \union Amounts, credit : {0} \union Amounts],
         UNCHANGED wallet.debit,
         sweep' = sweep \/ sweep' = [pc |-> "idle", ref |-> NoRef],
         refunding' \in BOOLEAN
  PROVE  Inv'
  <1>1. /\ sweep' \in [pc : {"idle", "settle", "capture", "close", "expire"},
                       ref : {NoRef} \union Intents]
        /\ SweepKnows'
    BY TypesOf, Untouched DEF stripe
  <1>2. CaptureBacked'
    BY DEF Inv, CaptureBacked, Charged, stripe
  <1>3. RowKnows'
    BY Untouched DEF stripe
  <1>4. QED
    BY <1>1, <1>2, <1>3, TypesOf, RowStep DEF stripe

LEMMA SwitchSourceInv ==
  ASSUME Inv, NEW c \in Calls, SwitchSource(c)
  PROVE  Inv'
  <1>1. call[c] \in CallRecord /\ Knows(call[c]) /\ call[c].pc = "switch"
    BY DEF SwitchSource, Inv, TypeOK, Knowledge, CallsKnow
  <1>2. call[c].source \in {"stripe", "wallet", "cash"}
    BY <1>1, SourcesAssumption DEF Knows
  <1>3. booking' \in BookingRow /\ booking'.capturedAmount = booking.capturedAmount
    BY <1>2, TypesOf DEF SwitchSource, BookingRow
  <1>4. PICK r \in CallRecord : r = [call[c] EXCEPT !.pc = "window"]
    BY <1>1 DEF CallRecord, Pcs
  <1>5. Knows(r)
    BY <1>1, <1>4 DEF Knows, CallRecord, CardPcs
  <1>6. Knows(r)'
    BY <1>5, SameIntents, KnowsStays DEF SwitchSource, stripe
  <1>7. call' = [call EXCEPT ![c] = r]
    BY <1>4 DEF SwitchSource, Goes
  <1>8. QED
    BY <1>3, <1>6, <1>7, MovedCall, TypesOf, Untouched, RowStep
    DEF SwitchSource, stripe, sweeps

\* The conditional update, as a value.
LEMMA CapturedRow ==
  ASSUME TypeOK, NEW amount \in Amounts
  PROVE  /\ Captured(amount) \in BookingRow
         /\ Captured(amount) = booking \/ Captured(amount).capturedAmount = amount
  BY DEF TypeOK, BookingRow, Captured

\* Rows that differ in what an update sets.
LEMMA StatusSet ==
  ASSUME NEW b \in BookingRow,
         NEW status \in {"pending", "awaiting_payment", "confirmed", "cancelled"}
  PROVE  /\ [b EXCEPT !.status = status] \in BookingRow
         /\ [b EXCEPT !.status = status].capturedAmount = b.capturedAmount
  BY DEF BookingRow

LEMMA PaymentStatusSet ==
  ASSUME NEW b \in BookingRow,
         NEW status \in {"payment_method_required", "ready", "refund_pending", "refunded"}
  PROVE  /\ [b EXCEPT !.paymentStatus = status] \in BookingRow
         /\ [b EXCEPT !.paymentStatus = status].capturedAmount = b.capturedAmount
  BY DEF BookingRow

LEMMA ConfirmAcceptedCashInv ==
  ASSUME Inv, NEW c \in Calls, ConfirmAcceptedCash(c)
  PROVE  Inv'
  <1> DEFINE paid == [booking EXCEPT !.status = "confirmed", !.paymentSource = "cash",
                                     !.paymentStatus = "ready"]
  <1>1. booking \in BookingRow
    BY TypesOf
  <1>2. paid \in BookingRow /\ paid.capturedAmount = booking.capturedAmount
    BY <1>1 DEF BookingRow
  <1>3. booking' \in BookingRow /\ booking'.capturedAmount = booking.capturedAmount
    BY <1>1, <1>2 DEF ConfirmAcceptedCash
  <1>4. Ends(c)
    BY DEF ConfirmAcceptedCash
  <1>5. QED
    BY <1>3, <1>4, EndedCall, TypesOf, Untouched, RowStep
    DEF ConfirmAcceptedCash, stripe, sweeps

LEMMA CaptureFromWalletInv ==
  ASSUME Inv, NEW c \in Calls, CaptureFromWallet(c)
  PROVE  Inv'
  <1>1. call[c].amount \in Amounts
    BY DEF CaptureFromWallet, Inv, Knowledge, CallsKnow, Knows
  <1>2. booking' \in BookingRow /\ booking'.capturedAmount = call[c].amount
    BY <1>1, TypesOf DEF CaptureFromWallet, Captured, BookingRow
  <1>3. /\ wallet' \in [debit : {0} \union Amounts, credit : {0} \union Amounts]
        /\ wallet'.debit = call[c].amount
    BY <1>1, TypesOf DEF CaptureFromWallet
  <1>4. txn' \in PaymentTransaction /\ txn' # NoTxn
    BY NewVersionIsFree
    DEF CaptureFromWallet, PaymentTransaction, NoTxn, Refs, IntentStatuses, Answers
  <1>5. RowKnows'
    BY AmountsAssumption DEF CaptureFromWallet, RowKnows, WalletRef, Intents
  <1>6. CaptureBacked'
    BY <1>2, <1>3 DEF CaptureBacked
  <1>7. Ends(c)
    BY DEF CaptureFromWallet
  <1>8. QED
    BY <1>2, <1>3, <1>4, <1>5, <1>6, <1>7, EndedCall, TypesOf, Untouched, RowStep
    DEF CaptureFromWallet, stripe, sweeps

\* The upsert of the row, with an intent that is known.
LEMMA RecordedRow ==
  ASSUME TypeOK, NEW i \in Intents, NEW status \in IntentStatuses \union {"refunded"}
  PROVE  /\ Recorded(i, status) \in PaymentTransaction
         /\ Recorded(i, status) # NoTxn
         /\ Recorded(i, status).ref = i
  <1>1. CASE txn = NoTxn
    BY <1>1, NewVersionIsFree DEF Recorded, PaymentTransaction, NoTxn, Refs
  <1>2. CASE txn # NoTxn
    BY <1>2, NewVersionIsFree DEF TypeOK, Recorded, PaymentTransaction, NoTxn, Refs
  <1>3. QED
    BY <1>1, <1>2

LEMMA RecordAttemptInv ==
  ASSUME Inv, NEW c \in Calls, RecordAttempt(c)
  PROVE  Inv'
  <1>1. /\ call[c] \in CallRecord /\ Knows(call[c])
        /\ call[c].pc \in {"record", "record_error"}
    BY DEF RecordAttempt, Inv, TypeOK, Knowledge, CallsKnow
  <1>2. Known(call[c].ref) /\ call[c].ref \in Intents /\ call[c].seen \in IntentStatuses
    BY <1>1 DEF Knows, Known
  <1>3. txn' \in PaymentTransaction /\ txn' # NoTxn /\ txn'.ref = call[c].ref
    BY <1>2, RecordedRow DEF RecordAttempt, Inv
  <1>4. RowKnows'
    BY <1>2, <1>3 DEF RecordAttempt, RowKnows, Known, stripe
  <1>5. CaptureBacked'
    BY Untouched DEF RecordAttempt, stripe
  <1>6. /\ call' \in [Calls -> CallRecord]
        /\ \A d \in Calls : call'[d] = call[d] \/ Knows(call[d])'
    <2>1. CASE call[c].pc = "record" /\ Landed(call[c].seen)
      <3>1. PICK r \in CallRecord : r = [call[c] EXCEPT !.pc = "mark"]
        BY <1>1 DEF CallRecord, Pcs
      <3>2. Paid(call[c].ref)
        BY <1>1, <2>1 DEF Knows, Landed
      <3>3. Knows(r)'
        BY <1>1, <1>3, <3>1, <3>2
        DEF RecordAttempt, Knows, CallRecord, CardPcs, Paid, Known, stripe
      <3>4. QED
        BY <2>1, <3>1, <3>3, MovedCall DEF RecordAttempt, Goes
    <2>2. CASE ~(call[c].pc = "record" /\ Landed(call[c].seen))
      BY <2>2, EndedCall DEF RecordAttempt
    <2>3. QED
      BY <2>1, <2>2
  <1>7. QED
    BY <1>3, <1>4, <1>5, <1>6, TypesOf, Untouched, RowStep
    DEF RecordAttempt, stripe, sweeps

LEMMA MarkCapturedInv ==
  ASSUME Inv, NEW c \in Calls, MarkCaptured(c)
  PROVE  Inv'
  <1>1. call[c] \in CallRecord /\ Knows(call[c]) /\ call[c].pc = "mark"
    BY DEF MarkCaptured, Inv, TypeOK, Knowledge, CallsKnow
  <1>2. booking' \in BookingRow
    BY <1>1, CapturedRow DEF MarkCaptured, Knows, Inv
  <1>3. Paid(call[c].ref)
    BY <1>1 DEF Knows
  <1>4. CaptureBacked'
    BY <1>3 DEF CaptureBacked, Charged, Paid, Known, MarkCaptured, stripe
  <1>5. PICK r \in CallRecord : r = [call[c] EXCEPT !.pc = "marked"]
    BY <1>1 DEF CallRecord, Pcs
  <1>6. Knows(r)
    BY <1>1, <1>5 DEF Knows, CallRecord, CardPcs
  <1>7. Knows(r)'
    BY <1>6, SameIntents, KnowsStays DEF MarkCaptured, stripe
  <1>8. call' = [call EXCEPT ![c] = r]
    BY <1>5 DEF MarkCaptured, Goes
  <1>9. QED
    BY <1>2, <1>4, <1>7, <1>8, MovedCall, TypesOf, Untouched, RowStep
    DEF MarkCaptured, stripe, sweeps

LEMMA RecordCapturedInv ==
  ASSUME Inv, NEW c \in Calls, RecordCaptured(c)
  PROVE  Inv'
  <1>1. Paid(call[c].ref) /\ txn # NoTxn
    BY DEF RecordCaptured, Inv, Knowledge, CallsKnow, Knows
  <1>2. call[c].ref \in Intents /\ txn \in PaymentTransaction
    BY <1>1, TypesOf DEF Paid, Known
  <1>3. txn' \in PaymentTransaction /\ txn' # NoTxn /\ txn'.ref = call[c].ref
    BY <1>2, NewVersionIsFree
    DEF RecordCaptured, PaymentTransaction, NoTxn, Refs, IntentStatuses, Answers
  <1>4. RowKnows'
    BY <1>1, <1>2, <1>3 DEF RecordCaptured, RowKnows, Known, Paid, stripe
  <1>5. CaptureBacked' /\ SweepKnows'
    BY <1>3, Untouched DEF RecordCaptured, stripe, sweeps
  <1>6. Ends(c)
    BY DEF RecordCaptured
  <1>7. QED
    BY <1>3, <1>4, <1>5, <1>6, EndedCall, TypesOf, RowStep
    DEF RecordCaptured, stripe, sweeps

-----------------------------------------------------------------------------
(* Steps at Stripe. *)

\* One intent is created or moves on; none that has succeeded does.
LEMMA IntentStep ==
  ASSUME Inv, NEW i \in Intents, NEW row \in PaymentIntent,
         intents[i].status # "succeeded",
         row.answer = "succeeded" => row.status = "succeeded",
         intents' = [intents EXCEPT ![i] = row], UNCHANGED txn
  PROVE  /\ intents' \in [Intents -> PaymentIntent \union {NoIntent}]
         /\ Advances
         /\ AnswersStand'
         /\ RowKnows'
         /\ Known(i)'
         /\ row.status = "succeeded" => Paid(i)'
  <1>1. intents' \in [Intents -> PaymentIntent \union {NoIntent}] /\ intents'[i] = row
    BY TypesOf
  <1>2. \A j \in Intents \ {i} : intents'[j] = intents[j]
    BY TypesOf
  <1>3. Known(i)' /\ (row.status = "succeeded" => Paid(i)')
    BY <1>1 DEF Known, Paid
  <1>4. Advances
    BY <1>2, <1>3 DEF Advances, Known, Paid
  <1>5. AnswersStand'
    BY <1>1, <1>2, <1>3 DEF Inv, Knowledge, AnswersStand, Known, Paid
  <1>6. RowKnows'
    BY <1>4 DEF Inv, Knowledge, RowKnows, Advances
  <1>7. QED
    BY <1>1, <1>3, <1>4, <1>5, <1>6

\* Events stay true when intents advance, and the new one is true.
LEMMA AnnouncedKnow ==
  ASSUME Inv, Advances, NEW i \in Intents, NEW status, Known(i)',
         status = "succeeded" => Paid(i)',
         events' = Announced(i, status)
  PROVE  EventsKnow' /\ events' \subseteq [intent : Intents, type : {"succeeded", "failed"}]
  <1>1. events' \subseteq events \union
          (IF status = "succeeded" THEN {[intent |-> i, type |-> "succeeded"]}
                                   ELSE {[intent |-> i, type |-> "failed"]})
    BY DEF Announced
  <1>2. ASSUME NEW e \in events'
        PROVE  Known(e.intent)' /\ (e.type = "succeeded" => Paid(e.intent)')
    <2>1. CASE e \in events
      BY <2>1 DEF Inv, Knowledge, EventsKnow, Advances, Known
    <2>2. CASE e \notin events
      BY <1>1, <1>2, <2>2
    <2>3. QED
      BY <2>1, <2>2
  <1>3. events \subseteq [intent : Intents, type : {"succeeded", "failed"}]
    BY DEF Inv, TypeOK
  <1>4. QED
    BY <1>1, <1>2, <1>3 DEF EventsKnow

\* The rest of the invariant after such a step.
LEMMA StripeStep ==
  ASSUME Inv, UNCHANGED <<booking, txn, wallet, refunds, refunding>>,
         intents' \in [Intents -> PaymentIntent \union {NoIntent}],
         Advances, AnswersStand', RowKnows', EventsKnow',
         events' \subseteq [intent : Intents, type : {"succeeded", "failed"}],
         sweep' \in [pc : {"idle", "settle", "capture", "close", "expire"},
                     ref : {NoRef} \union Intents],
         sweep' = sweep \/ SweepKnows',
         call' \in [Calls -> CallRecord],
         \A d \in Calls : call'[d] = call[d] \/ Knows(call[d])'
  PROVE  Inv'
  <1>1. TypeOK'
    BY DEF Inv, TypeOK
  <1>2. SweepKnows'
    BY DEF Inv, Knowledge, SweepKnows, Advances, Paid, Known
  <1>3. CaptureBacked'
    BY StillBacked, TypesOf DEF Inv
  <1>4. QED
    BY <1>1, <1>2, <1>3, Assemble

LEMMA IntentSettlesInv ==
  ASSUME Inv, NEW i \in Intents, IntentSettles(i)
  PROVE  Inv'
  <1>1. intents[i] \in PaymentIntent /\ Known(i)
    BY TypesOf DEF IntentSettles, NoIntent, Known
  <1>2. PICK answer \in {"succeeded", "requires_payment_method"} :
          /\ intents' = [intents EXCEPT ![i].status = answer]
          /\ events' = Announced(i, answer)
    BY DEF IntentSettles
  <1>3. PICK row \in PaymentIntent : row = [intents[i] EXCEPT !.status = answer]
    BY <1>1 DEF PaymentIntent, IntentStatuses, Answers, OpenIntent
  <1>4. row.answer = "succeeded" => row.status = "succeeded"
    BY <1>1, <1>3 DEF IntentSettles, Inv, Knowledge, AnswersStand, Paid, PaymentIntent
  <1>5. intents' = [intents EXCEPT ![i] = row] /\ row.status = answer
    BY <1>1, <1>2, <1>3 DEF PaymentIntent
  <1>6. /\ intents' \in [Intents -> PaymentIntent \union {NoIntent}]
        /\ Advances /\ AnswersStand' /\ RowKnows' /\ Known(i)'
        /\ row.status = "succeeded" => Paid(i)'
    BY <1>4, <1>5, IntentStep DEF IntentSettles
  <1>7. EventsKnow' /\ events' \subseteq [intent : Intents, type : {"succeeded", "failed"}]
    BY <1>2, <1>5, <1>6, AnnouncedKnow
  <1>8. QED
    BY <1>6, <1>7, TypesOf, StripeStep DEF IntentSettles, sweeps

\* A call whose request was answered.
LEMMA AnsweredCall ==
  ASSUME Inv, NEW c \in Calls, NEW i \in Intents, NEW status \in IntentStatuses,
         NEW pc \in {"record", "record_error"},
         call[c].source = "stripe", call[c].pc # "idle",
         Known(i)', status = "succeeded" => Paid(i)',
         NEW version \in {0, call[c].version},
         call' = [call EXCEPT ![c].pc = pc, ![c].version = version,
                              ![c].ref = i, ![c].seen = status]
  PROVE  /\ call' \in [Calls -> CallRecord]
         /\ \A d \in Calls : call'[d] = call[d] \/ Knows(call[d])'
  <1>1. call[c] \in CallRecord /\ Knows(call[c])
    BY DEF Inv, TypeOK, Knowledge, CallsKnow
  <1>2. PICK r \in CallRecord :
          r = [call[c] EXCEPT !.pc = pc, !.version = version, !.ref = i, !.seen = status]
    BY <1>1 DEF CallRecord, Pcs
  <1>3. Knows(r)'
    BY <1>1, <1>2 DEF Knows, CallRecord, CardPcs
  <1>4. call' = [call EXCEPT ![c] = r]
    BY <1>2
  <1>5. QED
    BY <1>3, <1>4, MovedCall

LEMMA ConfirmIntentInv ==
  ASSUME Inv, NEW c \in Calls, ConfirmIntent(c)
  PROVE  Inv'
  <1> DEFINE i == call[c].ref
  <1>1. call[c] \in CallRecord /\ Knows(call[c]) /\ call[c].pc = "confirm"
    BY DEF ConfirmIntent, Inv, TypeOK, Knowledge, CallsKnow
  <1>2. /\ i \in Intents /\ intents[i] \in PaymentIntent /\ Known(i)
        /\ call[c].source = "stripe" /\ call[c].card \in Cards
    BY <1>1 DEF Knows, Known, CardPcs
  <1>3. CASE intents[i].status \in OpenIntent
    <2>1. PICK answer \in Answers :
            /\ intents' = [intents EXCEPT ![i].status = answer, ![i].card = call[c].card]
            /\ events' = Announced(i, answer)
            /\ call' = [call EXCEPT ![c].pc = "record", ![c].seen = answer]
      BY <1>3 DEF ConfirmIntent
    <2>2. PICK row \in PaymentIntent :
            row = [intents[i] EXCEPT !.status = answer, !.card = call[c].card]
      BY <1>2 DEF PaymentIntent, IntentStatuses
    <2>3. row.answer = "succeeded" => row.status = "succeeded"
      BY <1>2, <1>3, <2>2
      DEF OpenIntent, Inv, Knowledge, AnswersStand, Paid, PaymentIntent
    <2>4. intents' = [intents EXCEPT ![i] = row] /\ row.status = answer
      BY <1>2, <2>1, <2>2 DEF PaymentIntent
    <2>5. PICK j \in Intents : j = i
      BY <1>2
    <2>6. /\ intents' \in [Intents -> PaymentIntent \union {NoIntent}]
          /\ Advances /\ AnswersStand' /\ RowKnows' /\ Known(j)'
          /\ row.status = "succeeded" => Paid(j)'
      BY <1>3, <2>3, <2>4, <2>5, IntentStep DEF ConfirmIntent, OpenIntent
    <2>7. EventsKnow' /\ events' \subseteq [intent : Intents, type : {"succeeded", "failed"}]
      BY <2>1, <2>4, <2>5, <2>6, AnnouncedKnow
    <2>8. call' = [call EXCEPT ![c].pc = "record", ![c].version = call[c].version,
                               ![c].ref = j, ![c].seen = answer]
      BY <1>1, <2>1, <2>5 DEF CallRecord
    <2>9. /\ call' \in [Calls -> CallRecord]
          /\ \A d \in Calls : call'[d] = call[d] \/ Knows(call[d])'
      BY <1>1, <1>2, <2>4, <2>6, <2>8, AnsweredCall DEF IntentStatuses
    <2>10. QED
      BY <2>6, <2>7, <2>9, TypesOf, StripeStep DEF ConfirmIntent, sweeps
  <1>4. CASE intents[i].status \notin OpenIntent
    <2>1. PICK pc \in {"record", "record_error"} :
            call' = [call EXCEPT ![c].pc = pc, ![c].seen = intents[i].status]
      BY <1>4 DEF ConfirmIntent
    <2>2. UNCHANGED <<booking, txn, wallet, stripe, sweeps>>
      BY <1>4 DEF ConfirmIntent, stripe
    <2>3. PICK r \in CallRecord :
            r = [call[c] EXCEPT !.pc = pc, !.seen = intents[i].status]
      BY <1>1, <1>2 DEF CallRecord, Pcs, PaymentIntent
    <2>4. Knows(r)
      BY <1>1, <1>2, <2>3 DEF Knows, CallRecord, CardPcs, PaymentIntent, Paid
    <2>5. call' = [call EXCEPT ![c] = r]
      BY <2>1, <2>3
    <2>6. QED
      BY <2>2, <2>4, <2>5, CallStep
  <1>5. QED
    BY <1>3, <1>4

LEMMA CreateIntentInv ==
  ASSUME Inv, NEW c \in Calls, CreateIntent(c)
  PROVE  Inv'
  <1>1. call[c] \in CallRecord /\ Knows(call[c]) /\ call[c].pc = "create"
    BY DEF CreateIntent, Inv, TypeOK, Knowledge, CallsKnow
  <1>2. /\ call[c].source = "stripe" /\ call[c].card \in Cards
        /\ call[c].amount \in Amounts /\ call[c].version \in {0} \union Versions
    BY <1>1 DEF Knows, CardPcs, CallRecord
  <1>3. PICK i \in Intents, answer \in Answers :
          /\ intents[i] = NoIntent
          /\ intents' = [intents EXCEPT ![i] =
               [status |-> answer, amount |-> call[c].amount, card |-> call[c].card,
                answer |-> answer, version |-> call[c].version]]
          /\ events' = Announced(i, answer)
          /\ call' = [call EXCEPT ![c].pc = "record", ![c].version = 0,
                                   ![c].ref = i, ![c].seen = answer]
    BY DEF CreateIntent
  <1>4. PICK row \in PaymentIntent :
          row = [status |-> answer, amount |-> call[c].amount, card |-> call[c].card,
                 answer |-> answer, version |-> call[c].version]
    BY <1>2 DEF PaymentIntent, IntentStatuses
  <1>5. intents' = [intents EXCEPT ![i] = row]
    BY <1>3, <1>4
  <1>6. intents[i].status # "succeeded" /\ row.answer = answer /\ row.status = answer
    BY <1>3, <1>4 DEF NoIntent
  <1>7. /\ intents' \in [Intents -> PaymentIntent \union {NoIntent}]
        /\ Advances /\ AnswersStand' /\ RowKnows' /\ Known(i)'
        /\ row.status = "succeeded" => Paid(i)'
    BY <1>5, <1>6, IntentStep DEF CreateIntent
  <1>8. EventsKnow' /\ events' \subseteq [intent : Intents, type : {"succeeded", "failed"}]
    BY <1>3, <1>6, <1>7, AnnouncedKnow
  <1>9. /\ call' \in [Calls -> CallRecord]
        /\ \A d \in Calls : call'[d] = call[d] \/ Knows(call[d])'
    BY <1>1, <1>2, <1>3, <1>6, <1>7, AnsweredCall DEF IntentStatuses
  <1>10. QED
    BY <1>7, <1>8, <1>9, TypesOf, StripeStep DEF CreateIntent, sweeps

-----------------------------------------------------------------------------
(* Webhooks. *)

\* What a success writes, by the webhook or by the sweep.
LEMMA HandleSucceededWrites ==
  ASSUME Inv, UNCHANGED <<wallet, intents>>, NEW i \in Intents, Paid(i),
         HandleSucceeded(i)
  PROVE  /\ booking' \in BookingRow
         /\ txn' \in PaymentTransaction /\ txn' # NoTxn
         /\ refunds' \in [{"cancel", "late"} ->
              [intent : {NoRef} \union Intents, amount : {0} \union Amounts]]
         /\ RowKnows'
         /\ CaptureBacked'
  <1>1. intents[i].amount \in Amounts
    BY DEF Paid, Known, PaymentIntent
  <1>2. booking' \in BookingRow
    BY <1>1, TypesOf, CapturedRow DEF HandleSucceeded, Inv
  <1>3. txn' \in PaymentTransaction /\ txn' # NoTxn /\ txn'.ref = i
    BY RecordedRow DEF HandleSucceeded, Inv, IntentStatuses, Answers
  <1>4. refunds' \in [{"cancel", "late"} ->
          [intent : {NoRef} \union Intents, amount : {0} \union Amounts]]
    BY <1>1, TypesOf DEF HandleSucceeded, LateRefund
  <1>5. RowKnows'
    BY <1>3 DEF RowKnows, Known, Paid
  <1>6. CaptureBacked'
    BY DEF CaptureBacked, Charged, Paid
  <1>7. QED
    BY <1>2, <1>3, <1>4, <1>5, <1>6

LEMMA HandleStripeEventInv ==
  ASSUME Inv, NEW e \in events, HandleStripeEvent(e)
  PROVE  Inv'
  <1>1. e.intent \in Intents /\ Known(e.intent) /\ (e.type = "succeeded" => Paid(e.intent))
    BY DEF Inv, Knowledge, EventsKnow, Known
  <1>2. CASE e.type = "succeeded"
    BY <1>1, <1>2, HandleSucceededWrites, TypesOf, Untouched, RowStep
    DEF HandleStripeEvent, sweeps
  <1>3. CASE e.type # "succeeded"
    <2>1. txn' \in PaymentTransaction /\ txn' # NoTxn /\ txn'.ref = e.intent
      BY <1>1, <1>3, RecordedRow
      DEF HandleStripeEvent, Inv, IntentStatuses, Answers, OpenIntent
    <2>2. RowKnows'
      BY <1>1, <2>1 DEF HandleStripeEvent, RowKnows, Known
    <2>3. CaptureBacked' /\ SweepKnows'
      BY <1>3, <2>1, Untouched DEF HandleStripeEvent, sweeps
    <2>4. QED
      BY <1>3, <2>1, <2>2, <2>3, TypesOf, RowStep DEF HandleStripeEvent, sweeps
  <1>4. QED
    BY <1>2, <1>3

\* A refund that is made, and nothing else.
LEMMA RefundStep ==
  ASSUME Inv, UNCHANGED <<booking, txn, wallet, intents, events, call, sweep>>,
         refunds' \in [{"cancel", "late"} ->
           [intent : {NoRef} \union Intents, amount : {0} \union Amounts]],
         refunding' \in BOOLEAN
  PROVE  Inv'
  BY TypesOf, Untouched, RowStep

LEMMA HandlerRolledBackInv ==
  ASSUME Inv, NEW e \in events, HandlerRolledBack(e)
  PROVE  Inv'
  <1>1. e.intent \in Intents /\ intents[e.intent].amount \in Amounts
    BY DEF HandlerRolledBack, Inv, Knowledge, EventsKnow, Known, PaymentIntent
  <1>2. refunds' \in [{"cancel", "late"} ->
          [intent : {NoRef} \union Intents, amount : {0} \union Amounts]]
    BY <1>1, TypesOf DEF HandlerRolledBack, LateRefund
  <1>3. QED
    BY <1>2, TypesOf, RefundStep DEF HandlerRolledBack, sweeps

-----------------------------------------------------------------------------
(* Steps of the users and of the clock. *)

LEMMA UserInv ==
  ASSUME Inv, TaskerConfirm \/ StartOver \/ DeadlinePasses
              \/ (\E amount \in Amounts : UpdateBilling(amount))
  PROVE  Inv'
  <1> DEFINE Kept == booking' \in BookingRow /\ booking'.capturedAmount = booking.capturedAmount
             accepted == [booking EXCEPT !.status = "awaiting_payment", !.pastDue = FALSE]
  <1>1. booking \in BookingRow
    BY TypesOf
  <1>2. accepted \in BookingRow /\ accepted.capturedAmount = booking.capturedAmount
    BY <1>1 DEF BookingRow
  <1>3. TaskerConfirm => Kept
    <2> HIDE DEF accepted
    <2>1. TaskerConfirm => booking' = accepted \/ booking' = [booking EXCEPT !.status = "confirmed"]
      BY DEF TaskerConfirm, accepted
    <2>2. QED
      BY <1>1, <1>2, <2>1, StatusSet
  <1>4. StartOver => Kept
    BY <1>1, StatusSet DEF StartOver
  <1>5. DeadlinePasses => Kept
    BY <1>1 DEF DeadlinePasses, BookingRow
  <1>6. ASSUME NEW amount \in Amounts, UpdateBilling(amount) PROVE Kept
    BY <1>1, <1>6 DEF UpdateBilling, BookingRow
  <1>7. Kept
    BY <1>3, <1>4, <1>5, <1>6
  <1>8. UNCHANGED <<txn, wallet, stripe, call, sweeps>>
    BY DEF TaskerConfirm, StartOver, DeadlinePasses, UpdateBilling
  <1>9. QED
    BY <1>7, <1>8, TypesOf, BookingStep DEF sweeps

LEMMA CancelInv ==
  ASSUME Inv, Cancel \/ ExpirePending
  PROVE  Inv'
  <1> DEFINE cancelled == [booking EXCEPT !.status = "cancelled"]
  <1>1. /\ RefundAcceptanceCaptureOnCancel(cancelled)
        /\ UNCHANGED <<txn, stripe, call, sweeps>>
    BY DEF Cancel, ExpirePending, CancelFrom
  <1>2. booking \in BookingRow
    BY TypesOf
  <1>3. cancelled \in BookingRow /\ cancelled.capturedAmount = booking.capturedAmount
    BY <1>2, StatusSet
  <1>4. booking.capturedAmount \in {0} \union Amounts
    BY <1>2 DEF BookingRow
  <1> HIDE DEF cancelled
  <1>5. booking' \in BookingRow /\ booking'.capturedAmount = booking.capturedAmount
    BY <1>1, <1>3, PaymentStatusSet DEF RefundAcceptanceCaptureOnCancel
  <1>6. /\ wallet' \in [debit : {0} \union Amounts, credit : {0} \union Amounts]
        /\ wallet'.debit = wallet.debit
    BY <1>1, <1>4, TypesOf DEF RefundAcceptanceCaptureOnCancel
  <1>7. QED
    BY <1>1, <1>5, <1>6, TypesOf, BookingStep DEF sweeps

LEMMA NoShowInv ==
  ASSUME Inv, CustomerNoShow \/ ReleaseDisputeHold
  PROVE  Inv'
  <1>1. booking' \in BookingRow /\ booking'.capturedAmount = booking.capturedAmount
    BY TypesOf DEF CustomerNoShow, ReleaseDisputeHold, BookingRow
  <1>2. UNCHANGED <<txn, wallet, stripe, call, sweeps>>
    BY DEF CustomerNoShow, ReleaseDisputeHold
  <1>3. QED
    BY <1>1, <1>2, TypesOf, BookingStep DEF sweeps

LEMMA RequestRefundInv ==
  ASSUME Inv, RequestRefund
  PROVE  Inv'
  <1>1. txn.ref \in Intents /\ booking.capturedAmount \in {0} \union Amounts
    BY TypesOf DEF RequestRefund, BookingRow
  <1>2. refunds' \in [{"cancel", "late"} ->
          [intent : {NoRef} \union Intents, amount : {0} \union Amounts]]
    BY <1>1, TypesOf DEF RequestRefund
  <1>3. QED
    BY <1>2, RefundStep DEF RequestRefund

LEMMA RefundEndsInv ==
  ASSUME Inv, RecordRefund \/ RefundInterrupted
  PROVE  Inv'
  <1>1. booking' \in BookingRow /\ booking'.capturedAmount = booking.capturedAmount
    BY TypesOf DEF RecordRefund, RefundInterrupted, BookingRow
  <1>2. UNCHANGED <<txn, wallet, stripe, call, sweep>> /\ refunding' \in BOOLEAN
    BY DEF RecordRefund, RefundInterrupted
  <1>3. QED
    BY <1>1, <1>2, TypesOf, BookingStep

-----------------------------------------------------------------------------
(* The expiry sweep. *)

LEMMA SweepPickInv ==
  ASSUME Inv, SweepPick
  PROVE  Inv'
  <1>1. /\ sweep' \in [pc : {"settle", "expire"}, ref : {NoRef}]
        /\ UNCHANGED <<booking, txn, wallet, stripe, call, refunding>>
    BY DEF SweepPick, SweepAt
  <1>2. RowKnows' /\ SweepKnows' /\ CaptureBacked'
    BY <1>1, Untouched DEF stripe
  <1>3. QED
    BY <1>1, <1>2, TypesOf, RowStep DEF stripe

LEMMA SweepSettleInv ==
  ASSUME Inv, SweepSettle
  PROVE  Inv'
  <1>1. UNCHANGED <<booking, txn, wallet, refunds, events, call, refunding>>
    BY DEF SweepSettle
  <1>2. CASE txn.provider # "stripe"
    <2>1. sweep' = [pc |-> "expire", ref |-> NoRef] /\ UNCHANGED intents
      BY <1>2 DEF SweepSettle, SweepAt
    <2>2. RowKnows' /\ SweepKnows' /\ CaptureBacked'
      BY <1>1, <2>1, Untouched
    <2>3. QED
      BY <1>1, <2>1, <2>2, TypesOf, RowStep
  <1>3. CASE txn.provider = "stripe"
    <2>1. PICK i \in Intents : i = txn.ref
      BY <1>3 DEF Inv, Knowledge, RowKnows
    <2>2. Known(i) /\ intents[i] \in PaymentIntent /\ txn # NoTxn
      BY <1>3, <2>1 DEF Inv, Knowledge, RowKnows, Known, NoTxn
    <2>3. CASE intents[i].status \in OpenIntent
      <3>1. PICK row \in PaymentIntent : row = [intents[i] EXCEPT !.status = "canceled"]
        BY <2>2 DEF PaymentIntent, IntentStatuses
      <3>2. /\ intents' = [intents EXCEPT ![i] = row]
            /\ sweep' = [pc |-> "close", ref |-> i]
        BY <1>3, <2>1, <2>3, <3>1 DEF SweepSettle, SweepAt, OpenIntent
      <3>3. row.answer = "succeeded" => row.status = "succeeded"
        BY <2>2, <2>3, <3>1
        DEF OpenIntent, Inv, Knowledge, AnswersStand, Paid, PaymentIntent
      <3>4. /\ intents' \in [Intents -> PaymentIntent \union {NoIntent}]
            /\ Advances /\ AnswersStand' /\ RowKnows'
        BY <1>1, <2>3, <3>2, <3>3, IntentStep DEF OpenIntent
      <3>5. EventsKnow' /\ SweepKnows'
        BY <1>1, <2>2, <3>2, <3>4
        DEF Inv, Knowledge, EventsKnow, SweepKnows, Advances, Known
      <3>6. events' \subseteq [intent : Intents, type : {"succeeded", "failed"}]
        BY <1>1 DEF Inv, TypeOK
      <3>7. QED
        BY <1>1, <3>2, <3>4, <3>5, <3>6, TypesOf, StripeStep
    <2>4. CASE intents[i].status \notin OpenIntent
      <3>1. /\ UNCHANGED intents
            /\ \/ sweep' = [pc |-> "close", ref |-> i]
               \/ sweep' = [pc |-> "capture", ref |-> i] /\ Paid(i)
               \/ sweep' = [pc |-> "idle", ref |-> NoRef]
        BY <1>3, <2>1, <2>2, <2>4
        DEF SweepSettle, SweepAt, PaymentIntent, IntentStatuses, Answers, Paid
      <3>2. SweepKnows'
        BY <1>1, <2>2, <3>1 DEF SweepKnows, Paid, Known
      <3>3. RowKnows' /\ CaptureBacked'
        BY <1>1, <3>1, Untouched
      <3>4. QED
        BY <1>1, <3>1, <3>2, <3>3, TypesOf, RowStep
    <2>5. QED
      BY <2>3, <2>4
  <1>4. QED
    BY <1>2, <1>3

LEMMA SweepCaptureInv ==
  ASSUME Inv, SweepCapture
  PROVE  Inv'
  <1>1. PICK i \in Intents : i = sweep.ref /\ Paid(i)
    BY DEF SweepCapture, Inv, Knowledge, SweepKnows, Paid, Known
  <1>2. /\ HandleSucceeded(i) /\ sweep' = [pc |-> "idle", ref |-> NoRef]
        /\ UNCHANGED <<wallet, intents, events, call, refunding>>
    BY <1>1 DEF SweepCapture, SweepAt
  <1>3. SweepKnows'
    BY <1>2, Untouched
  <1>4. QED
    BY <1>1, <1>2, <1>3, HandleSucceededWrites, TypesOf, RowStep

LEMMA SweepCloseInv ==
  ASSUME Inv, SweepClose
  PROVE  Inv'
  <1>1. txn \in PaymentTransaction
    BY TypesOf DEF SweepClose, Inv, Knowledge, SweepKnows
  <1>2. /\ txn' \in PaymentTransaction /\ txn' # NoTxn
        /\ txn'.ref = txn.ref /\ txn'.provider = txn.provider
    BY <1>1, NewVersionIsFree DEF SweepClose, PaymentTransaction, NoTxn, IntentStatuses
  <1>3. /\ sweep' = [pc |-> "expire", ref |-> NoRef]
        /\ UNCHANGED <<booking, wallet, stripe, call, refunding>>
    BY DEF SweepClose, SweepAt
  <1>4. RowKnows'
    BY <1>2, <1>3 DEF Inv, Knowledge, RowKnows, Known, stripe
  <1>5. SweepKnows' /\ CaptureBacked'
    BY <1>3, Untouched DEF stripe
  <1>6. QED
    BY <1>2, <1>3, <1>4, <1>5, TypesOf, RowStep DEF stripe

LEMMA SweepEndsInv ==
  ASSUME Inv, SweepExpire \/ SweepInterrupted
  PROVE  Inv'
  <1>1. booking' \in BookingRow /\ booking'.capturedAmount = booking.capturedAmount
    BY TypesOf DEF SweepExpire, SweepInterrupted, BookingRow
  <1>2. /\ UNCHANGED <<txn, wallet, stripe, call, refunding>>
        /\ sweep' = [pc |-> "idle", ref |-> NoRef]
    BY DEF SweepExpire, SweepInterrupted, SweepAt
  <1>3. QED
    BY <1>1, <1>2, TypesOf, BookingStep

-----------------------------------------------------------------------------
(* The theorems. *)

LEMMA InitInv == Init => Inv
  <1> SUFFICES ASSUME Init PROVE Inv
    OBVIOUS
  <1>1. PICK source \in InitialSources, amount \in Amounts :
          booking = [status |-> "pending", paymentSource |-> source,
                     paymentStatus |-> IF source = "unset" THEN "payment_method_required"
                                                           ELSE "ready",
                     capturedAmount |-> 0, estimate |-> amount, pastDue |-> FALSE,
                     noShow |-> FALSE]
    BY DEF Init
  <1>2. booking \in BookingRow /\ booking.capturedAmount = 0
    BY <1>1, SourcesAssumption, AmountsAssumption DEF BookingRow
  <1>3. TypeOK
    BY <1>2, IdleKnows DEF Init, TypeOK, NoRefund
  <1>4. \A i \in Intents : ~Known(i)
    BY DEF Init, Known, NoIntent, PaymentIntent
  <1>5. AnswersStand /\ EventsKnow /\ SweepKnows
    BY <1>4 DEF Init, AnswersStand, EventsKnow, SweepKnows
  <1>6. RowKnows
    BY DEF Init, RowKnows, NoTxn, NoRef, Intents
  <1>7. CallsKnow
    BY IdleKnows DEF Init, CallsKnow
  <1>8. QED
    BY <1>2, <1>3, <1>5, <1>6, <1>7 DEF Inv, Knowledge, CaptureBacked

LEMMA CompleteAcceptancePaymentInv ==
  ASSUME Inv, NEW c \in Calls, CompleteAcceptancePayment(c)
  PROVE  Inv'
  BY StartPaymentInv, CheckAttemptInv, SwitchSourceInv, CheckWindowInv,
     ConfirmAcceptedCashInv, CaptureFromWalletInv, LookupInv, RetrieveInv,
     ConfirmIntentInv, CreateIntentInv, CreateReplayedInv, RecordAttemptInv,
     MarkCapturedInv, RecordCapturedInv, AbandonInv
  DEF CompleteAcceptancePayment

LEMMA StutterInv ==
  ASSUME Inv, UNCHANGED vars
  PROVE  Inv'
  BY TypesOf, BookingStep DEF vars, stripe

LEMMA NextInv ==
  ASSUME Inv, [Next]_vars
  PROVE  Inv'
  <1>1. CASE \E c \in Calls : CompleteAcceptancePayment(c)
    BY <1>1, CompleteAcceptancePaymentInv
  <1>2. CASE AtStripe
    BY <1>2, IntentSettlesInv, HandleStripeEventInv, HandlerRolledBackInv DEF AtStripe
  <1>3. CASE Users
    BY <1>3, UserInv, CancelInv, NoShowInv DEF Users
  <1>4. CASE Scheduled
    BY <1>4, UserInv, CancelInv, RequestRefundInv, RefundEndsInv, SweepPickInv,
       SweepSettleInv, SweepCaptureInv, SweepCloseInv, SweepEndsInv DEF Scheduled
  <1>5. QED
    BY <1>1, <1>2, <1>3, <1>4, StutterInv DEF Next

LEMMA InvCorrect == Spec => []Inv
  BY InitInv, NextInv, PTL DEF Spec

\* The rows, Stripe's objects and the calls under way have their types: no call
\* confirms, records or captures with a reference to an intent that is not there.
THEOREM TypeCorrect == Spec => []TypeOK
  <1>1. Inv => TypeOK
    BY DEF Inv
  <1>2. QED
    BY <1>1, InvCorrect, PTL

\* A booking counts as captured only for money that has moved.
THEOREM CapturesBacked == Spec => []CaptureBacked
  <1>1. Inv => CaptureBacked
    BY DEF Inv
  <1>2. QED
    BY <1>1, InvCorrect, PTL

-----------------------------------------------------------------------------
(* No late answer undoes a cancellation or captures again. *)

Keeps ==
  /\ booking.status = "cancelled" => booking'.status = "cancelled"
  /\ booking.capturedAmount # 0 => booking'.capturedAmount = booking.capturedAmount

LEMMA CapturedKeeps ==
  ASSUME TypeOK, NEW amount, booking' = Captured(amount)
  PROVE  Keeps
  BY DEF TypeOK, BookingRow, Captured, Keeps

LEMMA CallKeeps ==
  ASSUME TypeOK, NEW c \in Calls, CompleteAcceptancePayment(c)
  PROVE  Keeps
  <1>1. CASE CaptureFromWallet(c) \/ MarkCaptured(c)
    BY <1>1, CapturedKeeps DEF CaptureFromWallet, MarkCaptured
  <1>2. CASE SwitchSource(c) \/ ConfirmAcceptedCash(c)
    BY <1>2 DEF TypeOK, BookingRow, SwitchSource, ConfirmAcceptedCash, Keeps
  <1>3. ASSUME UNCHANGED booking PROVE Keeps
    BY <1>3 DEF Keeps
  <1>4. QED
    BY <1>1, <1>2, <1>3
    DEF CompleteAcceptancePayment, StartPayment, CheckAttempt, CheckWindow,
        WalletCaptureRefused, Lookup, Retrieve, ConfirmIntent, CreateIntent,
        CreateReplayed, RecordAttempt, RecordCaptured, Abandon

LEMMA StripeKeeps ==
  ASSUME TypeOK, AtStripe \/ SweepCapture
  PROVE  Keeps
  <1>1. UNCHANGED booking \/ \E amount : booking' = Captured(amount)
    BY DEF AtStripe, IntentSettles, HandleStripeEvent, HandlerRolledBack,
           SweepCapture, HandleSucceeded
  <1>2. QED
    BY <1>1, CapturedKeeps DEF Keeps

LEMMA OthersKeep ==
  ASSUME TypeOK, Users \/ Scheduled, ~SweepCapture
  PROVE  Keeps
  <1> USE DEF Keeps
  <1>1. CASE TaskerConfirm \/ StartOver \/ DeadlinePasses
             \/ (\E amount \in Amounts : UpdateBilling(amount))
    BY <1>1 DEF TypeOK, BookingRow, TaskerConfirm, StartOver, DeadlinePasses,
                UpdateBilling
  <1>2. CASE Cancel \/ ExpirePending
    BY <1>2 DEF TypeOK, BookingRow, Cancel, ExpirePending, CancelFrom,
                RefundAcceptanceCaptureOnCancel
  <1>3. CASE RecordRefund \/ SweepExpire
    BY <1>3 DEF TypeOK, BookingRow, RecordRefund, SweepExpire
  <1>4. CASE RequestRefund \/ RefundInterrupted \/ SweepPick \/ SweepSettle
             \/ SweepClose \/ SweepInterrupted
    BY <1>4 DEF RequestRefund, RefundInterrupted, SweepPick, SweepSettle,
                SweepClose, SweepInterrupted
  <1>5. CASE CustomerNoShow \/ ReleaseDisputeHold
    BY <1>5 DEF TypeOK, BookingRow, CustomerNoShow, ReleaseDisputeHold
  <1>6. QED
    BY <1>1, <1>2, <1>3, <1>4, <1>5 DEF Users, Scheduled

LEMMA NextKeeps == TypeOK /\ [Next]_vars => [Keeps]_vars
  <1>1. ASSUME TypeOK, Next PROVE Keeps
    BY <1>1, CallKeeps, StripeKeeps, OthersKeep DEF Next
  <1>2. QED
    BY <1>1

\* A cancelled booking stays cancelled, and what was captured stays captured,
\* whatever answer, event or sweep comes late.
THEOREM NoRevivals == Spec => NoRevival
  <1>1. TypeOK /\ [Next]_vars =>
          [/\ booking.status = "cancelled" => booking'.status = "cancelled"
           /\ booking.capturedAmount # 0 =>
                booking'.capturedAmount = booking.capturedAmount]_vars
    BY NextKeeps DEF Keeps
  <1>2. QED
    BY <1>1, TypeCorrect, PTL DEF Spec, NoRevival

-----------------------------------------------------------------------------
(* Money goes back one way. *)

Cancelled == booking.status = "cancelled"
Pending == booking.paymentStatus = "refund_pending"
HasCaptured == booking.capturedAmount # 0
Credited == wallet.credit # 0
Refunded == refunds["cancel"] # NoRefund
RefundedLate == refunds["late"] # NoRefund

\* Each way back is open only in a booking of its kind: once cancelled, what was
\* captured is settled for good, and a refund is marked only by cancelling.
Ways ==
  /\ Pending => Cancelled
  /\ Credited => Cancelled /\ HasCaptured /\ ~Pending /\ ~Refunded
  /\ Refunded => Cancelled /\ HasCaptured
  /\ RefundedLate => Cancelled /\ ~HasCaptured

LEMMA WaysAreOne ==
  ASSUME Ways
  PROVE  RefundedOneWay
  <1> DEFINE used == (IF Credited THEN {"wallet"} ELSE {}) \union
                     {key \in {"cancel", "late"} : refunds[key] # NoRefund}
  <1>1. used = {} \/ used = {"wallet"} \/ used = {"cancel"} \/ used = {"late"}
    BY DEF Ways, Refunded, RefundedLate
  <1>2. Cardinality(used) <= 1
    <2>1. ASSUME NEW x, used = {x} PROVE Cardinality(used) = 1
      BY <2>1, FS_Singleton
    <2>2. used = {} => Cardinality(used) = 0
      BY FS_EmptySet
    <2>3. QED
      BY <1>1, <2>1, <2>2
  <1>3. used # {} => booking.status = "cancelled"
    BY DEF Ways, Refunded, RefundedLate, Cancelled
  <1>4. QED
    BY <1>2, <1>3 DEF RefundedOneWay, Credited

\* Where wallet and refunds stay, the booking keeps what the ways rest on.
LEMMA WaysStay ==
  ASSUME Ways, UNCHANGED <<wallet, refunds>>,
         Cancelled => Cancelled' /\ UNCHANGED booking.capturedAmount,
         Pending' => Pending \/ (Cancelled' /\ ~Cancelled)
  PROVE  Ways'
  BY DEF Ways, Cancelled, Pending, HasCaptured, Credited, Refunded, RefundedLate

LEMMA CallWays ==
  ASSUME TypeOK, Ways, NEW c \in Calls, CompleteAcceptancePayment(c)
  PROVE  Ways'
  <1>1. CASE CaptureFromWallet(c)
    <2>1. UNCHANGED refunds /\ wallet'.credit = wallet.credit /\ ~Cancelled
      BY <1>1 DEF CaptureFromWallet, stripe, TypeOK, Cancelled
    <2>2. ~Pending' \/ Pending
      BY <1>1 DEF CaptureFromWallet, Captured, TypeOK, BookingRow, Pending
    <2>3. QED
      BY <2>1, <2>2 DEF Ways, Cancelled, Pending, HasCaptured, Credited, Refunded, RefundedLate
  <1>2. CASE SwitchSource(c) \/ ConfirmAcceptedCash(c) \/ MarkCaptured(c)
    <2>1. UNCHANGED <<wallet, refunds>>
      BY <1>2 DEF SwitchSource, ConfirmAcceptedCash, MarkCaptured, stripe
    <2>2. Cancelled => Cancelled' /\ UNCHANGED booking.capturedAmount
      BY <1>2 DEF SwitchSource, ConfirmAcceptedCash, MarkCaptured, Captured, TypeOK,
                  BookingRow, Cancelled
    <2>3. Pending' => Pending
      BY <1>2 DEF SwitchSource, ConfirmAcceptedCash, MarkCaptured, Captured, TypeOK,
                  BookingRow, Pending
    <2>4. QED
      BY <2>1, <2>2, <2>3, WaysStay
  <1>3. ASSUME UNCHANGED <<booking, wallet, refunds>> PROVE Ways'
    BY <1>3, WaysStay DEF Cancelled, Pending
  <1>4. QED
    BY <1>1, <1>2, <1>3
    DEF CompleteAcceptancePayment, StartPayment, CheckAttempt, CheckWindow,
        WalletCaptureRefused, Lookup, Retrieve, ConfirmIntent, CreateIntent,
        CreateReplayed, RecordAttempt, RecordCaptured, Abandon, stripe

LEMMA LateRefundWays ==
  ASSUME TypeOK, Ways, NEW i, RefundableLate, LateRefund(i),
         UNCHANGED <<booking, wallet>>
  PROVE  Ways'
  <1>1. refunds'["cancel"] = refunds["cancel"]
    BY DEF LateRefund, TypeOK
  <1>2. QED
    BY <1>1 DEF Ways, Cancelled, Pending, HasCaptured, Credited, Refunded, RefundedLate,
                RefundableLate

LEMMA CapturedWays ==
  ASSUME TypeOK, Ways, NEW amount, booking' = Captured(amount), UNCHANGED <<wallet, refunds>>
  PROVE  Ways'
  <1>1. Cancelled => Cancelled' /\ UNCHANGED booking.capturedAmount
    BY DEF Captured, TypeOK, BookingRow, Cancelled
  <1>2. Pending' => Pending
    BY DEF Captured, TypeOK, BookingRow, Pending
  <1>3. QED
    BY <1>1, <1>2, WaysStay

LEMMA StripeWays ==
  ASSUME TypeOK, Ways, AtStripe
  PROVE  Ways'
  <1>1. CASE \E i \in Intents : IntentSettles(i)
    BY <1>1, WaysStay DEF IntentSettles, Cancelled, Pending
  <1>2. ASSUME NEW e \in events, HandleStripeEvent(e) PROVE Ways'
    <2>1. e.intent \in Intents
      BY DEF TypeOK
    <2>2. CASE e.type = "succeeded" /\ RefundableLate
      BY <1>2, <2>1, <2>2, LateRefundWays DEF HandleStripeEvent, HandleSucceeded
    <2>3. CASE e.type = "succeeded" /\ ~RefundableLate
      BY <1>2, <2>3, CapturedWays DEF HandleStripeEvent, HandleSucceeded
    <2>4. CASE e.type # "succeeded"
      BY <1>2, <2>4, WaysStay DEF HandleStripeEvent, Cancelled, Pending
    <2>5. QED
      BY <2>2, <2>3, <2>4
  <1>3. ASSUME NEW e \in events, HandlerRolledBack(e) PROVE Ways'
    <2>1. e.intent \in Intents
      BY DEF TypeOK
    <2>2. QED
      BY <1>3, <2>1, LateRefundWays DEF HandlerRolledBack
  <1>4. QED
    BY <1>1, <1>2, <1>3 DEF AtStripe

LEMMA CancelWays ==
  ASSUME TypeOK, Ways, Cancel \/ ExpirePending
  PROVE  Ways'
  <1>1. UNCHANGED refunds /\ ~Cancelled /\ Cancelled'
    BY DEF TypeOK, BookingRow, Cancel, ExpirePending, CancelFrom,
           RefundAcceptanceCaptureOnCancel, Cancelled, stripe
  <1>2. CASE UNCHANGED wallet
    BY <1>1, <1>2 DEF Ways, Cancelled, Pending, HasCaptured, Credited, Refunded, RefundedLate
  <1>3. CASE wallet' # wallet
    <2>1. HasCaptured' /\ ~Pending'
      BY <1>3 DEF TypeOK, BookingRow, Cancel, ExpirePending, CancelFrom, NothingToRefund,
             RefundAcceptanceCaptureOnCancel, HasCaptured, Pending
    <2>2. QED
      BY <1>1, <2>1 DEF Ways, Cancelled, Credited, Refunded, RefundedLate
  <1>4. QED
    BY <1>2, <1>3

LEMMA OtherWays ==
  ASSUME TypeOK, Ways, Users \/ Scheduled, ~(Cancel \/ ExpirePending)
  PROVE  Ways'
  <1>1. CASE TaskerConfirm \/ StartOver \/ DeadlinePasses
             \/ (\E amount \in Amounts : UpdateBilling(amount))
    <2>1. UNCHANGED <<wallet, refunds>>
      BY <1>1 DEF TaskerConfirm, StartOver, DeadlinePasses, UpdateBilling, stripe
    <2>2. Cancelled => Cancelled' /\ UNCHANGED booking.capturedAmount
      BY <1>1 DEF TaskerConfirm, StartOver, DeadlinePasses, UpdateBilling, TypeOK,
                  BookingRow, Cancelled
    <2>3. Pending' => Pending
      BY <1>1 DEF TaskerConfirm, StartOver, DeadlinePasses, UpdateBilling, TypeOK,
                  BookingRow, Pending
    <2>4. QED
      BY <2>1, <2>2, <2>3, WaysStay
  <1>2. CASE RecordRefund \/ SweepExpire
    <2>1. UNCHANGED <<wallet, refunds>>
      BY <1>2 DEF RecordRefund, SweepExpire, stripe
    <2>2. Cancelled => Cancelled' /\ UNCHANGED booking.capturedAmount
      BY <1>2 DEF RecordRefund, SweepExpire, TypeOK, BookingRow, Cancelled
    <2>3. Pending' => Pending
      BY <1>2 DEF RecordRefund, SweepExpire, TypeOK, BookingRow, Pending
    <2>4. QED
      BY <2>1, <2>2, <2>3, WaysStay
  <1>3. CASE RequestRefund
    <2>1. UNCHANGED <<booking, wallet>> /\ refunds'["late"] = refunds["late"]
      BY <1>3 DEF RequestRefund, TypeOK
    <2>2. Pending /\ HasCaptured
      BY <1>3 DEF RequestRefund, Pending, HasCaptured
    <2>3. QED
      BY <2>1, <2>2 DEF Ways, Cancelled, Pending, HasCaptured, Credited, Refunded, RefundedLate
  <1>4. CASE SweepCapture
    <2>1. CASE RefundableLate
      BY <1>4, <2>1, LateRefundWays DEF SweepCapture, HandleSucceeded
    <2>2. CASE ~RefundableLate
      BY <1>4, <2>2, CapturedWays DEF SweepCapture, HandleSucceeded
    <2>3. QED
      BY <2>1, <2>2
  <1>5. CASE RefundInterrupted \/ SweepPick \/ SweepSettle \/ SweepClose \/ SweepInterrupted
    <2>1. UNCHANGED <<booking, wallet, refunds>>
      BY <1>5 DEF RefundInterrupted, SweepPick, SweepSettle, SweepClose, SweepInterrupted, stripe
    <2>2. QED
      BY <2>1, WaysStay DEF Cancelled, Pending
  <1>6. CASE CustomerNoShow \/ ReleaseDisputeHold
    <2>1. UNCHANGED <<wallet, refunds>>
      BY <1>6 DEF CustomerNoShow, ReleaseDisputeHold, stripe
    <2>2. Cancelled => Cancelled' /\ UNCHANGED booking.capturedAmount
      BY <1>6 DEF CustomerNoShow, ReleaseDisputeHold, TypeOK, BookingRow, Cancelled
    <2>3. Pending' => Pending
      BY <1>6 DEF CustomerNoShow, ReleaseDisputeHold, TypeOK, BookingRow, Pending
    <2>4. QED
      BY <2>1, <2>2, <2>3, WaysStay
  <1>7. QED
    BY <1>1, <1>2, <1>3, <1>4, <1>5, <1>6 DEF Users, Scheduled

LEMMA NextWays ==
  ASSUME TypeOK, Ways, [Next]_vars
  PROVE  Ways'
  <1>1. CASE UNCHANGED vars
    BY <1>1, WaysStay DEF vars, Cancelled, Pending
  <1>2. QED
    BY <1>1, CallWays, StripeWays, CancelWays, OtherWays DEF Next

LEMMA InitWays == Init => Ways
  BY DEF Init, Ways, Cancelled, Pending, HasCaptured, Credited, Refunded, RefundedLate

LEMMA WaysCorrect == Spec => []Ways
  <1>1. TypeOK /\ Ways /\ [Next]_vars => Ways'
    BY NextWays
  <1>2. QED
    BY <1>1, InitWays, TypeCorrect, PTL DEF Spec

\* Money captured for a booking that was cancelled goes back by one way only, to the
\* wallet or by one refund, however cancellation, events and sweeps fall together.
THEOREM RefundsGoOneWay == Spec => []RefundedOneWay
  <1>1. Ways => RefundedOneWay
    BY WaysAreOne
  <1>2. QED
    BY <1>1, WaysCorrect, PTL

-----------------------------------------------------------------------------
(* What a step may do to an intent. *)

LEMMA KnownIs ==
  ASSUME TypeOK, NEW i \in Intents PROVE Known(i) <=> intents[i] # NoIntent
  BY DEF TypeOK, Known, PaymentIntent, NoIntent, IntentStatuses, Answers, OpenIntent

\* An intent keeps its amount and its key; success and cancellation are final.
Stands(i) ==
  /\ intents'[i].amount = intents[i].amount /\ intents'[i].version = intents[i].version
  /\ intents[i].status \in {"succeeded", "canceled"} => intents'[i].status = intents[i].status

IntentMoves ==
  \/ \E i \in Intents : IntentSettles(i)
  \/ \E c \in Calls : ConfirmIntent(c) \/ CreateIntent(c)
  \/ SweepSettle

LEMMA OthersLeaveIntents == ASSUME [Next]_vars, ~IntentMoves PROVE intents' = intents
<1>1. CASE UNCHANGED vars
  BY <1>1 DEF vars
<1>2. ASSUME NEW c \in Calls, CompleteAcceptancePayment(c) PROVE intents' = intents
  BY <1>2 DEF IntentMoves, CompleteAcceptancePayment, StartPayment, CheckAttempt, SwitchSource,
     CheckWindow, ConfirmAcceptedCash, CaptureFromWallet, WalletCaptureRefused, Lookup,
     Retrieve, CreateReplayed, RecordAttempt, MarkCaptured, RecordCaptured, Abandon, stripe
<1>3. CASE AtStripe
  BY <1>3 DEF IntentMoves, AtStripe, HandleStripeEvent, HandlerRolledBack
<1>4. CASE Users
  BY <1>4 DEF Users, TaskerConfirm, StartOver, UpdateBilling, Cancel, CancelFrom,
     CustomerNoShow, ReleaseDisputeHold, stripe
<1>5. CASE Scheduled
  BY <1>5 DEF IntentMoves, Scheduled, DeadlinePasses, ExpirePending, CancelFrom, RequestRefund,
     RecordRefund, RefundInterrupted, SweepPick, SweepCapture, SweepClose, SweepExpire,
     SweepInterrupted, stripe
<1> QED
  BY <1>1, <1>2, <1>3, <1>4, <1>5 DEF Next

\* One intent moves on, to a status that it may still take.
LEMMA OneStands ==
  ASSUME TypeOK, NEW i \in Intents, intents[i].status \notin {"succeeded", "canceled"}, Known(i),
         NEW row, intents' = [intents EXCEPT ![i] = row],
         row.amount = intents[i].amount, row.version = intents[i].version, row # NoIntent
  PROVE  \A j \in Intents : (intents'[j] # NoIntent <=> intents[j] # NoIntent) /\ Stands(j)
<1>1. intents'[i] = row /\ \A j \in Intents \ {i} : intents'[j] = intents[j]
  BY DEF TypeOK
<1>2. intents[i] # NoIntent
  BY KnownIs
<1> QED
  BY <1>1, <1>2 DEF Stands

LEMMA IntentsStand ==
  ASSUME Inv, [Next]_vars, ~\E c \in Calls : CreateIntent(c)
  PROVE  \A i \in Intents : (intents'[i] # NoIntent <=> intents[i] # NoIntent) /\ Stands(i)
<1> USE DEF OpenIntent
<1>1. CASE ~IntentMoves
  BY <1>1, OthersLeaveIntents DEF Stands
<1>2. ASSUME NEW i \in Intents, IntentSettles(i)
      PROVE \A j \in Intents : (intents'[j] # NoIntent <=> intents[j] # NoIntent) /\ Stands(j)
  <2>1. PICK answer \in {"succeeded", "requires_payment_method"} :
          intents' = [intents EXCEPT ![i].status = answer]
    BY <1>2 DEF IntentSettles
  <2>2. intents[i] \in PaymentIntent /\ Known(i)
    BY <1>2 DEF IntentSettles, Inv, TypeOK, NoIntent, Known
  <2>3. PICK row : row = [intents[i] EXCEPT !.status = answer]
    OBVIOUS
  <2>4. row.amount = intents[i].amount /\ row.version = intents[i].version /\ row.status = answer
    BY <2>2, <2>3 DEF PaymentIntent
  <2>5. row # NoIntent
    BY <2>4 DEF NoIntent
  <2>6. intents' = [intents EXCEPT ![i] = row]
    BY <2>1, <2>3
  <2> QED
    BY <1>2, <2>2, <2>4, <2>5, <2>6, OneStands DEF IntentSettles, Inv
<1>3. ASSUME NEW c \in Calls, ConfirmIntent(c)
      PROVE \A j \in Intents : (intents'[j] # NoIntent <=> intents[j] # NoIntent) /\ Stands(j)
  <2>1. PICK i \in Intents : i = call[c].ref /\ Known(i)
    BY <1>3 DEF ConfirmIntent, Inv, Knowledge, CallsKnow, Knows, Known
  <2>2. CASE intents[i].status \notin OpenIntent
    BY <1>3, <2>1, <2>2 DEF ConfirmIntent, Stands
  <2>3. CASE intents[i].status \in OpenIntent
    <3>1. PICK answer \in Answers :
            intents' = [intents EXCEPT ![i].status = answer, ![i].card = call[c].card]
      BY <1>3, <2>1, <2>3 DEF ConfirmIntent
    <3>2. intents[i] \in PaymentIntent
      BY <2>1 DEF Known
    <3>3. PICK row : row = [intents[i] EXCEPT !.status = answer, !.card = call[c].card]
      OBVIOUS
    <3>4. row.amount = intents[i].amount /\ row.version = intents[i].version /\ row.status = answer
      BY <3>2, <3>3 DEF PaymentIntent
    <3>5. row # NoIntent
      BY <3>4 DEF NoIntent, Answers
    <3>6. intents' = [intents EXCEPT ![i] = row]
      BY <3>1, <3>3
    <3> QED
      BY <2>1, <2>3, <3>4, <3>5, <3>6, OneStands DEF Inv
  <2> QED
    BY <2>2, <2>3
<1>4. CASE SweepSettle
  <2>1. CASE txn.provider # "stripe"
    BY <1>4, <2>1 DEF SweepSettle, Stands
  <2>2. CASE txn.provider = "stripe"
    <3>1. PICK i \in Intents : i = txn.ref /\ Known(i)
      BY <2>2 DEF Inv, Knowledge, RowKnows
    <3>2. intents[i] \in PaymentIntent
      BY <3>1 DEF Known
    <3>3. CASE intents[i].status \notin OpenIntent
      <4>1. intents' = intents
        BY <1>4, <2>2, <3>1, <3>2, <3>3 DEF SweepSettle, PaymentIntent, IntentStatuses, Answers
      <4> QED
        BY <4>1 DEF Stands
    <3>4. CASE intents[i].status \in OpenIntent
      <4>1. PICK row : row = [intents[i] EXCEPT !.status = "canceled"]
        OBVIOUS
      <4>2. intents' = [intents EXCEPT ![i] = row]
        BY <1>4, <2>2, <3>1, <3>4, <4>1 DEF SweepSettle
      <4>3. row.amount = intents[i].amount /\ row.version = intents[i].version /\ row.status = "canceled"
        BY <3>2, <4>1 DEF PaymentIntent
      <4>4. row # NoIntent
        BY <4>3 DEF NoIntent
      <4> QED
        BY <3>1, <3>4, <4>2, <4>3, <4>4, OneStands DEF Inv
    <3> QED
      BY <3>3, <3>4
  <2> QED
    BY <2>1, <2>2
<1> QED
  BY <1>1, <1>2, <1>3, <1>4 DEF IntentMoves

\* A creation adds one intent, with the version that its call holds, and only if
\* no intent has the idempotency key.
LEMMA CreationIs ==
  ASSUME Inv, NEW c \in Calls, CreateIntent(c)
  PROVE  \E i \in Intents :
           /\ intents[i] = NoIntent /\ intents'[i] # NoIntent
           /\ intents'[i].version = call[c].version
           /\ \A j \in Intents \ {i} : intents'[j] = intents[j]
<1>1. PICK i \in Intents, answer \in Answers :
        /\ intents[i] = NoIntent
        /\ intents' = [intents EXCEPT ![i] =
             [status |-> answer, amount |-> call[c].amount, card |-> call[c].card,
              answer |-> answer, version |-> call[c].version]]
  BY DEF CreateIntent
<1>2. intents'[i] = [status |-> answer, amount |-> call[c].amount, card |-> call[c].card,
                     answer |-> answer, version |-> call[c].version]
  BY <1>1 DEF Inv, TypeOK
<1>3. intents'[i].status = answer /\ intents'[i].version = call[c].version
  BY <1>2
<1>4. intents'[i] # NoIntent
  BY <1>3 DEF NoIntent, Answers, OpenIntent
<1>5. \A j \in Intents \ {i} : intents'[j] = intents[j]
  BY <1>1 DEF Inv, TypeOK
<1> QED
  BY <1>1, <1>3, <1>4, <1>5

\* Every intent that there was stands, whatever the step.
LEMMA AllStand ==
  ASSUME Inv, [Next]_vars, NEW i \in Intents, intents[i] # NoIntent
  PROVE  intents'[i] # NoIntent /\ Stands(i)
<1>1. CASE \E c \in Calls : CreateIntent(c)
  BY <1>1, CreationIs DEF Stands
<1>2. CASE ~\E c \in Calls : CreateIntent(c)
  BY <1>2, IntentsStand
<1> QED
  BY <1>1, <1>2

-----------------------------------------------------------------------------
(* A second PaymentIntent only replaces a canceled one. *)

NoneCanceled == \A i \in Created : intents[i].status # "canceled"

\* The one intent that there may be has the key of the booking alone.
Lone ==
  /\ \A i \in Created : intents[i].version = 0
  /\ \A i, j \in Created : i = j

\* A call holds a version from its read of the row until it has decided, and
\* takes it along into a creation only to replace a canceled intent.
Decided(r) ==
  /\ r.pc \notin {"retrieve", "create"} => r.version = 0
  /\ r.pc = "create" /\ NoneCanceled => r.version = 0

Keys == (NoneCanceled => Lone) /\ \A c \in Calls : Decided(call[c])

LEMMA InitKeys == Init => Keys
<1> SUFFICES ASSUME Init PROVE Keys
  OBVIOUS
<1>1. Created = {}
  BY DEF Init, Created
<1>2. \A c \in Calls : call[c].pc = "idle" /\ call[c].version = 0
  BY DEF Init, Idle
<1> QED
  BY <1>1, <1>2 DEF Keys, Lone, Decided

\* A canceled intent stays so.
LEMMA CanceledStays ==
  ASSUME Inv, [Next]_vars, NoneCanceled' PROVE NoneCanceled
<1> SUFFICES ASSUME NEW i \in Created, intents[i].status = "canceled" PROVE FALSE
  BY DEF NoneCanceled
<1>1. i \in Intents /\ intents[i] # NoIntent
  BY DEF Created
<1>2. intents'[i] # NoIntent /\ intents'[i].status = "canceled"
  BY <1>1, AllStand DEF Stands
<1> QED
  BY <1>1, <1>2 DEF NoneCanceled, Created

\* What a step of a call leaves it with.
LEMMA CallDecided ==
  ASSUME Inv, [Next]_vars, NEW c \in Calls, Decided(call[c]), CompleteAcceptancePayment(c)
  PROVE  \E r : call' = [call EXCEPT ![c] = r] /\ Decided(r)'
<1>1. call[c] \in CallRecord /\ Knows(call[c])
  BY DEF Inv, TypeOK, Knowledge, CallsKnow
<1>2. ASSUME NEW r, r.version = 0 PROVE Decided(r)'
  BY <1>2 DEF Decided
<1>3. Decided(Idle)'
  BY <1>2 DEF Idle
<1>4. ASSUME NEW pc, call[c].version = 0, Goes(c, pc)
      PROVE \E r : call' = [call EXCEPT ![c] = r] /\ Decided(r)'
  <2> DEFINE r == [call[c] EXCEPT !.pc = pc]
  <2>1. r.version = 0
    BY <1>1, <1>4 DEF CallRecord
  <2> QED
    BY <1>2, <1>4, <2>1 DEF Goes
<1>5. ASSUME NEW pc, Decides(c, pc)
      PROVE \E r : call' = [call EXCEPT ![c] = r] /\ Decided(r)'
  <2> DEFINE r == [call[c] EXCEPT !.pc = pc, !.version = 0]
  <2>1. r.version = 0
    BY <1>1 DEF CallRecord
  <2> QED
    BY <1>2, <1>5, <2>1 DEF Decides
<1>6. ASSUME Ends(c) PROVE \E r : call' = [call EXCEPT ![c] = r] /\ Decided(r)'
  BY <1>3, <1>6 DEF Ends
<1>7. CASE \E source \in Sources :
             \E card \in IF source = "stripe" THEN Cards ELSE {"none"} :
               StartPayment(c, source, card)
  <2>1. PICK source, card : StartPayment(c, source, card)
    BY <1>7
  <2> DEFINE r == [Idle EXCEPT
                     !.pc = IF source = booking.paymentSource THEN "window" ELSE "attempt",
                     !.source = source, !.card = card, !.amount = booking.estimate]
  <2>2. r.version = 0
    BY DEF Idle
  <2>3. call' = [call EXCEPT ![c] = r]
    BY <2>1 DEF StartPayment
  <2> QED
    BY <1>2, <2>2, <2>3
<1>8. CASE CheckAttempt(c) \/ SwitchSource(c) \/ MarkCaptured(c) \/ RecordAttempt(c)
  <2>1. call[c].version = 0
    BY <1>8 DEF CheckAttempt, SwitchSource, MarkCaptured, RecordAttempt, Decided
  <2> QED
    BY <1>4, <1>6, <1>8, <2>1 DEF CheckAttempt, SwitchSource, MarkCaptured, RecordAttempt
<1>9. CASE CheckWindow(c)
  <2>1. call[c].version = 0
    BY <1>9 DEF CheckWindow, Decided
  <2>2. CASE call[c].source = "stripe"
    <3> DEFINE r == [call[c] EXCEPT !.pc = "lookup", !.closed = booking.pastDue]
    <3>1. r.version = 0
      BY <1>1, <2>1 DEF CallRecord
    <3>2. call' = [call EXCEPT ![c] = r]
      BY <1>9, <2>2 DEF CheckWindow
    <3> QED
      BY <1>2, <3>1, <3>2
  <2>3. CASE call[c].source # "stripe"
    BY <1>4, <1>6, <1>9, <2>1, <2>3 DEF CheckWindow
  <2> QED
    BY <2>2, <2>3
<1>10. CASE Lookup(c)
  <2>1. call[c].version = 0
    BY <1>10 DEF Lookup, Decided
  <2>2. CASE txn.ref \in Intents /\ ~(txn.ref = NoRef /\ ~call[c].closed)
    <3>1. PICK r : r = [call[c] EXCEPT !.pc = "retrieve", !.ref = txn.ref,
                                       !.version = txn.version]
      OBVIOUS
    <3>2. Decided(r)'
      BY <1>1, <3>1 DEF Decided, CallRecord
    <3>3. call' = [call EXCEPT ![c] = r]
      BY <1>10, <2>2, <3>1 DEF Lookup
    <3> QED
      BY <3>2, <3>3
  <2>3. CASE ~(txn.ref \in Intents /\ ~(txn.ref = NoRef /\ ~call[c].closed))
    <3>1. txn.ref \in Intents => txn.ref # NoRef
      BY DEF Intents, NoRef
    <3> QED
      BY <1>4, <1>6, <1>10, <2>1, <2>3, <3>1 DEF Lookup
  <2> QED
    BY <2>2, <2>3
<1>11. CASE Retrieve(c)
  <2>1. CASE Goes(c, "create") /\ intents[call[c].ref].status = "canceled"
    <3>1. PICK r : r = [call[c] EXCEPT !.pc = "create"]
      OBVIOUS
    <3>2. Known(call[c].ref)
      BY <1>1, <1>11 DEF Retrieve, Knows
    <3>3. ~NoneCanceled
      BY <2>1, <3>2 DEF NoneCanceled, Created, Known, NoIntent, PaymentIntent,
                        IntentStatuses, Answers, OpenIntent
    <3>4. Decided(r)'
      BY <1>1, <3>1, <3>3, CanceledStays DEF Decided, CallRecord
    <3> QED
      BY <2>1, <3>1, <3>4 DEF Goes
  <2>2. CASE ~(Goes(c, "create") /\ intents[call[c].ref].status = "canceled")
    BY <1>5, <1>6, <1>11, <2>2 DEF Retrieve
  <2> QED
    BY <2>1, <2>2
<1>12. CASE ConfirmIntent(c)
  <2>1. call[c].version = 0
    BY <1>12 DEF ConfirmIntent, Decided
  <2>2. PICK pc, seen : call' = [call EXCEPT ![c].pc = pc, ![c].seen = seen]
    BY <1>12 DEF ConfirmIntent
  <2> DEFINE r == [call[c] EXCEPT !.pc = pc, !.seen = seen]
  <2>3. r.version = 0
    BY <1>1, <2>1 DEF CallRecord
  <2> QED
    BY <1>2, <2>2, <2>3
<1>13. CASE CreateIntent(c) \/ CreateReplayed(c)
  <2>1. \/ Ends(c)
        \/ \E i, answer : call' = [call EXCEPT ![c].pc = "record", ![c].version = 0,
                                               ![c].ref = i, ![c].seen = answer]
    BY <1>13 DEF CreateIntent, CreateReplayed
  <2>2. ASSUME NEW i, NEW answer,
               call' = [call EXCEPT ![c].pc = "record", ![c].version = 0,
                                    ![c].ref = i, ![c].seen = answer]
        PROVE \E r : call' = [call EXCEPT ![c] = r] /\ Decided(r)'
    <3> DEFINE r == [call[c] EXCEPT !.pc = "record", !.version = 0,
                                    !.ref = i, !.seen = answer]
    <3>1. r.version = 0
      BY <1>1 DEF CallRecord
    <3> QED
      BY <1>2, <2>2, <3>1
  <2> QED
    BY <1>6, <2>1, <2>2
<1>14. CASE \/ ConfirmAcceptedCash(c) \/ CaptureFromWallet(c) \/ WalletCaptureRefused(c)
            \/ RecordCaptured(c) \/ Abandon(c)
  BY <1>6, <1>14 DEF ConfirmAcceptedCash, CaptureFromWallet, WalletCaptureRefused,
     RecordCaptured, Abandon
<1> QED
  BY <1>7, <1>8, <1>9, <1>10, <1>11, <1>12, <1>13, <1>14 DEF CompleteAcceptancePayment

LEMMA CallsDecided ==
  ASSUME Inv, [Next]_vars, \A c \in Calls : Decided(call[c])
  PROVE  \A c \in Calls : Decided(call[c])'
<1>1. ASSUME NEW r, Decided(r) PROVE Decided(r)'
  BY <1>1, CanceledStays DEF Decided
<1>2. CASE call' = call
  BY <1>1, <1>2 DEF Decided
<1>3. ASSUME NEW c \in Calls, CompleteAcceptancePayment(c)
      PROVE \A d \in Calls : Decided(call[d])'
  <2>1. PICK r : call' = [call EXCEPT ![c] = r] /\ Decided(r)'
    BY <1>3, CallDecided
  <2>2. call'[c] = r /\ \A d \in Calls \ {c} : call'[d] = call[d]
    BY <2>1 DEF Inv, TypeOK
  <2>3. Decided(call[c])'
    BY <2>1, <2>2 DEF Decided
  <2>4. ASSUME NEW d \in Calls \ {c} PROVE Decided(call[d])'
    BY <1>1, <2>2, <2>4 DEF Decided
  <2> QED
    BY <2>3, <2>4
<1>4. call' = call \/ \E c \in Calls : CompleteAcceptancePayment(c)
  BY DEF vars, Next, AtStripe, IntentSettles, HandleStripeEvent, HandlerRolledBack, Users,
     TaskerConfirm, StartOver, UpdateBilling, Cancel, CancelFrom, CustomerNoShow,
     ReleaseDisputeHold, Scheduled, DeadlinePasses, ExpirePending, RequestRefund, RecordRefund,
     RefundInterrupted, SweepPick, SweepSettle, SweepCapture, SweepClose, SweepExpire,
     SweepInterrupted
<1> QED
  BY <1>2, <1>3, <1>4

\* While nothing is canceled, a creation has the key of the booking alone, so the
\* intent it makes is the first.
LEMMA CreationIsFirst ==
  ASSUME Inv, Keys, [Next]_vars, NoneCanceled', NEW c \in Calls, CreateIntent(c)
  PROVE  Lone'
<1>1. NoneCanceled /\ Lone /\ Decided(call[c])
  BY CanceledStays DEF Keys
<1>2. call[c].version = 0 /\ Replays(c) = {}
  BY <1>1 DEF CreateIntent, Decided
<1>3. Created = {}
  BY <1>1, <1>2 DEF Replays, Lone
<1>4. PICK i \in Intents :
        /\ intents'[i].version = call[c].version
        /\ \A j \in Intents \ {i} : intents'[j] = intents[j]
  BY CreationIs
<1>5. Created' \subseteq {i}
  BY <1>3, <1>4 DEF Created
<1> QED
  BY <1>2, <1>4, <1>5 DEF Lone

LEMMA NextKeys == ASSUME Inv, Keys, [Next]_vars PROVE Keys'
<1>1. ASSUME NoneCanceled' PROVE Lone'
  <2>1. CASE \E c \in Calls : CreateIntent(c)
    BY <1>1, <2>1, CreationIsFirst
  <2>2. CASE ~\E c \in Calls : CreateIntent(c)
    <3>1. \A i \in Intents : (intents'[i] # NoIntent <=> intents[i] # NoIntent) /\ Stands(i)
      BY <2>2, IntentsStand
    <3>2. Created' = Created
      BY <3>1 DEF Created
    <3>3. Lone
      BY <1>1, CanceledStays DEF Keys
    <3> QED
      BY <3>1, <3>2, <3>3 DEF Lone, Created, Stands
  <2> QED
    BY <2>1, <2>2
<1>2. \A c \in Calls : Decided(call[c])'
  BY CallsDecided DEF Keys
<1> QED
  BY <1>1, <1>2 DEF Keys

LEMMA KeysGiveOne == ASSUME Keys PROVE OneIntent
<1> SUFFICES ASSUME NoneCanceled PROVE Cardinality(Created) <= 1
  BY DEF OneIntent, NoneCanceled
<1>1. CASE Created = {}
  BY <1>1, FS_EmptySet
<1>2. CASE Created # {}
  <2>1. PICK i : Created = {i}
    BY <1>2 DEF Keys, Lone
  <2>2. Cardinality({i}) = 1
    BY FS_Singleton
  <2> QED
    BY <2>1, <2>2
<1> QED
  BY <1>1, <1>2

\* However many calls are clicked at once, retried, sent to 3DS or stopped between
\* two steps, with any cards and prices: the booking has one PaymentIntent until
\* the expiry sweep cancels one (the idempotency keys of completeAcceptancePayment).
THEOREM OneIntentOnly == Spec => []OneIntent
<1>1. Inv /\ Keys /\ [Next]_vars => Keys'
  BY NextKeys
<1>2. Spec => []Keys
  BY <1>1, InitKeys, InvCorrect, PTL DEF Spec
<1>3. Keys => OneIntent
  BY KeysGiveOne
<1> QED
  BY <1>2, <1>3, PTL

-----------------------------------------------------------------------------
(* Where the money that goes back came from. *)

\* A card refund goes to an intent that was charged, and is not more than that;
\* the wallet is credited what the booking captured.
CardRefundsCovered ==
  \A key \in {"cancel", "late"} : refunds[key] # NoRefund =>
    /\ Paid(refunds[key].intent)
    /\ refunds[key].amount <= intents[refunds[key].intent].amount

CreditIsCapture == wallet.credit \in {0, booking.capturedAmount}

LEMMA PaidStays ==
  ASSUME Inv, [Next]_vars, NEW i, Paid(i)
  PROVE  Paid(i)' /\ intents'[i].amount = intents[i].amount
<1>1. i \in Intents /\ intents[i] # NoIntent /\ intents[i].status = "succeeded"
  BY KnownIs DEF Paid, Known, Inv
<1>2. intents'[i] # NoIntent /\ Stands(i)
  BY <1>1, AllStand
<1>3. TypeOK'
  BY NextInv DEF Inv
<1> QED
  BY <1>1, <1>2, <1>3 DEF Stands, Paid, Known, TypeOK

\* Who writes refunds: the sweep of refunds, the webhook and the expiry sweep.
RefundMoves ==
  \/ RequestRefund
  \/ \E i \in Intents : Paid(i) /\ LateRefund(i) /\ intents' = intents

LEMMA RefundsMove == ASSUME Inv, [Next]_vars PROVE refunds' = refunds \/ RefundMoves
<1>1. CASE UNCHANGED vars
  BY <1>1 DEF vars
<1>2. ASSUME NEW c \in Calls, CompleteAcceptancePayment(c) PROVE refunds' = refunds
  BY <1>2 DEF CompleteAcceptancePayment, StartPayment, CheckAttempt, SwitchSource,
     CheckWindow, ConfirmAcceptedCash, CaptureFromWallet, WalletCaptureRefused, Lookup,
     Retrieve, ConfirmIntent, CreateIntent, CreateReplayed, RecordAttempt, MarkCaptured,
     RecordCaptured, Abandon, stripe
<1>3. CASE AtStripe
  <2>1. ASSUME NEW i \in Intents, IntentSettles(i) PROVE refunds' = refunds
    BY <2>1 DEF IntentSettles
  <2>2. ASSUME NEW e \in events, e.type = "succeeded" PROVE Paid(e.intent) /\ e.intent \in Intents
    BY <2>2 DEF Inv, Knowledge, EventsKnow, Known
  <2>3. ASSUME NEW e \in events, HandleStripeEvent(e) PROVE refunds' = refunds \/ RefundMoves
    BY <2>2, <2>3 DEF HandleStripeEvent, HandleSucceeded, RefundMoves
  <2>4. ASSUME NEW e \in events, HandlerRolledBack(e) PROVE RefundMoves
    BY <2>2, <2>4 DEF HandlerRolledBack, RefundMoves
  <2> QED
    BY <1>3, <2>1, <2>3, <2>4 DEF AtStripe
<1>4. CASE Users
  BY <1>4 DEF Users, TaskerConfirm, StartOver, UpdateBilling, Cancel, CancelFrom,
     CustomerNoShow, ReleaseDisputeHold, stripe
<1>5. CASE SweepCapture
  <2>1. Paid(sweep.ref) /\ sweep.ref \in Intents
    BY <1>5 DEF SweepCapture, Inv, Knowledge, SweepKnows, Paid, Known
  <2> QED
    BY <1>5, <2>1 DEF SweepCapture, HandleSucceeded, RefundMoves
<1>6. CASE Scheduled /\ ~SweepCapture
  BY <1>6 DEF Scheduled, RefundMoves, DeadlinePasses, ExpirePending, CancelFrom,
     RecordRefund, RefundInterrupted, SweepPick, SweepSettle, SweepClose, SweepExpire,
     SweepInterrupted, stripe
<1> QED
  BY <1>1, <1>2, <1>3, <1>4, <1>5, <1>6 DEF Next

LEMMA NextCardRefunds ==
  ASSUME Inv, CardRefundsCovered, [Next]_vars PROVE CardRefundsCovered'
<1> SUFFICES ASSUME NEW key \in {"cancel", "late"}, refunds'[key] # NoRefund
             PROVE /\ Paid(refunds[key].intent)'
                   /\ refunds'[key].amount <= intents'[refunds'[key].intent].amount
  BY DEF CardRefundsCovered
<1>1. CASE refunds'[key] = refunds[key]
  <2>1. PICK i : i = refunds[key].intent
    OBVIOUS
  <2>2. Paid(i) /\ refunds[key].amount <= intents[i].amount
    BY <1>1, <2>1 DEF CardRefundsCovered
  <2>3. Paid(i)' /\ intents'[i].amount = intents[i].amount
    BY <2>2, PaidStays
  <2> QED
    BY <1>1, <2>1, <2>2, <2>3 DEF Paid, Known
<1>2. CASE RequestRefund
  <2>1. /\ txn.ref \in Intents /\ intents' = intents
        /\ intents[txn.ref].status = "succeeded"
        /\ booking.capturedAmount <= intents[txn.ref].amount
        /\ refunds' = [refunds EXCEPT !["cancel"] =
                         [intent |-> txn.ref, amount |-> booking.capturedAmount]]
    BY <1>2 DEF RequestRefund
  <2>2. Paid(txn.ref)
    BY <2>1, Success DEF Inv
  <2>3. CASE key = "cancel"
    <3>1. refunds'[key] = [intent |-> txn.ref, amount |-> booking.capturedAmount]
      BY <2>1, <2>3, TypesOf
    <3> QED
      BY <2>1, <2>2, <3>1 DEF Paid, Known
  <2>4. CASE key # "cancel"
    BY <1>1, <2>1, <2>4, TypesOf
  <2> QED
    BY <2>3, <2>4
<1>3. ASSUME NEW i \in Intents, Paid(i), LateRefund(i), intents' = intents
      PROVE /\ Paid(refunds[key].intent)'
            /\ refunds'[key].amount <= intents'[refunds'[key].intent].amount
  <2>1. refunds' = [refunds EXCEPT !["late"] = [intent |-> i, amount |-> intents[i].amount]]
    BY <1>3 DEF LateRefund
  <2>2. CASE key = "late"
    <3>1. refunds'[key] = [intent |-> i, amount |-> intents[i].amount]
      BY <2>1, <2>2, TypesOf
    <3>2. intents[i].amount \in Nat
      BY <1>3, AmountsAssumption DEF Paid, Known, PaymentIntent
    <3> QED
      BY <1>3, <3>1, <3>2 DEF Paid, Known
  <2>3. CASE key # "late"
    BY <1>1, <2>1, <2>3, TypesOf
  <2> QED
    BY <2>2, <2>3
<1> QED
  BY <1>1, <1>2, <1>3, RefundsMove DEF RefundMoves

\* The wallet is written by the capture from it, and by cancelling.
LEMMA WalletMoves ==
  ASSUME Inv, [Next]_vars
  PROVE  \/ wallet'.credit = wallet.credit
         \/ wallet'.credit = booking.capturedAmount /\ booking'.capturedAmount = booking.capturedAmount
<1>1. CASE UNCHANGED wallet
  BY <1>1
<1>2. ASSUME NEW c \in Calls, CaptureFromWallet(c) PROVE wallet'.credit = wallet.credit
  BY <1>2, TypesOf DEF CaptureFromWallet
<1>3. CASE (Cancel \/ ExpirePending) /\ ~UNCHANGED wallet
  <2>1. /\ wallet' = [wallet EXCEPT !.credit = booking.capturedAmount]
        /\ booking' = [[booking EXCEPT !.status = "cancelled"] EXCEPT !.paymentStatus = "refunded"]
    BY <1>3 DEF Cancel, ExpirePending, CancelFrom, RefundAcceptanceCaptureOnCancel
  <2>2. /\ booking \in BookingRow
        /\ wallet \in [debit : {0} \union Amounts, credit : {0} \union Amounts]
    BY TypesOf
  <2>3. wallet'.credit = booking.capturedAmount
    BY <2>1, <2>2
  <2>4. booking'.capturedAmount = booking.capturedAmount
    BY <2>1, <2>2 DEF BookingRow
  <2> QED
    BY <2>3, <2>4
<1>4. \/ UNCHANGED wallet \/ (\E c \in Calls : CaptureFromWallet(c)) \/ Cancel \/ ExpirePending
  <2>1. ASSUME NEW c \in Calls, CompleteAcceptancePayment(c)
        PROVE  UNCHANGED wallet \/ CaptureFromWallet(c)
    BY <2>1 DEF CompleteAcceptancePayment, StartPayment, CheckAttempt, SwitchSource,
       CheckWindow, ConfirmAcceptedCash, WalletCaptureRefused, Lookup, Retrieve, ConfirmIntent,
       CreateIntent, CreateReplayed, RecordAttempt, MarkCaptured, RecordCaptured, Abandon
  <2>2. CASE AtStripe
    BY <2>2 DEF AtStripe, IntentSettles, HandleStripeEvent, HandlerRolledBack
  <2>3. CASE Users
    BY <2>3 DEF Users, TaskerConfirm, StartOver, UpdateBilling, CustomerNoShow, ReleaseDisputeHold
  <2>4. CASE Scheduled
    BY <2>4 DEF Scheduled, DeadlinePasses, RequestRefund, RecordRefund, RefundInterrupted,
       SweepPick, SweepSettle, SweepCapture, SweepClose, SweepExpire, SweepInterrupted
  <2> QED
    BY <2>1, <2>2, <2>3, <2>4 DEF Next, vars
<1> QED
  BY <1>1, <1>2, <1>3, <1>4

LEMMA NextCredit ==
  ASSUME Inv, CreditIsCapture, [Next]_vars PROVE CreditIsCapture'
<1>1. booking.capturedAmount # 0 => booking'.capturedAmount = booking.capturedAmount
  BY NextKeeps DEF Inv, Keeps, vars
<1> QED
  BY <1>1, WalletMoves DEF CreditIsCapture

\* Card refunds for any amounts that the booking may cost: whatever the sweeps and
\* webhooks do, they go to an intent that was charged, at most what it was charged
\* (processAcceptanceRefund, handleAcceptanceIntent).
THEOREM CardRefundsAreCovered == Spec => []CardRefundsCovered
<1>1. Init => CardRefundsCovered
  BY DEF Init, CardRefundsCovered
<1>2. Inv /\ CardRefundsCovered /\ [Next]_vars => CardRefundsCovered'
  BY NextCardRefunds
<1> QED
  BY <1>1, <1>2, InvCorrect, PTL DEF Spec

\* The wallet is credited exactly what the booking captured, for any amounts.
THEOREM CreditsAreCaptures == Spec => []CreditIsCapture
<1>1. Init => CreditIsCapture
  BY DEF Init, CreditIsCapture
<1>2. Inv /\ CreditIsCapture /\ [Next]_vars => CreditIsCapture'
  BY NextCredit
<1> QED
  BY <1>1, <1>2, InvCorrect, PTL DEF Spec

LEMMA ReturnedIsCovered ==
  ASSUME Inv, Ways, CardRefundsCovered, CreditIsCapture
  PROVE  RefundsCovered
<1> SUFFICES ASSUME wallet.credit # 0 => CaptureExact
             PROVE Returned <= wallet.debit \/ \E i \in Charged : Returned <= intents[i].amount
  BY DEF RefundsCovered
<1> USE DEF Credited, Refunded, RefundedLate
<1>1. /\ wallet.debit \in {0} \union Amounts /\ wallet.credit \in {0} \union Amounts
      /\ \A key \in {"cancel", "late"} : refunds[key].amount \in {0} \union Amounts
      /\ {0} \union Amounts \subseteq Nat /\ 0 \notin Amounts
  BY TypesOf, AmountsAssumption
<1>2. ASSUME NEW i \in Intents, Paid(i) PROVE i \in Charged /\ intents[i].amount \in Amounts
  BY <1>2 DEF Paid, Known, Charged, PaymentIntent
<1>3. \A key \in {"cancel", "late"} : refunds[key] = NoRefund => refunds[key].amount = 0
  BY DEF NoRefund
<1>4. CASE Credited
  <2>1. refunds["cancel"].amount = 0 /\ refunds["late"].amount = 0
    BY <1>3, <1>4 DEF Ways
  <2>2. Returned = wallet.credit /\ wallet.credit = booking.capturedAmount
    BY <1>1, <1>4, <2>1 DEF Returned, CreditIsCapture
  <2>3. \/ wallet.debit = booking.capturedAmount
        \/ \E i \in Charged : intents[i].amount = booking.capturedAmount
    BY <1>1, <1>4, <2>2 DEF CaptureExact
  <2>4. booking.capturedAmount \in Nat
    BY <1>1, <2>2
  <2> QED
    BY <2>2, <2>3, <2>4
<1>5. ASSUME NEW key \in {"cancel", "late"}, refunds[key] # NoRefund, ~Credited,
             Returned = refunds[key].amount
      PROVE \E i \in Charged : Returned <= intents[i].amount
  <2>1. /\ Paid(refunds[key].intent)
        /\ refunds[key].amount <= intents[refunds[key].intent].amount
    BY <1>5 DEF CardRefundsCovered
  <2>2. refunds[key].intent \in Charged
    BY <1>2, <2>1 DEF Paid, Known
  <2> QED
    BY <1>5, <2>1, <2>2 DEF RefundsCovered
<1>6. CASE ~Credited /\ Refunded
  <2>1. refunds["late"].amount = 0
    BY <1>3, <1>6 DEF Ways
  <2>2. Returned = refunds["cancel"].amount
    BY <1>1, <1>6, <2>1 DEF Returned
  <2> QED
    BY <1>5, <1>6, <2>2
<1>7. CASE ~Credited /\ ~Refunded
  <2>1. refunds["cancel"].amount = 0
    BY <1>3, <1>7
  <2>2. Returned = refunds["late"].amount
    BY <1>1, <1>7, <2>1 DEF Returned
  <2>3. CASE refunds["late"] # NoRefund
    BY <1>5, <1>7, <2>2, <2>3
  <2>4. CASE refunds["late"] = NoRefund
    BY <1>1, <1>3, <2>2, <2>4 DEF RefundsCovered
  <2> QED
    BY <2>3, <2>4
<1> QED
  BY <1>4, <1>6, <1>7

\* Whatever tip and donation do to the price between two attempts, the customer
\* never gets back more than one payment took: the card refunds by Stripe's own
\* limit, the wallet because it is credited the capture.  A capture that nothing was
\* charged with is credited too: a call that has read the new price marks the booking
\* captured with it, the card having been charged the old one, and another call has
\* switched the source to the wallet.
THEOREM NeverMoreThanTaken == Spec => []RefundsCovered
<1>1. Inv /\ Ways /\ CardRefundsCovered /\ CreditIsCapture => RefundsCovered
  BY ReturnedIsCovered
<1> QED
  BY <1>1, InvCorrect, WaysCorrect, CardRefundsAreCovered, CreditsAreCaptures, PTL
=============================================================================
