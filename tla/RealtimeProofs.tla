--------------------------- MODULE RealtimeProofs ---------------------------
(***************************************************************************)
(* Proofs about RealtimeOutbox: its type, delivery once when no lease      *)
(* expires and no mark fails, and the safety part of AtLeastOnce.  Proofs  *)
(* about RealtimeCalls and CallEvents: nobody is in two calls, and the     *)
(* parties of a call are told of its end, once it is over and no earlier.  *)
(***************************************************************************)
EXTENDS RealtimeOutbox, CallEvents, TLAPS

\* A flush answers for an event: still to take, or taken and not settled.
InHand(d, e) ==
  e \in disp[d].todo \/ (disp[d].event = e /\ disp[d].pc \in {"mark", "fail"})

\* Still to be handed over by this flush.
Before(d, e) == e \in disp[d].todo \/ (disp[d].event = e /\ disp[d].pc = "fail")

Flushes ==
  \A d \in Dispatchers :
    /\ disp[d].event \notin disp[d].todo
    /\ disp[d].pc = "idle" => disp[d].todo = {}

\* Nothing is done about an event that is not committed, nothing closed that
\* was not handed over.
InOrder ==
  /\ \A d \in Dispatchers, e \in Events : InHand(d, e) => row[e].state # "none"
  /\ \A d \in Dispatchers : disp[d].pc = "mark" => emitted[disp[d].event] > 0
  /\ \A e \in Events :
       /\ row[e].state \in {"published", "gone"} => emitted[e] > 0
       /\ emitted[e] > 0 => row[e].state # "none"

\* An event without trouble is locked by the one flush that answers for it,
\* and stays locked once it was handed over.
Quiet(e) ==
  /\ row[e].lock # "stale"
  /\ \A d \in Dispatchers : InHand(d, e) => row[e].state = "pending" /\ row[e].lock = "held"
  /\ \A c, d \in Dispatchers : InHand(c, e) /\ InHand(d, e) => c = d
  /\ \A d \in Dispatchers : Before(d, e) => emitted[e] = 0
  /\ emitted[e] > 0 /\ row[e].state = "pending" => row[e].lock = "held"
  /\ emitted[e] # 2

IInv ==
  /\ TypeOK
  /\ Flushes
  /\ InOrder
  /\ \A e \in Events \ troubled : Quiet(e)

-----------------------------------------------------------------------------

LEMMA EventsAreNumbers == Events \subseteq Nat /\ NoEvent \notin Events
  BY BoundsAssumption DEF Events, NoEvent

Row == [state : {"none", "pending", "published", "gone"},
        lock : {"free", "held", "stale"}, old : BOOLEAN]

\* What the updates of a row leave of its type.
LEMMA UpdatesTyped ==
  ASSUME NEW r \in Row
  PROVE /\ [r EXCEPT !.old = TRUE] \in Row
        /\ Published(r) \in Row
        /\ Released(r) \in Row
  BY DEF Row, Published, Released

Flush == [pc : {"idle", "emit", "mark", "fail"},
          todo : SUBSET Events, event : Events \union {NoEvent}]

\* Going on with the batch keeps the flushes typed; none is at a mark then.
LEMMA ProceedTyped ==
  ASSUME NEW x \in Dispatchers, disp \in [Dispatchers -> Flush], Proceed(x),
         \A d \in Dispatchers : disp[d].pc \in {"mark", "fail"} => disp[d].event \in Events
  PROVE /\ disp' \in [Dispatchers -> Flush]
        /\ \A d \in Dispatchers : disp'[d].pc \in {"mark", "fail"} => disp'[d].event \in Events
<1> DEFINE next == IF disp[x].todo = {} THEN Idle ELSE [disp[x] EXCEPT !.pc = "emit", !.event = NoEvent]
<1>1. next \in Flush /\ next.pc \notin {"mark", "fail"}
  <2>1. CASE disp[x].todo = {}
    BY <2>1 DEF Flush, Idle
  <2>2. CASE disp[x].todo # {}
    BY <2>2 DEF Flush
  <2> QED
    BY <2>1, <2>2
<1>2. disp' = [disp EXCEPT ![x] = next]
  BY DEF Proceed
<1> HIDE DEF next
<1> QED
  BY <1>1, <1>2

LEMMA InitInv == Init => IInv
<1> SUFFICES ASSUME Init PROVE IInv
  OBVIOUS
<1>1. TypeOK
  BY DEF Init, TypeOK, NoRow, Idle, NoEvent
<1>2. Flushes /\ InOrder /\ \A e \in Events \ troubled : Quiet(e)
  BY DEF Init, Flushes, InOrder, Quiet, InHand, Before, NoRow, Idle
<1> QED
  BY <1>1, <1>2 DEF IInv

LEMMA EnqueueInv ==
  ASSUME IInv, NEW x \in Events, Enqueue(x) PROVE IInv'
<1>1. TypeOK'
  BY DEF IInv, TypeOK, Enqueue
<1>2. Flushes'
  BY DEF IInv, Flushes, Enqueue
<1>3. InOrder'
  BY DEF IInv, TypeOK, InOrder, InHand, Enqueue
<1>4. ASSUME NEW e \in Events, e \notin troubled' PROVE Quiet(e)'
  BY <1>4 DEF IInv, TypeOK, InOrder, Quiet, InHand, Before, Enqueue
<1> QED
  BY <1>1, <1>2, <1>3, <1>4 DEF IInv

LEMMA LeaseExpiresInv ==
  ASSUME IInv, NEW x \in Events, LeaseExpires(x) PROVE IInv'
<1>1. TypeOK'
  BY DEF IInv, TypeOK, LeaseExpires
<1>2. Flushes'
  BY DEF IInv, Flushes, LeaseExpires
<1>3. InOrder'
  BY DEF IInv, TypeOK, InOrder, InHand, LeaseExpires
<1>4. ASSUME NEW e \in Events, e \notin troubled' PROVE Quiet(e)'
  BY <1>4 DEF IInv, TypeOK, InOrder, Quiet, InHand, Before, LeaseExpires
<1> QED
  BY <1>1, <1>2, <1>3, <1>4 DEF IInv

LEMMA RetentionPassesInv ==
  ASSUME IInv, NEW x \in Events, RetentionPasses(x) PROVE IInv'
<1>1. TypeOK'
  <2>1. row' \in [Events -> Row]
    <3>1. row \in [Events -> Row]
      BY DEF IInv, TypeOK, Row
    <3>2. row' = [row EXCEPT ![x] = [@ EXCEPT !.old = TRUE]]
      BY DEF RetentionPasses
    <3> QED
      BY <3>1, <3>2, UpdatesTyped
  <2>2. \A e \in Events : row'[e].lock # "free" => row'[e].state = "pending"
    BY DEF IInv, TypeOK, RetentionPasses
  <2>3. /\ disp' \in [Dispatchers -> [pc : {"idle", "emit", "mark", "fail"},
                                      todo : SUBSET Events, event : Events \union {NoEvent}]]
        /\ \A d \in Dispatchers : disp'[d].pc \in {"mark", "fail"} => disp'[d].event \in Events
    BY DEF IInv, TypeOK, RetentionPasses
  <2>4. emitted' \in [Events -> 0 .. 2] /\ troubled' \subseteq Events
    BY DEF IInv, TypeOK, RetentionPasses
  <2> QED
    BY <2>1, <2>2, <2>3, <2>4 DEF TypeOK, Row
<1>2. Flushes'
  BY DEF IInv, Flushes, RetentionPasses
<1>3. InOrder'
  BY DEF IInv, TypeOK, InOrder, InHand, RetentionPasses
<1>4. ASSUME NEW e \in Events, e \notin troubled' PROVE Quiet(e)'
  BY <1>4 DEF IInv, TypeOK, InOrder, Quiet, InHand, Before, RetentionPasses
<1> QED
  BY <1>1, <1>2, <1>3, <1>4 DEF IInv

LEMMA CleanupPublishedInv ==
  ASSUME IInv, NEW x \in Events, CleanupPublished(x) PROVE IInv'
<1>1. TypeOK'
  BY DEF IInv, TypeOK, CleanupPublished
<1>2. Flushes'
  BY DEF IInv, Flushes, CleanupPublished
<1>3. InOrder'
  BY DEF IInv, TypeOK, InOrder, InHand, CleanupPublished
<1>4. ASSUME NEW e \in Events, e \notin troubled' PROVE Quiet(e)'
  BY <1>4 DEF IInv, TypeOK, InOrder, Quiet, InHand, Before, CleanupPublished
<1> QED
  BY <1>1, <1>2, <1>3, <1>4 DEF IInv

LEMMA FlushAbortedInv ==
  ASSUME IInv, NEW x \in Dispatchers, FlushAborted(x) PROVE IInv'
<1>1. TypeOK'
  BY DEF IInv, TypeOK, FlushAborted, Idle
<1>2. Flushes'
  BY DEF IInv, TypeOK, Flushes, FlushAborted, Idle
<1>3. InOrder'
  BY DEF IInv, TypeOK, InOrder, InHand, FlushAborted, Idle
<1>4. ASSUME NEW e \in Events, e \notin troubled' PROVE Quiet(e)'
  BY <1>4 DEF IInv, TypeOK, InOrder, Quiet, InHand, Before, FlushAborted, Idle
<1> QED
  BY <1>1, <1>2, <1>3, <1>4 DEF IInv

LEMMA MarkFailsInv ==
  ASSUME IInv, NEW x \in Dispatchers, MarkFails(x) PROVE IInv'
<1>1. TypeOK'
  BY DEF IInv, TypeOK, MarkFails
<1>2. Flushes'
  BY DEF IInv, TypeOK, Flushes, MarkFails
<1>3. InOrder'
  BY DEF IInv, TypeOK, InOrder, InHand, MarkFails
<1>4. ASSUME NEW e \in Events, e \notin troubled' PROVE Quiet(e)'
  BY <1>4 DEF IInv, TypeOK, InOrder, Quiet, InHand, Before, MarkFails
<1> QED
  BY <1>1, <1>2, <1>3, <1>4 DEF IInv

LEMMA EmitInv ==
  ASSUME IInv, NEW x \in Dispatchers, NEW y \in Events, Emit(x, y) PROVE IInv'
<1>1. TypeOK'
  BY DEF IInv, TypeOK, Emit, Take, Once
<1>2. Flushes'
  BY DEF IInv, TypeOK, Flushes, Emit, Take, Once
<1>3. InOrder'
  BY DEF IInv, TypeOK, InOrder, InHand, Emit, Take, Once
<1>4. ASSUME NEW e \in Events, e \notin troubled' PROVE Quiet(e)'
  BY <1>4 DEF IInv, TypeOK, InOrder, Flushes, Quiet, InHand, Before, Emit, Take, Once
<1> QED
  BY <1>1, <1>2, <1>3, <1>4 DEF IInv

LEMMA EmitThrowsInv ==
  ASSUME IInv, NEW x \in Dispatchers, NEW y \in Events, EmitThrows(x, y) PROVE IInv'
<1>1. TypeOK'
  BY DEF IInv, TypeOK, EmitThrows, Take
<1>2. Flushes'
  BY DEF IInv, TypeOK, Flushes, EmitThrows, Take
<1>3. InOrder'
  BY DEF IInv, TypeOK, InOrder, InHand, EmitThrows, Take
<1>4. ASSUME NEW e \in Events, e \notin troubled' PROVE Quiet(e)'
  BY <1>4 DEF IInv, TypeOK, InOrder, Flushes, Quiet, InHand, Before, EmitThrows, Take
<1> QED
  BY <1>1, <1>2, <1>3, <1>4 DEF IInv

LEMMA MarkPublishedInv ==
  ASSUME IInv, NEW x \in Dispatchers, MarkPublished(x) PROVE IInv'
<1>1. TypeOK'
  <2>1. row' \in [Events -> Row]
    <3>1. row \in [Events -> Row]
      BY DEF IInv, TypeOK, Row
    <3>2. row' = [row EXCEPT ![disp[x].event] = Published(@)]
      BY DEF MarkPublished
    <3> QED
      BY <3>1, <3>2, UpdatesTyped
  <2>2. \A e \in Events : row'[e].lock # "free" => row'[e].state = "pending"
    BY DEF IInv, TypeOK, MarkPublished, Published
  <2>3. /\ disp' \in [Dispatchers -> [pc : {"idle", "emit", "mark", "fail"},
                                      todo : SUBSET Events, event : Events \union {NoEvent}]]
        /\ \A d \in Dispatchers : disp'[d].pc \in {"mark", "fail"} => disp'[d].event \in Events
    BY ProceedTyped DEF IInv, TypeOK, Flush, MarkPublished
  <2>4. emitted' \in [Events -> 0 .. 2] /\ troubled' \subseteq Events
    BY DEF IInv, TypeOK, MarkPublished
  <2> QED
    BY <2>1, <2>2, <2>3, <2>4 DEF TypeOK, Row
<1>2. Flushes'
  BY EventsAreNumbers DEF IInv, TypeOK, Flushes, MarkPublished, Published, Proceed, Idle
<1>3. InOrder'
  BY DEF IInv, TypeOK, InOrder, InHand, MarkPublished, Published, Proceed, Idle
<1>4. ASSUME NEW e \in Events, e \notin troubled' PROVE Quiet(e)'
  BY <1>4 DEF IInv, TypeOK, InOrder, Flushes, Quiet, InHand, Before, MarkPublished, Published, Proceed, Idle
<1> QED
  BY <1>1, <1>2, <1>3, <1>4 DEF IInv

LEMMA RecordErrorInv ==
  ASSUME IInv, NEW x \in Dispatchers, RecordError(x) PROVE IInv'
<1>1. TypeOK'
  <2>1. row' \in [Events -> Row]
    <3>1. row \in [Events -> Row]
      BY DEF IInv, TypeOK, Row
    <3>2. row' = [row EXCEPT ![disp[x].event] = Released(@)]
      BY DEF RecordError
    <3> QED
      BY <3>1, <3>2, UpdatesTyped
  <2>2. \A e \in Events : row'[e].lock # "free" => row'[e].state = "pending"
    BY DEF IInv, TypeOK, RecordError, Released
  <2>3. /\ disp' \in [Dispatchers -> [pc : {"idle", "emit", "mark", "fail"},
                                      todo : SUBSET Events, event : Events \union {NoEvent}]]
        /\ \A d \in Dispatchers : disp'[d].pc \in {"mark", "fail"} => disp'[d].event \in Events
    BY ProceedTyped DEF IInv, TypeOK, Flush, RecordError
  <2>4. emitted' \in [Events -> 0 .. 2] /\ troubled' \subseteq Events
    BY DEF IInv, TypeOK, RecordError
  <2> QED
    BY <2>1, <2>2, <2>3, <2>4 DEF TypeOK, Row
<1>2. Flushes'
  BY EventsAreNumbers DEF IInv, TypeOK, Flushes, RecordError, Released, Proceed, Idle
<1>3. InOrder'
  BY DEF IInv, TypeOK, InOrder, InHand, RecordError, Released, Proceed, Idle
<1>4. ASSUME NEW e \in Events, e \notin troubled' PROVE Quiet(e)'
  BY <1>4 DEF IInv, TypeOK, InOrder, Flushes, Quiet, InHand, Before, RecordError, Released, Proceed, Idle
<1> QED
  BY <1>1, <1>2, <1>3, <1>4 DEF IInv

LEMMA ClaimInv ==
  ASSUME IInv, NEW x \in Dispatchers, Claim(x) PROVE IInv'
<1>1. PICK batch \in SUBSET Claimable :
        /\ row' = [e \in Events |-> IF e \in batch THEN [row[e] EXCEPT !.lock = "held"]
                                                     ELSE row[e]]
        /\ disp' = [disp EXCEPT ![x] = [pc |-> "emit", todo |-> batch, event |-> NoEvent]]
  BY DEF Claim, Oldest
<1>2. disp[x].pc = "idle" /\ emitted' = emitted /\ troubled' = troubled
  BY DEF Claim
<1>3. \A e \in batch : e \in Events /\ row[e].state = "pending" /\ row[e].lock \in {"free", "stale"}
  BY DEF Claimable
<1>4. TypeOK'
  BY <1>1, <1>2, <1>3 DEF IInv, TypeOK
<1>5. Flushes'
  BY <1>1, <1>3, EventsAreNumbers DEF IInv, TypeOK, Flushes
<1>6. InOrder'
  BY <1>1, <1>2, <1>3 DEF IInv, TypeOK, InOrder, InHand
<1>7. ASSUME NEW e \in Events, e \notin troubled' PROVE Quiet(e)'
  BY <1>1, <1>2, <1>3, <1>7 DEF IInv, TypeOK, InOrder, Flushes, Quiet, InHand, Before
<1> QED
  BY <1>4, <1>5, <1>6, <1>7 DEF IInv

LEMMA NextInv == ASSUME IInv, [Next]_vars PROVE IInv'
<1>1. ASSUME NEW e \in Events, Enqueue(e) PROVE IInv'
  BY <1>1, EnqueueInv
<1>2. ASSUME NEW e \in Events, LeaseExpires(e) PROVE IInv'
  BY <1>2, LeaseExpiresInv
<1>3. ASSUME NEW e \in Events, RetentionPasses(e) PROVE IInv'
  BY <1>3, RetentionPassesInv
<1>4. ASSUME NEW e \in Events, CleanupPublished(e) PROVE IInv'
  BY <1>4, CleanupPublishedInv
<1>5. ASSUME NEW d \in Dispatchers, Claim(d) PROVE IInv'
  BY <1>5, ClaimInv
<1>6. ASSUME NEW d \in Dispatchers, MarkPublished(d) PROVE IInv'
  BY <1>6, MarkPublishedInv
<1>7. ASSUME NEW d \in Dispatchers, MarkFails(d) PROVE IInv'
  BY <1>7, MarkFailsInv
<1>8. ASSUME NEW d \in Dispatchers, RecordError(d) PROVE IInv'
  BY <1>8, RecordErrorInv
<1>9. ASSUME NEW d \in Dispatchers, FlushAborted(d) PROVE IInv'
  BY <1>9, FlushAbortedInv
<1>10. ASSUME NEW d \in Dispatchers, NEW e \in Events, Emit(d, e) PROVE IInv'
  BY <1>10, EmitInv
<1>11. ASSUME NEW d \in Dispatchers, NEW e \in Events, EmitThrows(d, e) PROVE IInv'
  BY <1>11, EmitThrowsInv
<1>12. CASE UNCHANGED vars
  BY <1>12 DEF IInv, TypeOK, Flushes, InOrder, Quiet, InHand, Before, vars
<1> QED
  BY <1>1, <1>2, <1>3, <1>4, <1>5, <1>6, <1>7, <1>8, <1>9, <1>10, <1>11, <1>12 DEF Next, Work

THEOREM Invariance == Spec => []IInv
  BY InitInv, NextInv, PTL DEF Spec

\* Rows and flushes keep their types for any number of events and
\* dispatchers; in particular a row that is published, deleted or not written
\* is never locked (claim and the updates of flush).
THEOREM TypeCorrect == Spec => []TypeOK
  BY Invariance, PTL DEF IInv

\* Any number of dispatchers, stopping and failing anywhere: an event whose
\* lease never expired and whose mark never failed was handed to Socket.IO at
\* most once (the claim by SKIP LOCKED, lockedAt and the update by id).
THEOREM OncePerEvent == Spec => []OnceUnlessTroubled
<1>1. IInv => OnceUnlessTroubled
  BY DEF IInv, Quiet, OnceUnlessTroubled
<1> QED
  BY <1>1, Invariance, PTL

-----------------------------------------------------------------------------
(* The outbox implements the safety part of AtLeastOnce. *)

committedEvents == {e \in Events : row[e].state # "none"}
deliveredEvents == {e \in Events : emitted[e] > 0}
closedEvents == {e \in Events : row[e].state \in {"published", "gone"}}

LEMMA PromiseInit == Init => Promise!Init
  BY DEF Init, NoRow, Promise!Init

\* A step that neither writes nor closes a row nor hands one over stutters.
LEMMA PromiseStutters ==
  ASSUME committedEvents' = committedEvents, deliveredEvents' = deliveredEvents,
         closedEvents' = closedEvents
  PROVE UNCHANGED Promise!vars
  BY DEF committedEvents, deliveredEvents, closedEvents, Promise!vars

LEMMA PromiseStep == ASSUME IInv, [Next]_vars PROVE [Promise!Next]_(Promise!vars)
<1> USE DEF committedEvents, deliveredEvents, closedEvents
<1>1. ASSUME NEW e \in Events, Enqueue(e) PROVE Promise!Commit(e)
  BY <1>1 DEF IInv, TypeOK, Enqueue, Promise!Commit
<1>2. ASSUME NEW d \in Dispatchers, NEW e \in Events, Emit(d, e)
      PROVE Promise!Deliver(e) \/ UNCHANGED Promise!vars
  <2>1. row[e].state # "none"
    BY <1>2 DEF IInv, InOrder, InHand, Emit, Take
  <2>2. deliveredEvents' = deliveredEvents \union {e}
    BY <1>2 DEF IInv, TypeOK, Emit, Once
  <2>3. committedEvents' = committedEvents /\ closedEvents' = closedEvents
    BY <1>2 DEF Emit
  <2>4. CASE e \in deliveredEvents
    BY <2>2, <2>3, <2>4, PromiseStutters
  <2>5. CASE e \notin deliveredEvents
    BY <2>1, <2>2, <2>3, <2>5 DEF Promise!Deliver
  <2> QED
    BY <2>4, <2>5
<1>3. ASSUME NEW d \in Dispatchers, MarkPublished(d)
      PROVE \E e \in Events : Promise!Close(e)
  <2>1. PICK e \in Events : e = disp[d].event /\ emitted[e] > 0
    BY <1>3 DEF IInv, TypeOK, InOrder, MarkPublished
  <2>2. emitted' = emitted /\ row' = [row EXCEPT ![e] = Published(@)]
    BY <1>3, <2>1 DEF MarkPublished
  <2>3. closedEvents' = closedEvents \union {e}
    BY <2>1, <2>2 DEF IInv, TypeOK, Published
  <2>4. committedEvents' = committedEvents
    BY <2>1, <2>2 DEF IInv, TypeOK, InOrder, Published
  <2> QED
    BY <2>1, <2>2, <2>3, <2>4 DEF Promise!Close
<1>4. ASSUME NEW d \in Dispatchers, MarkFails(d) \/ FlushAborted(d)
      PROVE UNCHANGED Promise!vars
  BY <1>4, PromiseStutters DEF MarkFails, FlushAborted
<1>5. ASSUME NEW d \in Dispatchers, NEW e \in Events, EmitThrows(d, e)
      PROVE UNCHANGED Promise!vars
  BY <1>5, PromiseStutters DEF EmitThrows
<1>6. ASSUME NEW d \in Dispatchers, Claim(d) PROVE UNCHANGED Promise!vars
  <2>1. emitted' = emitted /\ \A e \in Events : row'[e].state = row[e].state
    BY <1>6 DEF Claim, IInv, TypeOK
  <2> QED
    BY <2>1, PromiseStutters
<1>7. ASSUME NEW d \in Dispatchers, RecordError(d) PROVE UNCHANGED Promise!vars
  <2>1. emitted' = emitted /\ \A e \in Events : row'[e].state = row[e].state
    BY <1>7 DEF RecordError, Released, IInv, TypeOK
  <2> QED
    BY <2>1, PromiseStutters
<1>8. ASSUME NEW e \in Events, LeaseExpires(e) \/ RetentionPasses(e)
      PROVE UNCHANGED Promise!vars
  <2>1. emitted' = emitted /\ \A f \in Events : row'[f].state = row[f].state
    BY <1>8 DEF LeaseExpires, RetentionPasses, IInv, TypeOK
  <2> QED
    BY <2>1, PromiseStutters
<1>9. ASSUME NEW e \in Events, CleanupPublished(e) PROVE UNCHANGED Promise!vars
  <2>1. /\ emitted' = emitted /\ row[e].state = "published" /\ row'[e].state = "gone"
        /\ \A f \in Events \ {e} : row'[f].state = row[f].state
    BY <1>9 DEF CleanupPublished, IInv, TypeOK
  <2> QED
    BY <2>1, PromiseStutters
<1>10. CASE UNCHANGED vars
  BY <1>10, PromiseStutters DEF vars
<1>11. ASSUME NEW e \in Events, Enqueue(e) PROVE Promise!Next
  BY <1>1, <1>11 DEF Promise!Next
<1>12. ASSUME NEW d \in Dispatchers, NEW e \in Events, Emit(d, e)
       PROVE Promise!Next \/ UNCHANGED Promise!vars
  BY <1>2, <1>12 DEF Promise!Next
<1>13. ASSUME NEW d \in Dispatchers, MarkPublished(d) PROVE Promise!Next
  BY <1>3, <1>13 DEF Promise!Next
<1>14. Next => Promise!Next \/ UNCHANGED Promise!vars
  BY <1>4, <1>5, <1>6, <1>7, <1>8, <1>9, <1>11, <1>12, <1>13 DEF Next, Work
<1> QED
  BY <1>10, <1>14

\* Whatever dispatchers, crashes and leases do, the outbox implements the
\* safety part of AtLeastOnce: no row is marked published or deleted whose
\* event was not handed to Socket.IO before, and none is handed over that was
\* not committed.
THEOREM PromiseKept == Spec => Promise!Safety
  BY PromiseInit, PromiseStep, Invariance, PTL DEF Spec, Promise!Safety

-----------------------------------------------------------------------------
(* Calls. *)

\* A call that is still asked for has no row, so that no row is written twice.
Unwritten == \A a \in asked : call[a.call].status = None

\* Nothing is decided on a call that is over: what is decided when it finishes
\* is dropped, as the update that follows would find it finished.
Undecided == \A c \in Calls : acting[c] # {} => Active(c)

CallInv ==
  /\ CallTypeOK
  /\ Unwritten
  /\ Undecided
  /\ OneCallEach

LEMMA StatusesApart ==
  /\ None \notin ACTIVE_CALL_STATUSES
  /\ \A status \in CallStatuses : status # None
  /\ \A status \in {"rejected", "cancelled", "missed", "ended"} :
       status \in CallStatuses \ ACTIVE_CALL_STATUSES
  BY NoneAssumption DEF CallStatuses, ACTIVE_CALL_STATUSES

LEMMA CallInitInv == CallInit => CallInv
<1> SUFFICES ASSUME CallInit PROVE CallInv
  OBVIOUS
<1>1. CallTypeOK
  BY DEF CallInit, CallTypeOK, NoCall
<1>2. Unwritten
  BY DEF CallInit, Unwritten
<1>4. Undecided
  BY DEF CallInit, Undecided
<1>3. \A c \in Calls : ~Active(c)
  BY StatusesApart DEF CallInit, NoCall, Active
<1> QED
  BY <1>1, <1>2, <1>3, <1>4 DEF CallInv, OneCallEach

LEMMA AskForCallInv ==
  ASSUME CallInv, NEW c \in Calls, NEW b \in Bookings, NEW u \in Users, AskForCall(c, b, u)
  PROVE CallInv'
<1>1. PICK r \in Parties(b) \ {u} :
        asked' = asked \union {[call |-> c, booking |-> b, initiator |-> u, recipient |-> r]}
  BY DEF AskForCall
<1>2. r \in Users
  BY DEF Parties, CallInv, CallTypeOK, Users
<1>3. call[c].status = None /\ call' = call /\ booking' = booking /\ acting' = acting
  BY DEF AskForCall
<1>4. CallTypeOK'
  BY <1>1, <1>2, <1>3 DEF CallInv, CallTypeOK
<1>5. Unwritten'
  BY <1>1, <1>3 DEF CallInv, Unwritten
<1>6. OneCallEach'
  BY <1>3 DEF CallInv, OneCallEach, Active, In
<1>7. Undecided'
  BY <1>3 DEF CallInv, Undecided, Active
<1> QED
  BY <1>4, <1>5, <1>6, <1>7 DEF CallInv

\* The new call is the only one of both: neither was busy.
LEMMA CreateCallInv == ASSUME CallInv, NEW a \in asked, CreateCall(a) PROVE CallInv'
<1> DEFINE new == [status |-> "ringing", booking |-> a.booking, initiator |-> a.initiator,
                   recipient |-> a.recipient, answered |-> FALSE, due |-> FALSE]
<1>1. a \in [call : Calls, booking : Bookings, initiator : Users, recipient : Users]
  BY DEF CallInv, CallTypeOK
<1>2. call' = [call EXCEPT ![a.call] = new] /\ asked' = {x \in asked : x.call # a.call}
  BY DEF CreateCall
<1>3. booking' = booking /\ acting' = acting
  BY DEF CreateCall
<1>4. \A d \in Calls \ {a.call} : call'[d] = call[d]
  BY <1>1, <1>2 DEF CallInv, CallTypeOK
<1>5. call'[a.call].initiator = a.initiator /\ call'[a.call].recipient = a.recipient
  BY <1>1, <1>2 DEF CallInv, CallTypeOK
<1>6. CallTypeOK'
  BY <1>1, <1>2, <1>3 DEF CallInv, CallTypeOK, CallStatuses, ACTIVE_CALL_STATUSES
<1>7. Unwritten'
  <2>1. ASSUME NEW x \in asked' PROVE x \in asked /\ x.call \in Calls \ {a.call}
    BY <1>2, <2>1 DEF CallInv, CallTypeOK
  <2> QED
    BY <1>4, <2>1 DEF CallInv, Unwritten
<1>8. ASSUME NEW c \in Calls \ {a.call}, NEW u \in Users, Active(c)', In(u, c)'
      PROVE ~In(u, a.call)'
  <2>1. Active(c) /\ In(u, c)
    BY <1>4, <1>8 DEF Active, In
  <2>2. Busy(u)
    BY <2>1 DEF Busy
  <2>3. u # a.initiator /\ u # a.recipient
    BY <2>2 DEF CreateCall
  <2> QED
    BY <1>5, <2>3 DEF In
<1>9. OneCallEach'
  <2> SUFFICES ASSUME NEW c \in Calls, NEW d \in Calls, NEW u \in Users,
                      Active(c)', Active(d)', In(u, c)', In(u, d)'
               PROVE c = d
    BY DEF OneCallEach
  <2>1. CASE c # a.call /\ d # a.call
    BY <1>4, <2>1 DEF CallInv, OneCallEach, Active, In
  <2> QED
    BY <1>8, <2>1
<1>10. Undecided'
  <2>1. Active(a.call)'
    BY <1>1, <1>2 DEF CallInv, CallTypeOK, Active, ACTIVE_CALL_STATUSES
  <2> QED
    BY <1>3, <1>4, <2>1 DEF CallInv, Undecided, Active
<1> QED
  BY <1>6, <1>7, <1>9, <1>10 DEF CallInv

\* Steps of a call that change neither its parties nor bring it back.
LEMMA CallGoesOn ==
  ASSUME CallInv, CallTypeOK', Undecided', asked' \subseteq asked,
         \A c \in Calls :
           /\ call'[c].initiator = call[c].initiator /\ call'[c].recipient = call[c].recipient
           /\ Active(c)' => Active(c)
           /\ call[c].status = None => call'[c].status = None
  PROVE CallInv'
<1>1. Unwritten'
  BY DEF CallInv, CallTypeOK, Unwritten
<1>2. OneCallEach'
  BY DEF CallInv, OneCallEach, In
<1> QED
  BY <1>1, <1>2 DEF CallInv

LEMMA FinishInv ==
  ASSUME CallInv, NEW c \in Calls, Active(c),
         NEW status \in {"rejected", "cancelled", "missed", "ended"}, Finish(c, status)
  PROVE CallInv' /\ Over(c)' /\ \A d \in Calls \ {c} : Over(d)' <=> Over(d)
<1>1. /\ call' = [call EXCEPT ![c].status = status, ![c].due = FALSE]
      /\ acting' = [acting EXCEPT ![c] = {}] /\ booking' = booking /\ asked' = asked
  BY DEF Finish
<1>2. CallTypeOK'
  <2> DEFINE made == [call[c] EXCEPT !.status = status, !.due = FALSE]
             rows == [status : CallStatuses \union {None}, booking : Bookings \union {None},
                      initiator : Users \union {None}, recipient : Users \union {None},
                      answered : BOOLEAN, due : BOOLEAN]
  <2>1. call \in [Calls -> rows]
    BY DEF CallInv, CallTypeOK
  <2>2. made \in rows
    BY <2>1 DEF CallStatuses
  <2>3. call' = [call EXCEPT ![c] = made]
    BY <1>1, <2>1
  <2>4. call' \in [Calls -> rows]
    BY <2>1, <2>2, <2>3
  <2> QED
    BY <1>1, <2>4 DEF CallInv, CallTypeOK
<1>3. call'[c].status = status /\ \A d \in Calls \ {c} : call'[d] = call[d]
  BY <1>1 DEF CallInv, CallTypeOK
<1>4. call'[c].initiator = call[c].initiator /\ call'[c].recipient = call[c].recipient
  BY <1>1 DEF CallInv, CallTypeOK
<1>5. call[c].status # None
  BY StatusesApart DEF Active
<1>6. Undecided'
  BY <1>1, <1>3 DEF CallInv, CallTypeOK, Undecided, Active
<1>7. CallInv'
  BY <1>1, <1>2, <1>3, <1>4, <1>5, <1>6, CallGoesOn DEF Active
<1> QED
  BY <1>3, <1>7, StatusesApart DEF Over, CallStatuses

LEMMA FinishingInv ==
  ASSUME CallInv, NEW c \in Calls, Finishing(c)
  PROVE CallInv' /\ Over(c)' /\ \A d \in Calls \ {c} : Over(d)' <=> Over(d)
<1>1. ASSUME Active(c) PROVE \E status \in {"rejected", "cancelled", "missed", "ended"} : Finish(c, status)
  BY DEF Finishing, Reject, Cancel, End, ExpireOneRingingCall, ExpireAcceptedCall, FinishSystemCall
<1>2. Active(c)
  BY DEF CallInv, Undecided, Finishing, FinishSystemCall, Reject, Cancel, End, ExpireOneRingingCall, ExpireAcceptedCall, MayAct,
         Active, ACTIVE_CALL_STATUSES
<1> QED
  BY <1>1, <1>2, FinishInv

LEMMA DecideInv ==
  ASSUME CallInv, NEW c \in Calls, Active(c), NEW update \in {"answer", "withdraw", "hangup"},
         Decide(c, update)
  PROVE CallInv'
<1>1. /\ acting' = [acting EXCEPT ![c] = @ \union {update}]
      /\ call' = call /\ booking' = booking /\ asked' = asked
  BY DEF Decide
<1>2. CallTypeOK'
  BY <1>1 DEF CallInv, CallTypeOK
<1>3. Undecided'
  BY <1>1 DEF CallInv, CallTypeOK, Undecided, Active
<1> QED
  BY <1>1, <1>2, <1>3, CallGoesOn DEF Active

LEMMA AnswerInv == ASSUME CallInv, NEW c \in Calls, Answer(c) PROVE CallInv'
<1>1. /\ call' = [call EXCEPT ![c].status = "accepted", ![c].answered = TRUE, ![c].due = FALSE]
      /\ acting' = [acting EXCEPT ![c] = @ \ {"answer"}]
      /\ booking' = booking /\ asked' = asked /\ call[c].status = "ringing"
  BY DEF Answer
<1>2. CallTypeOK'
  <2> DEFINE made == [call[c] EXCEPT !.status = "accepted", !.answered = TRUE, !.due = FALSE]
             rows == [status : CallStatuses \union {None}, booking : Bookings \union {None},
                      initiator : Users \union {None}, recipient : Users \union {None},
                      answered : BOOLEAN, due : BOOLEAN]
  <2>1. call \in [Calls -> rows]
    BY DEF CallInv, CallTypeOK
  <2>2. made \in rows
    BY <2>1 DEF CallStatuses, ACTIVE_CALL_STATUSES
  <2>3. call' = [call EXCEPT ![c] = made]
    BY <1>1, <2>1
  <2>4. call' \in [Calls -> rows]
    BY <2>1, <2>2, <2>3
  <2> QED
    BY <1>1, <2>4 DEF CallInv, CallTypeOK
<1>3. call'[c].status = "accepted" /\ \A d \in Calls \ {c} : call'[d] = call[d]
  BY <1>1 DEF CallInv, CallTypeOK
<1>4. Active(c) /\ Active(c)'
  BY <1>1, <1>3 DEF Active, ACTIVE_CALL_STATUSES
<1>5. Undecided'
  BY <1>1, <1>3, <1>4 DEF CallInv, CallTypeOK, Undecided, Active
<1>6. call'[c].initiator = call[c].initiator /\ call'[c].recipient = call[c].recipient
  BY <1>1 DEF CallInv, CallTypeOK
<1> QED
  BY <1>1, <1>2, <1>3, <1>4, <1>5, <1>6, StatusesApart, CallGoesOn DEF Active

LEMMA TimeRunsOutInv == ASSUME CallInv, NEW c \in Calls, TimeRunsOut(c) PROVE CallInv'
<1>1. /\ call' = [call EXCEPT ![c].due = TRUE]
      /\ booking' = booking /\ asked' = asked /\ acting' = acting
  BY DEF TimeRunsOut
<1>2. CallTypeOK'
  BY <1>1 DEF CallInv, CallTypeOK
<1>3. \A d \in Calls : /\ call'[d].status = call[d].status
                       /\ call'[d].initiator = call[d].initiator
                       /\ call'[d].recipient = call[d].recipient
  BY <1>1 DEF CallInv, CallTypeOK
<1>4. Undecided'
  BY <1>1, <1>3 DEF CallInv, Undecided, Active
<1> QED
  BY <1>1, <1>2, <1>3, <1>4, CallGoesOn DEF Active

LEMMA ActionLostInv == ASSUME CallInv, NEW c \in Calls, ActionLost(c) PROVE CallInv'
<1>1. PICK update \in acting[c] : acting' = [acting EXCEPT ![c] = @ \ {update}]
  BY DEF ActionLost
<1>2. call' = call /\ booking' = booking /\ asked' = asked
  BY DEF ActionLost
<1>3. CallTypeOK'
  BY <1>1, <1>2 DEF CallInv, CallTypeOK
<1>4. Undecided'
  BY <1>1, <1>2 DEF CallInv, CallTypeOK, Undecided, Active
<1> QED
  BY <1>2, <1>3, <1>4, CallGoesOn DEF Active

LEMMA CallRefusedInv == ASSUME CallInv, NEW a \in asked, CallRefused(a) PROVE CallInv'
<1>1. asked' = asked \ {a} /\ call' = call /\ booking' = booking /\ acting' = acting
  BY DEF CallRefused
<1>2. CallTypeOK' /\ Undecided'
  BY <1>1 DEF CallInv, CallTypeOK, Undecided, Active
<1> QED
  BY <1>1, <1>2, CallGoesOn DEF Active

LEMMA BookkeepingInv == ASSUME CallInv, Bookkeeping PROVE CallInv'
<1>1. call' = call /\ asked' = asked /\ acting' = acting
  BY DEF Bookkeeping, StatusChanges, Reassign
<1>2. booking' \in [Bookings -> [customer : Customers, tasker : Taskers, callable : BOOLEAN]]
  <2> DEFINE rows == [customer : Customers, tasker : Taskers, callable : BOOLEAN]
  <2>1. booking \in [Bookings -> rows]
    BY DEF CallInv, CallTypeOK
  <2>2. ASSUME NEW b \in Bookings, StatusChanges(b) PROVE booking' \in [Bookings -> rows]
    <3>1. booking' = [booking EXCEPT ![b] = [booking[b] EXCEPT !.callable = ~booking[b].callable]]
      BY <2>2 DEF StatusChanges
    <3>2. [booking[b] EXCEPT !.callable = ~booking[b].callable] \in rows
      BY <2>1
    <3> QED
      BY <2>1, <3>1, <3>2
  <2>3. ASSUME NEW b \in Bookings, NEW t \in Taskers, Reassign(b, t)
        PROVE booking' \in [Bookings -> rows]
    <3>1. booking' = [booking EXCEPT ![b] = [booking[b] EXCEPT !.tasker = t, !.callable = FALSE]]
      BY <2>1, <2>3 DEF Reassign
    <3>2. [booking[b] EXCEPT !.tasker = t, !.callable = FALSE] \in rows
      BY <2>1
    <3> QED
      BY <2>1, <3>1, <3>2
  <2> QED
    BY <2>2, <2>3 DEF Bookkeeping
<1>3. CallTypeOK' /\ Undecided'
  BY <1>1, <1>2 DEF CallInv, CallTypeOK, Undecided, Active
<1> QED
  BY <1>1, <1>3, CallGoesOn DEF Active

\* No step but a finish brings a call to its end or back from it.
LEMMA GoingInv == ASSUME CallInv, NEW c \in Calls, Going(c) PROVE CallInv'
<1>1. ASSUME NEW b \in Bookings, NEW u \in Users, AskForCall(c, b, u) PROVE CallInv'
  BY <1>1, AskForCallInv
<1>2. ASSUME NEW a \in asked, CreateCall(a) \/ CallRefused(a) PROVE CallInv'
  BY <1>2, CreateCallInv, CallRefusedInv
<1>3. CASE Accept(c)
  <2>1. PICK update \in {"withdraw", "answer"} : Decide(c, update)
    BY <1>3 DEF Accept
  <2>2. Active(c)
    BY <1>3 DEF Accept, MayAct
  <2> QED
    BY <2>1, <2>2, DecideInv
<1>4. CASE SignalTarget(c)
  <2>1. Active(c) /\ Decide(c, "hangup")
    BY <1>4 DEF SignalTarget, MayAct
  <2> QED
    BY <2>1, DecideInv
<1> QED
  BY <1>1, <1>2, <1>3, <1>4, AnswerInv, ActionLostInv, TimeRunsOutInv DEF Going

LEMMA CallNextInv == ASSUME CallInv, [CallNext]_callVars PROVE CallInv'
<1>1. CASE UNCHANGED callVars
  BY <1>1 DEF callVars, CallInv, CallTypeOK, Unwritten, Undecided, OneCallEach, Active, In
<1> QED
  BY <1>1, BookkeepingInv, GoingInv, FinishingInv DEF CallNext

THEOREM CallInvariance == CallSpec => []CallInv
  BY CallInitInv, CallNextInv, PTL DEF CallSpec

\* A call's row keeps its type, whoever calls, answers, withdraws or is
\* reassigned (realtime-calls.service.ts).
THEOREM CallsTypeCorrect == CallSpec => []CallTypeOK
  BY CallInvariance, PTL DEF CallInv

\* For any number of users, bookings and calls: nobody is in two active calls at
\* once (the busy test of initiate, under its lock of both users).
THEOREM OneActiveCall == CallSpec => []OneCallEach
  BY CallInvariance, PTL DEF CallInv

-----------------------------------------------------------------------------
(* Calls and the outbox that tells of their end. *)

\* The event of a call's end is committed exactly when the call is over, and
\* delivered only after that.
ToldOfEnds ==
  /\ \A c \in Calls : Over(c) <=> c \in committed
  /\ delivered \subseteq committed
  /\ committed \subseteq Calls

CallsInv == CallInv /\ ToldOfEnds

LEMMA CallsInitInv == CallsInit => CallsInv
<1> SUFFICES ASSUME CallsInit PROVE CallsInv
  OBVIOUS
<1>1. \A c \in Calls : ~Over(c)
  BY DEF CallsInit, CallInit, NoCall, Over
<1> QED
  BY <1>1, CallInitInv DEF CallsInit, CallsInv, ToldOfEnds, Outbox!Init

LEMMA GoingEndsNone ==
  ASSUME CallInv, NEW c \in Calls, Going(c) PROVE \A d \in Calls : Over(d)' <=> Over(d)
<1>1. ASSUME NEW a \in asked, CreateCall(a) PROVE \A d \in Calls : Over(d)' <=> Over(d)
  <2>1. a.call \in Calls /\ call[a.call].status = None
    BY DEF CallInv, CallTypeOK, Unwritten
  <2>2. /\ call'[a.call].status = "ringing"
        /\ \A d \in Calls \ {a.call} : call'[d] = call[d]
    BY <1>1, <2>1 DEF CreateCall, CallInv, CallTypeOK
  <2> QED
    BY <2>1, <2>2 DEF Over, ACTIVE_CALL_STATUSES
<1>2. CASE Answer(c)
  <2>1. /\ call[c].status = "ringing" /\ call'[c].status = "accepted"
        /\ \A d \in Calls \ {c} : call'[d] = call[d]
    BY <1>2 DEF Answer, CallInv, CallTypeOK
  <2> QED
    BY <2>1 DEF Over, ACTIVE_CALL_STATUSES
<1>3. CASE TimeRunsOut(c)
  <2>1. \A d \in Calls : call'[d].status = call[d].status
    BY <1>3 DEF TimeRunsOut, CallInv, CallTypeOK
  <2> QED
    BY <2>1 DEF Over
<1>4. ASSUME call' = call PROVE \A d \in Calls : Over(d)' <=> Over(d)
  BY <1>4 DEF Over
<1>5. ASSUME NEW b \in Bookings, NEW u \in Users, AskForCall(c, b, u) PROVE call' = call
  BY <1>5 DEF AskForCall
<1>6. ASSUME NEW a \in asked, CallRefused(a) PROVE call' = call
  BY <1>6 DEF CallRefused
<1>7. ASSUME Accept(c) \/ SignalTarget(c) \/ ActionLost(c) PROVE call' = call
  BY <1>7 DEF Accept, SignalTarget, ActionLost, Decide
<1> QED
  BY <1>1, <1>2, <1>3, <1>4, <1>5, <1>6, <1>7 DEF Going

LEMMA CallsNextInv == ASSUME CallsInv, [CallsNext]_allVars PROVE CallsInv'
<1>1. ASSUME NEW c \in Calls, FinishAndTell(c) PROVE CallsInv'
  <2>1. CallInv' /\ Over(c)' /\ \A d \in Calls \ {c} : Over(d)' <=> Over(d)
    BY <1>1, FinishingInv DEF FinishAndTell, CallsInv
  <2>2. committed' = committed \union {c} /\ delivered' = delivered
    BY <1>1 DEF FinishAndTell, Outbox!Commit
  <2> QED
    BY <2>1, <2>2 DEF CallsInv, ToldOfEnds
<1>2. CASE TalkGoesOn
  <2>1. CallInv'
    BY <1>2, GoingInv, BookkeepingInv DEF TalkGoesOn, CallsInv
  <2>2. \A d \in Calls : Over(d)' <=> Over(d)
    <3>1. CASE Bookkeeping
      BY <3>1 DEF Bookkeeping, StatusChanges, Reassign, Over
    <3> QED
      BY <1>2, <3>1, GoingEndsNone DEF TalkGoesOn, CallsInv
  <2>3. committed' = committed /\ delivered' = delivered
    BY <1>2 DEF TalkGoesOn, news
  <2> QED
    BY <2>1, <2>2, <2>3 DEF CallsInv, ToldOfEnds
<1>3. ASSUME NEW c \in Calls, Tell(c) PROVE CallsInv'
  <2>1. UNCHANGED callVars
    BY <1>3 DEF Tell
  <2>2. CallInv'
    BY <2>1, CallNextInv DEF CallsInv
  <2>3. committed' = committed /\ delivered' \subseteq committed
    BY <1>3 DEF Tell, Outbox!Deliver, Outbox!Close, CallsInv, ToldOfEnds
  <2> QED
    BY <2>1, <2>2, <2>3 DEF callVars, CallsInv, ToldOfEnds, Over
<1>4. CASE UNCHANGED allVars
  <2>1. UNCHANGED callVars /\ UNCHANGED news
    BY <1>4 DEF allVars
  <2>2. CallInv'
    BY <2>1, CallNextInv DEF CallsInv
  <2> QED
    BY <2>1, <2>2 DEF callVars, news, CallsInv, ToldOfEnds, Over
<1> QED
  BY <1>1, <1>2, <1>3, <1>4 DEF CallsNext

THEOREM CallsInvariance == CallsSpec => []CallsInv
  BY CallsInitInv, CallsNextInv, PTL DEF CallsSpec

\* The transaction that finishes a call writes its last call:state: the event is
\* there exactly when the call is over, and its parties are told no earlier.
THEOREM EndsAreTold == CallsSpec => []ToldOfEnds
  BY CallsInvariance, PTL DEF CallsInv

\* What the outbox does changes nothing in a call: the composition implements
\* the specification of the calls alone.
THEOREM CallsStayCalls == CallsSpec => CallSpec
<1>1. CallsInit => CallInit
  BY DEF CallsInit
<1>2. [CallsNext]_allVars => [CallNext]_callVars
  <2> SUFFICES ASSUME [CallsNext]_allVars PROVE [CallNext]_callVars
    OBVIOUS
  <2>1. CASE UNCHANGED allVars
    BY <2>1 DEF allVars
  <2>2. CASE TalkGoesOn
    BY <2>2 DEF TalkGoesOn, CallNext
  <2>3. ASSUME NEW c \in Calls, FinishAndTell(c) PROVE CallNext
    BY <2>3 DEF FinishAndTell, CallNext
  <2>4. ASSUME NEW c \in Calls, Tell(c) PROVE UNCHANGED callVars
    BY <2>4 DEF Tell
  <2> QED
    BY <2>1, <2>2, <2>3, <2>4 DEF CallsNext
<1> QED
  BY <1>1, <1>2, PTL DEF CallsSpec, CallSpec

\* With the outbox too, nobody is in two active calls at once: the specification
\* that the run checks.
THEOREM OneActiveCallTold == CallsSpec => []OneCallEach
  BY CallsStayCalls, OneActiveCall, PTL

\* Seen from the outbox, the calls are users that commit events: the composition
\* keeps the safety part of AtLeastOnce.
THEOREM CallsKeepPromise == CallsSpec => Outbox!Safety
<1>1. CallsInit => Outbox!Init
  BY DEF CallsInit
<1>2. [CallsNext]_allVars => [Outbox!Next]_(Outbox!vars)
  <2> SUFFICES ASSUME [CallsNext]_allVars PROVE [Outbox!Next]_(Outbox!vars)
    OBVIOUS
  <2>1. CASE UNCHANGED allVars
    BY <2>1 DEF allVars, news, Outbox!vars
  <2>2. CASE TalkGoesOn
    BY <2>2 DEF TalkGoesOn, news, Outbox!vars
  <2>3. ASSUME NEW c \in Calls, FinishAndTell(c) \/ Tell(c) PROVE Outbox!Next
    BY <2>3 DEF FinishAndTell, Tell, Outbox!Next
  <2> QED
    BY <2>1, <2>2, <2>3 DEF CallsNext
<1> QED
  BY <1>1, <1>2, PTL DEF CallsSpec, Outbox!Safety
=============================================================================
