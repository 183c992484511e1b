--------------------------- MODULE RealtimeOutbox ---------------------------
(***************************************************************************)
(* The transactional outbox of realtime events.  A handler writes its      *)
(* event in its own transaction; every API process runs a dispatcher that  *)
(* claims a batch of rows in one statement (FOR UPDATE SKIP LOCKED), hands *)
(* each to Socket.IO and marks it published, one statement per row.  The   *)
(* cleanup deletes old published rows.                                     *)
(*                                                                         *)
(* A process may stop anywhere, any statement may fail, and a dispatcher   *)
(* may be slower than the lease of its claim.  An event's number is the    *)
(* order of createdAt, which need not be the order of commits.             *)
(***************************************************************************)
EXTENDS Naturals, FiniteSets

CONSTANTS
  MaxEvents,    \* bound on the events written
  Dispatchers,
  BatchSize

ASSUME BoundsAssumption == MaxEvents \in Nat /\ BatchSize \in Nat \ {0}

VARIABLES
  row,       \* the RealtimeOutboxEvent rows
  disp,      \* a flush: what is left of its batch, the event in hand, where it is
  emitted,   \* how often an event was handed to Socket.IO: 0, 1, 2 is "more"
  troubled   \* events whose lease expired or whose mark failed

vars == <<row, disp, emitted, troubled>>

Events == 1 .. MaxEvents
NoEvent == 0

\* lock is lockedAt: free (null), held, or stale once outboxLockMs have passed.
\* lockToken is written and never read.
NoRow == [state |-> "none", lock |-> "free", old |-> FALSE]
Idle == [pc |-> "idle", todo |-> {}, event |-> NoEvent]

Init ==
  /\ row = [e \in Events |-> NoRow]
  /\ disp = [d \in Dispatchers |-> Idle]
  /\ emitted = [e \in Events |-> 0]
  /\ troubled = {}

Enqueue(e) ==
  /\ row[e].state = "none"
  /\ row' = [row EXCEPT ![e].state = "pending"]
  /\ UNCHANGED <<disp, emitted, troubled>>

-----------------------------------------------------------------------------
(* The claim. *)

ClaimableIgnoringLock == {e \in Events : row[e].state = "pending"}   \* mutant

Claimable ==
  {e \in Events : row[e].state = "pending" /\ row[e].lock \in {"free", "stale"}}

\* The BatchSize oldest of some rows.
Oldest(rows) ==
  {e \in rows : Cardinality({f \in rows : f < e}) < BatchSize}

\* Rows that another dispatcher is just updating are skipped.
BeingUpdated(d) ==
  {disp[x].event : x \in {y \in Dispatchers \ {d} : disp[y].pc \in {"mark", "fail"}}}

Claim(d) ==
  /\ disp[d].pc = "idle"
  /\ \E skipped \in SUBSET BeingUpdated(d) :
       LET batch == Oldest(Claimable \ skipped) IN
       /\ batch # {}
       /\ row' = [e \in Events |-> IF e \in batch THEN [row[e] EXCEPT !.lock = "held"]
                                                  ELSE row[e]]
       /\ disp' = [disp EXCEPT ![d] = [pc |-> "emit", todo |-> batch, event |-> NoEvent]]
  /\ UNCHANGED <<emitted, troubled>>

-----------------------------------------------------------------------------
(* Working off the batch; RETURNING gives its rows in any order. *)

\* The next row, or the end of the flush.
Proceed(d) ==
  disp' = [disp EXCEPT ![d] = IF disp[d].todo = {} THEN Idle
                              ELSE [@ EXCEPT !.pc = "emit", !.event = NoEvent]]

Once(n) == IF n = 0 THEN 1 ELSE 2

Take(d, e, pc) ==
  /\ disp[d].pc = "emit" /\ e \in disp[d].todo
  /\ disp' = [disp EXCEPT ![d] = [pc |-> pc, todo |-> @.todo \ {e}, event |-> e]]

Emit(d, e) ==
  /\ Take(d, e, "mark")
  /\ emitted' = [emitted EXCEPT ![e] = Once(@)]
  /\ UNCHANGED <<row, troubled>>

EmitThrows(d, e) ==
  /\ Take(d, e, "fail")
  /\ UNCHANGED <<row, emitted, troubled>>

Published(r) == [r EXCEPT !.state = "published", !.lock = "free", !.old = FALSE]

\* The update is by id alone: the claim may have expired, even be another's.
MarkPublished(d) ==
  LET e == disp[d].event IN
  /\ disp[d].pc = "mark"
  /\ row[e].state # "gone"
  /\ row' = [row EXCEPT ![e] = Published(@)]
  /\ Proceed(d)
  /\ UNCHANGED <<emitted, troubled>>

MarkFails(d) ==
  /\ disp[d].pc = "mark"
  /\ disp' = [disp EXCEPT ![d].pc = "fail"]
  /\ troubled' = troubled \union {disp[d].event}
  /\ UNCHANGED <<row, emitted>>

ReleasedAsPublished(r) == [r EXCEPT !.state = "published", !.lock = "free"]   \* mutant

\* An event that failed is free again at once, for any dispatcher.
Released(r) == [r EXCEPT !.lock = "free"]

RecordError(d) ==
  LET e == disp[d].event IN
  /\ disp[d].pc = "fail"
  /\ row[e].state # "gone"
  /\ row' = [row EXCEPT ![e] = Released(@)]
  /\ Proceed(d)
  /\ UNCHANGED <<emitted, troubled>>

\* The process stops, or the error could not be recorded: the rest of the batch
\* stays locked until its lease expires.
FlushAborted(d) ==
  /\ disp[d].pc # "idle"
  /\ disp' = [disp EXCEPT ![d] = Idle]
  /\ UNCHANGED <<row, emitted, troubled>>

LeaseExpires(e) ==
  /\ row[e].lock = "held"
  /\ row' = [row EXCEPT ![e].lock = "stale"]
  /\ troubled' = troubled \union {e}
  /\ UNCHANGED <<disp, emitted>>

-----------------------------------------------------------------------------
(* The cleanup. *)

RetentionPasses(e) ==
  /\ row[e].state = "published" /\ ~row[e].old
  /\ row' = [row EXCEPT ![e].old = TRUE]
  /\ UNCHANGED <<disp, emitted, troubled>>

CleanupPublished(e) ==
  /\ row[e].state = "published" /\ row[e].old
  /\ row' = [row EXCEPT ![e].state = "gone"]
  /\ UNCHANGED <<disp, emitted, troubled>>

-----------------------------------------------------------------------------

Work(d) ==
  \/ MarkPublished(d) \/ MarkFails(d) \/ RecordError(d) \/ FlushAborted(d)
  \/ \E e \in Events : Emit(d, e) \/ EmitThrows(d, e)

Next ==
  \/ \E e \in Events :
       Enqueue(e) \/ LeaseExpires(e) \/ RetentionPasses(e) \/ CleanupPublished(e)
  \/ \E d \in Dispatchers : Claim(d) \/ Work(d)

Spec == Init /\ [][Next]_vars

\* Dispatchers poll on a timer and never hang, leases expire, and no event is
\* unlucky for ever: one that is claimed again and again is handed over and
\* marked in the end.
FairSpec ==
  /\ Spec
  /\ \A d \in Dispatchers : WF_vars(Claim(d)) /\ WF_vars(Work(d))
  /\ \A e \in Events :
       /\ WF_vars(LeaseExpires(e))
       /\ SF_vars(\E d \in Dispatchers : Emit(d, e))
       /\ SF_vars(\E d \in Dispatchers : disp[d].event = e /\ MarkPublished(d))

-----------------------------------------------------------------------------
(* Properties. *)

\* Rows and flushes have their types; only a row still to be published is locked.
TypeOK ==
  /\ row \in [Events -> [state : {"none", "pending", "published", "gone"},
                         lock : {"free", "held", "stale"}, old : BOOLEAN]]
  /\ \A e \in Events : row[e].lock # "free" => row[e].state = "pending"
  /\ disp \in [Dispatchers -> [pc : {"idle", "emit", "mark", "fail"},
                               todo : SUBSET Events, event : Events \union {NoEvent}]]
  /\ \A d \in Dispatchers : disp[d].pc \in {"mark", "fail"} => disp[d].event \in Events
  /\ emitted \in [Events -> 0 .. 2]
  /\ troubled \subseteq Events

\* As long as no lease expired on it and no mark failed, an event reaches Socket.IO
\* at most once, however many dispatchers poll, stop and come back.
OnceUnlessTroubled == \A e \in Events : emitted[e] = 2 => e \in troubled

\* docs/realtime.md:17: delivery is at least once.  The outbox implements
\* AtLeastOnce, liveness included: a committed event is handed over, and only
\* then is its row marked or deleted.
Promise == INSTANCE AtLeastOnce WITH
  committed <- {e \in Events : row[e].state # "none"},
  delivered <- {e \in Events : emitted[e] > 0},
  closed <- {e \in Events : row[e].state \in {"published", "gone"}}

DeliveredAtLeastOnce == Promise!Spec
=============================================================================
