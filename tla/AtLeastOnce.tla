---------------------------- MODULE AtLeastOnce ----------------------------
(***************************************************************************)
(* What a transactional outbox promises: a committed event is delivered at *)
(* least once, and is closed (never looked at again) only after that.      *)
(***************************************************************************)
CONSTANT Events

VARIABLES committed, delivered, closed
vars == <<committed, delivered, closed>>

Init == committed = {} /\ delivered = {} /\ closed = {}

Commit(e) ==
  /\ e \notin committed
  /\ committed' = committed \union {e}
  /\ UNCHANGED <<delivered, closed>>

\* A delivery may be repeated: that step changes nothing here.
Deliver(e) ==
  /\ e \in committed \ delivered
  /\ delivered' = delivered \union {e}
  /\ UNCHANGED <<committed, closed>>

Close(e) ==
  /\ e \in delivered
  /\ closed' = closed \union {e}
  /\ UNCHANGED <<committed, delivered>>

Next == \E e \in Events : Commit(e) \/ Deliver(e) \/ Close(e)

Safety == Init /\ [][Next]_vars
Spec == Safety /\ \A e \in Events : WF_vars(Deliver(e))
=============================================================================
