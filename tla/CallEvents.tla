----------------------------- MODULE CallEvents -----------------------------
(***************************************************************************)
(* Calls together with the outbox that tells of them: the transaction that *)
(* finishes a call also writes its last call:state.  Of the outbox it has  *)
(* the promise, AtLeastOnce, which RealtimeOutbox implements.  The earlier *)
(* events of a call go the same way and are left out; the rows of the two  *)
(* parties are one event.                                                  *)
(***************************************************************************)
EXTENDS RealtimeCalls

VARIABLES committed, delivered, closed

Outbox == INSTANCE AtLeastOnce WITH Events <- Calls

news == <<committed, delivered, closed>>
allVars == <<callVars, news>>

CallsInit == CallInit /\ Outbox!Init

\* enqueueState, in the transaction of the update.
FinishAndTell(c) == Finishing(c) /\ Outbox!Commit(c)

TalkGoesOn == (Bookkeeping \/ \E c \in Calls : Going(c)) /\ UNCHANGED news

Tell(c) == (Outbox!Deliver(c) \/ Outbox!Close(c)) /\ UNCHANGED callVars

CallsNext == TalkGoesOn \/ \E c \in Calls : FinishAndTell(c) \/ Tell(c)

CallsSpec == CallsInit /\ [][CallsNext]_allVars

\* Time passes, the sweep runs every few seconds, the outbox keeps its promise.
FairCalls ==
  /\ CallsSpec
  /\ \A c \in Calls :
       /\ WF_allVars(TimeRunsOut(c) /\ UNCHANGED news)
       /\ WF_allVars((ExpireOneRingingCall(c) \/ ExpireAcceptedCall(c)) /\ Outbox!Commit(c))
       /\ WF_allVars(Outbox!Deliver(c) /\ UNCHANGED callVars)

-----------------------------------------------------------------------------

\* Every call that rings finishes and its parties are told: also if the Tasker
\* who is in it has lost the booking and may not hang up any more, and whatever
\* decisions are overtaken or lost.
EveryCallEnds == \A c \in Calls : Active(c) ~> (Over(c) /\ c \in delivered)
=============================================================================
