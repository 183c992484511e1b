---------------------------- MODULE RealtimeCalls ----------------------------
(***************************************************************************)
(* Voice and video calls between the customer and the Tasker of a booking: *)
(* ringing, answered, finished.  Handlers read the call and its booking    *)
(* without a lock and then update the call if its status is still what     *)
(* they need, so only what they decided in between is kept here: a call    *)
(* that is asked for, an answer, a withdrawal or a hang-up under way.      *)
(* Rejecting, cancelling and ending decide on nothing but the status that  *)
(* the update tests again and are one action each.                         *)
(*                                                                         *)
(* Media goes from peer to peer; signalling is relayed and changes nothing *)
(* unless the booking has moved on.                                        *)
(***************************************************************************)
EXTENDS Naturals, FiniteSets

CONSTANTS
  Calls,       \* ConversationCall rows: one for each clientRequestId
  Bookings,
  Customers,
  Taskers,
  None

VARIABLES
  booking,   \* of a booking: its parties, and whether its status allows calls
  call,      \* the rows; due: expiresAt or, once answered, the longest duration has passed
  asked,     \* initiations that have read the booking
  acting     \* of a call: updates that its handlers have decided on

callVars == <<booking, call, asked, acting>>

Users == Customers \union Taskers
ACTIVE_CALL_STATUSES == {"ringing", "accepted"}
CallStatuses == ACTIVE_CALL_STATUSES \union {"rejected", "cancelled", "missed", "ended"}

ASSUME NoneAssumption == None \notin CallStatuses

NoCall == [status |-> None, booking |-> None, initiator |-> None, recipient |-> None,
           answered |-> FALSE, due |-> FALSE]

CallInit ==
  /\ booking \in [Bookings -> [customer : Customers, tasker : Taskers, callable : {TRUE}]]
  /\ \A b \in Bookings : booking[b].customer # booking[b].tasker
  /\ call = [c \in Calls |-> NoCall]
  /\ asked = {}
  /\ acting = [c \in Calls |-> {}]

Active(c) == call[c].status \in ACTIVE_CALL_STATUSES
Over(c) == call[c].status \notin ACTIVE_CALL_STATUSES \union {None}

Parties(b) == {booking[b].customer, booking[b].tasker}

\* assertCallIdentityRole: the booking's parties now, not those of the call.
MayAct(u, c) == Active(c) /\ u \in Parties(call[c].booking)

-----------------------------------------------------------------------------
(* Initiation. *)

\* The first reads.  A request that is repeated has the same key, caller and
\* booking; once its row exists it is answered with that row.
AskForCall(c, b, u) ==
  /\ call[c].status = None
  /\ booking[b].callable /\ u \in Parties(b)
  /\ \A a \in asked : a.call = c => a.booking = b /\ a.initiator = u
  /\ \E r \in Parties(b) \ {u} :
       asked' = asked \union {[call |-> c, booking |-> b, initiator |-> u, recipient |-> r]}
  /\ UNCHANGED <<booking, call, acting>>

In(u, c) == u \in {call[c].initiator, call[c].recipient}

BusyAsCallee(u) ==   \* mutant: who is calling is not busy
  \E c \in Calls : Active(c) /\ call[c].recipient = u

Busy(u) == \E c \in Calls : Active(c) /\ In(u, c)

\* The transaction, with an advisory lock on both users; an index allows one
\* active call of a booking.
CreateCall(a) ==
  /\ a \in asked
  /\ ~Busy(a.initiator) /\ ~Busy(a.recipient)
  /\ \A c \in Calls : Active(c) => call[c].booking # a.booking
  /\ call' = [call EXCEPT ![a.call] =
       [status |-> "ringing", booking |-> a.booking, initiator |-> a.initiator,
        recipient |-> a.recipient, answered |-> FALSE, due |-> FALSE]]
  /\ asked' = {x \in asked : x.call # a.call}
  /\ UNCHANGED <<booking, acting>>

\* Somebody is busy, or the process stops.
CallRefused(a) ==
  /\ a \in asked
  /\ asked' = asked \ {a}
  /\ UNCHANGED <<booking, call, acting>>

-----------------------------------------------------------------------------
(* Ways for a call to finish, in one conditional update each.  Updates under *)
(* way then find nothing to do.                                              *)

Finish(c, status) ==
  /\ call' = [call EXCEPT ![c].status = status, ![c].due = FALSE]
  /\ acting' = [acting EXCEPT ![c] = {}]
  /\ UNCHANGED <<booking, asked>>

Reject(c) ==
  /\ call[c].status = "ringing" /\ MayAct(call[c].recipient, c)
  /\ Finish(c, "rejected")

Cancel(c) ==
  /\ call[c].status = "ringing" /\ MayAct(call[c].initiator, c)
  /\ Finish(c, "cancelled")

End(c) ==
  /\ call[c].status = "accepted"
  /\ \E u \in {call[c].initiator, call[c].recipient} : MayAct(u, c)
  /\ Finish(c, "ended")

\* expireOneRingingCall, for the sweep and for an answer that came too late.
ExpireOneRingingCall(c) ==
  /\ call[c].status = "ringing" /\ call[c].due
  /\ Finish(c, "missed")

ExpireNoAcceptedCall(c) ==   \* mutant: the sweep is about invitations only
  /\ FALSE
  /\ Finish(c, "ended")

ExpireAcceptedCall(c) ==
  /\ call[c].status = "accepted" /\ call[c].due
  /\ Finish(c, "ended")

\* finishSystemCall does not ask which of the two active statuses it ends.
FinishSystemCall(c) ==
  \/ "withdraw" \in acting[c] /\ Finish(c, "cancelled")
  \/ "hangup" \in acting[c] /\ Finish(c, "ended")

Finishing(c) ==
  \/ Reject(c) \/ Cancel(c) \/ End(c)
  \/ ExpireOneRingingCall(c) \/ ExpireAcceptedCall(c) \/ FinishSystemCall(c)

-----------------------------------------------------------------------------
(* Decisions on what was read. *)

Decide(c, update) ==
  /\ acting' = [acting EXCEPT ![c] = @ \union {update}]
  /\ UNCHANGED <<booking, call, asked>>

Accept(c) ==
  LET callable == booking[call[c].booking].callable IN
  /\ call[c].status = "ringing" /\ MayAct(call[c].recipient, c)
  /\ \/ ~callable /\ Decide(c, "withdraw")
     \/ callable /\ ~call[c].due /\ Decide(c, "answer")

\* Signalling of a call whose booking allows no calls any more.
SignalTarget(c) ==
  /\ call[c].status = "accepted" /\ ~booking[call[c].booking].callable
  /\ \E u \in {call[c].initiator, call[c].recipient} : MayAct(u, c)
  /\ Decide(c, "hangup")

Answer(c) ==
  /\ "answer" \in acting[c] /\ call[c].status = "ringing"
  /\ call' = [call EXCEPT ![c].status = "accepted", ![c].answered = TRUE, ![c].due = FALSE]
  /\ acting' = [acting EXCEPT ![c] = @ \ {"answer"}]
  /\ UNCHANGED <<booking, asked>>

\* The process stops, or an answer finds the call answered.
ActionLost(c) ==
  /\ \E update \in acting[c] : acting' = [acting EXCEPT ![c] = @ \ {update}]
  /\ UNCHANGED <<booking, call, asked>>

-----------------------------------------------------------------------------
(* Time and bookings. *)

TimeRunsOut(c) ==
  /\ Active(c) /\ ~call[c].due
  /\ call' = [call EXCEPT ![c].due = TRUE]
  /\ UNCHANGED <<booking, asked, acting>>

\* The booking's status moves into or out of those that allow calls.
StatusChanges(b) ==
  /\ booking' = [booking EXCEPT ![b].callable = ~@]
  /\ UNCHANGED <<call, asked, acting>>

\* reassign leaves the calls of the former Tasker as they are.
Reassign(b, t) ==
  /\ t \notin Parties(b)
  /\ booking' = [booking EXCEPT ![b].tasker = t, ![b].callable = FALSE]
  /\ UNCHANGED <<call, asked, acting>>

Going(c) ==
  \/ \E b \in Bookings, u \in Users : AskForCall(c, b, u)
  \/ \E a \in asked : a.call = c /\ (CreateCall(a) \/ CallRefused(a))
  \/ Accept(c) \/ SignalTarget(c) \/ Answer(c) \/ ActionLost(c) \/ TimeRunsOut(c)

Bookkeeping == \E b \in Bookings : StatusChanges(b) \/ \E t \in Taskers : Reassign(b, t)

CallNext == Bookkeeping \/ \E c \in Calls : Going(c) \/ Finishing(c)

CallSpec == CallInit /\ [][CallNext]_callVars

-----------------------------------------------------------------------------

CallTypeOK ==
  /\ booking \in [Bookings -> [customer : Customers, tasker : Taskers, callable : BOOLEAN]]
  /\ call \in [Calls ->
       [status : CallStatuses \union {None},
        booking : Bookings \union {None}, initiator : Users \union {None},
        recipient : Users \union {None}, answered : BOOLEAN, due : BOOLEAN]]
  /\ asked \subseteq [call : Calls, booking : Bookings, initiator : Users, recipient : Users]
  /\ acting \in [Calls -> SUBSET {"answer", "withdraw", "hangup"}]

\* docs/chat-attachments-calls.md:80: nobody is in two active calls at once,
\* whoever calls whom at the same moment, on whichever booking, and whatever is
\* answered or reassigned meanwhile.
OneCallEach ==
  \A c, d \in Calls, u \in Users : Active(c) /\ Active(d) /\ In(u, c) /\ In(u, d) => c = d

\* realtime-calls.service.ts:581: only a ringing call is cancelled by the
\* system.  False of the code: one device answers while another, which has read
\* that the booking moved on, withdraws the call.
CancelledUnanswered == \A c \in Calls : call[c].status = "cancelled" => ~call[c].answered
=============================================================================
