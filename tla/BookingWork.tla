---------------------------- MODULE BookingWork ----------------------------
(***************************************************************************)
(* The work of one booking between arrival and completion: proof photos,   *)
(* the customer's start and completion codes, the task timer, and the      *)
(* three ways to complete (code, customer, automatic approval), with       *)
(* no-shows, disputes, cancellations and extra-time requests against them. *)
(*                                                                         *)
(* Every handler is one transaction that holds the booking's row lock, so  *)
(* each is one action.  `required' tells bookings with work verification   *)
(* from those of the legacy flow.                                          *)
(***************************************************************************)
EXTENDS Integers

CONSTANTS
  MaxTime,         \* bound on the clock
  MaxCodes,        \* bound on the codes the customer generates
  CodeTtl,         \* lifetime of a code
  MaxAttempts,     \* wrong guesses a code survives
  ApprovalWindow   \* review window of a legacy completion

ASSUME BoundsAssumption ==
  /\ MaxTime \in Nat /\ MaxCodes \in Nat
  /\ CodeTtl \in Nat \ {0} /\ MaxAttempts \in Nat \ {0}
  /\ ApprovalWindow \in Nat

VARIABLES
  booking,   \* the Booking row: status, verification timestamps and codes
  session,   \* the TaskWorkSession row
  request,   \* the BookingExtensionRequest row
  dispute,   \* the booking's TaskComplaint
  tasks,     \* completedTasks that this booking added to the Tasker
  issued,    \* codes generated so far; the latest is number `issued'
  worked,    \* time during which the timer really ran
  now

vars == <<booking, session, request, dispute, tasks, issued, worked, now>>

Time == 0 .. MaxTime
Null == -1           \* a timestamp or code that is not set
Stamp == Time \union {Null}

NoCode == [code |-> Null, expires |-> 0, attempts |-> 0]
Code == [code : 0 .. MaxCodes \union {Null}, expires : Nat, attempts : 0 .. MaxAttempts]

NoSession == [status |-> "none", startedAt |-> Null, pausedAt |-> Null,
              stoppedAt |-> Null, paused |-> 0]

ActiveDispute == dispute = "open"

Init ==
  /\ \E required \in BOOLEAN :
       booking = [status |-> "arrived", required |-> required,
                  frontDoorAt |-> Null, startedAt |-> Null, proofAt |-> Null,
                  submittedAt |-> Null, dueAt |-> Null, completedAt |-> Null,
                  approvedBy |-> "none", held |-> FALSE,
                  startCode |-> NoCode, completionCode |-> NoCode]
  /\ session = NoSession
  /\ request \in {"none", "pending"}
  /\ dispute = "none"
  /\ tasks = 0
  /\ issued = 0
  /\ worked = 0
  /\ now = 0

Tick ==
  /\ now < MaxTime
  /\ now' = now + 1
  /\ worked' = IF session.status = "running" THEN worked + 1 ELSE worked
  /\ UNCHANGED <<booking, session, request, dispute, tasks, issued>>

-----------------------------------------------------------------------------
(* Codes. *)

\* A new code replaces the old one with its expiry and its attempts.
IssuedCode == [code |-> issued + 1, expires |-> now + CodeTtl, attempts |-> 0]

Issue ==
  /\ issued < MaxCodes
  /\ issued' = issued + 1

UsableExpired(code) ==   \* mutant
  code.code # Null /\ code.attempts < MaxAttempts

Usable(code) ==
  /\ code.code # Null
  /\ now < code.expires
  /\ code.attempts < MaxAttempts

\* What the Tasker may type: a code the customer generated, or none of them.
Guesses == 0 .. issued

WrongGuess(code, guess) == Usable(code) /\ guess # code.code
RightGuess(code, guess) == Usable(code) /\ guess = code.code

-----------------------------------------------------------------------------
(* Arrival and start. *)

AttachFrontDoor ==
  /\ booking.required /\ booking.status = "arrived"
  /\ booking.frontDoorAt = Null
  /\ booking' = [booking EXCEPT !.frontDoorAt = now]
  /\ UNCHANGED <<session, request, dispute, tasks, issued, worked, now>>

IssueStartCode ==
  /\ booking.required /\ booking.status = "arrived"
  /\ booking.frontDoorAt # Null
  /\ Issue
  /\ booking' = [booking EXCEPT !.startCode = IssuedCode]
  /\ UNCHANGED <<session, request, dispute, tasks, worked, now>>

NewSession == [NoSession EXCEPT !.status = "running", !.startedAt = now]

StartWorkGuard ==
  booking.required /\ booking.status = "arrived" /\ booking.frontDoorAt # Null

\* The wrong guess is committed before the request fails.
GuessStartCode ==
  /\ StartWorkGuard
  /\ \E guess \in Guesses : WrongGuess(booking.startCode, guess)
  /\ booking' = [booking EXCEPT !.startCode.attempts = @ + 1]
  /\ UNCHANGED <<session, request, dispute, tasks, issued, worked, now>>

StartWork ==
  /\ StartWorkGuard
  /\ \E guess \in Guesses : RightGuess(booking.startCode, guess)
  /\ session.status = "none"
  /\ session' = NewSession
  /\ booking' = [booking EXCEPT !.status = "in_progress", !.startedAt = now,
                                !.startCode = NoCode]
  /\ UNCHANGED <<request, dispute, tasks, issued, worked, now>>

StartTimer ==
  /\ ~booking.required /\ booking.status = "arrived"
  /\ session.status = "none"
  /\ session' = NewSession
  /\ booking' = [booking EXCEPT !.status = "in_progress", !.startedAt = now]
  /\ UNCHANGED <<request, dispute, tasks, issued, worked, now>>

-----------------------------------------------------------------------------
(* The timer, in whole seconds, the unit in which the code adds up pauses.  *)
(* Pausing and resuming look at the timer only, not at the                 *)
(* booking's status.                                                       *)

PauseTimer ==
  /\ session.status = "running"
  /\ session' = [session EXCEPT !.status = "paused", !.pausedAt = now]
  /\ UNCHANGED <<booking, request, dispute, tasks, issued, worked, now>>

\* What a pause that is still open has taken.
PausedDelta == IF session.status = "paused" THEN now - session.pausedAt ELSE 0

ResumeTimer ==
  /\ session.status = "paused"
  /\ session' = [session EXCEPT !.status = "running", !.pausedAt = Null,
                                !.paused = @ + PausedDelta]
  /\ UNCHANGED <<booking, request, dispute, tasks, issued, worked, now>>

StoppedDroppingPause ==   \* mutant: stopping a paused timer forgets the pause
  [session EXCEPT !.status = "stopped", !.pausedAt = Null, !.stoppedAt = now]

Stopped ==
  [session EXCEPT !.status = "stopped", !.pausedAt = Null, !.stoppedAt = now,
                  !.paused = @ + PausedDelta]

StopTimer ==
  /\ ~booking.required
  /\ session.status \in {"running", "paused"}
  /\ session' = Stopped
  /\ UNCHANGED <<booking, request, dispute, tasks, issued, worked, now>>

-----------------------------------------------------------------------------
(* Completion. *)

\* The proof photo stops the timer in the same transaction.
AttachCompletion ==
  /\ booking.required /\ booking.status = "in_progress"
  /\ booking.proofAt = Null
  /\ session.status \in {"running", "paused"}
  /\ session' = Stopped
  /\ booking' = [booking EXCEPT !.proofAt = now]
  /\ UNCHANGED <<request, dispute, tasks, issued, worked, now>>

IssueCompletionCode ==
  /\ booking.required /\ booking.status = "in_progress"
  /\ booking.proofAt # Null
  /\ session.stoppedAt # Null
  /\ Issue
  /\ booking' = [booking EXCEPT !.completionCode = IssuedCode]
  /\ UNCHANGED <<session, request, dispute, tasks, worked, now>>

CompletedBy(role, submitted) ==
  [booking EXCEPT !.status = "completed", !.completedAt = now,
                  !.approvedBy = role, !.submittedAt = submitted]

FinishWorkGuard ==
  /\ booking.required /\ booking.status = "in_progress"
  /\ booking.proofAt # Null
  /\ session.status = "stopped"

GuessCompletionCode ==
  /\ FinishWorkGuard
  /\ \E guess \in Guesses : WrongGuess(booking.completionCode, guess)
  /\ booking' = [booking EXCEPT !.completionCode.attempts = @ + 1]
  /\ UNCHANGED <<session, request, dispute, tasks, issued, worked, now>>

FinishWork ==
  /\ FinishWorkGuard
  /\ \E guess \in Guesses : RightGuess(booking.completionCode, guess)
  /\ booking' = [CompletedBy("customer_otp", booking.proofAt)
                   EXCEPT !.completionCode = NoCode]
  /\ tasks' = tasks + 1
  /\ UNCHANGED <<session, request, dispute, issued, worked, now>>

\* The legacy submission: the customer's review window begins.
Submit ==
  /\ ~booking.required /\ booking.status = "in_progress"
  /\ session.status = "stopped"
  /\ now + ApprovalWindow <= MaxTime
  /\ booking' = [booking EXCEPT !.status = "awaiting_customer_approval",
                   !.submittedAt = now, !.dueAt = now + ApprovalWindow]
  /\ UNCHANGED <<session, request, dispute, tasks, issued, worked, now>>

Approvable == booking.status \in {"in_progress", "awaiting_customer_approval"}

\* With a proof photo the customer may complete without a code.
CompleteByCustomer ==
  /\ Approvable
  /\ booking.required => booking.proofAt # Null
  /\ session.status = "stopped"
  /\ ~ActiveDispute
  /\ booking' = CompletedBy("customer",
                  IF booking.submittedAt # Null THEN booking.submittedAt
                  ELSE IF booking.proofAt # Null THEN booking.proofAt ELSE now)
  /\ tasks' = tasks + 1
  /\ UNCHANGED <<session, request, dispute, issued, worked, now>>

AutoApprovableDisputed ==   \* mutant: the sweep does not look for a dispute
  booking.status = "awaiting_customer_approval" /\ booking.dueAt <= now

AutoApprovableRequired ==   \* mutant: the flag read the wrong way round
  /\ booking.required
  /\ booking.status = "awaiting_customer_approval"
  /\ booking.dueAt <= now
  /\ ~ActiveDispute /\ ~booking.held

AutoApprovable ==
  /\ ~booking.required
  /\ booking.status = "awaiting_customer_approval"
  /\ booking.dueAt <= now
  /\ ~ActiveDispute /\ ~booking.held

AutoApproveOne ==
  /\ AutoApprovable
  /\ booking' = CompletedBy("system", booking.submittedAt)
  /\ tasks' = tasks + 1
  /\ UNCHANGED <<session, request, dispute, issued, worked, now>>

-----------------------------------------------------------------------------
(* What else happens to the booking meanwhile. *)

\* Before the work starts a customer's, Tasker's or administrator's
\* cancellation, and the Tasker's no-show dispute, end it.
Cancel ==
  /\ booking.status = "arrived"
  /\ booking' = [booking EXCEPT !.status = "cancelled"]
  /\ UNCHANGED <<session, request, dispute, tasks, issued, worked, now>>

CustomerNoShow ==
  /\ booking.status = "arrived" /\ ~ActiveDispute
  /\ booking' = [booking EXCEPT !.status = "cancelled", !.held = TRUE]
  /\ dispute' = "open"
  /\ UNCHANGED <<session, request, tasks, issued, worked, now>>

\* Any other dispute needs a completion, at least a submitted one.
FileComplaint ==
  /\ booking.status # "cancelled"
  /\ booking.completedAt # Null \/ booking.submittedAt # Null
  /\ ~ActiveDispute
  /\ dispute' = "open"
  /\ booking' = [booking EXCEPT !.held = TRUE]
  /\ UNCHANGED <<session, request, tasks, issued, worked, now>>

CloseDispute ==
  /\ dispute = "open"
  /\ dispute' = "closed"
  /\ UNCHANGED <<booking, session, request, tasks, issued, worked, now>>

ReleaseHold ==
  /\ booking.held /\ ~ActiveDispute
  /\ booking' = [booking EXCEPT !.held = FALSE]
  /\ UNCHANGED <<session, request, dispute, tasks, issued, worked, now>>

\* No new request can be made any more; one left from before still can be
\* answered, while the work goes on.
RespondExtensionRequest ==
  /\ request = "pending"
  /\ request' \in IF booking.status = "in_progress" THEN {"approved", "rejected"}
                                                    ELSE {"expired"}
  /\ UNCHANGED <<booking, session, dispute, tasks, issued, worked, now>>

CancelExtensionRequest ==
  /\ request = "pending"
  /\ request' = "cancelled"
  /\ UNCHANGED <<booking, session, dispute, tasks, issued, worked, now>>

-----------------------------------------------------------------------------

Next ==
  \/ Tick
  \/ AttachFrontDoor \/ IssueStartCode \/ GuessStartCode \/ StartWork
  \/ StartTimer \/ PauseTimer \/ ResumeTimer \/ StopTimer
  \/ AttachCompletion \/ IssueCompletionCode \/ GuessCompletionCode \/ FinishWork
  \/ Submit \/ CompleteByCustomer \/ AutoApproveOne
  \/ Cancel \/ CustomerNoShow \/ FileComplaint \/ CloseDispute \/ ReleaseHold
  \/ RespondExtensionRequest \/ CancelExtensionRequest

\* Time goes on and the completion sweep runs on its schedule.
Spec == Init /\ [][Next]_vars /\ WF_vars(Tick) /\ WF_vars(AutoApproveOne)

-----------------------------------------------------------------------------
(* Properties. *)

\* The rows have their types.
TypeOK ==
  /\ booking \in
       [status : {"arrived", "in_progress", "awaiting_customer_approval",
                  "completed", "cancelled"},
        required : BOOLEAN, frontDoorAt : Stamp, startedAt : Stamp, proofAt : Stamp,
        submittedAt : Stamp, dueAt : Stamp, completedAt : Stamp,
        approvedBy : {"none", "customer_otp", "customer", "system"},
        held : BOOLEAN, startCode : Code, completionCode : Code]
  /\ session \in [status : {"none", "running", "paused", "stopped"},
                  startedAt : Stamp, pausedAt : Stamp, stoppedAt : Stamp, paused : Time]
  /\ request \in {"none", "pending", "approved", "rejected", "expired", "cancelled"}
  /\ dispute \in {"none", "open", "closed"}
  /\ tasks \in Nat
  /\ issued \in 0 .. MaxCodes
  /\ worked \in Time
  /\ now \in Time

\* What the timer bills is the time it ran, whatever pauses came in between and
\* however the work was ended: elapsed time less accumulated pauses.
BillableTimeIsWorked ==
  /\ session.status = "running" => now - session.startedAt - session.paused = worked
  /\ session.status = "paused" =>
       session.pausedAt - session.startedAt - session.paused = worked
  /\ session.status = "stopped" =>
       session.stoppedAt - session.startedAt - session.paused = worked

\* The Tasker's counter gets one task from a completed booking and none from
\* any other, though three handlers complete bookings.
CountedOnce == tasks = IF booking.status = "completed" THEN 1 ELSE 0

\* A verified booking is completed on evidence in order: the front door before
\* the start, the proof photo at the moment the timer stopped, completion after.
EvidenceInOrder ==
  booking.required /\ booking.status = "completed" =>
    /\ Null < booking.frontDoorAt
    /\ booking.frontDoorAt <= booking.startedAt
    /\ booking.startedAt <= booking.proofAt
    /\ booking.proofAt = session.stoppedAt
    /\ booking.proofAt <= booking.completedAt

\* While a dispute is active nobody completes the booking.
DisputeBlocksCompletion ==
  [][ActiveDispute /\ booking.status # "completed" => booking'.status # "completed"]_vars

Dead(code) == code.attempts >= MaxAttempts \/ code.expires <= now

\* A code that has been guessed at too often or has expired is dead: only a new
\* code of the customer lets the Tasker start or finish by code.
DeadCodeStaysDead ==
  [][/\ booking.required /\ booking.status = "arrived" /\ Dead(booking.startCode) =>
          booking'.status # "in_progress"
     /\ booking.status = "in_progress" /\ Dead(booking.completionCode) =>
          booking'.approvedBy # "customer_otp"]_vars

\* A completion that was submitted for review ends in completion, unless a
\* dispute was filed about it.
ReviewEnds ==
  booking.status = "awaiting_customer_approval"
    ~> (booking.status = "completed" \/ dispute # "none")

\* docs/booking-completion-approval.md:10: if the customer does nothing, the
\* sweep completes the booking after the review window.
ProofEndsInCompletion ==
  booking.proofAt # Null ~> (booking.status = "completed" \/ dispute # "none")
=============================================================================
