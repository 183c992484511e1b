------------------------- MODULE BookingWorkProofs -------------------------
(***************************************************************************)
(* Proofs about BookingWork, for every bound on time, codes and attempts   *)
(* and every review window.                                                *)
(*                                                                         *)
(* The invariant has four parts: the types, the timer (Timer), how far the *)
(* booking has come (Course), and the evidence collected on the way        *)
(* (Evidence).                                                             *)
(***************************************************************************)
EXTENDS BookingWork, TLAPS

BookingRow ==
  [status : {"arrived", "in_progress", "awaiting_customer_approval",
             "completed", "cancelled"},
   required : BOOLEAN, frontDoorAt : Stamp, startedAt : Stamp, proofAt : Stamp,
   submittedAt : Stamp, dueAt : Stamp, completedAt : Stamp,
   approvedBy : {"none", "customer_otp", "customer", "system"},
   held : BOOLEAN, startCode : Code, completionCode : Code]

SessionRow == [status : {"none", "running", "paused", "stopped"},
               startedAt : Stamp, pausedAt : Stamp, stoppedAt : Stamp, paused : Time]

Clocks == now \in Time /\ worked \in Time /\ issued \in 0 .. MaxCodes

Answers ==
  /\ request \in {"none", "pending", "approved", "rejected", "expired", "cancelled"}
  /\ dispute \in {"none", "open", "closed"}
  /\ tasks \in Nat

\* What the timer's fields mean in each of its states.
Timer(s) ==
  /\ s.status = "none" => worked = 0
  /\ s.status # "none" => s.startedAt \in 0 .. now
  /\ s.status = "running" => now - s.startedAt - s.paused = worked
  /\ s.status = "paused" => /\ s.pausedAt \in 0 .. now
                            /\ s.pausedAt - s.startedAt - s.paused = worked
  /\ s.status = "stopped" => /\ s.stoppedAt \in 0 .. now
                             /\ s.stoppedAt - s.startedAt - s.paused = worked

Timed == Clocks /\ session \in SessionRow /\ Timer(session)

\* A booking that is still worked on was not submitted, approved or disputed.
Course ==
  /\ tasks = IF booking.status = "completed" THEN 1 ELSE 0
  /\ booking.status # "completed" => booking.approvedBy = "none"
  /\ booking.submittedAt # Null \/ booking.completedAt # Null \/ ActiveDispute =>
       booking.status \notin {"arrived", "in_progress"}

\* What a booking of the verified flow has gathered when it reaches a status.
Evidence ==
  /\ booking.frontDoorAt <= now
  /\ booking.required => booking.status # "awaiting_customer_approval"
  /\ booking.required /\ booking.status \in {"in_progress", "completed"} =>
       Null < booking.frontDoorAt /\ booking.frontDoorAt <= booking.startedAt
         /\ booking.startedAt <= now
  /\ booking.proofAt # Null =>
       /\ booking.required /\ booking.status \in {"in_progress", "completed"}
       /\ booking.startedAt <= booking.proofAt /\ booking.proofAt <= now
       /\ session.status = "stopped" /\ session.stoppedAt = booking.proofAt
  /\ booking.required /\ booking.status = "completed" =>
       booking.proofAt # Null /\ booking.proofAt <= booking.completedAt

IInv == Timed /\ Answers /\ booking \in BookingRow /\ Course /\ Evidence

LEMMA RowsAreTyped == IInv => TypeOK
  BY DEF IInv, Timed, Answers, Clocks, BookingRow, SessionRow, TypeOK

LEMMA InitInv == Init => IInv
<1> SUFFICES ASSUME Init PROVE IInv
  OBVIOUS
<1>1. NoCode \in Code
  BY BoundsAssumption DEF NoCode, Code
<1>2. Timed
  BY BoundsAssumption DEF Init, Timed, Clocks, Timer, SessionRow, NoSession, Stamp, Time
<1>3. Answers
  BY DEF Init, Answers
<1>4. booking \in BookingRow
  BY <1>1 DEF Init, BookingRow, Stamp
<1>5. Course
  BY DEF Init, Course, ActiveDispute, Null
<1>6. Evidence
  BY DEF Init, Evidence, Null
<1> QED
  BY <1>2, <1>3, <1>4, <1>5, <1>6 DEF IInv

-----------------------------------------------------------------------------
(* The timer. *)

LEMMA TimedTick == Timed /\ Tick => Timed'
  BY BoundsAssumption DEF Tick, Timed, Clocks, SessionRow, Timer, Stamp, Time, Null

LEMMA TimedKept ==
  ASSUME Timed, UNCHANGED <<session, worked, now>>, issued' \in 0 .. MaxCodes PROVE Timed'
  BY DEF Timed, Clocks, Timer

LEMMA TimedNew ==
  ASSUME Timed, NEW s, s \in SessionRow, Timer(s), session' = s,
         UNCHANGED <<issued, worked, now>>
  PROVE Timed'
  BY DEF Timed, Clocks, Timer

LEMMA TimedResume == Timed /\ ResumeTimer => Timed'
<1> SUFFICES ASSUME Timed, ResumeTimer PROVE Timed'
  OBVIOUS
<1> USE DEF Timed, Clocks, Time
<1>1. /\ now \in Nat /\ now <= MaxTime /\ worked \in Nat /\ session.startedAt \in 0 .. now
      /\ session.pausedAt \in 0 .. now /\ session.paused \in Nat
      /\ session.pausedAt - session.startedAt - session.paused = worked
      /\ session.status = "paused"
  BY BoundsAssumption DEF ResumeTimer, SessionRow, Timer
<1>2. session.paused + (now - session.pausedAt) \in Time
  BY <1>1, BoundsAssumption
<1>3. session' = [session EXCEPT !.status = "running", !.pausedAt = Null,
                                 !.paused = session.paused + (now - session.pausedAt)]
  BY <1>1 DEF ResumeTimer, PausedDelta
<1>4. /\ session' \in SessionRow
      /\ session'.status = "running" /\ session'.startedAt = session.startedAt
      /\ session'.paused = session.paused + (now - session.pausedAt)
  BY <1>2, <1>3 DEF SessionRow, Stamp, Null
<1>5. UNCHANGED <<now, worked, issued>>
  BY DEF ResumeTimer
<1> QED
  BY <1>1, <1>4, <1>5 DEF Timer

LEMMA TimedPause == Timed /\ PauseTimer => Timed'
<1> SUFFICES ASSUME Timed, PauseTimer PROVE Timed'
  OBVIOUS
<1> USE DEF Timed, Clocks, Time
<1>1. /\ now \in Nat /\ now <= MaxTime /\ worked \in Nat /\ session.startedAt \in 0 .. now
      /\ session.paused \in Nat
      /\ now - session.startedAt - session.paused = worked
  BY BoundsAssumption DEF PauseTimer, SessionRow, Timer
<1>4. /\ session' \in SessionRow
      /\ session'.status = "paused" /\ session'.startedAt = session.startedAt
      /\ session'.paused = session.paused /\ session'.pausedAt = now
  BY DEF PauseTimer, SessionRow, Stamp
<1>5. UNCHANGED <<now, worked, issued>>
  BY DEF PauseTimer
<1> QED
  BY <1>1, <1>4, <1>5 DEF Timer

\* Stopping a timer closes an open pause.
LEMMA StoppedIsTimed ==
  Timed /\ session.status \in {"running", "paused"} =>
    Stopped \in SessionRow /\ Timer(Stopped)
<1> SUFFICES ASSUME Timed, session.status \in {"running", "paused"}
             PROVE Stopped \in SessionRow /\ Timer(Stopped)
  OBVIOUS
<1> USE DEF Timed, Clocks, Time
<1> DEFINE open == PausedDelta
<1>1. /\ now \in Nat /\ now <= MaxTime /\ worked \in Nat /\ session.startedAt \in 0 .. now
      /\ session.paused \in Nat /\ open \in Nat
      /\ now - session.startedAt - (session.paused + open) = worked
  <2>1. CASE session.status = "running"
    BY <2>1 DEF SessionRow, Timer, PausedDelta
  <2>2. CASE session.status = "paused"
    BY <2>2 DEF SessionRow, Timer, PausedDelta
  <2> QED
    BY <2>1, <2>2
<1>2. session.paused + open \in Time
  BY <1>1, BoundsAssumption
<1>3. Stopped = [session EXCEPT !.status = "stopped", !.pausedAt = Null, !.stoppedAt = now,
                                !.paused = session.paused + open]
  BY DEF Stopped
<1> HIDE DEF open
<1>4. /\ Stopped \in SessionRow
      /\ Stopped.status = "stopped" /\ Stopped.startedAt = session.startedAt
      /\ Stopped.stoppedAt = now /\ Stopped.paused = session.paused + open
  BY <1>2, <1>3 DEF SessionRow, Stamp, Null
<1> QED
  BY <1>1, <1>4 DEF Timer

LEMMA NewIsTimed ==
  Timed /\ session.status = "none" => NewSession \in SessionRow /\ Timer(NewSession)
<1> SUFFICES ASSUME Timed, session.status = "none"
             PROVE NewSession \in SessionRow /\ Timer(NewSession)
  OBVIOUS
<1>1. NoSession \in SessionRow /\ NoSession.paused = 0
  BY BoundsAssumption DEF NoSession, SessionRow, Stamp, Time
<1>2. /\ NewSession \in SessionRow /\ NewSession.status = "running"
      /\ NewSession.startedAt = now /\ NewSession.paused = 0
  BY <1>1 DEF NewSession, SessionRow, Stamp, Timed, Clocks
<1> QED
  BY <1>2 DEF Timed, Timer, Clocks, Time

-----------------------------------------------------------------------------
(* One lemma per action. *)

LEMMA TickKeeps == IInv /\ Tick => IInv'
<1> SUFFICES ASSUME IInv, Tick PROVE IInv'
  OBVIOUS
<1> USE DEF IInv
<1>1. Timed'
  BY TimedTick
<1>2. Answers'
  BY DEF Tick, Answers
<1>3. booking' \in BookingRow
  BY BoundsAssumption DEF Tick, Timed, Clocks, BookingRow, Code, Stamp, Time, Null
<1>4. Course'
  BY DEF Tick, Course, BookingRow, ActiveDispute, Null
<1>5. Evidence'
  BY DEF Tick, Evidence, Course, BookingRow, SessionRow, Timed, Clocks, Stamp, Time, Null
<1> QED
  BY <1>1, <1>2, <1>3, <1>4, <1>5

LEMMA AttachFrontDoorKeeps == IInv /\ AttachFrontDoor => IInv'
<1> SUFFICES ASSUME IInv, AttachFrontDoor PROVE IInv'
  OBVIOUS
<1> USE DEF IInv
<1>1. Timed'
  BY TimedKept DEF AttachFrontDoor, Timed, Clocks
<1>2. Answers'
  BY DEF AttachFrontDoor, Answers
<1>3. booking' \in BookingRow
  BY BoundsAssumption DEF AttachFrontDoor, Timed, Clocks, BookingRow, Code, Stamp, Time,
       Null
<1>4. Course'
  BY DEF AttachFrontDoor, Course, BookingRow, ActiveDispute, Null
<1>5. Evidence'
  BY DEF AttachFrontDoor, Evidence, Course, BookingRow, SessionRow, Timed, Clocks, Stamp,
       Time, Null
<1> QED
  BY <1>1, <1>2, <1>3, <1>4, <1>5

LEMMA IssueStartCodeKeeps == IInv /\ IssueStartCode => IInv'
<1> SUFFICES ASSUME IInv, IssueStartCode PROVE IInv'
  OBVIOUS
<1> USE DEF IInv
<1>1. Timed'
  BY BoundsAssumption, TimedKept DEF IssueStartCode, Issue, Timed, Clocks
<1>2. Answers'
  BY DEF IssueStartCode, Answers
<1>3. booking' \in BookingRow
  BY BoundsAssumption DEF IssueStartCode, Issue, IssuedCode, Timed, Clocks, BookingRow,
       Code, Stamp, Time, Null
<1>4. Course'
  BY DEF IssueStartCode, Issue, IssuedCode, Course, BookingRow, ActiveDispute, Null
<1>5. Evidence'
  BY DEF IssueStartCode, Issue, IssuedCode, Evidence, Course, BookingRow, SessionRow,
       Timed, Clocks, Stamp, Time, Null
<1> QED
  BY <1>1, <1>2, <1>3, <1>4, <1>5

LEMMA GuessStartCodeKeeps == IInv /\ GuessStartCode => IInv'
<1> SUFFICES ASSUME IInv, GuessStartCode PROVE IInv'
  OBVIOUS
<1> USE DEF IInv
<1>1. Timed'
  BY TimedKept DEF GuessStartCode, Timed, Clocks
<1>2. Answers'
  BY DEF GuessStartCode, Answers
<1>3. booking' \in BookingRow
  <2>1. [booking.startCode EXCEPT !.attempts = @ + 1] \in Code
    BY BoundsAssumption DEF GuessStartCode, StartWorkGuard, WrongGuess, Usable,
       BookingRow, Code
  <2> QED
    BY <2>1 DEF GuessStartCode, BookingRow
<1>4. Course'
  BY DEF GuessStartCode, StartWorkGuard, WrongGuess, Usable, Course, BookingRow,
       ActiveDispute, Null
<1>5. Evidence'
  BY DEF GuessStartCode, StartWorkGuard, WrongGuess, Usable, Evidence, Course,
       BookingRow, SessionRow, Timed, Clocks, Stamp, Time, Null
<1> QED
  BY <1>1, <1>2, <1>3, <1>4, <1>5

LEMMA StartWorkKeeps == IInv /\ StartWork => IInv'
<1> SUFFICES ASSUME IInv, StartWork PROVE IInv'
  OBVIOUS
<1> USE DEF IInv
<1>1. Timed'
  BY NewIsTimed, TimedNew DEF StartWork
<1>2. Answers'
  BY DEF StartWork, Answers
<1>3. booking' \in BookingRow
  <2>1. now \in Stamp /\ NoCode \in Code
    BY BoundsAssumption DEF Timed, Clocks, Stamp, NoCode, Code
  <2> QED
    BY <2>1 DEF StartWork, BookingRow
<1>4. Course'
  BY DEF StartWork, StartWorkGuard, NewSession, NoCode, Course, BookingRow,
       ActiveDispute, Null
<1>5. Evidence'
  BY DEF StartWork, StartWorkGuard, NewSession, NoCode, Evidence, Course, BookingRow,
       SessionRow, Timed, Clocks, Stamp, Time, Null
<1> QED
  BY <1>1, <1>2, <1>3, <1>4, <1>5

LEMMA StartTimerKeeps == IInv /\ StartTimer => IInv'
<1> SUFFICES ASSUME IInv, StartTimer PROVE IInv'
  OBVIOUS
<1> USE DEF IInv
<1>1. Timed'
  BY NewIsTimed, TimedNew DEF StartTimer
<1>2. Answers'
  BY DEF StartTimer, Answers
<1>3. booking' \in BookingRow
  BY BoundsAssumption DEF StartTimer, NewSession, Timed, Clocks, BookingRow, Code, Stamp,
       Time, Null
<1>4. Course'
  BY DEF StartTimer, NewSession, Course, BookingRow, ActiveDispute, Null
<1>5. Evidence'
  BY DEF StartTimer, NewSession, Evidence, Course, BookingRow, SessionRow, Timed, Clocks,
       Stamp, Time, Null
<1> QED
  BY <1>1, <1>2, <1>3, <1>4, <1>5

LEMMA PauseTimerKeeps == IInv /\ PauseTimer => IInv'
<1> SUFFICES ASSUME IInv, PauseTimer PROVE IInv'
  OBVIOUS
<1> USE DEF IInv
<1>1. Timed'
  BY TimedPause
<1>2. Answers'
  BY DEF PauseTimer, Answers
<1>3. booking' \in BookingRow
  BY BoundsAssumption DEF PauseTimer, Timed, Clocks, BookingRow, Code, Stamp, Time, Null
<1>4. Course'
  BY DEF PauseTimer, Course, BookingRow, ActiveDispute, Null
<1>5. Evidence'
  BY DEF PauseTimer, Evidence, Course, BookingRow, SessionRow, Timed, Clocks, Stamp,
       Time, Null
<1> QED
  BY <1>1, <1>2, <1>3, <1>4, <1>5

LEMMA ResumeTimerKeeps == IInv /\ ResumeTimer => IInv'
<1> SUFFICES ASSUME IInv, ResumeTimer PROVE IInv'
  OBVIOUS
<1> USE DEF IInv
<1>1. Timed'
  BY TimedResume
<1>2. Answers'
  BY DEF ResumeTimer, Answers
<1>3. booking' \in BookingRow
  BY BoundsAssumption DEF ResumeTimer, Timed, Clocks, BookingRow, Code, Stamp, Time, Null
<1>4. Course'
  BY DEF ResumeTimer, Course, BookingRow, ActiveDispute, Null
<1>5. Evidence'
  BY DEF ResumeTimer, Evidence, Course, BookingRow, SessionRow, Timed, Clocks, Stamp,
       Time, Null
<1> QED
  BY <1>1, <1>2, <1>3, <1>4, <1>5

LEMMA StopTimerKeeps == IInv /\ StopTimer => IInv'
<1> SUFFICES ASSUME IInv, StopTimer PROVE IInv'
  OBVIOUS
<1> USE DEF IInv
<1>1. Timed'
  BY StoppedIsTimed, TimedNew DEF StopTimer
<1>2. Answers'
  BY DEF StopTimer, Answers
<1>3. booking' \in BookingRow
  BY BoundsAssumption DEF StopTimer, Stopped, Timed, Clocks, BookingRow, Code, Stamp,
       Time, Null
<1>4. Course'
  BY DEF StopTimer, Stopped, Course, BookingRow, ActiveDispute, Null
<1>5. Evidence'
  BY DEF StopTimer, Stopped, Evidence, Course, BookingRow, SessionRow, Timed, Clocks,
       Stamp, Time, Null
<1> QED
  BY <1>1, <1>2, <1>3, <1>4, <1>5

LEMMA AttachCompletionKeeps == IInv /\ AttachCompletion => IInv'
<1> SUFFICES ASSUME IInv, AttachCompletion PROVE IInv'
  OBVIOUS
<1> USE DEF IInv
<1>1. Timed'
  BY StoppedIsTimed, TimedNew DEF AttachCompletion
<1>2. Answers'
  BY DEF AttachCompletion, Answers
<1>3. booking' \in BookingRow
  BY BoundsAssumption DEF AttachCompletion, Stopped, Timed, Clocks, BookingRow, Code,
       Stamp, Time, Null
<1>4. Course'
  BY DEF AttachCompletion, Stopped, Course, BookingRow, ActiveDispute, Null
<1>5. Evidence'
  BY DEF AttachCompletion, Stopped, Evidence, Course, BookingRow, SessionRow, Timed,
       Clocks, Stamp, Time, Null
<1> QED
  BY <1>1, <1>2, <1>3, <1>4, <1>5

LEMMA IssueCompletionCodeKeeps == IInv /\ IssueCompletionCode => IInv'
<1> SUFFICES ASSUME IInv, IssueCompletionCode PROVE IInv'
  OBVIOUS
<1> USE DEF IInv
<1>1. Timed'
  BY BoundsAssumption, TimedKept DEF IssueCompletionCode, Issue, Timed, Clocks
<1>2. Answers'
  BY DEF IssueCompletionCode, Answers
<1>3. booking' \in BookingRow
  BY BoundsAssumption DEF IssueCompletionCode, Issue, IssuedCode, Timed, Clocks,
       BookingRow, Code, Stamp, Time, Null
<1>4. Course'
  BY DEF IssueCompletionCode, Issue, IssuedCode, Course, BookingRow, ActiveDispute, Null
<1>5. Evidence'
  BY DEF IssueCompletionCode, Issue, IssuedCode, Evidence, Course, BookingRow,
       SessionRow, Timed, Clocks, Stamp, Time, Null
<1> QED
  BY <1>1, <1>2, <1>3, <1>4, <1>5

LEMMA GuessCompletionCodeKeeps == IInv /\ GuessCompletionCode => IInv'
<1> SUFFICES ASSUME IInv, GuessCompletionCode PROVE IInv'
  OBVIOUS
<1> USE DEF IInv
<1>1. Timed'
  BY TimedKept DEF GuessCompletionCode, Timed, Clocks
<1>2. Answers'
  BY DEF GuessCompletionCode, Answers
<1>3. booking' \in BookingRow
  <2>1. [booking.completionCode EXCEPT !.attempts = @ + 1] \in Code
    BY BoundsAssumption DEF GuessCompletionCode, FinishWorkGuard, WrongGuess, Usable,
       BookingRow, Code
  <2> QED
    BY <2>1 DEF GuessCompletionCode, BookingRow
<1>4. Course'
  BY DEF GuessCompletionCode, FinishWorkGuard, WrongGuess, Usable, Course, BookingRow,
       ActiveDispute, Null
<1>5. Evidence'
  BY DEF GuessCompletionCode, FinishWorkGuard, WrongGuess, Usable, Evidence, Course,
       BookingRow, SessionRow, Timed, Clocks, Stamp, Time, Null
<1> QED
  BY <1>1, <1>2, <1>3, <1>4, <1>5

LEMMA FinishWorkKeeps == IInv /\ FinishWork => IInv'
<1> SUFFICES ASSUME IInv, FinishWork PROVE IInv'
  OBVIOUS
<1> USE DEF IInv
<1>1. Timed'
  BY TimedKept DEF FinishWork, Timed, Clocks
<1>2. Answers'
  BY DEF FinishWork, Answers
<1>3. booking' \in BookingRow
  <2>1. now \in Stamp /\ NoCode \in Code
    BY BoundsAssumption DEF Timed, Clocks, Stamp, NoCode, Code
  <2> QED
    BY <2>1 DEF FinishWork, CompletedBy, BookingRow
<1>4. Course'
  BY DEF FinishWork, FinishWorkGuard, CompletedBy, NoCode, Course, BookingRow,
       ActiveDispute, Null
<1>5. Evidence'
  BY DEF FinishWork, FinishWorkGuard, CompletedBy, NoCode, Evidence, Course, BookingRow,
       SessionRow, Timed, Clocks, Stamp, Time, Null
<1> QED
  BY <1>1, <1>2, <1>3, <1>4, <1>5

LEMMA SubmitKeeps == IInv /\ Submit => IInv'
<1> SUFFICES ASSUME IInv, Submit PROVE IInv'
  OBVIOUS
<1> USE DEF IInv
<1>1. Timed'
  BY TimedKept DEF Submit, Timed, Clocks
<1>2. Answers'
  BY DEF Submit, Answers
<1>3. booking' \in BookingRow
  <2>1. now \in Stamp /\ now + ApprovalWindow \in Stamp
    BY BoundsAssumption DEF Submit, Timed, Clocks, Stamp, Time
  <2> QED
    BY <2>1 DEF Submit, BookingRow
<1>4. Course'
  BY DEF Submit, Course, BookingRow, ActiveDispute, Null
<1>5. Evidence'
  BY DEF Submit, Evidence, Course, BookingRow, SessionRow, Timed, Clocks, Stamp, Time, Null
<1> QED
  BY <1>1, <1>2, <1>3, <1>4, <1>5

LEMMA CompleteByCustomerKeeps == IInv /\ CompleteByCustomer => IInv'
<1> SUFFICES ASSUME IInv, CompleteByCustomer PROVE IInv'
  OBVIOUS
<1> USE DEF IInv
<1>1. Timed'
  BY TimedKept DEF CompleteByCustomer, Timed, Clocks
<1>2. Answers'
  BY DEF CompleteByCustomer, Answers
<1>3. booking' \in BookingRow
  <2>1. booking \in BookingRow /\ now \in Stamp
    BY DEF Timed, Clocks, Stamp
  <2>2. ASSUME NEW submitted \in Stamp PROVE CompletedBy("customer", submitted) \in BookingRow
    BY <2>1 DEF CompletedBy, BookingRow
  <2>3. booking.submittedAt \in Stamp /\ booking.proofAt \in Stamp
    BY <2>1 DEF BookingRow
  <2> QED
    BY <2>1, <2>2, <2>3 DEF CompleteByCustomer
<1>4. Course'
  BY DEF CompleteByCustomer, Approvable, CompletedBy, Course, BookingRow, ActiveDispute,
       Null
<1>5. Evidence'
  BY DEF CompleteByCustomer, Approvable, CompletedBy, Evidence, Course, BookingRow,
       SessionRow, Timed, Clocks, Stamp, Time, Null
<1> QED
  BY <1>1, <1>2, <1>3, <1>4, <1>5

LEMMA AutoApproveOneKeeps == IInv /\ AutoApproveOne => IInv'
<1> SUFFICES ASSUME IInv, AutoApproveOne PROVE IInv'
  OBVIOUS
<1> USE DEF IInv
<1>1. Timed'
  BY TimedKept DEF AutoApproveOne, Timed, Clocks
<1>2. Answers'
  BY DEF AutoApproveOne, Answers
<1>3. booking' \in BookingRow
  BY BoundsAssumption DEF AutoApproveOne, AutoApprovable, CompletedBy, Timed, Clocks,
       BookingRow, Code, Stamp, Time, Null
<1>4. Course'
  BY DEF AutoApproveOne, AutoApprovable, CompletedBy, Course, BookingRow, ActiveDispute,
       Null
<1>5. Evidence'
  BY DEF AutoApproveOne, AutoApprovable, CompletedBy, Evidence, Course, BookingRow,
       SessionRow, Timed, Clocks, Stamp, Time, Null
<1> QED
  BY <1>1, <1>2, <1>3, <1>4, <1>5

LEMMA CancelKeeps == IInv /\ Cancel => IInv'
<1> SUFFICES ASSUME IInv, Cancel PROVE IInv'
  OBVIOUS
<1> USE DEF IInv
<1>1. Timed'
  BY TimedKept DEF Cancel, Timed, Clocks
<1>2. Answers'
  BY DEF Cancel, Answers
<1>3. booking' \in BookingRow
  BY BoundsAssumption DEF Cancel, Timed, Clocks, BookingRow, Code, Stamp, Time, Null
<1>4. Course'
  BY DEF Cancel, Course, BookingRow, ActiveDispute, Null
<1>5. Evidence'
  BY DEF Cancel, Evidence, Course, BookingRow, SessionRow, Timed, Clocks, Stamp, Time, Null
<1> QED
  BY <1>1, <1>2, <1>3, <1>4, <1>5

LEMMA CustomerNoShowKeeps == IInv /\ CustomerNoShow => IInv'
<1> SUFFICES ASSUME IInv, CustomerNoShow PROVE IInv'
  OBVIOUS
<1> USE DEF IInv
<1>1. Timed'
  BY TimedKept DEF CustomerNoShow, Timed, Clocks
<1>2. Answers'
  BY DEF CustomerNoShow, Answers
<1>3. booking' \in BookingRow
  BY BoundsAssumption DEF CustomerNoShow, Timed, Clocks, BookingRow, Code, Stamp, Time, Null
<1>4. Course'
  BY DEF CustomerNoShow, Course, BookingRow, ActiveDispute, Null
<1>5. Evidence'
  BY DEF CustomerNoShow, Evidence, Course, BookingRow, SessionRow, Timed, Clocks, Stamp,
       Time, Null
<1> QED
  BY <1>1, <1>2, <1>3, <1>4, <1>5

LEMMA FileComplaintKeeps == IInv /\ FileComplaint => IInv'
<1> SUFFICES ASSUME IInv, FileComplaint PROVE IInv'
  OBVIOUS
<1> USE DEF IInv
<1>1. Timed'
  BY TimedKept DEF FileComplaint, Timed, Clocks
<1>2. Answers'
  BY DEF FileComplaint, Answers
<1>3. booking' \in BookingRow
  BY BoundsAssumption DEF FileComplaint, Timed, Clocks, BookingRow, Code, Stamp, Time, Null
<1>4. Course'
  BY DEF FileComplaint, Course, BookingRow, ActiveDispute, Null
<1>5. Evidence'
  BY DEF FileComplaint, Evidence, Course, BookingRow, SessionRow, Timed, Clocks, Stamp,
       Time, Null
<1> QED
  BY <1>1, <1>2, <1>3, <1>4, <1>5

LEMMA CloseDisputeKeeps == IInv /\ CloseDispute => IInv'
<1> SUFFICES ASSUME IInv, CloseDispute PROVE IInv'
  OBVIOUS
<1> USE DEF IInv
<1>1. Timed'
  BY TimedKept DEF CloseDispute, Timed, Clocks
<1>2. Answers'
  BY DEF CloseDispute, Answers
<1>3. booking' \in BookingRow
  BY BoundsAssumption DEF CloseDispute, Timed, Clocks, BookingRow, Code, Stamp, Time, Null
<1>4. Course'
  BY DEF CloseDispute, Course, BookingRow, ActiveDispute, Null
<1>5. Evidence'
  BY DEF CloseDispute, Evidence, Course, BookingRow, SessionRow, Timed, Clocks, Stamp,
       Time, Null
<1> QED
  BY <1>1, <1>2, <1>3, <1>4, <1>5

LEMMA ReleaseHoldKeeps == IInv /\ ReleaseHold => IInv'
<1> SUFFICES ASSUME IInv, ReleaseHold PROVE IInv'
  OBVIOUS
<1> USE DEF IInv
<1>1. Timed'
  BY TimedKept DEF ReleaseHold, Timed, Clocks
<1>2. Answers'
  BY DEF ReleaseHold, Answers
<1>3. booking' \in BookingRow
  BY BoundsAssumption DEF ReleaseHold, Timed, Clocks, BookingRow, Code, Stamp, Time, Null
<1>4. Course'
  BY DEF ReleaseHold, Course, BookingRow, ActiveDispute, Null
<1>5. Evidence'
  BY DEF ReleaseHold, Evidence, Course, BookingRow, SessionRow, Timed, Clocks, Stamp,
       Time, Null
<1> QED
  BY <1>1, <1>2, <1>3, <1>4, <1>5

LEMMA RespondExtensionRequestKeeps == IInv /\ RespondExtensionRequest => IInv'
<1> SUFFICES ASSUME IInv, RespondExtensionRequest PROVE IInv'
  OBVIOUS
<1> USE DEF IInv
<1>1. Timed'
  BY TimedKept DEF RespondExtensionRequest, Timed, Clocks
<1>2. Answers'
  BY DEF RespondExtensionRequest, Answers
<1>3. booking' \in BookingRow
  BY BoundsAssumption DEF RespondExtensionRequest, Timed, Clocks, BookingRow, Code,
       Stamp, Time, Null
<1>4. Course'
  BY DEF RespondExtensionRequest, Course, BookingRow, ActiveDispute, Null
<1>5. Evidence'
  BY DEF RespondExtensionRequest, Evidence, Course, BookingRow, SessionRow, Timed,
       Clocks, Stamp, Time, Null
<1> QED
  BY <1>1, <1>2, <1>3, <1>4, <1>5

LEMMA CancelExtensionRequestKeeps == IInv /\ CancelExtensionRequest => IInv'
<1> SUFFICES ASSUME IInv, CancelExtensionRequest PROVE IInv'
  OBVIOUS
<1> USE DEF IInv
<1>1. Timed'
  BY TimedKept DEF CancelExtensionRequest, Timed, Clocks
<1>2. Answers'
  BY DEF CancelExtensionRequest, Answers
<1>3. booking' \in BookingRow
  BY BoundsAssumption DEF CancelExtensionRequest, Timed, Clocks, BookingRow, Code, Stamp,
       Time, Null
<1>4. Course'
  BY DEF CancelExtensionRequest, Course, BookingRow, ActiveDispute, Null
<1>5. Evidence'
  BY DEF CancelExtensionRequest, Evidence, Course, BookingRow, SessionRow, Timed, Clocks,
       Stamp, Time, Null
<1> QED
  BY <1>1, <1>2, <1>3, <1>4, <1>5

LEMMA StepKeeps == IInv /\ [Next]_vars => IInv'
<1> SUFFICES ASSUME IInv, [Next]_vars PROVE IInv'
  OBVIOUS
<1>1. CASE Next
  BY <1>1, TickKeeps, AttachFrontDoorKeeps, IssueStartCodeKeeps,
     GuessStartCodeKeeps, StartWorkKeeps, StartTimerKeeps, PauseTimerKeeps,
     ResumeTimerKeeps, StopTimerKeeps, AttachCompletionKeeps,
     IssueCompletionCodeKeeps, GuessCompletionCodeKeeps, FinishWorkKeeps,
     SubmitKeeps, CompleteByCustomerKeeps, AutoApproveOneKeeps, CancelKeeps,
     CustomerNoShowKeeps, FileComplaintKeeps, CloseDisputeKeeps,
     ReleaseHoldKeeps, RespondExtensionRequestKeeps,
     CancelExtensionRequestKeeps
  DEF Next
<1>2. CASE UNCHANGED vars
  BY <1>2 DEF vars, IInv, Timed, Clocks, Timer, Answers, Course, Evidence, ActiveDispute
<1> QED
  BY <1>1, <1>2

\* The strengthened invariant holds in every reachable state.
THEOREM Invariance == Spec => []IInv
  BY InitInv, StepKeeps, PTL DEF Spec

-----------------------------------------------------------------------------
(* The results. *)

\* The rows keep their types: no handler writes outside them.
THEOREM TypeCorrect == Spec => []TypeOK
  BY Invariance, RowsAreTyped, PTL

\* What the timer bills is the time it ran, whatever pauses came between.
THEOREM BillsWhatWasWorked == Spec => []BillableTimeIsWorked
<1>1. IInv => BillableTimeIsWorked
  BY DEF IInv, Timed, Timer, BillableTimeIsWorked
<1> QED
  BY <1>1, Invariance, PTL

\* Three ways to complete a booking count one task between them.
THEOREM TasksCountedOnce == Spec => []CountedOnce
<1>1. IInv => CountedOnce
  BY DEF IInv, Course, CountedOnce
<1> QED
  BY <1>1, Invariance, PTL

\* A verified booking is completed on evidence that was gathered in order.
THEOREM EvidenceGathered == Spec => []EvidenceInOrder
<1>1. IInv => EvidenceInOrder
  BY DEF IInv, Evidence, EvidenceInOrder, BookingRow, SessionRow, Stamp, Time, Null
<1> QED
  BY <1>1, Invariance, PTL

\* No handler completes a booking under an active dispute, though finishing by
\* code does not look for one: no dispute can be active while the code is good.
THEOREM DisputesBlockCompletion == Spec => DisputeBlocksCompletion
<1> DEFINE Blocked == ActiveDispute /\ booking.status # "completed" =>
                        booking'.status # "completed"
<1>1. IInv /\ [Next]_vars => [Blocked]_vars
  <2> SUFFICES ASSUME IInv, Next, ActiveDispute, booking.status # "completed"
               PROVE booking'.status # "completed"
    BY DEF vars
  <2>0. booking \in BookingRow /\ booking.status \notin {"arrived", "in_progress"}
    BY DEF IInv, Course
  <2>1. ~FinishWork /\ ~CompleteByCustomer /\ ~AutoApproveOne /\ ~Submit /\ ~StartWork /\ ~StartTimer
    BY <2>0 DEF FinishWork, FinishWorkGuard, CompleteByCustomer, AutoApproveOne,
                AutoApprovable, Submit, StartWork, StartWorkGuard, StartTimer
  <2> QED
    BY <2>0, <2>1 DEF Next, BookingRow, Tick, AttachFrontDoor, IssueStartCode,
       GuessStartCode,
         PauseTimer, ResumeTimer, StopTimer, AttachCompletion, IssueCompletionCode,
         GuessCompletionCode, Cancel, CustomerNoShow, FileComplaint, CloseDispute, ReleaseHold,
         RespondExtensionRequest, CancelExtensionRequest
<1> QED
  BY <1>1, Invariance, PTL DEF Spec, DisputeBlocksCompletion

\* A code guessed at too often, or expired, neither starts nor finishes the work.
THEOREM DeadCodesStayDead == Spec => DeadCodeStaysDead
<1> DEFINE Start == booking.required /\ booking.status = "arrived" /\ Dead(booking.startCode) =>
                      booking'.status # "in_progress"
           Finish == booking.status = "in_progress" /\ Dead(booking.completionCode) =>
                       booking'.approvedBy # "customer_otp"
<1>1. IInv /\ [Next]_vars => [Start /\ Finish]_vars
  <2> SUFFICES ASSUME IInv, Next PROVE Start /\ Finish
    BY DEF vars
  <2>0. booking \in BookingRow /\ now \in Nat /\ MaxAttempts \in Nat
    BY BoundsAssumption DEF IInv, Timed, Clocks, Time
  <2>1. ASSUME NEW code \in Code, Dead(code) PROVE ~Usable(code)
    BY <2>0, <2>1 DEF Dead, Usable, Code
  <2>2. Start
    <3> SUFFICES ASSUME booking.required, booking.status = "arrived", Dead(booking.startCode)
                 PROVE booking'.status # "in_progress"
      OBVIOUS
    <3>1. ~StartWork /\ ~StartTimer
      BY <2>0, <2>1 DEF BookingRow, StartWork, StartTimer, RightGuess
    <3> QED
      BY <2>0, <3>1 DEF Next, BookingRow, Tick, AttachFrontDoor, IssueStartCode,
           GuessStartCode, StartWork, StartTimer, PauseTimer, ResumeTimer, StopTimer,
           AttachCompletion, IssueCompletionCode, GuessCompletionCode, FinishWork,
           Submit, CompleteByCustomer, AutoApproveOne, CompletedBy, Cancel,
           CustomerNoShow, FileComplaint, CloseDispute, ReleaseHold,
           RespondExtensionRequest, CancelExtensionRequest
  <2>3. Finish
    <3> SUFFICES ASSUME booking.status = "in_progress", Dead(booking.completionCode)
                 PROVE booking'.approvedBy # "customer_otp"
      OBVIOUS
    <3>1. ~FinishWork /\ booking.approvedBy = "none"
      BY <2>0, <2>1 DEF BookingRow, FinishWork, RightGuess, IInv, Course
    <3> QED
      BY <2>0, <3>1 DEF Next, BookingRow, Tick, AttachFrontDoor, IssueStartCode,
           GuessStartCode, StartWork, StartTimer, PauseTimer, ResumeTimer, StopTimer,
           AttachCompletion, IssueCompletionCode, GuessCompletionCode, FinishWork,
           Submit, CompleteByCustomer, AutoApproveOne, CompletedBy, Cancel,
           CustomerNoShow, FileComplaint, CloseDispute, ReleaseHold,
           RespondExtensionRequest, CancelExtensionRequest
  <2> QED
    BY <2>2, <2>3
<1> QED
  BY <1>1, Invariance, PTL DEF Spec, DeadCodeStaysDead
=============================================================================
