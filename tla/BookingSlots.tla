---------------------------- MODULE BookingSlots ----------------------------
(***************************************************************************)
(* The reservation side of a booking: which availability slot a booking    *)
(* holds, which Tasker it binds, and which statuses keep the Tasker's time *)
(* taken.  Every action is one database transaction that locks the booking *)
(* row (or, for a new booking, both users' rows), so it is atomic; the one *)
(* handler that is not a transaction, deleteAvailability, is two actions.  *)
(*                                                                         *)
(* Money is another module's subject (AcceptancePayment): here a payment   *)
(* is the step that takes awaiting_payment to confirmed.                   *)
(***************************************************************************)
EXTENDS Integers, FiniteSets

CONSTANTS
  Bookings,        \* identities of Booking rows
  Slots,           \* identities of UserAvailability rows
  Taskers,         \* identities of Tasker users
  Times,           \* wall-clock ranges, [from |-> start, to |-> end]
  PendingWindow,   \* BOOKING_PENDING_EXPIRY_MINUTES, in clock ticks
  PaymentWindow,   \* the awaiting-payment policy, in clock ticks
  MinPaymentWindow,\* the five minutes an accepted booking can always be paid
  MaxNow,          \* bound on the model's clock
  None             \* no user, no slot: the columns of a row not yet written

ASSUME TimesAssumption == Times \subseteq [from : Nat, to : Nat]
ASSUME WindowAssumption ==
  /\ PendingWindow \in Nat
  /\ PaymentWindow \in Nat
  /\ MinPaymentWindow \in Nat
  /\ MaxNow \in Nat

VARIABLES
  now,          \* the clock
  slot,         \* UserAvailability rows
  booking,      \* Booking rows
  proposal,     \* start of the pending RescheduleProposal of a booking, if any
  deleting,     \* slots whose deleteAvailability has passed its checks
  reassigned,   \* history: bookings an administrator gave to another Tasker
  moved,        \* history: bookings rescheduled or reassigned since creation
  strayed,      \* history: slots freed by a reassignment of their booking
  pendingSince  \* history: when a booking last became pending

vars == <<now, slot, booking, proposal, deleting,
          reassigned, moved, strayed, pendingSince>>

-----------------------------------------------------------------------------
(* Rows. *)

BOOKED  == {"pending", "awaiting_payment", "confirmed"}
ONGOING == {"en_route", "arrived", "in_progress"}
ACTIVE  == BOOKED \union ONGOING
Statuses == ACTIVE \union {"completed", "cancelled"}

\* A row that was deleted is "gone"; an id without a row yet has "none".
UserAvailability ==
  [row : {"live", "gone"}, tasker : Taskers, time : Times,
   isBooked : BOOLEAN, isCustom : BOOLEAN]

Booking ==
  [status : Statuses \union {"gone"}, tasker : Taskers, slot : Slots,
   time : Times, isCustomTime : BOOLEAN, captured : BOOLEAN,
   createdAt : Nat, paymentDueAt : Nat]

NoTime == [from |-> 0, to |-> 0]

NoSlot ==
  [row |-> "none", tasker |-> None, time |-> NoTime,
   isBooked |-> FALSE, isCustom |-> FALSE]

NoBooking ==
  [status |-> "none", tasker |-> None, slot |-> None, time |-> NoTime,
   isCustomTime |-> FALSE, captured |-> FALSE,
   createdAt |-> 0, paymentDueAt |-> 0]

Overlap(left, right) == left.from < right.to /\ right.from < left.to

IsPast(time) == time.from <= now

\* What booking and rescheduling find on offer, and claimSlot then claims with
\* its conditional update of the one row.
Open(s) == slot[s].row = "live" /\ ~slot[s].isBooked /\ ~slot[s].isCustom

TaskerTimeFreeOfOngoing(t, time) ==   \* mutant: reservations do not count
  \A b \in Bookings :
    booking[b].status \in ONGOING /\ booking[b].tasker = t
      => ~Overlap(booking[b].time, time)

\* assertTaskerTimeFree
TaskerTimeFree(t, time) ==
  \A b \in Bookings :
    booking[b].status \in ACTIVE /\ booking[b].tasker = t
      => ~Overlap(booking[b].time, time)

\* The rows that hold their slot: everything but cancelled (and absent) ones.
Holds(b, s) ==
  booking[b].slot = s /\ booking[b].status \in ACTIVE \union {"completed"}

Init ==
  /\ now = 1
  /\ slot = [s \in Slots |-> NoSlot]
  /\ booking = [b \in Bookings |-> NoBooking]
  /\ proposal = [b \in Bookings |-> {}]
  /\ deleting = {}
  /\ reassigned = {}
  /\ moved = {}
  /\ strayed = {}
  /\ pendingSince = [b \in Bookings |-> 0]

history == <<reassigned, moved, strayed, pendingSince>>

-----------------------------------------------------------------------------
(* Availability. *)

Tick ==
  /\ now < MaxNow
  /\ now' = now + 1
  /\ UNCHANGED <<slot, booking, proposal, deleting, history>>

ListedSlot(t, time) ==
  [row |-> "live", tasker |-> t, time |-> time,
   isBooked |-> FALSE, isCustom |-> FALSE]

\* A listed slot must not overlap a slot the Tasker already has; a custom slot
\* counts only while it is booked.
AddAvailability(s, t, time) ==
  /\ slot[s].row = "none"
  /\ ~IsPast(time)
  /\ \A r \in Slots :
       /\ slot[r].row = "live"
       /\ slot[r].tasker = t
       /\ ~slot[r].isCustom \/ slot[r].isBooked
       => ~Overlap(slot[r].time, time)
  /\ slot' = [slot EXCEPT ![s] = ListedSlot(t, time)]
  /\ UNCHANGED <<now, booking, proposal, deleting, history>>

Referenced(s) ==
  \E b \in Bookings : booking[b].slot = s /\ booking[b].status \in Statuses

\* deleteAvailability reads the slot and the bookings that reference it ...
CheckDeletable(s) ==
  /\ slot[s].row = "live"
  /\ ~(slot[s].isCustom /\ slot[s].isBooked)
  /\ ~Referenced(s)
  /\ deleting' = deleting \union {s}
  /\ UNCHANGED <<now, slot, booking, proposal, history>>

\* Payment and work-proof rows refer to their booking and restrict its deletion.
Restricted(b) ==
  \/ booking[b].captured
  \/ booking[b].status \in {"in_progress", "completed"}

\* ... and deletes by id, in a later statement.  The foreign key of a booking
\* cascades, so a booking made in between is deleted with its slot.
DeleteChecked(s) ==
  /\ s \in deleting
  /\ \A b \in Bookings : booking[b].slot = s => ~Restricted(b)
  /\ deleting' = deleting \ {s}
  /\ slot' = [slot EXCEPT ![s].row = "gone"]
  /\ booking' = [b \in Bookings |->
                   IF booking[b].slot = s /\ booking[b].status \in Statuses
                   THEN [booking[b] EXCEPT !.status = "gone"] ELSE booking[b]]
  /\ UNCHANGED <<now, proposal, history>>

\* The database refuses the deletion, or the request dies before it.
DeleteFails(s) ==
  /\ s \in deleting
  /\ deleting' = deleting \ {s}
  /\ UNCHANGED <<now, slot, booking, proposal, history>>

-----------------------------------------------------------------------------
(* Creating a booking. *)

NewBooking(s, t, time, custom) ==
  [status |-> "pending", tasker |-> t, slot |-> s, time |-> time,
   isCustomTime |-> custom, captured |-> FALSE,
   createdAt |-> now, paymentDueAt |-> 0]

CustomSlotOnOffer(t, time) ==   \* mutant: created without its claim
  [row |-> "live", tasker |-> t, time |-> time,
   isBooked |-> FALSE, isCustom |-> TRUE]

CustomSlot(t, time) ==
  [row |-> "live", tasker |-> t, time |-> time,
   isBooked |-> TRUE, isCustom |-> TRUE]

BookListed(b, s) ==
  /\ booking[b].status = "none"
  /\ Open(s)
  /\ ~IsPast(slot[s].time)
  /\ TaskerTimeFree(slot[s].tasker, slot[s].time)
  /\ slot' = [slot EXCEPT ![s].isBooked = TRUE]
  /\ booking' = [booking EXCEPT
                   ![b] = NewBooking(s, slot[s].tasker, slot[s].time, FALSE)]
  /\ pendingSince' = [pendingSince EXCEPT ![b] = now]
  /\ UNCHANGED <<now, proposal, deleting, reassigned, moved, strayed>>

\* A custom time, directly or through an accepted CustomTimeRequest, is carried
\* on a slot of its own that is created already booked.
BookCustom(b, s, t, time) ==
  /\ booking[b].status = "none"
  /\ slot[s].row = "none"
  /\ ~IsPast(time)
  /\ TaskerTimeFree(t, time)
  /\ slot' = [slot EXCEPT ![s] = CustomSlot(t, time)]
  /\ booking' = [booking EXCEPT ![b] = NewBooking(s, t, time, TRUE)]
  /\ pendingSince' = [pendingSince EXCEPT ![b] = now]
  /\ UNCHANGED <<now, proposal, deleting, reassigned, moved, strayed>>

-----------------------------------------------------------------------------
(* Moving a booking. *)

Movable(b) == booking[b].status \in {"pending", "confirmed"}

SlotsAfterMoveUnclaimed(b, s) ==   \* mutant: the new slot is not claimed
  [slot EXCEPT ![booking[b].slot].isBooked = FALSE]

SlotsAfterMoveUnreleased(b, s) ==   \* mutant: the old slot is not released
  [slot EXCEPT ![s].isBooked = TRUE]

\* Claim the new slot, then release the old one by id.
SlotsAfterMove(b, s) ==
  [slot EXCEPT ![s].isBooked = TRUE, ![booking[b].slot].isBooked = FALSE]

\* A moved booking starts over as pending; createdAt and a captured payment stay.
MoveTo(b, s) ==
  /\ Movable(b)
  /\ Open(s)
  /\ slot[s].tasker = booking[b].tasker
  /\ ~IsPast(slot[s].time)
  /\ slot' = SlotsAfterMove(b, s)
  /\ booking' = [booking EXCEPT ![b].slot = s, ![b].time = slot[s].time,
                                ![b].isCustomTime = FALSE, ![b].status = "pending"]
  /\ pendingSince' = [pendingSince EXCEPT ![b] = now]
  /\ moved' = moved \union {b}
  /\ UNCHANGED <<now, deleting, reassigned, strayed>>

Reschedule(b, s) ==
  /\ MoveTo(b, s)
  /\ UNCHANGED proposal

\* The Tasker proposes an open slot; nothing is claimed.
CreateRescheduleProposal(b, s) ==
  /\ Movable(b)
  /\ proposal[b] = {}
  /\ Open(s)
  /\ slot[s].tasker = booking[b].tasker
  /\ ~IsPast(slot[s].time)
  /\ proposal' = [proposal EXCEPT ![b] = {slot[s].time.from}]
  /\ UNCHANGED <<now, slot, booking, deleting, history>>

\* Accepting looks the proposed start up again among the open slots.
AcceptRescheduleProposal(b, s) ==
  /\ slot[s].time.from \in proposal[b]
  /\ MoveTo(b, s)
  /\ proposal' = [proposal EXCEPT ![b] = {}]

RejectRescheduleProposal(b) ==
  /\ proposal[b] # {}
  /\ Movable(b)
  /\ proposal' = [proposal EXCEPT ![b] = {}]
  /\ UNCHANGED <<now, slot, booking, deleting, history>>

\* An administrator gives the booking to another Tasker.  The old Tasker's slot
\* is released but the booking goes on pointing at it.
Reassign(b, t) ==
  /\ booking[b].status \in {"pending", "confirmed", "en_route", "arrived"}
  /\ t # booking[b].tasker
  /\ booking' = [booking EXCEPT ![b].tasker = t, ![b].status = "pending"]
  /\ slot' = [slot EXCEPT ![booking[b].slot].isBooked = FALSE]
  /\ reassigned' = reassigned \union {b}
  /\ moved' = moved \union {b}
  /\ strayed' = strayed \union {booking[b].slot}
  /\ pendingSince' = [pendingSince EXCEPT ![b] = now]
  /\ UNCHANGED <<now, proposal, deleting>>

-----------------------------------------------------------------------------
(* Acceptance, payment and the visit. *)

MinOf(x, y) == IF x <= y THEN x ELSE y
MaxOf(x, y) == IF x >= y THEN x ELSE y

PaymentDeadlineUnset(time) == 0   \* mutant: paymentDueAt stays null

PaymentDeadline(time) ==
  MaxOf(MinOf(now + PaymentWindow, time.from), now + MinPaymentWindow)

\* Only a custom-time booking is checked against the Tasker's other bookings.
CustomTimeConflict(b) ==
  /\ booking[b].isCustomTime
  /\ \E o \in Bookings \ {b} :
       /\ booking[o].status \in ACTIVE \union {"completed"}
       /\ booking[o].tasker = booking[b].tasker
       /\ Overlap(booking[o].time, booking[b].time)

\* A cash booking, and one already paid, is confirmed at once; the method is
\* abstracted to the choice of the two outcomes while nothing is captured.
Confirm(b) ==
  /\ booking[b].status = "pending"
  /\ ~CustomTimeConflict(b)
  /\ \/ booking' = [booking EXCEPT ![b].status = "confirmed"]
     \/ /\ ~booking[b].captured
        /\ booking' = [booking EXCEPT
                         ![b].status = "awaiting_payment",
                         ![b].paymentDueAt = PaymentDeadline(booking[b].time)]
  /\ UNCHANGED <<now, slot, proposal, deleting, history>>

\* The customer pays online (captured) or settles for cash.
CompletePayment(b) ==
  /\ booking[b].status = "awaiting_payment"
  /\ \E paid \in BOOLEAN :
       booking' = [booking EXCEPT ![b].status = "confirmed", ![b].captured = paid]
  /\ UNCHANGED <<now, slot, proposal, deleting, history>>

Advance(b, from, to) ==
  /\ booking[b].status = from
  /\ booking' = [booking EXCEPT ![b].status = to]
  /\ UNCHANGED <<now, slot, proposal, deleting, history>>

StartNavigation(b) == Advance(b, "confirmed", "en_route")
Arrive(b)          == Advance(b, "en_route", "arrived")
StartWork(b)       == Advance(b, "arrived", "in_progress")
FinishWork(b)      == Advance(b, "in_progress", "completed")

-----------------------------------------------------------------------------
(* Cancelling: every path releases the slot by id. *)

CancelFrom(b, statuses) ==
  /\ booking[b].status \in statuses
  /\ slot' = [slot EXCEPT ![booking[b].slot].isBooked = FALSE]
  /\ booking' = [booking EXCEPT ![b].status = "cancelled"]
  /\ UNCHANGED <<now, proposal, deleting, history>>

Cancellable == BOOKED \union {"en_route", "arrived"}

CancelCustomer(b) == CancelFrom(b, Cancellable)
CancelTasker(b)   == CancelFrom(b, Cancellable)
CancelAdmin(b)    == CancelFrom(b, Cancellable)
CustomerNoShow(b) == CancelFrom(b, {"arrived"})

PendingDue(b) ==
  /\ booking[b].status = "pending"
  /\ booking[b].createdAt + PendingWindow <= now

ExpirePending(b) == PendingDue(b) /\ CancelFrom(b, {"pending"})

PaymentDue(b) ==
  /\ booking[b].status = "awaiting_payment"
  /\ ~booking[b].captured
  /\ booking[b].paymentDueAt # 0
  /\ booking[b].paymentDueAt <= now

ExpireAwaitingPayment(b) ==
  PaymentDue(b) /\ CancelFrom(b, {"awaiting_payment"})

-----------------------------------------------------------------------------

Availability ==
  \E s \in Slots :
    \/ \E t \in Taskers, time \in Times : AddAvailability(s, t, time)
    \/ CheckDeletable(s)
    \/ DeleteChecked(s)
    \/ DeleteFails(s)

Creation ==
  \E b \in Bookings, s \in Slots :
    \/ BookListed(b, s)
    \/ \E t \in Taskers, time \in Times : BookCustom(b, s, t, time)

Relocation ==
  \E b \in Bookings :
    \/ \E s \in Slots :
         \/ Reschedule(b, s)
         \/ CreateRescheduleProposal(b, s)
         \/ AcceptRescheduleProposal(b, s)
    \/ RejectRescheduleProposal(b)
    \/ \E t \in Taskers : Reassign(b, t)

Visit ==
  \E b \in Bookings :
    \/ Confirm(b)
    \/ CompletePayment(b)
    \/ StartNavigation(b)
    \/ Arrive(b)
    \/ StartWork(b)
    \/ FinishWork(b)

Cancellation ==
  \E b \in Bookings :
    \/ CancelCustomer(b)
    \/ CancelTasker(b)
    \/ CancelAdmin(b)
    \/ CustomerNoShow(b)
    \/ ExpirePending(b)
    \/ ExpireAwaitingPayment(b)

Next ==
  \/ Tick
  \/ Availability
  \/ Creation
  \/ Relocation
  \/ Visit
  \/ Cancellation

Spec == Init /\ [][Next]_vars

\* The two expiry sweeps run on a schedule, and time goes on; users owe nothing.
Fairness ==
  /\ WF_vars(Tick)
  /\ \A b \in Bookings :
       WF_vars(ExpirePending(b)) /\ WF_vars(ExpireAwaitingPayment(b))

FairSpec == Spec /\ Fairness

-----------------------------------------------------------------------------
(* Properties. *)

\* Every row has the shape its table gives it.
TypeOK ==
  /\ now \in Nat
  /\ slot \in [Slots -> UserAvailability \union {NoSlot}]
  /\ booking \in [Bookings -> Booking \union {NoBooking}]
  /\ proposal \in [Bookings -> SUBSET Nat]
  /\ deleting \subseteq {s \in Slots : slot[s].row # "none"}
  /\ reassigned \subseteq Bookings
  /\ moved \subseteq Bookings
  /\ strayed \subseteq Slots
  /\ pendingSince \in [Bookings -> Nat]

\* Two bookings never hold the same slot, across bookings, reschedules,
\* accepted proposals, cancellations, expiries and deletions in any order,
\* except a slot an administrator's reassignment freed under its booking.
SlotExclusive ==
  \A s \in Slots \ strayed : \A b, c \in Bookings :
    Holds(b, s) /\ Holds(c, s) => b = c

\* A slot on offer is held by no booking, with the same exception.
OpenSlotUnheld ==
  \A s \in Slots \ strayed : \A b \in Bookings :
    Holds(b, s) => slot[s].row = "live" /\ slot[s].isBooked

\* No slot leaks: a slot marked booked is one some booking still holds, so a
\* cancelled, expired or moved booking never leaves the Tasker's time blocked.
NoLeakedSlot ==
  \A s \in Slots :
    slot[s].row = "live" /\ slot[s].isBooked => \E b \in Bookings : Holds(b, s)

\* Two live bookings of one Tasker that were never rescheduled or reassigned do
\* not overlap, listed and custom times alike.
CalendarSafe ==
  \A b, c \in Bookings \ moved :
    /\ b # c
    /\ booking[b].status \in ACTIVE
    /\ booking[c].status \in ACTIVE
    /\ booking[b].tasker = booking[c].tasker
    => ~Overlap(booking[b].time, booking[c].time)

\* A booking that waits, for the Tasker's answer or for the customer's payment,
\* does not wait for ever: when its window ends before the clock's bound, the
\* wait ends too.
WaitsEnd ==
  \A b \in Bookings :
    /\ (booking[b].status = "pending" /\ booking[b].createdAt + PendingWindow <= MaxNow)
         ~> (booking[b].status # "pending")
    /\ (booking[b].status = "awaiting_payment" /\ booking[b].paymentDueAt <= MaxNow)
         ~> (booking[b].status # "awaiting_payment")

\* bookings.service.ts:3250: "an open slot alone does not prove the Tasker is
\* free at that time".  A booking that moves, with its own Tasker, lands on time
\* that no other live booking of the Tasker takes.
MoveLandsOnFreeTime ==
  [][\A b \in Bookings \ reassigned :
       /\ booking[b].status \in ACTIVE
       /\ booking'[b].status \in ACTIVE
       /\ booking'[b].slot # booking[b].slot
       => \A c \in Bookings \ (reassigned \union {b}) :
            booking[c].status \in ACTIVE /\ booking[c].tasker = booking'[b].tasker
              => ~Overlap(booking[c].time, booking'[b].time)]_vars

\* docs/booking-pending-expiration.md: the window is "how long a booking may
\* stay pending before it is eligible for expiration".
ExpiryAfterFullWindow ==
  [][\A b \in Bookings :
       booking[b].status = "pending" /\ PendingDue(b)
         /\ booking'[b].status = "cancelled"
         => pendingSince[b] + PendingWindow <= now]_vars
=============================================================================
