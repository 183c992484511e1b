------------------------- MODULE BookingSlotsProofs -------------------------
(***************************************************************************)
(* Theorems about BookingSlots, for any sets of bookings, slots, Taskers   *)
(* and times and any windows.                                              *)
(***************************************************************************)
EXTENDS BookingSlots, TLAPS

-----------------------------------------------------------------------------
(* Typing. *)

\* A row that exists has the columns of its table.
LEMMA LiveRows ==
  ASSUME TypeOK
  PROVE  /\ \A s \in Slots : slot[s].row = "live" => slot[s] \in UserAvailability
         /\ \A b \in Bookings :
              booking[b].status \in Statuses => booking[b] \in Booking
  BY DEF TypeOK, NoSlot, NoBooking, Statuses, ACTIVE, BOOKED, ONGOING

\* The payment deadline of a time is a clock value.
LEMMA DeadlineType ==
  ASSUME TypeOK, NEW time \in Times
  PROVE  PaymentDeadline(time) \in Nat
  BY TimesAssumption, WindowAssumption
  DEF TypeOK, PaymentDeadline, MinOf, MaxOf

LEMMA InitTypeOK == Init => TypeOK
  BY DEF Init, TypeOK

LEMMA AvailabilityTypeOK ==
  ASSUME TypeOK, Availability
  PROVE  TypeOK'
  <1>1. ASSUME NEW s \in Slots, NEW t \in Taskers, NEW time \in Times,
               AddAvailability(s, t, time)
        PROVE  TypeOK'
    BY <1>1 DEF AddAvailability, ListedSlot, TypeOK, UserAvailability, history
  <1>2. ASSUME NEW s \in Slots, CheckDeletable(s)
        PROVE  TypeOK'
    BY <1>2 DEF CheckDeletable, TypeOK, history
  <1>3. ASSUME NEW s \in Slots, DeleteChecked(s)
        PROVE  TypeOK'
    <2>1. slot[s] \in UserAvailability
      BY <1>3 DEF DeleteChecked, TypeOK, NoSlot
    <2>2. slot' \in [Slots -> UserAvailability \union {NoSlot}]
      BY <1>3, <2>1 DEF DeleteChecked, TypeOK, UserAvailability
    <2>3. \A r \in Slots : slot[r].row # "none" => slot'[r].row # "none"
      BY <1>3 DEF DeleteChecked, TypeOK
    <2>4. booking' \in [Bookings -> Booking \union {NoBooking}]
      BY <1>3, LiveRows DEF DeleteChecked, TypeOK, Booking
    <2>5. QED
      BY <1>3, <2>2, <2>3, <2>4 DEF DeleteChecked, TypeOK, history
  <1>4. ASSUME NEW s \in Slots, DeleteFails(s)
        PROVE  TypeOK'
    BY <1>4 DEF DeleteFails, TypeOK, history
  <1>5. QED
    BY <1>1, <1>2, <1>3, <1>4 DEF Availability

LEMMA CreationTypeOK ==
  ASSUME TypeOK, Creation
  PROVE  TypeOK'
  <1>1. ASSUME NEW b \in Bookings, NEW s \in Slots, BookListed(b, s)
        PROVE  TypeOK'
    <2>1. slot[s] \in UserAvailability
      BY <1>1, LiveRows DEF BookListed, Open
    <2>2. NewBooking(s, slot[s].tasker, slot[s].time, FALSE) \in Booking
      BY <2>1 DEF NewBooking, Booking, UserAvailability, TypeOK,
                  Statuses, ACTIVE, BOOKED
    <2>3. slot' \in [Slots -> UserAvailability \union {NoSlot}]
      BY <1>1, <2>1 DEF BookListed, TypeOK, UserAvailability
    <2>4. \A r \in Slots : slot'[r].row = slot[r].row
      BY <1>1, <2>1 DEF BookListed, TypeOK, UserAvailability
    <2>5. QED
      BY <1>1, <2>2, <2>3, <2>4 DEF BookListed, TypeOK
  <1>2. ASSUME NEW b \in Bookings, NEW s \in Slots, NEW t \in Taskers,
               NEW time \in Times, BookCustom(b, s, t, time)
        PROVE  TypeOK'
    <2>1. CustomSlot(t, time) \in UserAvailability
      BY DEF CustomSlot, UserAvailability
    <2>2. NewBooking(s, t, time, TRUE) \in Booking
      BY DEF NewBooking, Booking, TypeOK, Statuses, ACTIVE, BOOKED
    <2>3. QED
      BY <1>2, <2>1, <2>2 DEF BookCustom, TypeOK, CustomSlot
  <1>3. QED
    BY <1>1, <1>2 DEF Creation

\* A release by id keeps the shape of a table of slots.
LEMMA ReleasedRows ==
  ASSUME NEW table \in [Slots -> UserAvailability \union {NoSlot}],
         NEW s \in Slots
  PROVE  LET released == [table EXCEPT ![s].isBooked = FALSE]
         IN  /\ released \in [Slots -> UserAvailability \union {NoSlot}]
             /\ \A r \in Slots : released[r].row = table[r].row
  <1>1. [NoSlot EXCEPT !.isBooked = FALSE] = NoSlot
    <2>1. /\ NoSlot = [row |-> "none", tasker |-> None, time |-> NoTime,
                       isBooked |-> FALSE, isCustom |-> FALSE]
          /\ NoSlot.isBooked = FALSE
      BY Zenon DEF NoSlot
    <2>2. [NoSlot EXCEPT !.isBooked = FALSE]
            = [x \in DOMAIN NoSlot |-> IF x = "isBooked" THEN FALSE ELSE NoSlot[x]]
      OBVIOUS
    <2> QED
      BY <2>1, <2>2
  <1>2. CASE table[s] = NoSlot
    BY <1>1, <1>2
  <1>3. CASE table[s] \in UserAvailability
    BY <1>3 DEF UserAvailability
  <1>4. QED
    BY <1>2, <1>3

\* The shared part of a reschedule and of an accepted proposal.
LEMMA MoveType ==
  ASSUME TypeOK, NEW b \in Bookings, NEW s \in Slots, MoveTo(b, s)
  PROVE  /\ slot' \in [Slots -> UserAvailability \union {NoSlot}]
         /\ \A r \in Slots : slot'[r].row = slot[r].row
         /\ booking' \in [Bookings -> Booking \union {NoBooking}]
  <1>1. slot[s] \in UserAvailability
    BY LiveRows DEF MoveTo, Open
  <1>2. booking[b] \in Booking
    BY LiveRows DEF MoveTo, Movable, Statuses, ACTIVE, BOOKED
  <1>3. /\ slot' \in [Slots -> UserAvailability \union {NoSlot}]
        /\ \A r \in Slots : slot'[r].row = slot[r].row
    <2> DEFINE claimed == [slot EXCEPT ![s].isBooked = TRUE]
    <2>1. /\ claimed \in [Slots -> UserAvailability \union {NoSlot}]
          /\ \A r \in Slots : claimed[r].row = slot[r].row
      BY <1>1 DEF TypeOK, UserAvailability
    <2>2. slot' = [claimed EXCEPT ![booking[b].slot].isBooked = FALSE]
      BY DEF MoveTo, SlotsAfterMove
    <2>3. booking[b].slot \in Slots
      BY <1>2 DEF Booking
    <2> HIDE DEF claimed
    <2>4. QED
      BY <2>1, <2>2, <2>3, ReleasedRows
  <1>5. booking' \in [Bookings -> Booking \union {NoBooking}]
    <2> DEFINE later == [booking[b] EXCEPT !.slot = s, !.time = slot[s].time,
                                             !.isCustomTime = FALSE, !.status = "pending"]
    <2>1. slot[s].time \in Times /\ "pending" \in Statuses
      BY <1>1 DEF UserAvailability, Statuses, ACTIVE, BOOKED
    <2>2. later \in Booking
      BY <1>2, <2>1 DEF Booking
    <2>3. booking' = [booking EXCEPT ![b] = later]
      BY DEF MoveTo
    <2> HIDE DEF later
    <2>4. QED
      BY <2>2, <2>3 DEF TypeOK
  <1>6. QED
    BY <1>3, <1>5

LEMMA RelocationTypeOK ==
  ASSUME TypeOK, Relocation
  PROVE  TypeOK'
  <1>1. ASSUME NEW b \in Bookings, NEW s \in Slots, Reschedule(b, s)
        PROVE  TypeOK'
    BY <1>1, MoveType DEF Reschedule, MoveTo, TypeOK
  <1>2. ASSUME NEW b \in Bookings, NEW s \in Slots,
               CreateRescheduleProposal(b, s)
        PROVE  TypeOK'
    <2>1. slot[s].time.from \in Nat
      BY <1>2, LiveRows, TimesAssumption
      DEF CreateRescheduleProposal, Open, UserAvailability
    <2>2. QED
      BY <1>2, <2>1 DEF CreateRescheduleProposal, TypeOK, history
  <1>3. ASSUME NEW b \in Bookings, NEW s \in Slots,
               AcceptRescheduleProposal(b, s)
        PROVE  TypeOK'
    BY <1>3, MoveType DEF AcceptRescheduleProposal, MoveTo, TypeOK
  <1>4. ASSUME NEW b \in Bookings, RejectRescheduleProposal(b)
        PROVE  TypeOK'
    BY <1>4 DEF RejectRescheduleProposal, TypeOK, history
  <1>5. ASSUME NEW b \in Bookings, NEW t \in Taskers, Reassign(b, t)
        PROVE  TypeOK'
    <2>1. booking[b] \in Booking
      BY <1>5, LiveRows DEF Reassign, Statuses, ACTIVE, BOOKED, ONGOING
    <2>2. booking[b].slot \in Slots
      BY <2>1 DEF Booking
    <2>3. booking' \in [Bookings -> Booking \union {NoBooking}]
      BY <1>5, <2>1 DEF Reassign, TypeOK, Booking, Statuses, ACTIVE, BOOKED
    <2>4. QED
      BY <1>5, <2>2, <2>3, ReleasedRows DEF Reassign, TypeOK
  <1>6. QED
    BY <1>1, <1>2, <1>3, <1>4, <1>5 DEF Relocation

\* A step that only changes one booking's status, and perhaps its payment.
LEMMA VisitTypeOK ==
  ASSUME TypeOK, Visit
  PROVE  TypeOK'
  <1>1. ASSUME NEW b \in Bookings, Confirm(b)
        PROVE  TypeOK'
    <2>1. booking[b] \in Booking
      BY <1>1, LiveRows DEF Confirm, Statuses, ACTIVE, BOOKED
    <2>2. PaymentDeadline(booking[b].time) \in Nat
      BY <2>1, DeadlineType DEF Booking
    <2>3. QED
      BY <1>1, <2>1, <2>2 DEF Confirm, TypeOK, Booking, history,
                              Statuses, ACTIVE, BOOKED
  <1>2. ASSUME NEW b \in Bookings, CompletePayment(b)
        PROVE  TypeOK'
    <2>1. booking[b] \in Booking
      BY <1>2, LiveRows DEF CompletePayment, Statuses, ACTIVE, BOOKED
    <2>2. PICK paid \in BOOLEAN :
            booking' = [booking EXCEPT ![b].status = "confirmed",
                                       ![b].captured = paid]
      BY <1>2 DEF CompletePayment
    <2>3. booking' \in [Bookings -> Booking \union {NoBooking}]
      BY <2>1, <2>2 DEF TypeOK, Booking, Statuses, ACTIVE, BOOKED
    <2>4. QED
      BY <1>2, <2>3 DEF CompletePayment, TypeOK, history
  <1>3. ASSUME NEW b \in Bookings, NEW from \in Statuses, NEW to \in Statuses,
               Advance(b, from, to)
        PROVE  TypeOK'
    <2>1. booking[b] \in Booking
      BY <1>3, LiveRows DEF Advance
    <2>2. QED
      BY <1>3, <2>1 DEF Advance, TypeOK, Booking, history
  <1>4. QED
    BY <1>1, <1>2, <1>3
    DEF Visit, StartNavigation, Arrive, StartWork, FinishWork,
        Statuses, ACTIVE, BOOKED, ONGOING

\* Every cancellation is a CancelFrom of statuses a booking can have.
LEMMA CancellationSteps ==
  ASSUME Cancellation
  PROVE  \E b \in Bookings : CancelFrom(b, ACTIVE)
  BY DEF Cancellation, CancelCustomer, CancelTasker, CancelAdmin,
         CustomerNoShow, ExpirePending, ExpireAwaitingPayment, CancelFrom,
         Cancellable, ACTIVE, BOOKED, ONGOING

LEMMA CancellationTypeOK ==
  ASSUME TypeOK, Cancellation
  PROVE  TypeOK'
  <1>1. PICK b \in Bookings : CancelFrom(b, ACTIVE)
    BY CancellationSteps
  <1>2. booking[b] \in Booking
    BY <1>1, LiveRows DEF CancelFrom, Statuses
  <1>3. booking[b].slot \in Slots
    BY <1>2 DEF Booking
  <1>4. booking' \in [Bookings -> Booking \union {NoBooking}]
    BY <1>1, <1>2 DEF CancelFrom, TypeOK, Booking, Statuses
  <1>5. QED
    BY <1>1, <1>3, <1>4, ReleasedRows DEF CancelFrom, TypeOK, history

\* TypeOK is inductive by itself.
LEMMA NextTypeOK ==
  ASSUME TypeOK, [Next]_vars
  PROVE  TypeOK'
  <1>1. CASE Tick
    BY <1>1 DEF Tick, TypeOK, history
  <1>2. CASE UNCHANGED vars
    BY <1>2 DEF vars, TypeOK
  <1>3. QED
    BY <1>1, <1>2, AvailabilityTypeOK, CreationTypeOK, RelocationTypeOK,
       VisitTypeOK, CancellationTypeOK
    DEF Next

\* Rows keep their columns' types under every interleaving of the handlers and
\* the sweeps.
THEOREM TypeCorrect == Spec => []TypeOK
  BY InitTypeOK, NextTypeOK, PTL DEF Spec
-----------------------------------------------------------------------------
(* Reservations. *)

\* What SlotExclusive needs to be inductive: a slot that someone holds is not on
\* offer, so a claim, which needs a slot on offer, never adds a second holder.
Reserved == SlotExclusive /\ OpenSlotUnheld

LEMMA InitReserved == Init => Reserved
  BY DEF Init, Reserved, SlotExclusive, OpenSlotUnheld, Holds, NoBooking, ACTIVE,
         BOOKED, ONGOING

LEMMA AvailabilityReserved ==
  ASSUME TypeOK, Reserved, Availability
  PROVE  Reserved'
  <1> USE DEF Reserved, SlotExclusive, OpenSlotUnheld, Holds
  <1>1. ASSUME NEW s \in Slots, NEW t \in Taskers, NEW time \in Times,
               AddAvailability(s, t, time)
        PROVE  Reserved'
    BY <1>1 DEF AddAvailability, ListedSlot, TypeOK, history
  <1>2. ASSUME NEW s \in Slots, CheckDeletable(s)
        PROVE  Reserved'
    BY <1>2 DEF CheckDeletable, history
  <1>3. ASSUME NEW s \in Slots, DeleteChecked(s)
        PROVE  Reserved'
    <2>1. \A r \in Slots \ {s} : slot'[r] = slot[r]
      BY <1>3 DEF DeleteChecked, TypeOK
    <2>2. \A c \in Bookings : ~Holds(c, s)'
      BY <1>3 DEF DeleteChecked, Statuses, ACTIVE, BOOKED, ONGOING
    <2>3. \A c \in Bookings, r \in Slots : Holds(c, r)' => Holds(c, r)
      BY <1>3 DEF DeleteChecked, Statuses, ACTIVE, BOOKED, ONGOING
    <2>4. strayed' = strayed
      BY <1>3 DEF DeleteChecked, history
    <2> HIDE DEF Holds
    <2>5. QED
      BY <2>1, <2>2, <2>3, <2>4
  <1>4. ASSUME NEW s \in Slots, DeleteFails(s)
        PROVE  Reserved'
    BY <1>4 DEF DeleteFails, history
  <1>5. QED
    BY <1>1, <1>2, <1>3, <1>4 DEF Availability

\* A step after which booking b holds slot s, marked booked, and every other
\* holder and slot that somebody else holds is as before.
LEMMA ClaimReserved ==
  ASSUME Reserved, NEW b \in Bookings, NEW s \in Slots,
         \A c \in Bookings : ~(s \notin strayed /\ Holds(c, s)) \/ c = b,
         \A c \in Bookings \ {b}, r \in Slots : Holds(c, r)' <=> Holds(c, r),
         \A r \in Slots : Holds(b, r)' => r = s,
         slot'[s].row = "live",
         slot'[s].isBooked \/ s \in strayed,
         \A r \in Slots \ {s} :
           r \in strayed \/ slot'[r] = slot[r] \/ (\A c \in Bookings : ~Holds(c, r)'),
         strayed' = strayed
  PROVE  Reserved'
  BY DEF Reserved, SlotExclusive, OpenSlotUnheld

LEMMA CreationReserved ==
  ASSUME TypeOK, Reserved, Creation
  PROVE  Reserved'
  <1>1. ASSUME NEW b \in Bookings, NEW s \in Slots, BookListed(b, s)
        PROVE  Reserved'
    <2>1. slot[s] \in UserAvailability
      BY <1>1, LiveRows DEF BookListed, Open
    <2>2. \A c \in Bookings : ~(s \notin strayed /\ Holds(c, s))
      BY <1>1 DEF BookListed, Open, Reserved, OpenSlotUnheld
    <2>3. \A c \in Bookings \ {b}, r \in Slots : Holds(c, r)' <=> Holds(c, r)
      BY <1>1 DEF BookListed, Holds, TypeOK
    <2>4. \A r \in Slots : Holds(b, r)' => r = s
      BY <1>1 DEF BookListed, NewBooking, Holds, TypeOK
    <2>5. slot'[s].row = "live" /\ slot'[s].isBooked
      BY <1>1, <2>1 DEF BookListed, Open, TypeOK, UserAvailability
    <2>6. \A r \in Slots \ {s} : slot'[r] = slot[r]
      BY <1>1 DEF BookListed, TypeOK
    <2>7. strayed' = strayed
      BY <1>1 DEF BookListed
    <2>8. QED
      BY <2>2, <2>3, <2>4, <2>5, <2>6, <2>7, ClaimReserved
  <1>2. ASSUME NEW b \in Bookings, NEW s \in Slots, NEW t \in Taskers,
               NEW time \in Times, BookCustom(b, s, t, time)
        PROVE  Reserved'
    <2>1. \A c \in Bookings : ~(s \notin strayed /\ Holds(c, s))
      BY <1>2 DEF BookCustom, Reserved, OpenSlotUnheld
    <2>2. \A c \in Bookings \ {b}, r \in Slots : Holds(c, r)' <=> Holds(c, r)
      BY <1>2 DEF BookCustom, Holds, TypeOK
    <2>3. \A r \in Slots : Holds(b, r)' => r = s
      BY <1>2 DEF BookCustom, NewBooking, Holds, TypeOK
    <2>4. slot'[s].row = "live" /\ slot'[s].isBooked
      BY <1>2 DEF BookCustom, CustomSlot, TypeOK
    <2>5. \A r \in Slots \ {s} : slot'[r] = slot[r]
      BY <1>2 DEF BookCustom, TypeOK
    <2>6. strayed' = strayed
      BY <1>2 DEF BookCustom
    <2>7. QED
      BY <2>1, <2>2, <2>3, <2>4, <2>5, <2>6, ClaimReserved
  <1>3. QED
    BY <1>1, <1>2 DEF Creation

\* A move: the claim is that of ClaimReserved, and the slot released is held by
\* the moving booking only.
LEMMA MoveReserved ==
  ASSUME TypeOK, Reserved, NEW b \in Bookings, NEW s \in Slots, MoveTo(b, s)
  PROVE  Reserved'
  <1> DEFINE old == booking[b].slot
  <1>1. slot[s] \in UserAvailability /\ booking[b] \in Booking /\ old \in Slots
    BY LiveRows DEF MoveTo, Open, Movable, Booking, Statuses, ACTIVE, BOOKED
  <1>2. Holds(b, old)
    BY DEF MoveTo, Movable, Holds, ACTIVE, BOOKED
  <1>3. \A c \in Bookings : ~(s \notin strayed /\ Holds(c, s))
    BY DEF MoveTo, Open, Reserved, OpenSlotUnheld
  <1>4. s = old => s \in strayed
    BY <1>2, <1>3
  <1>5. \A c \in Bookings \ {b}, r \in Slots : Holds(c, r)' <=> Holds(c, r)
    BY DEF MoveTo, Holds, TypeOK
  <1>6. \A r \in Slots : Holds(b, r)' => r = s
    BY <1>1 DEF MoveTo, Holds, TypeOK, Booking
  <1>7. slot'[s].row = "live"
    BY MoveType DEF MoveTo, Open
  <1>8. slot'[s].isBooked \/ s \in strayed
    BY <1>1, <1>4 DEF MoveTo, SlotsAfterMove, TypeOK, UserAvailability
  <1>9. \A r \in Slots \ {s} : r = old \/ slot'[r] = slot[r]
    BY <1>1 DEF MoveTo, SlotsAfterMove, TypeOK
  <1>10. ASSUME NEW r \in Slots, r \notin strayed, r # s, r = old
         PROVE  \A c \in Bookings : ~Holds(c, r)'
    <2>1. \A c \in Bookings : Holds(c, r) => c = b
      BY <1>2, <1>10 DEF Reserved, SlotExclusive
    <2>2. QED
      BY <2>1, <1>5, <1>6, <1>10
  <1>11. strayed' = strayed
    BY DEF MoveTo
  <1> HIDE DEF old
  <1>12. QED
    BY <1>3, <1>5, <1>6, <1>7, <1>8, <1>9, <1>10, <1>11, ClaimReserved

\* A step that changes no holder for the worse and releases no held slot.
LEMMA KeepReserved ==
  ASSUME Reserved,
         \A c \in Bookings, r \in Slots : Holds(c, r)' => Holds(c, r),
         \A r \in Slots :
           r \in strayed' \/ slot'[r] = slot[r] \/ (\A c \in Bookings : ~Holds(c, r)'),
         strayed \subseteq strayed'
  PROVE  Reserved'
  BY DEF Reserved, SlotExclusive, OpenSlotUnheld

LEMMA RelocationReserved ==
  ASSUME TypeOK, Reserved, Relocation
  PROVE  Reserved'
  <1>1. ASSUME NEW b \in Bookings, NEW s \in Slots, Reschedule(b, s)
        PROVE  Reserved'
    BY <1>1, MoveReserved DEF Reschedule
  <1>2. ASSUME NEW b \in Bookings, NEW s \in Slots,
               CreateRescheduleProposal(b, s)
        PROVE  Reserved'
    BY <1>2 DEF CreateRescheduleProposal, history, Reserved, SlotExclusive,
                OpenSlotUnheld, Holds
  <1>3. ASSUME NEW b \in Bookings, NEW s \in Slots,
               AcceptRescheduleProposal(b, s)
        PROVE  Reserved'
    BY <1>3, MoveReserved DEF AcceptRescheduleProposal
  <1>4. ASSUME NEW b \in Bookings, RejectRescheduleProposal(b)
        PROVE  Reserved'
    BY <1>4 DEF RejectRescheduleProposal, history, Reserved, SlotExclusive,
                OpenSlotUnheld, Holds
  <1>5. ASSUME NEW b \in Bookings, NEW t \in Taskers, Reassign(b, t)
        PROVE  Reserved'
    <2>1. booking[b] \in Booking
      BY <1>5, LiveRows DEF Reassign, Statuses, ACTIVE, BOOKED, ONGOING
    <2>2. \A c \in Bookings, r \in Slots : Holds(c, r)' => Holds(c, r)
      BY <1>5, <2>1 DEF Reassign, Holds, TypeOK, Booking, ACTIVE, BOOKED, ONGOING
    <2>3. \A r \in Slots : r = booking[b].slot \/ slot'[r] = slot[r]
      BY <1>5 DEF Reassign, TypeOK
    <2>4. strayed' = strayed \union {booking[b].slot}
      BY <1>5 DEF Reassign
    <2>5. QED
      BY <2>2, <2>3, <2>4, KeepReserved
  <1>6. QED
    BY <1>1, <1>2, <1>3, <1>4, <1>5 DEF Relocation

LEMMA VisitReserved ==
  ASSUME TypeOK, Reserved, Visit
  PROVE  Reserved'
  <1> USE DEF Holds, TypeOK, ACTIVE, BOOKED, ONGOING
  <1>a. ASSUME NEW b \in Bookings, Confirm(b)
        PROVE  \A c \in Bookings, r \in Slots : Holds(c, r)' => Holds(c, r)
    <2>1. booking[b] \in Booking
      BY <1>a, LiveRows DEF Confirm, Statuses
    <2>2. booking'[b].slot = booking[b].slot
      BY <1>a, <2>1 DEF Confirm, Booking
    <2>3. \A c \in Bookings \ {b} : booking'[c] = booking[c]
      BY <1>a DEF Confirm
    <2>4. QED
      BY <1>a, <2>2, <2>3 DEF Confirm
  <1>b. ASSUME NEW b \in Bookings, CompletePayment(b)
        PROVE  \A c \in Bookings, r \in Slots : Holds(c, r)' => Holds(c, r)
    BY <1>b DEF CompletePayment
  <1>c. ASSUME NEW b \in Bookings, NEW from \in ACTIVE, NEW to \in Statuses,
               Advance(b, from, to)
        PROVE  \A c \in Bookings, r \in Slots : Holds(c, r)' => Holds(c, r)
    BY <1>c DEF Advance
  <1> HIDE DEF Holds, TypeOK
  <1>1. \A c \in Bookings, r \in Slots : Holds(c, r)' => Holds(c, r)
    BY <1>a, <1>b, <1>c DEF Visit, StartNavigation, Arrive, StartWork, FinishWork,
                            Statuses
  <1>2. slot' = slot /\ strayed' = strayed
    BY DEF Visit, Confirm, CompletePayment, StartNavigation, Arrive, StartWork,
           FinishWork, Advance, history
  <1>3. QED
    BY <1>1, <1>2, KeepReserved

LEMMA CancellationReserved ==
  ASSUME TypeOK, Reserved, Cancellation
  PROVE  Reserved'
  <1>1. PICK b \in Bookings : CancelFrom(b, ACTIVE)
    BY CancellationSteps
  <1>2. \A c \in Bookings, r \in Slots : Holds(c, r)' => Holds(c, r) /\ c # b
    BY <1>1 DEF CancelFrom, Holds, TypeOK, ACTIVE, BOOKED, ONGOING
  <1>3. \A r \in Slots : r = booking[b].slot \/ slot'[r] = slot[r]
    BY <1>1 DEF CancelFrom, TypeOK
  <1>4. Holds(b, booking[b].slot) /\ strayed' = strayed
    BY <1>1 DEF CancelFrom, Holds, history
  <1>5. \A r \in Slots :
          r \in strayed \/ slot'[r] = slot[r] \/ (\A c \in Bookings : ~Holds(c, r)')
    BY <1>2, <1>3, <1>4 DEF Reserved, SlotExclusive
  <1>6. QED
    BY <1>2, <1>4, <1>5, KeepReserved

LEMMA NextReserved ==
  ASSUME TypeOK, Reserved, [Next]_vars
  PROVE  Reserved'
  <1>1. CASE Tick
    BY <1>1 DEF Tick, history, Reserved, SlotExclusive, OpenSlotUnheld, Holds
  <1>2. CASE UNCHANGED vars
    BY <1>2 DEF vars, Reserved, SlotExclusive, OpenSlotUnheld, Holds
  <1>3. QED
    BY <1>1, <1>2, AvailabilityReserved, CreationReserved, RelocationReserved,
       VisitReserved, CancellationReserved
    DEF Next

\* No slot is held twice, whatever the number of bookings, slots and Taskers,
\* unless a reassignment freed it while its booking kept it.
THEOREM SlotsExclusive == Spec => []SlotExclusive
  <1>1. Spec => []Reserved
    BY InitReserved, NextReserved, TypeCorrect, PTL DEF Spec
  <1>2. Reserved => SlotExclusive
    BY DEF Reserved
  <1>3. QED
    BY <1>1, <1>2, PTL

\* A slot on offer is free, with the same exception.
THEOREM OpenSlotsUnheld == Spec => []OpenSlotUnheld
  <1>1. Spec => []Reserved
    BY InitReserved, NextReserved, TypeCorrect, PTL DEF Spec
  <1>2. Reserved => OpenSlotUnheld
    BY DEF Reserved
  <1>3. QED
    BY <1>1, <1>2, PTL

-----------------------------------------------------------------------------
(* No slot stays blocked. *)

Taken(r) == slot[r].row = "live" /\ slot[r].isBooked

\* A step that takes a slot only for a holder, and leaves a slot without holder
\* only when it releases it.
LEMMA KeepNoLeak ==
  ASSUME NoLeakedSlot,
         \A r \in Slots : Taken(r)' => Taken(r) \/ \E c \in Bookings : Holds(c, r)',
         \A c \in Bookings, r \in Slots :
           Holds(c, r) /\ Taken(r)' => \E d \in Bookings : Holds(d, r)'
  PROVE  NoLeakedSlot'
  BY DEF NoLeakedSlot, Taken

LEMMA InitNoLeak == Init => NoLeakedSlot
  BY DEF Init, NoLeakedSlot, NoSlot

LEMMA AvailabilityNoLeak ==
  ASSUME TypeOK, NoLeakedSlot, Availability
  PROVE  NoLeakedSlot'
  <1>1. ASSUME NEW s \in Slots, NEW t \in Taskers, NEW time \in Times,
               AddAvailability(s, t, time)
        PROVE  NoLeakedSlot'
    BY <1>1 DEF AddAvailability, ListedSlot, NoLeakedSlot, Holds, TypeOK
  <1>2. ASSUME NEW s \in Slots, CheckDeletable(s)
        PROVE  NoLeakedSlot'
    BY <1>2 DEF CheckDeletable, NoLeakedSlot, Holds
  <1>3. ASSUME NEW s \in Slots, DeleteChecked(s)
        PROVE  NoLeakedSlot'
    <2>1. slot[s] \in UserAvailability
      BY <1>3 DEF DeleteChecked, TypeOK, NoSlot
    <2>2. ~Taken(s)'
      BY <1>3, <2>1 DEF DeleteChecked, Taken, TypeOK, UserAvailability
    <2>3. \A r \in Slots \ {s} : slot'[r] = slot[r]
      BY <1>3 DEF DeleteChecked, TypeOK
    <2>4. \A c \in Bookings, r \in Slots \ {s} : Holds(c, r) => Holds(c, r)'
      BY <1>3 DEF DeleteChecked, Holds, TypeOK
    <2>5. QED
      BY <2>2, <2>3, <2>4, KeepNoLeak DEF Taken
  <1>4. ASSUME NEW s \in Slots, DeleteFails(s)
        PROVE  NoLeakedSlot'
    BY <1>4 DEF DeleteFails, NoLeakedSlot, Holds
  <1>5. QED
    BY <1>1, <1>2, <1>3, <1>4 DEF Availability

LEMMA CreationNoLeak ==
  ASSUME TypeOK, NoLeakedSlot, Creation
  PROVE  NoLeakedSlot'
  <1>1. PICK b \in Bookings, s \in Slots :
          /\ booking[b].status = "none"
          /\ \A r \in Slots \ {s} : slot'[r] = slot[r]
          /\ \A c \in Bookings \ {b} : booking'[c] = booking[c]
          /\ booking'[b].status = "pending" /\ booking'[b].slot = s
    BY DEF Creation, BookListed, BookCustom, NewBooking, TypeOK
  <1>2. Holds(b, s)'
    BY <1>1 DEF Holds, ACTIVE, BOOKED
  <1>3. \A c \in Bookings, r \in Slots : Holds(c, r) => Holds(c, r)'
    BY <1>1 DEF Holds, ACTIVE, BOOKED, ONGOING
  <1>4. QED
    BY <1>1, <1>2, <1>3, KeepNoLeak DEF Taken

\* The moving booking holds the slot it claims; the one it leaves is released.
LEMMA MoveNoLeak ==
  ASSUME TypeOK, NoLeakedSlot, NEW b \in Bookings, NEW s \in Slots, MoveTo(b, s)
  PROVE  NoLeakedSlot'
  <1> DEFINE old == booking[b].slot
  <1>1. slot[s] \in UserAvailability /\ booking[b] \in Booking /\ old \in Slots
    BY LiveRows DEF MoveTo, Open, Movable, Booking, Statuses, ACTIVE, BOOKED
  <1>2. slot[old] \in UserAvailability \union {NoSlot}
    BY <1>1 DEF TypeOK
  <1>3. \A r \in Slots : r = old => ~Taken(r)'
    BY <1>1, <1>2 DEF MoveTo, SlotsAfterMove, Taken, TypeOK, UserAvailability, NoSlot
  <1>4. Holds(b, s)'
    BY <1>1 DEF MoveTo, Holds, TypeOK, Booking, ACTIVE, BOOKED
  <1>5. \A r \in Slots : r = s \/ r = old \/ slot'[r] = slot[r]
    BY <1>1 DEF MoveTo, SlotsAfterMove, TypeOK
  <1>6. \A c \in Bookings, r \in Slots : Holds(c, r) => r = old \/ Holds(c, r)'
    BY DEF MoveTo, Holds, TypeOK
  <1> HIDE DEF old
  <1>7. QED
    BY <1>3, <1>4, <1>5, <1>6, KeepNoLeak DEF Taken

\* Releasing by id the slot of the only booking a step changes.
LEMMA ReleaseNoLeak ==
  ASSUME TypeOK, NoLeakedSlot, NEW b \in Bookings,
         booking[b].slot \in Slots,
         slot' = [slot EXCEPT ![booking[b].slot].isBooked = FALSE],
         \A c \in Bookings \ {b} : booking'[c] = booking[c]
  PROVE  NoLeakedSlot'
  <1> DEFINE old == booking[b].slot
  <1>1. slot[old] \in UserAvailability \union {NoSlot}
    BY DEF TypeOK
  <1>2. \A r \in Slots : r = old => ~Taken(r)'
    BY <1>1 DEF Taken, TypeOK, UserAvailability, NoSlot
  <1>3. \A r \in Slots : r = old \/ slot'[r] = slot[r]
    BY DEF TypeOK
  <1>4. \A c \in Bookings, r \in Slots : Holds(c, r) => r = old \/ Holds(c, r)'
    BY DEF Holds
  <1> HIDE DEF old
  <1>5. QED
    BY <1>2, <1>3, <1>4, KeepNoLeak DEF Taken

LEMMA RelocationNoLeak ==
  ASSUME TypeOK, NoLeakedSlot, Relocation
  PROVE  NoLeakedSlot'
  <1>1. ASSUME NEW b \in Bookings, NEW s \in Slots,
               CreateRescheduleProposal(b, s)
        PROVE  NoLeakedSlot'
    BY <1>1 DEF CreateRescheduleProposal, NoLeakedSlot, Holds
  <1>2. ASSUME NEW b \in Bookings, RejectRescheduleProposal(b)
        PROVE  NoLeakedSlot'
    BY <1>2 DEF RejectRescheduleProposal, NoLeakedSlot, Holds
  <1>3. ASSUME NEW b \in Bookings, NEW t \in Taskers, Reassign(b, t)
        PROVE  NoLeakedSlot'
    <2>1. booking[b].slot \in Slots
      BY <1>3, LiveRows DEF Reassign, Booking, Statuses, ACTIVE, BOOKED, ONGOING
    <2>2. QED
      BY <1>3, <2>1, ReleaseNoLeak DEF Reassign, TypeOK
  <1>4. QED
    BY <1>1, <1>2, <1>3, MoveNoLeak DEF Relocation, Reschedule, AcceptRescheduleProposal

LEMMA VisitNoLeak ==
  ASSUME TypeOK, NoLeakedSlot, Visit
  PROVE  NoLeakedSlot'
  <1> USE DEF Holds, TypeOK, ACTIVE, BOOKED, ONGOING
  <1>1. ASSUME NEW b \in Bookings, Confirm(b)
        PROVE  \A c \in Bookings, r \in Slots : Holds(c, r) => Holds(c, r)'
    <2>1. booking[b] \in Booking
      BY <1>1, LiveRows DEF Confirm, Statuses
    <2>2. /\ booking'[b].slot = booking[b].slot
          /\ booking'[b].status \in {"confirmed", "awaiting_payment"}
      BY <1>1, <2>1 DEF Confirm, Booking
    <2>3. \A c \in Bookings \ {b} : booking'[c] = booking[c]
      BY <1>1 DEF Confirm
    <2>4. QED
      BY <2>2, <2>3
  <1>2. ASSUME NEW b \in Bookings, CompletePayment(b)
        PROVE  \A c \in Bookings, r \in Slots : Holds(c, r) => Holds(c, r)'
    <2>1. booking[b] \in Booking
      BY <1>2, LiveRows DEF CompletePayment, Statuses
    <2>2. QED
      BY <1>2, <2>1 DEF CompletePayment, Booking
  <1>3. ASSUME NEW b \in Bookings, NEW from \in ACTIVE,
               NEW to \in ACTIVE \union {"completed"}, Advance(b, from, to)
        PROVE  \A c \in Bookings, r \in Slots : Holds(c, r) => Holds(c, r)'
    <2>1. booking[b] \in Booking
      BY <1>3, LiveRows DEF Advance, Statuses
    <2>2. QED
      BY <1>3, <2>1 DEF Advance, Booking
  <1> HIDE DEF Holds, TypeOK
  <1>4. \A c \in Bookings, r \in Slots : Holds(c, r) => Holds(c, r)'
    BY <1>1, <1>2, <1>3 DEF Visit, StartNavigation, Arrive, StartWork, FinishWork
  <1>5. slot' = slot
    BY DEF Visit, Confirm, CompletePayment, StartNavigation, Arrive, StartWork,
           FinishWork, Advance
  <1>6. QED
    BY <1>4, <1>5, KeepNoLeak DEF Taken

LEMMA CancellationNoLeak ==
  ASSUME TypeOK, NoLeakedSlot, Cancellation
  PROVE  NoLeakedSlot'
  <1>1. PICK b \in Bookings : CancelFrom(b, ACTIVE)
    BY CancellationSteps
  <1>2. booking[b].slot \in Slots
    BY <1>1, LiveRows DEF CancelFrom, Booking, Statuses
  <1>3. QED
    BY <1>1, <1>2, ReleaseNoLeak DEF CancelFrom, TypeOK

LEMMA NextNoLeak ==
  ASSUME TypeOK, NoLeakedSlot, [Next]_vars
  PROVE  NoLeakedSlot'
  <1>1. CASE Tick
    BY <1>1 DEF Tick, NoLeakedSlot, Holds
  <1>2. CASE UNCHANGED vars
    BY <1>2 DEF vars, NoLeakedSlot, Holds
  <1>3. QED
    BY <1>1, <1>2, AvailabilityNoLeak, CreationNoLeak, RelocationNoLeak,
       VisitNoLeak, CancellationNoLeak
    DEF Next

\* No slot stays blocked without a booking, with no exception: NoLeakedSlot is
\* inductive by itself once the rows have their types.
THEOREM NoSlotLeaks == Spec => []NoLeakedSlot
  BY InitNoLeak, NextNoLeak, TypeCorrect, PTL DEF Spec

-----------------------------------------------------------------------------
(* Unmoved bookings do not overlap. *)

Unmoved(c) == c \notin moved /\ booking[c].status \in ACTIVE

\* A step that makes no booking live, and changes the Tasker or the time only of
\* bookings it marks as moved.
LEMMA KeepCalendar ==
  ASSUME CalendarSafe,
         \A c \in Bookings :
           Unmoved(c)' => /\ Unmoved(c)
                          /\ booking'[c].tasker = booking[c].tasker
                          /\ booking'[c].time = booking[c].time
  PROVE  CalendarSafe'
  BY DEF CalendarSafe, Unmoved

\* The one booking a step changes stays with its Tasker and its time.
LEMMA StepCalendar ==
  ASSUME TypeOK, CalendarSafe, NEW b \in Bookings, booking[b].status \in ACTIVE,
         moved' = moved,
         \A c \in Bookings \ {b} : booking'[c] = booking[c],
         booking'[b].tasker = booking[b].tasker,
         booking'[b].time = booking[b].time
  PROVE  CalendarSafe'
  BY KeepCalendar DEF Unmoved

LEMMA InitCalendar == Init => CalendarSafe
  BY DEF Init, CalendarSafe, NoBooking, ACTIVE, BOOKED, ONGOING

LEMMA AvailabilityCalendar ==
  ASSUME TypeOK, CalendarSafe, Availability
  PROVE  CalendarSafe'
  <1>1. ASSUME NEW s \in Slots, DeleteChecked(s)
        PROVE  CalendarSafe'
    BY <1>1, KeepCalendar
    DEF DeleteChecked, history, Unmoved, ACTIVE, BOOKED, ONGOING
  <1>2. ASSUME UNCHANGED <<booking, moved>>
        PROVE  CalendarSafe'
    BY <1>2, KeepCalendar DEF Unmoved
  <1>3. QED
    BY <1>1, <1>2 DEF Availability, AddAvailability, CheckDeletable, DeleteFails, history

\* assertTaskerTimeFree, for the listed and for the custom path.
LEMMA CreationCalendar ==
  ASSUME TypeOK, CalendarSafe, Creation
  PROVE  CalendarSafe'
  <1>1. PICK b \in Bookings :
          /\ moved' = moved
          /\ \A c \in Bookings \ {b} : booking'[c] = booking[c]
          /\ TaskerTimeFree(booking'[b].tasker, booking'[b].time)
    BY DEF Creation, BookListed, BookCustom, NewBooking, TypeOK
  <1>2. ASSUME NEW c \in Bookings, NEW d \in Bookings \ {c},
               Unmoved(c)', Unmoved(d)',
               booking'[c].tasker = booking'[d].tasker
        PROVE  ~Overlap(booking'[c].time, booking'[d].time)
    <2>1. CASE c # b /\ d # b
      BY <1>1, <1>2, <2>1 DEF CalendarSafe, Unmoved
    <2>2. CASE d = b
      BY <1>1, <1>2, <2>2 DEF TaskerTimeFree, Unmoved
    <2>3. CASE c = b
      <3>1. ~Overlap(booking'[d].time, booking'[c].time)
        BY <1>1, <1>2, <2>3 DEF TaskerTimeFree, Unmoved
      <3>2. QED
        BY <3>1 DEF Overlap
    <2>4. QED
      BY <2>1, <2>2, <2>3
  <1>3. QED
    BY <1>2 DEF CalendarSafe, Unmoved

LEMMA RelocationCalendar ==
  ASSUME TypeOK, CalendarSafe, Relocation
  PROVE  CalendarSafe'
  <1>1. ASSUME NEW b \in Bookings, moved' = moved \union {b},
               \A c \in Bookings \ {b} : booking'[c] = booking[c]
        PROVE  CalendarSafe'
    BY <1>1, KeepCalendar DEF Unmoved
  <1>2. ASSUME UNCHANGED <<booking, moved>>
        PROVE  CalendarSafe'
    BY <1>2, KeepCalendar DEF Unmoved
  <1>3. ASSUME NEW b \in Bookings, NEW s \in Slots, MoveTo(b, s)
        PROVE  CalendarSafe'
    BY <1>1, <1>3 DEF MoveTo, TypeOK
  <1>4. ASSUME NEW b \in Bookings, NEW t \in Taskers, Reassign(b, t)
        PROVE  CalendarSafe'
    BY <1>1, <1>4 DEF Reassign, TypeOK
  <1>5. QED
    BY <1>2, <1>3, <1>4 DEF Relocation, Reschedule, AcceptRescheduleProposal,
       CreateRescheduleProposal, RejectRescheduleProposal, history

LEMMA VisitCalendar ==
  ASSUME TypeOK, CalendarSafe, Visit
  PROVE  CalendarSafe'
  <1>1. ASSUME NEW b \in Bookings, Confirm(b)
        PROVE  CalendarSafe'
    <2>1. booking[b] \in Booking /\ booking[b].status \in ACTIVE
      BY <1>1, LiveRows DEF Confirm, Statuses, ACTIVE, BOOKED
    <2>2. /\ booking'[b].tasker = booking[b].tasker
          /\ booking'[b].time = booking[b].time
      BY <1>1, <2>1 DEF Confirm, TypeOK, Booking
    <2>3. moved' = moved /\ \A c \in Bookings \ {b} : booking'[c] = booking[c]
      BY <1>1 DEF Confirm, TypeOK, history
    <2>4. QED
      BY <2>1, <2>2, <2>3, StepCalendar
  <1>2. ASSUME NEW b \in Bookings, CompletePayment(b)
        PROVE  CalendarSafe'
    <2>1. booking[b] \in Booking /\ booking[b].status \in ACTIVE
      BY <1>2, LiveRows DEF CompletePayment, Statuses, ACTIVE, BOOKED
    <2>2. /\ booking'[b].tasker = booking[b].tasker
          /\ booking'[b].time = booking[b].time
      BY <1>2, <2>1 DEF CompletePayment, TypeOK, Booking
    <2>3. moved' = moved /\ \A c \in Bookings \ {b} : booking'[c] = booking[c]
      BY <1>2 DEF CompletePayment, TypeOK, history
    <2>4. QED
      BY <2>1, <2>2, <2>3, StepCalendar
  <1>3. ASSUME NEW b \in Bookings, NEW from \in ACTIVE, NEW to, Advance(b, from, to)
        PROVE  CalendarSafe'
    <2>1. booking[b] \in Booking /\ booking[b].status \in ACTIVE
      BY <1>3, LiveRows DEF Advance, Statuses
    <2>2. /\ booking'[b].tasker = booking[b].tasker
          /\ booking'[b].time = booking[b].time
      BY <1>3, <2>1 DEF Advance, TypeOK, Booking
    <2>3. moved' = moved /\ \A c \in Bookings \ {b} : booking'[c] = booking[c]
      BY <1>3 DEF Advance, TypeOK, history
    <2>4. QED
      BY <2>1, <2>2, <2>3, StepCalendar
  <1>4. {"confirmed", "en_route", "arrived", "in_progress"} \subseteq ACTIVE
    BY DEF ACTIVE, BOOKED, ONGOING
  <1>5. QED
    BY <1>1, <1>2, <1>3, <1>4 DEF Visit, StartNavigation, Arrive, StartWork, FinishWork

LEMMA CancellationCalendar ==
  ASSUME TypeOK, CalendarSafe, Cancellation
  PROVE  CalendarSafe'
  <1>1. PICK b \in Bookings : CancelFrom(b, ACTIVE)
    BY CancellationSteps
  <1>2. moved' = moved /\ \A c \in Bookings \ {b} : booking'[c] = booking[c]
    BY <1>1 DEF CancelFrom, TypeOK, history
  <1>3. /\ booking[b].status \in ACTIVE
        /\ booking'[b].tasker = booking[b].tasker
        /\ booking'[b].time = booking[b].time
    <2>1. booking[b] \in Booking
      BY <1>1, LiveRows DEF CancelFrom, Statuses
    <2>2. QED
      BY <1>1, <2>1 DEF CancelFrom, TypeOK, Booking
  <1>4. QED
    BY <1>2, <1>3, StepCalendar

LEMMA NextCalendar ==
  ASSUME TypeOK, CalendarSafe, [Next]_vars
  PROVE  CalendarSafe'
  <1>1. ASSUME UNCHANGED <<booking, moved>>
        PROVE  CalendarSafe'
    BY <1>1, KeepCalendar DEF Unmoved
  <1>2. QED
    BY <1>1, AvailabilityCalendar, CreationCalendar, RelocationCalendar,
       VisitCalendar, CancellationCalendar
    DEF Next, vars, Tick, history

\* Bookings that were never moved never overlap at one Tasker.
THEOREM CalendarsSafe == Spec => []CalendarSafe
  BY InitCalendar, NextCalendar, TypeCorrect, PTL DEF Spec
=============================================================================
