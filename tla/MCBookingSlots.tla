---------------------------- MODULE MCBookingSlots --------------------------
(* BookingSlots on small instances. *)
EXTENDS BookingSlots, TLC

\* Ranges of which two overlap and the third is apart, and two
\* apart; all lie after the clock's start.
ThreeTimes == {[from |-> 2, to |-> 4], [from |-> 3, to |-> 5], [from |-> 5, to |-> 7]}
TwoTimes == {[from |-> 3, to |-> 5], [from |-> 5, to |-> 7]}

\* The identities are interchangeable in every safety property.
Symmetry == Permutations(Bookings) \union Permutations(Slots)
              \union Permutations(Taskers)
=============================================================================
