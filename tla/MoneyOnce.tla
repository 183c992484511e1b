----------------------------- MODULE MoneyOnce -----------------------------
(***************************************************************************)
(* What settling one booking promises, however it is paid and however      *)
(* often its settlement is tried: money is taken at most once from the     *)
(* wallet and at most once from the card, the Tasker is credited at most   *)
(* once, and what is credited and returned was taken before.               *)
(***************************************************************************)
EXTENDS Integers

VARIABLES
  prepaid,   \* taken at acceptance, before the settlement begins
  debited,   \* taken from the customer's wallet by the settlement
  charged,   \* taken from the customer's card by the settlement
  credited,  \* gross amount of the Tasker's earning, 0 before there is one
  returned   \* given back to the customer, or promised to be

vars == <<prepaid, debited, charged, credited, returned>>

Taken == prepaid + debited + charged

Init ==
  /\ prepaid \in Nat
  /\ debited = 0 /\ charged = 0 /\ credited = 0 /\ returned = 0

\* One rail at a time, and each only once.
TakeFromWallet == debited = 0 /\ debited' \in Nat \ {0} /\ UNCHANGED charged
TakeFromCard == charged = 0 /\ charged' \in Nat \ {0} /\ UNCHANGED debited
TakeNothing == UNCHANGED <<debited, charged>>

Take ==
  /\ TakeFromWallet \/ TakeFromCard
  /\ UNCHANGED <<prepaid, credited, returned>>

\* The earning, with what was prepaid and not used, from money that is there.
Credit ==
  /\ credited = 0
  /\ TakeFromWallet \/ TakeNothing
  /\ credited' \in Nat \ {0}
  /\ returned' \in Nat
  /\ returned = 0 \/ returned' = returned
  /\ credited' + returned' <= Taken'
  /\ UNCHANGED prepaid

\* An excess found later leaves the earning for the customer.
Return ==
  /\ returned = 0
  /\ returned' \in 1 .. credited
  /\ credited' = credited - returned'
  /\ UNCHANGED <<prepaid, debited, charged>>

Next == Take \/ Credit \/ Return

Spec == Init /\ [][Next]_vars
=============================================================================
