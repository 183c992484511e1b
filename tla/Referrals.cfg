SPECIFICATION Spec
CONSTANTS
  Bookings = {b1, b2}
  Disturbed = {b1}
  Sources <- MCSources
  Programs = {"customer"}
  Captured = 3
  Bills = {2, 4}
  Discounts = {1}
  Refunds = {2}
  Minimum = 2
  Bonus <- MCBonus
  Clearances = {TRUE, FALSE}
VIEW View
INVARIANTS OneDiscount RevokedKeepsNothing BonusIsEarned
CHECK_DEADLOCK FALSE
