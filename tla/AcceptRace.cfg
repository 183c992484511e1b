SPECIFICATION Spec
CONSTANTS
  Calls = {c1, c2}
  Sources = {"stripe", "wallet"}
  InitialSources = {"unset"}
  Cards = {visa, amex}
  Amounts = {1, 2}
  Funds = 1
  MaxIntents = 1
SYMMETRY Symmetry
VIEW View
INVARIANTS CaptureBacked RefundedOneWay RefundsCovered
CHECK_DEADLOCK FALSE
