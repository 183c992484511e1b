SPECIFICATION Spec
CONSTANTS
  Calls = {c1, c2}
  Sources = {"stripe", "cash"}
  InitialSources = {"stripe"}
  Cards = {visa}
  Amounts = {1}
  Funds = 1
  MaxIntents = 2
SYMMETRY Symmetry
VIEW View
INVARIANTS OneIntent
PROPERTY NoRevival
CHECK_DEADLOCK FALSE
