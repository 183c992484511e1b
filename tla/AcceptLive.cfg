SPECIFICATION FairSpec
CONSTANTS
  Calls = {c1}
  Sources = {"stripe", "wallet"}
  InitialSources = {"stripe"}
  Cards = {visa}
  Amounts = {1}
  Funds = 1
  MaxIntents = 2
PROPERTIES PaymentWaitEnds CapturedMoneyReturned LateMoneyReturned
CHECK_DEADLOCK FALSE
