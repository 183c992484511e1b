SPECIFICATION Spec
CONSTANTS
  Calls = {c1}
  Sources = {"stripe", "wallet", "cash"}
  Cards = {visa}
  Captures = {0, 2, 3}
  Costs = {1}
  Fee = 1
  Tips = {0, 3}
  Funds = 3
INVARIANTS PaidSettled CreditBacked
PROPERTIES MoneyMovesOnce ChargeEventsSettle UnusedReturned
CHECK_DEADLOCK FALSE
