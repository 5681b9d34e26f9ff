SPECIFICATION Spec
CONSTANTS
  None = None
  h1 = h1
  c1 = c1
  c2 = c2
  Houses = {h1}
  LastPeriod = 2
  Prices = {1}
  Incomes <- FirstMonthEarns
  Clerks = {c1}
  MaxPending = 1
  MaxFaults = 0
  Capacity = 1

PROPERTIES SummaryCatchesUp
CHECK_DEADLOCK FALSE
