SPECIFICATION SafeSpec
CONSTANTS
  None = None
  h1 = h1
  c1 = c1
  c2 = c2
  Houses = {h1}
  LastPeriod = 2
  Prices = {1}
  Incomes <- FirstMonthEarned
  Clerks = {c1, c2}
  MaxPending = 1
  MaxFaults = 1
  Capacity = 1
SYMMETRY ClerkSymmetry
INVARIANTS TypeOK NoSilentStaleness
PROPERTIES CostRecordKept
CHECK_DEADLOCK FALSE
