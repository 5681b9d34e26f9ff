SPECIFICATION SettlementSpec
CONSTANTS
  None = None
  i1 = i1
  sp1 = sp1
  po1 = po1
  t1 = t1
  t2 = t2
  w1 = w1
  w2 = w2
  Invoices = {i1}
  SlotOf <- OneSlot
  Refs = {sp1, po1}
  ProviderOf <- BothProviders
  Transfers = {t1, t2}
  Amounts = {1, 2}
  HasFallbackPayOS = FALSE
  MaxFaults = 0
  Workers = {w1}
PROPERTIES FullPaymentSettles
CHECK_DEADLOCK FALSE
