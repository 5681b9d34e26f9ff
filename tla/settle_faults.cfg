SPECIFICATION SettlementSafeSpec
CONSTANTS
  None = None
  i1 = i1
  sp1 = sp1
  po1 = po1
  t1 = t1
  t2 = t2
  w1 = w1
  w2 = w2
  Invoices = {i1}
  SlotOf <- OneSlot
  Refs = {sp1}
  ProviderOf <- SePayOnly
  Transfers = {t1, t2}
  Amounts = {1, 2}
  HasFallbackPayOS = FALSE
  MaxFaults = 1
  Workers = {w1, w2}
INVARIANTS SettlementAloneTypeOK NotifiedOncePerReference SettledOncePerWorker OnlyFaultsLosePayments SecondSourceRecovers
PROPERTIES RefinesLedger
SYMMETRY Symmetry
CHECK_DEADLOCK FALSE
