SPECIFICATION Spec
CONSTANTS
  None = None
  i1 = i1
  i2 = i2
  sp1 = sp1
  sp2 = sp2
  sp3 = sp3
  sp4 = sp4
  sp5 = sp5
  po1 = po1
  t1 = t1
  t2 = t2
  w1 = w1
  w2 = w2
  e1 = e1
  e2 = e2
  g1 = g1
  g2 = g2
  c1 = c1
  SlotOf <- SameSlot
  ProviderOf <- Prefixes
  CodeOf <- Codes
  Invoices = {i1, i2}
  Refs = {sp1, po1}
  Transfers = {}
  Amounts = {1, 2}
  HasFallbackPayOS = FALSE
  MaxFaults = 0
  Workers = {}
  Editors = {e1, e2}
  Issuers = {}
  Configurers = {}
  MaxAttempts = 1
  MaxAccounts = 1
INVARIANTS OneInvoicePerSlot ActiveLinkMatchesTotal
SYMMETRY Symmetry
CHECK_DEADLOCK FALSE
