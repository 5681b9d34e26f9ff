SPECIFICATION Spec
CONSTANTS
  h1 = h1
  h2 = h2
  i1 = i1
  i2 = i2
  m1 = m1
  m2 = m2
  m3 = m3
  Invoices = {i1, i2}
  HouseOf <- InvoiceHouse
  NoInvoice = NoInvoice
  Every = Every
  Filters <- FilterChoices
  MaxCalls = 2
  MaxHurried = 3
  Rooms = {m1, m2}
  Homes <- HomeOrder
  HomeOf <- RoomHouse
  NoHome = NoHome
  Periods = {1, 2}
  Readings = {1, 2}
  Earlier <- Begun
  Patience = {TRUE}
  MaxLoads = 2
  MaxBatches = 2
  Dwellings = {m1, m2, m3}
  Owners = {h1, h2}
  OwnerOf <- DwellingHouse
  Preferred <- FirstRooms
  Unset = Unset
  MaxFetches <- FetchBounds
  Modes = {"orderly", "hasty"}
  StoreHouses = {h1, h2}
  First <- TwoRows
  Values = {1, 2}
  MaxNew = 1
  MaxUnder = 2
  MaxHasty = 3
  StoreKinds = {"house", "room", "tenant"}
  Houses = {h1, h2}
  FirstHouse = h1
  Choices <- HouseChoices
  Months = {1, 2}
  Fields = {"rent"}
  NoCost = NoCost
  NoTarget = NoTarget
  MaxCostCalls = 2
  MaxSteps = 2
INVARIANTS TypeOK ListHolds TicksHold PayloadAgrees StoreHolds CostsHold
PROPERTIES ClosesWhenAllStored
CHECK_DEADLOCK FALSE
