SPECIFICATION Spec
CONSTANTS
  auto = auto
  fine = fine
  p1 = p1
  p2 = p2
  f1 = f1
  s1 = s1
  None = None
  NoUrl = NoUrl
  Jobs <- JobIds
  Presets = {auto, fine}
  FirstPreset = auto
  MaxFiles = 2
  MaxImages = 3
  MaxQueues = 3
  MaxSelections = 2
  MaxSelected = 3
  MaxChosen = 4
  MaxParallel = 2
  Options <- CompressOptions
  Sizes = {1, 2, 3}
  Target = 2
  Paths = {p1, p2}
  Local = {f1}
  Slots = {s1}
  MaxShown = 2
  MaxCached = 1
  MaxRequests = 3
  m1 = m1
  m2 = m2
  MaxDocRequests = 3
  MaxOpenings = 2
  NoFile = NoFile
  Planned <- FirstTwo
  MaxTries = 3
  SheetRooms <- FirstTwo
  Prices = {1, 2}
  NotThere = NotThere
  MaxSheetCalls = 4
  HouseLists <- FirstTwo
  NoHouses = NoHouses
  MaxLoads = 4
  NavHouses <- FirstTwo
  NoHouse = NoHouse
  Tabs = {"dashboard", "house_rooms", "revenue"}
  MaxReloads = 2
  BrowserTabs = {m1}
  MaxIssued = 4
  MaxOpens = 2
  MaxLost = 1
  MaxSaves = 3
  Looks = {1, 2}
  MaxUpdates = 2
  Bills <- FirstTwo
  MaxPictures = 2
  MaxVisits = 2
INVARIANTS HousePapersKept
CHECK_DEADLOCK FALSE
