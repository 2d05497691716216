SPECIFICATION CounterSpec
CONSTANTS
  c1 = c1
  c2 = c2
  o1 = o1
  o2 = o2
  o3 = o3
  Orders = {o1, o2, o3}
  Customers = {c1, c2}
  CustomerOf <- FirstTwice
  Kind <- LastCounted
  WithPromo = {o1, o2, o3}
  Assets = {a1}
  Units = 1
  Transfers = {t1, t2}
  MaxTotalUses = 2
  MaxUsesPerCustomer = 1
  WalletBalance <- OneEach
  Presses = {j1, j2}
  Confirmations = {1, 2}
  Grants = {1, 2}
  Wanted = {"OPEN", "CLOSED"}
  OtpSteps = {0, 1}
  LastFactor = 2
  LastStoreVersion = 3
  MaxAsked = 1
  NoConfirmation = 0
  NoGrant = 0
  FileRuns = {j1, j2}
  Importers = {j1, j2}
  MaxVersions = 3
  MaxSessions = 2
  MaxMishaps = 2
  ServiceOrders = {o1, o2}
  Counted = {o1}
  TaskRuns = {j1, j2}
  TaskPresses = {j1, j2}
  StockPresses = {j1, j2}
  Deltas <- OneOff
  FirstStock = 2
  MaxStockVersion = 4
  NoService = NoService
SYMMETRY Alike
INVARIANTS
  TypeOK
  PaidExactlyOnce
  LiveIntentOnlyWhileUnpaid
  HoldsServeLiveOrders
  FrozenForRecordedEvidence
  CountsAreKept
  OwnerActsAsConfirmed
  ServedOnceFromStock
PROPERTIES
  ImplementsLifecycle
  FileIsWhatWasConfirmed
CHECK_DEADLOCK FALSE
