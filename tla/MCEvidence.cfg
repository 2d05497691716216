SPECIFICATION EvidenceSpec
CONSTANTS
  tr1 = tr1
  tr2 = tr2
  tr3 = tr3
  key = key
  tg1 = tg1
  tg2 = tg2
  sp1 = sp1
  worker1 = worker1
  BankTransfers = {tr1, tr2, tr3}
  KeyOf <- OneKey
  NoKey = NoKey
  StampOf <- Skewed
  Window = 120
  BankRuns = {r1, r2}
  NoRow = NoRow
  Listed = {1, 2}
  Reconcilers = {r1, r2}
  Overlap = 1
  PublishDelay = 1
  PerPage = 1
  MaxClock = 2
  MaxGeneration = 3
  Updates = {u1}
  Payments = {e1}
  TelegramRuns = {tg1, tg2}
  SepayRuns = {sp1}
  OwnerOfRun <- OneWorker
  InboxAttempts = 2
  MaxClaims = 3
  SheetIds = {tg1, tg2}
  SheetPasses = {r1, r2}
  Bodies <- SomeBodies
  MaxEdits = 1
  MaxTarget = 4
  NoSheetId = NoSheetId
  NoEvent = NoEvent
  NoOwner = NoOwner
SYMMETRY Alike
INVARIANTS
  NothingSlipsBetweenWindows
  IdentityWithinWindow
PROPERTIES
  ClaimsKeepEvidence
  RequestsActOnce
CHECK_DEADLOCK FALSE
