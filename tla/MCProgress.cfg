SPECIFICATION ProgressSpec
CONSTANTS
  OutboxRows = {e1}
  UnknownTypes = {}
  Workers = {w1, w2}
  Drains = {d1, d2}
  OwnerOf <- OneDrainEach
  Requests = {r1}
  Codes = {k1}
  MaxAttempts = 2
  BatchSize = 1
  MaxSetbacks = 1
  Orders = {o1, o2}
  Customers = {c1, c2}
  CustomerOf <- TwoCustomers
  Kind <- OneDeferred
  WithPromo = {}
  Assets = {u1}
  Units = 0
  Transfers = {t1}
  MaxTotalUses = 0
  MaxUsesPerCustomer = 0
  WalletBalance <- OneDebitEach
  Senders = {s1, s2}
  Creators = {h1}
  Taps = {}
  PaidBy = "BANK"
  Disputable = FALSE
  PromptSenders = TRUE
  MaxCrashes = 1
  Unlimited = Unlimited
  MaxFailures = 0
  Runs = {r1, r2}
  d1 = d1
  d2 = d2
  w1 = w1
  w2 = w2
  o1 = o1
  o2 = o2
  c1 = c1
  c2 = c2
PROPERTIES
  EventsSettle
  CheckoutsEnd
  HandoffsEnd
  PaidOrdersStart
CHECK_DEADLOCK FALSE
