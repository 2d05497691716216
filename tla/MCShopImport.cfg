SPECIFICATION ShopSpec
CONSTANTS
  c1 = c1
  o1 = o1
  p1 = p1
  p2 = p2
  Customers = {c1}
  TopupIntents = {i1, i2}
  Transfers = {t1, t2}
  WalletOrders = {o1}
  WalletTxns = {x1, x2}
  Requests = {k1, k2}
  Amounts = {1, 2}
  BuyerOf <- BuyerIsC1
  PriceOf <- OneDong
  NoIntent = NoIntent
  NoTransfer = NoTransfer
  NoCustomer = NoCustomer
  Preorders = {p1, p2}
  Units = {1, 2}
  DepositOf <- Deposits
  BalanceOf <- Balances
  QueueLimit = 2
  NoPreorder = NoPreorder
  NoUnit = NoUnit
  Shopper = Shopper
  Purchases = {s1}
  PurchaseRuns = {x1, x2, r3}
  MaxPosts = 2
  NoPurchase = NoPurchase
  Canaries = {s1}
  CanaryRuns = {x1, x2}
  Costs = {1, 2}
  MaxOrders = 2
  NoCanary = NoCanary
  Notices = {n1}
  NoticeRuns = {x1, x2}
  Contents = {m1, m2}
  NoticeAttempts = 2
  MaxNoticeGen = 4
  NoNotice = NoNotice
  NoContent = NoContent
  Audience = {x1, x2}
  Texts = {w1}
  OwnerRuns = {b1, b2}
  NoText = NoText
  f1 = f1
  f2 = f2
  a1 = a1
  Credentials = {a1}
  Inputs = {f1, f2}
  LinesOf <- Lines
  StockUnits = {v1, v2}
  Importers = {x1, x2}
  MaxHandlers = 3
  Challenges = {y1}
  NoInput = NoInput
  NoCredential = NoCredential
  NoChallenge = NoChallenge
  Claims = {x1, x2}
  Cases = {e1, e2}
  Original = u0
  Spares = {u1, u2}
  NoGood = NoGood
  NoCase = NoCase
SYMMETRY Alike
INVARIANTS
  UnitsHaveTheirSecret
CHECK_DEADLOCK FALSE
