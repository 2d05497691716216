SPECIFICATION Spec
CONSTANTS
  Senders = {s1, s2}
  Creators = {c1, c2}
  Taps = {t1, t2}
  PaidBy = "BANK"
  Disputable = TRUE
  PromptSenders = FALSE
  MaxAttempts = 2
  MaxCrashes = 1
  MaxFailures = 1
SYMMETRY Alike
INVARIANTS
  TypeOK
  HandedOverOnce
  CompletionIsEarned
  AttemptIsAccounted
PROPERTIES
  KeepsDeliveryContract
CHECK_DEADLOCK FALSE
