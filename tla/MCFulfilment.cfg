SPECIFICATION Spec
CONSTANTS
  Orders = {o1, o2}
  Assets = {u1, u2}
  Runs = {r1, r2}
  MaxBundles = 2
  MaxCrashes = Unlimited
  Unlimited = Unlimited
SYMMETRY Alike
INVARIANTS
  TypeOK
  SoldOnce
  OpenBundlesAreBacked
  CompletedIsDelivered
PROPERTIES
  BundlesKeepContract
CHECK_DEADLOCK FALSE
