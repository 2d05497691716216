SPECIFICATION Spec
CONSTANTS
  Orders = {o1}
  Assets = {u1, u2}
  Runs = {r1, r2}
  MaxBundles = 2
  MaxCrashes = 1
  Unlimited = Unlimited
INVARIANTS
  OneUnitPerOrder
CHECK_DEADLOCK FALSE
