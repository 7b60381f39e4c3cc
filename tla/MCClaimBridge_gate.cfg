\* Two runs for two calls, two dispatches.
SPECIFICATION LiveSpec
CONSTANTS
  r1 = r1
  r2 = r2
  c1 = c1
  c2 = c2
  k1 = k1
  k2 = k2
  None = None
  Runs = {r1, r2}
  Keys = {k1, k2}
  CallIds = {c1, c2}
  CallOf <- MCCallOf
  Suits <- MCSuits
INVARIANTS TypeOK ClaimKept
PROPERTIES BoundEffect RunsEnd OneShotKept
CHECK_DEADLOCK FALSE
