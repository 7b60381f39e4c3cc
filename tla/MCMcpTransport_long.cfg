\* Long-running calls under contracts that outlast a cooldown.
SPECIFICATION Spec
CONSTANTS
  a1 = a1  a2 = a2  a3 = a3  a4 = a4  a5 = a5
  s1 = s1  b1 = b1  u1 = u1  k1 = k1  k2 = k2
  Call = {a1, a2, a3, a4, a5}
  Circuit = {k1}
  CircuitOf <- MCCircuitOf
  Budget <- MCLongBudget
  Shadow = {}
  Uncontracted = {}
  Threshold = 2
  Cooldown = 2
  Capacity = 1
  MaxTime = 5
  NoEntry = NoEntry
SYMMETRY MCSymmetry
CHECK_DEADLOCK FALSE
INVARIANTS OneProbeAlways
