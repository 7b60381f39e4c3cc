\* Short calls and a watched one on the first circuit, one call and one
\* without a contract on the second, and room for one circuit.
SPECIFICATION Spec
CONSTANTS
  a1 = a1  a2 = a2  a3 = a3  a4 = a4  a5 = a5
  s1 = s1  b1 = b1  u1 = u1  k1 = k1  k2 = k2
  Call = {a1, a2, a3, s1, b1, u1}
  Circuit = {k1, k2}
  CircuitOf <- MCCircuitOf
  Budget <- MCShortBudget
  Shadow = {s1}
  Uncontracted = {u1}
  Threshold = 2
  Cooldown = 2
  Capacity = 1
  MaxTime = 2
  NoEntry = NoEntry
SYMMETRY MCSymmetry
CHECK_DEADLOCK FALSE
INVARIANTS TypeOK OneProbe ReservationHeld RefusalsEarned
PROPERTIES LeftAlone
