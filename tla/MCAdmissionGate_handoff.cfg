\* Two processes, two dispatches of one task, two calls, one evaluation.
SPECIFICATION GateSpec
CONSTANTS
  k1 = k1
  k2 = k2
  g1 = g1
  g2 = g2
  t = t
  None = None
  Procs = {p1, p2}
  Keys = {k1, k2}
  Tasks = {t}
  Goals = {g1, g2}
  TaskOf <- MCTaskOf
  GoalOf <- MCGoalOf
  Calls = {c1, c2}
  Turning = {g1}
  MaxRev = 2
  Evals = {e1}
  File = k1
  Paper = k1
SYMMETRY Symmetry
INVARIANTS GateTypeOK TaskExclusive AdmissionBacked ResultOnce NoReplay
CHECK_DEADLOCK FALSE
