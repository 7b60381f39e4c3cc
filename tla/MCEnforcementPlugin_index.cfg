\* Two instances, three sessions in an index of two, one context.
SPECIFICATION Spec
CONSTANTS
  s1 = s1
  s2 = s2
  root = root
  Instances = {i1, i2}
  Sessions = {s1, s2, root}
  Children = {s1, s2}
  Contexts = {c}
  Agents = {"planner", "other", "none"}
  IndexCap = 2
  LogCap = 1
SYMMETRY Symmetry
INVARIANTS TypeOK OneMandate CleanAfterwards RowsOnce
PROPERTY ChildStaysWorker
CHECK_DEADLOCK FALSE
