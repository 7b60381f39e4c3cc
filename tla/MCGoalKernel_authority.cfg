SPECIFICATION Spec
CONSTANTS
  p1 = p1
  p2 = p2
  alice = alice
  ALICE = ALICE
  bob = bob
  t1 = t1
  t2 = t2
  Procs = {p1, p2}
  Owners = {alice, ALICE, bob}
  Canon <- MCCanon
  Tasks = {t1}
  Bodies = {"b1"}
  ToStates = {"CANCELLED"}
  Ttls = {1}
  MaxClock = 1
  MaxRevision = 4
  NoProc = NoProc
  NoGoal = NoGoal
  NoOwner = NoOwner
  NoClaim = NoClaim
SYMMETRY MCSymmetry
INVARIANT OneHolder
PROPERTIES HolderWrites RegisterSpec TasksKept
