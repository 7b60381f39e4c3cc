\* Two processes, three sessions and two runs: a root of each run and a worker.
SPECIFICATION BindingSpec
CONSTANTS
  Process = {p1, p2}
  Run = {r1, r2}
  Session = {s1, s2, s3}
  NoSession = NoSession
  MaxRevision = 7
SYMMETRY Symmetry
INVARIANTS OneRunPerWorker ActiveIsMember
PROPERTY OwnerGivesWay
