\* Durations such that a file is stale for one caller while its lease lives on.
SPECIFICATION FairSpec
CONSTANTS
  t1 = t1
  t2 = t2
  p1 = p1
  p2 = p2
  Tasks = {t1, t2}
  Procs = {p1, p2}
  Scopes <- MCNestedScopes
  Ttls = {1, 3}
  MaxClock = 2
  Corruption <- MCDamage
  NoProc = NoProc
  NoLease = NoLease
INVARIANTS ExclusiveScopes LiveLeaseKept
PROPERTY OperationsEnd
