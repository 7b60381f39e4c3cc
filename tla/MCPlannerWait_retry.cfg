\* A request that is repeated after anything went wrong with it.
SPECIFICATION LiveSpec
CONSTANTS
  c1 = c1  c2 = c2  c3 = c3  s1 = s1  s2 = s2  t1 = t1  t2 = t2
  r1 = r1  p1 = p1  w1 = w1  w2 = w2
  Call = {c1, c2}
  Session = {s1}
  Task = {t1, t2}
  Run = {r1, r2}
  Pull = {p1}
  Terms = {w1, w2}
  NoSession = NoSession  NoRun = NoRun  NoWait = NoWait  NoCall = NoCall
  Request <- SameRequests
  RetryOf <- OneRetry
  Resumer = {q1, q2}
  Event = {e1, e2}
  Faults = {"crash", "timeout", "flood", "spawn", "lock", "lookup"}
  Faulty = {c1}
  Changes = {"detach"}
  MaxChanges = 1
CHECK_DEADLOCK FALSE
INVARIANT RetrySucceeds
PROPERTIES WaitKept CallsAnswered ChildrenEnd
