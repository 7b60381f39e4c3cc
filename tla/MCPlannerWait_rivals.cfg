\* Rival planners while the goal and the task move, nobody detaches.
SPECIFICATION Spec
CONSTANTS
  c1 = c1  c2 = c2  c3 = c3  s1 = s1  s2 = s2  t1 = t1  t2 = t2
  r1 = r1  p1 = p1  w1 = w1  w2 = w2
  Call = {c1, c2, c3}
  Session = {s1, s2}
  Task = {t1}
  Run = {r1, r2}
  Pull = {p1}
  Terms = {w1, w2}
  NoSession = NoSession  NoRun = NoRun  NoWait = NoWait  NoCall = NoCall
  Request <- RivalRequests
  RetryOf <- NoRetries
  Resumer = {}
  Event = {e1}
  Faults = {"stdin"}
  Faulty = {c3}
  Changes = {"takeover", "lapse", "renew", "touch", "end", "drop", "finish"}
  MaxChanges = 2
CHECK_DEADLOCK FALSE
INVARIANTS TypeOK OkIsRegistered OkIsBound
