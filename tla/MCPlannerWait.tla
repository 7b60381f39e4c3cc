--------------------------- MODULE MCPlannerWait ---------------------------
(* Requests of the instances.  c1 and c2 come first in every one of them.    *)
EXTENDS PlannerWait

CONSTANTS c1, c2, c3, s1, s2, t1, t2, r1, p1, w1, w2

Ask(s, t, r, w) ==
  [session |-> s, task |-> t, run |-> r, pull |-> p1, terms |-> w]

(* Two sessions for one task, and a request of the first with other terms.   *)
RivalRequests ==
  [c \in Call |-> CASE c = c1 -> Ask(s1, t1, r1, w1)
                    [] c = c2 -> Ask(s2, t1, r1, w1)
                    [] c = c3 -> Ask(s1, t1, NoRun, w2)]

(* The same request again and again.                                         *)
SameRequests == [c \in Call |-> Ask(s1, t1, r1, w1)]

NoRetries == [c \in Call |-> NoCall]

OneRetry == [c \in Call |-> IF c = c2 THEN c1 ELSE NoCall]
=============================================================================
