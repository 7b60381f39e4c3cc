---------------------------- MODULE MCWriteLease ----------------------------
(* Instances of WriteLease for TLC: two tasks, two processes, nested paths. *)
EXTENDS WriteLease

CONSTANTS t1, t2, p1, p2

\* A file below the directory of the other task: they conflict either way.
MCNestedScopes ==
  [t \in Tasks |-> IF t = t1 THEN {{<<"src", "api", "x">>}} ELSE {{<<"src", "api">>}}]

\* The files of the first task suffer whatever they can.
MCDamage == [t \in Tasks |-> IF t = t1 THEN Damage ELSE {}]
=============================================================================
