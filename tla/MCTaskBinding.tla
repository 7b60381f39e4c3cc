---------------------------- MODULE MCTaskBinding ----------------------------
(* Sessions and runs are interchangeable, and so are the processes.          *)
EXTENDS TaskBinding, TLC

Symmetry == Permutations(Session) \cup Permutations(Run)
              \cup Permutations(Process)
=============================================================================
