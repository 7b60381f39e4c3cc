--------------------------- MODULE MCAdmissionGate ---------------------------
(* Two dispatches of one task under two goals.                               *)
EXTENDS AdmissionGate, TLC

CONSTANTS k1, k2, g1, g2, t

MCTaskOf == (k1 :> t) @@ (k2 :> t)
MCGoalOf == (k1 :> g1) @@ (k2 :> g2)
Symmetry == Permutations(Procs) \cup Permutations(Calls)
=============================================================================
