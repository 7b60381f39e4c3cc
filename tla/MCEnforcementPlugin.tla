------------------------ MODULE MCEnforcementPlugin ------------------------
(* Two children and a root session.                                          *)
EXTENDS EnforcementPlugin, TLC

CONSTANTS s1, s2, root

Symmetry == Permutations(Instances) \cup Permutations(Children)
=============================================================================
