--------------------------- MODULE MCMcpTransport ---------------------------
(* Calls of one circuit, enforced and watched, and of a second circuit that *)
(* takes the place of the first.                                            *)
EXTENDS McpTransport, TLC

CONSTANTS a1, a2, a3, a4, a5, s1, b1, u1, k1, k2

Alike == {a1, a2, a3, a4, a5} \cap Call

MCCircuitOf == [c \in Call |-> IF c \in {b1, u1} THEN k2 ELSE k1]

MCShortBudget == [c \in Call |-> 1]

MCLongBudget == [c \in Call |-> 4]

MCSymmetry == Permutations(Alike)
=============================================================================
