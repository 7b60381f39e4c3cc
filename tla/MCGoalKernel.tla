---------------------------- MODULE MCGoalKernel ----------------------------
(* Instances of GoalKernel for TLC. *)
EXTENDS GoalKernel, TLC

CONSTANTS p1, p2, alice, ALICE, bob, t1, t2

\* alice has a second spelling, which the store holds apart from the first.
MCCanon == [o \in Owners |-> IF o = ALICE THEN alice ELSE o]

\* Processes, and the two spellings: canonical spellings are only compared.
MCSymmetry == Permutations({p1, p2}) \cup Permutations({alice, ALICE} \cap Owners)
=============================================================================
