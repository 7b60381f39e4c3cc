------------------------------ MODULE OneShot ------------------------------
(***************************************************************************)
(* What the isolated claim gate promises, without its bridge: a prepared   *)
(* dispatch is taken by at most one run of the gate, a run lets its tool   *)
(* call through only if it took a dispatch, and a verdict is final.        *)
(***************************************************************************)
CONSTANTS Runs,     \* invocations of the gate
          Keys      \* prepared dispatches

VARIABLES takers,   \* the runs that took each dispatch
          outcome   \* what the gate said in each run

vars == <<takers, outcome>>

Init ==
  /\ takers = [k \in Keys |-> {}]
  /\ outcome = [r \in Runs |-> "none"]

Take(r, k) ==
  /\ takers[k] = {}
  /\ takers' = [takers EXCEPT ![k] = {r}]
  /\ UNCHANGED outcome

(* A run that took a dispatch lets its call through.                       *)
Pass(r) ==
  /\ outcome[r] = "none"
  /\ \E k \in Keys : r \in takers[k]
  /\ outcome' = [outcome EXCEPT ![r] = "through"]
  /\ UNCHANGED takers

(* Calls are denied, were none of the gate's business, or are lost with    *)
(* the host, which may lose several at once.                               *)
Close(lost) ==
  /\ \A r \in lost : outcome[r] = "none"
  /\ outcome' = [r \in Runs |-> IF r \in lost THEN "closed" ELSE outcome[r]]
  /\ UNCHANGED takers

Next ==
  \/ \E r \in Runs : Pass(r)
  \/ \E r \in Runs, k \in Keys : Take(r, k)
  \/ \E lost \in SUBSET Runs : Close(lost)

Spec == Init /\ [][Next]_vars
=============================================================================
