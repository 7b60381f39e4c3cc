--------------------------- MODULE AdmissionGate ---------------------------
(***************************************************************************)
(* The permission gate of the dispatch-admission plugin next to the        *)
(* handoff.  An evaluation of a `subagent' call reads the admission file   *)
(* of the environment, then the receipt file if one is configured, and     *)
(* decides on what it read; claims and settlements go on in between.       *)
(***************************************************************************)
EXTENDS DispatchHandoff

CONSTANTS Evals,       \* evaluations
          File, Paper  \* the dispatches whose admission and receipt the environment names

ASSUME GateAssumption == File \in Keys /\ Paper \in Keys \cup {None}

VARIABLE eval          \* where an evaluation is, and what it has read

gateVars == <<vars, eval>>

(* late says the dispatch was settled when the evaluation began.           *)
Evaluations ==
  [at : {"new", "admitted", "checked", "allow", "deny"}, read : Admissions,
   call : Calls \cup {None}, late : BOOLEAN]

NoEval == [at |-> "new", read |-> None, call |-> None, late |-> FALSE]
Denied == [NoEval EXCEPT !.at = "deny"]

GateTypeOK == TypeOK /\ eval \in [Evals -> Evaluations]

GateInit == Init /\ eval = [e \in Evals |-> NoEval]

(* A missing, malformed or oversized admission file denies.                *)
ReadAdmission(e) ==
  /\ eval[e].at = "new"
  /\ eval' = [eval EXCEPT ![e] =
       IF admission[File] = None THEN Denied
       ELSE [NoEval EXCEPT !.at = "admitted", !.read = admission[File],
                           !.late = receipt[File].phase = "settled"]]
  /\ UNCHANGED vars

\* Fault: a settled receipt is taken for a claimed one.
ReceiptConsumed == receipt[Paper].phase \in {"claimed", "settled"} /\ Paper = File

(* The receipt must be claimed, and that of the dispatch of the admission. *)
ReceiptClaimed == receipt[Paper].phase = "claimed" /\ Paper = File

ReadReceipt(e) ==
  /\ eval[e].at = "admitted"
  /\ eval' = [eval EXCEPT ![e] =
                IF Paper = None \/ ReceiptClaimed
                THEN [eval[e] EXCEPT !.at = "checked"] ELSE Denied]
  /\ UNCHANGED vars

(* The recorded state of the goal and the identity of the call; a record   *)
(* out of date, of another owner, generation or agent is denied as well.   *)
Admitted(e, c) == eval[e].read.active /\ eval[e].read.call = c

(* c is the call that is evaluated.                                        *)
Decide(e, c) ==
  /\ eval[e].at = "checked"
  /\ \/ /\ Admitted(e, c)
        /\ eval' = [eval EXCEPT ![e] = [@ EXCEPT !.at = "allow", !.read = None, !.call = c]]
     \/ eval' = [eval EXCEPT ![e] = Denied]
  /\ UNCHANGED vars

GateStep(e) == ReadAdmission(e) \/ ReadReceipt(e) \/ \E c \in Calls : Decide(e, c)

GateNext ==
  \/ Next /\ UNCHANGED eval
  \/ \E e \in Evals : GateStep(e)

GateSpec == GateInit /\ [][GateNext]_gateVars

(* A call is allowed only if it is the call that claimed the dispatch; and *)
(* with a receipt configured, an evaluation that began after the dispatch  *)
(* was settled is never allowed, even if its admission file survived.      *)
NoReplay ==
  \A e \in Evals : eval[e].at = "allow" =>
     /\ receipt[File].phase \in {"claimed", "settled"}
     /\ receipt[File].call = eval[e].call
     /\ Paper # None => ~eval[e].late
=============================================================================
