----------------------------- MODULE BindingOps -----------------------------
(***************************************************************************)
(* The session bindings a task record carries: for every run of the task   *)
(* the root session and the worker sessions that were bound to it and      *)
(* whether the run is attached, and for the whole task the session that    *)
(* executes at the moment.                                                 *)
(*                                                                         *)
(* Invoke-OrchestrationTaskSessionBinding answers a request from the       *)
(* bindings it reads under the record's lock.  Each operation is an        *)
(* operator that gives the answer, and one that gives the bindings it      *)
(* writes when the answer is "ok"; every other answer writes nothing.      *)
(***************************************************************************)
CONSTANTS Run,         \* run identifiers of a task
          Session,     \* session identifiers of the runtime
          NoSession    \* the empty string where a session may stand

ASSUME BindingAssumption == NoSession \notin Session

Status == {"absent", "attached", "detached"}

Entry == [root    : Session \cup {NoSession},
          workers : SUBSET Session,
          status  : Status]

Bindings == [runs : [Run -> Entry], active : Session \cup {NoSession}]

AbsentEntry == [root |-> NoSession, workers |-> {}, status |-> "absent"]

NoBindings == [runs |-> [r \in Run |-> AbsentEntry], active |-> NoSession]

KnownRuns(b) == {r \in Run : b.runs[r].status # "absent"}

Member(e, s) == s = e.root \/ s \in e.workers

\* Fault: the workers of the other runs are not looked at.
ClaimedElsewhereRootsOnly(b, r, s, asWorker) ==
  \E o \in Run \ {r} : asWorker /\ s = b.runs[o].root

(***************************************************************************)
(* A worker session belongs to one run, and the worker of one run is never *)
(* the root of another.  A root may continue as the root of a later run.   *)
(***************************************************************************)
ClaimedElsewhere(b, r, s, asWorker) ==
  \E o \in Run \ {r} : \/ s \in b.runs[o].workers
                       \/ asWorker /\ s = b.runs[o].root

\* Fault: the session that executes is not looked at.
OwnedByAnotherNever(b, s) == FALSE

OwnedByAnother(b, s) == b.active \notin {NoSession, s}

-----------------------------------------------------------------------------
BindAnswer(b, r, s) ==
  IF ClaimedElsewhere(b, r, s, FALSE) THEN "conflict"
  ELSE IF s = b.runs[r].root THEN "idempotent"
  ELSE IF OwnedByAnother(b, s) THEN "conflict"
  ELSE "ok"

\* Fault: the first root of a run stays.
BoundKeepingRoot(b, r, s) ==
  [b EXCEPT !.runs[r].root = IF @ = NoSession THEN s ELSE @,
            !.runs[r].status = "attached", !.active = s]

Bound(b, r, s) ==
  [b EXCEPT !.runs[r].root = s, !.runs[r].status = "attached", !.active = s]

WorkerAnswer(b, r, s) ==
  IF ClaimedElsewhere(b, r, s, TRUE) THEN "conflict"
  ELSE IF s \in b.runs[r].workers THEN "idempotent"
  ELSE IF OwnedByAnother(b, s) THEN "conflict"
  ELSE "ok"

WorkerBound(b, r, s) ==
  [b EXCEPT !.runs[r].workers = @ \cup {s}, !.runs[r].status = "attached",
            !.active = s]

(* A rebind asks only whether the run is detached: it does not look at the  *)
(* session that is active for the task.                                     *)
RebindAnswer(b, r, s) ==
  IF ClaimedElsewhere(b, r, s, FALSE) THEN "conflict"
  ELSE IF b.runs[r].status = "absent" THEN "mismatch"
  ELSE IF s = b.runs[r].root /\ b.runs[r].status = "attached" THEN "idempotent"
  ELSE IF b.runs[r].status # "detached" THEN "conflict"
  ELSE "ok"

Rebound(b, r, s) == Bound(b, r, s)

DetachAnswer(b, r, s) ==
  LET e == b.runs[r] IN
  IF e.status = "absent" THEN "not_found"
  ELSE IF e.status = "detached"
       THEN IF Member(e, s) THEN "idempotent" ELSE "conflict"
  ELSE IF ~Member(e, s) THEN "not_found"
  ELSE "ok"

(* Detaching a run clears the active session only if it is the one that     *)
(* detaches.                                                                *)
Detached(b, r, s) ==
  [b EXCEPT !.runs[r].status = "detached",
            !.active = IF @ = s THEN NoSession ELSE @]
=============================================================================
