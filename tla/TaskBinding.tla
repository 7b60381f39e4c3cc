---------------------------- MODULE TaskBinding ----------------------------
(***************************************************************************)
(* One task record whose session bindings several processes change.        *)
(*                                                                         *)
(* A process looks at the record, and later asks for an operation with the *)
(* revision it saw.  The operation runs under the record's lock: it reads  *)
(* the record again, refuses when the revision has moved, and otherwise    *)
(* writes the new bindings with the next revision.  What happens between   *)
(* taking and releasing the lock is therefore one step; a process that is  *)
(* refused writes nothing.  Every other operation of the kernel on the     *)
(* same record moves the revision too (Touch).                             *)
(***************************************************************************)
EXTENDS BindingOps, Naturals

CONSTANTS Process,
          MaxRevision    \* bound on the revision a behaviour reaches

ASSUME RevisionAssumption == MaxRevision \in Nat

VARIABLES bindings, revision,
          seen           \* the revision each process looked at, 0 for none

bindingVars == <<bindings, revision, seen>>

BindingTypeOK ==
  /\ bindings \in Bindings
  /\ revision \in Nat
  /\ seen \in [Process -> Nat]

BindingInit ==
  /\ bindings = NoBindings
  /\ revision = 1
  /\ seen = [p \in Process |-> 0]

Look(p) ==
  /\ seen' = [seen EXCEPT ![p] = revision]
  /\ UNCHANGED <<bindings, revision>>

MayWrite(p) == seen[p] = revision /\ revision < MaxRevision

(* The write of a granted operation, and the revision it reports.           *)
WriteBindings(p, b) ==
  /\ MayWrite(p)
  /\ bindings' = b
  /\ revision' = revision + 1
  /\ seen' = [seen EXCEPT ![p] = revision + 1]

Bind(p, r, s) ==
  BindAnswer(bindings, r, s) = "ok" /\ WriteBindings(p, Bound(bindings, r, s))

BindWorker(p, r, s) ==
  /\ WorkerAnswer(bindings, r, s) = "ok"
  /\ WriteBindings(p, WorkerBound(bindings, r, s))

Rebind(p, r, s) ==
  /\ RebindAnswer(bindings, r, s) = "ok"
  /\ WriteBindings(p, Rebound(bindings, r, s))

Detach(p, r, s) ==
  /\ DetachAnswer(bindings, r, s) = "ok"
  /\ WriteBindings(p, Detached(bindings, r, s))

Touch ==
  /\ revision < MaxRevision
  /\ revision' = revision + 1
  /\ UNCHANGED <<bindings, seen>>

BindingNext ==
  \/ \E p \in Process : Look(p)
  \/ \E p \in Process, r \in Run, s \in Session :
        \/ Bind(p, r, s)
        \/ BindWorker(p, r, s)
        \/ Rebind(p, r, s)
        \/ Detach(p, r, s)
  \/ Touch

BindingSpec == BindingInit /\ [][BindingNext]_bindingVars

-----------------------------------------------------------------------------
(***************************************************************************)
(* A worker session belongs to one run of the task, and it is never the    *)
(* root of another run, however the runs were bound, detached and bound    *)
(* again: detached runs keep their sessions.                               *)
(***************************************************************************)
OneRunPerWorker ==
  \A r, o \in Run : r # o =>
     \A s \in bindings.runs[r].workers : ~Member(bindings.runs[o], s)

(***************************************************************************)
(* The session that executes the task is a root or a worker of one of its  *)
(* runs: the record of a run explains who is active.                       *)
(***************************************************************************)
ActiveIsMember ==
  bindings.active # NoSession =>
     \E r \in Run : Member(bindings.runs[r], bindings.active)

(***************************************************************************)
(* The active session gives way in two manners only: it becomes nobody, by *)
(* its own detach, or a detached run is attached to its new root.  No bind *)
(* displaces it, however stale the caller's view is.                       *)
(***************************************************************************)
OwnerGivesWay ==
  [][ \A s \in Session :
        bindings.active = s /\ bindings'.active # s =>
           \/ /\ bindings'.active = NoSession
              /\ \E r \in Run : /\ Member(bindings.runs[r], s)
                                /\ bindings.runs[r].status = "attached"
                                /\ bindings'.runs[r].status = "detached"
           \/ \E r \in Run : /\ bindings.runs[r].status = "detached"
                             /\ bindings'.runs[r].status = "attached"
                             /\ bindings'.runs[r].root = bindings'.active ]_bindingVars

(***************************************************************************)
(* What the record of the phase says of the bindings: the execution of a   *)
(* task is not transferred while its attachment is active, so a session    *)
(* takes over only from nobody.  A rebind of a detached run does not ask   *)
(* whether another run is attached and executing.                          *)
(***************************************************************************)
NoActiveTransfer ==
  [][ \A s \in Session :
        bindings.active = s /\ bindings'.active # s =>
           bindings'.active = NoSession ]_bindingVars
=============================================================================
