-------------------------- MODULE DispatchHandoff --------------------------
(***************************************************************************)
(* The native dispatch handoff: a prepared dispatch is CLAIMed before its  *)
(* effect and SETTLEd after it.  Both operations read the receipt to name  *)
(* its task, take the lock of the task and then the lock of the goal's     *)
(* receipts, decide, and write.  Their writes go to several files: the     *)
(* receipt, the admission file the host's permission gate reads, and the   *)
(* record of the task.  A process may fail between any two of them, or     *)
(* refuse: its locks are freed and nothing else happens (Quit).            *)
(*                                                                         *)
(* The locks do not protect the goal, which another owner takes over, nor  *)
(* the task record, which other operations of the kernel move on.          *)
(***************************************************************************)
EXTENDS Naturals, FiniteSets

CONSTANTS Procs,       \* processes that claim and settle
          Keys,        \* dispatches
          Tasks, Goals,
          TaskOf, GoalOf,   \* the task and the goal of a dispatch
          Calls,       \* calls of the host
          None,
          Turning,     \* bound: the goals that are paused, resumed and taken over
          MaxRev       \* bound on the revision of a task

ASSUME HandoffAssumption ==
  /\ TaskOf \in [Keys -> Tasks] /\ GoalOf \in [Keys -> Goals]
  /\ None \notin Procs \cup Calls \cup Keys
  /\ Turning \subseteq Goals /\ MaxRev \in Nat

VARIABLES goal,        \* active, paused, or taken by another owner
          rev,         \* revision of each task
          result,      \* the dispatch whose result the task record holds
          recorded,    \* how often the result of a dispatch was recorded (history)
          receipt,     \* durable receipt of each dispatch
          admission,   \* admission file of each dispatch
          taskLock, goalLock,
          pc, op       \* where a process is, in which operation

durable == <<receipt, admission>>
kernel == <<rev, result, recorded>>
locks == <<taskLock, goalLock>>
vars == <<goal, kernel, durable, locks, pc, op>>

Phases == {"absent", "prepared", "claimed", "settled"}
Receipts == [phase : Phases, expected : Nat, call : Calls \cup {None}]
Admissions == [call : Calls, active : BOOLEAN] \cup {None}
Ops == [kind : {"claim", "settle"}, key : Keys, call : Calls]
Places == {"idle", "task", "goal", "locked", "claiming", "emitting",
           "recording", "settling", "removing"}

TypeOK ==
  /\ goal \in [Goals -> {"active", "paused", "taken"}]
  /\ rev \in [Tasks -> Nat] /\ result \in [Tasks -> Keys \cup {None}]
  /\ recorded \in [Keys -> Nat]
  /\ receipt \in [Keys -> Receipts] /\ admission \in [Keys -> Admissions]
  /\ taskLock \in [Tasks -> Procs \cup {None}]
  /\ goalLock \in [Goals -> Procs \cup {None}]
  /\ pc \in [Procs -> Places] /\ op \in [Procs -> Ops \cup {None}]
  /\ \A p \in Procs : pc[p] # "idle" => op[p] \in Ops

NoReceipt == [phase |-> "absent", expected |-> 0, call |-> None]

Init ==
  /\ goal = [g \in Goals |-> "active"]
  /\ rev = [t \in Tasks |-> 1] /\ result = [t \in Tasks |-> None]
  /\ recorded = [k \in Keys |-> 0]
  /\ receipt = [k \in Keys |-> NoReceipt] /\ admission = [k \in Keys |-> None]
  /\ taskLock = [t \in Tasks |-> None] /\ goalLock = [g \in Goals |-> None]
  /\ pc = [p \in Procs |-> "idle"] /\ op = [p \in Procs |-> None]

Key(p) == op[p].key
Task(p) == TaskOf[Key(p)]
GoalAt(p) == GoalOf[Key(p)]

GoTo(p, place) == pc' = [pc EXCEPT ![p] = place] /\ UNCHANGED op

Unlock(p) ==
  /\ taskLock' = [t \in Tasks |-> IF taskLock[t] = p THEN None ELSE taskLock[t]]
  /\ goalLock' = [g \in Goals |-> IF goalLock[g] = p THEN None ELSE goalLock[g]]

\* Fault: the operation is forgotten and its process goes on.
EndOpen(p) ==
  /\ op' = [op EXCEPT ![p] = None] /\ UNCHANGED pc
  /\ Unlock(p)

End(p) ==
  /\ pc' = [pc EXCEPT ![p] = "idle"] /\ op' = [op EXCEPT ![p] = None]
  /\ Unlock(p)

-----------------------------------------------------------------------------
(* Locks.                                                                  *)

(* The receipt is read to name the lock of its task.                       *)
Start(p, o) ==
  /\ pc[p] = "idle"
  /\ receipt[o.key].phase # "absent"
  /\ pc' = [pc EXCEPT ![p] = "task"]
  /\ op' = [op EXCEPT ![p] = o]
  /\ UNCHANGED <<goal, kernel, durable, locks>>

LockTask(p) ==
  /\ pc[p] = "task" /\ taskLock[Task(p)] = None
  /\ taskLock' = [taskLock EXCEPT ![Task(p)] = p]
  /\ GoTo(p, "goal")
  /\ UNCHANGED <<goal, kernel, durable, goalLock>>

LockGoal(p) ==
  /\ pc[p] = "goal" /\ goalLock[GoalAt(p)] = None
  /\ goalLock' = [goalLock EXCEPT ![GoalAt(p)] = p]
  /\ GoTo(p, "locked")
  /\ UNCHANGED <<goal, kernel, durable, taskLock>>

(* A refusal, a lock that stays busy, a failed write, or a crash.          *)
Quit(p) ==
  /\ pc[p] # "idle"
  /\ End(p)
  /\ UNCHANGED <<goal, kernel, durable>>

-----------------------------------------------------------------------------
(* CLAIM.                                                                  *)

Claiming(p) == pc[p] = "locked" /\ op[p].kind = "claim"

Owned(p) == goal[GoalAt(p)] = "active"

\* Fault: only the receipts of the same goal are looked at.
ExclusiveInGoal(k) ==
  \A j \in Keys \ {k} :
     TaskOf[j] = TaskOf[k] /\ GoalOf[j] = GoalOf[k] => receipt[j].phase # "claimed"

(* No other receipt of the task, of any goal, is an unresolved effect.     *)
Exclusive(k) ==
  \A j \in Keys \ {k} : TaskOf[j] = TaskOf[k] => receipt[j].phase # "claimed"

ClaimCheck(p) ==
  /\ Claiming(p)
  /\ receipt[Key(p)].phase = "prepared"
  /\ receipt[Key(p)].expected = rev[Task(p)]
  /\ Exclusive(Key(p))
  /\ Owned(p)
  /\ GoTo(p, "claiming")
  /\ UNCHANGED <<goal, kernel, durable, locks>>

ClaimWrite(p) ==
  /\ pc[p] = "claiming"
  /\ receipt' = [receipt EXCEPT ![Key(p)].phase = "claimed", ![Key(p)].call = op[p].call]
  /\ GoTo(p, "emitting")
  /\ UNCHANGED <<goal, kernel, admission, locks>>

Admit(p) ==
  admission' = [admission EXCEPT ![Key(p)] =
                  [call |-> op[p].call, active |-> goal[GoalAt(p)] # "paused"]]

\* Fault: the admission may come before the receipt.
EmitFirst(p) ==
  /\ pc[p] \in {"claiming", "emitting"}
  /\ Admit(p)
  /\ End(p)
  /\ UNCHANGED <<goal, kernel, receipt>>

(* After the receipt, when the caller asked for it: the admission carries  *)
(* the state the goal has now.                                             *)
Emit(p) ==
  /\ pc[p] = "emitting"
  /\ Admit(p)
  /\ End(p)
  /\ UNCHANGED <<goal, kernel, receipt>>

(* The same call again, after a claim whose admission was never written.   *)
Repair(p) ==
  /\ Claiming(p)
  /\ receipt[Key(p)].phase = "claimed"
  /\ receipt[Key(p)].call = op[p].call
  /\ admission[Key(p)] = None
  /\ Owned(p)
  /\ Admit(p)
  /\ End(p)
  /\ UNCHANGED <<goal, kernel, receipt>>

-----------------------------------------------------------------------------
(* SETTLE.  The ownership of the goal is read again before every write.    *)
(* There is one result to settle with: the attempt and the evidence that   *)
(* are marked in the receipt on the way are left out.                      *)

Settling(p) ==
  /\ pc[p] = "locked" /\ op[p].kind = "settle"
  /\ Owned(p)
  /\ receipt[Key(p)].call = op[p].call

(* A result recorded past the expected revision: whose it is, nobody can   *)
(* tell, and it is not written again.                                      *)
Ambiguous(p) == result[Task(p)] # None /\ rev[Task(p)] > receipt[Key(p)].expected

SettleCheck(p) ==
  /\ Settling(p)
  /\ receipt[Key(p)].phase = "claimed"
  /\ ~Ambiguous(p)
  /\ receipt[Key(p)].expected = rev[Task(p)]
  /\ GoTo(p, "recording")
  /\ UNCHANGED <<goal, kernel, durable, locks>>

(* The kernel compares the revision and writes under its own lock.         *)
Unmoved(p) == rev[Task(p)] = receipt[Key(p)].expected

\* Fault: the result is written and the revision stays.
RecordQuiet(p) ==
  /\ pc[p] = "recording" /\ Owned(p)
  /\ Unmoved(p)
  /\ result' = [result EXCEPT ![Task(p)] = Key(p)]
  /\ recorded' = [recorded EXCEPT ![Key(p)] = @ + 1]
  /\ GoTo(p, "settling")
  /\ UNCHANGED <<goal, rev, durable, locks>>

Record(p) ==
  /\ pc[p] = "recording" /\ Owned(p)
  /\ ~Ambiguous(p)
  /\ Unmoved(p)
  /\ rev' = [rev EXCEPT ![Task(p)] = @ + 1]
  /\ result' = [result EXCEPT ![Task(p)] = Key(p)]
  /\ recorded' = [recorded EXCEPT ![Key(p)] = @ + 1]
  /\ GoTo(p, "settling")
  /\ UNCHANGED <<goal, durable, locks>>

SettleWrite(p) ==
  /\ pc[p] = "settling" /\ Owned(p)
  /\ receipt' = [receipt EXCEPT ![Key(p)].phase = "settled"]
  /\ GoTo(p, "removing")
  /\ UNCHANGED <<goal, kernel, admission, locks>>

Withdraw(p) ==
  /\ admission' = [admission EXCEPT ![Key(p)] = None]
  /\ End(p)
  /\ UNCHANGED <<goal, kernel, receipt>>

Remove(p) == pc[p] = "removing" /\ Withdraw(p)

(* Settling again what is settled withdraws an admission that survived.    *)
Duplicate(p) ==
  /\ Settling(p)
  /\ receipt[Key(p)].phase = "settled"
  /\ Withdraw(p)

-----------------------------------------------------------------------------
(* Everybody else.                                                         *)

(* A dispatch is prepared for the revision its task has.                   *)
Prepare(k) ==
  /\ receipt[k].phase = "absent" /\ goal[GoalOf[k]] = "active"
  /\ receipt' = [receipt EXCEPT ![k] =
                   [NoReceipt EXCEPT !.phase = "prepared", !.expected = rev[TaskOf[k]]]]
  /\ UNCHANGED <<goal, kernel, admission, locks, pc, op>>

(* Another operation of the task kernel.                                   *)
Touch(t) ==
  /\ rev[t] < MaxRev
  /\ rev' = [rev EXCEPT ![t] = @ + 1]
  /\ UNCHANGED <<goal, result, recorded, durable, locks, pc, op>>

TurnGoal(g) ==
  /\ goal[g] # "taken"
  /\ goal' \in {[goal EXCEPT ![g] = s] : s \in {"active", "paused", "taken"} \ {goal[g]}}
  /\ UNCHANGED <<kernel, durable, locks, pc, op>>

ClaimStep(p) == ClaimCheck(p) \/ ClaimWrite(p) \/ Emit(p) \/ Repair(p)
SettleStep(p) ==
  SettleCheck(p) \/ Record(p) \/ SettleWrite(p) \/ Remove(p) \/ Duplicate(p)

Next ==
  \/ \E p \in Procs : \/ \E o \in Ops : Start(p, o)
                      \/ LockTask(p) \/ LockGoal(p) \/ Quit(p)
                      \/ ClaimStep(p) \/ SettleStep(p)
  \/ \E k \in Keys : Prepare(k)
  \/ \E t \in Tasks : Touch(t)
  \/ \E g \in Turning : TurnGoal(g)

Spec == Init /\ [][Next]_vars

-----------------------------------------------------------------------------
(* Two dispatches of one task, whatever their goals, are never both        *)
(* claimed: the effect of the task is not running twice.                   *)
TaskExclusive ==
  \A j, k \in Keys :
     receipt[j].phase = "claimed" /\ receipt[k].phase = "claimed"
       /\ TaskOf[j] = TaskOf[k] => j = k

(* An admission file exists only for a dispatch that was claimed, and for  *)
(* the call that claimed it.                                               *)
AdmissionBacked ==
  \A k \in Keys : admission[k] # None =>
     /\ receipt[k].phase \in {"claimed", "settled"}
     /\ receipt[k].call = admission[k].call

(* The result of a dispatch is recorded at most once, however often the    *)
(* settlement is tried, and a settled dispatch has recorded it.  Of the    *)
(* dispatches prepared for one revision of a task one records a result.    *)
ResultOnce ==
  /\ \A k \in Keys : /\ recorded[k] <= 1
                     /\ receipt[k].phase = "settled" => recorded[k] = 1
  /\ \A j, k \in Keys :
        recorded[j] = 1 /\ recorded[k] = 1 /\ TaskOf[j] = TaskOf[k]
          /\ receipt[j].expected = receipt[k].expected => j = k
=============================================================================
