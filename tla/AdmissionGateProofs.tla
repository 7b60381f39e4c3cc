------------------------- MODULE AdmissionGateProofs -------------------------
(***************************************************************************)
(* Proofs about DispatchHandoff and AdmissionGate, for any processes,      *)
(* dispatches, tasks, goals and calls: types, exclusion of the effects of  *)
(* a task, what stands behind an admission file, the single recording of a *)
(* result, and that the gate admits no replay.                             *)
(*                                                                         *)
(* What a process has checked it acts on later.  The invariant says what   *)
(* of it still holds at each place: only who has the lock of the task      *)
(* changes a receipt of the task.                                          *)
(***************************************************************************)
EXTENDS AdmissionGate, TLAPS

HasTask(p) == pc[p] \notin {"idle", "task"}

LockInv == \A p \in Procs : HasTask(p) => taskLock[Task(p)] = p

Unresolved(k) == receipt[k].phase = "claimed"
Consumed(k) == receipt[k].phase \in {"claimed", "settled"}

\* What a process relies on at its place.
Relies(p) ==
  /\ pc[p] = "claiming" => receipt[Key(p)].phase = "prepared" /\ Exclusive(Key(p))
  /\ pc[p] = "emitting" => Unresolved(Key(p)) /\ receipt[Key(p)].call = op[p].call
  /\ pc[p] = "recording" => Unresolved(Key(p))
  /\ pc[p] = "settling" => Unresolved(Key(p)) /\ recorded[Key(p)] = 1
  /\ pc[p] = "removing" => Consumed(Key(p))

\* What stands behind a record or an admission.
Behind(k) ==
  /\ recorded[k] = 0 \/ recorded[k] = 1
  /\ recorded[k] = 1 => Consumed(k) /\ rev[TaskOf[k]] > receipt[k].expected
  /\ receipt[k].phase = "settled" => recorded[k] = 1
  /\ admission[k] # None => Consumed(k) /\ receipt[k].call = admission[k].call

OneRecord ==
  \A j, k \in Keys :
     recorded[j] = 1 /\ recorded[k] = 1 /\ TaskOf[j] = TaskOf[k]
       /\ receipt[j].expected = receipt[k].expected => j = k

HandoffInv ==
  /\ TypeOK /\ LockInv
  /\ \A p \in Procs : Relies(p)
  /\ \A k \in Keys : Behind(k)
  /\ TaskExclusive /\ OneRecord

-----------------------------------------------------------------------------
(* Places and locks.                                                       *)

LEMMA Workers ==
  ASSUME TypeOK, NEW p \in Procs, pc[p] # "idle"
  PROVE  /\ op[p] \in Ops /\ Key(p) \in Keys /\ op[p].call \in Calls
         /\ Task(p) \in Tasks /\ GoalAt(p) \in Goals
BY HandoffAssumption DEF TypeOK, Ops, Key, Task, GoalAt

LEMMA OneHolder ==
  ASSUME HandoffInv, NEW p \in Procs, NEW q \in Procs, HasTask(p), HasTask(q),
         Task(p) = Task(q)
  PROVE  p = q
BY DEF HandoffInv, LockInv

LEMMA InitHandoff == Init => HandoffInv
<1>. SUFFICES ASSUME Init PROVE HandoffInv
  OBVIOUS
<1>1. NoReceipt \in Receipts
  BY DEF NoReceipt, Receipts, Phases
<1>2. TypeOK
  BY <1>1 DEF Init, TypeOK, Admissions, Places
<1>3. /\ \A p \in Procs : pc[p] = "idle"
      /\ \A k \in Keys : recorded[k] = 0 /\ admission[k] = None
                         /\ receipt[k].phase = "absent"
  BY DEF Init, NoReceipt
<1>. QED
  BY <1>2, <1>3 DEF HandoffInv, LockInv, HasTask, Relies, Behind, TaskExclusive, OneRecord

-----------------------------------------------------------------------------
(* A step of one process that writes no receipt, admission or record and   *)
(* is entitled to the place it goes to.                                    *)

LEMMA MoveKeeps ==
  ASSUME HandoffInv, TypeOK', NEW p \in Procs,
         UNCHANGED <<kernel, durable>>,
         \A q \in Procs \ {p} : /\ pc'[q] = pc[q] /\ op'[q] = op[q]
                                /\ HasTask(q) => taskLock'[Task(q)] = taskLock[Task(q)],
         HasTask(p)' => taskLock'[Task(p)'] = p,
         Relies(p)'
  PROVE  HandoffInv'
<1>1. LockInv'
  BY DEF HandoffInv, LockInv, HasTask, Task, Key
<1>2. \A q \in Procs : Relies(q)'
  BY DEF HandoffInv, Relies, kernel, durable, Key, Unresolved, Consumed, Exclusive
<1>3. \A k \in Keys : Behind(k)'
  BY DEF HandoffInv, Behind, Consumed, kernel, durable
<1>4. TaskExclusive' /\ OneRecord'
  BY DEF HandoffInv, TaskExclusive, OneRecord, kernel, durable
<1>. QED
  BY <1>1, <1>2, <1>3, <1>4 DEF HandoffInv

LEMMA StartKeeps ==
  ASSUME HandoffInv, NEW p \in Procs, NEW o \in Ops, Start(p, o)
  PROVE  HandoffInv'
<1>1. TypeOK'
  BY DEF HandoffInv, TypeOK, Start, Places, locks, kernel, durable
<1>2. /\ \A q \in Procs \ {p} : pc'[q] = pc[q] /\ op'[q] = op[q]
      /\ pc'[p] = "task"
  BY DEF HandoffInv, TypeOK, Start
<1>3. ~HasTask(p)' /\ Relies(p)'
  BY <1>2 DEF HasTask, Relies
<1>4. UNCHANGED <<kernel, durable>> /\ taskLock' = taskLock
  BY DEF Start, locks
<1>. QED
  BY <1>1, <1>2, <1>3, <1>4, MoveKeeps

LEMMA LocksKeep ==
  ASSUME HandoffInv, NEW p \in Procs, LockTask(p) \/ LockGoal(p)
  PROVE  HandoffInv'
<1>1. pc[p] # "idle" /\ Task(p) \in Tasks /\ GoalAt(p) \in Goals
  BY Workers DEF HandoffInv, LockTask, LockGoal
<1>2. TypeOK'
  BY <1>1 DEF HandoffInv, TypeOK, LockTask, LockGoal, GoTo, Places, kernel, durable
<1>3. /\ \A q \in Procs \ {p} : pc'[q] = pc[q] /\ op'[q] = op[q]
      /\ op' = op /\ pc'[p] \in {"goal", "locked"}
  BY DEF HandoffInv, TypeOK, LockTask, LockGoal, GoTo
<1>4. CASE LockTask(p)
  <2>1. taskLock' = [taskLock EXCEPT ![Task(p)] = p] /\ taskLock[Task(p)] = None
    BY <1>4 DEF LockTask
  <2>2. \A q \in Procs : HasTask(q) => Task(q) # Task(p)
    BY <2>1, HandoffAssumption DEF HandoffInv, LockInv
  <2>3. /\ taskLock'[Task(p)] = p
        /\ \A q \in Procs : HasTask(q) => taskLock'[Task(q)] = taskLock[Task(q)]
    BY <1>1, <2>1, <2>2 DEF HandoffInv, TypeOK
  <2>4. Task(p)' = Task(p)
    BY <1>3 DEF Task, Key
  <2>. QED
    BY <1>2, <1>3, <1>4, <2>3, <2>4, MoveKeeps DEF LockTask, Relies
<1>5. CASE LockGoal(p)
  <2>1. taskLock' = taskLock /\ HasTask(p) /\ Task(p)' = Task(p)
    BY <1>3, <1>5 DEF LockGoal, HasTask, Task, Key
  <2>. QED
    BY <1>2, <1>3, <1>5, <2>1, MoveKeeps DEF LockGoal, Relies, HandoffInv, LockInv
<1>. QED
  BY <1>4, <1>5

\* Going idle with the locks freed keeps the invariant.
LEMMA EndKeeps ==
  ASSUME HandoffInv, NEW p \in Procs, End(p), UNCHANGED <<goal, kernel, durable>>
  PROVE  HandoffInv'
<1>1. TypeOK'
  BY DEF HandoffInv, TypeOK, End, Unlock, Places, kernel, durable
<1>2. /\ \A q \in Procs \ {p} : pc'[q] = pc[q] /\ op'[q] = op[q]
      /\ pc'[p] = "idle"
  BY DEF HandoffInv, TypeOK, End
<1>3. \A q \in Procs \ {p} : HasTask(q) => taskLock'[Task(q)] = taskLock[Task(q)]
  <2>. SUFFICES ASSUME NEW q \in Procs \ {p}, HasTask(q)
                PROVE  taskLock'[Task(q)] = taskLock[Task(q)]
    OBVIOUS
  <2>1. Task(q) \in Tasks /\ taskLock[Task(q)] = q
    BY Workers DEF HandoffInv, LockInv, HasTask
  <2>. QED
    BY <2>1 DEF End, Unlock
<1>. QED
  BY <1>1, <1>2, <1>3, MoveKeeps DEF HasTask, Relies

LEMMA QuitKeeps ==
  ASSUME HandoffInv, NEW p \in Procs, Quit(p)
  PROVE  HandoffInv'
BY EndKeeps DEF Quit

-----------------------------------------------------------------------------
(* A step with the lock of a task: who has the lock of another task, or    *)
(* none, relies on what the step does not touch.                           *)

LEMMA OthersRely ==
  ASSUME HandoffInv, NEW p \in Procs, HasTask(p),
         \A j \in Keys : TaskOf[j] # Task(p) =>
                          receipt'[j] = receipt[j] /\ recorded'[j] = recorded[j],
         NEW q \in Procs, q # p, pc'[q] = pc[q], op'[q] = op[q]
  PROVE  Relies(q)'
<1>1. CASE ~HasTask(q)
  BY <1>1 DEF HasTask, Relies
<1>2. CASE HasTask(q)
  <2>1. Task(q) # Task(p) /\ Key(q) \in Keys
    BY <1>2, OneHolder, Workers DEF HandoffInv, HasTask
  <2>2. /\ receipt'[Key(q)] = receipt[Key(q)] /\ recorded'[Key(q)] = recorded[Key(q)]
        /\ Key(q)' = Key(q) /\ op'[q].call = op[q].call
    BY <2>1 DEF Task, Key
  <2>3. ASSUME Exclusive(Key(q)) PROVE Exclusive(Key(q))'
    BY <2>1, <2>2, <2>3 DEF Exclusive, Task
  <2>. QED
    BY <2>2, <2>3 DEF HandoffInv, Relies, Unresolved, Consumed
<1>. QED
  BY <1>1, <1>2

LEMMA ChecksKeep ==
  ASSUME HandoffInv, NEW p \in Procs, ClaimCheck(p) \/ SettleCheck(p)
  PROVE  HandoffInv'
<1>1. TypeOK'
  BY DEF HandoffInv, TypeOK, ClaimCheck, SettleCheck, Claiming, Settling, GoTo, Places,
         kernel, durable, locks
<1>2. /\ \A q \in Procs \ {p} : pc'[q] = pc[q] /\ op'[q] = op[q]
      /\ op' = op /\ pc'[p] \in {"claiming", "recording"} /\ HasTask(p)
  BY DEF HandoffInv, TypeOK, ClaimCheck, SettleCheck, Claiming, Settling, GoTo, HasTask
<1>3. UNCHANGED <<kernel, durable>> /\ taskLock' = taskLock
  BY DEF ClaimCheck, SettleCheck, locks
<1>4. Key(p)' = Key(p) /\ Task(p)' = Task(p)
  BY <1>2 DEF Key, Task
<1>5. HasTask(p)' => taskLock'[Task(p)'] = p
  BY <1>2, <1>3, <1>4 DEF HandoffInv, LockInv
<1>6. Relies(p)'
  <2>1. CASE ClaimCheck(p)
    <3>1. pc'[p] = "claiming"
      BY <2>1 DEF HandoffInv, TypeOK, ClaimCheck, GoTo
    <3>. QED
      BY <2>1, <3>1, <1>3, <1>4 DEF ClaimCheck, Relies, Exclusive, durable
  <2>2. CASE SettleCheck(p)
    <3>1. pc'[p] = "recording"
      BY <2>2 DEF HandoffInv, TypeOK, SettleCheck, GoTo
    <3>. QED
      BY <2>2, <3>1, <1>3, <1>4 DEF SettleCheck, Relies, Unresolved, durable
  <2>. QED
    BY <2>1, <2>2
<1>. QED
  BY <1>1, <1>2, <1>3, <1>5, <1>6, MoveKeeps

-----------------------------------------------------------------------------
(* Writing a receipt.                                                      *)

LEMMA ClaimWriteKeeps ==
  ASSUME HandoffInv, NEW p \in Procs, ClaimWrite(p)
  PROVE  HandoffInv'
<1>1. /\ Key(p) \in Keys /\ op[p].call \in Calls /\ HasTask(p) /\ Relies(p)
      /\ receipt[Key(p)] \in Receipts
  BY Workers DEF ClaimWrite, HandoffInv, TypeOK, HasTask
<1>2. /\ UNCHANGED <<kernel, admission, locks, op>>
      /\ \A q \in Procs : pc'[q] = IF q = p THEN "emitting" ELSE pc[q]
  BY DEF ClaimWrite, GoTo, HandoffInv, TypeOK
<1>3. /\ \A j \in Keys \ {Key(p)} : receipt'[j] = receipt[j]
      /\ receipt'[Key(p)].phase = "claimed"
      /\ receipt'[Key(p)].call = op[p].call
      /\ receipt'[Key(p)].expected = receipt[Key(p)].expected
  BY <1>1 DEF ClaimWrite, HandoffInv, TypeOK, Receipts
<1>4. receipt[Key(p)].phase = "prepared" /\ Exclusive(Key(p))
  BY <1>1 DEF ClaimWrite, Relies
<1>5. TypeOK'
  <2>1. receipt' \in [Keys -> Receipts]
    BY <1>1 DEF ClaimWrite, HandoffInv, TypeOK, Receipts, Phases
  <2>. QED
    BY <2>1 DEF ClaimWrite, HandoffInv, TypeOK, GoTo, Places, kernel, locks
<1>6. LockInv'
  BY <1>1, <1>2 DEF HandoffInv, LockInv, HasTask, Task, Key, locks
<1>7. \A q \in Procs : Relies(q)'
  <2>1. \A q \in Procs \ {p} : Relies(q)'
    BY <1>1, <1>2, <1>3, OthersRely DEF Task, kernel
  <2>2. Relies(p)'
    BY <1>2, <1>3 DEF Relies, Unresolved, Key
  <2>. QED
    BY <2>1, <2>2
<1>8. \A k \in Keys : Behind(k)'
  <2>. TAKE k \in Keys
  <2>1. Behind(k) /\ recorded'[k] = recorded[k] /\ rev' = rev /\ admission' = admission
    BY <1>2 DEF HandoffInv, kernel
  <2>. QED
    BY <2>1, <1>3, <1>4 DEF Behind, Consumed
<1>9. TaskExclusive' /\ OneRecord'
  BY <1>1, <1>2, <1>3, <1>4 DEF HandoffInv, TaskExclusive, OneRecord, Exclusive, kernel
<1>. QED
  BY <1>5, <1>6, <1>7, <1>8, <1>9 DEF HandoffInv

LEMMA SettleWriteKeeps ==
  ASSUME HandoffInv, NEW p \in Procs, SettleWrite(p)
  PROVE  HandoffInv'
<1>1. /\ Key(p) \in Keys /\ HasTask(p) /\ Relies(p) /\ receipt[Key(p)] \in Receipts
  BY Workers DEF SettleWrite, HandoffInv, TypeOK, HasTask
<1>2. /\ UNCHANGED <<kernel, admission, locks, op>>
      /\ \A q \in Procs : pc'[q] = IF q = p THEN "removing" ELSE pc[q]
  BY DEF SettleWrite, GoTo, HandoffInv, TypeOK
<1>3. /\ \A j \in Keys \ {Key(p)} : receipt'[j] = receipt[j]
      /\ receipt'[Key(p)].phase = "settled"
      /\ receipt'[Key(p)].call = receipt[Key(p)].call
      /\ receipt'[Key(p)].expected = receipt[Key(p)].expected
  BY <1>1 DEF SettleWrite, HandoffInv, TypeOK, Receipts
<1>4. receipt[Key(p)].phase = "claimed" /\ recorded[Key(p)] = 1
  BY <1>1 DEF SettleWrite, Relies, Unresolved
<1>5. TypeOK'
  <2>1. receipt' \in [Keys -> Receipts]
    BY <1>1 DEF SettleWrite, HandoffInv, TypeOK, Receipts, Phases
  <2>. QED
    BY <2>1 DEF SettleWrite, HandoffInv, TypeOK, GoTo, Places, kernel, locks
<1>6. LockInv'
  BY <1>1, <1>2 DEF HandoffInv, LockInv, HasTask, Task, Key, locks
<1>7. \A q \in Procs : Relies(q)'
  <2>1. \A q \in Procs \ {p} : Relies(q)'
    BY <1>1, <1>2, <1>3, OthersRely DEF Task, kernel
  <2>2. Relies(p)'
    BY <1>2, <1>3 DEF Relies, Consumed, Key
  <2>. QED
    BY <2>1, <2>2
<1>8. \A k \in Keys : Behind(k)'
  <2>. TAKE k \in Keys
  <2>1. Behind(k) /\ recorded'[k] = recorded[k] /\ rev' = rev /\ admission' = admission
    BY <1>2 DEF HandoffInv, kernel
  <2>. QED
    BY <2>1, <1>3, <1>4 DEF Behind, Consumed
<1>9. TaskExclusive' /\ OneRecord'
  BY <1>1, <1>2, <1>3, <1>4 DEF HandoffInv, TaskExclusive, OneRecord, kernel
<1>. QED
  BY <1>5, <1>6, <1>7, <1>8, <1>9 DEF HandoffInv

LEMMA PrepareKeeps ==
  ASSUME HandoffInv, NEW k \in Keys, Prepare(k)
  PROVE  HandoffInv'
<1>1. /\ receipt[k].phase = "absent" /\ TaskOf[k] \in Tasks /\ rev[TaskOf[k]] \in Nat
      /\ recorded[k] = 0
  BY HandoffAssumption DEF Prepare, HandoffInv, TypeOK, Behind, Consumed
<1>2. UNCHANGED <<kernel, admission, locks, pc, op, goal>>
  BY DEF Prepare
<1>3. /\ \A j \in Keys \ {k} : receipt'[j] = receipt[j]
      /\ receipt'[k].phase = "prepared"
  BY DEF Prepare, NoReceipt, HandoffInv, TypeOK
<1>4. TypeOK'
  <2>1. receipt' \in [Keys -> Receipts]
    BY <1>1 DEF Prepare, HandoffInv, TypeOK, Receipts, NoReceipt, Phases
  <2>. QED
    BY <2>1, <1>2 DEF HandoffInv, TypeOK, kernel, locks
<1>5. LockInv'
  BY <1>2 DEF HandoffInv, LockInv, HasTask, Task, Key, locks
<1>6. \A q \in Procs : Relies(q)'
  <2>. TAKE q \in Procs
  <2>1. CASE pc[q] \in {"claiming", "emitting", "recording", "settling", "removing"}
    <3>1. Key(q) \in Keys /\ Key(q)' = Key(q) /\ Relies(q)
      BY <2>1, <1>2, Workers DEF HandoffInv, Key
    <3>2. Key(q) # k
      BY <3>1, <2>1, <1>1 DEF Relies, Unresolved, Consumed
    <3>3. receipt'[Key(q)] = receipt[Key(q)]
      BY <3>1, <3>2, <1>3
    <3>4. ASSUME Exclusive(Key(q)) PROVE Exclusive(Key(q))'
      BY <3>1, <3>4, <1>3 DEF Exclusive
    <3>. QED
      BY <3>1, <3>3, <3>4, <1>2 DEF Relies, Unresolved, Consumed, kernel
  <2>2. CASE pc[q] \notin {"claiming", "emitting", "recording", "settling", "removing"}
    BY <2>2, <1>2 DEF Relies
  <2>. QED
    BY <2>1, <2>2
<1>7. \A j \in Keys : Behind(j)'
  <2>. TAKE j \in Keys
  <2>1. Behind(j) /\ recorded'[j] = recorded[j] /\ rev' = rev /\ admission' = admission
    BY <1>2 DEF HandoffInv, kernel
  <2>. QED
    BY <2>1, <1>1, <1>3 DEF Behind, Consumed
<1>8. TaskExclusive' /\ OneRecord'
  BY <1>1, <1>2, <1>3 DEF HandoffInv, TaskExclusive, OneRecord, kernel
<1>. QED
  BY <1>4, <1>5, <1>6, <1>7, <1>8 DEF HandoffInv

-----------------------------------------------------------------------------
(* Recording a result, and moving the task on.                             *)

LEMMA RecordKeeps ==
  ASSUME HandoffInv, NEW p \in Procs, Record(p)
  PROVE  HandoffInv'
<1>1. /\ Key(p) \in Keys /\ Task(p) \in Tasks /\ HasTask(p) /\ Relies(p)
      /\ recorded[Key(p)] \in Nat /\ rev[Task(p)] \in Nat
      /\ Task(p) = TaskOf[Key(p)]
  BY Workers DEF Record, HandoffInv, TypeOK, HasTask, Task
<1>2. /\ UNCHANGED <<durable, locks, op>>
      /\ \A q \in Procs : pc'[q] = IF q = p THEN "settling" ELSE pc[q]
  BY DEF Record, GoTo, HandoffInv, TypeOK
<1>3. /\ \A j \in Keys : recorded'[j] = IF j = Key(p) THEN recorded[j] + 1 ELSE recorded[j]
      /\ \A t \in Tasks : rev'[t] = IF t = Task(p) THEN rev[t] + 1 ELSE rev[t]
  BY DEF Record, HandoffInv, TypeOK
<1>4. receipt[Key(p)].phase = "claimed" /\ rev[Task(p)] = receipt[Key(p)].expected
  BY <1>1 DEF Record, Relies, Unresolved, Unmoved
<1>5. \A j \in Keys : Behind(j) /\ TaskOf[j] \in Tasks /\ rev[TaskOf[j]] \in Nat
                       /\ receipt[j].expected \in Nat
  BY HandoffAssumption DEF HandoffInv, TypeOK, Receipts
<1>6. recorded[Key(p)] = 0
  BY <1>1, <1>4, <1>5 DEF Behind
<1>7. TypeOK'
  <2>1. recorded' \in [Keys -> Nat] /\ rev' \in [Tasks -> Nat]
        /\ result' \in [Tasks -> Keys \cup {None}]
    BY <1>1 DEF Record, HandoffInv, TypeOK
  <2>2. pc' \in [Procs -> Places]
    BY DEF Record, GoTo, HandoffInv, TypeOK, Places
  <2>3. \A q \in Procs : pc'[q] # "idle" => op'[q] \in Ops
    BY <1>1, <1>2, Workers DEF HandoffInv, TypeOK, HasTask
  <2>4. UNCHANGED <<goal, receipt, admission, taskLock, goalLock, op>>
    BY DEF Record, durable, locks, GoTo
  <2>. QED
    BY <2>1, <2>2, <2>3, <2>4 DEF HandoffInv, TypeOK
<1>8. LockInv'
  BY <1>1, <1>2 DEF HandoffInv, LockInv, HasTask, Task, Key, locks
<1>9. \A q \in Procs : Relies(q)'
  <2>1. \A q \in Procs \ {p} : Relies(q)'
    BY <1>1, <1>2, <1>3, OthersRely DEF durable
  <2>2. Relies(p)'
    BY <1>1, <1>2, <1>3, <1>4, <1>6 DEF Relies, Unresolved, Key, durable
  <2>. QED
    BY <2>1, <2>2
<1>10. \A j \in Keys : Behind(j)'
  <2>. TAKE j \in Keys
  <2>1. CASE j = Key(p)
    <3>1. recorded'[j] = 1 /\ rev'[TaskOf[j]] > receipt[j].expected
      BY <2>1, <1>1, <1>3, <1>4, <1>6
    <3>. QED
      BY <3>1, <2>1, <1>2, <1>4, <1>5 DEF Behind, Consumed, durable
  <2>2. CASE j # Key(p)
    <3>1. recorded'[j] = recorded[j] /\ rev'[TaskOf[j]] >= rev[TaskOf[j]]
      BY <2>2, <1>3, <1>5
    <3>2. recorded[j] = 1 => rev'[TaskOf[j]] > receipt[j].expected
      <4>1. rev'[TaskOf[j]] \in Nat
        BY <1>3, <1>5
      <4>. QED
        BY <4>1, <3>1, <1>5 DEF Behind
    <3>. QED
      BY <3>1, <3>2, <1>2, <1>5 DEF Behind, Consumed, durable
  <2>. QED
    BY <2>1, <2>2
<1>11. TaskExclusive'
  BY <1>2 DEF HandoffInv, TaskExclusive, durable
<1>12. OneRecord'
  <2>1. \A j \in Keys : TaskOf[j] = Task(p) /\ recorded[j] = 1 =>
                         receipt[j].expected # receipt[Key(p)].expected
    BY <1>4, <1>5 DEF Behind
  <2>2. ASSUME NEW j \in Keys, NEW k \in Keys, recorded'[j] = 1, recorded'[k] = 1,
               TaskOf[j] = TaskOf[k], receipt[j].expected = receipt[k].expected
        PROVE  j = k
    BY <2>1, <2>2, <1>1, <1>3 DEF HandoffInv, OneRecord
  <2>. QED
    BY <2>2, <1>2 DEF OneRecord, durable
<1>. QED
  BY <1>7, <1>8, <1>9, <1>10, <1>11, <1>12 DEF HandoffInv

LEMMA TouchKeeps ==
  ASSUME HandoffInv, NEW t \in Tasks, Touch(t)
  PROVE  HandoffInv'
<1>1. UNCHANGED <<goal, result, recorded, durable, locks, pc, op>>
  BY DEF Touch
<1>2. \A j \in Keys : /\ rev[TaskOf[j]] \in Nat /\ rev'[TaskOf[j]] \in Nat
                       /\ rev'[TaskOf[j]] >= rev[TaskOf[j]]
                       /\ receipt[j].expected \in Nat
  BY HandoffAssumption DEF Touch, HandoffInv, TypeOK, Receipts
<1>3. TypeOK'
  <2>1. rev' \in [Tasks -> Nat]
    BY DEF Touch, HandoffInv, TypeOK
  <2>. QED
    BY <2>1, <1>1 DEF HandoffInv, TypeOK, durable, locks
<1>4. LockInv'
  BY <1>1 DEF HandoffInv, LockInv, HasTask, Task, Key, locks
<1>5. \A q \in Procs : Relies(q)'
  BY <1>1 DEF HandoffInv, Relies, Unresolved, Consumed, Exclusive, Key, durable
<1>6. \A j \in Keys : Behind(j)'
  BY <1>1, <1>2 DEF HandoffInv, Behind, Consumed, durable
<1>7. TaskExclusive' /\ OneRecord'
  BY <1>1 DEF HandoffInv, TaskExclusive, OneRecord, durable
<1>. QED
  BY <1>3, <1>4, <1>5, <1>6, <1>7 DEF HandoffInv

LEMMA TurnKeeps ==
  ASSUME HandoffInv, NEW g \in Goals, TurnGoal(g)
  PROVE  HandoffInv'
<1>1. UNCHANGED <<kernel, durable, locks, pc, op>>
  BY DEF TurnGoal
<1>2. TypeOK'
  <2>1. goal' \in [Goals -> {"active", "paused", "taken"}]
    BY DEF TurnGoal, HandoffInv, TypeOK
  <2>. QED
    BY <2>1, <1>1 DEF HandoffInv, TypeOK, kernel, durable, locks
<1>3. LockInv' /\ \A q \in Procs : Relies(q)'
  BY <1>1 DEF HandoffInv, LockInv, HasTask, Task, Relies, Unresolved, Consumed, Exclusive, Key,
              kernel, durable, locks
<1>4. \A j \in Keys : Behind(j)'
  BY <1>1 DEF HandoffInv, Behind, Consumed, kernel, durable
<1>5. TaskExclusive' /\ OneRecord'
  BY <1>1 DEF HandoffInv, TaskExclusive, OneRecord, kernel, durable
<1>. QED
  BY <1>2, <1>3, <1>4, <1>5 DEF HandoffInv

-----------------------------------------------------------------------------
(* Writing and withdrawing an admission: the last write of an operation.   *)

LEMMA AdmissionKeeps ==
  ASSUME HandoffInv, NEW p \in Procs, pc[p] # "idle", End(p),
         UNCHANGED <<goal, kernel, receipt>>,
         NEW a \in Admissions,
         admission' = [admission EXCEPT ![Key(p)] = a],
         a # None => Consumed(Key(p)) /\ receipt[Key(p)].call = a.call
  PROVE  HandoffInv'
<1>1. TypeOK'
  <2>1. admission' \in [Keys -> Admissions]
    BY DEF HandoffInv, TypeOK
  <2>2. /\ pc' \in [Procs -> Places] /\ op' \in [Procs -> Ops \cup {None}]
        /\ \A q \in Procs : pc'[q] # "idle" => op'[q] \in Ops
    BY DEF HandoffInv, TypeOK, End, Places
  <2>3. /\ taskLock' \in [Tasks -> Procs \cup {None}]
        /\ goalLock' \in [Goals -> Procs \cup {None}]
    BY DEF HandoffInv, TypeOK, End, Unlock
  <2>. QED
    BY <2>1, <2>2, <2>3 DEF HandoffInv, TypeOK, kernel
<1>2. /\ \A q \in Procs \ {p} : pc'[q] = pc[q] /\ op'[q] = op[q]
      /\ pc'[p] = "idle"
  BY DEF HandoffInv, TypeOK, End
<1>3. LockInv'
  <2>. SUFFICES ASSUME NEW q \in Procs, HasTask(q)'
                PROVE  taskLock'[Task(q)'] = q
    BY DEF LockInv
  <2>1. q # p /\ HasTask(q) /\ Task(q)' = Task(q)
    BY <1>2 DEF HasTask, Task, Key
  <2>2. Task(q) \in Tasks /\ taskLock[Task(q)] = q
    BY <2>1, Workers DEF HandoffInv, LockInv, HasTask
  <2>. QED
    BY <2>1, <2>2 DEF End, Unlock
<1>4. \A q \in Procs : Relies(q)'
  <2>. TAKE q \in Procs
  <2>1. CASE q = p
    BY <2>1, <1>2 DEF Relies
  <2>2. CASE q # p
    <3>1. Key(q)' = Key(q) /\ pc'[q] = pc[q] /\ op'[q] = op[q] /\ Relies(q)
      BY <2>2, <1>2 DEF Key, HandoffInv
    <3>. QED
      BY <3>1 DEF Relies, Unresolved, Consumed, Exclusive, kernel
  <2>. QED
    BY <2>1, <2>2
<1>5. \A k \in Keys : Behind(k)'
  <2>. TAKE k \in Keys
  <2>1. Behind(k) /\ admission'[k] = IF k = Key(p) THEN a ELSE admission[k]
    BY DEF HandoffInv, TypeOK
  <2>. QED
    BY <2>1 DEF Behind, Consumed, kernel
<1>6. TaskExclusive' /\ OneRecord'
  BY DEF HandoffInv, TaskExclusive, OneRecord, kernel
<1>. QED
  BY <1>1, <1>3, <1>4, <1>5, <1>6 DEF HandoffInv

LEMMA AdmitKeeps ==
  ASSUME HandoffInv, NEW p \in Procs, Emit(p) \/ Repair(p)
  PROVE  HandoffInv'
<1>. DEFINE a == [call |-> op[p].call, active |-> goal[GoalAt(p)] # "paused"]
<1>1. pc[p] # "idle" /\ End(p) /\ UNCHANGED <<goal, kernel, receipt>>
      /\ admission' = [admission EXCEPT ![Key(p)] = a]
  BY DEF Emit, Repair, Claiming, Admit
<1>2. a \in Admissions
  BY <1>1, Workers DEF HandoffInv, Admissions
<1>3. Consumed(Key(p)) /\ receipt[Key(p)].call = a.call
  BY DEF Emit, Repair, HandoffInv, Relies, Unresolved, Consumed
<1>. HIDE DEF a
<1>. QED
  BY <1>1, <1>2, <1>3, AdmissionKeeps

LEMMA WithdrawKeeps ==
  ASSUME HandoffInv, NEW p \in Procs, Remove(p) \/ Duplicate(p)
  PROVE  HandoffInv'
<1>1. pc[p] # "idle" /\ End(p) /\ UNCHANGED <<goal, kernel, receipt>>
      /\ admission' = [admission EXCEPT ![Key(p)] = None]
  BY DEF Remove, Duplicate, Withdraw, Settling
<1>2. None \in Admissions
  BY DEF Admissions
<1>. QED
  BY <1>1, <1>2, AdmissionKeeps

-----------------------------------------------------------------------------
(* All steps.                                                              *)

LEMMA NextKeeps == HandoffInv /\ [Next]_vars => HandoffInv'
<1>. SUFFICES ASSUME HandoffInv, [Next]_vars PROVE HandoffInv'
  OBVIOUS
<1>1. CASE UNCHANGED vars
  BY <1>1 DEF vars, kernel, durable, locks, HandoffInv, TypeOK, LockInv, HasTask, Task, Key,
              Relies, Unresolved, Consumed, Exclusive, Behind, TaskExclusive, OneRecord
<1>2. ASSUME NEW p \in Procs, \/ \E o \in Ops : Start(p, o)
                              \/ LockTask(p) \/ LockGoal(p) \/ Quit(p)
      PROVE  HandoffInv'
  BY <1>2, StartKeeps, LocksKeep, QuitKeeps
<1>3. ASSUME NEW p \in Procs, ClaimStep(p) \/ SettleStep(p) PROVE HandoffInv'
  BY <1>3, ChecksKeep, ClaimWriteKeeps, AdmitKeeps, RecordKeeps, SettleWriteKeeps,
     WithdrawKeeps DEF ClaimStep, SettleStep
<1>4. ASSUME NEW g \in Turning, TurnGoal(g) PROVE HandoffInv'
  BY <1>4, TurnKeeps, HandoffAssumption
<1>. QED
  BY <1>1, <1>2, <1>3, <1>4, PrepareKeeps, TouchKeeps DEF Next

\* A claim is for good: neither the phase nor the call goes back.
LEMMA ClaimLasts ==
  ASSUME HandoffInv, [Next]_vars, NEW k \in Keys, Consumed(k)
  PROVE  /\ Consumed(k)' /\ receipt'[k].call = receipt[k].call
         /\ receipt[k].phase = "settled" => receipt'[k].phase = "settled"
<1>1. CASE receipt' = receipt
  BY <1>1 DEF Consumed
<1>2. ASSUME NEW p \in Procs, ClaimWrite(p) PROVE receipt'[k] = receipt[k]
  <2>1. receipt[Key(p)].phase = "prepared"
    BY <1>2 DEF HandoffInv, Relies, ClaimWrite
  <2>. QED
    BY <2>1, <1>2 DEF ClaimWrite, Consumed, HandoffInv, TypeOK
<1>3. ASSUME NEW p \in Procs, SettleWrite(p)
      PROVE  Consumed(k)' /\ receipt'[k].call = receipt[k].call
             /\ (receipt[k].phase = "settled" => receipt'[k].phase = "settled")
  BY <1>3 DEF SettleWrite, Consumed, HandoffInv, TypeOK, Receipts
<1>4. ASSUME NEW j \in Keys, Prepare(j) PROVE receipt'[k] = receipt[k]
  BY <1>4 DEF Prepare, Consumed, HandoffInv, TypeOK
<1>5. \/ receipt' = receipt
      \/ \E p \in Procs : ClaimWrite(p) \/ SettleWrite(p)
      \/ \E j \in Keys : Prepare(j)
  BY DEF Next, vars, durable, Start, LockTask, LockGoal, Quit, ClaimStep, SettleStep, ClaimCheck,
         Emit, Repair, SettleCheck, Record, Remove, Duplicate, Withdraw, Touch, TurnGoal
<1>. QED
  BY <1>1, <1>2, <1>3, <1>4, <1>5 DEF Consumed

THEOREM HandoffHolds == Spec => []HandoffInv
  BY InitHandoff, NextKeeps, PTL DEF Spec

(* The variables of the handoff have their types.                          *)
THEOREM HandoffTypes == Spec => []TypeOK
<1>1. HandoffInv => TypeOK
  BY DEF HandoffInv
<1>. QED
  BY <1>1, HandoffHolds, PTL

(* However claims and settlements of any number of processes interleave,   *)
(* stop or repeat, two dispatches of one task are never both claimed.      *)
THEOREM OneEffectPerTask == Spec => []TaskExclusive
<1>1. HandoffInv => TaskExclusive
  BY DEF HandoffInv
<1>. QED
  BY <1>1, HandoffHolds, PTL

(* Whatever fails between the receipt and the admission file, there is no  *)
(* admission without the claim of that call.                               *)
THEOREM AdmissionsAreBacked == Spec => []AdmissionBacked
<1>1. HandoffInv => AdmissionBacked
  BY DEF HandoffInv, Behind, Consumed, AdmissionBacked
<1>. QED
  BY <1>1, HandoffHolds, PTL

(* A dispatch records its result once, and of the dispatches of one        *)
(* revision of a task one does.                                            *)
THEOREM ResultsAreOnce == Spec => []ResultOnce
<1>1. HandoffInv => ResultOnce
  BY DEF HandoffInv, TypeOK, Behind, OneRecord, ResultOnce
<1>. QED
  BY <1>1, HandoffHolds, PTL

-----------------------------------------------------------------------------
(* The gate.  What an evaluation has read may be out of date, but a claim  *)
(* is for good, and so is a settlement.                                    *)

Backed(v) ==
  /\ v.at \in {"admitted", "checked"} =>
       /\ v.read # None /\ Consumed(File)
       /\ receipt[File].call = v.read.call
       /\ v.late => receipt[File].phase = "settled"
  /\ v.at = "checked" /\ Paper # None => ~v.late
  /\ v.at = "allow" =>
       /\ Consumed(File) /\ receipt[File].call = v.call
       /\ Paper # None => ~v.late

GateInv ==
  /\ HandoffInv /\ GateTypeOK
  /\ \A e \in Evals : Backed(eval[e])

LEMMA InitGate == GateInit => GateInv
<1>. SUFFICES ASSUME GateInit PROVE GateInv
  OBVIOUS
<1>1. HandoffInv
  BY InitHandoff DEF GateInit
<1>2. \A e \in Evals : eval[e] = NoEval
  BY DEF GateInit
<1>3. NoEval \in Evaluations
  BY DEF NoEval, Evaluations, Admissions
<1>. QED
  BY <1>1, <1>2, <1>3 DEF GateInv, GateTypeOK, HandoffInv, GateInit, NoEval, Backed

LEMMA HandoffStepKeepsGate ==
  ASSUME GateInv, [Next]_vars, UNCHANGED eval
  PROVE  GateInv'
<1>1. HandoffInv'
  BY NextKeeps DEF GateInv
<1>2. Consumed(File) => /\ Consumed(File)' /\ receipt'[File].call = receipt[File].call
                        /\ (receipt[File].phase = "settled" => receipt'[File].phase = "settled")
  BY ClaimLasts, GateAssumption DEF GateInv
<1>3. GateTypeOK'
  BY <1>1 DEF GateInv, GateTypeOK, HandoffInv
<1>4. \A e \in Evals : Backed(eval[e])'
  BY <1>2 DEF GateInv, Backed
<1>. QED
  BY <1>1, <1>3, <1>4 DEF GateInv

\* A step of an evaluation to something the handoff backs.
LEMMA EvalKeeps ==
  ASSUME GateInv, UNCHANGED vars, NEW e \in Evals, NEW v \in Evaluations, Backed(v),
         eval' = [eval EXCEPT ![e] = v]
  PROVE  GateInv'
<1>1. receipt' = receipt
  BY DEF vars, durable
<1>2. HandoffInv'
  BY NextKeeps DEF GateInv
<1>3. GateTypeOK'
  BY <1>2 DEF GateInv, GateTypeOK, HandoffInv
<1>4. \A d \in Evals : eval'[d] = IF d = e THEN v ELSE eval[d]
  BY DEF GateInv, GateTypeOK
<1>5. \A d \in Evals : Backed(eval[d])'
  BY <1>1, <1>4 DEF GateInv, Backed, Consumed
<1>. QED
  BY <1>2, <1>3, <1>5 DEF GateInv

LEMMA GateStepKeeps ==
  ASSUME GateInv, NEW e \in Evals, GateStep(e)
  PROVE  GateInv'
<1>1. UNCHANGED vars
  BY DEF GateStep, ReadAdmission, ReadReceipt, Decide
<1>2. Denied \in Evaluations /\ Denied.at = "deny"
  BY DEF Denied, NoEval, Evaluations, Admissions
<1>3. Backed(Denied)
  BY <1>2 DEF Backed
<1>4. eval[e] \in Evaluations /\ admission[File] \in Admissions /\ Backed(eval[e])
  BY GateAssumption DEF GateInv, GateTypeOK, TypeOK
<1>5. ASSUME eval' = [eval EXCEPT ![e] = Denied] PROVE GateInv'
  BY <1>1, <1>2, <1>3, <1>5, EvalKeeps
<1>6. ASSUME ReadAdmission(e), admission[File] # None PROVE GateInv'
  <2>. DEFINE v == [NoEval EXCEPT !.at = "admitted", !.read = admission[File],
                                  !.late = receipt[File].phase = "settled"]
  <2>1. eval' = [eval EXCEPT ![e] = v]
    BY <1>6 DEF ReadAdmission
  <2>2. /\ v \in Evaluations /\ v.at = "admitted" /\ v.read = admission[File]
        /\ v.late = (receipt[File].phase = "settled")
    BY <1>4 DEF Evaluations, NoEval
  <2>3. Consumed(File) /\ receipt[File].call = admission[File].call
    BY <1>6, GateAssumption DEF GateInv, HandoffInv, Behind
  <2>. HIDE DEF v
  <2>4. Backed(v)
    BY <2>2, <2>3, <1>6 DEF Backed
  <2>. QED
    BY <1>1, <2>1, <2>2, <2>4, EvalKeeps
<1>7. ASSUME ReadReceipt(e), Paper = None \/ ReceiptClaimed PROVE GateInv'
  <2>. DEFINE v == [eval[e] EXCEPT !.at = "checked"]
  <2>1. eval' = [eval EXCEPT ![e] = v] /\ eval[e].at = "admitted"
    BY <1>7 DEF ReadReceipt
  <2>2. /\ v \in Evaluations /\ v.at = "checked"
        /\ v.read = eval[e].read /\ v.late = eval[e].late
    BY <1>4 DEF Evaluations
  <2>. HIDE DEF v
  <2>3. Backed(v)
    BY <2>1, <2>2, <1>4, <1>7 DEF Backed, ReceiptClaimed
  <2>. QED
    BY <1>1, <2>1, <2>2, <2>3, EvalKeeps
<1>8. ASSUME NEW c \in Calls, eval[e].at = "checked", Admitted(e, c),
             eval' = [eval EXCEPT ![e] = [@ EXCEPT !.at = "allow", !.read = None, !.call = c]]
      PROVE  GateInv'
  <2>. DEFINE v == [eval[e] EXCEPT !.at = "allow", !.read = None, !.call = c]
  <2>1. eval' = [eval EXCEPT ![e] = v]
    BY <1>8
  <2>2. v \in Evaluations /\ v.at = "allow" /\ v.call = c /\ v.late = eval[e].late
    BY <1>4 DEF Evaluations, Admissions
  <2>. HIDE DEF v
  <2>3. Backed(v)
    BY <2>2, <1>4, <1>8 DEF Backed, Admitted
  <2>. QED
    BY <1>1, <2>1, <2>2, <2>3, EvalKeeps
<1>. QED
  BY <1>5, <1>6, <1>7, <1>8 DEF GateStep, ReadAdmission, ReadReceipt, Decide

THEOREM GateHolds == GateSpec => []GateInv
<1>1. GateInv /\ [GateNext]_gateVars => GateInv'
  <2>. SUFFICES ASSUME GateInv, [GateNext]_gateVars PROVE GateInv'
    OBVIOUS
  <2>1. CASE UNCHANGED gateVars
    BY <2>1, HandoffStepKeepsGate DEF gateVars
  <2>2. CASE GateNext
    BY <2>2, HandoffStepKeepsGate, GateStepKeeps DEF GateNext
  <2>. QED
    BY <2>1, <2>2
<1>. QED
  BY InitGate, <1>1, PTL DEF GateSpec

(* What the evaluations have read has its type.                            *)
THEOREM GateTypes == GateSpec => []GateTypeOK
<1>1. GateInv => GateTypeOK
  BY DEF GateInv
<1>. QED
  BY <1>1, GateHolds, PTL

(* Whatever is claimed, settled or removed between the reads of an         *)
(* evaluation, the gate admits the claiming call only, and with a receipt  *)
(* configured none that comes after the settlement.                        *)
THEOREM GateAdmitsNoReplay == GateSpec => []NoReplay
<1>1. GateInv => NoReplay
  BY DEF GateInv, Backed, Consumed, NoReplay
<1>. QED
  BY <1>1, GateHolds, PTL

(* The gate only reads: with it next to it, the handoff is still the       *)
(* handoff, and its theorems hold.                                         *)
THEOREM GateKeepsHandoff == GateSpec => Spec
<1>1. GateInit => Init
  BY DEF GateInit
<1>2. [GateNext]_gateVars => [Next]_vars
  BY DEF GateNext, GateStep, ReadAdmission, ReadReceipt, Decide, gateVars
<1>. QED
  BY <1>1, <1>2, PTL DEF GateSpec, Spec
=============================================================================
