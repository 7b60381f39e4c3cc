# TLA+ models of the orchestration runtime

The repository coordinates AI agents that work on one machine: a planner
decides, workers are dispatched into runtimes, and everything they agree on is
kept in JSON files that separate PowerShell processes and TypeScript plugins
read and write.  There is no server and no database.  What makes the system
correct is the discipline of those files: who may write one, under which lock,
against which revision, and what a process that died half way leaves behind.
That discipline is what these modules model.

Paths below are relative to `src/`; `lib/` stands for `scripts/v3/lib/`.

## 1. Inventory

| component | source | state it keeps | operations | interacts with |
|---|---|---|---|---|
| Write leases | `lib/OrchestrationOwnership.ps1` | `lease-<task>.json` per task, `.leases.lock` | acquire, release, recover, list | completion gate of the task kernel reads the list |
| Goal store | `lib/OrchestrationGoalKernel.ps1` | one record per goal with state, revision, tasks and an optional ownership (owner, generation, lease); `.goal.lock` | new, get, save, update, state, tasks, acquire, renew, takeover | objective runtime, checkpoints, promotion |
| Task kernel | `lib/OrchestrationTaskKernel.ps1` | one record per task: state, revision, attempts, results, verification, review, budgets | transitions, attempts, worker result, verification, review, waits, watchdog settlement, complete, cancel | native dispatch, verifier, leases, watchdog |
| Native dispatch | `lib/OrchestrationNativeDispatch.ps1` | a receipt and an admission file per dispatch, a lock for the receipts of a goal, a lock per task | prepare, claim, settle, reconcile, advance | task kernel, goal store, G1 plugin |
| G1 dispatch admission | `plugins/g1-dispatch-admission/index.js`, `scripts/v3/native-dispatch-claim.ps1`, `lib/OrchestrationNativeDispatchGrantProjection.ps1` | the dispatch bound at setup; per call a promise, a timer and a child process | permission gate (evaluate), isolated claim gate (before execute) | native dispatch, through its files and through a child process |
| Enforcement plugin | `plugins/orchestration-enforcement/` (`v1.ts`, `v2.ts`, `shared/identity.ts`, `mandate.ts`, `telemetry.ts`, `sanitize.ts`) | a bounded index of sessions and the set of rows already logged, both shared by all instances in the process | set up, follow the event stream, append a mandate to a context, note tool calls, clean up | planner wait, MCP transport, the host |
| Remote execution | `scripts/remote-exec/` | per call the flags of its run, a local client process, a timer | run a shell or a Docker command on the fixed host | the other machine, MCP hosts |
| Planner wait | `plugins/.../shared/planner-wait.ts`, `lib/OrchestrationPlannerWait.ps1`, `OrchestrationPlannerWaitBridge.ps1`, registration and confirmation in `OrchestrationGitHubResume.ps1` | per call a promise, a timer and a child process; the directory of waits | invoke, spawn, feed, close, time out, overflow; bind, verify, register; confirm an event | task kernel, goal store, GitHub wake |
| MCP transport | `plugins/.../shared/mcp-transport.ts` | a bounded table of circuits, one per server, class and turn | admit, probe, refuse, succeed, fail, time out, abort | MCP servers |
| Objective runtime | `lib/OrchestrationObjectiveRuntime.ps1`, `OrchestrationObjectiveController.ps1`, `scripts/v3/objective-step.ps1` | event ledger, dispatch envelopes | step of an objective: event idempotency, dispatch compare-and-set, advance | goal store, task kernel, native dispatch |
| Autonomous loop | `lib/OrchestrationAutonomousLoop.ps1`, `OrchestrationAutonomyWiring.ps1` | loop state, iteration and no-progress counters | tick, stop conditions | objective runtime, budget |
| Settled recovery, durable resume | `lib/OrchestrationSettledRecovery.ps1`, `OrchestrationDurableResume.ps1`, `OrchestrationNativeResume.ps1` | recovery intents | continue from a settled dispatch once | native dispatch, task kernel |
| Runtime watchdog | `lib/OrchestrationRuntimeWatchdog.ps1` | observations of a runtime, steer and interrupt proofs | observe, steer, interrupt, settle | task kernel |
| Goal checkpoint | `lib/OrchestrationGoalCheckpoint.ps1` | checkpoint files | write, read newest | goal store |
| Execution budget | `lib/OrchestrationExecutionBudget.ps1` | reservations and spending per goal and task | reserve, settle, release | task kernel, loop |
| Model router | `lib/OrchestrationModelRouter.ps1` | cooldown of models | resolve, fall back | dispatch |
| GitHub wake and await | `scripts/v3/github-*.ps1`, `lib/OrchestrationGitHubResume.ps1` | wake leases, delivered events, scheduled tasks | await, wake, resume, auto-dispatch | objective runtime |
| Delivery, merge | `lib/OrchestrationDelivery*.ps1`, `OrchestrationMergeMediated.ps1`, `OrchestrationWorktree.ps1` | slices, worktrees | deliver, merge under mediation | task kernel |
| Evidence, verifier | `lib/OrchestrationEvidence*.ps1`, `OrchestrationVerifier.ps1` | evidence store | append, verify | task kernel |
| Capability family | `lib/Capability*.ps1`, `OrchestrationMcpSafety.ps1` | registries, shadow logs | resolve, route, evaluate | dispatch (advice only) |
| Preflight and mandate | `lib/OrchestrationPreflight.ps1`, `shared/mandate.ts` | none, pure functions of a request | classify | enforcement plugin |
| Telemetry and evolution | `lib/DevTelemetry.ps1`, `OrchestrationEvolution*.ps1` | append-only logs | record, propose | none |
| Installer, CI | `install.ps1`, `uninstall.ps1`, `scripts/ci`, `scripts/runtime` | installed files | install, probe | none |

### What is hard, and what makes each part correct

*Write leases.*  Acquisition is a scan of every file followed by a write.  The
scan and the write are apart, time passes between them, recovery deletes files
meanwhile, and a file may be damaged: a file that does not say whose lease it
is is judged by its age, against the duration of whoever looks at it, and one
without a usable expiry counts as inactive.  Correct: no two tasks ever hold
leases that bind over overlapping scopes; nothing but its release, its expiry or
the loss of its expiry takes a lease away before the shortest duration in use
has passed; no caller waits forever.

*Goal store.*  The store has two ways to write a record.  Callers without an
owner save copies blindly; operations with an owner compare revision, owner,
generation and lease under the lock.  Correct: once a goal has an owner every
change is made by the holder of the current generation or by a takeover of an
expired lease; a replaced owner can never write again; no update is lost; a
goal that has ended does not change.

*Task kernel.*  One record with many fields that must agree: a task is complete
only with a verified result of its last attempt, an approved review if one is
required, no open wait and no live lease.  Correct: the gates cannot be passed
with stale evidence, terminal states are final, attempts and revisions only grow.

*Native dispatch.*  A dispatch is prepared, claimed once by a plugin, causes an
effect outside of the store, and is settled with the result.  A process may die
between any two of these.  Correct: at most one effect per claim, an effect is
never forgotten, two dispatches of one task are never in flight together, and
whatever is left behind can be reconciled.

*Planner wait.*  Three parties take part in one call: the plugin, whose
callbacks race (a timeout with an answer, an output limit with an exit), the
child process, which binds a session and registers a wait in files that other
children, goal owners and resumers write at the same time, and the planner, who
tries again when it was told no.  Correct: every call is answered once and its
child ends; "ok" is said only of a binding and a wait that exist; nothing that
a killed child leaves behind is in the way of the next attempt.

*MCP transport.*  Calls that began at different times end in any order and write
one circuit.  Correct: a server that is down is left alone and then tried by one
call at a time, and no call that went wrong leaves the circuit shut for good.

*G1.*  The isolated gate claims in a child process, which may be killed after it
has claimed, and which reads the context again that the gate bound at setup.
Correct: a dispatch is claimed once and for good, a call goes through only on
its own claim of the expected dispatch, every run is decided.  The permission
gate reads two files that a settlement changes one after the other.  Correct: no
call is admitted on a dispatch that was settled before.

*Remote execution.*  A client's output, errors and end, the timer and the
caller's cancellation arrive in any order, and the command goes on elsewhere when
the client is gone.  Correct: PASS and FAIL are said only of a command that came
to that; every call is answered; no client is left behind unasked.

*Enforcement plugin.*  Instances share their caches; events may arrive after the
cleanup, name less than earlier ones, or be one too many for the index.  Correct:
one mandate per context, a child session is told to be a worker, nothing is left
after the last cleanup.

*Objective runtime, loop, recovery, wake.*  Events arrive twice or late, two
processes try to continue from the same settled step.  Correct: one event, one
advance; a stopped objective stays stopped.

## 2. Plan

In the order of what would hurt most when wrong:

1. `WriteLease` and its proofs (done).
2. `GoalKernel` against the abstract `FencedGoal`, and its proofs (done).
3. `BindingOps` and `TaskBinding`: the session bindings of a task record, and
   their proofs (done).
4. `PlannerWait`: the plugin's callbacks, the child process and the files it
   shares, composed with `BindingOps`, and its proofs (done).
5. `McpTransport`: the circuit breaker, and its proofs (done).
6. `DispatchHandoff`: receipts and admissions with prepare, claim and settle, and
   `AdmissionGate` next to it, with their proofs (done; reconcile, advance and the
   evidence of a settlement are left).
7. `ClaimBridge` against the abstract `OneShot`, with its proofs (done).
8. `RemoteExec` and `EnforcementPlugin`, with their proofs (done).
9. `TaskKernel`: the task record and its gates, over `BindingOps`; then composed
   with `DispatchHandoff`, with `WriteLease` behind the completion gate (left).
10. `ObjectiveStep`: event idempotency, dispatch envelope and advance, composed
   with `GoalKernel`; settled recovery (left).
11. Watchdog, GitHub wake (which composes with `PlannerWait`), budget (left).

Every module is written to be proved about: parameters are constants with named
assumptions, one action per operation or per place where another process can
come between, no recursive operators.  Every safety property and every action
property that a run checks has its theorem.  Theorems worth proving next: that a
process that is inside an operation on the leases or the handoff can always go on
or give up, that two tasks bind one session only if their bridges overlap, and
the gates of `TaskKernel`.

## 3. The modules and the code

| module | models | state | actions |
|---|---|---|---|
| `WriteLease` | `OrchestrationOwnership.ps1` | `file`, one lease file per task; `granted`, what callers were told; `holder` of the directory lock; per process a program counter, its request and the loop variables of the scan | one per place where other processes can come between: lock, every file of the scan, the time stamp, the write, every file of a recovery, the delete of a release, unlock; crash, damage and its repair, clock |
| `FencedGoal` | the promise of the goal store | content and authority | free write, acquire, takeover, commit |
| `GoalKernel` | `OrchestrationGoalKernel.ps1` | `disk`; copies in memory `mem`; `token`, the ownership a process was told; the lock and the record staged under it | new, get, edit in memory, call, the steps under the lock with both commit gates, crash, clock |
| `BindingOps` | `Invoke-OrchestrationTaskSessionBinding` | none: for each operation its answer and the bindings it writes | |
| `TaskBinding` | the same operation under the record's revision | `bindings`, `revision`, `seen` by each process | look, bind, bind worker, rebind, detach, touch |
| `PlannerWait` | `planner-wait.ts`, `OrchestrationPlannerWait.ps1`, the bridge, registration and confirmation of waits | task records, the goal, the directory of waits, the plugin's and the child's side of each call, what each resumer read | one per callback of the plugin, one per file access of the bridge, read and confirm of a resumer, what other processes do to goal and tasks |
| `OneShot` | the promise of the isolated claim gate | who took each dispatch, what was said in each run | take, pass, close |
| `ClaimBridge` | `plugins/g1-dispatch-admission/index.js` (the gate before a tool call), `native-dispatch-claim.ps1` | receipts, the context file, the bound dispatch, the verdict and the child of each run | one per callback of the bridge, one per step of the child (context, claim, answer, failure, death), rotation of the context, restart of the host |
| `DispatchHandoff` | claim and settle of `OrchestrationNativeDispatch.ps1` | receipts, admission files, revision and result of each task, state of each goal, both locks, where each process is | one per lock, check and write; prepare; stop at any place; other writers of tasks and goals |
| `AdmissionGate` | the permission gate of `plugins/g1-dispatch-admission/index.js` | the above, and what each evaluation has read | read the admission, read the receipt, decide |
| `RemoteExec` | `scripts/remote-exec/direct-executor.mjs` and its servers | per call its flags, its client, whether it was killed, the command on the other machine, the answer | one per event of the client, timer, cancellation; the other machine |
| `EnforcementPlugin` | `v2.ts`, `identity.ts`, `mandate.ts`, `telemetry.ts`, `sanitize.ts` | instances, events under way, the index in its order, system arrays, rows | publish, deliver, context, tool event, set up, clean up |
| `McpTransport` | `mcp-transport.ts` | `circuit`, `age` (the order of the bounded table), `call`, `now` | admit, probe, shadow, three refusals, the five ends of a call, clock |

How code becomes an action.  A PowerShell operation that works under a lock is
cut where it reads the clock, another file or the same file again; what lies
between is one step.  The plugins run on one event loop, so one callback is one
step and an `await` separates steps.  An operation that refuses is an action of
its own only if it leaves a trace (an answer, a released lock).  Replacing a
file by a rename is one step; `Move-Item -Force` may lose both files in a crash
between its two halves, which is listed as a hazard and not modelled.

What is abstracted.  Scopes are sequences of path components, already
normalised.  A damaged lease file is unreadable (`garbled`, for a while or for
good), or a record without a usable task id (`nameless`), expiry (`dateless`) or
scopes (`scopeless`), or several of these; a well-formed value that somebody
forged is not damage.  What a caller asks of the lease library is chosen when it
gets the lock, because nothing before depends on it.  The contents of a goal beside state, revision, tasks and ownership
are one value; in `DispatchHandoff` a goal is active, paused or taken by another
owner.  A pull request with its repository and head commit is one value,
so are the terms of a wait.  A tool call and a dispatch suit each other or do not,
which stands for the comparison of session, agents, arguments and prompt.  The
projection of grants has three outcomes: clear, barred, unreadable.  An agent
name is known by its role, not known, or not given.  Times are small integers.  Validation of argument
shapes, telemetry and wording are left out everywhere.

## 4. The runs

| run | instance | shows |
|---|---|---|
| `lease_damage` | 2 tasks, 2 processes, a directory and a file in it, durations 1 and 3, every damage to the file of one task | `ExclusiveScopes`, `LiveLeaseKept` under all interleavings, crashes, expiries and damage: a file that does not say whose lease it is blocks until it is older than the shortest duration, one without scopes for as long as its lease lives; `OperationsEnd` |
| `goal_authority` | 2 processes, owners alice, ALICE and bob, one task, 4 revisions | the store implements `FencedGoal` (`RegisterSpec`); `OneHolder`, `HolderWrites`, `TasksKept` |
| `binding_safe` | 2 processes, 2 runs, 3 sessions, 7 revisions | `OneRunPerWorker`, `ActiveIsMember`, `OwnerGivesWay` |
| `binding_transfer` | 1 process, 2 runs, 2 sessions | violated: rebind of a detached run takes the execution from another run |
| `planner_rivals` | 3 calls of 2 sessions for one task, one with other terms and a broken pipe; the goal and the task change twice, in seven ways | `OkIsRegistered`, `OkIsBound`, types |
| `planner_retry` | one call with every fault but a broken pipe, repeated by one that runs to its end; 2 resumers and 2 events; one detach | `RetrySucceeds`, `WaitKept`, `CallsAnswered`, `ChildrenEnd` |
| `mcp_probe` | 4 calls of one circuit, one of them shadow, 2 of another, room for one circuit, budgets below the cooldown | `OneProbe`, `ReservationHeld`, `RefusalsEarned`, `LeftAlone`, types |
| `mcp_long` | 5 calls whose budgets exceed the cooldown | violated: two probes at a time |
| `claim_gate` | 2 runs for 2 calls, 2 dispatches that suit them differently, rotations and restarts | `ClaimKept`, `BoundEffect`, `RunsEnd`, the refinement `OneShotKept`, types |
| `handoff_gate` | 2 processes, 2 dispatches of one task in 2 goals, 2 calls, one evaluation, one goal that turns, one other write to the task | `TaskExclusive`, `AdmissionBacked`, `ResultOnce`, `NoReplay`, types |
| `remote_calls` | one shell and one Docker command | `Truthful`, `NoStray`, `CallsEnd` |
| `plugin_index` | 2 instances, 2 children and a root in an index of 2, a log of 1, one context | `OneMandate`, `ChildStaysWorker`, `CleanAfterwards`, `RowsOnce`, types |

Bounds.  Two processes are enough for the file protocols: a property names at
most two parties, and a third process can only do what one of the two could have
done before or after.  Two tasks are what an overlap needs, with a scope above
the other in both orders.  In `lease_damage` the durations are 1 and 3 and the
clock goes to 2, so that an unreadable file can be stale for the caller with the
short duration, who may sweep it or acquire over it, while its lease of 3 lives
and the caller with the long one still respects it; a lease of 1 lapses.
`goal_authority` needs four revisions: a new goal, an
acquisition, a takeover, and the commit of the replaced owner; its clock allows
one lapse.  `binding_safe` needs a revision for each of bind, worker, detach,
bind of the other run, rebind, and one more.  `planner_rivals` needs two changes,
so that a lease can lapse and another owner take over while a bridge is between
two reads.  `mcp_probe` needs two failures to open the circuit, a probe, a rival
of the probe, and a call of the second circuit to evict the first; its clock
reaches the end of the first cooldown, where probes are sent and fail.
`claim_gate` needs two calls that one dispatch suits both, to race for it, and a
second dispatch to rotate to.  `handoff_gate` needs two goals, since only the
lock and the scan of the task reach across them, and a revision to spare, so that
a record and another writer meet.  `plugin_index` needs one session more than the
index holds.  The bounds are the constants `MaxClock`, `MaxRevision`, `MaxRev`,
`MaxChanges`, `MaxTime` and `Turning`; each is a guard of the one action that
counts.  `ClaimBridge`, `RemoteExec` and `EnforcementPlugin` count nothing.

Symmetry is used in runs without liveness properties, for model values that no
definition tells apart.  In `goal_authority` alice and ALICE are exchanged too,
because a canonical spelling is only ever compared with another.
`CHECK_DEADLOCK FALSE` stands where calls, runs or evaluations are made once:
when all are over the system is at rest.

Fairness.  `lease_damage` (`FairSpec`): a process that is inside an operation
goes on, because the operating system schedules it; callers need not call and
crashes need not happen.  The lock is tried a bounded number of times, so weak
fairness is enough.  `planner_retry` (`LiveSpec`): a call that waits for the
host's answer gets one, a timer that is set fires, a process that was killed dies
and its end is reported (these are promises of the host and of Node).  A bridge
to which faults may happen owes nothing else: it may hang at every step and keep
its process.  Only the bridge of the repeated call runs to its end.  A pipe that
breaks while the request is written is left out of this run: `planner-wait.ts:737`
then answers and does not kill the child, so that the child's end depends on the
child alone, which reads an empty request and refuses.  The run `planner_rivals`
has this fault.  `claim_gate`: the timer of a run fires and a killed child dies;
the child owes nothing, so that a run whose child hangs is decided by its timer.
`remote_calls`: timers fire, the delayed finish of a stop runs, a failed start is
reported; nothing is assumed of the client, not even that its end is seen, nor of
the other machine.

Timers.  `McpTransport` lets no enforced call live past its deadline before the
deadline fires (`Tick`): timers are punctual and the clock does not go back.  An
error of the server and a timeout share the outcome `failed`; they are told apart
in the code only for the report.  In `ClaimBridge` and `RemoteExec` a timer may
fire at any moment: early, late, or between any two events.

## 5. Disagreements found

* `binding_transfer`: rebind (`OrchestrationTaskKernel.ps1:1448`) does not look
  at the active session; the record of the phase says that a transfer during an
  active attachment is forbidden.
* `mcp_long`: a late failure of an older call (`mcp-transport.ts:1198`) frees
  the place of a probe that is under way; two comments say that exactly one probe
  runs.  It takes budgets above the cooldown, which long-running contracts may
  have; below it `ProbesAreSingle` proves the comment right.

Read, and not checked by a run of its own: the header of the lease library
(`OrchestrationOwnership.ps1:17-20`) says that malformed lease files are
fail-closed.  A record that parses but has no usable `expires_at` is not treated
as malformed: `Test-OwnershipLeaseActive` (427-471) calls it inactive, as
`OrchestrationOwnership.tests.ps1:206-213` assert, so the conflict scan skips it
(737) and recovery deletes it at once (940-950), although the lease was granted
and has not expired.  The model does what the code does, and `Binds`, over which
`ExclusiveScopes` and `LiveLeaseKept` are stated, excepts exactly these leases;
without the exception TLC finds both violated.

Also read only: `Save-OrchestrationGoal`
(`OrchestrationGoalKernel.ps1:549`) writes any record without an owner over any
other, terminal ones included, while the header (26-28) says that a goal is
immutable once terminal.  `FencedGoal` lets a goal that nobody owns be written by
anybody, so the refinement does not contradict the code; with an owner
`RegisterSpec` forbids it.

## 6. The proofs

All theorems hold for every value of the constants that satisfies the named
assumptions of the modules: disjointness of the "none" values from what they
stand beside, durations and budgets that are positive, finiteness where it is
used.  The bounds on clocks and revisions are assumed to be naturals only.

*`WriteLeaseProofs`.*  `LeaseInv` strengthens `ExclusiveScopes`.  By itself that
property is not inductive: it must be known that only the holder of the lock is
inside (`LockInv`), that a scan without a clash has passed no live rival
(`ScanInv`), and what a file says of the grant it stands for (`FileInv`).  The
last one is where damage enters: a file reflects the grant it stands for
(`Reflects`), with no more harm than the lease is known to have suffered and no
older than the grant.  Hence a file that does not say whose lease it is, of a
lease that binds, is fresh for every duration (`UnknownIsFresh`), and any other is
active (`KnownIsActive`); both the scan and recovery rest on these two lemmas.
What a lease is worth only lapses, by the clock or by damage (`BindsLapses`), so
a scan under way stays good.  `LeasesExclude` has no hypothesis on durations or
damage: what damage costs is said in `Binds`.

*`GoalKernelProofs`.*  `GoalInv` is the types, the lock, and `StageInv`: what is
staged under the lock is what the gates admitted, of the record that is still on
disk.  From it follow the refinement of `FencedGoal`, `HolderWrites` and
`TasksKept`.  `OneHolder` needs two more parts: `TokenInv` (a process of an older
generation knows a lease that has expired) and, for one lease duration
(`UniformTtl`), that no lease ends later than one granted now.

*`McpTransportProofs`.*  `OneProbe` is not inductive: a failure resets the place
of a probe.  `ProbesPlaced` says why no second probe follows: a probe either
holds the place, or the circuit was opened again after the probe began, and then
the next probe waits for a cooldown, which a budget below the cooldown does not
outlast (`Timely`).  `ReservationHeld` needs that only open circuits have a
probe (`EntriesAgree`) and, for evictions, that an evicted circuit has no entry.
`RefusalsEarned` follows from `CountInv`: no circuit counts more failures than
its calls had, since each failure is counted once by the call that ends with it.
`LeftAlone` speaks of as many failures in a row as the threshold asks for, in the
order in which the calls ended, and needs the converse, `StreakInv`: a circuit
counts at least the failures that ended since any failure after which nothing
else ended, and once they reach the threshold it is open since the last of them.
A step either records no outcome and keeps the counts, or records one now
(`UnrecordedKeeps`, `RecordsKeep`); a write of another circuit, which may evict
this one, ends every such row.

*`PlannerWaitProofs`.*  The first part is about `TaskBinding`: `BindingInv` is
inductive by one lemma per operation about the bindings it writes, and
`OneRunPerWorker` rests on `ClaimedElsewhere` looking at roots and workers,
detached runs included.  The same lemmas give `RecordsStaySound` for every task
record of `PlannerWait`, where a bridge decides on what it read some steps ago
and the revision decides whether it may write.  `WaitInv` says what a child is at each place: it names a
run from the bind on (`Chosen`), it decides once and a call is told "ok" only of
a child that is gone with that verdict (`Ordered`), and a child that says "ok"
has its own registration in the directory (`Registered`).  Every step of a plugin
or a bridge is a `CallStep`, which sets one call and its child and keeps the
waits (`KeepsWaits`); this is `WaitKept`, and it carries `Registered` past the
steps of all others.  `OkIsBound` needs more and holds less often: only the
verification makes a child one that has verified (`VerifiedFrom`), and while
nobody detaches no bind displaces the session that executes (`HoldsLasts`).

`RetrySucceeds` is proved (`RetriesSucceed`) for any chain of calls that repeat
one request, on these conditions (`Repeats`): the request names its run, each
call but the first repeats the one before it, and nothing but detaches changes
the goal and the tasks meanwhile.  Any fault may befall the calls that may have
faults, any number of resumers may confirm events, and there may be other tasks.
The conditions are the instance of `planner_retry`, and they are needed: a
renewed lease makes the repeat `wait-divergent`, and a record that another
process writes between the reading and the bind is refused.  `RetryInv` says that the bindings of the task are nobody's, the
caller's, or the caller's before a detach (`Free`, `Ours`, `Left`), that a wait
that exists is the one the request asks for (`Alike`), that a call begins only
when those before it are answered and their children gone (`InTurn`), and hence
that what a child has read still holds when it writes (`Course`); so a call to
which nothing happens is refused only after a detach (`Unharmed`).  `InTurn` is
where the proof rests on the plugin: a call is answered and its child is gone
before the planner repeats it, which is how the property reads "over".

*`ClaimBridgeProofs`.*  `GateInv` says of every child that has claimed that the
receipt it names is consumed by the call of its run, and of two children that
claimed one dispatch that they are one.  Since a receipt leaves `prepared` once,
`ClaimKept` follows, and `BoundEffect` from what `Accepts` compares.
`GateIsOneShot` maps a dispatch to the runs whose child has claimed it and a
verdict to its outcome: only `Claim` is a take, only `Close` with an accepted
answer is a pass, and everything else, a restart with all its open runs included,
closes or stutters.

*`AdmissionGateProofs`.*  `HandoffInv` is what a process relies on at each place
(`Relies`), what stands behind a record or an admission (`Behind`), and
`TaskExclusive`.  Only the lock of the task makes `Relies` survive the steps of
others (`LockInv`, `OthersRely`): the lock of the goal is never cited, which says
that two goals of one task are safe by the lock of the task alone.  `ResultOnce`
needs that a record leaves the revision past the one the dispatch was prepared
for.  The gate's part, `Backed`, carries what an evaluation read to the moment it
decides: a claim is never taken back or passed to another call (`ClaimLasts`).

*`RemoteExecProofs`.*  `ExecInv` ties each answer to the flags, the client and
the command; `Doubt` is the lemma that anything noticed makes an answer UNKNOWN.

*`EnforcementPluginProofs`.*  The index and the log grow by one operator, so the
proofs begin with what it does to any sequence without repetitions
(`TableInserted`): the new element is in, and at most the oldest is out, and only
if there was no room.  `PluginInv` then says that the index holds what has
entries and every session whose parent is remembered (`IndexInv`), that the log
holds exactly the keys whose rows count as written (`LogInv`), and what the host
may call (`HostInv`).  `ChildStaysWorker` is a property of steps and follows from `IndexInv`: an event
that names no parent does not take back what an earlier one said (`Merged`), and
as long as the session is in the index the mandate is chosen from that entry.

Only model-checked are the liveness properties `OperationsEnd`, `CallsAnswered`,
`ChildrenEnd`, `RunsEnd` and `CallsEnd`, which with `ENABLED` are out of the
prover's reach.  The hypotheses of theorems beside the named assumptions are
one duration of goal leases (`OneLiveHolder`), no detach (`OkMeansBound`) and `Repeats` with only
detaches (`RetriesSucceed`); each holds of the instance the run checks.

## 7. What is not modelled

The components without modules are listed with their reasons in `PROJECT.json`.
Inside the modelled ones: the lock-free listing of leases; the next-move helper
of the goal store; the shape checks of the planner-wait arguments, the set-up of
the tool and the bridge's directory checks; the policy file, telemetry and test
resets of the MCP transport; reconcile, advance, the legacy invoke and the marks of
attempt and evidence in native dispatch; the shapes of requests, answers and files
of the G1 plugin; the texts of mandates; the first host's adapter (`v1.ts`), which
feeds the same index and log from its own hooks.  `runMcpGuarded` has no caller in the repository:
the module models it as the library it is.

The properties leave these open, on purpose.  One session may be bound on two
tasks at once, since the scan of the other tasks takes no lock; TLC reaches it,
and `docs/ARCHITECTURE.md:525-526` leaves the coordination across tasks open.  A
renewal of the goal's lease between two attempts makes the second attempt
`wait-divergent`.  A detach by the root leaves an active worker active.  A
release names a task and no holder.
