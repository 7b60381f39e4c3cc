---------------------------- MODULE PlannerWait ----------------------------
(***************************************************************************)
(* The planner-wait tool.  A planner session asks to be woken when a pull  *)
(* request is ready.  The plugin checks who asks, starts one child process *)
(* for the call, hands it the request and answers the planner when the     *)
(* child closes, when its timer fires, or when something goes wrong.  The  *)
(* child, the bridge, binds the session to a run of the task under the     *)
(* task record's revision and then registers the wait in a directory of    *)
(* its own.                                                                *)
(*                                                                         *)
(* The plugin's callbacks run one at a time, so each is one step.  Every   *)
(* file the bridge reads or writes is one step of the bridge: between them *)
(* other bridges run, the goal and the task change, and the child may be   *)
(* killed by its parent or die by itself.                                  *)
(***************************************************************************)
EXTENDS BindingOps, Naturals, FiniteSets

CONSTANTS Call,        \* invocations of the tool
          Task,
          Pull,        \* repository, pull request and head commit
          Terms,       \* branch, checks, review, cursor, deadline, budget
          NoRun,       \* a request that leaves the run to the bridge
          NoWait,
          NoCall,
          Request,     \* what each call asks for
          RetryOf,     \* the call that this one repeats, or NoCall
          Resumer,     \* processes that confirm delivered events
          Event,
          Faults,      \* what may go wrong
          Faulty,      \* the calls to which it may happen
          Changes,     \* what other processes do to the goal and the tasks
          MaxChanges   \* bound on how often they do it

FaultKinds == {"crash", "flood", "stdin", "spawn", "lock", "lookup", "timeout"}
ChangeKinds == {"renew", "lapse", "takeover", "end", "drop", "finish",
                "touch", "detach"}

Requests == [session : Session, task : Task, run : Run \cup {NoRun},
             pull : Pull, terms : Terms]

ASSUME PlannerWaitAssumption ==
  /\ NoRun \notin Run
  /\ NoCall \notin Call
  /\ Request \in [Call -> Requests]
  /\ RetryOf \in [Call -> Call \cup {NoCall}]
  /\ Faults \subseteq FaultKinds /\ Faulty \subseteq Call
  /\ Changes \subseteq ChangeKinds /\ MaxChanges \in Nat

VARIABLES record,      \* task records
          goal,        \* the goal and its ownership
          waits,       \* the directory of registered waits
          tool,        \* the plugin's side of each call
          bridge,      \* the child process of each call
          resumer,     \* what each resumer read
          changes

vars == <<record, goal, waits, tool, bridge, resumer, changes>>

Generation == 1 .. MaxChanges + 1
Lease      == 1 .. MaxChanges + 1

Record == [open : BOOLEAN, revision : Nat, bindings : Bindings]

Goal == [active : BOOLEAN, held : BOOLEAN, generation : Generation,
         lease : Lease, tracks : SUBSET Task]

(* What a wait registers; only the events change afterwards.               *)
Registration == [task : Task, run : Run, terms : Terms, lease : Lease]

Wait == [by : Registration, events : SUBSET Event]

ASSUME NoWaitAssumption == NoWait \notin Wait

WaitKey == Pull \X Generation

Refusals == {"task-terminal", "goal-not-active", "ownership-not-held",
             "task-not-in-goal", "session-bound-elsewhere", "run-required",
             "run-ambiguous", "run-divergent", "run-detached", "cas-conflict",
             "bind-conflict", "lock-timeout", "binding-verify-failed",
             "wait-divergent", "wait-lock-busy", "wait-persist-failed",
             "bridge-envelope-unreadable"}

Verdicts == Refusals \cup {"none", "ok", "dead"}

Steps == {"none", "boot", "goal", "scan", "bind", "verify", "lookup",
          "write", "exited", "gone"}

Answers == {"none", "ok", "denied", "timeout", "output-unbounded",
            "stdin-failed", "spawn-failed", "refused"}

Bridge == [step : Steps, fed : BOOLEAN, killed : BOOLEAN, verdict : Verdicts,
           revision : Nat, generation : Generation, lease : Lease,
           scanned : SUBSET Task, run : Run \cup {NoRun}]

Tool == [stage : {"idle", "checking", "running"}, done : BOOLEAN,
         timer : BOOLEAN, answer : Answers]

Resume == [key : WaitKey, saw : Wait, event : Event]

TypeOK ==
  /\ record \in [Task -> Record]
  /\ goal \in Goal
  /\ waits \in [WaitKey -> Wait \cup {NoWait}]
  /\ tool \in [Call -> Tool]
  /\ bridge \in [Call -> Bridge]
  /\ resumer \in [Resumer -> Resume \cup {NoWait}]
  /\ changes \in 0 .. MaxChanges

Init ==
  /\ record = [t \in Task |-> [open |-> TRUE, revision |-> 1,
                               bindings |-> NoBindings]]
  /\ goal = [active |-> TRUE, held |-> TRUE, generation |-> 1, lease |-> 1,
             tracks |-> Task]
  /\ waits = [k \in WaitKey |-> NoWait]
  /\ tool = [c \in Call |-> [stage |-> "idle", done |-> FALSE,
                             timer |-> FALSE, answer |-> "none"]]
  /\ bridge = [c \in Call |->
       [step |-> "none", fed |-> FALSE, killed |-> FALSE, verdict |-> "none",
        revision |-> 0, generation |-> 1, lease |-> 1, scanned |-> {},
        run |-> NoRun]]
  /\ resumer = [q \in Resumer |-> NoWait]
  /\ changes = 0

May(c, fault) == fault \in Faults /\ c \in Faulty

Shared == <<record, goal, waits, resumer, changes>>
-----------------------------------------------------------------------------
(***************************************************************************)
(* The plugin.  finish() resolves the promise of the call once.            *)
(***************************************************************************)
Finish(t, answer) ==
  IF t.answer = "none" THEN [t EXCEPT !.answer = answer] ELSE t

Settle(t, answer) ==
  Finish([t EXCEPT !.done = TRUE, !.timer = FALSE], answer)

\* Fault: the child is not killed.
KillNever(b) == b

Kill(b) == [b EXCEPT !.killed = TRUE]

Child(c) == bridge[c].step \notin {"none", "gone"}

(* A call whose session, role and arguments pass asks the host who the      *)
(* session is.  A call that repeats another begins when that one has been   *)
(* answered and its child is gone.                                          *)
Invoke(c) ==
  /\ tool[c].stage = "idle"
  /\ RetryOf[c] # NoCall => /\ tool[RetryOf[c]].answer # "none"
                            /\ ~Child(RetryOf[c])
  /\ tool' = [tool EXCEPT ![c].stage = "checking"]
  /\ UNCHANGED <<bridge, Shared>>

(* The host does not know the session, or it is not a root session.         *)
LookupFails(c) ==
  /\ tool[c].stage = "checking" /\ tool[c].answer = "none"
  /\ May(c, "lookup")
  /\ tool' = [tool EXCEPT ![c] = Settle(@, "denied")]
  /\ UNCHANGED <<bridge, Shared>>

\* Fault: no timer is set.
StartedUntimed(t) == [t EXCEPT !.stage = "running"]

Started(t) == [t EXCEPT !.stage = "running", !.timer = TRUE]

(* The child is started and the request written in the same turn.           *)
Spawn(c) ==
  /\ tool[c].stage = "checking" /\ tool[c].answer = "none"
  /\ tool' = [tool EXCEPT ![c] = Started(@)]
  /\ bridge' = [bridge EXCEPT ![c].step = "boot", ![c].fed = TRUE]
  /\ UNCHANGED Shared

(* Writing throws at once: the call is answered, the child is left alone.   *)
SpawnUnfed(c) ==
  /\ tool[c].stage = "checking" /\ tool[c].answer = "none"
  /\ May(c, "stdin")
  /\ tool' = [tool EXCEPT ![c] =
                Settle(Started(@), "stdin-failed")]
  /\ \E fed \in BOOLEAN :
        bridge' = [bridge EXCEPT ![c].step = "boot", ![c].fed = fed]
  /\ UNCHANGED Shared

(* The process could not be started: an error event and no child.           *)
ChildError(c) ==
  /\ May(c, "spawn")
  /\ bridge[c].step = "boot" /\ ~tool[c].done
  /\ tool' = [tool EXCEPT ![c] = Settle(@, "spawn-failed")]
  /\ bridge' = [bridge EXCEPT ![c].step = "gone"]
  /\ UNCHANGED Shared

(* The pipe to the child breaks later.                                      *)
StdinError(c) ==
  /\ May(c, "stdin")
  /\ tool[c].stage = "running" /\ ~tool[c].done /\ bridge[c].step = "boot"
  /\ tool' = [tool EXCEPT ![c] = Settle(@, "stdin-failed")]
  /\ \E fed \in BOOLEAN :
        bridge' = [bridge EXCEPT ![c] = Kill([@ EXCEPT !.fed = fed])]
  /\ UNCHANGED Shared

(* The child writes more than the plugin accepts.                           *)
Overflow(c) ==
  /\ May(c, "flood")
  /\ tool[c].stage = "running" /\ ~tool[c].done
  /\ bridge[c].step \notin {"none", "gone", "exited"}
  /\ tool' = [tool EXCEPT ![c] = Settle(@, "output-unbounded")]
  /\ bridge' = [bridge EXCEPT ![c] = Kill(@)]
  /\ UNCHANGED Shared

Timeout(c) ==
  /\ May(c, "timeout")
  /\ tool[c].timer
  /\ tool' = [tool EXCEPT ![c] = Settle(@, "timeout")]
  /\ bridge' = [bridge EXCEPT ![c] = Kill(@)]
  /\ UNCHANGED Shared

\* Fault: the bridge's verdict goes to the planner as it is.
AnswerForwarded(b) == b.verdict

(* What a closed child means: exit code 0 and a well-formed document is the *)
(* bridge's own verdict, anything else is a refusal.                        *)
AnswerOf(b) == IF b.verdict = "ok" THEN "ok" ELSE "refused"

Close(c) ==
  /\ bridge[c].step = "exited"
  /\ tool' = IF tool[c].done THEN tool
             ELSE [tool EXCEPT ![c] = Settle(@, AnswerOf(bridge[c]))]
  /\ bridge' = [bridge EXCEPT ![c].step = "gone"]
  /\ UNCHANGED Shared
-----------------------------------------------------------------------------
(***************************************************************************)
(* The bridge.                                                             *)
(***************************************************************************)
Runs(c, step) == bridge[c].step = step

Exit(c, verdict) ==
  bridge' = [bridge EXCEPT ![c].step = "exited", ![c].verdict = verdict]

Refuse(c, verdict) == Exit(c, verdict) /\ UNCHANGED <<tool, Shared>>

(* Until its end is seen the bridge may die, even with its answer unprinted. *)
Dies(c) ==
  /\ Child(c) /\ bridge[c].verdict # "dead"
  /\ bridge[c].killed \/ May(c, "crash")
  /\ Refuse(c, "dead")

(* End of input without a request.                                          *)
NoEnvelope(c) ==
  Runs(c, "boot") /\ ~bridge[c].fed /\ Refuse(c, "bridge-envelope-unreadable")

ReadTask(c) ==
  LET t == record[Request[c].task] IN
  /\ Runs(c, "boot") /\ bridge[c].fed
  /\ IF ~t.open THEN Refuse(c, "task-terminal")
     ELSE /\ bridge' = [bridge EXCEPT ![c].step = "goal",
                                      ![c].revision = t.revision]
          /\ UNCHANGED <<tool, Shared>>

(* The first thing wrong with the goal decides the refusal.                 *)
GoalRefusal(t) ==
  IF ~goal.active THEN "goal-not-active"
  ELSE IF ~goal.held THEN "ownership-not-held"
  ELSE IF t \notin goal.tracks THEN "task-not-in-goal"
  ELSE "none"

ReadGoal(c) ==
  LET why == GoalRefusal(Request[c].task) IN
  /\ Runs(c, "goal")
  /\ IF why # "none" THEN Refuse(c, why)
     ELSE /\ bridge' = [bridge EXCEPT ![c].step = "scan",
                                      ![c].generation = goal.generation,
                                      ![c].lease = goal.lease,
                                      ![c].scanned = {Request[c].task}]
          /\ UNCHANGED <<tool, Shared>>

BoundIn(b, s) == b.active = s \/ \E r \in Run : Member(b.runs[r], s)

(* The other tasks are read one after the other and without a lock.         *)
ScanTask(c, t) ==
  /\ Runs(c, "scan") /\ t \notin bridge[c].scanned
  /\ IF BoundIn(record[t].bindings, Request[c].session)
     THEN Refuse(c, "session-bound-elsewhere")
     ELSE /\ bridge' = [bridge EXCEPT ![c].scanned = @ \cup {t}]
          /\ UNCHANGED <<tool, Shared>>

(* The run a request names, or the only one there is when it names none.    *)
RunChoice(b, asked) ==
  IF asked # NoRun THEN asked
  ELSE IF Cardinality(KnownRuns(b)) = 1 THEN CHOOSE r \in KnownRuns(b) : TRUE
  ELSE NoRun

RunRefusal(b, asked) ==
  LET r == RunChoice(b, asked) IN
  IF r = NoRun THEN IF KnownRuns(b) = {} THEN "run-required"
                                         ELSE "run-ambiguous"
  ELSE IF KnownRuns(b) # {} /\ r \notin KnownRuns(b) THEN "run-divergent"
  ELSE IF b.runs[r].status = "detached" THEN "run-detached"
  ELSE "none"

SelectRun(c) ==
  LET b == record[Request[c].task].bindings
      why == RunRefusal(b, Request[c].run) IN
  /\ Runs(c, "scan") /\ bridge[c].scanned = Task
  /\ IF why # "none" THEN Refuse(c, why)
     ELSE /\ bridge' = [bridge EXCEPT ![c].step = "bind",
                                      ![c].run = RunChoice(b, Request[c].run)]
          /\ UNCHANGED <<tool, Shared>>

(* The record still has the revision the bridge read first.                 *)
Fresh(c) == record[Request[c].task].revision = bridge[c].revision

BindLockTimeout(c) ==
  Runs(c, "bind") /\ May(c, "lock") /\ Refuse(c, "lock-timeout")

BindSession(c) ==
  LET t == Request[c].task
      b == record[t].bindings
      s == Request[c].session
      answer == BindAnswer(b, bridge[c].run, s) IN
  /\ Runs(c, "bind")
  /\ IF ~Fresh(c) THEN Refuse(c, "cas-conflict")
     ELSE IF answer = "conflict" THEN Refuse(c, "bind-conflict")
     ELSE /\ record' = IF answer = "idempotent" THEN record
                       ELSE [record EXCEPT
                               ![t].bindings = Bound(b, bridge[c].run, s),
                               ![t].revision = @ + 1]
          /\ bridge' = [bridge EXCEPT ![c].step = "verify"]
          /\ UNCHANGED <<tool, goal, waits, resumer, changes>>

VerifyBinding(c) ==
  LET b == record[Request[c].task].bindings
      e == b.runs[bridge[c].run]
      s == Request[c].session IN
  /\ Runs(c, "verify")
  /\ IF b.active = s /\ e.root = s /\ e.status = "attached"
     THEN /\ bridge' = [bridge EXCEPT ![c].step = "lookup"]
          /\ UNCHANGED <<tool, Shared>>
     ELSE Refuse(c, "binding-verify-failed")

Key(c) == <<Request[c].pull, bridge[c].generation>>

RegistrationOf(c) ==
  [task |-> Request[c].task, run |-> bridge[c].run,
   terms |-> Request[c].terms, lease |-> bridge[c].lease]

\* Fault: only the task and the run are compared.
ConsistentPlace(c, w) ==
  w.by.task = Request[c].task /\ w.by.run = bridge[c].run

\* Fault: the events that were confirmed are compared too.
ConsistentUnlessUsed(c, w) == w = [by |-> RegistrationOf(c), events |-> {}]

(* A stored wait is taken over only if it registers exactly this.           *)
Consistent(c, w) == w.by = RegistrationOf(c)

LookupWait(c) ==
  LET w == waits[Key(c)] IN
  /\ Runs(c, "lookup")
  /\ IF w = NoWait
     THEN /\ bridge' = [bridge EXCEPT ![c].step = "write"]
          /\ UNCHANGED <<tool, Shared>>
     ELSE Refuse(c, IF Consistent(c, w) THEN "ok" ELSE "wait-divergent")

(* The move that creates a wait fails if the file exists.                   *)
Absent(w) == w = NoWait

WriteWait(c) ==
  /\ Runs(c, "write")
  /\ IF Absent(waits[Key(c)])
     THEN /\ waits' = [waits EXCEPT ![Key(c)] =
                         [by |-> RegistrationOf(c), events |-> {}]]
          /\ Exit(c, "ok")
          /\ UNCHANGED <<tool, record, goal, resumer, changes>>
     ELSE Refuse(c, "wait-persist-failed")

(* Another writer of the same file holds its lock: the lock is tried once.  *)
WaitLockBusy(c) ==
  /\ Runs(c, "write")
  /\ \/ \E d \in Call \ {c} : Runs(d, "write") /\ Key(d) = Key(c)
     \/ \E q \in Resumer : resumer[q] # NoWait /\ resumer[q].key = Key(c)
  /\ Refuse(c, "wait-lock-busy")
-----------------------------------------------------------------------------
(***************************************************************************)
(* A resumer that has delivered an event adds it to the wait: it reads the *)
(* file, and writes it back if the file still has the bytes it read.       *)
(***************************************************************************)
ReadWait(q, k, e) ==
  /\ resumer[q] = NoWait /\ waits[k] # NoWait
  /\ e \notin waits[k].events
  /\ resumer' = [resumer EXCEPT ![q] =
                   [key |-> k, saw |-> waits[k], event |-> e]]
  /\ UNCHANGED <<record, goal, waits, tool, bridge, changes>>

\* Fault: the file is overwritten whatever it holds by now.
UnmodifiedUnchecked(w, saw) == TRUE

Unmodified(w, saw) == w = saw

ConfirmBusy(q) ==
  /\ resumer[q] # NoWait
  /\ \/ \E c \in Call : Runs(c, "write") /\ Key(c) = resumer[q].key
     \/ \E o \in Resumer \ {q} : /\ resumer[o] # NoWait
                                /\ resumer[o].key = resumer[q].key
  /\ resumer' = [resumer EXCEPT ![q] = NoWait]
  /\ UNCHANGED <<record, goal, waits, tool, bridge, changes>>

ConfirmApplied(q) ==
  LET k == resumer[q].key
      saw == resumer[q].saw IN
  /\ resumer[q] # NoWait
  /\ waits' = IF Unmodified(waits[k], saw)
              THEN [waits EXCEPT ![k] =
                      [saw EXCEPT !.events = @ \cup {resumer[q].event}]]
              ELSE waits
  /\ resumer' = [resumer EXCEPT ![q] = NoWait]
  /\ UNCHANGED <<record, goal, tool, bridge, changes>>
-----------------------------------------------------------------------------
(***************************************************************************)
(* What other processes do meanwhile: the owner of the goal renews its     *)
(* lease or loses it, another takes over, the goal ends or stops tracking  *)
(* a task, a task ends, its record changes or a session detaches.          *)
(***************************************************************************)
Change(kind) ==
  /\ kind \in Changes /\ changes < MaxChanges
  /\ changes' = changes + 1
  /\ UNCHANGED <<waits, tool, bridge, resumer>>

RenewGoal ==
  /\ Change("renew") /\ goal.active /\ goal.held
  /\ goal' = [goal EXCEPT !.lease = @ + 1]
  /\ UNCHANGED record

LapseGoal ==
  /\ Change("lapse") /\ goal.active /\ goal.held
  /\ goal' = [goal EXCEPT !.held = FALSE]
  /\ UNCHANGED record

TakeoverGoal ==
  /\ Change("takeover") /\ goal.active /\ ~goal.held
  /\ goal' = [goal EXCEPT !.held = TRUE, !.generation = @ + 1, !.lease = @ + 1]
  /\ UNCHANGED record

EndGoal ==
  /\ Change("end") /\ goal.active
  /\ goal' = [goal EXCEPT !.active = FALSE]
  /\ UNCHANGED record

DropTask(t) ==
  /\ Change("drop") /\ goal.active /\ t \in goal.tracks
  /\ goal' = [goal EXCEPT !.tracks = @ \ {t}]
  /\ UNCHANGED record

FinishTask(t) ==
  /\ Change("finish") /\ record[t].open
  /\ record' = [record EXCEPT ![t].open = FALSE, ![t].revision = @ + 1]
  /\ UNCHANGED goal

TouchTask(t) ==
  /\ Change("touch")
  /\ record' = [record EXCEPT ![t].revision = @ + 1]
  /\ UNCHANGED goal

DetachSession(t, r, s) ==
  /\ Change("detach")
  /\ DetachAnswer(record[t].bindings, r, s) = "ok"
  /\ record' = [record EXCEPT
                  ![t].bindings = Detached(@, r, s), ![t].revision = @ + 1]
  /\ UNCHANGED goal

Elsewhere ==
  \/ RenewGoal \/ LapseGoal \/ TakeoverGoal \/ EndGoal
  \/ \E t \in Task :
        \/ DropTask(t) \/ FinishTask(t) \/ TouchTask(t)
        \/ \E r \in Run, s \in Session : DetachSession(t, r, s)

Plugin(c) ==
  \/ Invoke(c) \/ LookupFails(c) \/ Spawn(c) \/ SpawnUnfed(c)
  \/ ChildError(c) \/ StdinError(c) \/ Overflow(c) \/ Timeout(c) \/ Close(c)

BridgeStep(c) ==
  \/ NoEnvelope(c) \/ ReadTask(c) \/ ReadGoal(c)
  \/ \E t \in Task : ScanTask(c, t)
  \/ SelectRun(c) \/ BindLockTimeout(c) \/ BindSession(c) \/ VerifyBinding(c)
  \/ LookupWait(c) \/ WriteWait(c) \/ WaitLockBusy(c)

Next ==
  \/ \E c \in Call : Plugin(c) \/ BridgeStep(c) \/ Dies(c)
  \/ \E q \in Resumer, k \in WaitKey, e \in Event : ReadWait(q, k, e)
  \/ \E q \in Resumer : ConfirmApplied(q) \/ ConfirmBusy(q)
  \/ Elsewhere

Spec == Init /\ [][Next]_vars

(* The host answers a lookup and its timers fire; a process that was killed *)
(* dies, and its end is reported.  The bridge of a faulty call owes nothing *)
(* else: it may hang at any step, with its answer unprinted even, and keep  *)
(* its process.  That of another call runs to its end.                      *)
Fairness ==
  /\ \A c \in Call : /\ WF_vars(Spawn(c)) /\ WF_vars(Timeout(c))
                    /\ WF_vars(bridge[c].verdict = "dead" /\ Close(c))
                    /\ WF_vars(bridge[c].killed /\ Dies(c))
  /\ \A c \in Call \ Faulty : WF_vars(BridgeStep(c) \/ Close(c))

LiveSpec == Spec /\ Fairness
-----------------------------------------------------------------------------
(***************************************************************************)
(* A planner is told "ok" only if its wait is in the directory, with the   *)
(* task, run, terms and lease of its own request, although another bridge  *)
(* may have written that file, the goal may have moved on since the bridge *)
(* read it, and the file is found by a key that names neither task nor     *)
(* run.                                                                    *)
(***************************************************************************)
OkIsRegistered ==
  \A c \in Call : tool[c].answer = "ok" =>
     waits[Key(c)] # NoWait /\ waits[Key(c)].by = RegistrationOf(c)

(***************************************************************************)
(* As long as nobody detaches, a planner that is told "ok" executes its    *)
(* task: two planners that ask for the same task at once are never both    *)
(* told so, whatever their bridges read before.                            *)
(***************************************************************************)
OkIsBound ==
  \A c \in Call : tool[c].answer = "ok" =>
     LET b == record[Request[c].task].bindings IN
     /\ b.active = Request[c].session
     /\ b.runs[bridge[c].run].root = Request[c].session
     /\ b.runs[bridge[c].run].status = "attached"

(***************************************************************************)
(* A registered wait is never replaced by another registration and never   *)
(* loses an event that was confirmed: registering and confirming decide on *)
(* what they read without a lock and write later.                          *)
(***************************************************************************)
WaitKept ==
  [][ \A k \in WaitKey : waits[k] # NoWait =>
        /\ waits'[k] # NoWait
        /\ waits'[k].by = waits[k].by
        /\ waits[k].events \subseteq waits'[k].events ]_vars

(***************************************************************************)
(* Whatever happened to a call, to its child or to its answer, a call that *)
(* repeats its request after it is over is told "ok": nothing a bridge     *)
(* leaves behind, a binding without a wait or a wait nobody heard of, is   *)
(* in the way of the retry; only a binding that was detached in between is *)
(* not made again.                                                         *)
(***************************************************************************)
RetrySucceeds ==
  \A c \in Call \ Faulty :
     RetryOf[c] # NoCall /\ tool[c].answer # "none" =>
        \/ tool[c].answer = "ok"
        \/ record[Request[c].task].bindings.runs[Request[c].run].status = "detached"

(***************************************************************************)
(* Every call that is made is answered, although the bridge may hang for   *)
(* ever.                                                                   *)
(***************************************************************************)
CallsAnswered ==
  \A c \in Call : tool[c].stage # "idle" ~> tool[c].answer # "none"

(***************************************************************************)
(* No child outlives its call for ever: if the plugin does not see it end, *)
(* it kills it.                                                            *)
(***************************************************************************)
ChildrenEnd == \A c \in Call : []<>(~Child(c))

=============================================================================
