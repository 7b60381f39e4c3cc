------------------------- MODULE PlannerWaitProofs -------------------------
(***************************************************************************)
(* Proofs about the session bindings of a task, and about the planner wait *)
(* that makes them.                                                        *)
(*                                                                         *)
(* First TaskBinding, for any number of processes, runs and sessions.  The *)
(* three invariants are proved together: an operation that is granted      *)
(* keeps workers apart because its answer excludes the sessions of other   *)
(* runs, and it makes active only a session it has just entered in a run.  *)
(*                                                                         *)
(* Then PlannerWait, for any calls, requests, tasks, faults and changes:   *)
(* types, that a planner is told "ok" only of what is registered and       *)
(* bound, that a registered wait is kept, that the bindings of every task  *)
(* stay sound, and that a request that is repeated succeeds.               *)
(***************************************************************************)
EXTENDS TaskBinding, PlannerWait, FiniteSetTheorems, TLAPS

-----------------------------------------------------------------------------
(* The bindings of one task.                                               *)

BindingInv == BindingTypeOK /\ OneRunPerWorker /\ ActiveIsMember

(***************************************************************************)
(* The granted operations and what they write, one lemma for each.         *)
(***************************************************************************)
Apart(b) ==
  \A r, o \in Run : r # o =>
     \A s \in b.runs[r].workers : ~Member(b.runs[o], s)

ActiveKnown(b) ==
  b.active # NoSession => \E r \in Run : Member(b.runs[r], b.active)

Sound(b) == b \in Bindings /\ Apart(b) /\ ActiveKnown(b)

(* What each operation writes, field by field.                               *)
LEMMA BoundEntry ==
  ASSUME NEW b \in Bindings, NEW r \in Run, NEW s \in Session
  PROVE  /\ Bound(b, r, s) \in Bindings
         /\ Bound(b, r, s).active = s
         /\ Bound(b, r, s).runs[r].root = s
         /\ Bound(b, r, s).runs[r].workers = b.runs[r].workers
         /\ Bound(b, r, s).runs[r].status = "attached"
         /\ \A o \in Run \ {r} : Bound(b, r, s).runs[o] = b.runs[o]
BY ZenonT(40) DEF Bindings, Entry, Status, Bound

LEMMA WorkerEntry ==
  ASSUME NEW b \in Bindings, NEW r \in Run, NEW s \in Session
  PROVE  /\ WorkerBound(b, r, s) \in Bindings
         /\ WorkerBound(b, r, s).active = s
         /\ WorkerBound(b, r, s).runs[r].root = b.runs[r].root
         /\ WorkerBound(b, r, s).runs[r].workers = b.runs[r].workers \cup {s}
         /\ \A o \in Run \ {r} : WorkerBound(b, r, s).runs[o] = b.runs[o]
<1> DEFINE ws == b.runs[r].workers \cup {s}
<1>1. b.runs[r] \in Entry /\ b.runs \in [Run -> Entry]
  BY DEF Bindings
<1>2. ws \in SUBSET Session
  BY <1>1 DEF Entry
<1> HIDE DEF ws
<1>3. /\ WorkerBound(b, r, s) \in Bindings
      /\ WorkerBound(b, r, s).active = s
      /\ WorkerBound(b, r, s).runs[r].root = b.runs[r].root
      /\ WorkerBound(b, r, s).runs[r].workers = ws
      /\ \A o \in Run \ {r} : WorkerBound(b, r, s).runs[o] = b.runs[o]
  BY <1>1, <1>2 DEF Bindings, Entry, Status, WorkerBound, ws
<1> QED BY <1>3 DEF ws

LEMMA DetachedEntry ==
  ASSUME NEW b \in Bindings, NEW r \in Run, NEW s \in Session
  PROVE  /\ Detached(b, r, s) \in Bindings
         /\ Detached(b, r, s).active = IF b.active = s THEN NoSession
                                                       ELSE b.active
         /\ Detached(b, r, s).runs[r].root = b.runs[r].root
         /\ Detached(b, r, s).runs[r].workers = b.runs[r].workers
         /\ Detached(b, r, s).runs[r].status = "detached"
         /\ \A o \in Run \ {r} : Detached(b, r, s).runs[o] = b.runs[o]
BY DEF Bindings, Entry, Status, Detached

(* A root entered in a run no other run's workers know: bind and rebind.     *)
LEMMA BoundSound ==
  ASSUME NEW b, Sound(b), NEW r \in Run, NEW s \in Session,
         ~ClaimedElsewhere(b, r, s, FALSE)
  PROVE  Sound(Bound(b, r, s))
<1> DEFINE c == Bound(b, r, s)
<1>1. /\ c \in Bindings /\ c.active = s
      /\ c.runs[r].root = s /\ c.runs[r].workers = b.runs[r].workers
      /\ \A o \in Run \ {r} : c.runs[o] = b.runs[o]
  BY BoundEntry DEF Sound
<1> HIDE DEF c
<1>2. Apart(c)
  <2> SUFFICES ASSUME NEW q \in Run, NEW o \in Run, q # o,
                      NEW w \in c.runs[q].workers
               PROVE  ~Member(c.runs[o], w)
    BY DEF Apart
  <2>1. w \in b.runs[q].workers
    BY <1>1
  <2>2. ~Member(b.runs[o], w)
    BY <2>1 DEF Sound, Apart
  <2>3. o = r => w # s
    BY <2>1 DEF ClaimedElsewhere
  <2> QED BY <1>1, <2>2, <2>3 DEF Member
<1>3. ActiveKnown(c)
  BY <1>1 DEF ActiveKnown, Member
<1> QED BY <1>1, <1>2, <1>3 DEF Sound, c

(* A worker entered in a run, unknown to every other run.                    *)
LEMMA WorkerSound ==
  ASSUME NEW b, Sound(b), NEW r \in Run, NEW s \in Session,
         ~ClaimedElsewhere(b, r, s, TRUE)
  PROVE  Sound(WorkerBound(b, r, s))
<1> DEFINE c == WorkerBound(b, r, s)
<1>1. /\ c \in Bindings /\ c.active = s
      /\ c.runs[r].root = b.runs[r].root
      /\ c.runs[r].workers = b.runs[r].workers \cup {s}
      /\ \A o \in Run \ {r} : c.runs[o] = b.runs[o]
  BY WorkerEntry DEF Sound
<1> HIDE DEF c
<1>2. Apart(c)
  <2> SUFFICES ASSUME NEW q \in Run, NEW o \in Run, q # o,
                      NEW w \in c.runs[q].workers
               PROVE  ~Member(c.runs[o], w)
    BY DEF Apart
  <2>1. CASE w \in b.runs[q].workers
    <3>1. ~Member(b.runs[o], w)
      BY <2>1 DEF Sound, Apart
    <3>2. o = r => w # s
      BY <2>1 DEF ClaimedElsewhere
    <3> QED BY <1>1, <3>1, <3>2 DEF Member
  <2>2. CASE w \notin b.runs[q].workers
    <3>1. q = r /\ w = s
      BY <1>1, <2>2
    <3> QED BY <1>1, <3>1 DEF ClaimedElsewhere, Member
  <2> QED BY <2>1, <2>2
<1>3. ActiveKnown(c)
  BY <1>1 DEF ActiveKnown, Member
<1> QED BY <1>1, <1>2, <1>3 DEF Sound, c

(* A run that is detached keeps its sessions.                                *)
LEMMA DetachedSound ==
  ASSUME NEW b, Sound(b), NEW r \in Run, NEW s \in Session
  PROVE  Sound(Detached(b, r, s))
<1> DEFINE c == Detached(b, r, s)
<1>1. /\ c \in Bindings
      /\ c.active = IF b.active = s THEN NoSession ELSE b.active
      /\ c.runs[r].root = b.runs[r].root
      /\ c.runs[r].workers = b.runs[r].workers
      /\ \A o \in Run \ {r} : c.runs[o] = b.runs[o]
  BY DetachedEntry DEF Sound
<1> HIDE DEF c
<1>2. \A o \in Run :
         /\ c.runs[o].workers = b.runs[o].workers
         /\ \A w : Member(c.runs[o], w) <=> Member(b.runs[o], w)
  BY <1>1 DEF Member
<1>3. Apart(c) /\ ActiveKnown(c)
  BY <1>1, <1>2 DEF Sound, Apart, ActiveKnown
<1> QED BY <1>1, <1>3 DEF Sound, c
-----------------------------------------------------------------------------
LEMMA InvIsSound ==
  BindingInv <=> Sound(bindings) /\ revision \in Nat /\ seen \in [Process -> Nat]
BY DEF BindingInv, BindingTypeOK, Sound, Apart, ActiveKnown, OneRunPerWorker,
       ActiveIsMember

LEMMA BindingInvInit == BindingInit => BindingInv
<1> SUFFICES ASSUME BindingInit PROVE BindingInv
  OBVIOUS
<1>1. AbsentEntry \in Entry
  BY DEF AbsentEntry, Entry, Status
<1>2. NoBindings \in Bindings
  BY <1>1 DEF NoBindings, Bindings
<1>3. BindingTypeOK
  BY <1>2 DEF BindingInit, BindingTypeOK
<1>4. \A r \in Run : bindings.runs[r].workers = {}
  BY DEF BindingInit, NoBindings, AbsentEntry
<1>5. bindings.active = NoSession
  BY DEF BindingInit, NoBindings
<1> QED BY <1>3, <1>4, <1>5 DEF BindingInv, OneRunPerWorker, ActiveIsMember

(* What a granted operation leaves behind.                                   *)
LEMMA GrantedSound ==
  ASSUME BindingInv, NEW p \in Process, NEW b, Sound(b), WriteBindings(p, b)
  PROVE  BindingInv'
<1>1. bindings' = b
  BY DEF WriteBindings
<1>2. Sound(bindings)'
  BY <1>1 DEF Sound, Apart, ActiveKnown, Bindings, Entry, Member
<1>3. revision' \in Nat /\ seen' \in [Process -> Nat]
  BY DEF BindingInv, BindingTypeOK, WriteBindings
<1>4. BindingTypeOK' /\ OneRunPerWorker' /\ ActiveIsMember'
  BY <1>2, <1>3 DEF BindingTypeOK, Sound, Apart, ActiveKnown, OneRunPerWorker,
                    ActiveIsMember
<1> QED BY <1>4 DEF BindingInv

LEMMA BindingInvStep == BindingInv /\ [BindingNext]_bindingVars => BindingInv'
<1> SUFFICES ASSUME BindingInv, [BindingNext]_bindingVars PROVE BindingInv'
  OBVIOUS
<1> USE InvIsSound
<1>1. ASSUME NEW p \in Process, Look(p) PROVE BindingInv'
  BY <1>1 DEF Look, BindingInv, BindingTypeOK, OneRunPerWorker, ActiveIsMember
<1>2. ASSUME NEW p \in Process, NEW r \in Run, NEW s \in Session, Bind(p, r, s)
      PROVE  BindingInv'
  <2>1. ~ClaimedElsewhere(bindings, r, s, FALSE)
    BY <1>2 DEF Bind, BindAnswer
  <2>2. Sound(Bound(bindings, r, s))
    BY <2>1, BoundSound
  <2> QED BY <1>2, <2>2, GrantedSound DEF Bind
<1>3. ASSUME NEW p \in Process, NEW r \in Run, NEW s \in Session,
             BindWorker(p, r, s)
      PROVE  BindingInv'
  <2>1. ~ClaimedElsewhere(bindings, r, s, TRUE)
    BY <1>3 DEF BindWorker, WorkerAnswer
  <2>2. Sound(WorkerBound(bindings, r, s))
    BY <2>1, WorkerSound
  <2> QED BY <1>3, <2>2, GrantedSound DEF BindWorker
<1>4. ASSUME NEW p \in Process, NEW r \in Run, NEW s \in Session,
             Rebind(p, r, s)
      PROVE  BindingInv'
  <2>1. ~ClaimedElsewhere(bindings, r, s, FALSE)
    BY <1>4 DEF Rebind, RebindAnswer
  <2>2. Sound(Bound(bindings, r, s))
    BY <2>1, BoundSound
  <2> QED BY <1>4, <2>2, GrantedSound DEF Rebind, Rebound
<1>5. ASSUME NEW p \in Process, NEW r \in Run, NEW s \in Session,
             Detach(p, r, s)
      PROVE  BindingInv'
  <2>1. Sound(Detached(bindings, r, s))
    BY DetachedSound
  <2> QED BY <1>5, <2>1, GrantedSound DEF Detach
<1>6. CASE Touch
  BY <1>6 DEF Touch, BindingInv, BindingTypeOK, OneRunPerWorker, ActiveIsMember
<1>7. CASE UNCHANGED bindingVars
  BY <1>7 DEF bindingVars, BindingInv, BindingTypeOK, OneRunPerWorker, ActiveIsMember
<1> QED BY <1>1, <1>2, <1>3, <1>4, <1>5, <1>6, <1>7 DEF BindingNext

(***************************************************************************)
(* The bindings, the revision and what the processes saw keep their types. *)
(***************************************************************************)
THEOREM BindingTypeCorrect == BindingSpec => []BindingTypeOK
<1>1. BindingInv => BindingTypeOK
  BY DEF BindingInv
<1> QED BY <1>1, BindingInvInit, BindingInvStep, PTL DEF BindingSpec

(***************************************************************************)
(* No session is ever a worker of one run and a worker or the root of      *)
(* another, whatever the processes had seen when they asked.               *)
(***************************************************************************)
THEOREM WorkersBelongToOneRun == BindingSpec => []OneRunPerWorker
<1>1. BindingInv => OneRunPerWorker
  BY DEF BindingInv
<1> QED BY <1>1, BindingInvInit, BindingInvStep, PTL DEF BindingSpec

(***************************************************************************)
(* The session that executes is always one that a run of the task knows.   *)
(***************************************************************************)
THEOREM ActiveSessionIsKnown == BindingSpec => []ActiveIsMember
<1>1. BindingInv => ActiveIsMember
  BY DEF BindingInv
<1> QED BY <1>1, BindingInvInit, BindingInvStep, PTL DEF BindingSpec
-----------------------------------------------------------------------------
GivesWay ==
  \A s \in Session :
     bindings.active = s /\ bindings'.active # s =>
        \/ /\ bindings'.active = NoSession
           /\ \E r \in Run : /\ Member(bindings.runs[r], s)
                             /\ bindings.runs[r].status = "attached"
                             /\ bindings'.runs[r].status = "detached"
        \/ \E r \in Run : /\ bindings.runs[r].status = "detached"
                          /\ bindings'.runs[r].status = "attached"
                          /\ bindings'.runs[r].root = bindings'.active

LEMMA StepGivesWay == BindingInv /\ [BindingNext]_bindingVars => [GivesWay]_bindingVars
<1> SUFFICES ASSUME BindingInv, BindingNext,
                    NEW q \in Session,
                    bindings.active = q, bindings'.active # q
             PROVE  \/ /\ bindings'.active = NoSession
                       /\ \E r \in Run :
                             /\ Member(bindings.runs[r], q)
                             /\ bindings.runs[r].status = "attached"
                             /\ bindings'.runs[r].status = "detached"
                    \/ \E r \in Run :
                          /\ bindings.runs[r].status = "detached"
                          /\ bindings'.runs[r].status = "attached"
                          /\ bindings'.runs[r].root = bindings'.active
  BY DEF GivesWay
<1> bindings \in Bindings
  BY DEF BindingInv, BindingTypeOK
<1>1. q # NoSession
  BY BindingAssumption
<1>2. ASSUME NEW p \in Process, NEW r \in Run, NEW s \in Session, Bind(p, r, s)
      PROVE  FALSE
  <2>1. bindings' = Bound(bindings, r, s) /\ ~OwnedByAnother(bindings, s)
    BY <1>2 DEF Bind, BindAnswer, WriteBindings
  <2> QED BY <1>1, <2>1, BoundEntry DEF OwnedByAnother
<1>3. ASSUME NEW p \in Process, NEW r \in Run, NEW s \in Session,
             BindWorker(p, r, s)
      PROVE  FALSE
  <2>1. /\ bindings' = WorkerBound(bindings, r, s)
        /\ ~OwnedByAnother(bindings, s)
    BY <1>3 DEF BindWorker, WorkerAnswer, WriteBindings
  <2> QED BY <1>1, <2>1, WorkerEntry DEF OwnedByAnother
<1>4. ASSUME NEW p \in Process, NEW r \in Run, NEW s \in Session,
             Rebind(p, r, s)
      PROVE  /\ bindings.runs[r].status = "detached"
             /\ bindings'.runs[r].status = "attached"
             /\ bindings'.runs[r].root = bindings'.active
  <2>1. /\ bindings' = Bound(bindings, r, s)
        /\ bindings.runs[r].status = "detached"
    BY <1>4 DEF Rebind, RebindAnswer, Rebound, WriteBindings
  <2> QED BY <2>1, BoundEntry
<1>5. ASSUME NEW p \in Process, NEW r \in Run, NEW s \in Session,
             Detach(p, r, s)
      PROVE  /\ bindings'.active = NoSession
             /\ Member(bindings.runs[r], q)
             /\ bindings.runs[r].status = "attached"
             /\ bindings'.runs[r].status = "detached"
  <2>1. /\ bindings' = Detached(bindings, r, s)
        /\ bindings.runs[r].status \notin {"absent", "detached"}
        /\ Member(bindings.runs[r], s)
    BY <1>5 DEF Detach, DetachAnswer, WriteBindings
  <2>2. bindings.runs[r].status \in Status
    BY DEF Bindings, Entry
  <2>3. q = s
    BY <2>1, DetachedEntry
  <2> QED BY <2>1, <2>2, <2>3, DetachedEntry DEF Status
<1>6. ASSUME NEW p \in Process, Look(p) PROVE FALSE
  BY <1>6 DEF Look
<1>7. CASE Touch
  BY <1>7 DEF Touch
<1> QED BY <1>2, <1>3, <1>4, <1>5, <1>6, <1>7 DEF BindingNext

(***************************************************************************)
(* The active session is displaced by nobody's bind: it leaves by its own  *)
(* detach, or a detached run is attached again by rebind.                  *)
(***************************************************************************)
THEOREM ActiveSessionGivesWay == BindingSpec => OwnerGivesWay
<1>1. [][GivesWay]_bindingVars <=> OwnerGivesWay
  BY DEF GivesWay, OwnerGivesWay
<1> QED BY <1>1, BindingInvInit, BindingInvStep, StepGivesWay, PTL DEF BindingSpec
-----------------------------------------------------------------------------
(* The inductive invariant.                                                *)

\* A generation or a lease of the goal is never ahead of the changes made.
Counted == goal.generation <= changes + 1 /\ goal.lease <= changes + 1

HasRun == {"bind", "verify", "lookup", "write"}

Chosen ==
  \A c \in Call :
     bridge[c].step \in HasRun \/ bridge[c].verdict = "ok" => bridge[c].run \in Run

\* A child exists only of a running call, decides once, and is gone when the
\* planner is told "ok".
Ordered ==
  \A c \in Call :
     /\ tool[c].stage # "running" => bridge[c].step = "none"
     /\ bridge[c].step \notin {"exited", "gone"} => bridge[c].verdict = "none"
     /\ tool[c].answer = "ok" => bridge[c].step = "gone" /\ bridge[c].verdict = "ok"

\* A bridge says "ok" only of a wait that registers its own request.
Registered ==
  \A c \in Call : bridge[c].verdict = "ok" =>
     waits[Key(c)] # NoWait /\ waits[Key(c)].by = RegistrationOf(c)

WaitInv == TypeOK /\ Counted /\ Chosen /\ Ordered /\ Registered

-----------------------------------------------------------------------------
(* The operators of the plugin and of the bindings.                        *)

\* Settling keeps the first answer.
LEMMA SettleKeeps ==
  ASSUME NEW t \in Tool, NEW a \in Answers
  PROVE  /\ Settle(t, a) \in Tool
         /\ Settle(t, a).stage = t.stage
         /\ Settle(t, a).answer = IF t.answer = "none" THEN a ELSE t.answer
BY DEF Tool, Answers, Settle, Finish

LEMMA KillKeeps ==
  ASSUME NEW b \in Bridge
  PROVE  /\ Kill(b) \in Bridge
         /\ Kill(b).step = b.step /\ Kill(b).verdict = b.verdict
         /\ Kill(b).run = b.run /\ Kill(b).generation = b.generation
         /\ Kill(b).lease = b.lease
BY DEF Bridge, Kill

\* A request that is not refused names a run, or the task has exactly one.
LEMMA RunChosen ==
  ASSUME NEW b \in Bindings, NEW asked \in Run \cup {NoRun},
         RunRefusal(b, asked) = "none"
  PROVE  RunChoice(b, asked) \in Run
<1>1. RunChoice(b, asked) # NoRun
  BY DEF RunRefusal
<1>2. CASE KnownRuns(b) = {}
  <2>1. Cardinality(KnownRuns(b)) # 1
    BY <1>2, FS_EmptySet
  <2> QED
    BY <1>1, <2>1 DEF RunChoice
<1>3. CASE KnownRuns(b) # {}
  <2>1. RunChoice(b, asked) \in KnownRuns(b)
    BY <1>1, <1>3 DEF RunRefusal
  <2> QED
    BY <2>1 DEF KnownRuns
<1> QED
  BY <1>2, <1>3

LEMMA RefusalNamed ==
  ASSUME NEW b, NEW asked, NEW v, v = RunRefusal(b, asked), v # "none"
  PROVE  v \in Verdicts \ {"ok", "none"}
<1>1. v \in {"run-required", "run-ambiguous", "run-divergent", "run-detached"}
  <2> DEFINE r == RunChoice(b, asked)
             known == KnownRuns(b)
  <2>1. v = IF r = NoRun THEN IF known = {} THEN "run-required" ELSE "run-ambiguous"
            ELSE IF known # {} /\ r \notin known THEN "run-divergent"
            ELSE IF b.runs[r].status = "detached" THEN "run-detached"
            ELSE "none"
    BY DEF RunRefusal
  <2> HIDE DEF r, known
  <2> QED
    BY <2>1
<1> QED
  BY <1>1 DEF Verdicts, Refusals

-----------------------------------------------------------------------------
(* The steps of a call, seen by what they leave of the call and its child. *)

\* No wait is replaced and no event of one is lost.
KeepsWaits ==
  \A k \in WaitKey : waits[k] # NoWait =>
     /\ waits'[k] # NoWait
     /\ waits'[k].by = waits[k].by
     /\ waits[k].events \subseteq waits'[k].events

\* What the child b would register for the call c.
Registers(c, b) ==
  [task |-> Request[c].task, run |-> b.run, terms |-> Request[c].terms,
   lease |-> b.lease]

\* What the invariant asks of one call and its child after a step.
Proper(c, t, b) ==
  /\ t \in Tool /\ b \in Bridge
  /\ b.step \in HasRun \/ b.verdict = "ok" => b.run \in Run
  /\ t.stage # "running" => b.step = "none"
  /\ b.step \notin {"exited", "gone"} => b.verdict = "none"
  /\ t.answer = "ok" => b.step = "gone" /\ b.verdict = "ok"

\* The stored wait, before the step or after it, is the one b would register.
Backed(c, b, stored) == stored # NoWait /\ stored.by = Registers(c, b)

PlaceOf(c, b) == <<Request[c].pull, b.generation>>

CallStep(c, t, b) ==
  /\ tool' = [tool EXCEPT ![c] = t] /\ bridge' = [bridge EXCEPT ![c] = b]
  /\ UNCHANGED <<goal, resumer, changes>>
  /\ Proper(c, t, b)
  /\ record' \in [Task -> Record]
  /\ waits' \in [WaitKey -> Wait \cup {NoWait}] /\ KeepsWaits
  /\ b.verdict = "ok" => Backed(c, b, waits'[PlaceOf(c, b)])

LEMMA ProperNow ==
  ASSUME WaitInv, NEW c \in Call
  PROVE  /\ Proper(c, tool[c], bridge[c])
         /\ bridge[c].verdict = "ok" => Backed(c, bridge[c], waits[PlaceOf(c, bridge[c])])
         /\ Key(c) \in WaitKey /\ Key(c) = PlaceOf(c, bridge[c])
         /\ RegistrationOf(c) = Registers(c, bridge[c])
<1>1. Request[c] \in Requests /\ bridge[c] \in Bridge /\ tool[c] \in Tool
  BY PlannerWaitAssumption DEF WaitInv, TypeOK
<1>2. Request[c].pull \in Pull /\ bridge[c].generation \in Generation
  BY <1>1 DEF Requests, Bridge
<1>3. Key(c) \in WaitKey /\ Key(c) = PlaceOf(c, bridge[c])
  BY <1>2 DEF Key, PlaceOf, WaitKey
<1>4. RegistrationOf(c) = Registers(c, bridge[c])
  BY DEF RegistrationOf, Registers
<1> QED
  BY <1>1, <1>3, <1>4 DEF WaitInv, Chosen, Ordered, Registered, Proper, Backed

LEMMA CallStepKeepsInv ==
  ASSUME WaitInv, NEW c \in Call, NEW t, NEW b, CallStep(c, t, b)
  PROVE  WaitInv'
<1>1. t \in Tool /\ b \in Bridge
  BY DEF CallStep, Proper
<1>2. /\ tool'[c] = t /\ bridge'[c] = b
      /\ \A d \in Call \ {c} : tool'[d] = tool[d] /\ bridge'[d] = bridge[d]
  BY DEF CallStep, WaitInv, TypeOK
<1>3. TypeOK'
  BY <1>1 DEF CallStep, WaitInv, TypeOK
<1>4. Counted'
  BY DEF CallStep, WaitInv, Counted
<1>5. ASSUME NEW d \in Call
      PROVE  Proper(d, tool'[d], bridge'[d])
  BY <1>2, ProperNow DEF CallStep, Proper
<1>6. Chosen' /\ Ordered'
  BY <1>5 DEF Proper, Chosen, Ordered
<1>7. ASSUME NEW d \in Call, bridge'[d].verdict = "ok"
      PROVE  waits'[Key(d)'] # NoWait /\ waits'[Key(d)'].by = RegistrationOf(d)'
  <2>1. Key(d)' = PlaceOf(d, bridge'[d]) /\ RegistrationOf(d)' = Registers(d, bridge'[d])
    BY DEF Key, PlaceOf, RegistrationOf, Registers
  <2>2. CASE d = c
    BY <1>2, <1>7, <2>1, <2>2 DEF CallStep, Backed
  <2>3. CASE d # c
    <3>1. bridge'[d] = bridge[d]
      BY <1>2, <2>3
    <3>2. /\ Backed(d, bridge[d], waits[PlaceOf(d, bridge[d])])
          /\ PlaceOf(d, bridge[d]) \in WaitKey
      BY <1>7, <3>1, ProperNow
    <3> QED
      BY <2>1, <3>1, <3>2 DEF CallStep, KeepsWaits, Backed
  <2> QED
    BY <2>2, <2>3
<1>8. Registered'
  BY <1>7 DEF Registered
<1> QED
  BY <1>3, <1>4, <1>6, <1>8 DEF WaitInv

-----------------------------------------------------------------------------
(* Every step of a plugin and of a bridge is such a step.                  *)

LEMMA QuietStep ==
  ASSUME WaitInv, NEW c \in Call, NEW t, NEW b,
         tool' = [tool EXCEPT ![c] = t], bridge' = [bridge EXCEPT ![c] = b],
         UNCHANGED Shared, Proper(c, t, b),
         b.verdict = "ok" =>
            /\ bridge[c].verdict = "ok" /\ b.run = bridge[c].run
            /\ b.generation = bridge[c].generation /\ b.lease = bridge[c].lease
  PROVE  CallStep(c, t, b)
<1>1. waits' = waits /\ record' = record /\ UNCHANGED <<goal, resumer, changes>>
  BY DEF Shared
<1>2. waits' \in [WaitKey -> Wait \cup {NoWait}] /\ KeepsWaits
  BY <1>1 DEF WaitInv, TypeOK, KeepsWaits
<1>3. b.verdict = "ok" => Backed(c, b, waits'[PlaceOf(c, b)])
  BY <1>1, ProperNow DEF Backed, Registers, PlaceOf
<1> QED
  BY <1>1, <1>2, <1>3 DEF CallStep, WaitInv, TypeOK

LEMMA PluginSteps ==
  ASSUME WaitInv, NEW c \in Call, Plugin(c)
  PROVE  \E t, b : CallStep(c, t, b)
<1> DEFINE t0 == tool[c]
           b0 == bridge[c]
<1>1. /\ Proper(c, t0, b0) /\ t0 \in Tool /\ b0 \in Bridge
      /\ tool \in [Call -> Tool] /\ bridge \in [Call -> Bridge]
  BY ProperNow DEF Proper, WaitInv, TypeOK
<1>2. bridge = [bridge EXCEPT ![c] = b0] /\ tool = [tool EXCEPT ![c] = t0]
  BY <1>1
<1>3. ASSUME Invoke(c) PROVE CallStep(c, [t0 EXCEPT !.stage = "checking"], b0)
  <2>1. Proper(c, [t0 EXCEPT !.stage = "checking"], b0)
    BY <1>1, <1>3 DEF Proper, Tool, Invoke
  <2> QED
    BY <1>2, <1>3, <2>1, QuietStep DEF Invoke
<1>4. ASSUME LookupFails(c) PROVE CallStep(c, Settle(t0, "denied"), b0)
  <2>1. Proper(c, Settle(t0, "denied"), b0)
    BY <1>1, <1>4, SettleKeeps DEF Proper, LookupFails, Answers
  <2> QED
    BY <1>2, <1>4, <2>1, QuietStep DEF LookupFails
<1>5. t0.stage = "checking" => b0.step = "none" /\ b0.verdict = "none"
  BY <1>1 DEF Proper
<1>6. ASSUME Spawn(c) PROVE \E t, b : CallStep(c, t, b)
  <2> DEFINE t1 == Started(t0)
             b1 == [b0 EXCEPT !.step = "boot", !.fed = TRUE]
  <2>1. Proper(c, t1, b1) /\ b1.verdict = "none"
    BY <1>1, <1>5, <1>6 DEF Proper, Spawn, Started, Tool, Bridge, Steps, HasRun
  <2>2. tool' = [tool EXCEPT ![c] = t1] /\ bridge' = [bridge EXCEPT ![c] = b1]
    BY <1>1, <1>6 DEF Spawn
  <2>3. CallStep(c, t1, b1)
    BY <1>6, <2>1, <2>2, QuietStep DEF Spawn
  <2> QED
    BY <2>3
<1>7. ASSUME SpawnUnfed(c) PROVE \E t, b : CallStep(c, t, b)
  <2>1. PICK fed \in BOOLEAN :
          bridge' = [bridge EXCEPT ![c].step = "boot", ![c].fed = fed]
    BY <1>7 DEF SpawnUnfed
  <2> DEFINE t1 == Settle(Started(t0), "stdin-failed")
             b1 == [b0 EXCEPT !.step = "boot", !.fed = fed]
  <2>2. Started(t0) \in Tool /\ Started(t0).stage = "running" /\ Started(t0).answer = t0.answer
    BY <1>1 DEF Started, Tool
  <2>3. t1 \in Tool /\ t1.stage = "running" /\ t1.answer = "stdin-failed"
    BY <1>7, <2>2, SettleKeeps DEF SpawnUnfed, Answers
  <2>4. b1 \in Bridge /\ b1.step = "boot" /\ b1.verdict = "none"
    BY <1>1, <1>5, <1>7, <2>1 DEF SpawnUnfed, Bridge, Steps
  <2>5. Proper(c, t1, b1)
    BY <2>3, <2>4 DEF Proper, HasRun
  <2>6. tool' = [tool EXCEPT ![c] = t1] /\ bridge' = [bridge EXCEPT ![c] = b1]
    BY <1>1, <1>7, <2>1 DEF SpawnUnfed
  <2>7. CallStep(c, t1, b1)
    BY <1>7, <2>4, <2>5, <2>6, QuietStep DEF SpawnUnfed
  <2> QED
    BY <2>7
<1>8. ASSUME ChildError(c) PROVE \E t, b : CallStep(c, t, b)
  <2> DEFINE t1 == Settle(t0, "spawn-failed")
             b1 == [b0 EXCEPT !.step = "gone"]
  <2>1. t0.stage = "running" /\ t0.answer # "ok" /\ b0.verdict = "none"
    BY <1>1, <1>8 DEF ChildError, Proper
  <2>2. t1 \in Tool /\ t1.stage = "running" /\ t1.answer # "ok"
    BY <1>1, <2>1, SettleKeeps DEF Answers
  <2>3. b1 \in Bridge /\ b1.step = "gone" /\ b1.verdict = "none"
    BY <1>1, <2>1 DEF Bridge, Steps
  <2>4. Proper(c, t1, b1)
    BY <2>2, <2>3 DEF Proper, HasRun
  <2>5. tool' = [tool EXCEPT ![c] = t1] /\ bridge' = [bridge EXCEPT ![c] = b1]
    BY <1>1, <1>8 DEF ChildError
  <2>6. CallStep(c, t1, b1)
    BY <1>8, <2>3, <2>4, <2>5, QuietStep DEF ChildError
  <2> QED
    BY <2>6
\* A child that is told to die keeps where it is and what it read.
<1>9. ASSUME NEW fed \in BOOLEAN, NEW a \in Answers \ {"ok"},
             tool' = [tool EXCEPT ![c] = Settle(@, a)],
             bridge' = [bridge EXCEPT ![c] = Kill([@ EXCEPT !.fed = fed])],
             UNCHANGED Shared
      PROVE  \E t, b : CallStep(c, t, b)
  <2> DEFINE t1 == Settle(t0, a)
             f1 == [b0 EXCEPT !.fed = fed]
             b1 == Kill(f1)
  <2>1. /\ f1 \in Bridge /\ f1.step = b0.step /\ f1.verdict = b0.verdict
        /\ f1.run = b0.run /\ f1.generation = b0.generation /\ f1.lease = b0.lease
    BY <1>1 DEF Bridge
  <2>2. /\ b1 \in Bridge /\ b1.step = b0.step /\ b1.verdict = b0.verdict
        /\ b1.run = b0.run /\ b1.generation = b0.generation /\ b1.lease = b0.lease
    BY <2>1, KillKeeps
  <2>3. t1 \in Tool /\ t1.stage = t0.stage /\ (t1.answer = "ok" => t0.answer = "ok")
    BY <1>1, SettleKeeps
  <2>4. Proper(c, t1, b1)
    BY <1>1, <2>2, <2>3 DEF Proper
  <2>5. tool' = [tool EXCEPT ![c] = t1] /\ bridge' = [bridge EXCEPT ![c] = b1]
    BY <1>1, <1>9
  <2>6. CallStep(c, t1, b1)
    BY <1>9, <2>2, <2>4, <2>5, QuietStep
  <2> QED
    BY <2>6
<1>10. b0 = [b0 EXCEPT !.fed = b0.fed] /\ b0.fed \in BOOLEAN
  BY <1>1 DEF Bridge
<1>11. ASSUME StdinError(c) PROVE \E t, b : CallStep(c, t, b)
  <2>1. PICK fed \in BOOLEAN :
          bridge' = [bridge EXCEPT ![c] = Kill([@ EXCEPT !.fed = fed])]
    BY <1>11 DEF StdinError
  <2> QED
    BY <1>9, <1>11, <2>1 DEF StdinError, Answers
<1>12. ASSUME Overflow(c) \/ Timeout(c) PROVE \E t, b : CallStep(c, t, b)
  <2>1. /\ bridge' = [bridge EXCEPT ![c] = Kill([@ EXCEPT !.fed = b0.fed])]
        /\ UNCHANGED Shared
    BY <1>1, <1>10, <1>12 DEF Overflow, Timeout
  <2>2. PICK a \in Answers \ {"ok"} : tool' = [tool EXCEPT ![c] = Settle(@, a)]
    BY <1>12 DEF Overflow, Timeout, Answers
  <2> QED
    BY <1>9, <1>10, <2>1, <2>2
<1>13. ASSUME Close(c) PROVE \E t, b : CallStep(c, t, b)
  <2> DEFINE t1 == IF t0.done THEN t0 ELSE Settle(t0, AnswerOf(b0))
             b1 == [b0 EXCEPT !.step = "gone"]
  <2>1. AnswerOf(b0) \in Answers /\ (AnswerOf(b0) = "ok" => b0.verdict = "ok")
    BY DEF AnswerOf, Answers
  <2>2. t0.stage = "running" /\ t0.answer # "ok"
    BY <1>1, <1>13 DEF Close, Proper
  <2>3. t1 \in Tool /\ t1.stage = "running" /\ (t1.answer = "ok" => b0.verdict = "ok")
    BY <1>1, <2>1, <2>2, SettleKeeps
  <2>4. /\ b1 \in Bridge /\ b1.step = "gone" /\ b1.verdict = b0.verdict
        /\ b1.run = b0.run /\ b1.generation = b0.generation /\ b1.lease = b0.lease
    BY <1>1 DEF Bridge, Steps
  <2>5. Proper(c, t1, b1)
    BY <1>1, <2>3, <2>4 DEF Proper, HasRun
  <2>6. tool' = [tool EXCEPT ![c] = t1] /\ bridge' = [bridge EXCEPT ![c] = b1]
    BY <1>1, <1>2, <1>13 DEF Close
  <2>7. CallStep(c, t1, b1)
    BY <1>13, <2>4, <2>5, <2>6, QuietStep DEF Close
  <2> QED
    BY <2>7
<1> QED
  BY <1>3, <1>4, <1>6, <1>7, <1>8, <1>11, <1>12, <1>13 DEF Plugin

LEMMA BridgeAdvances ==
  ASSUME WaitInv, NEW c \in Call, NEW b \in Bridge,
         bridge' = [bridge EXCEPT ![c] = b], UNCHANGED <<tool, Shared>>,
         b.verdict # "ok", tool[c].answer # "ok", tool[c].stage = "running",
         b.step \in HasRun => b.run \in Run,
         b.step \notin {"exited", "gone"} => b.verdict = "none"
  PROVE  \E t, d : CallStep(c, t, d)
<1>1. tool[c] \in Tool /\ tool' = [tool EXCEPT ![c] = tool[c]]
  BY DEF WaitInv, TypeOK
<1>2. Proper(c, tool[c], b)
  BY <1>1 DEF Proper
<1>3. CallStep(c, tool[c], b)
  BY <1>1, <1>2, QuietStep
<1> QED
  BY <1>3

\* A child that has not exited belongs to a call that runs and has no "ok".
LEMMA AtWork ==
  ASSUME WaitInv, NEW c \in Call, bridge[c].step \notin {"none", "gone"}
  PROVE  tool[c].stage = "running" /\ tool[c].answer # "ok"
BY DEF WaitInv, Ordered

LEMMA RefuseSteps ==
  ASSUME WaitInv, NEW c \in Call, bridge[c].step \notin {"none", "gone"},
         NEW v \in Verdicts \ {"ok", "none"}, Refuse(c, v)
  PROVE  \E t, b : CallStep(c, t, b)
<1> DEFINE b == [bridge[c] EXCEPT !.step = "exited", !.verdict = v]
<1>1. bridge[c] \in Bridge /\ bridge \in [Call -> Bridge]
  BY DEF WaitInv, TypeOK
<1>2. b \in Bridge /\ b.step = "exited" /\ b.verdict = v
  BY <1>1 DEF Bridge, Steps
<1>3. bridge' = [bridge EXCEPT ![c] = b] /\ UNCHANGED <<tool, Shared>>
  BY <1>1 DEF Refuse, Exit
<1> HIDE DEF b
<1> QED
  BY <1>2, <1>3, AtWork, BridgeAdvances DEF HasRun

\* A bridge that finds or has written its wait exits with "ok".
LEMMA OkSteps ==
  ASSUME WaitInv, NEW c \in Call, bridge[c].step \in HasRun, Exit(c, "ok"),
         UNCHANGED <<tool, record, goal, resumer, changes>>,
         waits' \in [WaitKey -> Wait \cup {NoWait}], KeepsWaits,
         waits'[Key(c)] # NoWait, waits'[Key(c)].by = RegistrationOf(c)
  PROVE  \E t, b : CallStep(c, t, b)
<1> DEFINE b == [bridge[c] EXCEPT !.step = "exited", !.verdict = "ok"]
<1>1. /\ bridge[c] \in Bridge /\ bridge \in [Call -> Bridge] /\ bridge[c].run \in Run
      /\ tool \in [Call -> Tool] /\ tool[c] \in Tool /\ record \in [Task -> Record]
  BY DEF WaitInv, TypeOK, Chosen
<1>2. /\ b \in Bridge /\ b.step = "exited" /\ b.verdict = "ok"
      /\ b.run = bridge[c].run /\ b.generation = bridge[c].generation
      /\ b.lease = bridge[c].lease
  BY <1>1 DEF Bridge, Steps, Verdicts
<1>3. bridge' = [bridge EXCEPT ![c] = b] /\ tool' = [tool EXCEPT ![c] = tool[c]]
  BY <1>1 DEF Exit
<1>4. Backed(c, b, waits'[PlaceOf(c, b)])
  BY <1>2, ProperNow DEF Backed, Registers, PlaceOf
<1> HIDE DEF b
<1>5. tool[c].stage = "running" /\ tool[c].answer # "ok"
  BY AtWork DEF HasRun
<1>6. Proper(c, tool[c], b)
  BY <1>1, <1>2, <1>5 DEF Proper
<1>7. CallStep(c, tool[c], b)
  BY <1>1, <1>3, <1>4, <1>6 DEF CallStep
<1> QED
  BY <1>7

LEMMA RegistrationTyped ==
  ASSUME WaitInv, NEW c \in Call, bridge[c].step \in HasRun
  PROVE  RegistrationOf(c) \in Registration
<1>1. Request[c] \in Requests /\ bridge[c] \in Bridge /\ bridge[c].run \in Run
  BY PlannerWaitAssumption DEF WaitInv, TypeOK, Chosen
<1> QED
  BY <1>1 DEF Requests, Bridge, RegistrationOf, Registration

LEMMA BridgeSteps ==
  ASSUME WaitInv, NEW c \in Call, BridgeStep(c) \/ Dies(c)
  PROVE  \E t, b : CallStep(c, t, b)
<1> DEFINE b0 == bridge[c]
<1>1. /\ b0 \in Bridge /\ bridge \in [Call -> Bridge]
      /\ record \in [Task -> Record] /\ goal \in Goal
      /\ waits \in [WaitKey -> Wait \cup {NoWait}]
  BY DEF WaitInv, TypeOK
<1>2. /\ Request[c].task \in Task /\ Request[c].session \in Session
      /\ Request[c].run \in Run \cup {NoRun}
  BY PlannerWaitAssumption DEF Requests
<1>3. b0.step \notin {"exited", "gone"} => b0.verdict = "none"
  BY DEF WaitInv, Ordered
\* A step forward that leaves everything but the child alone.
<1>4. ASSUME b0.step \notin {"none", "exited", "gone"},
             NEW b \in Bridge, b.verdict = b0.verdict,
             b.step \in HasRun => b.run \in Run,
             bridge' = [bridge EXCEPT ![c] = b], UNCHANGED <<tool, Shared>>
      PROVE  \E t, d : CallStep(c, t, d)
  BY <1>3, <1>4, AtWork, BridgeAdvances
<1>5. CASE NoEnvelope(c)
  BY <1>5, RefuseSteps DEF NoEnvelope, Runs, Verdicts, Refusals
<1>6. CASE ReadTask(c)
  <2> DEFINE rev == record[Request[c].task].revision
             b == [b0 EXCEPT !.step = "goal", !.revision = rev]
  <2>1. CASE Refuse(c, "task-terminal")
    BY <1>6, <2>1, RefuseSteps DEF ReadTask, Runs, Verdicts, Refusals
  <2>2. CASE /\ bridge' = [bridge EXCEPT ![c].step = "goal", ![c].revision = rev]
             /\ UNCHANGED <<tool, Shared>>
    <3>1. rev \in Nat
      BY <1>1, <1>2 DEF Record
    <3>2. b \in Bridge /\ b.verdict = b0.verdict /\ b.step = "goal"
      BY <1>1, <3>1 DEF Bridge, Steps
    <3>3. bridge' = [bridge EXCEPT ![c] = b]
      BY <1>1, <2>2
    <3> HIDE DEF b
    <3> QED
      BY <1>4, <1>6, <2>2, <3>2, <3>3 DEF ReadTask, Runs, HasRun
  <2> QED
    BY <1>6, <2>1, <2>2 DEF ReadTask
<1>7. CASE ReadGoal(c)
  <2> DEFINE why == GoalRefusal(Request[c].task)
             b == [b0 EXCEPT !.step = "scan", !.generation = goal.generation,
                             !.lease = goal.lease, !.scanned = {Request[c].task}]
  <2>1. CASE why # "none" /\ Refuse(c, why)
    <3>1. why \in Verdicts \ {"ok", "none"}
      BY <2>1 DEF GoalRefusal, Verdicts, Refusals
    <3> QED
      BY <1>7, <2>1, <3>1, RefuseSteps DEF ReadGoal, Runs
  <2>2. CASE /\ bridge' = [bridge EXCEPT ![c].step = "scan",
                             ![c].generation = goal.generation,
                             ![c].lease = goal.lease,
                             ![c].scanned = {Request[c].task}]
             /\ UNCHANGED <<tool, Shared>>
    <3>1. b \in Bridge /\ b.verdict = b0.verdict /\ b.step = "scan"
      BY <1>1, <1>2 DEF Bridge, Steps, Goal
    <3>2. bridge' = [bridge EXCEPT ![c] = b]
      BY <1>1, <2>2
    <3> HIDE DEF b
    <3> QED
      BY <1>4, <1>7, <2>2, <3>1, <3>2 DEF ReadGoal, Runs, HasRun
  <2> QED
    BY <1>7, <2>1, <2>2 DEF ReadGoal
<1>8. ASSUME NEW u \in Task, ScanTask(c, u)
      PROVE  \E t, b : CallStep(c, t, b)
  <2> DEFINE b == [b0 EXCEPT !.scanned = @ \cup {u}]
  <2>1. CASE Refuse(c, "session-bound-elsewhere")
    BY <1>8, <2>1, RefuseSteps DEF ScanTask, Runs, Verdicts, Refusals
  <2>2. CASE /\ bridge' = [bridge EXCEPT ![c].scanned = @ \cup {u}]
             /\ UNCHANGED <<tool, Shared>>
    <3>1. b0.scanned \cup {u} \in SUBSET Task
      BY <1>1 DEF Bridge
    <3>2. b \in Bridge /\ b.verdict = b0.verdict /\ b.step = b0.step
      BY <1>1, <3>1 DEF Bridge
    <3>3. bridge' = [bridge EXCEPT ![c] = b]
      BY <1>1, <2>2
    <3> HIDE DEF b
    <3> QED
      BY <1>4, <1>8, <2>2, <3>2, <3>3 DEF ScanTask, Runs, HasRun
  <2> QED
    BY <1>8, <2>1, <2>2 DEF ScanTask
<1>9. CASE SelectRun(c)
  <2> DEFINE bs == record[Request[c].task].bindings
             why == RunRefusal(bs, Request[c].run)
             r == RunChoice(bs, Request[c].run)
             b == [b0 EXCEPT !.step = "bind", !.run = r]
  <2>1. CASE why # "none" /\ Refuse(c, why)
    <3> HIDE DEF why
    <3>1. why \in Verdicts \ {"ok", "none"}
      BY <2>1, RefusalNamed DEF why
    <3>2. bridge[c].step \notin {"none", "gone"}
      BY <1>9 DEF SelectRun, Runs
    <3> QED
      BY <2>1, <3>1, <3>2, RefuseSteps
  <2>2. CASE /\ why = "none"
             /\ bridge' = [bridge EXCEPT ![c].step = "bind", ![c].run = r]
             /\ UNCHANGED <<tool, Shared>>
    <3>1. bs \in Bindings
      BY <1>1, <1>2 DEF Record
    <3>2. r \in Run
      BY <1>2, <2>2, <3>1, RunChosen
    <3> HIDE DEF r
    <3>3. b \in Bridge /\ b.verdict = b0.verdict /\ b.step = "bind" /\ b.run = r
      BY <1>1, <3>2 DEF Bridge, Steps
    <3>4. bridge' = [bridge EXCEPT ![c] = b]
      BY <1>1, <2>2
    <3> HIDE DEF b
    <3> QED
      BY <1>4, <1>9, <2>2, <3>2, <3>3, <3>4 DEF SelectRun, Runs
  <2> QED
    BY <1>9, <2>1, <2>2 DEF SelectRun
<1>10. CASE BindLockTimeout(c)
  BY <1>10, RefuseSteps DEF BindLockTimeout, Runs, Verdicts, Refusals
<1>11. CASE BindSession(c)
  <2> DEFINE u == Request[c].task
             bs == record[u].bindings
             new == Bound(bs, b0.run, Request[c].session)
             b == [b0 EXCEPT !.step = "verify"]
  <2>1. CASE Refuse(c, "cas-conflict") \/ Refuse(c, "bind-conflict")
    BY <1>11, <2>1, RefuseSteps DEF BindSession, Runs, Verdicts, Refusals
  <2>2. CASE /\ record' = record \/ record' = [record EXCEPT
                               ![u].bindings = new, ![u].revision = @ + 1]
             /\ bridge' = [bridge EXCEPT ![c].step = "verify"]
             /\ UNCHANGED <<tool, goal, waits, resumer, changes>>
    <3>1. b0.run \in Run
      BY <1>11 DEF BindSession, Runs, HasRun, WaitInv, Chosen
    <3>2. record[u] \in Record /\ bs \in Bindings
      BY <1>1, <1>2 DEF Record
    <3>3. new \in Bindings
      BY <1>2, <3>1, <3>2, BoundEntry
    <3>4. record' \in [Task -> Record]
      <4> HIDE DEF new
      <4> QED
        BY <1>1, <1>2, <2>2, <3>2, <3>3 DEF Record
    <3>5. /\ b \in Bridge /\ b.step = "verify" /\ b.verdict = b0.verdict
          /\ b.run = b0.run /\ bridge' = [bridge EXCEPT ![c] = b]
      BY <1>1, <2>2 DEF Bridge, Steps
    <3>6. tool[c].stage = "running" /\ tool[c].answer # "ok" /\ b0.verdict = "none"
      BY <1>3, <1>11, AtWork DEF BindSession, Runs
    <3>7. tool[c] \in Tool /\ tool' = [tool EXCEPT ![c] = tool[c]]
      BY <2>2 DEF WaitInv, TypeOK
    <3> HIDE DEF b
    <3>8. Proper(c, tool[c], b)
      BY <3>1, <3>5, <3>6, <3>7 DEF Proper
    <3>9. waits' \in [WaitKey -> Wait \cup {NoWait}] /\ KeepsWaits
      BY <1>1, <2>2 DEF KeepsWaits
    <3>10. CallStep(c, tool[c], b)
      BY <2>2, <3>4, <3>5, <3>6, <3>7, <3>8, <3>9 DEF CallStep
    <3> QED
      BY <3>10
  <2> QED
    BY <1>11, <2>1, <2>2, SMTT(20) DEF BindSession
<1>12. CASE VerifyBinding(c)
  <2> DEFINE b == [b0 EXCEPT !.step = "lookup"]
  <2>1. CASE Refuse(c, "binding-verify-failed")
    BY <1>12, <2>1, RefuseSteps DEF VerifyBinding, Runs, Verdicts, Refusals
  <2>2. CASE /\ bridge' = [bridge EXCEPT ![c].step = "lookup"]
             /\ UNCHANGED <<tool, Shared>>
    <3>1. b0.run \in Run
      BY <1>12 DEF VerifyBinding, Runs, HasRun, WaitInv, Chosen
    <3>2. /\ b \in Bridge /\ b.step = "lookup" /\ b.verdict = b0.verdict
          /\ b.run = b0.run /\ bridge' = [bridge EXCEPT ![c] = b]
      BY <1>1, <2>2 DEF Bridge, Steps
    <3> HIDE DEF b
    <3> QED
      BY <1>4, <1>12, <2>2, <3>1, <3>2 DEF VerifyBinding, Runs
  <2> QED
    BY <1>12, <2>1, <2>2, SMTT(20) DEF VerifyBinding
<1>13. CASE LookupWait(c)
  <2> DEFINE w == waits[Key(c)]
             b == [b0 EXCEPT !.step = "write"]
  <2>1. CASE w = NoWait
    <3>1. b0.run \in Run /\ b0.step = "lookup"
      BY <1>13 DEF LookupWait, Runs, HasRun, WaitInv, Chosen
    <3>2. /\ b \in Bridge /\ b.step = "write" /\ b.verdict = b0.verdict
          /\ b.run = b0.run
      BY <1>1 DEF Bridge, Steps
    <3>3. bridge' = [bridge EXCEPT ![c] = b] /\ UNCHANGED <<tool, Shared>>
      BY <1>1, <1>13, <2>1 DEF LookupWait
    <3> HIDE DEF b
    <3> QED
      BY <1>4, <3>1, <3>2, <3>3
  <2>2. CASE w # NoWait /\ Consistent(c, w)
    <3>1. Exit(c, "ok") /\ UNCHANGED <<tool, Shared>> /\ b0.step = "lookup"
      BY <1>13, <2>2 DEF LookupWait, Refuse, Runs
    <3>2. waits' \in [WaitKey -> Wait \cup {NoWait}] /\ KeepsWaits
      BY <1>1, <3>1 DEF Shared, KeepsWaits
    <3>3. waits'[Key(c)] # NoWait /\ waits'[Key(c)].by = RegistrationOf(c)
      BY <2>2, <3>1 DEF Shared, Consistent
    <3> QED
      BY <3>1, <3>2, <3>3, OkSteps DEF Shared, HasRun
  <2>3. CASE w # NoWait /\ ~Consistent(c, w)
    BY <1>13, <2>3, RefuseSteps DEF LookupWait, Runs, Verdicts, Refusals
  <2> QED
    BY <2>1, <2>2, <2>3
<1>14. CASE WriteWait(c)
  <2> DEFINE k == Key(c)
             w == [by |-> RegistrationOf(c), events |-> {}]
  <2>1. CASE Absent(waits[k])
    <3>1. b0.step = "write" /\ k \in WaitKey
      BY <1>14, ProperNow DEF WriteWait, Runs
    <3>2. w \in Wait /\ w # NoWait /\ w.by = RegistrationOf(c)
      BY <3>1, RegistrationTyped, NoWaitAssumption DEF HasRun, Wait
    <3>3. /\ waits' = [waits EXCEPT ![k] = w] /\ Exit(c, "ok")
          /\ UNCHANGED <<tool, record, goal, resumer, changes>>
      BY <1>14, <2>1 DEF WriteWait
    <3> HIDE DEF k, w
    <3>4. waits' \in [WaitKey -> Wait \cup {NoWait}] /\ waits'[k] = w
      BY <1>1, <3>1, <3>2, <3>3
    <3>5. KeepsWaits
      BY <1>1, <2>1, <3>1, <3>3 DEF KeepsWaits, Absent
    <3>6. waits'[Key(c)] # NoWait /\ waits'[Key(c)].by = RegistrationOf(c)
      BY <3>2, <3>4 DEF k
    <3> QED
      BY <3>1, <3>3, <3>4, <3>5, <3>6, OkSteps DEF HasRun
  <2>2. CASE ~Absent(waits[k])
    BY <1>14, <2>2, RefuseSteps DEF WriteWait, Runs, Verdicts, Refusals
  <2> QED
    BY <2>1, <2>2
<1>15. CASE WaitLockBusy(c)
  BY <1>15, RefuseSteps DEF WaitLockBusy, Runs, Verdicts, Refusals
<1>16. CASE Dies(c)
  BY <1>16, RefuseSteps DEF Dies, Child, Verdicts
<1> QED
  BY <1>5, <1>6, <1>7, <1>8, <1>9, <1>10, <1>11, <1>12, <1>13, <1>14, <1>15,
     <1>16 DEF BridgeStep

-----------------------------------------------------------------------------
(* The steps of the others.                                                *)

\* A resumer takes or drops what it read, and may add an event to a wait.
ResumerStep ==
  /\ UNCHANGED <<record, goal, tool, bridge, changes>>
  /\ resumer' \in [Resumer -> Resume \cup {NoWait}]
  /\ waits' \in [WaitKey -> Wait \cup {NoWait}] /\ KeepsWaits

LEMMA ResumerSteps ==
  ASSUME WaitInv,
         \/ \E q \in Resumer, k \in WaitKey, e \in Event : ReadWait(q, k, e)
         \/ \E q \in Resumer : ConfirmApplied(q) \/ ConfirmBusy(q)
  PROVE  ResumerStep
<1>1. /\ waits \in [WaitKey -> Wait \cup {NoWait}]
      /\ resumer \in [Resumer -> Resume \cup {NoWait}]
  BY DEF WaitInv, TypeOK
<1>2. waits' = waits => KeepsWaits
  BY DEF KeepsWaits
<1>3. ASSUME NEW q \in Resumer, NEW k \in WaitKey, NEW e \in Event, ReadWait(q, k, e)
      PROVE  ResumerStep
  <2>1. [key |-> k, saw |-> waits[k], event |-> e] \in Resume
    BY <1>1, <1>3 DEF ReadWait, Resume
  <2> QED
    BY <1>1, <1>2, <1>3, <2>1 DEF ReadWait, ResumerStep
<1>4. ASSUME NEW q \in Resumer, ConfirmBusy(q)
      PROVE  ResumerStep
  BY <1>1, <1>2, <1>4 DEF ConfirmBusy, ResumerStep
<1>5. ASSUME NEW q \in Resumer, ConfirmApplied(q)
      PROVE  ResumerStep
  <2> DEFINE k == resumer[q].key
             saw == resumer[q].saw
             w == [saw EXCEPT !.events = @ \cup {resumer[q].event}]
  <2>1. resumer[q] \in Resume
    BY <1>1, <1>5 DEF ConfirmApplied
  <2>2. k \in WaitKey /\ saw \in Wait /\ resumer[q].event \in Event
    BY <2>1 DEF Resume
  <2>3. w \in Wait /\ w.by = saw.by /\ saw.events \subseteq w.events
    BY <2>2 DEF Wait
  <2>4. \/ waits' = waits
        \/ waits[k] = saw /\ waits' = [waits EXCEPT ![k] = w]
    BY <1>5 DEF ConfirmApplied, Unmodified
  <2>5. resumer' = [resumer EXCEPT ![q] = NoWait]
        /\ UNCHANGED <<record, goal, tool, bridge, changes>>
    BY <1>5 DEF ConfirmApplied
  <2> HIDE DEF k, saw, w
  <2>6. waits' \in [WaitKey -> Wait \cup {NoWait}]
    BY <1>1, <2>2, <2>3, <2>4
  <2>7. KeepsWaits
    BY <1>1, <1>2, <2>2, <2>3, <2>4, NoWaitAssumption DEF KeepsWaits
  <2>8. resumer' \in [Resumer -> Resume \cup {NoWait}]
    BY <1>1, <2>5
  <2> QED
    BY <2>5, <2>6, <2>7, <2>8 DEF ResumerStep
<1> QED
  BY <1>3, <1>4, <1>5

LEMMA ResumerStepKeepsInv ==
  ASSUME WaitInv, ResumerStep
  PROVE  WaitInv'
<1>1. /\ TypeOK' /\ Counted' /\ Chosen' /\ Ordered'
  BY DEF ResumerStep, WaitInv, TypeOK, Counted, Chosen, Ordered
<1>2. ASSUME NEW c \in Call, bridge'[c].verdict = "ok"
      PROVE  waits'[Key(c)'] # NoWait /\ waits'[Key(c)'].by = RegistrationOf(c)'
  <2>1. Key(c)' = Key(c) /\ RegistrationOf(c)' = RegistrationOf(c)
    BY DEF ResumerStep, Key, RegistrationOf
  <2>2. Key(c) \in WaitKey /\ waits[Key(c)] # NoWait /\ waits[Key(c)].by = RegistrationOf(c)
    BY <1>2, ProperNow DEF ResumerStep, WaitInv, Registered
  <2> QED
    BY <2>1, <2>2 DEF ResumerStep, KeepsWaits
<1>3. Registered'
  BY <1>2 DEF Registered
<1> QED
  BY <1>1, <1>3 DEF WaitInv

\* What other processes do to the goal and the tasks.
LEMMA ElsewhereKeepsInv ==
  ASSUME WaitInv, Elsewhere
  PROVE  WaitInv' /\ waits' = waits
<1>1. /\ goal \in Goal /\ record \in [Task -> Record] /\ changes \in 0 .. MaxChanges
      /\ goal.generation <= changes + 1 /\ goal.lease <= changes + 1
      /\ MaxChanges \in Nat
  BY PlannerWaitAssumption DEF WaitInv, TypeOK, Counted
<1>2. /\ changes < MaxChanges /\ changes' = changes + 1
      /\ UNCHANGED <<waits, tool, bridge, resumer>>
  BY DEF Elsewhere, Change, RenewGoal, LapseGoal, TakeoverGoal, EndGoal, DropTask,
         FinishTask, TouchTask, DetachSession
<1>3. changes' \in 0 .. MaxChanges
  BY <1>1, <1>2
<1>4. goal' \in Goal /\ record' \in [Task -> Record] /\ Counted'
  <2>1. ASSUME record' = record,
               RenewGoal \/ LapseGoal \/ TakeoverGoal \/ EndGoal
                 \/ \E t \in Task : DropTask(t)
        PROVE  goal' \in Goal /\ Counted'
    <3>1. /\ goal.generation \in Nat /\ goal.lease \in Nat /\ changes \in Nat
          /\ goal.generation >= 1 /\ goal.lease >= 1
          /\ goal.generation + 1 \in Generation /\ goal.lease + 1 \in Lease
      BY <1>1, <1>2 DEF Goal, Generation, Lease
    <3>2. CASE RenewGoal
      <4>1. goal' = [goal EXCEPT !.lease = @ + 1]
        BY <3>2 DEF RenewGoal
      <4>2. /\ goal' \in Goal /\ goal'.generation = goal.generation
            /\ goal'.lease = goal.lease + 1
        BY <1>1, <3>1, <4>1 DEF Goal
      <4> QED
        BY <1>1, <1>2, <3>1, <4>2 DEF Counted
    <3>3. CASE TakeoverGoal
      <4>1. goal' = [goal EXCEPT !.held = TRUE, !.generation = @ + 1, !.lease = @ + 1]
        BY <3>3 DEF TakeoverGoal
      <4>2. /\ goal' \in Goal /\ goal'.generation = goal.generation + 1
            /\ goal'.lease = goal.lease + 1
        BY <1>1, <3>1, <4>1 DEF Goal
      <4> QED
        BY <1>1, <1>2, <3>1, <4>2 DEF Counted
    <3>4. CASE LapseGoal \/ EndGoal \/ \E t \in Task : DropTask(t)
      <4>1. /\ goal' \in Goal /\ goal'.generation = goal.generation
            /\ goal'.lease = goal.lease
        BY <1>1, <3>4 DEF LapseGoal, EndGoal, DropTask, Goal
      <4> QED
        BY <1>1, <1>2, <3>1, <4>1 DEF Counted
    <3> QED
      BY <2>1, <3>2, <3>3, <3>4
  <2>2. ASSUME goal' = goal PROVE goal' \in Goal /\ Counted'
    BY <1>1, <1>2, <2>2 DEF Goal, Generation, Lease, Counted
  <2>3. ASSUME NEW t \in Task, FinishTask(t) \/ TouchTask(t)
        PROVE  record' \in [Task -> Record]
    BY <1>1, <2>3 DEF FinishTask, TouchTask, Record
  <2>4. ASSUME NEW t \in Task, NEW r \in Run, NEW s \in Session, DetachSession(t, r, s)
        PROVE  record' \in [Task -> Record]
    <3>1. record[t] \in Record /\ record[t].bindings \in Bindings
      BY <1>1 DEF Record
    <3>2. Detached(record[t].bindings, r, s) \in Bindings
      BY <3>1, DetachedEntry
    <3> QED
      BY <1>1, <2>4, <3>1, <3>2 DEF DetachSession, Record
  <2> QED
    BY <1>1, <2>1, <2>2, <2>3, <2>4
       DEF Elsewhere, RenewGoal, LapseGoal, TakeoverGoal, EndGoal, DropTask,
           FinishTask, TouchTask, DetachSession
<1>5. TypeOK'
  BY <1>2, <1>3, <1>4 DEF WaitInv, TypeOK
<1>6. Chosen' /\ Ordered' /\ Registered'
  BY <1>2 DEF WaitInv, Chosen, Ordered, Registered, Key, RegistrationOf
<1> QED
  BY <1>2, <1>4, <1>5, <1>6 DEF WaitInv

-----------------------------------------------------------------------------
(* The theorems.                                                           *)

LEMMA WaitInvInit == Init => WaitInv
<1> SUFFICES ASSUME Init PROVE WaitInv
  OBVIOUS
<1>1. NoBindings \in Bindings
  BY DEF NoBindings, AbsentEntry, Bindings, Entry, Status
<1>2. MaxChanges \in Nat /\ 1 \in Generation /\ 1 \in Lease
  BY PlannerWaitAssumption DEF Generation, Lease
<1>3. record \in [Task -> Record]
  BY <1>1 DEF Init, Record
<1>4. goal \in Goal
  BY <1>2 DEF Init, Goal
<1>5. bridge \in [Call -> Bridge]
  BY <1>2 DEF Init, Bridge, Steps, Verdicts
<1>6. tool \in [Call -> Tool]
  BY DEF Init, Tool, Answers
<1>7. TypeOK
  <2>1. changes \in 0 .. MaxChanges
    BY <1>2 DEF Init
  <2>2. waits \in [WaitKey -> Wait \cup {NoWait}]
    BY DEF Init
  <2>3. resumer \in [Resumer -> Resume \cup {NoWait}]
    BY DEF Init
  <2> QED
    BY <1>3, <1>4, <1>5, <1>6, <2>1, <2>2, <2>3 DEF TypeOK
<1>8. Counted /\ Chosen /\ Ordered /\ Registered
  BY DEF Init, Counted, Chosen, HasRun, Ordered, Registered
<1> QED
  BY <1>7, <1>8 DEF WaitInv

\* Every step is one of a call, one of a resumer or one of the others.
LEMMA StepKinds ==
  ASSUME WaitInv, Next
  PROVE  \/ \E c \in Call : \E t, b : CallStep(c, t, b)
         \/ ResumerStep
         \/ Elsewhere
BY PluginSteps, BridgeSteps, ResumerSteps DEF Next

LEMMA WaitInvStep ==
  ASSUME WaitInv, [Next]_vars
  PROVE  WaitInv' /\ KeepsWaits
<1>1. CASE Next
  <2>1. ASSUME NEW c \in Call, NEW t, NEW b, CallStep(c, t, b)
        PROVE  WaitInv' /\ KeepsWaits
    BY <2>1, CallStepKeepsInv DEF CallStep
  <2>2. CASE ResumerStep
    BY <2>2, ResumerStepKeepsInv DEF ResumerStep
  <2>3. CASE Elsewhere
    BY <2>3, ElsewhereKeepsInv DEF KeepsWaits
  <2> QED
    BY <1>1, <2>1, <2>2, <2>3, StepKinds
<1>2. CASE UNCHANGED vars
  BY <1>2 DEF vars, WaitInv, TypeOK, Counted, Chosen, Ordered, Registered, Key,
              RegistrationOf, KeepsWaits
<1> QED
  BY <1>1, <1>2

LEMMA WaitInvHolds == Spec => []WaitInv
<1>1. WaitInv /\ [Next]_vars => WaitInv'
  BY WaitInvStep
<1> QED
  BY WaitInvInit, <1>1, PTL DEF Spec

(***************************************************************************)
(* The state of the calls, their children, the waits and the resumers      *)
(* keeps its types.                                                        *)
(***************************************************************************)
THEOREM WaitTypes == Spec => []TypeOK
<1>1. WaitInv => TypeOK
  BY DEF WaitInv
<1> QED
  BY WaitInvHolds, <1>1, PTL

(***************************************************************************)
(* A planner is told "ok" only if its wait is in the directory, with the   *)
(* task, run, terms and lease of its own request, for any calls, faults    *)
(* and changes, detaches included.                                         *)
(***************************************************************************)
THEOREM OkMeansRegistered == Spec => []OkIsRegistered
<1>1. WaitInv => OkIsRegistered
  BY DEF WaitInv, Ordered, Registered, OkIsRegistered
<1> QED
  BY WaitInvHolds, <1>1, PTL

(***************************************************************************)
(* A registered wait is never replaced and loses no confirmed event, for   *)
(* any number of bridges that register and resumers that confirm.          *)
(***************************************************************************)
THEOREM WaitsAreKept == Spec => WaitKept
<1>1. WaitInv /\ [Next]_vars =>
        [ \A k \in WaitKey : waits[k] # NoWait =>
            /\ waits'[k] # NoWait
            /\ waits'[k].by = waits[k].by
            /\ waits[k].events \subseteq waits'[k].events ]_vars
  BY WaitInvStep DEF KeepsWaits
<1> QED
  BY WaitInvHolds, <1>1, PTL DEF Spec, WaitKept

-----------------------------------------------------------------------------
(* What happens to a task record.                                          *)

\* A bridge binds its session where the answer is "ok".
BindsIn(t, r, s) ==
  LET b == record[t].bindings IN
  /\ BindAnswer(b, r, s) = "ok"
  /\ record' = [record EXCEPT ![t].bindings = Bound(b, r, s), ![t].revision = @ + 1]

\* Every step leaves the records alone or is one of these.
LEMMA RecordSteps ==
  ASSUME WaitInv, Next
  PROVE  \/ record' = record
         \/ \E t \in Task, r \in Run, s \in Session :
               BindsIn(t, r, s) \/ DetachSession(t, r, s)
         \/ \E t \in Task : FinishTask(t) \/ TouchTask(t)
<1>1. ASSUME NEW c \in Call, BindSession(c), record' # record
      PROVE  \E t \in Task, r \in Run, s \in Session : BindsIn(t, r, s)
  <2> DEFINE u == Request[c].task
             x == Request[c].session
             q == bridge[c].run
  <2>1. u \in Task /\ x \in Session /\ q \in Run
    BY <1>1, PlannerWaitAssumption
       DEF Requests, BindSession, Runs, HasRun, WaitInv, Chosen
  <2>2. BindAnswer(record[u].bindings, q, x) \in {"ok", "conflict", "idempotent"}
    BY DEF BindAnswer
  <2>3. BindsIn(u, q, x)
    BY <1>1, <2>2 DEF BindSession, Refuse, Shared, BindsIn
  <2> QED
    BY <2>1, <2>3
<1>2. ASSUME NEW c \in Call, Plugin(c) PROVE record' = record
  BY <1>2 DEF Plugin, Invoke, LookupFails, Spawn, SpawnUnfed, ChildError, StdinError,
              Overflow, Timeout, Close, Shared
<1>3. ASSUME NEW c \in Call, BridgeStep(c) \/ Dies(c), ~BindSession(c)
      PROVE  record' = record
  <2>1. ASSUME NEW v, Refuse(c, v) PROVE record' = record
    BY <2>1 DEF Refuse, Shared
  <2>2. ASSUME UNCHANGED Shared PROVE record' = record
    BY <2>2 DEF Shared
  <2>3. CASE NoEnvelope(c) \/ BindLockTimeout(c) \/ WaitLockBusy(c) \/ Dies(c)
    BY <2>1, <2>3 DEF NoEnvelope, BindLockTimeout, WaitLockBusy, Dies
  <2>4. CASE ReadTask(c) \/ ReadGoal(c)
    BY <2>1, <2>2, <2>4 DEF ReadTask, ReadGoal
  <2>5. CASE SelectRun(c) \/ \E u \in Task : ScanTask(c, u)
    BY <2>1, <2>2, <2>5, SMTT(20) DEF SelectRun, ScanTask
  <2>6. CASE VerifyBinding(c) \/ LookupWait(c)
    BY <2>1, <2>2, <2>6 DEF VerifyBinding, LookupWait
  <2>7. CASE WriteWait(c)
    BY <2>1, <2>7 DEF WriteWait
  <2> QED
    BY <1>3, <2>3, <2>4, <2>5, <2>6, <2>7 DEF BridgeStep
<1>4. ASSUME \/ \E q \in Resumer, k \in WaitKey, e \in Event : ReadWait(q, k, e)
             \/ \E q \in Resumer : ConfirmApplied(q) \/ ConfirmBusy(q)
      PROVE  record' = record
  BY <1>4 DEF ReadWait, ConfirmApplied, ConfirmBusy
<1>5. ASSUME RenewGoal \/ LapseGoal \/ TakeoverGoal \/ EndGoal
               \/ \E u \in Task : DropTask(u)
      PROVE  record' = record
  BY <1>5 DEF RenewGoal, LapseGoal, TakeoverGoal, EndGoal, DropTask
<1> QED
  BY <1>1, <1>2, <1>3, <1>4, <1>5 DEF Next, Elsewhere

(***************************************************************************)
(* Every task record keeps its bindings sound, although the bridges that   *)
(* bind in it read it before: a worker belongs to one run and is no other  *)
(* run's root, and the session that executes is known to one of the runs.  *)
(***************************************************************************)
THEOREM RecordsStaySound == Spec => [](\A t \in Task : Sound(record[t].bindings))
<1> DEFINE AllSound == \A t \in Task : Sound(record[t].bindings)
<1>1. Init => AllSound
  <2> SUFFICES ASSUME Init, NEW t \in Task PROVE Sound(record[t].bindings)
    OBVIOUS
  <2>1. record[t].bindings = NoBindings
    BY DEF Init
  <2> QED
    BY <2>1 DEF Sound, Apart, ActiveKnown, NoBindings, AbsentEntry, Bindings, Entry, Status
<1>2. ASSUME WaitInv, AllSound, [Next]_vars PROVE AllSound'
  <2>1. /\ record \in [Task -> Record]
        /\ \A t \in Task : record[t] \in Record /\ record[t].bindings \in Bindings
    BY <1>2 DEF WaitInv, TypeOK, Record
  <2>2. CASE record' = record
    BY <1>2, <2>2
  <2>3. ASSUME NEW t \in Task, NEW b, Sound(b),
               record' = [record EXCEPT ![t].bindings = b, ![t].revision = @ + 1]
        PROVE  AllSound'
    <3>1. /\ record'[t].bindings = b
          /\ \A u \in Task \ {t} : record'[u] = record[u]
      BY <2>1, <2>3 DEF Record
    <3> QED
      BY <1>2, <2>3, <3>1
  <2>4. ASSUME NEW t \in Task, NEW r \in Run, NEW s \in Session,
               BindsIn(t, r, s) \/ DetachSession(t, r, s)
        PROVE  AllSound'
    <3>1. Sound(record[t].bindings)
      BY <1>2
    <3>2. CASE BindsIn(t, r, s)
      <4>1. ~ClaimedElsewhere(record[t].bindings, r, s, FALSE)
        BY <3>2 DEF BindsIn, BindAnswer
      <4>2. Sound(Bound(record[t].bindings, r, s))
        BY <3>1, <4>1, BoundSound
      <4> QED
        BY <2>3, <3>2, <4>2 DEF BindsIn
    <3>3. CASE DetachSession(t, r, s)
      <4>1. Sound(Detached(record[t].bindings, r, s))
        BY <3>1, DetachedSound
      <4>2. record' = [record EXCEPT ![t].bindings = Detached(record[t].bindings, r, s),
                                     ![t].revision = @ + 1]
        BY <2>1, <3>3 DEF DetachSession
      <4> QED
        BY <2>3, <4>1, <4>2
    <3> QED
      BY <2>4, <3>2, <3>3
  <2>5. ASSUME NEW t \in Task, FinishTask(t) \/ TouchTask(t) PROVE AllSound'
    <3>1. \A u \in Task : record'[u].bindings = record[u].bindings
      BY <2>1, <2>5 DEF FinishTask, TouchTask, Record
    <3> QED
      BY <1>2, <3>1
  <2> QED
    BY <1>2, <2>2, <2>4, <2>5, RecordSteps DEF vars
<1> QED
  BY WaitInvHolds, <1>1, <1>2, PTL DEF Spec

-----------------------------------------------------------------------------
(* Bound while nobody detaches.                                            *)

Holds(t, r, s) ==
  LET b == record[t].bindings IN
  b.active = s /\ b.runs[r].root = s /\ b.runs[r].status = "attached"

Executes(c) == Holds(Request[c].task, bridge[c].run, Request[c].session)

Verified(c) == bridge[c].step \in {"lookup", "write"} \/ bridge[c].verdict = "ok"

BoundInv == \A c \in Call : Verified(c) => Executes(c)

\* A session that executes a run of a task is displaced by no bind.
LEMMA HoldsLasts ==
  ASSUME WaitInv, Next, "detach" \notin Changes,
         NEW t \in Task, NEW r \in Run, NEW s \in Session, Holds(t, r, s)
  PROVE  Holds(t, r, s)'
<1>1. record \in [Task -> Record] /\ record[t].bindings \in Bindings
  BY DEF WaitInv, TypeOK, Record
<1>2. CASE record' = record
  BY <1>2 DEF Holds
<1>3. ASSUME NEW u \in Task, NEW q \in Run, NEW x \in Session, BindsIn(u, q, x)
      PROVE  Holds(t, r, s)'
  <2> DEFINE b == record[u].bindings
             new == Bound(b, q, x)
  <2>1. record[u] \in Record /\ b \in Bindings
    BY <1>1 DEF Record
  <2>2. /\ BindAnswer(b, q, x) = "ok"
        /\ record' = [record EXCEPT ![u].bindings = new, ![u].revision = @ + 1]
    BY <1>3 DEF BindsIn
  <2>3. /\ new.active = x /\ new.runs[q].root = x
        /\ new.runs[q].status = "attached"
        /\ \A o \in Run \ {q} : new.runs[o] = b.runs[o]
    <3> HIDE DEF b
    <3> QED
      BY <2>1, BoundEntry
  <2> HIDE DEF new
  <2>4. CASE u = t
    <3>1. record'[t].bindings = new
      BY <1>1, <2>1, <2>2, <2>4 DEF Record
    <3>2. x = s
      BY <2>2, <2>4, BindingAssumption DEF BindAnswer, OwnedByAnother, Holds
    <3> QED
      BY <2>3, <2>4, <3>1, <3>2 DEF Holds
  <2>5. CASE u # t
    <3>1. record'[t] = record[t]
      BY <1>1, <2>2, <2>5
    <3> QED
      BY <3>1 DEF Holds
  <2> QED
    BY <2>4, <2>5
<1>4. ASSUME NEW u \in Task, FinishTask(u) \/ TouchTask(u) PROVE Holds(t, r, s)'
  <2>1. record[u] \in Record
    BY <1>1
  <2>2. record'[t].bindings = record[t].bindings
    BY <1>1, <1>4, <2>1 DEF FinishTask, TouchTask, Record
  <2> QED
    BY <2>2 DEF Holds
<1>5. ASSUME NEW u \in Task, NEW o \in Run, NEW x \in Session, DetachSession(u, o, x)
      PROVE  FALSE
  BY <1>5 DEF DetachSession, Change
<1> QED
  BY <1>2, <1>3, <1>4, <1>5, RecordSteps

\* Only the verification makes a child one that has verified.
LEMMA VerifiedFrom ==
  ASSUME WaitInv, Next, NEW c \in Call, Verified(c)'
  PROVE  /\ bridge'[c].run = bridge[c].run
         /\ Verified(c) \/ (bridge[c].step = "verify" /\ Executes(c))
<1>1. /\ bridge \in [Call -> Bridge] /\ bridge[c] \in Bridge
      /\ bridge[c].step \notin {"exited", "gone"} => bridge[c].verdict = "none"
      /\ tool[c].stage # "running" => bridge[c].step = "none"
  BY DEF WaitInv, TypeOK, Ordered
<1>2. CASE bridge'[c] = bridge[c]
  BY <1>2 DEF Verified
<1>3. ASSUME NEW d \in Call, d # c, Plugin(d) \/ BridgeStep(d) \/ Dies(d)
      PROVE  bridge'[c] = bridge[c]
  <2>1. \E t, b : CallStep(d, t, b)
    BY <1>3, PluginSteps, BridgeSteps
  <2> QED
    BY <1>1, <1>3, <2>1 DEF CallStep
<1>4. ASSUME Plugin(c) PROVE bridge'[c].run = bridge[c].run /\ Verified(c)
  <2>1. ASSUME Invoke(c) \/ LookupFails(c) PROVE bridge' = bridge
    BY <2>1 DEF Invoke, LookupFails
  <2>2. ASSUME Spawn(c) \/ SpawnUnfed(c) PROVE FALSE
    BY <1>1, <2>2 DEF Spawn, SpawnUnfed, Verified, Bridge
  <2>3. ASSUME ChildError(c) PROVE FALSE
    BY <1>1, <2>3 DEF ChildError, Verified, Bridge
  <2>4. ASSUME StdinError(c) \/ Overflow(c) \/ Timeout(c)
        PROVE  bridge'[c].run = bridge[c].run /\ Verified(c)
    <3>1. CASE StdinError(c)
      <4>1. PICK fed \in BOOLEAN :
              bridge'[c] = Kill([bridge[c] EXCEPT !.fed = fed])
        BY <1>1, <3>1 DEF StdinError
      <4>2. /\ [bridge[c] EXCEPT !.fed = fed] \in Bridge
            /\ [bridge[c] EXCEPT !.fed = fed].step = bridge[c].step
            /\ [bridge[c] EXCEPT !.fed = fed].verdict = bridge[c].verdict
            /\ [bridge[c] EXCEPT !.fed = fed].run = bridge[c].run
        BY <1>1 DEF Bridge
      <4> QED
        BY <4>1, <4>2, KillKeeps DEF Verified
    <3>2. CASE Overflow(c) \/ Timeout(c)
      <4>1. bridge'[c] = Kill(bridge[c])
        BY <1>1, <3>2 DEF Overflow, Timeout
      <4> QED
        BY <1>1, <4>1, KillKeeps DEF Verified
    <3> QED
      BY <2>4, <3>1, <3>2
  <2>5. ASSUME Close(c) PROVE bridge'[c].run = bridge[c].run /\ Verified(c)
    BY <1>1, <2>5 DEF Close, Verified, Bridge
  <2> QED
    BY <1>4, <2>1, <2>2, <2>3, <2>4, <2>5 DEF Plugin, Verified
\* Neither a refusal nor a step to an earlier place is one.
<1>5. ASSUME NEW v, v # "ok", Refuse(c, v) PROVE FALSE
  BY <1>1, <1>5 DEF Refuse, Exit, Verified, Bridge
<1>6. ASSUME bridge'[c].step \notin {"lookup", "write"}, bridge'[c].verdict = "none"
      PROVE  FALSE
  BY <1>6 DEF Verified
<1>7. ASSUME NoEnvelope(c) \/ BindLockTimeout(c) \/ WaitLockBusy(c) \/ Dies(c)
      PROVE  FALSE
  BY <1>5, <1>7 DEF NoEnvelope, BindLockTimeout, WaitLockBusy, Dies
<1>8. ASSUME ReadTask(c) \/ ReadGoal(c) PROVE FALSE
  <2>1. CASE ReadTask(c)
    BY <1>1, <1>5, <1>6, <2>1 DEF ReadTask, Runs, Bridge
  <2>2. CASE ReadGoal(c)
    <3>1. GoalRefusal(Request[c].task) # "ok"
      BY DEF GoalRefusal
    <3> QED
      BY <1>1, <1>5, <1>6, <2>2, <3>1 DEF ReadGoal, Runs, Bridge
  <2> QED
    BY <1>8, <2>1, <2>2
<1>9. ASSUME SelectRun(c) \/ \E u \in Task : ScanTask(c, u) PROVE FALSE
  <2>1. CASE SelectRun(c)
    <3> DEFINE v == RunRefusal(record[Request[c].task].bindings, Request[c].run)
    <3>1. v # "none" => v # "ok"
      <4> HIDE DEF v
      <4> QED
        BY RefusalNamed DEF v
    <3> QED
      BY <1>1, <1>5, <1>6, <2>1, <3>1 DEF SelectRun, Runs, Bridge
  <2>2. CASE \E u \in Task : ScanTask(c, u)
    BY <1>1, <1>5, <1>6, <2>2 DEF ScanTask, Runs, Bridge
  <2> QED
    BY <1>9, <2>1, <2>2
<1>10. ASSUME BindSession(c) PROVE FALSE
  BY <1>1, <1>5, <1>6, <1>10, SMTT(20) DEF BindSession, Runs, Bridge
<1>11. ASSUME VerifyBinding(c)
       PROVE  bridge'[c].run = bridge[c].run /\ bridge[c].step = "verify" /\ Executes(c)
  BY <1>1, <1>11 DEF VerifyBinding, Runs, Refuse, Exit, Verified, Bridge, Executes,
                     Holds
<1>12. ASSUME LookupWait(c) \/ WriteWait(c)
       PROVE  bridge'[c].run = bridge[c].run /\ Verified(c)
  BY <1>1, <1>12 DEF LookupWait, WriteWait, Runs, Refuse, Exit, Verified, Bridge
<1>13. ASSUME \/ \E q \in Resumer, k \in WaitKey, e \in Event : ReadWait(q, k, e)
              \/ \E q \in Resumer : ConfirmApplied(q) \/ ConfirmBusy(q)
       PROVE  bridge' = bridge
  BY <1>13 DEF ReadWait, ConfirmApplied, ConfirmBusy
<1>14. ASSUME Elsewhere PROVE bridge' = bridge
  BY <1>14 DEF Elsewhere, Change, RenewGoal, LapseGoal, TakeoverGoal, EndGoal,
               DropTask, FinishTask, TouchTask, DetachSession
<1> QED
  BY <1>2, <1>3, <1>4, <1>5, <1>6, <1>7, <1>8, <1>9, <1>10, <1>11, <1>12, <1>13,
     <1>14 DEF Next, BridgeStep

(***************************************************************************)
(* As long as nobody detaches, a planner that is told "ok" executes its    *)
(* task, for any calls and sessions and whatever else fails or changes.    *)
(***************************************************************************)
THEOREM OkMeansBound ==
  ASSUME "detach" \notin Changes
  PROVE  Spec => []OkIsBound
<1>1. Init => BoundInv
  BY DEF Init, BoundInv, Verified
<1>2. ASSUME WaitInv, BoundInv, [Next]_vars PROVE BoundInv'
  <2>1. CASE Next
    <3> SUFFICES ASSUME NEW c \in Call, Verified(c)' PROVE Executes(c)'
      BY DEF BoundInv
    <3>1. Executes(c) /\ bridge'[c].run = bridge[c].run
      BY <1>2, <2>1, VerifiedFrom DEF BoundInv
    <3>2. Request[c].task \in Task /\ Request[c].session \in Session
      BY PlannerWaitAssumption DEF Requests
    <3>3. PICK r \in Run : bridge[c].run = r
      <4>1. Verified(c) \/ bridge[c].step = "verify"
        BY <1>2, <2>1, VerifiedFrom
      <4> QED
        BY <1>2, <4>1 DEF Verified, HasRun, WaitInv, Chosen
    <3>4. Holds(Request[c].task, r, Request[c].session)
      BY <3>1, <3>3 DEF Executes
    <3>5. Holds(Request[c].task, r, Request[c].session)'
      BY <1>2, <2>1, <3>2, <3>3, <3>4, HoldsLasts, "detach" \notin Changes, SMTT(20)
    <3> QED
      BY <3>1, <3>3, <3>5 DEF Executes, Holds
  <2>2. CASE UNCHANGED vars
    BY <1>2, <2>2, SMTT(20) DEF vars, BoundInv, Verified, Executes, Holds
  <2> QED
    BY <1>2, <2>1, <2>2
<1>3. WaitInv /\ BoundInv => OkIsBound
  BY DEF WaitInv, Ordered, BoundInv, Verified, Executes, Holds, OkIsBound
<1> QED
  BY WaitInvHolds, <1>1, <1>2, <1>3, PTL DEF Spec

-----------------------------------------------------------------------------
(* A request that is repeated.                                             *)

\* Every call asks the same and names its run, and each but the first
\* repeats the one before it.
Repeats(ask, place) ==
  /\ ask.run # NoRun
  /\ \A c \in Call : Request[c] = ask
  /\ \A c \in Call : IF RetryOf[c] = NoCall THEN place[c] = 0
                     ELSE place[c] = place[RetryOf[c]] + 1
  /\ \A c, d \in Call : place[c] = place[d] => c = d

\* What the bindings of the task may be: nobody's, ours, or ours once.
Free(b) == b.active = NoSession /\ \A r \in Run : b.runs[r] = AbsentEntry

OfRun(b, ask, status) ==
  /\ b.runs[ask.run] = [root |-> ask.session, workers |-> {}, status |-> status]
  /\ \A r \in Run \ {ask.run} : b.runs[r] = AbsentEntry

Ours(b, ask) == OfRun(b, ask, "attached") /\ b.active = ask.session
Left(b, ask) == OfRun(b, ask, "detached") /\ b.active = NoSession

Has(ask) == record[ask.task].bindings

\* The goal is as it was, and only the task of the request is bound.
Quiet(ask) ==
  /\ goal = [active |-> TRUE, held |-> TRUE, generation |-> 1, lease |-> 1,
             tracks |-> Task]
  /\ \A t \in Task : record[t].open
  /\ \A t \in Task \ {ask.task} : Free(record[t].bindings)
  /\ Free(Has(ask)) \/ Ours(Has(ask), ask) \/ Left(Has(ask), ask)

\* Every wait registers the request, and a resumer has read one that exists.
Alike(ask) ==
  /\ \A k \in WaitKey : waits[k] # NoWait =>
       waits[k].by = [task |-> ask.task, run |-> ask.run, terms |-> ask.terms, lease |-> 1]
  /\ \A q \in Resumer : resumer[q] # NoWait => waits[resumer[q].key] # NoWait

\* A call begins when those before it are answered and their children gone.
InTurn(place) ==
  /\ \A c \in Call : tool[c].answer # "none" \/ tool[c].timer => tool[c].stage # "idle"
  /\ \A c, d \in Call : place[d] < place[c] /\ tool[c].stage # "idle" =>
       tool[d].answer # "none" /\ ~Child(d)

\* What a child read still holds, unless the binding was detached.
Course(c, ask) ==
  /\ bridge[c].generation = 1 /\ bridge[c].lease = 1
  /\ Runs(c, "scan") => ask.task \in bridge[c].scanned
  /\ bridge[c].step \in HasRun => bridge[c].run = ask.run
  /\ bridge[c].step \in {"goal", "scan", "bind"} =>
       bridge[c].revision = record[ask.task].revision \/ Left(Has(ask), ask)
  /\ bridge[c].step \in {"verify", "lookup", "write"} => ~Free(Has(ask))
  /\ Runs(c, "write") => waits[Key(c)] = NoWait

\* A call to which nothing happens is not refused, unless it was.
Unharmed(c, ask) ==
  c \notin Faulty =>
    /\ ~bridge[c].killed /\ (Runs(c, "boot") => bridge[c].fed)
    /\ Runs(c, "exited") => bridge[c].verdict # "none"
    /\ \/ bridge[c].verdict \in {"none", "ok"} /\ tool[c].answer \in {"none", "ok"}
       \/ Left(Has(ask), ask)

RetryInv(ask, place) ==
  /\ Quiet(ask) /\ Alike(ask) /\ InTurn(place)
  /\ \A c \in Call : Course(c, ask) /\ Unharmed(c, ask)

\* What binding and detaching make of them.
LEMMA FreeTaken ==
  ASSUME NEW ask \in Requests, ask.run # NoRun, NEW b \in Bindings, Free(b)
  PROVE  /\ BindAnswer(b, ask.run, ask.session) = "ok"
         /\ Ours(Bound(b, ask.run, ask.session), ask)
<1> DEFINE n == Bound(b, ask.run, ask.session)
<1>1. ask.run \in Run /\ ask.session \in Session
  BY DEF Requests
<1>2. BindAnswer(b, ask.run, ask.session) = "ok"
  BY <1>1, BindingAssumption
     DEF Free, AbsentEntry, BindAnswer, ClaimedElsewhere, OwnedByAnother
<1>3. /\ n.active = ask.session /\ n.runs[ask.run].root = ask.session
      /\ n.runs[ask.run].workers = b.runs[ask.run].workers
      /\ n.runs[ask.run].status = "attached"
      /\ \A o \in Run \ {ask.run} : n.runs[o] = b.runs[o]
      /\ n \in Bindings
  BY <1>1, BoundEntry
<1> HIDE DEF n
<1>4. n.runs[ask.run] \in Entry
  BY <1>1, <1>3 DEF Bindings
<1>5. n.runs[ask.run] = [root |-> ask.session, workers |-> {}, status |-> "attached"]
  BY <1>1, <1>3, <1>4 DEF Entry, Free, AbsentEntry
<1> QED
  BY <1>1, <1>2, <1>3, <1>5 DEF Ours, OfRun, Free, n

LEMMA TakenStays ==
  ASSUME NEW ask \in Requests, ask.run # NoRun, NEW b \in Bindings,
         Ours(b, ask) \/ Left(b, ask)
  PROVE  BindAnswer(b, ask.run, ask.session) = "idempotent"
<1>1. ask.run \in Run
  BY DEF Requests
<1>2. \A o \in Run \ {ask.run} : b.runs[o].workers = {}
  BY DEF Ours, Left, OfRun, AbsentEntry
<1>3. b.runs[ask.run].root = ask.session
  BY DEF Ours, Left, OfRun
<1> QED
  BY <1>1, <1>2, <1>3 DEF BindAnswer, ClaimedElsewhere

\* Only the binding itself can be detached.
LEMMA OnlyOursLeaves ==
  ASSUME NEW ask \in Requests, ask.run # NoRun, NEW b \in Bindings,
         NEW r \in Run, NEW s \in Session, DetachAnswer(b, r, s) = "ok"
  PROVE  /\ ~Free(b) /\ ~Left(b, ask)
         /\ Ours(b, ask) => Left(Detached(b, r, s), ask)
<1> DEFINE n == Detached(b, r, s)
<1>1. b.runs[r].status \notin {"absent", "detached"} /\ Member(b.runs[r], s)
  BY DEF DetachAnswer
<1>2. ask.run \in Run /\ ask.session \in Session
  BY DEF Requests
<1>3. ~Free(b)
  BY <1>1 DEF Free, AbsentEntry
<1>4. ~Left(b, ask)
  BY <1>1, <1>2 DEF Left, OfRun, AbsentEntry
<1>5. ASSUME Ours(b, ask) PROVE Left(n, ask)
  <2>1. r = ask.run
    BY <1>1, <1>5 DEF Ours, OfRun, AbsentEntry
  <2>2. s = ask.session
    BY <1>1, <1>5, <2>1 DEF Ours, OfRun, Member
  <2>3. /\ n \in Bindings /\ n.active = NoSession
        /\ n.runs[r].root = ask.session /\ n.runs[r].workers = {}
        /\ n.runs[r].status = "detached"
        /\ \A o \in Run \ {r} : n.runs[o] = b.runs[o]
    <3>1. b.active = s /\ b.runs[r].root = ask.session /\ b.runs[r].workers = {}
      BY <1>5, <2>1, <2>2 DEF Ours, OfRun
    <3> QED
      BY <3>1, DetachedEntry
  <2> HIDE DEF n
  <2>4. n.runs[r] \in Entry
    BY <2>3 DEF Bindings
  <2>5. n.runs[r] = [root |-> ask.session, workers |-> {}, status |-> "detached"]
    BY <2>3, <2>4 DEF Entry
  <2> QED
    BY <1>5, <2>1, <2>3, <2>5 DEF Ours, Left, OfRun
<1> QED
  BY <1>3, <1>4, <1>5

LEMMA RunGranted ==
  ASSUME NEW ask \in Requests, ask.run # NoRun, NEW b \in Bindings,
         Free(b) \/ Ours(b, ask) \/ Left(b, ask)
  PROVE  /\ RunChoice(b, ask.run) = ask.run
         /\ ~Left(b, ask) => RunRefusal(b, ask.run) = "none"
<1>1. ask.run \in Run
  BY DEF Requests
<1>2. RunChoice(b, ask.run) = ask.run
  BY DEF RunChoice
<1>3. ASSUME Free(b) PROVE RunRefusal(b, ask.run) = "none"
  <2>1. KnownRuns(b) = {} /\ b.runs[ask.run].status # "detached"
    BY <1>1, <1>3 DEF Free, KnownRuns, AbsentEntry
  <2> QED
    BY <1>2, <2>1 DEF RunRefusal
<1>4. ASSUME Ours(b, ask) PROVE RunRefusal(b, ask.run) = "none"
  <2>1. ask.run \in KnownRuns(b) /\ b.runs[ask.run].status # "detached"
    BY <1>1, <1>4 DEF Ours, OfRun, KnownRuns
  <2> QED
    BY <1>2, <2>1 DEF RunRefusal
<1> QED
  BY <1>2, <1>3, <1>4

LEMMA StateApart ==
  ASSUME NEW ask \in Requests, ask.run # NoRun, NEW b \in Bindings
  PROVE  /\ ~(Free(b) /\ Ours(b, ask)) /\ ~(Free(b) /\ Left(b, ask))
         /\ ~(Ours(b, ask) /\ Left(b, ask))
         /\ Free(b) => ~BoundIn(b, ask.session)
<1>1. ask.run \in Run /\ ask.session \in Session /\ ask.session # NoSession
  BY BindingAssumption DEF Requests
<1> QED
  BY <1>1 DEF Free, Ours, Left, OfRun, AbsentEntry, BoundIn, Member

\* A step of one call and its child, seen by what it leaves of the others.
Move(c, ask) ==
  /\ \A d \in Call \ {c} : tool'[d] = tool[d] /\ bridge'[d] = bridge[d]
  /\ \/ record' = record /\ goal' = goal /\ waits' = waits /\ resumer' = resumer
     \/ Child(c) /\ Quiet(ask)' /\ Alike(ask)' /\ (Left(Has(ask), ask) => Left(Has(ask), ask)')
  /\ Child(c)' => \/ Child(c)
                  \/ tool[c].stage # "idle" /\ tool[c].answer = "none"
  /\ tool'[c].stage # "idle"
  /\ tool[c].answer # "none" => tool'[c].answer # "none"
  /\ tool[c].stage = "idle" /\ RetryOf[c] # NoCall =>
       tool[RetryOf[c]].answer # "none" /\ ~Child(RetryOf[c])
  /\ Course(c, ask)' /\ Unharmed(c, ask)'

LEMMA MoveKeepsTurns ==
  ASSUME NEW ask, NEW place \in [Call -> Nat], Repeats(ask, place),
         WaitInv, InTurn(place), NEW c \in Call, Move(c, ask)
  PROVE  InTurn(place)'
<1>1. /\ \A d \in Call \ {c} : tool'[d] = tool[d] /\ bridge'[d] = bridge[d]
      /\ \A d \in Call \ {c} : Child(d)' <=> Child(d)
  BY DEF Move, Child
<1>2. \A d \in Call : Child(d) => tool[d].stage # "idle"
  BY DEF Child, WaitInv, Ordered
<1>3. ASSUME NEW d \in Call, tool'[d].answer # "none" \/ tool'[d].timer
      PROVE  tool'[d].stage # "idle"
  BY <1>1, <1>3 DEF Move, InTurn
\* Those before a call that begins are the one it repeats, and those before that.
<1>4. ASSUME NEW d \in Call, place[d] < place[c]
      PROVE  tool[d].answer # "none" /\ ~Child(d)
  <2>1. CASE tool[c].stage # "idle"
    BY <1>4, <2>1 DEF InTurn
  <2>2. CASE tool[c].stage = "idle"
    <3> DEFINE p == RetryOf[c]
    <3>1. place[c] # 0
      BY <1>4
    <3>2. p \in Call /\ place[c] = place[p] + 1 /\ p # NoCall
      BY <3>1, PlannerWaitAssumption DEF Repeats
    <3>3. tool[p].answer # "none" /\ ~Child(p)
      BY <2>2, <3>2 DEF Move
    <3>4. tool[p].stage # "idle"
      BY <3>2, <3>3 DEF InTurn
    <3>5. place[d] = place[p] \/ place[d] < place[p]
      BY <1>4, <3>2
    <3>6. place[d] = place[p] => d = p
      BY <3>2 DEF Repeats
    <3> QED
      BY <3>2, <3>3, <3>4, <3>5, <3>6 DEF InTurn
  <2> QED
    BY <2>1, <2>2
<1>5. ASSUME NEW d \in Call, NEW e \in Call, place[d] < place[e], tool'[e].stage # "idle"
      PROVE  tool'[d].answer # "none" /\ ~Child(d)'
  <2>1. tool[d].answer # "none" /\ ~Child(d)
    BY <1>1, <1>4, <1>5 DEF InTurn
  <2> QED
    BY <1>1, <2>1 DEF Move
<1> QED
  BY <1>3, <1>5 DEF InTurn

LEMMA MoveKeeps ==
  ASSUME NEW ask, NEW place \in [Call -> Nat], Repeats(ask, place),
         WaitInv, RetryInv(ask, place), NEW c \in Call, Move(c, ask)
  PROVE  RetryInv(ask, place)'
<1>1. InTurn(place)'
  BY MoveKeepsTurns DEF RetryInv
<1>2. Quiet(ask)' /\ Alike(ask)'
  BY DEF Move, RetryInv, Quiet, Alike, Has
<1>3. ASSUME NEW d \in Call, d # c PROVE Course(d, ask)' /\ Unharmed(d, ask)'
  <2>1. tool'[d] = tool[d] /\ bridge'[d] = bridge[d] /\ Course(d, ask) /\ Unharmed(d, ask)
    BY <1>3 DEF Move, RetryInv
  <2>2. CASE record' = record /\ waits' = waits
    BY <2>1, <2>2 DEF Course, Unharmed, Runs, Has, Key
  <2>3. CASE Child(c) /\ (Left(Has(ask), ask) => Left(Has(ask), ask)')
    <3>1. tool[c].stage # "idle"
      BY <2>3 DEF Child, WaitInv, Ordered
    <3>2. ~Child(d)
      <4>1. place[c] \in Nat /\ place[d] \in Nat /\ place[c] # place[d]
        BY <1>3 DEF Repeats
      <4>2. place[d] < place[c] \/ place[c] < place[d]
        BY <4>1
      <4>3. ASSUME Child(d) PROVE FALSE
        <5>1. tool[d].stage # "idle"
          BY <4>3 DEF Child, WaitInv, Ordered
        <5> QED
          BY <2>3, <3>1, <4>2, <4>3, <5>1 DEF RetryInv, InTurn
      <4> QED
        BY <4>3
    <3>3. bridge[d].step \in {"none", "gone"}
      BY <3>2 DEF Child
    <3>4. Course(d, ask)'
      BY <2>1, <3>3 DEF Course, Runs, HasRun
    <3>5. Unharmed(d, ask)'
      BY <2>1, <2>3, <3>3 DEF Unharmed, Runs
    <3> QED
      BY <3>4, <3>5
  <2> QED
    BY <2>2, <2>3 DEF Move
<1> QED
  BY <1>1, <1>2, <1>3 DEF RetryInv, Move

LEMMA RetryNow ==
  ASSUME NEW ask \in Requests, NEW place \in [Call -> Nat], Repeats(ask, place),
         WaitInv, RetryInv(ask, place), NEW c \in Call
  PROVE  /\ Course(c, ask) /\ Unharmed(c, ask) /\ Request[c] = ask
         /\ tool \in [Call -> Tool] /\ tool[c] \in Tool
         /\ bridge \in [Call -> Bridge] /\ bridge[c] \in Bridge
         /\ record \in [Task -> Record] /\ ask.task \in Task
         /\ record[ask.task] \in Record /\ Has(ask) \in Bindings
         /\ waits \in [WaitKey -> Wait \cup {NoWait}] /\ Key(c) \in WaitKey
         /\ bridge[c].step \notin {"exited", "gone"} => bridge[c].verdict = "none"
         /\ Child(c) => tool[c].stage = "running" /\ tool[c].answer # "ok"
<1>1. /\ Course(c, ask) /\ Unharmed(c, ask) /\ Request[c] = ask
  BY DEF RetryInv, Repeats
<1>2. /\ tool \in [Call -> Tool] /\ bridge \in [Call -> Bridge]
      /\ record \in [Task -> Record] /\ waits \in [WaitKey -> Wait \cup {NoWait}]
  BY DEF WaitInv, TypeOK
<1>3. ask.task \in Task /\ record[ask.task] \in Record /\ Has(ask) \in Bindings
  BY <1>2 DEF Requests, Record, Has
<1>4. Key(c) \in WaitKey
  BY ProperNow
<1> QED
  BY <1>1, <1>2, <1>3, <1>4, AtWork DEF WaitInv, Ordered, Child

\* A bridge that goes on.
LEMMA ForwardMove ==
  ASSUME NEW ask \in Requests, NEW place \in [Call -> Nat], Repeats(ask, place),
         WaitInv, RetryInv(ask, place), NEW c \in Call, Child(c),
         NEW b \in Bridge, bridge' = [bridge EXCEPT ![c] = b], UNCHANGED <<tool, Shared>>,
         b.generation = 1, b.lease = 1, b.killed = bridge[c].killed, b.verdict = "none",
         b.step \in {"goal", "scan"} \cup HasRun,
         b.step = "scan" => ask.task \in b.scanned,
         b.step \in HasRun => b.run = ask.run,
         b.step \in {"goal", "scan", "bind"} =>
            b.revision = record[ask.task].revision \/ Left(Has(ask), ask),
         b.step \in {"verify", "lookup", "write"} => ~Free(Has(ask)),
         b.step = "write" => waits[<<ask.pull, 1>>] = NoWait
  PROVE  Move(c, ask)
<1>1. /\ bridge'[c] = b /\ tool' = tool
      /\ \A d \in Call \ {c} : tool'[d] = tool[d] /\ bridge'[d] = bridge[d]
      /\ record' = record /\ goal' = goal /\ waits' = waits /\ resumer' = resumer
  BY RetryNow DEF Shared
<1>2. Request[c] = ask /\ tool[c].stage = "running" /\ Unharmed(c, ask)
      /\ bridge[c].verdict = bridge[c].verdict
  BY RetryNow
<1>3. Key(c)' = <<ask.pull, 1>>
  BY <1>1, <1>2 DEF Key
<1>4. Course(c, ask)'
  BY <1>1, <1>3 DEF Course, Runs, Has
<1>5. Unharmed(c, ask)'
  BY <1>1, <1>2 DEF Unharmed, Runs, HasRun, Has
<1> QED
  BY <1>1, <1>2, <1>4, <1>5 DEF Move

\* A bridge that ends, refused or not.
LEMMA RefusalMove ==
  ASSUME NEW ask \in Requests, NEW place \in [Call -> Nat], Repeats(ask, place),
         WaitInv, RetryInv(ask, place), NEW c \in Call, Child(c),
         NEW v, v # "none", Refuse(c, v),
         c \notin Faulty => v = "ok" \/ Left(Has(ask), ask)
  PROVE  Move(c, ask)
<1>1. /\ tool' = tool /\ \A d \in Call \ {c} : bridge'[d] = bridge[d]
      /\ record' = record /\ goal' = goal /\ waits' = waits /\ resumer' = resumer
      /\ bridge'[c] = [bridge[c] EXCEPT !.step = "exited", !.verdict = v]
  BY RetryNow DEF Refuse, Exit, Shared
<1>2. /\ tool[c].stage = "running" /\ Unharmed(c, ask) /\ Course(c, ask)
      /\ bridge[c] \in Bridge
  BY RetryNow
<1>3. /\ bridge'[c].step = "exited" /\ bridge'[c].verdict = v
      /\ bridge'[c].generation = bridge[c].generation
      /\ bridge'[c].lease = bridge[c].lease /\ bridge'[c].killed = bridge[c].killed
  BY <1>1, <1>2 DEF Bridge
<1>4. Course(c, ask)'
  BY <1>2, <1>3 DEF Course, Runs, HasRun
<1>5. Unharmed(c, ask)'
  BY <1>1, <1>2, <1>3 DEF Unharmed, Runs, Has
<1> QED
  BY <1>1, <1>2, <1>4, <1>5 DEF Move

\* What the plugin does to a call.
LEMMA PluginMoves ==
  ASSUME NEW ask \in Requests, NEW place \in [Call -> Nat], Repeats(ask, place),
         WaitInv, RetryInv(ask, place), NEW c \in Call, Plugin(c)
  PROVE  Move(c, ask)
<1>1. /\ Course(c, ask) /\ Unharmed(c, ask) /\ tool \in [Call -> Tool] /\ tool[c] \in Tool
      /\ bridge \in [Call -> Bridge] /\ bridge[c] \in Bridge
      /\ bridge[c].step \notin {"exited", "gone"} => bridge[c].verdict = "none"
      /\ Child(c) => tool[c].stage = "running" /\ tool[c].answer # "ok"
      /\ tool[c].answer # "none" \/ tool[c].timer => tool[c].stage # "idle"
  BY RetryNow DEF RetryInv, InTurn
<1>2. record' = record /\ goal' = goal /\ waits' = waits /\ resumer' = resumer
  BY DEF Plugin, Invoke, LookupFails, Spawn, SpawnUnfed, ChildError, StdinError,
         Overflow, Timeout, Close, Shared
\* The child keeps what it read, and where it is unless it starts or ends.
<1>3. ASSUME NEW t \in Tool, NEW b \in Bridge,
             tool' = [tool EXCEPT ![c] = t], bridge' = [bridge EXCEPT ![c] = b],
             t.stage # "idle", tool[c].answer # "none" => t.answer # "none",
             tool[c].stage = "idle" /\ RetryOf[c] # NoCall =>
                tool[RetryOf[c]].answer # "none" /\ ~Child(RetryOf[c]),
             \/ b.step \in {bridge[c].step, "gone"}
             \/ b.step = "boot" /\ tool[c].stage # "idle" /\ tool[c].answer = "none",
             b.run = bridge[c].run, b.revision = bridge[c].revision,
             b.generation = bridge[c].generation, b.lease = bridge[c].lease,
             b.scanned = bridge[c].scanned, b.verdict = bridge[c].verdict,
             c \notin Faulty =>
                /\ b.killed = bridge[c].killed
                /\ b.step = "boot" => b.fed
                /\ t.answer \in {tool[c].answer, "ok"} \/ Left(Has(ask), ask)
      PROVE  Move(c, ask)
  <2>1. /\ tool'[c] = t /\ bridge'[c] = b
        /\ \A d \in Call \ {c} : tool'[d] = tool[d] /\ bridge'[d] = bridge[d]
    BY <1>1, <1>3
  <2>2. Child(c)' => \/ Child(c)
                     \/ tool[c].stage # "idle" /\ tool[c].answer = "none"
    <3>1. CASE b.step = "boot"
      BY <1>3, <2>1, <3>1 DEF Child
    <3>2. CASE b.step \in {bridge[c].step, "gone"}
      BY <2>1, <3>2 DEF Child
    <3> QED
      BY <1>3, <3>1, <3>2
  <2>3. Key(c)' = Key(c)
    BY <1>3, <2>1 DEF Key
  <2>4. Course(c, ask)'
    BY <1>1, <1>2, <1>3, <2>1, <2>3 DEF Course, Runs, HasRun, Has
  <2>5. Unharmed(c, ask)'
    BY <1>1, <1>2, <1>3, <2>1 DEF Unharmed, Runs, Has
  <2> QED
    BY <1>2, <1>3, <2>1, <2>2, <2>4, <2>5 DEF Move
<1>4. CASE Invoke(c)
  <2> DEFINE t == [tool[c] EXCEPT !.stage = "checking"]
  <2>1. t \in Tool /\ t.stage = "checking" /\ t.answer = tool[c].answer
    BY <1>1 DEF Tool
  <2>2. tool' = [tool EXCEPT ![c] = t] /\ bridge' = [bridge EXCEPT ![c] = bridge[c]]
    BY <1>1, <1>4 DEF Invoke
  <2>3. RetryOf[c] # NoCall => tool[RetryOf[c]].answer # "none" /\ ~Child(RetryOf[c])
    BY <1>4 DEF Invoke
  <2>4. bridge[c].step = "boot" /\ c \notin Faulty => bridge[c].fed
    BY <1>1 DEF Unharmed, Runs
  <2> HIDE DEF t
  <2> QED
    BY <1>1, <1>3, <2>1, <2>2, <2>3, <2>4
<1>5. CASE Spawn(c)
  <2> DEFINE t == Started(tool[c])
             b == [bridge[c] EXCEPT !.step = "boot", !.fed = TRUE]
  <2>1. t \in Tool /\ t.stage = "running" /\ t.answer = tool[c].answer
    BY <1>1 DEF Tool, Started
  <2>2. /\ b \in Bridge /\ b.step = "boot" /\ b.fed /\ b.killed = bridge[c].killed
        /\ b.run = bridge[c].run /\ b.revision = bridge[c].revision
        /\ b.generation = bridge[c].generation /\ b.lease = bridge[c].lease
        /\ b.scanned = bridge[c].scanned /\ b.verdict = bridge[c].verdict
    BY <1>1 DEF Bridge, Steps
  <2>3. tool' = [tool EXCEPT ![c] = t] /\ bridge' = [bridge EXCEPT ![c] = b]
    BY <1>1, <1>5 DEF Spawn
  <2>4. tool[c].stage = "checking" /\ tool[c].answer = "none"
    BY <1>5 DEF Spawn
  <2> HIDE DEF t, b
  <2> QED
    BY <1>3, <2>1, <2>2, <2>3, <2>4
<1>6. CASE Close(c)
  <2> DEFINE t == IF tool[c].done THEN tool[c] ELSE Settle(tool[c], AnswerOf(bridge[c]))
             b == [bridge[c] EXCEPT !.step = "gone"]
  <2>1. bridge[c].step = "exited" /\ tool[c].stage = "running"
    BY <1>1, <1>6 DEF Close, Child
  <2>2. AnswerOf(bridge[c]) \in {"ok", "refused"}
    BY DEF AnswerOf
  <2>3. c \notin Faulty => AnswerOf(bridge[c]) = "ok" \/ Left(Has(ask), ask)
    BY <1>1, <2>1 DEF Unharmed, Runs, AnswerOf
  <2>4. /\ t \in Tool /\ t.stage = "running"
        /\ t.answer \in {tool[c].answer, AnswerOf(bridge[c])}
        /\ tool[c].answer # "none" => t.answer = tool[c].answer
    BY <1>1, <2>1, <2>2, SettleKeeps DEF Answers
  <2>5. /\ b \in Bridge /\ b.step = "gone" /\ b.killed = bridge[c].killed
        /\ b.run = bridge[c].run /\ b.revision = bridge[c].revision
        /\ b.generation = bridge[c].generation /\ b.lease = bridge[c].lease
        /\ b.scanned = bridge[c].scanned /\ b.verdict = bridge[c].verdict
    BY <1>1 DEF Bridge, Steps
  <2>6. tool' = [tool EXCEPT ![c] = t] /\ bridge' = [bridge EXCEPT ![c] = b]
    BY <1>1, <1>6 DEF Close
  <2>7. c \notin Faulty => t.answer \in {tool[c].answer, "ok"} \/ Left(Has(ask), ask)
    BY <1>1, <2>2, <2>3, <2>4
  <2> HIDE DEF t, b
  <2> QED
    BY <1>3, <2>1, <2>4, <2>5, <2>6, <2>7
\* Everything else happens to calls that may suffer it.
<1>7. CASE c \in Faulty /\ (LookupFails(c) \/ SpawnUnfed(c) \/ ChildError(c)
                             \/ StdinError(c) \/ Overflow(c) \/ Timeout(c))
  <2>1. \E t \in Tool : /\ tool' = [tool EXCEPT ![c] = t]
                        /\ t.stage # "idle" /\ t.answer # "none"
    <3>1. PICK u \in Tool, a \in Answers \ {"none"} :
             tool' = [tool EXCEPT ![c] = Settle(u, a)] /\ u.stage # "idle"
      <4>1. Started(tool[c]) \in Tool /\ Started(tool[c]).stage = "running"
        BY <1>1 DEF Tool, Started
      <4> QED
        BY <1>1, <1>7, <4>1
           DEF LookupFails, SpawnUnfed, ChildError, StdinError, Overflow, Timeout,
               Answers, Child
    <3> QED
      BY <3>1, SettleKeeps
  <2>2. \E b \in Bridge :
          /\ bridge' = [bridge EXCEPT ![c] = b]
          /\ \/ b.step \in {bridge[c].step, "gone"}
             \/ b.step = "boot" /\ tool[c].stage # "idle" /\ tool[c].answer = "none"
          /\ b.run = bridge[c].run /\ b.revision = bridge[c].revision
          /\ b.generation = bridge[c].generation /\ b.lease = bridge[c].lease
          /\ b.scanned = bridge[c].scanned /\ b.verdict = bridge[c].verdict
    <3>1. CASE LookupFails(c)
      <4>1. bridge' = [bridge EXCEPT ![c] = bridge[c]]
        BY <1>1, <3>1 DEF LookupFails
      <4> QED
        BY <1>1, <4>1
    <3>2. CASE SpawnUnfed(c)
      <4>1. PICK fed \in BOOLEAN :
              bridge' = [bridge EXCEPT ![c].step = "boot", ![c].fed = fed]
        BY <3>2 DEF SpawnUnfed
      <4> DEFINE b == [bridge[c] EXCEPT !.step = "boot", !.fed = fed]
      <4>2. /\ b \in Bridge /\ b.step = "boot"
            /\ b.run = bridge[c].run /\ b.revision = bridge[c].revision
            /\ b.generation = bridge[c].generation /\ b.lease = bridge[c].lease
            /\ b.scanned = bridge[c].scanned /\ b.verdict = bridge[c].verdict
        BY <1>1 DEF Bridge, Steps
      <4>3. bridge' = [bridge EXCEPT ![c] = b]
        BY <1>1, <4>1
      <4>4. tool[c].stage # "idle" /\ tool[c].answer = "none"
        BY <3>2 DEF SpawnUnfed
      <4> HIDE DEF b
      <4> QED
        BY <4>2, <4>3, <4>4
    <3>3. CASE ChildError(c)
      <4> DEFINE b == [bridge[c] EXCEPT !.step = "gone"]
      <4>1. /\ b \in Bridge /\ b.step = "gone"
            /\ b.run = bridge[c].run /\ b.revision = bridge[c].revision
            /\ b.generation = bridge[c].generation /\ b.lease = bridge[c].lease
            /\ b.scanned = bridge[c].scanned /\ b.verdict = bridge[c].verdict
        BY <1>1 DEF Bridge, Steps
      <4>2. bridge' = [bridge EXCEPT ![c] = b]
        BY <1>1, <3>3 DEF ChildError
      <4> HIDE DEF b
      <4> QED
        BY <4>1, <4>2
    <3>4. CASE StdinError(c) \/ Overflow(c) \/ Timeout(c)
      <4>1. PICK fed \in BOOLEAN :
              bridge' = [bridge EXCEPT ![c] = Kill([bridge[c] EXCEPT !.fed = fed])]
        <5>1. bridge[c] = [bridge[c] EXCEPT !.fed = bridge[c].fed] /\ bridge[c].fed \in BOOLEAN
          BY <1>1 DEF Bridge
        <5> QED
          BY <1>1, <3>4, <5>1 DEF StdinError, Overflow, Timeout
      <4> DEFINE f == [bridge[c] EXCEPT !.fed = fed]
                 b == Kill(f)
      <4>2. /\ b \in Bridge /\ b.step = bridge[c].step
            /\ b.run = bridge[c].run /\ b.revision = bridge[c].revision
            /\ b.generation = bridge[c].generation /\ b.lease = bridge[c].lease
            /\ b.scanned = bridge[c].scanned /\ b.verdict = bridge[c].verdict
        BY <1>1 DEF Bridge, Kill
      <4> HIDE DEF b
      <4> QED
        BY <4>1, <4>2 DEF b
    <3> QED
      BY <1>7, <3>1, <3>2, <3>3, <3>4
  <2>3. tool[c].stage # "idle"
    BY <1>1, <1>7 DEF LookupFails, SpawnUnfed, ChildError, StdinError, Overflow, Timeout,
                      Child
  <2> QED
    BY <1>3, <1>7, <2>1, <2>2, <2>3
<1> QED
  BY <1>4, <1>5, <1>6, <1>7
     DEF Plugin, May, LookupFails, SpawnUnfed, ChildError, StdinError, Overflow, Timeout

\* What the bridge of a call does.
LEMMA BindingMove ==
  ASSUME NEW ask \in Requests, NEW place \in [Call -> Nat], Repeats(ask, place),
         WaitInv, RetryInv(ask, place), NEW c \in Call, BindSession(c)
  PROVE  Move(c, ask)
<1>1. /\ Course(c, ask) /\ Unharmed(c, ask) /\ Request[c] = ask
      /\ tool \in [Call -> Tool] /\ bridge \in [Call -> Bridge] /\ bridge[c] \in Bridge
      /\ record \in [Task -> Record] /\ ask.task \in Task
      /\ record[ask.task] \in Record /\ Has(ask) \in Bindings
      /\ Runs(c, "bind") /\ Child(c) /\ bridge[c].verdict = "none"
      /\ tool[c].stage = "running"
  BY RetryNow DEF BindSession, Runs, Child
<1>2. bridge[c].run = ask.run /\ ask.run # NoRun /\ ask.run \in Run
  BY <1>1 DEF Course, Runs, HasRun, Repeats, Requests
<1> DEFINE b == [bridge[c] EXCEPT !.step = "verify"]
           new == Bound(Has(ask), ask.run, ask.session)
<1>3. /\ b \in Bridge /\ b.step = "verify" /\ b.killed = bridge[c].killed
      /\ b.run = bridge[c].run /\ b.verdict = bridge[c].verdict
      /\ b.generation = bridge[c].generation /\ b.lease = bridge[c].lease
      /\ bridge[c].generation = 1 /\ bridge[c].lease = 1
  BY <1>1 DEF Bridge, Steps, Course
<1>4. bridge' = [bridge EXCEPT ![c].step = "verify"] => bridge' = [bridge EXCEPT ![c] = b]
  BY <1>1
<1>5. /\ Free(Has(ask)) \/ Ours(Has(ask), ask) \/ Left(Has(ask), ask)
      /\ \A t \in Task : record[t].open
      /\ \A t \in Task \ {ask.task} : Free(record[t].bindings)
  BY DEF RetryInv, Quiet
<1> HIDE DEF b
<1>6. CASE ~Fresh(c)
  <2>1. Left(Has(ask), ask)
    BY <1>1, <1>6 DEF Fresh, Course, Runs
  <2>2. Refuse(c, "cas-conflict")
    BY <1>6 DEF BindSession
  <2> QED
    BY <1>1, <2>1, <2>2, RefusalMove
<1>7. CASE Fresh(c) /\ ~Free(Has(ask))
  <2>1. BindAnswer(Has(ask), ask.run, ask.session) = "idempotent"
    BY <1>1, <1>2, <1>5, <1>7, TakenStays
  <2>2. /\ record' = record /\ bridge' = [bridge EXCEPT ![c].step = "verify"]
        /\ UNCHANGED <<tool, goal, waits, resumer, changes>>
    BY <1>1, <1>2, <1>7, <2>1 DEF BindSession, Has
  <2>3. UNCHANGED <<tool, Shared>> /\ bridge' = [bridge EXCEPT ![c] = b]
    BY <1>4, <2>2 DEF Shared
  <2> QED
    BY <1>1, <1>2, <1>3, <1>7, <2>3, ForwardMove DEF HasRun
<1>8. CASE Fresh(c) /\ Free(Has(ask))
  <2>1. BindAnswer(Has(ask), ask.run, ask.session) = "ok" /\ Ours(new, ask)
    BY <1>1, <1>2, <1>8, FreeTaken
  <2>2. /\ record' = [record EXCEPT ![ask.task].bindings = new, ![ask.task].revision = @ + 1]
        /\ bridge' = [bridge EXCEPT ![c] = b]
        /\ tool' = tool /\ goal' = goal /\ waits' = waits /\ resumer' = resumer
    BY <1>1, <1>2, <1>4, <1>8, <2>1 DEF BindSession, Has
  <2> HIDE DEF new
  <2>3. /\ record'[ask.task].bindings = new
        /\ record'[ask.task].open = record[ask.task].open
        /\ \A t \in Task \ {ask.task} : record'[t] = record[t]
    BY <1>1, <2>2 DEF Record
  <2>4. Quiet(ask)'
    BY <1>5, <2>1, <2>2, <2>3 DEF RetryInv, Quiet, Has
  <2>5. Alike(ask)'
    BY <2>2 DEF RetryInv, Alike
  <2>6. ~Left(Has(ask), ask)
    BY <1>1, <1>2, <1>8, StateApart
  <2>7. ~Free(Has(ask))'
    <3>1. new \in Bindings
      BY <1>1, <1>2, BoundEntry DEF new, Requests
    <3> QED
      BY <1>2, <2>1, <2>3, <3>1, StateApart DEF Has
  <2>8. bridge'[c] = b
    BY <1>1, <2>2
  <2>9. Course(c, ask)'
    BY <1>2, <1>3, <2>7, <2>8 DEF Course, Runs, HasRun
  <2>10. Unharmed(c, ask)'
    BY <1>1, <1>3, <2>2, <2>6, <2>8 DEF Unharmed, Runs
  <2> QED
    BY <1>1, <2>2, <2>4, <2>5, <2>6, <2>8, <2>9, <2>10 DEF Move
<1> QED
  BY <1>6, <1>7, <1>8

LEMMA BridgeMoves ==
  ASSUME NEW ask \in Requests, NEW place \in [Call -> Nat], Repeats(ask, place),
         WaitInv, RetryInv(ask, place), NEW c \in Call, BridgeStep(c) \/ Dies(c)
  PROVE  Move(c, ask)
<1> DEFINE b0 == bridge[c]
<1>1. /\ Course(c, ask) /\ Unharmed(c, ask) /\ Request[c] = ask
      /\ bridge \in [Call -> Bridge] /\ b0 \in Bridge
      /\ record \in [Task -> Record] /\ ask.task \in Task
      /\ record[ask.task] \in Record /\ Has(ask) \in Bindings
      /\ Key(c) \in WaitKey /\ waits \in [WaitKey -> Wait \cup {NoWait}]
      /\ b0.step \notin {"exited", "gone"} => b0.verdict = "none"
      /\ Child(c) => tool[c].stage = "running"
  BY RetryNow
<1>2. ask.run # NoRun /\ ask.run \in Run /\ ask.session \in Session
  BY DEF Repeats, Requests
<1>3. /\ goal = [active |-> TRUE, held |-> TRUE, generation |-> 1, lease |-> 1,
                 tracks |-> Task]
      /\ \A t \in Task : record[t].open
      /\ \A t \in Task \ {ask.task} : Free(record[t].bindings)
      /\ Free(Has(ask)) \/ Ours(Has(ask), ask) \/ Left(Has(ask), ask)
  BY Zenon DEF RetryInv, Quiet
<1>4. Child(c)
  BY Zenon DEF BridgeStep, Dies, NoEnvelope, ReadTask, ReadGoal, ScanTask, SelectRun,
         BindLockTimeout, BindSession, VerifyBinding, LookupWait, WriteWait,
         WaitLockBusy, Runs, Child
<1>5. Key(c) = <<ask.pull, 1>> /\ b0.generation = 1 /\ b0.lease = 1
  BY <1>1 DEF Key, Course
\* What may happen only to a faulty call.
<1>6. CASE NoEnvelope(c) \/ BindLockTimeout(c) \/ Dies(c)
  <2>1. c \in Faulty
    BY <1>1, <1>6 DEF Unharmed, NoEnvelope, BindLockTimeout, Dies, May, Runs
  <2>2. PICK v \in {"bridge-envelope-unreadable", "lock-timeout", "dead"} : Refuse(c, v)
    BY <1>6 DEF NoEnvelope, BindLockTimeout, Dies
  <2> QED
    BY <1>4, <2>1, <2>2, RefusalMove
<1>7. CASE ReadTask(c)
  <2> DEFINE rev == record[ask.task].revision
             b == [b0 EXCEPT !.step = "goal", !.revision = rev]
  <2>1. /\ bridge' = [bridge EXCEPT ![c].step = "goal", ![c].revision = rev]
        /\ UNCHANGED <<tool, Shared>> /\ b0.verdict = "none"
    BY <1>1, <1>3, <1>7 DEF ReadTask, Runs
  <2>2. /\ b \in Bridge /\ b.step = "goal" /\ b.revision = rev
        /\ b.killed = b0.killed /\ b.verdict = b0.verdict
        /\ b.generation = b0.generation /\ b.lease = b0.lease
    BY <1>1 DEF Bridge, Steps, Record
  <2>3. bridge' = [bridge EXCEPT ![c] = b]
    BY <1>1, <2>1
  <2>4. b.verdict = "none" /\ b.generation = 1 /\ b.lease = 1
    BY <1>5, <2>1, <2>2
  <2>5. UNCHANGED <<tool, Shared>>
    BY <2>1
  <2> HIDE DEF b
  <2> QED
    BY <1>4, <2>2, <2>3, <2>4, <2>5, ForwardMove DEF HasRun
<1>8. CASE ReadGoal(c)
  <2> DEFINE b == [b0 EXCEPT !.step = "scan", !.generation = goal.generation,
                             !.lease = goal.lease, !.scanned = {ask.task}]
  <2>1. GoalRefusal(ask.task) = "none"
    BY <1>1, <1>3 DEF GoalRefusal
  <2>2. /\ bridge' = [bridge EXCEPT ![c].step = "scan",
                             ![c].generation = goal.generation,
                             ![c].lease = goal.lease, ![c].scanned = {ask.task}]
        /\ UNCHANGED <<tool, Shared>> /\ b0.verdict = "none" /\ b0.step = "goal"
    BY <1>1, <1>8, <2>1 DEF ReadGoal, Runs
  <2>3. goal.generation = 1 /\ goal.lease = 1 /\ goal \in Goal
    BY <1>3 DEF WaitInv, TypeOK
  <2>4. /\ b \in Bridge /\ b.step = "scan" /\ b.revision = b0.revision
        /\ b.killed = b0.killed /\ b.verdict = b0.verdict
        /\ b.generation = 1 /\ b.lease = 1 /\ b.scanned = {ask.task}
    BY <1>1, <2>3 DEF Bridge, Steps, Goal
  <2>5. bridge' = [bridge EXCEPT ![c] = b]
    BY <1>1, <2>2
  <2>6. b0.revision = record[ask.task].revision \/ Left(Has(ask), ask)
    BY <1>1, <2>2 DEF Course
  <2>7. b.verdict = "none" /\ ask.task \in b.scanned
    BY <2>2, <2>4
  <2>8. UNCHANGED <<tool, Shared>>
    BY <2>2
  <2> HIDE DEF b
  <2> QED
    BY <1>4, <2>4, <2>5, <2>6, <2>7, <2>8, ForwardMove DEF HasRun
<1>9. ASSUME NEW u \in Task, ScanTask(c, u) PROVE Move(c, ask)
  <2> DEFINE b == [b0 EXCEPT !.scanned = @ \cup {u}]
  <2>1. u # ask.task /\ b0.verdict = "none" /\ b0.step = "scan"
    BY <1>1, <1>9 DEF ScanTask, Course, Runs
  <2>2. ~BoundIn(record[u].bindings, ask.session)
    <3>1. record[u].bindings \in Bindings
      BY <1>1 DEF Record
    <3> QED
      BY <1>2, <1>3, <2>1, <3>1, StateApart
  <2>3. /\ bridge' = [bridge EXCEPT ![c].scanned = @ \cup {u}]
        /\ UNCHANGED <<tool, Shared>>
    BY <1>1, <1>9, <2>2 DEF ScanTask
  <2>4. /\ b \in Bridge /\ b.step = "scan" /\ b.revision = b0.revision
        /\ b.killed = b0.killed /\ b.verdict = b0.verdict
        /\ b.generation = b0.generation /\ b.lease = b0.lease
        /\ b.scanned = b0.scanned \cup {u}
    <3>1. b0.scanned \cup {u} \in SUBSET Task
      BY <1>1 DEF Bridge
    <3> QED
      BY <1>1, <2>1, <3>1 DEF Bridge
  <2>5. bridge' = [bridge EXCEPT ![c] = b]
    BY <1>1, <2>3
  <2>6. /\ b0.revision = record[ask.task].revision \/ Left(Has(ask), ask)
        /\ ask.task \in b0.scanned
    BY <1>1, <2>1 DEF Course, Runs
  <2>7. b.verdict = "none" /\ b.generation = 1 /\ b.lease = 1 /\ ask.task \in b.scanned
    BY <1>5, <2>1, <2>4, <2>6
  <2>8. UNCHANGED <<tool, Shared>>
    BY <2>3
  <2> HIDE DEF b
  <2> QED
    BY <1>4, <2>4, <2>5, <2>6, <2>7, <2>8, ForwardMove DEF HasRun
<1>10. CASE SelectRun(c)
  <2> DEFINE b == [b0 EXCEPT !.step = "bind", !.run = ask.run]
             why == RunRefusal(Has(ask), ask.run)
  <2>1. b0.step = "scan" /\ b0.verdict = "none"
    BY <1>1, <1>10 DEF SelectRun, Runs
  <2>2. RunChoice(Has(ask), ask.run) = ask.run /\ (~Left(Has(ask), ask) => why = "none")
    BY <1>1, <1>2, <1>3, RunGranted
  <2>3. IF why # "none" THEN Refuse(c, why)
        ELSE /\ bridge' = [bridge EXCEPT ![c].step = "bind", ![c].run = ask.run]
             /\ UNCHANGED <<tool, Shared>>
    BY <1>1, <1>10, <2>2 DEF SelectRun, Has
  <2> HIDE DEF why
  <2>4. CASE why # "none"
    BY <1>4, <2>2, <2>3, <2>4, RefusalMove
  <2>5. CASE why = "none"
    <3>1. /\ b \in Bridge /\ b.step = "bind" /\ b.revision = b0.revision
          /\ b.killed = b0.killed /\ b.verdict = b0.verdict /\ b.run = ask.run
          /\ b.generation = b0.generation /\ b.lease = b0.lease
      BY <1>1, <1>2 DEF Bridge, Steps
    <3>2. bridge' = [bridge EXCEPT ![c] = b] /\ UNCHANGED <<tool, Shared>>
      BY <1>1, <2>3, <2>5
    <3>3. b0.revision = record[ask.task].revision \/ Left(Has(ask), ask)
      BY <1>1, <2>1 DEF Course
    <3> HIDE DEF b
    <3> QED
      BY <1>4, <1>5, <2>1, <3>1, <3>2, <3>3, ForwardMove DEF HasRun
  <2> QED
    BY <2>4, <2>5
<1>11. CASE VerifyBinding(c)
  <2> DEFINE b == [b0 EXCEPT !.step = "lookup"]
  <2>1. /\ b0.step = "verify" /\ b0.verdict = "none" /\ b0.run = ask.run
        /\ ~Free(Has(ask))
    BY <1>1, <1>11 DEF VerifyBinding, Runs, Course, HasRun
  <2>2. CASE Refuse(c, "binding-verify-failed") /\ Left(Has(ask), ask)
    BY <1>4, <2>2, RefusalMove
  <2>3. CASE UNCHANGED <<tool, Shared>> /\ bridge' = [bridge EXCEPT ![c].step = "lookup"]
    <3>1. /\ b \in Bridge /\ b.step = "lookup" /\ b.run = b0.run
          /\ b.killed = b0.killed /\ b.verdict = b0.verdict
          /\ b.generation = b0.generation /\ b.lease = b0.lease
      BY <1>1 DEF Bridge, Steps
    <3>2. bridge' = [bridge EXCEPT ![c] = b]
      BY <1>1, <2>3
    <3> HIDE DEF b
    <3> QED
      BY <1>4, <1>5, <2>1, <2>3, <3>1, <3>2, ForwardMove DEF HasRun
  <2>4. Ours(Has(ask), ask) => /\ Has(ask).active = ask.session
                              /\ Has(ask).runs[ask.run].root = ask.session
                              /\ Has(ask).runs[ask.run].status = "attached"
    BY DEF Ours, OfRun
  <2>5. Ours(Has(ask), ask) \/ Left(Has(ask), ask)
    BY <1>3, <2>1
  <2> QED
    BY <1>1, <1>11, <2>1, <2>2, <2>3, <2>4, <2>5 DEF VerifyBinding, Has
<1>12. CASE LookupWait(c)
  <2> DEFINE b == [b0 EXCEPT !.step = "write"]
             w == waits[Key(c)]
  <2>1. /\ b0.step = "lookup" /\ b0.verdict = "none" /\ b0.run = ask.run
        /\ ~Free(Has(ask))
    BY <1>1, <1>12 DEF LookupWait, Runs, Course, HasRun
  <2>2. CASE w # NoWait
    <3>1. Consistent(c, w)
      BY <1>1, <1>5, <2>1, <2>2 DEF RetryInv, Alike, Consistent, RegistrationOf
    <3>2. Refuse(c, "ok")
      BY <1>12, <2>2, <3>1 DEF LookupWait
    <3> QED
      BY <1>4, <3>2, RefusalMove
  <2>3. CASE w = NoWait
    <3>1. /\ b \in Bridge /\ b.step = "write" /\ b.run = b0.run
          /\ b.killed = b0.killed /\ b.verdict = b0.verdict
          /\ b.generation = b0.generation /\ b.lease = b0.lease
      BY <1>1 DEF Bridge, Steps
    <3>2. bridge' = [bridge EXCEPT ![c] = b] /\ UNCHANGED <<tool, Shared>>
      BY <1>1, <1>12, <2>3 DEF LookupWait
    <3> HIDE DEF b
    <3> QED
      BY <1>4, <1>5, <2>1, <2>3, <3>1, <3>2, ForwardMove DEF HasRun
  <2> QED
    BY <2>2, <2>3
<1>13. CASE WriteWait(c)
  <2> DEFINE w == [by |-> RegistrationOf(c), events |-> {}]
             b == [b0 EXCEPT !.step = "exited", !.verdict = "ok"]
  <2>1. b0.step = "write" /\ b0.run = ask.run /\ waits[Key(c)] = NoWait
    BY <1>1, <1>13 DEF WriteWait, Runs, Course, HasRun
  <2>2. /\ waits' = [waits EXCEPT ![Key(c)] = w] /\ Exit(c, "ok")
        /\ UNCHANGED <<tool, record, goal, resumer, changes>>
    BY <1>13, <2>1 DEF WriteWait, Absent
  <2>3. w.by = [task |-> ask.task, run |-> ask.run, terms |-> ask.terms, lease |-> 1]
    BY <1>1, <1>5, <2>1 DEF RegistrationOf
  <2>4. w \in Wait
    BY <2>1, RegistrationTyped DEF Wait, HasRun
  <2> HIDE DEF w
  <2>5. Quiet(ask)'
    BY <2>2 DEF RetryInv, Quiet, Has
  <2>6. Alike(ask)'
    <3>1. \A k \in WaitKey : waits'[k] = IF k = Key(c) THEN w ELSE waits[k]
      BY <1>1, <2>2
    <3>2. \A q \in Resumer : resumer[q] # NoWait => resumer[q].key \in WaitKey
      BY DEF WaitInv, TypeOK, Resume
    <3> QED
      BY <2>2, <2>3, <2>4, <3>1, <3>2, NoWaitAssumption DEF RetryInv, Alike
  <2>7. bridge'[c] = b /\ \A d \in Call \ {c} : bridge'[d] = bridge[d]
    BY <1>1, <2>2 DEF Exit
  <2>8. /\ b.step = "exited" /\ b.verdict = "ok" /\ b.killed = b0.killed
        /\ b.generation = b0.generation /\ b.lease = b0.lease
    BY <1>1 DEF Bridge
  <2> HIDE DEF b
  <2>9. Course(c, ask)'
    BY <1>5, <2>7, <2>8 DEF Course, Runs, HasRun
  <2>10. Unharmed(c, ask)'
    BY <1>1, <2>2, <2>7, <2>8 DEF Unharmed, Runs, Has
  <2> QED
    BY <1>1, <1>4, <2>2, <2>5, <2>6, <2>7, <2>9, <2>10 DEF Move, Has
\* Nobody else writes the wait: no other child lives, and no resumer read it.
<1>14. CASE WaitLockBusy(c)
  <2>1. Runs(c, "write") /\ waits[Key(c)] = NoWait
    BY <1>1, <1>14 DEF WaitLockBusy, Course
  <2>2. ASSUME NEW d \in Call \ {c}, Runs(d, "write") PROVE FALSE
    <3>1. Child(d) /\ tool[d].stage # "idle" /\ tool[c].stage # "idle"
      BY <1>1, <1>4, <2>2 DEF Runs, Child, WaitInv, Ordered
    <3>2. place[d] < place[c] \/ place[c] < place[d]
      <4>1. place[c] \in Nat /\ place[d] \in Nat /\ place[c] # place[d]
        BY DEF Repeats
      <4> QED
        BY <4>1
    <3> QED
      BY <1>4, <3>1, <3>2 DEF RetryInv, InTurn
  <2>3. ASSUME NEW q \in Resumer, resumer[q] # NoWait, resumer[q].key = Key(c) PROVE FALSE
    BY <2>1, <2>3 DEF RetryInv, Alike
  <2> QED
    BY <1>14, <2>2, <2>3 DEF WaitLockBusy
<1> QED
  BY <1>6, <1>7, <1>8, <1>9, <1>10, <1>11, <1>12, <1>13, <1>14, BindingMove DEF BridgeStep

\* A resumer adds no wait and takes none away.
LEMMA ResumerKeepsRetry ==
  ASSUME NEW ask \in Requests, NEW place \in [Call -> Nat], Repeats(ask, place),
         WaitInv, RetryInv(ask, place),
         \/ \E q \in Resumer, k \in WaitKey, e \in Event : ReadWait(q, k, e)
         \/ \E q \in Resumer : ConfirmApplied(q) \/ ConfirmBusy(q)
  PROVE  RetryInv(ask, place)'
<1>1. UNCHANGED <<record, goal, tool, bridge, changes>> /\ KeepsWaits
  BY ResumerSteps DEF ResumerStep
<1>2. /\ waits \in [WaitKey -> Wait \cup {NoWait}]
      /\ resumer \in [Resumer -> Resume \cup {NoWait}]
      /\ \A q \in Resumer : resumer[q] # NoWait =>
            resumer[q].key \in WaitKey /\ waits[resumer[q].key] # NoWait
  BY DEF WaitInv, TypeOK, RetryInv, Alike, Resume
<1> DEFINE Follows ==
             /\ \A k \in WaitKey : waits[k] = NoWait => waits'[k] = NoWait
             /\ \A q \in Resumer : resumer'[q] # NoWait =>
                  resumer'[q].key \in WaitKey /\ waits[resumer'[q].key] # NoWait
<1>3. Follows
  <2>1. ASSUME NEW q \in Resumer, NEW k \in WaitKey, NEW e \in Event, ReadWait(q, k, e)
        PROVE  Follows
    BY <1>2, <2>1 DEF ReadWait
  <2>2. ASSUME NEW q \in Resumer, ConfirmBusy(q) PROVE Follows
    BY <1>2, <2>2 DEF ConfirmBusy
  <2>3. ASSUME NEW q \in Resumer, ConfirmApplied(q) PROVE Follows
    <3> DEFINE k == resumer[q].key
               w == [resumer[q].saw EXCEPT !.events = @ \cup {resumer[q].event}]
    <3>1. k \in WaitKey /\ waits[k] # NoWait
      BY <1>2, <2>3 DEF ConfirmApplied
    <3>2. waits' = waits \/ waits' = [waits EXCEPT ![k] = w]
      BY <2>3 DEF ConfirmApplied
    <3>3. resumer' = [resumer EXCEPT ![q] = NoWait]
      BY <2>3 DEF ConfirmApplied
    <3> HIDE DEF k, w
    <3> QED
      BY <1>2, <3>1, <3>2, <3>3
  <2> QED
    BY <2>1, <2>2, <2>3
<1>4. Alike(ask)'
  BY <1>1, <1>2, <1>3 DEF RetryInv, Alike, KeepsWaits
<1>5. ASSUME NEW c \in Call PROVE Course(c, ask)' /\ Unharmed(c, ask)'
  <2>1. Key(c) \in WaitKey /\ Key(c)' = Key(c)
    BY <1>1, ProperNow DEF Key
  <2>2. Course(c, ask) /\ Unharmed(c, ask)
    BY DEF RetryInv
  <2> QED
    BY <1>1, <1>3, <2>1, <2>2 DEF Course, Unharmed, Runs, Has
<1> QED
  BY <1>1, <1>4, <1>5 DEF RetryInv, Quiet, Has, InTurn, Child

LEMMA DetachKeepsRetry ==
  ASSUME NEW ask \in Requests, NEW place \in [Call -> Nat], Repeats(ask, place),
         WaitInv, RetryInv(ask, place),
         NEW t \in Task, NEW r \in Run, NEW s \in Session, DetachSession(t, r, s)
  PROVE  RetryInv(ask, place)'
<1>1. /\ record \in [Task -> Record] /\ ask.task \in Task /\ record[t] \in Record
      /\ record[t].bindings \in Bindings /\ ask.run # NoRun
  BY DEF WaitInv, TypeOK, Requests, Record, Repeats
<1>2. /\ DetachAnswer(record[t].bindings, r, s) = "ok"
      /\ record' = [record EXCEPT ![t].bindings = Detached(@, r, s),
                                  ![t].revision = @ + 1]
      /\ UNCHANGED <<goal, waits, tool, bridge, resumer>>
  BY DEF DetachSession, Change
<1>3. ~Free(record[t].bindings) /\ ~Left(record[t].bindings, ask)
  BY <1>1, <1>2, OnlyOursLeaves
<1>4. t = ask.task
  BY <1>3 DEF RetryInv, Quiet
<1>5. Ours(Has(ask), ask) /\ ~Left(Has(ask), ask)
  BY <1>3, <1>4 DEF RetryInv, Quiet, Has
<1>6. Left(Detached(Has(ask), r, s), ask)
  BY <1>1, <1>2, <1>4, <1>5, OnlyOursLeaves DEF Has
<1>7. /\ Left(Has(ask), ask)' /\ record'[t].open = record[t].open
      /\ \A u \in Task \ {ask.task} : record'[u] = record[u]
  <2> DEFINE n == Detached(record[t].bindings, r, s)
  <2>1. record' = [record EXCEPT ![t].bindings = n, ![t].revision = @ + 1]
    BY <1>1, <1>2
  <2> HIDE DEF n
  <2>2. /\ record'[t].bindings = n /\ record'[t].open = record[t].open
        /\ \A u \in Task \ {t} : record'[u] = record[u]
    BY <1>1, <2>1 DEF Record
  <2> QED
    BY <1>4, <1>6, <2>2 DEF Has, n
<1>8. Quiet(ask)'
  BY <1>1, <1>2, <1>4, <1>7 DEF RetryInv, Quiet
<1>9. ~Free(Has(ask))'
  <2>1. Has(ask)' \in Bindings
    BY <1>1, <1>2, <1>4, DetachedEntry DEF Has, Record
  <2> QED
    BY <1>1, <1>7, <2>1, StateApart
<1>10. ASSUME NEW c \in Call PROVE Course(c, ask)' /\ Unharmed(c, ask)'
  <2>1. Course(c, ask) /\ Unharmed(c, ask)
    BY DEF RetryInv
  <2> QED
    BY <1>2, <1>7, <1>9, <2>1 DEF Course, Unharmed, Runs, Key
<1> QED
  BY <1>2, <1>8, <1>10 DEF RetryInv, Alike, InTurn, Child

LEMMA RetryInvStep ==
  ASSUME NEW ask \in Requests, NEW place \in [Call -> Nat], Repeats(ask, place),
         Changes \subseteq {"detach"}, WaitInv, RetryInv(ask, place), [Next]_vars
  PROVE  RetryInv(ask, place)'
<1>1. ASSUME NEW c \in Call, Plugin(c) \/ BridgeStep(c) \/ Dies(c)
      PROVE  RetryInv(ask, place)'
  BY <1>1, PluginMoves, BridgeMoves, MoveKeeps
<1>2. ASSUME Elsewhere
      PROVE  \E t \in Task, r \in Run, s \in Session : DetachSession(t, r, s)
  BY <1>2 DEF Elsewhere, RenewGoal, LapseGoal, TakeoverGoal, EndGoal, DropTask,
              FinishTask, TouchTask, Change
<1>3. CASE UNCHANGED vars
  BY <1>3 DEF vars, RetryInv, Quiet, Alike, InTurn, Course, Unharmed, Has, Runs, Key,
              Child
<1> QED
  BY <1>1, <1>2, <1>3, ResumerKeepsRetry, DetachKeepsRetry DEF Next

(***************************************************************************)
(* A call that repeats its request after it is over is told "ok" whatever  *)
(* happened to those before it, unless the binding was detached: for any   *)
(* number of repeats, any tasks and resumers and every fault, as long as   *)
(* the request names its run and nothing but detaches changes the goal and *)
(* the tasks.                                                              *)
(***************************************************************************)
THEOREM RetriesSucceed ==
  ASSUME NEW ask \in Requests, NEW place \in [Call -> Nat], Repeats(ask, place),
         Changes \subseteq {"detach"}
  PROVE  Spec => []RetrySucceeds
<1>1. Init => RetryInv(ask, place)
  <2> SUFFICES ASSUME Init PROVE RetryInv(ask, place)
    OBVIOUS
  <2>1. ask.task \in Task
    BY DEF Requests
  <2>2. Quiet(ask)
    BY <2>1 DEF Init, Quiet, Has, Free, NoBindings
  <2>3. Alike(ask) /\ InTurn(place)
    BY DEF Init, Alike, InTurn
  <2>4. ASSUME NEW c \in Call PROVE Course(c, ask) /\ Unharmed(c, ask)
    BY DEF Init, Course, Unharmed, Runs, HasRun
  <2> QED
    BY <2>2, <2>3, <2>4 DEF RetryInv
<1>2. WaitInv /\ RetryInv(ask, place) /\ [Next]_vars => RetryInv(ask, place)'
  BY RetryInvStep
<1>3. RetryInv(ask, place) => RetrySucceeds
  BY DEF RetryInv, Unharmed, RetrySucceeds, Left, OfRun, Has, Repeats
<1> QED
  BY WaitInvHolds, <1>1, <1>2, <1>3, PTL DEF Spec
=============================================================================
