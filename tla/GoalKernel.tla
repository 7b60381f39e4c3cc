----------------------------- MODULE GoalKernel -----------------------------
(***************************************************************************)
(* The durable goal store (scripts/v3/lib/OrchestrationGoalKernel.ps1).    *)
(*                                                                         *)
(* One goal is one JSON file.  Processes read it without a lock, change    *)
(* copies of it in memory and save them blindly, or change it through      *)
(* operations that compare the revision under the lock of the store.  A    *)
(* goal may carry an ownership: an owner id, a fencing generation and a    *)
(* lease.  A goal that carries one is called managed.                      *)
(***************************************************************************)
EXTENDS Integers, FiniteSets

CONSTANTS
  Procs,        \* processes that call the library
  Owners,       \* owner ids
  Canon,        \* the canonical (lower case) spelling of each owner id
  Tasks,        \* task ids
  Bodies,       \* contents of the fields that Update writes
  ToStates,     \* the states callers ask for
  Ttls,         \* lease durations callers ask for
  MaxClock,     \* bound of the model: the last instant of the clock
  MaxRevision,  \* bound of the model: the last revision
  NoProc, NoGoal, NoOwner, NoClaim

ASSUME GoalTtlsAssumption == Ttls \subseteq Nat \ {0}
ASSUME GoalBoundsAssumption == MaxClock \in Nat /\ MaxRevision \in Nat
ASSUME GoalNoProcAssumption == NoProc \notin Procs

-----------------------------------------------------------------------------
(* The goal record.                                                        *)

States == {"DRAFT", "ACTIVE", "PAUSED", "BLOCKED", "BUDGET_LIMITED",
           "COMPLETED", "EXHAUSTED", "CANCELLED"}

TerminalStates == {"COMPLETED", "EXHAUSTED", "CANCELLED"}

Transitions ==
  [ DRAFT          |-> {"ACTIVE", "CANCELLED"},
    ACTIVE         |-> {"PAUSED", "BLOCKED", "BUDGET_LIMITED", "COMPLETED",
                        "EXHAUSTED", "CANCELLED"},
    PAUSED         |-> {"ACTIVE", "CANCELLED"},
    BLOCKED        |-> {"ACTIVE", "CANCELLED"},
    BUDGET_LIMITED |-> {"ACTIVE", "EXHAUSTED", "CANCELLED"},
    COMPLETED      |-> {},
    EXHAUSTED      |-> {},
    CANCELLED      |-> {} ]

Ownership == [owner : Owners, gen : Nat \ {0}, exp : Nat]

Content == [ state  : States,
             rev    : Nat \ {0},
             active : SUBSET Tasks,
             done   : SUBSET Tasks,
             body   : Bodies ]

\* The record and its optional ownership node.
Goal == [content : Content, own : Ownership \cup {NoOwner}]

Managed(g) == g.own # NoOwner

IsTerminal(g) == g.content.state \in TerminalStates

\* The generation an owner was told, with the lease that came with it.
Claim == [owner : Owners, gen : Nat \ {0}]

ASSUME GoalNoneAssumption ==
  /\ NoGoal \notin Goal \cup Content
  /\ NoOwner \notin Ownership \cup Claim
  /\ NoClaim \notin Claim

CommitKinds == {"update", "state", "add", "complete"}
OwnKinds == {"acquire", "renew", "takeover"}

Request ==
  [kind : {"save"}]
    \cup [kind : {"update"}, rev : Nat, claim : Claim \cup {NoClaim}, body : Bodies]
    \cup [kind : {"state"}, rev : Nat, claim : Claim \cup {NoClaim}, to : ToStates]
    \cup [kind : {"add", "complete"}, rev : Nat, claim : Claim \cup {NoClaim}, task : Tasks]
    \cup [kind : {"acquire"}, rev : Nat, owner : Owners, ttl : Ttls]
    \cup [kind : {"renew"}, claim : Claim, ttl : Ttls]
    \cup [kind : {"takeover"}, owner : Owners, ttl : Ttls]

NoRequest == [kind |-> "none"]

Steps == {"idle", "held", "gate", "write", "exit"}

VARIABLES
  clock,   \* UTC now
  disk,    \* the goal file
  holder,  \* the process with the handle of .goal.lock
  mem,     \* the copy of the record each process has in memory
  token,   \* the ownership each process was told it has
  pc,      \* where each process is in its operation
  req,     \* the operation it executes
  staged   \* the record it is about to write

vars == <<clock, disk, holder, mem, token, pc, req, staged>>

Live(own) == clock < own.exp

ClaimOf(own) == [owner |-> own.owner, gen |-> own.gen]

\* Test-OrchestrationGoalOwnership: same owner, same generation, live lease.
Holds(own, c) == c = ClaimOf(own) /\ Live(own)

\* Fault: the commit gate takes a caller without a claim for a legacy one.
AdmittedLegacy(g, c) == c = NoClaim \/ (Managed(g) /\ Holds(g.own, c))

\* The gate of a commit.  Legacy callers write legacy records; a managed
\* record needs its holder, and a claim needs a managed record.
Admitted(g, c) == IF Managed(g) THEN Holds(g.own, c) ELSE c = NoClaim

\* Same id in another spelling: never merged and never a rival.
IdentityHold(o1, o2) == o1 # o2 /\ Canon[o1] = Canon[o2]

-----------------------------------------------------------------------------
Init ==
  /\ clock = 0
  /\ disk = NoGoal
  /\ holder = NoProc
  /\ mem = [p \in Procs |-> NoGoal]
  /\ token = [p \in Procs |-> NoOwner]
  /\ pc = [p \in Procs |-> "idle"]
  /\ req = [p \in Procs |-> NoRequest]
  /\ staged = [p \in Procs |-> NoGoal]

Tick ==
  /\ clock < MaxClock
  /\ clock' = clock + 1
  /\ UNCHANGED <<disk, holder, mem, token, pc, req, staged>>

(* Operations on a copy in memory, without the lock.                       *)

Keep(p, g) ==
  /\ pc[p] = "idle"
  /\ mem' = [mem EXCEPT ![p] = g]
  /\ UNCHANGED <<clock, disk, holder, token, pc, req, staged>>

\* New-OrchestrationGoal: nothing is on disk when it looks.
NewGoal(p) ==
  /\ disk = NoGoal
  /\ \E b \in Bodies :
       Keep(p, [ content |-> [state |-> "DRAFT", rev |-> 1, active |-> {},
                              done |-> {}, body |-> b],
                 own |-> NoOwner ])

GetGoal(p) == disk # NoGoal /\ Keep(p, disk)

\* Set-OrchestrationGoalState, Add-OrchestrationGoalTask and
\* Complete-OrchestrationGoalTask on a record c, with the new revision.
Moved(c, s) == [c EXCEPT !.state = s, !.rev = @ + 1]
Added(c, t) == [c EXCEPT !.active = @ \cup {t}, !.rev = @ + 1]
Completed(c, t) == [c EXCEPT !.active = @ \ {t}, !.done = @ \cup {t}, !.rev = @ + 1]

CanMove(c, s) == s \in Transitions[c.state]
CanAdd(c, t) == c.state \notin TerminalStates /\ t \notin c.active \cup c.done
CanComplete(c, t) == c.state \notin TerminalStates /\ t \in c.active

EditGoal(p) ==
  /\ mem[p] # NoGoal
  /\ mem[p].content.rev < MaxRevision
  /\ LET c == mem[p].content
         Edit(d) == Keep(p, [mem[p] EXCEPT !.content = d]) IN
       \/ \E s \in ToStates : CanMove(c, s) /\ Edit(Moved(c, s))
       \/ \E t \in Tasks : CanAdd(c, t) /\ Edit(Added(c, t))
       \/ \E t \in Tasks : CanComplete(c, t) /\ Edit(Completed(c, t))

(* Operations under the lock.                                              *)

\* The claims a caller can know: none, the one it was told, or the one in
\* the record it has read.
KnownClaims(p) ==
  {NoClaim}
    \cup {ClaimOf(o) : o \in {token[p], mem[p].own} \ {NoOwner}}

\* Open-GKGoalLock gives the operation the lock.  An operation that finds it
\* taken until its deadline returns lock-busy and changes nothing.
Ask(p, r) ==
  /\ holder = NoProc
  /\ holder' = p
  /\ req' = [req EXCEPT ![p] = r]
  /\ pc' = [pc EXCEPT ![p] = "held"]
  /\ UNCHANGED <<clock, disk, mem, token, staged>>

\* A caller starts an operation; what it compares is the revision it read.
Call(p) ==
  /\ pc[p] = "idle"
  /\ mem[p] # NoGoal
  /\ LET v == mem[p].content.rev IN
       \/ Ask(p, [kind |-> "save"])
       \/ \E c \in KnownClaims(p) :
            \/ \E b \in Bodies :
                 Ask(p, [kind |-> "update", rev |-> v, claim |-> c, body |-> b])
            \/ \E s \in ToStates :
                 Ask(p, [kind |-> "state", rev |-> v, claim |-> c, to |-> s])
            \/ \E k \in {"add", "complete"}, t \in Tasks :
                 Ask(p, [kind |-> k, rev |-> v, claim |-> c, task |-> t])
            \/ \E d \in Ttls :
                 c # NoClaim /\ Ask(p, [kind |-> "renew", claim |-> c, ttl |-> d])
       \/ \E o \in Owners, d \in Ttls :
            \/ Ask(p, [kind |-> "acquire", rev |-> v, owner |-> o, ttl |-> d])
            \/ Ask(p, [kind |-> "takeover", owner |-> o, ttl |-> d])

\* Fault: Save looks at the record it writes and not at the one on disk.
MaySaveBlind(g) == ~Managed(g)

\* Save: last writer wins, but never over or with a managed record.
MaySave(g) == ~Managed(g) /\ (disk # NoGoal => ~Managed(disk))

\* The change asked for is possible in content c.
Legal(c, r) ==
  /\ r.kind = "state" => CanMove(c, r.to)
  /\ r.kind = "add" => CanAdd(c, r.task)
  /\ r.kind = "complete" => CanComplete(c, r.task)

\* There is a goal and it is not over.
Open == disk # NoGoal /\ disk.content.state \notin TerminalStates

\* What every compare-and-set operation checks of the record it reads.
MayCommit(r) ==
  /\ Open
  /\ disk.content.rev = r.rev
  /\ Admitted(disk, r.claim)
  /\ Legal(disk.content, r)

Committed(c, r) ==
  CASE r.kind = "update"   -> [c EXCEPT !.body = r.body, !.rev = @ + 1]
    [] r.kind = "state"    -> Moved(c, r.to)
    [] r.kind = "add"      -> Added(c, r.task)
    [] r.kind = "complete" -> Completed(c, r.task)

MayAcquire(r) == ~Managed(disk) /\ disk.content.rev = r.rev

MayRenew(r) == Managed(disk) /\ Holds(disk.own, r.claim)

\* Fault: a lease may be taken over at its last live instant.
MayTakeoverEarly(r) ==
  Managed(disk) /\ ~IdentityHold(disk.own.owner, r.owner) /\ clock + 1 >= disk.own.exp

\* Only a lease that has expired passes to another holder.
MayTakeover(r) ==
  Managed(disk) /\ ~IdentityHold(disk.own.owner, r.owner) /\ ~Live(disk.own)

MayOwn(r) ==
  /\ Open
  /\ CASE r.kind = "acquire"  -> MayAcquire(r)
       [] r.kind = "renew"    -> MayRenew(r)
       [] r.kind = "takeover" -> MayTakeover(r)

\* Fault: the first generation is left at zero, and a takeover keeps the
\* generation it finds.
NewOwnershipUnfenced(r) ==
  LET e == clock + r.ttl IN
  CASE r.kind = "acquire"  -> [owner |-> r.owner, gen |-> 0, exp |-> e]
    [] r.kind = "renew"    -> [disk.own EXCEPT !.exp = e]
    [] r.kind = "takeover" -> [owner |-> r.owner, gen |-> disk.own.gen, exp |-> e]

\* The generation is allocated here, never by the caller.
NewOwnership(r) ==
  LET e == clock + r.ttl IN
  CASE r.kind = "acquire"  -> [owner |-> r.owner, gen |-> 1, exp |-> e]
    [] r.kind = "renew"    -> [disk.own EXCEPT !.exp = e]
    [] r.kind = "takeover" -> [owner |-> r.owner, gen |-> disk.own.gen + 1, exp |-> e]

Stage(p, g, step) ==
  /\ staged' = [staged EXCEPT ![p] = g]
  /\ pc' = [pc EXCEPT ![p] = step]
  /\ UNCHANGED <<clock, disk, holder, mem, token, req>>

StageSave(p) ==
  /\ pc[p] = "held" /\ req[p].kind = "save"
  /\ MaySave(mem[p])
  /\ Stage(p, mem[p], "write")

StageCommit(p) ==
  /\ pc[p] = "held" /\ req[p].kind \in CommitKinds
  /\ MayCommit(req[p])
  /\ Stage(p, [disk EXCEPT !.content = Committed(disk.content, req[p])], "gate")

StageOwnership(p) ==
  /\ pc[p] = "held" /\ req[p].kind \in OwnKinds
  /\ MayOwn(req[p])
  /\ Stage(p, [content |-> [disk.content EXCEPT !.rev = @ + 1],
               own |-> NewOwnership(req[p])], "write")

\* A check fails: the operation returns its reason and writes nothing.
Deny(p) ==
  /\ pc[p] = "held"
  /\ CASE req[p].kind = "save"          -> ~MaySave(mem[p])
       [] req[p].kind \in CommitKinds -> ~MayCommit(req[p])
       [] req[p].kind \in OwnKinds    -> ~MayOwn(req[p])
  /\ Stage(p, NoGoal, "exit")

\* The fencing is validated again right before the write.
CommitGate(p) ==
  /\ pc[p] = "gate"
  /\ IF Admitted(staged[p], req[p].claim)
       THEN Stage(p, staged[p], "write")
       ELSE Stage(p, NoGoal, "exit")

\* The record replaces the file and is what the caller gets back.
WriteGoalRecord(p) ==
  /\ pc[p] = "write"
  /\ staged[p].content.rev <= MaxRevision
  /\ disk' = staged[p]
  /\ mem' = IF req[p].kind \in CommitKinds THEN [mem EXCEPT ![p] = staged[p]] ELSE mem
  /\ token' = IF req[p].kind \in OwnKinds THEN [token EXCEPT ![p] = staged[p].own] ELSE token
  /\ staged' = [staged EXCEPT ![p] = NoGoal]
  /\ pc' = [pc EXCEPT ![p] = "exit"]
  /\ UNCHANGED <<clock, holder, req>>

\* goal-write-failed: the old file stays.
WriteFailed(p) ==
  /\ pc[p] = "write"
  /\ Stage(p, NoGoal, "exit")

ReleaseLock(p) ==
  /\ pc[p] = "exit"
  /\ holder' = NoProc
  /\ pc' = [pc EXCEPT ![p] = "idle"]
  /\ req' = [req EXCEPT ![p] = NoRequest]
  /\ UNCHANGED <<clock, disk, mem, token, staged>>

\* A process dies; the system takes its handle back.
Crash(p) ==
  /\ pc' = [pc EXCEPT ![p] = "idle"]
  /\ req' = [req EXCEPT ![p] = NoRequest]
  /\ staged' = [staged EXCEPT ![p] = NoGoal]
  /\ mem' = [mem EXCEPT ![p] = NoGoal]
  /\ token' = [token EXCEPT ![p] = NoOwner]
  /\ holder' = IF holder = p THEN NoProc ELSE holder
  /\ UNCHANGED <<clock, disk>>

UnderLock(p) ==
  \/ StageSave(p) \/ StageCommit(p) \/ StageOwnership(p) \/ Deny(p)
  \/ CommitGate(p)
  \/ WriteGoalRecord(p) \/ WriteFailed(p)
  \/ ReleaseLock(p)

Next ==
  \/ \E p \in Procs :
       NewGoal(p) \/ GetGoal(p) \/ EditGoal(p) \/ Call(p) \/ UnderLock(p) \/ Crash(p)
  \/ Tick

Spec == Init /\ [][Next]_vars

-----------------------------------------------------------------------------
(* Properties.                                                             *)

TypeOK ==
  /\ clock \in Nat
  /\ disk \in Goal \cup {NoGoal}
  /\ holder \in Procs \cup {NoProc}
  /\ mem \in [Procs -> Goal \cup {NoGoal}]
  /\ token \in [Procs -> Ownership \cup {NoOwner}]
  /\ pc \in [Procs -> Steps]
  /\ req \in [Procs -> Request \cup {NoRequest}]
  /\ staged \in [Procs -> Goal \cup {NoGoal}]

\* At any instant at most one owner, under one generation, believes that it
\* holds a live lease on the goal, however long ago each of them was told.
\* It needs UniformTtl.
OneHolder ==
  \A p, q \in Procs :
    /\ token[p] # NoOwner /\ Live(token[p])
    /\ token[q] # NoOwner /\ Live(token[q])
    => ClaimOf(token[p]) = ClaimOf(token[q])

\* Every caller asks for the same lease duration, as the default does.  With
\* several, a renewal can cut short the lease another process was told of.
UniformTtl == \A d, e \in Ttls : d = e

\* A managed goal changes only by an operation of its current holder, or by
\* a takeover once the lease has expired: a holder that was replaced can
\* never commit again, and no caller without a claim can.
HolderWrites ==
  [][ disk # NoGoal /\ Managed(disk) /\ disk' # disk
      => \E p \in Procs :
           /\ holder = p
           /\ \/ /\ req[p].kind \in CommitKinds \cup {"renew"}
                 /\ req[p].claim = ClaimOf(disk.own)
              \/ /\ req[p].kind = "takeover"
                 /\ ~Live(disk.own) ]_vars

\* The record never loses a task of a managed goal, and a completed task
\* stays completed: no update is written over another.
TasksKept ==
  [][ disk # NoGoal /\ Managed(disk)
      => /\ disk.content.done \subseteq disk'.content.done
         /\ disk.content.active \subseteq disk'.content.active \cup disk'.content.done ]_vars

\* Seen from outside, one goal is the register of FencedGoal.
Register == INSTANCE FencedGoal
  WITH Contents <- Content,
       Terminal <- TerminalStates,
       content <- IF disk = NoGoal THEN NoGoal ELSE disk.content,
       authority <- IF disk = NoGoal \/ disk.own = NoOwner THEN NoOwner ELSE ClaimOf(disk.own)

RegisterSpec == Register!Spec
=============================================================================
