-------------------------- MODULE GoalKernelProofs --------------------------
(***************************************************************************)
(* Proofs about GoalKernel, for any number of processes, owners and tasks  *)
(* and any bounds: types, the refinement of the fenced register, and the   *)
(* fencing of the writes.                                                  *)
(*                                                                         *)
(* The properties speak of one write.  What makes it safe happened earlier *)
(* in the same operation, so the invariant describes the record a process  *)
(* has staged in terms of the record on disk, which nobody else can have   *)
(* changed: the process has the lock.                                      *)
(***************************************************************************)
EXTENDS GoalKernel, TLAPS

LockInv == \A p \in Procs : pc[p] # "idle" => holder = p /\ req[p] \in Request

\* A commit that has passed its first gate.
StagedCommit(p) ==
  /\ Open
  /\ staged[p] = [disk EXCEPT !.content = Committed(disk.content, req[p])]
  /\ Legal(disk.content, req[p])
  /\ req[p].claim = IF Managed(disk) THEN ClaimOf(disk.own) ELSE NoClaim

StagedSave(p) ==
  /\ staged[p] # NoGoal /\ ~Managed(staged[p])
  /\ disk # NoGoal => ~Managed(disk)

\* An allocation or renewal of the ownership.
StagedOwnership(p) ==
  /\ Open
  /\ staged[p].content = [disk.content EXCEPT !.rev = @ + 1]
  /\ Managed(staged[p])
  /\ req[p].kind = "acquire" => ~Managed(disk) /\ staged[p].own.gen = 1
  /\ req[p].kind = "renew" => /\ Managed(disk)
                             /\ req[p].claim = ClaimOf(disk.own)
                             /\ ClaimOf(staged[p].own) = ClaimOf(disk.own)
  /\ req[p].kind = "takeover" => /\ Managed(disk) /\ ~Live(disk.own)
                                /\ staged[p].own.gen = disk.own.gen + 1

StageInv ==
  \A p \in Procs :
    /\ pc[p] = "held" /\ req[p].kind = "save" => mem[p] # NoGoal
    /\ pc[p] \in {"gate", "write"} => staged[p] \in Goal
    /\ pc[p] = "gate" => req[p].kind \in CommitKinds /\ StagedCommit(p)
    /\ pc[p] = "write" /\ req[p].kind = "save" => StagedSave(p)
    /\ pc[p] = "write" /\ req[p].kind \in CommitKinds => StagedCommit(p)
    /\ pc[p] = "write" /\ req[p].kind \in OwnKinds => StagedOwnership(p)

GoalInv == TypeOK /\ LockInv /\ StageInv

\* The leases processes were told of, against the one on disk: an older
\* generation has expired, the current one expires no later.
TokenInv ==
  \A p \in Procs : token[p] # NoOwner =>
    /\ disk # NoGoal /\ Managed(disk)
    /\ token[p].gen <= disk.own.gen
    /\ token[p].gen = disk.own.gen => /\ token[p].owner = disk.own.owner
                                     /\ token[p].exp <= disk.own.exp
    /\ token[p].gen < disk.own.gen => ~Live(token[p])

\* With one lease duration no lease ends later than one granted now.
LeaseInv ==
  /\ disk # NoGoal /\ Managed(disk) => \A d \in Ttls : disk.own.exp <= clock + d
  /\ \A p \in Procs : pc[p] = "write" /\ req[p].kind \in OwnKinds =>
       /\ \A d \in Ttls : staged[p].own.exp <= clock + d
       /\ req[p].kind = "renew" => disk.own.exp <= staged[p].own.exp

-----------------------------------------------------------------------------
(* Records.                                                                *)

LEMMA ContentSteps ==
  ASSUME NEW c \in Content
  PROVE  /\ \A s : CanMove(c, s) => Moved(c, s) \in Content
         /\ \A t \in Tasks : Added(c, t) \in Content /\ Completed(c, t) \in Content
         /\ \A b \in Bodies : [c EXCEPT !.body = b, !.rev = @ + 1] \in Content
         /\ [c EXCEPT !.rev = @ + 1] \in Content
<1>1. c.state \in States /\ c.rev \in Nat \ {0}
  BY DEF Content
<1>2. \A s : CanMove(c, s) => s \in States
  BY <1>1 DEF CanMove, Transitions, States
<1>3. ASSUME NEW d \in Content PROVE [d EXCEPT !.rev = @ + 1] \in Content
  BY DEF Content
<1>4. ASSUME NEW s, CanMove(c, s) PROVE Moved(c, s) \in Content
  <2>1. [c EXCEPT !.state = s] \in Content
    BY <1>2, <1>4 DEF Content
  <2>2. Moved(c, s) = [[c EXCEPT !.state = s] EXCEPT !.rev = @ + 1]
    BY DEF Moved, Content
  <2>. QED
    BY <1>3, <2>1, <2>2
<1>5. ASSUME NEW t \in Tasks PROVE Added(c, t) \in Content /\ Completed(c, t) \in Content
  <2>1. [c EXCEPT !.active = @ \cup {t}] \in Content
    BY DEF Content
  <2>2. [c EXCEPT !.active = @ \ {t}, !.done = @ \cup {t}] \in Content
    BY DEF Content
  <2>3. Added(c, t) = [[c EXCEPT !.active = @ \cup {t}] EXCEPT !.rev = @ + 1]
    BY DEF Added, Content
  <2>4. Completed(c, t)
          = [[c EXCEPT !.active = @ \ {t}, !.done = @ \cup {t}] EXCEPT !.rev = @ + 1]
    BY DEF Completed, Content
  <2>. QED
    BY <1>3, <2>1, <2>2, <2>3, <2>4
<1>6. ASSUME NEW b \in Bodies PROVE [c EXCEPT !.body = b, !.rev = @ + 1] \in Content
  <2>1. [c EXCEPT !.body = b] \in Content
    BY DEF Content
  <2>2. [c EXCEPT !.body = b, !.rev = @ + 1] = [[c EXCEPT !.body = b] EXCEPT !.rev = @ + 1]
    BY DEF Content
  <2>. QED
    BY <1>3, <2>1, <2>2
<1>. QED
  BY <1>3, <1>4, <1>5, <1>6

LEMMA RequestFields ==
  ASSUME NEW r \in Request
  PROVE  /\ r.kind \in {"save"} \cup CommitKinds \cup OwnKinds
         /\ r.kind = "update" => r.body \in Bodies
         /\ r.kind \in {"add", "complete"} => r.task \in Tasks
         /\ r.kind \in {"acquire", "takeover"} => r.owner \in Owners
         /\ r.kind \in OwnKinds => r.ttl \in Ttls
BY DEF Request, CommitKinds, OwnKinds

LEMMA CommittedType ==
  ASSUME NEW c \in Content, NEW r \in Request, r.kind \in CommitKinds, Legal(c, r)
  PROVE  /\ Committed(c, r) \in Content
         /\ Committed(c, r).rev = c.rev + 1
<1>1. CASE r.kind = "update"
  BY <1>1, ContentSteps, RequestFields DEF Committed, Content
<1>2. CASE r.kind = "state"
  BY <1>2, ContentSteps DEF Committed, Content, Legal, Moved
<1>3. CASE r.kind = "add"
  BY <1>3, ContentSteps, RequestFields DEF Committed, Content, Added
<1>4. CASE r.kind = "complete"
  BY <1>4, ContentSteps, RequestFields DEF Committed, Content, Completed
<1>. QED
  BY <1>1, <1>2, <1>3, <1>4 DEF CommitKinds

LEMMA GoalFields ==
  ASSUME NEW g \in Goal
  PROVE  g.content \in Content /\ g.own \in Ownership \cup {NoOwner} /\ g # NoGoal
BY GoalNoneAssumption DEF Goal

LEMMA OwnershipType ==
  ASSUME disk \in Goal, clock \in Nat, NEW r \in Request, r.kind \in OwnKinds, MayOwn(r)
  PROVE  /\ NewOwnership(r) \in Ownership
         /\ NewOwnership(r).exp = clock + r.ttl
         /\ r.kind = "renew" => ClaimOf(NewOwnership(r)) = ClaimOf(disk.own)
         /\ r.kind = "acquire" => NewOwnership(r).gen = 1
         /\ r.kind = "takeover" => NewOwnership(r).gen = disk.own.gen + 1
<1>1. r.ttl \in Nat
  BY RequestFields, GoalTtlsAssumption
<1>2. disk.own \in Ownership \cup {NoOwner}
  BY GoalFields
<1>3. CASE r.kind = "acquire"
  BY <1>1, <1>3, RequestFields DEF NewOwnership, Ownership
<1>4. CASE r.kind = "renew"
  <2>1. disk.own \in Ownership
    BY <1>2, <1>4 DEF MayOwn, MayRenew, Managed
  <2>. QED
    BY <1>1, <1>4, <2>1 DEF NewOwnership, Ownership, ClaimOf
<1>5. CASE r.kind = "takeover"
  <2>1. disk.own \in Ownership
    BY <1>2, <1>5 DEF MayOwn, MayTakeover, Managed
  <2>. QED
    BY <1>1, <1>5, <2>1, RequestFields DEF NewOwnership, Ownership
<1>. QED
  BY <1>3, <1>4, <1>5 DEF OwnKinds

-----------------------------------------------------------------------------
(* Type correctness and what is staged.                                    *)

LEMMA GoalInit == Init => GoalInv
  BY DEF Init, GoalInv, TypeOK, LockInv, StageInv, Steps

\* Steps outside of the lock change one copy in memory.
LEMMA KeepStep ==
  ASSUME GoalInv, NEW p \in Procs, NEW g \in Goal, Keep(p, g)
  PROVE  GoalInv'
<1> USE DEF GoalInv, Keep
<1>1. TypeOK'
  BY DEF TypeOK
<1>2. LockInv'
  BY DEF LockInv
<1>3. StageInv'
  BY DEF StageInv, StagedCommit, StagedSave, StagedOwnership, Open, Live, TypeOK
<1>. QED
  BY <1>1, <1>2, <1>3

LEMMA AskStep ==
  ASSUME GoalInv, NEW p \in Procs, NEW r \in Request, mem[p] # NoGoal,
         pc[p] = "idle", Ask(p, r)
  PROVE  GoalInv'
<1> USE DEF GoalInv, Ask
<1>1. TypeOK'
  BY DEF TypeOK, Steps
<1>2. \A q \in Procs : pc[q] = "idle"
  BY GoalNoProcAssumption DEF LockInv
<1>3. LockInv'
  BY <1>2 DEF LockInv, TypeOK
<1>4. StageInv'
  BY <1>2 DEF StageInv, TypeOK
<1>. QED
  BY <1>1, <1>3, <1>4

LEMMA GoalStep == GoalInv /\ [Next]_vars => GoalInv'
<1> SUFFICES ASSUME GoalInv, [Next]_vars PROVE GoalInv'
  OBVIOUS
<1> USE DEF GoalInv
<1>1. ASSUME NEW p \in Procs, NewGoal(p) PROVE GoalInv'
  <2>1. PICK b \in Bodies :
          Keep(p, [ content |-> [state |-> "DRAFT", rev |-> 1, active |-> {},
                                 done |-> {}, body |-> b],
                    own |-> NoOwner ])
    BY <1>1 DEF NewGoal
  <2>2. [state |-> "DRAFT", rev |-> 1, active |-> {}, done |-> {}, body |-> b] \in Content
    BY DEF Content, States
  <2>. QED
    BY <2>1, <2>2, KeepStep DEF Goal
<1>2. ASSUME NEW p \in Procs, GetGoal(p) PROVE GoalInv'
  BY <1>2, KeepStep DEF GetGoal, TypeOK
<1>3. ASSUME NEW p \in Procs, EditGoal(p) PROVE GoalInv'
  <2>1. mem[p] \in Goal /\ mem[p].content \in Content
    BY <1>3, GoalFields DEF EditGoal, TypeOK
  <2>2. \A d \in Content : [mem[p] EXCEPT !.content = d] \in Goal
    BY <2>1 DEF Goal
  <2>3. \E d \in Content : Keep(p, [mem[p] EXCEPT !.content = d])
    BY <1>3, <2>1, ContentSteps DEF EditGoal
  <2>. QED
    BY <2>2, <2>3, KeepStep
<1>4. ASSUME NEW p \in Procs, Call(p) PROVE GoalInv'
  <2>1. mem[p] \in Goal /\ mem[p].content.rev \in Nat
    BY <1>4, GoalFields DEF Call, TypeOK, Content
  <2>2. KnownClaims(p) \subseteq Claim \cup {NoClaim}
    BY <2>1, GoalFields DEF KnownClaims, ClaimOf, Claim, Ownership, TypeOK
  <2>3. \E r \in Request : Ask(p, r)
    BY <1>4, <2>1, <2>2 DEF Call, Request
  <2>. QED
    BY <1>4, <2>3, AskStep DEF Call
<1>5. ASSUME NEW p \in Procs, StageSave(p) PROVE GoalInv'
  <2>1. /\ pc[p] = "held" /\ req[p].kind = "save" /\ MaySave(mem[p]) /\ mem[p] \in Goal
        /\ Stage(p, mem[p], "write")
    BY <1>5 DEF StageSave, StageInv, TypeOK
  <2>2. \A q \in Procs \ {p} : pc[q] = "idle"
    BY <2>1 DEF LockInv
  <2>3. TypeOK' /\ LockInv'
    BY <2>1 DEF Stage, TypeOK, Steps, LockInv
  <2>4. StageInv'
    BY <2>1, <2>2, GoalFields
    DEF Stage, StageInv, TypeOK, StagedSave, MaySave, CommitKinds, OwnKinds, Managed
  <2>. QED
    BY <2>3, <2>4
<1>6. ASSUME NEW p \in Procs, StageCommit(p) PROVE GoalInv'
  <2> DEFINE g == [disk EXCEPT !.content = Committed(disk.content, req[p])]
  <2>1. /\ pc[p] = "held" /\ req[p].kind \in CommitKinds /\ MayCommit(req[p])
        /\ Stage(p, g, "gate")
    BY <1>6 DEF StageCommit
  <2>2. \A q \in Procs \ {p} : pc[q] = "idle"
    BY <2>1 DEF LockInv
  <2>3. disk \in Goal /\ disk.content \in Content /\ req[p] \in Request
    BY <2>1, GoalFields DEF MayCommit, Open, TypeOK, LockInv
  <2>4. g \in Goal
    BY <2>1, <2>3, CommittedType DEF MayCommit, Goal
  <2>5. TypeOK' /\ LockInv'
    BY <2>1, <2>4 DEF Stage, TypeOK, Steps, LockInv
  <2>6. staged'[p] = g /\ pc'[p] = "gate" /\ UNCHANGED <<disk, req, clock>>
        /\ \A q \in Procs \ {p} : pc'[q] = "idle"
    BY <2>1, <2>2 DEF Stage, TypeOK
  <2>7. StagedCommit(p)'
    BY <2>1, <2>6 DEF StagedCommit, MayCommit, Open, Admitted, Holds
  <2>8. StageInv'
    BY <2>1, <2>4, <2>6, <2>7 DEF StageInv
  <2>. QED
    BY <2>5, <2>8
<1>7. ASSUME NEW p \in Procs, StageOwnership(p) PROVE GoalInv'
  <2> DEFINE r == req[p]
             g == [content |-> [disk.content EXCEPT !.rev = @ + 1],
                   own |-> NewOwnership(r)]
  <2>1. /\ pc[p] = "held" /\ r.kind \in OwnKinds /\ MayOwn(r)
        /\ Stage(p, g, "write")
    BY <1>7 DEF StageOwnership
  <2>2. \A q \in Procs \ {p} : pc[q] = "idle"
    BY <2>1 DEF LockInv
  <2>3. disk \in Goal /\ disk.content \in Content /\ r \in Request /\ clock \in Nat
    BY <2>1, GoalFields DEF MayOwn, Open, TypeOK, LockInv
  <2>4. g \in Goal /\ g.own \in Ownership
    BY <2>1, <2>3, ContentSteps, OwnershipType DEF Goal
  <2>5. TypeOK' /\ LockInv'
    BY <2>1, <2>4 DEF Stage, TypeOK, Steps, LockInv
  <2>6. staged'[p] = g /\ pc'[p] = "write" /\ UNCHANGED <<disk, req, clock>>
        /\ \A q \in Procs \ {p} : pc'[q] = "idle"
    BY <2>1, <2>2 DEF Stage, TypeOK
  <2>7. StagedOwnership(p)'
    <3>1. Managed(g)
      BY <2>4, GoalNoneAssumption DEF Managed
    <3>2. Open /\ (r.kind = "acquire" => ~Managed(disk))
      BY <2>1 DEF MayOwn, MayAcquire
    <3>3. r.kind = "renew" => Managed(disk) /\ r.claim = ClaimOf(disk.own)
      BY <2>1 DEF MayOwn, MayRenew, Holds
    <3>4. r.kind = "takeover" => Managed(disk) /\ ~Live(disk.own)
      BY <2>1 DEF MayOwn, MayTakeover
    <3>5. /\ r.kind = "renew" => ClaimOf(g.own) = ClaimOf(disk.own)
          /\ r.kind = "acquire" => g.own.gen = 1
          /\ r.kind = "takeover" => g.own.gen = disk.own.gen + 1
      BY <2>1, <2>3, OwnershipType
    <3> HIDE DEF g
    <3>6. g.content = [disk.content EXCEPT !.rev = @ + 1]
      BY DEF g
    <3>. QED
      BY <2>6, <3>1, <3>2, <3>3, <3>4, <3>5, <3>6
      DEF StagedOwnership, Managed, Open, Live, ClaimOf
  <2>8. StageInv'
    BY <2>1, <2>4, <2>6, <2>7 DEF StageInv, CommitKinds, OwnKinds
  <2>. QED
    BY <2>5, <2>8
<1>8. ASSUME NEW p \in Procs, Deny(p) \/ WriteFailed(p) PROVE GoalInv'
  <2>1. pc[p] # "idle" /\ Stage(p, NoGoal, "exit")
    BY <1>8 DEF Deny, WriteFailed
  <2>2. \A q \in Procs \ {p} : pc[q] = "idle"
    BY <2>1 DEF LockInv
  <2>. QED
    BY <2>1, <2>2 DEF Stage, TypeOK, Steps, LockInv, StageInv
<1>9. ASSUME NEW p \in Procs, CommitGate(p) PROVE GoalInv'
  <2>1. pc[p] = "gate" /\ (Stage(p, staged[p], "write") \/ Stage(p, NoGoal, "exit"))
    BY <1>9 DEF CommitGate
  <2>2. \A q \in Procs \ {p} : pc[q] = "idle"
    BY <2>1 DEF LockInv
  <2>3. TypeOK' /\ LockInv'
    BY <2>1 DEF Stage, TypeOK, Steps, LockInv
  <2>4. CASE Stage(p, NoGoal, "exit")
    BY <2>1, <2>2, <2>3, <2>4 DEF Stage, StageInv, TypeOK
  <2>5. CASE Stage(p, staged[p], "write")
    <3>1. StagedCommit(p) /\ req[p].kind \in CommitKinds /\ staged[p] \in Goal
      BY <2>1 DEF StageInv
    <3>2. UNCHANGED <<clock, disk, holder, mem, token, req, staged>>
          /\ pc'[p] = "write" /\ \A q \in Procs \ {p} : pc'[q] = "idle"
      BY <2>2, <2>5 DEF Stage, TypeOK
    <3>3. StagedCommit(p)'
      BY <3>1, <3>2 DEF StagedCommit, Open
    <3>4. StageInv'
      BY <3>1, <3>2, <3>3 DEF StageInv, CommitKinds, OwnKinds
    <3>. QED
      BY <2>3, <3>4
  <2>. QED
    BY <2>1, <2>4, <2>5
<1>10. ASSUME NEW p \in Procs, WriteGoalRecord(p) PROVE GoalInv'
  <2>1. pc[p] = "write" /\ staged[p] \in Goal /\ req[p] \in Request
    BY <1>10 DEF WriteGoalRecord, StageInv, LockInv
  <2>2. \A q \in Procs \ {p} : pc[q] = "idle"
    BY <2>1 DEF LockInv
  <2>3. staged[p].own \in Ownership \cup {NoOwner}
    BY <2>1, GoalFields
  <2>4. TypeOK' /\ LockInv'
    BY <1>10, <2>1, <2>3 DEF WriteGoalRecord, TypeOK, Steps, LockInv
  <2>5. StageInv'
    BY <1>10, <2>2 DEF WriteGoalRecord, StageInv, TypeOK
  <2>. QED
    BY <2>4, <2>5
<1>11. ASSUME NEW p \in Procs, ReleaseLock(p) PROVE GoalInv'
  <2>1. \A q \in Procs \ {p} : pc[q] = "idle"
    BY <1>11 DEF ReleaseLock, LockInv
  <2>. QED
    BY <1>11, <2>1 DEF ReleaseLock, TypeOK, Steps, LockInv, StageInv
<1>12. ASSUME NEW p \in Procs, Crash(p) PROVE GoalInv'
  <2>1. TypeOK' /\ LockInv'
    BY <1>12, GoalNoProcAssumption DEF Crash, TypeOK, Steps, LockInv
  <2>2. StageInv'
    BY <1>12 DEF Crash, TypeOK, StageInv, StagedCommit, StagedSave, StagedOwnership,
                 Open, Live
  <2>. QED
    BY <2>1, <2>2
<1>13. ASSUME Tick PROVE GoalInv'
  <2>1. clock \in Nat /\ clock' = clock + 1
        /\ UNCHANGED <<disk, holder, mem, token, pc, req, staged>>
    BY <1>13 DEF Tick, TypeOK
  <2>2. disk # NoGoal /\ Managed(disk) /\ ~Live(disk.own) => ~Live(disk.own)'
    <3>1. disk # NoGoal /\ Managed(disk) => disk.own.exp \in Nat
      BY GoalFields DEF TypeOK, Managed, Ownership
    <3>. QED
      BY <2>1, <3>1 DEF Live
  <2>3. TypeOK' /\ LockInv'
    BY <2>1 DEF TypeOK, LockInv
  <2>4. StageInv'
    BY <2>1, <2>2 DEF StageInv, StagedCommit, StagedSave, StagedOwnership, Open
  <2>. QED
    BY <2>3, <2>4
<1>14. ASSUME UNCHANGED vars PROVE GoalInv'
  BY <1>14 DEF vars, TypeOK, LockInv, StageInv, StagedCommit, StagedSave,
               StagedOwnership, Open, Live
<1>. QED
  BY <1>1, <1>2, <1>3, <1>4, <1>5, <1>6, <1>7, <1>8, <1>9, <1>10, <1>11, <1>12,
     <1>13, <1>14
  DEF Next, UnderLock

THEOREM GoalTypeCorrect == Spec => []TypeOK
<1>1. Init => GoalInv
  BY GoalInit
<1>2. GoalInv /\ [Next]_vars => GoalInv'
  BY GoalStep
<1>3. GoalInv => TypeOK
  BY DEF GoalInv
<1>. QED
  BY <1>1, <1>2, <1>3, PTL DEF Spec

-----------------------------------------------------------------------------
(* Writes.                                                                 *)

\* Only the write of an operation under the lock changes the file.
LEMMA OnlyWrites ==
  ASSUME GoalInv, [Next]_vars, disk' # disk
  PROVE  \E p \in Procs : WriteGoalRecord(p) /\ holder = p
<1>1. \E p \in Procs : WriteGoalRecord(p)
  BY DEF Next, vars, NewGoal, GetGoal, EditGoal, Keep, Call, Ask, UnderLock, StageSave,
         StageCommit, StageOwnership, Deny, CommitGate, WriteFailed, Stage, ReleaseLock,
         Crash, Tick
<1>. QED
  BY <1>1 DEF GoalInv, LockInv, WriteGoalRecord

\* What a write does, by the operation it belongs to.
LEMMA WriteCases ==
  ASSUME GoalInv, NEW p \in Procs, WriteGoalRecord(p)
  PROVE  /\ disk' = staged[p] /\ staged[p] \in Goal /\ req[p] \in Request
         /\ \/ req[p].kind = "save" /\ StagedSave(p)
            \/ req[p].kind \in CommitKinds /\ StagedCommit(p)
            \/ req[p].kind \in OwnKinds /\ StagedOwnership(p)
<1>1. req[p] \in Request /\ pc[p] = "write" /\ disk' = staged[p] /\ staged[p] \in Goal
  BY DEF GoalInv, LockInv, StageInv, WriteGoalRecord
<1>. QED
  BY <1>1, RequestFields DEF GoalInv, StageInv

LEMMA RegisterInit == Init => Register!Init
  BY DEF Init, Register!Init

LEMMA RegisterWrite ==
  ASSUME GoalInv, NEW p \in Procs, WriteGoalRecord(p)
  PROVE  Register!Next
<1> DEFINE g == staged[p]
<1>1. disk' = g /\ g \in Goal /\ req[p] \in Request
  BY WriteCases
<1>2. g.content \in Content /\ g.own \in Ownership \cup {NoOwner} /\ g # NoGoal
  BY <1>1, GoalFields
<1>3. disk # NoGoal => disk \in Goal /\ disk.content \in Content
                       /\ disk.own \in Ownership \cup {NoOwner}
                       /\ disk.content # NoGoal
  BY GoalFields, GoalNoneAssumption DEF GoalInv, TypeOK
<1>4. \A o \in Ownership : ClaimOf(o) # NoOwner
  <2>1. \A o \in Ownership : ClaimOf(o) \in Claim
    BY DEF ClaimOf, Ownership, Claim
  <2>. QED
    BY <2>1, GoalNoneAssumption
<1>. USE DEF Register!Owned, Register!Final, Managed
<1>5. CASE req[p].kind = "save" /\ StagedSave(p)
  <2>1. Register!FreeWrite
    BY <1>1, <1>2, <1>3, <1>5 DEF Register!FreeWrite, StagedSave
  <2>. QED
    BY <2>1 DEF Register!Next
<1>6. CASE req[p].kind \in CommitKinds /\ StagedCommit(p)
  <2>1. disk # NoGoal /\ disk.content.state \notin TerminalStates
        /\ g = [disk EXCEPT !.content = Committed(disk.content, req[p])]
        /\ Legal(disk.content, req[p])
    BY <1>6 DEF StagedCommit, Open
  <2>2. g.content = Committed(disk.content, req[p]) /\ g.own = disk.own
    BY <1>3, <2>1 DEF Goal
  <2>3. g.content.rev = disk.content.rev + 1
    BY <1>1, <1>3, <1>6, <2>1, <2>2, CommittedType
  <2>4. CASE disk.own = NoOwner
    <3>1. Register!FreeWrite
      BY <1>1, <1>2, <2>1, <2>2, <2>4 DEF Register!FreeWrite
    <3>. QED
      BY <3>1 DEF Register!Next
  <2>5. CASE disk.own # NoOwner
    <3>1. Register!Commit
      BY <1>1, <1>2, <1>3, <1>4, <2>1, <2>2, <2>3, <2>5 DEF Register!Commit
    <3>. QED
      BY <3>1 DEF Register!Next
  <2>. QED
    BY <2>4, <2>5
<1>7. CASE req[p].kind \in OwnKinds /\ StagedOwnership(p)
  <2>1. disk # NoGoal /\ disk.content.state \notin TerminalStates
        /\ g.content = [disk.content EXCEPT !.rev = @ + 1]
        /\ g.own \in Ownership
    BY <1>2, <1>7 DEF StagedOwnership, Open
  <2>2. g.content.rev = disk.content.rev + 1
    BY <1>3, <2>1 DEF Content
  <2>3. g.own.owner \in Owners /\ g.own # NoOwner
    BY <2>1, GoalNoneAssumption DEF Ownership
  <2>4. CASE req[p].kind = "acquire"
    <3>1. disk.own = NoOwner /\ g.own.gen = 1
      BY <1>7, <2>4 DEF StagedOwnership
    <3>2. Register!Acquire(g.own.owner)
      BY <1>1, <1>2, <1>3, <2>1, <2>3, <3>1
      DEF Register!Acquire, Register!Allocate, ClaimOf
    <3>. QED
      BY <2>3, <3>2 DEF Register!Next
  <2>5. CASE req[p].kind = "renew"
    <3>1. disk.own # NoOwner /\ ClaimOf(g.own) = ClaimOf(disk.own)
      BY <1>7, <2>5 DEF StagedOwnership
    <3>2. Register!Commit
      BY <1>1, <1>2, <1>3, <1>4, <2>1, <2>2, <2>3, <3>1 DEF Register!Commit
    <3>. QED
      BY <3>2 DEF Register!Next
  <2>6. CASE req[p].kind = "takeover"
    <3>1. disk.own # NoOwner /\ g.own.gen = disk.own.gen + 1
      BY <1>7, <2>6 DEF StagedOwnership
    <3>2. Register!Takeover(g.own.owner)
      BY <1>1, <1>2, <1>3, <1>4, <2>1, <2>3, <3>1
      DEF Register!Takeover, Register!Allocate, ClaimOf
    <3>. QED
      BY <2>3, <3>2 DEF Register!Next
  <2>. QED
    BY <1>7, <2>4, <2>5, <2>6 DEF OwnKinds
<1>. QED
  BY <1>5, <1>6, <1>7, WriteCases

\* A step of a process is one change of the register, or none.
LEMMA RegisterStep == GoalInv /\ [Next]_vars => [Register!Next]_(Register!vars)
<1> SUFFICES ASSUME GoalInv, [Next]_vars PROVE [Register!Next]_(Register!vars)
  OBVIOUS
<1>1. CASE disk' = disk
  BY <1>1 DEF Register!vars, ClaimOf
<1>2. CASE disk' # disk
  BY <1>2, OnlyWrites, RegisterWrite
<1>. QED
  BY <1>1, <1>2

\* The store, with its processes, locks, crashes, clock and leases, behaves
\* like the fenced register: one authority at a time, the next generation on
\* every change of owner, and no change of a terminal goal that has an owner.
THEOREM StoreImplementsRegister == Spec => RegisterSpec
<1>1. Init => GoalInv /\ Register!Init
  BY GoalInit, RegisterInit
<1>2. GoalInv /\ [Next]_vars => GoalInv'
  BY GoalStep
<1>3. GoalInv /\ [Next]_vars => [Register!Next]_(Register!vars)
  BY RegisterStep
<1>. QED
  BY <1>1, <1>2, <1>3, PTL DEF Spec, RegisterSpec, Register!Spec

-----------------------------------------------------------------------------
(* The fencing of the writes.                                              *)

LEMMA HolderWritesStep ==
  ASSUME GoalInv, [Next]_vars, disk # NoGoal, Managed(disk), disk' # disk
  PROVE  \E p \in Procs :
           /\ holder = p
           /\ \/ /\ req[p].kind \in CommitKinds \cup {"renew"}
                 /\ req[p].claim = ClaimOf(disk.own)
              \/ /\ req[p].kind = "takeover"
                 /\ ~Live(disk.own)
<1>1. PICK p \in Procs : WriteGoalRecord(p) /\ holder = p
  BY OnlyWrites
<1>. QED
  BY <1>1, WriteCases DEF StagedSave, StagedCommit, StagedOwnership, OwnKinds

\* Whatever interleaving of reads, commits, takeovers, crashes and expiring
\* leases came before: a managed goal is written by its current holder, or by
\* a takeover of an expired lease.
THEOREM HoldersWrite == Spec => HolderWrites
<1>1. Init => GoalInv
  BY GoalInit
<1>2. GoalInv /\ [Next]_vars => GoalInv'
  BY GoalStep
<1>3. GoalInv /\ [Next]_vars =>
        [ disk # NoGoal /\ Managed(disk) /\ disk' # disk
          => \E p \in Procs :
               /\ holder = p
               /\ \/ /\ req[p].kind \in CommitKinds \cup {"renew"}
                     /\ req[p].claim = ClaimOf(disk.own)
                  \/ /\ req[p].kind = "takeover"
                     /\ ~Live(disk.own) ]_vars
  BY HolderWritesStep
<1>. QED
  BY <1>1, <1>2, <1>3, PTL DEF Spec, HolderWrites

LEMMA CommittedTasks ==
  ASSUME NEW c \in Content, NEW r \in Request, r.kind \in CommitKinds
  PROVE  /\ c.done \subseteq Committed(c, r).done
         /\ c.active \subseteq Committed(c, r).active \cup Committed(c, r).done
<1>1. CASE r.kind = "update"
  BY <1>1 DEF Committed, Content
<1>2. CASE r.kind = "state"
  BY <1>2 DEF Committed, Content, Moved
<1>3. CASE r.kind = "add"
  BY <1>3 DEF Committed, Content, Added
<1>4. CASE r.kind = "complete"
  BY <1>4 DEF Committed, Content, Completed
<1>. QED
  BY <1>1, <1>2, <1>3, <1>4 DEF CommitKinds

LEMMA TasksKeptStep ==
  ASSUME GoalInv, [Next]_vars, disk # NoGoal, Managed(disk)
  PROVE  /\ disk.content.done \subseteq disk'.content.done
         /\ disk.content.active \subseteq disk'.content.active \cup disk'.content.done
<1>1. CASE disk' = disk
  BY <1>1
<1>2. CASE disk' # disk
  <2>1. PICK p \in Procs : WriteGoalRecord(p)
    BY <1>2, OnlyWrites
  <2>2. disk \in Goal /\ disk.content \in Content
    BY GoalFields DEF GoalInv, TypeOK
  <2>3. CASE req[p].kind = "save" /\ StagedSave(p)
    BY <2>3 DEF StagedSave
  <2>4. CASE req[p].kind \in CommitKinds /\ StagedCommit(p)
    <3>1. disk'.content = Committed(disk.content, req[p])
      BY <2>1, <2>2, <2>4, WriteCases DEF StagedCommit, Goal
    <3>2. req[p] \in Request
      BY <2>1, WriteCases
    <3>. QED
      BY <2>2, <2>4, <3>1, <3>2, CommittedTasks
  <2>5. CASE req[p].kind \in OwnKinds /\ StagedOwnership(p)
    <3>1. disk'.content = [disk.content EXCEPT !.rev = @ + 1]
      BY <2>1, <2>5, WriteCases DEF StagedOwnership
    <3>2. disk'.content.done = disk.content.done /\ disk'.content.active = disk.content.active
      BY <2>2, <3>1 DEF Content
    <3>. QED
      BY <3>2
  <2>. QED
    BY <2>1, <2>3, <2>4, <2>5, WriteCases
<1>. QED
  BY <1>1, <1>2

\* No write over another process's update of a managed goal loses a task.
THEOREM TasksAreKept == Spec => TasksKept
<1>1. Init => GoalInv
  BY GoalInit
<1>2. GoalInv /\ [Next]_vars => GoalInv'
  BY GoalStep
<1>3. GoalInv /\ [Next]_vars =>
        [ disk # NoGoal /\ Managed(disk)
          => /\ disk.content.done \subseteq disk'.content.done
             /\ disk.content.active
                  \subseteq disk'.content.active \cup disk'.content.done ]_vars
  BY TasksKeptStep
<1>. QED
  BY <1>1, <1>2, <1>3, PTL DEF Spec, TasksKept

-----------------------------------------------------------------------------
(* One live holder.                                                        *)

LEMMA HolderInit == Init => TokenInv /\ LeaseInv
  BY DEF Init, TokenInv, LeaseInv, OwnKinds

\* Steps that neither write nor let time pass.
LEMMA HolderQuiet ==
  ASSUME GoalInv, TokenInv, LeaseInv, UNCHANGED <<clock, disk>>,
         NEW p \in Procs,
         \A q \in Procs : token'[q] \in {token[q], NoOwner},
         \A q \in Procs \ {p} : pc'[q] = "write" =>
            pc[q] = "write" /\ staged'[q] = staged[q] /\ req'[q] = req[q],
         pc'[p] = "write" => req'[p].kind \notin OwnKinds
  PROVE  TokenInv' /\ LeaseInv'
<1>1. TokenInv'
  BY DEF TokenInv, Live
<1>2. LeaseInv'
  BY DEF LeaseInv
<1>. QED
  BY <1>1, <1>2

LEMMA HolderStageOwnership ==
  ASSUME UniformTtl, GoalInv, TokenInv, LeaseInv, NEW p \in Procs, StageOwnership(p)
  PROVE  TokenInv' /\ LeaseInv'
<1> DEFINE r == req[p]
<1>1. /\ pc[p] = "held" /\ r.kind \in OwnKinds /\ MayOwn(r)
      /\ Stage(p, [content |-> [disk.content EXCEPT !.rev = @ + 1],
                   own |-> NewOwnership(r)], "write")
  BY DEF StageOwnership
<1>2. \A q \in Procs \ {p} : pc[q] = "idle"
  BY <1>1 DEF GoalInv, LockInv
<1>3. disk \in Goal /\ r \in Request /\ clock \in Nat
  BY <1>1 DEF MayOwn, Open, GoalInv, TypeOK, LockInv
<1>4. NewOwnership(r).exp = clock + r.ttl /\ r.ttl \in Ttls
  BY <1>1, <1>3, OwnershipType, RequestFields
<1>5. UNCHANGED <<clock, disk, token, req>> /\ staged'[p].own = NewOwnership(r)
      /\ \A q \in Procs \ {p} : pc'[q] = "idle"
  BY <1>1, <1>2 DEF Stage, GoalInv, TypeOK
<1>6. \A d \in Ttls : staged'[p].own.exp <= clock + d
  <2>1. staged'[p].own.exp = clock + r.ttl /\ r.ttl \in Nat
    BY <1>4, <1>5, GoalTtlsAssumption
  <2>2. \A d \in Ttls : d = r.ttl
    BY <1>4 DEF UniformTtl
  <2>. QED
    BY <1>3, <2>1, <2>2
<1>7. r.kind = "renew" => disk.own.exp <= staged'[p].own.exp
  <2>1. r.kind = "renew" => disk # NoGoal /\ Managed(disk)
    BY <1>1 DEF MayOwn, MayRenew, Open
  <2>2. r.kind = "renew" => disk.own.exp <= clock + r.ttl
    BY <1>4, <2>1 DEF LeaseInv
  <2>3. staged'[p].own.exp = clock + r.ttl
    BY <1>4, <1>5
  <2> HIDE DEF r
  <2>. QED
    BY <2>2, <2>3
<1>8. TokenInv'
  BY <1>5 DEF TokenInv, Live
<1>9. LeaseInv'
  BY <1>5, <1>6, <1>7 DEF LeaseInv
<1>. QED
  BY <1>8, <1>9

LEMMA HolderWriteStep ==
  ASSUME GoalInv, TokenInv, LeaseInv, NEW p \in Procs, WriteGoalRecord(p)
  PROVE  TokenInv' /\ LeaseInv'
<1> DEFINE g == staged[p]
<1>1. disk' = g /\ g \in Goal /\ g # NoGoal /\ g.own \in Ownership \cup {NoOwner}
  BY WriteCases, GoalFields
<1>2. UNCHANGED <<clock, req>> /\ pc[p] = "write" /\ \A q \in Procs : pc'[q] # "write"
  BY DEF WriteGoalRecord, GoalInv, LockInv, TypeOK
<1>3. token'[p] = (IF req[p].kind \in OwnKinds THEN g.own ELSE token[p])
      /\ \A q \in Procs \ {p} : token'[q] = token[q]
  BY DEF WriteGoalRecord, GoalInv, TypeOK
<1>4. disk # NoGoal => disk \in Goal /\ disk.own \in Ownership \cup {NoOwner}
  BY GoalFields DEF GoalInv, TypeOK
<1>5. \A q \in Procs : token[q] # NoOwner => token[q] \in Ownership
  BY DEF GoalInv, TypeOK
<1>6. clock \in Nat
  BY DEF GoalInv, TypeOK
<1>7. CASE req[p].kind = "save" /\ StagedSave(p)
  <2>1. \A q \in Procs : token'[q] = NoOwner
    BY <1>3, <1>7 DEF StagedSave, TokenInv, OwnKinds
  <2>2. ~Managed(disk')
    BY <1>1, <1>7 DEF StagedSave
  <2>. QED
    BY <1>2, <2>1, <2>2 DEF TokenInv, LeaseInv
<1>8. CASE req[p].kind \in CommitKinds /\ StagedCommit(p)
  <2>1. disk # NoGoal /\ g.own = disk.own
    BY <1>4, <1>8 DEF StagedCommit, Open, Goal
  <2>2. \A q \in Procs : token'[q] = token[q]
    BY <1>3, <1>8 DEF CommitKinds, OwnKinds
  <2>3. TokenInv'
    BY <1>1, <1>2, <2>1, <2>2 DEF TokenInv, Live, Managed
  <2>4. LeaseInv'
    BY <1>1, <1>2, <2>1 DEF LeaseInv, Managed
  <2>. QED
    BY <2>3, <2>4
<1>9. CASE req[p].kind \in OwnKinds /\ StagedOwnership(p)
  <2>1. Managed(g) /\ g.own \in Ownership /\ disk # NoGoal
    BY <1>1, <1>9 DEF StagedOwnership, Managed, Open
  <2>2. LeaseInv'
    BY <1>1, <1>2, <1>9 DEF LeaseInv
  <2>3. token'[p] = g.own
    BY <1>3, <1>9
  <2>4. ASSUME NEW q \in Procs \ {p}, token[q] # NoOwner
        PROVE  /\ token[q].gen <= g.own.gen
               /\ token[q].gen = g.own.gen => /\ token[q].owner = g.own.owner
                                             /\ token[q].exp <= g.own.exp
               /\ token[q].gen < g.own.gen => ~Live(token[q])
    <3>1. /\ Managed(disk) /\ token[q].gen <= disk.own.gen
          /\ token[q].gen = disk.own.gen => /\ token[q].owner = disk.own.owner
                                           /\ token[q].exp <= disk.own.exp
          /\ token[q].gen < disk.own.gen => ~Live(token[q])
      BY <2>4 DEF TokenInv
    <3>2. token[q] \in Ownership /\ disk.own \in Ownership
      BY <1>4, <1>5, <2>1, <2>4, <3>1 DEF Managed
    <3>3. req[p].kind # "acquire"
      BY <1>9, <3>1 DEF StagedOwnership
    <3>4. CASE req[p].kind = "renew"
      <4>1. g.own.owner = disk.own.owner /\ g.own.gen = disk.own.gen
        BY <1>9, <3>4 DEF StagedOwnership, ClaimOf
      <4>2. disk.own.exp <= g.own.exp
        BY <1>2, <3>4 DEF LeaseInv, OwnKinds
      <4>. QED
        BY <2>1, <3>1, <3>2, <4>1, <4>2 DEF Ownership
    <3>5. CASE req[p].kind = "takeover"
      <4>1. g.own.gen = disk.own.gen + 1 /\ ~Live(disk.own)
        BY <1>9, <3>5 DEF StagedOwnership
      <4>2. token[q].gen < g.own.gen
        BY <3>1, <3>2, <4>1 DEF Ownership
      <4>3. ~Live(token[q])
        BY <1>6, <3>1, <3>2, <4>1 DEF Ownership, Live
      <4>. QED
        BY <2>1, <3>2, <4>2, <4>3 DEF Ownership
    <3>. QED
      BY <1>9, <3>3, <3>4, <3>5 DEF OwnKinds
  <2>5. TokenInv'
    <3>1. disk' # NoGoal /\ Managed(disk)'
      BY <1>1, <2>1 DEF Managed
    <3>2. g.own.gen \in Nat /\ g.own.exp \in Nat
      BY <2>1 DEF Ownership
    <3>3. ASSUME NEW q \in Procs, token'[q] # NoOwner
          PROVE  /\ token'[q].gen <= disk'.own.gen
                 /\ token'[q].gen = disk'.own.gen => /\ token'[q].owner = disk'.own.owner
                                                    /\ token'[q].exp <= disk'.own.exp
                 /\ token'[q].gen < disk'.own.gen => ~(clock < token'[q].exp)
      <4>1. CASE q = p
        BY <1>1, <2>3, <3>2, <4>1
      <4>2. CASE q # p
        BY <1>1, <1>3, <2>4, <3>3, <4>2 DEF Live
      <4>. QED
        BY <4>1, <4>2
    <3>. QED
      BY <1>2, <3>1, <3>3 DEF TokenInv, Live
  <2>. QED
    BY <2>2, <2>5
<1>. QED
  BY <1>7, <1>8, <1>9, WriteCases

LEMMA HolderTick ==
  ASSUME GoalInv, TokenInv, LeaseInv, Tick
  PROVE  TokenInv' /\ LeaseInv'
<1>1. clock \in Nat /\ clock' = clock + 1 /\ UNCHANGED <<disk, token, pc, req, staged>>
  BY DEF Tick, GoalInv, TypeOK
<1>2. \A o \in Ownership : ~Live(o) => ~Live(o)'
  BY <1>1 DEF Live, Ownership
<1>3. TokenInv'
  <2>1. \A q \in Procs : token[q] # NoOwner => token[q] \in Ownership
    BY DEF GoalInv, TypeOK
  <2>2. ASSUME NEW q \in Procs, token[q] # NoOwner, ~(clock < token[q].exp)
        PROVE  ~(clock' < token[q].exp)
    BY <1>1, <2>1, <2>2 DEF Ownership
  <2>. QED
    BY <1>1, <2>2 DEF TokenInv, Live
<1>4. \A e \in Nat : \A d \in Ttls : e <= clock + d => e <= clock' + d
  BY <1>1, GoalTtlsAssumption
<1>5. disk # NoGoal /\ Managed(disk) => disk.own.exp \in Nat
  BY GoalFields DEF GoalInv, TypeOK, Managed, Ownership
<1>6. \A q \in Procs : pc[q] = "write" /\ req[q].kind \in OwnKinds => staged[q].own.exp \in Nat
  BY GoalFields DEF GoalInv, StageInv, StagedOwnership, Managed, Ownership
<1>7. LeaseInv'
  BY <1>1, <1>4, <1>5, <1>6 DEF LeaseInv
<1>. QED
  BY <1>3, <1>7

LEMMA HolderStep ==
  UniformTtl /\ GoalInv /\ TokenInv /\ LeaseInv /\ [Next]_vars => TokenInv' /\ LeaseInv'
<1> SUFFICES ASSUME UniformTtl, GoalInv, TokenInv, LeaseInv, [Next]_vars
             PROVE  TokenInv' /\ LeaseInv'
  OBVIOUS
<1>1. ASSUME NEW p \in Procs, NewGoal(p) \/ GetGoal(p) \/ EditGoal(p) \/ Call(p)
      PROVE  TokenInv' /\ LeaseInv'
  <2>1. UNCHANGED <<clock, disk, token, staged>>
    BY <1>1 DEF NewGoal, GetGoal, EditGoal, Keep, Call, Ask
  <2>2. (UNCHANGED <<pc, req>>) \/ (\E r : Ask(p, r))
    BY <1>1 DEF NewGoal, GetGoal, EditGoal, Keep, Call
  <2>3. CASE UNCHANGED <<pc, req>>
    BY <2>1, <2>3 DEF TokenInv, LeaseInv, Live
  <2>4. CASE \E r : Ask(p, r)
    <3>1. PICK r : Ask(p, r)
      BY <2>4
    <3>2. pc'[p] = "held" /\ \A q \in Procs \ {p} : pc'[q] = pc[q] /\ req'[q] = req[q]
      BY <3>1 DEF Ask, GoalInv, TypeOK
    <3>. QED
      BY <2>1, <3>2, HolderQuiet
  <2>. QED
    BY <2>2, <2>3, <2>4
<1>2. ASSUME NEW p \in Procs, StageSave(p) \/ StageCommit(p) \/ Deny(p) \/ CommitGate(p)
                              \/ WriteFailed(p)
      PROVE  TokenInv' /\ LeaseInv'
  <2>1. PICK g, step : Stage(p, g, step)
    BY <1>2 DEF StageSave, StageCommit, Deny, CommitGate, WriteFailed
  <2>2. /\ UNCHANGED <<clock, disk, token, req>>
        /\ pc'[p] = step
        /\ \A q \in Procs \ {p} : pc'[q] = pc[q] /\ staged'[q] = staged[q]
    BY <2>1 DEF Stage, GoalInv, TypeOK
  <2>3. pc'[p] = "write" => req[p].kind \in CommitKinds \cup {"save"}
    BY <1>2 DEF StageSave, StageCommit, Deny, CommitGate, WriteFailed, Stage, GoalInv,
                TypeOK, StageInv
  <2>. QED
    BY <2>2, <2>3, HolderQuiet DEF CommitKinds, OwnKinds
<1>3. ASSUME NEW p \in Procs, ReleaseLock(p) \/ Crash(p) PROVE TokenInv' /\ LeaseInv'
  <2>1. /\ UNCHANGED <<clock, disk>> /\ pc'[p] = "idle"
        /\ \A q \in Procs : token'[q] \in {token[q], NoOwner}
        /\ \A q \in Procs \ {p} : pc'[q] = pc[q] /\ staged'[q] = staged[q] /\ req'[q] = req[q]
    BY <1>3 DEF ReleaseLock, Crash, GoalInv, TypeOK
  <2>. QED
    BY <2>1, HolderQuiet
<1>4. ASSUME UNCHANGED vars PROVE TokenInv' /\ LeaseInv'
  BY <1>4 DEF vars, TokenInv, LeaseInv, Live
<1>. QED
  BY <1>1, <1>2, <1>3, <1>4, HolderStageOwnership, HolderWriteStep, HolderTick
  DEF Next, UnderLock

LEMMA HolderGoal == GoalInv /\ TokenInv => OneHolder
<1> SUFFICES ASSUME GoalInv, TokenInv, NEW p \in Procs, NEW q \in Procs,
                    token[p] # NoOwner, Live(token[p]), token[q] # NoOwner, Live(token[q])
             PROVE  ClaimOf(token[p]) = ClaimOf(token[q])
  BY DEF OneHolder
<1>1. disk.own \in Ownership /\ token[p] \in Ownership /\ token[q] \in Ownership
  BY GoalFields DEF GoalInv, TypeOK, TokenInv, Managed
<1>2. token[p].gen = disk.own.gen /\ token[q].gen = disk.own.gen
  BY <1>1 DEF TokenInv, Ownership
<1>. QED
  BY <1>2 DEF TokenInv, ClaimOf

\* When all callers ask for one lease duration, no two processes ever believe
\* at the same instant that they hold the goal under different authorities.
THEOREM OneLiveHolder == UniformTtl => (Spec => []OneHolder)
<1>. SUFFICES ASSUME UniformTtl PROVE Spec => []OneHolder
  OBVIOUS
<1>. DEFINE HInv == GoalInv /\ TokenInv /\ LeaseInv
<1>1. Init => HInv
  BY GoalInit, HolderInit
<1>2. HInv /\ [Next]_vars => HInv'
  BY GoalStep, HolderStep
<1>3. HInv => OneHolder
  BY HolderGoal
<1>. QED
  BY <1>1, <1>2, <1>3, PTL DEF Spec
=============================================================================
