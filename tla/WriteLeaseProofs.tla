-------------------------- MODULE WriteLeaseProofs --------------------------
(***************************************************************************)
(* Proofs about WriteLease, for any number of tasks and processes, any     *)
(* scopes and durations and any damage: the type invariant, and that       *)
(* leases over overlapping paths never bind together.                      *)
(*                                                                         *)
(* ExclusiveScopes is not inductive: a process may be between its scan and *)
(* its write.  LeaseInv adds what a scan under way has established about   *)
(* the files it has read, that nobody but the lock holder can undo it, and *)
(* what a file still says of the lease that was granted.                   *)
(***************************************************************************)
EXTENDS WriteLease, TLAPS

\* A process past the directory lock holds it.
Inside(p) == pc[p] \notin {"idle", "lock"}

LockInv == \A p \in Procs : Inside(p) => holder = p

\* What a process works on is the operation it was called for.
RequestInv ==
  \A p \in Procs :
    /\ pc[p] \in {"scan", "write", "drop", "sweep"} => req[p] \in Request
    /\ pc[p] \in {"scan", "write"} => req[p].kind = "acquire"
    /\ pc[p] = "drop" => req[p].kind = "release"
    /\ pc[p] = "sweep" => req[p].kind = "recover"
    /\ pc[p] = "write" => req[p].ttl <= until[p]

\* Nobody but a grant makes a file.
FilesGranted == \A t \in Files : granted[t] # NoLease

TypeInv == TypeOK /\ RequestInv /\ FilesGranted

\* A loop visits files that exist; the write step follows a clear scan, with
\* an expiry computed some time ago.
LoopInv ==
  \A p \in Procs :
    /\ pc[p] \in {"scan", "sweep"} => todo[p] \subseteq Files
    /\ pc[p] \in {"idle", "lock"} => ~clash[p]
    /\ pc[p] = "write" => todo[p] = {} /\ ~clash[p]
    /\ pc[p] = "write" => until[p] - req[p].ttl <= clock

\* A task with a binding lease over overlapping paths.
Rival(p, t) ==
  /\ t # req[p].task
  /\ Binds(granted[t])
  /\ Overlap(req[p].scopes, granted[t].scopes)

\* A scan without a clash has ruled out every file it has read.
ScanInv ==
  \A p \in Procs :
    pc[p] \in {"scan", "write"} /\ ~clash[p]
      => \A t \in Tasks \ todo[p] : ~Rival(p, t)

\* What a lease file says of the lease that was granted: its terms, no harm
\* the lease does not know of, and no age before it.
Reflects(l, g) ==
  /\ l.harm \subseteq g.harm
  /\ l.expires = g.expires /\ l.scopes = g.scopes
  /\ g.since <= l.mtime /\ l.mtime <= clock

FileInv ==
  \A t \in Tasks :
    /\ Binds(granted[t]) => t \in Files
    /\ t \in Files => Reflects(file[t], granted[t])

LeaseInv ==
  /\ TypeInv /\ LockInv /\ LoopInv /\ ScanInv /\ FileInv /\ ExclusiveScopes

-----------------------------------------------------------------------------
(* Type correctness.                                                       *)

LEMMA RequestKinds ==
  ASSUME NEW r \in Request
  PROVE  /\ r.kind \in {"acquire", "release", "recover"}
         /\ r.kind = "acquire" => r.task \in Tasks /\ r.ttl \in Ttls /\ r.scopes \in ScopeSets
         /\ r.kind = "release" => r.task \in Tasks
         /\ r.kind = "recover" => r.ttl \in Ttls
BY DEF Request

USE DEF Files, Live

\* Damage adds harm to the file and to what is known of the lease, and may
\* make the file younger; a file that can be read again loses harm.
LEMMA HarmStep ==
  ASSUME TypeOK, FilesGranted, NEW t \in Tasks, Corrupt(t) \/ Mend(t)
  PROVE  /\ t \in Files /\ file[t] \in Lease /\ granted[t] \in Grant
         /\ file'[t] \in Lease /\ granted'[t] \in Grant
         /\ \A u \in Tasks \ {t} : file'[u] = file[u] /\ granted'[u] = granted[u]
         /\ file' \in [Tasks -> Lease \cup {NoLease}]
         /\ granted' \in [Tasks -> Grant \cup {NoLease}]
         /\ file'[t].expires = file[t].expires /\ file'[t].scopes = file[t].scopes
         /\ file'[t].mtime \in {file[t].mtime, clock}
         /\ granted'[t].expires = granted[t].expires
         /\ granted'[t].scopes = granted[t].scopes /\ granted'[t].since = granted[t].since
         /\ granted[t].harm \subseteq granted'[t].harm
         /\ file[t].harm \subseteq granted[t].harm => file'[t].harm \subseteq granted'[t].harm
         /\ UNCHANGED <<clock, holder, pc, req, todo, clash, until>>
<1>1. t \in Files /\ file[t] \in Lease /\ granted[t] \in Grant
      /\ UNCHANGED <<clock, holder, pc, req, todo, clash, until>>
  BY DEF Corrupt, Mend, TypeOK, FilesGranted
<1>2. CASE Corrupt(t)
  <2>1. PICK s \in Corruption[t], m \in {file[t].mtime, clock} :
          /\ file' = [file EXCEPT ![t].harm = @ \cup {s}, ![t].mtime = m]
          /\ granted' = [granted EXCEPT ![t].harm = @ \cup {s}]
    BY <1>2 DEF Corrupt
  <2> DEFINE l == [file[t] EXCEPT !.harm = @ \cup {s}, !.mtime = m]
             g == [granted[t] EXCEPT !.harm = @ \cup {s}]
  <2>2. s \in Damage /\ m \in Nat
    BY <1>1, CorruptionAssumption DEF Lease, TypeOK
  <2>3. /\ l \in Lease /\ l.expires = file[t].expires /\ l.scopes = file[t].scopes
        /\ l.harm = file[t].harm \cup {s} /\ l.mtime = m
    BY <1>1, <2>2 DEF Lease
  <2>4. /\ g \in Grant /\ g.harm = granted[t].harm \cup {s}
        /\ g.expires = granted[t].expires
        /\ g.scopes = granted[t].scopes /\ g.since = granted[t].since
    BY <1>1, <2>2 DEF Grant
  <2>5. file' = [file EXCEPT ![t] = l] /\ granted' = [granted EXCEPT ![t] = g]
    BY <2>1 DEF TypeOK
  <2> HIDE DEF l, g
  <2>6. file'[t] = l /\ granted'[t] = g
    BY <2>5 DEF TypeOK
  <2>7. /\ \A u \in Tasks \ {t} : file'[u] = file[u] /\ granted'[u] = granted[u]
        /\ file' \in [Tasks -> Lease \cup {NoLease}]
        /\ granted' \in [Tasks -> Grant \cup {NoLease}]
    BY <2>3, <2>4, <2>5 DEF TypeOK
  <2>. QED
    BY <1>1, <2>3, <2>4, <2>6, <2>7
<1>3. CASE Mend(t)
  <2> DEFINE l == [file[t] EXCEPT !.harm = @ \ {"garbled"}]
  <2>1. /\ l \in Lease /\ l.expires = file[t].expires /\ l.scopes = file[t].scopes
        /\ l.harm = file[t].harm \ {"garbled"} /\ l.mtime = file[t].mtime
    BY <1>1 DEF Lease
  <2>2. file' = [file EXCEPT ![t] = l] /\ granted' = granted
    BY <1>3 DEF Mend, TypeOK
  <2> HIDE DEF l
  <2>3. /\ file'[t] = l /\ \A u \in Tasks \ {t} : file'[u] = file[u]
        /\ file' \in [Tasks -> Lease \cup {NoLease}]
    BY <2>1, <2>2 DEF TypeOK
  <2>. QED
    BY <1>1, <2>1, <2>2, <2>3 DEF TypeOK
<1>. QED
  BY <1>2, <1>3

LEMMA TypeInit == Init => TypeInv
  BY DEF Init, TypeInv, TypeOK, Steps, NoRequest, RequestInv, FilesGranted

LEMMA TypeStep == TypeInv /\ [Next]_vars => TypeInv'
<1> SUFFICES ASSUME TypeInv, [Next]_vars PROVE TypeInv'
  OBVIOUS
<1>0. USE TtlsAssumption, BoundsAssumption, CorruptionAssumption
          DEF TypeInv, TypeOK, Steps, RequestInv, FilesGranted
<1>1. ASSUME NEW p \in Procs, Call(p) PROVE TypeInv'
  BY <1>1 DEF Call
<1>2. ASSUME NEW p \in Procs, EnterDirLock(p) PROVE TypeInv'
  <2>1. PICK r \in Request :
          /\ req' = [req EXCEPT ![p] = r]
          /\ pc' = [pc EXCEPT ![p] = FirstStep[r.kind]]
          /\ todo' = [todo EXCEPT ![p] = IF r.kind = "release" THEN {} ELSE Files]
    BY <1>2 DEF EnterDirLock
  <2>2. r.kind \in {"acquire", "release", "recover"}
    BY RequestKinds
  <2>3. /\ FirstStep[r.kind] \in {"scan", "drop", "sweep"}
        /\ FirstStep[r.kind] = "scan" => r.kind = "acquire"
        /\ FirstStep[r.kind] = "drop" => r.kind = "release"
        /\ FirstStep[r.kind] = "sweep" => r.kind = "recover"
    BY <2>2 DEF FirstStep
  <2>4. holder' = p /\ UNCHANGED <<clock, file, granted, clash, until>>
    BY <1>2 DEF EnterDirLock
  <2>. QED
    BY <2>1, <2>3, <2>4
<1>3. ASSUME NEW p \in Procs, NEW s \in {"idle", "exit"}, Leave(p, s),
             UNCHANGED <<clock, file, granted>>, holder' \in Procs \cup {NoProc}
      PROVE  TypeInv'
  BY <1>3 DEF Leave
<1>4. ASSUME NEW p \in Procs, ScanFile(p) PROVE TypeInv'
  BY <1>4 DEF ScanFile, Conflicts
<1>5. ASSUME NEW p \in Procs, Refuse(p) \/ SweepDone(p) \/ WriteFailed(p)
      PROVE  TypeInv'
  BY <1>3, <1>5 DEF Refuse, SweepDone, WriteFailed
<1>6. ASSUME NEW p \in Procs, Stamp(p) PROVE TypeInv'
  <2>1. req[p].ttl \in Nat
    BY <1>6, RequestKinds DEF Stamp
  <2>. QED
    BY <1>6, <2>1 DEF Stamp
<1>7. ASSUME NEW p \in Procs, WriteLeaseRecord(p) PROVE TypeInv'
  <2> DEFINE r == req[p]
             l == [scopes |-> r.scopes, expires |-> until[p], mtime |-> clock,
                   harm |-> {}]
             g == [scopes |-> r.scopes, since |-> until[p] - r.ttl,
                   expires |-> until[p], harm |-> {}]
  <2>1. r.task \in Tasks /\ r.scopes \in ScopeSets /\ r.ttl \in Nat /\ r.ttl <= until[p]
    BY <1>7, RequestKinds DEF WriteLeaseRecord
  <2>2. until[p] - r.ttl \in Nat
    BY <2>1
  <2>3. l \in Lease /\ g \in Grant
    BY <2>1, <2>2 DEF Lease, Grant
  <2>4. file' = [file EXCEPT ![r.task] = l] /\ granted' = [granted EXCEPT ![r.task] = g]
    BY <1>7 DEF WriteLeaseRecord
  <2>5. file' \in [Tasks -> Lease \cup {NoLease}]
    BY <2>1, <2>3, <2>4
  <2>6. granted' \in [Tasks -> Grant \cup {NoLease}]
    BY <2>1, <2>3, <2>4
  <2>7. Leave(p, "exit") /\ UNCHANGED <<clock, holder>>
    BY <1>7 DEF WriteLeaseRecord
  <2>8. FilesGranted'
    BY <2>1, <2>3, <2>4, NoneAssumption
  <2>. QED
    BY <2>5, <2>6, <2>7, <2>8 DEF Leave
<1>8. ASSUME NEW p \in Procs, DropLease(p) PROVE TypeInv'
  <2>1. Leave(p, "exit") /\ UNCHANGED <<clock, holder>>
    BY <1>8 DEF DropLease
  <2>2. file' \in [Tasks -> Lease \cup {NoLease}] /\ granted' \in [Tasks -> Grant \cup {NoLease}]
    BY <1>8 DEF DropLease
  <2>3. FilesGranted'
    BY <1>8 DEF DropLease
  <2>. QED
    BY <2>1, <2>2, <2>3 DEF Leave
<1>9. ASSUME NEW p \in Procs, SweepFile(p) PROVE TypeInv'
  BY <1>9 DEF SweepFile
<1>10. ASSUME NEW t \in Tasks, Corrupt(t) \/ Mend(t) PROVE TypeInv'
  <2>1. /\ file' \in [Tasks -> Lease \cup {NoLease}]
        /\ granted' \in [Tasks -> Grant \cup {NoLease}]
        /\ UNCHANGED <<clock, holder, pc, req, todo, clash, until>>
    BY <1>10, HarmStep
  <2>2. FilesGranted'
    <3>1. granted'[t] # NoLease /\ \A u \in Tasks \ {t} : file'[u] = file[u] /\ granted'[u] = granted[u]
      BY <1>10, HarmStep, NoneAssumption
    <3>. QED
      BY <3>1
  <2>. QED
    BY <2>1, <2>2
<1>11. ASSUME Tick PROVE TypeInv'
  BY <1>11 DEF Tick
<1>12. ASSUME UNCHANGED vars PROVE TypeInv'
  BY <1>12 DEF vars
<1>13. ASSUME NEW p \in Procs, LockTimeout(p) \/ ExitDirLock(p) \/ Crash(p)
       PROVE  TypeInv'
  BY <1>3, <1>13 DEF LockTimeout, ExitDirLock, Crash
<1>. QED
  BY <1>1, <1>2, <1>4, <1>5, <1>6, <1>7, <1>8, <1>9, <1>10, <1>11, <1>12, <1>13
  DEF Next, Advance

\* The type invariant, for every value of the constants.
THEOREM TypeCorrect == Spec => []TypeOK
<1>1. Init => TypeInv
  BY TypeInit
<1>2. TypeInv /\ [Next]_vars => TypeInv'
  BY TypeStep
<1>3. TypeInv => TypeOK
  BY DEF TypeInv
<1>. QED
  BY <1>1, <1>2, <1>3, PTL DEF Spec

-----------------------------------------------------------------------------
(* Mutual exclusion of binding leases.                                     *)

\* Overlap does not depend on the order of its arguments.
LEMMA OverlapSymmetric == \A A, B : Overlap(A, B) = Overlap(B, A)
  BY DEF Overlap

\* A file that does not say whose lease it is, of a lease that binds, is fresh
\* for every duration a caller may judge it by.
LEMMA UnknownIsFresh ==
  ASSUME TypeInv, NEW t \in Files, Reflects(file[t], granted[t]), Binds(granted[t]),
         Unknown(file[t]), NEW d \in Ttls
  PROVE  Fresh(file[t], d)
<1>1. file[t] \in Lease /\ granted[t] \in Grant /\ clock \in Nat /\ d \in Nat
  BY TtlsAssumption DEF TypeInv, TypeOK, FilesGranted
<1>2. /\ file[t].mtime \in Nat /\ granted[t].since \in Nat
      /\ granted[t].since <= file[t].mtime
  BY <1>1 DEF Lease, Grant, Reflects
<1>3. Unknown(granted[t])
  BY DEF Unknown, Reflects
<1>4. clock <= granted[t].since + d
  BY <1>3 DEF Binds
<1>. QED
  BY <1>1, <1>2, <1>4 DEF Fresh

\* A file that says whose lease it is, of a lease that binds, is active.
LEMMA KnownIsActive ==
  ASSUME NEW t \in Files, Reflects(file[t], granted[t]), Binds(granted[t])
  PROVE  Active(file[t])
BY DEF Reflects, Binds, Active

\* What binds after the clock has moved, or after more harm was done to a
\* lease of the same terms, bound before.
LEMMA BindsLapses ==
  ASSUME NEW t \in Tasks, TypeInv, TypeInv', clock <= clock',
         granted[t] # NoLease,
         granted'[t].expires = granted[t].expires, granted'[t].since = granted[t].since,
         granted[t].harm \subseteq granted'[t].harm,
         Binds(granted[t])'
  PROVE  Binds(granted[t])
<1>1. granted[t] \in Grant /\ clock \in Nat /\ clock' \in Nat
  BY DEF TypeInv, TypeOK
<1>2. granted[t].expires \in Nat /\ granted[t].since \in Nat
  BY <1>1 DEF Grant
<1>3. granted[t].expires > clock' /\ "dateless" \notin granted'[t].harm
  BY DEF Binds
<1>4. ASSUME Unknown(granted[t]), NEW d \in Ttls PROVE clock <= granted[t].since + d
  <2>1. Unknown(granted[t])'
    BY <1>4 DEF Unknown
  <2>2. clock' <= granted[t].since + d
    BY <2>1 DEF Binds
  <2>3. d \in Nat
    BY TtlsAssumption
  <2>. QED
    BY <1>1, <1>2, <2>2, <2>3
<1>5. Live(granted[t]) /\ "dateless" \notin granted[t].harm
  BY <1>1, <1>2, <1>3
<1>. QED
  BY <1>4, <1>5 DEF Binds

LEMMA LeaseInit == Init => LeaseInv
<1> SUFFICES ASSUME Init PROVE LeaseInv
  OBVIOUS
<1>1. TypeInv
  BY TypeInit
<1>2. LockInv /\ LoopInv /\ ScanInv
  BY DEF Init, LockInv, LoopInv, ScanInv, Inside
<1>3. FileInv /\ ExclusiveScopes
  BY DEF Init, FileInv, ExclusiveScopes, Binds
<1>. QED
  BY <1>1, <1>2, <1>3 DEF LeaseInv

\* Steps that leave the leases and the clock alone keep what the lease files
\* say; only the loops have to be looked at.
LEMMA LeasesUntouched ==
  ASSUME LeaseInv, UNCHANGED <<clock, file, granted>>
  PROVE  /\ FileInv' /\ ExclusiveScopes' /\ Files' = Files
         /\ \A t \in Tasks : Binds(granted[t])' = Binds(granted[t])
BY DEF LeaseInv, FileInv, ExclusiveScopes, Binds, Reflects, Unknown

\* A process leaves its operation for the finally block, or the operation
\* altogether, and the lock with it if it had it.
LEMMA LeaseLeave ==
  ASSUME LeaseInv, TypeInv', NEW p \in Procs, NEW s \in {"idle", "exit"}, Leave(p, s),
         UNCHANGED <<clock, file, granted>>,
         s = "exit" => Inside(p) /\ holder' = holder,
         holder' = holder \/ (holder = p /\ holder' = NoProc)
  PROVE  LeaseInv'
<1> USE DEF Leave
<1>1. FileInv' /\ ExclusiveScopes'
  BY LeasesUntouched
<1>2. LockInv'
  BY NoneAssumption DEF LeaseInv, LockInv, Inside, TypeInv, TypeOK
<1>3. LoopInv'
  BY DEF LeaseInv, LoopInv, TypeInv, TypeOK
<1>4. ScanInv'
  <2>1. \A t \in Tasks : Binds(granted[t])' = Binds(granted[t])
    BY LeasesUntouched
  <2>2. \A q \in Procs \ {p} : pc'[q] = pc[q] /\ req'[q] = req[q] /\ todo'[q] = todo[q]
                               /\ clash'[q] = clash[q]
    BY DEF LeaseInv, TypeInv, TypeOK
  <2>3. pc'[p] \notin {"scan", "write"}
    BY DEF LeaseInv, TypeInv, TypeOK
  <2>. QED
    BY <2>1, <2>2, <2>3 DEF LeaseInv, ScanInv, Rival
<1>. QED
  BY <1>1, <1>2, <1>3, <1>4 DEF LeaseInv

\* What the scan of p has ruled out stays ruled out while p has the lock:
\* leases of the other tasks can only lapse.
LEMMA LeaseStep == LeaseInv /\ TypeInv' /\ [Next]_vars => LeaseInv'
<1> SUFFICES ASSUME LeaseInv, TypeInv', [Next]_vars PROVE LeaseInv'
  OBVIOUS
<1>0. USE DEF LeaseInv
<1>1. ASSUME NEW p \in Procs, Call(p) PROVE LeaseInv'
  <2>1. FileInv' /\ ExclusiveScopes' /\ \A t \in Tasks : Binds(granted[t])' = Binds(granted[t])
    BY <1>1, LeasesUntouched DEF Call
  <2>2. LockInv' /\ LoopInv' /\ ScanInv'
    BY <1>1, <2>1 DEF Call, LockInv, LoopInv, ScanInv, Inside, TypeInv, TypeOK, Rival
  <2>. QED
    BY <2>1, <2>2
<1>2. ASSUME NEW p \in Procs, EnterDirLock(p) PROVE LeaseInv'
  <2>1. FileInv' /\ ExclusiveScopes' /\ Files' = Files
        /\ \A t \in Tasks : Binds(granted[t])' = Binds(granted[t])
    BY <1>2, LeasesUntouched DEF EnterDirLock
  <2>2. \A q \in Procs : ~Inside(q)
    BY <1>2, NoneAssumption DEF EnterDirLock, LockInv
  <2>3. LockInv'
    BY <1>2, <2>2 DEF EnterDirLock, LockInv, Inside, TypeInv, TypeOK
  <2>4. PICK r \in Request :
          /\ req' = [req EXCEPT ![p] = r]
          /\ pc' = [pc EXCEPT ![p] = FirstStep[r.kind]]
          /\ todo' = [todo EXCEPT ![p] = IF r.kind = "release" THEN {} ELSE Files]
    BY <1>2 DEF EnterDirLock
  <2>5. /\ \A q \in Procs \ {p} : pc'[q] = pc[q] /\ todo'[q] = todo[q] /\ req'[q] = req[q]
        /\ pc'[p] \in {"scan", "drop", "sweep"}
        /\ pc'[p] = "scan" => todo'[p] = Files
        /\ todo'[p] \subseteq Files
        /\ UNCHANGED <<clash, until, clock, granted>>
    <3>1. r.kind \in {"acquire", "release", "recover"}
      BY RequestKinds
    <3>. QED
      BY <1>2, <2>4, <3>1 DEF EnterDirLock, FirstStep, TypeInv, TypeOK
  <2>6. LoopInv'
    BY <2>1, <2>2, <2>5 DEF LoopInv, Inside
  <2>7. ScanInv'
    BY <2>1, <2>2, <2>5 DEF ScanInv, Inside, Rival, FileInv
  <2>. QED
    BY <2>1, <2>3, <2>6, <2>7
<1>3. ASSUME NEW p \in Procs, ScanFile(p) PROVE LeaseInv'
  <2>1. FileInv' /\ ExclusiveScopes' /\ Files' = Files
        /\ \A t \in Tasks : Binds(granted[t])' = Binds(granted[t])
    BY <1>3, LeasesUntouched DEF ScanFile
  <2>2. LockInv'
    BY <1>3 DEF ScanFile, LockInv, Inside
  <2>3. PICK t \in todo[p] :
          /\ todo' = [todo EXCEPT ![p] = @ \ {t}]
          /\ clash' = [clash EXCEPT ![p] = @ \/ Conflicts(req[p], t, file[t])]
    BY <1>3 DEF ScanFile
  <2>4. LoopInv'
    BY <1>3, <2>1, <2>3 DEF ScanFile, LoopInv, TypeInv, TypeOK
  <2>5. t \in Files /\ t \in Tasks /\ req[p].kind = "acquire" /\ req[p] \in Request
    BY <1>3 DEF ScanFile, LoopInv, TypeInv, TypeOK, RequestInv
  <2>6. ASSUME Rival(p, t) PROVE Conflicts(req[p], t, file[t])
    <3>1. Reflects(file[t], granted[t]) /\ Binds(granted[t])
      BY <2>5, <2>6 DEF FileInv, Rival
    <3>2. CASE Unknown(file[t])
      BY <2>5, <3>1, <3>2, UnknownIsFresh, RequestKinds DEF Conflicts
    <3>3. CASE ~Unknown(file[t])
      <4>1. Active(file[t])
        BY <2>5, <3>1, KnownIsActive
      <4>. QED
        BY <2>6, <3>1, <3>3, <4>1 DEF Conflicts, Rival, Reflects
    <3>. QED
      BY <3>2, <3>3
  <2>7. ScanInv'
    <3>1. \A q \in Procs, u \in Tasks : Rival(q, u)' = Rival(q, u)
      BY <1>3, <2>1 DEF ScanFile, Rival
    <3>2. \A q \in Procs \ {p} : clash'[q] = clash[q] /\ todo'[q] = todo[q]
      BY <2>3 DEF TypeInv, TypeOK
    <3>3. /\ clash'[p] = (clash[p] \/ Conflicts(req[p], t, file[t]))
          /\ todo'[p] = todo[p] \ {t}
      BY <2>3 DEF TypeInv, TypeOK
    <3>. QED
      BY <1>3, <2>6, <3>1, <3>2, <3>3 DEF ScanInv, ScanFile
  <2>. QED
    BY <2>1, <2>2, <2>4, <2>7
<1>4. ASSUME NEW p \in Procs, Refuse(p) \/ SweepDone(p) \/ WriteFailed(p)
      PROVE  LeaseInv'
  BY <1>4, LeaseLeave DEF Refuse, SweepDone, WriteFailed, Inside
<1>5. ASSUME NEW p \in Procs, Stamp(p) PROVE LeaseInv'
  <2>1. FileInv' /\ ExclusiveScopes' /\ Files' = Files
        /\ \A t \in Tasks : Binds(granted[t])' = Binds(granted[t])
    BY <1>5, LeasesUntouched DEF Stamp
  <2>2. LockInv' /\ ScanInv'
    BY <1>5, <2>1 DEF Stamp, LockInv, ScanInv, Inside, Rival, TypeInv, TypeOK
  <2>3. req[p].ttl \in Nat /\ clock \in Nat
    BY <1>5, RequestKinds, TtlsAssumption DEF Stamp, RequestInv, TypeInv, TypeOK
  <2>4. LoopInv'
    BY <1>5, <2>1, <2>3 DEF Stamp, LoopInv, TypeInv, TypeOK
  <2>. QED
    BY <2>1, <2>2, <2>4
<1>6. ASSUME NEW p \in Procs, WriteLeaseRecord(p) PROVE LeaseInv'
  <2>0. PICK t \in Tasks : t = req[p].task
    BY <1>6, RequestKinds DEF WriteLeaseRecord, RequestInv, TypeInv
  <2> DEFINE S == req[p].scopes
             l == [scopes |-> S, expires |-> until[p], mtime |-> clock, harm |-> {}]
             g == [scopes |-> S, since |-> until[p] - req[p].ttl,
                   expires |-> until[p], harm |-> {}]
  <2>1. /\ S \in ScopeSets /\ req[p].ttl \in Ttls /\ req[p].ttl \in Nat
        /\ req[p].ttl <= until[p] /\ until[p] - req[p].ttl <= clock
    BY <1>6, RequestKinds, TtlsAssumption DEF WriteLeaseRecord, RequestInv, LoopInv, TypeInv
  <2>2. /\ \A u \in Tasks \ {t} : file'[u] = file[u] /\ granted'[u] = granted[u]
        /\ file'[t] = l /\ granted'[t] = g
        /\ Leave(p, "exit") /\ UNCHANGED <<clock, holder>> /\ pc[p] = "write"
    BY <1>6, <2>0, <2>1 DEF WriteLeaseRecord, TypeInv, TypeOK
  <2>3. t \in Files'
    <3>1. clock \in Nat /\ until[p] \in Nat
      BY DEF TypeInv, TypeOK
    <3>2. l \in Lease
      BY <2>1, <3>1 DEF Lease
    <3>. QED
      BY <2>1, <2>2, <3>2, NoneAssumption
  <2>4. \A q \in Procs : Inside(q) => q = p
    BY <2>2 DEF LockInv, Inside
  <2>5. LockInv' /\ LoopInv' /\ ScanInv'
    BY <2>2, <2>4 DEF Leave, LockInv, LoopInv, ScanInv, Inside, TypeInv, TypeOK
  <2>6. \A u \in Tasks \ {t} : Binds(granted[u])' = Binds(granted[u])
    BY <2>2 DEF Binds, Unknown
  <2>7. FileInv'
    <3>1. Reflects(file[t], granted[t])'
      BY <2>1, <2>2 DEF Reflects, TypeInv, TypeOK
    <3>2. ASSUME NEW u \in Tasks \ {t}
          PROVE  /\ Binds(granted[u])' => u \in Files'
                 /\ u \in Files' => Reflects(file[u], granted[u])'
      BY <2>2, <2>6 DEF FileInv, Reflects
    <3>. QED
      BY <2>3, <3>1, <3>2 DEF FileInv
  <2>8. ExclusiveScopes'
    <3>1. \A u \in Tasks : ~Rival(p, u)
      BY <2>2 DEF ScanInv, LoopInv
    <3>2. ASSUME NEW u \in Tasks \ {t}, Binds(granted[u])'
          PROVE  ~Overlap(S, granted[u].scopes) /\ ~Overlap(granted[u].scopes, S)
      BY <2>0, <2>6, <3>1, <3>2, OverlapSymmetric DEF Rival
    <3>3. granted'[t].scopes = S
      BY <2>2
    <3>. QED
      BY <2>1, <2>2, <2>6, <3>2, <3>3 DEF ExclusiveScopes
  <2>. QED
    BY <2>5, <2>7, <2>8
<1>7. ASSUME NEW p \in Procs, DropLease(p) PROVE LeaseInv'
  <2>1. Leave(p, "exit") /\ UNCHANGED <<clock, holder>> /\ pc[p] = "drop"
    BY <1>7 DEF DropLease
  <2>2. CASE UNCHANGED <<file, granted>>
    BY <2>1, <2>2, LeaseLeave DEF Inside
  <2>3. CASE ~UNCHANGED <<file, granted>>
    <3>1. PICK t \in Tasks :
            /\ file' = [file EXCEPT ![t] = NoLease]
            /\ granted' = [granted EXCEPT ![t] = NoLease]
      BY <1>7, <2>3 DEF DropLease
    <3>2. \A q \in Procs : Inside(q) => q = p
      BY <2>1 DEF LockInv, Inside
    <3>3. LockInv' /\ LoopInv' /\ ScanInv'
      BY <2>1, <3>2 DEF Leave, LockInv, LoopInv, ScanInv, Inside, TypeInv, TypeOK
    <3>4. /\ file'[t] = NoLease /\ granted'[t] = NoLease
          /\ \A u \in Tasks \ {t} : file'[u] = file[u] /\ granted'[u] = granted[u]
      BY <3>1 DEF TypeInv, TypeOK
    <3>5. /\ ~Binds(granted[t])' /\ t \notin Files'
          /\ \A u \in Tasks \ {t} : Binds(granted[u])' = Binds(granted[u])
      BY <2>1, <3>4 DEF Binds, Unknown
    <3>6. FileInv' /\ ExclusiveScopes'
      BY <2>1, <3>4, <3>5 DEF FileInv, ExclusiveScopes, Reflects
    <3>. QED
      BY <3>3, <3>6
  <2>. QED
    BY <2>2, <2>3
<1>8. ASSUME NEW p \in Procs, SweepFile(p) PROVE LeaseInv'
  <2>1. PICK t \in todo[p] :
          /\ todo' = [todo EXCEPT ![p] = @ \ {t}]
          /\ \/ /\ Recoverable(file[t], req[p].ttl)
                /\ file' = [file EXCEPT ![t] = NoLease]
             \/ UNCHANGED file
    BY <1>8 DEF SweepFile
  <2>2. /\ pc[p] = "sweep" /\ UNCHANGED <<clock, granted, holder, pc, req, clash, until>>
        /\ t \in Tasks /\ t \in Files
    BY <1>8 DEF SweepFile, LoopInv, TypeInv, TypeOK
  <2>3. \A q \in Procs : Inside(q) => q = p
    BY <2>2 DEF LockInv, Inside
  <2>4. LockInv' /\ LoopInv' /\ ScanInv'
    BY <2>1, <2>2, <2>3 DEF LockInv, LoopInv, ScanInv, Inside, TypeInv, TypeOK
  <2>5. \A u \in Tasks : Binds(granted[u])' = Binds(granted[u])
    BY <2>2 DEF Binds, Unknown
  <2>6. ExclusiveScopes'
    BY <2>2, <2>5 DEF ExclusiveScopes
  <2>7. ASSUME Binds(granted[t]) PROVE ~Recoverable(file[t], req[p].ttl)
    <3>1. Reflects(file[t], granted[t])
      BY <2>2 DEF FileInv
    <3>2. req[p].ttl \in Ttls
      BY <2>2, RequestKinds DEF RequestInv, TypeInv
    <3>3. Active(file[t])
      BY <2>2, <2>7, <3>1, KnownIsActive
    <3>4. ~Readable(file[t]) => Fresh(file[t], req[p].ttl)
      BY <2>2, <2>7, <3>1, <3>2, UnknownIsFresh DEF Readable, Unknown
    <3>. QED
      BY <3>3, <3>4 DEF Recoverable
  <2>8. FileInv'
    BY <2>1, <2>2, <2>5, <2>7 DEF FileInv, Reflects, TypeInv, TypeOK
  <2>. QED
    BY <2>4, <2>6, <2>8
<1>9. ASSUME NEW t \in Tasks, Corrupt(t) \/ Mend(t) PROVE LeaseInv'
  <2>1. /\ t \in Files /\ file[t] \in Lease /\ granted[t] \in Grant
        /\ file'[t] \in Lease /\ granted'[t] \in Grant
        /\ \A u \in Tasks \ {t} : file'[u] = file[u] /\ granted'[u] = granted[u]
        /\ UNCHANGED <<clock, holder, pc, req, todo, clash, until>>
    BY <1>9, HarmStep DEF TypeInv
  <2>2. /\ file'[t].expires = file[t].expires /\ file'[t].scopes = file[t].scopes
        /\ file'[t].mtime \in {file[t].mtime, clock}
        /\ granted'[t].expires = granted[t].expires
        /\ granted'[t].scopes = granted[t].scopes /\ granted'[t].since = granted[t].since
        /\ granted[t].harm \subseteq granted'[t].harm
        /\ file[t].harm \subseteq granted[t].harm => file'[t].harm \subseteq granted'[t].harm
    BY <1>9, HarmStep DEF TypeInv
  <2>3. granted[t] # NoLease /\ granted'[t] # NoLease /\ file'[t] # NoLease
    BY <2>1, NoneAssumption
  <2>4. Files' = Files
    BY <2>1, <2>3
  <2>5. \A u \in Tasks : Binds(granted[u])' => Binds(granted[u])
    <3>1. Binds(granted[t])' => Binds(granted[t])
      BY <2>1, <2>2, <2>3, BindsLapses DEF TypeInv, TypeOK
    <3>2. \A u \in Tasks \ {t} : Binds(granted[u])' = Binds(granted[u])
      BY <2>1 DEF Binds, Unknown
    <3>. QED
      BY <3>1, <3>2
  <2>6. \A u \in Tasks : granted'[u].scopes = granted[u].scopes
    BY <2>1, <2>2
  <2>7. ScanInv' /\ ExclusiveScopes'
    BY <2>1, <2>5, <2>6 DEF ScanInv, ExclusiveScopes, Rival
  <2>8. LockInv' /\ LoopInv'
    BY <2>1, <2>4 DEF LockInv, LoopInv, Inside
  <2>9. FileInv'
    <3>1. Reflects(file[t], granted[t])
      BY <2>1 DEF FileInv
    <3>2. clock \in Nat /\ file[t].mtime \in Nat /\ granted[t].since \in Nat
      BY <2>1 DEF TypeInv, TypeOK, Lease, Grant
    <3>3. Reflects(file[t], granted[t])'
      BY <2>1, <2>2, <3>1, <3>2 DEF Reflects
    <3>4. \A u \in Tasks \ {t} : u \in Files => Reflects(file[u], granted[u])'
      BY <2>1 DEF FileInv, Reflects
    <3>. QED
      BY <2>4, <2>5, <3>3, <3>4 DEF FileInv
  <2>. QED
    BY <2>7, <2>8, <2>9
<1>10. ASSUME Tick PROVE LeaseInv'
  <2>1. clock \in Nat /\ clock' = clock + 1
        /\ UNCHANGED <<file, granted, holder, pc, req, todo, clash, until>>
    BY <1>10 DEF Tick, TypeInv, TypeOK
  <2>2. \A t \in Tasks : Binds(granted[t])' => Binds(granted[t])
    <3>1. \A t \in Tasks : Binds(granted[t])' => granted[t] # NoLease
      BY <2>1 DEF Binds
    <3>2. clock <= clock'
      BY <2>1
    <3>. QED
      BY <2>1, <3>1, <3>2, BindsLapses
  <2>3. LockInv'
    BY <2>1 DEF LockInv, Inside
  <2>4. LoopInv'
    <3>1. ASSUME NEW p \in Procs, pc[p] = "write" PROVE until[p] - req[p].ttl <= clock'
      <4>1. req[p].ttl \in Nat /\ until[p] \in Nat
        BY <3>1, RequestKinds, TtlsAssumption DEF RequestInv, TypeInv, TypeOK
      <4>2. until[p] - req[p].ttl <= clock
        BY <3>1 DEF LoopInv
      <4>. QED
        BY <2>1, <4>1, <4>2
    <3>. QED
      BY <2>1, <3>1 DEF LoopInv
  <2>5. ScanInv' /\ ExclusiveScopes'
    BY <2>1, <2>2 DEF ScanInv, ExclusiveScopes, Rival
  <2>6. FileInv'
    <3>1. ASSUME NEW t \in Files PROVE Reflects(file[t], granted[t])'
      <4>1. file[t].mtime \in Nat /\ file[t].mtime <= clock
        BY DEF FileInv, TypeInv, TypeOK, Lease, Reflects
      <4>. QED
        BY <2>1, <4>1 DEF FileInv, Reflects
    <3>. QED
      BY <2>1, <2>2, <3>1 DEF FileInv
  <2>. QED
    BY <2>3, <2>4, <2>5, <2>6
<1>11. ASSUME UNCHANGED vars PROVE LeaseInv'
  <2>1. FileInv' /\ ExclusiveScopes' /\ Files' = Files
        /\ \A t \in Tasks : Binds(granted[t])' = Binds(granted[t])
    BY <1>11, LeasesUntouched DEF vars
  <2>. QED
    BY <1>11, <2>1 DEF vars, LockInv, LoopInv, ScanInv, Inside, Rival
<1>12. ASSUME NEW p \in Procs, LockTimeout(p) \/ ExitDirLock(p) \/ Crash(p)
       PROVE  LeaseInv'
  <2>1. Leave(p, "idle") /\ UNCHANGED <<clock, file, granted>>
    BY <1>12 DEF LockTimeout, ExitDirLock, Crash
  <2>2. holder' = holder \/ (holder = p /\ holder' = NoProc)
    BY <1>12 DEF LockTimeout, ExitDirLock, Crash, LockInv, Inside
  <2>. QED
    BY <2>1, <2>2, LeaseLeave
<1>. QED
  BY <1>1, <1>2, <1>3, <1>4, <1>5, <1>6, <1>7, <1>8, <1>9, <1>10, <1>11, <1>12
  DEF Next, Advance

\* Leases over overlapping paths never bind together, and a binding lease
\* keeps its file with what was granted, whatever the files suffer and
\* whichever durations the callers name.
THEOREM LeasesExclude == Spec => [](ExclusiveScopes /\ LiveLeaseKept)
<1>1. Init => LeaseInv
  BY LeaseInit
<1>2. LeaseInv /\ [Next]_vars => LeaseInv'
  BY LeaseStep, TypeStep DEF LeaseInv
<1>3. LeaseInv => ExclusiveScopes /\ LiveLeaseKept
  BY DEF LeaseInv, FileInv, Reflects, LiveLeaseKept
<1>. QED
  BY <1>1, <1>2, <1>3, PTL DEF Spec

\* Of these, what recovery is about: no sweep and no operation of another task
\* takes the file of a binding lease away or changes what it grants.
THEOREM LiveLeasesAreKept == Spec => []LiveLeaseKept
<1>1. Spec => [](ExclusiveScopes /\ LiveLeaseKept)
  BY LeasesExclude
<1>2. ExclusiveScopes /\ LiveLeaseKept => LiveLeaseKept
  OBVIOUS
<1>. QED
  BY <1>1, <1>2, PTL
=============================================================================
