----------------------------- MODULE WriteLease -----------------------------
(***************************************************************************)
(* Write leases of the orchestration ownership library                     *)
(* (scripts/v3/lib/OrchestrationOwnership.ps1).                            *)
(*                                                                         *)
(* Every task has at most one lease file in a shared directory.  Separate  *)
(* PowerShell processes acquire, release and recover leases; each of these *)
(* operations works under one directory lock, an exclusive file handle     *)
(* that the operating system takes back when its process dies.  A lease    *)
(* names the path scopes the task may write and an expiry instant.         *)
(*                                                                         *)
(* A lease file may be damaged: it can no longer be read, or the record in *)
(* it has lost its task id, its expiry or its scopes (the field is missing *)
(* or is not of its type).  What the library makes of each is its own      *)
(* rule.  A record that somebody forges, with another date or another      *)
(* task's id, is not damage.                                               *)
(*                                                                         *)
(* A path is the sequence of its components, already in the normal form    *)
(* of Get-OwnershipNormalizedScope (trimmed, one separator, lower case):   *)
(* the case-insensitive comparison of the code is then equality.           *)
(***************************************************************************)
EXTENDS Integers, FiniteSets

CONSTANTS
  Tasks,        \* task ids, one lease file each
  Procs,        \* processes that call the library
  Scopes,       \* the write scopes callers may name for each task: sets of paths
  Ttls,         \* the lease durations callers may name
  MaxClock,     \* bound of the model: the last instant of the clock
  Corruption,   \* damage the environment may do to the file of each task
  NoProc,       \* "no process": the directory lock is free
  NoLease       \* "no lease file"

Damage == {"garbled", "nameless", "dateless", "scopeless"}

\* Every write scope that is named.
ScopeSets == UNION {Scopes[t] : t \in Tasks}

ASSUME TtlsAssumption == Ttls \subseteq Nat \ {0}
ASSUME BoundsAssumption == MaxClock \in Nat
ASSUME CorruptionAssumption == Corruption \in [Tasks -> SUBSET Damage]

-----------------------------------------------------------------------------
(* Scopes.                                                                 *)

\* x is y or an ancestor directory of y.
Covers(x, y) ==
  /\ DOMAIN x \subseteq DOMAIN y
  /\ \A i \in DOMAIN x : x[i] = y[i]

\* Some path of one set is equal to, above or below a path of the other.
Overlap(A, B) == \E x \in A, y \in B : Covers(x, y) \/ Covers(y, x)

-----------------------------------------------------------------------------
(* State.                                                                  *)

\* A lease file.  Its revision is left out: nothing reads it.
Lease == [scopes : ScopeSets, expires : Nat, mtime : Nat, harm : SUBSET Damage]

\* What a caller was told, and what its file has suffered since.
Grant == [scopes : ScopeSets, since : Nat, expires : Nat, harm : SUBSET Damage]

ASSUME NoneAssumption == NoProc \notin Procs /\ NoLease \notin Lease \cup Grant

Request ==
  {r \in [kind : {"acquire"}, task : Tasks, ttl : Ttls, scopes : ScopeSets] :
      r.scopes \in Scopes[r.task]}
    \cup [kind : {"release"}, task : Tasks]
    \cup [kind : {"recover"}, ttl : Ttls]

NoRequest == [kind |-> "none"]

Steps == {"idle", "lock", "scan", "write", "sweep", "drop", "exit"}

VARIABLES
  clock,    \* UTC now
  file,     \* the lease file of each task
  granted,  \* the last lease written for each task and not released since
  holder,   \* the process with the handle of .leases.lock
  pc,       \* where each process is in its operation
  req,      \* the operation each process executes
  todo,     \* lease files its loop has not read yet
  clash,    \* whether its scan has met a conflict
  until     \* the expiry it computed

vars == <<clock, file, granted, holder, pc, req, todo, clash, until>>

Files == {t \in Tasks : file[t] # NoLease}

Live(l) == l.expires > clock

\* Test-OwnershipLeaseActive: a record without a usable expiry is not active.
Active(l) == "dateless" \notin l.harm /\ Live(l)

\* A file that parses, whatever it lacks.
Readable(l) == "garbled" \notin l.harm

\* A file that does not say whose lease it is.
Unknown(l) == l.harm \cap {"garbled", "nameless"} # {}

\* Fault: a file that is as old as the TTL is stale.
FreshYoung(l, ttl) == clock - l.mtime < ttl

\* The age of a file against the TTL of the process that looks at it.
Fresh(l, ttl) == clock - l.mtime <= ttl

-----------------------------------------------------------------------------
Init ==
  /\ clock = 0
  /\ file = [t \in Tasks |-> NoLease]
  /\ granted = [t \in Tasks |-> NoLease]
  /\ holder = NoProc
  /\ pc = [p \in Procs |-> "idle"]
  /\ req = [p \in Procs |-> NoRequest]
  /\ todo = [p \in Procs |-> {}]
  /\ clash = [p \in Procs |-> FALSE]
  /\ until = [p \in Procs |-> 0]

\* The operation of p needs its arguments and its loop no more.
Leave(p, step) ==
  /\ pc' = [pc EXCEPT ![p] = step]
  /\ req' = [req EXCEPT ![p] = NoRequest]
  /\ todo' = [todo EXCEPT ![p] = {}]
  /\ clash' = [clash EXCEPT ![p] = FALSE]
  /\ until' = [until EXCEPT ![p] = 0]

\* A caller starts an operation and waits for the lock.
Call(p) ==
  /\ pc[p] = "idle"
  /\ pc' = [pc EXCEPT ![p] = "lock"]
  /\ UNCHANGED <<clock, file, granted, holder, req, todo, clash, until>>

FirstStep == [acquire |-> "scan", release |-> "drop", recover |-> "sweep"]

\* Enter-OwnershipDirLock succeeds; the operation begins its first loop.  What
\* was asked for matters from here on.
EnterDirLock(p) ==
  /\ pc[p] = "lock"
  /\ holder = NoProc
  /\ holder' = p
  /\ \E r \in Request :
       /\ req' = [req EXCEPT ![p] = r]
       /\ pc' = [pc EXCEPT ![p] = FirstStep[r.kind]]
       /\ todo' = [todo EXCEPT ![p] = IF r.kind = "release" THEN {} ELSE Files]
  /\ UNCHANGED <<clock, file, granted, clash, until>>

\* Fault: the attempts to lock are not bounded.
LockTimeoutNever(p) == pc[p] = "lock" /\ FALSE /\ UNCHANGED vars

\* Twenty attempts found the handle taken: LOCK_TIMEOUT.
LockTimeout(p) ==
  /\ pc[p] = "lock"
  /\ holder # NoProc
  /\ Leave(p, "idle")
  /\ UNCHANGED <<clock, file, granted, holder>>

\* What one lease file means to an acquirer: one that names no task conflicts
\* while it is fresh, one without scopes while it is active, and one without
\* an expiry never.
Conflicts(r, t, l) ==
  \/ Unknown(l) /\ Fresh(l, r.ttl)
  \/ /\ ~Unknown(l)
     /\ t # r.task
     /\ Active(l)
     /\ "scopeless" \in l.harm \/ Overlap(r.scopes, l.scopes)

\* One iteration of the conflict scan.
ScanFile(p) ==
  /\ pc[p] = "scan"
  /\ \E t \in todo[p] :
       /\ todo' = [todo EXCEPT ![p] = @ \ {t}]
       /\ clash' = [clash EXCEPT ![p] = @ \/ Conflicts(req[p], t, file[t])]
  /\ UNCHANGED <<clock, file, granted, holder, pc, req, until>>

\* LEASE_CONFLICT: nothing is written.
Refuse(p) ==
  /\ pc[p] = "scan" /\ todo[p] = {} /\ clash[p]
  /\ Leave(p, "exit")
  /\ UNCHANGED <<clock, file, granted, holder>>

\* The scan is clear: the expiry is computed from the instant read now.
Stamp(p) ==
  /\ pc[p] = "scan" /\ todo[p] = {} /\ ~clash[p]
  /\ until' = [until EXCEPT ![p] = clock + req[p].ttl]
  /\ pc' = [pc EXCEPT ![p] = "write"]
  /\ UNCHANGED <<clock, file, granted, holder, req, todo, clash>>

\* The temporary file replaces the lease file, if the task had one.
WriteLeaseRecord(p) ==
  /\ pc[p] = "write"
  /\ LET r == req[p] IN
       /\ file' = [file EXCEPT ![r.task] =
                     [scopes |-> r.scopes, expires |-> until[p], mtime |-> clock,
                      harm |-> {}]]
       /\ granted' = [granted EXCEPT ![r.task] =
                        [scopes |-> r.scopes, since |-> until[p] - r.ttl,
                         expires |-> until[p], harm |-> {}]]
  /\ Leave(p, "exit")
  /\ UNCHANGED <<clock, holder>>

\* WRITE_FAILED: a reader holds the destination, the old file stays.
WriteFailed(p) ==
  /\ pc[p] = "write"
  /\ Leave(p, "exit")
  /\ UNCHANGED <<clock, file, granted, holder>>

\* Release: a file that names the task is deleted; LEASE_NOT_FOUND, MALFORMED,
\* LEASE_OWNERSHIP_DENIED and RELEASE_FAILED leave the directory as it is.
DropLease(p) ==
  /\ pc[p] = "drop"
  /\ \/ /\ req[p].task \in Files
        /\ ~Unknown(file[req[p].task])
        /\ file' = [file EXCEPT ![req[p].task] = NoLease]
        /\ granted' = [granted EXCEPT ![req[p].task] = NoLease]
     \/ UNCHANGED <<file, granted>>
  /\ Leave(p, "exit")
  /\ UNCHANGED <<clock, holder>>

\* Fault: recovery deletes every file that does not parse.
RecoverableIfGarbled(l, ttl) == ~Readable(l) \/ ~Active(l)

\* Recovery may delete a garbled file past the caller's TTL and any
\* readable file that is not active: expired, or without an expiry.
Recoverable(l, ttl) == IF Readable(l) THEN ~Active(l) ELSE ~Fresh(l, ttl)

\* One iteration of the recovery loop; a deletion that fails is a warning.
SweepFile(p) ==
  /\ pc[p] = "sweep"
  /\ \E t \in todo[p] :
       /\ todo' = [todo EXCEPT ![p] = @ \ {t}]
       /\ \/ /\ Recoverable(file[t], req[p].ttl)
             /\ file' = [file EXCEPT ![t] = NoLease]
          \/ UNCHANGED file
  /\ UNCHANGED <<clock, granted, holder, pc, req, clash, until>>

SweepDone(p) ==
  /\ pc[p] = "sweep" /\ todo[p] = {}
  /\ Leave(p, "exit")
  /\ UNCHANGED <<clock, file, granted, holder>>

\* The finally block: the handle is closed and the caller gets its result.
ExitDirLock(p) ==
  /\ pc[p] = "exit"
  /\ holder' = NoProc
  /\ Leave(p, "idle")
  /\ UNCHANGED <<clock, file, granted>>

\* A process dies anywhere; the system closes the handle it held.
Crash(p) ==
  /\ pc[p] # "idle"
  /\ Leave(p, "idle")
  /\ holder' = IF holder = p THEN NoProc ELSE holder
  /\ UNCHANGED <<clock, file, granted>>

\* The environment damages a lease file.  A field is lost by a write; a file
\* may become unreadable without one.
Corrupt(t) ==
  /\ t \in Files
  /\ \E s \in Corruption[t], m \in {file[t].mtime, clock} :
       /\ s = "garbled" \/ m = clock
       /\ file' = [file EXCEPT ![t].harm = @ \cup {s}, ![t].mtime = m]
       /\ granted' = [granted EXCEPT ![t].harm = @ \cup {s}]
  /\ UNCHANGED <<clock, holder, pc, req, todo, clash, until>>

\* A file that could not be read, because another program had it open, can be
\* read again.
Mend(t) ==
  /\ t \in Files
  /\ ~Readable(file[t])
  /\ file' = [file EXCEPT ![t].harm = @ \ {"garbled"}]
  /\ UNCHANGED <<clock, granted, holder, pc, req, todo, clash, until>>

Tick ==
  /\ clock < MaxClock
  /\ clock' = clock + 1
  /\ UNCHANGED <<file, granted, holder, pc, req, todo, clash, until>>

\* What a process does by itself once it has been called.
Advance(p) ==
  \/ EnterDirLock(p) \/ LockTimeout(p)
  \/ ScanFile(p) \/ Refuse(p) \/ Stamp(p)
  \/ WriteLeaseRecord(p) \/ WriteFailed(p)
  \/ DropLease(p)
  \/ SweepFile(p) \/ SweepDone(p)
  \/ ExitDirLock(p)

Next ==
  \/ \E p \in Procs : Call(p) \/ Advance(p) \/ Crash(p)
  \/ \E t \in Tasks : Corrupt(t) \/ Mend(t)
  \/ Tick

Spec == Init /\ [][Next]_vars

\* The operating system schedules every process that has work to do.
FairSpec == Spec /\ \A p \in Procs : WF_vars(Advance(p))

-----------------------------------------------------------------------------
(* Properties.                                                             *)

TypeOK ==
  /\ clock \in Nat
  /\ file \in [Tasks -> Lease \cup {NoLease}]
  /\ granted \in [Tasks -> Grant \cup {NoLease}]
  /\ holder \in Procs \cup {NoProc}
  /\ pc \in [Procs -> Steps]
  /\ req \in [Procs -> Request \cup {NoRequest}]
  /\ todo \in [Procs -> SUBSET Tasks]
  /\ clash \in [Procs -> BOOLEAN]
  /\ until \in [Procs -> Nat]

(***************************************************************************)
(* What the holder of a lease can count on, whatever becomes of its file.  *)
(* A lease binds until it expires, with two exceptions.  If its file could *)
(* once not be told from a stranger's, it binds only for as long as every  *)
(* duration callers use: such a file is judged by its age.  If its file    *)
(* lost its expiry, it binds no more: Test-OwnershipLeaseActive calls the  *)
(* record inactive, although the library calls itself fail-closed.         *)
(***************************************************************************)
Binds(g) ==
  /\ g # NoLease /\ Live(g)
  /\ "dateless" \notin g.harm
  /\ Unknown(g) => \A d \in Ttls : clock <= g.since + d

(***************************************************************************)
(* No two tasks ever hold binding leases over overlapping paths, whatever  *)
(* the interleaving of scans, writes, recoveries, crashes, damage and the  *)
(* clock.  It is about what New-OrchestrationWriteLease granted, not only  *)
(* about the files: a lease whose file cannot be read, or has lost its     *)
(* task id or its scopes, still excludes the others.                       *)
(***************************************************************************)
ExclusiveScopes ==
  \A t, u \in Tasks :
    t # u /\ Binds(granted[t]) /\ Binds(granted[u])
      => ~Overlap(granted[t].scopes, granted[u].scopes)

(***************************************************************************)
(* A binding lease that its task did not release keeps its file, with the  *)
(* granted scopes and expiry unless the environment damaged it: neither    *)
(* recovery nor an operation on another task can take it away.             *)
(***************************************************************************)
LiveLeaseKept ==
  \A t \in Tasks :
    Binds(granted[t])
    => /\ t \in Files
       /\ file[t].harm = {} => /\ file[t].scopes = granted[t].scopes
                               /\ file[t].expires = granted[t].expires

\* The directory lock never starves a caller: every operation ends, with a
\* result or with LOCK_TIMEOUT, even if lock holders die.
OperationsEnd == \A p \in Procs : pc[p] # "idle" ~> pc[p] = "idle"
=============================================================================
