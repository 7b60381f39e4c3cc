---------------------------- MODULE McpTransport ----------------------------
(***************************************************************************)
(* runMcpGuarded of the enforcement plugin: calls to MCP servers, each     *)
(* with a deadline, and one circuit per server, class and planner turn.    *)
(* All calls run in one event loop: a call is admitted and started in one  *)
(* turn of the loop and its end is recorded in another, and other calls    *)
(* come between.  An enforced call may be refused or abandoned; a shadow   *)
(* call is only watched.                                                   *)
(***************************************************************************)
EXTENDS Naturals, Sequences, FiniteSets

CONSTANTS Call,         \* the calls that are made
          Circuit,      \* the circuits: server, class, turn
          CircuitOf,    \* the circuit of a call
          Budget,       \* how long a call may take
          Shadow,       \* the calls that are only watched
          Uncontracted, \* long-running calls without a valid contract
          Threshold,    \* failures in a row that open a circuit
          Cooldown,     \* how long an open circuit refuses calls
          Capacity,     \* how many circuits are remembered
          MaxTime,      \* bound on the clock
          NoEntry

ASSUME CallAssumption ==
  /\ CircuitOf \in [Call -> Circuit]
  /\ Budget \in [Call -> Nat \ {0}]
  /\ Shadow \subseteq Call /\ Uncontracted \subseteq Call
  /\ IsFiniteSet(Call)

ASSUME PolicyAssumption ==
  /\ Threshold \in Nat \ {0} /\ Cooldown \in Nat /\ Capacity \in Nat \ {0}
  /\ MaxTime \in Nat

VARIABLES now,
          circuit,   \* what is remembered of each circuit
          age,       \* the remembered circuits, oldest first
          call       \* of each call: its stage, since when, and how it ended

vars == <<now, circuit, age, call>>

Entry == [consecutive : Nat, open : BOOLEAN, openedAt : Nat, probe : BOOLEAN]

ASSUME NoEntryAssumption == NoEntry \notin Entry

Failures == {"failed", "overrun"}
Refusals == {"open", "contract", "aborted"}
Outcomes == {"none", "value"} \cup Failures \cup Refusals

CallState == [stage : {"idle", "running", "done"}, probe : BOOLEAN,
              since : Nat, outcome : Outcomes]

TypeOK ==
  /\ now \in 0..MaxTime
  /\ circuit \in [Circuit -> Entry \cup {NoEntry}]
  /\ age \in Seq(Circuit) /\ Len(age) <= Capacity
  /\ call \in [Call -> CallState]

Init ==
  /\ now = 0
  /\ circuit = [k \in Circuit |-> NoEntry]
  /\ age = << >>
  /\ call = [c \in Call |-> [stage |-> "idle", probe |-> FALSE, since |-> 0,
                             outcome |-> "none"]]

-----------------------------------------------------------------------------
(* The circuits.                                                           *)

Known(k) == circuit[k] # NoEntry
IsOpen(k) == Known(k) /\ circuit[k].open
Cooling(k) == now < circuit[k].openedAt + Cooldown
Refusing(k) == IsOpen(k) /\ (Cooling(k) \/ circuit[k].probe)

\* Fault: no circuit is forgotten.
WriteGrowing(k, e) ==
  /\ circuit' = [circuit EXCEPT ![k] = e]
  /\ age' = IF Known(k) THEN age ELSE Append(age, k)

\* Writing an entry: the oldest circuit makes room for a new one, and a
\* circuit that is written again does not get younger.
Write(k, e) ==
  IF Known(k) \/ Len(age) < Capacity
  THEN /\ circuit' = [circuit EXCEPT ![k] = e]
       /\ age' = IF Known(k) THEN age ELSE Append(age, k)
  ELSE /\ circuit' = [circuit EXCEPT ![Head(age)] = NoEntry, ![k] = e]
       /\ age' = Append(Tail(age), k)

Unwritten == UNCHANGED <<circuit, age>>

Closed == [consecutive |-> 0, open |-> FALSE, openedAt |-> 0, probe |-> FALSE]

\* Fault: the probe is sent and not reserved.
ReservedNot(e) == e

Reserved(e) == [e EXCEPT !.probe = TRUE]

\* Fault: the reservation of a probe that is given up stays.
ReleasedNot(e) == e

Released(e) == IF e.open THEN [e EXCEPT !.probe = FALSE] ELSE e

\* Fault: the cooldown counts from the first opening.
FailedOnce(k) ==
  LET e == IF Known(k) THEN circuit[k] ELSE Closed
      n == e.consecutive + 1
  IN  [consecutive |-> n, open |-> e.open \/ n >= Threshold,
       openedAt |-> IF n >= Threshold /\ ~e.open THEN now ELSE e.openedAt,
       probe |-> FALSE]

\* One failure more; the cooldown counts from the last one.
Failed(k) ==
  LET e == IF Known(k) THEN circuit[k] ELSE Closed
      n == e.consecutive + 1
  IN  [consecutive |-> n, open |-> e.open \/ n >= Threshold,
       openedAt |-> IF n >= Threshold THEN now ELSE e.openedAt,
       probe |-> FALSE]

RecordSuccess(k) == Write(k, Closed)
RecordFailure(k) == Write(k, Failed(k))

\* A probe that ends without an answer of the server gives its place back.
ReleaseProbe(k) == IF Known(k) THEN Write(k, Released(circuit[k])) ELSE Unwritten

-----------------------------------------------------------------------------
(* The calls.                                                              *)

Running(c) == call[c].stage = "running"
Enforced(c) == c \notin Shadow
Overdue(c) == now > call[c].since + Budget[c]

Begin(c, probe) ==
  call' = [call EXCEPT ![c] = [stage |-> "running", probe |-> probe,
                              since |-> now, outcome |-> "none"]]

End(c, outcome) ==
  call' = [call EXCEPT ![c] = [stage |-> "done", probe |-> FALSE,
                              since |-> now, outcome |-> outcome]]

Arrives(c) == call[c].stage = "idle" /\ UNCHANGED now

\* A long-running call needs a contract that says how long it may take.
RefuseContract(c) ==
  /\ Arrives(c) /\ Enforced(c) /\ c \in Uncontracted
  /\ End(c, "contract") /\ Unwritten

MayEnter(c) == Arrives(c) /\ Enforced(c) /\ c \notin Uncontracted

RefuseOpen(c) ==
  /\ MayEnter(c) /\ Refusing(CircuitOf[c])
  /\ End(c, "open") /\ Unwritten

Admit(c) ==
  /\ MayEnter(c) /\ ~IsOpen(CircuitOf[c])
  /\ Begin(c, FALSE) /\ Unwritten

\* After the cooldown one call is let through to try the server.
AdmitProbe(c) ==
  LET k == CircuitOf[c] IN
  /\ MayEnter(c) /\ IsOpen(k) /\ ~Refusing(k)
  /\ Begin(c, TRUE)
  /\ Write(k, Reserved(circuit[k]))

\* The caller had given up before the call was admitted: nothing is sent,
\* and a probe that was reserved is released.
RefuseAborted(c) ==
  LET k == CircuitOf[c] IN
  /\ MayEnter(c) /\ ~Refusing(k)
  /\ End(c, "aborted")
  /\ IF IsOpen(k) THEN Write(k, Released(Reserved(circuit[k]))) ELSE Unwritten

\* A shadow call is started whatever its circuit says.
AdmitShadow(c) ==
  /\ Arrives(c) /\ ~Enforced(c)
  /\ Begin(c, FALSE) /\ Unwritten

Concludes(c) == Running(c) /\ UNCHANGED now

\* The server answers, in time or, to a shadow call, at any time.
Succeed(c) ==
  /\ Concludes(c)
  /\ c \in Uncontracted \/ ~Overdue(c)
  /\ End(c, "value") /\ RecordSuccess(CircuitOf[c])

ServerError(c) ==
  /\ Concludes(c)
  /\ End(c, "failed") /\ RecordFailure(CircuitOf[c])

\* The deadline of an enforced call fires.
Timeout(c) ==
  /\ Concludes(c) /\ Enforced(c)
  /\ now >= call[c].since + Budget[c]
  /\ End(c, "failed") /\ RecordFailure(CircuitOf[c])

\* The answer to a shadow call comes too late: it is passed on, and counted
\* as a failure.
Overrun(c) ==
  /\ Concludes(c) /\ ~Enforced(c)
  /\ c \notin Uncontracted /\ Overdue(c)
  /\ End(c, "overrun") /\ RecordFailure(CircuitOf[c])

\* Fault: an abort is counted as a failure of the server.
GivenUpAsFailure(c) == RecordFailure(CircuitOf[c])

GivenUp(c) == IF call[c].probe THEN ReleaseProbe(CircuitOf[c]) ELSE Unwritten

\* The caller gives the call up, or the envelope itself fails.
Abort(c) ==
  /\ Concludes(c) /\ Enforced(c)
  /\ End(c, "aborted") /\ GivenUp(c)

\* Deadlines fire on time.
Tick ==
  /\ now < MaxTime
  /\ \A c \in Call : Running(c) /\ Enforced(c) => now < call[c].since + Budget[c]
  /\ now' = now + 1
  /\ UNCHANGED <<circuit, age, call>>

Next ==
  \/ \E c \in Call :
        \/ RefuseContract(c) \/ RefuseOpen(c) \/ RefuseAborted(c)
        \/ Admit(c) \/ AdmitProbe(c) \/ AdmitShadow(c)
        \/ Succeed(c) \/ ServerError(c) \/ Timeout(c) \/ Overrun(c) \/ Abort(c)
  \/ Tick

Spec == Init /\ [][Next]_vars
-----------------------------------------------------------------------------
Rivals(c, d) == c # d /\ CircuitOf[c] = CircuitOf[d]

Probing(c) == Running(c) /\ call[c].probe

\* The enforced calls of the circuit are over before a cooldown is.
Steady(k) ==
  \A c \in Call : CircuitOf[c] = k /\ Enforced(c) => Budget[c] < Cooldown

(***************************************************************************)
(* A server that is down is tried by one call at a time: of the calls that *)
(* passed an open circuit at most one is under way, whatever calls from    *)
(* before the opening still end, whatever is only watched and whatever is  *)
(* forgotten, if no enforced call may take as long as the cooldown.        *)
(***************************************************************************)
OneProbe ==
  \A c, d \in Call :
     Rivals(c, d) /\ Steady(CircuitOf[c]) => ~(Probing(c) /\ Probing(d))

\* The same of every circuit, as the header of the source has it.
OneProbeAlways ==
  \A c, d \in Call : Rivals(c, d) => ~(Probing(c) /\ Probing(d))

(***************************************************************************)
(* A circuit is never blocked by a probe that is gone: while the place of  *)
(* the probe is taken, some probe of the circuit is under way.             *)
(***************************************************************************)
ReservationHeld ==
  \A k \in Circuit :
     Known(k) /\ circuit[k].probe =>
        \E c \in Call : CircuitOf[c] = k /\ Probing(c)

(***************************************************************************)
(* A call is refused for its circuit only after as many calls of that      *)
(* circuit failed as the policy asks for: calls that were given up, and    *)
(* calls of other circuits, never count.                                   *)
(***************************************************************************)
RefusalsEarned ==
  \A c \in Call : call[c].outcome = "open" =>
     Cardinality({d \in Call : Rivals(c, d) /\ call[d].outcome \in Failures})
        >= Threshold

(***************************************************************************)
(* A server that failed as often in a row as the policy asks for is left   *)
(* alone: no enforced call of the circuit begins before a cooldown has     *)
(* passed since the last of these failures ended, unless a call of the     *)
(* circuit succeeded since the first, or another circuit was written and   *)
(* may have pushed this one out.                                           *)
(***************************************************************************)
Recorded(c) == call[c].outcome \in Failures \cup {"value"}

\* What was recorded since the call a was.
Since(a) == {d \in Call : Recorded(d) /\ call[d].since >= call[a].since}

InARow(k, a) ==
  /\ Recorded(a)
  /\ \A d \in Since(a) : CircuitOf[d] = k /\ call[d].outcome \in Failures

FailedInARow(k) ==
  \E a \in Call :
     /\ InARow(k, a) /\ Cardinality(Since(a)) >= Threshold
     /\ \E b \in Since(a) : now < call[b].since + Cooldown

LeftAlone ==
  [][ \A c \in Call \ Shadow :
        ~Running(c) /\ Running(c)' => ~FailedInARow(CircuitOf[c]) ]_vars

=============================================================================
