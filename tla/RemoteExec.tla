----------------------------- MODULE RemoteExec -----------------------------
(***************************************************************************)
(* Remote execution: a tool call starts a local client, ssh for a shell    *)
(* command and the Docker CLI for a Docker command, and reports what the   *)
(* command came to: PASS, FAIL or UNKNOWN.  The client's events (output,   *)
(* errors, close), the timer and the caller's cancellation arrive in any   *)
(* order; the first that finishes the run decides which flags are seen.    *)
(* The command runs on another machine and goes on when its client dies.   *)
(***************************************************************************)
CONSTANTS Calls,       \* calls of the tools
          Linux        \* those of the shell tool; the others are Docker commands

ASSUME RemoteAssumption == Linux \subseteq Calls

VARIABLES flags,       \* what the run has noticed
          client,      \* the local client process
          killed,      \* the client was told to die
          grace,       \* a stop waits 50 ms before it finishes the run
          remote,      \* the command on the other machine
          answer

vars == <<flags, client, killed, grace, remote, answer>>

Noticed == {"spawnError", "stdinError", "overflow", "timedOut", "cancelled"}

(* astray: the working directory cannot be entered.  expired: the remote   *)
(* time limit ended the command, or its own exit code says so.             *)
Outcomes == {"zero", "nonzero", "expired", "astray"}

Statuses == {"PASS", "FAIL", "UNKNOWN"}

TypeOK ==
  /\ flags \in [Calls -> SUBSET Noticed]
  /\ client \in [Calls -> {"none", "up", "unborn", "gone"}]
  /\ killed \in [Calls -> BOOLEAN] /\ grace \in [Calls -> BOOLEAN]
  /\ remote \in [Calls -> {"unsent", "running"} \cup Outcomes]
  /\ answer \in [Calls -> {"none", "open", "error"} \cup Statuses]

Init ==
  /\ flags = [c \in Calls |-> {}]
  /\ client = [c \in Calls |-> "none"]
  /\ killed = [c \in Calls |-> FALSE] /\ grace = [c \in Calls |-> FALSE]
  /\ remote = [c \in Calls |-> "unsent"]
  /\ answer = [c \in Calls |-> "none"]

Open(c) == answer[c] = "open"
Notice(c, f) == flags' = [flags EXCEPT ![c] = @ \cup {f}]

\* Fault: the client is not told to die.
KillNot(c) == UNCHANGED killed

Kill(c) == killed' = [killed EXCEPT ![c] = TRUE]

Answer(c, status) == answer' = [answer EXCEPT ![c] = status]

-----------------------------------------------------------------------------
(* What a run came to, from the flags and how the client closed.           *)

(* A closed client: its exit, the exit code its last line of errors        *)
(* carries, and whether its errors read like a broken connection.          *)
Closes == [exit : {"zero", "nonzero", "signal"},
           marker : Outcomes \cup {"none"}, broken : BOOLEAN]

NoClose == [exit |-> "signal", marker |-> "none", broken |-> FALSE]

Unreliable(f, close) == f # {} \/ close.exit = "signal"

LinuxStatus(f, close) ==
  IF Unreliable(f, close) \/ close.exit # "zero" THEN "UNKNOWN"
  ELSE CASE close.marker \in {"none", "expired"} -> "UNKNOWN"
         [] close.marker = "zero" -> "PASS"
         [] OTHER -> "FAIL"

\* Fault: what the client ended with is believed although it was stopped.
DockerStatusBlind(f, close) ==
  IF close.broken THEN "UNKNOWN"
  ELSE IF close.exit = "zero" THEN "PASS" ELSE "FAIL"

DockerStatus(f, close) ==
  IF Unreliable(f, close) \/ close.broken THEN "UNKNOWN"
  ELSE IF close.exit = "zero" THEN "PASS" ELSE "FAIL"

Status(c, f, close) ==
  IF c \in Linux THEN LinuxStatus(f, close) ELSE DockerStatus(f, close)

Finish(c, f, close) == Open(c) /\ Answer(c, Status(c, f, close))

-----------------------------------------------------------------------------
(* The call.                                                               *)

(* A request that is not valid throws; one cancelled before it began is    *)
(* not run.                                                                *)
Refuse(c) ==
  /\ answer[c] = "none"
  /\ Answer(c, "error") \/ Answer(c, "UNKNOWN")
  /\ UNCHANGED <<flags, client, killed, grace, remote>>

Spawn(c) ==
  /\ answer[c] = "none"
  /\ \/ client' = [client EXCEPT ![c] = "up"]
     \/ client' = [client EXCEPT ![c] = "unborn"]
  /\ Answer(c, "open")
  /\ UNCHANGED <<flags, killed, grace, remote>>

(* The client could not be started: an exception, or its `error' event.    *)
SpawnError(c) ==
  /\ client[c] = "unborn"
  /\ Notice(c, "spawnError")
  /\ Finish(c, flags[c] \cup {"spawnError"}, NoClose)
  /\ UNCHANGED <<client, killed, grace, remote>>

(* The pipe of the script breaks, or writing it throws: the close decides. *)
StdinError(c) ==
  /\ Open(c) /\ client[c] = "up"
  /\ \/ Notice(c, "stdinError")
     \/ c \in Linux /\ UNCHANGED flags
  /\ Kill(c)
  /\ UNCHANGED <<client, grace, remote, answer>>

\* Fault: a stopped run waits for its client to close.
StopPatient(c, f) ==
  /\ Open(c)
  /\ Notice(c, f)
  /\ Kill(c)
  /\ UNCHANGED <<client, grace, remote, answer>>

Stop(c, f) ==
  /\ Open(c)
  /\ Notice(c, f)
  /\ Kill(c)
  /\ grace' = [grace EXCEPT ![c] = TRUE]
  /\ UNCHANGED <<client, remote, answer>>

(* More output than the cap of a stream: the rest is dropped.              *)
Overflow(c) == client[c] = "up" /\ Stop(c, "overflow")

Timer(c) == Stop(c, "timedOut")
Abort(c) == Stop(c, "cancelled")

Grace(c) ==
  /\ grace[c]
  /\ Finish(c, flags[c], NoClose)
  /\ UNCHANGED <<flags, client, killed, grace, remote>>

(* The client is gone.  Its event counts while the run is open.            *)
Gone(c, close) ==
  /\ client[c] = "up"
  /\ client' = [client EXCEPT ![c] = "gone"]
  /\ IF Open(c) THEN Finish(c, flags[c], close) ELSE UNCHANGED answer
  /\ UNCHANGED <<flags, killed, grace, remote>>

(* The shell prints the marker after the command and ends with zero; the   *)
(* Docker CLI passes the exit code on.                                     *)
Reported(c) ==
  IF c \in Linux
  THEN {[NoClose EXCEPT !.exit = "zero", !.marker = remote[c]]}
  ELSE [exit : {IF remote[c] = "zero" THEN "zero" ELSE "nonzero"},
        marker : {"none"}, broken : BOOLEAN]

CloseOrderly(c) ==
  /\ remote[c] \in Outcomes
  /\ \E close \in Reported(c) : Gone(c, close)

(* The shell ends well and the marker is not its last word: only a part of *)
(* the script arrived, or a process of the command wrote after it.         *)
CloseUnmarked(c) ==
  /\ c \in Linux
  /\ Gone(c, [NoClose EXCEPT !.exit = "zero"])

(* The connection broke, the client failed, or it was killed.  The errors  *)
(* may carry the marker and may or may not read like a broken connection.  *)
CloseBroken(c) ==
  \E close \in [exit : {"nonzero", "signal"},
                marker : {"none"} \cup ({remote[c]} \cap Outcomes), broken : BOOLEAN] :
     Gone(c, close)

-----------------------------------------------------------------------------
(* The other machine.                                                      *)

Deliver(c) ==
  /\ client[c] = "up" /\ remote[c] = "unsent"
  /\ remote' = [remote EXCEPT ![c] = "running"]
  /\ UNCHANGED <<flags, client, killed, grace, answer>>

RemoteEnd(c) ==
  /\ remote[c] = "running"
  /\ \E o \in IF c \in Linux THEN Outcomes ELSE {"zero", "nonzero"} :
        remote' = [remote EXCEPT ![c] = o]
  /\ UNCHANGED <<flags, client, killed, grace, answer>>

Next ==
  \E c \in Calls :
     \/ Refuse(c) \/ Spawn(c) \/ SpawnError(c) \/ StdinError(c)
     \/ Overflow(c) \/ Timer(c) \/ Abort(c) \/ Grace(c)
     \/ CloseOrderly(c) \/ CloseUnmarked(c) \/ CloseBroken(c)
     \/ Deliver(c) \/ RemoteEnd(c)

Spec == Init /\ [][Next]_vars

(* Timers fire; nothing is assumed of a client, not even that its close is *)
(* seen when it is killed, nor of the other machine.                       *)
LiveSpec ==
  /\ Spec
  /\ \A c \in Calls : WF_vars(Timer(c)) /\ WF_vars(Grace(c)) /\ WF_vars(SpawnError(c))

-----------------------------------------------------------------------------
(* PASS is said only of a command that ended with zero and whose output    *)
(* was not cut, FAIL of a shell command only when it ended or its working  *)
(* directory could not be entered: never of one that may still run, and    *)
(* never because the client was stopped.                                   *)
Truthful ==
  \A c \in Calls :
     /\ answer[c] = "PASS" => remote[c] = "zero"
     /\ answer[c] = "FAIL" /\ c \in Linux => remote[c] \in {"nonzero", "astray"}
     /\ answer[c] \in {"PASS", "FAIL"} => flags[c] = {} /\ client[c] = "gone"

(* No client is left behind unasked: when a call is answered its client is *)
(* gone, was never there, or was told to die.                              *)
NoStray ==
  \A c \in Calls :
     answer[c] \notin {"none", "open"} /\ client[c] = "up" => killed[c]

(* Every call that was begun is answered, whatever becomes of its client.  *)
CallsEnd == \A c \in Calls : Open(c) ~> ~Open(c)
=============================================================================
