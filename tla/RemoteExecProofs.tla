-------------------------- MODULE RemoteExecProofs --------------------------
(***************************************************************************)
(* Proofs about RemoteExec for any calls: types, that PASS and FAIL are    *)
(* earned, and that no client is left alone.                               *)
(***************************************************************************)
EXTENDS RemoteExec, TLAPS

(* What is known of a call besides its types.                              *)
Earned(c) ==
  /\ answer[c] = "PASS" => remote[c] = "zero"
  /\ answer[c] = "FAIL" /\ c \in Linux => remote[c] \in {"nonzero", "astray"}
  /\ answer[c] \in {"PASS", "FAIL"} => flags[c] = {} /\ client[c] = "gone"

Kept(c) ==
  /\ grace[c] => killed[c] /\ flags[c] # {}
  /\ client[c] = "up" => answer[c] # "none"
  /\ answer[c] \notin {"none", "open"} /\ client[c] = "up" => killed[c]

ExecInv == TypeOK /\ \A c \in Calls : Earned(c) /\ Kept(c)

-----------------------------------------------------------------------------

LEMMA StatusTypes ==
  ASSUME NEW c, NEW f, NEW close
  PROVE  Status(c, f, close) \in Statuses
BY DEF Status, LinuxStatus, DockerStatus, Statuses

\* A run that was stopped, or whose client broke, is never believed.
LEMMA Doubt ==
  ASSUME NEW c, NEW f, NEW close, f # {} \/ close.exit = "signal"
  PROVE  Status(c, f, close) = "UNKNOWN"
BY DEF Status, LinuxStatus, DockerStatus, Unreliable

\* A step of one call leaves the others alone.
LEMMA StepKeeps ==
  ASSUME ExecInv, TypeOK', NEW c \in Calls, Earned(c)', Kept(c)',
         \A d \in Calls \ {c} : /\ flags'[d] = flags[d] /\ client'[d] = client[d]
                                /\ killed'[d] = killed[d] /\ grace'[d] = grace[d]
                                /\ remote'[d] = remote[d] /\ answer'[d] = answer[d]
  PROVE  ExecInv'
BY DEF ExecInv, Earned, Kept

LEMMA InitExec == Init => ExecInv
BY DEF Init, ExecInv, TypeOK, Earned, Kept

-----------------------------------------------------------------------------
(* The steps of a call that do not end it.                                 *)

LEMMA OpenStepKeeps ==
  ASSUME ExecInv, NEW c \in Calls,
         Refuse(c) \/ Spawn(c) \/ StdinError(c) \/ Deliver(c) \/ RemoteEnd(c)
  PROVE  ExecInv'
<1>1. TypeOK /\ Earned(c) /\ Kept(c)
  BY DEF ExecInv
<1>2. CASE Refuse(c)
  <2>1. TypeOK'
    BY <1>1, <1>2 DEF TypeOK, Refuse, Answer, Statuses
  <2>. QED
    BY <1>1, <1>2, <2>1, StepKeeps DEF TypeOK, Earned, Kept, Refuse, Answer
<1>3. CASE Spawn(c)
  <2>1. TypeOK'
    BY <1>1, <1>3 DEF TypeOK, Spawn, Answer
  <2>. QED
    BY <1>1, <1>3, <2>1, StepKeeps DEF TypeOK, Earned, Kept, Spawn, Answer
<1>4. CASE StdinError(c)
  <2>1. TypeOK'
    BY <1>1, <1>4 DEF TypeOK, StdinError, Notice, Noticed, Kill
  <2>2. /\ killed'[c] /\ answer[c] = "open"
        /\ UNCHANGED <<client, grace, remote, answer>>
    BY <1>1, <1>4 DEF TypeOK, StdinError, Kill, Open
  <2>3. flags'[c] = flags[c] \/ "stdinError" \in flags'[c]
    BY <1>1, <1>4 DEF TypeOK, StdinError, Notice
  <2>4. Earned(c)' /\ Kept(c)'
    BY <1>1, <2>2, <2>3 DEF Earned, Kept
  <2>5. \A d \in Calls \ {c} : flags'[d] = flags[d] /\ killed'[d] = killed[d]
    BY <1>1, <1>4 DEF TypeOK, StdinError, Notice, Kill
  <2>. QED
    BY <2>1, <2>2, <2>4, <2>5, StepKeeps
<1>5. CASE Deliver(c)
  <2>1. TypeOK'
    BY <1>1, <1>5 DEF TypeOK, Deliver
  <2>. QED
    BY <1>1, <1>5, <2>1, StepKeeps DEF TypeOK, Earned, Kept, Deliver
<1>6. CASE RemoteEnd(c)
  <2>1. TypeOK'
    BY <1>1, <1>6 DEF TypeOK, RemoteEnd, Outcomes
  <2>. QED
    BY <1>1, <1>6, <2>1, StepKeeps DEF TypeOK, Earned, Kept, RemoteEnd, Outcomes
<1>. QED
  BY <1>2, <1>3, <1>4, <1>5, <1>6

LEMMA StopKeeps ==
  ASSUME ExecInv, NEW c \in Calls, NEW f \in Noticed, Stop(c, f)
  PROVE  ExecInv'
<1>1. TypeOK /\ Earned(c) /\ Kept(c)
  BY DEF ExecInv
<1>2. TypeOK'
  BY <1>1 DEF TypeOK, Stop, Notice, Kill
<1>. QED
  BY <1>1, <1>2, StepKeeps DEF TypeOK, Earned, Kept, Stop, Notice, Kill, Open

-----------------------------------------------------------------------------
(* The steps that end it.                                                  *)

LEMMA DoubtKeeps ==
  ASSUME ExecInv, NEW c \in Calls, SpawnError(c) \/ Grace(c)
  PROVE  ExecInv'
<1>1. TypeOK /\ Earned(c) /\ Kept(c)
  BY DEF ExecInv
<1>2. CASE SpawnError(c)
  <2>1. answer' = [answer EXCEPT ![c] = "UNKNOWN"]
    BY <1>2, Doubt DEF SpawnError, Finish, Answer, NoClose
  <2>2. TypeOK'
    BY <1>1, <1>2, <2>1 DEF TypeOK, SpawnError, Notice, Noticed, Statuses
  <2>. QED
    BY <1>1, <1>2, <2>1, <2>2, StepKeeps DEF TypeOK, Earned, Kept, SpawnError, Notice
<1>3. CASE Grace(c)
  <2>1. answer' = [answer EXCEPT ![c] = "UNKNOWN"]
    BY <1>3, Doubt DEF Grace, Finish, Answer, NoClose
  <2>2. TypeOK'
    BY <1>1, <1>3, <2>1 DEF TypeOK, Grace, Statuses
  <2>. QED
    BY <1>1, <1>3, <2>1, <2>2, StepKeeps DEF TypeOK, Earned, Kept, Grace
<1>. QED
  BY <1>2, <1>3

(* A close that, if it is believed, tells what the command came to.        *)
Honest(c, close) ==
  LET s == Status(c, flags[c], close)
  IN  /\ s = "PASS" => remote[c] = "zero"
      /\ s = "FAIL" /\ c \in Linux => remote[c] \in {"nonzero", "astray"}

LEMMA GoneKeeps ==
  ASSUME ExecInv, NEW c \in Calls, NEW close, Honest(c, close), Gone(c, close)
  PROVE  ExecInv'
<1>1. TypeOK /\ Earned(c) /\ Kept(c)
  BY DEF ExecInv
<1>2. client' = [client EXCEPT ![c] = "gone"] /\ UNCHANGED <<flags, killed, grace, remote>>
      /\ client[c] = "up"
  BY DEF Gone
<1>3. CASE Open(c)
  <2>. DEFINE s == Status(c, flags[c], close)
  <2>1. answer' = [answer EXCEPT ![c] = s]
    BY <1>3 DEF Gone, Finish, Answer
  <2>2. s \in Statuses
    BY StatusTypes
  <2>3. s # "UNKNOWN" => flags[c] = {}
    BY Doubt
  <2>4. /\ s = "PASS" => remote[c] = "zero"
        /\ s = "FAIL" /\ c \in Linux => remote[c] \in {"nonzero", "astray"}
    BY DEF Honest
  <2>. HIDE DEF s
  <2>5. TypeOK'
    BY <1>1, <1>2, <2>1, <2>2 DEF TypeOK
  <2>6. answer'[c] = s /\ client'[c] = "gone"
    BY <1>1, <1>2, <2>1 DEF TypeOK
  <2>7. Earned(c)' /\ Kept(c)'
    BY <1>1, <1>2, <2>2, <2>3, <2>4, <2>6 DEF Earned, Kept, Statuses
  <2>. QED
    BY <1>1, <1>2, <2>1, <2>5, <2>7, StepKeeps DEF TypeOK
<1>4. CASE ~Open(c)
  <2>1. answer' = answer
    BY <1>4 DEF Gone
  <2>2. TypeOK'
    BY <1>1, <1>2, <2>1 DEF TypeOK
  <2>3. Earned(c)' /\ Kept(c)'
    BY <1>1, <1>2, <2>1 DEF Earned, Kept, TypeOK
  <2>. QED
    BY <1>1, <1>2, <2>1, <2>2, <2>3, StepKeeps DEF TypeOK
<1>. QED
  BY <1>3, <1>4

LEMMA CloseKeeps ==
  ASSUME ExecInv, NEW c \in Calls,
         CloseOrderly(c) \/ CloseUnmarked(c) \/ CloseBroken(c)
  PROVE  ExecInv'
<1>1. ASSUME NEW close \in Reported(c), remote[c] \in Outcomes PROVE Honest(c, close)
  BY <1>1 DEF Reported, Honest, Status, LinuxStatus, DockerStatus, NoClose, Outcomes
<1>2. CASE CloseOrderly(c)
  BY <1>1, <1>2, GoneKeeps DEF CloseOrderly
<1>3. CASE CloseUnmarked(c)
  <2>. DEFINE close == [NoClose EXCEPT !.exit = "zero"]
  <2>1. Honest(c, close)
    BY <1>3 DEF CloseUnmarked, Honest, Status, LinuxStatus, NoClose
  <2>2. Gone(c, close)
    BY <1>3 DEF CloseUnmarked
  <2>. HIDE DEF close
  <2>. QED
    BY <2>1, <2>2, GoneKeeps
<1>4. CASE CloseBroken(c)
  <2>1. PICK close \in [exit : {"nonzero", "signal"},
                       marker : {"none"} \cup ({remote[c]} \cap Outcomes), broken : BOOLEAN] :
             Gone(c, close)
    BY <1>4 DEF CloseBroken
  <2>2. Honest(c, close)
    BY <2>1 DEF Honest, Status, LinuxStatus, DockerStatus
  <2>. QED
    BY <2>1, <2>2, GoneKeeps
<1>. QED
  BY <1>2, <1>3, <1>4

-----------------------------------------------------------------------------

THEOREM ExecHolds == Spec => []ExecInv
<1>1. ExecInv /\ [Next]_vars => ExecInv'
  <2>. SUFFICES ASSUME ExecInv, [Next]_vars PROVE ExecInv'
    OBVIOUS
  <2>1. CASE UNCHANGED vars
    BY <2>1 DEF vars, ExecInv, TypeOK, Earned, Kept
  <2>2. ASSUME NEW c \in Calls, Overflow(c) \/ Timer(c) \/ Abort(c) PROVE ExecInv'
    BY <2>2, StopKeeps DEF Overflow, Timer, Abort, Noticed
  <2>. QED
    BY <2>1, <2>2, OpenStepKeeps, DoubtKeeps, CloseKeeps DEF Next
<1>. QED
  BY InitExec, <1>1, PTL DEF Spec

(* The variables have their types: in particular a call that was answered  *)
(* has one of the three statuses, or the error of a request not valid.     *)
THEOREM ExecTypes == Spec => []TypeOK
<1>1. ExecInv => TypeOK
  BY DEF ExecInv
<1>. QED
  BY <1>1, ExecHolds, PTL

(* In whatever order the client's events, the timer, a cancellation and    *)
(* the end of the command come, PASS and FAIL are earned.                  *)
THEOREM AnswersAreEarned == Spec => []Truthful
<1>1. ExecInv => Truthful
  BY DEF ExecInv, Earned, Truthful
<1>. QED
  BY <1>1, ExecHolds, PTL

(* A call is never answered while its client runs on untold.               *)
THEOREM ClientsAreTold == Spec => []NoStray
<1>1. ExecInv => NoStray
  BY DEF ExecInv, Kept, NoStray
<1>. QED
  BY <1>1, ExecHolds, PTL
=============================================================================
