---------------------------- MODULE ClaimBridge ----------------------------
(***************************************************************************)
(* The isolated claim gate of the dispatch-admission plugin.  Before the   *)
(* host executes a tool call it runs the gate, which starts a child        *)
(* process for a `subagent' call.  The child reads the fixture's context   *)
(* file, consumes the durable receipt it names, projects the grants and    *)
(* answers on its standard output; the gate then abstains (the call goes   *)
(* through) or throws (the call is denied).  The gate also ends a run by   *)
(* itself: on a timer, on too much output, on errors of the pipes.  It     *)
(* then kills the child, which may have gone on in the meantime.           *)
(*                                                                         *)
(* A run is one invocation of the gate; the host may run it again for the  *)
(* same call.  The gate binds the dispatch it expects once, at setup, and  *)
(* the child reads the same file again whenever it is started.             *)
(***************************************************************************)
EXTENDS FiniteSets

CONSTANTS Runs,     \* invocations of the gate
          Keys,     \* prepared dispatches
          CallIds,  \* identities the host gives its tool calls
          CallOf,   \* the call each run is about
          Suits,    \* the dispatches whose session, agents and prompt the call has
          None

ASSUME BridgeAssumption ==
  /\ CallOf \in [Runs -> CallIds]
  /\ Suits \in [CallIds -> SUBSET Keys]
  /\ None \notin Keys \cup CallIds

VARIABLES receipt,  \* the durable receipt of each dispatch
          context,  \* the dispatch the context file names
          bound,    \* the dispatch the gate expects, None when no gate is installed
          verdict,  \* what the gate said in each run
          child     \* the child process of each run

vars == <<receipt, context, bound, verdict, child>>

(* Where a child is.  A starved child never gets its whole request.        *)
Alive == {"started", "starved", "read", "claimed"}
Places == Alive \cup {"none", "answered", "failed", "gone"}
Replies == {"none", "refused", "clear", "barred", "garbled"}
Verdicts == {"none", "open", "free", "denied", "through", "lost"}

Receipts == [phase : {"prepared", "claimed", "settled"}, call : CallIds \cup {None}]
Children == [at : Places, key : Keys \cup {None}, won : BOOLEAN, reply : Replies,
             killed : BOOLEAN]

NoChild == [at |-> "none", key |-> None, won |-> FALSE, reply |-> "none",
            killed |-> FALSE]

TypeOK ==
  /\ receipt \in [Keys -> Receipts]
  /\ context \in Keys
  /\ bound \in Keys \cup {None}
  /\ verdict \in [Runs -> Verdicts]
  /\ child \in [Runs -> Children]

(* The gate is installed at setup, or setup refuses and no hook exists.    *)
Init ==
  /\ receipt = [k \in Keys |-> [phase |-> "prepared", call |-> None]]
  /\ context \in Keys
  /\ bound \in {context, None}
  /\ verdict = [r \in Runs |-> "none"]
  /\ child = [r \in Runs |-> NoChild]

-----------------------------------------------------------------------------
(* The handler, up to the point where it waits for the bridge.             *)

Say(r, v) == verdict' = [verdict EXCEPT ![r] = v]

(* Another tool, or no hook at all.                                        *)
Abstain(r) ==
  /\ verdict[r] = "none"
  /\ Say(r, "free")
  /\ UNCHANGED <<receipt, context, bound, child>>

(* An unknown tool or shape, a request over the cap, a spawn that throws.  *)
Refuse(r) ==
  /\ verdict[r] = "none"
  /\ bound # None
  /\ Say(r, "denied")
  /\ UNCHANGED <<receipt, context, bound, child>>

(* The child is started and its request written.  A write that throws      *)
(* denies the call at once, and nobody kills the child.                    *)
Spawn(r) ==
  /\ verdict[r] = "none"
  /\ bound # None
  /\ \/ Say(r, "open") /\ child' = [child EXCEPT ![r].at = "started"]
     \/ Say(r, "denied") /\ child' = [child EXCEPT ![r].at = "starved"]
  /\ UNCHANGED <<receipt, context, bound>>

-----------------------------------------------------------------------------
(* The callbacks of the bridge: the first one decides the run.             *)

Deny(r) == verdict[r] = "open" /\ Say(r, "denied")

(* The child reports that it never started.                                *)
SpawnError(r) ==
  /\ Deny(r)
  /\ child[r].at = "started"
  /\ child' = [child EXCEPT ![r].at = "failed"]
  /\ UNCHANGED <<receipt, context, bound>>

(* The pipe breaks before the child has its request.                       *)
StdinError(r) ==
  /\ Deny(r)
  /\ child[r].at = "started"
  /\ child' = [child EXCEPT ![r].at = "starved", ![r].killed = TRUE]
  /\ UNCHANGED <<receipt, context, bound>>

(* More than the cap on standard output, or no close before the timer.     *)
Overflow(r) ==
  /\ Deny(r)
  /\ child[r].at \in {"started", "read", "claimed"}
  /\ child' = [child EXCEPT ![r].killed = TRUE]
  /\ UNCHANGED <<receipt, context, bound>>

\* Fault: the timer is cleared once the child has claimed.
TimeoutEarly(r) ==
  /\ Deny(r)
  /\ child[r].at # "claimed"
  /\ child' = [child EXCEPT ![r].killed = TRUE]
  /\ UNCHANGED <<receipt, context, bound>>

Timeout(r) ==
  /\ Deny(r)
  /\ child' = [child EXCEPT ![r].killed = TRUE]
  /\ UNCHANGED <<receipt, context, bound>>

\* Fault: any claim will do.
AcceptsAny(r) == child[r].reply = "clear"

(* The answer is taken only when it names the dispatch the gate expects,   *)
(* the claim was made and no grant is barred.                              *)
Accepts(r) == child[r].reply = "clear" /\ child[r].key = bound

\* Fault: a late answer overrides the verdict.
CloseLate(r) ==
  /\ verdict[r] \in {"open", "denied"}
  /\ child[r].at \in {"answered", "failed"}
  /\ Say(r, IF child[r].at = "answered" /\ Accepts(r) THEN "through" ELSE "denied")
  /\ UNCHANGED <<receipt, context, bound, child>>

Close(r) ==
  /\ verdict[r] = "open"
  /\ child[r].at \in {"answered", "failed"}
  /\ Say(r, IF child[r].at = "answered" /\ Accepts(r) THEN "through" ELSE "denied")
  /\ UNCHANGED <<receipt, context, bound, child>>

-----------------------------------------------------------------------------
(* The child process.                                                      *)

ReadContext(r) ==
  /\ child[r].at = "started"
  /\ child' = [child EXCEPT ![r].key = context,
                            ![r].at = IF context \in Suits[CallOf[r]]
                                      THEN "read" ELSE "answered",
                            ![r].reply = IF context \in Suits[CallOf[r]]
                                         THEN "none" ELSE "refused"]
  /\ UNCHANGED <<receipt, context, bound, verdict>>

\* Fault: a claimed dispatch may be claimed again.
ConsumableTwice(k) == receipt[k].phase # "settled"

Consumable(k) == receipt[k].phase = "prepared"

(* Under the receipt's lock: the one transition from prepared to claimed.  *)
(* A dispatch that is no longer prepared is refused, and so is one whose   *)
(* goal, task, budget or locks do not admit it.                            *)
Claim(r) ==
  /\ child[r].at = "read"
  /\ \/ /\ Consumable(child[r].key)
        /\ receipt' = [receipt EXCEPT ![child[r].key] =
                         [phase |-> "claimed", call |-> CallOf[r]]]
        /\ child' = [child EXCEPT ![r].at = "claimed", ![r].won = TRUE]
     \/ /\ child' = [child EXCEPT ![r].at = "answered", ![r].reply = "refused"]
        /\ UNCHANGED receipt
  /\ UNCHANGED <<context, bound, verdict>>

(* After the claim the grants of the task are read again: none barred,     *)
(* some barred (or the task moved), or output that does not parse.         *)
Answer(r) ==
  /\ child[r].at = "claimed"
  /\ \E reply \in {"clear", "barred", "garbled"} :
        child' = [child EXCEPT ![r].at = "answered", ![r].reply = reply]
  /\ UNCHANGED <<receipt, context, bound, verdict>>

(* An input the child refuses, an internal error, a crash.                 *)
Fail(r) ==
  /\ child[r].at \in Alive
  /\ child' = [child EXCEPT ![r].at = "failed"]
  /\ UNCHANGED <<receipt, context, bound, verdict>>

Die(r) ==
  /\ child[r].killed /\ child[r].at \in Alive
  /\ child' = [child EXCEPT ![r].at = "gone"]
  /\ UNCHANGED <<receipt, context, bound, verdict>>

-----------------------------------------------------------------------------
(* Other processes.                                                        *)

Settle(k) ==
  /\ receipt[k].phase = "claimed"
  /\ receipt' = [receipt EXCEPT ![k].phase = "settled"]
  /\ UNCHANGED <<context, bound, verdict, child>>

(* The fixture's owner writes the context of the next dispatch.            *)
Rotate ==
  /\ context' \in Keys \ {context}
  /\ UNCHANGED <<receipt, bound, verdict, child>>

\* Fault: setting up takes the context away.
RestartEmpty ==
  /\ bound' \in {context, None}
  /\ context' = None
  /\ verdict' = [r \in Runs |-> IF verdict[r] = "open" THEN "lost" ELSE verdict[r]]
  /\ UNCHANGED <<receipt, child>>

(* The host ends with its open calls and sets the gate up again; children  *)
(* it had started go on.                                                   *)
Restart ==
  /\ bound' \in {context, None}
  /\ verdict' = [r \in Runs |-> IF verdict[r] = "open" THEN "lost" ELSE verdict[r]]
  /\ UNCHANGED <<receipt, context, child>>

Next ==
  \/ \E r \in Runs :
        \/ Abstain(r) \/ Refuse(r) \/ Spawn(r)
        \/ SpawnError(r) \/ StdinError(r) \/ Overflow(r) \/ Timeout(r) \/ Close(r)
        \/ ReadContext(r) \/ Claim(r) \/ Answer(r) \/ Fail(r) \/ Die(r)
  \/ \E k \in Keys : Settle(k)
  \/ Rotate
  \/ Restart

Spec == Init /\ [][Next]_vars

(* The timer is armed before the request is written and a kill ends a      *)
(* process; nothing else is certain to happen.                             *)
LiveSpec ==
  /\ Spec
  /\ \A r \in Runs : WF_vars(Timeout(r)) /\ WF_vars(Die(r))

-----------------------------------------------------------------------------
Live(r) == child[r].at \in Alive

(* A call goes through only while the receipt of the dispatch the gate was *)
(* set up for is consumed by that very call; a claim of another dispatch   *)
(* the context was switched to, or of another call, is never taken for it. *)
BoundEffect ==
  [][\A r \in Runs :
       (verdict[r] # "through" /\ verdict'[r] = "through") =>
          /\ bound # None
          /\ receipt[bound].phase # "prepared"
          /\ receipt[bound].call = CallOf[r]]_vars

(* A claim made by a child stays in the receipt whatever happens to the    *)
(* child, the run or the host: no later claim by another call replaces it. *)
ClaimKept ==
  \A r \in Runs : child[r].won =>
      /\ receipt[child[r].key].phase # "prepared"
      /\ receipt[child[r].key].call = CallOf[r]

(* Every run the gate waits in is decided, and a child that was told to    *)
(* die is not alive for ever.                                              *)
RunsEnd ==
  \A r \in Runs :
     /\ verdict[r] = "open" ~> verdict[r] # "open"
     /\ child[r].killed ~> ~Live(r)

(* The gate implements the abstract one-shot: its takers are the children  *)
(* whose claim was committed.                                              *)
Taken == [k \in Keys |-> {r \in Runs : child[r].won /\ child[r].key = k}]
Outcome ==
  [r \in Runs |-> CASE verdict[r] \in {"none", "open"} -> "none"
                    [] verdict[r] = "through" -> "through"
                    [] OTHER -> "closed"]

Abstract == INSTANCE OneShot WITH takers <- Taken, outcome <- Outcome

OneShotKept == Abstract!Spec
=============================================================================
