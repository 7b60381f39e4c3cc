-------------------------- MODULE ClaimBridgeProofs --------------------------
(***************************************************************************)
(* Proofs about ClaimBridge, for any runs, calls and dispatches, also when *)
(* the host repeats a call: types, the claim of a child that committed it, *)
(* what lets a call through, and the one-shot the gate implements.         *)
(*                                                                         *)
(* A run is let through by its child's reply alone.  The invariant says    *)
(* what a child at each place has done to the receipt, and that no other   *)
(* child has done it to the same receipt.                                  *)
(***************************************************************************)
EXTENDS ClaimBridge, TLAPS

Held(r) ==
  /\ child[r].won => /\ child[r].key \in Keys
                     /\ child[r].at \in {"claimed", "answered", "failed", "gone"}
  /\ child[r].at = "read" => child[r].key \in Keys
  /\ child[r].at = "claimed" => child[r].won
  /\ child[r].reply = "clear" => child[r].won

OneWinner ==
  \A r, s \in Runs : child[r].won /\ child[s].won /\ child[r].key = child[s].key => r = s

Fresh(r) == verdict[r] = "none" => child[r] = NoChild

GateInv ==
  TypeOK /\ (\A r \in Runs : Held(r) /\ Fresh(r)) /\ ClaimKept /\ OneWinner

\* A step of the child of r that leaves the receipts and what r won alone.
Quiet(r) ==
  /\ receipt' = receipt
  /\ child' \in [Runs -> Children]
  /\ \A s \in Runs \ {r} : child'[s] = child[s]
  /\ child'[r].won = child[r].won
  /\ child[r].won => child'[r].key = child[r].key
  /\ Held(r)'
  /\ verdict' \in [Runs -> Verdicts] /\ verdict'[r] # "none"
  /\ \A s \in Runs \ {r} : verdict'[s] = verdict[s]

LEMMA InitGate == Init => GateInv
<1>. SUFFICES ASSUME Init PROVE GateInv
  OBVIOUS
<1>1. NoChild \in Children
  BY DEF NoChild, Children, Places, Replies
<1>2. [phase |-> "prepared", call |-> None] \in Receipts
  BY DEF Receipts
<1>3. TypeOK
  BY <1>1, <1>2 DEF Init, TypeOK, Verdicts
<1>4. \A r \in Runs : child[r] = NoChild
  BY DEF Init
<1>5. \A r \in Runs : /\ ~child[r].won /\ child[r].at = "none"
                      /\ child[r].reply = "none"
  BY <1>4 DEF NoChild
<1>6. \A r \in Runs : Held(r) /\ Fresh(r)
  BY <1>4, <1>5 DEF Held, Fresh
<1>. QED
  BY <1>3, <1>5, <1>6 DEF GateInv, ClaimKept, OneWinner

LEMMA QuietKeeps ==
  ASSUME GateInv, NEW r \in Runs, Quiet(r),
         context' \in Keys, bound' \in Keys \cup {None}
  PROVE  GateInv'
<1>1. TypeOK'
  BY DEF GateInv, TypeOK, Quiet
<1>2. \A s \in Runs : Held(s)' /\ Fresh(s)'
  BY DEF GateInv, Held, Fresh, Quiet
<1>3. \A s \in Runs : /\ child'[s].won = child[s].won
                      /\ child[s].won => child'[s].key = child[s].key
  BY DEF Quiet
<1>4. ClaimKept'
  BY <1>3 DEF GateInv, ClaimKept, Quiet
<1>5. OneWinner'
  BY <1>3 DEF GateInv, OneWinner
<1>. QED
  BY <1>1, <1>2, <1>4, <1>5 DEF GateInv

\* What the steps that only move a child leave of it.
LEMMA ChildMoves ==
  ASSUME GateInv, NEW r \in Runs,
         \/ Spawn(r) \/ SpawnError(r) \/ StdinError(r) \/ Overflow(r) \/ Timeout(r)
         \/ ReadContext(r) \/ Answer(r) \/ Fail(r) \/ Die(r)
  PROVE  Quiet(r) /\ context' = context /\ bound' = bound
<1>. USE DEF Children, Places, Alive, Replies, Verdicts, Say, Deny
<1>a. /\ child \in [Runs -> Children] /\ verdict \in [Runs -> Verdicts]
      /\ context \in Keys /\ Held(r)
      /\ verdict[r] = "none" => child[r].at = "none" /\ ~child[r].won
                               /\ child[r].reply = "none"
  BY DEF GateInv, TypeOK, Fresh, NoChild
<1>1. CASE Spawn(r)
  BY <1>a, <1>1 DEF Spawn, Quiet, Held
<1>2. CASE SpawnError(r)
  BY <1>a, <1>2 DEF SpawnError, Quiet, Held
<1>3. CASE StdinError(r)
  BY <1>a, <1>3 DEF StdinError, Quiet, Held
<1>4. CASE Overflow(r)
  BY <1>a, <1>4 DEF Overflow, Quiet, Held
<1>5. CASE Timeout(r)
  BY <1>a, <1>5 DEF Timeout, Quiet, Held
<1>6. CASE ReadContext(r)
  BY <1>a, <1>6 DEF ReadContext, Quiet, Held
<1>7. CASE Answer(r)
  BY <1>a, <1>7 DEF Answer, Quiet, Held
<1>8. CASE Fail(r)
  BY <1>a, <1>8 DEF Fail, Quiet, Held
<1>9. CASE Die(r)
  BY <1>a, <1>9 DEF Die, Quiet, Held
<1>. QED
  BY <1>1, <1>2, <1>3, <1>4, <1>5, <1>6, <1>7, <1>8, <1>9

\* What the steps that leave the children and the receipts alone keep.
LEMMA VerdictKeeps ==
  ASSUME GateInv, UNCHANGED <<receipt, child>>,
         context' \in Keys, bound' \in Keys \cup {None}, verdict' \in [Runs -> Verdicts],
         \A r \in Runs : verdict'[r] = "none" => verdict[r] = "none"
  PROVE  GateInv'
<1>1. TypeOK'
  BY DEF GateInv, TypeOK
<1>2. \A r \in Runs : Held(r)' /\ Fresh(r)'
  BY DEF GateInv, Held, Fresh
<1>3. ClaimKept' /\ OneWinner'
  BY DEF GateInv, ClaimKept, OneWinner
<1>. QED
  BY <1>1, <1>2, <1>3 DEF GateInv

\* The claim of a dispatch nobody had taken.
LEMMA ClaimKeeps ==
  ASSUME GateInv, NEW r \in Runs, Claim(r)
  PROVE  GateInv'
<1>. USE DEF Children, Places, Alive, Replies
<1>a. /\ child \in [Runs -> Children] /\ verdict \in [Runs -> Verdicts]
      /\ receipt \in [Keys -> Receipts]
      /\ child[r].at = "read" /\ child[r].key \in Keys /\ ~child[r].won
      /\ verdict[r] # "none" /\ CallOf[r] \in CallIds
      /\ child[r].reply # "clear"
  BY BridgeAssumption DEF GateInv, TypeOK, Held, Fresh, NoChild, Claim
<1>1. CASE Consumable(child[r].key)
           /\ receipt' = [receipt EXCEPT ![child[r].key] =
                            [phase |-> "claimed", call |-> CallOf[r]]]
           /\ child' = [child EXCEPT ![r].at = "claimed", ![r].won = TRUE]
           /\ UNCHANGED <<context, bound, verdict>>
  <2>. DEFINE k == child[r].key
  <2>1. \A s \in Runs : child[s].won => child[s].key # k
    BY <1>1, <1>a DEF GateInv, ClaimKept, Consumable
  <2>2. /\ child' \in [Runs -> Children]
        /\ child'[r].won /\ child'[r].key = k /\ child'[r].at = "claimed"
        /\ child'[r].reply = child[r].reply
        /\ \A s \in Runs \ {r} : child'[s] = child[s]
    BY <1>1, <1>a
  <2>3. /\ receipt' \in [Keys -> Receipts]
        /\ receipt'[k].phase = "claimed" /\ receipt'[k].call = CallOf[r]
        /\ \A l \in Keys \ {k} : receipt'[l] = receipt[l]
    BY <1>1, <1>a DEF Receipts
  <2>4. TypeOK'
    BY <1>1, <2>2, <2>3 DEF GateInv, TypeOK
  <2>5. \A s \in Runs : Held(s)' /\ Fresh(s)'
    BY <1>1, <1>a, <2>2 DEF GateInv, Held, Fresh
  <2>6. ClaimKept'
    BY <1>a, <2>1, <2>2, <2>3 DEF GateInv, ClaimKept, Held
  <2>7. OneWinner'
    BY <2>1, <2>2 DEF GateInv, OneWinner
  <2>. QED
    BY <2>4, <2>5, <2>6, <2>7 DEF GateInv
<1>2. CASE /\ child' = [child EXCEPT ![r].at = "answered", ![r].reply = "refused"]
           /\ UNCHANGED <<receipt, context, bound, verdict>>
  <2>1. Quiet(r)
    BY <1>2, <1>a DEF Quiet, Held
  <2>. QED
    BY <2>1, <1>2, QuietKeeps DEF GateInv, TypeOK
<1>. QED
  BY <1>1, <1>2 DEF Claim

LEMMA SettleKeeps ==
  ASSUME GateInv, NEW k \in Keys, Settle(k)
  PROVE  GateInv'
<1>1. /\ receipt \in [Keys -> Receipts]
      /\ receipt' = [receipt EXCEPT ![k].phase = "settled"]
      /\ UNCHANGED <<context, bound, verdict, child>>
  BY DEF GateInv, TypeOK, Settle
<1>2. /\ receipt' \in [Keys -> Receipts]
      /\ \A l \in Keys : /\ receipt'[l].call = receipt[l].call
                        /\ receipt[l].phase # "prepared" => receipt'[l].phase # "prepared"
  BY <1>1 DEF Receipts
<1>3. TypeOK'
  BY <1>1, <1>2 DEF GateInv, TypeOK
<1>4. \A r \in Runs : Held(r)' /\ Fresh(r)'
  BY <1>1 DEF GateInv, Held, Fresh
<1>5. ClaimKept'
  BY <1>1, <1>2 DEF GateInv, ClaimKept, Held
<1>6. OneWinner'
  BY <1>1 DEF GateInv, OneWinner
<1>. QED
  BY <1>3, <1>4, <1>5, <1>6 DEF GateInv

LEMMA NextGate == GateInv /\ [Next]_vars => GateInv'
<1>. SUFFICES ASSUME GateInv, [Next]_vars PROVE GateInv'
  OBVIOUS
<1>a. context \in Keys /\ bound \in Keys \cup {None} /\ verdict \in [Runs -> Verdicts]
  BY DEF GateInv, TypeOK
<1>1. ASSUME NEW r \in Runs, Abstain(r) \/ Refuse(r) \/ Close(r) PROVE GateInv'
  <2>1. UNCHANGED <<receipt, child, context, bound>>
    BY <1>1 DEF Abstain, Refuse, Close
  <2>2. PICK v \in Verdicts \ {"none"} : Say(r, v)
    BY <1>1 DEF Abstain, Refuse, Close, Verdicts
  <2>3. /\ verdict' \in [Runs -> Verdicts]
        /\ \A s \in Runs : verdict'[s] = "none" => verdict[s] = "none"
    BY <1>a, <2>2 DEF Say
  <2>. QED
    BY <1>a, <2>1, <2>3, VerdictKeeps
<1>2. ASSUME NEW r \in Runs,
             \/ Spawn(r) \/ SpawnError(r) \/ StdinError(r) \/ Overflow(r) \/ Timeout(r)
             \/ ReadContext(r) \/ Answer(r) \/ Fail(r) \/ Die(r)
      PROVE  GateInv'
  BY <1>a, <1>2, ChildMoves, QuietKeeps
<1>3. ASSUME Rotate PROVE GateInv'
  BY <1>a, <1>3, VerdictKeeps DEF Rotate
<1>4. ASSUME Restart PROVE GateInv'
  <2>1. /\ verdict' \in [Runs -> Verdicts]
        /\ \A s \in Runs : verdict'[s] = "none" => verdict[s] = "none"
    BY <1>a, <1>4 DEF Restart, Verdicts
  <2>. QED
    BY <1>a, <1>4, <2>1, VerdictKeeps DEF Restart
<1>5. ASSUME UNCHANGED vars PROVE GateInv'
  BY <1>a, <1>5, VerdictKeeps DEF vars
<1>. QED
  BY <1>1, <1>2, <1>3, <1>4, <1>5, ClaimKeeps, SettleKeeps DEF Next

LEMMA GateInvariant == Spec => []GateInv
<1>. QED
  BY InitGate, NextGate, PTL DEF Spec

-----------------------------------------------------------------------------
(* The theorems.                                                           *)

(* Receipts, verdicts and children stay of their types.                    *)
THEOREM TypeCorrect == Spec => []TypeOK
<1>1. GateInv => TypeOK
  BY DEF GateInv
<1>. QED
  BY <1>1, GateInvariant, PTL

(* A committed claim stays in the receipt, for the call that made it.      *)
THEOREM ClaimsAreKept == Spec => []ClaimKept
<1>1. GateInv => ClaimKept
  BY DEF GateInv
<1>. QED
  BY <1>1, GateInvariant, PTL

LEMMA ThroughIsWon ==
  ASSUME GateInv, [Next]_vars, NEW r \in Runs,
         verdict[r] # "through", verdict'[r] = "through"
  PROVE  /\ verdict[r] = "open" /\ child[r].won /\ child[r].key = bound
         /\ Close(r)
<1>1. verdict \in [Runs -> Verdicts]
  BY DEF GateInv, TypeOK
<1>2. \A s \in Runs : Close(s) \/ ~Close(s)
  OBVIOUS
<1>3. ASSUME NEW s \in Runs, ~Close(s),
             \/ Abstain(s) \/ Refuse(s) \/ Spawn(s)
             \/ SpawnError(s) \/ StdinError(s) \/ Overflow(s) \/ Timeout(s)
             \/ ReadContext(s) \/ Claim(s) \/ Answer(s) \/ Fail(s) \/ Die(s)
      PROVE  FALSE
  BY <1>1, <1>3 DEF Abstain, Refuse, Spawn, SpawnError, StdinError, Overflow, Timeout,
                    ReadContext, Claim, Answer, Fail, Die, Deny, Say
<1>4. ASSUME NEW k \in Keys, Settle(k) PROVE FALSE
  BY <1>4 DEF Settle
<1>5. ~Rotate /\ ~Restart /\ ~UNCHANGED vars
  BY <1>1 DEF Rotate, Restart, vars
<1>6. PICK s \in Runs : Close(s)
  BY <1>3, <1>4, <1>5 DEF Next
<1>7. s = r
  BY <1>1, <1>6 DEF Close, Say
<1>8. verdict[r] = "open" /\ Accepts(r)
  BY <1>1, <1>6, <1>7 DEF Close, Say
<1>. QED
  BY <1>6, <1>7, <1>8 DEF GateInv, Held, Accepts

(* A call goes through only on the receipt the gate was set up for, and    *)
(* consumed by that call.                                                  *)
THEOREM EffectsAreBound == Spec => BoundEffect
<1>1. GateInv /\ [Next]_vars =>
        [\A r \in Runs :
           (verdict[r] # "through" /\ verdict'[r] = "through") =>
              /\ bound # None
              /\ receipt[bound].phase # "prepared"
              /\ receipt[bound].call = CallOf[r]]_vars
  <2>. SUFFICES ASSUME GateInv, [Next]_vars, NEW r \in Runs,
                       verdict[r] # "through", verdict'[r] = "through"
                PROVE  /\ bound # None
                       /\ receipt[bound].phase # "prepared"
                       /\ receipt[bound].call = CallOf[r]
    OBVIOUS
  <2>1. child[r].won /\ child[r].key = bound
    BY ThroughIsWon
  <2>. QED
    BY <2>1, BridgeAssumption DEF GateInv, Held, ClaimKept
<1>. QED
  BY <1>1, GateInvariant, PTL DEF Spec, BoundEffect

-----------------------------------------------------------------------------
(* The one-shot.                                                           *)

LEMMA OutcomeOf ==
  ASSUME NEW r \in Runs
  PROVE  /\ Outcome[r] = "none" <=> verdict[r] \in {"none", "open"}
         /\ Outcome[r] = "through" <=> verdict[r] = "through"
         /\ Outcome[r] \in {"none", "through", "closed"}
  BY DEF Outcome

\* The claims made are the same as long as no child makes one.
LEMMA TakenSame ==
  ASSUME GateInv, \A r \in Runs : /\ child'[r].won = child[r].won
                                  /\ child[r].won => child'[r].key = child[r].key
  PROVE  Taken' = Taken
  BY DEF Taken

LEMMA QuietTaken ==
  ASSUME GateInv, NEW r \in Runs, Quiet(r)
  PROVE  Taken' = Taken
<1>1. \A s \in Runs : /\ child'[s].won = child[s].won
                      /\ child[s].won => child'[s].key = child[s].key
  BY DEF Quiet
<1>. QED
  BY <1>1, TakenSame

\* A step that lets no call through and opens none again closes some.
LEMMA ClosingStep ==
  ASSUME GateInv, Taken' = Taken,
         \A r \in Runs : \/ Outcome'[r] = Outcome[r]
                         \/ Outcome[r] = "none" /\ Outcome'[r] = "closed"
  PROVE  [Abstract!Next]_(Abstract!vars)
<1>. DEFINE lost == {r \in Runs : Outcome[r] = "none" /\ Outcome'[r] = "closed"}
<1>1. Outcome' = [r \in Runs |-> IF r \in lost THEN "closed" ELSE Outcome[r]]
  <2>1. \A r \in Runs : Outcome'[r] = IF r \in lost THEN "closed" ELSE Outcome[r]
    OBVIOUS
  <2>2. Outcome' = [r \in Runs |-> Outcome'[r]]
    BY DEF Outcome
  <2>. QED
    BY <2>1, <2>2
<1>2. Abstract!Close(lost)
  BY <1>1 DEF Abstract!Close
<1>. QED
  BY <1>2 DEF Abstract!Next

LEMMA InitOneShot == Init => Abstract!Init
<1>. SUFFICES ASSUME Init PROVE Abstract!Init
  OBVIOUS
<1>1. \A r \in Runs : ~child[r].won
  BY DEF Init, NoChild
<1>2. Taken = [k \in Keys |-> {}]
  BY <1>1 DEF Taken
<1>3. Outcome = [r \in Runs |-> "none"]
  BY DEF Init, Outcome
<1>. QED
  BY <1>2, <1>3 DEF Abstract!Init

\* The claim takes the dispatch; a refused claim changes nothing abstract.
LEMMA ClaimOneShot ==
  ASSUME GateInv, NEW r \in Runs, Claim(r)
  PROVE  [Abstract!Next]_(Abstract!vars)
<1>a. /\ child \in [Runs -> Children] /\ child[r].at = "read"
      /\ child[r].key \in Keys /\ ~child[r].won
      /\ Outcome' = Outcome
  BY DEF GateInv, TypeOK, Held, Claim, Outcome
<1>1. CASE Consumable(child[r].key)
           /\ child' = [child EXCEPT ![r].at = "claimed", ![r].won = TRUE]
  <2>. DEFINE k == child[r].key
  <2>1. \A s \in Runs : child[s].won => child[s].key # k
    BY <1>1, <1>a DEF GateInv, ClaimKept, Consumable
  <2>2. /\ child'[r].won /\ child'[r].key = k
        /\ \A s \in Runs \ {r} : child'[s] = child[s]
    BY <1>1, <1>a DEF Children
  <2>3. Taken[k] = {}
    BY <2>1, <1>a DEF Taken
  <2>4. Taken'[k] = {r}
    BY <2>1, <2>2, <1>a DEF Taken
  <2>5. \A l \in Keys \ {k} : Taken'[l] = Taken[l]
    BY <2>2, <1>a DEF Taken
  <2>6. Taken' = [Taken EXCEPT ![k] = {r}]
    BY <2>4, <2>5 DEF Taken
  <2>7. Abstract!Take(r, k)
    BY <1>a, <2>3, <2>6 DEF Abstract!Take
  <2>. QED
    BY <1>a, <2>7 DEF Abstract!Next
<1>2. CASE child' = [child EXCEPT ![r].at = "answered", ![r].reply = "refused"]
  <2>1. \A s \in Runs : /\ child'[s].won = child[s].won
                        /\ child[s].won => child'[s].key = child[s].key
    BY <1>a, <1>2 DEF Children
  <2>. QED
    BY <1>a, <2>1, TakenSame DEF Abstract!vars
<1>. QED
  BY <1>1, <1>2 DEF Claim

LEMMA PassOneShot ==
  ASSUME GateInv, [Next]_vars, NEW r \in Runs, Close(r), verdict'[r] = "through"
  PROVE  [Abstract!Next]_(Abstract!vars)
<1>1. verdict \in [Runs -> Verdicts] /\ verdict[r] = "open"
      /\ verdict' = [verdict EXCEPT ![r] = "through"]
      /\ child' = child
  BY DEF GateInv, TypeOK, Close, Say
<1>2. child[r].won /\ child[r].key \in Keys
  BY <1>1, ThroughIsWon DEF GateInv, Held
<1>3. r \in Taken[child[r].key]
  BY <1>2 DEF Taken
<1>4. Outcome[r] = "none" /\ Outcome'[r] = "through"
  BY <1>1 DEF Outcome
<1>5. \A s \in Runs \ {r} : Outcome'[s] = Outcome[s]
  BY <1>1 DEF Outcome
<1>6. Outcome' = [Outcome EXCEPT ![r] = "through"]
  BY <1>4, <1>5 DEF Outcome
<1>7. Taken' = Taken
  BY <1>1 DEF Taken
<1>8. Abstract!Pass(r)
  BY <1>2, <1>3, <1>4, <1>6, <1>7 DEF Abstract!Pass
<1>. QED
  BY <1>8 DEF Abstract!Next

\* Every other step closes the runs it decides.
LEMMA OtherOneShot ==
  ASSUME GateInv, [Next]_vars, \A r \in Runs : ~Claim(r),
         \A r \in Runs : verdict'[r] = "through" => verdict[r] = "through"
  PROVE  [Abstract!Next]_(Abstract!vars)
<1>a. verdict \in [Runs -> Verdicts]
  BY DEF GateInv, TypeOK
<1>1. Taken' = Taken
  <2>1. ASSUME NEW r \in Runs, Abstain(r) \/ Refuse(r) \/ Close(r) PROVE child' = child
    BY <2>1 DEF Abstain, Refuse, Close
  <2>2. ASSUME NEW r \in Runs,
               \/ Spawn(r) \/ SpawnError(r) \/ StdinError(r) \/ Overflow(r) \/ Timeout(r)
               \/ ReadContext(r) \/ Answer(r) \/ Fail(r) \/ Die(r)
        PROVE  Taken' = Taken
    BY <2>2, ChildMoves, QuietTaken
  <2>3. (\E k \in Keys : Settle(k)) \/ Rotate \/ Restart \/ UNCHANGED vars => child' = child
    BY DEF Settle, Rotate, Restart, vars
  <2>4. child' = child => Taken' = Taken
    BY DEF Taken
  <2>. QED
    BY <2>1, <2>2, <2>3, <2>4 DEF Next
<1>2. \A r \in Runs : verdict[r] \notin {"none", "open"} => verdict'[r] = verdict[r]
  <2>1. ASSUME NEW s \in Runs, NEW v, verdict[s] \in {"none", "open"}, Say(s, v)
        PROVE  \A r \in Runs : verdict[r] \notin {"none", "open"} => verdict'[r] = verdict[r]
    BY <1>a, <2>1 DEF Say
  <2>2. ASSUME NEW s \in Runs, Abstain(s) \/ Refuse(s) \/ Spawn(s) \/ Close(s)
        PROVE  \A r \in Runs : verdict[r] \notin {"none", "open"} => verdict'[r] = verdict[r]
    BY <2>1, <2>2 DEF Abstain, Refuse, Spawn, Close
  <2>3. ASSUME NEW s \in Runs, SpawnError(s) \/ StdinError(s) \/ Overflow(s) \/ Timeout(s)
        PROVE  \A r \in Runs : verdict[r] \notin {"none", "open"} => verdict'[r] = verdict[r]
    BY <2>1, <2>3 DEF SpawnError, StdinError, Overflow, Timeout, Deny
  <2>4. ASSUME NEW s \in Runs, ReadContext(s) \/ Claim(s) \/ Answer(s) \/ Fail(s) \/ Die(s)
        PROVE  verdict' = verdict
    BY <2>4 DEF ReadContext, Claim, Answer, Fail, Die
  <2>5. (\E k \in Keys : Settle(k)) \/ Rotate \/ UNCHANGED vars => verdict' = verdict
    BY DEF Settle, Rotate, vars
  <2>6. Restart => \A r \in Runs : verdict[r] \notin {"none", "open"} => verdict'[r] = verdict[r]
    BY DEF Restart
  <2>. QED
    BY <2>2, <2>3, <2>4, <2>5, <2>6 DEF Next
<1>3. \A r \in Runs : \/ Outcome'[r] = Outcome[r]
                      \/ Outcome[r] = "none" /\ Outcome'[r] = "closed"
  <2>. TAKE r \in Runs
  <2>1. CASE verdict[r] \in {"none", "open"}
    BY <1>a, <2>1 DEF Outcome
  <2>2. CASE verdict[r] \notin {"none", "open"}
    BY <1>2, <2>2 DEF Outcome
  <2>. QED
    BY <2>1, <2>2
<1>. QED
  BY <1>1, <1>3, ClosingStep

(* The gate with its children, crashes, restarts and repeated calls is a   *)
(* one-shot: no dispatch is taken by two runs, and a run that took none    *)
(* lets nothing through.                                                   *)
THEOREM GateIsOneShot == Spec => OneShotKept
<1>1. GateInv /\ [Next]_vars => [Abstract!Next]_(Abstract!vars)
  <2>. SUFFICES ASSUME GateInv, [Next]_vars PROVE [Abstract!Next]_(Abstract!vars)
    OBVIOUS
  <2>1. CASE \E r \in Runs : Claim(r)
    BY <2>1, ClaimOneShot
  <2>2. CASE \E r \in Runs : verdict[r] # "through" /\ verdict'[r] = "through"
    BY <2>2, ThroughIsWon, PassOneShot
  <2>. QED
    BY <2>1, <2>2, OtherOneShot
<1>. QED
  BY <1>1, InitOneShot, GateInvariant, PTL DEF Spec, OneShotKept, Abstract!Spec
=============================================================================
