------------------------- MODULE McpTransportProofs -------------------------
(***************************************************************************)
(* Proofs about McpTransport for any number of calls and circuits, any     *)
(* budgets and any capacity: types, the single probe of a steady circuit,  *)
(* that the place of a probe is never taken by a call that is gone, that   *)
(* every refusal of a circuit is earned by failures of its calls, and that *)
(* a server that failed often enough in a row is left alone.               *)
(***************************************************************************)
EXTENDS McpTransport, SequenceTheorems, FiniteSetTheorems, TLAPS

-----------------------------------------------------------------------------
(* The inductive invariant.                                                *)

\* No time stamp lies ahead, and an enforced call is within its budget.
Timely ==
  /\ \A c \in Call : call[c].since <= now
  /\ \A c \in Call : Running(c) /\ Enforced(c) => now <= call[c].since + Budget[c]
  /\ \A k \in Circuit : Known(k) => circuit[k].openedAt <= now

\* An open circuit has its failures, and only an open circuit has a probe.
EntriesAgree ==
  \A k \in Circuit : Known(k) =>
     /\ circuit[k].open => circuit[k].consecutive >= Threshold
     /\ circuit[k].probe => circuit[k].open

\* A probe either started after the cooldown of the circuit as it is and
\* holds the place of the probe, or the circuit was opened again since.
Placed(c) ==
  LET e == circuit[CircuitOf[c]] IN
  \/ call[c].since <= e.openedAt
  \/ e.probe /\ e.openedAt + Cooldown <= call[c].since

ProbesPlaced ==
  \A c \in Call :
     Probing(c) /\ IsOpen(CircuitOf[c]) /\ Steady(CircuitOf[c]) => Placed(c)

ShadowsNoProbes == \A c \in Call : call[c].probe => Enforced(c) /\ Running(c)

TransportInv ==
  /\ TypeOK /\ Timely /\ EntriesAgree /\ ShadowsNoProbes
  /\ ProbesPlaced /\ OneProbe /\ ReservationHeld

-----------------------------------------------------------------------------
(* The steps, seen by what they do to one call and to its circuit.         *)

OthersKept(k) == \A j \in Circuit \ {k} : circuit'[j] \in {circuit[j], NoEntry}

CallSet(c, stage, probe) ==
  \E o \in Outcomes :
    call' = [call EXCEPT ![c] = [stage |-> stage, probe |-> probe,
                                 since |-> now, outcome |-> o]]

\* A call is admitted without being a probe, or refused.
PlainArrival(c) ==
  /\ call[c].stage = "idle" /\ now' = now /\ circuit' = circuit /\ age' = age
  /\ CallSet(c, "running", FALSE) \/ CallSet(c, "done", FALSE)

ProbeArrival(c) ==
  LET k == CircuitOf[c] IN
  /\ call[c].stage = "idle" /\ now' = now /\ CallSet(c, "running", TRUE)
  /\ Enforced(c) /\ IsOpen(k) /\ ~Refusing(k) /\ age' = age
  /\ circuit' = [circuit EXCEPT ![k] = Reserved(circuit[k])]

Conclusion(c) ==
  LET k == CircuitOf[c] IN
  /\ Running(c) /\ now' = now /\ CallSet(c, "done", FALSE)
  /\ Write(k, Closed) \/ Write(k, Failed(k))

Surrender(c) ==
  LET k == CircuitOf[c] IN
  /\ Running(c) /\ now' = now /\ CallSet(c, "done", FALSE) /\ age' = age
  /\ IF call[c].probe /\ Known(k)
     THEN circuit' = [circuit EXCEPT ![k] = Released(circuit[k])]
     ELSE circuit' = circuit

\* Every step is one of these, the passing of time, or nothing at all.
LEMMA StepKinds ==
  ASSUME TypeOK, [Next]_vars
  PROVE  \/ \E c \in Call : \/ PlainArrival(c) \/ ProbeArrival(c)
                            \/ Conclusion(c) \/ Surrender(c)
         \/ Tick
         \/ UNCHANGED vars
<1>1. CASE UNCHANGED vars
  BY <1>1
<1>2. CASE Tick
  BY <1>2
<1>3. ASSUME NEW c \in Call, RefuseContract(c)
      PROVE  PlainArrival(c)
  BY <1>3 DEF RefuseContract, Arrives, End, Unwritten, PlainArrival, CallSet,
              Outcomes, Refusals
<1>4. ASSUME NEW c \in Call, RefuseOpen(c)
      PROVE  PlainArrival(c)
  BY <1>4 DEF RefuseOpen, MayEnter, Arrives, End, Unwritten, PlainArrival,
              CallSet, Outcomes, Refusals
<1>5. ASSUME NEW c \in Call, Admit(c) \/ AdmitShadow(c)
      PROVE  PlainArrival(c)
  BY <1>5 DEF Admit, AdmitShadow, MayEnter, Arrives, Begin, Unwritten,
              PlainArrival, CallSet, Outcomes
<1>6. ASSUME NEW c \in Call, RefuseAborted(c)
      PROVE  PlainArrival(c)
  <2> DEFINE k == CircuitOf[c]
  <2>1. k \in Circuit
    BY CallAssumption
  <2>2. circuit' = circuit /\ age' = age
    <3>1. CASE ~IsOpen(k)
      BY <1>6, <3>1 DEF RefuseAborted, Unwritten
    <3>2. CASE IsOpen(k)
      <4>1. Known(k) /\ circuit[k] \in Entry /\ ~circuit[k].probe /\ circuit[k].open
        BY <1>6, <2>1, <3>2 DEF RefuseAborted, Refusing, IsOpen, Known, TypeOK
      <4>2. Released(Reserved(circuit[k])) = circuit[k]
        BY <4>1 DEF Released, Reserved, Entry
      <4>3. Write(k, circuit[k])
        BY <1>6, <3>2, <4>2 DEF RefuseAborted
      <4> QED
        BY <2>1, <4>1, <4>3 DEF Write, TypeOK
    <3> QED
      BY <3>1, <3>2
  <2> QED
    BY <1>6, <2>2 DEF RefuseAborted, MayEnter, Arrives, End, PlainArrival,
                      CallSet, Outcomes, Refusals
<1>7. ASSUME NEW c \in Call, AdmitProbe(c)
      PROVE  ProbeArrival(c)
  BY <1>7 DEF AdmitProbe, MayEnter, Arrives, Begin, ProbeArrival, CallSet,
              Outcomes, Write, IsOpen
<1>8. ASSUME NEW c \in Call, Succeed(c)
      PROVE  Conclusion(c)
  BY <1>8 DEF Succeed, Concludes, End, RecordSuccess, Conclusion, CallSet,
              Outcomes
<1>9. ASSUME NEW c \in Call, ServerError(c) \/ Timeout(c) \/ Overrun(c)
      PROVE  Conclusion(c)
  BY <1>9 DEF ServerError, Timeout, Overrun, Concludes, End, RecordFailure,
              Conclusion, CallSet, Outcomes, Failures
<1>10. ASSUME NEW c \in Call, Abort(c)
       PROVE  Surrender(c)
  <2>1. CallSet(c, "done", FALSE) /\ now' = now /\ Running(c)
    BY <1>10 DEF Abort, Concludes, End, CallSet, Outcomes, Refusals
  <2> QED
    BY <1>10, <2>1 DEF Abort, GivenUp, ReleaseProbe, Unwritten, Write, Surrender
<1> QED
  BY <1>1, <1>2, <1>3, <1>4, <1>5, <1>6, <1>7, <1>8, <1>9, <1>10 DEF Next

\* What writing an entry does.
LEMMA WriteEffect ==
  ASSUME TypeOK, NEW k \in Circuit, NEW e \in Entry, Write(k, e)
  PROVE  /\ circuit' \in [Circuit -> Entry \cup {NoEntry}]
         /\ age' \in Seq(Circuit) /\ Len(age') <= Capacity
         /\ circuit'[k] = e /\ OthersKept(k)
<1>1. CASE Known(k) \/ Len(age) < Capacity
  <2>1. Len(Append(age, k)) = Len(age) + 1 /\ Append(age, k) \in Seq(Circuit)
    BY DEF TypeOK
  <2> QED
    BY <1>1, <2>1, PolicyAssumption DEF Write, TypeOK, OthersKept
<1>2. CASE ~(Known(k) \/ Len(age) < Capacity)
  <2>1. age # << >> /\ age \in Seq(Circuit) /\ Len(age) \in Nat /\ Len(age) = Capacity
    BY <1>2, PolicyAssumption DEF TypeOK
  <2>2. Head(age) \in Circuit /\ Tail(age) \in Seq(Circuit)
        /\ Len(Tail(age)) = Len(age) - 1
    BY <2>1, HeadTailProperties
  <2>3. /\ Append(Tail(age), k) \in Seq(Circuit)
        /\ Len(Append(Tail(age), k)) = Len(Tail(age)) + 1
    BY <2>2
  <2>4. /\ circuit' = [circuit EXCEPT ![Head(age)] = NoEntry, ![k] = e]
        /\ age' = Append(Tail(age), k)
    BY <1>2 DEF Write
  <2> QED
    BY <2>1, <2>2, <2>3, <2>4, PolicyAssumption DEF TypeOK, OthersKept
<1> QED
  BY <1>1, <1>2

LEMMA EntriesTyped ==
  ASSUME TypeOK, NEW k \in Circuit
  PROVE  /\ Closed \in Entry /\ Failed(k) \in Entry
         /\ Known(k) => Reserved(circuit[k]) \in Entry
         /\ Known(k) => Released(circuit[k]) \in Entry
<1>1. Closed \in Entry
  BY DEF Closed, Entry
<1>2. Known(k) => circuit[k] \in Entry
  BY DEF Known, TypeOK
<1>3. Known(k) => Reserved(circuit[k]) \in Entry /\ Released(circuit[k]) \in Entry
  BY <1>2 DEF Reserved, Released, Entry
<1>4. now \in Nat
  BY DEF TypeOK
<1>5. Failed(k) \in Entry
  <2> DEFINE e == IF Known(k) THEN circuit[k] ELSE Closed
  <2>1. e \in Entry
    BY <1>1, <1>2
  <2> HIDE DEF e
  <2>2. e.consecutive + 1 \in Nat /\ e.openedAt \in Nat
    BY <2>1 DEF Entry
  <2>3. Failed(k) = [consecutive |-> e.consecutive + 1,
                     open |-> e.open \/ e.consecutive + 1 >= Threshold,
                     openedAt |-> IF e.consecutive + 1 >= Threshold
                                    THEN now ELSE e.openedAt,
                     probe |-> FALSE]
    BY DEF Failed, e
  <2> QED
    BY <1>4, <2>2, <2>3 DEF Entry
<1> QED
  BY <1>1, <1>3, <1>5

LEMMA InitTransport == Init => TransportInv
<1> SUFFICES ASSUME Init PROVE TransportInv
  OBVIOUS
<1>1. TypeOK
  BY PolicyAssumption DEF Init, TypeOK, CallState, Outcomes
<1>2. \A k \in Circuit : ~Known(k)
  BY DEF Init, Known
<1>3. \A c \in Call : call[c].stage = "idle" /\ ~call[c].probe /\ call[c].since = 0
  BY DEF Init
<1>4. Timely /\ EntriesAgree /\ ShadowsNoProbes
  BY <1>2, <1>3 DEF Init, Timely, EntriesAgree, ShadowsNoProbes, Running
<1>5. ProbesPlaced /\ OneProbe /\ ReservationHeld
  BY <1>2, <1>3 DEF ProbesPlaced, OneProbe, ReservationHeld, Probing, Running
<1> QED
  BY <1>1, <1>4, <1>5 DEF TransportInv

\* Setting one call keeps the types, and the other calls as they were.
LEMMA CallSetEffect ==
  ASSUME TypeOK, NEW c \in Call, NEW stage \in {"idle", "running", "done"},
         NEW probe \in BOOLEAN, CallSet(c, stage, probe)
  PROVE  /\ call' \in [Call -> CallState]
         /\ call'[c].stage = stage /\ call'[c].probe = probe
         /\ call'[c].since = now
         /\ \A d \in Call : d # c => call'[d] = call[d]
<1>1. PICK o \in Outcomes :
        call' = [call EXCEPT ![c] = [stage |-> stage, probe |-> probe,
                                     since |-> now, outcome |-> o]]
  BY DEF CallSet
<1>2. [stage |-> stage, probe |-> probe, since |-> now, outcome |-> o]
        \in CallState
  BY DEF CallState, TypeOK
<1> QED
  BY <1>1, <1>2 DEF TypeOK

-----------------------------------------------------------------------------
(* What an invariant step owes: the parts that concern the calls and the   *)
(* entries by themselves.                                                  *)

LEMMA ArrivalStep ==
  ASSUME TransportInv, NEW c \in Call, PlainArrival(c)
  PROVE  TransportInv'
<1> DEFINE Set(stage) == CallSet(c, stage, FALSE)
<1>1. /\ call' \in [Call -> CallState] /\ ~call'[c].probe
      /\ call'[c].since = now /\ now' = now /\ circuit' = circuit
      /\ age' = age /\ call[c].stage = "idle"
      /\ \A d \in Call : d # c => call'[d] = call[d]
  BY CallSetEffect DEF PlainArrival, TransportInv
<1>2. TypeOK'
  BY <1>1 DEF TransportInv, TypeOK
<1>3. now \in Nat /\ Budget[c] \in Nat
  BY CallAssumption DEF TransportInv, TypeOK
<1>4. Timely'
  BY <1>1, <1>3 DEF TransportInv, Timely, Running, Known, Enforced
<1>5. EntriesAgree' /\ ShadowsNoProbes'
  BY <1>1 DEF TransportInv, EntriesAgree, ShadowsNoProbes, Known, Running, Enforced
<1>6. \A d \in Call : Probing(d)' <=> Probing(d)
  BY <1>1 DEF Probing, Running, TransportInv, ShadowsNoProbes
<1>7. OneProbe'
  BY <1>6 DEF TransportInv, OneProbe, Rivals, Steady, Enforced
<1>8. ReservationHeld'
  BY <1>1, <1>6 DEF TransportInv, ReservationHeld, Known
<1>9. \A d \in Call : Probing(d)' => call'[d] = call[d]
  BY <1>1 DEF Probing
<1>10. ProbesPlaced'
  BY <1>1, <1>6, <1>9 DEF TransportInv, ProbesPlaced, Placed, IsOpen, Known,
                          Steady, Enforced
<1> QED
  BY <1>2, <1>4, <1>5, <1>7, <1>8, <1>10 DEF TransportInv

LEMMA ProbeStep ==
  ASSUME TransportInv, NEW c \in Call, ProbeArrival(c)
  PROVE  TransportInv'
<1> DEFINE k == CircuitOf[c]
<1>1. /\ call' \in [Call -> CallState] /\ call'[c].probe
      /\ call'[c].stage = "running" /\ call'[c].since = now
      /\ now' = now /\ age' = age /\ call[c].stage = "idle"
      /\ \A d \in Call : d # c => call'[d] = call[d]
  BY CallSetEffect DEF ProbeArrival, TransportInv
<1>2. k \in Circuit /\ now \in Nat /\ Budget \in [Call -> Nat \ {0}]
  BY CallAssumption DEF TransportInv, TypeOK
<1>3. /\ Known(k) /\ circuit[k] \in Entry /\ circuit[k].open
      /\ ~circuit[k].probe /\ circuit[k].openedAt + Cooldown <= now
  <2>1. Known(k) /\ circuit[k] \in Entry /\ circuit[k].open
    BY <1>2 DEF ProbeArrival, IsOpen, Known, TransportInv, TypeOK
  <2>2. ~Cooling(k) /\ ~circuit[k].probe
    BY <2>1 DEF ProbeArrival, Refusing, IsOpen
  <2> QED
    BY <1>2, <2>1, <2>2, PolicyAssumption DEF Cooling, Entry
<1>4. /\ circuit' = [circuit EXCEPT ![k] = Reserved(circuit[k])]
      /\ Reserved(circuit[k]) \in Entry
  BY <1>2, <1>3, EntriesTyped DEF ProbeArrival, TransportInv
<1>5. /\ circuit'[k].open = circuit[k].open /\ circuit'[k].probe
      /\ circuit'[k].consecutive = circuit[k].consecutive
      /\ circuit'[k].openedAt = circuit[k].openedAt
      /\ circuit'[k] # NoEntry
      /\ \A j \in Circuit : j # k => circuit'[j] = circuit[j]
  <2>1. circuit'[k] = Reserved(circuit[k])
    BY <1>2, <1>4 DEF TransportInv, TypeOK
  <2> QED
    BY <1>2, <1>3, <1>4, <2>1, NoEntryAssumption
       DEF Reserved, Entry, TransportInv, TypeOK
<1>6. TypeOK'
  BY <1>1, <1>2, <1>4 DEF TransportInv, TypeOK
<1>7. Timely'
  <2>1. \A j \in Circuit : Known(j)' => Known(j) /\ circuit'[j].openedAt = circuit[j].openedAt
    BY <1>3, <1>5 DEF Known
  <2>2. \A d \in Call : d # c => (Running(d)' <=> Running(d))
    BY <1>1 DEF Running
  <2>3. Budget[c] \in Nat
    BY <1>2
  <2> QED
    BY <1>1, <1>2, <2>1, <2>2, <2>3 DEF TransportInv, Timely, Enforced
<1>8. EntriesAgree'
  BY <1>3, <1>5 DEF TransportInv, EntriesAgree, Known
<1>9. ShadowsNoProbes'
  BY <1>1 DEF TransportInv, ShadowsNoProbes, Running, ProbeArrival, Enforced
<1>10. \A d \in Call : d # c => (Probing(d)' <=> Probing(d))
  BY <1>1 DEF Probing, Running
<1>11. Probing(c)'
  BY <1>1 DEF Probing, Running
<1>12. \A d \in Call : Rivals(c, d) /\ Steady(k) => ~Probing(d)
  <2> SUFFICES ASSUME NEW d \in Call, CircuitOf[d] = k, Steady(k), Probing(d)
               PROVE  FALSE
    BY DEF Rivals
  <2>1. Placed(d)
    BY <1>3 DEF TransportInv, ProbesPlaced, IsOpen
  <2>2. call[d].since <= circuit[k].openedAt
    BY <1>3, <2>1 DEF Placed
  <2>3. Enforced(d) /\ Running(d)
    BY DEF TransportInv, ShadowsNoProbes, Probing
  <2>4. now <= call[d].since + Budget[d] /\ Budget[d] < Cooldown
    BY <2>3 DEF TransportInv, Timely, Steady
  <2>5. call[d].since \in Nat /\ Budget[d] \in Nat /\ circuit[k].openedAt \in Nat
    BY <1>2, <1>3 DEF TransportInv, TypeOK, CallState, Entry
  <2> QED
    BY <1>2, <1>3, <2>2, <2>4, <2>5, PolicyAssumption
<1>13. OneProbe'
  <2> SUFFICES ASSUME NEW a \in Call, NEW b \in Call, Rivals(a, b),
                      Steady(CircuitOf[a]), Probing(a)', Probing(b)'
               PROVE  FALSE
    BY DEF OneProbe, Rivals, Steady, Enforced
  <2>1. CASE a = c
    BY <1>10, <1>12, <2>1 DEF Rivals
  <2>2. CASE b = c
    BY <1>10, <1>12, <2>2 DEF Rivals
  <2>3. CASE a # c /\ b # c
    BY <1>10, <2>3 DEF TransportInv, OneProbe
  <2> QED
    BY <2>1, <2>2, <2>3
<1>14. ReservationHeld'
  <2> SUFFICES ASSUME NEW j \in Circuit, Known(j)', circuit'[j].probe
               PROVE  \E d \in Call : CircuitOf[d] = j /\ Probing(d)'
    BY DEF ReservationHeld
  <2>1. CASE j = k
    BY <1>11, <2>1
  <2>2. CASE j # k
    <3>1. Known(j) /\ circuit[j].probe
      BY <1>5, <2>2 DEF Known
    <3>2. PICK d \in Call : CircuitOf[d] = j /\ Probing(d)
      BY <3>1 DEF TransportInv, ReservationHeld
    <3> QED
      BY <1>10, <2>2, <3>2
  <2> QED
    BY <2>1, <2>2
<1>15. ProbesPlaced'
  <2> SUFFICES ASSUME NEW d \in Call, Probing(d)', IsOpen(CircuitOf[d])',
                      Steady(CircuitOf[d])
               PROVE  Placed(d)'
    BY DEF ProbesPlaced, Steady, Enforced
  <2>1. CASE d = c
    BY <1>1, <1>3, <1>5, <2>1 DEF Placed
  <2>2. CASE d # c /\ CircuitOf[d] = k
    BY <1>10, <1>12, <2>2 DEF Rivals
  <2>3. CASE CircuitOf[d] # k
    <3>1. CircuitOf[d] \in Circuit /\ d # c
      BY <2>3, CallAssumption
    <3>2. circuit'[CircuitOf[d]] = circuit[CircuitOf[d]] /\ call'[d] = call[d]
      BY <1>1, <1>5, <2>3, <3>1
    <3> QED
      BY <1>10, <3>1, <3>2 DEF TransportInv, ProbesPlaced, Placed, IsOpen, Known
  <2> QED
    BY <2>1, <2>2, <2>3
<1> QED
  BY <1>6, <1>7, <1>8, <1>9, <1>13, <1>14, <1>15 DEF TransportInv

(* Both kinds of end: the entry of the circuit is written, the call is no  *)
(* probe any more, every other circuit is kept or forgotten.               *)
Ending(c) ==
  LET k == CircuitOf[c] IN
  /\ call' \in [Call -> CallState]
  /\ call'[c].stage = "done" /\ ~call'[c].probe /\ call'[c].since = now
  /\ \A d \in Call : d # c => call'[d] = call[d]
  /\ now' = now
  /\ circuit' \in [Circuit -> Entry \cup {NoEntry}]
  /\ age' \in Seq(Circuit) /\ Len(age') <= Capacity
  /\ OthersKept(k)

\* What may become of the entry of the circuit when a call of it ends: it is
\* closed, opened anew, counted up, released by its probe, or left alone.
EntryAfter(c) ==
  LET k == CircuitOf[c]
      e == circuit'[k]
  IN  \/ e = circuit[k] /\ ~(call[c].probe /\ Known(k))
      \/ /\ Known(k)' /\ ~e.probe /\ e.openedAt <= now
         /\ e.open => e.consecutive >= Threshold
         /\ \/ ~e.open
            \/ e.openedAt = now
            \/ Known(k) /\ e.openedAt = circuit[k].openedAt /\ call[c].probe
               /\ circuit[k].open

LEMMA ConclusionEnds ==
  ASSUME TransportInv, NEW c \in Call, Conclusion(c)
  PROVE  Ending(c) /\ EntryAfter(c)
<1> DEFINE k == CircuitOf[c]
<1>1. k \in Circuit /\ now \in Nat /\ TypeOK
  BY CallAssumption DEF TransportInv, TypeOK
<1>2. /\ call' \in [Call -> CallState] /\ ~call'[c].probe
      /\ call'[c].stage = "done" /\ call'[c].since = now /\ now' = now
      /\ \A d \in Call : d # c => call'[d] = call[d]
  BY <1>1, CallSetEffect DEF Conclusion
<1>3. CASE Write(k, Closed)
  <2>1. /\ circuit' \in [Circuit -> Entry \cup {NoEntry}]
        /\ age' \in Seq(Circuit) /\ Len(age') <= Capacity
        /\ circuit'[k] = Closed /\ OthersKept(k) /\ Closed \in Entry
    BY <1>1, <1>3, WriteEffect, EntriesTyped
  <2>2. Known(k)'
    BY <2>1, NoEntryAssumption DEF Known
  <2>3. ~Closed.open /\ ~Closed.probe /\ Closed.openedAt <= now
    BY <1>1 DEF Closed
  <2>4. EntryAfter(c)
    BY <2>1, <2>2, <2>3 DEF EntryAfter
  <2> QED
    BY <1>2, <2>1, <2>4 DEF Ending
<1>4. CASE Write(k, Failed(k))
  <2>1. /\ circuit' \in [Circuit -> Entry \cup {NoEntry}]
        /\ age' \in Seq(Circuit) /\ Len(age') <= Capacity
        /\ circuit'[k] = Failed(k) /\ OthersKept(k) /\ Failed(k) \in Entry
    BY <1>1, <1>4, WriteEffect, EntriesTyped
  <2> DEFINE e == IF Known(k) THEN circuit[k] ELSE Closed
             n == e.consecutive + 1
  <2>2. e \in Entry /\ (e.open => e.consecutive >= Threshold) /\ e.openedAt <= now
    <3>1. CASE Known(k)
      BY <1>1, <3>1 DEF TransportInv, EntriesAgree, Timely, TypeOK, Known
    <3>2. CASE ~Known(k)
      BY <1>1, <3>2, EntriesTyped DEF Closed
    <3> QED
      BY <3>1, <3>2
  <2>3. /\ Failed(k).open = (e.open \/ n >= Threshold)
        /\ Failed(k).openedAt = (IF n >= Threshold THEN now ELSE e.openedAt)
        /\ Failed(k).probe = FALSE /\ Failed(k).consecutive = n
    BY DEF Failed
  <2> HIDE DEF e
  <2>4. e.consecutive \in Nat /\ e.openedAt \in Nat /\ e.open \in BOOLEAN
    BY <2>2 DEF Entry
  <2>5. e.open => n >= Threshold
    BY <2>2, <2>4, PolicyAssumption
  <2>6. Failed(k).openedAt <= now
    BY <1>1, <2>2, <2>3, <2>4
  <2>7. Failed(k).open => n >= Threshold /\ Failed(k).openedAt = now
    BY <2>3, <2>5
  <2>8. EntryAfter(c)
    BY <2>1, <2>3, <2>6, <2>7, NoEntryAssumption DEF EntryAfter, Known
  <2> QED
    BY <1>2, <2>1, <2>8 DEF Ending
<1> QED
  BY <1>3, <1>4 DEF Conclusion

LEMMA SurrenderEnds ==
  ASSUME TransportInv, NEW c \in Call, Surrender(c)
  PROVE  Ending(c) /\ EntryAfter(c)
<1> DEFINE k == CircuitOf[c]
<1>1. k \in Circuit /\ now \in Nat /\ TypeOK
  BY CallAssumption DEF TransportInv, TypeOK
<1>2. /\ call' \in [Call -> CallState] /\ ~call'[c].probe
      /\ call'[c].stage = "done" /\ call'[c].since = now /\ now' = now
      /\ \A d \in Call : d # c => call'[d] = call[d]
  BY <1>1, CallSetEffect DEF Surrender
<1>3. age' = age
  BY DEF Surrender
<1>4. CASE call[c].probe /\ Known(k)
  <2>1. circuit' = [circuit EXCEPT ![k] = Released(circuit[k])]
    BY <1>4 DEF Surrender
  <2>2. Released(circuit[k]) \in Entry /\ circuit[k] \in Entry
    BY <1>1, <1>4, EntriesTyped DEF Known, TypeOK
  <2>3. /\ circuit' \in [Circuit -> Entry \cup {NoEntry}]
        /\ circuit'[k] = Released(circuit[k]) /\ OthersKept(k)
    BY <1>1, <2>1, <2>2 DEF TypeOK, OthersKept
  <2>4. /\ circuit[k].openedAt <= now
        /\ circuit[k].open => circuit[k].consecutive >= Threshold
        /\ circuit[k].probe => circuit[k].open
    BY <1>1, <1>4 DEF TransportInv, Timely, EntriesAgree
  <2>5. /\ ~Released(circuit[k]).probe
        /\ Released(circuit[k]).open = circuit[k].open
        /\ Released(circuit[k]).openedAt = circuit[k].openedAt
        /\ Released(circuit[k]).consecutive = circuit[k].consecutive
    BY <2>2, <2>4 DEF Released, Entry
  <2>6. EntryAfter(c)
    BY <1>4, <2>2, <2>3, <2>4, <2>5, NoEntryAssumption DEF EntryAfter, Known
  <2> QED
    BY <1>1, <1>2, <1>3, <2>3, <2>6 DEF Ending, TypeOK
<1>5. CASE ~(call[c].probe /\ Known(k))
  <2>1. circuit' = circuit
    BY <1>5 DEF Surrender
  <2> QED
    BY <1>1, <1>2, <1>3, <1>5, <2>1 DEF Ending, EntryAfter, TypeOK, OthersKept
<1> QED
  BY <1>4, <1>5

LEMMA EndingStep ==
  ASSUME TransportInv, NEW c \in Call, Running(c), Ending(c), EntryAfter(c)
  PROVE  TransportInv'
<1> DEFINE k == CircuitOf[c]
<1>1. k \in Circuit /\ now \in Nat /\ TypeOK
  BY CallAssumption DEF TransportInv, TypeOK
<1>2. TypeOK'
  BY <1>1 DEF Ending, TypeOK
<1>3. \A j \in Circuit : j # k /\ Known(j)' => Known(j) /\ circuit'[j] = circuit[j]
  BY DEF Ending, OthersKept, Known
<1>4. \A d \in Call : Probing(d)' <=> Probing(d) /\ d # c
  BY DEF Ending, Probing, Running
<1>5. \A d \in Call : d # c => call'[d] = call[d]
  BY DEF Ending
<1>6. Timely'
  <2>1. \A j \in Circuit : Known(j)' => circuit'[j].openedAt <= now
    <3>1. ASSUME NEW j \in Circuit, Known(j)', j # k
          PROVE  circuit'[j].openedAt <= now
      BY <1>3, <3>1 DEF TransportInv, Timely
    <3>2. Known(k)' => circuit'[k].openedAt <= now
      BY <1>1 DEF EntryAfter, Known, TransportInv, Timely
    <3> QED
      BY <3>1, <3>2
  <2>2. \A d \in Call : call'[d].since <= now
    BY <1>1, <1>5 DEF Ending, TransportInv, Timely
  <2>3. \A d \in Call : Running(d)' => d # c /\ Running(d)
    BY <1>5 DEF Ending, Running
  <2>4. now' = now
    BY DEF Ending
  <2> QED
    BY <1>5, <2>1, <2>2, <2>3, <2>4 DEF TransportInv, Timely, Enforced
<1>7. EntriesAgree'
  <2>1. ASSUME NEW j \in Circuit, Known(j)', j # k
        PROVE  /\ circuit'[j].open => circuit'[j].consecutive >= Threshold
               /\ circuit'[j].probe => circuit'[j].open
    BY <1>3, <2>1 DEF TransportInv, EntriesAgree
  <2>2. Known(k)' => /\ circuit'[k].open => circuit'[k].consecutive >= Threshold
                     /\ circuit'[k].probe => circuit'[k].open
    BY <1>1 DEF EntryAfter, Known, TransportInv, EntriesAgree
  <2> QED
    BY <2>1, <2>2 DEF EntriesAgree, Known
<1>8. ShadowsNoProbes'
  BY <1>5 DEF Ending, TransportInv, ShadowsNoProbes, Enforced, Running
<1>9. OneProbe'
  BY <1>4 DEF TransportInv, OneProbe, Rivals, Steady, Enforced
<1>10. ReservationHeld'
  <2> SUFFICES ASSUME NEW j \in Circuit, Known(j)', circuit'[j].probe
               PROVE  \E d \in Call : CircuitOf[d] = j /\ Probing(d)'
    BY DEF ReservationHeld
  <2>1. Known(j) /\ circuit[j].probe /\ (j = k => ~call[c].probe)
    BY <1>1, <1>3 DEF EntryAfter, Known
  <2>2. PICK d \in Call : CircuitOf[d] = j /\ Probing(d)
    BY <2>1 DEF TransportInv, ReservationHeld
  <2>3. d # c
    BY <2>1, <2>2 DEF Probing
  <2> QED
    BY <1>4, <2>2, <2>3
<1>11. ProbesPlaced'
  <2> SUFFICES ASSUME NEW d \in Call, Probing(d)', IsOpen(CircuitOf[d])',
                      Steady(CircuitOf[d])
               PROVE  Placed(d)'
    BY DEF ProbesPlaced, Steady, Enforced
  <2>1. Probing(d) /\ d # c /\ call'[d] = call[d] /\ CircuitOf[d] \in Circuit
    BY <1>4, <1>5, CallAssumption
  <2>2. CASE circuit'[CircuitOf[d]] = circuit[CircuitOf[d]]
    BY <2>1, <2>2 DEF TransportInv, ProbesPlaced, Placed, IsOpen, Known
  <2>3. CASE CircuitOf[d] = k /\ circuit'[k] # circuit[k]
    <3>1. ~call[c].probe \/ ~Rivals(c, d)
      BY <2>1, <2>3 DEF TransportInv, OneProbe, Probing
    <3>2. ~call[c].probe
      BY <2>1, <2>3, <3>1 DEF Rivals
    <3>3. circuit'[k].open
      BY <2>3 DEF IsOpen
    <3>4. circuit'[k].openedAt = now
      BY <2>3, <3>2, <3>3 DEF EntryAfter
    <3>5. call[d].since <= now
      BY DEF TransportInv, Timely
    <3> QED
      BY <2>1, <2>3, <3>4, <3>5 DEF Placed
  <2>4. CASE CircuitOf[d] # k
    BY <1>3, <2>1, <2>2, <2>4 DEF IsOpen
  <2> QED
    BY <2>2, <2>3, <2>4
<1> QED
  BY <1>2, <1>6, <1>7, <1>8, <1>9, <1>10, <1>11 DEF TransportInv

LEMMA TickStep ==
  ASSUME TransportInv, Tick
  PROVE  TransportInv'
<1>1. /\ circuit' = circuit /\ age' = age /\ call' = call /\ now' = now + 1
      /\ now \in Nat /\ now' \in 0..MaxTime
  BY PolicyAssumption DEF Tick, TransportInv, TypeOK
<1>2. TypeOK'
  BY <1>1 DEF TransportInv, TypeOK
<1>3. Timely'
  <2>1. \A c \in Call : call[c].since \in Nat /\ Budget[c] \in Nat
    BY CallAssumption DEF TransportInv, TypeOK, CallState
  <2>2. \A k \in Circuit : Known(k) => circuit[k].openedAt \in Nat
    BY DEF TransportInv, TypeOK, Known, Entry
  <2>3. \A c \in Call : Running(c) /\ Enforced(c) => now < call[c].since + Budget[c]
    BY DEF Tick
  <2>4. \A c \in Call : call[c].since <= now + 1
    BY <1>1, <2>1 DEF TransportInv, Timely
  <2>5. \A c \in Call : Running(c) /\ Enforced(c) => now + 1 <= call[c].since + Budget[c]
    BY <1>1, <2>1, <2>3
  <2>6. \A k \in Circuit : Known(k) => circuit[k].openedAt <= now + 1
    BY <1>1, <2>2 DEF TransportInv, Timely
  <2> QED
    BY <1>1, <2>4, <2>5, <2>6 DEF Timely, Running, Enforced, Known
<1>4. EntriesAgree' /\ ShadowsNoProbes' /\ OneProbe' /\ ReservationHeld'
  BY <1>1 DEF TransportInv, EntriesAgree, ShadowsNoProbes, OneProbe, Rivals,
              ReservationHeld, Known, Running, Enforced, Probing, Steady
<1>5. ProbesPlaced'
  BY <1>1 DEF TransportInv, ProbesPlaced, Placed, Probing, Running, IsOpen,
              Known, Steady, Enforced
<1> QED
  BY <1>2, <1>3, <1>4, <1>5 DEF TransportInv

-----------------------------------------------------------------------------
(***************************************************************************)
(* The invariant of the transport envelope: every step of every call, and  *)
(* the passing of time, keeps it.                                          *)
(***************************************************************************)
THEOREM TransportInvariant == Spec => []TransportInv
<1>1. Init => TransportInv
  BY InitTransport
<1>2. TransportInv /\ [Next]_vars => TransportInv'
  <2> SUFFICES ASSUME TransportInv, [Next]_vars PROVE TransportInv'
    OBVIOUS
  <2>1. \/ \E c \in Call : \/ PlainArrival(c) \/ ProbeArrival(c)
                           \/ Conclusion(c) \/ Surrender(c)
        \/ Tick
        \/ UNCHANGED vars
    BY StepKinds DEF TransportInv
  <2>2. CASE \E c \in Call : PlainArrival(c)
    BY <2>2, ArrivalStep
  <2>3. CASE \E c \in Call : ProbeArrival(c)
    BY <2>3, ProbeStep
  <2>4. CASE \E c \in Call : Conclusion(c)
    <3>1. PICK c \in Call : Conclusion(c)
      BY <2>4
    <3>2. Running(c) /\ Ending(c) /\ EntryAfter(c)
      BY <3>1, ConclusionEnds DEF Conclusion
    <3> QED
      BY <3>2, EndingStep
  <2>5. CASE \E c \in Call : Surrender(c)
    <3>1. PICK c \in Call : Surrender(c)
      BY <2>5
    <3>2. Running(c) /\ Ending(c) /\ EntryAfter(c)
      BY <3>1, SurrenderEnds DEF Surrender
    <3> QED
      BY <3>2, EndingStep
  <2>6. CASE Tick
    BY <2>6, TickStep
  <2>7. CASE UNCHANGED vars
    <3>1. TypeOK' /\ Timely' /\ EntriesAgree' /\ ShadowsNoProbes'
      BY <2>7 DEF vars, TransportInv, TypeOK, Timely, EntriesAgree,
                  ShadowsNoProbes, Running, Enforced, Known
    <3>2. ProbesPlaced' /\ OneProbe' /\ ReservationHeld'
      BY <2>7 DEF vars, TransportInv, ProbesPlaced, Placed, OneProbe, Rivals,
                  ReservationHeld, Probing, Running, IsOpen, Known, Steady,
                  Enforced
    <3> QED
      BY <3>1, <3>2 DEF TransportInv
  <2> QED
    BY <2>1, <2>2, <2>3, <2>4, <2>5, <2>6, <2>7
<1> QED
  BY <1>1, <1>2, PTL DEF Spec

(***************************************************************************)
(* The state of the envelope keeps its types; the memory of circuits stays *)
(* within its capacity.                                                    *)
(***************************************************************************)
THEOREM TransportTypeCorrect == Spec => []TypeOK
<1>1. TransportInv => TypeOK
  BY DEF TransportInv
<1> QED
  BY <1>1, TransportInvariant, PTL

(***************************************************************************)
(* runMcpGuarded sends one half-open probe at a time to a server whose     *)
(* calls have budgets below the cooldown.                                  *)
(***************************************************************************)
THEOREM ProbesAreSingle == Spec => []OneProbe
<1>1. TransportInv => OneProbe
  BY DEF TransportInv
<1> QED
  BY <1>1, TransportInvariant, PTL

(***************************************************************************)
(* No circuit is left half-open and busy by a probe that has ended: every  *)
(* way out of runMcpGuarded gives the place of the probe back.             *)
(***************************************************************************)
THEOREM ReservationsAreHeld == Spec => []ReservationHeld
<1>1. TransportInv => ReservationHeld
  BY DEF TransportInv
<1> QED
  BY <1>1, TransportInvariant, PTL

-----------------------------------------------------------------------------
(* Refusals are earned: a circuit counts no failure that no call had.      *)

Fell(k) == {d \in Call : CircuitOf[d] = k /\ call[d].outcome \in Failures}

CountInv ==
  /\ \A c \in Call : call[c].stage # "done" => call[c].outcome = "none"
  /\ \A k \in Circuit : Known(k) => circuit[k].consecutive <= Cardinality(Fell(k))
  /\ \A c \in Call : call[c].outcome = "open" =>
        Threshold <= Cardinality(Fell(CircuitOf[c]))

\* A set of calls has a size, and a larger set is not smaller.
LEMMA CallsCount ==
  ASSUME NEW S, NEW T, S \subseteq T, T \subseteq Call
  PROVE  /\ IsFiniteSet(S) /\ IsFiniteSet(T)
         /\ Cardinality(S) \in Nat /\ Cardinality(T) \in Nat
         /\ Cardinality(S) <= Cardinality(T)
<1>1. IsFiniteSet(T)
  BY CallAssumption, FS_Subset
<1> QED
  BY <1>1, FS_Subset, FS_CardinalityType

\* What a step of the call c may do to the counts.
Tallies(c) ==
  /\ call[c].stage # "done"
  /\ \A d \in Call : d # c => call'[d] = call[d]
  /\ call'[c].stage # "done" => call'[c].outcome = "none"
  /\ call'[c].outcome = "open" => IsOpen(CircuitOf[c])
  /\ \A k \in Circuit : Known(k)' =>
        \/ Known(k) /\ circuit'[k].consecutive = circuit[k].consecutive
        \/ circuit'[k].consecutive = 0
        \/ /\ k = CircuitOf[c] /\ call'[c].outcome \in Failures
           /\ circuit'[k].consecutive =
                (IF Known(k) THEN circuit[k].consecutive ELSE 0) + 1

LEMMA TalliesKeepCount ==
  ASSUME TransportInv, CountInv, NEW c \in Call, Tallies(c)
  PROVE  CountInv'
<1>1. call[c].outcome = "none"
  BY DEF CountInv, Tallies
<1>2. ASSUME NEW k
      PROVE  Fell(k) \subseteq Fell(k)'
  BY <1>1 DEF Fell, Failures, Tallies
<1>3. ASSUME NEW k
      PROVE  /\ Cardinality(Fell(k)) \in Nat /\ Cardinality(Fell(k)') \in Nat
             /\ Cardinality(Fell(k)) <= Cardinality(Fell(k)')
             /\ IsFiniteSet(Fell(k)) /\ IsFiniteSet(Fell(k)')
  <2>1. Fell(k)' \subseteq Call
    BY DEF Fell
  <2> QED
    BY <1>2, <2>1, CallsCount
<1>4. ASSUME NEW d \in Call, call'[d].stage # "done"
      PROVE  call'[d].outcome = "none"
  BY <1>4 DEF CountInv, Tallies
<1>5. ASSUME NEW k \in Circuit, Known(k)'
      PROVE  circuit'[k].consecutive <= Cardinality(Fell(k)')
  <2> DEFINE old == IF Known(k) THEN circuit[k].consecutive ELSE 0
  <2>1. old \in Nat /\ old <= Cardinality(Fell(k))
    <3>1. CASE Known(k)
      <4>1. circuit[k] \in Entry
        BY <3>1 DEF TransportInv, TypeOK, Known
      <4> QED
        BY <3>1, <4>1 DEF CountInv, Entry
    <3>2. CASE ~Known(k)
      BY <1>3, <3>2
    <3> QED
      BY <3>1, <3>2
  <2>2. CASE Known(k) /\ circuit'[k].consecutive = circuit[k].consecutive
    BY <1>3, <2>1, <2>2
  <2>3. CASE circuit'[k].consecutive = 0
    BY <1>3, <2>3
  <2>4. CASE /\ k = CircuitOf[c] /\ call'[c].outcome \in Failures
             /\ circuit'[k].consecutive = old + 1
    <3>1. c \notin Fell(k) /\ c \in Fell(k)'
      BY <1>1, <2>4 DEF Fell, Failures
    <3>2. Fell(k) \cup {c} \subseteq Fell(k)' /\ Fell(k)' \subseteq Call
      BY <1>2, <3>1 DEF Fell
    <3>3. Cardinality(Fell(k) \cup {c}) = Cardinality(Fell(k)) + 1
      BY <1>3, <3>1, FS_AddElement
    <3>4. Cardinality(Fell(k) \cup {c}) <= Cardinality(Fell(k)')
      BY <3>2, CallsCount
    <3> HIDE DEF old
    <3> QED
      BY <1>3, <2>1, <2>4, <3>3, <3>4
  <2> QED
    BY <1>5, <2>2, <2>3, <2>4 DEF Tallies
<1>6. ASSUME NEW d \in Call, call'[d].outcome = "open"
      PROVE  Threshold <= Cardinality(Fell(CircuitOf[d])')
  <2> DEFINE k == CircuitOf[d]
  <2>1. Threshold \in Nat /\ k \in Circuit
    BY PolicyAssumption, CallAssumption
  <2>2. Threshold <= Cardinality(Fell(k))
    <3>1. CASE d = c
      <4>1. IsOpen(k)
        BY <1>6, <3>1 DEF Tallies
      <4>2. circuit[k] \in Entry /\ circuit[k].consecutive >= Threshold
        BY <2>1, <4>1 DEF IsOpen, Known, TransportInv, TypeOK, EntriesAgree
      <4>3. circuit[k].consecutive <= Cardinality(Fell(k))
        BY <2>1, <4>1 DEF CountInv, IsOpen
      <4>4. circuit[k].consecutive \in Nat
        BY <4>2 DEF Entry
      <4> QED
        BY <1>3, <2>1, <4>2, <4>3, <4>4
    <3>2. CASE d # c
      BY <1>6, <3>2 DEF Tallies, CountInv
    <3> QED
      BY <3>1, <3>2
  <2> QED
    BY <1>3, <2>1, <2>2
<1> QED
  BY <1>4, <1>5, <1>6 DEF CountInv

\* An entry that is written counts as the one it replaces, from zero, or one
\* failure more.
LEMMA WriteTallies ==
  ASSUME TypeOK, NEW c \in Call, NEW e \in Entry, Write(CircuitOf[c], e),
         \/ Known(CircuitOf[c]) /\ e.consecutive = circuit[CircuitOf[c]].consecutive
         \/ e.consecutive = 0
         \/ /\ call'[c].outcome \in Failures
            /\ e.consecutive = (IF Known(CircuitOf[c])
                                THEN circuit[CircuitOf[c]].consecutive ELSE 0) + 1
  PROVE  \A k \in Circuit : Known(k)' =>
            \/ Known(k) /\ circuit'[k].consecutive = circuit[k].consecutive
            \/ circuit'[k].consecutive = 0
            \/ /\ k = CircuitOf[c] /\ call'[c].outcome \in Failures
               /\ circuit'[k].consecutive =
                    (IF Known(k) THEN circuit[k].consecutive ELSE 0) + 1
<1>1. CircuitOf[c] \in Circuit
  BY CallAssumption
<1>2. circuit'[CircuitOf[c]] = e /\ OthersKept(CircuitOf[c])
  BY <1>1, WriteEffect
<1> QED
  BY <1>1, <1>2 DEF OthersKept, Known

LEMMA CallTallies ==
  ASSUME TransportInv, CountInv, NEW c \in Call,
         \/ RefuseContract(c) \/ RefuseOpen(c) \/ RefuseAborted(c)
         \/ Admit(c) \/ AdmitProbe(c) \/ AdmitShadow(c)
         \/ Succeed(c) \/ ServerError(c) \/ Timeout(c) \/ Overrun(c) \/ Abort(c)
  PROVE  Tallies(c)
<1> DEFINE k == CircuitOf[c]
           New(stage, probe, o) == [stage |-> stage, probe |-> probe,
                                    since |-> now, outcome |-> o]
           Sets(stage, probe, o) == call' = [call EXCEPT ![c] = New(stage, probe, o)]
<1>1. /\ k \in Circuit /\ TypeOK /\ call \in [Call -> CallState]
      /\ Known(k) => circuit[k] \in Entry
      /\ Closed \in Entry /\ Failed(k) \in Entry
      /\ Known(k) => Reserved(circuit[k]) \in Entry /\ Released(circuit[k]) \in Entry
  BY CallAssumption, EntriesTyped DEF TransportInv, TypeOK, Known
<1>2. ASSUME NEW stage, NEW probe, NEW o, Sets(stage, probe, o)
      PROVE  /\ call'[c].stage = stage /\ call'[c].outcome = o
             /\ \A d \in Call : d # c => call'[d] = call[d]
  BY <1>1, <1>2
<1>3. Unwritten => \A j \in Circuit : Known(j)' =>
                     Known(j) /\ circuit'[j].consecutive = circuit[j].consecutive
  BY DEF Unwritten, Known
<1>4. Known(k) => /\ Reserved(circuit[k]).consecutive = circuit[k].consecutive
                  /\ Released(circuit[k]).consecutive = circuit[k].consecutive
                  /\ Released(Reserved(circuit[k])).consecutive = circuit[k].consecutive
                  /\ Released(Reserved(circuit[k])) \in Entry
  BY <1>1 DEF Reserved, Released, Entry
<1>5. Failed(k).consecutive = (IF Known(k) THEN circuit[k].consecutive ELSE 0) + 1
  BY DEF Failed, Closed
<1>6. ASSUME RefuseContract(c) PROVE Tallies(c)
  <2>1. Sets("done", FALSE, "contract") /\ call[c].stage = "idle"
    BY <1>6 DEF RefuseContract, End, Arrives
  <2> QED
    BY <1>2, <1>3, <1>6, <2>1 DEF RefuseContract, Tallies
<1>7. ASSUME RefuseOpen(c) PROVE Tallies(c)
  <2>1. Sets("done", FALSE, "open") /\ call[c].stage = "idle" /\ IsOpen(k)
    BY <1>7 DEF RefuseOpen, MayEnter, End, Arrives, Refusing
  <2> QED
    BY <1>2, <1>3, <1>7, <2>1 DEF RefuseOpen, Tallies
<1>8. ASSUME RefuseAborted(c) PROVE Tallies(c)
  <2>1. Sets("done", FALSE, "aborted") /\ call[c].stage = "idle"
    BY <1>8 DEF RefuseAborted, MayEnter, End, Arrives
  <2>2. CASE ~IsOpen(k)
    BY <1>2, <1>3, <1>8, <2>1, <2>2 DEF RefuseAborted, Tallies
  <2>3. CASE IsOpen(k)
    <3>1. Write(k, Released(Reserved(circuit[k]))) /\ Known(k)
      BY <1>8, <2>3 DEF RefuseAborted, IsOpen
    <3> QED
      BY <1>1, <1>2, <1>4, <2>1, <3>1, WriteTallies DEF Tallies
  <2> QED
    BY <2>2, <2>3
<1>9. ASSUME Admit(c) \/ AdmitShadow(c) PROVE Tallies(c)
  <2>1. Sets("running", FALSE, "none") /\ call[c].stage = "idle" /\ Unwritten
    BY <1>9 DEF Admit, AdmitShadow, MayEnter, Begin, Arrives
  <2> QED
    BY <1>2, <1>3, <2>1 DEF Tallies
<1>10. ASSUME AdmitProbe(c) PROVE Tallies(c)
  <2>1. /\ Sets("running", TRUE, "none") /\ call[c].stage = "idle"
        /\ Write(k, Reserved(circuit[k])) /\ Known(k)
    BY <1>10 DEF AdmitProbe, MayEnter, Begin, Arrives, IsOpen
  <2> QED
    BY <1>1, <1>2, <1>4, <2>1, WriteTallies DEF Tallies
<1>11. ASSUME Succeed(c) PROVE Tallies(c)
  <2>1. /\ Sets("done", FALSE, "value") /\ call[c].stage = "running"
        /\ Write(k, Closed) /\ Closed.consecutive = 0
    BY <1>11 DEF Succeed, Concludes, Running, End, RecordSuccess, Closed
  <2> QED
    BY <1>1, <1>2, <2>1, WriteTallies DEF Tallies
<1>12. ASSUME ServerError(c) \/ Timeout(c) \/ Overrun(c) PROVE Tallies(c)
  <2>1. PICK o \in Failures : Sets("done", FALSE, o)
    BY <1>12 DEF ServerError, Timeout, Overrun, End, Failures
  <2>2. call[c].stage = "running" /\ Write(k, Failed(k))
    BY <1>12 DEF ServerError, Timeout, Overrun, Concludes, Running, RecordFailure
  <2>3. call'[c].outcome = o /\ o # "open"
    BY <1>2, <2>1 DEF Failures
  <2> QED
    BY <1>1, <1>2, <1>5, <2>1, <2>2, <2>3, WriteTallies DEF Tallies
<1>13. ASSUME Abort(c) PROVE Tallies(c)
  <2>1. Sets("done", FALSE, "aborted") /\ call[c].stage = "running"
    BY <1>13 DEF Abort, Concludes, Running, End
  <2>2. CASE Unwritten
    BY <1>2, <1>3, <2>1, <2>2 DEF Tallies
  <2>3. CASE Known(k) /\ Write(k, Released(circuit[k]))
    BY <1>1, <1>2, <1>4, <2>1, <2>3, WriteTallies DEF Tallies
  <2> QED
    BY <1>13, <2>2, <2>3 DEF Abort, GivenUp, ReleaseProbe
<1> QED
  BY <1>6, <1>7, <1>8, <1>9, <1>10, <1>11, <1>12, <1>13

LEMMA CountsHold == Spec => []CountInv
<1>1. Init => CountInv
  BY DEF Init, CountInv, Known
<1>2. ASSUME TransportInv, CountInv, [Next]_vars PROVE CountInv'
  <2>1. ASSUME circuit' = circuit, call' = call PROVE CountInv'
    BY <1>2, <2>1 DEF CountInv, Fell, Known
  <2> QED
    BY <1>2, <2>1, CallTallies, TalliesKeepCount DEF Next, Tick, vars
<1> QED
  BY TransportInvariant, <1>1, <1>2, PTL DEF Spec

(***************************************************************************)
(* A call is refused for its circuit only after as many calls of that      *)
(* circuit failed as the policy asks for, for any calls, circuits and      *)
(* thresholds, whatever is given up, shadowed or evicted.                  *)
(***************************************************************************)
THEOREM EveryRefusalIsEarned == Spec => []RefusalsEarned
<1>1. ASSUME CountInv PROVE RefusalsEarned
  <2> SUFFICES ASSUME NEW c \in Call, call[c].outcome = "open"
               PROVE  Cardinality({d \in Call : Rivals(c, d) /\ call[d].outcome \in Failures})
                        >= Threshold
    BY DEF RefusalsEarned
  <2>1. {d \in Call : Rivals(c, d) /\ call[d].outcome \in Failures} = Fell(CircuitOf[c])
    BY DEF Rivals, Fell, Failures
  <2>2. Threshold \in Nat /\ Threshold <= Cardinality(Fell(CircuitOf[c]))
    BY <1>1, PolicyAssumption DEF CountInv
  <2>3. Cardinality(Fell(CircuitOf[c])) \in Nat
    BY CallsCount DEF Fell
  <2> QED
    BY <2>1, <2>2, <2>3
<1> QED
  BY CountsHold, <1>1, PTL
-----------------------------------------------------------------------------
(* Left alone: while nothing but failures of one circuit was recorded since *)
(* some call, the circuit counts them all, and when they are enough it is   *)
(* open since the last of them.                                             *)

StreakInv ==
  \A a \in Call : InARow(CircuitOf[a], a) =>
     LET e == circuit[CircuitOf[a]] IN
     /\ Known(CircuitOf[a]) /\ Cardinality(Since(a)) <= e.consecutive
     /\ Cardinality(Since(a)) >= Threshold =>
          e.open /\ \A b \in Since(a) : call[b].since <= e.openedAt

\* A step that records no outcome keeps what the circuits count.
Unrecorded(c) ==
  /\ ~Recorded(c) /\ ~Recorded(c)'
  /\ \A d \in Call : d # c => call'[d] = call[d]
  /\ \A k \in Circuit : Known(k) =>
       /\ Known(k)' /\ circuit'[k].consecutive = circuit[k].consecutive
       /\ circuit'[k].open = circuit[k].open
       /\ circuit'[k].openedAt = circuit[k].openedAt

\* One that does records it now; if it is a failure its circuit counts it.
Records(c) ==
  /\ ~Recorded(c) /\ Recorded(c)' /\ call'[c].since = now
  /\ \A d \in Call : d # c => call'[d] = call[d]
  /\ call'[c].outcome \in Failures => circuit'[CircuitOf[c]] = Failed(CircuitOf[c])

LEMMA SinceCounts ==
  ASSUME NEW a
  PROVE  /\ IsFiniteSet(Since(a)) /\ Cardinality(Since(a)) \in Nat
         /\ Since(a) \subseteq Call
<1>1. Since(a) \subseteq Call
  BY DEF Since
<1> QED
  BY <1>1, CallsCount

LEMMA UnrecordedKeeps ==
  ASSUME StreakInv, NEW c \in Call, Unrecorded(c)
  PROVE  StreakInv'
<1> SUFFICES ASSUME NEW a \in Call, InARow(CircuitOf[a], a)'
             PROVE  LET e == circuit'[CircuitOf[a]] IN
                    /\ Known(CircuitOf[a])'
                    /\ Cardinality(Since(a)') <= e.consecutive
                    /\ Cardinality(Since(a)') >= Threshold =>
                         e.open /\ \A b \in Since(a)' : call'[b].since <= e.openedAt
  BY DEF StreakInv
<1> DEFINE k == CircuitOf[a]
<1>1. k \in Circuit
  BY CallAssumption
<1>2. \A d \in Call : d # c => (Recorded(d)' <=> Recorded(d))
  BY DEF Unrecorded, Recorded
<1>3. a # c
  BY DEF Unrecorded, InARow
<1>4. Since(a)' = Since(a)
  BY <1>2, <1>3 DEF Unrecorded, Since
<1>5. \A d \in Since(a) : d # c /\ call'[d] = call[d]
  BY DEF Unrecorded, Since
<1>6. InARow(k, a)
  BY <1>2, <1>3, <1>4, <1>5 DEF InARow
<1>7. /\ Known(k) /\ Cardinality(Since(a)) <= circuit[k].consecutive
      /\ Cardinality(Since(a)) >= Threshold =>
           circuit[k].open /\ \A b \in Since(a) : call[b].since <= circuit[k].openedAt
  BY <1>6 DEF StreakInv
<1> QED
  BY <1>1, <1>4, <1>5, <1>7 DEF Unrecorded

LEMMA RecordsKeep ==
  ASSUME TransportInv, StreakInv, NEW c \in Call, Records(c)
  PROVE  StreakInv'
<1> SUFFICES ASSUME NEW a \in Call, InARow(CircuitOf[a], a)'
             PROVE  LET e == circuit'[CircuitOf[a]] IN
                    /\ Known(CircuitOf[a])'
                    /\ Cardinality(Since(a)') <= e.consecutive
                    /\ Cardinality(Since(a)') >= Threshold =>
                         e.open /\ \A b \in Since(a)' : call'[b].since <= e.openedAt
  BY DEF StreakInv
<1> DEFINE k == CircuitOf[a]
           old == IF Known(k) THEN circuit[k].consecutive ELSE 0
<1>1. /\ k \in Circuit /\ now \in Nat /\ Threshold \in Nat
      /\ \A d \in Call : call[d].since \in Nat /\ call[d].since <= now
  BY CallAssumption, PolicyAssumption DEF TransportInv, TypeOK, Timely, CallState
<1>2. \A d \in Call : call'[d].since <= now /\ call'[d].since \in Nat
  BY <1>1 DEF Records
<1>3. c \in Since(a)'
  BY <1>1, <1>2 DEF Records, Since
<1>4. CircuitOf[c] = k /\ circuit'[k] = Failed(k)
  BY <1>3 DEF InARow, Records
<1>5. /\ Failed(k) \in Entry /\ Failed(k).consecutive = old + 1
      /\ old + 1 >= Threshold => Failed(k).open /\ Failed(k).openedAt = now
      /\ old \in Nat
  <2>1. Known(k) => circuit[k] \in Entry
    BY <1>1 DEF Known, TransportInv, TypeOK
  <2>2. old \in Nat
    BY <2>1 DEF Entry
  <2>3. Failed(k) \in Entry
    BY <1>1, EntriesTyped DEF TransportInv
  <2> QED
    BY <2>2, <2>3 DEF Failed, Closed
<1> HIDE DEF old
<1>6. \A d \in Call : d # c => (Recorded(d)' <=> Recorded(d))
  BY DEF Records, Recorded
\* The failures before this one were counted before it.
<1>7. Cardinality(Since(a)') <= old + 1
  <2>1. CASE Since(a)' = {c}
    <3>1. Cardinality({c}) = 1
      BY FS_Singleton
    <3> QED
      BY <1>5, <2>1, <3>1
  <2>2. ASSUME NEW y \in Since(a)', y # c PROVE Cardinality(Since(a)') <= old + 1
    \* If the call is the first of them, another one at this time is as well.
    <3>1. PICK z \in Call : /\ z # c /\ Recorded(z) /\ call'[z] = call[z]
                            /\ call[z].since = call'[a].since
      <4>1. CASE a = c
        <5>1. y \in Call /\ Recorded(y) /\ call'[y] = call[y]
          BY <1>6, <2>2 DEF Since, Records
        <5>2. call[y].since = now
          BY <1>1, <2>2, <4>1, <5>1 DEF Since, Records
        <5> QED
          BY <2>2, <4>1, <5>1, <5>2 DEF Records
      <4>2. CASE a # c
        BY <1>6, <4>2 DEF Records, InARow
      <4> QED
        BY <4>1, <4>2
    <3>2. Since(a)' = Since(z) \cup {c} /\ c \notin Since(z)
      <4>1. c \notin Since(z)
        BY DEF Records, Since
      <4>2. \A d \in Call : d # c => (d \in Since(a)' <=> d \in Since(z))
        BY <1>6, <3>1 DEF Since, Records
      <4> QED
        BY <1>3, <4>1, <4>2 DEF Since
    <3>3. InARow(k, z)
      BY <3>1, <3>2 DEF InARow, Since, Records
    <3>4. CircuitOf[z] = k
      <4>1. z \in Since(z)
        BY <1>1, <3>1 DEF Since
      <4> QED
        BY <3>3, <4>1 DEF InARow
    <3>5. Cardinality(Since(z)) <= old
      BY <3>3, <3>4 DEF StreakInv, old
    <3>6. /\ IsFiniteSet(Since(z)) /\ Cardinality(Since(z)) \in Nat
          /\ Cardinality(Since(z) \cup {c}) = Cardinality(Since(z)) + 1
      BY <3>2, SinceCounts, FS_AddElement
    <3> QED
      BY <1>5, <3>2, <3>5, <3>6
  <2> QED
    BY <1>3, <2>1, <2>2
<1>8. Cardinality(Since(a)') \in Nat
  <2>1. Since(a)' \subseteq Call
    BY DEF Since
  <2> QED
    BY <2>1, CallsCount
<1>9. \A b \in Since(a)' : call'[b].since <= now
  BY <1>2 DEF Since
<1>10. Known(k)'
  BY <1>4, <1>5, NoEntryAssumption DEF Known
<1> QED
  BY <1>1, <1>4, <1>5, <1>7, <1>8, <1>9, <1>10

\* A circuit that is written as it was but for its probe counts the same.
LEMMA ProbeWritten ==
  ASSUME TypeOK, NEW k \in Circuit, NEW e, Known(k), Write(k, e),
         e \in {Reserved(circuit[k]), Released(circuit[k]),
                Released(Reserved(circuit[k]))}
  PROVE  \A j \in Circuit : Known(j) =>
           /\ Known(j)' /\ circuit'[j].consecutive = circuit[j].consecutive
           /\ circuit'[j].open = circuit[j].open
           /\ circuit'[j].openedAt = circuit[j].openedAt
<1>1. circuit[k] \in Entry /\ circuit \in [Circuit -> Entry \cup {NoEntry}]
  BY DEF TypeOK, Known
<1>2. circuit' = [circuit EXCEPT ![k] = e]
  BY DEF Write
<1>3. /\ e \in Entry /\ e.consecutive = circuit[k].consecutive
      /\ e.open = circuit[k].open /\ e.openedAt = circuit[k].openedAt
  BY <1>1 DEF Entry, Reserved, Released
<1> QED
  BY <1>1, <1>2, <1>3, NoEntryAssumption DEF Known

\* A call is recorded when its end is, and only then.
LEMMA CallRecords ==
  ASSUME TransportInv, CountInv, NEW c \in Call,
         \/ RefuseContract(c) \/ RefuseOpen(c) \/ RefuseAborted(c)
         \/ Admit(c) \/ AdmitProbe(c) \/ AdmitShadow(c)
         \/ Succeed(c) \/ ServerError(c) \/ Timeout(c) \/ Overrun(c) \/ Abort(c)
  PROVE  Unrecorded(c) \/ Records(c)
<1> DEFINE k == CircuitOf[c]
           New(stage, probe, o) == [stage |-> stage, probe |-> probe,
                                    since |-> now, outcome |-> o]
           Sets(stage, probe, o) == call' = [call EXCEPT ![c] = New(stage, probe, o)]
           Counts == \A j \in Circuit : Known(j) =>
             /\ Known(j)' /\ circuit'[j].consecutive = circuit[j].consecutive
             /\ circuit'[j].open = circuit[j].open
             /\ circuit'[j].openedAt = circuit[j].openedAt
<1>1. /\ k \in Circuit /\ TypeOK /\ call \in [Call -> CallState]
  BY CallAssumption DEF TransportInv, TypeOK
<1>2. call[c].stage \in {"idle", "running"}
  BY DEF RefuseContract, RefuseOpen, RefuseAborted, Admit, AdmitProbe, AdmitShadow,
         Succeed, ServerError, Timeout, Overrun, Abort, MayEnter, Arrives, Concludes,
         Running
<1>3. ~Recorded(c)
  BY <1>2 DEF CountInv, Recorded, Failures
<1>4. ASSUME NEW stage, NEW probe, NEW o, Sets(stage, probe, o)
      PROVE  /\ call'[c].outcome = o /\ call'[c].since = now
             /\ \A d \in Call : d # c => call'[d] = call[d]
  BY <1>1, <1>4
<1>5. Unwritten => Counts
  BY DEF Unwritten, Known
<1> HIDE DEF Counts
<1>6. ASSUME NEW stage, NEW probe, NEW o \in {"none", "open", "contract", "aborted"},
             Sets(stage, probe, o), Counts
      PROVE  Unrecorded(c)
  <2>1. ~Recorded(c)'
    BY <1>4, <1>6 DEF Recorded, Failures
  <2> QED
    BY <1>3, <1>4, <1>6, <2>1 DEF Unrecorded, Counts
<1>7. CASE RefuseContract(c) \/ RefuseOpen(c) \/ Admit(c) \/ AdmitShadow(c)
  <2>1. /\ Unwritten
        /\ \/ Sets("running", FALSE, "none")
           \/ Sets("done", FALSE, "open") \/ Sets("done", FALSE, "contract")
    BY <1>7 DEF RefuseContract, RefuseOpen, Admit, AdmitShadow, Begin, End
  <2> QED
    BY <1>5, <1>6, <2>1
<1>8. CASE RefuseAborted(c)
  <2>1. Sets("done", FALSE, "aborted")
    BY <1>8 DEF RefuseAborted, End
  <2>2. Counts
    BY <1>1, <1>5, <1>8, ProbeWritten DEF RefuseAborted, IsOpen, Counts
  <2> QED
    BY <1>6, <2>1, <2>2
<1>9. CASE AdmitProbe(c)
  <2>1. Sets("running", TRUE, "none")
    BY <1>9 DEF AdmitProbe, Begin
  <2>2. Counts
    BY <1>1, <1>9, ProbeWritten DEF AdmitProbe, IsOpen, Counts
  <2> QED
    BY <1>6, <2>1, <2>2
<1>10. CASE Abort(c)
  <2>1. Sets("done", FALSE, "aborted")
    BY <1>10 DEF Abort, End
  <2>2. Counts
    BY <1>1, <1>5, <1>10, ProbeWritten DEF Abort, GivenUp, ReleaseProbe, Counts
  <2> QED
    BY <1>6, <2>1, <2>2
<1>11. CASE Succeed(c)
  <2>1. Sets("done", FALSE, "value")
    BY <1>11 DEF Succeed, End
  <2>2. /\ call'[c].outcome = "value" /\ call'[c].since = now
        /\ \A d \in Call : d # c => call'[d] = call[d]
    BY <1>1, <2>1
  <2> QED
    BY <1>3, <2>2 DEF Records, Recorded, Failures
<1>12. CASE ServerError(c) \/ Timeout(c) \/ Overrun(c)
  <2>1. PICK o \in Failures : Sets("done", FALSE, o)
    BY <1>12 DEF ServerError, Timeout, Overrun, End, Failures
  <2>2. /\ call'[c].outcome = o /\ call'[c].since = now
        /\ \A d \in Call : d # c => call'[d] = call[d]
    BY <1>1, <2>1
  <2>3. circuit'[k] = Failed(k)
    <3>1. Write(k, Failed(k))
      BY <1>12 DEF ServerError, Timeout, Overrun, RecordFailure
    <3> QED
      BY <1>1, <3>1, WriteEffect, EntriesTyped DEF TransportInv
  <2> QED
    BY <1>3, <2>2, <2>3 DEF Records, Recorded
<1> QED
  BY <1>7, <1>8, <1>9, <1>10, <1>11, <1>12

LEMMA StreaksHold == Spec => []StreakInv
<1>1. Init => StreakInv
  BY DEF Init, StreakInv, InARow, Recorded, Failures
<1>2. ASSUME TransportInv, CountInv, StreakInv, [Next]_vars PROVE StreakInv'
  <2>1. ASSUME circuit' = circuit, call' = call PROVE StreakInv'
    BY <1>2, <2>1 DEF StreakInv, InARow, Since, Recorded, Known
  <2> QED
    BY <1>2, <2>1, CallRecords, UnrecordedKeeps, RecordsKeep DEF Next, Tick, vars
<1> QED
  BY TransportInvariant, CountsHold, <1>1, <1>2, PTL DEF Spec

\* A circuit that failed in a row within the cooldown refuses its calls.
LEMMA StreaksRefuse ==
  ASSUME TransportInv, StreakInv, NEW k \in Circuit, FailedInARow(k)
  PROVE  IsOpen(k) /\ Cooling(k)
<1>1. PICK a \in Call : /\ InARow(k, a) /\ Cardinality(Since(a)) >= Threshold
                        /\ \E b \in Since(a) : now < call[b].since + Cooldown
  BY DEF FailedInARow
<1>2. PICK b \in Since(a) : now < call[b].since + Cooldown
  BY <1>1
<1>3. CircuitOf[a] = k
  <2>1. call[a].since \in Nat
    BY DEF TransportInv, TypeOK, CallState
  <2> QED
    BY <1>1, <2>1 DEF InARow, Since
<1>4. /\ Known(k) /\ circuit[k].open /\ call[b].since <= circuit[k].openedAt
  BY <1>1, <1>2, <1>3 DEF StreakInv
<1>5. /\ now \in Nat /\ Cooldown \in Nat
      /\ call[b].since \in Nat /\ circuit[k].openedAt \in Nat
  <2>1. b \in Call
    BY <1>2 DEF Since
  <2> QED
    BY <1>4, <2>1, PolicyAssumption DEF TransportInv, TypeOK, CallState, Known, Entry
<1> QED
  BY <1>2, <1>4, <1>5 DEF IsOpen, Cooling

(***************************************************************************)
(* A server that failed as often in a row as the policy asks for is left   *)
(* alone for a cooldown after the last of these failures, whatever calls   *)
(* are given up, watched or refused meanwhile, for any threshold.          *)
(***************************************************************************)
THEOREM TroubledServersAreLeftAlone == Spec => LeftAlone
<1>1. ASSUME TransportInv, StreakInv, [Next]_vars
      PROVE  [ \A c \in Call \ Shadow :
                 ~Running(c) /\ Running(c)' => ~FailedInARow(CircuitOf[c]) ]_vars
  <2> SUFFICES ASSUME Next, NEW c \in Call \ Shadow, ~Running(c), Running(c)',
                      FailedInARow(CircuitOf[c])
               PROVE  FALSE
    BY <1>1
  <2>1. CircuitOf[c] \in Circuit
    BY CallAssumption
  <2>2. Refusing(CircuitOf[c])
    BY <1>1, <2>1, StreaksRefuse DEF Refusing
  <2>3. call \in [Call -> CallState]
    BY <1>1 DEF TransportInv, TypeOK
  <2>4. PICK d \in Call :
           \/ RefuseContract(d) \/ RefuseOpen(d) \/ RefuseAborted(d)
           \/ Admit(d) \/ AdmitProbe(d) \/ AdmitShadow(d)
           \/ Succeed(d) \/ ServerError(d) \/ Timeout(d) \/ Overrun(d) \/ Abort(d)
    BY DEF Next, Tick, Running
  <2>5. \/ Admit(d) \/ AdmitProbe(d) \/ AdmitShadow(d)
        \/ \E o : End(d, o)
    BY <2>4 DEF RefuseContract, RefuseOpen, RefuseAborted, Succeed, ServerError,
       Timeout, Overrun, Abort
  <2>6. \A o : ~End(d, o)
    BY <2>3 DEF End, Running
  <2>7. d = c
    BY <2>3, <2>5, <2>6 DEF Admit, AdmitProbe, AdmitShadow, Begin, Running
  <2> QED
    BY <2>2, <2>5, <2>6, <2>7
       DEF Admit, AdmitProbe, AdmitShadow, Enforced, Refusing
<1> QED
  BY TransportInvariant, StreaksHold, <1>1, PTL DEF Spec, LeftAlone
=============================================================================
