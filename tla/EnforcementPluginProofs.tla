---------------------- MODULE EnforcementPluginProofs ----------------------
(***************************************************************************)
(* Proofs about EnforcementPlugin for any instances, sessions, contexts    *)
(* and agents and for any sizes of the index and of the log.               *)
(*                                                                         *)
(* The two bounded tables of the process, the index of sessions and the    *)
(* keys of the rows, grow by the same operator: what it keeps and whom it  *)
(* drops is proved first, of any sequence without repetitions.             *)
(***************************************************************************)
EXTENDS EnforcementPlugin, FiniteSetTheorems, SequenceTheorems, TLAPS

-----------------------------------------------------------------------------
(* Bounded tables.                                                         *)

NoRepeats(s) == \A i, j \in 1 .. Len(s) : s[i] = s[j] => i = j

\* A sequence of at most cap elements of S, each once.
Table(S, cap) == {s \in Seq(S) : NoRepeats(s) /\ Len(s) <= cap}

\* A sequence without repetitions is as long as the set of its elements is big.
LEMMA NoRepeatsDistinct ==
  ASSUME NEW S, NEW s \in Seq(S), NoRepeats(s)
  PROVE  Distinct(s) /\ Elements(s) \subseteq S
<1> DEFINE n == Len(s)
<1>1. n \in Nat /\ s \in [1 .. n -> S] /\ DOMAIN s = 1 .. n
  BY LenProperties
<1>2. IsFiniteSet(1 .. n) /\ Cardinality(1 .. n) = n
  BY <1>1, FS_Interval, SMTT(20)
<1>3. s \in [1 .. n -> Elements(s)]
  BY <1>1 DEF Elements
<1>4. s \in Surjection(1 .. n, Elements(s))
  BY <1>1, <1>3 DEF Surjection, Elements
<1>5. s \in Injection(1 .. n, Elements(s))
  BY <1>1, <1>3 DEF Injection, IsInjective, NoRepeats
<1>6. Cardinality(Elements(s)) = n
  BY <1>2, <1>4, <1>5, FS_Surjection
<1>7. Elements(s) \subseteq S
  BY <1>1 DEF Elements
<1> QED
  BY <1>6, <1>7 DEF Distinct

LEMMA ElementsOfSeq ==
  ASSUME NEW S, NEW s \in Seq(S)
  PROVE  Elements(s) = {s[i] : i \in 1 .. Len(s)}
BY LenProperties DEF Elements

LEMMA NewElement ==
  ASSUME NEW S, NEW s \in Seq(S), NoRepeats(s), NEW x \in S, x \notin Elements(s)
  PROVE  /\ Append(s, x) \in Seq(S) /\ NoRepeats(Append(s, x))
         /\ Len(Append(s, x)) = Len(s) + 1
         /\ Elements(Append(s, x)) = Elements(s) \cup {x}
<1> DEFINE t == Append(s, x)
<1>1. /\ t \in Seq(S) /\ Len(t) = Len(s) + 1 /\ Len(s) \in Nat
      /\ \A i \in 1 .. Len(s) : t[i] = s[i]
      /\ t[Len(s) + 1] = x
  BY AppendProperties, LenProperties
<1>2. /\ Elements(s) = {s[i] : i \in 1 .. Len(s)}
      /\ Elements(t) = {t[i] : i \in 1 .. Len(t)}
  BY <1>1, ElementsOfSeq
<1> HIDE DEF t
<1>3. Elements(t) = Elements(s) \cup {x}
  <2>1. 1 .. Len(t) = (1 .. Len(s)) \cup {Len(s) + 1}
    BY <1>1
  <2> QED
    BY <1>1, <1>2, <2>1
<1>4. NoRepeats(t)
  <2> SUFFICES ASSUME NEW i \in 1 .. Len(t), NEW j \in 1 .. Len(t), t[i] = t[j]
               PROVE  i = j
    BY DEF NoRepeats
  <2>1. \A k \in 1 .. Len(s) : t[k] # x
    BY <1>1, <1>2
  <2>2. \A k \in 1 .. Len(t) : k \in 1 .. Len(s) \/ k = Len(s) + 1
    BY <1>1
  <2> QED
    BY <1>1, <2>1, <2>2 DEF NoRepeats
<1> QED
  BY <1>1, <1>3, <1>4 DEF t

LEMMA OldestGone ==
  ASSUME NEW S, NEW s \in Seq(S), NoRepeats(s), s # << >>
  PROVE  /\ Tail(s) \in Seq(S) /\ NoRepeats(Tail(s))
         /\ Len(Tail(s)) = Len(s) - 1
         /\ Elements(Tail(s)) = Elements(s) \ {Head(s)}
         /\ Head(s) \in Elements(s)
<1> DEFINE t == Tail(s)
<1>1. /\ t \in Seq(S) /\ Len(t) = Len(s) - 1 /\ Len(s) \in Nat \ {0}
      /\ \A i \in 1 .. Len(t) : t[i] = s[i + 1]
      /\ Head(s) = s[1]
  BY HeadTailProperties, EmptySeq
<1> HIDE DEF t
<1>2. /\ Elements(s) = {s[i] : i \in 1 .. Len(s)}
      /\ Elements(t) = {t[i] : i \in 1 .. Len(t)}
  BY <1>1, ElementsOfSeq
<1>3. \A i \in 1 .. Len(t) : i + 1 \in 1 .. Len(s) /\ i + 1 # 1
  BY <1>1
<1>4. \A i \in 1 .. Len(s) : i # 1 => i - 1 \in 1 .. Len(t) /\ t[i - 1] = s[i]
  BY <1>1
<1>5. 1 \in 1 .. Len(s)
  BY <1>1
<1>6. NoRepeats(t)
  BY <1>1, <1>3 DEF NoRepeats
<1>7. Elements(t) = Elements(s) \ {s[1]}
  <2>1. ASSUME NEW e \in Elements(t) PROVE e \in Elements(s) /\ e # s[1]
    BY <1>1, <1>2, <1>3, <1>5, <2>1 DEF NoRepeats
  <2>2. ASSUME NEW e \in Elements(s), e # s[1] PROVE e \in Elements(t)
    BY <1>2, <1>4, <2>2
  <2> QED
    BY <2>1, <2>2
<1> QED
  BY <1>1, <1>2, <1>5, <1>6, <1>7 DEF t

(***************************************************************************)
(* An element that is entered is in afterwards, and only the oldest, if    *)
(* there was no room for a new one, is not.                                *)
(***************************************************************************)
LEMMA TableInserted ==
  ASSUME NEW S, NEW cap \in Nat \ {0}, NEW s \in Table(S, cap), NEW x \in S
  PROVE  /\ Inserted(s, x, cap) \in Table(S, cap)
         /\ Elements(Inserted(s, x, cap)) = (Elements(s) \ Dropped(s, x, cap)) \cup {x}
         /\ Dropped(s, x, cap) = IF Evicts(s, x, cap) THEN {Head(s)} ELSE {}
         /\ Evicts(s, x, cap) => ~Present(s, x) /\ Head(s) \in Elements(s)
         /\ ~Evicts(s, x, cap) /\ ~Present(s, x) => Len(s) < cap
<1>1. s \in Seq(S) /\ NoRepeats(s) /\ Len(s) <= cap /\ Len(s) \in Nat
  BY LenProperties DEF Table
<1>2. CASE Present(s, x)
  <2>1. Inserted(s, x, cap) = s /\ ~Evicts(s, x, cap)
    BY <1>2 DEF Inserted, Evicts
  <2> QED
    BY <1>2, <2>1 DEF Dropped, Present
<1>3. CASE ~Present(s, x) /\ ~Evicts(s, x, cap)
  <2>1. Inserted(s, x, cap) = Append(s, x)
    BY <1>3 DEF Inserted
  <2>2. Len(s) < cap /\ x \notin Elements(s)
    BY <1>1, <1>3 DEF Evicts, Present
  <2>3. /\ Append(s, x) \in Table(S, cap)
        /\ Elements(Append(s, x)) = Elements(s) \cup {x}
    BY <1>1, <2>2, NewElement DEF Table
  <2> QED
    BY <1>3, <2>1, <2>2, <2>3 DEF Dropped
<1>4. CASE Evicts(s, x, cap)
  <2>1. ~Present(s, x) /\ x \notin Elements(s) /\ Len(s) = cap
    BY <1>1, <1>4 DEF Evicts, Present
  <2>2. Inserted(s, x, cap) = Append(Tail(s), x)
    BY <1>4, <2>1 DEF Inserted
  <2>3. s # << >>
    BY <1>1, <2>1, EmptySeq
  <2>4. /\ Tail(s) \in Seq(S) /\ NoRepeats(Tail(s)) /\ Len(Tail(s)) = cap - 1
        /\ Elements(Tail(s)) = Elements(s) \ {Head(s)} /\ Head(s) \in Elements(s)
    BY <1>1, <2>1, <2>3, OldestGone
  <2>5. /\ Append(Tail(s), x) \in Table(S, cap)
        /\ Elements(Append(Tail(s), x)) = (Elements(s) \ {Head(s)}) \cup {x}
    <3> DEFINE u == Tail(s)
    <3>1. x \notin Elements(u) /\ u \in Seq(S) /\ NoRepeats(u)
      BY <2>1, <2>4
    <3> HIDE DEF u
    <3>2. /\ Append(u, x) \in Seq(S) /\ NoRepeats(Append(u, x))
          /\ Len(Append(u, x)) = Len(u) + 1
          /\ Elements(Append(u, x)) = Elements(u) \cup {x}
      BY <3>1, NewElement
    <3>3. Len(u) = cap - 1 /\ Elements(u) = Elements(s) \ {Head(s)}
      BY <2>4 DEF u
    <3>4. Append(u, x) \in Table(S, cap)
      BY <3>2, <3>3 DEF Table
    <3> QED
      BY <3>2, <3>3, <3>4 DEF u
  <2>6. Dropped(s, x, cap) = {Head(s)}
    BY <2>1, <2>2, <2>4, <2>5 DEF Dropped
  <2> QED
    BY <1>4, <2>1, <2>2, <2>4, <2>5, <2>6
<1> QED
  BY <1>2, <1>3, <1>4

-----------------------------------------------------------------------------
(* The inductive invariant.                                                *)

\* Who is known to have a parent is in the index, and its entry says so.
ParentsIndexed ==
  parented \subseteq Elements(order) /\ \A s \in parented : entry[s].parent

IndexInv ==
  /\ order \in Table(Sessions, IndexCap)
  /\ entry \in [Sessions -> Entries]
  /\ \A s \in Sessions \ Elements(order) : entry[s] = NoEntry
  /\ ParentsIndexed

LogInv ==
  /\ logged \in Table(Keys, LogCap) /\ rows \in [Keys -> Nat]
  /\ RowsOnce

HostInv ==
  /\ inst \in [Instances -> {"off", "on", "aborted"}]
  /\ pending \in [Instances -> Events \cup {NoEvent}]
  /\ array \in [Contexts -> Arrays]

PluginInv == IndexInv /\ LogInv /\ HostInv /\ OneMandate /\ CleanAfterwards

LEMMA PluginInvTypes == PluginInv => TypeOK
<1> SUFFICES ASSUME PluginInv PROVE TypeOK
  OBVIOUS
<1>1. order \in Seq(Sessions) /\ NoRepeats(order) /\ Len(order) <= IndexCap
  BY DEF PluginInv, IndexInv, Table
<1>2. logged \in Seq(Keys) /\ NoRepeats(logged) /\ Len(logged) <= LogCap
  BY DEF PluginInv, LogInv, Table
<1>3. /\ Elements(order) \subseteq Sessions /\ Distinct(order)
      /\ Elements(logged) \subseteq Keys /\ Distinct(logged)
  BY <1>1, <1>2, NoRepeatsDistinct
<1> QED
  BY <1>1, <1>2, <1>3
     DEF PluginInv, IndexInv, ParentsIndexed, LogInv, HostInv, TypeOK

LEMMA EmptyTable ==
  ASSUME NEW S, NEW cap \in Nat
  PROVE  << >> \in Table(S, cap) /\ Elements(<< >>) = {}
<1>1. << >> \in Seq(S) /\ Len(<< >>) = 0
  BY EmptySeq
<1>2. 1 .. 0 = {}
  OBVIOUS
<1>3. Elements(<< >>) = {<< >>[i] : i \in 1 .. 0}
  BY <1>1, ElementsOfSeq
<1> QED
  BY <1>1, <1>2, <1>3 DEF Table, NoRepeats

LEMMA PluginInvInit == Init => PluginInv
<1> SUFFICES ASSUME Init PROVE PluginInv
  OBVIOUS
<1>1. /\ IndexCap \in Nat /\ LogCap \in Nat
      /\ << >> \in Table(Sessions, IndexCap) /\ << >> \in Table(Keys, LogCap)
      /\ Elements(<< >>) = {}
  BY PluginAssumption, EmptyTable
<1>2. NoEntry \in Entries
  BY DEF NoEntry, Entries
<1>3. IndexInv
  BY <1>1, <1>2 DEF Init, IndexInv, ParentsIndexed
<1>4. LogInv
  BY <1>1 DEF Init, LogInv, RowsOnce, Present
<1>5. \A c \in Contexts : array[c] \in Arrays /\ array[c].mandates = << >>
  <2>1. << >> \in Seq(Kinds)
    BY EmptySeq
  <2> QED
    BY <2>1 DEF Init, Arrays
<1>6. array \in [Contexts -> Arrays]
  <2>1. array \in [Contexts -> [session : Sessions, plain : BOOLEAN, mandates : {<<>>}]]
    BY DEF Init
  <2> QED
    BY <1>5, <2>1
<1>7. HostInv
  BY <1>6 DEF Init, HostInv
<1>8. OneMandate
  BY <1>5, EmptySeq DEF OneMandate
<1>9. CleanAfterwards
  BY DEF Init, CleanAfterwards
<1> QED
  BY <1>3, <1>4, <1>7, <1>8, <1>9 DEF PluginInv

-----------------------------------------------------------------------------
(* The steps.                                                              *)

\* An event enters its session in the index; what is known of the others
\* that stay is kept.
LEMMA EventIndexed ==
  ASSUME IndexInv, NEW e \in Events, RecordSessionEvent(e)
  PROVE  IndexInv'
<1> DEFINE out == Dropped(order, e.id, IndexCap)
<1>1. /\ e.id \in Sessions /\ e.parent \in BOOLEAN /\ e.agent \in Agents
      /\ IndexCap \in Nat \ {0}
  BY PluginAssumption DEF Events
<1>2. /\ order' \in Table(Sessions, IndexCap)
      /\ Elements(order') = (Elements(order) \ out) \cup {e.id}
      /\ out = IF Evicts(order, e.id, IndexCap) THEN {Head(order)} ELSE {}
      /\ Evicts(order, e.id, IndexCap) => ~Present(order, e.id)
  BY <1>1, TableInserted DEF RecordSessionEvent, IndexInv
<1>3. Elements(order) \subseteq Sessions
  BY NoRepeatsDistinct DEF IndexInv, Table
<1>4. e.id \notin out
  BY DEF Dropped, Inserted, Present, Evicts
<1>5. entry' = [s \in Sessions |-> IF s = e.id THEN Merged(entry[s], e)
                                  ELSE IF s \in out THEN NoEntry ELSE entry[s]]
  BY DEF RecordSessionEvent
<1>6. parented' = (parented \ out) \cup (IF e.parent THEN {e.id} ELSE {})
  <2>1. Len(order) < IndexCap <=> ~(Len(order) >= IndexCap)
    BY <1>1, LenProperties DEF IndexInv, Table
  <2>2. Outlive(e.id) = parented \ out
    BY <1>2, <2>1 DEF Outlive, Evicts
  <2> QED
    BY <2>2 DEF RecordSessionEvent
<1> HIDE DEF out
<1>7. Merged(entry[e.id], e) \in Entries /\ NoEntry \in Entries
  BY <1>1 DEF IndexInv, Entries, Merged, NoEntry
<1>8. entry' \in [Sessions -> Entries]
  BY <1>5, <1>7 DEF IndexInv
<1>9. \A s \in Sessions \ Elements(order') : entry'[s] = NoEntry
  BY <1>2, <1>5 DEF IndexInv
<1>10. ParentsIndexed'
  <2> SUFFICES ASSUME NEW s \in parented'
               PROVE  s \in Elements(order') /\ entry'[s].parent
    BY DEF ParentsIndexed
  <2>1. CASE s \in parented \ out /\ s # e.id
    <3>1. s \in Elements(order) /\ entry[s].parent
      BY <2>1 DEF IndexInv, ParentsIndexed
    <3> QED
      BY <1>2, <1>3, <1>5, <2>1, <3>1
  <2>2. CASE s = e.id
    <3>1. entry'[s].parent <=> (entry[s].parent \/ e.parent)
      BY <1>1, <1>5, <2>2 DEF Merged
    <3>2. s \in parented \/ e.parent
      BY <1>6, <2>2
    <3>3. s \in parented => entry[s].parent
      BY DEF IndexInv, ParentsIndexed
    <3> QED
      BY <1>2, <2>2, <3>1, <3>2, <3>3
  <2> QED
    BY <1>6, <2>1, <2>2
<1> QED
  BY <1>2, <1>8, <1>9, <1>10 DEF IndexInv

\* A row is written for a key that is not remembered, and remembered then.
LEMMA RowWritten ==
  ASSUME LogInv, NEW k \in Keys, NEW writable \in BOOLEAN, Row(k, writable)
  PROVE  LogInv'
<1>1. CASE UNCHANGED log
  BY <1>1 DEF log, LogInv, RowsOnce
<1>2. CASE ~UNCHANGED log
  <2> DEFINE out == Dropped(logged, k, LogCap)
  <2>1. /\ ~Present(logged, k)
        /\ logged' = Inserted(logged, k, LogCap)
        /\ rows' = [j \in Keys |-> IF j \in out THEN 0
                                  ELSE IF j = k THEN rows[j] + 1 ELSE rows[j]]
    BY <1>2 DEF Row
  <2>2. /\ logged' \in Table(Keys, LogCap)
        /\ Elements(logged') = (Elements(logged) \ out) \cup {k}
    BY <2>1, PluginAssumption, TableInserted DEF LogInv
  <2>3. k \notin out
    BY <2>1 DEF Dropped, Present
  <2> HIDE DEF out
  <2>4. rows' \in [Keys -> Nat]
    BY <2>1 DEF LogInv
  <2>5. ASSUME NEW j \in Keys
        PROVE  rows'[j] = IF Present(logged', j) THEN 1 ELSE 0
    BY <2>1, <2>2, <2>3 DEF LogInv, RowsOnce, Present
  <2>6. RowsOnce'
    BY <2>5 DEF RowsOnce, Present
  <2> QED
    BY <2>2, <2>4, <2>6 DEF LogInv
<1> QED
  BY <1>1, <1>2

LEMMA RoleIsKind ==
  ASSUME NEW s, NEW probe
  PROVE  /\ ResolveRole(s, probe) \in Kinds
         /\ entry[s].parent => ResolveRole(s, probe) = "worker"
BY DEF ResolveRole, RoleOfEntry, Roles, Kinds

\* What the hook of one instance does to a context.
LEMMA ContextWritten ==
  ASSUME PluginInv, NEW i \in Instances, NEW c \in Contexts, NEW probe \in Agents,
         NEW writable \in BOOLEAN, Context(i, c, probe, writable)
  PROVE  /\ array'[c].mandates = <<ResolveRole(array[c].session, probe)>>
         /\ array' \in [Contexts -> Arrays]
         /\ \A d \in Contexts \ {c} : array'[d] = array[d]
         /\ LogInv'
<1> DEFINE s == array[c].session
           kind == ResolveRole(s, probe)
<1>1. /\ array[c] \in Arrays /\ array \in [Contexts -> Arrays]
      /\ array[c].mandates = << >> /\ s \in Sessions
  BY DEF PluginInv, HostInv, Arrays, Context, HasMarker
<1>2. kind \in Kinds
  BY RoleIsKind
<1>3. array' = [array EXCEPT ![c].mandates = Append(@, kind)] /\ Row(<<s, Marker(kind)>>, writable)
  BY DEF Context
<1> HIDE DEF kind
<1>4. Append(<< >>, kind) = <<kind>> /\ <<kind>> \in Seq(Kinds)
  BY <1>2
<1>5. array' = [array EXCEPT ![c] = [array[c] EXCEPT !.mandates = <<kind>>]]
  BY <1>1, <1>3, <1>4
<1>6. [array[c] EXCEPT !.mandates = <<kind>>] \in Arrays
  BY <1>1, <1>4 DEF Arrays
<1>7. <<s, Marker(kind)>> \in Keys
  BY <1>1 DEF Keys, Marker
<1>8. LogInv'
  BY <1>3, <1>7, RowWritten DEF PluginInv
<1>9. array'[c].mandates = <<kind>>
  BY <1>1, <1>5, <1>6 DEF Arrays
<1> QED
  BY <1>1, <1>5, <1>6, <1>8, <1>9 DEF kind

LEMMA AssembledAnew ==
  ASSUME PluginInv, NEW c \in Contexts, Assemble(c)
  PROVE  /\ array'[c].mandates = << >>
         /\ array' \in [Contexts -> Arrays]
         /\ \A d \in Contexts \ {c} : array'[d] = array[d]
<1>1. PICK s \in Sessions, plain \in BOOLEAN :
        array' = [array EXCEPT ![c] = [session |-> s, plain |-> plain, mandates |-> << >>]]
  BY DEF Assemble
<1>2. [session |-> s, plain |-> plain, mandates |-> << >>] \in Arrays
  BY EmptySeq DEF Arrays
<1> QED
  BY <1>1, <1>2 DEF PluginInv, HostInv

LEMMA PluginInvStep == PluginInv /\ [Next]_vars => PluginInv'
<1> SUFFICES ASSUME PluginInv, [Next]_vars PROVE PluginInv'
  OBVIOUS
<1>1. IndexInv /\ LogInv /\ HostInv /\ OneMandate /\ CleanAfterwards
  BY DEF PluginInv
<1>2. ASSUME UNCHANGED index PROVE IndexInv'
  BY <1>1, <1>2 DEF index, IndexInv, ParentsIndexed
<1>3. ASSUME UNCHANGED log PROVE LogInv'
  BY <1>1, <1>3 DEF log, LogInv, RowsOnce
<1>4. ASSUME UNCHANGED array PROVE OneMandate'
  BY <1>1, <1>4 DEF OneMandate
<1>5. ASSUME UNCHANGED <<inst, index>> PROVE CleanAfterwards'
  BY <1>1, <1>5 DEF index, CleanAfterwards
<1>6. ASSUME NEW e \in Events, Publish(e) PROVE PluginInv'
  <2>1. UNCHANGED <<inst, index, array, log>> /\ HostInv'
    BY <1>1, <1>6 DEF Publish, HostInv
  <2> QED
    BY <1>2, <1>3, <1>4, <1>5, <2>1 DEF PluginInv
<1>7. ASSUME NEW i \in Instances, Setup(i) PROVE PluginInv'
  <2>1. UNCHANGED <<index, array, log>> /\ HostInv' /\ inst'[i] = "on"
    BY <1>1, <1>7 DEF Setup, HostInv
  <2>2. CleanAfterwards'
    BY <2>1 DEF CleanAfterwards
  <2> QED
    BY <1>2, <1>3, <1>4, <2>1, <2>2 DEF PluginInv
<1>8. ASSUME NEW i \in Instances, Deliver(i) PROVE PluginInv'
  <2>1. UNCHANGED <<inst, array, log>> /\ HostInv'
    BY <1>1, <1>8 DEF Deliver, HostInv
  <2>2. pending[i] \in Events
    BY <1>1, <1>8 DEF Deliver, HostInv
  <2>3. IndexInv'
    BY <1>1, <1>2, <1>8, <2>2, EventIndexed DEF Deliver
  \* An event that comes after the abort of its stream is not indexed.
  <2>4. CleanAfterwards'
    <3>1. CASE inst[i] = "on"
      BY <2>1, <3>1 DEF CleanAfterwards
    <3>2. CASE inst[i] # "on"
      BY <1>5, <1>8, <2>1, <3>2 DEF Deliver
    <3> QED
      BY <3>1, <3>2
  <2> QED
    BY <1>3, <1>4, <2>1, <2>3, <2>4 DEF PluginInv
<1>9. ASSUME NEW i \in Instances, Cleanup(i) PROVE PluginInv'
  <2>1. UNCHANGED <<array, log>> /\ HostInv'
    BY <1>1, <1>9 DEF Cleanup, HostInv
  <2>2. /\ << >> \in Table(Sessions, IndexCap) /\ Elements(<< >>) = {}
        /\ NoEntry \in Entries
    BY PluginAssumption, EmptyTable DEF NoEntry, Entries
  <2>3. IndexInv' /\ CleanAfterwards'
    BY <1>9, <2>2 DEF Cleanup, IndexInv, ParentsIndexed, CleanAfterwards
  <2> QED
    BY <1>3, <1>4, <2>1, <2>3 DEF PluginInv
<1>10. ASSUME NEW i \in Instances, NEW c \in Contexts, NEW probe \in Agents,
              NEW writable \in BOOLEAN, Context(i, c, probe, writable)
       PROVE  PluginInv'
  <2>1. UNCHANGED <<inst, pending, index>>
    BY <1>10 DEF Context
  <2>2. /\ array'[c].mandates = <<ResolveRole(array[c].session, probe)>>
        /\ array' \in [Contexts -> Arrays] /\ LogInv'
        /\ \A d \in Contexts \ {c} : array'[d] = array[d]
    BY <1>10, ContextWritten
  <2>3. OneMandate'
    <3>1. Len(array'[c].mandates) = 1
      BY <2>2
    <3>2. ASSUME NEW d \in Contexts, d # c PROVE Len(array'[d].mandates) <= 1
      BY <1>1, <2>2, <3>2 DEF OneMandate
    <3>3. Len(array'[c].mandates) <= 1
      BY <3>1
    <3>4. \A d \in Contexts : Len(array'[d].mandates) <= 1
      BY <3>2, <3>3, Zenon
    <3> QED
      BY <3>4 DEF OneMandate
  <2>4. HostInv'
    BY <1>1, <2>1, <2>2 DEF HostInv
  <2> QED
    BY <1>2, <1>5, <2>1, <2>2, <2>3, <2>4 DEF PluginInv
<1>11. ASSUME NEW i \in Instances, NEW s \in Sessions, NEW writable \in BOOLEAN,
              ToolEvent(i, s, writable)
       PROVE  PluginInv'
  <2>1. UNCHANGED <<inst, pending, index, array>> /\ Row(<<s, "tool">>, writable)
    BY <1>11 DEF ToolEvent
  <2>2. LogInv'
    BY <1>1, <2>1, RowWritten DEF Keys
  <2>3. HostInv'
    BY <1>1, <2>1 DEF HostInv
  <2> QED
    BY <1>2, <1>4, <1>5, <2>1, <2>2, <2>3 DEF PluginInv
<1>12. ASSUME NEW c \in Contexts, Assemble(c) PROVE PluginInv'
  <2>1. UNCHANGED <<inst, pending, index, log>>
    BY <1>12 DEF Assemble
  <2>2. /\ array'[c].mandates = << >> /\ array' \in [Contexts -> Arrays]
        /\ \A d \in Contexts \ {c} : array'[d] = array[d]
    BY <1>12, AssembledAnew
  <2>3. OneMandate'
    BY <1>1, <2>2, EmptySeq DEF OneMandate
  <2>4. HostInv'
    BY <1>1, <2>1, <2>2 DEF HostInv
  <2> QED
    BY <1>2, <1>3, <1>5, <2>1, <2>3, <2>4 DEF PluginInv
<1>13. CASE UNCHANGED vars
  <2>1. UNCHANGED <<inst, pending, index, array, log>>
    BY <1>13 DEF vars
  <2>2. HostInv'
    BY <1>1, <2>1 DEF HostInv
  <2> QED
    BY <1>2, <1>3, <1>4, <1>5, <2>1, <2>2 DEF PluginInv
<1> QED
  BY <1>6, <1>7, <1>8, <1>9, <1>10, <1>11, <1>12, <1>13 DEF Next

LEMMA PluginInvHolds == Spec => []PluginInv
BY PluginInvInit, PluginInvStep, PTL DEF Spec

-----------------------------------------------------------------------------
(* The theorems.                                                           *)

(***************************************************************************)
(* The index and the log never outgrow their bounds and hold nothing       *)
(* twice, and an entry exists only of an indexed session.                  *)
(***************************************************************************)
THEOREM PluginTypes == Spec => []TypeOK
BY PluginInvHolds, PluginInvTypes, PTL

(***************************************************************************)
(* A context carries one mandate at most, for any number of instances that *)
(* are called on it.                                                       *)
(***************************************************************************)
THEOREM ContextsCarryOneMandate == Spec => []OneMandate
<1>1. PluginInv => OneMandate
  BY DEF PluginInv
<1> QED
  BY PluginInvHolds, <1>1, PTL

(***************************************************************************)
(* When the last instance is cleaned up the index is empty, and no event   *)
(* that was under way then fills it again.                                 *)
(***************************************************************************)
THEOREM NothingIsLeftBehind == Spec => []CleanAfterwards
<1>1. PluginInv => CleanAfterwards
  BY DEF PluginInv
<1> QED
  BY PluginInvHolds, <1>1, PTL

(***************************************************************************)
(* While a key is remembered its row is written exactly once, whatever     *)
(* instances write, whatever cannot be written and whatever is forgotten.  *)
(***************************************************************************)
THEOREM RowsAreWrittenOnce == Spec => []RowsOnce
<1>1. PluginInv => RowsOnce
  BY DEF PluginInv, LogInv
<1> QED
  BY PluginInvHolds, <1>1, PTL

-----------------------------------------------------------------------------
WorkersOnly ==
  \A c \in Contexts :
     array'[c].mandates # array[c].mandates /\ array[c].session \in parented =>
        array'[c].mandates \in {<<>>, <<"worker">>}

LEMMA StepWorkersOnly == PluginInv /\ [Next]_vars => [WorkersOnly]_vars
<1> SUFFICES ASSUME PluginInv, Next, NEW c \in Contexts,
                    array'[c].mandates # array[c].mandates,
                    array[c].session \in parented
             PROVE  array'[c].mandates \in {<<>>, <<"worker">>}
  BY DEF WorkersOnly
<1>1. entry[array[c].session].parent
  BY DEF PluginInv, IndexInv, ParentsIndexed
<1>2. ASSUME array' = array PROVE FALSE
  BY <1>2
<1>3. ASSUME NEW i \in Instances, NEW d \in Contexts, NEW probe \in Agents,
             NEW writable \in BOOLEAN, Context(i, d, probe, writable)
      PROVE  array'[c].mandates = <<"worker">>
  <2>1. /\ array'[d].mandates = <<ResolveRole(array[d].session, probe)>>
        /\ \A o \in Contexts \ {d} : array'[o] = array[o]
    BY <1>3, ContextWritten
  <2>2. c = d
    BY <2>1
  <2> QED
    BY <1>1, <2>1, <2>2, RoleIsKind
<1>4. ASSUME NEW d \in Contexts, Assemble(d) PROVE array'[c].mandates = << >>
  <2>1. /\ array'[d].mandates = << >>
        /\ \A o \in Contexts \ {d} : array'[o] = array[o]
    BY <1>4, AssembledAnew
  <2> QED
    BY <2>1
<1>5. ASSUME \/ \E e \in Events : Publish(e)
             \/ \E i \in Instances : Setup(i) \/ Deliver(i) \/ Cleanup(i)
             \/ \E i \in Instances, s \in Sessions, writable \in BOOLEAN :
                   ToolEvent(i, s, writable)
      PROVE  array' = array
  BY <1>5 DEF Publish, Setup, Deliver, Cleanup, ToolEvent
<1> QED
  BY <1>2, <1>3, <1>4, <1>5 DEF Next

(***************************************************************************)
(* A session whose parent was seen is told to be a worker for as long as   *)
(* the index holds it, for any size of the index and any later events.     *)
(***************************************************************************)
THEOREM ChildrenAreWorkers == Spec => ChildStaysWorker
<1>1. [][WorkersOnly]_vars <=> ChildStaysWorker
  BY DEF WorkersOnly, ChildStaysWorker
<1> QED
  BY <1>1, PluginInvHolds, StepWorkersOnly, PTL DEF Spec
=============================================================================
