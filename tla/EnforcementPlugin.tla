------------------------- MODULE EnforcementPlugin -------------------------
(***************************************************************************)
(* The enforcement plugin on its second host: it follows the lifecycle of  *)
(* the sessions on an event stream, keeps a bounded index of them, and     *)
(* appends a mandate to the system parts of a session's context: that of a *)
(* planner, of a worker, or a neutral one.  The index and the record of    *)
(* what was logged belong to the process: every instance of the plugin     *)
(* that is set up in it shares them.  Handlers run to their end; streams,  *)
(* hooks and cleanups interleave.                                          *)
(***************************************************************************)
EXTENDS Naturals, Sequences, FiniteSets

CONSTANTS Instances,    \* times the plugin is set up in the process
          Sessions,
          Children,     \* sessions that have a parent
          Contexts,     \* system arrays the host assembles
          Agents,       \* the agent a record names: by its role, or none
          IndexCap, LogCap

(* A name that is not known has no role.                                   *)
Names == {"planner", "worker", "other", "none"}

ASSUME PluginAssumption ==
  /\ Children \subseteq Sessions
  /\ Agents \subseteq Names
  /\ IndexCap \in Nat \ {0} /\ LogCap \in Nat \ {0}

VARIABLES inst,      \* each instance: off, on, or aborted by its cleanup
          pending,   \* the event each stream is about to deliver
          order,     \* the indexed sessions, oldest insertion first
          entry,     \* what the index has of them
          array,     \* the system array of each context
          logged,    \* keys of the rows written, oldest insertion first
          rows,      \* rows of each key since it was last forgotten (history)
          parented   \* sessions whose parent was indexed and not dropped (history)

index == <<order, entry, parented>>
log == <<logged, rows>>
vars == <<inst, pending, index, array, log>>

Kinds == {"planner", "worker", "neutral"}
NoEntry == [parent |-> FALSE, agent |-> "none"]
Entries == [parent : BOOLEAN, agent : Agents \cup {"none"}]

(* An event need not carry the parent of a session nor its agent.          *)
Events == [id : Children, parent : BOOLEAN, agent : Agents]
            \cup [id : Sessions \ Children, parent : {FALSE}, agent : Agents]
NoEvent == [id |-> "none"]

(* Planner and neutral mandates have one marker, that of a worker another. *)
Marker(kind) == IF kind = "worker" THEN "worker" ELSE "main"
Keys == Sessions \X {"worker", "main", "tool"}

(* Arrays hold text parts, or nothing the plugin recognises.               *)
Arrays == [session : Sessions, plain : BOOLEAN, mandates : Seq(Kinds)]

Elements(s) == {s[i] : i \in DOMAIN s}
Distinct(s) == Len(s) = Cardinality(Elements(s))

TypeOK ==
  /\ inst \in [Instances -> {"off", "on", "aborted"}]
  /\ pending \in [Instances -> Events \cup {NoEvent}]
  /\ Elements(order) \subseteq Sessions /\ Distinct(order) /\ Len(order) <= IndexCap
  /\ entry \in [Sessions -> Entries]
  /\ \A s \in Sessions \ Elements(order) : entry[s] = NoEntry
  /\ array \in [Contexts -> Arrays]
  /\ Elements(logged) \subseteq Keys /\ Distinct(logged) /\ Len(logged) <= LogCap
  /\ rows \in [Keys -> Nat] /\ parented \subseteq Sessions

Init ==
  /\ inst = [i \in Instances |-> "off"]
  /\ pending = [i \in Instances |-> NoEvent]
  /\ order = <<>> /\ entry = [s \in Sessions |-> NoEntry] /\ parented = {}
  /\ array \in [Contexts -> [session : Sessions, plain : BOOLEAN, mandates : {<<>>}]]
  /\ logged = <<>> /\ rows = [k \in Keys |-> 0]

-----------------------------------------------------------------------------
(* Bounded maps and sets: an element that is in keeps its place, a new one *)
(* takes the place of the oldest when there is no room.                    *)

Present(s, x) == x \in Elements(s)

\* Fault: the oldest goes when the cap is exceeded.
EvictsLate(s, x, cap) == ~Present(s, x) /\ Len(s) > cap

Evicts(s, x, cap) == ~Present(s, x) /\ Len(s) >= cap

Inserted(s, x, cap) ==
  LET room == IF Evicts(s, x, cap) THEN Tail(s) ELSE s
  IN  IF Present(s, x) THEN s ELSE Append(room, x)

Dropped(s, x, cap) == Elements(s) \ Elements(Inserted(s, x, cap))

-----------------------------------------------------------------------------
(* Lifecycle events.                                                       *)

(* What an event leaves out the entry keeps.                               *)

\* Fault: an event replaces the entry.
MergedFresh(old, e) == [parent |-> e.parent, agent |-> e.agent]

Merged(old, e) ==
  [parent |-> old.parent \/ e.parent,
   agent |-> IF e.agent = "none" THEN old.agent ELSE e.agent]

(* Those whose parent is known and who give no way to a session: the       *)
(* oldest does, to one that is new, when the index is full.                *)
Outlive(id) ==
  IF Present(order, id) \/ Len(order) < IndexCap THEN parented ELSE parented \ {Head(order)}

RecordSessionEvent(e) ==
  LET out == Dropped(order, e.id, IndexCap)
  IN  /\ order' = Inserted(order, e.id, IndexCap)
      /\ entry' = [s \in Sessions |->
                     IF s = e.id THEN Merged(entry[s], e)
                     ELSE IF s \in out THEN NoEntry ELSE entry[s]]
      /\ parented' = Outlive(e.id) \cup (IF e.parent THEN {e.id} ELSE {})

(* The host publishes to every stream that is open; an instance has one    *)
(* event under way.                                                        *)
Publish(e) ==
  /\ \A i \in Instances : pending[i] = NoEvent
  /\ \E i \in Instances : inst[i] = "on"
  /\ pending' = [i \in Instances |-> IF inst[i] = "on" THEN e ELSE NoEvent]
  /\ UNCHANGED <<inst, index, array, log>>

\* Fault: an event that comes after the abort is still indexed.
DeliverLate(i) ==
  /\ pending[i] # NoEvent
  /\ RecordSessionEvent(pending[i])
  /\ pending' = [pending EXCEPT ![i] = NoEvent]
  /\ UNCHANGED <<inst, array, log>>

(* The stream yields; the loop looks for the abort first, and then ends.   *)
Deliver(i) ==
  /\ pending[i] # NoEvent
  /\ IF inst[i] = "on" THEN RecordSessionEvent(pending[i]) ELSE UNCHANGED index
  /\ pending' = [pending EXCEPT ![i] = NoEvent]
  /\ UNCHANGED <<inst, array, log>>

-----------------------------------------------------------------------------
(* Telemetry: a row once per key, remembered when it is written.           *)

\* Fault: the key is remembered although the row could not be written.
RowBefore(k, writable) ==
  IF Present(logged, k) THEN UNCHANGED log
  ELSE /\ logged' = Inserted(logged, k, LogCap)
       /\ rows' = [j \in Keys |-> IF j \in Dropped(logged, k, LogCap) THEN 0
                                  ELSE IF j = k /\ writable THEN rows[j] + 1 ELSE rows[j]]

Row(k, writable) ==
  IF Present(logged, k) \/ ~writable THEN UNCHANGED log
  ELSE /\ logged' = Inserted(logged, k, LogCap)
       /\ rows' = [j \in Keys |-> IF j \in Dropped(logged, k, LogCap) THEN 0
                                  ELSE IF j = k THEN rows[j] + 1 ELSE rows[j]]

(* Before a tool call: what is noted never stops it.                       *)
ToolEvent(i, s, writable) ==
  /\ inst[i] = "on"
  /\ Row(<<s, "tool">>, writable)
  /\ UNCHANGED <<inst, pending, index, array>>

-----------------------------------------------------------------------------
(* The mandate.                                                            *)

Roles == {"planner", "worker"}
RoleOfEntry(s) == IF entry[s].parent THEN "worker" ELSE entry[s].agent

(* The index first, then what the input says, neutral otherwise.           *)
ResolveRole(s, probe) ==
  CASE RoleOfEntry(s) \in Roles -> RoleOfEntry(s)
    [] RoleOfEntry(s) \notin Roles /\ probe \in Roles -> probe
    [] OTHER -> "neutral"

\* Fault: only strings are looked at, and the parts of this host are objects.
HasMarkerString(c) == FALSE

HasMarker(c) == array[c].mandates # <<>>

(* The host calls the hook of every instance, and again on an array it     *)
(* keeps.  A row that cannot be written changes nothing else.              *)
Context(i, c, probe, writable) ==
  LET s == array[c].session
      kind == ResolveRole(s, probe)
  IN  /\ inst[i] = "on"
      /\ ~HasMarker(c) /\ array[c].plain
      /\ array' = [array EXCEPT ![c].mandates = Append(@, kind)]
      /\ Row(<<s, Marker(kind)>>, writable)
      /\ UNCHANGED <<inst, pending, index>>

(* A context is assembled anew.                                            *)
Assemble(c) ==
  /\ \E s \in Sessions, plain \in BOOLEAN :
        array' = [array EXCEPT ![c] = [session |-> s, plain |-> plain, mandates |-> <<>>]]
  /\ UNCHANGED <<inst, pending, index, log>>

-----------------------------------------------------------------------------
(* Setting up and cleaning up.                                             *)

Setup(i) ==
  /\ inst[i] = "off"
  /\ inst' = [inst EXCEPT ![i] = "on"]
  /\ UNCHANGED <<pending, index, array, log>>

(* The stream is told to end, the index of the process is emptied and the  *)
(* hooks are given back.                                                   *)
Cleanup(i) ==
  /\ inst[i] = "on"
  /\ inst' = [inst EXCEPT ![i] = "aborted"]
  /\ order' = <<>> /\ entry' = [s \in Sessions |-> NoEntry] /\ parented' = {}
  /\ UNCHANGED <<pending, array, log>>

Next ==
  \/ \E e \in Events : Publish(e)
  \/ \E i \in Instances :
        \/ Setup(i) \/ Deliver(i) \/ Cleanup(i)
        \/ \E c \in Contexts, probe \in Agents, writable \in BOOLEAN :
              Context(i, c, probe, writable)
        \/ \E s \in Sessions, writable \in BOOLEAN : ToolEvent(i, s, writable)
  \/ \E c \in Contexts : Assemble(c)

Spec == Init /\ [][Next]_vars

-----------------------------------------------------------------------------
(* However many instances are set up and however often the hook runs, a    *)
(* context carries one mandate.                                            *)
OneMandate == \A c \in Contexts : Len(array[c].mandates) <= 1

(* A session whose parent was seen is a worker for as long as the index    *)
(* holds it, whatever later events and its own input say it is.            *)
ChildStaysWorker ==
  [][\A c \in Contexts :
       array'[c].mandates # array[c].mandates /\ array[c].session \in parented =>
          array'[c].mandates \in {<<>>, <<"worker">>}]_vars

(* Once no instance is set up the index is empty and stays so: an event    *)
(* that was under way when its stream was aborted leaves nothing behind.   *)
CleanAfterwards ==
  (\A i \in Instances : inst[i] # "on") => order = <<>> /\ parented = {}

(* A row is written once as long as its key is remembered, and a key is    *)
(* remembered only if its row was written.                                 *)
RowsOnce ==
  \A k \in Keys : rows[k] = IF Present(logged, k) THEN 1 ELSE 0
=============================================================================
