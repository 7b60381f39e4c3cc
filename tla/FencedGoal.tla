----------------------------- MODULE FencedGoal -----------------------------
(***************************************************************************)
(* What the goal store promises about one goal, with no process, lock,     *)
(* clock or lease: as long as nobody owns the goal anybody may write it;   *)
(* once it has an owner it always has one, every change is made under the  *)
(* authority of the current owner and generation, a change of owner        *)
(* allocates the next generation, every change adds one to the revision,   *)
(* and a terminal goal never changes again.                                *)
(***************************************************************************)
EXTENDS Naturals

CONSTANTS
  Owners,     \* owner ids
  Contents,   \* what a goal record says beside its ownership
  Terminal,   \* the terminal states
  NoGoal,     \* there is no record yet
  NoOwner     \* the record carries no ownership

VARIABLES
  content,    \* NoGoal, or a member of Contents: a record with a state and a rev
  authority   \* NoOwner, or the current owner and generation

vars == <<content, authority>>

Authority == [owner : Owners, gen : Nat \ {0}]

Owned == authority # NoOwner

Final == content # NoGoal /\ content.state \in Terminal

Init == content = NoGoal /\ authority = NoOwner

\* Anybody writes a goal that nobody owns.
FreeWrite ==
  /\ ~Owned
  /\ content' \in Contents
  /\ UNCHANGED authority

\* The authority passes to an owner; nothing else of the goal changes.
Allocate(o, g) ==
  /\ content # NoGoal /\ ~Final
  /\ authority' = [owner |-> o, gen |-> g]
  /\ content' = [content EXCEPT !.rev = @ + 1]

Acquire(o) == ~Owned /\ Allocate(o, 1)

Takeover(o) == Owned /\ Allocate(o, authority.gen + 1)

\* The current owner changes the goal or renews its lease.
Commit ==
  /\ Owned /\ ~Final
  /\ content' \in Contents /\ content'.rev = content.rev + 1
  /\ UNCHANGED authority

Next ==
  \/ FreeWrite
  \/ Commit
  \/ \E o \in Owners : Acquire(o) \/ Takeover(o)

Spec == Init /\ [][Next]_vars
=============================================================================
