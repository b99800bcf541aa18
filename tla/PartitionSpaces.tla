--------------------------- MODULE PartitionSpaces ---------------------------
(***************************************************************************)
(* What SParK promises about memory, with no page table in it: a task of a *)
(* partition has the address space that its partition asked for last and   *)
(* that was acceptable, moved to the partition's own frames; whoever runs  *)
(* uses the space his current task had when it was loaded.                 *)
(*                                                                         *)
(* A task without a space may be loaded too.  The processor then uses      *)
(* NoSpace, and nothing is promised about what it reaches.                 *)
(***************************************************************************)
CONSTANTS
  Guests, Tasks,
  Directories,       \* what a partition may ask for
  Acceptable(_),     \* whether it gets it
  Registered(_, _),  \* the address space a directory means for a partition
  BootSpace(_),      \* the one a partition starts in
  NoSpace            \* no address space yet

VARIABLES
  space,    \* of each task of each partition
  task,     \* the current task of each partition
  running,  \* the partition that has the processor
  active,   \* the address space the processor uses
  asked     \* the task and the directory of a registration, or <<>>

vars == <<space, task, running, active, asked>>

Init ==
  /\ space = [g \in Guests |-> [t \in Tasks |-> IF t = 0 THEN BootSpace(g) ELSE NoSpace]]
  /\ task = [g \in Guests |-> 0]
  /\ running \in Guests
  /\ active = BootSpace(running)
  /\ asked = <<>>

Ask(t, dir) ==
  /\ asked = <<>>
  /\ asked' = <<t, dir>>
  /\ UNCHANGED <<space, task, running, active>>

\* The new space does not concern the processor before it is loaded.
Grant ==
  /\ asked # <<>>
  /\ Acceptable(asked[2])
  /\ space' = [space EXCEPT ![running][asked[1]] = Registered(asked[2], running)]
  /\ asked' = <<>>
  /\ UNCHANGED <<task, running, active>>

\* Only what is not acceptable is refused; the task keeps what it had.
Refuse ==
  /\ asked # <<>>
  /\ ~Acceptable(asked[2])
  /\ asked' = <<>>
  /\ UNCHANGED <<space, task, running, active>>

Load(t) ==
  /\ asked = <<>>
  /\ task' = [task EXCEPT ![running] = t]
  /\ active' = space[running][t]
  /\ UNCHANGED <<space, running, asked>>

Switch(g) ==
  /\ asked = <<>>
  /\ running' = g
  /\ active' = space[g][task[g]]
  /\ UNCHANGED <<space, task, asked>>

Next ==
  \/ \E t \in Tasks, dir \in Directories : Ask(t, dir)
  \/ Grant
  \/ Refuse
  \/ \E t \in Tasks : Load(t)
  \/ \E g \in Guests : Switch(g)

Spec == Init /\ [][Next]_vars
=============================================================================
