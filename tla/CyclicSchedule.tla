--------------------------- MODULE CyclicSchedule ---------------------------
(***************************************************************************)
(* What the offline schedule promises, with no hypervisor in it: time is a *)
(* cycle of Eta slots, Plan gives the partition that owns each slot, and   *)
(* in every slot the processor is with the owner of the slot.  The slots   *)
(* nobody owns, and from the next slot on those of a partition that was    *)
(* killed, belong to SParK.                                                *)
(***************************************************************************)
EXTENDS Naturals

CONSTANTS Eta,        \* number of slots in one cycle
          Partitions, \* SParK and the guests
          Spark,      \* the hypervisor's own thread
          Plan        \* the partition that owns each slot, a function on 0 .. Eta - 1

VARIABLES slot,     \* the slot the cycle is in
          running,  \* the partition that has the processor
          dead      \* the killed partitions

vars == <<slot, running, dead>>

LiveOwner(s) == IF Plan[s] \in dead THEN Spark ELSE Plan[s]

\* The machine boots in the last slot of a cycle that nobody ran.
Init ==
  /\ slot = Eta - 1
  /\ running = Spark
  /\ dead = {}

Advance ==
  /\ slot' = (slot + 1) % Eta
  /\ running' = LiveOwner(slot')
  /\ UNCHANGED dead

\* A killed partition keeps the processor to the end of the current slot.
Kill(p) ==
  /\ p # Spark
  /\ dead' = dead \cup {p}
  /\ UNCHANGED <<slot, running>>

Next ==
  \/ Advance
  \/ \E p \in Partitions : Kill(p)

Spec == Init /\ [][Next]_vars
=============================================================================
