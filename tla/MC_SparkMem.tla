----------------------------- MODULE MC_SparkMem -----------------------------
(***************************************************************************)
(* Two guests of two page tables each, tables of eight entries.  A guest   *)
(* registers a part of its memory, one table twice, the second time at     *)
(* linear addresses behind its memory (those of the second guest, for the  *)
(* first), or a table with a frame behind its memory.                      *)
(***************************************************************************)
EXTENDS SparkMem

Dirt == [e \in Entries |-> 0]

Part      == [e \in Entries |-> IF e \in {1, 2} THEN e + 8 ELSE Absent]
Backwards == [e \in Entries |-> 15 - e]
Bad       == [e \in Entries |-> IF e < 4 THEN e ELSE IF e = 4 THEN 16 ELSE Absent]

Dir(a, b, c) ==
  [e \in Entries |-> IF e = 0 THEN a ELSE IF e = 1 THEN b ELSE IF e = 2 THEN c ELSE Absent]

Registrations ==
  {Dir(Part, Absent, Absent), Dir(Backwards, Absent, Backwards), Dir(Bad, Absent, Absent)}
=============================================================================
