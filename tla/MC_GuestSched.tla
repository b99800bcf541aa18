---------------------------- MODULE MC_GuestSched ----------------------------
(***************************************************************************)
(* A guest of two tasks of equal priority, as the shipped ones create      *)
(* them: the task created last is the first of the list.                   *)
(***************************************************************************)
EXTENDS GuestSched

Periods    == <<4, 6>>
Priorities == <<0, 0, 0>>
Contexts   == <<1, 0, 0>>
=============================================================================
