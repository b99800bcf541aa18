--------------------------- MODULE MC_SparkMailbox ---------------------------
(***************************************************************************)
(* The instance of SparkMailbox for TLC: the two guests of MC_SparkSched.  *)
(***************************************************************************)
EXTENDS SparkMailbox, MC_SparkSched

OneKey == {65}
=============================================================================
