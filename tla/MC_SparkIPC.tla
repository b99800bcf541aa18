----------------------------- MODULE MC_SparkIPC -----------------------------
(***************************************************************************)
(* Instances of SparkIPC for TLC: pages of 3 bytes, rings of 1 and of 3    *)
(* bytes, messages of 1 byte and of 2, longer than the smaller ring.       *)
(***************************************************************************)
EXTENDS SparkIPC, TLC

Bytes == {0, 1}
ShortMessages == {<<1>>, <<0, 1>>}

\* No channel is special.
AnyChannel == Permutations(Channels)
=============================================================================
