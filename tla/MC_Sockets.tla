----------------------------- MODULE MC_Sockets -----------------------------
(***************************************************************************)
(* Instances of Sockets for TLC: two guests, packets of one word.          *)
(***************************************************************************)
EXTENDS Sockets

SomeFrames == [port : Ports, packet : 1 .. MaxPackets, length : Lengths]

\* The first guest has two sockets and receives packet by packet, the second
\* has one and receives what there is.  OneOrTwo lets the first guest also ask
\* for a word more than a packet has.
TwoAndOne == [g \in Gos |-> IF g = 1 THEN 2 ELSE 1]
ManyAndMany == [g \in Gos |-> {6}]
OneOrTwo == [g \in Gos |-> IF g = 1 THEN {1, 2} ELSE {6}]
OneAndMany == [g \in Gos |-> IF g = 1 THEN {1} ELSE {6}]
=============================================================================
