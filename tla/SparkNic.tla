------------------------------ MODULE SparkNic ------------------------------
(***************************************************************************)
(* The receive side of the network driver.  spark_rhine_poll moves frames  *)
(* from the card's ring into a software queue, spark_rhine_receive takes   *)
(* one of them out.  circqueue.c only moves two indices over slots; the    *)
(* lengths are kept beside it, in recv_lengths, by the index it returns.   *)
(* The card does not interrupt (ETH_INTR_BASED is 0), so that both are     *)
(* hypercalls of the communication partition.                              *)
(*                                                                         *)
(* A frame is what the rest of the model tells apart; it fits in its slot. *)
(***************************************************************************)
EXTENDS Integers

CONSTANTS
  Frame,        \* the frames there are, records with a length
  RX_DESC_DEF   \* slots of the queue

Slots == 0 .. RX_DESC_DEF - 1

ASSUME NicAssumption ==
  /\ RX_DESC_DEF \in Nat \ {0}
  /\ \A f \in Frame : f.length \in Nat \ {0}

VARIABLES
  front, rear,    \* of rxbuff_cq_mon
  cqbuff,         \* the frame last copied into each slot
  recv_lengths

nic == <<front, rear, cqbuff, recv_lengths>>

Blank == [length |-> 0]

InitNic ==
  /\ front = 0 /\ rear = 0
  /\ cqbuff = [s \in Slots |-> Blank]
  /\ recv_lengths = [s \in Slots |-> 0]

AfterEnd(s) == s + 1   \* mutant: without max_size
After(s) == (s + 1) % RX_DESC_DEF
isempty == front = rear

isfull(s) == After(s) = front

\* insertq returns the rear it has just moved, so the length goes into the
\* slot behind the frame's.  A full queue drops the frame; its length is then
\* written to recv_lengths[999], outside of the array.
rhine_receive_frame(f) ==
  /\ \/ /\ isfull(rear)
        /\ UNCHANGED <<rear, cqbuff, recv_lengths>>
     \/ /\ ~isfull(rear)
        /\ cqbuff' = [cqbuff EXCEPT ![rear] = f]
        /\ rear' = After(rear)
        /\ recv_lengths' = [recv_lengths EXCEPT ![After(rear)] = f.length]
  /\ UNCHANGED front

\* The frame a receive copies out, and the length it returns with it: that of
\* the frame before, and 0 with the first one, although sys_tapdev_read_k
\* (systemcall.c:178) places it in uip_len as "the length of the packet"
\* (GuestOS1/include/uip/uip.h:210).
NextFrame == cqbuff[front]
NextLength == recv_lengths[front]

rhine_receive ==
  /\ ~isempty
  /\ cqbuff' = [cqbuff EXCEPT ![front] = Blank]
  /\ recv_lengths' = [recv_lengths EXCEPT ![front] = 0]
  /\ front' = After(front)
  /\ UNCHANGED rear
=============================================================================
