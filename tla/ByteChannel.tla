----------------------------- MODULE ByteChannel -----------------------------
(***************************************************************************)
(* What the message queues of SParK promise to the partitions, with no     *)
(* buffer in it: a channel is a stream of bytes with a capacity.  A send   *)
(* appends its bytes.  A receive takes exactly the bytes it asks for, or   *)
(* none and says how many there are, as the partitions expect; the comment *)
(* at hypercall.c:290 says 0 (ShortReceiveIsZero of SparkIPC).  A send     *)
(* that does not fit breaks the channel: sends are still accepted, but     *)
(* what is received is no longer what was sent; the comment at             *)
(* hypercall.c:242 says the queue is reset.  No call on one channel        *)
(* disturbs another.                                                       *)
(***************************************************************************)
EXTENDS Naturals, Sequences

CONSTANTS Channels, Byte, Messages, Sizes, Requests

VARIABLES capacity,  \* of each channel, 0 for one that is not open
          unread,    \* the bytes sent and not yet received
          broken,    \* the channels that somebody overflowed
          reply      \* of the last call: its return value and the bytes it copied out

Init ==
  /\ capacity = [ch \in Channels |-> 0]
  /\ unread = [ch \in Channels |-> <<>>]
  /\ broken = {}
  /\ reply = [ret |-> 0, data |-> <<>>]

\* Opening a channel again, or one too many, changes nothing.
Open(ch, size) ==
  /\ \/ capacity' = [capacity EXCEPT ![ch] = size] /\ capacity[ch] = 0
     \/ UNCHANGED capacity
  /\ reply' = [ret |-> 0, data |-> <<>>]
  /\ UNCHANGED <<unread, broken>>

Fits(ch, m) == Len(unread[ch]) + Len(m) <= capacity[ch]

Send(ch, m) ==
  /\ ch \notin broken
  /\ Fits(ch, m)
  /\ unread' = [unread EXCEPT ![ch] = @ \o m]
  /\ reply' = [ret |-> Len(m), data |-> <<>>]
  /\ UNCHANGED <<capacity, broken>>

SendTooBig(ch, m) ==
  /\ Len(m) > capacity[ch]
  /\ reply' = [ret |-> 0, data |-> <<>>]
  /\ UNCHANGED <<capacity, unread, broken>>

\* A send that does not fit, or one to a channel that is broken already.
SendOver(ch, m) ==
  /\ ch \in broken \/ ~Fits(ch, m)
  /\ Len(m) <= capacity[ch]
  /\ broken' = broken \cup {ch}
  /\ unread' = [unread EXCEPT ![ch] = <<>>]
  /\ reply' = [ret |-> Len(m), data |-> <<>>]
  /\ UNCHANGED capacity

Receive(ch, n) ==
  /\ ch \notin broken
  /\ n <= Len(unread[ch])
  /\ reply' = [ret |-> n, data |-> SubSeq(unread[ch], 1, n)]
  /\ unread' = [unread EXCEPT ![ch] = SubSeq(@, n + 1, Len(@))]
  /\ UNCHANGED <<capacity, broken>>

\* sys_sock_tcp_recv_k asks again for the number it gets.
ReceiveTooMuch(ch, n) ==
  /\ ch \notin broken
  /\ n > Len(unread[ch])
  /\ reply' = [ret |-> Len(unread[ch]), data |-> <<>>]
  /\ UNCHANGED <<capacity, unread, broken>>

ReceiveBroken(ch, n) ==
  /\ ch \in broken
  /\ reply' \in [ret : Nat, data : Seq(Byte)]
  /\ UNCHANGED <<capacity, unread, broken>>

Next ==
  \E ch \in Channels :
    \/ \E size \in Sizes : Open(ch, size)
    \/ \E m \in Messages : Send(ch, m) \/ SendTooBig(ch, m) \/ SendOver(ch, m)
    \/ \E n \in Requests :
         Receive(ch, n) \/ ReceiveTooMuch(ch, n) \/ ReceiveBroken(ch, n)

vars == <<capacity, unread, broken, reply>>

Spec == Init /\ [][Next]_vars
=============================================================================
