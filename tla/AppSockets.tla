----------------------------- MODULE AppSockets -----------------------------
(***************************************************************************)
(* The socket calls of the application guests: system calls that talk to   *)
(* the communication partition over two message queues of SParK, one for   *)
(* the calls and one for the data that came in for the guest's sockets.    *)
(*                                                                         *)
(* The queues are the streams of ByteChannel, which SparkIPC implements as *)
(* long as nobody overflows them; here nobody does.  Their items are words *)
(* of four bytes.  Every word of a packet's data is the packet's number.   *)
(***************************************************************************)
EXTENDS Integers, Sequences, FiniteSets

CONSTANTS
  Gos,             \* ids of the guests with sockets: 1, 2
  Ports,           \* ports they listen on
  FirstSock,       \* first value of spark_sockid, 2^16
  MAX_OPEN_PORTS,  \* sockets of a guest
  APP_QUEUE_SIZE,  \* packets of another socket a guest keeps, and one
  Quota,           \* sockets each guest opens
  Senders,         \* the guests that send
  SendSize,        \* words they send with one call
  RecvSizes,       \* of each guest: words it asks for with one receive
  CallSize,        \* words in a call channel
  DataSize,        \* words in a receive channel
  MaxReplies       \* bound: packets sent by the guests

ASSUME SocketAssumption ==
  /\ Gos \subseteq Nat \ {0, 65535}
  /\ Ports \subseteq Nat \ {0}
  /\ FirstSock \in Nat \ {0}
  /\ \A port \in Ports : port < FirstSock
  /\ MAX_OPEN_PORTS \in Nat \ {0}
  /\ APP_QUEUE_SIZE \in Nat \ {0}
  /\ Quota \in [Gos -> Nat]
  /\ Senders \subseteq Gos
  /\ SendSize \in Nat \ {0}
  /\ RecvSizes \in [Gos -> SUBSET Nat]
  /\ DataSize \in Nat

VARIABLES
  call,          \* of each guest: the words in its call channel
  recv,          \* and in its receive channel
  active_ports,  \* of each guest: its sockets and the packets kept for them
  spark_sockid,  \* of each guest: the next client socket
  receiving,     \* of each guest: its sys_sock_tcp_recv_k
  handed,        \* history: what the receives returned, [sockid, packet]
  replies,       \* history: the packets the guests sent, [gos, sockid]
  cut            \* history: the guests with a receive that ended inside a message

channels == <<call, recv>>
app == <<active_ports, spark_sockid, receiving, handed, replies, cut>>

Entries == 1 .. MAX_OPEN_PORTS
NoSocket == [sock_id |-> 0, kept |-> <<>>]

\* A guest that is in no receive.
Idle == [pc |-> "app", sockid |-> 0, index |-> 0, size |-> 0, message_size |-> 0,
         tcp_recv_data |-> <<>>, buffer |-> 0, flag_copied |-> FALSE,
         buffer_bytes |-> 0]

InitApp ==
  /\ call = [g \in Gos |-> <<>>]
  /\ recv = [g \in Gos |-> <<>>]
  /\ active_ports = [g \in Gos |-> [i \in Entries |-> NoSocket]]
  /\ spark_sockid = [g \in Gos |-> FirstSock]
  /\ receiving = [g \in Gos |-> Idle]
  /\ handed = [g \in Gos |-> <<>>]
  /\ replies = <<>>
  /\ cut = {}

Data(packet, words) == [k \in 1 .. words |-> packet]
Drop(words, n) == SubSeq(words, n + 1, Len(words))

\* Call ids: the words 0x1111, 0x2222 and 0x3333.
LISTEN == 1111
CONNECT == 2222
TCP_SEND == 3333

Calls(g, words) ==
  /\ Len(call[g]) + Len(words) <= CallSize
  /\ call' = [call EXCEPT ![g] = @ \o words]

-----------------------------------------------------------------------------
\* sys_sock_listen_k, sys_sock_connect_k and sys_sock_tcp_send_k

\* port_index: entries are used from the first one on and never given back.
InUse(g) == {i \in Entries : active_ports[g][i].sock_id # 0}
FreeEntries(g) == Entries \ InUse(g)
NewEntryStuck(g) == 1   \* mutant: port_index is not moved
NewEntry(g) == CHOOSE i \in FreeEntries(g) : \A j \in FreeEntries(g) : i <= j

\* Every queue starts empty in storage of its own.  The code cuts it out of
\* one array by an index that is never set back (zcircqueue.c:24), which is
\* enough as entries are not given back.
Opens(g, sockid) ==
  /\ Cardinality(InUse(g)) < Quota[g]
  /\ FreeEntries(g) # {}
  /\ active_ports' = [active_ports EXCEPT ![g][NewEntry(g)] =
                        [sock_id |-> sockid, kept |-> <<>>]]

\* The entry is made before the communication partition hears of the port.
sys_sock_listen(g, port) ==
  /\ receiving[g].pc = "app"
  /\ Opens(g, port)
  /\ Calls(g, <<LISTEN, g, port>>)
  /\ UNCHANGED <<recv, spark_sockid, receiving, handed, replies, cut>>

\* The remote end is the same for all: address 1, port 80.
sys_sock_connect(g) ==
  /\ receiving[g].pc = "app"
  /\ Opens(g, spark_sockid[g])
  /\ spark_sockid' = [spark_sockid EXCEPT ![g] = @ + 1]
  /\ Calls(g, <<CONNECT, g, 1, 80, spark_sockid[g]>>)
  /\ UNCHANGED <<recv, receiving, handed, replies, cut>>

\* The tasks answer what they received (GuestOS2/tasks/periodic_task_1.c).
Received(g, sockid) == handed[g] # <<>> /\ handed[g][Len(handed[g])].sockid = sockid

sys_sock_tcp_send(g, i) ==
  LET sockid == active_ports[g][i].sock_id
      number == Len(replies) + 1
  IN  /\ g \in Senders
      /\ receiving[g].pc = "app"
      /\ Received(g, sockid)
      /\ Len(replies) < MaxReplies
      /\ Calls(g, <<TCP_SEND, g, 0, SendSize, sockid>> \o Data(number, SendSize))
      /\ replies' = Append(replies, [gos |-> g, sockid |-> sockid])
      /\ UNCHANGED <<recv, active_ports, spark_sockid, receiving, handed, cut>>

-----------------------------------------------------------------------------
\* sys_sock_tcp_recv_k

Header == 4
Kept(g, i) == active_ports[g][i].kept

Step(g, r) == receiving' = [receiving EXCEPT ![g] = r]

\* removeq takes the oldest packet.
KeptStays(kept) == kept   \* mutant: front is not moved
KeptAfter(kept) == Tail(kept)

\* The call returns: the application has the packet in its buffer if the
\* length returned is not 0.
Hands(g, sockid, packet, length) ==
  /\ handed' = [handed EXCEPT ![g] = IF length = 0 THEN @
                  ELSE Append(@, [sockid |-> sockid, packet |-> packet])]
  /\ Step(g, Idle)

\* Nothing came in: a packet kept for the socket is returned, if there is one.
RecvKept(g, i) ==
  /\ receiving[g].pc = "app"
  /\ recv[g] = <<>>
  /\ Kept(g, i) # <<>>
  /\ Hands(g, active_ports[g][i].sock_id, Head(Kept(g, i)).packet,
           Head(Kept(g, i)).length)
  /\ active_ports' = [active_ports EXCEPT ![g][i].kept = KeptAfter(@)]
  /\ UNCHANGED <<channels, spark_sockid, replies, cut>>

\* Mutant: the header of a message is forgotten.
SizeOnly(size) == size
Wanted(size) == size + Header

\* A message ends behind the first n words: n is in the least set that has 0
\* and, with the begin of a message, the begin of the next one.
EndsMessage(words, n) ==
  LET next(b) == b + Header + words[b + 3]
      closed(B) ==
        \A b \in B : b + 3 <= Len(words) /\ next(b) <= Len(words) => next(b) \in B
  IN  \A B \in SUBSET (0 .. Len(words)) : 0 \in B /\ closed(B) => n \in B

\* The first receive takes all it asks for, or nothing and returns the number
\* of the words there are, for the second one to ask for.  The words asked for
\* are not counted by messages: they may end inside one.
RecvFirst(g, i, size) ==
  LET r == [Idle EXCEPT !.sockid = active_ports[g][i].sock_id, !.index = i,
                        !.size = size]
      n == Wanted(size)
  IN  /\ receiving[g].pc = "app"
      /\ recv[g] # <<>>
      /\ \/ /\ Len(recv[g]) >= n
            /\ Step(g, [r EXCEPT !.pc = "loop",
                                 !.tcp_recv_data = SubSeq(recv[g], 1, n)])
            /\ recv' = [recv EXCEPT ![g] = Drop(@, n)]
            /\ cut' = IF EndsMessage(recv[g], size + Header) THEN cut ELSE cut \cup {g}
         \/ /\ Len(recv[g]) < n
            /\ Step(g, [r EXCEPT !.pc = "again", !.message_size = Len(recv[g])])
            /\ UNCHANGED <<recv, cut>>
      /\ UNCHANGED <<call, active_ports, spark_sockid, handed, replies>>

RecvAgain(g) ==
  LET r == receiving[g]
  IN  /\ r.pc = "again"
      /\ Step(g, [r EXCEPT !.pc = "loop", !.message_size = 0,
                    !.tcp_recv_data = SubSeq(recv[g], 1, r.message_size)])
      /\ recv' = [recv EXCEPT ![g] = Drop(@, r.message_size)]
      /\ UNCHANGED <<call, active_ports, spark_sockid, handed, replies, cut>>

-----------------------------------------------------------------------------
\* The loop over the messages that were read, one action a round.  There is
\* no action for a round that reads behind the last word (what an earlier
\* receive left in tcp_recv_data, with message_size below 0 after it) or
\* outside of active_ports, nor for one that keeps a packet in an entry nobody
\* opened (the size of its queue is 0, and insertq divides by it): RoundsSound
\* says when that does not happen, and the run sockets_cut shows where it does.
dport(r)   == r.tcp_recv_data[2]
dlength(r) == r.tcp_recv_data[3]
dsockid(r) == r.tcp_recv_data[4]
packet(r)  == r.tcp_recv_data[5]

Whole(r) ==
  /\ Len(r.tcp_recv_data) > Header
  /\ Len(r.tcp_recv_data) >= Header + dlength(r)
  /\ r.index \in Entries

NextMessage(r) == Drop(r.tcp_recv_data, Header + dlength(r))

Own(r) == r.sockid \in {dport(r), dsockid(r)}

\* memcpy to the caller's buffer, over what an earlier round left in it.
RecvOwn(g) ==
  LET r == receiving[g]
  IN  /\ r.pc = "loop" /\ r.tcp_recv_data # <<>> /\ Whole(r)
      /\ Own(r)
      /\ Step(g, [r EXCEPT !.buffer = packet(r), !.flag_copied = TRUE,
                           !.buffer_bytes = dlength(r),
                           !.tcp_recv_data = NextMessage(r)])
      /\ UNCHANGED <<channels, active_ports, spark_sockid, handed, replies, cut>>

TargetsAny(g, r) == InUse(g)   \* mutant: any entry

\* The entries a message for another socket fits; the first one gets it.
Targets(g, r) == {i \in Entries : active_ports[g][i].sock_id \in {dport(r), dsockid(r)}}
FirstOf(S) == CHOOSE i \in S : \A j \in S : i <= j

\* Before a message of another socket is kept, a packet kept in the entry
\* index points to is copied to the caller: the entry of the caller's socket
\* in the first such round, the entry that was last given a packet after it.
\* index stays on the new entry.  A full queue drops the packet (its length
\* then goes to length[999], outside of the entry).
RecvOther(g) ==
  LET r     == receiving[g]
      to    == FirstOf(Targets(g, r))
      old   == Kept(g, r.index)
      taken == IF old = <<>> THEN active_ports
               ELSE [active_ports EXCEPT ![g][r.index].kept = KeptAfter(@)]
      size  == IF old = <<>> THEN 0 ELSE Head(old).length
      flag  == r.flag_copied \/ old # <<>>
      new   == [packet |-> packet(r), length |-> dlength(r)]
  IN  /\ r.pc = "loop" /\ r.tcp_recv_data # <<>> /\ Whole(r)
      /\ ~Own(r)
      /\ Targets(g, r) # {} /\ to \in InUse(g)
      /\ active_ports' = [taken EXCEPT ![g][to].kept =
                            IF Len(@) = APP_QUEUE_SIZE - 1 THEN @ ELSE Append(@, new)]
      /\ Step(g, [r EXCEPT !.buffer = IF old = <<>> THEN @ ELSE Head(old).packet,
                           !.flag_copied = flag,
                           !.size = size,
                           !.buffer_bytes = IF flag THEN size ELSE 0,
                           !.index = to,
                           !.tcp_recv_data = NextMessage(r)])
      /\ UNCHANGED <<channels, spark_sockid, handed, replies, cut>>

\* What a round needs.
RoundSound(g) ==
  LET r == receiving[g]
  IN  Whole(r) /\ (Own(r) \/ (Targets(g, r) # {} /\ FirstOf(Targets(g, r)) \in InUse(g)))

RecvReturn(g) ==
  LET r == receiving[g]
  IN  /\ r.pc = "loop" /\ r.tcp_recv_data = <<>>
      /\ Hands(g, r.sockid, r.buffer, r.buffer_bytes)
      /\ UNCHANGED <<channels, active_ports, spark_sockid, replies, cut>>

Receiving(g) == RecvAgain(g) \/ RecvOwn(g) \/ RecvOther(g) \/ RecvReturn(g)

NextApp(g) ==
  \/ \E port \in Ports : sys_sock_listen(g, port)
  \/ sys_sock_connect(g)
  \/ \E i \in InUse(g) :
       \/ sys_sock_tcp_send(g, i)
       \/ RecvKept(g, i)
       \/ \E size \in RecvSizes[g] : RecvFirst(g, i, size)
  \/ Receiving(g)
=============================================================================
