---------------------------- MODULE SocketServer ----------------------------
(***************************************************************************)
(* The communication partition: task2 serves the socket calls of the       *)
(* guests, task1 takes frames from the network driver through uIP and      *)
(* sends their data to the guest whose socket it is for.  Both use the     *)
(* tables of uip.c and, in their loops, its one variable c.                *)
(*                                                                         *)
(* task2 comes first in rtl_tasks and has task1's priority, so once it is  *)
(* released it runs until it waits (HighestRuns of GuestSched): task1 only *)
(* moves while task2 waits.  A timer that hits task1 in uIP releases task2 *)
(* there.  uip_init and example3_init, task1's first calls, are done.      *)
(***************************************************************************)
EXTENDS AppSockets, SparkNic

CONSTANTS
  Lengths,         \* words of data in a packet
  MaxPackets,      \* bound: packets that arrive
  UIP_LISTENPORTS,
  UIP_CONNS,
  FirstLport,      \* lastport after uip_init, 1024
  Interrupted      \* may the timer hit example3_app?

CommandPort == 1234   \* of the partition itself, gos_id 0

VARIABLES
  listenports,  \* uip_listenports
  clientports,  \* uip_clientports
  lastport,     \* the last local port of a connection
  c,            \* loop variable of uip.c
  task1,        \* where task1 is, and the frame in uip_buf
  task2,        \* the guest whose call it looks at, and the call id it read
  arrived       \* history: the port each packet came for

tables == <<listenports, clientports, lastport, c>>
server == <<tables, task1, task2, arrived>>

ListenSlots == 1 .. UIP_LISTENPORTS
ClientSlots == 1 .. UIP_CONNS

ASSUME ServerAssumption ==
  /\ UIP_LISTENPORTS \in Nat \ {0}
  /\ UIP_CONNS \in Nat
  /\ FirstLport \in Nat
  /\ Lengths \subseteq Nat \ {0}
  /\ Interrupted \in BOOLEAN

Unused == [port |-> 0, gos_id |-> 65535, sock_id |-> 0, replies |-> <<>>]
\* The replies wait in storage of the slot's own (the shared array of
\* GuestOS1's zcircqueue.c:15 is not modelled).
Slot(port, g, sockid) == [port |-> port, gos_id |-> g, sock_id |-> sockid, replies |-> <<>>]

InitServer ==
  /\ listenports = [s \in ListenSlots |->
                      IF s = 1 THEN Slot(CommandPort, 0, CommandPort) ELSE Unused]
  /\ clientports = [s \in ClientSlots |-> Unused]
  /\ lastport = FirstLport
  /\ c = 1
  /\ task1 = [pc |-> "wait", packet |-> Blank]
  /\ task2 = [gos |-> 0, callid |-> 0]
  /\ arrived = <<>>

-----------------------------------------------------------------------------
\* The operations of uip.c that task2 calls

\* A loop that ends at the first slot of S, or behind the last one.
LoopEnd(S, last) == IF S = {} THEN last + 1 ELSE FirstOf(S)

FreePorts == {s \in ListenSlots : listenports[s].port = 0}

ForeignNever(port, g) == {}   \* mutant: the other guests' ports are not looked at
Foreign(port, g) ==
  {s \in ListenSlots : listenports[s].port = port /\ listenports[s].gos_id # g}

\* The port of another guest ends the loop before a free slot is found.
uip_listen(port, g) ==
  LET s == LoopEnd(FreePorts \cup Foreign(port, g), UIP_LISTENPORTS)
  IN  /\ c' = s
      /\ listenports' = IF s \in FreePorts \ Foreign(port, g)
                        THEN [listenports EXCEPT ![s] = Slot(port, g, port)]
                        ELSE listenports
      /\ UNCHANGED <<clientports, lastport>>

FreeClients == {s \in ClientSlots : clientports[s].port = 0}

\* Without a free connection nothing is opened; the slots of clientports are
\* not given back.  lastport starts over at 32000, which the few sockets of the
\* guests do not reach.
uip_connect(g, sockid) ==
  /\ lastport' = lastport + 1
  /\ UNCHANGED listenports
  /\ \/ UNCHANGED clientports /\ c' = UIP_CONNS + 1
     \/ LET s == LoopEnd(FreeClients, UIP_CONNS)
        IN  /\ c' = s
            /\ clientports' = [t \in ClientSlots |->
                                 IF t = s THEN Slot(lastport', g, sockid)
                                 ELSE clientports[t]]

ListensAs(g, sockid) ==
  {s \in ListenSlots : /\ listenports[s].sock_id = sockid % FirstSock
                       /\ listenports[s].gos_id = g}
ConnectsAny(g, sockid) ==   \* mutant: any connection of the guest
  {s \in ClientSlots : clientports[s].gos_id = g}
ConnectsAs(g, sockid) ==
  {s \in ClientSlots : clientports[s].sock_id = sockid /\ clientports[s].gos_id = g}

Queued(slot, number) ==
  [slot EXCEPT !.replies = IF Len(@) = APP_QUEUE_SIZE - 1 THEN @ ELSE Append(@, number)]

\* The data waits in the socket's slot for the next packet from outside.
uip_tcp_send(g, sockid, number) ==
  LET ls == ListensAs(g, sockid)
      cs == ConnectsAs(g, sockid)
      s  == IF ls # {} THEN FirstOf(ls) ELSE LoopEnd(cs, UIP_CONNS)
  IN  /\ c' = s
      /\ listenports' = IF ls = {} THEN listenports
                        ELSE [listenports EXCEPT ![s] = Queued(@, number)]
      /\ clientports' = IF ls # {} \/ cs = {} THEN clientports
                        ELSE [clientports EXCEPT ![s] = Queued(@, number)]
      /\ UNCHANGED lastport

-----------------------------------------------------------------------------
\* task2: in a period one call of each guest.  The word of the call id is
\* received first, then the words that belong to it.

Later(g) == {h \in Gos : h > g}
NextNever(g) == 0   \* mutant: the second channel is forgotten
NextGuest(g) == IF Later(g) = {} THEN 0 ELSE FirstOf(Later(g))

Waits == [gos |-> 0, callid |-> 0]
Looks(g) == [gos |-> g, callid |-> 0]

\* The calls the two switches know: the one of guest 2 has no TCP_SEND.
Cases(g) == IF g = 1 THEN {LISTEN, CONNECT, TCP_SEND} ELSE {LISTEN, CONNECT}

\* The words of the call that follow the call id.
Rest(g) ==
  CASE task2.callid = LISTEN -> 2
    [] task2.callid = CONNECT -> 4
    [] task2.callid = TCP_SEND -> 4 + call[g][3]

MayAlways == TRUE   \* mutant
\* The timer releases task2, also between the end of the loop of example3_app
\* with c at a client's slot and the uses of c if it may hit there.
MayBegin == task1.pc = "found" => Interrupted

\* A period that finds both channels empty changes nothing.
Task2Begin ==
  /\ task2 = Waits
  /\ MayBegin
  /\ \E g \in Gos : call[g] # <<>>
  /\ task2' = Looks(FirstOf(Gos))
  /\ UNCHANGED <<call, tables>>

CallStays(g) == call   \* mutant: the word is looked at and left in the channel
CallTaken(g) == [call EXCEPT ![g] = Tail(@)]

\* No call, or one the switch does not know: the other channel is next.
Task2CallId(g) ==
  /\ task2 = Looks(g)
  /\ \/ /\ call[g] = <<>>
        /\ task2' = Looks(NextGuest(g))
        /\ UNCHANGED call
     \/ /\ call[g] # <<>>
        /\ task2' = IF Head(call[g]) \in Cases(g) THEN [gos |-> g, callid |-> Head(call[g])]
                                                   ELSE Looks(NextGuest(g))
        /\ call' = CallTaken(g)
  /\ UNCHANGED tables

Task2Serve(g) ==
  LET words == call[g]
  IN  /\ task2.gos = g /\ task2.callid # 0
      /\ Len(words) >= 4 \/ (task2.callid = LISTEN /\ Len(words) >= 2)
      /\ Len(words) >= Rest(g)
      /\ \/ task2.callid = LISTEN /\ uip_listen(words[2], words[1])
         \/ task2.callid = CONNECT /\ uip_connect(words[1], words[4])
         \/ /\ task2.callid = TCP_SEND
            /\ IF words[3] > 0 THEN uip_tcp_send(words[1], words[4], words[5])
                               ELSE UNCHANGED tables
      /\ call' = [call EXCEPT ![g] = Drop(@, Rest(g))]
      /\ task2' = Looks(NextGuest(g))

Task2 ==
  /\ Task2Begin \/ \E g \in Gos : Task2CallId(g) \/ Task2Serve(g)
  /\ UNCHANGED <<recv, nic, task1, arrived>>

-----------------------------------------------------------------------------
\* task1: what the card has received is moved to the driver's queue, one frame
\* is taken out and goes through uip_process to example3_app.

Between == task1.pc = "wait" /\ task2 = Waits

\* The remote ends send to the ports they know.
ArrivesFor == Ports \cup {CommandPort} \cup ({clientports[s].port : s \in ClientSlots} \ {0})

Poll(port, length) ==
  /\ Between
  /\ Len(arrived) < MaxPackets
  /\ arrived' = Append(arrived, port)
  /\ rhine_receive_frame([port |-> port, packet |-> Len(arrived'), length |-> length])
  /\ UNCHANGED <<recv, tables, task1>>

frame == NextFrame
ListensOn(port) == {s \in ListenSlots : listenports[s].port = port}
ConnectsOn(port) == {s \in ClientSlots : clientports[s].port = port}

\* A frame with a length of 0 is passed over by task1, one that is shorter
\* than its IP header says is dropped by uip_process; nobody has the port of
\* the third.
Dropped == NextLength < frame.length \/ ListensOn(frame.port) \cup ConnectsOn(frame.port) = {}

InputDropped ==
  /\ rhine_receive
  /\ Dropped
  /\ UNCHANGED <<recv, tables, task1>>

Before(words, message) == message \o words   \* mutant
Behind(words, message) == words \o message

\* The message for a guest: call id 0x4444, port, length, socket, data.
SendsTo(g, port, length, sockid, number) ==
  /\ Len(recv[g]) + Header + length <= DataSize
  /\ recv' = [recv EXCEPT ![g] =
                Behind(@, <<4444, port, length, sockid>> \o Data(number, length))]

\* The oldest reply of the slot goes out on its port, if there is one.
Answered(slot) == [slot EXCEPT !.replies = IF @ = <<>> THEN @ ELSE Tail(@)]

\* A server's port.  The partition's own is answered by process_packet.
InputListen ==
  LET s    == FirstOf(ListensOn(frame.port))
      slot == listenports[s]
  IN  /\ rhine_receive
      /\ ~Dropped
      /\ ListensOn(frame.port) # {}
      /\ \/ slot.gos_id = 0 /\ UNCHANGED recv
         \/ /\ slot.gos_id \in Gos
            /\ SendsTo(slot.gos_id, frame.port, frame.length, 0, frame.packet)
      /\ listenports' = [listenports EXCEPT ![s] = Answered(@)]
      /\ UNCHANGED <<clientports, lastport, c, task1>>

\* A client's port: the loop stops with c at its slot ...
InputClient ==
  /\ rhine_receive
  /\ ~Dropped
  /\ ListensOn(frame.port) = {}
  /\ c' = FirstOf(ConnectsOn(frame.port))
  /\ task1' = [pc |-> "found", packet |-> frame]
  /\ UNCHANGED <<recv, listenports, clientports, lastport>>

\* ... and what follows uses c.
Task1Found ==
  LET slot == clientports[c]
      f    == task1.packet
  IN  /\ task1.pc = "found"
      /\ c \in ClientSlots /\ slot.gos_id \in Gos
      /\ SendsTo(slot.gos_id, f.port, f.length, slot.sock_id, f.packet)
      /\ clientports' = [clientports EXCEPT ![c] = Answered(@)]
      /\ task1' = [pc |-> "wait", packet |-> Blank]
      /\ UNCHANGED <<nic, listenports, lastport, c>>

Input == InputDropped \/ InputListen \/ InputClient

Task1 ==
  /\ \/ \E port \in ArrivesFor, length \in Lengths : Poll(port, length)
     \/ Between /\ Input /\ UNCHANGED arrived
     \/ task2 = Waits /\ Task1Found /\ UNCHANGED arrived
  /\ UNCHANGED <<call, task2>>
=============================================================================
