------------------------------- MODULE Sockets -------------------------------
(***************************************************************************)
(* The application guests and the communication partition together, from a *)
(* frame in the network driver's queue to the buffer of the task that      *)
(* receives on the socket, and back for the replies.                       *)
(***************************************************************************)
EXTENDS SocketServer

vars == <<channels, app, nic, server>>

Init == InitApp /\ InitNic /\ InitServer

Guest(g) == NextApp(g) /\ UNCHANGED <<nic, server>>
Partition == (Task1 \/ Task2) /\ UNCHANGED app

Next == Partition \/ \E g \in Gos : Guest(g)

Spec == Init /\ [][Next]_vars

\* task2's period comes again and again (WakesUp and WaitsThenRuns of
\* GuestSched), and task1 goes on with the frame it has begun.
Fairness ==
  /\ WF_vars(Task2 /\ UNCHANGED app)
  /\ WF_vars(Task1 /\ task1.pc = "found" /\ UNCHANGED app)

FairSpec == Spec /\ Fairness

-----------------------------------------------------------------------------
\* Properties

Word == Nat
Packet == [packet : Nat, length : Nat]
Entry == [sock_id : Nat, kept : Seq(Packet)]
UipSlot == [port : Nat, gos_id : Nat, sock_id : Nat, replies : Seq(Nat)]
FrameOrBlank == [port : Nat, packet : Nat, length : Nat] \cup {Blank}

TypeOK ==
  /\ call \in [Gos -> Seq(Word)]
  /\ recv \in [Gos -> Seq(Word)]
  /\ active_ports \in [Gos -> [Entries -> Entry]]
  /\ spark_sockid \in [Gos -> Nat]
  /\ front \in Slots /\ rear \in Slots
  /\ cqbuff \in [Slots -> FrameOrBlank]
  /\ recv_lengths \in [Slots -> Nat]
  /\ listenports \in [ListenSlots -> UipSlot]
  /\ clientports \in [ClientSlots -> UipSlot]
  /\ lastport \in Nat
  /\ c \in (1 .. UIP_LISTENPORTS + 1) \cup (1 .. UIP_CONNS + 1)
  /\ task1 \in [pc : {"wait", "found"}, packet : FrameOrBlank]
  /\ task2 \in [gos : Gos \cup {0}, callid : Nat]
  /\ arrived \in Seq(Nat)
  /\ cut \subseteq Gos

\* The guest and the socket a port belongs to.
OwnerOf(port) ==
  LET ls == {s \in ListenSlots : listenports[s].port = port}
      cs == {s \in ClientSlots : clientports[s].port = port}
  IN  IF ls # {} THEN [gos |-> listenports[FirstOf(ls)].gos_id, sockid |-> port]
      ELSE [gos |-> clientports[FirstOf(cs)].gos_id, sockid |-> clientports[FirstOf(cs)].sock_id]

\* "SParK does not allow different GOSs to open the same port.  Endpoint should
\* always be unique" (uip.c:782): whatever the two guests ask for and whichever
\* of them is served first, a port has one owner.
EndpointUnique ==
  /\ \A s, t \in ListenSlots :
       listenports[s].port = listenports[t].port => listenports[s].gos_id = listenports[t].gos_id
  /\ \A s, t \in ClientSlots :
       clientports[s].port # 0 /\ clientports[s].port = clientports[t].port => s = t

\* task2 finds a call id, and the words it takes for the rest of a call are
\* there (periodic_task_2.c:44): it never takes data for a call.
CallsFramed ==
  /\ \A g \in Gos : task2 = Looks(g) /\ call[g] # <<>> => Head(call[g]) \in Cases(g)
  /\ \A g \in Gos : task2.gos = g /\ task2.callid # 0 =>
       Len(call[g]) >= 2 /\ call[g][1] = g /\ Len(call[g]) >= Rest(g)

\* What the partition has opened for a guest is a socket of the guest, so that
\* a message that is not for the socket of the receive finds its entry.
SocketsKnown ==
  LET known(slot) == \E i \in Entries : active_ports[slot.gos_id][i].sock_id = slot.sock_id
  IN  /\ \A s \in ListenSlots : listenports[s].gos_id \in Gos => known(listenports[s])
      /\ \A s \in ClientSlots : clientports[s].gos_id \in Gos => known(clientports[s])

\* The loop of sys_sock_tcp_recv_k (systemcall.c:208) sees whole messages and
\* keeps them in entries that were opened, up to a receive that the words it
\* asked for (its size and one header, systemcall.c:200) end inside a message:
\* from there on nothing in the channel is where the loop looks for it.
LoopSound(g) ==
  receiving[g].pc = "loop" /\ receiving[g].tcp_recv_data # <<>> => RoundSound(g)
RoundsSound == \A g \in Gos \ cut : LoopSound(g)

\* "IPC message comes with 16 byte header:callid, port, length, sockid"
\* (systemcall.c:199): the loop finds it in front of every message it takes.
RoundsWhole == \A g \in Gos : LoopSound(g)

\* "index now holds the pointer to the port-information of the port"
\* (systemcall.c:193): a receive hands out packets for its own socket.
HandedToOwner ==
  \A g \in Gos : \A k \in DOMAIN handed[g] :
    OwnerOf(arrived[handed[g][k].packet]) = [gos |-> g, sockid |-> handed[g][k].sockid]

\* No packet is handed out twice, out of a queue or a channel.
HandedOnce ==
  \A g \in Gos : \A k, l \in DOMAIN handed[g] :
    handed[g][k].packet = handed[g][l].packet => k = l

\* A guest with one socket gets its packets in the order they arrived in.
OneSocketInOrder ==
  \A g \in Gos : Cardinality(InUse(g)) = 1 =>
    \A k, l \in DOMAIN handed[g] : k < l => handed[g][k].packet < handed[g][l].packet

\* A reply waits in the slot of the socket the guest sent it on, so it leaves
\* by that socket's port (uip_tcp_send searches both tables, ports first, with
\* the low 16 bits of the id: it relies on Ports having none of those numbers,
\* and fails with Ports = {1}).
RepliesOwn ==
  LET own(slot) == \A k \in DOMAIN slot.replies :
        replies[slot.replies[k]] = [gos |-> slot.gos_id, sockid |-> slot.sock_id]
  IN  /\ \A s \in ListenSlots : own(listenports[s])
      /\ \A s \in ClientSlots : own(clientports[s])

\* "The local port is later used for demultiplexing the data that arrives to
\* COMM PART into respective ports belonging to appropriate GOSs" (uip.c:695).
Demultiplexed ==
  [][\A g \in Gos : Len(recv'[g]) > Len(recv[g]) =>
       LET words == recv'[g]
           owner == OwnerOf(arrived[words[Len(words)]])
       IN  owner.gos = g]_vars

\* A port a guest was given is listened on in the end, by this guest or by one
\* that was faster, unless uip_listenports is full.
ListenServed ==
  \A port \in Ports :
    (\E g \in Gos, i \in Entries : active_ports[g][i].sock_id = port)
      ~> (ListensOn(port) # {} \/ \A s \in ListenSlots : listenports[s].port # 0)
=============================================================================
