--------------------------- MODULE Sockets_proofs ---------------------------
(***************************************************************************)
(* Proofs about the socket calls, for every number of guests, ports,       *)
(* sockets and slots, packets of every length, and whatever the guests ask *)
(* for: the tables and channels keep their types, a port has one owner,    *)
(* and, when the timer does not hit example3_app, data is only sent to the *)
(* guest whose port it came for.                                           *)
(***************************************************************************)
EXTENDS Sockets, SequenceTheorems, FiniteSetTheorems, WellFoundedInduction, TLAPS

-----------------------------------------------------------------------------
\* The inductive invariant

\* What TypeOK leaves out of the guests: a receive, and the history of replies.
Receive ==
  [pc : {"app", "again", "loop"}, sockid : Nat, index : Nat, size : Nat,
   message_size : Nat, tcp_recv_data : Seq(Word), buffer : Nat,
   flag_copied : BOOLEAN, buffer_bytes : Nat]
Reply == [gos : Gos, sockid : Nat]

\* A short receive finds the words it counted.
ReceivesOK ==
  /\ receiving \in [Gos -> Receive]
  /\ replies \in Seq(Reply)
  /\ \A g \in Gos : receiving[g].pc = "again" => receiving[g].message_size <= Len(recv[g])

\* The frame is the one that arrived under its number.
Came(f, a) ==
  /\ f \in [port : Nat, packet : Nat, length : Lengths]
  /\ f.packet \in 1 .. Len(a)
  /\ a[f.packet] = f.port

\* The slots of the driver's queue with a frame in them.
Full(s) == IF front <= rear THEN front <= s /\ s < rear ELSE front <= s \/ s < rear
QueueOK == \A s \in Slots : Full(s) => Came(cqbuff[s], arrived)

\* A frame example3_app found a connection for.
FoundOK ==
  task1.pc = "found" =>
    /\ Came(task1.packet, arrived)
    /\ ~Interrupted =>
         /\ task2 = Waits
         /\ ListensOn(task1.packet.port) = {}
         /\ ConnectsOn(task1.packet.port) # {}
         /\ c = FirstOf(ConnectsOn(task1.packet.port))

\* Slots of uip_listenports are used from the first one on; local ports of
\* connections come from a counter.
TablesOK ==
  /\ \A s \in ListenSlots : listenports[s].port = 0 => listenports[s].gos_id = 65535
  /\ \A s, t \in ListenSlots : s <= t /\ listenports[s].port = 0 => listenports[t].port = 0
  /\ \A s \in ClientSlots : clientports[s].port <= lastport

IInv == TypeOK /\ ReceivesOK /\ QueueOK /\ FoundOK /\ TablesOK /\ EndpointUnique

-----------------------------------------------------------------------------
\* Loops and slots

LEMMA FirstOfSet ==
  ASSUME NEW S \in SUBSET Nat, S # {}
  PROVE  FirstOf(S) \in S /\ \A j \in S : FirstOf(S) <= j
<1>1. PICK n \in S : TRUE
  OBVIOUS
<1>2. IsWellFoundedOn(OpToRel(<, Nat), Nat)
  BY NatLessThanWellFounded
<1>3. PICK i \in S : \A j \in S : ~(<<j, i>> \in OpToRel(<, Nat))
  <2> DEFINE R == OpToRel(<, Nat)
  <2>1. IsWellFoundedOn(R, Nat) /\ n \in S /\ S \subseteq Nat
    BY <1>1, <1>2
  <2> HIDE DEF R
  <2>2. \E i \in S : \A j \in S : ~(<<j, i>> \in R)
    BY <2>1, WFMin
  <2> QED
    BY <2>2 DEF R
<1>4. \A j \in S : i <= j
  <2> SUFFICES ASSUME NEW j \in S
               PROVE  i <= j
    OBVIOUS
  <2>1. i \in Nat /\ j \in Nat
    OBVIOUS
  <2>2. ~(j < i)
    BY <1>3, <2>1 DEF OpToRel
  <2> QED
    BY <2>1, <2>2
<1> QED
  BY <1>4 DEF FirstOf

LEMMA FirstSlot ==
  ASSUME NEW n \in Nat, NEW S \in SUBSET (1 .. n)
  PROVE  /\ S # {} => FirstOf(S) \in S /\ \A j \in S : FirstOf(S) <= j
         /\ LoopEnd(S, n) \in 1 .. n + 1
<1>1. S # {} => FirstOf(S) \in S /\ \A j \in S : FirstOf(S) <= j
  <2>1. S \in SUBSET Nat
    OBVIOUS
  <2> QED
    BY <2>1, FirstOfSet
<1>2. CASE S = {}
  BY <1>1, <1>2 DEF LoopEnd
<1>3. CASE S # {}
  <2>1. FirstOf(S) \in 1 .. n
    BY <1>1, <1>3
  <2>2. LoopEnd(S, n) = FirstOf(S)
    BY <1>3 DEF LoopEnd
  <2> QED
    BY <1>1, <2>1, <2>2
<1> QED
  BY <1>2, <1>3

LEMMA SlotBehind ==
  ASSUME NEW s \in Slots
  PROVE  /\ After(s) = IF s = RX_DESC_DEF - 1 THEN 0 ELSE s + 1
         /\ After(s) \in Slots
<1>1. CASE s = RX_DESC_DEF - 1
  BY <1>1, NicAssumption DEF Slots, After
<1>2. CASE s # RX_DESC_DEF - 1
  <2>1. s + 1 \in 0 .. RX_DESC_DEF - 1
    BY <1>2, NicAssumption DEF Slots
  <2> QED
    BY <1>2, <2>1, NicAssumption DEF Slots, After
<1> QED
  BY <1>1, <1>2

-----------------------------------------------------------------------------
\* Words

LEMMA DataWords ==
  ASSUME NEW p \in Nat, NEW n \in Nat
  PROVE  Data(p, n) \in Seq(Word) /\ Len(Data(p, n)) = n /\ \A k \in 1 .. n : Data(p, n)[k] = p
<1>1. Data(p, n) \in [1 .. n -> Nat]
  BY DEF Data
<1> QED
  BY <1>1, SeqDef DEF Data, Word

LEMMA DroppedWords ==
  ASSUME NEW words \in Seq(Word), NEW n \in Nat
  PROVE  /\ Drop(words, n) \in Seq(Word)
         /\ Len(Drop(words, n)) <= Len(words)
<1>1. \A i \in n + 1 .. Len(words) : words[i] \in Word
  OBVIOUS
<1> QED
  BY <1>1, SubSeqProperties, LenProperties DEF Drop

LEMMA FirstWords ==
  ASSUME NEW words \in Seq(Word), NEW n \in Nat, n <= Len(words)
  PROVE  SubSeq(words, 1, n) \in Seq(Word)
<1>1. \A i \in 1 .. n : words[i] \in Word
  OBVIOUS
<1> QED
  BY <1>1, SubSeqProperties

-----------------------------------------------------------------------------
\* The guests

AppOK ==
  /\ call \in [Gos -> Seq(Word)]
  /\ recv \in [Gos -> Seq(Word)]
  /\ active_ports \in [Gos -> [Entries -> Entry]]
  /\ spark_sockid \in [Gos -> Nat]
  /\ ReceivesOK

LEMMA IdleIsReceive == Idle \in Receive
BY DEF Idle, Receive, Word

LEMMA StepKeeps ==
  ASSUME ReceivesOK, NEW g \in Gos, NEW r \in Receive, Step(g, r),
         r.pc = "again" => r.message_size <= Len(recv'[g]),
         \A h \in Gos \ {g} : recv'[h] = recv[h],
         replies' \in Seq(Reply)
  PROVE  ReceivesOK'
<1>1. receiving' = [receiving EXCEPT ![g] = r]
  BY DEF Step
<1>2. receiving' \in [Gos -> Receive]
  BY <1>1 DEF ReceivesOK
<1>3. \A h \in Gos : receiving'[h].pc = "again" => receiving'[h].message_size <= Len(recv'[h])
  BY <1>1 DEF ReceivesOK
<1> QED
  BY <1>2, <1>3 DEF ReceivesOK

LEMMA CallsTyped ==
  ASSUME AppOK, NEW g \in Gos, NEW words \in Seq(Word), Calls(g, words)
  PROVE  call' \in [Gos -> Seq(Word)]
<1>1. call' = [call EXCEPT ![g] = @ \o words]
  BY DEF Calls
<1>2. call[g] \o words \in Seq(Word)
  BY ConcatProperties DEF AppOK
<1> QED
  BY <1>1, <1>2 DEF AppOK

LEMMA OpensTyped ==
  ASSUME AppOK, NEW g \in Gos, NEW sockid \in Nat, Opens(g, sockid)
  PROVE  active_ports' \in [Gos -> [Entries -> Entry]]
<1>1. [sock_id |-> sockid, kept |-> <<>>] \in Entry
  BY EmptySeq DEF Entry
<1> QED
  BY <1>1 DEF AppOK, Opens

LEMMA KeptTyped ==
  ASSUME NEW a \in [Gos -> [Entries -> Entry]], NEW g \in Gos, NEW i \in Entries,
         NEW kept \in Seq(Packet)
  PROVE  [a EXCEPT ![g][i].kept = kept] \in [Gos -> [Entries -> Entry]]
<1>1. [a[g][i] EXCEPT !.kept = kept] \in Entry
  <2>1. PICK entry \in Entry : entry = a[g][i]
    OBVIOUS
  <2>2. [entry EXCEPT !.kept = kept] \in Entry
    BY DEF Entry
  <2> QED
    BY <2>1, <2>2
<1>2. [a[g] EXCEPT ![i] = [a[g][i] EXCEPT !.kept = kept]] \in [Entries -> Entry]
  BY <1>1
<1> QED
  BY <1>2

LEMMA SocketCalls ==
  ASSUME AppOK, NEW g \in Gos
  PROVE  /\ \A port \in Ports : sys_sock_listen(g, port) => AppOK'
         /\ sys_sock_connect(g) => AppOK'
         /\ \A i \in Entries : sys_sock_tcp_send(g, i) => AppOK'
<1>1. ASSUME NEW port \in Ports, sys_sock_listen(g, port)
      PROVE  AppOK'
  <2>1. port \in Nat /\ g \in Nat
    BY SocketAssumption
  <2>2. <<LISTEN, g, port>> \in Seq(Word)
    BY <2>1 DEF LISTEN, Word
  <2>3. call' \in [Gos -> Seq(Word)]
    BY <1>1, <2>2, CallsTyped DEF sys_sock_listen
  <2>4. active_ports' \in [Gos -> [Entries -> Entry]]
    BY <1>1, <2>1, OpensTyped DEF sys_sock_listen
  <2> QED
    BY <1>1, <2>3, <2>4 DEF sys_sock_listen, AppOK, ReceivesOK
<1>2. ASSUME sys_sock_connect(g)
      PROVE  AppOK'
  <2>1. spark_sockid[g] \in Nat /\ g \in Nat
    BY SocketAssumption DEF AppOK
  <2>2. <<CONNECT, g, 1, 80, spark_sockid[g]>> \in Seq(Word)
    BY <2>1 DEF CONNECT, Word
  <2>3. call' \in [Gos -> Seq(Word)]
    BY <1>2, <2>2, CallsTyped DEF sys_sock_connect
  <2>4. active_ports' \in [Gos -> [Entries -> Entry]]
    BY <1>2, <2>1, OpensTyped DEF sys_sock_connect
  <2>5. spark_sockid' \in [Gos -> Nat]
    BY <1>2 DEF sys_sock_connect, AppOK
  <2> QED
    BY <1>2, <2>3, <2>4, <2>5 DEF sys_sock_connect, AppOK, ReceivesOK
<1>3. ASSUME NEW i \in Entries, sys_sock_tcp_send(g, i)
      PROVE  AppOK'
  <2> DEFINE sockid == active_ports[g][i].sock_id
             number == Len(replies) + 1
  <2>1. sockid \in Nat /\ g \in Nat /\ number \in Nat /\ SendSize \in Nat
    BY SocketAssumption DEF AppOK, Entry, ReceivesOK
  <2>2. <<TCP_SEND, g, 0, SendSize, sockid>> \in Seq(Word)
    BY <2>1 DEF TCP_SEND, Word
  <2>3. <<TCP_SEND, g, 0, SendSize, sockid>> \o Data(number, SendSize) \in Seq(Word)
    BY <2>1, <2>2, DataWords, ConcatProperties
  <2>4. call' \in [Gos -> Seq(Word)]
    BY <1>3, <2>3, CallsTyped DEF sys_sock_tcp_send
  <2>5. replies' \in Seq(Reply)
    <3>1. [gos |-> g, sockid |-> sockid] \in Reply
      BY <2>1 DEF Reply
    <3> QED
      BY <1>3, <3>1, AppendProperties DEF sys_sock_tcp_send, AppOK, ReceivesOK
  <2> QED
    BY <1>3, <2>4, <2>5 DEF sys_sock_tcp_send, AppOK, ReceivesOK
<1> QED
  BY <1>1, <1>2, <1>3

LEMMA DroppedTyped ==
  ASSUME AppOK, NEW g \in Gos, NEW n \in Nat, recv' = [recv EXCEPT ![g] = Drop(@, n)]
  PROVE  /\ recv' \in [Gos -> Seq(Word)]
         /\ Len(recv'[g]) <= Len(recv[g])
         /\ \A h \in Gos \ {g} : recv'[h] = recv[h]
<1>1. recv[g] \in Seq(Word)
  BY DEF AppOK
<1>2. Drop(recv[g], n) \in Seq(Word) /\ Len(Drop(recv[g], n)) <= Len(recv[g])
  BY <1>1, DroppedWords
<1> QED
  BY <1>2 DEF AppOK

LEMMA RecvKeptTyped ==
  ASSUME AppOK, NEW g \in Gos, NEW i \in Entries, RecvKept(g, i)
  PROVE  AppOK'
<1>1. active_ports[g][i].kept \in Seq(Packet) /\ active_ports[g][i].kept # <<>>
  BY DEF AppOK, Entry, RecvKept, Kept
<1>2. Tail(active_ports[g][i].kept) \in Seq(Packet)
  BY <1>1, HeadTailProperties
<1>3. active_ports' = [active_ports EXCEPT ![g][i].kept = Tail(active_ports[g][i].kept)]
  BY DEF RecvKept, KeptAfter
<1>4. active_ports' \in [Gos -> [Entries -> Entry]]
  BY <1>2, <1>3, KeptTyped DEF AppOK
<1>5. ReceivesOK'
  <2>1. Step(g, Idle)
    BY DEF RecvKept, Hands
  <2>2. Idle.pc # "again" /\ recv' = recv /\ replies' = replies
    BY DEF Idle, RecvKept, channels
  <2> QED
    BY <2>1, <2>2, IdleIsReceive, StepKeeps DEF AppOK, ReceivesOK
<1> QED
  BY <1>4, <1>5 DEF AppOK, RecvKept, channels

LEMMA RecvFirstTyped ==
  ASSUME AppOK, NEW g \in Gos, NEW i \in Entries, NEW size \in RecvSizes[g],
         RecvFirst(g, i, size)
  PROVE  AppOK'
<1> DEFINE r == [Idle EXCEPT !.sockid = active_ports[g][i].sock_id, !.index = i,
                             !.size = size]
           n == Wanted(size)
<1>1. size \in Nat /\ i \in Nat /\ active_ports[g][i].sock_id \in Nat /\ n \in Nat
  BY SocketAssumption DEF AppOK, Entry, Entries, Wanted, Header
<1>2. r \in Receive
  BY <1>1, IdleIsReceive DEF Receive
<1>3. recv[g] \in Seq(Word) /\ replies' \in Seq(Reply)
  BY DEF AppOK, ReceivesOK, RecvFirst
<1>4. CASE /\ Len(recv[g]) >= n
           /\ Step(g, [r EXCEPT !.pc = "loop", !.tcp_recv_data = SubSeq(recv[g], 1, n)])
           /\ recv' = [recv EXCEPT ![g] = Drop(@, n)]
  <2> DEFINE q == [r EXCEPT !.pc = "loop", !.tcp_recv_data = SubSeq(recv[g], 1, n)]
  <2>1. SubSeq(recv[g], 1, n) \in Seq(Word)
    BY <1>1, <1>3, <1>4, FirstWords
  <2>2. q \in Receive /\ q.pc # "again"
    BY <1>2, <2>1 DEF Receive
  <2>3. /\ recv' \in [Gos -> Seq(Word)]
        /\ \A h \in Gos \ {g} : recv'[h] = recv[h]
    BY <1>1, <1>4, DroppedTyped
  <2>4. ReceivesOK'
    BY <1>3, <1>4, <2>2, <2>3, StepKeeps DEF AppOK
  <2> QED
    BY <2>3, <2>4 DEF AppOK, RecvFirst
<1>5. CASE /\ Len(recv[g]) < n
           /\ Step(g, [r EXCEPT !.pc = "again", !.message_size = Len(recv[g])])
           /\ UNCHANGED recv
  <2> DEFINE q == [r EXCEPT !.pc = "again", !.message_size = Len(recv[g])]
  <2>1. Len(recv[g]) \in Nat
    BY <1>3
  <2> HIDE DEF r
  <2>2. q \in Receive /\ q.message_size = Len(recv[g])
    BY <1>2, <2>1 DEF Receive
  <2>3. q.message_size <= Len(recv'[g]) /\ \A h \in Gos \ {g} : recv'[h] = recv[h]
    BY <1>5, <2>1, <2>2
  <2>4. ReceivesOK'
    BY <1>3, <1>5, <2>2, <2>3, StepKeeps DEF AppOK
  <2> QED
    BY <1>5, <2>4 DEF AppOK, RecvFirst
<1> QED
  BY <1>4, <1>5 DEF RecvFirst

LEMMA RecvAgainTyped ==
  ASSUME AppOK, NEW g \in Gos, RecvAgain(g)
  PROVE  AppOK'
<1> DEFINE r == receiving[g]
           q == [r EXCEPT !.pc = "loop", !.message_size = 0,
                          !.tcp_recv_data = SubSeq(recv[g], 1, r.message_size)]
<1>1. /\ r \in Receive /\ r.message_size \in Nat
      /\ recv[g] \in Seq(Word) /\ r.message_size <= Len(recv[g])
  BY DEF AppOK, ReceivesOK, Receive, RecvAgain
<1>2. SubSeq(recv[g], 1, r.message_size) \in Seq(Word)
  BY <1>1, FirstWords
<1>3. q \in Receive /\ q.pc # "again"
  BY <1>1, <1>2 DEF Receive
<1>4. /\ recv' \in [Gos -> Seq(Word)]
      /\ \A h \in Gos \ {g} : recv'[h] = recv[h]
  BY <1>1, DroppedTyped DEF RecvAgain
<1>5. Step(g, q) /\ replies' \in Seq(Reply)
  BY DEF RecvAgain, AppOK, ReceivesOK
<1>6. ReceivesOK'
  BY <1>3, <1>4, <1>5, StepKeeps DEF AppOK
<1> QED
  BY <1>4, <1>6 DEF AppOK, RecvAgain

\* A round that leaves channels and sockets alone.
LEMMA RoundTyped ==
  ASSUME AppOK, NEW g \in Gos, NEW r \in Receive, r.pc # "again", Step(g, r),
         UNCHANGED <<channels, spark_sockid, replies>>,
         active_ports' \in [Gos -> [Entries -> Entry]]
  PROVE  AppOK'
<1>1. recv' = recv /\ call' = call /\ replies' \in Seq(Reply)
  BY DEF channels, AppOK, ReceivesOK
<1>2. ReceivesOK'
  BY <1>1, StepKeeps DEF AppOK
<1> QED
  BY <1>1, <1>2 DEF AppOK

LEMMA MessageTyped ==
  ASSUME NEW r \in Receive, Whole(r)
  PROVE  /\ dport(r) \in Nat /\ dlength(r) \in Nat /\ dsockid(r) \in Nat /\ packet(r) \in Nat
         /\ NextMessage(r) \in Seq(Word)
         /\ r.index \in Entries
<1>1. r.tcp_recv_data \in Seq(Nat) /\ Len(r.tcp_recv_data) > 4
  BY DEF Receive, Word, Whole, Header
<1>2. dport(r) \in Nat /\ dlength(r) \in Nat /\ dsockid(r) \in Nat /\ packet(r) \in Nat
  BY <1>1, SMTT(30) DEF dport, dlength, dsockid, packet
<1>3. NextMessage(r) \in Seq(Word)
  BY <1>1, <1>2, DroppedWords DEF NextMessage, Word, Header
<1> QED
  BY <1>2, <1>3 DEF Whole

LEMMA RoundsTyped ==
  ASSUME AppOK, NEW g \in Gos
  PROVE  /\ RecvOwn(g) => AppOK'
         /\ RecvOther(g) => AppOK'
         /\ RecvReturn(g) => AppOK'
<1> DEFINE r == receiving[g]
<1>1. r \in Receive
  BY DEF AppOK, ReceivesOK
<1>2. ASSUME RecvOwn(g)
      PROVE  AppOK'
  <2> DEFINE q == [r EXCEPT !.buffer = packet(r), !.flag_copied = TRUE,
                            !.buffer_bytes = dlength(r), !.tcp_recv_data = NextMessage(r)]
  <2>1. /\ packet(r) \in Nat /\ dlength(r) \in Nat /\ NextMessage(r) \in Seq(Word)
    BY <1>1, <1>2, MessageTyped DEF RecvOwn
  <2>2. q \in Receive /\ q.pc # "again"
    BY <1>1, <1>2, <2>1 DEF Receive, RecvOwn
  <2>3. active_ports' \in [Gos -> [Entries -> Entry]]
    BY <1>2 DEF RecvOwn, AppOK
  <2> QED
    BY <1>2, <2>2, <2>3, RoundTyped DEF RecvOwn
<1>3. ASSUME RecvOther(g)
      PROVE  AppOK'
  <2> DEFINE to == FirstOf(Targets(g, r))
             old == Kept(g, r.index)
             taken == IF old = <<>> THEN active_ports
                      ELSE [active_ports EXCEPT ![g][r.index].kept = KeptAfter(@)]
             size == IF old = <<>> THEN 0 ELSE Head(old).length
             flag == r.flag_copied \/ old # <<>>
             new == [packet |-> packet(r), length |-> dlength(r)]
             q == [r EXCEPT !.buffer = IF old = <<>> THEN @ ELSE Head(old).packet,
                            !.flag_copied = flag, !.size = size,
                            !.buffer_bytes = IF flag THEN size ELSE 0,
                            !.index = to, !.tcp_recv_data = NextMessage(r)]
  <2>1. /\ packet(r) \in Nat /\ dlength(r) \in Nat /\ NextMessage(r) \in Seq(Word)
        /\ r.index \in Entries
    BY <1>1, <1>3, MessageTyped DEF RecvOther
  <2>2. old \in Seq(Packet)
    BY <2>1 DEF AppOK, Entry, Kept
  <2>3. old # <<>> => Head(old) \in Packet /\ Tail(old) \in Seq(Packet)
    BY <2>2, HeadTailProperties
  <2>4. size \in Nat /\ (old # <<>> => Head(old).packet \in Nat)
    BY <2>3 DEF Packet
  <2>5. to \in Entries
    <3>1. to \in InUse(g)
      BY <1>3 DEF RecvOther
    <3> QED
      BY <3>1 DEF InUse
  <2>6. taken \in [Gos -> [Entries -> Entry]]
    <3>1. CASE old = <<>>
      BY <3>1 DEF AppOK
    <3>2. CASE old # <<>>
      <4>1. taken = [active_ports EXCEPT ![g][r.index].kept = Tail(old)]
        BY <3>2 DEF KeptAfter, Kept
      <4> QED
        BY <2>1, <2>3, <3>2, <4>1, KeptTyped DEF AppOK
    <3> QED
      BY <3>1, <3>2
  <2>7. active_ports' \in [Gos -> [Entries -> Entry]]
    <3> DEFINE before == taken[g][to].kept
               after == IF Len(before) = APP_QUEUE_SIZE - 1 THEN before ELSE Append(before, new)
    <3>1. before \in Seq(Packet) /\ new \in Packet
      BY <2>1, <2>5, <2>6 DEF Entry, Packet
    <3>2. after \in Seq(Packet)
      BY <3>1, AppendProperties
    <3>3. active_ports' = [taken EXCEPT ![g][to].kept = after]
      BY <1>3 DEF RecvOther
    <3> HIDE DEF taken, to, after
    <3> QED
      BY <2>5, <2>6, <3>2, <3>3, KeptTyped
  <2>8. q \in Receive /\ q.pc # "again"
    <3>1. flag \in BOOLEAN /\ to \in Nat /\ r.pc = "loop"
      <4>1. flag \in BOOLEAN
        OBVIOUS
      <4>2. to \in Nat
        BY <2>5 DEF Entries
      <4>3. r.pc = "loop"
        BY <1>3 DEF RecvOther
      <4> QED
        BY <4>1, <4>2, <4>3
    <3> DEFINE b == IF old = <<>> THEN r.buffer ELSE Head(old).packet
               n == IF flag THEN size ELSE 0
    <3>2. b \in Nat /\ n \in Nat
      BY <1>1, <2>4 DEF Receive
    <3>3. q = [r EXCEPT !.buffer = b, !.flag_copied = flag, !.size = size,
                        !.buffer_bytes = n, !.index = to, !.tcp_recv_data = NextMessage(r)]
      OBVIOUS
    <3> HIDE DEF b, n, flag, size, to, r, q
    <3> QED
      BY <1>1, <2>1, <2>4, <3>1, <3>2, <3>3 DEF Receive
  <2>9. Step(g, q) /\ UNCHANGED <<channels, spark_sockid, replies>>
    BY <1>3 DEF RecvOther
  <2> QED
    BY <2>7, <2>8, <2>9, RoundTyped
<1>4. ASSUME RecvReturn(g)
      PROVE  AppOK'
  <2>1. Step(g, Idle) /\ Idle.pc # "again"
    BY <1>4 DEF RecvReturn, Hands, Idle
  <2>2. active_ports' \in [Gos -> [Entries -> Entry]]
    BY <1>4 DEF RecvReturn, AppOK
  <2> QED
    BY <1>4, <2>1, <2>2, IdleIsReceive, RoundTyped DEF RecvReturn
<1> QED
  BY <1>2, <1>3, <1>4

LEMMA GuestTyped ==
  ASSUME AppOK, NEW g \in Gos, NextApp(g)
  PROVE  AppOK'
<1>1. ASSUME NEW port \in Ports, sys_sock_listen(g, port)
      PROVE  AppOK'
  BY <1>1, SocketCalls
<1>2. ASSUME sys_sock_connect(g)
      PROVE  AppOK'
  BY <1>2, SocketCalls
<1>3. ASSUME NEW i \in InUse(g),
             \/ sys_sock_tcp_send(g, i)
             \/ RecvKept(g, i)
             \/ \E size \in RecvSizes[g] : RecvFirst(g, i, size)
      PROVE  AppOK'
  <2>1. i \in Entries
    BY DEF InUse
  <2> QED
    BY <1>3, <2>1, SocketCalls, RecvKeptTyped, RecvFirstTyped
<1>4. ASSUME Receiving(g)
      PROVE  AppOK'
  BY <1>4, RecvAgainTyped, RoundsTyped DEF Receiving
<1> QED
  BY <1>1, <1>2, <1>3, <1>4 DEF NextApp

LEMMA CutGrows ==
  ASSUME NEW g \in Gos, NextApp(g)
  PROVE  cut' \in {cut, cut \cup {g}}
<1>1. ASSUME \/ \E port \in Ports : sys_sock_listen(g, port)
             \/ sys_sock_connect(g)
             \/ \E i \in InUse(g) : sys_sock_tcp_send(g, i) \/ RecvKept(g, i)
             \/ Receiving(g)
      PROVE  cut' = cut
  BY <1>1 DEF sys_sock_listen, sys_sock_connect, sys_sock_tcp_send, RecvKept, Receiving,
              RecvAgain, RecvOwn, RecvOther, RecvReturn
<1>2. ASSUME NEW i \in InUse(g), NEW size \in RecvSizes[g], RecvFirst(g, i, size)
      PROVE  cut' \in {cut, cut \cup {g}}
  BY <1>2 DEF RecvFirst
<1> QED
  BY <1>1, <1>2 DEF NextApp

LEMMA GuestStep ==
  ASSUME IInv, NEW g \in Gos, Guest(g)
  PROVE  IInv'
<1>1. AppOK'
  BY GuestTyped DEF IInv, TypeOK, AppOK, Guest
<1>2. UNCHANGED <<front, rear, cqbuff, recv_lengths, listenports, clientports,
                  lastport, c, task1, task2, arrived>>
  BY DEF Guest, nic, server, tables
<1>3. TypeOK'
  <2>1. cut \subseteq Gos /\ cut' \in {cut, cut \cup {g}}
    BY CutGrows DEF Guest, IInv, TypeOK
  <2>2. cut' \subseteq Gos
    BY <2>1
  <2> QED
    BY <1>1, <1>2, <2>2 DEF IInv, TypeOK, AppOK
<1>4. ReceivesOK'
  BY <1>1 DEF AppOK
<1>5. QueueOK'
  BY <1>2 DEF IInv, QueueOK, Full
<1>6. FoundOK'
  BY <1>2 DEF IInv, FoundOK, ListensOn, ConnectsOn
<1>7. TablesOK'
  BY <1>2 DEF IInv, TablesOK
<1>8. EndpointUnique'
  BY <1>2 DEF IInv, EndpointUnique
<1> QED
  BY <1>3, <1>4, <1>5, <1>6, <1>7, <1>8 DEF IInv

-----------------------------------------------------------------------------
\* task2 and the tables of uip.c

UipTypes ==
  /\ listenports \in [ListenSlots -> UipSlot]
  /\ clientports \in [ClientSlots -> UipSlot]
  /\ lastport \in Nat
  /\ c \in (1 .. UIP_LISTENPORTS + 1) \cup (1 .. UIP_CONNS + 1)

UipOK == UipTypes /\ TablesOK /\ EndpointUnique

LEMMA NewSlot ==
  ASSUME NEW port \in Nat, NEW g \in Nat, NEW sockid \in Nat
  PROVE  /\ Slot(port, g, sockid) \in UipSlot
         /\ Slot(port, g, sockid).port = port
         /\ Slot(port, g, sockid).gos_id = g
         /\ Slot(port, g, sockid).sock_id = sockid
BY EmptySeq DEF Slot, UipSlot

LEMMA QueuedSlot ==
  ASSUME NEW slot \in UipSlot, NEW number \in Nat
  PROVE  /\ Queued(slot, number) \in UipSlot
         /\ Queued(slot, number).port = slot.port
         /\ Queued(slot, number).gos_id = slot.gos_id
         /\ Queued(slot, number).sock_id = slot.sock_id
<1> DEFINE kept == IF Len(slot.replies) = APP_QUEUE_SIZE - 1 THEN slot.replies
                   ELSE Append(slot.replies, number)
<1>1. kept \in Seq(Nat)
  BY AppendProperties DEF UipSlot
<1>2. Queued(slot, number) = [slot EXCEPT !.replies = kept]
  BY DEF Queued
<1> HIDE DEF kept
<1> QED
  BY <1>1, <1>2 DEF UipSlot

\* Slots that keep their ports and owners.
LEMMA SamePorts ==
  ASSUME UipOK, UipTypes', lastport' = lastport,
         \A s \in ListenSlots : /\ listenports'[s].port = listenports[s].port
                                /\ listenports'[s].gos_id = listenports[s].gos_id,
         \A s \in ClientSlots : clientports'[s].port = clientports[s].port
  PROVE  UipOK'
<1>1. TablesOK'
  BY DEF UipOK, TablesOK
<1>2. EndpointUnique'
  BY DEF UipOK, EndpointUnique
<1> QED
  BY <1>1, <1>2 DEF UipOK

LEMMA ListenKeeps ==
  ASSUME UipOK, NEW port \in Nat, NEW g \in Nat, uip_listen(port, g)
  PROVE  UipOK'
<1> DEFINE S == FreePorts \cup Foreign(port, g)
           s == LoopEnd(S, UIP_LISTENPORTS)
<1>1. UIP_LISTENPORTS \in Nat /\ S \in SUBSET (1 .. UIP_LISTENPORTS)
  BY ServerAssumption DEF FreePorts, Foreign, ListenSlots
<1>2. s \in 1 .. UIP_LISTENPORTS + 1 /\ (S # {} => \A t \in S : FirstOf(S) <= t)
  BY <1>1, FirstSlot
<1>3. c' = s /\ UNCHANGED <<clientports, lastport>>
  BY DEF uip_listen
<1>4. CASE s \notin FreePorts \ Foreign(port, g)
  <2>1. listenports' = listenports
    BY <1>4 DEF uip_listen
  <2>2. UipTypes'
    BY <1>2, <1>3, <2>1 DEF UipOK, UipTypes
  <2> QED
    BY <1>3, <2>1, <2>2, SamePorts
<1>5. CASE s \in FreePorts \ Foreign(port, g)
  <2>1. listenports' = [listenports EXCEPT ![s] = Slot(port, g, port)]
    BY <1>5 DEF uip_listen
  <2>2. s \in ListenSlots /\ listenports[s].port = 0
    BY <1>5 DEF FreePorts
  <2>3. UipTypes'
    BY <1>2, <1>3, <2>1, NewSlot DEF UipOK, UipTypes
  <2>4. \A t \in ListenSlots : /\ t = s => listenports'[t] = Slot(port, g, port)
                               /\ t # s => listenports'[t] = listenports[t]
    BY <2>1 DEF UipOK, UipTypes
  <2>5. \A t \in S : s <= t
    BY <1>2, <1>5 DEF LoopEnd
  <2>6. \A t \in ListenSlots : t < s => listenports[t].port # 0 /\ t \notin Foreign(port, g)
    BY <1>1, <2>2, <2>5 DEF ListenSlots, FreePorts
  <2>7. \A t \in ListenSlots : t >= s => listenports[t].port = 0 /\ listenports[t].gos_id = 65535
    BY <2>2 DEF UipOK, TablesOK
  \* The first free slot is the guest's 65535 only if there is no such guest.
  <2>8. port = 0 => g = 65535
    BY <1>5, <2>2, <2>7 DEF Foreign, ListenSlots
  <2>9. \A t \in ListenSlots \ {s} : listenports[t].port = port => listenports[t].gos_id = g
    <3> SUFFICES ASSUME NEW t \in ListenSlots \ {s}, listenports[t].port = port
                 PROVE  listenports[t].gos_id = g
      OBVIOUS
    <3>1. CASE t < s
      BY <2>6, <3>1 DEF Foreign
    <3>2. CASE t >= s
      BY <2>7, <2>8, <3>2
    <3> QED
      BY <1>1, <2>2, <3>1, <3>2 DEF ListenSlots
  <2>10. TablesOK'
    <3>1. \A t \in ListenSlots : listenports'[t].port = 0 => listenports'[t].gos_id = 65535
      BY <2>4, <2>8, NewSlot DEF UipOK, TablesOK
    <3>2. ASSUME NEW t \in ListenSlots, NEW u \in ListenSlots, t <= u, listenports'[t].port = 0
          PROVE  listenports'[u].port = 0
      <4>1. CASE u = s
        <5>1. CASE t = s
          BY <3>2, <4>1, <5>1
        <5>2. CASE t # s
          <6>1. t < s
            BY <1>1, <2>2, <3>2, <4>1, <5>2 DEF ListenSlots
          <6>2. listenports[t].port # 0
            BY <2>6, <3>2, <6>1
          <6>3. listenports'[t] = listenports[t]
            BY <2>4, <3>2, <5>2
          <6> QED
            BY <3>2, <6>2, <6>3
        <5> QED
          BY <5>1, <5>2
      <4>2. CASE u # s
        <5>1. CASE t = s
          <6>1. u >= s
            BY <1>1, <2>2, <3>2, <5>1 DEF ListenSlots
          <6> QED
            BY <2>4, <2>7, <3>2, <4>2, <6>1
        <5>2. CASE t # s
          BY <2>4, <3>2, <4>2, <5>2 DEF UipOK, TablesOK
        <5> QED
          BY <5>1, <5>2
      <4> QED
        BY <4>1, <4>2
    <3>3. \A t \in ClientSlots : clientports'[t].port <= lastport'
      BY <1>3 DEF UipOK, TablesOK
    <3> QED
      BY <3>1, <3>2, <3>3 DEF TablesOK
  <2>11. EndpointUnique'
    <3>1. ASSUME NEW t \in ListenSlots, NEW u \in ListenSlots,
                 listenports'[t].port = listenports'[u].port
          PROVE  listenports'[t].gos_id = listenports'[u].gos_id
      <4>1. Slot(port, g, port).port = port /\ Slot(port, g, port).gos_id = g
        BY NewSlot
      <4>2. CASE t = s /\ u # s
        BY <2>4, <2>9, <3>1, <4>1, <4>2
      <4>3. CASE t # s /\ u = s
        BY <2>4, <2>9, <3>1, <4>1, <4>3
      <4>4. CASE t # s /\ u # s
        BY <2>4, <3>1, <4>4 DEF UipOK, EndpointUnique
      <4> QED
        BY <4>2, <4>3, <4>4
    <3>2. \A t, u \in ClientSlots :
            clientports'[t].port # 0 /\ clientports'[t].port = clientports'[u].port => t = u
      BY <1>3 DEF UipOK, EndpointUnique
    <3> QED
      BY <3>1, <3>2 DEF EndpointUnique
  <2> QED
    BY <2>3, <2>10, <2>11 DEF UipOK
<1> QED
  BY <1>4, <1>5

LEMMA ConnectKeeps ==
  ASSUME UipOK, NEW g \in Nat, NEW sockid \in Nat, uip_connect(g, sockid)
  PROVE  UipOK'
<1>1. /\ lastport' = lastport + 1 /\ lastport \in Nat /\ lastport' \in Nat
      /\ listenports' = listenports /\ UIP_CONNS \in Nat
  BY ServerAssumption DEF uip_connect, UipOK, UipTypes
<1>2. CASE UNCHANGED clientports /\ c' = UIP_CONNS + 1
  <2>1. UipTypes'
    BY <1>1, <1>2 DEF UipOK, UipTypes
  <2>2. TablesOK'
    <3>1. \A s \in ClientSlots : clientports[s].port \in Nat
      BY DEF UipOK, UipTypes, UipSlot
    <3> QED
      BY <1>1, <1>2, <3>1 DEF UipOK, TablesOK
  <2>3. EndpointUnique'
    BY <1>1, <1>2 DEF UipOK, EndpointUnique
  <2> QED
    BY <2>1, <2>2, <2>3 DEF UipOK
<1>3. CASE LET s == LoopEnd(FreeClients, UIP_CONNS)
           IN  /\ c' = s
               /\ clientports' = [t \in ClientSlots |->
                                    IF t = s THEN Slot(lastport', g, sockid)
                                    ELSE clientports[t]]
  <2> DEFINE s == LoopEnd(FreeClients, UIP_CONNS)
  <2>1. s \in 1 .. UIP_CONNS + 1
    <3>1. FreeClients \in SUBSET (1 .. UIP_CONNS)
      BY DEF FreeClients, ClientSlots
    <3> QED
      BY <1>1, <3>1, FirstSlot
  <2> HIDE DEF s
  <2>2. \A t \in ClientSlots : clientports'[t] = IF t = s THEN Slot(lastport', g, sockid)
                                                 ELSE clientports[t]
    BY <1>3 DEF s
  <2>3. /\ Slot(lastport', g, sockid) \in UipSlot
        /\ Slot(lastport', g, sockid).port = lastport'
    BY <1>1, NewSlot
  <2>4. UipTypes'
    <3>1. clientports' \in [ClientSlots -> UipSlot]
      BY <1>3, <2>3 DEF UipOK, UipTypes
    <3>2. c' = s
      BY <1>3 DEF s
    <3> QED
      BY <1>1, <2>1, <3>1, <3>2 DEF UipOK, UipTypes
  <2>5. \A t \in ClientSlots : clientports[t].port \in Nat /\ clientports[t].port <= lastport
    BY DEF UipOK, UipTypes, UipSlot, TablesOK
  <2>6. TablesOK'
    <3>1. \A t \in ClientSlots : clientports'[t].port <= lastport'
      BY <1>1, <2>2, <2>3, <2>5
    <3> QED
      BY <1>1, <3>1 DEF UipOK, TablesOK
  <2>7. EndpointUnique'
    <3>1. ASSUME NEW t \in ClientSlots, NEW u \in ClientSlots,
                 clientports'[t].port # 0, clientports'[t].port = clientports'[u].port
          PROVE  t = u
      <4>1. CASE t # s /\ u # s
        BY <2>2, <3>1, <4>1 DEF UipOK, EndpointUnique
      <4>2. CASE t = s /\ u # s
        BY <1>1, <2>2, <2>3, <2>5, <3>1, <4>2
      <4>3. CASE t # s /\ u = s
        BY <1>1, <2>2, <2>3, <2>5, <3>1, <4>3
      <4> QED
        BY <4>1, <4>2, <4>3
    <3> QED
      BY <1>1, <3>1 DEF UipOK, EndpointUnique
  <2> QED
    BY <2>4, <2>6, <2>7 DEF UipOK
<1> QED
  BY <1>2, <1>3 DEF uip_connect

LEMMA SendKeeps ==
  ASSUME UipOK, NEW g \in Nat, NEW sockid \in Nat, NEW number \in Nat,
         uip_tcp_send(g, sockid, number)
  PROVE  UipOK'
<1> DEFINE ls == ListensAs(g, sockid)
           cs == ConnectsAs(g, sockid)
           s == IF ls # {} THEN FirstOf(ls) ELSE LoopEnd(cs, UIP_CONNS)
<1>1. /\ UIP_LISTENPORTS \in Nat /\ UIP_CONNS \in Nat
      /\ ls \in SUBSET (1 .. UIP_LISTENPORTS) /\ cs \in SUBSET (1 .. UIP_CONNS)
  BY ServerAssumption DEF ListensAs, ConnectsAs, ListenSlots, ClientSlots
<1>2. /\ ls # {} => s \in ls
      /\ ls = {} => s \in 1 .. UIP_CONNS + 1
      /\ ls = {} /\ cs # {} => s \in cs
  BY <1>1, FirstSlot DEF LoopEnd
<1>3. c' = s /\ lastport' = lastport
  BY DEF uip_tcp_send
<1>4. /\ listenports' = IF ls = {} THEN listenports
                        ELSE [listenports EXCEPT ![s] = Queued(@, number)]
      /\ clientports' = IF ls # {} \/ cs = {} THEN clientports
                        ELSE [clientports EXCEPT ![s] = Queued(@, number)]
  BY DEF uip_tcp_send
<1> HIDE DEF ls, cs, s
<1>5. CASE ls # {}
  <2>1. s \in ListenSlots
    BY <1>1, <1>2, <1>5 DEF ListenSlots
  <2>2. /\ listenports' = [listenports EXCEPT ![s] = Queued(listenports[s], number)]
        /\ clientports' = clientports
    BY <1>4, <1>5
  <2> DEFINE q == Queued(listenports[s], number)
  <2>3. q \in UipSlot /\ q.port = listenports[s].port /\ q.gos_id = listenports[s].gos_id
    <3>1. listenports[s] \in UipSlot
      BY <2>1 DEF UipOK, UipTypes
    <3> QED
      BY <3>1, QueuedSlot
  <2> HIDE DEF q
  <2>4. UipTypes'
    BY <1>1, <1>3, <2>1, <2>2, <2>3 DEF UipOK, UipTypes, ListenSlots, q
  <2>5. \A t \in ListenSlots : /\ listenports'[t].port = listenports[t].port
                               /\ listenports'[t].gos_id = listenports[t].gos_id
    BY <2>1, <2>2, <2>3 DEF UipOK, UipTypes, q
  <2> QED
    BY <1>3, <2>2, <2>4, <2>5, SamePorts
<1>6. CASE ls = {} /\ cs # {}
  <2>1. s \in ClientSlots
    BY <1>1, <1>2, <1>6 DEF ClientSlots
  <2>2. /\ clientports' = [clientports EXCEPT ![s] = Queued(clientports[s], number)]
        /\ listenports' = listenports
    BY <1>4, <1>6
  <2> DEFINE q == Queued(clientports[s], number)
  <2>3. q \in UipSlot /\ q.port = clientports[s].port /\ q.gos_id = clientports[s].gos_id
    <3>1. clientports[s] \in UipSlot
      BY <2>1 DEF UipOK, UipTypes
    <3> QED
      BY <3>1, QueuedSlot
  <2> HIDE DEF q
  <2>4. UipTypes'
    BY <1>2, <1>3, <1>6, <2>1, <2>2, <2>3 DEF UipOK, UipTypes, q
  <2>5. \A t \in ClientSlots : clientports'[t].port = clientports[t].port
    BY <2>1, <2>2, <2>3 DEF UipOK, UipTypes, q
  <2> QED
    BY <1>3, <2>2, <2>4, <2>5, SamePorts
<1>7. CASE ls = {} /\ cs = {}
  <2>1. UipTypes'
    BY <1>2, <1>3, <1>4, <1>7 DEF UipOK, UipTypes
  <2> QED
    BY <1>3, <1>4, <1>7, <2>1, SamePorts
<1> QED
  BY <1>5, <1>6, <1>7

\* task2 does not move while example3_app has found a connection.
LEMMA WaitsForFrame ==
  ASSUME IInv, Task2, ~Interrupted
  PROVE  task1.pc # "found"
<1> SUFFICES ASSUME task1.pc = "found"
             PROVE  FALSE
  OBVIOUS
<1>1. task2 = Waits
  BY DEF IInv, FoundOK
<1>2. ~Task2Begin
  BY DEF Task2Begin, MayBegin
<1>3. ASSUME NEW g \in Gos
      PROVE  ~Task2CallId(g) /\ ~Task2Serve(g)
  <2>1. g # 0
    BY SocketAssumption
  <2>2. task2.gos = 0
    BY <1>1 DEF Waits
  <2> QED
    BY <2>1, <2>2 DEF Task2CallId, Task2Serve, Looks
<1> QED
  BY <1>2, <1>3 DEF Task2

LEMMA NextGuestTyped ==
  ASSUME NEW g \in Gos
  PROVE  NextGuest(g) \in Gos \cup {0}
<1>1. Later(g) \in SUBSET Nat
  <2>1. Gos \subseteq Nat
    BY SocketAssumption
  <2>2. Later(g) \subseteq Gos
    BY DEF Later
  <2> QED
    BY <2>1, <2>2
<1>2. CASE Later(g) = {}
  BY <1>2 DEF NextGuest
<1>3. CASE Later(g) # {}
  BY <1>1, <1>3, FirstOfSet DEF NextGuest, Later
<1> QED
  BY <1>2, <1>3

Looking == [gos : Gos \cup {0}, callid : Nat]

LEMMA Task2Tables ==
  ASSUME IInv, Task2
  PROVE  /\ call' \in [Gos -> Seq(Word)]
         /\ task2' \in Looking
         /\ UipOK'
<1>1. UipOK /\ call \in [Gos -> Seq(Word)]
  BY DEF IInv, TypeOK, UipOK, UipTypes
<1>2. ASSUME UNCHANGED tables
      PROVE  UipOK'
  BY <1>1, <1>2 DEF tables, UipOK, UipTypes, TablesOK, EndpointUnique
<1>3. CASE Task2Begin
  <2>1. Gos # {} /\ Gos \in SUBSET Nat
    BY <1>3, SocketAssumption DEF Task2Begin
  <2>2. FirstOf(Gos) \in Gos
    BY <2>1, FirstOfSet
  <2> QED
    BY <1>1, <1>2, <1>3, <2>2 DEF Task2Begin, Looks, Looking
<1>4. ASSUME NEW g \in Gos, Task2CallId(g)
      PROVE  /\ call' \in [Gos -> Seq(Word)]
             /\ task2' \in Looking
             /\ UipOK'
  <2>1. Looks(NextGuest(g)) \in Looking
    BY NextGuestTyped DEF Looks, Looking
  <2>2. CASE call[g] = <<>> /\ task2' = Looks(NextGuest(g)) /\ UNCHANGED call
    BY <1>1, <1>2, <1>4, <2>1, <2>2 DEF Task2CallId
  <2>3. CASE /\ call[g] # <<>>
             /\ task2' = IF Head(call[g]) \in Cases(g) THEN [gos |-> g, callid |-> Head(call[g])]
                                                        ELSE Looks(NextGuest(g))
             /\ call' = CallTaken(g)
    <3>1. call[g] \in Seq(Word)
      BY <1>1
    <3>2. Head(call[g]) \in Nat /\ Tail(call[g]) \in Seq(Word)
      BY <2>3, <3>1, HeadTailProperties DEF Word
    <3>3. call' \in [Gos -> Seq(Word)]
      BY <1>1, <2>3, <3>2 DEF CallTaken
    <3>4. task2' \in Looking
      BY <2>1, <2>3, <3>2 DEF Looking
    <3> QED
      BY <1>2, <1>4, <3>3, <3>4 DEF Task2CallId
  <2> QED
    BY <1>4, <2>2, <2>3 DEF Task2CallId
<1>5. ASSUME NEW g \in Gos, Task2Serve(g)
      PROVE  /\ call' \in [Gos -> Seq(Word)]
             /\ task2' \in Looking
             /\ UipOK'
  <2> DEFINE words == call[g]
  <2>1. words \in Seq(Word)
    BY <1>1
  <2>2. task2' \in Looking
    BY <1>5, NextGuestTyped DEF Task2Serve, Looks, Looking
  <2>3. CASE task2.callid = LISTEN /\ uip_listen(words[2], words[1])
    <3>1. Len(words) >= 2
      BY <1>5, <2>3, <2>1 DEF Task2Serve
    <3>2. words[1] \in Nat /\ words[2] \in Nat
      BY <2>1, <3>1 DEF Word
    <3>3. UipOK'
      BY <1>1, <2>3, <3>2, ListenKeeps
    <3>4. Rest(g) = 2
      BY <2>3 DEF Rest, LISTEN, CONNECT, TCP_SEND
    <3>5. Drop(words, 2) \in Seq(Word)
      BY <2>1, DroppedWords
    <3> QED
      BY <1>1, <1>5, <2>2, <3>3, <3>4, <3>5 DEF Task2Serve
  <2>4. CASE task2.callid = CONNECT /\ uip_connect(words[1], words[4])
    <3>1. Len(words) >= 4
      BY <1>5, <2>4 DEF Task2Serve, LISTEN, CONNECT
    <3>2. words[1] \in Nat /\ words[4] \in Nat
      BY <2>1, <3>1 DEF Word
    <3>3. UipOK'
      BY <1>1, <2>4, <3>2, ConnectKeeps
    <3>4. Rest(g) = 4
      BY <2>4 DEF Rest, LISTEN, CONNECT, TCP_SEND
    <3>5. Drop(words, 4) \in Seq(Word)
      BY <2>1, DroppedWords
    <3> QED
      BY <1>1, <1>5, <2>2, <3>3, <3>4, <3>5 DEF Task2Serve
  <2>5. CASE /\ task2.callid = TCP_SEND
             /\ IF words[3] > 0 THEN uip_tcp_send(words[1], words[4], words[5])
                                ELSE UNCHANGED tables
    <3>1. Len(words) >= 4
      BY <1>5, <2>5 DEF Task2Serve, LISTEN, TCP_SEND
    <3>2. words[1] \in Nat /\ words[3] \in Nat /\ words[4] \in Nat
      BY <2>1, <3>1 DEF Word
    <3>3. Rest(g) = 4 + words[3]
      BY <2>5 DEF Rest, LISTEN, CONNECT, TCP_SEND
    <3>4. Len(words) >= 4 + words[3]
      BY <1>5, <3>3 DEF Task2Serve
    <3>5. UipOK'
      <4>1. CASE words[3] > 0
        <5>1. Len(words) >= 5
          <6>1. Len(words) \in Nat
            BY <2>1
          <6> QED
            BY <3>2, <3>4, <4>1, <6>1
        <5>2. words[5] \in Nat
          BY <2>1, <5>1 DEF Word
        <5> QED
          BY <1>1, <2>5, <3>2, <4>1, <5>2, SendKeeps
      <4>2. CASE ~(words[3] > 0)
        BY <1>2, <2>5, <4>2
      <4> QED
        BY <4>1, <4>2
    <3>6. Drop(words, 4 + words[3]) \in Seq(Word)
      BY <2>1, <3>2, DroppedWords
    <3> QED
      BY <1>1, <1>5, <2>2, <3>3, <3>5, <3>6 DEF Task2Serve
  <2> QED
    BY <1>5, <2>3, <2>4, <2>5 DEF Task2Serve
<1> QED
  BY <1>3, <1>4, <1>5 DEF Task2

LEMMA Task2Step ==
  ASSUME IInv, Task2, UNCHANGED app
  PROVE  IInv'
<1>1. /\ call' \in [Gos -> Seq(Word)]
      /\ task2' \in Looking
      /\ UipOK'
  BY Task2Tables
<1>2. UNCHANGED <<recv, front, rear, cqbuff, recv_lengths, task1, arrived,
                  receiving, replies, active_ports, spark_sockid, cut>>
  BY DEF Task2, nic, app
<1>3. TypeOK'
  BY <1>1, <1>2 DEF IInv, TypeOK, UipOK, UipTypes, Looking
<1>4. ReceivesOK'
  BY <1>2 DEF IInv, ReceivesOK
<1>5. QueueOK'
  BY <1>2 DEF IInv, QueueOK, Full
<1>6. FoundOK'
  <2>1. task1.pc = "found" => Interrupted
    BY WaitsForFrame
  <2> QED
    BY <1>2, <2>1 DEF IInv, FoundOK
<1> QED
  BY <1>1, <1>3, <1>4, <1>5, <1>6 DEF IInv, UipOK

-----------------------------------------------------------------------------
\* task1 and the driver's queue

LEMMA FrameAtFront ==
  ASSUME IInv, ~isempty
  PROVE  Came(NextFrame, arrived)
<1>1. front \in Slots /\ rear \in Slots /\ front # rear
  BY DEF IInv, TypeOK, isempty
<1>2. Full(front)
  BY <1>1, NicAssumption DEF Full, Slots
<1> QED
  BY <1>1, <1>2 DEF IInv, QueueOK, NextFrame

NicTypes ==
  /\ front \in Slots /\ rear \in Slots
  /\ cqbuff \in [Slots -> FrameOrBlank]
  /\ recv_lengths \in [Slots -> Nat]

LEMMA TakenFrame ==
  ASSUME IInv, rhine_receive, arrived' = arrived
  PROVE  NicTypes' /\ QueueOK'
<1>1. /\ front \in Slots /\ rear \in Slots /\ front # rear
      /\ cqbuff \in [Slots -> FrameOrBlank] /\ recv_lengths \in [Slots -> Nat]
  BY DEF IInv, TypeOK, isempty, rhine_receive
<1>2. /\ cqbuff' = [cqbuff EXCEPT ![front] = Blank]
      /\ recv_lengths' = [recv_lengths EXCEPT ![front] = 0]
      /\ front' = After(front)
      /\ rear' = rear
  BY DEF rhine_receive
<1>3. /\ After(front) \in Slots
      /\ After(front) = IF front = RX_DESC_DEF - 1 THEN 0 ELSE front + 1
  BY <1>1, SlotBehind
<1>4. NicTypes'
  BY <1>1, <1>2, <1>3 DEF NicTypes, FrameOrBlank
<1>5. ASSUME NEW s \in Slots, Full(s)'
      PROVE  Full(s) /\ s # front
  <2>1. IF front' <= rear THEN front' <= s /\ s < rear ELSE front' <= s \/ s < rear
    BY <1>2, <1>5 DEF Full
  <2> QED
    BY <1>1, <1>2, <1>3, <2>1, NicAssumption DEF Full, Slots
<1>6. QueueOK'
  <2> SUFFICES ASSUME NEW s \in Slots, Full(s)'
               PROVE  Came(cqbuff'[s], arrived)
    BY DEF QueueOK, Came
  <2>1. Full(s) /\ s # front
    BY <1>5
  <2>2. cqbuff'[s] = cqbuff[s]
    BY <1>1, <1>2, <2>1
  <2> QED
    BY <2>1, <2>2 DEF IInv, QueueOK
<1> QED
  BY <1>4, <1>6

LEMMA CameBefore ==
  ASSUME arrived \in Seq(Nat), NEW port \in Nat, NEW f, Came(f, arrived)
  PROVE  Came(f, Append(arrived, port))
<1>1. /\ Len(Append(arrived, port)) = Len(arrived) + 1
      /\ \A i \in 1 .. Len(arrived) : Append(arrived, port)[i] = arrived[i]
  BY AppendProperties
<1>2. Len(arrived) \in Nat
  OBVIOUS
<1>3. f.packet \in 1 .. Len(arrived) + 1
  BY <1>2 DEF Came
<1> QED
  BY <1>1, <1>3 DEF Came

LEMMA NewFrame ==
  ASSUME IInv, NEW port \in Nat, NEW f, rhine_receive_frame(f), Came(f, arrived'),
         arrived' = Append(arrived, port)
  PROVE  NicTypes' /\ QueueOK'
<1>1. /\ front \in Slots /\ rear \in Slots
      /\ cqbuff \in [Slots -> FrameOrBlank] /\ recv_lengths \in [Slots -> Nat]
      /\ front' = front /\ arrived \in Seq(Nat)
  BY DEF IInv, TypeOK, rhine_receive_frame
<1>2. CASE isfull(rear) /\ UNCHANGED <<rear, cqbuff, recv_lengths>>
  <2>1. NicTypes'
    BY <1>1, <1>2 DEF NicTypes
  <2>2. ASSUME NEW s \in Slots, Full(s)'
        PROVE  Came(cqbuff'[s], arrived')
    <3>1. Full(s)
      BY <1>1, <1>2, <2>2 DEF Full
    <3>2. Came(cqbuff[s], arrived)
      BY <3>1 DEF IInv, QueueOK
    <3> QED
      BY <1>1, <1>2, <3>2, CameBefore
  <2> QED
    BY <2>1, <2>2 DEF QueueOK
<1>3. CASE /\ ~isfull(rear)
           /\ cqbuff' = [cqbuff EXCEPT ![rear] = f]
           /\ rear' = After(rear)
           /\ recv_lengths' = [recv_lengths EXCEPT ![After(rear)] = f.length]
  <2>1. /\ After(rear) \in Slots /\ After(rear) # front
        /\ After(rear) = IF rear = RX_DESC_DEF - 1 THEN 0 ELSE rear + 1
    BY <1>1, <1>3, SlotBehind DEF isfull
  <2>2. f \in FrameOrBlank /\ f.length \in Nat
    BY ServerAssumption DEF Came, FrameOrBlank
  <2>3. NicTypes'
    BY <1>1, <1>3, <2>1, <2>2 DEF NicTypes
  <2>4. ASSUME NEW s \in Slots, Full(s)'
        PROVE  Came(cqbuff'[s], arrived')
    <3>1. IF front <= rear' THEN front <= s /\ s < rear' ELSE front <= s \/ s < rear'
      BY <1>1, <2>4 DEF Full
    <3>2. s = rear \/ Full(s)
      BY <1>1, <1>3, <2>1, <3>1, NicAssumption DEF Full, Slots
    <3>3. CASE s = rear
      BY <1>1, <1>3, <3>3
    <3>4. CASE s # rear
      <4>1. Came(cqbuff[s], arrived)
        BY <3>2, <3>4 DEF IInv, QueueOK
      <4>2. cqbuff'[s] = cqbuff[s]
        BY <1>1, <1>3, <3>4
      <4> QED
        BY <1>1, <4>1, <4>2, CameBefore
    <3> QED
      BY <3>3, <3>4
  <2> QED
    BY <2>3, <2>4 DEF QueueOK
<1> QED
  BY <1>2, <1>3 DEF rhine_receive_frame

-----------------------------------------------------------------------------
\* task1 and the guests' channels

\* What is sent goes to one guest, and ends with the packet's number.
LEMMA Sent ==
  ASSUME recv \in [Gos -> Seq(Word)], NEW g \in Gos, NEW port \in Nat, NEW length \in Nat,
         NEW sockid \in Nat, NEW number \in Nat, SendsTo(g, port, length, sockid, number)
  PROVE  /\ recv' \in [Gos -> Seq(Word)]
         /\ \A h \in Gos : Len(recv[h]) <= Len(recv'[h])
         /\ \A h \in Gos \ {g} : recv'[h] = recv[h]
         /\ length # 0 => recv'[g][Len(recv'[g])] = number
<1> DEFINE head == <<4444, port, length, sockid>>
           data == Data(number, length)
           message == head \o data
<1>1. head \in Seq(Word) /\ Len(head) = 4
  BY DEF Word
<1>2. data \in Seq(Word) /\ Len(data) = length /\ \A k \in 1 .. length : data[k] = number
  BY DataWords
<1> HIDE DEF head, data
<1>3. /\ message \in Seq(Word) /\ Len(message) = 4 + length
      /\ \A k \in 1 .. 4 + length : message[k] = IF k <= 4 THEN head[k] ELSE data[k - 4]
  <2>1. /\ message \in Seq(Word) /\ Len(message) = Len(head) + Len(data)
        /\ \A k \in 1 .. Len(head) + Len(data) :
             message[k] = IF k <= Len(head) THEN head[k] ELSE data[k - Len(head)]
    BY <1>1, <1>2, ConcatProperties
  <2> HIDE DEF message
  <2> QED
    BY <1>1, <1>2, <2>1
<1>4. length # 0 => message[4 + length] = number
  BY <1>2, <1>3
<1>5. recv' = [recv EXCEPT ![g] = @ \o message]
  BY DEF SendsTo, Behind, head, data
<1> HIDE DEF message
<1>6. recv[g] \in Seq(Word) /\ Len(recv[g]) \in Nat
  OBVIOUS
<1>7. /\ recv[g] \o message \in Seq(Word)
      /\ Len(recv[g] \o message) = Len(recv[g]) + Len(message)
      /\ \A k \in 1 .. Len(recv[g]) + Len(message) :
           (recv[g] \o message)[k] =
             IF k <= Len(recv[g]) THEN recv[g][k] ELSE message[k - Len(recv[g])]
  BY <1>3, <1>6, ConcatProperties
<1>8. recv' \in [Gos -> Seq(Word)] /\ recv'[g] = recv[g] \o message
  BY <1>5, <1>7
<1>9. \A h \in Gos \ {g} : recv'[h] = recv[h]
  BY <1>5
<1>10. \A h \in Gos : Len(recv[h]) <= Len(recv'[h])
  <2>1. Len(recv[g]) <= Len(recv'[g])
    BY <1>3, <1>6, <1>7, <1>8
  <2>2. \A h \in Gos : Len(recv[h]) \in Nat
    OBVIOUS
  <2> QED
    BY <1>9, <2>1, <2>2
<1>11. ASSUME length # 0
       PROVE  recv'[g][Len(recv'[g])] = number
  <2>1. Len(recv'[g]) = Len(recv[g]) + (4 + length)
    BY <1>3, <1>7, <1>8
  <2>2. (recv[g] \o message)[Len(recv[g]) + (4 + length)] = message[4 + length]
    BY <1>3, <1>6, <1>7
  <2> QED
    BY <1>4, <1>8, <1>11, <2>1, <2>2
<1> QED
  BY <1>8, <1>9, <1>10, <1>11

LEMMA AnsweredSlot ==
  ASSUME NEW slot \in UipSlot
  PROVE  /\ Answered(slot) \in UipSlot
         /\ Answered(slot).port = slot.port
         /\ Answered(slot).gos_id = slot.gos_id
         /\ Answered(slot).sock_id = slot.sock_id
<1> DEFINE left == IF slot.replies = <<>> THEN slot.replies ELSE Tail(slot.replies)
<1>1. left \in Seq(Nat)
  BY HeadTailProperties DEF UipSlot
<1>2. Answered(slot) = [slot EXCEPT !.replies = left]
  BY DEF Answered
<1> HIDE DEF left
<1> QED
  BY <1>1, <1>2 DEF UipSlot

LEMMA PortsNamed ==
  ASSUME IInv, NEW port \in ArrivesFor
  PROVE  port \in Nat
<1>1. \A s \in ClientSlots : clientports[s].port \in Nat
  BY DEF IInv, TypeOK, UipSlot
<1> QED
  BY <1>1, SocketAssumption DEF ArrivesFor, CommandPort

\* The part of the invariant that a step of task1 can disturb.
LEMMA Task1Keeps ==
  ASSUME IInv, UNCHANGED <<app, call, task2>>,
         NicTypes', QueueOK', UipOK', FoundOK',
         recv' \in [Gos -> Seq(Word)],
         \A h \in Gos : Len(recv[h]) <= Len(recv'[h]),
         task1' \in [pc : {"wait", "found"}, packet : FrameOrBlank],
         arrived' \in Seq(Nat)
  PROVE  IInv'
<1>1. TypeOK'
  BY DEF IInv, TypeOK, NicTypes, UipOK, UipTypes, app
<1>2. ReceivesOK'
  <2>1. \A g \in Gos : receiving[g].pc = "again" => receiving[g].message_size <= Len(recv'[g])
    <3> SUFFICES ASSUME NEW g \in Gos, receiving[g].pc = "again"
                 PROVE  receiving[g].message_size <= Len(recv'[g])
      OBVIOUS
    <3>1. /\ receiving[g].message_size \in Nat
          /\ receiving[g].message_size <= Len(recv[g])
      BY DEF IInv, ReceivesOK, Receive
    <3>2. Len(recv[g]) \in Nat /\ Len(recv'[g]) \in Nat
      BY DEF IInv, TypeOK
    <3>3. Len(recv[g]) <= Len(recv'[g])
      OBVIOUS
    <3> QED
      BY <3>1, <3>2, <3>3
  <2>2. receiving' = receiving /\ replies' = replies
    BY DEF app
  <2> QED
    BY <2>1, <2>2 DEF IInv, ReceivesOK
<1> QED
  BY <1>1, <1>2 DEF IInv, UipOK

LEMMA SameWords ==
  ASSUME IInv, recv' = recv
  PROVE  /\ recv' \in [Gos -> Seq(Word)]
         /\ \A h \in Gos : Len(recv[h]) <= Len(recv'[h])
<1>1. recv \in [Gos -> Seq(Word)]
  BY DEF IInv, TypeOK
<1>2. \A h \in Gos : Len(recv[h]) \in Nat
  BY <1>1
<1> QED
  BY <1>1, <1>2

LEMMA SameTables ==
  ASSUME IInv, UNCHANGED tables
  PROVE  UipOK'
<1>1. UipTypes'
  BY DEF IInv, TypeOK, UipTypes, tables
<1>2. TablesOK' /\ EndpointUnique'
  BY DEF IInv, TablesOK, EndpointUnique, tables
<1> QED
  BY <1>1, <1>2 DEF UipOK

LEMMA PollKeeps ==
  ASSUME IInv, NEW port \in ArrivesFor, NEW length \in Lengths, Poll(port, length),
         UNCHANGED <<app, call, task2>>
  PROVE  IInv'
<1> DEFINE f == [port |-> port, packet |-> Len(arrived'), length |-> length]
<1>1. port \in Nat /\ length \in Nat \ {0} /\ arrived \in Seq(Nat)
  BY PortsNamed, ServerAssumption DEF IInv, TypeOK
<1>2. /\ arrived' = Append(arrived, port)
      /\ rhine_receive_frame(f)
      /\ UNCHANGED <<recv, tables, task1>>
      /\ task1.pc = "wait"
  BY DEF Poll, Between
<1>3. /\ arrived' \in Seq(Nat)
      /\ Len(arrived') = Len(arrived) + 1
      /\ arrived'[Len(arrived) + 1] = port
  BY <1>1, <1>2, AppendProperties
<1>4. Came(f, arrived')
  <2>1. Len(arrived) \in Nat /\ Len(arrived') \in Nat
    BY <1>1, <1>3
  <2> QED
    BY <1>1, <1>3, <2>1 DEF Came
<1> HIDE DEF f
<1>5. NicTypes' /\ QueueOK'
  BY <1>1, <1>2, <1>4, NewFrame
<1>6. FoundOK'
  BY <1>2 DEF FoundOK
<1>7. /\ recv' \in [Gos -> Seq(Word)]
      /\ \A h \in Gos : Len(recv[h]) <= Len(recv'[h])
  BY <1>2, SameWords
<1>8. UipOK'
  BY <1>2, SameTables
<1>9. task1' \in [pc : {"wait", "found"}, packet : FrameOrBlank]
  BY <1>2 DEF IInv, TypeOK
<1> QED
  BY <1>3, <1>5, <1>6, <1>7, <1>8, <1>9, Task1Keeps

\* The frame uip_process has found a port for.
LEMMA FoundFrame ==
  ASSUME IInv, ~isempty, ~Dropped
  PROVE  /\ frame.port \in Nat /\ frame.packet \in Nat /\ frame.length \in Nat \ {0}
         /\ frame.packet \in 1 .. Len(arrived)
         /\ arrived[frame.packet] = frame.port
         /\ frame \in FrameOrBlank
         /\ ListensOn(frame.port) # {} =>
              FirstOf(ListensOn(frame.port)) \in ListenSlots
         /\ ListensOn(frame.port) = {} =>
              /\ ConnectsOn(frame.port) # {}
              /\ FirstOf(ConnectsOn(frame.port)) \in ConnectsOn(frame.port)
<1>1. Came(frame, arrived)
  BY FrameAtFront DEF frame
<1>2. /\ frame.port \in Nat /\ frame.packet \in Nat /\ frame.length \in Nat \ {0}
      /\ frame.packet \in 1 .. Len(arrived)
      /\ arrived[frame.packet] = frame.port
      /\ frame \in FrameOrBlank
  BY <1>1, ServerAssumption DEF Came, FrameOrBlank
<1> DEFINE ls == ListensOn(frame.port)
           cs == ConnectsOn(frame.port)
<1>3. /\ ls \in SUBSET (1 .. UIP_LISTENPORTS) /\ UIP_LISTENPORTS \in Nat
      /\ cs \in SUBSET (1 .. UIP_CONNS) /\ UIP_CONNS \in Nat
  BY ServerAssumption DEF ListensOn, ConnectsOn, ListenSlots, ClientSlots
<1>4. ls # {} => FirstOf(ls) \in ls
  BY <1>3, FirstSlot
<1>5. cs # {} => FirstOf(cs) \in cs
  BY <1>3, FirstSlot
<1>6. ls \cup cs # {}
  BY DEF Dropped
<1> QED
  BY <1>2, <1>3, <1>4, <1>5, <1>6 DEF ListenSlots

LEMMA DroppedKeeps ==
  ASSUME IInv, Between, InputDropped, UNCHANGED <<app, call, task2, arrived>>
  PROVE  IInv'
<1>1. rhine_receive /\ UNCHANGED <<recv, tables, task1>> /\ task1.pc = "wait"
  BY DEF InputDropped, Between
<1>2. NicTypes' /\ QueueOK'
  BY <1>1, TakenFrame
<1>3. FoundOK'
  BY <1>1 DEF FoundOK
<1>4. /\ recv' \in [Gos -> Seq(Word)]
      /\ \A h \in Gos : Len(recv[h]) <= Len(recv'[h])
  BY <1>1, SameWords
<1>5. UipOK'
  BY <1>1, SameTables
<1>6. /\ task1' \in [pc : {"wait", "found"}, packet : FrameOrBlank]
      /\ arrived' \in Seq(Nat)
  BY <1>1 DEF IInv, TypeOK
<1> QED
  BY <1>2, <1>3, <1>4, <1>5, <1>6, Task1Keeps

LEMMA ListenInput ==
  ASSUME IInv, Between, InputListen, UNCHANGED <<app, call, task2, arrived>>
  PROVE  IInv'
<1> DEFINE s == FirstOf(ListensOn(frame.port))
           slot == listenports[s]
           a == Answered(slot)
<1>1. /\ rhine_receive /\ ~isempty /\ ~Dropped /\ ListensOn(frame.port) # {}
      /\ UNCHANGED <<clientports, lastport, c, task1>>
      /\ listenports' = [listenports EXCEPT ![s] = a]
      /\ task1.pc = "wait"
  BY DEF InputListen, Between, rhine_receive
<1>2. NicTypes' /\ QueueOK'
  BY <1>1, TakenFrame
<1>3. FoundOK'
  BY <1>1 DEF FoundOK
<1>4. /\ frame.port \in Nat /\ frame.packet \in Nat /\ frame.length \in Nat
      /\ s \in ListenSlots
  BY <1>1, FoundFrame
<1>5. /\ recv' \in [Gos -> Seq(Word)]
      /\ \A h \in Gos : Len(recv[h]) <= Len(recv'[h])
  <2>1. recv \in [Gos -> Seq(Word)]
    BY DEF IInv, TypeOK
  <2>2. CASE slot.gos_id \in Gos /\ SendsTo(slot.gos_id, frame.port, frame.length, 0, frame.packet)
    BY <1>4, <2>1, <2>2, Sent
  <2>3. CASE UNCHANGED recv
    BY <2>3, SameWords
  <2> QED
    BY <2>2, <2>3 DEF InputListen
<1>6. slot \in UipSlot
  BY <1>4 DEF IInv, TypeOK
<1>7. a \in UipSlot /\ a.port = slot.port /\ a.gos_id = slot.gos_id
  BY <1>6, AnsweredSlot
<1> HIDE DEF s, a
<1>8. UipOK'
  <2>1. UipOK /\ listenports \in [ListenSlots -> UipSlot]
    BY DEF IInv, TypeOK, UipOK, UipTypes
  <2>2. UipTypes'
    BY <1>1, <1>7, <2>1 DEF UipOK, UipTypes
  <2>3. \A t \in ListenSlots : /\ listenports'[t].port = listenports[t].port
                               /\ listenports'[t].gos_id = listenports[t].gos_id
    BY <1>1, <1>4, <1>7, <2>1
  <2> QED
    BY <1>1, <2>1, <2>2, <2>3, SamePorts
<1>9. /\ task1' \in [pc : {"wait", "found"}, packet : FrameOrBlank]
      /\ arrived' \in Seq(Nat)
  BY <1>1 DEF IInv, TypeOK
<1> QED
  BY <1>2, <1>3, <1>5, <1>8, <1>9, Task1Keeps

LEMMA ClientInput ==
  ASSUME IInv, Between, InputClient, UNCHANGED <<app, call, task2, arrived>>
  PROVE  IInv'
<1> DEFINE s == FirstOf(ConnectsOn(frame.port))
<1>1. /\ rhine_receive /\ ~isempty /\ ~Dropped /\ ListensOn(frame.port) = {}
      /\ UNCHANGED <<recv, listenports, clientports, lastport>>
      /\ c' = s
      /\ task1' = [pc |-> "found", packet |-> frame]
      /\ task2 = Waits
  BY DEF InputClient, Between, rhine_receive
<1>2. NicTypes' /\ QueueOK'
  BY <1>1, TakenFrame
<1>3. frame \in FrameOrBlank /\ ConnectsOn(frame.port) # {} /\ s \in ConnectsOn(frame.port)
  BY <1>1, FoundFrame
<1>4. /\ recv' \in [Gos -> Seq(Word)]
      /\ \A h \in Gos : Len(recv[h]) <= Len(recv'[h])
  BY <1>1, SameWords
<1>5. Came(frame, arrived)
  BY <1>1, FrameAtFront DEF frame
<1> DEFINE f == frame
<1>6. f = frame
  OBVIOUS
<1> HIDE DEF f
<1>7. task1'.packet = f /\ task1'.pc = "found"
  BY <1>1, <1>6
<1>8. FoundOK'
  <2>1. Came(f, arrived')
    BY <1>5, <1>6
  <2>2. c' = FirstOf(ConnectsOn(frame.port)) /\ task2' = Waits
    BY <1>1
  <2> QED
    BY <1>1, <1>3, <1>6, <1>7, <2>1, <2>2 DEF FoundOK, ListensOn, ConnectsOn
<1>9. UipOK'
  <2>1. UipOK
    BY DEF IInv, TypeOK, UipOK, UipTypes
  <2>2. c' \in 1 .. UIP_CONNS + 1
    <3>1. s \in 1 .. UIP_CONNS
      BY <1>3 DEF ConnectsOn, ClientSlots
    <3> QED
      BY <1>1, <3>1, ServerAssumption
  <2>3. UipTypes'
    BY <1>1, <2>1, <2>2 DEF UipOK, UipTypes
  <2> QED
    BY <1>1, <2>1, <2>3, SamePorts
<1>10. /\ task1' \in [pc : {"wait", "found"}, packet : FrameOrBlank]
       /\ arrived' \in Seq(Nat)
  BY <1>1, <1>3 DEF IInv, TypeOK
<1> QED
  BY <1>2, <1>4, <1>8, <1>9, <1>10, Task1Keeps

LEMMA FoundKeeps ==
  ASSUME IInv, Task1Found, UNCHANGED <<app, call, task2, arrived>>
  PROVE  IInv'
<1> DEFINE slot == clientports[c]
           f == task1.packet
           a == Answered(slot)
<1>1. /\ task1.pc = "found" /\ c \in ClientSlots /\ slot.gos_id \in Gos
      /\ SendsTo(slot.gos_id, f.port, f.length, slot.sock_id, f.packet)
      /\ clientports' = [clientports EXCEPT ![c] = a]
      /\ task1' = [pc |-> "wait", packet |-> Blank]
      /\ UNCHANGED <<nic, listenports, lastport, c>>
  BY DEF Task1Found
<1>2. NicTypes' /\ QueueOK'
  BY <1>1 DEF IInv, TypeOK, NicTypes, QueueOK, Full, nic
<1>3. FoundOK'
  BY <1>1 DEF FoundOK
<1>4. slot \in UipSlot /\ recv \in [Gos -> Seq(Word)]
  BY <1>1 DEF IInv, TypeOK
<1>5. f.port \in Nat /\ f.length \in Nat /\ f.packet \in Nat /\ slot.sock_id \in Nat
  BY <1>1, <1>4, ServerAssumption DEF IInv, FoundOK, Came, UipSlot
<1>6. /\ recv' \in [Gos -> Seq(Word)]
      /\ \A h \in Gos : Len(recv[h]) <= Len(recv'[h])
  BY <1>1, <1>4, <1>5, Sent
<1>7. a \in UipSlot /\ a.port = slot.port /\ a.gos_id = slot.gos_id
  BY <1>4, AnsweredSlot
<1> HIDE DEF a
<1>8. UipOK'
  <2>1. UipOK /\ clientports \in [ClientSlots -> UipSlot]
    BY DEF IInv, TypeOK, UipOK, UipTypes
  <2>2. UipTypes'
    BY <1>1, <1>7, <2>1 DEF UipOK, UipTypes
  <2>3. \A t \in ClientSlots : clientports'[t].port = clientports[t].port
    BY <1>1, <1>7, <2>1
  <2> QED
    BY <1>1, <2>1, <2>2, <2>3, SamePorts
<1>9. /\ task1' \in [pc : {"wait", "found"}, packet : FrameOrBlank]
      /\ arrived' \in Seq(Nat)
  BY <1>1 DEF IInv, TypeOK, FrameOrBlank
<1> QED
  BY <1>2, <1>3, <1>6, <1>8, <1>9, Task1Keeps

LEMMA Task1Step ==
  ASSUME IInv, Task1, UNCHANGED app
  PROVE  IInv'
<1>1. CASE \E port \in ArrivesFor, length \in Lengths : Poll(port, length)
  BY <1>1, PollKeeps DEF Task1
<1>2. CASE Between /\ Input /\ UNCHANGED arrived
  BY <1>2, DroppedKeeps, ListenInput, ClientInput DEF Task1, Input
<1>3. CASE task2 = Waits /\ Task1Found /\ UNCHANGED arrived
  BY <1>3, FoundKeeps DEF Task1
<1> QED
  BY <1>1, <1>2, <1>3 DEF Task1

-----------------------------------------------------------------------------
\* Theorems

LEMMA Initially == Init => IInv
<1> SUFFICES ASSUME Init
             PROVE  IInv
  OBVIOUS
<1>1. Unused \in UipSlot /\ Unused.port = 0 /\ Unused.gos_id = 65535
  BY EmptySeq DEF Unused, UipSlot
<1>2. /\ Slot(CommandPort, 0, CommandPort) \in UipSlot
      /\ Slot(CommandPort, 0, CommandPort).port = 1234
      /\ Slot(CommandPort, 0, CommandPort).gos_id = 0
  BY NewSlot DEF CommandPort
<1>3. NoSocket \in Entry
  BY EmptySeq DEF NoSocket, Entry
<1>4. 0 \in Slots
  BY NicAssumption DEF Slots
<1>5. Blank \in FrameOrBlank
  BY DEF FrameOrBlank
<1>6. UIP_LISTENPORTS \in Nat \ {0} /\ UIP_CONNS \in Nat /\ FirstLport \in Nat /\ FirstSock \in Nat
  BY ServerAssumption, SocketAssumption
<1>7. /\ listenports = [s \in ListenSlots |->
                          IF s = 1 THEN Slot(CommandPort, 0, CommandPort) ELSE Unused]
      /\ clientports = [s \in ClientSlots |-> Unused]
      /\ lastport = FirstLport /\ c = 1
      /\ task1 = [pc |-> "wait", packet |-> Blank]
      /\ task2 = [gos |-> 0, callid |-> 0]
      /\ arrived = <<>>
  BY DEF Init, InitServer
<1>8. TypeOK
  <2>1. /\ call \in [Gos -> Seq(Word)] /\ recv \in [Gos -> Seq(Word)]
        /\ active_ports \in [Gos -> [Entries -> Entry]]
        /\ spark_sockid \in [Gos -> Nat]
    BY <1>3, <1>6, EmptySeq DEF Init, InitApp
  <2>2. /\ front \in Slots /\ rear \in Slots
        /\ cqbuff \in [Slots -> FrameOrBlank] /\ recv_lengths \in [Slots -> Nat]
    BY <1>4, <1>5 DEF Init, InitNic
  <2>3. listenports \in [ListenSlots -> UipSlot] /\ clientports \in [ClientSlots -> UipSlot]
    BY <1>1, <1>2, <1>7
  <2>4. lastport \in Nat /\ c \in 1 .. UIP_LISTENPORTS + 1
    BY <1>6, <1>7
  <2>5. /\ task1 \in [pc : {"wait", "found"}, packet : FrameOrBlank]
        /\ task2 \in [gos : Gos \cup {0}, callid : Nat]
        /\ arrived \in Seq(Nat)
    BY <1>5, <1>7, EmptySeq
  <2>6. cut \subseteq Gos
    BY DEF Init, InitApp
  <2> QED
    BY <2>1, <2>2, <2>3, <2>4, <2>5, <2>6 DEF TypeOK
<1>9. ReceivesOK
  <2>1. receiving = [g \in Gos |-> Idle] /\ replies = <<>> /\ Idle.pc # "again"
    BY DEF Init, InitApp, Idle
  <2> QED
    BY <2>1, IdleIsReceive, EmptySeq DEF ReceivesOK
<1>10. QueueOK
  <2>1. \A s \in Slots : ~Full(s)
    BY NicAssumption DEF Init, InitNic, Full, Slots
  <2> QED
    BY <2>1 DEF QueueOK
<1>11. FoundOK
  BY <1>7 DEF FoundOK
<1>12. TablesOK
  <2>1. \A s \in ListenSlots : /\ s = 1 => listenports[s].port = 1234
                               /\ s # 1 => listenports[s].port = 0 /\ listenports[s].gos_id = 65535
    BY <1>1, <1>2, <1>7
  <2>2. \A s \in ListenSlots : listenports[s].port = 0 => listenports[s].gos_id = 65535
    BY <2>1
  <2>3. ASSUME NEW s \in ListenSlots, NEW t \in ListenSlots, s <= t, listenports[s].port = 0
        PROVE  listenports[t].port = 0
    <3>1. t # 1
      BY <1>6, <2>1, <2>3 DEF ListenSlots
    <3> QED
      BY <2>1, <3>1
  <2>4. \A s \in ClientSlots : clientports[s].port <= lastport
    BY <1>1, <1>6, <1>7
  <2> QED
    BY <2>2, <2>3, <2>4 DEF TablesOK
<1>13. EndpointUnique
  <2>1. \A s \in ListenSlots : /\ s = 1 => listenports[s].port = 1234 /\ listenports[s].gos_id = 0
                               /\ s # 1 => listenports[s].port = 0 /\ listenports[s].gos_id = 65535
    BY <1>1, <1>2, <1>7
  <2>2. \A s \in ClientSlots : clientports[s].port = 0
    BY <1>1, <1>7
  <2> QED
    BY <2>1, <2>2 DEF EndpointUnique
<1> QED
  BY <1>8, <1>9, <1>10, <1>11, <1>12, <1>13 DEF IInv

LEMMA StepKeepsIInv ==
  ASSUME IInv, [Next]_vars
  PROVE  IInv'
<1>1. CASE Partition
  BY <1>1, Task1Step, Task2Step DEF Partition
<1>2. ASSUME NEW g \in Gos, Guest(g)
      PROVE  IInv'
  BY <1>2, GuestStep
<1>3. CASE UNCHANGED vars
  BY <1>3 DEF vars, channels, app, nic, server, tables, IInv, TypeOK, ReceivesOK, QueueOK, Full,
              FoundOK, ListensOn, ConnectsOn, TablesOK, EndpointUnique
<1> QED
  BY <1>1, <1>2, <1>3 DEF Next

\* In every reachable state of the two sides the inductive invariant holds.
THEOREM Invariance == Spec => []IInv
<1>1. IInv /\ [Next]_vars => IInv'
  BY StepKeepsIInv
<1> QED
  BY Initially, <1>1, PTL DEF Spec

\* The channels, the sockets of the guests, the slots of uip.c and of the
\* driver's queue keep their types: no index leaves its table.
THEOREM TypeCorrect == Spec => []TypeOK
<1>1. IInv => TypeOK
  BY DEF IInv
<1> QED
  BY <1>1, Invariance, PTL

\* Whatever ports the guests ask for and in whatever order task2 serves them,
\* a port never has two owners (uip_listen and uip_connect of uip.c).
THEOREM EndpointsUnique == Spec => []EndpointUnique
<1>1. IInv => EndpointUnique
  BY DEF IInv
<1> QED
  BY <1>1, Invariance, PTL

-----------------------------------------------------------------------------
\* Demultiplexing

Longer(g) == Len(recv'[g]) > Len(recv[g])

\* A guest only takes words out of its channel.
LEMMA GuestShortens ==
  ASSUME IInv, NEW h \in Gos, NextApp(h), NEW g \in Gos
  PROVE  ~Longer(g)
<1>1. AppOK
  BY DEF IInv, TypeOK, AppOK
<1>2. Len(recv[g]) \in Nat /\ Len(recv[h]) \in Nat
  BY <1>1 DEF AppOK
<1>3. ASSUME recv' = recv
      PROVE  ~Longer(g)
  BY <1>2, <1>3 DEF Longer
<1>4. ASSUME NEW n \in Nat, recv' = [recv EXCEPT ![h] = Drop(@, n)]
      PROVE  ~Longer(g)
  <2>1. /\ recv' \in [Gos -> Seq(Word)]
        /\ Len(recv'[h]) <= Len(recv[h])
        /\ \A i \in Gos \ {h} : recv'[i] = recv[i]
    BY <1>1, <1>4, DroppedTyped
  <2>2. Len(recv'[g]) \in Nat
    BY <2>1
  <2>3. CASE g = h
    BY <1>2, <2>1, <2>2, <2>3 DEF Longer
  <2>4. CASE g # h
    BY <1>2, <2>1, <2>4 DEF Longer
  <2> QED
    BY <2>3, <2>4
<1>5. ASSUME \/ \E port \in Ports : sys_sock_listen(h, port)
             \/ sys_sock_connect(h)
             \/ \E i \in InUse(h) : sys_sock_tcp_send(h, i) \/ RecvKept(h, i)
             \/ RecvOwn(h) \/ RecvOther(h) \/ RecvReturn(h)
      PROVE  ~Longer(g)
  BY <1>3, <1>5 DEF sys_sock_listen, sys_sock_connect, sys_sock_tcp_send, RecvKept, RecvOwn,
                    RecvOther, RecvReturn, channels
<1>6. ASSUME NEW i \in InUse(h), NEW size \in RecvSizes[h], RecvFirst(h, i, size)
      PROVE  ~Longer(g)
  <2>1. Wanted(size) \in Nat
    BY SocketAssumption DEF Wanted, Header
  <2> QED
    BY <1>3, <1>4, <1>6, <2>1 DEF RecvFirst
<1>7. ASSUME RecvAgain(h)
      PROVE  ~Longer(g)
  <2>1. receiving[h].message_size \in Nat
    BY <1>1 DEF AppOK, ReceivesOK, Receive
  <2> QED
    BY <1>4, <1>7, <2>1 DEF RecvAgain
<1> QED
  BY <1>5, <1>6, <1>7 DEF NextApp, Receiving

\* What is sent ends with the number of a packet that came for the receiver.
LEMMA SentToOwner ==
  ASSUME IInv, NEW g \in Gos, NEW h \in Gos, Longer(g),
         NEW f, Came(f, arrived), OwnerOf(f.port).gos = h,
         NEW sockid \in Nat, SendsTo(h, f.port, f.length, sockid, f.packet)
  PROVE  OwnerOf(arrived[recv'[g][Len(recv'[g])]]).gos = g
<1>1. /\ f.port \in Nat /\ f.packet \in Nat /\ f.length \in Nat /\ f.length # 0
      /\ arrived[f.packet] = f.port
      /\ recv \in [Gos -> Seq(Word)]
  BY ServerAssumption DEF Came, IInv, TypeOK
<1>2. /\ \A i \in Gos \ {h} : recv'[i] = recv[i]
      /\ recv'[h][Len(recv'[h])] = f.packet
  BY <1>1, Sent, SMTT(30)
<1>3. g = h
  <2>1. Len(recv[g]) \in Nat
    BY <1>1
  <2> QED
    BY <1>2, <2>1 DEF Longer
<1> QED
  BY <1>1, <1>2, <1>3

LEMMA StepDemultiplexes ==
  ASSUME IInv, ~Interrupted, Next, NEW g \in Gos, Longer(g)
  PROVE  OwnerOf(arrived[recv'[g][Len(recv'[g])]]).gos = g
<1>1. recv' # recv
  <2>1. Len(recv[g]) \in Nat
    BY DEF IInv, TypeOK
  <2> QED
    BY <2>1 DEF Longer
<1>2. CASE Between /\ InputListen
  <2> DEFINE s == FirstOf(ListensOn(frame.port))
             slot == listenports[s]
  <2>1. /\ ~isempty /\ ~Dropped /\ ListensOn(frame.port) # {}
        /\ slot.gos_id \in Gos
        /\ SendsTo(slot.gos_id, frame.port, frame.length, 0, frame.packet)
    BY <1>1, <1>2 DEF InputListen, rhine_receive
  <2>2. Came(frame, arrived)
    BY <2>1, FrameAtFront DEF frame
  <2>3. OwnerOf(frame.port).gos = slot.gos_id
    BY <2>1 DEF OwnerOf, ListensOn
  <2> HIDE DEF slot
  <2> QED
    BY <2>1, <2>2, <2>3, SentToOwner
<1>3. CASE Task1Found
  <2> DEFINE slot == clientports[c]
             f == task1.packet
  <2>1. /\ c \in ClientSlots /\ slot.gos_id \in Gos /\ task1.pc = "found"
        /\ SendsTo(slot.gos_id, f.port, f.length, slot.sock_id, f.packet)
    BY <1>3 DEF Task1Found
  <2>2. /\ Came(f, arrived) /\ ListensOn(f.port) = {}
        /\ c = FirstOf(ConnectsOn(f.port))
    BY <2>1 DEF IInv, FoundOK
  <2>3. OwnerOf(f.port).gos = slot.gos_id
    BY <2>2 DEF OwnerOf, ListensOn, ConnectsOn
  <2>4. slot.sock_id \in Nat
    BY <2>1 DEF IInv, TypeOK, UipSlot
  <2> HIDE DEF slot, f
  <2> QED
    BY <2>1, <2>2, <2>3, <2>4, SentToOwner
<1>4. ~Task2 /\ ~InputDropped /\ ~InputClient
  BY <1>1 DEF Task2, InputDropped, InputClient
<1>5. ~ \E port \in ArrivesFor, length \in Lengths : Poll(port, length)
  BY <1>1 DEF Poll
<1>6. ~ \E h \in Gos : Guest(h)
  BY GuestShortens DEF Guest
<1> QED
  BY <1>2, <1>3, <1>4, <1>5, <1>6 DEF Next, Partition, Task1, Input

\* When task2 cannot run inside example3_app, the words that enter a guest's
\* receive channel end with a packet that came for a port of that guest, for
\* frames dropped, passed over and found in any order ("demultiplexing the data
\* that arrives to COMM PART", uip.c:695).
THEOREM DemultiplexesData ==
  ASSUME ~Interrupted
  PROVE  Spec => Demultiplexed
<1>1. IInv /\ [Next]_vars =>
        [\A g \in Gos : Len(recv'[g]) > Len(recv[g]) =>
           LET words == recv'[g]
               owner == OwnerOf(arrived[words[Len(words)]])
           IN  owner.gos = g]_vars
  <2> SUFFICES ASSUME IInv, Next, NEW g \in Gos, Len(recv'[g]) > Len(recv[g])
               PROVE  OwnerOf(arrived[recv'[g][Len(recv'[g])]]).gos = g
    OBVIOUS
  <2> QED
    BY StepDemultiplexes DEF Longer
<1> QED
  BY <1>1, Invariance, PTL DEF Spec, Demultiplexed
=============================================================================
