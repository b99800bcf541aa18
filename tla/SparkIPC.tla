------------------------------ MODULE SparkIPC ------------------------------
(***************************************************************************)
(* The message queues of SParK: byte rings in SParK's memory, registered   *)
(* by channel id, that the partitions send to and receive from.  Each call *)
(* is one action: a hypercall is never interrupted by a switch (CallGate   *)
(* of SparkSched), so the calls of the partitions interleave as wholes.    *)
(*                                                                         *)
(* Pointers are offsets from start_buff, so that end_buff is total_size-1. *)
(***************************************************************************)
EXTENDS Integers, Sequences

CONSTANTS
  Channels,     \* channel ids the partitions use
  Byte,         \* what a byte can be, 0 among them
  MAX_QUEUES,   \* size of msq_queue_arry
  PageSize,     \* bytes in the page a queue gets
  Sizes,        \* values of ulMemSize the partitions ask for
  Messages,     \* what they send
  Requests,     \* values of ulDataSize they receive with
  MaxFilled     \* bound: q_filled_bytes

Offsets == 0 .. PageSize - 1

\* The partitions ask for 512 bytes of a page of 4096.
ASSUME QueueAssumption ==
  /\ MAX_QUEUES \in Nat \ {0}
  /\ PageSize \in Nat \ {0}
  /\ 0 \in Byte
  /\ Sizes \subseteq 1 .. PageSize
  /\ Messages \subseteq Seq(Byte)
  /\ Requests \subseteq Nat
  /\ MaxFilled \in Nat

VARIABLES
  msq_queue_arry,  \* the queues registered so far, no_init_queue of them; the
                   \* field overrun is history: was it ever overflowed?
  reply            \* of the last call: its return value and the bytes it copied out

vars == <<msq_queue_arry, reply>>

no_init_queue == Len(msq_queue_arry)
Registered(ch) == \E i \in 1 .. no_init_queue : msq_queue_arry[i].ulChannelID = ch

Init ==
  /\ msq_queue_arry = <<>>
  /\ reply = [ret |-> 0, data |-> <<>>]

Returns(ret, data) == reply' = [ret |-> ret, data |-> data]

-----------------------------------------------------------------------------
\* memcpy into a page at offset at.
memcpy(buff, at, bytes) ==
  [o \in Offsets |-> IF at <= o /\ o < at + Len(bytes) THEN bytes[o - at + 1]
                                                       ELSE buff[o]]

\* memcpy of n bytes out of a page from offset at; what lies behind the page
\* is some other page.
copied(buff, at, n) ==
  [k \in 1 .. n |-> IF at + k - 1 \in Offsets THEN buff[at + k - 1] ELSE 0]

NewQueue(ch, ulMemSize) ==
  [ulChannelID |-> ch, total_size |-> ulMemSize, q_filled_bytes |-> 0,
   current_read_ptr |-> 0, current_write_ptr |-> 0,
   buff |-> [o \in Offsets |-> 0], overrun |-> FALSE]

\* A pointer that has run over end_buff starts again.
WrapLate(q, ptr) == IF ptr > q.total_size THEN 0 ELSE ptr   \* mutant
Wrap(q, ptr) == IF ptr > q.total_size - 1 THEN 0 ELSE ptr

\* The bytes from ptr to end_buff.  The comparison with ulDataSize is one of
\* unsigned numbers: behind end_buff there is room for everything.
RoomLess(q, ptr) == q.total_size - ptr - 1   \* mutant: end_buff not counted
Room(q, ptr) == q.total_size - ptr
NeverSplits(q, ptr, n) == FALSE   \* mutant: one memcpy, over end_buff
Splits(q, ptr, n) == Room(q, ptr) \in 0 .. n - 1

Overflows(q, msg) == q.q_filled_bytes + Len(msg) > q.total_size

\* Mutant: an overflow only moves the write pointer.
ReadStays(q, msg) == q.current_read_ptr
ReadAfterSend(q, msg) == IF Overflows(q, msg) THEN 0 ELSE q.current_read_ptr

WriteStart(q, msg) == IF Overflows(q, msg) THEN 0 ELSE q.current_write_ptr

\* The calls of memcpy that write msg: one, or two if it does not fit before
\* end_buff.
Copies(q, msg) ==
  LET write == WriteStart(q, msg)
      diff  == Room(q, write)
  IN  IF Splits(q, write, Len(msg))
      THEN <<[at |-> write, bytes |-> SubSeq(msg, 1, diff)],
             [at |-> 0, bytes |-> SubSeq(msg, diff + 1, Len(msg))]>>
      ELSE <<[at |-> write, bytes |-> msg]>>

Written(buff, copies) ==
  LET first == memcpy(buff, copies[1].at, copies[1].bytes)
  IN  IF Len(copies) = 1 THEN first ELSE memcpy(first, copies[2].at, copies[2].bytes)

\* The queue after msg was written to it.  On overflow both pointers go to the
\* start of the buffer; q_filled_bytes does not.
Sent(q, msg) ==
  LET size  == Len(msg)
      write == WriteStart(q, msg)
  IN  [q EXCEPT !.buff = Written(@, Copies(q, msg)),
                !.current_write_ptr = IF Splits(q, write, size) THEN size - Room(q, write)
                                      ELSE Wrap(q, write + size),
                !.current_read_ptr = ReadAfterSend(q, msg),
                !.q_filled_bytes = @ + size,
                !.overrun = @ \/ Overflows(q, msg)]

\* The bytes a receive of n copies, and the queue after it.
Taken(q, n) ==
  LET read == q.current_read_ptr
      diff == Room(q, read)
  IN  IF Splits(q, read, n)
      THEN copied(q.buff, read, diff) \o copied(q.buff, 0, n - diff)
      ELSE copied(q.buff, read, n)

Received(q, n) ==
  [q EXCEPT !.current_read_ptr = IF Splits(q, @, n) THEN n - Room(q, @)
                                                    ELSE Wrap(q, @ + n),
            !.q_filled_bytes = @ - n]

-----------------------------------------------------------------------------
\* The hypercalls

\* Mutant: registered again, a channel gets a second queue.
RegisterTwice(ch, ulMemSize) ==
  /\ IF no_init_queue = MAX_QUEUES - 1
     THEN UNCHANGED msq_queue_arry
     ELSE msq_queue_arry' = Append(msq_queue_arry, NewQueue(ch, ulMemSize))
  /\ Returns(0, <<>>)

\* All outcomes return 0.
spark_registerMQ(ch, ulMemSize) ==
  /\ IF no_init_queue = MAX_QUEUES - 1 \/ Registered(ch)
     THEN UNCHANGED msq_queue_arry
     ELSE msq_queue_arry' = Append(msq_queue_arry, NewQueue(ch, ulMemSize))
  /\ Returns(0, <<>>)

\* The search for the channel runs off the array if it is not registered; the
\* partitions register their channels before they use them.
spark_send(i, msg) ==
  LET q == msq_queue_arry[i]
  IN  \/ /\ Len(msg) > q.total_size
         /\ Returns(0, <<>>)
         /\ UNCHANGED msq_queue_arry
      \/ /\ Len(msg) <= q.total_size
         /\ q.q_filled_bytes + Len(msg) <= MaxFilled
         /\ msq_queue_arry' = [msq_queue_arry EXCEPT ![i] = Sent(q, msg)]
         /\ Returns(Len(msg), <<>>)

\* Mutant: the count is not looked at.
ReceiveUnchecked(i, n) ==
  LET q == msq_queue_arry[i]
  IN  /\ msq_queue_arry' = [msq_queue_arry EXCEPT ![i] = Received(q, n)]
      /\ Returns(n, Taken(q, n))

spark_receive(i, n) ==
  LET q == msq_queue_arry[i]
  IN  \/ /\ n > q.q_filled_bytes
         /\ Returns(q.q_filled_bytes, <<>>)
         /\ UNCHANGED msq_queue_arry
      \/ /\ n <= q.q_filled_bytes
         /\ msq_queue_arry' = [msq_queue_arry EXCEPT ![i] = Received(q, n)]
         /\ Returns(n, Taken(q, n))

Next ==
  \/ \E ch \in Channels, ulMemSize \in Sizes : spark_registerMQ(ch, ulMemSize)
  \/ \E i \in 1 .. no_init_queue :
       \/ \E msg \in Messages : spark_send(i, msg)
       \/ \E n \in Requests : spark_receive(i, n)

Spec == Init /\ [][Next]_vars

-----------------------------------------------------------------------------
\* Properties

Queue ==
  [ulChannelID : Channels, total_size : 1 .. PageSize, q_filled_bytes : Nat,
   current_read_ptr : Nat, current_write_ptr : Nat, buff : [Offsets -> Byte],
   overrun : BOOLEAN]

TypeOK ==
  /\ msq_queue_arry \in Seq(Queue)
  /\ reply \in [ret : Nat, data : Seq(Byte)]

\* The search of spark_send and spark_receive (hypercall.c:253) takes the first
\* queue with the id: a second one would never be used.  spark_registerMQ keeps
\* the ids apart and one entry of the array free.
OneQueuePerChannel ==
  /\ no_init_queue < MAX_QUEUES
  /\ \A i, j \in 1 .. no_init_queue :
       msq_queue_arry[i].ulChannelID = msq_queue_arry[j].ulChannelID => i = j

\* What a send writes stays in the queue's own buffer, byte for byte, whatever
\* is sent and whatever overflows and reads went before: the page behind it is
\* another queue's, or a page table.
WritesInside ==
  \A i \in 1 .. no_init_queue : \A msg \in Messages :
    LET q      == msq_queue_arry[i]
        copies == Copies(q, msg)
    IN  Len(msg) <= q.total_size =>
          \A k \in DOMAIN copies :
            copies[k].at >= 0 /\ copies[k].at + Len(copies[k].bytes) <= q.total_size

\* Offset of the k-th unread byte.
Slot(q, k) == LET o == q.current_read_ptr + k - 1
              IN  IF o < q.total_size THEN o ELSE o - q.total_size

\* The pointers and the count of a queue agree, until a send overflows it.
Sound(q) ==
  /\ q.current_read_ptr \in 0 .. q.total_size - 1
  /\ q.q_filled_bytes \in 0 .. q.total_size
  /\ q.current_write_ptr = Slot(q, q.q_filled_bytes + 1)

QueuesSound ==
  \A i \in 1 .. no_init_queue :
    ~msq_queue_arry[i].overrun => Sound(msq_queue_arry[i])

\* An overflow loses old bytes and never new ones: the next receive gets the
\* message that overflowed the queue (hypercall.c:264).
OverflowKeepsNewest ==
  [][\A i \in 1 .. no_init_queue, msg \in Messages :
       spark_send(i, msg) /\ Overflows(msq_queue_arry[i], msg) /\ reply'.ret # 0
         => Taken(msq_queue_arry'[i], Len(msg)) = msg]_vars

\* "Returns 0 in case does not have enough bytes to read else returns
\* ulDataSize" (hypercall.c:290).
ShortReceiveIsZero ==
  [][\A i \in 1 .. no_init_queue, n \in Requests :
       spark_receive(i, n) => reply'.ret = IF n > msq_queue_arry[i].q_filled_bytes THEN 0
                                                                                  ELSE n]_vars

-----------------------------------------------------------------------------
\* The rings are the streams of bytes of ByteChannel: nothing is lost,
\* duplicated or reordered across the wrap of either pointer, until a send
\* overflows the channel, and whatever overflows the others.
Content(q) == [k \in 1 .. q.q_filled_bytes |-> q.buff[Slot(q, k)]]
Stream(q) == IF q.overrun THEN <<>> ELSE Content(q)

queueOf(ch) ==
  msq_queue_arry[CHOOSE i \in 1 .. no_init_queue : msq_queue_arry[i].ulChannelID = ch]

capacityOf(ch) == IF Registered(ch) THEN queueOf(ch).total_size ELSE 0
unreadOf(ch) == IF Registered(ch) THEN Stream(queueOf(ch)) ELSE <<>>
brokenOf(ch) == Registered(ch) /\ queueOf(ch).overrun

Channel == INSTANCE ByteChannel WITH
  capacity <- [ch \in Channels |-> capacityOf(ch)],
  unread   <- [ch \in Channels |-> unreadOf(ch)],
  broken   <- {ch \in Channels : brokenOf(ch)}
ImplementsChannel == Channel!Spec
=============================================================================
