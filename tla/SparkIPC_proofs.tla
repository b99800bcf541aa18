--------------------------- MODULE SparkIPC_proofs ---------------------------
(***************************************************************************)
(* Proofs about the message queues, for every number and size of queues    *)
(* and every message: the array and the types, the bounds of the writes,   *)
(* and that the rings implement ByteChannel when nobody overflows them.    *)
(***************************************************************************)
EXTENDS SparkIPC, SequenceTheorems, TLAPS

\* A function on 1 .. n is a sequence of length n.
LEMMA FunctionIsSeq ==
  ASSUME NEW S, NEW n \in Nat, NEW f \in [1 .. n -> S]
  PROVE  f \in Seq(S) /\ Len(f) = n
OBVIOUS

\* What the one or two calls of memcpy make of the page.
LEMMA WrittenCopies ==
  ASSUME NEW q, NEW msg, NEW buff
  PROVE  Written(buff, Copies(q, msg)) =
           LET write == WriteStart(q, msg)
               diff  == Room(q, write)
           IN  IF Splits(q, write, Len(msg))
               THEN memcpy(memcpy(buff, write, SubSeq(msg, 1, diff)),
                           0, SubSeq(msg, diff + 1, Len(msg)))
               ELSE memcpy(buff, write, msg)
<1> DEFINE write == WriteStart(q, msg)
           diff  == Room(q, write)
           one   == [at |-> write, bytes |-> msg]
           part1 == [at |-> write, bytes |-> SubSeq(msg, 1, diff)]
           part2 == [at |-> 0, bytes |-> SubSeq(msg, diff + 1, Len(msg))]
<1>1. CASE Splits(q, write, Len(msg))
  <2>1. Copies(q, msg) = <<part1, part2>>
    BY <1>1 DEF Copies
  <2>2. /\ part1.at = write /\ part1.bytes = SubSeq(msg, 1, diff)
        /\ part2.at = 0 /\ part2.bytes = SubSeq(msg, diff + 1, Len(msg))
    OBVIOUS
  <2> HIDE DEF part1, part2
  <2>3. Len(<<part1, part2>>) = 2 /\ <<part1, part2>>[1] = part1 /\ <<part1, part2>>[2] = part2
    OBVIOUS
  <2>4. ASSUME NEW copies, Len(copies) = 2, copies[1] = part1, copies[2] = part2
        PROVE  Written(buff, copies) = memcpy(memcpy(buff, part1.at, part1.bytes), part2.at, part2.bytes)
    BY <2>4 DEF Written
  <2>5. Written(buff, Copies(q, msg)) = memcpy(memcpy(buff, part1.at, part1.bytes), part2.at, part2.bytes)
    BY <2>1, <2>3, <2>4
  <2> QED
    BY <1>1, <2>2, <2>5
<1>2. CASE ~Splits(q, write, Len(msg))
  <2>1. Copies(q, msg) = <<one>>
    BY <1>2 DEF Copies
  <2>2. one.at = write /\ one.bytes = msg
    OBVIOUS
  <2> HIDE DEF one
  <2>3. Len(<<one>>) = 1 /\ <<one>>[1] = one
    OBVIOUS
  <2> QED
    BY <1>2, <2>1, <2>2, <2>3 DEF Written
<1> QED
  BY <1>1, <1>2

\* The offsets of a send into a queue whose write pointer is inside: where the
\* bytes go and where the pointer ends up, with room to the end or without.
LEMMA SentFields ==
  ASSUME NEW q \in Queue, NEW msg \in Seq(Byte), Len(msg) <= q.total_size,
         q.current_write_ptr \in 0 .. q.total_size - 1
  PROVE  /\ Sent(q, msg) \in Queue
         /\ Sent(q, msg).ulChannelID = q.ulChannelID
         /\ Sent(q, msg).total_size = q.total_size
         /\ Sent(q, msg).q_filled_bytes = q.q_filled_bytes + Len(msg)
         /\ Sent(q, msg).overrun = (q.overrun \/ Overflows(q, msg))
         /\ Sent(q, msg).current_write_ptr \in 0 .. q.total_size - 1
         /\ ~Overflows(q, msg) =>
              /\ Sent(q, msg).current_read_ptr = q.current_read_ptr
              /\ Sent(q, msg).current_write_ptr =
                   IF q.current_write_ptr + Len(msg) < q.total_size
                   THEN q.current_write_ptr + Len(msg)
                   ELSE q.current_write_ptr + Len(msg) - q.total_size
              /\ \A o \in 0 .. q.total_size - 1 : Sent(q, msg).buff[o] =
                   IF q.current_write_ptr <= o /\ o < q.current_write_ptr + Len(msg)
                   THEN msg[o - q.current_write_ptr + 1]
                   ELSE IF o + q.total_size < q.current_write_ptr + Len(msg)
                        THEN msg[o + q.total_size - q.current_write_ptr + 1]
                        ELSE q.buff[o]
<1> DEFINE size  == Len(msg)
           total == q.total_size
           write == IF Overflows(q, msg) THEN 0 ELSE q.current_write_ptr
           diff  == total - write
           whole == memcpy(q.buff, write, msg)
           part1 == SubSeq(msg, 1, diff)
           part2 == SubSeq(msg, diff + 1, size)
           half  == memcpy(q.buff, write, part1)
           split == memcpy(half, 0, part2)
           cut   == Splits(q, write, size)
           next  == IF cut THEN size - diff ELSE Wrap(q, write + size)
<1>1. /\ size \in Nat /\ total \in 1 .. PageSize /\ write \in 0 .. total - 1 /\ size <= total
      /\ PageSize \in Nat /\ q.q_filled_bytes \in Nat /\ q.current_read_ptr \in Nat
      /\ q.buff \in [Offsets -> Byte] /\ \A k \in 1 .. size : msg[k] \in Byte
  BY LenProperties, ElementOfSeq, QueueAssumption DEF Queue
<1>2. /\ diff \in 1 .. total
      /\ cut <=> diff < size
  BY <1>1 DEF Splits, Room
<1>3. next \in 0 .. total - 1
  BY <1>1, <1>2 DEF Wrap
<1>4. /\ whole \in [Offsets -> Byte]
      /\ \A o \in Offsets : whole[o] = IF write <= o /\ o < write + size THEN msg[o - write + 1] ELSE q.buff[o]
  BY <1>1 DEF memcpy, Offsets
<1>5. ASSUME cut
      PROVE  /\ split \in [Offsets -> Byte]
             /\ \A o \in Offsets : split[o] = IF o < size - diff THEN msg[diff + 1 + o]
                                              ELSE IF write <= o /\ o < write + diff THEN msg[o - write + 1]
                                              ELSE q.buff[o]
  <2>1. /\ part1 \in Seq(Byte) /\ Len(part1) = diff /\ \A k \in 1 .. diff : part1[k] = msg[k]
        /\ part2 \in Seq(Byte) /\ Len(part2) = size - diff
        /\ \A k \in 1 .. size - diff : part2[k] = msg[diff + k]
    <3>1. diff \in Int /\ size \in Int /\ 1 \in Int /\ diff + 1 \in Int /\ diff < size
      BY <1>1, <1>2, <1>5
    <3>2. /\ part1 \in Seq(Byte) /\ Len(part1) = diff /\ \A k \in 1 .. diff : part1[k] = msg[1 + k - 1]
      <4>1. \A k \in 1 .. diff : msg[k] \in Byte
        BY <1>1, <1>2, <3>1
      <4>2. /\ part1 \in Seq(Byte) /\ Len(part1) = IF 1 <= diff THEN diff - 1 + 1 ELSE 0
            /\ \A k \in 1 .. diff - 1 + 1 : part1[k] = msg[1 + k - 1]
        <5> HIDE DEF diff
        <5> QED BY <3>1, <4>1, SubSeqProperties
      <4> QED
        BY <1>2, <3>1, <4>2
    <3>3. /\ part2 \in Seq(Byte) /\ Len(part2) = size - diff
          /\ \A k \in 1 .. size - diff : part2[k] = msg[diff + 1 + k - 1]
      <4>1. \A k \in diff + 1 .. size : msg[k] \in Byte
        BY <1>1, <1>2, <3>1
      <4>2. /\ part2 \in Seq(Byte) /\ Len(part2) = IF diff + 1 <= size THEN size - (diff + 1) + 1 ELSE 0
            /\ \A k \in 1 .. size - (diff + 1) + 1 : part2[k] = msg[diff + 1 + k - 1]
        <5> HIDE DEF diff, size
        <5> QED BY <3>1, <4>1, SubSeqProperties
      <4> QED
        BY <1>1, <1>2, <3>1, <4>2, SMTT(30)
    <3>4. \A k \in 1 .. diff : part1[k] = msg[k]
      <4>1. \A k \in 1 .. diff : 1 + k - 1 = k
        OBVIOUS
      <4> QED
        BY <3>2, <4>1
    <3>5. \A k \in 1 .. size - diff : part2[k] = msg[diff + k]
      <4>1. \A k \in 1 .. size - diff : diff + 1 + k - 1 = diff + k
        BY <3>1
      <4> QED
        BY <3>3, <4>1
    <3> QED
      BY <3>2, <3>3, <3>4, <3>5
  <2> HIDE DEF part1, part2, diff, size, total, write
  <2>2. /\ half \in [Offsets -> Byte]
        /\ \A o \in Offsets : half[o] = IF write <= o /\ o < write + diff THEN msg[o - write + 1] ELSE q.buff[o]
    BY <1>1, <1>2, <2>1, <1>5 DEF memcpy, Offsets
  <2> HIDE DEF half
  <2>3. /\ split \in [Offsets -> Byte]
        /\ \A o \in Offsets : split[o] = IF o < size - diff THEN msg[diff + 1 + o] ELSE half[o]
    BY <1>1, <1>2, <2>1, <2>2, SMTT(30) DEF memcpy, Offsets
  <2> QED
    BY <2>2, <2>3
<1>6. Sent(q, msg) = [q EXCEPT !.buff = IF cut THEN split ELSE whole,
                               !.current_write_ptr = next,
                               !.current_read_ptr = ReadAfterSend(q, msg),
                               !.q_filled_bytes = @ + size,
                               !.overrun = @ \/ Overflows(q, msg)]
  <2>1. WriteStart(q, msg) = write /\ Room(q, write) = diff
    BY DEF WriteStart, Room
  <2>2. Written(q.buff, Copies(q, msg)) = IF cut THEN split ELSE whole
    BY <2>1, WrittenCopies
  <2> HIDE DEF write, diff, split, whole
  <2> QED
    BY <2>1, <2>2 DEF Sent
<1>7. ReadAfterSend(q, msg) \in Nat /\ (~Overflows(q, msg) => ReadAfterSend(q, msg) = q.current_read_ptr)
  BY <1>1 DEF ReadAfterSend
<1> DEFINE buff == IF cut THEN split ELSE whole
<1>8. buff \in [Offsets -> Byte]
  BY <1>4, <1>5
<1> HIDE DEF buff, next, cut, split, whole
<1>9. /\ Sent(q, msg) \in Queue
      /\ Sent(q, msg).ulChannelID = q.ulChannelID
      /\ Sent(q, msg).total_size = total
      /\ Sent(q, msg).q_filled_bytes = q.q_filled_bytes + size
      /\ Sent(q, msg).current_write_ptr = next
      /\ Sent(q, msg).current_read_ptr = ReadAfterSend(q, msg)
      /\ Sent(q, msg).buff = buff
      /\ Sent(q, msg).overrun = (q.overrun \/ Overflows(q, msg))
  <2>1. Sent(q, msg) = [q EXCEPT !.buff = buff, !.current_write_ptr = next,
                                 !.current_read_ptr = ReadAfterSend(q, msg), !.q_filled_bytes = @ + size,
                                 !.overrun = @ \/ Overflows(q, msg)]
    BY <1>6 DEF buff
  <2>2. /\ next \in Nat /\ q.q_filled_bytes + size \in Nat /\ q.overrun \in BOOLEAN
        /\ (q.overrun \/ Overflows(q, msg)) \in BOOLEAN
    BY <1>1, <1>3 DEF Queue
  <2> HIDE DEF size
  <2> QED
    BY <1>7, <1>8, <2>1, <2>2 DEF Queue
<1>10. ASSUME ~Overflows(q, msg)
       PROVE  /\ next = IF q.current_write_ptr + size < total THEN q.current_write_ptr + size
                                                              ELSE q.current_write_ptr + size - total
              /\ \A o \in 0 .. total - 1 : buff[o] =
                   IF q.current_write_ptr <= o /\ o < q.current_write_ptr + size
                   THEN msg[o - q.current_write_ptr + 1]
                   ELSE IF o + total < q.current_write_ptr + size
                        THEN msg[o + total - q.current_write_ptr + 1]
                        ELSE q.buff[o]
  <2>1. write = q.current_write_ptr
    BY <1>10
  <2>2. \A o \in 0 .. total - 1 : o \in Offsets
    BY <1>1 DEF Offsets
  <2>3. next = IF write + size < total THEN write + size ELSE write + size - total
    BY <1>1, <1>2, SMTT(30) DEF next, Wrap
  <2>4. ASSUME NEW o \in 0 .. total - 1
        PROVE  buff[o] = IF write <= o /\ o < write + size THEN msg[o - write + 1]
                         ELSE IF o + total < write + size THEN msg[o + total - write + 1] ELSE q.buff[o]
    <3> HIDE DEF size, total, write
    <3>1. CASE cut
      <4>1. buff[o] = IF o < size - diff THEN msg[diff + 1 + o]
                      ELSE IF write <= o /\ o < write + diff THEN msg[o - write + 1] ELSE q.buff[o]
        BY <1>5, <2>2, <3>1 DEF buff
      <4>2. o < size - diff => ~(write <= o)
        BY <1>1, <1>2
      <4>3. o < size - diff <=> o + total < write + size
        BY <1>1, <1>2
      <4>4. diff + 1 + o = o + total - write + 1 /\ (o < write + diff)
        BY <1>1, <1>2
      <4>5. o < write + size
        BY <1>1, <1>2, <3>1
      <4> HIDE DEF diff
      <4> QED
        BY <4>1, <4>2, <4>3, <4>4, <4>5
    <3>2. CASE ~cut
      <4>1. buff[o] = IF write <= o /\ o < write + size THEN msg[o - write + 1] ELSE q.buff[o]
        BY <1>4, <2>2, <3>2 DEF buff
      <4>2. ~(o + total < write + size)
        BY <1>1, <1>2, <3>2
      <4> QED
        BY <4>1, <4>2
    <3> QED
      BY <3>1, <3>2
  <2> QED
    BY <2>1, <2>3, <2>4
<1> QED
  BY <1>3, <1>7, <1>9, <1>10

\* What copied takes from a page.
LEMMA CopiedBytes ==
  ASSUME NEW buff \in [Offsets -> Byte], NEW at \in Nat, NEW n \in Nat
  PROVE  /\ copied(buff, at, n) \in Seq(Byte)
         /\ Len(copied(buff, at, n)) = n
         /\ \A k \in 1 .. n : at + k - 1 \in Offsets => copied(buff, at, n)[k] = buff[at + k - 1]
<1>1. copied(buff, at, n) \in [1 .. n -> Byte]
  BY QueueAssumption DEF copied
<1>2. copied(buff, at, n) \in Seq(Byte) /\ Len(copied(buff, at, n)) = n
  BY <1>1, FunctionIsSeq
<1> QED
  BY <1>2 DEF copied

\* The offsets of a receive: the bytes it copies and where the read pointer
\* ends up.
LEMMA ReceivedFields ==
  ASSUME NEW q \in Queue, NEW n \in Nat, n <= q.q_filled_bytes
  PROVE  /\ Received(q, n) \in Queue
         /\ Received(q, n).ulChannelID = q.ulChannelID
         /\ Received(q, n).total_size = q.total_size
         /\ Received(q, n).buff = q.buff
         /\ Received(q, n).current_write_ptr = q.current_write_ptr
         /\ Received(q, n).q_filled_bytes = q.q_filled_bytes - n
         /\ Received(q, n).overrun = q.overrun
         /\ Taken(q, n) \in Seq(Byte)
         /\ Sound(q) =>
              /\ Received(q, n).current_read_ptr =
                   IF q.current_read_ptr + n < q.total_size THEN q.current_read_ptr + n
                                                           ELSE q.current_read_ptr + n - q.total_size
              /\ Len(Taken(q, n)) = n
              /\ \A k \in 1 .. n : Taken(q, n)[k] = q.buff[Slot(q, k)]
<1> DEFINE total == q.total_size
           read  == q.current_read_ptr
           diff  == total - read
           cut   == Splits(q, read, n)
           next  == IF cut THEN n - diff ELSE Wrap(q, read + n)
<1>1. /\ total \in 1 .. PageSize /\ PageSize \in Nat /\ read \in Nat /\ q.q_filled_bytes \in Nat
      /\ q.buff \in [Offsets -> Byte]
  BY QueueAssumption DEF Queue
<1>2. cut => diff \in 0 .. n - 1
  BY DEF Splits, Room
<1>3. next \in Nat
  BY <1>1, <1>2 DEF Wrap
<1>4. Received(q, n) = [q EXCEPT !.current_read_ptr = next, !.q_filled_bytes = @ - n]
  BY DEF Received, Room
<1>5. q.q_filled_bytes - n \in Nat
  BY <1>1
<1>6. /\ Received(q, n) \in Queue
      /\ Received(q, n).ulChannelID = q.ulChannelID
      /\ Received(q, n).total_size = q.total_size
      /\ Received(q, n).buff = q.buff
      /\ Received(q, n).current_write_ptr = q.current_write_ptr
      /\ Received(q, n).current_read_ptr = next
      /\ Received(q, n).q_filled_bytes = q.q_filled_bytes - n
      /\ Received(q, n).overrun = q.overrun
  <2> HIDE DEF next
  <2> QED
    BY <1>3, <1>4, <1>5 DEF Queue
<1>7. CASE ~cut
  <2>1. Taken(q, n) = copied(q.buff, read, n)
    BY <1>7 DEF Taken
  <2>2. /\ Taken(q, n) \in Seq(Byte) /\ Len(Taken(q, n)) = n
        /\ \A k \in 1 .. n : read + k - 1 \in Offsets => Taken(q, n)[k] = q.buff[read + k - 1]
    <3>1. /\ copied(q.buff, read, n) \in Seq(Byte) /\ Len(copied(q.buff, read, n)) = n
          /\ \A k \in 1 .. n : read + k - 1 \in Offsets => copied(q.buff, read, n)[k] = q.buff[read + k - 1]
      BY <1>1, CopiedBytes
    <3> QED
      BY <2>1, <3>1
  <2>3. ASSUME Sound(q)
        PROVE  /\ next = IF read + n < total THEN read + n ELSE read + n - total
               /\ \A k \in 1 .. n : read + k - 1 \in Offsets /\ Slot(q, k) = read + k - 1
    <3>1. read \in 0 .. total - 1 /\ n <= diff
      BY <1>1, <1>7, <2>3 DEF Sound, Splits, Room
    <3>2. next = IF read + n > total - 1 THEN 0 ELSE read + n
      BY <1>7 DEF Wrap
    <3> QED
      BY <1>1, <3>1, <3>2, SMTT(30) DEF Slot, Offsets
  <2> QED
    BY <1>6, <2>2, <2>3
<1>8. CASE cut
  <2>1. Taken(q, n) = copied(q.buff, read, diff) \o copied(q.buff, 0, n - diff)
    BY <1>8 DEF Taken, Room
  <2>2. diff \in Nat /\ n - diff \in Nat
    BY <1>1, <1>2, <1>8
  <2> DEFINE c1 == copied(q.buff, read, diff)
             c2 == copied(q.buff, 0, n - diff)
  <2>3. /\ c1 \in Seq(Byte) /\ Len(c1) = diff
        /\ \A k \in 1 .. diff : read + k - 1 \in Offsets => c1[k] = q.buff[read + k - 1]
    <3> HIDE DEF diff
    <3> QED BY <1>1, <2>2, CopiedBytes
  <2>4. /\ c2 \in Seq(Byte) /\ Len(c2) = n - diff
        /\ \A k \in 1 .. n - diff : 0 + k - 1 \in Offsets => c2[k] = q.buff[0 + k - 1]
    <3>1. PICK rest \in Nat : rest = n - diff
      BY <2>2
    <3>2. PICK first \in Nat : first = 0
      OBVIOUS
    <3>3. LET c == copied(q.buff, first, rest)
          IN  /\ c \in Seq(Byte) /\ Len(c) = rest
              /\ \A k \in 1 .. rest : first + k - 1 \in Offsets => c[k] = q.buff[first + k - 1]
      BY <1>1, CopiedBytes
    <3> HIDE DEF diff
    <3> QED BY <3>1, <3>2, <3>3
  <2> HIDE DEF c1, c2
  <2>5. /\ Taken(q, n) \in Seq(Byte) /\ Len(Taken(q, n)) = Len(c1) + Len(c2)
        /\ \A k \in 1 .. Len(c1) + Len(c2) : Taken(q, n)[k] = IF k <= Len(c1) THEN c1[k] ELSE c2[k - Len(c1)]
    <3>1. Taken(q, n) = c1 \o c2
      BY <2>1 DEF c1, c2
    <3>2. /\ c1 \o c2 \in Seq(Byte) /\ Len(c1 \o c2) = Len(c1) + Len(c2)
          /\ \A k \in 1 .. Len(c1) + Len(c2) : (c1 \o c2)[k] = IF k <= Len(c1) THEN c1[k] ELSE c2[k - Len(c1)]
      BY <2>3, <2>4, ConcatProperties
    <3> QED
      BY <3>1, <3>2
  <2>6. Len(Taken(q, n)) = n
    BY <2>2, <2>3, <2>4, <2>5
  <2>7. ASSUME Sound(q)
        PROVE  next = IF read + n < total THEN read + n ELSE read + n - total
    BY <1>1, <1>2, <1>8, <2>7 DEF Sound
  <2>8. ASSUME Sound(q), NEW k \in 1 .. n
        PROVE  Taken(q, n)[k] = q.buff[Slot(q, k)]
    <3>1. read \in 0 .. total - 1 /\ n <= total
      BY <1>1, <2>8 DEF Sound
    <3>2. CASE k <= diff
      <4>1. k \in 1 .. diff /\ k \in 1 .. diff + (n - diff) /\ read + k - 1 \in Offsets
        <5>1. read + k - 1 \in 0 .. PageSize - 1
          BY <1>1, <3>1, <3>2
        <5>2. k \in 1 .. diff /\ k \in 1 .. diff + (n - diff)
          <6> HIDE DEF diff
          <6> QED BY <2>2, <3>2
        <5> QED
          BY <5>1, <5>2 DEF Offsets
      <4>2. Slot(q, k) = read + k - 1
        BY <1>1, <3>1, <3>2 DEF Slot
      <4>3. Taken(q, n)[k] = c1[k]
        BY <2>3, <2>4, <2>5, <3>2, <4>1
      <4> QED
        BY <2>3, <4>1, <4>2, <4>3
    <3>3. CASE ~(k <= diff)
      <4> DEFINE j == k - diff
      <4>1. j \in 1 .. n - diff /\ k \in 1 .. diff + (n - diff) /\ 0 + j - 1 \in Offsets
        <5>1. 0 + j - 1 \in 0 .. PageSize - 1
          BY <1>1, <3>1, <3>3
        <5>2. j \in 1 .. n - diff /\ k \in 1 .. diff + (n - diff)
          <6> HIDE DEF diff
          <6> QED BY <2>2, <3>3
        <5> QED
          BY <5>1, <5>2 DEF Offsets
      <4>2. Slot(q, k) = 0 + j - 1
        BY <1>1, <2>2, <3>1, <3>3 DEF Slot
      <4>3. Taken(q, n)[k] = c2[j]
        BY <2>3, <2>4, <2>5, <3>3, <4>1
      <4> QED
        BY <2>4, <4>1, <4>2, <4>3
    <3> QED
      BY <3>2, <3>3
  <2> QED
    BY <1>6, <2>5, <2>6, <2>7, <2>8
<1> QED
  BY <1>7, <1>8

-----------------------------------------------------------------------------
\* What every step does to the array: it appends a new queue of a channel that
\* has none, writes to one queue, reads from one, or leaves it alone.

Appended == \E ch \in Channels, ulMemSize \in Sizes :
  /\ ~Registered(ch) /\ no_init_queue # MAX_QUEUES - 1
  /\ msq_queue_arry' = Append(msq_queue_arry, NewQueue(ch, ulMemSize))

SentTo == \E i \in 1 .. no_init_queue, msg \in Messages :
  /\ Len(msg) <= msq_queue_arry[i].total_size
  /\ msq_queue_arry' = [msq_queue_arry EXCEPT ![i] = Sent(msq_queue_arry[i], msg)]

ReceivedFrom == \E i \in 1 .. no_init_queue, n \in Requests :
  /\ n <= msq_queue_arry[i].q_filled_bytes
  /\ msq_queue_arry' = [msq_queue_arry EXCEPT ![i] = Received(msq_queue_arry[i], n)]

LEMMA Cases ==
  ASSUME [Next]_vars
  PROVE  Appended \/ SentTo \/ ReceivedFrom \/ UNCHANGED msq_queue_arry
<1>1. CASE UNCHANGED vars
  BY <1>1 DEF vars
<1>2. ASSUME NEW ch \in Channels, NEW ulMemSize \in Sizes, spark_registerMQ(ch, ulMemSize)
      PROVE  Appended \/ UNCHANGED msq_queue_arry
  BY <1>2 DEF spark_registerMQ, Appended
<1>3. ASSUME NEW i \in 1 .. no_init_queue, NEW msg \in Messages, spark_send(i, msg)
      PROVE  SentTo \/ UNCHANGED msq_queue_arry
  BY <1>3 DEF spark_send, SentTo
<1>4. ASSUME NEW i \in 1 .. no_init_queue, NEW n \in Requests, spark_receive(i, n)
      PROVE  ReceivedFrom \/ UNCHANGED msq_queue_arry
  BY <1>4 DEF spark_receive, ReceivedFrom
<1> QED
  BY <1>1, <1>2, <1>3, <1>4 DEF Next

LEMMA NewQueueFields ==
  ASSUME NEW ch \in Channels, NEW ulMemSize \in Sizes
  PROVE  /\ NewQueue(ch, ulMemSize) \in Queue
         /\ NewQueue(ch, ulMemSize).ulChannelID = ch
         /\ NewQueue(ch, ulMemSize).current_write_ptr \in 0 .. NewQueue(ch, ulMemSize).total_size - 1
         /\ Sound(NewQueue(ch, ulMemSize)) /\ ~NewQueue(ch, ulMemSize).overrun
<1>1. ulMemSize \in 1 .. PageSize /\ 0 \in Byte /\ PageSize \in Nat
  BY QueueAssumption
<1>2. [o \in Offsets |-> 0] \in [Offsets -> Byte]
  BY <1>1
<1>3. NewQueue(ch, ulMemSize) \in Queue
  BY <1>1, <1>2 DEF NewQueue, Queue
<1> QED
  BY <1>1, <1>3 DEF NewQueue, Sound, Slot

QueuesOK == msq_queue_arry \in Seq(Queue)

\* A queue is changed in place or appended.
LEMMA ReplacedQueue ==
  ASSUME QueuesOK, NEW i \in 1 .. no_init_queue, NEW q \in Queue,
         msq_queue_arry' = [msq_queue_arry EXCEPT ![i] = q]
  PROVE  /\ QueuesOK' /\ no_init_queue' = no_init_queue /\ no_init_queue \in Nat
         /\ msq_queue_arry[i] \in Queue
         /\ \A j \in 1 .. no_init_queue : msq_queue_arry'[j] = IF j = i THEN q ELSE msq_queue_arry[j]
BY DEF QueuesOK, no_init_queue

LEMMA AppendedQueue ==
  ASSUME QueuesOK, NEW q \in Queue, msq_queue_arry' = Append(msq_queue_arry, q)
  PROVE  /\ QueuesOK' /\ no_init_queue' = no_init_queue + 1 /\ no_init_queue \in Nat
         /\ \A j \in 1 .. no_init_queue + 1 :
              msq_queue_arry'[j] = IF j = no_init_queue + 1 THEN q ELSE msq_queue_arry[j]
BY DEF QueuesOK, no_init_queue

-----------------------------------------------------------------------------
\* Between two calls the write pointer of a queue is in its buffer.
PointerInside ==
  \A i \in 1 .. no_init_queue :
    LET q == msq_queue_arry[i]
    IN  q.current_write_ptr \in 0 .. q.total_size - 1

LEMMA PointerInsideStep ==
  ASSUME QueuesOK, PointerInside, [Next]_vars
  PROVE  QueuesOK' /\ PointerInside'
<1>1. CASE Appended
  <2>1. PICK ch \in Channels, ulMemSize \in Sizes :
          msq_queue_arry' = Append(msq_queue_arry, NewQueue(ch, ulMemSize))
    BY <1>1 DEF Appended
  <2> DEFINE q == NewQueue(ch, ulMemSize)
  <2>2. q \in Queue /\ q.current_write_ptr \in 0 .. q.total_size - 1
    BY NewQueueFields
  <2>3. msq_queue_arry' = Append(msq_queue_arry, q)
    BY <2>1
  <2> HIDE DEF q
  <2>4. /\ QueuesOK' /\ no_init_queue' = no_init_queue + 1 /\ no_init_queue \in Nat
        /\ \A j \in 1 .. no_init_queue + 1 :
             msq_queue_arry'[j] = IF j = no_init_queue + 1 THEN q ELSE msq_queue_arry[j]
    BY <2>2, <2>3, AppendedQueue
  <2> QED
    BY <2>2, <2>4 DEF PointerInside
<1>2. CASE SentTo
  <2>1. PICK i \in 1 .. no_init_queue, msg \in Messages :
          /\ Len(msg) <= msq_queue_arry[i].total_size
          /\ msq_queue_arry' = [msq_queue_arry EXCEPT ![i] = Sent(msq_queue_arry[i], msg)]
    BY <1>2 DEF SentTo
  <2> DEFINE q == Sent(msq_queue_arry[i], msg)
  <2>2. msq_queue_arry[i] \in Queue /\ msg \in Seq(Byte)
    BY QueueAssumption DEF QueuesOK, no_init_queue
  <2>3. q \in Queue /\ q.current_write_ptr \in 0 .. q.total_size - 1
    BY <2>1, <2>2, SentFields DEF PointerInside
  <2>4. msq_queue_arry' = [msq_queue_arry EXCEPT ![i] = q]
    BY <2>1
  <2> HIDE DEF q
  <2>5. /\ QueuesOK' /\ no_init_queue' = no_init_queue
        /\ \A j \in 1 .. no_init_queue : msq_queue_arry'[j] = IF j = i THEN q ELSE msq_queue_arry[j]
    BY <2>3, <2>4, ReplacedQueue
  <2> QED
    BY <2>3, <2>5 DEF PointerInside
<1>3. CASE ReceivedFrom
  <2>1. PICK i \in 1 .. no_init_queue, n \in Requests :
          /\ n <= msq_queue_arry[i].q_filled_bytes
          /\ msq_queue_arry' = [msq_queue_arry EXCEPT ![i] = Received(msq_queue_arry[i], n)]
    BY <1>3 DEF ReceivedFrom
  <2> DEFINE q == Received(msq_queue_arry[i], n)
  <2>2. msq_queue_arry[i] \in Queue /\ n \in Nat
    BY QueueAssumption DEF QueuesOK, no_init_queue
  <2>3. q \in Queue /\ q.current_write_ptr \in 0 .. q.total_size - 1
    BY <2>1, <2>2, ReceivedFields DEF PointerInside
  <2>4. msq_queue_arry' = [msq_queue_arry EXCEPT ![i] = q]
    BY <2>1
  <2> HIDE DEF q
  <2>5. /\ QueuesOK' /\ no_init_queue' = no_init_queue
        /\ \A j \in 1 .. no_init_queue : msq_queue_arry'[j] = IF j = i THEN q ELSE msq_queue_arry[j]
    BY <2>3, <2>4, ReplacedQueue
  <2> QED
    BY <2>3, <2>5 DEF PointerInside
<1>4. CASE UNCHANGED msq_queue_arry
  BY <1>4 DEF QueuesOK, PointerInside, no_init_queue
<1> QED
  BY <1>1, <1>2, <1>3, <1>4, Cases

LEMMA InitialQueues == Init => QueuesOK /\ PointerInside /\ QueuesSound /\ OneQueuePerChannel
BY QueueAssumption DEF Init, QueuesOK, PointerInside, QueuesSound, OneQueuePerChannel, no_init_queue

\* From there the pieces of a message end before the end of the buffer.
LEMMA CopiesInside ==
  ASSUME NEW q \in Queue, NEW msg \in Seq(Byte), Len(msg) <= q.total_size,
         q.current_write_ptr \in 0 .. q.total_size - 1
  PROVE  \A k \in DOMAIN Copies(q, msg) :
           /\ Copies(q, msg)[k].at >= 0
           /\ Copies(q, msg)[k].at + Len(Copies(q, msg)[k].bytes) <= q.total_size
<1> DEFINE size  == Len(msg)
           total == q.total_size
           write == WriteStart(q, msg)
           diff  == Room(q, write)
<1>1. /\ size \in Nat /\ total \in Nat /\ size <= total
      /\ write \in 0 .. total - 1 /\ diff = total - write
  BY QueueAssumption DEF Queue, WriteStart, Room
<1>2. CASE Splits(q, write, size)
  <2> DEFINE part1 == SubSeq(msg, 1, diff)
             part2 == SubSeq(msg, diff + 1, size)
             first == [at |-> write, bytes |-> part1]
             rest  == [at |-> 0, bytes |-> part2]
  <2>1. diff \in 1 .. size - 1
    BY <1>1, <1>2 DEF Splits
  <2>2. \A k \in 1 .. size : msg[k] \in Byte
    OBVIOUS
  <2>3. Len(part1) = diff
    <3>1. \A k \in 1 .. diff : msg[k] \in Byte
      BY <1>1, <2>1, <2>2
    <3>2. 1 \in Int /\ diff \in Int
      BY <2>1
    <3> HIDE DEF diff
    <3>3. Len(part1) = IF 1 <= diff THEN diff - 1 + 1 ELSE 0
      BY <3>1, <3>2, SubSeqProperties
    <3> QED
      BY <2>1, <3>3
  <2>4. Len(part2) = size - diff
    <3>1. \A k \in diff + 1 .. size : msg[k] \in Byte
      BY <1>1, <2>1, <2>2
    <3>2. diff + 1 \in Int /\ size \in Int
      BY <1>1, <2>1
    <3> HIDE DEF diff, size
    <3>3. Len(part2) = IF diff + 1 <= size THEN size - (diff + 1) + 1 ELSE 0
      BY <3>1, <3>2, SubSeqProperties
    <3> QED
      BY <1>1, <2>1, <3>3
  <2>5. Copies(q, msg) = <<first, rest>>
    BY <1>2 DEF Copies
  <2>6. first.at = write /\ Len(first.bytes) = diff /\ rest.at = 0 /\ Len(rest.bytes) = size - diff
    BY <2>3, <2>4
  <2> HIDE DEF first, rest
  <2>7. DOMAIN <<first, rest>> = {1, 2} /\ <<first, rest>>[1] = first /\ <<first, rest>>[2] = rest
    OBVIOUS
  <2> HIDE DEF write, diff, size, total
  <2>8. /\ first.at >= 0 /\ first.at + Len(first.bytes) <= total
        /\ rest.at >= 0 /\ rest.at + Len(rest.bytes) <= total
    BY <1>1, <2>1, <2>6
  <2> QED
    BY <2>5, <2>7, <2>8 DEF total
<1>3. CASE ~Splits(q, write, size)
  <2> DEFINE one == [at |-> write, bytes |-> msg]
  <2>1. size <= diff
    BY <1>1, <1>3 DEF Splits
  <2>2. Copies(q, msg) = <<one>>
    BY <1>3 DEF Copies
  <2>3. one.at = write /\ Len(one.bytes) = size
    OBVIOUS
  <2> HIDE DEF one
  <2>4. DOMAIN <<one>> = {1} /\ <<one>>[1] = one
    OBVIOUS
  <2> HIDE DEF write, diff, size, total
  <2>5. one.at >= 0 /\ one.at + Len(one.bytes) <= total
    BY <1>1, <2>1, <2>3
  <2> QED
    BY <2>2, <2>4, <2>5 DEF total
<1> QED
  BY <1>2, <1>3

\* No byte of a send is written outside of the queue's own buffer, in every
\* queue, for every size, message and history, overflows included.
THEOREM SendsWriteInside == Spec => []WritesInside
<1>1. Init => QueuesOK /\ PointerInside
  BY InitialQueues
<1>2. QueuesOK /\ PointerInside /\ [Next]_vars => (QueuesOK /\ PointerInside)'
  BY PointerInsideStep
<1>3. QueuesOK /\ PointerInside => WritesInside
  <2> SUFFICES ASSUME QueuesOK, PointerInside, NEW i \in 1 .. no_init_queue,
                      NEW msg \in Messages, Len(msg) <= msq_queue_arry[i].total_size
               PROVE  LET copies == Copies(msq_queue_arry[i], msg)
                      IN  \A k \in DOMAIN copies :
                            /\ copies[k].at >= 0
                            /\ copies[k].at + Len(copies[k].bytes) <= msq_queue_arry[i].total_size
    BY DEF WritesInside
  <2>1. /\ msq_queue_arry[i] \in Queue /\ msg \in Seq(Byte)
        /\ msq_queue_arry[i].current_write_ptr \in 0 .. msq_queue_arry[i].total_size - 1
    BY QueueAssumption DEF QueuesOK, no_init_queue, PointerInside
  <2> QED
    BY <2>1, CopiesInside
<1> QED
  BY <1>1, <1>2, <1>3, PTL DEF Spec

\* Every state is of its type.  What a send writes needs PointerInside.
LEMMA TypeStep ==
  ASSUME TypeOK, PointerInside, [Next]_vars
  PROVE  TypeOK'
<1> DEFINE Reply == [ret : Nat, data : Seq(Byte)]
<1>1. QueuesOK'
  BY PointerInsideStep DEF TypeOK, QueuesOK
<1>2. CASE UNCHANGED vars
  BY <1>2 DEF vars, TypeOK
<1>3. <<>> \in Seq(Byte) /\ 0 \in Nat
  OBVIOUS
<1>4. ASSUME NEW ret \in Nat, NEW data \in Seq(Byte), Returns(ret, data)
      PROVE  reply' \in Reply
  BY <1>4 DEF Returns
<1>5. ASSUME NEW ch \in Channels, NEW ulMemSize \in Sizes, spark_registerMQ(ch, ulMemSize)
      PROVE  reply' \in Reply
  BY <1>3, <1>5, <1>4 DEF spark_registerMQ
<1>6. ASSUME NEW i \in 1 .. no_init_queue, NEW msg \in Messages, spark_send(i, msg)
      PROVE  reply' \in Reply
  <2>1. Len(msg) \in Nat
    BY QueueAssumption
  <2>2. Returns(0, <<>>) \/ Returns(Len(msg), <<>>)
    BY <1>6 DEF spark_send
  <2> HIDE DEF Reply
  <2> QED
    BY <1>3, <1>4, <2>1, <2>2
<1>7. ASSUME NEW i \in 1 .. no_init_queue, NEW n \in Requests, spark_receive(i, n)
      PROVE  reply' \in Reply
  <2> DEFINE q == msq_queue_arry[i]
  <2>1. q \in Queue /\ n \in Nat
    BY QueueAssumption DEF TypeOK, no_init_queue
  <2>2. q.q_filled_bytes \in Nat
    BY <2>1 DEF Queue
  <2>3. CASE n > q.q_filled_bytes /\ Returns(q.q_filled_bytes, <<>>)
    BY <1>3, <2>2, <2>3 DEF Returns
  <2>4. CASE n <= q.q_filled_bytes /\ Returns(n, Taken(q, n))
    <3>1. Taken(q, n) \in Seq(Byte)
      BY <2>1, <2>4, ReceivedFields
    <3> QED
      BY <2>1, <2>4, <3>1 DEF Returns
  <2> QED
    BY <1>7, <2>3, <2>4 DEF spark_receive
<1> QED
  BY <1>1, <1>2, <1>5, <1>6, <1>7 DEF Next, TypeOK, QueuesOK

\* The type invariant of the queues and of the replies.
THEOREM TypeCorrect == Spec => []TypeOK
<1>1. Init => TypeOK /\ PointerInside
  BY InitialQueues DEF Init, TypeOK, QueuesOK
<1>2. TypeOK /\ PointerInside /\ [Next]_vars => (TypeOK /\ PointerInside)'
  BY TypeStep, PointerInsideStep DEF TypeOK, QueuesOK
<1> QED
  BY <1>1, <1>2, PTL DEF Spec

LEMMA OneQueueStep ==
  ASSUME QueuesOK, PointerInside, OneQueuePerChannel, [Next]_vars
  PROVE  OneQueuePerChannel'
<1>1. CASE Appended
  <2>1. PICK ch \in Channels, ulMemSize \in Sizes :
          /\ ~Registered(ch) /\ no_init_queue # MAX_QUEUES - 1
          /\ msq_queue_arry' = Append(msq_queue_arry, NewQueue(ch, ulMemSize))
    BY <1>1 DEF Appended
  <2> DEFINE q == NewQueue(ch, ulMemSize)
  <2>2. q \in Queue /\ q.ulChannelID = ch
    BY NewQueueFields
  <2>3. msq_queue_arry' = Append(msq_queue_arry, q)
    BY <2>1
  <2> HIDE DEF q
  <2>4. /\ no_init_queue' = no_init_queue + 1 /\ no_init_queue \in Nat
        /\ \A j \in 1 .. no_init_queue + 1 :
             msq_queue_arry'[j] = IF j = no_init_queue + 1 THEN q ELSE msq_queue_arry[j]
    BY <2>2, <2>3, AppendedQueue
  <2>5. no_init_queue' < MAX_QUEUES
    BY <2>1, <2>4, QueueAssumption DEF OneQueuePerChannel
  <2>6. \A j \in 1 .. no_init_queue : msq_queue_arry[j].ulChannelID # ch
    BY <2>1 DEF Registered
  <2> QED
    BY <2>2, <2>4, <2>5, <2>6 DEF OneQueuePerChannel
<1>2. ASSUME NEW i \in 1 .. no_init_queue, NEW q \in Queue,
             q.ulChannelID = msq_queue_arry[i].ulChannelID,
             msq_queue_arry' = [msq_queue_arry EXCEPT ![i] = q]
      PROVE  OneQueuePerChannel'
  <2>1. /\ no_init_queue' = no_init_queue
        /\ \A j \in 1 .. no_init_queue : msq_queue_arry'[j] = IF j = i THEN q ELSE msq_queue_arry[j]
    BY <1>2, ReplacedQueue
  <2> QED
    BY <1>2, <2>1 DEF OneQueuePerChannel
<1>3. CASE SentTo
  <2>1. PICK i \in 1 .. no_init_queue, msg \in Messages :
          /\ Len(msg) <= msq_queue_arry[i].total_size
          /\ msq_queue_arry' = [msq_queue_arry EXCEPT ![i] = Sent(msq_queue_arry[i], msg)]
    BY <1>3 DEF SentTo
  <2>2. msq_queue_arry[i] \in Queue /\ msg \in Seq(Byte)
    BY QueueAssumption DEF QueuesOK, no_init_queue
  <2> QED
    BY <1>2, <2>1, <2>2, SentFields DEF PointerInside
<1>4. CASE ReceivedFrom
  <2>1. PICK i \in 1 .. no_init_queue, n \in Requests :
          /\ n <= msq_queue_arry[i].q_filled_bytes
          /\ msq_queue_arry' = [msq_queue_arry EXCEPT ![i] = Received(msq_queue_arry[i], n)]
    BY <1>4 DEF ReceivedFrom
  <2>2. msq_queue_arry[i] \in Queue /\ n \in Nat
    BY QueueAssumption DEF QueuesOK, no_init_queue
  <2> QED
    BY <1>2, <2>1, <2>2, ReceivedFields
<1>5. CASE UNCHANGED msq_queue_arry
  BY <1>5 DEF OneQueuePerChannel, no_init_queue
<1> QED
  BY <1>1, <1>3, <1>4, <1>5, Cases

\* A channel has one queue, however often and from wherever it is registered.
THEOREM NoSecondQueue == Spec => []OneQueuePerChannel
<1>1. Init => QueuesOK /\ PointerInside /\ OneQueuePerChannel
  BY InitialQueues
<1>2. QueuesOK /\ PointerInside /\ OneQueuePerChannel /\ [Next]_vars
        => (QueuesOK /\ PointerInside /\ OneQueuePerChannel)'
  BY PointerInsideStep, OneQueueStep
<1> QED
  BY <1>1, <1>2, PTL DEF Spec

-----------------------------------------------------------------------------
\* A queue that nobody has overflowed.

\* The arithmetic of two pointers that chase each other round a ring.
LEMMA Ring ==
  ASSUME NEW total \in Nat, NEW read \in 0 .. total - 1, NEW filled \in 0 .. total,
         NEW size \in Nat, filled + size <= total, NEW write,
         write = IF read + filled < total THEN read + filled ELSE read + filled - total
  PROVE  /\ size <= total /\ write \in 0 .. total - 1
         /\ (IF write + size < total THEN write + size ELSE write + size - total)
              = IF read + (filled + size) < total THEN read + (filled + size)
                                                  ELSE read + (filled + size) - total
OBVIOUS

LEMMA SoundIfChasing ==
  ASSUME NEW q \in Queue,
         q.current_read_ptr \in 0 .. q.total_size - 1, q.q_filled_bytes \in 0 .. q.total_size,
         q.current_write_ptr = IF q.current_read_ptr + q.q_filled_bytes < q.total_size
                               THEN q.current_read_ptr + q.q_filled_bytes
                               ELSE q.current_read_ptr + q.q_filled_bytes - q.total_size
  PROVE  Sound(q)
<1>1. q.current_read_ptr \in Nat /\ q.q_filled_bytes \in Nat /\ q.total_size \in Nat
  BY QueueAssumption DEF Queue
<1>2. q.current_read_ptr + (q.q_filled_bytes + 1) - 1 = q.current_read_ptr + q.q_filled_bytes
  BY <1>1
<1> QED
  BY <1>1, <1>2 DEF Sound, Slot

LEMMA SoundSend ==
  ASSUME NEW q \in Queue, NEW msg \in Seq(Byte), Sound(q), ~Overflows(q, msg)
  PROVE  /\ Len(msg) <= q.total_size
         /\ q.current_write_ptr \in 0 .. q.total_size - 1
         /\ Sound(Sent(q, msg))
<1> DEFINE n == Sent(q, msg)
           size == Len(msg)
<1>1. /\ q.total_size \in 1 .. PageSize /\ PageSize \in Nat /\ size \in Nat
      /\ q.q_filled_bytes \in Nat /\ q.q_filled_bytes + size <= q.total_size
      /\ q.current_read_ptr \in 0 .. q.total_size - 1
  BY QueueAssumption DEF Queue, Overflows, Sound
<1>2. q.current_write_ptr = IF q.current_read_ptr + q.q_filled_bytes < q.total_size
                            THEN q.current_read_ptr + q.q_filled_bytes
                            ELSE q.current_read_ptr + q.q_filled_bytes - q.total_size
  BY <1>1 DEF Sound, Slot
<1>3. size <= q.total_size /\ q.current_write_ptr \in 0 .. q.total_size - 1
  <2> HIDE DEF size
  <2>1. q.total_size \in Nat /\ q.q_filled_bytes \in 0 .. q.total_size
    BY <1>1
  <2> QED BY <1>1, <1>2, <2>1, Ring, SMTT(30)
<1>4. /\ n \in Queue /\ n.total_size = q.total_size
      /\ n.q_filled_bytes = q.q_filled_bytes + size
      /\ n.current_read_ptr = q.current_read_ptr
      /\ n.current_write_ptr = IF q.current_write_ptr + size < q.total_size
                               THEN q.current_write_ptr + size
                               ELSE q.current_write_ptr + size - q.total_size
  BY <1>3, SentFields
<1> HIDE DEF n, size
<1>5. n.current_write_ptr = IF n.current_read_ptr + n.q_filled_bytes < n.total_size
                            THEN n.current_read_ptr + n.q_filled_bytes
                            ELSE n.current_read_ptr + n.q_filled_bytes - n.total_size
  <2>1. q.total_size \in Nat /\ q.q_filled_bytes \in 0 .. q.total_size
    BY <1>1
  <2> QED BY <1>1, <1>2, <1>4, <2>1, Ring, SMTT(30)
<1>6. n.current_read_ptr \in 0 .. n.total_size - 1 /\ n.q_filled_bytes \in 0 .. n.total_size
  BY <1>1, <1>4
<1>7. Sound(n)
  BY <1>4, <1>5, <1>6, SoundIfChasing
<1> QED
  BY <1>3, <1>7 DEF n, size

LEMMA SoundReceive ==
  ASSUME NEW q \in Queue, NEW n \in Nat, n <= q.q_filled_bytes, Sound(q)
  PROVE  Sound(Received(q, n))
<1> DEFINE r == Received(q, n)
<1>1. /\ q.total_size \in 1 .. PageSize /\ PageSize \in Nat
      /\ q.q_filled_bytes \in 0 .. q.total_size
      /\ q.current_read_ptr \in 0 .. q.total_size - 1
      /\ q.current_write_ptr = Slot(q, q.q_filled_bytes + 1)
  BY QueueAssumption DEF Queue, Sound
<1>2. /\ r.total_size = q.total_size
      /\ r.q_filled_bytes = q.q_filled_bytes - n
      /\ r.current_write_ptr = q.current_write_ptr
      /\ r.current_read_ptr = IF q.current_read_ptr + n < q.total_size THEN q.current_read_ptr + n
                                                           ELSE q.current_read_ptr + n - q.total_size
  BY ReceivedFields
<1> HIDE DEF r
<1>3. Sound(r)
  BY <1>1, <1>2 DEF Sound, Slot
<1> QED
  BY <1>3 DEF r

LEMMA SoundStep ==
  ASSUME QueuesOK, PointerInside, QueuesSound, [Next]_vars
  PROVE  QueuesSound'
<1>1. CASE Appended
  <2>1. PICK ch \in Channels, ulMemSize \in Sizes :
          msq_queue_arry' = Append(msq_queue_arry, NewQueue(ch, ulMemSize))
    BY <1>1 DEF Appended
  <2> DEFINE q == NewQueue(ch, ulMemSize)
  <2>2. q \in Queue /\ Sound(q)
    BY NewQueueFields
  <2>3. msq_queue_arry' = Append(msq_queue_arry, q)
    BY <2>1
  <2> HIDE DEF q
  <2>4. /\ no_init_queue' = no_init_queue + 1 /\ no_init_queue \in Nat
        /\ \A j \in 1 .. no_init_queue + 1 :
             msq_queue_arry'[j] = IF j = no_init_queue + 1 THEN q ELSE msq_queue_arry[j]
    BY <2>2, <2>3, AppendedQueue
  <2> QED
    BY <2>2, <2>4 DEF QueuesSound
<1>2. ASSUME NEW i \in 1 .. no_init_queue, NEW q \in Queue, ~q.overrun => Sound(q),
             msq_queue_arry' = [msq_queue_arry EXCEPT ![i] = q]
      PROVE  QueuesSound'
  <2>1. /\ no_init_queue' = no_init_queue
        /\ \A j \in 1 .. no_init_queue : msq_queue_arry'[j] = IF j = i THEN q ELSE msq_queue_arry[j]
    BY <1>2, ReplacedQueue
  <2> QED
    BY <1>2, <2>1 DEF QueuesSound
<1>3. CASE SentTo
  <2>1. PICK i \in 1 .. no_init_queue, msg \in Messages :
          /\ Len(msg) <= msq_queue_arry[i].total_size
          /\ msq_queue_arry' = [msq_queue_arry EXCEPT ![i] = Sent(msq_queue_arry[i], msg)]
    BY <1>3 DEF SentTo
  <2> DEFINE q == msq_queue_arry[i]
  <2>2. /\ q \in Queue /\ msg \in Seq(Byte) /\ (~q.overrun => Sound(q))
        /\ q.current_write_ptr \in 0 .. q.total_size - 1
    BY QueueAssumption DEF QueuesOK, QueuesSound, PointerInside, no_init_queue
  <2>3. Sent(q, msg) \in Queue /\ Sent(q, msg).overrun = (q.overrun \/ Overflows(q, msg))
    BY <2>1, <2>2, SentFields
  <2>4. ~Sent(q, msg).overrun => Sound(Sent(q, msg))
    BY <2>2, <2>3, SoundSend
  <2> QED
    BY <1>2, <2>1, <2>3, <2>4
<1>4. CASE ReceivedFrom
  <2>1. PICK i \in 1 .. no_init_queue, n \in Requests :
          /\ n <= msq_queue_arry[i].q_filled_bytes
          /\ msq_queue_arry' = [msq_queue_arry EXCEPT ![i] = Received(msq_queue_arry[i], n)]
    BY <1>4 DEF ReceivedFrom
  <2> DEFINE q == msq_queue_arry[i]
  <2>2. q \in Queue /\ n \in Nat /\ (~q.overrun => Sound(q))
    BY QueueAssumption DEF QueuesOK, QueuesSound, no_init_queue
  <2>3. Received(q, n) \in Queue /\ Received(q, n).overrun = q.overrun
    BY <2>1, <2>2, ReceivedFields
  <2>4. ~Received(q, n).overrun => Sound(Received(q, n))
    BY <2>1, <2>2, <2>3, SoundReceive
  <2> QED
    BY <1>2, <2>1, <2>3, <2>4
<1>5. CASE UNCHANGED msq_queue_arry
  BY <1>5 DEF QueuesSound, no_init_queue
<1> QED
  BY <1>1, <1>3, <1>4, <1>5, Cases

\* The pointers and the count of every queue agree until a send overflows it,
\* and whatever overflows the others.
THEOREM PointersAgree == Spec => []QueuesSound
<1>1. Init => QueuesOK /\ PointerInside /\ QueuesSound
  BY InitialQueues
<1>2. QueuesOK /\ PointerInside /\ QueuesSound /\ [Next]_vars => (QueuesOK /\ PointerInside /\ QueuesSound)'
  BY PointerInsideStep, SoundStep
<1> QED
  BY <1>1, <1>2, PTL DEF Spec

-----------------------------------------------------------------------------
\* The bytes a sound queue holds, across a send and a receive.

LEMMA ContentIsSeq ==
  ASSUME NEW q \in Queue, Sound(q)
  PROVE  /\ Content(q) \in Seq(Byte) /\ Len(Content(q)) = q.q_filled_bytes
         /\ \A k \in 1 .. q.q_filled_bytes : Content(q)[k] = q.buff[Slot(q, k)]
<1>1. /\ q.total_size \in 1 .. PageSize /\ PageSize \in Nat /\ q.q_filled_bytes \in 0 .. q.total_size
      /\ q.current_read_ptr \in 0 .. q.total_size - 1 /\ q.buff \in [Offsets -> Byte]
  BY QueueAssumption DEF Queue, Sound
<1>2. \A k \in 1 .. q.q_filled_bytes : Slot(q, k) \in Offsets
  BY <1>1 DEF Slot, Offsets
<1>3. Content(q) \in [1 .. q.q_filled_bytes -> Byte]
  BY <1>1, <1>2 DEF Content
<1>4. q.q_filled_bytes \in Nat
  BY <1>1
<1> QED
  BY <1>3, <1>4, FunctionIsSeq DEF Content

LEMMA RingSlots ==
  ASSUME NEW total \in Nat, NEW read \in 0 .. total - 1, NEW filled \in 0 .. total,
         NEW size \in Nat, filled + size <= total, NEW write,
         write = IF read + filled < total THEN read + filled ELSE read + filled - total,
         NEW k \in 1 .. filled + size, NEW o,
         o = IF read + k - 1 < total THEN read + k - 1 ELSE read + k - 1 - total
  PROVE  /\ o \in 0 .. total - 1
         /\ k <= filled => ~(write <= o /\ o < write + size) /\ ~(o + total < write + size)
         /\ k > filled => \/ write <= o /\ o < write + size /\ o - write + 1 = k - filled
                          \/ ~(write <= o) /\ o + total < write + size /\ o + total - write + 1 = k - filled
OBVIOUS

LEMMA SlotIs ==
  ASSUME NEW q \in Queue, NEW k \in Nat, NEW total, NEW read,
         q.total_size = total, q.current_read_ptr = read
  PROVE  Slot(q, k) = IF read + k - 1 < total THEN read + k - 1 ELSE read + k - 1 - total
<1>1. total \in Nat /\ read \in Nat
  BY QueueAssumption DEF Queue
<1> QED
  BY <1>1 DEF Slot

LEMMA SentContent ==
  ASSUME NEW q \in Queue, NEW msg \in Seq(Byte), Sound(q), ~Overflows(q, msg)
  PROVE  Content(Sent(q, msg)) = Content(q) \o msg
<1> DEFINE n     == Sent(q, msg)
           size  == Len(msg)
           total == q.total_size
           read  == q.current_read_ptr
           write == q.current_write_ptr
           filled == q.q_filled_bytes
<1>1. /\ total \in 1 .. PageSize /\ PageSize \in Nat /\ size \in Nat
      /\ filled \in 0 .. total /\ filled + size <= total
      /\ read \in 0 .. total - 1
  BY QueueAssumption DEF Queue, Overflows, Sound
<1>2. write = IF read + filled < total THEN read + filled ELSE read + filled - total
  BY <1>1 DEF Sound, Slot
<1>3. size <= total /\ write \in 0 .. total - 1 /\ Sound(n)
  BY SoundSend
<1>4. /\ n \in Queue /\ n.total_size = total
      /\ n.q_filled_bytes = filled + size
      /\ n.current_read_ptr = read
      /\ \A o \in 0 .. total - 1 : n.buff[o] =
           IF write <= o /\ o < write + size THEN msg[o - write + 1]
           ELSE IF o + total < write + size THEN msg[o + total - write + 1] ELSE q.buff[o]
  BY <1>3, SentFields
<1>5. /\ Content(n) \in Seq(Byte) /\ Len(Content(n)) = filled + size
      /\ \A k \in 1 .. filled + size : Content(n)[k] = n.buff[Slot(n, k)]
  BY <1>3, <1>4, ContentIsSeq
<1>6. /\ Content(q) \in Seq(Byte) /\ Len(Content(q)) = filled
      /\ \A k \in 1 .. filled : Content(q)[k] = q.buff[Slot(q, k)]
  BY ContentIsSeq
<1>7. /\ Content(q) \o msg \in Seq(Byte) /\ Len(Content(q) \o msg) = filled + size
      /\ \A k \in 1 .. filled + size :
           (Content(q) \o msg)[k] = IF k <= filled THEN Content(q)[k] ELSE msg[k - filled]
  <2> DEFINE c == Content(q)
  <2>1. c \in Seq(Byte) /\ Len(c) = filled
    BY <1>6
  <2> HIDE DEF c
  <2>2. /\ c \o msg \in Seq(Byte) /\ Len(c \o msg) = Len(c) + Len(msg)
        /\ \A k \in 1 .. Len(c) + Len(msg) : (c \o msg)[k] = IF k <= Len(c) THEN c[k] ELSE msg[k - Len(c)]
    BY <2>1, ConcatProperties
  <2>3. /\ c \o msg \in Seq(Byte) /\ Len(c \o msg) = filled + size
        /\ \A k \in 1 .. filled + size : (c \o msg)[k] = IF k <= filled THEN c[k] ELSE msg[k - filled]
    BY <2>1, <2>2
  <2> QED
    BY <2>3 DEF c
<1>8. ASSUME NEW k \in 1 .. filled + size
      PROVE  Content(n)[k] = (Content(q) \o msg)[k]
  <2> DEFINE o == IF read + k - 1 < total THEN read + k - 1 ELSE read + k - 1 - total
  <2>1. Slot(n, k) = o /\ Slot(q, k) = o
    <3>1. k \in Nat
      BY <1>1
    <3>2. Slot(n, k) = o
      <4> HIDE DEF n
      <4> QED BY <1>4, <3>1, SlotIs
    <3>3. Slot(q, k) = o
      BY <3>1, SlotIs
    <3> QED
      BY <3>2, <3>3
  <2> HIDE DEF n
  <2>2. Content(n)[k] = n.buff[o]
    BY <1>5, <2>1
  <2>3. k \in Int /\ filled \in Int /\ (k <= filled \/ k > filled)
    BY <1>1
  <2> HIDE DEF o
  <2>4. /\ o \in 0 .. total - 1
        /\ k <= filled => ~(write <= o /\ o < write + size) /\ ~(o + total < write + size)
        /\ k > filled => \/ write <= o /\ o < write + size /\ o - write + 1 = k - filled
                         \/ ~(write <= o) /\ o + total < write + size /\ o + total - write + 1 = k - filled
    <3> HIDE DEF size, total, read, write, filled
    <3> QED
      BY <1>1, <1>2, RingSlots DEF o
  <2> HIDE DEF size, total, read, write, filled
  <2>5. CASE k <= filled
    <3>1. k \in 1 .. filled
      BY <2>3, <2>5
    <3>2. n.buff[o] = q.buff[o]
      BY <1>4, <2>4, <2>5
    <3> QED
      BY <1>6, <1>7, <2>1, <2>2, <2>5, <3>1, <3>2
  <2>6. CASE k > filled
    <3>1. n.buff[o] = msg[k - filled]
      BY <1>4, <2>4, <2>6
    <3>2. ~(k <= filled)
      BY <2>3, <2>6
    <3> QED
      BY <1>7, <2>2, <3>1, <3>2
  <2> QED
    BY <2>3, <2>5, <2>6
<1> HIDE DEF n, size, filled
<1> QED
  BY <1>5, <1>7, <1>8, SeqEqual DEF n

LEMMA ReceivedContent ==
  ASSUME NEW q \in Queue, NEW n \in Nat, n <= q.q_filled_bytes, Sound(q)
  PROVE  /\ Taken(q, n) = SubSeq(Content(q), 1, n)
         /\ Content(Received(q, n)) = SubSeq(Content(q), n + 1, Len(Content(q)))
<1> DEFINE r     == Received(q, n)
           total == q.total_size
           read  == q.current_read_ptr
           filled == q.q_filled_bytes
           c     == Content(q)
<1>1. /\ total \in 1 .. PageSize /\ PageSize \in Nat
      /\ filled \in 0 .. total /\ read \in 0 .. total - 1
  BY QueueAssumption DEF Queue, Sound
<1>2. /\ r \in Queue /\ r.total_size = total /\ r.buff = q.buff
      /\ r.q_filled_bytes = filled - n
      /\ r.current_read_ptr = IF read + n < total THEN read + n ELSE read + n - total
      /\ Taken(q, n) \in Seq(Byte) /\ Len(Taken(q, n)) = n
      /\ \A k \in 1 .. n : Taken(q, n)[k] = q.buff[Slot(q, k)]
  BY ReceivedFields
<1>3. Sound(r)
  BY SoundReceive
<1>4. /\ c \in Seq(Byte) /\ Len(c) = filled
      /\ \A k \in 1 .. filled : c[k] = q.buff[Slot(q, k)]
  BY ContentIsSeq
<1>5. /\ Content(r) \in Seq(Byte) /\ Len(Content(r)) = filled - n
      /\ \A k \in 1 .. filled - n : Content(r)[k] = q.buff[Slot(r, k)]
  BY <1>2, <1>3, ContentIsSeq
<1>6. ASSUME NEW k \in 1 .. filled - n
      PROVE  Slot(r, k) = Slot(q, n + k) /\ n + k \in 1 .. filled
  <2> DEFINE next == IF read + n < total THEN read + n ELSE read + n - total
  <2>1. k \in Nat /\ n + k \in Nat /\ n + k \in 1 .. filled
    BY <1>1
  <2>2. Slot(r, k) = IF next + k - 1 < total THEN next + k - 1 ELSE next + k - 1 - total
    <3> HIDE DEF r, next, total
    <3>1. r \in Queue /\ r.total_size = total /\ r.current_read_ptr = next
      BY <1>2 DEF next
    <3> QED
      BY <2>1, <3>1, SlotIs
  <2>3. Slot(q, n + k) = IF read + (n + k) - 1 < total THEN read + (n + k) - 1 ELSE read + (n + k) - 1 - total
    BY <2>1, SlotIs
  <2> HIDE DEF r, total, read, filled
  <2> QED
    BY <1>1, <2>1, <2>2, <2>3
<1> HIDE DEF r, c, filled
<1>7. n \in Int /\ 1 \in Int /\ filled \in Int /\ n + 1 \in Int /\ n <= filled /\ filled \in Nat
  BY <1>1 DEF filled
<1>8. Taken(q, n) = SubSeq(c, 1, n)
  <2>1. \A k \in 1 .. n : c[k] \in Byte /\ k \in 1 .. filled
    BY <1>4, <1>7
  <2>2. /\ SubSeq(c, 1, n) \in Seq(Byte)
        /\ Len(SubSeq(c, 1, n)) = IF 1 <= n THEN n - 1 + 1 ELSE 0
        /\ \A k \in 1 .. n - 1 + 1 : SubSeq(c, 1, n)[k] = c[1 + k - 1]
    BY <1>4, <1>7, <2>1, SubSeqProperties
  <2>3. Len(SubSeq(c, 1, n)) = n
    BY <1>7, <2>2
  <2>4. \A k \in 1 .. n : SubSeq(c, 1, n)[k] = c[k]
    <3>1. \A k \in 1 .. n : 1 + k - 1 = k /\ k \in 1 .. n - 1 + 1
      BY <1>7
    <3> QED
      BY <2>2, <3>1
  <2>5. \A k \in 1 .. n : Taken(q, n)[k] = SubSeq(c, 1, n)[k]
    BY <1>2, <1>4, <2>1, <2>4
  <2> QED
    BY <1>2, <2>2, <2>3, <2>5, SeqEqual
<1>9. Content(r) = SubSeq(c, n + 1, filled)
  <2>1. \A k \in n + 1 .. filled : c[k] \in Byte
    BY <1>4, <1>7
  <2>2. /\ SubSeq(c, n + 1, filled) \in Seq(Byte)
        /\ Len(SubSeq(c, n + 1, filled)) = IF n + 1 <= filled THEN filled - (n + 1) + 1 ELSE 0
        /\ \A k \in 1 .. filled - (n + 1) + 1 : SubSeq(c, n + 1, filled)[k] = c[n + 1 + k - 1]
    BY <1>4, <1>7, <2>1, SubSeqProperties
  <2>3. Len(SubSeq(c, n + 1, filled)) = filled - n
    BY <1>7, <2>2
  <2>4. \A k \in 1 .. filled - n : SubSeq(c, n + 1, filled)[k] = c[n + k]
    <3>1. \A k \in 1 .. filled - n : n + 1 + k - 1 = n + k /\ k \in 1 .. filled - (n + 1) + 1
      BY <1>7
    <3> QED
      BY <2>2, <3>1
  <2>5. \A k \in 1 .. filled - n : Content(r)[k] = SubSeq(c, n + 1, filled)[k]
    BY <1>4, <1>5, <1>6, <2>4
  <2> QED
    BY <1>5, <2>2, <2>3, <2>5, SeqEqual
<1> QED
  BY <1>4, <1>8, <1>9 DEF r, c

-----------------------------------------------------------------------------
\* The refinement: what the partitions see of a queue is its channel.

View == \A ch \in Channels, i \in 1 .. no_init_queue :
          msq_queue_arry[i].ulChannelID = ch => Registered(ch) /\ queueOf(ch) = msq_queue_arry[i]

LEMMA QueueOfChannel == OneQueuePerChannel => View
<1> SUFFICES ASSUME OneQueuePerChannel, NEW ch \in Channels, NEW i \in 1 .. no_init_queue,
                    msq_queue_arry[i].ulChannelID = ch
             PROVE  Registered(ch) /\ queueOf(ch) = msq_queue_arry[i]
  BY DEF View
<1>1. \A j \in 1 .. no_init_queue : msq_queue_arry[j].ulChannelID = ch => j = i
  BY DEF OneQueuePerChannel
<1> QED
  BY <1>1 DEF Registered, queueOf

LEMMA Views == OneQueuePerChannel /\ OneQueuePerChannel' => View /\ View'
BY QueueOfChannel, PTL

LEMMA ReplacedView ==
  ASSUME QueuesOK, OneQueuePerChannel, OneQueuePerChannel',
         NEW i \in 1 .. no_init_queue, NEW q \in Queue,
         q.ulChannelID = msq_queue_arry[i].ulChannelID, q.total_size = msq_queue_arry[i].total_size,
         msq_queue_arry' = [msq_queue_arry EXCEPT ![i] = q]
  PROVE  /\ msq_queue_arry[i] \in Queue /\ q.ulChannelID \in Channels
         /\ capacityOf(q.ulChannelID) = q.total_size
         /\ unreadOf(q.ulChannelID) = Stream(msq_queue_arry[i])
         /\ (brokenOf(q.ulChannelID) <=> msq_queue_arry[i].overrun)
         /\ \A ch \in Channels :
              /\ capacityOf(ch)' = capacityOf(ch)
              /\ unreadOf(ch)' = IF ch = q.ulChannelID THEN Stream(q) ELSE unreadOf(ch)
              /\ (brokenOf(ch)' <=> IF ch = q.ulChannelID THEN q.overrun ELSE brokenOf(ch))
<1>1. /\ no_init_queue' = no_init_queue
      /\ msq_queue_arry[i] \in Queue
      /\ \A j \in 1 .. no_init_queue : msq_queue_arry'[j] = IF j = i THEN q ELSE msq_queue_arry[j]
  BY ReplacedQueue
<1>2. View /\ View'
  BY Views
<1>3. q.ulChannelID \in Channels
  BY DEF Queue
<1>4. ASSUME NEW ch \in Channels, ~Registered(ch)
      PROVE  /\ ch # q.ulChannelID
             /\ capacityOf(ch)' = capacityOf(ch)
             /\ unreadOf(ch)' = unreadOf(ch)
             /\ (brokenOf(ch)' <=> brokenOf(ch))
  <2>1. \A j \in 1 .. no_init_queue : msq_queue_arry[j].ulChannelID # ch
    BY <1>4 DEF Registered
  <2>2. ~Registered(ch)'
    BY <1>1, <2>1 DEF Registered
  <2> QED
    BY <1>4, <2>1, <2>2 DEF capacityOf, unreadOf, brokenOf
<1>5. ASSUME NEW ch \in Channels, Registered(ch)
      PROVE  /\ capacityOf(ch)' = capacityOf(ch)
             /\ unreadOf(ch)' = IF ch = q.ulChannelID THEN Stream(q) ELSE unreadOf(ch)
             /\ (brokenOf(ch)' <=> IF ch = q.ulChannelID THEN q.overrun ELSE brokenOf(ch))
  <2>1. PICK j \in 1 .. no_init_queue : msq_queue_arry[j].ulChannelID = ch
    BY <1>5 DEF Registered
  <2>2. queueOf(ch) = msq_queue_arry[j]
    BY <1>2, <2>1 DEF View
  <2>3. msq_queue_arry'[j].ulChannelID = ch /\ j \in 1 .. no_init_queue'
    BY <1>1, <2>1
  <2>4. Registered(ch)' /\ queueOf(ch)' = msq_queue_arry'[j]
    BY <1>2, <2>3 DEF View
  <2>5. ch = q.ulChannelID => j = i
    BY <2>1 DEF OneQueuePerChannel
  <2>6. capacityOf(ch)' = capacityOf(ch)
    BY <1>1, <1>5, <2>2, <2>4 DEF capacityOf
  <2>7. /\ unreadOf(ch)' = Stream(msq_queue_arry'[j]) /\ unreadOf(ch) = Stream(msq_queue_arry[j])
        /\ (brokenOf(ch)' <=> msq_queue_arry'[j].overrun) /\ (brokenOf(ch) <=> msq_queue_arry[j].overrun)
    BY <1>1, <1>5, <2>2, <2>4 DEF unreadOf, brokenOf, Stream, Content, Slot
  <2>8. j = i => ch = q.ulChannelID
    BY <2>1
  <2> QED
    BY <1>1, <2>5, <2>6, <2>7, <2>8
<1>6. /\ capacityOf(q.ulChannelID) = q.total_size /\ unreadOf(q.ulChannelID) = Stream(msq_queue_arry[i])
      /\ (brokenOf(q.ulChannelID) <=> msq_queue_arry[i].overrun)
  <2>1. Registered(q.ulChannelID) /\ queueOf(q.ulChannelID) = msq_queue_arry[i]
    BY <1>2, <1>3 DEF View
  <2> QED
    BY <1>1, <2>1 DEF capacityOf, unreadOf, brokenOf
<1> QED
  BY <1>1, <1>3, <1>4, <1>5, <1>6

LEMMA NewQueueIsEmpty ==
  ASSUME NEW ch \in Channels, NEW ulMemSize \in Sizes
  PROVE  Stream(NewQueue(ch, ulMemSize)) = <<>>
<1> DEFINE q == NewQueue(ch, ulMemSize)
<1>1. q \in Queue /\ Sound(q) /\ q.q_filled_bytes = 0 /\ ~q.overrun
  BY NewQueueFields DEF NewQueue
<1> HIDE DEF q
<1>2. Content(q) \in Seq(Byte) /\ Len(Content(q)) = 0
  BY <1>1, ContentIsSeq
<1>3. Content(q) = <<>>
  BY <1>2
<1> QED
  BY <1>1, <1>3 DEF q, Stream

LEMMA AppendedView ==
  ASSUME OneQueuePerChannel, OneQueuePerChannel',
         NEW q \in Queue, NEW ch \in Channels, q.ulChannelID = ch, Stream(q) = <<>>, ~q.overrun,
         no_init_queue \in Nat, no_init_queue' = no_init_queue + 1, ~Registered(ch),
         \A j \in 1 .. no_init_queue + 1 :
           msq_queue_arry'[j] = IF j = no_init_queue + 1 THEN q ELSE msq_queue_arry[j]
  PROVE  /\ capacityOf(ch) = 0
         /\ \A c \in Channels : /\ capacityOf(c)' = IF c = ch THEN q.total_size ELSE capacityOf(c)
                                /\ unreadOf(c)' = unreadOf(c)
                                /\ (brokenOf(c)' <=> brokenOf(c))
<1>1. View /\ View'
  BY Views
<1>2. capacityOf(ch) = 0 /\ unreadOf(ch) = <<>> /\ ~brokenOf(ch)
  BY DEF capacityOf, unreadOf, brokenOf
<1>3. capacityOf(ch)' = q.total_size /\ unreadOf(ch)' = <<>> /\ ~brokenOf(ch)'
  <2>1. no_init_queue + 1 \in 1 .. no_init_queue' /\ msq_queue_arry'[no_init_queue + 1] = q
    OBVIOUS
  <2>2. Registered(ch)' /\ queueOf(ch)' = q
    BY <1>1, <2>1 DEF View
  <2>3. unreadOf(ch)' = Stream(q)
    BY <2>2 DEF unreadOf, Stream, Content, Slot
  <2> QED
    BY <2>2, <2>3 DEF capacityOf, brokenOf
<1>4. ASSUME NEW c \in Channels, c # ch
      PROVE  capacityOf(c)' = capacityOf(c) /\ unreadOf(c)' = unreadOf(c) /\ (brokenOf(c)' <=> brokenOf(c))
  <2>1. CASE Registered(c)
    <3>1. PICK j \in 1 .. no_init_queue : msq_queue_arry[j].ulChannelID = c
      BY <2>1 DEF Registered
    <3>2. queueOf(c) = msq_queue_arry[j]
      BY <1>1, <3>1 DEF View
    <3>3. j \in 1 .. no_init_queue' /\ msq_queue_arry'[j] = msq_queue_arry[j]
      OBVIOUS
    <3>4. Registered(c)' /\ queueOf(c)' = msq_queue_arry[j]
      BY <1>1, <3>1, <3>3 DEF View
    <3>5. unreadOf(c)' = Stream(msq_queue_arry[j]) /\ unreadOf(c) = Stream(msq_queue_arry[j])
      BY <2>1, <3>2, <3>4 DEF unreadOf, Stream, Content, Slot
    <3> QED
      BY <2>1, <3>2, <3>4, <3>5 DEF capacityOf, brokenOf
  <2>2. CASE ~Registered(c)
    <3>1. \A j \in 1 .. no_init_queue : msq_queue_arry[j].ulChannelID # c
      BY <2>2 DEF Registered
    <3>2. ~Registered(c)'
      BY <1>4, <3>1 DEF Registered
    <3> QED
      BY <2>2, <3>2 DEF capacityOf, unreadOf, brokenOf
  <2> QED
    BY <2>1, <2>2
<1> QED
  BY <1>2, <1>3, <1>4

\* A call that leaves the array alone leaves every channel alone.
LEMMA SameView ==
  ASSUME UNCHANGED msq_queue_arry
  PROVE  /\ UNCHANGED [ch \in Channels |-> capacityOf(ch)]
         /\ UNCHANGED [ch \in Channels |-> unreadOf(ch)]
         /\ UNCHANGED {ch \in Channels : brokenOf(ch)}
<1>1. \A c \in Channels : /\ capacityOf(c)' = capacityOf(c) /\ unreadOf(c)' = unreadOf(c)
                          /\ (brokenOf(c)' <=> brokenOf(c))
  BY DEF capacityOf, unreadOf, brokenOf, Registered, queueOf, no_init_queue, Stream, Content, Slot
<1> QED
  BY <1>1

\* The channel of a queue.
LEMMA ChannelOfQueue ==
  ASSUME QueuesOK, PointerInside, QueuesSound, OneQueuePerChannel, NEW i \in 1 .. no_init_queue,
         NEW q, q = msq_queue_arry[i], NEW ch, ch = q.ulChannelID
  PROVE  /\ q \in Queue /\ ch \in Channels /\ (~q.overrun => Sound(q))
         /\ q.current_write_ptr \in 0 .. q.total_size - 1
         /\ [c \in Channels |-> capacityOf(c)][ch] = q.total_size
         /\ [c \in Channels |-> unreadOf(c)][ch] = Stream(q)
         /\ ch \in {c \in Channels : brokenOf(c)} <=> q.overrun
<1>1. q \in Queue /\ (~q.overrun => Sound(q)) /\ q.current_write_ptr \in 0 .. q.total_size - 1
  BY DEF QueuesOK, PointerInside, QueuesSound, no_init_queue
<1>2. ch \in Channels
  BY <1>1 DEF Queue
<1>3. Registered(ch) /\ queueOf(ch) = q
  BY <1>2, QueueOfChannel DEF View
<1> QED
  BY <1>1, <1>2, <1>3 DEF capacityOf, unreadOf, brokenOf

\* Each hypercall is a step of the channel it names.

LEMMA RegisterRefines ==
  ASSUME QueuesOK, OneQueuePerChannel, OneQueuePerChannel',
         NEW ch \in Channels, NEW ulMemSize \in Sizes, spark_registerMQ(ch, ulMemSize)
  PROVE  Channel!Open(ch, ulMemSize)
<1>1. reply' = [ret |-> 0, data |-> <<>>]
  BY DEF spark_registerMQ, Returns
<1>2. CASE UNCHANGED msq_queue_arry
  BY <1>1, <1>2, SameView DEF Channel!Open
<1>3. CASE ~Registered(ch) /\ msq_queue_arry' = Append(msq_queue_arry, NewQueue(ch, ulMemSize))
  <2> DEFINE q == NewQueue(ch, ulMemSize)
  <2>1. q \in Queue /\ q.ulChannelID = ch /\ Stream(q) = <<>> /\ q.total_size = ulMemSize /\ ~q.overrun
    BY NewQueueFields, NewQueueIsEmpty DEF NewQueue
  <2>2. msq_queue_arry' = Append(msq_queue_arry, q)
    BY <1>3
  <2> HIDE DEF q
  <2>3. /\ no_init_queue' = no_init_queue + 1 /\ no_init_queue \in Nat
        /\ \A j \in 1 .. no_init_queue + 1 :
             msq_queue_arry'[j] = IF j = no_init_queue + 1 THEN q ELSE msq_queue_arry[j]
    BY <2>1, <2>2, AppendedQueue
  <2>4. /\ capacityOf(ch) = 0
        /\ \A c \in Channels : /\ capacityOf(c)' = IF c = ch THEN ulMemSize ELSE capacityOf(c)
                               /\ unreadOf(c)' = unreadOf(c)
                               /\ (brokenOf(c)' <=> brokenOf(c))
    BY <1>3, <2>1, <2>3, AppendedView
  <2>5. UNCHANGED {c \in Channels : brokenOf(c)}
    BY <2>4
  <2> QED
    BY <1>1, <2>4, <2>5 DEF Channel!Open
<1> QED
  BY <1>2, <1>3 DEF spark_registerMQ

LEMMA SendRefines ==
  ASSUME QueuesOK, PointerInside, QueuesSound, OneQueuePerChannel, OneQueuePerChannel',
         NEW i \in 1 .. no_init_queue, NEW msg \in Messages, spark_send(i, msg)
  PROVE  \E ch \in Channels : \/ Channel!Send(ch, msg) \/ Channel!SendTooBig(ch, msg)
                              \/ Channel!SendOver(ch, msg)
<1> DEFINE q == msq_queue_arry[i]
           ch == q.ulChannelID
           capacity == [c \in Channels |-> capacityOf(c)]
           unread == [c \in Channels |-> unreadOf(c)]
           broken == {c \in Channels : brokenOf(c)}
<1>1. /\ q \in Queue /\ ch \in Channels /\ (~q.overrun => Sound(q))
      /\ q.current_write_ptr \in 0 .. q.total_size - 1
      /\ capacity[ch] = q.total_size /\ unread[ch] = Stream(q) /\ (ch \in broken <=> q.overrun)
  BY ChannelOfQueue
<1>2. msg \in Seq(Byte) /\ Len(msg) \in Nat /\ q.q_filled_bytes \in Nat /\ q.total_size \in Nat
  BY <1>1, QueueAssumption DEF Queue
<1>3. CASE Len(msg) > q.total_size /\ Returns(0, <<>>) /\ UNCHANGED msq_queue_arry
  <2>1. reply' = [ret |-> 0, data |-> <<>>]
    BY <1>3 DEF Returns
  <2>2. UNCHANGED <<capacity, unread, broken>>
    BY <1>3, SameView
  <2> QED
    BY <1>1, <1>3, <2>1, <2>2 DEF Channel!SendTooBig
<1>4. CASE /\ Len(msg) <= q.total_size /\ Returns(Len(msg), <<>>)
           /\ msq_queue_arry' = [msq_queue_arry EXCEPT ![i] = Sent(q, msg)]
  <2> DEFINE n == Sent(q, msg)
  <2>1. /\ n \in Queue /\ n.ulChannelID = ch /\ n.total_size = q.total_size
        /\ n.overrun = (q.overrun \/ Overflows(q, msg))
    BY <1>1, <1>2, <1>4, SentFields
  <2>2. msq_queue_arry' = [msq_queue_arry EXCEPT ![i] = n]
    BY <1>4
  <2>3. ~n.overrun => Stream(n) = Stream(q) \o msg
    BY <1>1, <1>2, <2>1, SentContent DEF Stream
  <2>4. n.overrun => Stream(n) = <<>>
    BY DEF Stream
  <2> HIDE DEF n
  <2>5. \A c \in Channels : /\ capacityOf(c)' = capacityOf(c)
                            /\ unreadOf(c)' = IF c = ch THEN Stream(n) ELSE unreadOf(c)
                            /\ (brokenOf(c)' <=> IF c = ch THEN n.overrun ELSE brokenOf(c))
    <3>1. n \in Queue /\ n.ulChannelID = ch /\ n.total_size = q.total_size
      BY <2>1
    <3> QED
      BY <2>2, <3>1, ReplacedView
  <2>6. reply' = [ret |-> Len(msg), data |-> <<>>]
    BY <1>4 DEF Returns
  <2>7. /\ capacity' = capacity
        /\ unread' = [unread EXCEPT ![ch] = Stream(n)]
        /\ broken' = IF n.overrun THEN broken \cup {ch} ELSE broken \ {ch}
    BY <1>1, <2>5
  <2>8. ~q.overrun => (Overflows(q, msg) <=> ~(Len(unread[ch]) + Len(msg) <= capacity[ch]))
    <3>1. ~q.overrun => Len(unread[ch]) = q.q_filled_bytes
      BY <1>1, ContentIsSeq DEF Stream
    <3> HIDE DEF unread, capacity
    <3> QED
      BY <1>1, <1>2, <3>1 DEF Overflows
  <2>9. CASE ~n.overrun
    <3>1. ch \notin broken /\ Len(unread[ch]) + Len(msg) <= capacity[ch]
      BY <1>1, <2>1, <2>8, <2>9
    <3>2. unread' = [unread EXCEPT ![ch] = @ \o msg]
      <4>1. unread[ch] = Stream(q) /\ unread' = [unread EXCEPT ![ch] = Stream(n)] /\ Stream(n) = Stream(q) \o msg
        BY <1>1, <2>3, <2>7, <2>9
      <4> HIDE DEF unread, q, ch
      <4> QED
        BY <4>1
    <3>3. UNCHANGED <<capacity, broken>>
      BY <2>7, <2>9, <3>1
    <3> HIDE DEF unread, capacity, broken
    <3> QED
      BY <1>1, <2>6, <3>1, <3>2, <3>3 DEF Channel!Send, Channel!Fits, unread, capacity, broken
  <2>10. CASE n.overrun
    <3>1. ch \in broken \/ ~(Len(unread[ch]) + Len(msg) <= capacity[ch])
      BY <1>1, <2>1, <2>8, <2>10
    <3>2. /\ unread' = [unread EXCEPT ![ch] = <<>>] /\ UNCHANGED capacity
          /\ broken' = broken \cup {ch}
      BY <1>1, <2>4, <2>7, <2>10
    <3>3. Len(msg) <= capacity[ch]
      BY <1>1, <1>4
    <3> HIDE DEF unread, capacity, broken
    <3> QED
      BY <1>1, <2>6, <3>1, <3>2, <3>3 DEF Channel!SendOver, Channel!Fits, unread, capacity, broken
  <2> QED
    BY <2>9, <2>10
<1> QED
  BY <1>3, <1>4 DEF spark_send

LEMMA ReceiveRefines ==
  ASSUME QueuesOK, PointerInside, QueuesSound, OneQueuePerChannel, OneQueuePerChannel',
         NEW i \in 1 .. no_init_queue, NEW n \in Requests, spark_receive(i, n)
  PROVE  \E ch \in Channels : \/ Channel!Receive(ch, n) \/ Channel!ReceiveTooMuch(ch, n)
                              \/ Channel!ReceiveBroken(ch, n)
<1> DEFINE q == msq_queue_arry[i]
           ch == q.ulChannelID
           capacity == [c \in Channels |-> capacityOf(c)]
           unread == [c \in Channels |-> unreadOf(c)]
           broken == {c \in Channels : brokenOf(c)}
<1>1. /\ q \in Queue /\ ch \in Channels /\ (~q.overrun => Sound(q))
      /\ unread[ch] = Stream(q) /\ (ch \in broken <=> q.overrun)
  BY ChannelOfQueue
<1>2. n \in Nat /\ q.q_filled_bytes \in Nat
  BY <1>1, QueueAssumption DEF Queue
<1>3. ~q.overrun => Len(unread[ch]) = q.q_filled_bytes
  BY <1>1, ContentIsSeq DEF Stream
<1>4. CASE n > q.q_filled_bytes /\ Returns(q.q_filled_bytes, <<>>) /\ UNCHANGED msq_queue_arry
  <2>1. UNCHANGED <<capacity, unread, broken>>
    BY <1>4, SameView
  <2>2. reply' = [ret |-> q.q_filled_bytes, data |-> <<>>]
    BY <1>4 DEF Returns
  <2>3. reply' \in [ret : Nat, data : Seq(Byte)]
    <3>1. <<>> \in Seq(Byte)
      OBVIOUS
    <3> QED
      BY <1>2, <2>2, <3>1
  <2>4. CASE q.overrun
    BY <1>1, <2>1, <2>3, <2>4 DEF Channel!ReceiveBroken
  <2>5. CASE ~q.overrun
    <3>1. ch \notin broken /\ n > Len(unread[ch]) /\ reply' = [ret |-> Len(unread[ch]), data |-> <<>>]
      BY <1>1, <1>3, <1>4, <2>2, <2>5
    <3> QED
      BY <1>1, <2>1, <3>1 DEF Channel!ReceiveTooMuch
  <2> QED
    BY <2>4, <2>5
<1>5. CASE /\ n <= q.q_filled_bytes /\ Returns(n, Taken(q, n))
           /\ msq_queue_arry' = [msq_queue_arry EXCEPT ![i] = Received(q, n)]
  <2> DEFINE r == Received(q, n)
             rest == SubSeq(Stream(q), n + 1, Len(Stream(q)))
  <2>1. /\ r \in Queue /\ r.ulChannelID = ch /\ r.total_size = q.total_size /\ r.overrun = q.overrun
        /\ Taken(q, n) \in Seq(Byte)
    BY <1>1, <1>2, <1>5, ReceivedFields
  <2>2. msq_queue_arry' = [msq_queue_arry EXCEPT ![i] = r]
    BY <1>5
  <2>3. ~q.overrun => Stream(r) = rest /\ Taken(q, n) = SubSeq(Stream(q), 1, n)
    BY <1>1, <1>2, <1>5, <2>1, ReceivedContent DEF Stream
  <2>4. q.overrun => Stream(r) = Stream(q)
    BY <2>1 DEF Stream
  <2> HIDE DEF r
  <2>5. \A c \in Channels : /\ capacityOf(c)' = capacityOf(c)
                            /\ unreadOf(c)' = IF c = ch THEN Stream(r) ELSE unreadOf(c)
                            /\ (brokenOf(c)' <=> IF c = ch THEN r.overrun ELSE brokenOf(c))
    BY <2>1, <2>2, ReplacedView
  <2>6. reply' = [ret |-> n, data |-> Taken(q, n)]
    BY <1>5 DEF Returns
  <2>7. UNCHANGED <<capacity, broken>> /\ unread' = [unread EXCEPT ![ch] = Stream(r)]
    BY <1>1, <2>1, <2>5
  <2>8. CASE q.overrun
    <3>1. UNCHANGED unread
      BY <1>1, <2>4, <2>7, <2>8
    <3>2. reply' \in [ret : Nat, data : Seq(Byte)]
      BY <1>2, <2>1, <2>6
    <3> QED
      BY <1>1, <2>7, <2>8, <3>1, <3>2 DEF Channel!ReceiveBroken
  <2>9. CASE ~q.overrun
    <3>1. /\ ch \notin broken /\ n <= Len(unread[ch])
          /\ reply' = [ret |-> n, data |-> SubSeq(unread[ch], 1, n)]
      BY <1>1, <1>3, <1>5, <2>3, <2>6, <2>9
    <3>2. unread' = [unread EXCEPT ![ch] = SubSeq(@, n + 1, Len(@))]
      BY <1>1, <2>3, <2>7, <2>9
    <3> HIDE DEF unread, capacity, broken
    <3> QED
      BY <1>1, <2>7, <3>1, <3>2 DEF Channel!Receive, unread, capacity, broken
  <2> QED
    BY <2>8, <2>9
<1> QED
  BY <1>4, <1>5 DEF spark_receive

\* Every hypercall is a step of the abstract channels: the partitions see
\* streams of bytes, whatever the size of the rings, each until somebody
\* overflows it.
THEOREM Refinement == Spec => ImplementsChannel
<1> DEFINE Inv == QueuesOK /\ PointerInside /\ QueuesSound /\ OneQueuePerChannel
<1>1. Init => Inv /\ Channel!Init
  <2>1. Init => \A ch \in Channels : capacityOf(ch) = 0 /\ unreadOf(ch) = <<>> /\ ~brokenOf(ch)
    BY DEF Init, capacityOf, unreadOf, brokenOf, Registered, no_init_queue
  <2> QED
    BY <2>1, InitialQueues DEF Init, Channel!Init
<1>2. Inv /\ [Next]_vars => Inv'
  BY PointerInsideStep, SoundStep, OneQueueStep
<1>3. Inv /\ Inv' /\ [Next]_vars => [Channel!Next]_(Channel!vars)
  <2> SUFFICES ASSUME Inv, Inv', [Next]_vars
               PROVE  [Channel!Next]_(Channel!vars)
    OBVIOUS
  <2>1. CASE UNCHANGED vars
    BY <2>1, SameView DEF vars, Channel!vars
  <2>2. ASSUME NEW ch \in Channels, NEW ulMemSize \in Sizes, spark_registerMQ(ch, ulMemSize)
        PROVE  Channel!Next
    BY <2>2, RegisterRefines DEF Channel!Next
  <2>3. ASSUME NEW i \in 1 .. no_init_queue, NEW msg \in Messages, spark_send(i, msg)
        PROVE  Channel!Next
    BY <2>3, SendRefines DEF Channel!Next
  <2>4. ASSUME NEW i \in 1 .. no_init_queue, NEW n \in Requests, spark_receive(i, n)
        PROVE  Channel!Next
    BY <2>4, ReceiveRefines DEF Channel!Next
  <2> QED
    BY <2>1, <2>2, <2>3, <2>4 DEF Next
<1> QED
  BY <1>1, <1>2, <1>3, PTL DEF Spec, ImplementsChannel, Channel!Spec

-----------------------------------------------------------------------------
\* The message that overflows a queue is written from the start of the buffer
\* and read from there.
LEMMA OverflowTaken ==
  ASSUME NEW q \in Queue, NEW msg \in Seq(Byte), Len(msg) <= q.total_size, Overflows(q, msg)
  PROVE  Taken(Sent(q, msg), Len(msg)) = msg
<1> DEFINE n    == Sent(q, msg)
           size == Len(msg)
           buff == memcpy(q.buff, 0, msg)
<1>1. size \in Nat /\ q.total_size \in 1 .. PageSize /\ PageSize \in Nat /\ size <= q.total_size
  BY QueueAssumption DEF Queue
<1>2. ~Splits(q, 0, size)
  BY <1>1 DEF Splits, Room
<1>3. n.buff = buff /\ n.current_read_ptr = 0 /\ n.total_size = q.total_size
  <2>1. WriteStart(q, msg) = 0
    BY DEF WriteStart
  <2>2. Written(q.buff, Copies(q, msg)) = buff
    BY <1>2, <2>1, WrittenCopies
  <2> QED
    BY <2>2 DEF Sent, ReadAfterSend, Queue
<1>4. ~Splits(n, 0, size)
  BY <1>2, <1>3 DEF Splits, Room
<1>5. Taken(n, size) = copied(buff, 0, size)
  BY <1>3, <1>4 DEF Taken
<1>6. \A k \in 1 .. size : 0 + k - 1 \in Offsets /\ buff[0 + k - 1] = msg[k]
  BY <1>1 DEF Offsets, memcpy
<1>7. copied(buff, 0, size) = [k \in 1 .. size |-> msg[k]]
  BY <1>6 DEF copied
<1>8. msg = [k \in 1 .. size |-> msg[k]]
  OBVIOUS
<1> QED
  BY <1>5, <1>7, <1>8

\* An overflow loses old bytes and never new ones, whatever was sent, received
\* and overflowed before.
THEOREM NewestKept == Spec => OverflowKeepsNewest
<1>1. Init => QueuesOK /\ PointerInside
  BY InitialQueues
<1>2. QueuesOK /\ PointerInside /\ [Next]_vars => (QueuesOK /\ PointerInside)'
  BY PointerInsideStep
<1>3. ASSUME QueuesOK, NEW i \in 1 .. no_init_queue, NEW msg \in Messages,
             spark_send(i, msg), Overflows(msq_queue_arry[i], msg), reply'.ret # 0
      PROVE  Taken(msq_queue_arry'[i], Len(msg)) = msg
  <2> DEFINE q == msq_queue_arry[i]
  <2>1. q \in Queue /\ msg \in Seq(Byte)
    BY <1>3, QueueAssumption DEF QueuesOK, no_init_queue
  <2>2. ~Returns(0, <<>>)
    BY <1>3 DEF Returns
  <2>3. Len(msg) <= q.total_size /\ msq_queue_arry' = [msq_queue_arry EXCEPT ![i] = Sent(q, msg)]
    BY <1>3, <2>2 DEF spark_send
  <2>4. msq_queue_arry'[i] = Sent(q, msg)
    BY <1>3, <2>3 DEF QueuesOK, no_init_queue
  <2> QED
    BY <1>3, <2>1, <2>3, <2>4, OverflowTaken
<1>4. QueuesOK /\ [Next]_vars =>
        [\A i \in 1 .. no_init_queue, msg \in Messages :
           spark_send(i, msg) /\ Overflows(msq_queue_arry[i], msg) /\ reply'.ret # 0
             => Taken(msq_queue_arry'[i], Len(msg)) = msg]_vars
  BY <1>3
<1> QED
  BY <1>1, <1>2, <1>4, PTL DEF Spec, OverflowKeepsNewest
=============================================================================
