------------------------- MODULE SocketPackets_proofs -------------------------
(***************************************************************************)
(* The way of a packet, for every size of the tables, channels and packets *)
(* and any number of them: from the driver's queue through task1 and the   *)
(* receive channel to the buffer of a receive, or to the queue of a socket *)
(* and from there to a later receive.  It keeps its place in the order of  *)
(* arrival up to the loop of sys_sock_tcp_recv_k, is handed out at most    *)
(* once, and by the socket whose port it came for.  Then the way back: a   *)
(* reply waits in the slot of the socket it was sent on.  Last the number  *)
(* of connections, which keeps local ports and the guests' ports apart.    *)
(***************************************************************************)
EXTENDS SocketFrames_proofs

-----------------------------------------------------------------------------
\* Words that are messages, with a label on each cut.  R has the messages that
\* may be there, each with the labels before and behind it.

Steps(w, R, f) ==
  {p \in (0 .. Len(w)) \X (0 .. Len(w)) :
     p[1] < p[2] /\ <<Part(w, p[1], p[2]), f[p[1]], f[p[2]]>> \in R}
Labelled(w, R, f, lo, hi) ==
  /\ f[0] = lo /\ f[Len(w)] = hi
  /\ Cut(Len(w), Steps(w, R, f))
Walk(w, R, lo, hi) == \E f \in [0 .. Len(w) -> Nat] : Labelled(w, R, f, lo, hi)

LEMMA NoWalk ==
  ASSUME NEW R, NEW n \in Nat
  PROVE  Walk(<<>>, R, n, n) /\ \A lo, hi : Walk(<<>>, R, lo, hi) => lo = hi
<1> DEFINE f == [k \in 0 .. Len(<<>>) |-> n]
<1>1. Len(<<>>) = 0 /\ f \in [0 .. Len(<<>>) -> Nat] /\ f[0] = n /\ f[Len(<<>>)] = n
  BY EmptySeq
<1> HIDE DEF f
<1>2. Cut(Len(<<>>), Steps(<<>>, R, f))
  BY <1>1, NothingCut
<1>3. Walk(<<>>, R, n, n)
  BY <1>1, <1>2 DEF Walk, Labelled
<1>4. \A lo, hi : Walk(<<>>, R, lo, hi) => lo = hi
  BY EmptySeq DEF Walk, Labelled
<1> QED
  BY <1>3, <1>4

LEMMA WalkAppended ==
  ASSUME NEW R, NEW S, R \subseteq S, NEW w \in Seq(Word), NEW lo \in Nat, NEW hi \in Nat,
         Walk(w, R, lo, hi),
         NEW m \in Seq(Word), 0 < Len(m), NEW top \in Nat, <<m, hi, top>> \in S
  PROVE  Walk(w \o m, S, lo, top)
<1> DEFINE both == w \o m
<1>1. Len(both) = Len(w) + Len(m) /\ Len(w) \in Nat /\ Len(m) \in Nat
  BY WordsBehind
<1>2. /\ \A b, e \in 0 .. Len(w) : b < e => Part(both, b, e) = Part(w, b, e)
      /\ Part(both, Len(w), Len(both)) = m
  BY PartBehind
<1> HIDE DEF both
<1>3. PICK f \in [0 .. Len(w) -> Nat] : Labelled(w, R, f, lo, hi)
  BY DEF Walk
<1> DEFINE h == [k \in 0 .. Len(both) |-> IF k <= Len(w) THEN f[k] ELSE top]
<1>4. /\ h \in [0 .. Len(both) -> Nat]
      /\ \A k \in 0 .. Len(w) : h[k] = f[k]
      /\ h[0] = lo /\ h[Len(w)] = hi /\ h[Len(both)] = top
  BY <1>1, <1>3 DEF Labelled
<1> HIDE DEF h
<1>5. ASSUME NEW b \in 0 .. Len(w), NEW e \in 0 .. Len(w), <<b, e>> \in Steps(w, R, f)
      PROVE  <<b, e>> \in Steps(both, S, h)
  <2>1. b < e /\ <<Part(w, b, e), f[b], f[e]>> \in R
    BY <1>5 DEF Steps
  <2>2. b \in 0 .. Len(both) /\ e \in 0 .. Len(both)
    BY <1>1
  <2>3. <<Part(both, b, e), h[b], h[e]>> \in S
    BY <1>2, <1>4, <2>1
  <2> QED
    BY <2>1, <2>2, <2>3 DEF Steps
<1>6. <<Len(w), Len(both)>> \in Steps(both, S, h)
  <2>1. /\ Len(w) < Len(both)
        /\ Len(w) \in 0 .. Len(both) /\ Len(both) \in 0 .. Len(both)
    BY <1>1
  <2>2. <<Part(both, Len(w), Len(both)), h[Len(w)], h[Len(both)]>> \in S
    BY <1>2, <1>4
  <2> QED
    BY <2>1, <2>2 DEF Steps
<1>7. Cut(Len(both), Steps(both, S, h))
  <2>1. Cut(Len(w), Steps(w, R, f))
    BY <1>3 DEF Labelled
  <2>2. Len(both) \in Nat /\ Len(w) < Len(both)
    BY <1>1
  <2> DEFINE Old == Steps(w, R, f)
             New == Steps(both, S, h)
             n == Len(w)
             k == Len(both)
  <2>3. /\ n \in Nat /\ k \in Nat /\ n < k /\ Cut(n, Old)
        /\ \A b, e \in 0 .. n : <<b, e>> \in Old => <<b, e>> \in New
        /\ <<n, k>> \in New
    BY <1>1, <1>5, <1>6, <2>1, <2>2
  <2> HIDE DEF Old, New, n, k
  <2>4. Cut(k, New)
    BY <2>3, PieceAppended
  <2> QED
    BY <2>4 DEF New, k
<1> QED
  BY <1>4, <1>7 DEF Walk, Labelled, both

\* The first message, and the words left when it is taken out.
LEMMA WalkFirst ==
  ASSUME NEW R, NEW w \in Seq(Word), NEW lo, NEW hi, Walk(w, R, lo, hi), w # <<>>
  PROVE  \E e \in 1 .. Len(w), mid \in Nat :
           /\ <<SubSeq(w, 1, e), lo, mid>> \in R
           /\ Walk(Drop(w, e), R, mid, hi)
<1>1. Len(w) \in Nat /\ Len(w) # 0
  BY EmptySeq
<1>2. PICK f \in [0 .. Len(w) -> Nat] : Labelled(w, R, f, lo, hi)
  BY DEF Walk
<1>3. PICK e \in 1 .. Len(w) :
        /\ <<0, e>> \in Steps(w, R, f)
        /\ \A New : (\A b, d \in 0 .. Len(w) - e :
                       <<b + e, d + e>> \in Steps(w, R, f) => <<b, d>> \in New)
                      => Cut(Len(w) - e, New)
  BY <1>1, <1>2, FirstPiece DEF Labelled
<1> DEFINE left == Drop(w, e)
           h == [k \in 0 .. Len(left) |-> f[k + e]]
<1>4. Len(left) = Len(w) - e /\ e \in 0 .. Len(w) /\ e \in Nat
  <2>1. e \in 0 .. Len(w)
    BY <1>1
  <2> QED
    BY <2>1, WordsLeft
<1>5. /\ h \in [0 .. Len(left) -> Nat]
      /\ \A k \in 0 .. Len(left) : h[k] = f[k + e]
  <2> HIDE DEF left
  <2>1. \A k \in 0 .. Len(left) : k + e \in 0 .. Len(w)
    BY <1>1, <1>4
  <2> QED
    BY <2>1
<1>6. h[0] = f[e] /\ h[Len(left)] = hi /\ f[e] \in Nat
  <2> HIDE DEF left, h
  <2>1. 0 \in 0 .. Len(left) /\ Len(left) \in 0 .. Len(left) /\ 0 + e = e /\ Len(left) + e = Len(w)
    BY <1>1, <1>4
  <2> QED
    BY <1>2, <1>4, <1>5, <2>1 DEF Labelled
<1> HIDE DEF h
<1>7. ASSUME NEW b \in 0 .. Len(w) - e, NEW d \in 0 .. Len(w) - e,
             <<b + e, d + e>> \in Steps(w, R, f)
      PROVE  <<b, d>> \in Steps(left, R, h)
  <2>1. b + e < d + e /\ <<Part(w, b + e, d + e), f[b + e], f[d + e]>> \in R
    BY <1>7 DEF Steps
  <2>2. b \in 0 .. Len(left) /\ d \in 0 .. Len(left) /\ b < d
    BY <1>1, <1>4, <2>1
  <2>3. Part(left, b, d) = Part(w, b + e, d + e)
    BY <1>4, <2>2, PartLeft
  <2>4. <<Part(left, b, d), h[b], h[d]>> \in R
    BY <1>5, <2>1, <2>2, <2>3
  <2> QED
    BY <2>2, <2>4 DEF Steps
<1> HIDE DEF left
<1>8. Cut(Len(w) - e, Steps(left, R, h))
  BY <1>3, <1>7
<1>9. Walk(left, R, f[e], hi)
  BY <1>4, <1>5, <1>6, <1>8 DEF Walk, Labelled
<1>10. <<SubSeq(w, 1, e), lo, f[e]>> \in R
  <2>1. <<Part(w, 0, e), f[0], f[e]>> \in R
    BY <1>3 DEF Steps
  <2> QED
    BY <1>2, <2>1 DEF Part, Labelled
<1> QED
  BY <1>6, <1>9, <1>10 DEF left

LEMMA WalkMore ==
  ASSUME NEW R, NEW S, R \subseteq S, NEW w, NEW lo, NEW hi, Walk(w, R, lo, hi)
  PROVE  Walk(w, S, lo, hi)
<1>1. PICK f \in [0 .. Len(w) -> Nat] : Labelled(w, R, f, lo, hi)
  BY DEF Walk
<1>2. Steps(w, R, f) \subseteq Steps(w, S, f)
  BY DEF Steps
<1>3. PICK B \in SUBSET (0 .. Len(w)) : Cuts(B, Len(w), Steps(w, R, f))
  BY <1>1 DEF Labelled, Cut
<1>4. Cuts(B, Len(w), Steps(w, S, f))
  BY <1>2, <1>3 DEF Cuts
<1> QED
  BY <1>1, <1>4 DEF Walk, Labelled, Cut

\* Words that are messages of M with growing numbers: the labels say which
\* numbers are before a cut and which behind it.

Numbered(M, lo, hi) == {m \in M : lo < m[5] /\ m[5] <= hi}
Ascents(M) == {x \in M \X Nat \X Nat : x[1] \in Numbered(M, x[2], x[3])}
Trail(w, M, lo, hi) == Walk(w, Ascents(M), lo, hi)

LEMMA NoTrail ==
  ASSUME NEW M, NEW n \in Nat
  PROVE  Trail(<<>>, M, n, n) /\ \A lo, hi : Trail(<<>>, M, lo, hi) => lo = hi
BY NoWalk DEF Trail

LEMMA TrailAppended ==
  ASSUME NEW M, NEW N, M \subseteq N, NEW w \in Seq(Word), NEW lo \in Nat, NEW hi \in Nat,
         Trail(w, M, lo, hi),
         NEW m \in Seq(Word), m \in N, 0 < Len(m), NEW top \in Nat, hi < m[5], m[5] <= top
  PROVE  Trail(w \o m, N, lo, top)
<1>1. Ascents(M) \subseteq Ascents(N)
  BY DEF Ascents, Numbered
<1>2. <<m, hi, top>> \in Ascents(N)
  BY DEF Ascents, Numbered
<1> QED
  BY <1>1, <1>2, WalkAppended DEF Trail

LEMMA TrailFirst ==
  ASSUME NEW M, NEW w \in Seq(Word), NEW lo, NEW hi, Trail(w, M, lo, hi), w # <<>>
  PROVE  \E e \in 1 .. Len(w), mid \in Nat :
           /\ SubSeq(w, 1, e) \in Numbered(M, lo, mid)
           /\ Trail(Drop(w, e), M, mid, hi)
<1>1. PICK e \in 1 .. Len(w), mid \in Nat : /\ <<SubSeq(w, 1, e), lo, mid>> \in Ascents(M)
                                           /\ Walk(Drop(w, e), Ascents(M), mid, hi)
  BY WalkFirst DEF Trail
<1>2. SubSeq(w, 1, e) \in Numbered(M, lo, mid)
  BY <1>1 DEF Ascents
<1> QED
  BY <1>1, <1>2 DEF Trail

LEMMA TrailMore ==
  ASSUME NEW M, NEW N, M \subseteq N, NEW w, NEW lo, NEW hi, Trail(w, M, lo, hi)
  PROVE  Trail(w, N, lo, hi)
<1>1. Ascents(M) \subseteq Ascents(N)
  BY DEF Ascents, Numbered
<1> QED
  BY <1>1, WalkMore DEF Trail

LEMMA TrailOne ==
  ASSUME NEW M, NEW m \in Seq(Word), m \in M, 0 < Len(m), NEW lo \in Nat, NEW hi \in Nat,
         lo < m[5], m[5] <= hi
  PROVE  Trail(m, M, lo, hi)
<1>1. <<>> \in Seq(Word) /\ <<>> \o m = m
  BY EmptySeq, ConcatEmptySeq
<1>2. Trail(<<>> \o m, M, lo, hi)
  BY <1>1, NoTrail, TrailAppended
<1> QED
  BY <1>1, <1>2

-----------------------------------------------------------------------------
\* The words of a guest: those its receive has taken or counted, and those
\* behind them in the channel.

InHand(g) ==
  IF receiving[g].pc = "loop" THEN receiving[g].tcp_recv_data
                              ELSE SubSeq(recv[g], 1, Counted(g))
Waiting(g) == Drop(recv[g], Counted(g))

LEMMA HandTyped ==
  ASSUME IInv, NEW g \in Gos
  PROVE  InHand(g) \in Seq(Word) /\ Waiting(g) \in Seq(Word)
<1>1. /\ recv[g] \in Seq(Word) /\ Counted(g) \in 0 .. Len(recv[g])
      /\ receiving[g].tcp_recv_data \in Seq(Word)
  BY ChannelTyped
<1>2. SubSeq(recv[g], 1, Counted(g)) \in Seq(Word) /\ Drop(recv[g], Counted(g)) \in Seq(Word)
  BY <1>1, PartAtFront, WordsLeft
<1> QED
  BY <1>1, <1>2 DEF InHand, Waiting

LEMMA HandFramed ==
  ASSUME RoundsOK, NEW g \in Gos
  PROVE  /\ Framed(InHand(g), Messages(SocketsOf(g)))
         /\ Framed(Waiting(g), Messages(SocketsOf(g)))
<1>1. MessagesOK(g)
  BY DEF RoundsOK
<1> QED
  BY <1>1 DEF MessagesOK, InHand, Waiting

LEMMA WordsStay ==
  ASSUME NEW g \in Gos, recv'[g] = recv[g],
         \/ receiving'[g] = receiving[g]
         \/ receiving[g].pc = "app" /\ receiving'[g].pc = "app"
  PROVE  InHand(g)' = InHand(g) /\ Waiting(g)' = Waiting(g)
BY DEF InHand, Waiting, Counted

\* The first receive takes all it asks for, or counts what is there.  What it
\* takes ends a message unless the guest is in cut behind it.
LEMMA WordsTaken ==
  ASSUME IInv, RoundsOK, NEW g \in Gos, g \notin cut', NEW i \in Entries,
         NEW size \in RecvSizes[g], RecvFirst(g, i, size)
  PROVE  /\ InHand(g) = <<>> /\ Waiting(g) # <<>>
         /\ receiving'[g].pc \in {"again", "loop"}
         /\ receiving'[g].sockid = active_ports[g][i].sock_id
         /\ receiving'[g].index = i /\ receiving'[g].buffer_bytes = 0
         /\ receiving'[g].pc = "again" => InHand(g)' = Waiting(g) /\ Waiting(g)' = <<>>
         /\ receiving'[g].pc = "loop" =>
              \E n \in 0 .. Len(Waiting(g)) :
                /\ EndsMessage(Waiting(g), n)
                /\ InHand(g)' = SubSeq(Waiting(g), 1, n)
                /\ Waiting(g)' = Drop(Waiting(g), n)
                /\ n = Header + size
         /\ Lengths = {size} =>
              receiving'[g].pc = "loop" /\ Waiting(g)[3] = size
<1> DEFINE w == recv[g]
           n == Wanted(size)
           r == [Idle EXCEPT !.sockid = active_ports[g][i].sock_id, !.index = i, !.size = size]
<1>1. /\ receiving[g].pc = "app" /\ w # <<>>
      /\ receiving \in [Gos -> Receive] /\ recv \in [Gos -> Seq(Word)] /\ w \in Seq(Word)
  BY DEF RecvFirst, IInv, TypeOK, ReceivesOK
<1>2. size \in Nat /\ n = size + Header /\ n \in Nat /\ Len(w) \in Nat /\ DataSize \in Nat
  BY <1>1, SocketAssumption DEF Wanted, Header
<1>3. InHand(g) = <<>> /\ Waiting(g) = w /\ Framed(w, Messages(SocketsOf(g)))
  <2>1. Counted(g) = 0 /\ Drop(w, 0) = w /\ SubSeq(w, 1, 0) = <<>>
    BY <1>1, NothingDropped DEF Counted
  <2> QED
    BY <1>1, <2>1, HandFramed DEF InHand, Waiting
<1>4. /\ w[3] \in Lengths /\ Header + w[3] <= Len(w)
  BY <1>1, <1>3, FirstMessage
<1>5. Lengths = {size} => w[3] = size /\ n <= Len(w)
  BY <1>2, <1>4 DEF Header
<1>6. n = Header + size
  BY <1>2 DEF Header
<1> HIDE DEF w, n
<1>7. CASE /\ Len(w) >= n
           /\ Step(g, [r EXCEPT !.pc = "loop", !.tcp_recv_data = SubSeq(w, 1, n)])
           /\ recv' = [recv EXCEPT ![g] = Drop(@, n)]
           /\ EndsMessage(w, size + Header)
  <2>1. /\ receiving'[g].pc = "loop" /\ receiving'[g].index = i
        /\ receiving'[g].sockid = active_ports[g][i].sock_id
        /\ receiving'[g].buffer_bytes = 0
        /\ receiving'[g].tcp_recv_data = SubSeq(w, 1, n)
    BY <1>1, <1>7 DEF Step, Idle
  <2>2. recv'[g] = Drop(w, n)
    BY <1>1, <1>7 DEF w
  <2>3. Drop(w, n) \in Seq(Word) /\ n \in 0 .. Len(w)
    <3>1. n \in 0 .. Len(w)
      BY <1>2, <1>7
    <3> QED
      BY <1>1, <3>1, WordsLeft
  <2>4. Counted(g)' = 0 /\ InHand(g)' = SubSeq(w, 1, n) /\ Waiting(g)' = Drop(w, n)
    BY <2>1, <2>2, <2>3, NothingDropped DEF Counted, InHand, Waiting
  <2>5. EndsMessage(w, n)
    BY <1>2, <1>7
  <2> QED
    BY <1>1, <1>3, <1>5, <1>6, <2>1, <2>3, <2>4, <2>5
<1>8. CASE /\ Len(w) < n
           /\ Step(g, [r EXCEPT !.pc = "again", !.message_size = Len(w)])
           /\ UNCHANGED recv
  <2>1. /\ receiving'[g].pc = "again" /\ receiving'[g].index = i
        /\ receiving'[g].sockid = active_ports[g][i].sock_id
        /\ receiving'[g].buffer_bytes = 0
        /\ receiving'[g].message_size = Len(w)
    BY <1>1, <1>8 DEF Step, Idle
  <2>2. Counted(g)' = Len(w) /\ recv'[g] = w
    BY <1>8, <2>1 DEF Counted, w
  <2>3. InHand(g)' = w /\ Waiting(g)' = <<>>
    BY <1>1, <2>1, <2>2, NothingDropped DEF InHand, Waiting
  <2>4. Lengths # {size}
    BY <1>2, <1>5, <1>8
  <2> QED
    BY <1>1, <1>3, <2>1, <2>3, <2>4
<1> QED
  BY <1>7, <1>8 DEF RecvFirst, w, n

\* The second one takes what was counted.
LEMMA WordsCounted ==
  ASSUME IInv, NEW g \in Gos, RecvAgain(g)
  PROVE  /\ InHand(g)' = InHand(g) /\ Waiting(g)' = Waiting(g)
         /\ receiving[g].pc = "again" /\ receiving'[g].pc = "loop"
         /\ receiving'[g].sockid = receiving[g].sockid
         /\ receiving'[g].index = receiving[g].index
         /\ receiving'[g].buffer = receiving[g].buffer
         /\ receiving'[g].buffer_bytes = receiving[g].buffer_bytes
<1> DEFINE w == recv[g]
           n == receiving[g].message_size
<1>1. /\ receiving[g].pc = "again"
      /\ receiving \in [Gos -> Receive] /\ recv \in [Gos -> Seq(Word)]
      /\ recv' = [recv EXCEPT ![g] = Drop(@, n)]
      /\ receiving' = [receiving EXCEPT ![g] = [receiving[g] EXCEPT !.pc = "loop", !.message_size = 0,
                                                  !.tcp_recv_data = SubSeq(w, 1, n)]]
  BY DEF RecvAgain, Step, IInv, TypeOK, ReceivesOK
<1>2. Counted(g) = n /\ w \in Seq(Word) /\ n \in 0 .. Len(w)
  BY <1>1, ChannelTyped DEF Counted
<1>3. recv'[g] = Drop(w, n)
  BY <1>1
<1> HIDE DEF w, n
<1>4. /\ receiving'[g].pc = "loop" /\ receiving'[g].index = receiving[g].index
      /\ receiving'[g].sockid = receiving[g].sockid
      /\ receiving'[g].buffer = receiving[g].buffer
      /\ receiving'[g].buffer_bytes = receiving[g].buffer_bytes
      /\ receiving'[g].tcp_recv_data = SubSeq(w, 1, n)
  BY <1>1 DEF Receive
<1>5. InHand(g)' = SubSeq(w, 1, n) /\ Counted(g)' = 0
  BY <1>4 DEF InHand, Counted
<1>6. InHand(g) = SubSeq(w, 1, n) /\ Waiting(g) = Drop(w, n)
  BY <1>1, <1>2 DEF InHand, Waiting, w
<1>7. Drop(w, n) \in Seq(Word)
  BY <1>2, WordsLeft
<1>8. Waiting(g)' = Drop(w, n)
  BY <1>3, <1>5, <1>7, NothingDropped DEF Waiting
<1> QED
  BY <1>1, <1>4, <1>5, <1>6, <1>8

\* A round of the loop puts the first message behind it.
LEMMA WordsLooped ==
  ASSUME IInv, NEW g \in Gos, receiving[g].pc = "loop", recv'[g] = recv[g],
         receiving'[g].pc = "loop", receiving'[g].tcp_recv_data = NextMessage(receiving[g])
  PROVE  InHand(g)' = Drop(InHand(g), Header + InHand(g)[3]) /\ Waiting(g)' = Waiting(g)
BY DEF InHand, Waiting, Counted, NextMessage, dlength

LEMMA WordsReturned ==
  ASSUME IInv, NEW g \in Gos, receiving[g].pc = "loop", receiving[g].tcp_recv_data = <<>>,
         recv'[g] = recv[g], receiving'[g].pc = "app"
  PROVE  InHand(g) = <<>> /\ InHand(g)' = <<>> /\ Waiting(g)' = Waiting(g)
<1>1. recv[g] \in Seq(Word)
  BY DEF IInv, TypeOK
<1> QED
  BY <1>1, NothingDropped DEF InHand, Waiting, Counted

\* The message the partition sends.
Message(port, length, sockid, number) ==
  <<4444, port, length, sockid>> \o Data(number, length)

Says(m, port, length, sockid, number) ==
  /\ m \in Seq(Word) /\ Len(m) = Header + length /\ 0 < Len(m)
  /\ m[2] = port /\ m[3] = length /\ m[4] = sockid /\ m[5] = number

LEMMA MessageWords ==
  ASSUME NEW port \in Nat, NEW length \in Nat \ {0}, NEW sockid \in Nat, NEW number \in Nat
  PROVE  Says(Message(port, length, sockid, number), port, length, sockid, number)
<1> DEFINE head == <<4444, port, length, sockid>>
           data == Data(number, length)
           m == head \o data
<1>1. /\ head \in Seq(Word) /\ Len(head) = 4
      /\ head[2] = port /\ head[3] = length /\ head[4] = sockid
  BY DEF Word
<1>2. data \in Seq(Word) /\ Len(data) = length /\ data[1] = number
  BY DataWords
<1> HIDE DEF head, data
<1>3. /\ m \in Seq(Word) /\ Len(m) = Len(head) + Len(data)
      /\ \A k \in 1 .. Len(head) : m[k] = head[k]
      /\ \A k \in 1 .. Len(data) : m[Len(head) + k] = data[k]
  BY <1>1, <1>2, WordsBehind
<1> HIDE DEF m
<1>4. m[2] = head[2] /\ m[3] = head[3] /\ m[4] = head[4] /\ m[5] = data[1]
  <2>1. 1 \in 1 .. Len(data) /\ Len(head) + 1 = 5
    BY <1>1, <1>2
  <2> QED
    BY <1>1, <1>3, <2>1
<1>5. Len(m) = Header + length /\ 0 < Len(m)
  BY <1>1, <1>2, <1>3 DEF Header
<1>6. Says(m, port, length, sockid, number)
  BY <1>1, <1>2, <1>3, <1>4, <1>5 DEF Says
<1> QED
  BY <1>6 DEF Message, m, head, data

LEMMA WordsSent ==
  ASSUME IInv, NEW g \in Gos, receiving' = receiving,
         NEW port, NEW length, NEW sockid, NEW number,
         Message(port, length, sockid, number) \in Seq(Word),
         SendsTo(g, port, length, sockid, number)
  PROVE  /\ InHand(g)' = InHand(g)
         /\ Waiting(g)' = Waiting(g) \o Message(port, length, sockid, number)
         /\ \A h \in Gos \ {g} : recv'[h] = recv[h]
<1> DEFINE m == Message(port, length, sockid, number)
           w == recv[g]
           n == Counted(g)
<1>1. /\ recv \in [Gos -> Seq(Word)] /\ w \in Seq(Word) /\ n \in 0 .. Len(w)
      /\ m \in Seq(Word)
  BY ChannelTyped DEF IInv, TypeOK
<1>2. recv' = [recv EXCEPT ![g] = @ \o m]
  BY DEF SendsTo, Behind, Message
<1>3. n' = n
  BY DEF Counted
<1> HIDE DEF m, n
<1>4. recv'[g] = w \o m /\ \A h \in Gos \ {g} : recv'[h] = recv[h]
  BY <1>1, <1>2
<1> HIDE DEF w
<1>5. SubSeq(w \o m, 1, n) = SubSeq(w, 1, n) /\ Drop(w \o m, n) = Drop(w, n) \o m
  BY <1>1, MoreBehind
<1>6. SubSeq(recv'[g], 1, Counted(g)') = SubSeq(recv[g], 1, Counted(g))
  BY <1>3, <1>4, <1>5 DEF n, w
<1>7. Drop(recv'[g], Counted(g)') = Drop(recv[g], Counted(g)) \o m
  BY <1>3, <1>4, <1>5 DEF n, w
<1> QED
  BY <1>4, <1>6, <1>7 DEF InHand, Waiting, m

LEMMA TrailHead ==
  ASSUME NEW K, NEW w \in Seq(Word), NEW lo \in Nat, NEW hi,
         Trail(w, Messages(K), lo, hi), w # <<>>
  PROVE  LET e == Header + w[3]
         IN  \E mid \in Nat :
               /\ lo < w[5] /\ w[5] <= mid /\ w[5] \in Nat
               /\ Trail(SubSeq(w, 1, e), Messages(K), lo, mid)
               /\ Trail(Drop(w, e), Messages(K), mid, hi)
<1> DEFINE M == Messages(K)
<1>1. PICK e \in 1 .. Len(w), mid \in Nat :
        /\ SubSeq(w, 1, e) \in Numbered(M, lo, mid)
        /\ Trail(Drop(w, e), M, mid, hi)
  BY TrailFirst
<1> DEFINE m == SubSeq(w, 1, e)
<1>2. m \in M /\ lo < m[5] /\ m[5] <= mid
  BY <1>1 DEF Numbered
<1>3. e = Header + w[3] /\ m[5] = w[5] /\ m \in Seq(Word) /\ 0 < Len(m) /\ Len(w) >= 5
  <2>1. /\ e = Header + w[3] /\ w[3] \in Nat \ {0} /\ m \in Seq(Word) /\ 0 < Len(m)
        /\ \A k \in 1 .. 5 : m[k] = w[k]
    BY <1>2, HeadMessage, ZenonT(60)
  <2> HIDE DEF m
  <2>2. m[5] = w[5]
    BY <2>1
  <2>3. Len(w) \in Nat /\ e \in Nat
    OBVIOUS
  <2> QED
    BY <2>1, <2>2, <2>3 DEF Header
<1>4. w[5] \in Nat
  BY <1>3, SMTT(30) DEF Word
<1> HIDE DEF M
<1>5. Trail(m, M, lo, mid)
  BY <1>2, <1>3, TrailOne
<1> QED
  BY <1>1, <1>2, <1>3, <1>4, <1>5 DEF M

-----------------------------------------------------------------------------
\* Packets a guest is done with or keeps: what its receives returned, the
\* queues of its sockets, and the buffer of the receive it is in.

Handed == [sockid : Nat, packet : Nat]

PacketsIn(s) == {s[k].packet : k \in 1 .. Len(s)}
Once(s) == \A k, l \in 1 .. Len(s) : s[k].packet = s[l].packet => k = l

LEMMA OnceTail ==
  ASSUME NEW E, NEW s \in Seq(E), s # <<>>, Once(s)
  PROVE  /\ Once(Tail(s)) /\ PacketsIn(Tail(s)) \subseteq PacketsIn(s)
         /\ Head(s).packet \in PacketsIn(s) /\ Head(s).packet \notin PacketsIn(Tail(s))
<1> DEFINE t == Tail(s)
<1>1. /\ Len(t) = Len(s) - 1 /\ Len(s) \in Nat /\ Len(s) # 0 /\ Head(s) = s[1]
      /\ \A k \in 1 .. Len(t) : t[k] = s[k + 1]
  BY HeadTailProperties, EmptySeq
<1> HIDE DEF t
<1>2. \A k \in 1 .. Len(t) : k + 1 \in 1 .. Len(s) /\ k + 1 # 1 /\ t[k].packet = s[k + 1].packet
  BY <1>1
<1>3. \A k, l \in 1 .. Len(t) : k + 1 = l + 1 => k = l
  BY <1>1
<1>4. Once(t)
  BY <1>2, <1>3 DEF Once
<1>5. PacketsIn(t) \subseteq PacketsIn(s)
  BY <1>2 DEF PacketsIn
<1>6. 1 \in 1 .. Len(s)
  BY <1>1
<1>7. s[1].packet \in PacketsIn(s)
  BY <1>6 DEF PacketsIn
<1>8. s[1].packet \notin PacketsIn(t)
  BY <1>2, <1>6 DEF PacketsIn, Once
<1> QED
  BY <1>1, <1>4, <1>5, <1>7, <1>8 DEF t

LEMMA OnceAppended ==
  ASSUME NEW E, NEW s \in Seq(E), NEW x \in E, Once(s), x.packet \notin PacketsIn(s)
  PROVE  /\ Once(Append(s, x))
         /\ PacketsIn(Append(s, x)) = PacketsIn(s) \cup {x.packet}
<1> DEFINE t == Append(s, x)
<1>1. /\ Len(t) = Len(s) + 1 /\ Len(s) \in Nat /\ t[Len(s) + 1] = x
      /\ \A k \in 1 .. Len(s) : t[k] = s[k]
  BY AppendProperties
<1> HIDE DEF t
<1>2. \A k \in 1 .. Len(t) : k \in 1 .. Len(s) \/ k = Len(s) + 1
  BY <1>1
<1>3. \A k \in 1 .. Len(s) : k \in 1 .. Len(t) /\ t[k].packet = s[k].packet
                              /\ s[k].packet \in PacketsIn(s)
  BY <1>1 DEF PacketsIn
<1>4. Len(s) + 1 \in 1 .. Len(t) /\ t[Len(s) + 1].packet = x.packet
  BY <1>1
<1>5. Once(t)
  BY <1>2, <1>3, <1>4 DEF Once
<1>6. PacketsIn(t) = PacketsIn(s) \cup {x.packet}
  BY <1>2, <1>3, <1>4 DEF PacketsIn
<1> QED
  BY <1>5, <1>6 DEF t

\* Every packet is in one place, and none has a number above hi.
PastOK(done, kept, copied, hi) ==
  /\ Once(done) /\ \A i \in Entries : Once(kept[i])
  /\ \A i, j \in Entries : \A n \in PacketsIn(kept[i]) : n \in PacketsIn(kept[j]) => i = j
  /\ \A i \in Entries : \A n \in PacketsIn(kept[i]) :
       n <= hi /\ n \notin PacketsIn(done) /\ n \notin copied
  /\ \A n \in copied : n <= hi /\ n \notin PacketsIn(done)
  /\ \A n \in PacketsIn(done) : n <= hi

PastTypes(done, kept) == done \in Seq(Handed) /\ kept \in [Entries -> Seq(Packet)]

LEMMA PastNumbers ==
  ASSUME NEW done, NEW kept, PastTypes(done, kept)
  PROVE  /\ PacketsIn(done) \subseteq Nat
         /\ \A i \in Entries : PacketsIn(kept[i]) \subseteq Nat
<1>1. ASSUME NEW k \in 1 .. Len(done)
      PROVE  done[k].packet \in Nat
  <2>1. done[k] \in Handed
    BY DEF PastTypes
  <2> QED
    BY <2>1 DEF Handed
<1>2. ASSUME NEW i \in Entries, NEW k \in 1 .. Len(kept[i])
      PROVE  kept[i][k].packet \in Nat
  <2>1. kept[i] \in Seq(Packet)
    BY DEF PastTypes
  <2>2. kept[i][k] \in Packet
    BY <2>1
  <2> QED
    BY <2>2 DEF Packet
<1> QED
  BY <1>1, <1>2 DEF PacketsIn

\* A newer packet is copied.
LEMMA PastCopies ==
  ASSUME NEW done, NEW kept, PastTypes(done, kept), NEW copied, NEW hi \in Nat, NEW top \in Nat,
         PastOK(done, kept, copied, hi), NEW n \in Nat, hi < n, n <= top
  PROVE  PastOK(done, kept, {n}, top)
<1>1. /\ PacketsIn(done) \subseteq Nat
      /\ \A i \in Entries : PacketsIn(kept[i]) \subseteq Nat
  BY PastNumbers
<1>2. \A m \in Nat : m <= hi => m <= top /\ m # n
  OBVIOUS
<1> QED
  BY <1>1, <1>2 DEF PastOK

\* Nothing is copied, or the copy is given up.
LEMMA PastForgets ==
  ASSUME NEW done, NEW kept, PastTypes(done, kept), NEW copied, NEW fewer, fewer \subseteq copied,
         copied \subseteq Nat, NEW hi \in Nat, NEW top \in Nat, hi <= top,
         PastOK(done, kept, copied, hi)
  PROVE  PastOK(done, kept, fewer, top)
<1>1. /\ PacketsIn(done) \subseteq Nat
      /\ \A i \in Entries : PacketsIn(kept[i]) \subseteq Nat
  BY PastNumbers
<1>2. \A m \in Nat : m <= hi => m <= top
  OBVIOUS
<1> QED
  BY <1>1, <1>2 DEF PastOK

\* The oldest packet of a socket is copied.
LEMMA PastTaken ==
  ASSUME NEW done, NEW kept, PastTypes(done, kept), NEW copied, NEW hi \in Nat,
         PastOK(done, kept, copied, hi), NEW i \in Entries, kept[i] # <<>>,
         NEW fewer, fewer \subseteq {Head(kept[i]).packet}
  PROVE  /\ PastTypes(done, [kept EXCEPT ![i] = Tail(@)])
         /\ PastOK(done, [kept EXCEPT ![i] = Tail(@)], fewer, hi)
         /\ Head(kept[i]).packet \in Nat /\ Head(kept[i]).packet \notin PacketsIn(done)
<1> DEFINE left == [kept EXCEPT ![i] = Tail(@)]
           n == Head(kept[i]).packet
<1>1. kept[i] \in Seq(Packet) /\ Once(kept[i])
  BY DEF PastTypes, PastOK
<1>2. /\ Once(Tail(kept[i])) /\ PacketsIn(Tail(kept[i])) \subseteq PacketsIn(kept[i])
      /\ n \in PacketsIn(kept[i]) /\ n \notin PacketsIn(Tail(kept[i]))
  BY <1>1, OnceTail
<1>3. left[i] = Tail(kept[i]) /\ \A j \in Entries \ {i} : left[j] = kept[j]
  BY DEF PastTypes
<1>4. Tail(kept[i]) \in Seq(Packet)
  BY <1>1, HeadTailProperties
<1>5. PastTypes(done, left)
  BY <1>4 DEF PastTypes
<1>6. n \in Nat
  BY <1>2, PastNumbers
<1> HIDE DEF left, n
<1>7. \A j \in Entries : PacketsIn(left[j]) \subseteq PacketsIn(kept[j]) /\ n \notin PacketsIn(left[j])
  BY <1>2, <1>3 DEF PastOK
<1>8. \A j \in Entries : Once(left[j])
  BY <1>2, <1>3 DEF PastOK
<1>9. PastOK(done, left, fewer, hi)
  BY <1>2, <1>7, <1>8, ZenonT(60) DEF PastOK, n
<1>10. n \notin PacketsIn(done)
  BY <1>2 DEF PastOK
<1> QED
  BY <1>5, <1>6, <1>9, <1>10 DEF left, n

\* A newer packet is kept for a socket.
LEMMA PastKeeps ==
  ASSUME NEW done, NEW kept, PastTypes(done, kept), NEW copied, copied \subseteq Nat,
         NEW hi \in Nat, NEW top \in Nat, PastOK(done, kept, copied, hi),
         NEW i \in Entries, NEW p \in Packet, hi < p.packet, p.packet <= top
  PROVE  /\ PastTypes(done, [kept EXCEPT ![i] = Append(@, p)])
         /\ PastOK(done, [kept EXCEPT ![i] = Append(@, p)], copied, top)
<1> DEFINE more == [kept EXCEPT ![i] = Append(@, p)]
           n == p.packet
<1>1. kept[i] \in Seq(Packet) /\ Once(kept[i]) /\ n \in Nat
  BY DEF PastTypes, PastOK, Packet
<1>2. /\ PacketsIn(done) \subseteq Nat
      /\ \A j \in Entries : PacketsIn(kept[j]) \subseteq Nat
  BY PastNumbers
<1>3. \A m \in Nat : m <= hi => m <= top /\ m # n
  BY <1>1
<1>4. n \notin PacketsIn(done) /\ n \notin copied /\ \A j \in Entries : n \notin PacketsIn(kept[j])
  BY <1>2, <1>3 DEF PastOK
<1>5. /\ Once(Append(kept[i], p))
      /\ PacketsIn(Append(kept[i], p)) = PacketsIn(kept[i]) \cup {n}
  BY <1>1, <1>4, OnceAppended
<1>6. more[i] = Append(kept[i], p) /\ \A j \in Entries \ {i} : more[j] = kept[j]
  BY DEF PastTypes
<1>7. PastTypes(done, more)
  BY <1>1, AppendProperties DEF PastTypes
<1>8. n <= top
  OBVIOUS
<1> HIDE DEF more, n
<1>9. \A j \in Entries : /\ Once(more[j])
                         /\ \A m \in PacketsIn(more[j]) : m \in PacketsIn(kept[j]) \/ (m = n /\ j = i)
  BY <1>5, <1>6 DEF PastOK
<1>10. PastOK(done, more, copied, top)
  <2>1. Once(done) /\ \A j \in Entries : Once(more[j])
    BY <1>9 DEF PastOK
  <2>2. ASSUME NEW j \in Entries, NEW k \in Entries,
               NEW m \in PacketsIn(more[j]), m \in PacketsIn(more[k])
        PROVE  j = k
    BY <1>4, <1>9, <2>2 DEF PastOK
  <2>3. ASSUME NEW j \in Entries, NEW m \in PacketsIn(more[j])
        PROVE  m <= top /\ m \notin PacketsIn(done) /\ m \notin copied
    <3>1. m \in PacketsIn(kept[j]) \/ m = n
      BY <1>9
    <3>2. CASE m \in PacketsIn(kept[j])
      BY <1>2, <1>3, <3>2 DEF PastOK
    <3> QED
      BY <1>4, <1>8, <3>1, <3>2
  <2>4. \A m \in copied : m <= top /\ m \notin PacketsIn(done)
    BY <1>3 DEF PastOK
  <2>5. \A m \in PacketsIn(done) : m <= top
    BY <1>2, <1>3 DEF PastOK
  <2> QED
    BY <2>1, <2>2, <2>3, <2>4, <2>5 DEF PastOK
<1> QED
  BY <1>7, <1>10 DEF more

\* The copied packet is handed out.
LEMMA PastHanded ==
  ASSUME NEW done, NEW kept, PastTypes(done, kept), NEW hi \in Nat,
         NEW x \in Handed, PastOK(done, kept, {x.packet}, hi)
  PROVE  /\ PastTypes(Append(done, x), kept)
         /\ PastOK(Append(done, x), kept, {}, hi)
<1>1. done \in Seq(Handed) /\ Once(done) /\ x.packet \notin PacketsIn(done)
  BY DEF PastTypes, PastOK
<1>2. /\ Once(Append(done, x))
      /\ PacketsIn(Append(done, x)) = PacketsIn(done) \cup {x.packet}
  BY <1>1, OnceAppended
<1>3. PastTypes(Append(done, x), kept)
  BY <1>1, AppendProperties DEF PastTypes
<1> DEFINE more == Append(done, x)
<1> HIDE DEF more
<1>4. Once(more) /\ PacketsIn(more) = PacketsIn(done) \cup {x.packet}
  BY <1>2 DEF more
<1>5. PastOK(more, kept, {}, hi)
  BY <1>4 DEF PastOK
<1> QED
  BY <1>3, <1>5 DEF more

-----------------------------------------------------------------------------
\* The packets on their way to the guests: in the driver's queue, or with
\* task1 in example3_app.

\* How far a slot is from the front of the queue.
Place(s) == IF front <= s THEN s - front ELSE s - front + RX_DESC_DEF
QueueInOrder ==
  \A s, t \in Slots :
    Full(s) /\ Full(t) /\ Place(s) < Place(t) => cqbuff[s].packet < cqbuff[t].packet
FoundFirst ==
  task1.pc = "found" => \A s \in Slots : Full(s) => task1.packet.packet < cqbuff[s].packet

\* All packets on their way, and all that have not arrived, are newer.
Newer(n) ==
  /\ n <= Len(arrived)
  /\ task1.pc = "found" => n < task1.packet.packet
  /\ \A s \in Slots : Full(s) => n < cqbuff[s].packet

LEMMA FullNumbers ==
  ASSUME IInv, NEW s \in Slots, Full(s)
  PROVE  cqbuff[s].packet \in Nat /\ cqbuff[s].packet <= Len(arrived)
<1>1. Came(cqbuff[s], arrived)
  BY DEF IInv, QueueOK
<1>2. Len(arrived) \in Nat
  BY DEF IInv, TypeOK
<1> QED
  BY <1>1, <1>2 DEF Came

LEMMA PollInOrder ==
  ASSUME IInv, QueueInOrder, NEW f, rhine_receive_frame(f), f.packet = Len(arrived) + 1
  PROVE  /\ QueueInOrder'
         /\ \A s \in Slots : Full(s)' => \/ Full(s) /\ cqbuff'[s] = cqbuff[s]
                                         \/ cqbuff'[s].packet = Len(arrived) + 1
<1>1. /\ front \in Slots /\ rear \in Slots /\ cqbuff \in [Slots -> FrameOrBlank]
      /\ front' = front /\ Len(arrived) \in Nat
  BY DEF IInv, TypeOK, rhine_receive_frame
<1>2. CASE UNCHANGED <<rear, cqbuff, recv_lengths>>
  BY <1>1, <1>2 DEF QueueInOrder, Full, Place
<1>3. CASE /\ ~isfull(rear)
           /\ cqbuff' = [cqbuff EXCEPT ![rear] = f]
           /\ rear' = After(rear)
  <2>1. /\ After(rear) \in Slots /\ After(rear) # front
        /\ After(rear) = IF rear = RX_DESC_DEF - 1 THEN 0 ELSE rear + 1
    BY <1>1, <1>3, SlotBehind DEF isfull
  <2>2. ASSUME NEW s \in Slots, Full(s)'
        PROVE  \/ s # rear /\ Full(s) /\ cqbuff'[s] = cqbuff[s] /\ Place(s) < Place(rear)
               \/ s = rear /\ cqbuff'[s].packet = Len(arrived) + 1
    <3>1. IF front <= rear' THEN front <= s /\ s < rear' ELSE front <= s \/ s < rear'
      BY <1>1, <2>2 DEF Full
    <3>2. s = rear \/ (Full(s) /\ Place(s) < Place(rear))
      BY <1>1, <1>3, <2>1, <3>1, NicAssumption DEF Full, Slots, Place
    <3> QED
      BY <1>1, <1>3, <3>2
  <2>3. \A s \in Slots : Place(s)' = Place(s) /\ Place(s) \in Int
    BY <1>1, NicAssumption DEF Place, Slots
  <2>4. ASSUME NEW s \in Slots, NEW t \in Slots, Full(s)', Full(t)', Place(s) < Place(t)
        PROVE  cqbuff'[s].packet < cqbuff'[t].packet
    <3>1. s # rear \/ t # rear
      BY <1>1, <2>3, <2>4
    <3>2. CASE s # rear /\ t # rear
      BY <2>2, <2>4, <3>2 DEF QueueInOrder
    <3>3. CASE s # rear /\ t = rear
      <4>1. Full(s) /\ cqbuff'[s] = cqbuff[s] /\ cqbuff'[t].packet = Len(arrived) + 1
        BY <2>2, <2>4, <3>3
      <4>2. cqbuff[s].packet \in Nat /\ cqbuff[s].packet <= Len(arrived)
        BY <4>1, FullNumbers
      <4> QED
        BY <1>1, <4>1, <4>2
    <3>4. CASE s = rear /\ t # rear
      <4>1. Place(t) < Place(rear)
        BY <2>2, <2>4, <3>4
      <4> QED
        BY <1>1, <2>3, <2>4, <3>4, <4>1
    <3> QED
      BY <3>1, <3>2, <3>3, <3>4
  <2>5. QueueInOrder'
    BY <2>3, <2>4 DEF QueueInOrder
  <2> QED
    BY <2>2, <2>5
<1> QED
  BY <1>2, <1>3 DEF rhine_receive_frame

LEMMA TakenInOrder ==
  ASSUME IInv, QueueInOrder, rhine_receive
  PROVE  /\ QueueInOrder'
         /\ Full(front) /\ front \in Slots /\ frame = cqbuff[front]
         /\ \A s \in Slots : Full(s)' => /\ Full(s) /\ cqbuff'[s] = cqbuff[s]
                                         /\ frame.packet < cqbuff'[s].packet
<1>1. /\ front \in Slots /\ rear \in Slots /\ front # rear
      /\ cqbuff \in [Slots -> FrameOrBlank]
      /\ cqbuff' = [cqbuff EXCEPT ![front] = Blank]
      /\ front' = After(front) /\ rear' = rear
  BY DEF IInv, TypeOK, rhine_receive, isempty
<1>2. /\ After(front) \in Slots
      /\ After(front) = IF front = RX_DESC_DEF - 1 THEN 0 ELSE front + 1
  BY <1>1, SlotBehind
<1>3. Full(front) /\ Place(front) = 0
  BY <1>1, NicAssumption DEF Full, Slots, Place
<1>4. ASSUME NEW s \in Slots, Full(s)'
      PROVE  Full(s) /\ s # front /\ Place(s)' = Place(s) - 1 /\ 0 < Place(s) /\ Place(s) \in Int
  <2>1. IF front' <= rear THEN front' <= s /\ s < rear ELSE front' <= s \/ s < rear
    BY <1>1, <1>4 DEF Full
  <2>2. Full(s) /\ s # front
    BY <1>1, <1>2, <2>1, NicAssumption DEF Full, Slots
  <2> QED
    BY <1>1, <1>2, <2>1, <2>2, NicAssumption DEF Slots, Place
<1>5. ASSUME NEW s \in Slots, Full(s)'
      PROVE  cqbuff'[s] = cqbuff[s] /\ cqbuff[front].packet < cqbuff[s].packet
  <2>1. cqbuff'[s] = cqbuff[s]
    BY <1>1, <1>4, <1>5
  <2>2. cqbuff[front].packet < cqbuff[s].packet
    BY <1>1, <1>3, <1>4, <1>5 DEF QueueInOrder
  <2> QED
    BY <2>1, <2>2
<1>6. ASSUME NEW s \in Slots, NEW t \in Slots, Full(s)', Full(t)', Place(s)' < Place(t)'
      PROVE  cqbuff'[s].packet < cqbuff'[t].packet
  <2>1. Full(s) /\ Full(t) /\ Place(s) < Place(t)
    BY <1>4, <1>6
  <2>2. cqbuff[s].packet < cqbuff[t].packet
    BY <2>1 DEF QueueInOrder
  <2> QED
    BY <1>5, <1>6, <2>2
<1>7. QueueInOrder'
  BY <1>6 DEF QueueInOrder
<1> QED
  BY <1>1, <1>3, <1>4, <1>5, <1>7 DEF frame, NextFrame

\* Where a packet that is sent to a guest comes from: the slot of a server, or
\* the slot c points to.
FromServer(g, f, sockid) ==
  /\ ListensOn(f.port) # {} /\ sockid = 0
  /\ listenports[FirstOf(ListensOn(f.port))].gos_id = g
FromClient(g, f, sockid) ==
  /\ task1.pc = "found" /\ f = task1.packet
  /\ c \in ClientSlots /\ clientports[c].gos_id = g /\ clientports[c].sock_id = sockid

PacketSent(g, f, sockid) ==
  /\ Came(f, arrived) /\ sockid \in Nat
  /\ f.port \in SocketsOf(g) \/ sockid \in SocketsOf(g)
  /\ FromServer(g, f, sockid) \/ FromClient(g, f, sockid)
  /\ SendsTo(g, f.port, f.length, sockid, f.packet)
  /\ Newer(f.packet)'
  /\ \A n \in Nat : Newer(n) => n < f.packet

PacketMoves ==
  /\ QueueInOrder' /\ FoundFirst'
  /\ \A n \in Nat : Newer(n) => Newer(n)'
  /\ recv' = recv \/ \E g \in Gos, sockid \in Nat : \E f : PacketSent(g, f, sockid)

LEMMA Task2Moves ==
  ASSUME QueueInOrder, FoundFirst, Task2
  PROVE  PacketMoves
BY DEF Task2, nic, PacketMoves, QueueInOrder, FoundFirst, Newer, Full, Place

LEMMA PollMoves ==
  ASSUME IInv, QueueInOrder, NEW port \in ArrivesFor, NEW length, Poll(port, length)
  PROVE  PacketMoves
<1> DEFINE f == [port |-> port, packet |-> Len(arrived'), length |-> length]
<1>1. /\ arrived' = Append(arrived, port) /\ rhine_receive_frame(f)
      /\ recv' = recv /\ task1' = task1 /\ task1.pc # "found"
  BY DEF Poll, Between
<1>2. Len(arrived') = Len(arrived) + 1 /\ Len(arrived) \in Nat
  BY <1>1, AppendProperties DEF IInv, TypeOK
<1>3. f.packet = Len(arrived) + 1
  BY <1>2
<1> HIDE DEF f
<1>4. /\ QueueInOrder'
      /\ \A s \in Slots : Full(s)' => \/ Full(s) /\ cqbuff'[s] = cqbuff[s]
                                      \/ cqbuff'[s].packet = Len(arrived) + 1
  BY <1>1, <1>3, PollInOrder
<1>5. ASSUME NEW n \in Nat, Newer(n)
      PROVE  Newer(n)'
  <2>1. n <= Len(arrived) /\ n < Len(arrived) + 1
    BY <1>2, <1>5 DEF Newer
  <2>2. \A s \in Slots : Full(s)' => n < cqbuff'[s].packet
    BY <1>4, <1>5, <2>1 DEF Newer
  <2> QED
    BY <1>1, <1>2, <2>1, <2>2 DEF Newer
<1>6. FoundFirst'
  BY <1>1 DEF FoundFirst
<1> QED
  BY <1>1, <1>4, <1>5, <1>6 DEF PacketMoves

LEMMA InputMoves ==
  ASSUME IInv, FramesOK, RoundsOK, QueueInOrder, Between, Input, UNCHANGED <<arrived, app>>
  PROVE  PacketMoves
<1>1. rhine_receive /\ ~isempty /\ task1.pc # "found"
  BY DEF Input, InputDropped, InputListen, InputClient, rhine_receive, Between
<1>2. /\ QueueInOrder'
      /\ Full(front) /\ front \in Slots /\ frame = cqbuff[front]
      /\ \A s \in Slots : Full(s)' => /\ Full(s) /\ cqbuff'[s] = cqbuff[s]
                                      /\ frame.packet < cqbuff'[s].packet
  BY <1>1, TakenInOrder
<1>3. Came(frame, arrived)
  BY <1>1, FrameAtFront DEF frame
<1>4. frame.packet <= Len(arrived)
  <2>1. Len(arrived) \in Nat
    BY DEF IInv, TypeOK
  <2> QED
    BY <1>3, <2>1 DEF Came
<1>5. \A n \in Nat : Newer(n) => n < frame.packet
  BY <1>2 DEF Newer
<1>6. task1'.pc = "found" => task1'.packet = frame
  BY <1>1 DEF Input, InputDropped, InputListen, InputClient
<1>7. \A n \in Nat : Newer(n) => Newer(n)'
  BY <1>2, <1>5, <1>6 DEF Newer
<1>8. FoundFirst'
  BY <1>2, <1>6 DEF FoundFirst
<1>9. CASE recv' = recv
  BY <1>2, <1>7, <1>8, <1>9 DEF PacketMoves
<1>10. CASE recv' # recv
  <2> DEFINE s == FirstOf(ListensOn(frame.port))
  <2>1. PICK g, f : g = listenports[s].gos_id /\ f = frame
    OBVIOUS
  <2>2. /\ ListensOn(f.port) # {} /\ g \in Gos /\ task1' = task1
        /\ SendsTo(g, f.port, f.length, 0, f.packet)
    BY <1>10, <2>1 DEF Input, InputDropped, InputListen, InputClient
  <2>3. s \in ListenSlots /\ listenports[s].port = f.port
    <3>1. ListensOn(f.port) \in SUBSET Nat
      BY DEF ListensOn, ListenSlots
    <3>2. s \in ListensOn(f.port)
      BY <2>1, <2>2, <3>1, FirstOfSet
    <3> QED
      BY <3>2 DEF ListensOn
  <2>4. f.port \in SocketsOf(g)
    <3>1. listenports[s].sock_id \in SocketsOf(g) /\ listenports[s].sock_id = listenports[s].port
      BY <2>1, <2>2, <2>3 DEF FramesOK, SlotKnown, RoundsOK, ServersOK
    <3> QED
      BY <2>3, <3>1
  <2>5. Newer(f.packet)'
    BY <1>1, <1>2, <1>4, <2>1, <2>2 DEF Newer
  <2>6. PacketSent(g, f, 0)
    BY <1>3, <1>5, <2>1, <2>2, <2>4, <2>5 DEF PacketSent, FromServer
  <2> QED
    BY <1>2, <1>7, <1>8, <2>2, <2>6 DEF PacketMoves
<1> QED
  BY <1>9, <1>10

LEMMA FoundMoves ==
  ASSUME IInv, FramesOK, QueueInOrder, FoundFirst, Task1Found, UNCHANGED <<arrived, app>>
  PROVE  PacketMoves
<1>1. PICK g, f, sockid : /\ g = clientports[c].gos_id /\ f = task1.packet
                          /\ sockid = clientports[c].sock_id
  OBVIOUS
<1>2. /\ c \in ClientSlots /\ g \in Gos /\ task1.pc = "found" /\ task1'.pc = "wait"
      /\ SendsTo(g, f.port, f.length, sockid, f.packet)
      /\ UNCHANGED <<front, rear, cqbuff>>
  BY <1>1 DEF Task1Found, nic
<1>3. Came(f, arrived) /\ sockid \in Nat /\ Len(arrived) \in Nat
  BY <1>1, <1>2 DEF IInv, TypeOK, FoundOK, UipSlot
<1>4. sockid \in SocketsOf(g)
  BY <1>1, <1>2 DEF FramesOK, SlotKnown
<1>5. \A s, t \in Slots : Full(s)' = Full(s) /\ Place(s)' = Place(s) /\ cqbuff'[s] = cqbuff[s]
  BY <1>2 DEF Full, Place
<1>6. QueueInOrder' /\ FoundFirst'
  BY <1>2, <1>5 DEF QueueInOrder, FoundFirst
<1>7. \A n \in Nat : Newer(n) => n < f.packet /\ Newer(n)'
  BY <1>1, <1>2, <1>5 DEF Newer
<1>8. f.packet <= Len(arrived)
  BY <1>3 DEF Came
<1>9. Newer(f.packet)'
  BY <1>1, <1>2, <1>5, <1>8 DEF FoundFirst, Newer
<1>10. PacketSent(g, f, sockid)
  BY <1>1, <1>2, <1>3, <1>4, <1>7, <1>9 DEF PacketSent, FromClient
<1> QED
  BY <1>2, <1>3, <1>6, <1>7, <1>10 DEF PacketMoves

LEMMA PartitionMoves ==
  ASSUME IInv, FramesOK, RoundsOK, QueueInOrder, FoundFirst, Partition
  PROVE  PacketMoves
<1>1. CASE Task2
  BY <1>1, Task2Moves
<1>2. CASE Task1
  <2>1. CASE \E port \in ArrivesFor, length \in Lengths : Poll(port, length)
    BY <2>1, PollMoves
  <2>2. CASE Between /\ Input /\ UNCHANGED arrived
    BY <2>2, InputMoves DEF Partition
  <2>3. CASE task2 = Waits /\ Task1Found /\ UNCHANGED arrived
    BY <2>3, FoundMoves DEF Partition
  <2> QED
    BY <1>2, <2>1, <2>2, <2>3 DEF Task1
<1> QED
  BY <1>1, <1>2 DEF Partition

-----------------------------------------------------------------------------
\* The order a guest sees its packets in.  All it is done with or keeps came
\* before the words in the hands of its receive, those before the words that
\* wait in the channel, and those before the packets still on their way.

KeptIn(entries) == [i \in Entries |-> entries[i].kept]
CopiedBy(g) == IF receiving[g].buffer_bytes # 0 THEN {receiving[g].buffer} ELSE {}

Past(g, hi) ==
  /\ PastTypes(handed[g], KeptIn(active_ports[g]))
  /\ PastOK(handed[g], KeptIn(active_ports[g]), CopiedBy(g), hi)
Trails(g, lo, mid, last) ==
  /\ Trail(InHand(g), Messages(SocketsOf(g)), lo, mid)
  /\ Trail(Waiting(g), Messages(SocketsOf(g)), mid, last)

Passage(g) == \E lo, mid, last \in Nat : Past(g, lo) /\ Trails(g, lo, mid, last) /\ Newer(last)
PassageOK ==
  /\ handed \in [Gos -> Seq(Handed)]
  /\ QueueInOrder /\ FoundFirst
  /\ \A g \in Gos : Passage(g)

\* One queue of a guest's changes.
LEMMA KeptChanged ==
  ASSUME NEW a \in [Gos -> [Entries -> Entry]], NEW b \in [Gos -> [Entries -> Entry]],
         NEW g \in Gos, NEW i \in Entries, NEW kept,
         b = [a EXCEPT ![g][i].kept = kept]
  PROVE  /\ \A h \in Gos \ {g} : b[h] = a[h]
         /\ \A j \in Entries \ {i} : b[g][j] = a[g][j]
         /\ b[g][i].kept = kept
<1>1. [a[g][i] EXCEPT !.kept = kept].kept = kept
  BY DEF Entry
<1> QED
  BY <1>1

\* A guest whose words, sockets and packets stay as they are.
LEMMA PassageStays ==
  ASSUME NEW g \in Gos, Passage(g), UNCHANGED <<recv[g], receiving[g], active_ports[g], handed[g]>>,
         \A n \in Nat : Newer(n) => Newer(n)'
  PROVE  Passage(g)'
<1>1. InHand(g)' = InHand(g) /\ Waiting(g)' = Waiting(g)
  BY WordsStay
<1>2. SocketsOf(g)' = SocketsOf(g) /\ CopiedBy(g)' = CopiedBy(g)
  BY DEF SocketsOf, CopiedBy
<1>3. \A lo \in Nat : Past(g, lo) => Past(g, lo)'
  BY <1>2 DEF Past
<1>4. \A lo, mid, last \in Nat : Trails(g, lo, mid, last) => Trails(g, lo, mid, last)'
  BY <1>1, <1>2 DEF Trails
<1> QED
  BY <1>3, <1>4 DEF Passage

\* A guest that gets a packet, behind all that came for it.
LEMMA PassageGrows ==
  ASSUME IInv, NEW g \in Gos, Passage(g), UNCHANGED app,
         NEW sockid \in Nat, NEW f, PacketSent(g, f, sockid)
  PROVE  Passage(g)'
<1>1. PICK lo, mid, last \in Nat : Past(g, lo) /\ Trails(g, lo, mid, last) /\ Newer(last)
  BY DEF Passage
<1>2. PICK port \in Nat, length \in Nat, number \in Nat :
        port = f.port /\ length = f.length /\ number = f.packet
  BY ServerAssumption DEF PacketSent, Came
<1>3. /\ length \in Lengths /\ length \in Nat \ {0}
      /\ port \in SocketsOf(g) \/ sockid \in SocketsOf(g)
      /\ SendsTo(g, port, length, sockid, number) /\ Newer(number)' /\ last < number
  BY <1>1, <1>2, ServerAssumption DEF PacketSent, Came
<1> DEFINE m == Message(port, length, sockid, number)
           M == Messages(SocketsOf(g))
           w == Waiting(g)
<1>4. Says(m, port, length, sockid, number)
  BY <1>3, MessageWords
<1> HIDE DEF m
<1>5. m \in M
  BY <1>3, <1>4 DEF Messages, Says
<1>6. InHand(g)' = InHand(g) /\ Waiting(g)' = w \o m
  <2>1. m \in Seq(Word) /\ receiving' = receiving
    BY <1>4 DEF app, Says
  <2> QED
    BY <1>3, <2>1, WordsSent DEF m
<1>7. SocketsOf(g)' = SocketsOf(g) /\ Past(g, lo)'
  BY <1>1 DEF app, SocketsOf, Past, CopiedBy
<1>8. w \in Seq(Word) /\ Trail(w, M, mid, last)
  BY <1>1, HandTyped DEF Trails
<1> HIDE DEF M, w
<1>9. Trail(w \o m, M, mid, number)
  BY <1>3, <1>4, <1>5, <1>8, TrailAppended DEF Says
<1>10. Trails(g, lo, mid, number)'
  BY <1>1, <1>6, <1>7, <1>9 DEF Trails, M
<1> QED
  BY <1>3, <1>7, <1>10 DEF Passage

LEMMA PartitionPassage ==
  ASSUME IInv, FramesOK, RoundsOK, PassageOK, Partition
  PROVE  PassageOK'
<1>1. PacketMoves /\ UNCHANGED app
  BY PartitionMoves DEF PassageOK, Partition
<1>2. ASSUME NEW g \in Gos
      PROVE  Passage(g)'
  <2>1. UNCHANGED <<receiving[g], active_ports[g], handed[g]>>
    BY <1>1 DEF app
  <2>2. CASE recv'[g] = recv[g]
    BY <1>1, <2>1, <2>2, PassageStays DEF PassageOK, PacketMoves
  <2>3. CASE recv'[g] # recv[g]
    <3>1. PICK h \in Gos, sockid \in Nat : \E f : PacketSent(h, f, sockid)
      BY <1>1, <2>3 DEF PacketMoves
    <3>2. h = g
      BY <2>3, <3>1 DEF PacketSent, SendsTo, IInv, TypeOK
    <3> QED
      BY <1>1, <3>1, <3>2, PassageGrows DEF PassageOK
  <2> QED
    BY <2>2, <2>3
<1> QED
  BY <1>1, <1>2 DEF PassageOK, PacketMoves, app

\* The calls that open a socket, and those that send: no word and no packet
\* moves.
LEMMA OpensPassage ==
  ASSUME IInv, NEW g \in Gos, Passage(g), NEW sockid \in Nat \ {0}, Opens(g, sockid),
         active_ports' \in [Gos -> [Entries -> Entry]],
         UNCHANGED <<recv[g], receiving[g], handed[g]>>, \A n \in Nat : Newer(n) => Newer(n)'
  PROVE  Passage(g)'
<1>1. PICK lo, mid, last \in Nat : Past(g, lo) /\ Trails(g, lo, mid, last) /\ Newer(last)
  BY DEF Passage
<1>2. PICK i \in Entries : active_ports' = [active_ports EXCEPT ![g][i] =
                                              [sock_id |-> sockid, kept |-> <<>>]]
  <2>1. FreeEntries(g) \in SUBSET Nat /\ FreeEntries(g) # {}
    BY DEF Opens, FreeEntries, Entries
  <2>2. NewEntry(g) = FirstOf(FreeEntries(g))
    BY DEF NewEntry, FirstOf
  <2>3. NewEntry(g) \in Entries
    BY <2>1, <2>2, FirstOfSet DEF FreeEntries
  <2> QED
    BY <2>3 DEF Opens
<1> DEFINE kept == KeptIn(active_ports[g])
           more == KeptIn(active_ports'[g])
<1>3. /\ active_ports \in [Gos -> [Entries -> Entry]]
      /\ active_ports'[g][i].kept = <<>>
      /\ \A j \in Entries \ {i} : active_ports'[g][j] = active_ports[g][j]
  BY <1>2 DEF IInv, TypeOK
<1>4. \A j \in Entries : PacketsIn(more[j]) \subseteq PacketsIn(kept[j]) /\ (Once(kept[j]) => Once(more[j]))
  BY <1>3, EmptySeq DEF KeptIn, PacketsIn, Once
<1>5. more \in [Entries -> Seq(Packet)]
  BY DEF KeptIn, Entry
<1>6. Past(g, lo)'
  <2>1. CopiedBy(g)' = CopiedBy(g)
    BY DEF CopiedBy
  <2> HIDE DEF kept, more
  <2>2. PastOK(handed[g], more, CopiedBy(g), lo) /\ PastTypes(handed[g], more)
    BY <1>1, <1>4, <1>5 DEF Past, PastOK, PastTypes, kept
  <2> QED
    BY <2>1, <2>2 DEF Past, more
<1>7. Trails(g, lo, mid, last)'
  <2>1. InHand(g)' = InHand(g) /\ Waiting(g)' = Waiting(g)
    BY WordsStay
  <2>2. Messages(SocketsOf(g)) \subseteq Messages(SocketsOf(g)')
    BY SocketAdded, MoreMessages
  <2> QED
    BY <1>1, <2>1, <2>2, TrailMore DEF Trails
<1> QED
  BY <1>1, <1>6, <1>7 DEF Passage

\* What a receive leaves alone.
LEMMA WordsMoved ==
  ASSUME NEW g \in Gos, NEW lo \in Nat, NEW mid \in Nat, NEW last \in Nat,
         SocketsOf(g)' = SocketsOf(g), Past(g, lo)', Newer(last)',
         Trail(InHand(g)', Messages(SocketsOf(g)), lo, mid),
         Trail(Waiting(g)', Messages(SocketsOf(g)), mid, last)
  PROVE  Passage(g)'
BY DEF Passage, Trails

LEMMA KeptPassage ==
  ASSUME IInv, NEW g \in Gos, Passage(g), handed \in [Gos -> Seq(Handed)],
         NEW i \in Entries, RecvKept(g, i), \A n \in Nat : Newer(n) => Newer(n)'
  PROVE  Passage(g)'
<1>1. PICK lo, mid, last \in Nat : Past(g, lo) /\ Trails(g, lo, mid, last) /\ Newer(last)
  BY DEF Passage
<1> DEFINE kept == KeptIn(active_ports[g])
           left == [kept EXCEPT ![i] = Tail(@)]
           x == [sockid |-> active_ports[g][i].sock_id, packet |-> Head(Kept(g, i)).packet]
<1>2. /\ active_ports \in [Gos -> [Entries -> Entry]] /\ receiving \in [Gos -> Receive]
      /\ active_ports' = [active_ports EXCEPT ![g][i].kept = Tail(active_ports[g][i].kept)]
      /\ recv' = recv /\ receiving[g].pc = "app" /\ receiving' = [receiving EXCEPT ![g] = Idle]
  BY DEF IInv, TypeOK, ReceivesOK, RecvKept, Hands, Step, KeptAfter, channels
<1>3. kept[i] = active_ports[g][i].kept /\ kept[i] = Kept(g, i) /\ kept[i] # <<>>
  BY DEF KeptIn, Kept, RecvKept
<1>4. Tail(kept[i]) \in Seq(Packet)
  <2>1. kept[i] \in Seq(Packet)
    BY <1>2, <1>3 DEF Entry
  <2> QED
    BY <1>3, <2>1, HeadTailProperties
<1>5. KeptIn(active_ports'[g]) = left
  <2>1. Tail(active_ports[g][i].kept) \in Seq(Packet)
    BY <1>3, <1>4
  <2>2. active_ports' \in [Gos -> [Entries -> Entry]]
    BY <1>2, <2>1, KeptTyped
  <2>3. /\ active_ports'[g][i].kept = Tail(active_ports[g][i].kept)
        /\ \A j \in Entries \ {i} : active_ports'[g][j] = active_ports[g][j]
    BY <1>2, <2>1, <2>2, KeptChanged
  <2> QED
    BY <1>3, <2>3 DEF KeptIn
<1>6. SocketsOf(g)' = SocketsOf(g)
  <2>1. active_ports' \in [Gos -> [Entries -> Entry]]
    BY <1>2, <1>3, <1>4, KeptTyped
  <2> QED
    BY <1>2, <2>1, SocketsSame DEF SocketsOf
<1>7. receiving'[g].pc = "app" /\ CopiedBy(g)' = {}
  BY <1>2 DEF CopiedBy, Idle
<1> HIDE DEF kept
<1>8. /\ PastTypes(handed[g], left) /\ PastOK(handed[g], left, {Head(kept[i]).packet}, lo)
      /\ Head(kept[i]).packet \in Nat
  BY <1>1, <1>3, PastTaken DEF Past, kept
<1>9. x \in Handed /\ x.packet = Head(kept[i]).packet
  <2>1. active_ports[g][i].sock_id \in Nat
    BY <1>2 DEF Entry
  <2> QED
    BY <1>3, <1>8, <2>1 DEF Handed
<1>10. handed'[g] = handed[g] \/ handed'[g] = Append(handed[g], x)
  BY DEF RecvKept, Hands
<1> HIDE DEF x, left
<1>11. PastTypes(handed'[g], left) /\ PastOK(handed'[g], left, {}, lo)
  <2>1. CASE handed'[g] = handed[g]
    <3>1. {} \subseteq {Head(kept[i]).packet} /\ {Head(kept[i]).packet} \subseteq Nat
      BY <1>8
    <3> QED
      BY <1>8, <2>1, <3>1, PastForgets
  <2>2. CASE handed'[g] = Append(handed[g], x)
    BY <1>8, <1>9, <2>2, PastHanded
  <2> QED
    BY <1>10, <2>1, <2>2
<1>12. Past(g, lo)'
  BY <1>5, <1>7, <1>11 DEF Past
<1>13. InHand(g)' = InHand(g) /\ Waiting(g)' = Waiting(g)
  BY <1>2, <1>7, WordsStay
<1> QED
  BY <1>1, <1>6, <1>12, <1>13, WordsMoved DEF Trails

\* A receive that takes words, or counts them.
LEMMA CopyForgotten ==
  ASSUME IInv, NEW g \in Gos, NEW lo \in Nat, Past(g, lo),
         UNCHANGED <<active_ports[g], handed[g]>>,
         \/ receiving'[g].buffer_bytes = 0
         \/ receiving'[g].buffer_bytes = receiving[g].buffer_bytes /\ receiving'[g].buffer = receiving[g].buffer
  PROVE  Past(g, lo)'
<1>1. CopiedBy(g)' \subseteq CopiedBy(g) /\ CopiedBy(g) \subseteq Nat
  <2>1. receiving[g].buffer \in Nat
    BY DEF IInv, ReceivesOK, Receive
  <2> QED
    BY <2>1 DEF CopiedBy
<1> DEFINE fewer == CopiedBy(g)'
           kept == KeptIn(active_ports[g])
<1> HIDE DEF fewer, kept
<1>2. PastTypes(handed[g], kept) /\ PastOK(handed[g], kept, CopiedBy(g), lo)
  BY DEF Past, kept
<1>3. PastOK(handed[g], kept, fewer, lo)
  BY <1>1, <1>2, PastForgets DEF fewer
<1> QED
  BY <1>2, <1>3 DEF Past, fewer, kept

\* Words with growing numbers, taken up to the end of a message.
LEMMA TrailAtEnd ==
  ASSUME NEW K, NEW w \in Seq(Word), NEW lo \in Nat, NEW hi, Trail(w, Messages(K), lo, hi),
         NEW n \in 0 .. Len(w), EndsMessage(w, n)
  PROVE  \E mid \in Nat : /\ Trail(SubSeq(w, 1, n), Messages(K), lo, mid)
                          /\ Trail(Drop(w, n), Messages(K), mid, hi)
<1> DEFINE M == Messages(K)
           Halves(b, mid) == Trail(SubSeq(w, 1, b), M, lo, mid) /\ Trail(Drop(w, b), M, mid, hi)
           B == {b \in 0 .. Len(w) : \E mid \in Nat : Halves(b, mid)}
<1>1. B \in SUBSET (0 .. Len(w)) /\ Len(w) \in Nat
  OBVIOUS
<1>2. 0 \in B
  <2>1. SubSeq(w, 1, 0) = <<>> /\ Drop(w, 0) = w
    BY NothingDropped
  <2>2. Halves(0, lo)
    BY <2>1, NoTrail
  <2> HIDE DEF Halves
  <2> QED
    BY <1>1, <2>2
<1>3. ASSUME NEW b \in B, Drop(w, b) # <<>>
      PROVE  \E e \in 1 .. Len(Drop(w, b)) :
               SubSeq(Drop(w, b), 1, e) \in Messages(K) /\ b + e \in B
  <2> DEFINE v == Drop(w, b)
             x == SubSeq(w, 1, b)
  <2>1. b \in 0 .. Len(w) /\ v # <<>>
    BY <1>3
  <2>2. PICK mid \in Nat : Trail(x, M, lo, mid) /\ Trail(v, M, mid, hi)
    BY <1>3
  <2>3. v \in Seq(Word) /\ Len(v) = Len(w) - b /\ x \in Seq(Word)
    BY <2>1, WordsLeft, PartAtFront
  <2> HIDE DEF v, B
  <2>4. PICK e \in 1 .. Len(v), top \in Nat :
          SubSeq(v, 1, e) \in Numbered(M, mid, top) /\ Trail(Drop(v, e), M, top, hi)
    BY <2>1, <2>2, <2>3, TrailFirst
  <2> DEFINE m == SubSeq(v, 1, e)
  <2>5. m \in M /\ mid < m[5] /\ m[5] <= top
    BY <2>4 DEF Numbered
  <2>6. m \in Seq(Word) /\ 0 < Len(m)
    BY <2>3, <2>5, HeadMessage
  <2>7. Trail(x \o m, M, lo, top)
    <3> HIDE DEF m, M, x
    <3> QED
      BY <2>2, <2>3, <2>5, <2>6, TrailAppended
  <2>8. b + e \in 0 .. Len(w) /\ x \o m = SubSeq(w, 1, b + e) /\ Drop(v, e) = Drop(w, b + e)
    <3>1. e \in 0 .. Len(w) - b
      BY <1>1, <2>1, <2>3
    <3> QED
      BY <2>1, <3>1, WordsAgain DEF v
  <2>9. Halves(b + e, top)
    BY <2>4, <2>7, <2>8
  <2>10. b + e \in B
    <3> HIDE DEF Halves
    <3> QED
      BY <2>8, <2>9 DEF B
  <2> QED
    BY <2>5, <2>10 DEF v
<1> HIDE DEF B
<1>4. n \in B
  BY <1>1, <1>2, <1>3, EndsAtCuts
<1> QED
  BY <1>4 DEF B

LEMMA FirstPassage ==
  ASSUME IInv, RoundsOK, NEW g \in Gos, g \notin cut', Passage(g), NEW i \in Entries,
         NEW size \in RecvSizes[g], RecvFirst(g, i, size), \A n \in Nat : Newer(n) => Newer(n)'
  PROVE  Passage(g)'
<1>1. PICK lo, mid, last \in Nat : Past(g, lo) /\ Trails(g, lo, mid, last) /\ Newer(last)
  BY DEF Passage
<1> DEFINE w == Waiting(g)
           M == Messages(SocketsOf(g))
<1>2. UNCHANGED <<active_ports, handed>>
  BY DEF RecvFirst
<1>3. /\ InHand(g) = <<>> /\ w # <<>> /\ receiving'[g].buffer_bytes = 0
      /\ \/ InHand(g)' = w /\ Waiting(g)' = <<>>
         \/ \E n \in 0 .. Len(w) : /\ EndsMessage(w, n)
                                  /\ InHand(g)' = SubSeq(w, 1, n) /\ Waiting(g)' = Drop(w, n)
  BY WordsTaken
<1>4. SocketsOf(g)' = SocketsOf(g) /\ Past(g, lo)' /\ Newer(last)'
  BY <1>1, <1>2, <1>3, CopyForgotten DEF SocketsOf
<1>5. w \in Seq(Word)
  BY HandTyped
<1>6. lo = mid /\ Trail(w, M, lo, last)
  <2>1. Trail(<<>>, M, lo, mid)
    BY <1>1, <1>3 DEF Trails
  <2>2. lo = mid
    BY <2>1, NoTrail
  <2> QED
    BY <1>1, <2>2 DEF Trails
<1>7. CASE InHand(g)' = w /\ Waiting(g)' = <<>>
  <2>1. Trail(<<>>, M, last, last)
    BY NoTrail
  <2> QED
    BY <1>1, <1>3, <1>4, <1>6, <1>7, <2>1, WordsMoved
<1>8. ASSUME NEW n \in 0 .. Len(w), EndsMessage(w, n),
             InHand(g)' = SubSeq(w, 1, n), Waiting(g)' = Drop(w, n)
      PROVE  Passage(g)'
  <2> HIDE DEF w
  <2>1. PICK first \in Nat : Trail(SubSeq(w, 1, n), M, lo, first) /\ Trail(Drop(w, n), M, first, last)
    BY <1>5, <1>6, <1>8, TrailAtEnd
  <2> QED
    BY <1>1, <1>3, <1>4, <1>8, <2>1, WordsMoved
<1> QED
  BY <1>3, <1>7, <1>8

LEMMA AgainPassage ==
  ASSUME IInv, NEW g \in Gos, Passage(g), RecvAgain(g), \A n \in Nat : Newer(n) => Newer(n)'
  PROVE  Passage(g)'
<1>1. PICK lo, mid, last \in Nat : Past(g, lo) /\ Trails(g, lo, mid, last) /\ Newer(last)
  BY DEF Passage
<1>2. UNCHANGED <<active_ports, handed>>
  BY DEF RecvAgain
<1>3. /\ InHand(g)' = InHand(g) /\ Waiting(g)' = Waiting(g)
      /\ receiving'[g].buffer = receiving[g].buffer
      /\ receiving'[g].buffer_bytes = receiving[g].buffer_bytes
  BY WordsCounted
<1>4. SocketsOf(g)' = SocketsOf(g) /\ Past(g, lo)'
  BY <1>1, <1>2, <1>3, CopyForgotten DEF SocketsOf
<1> QED
  BY <1>1, <1>3, <1>4, WordsMoved DEF Trails

\* A round of the loop: the message it is at is the oldest.
LEMMA RoundTrail ==
  ASSUME IInv, NEW g \in Gos, receiving[g].pc = "loop", receiving[g].tcp_recv_data # <<>>,
         NEW lo \in Nat, NEW mid \in Nat, NEW last \in Nat, Trails(g, lo, mid, last),
         recv'[g] = recv[g], receiving'[g].pc = "loop",
         receiving'[g].tcp_recv_data = NextMessage(receiving[g])
  PROVE  \E first \in Nat :
           /\ lo < packet(receiving[g]) /\ packet(receiving[g]) <= first
           /\ packet(receiving[g]) \in Nat
           /\ Trail(InHand(g)', Messages(SocketsOf(g)), first, mid)
           /\ Trail(Waiting(g)', Messages(SocketsOf(g)), mid, last)
<1> DEFINE w == InHand(g)
           e == Header + w[3]
           M == Messages(SocketsOf(g))
<1>1. w \in Seq(Word) /\ w # <<>> /\ w[5] = packet(receiving[g])
  BY HandTyped DEF InHand, packet
<1>2. InHand(g)' = Drop(w, e) /\ Waiting(g)' = Waiting(g)
  BY WordsLooped
<1>3. Trail(w, M, lo, mid) /\ Trail(Waiting(g), M, mid, last)
  BY DEF Trails
<1> HIDE DEF w
<1>4. PICK first \in Nat : lo < w[5] /\ w[5] <= first /\ w[5] \in Nat /\ Trail(Drop(w, e), M, first, mid)
  BY <1>1, <1>3, TrailHead
<1> QED
  BY <1>1, <1>2, <1>3, <1>4

LEMMA OwnPassage ==
  ASSUME IInv, NEW g \in Gos, Passage(g), RecvOwn(g), \A n \in Nat : Newer(n) => Newer(n)'
  PROVE  Passage(g)'
<1>1. PICK lo, mid, last \in Nat : Past(g, lo) /\ Trails(g, lo, mid, last) /\ Newer(last)
  BY DEF Passage
<1> DEFINE r == receiving[g]
<1>2. /\ UNCHANGED <<recv, active_ports, handed>> /\ r \in Receive
      /\ r.pc = "loop" /\ r.tcp_recv_data # <<>>
      /\ receiving'[g] = [r EXCEPT !.buffer = packet(r), !.flag_copied = TRUE,
                                   !.buffer_bytes = dlength(r), !.tcp_recv_data = NextMessage(r)]
  BY DEF RecvOwn, Step, channels, IInv, ReceivesOK
<1>3. /\ receiving'[g].pc = "loop" /\ receiving'[g].tcp_recv_data = NextMessage(r)
      /\ receiving'[g].buffer = packet(r)
  BY <1>2 DEF Receive
<1>4. PICK first \in Nat :
        /\ lo < packet(r) /\ packet(r) <= first /\ packet(r) \in Nat
        /\ Trail(InHand(g)', Messages(SocketsOf(g)), first, mid)
        /\ Trail(Waiting(g)', Messages(SocketsOf(g)), mid, last)
  BY <1>1, <1>2, <1>3, RoundTrail
<1> DEFINE number == packet(r)
           kept == KeptIn(active_ports[g])
           fewer == CopiedBy(g)'
<1>5. fewer \subseteq {number}
  BY <1>3 DEF CopiedBy
<1> HIDE DEF number, kept, fewer, r
<1>6. PastTypes(handed[g], kept) /\ PastOK(handed[g], kept, CopiedBy(g), lo)
  BY <1>1 DEF Past, kept
<1>7. number \in Nat /\ lo < number /\ number <= first
  BY <1>4 DEF number
<1>8. PastOK(handed[g], kept, {number}, first)
  BY <1>6, <1>7, PastCopies
<1>9. {number} \subseteq Nat /\ first <= first
  BY <1>7
<1>10. PastOK(handed[g], kept, fewer, first)
  BY <1>5, <1>6, <1>8, <1>9, PastForgets
<1>11. Past(g, first)'
  BY <1>2, <1>6, <1>10 DEF Past, kept, fewer
<1>12. SocketsOf(g)' = SocketsOf(g)
  BY <1>2 DEF SocketsOf
<1> QED
  BY <1>1, <1>4, <1>11, <1>12, WordsMoved

\* What a round for another socket does to the queues: the oldest packet of
\* the entry at index is taken out, the message is put into the entry to, unless
\* its queue is full.
Shorter(kept, i) == IF kept[i] = <<>> THEN kept ELSE [kept EXCEPT ![i] = Tail(@)]

LEMMA OtherKept ==
  ASSUME IInv, NEW g \in Gos, RecvOther(g), active_ports' \in [Gos -> [Entries -> Entry]]
  PROVE  LET r == receiving[g]
         IN  /\ r.index \in Entries /\ FirstOf(Targets(g, r)) \in Entries
             /\ KeptIn(active_ports'[g]) \in
                  {Shorter(KeptIn(active_ports[g]), r.index),
                   [Shorter(KeptIn(active_ports[g]), r.index) EXCEPT
                      ![FirstOf(Targets(g, r))] =
                        Append(@, [packet |-> packet(r), length |-> dlength(r)])]}
<1> DEFINE r == receiving[g]
           i == r.index
           to == FirstOf(Targets(g, r))
           rest == Tail(active_ports[g][i].kept)
           taken == IF Kept(g, i) = <<>> THEN active_ports
                    ELSE [active_ports EXCEPT ![g][i].kept = rest]
           more == Append(taken[g][to].kept, [packet |-> packet(r), length |-> dlength(r)])
           there == IF Len(taken[g][to].kept) = APP_QUEUE_SIZE - 1 THEN taken[g][to].kept ELSE more
           shorter == Shorter(KeptIn(active_ports[g]), i)
<1>1. i \in Entries /\ to \in Entries /\ active_ports \in [Gos -> [Entries -> Entry]]
  BY DEF RecvOther, Whole, InUse, IInv, TypeOK
<1>2. active_ports' = [taken EXCEPT ![g][to].kept = there]
  BY DEF RecvOther, KeptAfter
<1>3. taken \in [Gos -> [Entries -> Entry]] /\ KeptIn(taken[g]) = shorter
  <2>1. active_ports[g][i].kept = Kept(g, i) /\ KeptIn(active_ports[g])[i] = Kept(g, i)
    BY <1>1 DEF Kept, KeptIn
  <2>2. CASE Kept(g, i) = <<>>
    BY <1>1, <2>1, <2>2 DEF Shorter
  <2>3. CASE Kept(g, i) # <<>>
    <3>1. active_ports[g][i].kept \in Seq(Packet)
      BY <1>1 DEF Entry
    <3>2. Tail(active_ports[g][i].kept) \in Seq(Packet)
      BY <2>1, <2>3, <3>1, HeadTailProperties
    <3>3. taken = [active_ports EXCEPT ![g][i].kept = Tail(active_ports[g][i].kept)]
      BY <2>3
    <3> HIDE DEF taken, i
    <3>4. taken \in [Gos -> [Entries -> Entry]]
      BY <1>1, <3>2, <3>3, KeptTyped
    <3>5. /\ taken[g][i].kept = Tail(active_ports[g][i].kept)
          /\ \A j \in Entries \ {i} : taken[g][j] = active_ports[g][j]
      BY <1>1, <3>3, <3>4, KeptChanged
    <3> QED
      BY <1>1, <2>1, <2>3, <3>4, <3>5 DEF KeptIn, Shorter
  <2> QED
    BY <2>2, <2>3
<1> HIDE DEF taken, more, shorter, to, i
<1>4. /\ active_ports'[g][to].kept = there
      /\ \A j \in Entries \ {to} : active_ports'[g][j] = taken[g][j]
  <2> HIDE DEF there
  <2> QED
    BY <1>1, <1>2, <1>3, KeptChanged
<1>5. KeptIn(active_ports'[g]) = [KeptIn(taken[g]) EXCEPT ![to] = there]
  BY <1>1, <1>4 DEF KeptIn
<1>6. KeptIn(taken[g])[to] = taken[g][to].kept
  BY <1>1 DEF KeptIn
<1>7. there = shorter[to] \/ there = Append(shorter[to], [packet |-> packet(r), length |-> dlength(r)])
  BY <1>3, <1>6 DEF more
<1>8. [shorter EXCEPT ![to] = shorter[to]] = shorter
  BY <1>3 DEF KeptIn
<1> QED
  BY <1>1, <1>3, <1>5, <1>7, <1>8 DEF shorter, to, i

LEMMA OtherPassage ==
  ASSUME IInv, IInv', RoundsOK, NEW g \in Gos, Passage(g), RecvOther(g),
         \A n \in Nat : Newer(n) => Newer(n)'
  PROVE  Passage(g)'
<1>1. PICK lo, mid, last \in Nat : Past(g, lo) /\ Trails(g, lo, mid, last) /\ Newer(last)
  BY DEF Passage
<1> DEFINE r == receiving[g]
           i == r.index
           to == FirstOf(Targets(g, r))
           number == packet(r)
           p == [packet |-> packet(r), length |-> dlength(r)]
           old == Kept(g, i)
           kept == KeptIn(active_ports[g])
           shorter == Shorter(kept, i)
           more == [shorter EXCEPT ![to] = Append(@, p)]
           fewer == CopiedBy(g)'
<1>2. /\ UNCHANGED <<recv, handed>> /\ r \in Receive /\ Whole(r)
      /\ r.pc = "loop" /\ r.tcp_recv_data # <<>>
      /\ receiving'[g] = [r EXCEPT !.buffer = IF old = <<>> THEN @ ELSE Head(old).packet,
                                   !.flag_copied = r.flag_copied \/ old # <<>>,
                                   !.size = IF old = <<>> THEN 0 ELSE Head(old).length,
                                   !.buffer_bytes =
                                      IF r.flag_copied \/ old # <<>>
                                      THEN (IF old = <<>> THEN 0 ELSE Head(old).length) ELSE 0,
                                   !.index = to,
                                   !.tcp_recv_data = NextMessage(r)]
  BY DEF RecvOther, Step, channels, IInv, ReceivesOK
<1>3. /\ receiving'[g].pc = "loop" /\ receiving'[g].tcp_recv_data = NextMessage(r)
      /\ old = <<>> => receiving'[g].buffer_bytes = 0
      /\ old # <<>> => receiving'[g].buffer = Head(old).packet
  <2> HIDE DEF old, to
  <2> QED
    BY <1>2 DEF Receive
<1>4. PICK first \in Nat :
        /\ lo < number /\ number <= first /\ number \in Nat
        /\ Trail(InHand(g)', Messages(SocketsOf(g)), first, mid)
        /\ Trail(Waiting(g)', Messages(SocketsOf(g)), mid, last)
  BY <1>1, <1>2, <1>3, RoundTrail
<1>5. /\ active_ports \in [Gos -> [Entries -> Entry]]
      /\ active_ports' \in [Gos -> [Entries -> Entry]]
  BY DEF IInv, TypeOK
<1>6. /\ i \in Entries /\ to \in Entries
      /\ KeptIn(active_ports'[g]) \in {shorter, more}
  BY <1>5, OtherKept
<1>7. kept[i] = old
  BY <1>6 DEF KeptIn, Kept
<1>8. old = <<>> => fewer = {}
  BY <1>3 DEF CopiedBy
<1>9. old # <<>> => fewer \subseteq {Head(kept[i]).packet}
  BY <1>3, <1>7 DEF CopiedBy
<1>10. p \in Packet /\ p.packet = number
  BY <1>2, <1>4, MessageTyped DEF Packet
<1>11. SocketsOf(g)' = SocketsOf(g)
  BY <1>5, OthersKept DEF SocketsOf
<1> HIDE DEF r, i, to, number, p, old, kept, fewer
<1>12. PastTypes(handed[g], kept) /\ PastOK(handed[g], kept, CopiedBy(g), lo)
  BY <1>1 DEF Past, kept
<1>13. CopiedBy(g) \subseteq Nat
  BY DEF CopiedBy, IInv, ReceivesOK, Receive
<1>14. PastTypes(handed[g], shorter) /\ PastOK(handed[g], shorter, fewer, lo) /\ fewer \subseteq Nat
  <2>1. CASE old = <<>>
    <3>1. shorter = kept /\ fewer \subseteq CopiedBy(g)
      BY <1>7, <1>8, <2>1 DEF Shorter
    <3> QED
      BY <1>12, <1>13, <3>1, PastForgets
  <2>2. CASE old # <<>>
    <3>1. shorter = [kept EXCEPT ![i] = Tail(@)]
      BY <1>7, <2>2 DEF Shorter
    <3>2. /\ PastTypes(handed[g], [kept EXCEPT ![i] = Tail(@)])
          /\ PastOK(handed[g], [kept EXCEPT ![i] = Tail(@)], fewer, lo)
          /\ Head(kept[i]).packet \in Nat
      BY <1>6, <1>7, <1>9, <1>12, <2>2, PastTaken
    <3> QED
      BY <1>9, <2>2, <3>1, <3>2
  <2> QED
    BY <2>1, <2>2
<1> HIDE DEF shorter
<1>15. /\ PastTypes(handed[g], KeptIn(active_ports'[g]))
       /\ PastOK(handed[g], KeptIn(active_ports'[g]), fewer, first)
  <2>1. CASE KeptIn(active_ports'[g]) = shorter
    <3>1. lo <= first
      BY <1>4
    <3>2. PastOK(handed[g], shorter, fewer, first)
      BY <1>14, <3>1, PastForgets
    <3> QED
      BY <1>14, <2>1, <3>2
  <2>2. CASE KeptIn(active_ports'[g]) = more
    <3>1. lo < p.packet /\ p.packet <= first
      BY <1>4, <1>10
    <3>2. /\ PastTypes(handed[g], [shorter EXCEPT ![to] = Append(@, p)])
          /\ PastOK(handed[g], [shorter EXCEPT ![to] = Append(@, p)], fewer, first)
      BY <1>6, <1>10, <1>14, <3>1, PastKeeps
    <3> QED
      BY <2>2, <3>2
  <2> QED
    BY <1>6, <2>1, <2>2
<1>16. Past(g, first)'
  BY <1>2, <1>15 DEF Past, fewer
<1> QED
  BY <1>1, <1>4, <1>11, <1>16, WordsMoved

LEMMA ReturnPassage ==
  ASSUME IInv, NEW g \in Gos, Passage(g), handed \in [Gos -> Seq(Handed)],
         RecvReturn(g), \A n \in Nat : Newer(n) => Newer(n)'
  PROVE  Passage(g)'
<1>1. PICK lo, mid, last \in Nat : Past(g, lo) /\ Trails(g, lo, mid, last) /\ Newer(last)
  BY DEF Passage
<1> DEFINE r == receiving[g]
           x == [sockid |-> r.sockid, packet |-> r.buffer]
           kept == KeptIn(active_ports[g])
<1>2. /\ UNCHANGED <<recv, active_ports>> /\ r \in Receive
      /\ r.pc = "loop" /\ r.tcp_recv_data = <<>> /\ receiving'[g] = Idle
      /\ r.buffer_bytes = 0 => handed'[g] = handed[g]
      /\ r.buffer_bytes # 0 => handed'[g] = Append(handed[g], x)
  BY DEF RecvReturn, Hands, Step, channels, IInv, ReceivesOK
<1>3. receiving'[g].pc = "app" /\ CopiedBy(g)' = {}
  BY <1>2 DEF CopiedBy, Idle
<1>4. InHand(g) = <<>> /\ InHand(g)' = <<>> /\ Waiting(g)' = Waiting(g)
  BY <1>2, <1>3, WordsReturned
<1>5. x \in Handed /\ (r.buffer_bytes # 0 => CopiedBy(g) = {x.packet})
  BY <1>2 DEF Handed, Receive, CopiedBy
<1>6. CopiedBy(g) \subseteq Nat
  BY <1>2 DEF CopiedBy, Receive
<1> HIDE DEF x, kept, r
<1>7. PastTypes(handed[g], kept) /\ PastOK(handed[g], kept, CopiedBy(g), lo)
  BY <1>1 DEF Past, kept
<1>8. PastTypes(handed'[g], kept) /\ PastOK(handed'[g], kept, {}, lo)
  <2>1. CASE r.buffer_bytes = 0
    <3>1. {} \subseteq CopiedBy(g)
      OBVIOUS
    <3>2. PastOK(handed[g], kept, {}, lo)
      BY <1>6, <1>7, <3>1, PastForgets
    <3> QED
      BY <1>2, <1>7, <2>1, <3>2
  <2>2. CASE r.buffer_bytes # 0
    <3>1. x \in Handed /\ PastOK(handed[g], kept, {x.packet}, lo)
      BY <1>5, <1>7, <2>2
    <3>2. PastTypes(Append(handed[g], x), kept) /\ PastOK(Append(handed[g], x), kept, {}, lo)
      BY <1>7, <3>1, PastHanded
    <3> QED
      BY <1>2, <2>2, <3>2
  <2> QED
    BY <2>1, <2>2
<1>9. Past(g, lo)'
  BY <1>2, <1>3, <1>8 DEF Past, kept
<1>10. SocketsOf(g)' = SocketsOf(g)
  BY <1>2 DEF SocketsOf
<1> QED
  BY <1>1, <1>4, <1>9, <1>10, WordsMoved DEF Trails

LEMMA OthersStay ==
  ASSUME IInv, handed \in [Gos -> Seq(Handed)], NEW g \in Gos, Guest(g)
  PROVE  \A h \in Gos \ {g} : UNCHANGED <<recv[h], receiving[h], active_ports[h], handed[h]>>
<1>1. /\ active_ports \in [Gos -> [Entries -> Entry]] /\ recv \in [Gos -> Seq(Word)]
      /\ receiving \in [Gos -> Receive] /\ handed \in [Gos -> Seq(Handed)]
  BY DEF IInv, TypeOK, ReceivesOK
<1>2. \A h \in Gos \ {g} : recv'[h] = recv[h]
  BY <1>1 DEF Guest, NextApp, sys_sock_listen, sys_sock_connect, sys_sock_tcp_send,
              RecvKept, RecvFirst, Receiving, RecvAgain, RecvOwn, RecvOther, RecvReturn, channels
<1>3. \A h \in Gos \ {g} : receiving'[h] = receiving[h]
  <2>1. receiving' = receiving \/ \E r : Step(g, r)
    BY DEF Guest, NextApp, sys_sock_listen, sys_sock_connect, sys_sock_tcp_send, Hands,
           RecvKept, RecvFirst, Receiving, RecvAgain, RecvOwn, RecvOther, RecvReturn
  <2> QED
    BY <1>1, <2>1 DEF Step
<1>4. \A h \in Gos \ {g} : handed'[h] = handed[h]
  BY <1>1 DEF Guest, NextApp, sys_sock_listen, sys_sock_connect, sys_sock_tcp_send, Hands,
              RecvKept, RecvFirst, Receiving, RecvAgain, RecvOwn, RecvOther, RecvReturn
<1>5. \A h \in Gos \ {g} : active_ports'[h] = active_ports[h]
  <2>1. CASE \E sockid : Opens(g, sockid)
    BY <1>1, <2>1 DEF Opens
  <2>2. CASE \E i \in Entries : RecvKept(g, i)
    BY <1>1, <2>2 DEF RecvKept
  <2>3. CASE RecvOther(g)
    <3> DEFINE r == receiving[g]
               taken == IF Kept(g, r.index) = <<>> THEN active_ports
                        ELSE [active_ports EXCEPT ![g][r.index].kept = KeptAfter(@)]
               more == IF Len(taken[g][FirstOf(Targets(g, r))].kept) = APP_QUEUE_SIZE - 1
                       THEN taken[g][FirstOf(Targets(g, r))].kept
                       ELSE Append(taken[g][FirstOf(Targets(g, r))].kept,
                                   [packet |-> packet(r), length |-> dlength(r)])
    <3>1. active_ports' = [taken EXCEPT ![g][FirstOf(Targets(g, r))].kept = more]
      BY <2>3 DEF RecvOther
    <3>2. \A h \in Gos \ {g} : taken[h] = active_ports[h]
      BY <1>1
    <3>3. taken = active_ports \/ taken = [active_ports EXCEPT ![g] = taken[g]]
      BY <1>1
    <3> HIDE DEF taken, more, r
    <3>4. active_ports' = [taken EXCEPT ![g] = active_ports'[g]]
      BY <1>1, <3>1, <3>3
    <3> QED
      BY <1>1, <3>2, <3>3, <3>4
  <2>4. CASE active_ports' = active_ports
    BY <2>4
  <2> QED
    BY <2>1, <2>2, <2>3, <2>4
       DEF Guest, NextApp, InUse, sys_sock_listen, sys_sock_connect, sys_sock_tcp_send,
           RecvFirst, Receiving, RecvAgain, RecvOwn, RecvReturn
<1> QED
  BY <1>2, <1>3, <1>4, <1>5

LEMMA GuestPassage ==
  ASSUME cut' = {}, IInv, IInv', FramesOK, RoundsOK, PassageOK, NEW g \in Gos, Guest(g)
  PROVE  PassageOK'
<1>1. UNCHANGED <<front, rear, cqbuff, task1, arrived>>
  BY DEF Guest, nic, server
<1>2. QueueInOrder' /\ FoundFirst' /\ \A n \in Nat : Newer(n) => Newer(n)'
  BY <1>1 DEF PassageOK, QueueInOrder, FoundFirst, Newer, Full, Place
<1>3. handed \in [Gos -> Seq(Handed)] /\ Passage(g)
  BY DEF PassageOK
<1>4. \A h \in Gos \ {g} : UNCHANGED <<recv[h], receiving[h], active_ports[h], handed[h]>>
  BY <1>3, OthersStay
<1>5. \A h \in Gos \ {g} : Passage(h)'
  BY <1>2, <1>4, PassageStays DEF PassageOK
<1>6. /\ active_ports' \in [Gos -> [Entries -> Entry]]
      /\ g \in Nat
  BY SocketAssumption DEF IInv, TypeOK
<1>7. Passage(g)'
  <2>1. ASSUME NEW port \in Ports, sys_sock_listen(g, port)
        PROVE  Passage(g)'
    <3>1. port \in Nat \ {0} /\ Opens(g, port) /\ UNCHANGED <<recv[g], receiving[g], handed[g]>>
      BY <2>1, SocketAssumption DEF sys_sock_listen
    <3> QED
      BY <1>2, <1>3, <1>6, <3>1, OpensPassage
  <2>2. ASSUME sys_sock_connect(g)
        PROVE  Passage(g)'
    <3>1. PICK sockid \in Nat \ {0} : sockid = spark_sockid[g]
      BY DEF IInv, TypeOK, FramesOK
    <3>2. Opens(g, sockid) /\ UNCHANGED <<recv[g], receiving[g], handed[g]>>
      BY <2>2, <3>1 DEF sys_sock_connect
    <3> QED
      BY <1>2, <1>3, <1>6, <3>2, OpensPassage
  <2>3. ASSUME NEW i \in InUse(g), sys_sock_tcp_send(g, i)
        PROVE  Passage(g)'
    BY <1>2, <1>3, <2>3, PassageStays DEF sys_sock_tcp_send
  <2>4. ASSUME NEW i \in InUse(g), RecvKept(g, i)
        PROVE  Passage(g)'
    BY <1>2, <1>3, <2>4, KeptPassage DEF InUse
  <2>5. ASSUME NEW i \in InUse(g), NEW size \in RecvSizes[g], RecvFirst(g, i, size)
        PROVE  Passage(g)'
    BY <1>2, <1>3, <2>5, FirstPassage DEF InUse
  <2>6. ASSUME Receiving(g)
        PROVE  Passage(g)'
    BY <1>2, <1>3, <2>6, AgainPassage, OwnPassage, OtherPassage, ReturnPassage DEF Receiving
  <2> QED
    BY <2>1, <2>2, <2>3, <2>4, <2>5, <2>6 DEF Guest, NextApp
<1>8. handed' \in [Gos -> Seq(Handed)]
  <2>1. handed'[g] \in Seq(Handed)
    BY <1>7 DEF Passage, Past, PastTypes
  <2>2. handed' = handed \/ handed' = [handed EXCEPT ![g] = handed'[g]]
    BY <1>3 DEF Guest, NextApp, sys_sock_listen, sys_sock_connect, sys_sock_tcp_send, Hands,
              RecvKept, RecvFirst, Receiving, RecvAgain, RecvOwn, RecvOther, RecvReturn
  <2> QED
    BY <1>3, <2>1, <2>2
<1> QED
  BY <1>2, <1>5, <1>7, <1>8 DEF PassageOK

LEMMA PassageInitially == Init => PassageOK
<1> SUFFICES ASSUME Init
             PROVE  PassageOK
  OBVIOUS
<1>1. /\ handed = [g \in Gos |-> <<>>] /\ recv = [g \in Gos |-> <<>>]
      /\ active_ports = [g \in Gos |-> [i \in Entries |-> NoSocket]]
      /\ receiving = [g \in Gos |-> Idle]
      /\ front = rear /\ task1.pc = "wait" /\ arrived = <<>>
  BY DEF Init, InitApp, InitNic, InitServer
<1>2. \A s \in Slots : ~Full(s)
  <2>1. front = 0 /\ rear = 0
    BY DEF Init, InitNic
  <2> QED
    BY <2>1, NicAssumption DEF Full, Slots
<1>3. handed \in [Gos -> Seq(Handed)]
  BY <1>1, EmptySeq
<1>4. Newer(0) /\ QueueInOrder /\ FoundFirst
  BY <1>1, <1>2, EmptySeq DEF Newer, QueueInOrder, FoundFirst
<1>5. ASSUME NEW g \in Gos
      PROVE  Passage(g)
  <2>1. /\ handed[g] = <<>> /\ recv[g] = <<>> /\ receiving[g] = Idle
        /\ \A i \in Entries : active_ports[g][i].kept = <<>>
    BY <1>1 DEF NoSocket
  <2>2. CopiedBy(g) = {} /\ receiving[g].pc = "app"
    BY <2>1 DEF CopiedBy, Idle
  <2> DEFINE kept == KeptIn(active_ports[g])
  <2>3. kept \in [Entries -> Seq(Packet)] /\ \A i \in Entries : kept[i] = <<>>
    BY <2>1, EmptySeq DEF KeptIn
  <2>4. handed[g] \in Seq(Handed)
    BY <1>3
  <2>5. \A s : s = <<>> => Once(s) /\ PacketsIn(s) = {}
    BY EmptySeq DEF Once, PacketsIn
  <2> HIDE DEF kept
  <2>6. PastTypes(handed[g], kept) /\ PastOK(handed[g], kept, CopiedBy(g), 0)
    BY <2>1, <2>2, <2>3, <2>4, <2>5 DEF PastTypes, PastOK
  <2>7. InHand(g) = <<>> /\ Waiting(g) = <<>>
    <3>1. <<>> \in Seq(Word)
      BY EmptySeq
    <3> QED
      BY <2>1, <2>2, <3>1, NothingDropped DEF InHand, Waiting, Counted
  <2>8. Trails(g, 0, 0, 0)
    BY <2>7, NoTrail DEF Trails
  <2> QED
    BY <1>4, <2>6, <2>8 DEF Passage, Past, kept
<1> QED
  BY <1>3, <1>4, <1>5 DEF PassageOK

LEMMA StepKeepsPassage ==
  ASSUME cut' = {}, IInv, IInv', FramesOK, RoundsOK, PassageOK, [Next]_vars
  PROVE  PassageOK'
<1>1. CASE Partition
  BY <1>1, PartitionPassage
<1>2. ASSUME NEW g \in Gos, Guest(g)
      PROVE  PassageOK'
  BY <1>2, GuestPassage
<1>3. CASE UNCHANGED vars
  <2>1. UNCHANGED <<recv, receiving, active_ports, handed, front, rear, cqbuff, task1, arrived>>
    BY <1>3 DEF vars, channels, app, nic, server
  <2>2. QueueInOrder' /\ FoundFirst' /\ \A n \in Nat : Newer(n) => Newer(n)'
    BY <2>1 DEF PassageOK, QueueInOrder, FoundFirst, Newer, Full, Place
  <2>3. \A g \in Gos : Passage(g)'
    BY <2>1, <2>2, PassageStays DEF PassageOK
  <2> QED
    BY <2>1, <2>2, <2>3 DEF PassageOK
<1> QED
  BY <1>1, <1>2, <1>3 DEF Next

\* What holds until a receive ends inside a message: no step takes a guest out
\* of cut again.
Uncut == cut = {}

LEMMA CutStays ==
  ASSUME UncutOK, [Next]_vars, Uncut'
  PROVE  Uncut /\ RoundsOK /\ cut' = {}
<1>1. cut \subseteq cut'
  <2>1. CASE Partition
    BY <2>1 DEF Partition, app
  <2>2. ASSUME NEW g \in Gos, Guest(g)
        PROVE  cut \subseteq cut'
    BY <2>2, CutGrows DEF Guest
  <2>3. CASE UNCHANGED vars
    BY <2>3 DEF vars, app
  <2> QED
    BY <2>1, <2>2, <2>3 DEF Next
<1>2. cut = {}
  BY <1>1 DEF Uncut
<1> QED
  BY <1>2 DEF Uncut, UncutOK, RoundsOK

\* Until a receive ends inside a message a packet keeps its place in the order
\* of arrival from the driver's queue to the loop of sys_sock_tcp_recv_k, and is
\* in one place behind it.
THEOREM PassageStaysOK ==
  ASSUME Senders \subseteq {1}
  PROVE  Spec => [](Uncut => PassageOK)
<1>1. /\ IInv /\ IInv' /\ FramesOK /\ UncutOK /\ (Uncut => PassageOK) /\ [Next]_vars
      => (Uncut => PassageOK)'
  BY StepKeepsPassage, CutStays
<1> QED
  BY PassageInitially, <1>1, Invariance, FramesStay, RoundsStay, PTL DEF Spec

\* No packet is handed out twice, neither out of the channel nor out of the
\* queue of a socket (systemcall.c:208), for every size of the channels and
\* queues and however many receives are made on however many sockets, until one of them ends
\* inside a message.
THEOREM PacketsHandedOnce ==
  ASSUME Senders \subseteq {1}
  PROVE  Spec => [](cut = {} => HandedOnce)
<1>1. PassageOK => HandedOnce
  <2> SUFFICES ASSUME PassageOK, NEW g \in Gos,
                      NEW k \in DOMAIN handed[g], NEW l \in DOMAIN handed[g],
                      handed[g][k].packet = handed[g][l].packet
               PROVE  k = l
    BY DEF HandedOnce
  <2>1. Once(handed[g]) /\ handed[g] \in Seq(Handed)
    BY DEF PassageOK, Passage, Past, PastOK
  <2>2. DOMAIN handed[g] = 1 .. Len(handed[g])
    BY <2>1
  <2> QED
    BY <2>1, <2>2 DEF Once
<1>2. (Uncut => PassageOK) => (cut = {} => HandedOnce)
  BY <1>1 DEF Uncut
<1> QED
  BY <1>2, PassageStaysOK, PTL

-----------------------------------------------------------------------------
\* A guest with one socket: every message is for the socket of its receive, so
\* nothing is kept and packets are handed out as they come.

OneSocket(g) == \A i, j \in InUse(g) : i = j
Ascending(s) == \A k, l \in 1 .. Len(s) : k < l => s[k].packet < s[l].packet

InOrder(g) ==
  /\ receiving[g].pc # "app" => receiving[g].sockid \in SocketsOf(g)
  /\ OneSocket(g) =>
       /\ \A i \in Entries : Kept(g, i) = <<>>
       /\ Ascending(handed[g])
       /\ \A n \in CopiedBy(g) : \A m \in PacketsIn(handed[g]) : m < n
InOrderOK == \A g \in Gos : InOrder(g)

LEMMA AscendingAppended ==
  ASSUME NEW s \in Seq(Handed), NEW x \in Handed, Ascending(s),
         \A m \in PacketsIn(s) : m < x.packet
  PROVE  Ascending(Append(s, x))
<1> DEFINE t == Append(s, x)
<1>1. /\ Len(t) = Len(s) + 1 /\ Len(s) \in Nat /\ t[Len(s) + 1] = x
      /\ \A k \in 1 .. Len(s) : t[k] = s[k]
  BY AppendProperties
<1> HIDE DEF t
<1>2. \A k \in 1 .. Len(s) : t[k].packet < x.packet
  BY <1>1 DEF PacketsIn
<1>3. \A k, l \in 1 .. Len(t) : k < l => k \in 1 .. Len(s) /\ (l \in 1 .. Len(s) \/ l = Len(s) + 1)
  BY <1>1
<1>4. Ascending(t)
  BY <1>1, <1>2, <1>3 DEF Ascending
<1> QED
  BY <1>4 DEF t

LEMMA OrderStays ==
  ASSUME NEW g \in Gos, InOrder(g), UNCHANGED <<receiving[g], active_ports[g], handed[g]>>
  PROVE  InOrder(g)'
BY DEF InOrder, OneSocket, InUse, Kept, CopiedBy, SocketsOf

LEMMA OpensInOrder ==
  ASSUME IInv, NEW g \in Gos, InOrder(g), NEW sockid \in Nat \ {0}, Opens(g, sockid),
         receiving[g].pc = "app", UNCHANGED <<receiving[g], handed[g]>>
  PROVE  InOrder(g)'
<1>1. FreeEntries(g) \in SUBSET Nat /\ FreeEntries(g) # {}
  BY DEF Opens, FreeEntries, Entries
<1>2. NewEntry(g) = FirstOf(FreeEntries(g))
  BY DEF NewEntry, FirstOf
<1>3. NewEntry(g) \in FreeEntries(g)
  BY <1>1, <1>2, FirstOfSet
<1>4. PICK i \in FreeEntries(g) :
        active_ports' = [active_ports EXCEPT ![g][i] = [sock_id |-> sockid, kept |-> <<>>]]
  BY <1>3 DEF Opens
<1>5. /\ i \in Entries /\ i \notin InUse(g) /\ active_ports'[g][i].kept = <<>>
      /\ \A j \in Entries \ {i} : active_ports'[g][j] = active_ports[g][j]
  BY <1>4 DEF IInv, TypeOK, FreeEntries
<1>6. InUse(g) \subseteq InUse(g)'
  BY <1>5 DEF InUse
<1>7. OneSocket(g)' => OneSocket(g)
  BY <1>6 DEF OneSocket
<1> QED
  BY <1>5, <1>7 DEF InOrder, Kept, CopiedBy

\* In the loop of a guest with one socket all messages are for the receive.
LEMMA OneOwn ==
  ASSUME IInv, RoundsOK, NEW g \in Gos, InOrder(g), OneSocket(g),
         receiving[g].pc = "loop", receiving[g].tcp_recv_data # <<>>
  PROVE  Own(receiving[g])
<1> DEFINE r == receiving[g]
           w == r.tcp_recv_data
           K == SocketsOf(g)
<1>1. w \in Seq(Word) /\ w # <<>> /\ Framed(w, Messages(K)) /\ r.sockid \in K
  BY ChannelTyped DEF RoundsOK, MessagesOK, InOrder
<1>2. \A n, m \in K : n = m
  BY DEF SocketsOf, OneSocket, InUse
<1> HIDE DEF w, K
<1>3. w[2] \in K \/ w[4] \in K
  BY <1>1, FirstMessage
<1>4. r.sockid \in {w[2], w[4]}
  BY <1>1, <1>2, <1>3
<1> QED
  BY <1>4 DEF Own, dport, dsockid, w

LEMMA ReceivesInOrder ==
  ASSUME IInv, IInv', RoundsOK, PassageOK, NEW g \in Gos, InOrder(g), Receiving(g)
  PROVE  InOrder(g)'
<1> DEFINE r == receiving[g]
<1>1. r \in Receive /\ active_ports \in [Gos -> [Entries -> Entry]]
      /\ active_ports' \in [Gos -> [Entries -> Entry]]
      /\ receiving \in [Gos -> Receive] /\ handed \in [Gos -> Seq(Handed)]
  BY DEF IInv, TypeOK, ReceivesOK, PassageOK
<1>2. CASE RecvAgain(g)
  <2>1. /\ receiving[g].pc = "again" /\ receiving'[g].sockid = receiving[g].sockid
        /\ receiving'[g].buffer = receiving[g].buffer
        /\ receiving'[g].buffer_bytes = receiving[g].buffer_bytes
    BY <1>2, WordsCounted
  <2>2. UNCHANGED <<active_ports, handed>>
    BY <1>2 DEF RecvAgain
  <2> QED
    BY <2>1, <2>2 DEF InOrder, OneSocket, InUse, Kept, CopiedBy, SocketsOf
<1>3. CASE RecvOwn(g)
  <2>1. /\ UNCHANGED <<recv, active_ports, handed>> /\ r.pc = "loop" /\ r.tcp_recv_data # <<>>
        /\ receiving'[g] = [r EXCEPT !.buffer = packet(r), !.flag_copied = TRUE,
                                     !.buffer_bytes = dlength(r), !.tcp_recv_data = NextMessage(r)]
    BY <1>1, <1>3 DEF RecvOwn, Step, channels
  <2>2. /\ receiving'[g].pc = "loop" /\ receiving'[g].tcp_recv_data = NextMessage(r)
        /\ receiving'[g].buffer = packet(r) /\ receiving'[g].sockid = r.sockid
    BY <1>1, <2>1 DEF Receive
  <2>3. PICK lo, mid, last \in Nat : Past(g, lo) /\ Trails(g, lo, mid, last)
    BY DEF PassageOK, Passage
  <2>4. lo < packet(r) /\ packet(r) \in Nat
    BY <2>1, <2>2, <2>3, RoundTrail
  <2>5. PacketsIn(handed[g]) \subseteq Nat /\ \A m \in PacketsIn(handed[g]) : m <= lo
    BY <2>3, PastNumbers DEF Past, PastOK
  <2>6. CopiedBy(g)' \subseteq {packet(r)}
    BY <2>2 DEF CopiedBy
  <2>7. \A m \in PacketsIn(handed[g]) : m < packet(r)
    BY <2>4, <2>5
  <2> HIDE DEF r
  <2>8. r.sockid \in SocketsOf(g)
    BY <2>1 DEF InOrder, r
  <2> QED
    BY <2>1, <2>2, <2>6, <2>7, <2>8 DEF InOrder, OneSocket, InUse, Kept, SocketsOf
<1>4. CASE RecvOther(g)
  <2>1. ~Own(r) /\ r.pc = "loop" /\ r.tcp_recv_data # <<>>
    BY <1>4 DEF RecvOther
  <2>2. ~OneSocket(g)
    BY <2>1, OneOwn
  <2>3. receiving'[g].sockid = r.sockid
    BY <1>1, <1>4 DEF RecvOther, Step, Receive
  <2>4. \A j \in Entries : active_ports'[g][j].sock_id = active_ports[g][j].sock_id
    BY <1>1, <1>4, OthersKept
  <2>5. SocketsOf(g)' = SocketsOf(g) /\ ~OneSocket(g)'
    BY <2>2, <2>4 DEF SocketsOf, OneSocket, InUse
  <2> QED
    BY <2>1, <2>3, <2>5 DEF InOrder
<1>5. CASE RecvReturn(g)
  <2> DEFINE x == [sockid |-> r.sockid, packet |-> r.buffer]
  <2>1. /\ active_ports' = active_ports /\ receiving'[g] = Idle
        /\ r.buffer_bytes = 0 => handed'[g] = handed[g]
        /\ r.buffer_bytes # 0 => handed'[g] = Append(handed[g], x)
    BY <1>1, <1>5 DEF RecvReturn, Hands, Step
  <2>2. receiving'[g].pc = "app" /\ CopiedBy(g)' = {}
    BY <2>1 DEF CopiedBy, Idle
  <2>3. x \in Handed /\ x.packet = r.buffer
    BY <1>1 DEF Handed, Receive
  <2> HIDE DEF x
  <2>4. ASSUME Ascending(handed[g]),
               \A n \in CopiedBy(g) : \A m \in PacketsIn(handed[g]) : m < n
        PROVE  Ascending(handed'[g])
    <3>1. handed[g] \in Seq(Handed)
      BY <1>1
    <3>2. CASE r.buffer_bytes = 0
      BY <2>1, <2>4, <3>2
    <3>3. CASE r.buffer_bytes # 0
      <4>1. \A m \in PacketsIn(handed[g]) : m < x.packet
        BY <2>3, <2>4, <3>3 DEF CopiedBy
      <4>2. Ascending(Append(handed[g], x))
        BY <2>3, <2>4, <3>1, <4>1, AscendingAppended
      <4> QED
        BY <2>1, <3>3, <4>2
    <3> QED
      BY <3>2, <3>3
  <2> QED
    BY <2>1, <2>2, <2>4 DEF InOrder, OneSocket, InUse, Kept
<1> QED
  BY <1>2, <1>3, <1>4, <1>5 DEF Receiving

LEMMA GuestInOrder ==
  ASSUME cut' = {}, IInv, IInv', FramesOK, RoundsOK, PassageOK, InOrderOK, NEW g \in Gos, Guest(g)
  PROVE  InOrderOK'
<1>1. handed \in [Gos -> Seq(Handed)] /\ InOrder(g)
  BY DEF PassageOK, InOrderOK
<1>2. \A h \in Gos \ {g} : InOrder(h)'
  BY <1>1, OthersStay, OrderStays DEF InOrderOK
<1>3. InOrder(g)'
  <2>1. ASSUME NEW port \in Ports, sys_sock_listen(g, port)
        PROVE  InOrder(g)'
    <3>1. /\ port \in Nat \ {0} /\ Opens(g, port) /\ receiving[g].pc = "app"
          /\ UNCHANGED <<receiving[g], handed[g]>>
      BY <2>1, SocketAssumption DEF sys_sock_listen
    <3> QED
      BY <1>1, <3>1, OpensInOrder
  <2>2. ASSUME sys_sock_connect(g)
        PROVE  InOrder(g)'
    <3>1. PICK sockid \in Nat \ {0} : sockid = spark_sockid[g]
      BY DEF IInv, TypeOK, FramesOK
    <3>2. /\ Opens(g, sockid) /\ receiving[g].pc = "app"
          /\ UNCHANGED <<receiving[g], handed[g]>>
      BY <2>2, <3>1 DEF sys_sock_connect
    <3> QED
      BY <1>1, <3>2, OpensInOrder
  <2>3. ASSUME NEW i \in InUse(g), sys_sock_tcp_send(g, i)
        PROVE  InOrder(g)'
    BY <1>1, <2>3, OrderStays DEF sys_sock_tcp_send
  <2>4. ASSUME NEW i \in InUse(g), RecvKept(g, i)
        PROVE  InOrder(g)'
    <3>1. i \in Entries /\ Kept(g, i) # <<>>
      BY <2>4 DEF InUse, RecvKept
    <3>2. ~OneSocket(g)
      BY <1>1, <3>1 DEF InOrder
    <3>3. /\ active_ports \in [Gos -> [Entries -> Entry]]
          /\ active_ports' \in [Gos -> [Entries -> Entry]]
          /\ receiving' = [receiving EXCEPT ![g] = Idle] /\ receiving \in [Gos -> Receive]
      BY <2>4 DEF IInv, TypeOK, ReceivesOK, RecvKept, Hands, Step
    <3>4. \A j \in Entries : active_ports'[g][j].sock_id = active_ports[g][j].sock_id
      BY <2>4, <3>1, <3>3, SocketsSame DEF RecvKept
    <3>5. ~OneSocket(g)' /\ receiving'[g].pc = "app"
      BY <3>2, <3>3, <3>4 DEF OneSocket, InUse, Idle
    <3> QED
      BY <3>5 DEF InOrder
  <2>5. ASSUME NEW i \in InUse(g), NEW size \in RecvSizes[g], RecvFirst(g, i, size)
        PROVE  InOrder(g)'
    <3>1. /\ receiving'[g].sockid = active_ports[g][i].sock_id
          /\ receiving'[g].buffer_bytes = 0
      BY <2>5, WordsTaken DEF InUse
    <3>2. UNCHANGED <<active_ports, handed>>
      BY <2>5 DEF RecvFirst
    <3>3. active_ports[g][i].sock_id \in SocketsOf(g)
      BY DEF InUse, SocketsOf
    <3> QED
      BY <1>1, <3>1, <3>2, <3>3 DEF InOrder, OneSocket, InUse, Kept, CopiedBy, SocketsOf
  <2>6. ASSUME Receiving(g)
        PROVE  InOrder(g)'
    BY <1>1, <2>6, ReceivesInOrder
  <2> QED
    BY <2>1, <2>2, <2>3, <2>4, <2>5, <2>6 DEF Guest, NextApp
<1> QED
  BY <1>2, <1>3 DEF InOrderOK

LEMMA InOrderInitially == Init => InOrderOK
<1> SUFFICES ASSUME Init, NEW g \in Gos
             PROVE  InOrder(g)
  BY DEF InOrderOK
<1>1. /\ handed[g] = <<>> /\ receiving[g] = Idle
      /\ \A i \in Entries : active_ports[g][i] = NoSocket
  BY DEF Init, InitApp
<1>2. \A i \in Entries : Kept(g, i) = <<>>
  BY <1>1 DEF Kept, NoSocket
<1>3. receiving[g].pc = "app" /\ CopiedBy(g) = {}
  BY <1>1 DEF Idle, CopiedBy
<1>4. Ascending(handed[g])
  BY <1>1, EmptySeq DEF Ascending
<1> QED
  BY <1>2, <1>3, <1>4 DEF InOrder

LEMMA StepKeepsOrder ==
  ASSUME cut' = {}, IInv, IInv', FramesOK, RoundsOK, PassageOK, InOrderOK, [Next]_vars
  PROVE  InOrderOK'
<1>1. ASSUME UNCHANGED app
      PROVE  InOrderOK'
  BY <1>1, OrderStays DEF app, InOrderOK
<1>2. ASSUME NEW g \in Gos, Guest(g)
      PROVE  InOrderOK'
  BY <1>2, GuestInOrder
<1> QED
  BY <1>1, <1>2 DEF Next, Partition, vars

\* What a guest with one socket does with its packets, until a receive ends
\* inside a message.
THEOREM OrderStaysOK ==
  ASSUME Senders \subseteq {1}
  PROVE  Spec => [](Uncut => InOrderOK)
<1>1. /\ IInv /\ IInv' /\ FramesOK /\ UncutOK /\ (Uncut => PassageOK) /\ (Uncut => InOrderOK)
      /\ [Next]_vars
      => (Uncut => InOrderOK)'
  BY StepKeepsOrder, CutStays
<1> QED
  BY InOrderInitially, <1>1, Invariance, FramesStay, RoundsStay, PassageStaysOK, PTL DEF Spec

\* As long as a guest has one socket its receives return the packets in the
\* order they arrived in at the card, through the driver's queue, the channel,
\* the short receive and the copy of a message over the one before it in the
\* caller's buffer (systemcall.c:208).
THEOREM PacketsInOrder ==
  ASSUME Senders \subseteq {1}
  PROVE  Spec => [](cut = {} => OneSocketInOrder)
<1>1. PassageOK /\ InOrderOK => OneSocketInOrder
  <2> SUFFICES ASSUME PassageOK, InOrderOK, NEW g \in Gos, Cardinality(InUse(g)) = 1,
                      NEW k \in DOMAIN handed[g], NEW l \in DOMAIN handed[g], k < l
               PROVE  handed[g][k].packet < handed[g][l].packet
    BY DEF OneSocketInOrder
  <2>1. IsFiniteSet(InUse(g))
    <3>1. IsFiniteSet(Entries)
      BY FS_Interval, SocketAssumption DEF Entries
    <3> QED
      BY <3>1, FS_Subset DEF InUse
  <2>2. OneSocket(g)
    <3>1. \E x : InUse(g) = {x}
      BY <2>1, FS_Singleton
    <3> QED
      BY <3>1 DEF OneSocket
  <2>3. Ascending(handed[g])
    BY <2>2 DEF InOrderOK, InOrder
  <2>4. handed[g] \in Seq(Handed)
    BY DEF PassageOK
  <2>5. DOMAIN handed[g] = 1 .. Len(handed[g])
    BY <2>4
  <2> QED
    BY <2>3, <2>5 DEF Ascending
<1>2. (Uncut => PassageOK) /\ (Uncut => InOrderOK) => (cut = {} => OneSocketInOrder)
  BY <1>1 DEF Uncut
<1> QED
  BY <1>2, PassageStaysOK, OrderStaysOK, PTL

-----------------------------------------------------------------------------
\* The owner of a port, and that it stays the owner.  Local ports of
\* connections come from a counter and are not given back; the numbers a guest
\* can ask for as a socket are the ports and its own counter's.

LocalPorts == FirstLport + 1 .. lastport
Numbers(g) == Ports \cup (FirstSock .. spark_sockid[g] - 1)

\* The counter of local ports has not come to a guest's numbers.
PortsApart == \A g \in Gos : LocalPorts \cap Numbers(g) = {}

Serves(g, port) ==
  \E s \in ListenSlots : listenports[s].port = port /\ listenports[s].gos_id = g
Uses(g, port, sockid) ==
  \E s \in ClientSlots : /\ clientports[s].port = port
                         /\ clientports[s].gos_id = g /\ clientports[s].sock_id = sockid
Belongs(g, port, sockid) ==
  \/ Serves(g, port) /\ sockid = port
  \/ Uses(g, port, sockid) /\ port \in LocalPorts /\ ListensOn(port) = {}

ClientsLocal ==
  /\ FirstLport <= lastport
  /\ \A s \in ClientSlots : clientports[s].gos_id \in Gos => clientports[s].port \in LocalPorts
SocketsNumbered == \A g \in Gos : SocketsOf(g) \subseteq Numbers(g)

\* What a step does to the slots and sockets of the guests.
SlotsGrow ==
  /\ lastport \in Nat /\ lastport' \in Nat /\ lastport <= lastport'
  /\ \A s \in ListenSlots :
       /\ listenports[s].gos_id \in Gos =>
            /\ listenports'[s].port = listenports[s].port
            /\ listenports'[s].gos_id = listenports[s].gos_id
       /\ \/ listenports'[s].port = listenports[s].port
          \/ \E g \in Gos : listenports'[s].port \in SocketsOf(g)
  /\ \A s \in ClientSlots :
       /\ clientports[s].gos_id \in Gos =>
            /\ clientports'[s].port = clientports[s].port
            /\ clientports'[s].gos_id = clientports[s].gos_id
            /\ clientports'[s].sock_id = clientports[s].sock_id
       /\ \/ /\ clientports'[s].port = clientports[s].port
             /\ clientports'[s].gos_id = clientports[s].gos_id
          \/ clientports'[s].port = lastport' /\ lastport < lastport'

LEMMA BelongsOwner ==
  ASSUME IInv, NEW g \in Gos, NEW port \in Nat, NEW sockid, Belongs(g, port, sockid)
  PROVE  OwnerOf(port) = [gos |-> g, sockid |-> sockid]
<1>1. FirstLport \in Nat /\ lastport \in Nat
  BY ServerAssumption DEF IInv, TypeOK
<1>2. CASE Serves(g, port) /\ sockid = port
  <2> DEFINE ls == {s \in ListenSlots : listenports[s].port = port}
  <2>1. ls \in SUBSET Nat /\ ls # {}
    BY <1>2 DEF Serves, ListenSlots
  <2>2. FirstOf(ls) \in ls
    BY <2>1, FirstOfSet
  <2>3. listenports[FirstOf(ls)].gos_id = g
    BY <1>2, <2>2 DEF Serves, IInv, EndpointUnique
  <2> QED
    BY <1>2, <2>1, <2>3 DEF OwnerOf
<1>3. CASE Uses(g, port, sockid) /\ port \in LocalPorts /\ ListensOn(port) = {}
  <2> DEFINE ls == {s \in ListenSlots : listenports[s].port = port}
             cs == {s \in ClientSlots : clientports[s].port = port}
  <2>1. cs \in SUBSET Nat /\ cs # {} /\ ls = {}
    BY <1>3 DEF Uses, ClientSlots, ListensOn
  <2>2. FirstOf(cs) \in cs
    BY <2>1, FirstOfSet
  <2>3. port # 0
    BY <1>1, <1>3 DEF LocalPorts
  <2>4. clientports[FirstOf(cs)].gos_id = g /\ clientports[FirstOf(cs)].sock_id = sockid
    BY <1>3, <2>2, <2>3 DEF Uses, IInv, EndpointUnique
  <2> QED
    BY <2>1, <2>4 DEF OwnerOf
<1> QED
  BY <1>2, <1>3 DEF Belongs

LEMMA BelongsStays ==
  ASSUME SlotsGrow, PortsApart, SocketsNumbered,
         NEW g \in Gos, NEW port, NEW sockid, Belongs(g, port, sockid)
  PROVE  Belongs(g, port, sockid)'
<1>1. CASE Serves(g, port) /\ sockid = port
  <2>1. Serves(g, port)'
    BY <1>1 DEF Serves, SlotsGrow
  <2> QED
    BY <1>1, <2>1 DEF Belongs
<1>2. CASE Uses(g, port, sockid) /\ port \in LocalPorts /\ ListensOn(port) = {}
  <2>1. Uses(g, port, sockid)'
    BY <1>2 DEF Uses, SlotsGrow
  <2>2. port \in LocalPorts'
    BY <1>2, ServerAssumption DEF LocalPorts, SlotsGrow
  <2>3. \A h \in Gos : port \notin SocketsOf(h)
    BY <1>2 DEF PortsApart, SocketsNumbered
  <2>4. ListensOn(port)' = {}
    BY <1>2, <2>3 DEF ListensOn, SlotsGrow
  <2> QED
    BY <2>1, <2>2, <2>4 DEF Belongs
<1> QED
  BY <1>1, <1>2 DEF Belongs

LEMMA LocalsGrow ==
  ASSUME SlotsGrow
  PROVE  LocalPorts \subseteq LocalPorts'
BY ServerAssumption DEF LocalPorts, SlotsGrow

LEMMA ClientsStayLocal ==
  ASSUME SlotsGrow, ClientsLocal
  PROVE  ClientsLocal'
<1>0. FirstLport <= lastport'
  BY ServerAssumption DEF ClientsLocal, SlotsGrow
<1> SUFFICES ASSUME NEW s \in ClientSlots, clientports'[s].gos_id \in Gos
             PROVE  clientports'[s].port \in LocalPorts'
  BY <1>0 DEF ClientsLocal
<1>1. CASE clientports'[s].port = lastport' /\ lastport < lastport'
  BY <1>1, ServerAssumption DEF ClientsLocal, LocalPorts, SlotsGrow
<1>2. CASE clientports'[s].port = clientports[s].port /\ clientports'[s].gos_id = clientports[s].gos_id
  BY <1>2, LocalsGrow DEF ClientsLocal
<1> QED
  BY <1>1, <1>2 DEF SlotsGrow

LEMMA SocketNumber ==
  ASSUME IInv, NEW g \in Gos, NEW sockid \in SocketsOf(g)
  PROVE  sockid \in Nat \ {0}
<1>1. \A i \in Entries : active_ports[g][i].sock_id \in Nat
  BY DEF IInv, TypeOK, Entry
<1> QED
  BY <1>1 DEF SocketsOf

\* The slots under the calls of task2 ...
LEMMA ListenGrows ==
  ASSUME IInv, NEW g \in Gos, NEW port \in SocketsOf(g), uip_listen(port, g)
  PROVE  SlotsGrow
<1>1. /\ listenports \in [ListenSlots -> UipSlot] /\ lastport \in Nat /\ g \in Nat
      /\ 65535 \notin Gos /\ port \in Nat
  <2>1. listenports \in [ListenSlots -> UipSlot] /\ lastport \in Nat
    BY DEF IInv, TypeOK
  <2>2. g \in Nat /\ 65535 \notin Gos
    BY SocketAssumption
  <2> QED
    BY <2>1, <2>2, SocketNumber
<1> DEFINE s == LoopEnd(FreePorts \cup Foreign(port, g), UIP_LISTENPORTS)
           new == Slot(port, g, port)
<1>2. new.port = port
  BY <1>1, NewSlot
<1>3. /\ clientports' = clientports /\ lastport' = lastport
      /\ \/ listenports' = listenports
         \/ s \in FreePorts /\ listenports' = [listenports EXCEPT ![s] = new]
  BY DEF uip_listen
<1> HIDE DEF s, new
<1>4. \A t \in ListenSlots : \/ listenports'[t] = listenports[t]
                             \/ listenports[t].port = 0 /\ listenports'[t] = new
  BY <1>1, <1>3 DEF FreePorts
<1>5. \A t \in ListenSlots : listenports[t].port = 0 => listenports[t].gos_id \notin Gos
  BY <1>1 DEF IInv, TablesOK
<1> QED
  BY <1>1, <1>2, <1>3, <1>4, <1>5 DEF SlotsGrow

LEMMA ConnectGrows ==
  ASSUME IInv, ClientsLocal, NEW g \in Gos, NEW sockid \in SocketsOf(g), uip_connect(g, sockid)
  PROVE  SlotsGrow
<1>1. /\ clientports \in [ClientSlots -> UipSlot] /\ lastport \in Nat /\ g \in Nat
      /\ sockid \in Nat
  <2>1. clientports \in [ClientSlots -> UipSlot] /\ lastport \in Nat
    BY DEF IInv, TypeOK
  <2>2. g \in Nat
    BY SocketAssumption
  <2> QED
    BY <2>1, <2>2, SocketNumber
<1> DEFINE s == LoopEnd(FreeClients, UIP_CONNS)
           new == Slot(lastport', g, sockid)
<1>2. /\ listenports' = listenports /\ lastport' = lastport + 1
      /\ \/ clientports' = clientports
         \/ clientports' = [t \in ClientSlots |-> IF t = s THEN new ELSE clientports[t]]
  BY DEF uip_connect
<1>3. new.port = lastport'
  BY <1>1, <1>2, NewSlot
<1>4. s \in FreeClients \/ s \notin ClientSlots
  <2>1. FreeClients \in SUBSET Nat /\ UIP_CONNS + 1 \notin ClientSlots
    BY ServerAssumption DEF FreeClients, ClientSlots
  <2> QED
    BY <2>1, FirstOfSet DEF LoopEnd
<1> HIDE DEF s, new
<1>5. \A t \in ClientSlots : \/ clientports'[t] = clientports[t]
                             \/ clientports[t].port = 0 /\ clientports'[t] = new
  BY <1>2, <1>4 DEF FreeClients
<1>6. \A t \in ClientSlots : clientports[t].port = 0 => clientports[t].gos_id \notin Gos
  BY ServerAssumption DEF ClientsLocal, LocalPorts
<1> QED
  BY <1>1, <1>2, <1>3, <1>5, <1>6 DEF SlotsGrow

\* ... and under what only touches the replies.
SlotsNamed ==
  /\ lastport' = lastport
  /\ \A s \in ListenSlots : /\ listenports'[s].port = listenports[s].port
                            /\ listenports'[s].gos_id = listenports[s].gos_id
                            /\ listenports'[s].sock_id = listenports[s].sock_id
  /\ \A s \in ClientSlots : /\ clientports'[s].port = clientports[s].port
                            /\ clientports'[s].gos_id = clientports[s].gos_id
                            /\ clientports'[s].sock_id = clientports[s].sock_id

LEMMA NamedGrow ==
  ASSUME IInv, SlotsNamed
  PROVE  SlotsGrow
BY DEF IInv, TypeOK, SlotsNamed, SlotsGrow

LEMMA SendNamed ==
  ASSUME IInv, NEW g, NEW sockid, NEW number \in Nat, uip_tcp_send(g, sockid, number)
  PROVE  SlotsNamed
<1>1. /\ listenports \in [ListenSlots -> UipSlot] /\ clientports \in [ClientSlots -> UipSlot]
  BY DEF IInv, TypeOK
<1> DEFINE ls == ListensAs(g, sockid)
           cs == ConnectsAs(g, sockid)
           s == IF ls # {} THEN FirstOf(ls) ELSE LoopEnd(cs, UIP_CONNS)
<1>2. /\ lastport' = lastport
      /\ \/ listenports' = listenports
         \/ listenports' = [listenports EXCEPT ![s] = Queued(listenports[s], number)]
      /\ \/ clientports' = clientports
         \/ clientports' = [clientports EXCEPT ![s] = Queued(clientports[s], number)]
  BY DEF uip_tcp_send
<1> HIDE DEF s
<1> QED
  BY <1>1, <1>2, QueuedSlot DEF SlotsNamed

LEMMA AnswerNamed ==
  ASSUME IInv, Task1
  PROVE  SlotsNamed
<1>1. /\ listenports \in [ListenSlots -> UipSlot] /\ clientports \in [ClientSlots -> UipSlot]
  BY DEF IInv, TypeOK
<1>2. /\ \/ listenports' = listenports
         \/ \E s \in ListenSlots : listenports' = [listenports EXCEPT ![s] = Answered(@)]
      /\ \/ clientports' = clientports
         \/ \E s \in ClientSlots : clientports' = [clientports EXCEPT ![s] = Answered(@)]
  BY AnsweredOnly
<1>3. lastport' = lastport
  BY DEF Task1, Input, Poll, InputDropped, InputListen, InputClient, Task1Found, tables
<1> QED
  BY <1>1, <1>2, <1>3, AnsweredSlot DEF SlotsNamed

LEMMA StepGrows ==
  ASSUME IInv, FramesOK, ClientsLocal, [Next]_vars
  PROVE  SlotsGrow
<1>1. ASSUME UNCHANGED tables
      PROVE  SlotsGrow
  <2>1. SlotsNamed
    BY <1>1 DEF tables, SlotsNamed
  <2> QED
    BY <2>1, NamedGrow
<1>2. CASE Task1
  BY <1>2, AnswerNamed, NamedGrow
<1>3. ASSUME NEW g \in Gos, Task2Serve(g)
      PROVE  SlotsGrow
  <2> DEFINE words == call[g]
  <2>1. task2.gos = g /\ task2.callid # 0
    BY <1>3 DEF Task2Serve
  <2>2. /\ words[1] = g
        /\ \/ task2.callid = LISTEN /\ words[2] \in SocketsOf(g)
           \/ task2.callid = CONNECT /\ words[4] \in SocketsOf(g)
           \/ task2.callid = TCP_SEND
    BY <2>1, WholeCall
  <2>3. CASE task2.callid = LISTEN /\ uip_listen(words[2], words[1])
    <3>1. words[2] \in SocketsOf(g)
      BY <2>2, <2>3 DEF LISTEN, CONNECT, TCP_SEND
    <3> QED
      BY <2>2, <2>3, <3>1, ListenGrows
  <2>4. CASE task2.callid = CONNECT /\ uip_connect(words[1], words[4])
    <3>1. words[4] \in SocketsOf(g)
      BY <2>2, <2>4 DEF LISTEN, CONNECT, TCP_SEND
    <3> QED
      BY <2>2, <2>4, <3>1, ConnectGrows
  <2>5. CASE /\ task2.callid = TCP_SEND
             /\ IF words[3] > 0 THEN uip_tcp_send(words[1], words[4], words[5])
                                ELSE UNCHANGED tables
    <3>1. CASE ~(words[3] > 0)
      BY <1>1, <2>5, <3>1
    <3>2. CASE words[3] > 0
      <4>1. words[5] \in Nat
        BY <1>3, <2>5, <3>2, NumberThere
      <4>2. uip_tcp_send(words[1], words[4], words[5])
        BY <2>5, <3>2
      <4> HIDE DEF words
      <4> QED
        BY <4>1, <4>2, SendNamed, NamedGrow
    <3> QED
      BY <3>1, <3>2
  <2> QED
    BY <1>3, <2>3, <2>4, <2>5 DEF Task2Serve
<1>4. CASE Task2
  <2>1. ASSUME Task2Begin \/ \E g \in Gos : Task2CallId(g)
        PROVE  UNCHANGED tables
    BY <2>1 DEF Task2Begin, Task2CallId
  <2> QED
    BY <1>1, <1>3, <1>4, <2>1 DEF Task2
<1>5. CASE UNCHANGED vars \/ \E g \in Gos : Guest(g)
  BY <1>1, <1>5 DEF vars, Guest, server
<1> QED
  BY <1>2, <1>4, <1>5 DEF Next, Partition

-----------------------------------------------------------------------------
\* What a guest has of packets is for its sockets: the messages in its channel
\* and in the hands of its receive, and what it keeps, copies and hands out.

Owns(g, n, sockid) == n \in 1 .. Len(arrived) /\ Belongs(g, arrived[n], sockid)

\* A message names the socket of a client, or the port of a server.
Delivered(g) ==
  {m \in Messages(SocketsOf(g)) :
     /\ Owns(g, m[5], IF m[4] = 0 THEN m[2] ELSE m[4])
     /\ m[4] # 0 => m[2] \in LocalPorts}

QueuesOwned(g) ==
  \A i \in Entries : \A n \in PacketsIn(Kept(g, i)) : Owns(g, n, active_ports[g][i].sock_id)
HandedOwned(g) ==
  \A k \in 1 .. Len(handed[g]) : Owns(g, handed[g][k].packet, handed[g][k].sockid)
CopyOwned(g) == \A n \in CopiedBy(g) : Owns(g, n, receiving[g].sockid)

\* A receive of a guest with several sockets has one message, and index is the
\* entry of its socket.
OneMessage(g) ==
  LET r == receiving[g]
  IN  /\ r.pc # "again"
      /\ r.pc = "loop" /\ r.tcp_recv_data # <<>> =>
           /\ Len(r.tcp_recv_data) = Header + dlength(r)
           /\ active_ports[g][r.index].sock_id = r.sockid

WordsOwned(g) == Framed(InHand(g), Delivered(g)) /\ Framed(Waiting(g), Delivered(g))
Owned(g) ==
  /\ WordsOwned(g)
  /\ QueuesOwned(g) /\ HandedOwned(g) /\ CopyOwned(g)
  /\ OneSocket(g) \/ (Quota[g] > 1 /\ OneMessage(g))

NumbersOK ==
  \A g \in Gos : spark_sockid[g] >= FirstSock /\ SocketsOf(g) \subseteq Numbers(g)

OwnersOK == ClientsLocal /\ NumbersOK /\ (PortsApart => \A g \in Gos : Owned(g))

\* A guest that opens several sockets takes one message at a time.
OneAtATime ==
  \A g \in Gos : Quota[g] <= 1 \/ \A size \in RecvSizes[g] : Lengths = {size}

\* What is owned stays so.
OwnersGrow ==
  /\ LocalPorts \subseteq LocalPorts'
  /\ \A g \in Gos : \A n, sockid : Owns(g, n, sockid) => Owns(g, n, sockid)'

LEMMA ArrivedGrows ==
  ASSUME IInv, [Next]_vars
  PROVE  \A n \in 1 .. Len(arrived) : n \in 1 .. Len(arrived') /\ arrived'[n] = arrived[n]
<1>1. arrived \in Seq(Nat)
  BY DEF IInv, TypeOK
<1>2. arrived' = arrived \/ \E port \in Nat : arrived' = Append(arrived, port)
  <2>1. \A port \in ArrivesFor : port \in Nat
    BY PortsNamed
  <2> QED
    BY <2>1 DEF Next, Partition, Task1, Task2, Poll, Guest, server, vars
<1>3. ASSUME NEW port \in Nat, arrived' = Append(arrived, port)
      PROVE  /\ Len(arrived') = Len(arrived) + 1
             /\ \A n \in 1 .. Len(arrived) : arrived'[n] = arrived[n]
  BY <1>1, <1>3, AppendProperties
<1>4. Len(arrived) \in Nat
  BY <1>1
<1> QED
  BY <1>2, <1>3, <1>4

LEMMA StepOwnersGrow ==
  ASSUME IInv, FramesOK, ClientsLocal, NumbersOK, PortsApart, [Next]_vars
  PROVE  OwnersGrow
<1>1. SlotsGrow
  BY StepGrows
<1>2. SocketsNumbered
  BY DEF NumbersOK, SocketsNumbered
<1>3. \A n \in 1 .. Len(arrived) : n \in 1 .. Len(arrived') /\ arrived'[n] = arrived[n]
  BY ArrivedGrows
<1>4. ASSUME NEW g \in Gos, NEW n, NEW sockid, Owns(g, n, sockid)
      PROVE  Owns(g, n, sockid)'
  <2>1. PICK port : port = arrived[n]
    OBVIOUS
  <2>2. n \in 1 .. Len(arrived') /\ arrived'[n] = port /\ Belongs(g, port, sockid)
    BY <1>3, <1>4, <2>1 DEF Owns
  <2>3. Belongs(g, port, sockid)'
    BY <1>1, <1>2, <2>2, BelongsStays
  <2> QED
    BY <2>2, <2>3 DEF Owns, Belongs, Serves, Uses
<1> QED
  BY <1>1, <1>4, LocalsGrow DEF OwnersGrow

LEMMA MoreDelivered ==
  ASSUME OwnersGrow, NEW g \in Gos, SocketsOf(g) \subseteq SocketsOf(g)'
  PROVE  Delivered(g) \subseteq Delivered(g)'
<1>1. Messages(SocketsOf(g)) \subseteq Messages(SocketsOf(g)')
  BY MoreMessages
<1> QED
  BY <1>1 DEF Delivered, OwnersGrow, Messages

\* The words of a guest, when it does nothing with them.
LEMMA WordsStayOwned ==
  ASSUME IInv, OwnersGrow, NEW g \in Gos, WordsOwned(g), SocketsOf(g) \subseteq SocketsOf(g)',
         InHand(g)' = InHand(g), Waiting(g)' = Waiting(g)
  PROVE  WordsOwned(g)'
<1> DEFINE M == Delivered(g)
           N == Delivered(g)'
           hand == InHand(g)
           wait == Waiting(g)
<1>1. M \subseteq N /\ hand \in Seq(Word) /\ wait \in Seq(Word)
  BY MoreDelivered, HandTyped
<1>2. Framed(hand, M) /\ Framed(wait, M)
  BY DEF WordsOwned
<1> HIDE DEF M, N, hand, wait
<1>3. Framed(hand, N) /\ Framed(wait, N)
  BY <1>1, <1>2, FramedMore
<1>4. Framed(InHand(g)', Delivered(g)') /\ Framed(Waiting(g)', Delivered(g)')
  BY <1>3 DEF N, hand, wait
<1> QED
  BY <1>4 DEF WordsOwned, Framed, Cut, Cuts, Pieces

LEMMA OwnedStays ==
  ASSUME IInv, OwnersGrow, NEW g \in Gos, Owned(g),
         UNCHANGED <<recv[g], receiving[g], active_ports[g], handed[g]>>
  PROVE  Owned(g)'
<1>1. InHand(g)' = InHand(g) /\ Waiting(g)' = Waiting(g)
  BY WordsStay
<1>2. WordsOwned(g)'
  BY <1>1, WordsStayOwned DEF Owned, SocketsOf
<1>3. QueuesOwned(g)' /\ HandedOwned(g)' /\ CopyOwned(g)'
  BY DEF Owned, OwnersGrow, QueuesOwned, HandedOwned, CopyOwned, Kept, CopiedBy
<1>4. (OneSocket(g) => OneSocket(g)') /\ (OneMessage(g) => OneMessage(g)')
  BY DEF OneSocket, InUse, OneMessage
<1> QED
  BY <1>2, <1>3, <1>4 DEF Owned

\* The data of a packet goes to the guest that owns its port: the slot of a
\* server, or the slot at c, which the search for the port has just left there.
LEMMA SentOwned ==
  ASSUME ~Interrupted, IInv, FramesOK, ClientsLocal, NEW g \in Gos, NEW sockid \in Nat, NEW f,
         PacketSent(g, f, sockid)
  PROVE  /\ Owns(g, f.packet, IF sockid = 0 THEN f.port ELSE sockid)
         /\ sockid # 0 => f.port \in LocalPorts
<1>1. PICK port, n : port = f.port /\ n = f.packet
  OBVIOUS
<1>2. n \in 1 .. Len(arrived) /\ arrived[n] = port
  BY <1>1 DEF PacketSent, Came
<1>3. CASE FromServer(g, f, sockid)
  <2>1. ListensOn(port) \in SUBSET Nat /\ ListensOn(port) # {}
    BY <1>1, <1>3 DEF FromServer, ListensOn, ListenSlots
  <2>2. FirstOf(ListensOn(port)) \in ListensOn(port)
    BY <2>1, FirstOfSet
  <2>3. Serves(g, port) /\ sockid = 0
    BY <1>1, <1>3, <2>2 DEF FromServer, ListensOn, Serves
  <2> QED
    BY <1>1, <1>2, <2>3 DEF Owns, Belongs
<1>4. CASE FromClient(g, f, sockid)
  <2>1. /\ c \in ClientSlots /\ clientports[c].gos_id = g /\ clientports[c].sock_id = sockid
        /\ ListensOn(port) = {} /\ ConnectsOn(port) # {} /\ c = FirstOf(ConnectsOn(port))
    BY <1>1, <1>4 DEF FromClient, IInv, FoundOK
  <2>2. ConnectsOn(port) \in SUBSET Nat
    BY DEF ConnectsOn, ClientSlots
  <2>3. clientports[c].port = port
    BY <2>1, <2>2, FirstOfSet DEF ConnectsOn
  <2>4. Uses(g, port, sockid) /\ port \in LocalPorts
    BY <2>1, <2>3 DEF Uses, ClientsLocal
  <2>5. sockid # 0
    BY <2>1, SocketNumber DEF FramesOK, SlotKnown
  <2> QED
    BY <1>1, <1>2, <2>1, <2>4, <2>5 DEF Owns, Belongs
<1> QED
  BY <1>3, <1>4 DEF PacketSent

LEMMA SendsOwned ==
  ASSUME ~Interrupted, IInv, FramesOK, ClientsLocal, OwnersGrow, UNCHANGED app,
         NEW g \in Gos, Owned(g), NEW sockid \in Nat, NEW f, PacketSent(g, f, sockid)
  PROVE  Owned(g)'
<1>1. PICK port \in Nat, length \in Nat, number \in Nat :
        port = f.port /\ length = f.length /\ number = f.packet
  BY ServerAssumption DEF PacketSent, Came
<1>2. /\ length \in Lengths /\ length \in Nat \ {0}
      /\ port \in SocketsOf(g) \/ sockid \in SocketsOf(g)
      /\ SendsTo(g, port, length, sockid, number)
  BY <1>1, ServerAssumption DEF PacketSent, Came
<1>3. SocketsOf(g)' = SocketsOf(g)
  BY DEF app, SocketsOf
<1> DEFINE m == Message(port, length, sockid, number)
           N == Delivered(g)'
           hand == InHand(g)
           wait == Waiting(g)
<1>4. Says(m, port, length, sockid, number)
  BY <1>2, MessageWords
<1> HIDE DEF m
<1>5. m \in Seq(Word) /\ 0 < Len(m) /\ m \in Messages(SocketsOf(g))
  BY <1>2, <1>4 DEF Messages, Says
<1>6. m \in N
  <2>1. /\ Owns(g, number, IF sockid = 0 THEN port ELSE sockid)'
        /\ sockid # 0 => port \in LocalPorts'
    BY <1>1, SentOwned DEF OwnersGrow
  <2> QED
    BY <1>3, <1>4, <1>5, <2>1 DEF Delivered, Says
<1>7. hand \in Seq(Word) /\ wait \in Seq(Word) /\ Delivered(g) \subseteq N
  BY <1>3, HandTyped, MoreDelivered
<1>8. Framed(hand, Delivered(g)) /\ Framed(wait, Delivered(g))
  BY DEF Owned, WordsOwned
<1>9. InHand(g)' = hand /\ Waiting(g)' = wait \o m
  <2>1. receiving' = receiving
    BY DEF app
  <2> QED
    BY <1>2, <1>5, <2>1, WordsSent DEF m
<1> HIDE DEF N, hand, wait
<1>10. Framed(hand, N) /\ Framed(wait \o m, N)
  BY <1>5, <1>6, <1>7, <1>8, FramedMore, FramedAppended
<1>11. Framed(InHand(g)', Delivered(g)') /\ Framed(Waiting(g)', Delivered(g)')
  BY <1>9, <1>10 DEF N
<1>12. WordsOwned(g)'
  BY <1>11 DEF WordsOwned, Framed, Cut, Cuts, Pieces
<1>13. QueuesOwned(g)' /\ HandedOwned(g)' /\ CopyOwned(g)'
  BY DEF Owned, OwnersGrow, QueuesOwned, HandedOwned, CopyOwned, Kept, CopiedBy, app
<1>14. (OneSocket(g) => OneSocket(g)') /\ (OneMessage(g) => OneMessage(g)')
  BY DEF OneSocket, InUse, OneMessage, app
<1> QED
  BY <1>12, <1>13, <1>14 DEF Owned

LEMMA PartitionOwned ==
  ASSUME ~Interrupted, IInv, FramesOK, RoundsOK, PassageOK, ClientsLocal, OwnersGrow,
         Partition, \A g \in Gos : Owned(g)
  PROVE  \A g \in Gos : Owned(g)'
<1>1. PacketMoves /\ UNCHANGED app
  BY PartitionMoves DEF PassageOK, Partition
<1> SUFFICES ASSUME NEW g \in Gos
             PROVE  Owned(g)'
  OBVIOUS
<1>2. CASE recv'[g] = recv[g]
  BY <1>1, <1>2, OwnedStays DEF app
<1>3. CASE recv'[g] # recv[g]
  <2>1. PICK h \in Gos, sockid \in Nat : \E f : PacketSent(h, f, sockid)
    BY <1>1, <1>3 DEF PacketMoves
  <2>2. h = g
    BY <1>3, <2>1 DEF PacketSent, SendsTo, IInv, TypeOK
  <2> QED
    BY <1>1, <2>1, <2>2, SendsOwned
<1> QED
  BY <1>2, <1>3

\* The message at the front of the words.
LEMMA FirstOwned ==
  ASSUME IInv, PortsApart, NumbersOK, NEW g \in Gos,
         NEW w \in Seq(Word), Framed(w, Delivered(g)), w # <<>>
  PROVE  /\ Header + w[3] \in 1 .. Len(w)
         /\ SubSeq(w, 1, Header + w[3]) \in Delivered(g)
         /\ SubSeq(w, 1, Header + w[3]) \in Seq(Word)
         /\ Framed(Drop(w, Header + w[3]), Delivered(g))
         /\ \A sockid \in SocketsOf(g) : sockid \in {w[2], w[4]} => Owns(g, w[5], sockid)
<1>1. PICK e \in 1 .. Len(w) : SubSeq(w, 1, e) \in Delivered(g) /\ Framed(Drop(w, e), Delivered(g))
  BY FirstFramed
<1> DEFINE m == SubSeq(w, 1, e)
<1>2. m \in Messages(SocketsOf(g))
  BY <1>1 DEF Delivered
<1>3. e = Header + w[3] /\ m \in Seq(Word) /\ \A k \in 1 .. 5 : m[k] = w[k]
  BY <1>2, HeadMessage, ZenonT(60)
<1>4. /\ Owns(g, m[5], IF m[4] = 0 THEN m[2] ELSE m[4])
      /\ m[4] # 0 => m[2] \in LocalPorts
  BY <1>1 DEF Delivered
<1> HIDE DEF m
<1>5. m[2] = w[2] /\ m[4] = w[4] /\ m[5] = w[5]
  BY <1>3
<1>6. ASSUME NEW sockid \in SocketsOf(g), sockid \in {w[2], w[4]}
      PROVE  Owns(g, w[5], sockid)
  <2>1. sockid # 0 /\ sockid \notin LocalPorts
    BY SocketNumber DEF NumbersOK, PortsApart
  <2>2. sockid = IF w[4] = 0 THEN w[2] ELSE w[4]
    BY <1>4, <1>5, <1>6, <2>1
  <2> QED
    BY <1>4, <1>5, <2>2
<1> QED
  BY <1>1, <1>3, <1>6 DEF m

\* A socket is opened: its entry is empty, and it is the first one of a guest
\* that may open one.
LEMMA OpensOwned ==
  ASSUME IInv, OwnersGrow, NEW g \in Gos, Owned(g), NEW sockid \in Nat \ {0}, Opens(g, sockid),
         receiving[g].pc = "app", UNCHANGED <<recv[g], receiving[g], handed[g]>>
  PROVE  Owned(g)'
<1>1. FreeEntries(g) \in SUBSET Nat /\ FreeEntries(g) # {}
  BY DEF Opens, FreeEntries, Entries
<1>2. NewEntry(g) = FirstOf(FreeEntries(g))
  BY DEF NewEntry, FirstOf
<1>3. NewEntry(g) \in FreeEntries(g)
  BY <1>1, <1>2, FirstOfSet
<1>4. PICK i \in FreeEntries(g) :
        active_ports' = [active_ports EXCEPT ![g][i] = [sock_id |-> sockid, kept |-> <<>>]]
  BY <1>3 DEF Opens
<1>5. /\ i \in Entries /\ i \notin InUse(g) /\ active_ports'[g][i].kept = <<>>
      /\ \A j \in Entries \ {i} : active_ports'[g][j] = active_ports[g][j]
  BY <1>4 DEF IInv, TypeOK, FreeEntries
<1>6. WordsOwned(g)'
  <2>1. InHand(g)' = InHand(g) /\ Waiting(g)' = Waiting(g)
    BY WordsStay
  <2>2. SocketsOf(g) \subseteq SocketsOf(g)'
    BY SocketAdded
  <2> QED
    BY <2>1, <2>2, WordsStayOwned DEF Owned
<1>7. QueuesOwned(g)'
  <2>1. PacketsIn(active_ports'[g][i].kept) = {}
    BY <1>5, EmptySeq DEF PacketsIn
  <2> QED
    BY <1>5, <2>1 DEF Owned, QueuesOwned, OwnersGrow, Kept
<1>8. HandedOwned(g)' /\ CopyOwned(g)'
  BY DEF Owned, OwnersGrow, HandedOwned, CopyOwned, CopiedBy
<1>9. OneSocket(g)' \/ (Quota[g] > 1 /\ OneMessage(g)')
  <2>1. CASE Quota[g] > 1
    BY <2>1 DEF OneMessage
  <2>2. CASE ~(Quota[g] > 1)
    <3>1. IsFiniteSet(InUse(g))
      <4>1. IsFiniteSet(Entries)
        BY FS_Interval, SocketAssumption DEF Entries
      <4> QED
        BY <4>1, FS_Subset DEF InUse
    <3>2. Cardinality(InUse(g)) \in Nat /\ Cardinality(InUse(g)) < Quota[g] /\ Quota[g] \in Nat
      BY <3>1, FS_CardinalityType, SocketAssumption DEF Opens
    <3>3. InUse(g) = {}
      BY <2>2, <3>1, <3>2, FS_EmptySet
    <3> QED
      BY <1>5, <3>3 DEF OneSocket, InUse
  <2> QED
    BY <2>1, <2>2
<1> QED
  BY <1>6, <1>7, <1>8, <1>9 DEF Owned

\* Packets of a queue, when the oldest is taken out or one is put behind it.
LEMMA TailPackets ==
  ASSUME NEW s \in Seq(Packet), s # <<>>
  PROVE  PacketsIn(Tail(s)) \subseteq PacketsIn(s) /\ Head(s).packet \in PacketsIn(s)
<1> DEFINE t == Tail(s)
<1>1. /\ Len(t) = Len(s) - 1 /\ Len(s) \in Nat /\ Len(s) # 0 /\ Head(s) = s[1]
      /\ \A k \in 1 .. Len(t) : t[k] = s[k + 1]
  BY HeadTailProperties
<1> HIDE DEF t
<1>2. \A k \in 1 .. Len(t) : k + 1 \in 1 .. Len(s)
  BY <1>1
<1>3. PacketsIn(t) \subseteq PacketsIn(s) /\ 1 \in 1 .. Len(s)
  BY <1>1, <1>2 DEF PacketsIn
<1> QED
  BY <1>1, <1>3 DEF t, PacketsIn

LEMMA MorePackets ==
  ASSUME NEW s \in Seq(Packet), NEW p \in Packet
  PROVE  PacketsIn(Append(s, p)) \subseteq PacketsIn(s) \cup {p.packet}
<1> DEFINE t == Append(s, p)
<1>1. /\ Len(t) = Len(s) + 1 /\ Len(s) \in Nat /\ t[Len(s) + 1] = p
      /\ \A k \in 1 .. Len(s) : t[k] = s[k]
  BY AppendProperties
<1> HIDE DEF t
<1>2. \A k \in 1 .. Len(t) : k \in 1 .. Len(s) \/ k = Len(s) + 1
  BY <1>1
<1>3. PacketsIn(t) \subseteq PacketsIn(s) \cup {p.packet}
  BY <1>1, <1>2 DEF PacketsIn
<1> QED
  BY <1>3 DEF t

\* One more packet is handed out.
LEMMA HandsOwned ==
  ASSUME NEW g \in Gos, handed[g] \in Seq(Handed), NEW x \in Handed, OwnersGrow, HandedOwned(g),
         Owns(g, x.packet, x.sockid), handed'[g] = Append(handed[g], x)
  PROVE  HandedOwned(g)'
<1> DEFINE s == handed[g]
<1>1. /\ Len(handed'[g]) = Len(s) + 1 /\ Len(s) \in Nat /\ handed'[g][Len(s) + 1] = x
      /\ \A k \in 1 .. Len(s) : handed'[g][k] = s[k]
  BY AppendProperties
<1>2. \A k \in 1 .. Len(handed'[g]) : k \in 1 .. Len(s) \/ k = Len(s) + 1
  BY <1>1
<1>3. ASSUME NEW k \in 1 .. Len(handed'[g])
      PROVE  \E n, sockid : /\ n = handed'[g][k].packet /\ sockid = handed'[g][k].sockid
                            /\ Owns(g, n, sockid)'
  <2>1. PICK n, sockid : n = handed'[g][k].packet /\ sockid = handed'[g][k].sockid
    OBVIOUS
  <2>2. Owns(g, n, sockid)
    BY <1>1, <1>2, <2>1 DEF HandedOwned
  <2> QED
    BY <2>1, <2>2 DEF OwnersGrow
<1> QED
  BY <1>3 DEF HandedOwned

LEMMA KeptOwned ==
  ASSUME IInv, IInv', OwnersGrow, NEW g \in Gos, Owned(g), handed \in [Gos -> Seq(Handed)],
         NEW i \in Entries, RecvKept(g, i)
  PROVE  Owned(g)'
<1> DEFINE old == active_ports[g][i].kept
           x == [sockid |-> active_ports[g][i].sock_id, packet |-> Head(old).packet]
<1>1. /\ active_ports \in [Gos -> [Entries -> Entry]]
      /\ active_ports' \in [Gos -> [Entries -> Entry]] /\ receiving \in [Gos -> Receive]
      /\ active_ports' = [active_ports EXCEPT ![g][i].kept = Tail(active_ports[g][i].kept)]
      /\ recv' = recv /\ receiving[g].pc = "app" /\ receiving' = [receiving EXCEPT ![g] = Idle]
      /\ old # <<>>
      /\ handed'[g] = handed[g] \/ handed'[g] = Append(handed[g], x)
  BY DEF IInv, TypeOK, ReceivesOK, RecvKept, Hands, Step, KeptAfter, Kept, channels
<1>2. old \in Seq(Packet) /\ active_ports[g][i].sock_id \in Nat
  BY <1>1 DEF Entry
<1>3. PacketsIn(Tail(old)) \subseteq PacketsIn(old) /\ Head(old).packet \in PacketsIn(old)
  BY <1>1, <1>2, TailPackets
<1>4. Head(old) \in Packet
  BY <1>1, <1>2, HeadTailProperties
<1>5. x \in Handed /\ Owns(g, x.packet, x.sockid)
  BY <1>2, <1>3, <1>4 DEF Handed, Packet, Owned, QueuesOwned, Kept
<1>6. /\ active_ports'[g][i].kept = Tail(old)
      /\ \A j \in Entries \ {i} : active_ports'[g][j] = active_ports[g][j]
      /\ \A j \in Entries : active_ports'[g][j].sock_id = active_ports[g][j].sock_id
  BY <1>1, KeptChanged, SocketsSame
<1>7. receiving'[g].pc = "app" /\ CopiedBy(g)' = {}
  BY <1>1 DEF CopiedBy, Idle
<1> HIDE DEF old, x
<1>8. WordsOwned(g)'
  <2>1. InHand(g)' = InHand(g) /\ Waiting(g)' = Waiting(g)
    BY <1>1, <1>7, WordsStay
  <2>2. SocketsOf(g)' = SocketsOf(g)
    BY <1>6 DEF SocketsOf
  <2> QED
    BY <2>1, <2>2, WordsStayOwned DEF Owned
<1>9. QueuesOwned(g)'
  <2>1. \A j \in Entries : PacketsIn(active_ports'[g][j].kept) \subseteq PacketsIn(active_ports[g][j].kept)
    BY <1>3, <1>6 DEF old
  <2> QED
    BY <1>6, <2>1 DEF Owned, QueuesOwned, OwnersGrow, Kept
<1>10. HandedOwned(g)'
  <2>1. CASE handed'[g] = handed[g]
    BY <2>1 DEF Owned, HandedOwned, OwnersGrow
  <2>2. CASE handed'[g] = Append(handed[g], x)
    BY <1>5, <2>2, HandsOwned DEF Owned
  <2> QED
    BY <1>1, <2>1, <2>2
<1>11. CopyOwned(g)'
  BY <1>7 DEF CopyOwned
<1>12. (OneSocket(g) => OneSocket(g)') /\ OneMessage(g)'
  BY <1>6, <1>7 DEF OneSocket, InUse, OneMessage
<1> QED
  BY <1>8, <1>9, <1>10, <1>11, <1>12 DEF Owned

\* What a receive leaves alone when it takes words.
LEMMA TakesOwned ==
  ASSUME OwnersGrow, NEW g \in Gos, Owned(g), WordsOwned(g)', CopyOwned(g)',
         UNCHANGED <<active_ports, handed>>, OneMessage(g)' \/ OneSocket(g)
  PROVE  Owned(g)'
<1>1. QueuesOwned(g)' /\ HandedOwned(g)'
  BY DEF Owned, OwnersGrow, QueuesOwned, HandedOwned, Kept
<1>2. OneSocket(g) => OneSocket(g)'
  BY DEF OneSocket, InUse
<1> QED
  BY <1>1, <1>2 DEF Owned

LEMMA FirstReceiveOwned ==
  ASSUME OneAtATime, IInv, FramesOK, RoundsOK, NumbersOK, PortsApart, OwnersGrow,
         NEW g \in Gos, g \notin cut', Owned(g), NEW i \in Entries, NEW size \in RecvSizes[g],
         RecvFirst(g, i, size)
  PROVE  Owned(g)'
<1> DEFINE w == Waiting(g)
           M == Delivered(g)
           N == Delivered(g)'
<1>1. UNCHANGED <<active_ports, handed>> /\ SocketsOf(g)' = SocketsOf(g)
  BY DEF RecvFirst, SocketsOf
<1>2. /\ w # <<>> /\ receiving'[g].buffer_bytes = 0
      /\ receiving'[g].sockid = active_ports[g][i].sock_id /\ receiving'[g].index = i
      /\ \/ receiving'[g].pc = "again" /\ InHand(g)' = w /\ Waiting(g)' = <<>>
         \/ /\ receiving'[g].pc = "loop"
            /\ \E n \in 0 .. Len(w) : /\ EndsMessage(w, n) /\ n = Header + size
                                     /\ InHand(g)' = SubSeq(w, 1, n) /\ Waiting(g)' = Drop(w, n)
      /\ Lengths = {size} => receiving'[g].pc = "loop" /\ w[3] = size
  BY WordsTaken
<1>3. w \in Seq(Word) /\ M \subseteq N /\ Framed(w, M) /\ M \subseteq Messages(SocketsOf(g))
  BY <1>1, HandTyped, MoreDelivered DEF Owned, WordsOwned, Delivered
<1>4. CopyOwned(g)'
  BY <1>2 DEF CopyOwned, CopiedBy
<1> HIDE DEF w, M, N
<1>5. Framed(InHand(g)', N) /\ Framed(Waiting(g)', N)
  <2>1. CASE InHand(g)' = w /\ Waiting(g)' = <<>>
    <3>1. Framed(w, N)
      BY <1>3, FramedMore
    <3> QED
      BY <2>1, <3>1, NothingFramed
  <2>2. ASSUME NEW n \in 0 .. Len(w), EndsMessage(w, n),
               InHand(g)' = SubSeq(w, 1, n), Waiting(g)' = Drop(w, n)
        PROVE  Framed(InHand(g)', N) /\ Framed(Waiting(g)', N)
    <3>1. Framed(SubSeq(w, 1, n), M) /\ Framed(Drop(w, n), M)
      BY <1>3, <2>2, CutAtEnd
    <3>2. SubSeq(w, 1, n) \in Seq(Word) /\ Drop(w, n) \in Seq(Word)
      BY <1>3, PartAtFront, WordsLeft
    <3>3. Framed(SubSeq(w, 1, n), N) /\ Framed(Drop(w, n), N)
      BY <1>3, <3>1, <3>2, FramedMore
    <3> QED
      BY <2>2, <3>3
  <2> QED
    BY <1>2, <2>1, <2>2
<1>6. WordsOwned(g)'
  <2>1. Framed(InHand(g)', Delivered(g)') /\ Framed(Waiting(g)', Delivered(g)')
    BY <1>5 DEF N
  <2> QED
    BY <2>1 DEF WordsOwned, Framed, Cut, Cuts, Pieces
<1>7. OneMessage(g)' \/ OneSocket(g)
  <2>1. CASE OneSocket(g)
    BY <2>1
  <2>2. CASE ~OneSocket(g)
    <3>1. Quota[g] > 1 /\ Quota[g] \in Nat
      BY <2>2, SocketAssumption DEF Owned
    <3>2. Lengths = {size}
      BY <3>1 DEF OneAtATime
    <3>3. PICK n \in 0 .. Len(w) : n = Header + size /\ InHand(g)' = SubSeq(w, 1, n)
      BY <1>2, <3>2
    <3>4. /\ receiving'[g].pc = "loop" /\ receiving'[g].tcp_recv_data = SubSeq(w, 1, n)
      BY <1>2, <3>2, <3>3 DEF InHand
    <3>5. size \in Nat \ {0}
      BY <3>2, ServerAssumption
    <3> DEFINE m == SubSeq(w, 1, n)
    <3>6. Len(m) = n /\ \A k \in 1 .. n : m[k] = w[k]
      BY <1>3, PartAtFront
    <3> HIDE DEF m
    <3>7. Len(m) = Header + m[3]
      <4>1. 3 \in 1 .. n
        BY <3>3, <3>5 DEF Header
      <4> QED
        BY <1>2, <3>2, <3>3, <3>6, <4>1
    <3>8. active_ports'[g][receiving'[g].index].sock_id = receiving'[g].sockid
      BY <1>1, <1>2
    <3> QED
      BY <3>4, <3>7, <3>8 DEF OneMessage, dlength, m
  <2> QED
    BY <2>1, <2>2
<1> QED
  BY <1>1, <1>4, <1>6, <1>7, TakesOwned

LEMMA AgainOwned ==
  ASSUME IInv, OwnersGrow, NEW g \in Gos, Owned(g), RecvAgain(g)
  PROVE  Owned(g)'
<1>1. UNCHANGED <<active_ports, handed>>
  BY DEF RecvAgain
<1>2. /\ InHand(g)' = InHand(g) /\ Waiting(g)' = Waiting(g)
      /\ receiving[g].pc = "again" /\ receiving'[g].sockid = receiving[g].sockid
      /\ receiving'[g].buffer = receiving[g].buffer
      /\ receiving'[g].buffer_bytes = receiving[g].buffer_bytes
  BY WordsCounted
<1>3. WordsOwned(g)'
  BY <1>1, <1>2, WordsStayOwned DEF Owned, SocketsOf
<1>4. CopyOwned(g)'
  BY <1>2 DEF Owned, OwnersGrow, CopyOwned, CopiedBy
<1>5. OneSocket(g)
  BY <1>2 DEF Owned, OneMessage
<1> QED
  BY <1>1, <1>3, <1>4, <1>5, TakesOwned

\* A round of the loop: the message it is at, and the words behind it.
LEMMA RoundOwned ==
  ASSUME IInv, PortsApart, NumbersOK, OwnersGrow, NEW g \in Gos, Owned(g),
         receiving[g].pc = "loop", receiving[g].tcp_recv_data # <<>>,
         SocketsOf(g)' = SocketsOf(g), recv'[g] = recv[g], receiving'[g].pc = "loop",
         receiving'[g].tcp_recv_data = NextMessage(receiving[g])
  PROVE  /\ WordsOwned(g)'
         /\ OneSocket(g) \/ receiving'[g].tcp_recv_data = <<>>
         /\ \A sockid \in SocketsOf(g) :
              sockid \in {dport(receiving[g]), dsockid(receiving[g])} =>
                Owns(g, packet(receiving[g]), sockid)
<1> DEFINE w == InHand(g)
           e == Header + w[3]
           M == Delivered(g)
           N == Delivered(g)'
           wait == Waiting(g)
<1>1. /\ w \in Seq(Word) /\ w # <<>> /\ wait \in Seq(Word)
      /\ w = receiving[g].tcp_recv_data
  BY HandTyped DEF InHand
<1>2. M \subseteq N /\ Framed(w, M) /\ Framed(wait, M)
  BY MoreDelivered DEF Owned, WordsOwned
<1>3. InHand(g)' = Drop(w, e) /\ Waiting(g)' = wait
  BY WordsLooped
<1>4. receiving'[g].tcp_recv_data = Drop(w, e)
  BY <1>3 DEF InHand
<1> HIDE DEF w, M, N, wait
<1>5. /\ e \in 1 .. Len(w) /\ Framed(Drop(w, e), M)
      /\ \A sockid \in SocketsOf(g) : sockid \in {w[2], w[4]} => Owns(g, w[5], sockid)
  <2>1. Framed(w, Delivered(g))
    BY <1>2 DEF M
  <2> QED
    BY <1>1, <2>1, FirstOwned DEF M
<1>6. Drop(w, e) \in Seq(Word)
  <2>1. e \in 0 .. Len(w)
    BY <1>1, <1>5
  <2> QED
    BY <1>1, <2>1, WordsLeft
<1>7. Framed(Drop(w, e), N) /\ Framed(wait, N)
  BY <1>1, <1>2, <1>5, <1>6, FramedMore
<1>8. WordsOwned(g)'
  <2>1. Framed(InHand(g)', Delivered(g)') /\ Framed(Waiting(g)', Delivered(g)')
    BY <1>3, <1>7 DEF N
  <2> QED
    BY <2>1 DEF WordsOwned, Framed, Cut, Cuts, Pieces
<1>9. OneSocket(g) \/ receiving'[g].tcp_recv_data = <<>>
  <2>1. CASE OneMessage(g)
    <3>1. Len(w) = e
      BY <1>1, <2>1 DEF OneMessage, dlength
    <3>2. Drop(w, Len(w)) = <<>>
      BY <1>1, NothingDropped
    <3> QED
      BY <1>4, <3>1, <3>2
  <2> QED
    BY <2>1 DEF Owned
<1> QED
  BY <1>1, <1>5, <1>8, <1>9 DEF dport, dsockid, packet

LEMMA OwnOwned ==
  ASSUME IInv, PortsApart, NumbersOK, InOrderOK, OwnersGrow, NEW g \in Gos, Owned(g), RecvOwn(g)
  PROVE  Owned(g)'
<1> DEFINE r == receiving[g]
<1>1. /\ UNCHANGED <<recv, active_ports, handed>> /\ r \in Receive
      /\ r.pc = "loop" /\ r.tcp_recv_data # <<>> /\ Own(r)
      /\ receiving'[g] = [r EXCEPT !.buffer = packet(r), !.flag_copied = TRUE,
                                   !.buffer_bytes = dlength(r), !.tcp_recv_data = NextMessage(r)]
  BY DEF RecvOwn, Step, channels, IInv, ReceivesOK
<1>2. /\ receiving'[g].pc = "loop" /\ receiving'[g].tcp_recv_data = NextMessage(r)
      /\ receiving'[g].buffer = packet(r) /\ receiving'[g].sockid = r.sockid
  BY <1>1 DEF Receive
<1>3. SocketsOf(g)' = SocketsOf(g)
  BY <1>1 DEF SocketsOf
<1>4. /\ WordsOwned(g)'
      /\ OneSocket(g) \/ receiving'[g].tcp_recv_data = <<>>
      /\ \A sockid \in SocketsOf(g) : sockid \in {dport(r), dsockid(r)} => Owns(g, packet(r), sockid)
  BY <1>1, <1>2, <1>3, RoundOwned
<1>5. Owns(g, packet(r), r.sockid)
  <2>1. r.sockid \in SocketsOf(g)
    BY <1>1 DEF InOrderOK, InOrder
  <2> QED
    BY <1>1, <1>4, <2>1 DEF Own
<1>6. CopyOwned(g)'
  <2>1. PICK n, sockid : n = packet(r) /\ sockid = r.sockid
    OBVIOUS
  <2>2. Owns(g, n, sockid)'
    BY <1>5, <2>1 DEF OwnersGrow
  <2>3. CopiedBy(g)' \subseteq {n} /\ receiving'[g].sockid = sockid
    BY <1>2, <2>1 DEF CopiedBy
  <2> QED
    BY <2>2, <2>3 DEF CopyOwned
<1>7. OneSocket(g) \/ OneMessage(g)'
  BY <1>2, <1>4 DEF OneMessage
<1> QED
  BY <1>1, <1>4, <1>6, <1>7, TakesOwned

\* A guest with several sockets gives a packet it kept for the socket of the
\* receive to the caller, and keeps the message for the socket it is for.
LEMMA OtherOwned ==
  ASSUME IInv, IInv', RoundsOK, PortsApart, NumbersOK, InOrderOK, OwnersGrow,
         NEW g \in Gos, Owned(g), RecvOther(g)
  PROVE  Owned(g)'
<1> DEFINE r == receiving[g]
           i == r.index
           to == FirstOf(Targets(g, r))
           p == [packet |-> packet(r), length |-> dlength(r)]
           old == Kept(g, i)
           kept == KeptIn(active_ports[g])
           shorter == Shorter(kept, i)
           more == [shorter EXCEPT ![to] = Append(@, p)]
<1>1. /\ UNCHANGED <<recv, handed>> /\ r \in Receive /\ Whole(r) /\ ~Own(r)
      /\ r.pc = "loop" /\ r.tcp_recv_data # <<>> /\ Targets(g, r) # {} /\ to \in InUse(g)
      /\ receiving'[g] = [r EXCEPT !.buffer = IF old = <<>> THEN @ ELSE Head(old).packet,
                                   !.flag_copied = r.flag_copied \/ old # <<>>,
                                   !.size = IF old = <<>> THEN 0 ELSE Head(old).length,
                                   !.buffer_bytes =
                                      IF r.flag_copied \/ old # <<>>
                                      THEN (IF old = <<>> THEN 0 ELSE Head(old).length) ELSE 0,
                                   !.index = to,
                                   !.tcp_recv_data = NextMessage(r)]
  BY DEF RecvOther, Step, channels, IInv, ReceivesOK
<1>2. /\ receiving'[g].pc = "loop" /\ receiving'[g].tcp_recv_data = NextMessage(r)
      /\ receiving'[g].sockid = r.sockid
      /\ old = <<>> => receiving'[g].buffer_bytes = 0
      /\ old # <<>> => receiving'[g].buffer = Head(old).packet
  <2> HIDE DEF old, to
  <2> QED
    BY <1>1 DEF Receive
<1>3. /\ active_ports \in [Gos -> [Entries -> Entry]]
      /\ active_ports' \in [Gos -> [Entries -> Entry]]
  BY DEF IInv, TypeOK
<1>4. \A j \in Entries : active_ports'[g][j].sock_id = active_ports[g][j].sock_id
  BY <1>3, OthersKept
<1>5. SocketsOf(g)' = SocketsOf(g) /\ (OneSocket(g) => OneSocket(g)')
  BY <1>4 DEF SocketsOf, OneSocket, InUse
<1>6. /\ WordsOwned(g)'
      /\ OneSocket(g) \/ receiving'[g].tcp_recv_data = <<>>
      /\ \A sockid \in SocketsOf(g) : sockid \in {dport(r), dsockid(r)} => Owns(g, packet(r), sockid)
  BY <1>1, <1>2, <1>5, RoundOwned
<1>7. ~OneSocket(g)
  BY <1>1, OneOwn DEF InOrderOK
<1>8. Quota[g] > 1 /\ active_ports[g][i].sock_id = r.sockid
  BY <1>1, <1>7 DEF Owned, OneMessage
<1>9. OneMessage(g)'
  BY <1>2, <1>6, <1>7 DEF OneMessage
<1>10. Owns(g, p.packet, active_ports[g][to].sock_id) /\ to \in Entries
  <2>1. Targets(g, r) \in SUBSET Nat
    BY DEF Targets, Entries
  <2>2. to \in Targets(g, r)
    BY <1>1, <2>1, FirstOfSet
  <2>3. active_ports[g][to].sock_id \in {dport(r), dsockid(r)} /\ to \in Entries
    BY <2>2 DEF Targets
  <2>4. active_ports[g][to].sock_id \in SocketsOf(g)
    BY <1>1 DEF InUse, SocketsOf
  <2> QED
    BY <1>6, <2>3, <2>4
<1>11. p \in Packet
  BY <1>1, MessageTyped DEF Packet
<1>12. i \in Entries /\ KeptIn(active_ports'[g]) \in {shorter, more}
  BY <1>3, OtherKept
<1>13. /\ kept \in [Entries -> Seq(Packet)] /\ kept[i] = old
       /\ \A j \in Entries : \A n \in PacketsIn(kept[j]) : Owns(g, n, active_ports[g][j].sock_id)
  <2>1. \A j \in Entries : active_ports[g][j].kept \in Seq(Packet)
    BY <1>3 DEF Entry
  <2> QED
    BY <1>12, <2>1 DEF KeptIn, Kept, Owned, QueuesOwned
<1>14. CopyOwned(g)'
  <2>1. CASE old = <<>>
    BY <1>2, <2>1 DEF CopyOwned, CopiedBy
  <2>2. CASE old # <<>>
    <3>1. PICK n, sockid : n = Head(old).packet /\ sockid = r.sockid
      OBVIOUS
    <3>2. n \in PacketsIn(kept[i])
      BY <1>12, <1>13, <2>2, <3>1, TailPackets
    <3>3. Owns(g, n, sockid)
      BY <1>8, <1>12, <1>13, <3>1, <3>2
    <3>4. CopiedBy(g)' \subseteq {n} /\ receiving'[g].sockid = sockid
      BY <1>2, <2>2, <3>1 DEF CopiedBy
    <3> QED
      BY <3>3, <3>4 DEF CopyOwned, OwnersGrow
  <2> QED
    BY <2>1, <2>2
<1> HIDE DEF r, i, to, p, old, kept
<1>15. /\ shorter \in [Entries -> Seq(Packet)]
       /\ \A j \in Entries : PacketsIn(shorter[j]) \subseteq PacketsIn(kept[j])
  <2>1. CASE kept[i] = <<>>
    BY <1>13, <2>1 DEF Shorter
  <2>2. CASE kept[i] # <<>>
    <3>1. kept[i] \in Seq(Packet)
      BY <1>12, <1>13
    <3>2. Tail(kept[i]) \in Seq(Packet) /\ PacketsIn(Tail(kept[i])) \subseteq PacketsIn(kept[i])
      BY <2>2, <3>1, HeadTailProperties, TailPackets
    <3>3. shorter = [kept EXCEPT ![i] = Tail(kept[i])]
      BY <2>2 DEF Shorter
    <3> HIDE DEF shorter
    <3> QED
      BY <1>12, <1>13, <3>2, <3>3
  <2> QED
    BY <2>1, <2>2
<1> HIDE DEF shorter
<1> DEFINE now == KeptIn(active_ports'[g])
<1>16. \A j \in Entries : \A n \in PacketsIn(now[j]) : Owns(g, n, active_ports[g][j].sock_id)
  <2>1. CASE now = shorter
    BY <1>13, <1>15, <2>1
  <2>2. CASE now = more
    <3>1. shorter[to] \in Seq(Packet)
      BY <1>10, <1>15
    <3>2. PacketsIn(Append(shorter[to], p)) \subseteq PacketsIn(shorter[to]) \cup {p.packet}
      BY <1>11, <3>1, MorePackets
    <3>3. now[to] = Append(shorter[to], p) /\ \A j \in Entries \ {to} : now[j] = shorter[j]
      BY <1>10, <1>15, <2>2
    <3> HIDE DEF now, more
    <3> QED
      BY <1>10, <1>13, <1>15, <3>2, <3>3
  <2> QED
    BY <1>12, <2>1, <2>2
<1>17. QueuesOwned(g)'
  <2> DEFINE id == [j \in Entries |-> active_ports[g][j].sock_id]
  <2>1. \A j \in Entries : id[j] = active_ports'[g][j].sock_id /\ now[j] = active_ports'[g][j].kept
    BY <1>4 DEF KeptIn
  <2>2. \A j \in Entries : \A n \in PacketsIn(now[j]) : Owns(g, n, id[j])
    BY <1>16
  <2> HIDE DEF now, id
  <2>3. PICK ids, packets : ids = id /\ packets = [j \in Entries |-> PacketsIn(now[j])]
    OBVIOUS
  <2>4. \A j \in Entries : \A n \in packets[j] : Owns(g, n, ids[j])'
    BY <2>2, <2>3 DEF OwnersGrow
  <2>5. \A j \in Entries : ids[j] = active_ports'[g][j].sock_id
                           /\ packets[j] = PacketsIn(active_ports'[g][j].kept)
    BY <2>1, <2>3
  <2> QED
    BY <2>4, <2>5 DEF QueuesOwned, Kept
<1>18. HandedOwned(g)'
  BY <1>1 DEF Owned, OwnersGrow, HandedOwned
<1> QED
  BY <1>6, <1>8, <1>9, <1>14, <1>17, <1>18 DEF Owned

LEMMA ReturnOwned ==
  ASSUME IInv, OwnersGrow, NEW g \in Gos, Owned(g), handed \in [Gos -> Seq(Handed)], RecvReturn(g)
  PROVE  Owned(g)'
<1> DEFINE r == receiving[g]
           x == [sockid |-> r.sockid, packet |-> r.buffer]
<1>1. /\ UNCHANGED <<recv, active_ports>> /\ r \in Receive
      /\ r.pc = "loop" /\ r.tcp_recv_data = <<>> /\ receiving'[g] = Idle
      /\ r.buffer_bytes = 0 => handed'[g] = handed[g]
      /\ r.buffer_bytes # 0 => handed'[g] = Append(handed[g], x)
  BY DEF RecvReturn, Hands, Step, channels, IInv, ReceivesOK
<1>2. receiving'[g].pc = "app" /\ CopiedBy(g)' = {}
  BY <1>1 DEF CopiedBy, Idle
<1>3. x \in Handed /\ (r.buffer_bytes # 0 => Owns(g, x.packet, x.sockid))
  BY <1>1 DEF Handed, Receive, CopiedBy, Owned, CopyOwned
<1> HIDE DEF x
<1>4. WordsOwned(g)'
  <2>1. InHand(g) = <<>> /\ InHand(g)' = <<>> /\ Waiting(g)' = Waiting(g)
    BY <1>1, <1>2, WordsReturned
  <2>2. InHand(g)' = InHand(g)
    BY <2>1
  <2> QED
    BY <1>1, <2>1, <2>2, WordsStayOwned DEF Owned, SocketsOf
<1>5. QueuesOwned(g)'
  BY <1>1 DEF Owned, OwnersGrow, QueuesOwned, Kept
<1>6. HandedOwned(g)'
  <2>1. CASE r.buffer_bytes = 0
    BY <1>1, <2>1 DEF Owned, HandedOwned, OwnersGrow
  <2>2. CASE r.buffer_bytes # 0
    BY <1>1, <1>3, <2>2, HandsOwned DEF Owned
  <2> QED
    BY <2>1, <2>2
<1>7. CopyOwned(g)'
  BY <1>2 DEF CopyOwned
<1>8. (OneSocket(g) => OneSocket(g)') /\ OneMessage(g)'
  BY <1>1, <1>2 DEF OneSocket, InUse, OneMessage
<1> QED
  BY <1>4, <1>5, <1>6, <1>7, <1>8 DEF Owned

LEMMA GuestOwned ==
  ASSUME cut' = {}, OneAtATime, IInv, IInv', FramesOK, RoundsOK, PassageOK, InOrderOK,
         PortsApart, NumbersOK, OwnersGrow, NEW g \in Gos, Guest(g), \A h \in Gos : Owned(h)
  PROVE  \A h \in Gos : Owned(h)'
<1>1. handed \in [Gos -> Seq(Handed)] /\ Owned(g)
  BY DEF PassageOK
<1>2. \A h \in Gos \ {g} : Owned(h)'
  BY <1>1, OthersStay, OwnedStays
<1>3. Owned(g)'
  <2>1. ASSUME NEW port \in Ports, sys_sock_listen(g, port)
        PROVE  Owned(g)'
    <3>1. /\ port \in Nat \ {0} /\ Opens(g, port) /\ receiving[g].pc = "app"
          /\ UNCHANGED <<recv[g], receiving[g], handed[g]>>
      BY <2>1, SocketAssumption DEF sys_sock_listen
    <3> QED
      BY <1>1, <3>1, OpensOwned
  <2>2. ASSUME sys_sock_connect(g)
        PROVE  Owned(g)'
    <3>1. PICK sockid \in Nat \ {0} : sockid = spark_sockid[g]
      BY DEF IInv, TypeOK, FramesOK
    <3>2. /\ Opens(g, sockid) /\ receiving[g].pc = "app"
          /\ UNCHANGED <<recv[g], receiving[g], handed[g]>>
      BY <2>2, <3>1 DEF sys_sock_connect
    <3> QED
      BY <1>1, <3>2, OpensOwned
  <2>3. ASSUME NEW i \in InUse(g), sys_sock_tcp_send(g, i)
        PROVE  Owned(g)'
    BY <1>1, <2>3, OwnedStays DEF sys_sock_tcp_send
  <2>4. ASSUME NEW i \in InUse(g), RecvKept(g, i)
        PROVE  Owned(g)'
    BY <1>1, <2>4, KeptOwned DEF InUse
  <2>5. ASSUME NEW i \in InUse(g), NEW size \in RecvSizes[g], RecvFirst(g, i, size)
        PROVE  Owned(g)'
    BY <1>1, <2>5, FirstReceiveOwned DEF InUse
  <2>6. ASSUME Receiving(g)
        PROVE  Owned(g)'
    BY <1>1, <2>6, AgainOwned, OwnOwned, OtherOwned, ReturnOwned DEF Receiving
  <2> QED
    BY <2>1, <2>2, <2>3, <2>4, <2>5, <2>6 DEF Guest, NextApp
<1> QED
  BY <1>2, <1>3

\* The sockets of a guest, and the numbers it has used.
NumbersGrow ==
  \A g \in Gos : spark_sockid[g] <= spark_sockid'[g] /\ SocketsOf(g)' \subseteq SocketsOf(g) \cup Numbers(g)'

LEMMA OpensNumbered ==
  ASSUME IInv, NEW g \in Gos, NEW sockid \in Nat \ {0}, Opens(g, sockid)
  PROVE  /\ SocketsOf(g)' \subseteq SocketsOf(g) \cup {sockid}
         /\ \A h \in Gos \ {g} : SocketsOf(h)' = SocketsOf(h)
<1>1. FreeEntries(g) \in SUBSET Nat /\ FreeEntries(g) # {}
  BY DEF Opens, FreeEntries, Entries
<1>2. NewEntry(g) = FirstOf(FreeEntries(g))
  BY DEF NewEntry, FirstOf
<1>3. NewEntry(g) \in FreeEntries(g)
  BY <1>1, <1>2, FirstOfSet
<1>4. PICK i \in FreeEntries(g) :
        active_ports' = [active_ports EXCEPT ![g][i] = [sock_id |-> sockid, kept |-> <<>>]]
  BY <1>3 DEF Opens
<1>5. /\ i \in Entries /\ active_ports'[g][i].sock_id = sockid
      /\ \A j \in Entries \ {i} : active_ports'[g][j] = active_ports[g][j]
      /\ \A h \in Gos \ {g} : active_ports'[h] = active_ports[h]
  BY <1>4 DEF IInv, TypeOK, FreeEntries
<1> QED
  BY <1>5 DEF SocketsOf

LEMMA GuestNumbers ==
  ASSUME IInv, IInv', FramesOK, NumbersOK, NEW g \in Gos, Guest(g)
  PROVE  NumbersGrow
<1>1. /\ active_ports \in [Gos -> [Entries -> Entry]]
      /\ active_ports' \in [Gos -> [Entries -> Entry]]
      /\ spark_sockid \in [Gos -> Nat] /\ spark_sockid' \in [Gos -> Nat] /\ FirstSock \in Nat
  <2>1. /\ active_ports \in [Gos -> [Entries -> Entry]]
        /\ spark_sockid \in [Gos -> Nat]
    BY DEF IInv, TypeOK
  <2>2. /\ active_ports' \in [Gos -> [Entries -> Entry]]
        /\ spark_sockid' \in [Gos -> Nat]
    BY DEF IInv, TypeOK
  <2>3. FirstSock \in Nat
    BY SocketAssumption
  <2> QED
    BY <2>1, <2>2, <2>3
<1>2. ASSUME UNCHANGED spark_sockid,
             \A h \in Gos, i \in Entries : active_ports'[h][i].sock_id = active_ports[h][i].sock_id
      PROVE  NumbersGrow
  <2>1. \A h \in Gos : SocketsOf(h)' = SocketsOf(h)
    BY <1>2 DEF SocketsOf
  <2> QED
    BY <1>1, <1>2, <2>1 DEF NumbersGrow
<1>3. ASSUME NEW port \in Ports, sys_sock_listen(g, port)
      PROVE  NumbersGrow
  <2>1. port \in Nat \ {0} /\ Opens(g, port) /\ UNCHANGED spark_sockid
    BY <1>3, SocketAssumption DEF sys_sock_listen
  <2>2. /\ SocketsOf(g)' \subseteq SocketsOf(g) \cup {port}
        /\ \A h \in Gos \ {g} : SocketsOf(h)' = SocketsOf(h)
    BY <2>1, OpensNumbered
  <2> QED
    BY <1>1, <2>1, <2>2 DEF NumbersGrow, Numbers
<1>4. ASSUME sys_sock_connect(g)
      PROVE  NumbersGrow
  <2>1. PICK sockid \in Nat \ {0} : sockid = spark_sockid[g]
    BY DEF IInv, TypeOK, FramesOK
  <2>2. /\ spark_sockid'[g] = sockid + 1 /\ \A h \in Gos \ {g} : spark_sockid'[h] = spark_sockid[h]
        /\ Opens(g, sockid) /\ FirstSock <= sockid
    BY <1>1, <1>4, <2>1 DEF sys_sock_connect, NumbersOK
  <2>3. /\ SocketsOf(g)' \subseteq SocketsOf(g) \cup {sockid}
        /\ \A h \in Gos \ {g} : SocketsOf(h)' = SocketsOf(h)
    BY <2>2, OpensNumbered
  <2>4. sockid \in Numbers(g)'
    BY <1>1, <2>2 DEF Numbers
  <2> QED
    BY <1>1, <2>1, <2>2, <2>3, <2>4 DEF NumbersGrow
<1>5. ASSUME NEW i \in InUse(g), RecvKept(g, i)
      PROVE  NumbersGrow
  <2>1. i \in Entries
    BY DEF InUse
  <2>2. active_ports' = [active_ports EXCEPT ![g][i].kept = KeptAfter(active_ports[g][i].kept)]
    BY <1>5 DEF RecvKept
  <2>3. \A h \in Gos, j \in Entries : active_ports'[h][j].sock_id = active_ports[h][j].sock_id
    BY <1>1, <2>1, <2>2, SocketsSame
  <2> QED
    BY <1>2, <1>5, <2>3 DEF RecvKept
<1>6. ASSUME RecvOther(g)
      PROVE  NumbersGrow
  <2>1. \A h \in Gos, j \in Entries : active_ports'[h][j].sock_id = active_ports[h][j].sock_id
    BY <1>1, <1>6, OthersKept
  <2> QED
    BY <1>2, <1>6, <2>1 DEF RecvOther
<1>7. ASSUME \/ \E i \in InUse(g), size \in RecvSizes[g] : RecvFirst(g, i, size)
             \/ \E i \in InUse(g) : sys_sock_tcp_send(g, i)
             \/ RecvAgain(g) \/ RecvOwn(g) \/ RecvReturn(g)
      PROVE  NumbersGrow
  <2>1. UNCHANGED <<spark_sockid, active_ports>>
    BY <1>7 DEF RecvFirst, sys_sock_tcp_send, RecvAgain, RecvOwn, RecvReturn
  <2> QED
    BY <1>2, <2>1
<1> QED
  BY <1>3, <1>4, <1>5, <1>6, <1>7 DEF Guest, NextApp, Receiving

LEMMA StepNumbers ==
  ASSUME IInv, IInv', FramesOK, NumbersOK, [Next]_vars
  PROVE  NumbersGrow
<1>1. ASSUME UNCHANGED app
      PROVE  NumbersGrow
  <2>1. UNCHANGED <<spark_sockid, active_ports>> /\ \A g \in Gos : SocketsOf(g)' = SocketsOf(g)
    BY <1>1 DEF app, SocketsOf
  <2>2. \A g \in Gos : spark_sockid[g] \in Nat
    BY DEF IInv, TypeOK
  <2> QED
    BY <2>1, <2>2 DEF NumbersGrow
<1> QED
  BY <1>1, GuestNumbers DEF Next, Partition, vars

LEMMA NumbersStay ==
  ASSUME IInv, IInv', NumbersOK, NumbersGrow
  PROVE  NumbersOK' /\ \A g \in Gos : Numbers(g) \subseteq Numbers(g)'
<1>1. spark_sockid \in [Gos -> Nat] /\ spark_sockid' \in [Gos -> Nat] /\ FirstSock \in Nat
  BY SocketAssumption DEF IInv, TypeOK
<1>2. \A g \in Gos : Numbers(g) \subseteq Numbers(g)'
  BY <1>1 DEF NumbersGrow, Numbers
<1>3. \A g \in Gos : spark_sockid'[g] >= FirstSock /\ SocketsOf(g)' \subseteq Numbers(g)'
  BY <1>1, <1>2 DEF NumbersOK, NumbersGrow
<1> QED
  BY <1>2, <1>3 DEF NumbersOK

LEMMA OwnersInitially == Init => OwnersOK
<1> SUFFICES ASSUME Init
             PROVE  OwnersOK
  OBVIOUS
<1>1. /\ lastport = FirstLport /\ \A s \in ClientSlots : clientports[s].gos_id = 65535
      /\ 65535 \notin Gos /\ FirstSock \in Nat /\ FirstLport \in Nat
  BY SocketAssumption, ServerAssumption DEF Init, InitServer, Unused
<1>2. ASSUME NEW g \in Gos
      PROVE  /\ handed[g] = <<>> /\ recv[g] = <<>> /\ receiving[g] = Idle
             /\ spark_sockid[g] = FirstSock
             /\ \A i \in Entries : active_ports[g][i] = NoSocket
  BY DEF Init, InitApp
<1>3. ClientsLocal
  BY <1>1 DEF ClientsLocal
<1>4. NumbersOK
  BY <1>1, <1>2 DEF NumbersOK, SocketsOf, NoSocket
<1>5. ASSUME NEW g \in Gos
      PROVE  Owned(g)
  <2>1. receiving[g].pc = "app" /\ CopiedBy(g) = {}
    BY <1>2 DEF Idle, CopiedBy
  <2>2. InHand(g) = <<>> /\ Waiting(g) = <<>>
    <3>1. recv[g] \in Seq(Word)
      BY <1>2, EmptySeq
    <3> QED
      BY <1>2, <2>1, <3>1, NothingDropped DEF InHand, Waiting, Counted
  <2>3. WordsOwned(g)
    BY <2>2, NothingFramed DEF WordsOwned
  <2>4. QueuesOwned(g)
    BY <1>2, EmptySeq DEF QueuesOwned, Kept, NoSocket, PacketsIn
  <2>5. HandedOwned(g)
    BY <1>2, EmptySeq DEF HandedOwned
  <2>6. CopyOwned(g)
    BY <2>1 DEF CopyOwned
  <2>7. OneSocket(g)
    BY <1>2 DEF OneSocket, InUse, NoSocket
  <2> QED
    BY <2>3, <2>4, <2>5, <2>6, <2>7 DEF Owned
<1> QED
  BY <1>3, <1>4, <1>5 DEF OwnersOK

LEMMA StepKeepsOwners ==
  ASSUME cut' = {}, OneAtATime, ~Interrupted, IInv, IInv', FramesOK, RoundsOK, PassageOK,
         InOrderOK, OwnersOK, [Next]_vars
  PROVE  OwnersOK'
<1>1. ClientsLocal /\ NumbersOK
  BY DEF OwnersOK
<1>2. ClientsLocal' /\ LocalPorts \subseteq LocalPorts'
  BY <1>1, StepGrows, ClientsStayLocal, LocalsGrow
<1>3. NumbersOK' /\ \A g \in Gos : Numbers(g) \subseteq Numbers(g)'
  BY <1>1, StepNumbers, NumbersStay
<1>4. ASSUME PortsApart'
      PROVE  \A g \in Gos : Owned(g)'
  <2>1. PortsApart
    BY <1>2, <1>3, <1>4 DEF PortsApart
  <2>2. OwnersGrow /\ \A g \in Gos : Owned(g)
    BY <1>1, <2>1, StepOwnersGrow DEF OwnersOK
  <2>3. CASE Partition
    BY <1>1, <2>2, <2>3, PartitionOwned
  <2>4. ASSUME NEW g \in Gos, Guest(g)
        PROVE  \A h \in Gos : Owned(h)'
    BY <1>1, <2>1, <2>2, <2>4, GuestOwned
  <2>5. CASE UNCHANGED vars
    BY <2>2, <2>5, OwnedStays DEF vars, channels, app
  <2> QED
    BY <2>3, <2>4, <2>5 DEF Next
<1> QED
  BY <1>2, <1>3, <1>4 DEF OwnersOK

\* What a guest has of packets is for its sockets, until a receive ends inside a
\* message.
THEOREM OwnersStay ==
  ASSUME Senders \subseteq {1}, OneAtATime, ~Interrupted
  PROVE  Spec => [](Uncut => OwnersOK)
<1>1. /\ IInv /\ IInv' /\ FramesOK /\ UncutOK /\ (Uncut => PassageOK) /\ (Uncut => InOrderOK)
      /\ (Uncut => OwnersOK) /\ [Next]_vars
      => (Uncut => OwnersOK)'
  BY StepKeepsOwners, CutStays
<1> QED
  BY OwnersInitially, <1>1, Invariance, FramesStay, RoundsStay, PassageStaysOK, OrderStaysOK,
     PTL DEF Spec

\* A receive hands out packets for its own socket (systemcall.c:193): the port
\* a packet came for belongs to the guest and to the socket, whichever guest
\* the partition served first, whatever was kept for another socket and came
\* out of its queue later, and whatever an earlier round left in the buffer.
\* It holds until a receive ends inside a message, or the partition's counter of
\* local ports comes to a number a guest uses as a port or a socket.
THEOREM PacketsHandedToOwner ==
  ASSUME Senders \subseteq {1}, OneAtATime, ~Interrupted
  PROVE  Spec => [](cut = {} /\ PortsApart => HandedToOwner)
<1>1. IInv /\ PassageOK /\ OwnersOK /\ PortsApart => HandedToOwner
  <2> SUFFICES ASSUME IInv, PassageOK, OwnersOK, PortsApart, NEW g \in Gos, NEW k \in DOMAIN handed[g]
               PROVE  OwnerOf(arrived[handed[g][k].packet]) = [gos |-> g, sockid |-> handed[g][k].sockid]
    BY DEF HandedToOwner
  <2>1. handed[g] \in Seq(Handed)
    BY DEF PassageOK
  <2>2. k \in 1 .. Len(handed[g])
    BY <2>1
  <2>3. Owns(g, handed[g][k].packet, handed[g][k].sockid)
    BY <2>2 DEF OwnersOK, Owned, HandedOwned
  <2>4. arrived \in Seq(Nat)
    BY DEF IInv, TypeOK
  <2> QED
    BY <2>3, <2>4, BelongsOwner DEF Owns
<1>2. IInv /\ (Uncut => PassageOK) /\ (Uncut => OwnersOK) => (cut = {} /\ PortsApart => HandedToOwner)
  BY <1>1 DEF Uncut
<1> QED
  BY <1>2, Invariance, PassageStaysOK, OwnersStay, PTL

-----------------------------------------------------------------------------
\* The replies on their way out.  A call channel has the ports a guest listens
\* on and the replies it sent, each with the socket it sent it on; task2 puts
\* the reply into that socket's slot.

SentOn(g, sockid, number) ==
  number \in 1 .. Len(replies) /\ replies[number] = [gos |-> g, sockid |-> sockid]
SentCalls(g) ==
  {m \in GuestCalls(SocketsOf(g), g) :
     /\ m[1] = LISTEN => m[3] \in Ports
     /\ m[1] = TCP_SEND => m[5] \in Numbers(g) /\ SentOn(g, m[5], m[6])}
RepliesOf(slot) == \A k \in DOMAIN slot.replies : SentOn(slot.gos_id, slot.sock_id, slot.replies[k])

\* uip_tcp_send looks for a server's port with 16 bits of the socket; those of
\* a connection of the guest are no port.
IdsApart ==
  \A g \in Gos : \A sockid \in FirstSock .. spark_sockid[g] - 1 : sockid % FirstSock \notin Ports

SlotsReply ==
  /\ \A s \in ListenSlots : RepliesOf(listenports[s])
  /\ \A s \in ClientSlots : RepliesOf(clientports[s])
ServersNamed == \A s \in ListenSlots : listenports[s].gos_id \in Gos => listenports[s].sock_id \in Ports

RepliesOK ==
  /\ \A g \in Gos : Framed(Pending(g), SentCalls(g))
  /\ ServersNamed
  /\ IdsApart => SlotsReply

\* Replies are added, sockets are opened.
MoreSent ==
  /\ \A n \in 1 .. Len(replies) : n \in 1 .. Len(replies') /\ replies'[n] = replies[n]
  /\ \A g \in Gos : SocketsOf(g) \subseteq SocketsOf(g)' /\ Numbers(g) \subseteq Numbers(g)'

LEMMA StaysSent ==
  ASSUME MoreSent, NEW g, NEW sockid, NEW number, SentOn(g, sockid, number)
  PROVE  SentOn(g, sockid, number)'
BY DEF MoreSent, SentOn

LEMMA CallsStaySent ==
  ASSUME MoreSent, NEW g \in Gos
  PROVE  SentCalls(g) \subseteq SentCalls(g)'
<1>1. GuestCalls(SocketsOf(g), g) \subseteq GuestCalls(SocketsOf(g)', g)
  BY MoreCalls DEF MoreSent
<1> SUFFICES ASSUME NEW m \in SentCalls(g)
             PROVE  m \in SentCalls(g)'
  OBVIOUS
<1>2. m \in GuestCalls(SocketsOf(g)', g)
  BY <1>1 DEF SentCalls
<1>3. m[1] = LISTEN => m[3] \in Ports
  BY DEF SentCalls
<1>4. m[1] = TCP_SEND => m[5] \in Numbers(g)' /\ SentOn(g, m[5], m[6])'
  BY DEF SentCalls, MoreSent, SentOn
<1> QED
  BY <1>2, <1>3, <1>4 DEF SentCalls, GuestCalls

LEMMA ApartBefore ==
  ASSUME IInv, IInv', NumbersGrow, IdsApart'
  PROVE  IdsApart
<1>1. \A g \in Gos : spark_sockid[g] \in Nat
  BY DEF IInv, TypeOK
<1>2. \A g \in Gos : spark_sockid'[g] \in Nat
  BY DEF IInv, TypeOK
<1>3. FirstSock \in Nat
  BY SocketAssumption
<1>4. \A g \in Gos : (FirstSock .. spark_sockid[g] - 1) \subseteq (FirstSock .. spark_sockid'[g] - 1)
  BY <1>1, <1>2, <1>3 DEF NumbersGrow
<1> QED
  BY <1>4 DEF IdsApart

\* The low 16 bits of a socket are a server's port only if it is the socket.
LEMMA PortOfSocket ==
  ASSUME IdsApart, NEW g \in Gos, NEW sockid \in Numbers(g), sockid % FirstSock \in Ports
  PROVE  sockid % FirstSock = sockid
<1>1. FirstSock \in Nat \ {0} /\ Ports \subseteq Nat /\ \A port \in Ports : port < FirstSock
  BY SocketAssumption
<1>2. CASE sockid \in Ports
  <2>1. sockid \in Nat /\ sockid < FirstSock
    BY <1>1, <1>2
  <2> QED
    BY <1>1, <2>1
<1>3. CASE sockid \in FirstSock .. spark_sockid[g] - 1
  BY <1>3 DEF IdsApart
<1> QED
  BY <1>2, <1>3 DEF Numbers

\* A guest puts nothing into its call channel, or a call that says what it did;
\* a connection has the next number.
CallsSent(g) ==
  \/ UNCHANGED <<call, spark_sockid>>
  \/ \E m \in Seq(Word) :
       /\ Calls(g, m) /\ 0 < Len(m) /\ m \in SentCalls(g)'
       /\ \/ m[1] # CONNECT /\ UNCHANGED spark_sockid
          \/ /\ m[1] = CONNECT /\ m[5] = spark_sockid[g]
             /\ spark_sockid' = [spark_sockid EXCEPT ![g] = @ + 1]

LEMMA SocketsStay ==
  ASSUME \A h \in Gos, i \in Entries : active_ports'[h][i].sock_id = active_ports[h][i].sock_id
  PROVE  \A h \in Gos : SocketsOf(h)' = SocketsOf(h)
BY DEF SocketsOf

LEMMA GuestSends ==
  ASSUME IInv, IInv', FramesOK, NumbersOK, NEW g \in Gos, Guest(g)
  PROVE  MoreSent /\ CallsSent(g)
<1>1. /\ active_ports \in [Gos -> [Entries -> Entry]]
      /\ active_ports' \in [Gos -> [Entries -> Entry]]
  BY DEF IInv, TypeOK
<1>2. g \in Nat /\ Ports \subseteq Nat \ {0} /\ SendSize \in Nat \ {0}
  BY SocketAssumption
<1>3. \A h \in Gos : spark_sockid[h] \in Nat \ {0}
  BY DEF IInv, TypeOK, FramesOK
<1>4. \A h \in Gos : Numbers(h) \subseteq Numbers(h)' /\ SocketsOf(h)' \subseteq Numbers(h)'
  BY GuestNumbers, NumbersStay DEF NumbersOK
<1>5. ASSUME UNCHANGED <<call, spark_sockid, replies>>, \A h \in Gos : SocketsOf(h)' = SocketsOf(h)
      PROVE  MoreSent /\ CallsSent(g)
  BY <1>4, <1>5 DEF MoreSent, CallsSent
<1>6. ASSUME NEW port \in Ports, sys_sock_listen(g, port)
      PROVE  MoreSent /\ CallsSent(g)
  <2> DEFINE m == <<LISTEN, g, port>>
  <2>1. m \in Seq(Word) /\ Len(m) = 3 /\ m[1] = LISTEN /\ m[2] = g /\ m[3] = port
    BY <1>2 DEF LISTEN, Word
  <2>2. port \in SocketsOf(g)' /\ \A h \in Gos : SocketsOf(h) \subseteq SocketsOf(h)'
    BY <1>2, <1>6, SocketAdded DEF sys_sock_listen
  <2>3. Calls(g, m) /\ UNCHANGED <<spark_sockid, replies>>
    BY <1>6 DEF sys_sock_listen
  <2> HIDE DEF m
  <2>4. m \in SentCalls(g)' /\ 0 < Len(m)
    BY <2>1, <2>2 DEF SentCalls, GuestCalls, LISTEN, TCP_SEND
  <2>5. m[1] # CONNECT
    BY <2>1 DEF LISTEN, CONNECT
  <2> QED
    BY <1>4, <2>1, <2>2, <2>3, <2>4, <2>5 DEF MoreSent, CallsSent
<1>7. ASSUME sys_sock_connect(g)
      PROVE  MoreSent /\ CallsSent(g)
  <2> DEFINE m == <<CONNECT, g, 1, 80, spark_sockid[g]>>
  <2>1. m \in Seq(Word) /\ Len(m) = 5 /\ m[1] = CONNECT /\ m[2] = g /\ m[5] = spark_sockid[g]
    BY <1>2, <1>3 DEF CONNECT, Word
  <2>2. spark_sockid[g] \in SocketsOf(g)' /\ \A h \in Gos : SocketsOf(h) \subseteq SocketsOf(h)'
    BY <1>3, <1>7, SocketAdded DEF sys_sock_connect
  <2>3. /\ Calls(g, m) /\ UNCHANGED replies
        /\ spark_sockid' = [spark_sockid EXCEPT ![g] = @ + 1]
    BY <1>7 DEF sys_sock_connect
  <2> HIDE DEF m
  <2>4. m \in SentCalls(g)' /\ 0 < Len(m)
    BY <2>1, <2>2 DEF SentCalls, GuestCalls, LISTEN, CONNECT, TCP_SEND
  <2> QED
    BY <1>4, <2>1, <2>2, <2>3, <2>4 DEF MoreSent, CallsSent
<1>8. ASSUME NEW i \in InUse(g), sys_sock_tcp_send(g, i)
      PROVE  MoreSent /\ CallsSent(g)
  <2> DEFINE sockid == active_ports[g][i].sock_id
             number == Len(replies) + 1
             head == <<TCP_SEND, g, 0, SendSize, sockid>>
             data == Data(number, SendSize)
             m == head \o data
  <2>1. sockid \in Nat /\ number \in Nat /\ replies \in Seq(Reply) /\ sockid \in SocketsOf(g)
    BY <1>1 DEF InUse, Entry, IInv, ReceivesOK, SocketsOf
  <2>2. /\ head \in Seq(Word) /\ Len(head) = 5
        /\ head[1] = TCP_SEND /\ head[2] = g /\ head[4] = SendSize /\ head[5] = sockid
    BY <1>2, <2>1 DEF TCP_SEND, Word
  <2>3. data \in Seq(Word) /\ Len(data) = SendSize /\ data[1] = number
    <3>1. data \in Seq(Word) /\ Len(data) = SendSize
      BY <1>2, <2>1, DataWords
    <3>2. 1 \in 1 .. SendSize
      BY <1>2
    <3> QED
      BY <3>1, <3>2 DEF Data
  <2>4. Calls(g, m) /\ g \in Senders
    BY <1>8 DEF sys_sock_tcp_send
  <2>5. UNCHANGED <<active_ports, spark_sockid>> /\ replies' = Append(replies, [gos |-> g, sockid |-> sockid])
    BY <1>8 DEF sys_sock_tcp_send
  <2>6. /\ number \in 1 .. Len(replies') /\ replies'[number] = [gos |-> g, sockid |-> sockid]
        /\ \A n \in 1 .. Len(replies) : n \in 1 .. Len(replies') /\ replies'[n] = replies[n]
    <3> DEFINE reply == [gos |-> g, sockid |-> sockid]
    <3>1. reply \in Reply
      BY <2>1 DEF Reply
    <3> HIDE DEF reply, sockid
    <3>2. replies' = Append(replies, reply)
      BY <2>5 DEF reply
    <3>3. /\ number \in 1 .. Len(replies') /\ replies'[number] = reply
          /\ \A n \in 1 .. Len(replies) : n \in 1 .. Len(replies') /\ replies'[n] = replies[n]
      BY <2>1, <3>1, <3>2, AppendProperties
    <3> QED
      BY <3>3 DEF reply
  <2> HIDE DEF head, data, sockid, number
  <2>7. /\ m \in Seq(Word) /\ Len(m) = 5 + SendSize
        /\ m[1] = TCP_SEND /\ m[2] = g /\ m[4] = SendSize /\ m[5] = sockid /\ m[6] = number
    <3>1. /\ m \in Seq(Word) /\ Len(m) = Len(head) + Len(data)
          /\ \A k \in 1 .. Len(head) : m[k] = head[k]
          /\ \A k \in 1 .. Len(data) : m[Len(head) + k] = data[k]
      BY <2>2, <2>3, WordsBehind
    <3> HIDE DEF m
    <3>2. m[1] = head[1] /\ m[2] = head[2] /\ m[4] = head[4] /\ m[5] = head[5]
      BY <2>2, <3>1
    <3>3. m[6] = data[1]
      <4>1. 1 \in 1 .. Len(data)
        BY <1>2, <2>3
      <4>2. m[5 + 1] = data[1]
        BY <2>2, <3>1, <4>1
      <4> QED
        BY <4>2
    <3> QED
      BY <2>2, <2>3, <3>1, <3>2, <3>3
  <2>8. \A h \in Gos : SocketsOf(h) = SocketsOf(h)'
    BY <2>5 DEF SocketsOf
  <2> HIDE DEF m
  <2>9. sockid \in Numbers(g)'
    BY <1>4, <2>1, <2>8
  <2>10. PICK x \in Seq(Word) : x = m
    BY <2>7
  <2>11. x \in SentCalls(g)' /\ 0 < Len(x)
    <3>1. x \in GuestCalls(SocketsOf(g)', g) /\ 0 < Len(x)
      BY <1>2, <2>4, <2>7, <2>10 DEF GuestCalls
    <3>2. x[5] \in Numbers(g)' /\ x[1] # LISTEN
      BY <2>7, <2>9, <2>10 DEF LISTEN, TCP_SEND
    <3>3. SentOn(g, x[5], x[6])'
      BY <2>6, <2>7, <2>10 DEF SentOn
    <3> QED
      BY <3>1, <3>2, <3>3 DEF SentCalls, GuestCalls
  <2>12. x[1] # CONNECT
    BY <2>7, <2>10 DEF CONNECT, TCP_SEND
  <2> QED
    BY <1>4, <2>4, <2>5, <2>6, <2>8, <2>10, <2>11, <2>12 DEF MoreSent, CallsSent
<1>9. ASSUME NEW i \in InUse(g), RecvKept(g, i)
      PROVE  MoreSent /\ CallsSent(g)
  <2>1. i \in Entries
    BY DEF InUse
  <2>2. active_ports' = [active_ports EXCEPT ![g][i].kept = KeptAfter(active_ports[g][i].kept)]
    BY <1>9 DEF RecvKept
  <2>3. \A h \in Gos, j \in Entries : active_ports'[h][j].sock_id = active_ports[h][j].sock_id
    BY <1>1, <2>1, <2>2, SocketsSame
  <2>4. UNCHANGED <<call, spark_sockid, replies>>
    BY <1>9 DEF RecvKept, channels
  <2> QED
    BY <1>5, <2>3, <2>4, SocketsStay
<1>10. ASSUME RecvOther(g)
       PROVE  MoreSent /\ CallsSent(g)
  <2>1. \A h \in Gos, j \in Entries : active_ports'[h][j].sock_id = active_ports[h][j].sock_id
    BY <1>1, <1>10, OthersKept
  <2>2. UNCHANGED <<call, spark_sockid, replies>>
    BY <1>10 DEF RecvOther, channels
  <2> QED
    BY <1>5, <2>1, <2>2, SocketsStay
<1>11. ASSUME \/ \E i \in InUse(g), size \in RecvSizes[g] : RecvFirst(g, i, size)
              \/ RecvAgain(g) \/ RecvOwn(g) \/ RecvReturn(g)
       PROVE  MoreSent /\ CallsSent(g)
  <2>1. UNCHANGED <<call, spark_sockid, replies, active_ports>>
    BY <1>11 DEF RecvFirst, RecvAgain, RecvOwn, RecvReturn, channels
  <2> QED
    BY <1>5, <2>1, SocketsStay
<1> QED
  BY <1>6, <1>7, <1>8, <1>9, <1>10, <1>11 DEF Guest, NextApp, Receiving

\* The slots keep their names and get nothing new.
LEMMA RepliesStay ==
  ASSUME MoreSent, UNCHANGED <<listenports, clientports>>
  PROVE  /\ ServersNamed => ServersNamed'
         /\ SlotsReply => SlotsReply'
<1>1. ASSUME NEW slot, RepliesOf(slot)
      PROVE  \A k \in DOMAIN slot.replies : SentOn(slot.gos_id, slot.sock_id, slot.replies[k])'
  BY <1>1, StaysSent DEF RepliesOf
<1>2. ASSUME SlotsReply
      PROVE  SlotsReply'
  BY <1>1, <1>2 DEF SlotsReply, RepliesOf
<1> QED
  BY <1>2 DEF ServersNamed

\* Frames of what was sent already, and of one call more.
LEMMA SentFrames ==
  ASSUME IInv, MoreSent, NEW h \in Gos, Framed(Pending(h), SentCalls(h))
  PROVE  /\ Pending(h)' = Pending(h) => Framed(Pending(h), SentCalls(h))'
         /\ \A m \in Seq(Word) : 0 < Len(m) /\ m \in SentCalls(h)' /\ Pending(h)' = Pending(h) \o m
                                   => Framed(Pending(h), SentCalls(h))'
<1> DEFINE K == SentCalls(h)
           L == SentCalls(h)'
           w == Pending(h)
<1>1. K \subseteq L /\ w \in Seq(Word) /\ Framed(w, K)
  BY CallsStaySent, PendingTyped
<1> HIDE DEF K, L, w
<1>2. Framed(w, L)
  BY <1>1, FramedMore
<1>3. ASSUME NEW m \in Seq(Word), 0 < Len(m), m \in L
      PROVE  Framed(w \o m, L)
  BY <1>1, <1>3, FramedAppended
<1>4. ASSUME Pending(h)' = w
      PROVE  Framed(Pending(h), SentCalls(h))'
  BY <1>2, <1>4 DEF L, Framed, Cut, Cuts, Pieces
<1>5. ASSUME NEW m \in Seq(Word), 0 < Len(m), m \in L, Pending(h)' = w \o m
      PROVE  Framed(Pending(h), SentCalls(h))'
  BY <1>3, <1>5, ZenonT(60) DEF L, Framed, Cut, Cuts, Pieces
<1> QED
  BY <1>4, <1>5 DEF L, w

LEMMA GuestReplies ==
  ASSUME IInv, IInv', FramesOK, NumbersOK, RepliesOK, NEW g \in Gos, Guest(g)
  PROVE  RepliesOK'
<1>1. MoreSent /\ CallsSent(g)
  BY GuestSends
<1>2. UNCHANGED <<task2, listenports, clientports>>
  BY DEF Guest, server, tables
<1>3. ServersNamed'
  BY <1>1, <1>2, RepliesStay DEF RepliesOK
<1>4. IdsApart' => SlotsReply'
  BY <1>1, <1>2, GuestNumbers, ApartBefore, RepliesStay DEF RepliesOK
<1>5. ASSUME UNCHANGED call, NEW h \in Gos
      PROVE  Framed(Pending(h), SentCalls(h))'
  <2>1. Pending(h)' = Pending(h)
    BY <1>2, <1>5 DEF Pending
  <2> QED
    BY <1>1, <2>1, SentFrames DEF RepliesOK
<1>6. ASSUME NEW m \in Seq(Word), Calls(g, m), 0 < Len(m), m \in SentCalls(g)', NEW h \in Gos
      PROVE  Framed(Pending(h), SentCalls(h))'
  <2>1. call' = [call EXCEPT ![g] = @ \o m]
    BY <1>6 DEF Calls
  <2>2. Pending(g)' = Pending(g) \o m /\ \A i \in Gos \ {g} : Pending(i)' = Pending(i)
    BY <1>2, <2>1, PendingGrows
  <2>3. Framed(Pending(h), SentCalls(h))
    BY DEF RepliesOK
  <2>4. CASE h = g
    BY <1>1, <1>6, <2>2, <2>3, <2>4, SentFrames
  <2>5. CASE h # g
    BY <1>1, <2>2, <2>3, <2>5, SentFrames
  <2> QED
    BY <2>4, <2>5
<1>7. \A h \in Gos : Framed(Pending(h), SentCalls(h))'
  BY <1>1, <1>5, <1>6 DEF CallsSent
<1> QED
  BY <1>3, <1>4, <1>7 DEF RepliesOK

-----------------------------------------------------------------------------
\* task2 takes a call out of the channel ...

\* The partition sends nothing and opens no sockets.
LEMMA NothingSent ==
  ASSUME UNCHANGED app
  PROVE  /\ \A g \in Gos : SocketsOf(g)' = SocketsOf(g) /\ Numbers(g)' = Numbers(g)
         /\ replies' = replies /\ (IdsApart' <=> IdsApart)
         /\ MoreSent
<1>1. UNCHANGED <<active_ports, spark_sockid, replies>>
  BY DEF app
<1>2. \A g \in Gos : SocketsOf(g)' = SocketsOf(g) /\ Numbers(g)' = Numbers(g)
  BY <1>1 DEF SocketsOf, Numbers
<1>3. IdsApart' <=> IdsApart
  BY <1>1 DEF IdsApart
<1> QED
  BY <1>1, <1>2, <1>3 DEF MoreSent

LEMMA PartitionReplies ==
  ASSUME IInv, RepliesOK, UNCHANGED app, ServersNamed', IdsApart => SlotsReply',
         \A g \in Gos : Pending(g)' = Pending(g) \/ Framed(Pending(g)', SentCalls(g))
  PROVE  RepliesOK'
<1>1. (IdsApart' <=> IdsApart) /\ MoreSent
  BY NothingSent
<1>2. \A g \in Gos : SentCalls(g)' = SentCalls(g)
  BY NothingSent DEF SentCalls, GuestCalls, SentOn
<1>3. ASSUME NEW g \in Gos
      PROVE  Framed(Pending(g), SentCalls(g))'
  <2>1. Framed(Pending(g)', SentCalls(g))
    BY DEF RepliesOK
  <2>2. Framed(Pending(g)', SentCalls(g)')
    BY <1>2, <2>1
  <2> QED
    BY <2>2 DEF Framed, Cut, Cuts, Pieces
<1> QED
  BY <1>1, <1>3 DEF RepliesOK

\* A reply is put behind the others of a slot, and the oldest one leaves it.
LEMMA QueuedReplies ==
  ASSUME NEW slot \in UipSlot, RepliesOf(slot), NEW number \in Nat,
         SentOn(slot.gos_id, slot.sock_id, number)
  PROVE  RepliesOf(Queued(slot, number))
<1> DEFINE old == slot.replies
           kept == IF Len(old) = APP_QUEUE_SIZE - 1 THEN old ELSE Append(old, number)
<1>1. old \in Seq(Nat) /\ Queued(slot, number) = [slot EXCEPT !.replies = kept]
  BY DEF UipSlot, Queued
<1>2. \A k \in DOMAIN kept : kept[k] = number \/ (k \in DOMAIN old /\ kept[k] = old[k])
  <2> HIDE DEF old
  <2> QED
    BY <1>1, AppendProperties
<1> HIDE DEF kept
<1>3. Queued(slot, number).replies = kept
  BY <1>1 DEF UipSlot
<1> QED
  BY <1>2, <1>3, QueuedSlot DEF RepliesOf

LEMMA AnsweredReplies ==
  ASSUME NEW slot \in UipSlot, RepliesOf(slot)
  PROVE  RepliesOf(Answered(slot))
<1> DEFINE old == slot.replies
           left == IF old = <<>> THEN old ELSE Tail(old)
<1>1. old \in Seq(Nat) /\ Answered(slot) = [slot EXCEPT !.replies = left]
  BY DEF UipSlot, Answered
<1>2. \A k \in DOMAIN left : \E j \in DOMAIN old : left[k] = old[j]
  <2> HIDE DEF old
  <2>1. CASE old # <<>>
    <3>1. /\ Len(Tail(old)) = Len(old) - 1 /\ DOMAIN Tail(old) = 1 .. Len(old) - 1
          /\ \A k \in 1 .. Len(old) - 1 : Tail(old)[k] = old[k + 1]
      BY <1>1, <2>1, HeadTailProperties
    <3>2. DOMAIN old = 1 .. Len(old) /\ Len(old) \in Nat
      BY <1>1
    <3> QED
      BY <2>1, <3>1, <3>2
  <2> QED
    BY <2>1
<1> HIDE DEF left
<1>3. Answered(slot).replies = left
  BY <1>1 DEF UipSlot
<1> QED
  BY <1>2, <1>3, AnsweredSlot DEF RepliesOf

LEMMA NoReplies ==
  ASSUME NEW port \in Nat, NEW g \in Nat, NEW sockid \in Nat
  PROVE  RepliesOf(Slot(port, g, sockid)) /\ RepliesOf(Unused)
<1>1. Slot(port, g, sockid).replies = <<>> /\ Unused.replies = <<>> /\ DOMAIN <<>> = {}
  BY DEF Slot, Unused
<1> QED
  BY <1>1 DEF RepliesOf

\* Slots stay what they are, or are new, or have a reply more or less.
LEMMA SlotsStayOwn ==
  ASSUME UNCHANGED app, SlotsReply,
         \A s \in ListenSlots : listenports'[s] = listenports[s] \/ RepliesOf(listenports'[s]),
         \A s \in ClientSlots : clientports'[s] = clientports[s] \/ RepliesOf(clientports'[s])
  PROVE  SlotsReply'
<1>1. /\ \A s \in ListenSlots : RepliesOf(listenports'[s])
      /\ \A s \in ClientSlots : RepliesOf(clientports'[s])
  BY DEF SlotsReply
<1>2. replies' = replies
  BY DEF app
<1> QED
  BY <1>1, <1>2 DEF SlotsReply, RepliesOf, SentOn

LEMMA ListenReplies ==
  ASSUME IInv, UNCHANGED app, ServersNamed, NEW g \in Gos, NEW port \in Ports, uip_listen(port, g)
  PROVE  ServersNamed' /\ (SlotsReply => SlotsReply')
<1>1. listenports \in [ListenSlots -> UipSlot]
  BY DEF IInv, TypeOK
<1>2. g \in Nat /\ port \in Nat
  BY SocketAssumption
<1> DEFINE s == LoopEnd(FreePorts \cup Foreign(port, g), UIP_LISTENPORTS)
           new == Slot(port, g, port)
<1>3. new.sock_id = port /\ RepliesOf(new)
  BY <1>2, NewSlot, NoReplies
<1>4. /\ clientports' = clientports
      /\ listenports' = listenports \/ listenports' = [listenports EXCEPT ![s] = new]
  BY DEF uip_listen
<1> HIDE DEF s, new
<1>5. \A t \in ListenSlots : listenports'[t] = listenports[t] \/ listenports'[t] = new
  BY <1>1, <1>4
<1>6. SlotsReply => SlotsReply'
  BY <1>3, <1>4, <1>5, SlotsStayOwn
<1>7. ServersNamed'
  BY <1>3, <1>5 DEF ServersNamed
<1> QED
  BY <1>6, <1>7

LEMMA ConnectReplies ==
  ASSUME IInv, UNCHANGED app, ServersNamed, NEW g \in Gos, NEW sockid \in Nat, uip_connect(g, sockid)
  PROVE  ServersNamed' /\ (SlotsReply => SlotsReply')
<1>1. lastport \in Nat /\ lastport' = lastport + 1 /\ listenports' = listenports
  BY DEF IInv, TypeOK, uip_connect
<1>2. g \in Nat
  BY SocketAssumption
<1> DEFINE new == Slot(lastport', g, sockid)
<1>3. RepliesOf(new)
  BY <1>1, <1>2, NoReplies
<1>4. \A t \in ClientSlots : clientports'[t] = clientports[t] \/ clientports'[t] = new
  BY DEF uip_connect
<1> HIDE DEF new
<1>5. SlotsReply => SlotsReply'
  BY <1>1, <1>3, <1>4, SlotsStayOwn
<1> QED
  BY <1>1, <1>5 DEF ServersNamed

LEMMA SendReplies ==
  ASSUME IInv, UNCHANGED app, ServersNamed, NEW g \in Gos, NEW sockid \in Numbers(g), NEW number,
         SentOn(g, sockid, number), uip_tcp_send(g, sockid, number)
  PROVE  ServersNamed' /\ (IdsApart /\ SlotsReply => SlotsReply')
<1>1. listenports \in [ListenSlots -> UipSlot] /\ clientports \in [ClientSlots -> UipSlot]
  BY DEF IInv, TypeOK
<1>2. number \in Nat
  BY DEF IInv, ReceivesOK, SentOn
<1>3. ServersNamed'
  BY <1>2, SendNamed DEF ServersNamed, SlotsNamed
<1> DEFINE ls == ListensAs(g, sockid)
           cs == ConnectsAs(g, sockid)
           s == IF ls # {} THEN FirstOf(ls) ELSE LoopEnd(cs, UIP_CONNS)
<1>4. ls # {} => s \in ls
  <2>1. ls \in SUBSET Nat
    BY DEF ListensAs, ListenSlots
  <2> QED
    BY <2>1, FirstOfSet
<1>5. cs # {} /\ ls = {} => s \in cs
  <2>1. cs \in SUBSET Nat
    BY DEF ConnectsAs, ClientSlots
  <2> QED
    BY <2>1, FirstOfSet DEF LoopEnd
<1>6. /\ ls = {} => listenports' = listenports
      /\ ls # {} => listenports' = [listenports EXCEPT ![s] = Queued(listenports[s], number)]
      /\ ls # {} \/ cs = {} => clientports' = clientports
      /\ ls = {} /\ cs # {} => clientports' = [clientports EXCEPT ![s] = Queued(clientports[s], number)]
  BY DEF uip_tcp_send
<1> HIDE DEF s
<1>7. ASSUME IdsApart, ls # {}
      PROVE  s \in ListenSlots /\ listenports[s].gos_id = g /\ listenports[s].sock_id = sockid
  <2>1. s \in ListenSlots /\ listenports[s].gos_id = g /\ listenports[s].sock_id = sockid % FirstSock
    BY <1>4, <1>7 DEF ListensAs
  <2>2. sockid % FirstSock \in Ports
    BY <2>1 DEF ServersNamed
  <2> QED
    BY <1>7, <2>1, <2>2, PortOfSocket
<1>8. ASSUME ls = {}, cs # {}
      PROVE  s \in ClientSlots /\ clientports[s].gos_id = g /\ clientports[s].sock_id = sockid
  BY <1>5, <1>8 DEF ConnectsAs
<1> HIDE DEF ls, cs
<1>9. ASSUME IdsApart, SlotsReply
      PROVE  SlotsReply'
  <2>1. ls # {} => RepliesOf(Queued(listenports[s], number))
    BY <1>1, <1>2, <1>7, <1>9, QueuedReplies DEF SlotsReply
  <2>2. ls = {} /\ cs # {} => RepliesOf(Queued(clientports[s], number))
    BY <1>1, <1>2, <1>8, <1>9, QueuedReplies DEF SlotsReply
  <2>3. \A t \in ListenSlots : listenports'[t] = listenports[t] \/ RepliesOf(listenports'[t])
    BY <1>1, <1>6, <2>1
  <2>4. \A t \in ClientSlots : clientports'[t] = clientports[t] \/ RepliesOf(clientports'[t])
    BY <1>1, <1>6, <2>2
  <2> QED
    BY <1>9, <2>3, <2>4, SlotsStayOwn
<1> QED
  BY <1>3, <1>9

\* The call in front says what task2 does with it.
LEMMA CallNamed ==
  ASSUME IInv, RepliesOK, NEW g \in Gos, task2.gos = g, task2.callid # 0
  PROVE  /\ call[g][1] = g
         /\ \/ task2.callid = LISTEN /\ call[g][2] \in Ports
            \/ task2.callid = CONNECT /\ call[g][4] \in SocketsOf(g)
            \/ /\ task2.callid = TCP_SEND
               /\ call[g][4] \in Numbers(g) /\ SentOn(g, call[g][4], call[g][5])
         /\ Framed(Drop(call[g], Rest(g)), SentCalls(g))
<1> DEFINE K == SocketsOf(g)
           M == SentCalls(g)
           s == call[g]
<1>1. M \subseteq GuestCalls(K, g) /\ Framed(Pending(g), M)
  BY DEF SentCalls, RepliesOK
<1> HIDE DEF K, M
<1>2. /\ s[1] = g
      /\ \/ task2.callid = LISTEN /\ s[2] \in K
         \/ task2.callid = CONNECT /\ s[4] \in K
         \/ task2.callid = TCP_SEND
      /\ \E m \in M : /\ Len(m) = Rest(g) + 1 /\ m[1] = task2.callid
                      /\ \A k \in 1 .. Rest(g) : m[k + 1] = s[k]
      /\ Framed(Drop(s, Rest(g)), M)
  BY <1>1, CallInFront
<1>3. PICK m \in M : /\ Len(m) = Rest(g) + 1 /\ m[1] = task2.callid
                     /\ \A k \in 1 .. Rest(g) : m[k + 1] = s[k]
  BY <1>2
<1>4. CASE task2.callid = LISTEN
  <2>1. Rest(g) = 2
    BY <1>4 DEF Rest, LISTEN, CONNECT, TCP_SEND
  <2>2. m[2 + 1] = s[2]
    BY <1>3, <2>1
  <2>3. m[3] \in Ports
    BY <1>3, <1>4 DEF M, SentCalls
  <2> QED
    BY <1>2, <1>4, <2>2, <2>3 DEF M
<1>5. CASE task2.callid = CONNECT
  <2>1. s[4] \in K
    BY <1>2, <1>5 DEF LISTEN, CONNECT, TCP_SEND
  <2> QED
    BY <1>2, <1>5, <2>1 DEF K, M
<1>6. CASE task2.callid = TCP_SEND
  <2>1. m \in GuestCalls(K, g) /\ SendSize \in Nat \ {0}
    BY <1>1, SocketAssumption
  <2>2. Len(m) = 5 + SendSize
    BY <1>3, <1>6, <2>1 DEF GuestCalls, LISTEN, CONNECT, TCP_SEND
  <2>3. Rest(g) \in Nat
    BY <1>1, CallInFront
  <2>4. Rest(g) = 4 + SendSize
    BY <1>3, <2>1, <2>2, <2>3
  <2>5. 4 \in 1 .. Rest(g) /\ 5 \in 1 .. Rest(g)
    BY <2>1, <2>4
  <2>6. m[4 + 1] = s[4] /\ m[5 + 1] = s[5]
    BY <1>3, <2>5
  <2>7. m[5] \in Numbers(g) /\ SentOn(g, m[5], m[6])
    BY <1>3, <1>6 DEF M, SentCalls
  <2> QED
    BY <1>2, <1>6, <2>6, <2>7 DEF M
<1> QED
  BY <1>2, <1>4, <1>5, <1>6

LEMMA ServeReplies ==
  ASSUME IInv, RepliesOK, UNCHANGED app, NEW g \in Gos, Task2Serve(g)
  PROVE  RepliesOK'
<1> DEFINE words == call[g]
<1>1. /\ task2.gos = g /\ task2.callid # 0 /\ task2' = Looks(NextGuest(g))
      /\ call' = [call EXCEPT ![g] = Drop(@, Rest(g))] /\ call \in [Gos -> Seq(Word)]
  BY DEF Task2Serve, IInv, TypeOK
<1>2. /\ words[1] = g
      /\ \/ task2.callid = LISTEN /\ words[2] \in Ports
         \/ task2.callid = CONNECT /\ words[4] \in SocketsOf(g)
         \/ /\ task2.callid = TCP_SEND
            /\ words[4] \in Numbers(g) /\ SentOn(g, words[4], words[5])
      /\ Framed(Drop(words, Rest(g)), SentCalls(g))
  BY <1>1, CallNamed
<1>3. \A h \in Gos : Pending(h)' = Pending(h) \/ Framed(Pending(h)', SentCalls(h))
  <2>1. call'[g] = Drop(call[g], Rest(g)) /\ \A h \in Gos \ {g} : call'[h] = call[h]
    BY <1>1
  <2>2. Pending(g)' = Drop(call[g], Rest(g)) /\ \A h \in Gos \ {g} : Pending(h)' = Pending(h)
    BY <1>1, <2>1 DEF Pending, Looks
  <2> QED
    BY <1>2, <2>2
<1>4. ServersNamed /\ (IdsApart => SlotsReply)
  BY DEF RepliesOK
<1>5. ServersNamed' /\ (IdsApart => SlotsReply')
  <2>1. CASE task2.callid = LISTEN /\ uip_listen(words[2], words[1])
    <3>1. words[2] \in Ports
      BY <1>2, <2>1 DEF LISTEN, CONNECT, TCP_SEND
    <3> QED
      BY <1>2, <1>4, <2>1, <3>1, ListenReplies
  <2>2. CASE task2.callid = CONNECT /\ uip_connect(words[1], words[4])
    <3>1. words[4] \in SocketsOf(g)
      BY <1>2, <2>2 DEF LISTEN, CONNECT, TCP_SEND
    <3>2. words[4] \in Nat
      BY <3>1, SocketNumber
    <3> QED
      BY <1>2, <1>4, <2>2, <3>2, ConnectReplies
  <2>3. CASE /\ task2.callid = TCP_SEND
             /\ IF words[3] > 0 THEN uip_tcp_send(words[1], words[4], words[5])
                                ELSE UNCHANGED tables
    <3>1. words[4] \in Numbers(g) /\ SentOn(g, words[4], words[5])
      BY <1>2, <2>3 DEF LISTEN, CONNECT, TCP_SEND
    <3>2. CASE words[3] > 0
      <4>1. uip_tcp_send(g, words[4], words[5])
        BY <1>2, <2>3, <3>2
      <4> HIDE DEF words
      <4> QED
        BY <1>4, <3>1, <4>1, SendReplies
    <3>3. CASE ~(words[3] > 0)
      <4>1. UNCHANGED <<listenports, clientports>>
        BY <2>3, <3>3 DEF tables
      <4> QED
        BY <1>4, <4>1, NothingSent, RepliesStay
    <3> QED
      BY <3>2, <3>3
  <2> QED
    BY <2>1, <2>2, <2>3 DEF Task2Serve
<1> QED
  BY <1>3, <1>5, PartitionReplies

LEMMA Task2Replies ==
  ASSUME Senders \subseteq {1}, IInv, FramesOK, RepliesOK, Task2, UNCHANGED app
  PROVE  RepliesOK'
<1>1. ASSUME UNCHANGED tables, \A h \in Gos : Pending(h)' = Pending(h)
      PROVE  RepliesOK'
  <2>1. UNCHANGED <<listenports, clientports>>
    BY <1>1 DEF tables
  <2>2. ServersNamed' /\ (IdsApart => SlotsReply')
    BY <2>1, NothingSent, RepliesStay DEF RepliesOK
  <2> QED
    BY <1>1, <2>2, PartitionReplies
<1>2. CASE Task2Begin
  <2>1. \A g \in Gos : Pending(g)' = Pending(g)
    BY <1>2 DEF Task2Begin, Pending, Waits, Looks
  <2> QED
    BY <1>1, <1>2, <2>1 DEF Task2Begin
<1>3. ASSUME NEW g \in Gos, Task2CallId(g)
      PROVE  RepliesOK'
  <2>1. task2 = Looks(g) /\ task2.gos = g /\ task2.callid = 0 /\ UNCHANGED tables
    BY <1>3 DEF Task2CallId, Looks
  <2>2. call \in [Gos -> Seq(Word)]
    BY DEF IInv, TypeOK
  <2>3. CASE call[g] = <<>> /\ task2' = Looks(NextGuest(g)) /\ UNCHANGED call
    <3>1. \A h \in Gos : Pending(h)' = Pending(h)
      BY <2>1, <2>3 DEF Pending, Looks
    <3> QED
      BY <1>1, <2>1, <3>1
  <2>4. CASE /\ call[g] # <<>>
             /\ task2' = IF Head(call[g]) \in Cases(g) THEN [gos |-> g, callid |-> Head(call[g])]
                                                        ELSE Looks(NextGuest(g))
             /\ call' = CallTaken(g)
    <3>1. /\ Head(call[g]) \in {LISTEN, CONNECT, TCP_SEND}
          /\ Head(call[g]) = TCP_SEND => g \in Senders
      BY <2>1, <2>4, FirstCall
    <3>2. Head(call[g]) \in Cases(g) /\ Head(call[g]) # 0
      BY <3>1, CaseKnown
    <3>3. task2'.gos = g /\ task2'.callid = Head(call[g])
      BY <2>4, <3>2
    <3>4. call'[g] = Tail(call[g]) /\ \A h \in Gos \ {g} : call'[h] = call[h]
      BY <2>2, <2>4 DEF CallTaken
    <3>5. <<Head(call[g])>> \o Tail(call[g]) = call[g]
      BY <2>2, <2>4
    <3>6. \A h \in Gos : Pending(h)' = Pending(h)
      BY <2>1, <3>2, <3>3, <3>4, <3>5 DEF Pending
    <3> QED
      BY <1>1, <2>1, <3>6
  <2> QED
    BY <1>3, <2>3, <2>4 DEF Task2CallId
<1>4. ASSUME NEW g \in Gos, Task2Serve(g)
      PROVE  RepliesOK'
  BY <1>4, ServeReplies
<1> QED
  BY <1>2, <1>3, <1>4 DEF Task2

\* ... and task1 sends the oldest reply of a slot.
LEMMA Task1Replies ==
  ASSUME IInv, RepliesOK, Task1, UNCHANGED app
  PROVE  RepliesOK'
<1>1. listenports \in [ListenSlots -> UipSlot] /\ clientports \in [ClientSlots -> UipSlot]
  BY DEF IInv, TypeOK
<1>2. /\ \/ listenports' = listenports
         \/ \E s \in ListenSlots : listenports' = [listenports EXCEPT ![s] = Answered(@)]
      /\ \/ clientports' = clientports
         \/ \E s \in ClientSlots : clientports' = [clientports EXCEPT ![s] = Answered(@)]
  BY AnsweredOnly
<1>3. ServersNamed'
  BY AnswerNamed DEF RepliesOK, ServersNamed, SlotsNamed
<1>4. ASSUME IdsApart
      PROVE  SlotsReply'
  <2>1. SlotsReply
    BY <1>4 DEF RepliesOK
  <2>2. \A s \in ListenSlots : listenports'[s] = listenports[s] \/ listenports'[s] = Answered(listenports[s])
    BY <1>1, <1>2
  <2>3. \A s \in ClientSlots : clientports'[s] = clientports[s] \/ clientports'[s] = Answered(clientports[s])
    BY <1>1, <1>2
  <2>4. /\ \A s \in ListenSlots : RepliesOf(Answered(listenports[s]))
        /\ \A s \in ClientSlots : RepliesOf(Answered(clientports[s]))
    BY <1>1, <2>1, AnsweredReplies DEF SlotsReply
  <2>5. \A s \in ListenSlots : listenports'[s] = listenports[s] \/ RepliesOf(listenports'[s])
    BY <2>2, <2>4
  <2>6. \A s \in ClientSlots : clientports'[s] = clientports[s] \/ RepliesOf(clientports'[s])
    BY <2>3, <2>4
  <2> QED
    BY <2>1, <2>5, <2>6, SlotsStayOwn
<1>5. \A g \in Gos : Pending(g)' = Pending(g)
  BY DEF Task1, Pending
<1> QED
  BY <1>3, <1>4, <1>5, PartitionReplies

LEMMA RepliesInitially ==
  ASSUME Init
  PROVE  RepliesOK
<1>1. /\ call = [g \in Gos |-> <<>>]
      /\ task2 = [gos |-> 0, callid |-> 0]
      /\ listenports = [s \in ListenSlots |->
                          IF s = 1 THEN Slot(CommandPort, 0, CommandPort) ELSE Unused]
      /\ clientports = [s \in ClientSlots |-> Unused]
  BY DEF Init, InitApp, InitServer
<1>2. 0 \notin Gos /\ 65535 \notin Gos
  BY SocketAssumption
<1>3. \A g \in Gos : Pending(g) = <<>>
  BY <1>1, <1>2 DEF Pending
<1>4. \A g \in Gos : Framed(<<>>, SentCalls(g))
  BY NothingFramed
<1>5. \A s \in ListenSlots : listenports[s].gos_id \in {0, 65535}
  BY <1>1 DEF Slot, Unused
<1>6. RepliesOf(Slot(CommandPort, 0, CommandPort)) /\ RepliesOf(Unused)
  BY NoReplies DEF CommandPort
<1>7. SlotsReply
  BY <1>1, <1>6 DEF SlotsReply
<1> QED
  BY <1>2, <1>3, <1>4, <1>5, <1>7 DEF RepliesOK, ServersNamed

LEMMA StepKeepsReplies ==
  ASSUME Senders \subseteq {1}, IInv, IInv', FramesOK, NumbersOK, RepliesOK, [Next]_vars
  PROVE  NumbersOK' /\ RepliesOK'
<1>1. NumbersOK'
  BY StepNumbers, NumbersStay
<1>2. CASE Partition
  BY <1>1, <1>2, Task1Replies, Task2Replies DEF Partition
<1>3. ASSUME NEW g \in Gos, Guest(g)
      PROVE  RepliesOK'
  BY <1>3, GuestReplies
<1>4. CASE UNCHANGED vars
  <2>1. UNCHANGED app /\ UNCHANGED <<call, task2, listenports, clientports>>
    BY <1>4 DEF vars, channels, server, tables
  <2>2. ServersNamed' /\ (IdsApart => SlotsReply')
    BY <2>1, NothingSent, RepliesStay DEF RepliesOK
  <2>3. \A g \in Gos : Pending(g)' = Pending(g)
    BY <2>1 DEF Pending
  <2> QED
    BY <1>1, <2>1, <2>2, <2>3, PartitionReplies
<1> QED
  BY <1>1, <1>2, <1>3, <1>4 DEF Next

\* A call channel has the replies of its guest, in whole calls, each with the
\* socket it was sent on, and the slots have what was sent on their sockets.
THEOREM RepliesStayOwn ==
  ASSUME Senders \subseteq {1}
  PROVE  Spec => [](NumbersOK /\ RepliesOK)
<1>1. Init => NumbersOK /\ RepliesOK
  BY OwnersInitially, RepliesInitially DEF OwnersOK
<1>2. IInv /\ IInv' /\ FramesOK /\ (NumbersOK /\ RepliesOK) /\ [Next]_vars => (NumbersOK /\ RepliesOK)'
  BY StepKeepsReplies
<1> QED
  BY <1>1, <1>2, Invariance, FramesStay, PTL DEF Spec

\* RepliesOwn (uip.c:2102): a reply waits in the slot of the socket the guest
\* sent it on, although task2 reads it out of a channel with the calls of other
\* sockets and looks for a server's port first, with the low 16 bits of the
\* socket.  It holds as long as those bits of no connection are a guest's port.
THEOREM RepliesWaitOnTheirSocket ==
  ASSUME Senders \subseteq {1}
  PROVE  Spec => [](IdsApart => RepliesOwn)
<1>1. RepliesOK /\ IdsApart => RepliesOwn
  BY DEF RepliesOK, SlotsReply, RepliesOf, SentOn, RepliesOwn
<1> QED
  BY <1>1, RepliesStayOwn, PTL

-----------------------------------------------------------------------------
\* How many connections there can be.  A guest has a place for each number it
\* takes as a socket, its requests carry growing numbers, and each makes the
\* partition take one local port.

NumbersOpen == \A g \in Gos : FirstSock .. spark_sockid[g] - 1 \subseteq SocketsOf(g)

Requests(g) ==
  {x \in GuestCalls(SocketsOf(g), g) \X Nat \X Nat :
     /\ x[2] <= x[3]
     /\ x[1][1] = CONNECT => x[2] < x[1][5] /\ x[1][5] <= x[3] /\ x[1][5] < spark_sockid[g]}

\* The connections of the guests up to the number d[g] of each.
Served(d) == {p \in Gos \X (FirstSock .. FirstSock + MAX_OPEN_PORTS - 1) : p[2] <= d[p[1]]}

ServedUpTo(d) ==
  /\ lastport <= FirstLport + Cardinality(Served(d))
  /\ \A g \in Gos : /\ FirstSock <= d[g] + 1
                    /\ Walk(Pending(g), Requests(g), d[g], spark_sockid[g] - 1)

ConnectsOK == NumbersOpen /\ \E d \in [Gos -> Nat] : ServedUpTo(d)

LEMMA SockidBounded ==
  ASSUME IInv, NumbersOpen, NEW g \in Gos
  PROVE  spark_sockid[g] <= FirstSock + MAX_OPEN_PORTS
<1> DEFINE ids == FirstSock .. spark_sockid[g] - 1
<1>1. spark_sockid[g] \in Nat
  BY DEF IInv, TypeOK
<1>2. FirstSock \in Nat /\ MAX_OPEN_PORTS \in Nat \ {0}
  BY SocketAssumption
<1>3. IsFiniteSet(Entries) /\ Cardinality(Entries) = MAX_OPEN_PORTS
  BY <1>2, FS_Interval DEF Entries
<1>4. /\ IsFiniteSet(ids)
      /\ Cardinality(ids) = IF FirstSock > spark_sockid[g] - 1 THEN 0 ELSE spark_sockid[g] - 1 - FirstSock + 1
  <2>1. FirstSock \in Int /\ spark_sockid[g] - 1 \in Int
    BY <1>1, <1>2
  <2> QED
    BY <2>1, FS_Interval
<1> SUFFICES ASSUME spark_sockid[g] > FirstSock + MAX_OPEN_PORTS
             PROVE  FALSE
  BY <1>1, <1>2
<1>5. Cardinality(Entries) < Cardinality(ids)
  BY <1>1, <1>2, <1>3, <1>4
<1>6. \A n \in ids : \E i \in Entries : active_ports[g][i].sock_id = n
  BY DEF NumbersOpen, SocketsOf
<1> DEFINE f == [n \in ids |-> CHOOSE i \in Entries : active_ports[g][i].sock_id = n]
<1> HIDE DEF ids
<1>7. f \in [ids -> Entries] /\ \A n \in ids : active_ports[g][f[n]].sock_id = n
  BY <1>6
<1> HIDE DEF f
<1>8. \E x, y \in ids : x # y /\ f[x] = f[y]
  BY <1>3, <1>4, <1>5, <1>7, FS_PigeonHole
<1> QED
  BY <1>7, <1>8

\* One more connection served.
LEMMA ServedMore ==
  ASSUME IsFiniteSet(Gos), NEW d \in [Gos -> Nat], NEW g \in Gos, NEW n \in Nat, d[g] < n,
         FirstSock <= n, n < FirstSock + MAX_OPEN_PORTS, NEW e \in [Gos -> Nat], NEW top \in Nat,
         n <= top, e = [d EXCEPT ![g] = top]
  PROVE  /\ Cardinality(Served(d)) \in Nat /\ Cardinality(Served(e)) \in Nat
         /\ Cardinality(Served(d)) + 1 <= Cardinality(Served(e))
<1> DEFINE all == Gos \X (FirstSock .. FirstSock + MAX_OPEN_PORTS - 1)
           p == <<g, n>>
<1>1. FirstSock \in Nat /\ MAX_OPEN_PORTS \in Nat
  BY SocketAssumption
<1>2. IsFiniteSet(all)
  <2>1. IsFiniteSet(FirstSock .. FirstSock + MAX_OPEN_PORTS - 1)
    BY <1>1, FS_Interval
  <2> QED
    BY <2>1, FS_Product
<1>3. p \in all
  BY <1>1
<1> HIDE DEF all
<1>4. Served(d) \in SUBSET all /\ Served(e) \in SUBSET all
  BY DEF Served, all
<1>5. p \notin Served(d)
  BY DEF Served
<1>6. Served(d) \cup {p} \in SUBSET Served(e)
  <2>1. p \in Served(e)
    BY <1>3 DEF Served, all
  <2>2. ASSUME NEW q \in Served(d)
        PROVE  q \in Served(e)
    <3>1. q \in all /\ q[1] \in Gos /\ q[2] \in Nat /\ q[2] <= d[q[1]]
      BY <1>1 DEF Served, all
    <3>2. q[2] <= e[q[1]]
      BY <3>1
    <3> QED
      BY <3>1, <3>2 DEF Served, all
  <2> QED
    BY <2>1, <2>2
<1> HIDE DEF p
<1>7. IsFiniteSet(Served(d)) /\ IsFiniteSet(Served(e))
  BY <1>2, <1>4, FS_Subset
<1>8. Cardinality(Served(d) \cup {p}) = Cardinality(Served(d)) + 1
  BY <1>5, <1>7, FS_AddElement
<1>9. Cardinality(Served(d) \cup {p}) <= Cardinality(Served(e))
  BY <1>6, <1>7, FS_Subset
<1> QED
  BY <1>7, <1>8, <1>9, FS_CardinalityType

\* There are as many local ports as places for sockets.
LEMMA ServedBounded ==
  ASSUME IsFiniteSet(Gos), NEW d \in [Gos -> Nat]
  PROVE  /\ Cardinality(Served(d)) \in Nat /\ Cardinality(Gos) \in Nat
         /\ Cardinality(Served(d)) <= Cardinality(Gos) * MAX_OPEN_PORTS
<1> DEFINE ids == FirstSock .. FirstSock + MAX_OPEN_PORTS - 1
<1>1. FirstSock \in Nat /\ MAX_OPEN_PORTS \in Nat \ {0}
  BY SocketAssumption
<1>2. IsFiniteSet(ids) /\ Cardinality(ids) = MAX_OPEN_PORTS
  BY <1>1, FS_Interval
<1>3. Served(d) \in SUBSET (Gos \X ids)
  BY DEF Served
<1> HIDE DEF ids
<1>4. IsFiniteSet(Gos \X ids) /\ Cardinality(Gos \X ids) = Cardinality(Gos) * MAX_OPEN_PORTS
  BY <1>2, FS_Product
<1>5. IsFiniteSet(Served(d)) /\ Cardinality(Served(d)) <= Cardinality(Gos \X ids)
  BY <1>3, <1>4, FS_Subset
<1> QED
  BY <1>4, <1>5, FS_CardinalityType

LEMMA ServedStays ==
  ASSUME IsFiniteSet(Gos), NEW d \in [Gos -> Nat], NEW g \in Gos, NEW top \in Nat, d[g] <= top,
         NEW e \in [Gos -> Nat], e = [d EXCEPT ![g] = top]
  PROVE  /\ Cardinality(Served(d)) \in Nat /\ Cardinality(Served(e)) \in Nat
         /\ Cardinality(Served(d)) <= Cardinality(Served(e))
<1> DEFINE all == Gos \X (FirstSock .. FirstSock + MAX_OPEN_PORTS - 1)
<1>1. FirstSock \in Nat /\ MAX_OPEN_PORTS \in Nat
  BY SocketAssumption
<1>2. IsFiniteSet(all)
  <2>1. IsFiniteSet(FirstSock .. FirstSock + MAX_OPEN_PORTS - 1)
    BY <1>1, FS_Interval
  <2> QED
    BY <2>1, FS_Product
<1> HIDE DEF all
<1>3. Served(d) \in SUBSET all /\ Served(e) \in SUBSET all
  BY DEF Served, all
<1>4. ASSUME NEW q \in Served(d)
      PROVE  q \in Served(e)
  <2>1. q \in all /\ q[1] \in Gos /\ q[2] \in Nat /\ q[2] <= d[q[1]]
    BY <1>1 DEF Served, all
  <2>2. q[2] <= e[q[1]]
    BY <2>1
  <2> QED
    BY <2>1, <2>2 DEF Served, all
<1>5. IsFiniteSet(Served(d)) /\ IsFiniteSet(Served(e))
  BY <1>2, <1>3, FS_Subset
<1>6. Served(d) \in SUBSET Served(e)
  BY <1>4
<1>7. Cardinality(Served(d)) <= Cardinality(Served(e))
  BY <1>5, <1>6, FS_Subset
<1> QED
  BY <1>5, <1>7, FS_CardinalityType

\* A guest asks for one more connection, or for none.
LEMMA GuestNumbersOpen ==
  ASSUME IInv, NumbersOpen, MoreSent, NEW g \in Gos, CallsSent(g)
  PROVE  /\ NumbersOpen'
         /\ \A h \in Gos : spark_sockid[h] <= spark_sockid'[h]
<1>1. spark_sockid \in [Gos -> Nat] /\ FirstSock \in Nat
  <2>1. spark_sockid \in [Gos -> Nat]
    BY DEF IInv, TypeOK
  <2> QED
    BY <2>1, SocketAssumption
<1>2. \A h \in Gos : SocketsOf(h) \subseteq SocketsOf(h)'
  BY DEF MoreSent
<1>3. CASE UNCHANGED spark_sockid
  BY <1>1, <1>2, <1>3 DEF NumbersOpen
<1>4. ASSUME NEW m \in Seq(Word), m \in SentCalls(g)', m[1] = CONNECT, m[5] = spark_sockid[g],
             spark_sockid' = [spark_sockid EXCEPT ![g] = @ + 1]
      PROVE  /\ NumbersOpen'
             /\ \A h \in Gos : spark_sockid[h] <= spark_sockid'[h]
  <2>1. spark_sockid[g] \in SocketsOf(g)'
    <3>1. m \in GuestCalls(SocketsOf(g)', g)
      BY <1>4 DEF SentCalls, GuestCalls
    <3> QED
      BY <1>4, <3>1 DEF GuestCalls, LISTEN, CONNECT, TCP_SEND
  <2>2. /\ spark_sockid'[g] = spark_sockid[g] + 1
        /\ \A h \in Gos \ {g} : spark_sockid'[h] = spark_sockid[h]
    BY <1>1, <1>4
  <2>3. \A h \in Gos : \A n \in FirstSock .. spark_sockid'[h] - 1 :
          n \in FirstSock .. spark_sockid[h] - 1 \/ (h = g /\ n = spark_sockid[g])
    BY <1>1, <2>2
  <2>4. NumbersOpen'
    BY <1>2, <2>1, <2>3 DEF NumbersOpen
  <2> QED
    BY <1>1, <2>2, <2>4
<1>5. spark_sockid' = spark_sockid => \A h \in Gos : spark_sockid[h] <= spark_sockid'[h]
  BY <1>1
<1> QED
  BY <1>3, <1>4, <1>5 DEF CallsSent

LEMMA RequestsMore ==
  ASSUME IInv, IInv', MoreSent, NEW g \in Gos, spark_sockid[g] <= spark_sockid'[g]
  PROVE  Requests(g) \subseteq Requests(g)'
<1>1. spark_sockid[g] \in Nat
  BY DEF IInv, TypeOK
<1>2. spark_sockid'[g] \in Nat
  BY DEF IInv, TypeOK
<1>3. GuestCalls(SocketsOf(g), g) \subseteq GuestCalls(SocketsOf(g)', g)
  BY MoreCalls DEF MoreSent
<1> SUFFICES ASSUME NEW x \in Requests(g)
             PROVE  x \in Requests(g)'
  OBVIOUS
<1>4. /\ x \in GuestCalls(SocketsOf(g)', g) \X Nat \X Nat
      /\ x[2] <= x[3]
  BY <1>3 DEF Requests
<1>5. x[1][1] = CONNECT => x[2] < x[1][5] /\ x[1][5] <= x[3] /\ x[1][5] < spark_sockid'[g]
  <2> SUFFICES ASSUME x[1][1] = CONNECT
               PROVE  x[2] < x[1][5] /\ x[1][5] <= x[3] /\ x[1][5] < spark_sockid'[g]
    OBVIOUS
  <2>1. x[1] \in Seq(Nat) /\ Len(x[1]) = 5
    BY DEF Requests, GuestCalls, LISTEN, CONNECT, TCP_SEND, Word
  <2>2. x[1][5] \in Nat
    BY <2>1
  <2>3. x[2] < x[1][5] /\ x[1][5] <= x[3] /\ x[1][5] < spark_sockid[g]
    BY DEF Requests
  <2> QED
    BY <1>1, <1>2, <2>2, <2>3
<1> QED
  BY <1>4, <1>5 DEF Requests, GuestCalls

LEMMA GuestConnects ==
  ASSUME IInv, IInv', FramesOK, NumbersOK, ConnectsOK, NEW g \in Gos, Guest(g)
  PROVE  ConnectsOK'
<1>1. MoreSent /\ CallsSent(g) /\ UNCHANGED <<task2, lastport>>
  BY GuestSends DEF Guest, server, tables
<1>2. NumbersOpen' /\ \A h \in Gos : spark_sockid[h] <= spark_sockid'[h]
  BY <1>1, GuestNumbersOpen DEF ConnectsOK
<1>3. PICK d \in [Gos -> Nat] : ServedUpTo(d)
  BY DEF ConnectsOK
<1>4. \A h \in Gos : spark_sockid[h] - 1 \in Nat /\ spark_sockid'[h] - 1 \in Nat /\ spark_sockid[h] \in Nat
  <2>1. \A h \in Gos : spark_sockid[h] \in Nat /\ spark_sockid[h] >= FirstSock
    BY DEF IInv, TypeOK, NumbersOK
  <2>2. \A h \in Gos : spark_sockid'[h] \in Nat
    BY DEF IInv, TypeOK
  <2>3. FirstSock \in Nat \ {0}
    BY SocketAssumption
  <2> QED
    BY <1>2, <2>1, <2>2, <2>3
<1>5. ASSUME NEW h \in Gos
      PROVE  Walk(Pending(h)', Requests(h)', d[h], spark_sockid'[h] - 1)
  <2> DEFINE R == Requests(h)
             S == Requests(h)'
             w == Pending(h)
             hi == spark_sockid[h] - 1
             top == spark_sockid'[h] - 1
  <2>1. R \subseteq S
    BY <1>1, <1>2, RequestsMore
  <2>2. w \in Seq(Word) /\ hi \in Nat /\ top \in Nat /\ d[h] \in Nat /\ Walk(w, R, d[h], hi)
    BY <1>3, <1>4, PendingTyped DEF ServedUpTo
  <2>3. CASE Pending(h)' = Pending(h) /\ spark_sockid'[h] = spark_sockid[h]
    <3>1. Pending(h)' = w /\ top = hi
      BY <2>3
    <3> HIDE DEF R, S, w, hi, top
    <3>2. Walk(w, S, d[h], hi)
      BY <2>1, <2>2, WalkMore
    <3> QED
      BY <3>1, <3>2 DEF S, top
  <2>4. ASSUME h = g,
               NEW m \in Seq(Word), Calls(g, m), 0 < Len(m), m \in SentCalls(g)',
               \/ m[1] # CONNECT /\ UNCHANGED spark_sockid
               \/ /\ m[1] = CONNECT /\ m[5] = spark_sockid[g]
                  /\ spark_sockid' = [spark_sockid EXCEPT ![g] = @ + 1]
        PROVE  Walk(Pending(h)', Requests(h)', d[h], spark_sockid'[h] - 1)
    <3>1. Pending(h)' = w \o m
      BY <1>1, <2>4, PendingGrows DEF Calls
    <3>2. <<m, hi, top>> \in S
      <4>1. m \in GuestCalls(SocketsOf(g)', g)
        BY <2>4 DEF SentCalls, GuestCalls
      <4>2. spark_sockid \in [Gos -> Nat]
        BY DEF IInv, TypeOK
      <4>3. CASE m[1] # CONNECT /\ UNCHANGED spark_sockid
        BY <2>2, <2>4, <4>1, <4>3 DEF Requests, GuestCalls
      <4>4. CASE /\ m[1] = CONNECT /\ m[5] = spark_sockid[g]
                 /\ spark_sockid' = [spark_sockid EXCEPT ![g] = @ + 1]
        <5>1. spark_sockid'[h] = spark_sockid[h] + 1 /\ m[5] = spark_sockid[h] /\ spark_sockid[h] \in Nat
          BY <2>4, <4>2, <4>4
        <5>2. hi < m[5] /\ m[5] <= top /\ m[5] < spark_sockid'[h] /\ hi <= top
          BY <5>1
        <5> QED
          BY <2>2, <2>4, <4>1, <5>2 DEF Requests, GuestCalls
      <4> QED
        BY <2>4, <4>3, <4>4
    <3> HIDE DEF R, S, w, hi, top
    <3>3. Walk(w \o m, S, d[h], top)
      BY <2>1, <2>2, <2>4, <3>2, WalkAppended
    <3> QED
      BY <3>1, <3>3 DEF S, top
  <2>5. ASSUME h # g, NEW m \in Seq(Word), Calls(g, m),
               \/ UNCHANGED spark_sockid
               \/ spark_sockid' = [spark_sockid EXCEPT ![g] = @ + 1]
        PROVE  Walk(Pending(h)', Requests(h)', d[h], spark_sockid'[h] - 1)
    <3>1. Pending(h)' = Pending(h)
      BY <1>1, <2>5, PendingGrows DEF Calls
    <3>2. spark_sockid \in [Gos -> Nat]
      BY DEF IInv, TypeOK
    <3>3. spark_sockid'[h] = spark_sockid[h]
      BY <2>5, <3>2
    <3> QED
      BY <2>3, <3>1, <3>3
  <2>6. CASE UNCHANGED <<call, spark_sockid>>
    BY <1>1, <2>3, <2>6 DEF Pending
  <2> QED
    BY <1>1, <2>4, <2>5, <2>6 DEF CallsSent
<1>6. ServedUpTo(d)'
  <2>1. lastport' <= FirstLport + Cardinality(Served(d))
    BY <1>1, <1>3 DEF ServedUpTo
  <2> QED
    BY <1>3, <1>5, <2>1 DEF ServedUpTo, Served, Walk, Labelled, Cut, Cuts, Steps
<1> QED
  BY <1>2, <1>6 DEF ConnectsOK

\* A step of the partition: the words that wait and the local port follow the
\* numbers e.
LEMMA PartitionConnects ==
  ASSUME NumbersOpen, UNCHANGED app, NEW e \in [Gos -> Nat],
         lastport' <= FirstLport + Cardinality(Served(e)),
         \A h \in Gos : /\ FirstSock <= e[h] + 1
                        /\ Walk(Pending(h)', Requests(h), e[h], spark_sockid[h] - 1)
  PROVE  ConnectsOK'
<1>1. UNCHANGED <<active_ports, spark_sockid>>
  BY DEF app
<1>2. \A h \in Gos : SocketsOf(h)' = SocketsOf(h)
  BY NothingSent
<1>3. NumbersOpen'
  BY <1>1, <1>2 DEF NumbersOpen
<1>4. \A h \in Gos : Requests(h)' = Requests(h)
  BY <1>1, <1>2 DEF Requests, GuestCalls
<1>5. \A h \in Gos : Walk(Pending(h)', Requests(h)', e[h], spark_sockid'[h] - 1)
  BY <1>1, <1>4
<1>6. ServedUpTo(e)'
  BY <1>5 DEF ServedUpTo, Served, Walk, Labelled, Cut, Cuts, Steps
<1> QED
  BY <1>3, <1>6 DEF ConnectsOK

LEMMA NothingServed ==
  ASSUME ConnectsOK, UNCHANGED <<app, lastport>>, \A h \in Gos : Pending(h)' = Pending(h)
  PROVE  ConnectsOK'
<1>1. PICK d \in [Gos -> Nat] : ServedUpTo(d)
  BY DEF ConnectsOK
<1>2. lastport' <= FirstLport + Cardinality(Served(d))
  BY <1>1 DEF ServedUpTo
<1>3. \A h \in Gos : /\ FirstSock <= d[h] + 1
                     /\ Walk(Pending(h)', Requests(h), d[h], spark_sockid[h] - 1)
  BY <1>1 DEF ServedUpTo
<1> QED
  BY <1>1, <1>2, <1>3, PartitionConnects DEF ConnectsOK

LEMMA ConnectNumber ==
  ASSUME NEW K, NEW g, NEW m \in GuestCalls(K, g), m[1] = CONNECT
  PROVE  m[5] \in Nat
<1>1. m \in Seq(Nat) /\ Len(m) = 5
  BY DEF GuestCalls, LISTEN, CONNECT, TCP_SEND, Word
<1>2. 5 \in 1 .. Len(m)
  BY <1>1
<1> QED
  BY <1>1, <1>2, ElementOfSeq

\* The call in front of a channel is the next request of the guest.
LEMMA ServeConnects ==
  ASSUME IInv, NumbersOK, ConnectsOK, IsFiniteSet(Gos), UNCHANGED app, NEW g \in Gos, Task2Serve(g)
  PROVE  ConnectsOK'
<1> DEFINE words == call[g]
           w == Pending(g)
<1>1. /\ task2.gos = g /\ task2.callid # 0 /\ task2' = Looks(NextGuest(g))
      /\ call' = [call EXCEPT ![g] = Drop(@, Rest(g))] /\ call \in [Gos -> Seq(Word)]
  BY DEF Task2Serve, IInv, TypeOK
<1>2. PICK d \in [Gos -> Nat] : ServedUpTo(d)
  BY DEF ConnectsOK
<1>3. w \in Seq(Word) /\ w # <<>>
  <2>1. Len(w) = 1 + Len(words) /\ Len(words) \in Nat
    <3>1. words \in Seq(Word) /\ <<task2.callid>> \in Seq(Word) /\ Len(<<task2.callid>>) = 1
      <4>1. task2.callid \in Nat
        BY DEF IInv, TypeOK
      <4> QED
        BY <1>1, <4>1 DEF Word
    <3>2. w = <<task2.callid>> \o words
      BY <1>1 DEF Pending
    <3> HIDE DEF w, words
    <3>3. Len(w) = Len(<<task2.callid>>) + Len(words)
      BY <3>1, <3>2, WordsBehind
    <3> QED
      BY <3>1, <3>3
  <2>2. w \in Seq(Word)
    BY PendingTyped
  <2> HIDE DEF w, words
  <2> QED
    BY <2>1, <2>2, EmptySeq
<1>4. PICK n \in 1 .. Len(w), mid \in Nat :
        /\ <<SubSeq(w, 1, n), d[g], mid>> \in Requests(g)
        /\ Walk(Drop(w, n), Requests(g), mid, spark_sockid[g] - 1)
  <2>1. Walk(w, Requests(g), d[g], spark_sockid[g] - 1)
    BY <1>2 DEF ServedUpTo
  <2> HIDE DEF w
  <2> QED
    BY <1>3, <2>1, WalkFirst
<1> DEFINE m == SubSeq(w, 1, n)
<1>5. /\ m \in GuestCalls(SocketsOf(g), g) /\ d[g] <= mid
      /\ m[1] = CONNECT => d[g] < m[5] /\ m[5] <= mid /\ m[5] < spark_sockid[g]
  BY <1>4 DEF Requests
<1>6. /\ words[1] = g
      /\ Rest(g) = n - 1 /\ m[1] = task2.callid /\ \A k \in 1 .. Rest(g) : m[k + 1] = words[k]
      /\ Drop(w, n) = Drop(words, Rest(g))
  BY <1>1, <1>5, FrontCall
<1>7. \A h \in Gos \ {g} : Pending(h)' = Pending(h)
  BY <1>1 DEF Pending, Looks
<1>8. Pending(g)' = Drop(words, Rest(g))
  BY <1>1 DEF Pending, Looks
<1> DEFINE e == [d EXCEPT ![g] = mid]
<1>9. e \in [Gos -> Nat] /\ e[g] = mid /\ \A h \in Gos \ {g} : e[h] = d[h]
  OBVIOUS
<1>10. \A h \in Gos : /\ FirstSock <= e[h] + 1
                      /\ Walk(Pending(h)', Requests(h), e[h], spark_sockid[h] - 1)
  <2>1. \A h \in Gos : /\ FirstSock <= d[h] + 1
                       /\ Walk(Pending(h), Requests(h), d[h], spark_sockid[h] - 1)
    BY <1>2 DEF ServedUpTo
  <2>2. FirstSock <= mid + 1
    BY <1>5, <2>1, SocketAssumption
  <2>3. Walk(Pending(g)', Requests(g), mid, spark_sockid[g] - 1)
    BY <1>4, <1>6, <1>8
  <2> HIDE DEF e, w
  <2> QED
    BY <1>7, <1>9, <2>1, <2>2, <2>3
<1>11. lastport' <= FirstLport + Cardinality(Served(e))
  <2>1. lastport <= FirstLport + Cardinality(Served(d))
    BY <1>2 DEF ServedUpTo
  <2>2. lastport \in Nat /\ FirstLport \in Nat
    <3>1. lastport \in Nat
      BY DEF IInv, TypeOK
    <3> QED
      BY <3>1, ServerAssumption
  <2>3. CASE lastport' = lastport
    <3>1. /\ Cardinality(Served(d)) \in Nat /\ Cardinality(Served(e)) \in Nat
          /\ Cardinality(Served(d)) <= Cardinality(Served(e))
      BY <1>5, <1>9, ServedStays
    <3> HIDE DEF e
    <3>2. lastport <= FirstLport + Cardinality(Served(e))
      BY <2>1, <2>2, <3>1
    <3> QED
      BY <2>3, <3>2
  <2>4. CASE task2.callid = CONNECT /\ lastport' = lastport + 1
    <3>1. m[1] = CONNECT
      BY <1>6, <2>4
    <3>2. m \in GuestCalls(SocketsOf(g), g)
      BY <1>5
    <3>3. m[5] \in Nat
      BY <3>1, <3>2, ConnectNumber
    <3>4. d[g] < m[5] /\ m[5] <= mid /\ m[5] < spark_sockid[g]
      BY <1>5, <3>1
    <3>5. spark_sockid[g] <= FirstSock + MAX_OPEN_PORTS /\ spark_sockid[g] \in Nat
      <4>1. spark_sockid[g] <= FirstSock + MAX_OPEN_PORTS
        BY SockidBounded DEF ConnectsOK
      <4>2. spark_sockid[g] \in Nat
        BY DEF IInv, TypeOK
      <4> QED
        BY <4>1, <4>2
    <3>6. FirstSock <= d[g] + 1 /\ FirstSock \in Nat /\ MAX_OPEN_PORTS \in Nat
      BY <1>2, SocketAssumption DEF ServedUpTo
    <3> DEFINE top == m[5]
    <3> HIDE DEF e, m
    <3>7. FirstSock <= top /\ top < FirstSock + MAX_OPEN_PORTS /\ d[g] < top /\ top <= mid /\ top \in Nat
      <4>1. d[g] \in Nat
        OBVIOUS
      <4> QED
        BY <3>3, <3>4, <3>5, <3>6, <4>1
    <3> HIDE DEF top
    <3>8. /\ Cardinality(Served(d)) \in Nat /\ Cardinality(Served(e)) \in Nat
          /\ Cardinality(Served(d)) + 1 <= Cardinality(Served(e))
      BY <1>9, <3>7, ServedMore DEF e
    <3> QED
      BY <2>1, <2>2, <2>4, <3>8
  <2>5. lastport' = lastport \/ (task2.callid = CONNECT /\ lastport' = lastport + 1)
    BY DEF Task2Serve, uip_listen, uip_connect, uip_tcp_send, tables
  <2> QED
    BY <2>3, <2>4, <2>5
<1> HIDE DEF e
<1> QED
  BY <1>9, <1>10, <1>11, PartitionConnects DEF ConnectsOK

LEMMA Task2Connects ==
  ASSUME Senders \subseteq {1}, IsFiniteSet(Gos), IInv, FramesOK, NumbersOK, ConnectsOK, Task2, UNCHANGED app
  PROVE  ConnectsOK'
<1>1. CASE Task2Begin
  <2>1. \A g \in Gos : Pending(g)' = Pending(g)
    BY <1>1 DEF Task2Begin, Pending, Waits, Looks
  <2>2. UNCHANGED lastport
    BY <1>1 DEF Task2Begin, tables
  <2> QED
    BY <2>1, <2>2, NothingServed
<1>2. ASSUME NEW g \in Gos, Task2CallId(g)
      PROVE  ConnectsOK'
  <2>1. task2 = Looks(g) /\ task2.gos = g /\ task2.callid = 0 /\ UNCHANGED lastport
    BY <1>2 DEF Task2CallId, Looks, tables
  <2>2. call \in [Gos -> Seq(Word)]
    BY DEF IInv, TypeOK
  <2>3. CASE call[g] = <<>> /\ task2' = Looks(NextGuest(g)) /\ UNCHANGED call
    <3>1. \A h \in Gos : Pending(h)' = Pending(h)
      BY <2>1, <2>3 DEF Pending, Looks
    <3> QED
      BY <2>1, <3>1, NothingServed
  <2>4. CASE /\ call[g] # <<>>
             /\ task2' = IF Head(call[g]) \in Cases(g) THEN [gos |-> g, callid |-> Head(call[g])]
                                                        ELSE Looks(NextGuest(g))
             /\ call' = CallTaken(g)
    <3>1. /\ Head(call[g]) \in {LISTEN, CONNECT, TCP_SEND}
          /\ Head(call[g]) = TCP_SEND => g \in Senders
      BY <2>1, <2>4, FirstCall
    <3>2. Head(call[g]) \in Cases(g) /\ Head(call[g]) # 0
      BY <3>1, CaseKnown
    <3>3. task2'.gos = g /\ task2'.callid = Head(call[g])
      BY <2>4, <3>2
    <3>4. call'[g] = Tail(call[g]) /\ \A h \in Gos \ {g} : call'[h] = call[h]
      BY <2>2, <2>4 DEF CallTaken
    <3>5. <<Head(call[g])>> \o Tail(call[g]) = call[g]
      BY <2>2, <2>4
    <3>6. \A h \in Gos : Pending(h)' = Pending(h)
      BY <2>1, <3>2, <3>3, <3>4, <3>5 DEF Pending
    <3> QED
      BY <2>1, <3>6, NothingServed
  <2> QED
    BY <1>2, <2>3, <2>4 DEF Task2CallId
<1> QED
  BY <1>1, <1>2, ServeConnects DEF Task2

LEMMA ConnectsInitially ==
  ASSUME IsFiniteSet(Gos), Init
  PROVE  ConnectsOK
<1>1. /\ call = [g \in Gos |-> <<>>]
      /\ task2 = [gos |-> 0, callid |-> 0]
      /\ lastport = FirstLport
      /\ spark_sockid = [g \in Gos |-> FirstSock]
  BY DEF Init, InitApp, InitServer
<1>2. 0 \notin Gos /\ FirstSock \in Nat \ {0}
  BY SocketAssumption
<1>3. \A g \in Gos : Pending(g) = <<>>
  BY <1>1, <1>2 DEF Pending
<1> DEFINE d == [g \in Gos |-> FirstSock - 1]
<1>4. d \in [Gos -> Nat] /\ \A g \in Gos : d[g] = FirstSock - 1
  BY <1>2
<1> HIDE DEF d
<1>5. \A g \in Gos : /\ FirstSock <= d[g] + 1
                     /\ Walk(Pending(g), Requests(g), d[g], spark_sockid[g] - 1)
  BY <1>1, <1>2, <1>3, <1>4, NoWalk
<1>6. lastport <= FirstLport + Cardinality(Served(d))
  <2>1. Cardinality(Served(d)) \in Nat
    BY <1>4, ServedBounded
  <2> QED
    BY <1>1, <2>1, ServerAssumption
<1>7. NumbersOpen
  BY <1>1, <1>2 DEF NumbersOpen
<1> QED
  BY <1>4, <1>5, <1>6, <1>7 DEF ConnectsOK, ServedUpTo

LEMMA StepKeepsConnects ==
  ASSUME Senders \subseteq {1}, IsFiniteSet(Gos),
         IInv, IInv', FramesOK, NumbersOK, ConnectsOK, [Next]_vars
  PROVE  ConnectsOK'
<1>1. CASE Task1 /\ UNCHANGED app
  <2>1. lastport' = lastport
    BY <1>1 DEF Task1, Input, Poll, InputDropped, InputListen, InputClient, Task1Found, tables
  <2>2. \A g \in Gos : Pending(g)' = Pending(g)
    BY <1>1 DEF Task1, Pending
  <2> QED
    BY <1>1, <2>1, <2>2, NothingServed
<1>2. CASE UNCHANGED vars
  <2>1. UNCHANGED <<app, call, task2, lastport>>
    BY <1>2 DEF vars, channels, server, tables
  <2>2. \A g \in Gos : Pending(g)' = Pending(g)
    BY <2>1 DEF Pending
  <2> QED
    BY <2>1, <2>2, NothingServed
<1> QED
  BY <1>1, <1>2, Task2Connects, GuestConnects DEF Next, Partition

\* The calls that wait in the channel of a guest ask for connections with
\* growing numbers, and no number has been served twice.
THEOREM ConnectsStayOK ==
  ASSUME Senders \subseteq {1}, IsFiniteSet(Gos)
  PROVE  Spec => []ConnectsOK
<1>1. Init => ConnectsOK
  BY ConnectsInitially
<1>2. IInv /\ IInv' /\ FramesOK /\ NumbersOK /\ ConnectsOK /\ [Next]_vars => ConnectsOK'
  BY StepKeepsConnects
<1> QED
  BY <1>1, <1>2, Invariance, FramesStay, RepliesStayOwn, PTL DEF Spec

\* uip_connect (uip.c:624) never takes more local ports than the guests have
\* places for sockets, although a request that finds no free connection takes
\* one too, so that lastport stays far from 32000, where it starts over at 4096
\* (uip.c:641).
THEOREM ConnectionsBounded ==
  ASSUME Senders \subseteq {1}, IsFiniteSet(Gos)
  PROVE  Spec => [](lastport <= FirstLport + Cardinality(Gos) * MAX_OPEN_PORTS)
<1>1. IInv /\ ConnectsOK => lastport <= FirstLport + Cardinality(Gos) * MAX_OPEN_PORTS
  <2> SUFFICES ASSUME IInv, ConnectsOK
               PROVE  lastport <= FirstLport + Cardinality(Gos) * MAX_OPEN_PORTS
    OBVIOUS
  <2> DEFINE all == Cardinality(Gos) * MAX_OPEN_PORTS
  <2>1. PICK d \in [Gos -> Nat] : ServedUpTo(d)
    BY DEF ConnectsOK
  <2>2. Cardinality(Served(d)) \in Nat /\ all \in Nat /\ Cardinality(Served(d)) <= all
    <3>1. /\ Cardinality(Served(d)) \in Nat /\ Cardinality(Gos) \in Nat
          /\ Cardinality(Served(d)) <= all
      BY ServedBounded
    <3> QED
      BY <3>1, SocketAssumption
  <2>3. lastport \in Nat
    BY DEF IInv, TypeOK
  <2> HIDE DEF all
  <2>4. lastport <= FirstLport + all
    BY <2>1, <2>2, <2>3, ServerAssumption DEF ServedUpTo
  <2> QED
    BY <2>4 DEF all
<1> QED
  BY <1>1, Invariance, ConnectsStayOK, PTL

LEMMA LowBits ==
  ASSUME NEW d \in Nat \ {0}, NEW n \in Nat, n < d
  PROVE  (d + n) % d = n
OBVIOUS

\* A connection has the low 16 bits of a small number, so none is a guest's
\* port above those: a reply waits in the slot of the socket it was sent on.
THEOREM RepliesNeverMixed ==
  ASSUME Senders \subseteq {1}, IsFiniteSet(Gos), \A port \in Ports : MAX_OPEN_PORTS <= port
  PROVE  Spec => []RepliesOwn
<1>1. IInv /\ NumbersOpen => IdsApart
  <2> SUFFICES ASSUME IInv, NumbersOpen, NEW g \in Gos, NEW sockid \in FirstSock .. spark_sockid[g] - 1,
                      sockid % FirstSock \in Ports
               PROVE  FALSE
    BY DEF IdsApart
  <2> DEFINE port == sockid % FirstSock
             n == sockid - FirstSock
  <2>1. spark_sockid[g] <= FirstSock + MAX_OPEN_PORTS
    BY SockidBounded
  <2>2. spark_sockid[g] \in Nat
    BY DEF IInv, TypeOK
  <2>3. /\ FirstSock \in Nat \ {0} /\ MAX_OPEN_PORTS \in Nat
        /\ port \in Nat /\ port < FirstSock /\ MAX_OPEN_PORTS <= port
    BY SocketAssumption
  <2>4. n \in Nat /\ n < MAX_OPEN_PORTS /\ sockid = FirstSock + n
    BY <2>1, <2>2, <2>3
  <2> HIDE DEF n
  <2>5. n < FirstSock
    <3> HIDE DEF port
    <3> QED
      BY <2>3, <2>4
  <2>6. port = n
    BY <2>3, <2>4, <2>5, LowBits
  <2> HIDE DEF port
  <2> QED
    BY <2>3, <2>4, <2>6
<1> QED
  BY <1>1, Invariance, ConnectsStayOK, RepliesWaitOnTheirSocket, PTL DEF ConnectsOK

\* With the guests' ports outside the local ports that the connections take,
\* no receive hands out a packet of another socket until one of them ends inside
\* a message.
THEOREM PacketsNeverMixed ==
  ASSUME Senders \subseteq {1}, OneAtATime, ~Interrupted, IsFiniteSet(Gos),
         FirstLport + Cardinality(Gos) * MAX_OPEN_PORTS < FirstSock,
         \A port \in Ports : port \notin FirstLport + 1 .. FirstLport + Cardinality(Gos) * MAX_OPEN_PORTS
  PROVE  Spec => [](cut = {} => HandedToOwner)
<1> DEFINE top == FirstLport + Cardinality(Gos) * MAX_OPEN_PORTS
<1>1. TypeOK /\ lastport <= top => PortsApart
  <2> SUFFICES ASSUME TypeOK, lastport <= top, NEW g \in Gos,
                      NEW port \in LocalPorts, port \in Numbers(g)
               PROVE  FALSE
    BY DEF PortsApart
  <2>1. FirstLport \in Nat /\ FirstSock \in Nat /\ Cardinality(Gos) \in Nat /\ MAX_OPEN_PORTS \in Nat
    BY FS_CardinalityType, ServerAssumption, SocketAssumption
  <2>2. top \in Nat
    BY <2>1
  <2>3. lastport \in Nat
    BY DEF TypeOK
  <2>4. top < FirstSock /\ \A p \in Ports : p \notin FirstLport + 1 .. top
    OBVIOUS
  <2> HIDE DEF top
  <2>5. port \in FirstLport + 1 .. top
    BY <2>1, <2>2, <2>3 DEF LocalPorts
  <2> QED
    BY <2>1, <2>2, <2>4, <2>5 DEF Numbers
<1> QED
  BY <1>1, TypeCorrect, ConnectionsBounded, PacketsHandedToOwner, PTL

=============================================================================
