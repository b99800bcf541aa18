------------------------ MODULE SocketFrames_proofs ------------------------
(***************************************************************************)
(* Framing, for every size of the tables, channels and packets: the byte   *)
(* queues between the guests and the communication partition are cut where *)
(* messages begin and end, whoever reads and writes in between, and what   *)
(* the messages name is known on the other side.  No length is looked up   *)
(* twice in the code, so this is what keeps it from taking data for a      *)
(* header.                                                                 *)
(***************************************************************************)
EXTENDS Sockets_proofs

-----------------------------------------------------------------------------
\* A channel of n words is cut at B; Pieces has the pairs of the begin and the
\* end of a message.

Cuts(B, n, Pieces) ==
  /\ 0 \in B /\ n \in B
  /\ \A b \in B : b # n => \E e \in B : b < e /\ <<b, e>> \in Pieces
Cut(n, Pieces) == \E B \in SUBSET (0 .. n) : Cuts(B, n, Pieces)

LEMMA NothingCut ==
  ASSUME NEW Pieces
  PROVE  Cut(0, Pieces)
<1>1. {0} \in SUBSET (0 .. 0) /\ Cuts({0}, 0, Pieces)
  BY DEF Cuts
<1> QED
  BY <1>1 DEF Cut

\* One more message at the end.
LEMMA PieceAppended ==
  ASSUME NEW n \in Nat, NEW m \in Nat, n < m, NEW Old, NEW New, Cut(n, Old),
         \A b, e \in 0 .. n : <<b, e>> \in Old => <<b, e>> \in New,
         <<n, m>> \in New
  PROVE  Cut(m, New)
<1>1. PICK B \in SUBSET (0 .. n) : Cuts(B, n, Old)
  BY DEF Cut
<1> DEFINE C == B \cup {m}
<1>2. C \in SUBSET (0 .. m)
  OBVIOUS
<1>3. 0 \in C /\ m \in C
  BY <1>1 DEF Cuts
<1>4. ASSUME NEW b \in C, b # m
      PROVE  \E e \in C : b < e /\ <<b, e>> \in New
  <2>1. CASE b = n
    BY <1>3, <2>1
  <2>2. CASE b # n
    <3>1. PICK e \in B : b < e /\ <<b, e>> \in Old
      BY <1>1, <1>4, <2>2 DEF Cuts
    <3>2. b \in 0 .. n /\ e \in 0 .. n
      BY <1>4
    <3> QED
      BY <3>1, <3>2
  <2> QED
    BY <2>1, <2>2
<1> HIDE DEF C
<1>5. Cuts(C, m, New)
  BY <1>3, <1>4 DEF Cuts
<1> QED
  BY <1>2, <1>5 DEF Cut

\* The first message, and what is left when it is taken.
LEMMA FirstPiece ==
  ASSUME NEW n \in Nat, n # 0, NEW Old, Cut(n, Old)
  PROVE  \E e \in 1 .. n :
           /\ <<0, e>> \in Old
           /\ \A New : (\A b, f \in 0 .. n - e : <<b + e, f + e>> \in Old => <<b, f>> \in New)
                         => Cut(n - e, New)
<1>1. PICK B \in SUBSET (0 .. n) : Cuts(B, n, Old)
  BY DEF Cut
<1>2. PICK e \in B : 0 < e /\ <<0, e>> \in Old
  BY <1>1 DEF Cuts
<1>3. e \in 1 .. n
  BY <1>2
<1>4. ASSUME NEW New, \A b, f \in 0 .. n - e : <<b + e, f + e>> \in Old => <<b, f>> \in New
      PROVE  Cut(n - e, New)
  <2> DEFINE C == {k \in 0 .. n - e : k + e \in B}
  <2>1. 0 \in C /\ n - e \in C
    BY <1>1, <1>3 DEF Cuts
  <2>2. ASSUME NEW k \in C, k # n - e
        PROVE  \E f \in C : k < f /\ <<k, f>> \in New
    <3>1. k \in 0 .. n - e /\ k + e \in B /\ k + e # n
      BY <1>3, <2>2
    <3>2. PICK x \in B : k + e < x /\ <<k + e, x>> \in Old
      BY <1>1, <3>1 DEF Cuts
    <3>3. x - e \in 0 .. n - e /\ (x - e) + e = x /\ k < x - e
      BY <1>3, <3>1, <3>2
    <3>4. <<k, x - e>> \in New
      BY <1>4, <3>1, <3>2, <3>3
    <3> QED
      BY <3>3, <3>4
  <2> HIDE DEF C
  <2>3. Cuts(C, n - e, New)
    BY <2>1, <2>2 DEF Cuts
  <2>4. C \in SUBSET (0 .. n - e)
    BY DEF C
  <2> QED
    BY <2>3, <2>4 DEF Cut
<1> QED
  BY <1>2, <1>3, <1>4

\* Words of one message behind those of others.
LEMMA WordsBehind ==
  ASSUME NEW words \in Seq(Word), NEW message \in Seq(Word)
  PROVE  /\ words \o message \in Seq(Word)
         /\ Len(words \o message) = Len(words) + Len(message)
         /\ \A k \in 1 .. Len(words) : (words \o message)[k] = words[k]
         /\ \A k \in 1 .. Len(message) : (words \o message)[Len(words) + k] = message[k]
<1>1. /\ words \o message \in Seq(Word)
      /\ Len(words \o message) = Len(words) + Len(message)
      /\ \A k \in 1 .. Len(words) + Len(message) :
           (words \o message)[k] = IF k <= Len(words) THEN words[k] ELSE message[k - Len(words)]
  BY ConcatProperties
<1> DEFINE both == words \o message
<1>2. Len(words) \in Nat /\ Len(message) \in Nat
  OBVIOUS
<1> HIDE DEF both
<1>3. \A k \in 1 .. Len(message) : both[Len(words) + k] = message[k]
  BY <1>1, <1>2 DEF both
<1> QED
  BY <1>1, <1>2, <1>3 DEF both

LEMMA WordsLeft ==
  ASSUME NEW words \in Seq(Word), NEW n \in 0 .. Len(words)
  PROVE  /\ Drop(words, n) \in Seq(Word)
         /\ Len(Drop(words, n)) = Len(words) - n
         /\ \A k \in 1 .. Len(words) - n : Drop(words, n)[k] = words[k + n]
<1>1. Len(words) \in Nat /\ \A i \in n + 1 .. Len(words) : words[i] \in Word
  OBVIOUS
<1> QED
  BY <1>1, SubSeqProperties DEF Drop

-----------------------------------------------------------------------------
\* Words that are messages of M, one behind the other.

Pieces(w, M) ==
  {p \in (0 .. Len(w)) \X (0 .. Len(w)) : p[1] < p[2] /\ SubSeq(w, p[1] + 1, p[2]) \in M}
Framed(w, M) == Cut(Len(w), Pieces(w, M))

\* The words between two cuts, and that they are the same in two channels.
Part(w, b, e) == SubSeq(w, b + 1, e)
Same(w, b, e, x, d, f) ==
  /\ w \in Seq(Word) /\ b \in 0 .. Len(w) /\ e \in 0 .. Len(w)
  /\ x \in Seq(Word) /\ d \in 0 .. Len(x) /\ f \in 0 .. Len(x)
  /\ b < e /\ f - d = e - b
  /\ \A k \in 1 .. e - b : x[d + k] = w[b + k]

LEMMA SamePart ==
  ASSUME NEW w, NEW b, NEW e, NEW x, NEW d, NEW f, Same(w, b, e, x, d, f)
  PROVE  Part(x, d, f) = Part(w, b, e)
<1> USE DEF Same
<1> DEFINE y == SubSeq(x, d + 1, f)
           v == SubSeq(w, b + 1, e)
<1>1. Len(w) \in Nat /\ Len(x) \in Nat
  OBVIOUS
<1>2. b \in Nat /\ e \in Nat /\ d \in Nat /\ f \in Nat /\ d < f
  OBVIOUS
<1>3. v \in Seq(Word) /\ Len(v) = e - b /\ \A k \in 1 .. e - b : v[k] = w[b + k]
  <2>1. \A i \in b + 1 .. e : w[i] \in Word
    BY <1>1, <1>2
  <2>2. /\ v \in Seq(Word) /\ Len(v) = IF b + 1 <= e THEN e - (b + 1) + 1 ELSE 0
        /\ \A i \in 1 .. e - (b + 1) + 1 : v[i] = w[(b + 1) + i - 1]
    BY <1>2, <2>1, SubSeqProperties
  <2> HIDE DEF v
  <2> QED
    BY <1>2, <2>2
<1>4. y \in Seq(Word) /\ Len(y) = f - d /\ \A k \in 1 .. f - d : y[k] = x[d + k]
  <2>1. \A i \in d + 1 .. f : x[i] \in Word
    BY <1>1, <1>2
  <2>2. /\ y \in Seq(Word) /\ Len(y) = IF d + 1 <= f THEN f - (d + 1) + 1 ELSE 0
        /\ \A i \in 1 .. f - (d + 1) + 1 : y[i] = x[(d + 1) + i - 1]
    BY <1>2, <2>1, SubSeqProperties
  <2> HIDE DEF y
  <2> QED
    BY <1>2, <2>2
<1> HIDE DEF y, v
<1>5. Len(y) = Len(v) /\ \A k \in 1 .. Len(y) : y[k] = v[k]
  BY <1>3, <1>4
<1> HIDE DEF Same
<1>6. y = v
  BY <1>3, <1>4, <1>5, SeqEqual
<1> QED
  BY <1>6 DEF y, v, Part

\* The parts of two channels in one, and of what a channel has left.
LEMMA PartBehind ==
  ASSUME NEW w \in Seq(Word), NEW m \in Seq(Word)
  PROVE  /\ \A b, e \in 0 .. Len(w) : b < e => Part(w \o m, b, e) = Part(w, b, e)
         /\ 0 < Len(m) => Part(w \o m, Len(w), Len(w \o m)) = m
<1> DEFINE both == w \o m
<1>1. /\ both \in Seq(Word)
      /\ Len(both) = Len(w) + Len(m)
      /\ \A k \in 1 .. Len(w) : both[k] = w[k]
      /\ \A k \in 1 .. Len(m) : both[Len(w) + k] = m[k]
  BY WordsBehind
<1>2. Len(w) \in Nat /\ Len(m) \in Nat
  OBVIOUS
<1> HIDE DEF both
<1>3. ASSUME NEW b \in 0 .. Len(w), NEW e \in 0 .. Len(w), b < e
      PROVE  Part(both, b, e) = Part(w, b, e)
  <2>1. b \in 0 .. Len(both) /\ e \in 0 .. Len(both)
    BY <1>1, <1>2
  <2>2. Same(w, b, e, both, b, e)
    BY <1>1, <1>2, <1>3, <2>1, SMTT(30) DEF Same
  <2> QED
    BY <2>2, SamePart
<1>4. ASSUME 0 < Len(m)
      PROVE  Part(both, Len(w), Len(both)) = m
  <2>1. \A k \in 1 .. Len(m) - 0 : both[Len(w) + k] = m[0 + k]
    BY <1>1, <1>2
  <2>2. /\ Len(both) - Len(w) = Len(m) - 0 /\ Len(w) < Len(both)
        /\ Len(w) \in 0 .. Len(both) /\ Len(both) \in 0 .. Len(both)
        /\ 0 \in 0 .. Len(m) /\ Len(m) \in 0 .. Len(m)
    BY <1>1, <1>2, <1>4
  <2>3. Same(m, 0, Len(m), both, Len(w), Len(both))
    BY <1>1, <1>4, <2>1, <2>2 DEF Same
  <2>4. Part(both, Len(w), Len(both)) = Part(m, 0, Len(m))
    BY <2>3, SamePart
  <2>5. SubSeq(m, 0 + 1, Len(m)) = m
    OBVIOUS
  <2> QED
    BY <2>4, <2>5 DEF Part
<1> QED
  BY <1>3, <1>4 DEF both

LEMMA PartLeft ==
  ASSUME NEW w \in Seq(Word), NEW n \in 0 .. Len(w),
         NEW b \in 0 .. Len(w) - n, NEW e \in 0 .. Len(w) - n, b < e
  PROVE  Part(Drop(w, n), b, e) = Part(w, b + n, e + n)
<1> DEFINE left == Drop(w, n)
<1>1. /\ left \in Seq(Word) /\ Len(left) = Len(w) - n
      /\ \A k \in 1 .. Len(w) - n : left[k] = w[k + n]
  BY WordsLeft
<1>2. Len(w) \in Nat /\ n \in Nat
  OBVIOUS
<1> HIDE DEF left
<1>3. /\ b + n \in 0 .. Len(w) /\ e + n \in 0 .. Len(w) /\ b + n < e + n
      /\ b \in 0 .. Len(left) /\ e \in 0 .. Len(left) /\ e - b = (e + n) - (b + n)
  BY <1>1, <1>2
<1>4. ASSUME NEW k \in 1 .. (e + n) - (b + n)
      PROVE  left[b + k] = w[(b + n) + k]
  <2>1. b + k \in 1 .. Len(w) - n /\ (b + k) + n = (b + n) + k
    BY <1>2, <1>3
  <2> QED
    BY <1>1, <2>1
<1>5. Same(w, b + n, e + n, left, b, e)
  BY <1>1, <1>3, <1>4 DEF Same
<1> QED
  BY <1>5, SamePart DEF left

LEMMA NothingFramed ==
  ASSUME NEW M
  PROVE  Framed(<<>>, M)
BY NothingCut, EmptySeq DEF Framed

LEMMA FramedAppended ==
  ASSUME NEW M, NEW N, M \subseteq N, NEW w \in Seq(Word), Framed(w, M),
         NEW m \in Seq(Word), m \in N, 0 < Len(m)
  PROVE  Framed(w \o m, N)
<1> DEFINE both == w \o m
<1>1. Len(both) = Len(w) + Len(m) /\ Len(w) \in Nat /\ Len(m) \in Nat
  BY WordsBehind
<1>2. /\ \A b, e \in 0 .. Len(w) : b < e => Part(both, b, e) = Part(w, b, e)
      /\ Part(both, Len(w), Len(both)) = m
  BY PartBehind
<1> HIDE DEF both
<1>3. ASSUME NEW b \in 0 .. Len(w), NEW e \in 0 .. Len(w), <<b, e>> \in Pieces(w, M)
      PROVE  <<b, e>> \in Pieces(both, N)
  <2>1. b < e /\ SubSeq(w, b + 1, e) \in N
    BY <1>3 DEF Pieces
  <2>2. b \in 0 .. Len(both) /\ e \in 0 .. Len(both)
    BY <1>1
  <2>3. SubSeq(both, b + 1, e) \in N
    BY <1>2, <2>1 DEF Part
  <2> QED
    BY <2>1, <2>2, <2>3 DEF Pieces
<1>4. <<Len(w), Len(both)>> \in Pieces(both, N)
  <2>1. /\ Len(w) < Len(both)
        /\ Len(w) \in 0 .. Len(both) /\ Len(both) \in 0 .. Len(both)
    BY <1>1
  <2>2. SubSeq(both, Len(w) + 1, Len(both)) \in N
    BY <1>2 DEF Part
  <2> QED
    BY <2>1, <2>2 DEF Pieces
<1>5. Cut(Len(both), Pieces(both, N))
  BY <1>1, <1>3, <1>4, PieceAppended DEF Framed
<1> QED
  BY <1>5 DEF Framed, both

LEMMA FramedMore ==
  ASSUME NEW M, NEW N, M \subseteq N, NEW w \in Seq(Word), Framed(w, M)
  PROVE  Framed(w, N)
<1>1. Pieces(w, M) \subseteq Pieces(w, N)
  BY DEF Pieces
<1>2. PICK B \in SUBSET (0 .. Len(w)) : Cuts(B, Len(w), Pieces(w, M))
  BY DEF Framed, Cut
<1>3. Cuts(B, Len(w), Pieces(w, N))
  BY <1>1, <1>2 DEF Cuts
<1> QED
  BY <1>3 DEF Framed, Cut

\* The first message, and the words left when it is taken out.
LEMMA FirstFramed ==
  ASSUME NEW M, NEW w \in Seq(Word), Framed(w, M), w # <<>>
  PROVE  \E e \in 1 .. Len(w) : SubSeq(w, 1, e) \in M /\ Framed(Drop(w, e), M)
<1>1. Len(w) \in Nat /\ Len(w) # 0
  BY EmptySeq
<1>2. PICK e \in 1 .. Len(w) :
        /\ <<0, e>> \in Pieces(w, M)
        /\ \A New : (\A b, f \in 0 .. Len(w) - e :
                       <<b + e, f + e>> \in Pieces(w, M) => <<b, f>> \in New)
                      => Cut(Len(w) - e, New)
  BY <1>1, FirstPiece DEF Framed
<1> DEFINE left == Drop(w, e)
<1>3. Len(left) = Len(w) - e /\ e \in 0 .. Len(w)
  <2>1. e \in 0 .. Len(w)
    BY <1>1
  <2> QED
    BY <2>1, WordsLeft
<1>4. ASSUME NEW b \in 0 .. Len(w) - e, NEW f \in 0 .. Len(w) - e,
             <<b + e, f + e>> \in Pieces(w, M)
      PROVE  <<b, f>> \in Pieces(left, M)
  <2>1. b + e < f + e /\ SubSeq(w, (b + e) + 1, f + e) \in M
    BY <1>4 DEF Pieces
  <2>2. b \in 0 .. Len(left) /\ f \in 0 .. Len(left) /\ b < f
    BY <1>1, <1>3, <2>1
  <2>3. Part(left, b, f) = Part(w, b + e, f + e)
    BY <1>3, <2>2, PartLeft
  <2>4. SubSeq(left, b + 1, f) \in M
    BY <2>1, <2>3 DEF Part
  <2> QED
    BY <2>2, <2>4 DEF Pieces
<1> HIDE DEF left
<1>5. Cut(Len(w) - e, Pieces(left, M))
  BY <1>2, <1>4
<1>6. Framed(left, M)
  BY <1>3, <1>5 DEF Framed
<1>7. SubSeq(w, 1, e) \in M
  BY <1>2 DEF Pieces
<1> QED
  BY <1>6, <1>7 DEF left

LEMMA PartAtFront ==
  ASSUME NEW w \in Seq(Word), NEW e \in 0 .. Len(w)
  PROVE  /\ SubSeq(w, 1, e) \in Seq(Word) /\ Len(SubSeq(w, 1, e)) = e
         /\ \A k \in 1 .. e : SubSeq(w, 1, e)[k] = w[k]
<1> DEFINE v == SubSeq(w, 1, e)
<1>1. Len(w) \in Nat /\ e \in Int /\ \A i \in 1 .. e : w[i] \in Word
  OBVIOUS
<1>2. /\ v \in Seq(Word) /\ Len(v) = IF 1 <= e THEN e - 1 + 1 ELSE 0
      /\ \A i \in 1 .. e - 1 + 1 : v[i] = w[1 + i - 1]
  BY <1>1, SubSeqProperties
<1> HIDE DEF v
<1>3. v \in Seq(Word) /\ Len(v) = e /\ \A k \in 1 .. e : v[k] = w[k]
  BY <1>1, <1>2
<1> QED
  BY <1>3 DEF v

-----------------------------------------------------------------------------
\* The call channels and the sockets

\* The calls of guest g when its sockets are K.
GuestCalls(K, g) ==
  {m \in Seq(Word) :
     /\ m[2] = g
     /\ \/ Len(m) = 3 /\ m[1] = LISTEN /\ m[3] \in K
        \/ Len(m) = 5 /\ m[1] = CONNECT /\ m[5] \in K
        \/ Len(m) = 5 + SendSize /\ m[1] = TCP_SEND /\ m[4] = SendSize /\ g \in Senders}

LEMMA MoreCalls ==
  ASSUME NEW K, NEW L, K \subseteq L, NEW g
  PROVE  GuestCalls(K, g) \subseteq GuestCalls(L, g)
BY DEF GuestCalls

SocketsOf(g) == {active_ports[g][i].sock_id : i \in Entries} \ {0}

\* With the call id that task2 has taken already.
Pending(g) == IF task2.gos = g /\ task2.callid # 0 THEN <<task2.callid>> \o call[g] ELSE call[g]

SlotKnown(slot) == slot.gos_id \in Gos => slot.sock_id \in SocketsOf(slot.gos_id)

FramesOK ==
  /\ \A g \in Gos : Framed(Pending(g), GuestCalls(SocketsOf(g), g))
  /\ \A s \in ListenSlots : SlotKnown(listenports[s])
  /\ \A s \in ClientSlots : SlotKnown(clientports[s])
  /\ \A g \in Gos : spark_sockid[g] # 0

LEMMA PendingTyped ==
  ASSUME IInv, NEW g \in Gos
  PROVE  Pending(g) \in Seq(Word)
<1>1. call[g] \in Seq(Word) /\ task2.callid \in Nat
  BY DEF IInv, TypeOK
<1>2. <<task2.callid>> \in Seq(Word)
  BY <1>1 DEF Word
<1>3. <<task2.callid>> \o call[g] \in Seq(Word)
  BY <1>1, <1>2, ConcatProperties
<1> QED
  BY <1>1, <1>3 DEF Pending

LEMMA PendingGrows ==
  ASSUME IInv, NEW g \in Gos, NEW m \in Seq(Word), UNCHANGED task2,
         call' = [call EXCEPT ![g] = @ \o m]
  PROVE  Pending(g)' = Pending(g) \o m /\ \A h \in Gos \ {g} : Pending(h)' = Pending(h)
<1>1. call[g] \in Seq(Word) /\ task2.callid \in Nat /\ call \in [Gos -> Seq(Word)]
  BY DEF IInv, TypeOK
<1>2. <<task2.callid>> \in Seq(Word)
  BY <1>1 DEF Word
<1>3. (<<task2.callid>> \o call[g]) \o m = <<task2.callid>> \o (call[g] \o m)
  BY <1>1, <1>2, ConcatAssociative
<1>4. call'[g] = call[g] \o m /\ \A h \in Gos \ {g} : call'[h] = call[h]
  BY <1>1
<1> QED
  BY <1>3, <1>4, SMTT(30) DEF Pending

LEMMA SocketAdded ==
  ASSUME IInv, NEW g \in Gos, NEW sockid \in Nat \ {0}, Opens(g, sockid)
  PROVE  sockid \in SocketsOf(g)' /\ \A h \in Gos : SocketsOf(h) \subseteq SocketsOf(h)'
<1>1. active_ports \in [Gos -> [Entries -> Entry]]
  BY DEF IInv, TypeOK
<1> DEFINE n == NewEntry(g)
<1>2. n \in FreeEntries(g)
  <2>1. FreeEntries(g) \in SUBSET Nat /\ FreeEntries(g) # {}
    BY DEF FreeEntries, Entries, Opens
  <2> QED
    BY <2>1, FirstOfSet DEF NewEntry, FirstOf
<1>3. n \in Entries /\ active_ports[g][n].sock_id = 0
  BY <1>2 DEF FreeEntries, InUse
<1>4. active_ports' = [active_ports EXCEPT ![g][n] = [sock_id |-> sockid, kept |-> <<>>]]
  BY DEF Opens
<1> HIDE DEF n
<1>5. active_ports'[g][n].sock_id = sockid
  BY <1>1, <1>3, <1>4
<1>6. \A h \in Gos, i \in Entries :
        active_ports[h][i].sock_id # 0 => active_ports'[h][i].sock_id = active_ports[h][i].sock_id
  BY <1>1, <1>3, <1>4
<1> QED
  BY <1>3, <1>5, <1>6 DEF SocketsOf

\* A guest sends a call.
LEMMA CallSent ==
  ASSUME IInv, FramesOK, NEW g \in Gos, NEW m \in Seq(Word), Calls(g, m),
         \A h \in Gos : SocketsOf(h) \subseteq SocketsOf(h)',
         m \in GuestCalls(SocketsOf(g)', g), 0 < Len(m),
         UNCHANGED <<task2, listenports, clientports>>,
         \A h \in Gos : spark_sockid'[h] # 0
  PROVE  FramesOK'
<1>1. call' = [call EXCEPT ![g] = @ \o m]
  BY DEF Calls
<1>2. Pending(g)' = Pending(g) \o m /\ \A h \in Gos \ {g} : Pending(h)' = Pending(h)
  BY <1>1, PendingGrows
<1>3. ASSUME NEW h \in Gos
      PROVE  Framed(Pending(h)', GuestCalls(SocketsOf(h)', h))
  <2> DEFINE K == SocketsOf(h)
             L == SocketsOf(h)'
             w == Pending(h)
  <2>1. K \subseteq L /\ w \in Seq(Word) /\ Framed(w, GuestCalls(K, h))
    BY PendingTyped DEF FramesOK
  <2>2. CASE h = g
    <3>1. m \in GuestCalls(L, h)
      BY <2>2
    <3>2. Pending(h)' = w \o m
      BY <1>2, <2>2
    <3> HIDE DEF K, L, w
    <3>3. Framed(w \o m, GuestCalls(L, h))
      BY <2>1, <3>1, MoreCalls, FramedAppended
    <3> QED
      BY <3>2, <3>3 DEF L
  <2>3. CASE h # g
    <3>1. Pending(h)' = w
      BY <1>2, <2>3
    <3> HIDE DEF K, L, w
    <3>2. Framed(w, GuestCalls(L, h))
      BY <2>1, MoreCalls, FramedMore
    <3> QED
      BY <3>1, <3>2 DEF L
  <2> QED
    BY <2>2, <2>3
<1>4. /\ \A s \in ListenSlots : SlotKnown(listenports[s])'
      /\ \A s \in ClientSlots : SlotKnown(clientports[s])'
  BY DEF FramesOK, SlotKnown
<1>5. \A h \in Gos : Framed(Pending(h), GuestCalls(SocketsOf(h), h))'
  BY <1>3 DEF Framed, Cut, Cuts, Pieces, GuestCalls
<1> QED
  BY <1>4, <1>5 DEF FramesOK

\* A step of a guest that calls nobody and opens nothing.
LEMMA NoCallSent ==
  ASSUME FramesOK, UNCHANGED <<call, task2, listenports, clientports, spark_sockid>>,
         \A h \in Gos : SocketsOf(h)' = SocketsOf(h)
  PROVE  FramesOK'
<1>1. \A h \in Gos : Pending(h)' = Pending(h)
  BY DEF Pending
<1>2. \A h \in Gos : Framed(Pending(h)', GuestCalls(SocketsOf(h)', h))
  BY <1>1 DEF FramesOK
<1>3. \A h \in Gos : Framed(Pending(h), GuestCalls(SocketsOf(h), h))'
  BY <1>2 DEF Framed, Cut, Cuts, Pieces, GuestCalls
<1>4. /\ \A s \in ListenSlots : SlotKnown(listenports[s])'
      /\ \A s \in ClientSlots : SlotKnown(clientports[s])'
  BY DEF FramesOK, SlotKnown
<1> QED
  BY <1>3, <1>4 DEF FramesOK

\* Packets come and go, the sockets stay.
LEMMA SocketsSame ==
  ASSUME NEW a \in [Gos -> [Entries -> Entry]], NEW b \in [Gos -> [Entries -> Entry]],
         NEW g \in Gos, NEW i \in Entries, NEW kept,
         b = [a EXCEPT ![g][i].kept = kept]
  PROVE  \A h \in Gos, j \in Entries : b[h][j].sock_id = a[h][j].sock_id
<1>1. [a[g][i] EXCEPT !.kept = kept].sock_id = a[g][i].sock_id
  BY DEF Entry
<1> QED
  BY <1>1

LEMMA OthersKept ==
  ASSUME active_ports \in [Gos -> [Entries -> Entry]],
         active_ports' \in [Gos -> [Entries -> Entry]],
         NEW g \in Gos, RecvOther(g)
  PROVE  \A h \in Gos, j \in Entries : active_ports'[h][j].sock_id = active_ports[h][j].sock_id
<1> DEFINE r == receiving[g]
           to == FirstOf(Targets(g, r))
           old == Kept(g, r.index)
           kept == KeptAfter(active_ports[g][r.index].kept)
           taken == IF old = <<>> THEN active_ports
                    ELSE [active_ports EXCEPT ![g][r.index].kept = kept]
           new == [packet |-> packet(r), length |-> dlength(r)]
           more == IF Len(taken[g][to].kept) = APP_QUEUE_SIZE - 1 THEN taken[g][to].kept
                   ELSE Append(taken[g][to].kept, new)
<1>1. r.index \in Entries /\ to \in Entries
  BY DEF RecvOther, Whole, InUse
<1>2. active_ports' = [taken EXCEPT ![g][to].kept = more]
  BY DEF RecvOther
<1>3. taken \in [Gos -> [Entries -> Entry]]
  <2>1. old # <<>> => Tail(old) \in Seq(Packet)
    <3>1. old \in Seq(Packet)
      BY <1>1 DEF Kept, Entry
    <3> QED
      BY <3>1, HeadTailProperties
  <2>2. old = active_ports[g][r.index].kept /\ kept = Tail(old)
    BY DEF Kept, KeptAfter
  <2> HIDE DEF old, kept, r
  <2>3. CASE old # <<>>
    BY <1>1, <2>1, <2>2, <2>3, KeptTyped
  <2> QED
    BY <1>1, <2>3
<1>4. \A h \in Gos, j \in Entries : taken[h][j].sock_id = active_ports[h][j].sock_id
  <2> HIDE DEF kept, r, old
  <2>1. CASE old # <<>>
    BY <1>1, <1>3, <2>1, SocketsSame
  <2> QED
    BY <2>1
<1> HIDE DEF taken, more, to
<1>5. \A h \in Gos, j \in Entries : active_ports'[h][j].sock_id = taken[h][j].sock_id
  BY <1>1, <1>2, <1>3, SocketsSame
<1> QED
  BY <1>4, <1>5

LEMMA GuestFrames ==
  ASSUME IInv, FramesOK, NEW g \in Gos, Guest(g)
  PROVE  FramesOK'
<1>1. /\ active_ports \in [Gos -> [Entries -> Entry]]
      /\ active_ports' \in [Gos -> [Entries -> Entry]]
  BY GuestStep DEF IInv, TypeOK
<1>2. UNCHANGED <<task2, listenports, clientports>>
  BY DEF Guest, server, tables
<1>3. g \in Nat /\ Ports \subseteq Nat \ {0} /\ SendSize \in Nat
  BY SocketAssumption
<1>4. \A h \in Gos : spark_sockid[h] \in Nat \ {0}
  BY DEF IInv, TypeOK, FramesOK
<1>5. ASSUME UNCHANGED <<call, spark_sockid>>,
             \A h \in Gos, i \in Entries : active_ports'[h][i].sock_id = active_ports[h][i].sock_id
      PROVE  FramesOK'
  <2>1. \A h \in Gos : SocketsOf(h)' = SocketsOf(h)
    BY <1>5 DEF SocketsOf
  <2> QED
    BY <1>2, <1>5, <2>1, NoCallSent
<1>6. ASSUME NEW port \in Ports, sys_sock_listen(g, port)
      PROVE  FramesOK'
  <2> DEFINE m == <<LISTEN, g, port>>
  <2>1. m \in Seq(Word) /\ Len(m) = 3 /\ m[1] = LISTEN /\ m[2] = g /\ m[3] = port
    BY <1>3 DEF LISTEN, Word
  <2>2. port \in SocketsOf(g)' /\ \A h \in Gos : SocketsOf(h) \subseteq SocketsOf(h)'
    BY <1>3, <1>6, SocketAdded DEF sys_sock_listen
  <2>3. Calls(g, m) /\ \A h \in Gos : spark_sockid'[h] # 0
    BY <1>4, <1>6 DEF sys_sock_listen
  <2> HIDE DEF m
  <2>4. m \in GuestCalls(SocketsOf(g)', g) /\ 0 < Len(m)
    BY <2>1, <2>2 DEF GuestCalls
  <2> QED
    BY <1>2, <2>1, <2>2, <2>3, <2>4, CallSent
<1>7. ASSUME sys_sock_connect(g)
      PROVE  FramesOK'
  <2> DEFINE m == <<CONNECT, g, 1, 80, spark_sockid[g]>>
  <2>1. m \in Seq(Word) /\ Len(m) = 5 /\ m[1] = CONNECT /\ m[2] = g /\ m[5] = spark_sockid[g]
    BY <1>3, <1>4 DEF CONNECT, Word
  <2>2. spark_sockid[g] \in SocketsOf(g)' /\ \A h \in Gos : SocketsOf(h) \subseteq SocketsOf(h)'
    BY <1>4, <1>7, SocketAdded DEF sys_sock_connect
  <2>3. Calls(g, m) /\ \A h \in Gos : spark_sockid'[h] # 0
    BY <1>4, <1>7 DEF sys_sock_connect, IInv, TypeOK
  <2> HIDE DEF m
  <2>4. m \in GuestCalls(SocketsOf(g)', g) /\ 0 < Len(m)
    BY <2>1, <2>2 DEF GuestCalls
  <2> QED
    BY <1>2, <2>1, <2>2, <2>3, <2>4, CallSent
<1>8. ASSUME NEW i \in InUse(g), sys_sock_tcp_send(g, i)
      PROVE  FramesOK'
  <2> DEFINE sockid == active_ports[g][i].sock_id
             number == Len(replies) + 1
             head == <<TCP_SEND, g, 0, SendSize, sockid>>
             data == Data(number, SendSize)
             m == head \o data
  <2>1. sockid \in Nat /\ number \in Nat
    BY <1>1 DEF InUse, Entry, IInv, ReceivesOK
  <2>2. /\ head \in Seq(Word) /\ Len(head) = 5
        /\ head[1] = TCP_SEND /\ head[2] = g /\ head[4] = SendSize
    BY <1>3, <2>1 DEF TCP_SEND, Word
  <2>3. data \in Seq(Word) /\ Len(data) = SendSize
    BY <1>3, <2>1, DataWords
  <2>4. Calls(g, m) /\ g \in Senders
    BY <1>8 DEF sys_sock_tcp_send
  <2>5. /\ UNCHANGED <<spark_sockid, active_ports>>
        /\ \A h \in Gos : spark_sockid'[h] # 0
    BY <1>4, <1>8 DEF sys_sock_tcp_send
  <2> HIDE DEF head, data
  <2>6. /\ m \in Seq(Word) /\ Len(m) = 5 + SendSize
        /\ m[1] = TCP_SEND /\ m[2] = g /\ m[4] = SendSize
    <3>1. /\ m \in Seq(Word) /\ Len(m) = Len(head) + Len(data)
          /\ \A k \in 1 .. Len(head) : m[k] = head[k]
      BY <2>2, <2>3, WordsBehind
    <3> HIDE DEF m
    <3>2. m[1] = head[1] /\ m[2] = head[2] /\ m[4] = head[4]
      BY <2>2, <3>1
    <3> QED
      BY <2>2, <2>3, <3>1, <3>2
  <2>7. \A h \in Gos : SocketsOf(h) \subseteq SocketsOf(h)'
    BY <2>5 DEF SocketsOf
  <2> HIDE DEF m
  <2>8. m \in GuestCalls(SocketsOf(g)', g) /\ 0 < Len(m)
    BY <1>3, <2>4, <2>6 DEF GuestCalls
  <2> QED
    BY <1>2, <2>4, <2>5, <2>6, <2>7, <2>8, CallSent
<1>9. ASSUME NEW i \in InUse(g), RecvKept(g, i)
      PROVE  FramesOK'
  <2>1. i \in Entries
    BY DEF InUse
  <2>2. active_ports' = [active_ports EXCEPT ![g][i].kept = KeptAfter(active_ports[g][i].kept)]
    BY <1>9 DEF RecvKept
  <2>3. \A h \in Gos, j \in Entries : active_ports'[h][j].sock_id = active_ports[h][j].sock_id
    BY <1>1, <2>1, <2>2, SocketsSame
  <2>4. UNCHANGED <<call, spark_sockid>>
    BY <1>9 DEF RecvKept, channels
  <2> QED
    BY <1>5, <2>3, <2>4
<1>10. ASSUME RecvOther(g)
       PROVE  FramesOK'
  <2>1. \A h \in Gos, j \in Entries : active_ports'[h][j].sock_id = active_ports[h][j].sock_id
    BY <1>1, <1>10, OthersKept
  <2>2. UNCHANGED <<call, spark_sockid>>
    BY <1>10 DEF RecvOther, channels
  <2> QED
    BY <1>5, <2>1, <2>2
<1>11. ASSUME \/ \E i \in InUse(g), size \in RecvSizes[g] : RecvFirst(g, i, size)
              \/ RecvAgain(g) \/ RecvOwn(g) \/ RecvReturn(g)
       PROVE  FramesOK'
  <2>1. UNCHANGED <<call, spark_sockid, active_ports>>
    BY <1>11 DEF RecvFirst, RecvAgain, RecvOwn, RecvReturn, channels
  <2> QED
    BY <1>5, <2>1
<1> QED
  BY <1>6, <1>7, <1>8, <1>9, <1>10, <1>11 DEF Guest, NextApp, Receiving

\* task2 finds a call of the guest, and all of it.
LEMMA FirstCall ==
  ASSUME IInv, FramesOK, NEW g \in Gos, task2.gos = g, task2.callid = 0, call[g] # <<>>
  PROVE  /\ Head(call[g]) \in {LISTEN, CONNECT, TCP_SEND}
         /\ Head(call[g]) = TCP_SEND => g \in Senders
<1> DEFINE K == SocketsOf(g)
           w == call[g]
<1>1. Framed(w, GuestCalls(K, g)) /\ w \in Seq(Word) /\ w # <<>>
  BY DEF FramesOK, Pending, IInv, TypeOK
<1> HIDE DEF K, w
<1>2. PICK e \in 1 .. Len(w) : SubSeq(w, 1, e) \in GuestCalls(K, g)
  BY <1>1, FirstFramed
<1>3. Head(w) = w[1] /\ SubSeq(w, 1, e)[1] = w[1]
  BY <1>1, PartAtFront
<1>4. /\ w[1] \in {LISTEN, CONNECT, TCP_SEND}
      /\ w[1] \in {LISTEN, CONNECT} \/ g \in Senders
  BY <1>2, <1>3 DEF GuestCalls
<1> QED
  BY <1>3, <1>4 DEF w, LISTEN, CONNECT, TCP_SEND

LEMMA CaseKnown ==
  ASSUME Senders \subseteq {1}, NEW g \in Gos, NEW id \in {LISTEN, CONNECT, TCP_SEND},
         id = TCP_SEND => g \in Senders
  PROVE  id \in Cases(g) /\ id # 0
<1>1. CASE id = TCP_SEND
  <2>1. g = 1
    BY <1>1
  <2> QED
    BY <1>1, <2>1 DEF Cases, TCP_SEND
<1>2. CASE id \in {LISTEN, CONNECT}
  BY <1>2 DEF Cases, LISTEN, CONNECT
<1> QED
  BY <1>1, <1>2

LEMMA FrontCall ==
  ASSUME IInv, NEW g \in Gos, task2.gos = g, task2.callid # 0, NEW K,
         NEW e \in 1 .. Len(Pending(g)), SubSeq(Pending(g), 1, e) \in GuestCalls(K, g)
  PROVE  /\ Len(call[g]) >= 2 /\ call[g][1] = g
         /\ Rest(g) \in Nat /\ Rest(g) = e - 1 /\ Len(call[g]) >= Rest(g)
         /\ \/ task2.callid = LISTEN /\ call[g][2] \in K
            \/ task2.callid = CONNECT /\ call[g][4] \in K
            \/ task2.callid = TCP_SEND
         /\ LET m == SubSeq(Pending(g), 1, e)
            IN  /\ Len(m) = Rest(g) + 1 /\ m[1] = task2.callid
                /\ \A k \in 1 .. Rest(g) : m[k + 1] = call[g][k]
         /\ Drop(Pending(g), e) = Drop(call[g], Rest(g))
<1> DEFINE s == call[g]
           id == <<task2.callid>>
           w == id \o s
<1>1. Pending(g) = w /\ s \in Seq(Word) /\ id \in Seq(Word) /\ Len(id) = 1 /\ id[1] = task2.callid
  <2>1. task2.callid \in Nat /\ s \in Seq(Word)
    BY DEF IInv, TypeOK
  <2>2. id \in Seq(Word) /\ Len(id) = 1 /\ id[1] = task2.callid
    BY <2>1 DEF Word
  <2>3. Pending(g) = w
    BY DEF Pending
  <2> QED
    BY <2>1, <2>2, <2>3
<1> HIDE DEF s, id
<1>2. /\ w \in Seq(Word) /\ Len(w) = 1 + Len(s) /\ w[1] = task2.callid
      /\ \A k \in 1 .. Len(s) : w[1 + k] = s[k]
  <2>1. /\ w \in Seq(Word) /\ Len(w) = Len(id) + Len(s)
        /\ \A k \in 1 .. Len(id) : w[k] = id[k]
        /\ \A k \in 1 .. Len(s) : w[Len(id) + k] = s[k]
    BY <1>1, WordsBehind
  <2> HIDE DEF w
  <2>2. w[1] = id[1]
    BY <1>1, <2>1
  <2> QED
    BY <1>1, <2>1, <2>2
<1> HIDE DEF w
<1>3. w # <<>> /\ Len(s) \in Nat /\ SendSize \in Nat
  BY <1>1, <1>2, SocketAssumption
<1>4. e \in 1 .. Len(w) /\ SubSeq(w, 1, e) \in GuestCalls(K, g)
  BY <1>1
<1> DEFINE m == SubSeq(w, 1, e)
<1>5. Len(m) = e /\ \A k \in 1 .. e : m[k] = w[k]
  <2>1. e \in 0 .. Len(w)
    BY <1>2, <1>3, <1>4
  <2> QED
    BY <1>2, <2>1, PartAtFront
<1> HIDE DEF m
<1>6. /\ w[2] = g
      /\ \/ e = 3 /\ w[1] = LISTEN /\ w[3] \in K
         \/ e = 5 /\ w[1] = CONNECT /\ w[5] \in K
         \/ e = 5 + SendSize /\ w[1] = TCP_SEND /\ w[4] = SendSize
  <2>1. m \in GuestCalls(K, g)
    BY <1>4 DEF m
  <2>2. e >= 3 /\ (e >= 5 \/ e = 3)
    <3>1. e \in Nat
      BY <1>2, <1>3
    <3>2. e = 3 \/ e = 5 \/ e = 5 + SendSize
      BY <1>5, <2>1 DEF GuestCalls
    <3> QED
      BY <1>3, <3>1, <3>2
  <2>3. m[1] = w[1] /\ m[2] = w[2] /\ m[3] = w[3]
    BY <1>5, <2>2
  <2>4. e >= 5 => m[4] = w[4] /\ m[5] = w[5]
    BY <1>5
  <2>5. (w[4] = m[4] /\ w[5] = m[5]) \/ e = 3
    BY <2>2, <2>4
  <2>6. /\ m[2] = g
        /\ \/ e = 3 /\ m[1] = LISTEN /\ m[3] \in K
           \/ e = 5 /\ m[1] = CONNECT /\ m[5] \in K
           \/ e = 5 + SendSize /\ m[1] = TCP_SEND /\ m[4] = SendSize
    BY <1>5, <2>1 DEF GuestCalls
  <2>7. 5 # 3 /\ 5 + SendSize # 3
    BY <1>3
  <2> QED
    BY <2>3, <2>5, <2>6, <2>7
<1>7. /\ Rest(g) = e - 1
      /\ e \in {3, 5, 5 + SendSize}
      /\ s[1] = g
      /\ \/ task2.callid = LISTEN /\ s[2] \in K
         \/ task2.callid = CONNECT /\ s[4] \in K
         \/ task2.callid = TCP_SEND
  <2>1. w[1] = task2.callid /\ w[2] = s[1]
    <3>1. Len(s) >= 1 /\ 1 \in 1 .. Len(s)
      BY <1>2, <1>3, <1>4, <1>6
    <3> QED
      BY <1>2, <3>1
  <2>2. CASE e = 3 /\ w[1] = LISTEN /\ w[3] \in K
    <3>1. w[3] = s[2]
      BY <1>2, <1>3, <1>4, <2>2
    <3>2. task2.callid = LISTEN /\ s[2] \in K /\ s[1] = g
      BY <1>6, <2>1, <2>2, <3>1
    <3>3. Rest(g) = e - 1
      BY <2>2, <3>2 DEF Rest, LISTEN, CONNECT, TCP_SEND
    <3> QED
      BY <2>2, <3>2, <3>3
  <2>3. CASE e = 5 /\ w[1] = CONNECT /\ w[5] \in K
    <3>1. w[5] = s[4]
      BY <1>2, <1>3, <1>4, <2>3
    <3>2. task2.callid = CONNECT /\ s[4] \in K /\ s[1] = g
      BY <1>6, <2>1, <2>3, <3>1
    <3>3. Rest(g) = e - 1
      BY <2>3, <3>2 DEF Rest, LISTEN, CONNECT, TCP_SEND
    <3> QED
      BY <2>3, <3>2, <3>3
  <2>4. CASE e = 5 + SendSize /\ w[1] = TCP_SEND /\ w[4] = SendSize
    <3>1. w[4] = s[3]
      BY <1>2, <1>3, <1>4, <2>4
    <3>2. Rest(g) = 4 + s[3]
      BY <2>1, <2>4 DEF Rest, LISTEN, CONNECT, TCP_SEND, s
    <3>3. task2.callid = TCP_SEND /\ s[1] = g
      BY <1>6, <2>1, <2>4
    <3>4. Rest(g) = e - 1
      BY <1>3, <2>4, <3>1, <3>2
    <3> QED
      BY <2>4, <3>3, <3>4
  <2> QED
    BY <1>6, <2>2, <2>3, <2>4
<1>8. Rest(g) \in Nat /\ Rest(g) >= 2 /\ Rest(g) <= Len(s)
  BY <1>2, <1>3, <1>4, <1>7
<1>9. Drop(w, e) = Drop(s, e - 1)
  <2> DEFINE x == Drop(w, e)
             y == Drop(s, e - 1)
  <2>1. /\ x \in Seq(Word) /\ Len(x) = Len(w) - e
        /\ \A k \in 1 .. Len(w) - e : x[k] = w[k + e]
    <3>1. e \in 0 .. Len(w)
      BY <1>2, <1>3, <1>4
    <3> QED
      BY <1>2, <3>1, WordsLeft
  <2>2. /\ y \in Seq(Word) /\ Len(y) = Len(s) - (e - 1)
        /\ \A k \in 1 .. Len(s) - (e - 1) : y[k] = s[k + (e - 1)]
    <3>1. e - 1 \in 0 .. Len(s)
      BY <1>2, <1>3, <1>4
    <3> QED
      BY <1>1, <3>1, WordsLeft
  <2> HIDE DEF x, y
  <2>3. Len(x) = Len(y)
    BY <1>2, <1>3, <1>4, <2>1, <2>2
  <2>4. ASSUME NEW k \in 1 .. Len(x)
        PROVE  x[k] = y[k]
    <3>1. k \in Nat /\ k + (e - 1) \in 1 .. Len(s) /\ 1 + (k + (e - 1)) = k + e
      BY <1>2, <1>3, <1>4, <2>1
    <3>2. x[k] = w[k + e]
      BY <2>1, <2>4
    <3>3. y[k] = s[k + (e - 1)]
      BY <2>2, <2>3, <2>4
    <3> QED
      BY <1>2, <3>1, <3>2, <3>3
  <2>5. x = y
    BY <2>1, <2>2, <2>3, <2>4, SeqEqual
  <2> QED
    BY <2>5 DEF x, y
<1>10. Drop(Pending(g), e) = Drop(s, Rest(g))
  BY <1>1, <1>7, <1>9
<1>11. /\ Len(m) = Rest(g) + 1 /\ m[1] = task2.callid
       /\ \A k \in 1 .. Rest(g) : m[k + 1] = s[k]
  <2>1. Len(m) = Rest(g) + 1 /\ m[1] = w[1]
    BY <1>5, <1>7
  <2>2. \A k \in 1 .. Rest(g) : m[k + 1] = s[k]
    <3> SUFFICES ASSUME NEW k \in 1 .. Rest(g)
                 PROVE  m[k + 1] = s[k]
      OBVIOUS
    <3>1. k \in 1 .. Len(s) /\ k + 1 \in 1 .. e /\ 1 + k = k + 1
      BY <1>3, <1>7, <1>8
    <3> QED
      BY <1>2, <1>5, <3>1
  <2> QED
    BY <1>2, <2>1, <2>2
<1>12. m = SubSeq(Pending(g), 1, e)
  BY <1>1 DEF m
<1> QED
  BY <1>3, <1>7, <1>8, <1>10, <1>11, <1>12 DEF s

LEMMA CallInFront ==
  ASSUME IInv, NEW g \in Gos, task2.gos = g, task2.callid # 0,
         NEW K, NEW M, M \subseteq GuestCalls(K, g), Framed(Pending(g), M)
  PROVE  /\ Len(call[g]) >= 2 /\ call[g][1] = g
         /\ Rest(g) \in Nat /\ Len(call[g]) >= Rest(g)
         /\ \/ task2.callid = LISTEN /\ call[g][2] \in K
            \/ task2.callid = CONNECT /\ call[g][4] \in K
            \/ task2.callid = TCP_SEND
         /\ \E m \in M : /\ Len(m) = Rest(g) + 1 /\ m[1] = task2.callid
                        /\ \A k \in 1 .. Rest(g) : m[k + 1] = call[g][k]
         /\ Framed(Drop(call[g], Rest(g)), M)
<1>1. Pending(g) \in Seq(Word) /\ Pending(g) # <<>>
  <2>1. Len(Pending(g)) = 1 + Len(call[g]) /\ Len(call[g]) \in Nat
    <3>1. call[g] \in Seq(Word) /\ task2.callid \in Word
      BY DEF IInv, TypeOK, Word
    <3> QED
      BY <3>1 DEF Pending
  <2> QED
    BY <2>1, PendingTyped, EmptySeq
<1>2. PICK e \in 1 .. Len(Pending(g)) : /\ SubSeq(Pending(g), 1, e) \in M
                                       /\ Framed(Drop(Pending(g), e), M)
  BY <1>1, FirstFramed
<1>3. SubSeq(Pending(g), 1, e) \in GuestCalls(K, g)
  BY <1>2
<1> QED
  BY <1>2, <1>3, FrontCall, ZenonT(60)

LEMMA WholeCall ==
  ASSUME IInv, FramesOK, NEW g \in Gos, task2.gos = g, task2.callid # 0
  PROVE  /\ Len(call[g]) >= 2 /\ call[g][1] = g
         /\ Rest(g) \in Nat /\ Len(call[g]) >= Rest(g)
         /\ \/ task2.callid = LISTEN /\ call[g][2] \in SocketsOf(g)
            \/ task2.callid = CONNECT /\ call[g][4] \in SocketsOf(g)
            \/ task2.callid = TCP_SEND
         /\ Framed(Drop(call[g], Rest(g)), GuestCalls(SocketsOf(g), g))
<1> DEFINE M == GuestCalls(SocketsOf(g), g)
<1>1. M \subseteq GuestCalls(SocketsOf(g), g) /\ Framed(Pending(g), M)
  BY DEF FramesOK
<1> HIDE DEF M
<1>2. /\ Len(call[g]) >= 2 /\ call[g][1] = g
      /\ Rest(g) \in Nat /\ Len(call[g]) >= Rest(g)
      /\ \/ task2.callid = LISTEN /\ call[g][2] \in SocketsOf(g)
         \/ task2.callid = CONNECT /\ call[g][4] \in SocketsOf(g)
         \/ task2.callid = TCP_SEND
      /\ Framed(Drop(call[g], Rest(g)), M)
  BY <1>1, CallInFront
<1> QED
  BY <1>2 DEF M

LEMMA NumberThere ==
  ASSUME IInv, NEW g \in Gos, Task2Serve(g), task2.callid = TCP_SEND, call[g][3] > 0
  PROVE  call[g][4] \in Nat /\ call[g][5] \in Nat
<1> DEFINE words == call[g]
<1>1. words \in Seq(Nat)
  BY DEF Word, IInv, TypeOK
<1>2. Len(words) >= 4 /\ Len(words) >= 4 + words[3]
  BY DEF Task2Serve, Rest, LISTEN, CONNECT, TCP_SEND
<1>3. words[3] \in Nat /\ words[4] \in Nat
  BY <1>1, <1>2, SMTT(30)
<1>4. Len(words) \in Nat
  BY <1>1
<1>5. Len(words) >= 5
  BY <1>2, <1>3, <1>4
<1> QED
  BY <1>1, <1>3, <1>5, SMTT(30)

\* The slots task2 fills are for sockets of the caller.
SlotsKnown ==
  /\ \A s \in ListenSlots : SlotKnown(listenports[s])
  /\ \A s \in ClientSlots : SlotKnown(clientports[s])

LEMMA TablesKnown ==
  ASSUME IInv, SlotsKnown, UNCHANGED active_ports, NEW g \in Gos
  PROVE  /\ \A port \in SocketsOf(g) : uip_listen(port, g) => SlotsKnown'
         /\ \A sockid \in SocketsOf(g) : uip_connect(g, sockid) => SlotsKnown'
         /\ \A sockid, number \in Nat : uip_tcp_send(g, sockid, number) => SlotsKnown'
<1>1. /\ listenports \in [ListenSlots -> UipSlot] /\ clientports \in [ClientSlots -> UipSlot]
      /\ lastport \in Nat /\ g \in Nat
      /\ active_ports \in [Gos -> [Entries -> Entry]]
  BY SocketAssumption DEF IInv, TypeOK
<1>2. \A h \in Gos : SocketsOf(h)' = SocketsOf(h) /\ SocketsOf(h) \subseteq Nat
  <2>1. \A h \in Gos, i \in Entries : active_ports[h][i].sock_id \in Nat
    BY <1>1 DEF Entry
  <2> QED
    BY <2>1 DEF SocketsOf
<1>3. ASSUME NEW port \in SocketsOf(g), uip_listen(port, g)
      PROVE  SlotsKnown'
  <2> DEFINE s == LoopEnd(FreePorts \cup Foreign(port, g), UIP_LISTENPORTS)
             new == Slot(port, g, port)
  <2>1. new.gos_id = g /\ new.sock_id = port
    BY <1>1, <1>2, NewSlot
  <2>2. /\ clientports' = clientports
        /\ listenports' = listenports \/ listenports' = [listenports EXCEPT ![s] = new]
    BY <1>3 DEF uip_listen
  <2> HIDE DEF s, new
  <2>3. \A t \in ListenSlots : listenports'[t] = listenports[t] \/ listenports'[t] = new
    BY <1>1, <2>2
  <2> QED
    BY <1>2, <2>1, <2>2, <2>3 DEF SlotsKnown, SlotKnown
<1>4. ASSUME NEW sockid \in SocketsOf(g), uip_connect(g, sockid)
      PROVE  SlotsKnown'
  <2> DEFINE new == Slot(lastport', g, sockid)
  <2>1. lastport' = lastport + 1 /\ listenports' = listenports
    BY <1>4 DEF uip_connect
  <2>2. new.gos_id = g /\ new.sock_id = sockid
    BY <1>1, <1>2, <2>1, NewSlot
  <2>3. \A t \in ClientSlots : clientports'[t] = clientports[t] \/ clientports'[t] = new
    BY <1>4 DEF uip_connect
  <2> HIDE DEF new
  <2> QED
    BY <1>2, <2>1, <2>2, <2>3 DEF SlotsKnown, SlotKnown
<1>5. ASSUME NEW sockid \in Nat, NEW number \in Nat, uip_tcp_send(g, sockid, number)
      PROVE  SlotsKnown'
  <2> DEFINE ls == ListensAs(g, sockid)
             cs == ConnectsAs(g, sockid)
             s == IF ls # {} THEN FirstOf(ls) ELSE LoopEnd(cs, UIP_CONNS)
  <2>1. \A slot \in UipSlot : /\ Queued(slot, number).gos_id = slot.gos_id
                              /\ Queued(slot, number).sock_id = slot.sock_id
    BY QueuedSlot
  <2>2. /\ \/ listenports' = listenports
           \/ listenports' = [listenports EXCEPT ![s] = Queued(listenports[s], number)]
        /\ \/ clientports' = clientports
           \/ clientports' = [clientports EXCEPT ![s] = Queued(clientports[s], number)]
    BY <1>5 DEF uip_tcp_send
  <2> HIDE DEF s
  <2>3. /\ \A t \in ListenSlots : /\ listenports'[t].gos_id = listenports[t].gos_id
                                  /\ listenports'[t].sock_id = listenports[t].sock_id
        /\ \A t \in ClientSlots : /\ clientports'[t].gos_id = clientports[t].gos_id
                                  /\ clientports'[t].sock_id = clientports[t].sock_id
    BY <1>1, <2>1, <2>2
  <2> QED
    BY <1>2, <2>3 DEF SlotsKnown, SlotKnown
<1> QED
  BY <1>3, <1>4, <1>5

\* A step of the partition: the channels of the calls stay cut.
LEMMA PartitionFrames ==
  ASSUME IInv, FramesOK, UNCHANGED <<active_ports, spark_sockid>>, SlotsKnown',
         \A g \in Gos : \/ Pending(g)' = Pending(g)
                        \/ Framed(Pending(g)', GuestCalls(SocketsOf(g), g))
  PROVE  FramesOK'
<1>1. \A g \in Gos : SocketsOf(g)' = SocketsOf(g)
  BY DEF SocketsOf
<1>2. \A g \in Gos : Framed(Pending(g)', GuestCalls(SocketsOf(g)', g))
  BY <1>1 DEF FramesOK
<1>3. \A g \in Gos : Framed(Pending(g), GuestCalls(SocketsOf(g), g))'
  BY <1>2 DEF Framed, Cut, Cuts, Pieces, GuestCalls
<1> QED
  BY <1>3 DEF FramesOK, SlotsKnown

LEMMA SlotsStay ==
  ASSUME SlotsKnown, UNCHANGED active_ports,
         \A s \in ListenSlots : /\ listenports'[s].gos_id = listenports[s].gos_id
                                /\ listenports'[s].sock_id = listenports[s].sock_id,
         \A s \in ClientSlots : /\ clientports'[s].gos_id = clientports[s].gos_id
                                /\ clientports'[s].sock_id = clientports[s].sock_id
  PROVE  SlotsKnown'
<1>1. \A g \in Gos : SocketsOf(g)' = SocketsOf(g)
  BY DEF SocketsOf
<1> QED
  BY <1>1 DEF SlotsKnown, SlotKnown

LEMMA Task2Frames ==
  ASSUME Senders \subseteq {1}, IInv, FramesOK, Task2, UNCHANGED app
  PROVE  FramesOK'
<1>1. /\ call \in [Gos -> Seq(Word)] /\ SlotsKnown
      /\ UNCHANGED <<active_ports, spark_sockid>>
  BY DEF IInv, TypeOK, FramesOK, SlotsKnown, app
<1>2. UNCHANGED tables => SlotsKnown'
  BY <1>1, SlotsStay DEF tables
<1>3. CASE Task2Begin
  <2>1. \A g \in Gos : Pending(g)' = Pending(g)
    BY <1>3 DEF Task2Begin, Pending, Waits, Looks
  <2> QED
    BY <1>1, <1>2, <1>3, <2>1, PartitionFrames DEF Task2Begin
<1>4. ASSUME NEW g \in Gos, Task2CallId(g)
      PROVE  FramesOK'
  <2>1. task2 = Looks(g) /\ task2.gos = g /\ task2.callid = 0 /\ UNCHANGED tables
    BY <1>4 DEF Task2CallId, Looks
  <2>2. CASE call[g] = <<>> /\ task2' = Looks(NextGuest(g)) /\ UNCHANGED call
    <3>1. \A h \in Gos : Pending(h)' = Pending(h)
      BY <2>1, <2>2 DEF Pending, Looks
    <3> QED
      BY <1>1, <1>2, <2>1, <3>1, PartitionFrames
  <2>3. CASE /\ call[g] # <<>>
             /\ task2' = IF Head(call[g]) \in Cases(g) THEN [gos |-> g, callid |-> Head(call[g])]
                                                        ELSE Looks(NextGuest(g))
             /\ call' = CallTaken(g)
    <3>1. /\ Head(call[g]) \in {LISTEN, CONNECT, TCP_SEND}
          /\ Head(call[g]) = TCP_SEND => g \in Senders
      BY <2>1, <2>3, FirstCall
    <3>2. Head(call[g]) \in Cases(g) /\ Head(call[g]) # 0
      BY <3>1, CaseKnown
    <3>3. task2'.gos = g /\ task2'.callid = Head(call[g])
      BY <2>3, <3>2
    <3>4. call'[g] = Tail(call[g]) /\ \A h \in Gos \ {g} : call'[h] = call[h]
      BY <1>1, <2>3 DEF CallTaken
    <3>5. <<Head(call[g])>> \o Tail(call[g]) = call[g]
      BY <1>1, <2>3
    <3>6. \A h \in Gos : Pending(h)' = Pending(h)
      BY <2>1, <3>2, <3>3, <3>4, <3>5 DEF Pending
    <3> QED
      BY <1>1, <1>2, <2>1, <3>6, PartitionFrames
  <2> QED
    BY <1>4, <2>2, <2>3 DEF Task2CallId
<1>5. ASSUME NEW g \in Gos, Task2Serve(g)
      PROVE  FramesOK'
  <2> DEFINE words == call[g]
  <2>1. /\ task2.gos = g /\ task2.callid # 0 /\ task2' = Looks(NextGuest(g))
        /\ call' = [call EXCEPT ![g] = Drop(@, Rest(g))]
    BY <1>5 DEF Task2Serve
  <2>2. /\ words[1] = g
        /\ \/ task2.callid = LISTEN /\ words[2] \in SocketsOf(g)
           \/ task2.callid = CONNECT /\ words[4] \in SocketsOf(g)
           \/ task2.callid = TCP_SEND
        /\ Framed(Drop(call[g], Rest(g)), GuestCalls(SocketsOf(g), g))
    BY <2>1, WholeCall
  <2>3. \A h \in Gos : \/ Pending(h)' = Pending(h)
                       \/ Framed(Pending(h)', GuestCalls(SocketsOf(h), h))
    <3>1. call'[g] = Drop(call[g], Rest(g)) /\ \A h \in Gos \ {g} : call'[h] = call[h]
      BY <1>1, <2>1
    <3>2. Pending(g)' = Drop(call[g], Rest(g)) /\ \A h \in Gos \ {g} : Pending(h)' = Pending(h)
      BY <2>1, <3>1 DEF Pending, Looks
    <3> QED
      BY <2>2, <3>2
  <2>4. SlotsKnown'
    <3>1. CASE task2.callid = LISTEN /\ uip_listen(words[2], words[1])
      <4>1. words[2] \in SocketsOf(g)
        BY <2>2, <3>1 DEF LISTEN, CONNECT, TCP_SEND
      <4> QED
        BY <1>1, <2>2, <3>1, <4>1, TablesKnown
    <3>2. CASE task2.callid = CONNECT /\ uip_connect(words[1], words[4])
      <4>1. words[4] \in SocketsOf(g)
        BY <2>2, <3>2 DEF LISTEN, CONNECT, TCP_SEND
      <4> QED
        BY <1>1, <2>2, <3>2, <4>1, TablesKnown
    <3>3. CASE /\ task2.callid = TCP_SEND
               /\ IF words[3] > 0 THEN uip_tcp_send(words[1], words[4], words[5])
                                  ELSE UNCHANGED tables
      <4>1. CASE ~(words[3] > 0)
        BY <1>2, <3>3, <4>1
      <4>2. CASE words[3] > 0
        <5>1. words[4] \in Nat /\ words[5] \in Nat
          BY <1>5, <3>3, <4>2, NumberThere
        <5>2. uip_tcp_send(g, words[4], words[5])
          BY <2>2, <3>3, <4>2
        <5> QED
          BY <1>1, <5>1, <5>2, TablesKnown
      <4> QED
        BY <4>1, <4>2
    <3> QED
      BY <1>5, <3>1, <3>2, <3>3 DEF Task2Serve
  <2> QED
    BY <1>1, <2>3, <2>4, PartitionFrames
<1> QED
  BY <1>3, <1>4, <1>5 DEF Task2

LEMMA AnsweredOnly ==
  ASSUME IInv, Task1
  PROVE  /\ \/ listenports' = listenports
            \/ \E s \in ListenSlots : listenports' = [listenports EXCEPT ![s] = Answered(@)]
         /\ \/ clientports' = clientports
            \/ \E s \in ClientSlots : clientports' = [clientports EXCEPT ![s] = Answered(@)]
<1>1. CASE Between /\ InputListen
  <2>1. FirstOf(ListensOn(frame.port)) \in ListenSlots
    BY <1>1, FoundFrame DEF InputListen, rhine_receive
  <2> QED
    BY <1>1, <2>1 DEF InputListen
<1>2. CASE Task1Found
  BY <1>2 DEF Task1Found
<1>3. CASE UNCHANGED <<listenports, clientports>>
  BY <1>3
<1> QED
  BY <1>1, <1>2, <1>3 DEF Task1, Input, Poll, InputDropped, InputClient, tables

LEMMA Task1Frames ==
  ASSUME IInv, FramesOK, Task1, UNCHANGED app
  PROVE  FramesOK'
<1>1. /\ listenports \in [ListenSlots -> UipSlot] /\ clientports \in [ClientSlots -> UipSlot]
      /\ SlotsKnown /\ UNCHANGED <<active_ports, spark_sockid>>
  BY DEF IInv, TypeOK, FramesOK, SlotsKnown, app
<1>2. UNCHANGED <<call, task2>>
  BY DEF Task1
<1>3. /\ \/ listenports' = listenports
         \/ \E s \in ListenSlots : listenports' = [listenports EXCEPT ![s] = Answered(@)]
      /\ \/ clientports' = clientports
         \/ \E s \in ClientSlots : clientports' = [clientports EXCEPT ![s] = Answered(@)]
  BY AnsweredOnly
<1>4. \A slot \in UipSlot : Answered(slot).gos_id = slot.gos_id /\ Answered(slot).sock_id = slot.sock_id
  BY AnsweredSlot
<1>5. /\ \A s \in ListenSlots : /\ listenports'[s].gos_id = listenports[s].gos_id
                                /\ listenports'[s].sock_id = listenports[s].sock_id
      /\ \A s \in ClientSlots : /\ clientports'[s].gos_id = clientports[s].gos_id
                                /\ clientports'[s].sock_id = clientports[s].sock_id
  BY <1>1, <1>3, <1>4
<1>6. SlotsKnown'
  BY <1>1, <1>5, SlotsStay
<1>7. \A g \in Gos : Pending(g)' = Pending(g)
  BY <1>2 DEF Pending
<1> QED
  BY <1>1, <1>6, <1>7, PartitionFrames

LEMMA FramesInitially ==
  ASSUME Init
  PROVE  FramesOK
<1>1. /\ call = [g \in Gos |-> <<>>]
      /\ spark_sockid = [g \in Gos |-> FirstSock]
      /\ task2 = [gos |-> 0, callid |-> 0]
      /\ listenports = [s \in ListenSlots |->
                          IF s = 1 THEN Slot(CommandPort, 0, CommandPort) ELSE Unused]
      /\ clientports = [s \in ClientSlots |-> Unused]
  BY DEF Init, InitApp, InitServer
<1>2. 0 \notin Gos /\ 65535 \notin Gos /\ FirstSock # 0
  BY SocketAssumption
<1>3. \A g \in Gos : Pending(g) = <<>> /\ spark_sockid[g] # 0
  BY <1>1, <1>2 DEF Pending
<1>4. \A g \in Gos : Framed(<<>>, GuestCalls(SocketsOf(g), g))
  BY NothingFramed
<1>5. /\ \A s \in ListenSlots : listenports[s].gos_id \in {0, 65535}
      /\ \A s \in ClientSlots : clientports[s].gos_id \in {0, 65535}
  BY <1>1 DEF Slot, Unused
<1> QED
  BY <1>2, <1>3, <1>4, <1>5 DEF FramesOK, SlotKnown

LEMMA StepKeepsFrames ==
  ASSUME Senders \subseteq {1}, IInv, FramesOK, [Next]_vars
  PROVE  FramesOK'
<1>1. CASE Partition
  BY <1>1, Task1Frames, Task2Frames DEF Partition
<1>2. ASSUME NEW g \in Gos, Guest(g)
      PROVE  FramesOK'
  BY <1>2, GuestFrames
<1>3. CASE UNCHANGED vars
  <2>1. UNCHANGED <<call, task2, listenports, clientports, spark_sockid, active_ports>>
    BY <1>3 DEF vars, channels, app, server, tables
  <2>2. \A h \in Gos : SocketsOf(h)' = SocketsOf(h)
    BY <2>1 DEF SocketsOf
  <2> QED
    BY <2>1, <2>2, NoCallSent
<1> QED
  BY <1>1, <1>2, <1>3 DEF Next

\* A call channel is cut into whole calls of its guest, the one task2 is at
\* included, in every reachable state.
THEOREM FramesStay ==
  ASSUME Senders \subseteq {1}
  PROVE  Spec => []FramesOK
<1>1. IInv /\ FramesOK /\ [Next]_vars => FramesOK'
  BY StepKeepsFrames
<1> QED
  BY FramesInitially, <1>1, Invariance, PTL DEF Spec

\* If only the first guest sends, task2 takes a word for a call id only where
\* a call begins, knows it, and finds the whole rest of the call, however many
\* calls of whatever kind wait in the channels (periodic_task_2.c:44).
THEOREM CallsAreFramed ==
  ASSUME Senders \subseteq {1}
  PROVE  Spec => []CallsFramed
<1>1. IInv /\ FramesOK => CallsFramed
  <2> SUFFICES ASSUME IInv, FramesOK
               PROVE  CallsFramed
    OBVIOUS
  <2>1. ASSUME NEW g \in Gos, task2 = Looks(g), call[g] # <<>>
        PROVE  Head(call[g]) \in Cases(g)
    <3>1. task2.gos = g /\ task2.callid = 0
      BY <2>1 DEF Looks
    <3>2. /\ Head(call[g]) \in {LISTEN, CONNECT, TCP_SEND}
          /\ Head(call[g]) = TCP_SEND => g \in Senders
      BY <2>1, <3>1, FirstCall
    <3> QED
      BY <3>2, CaseKnown
  <2>2. ASSUME NEW g \in Gos, task2.gos = g, task2.callid # 0
        PROVE  Len(call[g]) >= 2 /\ call[g][1] = g /\ Len(call[g]) >= Rest(g)
    BY <2>2, WholeCall
  <2> QED
    BY <2>1, <2>2 DEF CallsFramed
<1> QED
  BY <1>1, FramesStay, Invariance, PTL

\* Under the same assumption every slot of the partition's tables that belongs
\* to a guest is for a socket the guest has an entry for: calls are made after
\* the entry, and entries are not given back (systemcall.c:163).
THEOREM SocketsAreKnown ==
  ASSUME Senders \subseteq {1}
  PROVE  Spec => []SocketsKnown
<1>1. FramesOK => SocketsKnown
  BY DEF FramesOK, SlotKnown, SocketsOf, SocketsKnown
<1> QED
  BY <1>1, FramesStay, PTL

-----------------------------------------------------------------------------
\* The receive channels

\* The messages for a guest whose sockets are K.
Messages(K) ==
  {m \in Seq(Word) : /\ m[3] \in Lengths /\ Len(m) = Header + m[3]
                     /\ m[2] \in K \/ m[4] \in K}

\* The words a short receive has counted and not taken yet.
Counted(g) == IF receiving[g].pc = "again" THEN receiving[g].message_size ELSE 0

MessagesOK(g) ==
  /\ Len(recv[g]) <= DataSize
  /\ Framed(SubSeq(recv[g], 1, Counted(g)), Messages(SocketsOf(g)))
  /\ Framed(Drop(recv[g], Counted(g)), Messages(SocketsOf(g)))
  /\ receiving[g].pc # "app" => receiving[g].index \in Entries
  /\ receiving[g].pc = "loop" => Framed(receiving[g].tcp_recv_data, Messages(SocketsOf(g)))

EntriesInOrder ==
  \A g \in Gos : \A i, j \in Entries :
    i <= j /\ active_ports[g][i].sock_id = 0 => active_ports[g][j].sock_id = 0

\* The socket id of a server is its port.
ServersOK == \A s \in ListenSlots : listenports[s].gos_id \in Gos =>
                                      listenports[s].sock_id = listenports[s].port

\* The invariant says nothing of a guest with a receive that ended inside a
\* message.
UncutOK == (\A g \in Gos \ cut : MessagesOK(g)) /\ EntriesInOrder /\ ServersOK
RoundsOK == (\A g \in Gos : MessagesOK(g)) /\ EntriesInOrder /\ ServersOK

LEMMA MoreMessages ==
  ASSUME NEW K, NEW L, K \subseteq L
  PROVE  Messages(K) \subseteq Messages(L)
BY DEF Messages

LEMMA NothingDropped ==
  ASSUME NEW w \in Seq(Word)
  PROVE  /\ Drop(w, 0) = w /\ SubSeq(w, 1, 0) = <<>>
         /\ SubSeq(w, 1, Len(w)) = w /\ Drop(w, Len(w)) = <<>>
<1>1. Len(w) \in Nat
  OBVIOUS
<1>2. SubSeq(w, 1, Len(w)) = w /\ SubSeq(w, 0 + 1, Len(w)) = w
  OBVIOUS
<1>3. SubSeq(w, 1, 0) = <<>> /\ SubSeq(w, Len(w) + 1, Len(w)) = <<>>
  BY <1>1, SubSeqEmpty
<1> QED
  BY <1>2, <1>3 DEF Drop

LEMMA MoreBehind ==
  ASSUME NEW w \in Seq(Word), NEW m \in Seq(Word), NEW n \in 0 .. Len(w)
  PROVE  /\ SubSeq(w \o m, 1, n) = SubSeq(w, 1, n)
         /\ Drop(w \o m, n) = Drop(w, n) \o m
<1> DEFINE both == w \o m
<1>1. /\ both \in Seq(Word)
      /\ Len(both) = Len(w) + Len(m)
      /\ \A k \in 1 .. Len(w) : both[k] = w[k]
      /\ \A k \in 1 .. Len(m) : both[Len(w) + k] = m[k]
  BY WordsBehind
<1>2. Len(w) \in Nat /\ Len(m) \in Nat /\ n \in Nat
  OBVIOUS
<1> HIDE DEF both
<1>3. n \in 0 .. Len(both)
  BY <1>1, <1>2
<1>4. SubSeq(both, 1, n) = SubSeq(w, 1, n)
  <2> DEFINE x == SubSeq(both, 1, n)
             y == SubSeq(w, 1, n)
  <2>1. x \in Seq(Word) /\ Len(x) = n /\ \A k \in 1 .. n : x[k] = both[k]
    BY <1>1, <1>3, PartAtFront
  <2>2. y \in Seq(Word) /\ Len(y) = n /\ \A k \in 1 .. n : y[k] = w[k]
    BY PartAtFront
  <2> HIDE DEF x, y
  <2>3. ASSUME NEW k \in 1 .. Len(x)
        PROVE  x[k] = y[k]
    <3>1. k \in 1 .. n /\ k \in 1 .. Len(w)
      BY <1>2, <2>1
    <3> QED
      BY <1>1, <2>1, <2>2, <3>1
  <2>4. x = y
    BY <2>1, <2>2, <2>3, SeqEqual
  <2> QED
    BY <2>4 DEF x, y
<1>5. Drop(both, n) = Drop(w, n) \o m
  <2> DEFINE x == Drop(both, n)
             v == Drop(w, n)
             y == v \o m
  <2>1. x \in Seq(Word) /\ Len(x) = Len(both) - n /\ \A k \in 1 .. Len(both) - n : x[k] = both[k + n]
    BY <1>1, <1>3, WordsLeft
  <2>2. v \in Seq(Word) /\ Len(v) = Len(w) - n /\ \A k \in 1 .. Len(w) - n : v[k] = w[k + n]
    BY WordsLeft
  <2> HIDE DEF x, v
  <2>3. /\ y \in Seq(Word) /\ Len(y) = Len(v) + Len(m)
        /\ \A k \in 1 .. Len(v) : y[k] = v[k]
        /\ \A k \in 1 .. Len(m) : y[Len(v) + k] = m[k]
    BY <2>2, WordsBehind
  <2> HIDE DEF y
  <2>4. Len(x) = Len(y)
    BY <1>1, <1>2, <2>1, <2>2, <2>3
  <2>5. ASSUME NEW k \in 1 .. Len(x)
        PROVE  x[k] = y[k]
    <3>1. k \in Nat /\ k \in 1 .. Len(both) - n
      BY <1>1, <1>2, <2>1
    <3>2. x[k] = both[k + n]
      BY <2>1, <3>1
    <3>3. CASE k <= Len(v)
      <4>1. k \in 1 .. Len(v) /\ k \in 1 .. Len(w) - n /\ k + n \in 1 .. Len(w)
        BY <1>2, <2>2, <3>1, <3>3
      <4> QED
        BY <1>1, <2>2, <2>3, <3>2, <4>1
    <3>4. CASE k > Len(v)
      <4> DEFINE l == k - Len(v)
      <4>1. l \in 1 .. Len(m) /\ Len(v) + l = k /\ Len(w) + l = k + n
        BY <1>1, <1>2, <2>2, <3>1, <3>4
      <4>2. y[k] = m[l] /\ both[k + n] = m[l]
        BY <1>1, <2>3, <4>1
      <4> QED
        BY <3>2, <4>2
    <3> QED
      BY <1>2, <2>2, <3>1, <3>3, <3>4
  <2>6. x = y
    BY <2>1, <2>3, <2>4, <2>5, SeqEqual
  <2> QED
    BY <2>6 DEF x, y, v
<1> QED
  BY <1>4, <1>5 DEF both

LEMMA OneFramed ==
  ASSUME NEW M, NEW m \in Seq(Word), m \in M, 0 < Len(m)
  PROVE  Framed(m, M)
<1>1. <<>> \in Seq(Word) /\ <<>> \o m = m
  BY EmptySeq, ConcatEmptySeq
<1>2. Framed(<<>> \o m, M)
  BY <1>1, NothingFramed, FramedAppended
<1> QED
  BY <1>1, <1>2

LEMMA FirstMessage ==
  ASSUME NEW K, NEW w \in Seq(Word), Framed(w, Messages(K)), w # <<>>
  PROVE  /\ w[3] \in Lengths /\ Header + w[3] <= Len(w)
         /\ w[2] \in K \/ w[4] \in K
         /\ SubSeq(w, 1, Header + w[3]) \in Messages(K)
         /\ Framed(Drop(w, Header + w[3]), Messages(K))
<1>1. PICK e \in 1 .. Len(w) : SubSeq(w, 1, e) \in Messages(K) /\ Framed(Drop(w, e), Messages(K))
  BY FirstFramed
<1> DEFINE m == SubSeq(w, 1, e)
<1>2. Len(w) \in Nat /\ e \in 0 .. Len(w) /\ e \in Nat
  OBVIOUS
<1>3. Len(m) = e /\ \A k \in 1 .. e : m[k] = w[k]
  BY <1>2, PartAtFront
<1>4. m \in Messages(K)
  BY <1>1
<1> HIDE DEF m
<1>5. m[3] \in Lengths /\ e = Header + m[3] /\ (m[2] \in K \/ m[4] \in K)
  BY <1>3, <1>4 DEF Messages
<1>6. m[3] \in Nat \ {0}
  BY <1>5, ServerAssumption
<1>7. m[2] = w[2] /\ m[3] = w[3] /\ m[4] = w[4]
  <2>1. e >= 4
    BY <1>2, <1>5, <1>6 DEF Header
  <2> QED
    BY <1>2, <1>3, <2>1
<1> QED
  BY <1>1, <1>2, <1>5, <1>7

LEMMA ChannelTyped ==
  ASSUME IInv, NEW g \in Gos
  PROVE  /\ recv[g] \in Seq(Word) /\ receiving[g] \in Receive
         /\ Counted(g) \in 0 .. Len(recv[g])
         /\ receiving[g].tcp_recv_data \in Seq(Word)
<1>1. recv[g] \in Seq(Word) /\ receiving[g] \in Receive
  BY DEF IInv, TypeOK, ReceivesOK
<1>2. Len(recv[g]) \in Nat /\ receiving[g].message_size \in Nat /\ receiving[g].tcp_recv_data \in Seq(Word)
  BY <1>1 DEF Receive
<1>3. receiving[g].pc = "again" => receiving[g].message_size <= Len(recv[g])
  BY DEF IInv, ReceivesOK
<1> QED
  BY <1>1, <1>2, <1>3 DEF Counted

\* More sockets, and maybe one more message.
LEMMA ChannelKept ==
  ASSUME IInv, NEW g \in Gos, MessagesOK(g), receiving'[g] = receiving[g],
         SocketsOf(g) \subseteq SocketsOf(g)', recv'[g] = recv[g]
  PROVE  MessagesOK(g)'
<1> DEFINE M == Messages(SocketsOf(g))
           N == Messages(SocketsOf(g)')
           n == Counted(g)
           w == recv[g]
<1>1. M \subseteq N
  BY MoreMessages
<1>2. w \in Seq(Word) /\ n \in 0 .. Len(w) /\ receiving[g].tcp_recv_data \in Seq(Word)
  BY ChannelTyped
<1>3. /\ Len(w) <= DataSize /\ Framed(SubSeq(w, 1, n), M) /\ Framed(Drop(w, n), M)
      /\ receiving[g].pc # "app" => receiving[g].index \in Entries
      /\ receiving[g].pc = "loop" => Framed(receiving[g].tcp_recv_data, M)
  BY DEF MessagesOK
<1>4. Counted(g)' = n
  BY DEF Counted
<1> HIDE DEF M, N, n, w
<1>5. SubSeq(w, 1, n) \in Seq(Word) /\ Drop(w, n) \in Seq(Word)
  BY <1>2, PartAtFront, WordsLeft
<1>6. Framed(SubSeq(w, 1, n), N) /\ Framed(Drop(w, n), N)
  BY <1>1, <1>3, <1>5, FramedMore
<1>7. receiving[g].pc = "loop" => Framed(receiving[g].tcp_recv_data, N)
  BY <1>1, <1>2, <1>3, FramedMore
<1>8. /\ Len(recv'[g]) <= DataSize
      /\ Framed(SubSeq(recv'[g], 1, Counted(g)'), N)
      /\ Framed(Drop(recv'[g], Counted(g)'), N)
      /\ receiving'[g].pc # "app" => receiving'[g].index \in Entries
      /\ receiving'[g].pc = "loop" => Framed(receiving'[g].tcp_recv_data, N)
  BY <1>3, <1>4, <1>6, <1>7 DEF w
<1> QED
  BY <1>8 DEF MessagesOK, N

LEMMA MessageSent ==
  ASSUME IInv, NEW g \in Gos, MessagesOK(g), UNCHANGED <<receiving, active_ports>>,
         NEW port \in Nat, NEW length \in Lengths, NEW sockid \in Nat, NEW number \in Nat,
         port \in SocketsOf(g) \/ sockid \in SocketsOf(g),
         SendsTo(g, port, length, sockid, number)
  PROVE  MessagesOK(g)'
<1> DEFINE head == <<4444, port, length, sockid>>
           data == Data(number, length)
           m == head \o data
           w == recv[g]
           n == Counted(g)
           K == SocketsOf(g)
<1>1. length \in Nat \ {0}
  BY ServerAssumption
<1>2. /\ head \in Seq(Word) /\ Len(head) = 4
      /\ head[2] = port /\ head[3] = length /\ head[4] = sockid
  BY <1>1 DEF Word
<1>3. data \in Seq(Word) /\ Len(data) = length
  BY <1>1, DataWords
<1>4. recv' = [recv EXCEPT ![g] = @ \o m] /\ Len(w) + Header + length <= DataSize
  BY DEF SendsTo, Behind
<1> HIDE DEF head, data
<1>5. m \in Seq(Word) /\ Len(m) = Len(head) + Len(data) /\ \A k \in 1 .. Len(head) : m[k] = head[k]
  BY <1>2, <1>3, WordsBehind
<1> HIDE DEF m
<1>6. m[2] = port /\ m[3] = length /\ m[4] = sockid
  BY <1>2, <1>5
<1>7. m \in Messages(K) /\ 0 < Len(m)
  <2>1. Len(m) = 4 + length
    BY <1>2, <1>3, <1>5
  <2> QED
    BY <1>1, <1>5, <1>6, <2>1 DEF Messages, Header
<1>8. w \in Seq(Word) /\ n \in 0 .. Len(w)
  BY ChannelTyped
<1>9. /\ Framed(SubSeq(w, 1, n), Messages(K)) /\ Framed(Drop(w, n), Messages(K))
      /\ receiving[g].pc # "app" => receiving[g].index \in Entries
      /\ receiving[g].pc = "loop" => Framed(receiving[g].tcp_recv_data, Messages(K))
  BY DEF MessagesOK
<1>10. K' = K /\ n' = n /\ recv'[g] = w \o m
  <2>1. recv \in [Gos -> Seq(Word)]
    BY DEF IInv, TypeOK
  <2>2. recv'[g] = w \o m
    BY <1>4, <2>1
  <2> QED
    BY <2>2 DEF SocketsOf, Counted
<1> HIDE DEF w, n, K
<1>11. Drop(w, n) \in Seq(Word)
  BY <1>8, WordsLeft
<1>12. /\ SubSeq(w \o m, 1, n) = SubSeq(w, 1, n)
       /\ Drop(w \o m, n) = Drop(w, n) \o m
  BY <1>5, <1>8, MoreBehind
<1>13. Framed(Drop(w, n) \o m, Messages(K))
  BY <1>5, <1>7, <1>9, <1>11, FramedAppended
<1>14. Len(w \o m) <= DataSize
  <2>1. Len(w \o m) = Len(w) + Len(m)
    BY <1>5, <1>8, WordsBehind
  <2>2. Len(m) = 4 + length
    BY <1>2, <1>3, <1>5
  <2>3. Len(w) \in Nat /\ length \in Nat
    BY <1>1, <1>8
  <2>4. Len(w) + 4 + length <= DataSize
    BY <1>4 DEF Header, w
  <2>5. Len(w) + (4 + length) = Len(w) + 4 + length
    BY <2>3
  <2> QED
    BY <2>1, <2>2, <2>4, <2>5
<1>15. /\ Len(recv'[g]) <= DataSize
       /\ Framed(SubSeq(recv'[g], 1, n'), Messages(K'))
       /\ Framed(Drop(recv'[g], n'), Messages(K'))
       /\ receiving'[g].pc # "app" => receiving'[g].index \in Entries
       /\ receiving'[g].pc = "loop" => Framed(receiving'[g].tcp_recv_data, Messages(K'))
  BY <1>9, <1>10, <1>12, <1>13, <1>14
<1> QED
  BY <1>15 DEF MessagesOK, n, K

LEMMA OrderKept ==
  ASSUME IInv, EntriesInOrder
  PROVE  /\ \A g \in Gos, sockid \in Nat \ {0} : Opens(g, sockid) => EntriesInOrder'
         /\ (\A g \in Gos, i \in Entries : active_ports'[g][i].sock_id = active_ports[g][i].sock_id)
              => EntriesInOrder'
<1>1. ASSUME NEW g \in Gos, NEW sockid \in Nat \ {0}, Opens(g, sockid)
      PROVE  EntriesInOrder'
  <2> DEFINE n == NewEntry(g)
  <2>1. active_ports \in [Gos -> [Entries -> Entry]]
    BY DEF IInv, TypeOK
  <2>2. n \in FreeEntries(g) /\ \A j \in FreeEntries(g) : n <= j
    <3>1. FreeEntries(g) \in SUBSET Nat /\ FreeEntries(g) # {}
      BY <1>1 DEF FreeEntries, Entries, Opens
    <3> QED
      BY <3>1, FirstOfSet DEF NewEntry, FirstOf
  <2>3. active_ports' = [active_ports EXCEPT ![g][n] = [sock_id |-> sockid, kept |-> <<>>]]
    BY <1>1 DEF Opens
  <2>4. n \in Entries /\ \A j \in Entries : active_ports[g][j].sock_id = 0 => n <= j
    BY <2>2 DEF FreeEntries, InUse
  <2> HIDE DEF n
  <2>5. /\ active_ports'[g][n].sock_id # 0
        /\ \A h \in Gos, i \in Entries : h # g \/ i # n => active_ports'[h][i] = active_ports[h][i]
    BY <2>1, <2>3, <2>4
  <2> SUFFICES ASSUME NEW h \in Gos, NEW i \in Entries, NEW j \in Entries,
                      i <= j, active_ports'[h][i].sock_id = 0
               PROVE  active_ports'[h][j].sock_id = 0
    BY DEF EntriesInOrder
  <2>6. active_ports[h][i].sock_id = 0
    BY <2>5
  <2>7. active_ports[h][j].sock_id = 0
    BY <2>6 DEF EntriesInOrder
  <2>8. ~(h = g /\ j = n)
    <3> SUFFICES ASSUME h = g, j = n
                 PROVE  FALSE
      OBVIOUS
    <3>1. n <= i /\ i <= n /\ i \in Nat /\ n \in Nat
      BY <2>4, <2>6 DEF Entries
    <3>2. i = n
      BY <3>1
    <3> QED
      BY <2>5, <3>2
  <2> QED
    BY <2>5, <2>7, <2>8
<1>2. ASSUME \A g \in Gos, i \in Entries : active_ports'[g][i].sock_id = active_ports[g][i].sock_id
      PROVE  EntriesInOrder'
  BY <1>2 DEF EntriesInOrder
<1> QED
  BY <1>1, <1>2

\* Words taken in two pieces, one behind the other.
LEMMA WordsAgain ==
  ASSUME NEW w \in Seq(Word), NEW b \in 0 .. Len(w), NEW e \in 0 .. Len(w) - b
  PROVE  /\ b + e \in 0 .. Len(w)
         /\ SubSeq(w, 1, b) \o SubSeq(Drop(w, b), 1, e) = SubSeq(w, 1, b + e)
         /\ Drop(Drop(w, b), e) = Drop(w, b + e)
<1> DEFINE n == b + e
           v == Drop(w, b)
           x == SubSeq(w, 1, b)
           m == SubSeq(v, 1, e)
           y == SubSeq(w, 1, n)
           left == Drop(v, e)
           rest == Drop(w, n)
<1>1. Len(w) \in Nat /\ b \in Nat /\ e \in Nat /\ n \in 0 .. Len(w)
  OBVIOUS
<1>2. v \in Seq(Word) /\ Len(v) = Len(w) - b /\ \A k \in 1 .. Len(w) - b : v[k] = w[k + b]
  BY WordsLeft
<1>3. x \in Seq(Word) /\ Len(x) = b /\ \A k \in 1 .. b : x[k] = w[k]
  BY PartAtFront
<1> HIDE DEF v, x
<1>4. e \in 0 .. Len(v)
  BY <1>1, <1>2
<1>5. m \in Seq(Word) /\ Len(m) = e /\ \A k \in 1 .. e : m[k] = v[k]
  BY <1>2, <1>4, PartAtFront
<1>6. left \in Seq(Word) /\ Len(left) = Len(v) - e /\ \A k \in 1 .. Len(v) - e : left[k] = v[k + e]
  BY <1>2, <1>4, WordsLeft
<1> HIDE DEF n
<1>7. y \in Seq(Word) /\ Len(y) = n /\ \A k \in 1 .. n : y[k] = w[k]
  BY <1>1, PartAtFront
<1>8. rest \in Seq(Word) /\ Len(rest) = Len(w) - n /\ \A k \in 1 .. Len(w) - n : rest[k] = w[k + n]
  BY <1>1, WordsLeft
<1> HIDE DEF m, y, left, rest
<1>9. x \o m = y
  <2> DEFINE z == x \o m
  <2>1. /\ z \in Seq(Word) /\ Len(z) = Len(x) + Len(m)
        /\ \A k \in 1 .. Len(x) : z[k] = x[k]
        /\ \A k \in 1 .. Len(m) : z[Len(x) + k] = m[k]
    BY <1>3, <1>5, WordsBehind
  <2> HIDE DEF z
  <2>2. Len(z) = n
    BY <1>1, <1>3, <1>5, <2>1 DEF n
  <2>3. ASSUME NEW k \in 1 .. n
        PROVE  z[k] = y[k]
    <3>1. CASE k <= b
      <4>1. k \in 1 .. b
        BY <1>1, <3>1
      <4> QED
        BY <1>3, <1>7, <2>1, <4>1
    <3>2. CASE k > b
      <4> DEFINE l == k - b
      <4>1. l \in 1 .. e /\ b + l = k /\ l + b = k /\ l \in 1 .. Len(w) - b
        BY <1>1, <3>2 DEF n
      <4> HIDE DEF l
      <4>2. z[k] = m[l] /\ m[l] = v[l] /\ v[l] = w[k]
        BY <1>2, <1>3, <1>5, <2>1, <4>1
      <4> QED
        BY <1>7, <4>2
    <3> QED
      BY <1>1, <3>1, <3>2
  <2>4. z = y
    BY <1>7, <2>1, <2>2, <2>3, SeqEqual
  <2> QED
    BY <2>4 DEF z
<1>10. left = rest
  <2>1. Len(left) = Len(rest)
    BY <1>1, <1>2, <1>6, <1>8 DEF n
  <2>2. ASSUME NEW k \in 1 .. Len(left)
        PROVE  left[k] = rest[k]
    <3>1. /\ k \in 1 .. Len(v) - e /\ k \in 1 .. Len(w) - n /\ k + e \in 1 .. Len(w) - b
          /\ (k + e) + b = k + n
      BY <1>1, <1>2, <1>6, <2>1, <1>8 DEF n
    <3> QED
      BY <1>2, <1>6, <1>8, <3>1
  <2> QED
    BY <1>6, <1>8, <2>1, <2>2, SeqEqual
<1> QED
  BY <1>1, <1>9, <1>10 DEF n, v, x, m, y, left, rest

\* A message at the front of some words.
LEMMA HeadMessage ==
  ASSUME NEW K, NEW w \in Seq(Word), NEW e \in 1 .. Len(w), SubSeq(w, 1, e) \in Messages(K)
  PROVE  /\ e = Header + w[3] /\ w[3] \in Lengths /\ w[3] \in Nat \ {0}
         /\ w[2] \in K \/ w[4] \in K
         /\ \A k \in 1 .. 5 : SubSeq(w, 1, e)[k] = w[k]
         /\ SubSeq(w, 1, e) \in Seq(Word) /\ 0 < Len(SubSeq(w, 1, e))
         /\ e \in 0 .. Len(w)
<1> DEFINE m == SubSeq(w, 1, e)
<1>1. Len(w) \in Nat /\ e \in 0 .. Len(w) /\ e \in Nat
  OBVIOUS
<1>2. m \in Seq(Word) /\ Len(m) = e /\ \A k \in 1 .. e : m[k] = w[k]
  BY <1>1, PartAtFront
<1> HIDE DEF m
<1>3. m[3] \in Lengths /\ e = Header + m[3] /\ (m[2] \in K \/ m[4] \in K)
  BY <1>2 DEF Messages, m
<1>4. m[3] \in Nat \ {0}
  BY <1>3, ServerAssumption
<1>5. e >= 5
  BY <1>1, <1>3, <1>4 DEF Header
<1>6. \A k \in 1 .. 5 : m[k] = w[k]
  BY <1>1, <1>2, <1>5
<1> QED
  BY <1>1, <1>2, <1>3, <1>4, <1>5, <1>6 DEF m

\* The end of a message is reached from one cut to the next: a set of places
\* with 0, and with the begin of a message its end, has it.
LEMMA EndsAtCuts ==
  ASSUME NEW K, NEW w \in Seq(Word), NEW n, EndsMessage(w, n),
         NEW B \in SUBSET (0 .. Len(w)), 0 \in B,
         \A b \in B : Drop(w, b) # <<>> =>
           \E e \in 1 .. Len(Drop(w, b)) :
             SubSeq(Drop(w, b), 1, e) \in Messages(K) /\ b + e \in B
  PROVE  n \in B
<1> SUFFICES ASSUME NEW b \in B, b + 3 <= Len(w), b + Header + w[b + 3] <= Len(w)
             PROVE  b + Header + w[b + 3] \in B
  BY DEF EndsMessage
<1> DEFINE v == Drop(w, b)
<1>1. b \in 0 .. Len(w) /\ b \in Nat /\ Len(w) \in Nat
  OBVIOUS
<1>2. v \in Seq(Word) /\ Len(v) = Len(w) - b /\ \A k \in 1 .. Len(w) - b : v[k] = w[k + b]
  BY <1>1, WordsLeft
<1>3. 3 \in 1 .. Len(w) - b /\ 3 + b = b + 3
  BY <1>1
<1> HIDE DEF v
<1>4. v # <<>> /\ v[3] = w[b + 3]
  <2>1. Len(v) # 0
    BY <1>1, <1>2, <1>3
  <2> QED
    BY <1>2, <1>3, <2>1, EmptySeq
<1>5. PICK e \in 1 .. Len(v) : SubSeq(v, 1, e) \in Messages(K) /\ b + e \in B
  BY <1>4 DEF v
<1>6. e = Header + v[3] /\ v[3] \in Nat
  BY <1>2, <1>5, HeadMessage
<1>7. b + e = b + Header + w[b + 3]
  BY <1>1, <1>4, <1>6 DEF Header
<1> QED
  BY <1>5, <1>7

\* Words that are messages of M, taken up to the end of one of them.
LEMMA CutAtEnd ==
  ASSUME NEW K, NEW M, M \subseteq Messages(K), NEW w \in Seq(Word), Framed(w, M),
         NEW n \in 0 .. Len(w), EndsMessage(w, n)
  PROVE  Framed(SubSeq(w, 1, n), M) /\ Framed(Drop(w, n), M)
<1> DEFINE B == {b \in 0 .. Len(w) : Framed(SubSeq(w, 1, b), M) /\ Framed(Drop(w, b), M)}
<1>1. B \in SUBSET (0 .. Len(w)) /\ Len(w) \in Nat
  OBVIOUS
<1>2. 0 \in B
  <2>1. Framed(SubSeq(w, 1, 0), M) /\ Framed(Drop(w, 0), M)
    BY NothingDropped, NothingFramed
  <2> QED
    BY <1>1, <2>1
<1>3. ASSUME NEW b \in B, Drop(w, b) # <<>>
      PROVE  \E e \in 1 .. Len(Drop(w, b)) :
               SubSeq(Drop(w, b), 1, e) \in Messages(K) /\ b + e \in B
  <2> DEFINE v == Drop(w, b)
             x == SubSeq(w, 1, b)
  <2>1. b \in 0 .. Len(w) /\ Framed(x, M) /\ Framed(v, M) /\ v # <<>>
    BY <1>3
  <2>2. v \in Seq(Word) /\ Len(v) = Len(w) - b /\ x \in Seq(Word)
    BY <2>1, WordsLeft, PartAtFront
  <2>3. PICK e \in 1 .. Len(v) : SubSeq(v, 1, e) \in M /\ Framed(Drop(v, e), M)
    <3> HIDE DEF v
    <3> QED
      BY <2>1, <2>2, FirstFramed
  <2> DEFINE m == SubSeq(v, 1, e)
  <2>4. m \in M /\ m \in Seq(Word) /\ 0 < Len(m)
    <3> HIDE DEF v
    <3> QED
      BY <2>2, <2>3, HeadMessage
  <2>5. Framed(x \o m, M)
    <3> HIDE DEF m, x, v
    <3> QED
      BY <2>1, <2>2, <2>4, FramedAppended
  <2>6. b + e \in 0 .. Len(w) /\ x \o m = SubSeq(w, 1, b + e) /\ Drop(v, e) = Drop(w, b + e)
    <3>1. e \in 0 .. Len(w) - b
      BY <1>1, <2>1, <2>2
    <3> QED
      BY <2>1, <3>1, WordsAgain
  <2>7. b + e \in B
    BY <2>3, <2>5, <2>6
  <2> HIDE DEF B
  <2> QED
    BY <2>3, <2>7
<1> HIDE DEF B
<1>4. n \in B
  BY <1>1, <1>2, <1>3, EndsAtCuts
<1> QED
  BY <1>4 DEF B

\* The first receive, if it does not end inside a message.
LEMMA FirstTakes ==
  ASSUME IInv, NEW g \in Gos, g \notin cut', MessagesOK(g), NEW i \in Entries,
         NEW size \in RecvSizes[g], RecvFirst(g, i, size)
  PROVE  MessagesOK(g)'
<1> DEFINE w == recv[g]
           K == SocketsOf(g)
           n == Wanted(size)
           r == [Idle EXCEPT !.sockid = active_ports[g][i].sock_id, !.index = i, !.size = size]
<1>1. /\ receiving[g].pc = "app" /\ w # <<>> /\ active_ports' = active_ports
      /\ receiving \in [Gos -> Receive] /\ recv \in [Gos -> Seq(Word)] /\ w \in Seq(Word)
  BY DEF RecvFirst, IInv, TypeOK, ReceivesOK
<1>2. size \in Nat /\ n = size + Header /\ n \in Nat /\ Len(w) \in Nat /\ DataSize \in Nat
  BY <1>1, SocketAssumption DEF Wanted, Header
<1>3. Framed(w, Messages(K)) /\ Len(w) <= DataSize /\ K' = K
  BY <1>1, NothingDropped DEF MessagesOK, Counted, SocketsOf
<1>4. r.index = i /\ DOMAIN r = DOMAIN Idle
  BY DEF Idle
<1> HIDE DEF K, w, n
<1>5. CASE /\ Len(w) >= n
           /\ Step(g, [r EXCEPT !.pc = "loop", !.tcp_recv_data = SubSeq(w, 1, n)])
           /\ recv' = [recv EXCEPT ![g] = Drop(@, n)]
           /\ EndsMessage(w, size + Header)
  <2>1. /\ receiving'[g].pc = "loop" /\ receiving'[g].index = i
        /\ receiving'[g].tcp_recv_data = SubSeq(w, 1, n)
    BY <1>1, <1>5 DEF Step, Idle
  <2>2. recv'[g] = Drop(w, n)
    BY <1>1, <1>5 DEF w
  <2>3. Framed(SubSeq(w, 1, n), Messages(K)) /\ Framed(Drop(w, n), Messages(K))
    <3>1. n \in 0 .. Len(w)
      BY <1>2, <1>5
    <3>2. EndsMessage(w, n)
      BY <1>2, <1>5
    <3> DEFINE M == Messages(K)
    <3> HIDE DEF M
    <3>3. M \subseteq Messages(K) /\ Framed(w, M)
      BY <1>3 DEF M
    <3>4. Framed(SubSeq(w, 1, n), M) /\ Framed(Drop(w, n), M)
      BY <1>1, <3>1, <3>2, <3>3, CutAtEnd
    <3> QED
      BY <3>4 DEF M
  <2>4. Drop(w, n) \in Seq(Word) /\ Len(Drop(w, n)) <= Len(w) /\ Len(Drop(w, n)) \in Nat
    BY <1>1, <1>2, DroppedWords
  <2>5. Counted(g)' = 0
    BY <2>1 DEF Counted
  <2>6. Len(Drop(w, n)) <= DataSize
    BY <1>2, <1>3, <2>4
  <2>7. SubSeq(recv'[g], 1, 0) = <<>> /\ Drop(recv'[g], 0) = recv'[g]
    BY <2>2, <2>4, NothingDropped
  <2>8. /\ Len(recv'[g]) <= DataSize
        /\ Framed(SubSeq(recv'[g], 1, Counted(g)'), Messages(K'))
        /\ Framed(Drop(recv'[g], Counted(g)'), Messages(K'))
        /\ receiving'[g].pc # "app" => receiving'[g].index \in Entries
        /\ receiving'[g].pc = "loop" => Framed(receiving'[g].tcp_recv_data, Messages(K'))
    BY <1>3, <2>1, <2>2, <2>3, <2>5, <2>6, <2>7, NothingFramed
  <2> QED
    BY <2>8 DEF MessagesOK, K
<1>6. CASE /\ Len(w) < n
           /\ Step(g, [r EXCEPT !.pc = "again", !.message_size = Len(w)])
           /\ UNCHANGED recv
  <2>1. /\ receiving'[g].pc = "again" /\ receiving'[g].index = i
        /\ receiving'[g].message_size = Len(w)
    BY <1>1, <1>6 DEF Step, Idle
  <2>2. Counted(g)' = Len(w) /\ recv'[g] = w
    BY <1>6, <2>1 DEF Counted, w
  <2>3. SubSeq(w, 1, Len(w)) = w /\ Drop(w, Len(w)) = <<>>
    BY <1>1, NothingDropped
  <2>4. /\ Len(recv'[g]) <= DataSize
        /\ Framed(SubSeq(recv'[g], 1, Counted(g)'), Messages(K'))
        /\ Framed(Drop(recv'[g], Counted(g)'), Messages(K'))
        /\ receiving'[g].pc # "app" => receiving'[g].index \in Entries
        /\ receiving'[g].pc = "loop" => Framed(receiving'[g].tcp_recv_data, Messages(K'))
    BY <1>3, <2>1, <2>2, <2>3, NothingFramed
  <2> QED
    BY <2>4 DEF MessagesOK, K
<1> QED
  BY <1>5, <1>6 DEF RecvFirst, w, n

\* The second one takes what the first one counted.
LEMMA AgainTakes ==
  ASSUME IInv, NEW g \in Gos, MessagesOK(g), RecvAgain(g)
  PROVE  MessagesOK(g)'
<1> DEFINE w == recv[g]
           K == SocketsOf(g)
           n == receiving[g].message_size
<1>1. /\ receiving[g].pc = "again" /\ active_ports' = active_ports
      /\ receiving \in [Gos -> Receive] /\ recv \in [Gos -> Seq(Word)]
      /\ recv' = [recv EXCEPT ![g] = Drop(@, n)]
      /\ receiving' = [receiving EXCEPT ![g] = [receiving[g] EXCEPT !.pc = "loop", !.message_size = 0,
                                                  !.tcp_recv_data = SubSeq(w, 1, n)]]
  BY DEF RecvAgain, Step, IInv, TypeOK, ReceivesOK
<1>2. Counted(g) = n /\ w \in Seq(Word) /\ n \in 0 .. Len(w)
  BY <1>1, ChannelTyped DEF Counted
<1>3. /\ Framed(SubSeq(w, 1, n), Messages(K)) /\ Framed(Drop(w, n), Messages(K))
      /\ Len(w) <= DataSize /\ receiving[g].index \in Entries /\ K' = K
  BY <1>1, <1>2 DEF MessagesOK, SocketsOf
<1> HIDE DEF K, w, n
<1>4. recv'[g] = Drop(w, n)
  BY <1>1 DEF w
<1>5. /\ receiving'[g].pc = "loop" /\ receiving'[g].index = receiving[g].index
      /\ receiving'[g].tcp_recv_data = SubSeq(w, 1, n)
  BY <1>1 DEF Receive
<1>6. Counted(g)' = 0
  BY <1>5 DEF Counted
<1>7. Drop(w, n) \in Seq(Word) /\ Len(Drop(w, n)) = Len(w) - n
  BY <1>2, WordsLeft
<1>8. Len(Drop(w, n)) <= DataSize
  <2>1. Len(w) \in Nat /\ n \in Nat /\ DataSize \in Nat
    BY <1>2, SocketAssumption
  <2> QED
    BY <1>3, <1>7, <2>1
<1>9. SubSeq(recv'[g], 1, 0) = <<>> /\ Drop(recv'[g], 0) = recv'[g]
  BY <1>4, <1>7, NothingDropped
<1>10. /\ Len(recv'[g]) <= DataSize
       /\ Framed(SubSeq(recv'[g], 1, Counted(g)'), Messages(K'))
       /\ Framed(Drop(recv'[g], Counted(g)'), Messages(K'))
       /\ receiving'[g].pc # "app" => receiving'[g].index \in Entries
       /\ receiving'[g].pc = "loop" => Framed(receiving'[g].tcp_recv_data, Messages(K'))
  BY <1>3, <1>4, <1>5, <1>6, <1>8, <1>9, NothingFramed
<1> QED
  BY <1>10 DEF MessagesOK, K

\* The rounds of the loop, and the return.
LEMMA RoundTakes ==
  ASSUME IInv, NEW g \in Gos, MessagesOK(g), recv' = recv, SocketsOf(g)' = SocketsOf(g),
         receiving[g].pc # "again", NEW r, Step(g, r),
         \/ r.pc = "app"
         \/ /\ receiving[g].pc = "loop" /\ receiving[g].tcp_recv_data # <<>>
            /\ r.pc = "loop" /\ r.index \in Entries
            /\ r.tcp_recv_data = NextMessage(receiving[g])
  PROVE  MessagesOK(g)'
<1> DEFINE w == receiving[g].tcp_recv_data
           K == SocketsOf(g)
<1>1. receiving'[g] = r /\ r.pc # "again"
  BY DEF Step, IInv, ReceivesOK
<1>2. Counted(g)' = Counted(g)
  BY <1>1 DEF Counted
<1>3. r.pc = "loop" => Framed(r.tcp_recv_data, Messages(K)) /\ r.index \in Entries
  <2> SUFFICES ASSUME r.pc = "loop"
               PROVE  Framed(r.tcp_recv_data, Messages(K)) /\ r.index \in Entries
    OBVIOUS
  <2>1. w \in Seq(Word) /\ w # <<>> /\ Framed(w, Messages(K))
    BY ChannelTyped DEF MessagesOK
  <2>2. r.tcp_recv_data = Drop(w, Header + w[3])
    BY DEF NextMessage, dlength
  <2> HIDE DEF w, K
  <2>3. Framed(Drop(w, Header + w[3]), Messages(K))
    BY <2>1, FirstMessage
  <2> QED
    BY <2>2, <2>3
<1>4. r.pc = "app" \/ r.pc = "loop"
  OBVIOUS
<1> QED
  BY <1>1, <1>2, <1>3, <1>4 DEF MessagesOK

\* A guest that is in no receive before and after.
LEMMA NoReceive ==
  ASSUME IInv, NEW g \in Gos, MessagesOK(g), SocketsOf(g) \subseteq SocketsOf(g)',
         recv'[g] = recv[g], receiving[g].pc = "app", receiving'[g].pc = "app"
  PROVE  MessagesOK(g)'
<1> DEFINE w == recv[g]
           M == Messages(SocketsOf(g))
           N == Messages(SocketsOf(g)')
<1>1. w \in Seq(Word) /\ Counted(g) = 0 /\ Counted(g)' = 0
  BY ChannelTyped DEF Counted
<1>2. M \subseteq N
  BY MoreMessages
<1>3. Drop(w, 0) = w /\ SubSeq(w, 1, 0) = <<>>
  BY <1>1, NothingDropped
<1>4. Framed(w, M) /\ Len(w) <= DataSize
  BY <1>1, <1>3 DEF MessagesOK
<1> HIDE DEF w, M, N
<1>5. Framed(w, N)
  BY <1>1, <1>2, <1>4, FramedMore
<1>6. /\ Len(w) <= DataSize /\ Framed(SubSeq(w, 1, 0), N) /\ Framed(Drop(w, 0), N)
  BY <1>3, <1>4, <1>5, NothingFramed
<1> QED
  BY <1>1, <1>6 DEF MessagesOK, w, N

LEMMA GuestRounds ==
  ASSUME IInv, FramesOK, UncutOK, NEW g \in Gos, Guest(g)
  PROVE  UncutOK'
<1>1. /\ active_ports \in [Gos -> [Entries -> Entry]]
      /\ active_ports' \in [Gos -> [Entries -> Entry]]
      /\ receiving \in [Gos -> Receive] /\ recv \in [Gos -> Seq(Word)]
      /\ cut \subseteq cut' /\ (g \notin cut' => MessagesOK(g))
  <2>1. cut' \in {cut, cut \cup {g}}
    BY CutGrows DEF Guest
  <2>2. cut \subseteq cut' /\ (g \notin cut' => MessagesOK(g))
    BY <2>1 DEF UncutOK
  <2> QED
    BY <2>2, GuestStep DEF IInv, TypeOK, ReceivesOK
<1>2. ServersOK'
  BY DEF Guest, server, tables, UncutOK, ServersOK
<1>3. \A sockid \in Nat \ {0} : Opens(g, sockid) => EntriesInOrder'
  BY OrderKept DEF UncutOK
<1>4. ASSUME \A h \in Gos, i \in Entries : active_ports'[h][i].sock_id = active_ports[h][i].sock_id
      PROVE  EntriesInOrder' /\ \A h \in Gos : SocketsOf(h)' = SocketsOf(h)
  <2>1. EntriesInOrder'
    BY <1>4, OrderKept DEF UncutOK
  <2> QED
    BY <1>4, <2>1 DEF SocketsOf
<1>5. ASSUME \A h \in Gos : SocketsOf(h) \subseteq SocketsOf(h)', EntriesInOrder',
             \A h \in Gos \ {g} : recv'[h] = recv[h] /\ receiving'[h] = receiving[h],
             g \notin cut' => MessagesOK(g)'
      PROVE  UncutOK'
  <2>1. ASSUME NEW h \in Gos \ {g}, h \notin cut'
        PROVE  MessagesOK(h)'
    <3>1. MessagesOK(h)
      BY <1>1, <2>1 DEF UncutOK
    <3> QED
      BY <1>5, <3>1, ChannelKept
  <2>2. \A h \in (Gos \ cut)' : MessagesOK(h)'
    BY <1>5, <2>1
  <2> QED
    BY <1>2, <1>5, <2>2 DEF UncutOK
<1>6. ASSUME NEW sockid \in Nat \ {0}, Opens(g, sockid), receiving[g].pc = "app",
             UNCHANGED <<recv, receiving>>
      PROVE  UncutOK'
  <2>1. \A h \in Gos : SocketsOf(h) \subseteq SocketsOf(h)'
    BY <1>6, SocketAdded
  <2>2. g \notin cut' => MessagesOK(g)'
    BY <1>1, <1>6, <2>1, NoReceive
  <2> QED
    BY <1>3, <1>5, <1>6, <2>1, <2>2
<1>7. ASSUME NEW port \in Ports, sys_sock_listen(g, port)
      PROVE  UncutOK'
  <2>1. port \in Nat \ {0}
    BY SocketAssumption
  <2> QED
    BY <1>6, <1>7, <2>1 DEF sys_sock_listen
<1>8. ASSUME sys_sock_connect(g)
      PROVE  UncutOK'
  <2>1. spark_sockid[g] \in Nat \ {0}
    BY DEF IInv, TypeOK, FramesOK
  <2> QED
    BY <1>6, <1>8, <2>1 DEF sys_sock_connect
<1>9. ASSUME NEW i \in InUse(g), sys_sock_tcp_send(g, i)
      PROVE  UncutOK'
  <2>1. UNCHANGED <<active_ports, recv, receiving>> /\ receiving[g].pc = "app"
    BY <1>9 DEF sys_sock_tcp_send
  <2>2. EntriesInOrder' /\ \A h \in Gos : SocketsOf(h)' = SocketsOf(h)
    BY <1>4, <2>1
  <2>3. g \notin cut' => MessagesOK(g)'
    BY <1>1, <2>1, <2>2, NoReceive
  <2> QED
    BY <1>5, <2>1, <2>2, <2>3
<1>10. ASSUME NEW r, Step(g, r)
       PROVE  receiving'[g] = r /\ \A h \in Gos \ {g} : receiving'[h] = receiving[h]
  BY <1>1, <1>10 DEF Step
<1>11. ASSUME NEW i \in InUse(g), RecvKept(g, i)
       PROVE  UncutOK'
  <2>1. i \in Entries
    BY DEF InUse
  <2>2. active_ports' = [active_ports EXCEPT ![g][i].kept = KeptAfter(active_ports[g][i].kept)]
    BY <1>11 DEF RecvKept
  <2>3. \A h \in Gos, j \in Entries : active_ports'[h][j].sock_id = active_ports[h][j].sock_id
    BY <1>1, <2>1, <2>2, SocketsSame
  <2>4. EntriesInOrder' /\ \A h \in Gos : SocketsOf(h)' = SocketsOf(h)
    BY <1>4, <2>3
  <2>5. recv' = recv /\ receiving[g].pc = "app" /\ Step(g, Idle) /\ Idle.pc = "app"
    BY <1>11 DEF RecvKept, Hands, channels, Idle
  <2>6. g \notin cut' => MessagesOK(g)'
    BY <1>1, <1>10, <2>4, <2>5, NoReceive
  <2> QED
    BY <1>5, <1>10, <2>4, <2>5, <2>6
<1>12. ASSUME NEW i \in InUse(g), NEW size \in RecvSizes[g], RecvFirst(g, i, size)
       PROVE  UncutOK'
  <2>1. i \in Entries
    BY DEF InUse
  <2>2. active_ports' = active_ports
    BY <1>12 DEF RecvFirst
  <2>3. EntriesInOrder' /\ \A h \in Gos : SocketsOf(h)' = SocketsOf(h)
    BY <1>4, <2>2
  <2>4. \A h \in Gos \ {g} : recv'[h] = recv[h]
    BY <1>1, <1>12 DEF RecvFirst
  <2>5. \A h \in Gos \ {g} : receiving'[h] = receiving[h]
    BY <1>10, <1>12 DEF RecvFirst
  <2>6. g \notin cut' => MessagesOK(g)'
    BY <1>1, <1>12, <2>1, FirstTakes
  <2> QED
    BY <1>5, <2>3, <2>4, <2>5, <2>6
<1>13. ASSUME RecvAgain(g)
       PROVE  UncutOK'
  <2>1. active_ports' = active_ports
    BY <1>13 DEF RecvAgain
  <2>2. EntriesInOrder' /\ \A h \in Gos : SocketsOf(h)' = SocketsOf(h)
    BY <1>4, <2>1
  <2>3. \A h \in Gos \ {g} : recv'[h] = recv[h]
    BY <1>1, <1>13 DEF RecvAgain
  <2>4. \A h \in Gos \ {g} : receiving'[h] = receiving[h]
    BY <1>10, <1>13 DEF RecvAgain
  <2>5. g \notin cut' => MessagesOK(g)'
    BY <1>1, <1>13, AgainTakes
  <2> QED
    BY <1>5, <2>2, <2>3, <2>4, <2>5
<1>14. ASSUME NEW r, Step(g, r), recv' = recv, receiving[g].pc = "loop",
              \A h \in Gos, i \in Entries : active_ports'[h][i].sock_id = active_ports[h][i].sock_id,
              \/ r.pc = "app"
              \/ /\ receiving[g].tcp_recv_data # <<>>
                 /\ r.pc = "loop" /\ r.index \in Entries
                 /\ r.tcp_recv_data = NextMessage(receiving[g])
       PROVE  UncutOK'
  <2>1. EntriesInOrder' /\ \A h \in Gos : SocketsOf(h)' = SocketsOf(h)
    BY <1>4, <1>14
  <2>2. g \notin cut' => MessagesOK(g)'
    BY <1>1, <1>14, <2>1, RoundTakes
  <2> QED
    BY <1>5, <1>10, <1>14, <2>1, <2>2
<1>15. ASSUME RecvOwn(g)
       PROVE  UncutOK'
  <2> DEFINE r == receiving[g]
             q == [r EXCEPT !.buffer = packet(r), !.flag_copied = TRUE,
                            !.buffer_bytes = dlength(r), !.tcp_recv_data = NextMessage(r)]
  <2>1. /\ r.pc = "loop" /\ r.tcp_recv_data # <<>> /\ r.index \in Entries /\ r \in Receive
        /\ Step(g, q) /\ recv' = recv /\ active_ports' = active_ports
    BY <1>1, <1>15 DEF RecvOwn, Whole, channels
  <2>2. q.pc = "loop" /\ q.index \in Entries /\ q.tcp_recv_data = NextMessage(r)
    BY <2>1 DEF Receive
  <2> HIDE DEF q
  <2> QED
    BY <1>14, <2>1, <2>2
<1>16. ASSUME RecvReturn(g)
       PROVE  UncutOK'
  <2>1. /\ Step(g, Idle) /\ Idle.pc = "app" /\ receiving[g].pc = "loop"
        /\ recv' = recv /\ active_ports' = active_ports
    BY <1>16 DEF RecvReturn, Hands, Idle, channels
  <2> QED
    BY <1>14, <2>1
<1>17. ASSUME RecvOther(g)
       PROVE  UncutOK'
  <2> DEFINE r == receiving[g]
             to == FirstOf(Targets(g, r))
             old == Kept(g, r.index)
             size == IF old = <<>> THEN 0 ELSE Head(old).length
             flag == r.flag_copied \/ old # <<>>
             q == [r EXCEPT !.buffer = IF old = <<>> THEN @ ELSE Head(old).packet,
                            !.flag_copied = flag, !.size = size,
                            !.buffer_bytes = IF flag THEN size ELSE 0,
                            !.index = to, !.tcp_recv_data = NextMessage(r)]
  <2>1. /\ r.pc = "loop" /\ r.tcp_recv_data # <<>> /\ to \in Entries /\ r \in Receive
        /\ Step(g, q) /\ recv' = recv
    BY <1>1, <1>17 DEF RecvOther, InUse, channels
  <2>2. q.pc = "loop" /\ q.index = to /\ q.tcp_recv_data = NextMessage(r)
    <3> HIDE DEF to, old, size, flag
    <3> QED
      BY <2>1 DEF Receive
  <2>3. \A h \in Gos, i \in Entries : active_ports'[h][i].sock_id = active_ports[h][i].sock_id
    BY <1>1, <1>17, OthersKept
  <2> HIDE DEF q, to
  <2> QED
    BY <1>14, <2>1, <2>2, <2>3
<1> QED
  BY <1>7, <1>8, <1>9, <1>11, <1>12, <1>13, <1>15, <1>16, <1>17 DEF Guest, NextApp, Receiving

LEMMA ServersKept ==
  ASSUME IInv, ServersOK,
         \A s \in ListenSlots : \/ /\ listenports'[s].gos_id = listenports[s].gos_id
                                   /\ listenports'[s].sock_id = listenports[s].sock_id
                                   /\ listenports'[s].port = listenports[s].port
                                \/ listenports'[s].sock_id = listenports'[s].port
  PROVE  ServersOK'
BY DEF ServersOK

LEMMA Task2Rounds ==
  ASSUME IInv, UncutOK, Task2, UNCHANGED app
  PROVE  UncutOK'
<1>1. UNCHANGED <<recv, receiving, active_ports, cut>>
  BY DEF Task2, app
<1>2. \A g \in Gos : SocketsOf(g)' = SocketsOf(g)
  BY <1>1 DEF SocketsOf
<1>3. \A g \in Gos \ cut : MessagesOK(g)'
  BY <1>1, <1>2, ChannelKept DEF UncutOK
<1>4. EntriesInOrder'
  BY <1>1 DEF UncutOK, EntriesInOrder
<1>5. listenports \in [ListenSlots -> UipSlot]
  BY DEF IInv, TypeOK
<1>6. ASSUME NEW port, NEW g, uip_listen(port, g)
      PROVE  ServersOK'
  <2> DEFINE s == LoopEnd(FreePorts \cup Foreign(port, g), UIP_LISTENPORTS)
             new == Slot(port, g, port)
  <2>1. new.sock_id = new.port
    BY DEF Slot
  <2>2. listenports' = listenports \/ listenports' = [listenports EXCEPT ![s] = new]
    BY <1>6 DEF uip_listen
  <2> HIDE DEF s, new
  <2>3. \A t \in ListenSlots : listenports'[t] = listenports[t] \/ listenports'[t] = new
    BY <1>5, <2>2
  <2> QED
    BY <2>1, <2>3, ServersKept DEF UncutOK
<1>7. ASSUME NEW g, NEW sockid, NEW number \in Nat, uip_tcp_send(g, sockid, number)
      PROVE  ServersOK'
  <2> DEFINE s == IF ListensAs(g, sockid) # {} THEN FirstOf(ListensAs(g, sockid))
                  ELSE LoopEnd(ConnectsAs(g, sockid), UIP_CONNS)
  <2>1. \A slot \in UipSlot : /\ Queued(slot, number).gos_id = slot.gos_id
                              /\ Queued(slot, number).sock_id = slot.sock_id
                              /\ Queued(slot, number).port = slot.port
    BY QueuedSlot
  <2>2. \/ listenports' = listenports
        \/ listenports' = [listenports EXCEPT ![s] = Queued(listenports[s], number)]
    BY <1>7 DEF uip_tcp_send
  <2> HIDE DEF s
  <2>3. \A t \in ListenSlots : /\ listenports'[t].gos_id = listenports[t].gos_id
                               /\ listenports'[t].sock_id = listenports[t].sock_id
                               /\ listenports'[t].port = listenports[t].port
    BY <1>5, <2>1, <2>2
  <2> QED
    BY <2>3, ServersKept DEF UncutOK
<1>8. UNCHANGED listenports => ServersOK'
  BY DEF UncutOK, ServersOK
<1>9. ServersOK'
  <2>1. ASSUME NEW g \in Gos, Task2Serve(g)
        PROVE  ServersOK'
    <3> DEFINE words == call[g]
    <3>1. CASE uip_listen(words[2], words[1])
      BY <1>6, <3>1
    <3>2. CASE uip_connect(words[1], words[4])
      BY <1>8, <3>2 DEF uip_connect
    <3>3. CASE /\ task2.callid = TCP_SEND
               /\ IF words[3] > 0 THEN uip_tcp_send(words[1], words[4], words[5])
                                  ELSE UNCHANGED tables
      <4>1. CASE ~(words[3] > 0)
        BY <1>8, <3>3, <4>1 DEF tables
      <4>2. CASE words[3] > 0
        <5>1. words[5] \in Nat
          BY <2>1, <3>3, <4>2, NumberThere
        <5> QED
          BY <1>7, <3>3, <4>2, <5>1
      <4> QED
        BY <4>1, <4>2
    <3> QED
      BY <2>1, <3>1, <3>2, <3>3 DEF Task2Serve
  <2>2. ASSUME NEW g \in Gos, Task2CallId(g)
        PROVE  ServersOK'
    BY <1>8, <2>2 DEF Task2CallId, tables
  <2>3. CASE Task2Begin
    BY <1>8, <2>3 DEF Task2Begin, tables
  <2> QED
    BY <2>1, <2>2, <2>3 DEF Task2
<1> QED
  BY <1>1, <1>3, <1>4, <1>9 DEF UncutOK

LEMMA Task1Rounds ==
  ASSUME IInv, FramesOK, UncutOK, Task1, UNCHANGED app
  PROVE  UncutOK'
<1>1. /\ UNCHANGED <<receiving, active_ports, cut>>
      /\ recv \in [Gos -> Seq(Word)]
      /\ listenports \in [ListenSlots -> UipSlot] /\ clientports \in [ClientSlots -> UipSlot]
  BY DEF app, IInv, TypeOK
<1>2. \A g \in Gos : SocketsOf(g)' = SocketsOf(g)
  BY <1>1 DEF SocketsOf
<1>3. EntriesInOrder'
  BY <1>1 DEF UncutOK, EntriesInOrder
<1>4. ServersOK'
  <2>1. \/ listenports' = listenports
        \/ \E s \in ListenSlots : listenports' = [listenports EXCEPT ![s] = Answered(@)]
    BY AnsweredOnly
  <2>2. \A slot \in UipSlot : /\ Answered(slot).gos_id = slot.gos_id
                              /\ Answered(slot).sock_id = slot.sock_id
                              /\ Answered(slot).port = slot.port
    BY AnsweredSlot
  <2>3. \A t \in ListenSlots : /\ listenports'[t].gos_id = listenports[t].gos_id
                               /\ listenports'[t].sock_id = listenports[t].sock_id
                               /\ listenports'[t].port = listenports[t].port
    BY <1>1, <2>1, <2>2
  <2> QED
    BY <2>3, ServersKept DEF UncutOK
<1>5. ASSUME UNCHANGED recv
      PROVE  \A g \in Gos \ cut : MessagesOK(g)'
  BY <1>1, <1>2, <1>5, ChannelKept DEF UncutOK
<1>6. ASSUME NEW g \in Gos, NEW f, Came(f, arrived), NEW sockid \in Nat,
             f.port \in SocketsOf(g) \/ sockid \in SocketsOf(g),
             SendsTo(g, f.port, f.length, sockid, f.packet)
      PROVE  \A h \in Gos \ cut : MessagesOK(h)'
  <2>1. f.port \in Nat /\ f.length \in Lengths /\ f.packet \in Nat
    BY <1>6 DEF Came
  <2>2. ASSUME g \notin cut
        PROVE  MessagesOK(g)'
    <3> DEFINE port == f.port
               length == f.length
               number == f.packet
    <3>1. /\ port \in Nat /\ length \in Lengths /\ number \in Nat
          /\ port \in SocketsOf(g) \/ sockid \in SocketsOf(g)
          /\ SendsTo(g, port, length, sockid, number)
          /\ MessagesOK(g)
      BY <1>6, <2>1, <2>2 DEF UncutOK
    <3> HIDE DEF port, length, number
    <3> QED
      BY <1>1, <3>1, MessageSent
  <2>3. \A h \in Gos \ {g} : recv'[h] = recv[h]
    BY <1>1, <1>6 DEF SendsTo
  <2>4. \A h \in (Gos \ cut) \ {g} : MessagesOK(h)'
    BY <1>1, <1>2, <2>3, ChannelKept DEF UncutOK
  <2> QED
    BY <2>2, <2>4
<1>7. CASE Between /\ InputListen
  <2> DEFINE s == FirstOf(ListensOn(frame.port))
             slot == listenports[s]
  <2>1. /\ rhine_receive /\ ~isempty /\ ~Dropped /\ ListensOn(frame.port) # {}
        /\ UNCHANGED recv \/ (slot.gos_id \in Gos /\ SendsTo(slot.gos_id, frame.port, frame.length, 0, frame.packet))
    BY <1>7 DEF InputListen, rhine_receive
  <2>2. CASE UNCHANGED recv
    BY <1>1, <1>3, <1>4, <1>5, <2>2 DEF UncutOK
  <2>3. CASE slot.gos_id \in Gos /\ SendsTo(slot.gos_id, frame.port, frame.length, 0, frame.packet)
    <3>1. Came(frame, arrived)
      BY <2>1, FrameAtFront DEF frame
    <3>2. s \in ListenSlots /\ slot.port = frame.port
      <4>1. ListensOn(frame.port) \in SUBSET Nat
        BY DEF ListensOn, ListenSlots
      <4>2. s \in ListensOn(frame.port)
        BY <2>1, <4>1, FirstOfSet
      <4> QED
        BY <4>2 DEF ListensOn
    <3>3. slot.sock_id \in SocketsOf(slot.gos_id) /\ slot.sock_id = slot.port
      BY <2>3, <3>2 DEF FramesOK, SlotKnown, UncutOK, ServersOK
    <3>4. frame.port \in SocketsOf(slot.gos_id)
      BY <3>2, <3>3
    <3> HIDE DEF slot
    <3>5. \A h \in Gos \ cut : MessagesOK(h)'
      BY <1>6, <2>3, <3>1, <3>4
    <3> QED
      BY <1>1, <1>3, <1>4, <3>5 DEF UncutOK
  <2> QED
    BY <2>1, <2>2, <2>3
<1>8. CASE Task1Found
  <2> DEFINE slot == clientports[c]
             f == task1.packet
  <2>1. /\ c \in ClientSlots /\ slot.gos_id \in Gos /\ task1.pc = "found"
        /\ SendsTo(slot.gos_id, f.port, f.length, slot.sock_id, f.packet)
    BY <1>8 DEF Task1Found
  <2>2. Came(f, arrived) /\ slot.sock_id \in Nat
    BY <1>1, <2>1 DEF IInv, FoundOK, UipSlot
  <2>3. slot.sock_id \in SocketsOf(slot.gos_id)
    BY <2>1 DEF FramesOK, SlotKnown
  <2> HIDE DEF slot, f
  <2>4. \A h \in Gos \ cut : MessagesOK(h)'
    BY <1>6, <2>1, <2>2, <2>3
  <2> QED
    BY <1>1, <1>3, <1>4, <2>4 DEF UncutOK
<1>9. CASE UNCHANGED recv
  BY <1>1, <1>3, <1>4, <1>5, <1>9 DEF UncutOK
<1> QED
  BY <1>7, <1>8, <1>9 DEF Task1, Input, Poll, InputDropped, InputClient

LEMMA RoundsInitially ==
  ASSUME Init
  PROVE  UncutOK
<1>1. /\ recv = [g \in Gos |-> <<>>]
      /\ receiving = [g \in Gos |-> Idle]
      /\ active_ports = [g \in Gos |-> [i \in Entries |-> NoSocket]]
      /\ listenports = [s \in ListenSlots |->
                          IF s = 1 THEN Slot(CommandPort, 0, CommandPort) ELSE Unused]
  BY DEF Init, InitApp, InitServer
<1>2. ServersOK
  <2>1. \A s \in ListenSlots : listenports[s].gos_id \in {0, 65535}
    BY <1>1 DEF Slot, Unused
  <2> QED
    BY <2>1, SocketAssumption DEF ServersOK
<1>3. EntriesInOrder
  BY <1>1 DEF EntriesInOrder, NoSocket
<1>4. ASSUME NEW g \in Gos
      PROVE  MessagesOK(g)
  <2>1. recv[g] = <<>> /\ receiving[g].pc = "app" /\ Counted(g) = 0
    BY <1>1 DEF Idle, Counted
  <2>2. <<>> \in Seq(Word) /\ Len(<<>>) <= DataSize
    BY EmptySeq, SocketAssumption
  <2>3. SubSeq(<<>>, 1, 0) = <<>> /\ Drop(<<>>, 0) = <<>>
    BY <2>2, NothingDropped
  <2> QED
    BY <2>1, <2>2, <2>3, NothingFramed DEF MessagesOK
<1> QED
  BY <1>2, <1>3, <1>4 DEF UncutOK

LEMMA StepKeepsRounds ==
  ASSUME IInv, FramesOK, UncutOK, [Next]_vars
  PROVE  UncutOK'
<1>1. CASE Partition
  BY <1>1, Task1Rounds, Task2Rounds DEF Partition
<1>2. ASSUME NEW g \in Gos, Guest(g)
      PROVE  UncutOK'
  BY <1>2, GuestRounds
<1>3. CASE UNCHANGED vars
  <2>1. UNCHANGED <<recv, receiving, listenports, active_ports, cut>>
    BY <1>3 DEF vars, channels, app, server, tables
  <2>2. \A h \in Gos : SocketsOf(h)' = SocketsOf(h)
    BY <2>1 DEF SocketsOf
  <2>3. \A h \in Gos \ cut : MessagesOK(h)'
    BY <2>1, <2>2, ChannelKept DEF UncutOK
  <2> QED
    BY <2>1, <2>3 DEF UncutOK, EntriesInOrder, ServersOK
<1> QED
  BY <1>1, <1>2, <1>3 DEF Next

LEMMA RoundHasAll ==
  ASSUME IInv, UncutOK, NEW g \in Gos \ cut,
         receiving[g].pc = "loop", receiving[g].tcp_recv_data # <<>>
  PROVE  RoundSound(g)
<1> DEFINE r == receiving[g]
           w == r.tcp_recv_data
           K == SocketsOf(g)
<1>1. w \in Seq(Word) /\ w # <<>> /\ Framed(w, Messages(K)) /\ r.index \in Entries
  BY ChannelTyped DEF UncutOK, MessagesOK
<1>2. /\ w[3] \in Lengths /\ Header + w[3] <= Len(w)
      /\ w[2] \in K \/ w[4] \in K
  <2> HIDE DEF w, K
  <2> QED
    BY <1>1, FirstMessage
<1>3. Whole(r)
  <2>1. w[3] \in Nat \ {0} /\ Len(w) \in Nat
    <3>1. w[3] \in Nat \ {0}
      BY <1>2, ServerAssumption
    <3>2. Len(w) \in Nat
      BY <1>1
    <3> QED
      BY <3>1, <3>2
  <2>2. Len(w) > Header /\ Len(w) >= Header + w[3]
    BY <1>2, <2>1 DEF Header
  <2> QED
    BY <1>1, <2>2 DEF Whole, dlength
<1>4. Targets(g, r) # {} /\ FirstOf(Targets(g, r)) \in InUse(g)
  <2>1. PICK i \in Entries : active_ports[g][i].sock_id # 0 /\ active_ports[g][i].sock_id \in {w[2], w[4]}
    BY <1>2 DEF SocketsOf
  <2>2. i \in Targets(g, r) /\ Targets(g, r) \in SUBSET Nat
    BY <2>1 DEF Targets, dport, dsockid, Entries
  <2>3. FirstOf(Targets(g, r)) \in Targets(g, r) /\ FirstOf(Targets(g, r)) <= i
    BY <2>2, FirstOfSet
  <2>4. FirstOf(Targets(g, r)) \in Entries
    BY <2>3 DEF Targets
  <2>5. active_ports[g][FirstOf(Targets(g, r))].sock_id # 0
    BY <2>1, <2>3, <2>4 DEF UncutOK, EntriesInOrder
  <2> QED
    BY <2>2, <2>4, <2>5 DEF InUse
<1> QED
  BY <1>3, <1>4 DEF RoundSound

\* As long as no receive of a guest has ended inside a message, its receive
\* channel is cut into whole messages for its sockets, and so are the words
\* counted by a short receive and those in the loop.
THEOREM RoundsStay ==
  ASSUME Senders \subseteq {1}
  PROVE  Spec => []UncutOK
<1>1. IInv /\ FramesOK /\ UncutOK /\ [Next]_vars => UncutOK'
  BY StepKeepsRounds
<1> QED
  BY RoundsInitially, <1>1, Invariance, FramesStay, PTL DEF Spec

\* If only the first guest sends, the loop of sys_sock_tcp_recv_k
\* (systemcall.c:208) only sees whole messages and finds an opened entry for
\* each, for all sizes asked for and all lengths of packets and however the two
\* receives and the partition's sends are interleaved, up to a receive of the
\* guest that ends inside a message.
THEOREM RoundsAreSound ==
  ASSUME Senders \subseteq {1}
  PROVE  Spec => []RoundsSound
<1>1. IInv /\ UncutOK => RoundsSound
  BY RoundHasAll DEF RoundsSound, LoopSound
<1> QED
  BY <1>1, Invariance, RoundsStay, PTL

\* A guest whose receives ask for all that can be in the channel, or for the one
\* length that packets have.
TakesWhole(g) ==
  \A size \in RecvSizes[g] : DataSize <= size + Header \/ Lengths = {size}

\* All the words there are end a message.
LEMMA AllEnds ==
  ASSUME NEW K, NEW w \in Seq(Word), Framed(w, Messages(K))
  PROVE  EndsMessage(w, Len(w))
<1>1. PICK C \in SUBSET (0 .. Len(w)) : Cuts(C, Len(w), Pieces(w, Messages(K)))
  BY DEF Framed, Cut
<1> SUFFICES ASSUME NEW B \in SUBSET (0 .. Len(w)), 0 \in B, Len(w) \notin B,
                    \A b \in B : b + 3 <= Len(w) /\ b + Header + w[b + 3] <= Len(w)
                                   => b + Header + w[b + 3] \in B
             PROVE  FALSE
  BY DEF EndsMessage
<1> DEFINE S == {k \in 0 .. Len(w) : Len(w) - k \in B \cap C}
<1>2. Len(w) \in Nat
  OBVIOUS
<1>3. Len(w) \in S
  BY <1>1, <1>2 DEF Cuts
<1>4. PICK k \in S : \A j \in S : k <= j
  <2>1. S \in SUBSET Nat /\ S # {}
    BY <1>3
  <2> HIDE DEF S
  <2> QED
    BY <2>1, FirstOfSet
<1>5. PICK b \in B \cap C : b = Len(w) - k
  BY <1>4
<1>6. PICK e \in C : b < e /\ <<b, e>> \in Pieces(w, Messages(K))
  BY <1>1, <1>5 DEF Cuts
<1>7. Part(w, b, e) \in Messages(K)
  BY <1>6 DEF Pieces, Part
<1> DEFINE v == Drop(w, b)
<1>8. /\ b \in 0 .. Len(w) /\ b \in Nat /\ e \in 0 .. Len(w) /\ e - b \in 1 .. Len(w) - b
  BY <1>2, <1>6
<1>9. v \in Seq(Word) /\ Len(v) = Len(w) - b /\ \A j \in 1 .. Len(w) - b : v[j] = w[j + b]
  BY <1>8, WordsLeft
<1>10. SubSeq(v, 1, e - b) = Part(w, b, e)
  <2>1. 0 \in 0 .. Len(w) - b /\ 0 < e - b /\ e - b \in 0 .. Len(w) - b /\ (e - b) + b = e /\ 0 + b = b
    BY <1>8
  <2>2. Part(v, 0, e - b) = Part(w, 0 + b, (e - b) + b)
    BY <1>8, <2>1, PartLeft
  <2> QED
    BY <2>1, <2>2 DEF Part
<1> HIDE DEF v, S
<1>11. e - b = Header + v[3] /\ v[3] \in Nat
  <2> DEFINE n == e - b
  <2>1. n \in 1 .. Len(v)
    BY <1>8, <1>9
  <2>2. SubSeq(v, 1, n) \in Messages(K)
    BY <1>7, <1>10
  <2> HIDE DEF n
  <2>3. n = Header + v[3] /\ v[3] \in Nat
    BY <1>9, <2>1, <2>2, HeadMessage
  <2> QED
    BY <2>3 DEF n
<1>12. b + 3 <= Len(w) /\ v[3] = w[b + 3]
  <2>1. 3 \in 1 .. Len(w) - b /\ 3 + b = b + 3
    BY <1>2, <1>8, <1>11 DEF Header
  <2> QED
    BY <1>2, <1>8, <1>9, <2>1
<1>13. e = b + Header + w[b + 3]
  <2>1. e - b = Header + w[b + 3] /\ w[b + 3] \in Nat
    BY <1>11, <1>12
  <2> DEFINE x == w[b + 3]
  <2> HIDE DEF x
  <2>2. e - b = Header + x /\ x \in Nat
    BY <2>1 DEF x
  <2>3. e \in Nat /\ b \in Nat
    BY <1>2, <1>8
  <2>4. e = b + Header + x
    BY <2>2, <2>3 DEF Header
  <2> QED
    BY <2>4 DEF x
<1>14. e \in B
  BY <1>8, <1>12, <1>13
<1>15. Len(w) - e \in S /\ Len(w) - e < k
  <2>1. Len(w) - (Len(w) - e) = e /\ Len(w) - e \in 0 .. Len(w)
    BY <1>2, <1>8
  <2>2. Len(w) - e < k
    BY <1>2, <1>4, <1>5, <1>6, <1>8 DEF S
  <2> QED
    BY <1>6, <1>14, <2>1, <2>2 DEF S
<1> QED
  BY <1>2, <1>4, <1>8, <1>15 DEF S

LEMMA FirstEnds ==
  ASSUME NEW w \in Seq(Word), NEW n, n = Header + w[3], n <= Len(w), w[3] \in Nat
  PROVE  EndsMessage(w, n)
<1> SUFFICES ASSUME NEW B \in SUBSET (0 .. Len(w)), 0 \in B,
                    \A b \in B : b + 3 <= Len(w) /\ b + Header + w[b + 3] <= Len(w)
                                   => b + Header + w[b + 3] \in B
             PROVE  n \in B
  BY DEF EndsMessage
<1>1. 0 + 3 <= Len(w) /\ 0 + 3 = 3 /\ 0 + Header + w[3] = n
  BY DEF Header
<1> QED
  BY <1>1

\* A guest that only asks for all that can be in the channel, or for the one
\* length there is, never has a receive that ends inside a message: the shipped
\* task, which asks for 100 of 512 bytes (periodic_task_1.c:31), is no such guest.
THEOREM WholeNeverCut ==
  ASSUME Senders \subseteq {1}
  PROVE  Spec => [](\A g \in Gos : TakesWhole(g) => g \notin cut)
<1> DEFINE Inv == \A g \in Gos : TakesWhole(g) => g \notin cut
<1>1. Init => Inv
  BY DEF Init, InitApp
<1>2. ASSUME IInv, UncutOK, Inv, [Next]_vars, NEW g \in Gos, TakesWhole(g)
      PROVE  g \notin cut'
  <2>1. g \notin cut
    BY <1>2
  <2>2. CASE cut' = cut
    BY <2>1, <2>2
  <2>3. ASSUME NEW h \in Gos, Guest(h), h # g
        PROVE  g \notin cut'
    BY <2>1, <2>3, CutGrows DEF Guest
  <2>4. ASSUME NEW i \in InUse(g), NEW size \in RecvSizes[g], RecvFirst(g, i, size)
        PROVE  g \notin cut'
    <3> DEFINE w == recv[g]
    <3>1. MessagesOK(g) /\ receiving[g].pc = "app" /\ w # <<>> /\ w \in Seq(Word)
      BY <1>2, <2>1, <2>4, ChannelTyped DEF UncutOK, RecvFirst
    <3>2. Len(w) <= DataSize /\ Framed(w, Messages(SocketsOf(g)))
      BY <3>1, NothingDropped DEF MessagesOK, Counted
    <3>3. /\ \/ Len(w) >= size + Header /\ cut' = IF EndsMessage(w, size + Header) THEN cut ELSE cut \cup {g}
             \/ cut' = cut
      BY <2>4 DEF RecvFirst, Wanted
    <3>4. size \in Nat /\ Len(w) \in Nat /\ DataSize \in Nat
      BY <3>1, SocketAssumption
    <3> HIDE DEF w
    <3>5. w[3] \in Lengths /\ w[3] \in Nat
      BY <3>1, <3>2, FirstMessage, ServerAssumption
    <3>6. Len(w) >= size + Header => EndsMessage(w, size + Header)
      <4> SUFFICES ASSUME Len(w) >= size + Header
                   PROVE  EndsMessage(w, size + Header)
        OBVIOUS
      <4>1. CASE DataSize <= size + Header
        <5>1. size + Header = Len(w)
          BY <3>2, <3>4, <4>1 DEF Header
        <5> QED
          BY <3>1, <3>2, <5>1, AllEnds
      <4>2. CASE Lengths = {size}
        <5>1. size + Header = Header + w[3] /\ Header + w[3] <= Len(w)
          BY <3>4, <3>5, <4>2 DEF Header
        <5> QED
          BY <3>1, <3>5, <5>1, FirstEnds
      <4> QED
        BY <1>2, <4>1, <4>2 DEF TakesWhole
    <3> QED
      BY <2>1, <3>3, <3>6
  <2>5. ASSUME Guest(g), ~ \E i \in InUse(g), size \in RecvSizes[g] : RecvFirst(g, i, size)
        PROVE  cut' = cut
    BY <2>5 DEF Guest, NextApp, sys_sock_listen, sys_sock_connect, sys_sock_tcp_send, RecvKept,
                Receiving, RecvAgain, RecvOwn, RecvOther, RecvReturn
  <2>6. Partition \/ UNCHANGED vars => cut' = cut
    BY DEF Partition, vars, app
  <2> QED
    BY <1>2, <2>2, <2>3, <2>4, <2>5, <2>6 DEF Next
<1>3. IInv /\ UncutOK /\ Inv /\ [Next]_vars => Inv'
  BY <1>2 DEF TakesWhole
<1> QED
  BY <1>1, <1>3, Invariance, RoundsStay, PTL DEF Spec
=============================================================================
