------------------------ MODULE ClientReceiveProofs ------------------------
(***************************************************************************)
(* Proofs about ClientReceive, for every size of the buffer, of a receive  *)
(* and of a packet with BufferSize >= ReadSize + 2 * MaxPacketSize, and    *)
(* for every stream of packets.                                            *)
(***************************************************************************)
EXTENDS ClientReceive, SequenceTheorems, TLAPS

\* Packets taken out of the buffer so far.
Frames == Len(handled) + Len(RecvPacketQueue)

\* The unread cells hold the bytes after the last packet taken, without a
\* gap, and there is room for one more packet behind them.
BufferInv ==
    /\ Frames <= Packets
    /\ arrived = cuts[Frames] + (WritePos - ReadPos)
    /\ \A i \in Cells : ReadPos <= i /\ i < WritePos =>
          PacketData[i] = cuts[Frames] + 1 + (i - ReadPos)
    /\ BufferSize - WritePos >= MaxPacketSize

IInv ==
    /\ TypeOK
    /\ RefusedOnlyLong
    /\ refused = 0 => BufferInv
    /\ FramesInOrder
    /\ DrainedBeforeReceive

\* What the assumption says of the stream of this behaviour.
LEMMA StreamFacts ==
    ASSUME TypeOK
    PROVE  /\ cuts \in [0..Packets -> Nat] /\ cuts[0] = 0
           /\ \A k \in 1..Packets : cuts[k] - cuts[k - 1] \in HeaderSize..MaxPacketSize
           /\ \A j, k \in 0..Packets : j < k => cuts[j] < cuts[k]
           /\ Total \in Nat
<1>1. cuts \in Streams
  BY DEF TypeOK
<1>2. /\ cuts \in [0..Packets -> Nat] /\ cuts[0] = 0
      /\ \A k \in 1..Packets : cuts[k] - cuts[k - 1] \in HeaderSize..MaxPacketSize
      /\ \A j, k \in 0..Packets : j < k => cuts[j] < cuts[k]
  BY <1>1, ReceiveAssumption
<1>3. Total \in Nat
  BY <1>2, ReceiveAssumption DEF Total
<1> QED BY <1>2, <1>3

\* The size of packet f + 1 of the stream.
LEMMA NextSize ==
    ASSUME TypeOK, NEW f \in Nat, f < Packets
    PROVE  /\ f + 1 \in 1..Packets /\ f \in 0..Packets
           /\ cuts[f] \in Nat /\ cuts[f + 1] \in Nat
           /\ cuts[f + 1] - cuts[f] >= HeaderSize
           /\ cuts[f + 1] - cuts[f] <= MaxPacketSize
<1>1. f + 1 \in 1..Packets /\ f \in 0..Packets /\ f + 1 \in 0..Packets /\ (f + 1) - 1 = f
  BY ReceiveAssumption
<1>2. cuts[f + 1] - cuts[(f + 1) - 1] \in HeaderSize..MaxPacketSize
  BY <1>1, StreamFacts
<1>3. cuts[f] \in Nat /\ cuts[f + 1] \in Nat
  BY <1>1, StreamFacts
<1> QED BY <1>1, <1>2, <1>3, ReceiveAssumption

\* While nothing was refused, the size read at ReadPos is the size of the next
\* packet of the stream.
LEMMA HeaderIsTrue ==
    ASSUME IInv, refused = 0, WritePos - ReadPos >= HeaderSize
    PROVE  /\ Frames + 1 \in 1..Packets
           /\ SizeAt(ReadPos) = {cuts[Frames + 1] - cuts[Frames]}
<1>1. /\ Frames \in Nat /\ Frames <= Packets
      /\ ReadPos \in Cells /\ ReadPos < WritePos
      /\ PacketData[ReadPos] = cuts[Frames] + 1
      /\ arrived > cuts[Frames] /\ arrived <= cuts[Packets]
  <2>1. Frames \in Nat /\ Frames <= Packets
    BY DEF IInv, TypeOK, BufferInv, Frames
  <2>2. cuts[Frames] \in Nat
    BY <2>1, StreamFacts, ReceiveAssumption DEF IInv
  <2>3. ReadPos \in Cells /\ ReadPos < WritePos /\ ReadPos \in Nat /\ WritePos \in Nat
    BY ReceiveAssumption DEF IInv, TypeOK, Cells
  <2>4. PacketData[ReadPos] = cuts[Frames] + 1 + (ReadPos - ReadPos)
    BY <2>3 DEF IInv, BufferInv
  <2>5. arrived = cuts[Frames] + (WritePos - ReadPos)
    BY DEF IInv, BufferInv
  <2>6. arrived <= cuts[Packets]
    BY StreamFacts DEF IInv, TypeOK, Total
  <2> QED BY <2>1, <2>2, <2>3, <2>4, <2>5, <2>6
<1>2. Frames # Packets
  <2>1. arrived \in Int /\ cuts[Packets] \in Int
    BY StreamFacts DEF IInv, TypeOK, Total
  <2> QED BY <1>1, <2>1
<1>3. Frames + 1 \in 1..Packets
  BY <1>1, <1>2, ReceiveAssumption
<1>4. \A j \in 1..Packets : PacketData[ReadPos] = cuts[j - 1] + 1 <=> j = Frames + 1
  <2>1. TAKE j \in 1..Packets
  <2>2. j - 1 \in 0..Packets /\ Frames \in 0..Packets
    BY <1>1, ReceiveAssumption
  <2>3. cuts[j - 1] \in Nat /\ cuts[Frames] \in Nat
    BY <2>2, StreamFacts DEF IInv
  <2>4. j - 1 < Frames => cuts[j - 1] < cuts[Frames]
    BY <2>2, StreamFacts DEF IInv
  <2>5. Frames < j - 1 => cuts[Frames] < cuts[j - 1]
    BY <2>2, StreamFacts DEF IInv
  <2> QED BY <1>1, <2>2, <2>3, <2>4, <2>5
<1>5. {j \in 1..Packets : PacketData[ReadPos] = cuts[j - 1] + 1} = {Frames + 1}
  BY <1>3, <1>4
<1>6. SizeAt(ReadPos) = {cuts[k] - cuts[k - 1] : k \in {Frames + 1}}
  BY <1>3, <1>4, <1>5 DEF SizeAt
<1>7. SizeAt(ReadPos) = {cuts[Frames + 1] - cuts[(Frames + 1) - 1]}
  BY <1>6
<1>8. (Frames + 1) - 1 = Frames
  BY <1>1
<1> QED BY <1>3, <1>7, <1>8

----------------------------------------------------------------------------
\* The cells after a copy, and after a relocation, are bytes of the stream.
LEMMA CopiedType ==
    ASSUME TypeOK, NEW n \in 1..ReadSize, arrived + n <= Total
    PROVE  Copied(n) \in [Cells -> 0..Total]
BY StreamFacts, ReceiveAssumption, SMTT(30) DEF TypeOK, Copied, Cells

\* A receive keeps the invariant when it is refused.
LEMMA RefusedStep ==
    ASSUME IInv, ~fault, NEW n \in 1..ReadSize, Receive(n), WriteRefused(n), UNCHANGED cuts
    PROVE  IInv'
<1>1. TypeOK'
  BY StreamFacts, ReceiveAssumption DEF IInv, TypeOK, Receive, WriteRefused, bufferVars, Total
<1>2. refused' # 0
  BY ReceiveAssumption DEF IInv, TypeOK, WriteRefused
<1>3. RefusedOnlyLong'
  BY <1>2, ReceiveAssumption DEF IInv, TypeOK, WriteRefused, RefusedOnlyLong, BufferInv
<1> QED BY <1>1, <1>2, <1>3 DEF IInv, FramesInOrder, DrainedBeforeReceive

\* A receive keeps the invariant when it is written: behind the last relocation
\* less than one packet is unread, so that NextFree holds again.
LEMMA AcceptedStep ==
    ASSUME IInv, ~fault, NEW n \in 1..ReadSize, Receive(n), WriteAccepted(n), UNCHANGED cuts
    PROVE  IInv'
<1> DEFINE w == WritePos + n
           data == Copied(n)
<1>1. /\ WritePos \in Nat /\ ReadPos \in Nat /\ ReadPos <= WritePos
      /\ w \in Nat /\ w <= BufferSize /\ n \in Nat /\ n >= 1 /\ n <= ReadSize
      /\ arrived \in Nat /\ arrived' = arrived + n /\ arrived + n <= Total
      /\ refused' = refused /\ readPc' = "read"
      /\ UNCHANGED <<RecvPacketQueue, handled, fault, connected>>
  BY ReceiveAssumption DEF IInv, TypeOK, Receive, WriteAccepted
<1>2. data \in [Cells -> 0..Total]
  BY CopiedType, <1>1 DEF IInv
<1>3. Total' = Total /\ Total \in Nat
  BY StreamFacts DEF IInv, Total
<1>4. CASE NextFree(w)
  <2>1. PacketData' = data /\ WritePos' = w /\ ReadPos' = ReadPos
    BY <1>4 DEF WriteAccepted
  <2>2. TypeOK'
    BY <1>1, <1>2, <1>3, <2>1, ReceiveAssumption DEF IInv, TypeOK
  <2>3. ASSUME refused = 0 PROVE BufferInv'
    <3>1. Frames' = Frames
      BY <1>1 DEF Frames
    <3>2. Frames \in Nat /\ Frames <= Packets /\ cuts[Frames] \in Nat
      BY <2>3, StreamFacts, ReceiveAssumption DEF IInv, TypeOK, BufferInv, Frames
    <3>3. arrived' = cuts[Frames] + (WritePos' - ReadPos')
      BY <1>1, <2>1, <2>3, <3>2 DEF IInv, BufferInv
    <3>4. ASSUME NEW i \in Cells, ReadPos <= i, i < w
          PROVE  data[i] = cuts[Frames] + 1 + (i - ReadPos)
      <4>1. i \in Int
        BY ReceiveAssumption DEF Cells
      <4>2. CASE i < WritePos
        BY <1>1, <2>3, <3>2, <3>4, <4>1, <4>2 DEF IInv, BufferInv, Copied
      <4>3. CASE i >= WritePos
        BY <1>1, <2>3, <3>2, <3>4, <4>1, <4>3 DEF IInv, BufferInv, Copied
      <4> QED BY <1>1, <4>1, <4>2, <4>3
    <3> QED BY <1>4, <2>1, <3>1, <3>2, <3>3, <3>4 DEF BufferInv, NextFree
  <2> QED BY <1>1, <2>2, <2>3 DEF IInv, RefusedOnlyLong, FramesInOrder, DrainedBeforeReceive, Bytes
<1>5. CASE ~NextFree(w)
  <2>1. /\ PacketData' = [i \in Cells |-> IF i < w - ReadPos THEN data[ReadPos + i] ELSE data[i]]
        /\ WritePos' = w - ReadPos /\ ReadPos' = 0
    BY <1>5 DEF WriteAccepted, BufferRelocate
  <2>2. TypeOK'
    <3>1. ASSUME NEW i \in Cells, i < w - ReadPos PROVE ReadPos + i \in Cells
      BY <1>1, <3>1, ReceiveAssumption DEF Cells
    <3>2. PacketData' \in [Cells -> 0..Total]
      BY <1>2, <2>1, <3>1
    <3> QED BY <1>1, <1>3, <2>1, <3>2, ReceiveAssumption DEF IInv, TypeOK
  <2>3. ASSUME refused = 0 PROVE BufferInv'
    <3>1. Frames' = Frames
      BY <1>1 DEF Frames
    <3>2. Frames \in Nat /\ Frames <= Packets /\ cuts[Frames] \in Nat
      BY <2>3, StreamFacts, ReceiveAssumption DEF IInv, TypeOK, BufferInv, Frames
    <3>3. arrived' = cuts[Frames] + (WritePos' - ReadPos')
      BY <1>1, <2>1, <2>3, <3>2 DEF IInv, BufferInv
    <3>4. ASSUME NEW i \in Cells, i < w - ReadPos
          PROVE  data[ReadPos + i] = cuts[Frames] + 1 + i
      <4>1. i \in Nat /\ ReadPos + i \in Cells
        BY <1>1, <3>4, ReceiveAssumption DEF Cells
      <4>2. CASE ReadPos + i < WritePos
        BY <1>1, <2>3, <3>2, <3>4, <4>1, <4>2 DEF IInv, BufferInv, Copied
      <4>3. CASE ReadPos + i >= WritePos
        BY <1>1, <2>3, <3>2, <3>4, <4>1, <4>3 DEF IInv, BufferInv, Copied
      <4> QED BY <1>1, <4>1, <4>2, <4>3
    <3>5. WritePos - ReadPos < MaxPacketSize
      <4>1. Frames # Packets
        BY <1>1, <2>3, <3>2, StreamFacts DEF IInv, BufferInv, Total
      <4>2. Frames < Packets
        BY <3>2, <4>1, ReceiveAssumption
      <4>3. cuts[Frames + 1] \in Nat /\ cuts[Frames + 1] - cuts[Frames] <= MaxPacketSize
        BY <3>2, <4>2, NextSize DEF IInv
      <4>5. arrived < cuts[Frames + 1]
        BY <2>3, <3>2, <4>1, ReceiveAssumption DEF IInv, DrainedBeforeReceive, Frames, Receive
      <4> QED BY <1>1, <2>3, <3>2, <4>3, <4>5, ReceiveAssumption DEF IInv, BufferInv
    <3>6. BufferSize - WritePos' >= MaxPacketSize
      BY <1>1, <2>1, <3>5, ReceiveAssumption
    <3> QED BY <2>1, <3>1, <3>2, <3>3, <3>4, <3>6 DEF BufferInv, Cells
  <2> QED BY <1>1, <2>2, <2>3 DEF IInv, RefusedOnlyLong, FramesInOrder, DrainedBeforeReceive, Bytes
<1> QED BY <1>4, <1>5

\* Taking a packet out of the buffer keeps the invariant.
LEMMA ReadPacketStep ==
    ASSUME IInv, ~fault, ReadPacket, UNCHANGED cuts
    PROVE  IInv'
<1>1. PICK size \in SizeAt(ReadPos) :
         /\ Takes(size)
         /\ RecvPacketQueue' =
              Append(RecvPacketQueue, [i \in 1..size |-> PacketData[ReadPos + i - 1]])
         /\ ReadPos' = ReadPos + size
  BY DEF ReadPacket
<1> DEFINE pkt == [i \in 1..size |-> PacketData[ReadPos + i - 1]]
<1>2. /\ UNCHANGED <<arrived, PacketData, WritePos, readPc, handled, refused, fault, connected>>
      /\ readPc = "read"
  BY DEF ReadPacket
<1>3. size \in Nat /\ size >= HeaderSize /\ size <= WritePos - ReadPos
  <2>1. size \in Int
    <3>1. \A k \in 1..Packets : cuts[k] - cuts[k - 1] \in Int
      BY StreamFacts, ReceiveAssumption DEF IInv
    <3> QED BY <3>1, ReceiveAssumption DEF SizeAt
  <2> QED BY <1>1, <2>1, ReceiveAssumption DEF IInv, TypeOK, Takes, Unread
<1>4. pkt \in Seq(Nat) /\ Len(pkt) = size
  <2>1. ASSUME NEW i \in 1..size PROVE PacketData[ReadPos + i - 1] \in Nat
    <3>1. ReadPos + i - 1 \in Cells
      BY <1>3, ReceiveAssumption DEF IInv, TypeOK, Cells
    <3> QED BY <3>1, StreamFacts DEF IInv, TypeOK
  <2> QED BY <1>3, <2>1
<1>5. TypeOK'
  <2>1. RecvPacketQueue' \in Seq(Seq(Nat))
    <3>1. RecvPacketQueue \in Seq(Seq(Nat))
      BY DEF IInv, TypeOK
    <3> HIDE DEF pkt
    <3> QED BY <1>1, <1>4, <3>1, AppendProperties DEF pkt
  <2> QED BY <1>1, <1>2, <1>3, <2>1, ReceiveAssumption DEF IInv, TypeOK, Total
<1>6. RefusedOnlyLong' /\ DrainedBeforeReceive'
  BY <1>2 DEF IInv, RefusedOnlyLong, DrainedBeforeReceive
<1>7. ASSUME refused = 0 PROVE BufferInv' /\ FramesInOrder'
  <2>1. /\ Frames + 1 \in 1..Packets
        /\ size = cuts[Frames + 1] - cuts[Frames]
    BY <1>1, <1>7, HeaderIsTrue DEF Takes, Unread
  <2>2. Frames' = Frames + 1
    BY <1>1, <1>2, <1>4 DEF Frames, IInv, TypeOK
  <2>3. /\ Frames \in Nat /\ cuts[Frames] \in Nat /\ cuts[Frames + 1] \in Nat
        /\ cuts'[Frames'] = cuts[Frames] + size
    <3>1. Frames \in Nat
      BY DEF IInv, TypeOK, Frames
    <3>2. Frames < Packets
      BY <2>1, <3>1, ReceiveAssumption
    <3>3. cuts[Frames] \in Nat /\ cuts[Frames + 1] \in Nat
      BY <3>1, <3>2, NextSize DEF IInv
    <3> QED BY <2>1, <2>2, <3>1, <3>3
  <2>4. BufferInv'
    <3>1. arrived' = cuts'[Frames'] + (WritePos' - ReadPos')
      BY <1>1, <1>2, <1>3, <1>7, <2>3 DEF IInv, BufferInv, TypeOK
    <3>2. ASSUME NEW i \in Cells, ReadPos' <= i, i < WritePos'
          PROVE  PacketData'[i] = cuts'[Frames'] + 1 + (i - ReadPos')
      <4>1. i \in Int /\ ReadPos \in Nat /\ WritePos' = WritePos /\ ReadPos' = ReadPos + size
        BY <1>1, <1>2, ReceiveAssumption DEF IInv, TypeOK, Cells
      <4>2. PacketData[i] = cuts[Frames] + 1 + (i - ReadPos)
        BY <1>3, <1>7, <3>2, <4>1 DEF IInv, BufferInv
      <4> QED BY <1>2, <1>3, <2>3, <4>1, <4>2
    <3> QED BY <1>2, <1>7, <2>1, <2>2, <3>1, <3>2 DEF IInv, BufferInv
  <2>5. pkt = Bytes(Frames + 1)
    <3>1. (Frames + 1) - 1 = Frames
      BY <2>3
    <3>2. ASSUME NEW i \in 1..size PROVE PacketData[ReadPos + i - 1] = cuts[Frames] + i
      <4>1. ReadPos + i - 1 \in Cells /\ ReadPos <= ReadPos + i - 1 /\ ReadPos + i - 1 < WritePos
        BY <1>3, ReceiveAssumption DEF IInv, TypeOK, Cells
      <4>2. PacketData[ReadPos + i - 1] = cuts[Frames] + 1 + ((ReadPos + i - 1) - ReadPos)
        BY <1>7, <4>1 DEF IInv, BufferInv
      <4>3. ReadPos \in Nat /\ i \in Nat
        BY <1>3 DEF IInv, TypeOK
      <4> QED BY <2>3, <4>2, <4>3
    <3>3. Bytes(Frames + 1) = [i \in 1..(cuts[Frames + 1] - cuts[Frames]) |-> cuts[Frames] + i]
      BY <3>1 DEF Bytes
    <3> QED BY <2>1, <3>2, <3>3
  <2>6. FramesInOrder'
    <3>1. /\ Len(RecvPacketQueue') = Len(RecvPacketQueue) + 1
          /\ \A k \in 1..Len(RecvPacketQueue) : RecvPacketQueue'[k] = RecvPacketQueue[k]
          /\ RecvPacketQueue'[Len(RecvPacketQueue) + 1] = pkt
      <4>1. RecvPacketQueue \in Seq(Seq(Nat))
        BY DEF IInv, TypeOK
      <4> HIDE DEF pkt
      <4> QED BY <1>1, <1>4, <4>1, AppendProperties DEF pkt
    <3>2. ASSUME NEW k \in 1..Len(RecvPacketQueue')
          PROVE  /\ Len(handled) + k <= Packets
                 /\ RecvPacketQueue'[k] = Bytes(Len(handled) + k)
      <4>1. CASE k \in 1..Len(RecvPacketQueue)
        BY <1>7, <3>1, <4>1 DEF IInv, FramesInOrder
      <4>2. CASE k = Len(RecvPacketQueue) + 1
        <5>1. Len(handled) + k = Frames + 1
          BY <4>2 DEF Frames, IInv, TypeOK
        <5> QED BY <2>1, <2>5, <3>1, <4>2, <5>1
      <4>3. Len(RecvPacketQueue) \in Nat
        <5>1. RecvPacketQueue \in Seq(Seq(Nat))
          BY DEF IInv, TypeOK
        <5> QED BY <5>1
      <4>4. k \in 1..(Len(RecvPacketQueue) + 1)
        BY <3>1
      <4>5. k \in 1..Len(RecvPacketQueue) \/ k = Len(RecvPacketQueue) + 1
        BY <4>3, <4>4
      <4> HIDE DEF pkt
      <4> QED BY <4>1, <4>2, <4>5
    <3> QED BY <1>2, <1>7, <3>2 DEF IInv, FramesInOrder, Bytes
  <2> QED BY <2>4, <2>6
<1>8. refused # 0 => FramesInOrder'
  BY <1>2 DEF FramesInOrder
<1> QED BY <1>2, <1>5, <1>6, <1>7, <1>8 DEF IInv

\* Leaving the inner loop: the next packet is not whole yet.
LEMMA ReadNothingStep ==
    ASSUME IInv, ~fault, ReadNothing, UNCHANGED cuts
    PROVE  IInv'
<1>1. UNCHANGED <<arrived, connected, bufferVars, RecvPacketQueue, handled, refused, fault>>
  BY DEF ReadNothing
<1>2. TypeOK' /\ RefusedOnlyLong' /\ FramesInOrder' /\ (refused' = 0 => BufferInv')
  BY <1>1 DEF IInv, TypeOK, Total, RefusedOnlyLong, FramesInOrder, BufferInv, Frames, Bytes,
              ReadNothing, bufferVars
<1>3. ASSUME refused = 0, Frames < Packets PROVE arrived < cuts[Frames + 1]
  <2>1. Frames \in Nat /\ arrived = cuts[Frames] + (WritePos - ReadPos)
    BY <1>3, ReceiveAssumption DEF IInv, TypeOK, BufferInv, Frames
  <2>2. /\ cuts[Frames + 1] - cuts[Frames] >= HeaderSize
        /\ cuts[Frames] \in Nat /\ cuts[Frames + 1] \in Nat
    BY <1>3, <2>1, NextSize DEF IInv
  <2> DEFINE unread == WritePos - ReadPos
  <2>a. unread \in Int /\ HeaderSize \in Int
    BY ReceiveAssumption DEF IInv, TypeOK
  <2>b. arrived = cuts[Frames] + unread
    BY <2>1
  <2> HIDE DEF unread
  <2>3. CASE unread < HeaderSize
    BY <2>a, <2>b, <2>2, <2>3
  <2>4. CASE unread >= HeaderSize
    <3>1. SizeAt(ReadPos) = {cuts[Frames + 1] - cuts[Frames]}
      BY <1>3, <2>4, HeaderIsTrue DEF unread
    <3>2. unread < cuts[Frames + 1] - cuts[Frames]
      BY <2>2, <2>4, <3>1, ReceiveAssumption DEF ReadNothing, Unread, unread, IInv, TypeOK
    <3> QED BY <2>a, <2>b, <2>2, <3>2
  <2> QED BY <2>a, <2>3, <2>4
<1>4. DrainedBeforeReceive'
  BY <1>1, <1>3 DEF DrainedBeforeReceive, Frames
<1> QED BY <1>2, <1>4 DEF IInv

\* A step that leaves the buffer, the queues and the read thread's place alone
\* preserves the invariant, whatever it does to the connection.
LEMMA QuietStep ==
    ASSUME IInv, connected' \in BOOLEAN, fault' \in BOOLEAN, fault => fault',
           cuts' = cuts, arrived' = arrived, PacketData' = PacketData,
           ReadPos' = ReadPos, WritePos' = WritePos, readPc' = readPc,
           RecvPacketQueue' = RecvPacketQueue, handled' = handled, refused' = refused
    PROVE  IInv'
<1>1. TypeOK'
  <2>1. TypeOK
    BY DEF IInv
  <2> QED BY <2>1 DEF TypeOK, Total
<1>2. RefusedOnlyLong'
  BY DEF IInv, RefusedOnlyLong
<1>3. refused' = 0 => BufferInv'
  <2>1. Frames' = Frames
    BY DEF Frames
  <2>2. refused = 0 => BufferInv
    BY DEF IInv
  <2> QED BY <2>1, <2>2 DEF BufferInv
<1>4. FramesInOrder'
  <2>1. FramesInOrder
    BY DEF IInv
  <2> QED BY <2>1 DEF FramesInOrder, Bytes
<1>5. DrainedBeforeReceive'
  <2>1. DrainedBeforeReceive
    BY DEF IInv
  <2> QED BY <2>1 DEF DrainedBeforeReceive
<1> QED BY <1>1, <1>2, <1>3, <1>4, <1>5 DEF IInv

\* A tick moves the head of the queue to the end of what was handled.
LEMMA TickStep ==
    ASSUME IInv, ~fault, BackGroundProcess, UNCHANGED cuts
    PROVE  IInv'
<1>1. /\ RecvPacketQueue # << >> /\ RecvPacketQueue \in Seq(Seq(Nat))
      /\ handled \in Seq(Seq(Nat))
      /\ handled' = Append(handled, Head(RecvPacketQueue))
      /\ RecvPacketQueue' = Tail(RecvPacketQueue)
      /\ UNCHANGED <<arrived, connected, PacketData, ReadPos, WritePos, readPc, refused, fault>>
  BY DEF IInv, TypeOK, BackGroundProcess, bufferVars
<1>2. /\ Len(RecvPacketQueue) \in Nat /\ Len(RecvPacketQueue) >= 1 /\ Len(handled) \in Nat
      /\ Head(RecvPacketQueue) = RecvPacketQueue[1] /\ Head(RecvPacketQueue) \in Seq(Nat)
      /\ Len(RecvPacketQueue') = Len(RecvPacketQueue) - 1
      /\ \A k \in 1..Len(RecvPacketQueue') : RecvPacketQueue'[k] = RecvPacketQueue[k + 1]
  BY <1>1, EmptySeq, HeadTailProperties
<1>3. /\ Len(handled') = Len(handled) + 1
      /\ \A k \in 1..Len(handled) : handled'[k] = handled[k]
      /\ handled'[Len(handled) + 1] = RecvPacketQueue[1]
  BY <1>1, <1>2
<1>4. Frames' = Frames
  BY <1>2, <1>3 DEF Frames
<1>5. TypeOK'
  BY <1>1, <1>2 DEF IInv, TypeOK, Total
<1>6. refused' = 0 => BufferInv'
  BY <1>1, <1>4 DEF IInv, BufferInv
<1>7. DrainedBeforeReceive' /\ RefusedOnlyLong'
  BY <1>1, <1>4 DEF IInv, DrainedBeforeReceive, RefusedOnlyLong, Frames
<1>8. ASSUME refused = 0 PROVE FramesInOrder'
  <2>1. ASSUME NEW k \in 1..Len(handled') PROVE k <= Packets /\ handled'[k] = Bytes(k)
    <3>1. CASE k \in 1..Len(handled)
      BY <1>3, <1>8, <3>1 DEF IInv, FramesInOrder
    <3>2. CASE k = Len(handled) + 1
      BY <1>2, <1>3, <1>8, <3>2 DEF IInv, FramesInOrder
    <3> QED BY <1>2, <1>3, <2>1, <3>1, <3>2
  <2>2. ASSUME NEW k \in 1..Len(RecvPacketQueue')
        PROVE  /\ Len(handled') + k <= Packets
               /\ RecvPacketQueue'[k] = Bytes(Len(handled') + k)
    <3>1. k + 1 \in 1..Len(RecvPacketQueue) /\ Len(handled') + k = Len(handled) + (k + 1)
      <4>1. Len(RecvPacketQueue') = Len(RecvPacketQueue) - 1 /\ Len(RecvPacketQueue) \in Nat
        BY <1>2
      <4>2. Len(handled') = Len(handled) + 1 /\ Len(handled) \in Nat
        BY <1>2, <1>3
      <4> QED BY <2>2, <4>1, <4>2
    <3> QED BY <1>2, <1>8, <2>2, <3>1 DEF IInv, FramesInOrder
  <2> QED BY <2>1, <2>2 DEF FramesInOrder, Bytes
<1>9. refused # 0 => FramesInOrder'
  BY <1>1 DEF FramesInOrder
<1> QED BY <1>5, <1>6, <1>7, <1>8, <1>9 DEF IInv

----------------------------------------------------------------------------
\* The invariant is inductive: a read thread that receives, relocates and
\* takes packets, and a timer that empties the queue, keep it.
THEOREM Invariance == Spec => []IInv
<1>1. Init => IInv
  <2> SUFFICES ASSUME Init PROVE IInv
    OBVIOUS
  <2>1. cuts \in [0..Packets -> Nat] /\ cuts[0] = 0 /\ Total \in Nat
    BY ReceiveAssumption DEF Init, Total
  <2>2. TypeOK
    <3>1. << >> \in Seq(Seq(Nat))
      OBVIOUS
    <3>2. 0 \in 0..Total /\ 0 \in 0..BufferSize /\ 0 \in 0..ReadSize
      BY <2>1, ReceiveAssumption
    <3>3. [i \in Cells |-> 0] \in [Cells -> 0..Total]
      BY <3>2
    <3>4. cuts \in Streams /\ arrived \in 0..Total /\ PacketData \in [Cells -> 0..Total]
      BY <3>2, <3>3 DEF Init
    <3>5. WritePos \in 0..BufferSize /\ ReadPos \in 0..WritePos /\ refused \in 0..ReadSize
      BY <3>2 DEF Init
    <3>6. /\ connected \in BOOLEAN /\ fault \in BOOLEAN /\ readPc \in {"recv", "read"}
          /\ RecvPacketQueue \in Seq(Seq(Nat)) /\ handled \in Seq(Seq(Nat))
      BY <3>1 DEF Init
    <3> QED BY <3>4, <3>5, <3>6 DEF TypeOK
  <2>3. BufferInv
    BY <2>1, ReceiveAssumption, EmptySeq DEF Init, BufferInv, Frames, Cells
  <2>4. DrainedBeforeReceive
    <3>1. ASSUME Packets > 0 PROVE 0 < cuts[1]
      BY <2>1, <2>2, <3>1, StreamFacts, ReceiveAssumption
    <3> QED BY <3>1, EmptySeq DEF Init, DrainedBeforeReceive
  <2>5. FramesInOrder
    BY EmptySeq DEF Init, FramesInOrder
  <2> QED BY <2>2, <2>3, <2>4, <2>5 DEF Init, IInv, RefusedOnlyLong
<1>2. IInv /\ [Next]_vars => IInv'
  <2> SUFFICES ASSUME IInv, [Next]_vars PROVE IInv'
    OBVIOUS
  <2>1. CASE Step
    <3>1. ~fault /\ UNCHANGED cuts
      BY <2>1 DEF Step
    <3>2. ASSUME NEW n \in 1..ReadSize, Receive(n) PROVE IInv'
      BY <3>1, <3>2, RefusedStep, AcceptedStep DEF Receive, Write
    <3>3. CASE ReceiveNull
      BY <3>1, <3>3, QuietStep DEF ReceiveNull, bufferVars, IInv, TypeOK
    <3>4. CASE ReadThrows
      BY <3>1, <3>4, QuietStep DEF ReadThrows, bufferVars, IInv, TypeOK
    <3> QED BY <2>1, <3>1, <3>2, <3>3, <3>4, ReadPacketStep, ReadNothingStep, TickStep
            DEF Step, NetworkReadProcess
  <2>2. CASE UNCHANGED vars
    BY <2>2, QuietStep DEF vars, bufferVars, IInv, TypeOK
  <2> QED BY <2>1, <2>2 DEF Next, Rest
<1> QED BY <1>1, <1>2, PTL DEF Spec

\* The client's buffer, positions and queues keep their types: no index leaves
\* the buffer, even after a refused Write.
THEOREM TypeCorrect == Spec => []TypeOK
<1>1. IInv => TypeOK
  BY DEF IInv
<1> QED BY <1>1, Invariance, PTL

\* The packets the UI gets are the packets the server sent, in order and whole,
\* until a Write is refused.
THEOREM FramesAreInOrder == Spec => []FramesInOrder
<1>1. IInv => FramesInOrder
  BY DEF IInv
<1> QED BY <1>1, Invariance, PTL

\* The first receive PacketBufferManager refuses is longer than MaxPacketSize:
\* a client that read at most that much at a time would never lose a byte.
THEOREM OnlyLongRefused == Spec => []RefusedOnlyLong
<1>1. IInv => RefusedOnlyLong
  BY DEF IInv
<1> QED BY <1>1, Invariance, PTL

\* The read thread never blocks in Receive with a whole packet unread.
THEOREM LoopDrains == Spec => []DrainedBeforeReceive
<1>1. IInv => DrainedBeforeReceive
  BY DEF IInv
<1> QED BY <1>1, Invariance, PTL
=============================================================================
