------------------------ MODULE PacketBufferProofs -------------------------
(***************************************************************************)
(* Proofs about PacketBuffer, for every size of the buffer, of a receive   *)
(* and of a packet, every stream of packets, every way the receives cut it *)
(* and every interleaving of the worker and the process thread.            *)
(*                                                                         *)
(* The properties are not inductive: BufferInv says which bytes of the     *)
(* stream the unread cells hold at every place of the two threads, and     *)
(* TokenInv that there is a token for every whole packet.                  *)
(***************************************************************************)
EXTENDS PacketBuffer, SequenceTheorems, FiniteSetTheorems, WellFoundedInduction, TLAPS

H == Len(handled)
R == mPacketDataBufferRPos
W == mPacketDataBufferWPos
Cell(i) == mPacketDataBuffer[i]

\* The byte of the stream before the one at the read position, and before the
\* one that goes to the write position.
Read == IF procPc = "handle" THEN cuts[H + 1] ELSE cuts[H]
Written == IF recvPc \in {"recv", "enqueue"} THEN arrived ELSE arrived - dataSize

\* What Init says of the stream; it never changes.
StreamInv ==
    /\ cuts \in [0..Packets -> Nat] /\ cuts[0] = 0
    /\ \A k \in 1..Packets : cuts[k] - cuts[k - 1] \in Lengths

\* A worker in SetPacketData has bytes; the packets handled are those sent.
HandledInv ==
    /\ handled \in Seq({Bytes(k) : k \in 1..Packets}) /\ H <= Packets
    /\ \A k \in 1..H : handled[k] = Bytes(k)
    /\ dataSize <= arrived /\ (recvPc = "recv" <=> dataSize = 0)

\* Where the two threads are with respect to the stream.
PlaceInv ==
    /\ procPc \in {"advance", "handle"} => H < Packets
    /\ Read <= Written /\ R <= Read
    /\ recvPc \in {"move", "moved", "reset"} => procPc \in {"deque", "clear"}

\* The unread bytes, before, during and after a compaction.
UnreadInv ==
    /\ recvPc \notin {"moved", "reset"} =>
          /\ W = R + (Written - Read) /\ W <= Size
          /\ \A i \in Cells : R <= i /\ i < W => Cell(i) = Read + 1 + (i - R)
    /\ recvPc \in {"move", "moved", "reset"} =>
          /\ remainDataSize = Written - Read /\ backlog = Written - Read
          /\ R + remainDataSize <= Size
    /\ recvPc \in {"moved", "reset"} =>
          \A i \in Cells : i < remainDataSize => Cell(i) = Read + 1 + i
    /\ recvPc = "reset" => W = remainDataSize

\* The bytes the worker adds.
NewInv ==
    /\ recvPc = "copy" => W + dataSize < Size \/ W = backlog
    /\ recvPc = "store" =>
          /\ W + dataSize <= Size
          /\ \A i \in Cells : W <= i /\ i < W + dataSize => Cell(i) = Written + 1 + (i - W)

\* The packet the process thread takes.
PacketInv ==
    /\ procPc = "header" => HeaderLen <= remainByte /\ remainByte <= W - R
    /\ procPc = "advance" =>
          /\ packetInfo.at = R /\ packetInfo.size = cuts[H + 1] - cuts[H]
          /\ packetInfo.size <= W - R
    /\ procPc = "handle" =>
          /\ packetInfo.at + packetInfo.size = R /\ packetInfo.size = cuts[H + 1] - cuts[H]
          /\ \A i \in Cells : packetInfo.at <= i /\ i < R =>
                Cell(i) = cuts[H] + 1 + (i - packetInfo.at)

BufferInv == PlaceInv /\ UnreadInv /\ NewInv /\ PacketInv

\* The bytes whose token was queued; the token the process thread has in hand
\* for a whole packet.
Announced == IF recvPc = "recv" THEN arrived ELSE arrived - dataSize
InHand ==
    IF \/ procPc \in {"getpacket", "advance", "handle"}
       \/ procPc = "header" /\ cuts[H + 1] - cuts[H] <= remainByte
    THEN 1 ELSE 0

\* Every whole packet is handled or has a token.
TokenInv ==
    \A k \in 1..Packets : cuts[k] <= Announced => k <= H + tokens + InHand

\* The receive in work completes at most one packet.
OneComplete ==
    \A j, k \in 1..Packets :
        /\ arrived - dataSize < cuts[j] /\ cuts[j] <= arrived
        /\ arrived - dataSize < cuts[k] /\ cuts[k] <= arrived
        => j = k

IInv ==
    /\ TypeOK /\ StreamInv /\ HandledInv /\ OverrunOnlyWhenFull
    /\ Intact /\ ~fault => BufferInv
    /\ Intact /\ ~fault /\ ~coalesced => TokenInv /\ OneComplete

----------------------------------------------------------------------------
(* The stream and the arithmetic of the positions.                         *)

\* A position stays below Word, and the remainder changes no smaller number.
LEMMA WordRem ==
    ASSUME NEW a \in Int
    PROVE  /\ a % Word \in 0..(Word - 1)
           /\ a \in 0..(Word - 1) => a % Word = a
BY BufferAssumption

\* Packets are not empty, so their ends increase.  A least packet that ends
\* before an earlier one would have such a packet right before it.
LEMMA CutsIncrease ==
    ASSUME StreamInv
    PROVE  \A j, k \in 0..Packets : j < k => cuts[j] < cuts[k]
<1> DEFINE T == {k \in Nat : k <= Packets /\ \E j \in 0..Packets : j < k /\ ~(cuts[j] < cuts[k])}
<1>1. SUFFICES ASSUME T # {} PROVE FALSE
  <2>1. SUFFICES ASSUME NEW j \in 0..Packets, NEW k \in 0..Packets, j < k, ~(cuts[j] < cuts[k])
                 PROVE  k \in T
    OBVIOUS
  <2> QED BY <2>1, BufferAssumption
<1>2. PICK k \in T : \A m \in T : ~(<<m, k>> \in OpToRel(<, Nat))
  BY <1>1, NatLessThanWellFounded, WFMin, T \subseteq Nat
<1>3. PICK j \in 0..Packets : j < k /\ ~(cuts[j] < cuts[k])
  BY <1>2
<1>4. \A m \in T : ~(m < k)
  BY <1>2 DEF OpToRel
<1>5. /\ k \in 1..Packets /\ k - 1 \in 0..Packets /\ j <= k - 1
      /\ k \in 0..Packets /\ k - 1 \in Nat /\ k - 1 < k
  BY <1>3, BufferAssumption
<1>6. cuts[k] \in Nat /\ cuts[j] \in Nat /\ cuts[k - 1] \in Nat /\ cuts[k - 1] < cuts[k]
  <2>1. cuts[k] \in Nat /\ cuts[j] \in Nat /\ cuts[k - 1] \in Nat
    BY <1>5 DEF StreamInv
  <2>2. cuts[k] - cuts[k - 1] \in HeaderLen..Size
    BY <1>5, BufferAssumption DEF StreamInv
  <2> QED BY <2>1, <2>2, BufferAssumption
<1>7. j < k - 1 /\ ~(cuts[j] < cuts[k - 1])
  BY <1>3, <1>5, <1>6
<1>8. k - 1 \in T
  BY <1>5, <1>7
<1> QED BY <1>4, <1>5, <1>8

\* The sizes of the packets.
LEMMA NextCut ==
    ASSUME StreamInv, NEW h \in Nat, h < Packets
    PROVE  /\ h \in 0..Packets /\ h + 1 \in 0..Packets /\ h + 1 \in 1..Packets
           /\ cuts[h] \in Nat /\ cuts[h + 1] \in Nat
           /\ cuts[h + 1] - cuts[h] \in HeaderLen..Size
           /\ cuts[h] < cuts[h + 1]
<1>1. /\ h \in 0..Packets /\ h + 1 \in 0..Packets /\ h + 1 \in 1..Packets /\ (h + 1) - 1 = h
      /\ h < h + 1
  BY BufferAssumption
<1>2. cuts[h + 1] - cuts[(h + 1) - 1] \in HeaderLen..Size
  BY <1>1, BufferAssumption DEF StreamInv
<1>3. cuts[h] \in Nat /\ cuts[h + 1] \in Nat
  BY <1>1 DEF StreamInv
<1> QED BY <1>1, <1>2, <1>3, CutsIncrease

\* The last byte of the stream is the largest.
LEMMA TotalFacts ==
    ASSUME StreamInv
    PROVE  /\ Total \in Nat
           /\ \A k \in 0..Packets : cuts[k] \in Nat /\ cuts[k] <= Total
<1>1. Packets \in 0..Packets
  BY BufferAssumption
<1>2. \A k \in 0..Packets : cuts[k] \in Nat
  BY DEF StreamInv
<1>3. \A k \in 0..Packets : k < Packets => cuts[k] < cuts[Packets]
  BY <1>1, CutsIncrease
<1>4. ASSUME NEW k \in 0..Packets PROVE cuts[k] <= cuts[Packets]
  <2>1. k < Packets \/ k = Packets
    BY BufferAssumption
  <2> QED BY <1>1, <1>2, <1>3, <2>1
<1> QED BY <1>1, <1>2, <1>4 DEF Total

----------------------------------------------------------------------------
(* What the invariant says of the numbers.                                 *)

LEMMA Numbers ==
    ASSUME IInv
    PROVE  /\ arrived \in Nat /\ arrived <= Total /\ Total \in Nat
           /\ W \in Nat /\ R \in Nat /\ dataSize \in Nat /\ remainDataSize \in Nat
           /\ backlog \in Nat /\ remainByte \in Nat /\ tokens \in Nat
           /\ packetInfo.at \in Nat /\ packetInfo.size \in Nat
           /\ H \in Nat /\ H \in 0..Packets /\ cuts[H] \in Nat
           /\ dataSize <= arrived
<1>1. StreamInv /\ TypeOK /\ HandledInv
  BY DEF IInv
<1>2. Total \in Nat
  BY <1>1, TotalFacts
<1>3. H \in Nat /\ H \in 0..Packets
  BY <1>1, LenProperties, BufferAssumption DEF HandledInv, H
<1>4. cuts[H] \in Nat
  BY <1>1, <1>3, TotalFacts
<1>5. packetInfo.at \in Nat /\ packetInfo.size \in Nat
  BY <1>1, BufferAssumption DEF TypeOK
<1>6. /\ arrived \in Nat /\ arrived <= Total
      /\ W \in Nat /\ R \in Nat /\ dataSize \in Nat /\ remainDataSize \in Nat
      /\ backlog \in Nat /\ remainByte \in Nat /\ tokens \in Nat
  BY <1>1, <1>2, BufferAssumption DEF TypeOK, W, R
<1>7. dataSize <= arrived
  BY <1>1 DEF HandledInv
<1> QED BY <1>2, <1>3, <1>4, <1>5, <1>6, <1>7

LEMMA IntactNumbers ==
    ASSUME IInv, Intact, ~fault
    PROVE  /\ BufferInv
           /\ Read \in Nat /\ Written \in Nat /\ Announced \in Nat
           /\ cuts[H] <= Read /\ Read <= Written /\ Written <= Total
           /\ Announced <= Written /\ R <= Read
           /\ procPc # "handle" => Read = cuts[H]
           /\ procPc \in {"advance", "handle"} =>
                 /\ H < Packets /\ cuts[H + 1] \in Nat
                 /\ cuts[H + 1] - cuts[H] \in HeaderLen..Size
<1>1. BufferInv /\ StreamInv
  BY DEF IInv
<1>2. procPc \in {"advance", "handle"} =>
         /\ H < Packets /\ cuts[H + 1] \in Nat
         /\ cuts[H + 1] - cuts[H] \in HeaderLen..Size /\ cuts[H] < cuts[H + 1]
  BY <1>1, Numbers, NextCut DEF BufferInv, PlaceInv
<1>3. Read \in Nat /\ cuts[H] <= Read /\ (procPc # "handle" => Read = cuts[H])
  BY <1>2, Numbers DEF Read
<1>4. Written \in Nat /\ Announced \in Nat /\ Written <= Total /\ Announced <= Written
  BY Numbers DEF Written, Announced
<1>5. Read <= Written /\ R <= Read
  BY <1>1 DEF BufferInv, PlaceInv
<1> QED BY <1>1, <1>2, <1>3, <1>4, <1>5

\* The stream does not change.
LEMMA SameStream ==
    ASSUME IInv, UNCHANGED cuts
    PROVE  StreamInv' /\ Total' = Total
BY DEF IInv, StreamInv, Total

\* The packets handled do not change.
LEMMA SameHandled ==
    ASSUME IInv, UNCHANGED <<cuts, handled>>,
           dataSize' <= arrived', recvPc' = "recv" <=> dataSize' = 0
    PROVE  HandledInv' /\ H' = H /\ cuts[H]' = cuts[H] /\ cuts[H + 1]' = cuts[H + 1]
BY DEF IInv, HandledInv, H, Bytes

\* A step that leaves the session intact started intact.
LEMMA WasIntact ==
    ASSUME raced' = (raced \/ Meet'), lost' = lost, Intact'
    PROVE  Intact /\ ~Meet'
BY DEF Intact

----------------------------------------------------------------------------
(* The worker.                                                             *)

\* A receive completes.
LEMMA KernelRecvStep ==
    ASSUME IInv, ~fault, NEW n \in 1..MaxChunk, KernelRecv(n),
           raced' = (raced \/ Meet'), UNCHANGED cuts
    PROVE  IInv'
<1>1. /\ recvPc = "recv" /\ recvPc' = "test" /\ arrived + n <= Total
      /\ arrived' = arrived + n /\ dataSize' = n
      /\ coalesced' = (coalesced \/ Cardinality(Complete(n)) > 1)
      /\ UNCHANGED <<mPacketDataBuffer, mPacketDataBufferWPos, mPacketDataBufferRPos, tokens,
                     remainDataSize, backlog, procPc, remainByte, packetInfo, clears, handled,
                     lost, fault, cuts>>
  BY DEF KernelRecv, bufferVars, procVars
<1>2. n \in Nat /\ n >= 1 /\ n <= MaxChunk
  BY BufferAssumption
<1>3. StreamInv' /\ HandledInv' /\ Total' = Total /\ H' = H /\ cuts[H]' = cuts[H]
      /\ cuts[H + 1]' = cuts[H + 1]
  <2>1. dataSize' <= arrived' /\ ~(recvPc' = "recv") /\ ~(dataSize' = 0)
    BY <1>1, <1>2, Numbers
  <2> QED BY <1>1, <2>1, SameStream, SameHandled
<1>4. TypeOK'
  <2>1. arrived' \in 0..Total' /\ dataSize' \in 0..MaxChunk
    BY <1>1, <1>2, <1>3, Numbers
  <2>2. {fault', raced', lost', coalesced'} \subseteq BOOLEAN
    BY <1>1 DEF IInv, TypeOK, Meet
  <2> QED BY <1>1, <1>3, <2>1, <2>2 DEF IInv, TypeOK
<1>5. OverrunOnlyWhenFull'
  BY <1>1 DEF OverrunOnlyWhenFull
<1>6. ASSUME Intact' PROVE BufferInv'
  <2>1. Intact /\ ~Meet'
    BY <1>1, <1>6, WasIntact
  <2>2. Read' = Read /\ Written' = Written /\ W' = W /\ R' = R
    BY <1>1, <1>2, <1>3, Numbers DEF Read, Written, W, R
  <2>3. BufferInv
    BY <2>1 DEF IInv
  <2>4. PlaceInv' /\ UnreadInv' /\ NewInv' /\ PacketInv'
    BY <1>1, <1>3, <2>2, <2>3 DEF BufferInv, PlaceInv, UnreadInv, NewInv, PacketInv, Cell
  <2> QED BY <2>4 DEF BufferInv
<1>7. ASSUME Intact', ~coalesced' PROVE TokenInv' /\ OneComplete'
  <2>1. Intact /\ ~coalesced /\ ~(Cardinality(Complete(n)) > 1)
    BY <1>1, <1>7, WasIntact
  <2>2. Announced' = Announced /\ InHand' = InHand
    BY <1>1, <1>2, <1>3, Numbers DEF Announced, InHand
  <2>3. TokenInv'
    BY <1>1, <1>3, <2>1, <2>2 DEF IInv, TokenInv
  <2>4. OneComplete'
    <3>1. SUFFICES ASSUME NEW j \in 1..Packets, NEW k \in 1..Packets, j # k,
                          arrived < cuts[j], cuts[j] <= arrived + n,
                          arrived < cuts[k], cuts[k] <= arrived + n
                   PROVE  FALSE
      <4>1. arrived' - dataSize' = arrived
        BY <1>1, <1>2, Numbers
      <4> QED BY <1>1, <4>1 DEF OneComplete
    <3>2. j \in 0..Packets /\ k \in 0..Packets
      BY BufferAssumption
    <3>3. cuts[j] \in Nat /\ cuts[k] \in Nat
      BY <3>2, TotalFacts DEF IInv
    <3>4. j \in Complete(n) /\ k \in Complete(n)
      BY <1>2, <3>1, <3>3, Numbers DEF Complete
    <3>5. IsFiniteSet(Complete(n))
      <4>1. IsFiniteSet(1..Packets)
        BY FS_Interval, BufferAssumption
      <4>2. Complete(n) \subseteq 1..Packets
        BY DEF Complete
      <4> QED BY <4>1, <4>2, FS_Subset
    <3>6. {j, k} \subseteq Complete(n) /\ Cardinality({j, k}) = 2
      <4>1. IsFiniteSet({j}) /\ Cardinality({j}) = 1 /\ k \notin {j}
        BY <3>1, FS_Singleton
      <4>2. Cardinality({j} \cup {k}) = 1 + 1
        BY <4>1, FS_AddElement
      <4>3. {j} \cup {k} = {j, k}
        OBVIOUS
      <4> QED BY <3>4, <4>2, <4>3
    <3>7. Cardinality({j, k}) <= Cardinality(Complete(n))
      BY <3>5, <3>6, FS_Subset
    <3>8. Cardinality(Complete(n)) \in Nat
      BY <3>5, FS_CardinalityType
    <3> QED BY <2>1, <3>6, <3>7, <3>8
  <2> QED BY <2>3, <2>4
<1> QED BY <1>1, <1>3, <1>4, <1>5, <1>6, <1>7 DEF IInv

\* What the steps of SetPacketData have in common: they receive nothing and
\* leave the process thread and the tokens alone.
LEMMA WorkerFrame ==
    ASSUME IInv, NEW from, NEW to, from # "recv", to # "recv", RecvStep(from, to),
           UNCHANGED <<cuts, dataSize, tokens>>, raced' = (raced \/ Meet')
    PROVE  /\ recvPc = from /\ recvPc' = to
           /\ UNCHANGED <<arrived, coalesced, procPc, remainByte, packetInfo, clears, handled, lost>>
           /\ StreamInv' /\ HandledInv' /\ Total' = Total /\ H' = H
           /\ cuts[H]' = cuts[H] /\ cuts[H + 1]' = cuts[H + 1]
           /\ raced' \in BOOLEAN /\ Read' = Read
           /\ Intact' => Intact /\ ~Meet'
           /\ TokenInv /\ OneComplete => TokenInv' /\ OneComplete'
<1>1. /\ recvPc = from /\ recvPc' = to
      /\ UNCHANGED <<arrived, coalesced, procPc, remainByte, packetInfo, clears, handled, lost>>
  BY DEF RecvStep, procVars
<1>2. /\ StreamInv' /\ HandledInv' /\ Total' = Total /\ H' = H
      /\ cuts[H]' = cuts[H] /\ cuts[H + 1]' = cuts[H + 1]
  <2>1. dataSize' <= arrived' /\ ~(recvPc' = "recv") /\ ~(dataSize' = 0)
    BY <1>1, Numbers DEF IInv, HandledInv
  <2> QED BY <1>1, <2>1, SameStream, SameHandled
<1>3. raced' \in BOOLEAN /\ (Intact' => Intact /\ ~Meet')
  BY <1>1, WasIntact
<1>4. Read' = Read /\ Announced' = Announced /\ InHand' = InHand
  BY <1>1, <1>2 DEF Read, Announced, InHand
<1>5. TokenInv => TokenInv'
  BY <1>1, <1>2, <1>4 DEF TokenInv
<1>6. OneComplete => OneComplete'
  BY <1>1 DEF OneComplete
<1> QED BY <1>1, <1>2, <1>3, <1>4, <1>5, <1>6

\* Does the data fit?
LEMMA TestStep ==
    ASSUME IInv, ~fault, SetPacketDataTest, raced' = (raced \/ Meet'), UNCHANGED cuts
    PROVE  IInv'
<1> DEFINE to == IF Fits(dataSize) THEN "copy" ELSE "remain"
<1>1. /\ RecvStep("test", to)
      /\ UNCHANGED <<mPacketDataBuffer, mPacketDataBufferWPos, mPacketDataBufferRPos, tokens,
                     dataSize, remainDataSize, backlog, fault>>
  BY DEF SetPacketDataTest, bufferVars, setVars
<1>2. "test" # "recv" /\ to # "recv"
  OBVIOUS
<1> HIDE DEF to
<1>3. /\ recvPc = "test" /\ recvPc' = to
      /\ UNCHANGED <<arrived, coalesced, procPc, remainByte, packetInfo, clears, handled, lost>>
      /\ StreamInv' /\ HandledInv' /\ Total' = Total /\ H' = H
      /\ cuts[H]' = cuts[H] /\ cuts[H + 1]' = cuts[H + 1]
      /\ raced' \in BOOLEAN /\ Read' = Read
      /\ Intact' => Intact /\ ~Meet'
      /\ TokenInv /\ OneComplete => TokenInv' /\ OneComplete'
  BY <1>1, <1>2, WorkerFrame
<1>4. TypeOK'
  BY <1>1, <1>3 DEF IInv, TypeOK, to
<1>5. OverrunOnlyWhenFull'
  BY <1>1 DEF OverrunOnlyWhenFull
<1>6. ASSUME Intact' PROVE BufferInv'
  <2>1. Intact /\ BufferInv
    BY <1>3, <1>6 DEF IInv
  <2>2. Written' = Written /\ W' = W /\ R' = R
    BY <1>1, <1>3 DEF Written, W, R, to
  <2>3. PlaceInv' /\ UnreadInv' /\ PacketInv'
    BY <1>1, <1>3, <2>1, <2>2 DEF BufferInv, PlaceInv, UnreadInv, PacketInv, Cell, to
  <2>4. NewInv'
    BY <1>1, <1>3, <2>1, <2>2 DEF BufferInv, NewInv, to, Fits, W
  <2> QED BY <2>3, <2>4 DEF BufferInv
<1> QED BY <1>1, <1>3, <1>4, <1>5, <1>6 DEF IInv

\* The unread bytes are counted: nobody reads, or the threads meet.
LEMMA RemainStep ==
    ASSUME IInv, ~fault, SetPacketDataRemain, raced' = (raced \/ Meet'), UNCHANGED cuts
    PROVE  IInv'
<1>1. /\ RecvStep("remain", "move")
      /\ remainDataSize' = (W - R) % Word /\ backlog' = arrived - dataSize - Consumed
      /\ UNCHANGED <<mPacketDataBuffer, mPacketDataBufferWPos, mPacketDataBufferRPos, tokens,
                     dataSize, fault>>
  BY DEF SetPacketDataRemain, bufferVars, W, R
<1>2. /\ recvPc = "remain" /\ recvPc' = "move"
      /\ UNCHANGED <<arrived, coalesced, procPc, remainByte, packetInfo, clears, handled, lost>>
      /\ StreamInv' /\ HandledInv' /\ Total' = Total /\ H' = H
      /\ cuts[H]' = cuts[H] /\ cuts[H + 1]' = cuts[H + 1]
      /\ raced' \in BOOLEAN /\ Read' = Read
      /\ Intact' => Intact /\ ~Meet'
      /\ TokenInv /\ OneComplete => TokenInv' /\ OneComplete'
  BY <1>1, WorkerFrame
<1>3. Written' = Written /\ W' = W /\ R' = R /\ Written = arrived - dataSize
  BY <1>1, <1>2 DEF Written, W, R
<1>4. remainDataSize' \in 0..(Word - 1)
  BY <1>1, Numbers, WordRem
<1>5. backlog' \in 0..Total
  <2>1. CASE raced \/ lost
    <3>1. Consumed = 0
      BY <2>1 DEF Consumed
    <3> QED BY <1>1, <3>1, Numbers
  <2>2. CASE Intact
    <3>1. Consumed = cuts[H]
      BY <2>2 DEF Consumed, Intact, H
    <3>2. /\ cuts[H] \in Nat /\ Written \in Nat /\ cuts[H] <= Written /\ Written <= Total
          /\ Total \in Nat
      BY <2>2, Numbers, IntactNumbers
    <3> QED BY <1>1, <1>3, <3>1, <3>2
  <2> QED BY <2>1, <2>2 DEF Intact
<1>6. TypeOK'
  BY <1>1, <1>2, <1>4, <1>5 DEF IInv, TypeOK
<1>7. OverrunOnlyWhenFull'
  BY <1>1 DEF OverrunOnlyWhenFull
<1>8. ASSUME Intact' PROVE BufferInv'
  <2>1. Intact /\ BufferInv /\ ~Meet'
    BY <1>2, <1>8 DEF IInv
  <2>2. procPc \in {"deque", "clear"}
    BY <1>2, <2>1 DEF Meet, IInv, TypeOK
  <2>3. Read = cuts[H] /\ Consumed = cuts[H]
    BY <2>1, <2>2 DEF Read, Consumed, Intact, H
  <2>4. W = R + (Written - Read) /\ W <= Size
    BY <1>2, <2>1 DEF BufferInv, UnreadInv
  <2>5. remainDataSize' = Written - Read /\ backlog' = Written - Read
    <3>1. W - R = Written - Read /\ W - R \in Int /\ W - R \in 0..(Word - 1)
      BY <2>1, <2>4, Numbers, IntactNumbers, BufferAssumption
    <3> QED BY <1>1, <1>3, <2>3, <3>1, WordRem
  <2>6. R + remainDataSize' <= Size
    BY <2>1, <2>4, <2>5, Numbers, IntactNumbers
  <2>7. PlaceInv' /\ UnreadInv' /\ NewInv'
    BY <1>1, <1>2, <1>3, <2>1, <2>2, <2>5, <2>6
       DEF BufferInv, PlaceInv, UnreadInv, NewInv, Cell
  <2>8. PacketInv'
    BY <1>2, <2>2 DEF PacketInv
  <2> QED BY <2>7, <2>8 DEF BufferInv
<1> QED BY <1>1, <1>2, <1>6, <1>7, <1>8 DEF IInv

\* The unread bytes move to the front of the buffer.
LEMMA MoveStep ==
    ASSUME IInv, ~fault, SetPacketDataMove, raced' = (raced \/ Meet'), UNCHANGED cuts
    PROVE  IInv'
<1>1. /\ RecvStep("move", "moved")
      /\ fault' = (remainDataSize > 0 /\ R + remainDataSize > Size)
      /\ mPacketDataBuffer' =
           IF fault' THEN mPacketDataBuffer
           ELSE [i \in Cells |-> IF i < remainDataSize THEN Cell(R + i) ELSE Cell(i)]
      /\ UNCHANGED <<mPacketDataBufferWPos, mPacketDataBufferRPos, tokens,
                     dataSize, remainDataSize, backlog>>
  BY DEF SetPacketDataMove, setVars, R, Cell
<1>2. fault' <=> remainDataSize > 0 /\ R + remainDataSize > Size
  BY <1>1
<1>3. /\ recvPc = "move" /\ recvPc' = "moved"
      /\ UNCHANGED <<arrived, coalesced, procPc, remainByte, packetInfo, clears, handled, lost>>
      /\ StreamInv' /\ HandledInv' /\ Total' = Total /\ H' = H
      /\ cuts[H]' = cuts[H] /\ cuts[H + 1]' = cuts[H + 1]
      /\ raced' \in BOOLEAN /\ Read' = Read
      /\ Intact' => Intact /\ ~Meet'
      /\ TokenInv /\ OneComplete => TokenInv' /\ OneComplete'
  BY <1>1, WorkerFrame
<1>4. Written' = Written /\ W' = W /\ R' = R
  BY <1>1, <1>3 DEF Written, W, R
<1>5. TypeOK'
  <2>1. mPacketDataBuffer' \in [Cells -> 0..Total]
    <3>1. CASE fault'
      BY <1>1, <3>1 DEF IInv, TypeOK
    <3>2. CASE ~fault'
      <4>1. ASSUME NEW i \in Cells, i < remainDataSize PROVE Cell(R + i) \in 0..Total
        <5>1. R + i \in Cells
          BY <1>2, <3>2, <4>1, Numbers, BufferAssumption DEF Cells
        <5> QED BY <5>1 DEF IInv, TypeOK, Cell
      <4>2. ASSUME NEW i \in Cells PROVE Cell(i) \in 0..Total
        BY DEF IInv, TypeOK, Cell
      <4> QED BY <1>1, <3>2, <4>1, <4>2
    <3> QED BY <3>1, <3>2
  <2>2. {fault', raced', lost', coalesced'} \subseteq BOOLEAN
    BY <1>1, <1>3 DEF IInv, TypeOK
  <2> QED BY <1>1, <1>3, <2>1, <2>2 DEF IInv, TypeOK
<1>6. ASSUME Intact' PROVE BufferInv /\ ~fault'
  <2>1. BufferInv
    BY <1>3, <1>6 DEF IInv
  <2>2. ~(R + remainDataSize > Size)
    BY <1>3, <2>1, Numbers, BufferAssumption DEF BufferInv, UnreadInv
  <2> QED BY <1>2, <2>1, <2>2
<1>7. OverrunOnlyWhenFull'
  BY <1>6 DEF OverrunOnlyWhenFull
<1>8. ASSUME Intact' PROVE BufferInv'
  <2>1. BufferInv /\ ~fault' /\ Intact
    BY <1>3, <1>6, <1>8
  <2>2. procPc \in {"deque", "clear"} /\ R <= Read /\ Read <= Written
    BY <1>3, <2>1 DEF BufferInv, PlaceInv
  <2>3. /\ remainDataSize = Written - Read /\ backlog = Written - Read
        /\ R + remainDataSize <= Size /\ W = R + remainDataSize
    BY <1>3, <2>1 DEF BufferInv, UnreadInv
  <2>4. ASSUME NEW i \in Cells, i < remainDataSize PROVE Cell(i)' = Read + 1 + i
    <3>1. R + i \in Cells /\ R <= R + i /\ R + i < W /\ (R + i) - R = i
      BY <2>1, <2>3, <2>4, Numbers, BufferAssumption DEF Cells
    <3>2. Cell(R + i) = Read + 1 + ((R + i) - R)
      BY <1>3, <2>1, <3>1 DEF BufferInv, UnreadInv
    <3>3. Cell(i)' = Cell(R + i)
      BY <1>1, <2>1, <2>4 DEF Cell
    <3> QED BY <3>1, <3>2, <3>3
  <2>5. PlaceInv' /\ NewInv' /\ PacketInv'
    BY <1>3, <1>4, <2>2 DEF PlaceInv, NewInv, PacketInv
  <2>6. UnreadInv'
    BY <1>1, <1>3, <1>4, <2>3, <2>4 DEF UnreadInv
  <2> QED BY <2>5, <2>6 DEF BufferInv
<1> QED BY <1>1, <1>3, <1>5, <1>7, <1>8 DEF IInv

\* The write position follows.
LEMMA MovedStep ==
    ASSUME IInv, ~fault, SetPacketDataMoved, raced' = (raced \/ Meet'), UNCHANGED cuts
    PROVE  IInv'
<1>1. /\ RecvStep("moved", "reset") /\ mPacketDataBufferWPos' = remainDataSize
      /\ UNCHANGED <<mPacketDataBuffer, mPacketDataBufferRPos, tokens,
                     dataSize, remainDataSize, backlog, fault>>
  BY DEF SetPacketDataMoved, setVars
<1>2. /\ recvPc = "moved" /\ recvPc' = "reset"
      /\ UNCHANGED <<arrived, coalesced, procPc, remainByte, packetInfo, clears, handled, lost>>
      /\ StreamInv' /\ HandledInv' /\ Total' = Total /\ H' = H
      /\ cuts[H]' = cuts[H] /\ cuts[H + 1]' = cuts[H + 1]
      /\ raced' \in BOOLEAN /\ Read' = Read
      /\ Intact' => Intact /\ ~Meet'
      /\ TokenInv /\ OneComplete => TokenInv' /\ OneComplete'
  BY <1>1, WorkerFrame
<1>3. Written' = Written /\ W' = remainDataSize /\ R' = R
  BY <1>1, <1>2 DEF Written, W, R
<1>4. TypeOK'
  BY <1>1, <1>2 DEF IInv, TypeOK
<1>5. OverrunOnlyWhenFull'
  BY <1>1 DEF OverrunOnlyWhenFull
<1>6. ASSUME Intact' PROVE BufferInv'
  <2>1. Intact /\ BufferInv
    BY <1>2, <1>6 DEF IInv
  <2>2. procPc \in {"deque", "clear"}
    BY <1>2, <2>1 DEF BufferInv, PlaceInv
  <2>3. PlaceInv' /\ NewInv' /\ PacketInv'
    BY <1>2, <1>3, <2>1, <2>2 DEF BufferInv, PlaceInv, NewInv, PacketInv
  <2>4. UnreadInv'
    BY <1>1, <1>2, <1>3, <2>1 DEF BufferInv, UnreadInv, Cell
  <2> QED BY <2>3, <2>4 DEF BufferInv
<1> QED BY <1>1, <1>2, <1>4, <1>5, <1>6 DEF IInv

\* The read position is the front: the buffer is as before, with the unread
\* bytes in front.
LEMMA ResetStep ==
    ASSUME IInv, ~fault, SetPacketDataReset, raced' = (raced \/ Meet'), UNCHANGED cuts
    PROVE  IInv'
<1>1. /\ RecvStep("reset", "copy") /\ mPacketDataBufferRPos' = 0
      /\ UNCHANGED <<mPacketDataBuffer, mPacketDataBufferWPos, tokens,
                     dataSize, remainDataSize, backlog, fault>>
  BY DEF SetPacketDataReset, setVars
<1>2. /\ recvPc = "reset" /\ recvPc' = "copy"
      /\ UNCHANGED <<arrived, coalesced, procPc, remainByte, packetInfo, clears, handled, lost>>
      /\ StreamInv' /\ HandledInv' /\ Total' = Total /\ H' = H
      /\ cuts[H]' = cuts[H] /\ cuts[H + 1]' = cuts[H + 1]
      /\ raced' \in BOOLEAN /\ Read' = Read
      /\ Intact' => Intact /\ ~Meet'
      /\ TokenInv /\ OneComplete => TokenInv' /\ OneComplete'
  BY <1>1, WorkerFrame
<1>3. Written' = Written /\ W' = W /\ R' = 0
  BY <1>1, <1>2 DEF Written, W, R
<1>4. TypeOK'
  <2>1. mPacketDataBufferRPos' \in 0..(Word - 1)
    BY <1>1, BufferAssumption
  <2> QED BY <1>1, <1>2, <2>1 DEF IInv, TypeOK
<1>5. OverrunOnlyWhenFull'
  BY <1>1 DEF OverrunOnlyWhenFull
<1>6. ASSUME Intact' PROVE BufferInv'
  <2>1. Intact /\ BufferInv
    BY <1>2, <1>6 DEF IInv
  <2>2. procPc \in {"deque", "clear"} /\ Read <= Written
    BY <1>2, <2>1 DEF BufferInv, PlaceInv
  <2>3. /\ remainDataSize = Written - Read /\ backlog = Written - Read
        /\ R + remainDataSize <= Size /\ W = remainDataSize
        /\ \A i \in Cells : i < remainDataSize => Cell(i) = Read + 1 + i
    BY <1>2, <2>1 DEF BufferInv, UnreadInv
  <2>4. PlaceInv' /\ NewInv' /\ PacketInv'
    BY <1>1, <1>2, <1>3, <2>1, <2>2, <2>3, IntactNumbers DEF PlaceInv, NewInv, PacketInv
  <2>5. W = 0 + (Written - Read) /\ W <= Size
    BY <2>1, <2>3, Numbers, IntactNumbers, BufferAssumption
  <2>6. ASSUME NEW i \in Cells, i < W PROVE Cell(i)' = Read + 1 + (i - 0)
    BY <1>1, <2>3, <2>6, BufferAssumption DEF Cell, Cells
  <2>7. UnreadInv'
    BY <1>2, <1>3, <2>5, <2>6 DEF UnreadInv
  <2> QED BY <2>4, <2>7 DEF BufferInv
<1> QED BY <1>1, <1>2, <1>4, <1>5, <1>6 DEF IInv

\* The new bytes go behind the unread ones; they leave the buffer only if it
\* was compacted and they do not fit.
LEMMA CopyStep ==
    ASSUME IInv, ~fault, SetPacketDataCopy, raced' = (raced \/ Meet'), UNCHANGED cuts
    PROVE  IInv'
<1> DEFINE first == arrived - dataSize + 1
<1>1. /\ RecvStep("copy", "store") /\ fault' = (W + dataSize > Size)
      /\ mPacketDataBuffer' =
           IF fault' THEN mPacketDataBuffer
           ELSE [i \in Cells |-> IF i \in W..(W + dataSize - 1) THEN first + (i - W) ELSE Cell(i)]
      /\ UNCHANGED <<mPacketDataBufferWPos, mPacketDataBufferRPos, tokens,
                     dataSize, remainDataSize, backlog>>
  BY DEF SetPacketDataCopy, setVars, W, Cell
<1>2. /\ recvPc = "copy" /\ recvPc' = "store"
      /\ UNCHANGED <<arrived, coalesced, procPc, remainByte, packetInfo, clears, handled, lost>>
      /\ StreamInv' /\ HandledInv' /\ Total' = Total /\ H' = H
      /\ cuts[H]' = cuts[H] /\ cuts[H + 1]' = cuts[H + 1]
      /\ raced' \in BOOLEAN /\ Read' = Read
      /\ Intact' => Intact /\ ~Meet'
      /\ TokenInv /\ OneComplete => TokenInv' /\ OneComplete'
  BY <1>1, WorkerFrame
<1>3. Written' = Written /\ W' = W /\ R' = R /\ Written = arrived - dataSize
  BY <1>1, <1>2 DEF Written, W, R
<1>4. fault' <=> W + dataSize > Size
  BY <1>1
<1>5. TypeOK'
  <2>1. mPacketDataBuffer' \in [Cells -> 0..Total]
    <3>1. CASE fault'
      BY <1>1, <3>1 DEF IInv, TypeOK
    <3>2. CASE ~fault'
      <4>1. ASSUME NEW i \in Cells, i \in W..(W + dataSize - 1) PROVE first + (i - W) \in 0..Total
        BY <4>1, Numbers, BufferAssumption
      <4>2. ASSUME NEW i \in Cells PROVE Cell(i) \in 0..Total
        BY DEF IInv, TypeOK, Cell
      <4> QED BY <1>1, <3>2, <4>1, <4>2
    <3> QED BY <3>1, <3>2
  <2>2. {fault', raced', lost', coalesced'} \subseteq BOOLEAN
    BY <1>1, <1>2 DEF IInv, TypeOK
  <2> QED BY <1>1, <1>2, <2>1, <2>2 DEF IInv, TypeOK
<1>6. ASSUME Intact' PROVE Intact /\ BufferInv
  BY <1>2, <1>6 DEF IInv
<1>7. OverrunOnlyWhenFull'
  <2>1. SUFFICES ASSUME Intact', fault' PROVE backlog + dataSize > Size
    BY <1>1, <1>2 DEF OverrunOnlyWhenFull
  <2>2. W + dataSize > Size /\ (W + dataSize < Size \/ W = backlog)
    BY <1>2, <1>4, <1>6, <2>1 DEF BufferInv, NewInv
  <2> QED BY <2>2, Numbers, BufferAssumption
<1>8. ASSUME Intact', ~fault' PROVE BufferInv'
  <2>1. BufferInv /\ Intact /\ W + dataSize <= Size
    BY <1>4, <1>6, <1>8, Numbers, BufferAssumption
  <2>2. W = R + (Written - Read) /\ W <= Size /\ R <= W /\ Read <= Written
    BY <1>2, <2>1, Numbers, IntactNumbers DEF BufferInv, UnreadInv
  <2>3. ASSUME NEW i \in Cells, i < W PROVE Cell(i)' = Cell(i)
    <3>1. i \notin W..(W + dataSize - 1)
      BY <2>3, Numbers DEF Cells
    <3> QED BY <1>1, <1>8, <3>1 DEF Cell
  <2>4. ASSUME NEW i \in Cells, W <= i, i < W + dataSize
        PROVE  Cell(i)' = Written + 1 + (i - W)
    <3>1. i \in W..(W + dataSize - 1) /\ i \in Int
      BY <2>4, Numbers, BufferAssumption DEF Cells
    <3>2. Cell(i)' = first + (i - W)
      BY <1>1, <1>8, <3>1 DEF Cell
    <3> QED BY <1>3, <3>1, <3>2, Numbers
  <2>5. PlaceInv'
    BY <1>2, <1>3, <2>1 DEF BufferInv, PlaceInv
  <2>6. UnreadInv'
    BY <1>2, <1>3, <2>1, <2>2, <2>3 DEF BufferInv, UnreadInv
  <2>7. NewInv'
    BY <1>1, <1>2, <1>3, <2>1, <2>4 DEF NewInv
  <2>8. PacketInv'
    <3>1. ASSUME NEW i \in Cells, i < R PROVE Cell(i)' = Cell(i)
      BY <2>2, <2>3, <3>1, Numbers DEF Cells
    <3> QED BY <1>2, <1>3, <2>1, <3>1 DEF BufferInv, PacketInv
  <2> QED BY <2>5, <2>6, <2>7, <2>8 DEF BufferInv
<1> QED BY <1>1, <1>2, <1>5, <1>7, <1>8 DEF IInv

\* The write position passes them.
LEMMA StoreStep ==
    ASSUME IInv, ~fault, SetPacketDataStore, raced' = (raced \/ Meet'), UNCHANGED cuts
    PROVE  IInv'
<1>1. /\ RecvStep("store", "enqueue") /\ mPacketDataBufferWPos' = (W + dataSize) % Word
      /\ UNCHANGED <<mPacketDataBuffer, mPacketDataBufferRPos, tokens,
                     dataSize, remainDataSize, backlog, fault>>
  BY DEF SetPacketDataStore, setVars, W
<1>2. /\ recvPc = "store" /\ recvPc' = "enqueue"
      /\ UNCHANGED <<arrived, coalesced, procPc, remainByte, packetInfo, clears, handled, lost>>
      /\ StreamInv' /\ HandledInv' /\ Total' = Total /\ H' = H
      /\ cuts[H]' = cuts[H] /\ cuts[H + 1]' = cuts[H + 1]
      /\ raced' \in BOOLEAN /\ Read' = Read
      /\ Intact' => Intact /\ ~Meet'
      /\ TokenInv /\ OneComplete => TokenInv' /\ OneComplete'
  BY <1>1, WorkerFrame
<1>3. Written' = arrived /\ R' = R /\ Written = arrived - dataSize
  BY <1>1, <1>2 DEF Written, R
<1>4. TypeOK'
  <2>1. mPacketDataBufferWPos' \in 0..(Word - 1)
    BY <1>1, Numbers, WordRem
  <2> QED BY <1>1, <1>2, <2>1 DEF IInv, TypeOK
<1>5. OverrunOnlyWhenFull'
  BY <1>1 DEF OverrunOnlyWhenFull
<1>6. ASSUME Intact' PROVE BufferInv'
  <2>1. Intact /\ BufferInv
    BY <1>2, <1>6 DEF IInv
  <2>2. W + dataSize <= Size
    BY <1>2, <2>1 DEF BufferInv, NewInv
  <2>3. W' = W + dataSize
    <3>1. W + dataSize \in 0..(Word - 1) /\ W + dataSize \in Int
      BY <2>2, Numbers, BufferAssumption
    <3> QED BY <1>1, <3>1, WordRem DEF W
  <2>4. W = R + (Written - Read) /\ Read <= Written /\ R <= Read
    BY <1>2, <2>1 DEF BufferInv, UnreadInv, PlaceInv
  <2>5. W' = R + (arrived - Read) /\ W' <= Size /\ Read <= arrived /\ W <= W'
    BY <1>3, <2>1, <2>2, <2>3, <2>4, Numbers, IntactNumbers, BufferAssumption
  <2>6. ASSUME NEW i \in Cells, R <= i, i < W' PROVE Cell(i)' = Read + 1 + (i - R)
    <3>1. CASE i < W
      BY <1>1, <1>2, <2>1, <2>6, <3>1 DEF BufferInv, UnreadInv, Cell
    <3>2. CASE W <= i
      <4>1. Cell(i) = Written + 1 + (i - W)
        BY <1>2, <2>1, <2>3, <2>6, <3>2 DEF BufferInv, NewInv
      <4>2. Cell(i)' = Cell(i)
        BY <1>1 DEF Cell
      <4> QED BY <2>1, <2>4, <4>1, <4>2, Numbers, IntactNumbers, BufferAssumption DEF Cells
    <3> QED BY <3>1, <3>2, Numbers, BufferAssumption DEF Cells
  <2>7. PlaceInv'
    BY <1>2, <1>3, <2>1, <2>4, <2>5 DEF BufferInv, PlaceInv
  <2>8. UnreadInv' /\ NewInv'
    BY <1>2, <1>3, <2>5, <2>6 DEF UnreadInv, NewInv
  <2>9. PacketInv'
    <3>1. ASSUME NEW x \in Nat, x <= W - R PROVE x <= W' - R
      BY <2>3, <3>1, Numbers
    <3>2. procPc = "advance" => packetInfo.size <= W' - R
      BY <2>1, <3>1, Numbers DEF BufferInv, PacketInv
    <3>3. procPc = "header" => remainByte <= W' - R
      BY <2>1, <3>1, Numbers DEF BufferInv, PacketInv
    <3> QED BY <1>1, <1>2, <1>3, <2>1, <3>2, <3>3 DEF BufferInv, PacketInv, Cell
  <2> QED BY <2>7, <2>8, <2>9 DEF BufferInv
<1> QED BY <1>1, <1>2, <1>4, <1>5, <1>6 DEF IInv

\* The token is queued.  The packet before one that the receive completed was
\* whole before, so that it has a token of its own.
LEMMA EnqueueStep ==
    ASSUME IInv, ~fault, EnqueuePacketData, raced' = (raced \/ Meet'), UNCHANGED cuts
    PROVE  IInv'
<1>1. /\ recvPc = "enqueue" /\ recvPc' = "recv" /\ tokens' = tokens + 1
      /\ dataSize' = 0 /\ remainDataSize' = 0 /\ backlog' = 0
      /\ UNCHANGED <<arrived, coalesced, procPc, remainByte, packetInfo, clears, handled, lost,
                     mPacketDataBuffer, mPacketDataBufferWPos, mPacketDataBufferRPos, fault>>
  BY DEF EnqueuePacketData, RecvStep, procVars, bufferVars
<1>2. /\ StreamInv' /\ HandledInv' /\ Total' = Total /\ H' = H
      /\ cuts[H]' = cuts[H] /\ cuts[H + 1]' = cuts[H + 1]
  BY <1>1, SameStream, SameHandled, Numbers
<1>3. TypeOK'
  <2>1. /\ tokens' \in Nat /\ dataSize' \in 0..MaxChunk /\ remainDataSize' \in 0..(Word - 1)
        /\ backlog' \in 0..Total /\ raced' \in BOOLEAN
    BY <1>1, Numbers, BufferAssumption
  <2> QED BY <1>1, <1>2, <2>1 DEF IInv, TypeOK
<1>4. OverrunOnlyWhenFull'
  BY <1>1 DEF OverrunOnlyWhenFull
<1>5. ASSUME Intact' PROVE Intact
  BY <1>1, <1>5, WasIntact
<1>6. ASSUME Intact' PROVE BufferInv'
  <2>1. BufferInv
    BY <1>5, <1>6 DEF IInv
  <2>2. Read' = Read /\ Written' = Written /\ W' = W /\ R' = R
    BY <1>1, <1>2 DEF Read, Written, W, R
  <2> QED BY <1>1, <1>2, <2>1, <2>2
          DEF BufferInv, PlaceInv, UnreadInv, NewInv, PacketInv, Cell
<1>7. ASSUME Intact', ~coalesced' PROVE TokenInv' /\ OneComplete'
  <2>1. TokenInv /\ OneComplete
    BY <1>1, <1>5, <1>7 DEF IInv
  <2>2. Announced = arrived - dataSize /\ Announced' = arrived /\ InHand' = InHand
    BY <1>1, <1>2 DEF Announced, InHand
  <2>3. InHand \in {0, 1}
    BY DEF InHand
  <2>4. ASSUME NEW k \in 1..Packets, cuts[k] <= arrived
        PROVE  k <= H + (tokens + 1) + InHand
    <3>1. k \in 0..Packets /\ k - 1 \in 0..Packets /\ k - 1 < k
      BY BufferAssumption
    <3>2. /\ cuts[k] \in Nat /\ cuts[k - 1] \in Nat /\ cuts[k - 1] < cuts[k]
      BY <3>1, TotalFacts, CutsIncrease DEF IInv
    <3>3. CASE cuts[k] <= arrived - dataSize
      <4>1. k <= H + tokens + InHand
        BY <2>1, <2>2, <3>3 DEF TokenInv
      <4> QED BY <2>3, <4>1, Numbers
    <3>4. CASE k = 1
      BY <2>3, <3>4, Numbers
    <3>5. CASE ~(cuts[k] <= arrived - dataSize) /\ k # 1
      <4>1. k - 1 \in 1..Packets /\ k - 1 # k
        BY <3>5, BufferAssumption
      <4>2. cuts[k - 1] <= arrived - dataSize
        <5>1. ~(arrived - dataSize < cuts[k - 1])
          BY <2>1, <2>4, <3>2, <3>5, <4>1, Numbers DEF OneComplete
        <5> QED BY <3>2, <5>1, Numbers
      <4>3. k - 1 <= H + tokens + InHand
        BY <2>1, <2>2, <4>1, <4>2 DEF TokenInv
      <4> QED BY <2>3, <4>3, Numbers
    <3> QED BY <3>3, <3>4, <3>5
  <2>5. TokenInv'
    BY <1>1, <1>2, <2>2, <2>4 DEF TokenInv
  <2>6. OneComplete'
    <3>1. SUFFICES ASSUME NEW j \in 1..Packets, arrived - 0 < cuts[j], cuts[j] <= arrived
                   PROVE  FALSE
      BY <1>1 DEF OneComplete
    <3>2. j \in 0..Packets
      BY BufferAssumption
    <3>3. cuts[j] \in Nat
      BY <3>2, TotalFacts DEF IInv
    <3> QED BY <3>1, <3>3, Numbers
  <2> QED BY <2>5, <2>6
<1> QED BY <1>1, <1>2, <1>3, <1>4, <1>6, <1>7 DEF IInv

----------------------------------------------------------------------------
(* The process thread.                                                     *)

\* What its steps have in common, but for the handler: they leave the worker
\* and the packets handled alone.
LEMMA ProcFrame ==
    ASSUME IInv, NEW from, NEW to, ProcStep(from, to), UNCHANGED <<cuts, handled>>,
           raced' = (raced \/ Meet')
    PROVE  /\ procPc = from /\ procPc' = to
           /\ UNCHANGED <<arrived, recvPc, dataSize, remainDataSize, backlog, coalesced>>
           /\ StreamInv' /\ HandledInv' /\ Total' = Total /\ H' = H
           /\ cuts[H]' = cuts[H] /\ cuts[H + 1]' = cuts[H + 1]
           /\ raced' \in BOOLEAN /\ Written' = Written /\ Announced' = Announced
           /\ OneComplete => OneComplete'
<1>1. /\ procPc = from /\ procPc' = to
      /\ UNCHANGED <<arrived, recvPc, dataSize, remainDataSize, backlog, coalesced>>
  BY DEF ProcStep, recvVars, setVars
<1>2. /\ StreamInv' /\ HandledInv' /\ Total' = Total /\ H' = H
      /\ cuts[H]' = cuts[H] /\ cuts[H + 1]' = cuts[H + 1]
  <2>1. dataSize' <= arrived' /\ (recvPc' = "recv" <=> dataSize' = 0)
    BY <1>1 DEF IInv, HandledInv
  <2> QED BY <2>1, SameStream, SameHandled
<1>3. raced' \in BOOLEAN
  OBVIOUS
<1>4. Written' = Written /\ Announced' = Announced /\ (OneComplete => OneComplete')
  BY <1>1 DEF Written, Announced, OneComplete
<1> QED BY <1>1, <1>2, <1>3, <1>4

\* A token is taken in hand.
LEMMA DequeStep ==
    ASSUME IInv, ~fault, DequePacketData, raced' = (raced \/ Meet'), UNCHANGED cuts
    PROVE  IInv'
<1>1. /\ ProcStep("deque", "getpacket") /\ tokens > 0 /\ tokens' = tokens - 1
      /\ UNCHANGED <<mPacketDataBuffer, mPacketDataBufferWPos, mPacketDataBufferRPos,
                     remainByte, packetInfo, clears, handled, lost, fault>>
  BY DEF DequePacketData, bufferVars
<1>2. /\ procPc = "deque" /\ procPc' = "getpacket"
      /\ UNCHANGED <<arrived, recvPc, dataSize, remainDataSize, backlog, coalesced>>
      /\ StreamInv' /\ HandledInv' /\ Total' = Total /\ H' = H
      /\ cuts[H]' = cuts[H] /\ cuts[H + 1]' = cuts[H + 1]
      /\ raced' \in BOOLEAN /\ Written' = Written /\ Announced' = Announced
      /\ OneComplete => OneComplete'
  BY <1>1, ProcFrame
<1>3. TypeOK'
  <2>1. tokens' \in Nat
    BY <1>1, Numbers
  <2> QED BY <1>1, <1>2, <2>1 DEF IInv, TypeOK
<1>4. OverrunOnlyWhenFull'
  BY <1>1 DEF OverrunOnlyWhenFull
<1>5. ASSUME Intact' PROVE BufferInv' /\ Intact
  <2>1. Intact /\ ~Meet'
    BY <1>1, <1>5, WasIntact
  <2>2. BufferInv
    BY <2>1 DEF IInv
  <2>3. recvPc \notin {"move", "moved", "reset"}
    BY <1>2, <2>1 DEF Meet
  <2>4. Read' = Read /\ W' = W /\ R' = R
    BY <1>1, <1>2 DEF Read, W, R
  <2>5. BufferInv'
    BY <1>1, <1>2, <2>2, <2>3, <2>4
       DEF BufferInv, PlaceInv, UnreadInv, NewInv, PacketInv, Cell
  <2> QED BY <2>1, <2>5
<1>6. ASSUME Intact', ~coalesced' PROVE TokenInv' /\ OneComplete'
  <2>1. TokenInv /\ OneComplete
    BY <1>2, <1>5, <1>6 DEF IInv
  <2>2. InHand = 0 /\ InHand' = 1
    BY <1>2 DEF InHand
  <2>3. H + tokens + InHand = H' + tokens' + InHand'
    BY <1>1, <1>2, <2>2, Numbers
  <2>4. TokenInv'
    BY <1>2, <2>1, <2>3 DEF TokenInv
  <2> QED BY <1>2, <2>1, <2>4
<1> QED BY <1>1, <1>2, <1>3, <1>4, <1>5, <1>6 DEF IInv

\* When the next packet is not whole, no packet after those handled was
\* announced: no token is needed.
LEMMA NoneWhole ==
    ASSUME IInv, Intact, ~fault, procPc # "handle", recvPc \notin {"moved", "reset"},
           H < Packets => W - R < cuts[H + 1] - cuts[H],
           NEW k \in 1..Packets, cuts[k] <= Announced
    PROVE  k <= H
<1>1. SUFFICES ASSUME ~(k <= H) PROVE FALSE
  OBVIOUS
<1>2. H < Packets /\ H + 1 <= k
  BY <1>1, Numbers, BufferAssumption
<1>3. /\ H + 1 \in 0..Packets /\ k \in 0..Packets
      /\ cuts[H + 1] \in Nat /\ cuts[k] \in Nat
  BY <1>2, Numbers, NextCut, TotalFacts, BufferAssumption DEF IInv
<1>4. cuts[H + 1] <= cuts[k]
  <2>1. CASE H + 1 = k
    BY <1>3, <2>1
  <2>2. CASE H + 1 < k
    <3>1. cuts[H + 1] < cuts[k]
      BY <1>3, <2>2, CutsIncrease DEF IInv
    <3> QED BY <1>3, <3>1
  <2> QED BY <1>2, <2>1, <2>2, Numbers
<1>5. W - R = Written - cuts[H]
  BY Numbers, IntactNumbers DEF BufferInv, UnreadInv
<1> QED BY <1>2, <1>3, <1>4, <1>5, Numbers, IntactNumbers

\* GetPacket looks at how much is unread.
LEMMA GetRemainStep ==
    ASSUME IInv, ~fault, GetPacketRemain, raced' = (raced \/ Meet'), UNCHANGED cuts
    PROVE  IInv'
<1> DEFINE remain == (W - R) % Word
           some == remain >= HeaderLen
           to == IF some THEN "header" ELSE "deque"
<1>1. /\ ProcStep("getpacket", to) /\ remainByte' = IF some THEN remain ELSE 0
      /\ UNCHANGED <<mPacketDataBuffer, mPacketDataBufferWPos, mPacketDataBufferRPos, tokens,
                     packetInfo, clears, handled, lost, fault>>
  BY DEF GetPacketRemain, bufferVars, W, R
<1>2. remain \in 0..(Word - 1)
  BY Numbers, WordRem
<1> HIDE DEF remain
<1>3. to \in {"header", "deque"} /\ remainByte' \in 0..(Word - 1)
  BY <1>1, <1>2, BufferAssumption
<1>4. (to = "header" <=> some) /\ (to = "deque" <=> ~some)
  OBVIOUS
<1> HIDE DEF to
<1>5. /\ procPc = "getpacket" /\ procPc' = to
      /\ UNCHANGED <<arrived, recvPc, dataSize, remainDataSize, backlog, coalesced>>
      /\ StreamInv' /\ HandledInv' /\ Total' = Total /\ H' = H
      /\ cuts[H]' = cuts[H] /\ cuts[H + 1]' = cuts[H + 1]
      /\ raced' \in BOOLEAN /\ Written' = Written /\ Announced' = Announced
      /\ OneComplete => OneComplete'
  BY <1>1, ProcFrame
<1>6. TypeOK'
  BY <1>1, <1>3, <1>5 DEF IInv, TypeOK
<1>7. OverrunOnlyWhenFull'
  BY <1>1 DEF OverrunOnlyWhenFull
<1>8. ASSUME Intact'
      PROVE  /\ Intact /\ BufferInv /\ recvPc \notin {"move", "moved", "reset"}
             /\ remain = W - R /\ W - R \in Nat
  <2>1. Intact
    BY <1>1, <1>8, WasIntact
  <2>2. BufferInv
    BY <2>1 DEF IInv
  <2>3. recvPc \notin {"move", "moved", "reset"}
    BY <1>5, <2>2 DEF BufferInv, PlaceInv
  <2>4. W = R + (Written - Read) /\ W <= Size
    BY <2>2, <2>3 DEF BufferInv, UnreadInv
  <2>5. W - R \in 0..(Word - 1) /\ W - R \in Nat
    BY <2>1, <2>4, Numbers, IntactNumbers, BufferAssumption
  <2> QED BY <2>1, <2>2, <2>3, <2>5, WordRem DEF remain
<1>9. ASSUME Intact' PROVE BufferInv'
  <2>1. Read' = Read /\ W' = W /\ R' = R
    BY <1>1, <1>3, <1>5 DEF Read, W, R
  <2>2. PlaceInv' /\ UnreadInv' /\ NewInv'
    BY <1>1, <1>3, <1>5, <1>8, <1>9, <2>1
       DEF BufferInv, PlaceInv, UnreadInv, NewInv, Cell
  <2>3. to = "header" => HeaderLen <= remainByte' /\ remainByte' <= W - R
    BY <1>1, <1>4, <1>8, <1>9, BufferAssumption
  <2>4. PacketInv'
    BY <1>3, <1>5, <2>1, <2>3 DEF PacketInv
  <2> QED BY <2>2, <2>4 DEF BufferInv
<1>10. ASSUME Intact', ~coalesced' PROVE TokenInv' /\ OneComplete'
  <2>1. TokenInv /\ OneComplete
    BY <1>5, <1>8, <1>10 DEF IInv
  <2>2. InHand = 1
    BY <1>5 DEF InHand
  <2>3. CASE InHand' = 1
    <3>1. TokenInv'
      BY <1>1, <1>5, <2>1, <2>2, <2>3 DEF TokenInv
    <3> QED BY <1>5, <2>1, <3>1
  <2>4. CASE InHand' = 0
    <3>1. H < Packets => W - R < cuts[H + 1] - cuts[H]
      <4>1. SUFFICES ASSUME H < Packets PROVE W - R < cuts[H + 1] - cuts[H]
        OBVIOUS
      <4>2. cuts[H + 1] - cuts[H] \in HeaderLen..Size
        BY <4>1, NextCut, Numbers DEF IInv
      <4>3. CASE some
        <5>1. ~(cuts[H + 1] - cuts[H] <= remainByte')
          BY <1>4, <1>5, <2>4, <4>3 DEF InHand
        <5>2. remainByte' = W - R
          BY <1>1, <1>8, <1>10, <4>3
        <5> QED BY <1>8, <1>10, <4>2, <5>1, <5>2, BufferAssumption
      <4>4. CASE ~some
        BY <1>8, <1>10, <4>2, <4>4, BufferAssumption
      <4> QED BY <4>3, <4>4
    <3>2. ASSUME NEW k \in 1..Packets, cuts[k] <= Announced PROVE k <= H + tokens + 0
      <4>1. k <= H
        BY <1>5, <1>8, <1>10, <3>1, <3>2, NoneWhole
      <4> QED BY <4>1, Numbers
    <3>3. TokenInv'
      BY <1>1, <1>5, <2>4, <3>2 DEF TokenInv
    <3> QED BY <1>5, <2>1, <3>3
  <2> QED BY <2>3, <2>4 DEF InHand
<1> QED BY <1>1, <1>5, <1>6, <1>7, <1>9, <1>10 DEF IInv

\* The length GetPacket reads is that of the next packet of the stream.
LEMMA HeaderIsTrue ==
    ASSUME IInv, Intact, ~fault, procPc = "header"
    PROVE  /\ R \in Cells /\ H < Packets
           /\ LengthAt(R) = {cuts[H + 1] - cuts[H]}
<1>1. recvPc \notin {"move", "moved", "reset"}
  BY IntactNumbers DEF BufferInv, PlaceInv
<1>2. W = R + (Written - Read) /\ W <= Size /\ Read = cuts[H]
  BY <1>1, IntactNumbers DEF BufferInv, UnreadInv
<1>3. R \in Cells /\ R < W
  BY <1>2, Numbers, IntactNumbers, BufferAssumption DEF BufferInv, PacketInv, Cells
<1>4. mPacketDataBuffer[R] = cuts[H] + 1
  <2>1. R <= R /\ R - R = 0
    BY Numbers
  <2>2. Cell(R) = Read + 1 + (R - R)
    BY <1>1, <1>3, <2>1, IntactNumbers DEF BufferInv, UnreadInv
  <2> QED BY <1>2, <2>1, <2>2, Numbers DEF Cell
<1>5. H < Packets
  <2>1. cuts[H] < Written /\ Written <= Total
    BY <1>2, <1>3, Numbers, IntactNumbers
  <2>2. H # Packets
    BY <2>1, Numbers, IntactNumbers DEF Total
  <2> QED BY <2>2, Numbers, BufferAssumption
<1>6. ASSUME NEW k \in 1..Packets
      PROVE  mPacketDataBuffer[R] = cuts[k - 1] + 1 <=> k = H + 1
  <2>1. k - 1 \in 0..Packets /\ H \in 0..Packets
    BY Numbers, BufferAssumption
  <2>2. cuts[k - 1] \in Nat /\ cuts[H] \in Nat
    BY <2>1, TotalFacts DEF IInv
  <2>3. k - 1 < H => cuts[k - 1] < cuts[H]
    BY <2>1, CutsIncrease DEF IInv
  <2>4. H < k - 1 => cuts[H] < cuts[k - 1]
    BY <2>1, CutsIncrease DEF IInv
  <2> QED BY <1>4, <2>1, <2>2, <2>3, <2>4, Numbers, BufferAssumption
<1>7. H + 1 \in 1..Packets /\ (H + 1) - 1 = H
  BY <1>5, Numbers, BufferAssumption
<1>8. {k \in 1..Packets : mPacketDataBuffer[R] = cuts[k - 1] + 1} = {H + 1}
  BY <1>6, <1>7
<1>9. LengthAt(R) = {cuts[k] - cuts[k - 1] : k \in {H + 1}}
  BY <1>8 DEF LengthAt
<1>10. LengthAt(R) = {cuts[H + 1] - cuts[(H + 1) - 1]}
  BY <1>9
<1> QED BY <1>3, <1>5, <1>7, <1>10

\* Whatever lies at a cell, the length is at most Size.
LEMMA LengthType ==
    ASSUME StreamInv, NEW p, NEW n \in LengthAt(p)
    PROVE  n \in 0..Size
<1>1. \A k \in 1..Packets : cuts[k] - cuts[k - 1] \in 0..Size
  <2>1. HeaderLen..Size \subseteq 0..Size
    BY BufferAssumption
  <2> QED BY <2>1, BufferAssumption DEF StreamInv
<1> QED BY <1>1 DEF LengthAt

\* The packet is taken if it is whole; otherwise the token is used up, and
\* none is missing.
LEMMA GetHeaderStep ==
    ASSUME IInv, ~fault, mPacketDataBufferRPos \in Cells,
           NEW n \in LengthAt(mPacketDataBufferRPos), GetPacketHeader(n),
           raced' = (raced \/ Meet'), UNCHANGED cuts
    PROVE  IInv'
<1> DEFINE whole == n <= remainByte
           to == IF whole THEN "advance" ELSE "deque"
<1>1. /\ ProcStep("header", to) /\ remainByte' = 0
      /\ packetInfo' = IF whole THEN [at |-> mPacketDataBufferRPos, size |-> n] ELSE packetInfo
      /\ UNCHANGED <<mPacketDataBuffer, mPacketDataBufferWPos, mPacketDataBufferRPos, tokens,
                     clears, handled, lost, fault>>
  BY DEF GetPacketHeader, TakeHeader, bufferVars
<1>2. (to = "advance" <=> whole) /\ (to = "deque" <=> ~whole) /\ to \in {"advance", "deque"}
  OBVIOUS
<1> HIDE DEF to
<1>3. /\ procPc = "header" /\ procPc' = to
      /\ UNCHANGED <<arrived, recvPc, dataSize, remainDataSize, backlog, coalesced>>
      /\ StreamInv' /\ HandledInv' /\ Total' = Total /\ H' = H
      /\ cuts[H]' = cuts[H] /\ cuts[H + 1]' = cuts[H + 1]
      /\ raced' \in BOOLEAN /\ Written' = Written /\ Announced' = Announced
      /\ OneComplete => OneComplete'
  BY <1>1, ProcFrame
<1>4. TypeOK'
  <2>1. n \in 0..Size
    BY LengthType DEF IInv
  <2>2. packetInfo' \in [at : 0..(Word - 1), size : 0..Size]
    BY <1>1, <2>1 DEF IInv, TypeOK
  <2>3. remainByte' \in 0..(Word - 1)
    BY <1>1, BufferAssumption
  <2> QED BY <1>1, <1>2, <1>3, <2>2, <2>3 DEF IInv, TypeOK
<1>5. OverrunOnlyWhenFull'
  BY <1>1 DEF OverrunOnlyWhenFull
<1>6. ASSUME Intact'
      PROVE  Intact /\ BufferInv /\ H < Packets /\ n = cuts[H + 1] - cuts[H] /\ n \in Nat
  <2>1. Intact
    BY <1>1, <1>6, WasIntact
  <2>2. H < Packets /\ n = cuts[H + 1] - cuts[H]
    BY <1>3, <2>1, HeaderIsTrue DEF R
  <2>3. n \in Nat
    BY LengthType, BufferAssumption DEF IInv
  <2> QED BY <2>1, <2>2, <2>3 DEF IInv
<1>7. ASSUME Intact' PROVE BufferInv'
  <2>1. Read' = Read /\ W' = W /\ R' = R
    BY <1>1, <1>2, <1>3 DEF Read, W, R
  <2>2. recvPc \notin {"move", "moved", "reset"}
    BY <1>3, <1>6, <1>7 DEF BufferInv, PlaceInv
  <2>3. PlaceInv' /\ UnreadInv' /\ NewInv'
    BY <1>1, <1>2, <1>3, <1>6, <1>7, <2>1, <2>2
       DEF BufferInv, PlaceInv, UnreadInv, NewInv, Cell
  <2>4. ASSUME whole
        PROVE  packetInfo'.at = R /\ packetInfo'.size = n /\ n <= W - R
    <3>1. packetInfo'.at = R /\ packetInfo'.size = n
      BY <1>1, <2>4 DEF R
    <3>2. remainByte <= W - R
      BY <1>3, <1>6, <1>7 DEF BufferInv, PacketInv
    <3> QED BY <1>6, <1>7, <2>4, <3>1, <3>2, Numbers
  <2>5. PacketInv'
    BY <1>2, <1>3, <1>6, <1>7, <2>1, <2>4 DEF PacketInv
  <2> QED BY <2>3, <2>5 DEF BufferInv
<1>8. ASSUME Intact', ~coalesced' PROVE TokenInv' /\ OneComplete'
  <2>1. TokenInv /\ OneComplete
    BY <1>3, <1>6, <1>8 DEF IInv
  <2>2. InHand' = InHand
    BY <1>2, <1>3, <1>6, <1>8 DEF InHand
  <2>3. TokenInv'
    BY <1>1, <1>3, <2>1, <2>2 DEF TokenInv
  <2> QED BY <1>3, <2>1, <2>3
<1> QED BY <1>1, <1>3, <1>4, <1>5, <1>7, <1>8 DEF IInv

\* The header lies outside the buffer only after a race or a loss.
LEMMA OutsideStep ==
    ASSUME IInv, ~fault, GetPacketOutside, raced' = (raced \/ Meet'), UNCHANGED cuts
    PROVE  IInv'
<1>1. /\ ProcStep("header", "deque") /\ R \notin Cells /\ fault'
      /\ fault' \in BOOLEAN
      /\ UNCHANGED <<mPacketDataBuffer, mPacketDataBufferWPos, mPacketDataBufferRPos, tokens,
                     remainByte, packetInfo, clears, handled, lost>>
  BY DEF GetPacketOutside, bufferVars, R
<1>2. /\ procPc = "header" /\ procPc' = "deque"
      /\ UNCHANGED <<arrived, recvPc, dataSize, remainDataSize, backlog, coalesced>>
      /\ StreamInv' /\ HandledInv' /\ Total' = Total /\ H' = H
      /\ cuts[H]' = cuts[H] /\ cuts[H + 1]' = cuts[H + 1]
      /\ raced' \in BOOLEAN /\ Written' = Written /\ Announced' = Announced
      /\ OneComplete => OneComplete'
  BY <1>1, ProcFrame
<1>3. TypeOK'
  BY <1>1, <1>2 DEF IInv, TypeOK
<1>4. ~Intact'
  <2>1. SUFFICES ASSUME Intact' PROVE FALSE
    OBVIOUS
  <2>2. Intact
    BY <1>1, <2>1, WasIntact
  <2> QED BY <1>1, <1>2, <2>2, HeaderIsTrue
<1>5. OverrunOnlyWhenFull'
  BY <1>4 DEF OverrunOnlyWhenFull
<1> QED BY <1>1, <1>2, <1>3, <1>4, <1>5 DEF IInv

\* The read position passes the packet.
LEMMA AdvanceStep ==
    ASSUME IInv, ~fault, GetPacketAdvance, raced' = (raced \/ Meet'), UNCHANGED cuts
    PROVE  IInv'
<1>1. PICK r \in {R, packetInfo.at} : mPacketDataBufferRPos' = (r + packetInfo.size) % Word
  BY DEF GetPacketAdvance, R
<1>2. /\ ProcStep("advance", "handle")
      /\ UNCHANGED <<mPacketDataBuffer, mPacketDataBufferWPos, tokens, remainByte, packetInfo,
                     clears, handled, lost, fault>>
  BY DEF GetPacketAdvance
<1>3. /\ procPc = "advance" /\ procPc' = "handle"
      /\ UNCHANGED <<arrived, recvPc, dataSize, remainDataSize, backlog, coalesced>>
      /\ StreamInv' /\ HandledInv' /\ Total' = Total /\ H' = H
      /\ cuts[H]' = cuts[H] /\ cuts[H + 1]' = cuts[H + 1]
      /\ raced' \in BOOLEAN /\ Written' = Written /\ Announced' = Announced
      /\ OneComplete => OneComplete'
  BY <1>2, ProcFrame
<1>4. TypeOK'
  <2>1. mPacketDataBufferRPos' \in 0..(Word - 1)
    <3>1. r + packetInfo.size \in Int
      BY Numbers
    <3> QED BY <1>1, <3>1, WordRem
  <2> QED BY <1>2, <1>3, <2>1 DEF IInv, TypeOK
<1>5. OverrunOnlyWhenFull'
  BY <1>2 DEF OverrunOnlyWhenFull
<1>6. ASSUME Intact' PROVE BufferInv' /\ Intact
  <2> DEFINE size == packetInfo.size
  <2>1. Intact /\ BufferInv
    BY <1>2, <1>6, WasIntact DEF IInv
  <2>2. recvPc \notin {"move", "moved", "reset"}
    BY <1>3, <2>1 DEF BufferInv, PlaceInv
  <2>3. /\ packetInfo.at = R /\ size = cuts[H + 1] - cuts[H] /\ size <= W - R
        /\ H < Packets /\ cuts[H + 1] \in Nat
    BY <1>3, <2>1, IntactNumbers DEF BufferInv, PacketInv
  <2>4. W = R + (Written - Read) /\ W <= Size /\ Read = cuts[H] /\ R <= Read
    BY <1>3, <2>1, <2>2, IntactNumbers DEF BufferInv, UnreadInv
  <2>5. R' = R + size
    <3>1. R + size \in Int /\ R + size \in 0..(Word - 1)
      BY <2>3, <2>4, Numbers, BufferAssumption
    <3> QED BY <1>1, <2>3, <3>1, WordRem DEF R
  <2>6. W' = W /\ Read' = cuts[H + 1]
    BY <1>2, <1>3 DEF Read, W
  <2>7. /\ cuts[H + 1] <= Written /\ R' <= cuts[H + 1]
        /\ W = R' + (Written - cuts[H + 1]) /\ R <= R'
    BY <2>1, <2>3, <2>4, <2>5, Numbers, IntactNumbers
  <2>8. ASSUME NEW i \in Cells, R <= i, i < W PROVE Cell(i)' = cuts[H] + 1 + (i - R)
    BY <1>2, <2>1, <2>2, <2>4, <2>8 DEF BufferInv, UnreadInv, Cell
  <2>9. ASSUME NEW i \in Cells, R' <= i, i < W PROVE Cell(i)' = cuts[H + 1] + 1 + (i - R')
    <3>1. R <= i /\ i \in Int
      BY <2>3, <2>5, <2>9, Numbers, BufferAssumption DEF Cells
    <3> QED BY <2>3, <2>5, <2>8, <2>9, <3>1, Numbers
  <2>10. ASSUME NEW i \in Cells, R <= i, i < R' PROVE Cell(i)' = cuts[H] + 1 + (i - R)
    <3>1. i < W
      BY <2>3, <2>5, <2>10, Numbers, BufferAssumption DEF Cells
    <3> QED BY <2>8, <2>10, <3>1
  <2>11. PlaceInv'
    BY <1>3, <2>2, <2>3, <2>6, <2>7 DEF PlaceInv
  <2>12. UnreadInv'
    BY <1>3, <2>2, <2>4, <2>6, <2>7, <2>9 DEF UnreadInv
  <2>13. NewInv'
    BY <1>2, <1>3, <2>1, <2>6 DEF BufferInv, NewInv, Cell
  <2>14. PacketInv'
    BY <1>2, <1>3, <2>3, <2>5, <2>10 DEF PacketInv
  <2> QED BY <2>1, <2>11, <2>12, <2>13, <2>14 DEF BufferInv
<1>7. ASSUME Intact', ~coalesced' PROVE TokenInv' /\ OneComplete'
  <2>1. TokenInv /\ OneComplete
    BY <1>3, <1>6, <1>7 DEF IInv
  <2>2. InHand = 1 /\ InHand' = 1
    BY <1>3 DEF InHand
  <2>3. TokenInv'
    BY <1>2, <1>3, <2>1, <2>2 DEF TokenInv
  <2> QED BY <1>3, <2>1, <2>3
<1> QED BY <1>2, <1>3, <1>4, <1>5, <1>6, <1>7 DEF IInv

\* The handler reads the packet: it is packet H + 1 of the stream.
LEMMA HandlerReads ==
    ASSUME IInv, Intact, ~fault, procPc = "handle"
    PROVE  /\ H + 1 \in 1..Packets /\ packetInfo.at + packetInfo.size <= Size
           /\ [i \in 1..packetInfo.size |-> mPacketDataBuffer[packetInfo.at + i - 1]] = Bytes(H + 1)
<1> DEFINE at == packetInfo.at
           size == packetInfo.size
<1>1. H < Packets /\ H + 1 \in 1..Packets /\ (H + 1) - 1 = H /\ cuts[H + 1] \in Nat
  BY IntactNumbers, Numbers, BufferAssumption
<1>2. /\ at + size = R /\ size = cuts[H + 1] - cuts[H]
      /\ \A i \in Cells : at <= i /\ i < R => Cell(i) = cuts[H] + 1 + (i - at)
  BY IntactNumbers DEF BufferInv, PacketInv
<1>3. recvPc \notin {"move", "moved", "reset"}
  BY IntactNumbers DEF BufferInv, PlaceInv
<1>4. R <= W /\ W <= Size
  <2>1. W = R + (Written - Read) /\ W <= Size
    BY <1>3, IntactNumbers DEF BufferInv, UnreadInv
  <2> QED BY <2>1, Numbers, IntactNumbers
<1>5. at + size <= Size
  BY <1>2, <1>4, Numbers, BufferAssumption
<1>6. ASSUME NEW i \in 1..size PROVE mPacketDataBuffer[at + i - 1] = cuts[H] + i
  <2>1. /\ at + i - 1 \in Cells /\ at <= at + i - 1 /\ at + i - 1 < R
        /\ i \in Int /\ (at + i - 1) - at = i - 1
    BY <1>2, <1>5, Numbers, BufferAssumption DEF Cells
  <2>2. Cell(at + i - 1) = cuts[H] + 1 + ((at + i - 1) - at)
    BY <1>2, <2>1
  <2> QED BY <2>1, <2>2, Numbers DEF Cell
<1>7. Bytes(H + 1) = [i \in 1..size |-> cuts[H] + i]
  BY <1>1, <1>2 DEF Bytes
<1> QED BY <1>1, <1>5, <1>6, <1>7

LEMMA ProcessStep ==
    ASSUME IInv, ~fault, ProcessRecvPacket, raced' = (raced \/ Meet'), UNCHANGED cuts
    PROVE  IInv'
<1> DEFINE inside == packetInfo.at + packetInfo.size <= Size
           bytes == [i \in 1..packetInfo.size |-> mPacketDataBuffer[packetInfo.at + i - 1]]
<1>1. /\ procPc = "handle" /\ procPc' = "deque" /\ fault' = ~inside
      /\ packetInfo' = NoPacket
      /\ handled' = IF inside /\ Intact THEN Append(handled, bytes) ELSE handled
      /\ UNCHANGED <<arrived, recvPc, dataSize, remainDataSize, backlog, coalesced,
                     mPacketDataBuffer, mPacketDataBufferWPos, mPacketDataBufferRPos, tokens,
                     remainByte, clears, lost>>
  BY DEF ProcessRecvPacket, ProcStep, recvVars, setVars, bufferVars, Intact
<1>2. StreamInv' /\ Total' = Total
  BY SameStream
<1>3. fault' \in BOOLEAN /\ raced' \in BOOLEAN /\ (fault' <=> ~inside)
  BY <1>1
<1>4. ASSUME Intact PROVE inside /\ bytes = Bytes(H + 1) /\ H + 1 \in 1..Packets
  BY <1>1, <1>4, HandlerReads
<1> HIDE DEF bytes, inside
<1>5. TypeOK'
  <2>1. packetInfo' \in [at : 0..(Word - 1), size : 0..Size]
    BY <1>1, BufferAssumption DEF NoPacket
  <2> QED BY <1>1, <1>2, <1>3, <2>1 DEF IInv, TypeOK
<1>6. ASSUME Intact
      PROVE  /\ handled' = Append(handled, Bytes(H + 1)) /\ H' = H + 1
             /\ handled \in Seq({Bytes(k) : k \in 1..Packets})
             /\ handled' \in Seq({Bytes(k) : k \in 1..Packets})
             /\ \A k \in 1..H : handled'[k] = handled[k]
             /\ handled'[H + 1] = Bytes(H + 1)
  <2>1. handled \in Seq({Bytes(k) : k \in 1..Packets}) /\ Bytes(H + 1) \in {Bytes(k) : k \in 1..Packets}
    BY <1>4, <1>6 DEF IInv, HandledInv
  <2>2. handled' = Append(handled, Bytes(H + 1))
    BY <1>1, <1>4, <1>6
  <2> QED BY <2>1, <2>2, AppendProperties DEF H
<1>7. HandledInv'
  <2>1. CASE ~Intact
    BY <1>1, <2>1 DEF IInv, HandledInv, H, Bytes
  <2>2. CASE Intact
    <3>1. \A k : Bytes(k)' = Bytes(k)
      BY DEF Bytes
    <3>2. H' <= Packets
      BY <1>4, <1>6, <2>2, BufferAssumption
    <3>3. ASSUME NEW k \in 1..(H + 1) PROVE handled'[k] = Bytes(k)
      <4>1. k \in 1..H \/ k = H + 1
        BY Numbers
      <4> QED BY <1>6, <2>2, <4>1 DEF IInv, HandledInv
    <3>4. handled' \in Seq({Bytes(k)' : k \in 1..Packets})
      BY <1>6, <2>2, <3>1
    <3>5. \A k \in 1..H' : handled'[k] = Bytes(k)
      BY <1>6, <2>2, <3>3
    <3> QED BY <1>1, <3>1, <3>2, <3>4, <3>5 DEF IInv, HandledInv
  <2> QED BY <2>1, <2>2
<1>8. ASSUME Intact' PROVE Intact /\ ~fault'
  BY <1>1, <1>3, <1>4, <1>8, WasIntact
<1>9. OverrunOnlyWhenFull'
  BY <1>8 DEF OverrunOnlyWhenFull
<1>10. ASSUME Intact' PROVE BufferInv'
  <2>1. BufferInv /\ H' = H + 1
    BY <1>6, <1>8, <1>10 DEF IInv
  <2>2. Read' = Read /\ Written' = Written /\ W' = W /\ R' = R
    BY <1>1, <2>1 DEF Read, Written, W, R
  <2>3. recvPc \notin {"move", "moved", "reset"}
    BY <1>1, <2>1 DEF BufferInv, PlaceInv
  <2>4. PlaceInv' /\ UnreadInv' /\ NewInv' /\ PacketInv'
    BY <1>1, <2>1, <2>2, <2>3
       DEF BufferInv, PlaceInv, UnreadInv, NewInv, PacketInv, Cell
  <2> QED BY <2>4 DEF BufferInv
<1>11. ASSUME Intact', ~coalesced' PROVE TokenInv' /\ OneComplete'
  <2>1. TokenInv /\ OneComplete /\ H' = H + 1
    BY <1>1, <1>6, <1>8, <1>11 DEF IInv
  <2>2. InHand = 1 /\ InHand' = 0 /\ Announced' = Announced
    BY <1>1 DEF InHand, Announced
  <2>3. H + tokens + InHand = H' + tokens' + InHand'
    BY <1>1, <2>1, <2>2, Numbers
  <2>4. TokenInv'
    BY <2>1, <2>2, <2>3 DEF TokenInv
  <2>5. OneComplete'
    BY <1>1, <2>1 DEF OneComplete
  <2> QED BY <2>4, <2>5
<1> QED BY <1>2, <1>5, <1>7, <1>9, <1>10, <1>11, <1>1, <1>8 DEF IInv

\* Before the first receive a Clear has nothing to drop.
LEMMA NothingArrived ==
    ASSUME IInv, Intact, ~fault, ~(arrived > 0)
    PROVE  W = 0 /\ R = 0
<1>1. arrived = 0 /\ dataSize = 0
  BY Numbers
<1>2. recvPc = "recv"
  BY <1>1 DEF IInv, HandledInv
<1>3. W = R + (Written - Read) /\ Written = 0
  BY <1>1, <1>2, IntactNumbers DEF BufferInv, UnreadInv, Written
<1> QED BY <1>3, Numbers, IntactNumbers

\* The two stores of User::Clear.
LEMMA ClearWStep ==
    ASSUME IInv, ~fault, ClearWPos, raced' = (raced \/ Meet'), UNCHANGED cuts
    PROVE  IInv'
<1>1. /\ ProcStep("deque", "clear") /\ lost' = (lost \/ arrived > 0)
      /\ clears' \in 0..Clears /\ mPacketDataBufferWPos' = 0
      /\ UNCHANGED <<mPacketDataBuffer, mPacketDataBufferRPos, tokens, remainByte, packetInfo,
                     handled, fault>>
  BY BufferAssumption DEF ClearWPos, IInv, TypeOK
<1>2. /\ procPc = "deque" /\ procPc' = "clear"
      /\ UNCHANGED <<arrived, recvPc, dataSize, remainDataSize, backlog, coalesced>>
      /\ StreamInv' /\ HandledInv' /\ Total' = Total /\ H' = H
      /\ cuts[H]' = cuts[H] /\ cuts[H + 1]' = cuts[H + 1]
      /\ raced' \in BOOLEAN /\ Written' = Written /\ Announced' = Announced
      /\ OneComplete => OneComplete'
  BY <1>1, ProcFrame
<1>3. TypeOK'
  <2>1. mPacketDataBufferWPos' \in 0..(Word - 1)
    BY <1>1, BufferAssumption
  <2>2. {fault', raced', lost', coalesced'} \subseteq BOOLEAN
    BY <1>1, <1>2 DEF IInv, TypeOK
  <2> QED BY <1>1, <1>2, <2>1, <2>2 DEF IInv, TypeOK
<1>4. OverrunOnlyWhenFull'
  BY <1>1 DEF OverrunOnlyWhenFull
<1>5. ASSUME Intact' PROVE Intact /\ BufferInv /\ W' = W /\ R' = R
  <2>1. Intact /\ ~(arrived > 0)
    BY <1>1, <1>5 DEF Intact
  <2>2. W = 0 /\ R = 0
    BY <2>1, NothingArrived
  <2> QED BY <1>1, <2>1, <2>2 DEF IInv, W, R
<1>6. ASSUME Intact' PROVE BufferInv'
  <2>1. Read' = Read
    BY <1>1, <1>2 DEF Read
  <2>2. PlaceInv' /\ UnreadInv' /\ NewInv' /\ PacketInv'
    BY <1>1, <1>2, <1>5, <1>6, <2>1
       DEF BufferInv, PlaceInv, UnreadInv, NewInv, PacketInv, Cell
  <2> QED BY <2>2 DEF BufferInv
<1>7. ASSUME Intact', ~coalesced' PROVE TokenInv' /\ OneComplete'
  <2>1. TokenInv /\ OneComplete
    BY <1>2, <1>5, <1>7 DEF IInv
  <2>2. InHand' = InHand
    BY <1>2 DEF InHand
  <2>3. TokenInv'
    BY <1>1, <1>2, <2>1, <2>2 DEF TokenInv
  <2> QED BY <1>2, <2>1, <2>3
<1> QED BY <1>1, <1>2, <1>3, <1>4, <1>6, <1>7 DEF IInv

LEMMA ClearRStep ==
    ASSUME IInv, ~fault, ClearRPos, raced' = (raced \/ Meet'), UNCHANGED cuts
    PROVE  IInv'
<1>1. /\ ProcStep("clear", "deque") /\ lost' = (lost \/ arrived > 0)
      /\ clears' \in 0..Clears /\ mPacketDataBufferRPos' = 0
      /\ UNCHANGED <<mPacketDataBuffer, mPacketDataBufferWPos, tokens, remainByte, packetInfo,
                     handled, fault>>
  BY BufferAssumption DEF ClearRPos, IInv, TypeOK
<1>2. /\ procPc = "clear" /\ procPc' = "deque"
      /\ UNCHANGED <<arrived, recvPc, dataSize, remainDataSize, backlog, coalesced>>
      /\ StreamInv' /\ HandledInv' /\ Total' = Total /\ H' = H
      /\ cuts[H]' = cuts[H] /\ cuts[H + 1]' = cuts[H + 1]
      /\ raced' \in BOOLEAN /\ Written' = Written /\ Announced' = Announced
      /\ OneComplete => OneComplete'
  BY <1>1, ProcFrame
<1>3. TypeOK'
  <2>1. mPacketDataBufferRPos' \in 0..(Word - 1)
    BY <1>1, BufferAssumption
  <2>2. {fault', raced', lost', coalesced'} \subseteq BOOLEAN
    BY <1>1, <1>2 DEF IInv, TypeOK
  <2> QED BY <1>1, <1>2, <2>1, <2>2 DEF IInv, TypeOK
<1>4. OverrunOnlyWhenFull'
  BY <1>1 DEF OverrunOnlyWhenFull
<1>5. ASSUME Intact' PROVE Intact /\ BufferInv /\ W' = W /\ R' = R
  <2>1. Intact /\ ~(arrived > 0)
    BY <1>1, <1>5 DEF Intact
  <2>2. W = 0 /\ R = 0
    BY <2>1, NothingArrived
  <2> QED BY <1>1, <2>1, <2>2 DEF IInv, W, R
<1>6. ASSUME Intact' PROVE BufferInv'
  <2>1. Read' = Read
    BY <1>1, <1>2 DEF Read
  <2>2. PlaceInv' /\ UnreadInv' /\ NewInv' /\ PacketInv'
    BY <1>1, <1>2, <1>5, <1>6, <2>1
       DEF BufferInv, PlaceInv, UnreadInv, NewInv, PacketInv, Cell
  <2> QED BY <2>2 DEF BufferInv
<1>7. ASSUME Intact', ~coalesced' PROVE TokenInv' /\ OneComplete'
  <2>1. TokenInv /\ OneComplete
    BY <1>2, <1>5, <1>7 DEF IInv
  <2>2. InHand' = InHand
    BY <1>2 DEF InHand
  <2>3. TokenInv'
    BY <1>1, <1>2, <2>1, <2>2 DEF TokenInv
  <2> QED BY <1>2, <2>1, <2>3
<1> QED BY <1>1, <1>2, <1>3, <1>4, <1>6, <1>7 DEF IInv

----------------------------------------------------------------------------
(* The inductive invariant and the theorems.                               *)

LEMMA InitIInv == Init => IInv
<1> SUFFICES ASSUME Init PROVE IInv
  OBVIOUS
<1>1. StreamInv
  <2>1. /\ cuts \in [0..Packets -> 0..(Packets * Size)] /\ cuts[0] = 0
        /\ \A k \in 1..Packets : cuts[k] - cuts[k - 1] \in Lengths
    BY DEF Init
  <2>2. 0..(Packets * Size) \subseteq Nat
    OBVIOUS
  <2>3. cuts \in [0..Packets -> Nat]
    BY <2>1, <2>2
  <2> QED BY <2>1, <2>3 DEF StreamInv
<1>2. Total \in Nat
  BY <1>1, TotalFacts
<1>3. /\ arrived = 0 /\ mPacketDataBuffer = [i \in Cells |-> 0]
      /\ W = 0 /\ R = 0 /\ tokens = 0
      /\ recvPc = "recv" /\ dataSize = 0 /\ remainDataSize = 0 /\ backlog = 0
      /\ procPc = "deque" /\ remainByte = 0 /\ packetInfo = [at |-> 0, size |-> 0]
      /\ clears = 0 /\ handled = << >> /\ H = 0
      /\ fault = FALSE /\ raced = FALSE /\ lost = FALSE /\ coalesced = FALSE
  BY DEF Init, NoPacket, W, R, H
<1>4. TypeOK
  <2>1. 0 \in 0..Total /\ 0 \in 0..(Word - 1) /\ 0 \in 0..Size /\ 0 \in 0..MaxChunk /\ 0 \in 0..Clears
    BY <1>2, BufferAssumption
  <2>2. mPacketDataBuffer \in [Cells -> 0..Total]
    BY <1>3, <2>1
  <2>3. packetInfo \in [at : 0..(Word - 1), size : 0..Size]
    BY <1>3, <2>1
  <2>4. {fault, raced, lost, coalesced} \subseteq BOOLEAN
    BY <1>3
  <2> QED BY <1>3, <2>1, <2>2, <2>3, <2>4 DEF TypeOK, W, R
<1>5. HandledInv /\ OverrunOnlyWhenFull
  BY <1>3, BufferAssumption DEF HandledInv, OverrunOnlyWhenFull
<1>6. Read = 0 /\ Written = 0
  BY <1>1, <1>3 DEF Read, Written, StreamInv
<1>7. BufferInv
  BY <1>3, <1>6, BufferAssumption DEF BufferInv, PlaceInv, UnreadInv, NewInv, PacketInv, Cells
<1>8. \A k \in 1..Packets : cuts[k] \in Nat /\ 0 < cuts[k]
  <2>1. TAKE k \in 1..Packets
  <2>2. 0 \in 0..Packets /\ k \in 0..Packets /\ 0 < k
    BY BufferAssumption
  <2> QED BY <1>1, <2>2, CutsIncrease, TotalFacts DEF StreamInv
<1>9. TokenInv /\ OneComplete
  BY <1>3, <1>8 DEF TokenInv, OneComplete, Announced
<1> QED BY <1>1, <1>4, <1>5, <1>7, <1>9 DEF IInv

LEMMA StutterIInv == IInv /\ UNCHANGED vars => IInv'
<1> SUFFICES ASSUME IInv, UNCHANGED vars PROVE IInv'
  OBVIOUS
<1>1. UNCHANGED <<cuts, mPacketDataBuffer, mPacketDataBufferWPos, mPacketDataBufferRPos, tokens,
                  arrived, recvPc, dataSize, remainDataSize, backlog, coalesced, procPc,
                  remainByte, packetInfo, clears, handled, lost, fault, raced>>
  BY DEF vars, bufferVars, recvVars, setVars, procVars
<1>2. TypeOK' /\ StreamInv' /\ HandledInv' /\ OverrunOnlyWhenFull'
  BY <1>1 DEF IInv, TypeOK, Total, StreamInv, HandledInv, H, Bytes, OverrunOnlyWhenFull, Intact
<1>3. BufferInv => BufferInv'
  BY <1>1 DEF BufferInv, PlaceInv, UnreadInv, NewInv, PacketInv, Cell, Read, Written, W, R, H
<1>4. TokenInv /\ OneComplete => TokenInv' /\ OneComplete'
  BY <1>1 DEF TokenInv, OneComplete, Announced, InHand, H
<1> QED BY <1>1, <1>2, <1>3, <1>4 DEF IInv, Intact

LEMMA NextIInv == IInv /\ [Next]_vars => IInv'
<1> SUFFICES ASSUME IInv, [Next]_vars PROVE IInv'
  OBVIOUS
<1>1. CASE UNCHANGED vars
  BY <1>1, StutterIInv
<1>2. CASE Step
  <2>1. ~fault /\ raced' = (raced \/ Meet') /\ UNCHANGED cuts
    BY <1>2 DEF Step
  <2>2. ASSUME NEW n \in 1..MaxChunk, KernelRecv(n) PROVE IInv'
    BY <2>1, <2>2, KernelRecvStep
  <2>3. ASSUME ReceivePacketData PROVE IInv'
    BY <2>1, <2>3, TestStep, RemainStep, MoveStep, MovedStep, ResetStep, CopyStep, StoreStep,
       EnqueueStep DEF ReceivePacketData
  <2>4. ASSUME NEW n \in LengthAt(mPacketDataBufferRPos), mPacketDataBufferRPos \in Cells,
               GetPacketHeader(n)
        PROVE  IInv'
    BY <2>1, <2>4, GetHeaderStep
  <2>5. ASSUME GetPacket PROVE IInv'
    BY <2>1, <2>4, <2>5, GetRemainStep, OutsideStep, AdvanceStep DEF GetPacket
  <2>6. ASSUME ProcessPacket PROVE IInv'
    BY <2>1, <2>5, <2>6, DequeStep, ProcessStep, ClearWStep, ClearRStep DEF ProcessPacket
  <2> QED BY <1>2, <2>2, <2>3, <2>6 DEF Step
<1> QED BY <1>1, <1>2 DEF Next, Rest

\* In every reachable state the positions, the cells and the tokens are what
\* SetPacketData and GetPacket leave behind at their places in the code.
THEOREM Invariance == Spec => []IInv
<1> QED BY InitIInv, NextIInv, PTL DEF Spec

\* Every variable of the two threads keeps its type: the positions stay words,
\* the cells hold bytes of the stream, whatever the two threads do.
THEOREM TypeCorrect == Spec => []TypeOK
<1>1. IInv => TypeOK
  BY DEF IInv
<1> QED BY <1>1, Invariance, PTL

\* For every stream and every way TCP cuts it: as long as no compaction meets
\* the reader and no Clear drops bytes, what ProcessRecvPacket is given are the
\* packets sent, whole and in order.
THEOREM HandledInOrder == Spec => []PacketsInOrder
<1>1. IInv => PacketsInOrder
  <2> SUFFICES ASSUME IInv, NEW k \in 1..Len(handled)
               PROVE  k <= Packets /\ handled[k] = Bytes(k)
    BY DEF PacketsInOrder
  <2>1. k \in 1..H /\ k \in Nat /\ H \in Nat /\ H <= Packets
    BY Numbers DEF H, IInv, HandledInv
  <2> QED BY <2>1, BufferAssumption DEF IInv, HandledInv
<1> QED BY <1>1, Invariance, PTL

\* SetPacketData writes outside the buffer only when what is not handled and
\* what arrives exceed it; GetPacket and the handlers never read outside.
THEOREM NoOtherOverrun == Spec => []OverrunOnlyWhenFull
<1>1. IInv => OverrunOnlyWhenFull
  BY DEF IInv
<1> QED BY <1>1, Invariance, PTL

\* No whole packet stays in the buffer when both threads rest, unless one
\* receive completed two.
THEOREM NothingForgotten == Spec => []NothingLeftAtRest
<1>1. IInv => NothingLeftAtRest
  <2> SUFFICES ASSUME IInv, recvPc = "recv", procPc = "deque", tokens = 0,
                      NEW k \in 1..Packets, arrived >= cuts[k],
                      ~coalesced, ~fault, Intact
               PROVE  Len(handled) >= k
    BY DEF NothingLeftAtRest
  <2>1. Announced = arrived /\ InHand = 0
    BY DEF Announced, InHand
  <2>2. cuts[k] \in Nat
    <3>1. k \in 0..Packets
      BY BufferAssumption
    <3> QED BY <3>1, TotalFacts DEF IInv
  <2>3. k <= H + tokens + InHand
    BY <2>1, <2>2, Numbers DEF IInv, TokenInv
  <2> QED BY <2>1, <2>3, Numbers DEF H
<1> QED BY <1>1, Invariance, PTL
=============================================================================
