---------------------------- MODULE PacketBuffer ---------------------------
(***************************************************************************)
(* The receive buffer of one User: a worker writes to it (SetPacketData),  *)
(* the packet-process thread takes packets out (GetPacket) and handles     *)
(* them in place, and no lock protects it.  The steps are the loads and    *)
(* stores of the two position members; CopyMemory is one step.  IocpSession*)
(* shows that at most one worker at a time is in SetPacketData.            *)
(*                                                                         *)
(* The bytes a client sends are the numbers 1, 2, 3...; packet k ends with *)
(* byte cuts[k], and the first byte of a packet holds PacketLength.  Only  *)
(* the receives cut the stream anywhere, as TCP may.                       *)
(***************************************************************************)
EXTENDS Integers, Sequences, FiniteSets

CONSTANTS
    Size,         \* PACKET_DATA_BUFFER_SIZE
    HeaderLen,    \* PACKET_HEADER_LENGTH
    Lengths,      \* lengths of the packets a client sends
    MaxChunk,     \* MAX_SOCKBUF: the bytes one receive returns at most
    Packets,      \* bound: packets the client sends
    Clears,       \* bound: connect and disconnect packets of the session
    Word          \* the positions are unsigned: arithmetic is modulo Word

ASSUME BufferAssumption ==
    /\ Size \in Nat \ {0} /\ HeaderLen \in Nat \ {0} /\ MaxChunk \in Nat \ {0}
    /\ Lengths \subseteq HeaderLen..Size /\ Lengths # {}
    /\ Packets \in Nat /\ Clears \in Nat /\ Word \in Nat /\ Word > 2 * Size + MaxChunk

VARIABLES
    cuts,                     \* the client's packets: the last byte of each
    arrived,                  \* bytes of the stream received so far
    mPacketDataBuffer,        \* the byte in each cell, 0 before the first write
    mPacketDataBufferWPos,
    mPacketDataBufferRPos,
    tokens,                   \* entries for this user in mInComingPacketUserIndex
    recvPc,                   \* the worker: place in SetPacketData
    dataSize,                 \* the worker: the bytes just received
    remainDataSize,           \* the worker: the unread bytes it moves
    procPc,                   \* the process thread: place in GetPacket, Clear
    remainByte,               \* the process thread: the unread bytes it saw
    packetInfo,               \* the packet it took: where it starts, how long it is
    clears,                   \* Clear calls so far
    handled,                  \* history: the bytes of each packet handled, up to
                              \* the first race or loss
    fault,                    \* memory outside the buffer was accessed
    backlog,                  \* history: bytes not handled when the worker compacted
    raced,                    \* history: the two threads met in a compaction
    lost,                     \* history: a Clear dropped bytes received
    coalesced                 \* history: one receive completed two packets

bufferVars == <<mPacketDataBuffer, mPacketDataBufferWPos, mPacketDataBufferRPos>>
setVars == <<dataSize, remainDataSize, backlog>>
recvVars == <<arrived, recvPc, setVars, coalesced>>
procVars == <<procPc, remainByte, packetInfo, clears, handled, lost>>
vars == <<cuts, bufferVars, tokens, recvVars, procVars, fault, raced>>

Cells == 0..(Size - 1)
Total == cuts[Packets]    \* bytes in the whole stream

TypeOK ==
    /\ arrived \in 0..Total
    /\ mPacketDataBuffer \in [Cells -> 0..Total]
    /\ mPacketDataBufferWPos \in 0..(Word - 1) /\ mPacketDataBufferRPos \in 0..(Word - 1)
    /\ tokens \in Nat
    /\ recvPc \in {"recv", "test", "remain", "move", "moved", "reset", "copy", "store", "enqueue"}
    /\ backlog \in 0..Total
    /\ dataSize \in 0..MaxChunk /\ remainDataSize \in 0..(Word - 1)
    /\ procPc \in {"deque", "getpacket", "header", "advance", "handle", "clear"}
    /\ remainByte \in 0..(Word - 1)
    /\ packetInfo \in [at : 0..(Word - 1), size : 0..Size]
    /\ clears \in 0..Clears
    /\ {fault, raced, lost, coalesced} \subseteq BOOLEAN

NoPacket == [at |-> 0, size |-> 0]

Init ==
    /\ cuts \in {c \in [0..Packets -> 0..(Packets * Size)] :
                   c[0] = 0 /\ \A k \in 1..Packets : c[k] - c[k - 1] \in Lengths}
    /\ arrived = 0
    /\ mPacketDataBuffer = [i \in Cells |-> 0]
    /\ mPacketDataBufferWPos = 0 /\ mPacketDataBufferRPos = 0
    /\ tokens = 0
    /\ recvPc = "recv" /\ dataSize = 0 /\ remainDataSize = 0 /\ backlog = 0
    /\ procPc = "deque" /\ remainByte = 0
    /\ packetInfo = NoPacket
    /\ clears = 0 /\ handled = << >>
    /\ fault = FALSE /\ raced = FALSE /\ lost = FALSE /\ coalesced = FALSE

----------------------------------------------------------------------------
(* The worker: a receive completes, then SetPacketData and the token.      *)

Complete(n) == {k \in 1..Packets : cuts[k] \in (arrived + 1)..(arrived + n)}

KernelRecv(n) ==
    /\ recvPc = "recv" /\ arrived + n <= Total
    /\ arrived' = arrived + n
    /\ dataSize' = n
    /\ coalesced' = (coalesced \/ Cardinality(Complete(n)) > 1)
    /\ recvPc' = "test"
    /\ UNCHANGED <<bufferVars, tokens, remainDataSize, backlog, procVars, fault>>

RecvStep(from, to) ==
    /\ recvPc = from /\ recvPc' = to
    /\ UNCHANGED <<arrived, coalesced, procVars>>

Fits(n) == mPacketDataBufferWPos + n < Size

\* Mutant: the buffer is never compacted.
SetPacketDataNoTest ==
    /\ RecvStep("test", "copy")
    /\ UNCHANGED <<bufferVars, tokens, setVars, fault>>

\* Does the data fit behind what is there?
SetPacketDataTest ==
    /\ RecvStep("test", IF Fits(dataSize) THEN "copy" ELSE "remain")
    /\ UNCHANGED <<bufferVars, tokens, setVars, fault>>

\* The bytes of the packets handled so far (no claim is made after a race).
Consumed == IF raced \/ lost THEN 0 ELSE cuts[Len(handled)]

SetPacketDataRemain ==
    /\ remainDataSize' = (mPacketDataBufferWPos - mPacketDataBufferRPos) % Word
    /\ backlog' = arrived - dataSize - Consumed
    /\ RecvStep("remain", "move")
    /\ UNCHANGED <<bufferVars, tokens, dataSize, fault>>

\* The unread bytes move to the front; the copy runs forward, so that an
\* overlap of the two ranges does no harm.
SetPacketDataMove ==
    LET from == mPacketDataBufferRPos IN
      /\ RecvStep("move", "moved")
      /\ fault' = (remainDataSize > 0 /\ from + remainDataSize > Size)
      /\ mPacketDataBuffer' =
           IF fault' THEN mPacketDataBuffer
           ELSE [i \in Cells |-> IF i < remainDataSize THEN mPacketDataBuffer[from + i]
                                 ELSE mPacketDataBuffer[i]]
      /\ UNCHANGED <<mPacketDataBufferWPos, mPacketDataBufferRPos, tokens, setVars>>

SetPacketDataMoved ==
    /\ RecvStep("moved", "reset")
    /\ mPacketDataBufferWPos' = remainDataSize
    /\ UNCHANGED <<mPacketDataBuffer, mPacketDataBufferRPos, tokens, setVars, fault>>

\* Mutant: the read position is not reset.
SetPacketDataKeepsRPos ==
    /\ RecvStep("reset", "copy")
    /\ UNCHANGED <<bufferVars, tokens, setVars, fault>>

SetPacketDataReset ==
    /\ RecvStep("reset", "copy")
    /\ mPacketDataBufferRPos' = 0
    /\ UNCHANGED <<mPacketDataBuffer, mPacketDataBufferWPos, tokens, setVars, fault>>

\* Copy the data behind the write position, then advance it.
SetPacketDataCopy ==
    LET to == mPacketDataBufferWPos
        first == arrived - dataSize + 1
    IN  /\ RecvStep("copy", "store")
        /\ fault' = (to + dataSize > Size)
        /\ mPacketDataBuffer' =
             IF fault' THEN mPacketDataBuffer
             ELSE [i \in Cells |-> IF i \in to..(to + dataSize - 1) THEN first + (i - to)
                                   ELSE mPacketDataBuffer[i]]
        /\ UNCHANGED <<mPacketDataBufferWPos, mPacketDataBufferRPos, tokens, setVars>>

\* The bytes become visible to GetPacket before their token is queued.
SetPacketDataStore ==
    /\ RecvStep("store", "enqueue")
    /\ mPacketDataBufferWPos' = (mPacketDataBufferWPos + dataSize) % Word
    /\ UNCHANGED <<mPacketDataBuffer, mPacketDataBufferRPos, tokens, setVars, fault>>

EnqueuePacketData ==
    /\ RecvStep("enqueue", "recv")
    /\ tokens' = tokens + 1
    /\ dataSize' = 0 /\ remainDataSize' = 0 /\ backlog' = 0
    /\ UNCHANGED <<bufferVars, fault>>

ReceivePacketData ==
    \/ SetPacketDataTest \/ SetPacketDataRemain \/ SetPacketDataMove
    \/ SetPacketDataMoved \/ SetPacketDataReset \/ SetPacketDataCopy
    \/ SetPacketDataStore \/ EnqueuePacketData

----------------------------------------------------------------------------
(* The process thread: one token, at most one packet; or a system packet.  *)

ProcStep(from, to) ==
    /\ procPc = from /\ procPc' = to
    /\ UNCHANGED recvVars

\* Mutant: the queue of tokens is not tested for being empty.
DequeUnchecked ==
    /\ ProcStep("deque", "getpacket")
    /\ tokens' = tokens - 1
    /\ UNCHANGED <<bufferVars, remainByte, packetInfo, clears, handled, lost, fault>>

DequePacketData ==
    /\ tokens > 0
    /\ ProcStep("deque", "getpacket")
    /\ tokens' = tokens - 1
    /\ UNCHANGED <<bufferVars, remainByte, packetInfo, clears, handled, lost, fault>>

GetPacketRemain ==
    /\ LET remain == (mPacketDataBufferWPos - mPacketDataBufferRPos) % Word
           some == remain >= HeaderLen
       IN  /\ ProcStep("getpacket", IF some THEN "header" ELSE "deque")
           /\ remainByte' = IF some THEN remain ELSE 0
    /\ UNCHANGED <<bufferVars, tokens, packetInfo, clears, handled, lost, fault>>

\* What PacketLength may be at cell p: the length of the packet that starts
\* there, and anything where no packet starts.
LengthAt(p) ==
    LET starts == {k \in 1..Packets : mPacketDataBuffer[p] = cuts[k - 1] + 1}
    IN  IF starts # {} THEN {cuts[k] - cuts[k - 1] : k \in starts} ELSE 0..Size

\* Take the packet of n bytes at the read position if whole says it is there.
TakeHeader(n, whole) ==
    /\ ProcStep("header", IF whole THEN "advance" ELSE "deque")
    /\ packetInfo' = IF whole THEN [at |-> mPacketDataBufferRPos, size |-> n]
                     ELSE packetInfo
    /\ remainByte' = 0
    /\ UNCHANGED <<bufferVars, tokens, clears, handled, lost, fault>>

\* Mutant: a packet that is exactly what remains counts as incomplete.
GetPacketHeaderStrict(n) == TakeHeader(n, n < remainByte)

GetPacketHeader(n) == TakeHeader(n, n <= remainByte)

\* The header lies outside the buffer.
GetPacketOutside ==
    /\ mPacketDataBufferRPos \notin Cells
    /\ ProcStep("header", "deque")
    /\ fault' = TRUE
    /\ UNCHANGED <<bufferVars, tokens, remainByte, packetInfo, clears, handled, lost>>

\* mPacketDataBufferRPos is loaded again, or the earlier load is used.
GetPacketAdvance ==
    /\ ProcStep("advance", "handle")
    /\ \E r \in {mPacketDataBufferRPos, packetInfo.at} :
          mPacketDataBufferRPos' = (r + packetInfo.size) % Word
    /\ UNCHANGED <<mPacketDataBuffer, mPacketDataBufferWPos, tokens, remainByte, packetInfo,
                   clears, handled, lost, fault>>

\* The handler reads the packet where it lies in the buffer.
ProcessRecvPacket ==
    LET at == packetInfo.at
        inside == at + packetInfo.size <= Size
    IN  /\ ProcStep("handle", "deque")
        /\ fault' = ~inside
        /\ packetInfo' = NoPacket
        /\ handled' = IF inside /\ ~raced /\ ~lost
                      THEN Append(handled, [i \in 1..packetInfo.size |->
                                              mPacketDataBuffer[at + i - 1]])
                      ELSE handled
        /\ UNCHANGED <<bufferVars, tokens, remainByte, clears, lost>>

\* User::Clear, for a connect or disconnect packet: the write position first.
ClearWPos ==
    /\ clears < Clears
    /\ ProcStep("deque", "clear")
    /\ clears' = clears + 1
    /\ lost' = (lost \/ arrived > 0)
    /\ mPacketDataBufferWPos' = 0
    /\ UNCHANGED <<mPacketDataBuffer, mPacketDataBufferRPos, tokens, remainByte, packetInfo,
                   handled, fault>>

ClearRPos ==
    /\ ProcStep("clear", "deque")
    /\ mPacketDataBufferRPos' = 0
    /\ lost' = (lost \/ arrived > 0)
    /\ UNCHANGED <<mPacketDataBuffer, mPacketDataBufferWPos, tokens, remainByte, packetInfo,
                   clears, handled, fault>>

GetPacket ==
    \/ GetPacketRemain
    \/ mPacketDataBufferRPos \in Cells /\ \E n \in LengthAt(mPacketDataBufferRPos) : GetPacketHeader(n)
    \/ GetPacketOutside
    \/ GetPacketAdvance

ProcessPacket ==
    \/ DequePacketData \/ GetPacket \/ ProcessRecvPacket
    \/ ClearWPos \/ ClearRPos

----------------------------------------------------------------------------
\* The worker compacts while the process thread is in GetPacket or a handler.
Meet ==
    /\ recvPc \in {"move", "moved", "reset"}
    /\ procPc \in {"getpacket", "header", "advance", "handle"}

Step ==
    /\ ~fault
    /\ (\E n \in 1..MaxChunk : KernelRecv(n)) \/ ReceivePacketData \/ ProcessPacket
    /\ raced' = (raced \/ Meet')
    /\ UNCHANGED cuts

\* The process died, or the client sent all it had and everybody waits.
Rest ==
    /\ fault \/ (recvPc = "recv" /\ arrived = Total /\ procPc = "deque" /\ tokens = 0
                 /\ clears = Clears)
    /\ UNCHANGED vars

Next == Step \/ Rest

Spec == Init /\ [][Next]_vars

----------------------------------------------------------------------------
(* Properties.                                                             *)

\* No compaction met a reader and no Clear dropped bytes.
Intact == ~raced /\ ~lost

\* The bytes of packet k of the stream.
Bytes(k) == [i \in 1..(cuts[k] - cuts[k - 1]) |-> cuts[k - 1] + i]

\* The packets handled are the packets sent: in order, whole, none twice and
\* none left out, however the receives cut the stream and although nothing
\* is locked, as long as no compaction meets the reader.
PacketsInOrder ==
    Intact => \A k \in 1..Len(handled) : k <= Packets /\ handled[k] = Bytes(k)

\* SetPacketData leaves the buffer only when the new bytes and those that were
\* unread when it compacted exceed it: no space in front of them is wasted.
\* GetPacket and the handlers never leave it.
OverrunOnlyWhenFull ==
    Intact /\ fault => recvPc = "store" /\ backlog + dataSize > Size

\* When both threads rest - the worker waits for a receive, no token is left -
\* every packet that has arrived whole was handled, although a token that finds
\* no whole packet is used up: the one that completes it brings another.  No
\* receive may complete two packets, since one token takes one.
NothingLeftAtRest ==
    recvPc = "recv" /\ procPc = "deque" /\ tokens = 0
        => \A k \in 1..Packets : arrived >= cuts[k]
               => Len(handled) >= k \/ coalesced \/ fault \/ ~Intact
=============================================================================
