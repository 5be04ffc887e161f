--------------------------- MODULE ClientReceive ---------------------------
(***************************************************************************)
(* The receive path of the C# client: NetworkReadProcess fills a           *)
(* PacketBufferManager with what the socket returns, takes every whole     *)
(* packet out of it and queues it; the UI timer (BackGroundProcess) takes  *)
(* one packet per tick.  The buffer belongs to the read thread; the queue  *)
(* is shared and locked.                                                   *)
(*                                                                         *)
(* The bytes the server sends are the numbers 1, 2, 3...; packet k ends    *)
(* with byte cuts[k], and the first byte of a packet holds its size.       *)
(***************************************************************************)
EXTENDS Integers, Sequences

CONSTANTS
    BufferSize,       \* the size Form1_Load passes to Init: 80960
    HeaderSize,       \* PACKET_HEADER_SIZE
    MaxPacketSize,    \* the space NextFree asks for: 1024
    ReadSize,         \* the bytes one Receive returns at most: 2048
    Packets,          \* bound: packets the server sends
    Streams,          \* the streams it may send: where each packet ends
    Garbage           \* what a size may be that is read where no packet starts

ASSUME ReceiveAssumption ==
    /\ HeaderSize \in Nat \ {0} /\ MaxPacketSize \in Nat /\ ReadSize \in Nat
    /\ BufferSize \in Nat /\ BufferSize >= ReadSize + 2 * MaxPacketSize
    /\ Packets \in Nat /\ Garbage \subseteq Int
    /\ \A c \in Streams :
          /\ c \in [0..Packets -> Nat] /\ c[0] = 0
          /\ \A k \in 1..Packets : c[k] - c[k - 1] \in HeaderSize..MaxPacketSize
          /\ \A j, k \in 0..Packets : j < k => c[j] < c[k]

VARIABLES
    cuts,               \* the server's packets: the last byte of each
    arrived,            \* bytes the socket has returned so far
    connected,          \* Network.IsConnected()
    PacketData,         \* the byte in each cell, 0 before the first write
    ReadPos, WritePos,
    readPc,             \* NetworkReadProcess: in Receive or in its inner loop
    RecvPacketQueue,    \* packets, each the bytes it was taken from
    handled,            \* history: packets passed to PacketProcess
    refused,            \* history: size of the first receive Write refused, or 0
    fault               \* an exception nobody catches ended the process

bufferVars == <<PacketData, ReadPos, WritePos>>
vars == <<cuts, arrived, connected, bufferVars, readPc, RecvPacketQueue, handled,
          refused, fault>>

Cells == 0..(BufferSize - 1)
Total == cuts[Packets]    \* bytes in the whole stream

TypeOK ==
    /\ cuts \in Streams
    /\ arrived \in 0..Total
    /\ connected \in BOOLEAN
    /\ PacketData \in [Cells -> 0..Total]
    /\ WritePos \in 0..BufferSize /\ ReadPos \in 0..WritePos
    /\ readPc \in {"recv", "read"}
    /\ RecvPacketQueue \in Seq(Seq(Nat)) /\ handled \in Seq(Seq(Nat))
    /\ refused \in 0..ReadSize
    /\ fault \in BOOLEAN

Init ==
    /\ cuts \in Streams
    /\ arrived = 0
    /\ connected = TRUE
    /\ PacketData = [i \in Cells |-> 0]
    /\ ReadPos = 0 /\ WritePos = 0
    /\ readPc = "recv"
    /\ RecvPacketQueue = << >> /\ handled = << >>
    /\ refused = 0
    /\ fault = FALSE

----------------------------------------------------------------------------
(* PacketBufferManager.                                                    *)

\* Mutant: the test is for any space at all.
NextFreeAny(w) == BufferSize - w > 0

NextFree(w) == BufferSize - w >= MaxPacketSize

\* The cells after the n bytes that just arrived were copied to WritePos.
Copied(n) ==
    [i \in Cells |-> IF i \in WritePos..(WritePos + n - 1)
                     THEN arrived + 1 + (i - WritePos) ELSE PacketData[i]]

\* Mutant: the bytes are moved but ReadPos is left where it was.
RelocateKeepsReadPos(data, w) ==
    /\ PacketData' = [i \in Cells |-> IF i < w - ReadPos THEN data[ReadPos + i] ELSE data[i]]
    /\ WritePos' = w - ReadPos
    /\ UNCHANGED ReadPos

\* The unread bytes move to the front, by way of a second array.
BufferRelocate(data, w) ==
    /\ PacketData' = [i \in Cells |-> IF i < w - ReadPos THEN data[ReadPos + i] ELSE data[i]]
    /\ WritePos' = w - ReadPos
    /\ ReadPos' = 0

WriteRefused(n) ==
    /\ BufferSize - WritePos < n
    /\ refused' = IF refused = 0 THEN n ELSE refused
    /\ UNCHANGED bufferVars

WriteAccepted(n) ==
    /\ BufferSize - WritePos >= n
    /\ IF NextFree(WritePos + n)
       THEN PacketData' = Copied(n) /\ WritePos' = WritePos + n /\ UNCHANGED ReadPos
       ELSE BufferRelocate(Copied(n), WritePos + n)
    /\ UNCHANGED refused

Write(n) == WriteRefused(n) \/ WriteAccepted(n)

----------------------------------------------------------------------------
(* NetworkReadProcess.                                                     *)

\* Receive returns n bytes.  That Write may refuse them is not looked at.
Receive(n) ==
    /\ readPc = "recv" /\ connected /\ arrived + n <= Total
    /\ Write(n)
    /\ arrived' = arrived + n
    /\ readPc' = "read"
    /\ UNCHANGED <<connected, RecvPacketQueue, handled, fault>>

\* Receive returns null: the server closed the connection, or it failed.
ReceiveNull ==
    /\ readPc = "recv" /\ connected
    /\ connected' = FALSE
    /\ UNCHANGED <<arrived, bufferVars, readPc, RecvPacketQueue, handled, refused, fault>>

\* The size a header at cell i holds.
SizeAt(i) ==
    IF \E k \in 1..Packets : PacketData[i] = cuts[k - 1] + 1
    THEN {cuts[k] - cuts[k - 1] : k \in {j \in 1..Packets : PacketData[i] = cuts[j - 1] + 1}}
    ELSE Garbage

Unread == WritePos - ReadPos

\* Mutant: a packet is taken when its header is there.
TakeHeaderOnly(size) == Unread >= HeaderSize /\ size >= HeaderSize

\* Read returns a packet whose body can be copied.
Takes(size) == Unread >= HeaderSize /\ Unread >= size /\ size >= HeaderSize

\* Mutant: one packet is taken per receive.
ReadPacketOnce ==
    /\ readPc = "read"
    /\ \E size \in SizeAt(ReadPos) :
          /\ Takes(size)
          /\ RecvPacketQueue' =
               Append(RecvPacketQueue, [i \in 1..size |-> PacketData[ReadPos + i - 1]])
          /\ ReadPos' = ReadPos + size
    /\ readPc' = "recv"
    /\ UNCHANGED <<arrived, connected, PacketData, WritePos, handled, refused, fault>>

ReadPacket ==
    /\ readPc = "read"
    /\ \E size \in SizeAt(ReadPos) :
          /\ Takes(size)
          /\ RecvPacketQueue' =
               Append(RecvPacketQueue, [i \in 1..size |-> PacketData[ReadPos + i - 1]])
          /\ ReadPos' = ReadPos + size
    /\ UNCHANGED <<arrived, connected, PacketData, WritePos, readPc, handled, refused, fault>>

\* Read returns an empty segment, which ends the inner loop.
ReadNothing ==
    /\ readPc = "read"
    /\ \/ Unread < HeaderSize
       \/ \E size \in SizeAt(ReadPos) : Unread < size \/ size = 0
    /\ readPc' = "recv"
    /\ UNCHANGED <<arrived, connected, bufferVars, RecvPacketQueue, handled, refused, fault>>

\* A negative size is refused by ArraySegment, one shorter than the header by
\* the array for the body: both throw.
ReadThrows ==
    /\ readPc = "read" /\ Unread >= HeaderSize
    /\ \E size \in SizeAt(ReadPos) : size < HeaderSize /\ size # 0 /\ size <= Unread
    /\ fault' = TRUE
    /\ UNCHANGED <<arrived, connected, bufferVars, readPc, RecvPacketQueue, handled, refused>>

NetworkReadProcess == ReadPacket \/ ReadNothing \/ ReadThrows

----------------------------------------------------------------------------
\* Mutant: a tick takes one packet and drops the rest.
BackGroundProcessClears ==
    /\ RecvPacketQueue # << >>
    /\ handled' = Append(handled, Head(RecvPacketQueue))
    /\ RecvPacketQueue' = << >>
    /\ UNCHANGED <<arrived, connected, bufferVars, readPc, refused, fault>>

\* The UI timer takes one packet per tick.
BackGroundProcess ==
    /\ RecvPacketQueue # << >>
    /\ handled' = Append(handled, Head(RecvPacketQueue))
    /\ RecvPacketQueue' = Tail(RecvPacketQueue)
    /\ UNCHANGED <<arrived, connected, bufferVars, readPc, refused, fault>>

Step ==
    /\ ~fault
    /\ \/ \E n \in 1..ReadSize : Receive(n)
       \/ ReceiveNull
       \/ NetworkReadProcess
       \/ BackGroundProcess
    /\ UNCHANGED cuts

\* The process died, or nothing is left to do.
Rest ==
    /\ fault \/ (readPc = "recv" /\ ~connected /\ RecvPacketQueue = << >>)
    /\ UNCHANGED vars

Next == Step \/ Rest

Spec == Init /\ [][Next]_vars

\* The read thread and the timer run; the server need not send.
Fairness ==
    /\ WF_vars(Step /\ NetworkReadProcess)
    /\ WF_vars(Step /\ BackGroundProcess)

FairSpec == Spec /\ Fairness

----------------------------------------------------------------------------
(* Properties.                                                             *)

\* The bytes of packet k of the stream.
Bytes(k) == [i \in 1..(cuts[k] - cuts[k - 1]) |-> cuts[k - 1] + i]

\* What the UI handled and will handle is what the server sent: in order,
\* whole, none twice and none left out, however the receives cut the stream
\* and whenever the buffer is relocated, until a Write is refused.
FramesInOrder ==
    refused = 0 =>
        /\ \A k \in 1..Len(handled) : k <= Packets /\ handled[k] = Bytes(k)
        /\ \A k \in 1..Len(RecvPacketQueue) :
              /\ Len(handled) + k <= Packets
              /\ RecvPacketQueue[k] = Bytes(Len(handled) + k)

\* Write's result is ignored, so a refused receive is lost in silence and the
\* stream is read out of step from then on.  NextFree keeps room for one
\* packet: the first receive that is refused is longer than a packet may be,
\* which Receive allows (2048 bytes against 1024).
RefusedOnlyLong == refused # 0 => refused > MaxPacketSize

\* The inner loop leaves no whole packet behind: the read thread blocks in
\* Receive only with less than one packet unread, so no packet waits for the
\* server to send another one.
DrainedBeforeReceive ==
    refused = 0 /\ ~fault /\ readPc = "recv" =>
        LET n == Len(handled) + Len(RecvPacketQueue) IN
          n < Packets => arrived < cuts[n + 1]

\* A packet that has arrived is handled, although a tick takes only one and
\* the connection may close meanwhile.
EveryFrameHandled ==
    \A k \in 1..Packets : arrived >= cuts[k] ~> (Len(handled) >= k \/ refused # 0)
=============================================================================
