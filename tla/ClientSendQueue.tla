-------------------------- MODULE ClientSendQueue --------------------------
(***************************************************************************)
(* The send path of the C# client: PostSendPacket on the UI thread puts a  *)
(* packet into SendPacketQueue without the lock under which                *)
(* NetworkSendProcess takes it out, while NetworkReadProcess may close the *)
(* socket.                                                                 *)
(*                                                                         *)
(* SendPacketQueue is a .NET Queue<T>: a circular array with _head, _tail  *)
(* and _size.  Its fields are loaded and stored one by one, since nothing  *)
(* makes the calls of the two threads exclude each other; _size++ and      *)
(* _size-- are a load and a store each.  A packet is its number, 0 is null.*)
(***************************************************************************)
EXTENDS Naturals, SequencesExt

CONSTANTS
    MaxPackets,   \* bound: packets the user's clicks post
    MinGrow       \* Queue's MinimumGrow, 4

ASSUME SendAssumption == MaxPackets \in Nat /\ MinGrow \in Nat \ {0}

VARIABLES
    array, head, tail, size,   \* the fields of SendPacketQueue; array holds packets and 0
    ui,        \* where the UI thread is in PostSendPacket
    sender,    \* where the send thread is in NetworkSendProcess
    uiSize,    \* _size as Enqueue has loaded it
    newArray,  \* the larger array while Grow fills it
    local,     \* Dequeue's locals: the slot, the packet, the array, _head, _size
    grows,     \* how often _array was replaced
    sock,      \* "open", "reset" by the server, "closed" by the read thread
    posted,    \* how many packets PostSendPacket was called with
    sent,      \* the packets given to Sock.Send, in order
    lost,      \* a store to _size has overwritten another one
    torn,      \* _array was being replaced during a Dequeue
    died       \* an exception nobody catches has ended the process

queueVars == <<array, head, tail, size>>
history == <<lost, torn, died>>
vars == <<queueVars, ui, sender, uiSize, newArray, local, grows, sock, posted, sent,
          history>>

Packet == 1..MaxPackets

\* The locals before and after a Dequeue.
NoLocal == [slot |-> 0, packet |-> 0, grows |-> 0, head |-> 0, size |-> 0]

Init ==
    /\ array = <<>> /\ newArray = <<>> /\ head = 0 /\ tail = 0 /\ size = 0
    /\ ui = "idle" /\ sender = "idle" /\ uiSize = 0
    /\ local = NoLocal
    /\ grows = 0 /\ sock = "open" /\ posted = 0 /\ sent = <<>>
    /\ lost = FALSE /\ torn = FALSE /\ died = FALSE

\* Sock.Connected: it stays true until a call on the socket has failed.
IsConnected == sock = "open"

\* MoveNext: the position after i in the array.
MoveNext(i) == IF i + 1 >= Len(array) THEN 0 ELSE i + 1

\* The send thread is inside Queue.Dequeue.
Dequeuing == sender \in {"take", "clear", "next", "head", "load", "size"}
-----------------------------------------------------------------------------
(* The UI thread.                                                          *)

UI(here, next) ==
    /\ ~died /\ ui = here /\ ui' = next
    /\ UNCHANGED <<sender, local, sock, sent, died>>

\* PostSendPacket builds the packet and calls Enqueue, which tests _size.
PostSendPacket ==
    /\ posted < MaxPackets /\ IsConnected
    /\ UI("idle", IF size = Len(array) THEN "copy" ELSE "store")
    /\ posted' = posted + 1
    /\ UNCHANGED <<queueVars, uiSize, newArray, grows, lost, torn>>

\* Grow: what is between _head and _tail moves to the front of a larger array.
Unwrapped ==
    IF size = 0 THEN <<>>
    ELSE IF head < tail THEN SubSeq(array, head + 1, head + size)
    ELSE SubSeq(array, head + 1, Len(array)) \o SubSeq(array, 1, tail)

NewCapacity == Len(array) + (IF Len(array) > MinGrow THEN Len(array) ELSE MinGrow)

EnqueueCopy ==
    /\ head >= tail \/ head + size <= Len(array)
    /\ UI("copy", "install")
    /\ newArray' = [i \in 1..NewCapacity |-> IF i <= Len(Unwrapped) THEN Unwrapped[i] ELSE 0]
    /\ torn' = (torn \/ Dequeuing)
    /\ UNCHANGED <<queueVars, uiSize, grows, posted, lost>>

\* Array.Copy refuses a range outside the array, and the packet is dropped.
EnqueueThrows ==
    /\ head < tail /\ head + size > Len(array)
    /\ UI("copy", "idle")
    /\ UNCHANGED <<queueVars, uiSize, newArray, grows, posted, lost, torn>>

EnqueueInstall ==
    /\ UI("install", "store")
    /\ array' = newArray /\ head' = 0 /\ tail' = size
    /\ newArray' = <<>>
    /\ grows' = grows + 1
    /\ UNCHANGED <<size, uiSize, posted, lost, torn>>

EnqueueStore ==
    /\ UI("store", "load")
    /\ array' = [array EXCEPT ![tail + 1] = posted]
    /\ tail' = MoveNext(tail)
    /\ UNCHANGED <<head, size, uiSize, newArray, grows, posted, lost, torn>>

EnqueueLoadSize ==
    /\ UI("load", "size")
    /\ uiSize' = size
    /\ UNCHANGED <<queueVars, newArray, grows, posted, lost, torn>>

EnqueueStoreSize ==
    /\ UI("size", "idle")
    /\ size' = uiSize + 1 /\ uiSize' = 0
    /\ lost' = (lost \/ size # uiSize)
    /\ UNCHANGED <<array, head, tail, newArray, grows, posted, torn>>

Enqueue ==
    \/ EnqueueCopy \/ EnqueueInstall \/ EnqueueThrows
    \/ EnqueueStore \/ EnqueueLoadSize \/ EnqueueStoreSize
-----------------------------------------------------------------------------
(* The send thread.                                                        *)

Sender(here, next) ==
    /\ ~died /\ sender = here /\ sender' = next
    /\ UNCHANGED <<ui, uiSize, newArray, grows, sock, posted>>

\* Mutant: the last packet stays in the queue.
NetworkSendProcessLeavesOne ==
    /\ IsConnected /\ size > 1
    /\ Sender("idle", "take")
    /\ torn' = (torn \/ ui = "install")
    /\ UNCHANGED <<queueVars, local, sent, lost, died>>

\* Sleep, IsConnected, the lock (which nobody else takes) and Count > 0.
NetworkSendProcess ==
    /\ IsConnected /\ size > 0
    /\ Sender("idle", "take")
    /\ torn' = (torn \/ ui = "install")
    /\ UNCHANGED <<queueVars, local, sent, lost, died>>

\* Dequeue reads the element at _head ...
DequeueTake ==
    /\ Sender("take", "clear")
    /\ local' = [local EXCEPT !.slot = head, !.packet = array[head + 1], !.grows = grows]
    /\ UNCHANGED <<queueVars, sent, history>>

\* Mutant: the element stays in its slot.
DequeueKeepsSlot ==
    /\ Sender("clear", "next")
    /\ UNCHANGED <<queueVars, local, sent, history>>

\* ... sets it to null in the array it has loaded ...
DequeueClear ==
    /\ Sender("clear", "next")
    /\ array' = IF local.grows = grows THEN [array EXCEPT ![local.slot + 1] = 0] ELSE array
    /\ UNCHANGED <<head, tail, size, local, sent, history>>

\* ... moves _head ...
DequeueNext ==
    /\ Sender("next", "head")
    /\ local' = [local EXCEPT !.head = MoveNext(head)]
    /\ UNCHANGED <<queueVars, sent, history>>

\* Mutant: _head stays where it was.
DequeueHeadStays ==
    /\ Sender("head", "load")
    /\ UNCHANGED <<queueVars, local, sent, history>>

DequeueHead ==
    /\ Sender("head", "load")
    /\ head' = local.head
    /\ UNCHANGED <<array, tail, size, local, sent, history>>

\* ... and lowers _size.
DequeueLoadSize ==
    /\ Sender("load", "size")
    /\ local' = [local EXCEPT !.size = size]
    /\ UNCHANGED <<queueVars, sent, history>>

DequeueStoreSize ==
    /\ Sender("size", "test")
    /\ size' = local.size - 1
    /\ local' = [NoLocal EXCEPT !.packet = local.packet]
    /\ lost' = (lost \/ size # local.size)
    /\ UNCHANGED <<array, head, tail, sent, torn, died>>

Dequeue ==
    \/ DequeueTake \/ DequeueClear \/ DequeueNext \/ DequeueHead
    \/ DequeueLoadSize \/ DequeueStoreSize

\* Send tests Sock.Connected; without a connection the packet is dropped.
SendTest ==
    /\ Sender("test", IF IsConnected THEN "send" ELSE "idle")
    /\ local' = IF IsConnected THEN local ELSE NoLocal
    /\ UNCHANGED <<queueVars, sent, history>>

\* A SocketException is caught; the NullReferenceException of a null packet and
\* the ObjectDisposedException of a socket closed since the test are not.
Send ==
    /\ Sender("send", "idle")
    /\ died' = (local.packet = 0 \/ sock = "closed")
    /\ sent' = IF died' \/ sock # "open" THEN sent ELSE Append(sent, local.packet)
    /\ local' = NoLocal
    /\ UNCHANGED <<queueVars, lost, torn>>
-----------------------------------------------------------------------------
\* The server closes the connection (Receive returns 0 bytes and the read thread
\* closes the socket) or resets it (Receive fails, Connected turns false).
NetworkReadProcess ==
    /\ ~died /\ sock = "open"
    /\ sock' \in {"reset", "closed"}
    /\ UNCHANGED <<queueVars, ui, sender, uiSize, newArray, local, grows, posted, sent,
                   history>>

Rest ==
    /\ died \/ (ui = "idle" /\ sender = "idle" /\ ~(IsConnected /\ (size > 0 \/ posted < MaxPackets)))
    /\ UNCHANGED vars

UIThread == PostSendPacket \/ Enqueue
SendThread == NetworkSendProcess \/ Dequeue \/ SendTest \/ Send

Next == UIThread \/ SendThread \/ NetworkReadProcess \/ Rest

Spec == Init /\ [][Next]_vars

\* Both threads keep running; nobody need click.
FairSpec == Spec /\ WF_vars(Enqueue) /\ WF_vars(SendThread)
-----------------------------------------------------------------------------
\* The two threads have not spoilt the queue for each other.
Intact == ~lost /\ ~torn

(* The unlocked Enqueue of PostSendPacket and the locked Dequeue of        *)
(* NetworkSendProcess do no harm as long as no store to _size overwrites   *)
(* another and the array is not replaced during a Dequeue: the packets     *)
(* leave in the order in which they were posted, each once, and the        *)
(* process survives unless the socket is closed between Send's test of     *)
(* Connected and the call.                                                 *)
SentInOrder ==
    Intact => /\ \A i \in 1..Len(sent) : sent[i] = i
              /\ died => sock = "closed"

(* Whatever the stores to _size lose, no packet is sent twice: packets     *)
(* wait, are dropped, overtake each other or end the process, but a slot   *)
(* that was taken is null.  Only an array replaced during a Dequeue brings *)
(* a taken packet back.                                                    *)
NeverTwice == ~torn => IsInjective(sent)

(* Every posted packet leaves, unless the connection ends or the threads   *)
(* have spoilt the queue.                                                  *)
EveryPacketSent ==
    \A n \in Packet : (posted = n) ~> (Len(sent) >= n \/ ~Intact \/ sock # "open")
=============================================================================
