----------------------- MODULE ClientSendQueueProofs -----------------------
(***************************************************************************)
(* Proofs about ClientSendQueue, for every number of packets and every     *)
(* size the array grows by.                                                *)
(*                                                                         *)
(* Neither property is inductive.  The positions stay inside the array     *)
(* whatever the stores to _size lose (RangeInv); while the array is not    *)
(* replaced during a Dequeue, a packet is in at most one place (OnceInv);  *)
(* and while no store to _size is lost either, the slots from _head to     *)
(* _tail hold the packets that wait, in order, at every place of the two   *)
(* threads (OrderInv).                                                     *)
(***************************************************************************)
EXTENDS ClientSendQueue, SequenceTheorems, TLAPS

TypeInv ==
    /\ array \in Seq(Nat) /\ newArray \in Seq(Nat) /\ sent \in Seq(Nat)
    /\ head \in Nat /\ tail \in Nat /\ size \in Nat /\ uiSize \in Nat
    /\ grows \in Nat /\ posted \in Nat
    /\ local \in [slot : Nat, packet : Nat, grows : Nat, head : Nat, size : Nat]
    /\ ui \in {"idle", "copy", "install", "store", "load", "size"}
    /\ sender \in {"idle", "take", "clear", "next", "head", "load", "size", "test", "send"}
    /\ lost \in BOOLEAN /\ torn \in BOOLEAN /\ died \in BOOLEAN

\* _size stays within the array although increments and decrements get lost.
RangeInv ==
    /\ IF Len(array) = 0 THEN head = 0 /\ tail = 0 ELSE head < Len(array) /\ tail < Len(array)
    /\ size <= Len(array) /\ local.size <= Len(array)
    /\ Dequeuing => size > 0
    /\ sender = "size" => local.size > 0
    /\ sender = "clear" => local.slot < Len(array)
    /\ sender = "head" => local.head < Len(array)
    /\ ui \in {"store", "load"} => size < Len(array)
    /\ ui = "size" => uiSize < Len(array)
    /\ IF ui = "install" THEN Len(newArray) > Len(array) ELSE newArray = <<>>
    /\ ui \in {"copy", "install", "store"} => posted > 0

\* The packets that were given to Enqueue and stored, or thrown away.
Stored == IF ui \in {"copy", "install", "store"} THEN posted - 1 ELSE posted

\* Where the packet is that the send thread has read.
InSlot == sender = "clear"

Once(s) == \A i, j \in 1..Len(s) : s[i] # 0 /\ s[i] = s[j] => i = j
Known(s) == \A i \in 1..Len(s) : s[i] <= Stored
Apart(s) ==
    /\ \A i \in 1..Len(s), k \in 1..Len(sent) : s[i] # sent[k]
    /\ \A i \in 1..Len(s) : s[i] # 0 /\ s[i] = local.packet => InSlot /\ i = local.slot + 1

\* Every packet is in one slot, in the send thread's hands, or sent.
OnceInv ==
    /\ Dequeuing => ui # "install"
    /\ InSlot => local.grows = grows
    /\ Once(array) /\ Known(array) /\ Apart(array)
    /\ Once(newArray) /\ Known(newArray) /\ Apart(newArray)
    /\ Once(sent) /\ Known(sent) /\ local.packet <= Stored
    /\ \A k \in 1..Len(sent) : sent[k] # 0 /\ sent[k] # local.packet

\* The packets from _head to _tail: _size, but for the increment and the
\* decrement that are under way.
Waiting ==
    size + (IF ui \in {"load", "size"} THEN 1 ELSE 0)
         - (IF sender \in {"load", "size"} THEN 1 ELSE 0)

\* The position k places behind _head.
Place(k) == IF head + k >= Len(array) THEN head + k - Len(array) ELSE head + k

Removed == sender \in {"load", "size", "test", "send"}

WaitingInv ==
    /\ Waiting <= Len(array) /\ Waiting <= Stored
    /\ Len(array) > 0 => tail = Place(Waiting)
    /\ ui = "store" => Waiting < Len(array)
    /\ sender \in {"take", "clear", "next", "head"} => Waiting > 0

ItemsInv ==
    /\ \A k \in 0..(Waiting - 1) :
          \/ k = 0 /\ sender \in {"next", "head"}
          \/ array[Place(k) + 1] = Stored - Waiting + 1 + k
    /\ ui = "install" => \A i \in 1..size : newArray[i] = Stored - Waiting + i

TakenInv ==
    /\ sender \in {"clear", "next", "head"} => local.packet = Stored - Waiting + 1
    /\ sender \in {"clear", "next", "head"} => local.slot = head
    /\ sender = "head" => local.head = MoveNext(head)
    /\ Removed => local.packet = Stored - Waiting /\ local.packet > 0

SentInv ==
    /\ \A i \in 1..Len(sent) : sent[i] = i
    /\ sock = "open" => Len(sent) + (IF Removed THEN 1 ELSE 0) = Stored - Waiting
    /\ died => sock = "closed"

OrderInv == WaitingInv /\ ItemsInv /\ TakenInv /\ SentInv

IInv ==
    /\ TypeInv /\ RangeInv
    /\ ~torn => OnceInv
    /\ Intact => OrderInv

----------------------------------------------------------------------------
(* The arrays.                                                             *)

LEMMA Sizes ==
    ASSUME TypeInv
    PROVE  /\ Len(array) \in Nat /\ Len(newArray) \in Nat /\ Len(sent) \in Nat
           /\ head \in Nat /\ tail \in Nat /\ size \in Nat /\ uiSize \in Nat
           /\ grows \in Nat /\ posted \in Nat
           /\ local.slot \in Nat /\ local.packet \in Nat /\ local.head \in Nat
           /\ local.size \in Nat /\ local.grows \in Nat
BY LenProperties DEF TypeInv

\* A store to one slot.
LEMMA StoreSlot ==
    ASSUME NEW s \in Seq(Nat), NEW p \in Nat, p < Len(s), NEW e \in Nat
    PROVE  /\ p + 1 \in 1..Len(s)
           /\ [s EXCEPT ![p + 1] = e] \in Seq(Nat)
           /\ Len([s EXCEPT ![p + 1] = e]) = Len(s)
           /\ \A i \in 1..Len(s) : [s EXCEPT ![p + 1] = e][i] = IF i = p + 1 THEN e ELSE s[i]
<1>1. Len(s) \in Nat
  BY LenProperties
<1>2. p + 1 \in 1..Len(s)
  BY <1>1
<1> QED BY <1>2, ExceptSeq

\* What lies between _head and _tail, piece by piece: with room for _size
\* elements behind _head, or wrapped around the end of the array.
LEMMA Pieces ==
    ASSUME TypeInv, RangeInv, head >= tail \/ head + size <= Len(array)
    PROVE  /\ Unwrapped \in Seq(Nat) /\ Len(Unwrapped) <= Len(array)
           /\ size = 0 => Len(Unwrapped) = 0
           /\ size # 0 /\ head < tail => Len(Unwrapped) = size
           /\ size # 0 /\ head >= tail => Len(Unwrapped) = (Len(array) - head) + tail
           /\ \A i \in 1..Len(Unwrapped) :
                 Unwrapped[i] = IF head < tail \/ i <= Len(array) - head THEN array[head + i]
                                ELSE array[i - (Len(array) - head)]
<1> DEFINE first == SubSeq(array, head + 1, Len(array))
           second == SubSeq(array, 1, tail)
           part == SubSeq(array, head + 1, head + size)
<1>1. /\ Len(array) \in Nat /\ head \in Nat /\ tail \in Nat /\ size \in Nat
      /\ head <= Len(array) /\ tail <= Len(array)
  BY Sizes DEF RangeInv
<1>2. array \in Seq(Nat) /\ \A i \in 1..Len(array) : array[i] \in Nat
  BY LenProperties DEF TypeInv
<1>3. CASE size = 0
  <2>1. Unwrapped = <<>>
    BY <1>3 DEF Unwrapped
  <2> QED BY <1>1, <1>3, <2>1
<1>4. CASE size # 0 /\ head < tail
  <2>1. Unwrapped = part /\ head + size <= Len(array)
    BY <1>1, <1>4 DEF Unwrapped
  <2>2. \A i \in (head + 1)..(head + size) : array[i] \in Nat
    BY <1>1, <1>2, <2>1
  <2>3. /\ part \in Seq(Nat)
        /\ Len(part) = IF head + 1 <= head + size THEN (head + size) - (head + 1) + 1 ELSE 0
        /\ \A i \in 1..((head + size) - (head + 1) + 1) : part[i] = array[(head + 1) + i - 1]
    BY <1>1, <2>2, SubSeqProperties
  <2>4. Len(part) = size /\ \A i \in 1..size : part[i] = array[head + i]
    <3>1. /\ (head + size) - (head + 1) + 1 = size /\ head + 1 <= head + size
          /\ \A i \in 1..size : (head + 1) + i - 1 = head + i
      BY <1>1, <1>4
    <3> QED BY <2>3, <3>1
  <2> HIDE DEF part
  <2> QED BY <1>1, <1>4, <2>1, <2>3, <2>4
<1>5. CASE size # 0 /\ head >= tail
  <2>1. Unwrapped = first \o second
    <3>1. ~(head < tail) /\ ~(size = 0)
      BY <1>1, <1>5
    <3> QED BY <3>1, Zenon DEF Unwrapped
  <2>2. /\ \A i \in (head + 1)..Len(array) : array[i] \in Nat
        /\ \A i \in 1..tail : array[i] \in Nat
    BY <1>1, <1>2
  <2>3. /\ first \in Seq(Nat) /\ Len(first) = Len(array) - head
        /\ \A i \in 1..(Len(array) - head) : first[i] = array[head + i]
    <3>1. /\ first \in Seq(Nat)
          /\ Len(first) = IF head + 1 <= Len(array) THEN Len(array) - (head + 1) + 1 ELSE 0
          /\ \A i \in 1..(Len(array) - (head + 1) + 1) : first[i] = array[(head + 1) + i - 1]
      BY <1>1, <2>2, SubSeqProperties
    <3>2. /\ Len(array) - (head + 1) + 1 = Len(array) - head
          /\ \A i \in 1..(Len(array) - head) : (head + 1) + i - 1 = head + i
      BY <1>1
    <3> QED BY <1>1, <3>1, <3>2
  <2>4. /\ second \in Seq(Nat) /\ Len(second) = tail
        /\ \A i \in 1..tail : second[i] = array[i]
    <3>1. /\ second \in Seq(Nat)
          /\ Len(second) = IF 1 <= tail THEN tail - 1 + 1 ELSE 0
          /\ \A i \in 1..(tail - 1 + 1) : second[i] = array[1 + i - 1]
      BY <1>1, <2>2, SubSeqProperties
    <3>2. tail - 1 + 1 = tail /\ \A i \in 1..tail : 1 + i - 1 = i
      BY <1>1
    <3> QED BY <1>1, <3>1, <3>2
  <2> HIDE DEF first, second
  <2>5. /\ first \o second \in Seq(Nat) /\ Len(first \o second) = (Len(array) - head) + tail
        /\ \A i \in 1..((Len(array) - head) + tail) :
              (first \o second)[i] = IF i <= Len(array) - head THEN first[i]
                                      ELSE second[i - (Len(array) - head)]
    <3>1. /\ first \o second \in Seq(Nat) /\ Len(first \o second) = Len(first) + Len(second)
          /\ \A i \in 1..(Len(first) + Len(second)) :
                (first \o second)[i] = IF i <= Len(first) THEN first[i]
                                        ELSE second[i - Len(first)]
      BY <2>3, <2>4, ConcatProperties, Zenon
    <3> QED BY <2>3, <2>4, <3>1
  <2>6. ASSUME NEW i \in 1..((Len(array) - head) + tail)
        PROVE  (first \o second)[i] = IF i <= Len(array) - head THEN array[head + i]
                                       ELSE array[i - (Len(array) - head)]
    <3>1. CASE i <= Len(array) - head
      BY <1>1, <2>3, <2>5, <3>1
    <3>2. CASE ~(i <= Len(array) - head)
      <4>1. i - (Len(array) - head) \in 1..tail
        BY <1>1, <3>2
      <4> QED BY <2>4, <2>5, <3>2, <4>1
    <3> QED BY <3>1, <3>2
  <2>7. ~(head < tail) /\ (Len(array) - head) + tail <= Len(array)
    BY <1>1, <1>5
  <2> QED BY <1>1, <1>5, <2>1, <2>5, <2>6, <2>7
<1> QED BY <1>1, <1>3, <1>4, <1>5

\* The larger array: what waits is in front, the rest is null.
LEMMA Larger ==
    ASSUME TypeInv, RangeInv, ~died, EnqueueCopy
    PROVE  /\ newArray' \in Seq(Nat) /\ Len(newArray') > Len(array)
           /\ Len(Unwrapped) \in Nat /\ Len(Unwrapped) <= Len(newArray')
           /\ \A i \in 1..Len(newArray') :
                 newArray'[i] = IF i <= Len(Unwrapped) THEN Unwrapped[i] ELSE 0
<1>1. /\ Unwrapped \in Seq(Nat) /\ Len(Unwrapped) <= Len(array)
      /\ Len(array) \in Nat /\ Len(Unwrapped) \in Nat
      /\ \A i \in 1..Len(Unwrapped) : Unwrapped[i] \in Nat
  <2>1. Unwrapped \in Seq(Nat) /\ Len(Unwrapped) <= Len(array)
    BY Pieces DEF EnqueueCopy
  <2> QED BY <2>1, Sizes, LenProperties
<1>2. NewCapacity \in Nat /\ NewCapacity > Len(array)
  BY <1>1, SendAssumption DEF NewCapacity
<1> DEFINE new == [i \in 1..NewCapacity |-> IF i <= Len(Unwrapped) THEN Unwrapped[i] ELSE 0]
<1>3. newArray' = new
  BY DEF EnqueueCopy
<1>4. new \in [1..NewCapacity -> Nat]
  BY <1>1
<1>5. new \in Seq(Nat) /\ Len(new) = NewCapacity
  BY <1>2, <1>4
<1> QED BY <1>1, <1>2, <1>3, <1>5

----------------------------------------------------------------------------
(* The types and the ranges.                                               *)

LEMMA TypeStep ==
    ASSUME TypeInv, RangeInv, [Next]_vars
    PROVE  TypeInv'
<1> USE Sizes
<1>1. CASE UNCHANGED vars
  BY <1>1 DEF vars, queueVars, history, TypeInv
<1>2. CASE PostSendPacket
  BY <1>2 DEF PostSendPacket, UI, queueVars, TypeInv
<1>3. CASE EnqueueCopy
  <2>1. newArray' \in Seq(Nat)
    BY <1>3, Larger DEF EnqueueCopy, UI
  <2> QED BY <1>3, <2>1 DEF EnqueueCopy, UI, queueVars, TypeInv
<1>4. CASE EnqueueThrows
  BY <1>4 DEF EnqueueThrows, UI, queueVars, TypeInv
<1>5. CASE EnqueueInstall
  <2>1. <<>> \in Seq(Nat)
    OBVIOUS
  <2> QED BY <1>5, <2>1 DEF EnqueueInstall, UI, TypeInv
<1>6. CASE EnqueueStore
  <2>1. tail < Len(array) /\ array \in Seq(Nat)
    BY <1>6 DEF EnqueueStore, UI, TypeInv, RangeInv
  <2>2. array' \in Seq(Nat)
    BY <1>6, <2>1, StoreSlot DEF EnqueueStore
  <2>3. tail' \in Nat
    BY <1>6 DEF EnqueueStore, MoveNext
  <2> QED BY <1>6, <2>2, <2>3 DEF EnqueueStore, UI, TypeInv
<1>7. CASE EnqueueLoadSize
  BY <1>7 DEF EnqueueLoadSize, UI, queueVars, TypeInv
<1>8. CASE EnqueueStoreSize
  BY <1>8 DEF EnqueueStoreSize, UI, TypeInv
<1>9. CASE NetworkSendProcess
  BY <1>9 DEF NetworkSendProcess, Sender, queueVars, TypeInv
<1>10. CASE DequeueTake
  <2>1. head < Len(array)
    BY <1>10 DEF DequeueTake, Sender, RangeInv, Dequeuing
  <2>2. array[head + 1] \in Nat
    <3>1. array \in [1..Len(array) -> Nat]
      BY LenProperties DEF TypeInv
    <3> QED BY <2>1, <3>1
  <2>3. local' \in [slot : Nat, packet : Nat, grows : Nat, head : Nat, size : Nat]
    BY <1>10, <2>2 DEF DequeueTake, TypeInv
  <2> QED BY <1>10, <2>3 DEF DequeueTake, Sender, queueVars, history, TypeInv
<1>11. CASE DequeueClear
  <2>1. array' \in Seq(Nat)
    BY <1>11, StoreSlot DEF DequeueClear, Sender, RangeInv, TypeInv
  <2> QED BY <1>11, <2>1 DEF DequeueClear, Sender, history, TypeInv
<1>12. CASE DequeueNext
  <2>1. local' \in [slot : Nat, packet : Nat, grows : Nat, head : Nat, size : Nat]
    <3>1. MoveNext(head) \in Nat
      BY DEF MoveNext
    <3> QED BY <1>12, <3>1 DEF DequeueNext, TypeInv
  <2> QED BY <1>12, <2>1 DEF DequeueNext, Sender, queueVars, history, TypeInv
<1>13. CASE DequeueHead
  BY <1>13 DEF DequeueHead, Sender, history, TypeInv
<1>14. CASE DequeueLoadSize
  BY <1>14 DEF DequeueLoadSize, Sender, queueVars, history, TypeInv
<1>15. CASE DequeueStoreSize
  <2>1. size' \in Nat
    <3>1. sender = "size" /\ size' = local.size - 1
      BY <1>15 DEF DequeueStoreSize, Sender
    <3>2. local.size > 0
      BY <3>1 DEF RangeInv
    <3>3. \A n \in Nat : n > 0 => n - 1 \in Nat
      OBVIOUS
    <3> QED BY <3>1, <3>2, <3>3, Zenon
  <2> QED BY <1>15, <2>1 DEF DequeueStoreSize, Sender, TypeInv, NoLocal
<1>16. CASE SendTest
  BY <1>16 DEF SendTest, Sender, queueVars, history, TypeInv, NoLocal
<1>17. CASE Send
  <2>1. sent' \in Seq(Nat)
    BY <1>17, AppendProperties DEF Send, TypeInv
  <2> QED BY <1>17, <2>1 DEF Send, Sender, queueVars, TypeInv, NoLocal
<1>18. CASE NetworkReadProcess
  BY <1>18 DEF NetworkReadProcess, queueVars, history, TypeInv
<1> QED
  BY <1>1, <1>2, <1>3, <1>4, <1>5, <1>6, <1>7, <1>8, <1>9, <1>10, <1>11, <1>12, <1>13, <1>14,
     <1>15, <1>16, <1>17, <1>18
     DEF Next, UIThread, Enqueue, SendThread, Dequeue, Rest

LEMMA RangeStep ==
    ASSUME TypeInv, RangeInv, [Next]_vars
    PROVE  RangeInv'
<1> USE Sizes
<1>1. CASE UNCHANGED vars
  BY <1>1 DEF vars, queueVars, history, RangeInv, Dequeuing
<1>2. CASE PostSendPacket
  BY <1>2 DEF PostSendPacket, UI, queueVars, RangeInv, Dequeuing
<1>3. CASE EnqueueCopy
  <2>1. Len(newArray') > Len(array)
    BY <1>3, Larger DEF EnqueueCopy, UI
  <2> QED BY <1>3, <2>1 DEF EnqueueCopy, UI, queueVars, RangeInv, Dequeuing
<1>4. CASE EnqueueThrows
  BY <1>4 DEF EnqueueThrows, UI, queueVars, RangeInv, Dequeuing
<1>5. CASE EnqueueInstall
  <2>1. /\ ui = "install" /\ ui' = "store" /\ array' = newArray /\ newArray' = <<>>
        /\ head' = 0 /\ tail' = size
        /\ UNCHANGED <<sender, size, local, posted>>
    BY <1>5 DEF EnqueueInstall, UI
  <2>2. Len(array') > Len(array) /\ Len(array') \in Nat /\ size <= Len(array)
    BY <2>1 DEF RangeInv
  <2> QED BY <2>1, <2>2 DEF RangeInv, Dequeuing
<1>6. CASE EnqueueStore
  <2>1. tail < Len(array) /\ array \in Seq(Nat) /\ Len(array) > 0
    BY <1>6 DEF EnqueueStore, UI, TypeInv, RangeInv
  <2>2. Len(array') = Len(array)
    BY <1>6, <2>1, StoreSlot DEF EnqueueStore
  <2>3. tail' < Len(array)
    BY <1>6, <2>1 DEF EnqueueStore, MoveNext
  <2> QED BY <1>6, <2>1, <2>2, <2>3 DEF EnqueueStore, UI, RangeInv, Dequeuing
<1>7. CASE EnqueueLoadSize
  BY <1>7 DEF EnqueueLoadSize, UI, queueVars, RangeInv, Dequeuing
<1>8. CASE EnqueueStoreSize
  <2>1. /\ ui = "size" /\ ui' = "idle" /\ size' = uiSize + 1
        /\ UNCHANGED <<array, newArray, head, tail, sender, local, posted>>
    BY <1>8 DEF EnqueueStoreSize, UI
  <2> QED BY <2>1 DEF RangeInv, Dequeuing
<1>9. CASE NetworkSendProcess
  BY <1>9 DEF NetworkSendProcess, Sender, queueVars, RangeInv, Dequeuing
<1>10. CASE DequeueTake
  <2>1. head < Len(array) /\ size > 0
    BY <1>10 DEF DequeueTake, Sender, RangeInv, Dequeuing
  <2>2. local'.slot = head /\ local'.size = local.size
    BY <1>10 DEF DequeueTake, TypeInv
  <2> QED BY <1>10, <2>1, <2>2 DEF DequeueTake, Sender, queueVars, history, RangeInv, Dequeuing
<1>11. CASE DequeueClear
  <2>1. Len(array') = Len(array)
    BY <1>11, StoreSlot DEF DequeueClear, Sender, RangeInv, TypeInv
  <2> QED BY <1>11, <2>1 DEF DequeueClear, Sender, history, RangeInv, Dequeuing
<1>12. CASE DequeueNext
  <2>1. Len(array) > 0
    BY <1>12 DEF DequeueNext, Sender, RangeInv, Dequeuing
  <2>2. local'.head < Len(array) /\ local'.size = local.size
    BY <1>12, <2>1 DEF DequeueNext, TypeInv, MoveNext
  <2> QED BY <1>12, <2>2 DEF DequeueNext, Sender, queueVars, history, RangeInv, Dequeuing
<1>13. CASE DequeueHead
  BY <1>13 DEF DequeueHead, Sender, history, RangeInv, Dequeuing
<1>14. CASE DequeueLoadSize
  <2>1. local'.size = size
    BY <1>14 DEF DequeueLoadSize, TypeInv
  <2> QED BY <1>14, <2>1 DEF DequeueLoadSize, Sender, queueVars, history, RangeInv, Dequeuing
<1>15. CASE DequeueStoreSize
  <2>1. /\ sender = "size" /\ sender' = "test" /\ size' = local.size - 1 /\ local'.size = 0
        /\ UNCHANGED <<array, newArray, head, tail, ui, uiSize, posted>>
    BY <1>15 DEF DequeueStoreSize, Sender, NoLocal
  <2>2. size' < Len(array) /\ size' <= Len(array)
    BY <2>1 DEF RangeInv
  <2>3. ~Dequeuing'
    BY <2>1 DEF Dequeuing
  <2> QED BY <2>1, <2>2, <2>3 DEF RangeInv
<1>16. CASE SendTest
  BY <1>16 DEF SendTest, Sender, queueVars, history, RangeInv, NoLocal, Dequeuing
<1>17. CASE Send
  BY <1>17 DEF Send, Sender, queueVars, RangeInv, NoLocal, Dequeuing
<1>18. CASE NetworkReadProcess
  BY <1>18 DEF NetworkReadProcess, queueVars, history, RangeInv, Dequeuing
<1> QED
  BY <1>1, <1>2, <1>3, <1>4, <1>5, <1>6, <1>7, <1>8, <1>9, <1>10, <1>11, <1>12, <1>13, <1>14,
     <1>15, <1>16, <1>17, <1>18
     DEF Next, UIThread, Enqueue, SendThread, Dequeue, Rest

----------------------------------------------------------------------------
(* Every packet is in one place.                                           *)

\* A sequence that stays, while the other places do, or lose what they had.
LEMMA SameOnce ==
    ASSUME TypeInv, RangeInv, OnceInv, array' = array, newArray' = newArray, sent' = sent,
           local'.packet = local.packet \/ local'.packet = 0,
           InSlot => InSlot' /\ local'.slot = local.slot /\ local'.grows = local.grows,
           InSlot' => InSlot, grows' = grows, Stored' >= Stored, Stored' \in Nat,
           Dequeuing' => ui' # "install"
    PROVE  OnceInv'
<1>1. Stored \in Nat
  BY Sizes DEF Stored, RangeInv
<1>2. ASSUME NEW n \in Nat, n <= Stored PROVE n <= Stored'
  BY <1>1, <1>2
<1>3. /\ \A i \in 1..Len(array) : array[i] \in Nat
      /\ \A i \in 1..Len(newArray) : newArray[i] \in Nat
      /\ \A i \in 1..Len(sent) : sent[i] \in Nat
  BY LenProperties DEF TypeInv
<1>4. Known(array)' /\ Known(newArray)' /\ Known(sent)' /\ local'.packet <= Stored'
  <2>1. Known(array)'
    BY <1>2, <1>3 DEF OnceInv, Known
  <2>2. Known(newArray)'
    BY <1>2, <1>3 DEF OnceInv, Known
  <2>3. Known(sent)'
    BY <1>2, <1>3 DEF OnceInv, Known
  <2>4. local'.packet <= Stored'
    <3>1. local.packet <= Stored' /\ 0 <= Stored'
      BY <1>1, <1>2, Sizes DEF OnceInv
    <3> QED BY <3>1
  <2> QED BY <2>1, <2>2, <2>3, <2>4
<1>5. Once(array)' /\ Once(newArray)' /\ Once(sent)'
  BY DEF OnceInv, Once
<1>6. Apart(array)' /\ Apart(newArray)'
  BY DEF OnceInv, Apart
<1>7. \A k \in 1..Len(sent') : sent'[k] # 0 /\ sent'[k] # local'.packet
  BY DEF OnceInv
<1>8. InSlot' => local'.grows = grows'
  BY DEF OnceInv
<1> QED BY <1>4, <1>5, <1>6, <1>7, <1>8 DEF OnceInv

\* The slots that are copied are different ones.
Source(i) == IF head < tail \/ i <= Len(array) - head THEN head + i ELSE i - (Len(array) - head)

LEMMA Sources ==
    ASSUME TypeInv, RangeInv, head >= tail \/ head + size <= Len(array)
    PROVE  /\ \A i \in 1..Len(Unwrapped) :
                 Source(i) \in 1..Len(array) /\ Unwrapped[i] = array[Source(i)]
           /\ \A i, j \in 1..Len(Unwrapped) : Source(i) = Source(j) => i = j
<1>1. /\ Len(array) \in Nat /\ head \in Nat /\ tail \in Nat /\ size \in Nat
      /\ head <= Len(array) /\ tail <= Len(array)
  BY Sizes DEF RangeInv
<1>2. /\ Len(Unwrapped) \in Nat
      /\ size = 0 => Len(Unwrapped) = 0
      /\ size # 0 /\ head < tail => Len(Unwrapped) = size
      /\ size # 0 /\ head >= tail => Len(Unwrapped) = (Len(array) - head) + tail
  BY Pieces, LenProperties
<1>3. ASSUME NEW i \in 1..Len(Unwrapped) PROVE Source(i) \in 1..Len(array)
  BY <1>1, <1>2 DEF Source
<1>4. ASSUME NEW i \in 1..Len(Unwrapped), NEW j \in 1..Len(Unwrapped), Source(i) = Source(j)
      PROVE  i = j
  BY <1>1, <1>2, <1>4 DEF Source
<1>5. ASSUME NEW i \in 1..Len(Unwrapped) PROVE Unwrapped[i] = array[Source(i)]
  BY Pieces DEF Source
<1> QED BY <1>3, <1>4, <1>5

LEMMA OnceStep ==
    ASSUME TypeInv, RangeInv, OnceInv, TypeInv', RangeInv', Next, ~torn, ~torn'
    PROVE  OnceInv'
<1>1. Stored \in Nat /\ Stored' \in Nat
  <2>1. posted \in Nat /\ posted' \in Nat
    BY DEF TypeInv
  <2>2. /\ ui \in {"copy", "install", "store"} => posted > 0
        /\ ui' \in {"copy", "install", "store"} => posted' > 0
    BY DEF RangeInv
  <2>3. \A n \in Nat : n > 0 => n - 1 \in Nat
    OBVIOUS
  <2> QED BY <2>1, <2>2, <2>3, Zenon DEF Stored
<1>2. CASE PostSendPacket \/ EnqueueThrows \/ EnqueueLoadSize \/ EnqueueStoreSize
  <2>1. /\ UNCHANGED <<array, newArray, sent, sender, local, grows>> /\ ui' # "install"
    BY <1>2 DEF PostSendPacket, EnqueueThrows, EnqueueLoadSize, EnqueueStoreSize, UI, queueVars
  <2>2. Stored' >= Stored
    BY <1>2, Sizes DEF PostSendPacket, EnqueueThrows, EnqueueLoadSize, EnqueueStoreSize, UI, Stored
  <2> QED BY <1>1, <2>1, <2>2, SameOnce DEF InSlot
<1>3. CASE EnqueueCopy
  <2>1. /\ UNCHANGED <<array, sent, sender, local, grows, posted>> /\ ui = "copy" /\ ui' = "install"
        /\ ~Dequeuing /\ ~died /\ (head >= tail \/ head + size <= Len(array))
    BY <1>3 DEF EnqueueCopy, UI, queueVars
  <2>2. Stored' = Stored /\ ~InSlot /\ ~InSlot' /\ ~Dequeuing'
    BY <2>1 DEF Stored, InSlot, Dequeuing
  <2>3. ASSUME NEW i \in 1..Len(newArray')
        PROVE  newArray'[i] = 0 \/ \E q \in 1..Len(array) : newArray'[i] = array[q]
    <3>1. newArray'[i] = IF i <= Len(Unwrapped) THEN Unwrapped[i] ELSE 0
      BY <1>3, <2>1, Larger
    <3>2. ASSUME i <= Len(Unwrapped)
          PROVE  Source(i) \in 1..Len(array) /\ Unwrapped[i] = array[Source(i)]
      <4>1. i \in 1..Len(Unwrapped)
        BY <1>3, <2>1, <3>2, Larger
      <4> QED BY <2>1, <4>1, Sources
    <3> QED BY <3>1, <3>2
  <2>4. Once(newArray)'
    <3>1. SUFFICES ASSUME NEW i \in 1..Len(newArray'), NEW j \in 1..Len(newArray'),
                          newArray'[i] # 0, newArray'[i] = newArray'[j]
                   PROVE  i = j
      BY DEF Once
    <3>2. i \in 1..Len(Unwrapped) /\ j \in 1..Len(Unwrapped)
      BY <1>3, <2>1, <3>1, Larger
    <3>3. newArray'[i] = array[Source(i)] /\ newArray'[j] = array[Source(j)]
      BY <1>3, <2>1, <3>2, Larger, Sources
    <3>4. Source(i) = Source(j)
      <4>1. Source(i) \in 1..Len(array) /\ Source(j) \in 1..Len(array)
        BY <2>1, <3>2, Sources
      <4>2. array[Source(i)] # 0 /\ array[Source(i)] = array[Source(j)]
        BY <3>1, <3>3
      <4> QED BY <4>1, <4>2 DEF OnceInv, Once
    <3> QED BY <2>1, <3>2, <3>4, Sources
  <2>5. Known(newArray)'
    BY <1>1, <2>2, <2>3 DEF OnceInv, Known
  <2>6. Apart(newArray)'
    <3>1. \A i \in 1..Len(newArray'), k \in 1..Len(sent) : newArray'[i] # sent[k]
      BY <2>3 DEF OnceInv, Apart
    <3>2. \A i \in 1..Len(newArray') : ~(newArray'[i] # 0 /\ newArray'[i] = local.packet)
      BY <2>2, <2>3 DEF OnceInv, Apart
    <3> QED BY <2>1, <3>1, <3>2 DEF Apart
  <2>7. Once(array)' /\ Known(array)' /\ Apart(array)' /\ Once(sent)' /\ Known(sent)'
    BY <2>1, <2>2 DEF OnceInv, Once, Known, Apart
  <2> QED BY <2>1, <2>2, <2>4, <2>5, <2>6, <2>7 DEF OnceInv
<1>4. CASE EnqueueInstall
  <2>1. /\ array' = newArray /\ newArray' = <<>> /\ UNCHANGED <<sent, sender, local, posted>>
        /\ ui = "install" /\ ui' = "store"
    BY <1>4 DEF EnqueueInstall, UI
  <2>2. Stored' = Stored /\ ~InSlot /\ ~InSlot' /\ Len(<<>>) = 0
    BY <2>1 DEF Stored, InSlot, OnceInv, Dequeuing
  <2>3. Once(array)' /\ Known(array)' /\ Apart(array)' /\ Once(sent)' /\ Known(sent)'
    BY <2>1, <2>2 DEF OnceInv, Once, Known, Apart
  <2>4. Once(newArray)' /\ Known(newArray)' /\ Apart(newArray)'
    BY <2>1, <2>2 DEF Once, Known, Apart
  <2> QED BY <2>1, <2>2, <2>3, <2>4 DEF OnceInv
<1>5. CASE EnqueueStore
  <2>1. /\ ui = "store" /\ ui' = "load" /\ array' = [array EXCEPT ![tail + 1] = posted]
        /\ UNCHANGED <<newArray, sent, sender, local, grows, posted>>
    BY <1>5 DEF EnqueueStore, UI
  <2>2. Stored = posted - 1 /\ Stored' = posted /\ posted \in Nat /\ posted # 0
    BY <2>1 DEF Stored, RangeInv, TypeInv
  <2>3. /\ Len(array') = Len(array)
        /\ \A i \in 1..Len(array) : array'[i] = IF i = tail + 1 THEN posted ELSE array[i]
    <3>1. array \in Seq(Nat) /\ tail \in Nat /\ tail < Len(array)
      BY <2>1, Sizes DEF RangeInv, TypeInv
    <3> QED BY <2>1, <2>2, <3>1, StoreSlot
  <2>4. newArray' = <<>> /\ Len(<<>>) = 0
    BY <2>1 DEF RangeInv
  <2>5. /\ \A i \in 1..Len(array) : array[i] \in Nat /\ array[i] <= posted - 1 /\ array[i] # posted
        /\ \A k \in 1..Len(sent) : sent[k] \in Nat /\ sent[k] <= posted - 1 /\ sent[k] # posted
        /\ local.packet \in Nat /\ local.packet <= posted - 1 /\ local.packet # posted
    <3>1. /\ \A i \in 1..Len(array) : array[i] \in Nat /\ array[i] <= posted - 1
          /\ \A k \in 1..Len(sent) : sent[k] \in Nat /\ sent[k] <= posted - 1
          /\ local.packet \in Nat /\ local.packet <= posted - 1
      BY <2>2, LenProperties, Sizes DEF OnceInv, Known, TypeInv
    <3>2. \A n \in Nat : n <= posted - 1 => n # posted
      BY <2>2
    <3> QED BY <3>1, <3>2
  <2>6. Once(array)'
    BY <2>3, <2>5 DEF OnceInv, Once
  <2>7. Known(array)' /\ Known(sent)' /\ local'.packet <= Stored'
    BY <2>1, <2>2, <2>3, <2>5 DEF Known
  <2>8. Apart(array)'
    BY <2>1, <2>3, <2>5 DEF OnceInv, Apart, InSlot
  <2>9. Once(newArray)' /\ Known(newArray)' /\ Apart(newArray)'
    BY <2>4 DEF Once, Known, Apart
  <2> QED BY <2>1, <2>6, <2>7, <2>8, <2>9 DEF OnceInv, Once, InSlot
<1>6. CASE NetworkSendProcess \/ DequeueNext \/ DequeueHead \/ DequeueLoadSize
           \/ DequeueStoreSize \/ SendTest
  <2>1. /\ UNCHANGED <<array, newArray, sent, ui, grows, posted>>
        /\ local'.packet = local.packet \/ local'.packet = 0
        /\ sender # "clear" /\ sender' # "clear"
    <3>1. /\ UNCHANGED <<array, newArray, sent, ui, grows, posted>>
          /\ sender # "clear" /\ sender' # "clear"
      BY <1>6 DEF NetworkSendProcess, DequeueNext, DequeueHead, DequeueLoadSize,
         DequeueStoreSize, SendTest, Sender, queueVars
    <3>2. CASE NetworkSendProcess \/ DequeueHead
      BY <3>1, <3>2 DEF NetworkSendProcess, DequeueHead
    <3>3. CASE DequeueNext \/ DequeueLoadSize
      BY <3>1, <3>3 DEF DequeueNext, DequeueLoadSize, TypeInv
    <3>4. CASE DequeueStoreSize \/ SendTest
      BY <3>1, <3>4 DEF DequeueStoreSize, SendTest, TypeInv, NoLocal
    <3> QED BY <1>6, <3>1, <3>2, <3>3, <3>4
  <2>2. Dequeuing' => Dequeuing \/ ui # "install"
    BY <1>6 DEF NetworkSendProcess, DequeueNext, DequeueHead, DequeueLoadSize, DequeueStoreSize,
       SendTest, Sender, Dequeuing
  <2>3. Stored' = Stored
    BY <2>1 DEF Stored
  <2> QED BY <1>1, <2>1, <2>2, <2>3, SameOnce DEF InSlot, OnceInv
<1>7. CASE DequeueTake
  <2>1. /\ UNCHANGED <<array, newArray, sent, ui, grows, posted>>
        /\ sender = "take" /\ sender' = "clear"
        /\ local'.slot = head /\ local'.packet = array[head + 1] /\ local'.grows = grows
    BY <1>7 DEF DequeueTake, Sender, queueVars, TypeInv
  <2>2. Stored' = Stored /\ ui # "install" /\ InSlot' /\ newArray' = <<>> /\ Len(<<>>) = 0
    BY <2>1 DEF Stored, OnceInv, Dequeuing, InSlot, RangeInv
  <2>3. head + 1 \in 1..Len(array)
    BY <2>1, Sizes DEF RangeInv, Dequeuing
  <2>4. /\ local'.packet <= Stored'
        /\ \A k \in 1..Len(sent') : sent'[k] # 0 /\ sent'[k] # local'.packet
    BY <2>1, <2>2, <2>3 DEF OnceInv, Known, Apart
  <2>5. Apart(array)'
    BY <2>1, <2>2, <2>3 DEF OnceInv, Apart, Once
  <2>6. Once(array)' /\ Known(array)' /\ Once(sent)' /\ Known(sent)'
    BY <2>1, <2>2 DEF OnceInv, Once, Known
  <2>7. Once(newArray)' /\ Known(newArray)' /\ Apart(newArray)'
    BY <2>2 DEF Once, Known, Apart
  <2> QED BY <2>1, <2>2, <2>4, <2>5, <2>6, <2>7 DEF OnceInv
<1>8. CASE DequeueClear
  <2>1. /\ UNCHANGED <<newArray, sent, ui, local, posted>>
        /\ sender = "clear" /\ sender' = "next" /\ InSlot /\ ~InSlot' /\ Dequeuing
    BY <1>8 DEF DequeueClear, Sender, InSlot, Dequeuing
  <2>2. array' = [array EXCEPT ![local.slot + 1] = 0]
    BY <1>8, <2>1 DEF DequeueClear, OnceInv
  <2>3. /\ Len(array') = Len(array)
        /\ \A i \in 1..Len(array) : array'[i] = IF i = local.slot + 1 THEN 0 ELSE array[i]
    <3>1. array \in Seq(Nat) /\ local.slot \in Nat /\ local.slot < Len(array)
      BY <2>1, Sizes DEF RangeInv, TypeInv
    <3> QED BY <2>2, <3>1, StoreSlot
  <2>4. Stored' = Stored /\ newArray' = <<>> /\ Len(<<>>) = 0
    BY <2>1 DEF Stored, OnceInv, RangeInv
  <2>5. Once(array)' /\ Known(array)' /\ Once(sent)' /\ Known(sent)'
    BY <1>1, <2>1, <2>3, <2>4 DEF OnceInv, Once, Known
  <2>6. Apart(array)'
    BY <2>1, <2>3 DEF OnceInv, Apart
  <2>7. Once(newArray)' /\ Known(newArray)' /\ Apart(newArray)'
    BY <2>4 DEF Once, Known, Apart
  <2> QED BY <2>1, <2>4, <2>5, <2>6, <2>7 DEF OnceInv
<1>9. CASE Send
  <2>1. /\ UNCHANGED <<array, newArray, ui, grows, posted>>
        /\ sender = "send" /\ sender' = "idle" /\ local'.packet = 0
        /\ sent' = sent \/ (local.packet # 0 /\ sent' = Append(sent, local.packet))
    BY <1>9 DEF Send, Sender, queueVars, NoLocal
  <2>2. Stored' = Stored /\ ~InSlot /\ ~InSlot' /\ ~Dequeuing'
    BY <2>1 DEF Stored, InSlot, Dequeuing
  <2>3. CASE sent' = sent
    BY <1>1, <2>1, <2>2, <2>3, SameOnce
  <2>4. CASE local.packet # 0 /\ sent' = Append(sent, local.packet)
    <3>1. /\ Len(sent') = Len(sent) + 1 /\ Len(sent) \in Nat
          /\ \A k \in 1..Len(sent) : sent'[k] = sent[k]
          /\ sent'[Len(sent) + 1] = local.packet
      BY <2>4, AppendProperties, Sizes DEF TypeInv
    <3>2. \A k \in 1..Len(sent') : k \in 1..Len(sent) \/ k = Len(sent) + 1
      BY <3>1
    <3>3. Once(sent)'
      BY <3>1, <3>2 DEF OnceInv, Once
    <3>4. Known(sent)' /\ local'.packet <= Stored' /\ \A k \in 1..Len(sent') : sent'[k] # 0
      BY <1>1, <2>1, <2>2, <2>4, <3>1, <3>2 DEF OnceInv, Known
    <3>5. Apart(array)' /\ Apart(newArray)'
      BY <2>1, <2>2, <2>4, <3>1, <3>2, <3>4 DEF OnceInv, Apart
    <3>6. Once(array)' /\ Known(array)' /\ Once(newArray)' /\ Known(newArray)'
      BY <2>1, <2>2 DEF OnceInv, Once, Known
    <3> QED BY <2>1, <2>2, <3>3, <3>4, <3>5, <3>6 DEF OnceInv
  <2> QED BY <2>1, <2>3, <2>4
<1>10. CASE NetworkReadProcess \/ Rest
  <2>1. UNCHANGED <<array, newArray, sent, sender, local, ui, grows, posted>>
    BY <1>10 DEF NetworkReadProcess, Rest, vars, queueVars
  <2>2. Stored' = Stored /\ (Dequeuing' => ui' # "install")
    BY <2>1 DEF Stored, Dequeuing, OnceInv
  <2> QED BY <1>1, <2>1, <2>2, SameOnce DEF InSlot
<1> QED
  BY <1>2, <1>3, <1>4, <1>5, <1>6, <1>7, <1>8, <1>9, <1>10
     DEF Next, UIThread, Enqueue, SendThread, Dequeue

----------------------------------------------------------------------------
(* The packets between _head and _tail.                                    *)

LEMMA Counts ==
    ASSUME TypeInv, RangeInv
    PROVE  Waiting \in Nat /\ Stored \in Nat
<1>1. Stored \in Nat
  BY Sizes DEF Stored, RangeInv
<1>2. Waiting \in Nat
  <2>1. size \in Nat /\ (sender \in {"load", "size"} => size > 0)
    BY Sizes DEF RangeInv, Dequeuing
  <2> QED BY <2>1 DEF Waiting
<1> QED BY <1>1, <1>2

\* The places behind _head are different slots, each behind the other.
LEMMA Places ==
    ASSUME TypeInv, RangeInv, Len(array) > 0
    PROVE  /\ Place(0) = head
           /\ \A k \in 0..Len(array) : Place(k) \in Nat /\ Place(k) < Len(array)
           /\ \A j, k \in 0..(Len(array) - 1) : Place(j) = Place(k) => j = k
           /\ \A k \in 0..(Len(array) - 1) : MoveNext(Place(k)) = Place(k + 1)
<1>1. /\ Len(array) \in Nat /\ head \in Nat /\ head < Len(array)
  BY Sizes DEF RangeInv
<1>2. Place(0) = head
  BY <1>1 DEF Place
<1>3. \A k \in 0..Len(array) : Place(k) \in Nat /\ Place(k) < Len(array)
  BY <1>1 DEF Place
<1>4. \A j, k \in 0..(Len(array) - 1) : Place(j) = Place(k) => j = k
  BY <1>1 DEF Place
<1>5. \A k \in 0..(Len(array) - 1) : MoveNext(Place(k)) = Place(k + 1)
  BY <1>1 DEF Place, MoveNext
<1> QED BY <1>2, <1>3, <1>4, <1>5

\* What waits stays where it is.
LEMMA SameQueue ==
    ASSUME OrderInv, UNCHANGED <<array, newArray, head, tail>>,
           Waiting' = Waiting, Stored' = Stored,
           ui' = "install" => ui = "install" /\ size' = size,
           ui' = "store" => Waiting < Len(array),
           sender' \in {"take", "clear", "next", "head"} => Waiting > 0,
           sender \in {"next", "head"} => sender' \in {"next", "head"}
    PROVE  WaitingInv' /\ ItemsInv'
<1>1. \A k : Place(k)' = Place(k)
  BY DEF Place
<1> QED BY <1>1 DEF OrderInv, WaitingInv, ItemsInv

\* What the send thread has taken and sent stays.
LEMMA SameTaken ==
    ASSUME OrderInv, UNCHANGED <<sender, local, head, sent, sock, died>>,
           sender = "head" => Len(array') = Len(array),
           Stored' - Waiting' = Stored - Waiting
    PROVE  TakenInv' /\ SentInv'
<1>1. TakenInv'
  BY DEF OrderInv, TakenInv, MoveNext, Removed
<1>2. SentInv'
  BY DEF OrderInv, SentInv, Removed
<1> QED BY <1>1, <1>2

\* The steps of the UI thread but for those that touch the array.
LEMMA OrderUI ==
    ASSUME TypeInv, RangeInv, OrderInv, ~lost',
           PostSendPacket \/ EnqueueLoadSize \/ EnqueueStoreSize
    PROVE  OrderInv'
<1>1. /\ UNCHANGED <<array, newArray, head, tail, sender, local, sent, sock, died>>
      /\ ui' # "install"
  BY DEF PostSendPacket, EnqueueLoadSize, EnqueueStoreSize, UI, queueVars
<1>2. Waiting' = Waiting /\ Stored' = Stored
  <2>1. CASE PostSendPacket
    BY <2>1, Sizes DEF PostSendPacket, UI, queueVars, Waiting, Stored
  <2>2. CASE EnqueueLoadSize
    BY <2>2 DEF EnqueueLoadSize, UI, queueVars, Waiting, Stored
  <2>3. CASE EnqueueStoreSize
    <3>1. size' = size + 1 /\ ui = "size" /\ ui' = "idle" /\ UNCHANGED <<sender, posted>>
      BY <2>3 DEF EnqueueStoreSize, UI
    <3>2. Stored' = Stored
      BY <3>1 DEF Stored
    <3>3. size \in Nat
      BY Sizes
    <3> QED BY <3>1, <3>2, <3>3 DEF Waiting
  <2> QED BY <2>1, <2>2, <2>3
<1>3. ui' = "store" => Waiting < Len(array)
  BY Sizes DEF PostSendPacket, EnqueueLoadSize, EnqueueStoreSize, UI, Waiting, RangeInv
<1>4. WaitingInv' /\ ItemsInv'
  <2>1. sender' \in {"take", "clear", "next", "head"} => Waiting > 0
    BY <1>1 DEF OrderInv, WaitingInv
  <2> QED BY <1>1, <1>2, <1>3, <2>1, SameQueue
<1>5. TakenInv' /\ SentInv'
  BY <1>1, <1>2, SameTaken
<1> QED BY <1>4, <1>5 DEF OrderInv

\* Grow copies what waits, in order, ...
LEMMA OrderCopy ==
    ASSUME TypeInv, RangeInv, OrderInv, EnqueueCopy, ~torn'
    PROVE  OrderInv'
<1>1. /\ UNCHANGED <<array, head, tail, size, sender, local, sent, sock, died, posted>>
      /\ ui = "copy" /\ ui' = "install" /\ ~died /\ ~Dequeuing
      /\ head >= tail \/ head + size <= Len(array)
  BY DEF EnqueueCopy, UI, queueVars
<1>2. Waiting' = Waiting /\ Stored' = Stored /\ Waiting = size
  BY <1>1, Sizes DEF Waiting, Stored, Dequeuing
<1>3. ASSUME NEW i \in 1..size PROVE newArray'[i] = Stored - Waiting + i
  <2>1. /\ Len(array) \in Nat /\ head \in Nat /\ tail \in Nat /\ size \in Nat /\ size # 0
        /\ Len(array) > 0 /\ head < Len(array) /\ size <= Len(array)
    BY <1>3, Sizes DEF RangeInv
  <2>2. tail = IF head + size >= Len(array) THEN head + size - Len(array) ELSE head + size
    BY <1>2, <2>1 DEF OrderInv, WaitingInv, Place
  <2>3. Len(Unwrapped) = size
    BY <1>1, <2>1, <2>2, Pieces
  <2>4. newArray'[i] = Unwrapped[i]
    <3>1. i \in 1..Len(newArray') /\ i <= Len(Unwrapped)
      BY <1>1, <2>1, <2>3, Larger
    <3> QED BY <1>1, <3>1, Larger
  <2>5. Unwrapped[i] = IF head < tail \/ i <= Len(array) - head THEN array[head + i]
                       ELSE array[i - (Len(array) - head)]
    BY <1>1, <2>3, Pieces
  <2>6. Unwrapped[i] = array[Place(i - 1) + 1]
    <3>1. CASE head < tail \/ i <= Len(array) - head
      <4>1. head + (i - 1) < Len(array) /\ head + (i - 1) + 1 = head + i
        BY <1>1, <2>1, <3>1
      <4>2. Place(i - 1) = head + (i - 1)
        BY <2>1, <4>1 DEF Place
      <4> QED BY <2>5, <3>1, <4>1, <4>2
    <3>2. CASE ~(head < tail \/ i <= Len(array) - head)
      <4>1. /\ head + (i - 1) >= Len(array)
            /\ (head + (i - 1) - Len(array)) + 1 = i - (Len(array) - head)
        BY <2>1, <3>2
      <4>2. Place(i - 1) = head + (i - 1) - Len(array)
        BY <2>1, <4>1 DEF Place
      <4> QED BY <2>5, <3>2, <4>1, <4>2
    <3> QED BY <3>1, <3>2
  <2>7. array[Place(i - 1) + 1] = Stored - Waiting + 1 + (i - 1)
    <3>1. i - 1 \in 0..(Waiting - 1) /\ sender \notin {"next", "head"}
      BY <1>1, <1>2, <2>1 DEF Dequeuing
    <3> QED BY <3>1 DEF OrderInv, ItemsInv
  <2> QED BY <2>4, <2>6, <2>7, Counts
<1>4. WaitingInv' /\ ItemsInv'
  <2>1. \A k : Place(k)' = Place(k)
    BY <1>1 DEF Place
  <2>2. WaitingInv'
    BY <1>1, <1>2, <2>1 DEF OrderInv, WaitingInv
  <2>3. ItemsInv'
    BY <1>1, <1>2, <1>3, <2>1 DEF OrderInv, ItemsInv
  <2> QED BY <2>2, <2>3
<1>5. TakenInv' /\ SentInv'
  BY <1>1, <1>2, SameTaken
<1> QED BY <1>4, <1>5 DEF OrderInv

\* ... does not throw ...
LEMMA OrderThrows ==
    ASSUME TypeInv, RangeInv, OrderInv, EnqueueThrows
    PROVE  FALSE
<1>1. head < tail /\ head + size > Len(array)
  BY DEF EnqueueThrows
<1>2. /\ Len(array) \in Nat /\ head \in Nat /\ tail \in Nat /\ size \in Nat
      /\ Len(array) > 0 /\ head < Len(array) /\ tail < Len(array)
  BY <1>1, Sizes DEF RangeInv
<1>3. Waiting \in Nat /\ Waiting <= Len(array) /\ size <= Waiting + 1
  BY <1>2, Counts DEF Waiting, OrderInv, WaitingInv
<1>4. tail = IF head + Waiting >= Len(array) THEN head + Waiting - Len(array) ELSE head + Waiting
  BY <1>2 DEF OrderInv, WaitingInv, Place
<1> QED BY <1>1, <1>2, <1>3, <1>4

\* ... and puts the copy in the place of the array.
LEMMA OrderInstall ==
    ASSUME TypeInv, RangeInv, OrderInv, OnceInv, EnqueueInstall
    PROVE  OrderInv'
<1>1. /\ array' = newArray /\ newArray' = <<>> /\ head' = 0 /\ tail' = size
      /\ UNCHANGED <<size, sender, local, sent, sock, died, posted>>
      /\ ui = "install" /\ ui' = "store"
  BY DEF EnqueueInstall, UI
<1>2. ~Dequeuing
  BY <1>1 DEF OnceInv
<1>3. Waiting' = Waiting /\ Stored' = Stored /\ Waiting = size
  BY <1>1, <1>2, Sizes DEF Waiting, Stored, Dequeuing
<1>4. Len(newArray) \in Nat /\ size \in Nat /\ size < Len(newArray)
  BY <1>1, Sizes DEF RangeInv
<1>5. \A k \in 0..size : Place(k)' = k
  BY <1>1, <1>4 DEF Place
<1>6. WaitingInv'
  <2>1. Waiting' < Len(array') /\ Waiting' <= Stored' /\ tail' = Place(Waiting)'
    BY <1>1, <1>3, <1>4, <1>5 DEF OrderInv, WaitingInv
  <2>2. Waiting' <= Len(array')
    BY <1>1, <1>3, <1>4
  <2> QED BY <1>1, <1>2, <2>1, <2>2 DEF WaitingInv, Dequeuing
<1>7. ItemsInv'
  <2>1. ASSUME NEW k \in 0..(size - 1) PROVE array'[Place(k)' + 1] = Stored - Waiting + 1 + k
    <3>1. Place(k)' = k /\ k + 1 \in 1..size
      BY <1>4, <1>5
    <3>2. newArray[k + 1] = Stored - Waiting + (k + 1)
      BY <1>1, <3>1 DEF OrderInv, ItemsInv
    <3> QED BY <1>1, <3>1, <3>2, Counts
  <2> QED BY <1>1, <1>3, <2>1 DEF ItemsInv
<1>8. TakenInv'
  BY <1>1, <1>2, <1>3 DEF OrderInv, TakenInv, Removed, Dequeuing
<1>9. SentInv'
  BY <1>1, <1>3 DEF OrderInv, SentInv, Removed
<1> QED BY <1>6, <1>7, <1>8, <1>9 DEF OrderInv

\* The packet goes behind those that wait.
LEMMA OrderStore ==
    ASSUME TypeInv, RangeInv, OrderInv, EnqueueStore
    PROVE  OrderInv'
<1>1. /\ ui = "store" /\ ui' = "load" /\ array' = [array EXCEPT ![tail + 1] = posted]
      /\ tail' = MoveNext(tail)
      /\ UNCHANGED <<newArray, head, size, sender, local, sent, sock, died, posted>>
  BY DEF EnqueueStore, UI
<1>2. /\ Len(array) \in Nat /\ tail \in Nat /\ tail < Len(array) /\ Len(array) > 0
      /\ array \in Seq(Nat) /\ posted \in Nat /\ posted > 0
  BY <1>1, Sizes DEF RangeInv, TypeInv
<1>3. /\ Len(array') = Len(array)
      /\ \A i \in 1..Len(array) : array'[i] = IF i = tail + 1 THEN posted ELSE array[i]
  BY <1>1, <1>2, StoreSlot
<1>4. Waiting' = Waiting + 1 /\ Stored' = Stored + 1 /\ Stored' = posted
  <2>1. Stored' = Stored + 1 /\ Stored' = posted
    BY <1>1, <1>2 DEF Stored
  <2>2. size \in Nat
    BY Sizes
  <2>3. Waiting' = Waiting + 1
    BY <1>1, <2>2 DEF Waiting
  <2> QED BY <2>1, <2>3
<1>5. Waiting < Len(array) /\ tail = Place(Waiting) /\ Waiting \in Nat /\ Stored \in Nat
  BY <1>1, <1>2, Counts DEF OrderInv, WaitingInv
<1>6. \A k : Place(k)' = Place(k)
  BY <1>1, <1>3 DEF Place
<1>7. WaitingInv'
  <2>1. tail' = Place(Waiting + 1)
    <3>1. Waiting \in 0..(Len(array) - 1)
      BY <1>2, <1>5
    <3> QED BY <1>1, <1>2, <1>5, <3>1, Places
  <2>2. Waiting + 1 <= Len(array) /\ Waiting + 1 <= Stored + 1 /\ Waiting + 1 > 0
    BY <1>2, <1>5 DEF OrderInv, WaitingInv
  <2> QED BY <1>1, <1>3, <1>4, <1>6, <2>1, <2>2 DEF WaitingInv
<1>8. ItemsInv'
  <2>1. ASSUME NEW k \in 0..Waiting
        PROVE  \/ k = 0 /\ sender \in {"next", "head"}
               \/ array'[Place(k) + 1] = Stored - Waiting + 1 + k
    <3>1. k \in 0..(Len(array) - 1) /\ Place(k) + 1 \in 1..Len(array)
      <4>1. k \in 0..(Len(array) - 1) /\ k \in 0..Len(array)
        BY <1>2, <1>5
      <4>2. Place(k) \in Nat /\ Place(k) < Len(array)
        BY <1>2, <4>1, Places
      <4> QED BY <1>2, <4>1, <4>2
    <3>2. CASE k = Waiting
      <4>1. array'[Place(k) + 1] = posted
        BY <1>3, <1>5, <3>1, <3>2
      <4> QED BY <1>4, <1>5, <3>2, <4>1
    <3>3. CASE k # Waiting
      <4>1. k \in 0..(Waiting - 1) /\ Waiting \in 0..(Len(array) - 1)
        BY <1>2, <1>5, <3>3
      <4>2. Place(k) # Place(Waiting)
        BY <1>2, <3>1, <3>3, <4>1, Places
      <4>3. Place(k) + 1 # tail + 1
        <5>1. Place(k) \in Nat
          BY <1>2, <3>1, Places
        <5> QED BY <1>2, <1>5, <4>2, <5>1
      <4>4. array'[Place(k) + 1] = array[Place(k) + 1]
        BY <1>3, <3>1, <4>3
      <4> QED BY <4>1, <4>4 DEF OrderInv, ItemsInv
    <3> QED BY <3>2, <3>3
  <2>2. Waiting' - 1 = Waiting /\ Stored' - Waiting' = Stored - Waiting
    BY <1>4, <1>5
  <2> QED BY <1>1, <1>6, <2>1, <2>2 DEF ItemsInv
<1>9. Stored' - Waiting' = Stored - Waiting
  BY <1>4, <1>5
<1>10. TakenInv' /\ SentInv'
  BY <1>1, <1>3, <1>9, SameTaken
<1> QED BY <1>7, <1>8, <1>10 DEF OrderInv

\* The steps of the send thread that leave the queue alone, or only lower _size.
LEMMA OrderAround ==
    ASSUME TypeInv, RangeInv, OrderInv, OnceInv, ~lost',
           NetworkSendProcess \/ DequeueTake \/ DequeueNext \/ DequeueLoadSize
              \/ DequeueStoreSize \/ SendTest \/ Send
    PROVE  WaitingInv' /\ ItemsInv' /\ Waiting' = Waiting /\ Stored' = Stored
<1>1. UNCHANGED <<array, newArray, head, tail, ui, posted>>
  BY DEF NetworkSendProcess, DequeueTake, DequeueNext, DequeueLoadSize, DequeueStoreSize,
         SendTest, Send, Sender, queueVars
<1>2. Stored' = Stored
  BY <1>1 DEF Stored
<1>3. Waiting' = Waiting /\ (ui = "install" => size' = size)
  <2>1. CASE DequeueStoreSize
    <3>1. size' = size - 1 /\ sender = "size" /\ sender' = "test"
      BY <2>1 DEF DequeueStoreSize, Sender
    <3>2. ui # "install"
      BY <3>1 DEF OnceInv, Dequeuing
    <3>3. size \in Nat
      BY Sizes
    <3> QED BY <1>1, <3>1, <3>2, <3>3 DEF Waiting
  <2>2. CASE NetworkSendProcess \/ DequeueTake \/ DequeueNext \/ DequeueLoadSize \/ SendTest \/ Send
    <3>1. size' = size /\ (sender \in {"load", "size"} <=> sender' \in {"load", "size"})
      BY <2>2 DEF NetworkSendProcess, DequeueTake, DequeueNext, DequeueLoadSize, SendTest, Send,
                  Sender, queueVars
    <3> QED BY <1>1, <3>1 DEF Waiting
  <2> QED BY <2>1, <2>2
<1>4. sender' \in {"take", "clear", "next", "head"} => Waiting > 0
  <2>1. CASE NetworkSendProcess
    BY <2>1, Sizes DEF NetworkSendProcess, Sender, Waiting
  <2>2. CASE DequeueTake \/ DequeueNext \/ DequeueLoadSize \/ DequeueStoreSize \/ SendTest \/ Send
    BY <2>2 DEF DequeueTake, DequeueNext, DequeueLoadSize, DequeueStoreSize, SendTest, Send,
                Sender, OrderInv, WaitingInv
  <2> QED BY <2>1, <2>2
<1>5. sender \in {"next", "head"} => sender' \in {"next", "head"}
  <2>1. DequeueNext => sender' = "head"
    BY DEF DequeueNext, Sender
  <2>2. sender \in {"next", "head"} => DequeueNext
    BY DEF NetworkSendProcess, DequeueTake, DequeueLoadSize, DequeueStoreSize, SendTest, Send,
           Sender
  <2> QED BY <2>1, <2>2
<1>6. ui' = "store" => Waiting < Len(array)
  BY <1>1 DEF OrderInv, WaitingInv
<1> QED BY <1>1, <1>2, <1>3, <1>4, <1>5, <1>6, SameQueue

\* A Dequeue begins, takes what is at _head and computes the next _head.
LEMMA OrderTake ==
    ASSUME TypeInv, RangeInv, OrderInv, OnceInv, ~lost',
           NetworkSendProcess \/ DequeueTake \/ DequeueNext
    PROVE  OrderInv'
<1>1. WaitingInv' /\ ItemsInv' /\ Waiting' = Waiting /\ Stored' = Stored
  BY OrderAround
<1>2. UNCHANGED <<array, head, sent, sock, died>> /\ ~Removed /\ ~Removed'
  BY DEF NetworkSendProcess, DequeueTake, DequeueNext, Sender, queueVars, history, Removed
<1>3. SentInv'
  BY <1>1, <1>2 DEF OrderInv, SentInv
<1>4. TakenInv'
  <2>1. CASE NetworkSendProcess
    BY <1>2, <2>1 DEF NetworkSendProcess, Sender, TakenInv
  <2>2. CASE DequeueTake
    <3>1. /\ sender = "take" /\ sender' = "clear" /\ local'.slot = head
          /\ local'.packet = array[head + 1]
      BY <2>2 DEF DequeueTake, Sender, TypeInv
    <3>2. Waiting > 0 /\ Waiting \in Nat /\ Stored \in Nat
      BY <3>1, Counts DEF OrderInv, WaitingInv
    <3>3. Place(0) = head
      <4>1. Len(array) > 0
        BY <3>1, Sizes DEF RangeInv, Dequeuing
      <4> QED BY <4>1, Places
    <3>4. array[Place(0) + 1] = Stored - Waiting + 1 + 0
      <4>1. 0 \in 0..(Waiting - 1) /\ sender \notin {"next", "head"}
        BY <3>1, <3>2
      <4> QED BY <4>1 DEF OrderInv, ItemsInv
    <3>5. local'.packet = Stored - Waiting + 1
      BY <3>1, <3>2, <3>3, <3>4
    <3> QED BY <1>1, <1>2, <3>1, <3>5 DEF TakenInv
  <2>3. CASE DequeueNext
    <3>1. /\ sender = "next" /\ sender' = "head" /\ local'.head = MoveNext(head)
          /\ local'.slot = local.slot /\ local'.packet = local.packet
      BY <2>3 DEF DequeueNext, Sender, TypeInv
    <3>2. MoveNext(head)' = MoveNext(head)
      BY <1>2 DEF MoveNext
    <3> QED BY <1>1, <1>2, <3>1, <3>2 DEF OrderInv, TakenInv
  <2> QED BY <2>1, <2>2, <2>3
<1> QED BY <1>1, <1>3, <1>4 DEF OrderInv

\* The slot at _head becomes null; the others keep what they hold.
LEMMA OrderClear ==
    ASSUME TypeInv, RangeInv, OrderInv, OnceInv, DequeueClear
    PROVE  OrderInv'
<1>1. /\ UNCHANGED <<newArray, head, tail, size, ui, local, sent, sock, died, posted>>
      /\ sender = "clear" /\ sender' = "next"
  BY DEF DequeueClear, Sender, history
<1>2. array' = [array EXCEPT ![head + 1] = 0]
  <2>1. local.slot = head /\ local.grows = grows
    BY <1>1 DEF OnceInv, InSlot, OrderInv, TakenInv
  <2> QED BY <2>1 DEF DequeueClear
<1>3. /\ array \in Seq(Nat) /\ Len(array) \in Nat /\ Len(array) > 0
      /\ head \in Nat /\ head < Len(array)
  BY <1>1, Sizes DEF RangeInv, TypeInv, Dequeuing
<1>4. /\ Len(array') = Len(array)
      /\ \A i \in 1..Len(array) : array'[i] = IF i = head + 1 THEN 0 ELSE array[i]
  BY <1>2, <1>3, StoreSlot
<1>5. Waiting' = Waiting /\ Stored' = Stored
  BY <1>1 DEF Waiting, Stored
<1>6. \A k : Place(k)' = Place(k)
  BY <1>1, <1>4 DEF Place
<1>7. Waiting \in Nat /\ Waiting <= Len(array)
  BY Counts DEF OrderInv, WaitingInv
<1>8. WaitingInv'
  BY <1>1, <1>4, <1>5, <1>6 DEF OrderInv, WaitingInv
<1>9. ItemsInv'
  <2>1. ASSUME NEW k \in 0..(Waiting - 1)
        PROVE  k = 0 \/ array'[Place(k) + 1] = Stored - Waiting + 1 + k
    <3>1. /\ k \in 0..(Len(array) - 1) /\ 0 \in 0..(Len(array) - 1) /\ k \in 0..Len(array)
      BY <1>3, <1>7
    <3>2. Place(k) \in Nat /\ Place(k) < Len(array) /\ Place(0) = head
      BY <1>3, <3>1, Places
    <3>3. k = 0 \/ Place(k) # head
      BY <1>3, <3>1, <3>2, Places
    <3>4. k = 0 \/ array'[Place(k) + 1] = array[Place(k) + 1]
      <4>1. Place(k) + 1 \in 1..Len(array) /\ (k = 0 \/ Place(k) + 1 # head + 1)
        BY <1>3, <3>2, <3>3
      <4> QED BY <1>4, <4>1
    <3> QED BY <1>1, <3>4 DEF OrderInv, ItemsInv
  <2>2. ui' = "install" => \A i \in 1..size' : newArray'[i] = Stored' - Waiting' + i
    BY <1>1, <1>5 DEF OrderInv, ItemsInv
  <2> QED BY <1>1, <1>5, <1>6, <2>1, <2>2 DEF ItemsInv
<1>10. TakenInv'
  BY <1>1, <1>5 DEF OrderInv, TakenInv, Removed
<1>11. SentInv'
  BY <1>1, <1>5 DEF OrderInv, SentInv, Removed
<1> QED BY <1>8, <1>9, <1>10, <1>11 DEF OrderInv

\* _head moves on: one packet less waits, and each is one place further ahead.
LEMMA OrderHead ==
    ASSUME TypeInv, RangeInv, OrderInv, OnceInv, DequeueHead
    PROVE  OrderInv'
<1>1. /\ UNCHANGED <<array, newArray, tail, size, ui, local, sent, sock, died, posted>>
      /\ sender = "head" /\ sender' = "load" /\ head' = local.head
  BY DEF DequeueHead, Sender, history
<1>2. ui # "install" /\ head' = MoveNext(head)
  BY <1>1 DEF OnceInv, Dequeuing, OrderInv, TakenInv
<1>3. /\ Len(array) \in Nat /\ Len(array) > 0 /\ head \in Nat /\ head < Len(array)
  BY <1>1, Sizes DEF RangeInv, Dequeuing
<1>4. /\ Waiting \in Nat /\ Stored \in Nat /\ Waiting > 0
      /\ Waiting <= Len(array) /\ Waiting <= Stored
  BY <1>1, Counts DEF OrderInv, WaitingInv
<1>5. Stored' = Stored /\ Waiting' = Waiting - 1
  <2>1. Stored' = Stored
    BY <1>1 DEF Stored
  <2>2. size \in Nat
    BY Sizes
  <2> QED BY <1>1, <2>1, <2>2 DEF Waiting
<1> DEFINE P(h, k) == IF h + k >= Len(array) THEN h + k - Len(array) ELSE h + k
<1>6. \A k \in 0..(Waiting - 1) : P(head', k) = P(head, k + 1)
  <2>1. \A k \in 0..(Waiting - 1) : P(MoveNext(head), k) = P(head, k + 1)
    <3>1. CASE head + 1 >= Len(array)
      BY <1>3, <1>4, <3>1 DEF MoveNext
    <3>2. CASE ~(head + 1 >= Len(array))
      BY <1>3, <1>4, <3>2 DEF MoveNext
    <3> QED BY <3>1, <3>2
  <2> QED BY <1>2, <2>1
<1>7. /\ \A k : Place(k) = P(head, k) /\ Place(k)' = P(head', k)
      /\ Place(Waiting)' = P(head', Waiting - 1)
  BY <1>1, <1>5 DEF Place
<1> HIDE DEF P
<1>8. WaitingInv'
  <2>1. tail' = Place(Waiting)'
    <3>1. Waiting - 1 \in 0..(Waiting - 1) /\ (Waiting - 1) + 1 = Waiting
      BY <1>4
    <3>2. tail = P(head, Waiting)
      BY <1>3, <1>7 DEF OrderInv, WaitingInv
    <3>3. P(head', Waiting - 1) = P(head, Waiting)
      BY <1>6, <3>1
    <3> QED BY <1>1, <1>7, <3>2, <3>3
  <2>2. /\ Waiting - 1 <= Len(array) /\ Waiting - 1 <= Stored
        /\ ui = "store" => Waiting - 1 < Len(array)
    BY <1>3, <1>4
  <2> QED BY <1>1, <1>5, <2>1, <2>2 DEF WaitingInv
<1>9. ItemsInv'
  <2>1. ASSUME NEW k \in 0..((Waiting - 1) - 1)
        PROVE  array[Place(k)' + 1] = Stored - (Waiting - 1) + 1 + k
    <3>1. /\ k \in 0..(Waiting - 1) /\ k + 1 \in 0..(Waiting - 1) /\ k + 1 # 0
          /\ Stored - Waiting + 1 + (k + 1) = Stored - (Waiting - 1) + 1 + k
      BY <1>4
    <3>2. array[Place(k + 1) + 1] = Stored - Waiting + 1 + (k + 1)
      BY <3>1 DEF OrderInv, ItemsInv
    <3>3. Place(k)' = Place(k + 1)
      BY <1>6, <1>7, <3>1
    <3> QED BY <3>1, <3>2, <3>3
  <2> QED BY <1>1, <1>2, <1>5, <2>1 DEF ItemsInv
<1>10. /\ ~Removed /\ Removed'
  BY <1>1 DEF Removed
<1>11. TakenInv'
  <2>1. local.packet = Stored - (Waiting - 1) /\ local.packet > 0
    BY <1>1, <1>4 DEF OrderInv, TakenInv
  <2> QED BY <1>1, <1>5, <2>1 DEF TakenInv
<1>12. SentInv'
  <2>1. sock = "open" => Len(sent) + 1 = Stored - (Waiting - 1)
    <3>1. sock = "open" => Len(sent) + 0 = Stored - Waiting
      BY <1>10 DEF OrderInv, SentInv
    <3>2. Len(sent) \in Nat
      BY Sizes
    <3> QED BY <1>4, <3>1, <3>2
  <2> QED BY <1>1, <1>5, <1>10, <2>1 DEF OrderInv, SentInv
<1> QED BY <1>8, <1>9, <1>11, <1>12 DEF OrderInv

\* _size goes down, and Send gives the packet to the socket.
LEMMA OrderSend ==
    ASSUME TypeInv, RangeInv, OrderInv, OnceInv, ~lost',
           DequeueLoadSize \/ DequeueStoreSize \/ SendTest \/ Send
    PROVE  OrderInv'
<1>1. WaitingInv' /\ ItemsInv' /\ Waiting' = Waiting /\ Stored' = Stored
  BY OrderAround
<1>2. UNCHANGED sock /\ Removed /\ local.packet = Stored - Waiting /\ local.packet > 0
  BY DEF DequeueLoadSize, DequeueStoreSize, SendTest, Send, Sender, Removed, OrderInv, TakenInv
<1>6. local.packet # 0
  BY <1>2, Sizes
<1>3. CASE DequeueLoadSize \/ DequeueStoreSize
  <2>1. UNCHANGED <<sent, died>> /\ local'.packet = local.packet /\ sender' \in {"size", "test"}
    BY <1>3 DEF DequeueLoadSize, DequeueStoreSize, Sender, history, TypeInv, NoLocal
  <2>2. TakenInv' /\ SentInv'
    BY <1>1, <1>2, <2>1 DEF OrderInv, TakenInv, SentInv, Removed
  <2> QED BY <1>1, <2>2 DEF OrderInv
<1>4. CASE SendTest
  <2>1. /\ UNCHANGED <<sent, died>>
        /\ \/ sender' = "send" /\ local' = local
           \/ sender' = "idle" /\ sock # "open"
    BY <1>4 DEF SendTest, Sender, history, IsConnected
  <2>2. TakenInv' /\ SentInv'
    BY <1>1, <1>2, <2>1 DEF OrderInv, TakenInv, SentInv, Removed
  <2> QED BY <1>1, <2>2 DEF OrderInv
<1>5. CASE Send
  <2>1. /\ sender' = "idle" /\ ~Removed'
        /\ died' = (local.packet = 0 \/ sock = "closed")
        /\ sent' = IF died' \/ sock # "open" THEN sent ELSE Append(sent, local.packet)
    BY <1>5 DEF Send, Sender, Removed
  <2>2. died' => sock = "closed"
    BY <1>6, <2>1
  <2>3. TakenInv'
    BY <2>1 DEF TakenInv
  <2>4. CASE sock = "open"
    <3>1. sent' = Append(sent, local.packet)
      <4>1. ~died'
        BY <2>2, <2>4
      <4> QED BY <2>1, <2>4, <4>1, Zenon
    <3>2. /\ Len(sent') = Len(sent) + 1 /\ Len(sent) \in Nat
          /\ \A k \in 1..Len(sent) : sent'[k] = sent[k]
          /\ sent'[Len(sent) + 1] = local.packet
      BY <3>1, AppendProperties, Sizes DEF TypeInv
    <3>3. Len(sent) + 1 = Stored - Waiting
      BY <1>2, <2>4 DEF OrderInv, SentInv
    <3>4. ASSUME NEW i \in 1..Len(sent') PROVE sent'[i] = i
      <4>1. i \in 1..Len(sent) \/ i = Len(sent) + 1
        BY <3>2
      <4> QED BY <1>2, <3>2, <3>3, <4>1 DEF OrderInv, SentInv
    <3>5. Len(sent') + 0 = Stored' - Waiting'
      BY <1>1, <3>2, <3>3
    <3>6. SentInv'
      BY <1>2, <2>1, <2>2, <3>4, <3>5, Zenon DEF SentInv
    <3> QED BY <1>1, <2>3, <3>6 DEF OrderInv
  <2>5. CASE sock # "open"
    <3>1. sent' = sent
      BY <2>1, <2>5
    <3>2. SentInv'
      BY <1>2, <2>2, <2>5, <3>1 DEF OrderInv, SentInv
    <3> QED BY <1>1, <2>3, <3>2 DEF OrderInv
  <2> QED BY <2>4, <2>5
<1> QED BY <1>3, <1>4, <1>5

LEMMA OrderStep ==
    ASSUME TypeInv, RangeInv, OnceInv, OrderInv, Next, ~lost', ~torn'
    PROVE  OrderInv'
<1>1. CASE NetworkReadProcess
  <2>1. /\ UNCHANGED <<array, newArray, head, tail, size, ui, sender, local, sent, posted, died>>
        /\ sock' # "open" /\ ~died
    BY <1>1 DEF NetworkReadProcess, queueVars, history
  <2>2. Waiting' = Waiting /\ Stored' = Stored /\ \A k : Place(k)' = Place(k)
    BY <2>1 DEF Waiting, Stored, Place
  <2>3. WaitingInv' /\ ItemsInv'
    BY <2>1, <2>2 DEF OrderInv, WaitingInv, ItemsInv
  <2>4. TakenInv'
    BY <2>1, <2>2 DEF OrderInv, TakenInv, Removed, MoveNext
  <2>5. SentInv'
    BY <2>1 DEF OrderInv, SentInv
  <2> QED BY <2>3, <2>4, <2>5 DEF OrderInv
<1>2. CASE Rest
  <2>1. UNCHANGED vars
    BY <1>2 DEF Rest
  <2> QED BY <2>1 DEF vars, queueVars, history, OrderInv, WaitingInv, ItemsInv, TakenInv, SentInv,
                      Waiting, Stored, Place, Removed, MoveNext
<1> QED
  BY <1>1, <1>2, OrderUI, OrderCopy, OrderThrows, OrderInstall, OrderStore, OrderTake, OrderClear,
     OrderHead, OrderSend
     DEF Next, UIThread, Enqueue, SendThread, Dequeue

----------------------------------------------------------------------------
(* The theorems.                                                           *)

LEMMA Initially ==
    ASSUME Init
    PROVE  IInv
<1>1. /\ array = <<>> /\ newArray = <<>> /\ sent = <<>> /\ <<>> \in Seq(Nat) /\ Len(<<>>) = 0
      /\ local = NoLocal /\ ui = "idle" /\ sender = "idle"
      /\ head = 0 /\ tail = 0 /\ size = 0 /\ uiSize = 0 /\ posted = 0
      /\ sock = "open" /\ died = FALSE /\ grows = 0 /\ lost = FALSE /\ torn = FALSE
  BY DEF Init
<1>2. TypeInv
  BY <1>1 DEF TypeInv, NoLocal
<1>3. RangeInv
  BY <1>1 DEF RangeInv, NoLocal, Dequeuing
<1>4. OnceInv
  BY <1>1 DEF OnceInv, Once, Known, Apart, Stored, InSlot, NoLocal, Dequeuing
<1>5. Waiting = 0 /\ Stored = 0 /\ ~Removed
  BY <1>1 DEF Waiting, Stored, Removed
<1>6. OrderInv
  BY <1>1, <1>5 DEF OrderInv, WaitingInv, ItemsInv, TakenInv, SentInv
<1> QED BY <1>2, <1>3, <1>4, <1>6 DEF IInv

\* What spoilt the queue once has spoilt it.
LEMMA StaysSpoilt ==
    ASSUME [Next]_vars
    PROVE  (~torn' => ~torn) /\ (Intact' => Intact)
<1>1. CASE EnqueueCopy \/ NetworkSendProcess
  <2>1. lost' = lost
    BY <1>1 DEF EnqueueCopy, NetworkSendProcess
  <2>2. torn' = (torn \/ Dequeuing) \/ torn' = (torn \/ ui = "install")
    BY <1>1, Zenon DEF EnqueueCopy, NetworkSendProcess
  <2> QED BY <2>1, <2>2, Zenon DEF Intact
<1>2. CASE EnqueueStoreSize \/ DequeueStoreSize
  <2>1. torn' = torn
    BY <1>2 DEF EnqueueStoreSize, DequeueStoreSize
  <2>2. lost' = (lost \/ size # uiSize) \/ lost' = (lost \/ size # local.size)
    BY <1>2, Zenon DEF EnqueueStoreSize, DequeueStoreSize
  <2> QED BY <2>1, <2>2, Zenon DEF Intact
<1>3. CASE UNCHANGED <<lost, torn>>
  BY <1>3 DEF Intact
<1>4. \/ EnqueueCopy \/ NetworkSendProcess \/ EnqueueStoreSize \/ DequeueStoreSize
      \/ UNCHANGED <<lost, torn>>
  BY DEF Next, UIThread, Enqueue, SendThread, Dequeue, Rest, history, vars, PostSendPacket,
         EnqueueThrows, EnqueueInstall, EnqueueStore, EnqueueLoadSize, DequeueTake, DequeueClear,
         DequeueNext, DequeueHead, DequeueLoadSize, SendTest, Send, NetworkReadProcess
<1> QED BY <1>1, <1>2, <1>3, <1>4

LEMMA Inductive ==
    ASSUME IInv, [Next]_vars
    PROVE  IInv'
<1>1. TypeInv /\ RangeInv /\ TypeInv' /\ RangeInv'
  BY TypeStep, RangeStep DEF IInv
<1>2. CASE Next
  <2>1. ~torn' => OnceInv'
    BY <1>1, <1>2, OnceStep, StaysSpoilt DEF IInv
  <2>2. Intact' => OrderInv'
    BY <1>1, <1>2, OrderStep, StaysSpoilt DEF IInv, Intact
  <2> QED BY <1>1, <2>1, <2>2 DEF IInv
<1>3. CASE UNCHANGED vars
  <2>1. ~torn' => OnceInv'
    BY <1>3 DEF vars, queueVars, history, IInv, OnceInv, Once, Known, Apart, Stored, Dequeuing,
                InSlot
  <2>2. Intact' => OrderInv'
    <3>1. OrderInv => WaitingInv' /\ ItemsInv'
      BY <1>3 DEF vars, queueVars, history, OrderInv, WaitingInv, ItemsInv, Waiting, Stored, Place
    <3>2. OrderInv => TakenInv' /\ SentInv'
      BY <1>3 DEF vars, queueVars, history, OrderInv, TakenInv, SentInv, Waiting, Stored, Removed,
                  MoveNext
    <3> QED BY <1>3, <3>1, <3>2 DEF vars, history, IInv, Intact, OrderInv
  <2> QED BY <1>1, <2>1, <2>2 DEF IInv
<1> QED BY <1>2, <1>3

\* In every reachable state the positions are in the array, no packet is in two
\* places unless the array was replaced during a Dequeue, and what waits is in
\* order unless the two threads have spoilt the queue for each other.
THEOREM Invariance == Spec => []IInv
<1>1. Init => IInv
  BY Initially
<1>2. IInv /\ [Next]_vars => IInv'
  BY Inductive
<1> QED BY <1>1, <1>2, PTL DEF Spec

\* The unlocked PostSendPacket and the locked NetworkSendProcess do no harm as
\* long as no store to _size overwrites another and the array is not replaced
\* during a Dequeue: the packets leave as they were posted, and the process
\* ends only over a socket that was closed.
THEOREM SentAsPosted == Spec => []SentInOrder
<1>1. IInv => SentInOrder
  BY DEF IInv, OrderInv, SentInv, SentInOrder
<1> QED BY <1>1, Invariance, PTL

\* Whatever the stores to _size lose, no packet is given to the socket twice
\* unless the array was replaced during a Dequeue.
THEOREM SentOnce == Spec => []NeverTwice
<1>1. ASSUME IInv PROVE NeverTwice
  <2>1. sent \in Seq(Nat) /\ DOMAIN sent = 1..Len(sent)
    BY <1>1, LenProperties DEF IInv, TypeInv
  <2>2. SUFFICES ASSUME ~torn PROVE IsInjective(sent)
    BY DEF NeverTwice
  <2>3. Once(sent) /\ \A k \in 1..Len(sent) : sent[k] # 0
    BY <1>1, <2>2 DEF IInv, OnceInv
  <2> QED BY <2>1, <2>3 DEF IsInjective, Once
<1> QED BY <1>1, Invariance, PTL
=============================================================================
