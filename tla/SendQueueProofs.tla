-------------------------- MODULE SendQueueProofs --------------------------
(***************************************************************************)
(* Proofs about SendQueue, for every number of workers and messages.  The  *)
(* inductive invariant says where each message is: messages 1..Popped are  *)
(* deleted, the queue holds the next ones up to Pushed, and the only one   *)
(* that can be outstanding is the front, number Popped + 1.                *)
(***************************************************************************)
EXTENDS SendQueue, SequenceTheorems, TLAPS

\* Number of messages pushed so far, and popped so far.
Pushed == IF processPc \in {"lock", "push"} THEN submitted - 1 ELSE submitted
Popped == Pushed - Len(mSendDataqueue)

\* Some send has been accepted and its completion not been popped.
Busy ==
    \/ posted # {}
    \/ \E c \in iocp : c.op = "SEND" /\ c.ok
    \/ \E w \in Worker : Handling(w)

\* The mutex is held by exactly the thread that is in a critical section.
LockInv ==
    /\ (processPc \in {"push", "sendio", "unlock"}) <=> (mSendLock = "process")
    /\ \A w \in Worker : (workerPc[w] \in {"pop", "sendio", "unlock"}) <=> (mSendLock = w)

\* The queue holds consecutive messages; the ones before it are deleted.
QueueInv ==
    /\ processPc \in {"lock", "push"} => submitted > 0
    /\ Popped \in Nat
    /\ \A i \in 1..Len(mSendDataqueue) : mSendDataqueue[i] = Popped + i
    /\ freed = 1..Popped

\* Everything the kernel, the port or a worker refers to is the front, once.
OwnerInv ==
    /\ \A m \in posted : m = Popped + 1
    /\ \A c \in iocp : c.op = "SEND" /\ c.ok => c.msg = Popped + 1 /\ posted = {}
    /\ \A c \in iocp : c.ok => c.op = "SEND"
    /\ \A w \in Worker : Handling(w) =>
          /\ job[w].msg = Popped + 1
          /\ posted = {}
          /\ \A c \in iocp : ~(c.op = "SEND" /\ c.ok)
          /\ \A v \in Worker : Handling(v) => v = w

\* WSASend was given 1, 2, 3, ... and is at the front or has just passed it.
WireInv ==
    /\ \A i \in 1..Len(wire) : wire[i] = i
    /\ Len(wire) \in {Popped, Popped + 1}
    /\ mSendDataqueue = << >> => Len(wire) = Popped

\* Who starts a send finds none outstanding; a queue at rest is being sent.
SendInv ==
    /\ Busy => mSendDataqueue # << >> /\ Len(wire) = Popped + 1
    /\ Issuing => mSendDataqueue # << >> /\ ~Busy /\ Len(wire) = Popped
    /\ mSendDataqueue # << >> /\ ~Issuing /\ ~broken => Busy

IInv == TypeOK /\ LockInv /\ QueueInv /\ OwnerInv /\ WireInv /\ SendInv

----------------------------------------------------------------------------
(* Sequence facts the provers need spelled out.                            *)

\* Appending a message keeps the type and the entries of a sequence.
LEMMA AppendFacts ==
    ASSUME NEW S, NEW q \in Seq(S), NEW e \in S
    PROVE  /\ Append(q, e) \in Seq(S)
           /\ Len(Append(q, e)) = Len(q) + 1
           /\ \A i \in 1..Len(q) : Append(q, e)[i] = q[i]
           /\ Append(q, e)[Len(q) + 1] = e
           /\ Append(q, e) # << >>
  OBVIOUS

\* What the tail of a queue of messages holds.
LEMMA TailFacts ==
    ASSUME NEW S, NEW q \in Seq(S), q # << >>
    PROVE  /\ Tail(q) \in Seq(S)
           /\ Len(q) > 0
           /\ Len(Tail(q)) = Len(q) - 1
           /\ \A i \in 1..(Len(q) - 1) : Tail(q)[i] = q[i + 1]
           /\ Head(q) = q[1]
           /\ Head(q) \in S
           /\ Tail(q) = << >> <=> Len(q) = 1
<1>1. Len(q) > 0 /\ Head(q) = q[1] /\ Head(q) \in S
  BY EmptySeq, HeadTailProperties, LenProperties
<1>2. /\ Tail(q) \in Seq(S) /\ Len(Tail(q)) = Len(q) - 1
      /\ \A i \in 1..(Len(q) - 1) : Tail(q)[i] = q[i + 1]
  BY HeadTailProperties
<1>3. Tail(q) = << >> <=> Len(q) = 1
  BY <1>1, <1>2, EmptySeq, LenProperties
<1> QED BY <1>1, <1>2, <1>3

\* The invariant holds initially: the session has sent nothing yet.
LEMMA InitInv == Init => IInv
<1> SUFFICES ASSUME Init PROVE IInv
  OBVIOUS
<1>1. TypeOK
  <2>1. RecvFailed \in Completion
    BY MaxMsgAssumption DEF RecvFailed, Completion
  <2>2. mSendDataqueue \in Seq(Msg) /\ wire \in Seq(Msg)
    BY EmptySeq DEF Init
  <2>3. recvPosted \in BOOLEAN /\ broken \in BOOLEAN
    BY DEF Init
  <2> QED BY <2>1, <2>2, <2>3, MaxMsgAssumption DEF Init, TypeOK
<1>2. LockInv
  BY WorkerAssumption DEF Init, LockInv
<1>3. Pushed = 0 /\ Popped = 0 /\ ~Busy /\ ~Issuing
  BY DEF Init, Pushed, Popped, Busy, Handling, Issuing
<1>4. QueueInv /\ OwnerInv /\ WireInv /\ SendInv
  BY <1>3 DEF Init, QueueInv, OwnerInv, WireInv, SendInv, Handling
<1> QED BY <1>1, <1>2, <1>4 DEF IInv

\* Steps of the process thread outside SendIO and the push.
LEMMA SendMsgStep == IInv /\ SendMsg => IInv'
<1> SUFFICES ASSUME IInv, SendMsg PROVE IInv'
  OBVIOUS
<1> USE DEF IInv, SendMsg
<1>1. TypeOK'
  BY MaxMsgAssumption DEF TypeOK
<1>2. LockInv'
  BY DEF LockInv
<1>3. Pushed' = Pushed /\ Popped' = Popped
  BY MaxMsgAssumption DEF Pushed, Popped, TypeOK
<1>4. Busy' = Busy /\ Issuing' = Issuing
  BY DEF Busy, Handling, Issuing
<1>5. QueueInv'
  BY <1>3 DEF QueueInv, TypeOK
<1>6. OwnerInv' /\ WireInv'
  BY <1>3 DEF OwnerInv, WireInv, Handling
<1>7. SendInv'
  BY <1>3, <1>4 DEF SendInv
<1> QED BY <1>1, <1>2, <1>5, <1>6, <1>7

\* Taking the mutex in SendMsg: nobody else is in a critical section.
LEMMA SendMsgLockStep == IInv /\ SendMsgLock => IInv'
<1> SUFFICES ASSUME IInv, SendMsgLock PROVE IInv'
  OBVIOUS
<1> USE DEF IInv, SendMsgLock
<1>1. TypeOK'
  BY DEF TypeOK
<1>2. LockInv'
  BY WorkerAssumption DEF LockInv, TypeOK
<1>3. Pushed' = Pushed /\ Popped' = Popped
  BY DEF Pushed, Popped
<1>4. Busy' = Busy /\ Issuing' = Issuing
  BY DEF Busy, Handling, Issuing
<1>5. QueueInv' /\ OwnerInv' /\ WireInv' /\ SendInv'
  BY <1>3, <1>4 DEF QueueInv, OwnerInv, WireInv, SendInv, Handling
<1> QED BY <1>1, <1>2, <1>5

\* SendMsg releases the mutex with the queue drained or being drained.
LEMMA SendMsgUnlockStep == IInv /\ SendMsgUnlock => IInv'
<1> SUFFICES ASSUME IInv, SendMsgUnlock PROVE IInv'
  OBVIOUS
<1> USE DEF IInv, SendMsgUnlock
<1>1. TypeOK'
  BY DEF TypeOK
<1>2. LockInv'
  BY WorkerAssumption DEF LockInv, TypeOK
<1>3. Pushed' = Pushed /\ Popped' = Popped
  BY DEF Pushed, Popped
<1>4. Busy' = Busy /\ Issuing' = Issuing
  BY DEF Busy, Handling, Issuing
<1>5. QueueInv' /\ OwnerInv' /\ WireInv' /\ SendInv'
  BY <1>3, <1>4 DEF QueueInv, OwnerInv, WireInv, SendInv, Handling
<1> QED BY <1>1, <1>2, <1>5

\* The push: a queue found empty has nothing outstanding, so the pusher may
\* start a send; a queue found non-empty is Busy, or a send has failed.
LEMMA SendMsgPushStep == IInv /\ SendMsgPush => IInv'
<1> SUFFICES ASSUME IInv, SendMsgPush PROVE IInv'
  OBVIOUS
<1> USE DEF IInv, SendMsgPush, PushThen
<1>1. submitted \in Msg /\ mSendDataqueue \in Seq(Msg)
  BY MaxMsgAssumption DEF TypeOK, QueueInv, Msg
<1>2. /\ mSendDataqueue' \in Seq(Msg)
      /\ Len(mSendDataqueue') = Len(mSendDataqueue) + 1
      /\ \A i \in 1..Len(mSendDataqueue) : mSendDataqueue'[i] = mSendDataqueue[i]
      /\ mSendDataqueue'[Len(mSendDataqueue) + 1] = submitted
      /\ mSendDataqueue' # << >>
  BY <1>1, AppendFacts
<1>3. Len(mSendDataqueue) \in Nat /\ (Len(mSendDataqueue) = 0 <=> mSendDataqueue = << >>)
  BY <1>1
<1>4. TypeOK'
  BY <1>2 DEF TypeOK
<1>5. LockInv'
  BY DEF LockInv
<1>6. /\ Pushed = submitted - 1 /\ Pushed' = submitted /\ Popped' = Popped
      /\ Popped + Len(mSendDataqueue) + 1 = submitted
  BY <1>1, <1>2, <1>3 DEF Pushed, Popped, Msg
<1>7. Busy' = Busy
  BY DEF Busy, Handling
<1>8. \A w \in Worker : workerPc[w] # "sendio"
  BY WorkerAssumption DEF LockInv
<1>9. ~Issuing /\ (Issuing' <=> mSendDataqueue = << >>)
  BY <1>3, <1>8 DEF Issuing
<1>10. QueueInv'
  <2>1. Popped \in Nat /\ freed' = 1..Popped' /\ submitted > 0
    BY <1>6 DEF QueueInv
  <2>2. ASSUME NEW i \in 1..Len(mSendDataqueue') PROVE mSendDataqueue'[i] = Popped' + i
    <3>1. CASE i \in 1..Len(mSendDataqueue)
      BY <1>2, <1>6, <3>1 DEF QueueInv
    <3>2. CASE i = Len(mSendDataqueue) + 1
      BY <1>2, <1>3, <1>6, <2>1, <3>2
    <3> QED
      BY <1>2, <1>3, <3>1, <3>2
  <2> QED
    BY <1>6, <2>1, <2>2 DEF QueueInv
<1>11. OwnerInv' /\ WireInv'
  BY <1>2, <1>6 DEF OwnerInv, WireInv, Handling
<1>12. SendInv'
  BY <1>2, <1>6, <1>7, <1>9 DEF SendInv, WireInv
<1> QED BY <1>4, <1>5, <1>10, <1>11, <1>12

\* SendIO by whichever thread holds the lock at "sendio": nothing else is
\* outstanding, so the front becomes the one outstanding send or fails.
LEMMA SendIOStep ==
    ASSUME IInv, SendIO, Issuing,
           UNCHANGED <<mSendDataqueue, iocp, freed, submitted, job>>,
           Pushed' = Pushed, ~Issuing',
           \A w \in Worker : Handling(w)' <=> Handling(w)
    PROVE  /\ posted' \subseteq Msg /\ wire' \in Seq(Msg) /\ broken' \in BOOLEAN
           /\ OwnerInv' /\ WireInv' /\ SendInv'
<1> USE DEF IInv
<1>1. /\ mSendDataqueue # << >> /\ ~Busy /\ Len(wire) = Popped /\ Popped \in Nat
      /\ Popped' = Popped
  BY DEF SendInv, QueueInv, Popped
<1>2. /\ posted = {} /\ \A c \in iocp : ~(c.op = "SEND" /\ c.ok)
      /\ \A w \in Worker : ~Handling(w)
  BY <1>1 DEF Busy
<1>3. /\ Head(mSendDataqueue) = mSendDataqueue[1] /\ Head(mSendDataqueue) \in Msg
      /\ Len(mSendDataqueue) > 0
  BY <1>1, TailFacts DEF TypeOK
<1>4. Head(mSendDataqueue) = Popped + 1
  BY <1>1, <1>3 DEF QueueInv, TypeOK
<1>5. CASE SendIOAccepted
  <2> USE <1>5 DEF SendIOAccepted
  <2>1. posted' = {Popped + 1}
    BY <1>2, <1>4
  <2>2. /\ wire' \in Seq(Msg) /\ Len(wire') = Popped + 1
        /\ \A i \in 1..Popped : wire'[i] = wire[i]
        /\ wire'[Popped + 1] = Popped + 1
    BY <1>1, <1>3, <1>4, AppendFacts DEF TypeOK
  <2>3. OwnerInv'
    BY <1>1, <1>2, <2>1 DEF OwnerInv
  <2>4. WireInv'
    BY <1>1, <2>2 DEF WireInv
  <2>5. SendInv'
    BY <1>1, <2>1, <2>2 DEF SendInv, Busy
  <2> QED BY <1>3, <2>2, <2>3, <2>4, <2>5 DEF TypeOK
<1>6. CASE SendIOFailed
  <2> USE <1>6 DEF SendIOFailed
  <2>1. ~Busy'
    BY <1>2 DEF Busy
  <2>2. OwnerInv' /\ WireInv'
    BY <1>1, <1>2 DEF OwnerInv, WireInv
  <2>3. SendInv'
    BY <1>1, <2>1 DEF SendInv
  <2> QED BY <2>2, <2>3 DEF TypeOK
<1> QED BY <1>5, <1>6 DEF SendIO

\* SendIO called by SendMsg.
LEMMA SendMsgIOStep == IInv /\ SendMsgIO => IInv'
<1> SUFFICES ASSUME IInv, SendMsgIO PROVE IInv'
  OBVIOUS
<1> USE DEF SendMsgIO
<1>1. Pushed' = Pushed /\ Popped' = Popped
  BY DEF Pushed, Popped
<1>2. \A w \in Worker : workerPc[w] # "sendio"
  BY WorkerAssumption DEF IInv, LockInv
<1>3. Issuing /\ ~Issuing'
  BY <1>2 DEF Issuing
<1>4. \A w \in Worker : Handling(w)' <=> Handling(w)
  BY DEF Handling
<1>5. /\ posted' \subseteq Msg /\ wire' \in Seq(Msg) /\ broken' \in BOOLEAN
      /\ OwnerInv' /\ WireInv' /\ SendInv'
  BY <1>1, <1>3, <1>4, SendIOStep
<1>6. TypeOK' /\ LockInv'
  BY <1>5 DEF IInv, TypeOK, LockInv
<1>7. QueueInv'
  BY <1>1 DEF IInv, QueueInv
<1> QED BY <1>5, <1>6, <1>7 DEF IInv

\* SendIO called by SendCompleted.
LEMMA SendCompletedIOStep ==
    ASSUME IInv, NEW w \in Worker, SendCompletedIO(w)
    PROVE  IInv'
<1> USE DEF SendCompletedIO
<1>1. Pushed' = Pushed /\ Popped' = Popped
  BY DEF Pushed, Popped
<1>2. processPc # "sendio" /\ \A v \in Worker : workerPc[v] = "sendio" => v = w
  BY WorkerAssumption DEF IInv, LockInv
<1>3. Issuing /\ ~Issuing'
  BY <1>2 DEF Issuing, IInv, TypeOK
<1>4. \A v \in Worker : Handling(v)' <=> Handling(v)
  BY DEF Handling, IInv, TypeOK
<1>5. /\ posted' \subseteq Msg /\ wire' \in Seq(Msg) /\ broken' \in BOOLEAN
      /\ OwnerInv' /\ WireInv' /\ SendInv'
  BY <1>1, <1>3, <1>4, SendIOStep
<1>6. TypeOK' /\ LockInv'
  BY <1>5 DEF IInv, TypeOK, LockInv
<1>7. QueueInv'
  BY <1>1 DEF IInv, QueueInv
<1> QED BY <1>5, <1>6, <1>7 DEF IInv

\* A worker takes a completion: the reference moves from the port to it.
LEMMA WorkerDequeueStep ==
    ASSUME IInv, NEW w \in Worker, NEW c \in iocp, WorkerDequeue(w, c)
    PROVE  IInv'
<1> USE DEF IInv, WorkerDequeue
<1>1. Pushed' = Pushed /\ Popped' = Popped
  BY DEF Pushed, Popped
<1>2. c \in Completion /\ c.ok \in BOOLEAN
  BY DEF TypeOK, Completion
<1>3. TypeOK' /\ LockInv' /\ QueueInv' /\ WireInv'
  BY <1>1, <1>2 DEF TypeOK, LockInv, QueueInv, WireInv
<1>4. Issuing' <=> Issuing
  BY DEF Issuing, TypeOK
<1>5. \A v \in Worker : v # w => (Handling(v)' <=> Handling(v)) /\ job'[v] = job[v]
  BY DEF Handling, TypeOK
<1>6. ~Handling(w) /\ (Handling(w)' <=> c.ok) /\ job'[w] = c
  BY <1>2 DEF Handling, TypeOK
<1>7. CASE c.ok
  <2>1. c.op = "SEND" /\ c.msg = Popped + 1 /\ posted = {}
    BY <1>7 DEF OwnerInv
  <2>2. \A v \in Worker : ~Handling(v)
    BY <1>7, <2>1 DEF OwnerInv
  <2>3. \A d \in iocp : d.op = "SEND" /\ d.ok => d = c
    <3> SUFFICES ASSUME NEW d \in iocp, d.op = "SEND", d.ok PROVE d = c
      OBVIOUS
    <3>1. d.msg = c.msg /\ d.op = c.op
      BY <2>1 DEF OwnerInv
    <3>2. d \in Completion /\ d.ok = TRUE /\ c.ok = TRUE
      BY <1>2, <1>7 DEF TypeOK, Completion
    <3> QED BY <1>2, <3>1, <3>2 DEF Completion
  <2>4. OwnerInv'
    BY <1>1, <1>5, <1>6, <2>1, <2>2, <2>3 DEF OwnerInv
  <2>5. Busy /\ Busy'
    BY <1>6, <1>7, <2>1 DEF Busy
  <2>6. SendInv'
    BY <1>1, <1>4, <2>5 DEF SendInv
  <2> QED BY <1>3, <2>4, <2>6
<1>8. CASE ~c.ok
  <2>1. OwnerInv'
    BY <1>1, <1>5, <1>6, <1>8 DEF OwnerInv
  <2>2. Busy' <=> Busy
    BY <1>5, <1>6, <1>8 DEF Busy
  <2>3. SendInv'
    BY <1>1, <1>4, <2>2 DEF SendInv
  <2> QED BY <1>3, <2>1, <2>3
<1> QED BY <1>7, <1>8

\* The steps of a worker that touch neither the queue nor a reference.
LEMMA WorkerOtherStep ==
    ASSUME IInv, NEW w \in Worker,
           CloseSocket(w) \/ SendCompletedLock(w) \/ SendCompletedUnlock(w)
    PROVE  IInv'
<1> USE DEF IInv, CloseSocket, SendCompletedLock, SendCompletedUnlock
<1>1. Pushed' = Pushed /\ Popped' = Popped
  BY DEF Pushed, Popped
<1>2. TypeOK'
  BY DEF TypeOK
<1>3. LockInv'
  BY WorkerAssumption DEF LockInv, TypeOK
<1>4. QueueInv' /\ WireInv'
  BY <1>1 DEF QueueInv, WireInv
<1>5. Issuing' <=> Issuing
  BY DEF Issuing, TypeOK
<1>6. \A v \in Worker : (Handling(v)' <=> Handling(v)) /\ job'[v] = job[v]
  BY DEF Handling, TypeOK
<1>7. OwnerInv'
  BY <1>1, <1>6 DEF OwnerInv
<1>8. Busy' <=> Busy
  BY <1>6 DEF Busy
<1>9. SendInv'
  BY <1>1, <1>5, <1>8 DEF SendInv
<1> QED BY <1>2, <1>3, <1>4, <1>7, <1>9

\* The pop: the completed send is the front, so nothing is outstanding
\* afterwards, and the next front, if any, is issued by the same worker.
LEMMA SendCompletedPopStep ==
    ASSUME IInv, NEW w \in Worker, SendCompletedPop(w)
    PROVE  IInv'
<1> USE DEF IInv, SendCompletedPop, DeleteFront
<1>1. Handling(w) /\ Busy
  BY DEF Handling, Busy
<1>2. mSendDataqueue # << >> /\ Len(wire) = Popped + 1 /\ Popped \in Nat
  BY <1>1 DEF SendInv, QueueInv
<1>3. /\ mSendDataqueue' \in Seq(Msg)
      /\ Len(mSendDataqueue) > 0 /\ Len(mSendDataqueue) \in Nat
      /\ Len(mSendDataqueue') = Len(mSendDataqueue) - 1
      /\ \A i \in 1..(Len(mSendDataqueue) - 1) : mSendDataqueue'[i] = mSendDataqueue[i + 1]
      /\ Head(mSendDataqueue) = mSendDataqueue[1]
      /\ Head(mSendDataqueue) \in Msg
  BY <1>2, TailFacts, LenProperties DEF TypeOK
<1>4. Head(mSendDataqueue) = Popped + 1
  BY <1>2, <1>3 DEF QueueInv
<1>5. Pushed' = Pushed /\ Popped' = Popped + 1
  BY <1>2, <1>3 DEF Pushed, Popped, TypeOK
<1>6. TypeOK'
  BY <1>3 DEF TypeOK
<1>7. LockInv'
  BY DEF LockInv, TypeOK
<1>8. QueueInv'
  <2>1. \A i \in 1..Len(mSendDataqueue') : mSendDataqueue'[i] = Popped' + i
    BY <1>2, <1>3, <1>5 DEF QueueInv
  <2>2. freed' = 1..Popped'
    BY <1>2, <1>4, <1>5 DEF QueueInv
  <2> QED BY <1>2, <1>5, <2>1, <2>2 DEF QueueInv
<1>9. /\ posted' = {} /\ \A c \in iocp' : ~(c.op = "SEND" /\ c.ok)
      /\ \A v \in Worker : ~Handling(v)'
  BY <1>1 DEF OwnerInv, Handling, TypeOK
<1>10. OwnerInv'
  BY <1>9 DEF OwnerInv
<1>11. WireInv'
  BY <1>2, <1>5 DEF WireInv
<1>12. ~Busy'
  BY <1>9 DEF Busy
<1>13. processPc # "sendio" /\ \A v \in Worker : v # w => workerPc[v] # "sendio"
  BY WorkerAssumption DEF LockInv
<1>14. Issuing' <=> mSendDataqueue' # << >>
  BY <1>13 DEF Issuing, TypeOK
<1>15. SendInv'
  BY <1>2, <1>5, <1>12, <1>14 DEF SendInv
<1> QED BY <1>6, <1>7, <1>8, <1>10, <1>11, <1>15

\* A completion moves the reference from the kernel to the port; a failed
\* one drops it, and leaves the history flag behind.
LEMMA KernelSendDoneStep ==
    ASSUME IInv, NEW m \in Msg, NEW ok \in BOOLEAN, KernelSendDone(m, ok)
    PROVE  IInv'
<1> USE DEF IInv, KernelSendDone
<1>1. Pushed' = Pushed /\ Popped' = Popped /\ (Issuing' <=> Issuing)
  BY DEF Pushed, Popped, Issuing
<1>2. SendDone(m, ok) \in Completion
  BY MaxMsgAssumption DEF SendDone, Completion, Msg
<1>3. TypeOK'
  BY <1>2 DEF TypeOK
<1>4. LockInv' /\ QueueInv' /\ WireInv'
  BY <1>1 DEF LockInv, QueueInv, WireInv
<1>5. m = Popped + 1 /\ posted' = {} /\ Busy
  BY DEF OwnerInv, Busy
<1>6. /\ \A v \in Worker : ~Handling(v)
      /\ \A c \in iocp : ~(c.op = "SEND" /\ c.ok)
  BY DEF OwnerInv
<1>7. \A c \in iocp' : c \in iocp \/ (c.op = "SEND" /\ c.msg = m /\ c.ok = ok)
  BY DEF SendDone
<1>8. OwnerInv'
  BY <1>1, <1>5, <1>6, <1>7 DEF OwnerInv, Handling
<1>9. SendInv'
  <2>1. Busy' => ok
    BY <1>5, <1>6, <1>7 DEF Busy, Handling
  <2>2. ok => Busy'
    <3>1. /\ SendDone(m, ok) \in iocp'
          /\ SendDone(m, ok).op = "SEND" /\ SendDone(m, ok).ok = ok
      BY DEF SendDone
    <3> QED BY <3>1 DEF Busy
  <2>3. ~ok => broken'
    OBVIOUS
  <2> QED BY <1>1, <1>5, <2>1, <2>2, <2>3 DEF SendInv
<1> QED BY <1>3, <1>4, <1>8, <1>9

\* A failed receive adds a completion that refers to no operation.
LEMMA KernelRecvFailedStep == IInv /\ KernelRecvFailed => IInv'
<1> SUFFICES ASSUME IInv, KernelRecvFailed PROVE IInv'
  OBVIOUS
<1> USE DEF IInv, KernelRecvFailed
<1>1. Pushed' = Pushed /\ Popped' = Popped /\ (Issuing' <=> Issuing)
  BY DEF Pushed, Popped, Issuing
<1>2. RecvFailed \in Completion
  BY MaxMsgAssumption DEF RecvFailed, Completion
<1>3. TypeOK'
  BY <1>2 DEF TypeOK
<1>4. LockInv' /\ QueueInv' /\ WireInv'
  BY <1>1 DEF LockInv, QueueInv, WireInv
<1>5. \A c \in iocp' : c \in iocp \/ (c.op = "RECV" /\ c.ok = FALSE)
  BY DEF RecvFailed
<1>6. OwnerInv'
  BY <1>1, <1>5 DEF OwnerInv, Handling
<1>7. Busy' <=> Busy
  BY <1>5 DEF Busy, Handling
<1>8. SendInv'
  BY <1>1, <1>7 DEF SendInv
<1> QED BY <1>3, <1>4, <1>6, <1>8

\* A stuttering step keeps the invariant.
LEMMA StutterStep == IInv /\ UNCHANGED vars => IInv'
  BY DEF IInv, vars, TypeOK, LockInv, QueueInv, OwnerInv, WireInv, SendInv,
         Pushed, Popped, Busy, Issuing, Handling

----------------------------------------------------------------------------
\* Every reachable state satisfies the inductive invariant.
THEOREM Invariance == Spec => []IInv
<1>1. Init => IInv
  BY InitInv
<1>2. IInv /\ [Next]_vars => IInv'
  <2> SUFFICES ASSUME IInv, [Next]_vars PROVE IInv'
    OBVIOUS
  <2>1. CASE Process
    BY <2>1, SendMsgStep, SendMsgLockStep, SendMsgPushStep, SendMsgIOStep,
       SendMsgUnlockStep DEF Process
  <2>2. CASE \E w \in Worker : WokerThread(w)
    <3> PICK w \in Worker : WokerThread(w)
      BY <2>2
    <3>1. CASE \E c \in iocp : WorkerDequeue(w, c)
      BY <3>1, WorkerDequeueStep
    <3>2. CASE CloseSocket(w) \/ SendCompletedLock(w) \/ SendCompletedUnlock(w)
      BY <3>2, WorkerOtherStep
    <3>3. CASE SendCompletedPop(w)
      BY <3>3, SendCompletedPopStep
    <3>4. CASE SendCompletedIO(w)
      BY <3>4, SendCompletedIOStep
    <3> QED BY <3>1, <3>2, <3>3, <3>4 DEF WokerThread
  <2>3. CASE Kernel
    BY <2>3, KernelRecvFailedStep, KernelSendDoneStep DEF Kernel
  <2>4. CASE Rest \/ UNCHANGED vars
    BY <2>4, StutterStep DEF Rest
  <2> QED BY <2>1, <2>2, <2>3, <2>4 DEF Next
<1> QED BY <1>1, <1>2, PTL DEF Spec

\* Type correctness of the send path, for any number of workers and messages.
THEOREM TypeCorrect == Spec => []TypeOK
<1>1. IInv => TypeOK
  BY DEF IInv
<1> QED BY <1>1, Invariance, PTL

\* What is outstanding, if anything, is the front and only the front.
LEMMA OutstandingIsFront ==
    ASSUME IInv
    PROVE  /\ (Outstanding # {}) <=> Busy
           /\ \A m \in Outstanding : m = Popped + 1
           /\ Busy => mSendDataqueue # << >> /\ Head(mSendDataqueue) = Popped + 1
<1> USE DEF IInv
<1>1. (Outstanding # {}) <=> Busy
  BY DEF Outstanding, Busy
<1>2. \A m \in Outstanding : m = Popped + 1
  BY DEF Outstanding, OwnerInv
<1>3. ASSUME Busy
      PROVE  mSendDataqueue # << >> /\ Head(mSendDataqueue) = Popped + 1
  <2>1. mSendDataqueue # << >>
    BY <1>3 DEF SendInv
  <2>2. Head(mSendDataqueue) = mSendDataqueue[1] /\ Len(mSendDataqueue) > 0
    BY <2>1, TailFacts DEF TypeOK
  <2> QED BY <2>1, <2>2 DEF QueueInv, TypeOK
<1> QED BY <1>1, <1>2, <1>3

\* SendCompleted always pops the operation that completed: at most one send
\* is outstanding, and it is the front of the queue.
THEOREM CompletionMatchesFront == Spec => []CompletionIsFront
<1>1. IInv => CompletionIsFront
  <2> SUFFICES ASSUME IInv PROVE CompletionIsFront
    OBVIOUS
  <2>1. Outstanding # {} => mSendDataqueue # << >> /\ Outstanding = {Head(mSendDataqueue)}
    BY OutstandingIsFront
  <2>2. \A w, v \in Worker : Handling(w) /\ Handling(v) => w = v
    BY DEF IInv, OwnerInv
  <2> QED BY <2>1, <2>2 DEF CompletionIsFront
<1> QED BY <1>1, Invariance, PTL

\* Nothing outstanding or queued has been deleted.
THEOREM MemorySafe == Spec => []NoUseAfterFree
<1>1. IInv => NoUseAfterFree
  <2> SUFFICES ASSUME IInv PROVE NoUseAfterFree
    OBVIOUS
  <2>1. Popped \in Nat /\ freed = 1..Popped /\ Popped + 1 \notin freed
    BY DEF IInv, QueueInv
  <2>2. freed \cap Outstanding = {}
    BY <2>1, OutstandingIsFront
  <2>3. \A i \in 1..Len(mSendDataqueue) : mSendDataqueue[i] \notin freed
    BY <2>1 DEF IInv, QueueInv, TypeOK
  <2> QED BY <2>2, <2>3 DEF NoUseAfterFree
<1> QED BY <1>1, Invariance, PTL

\* With the mutex free, a non-empty queue has a send outstanding, or one failed.
THEOREM QueueIsDrained == Spec => []NoLostSend
<1>1. IInv => NoLostSend
  <2> SUFFICES ASSUME IInv, mSendLock = "none", mSendDataqueue # << >>, ~broken
               PROVE  Outstanding # {}
    BY DEF NoLostSend
  <2>1. ~Issuing
    BY WorkerAssumption DEF IInv, LockInv, Issuing
  <2>2. Busy
    BY <2>1 DEF IInv, SendInv
  <2> QED BY <2>2, OutstandingIsFront
<1> QED BY <1>1, Invariance, PTL

----------------------------------------------------------------------------
(* The refinement: every step of the send path is a step of OrderedStream. *)

\* The abstract sequence of submitted messages is 1, 2, ..., submitted.
LEMMA SubmittedFacts ==
    ASSUME NEW n \in Nat
    PROVE  /\ [i \in 1..n |-> i] \in Seq(Nat)
           /\ Len([i \in 1..n |-> i]) = n
           /\ \A i \in 1..n : [j \in 1..n |-> j][i] = i
           /\ [i \in 1..(n + 1) |-> i] = Append([i \in 1..n |-> i], n + 1)
<1> DEFINE s == [i \in 1..n |-> i]
           t == [i \in 1..(n + 1) |-> i]
<1>1. s \in Seq(Nat) /\ Len(s) = n /\ t \in Seq(Nat) /\ Len(t) = n + 1
  OBVIOUS
<1>2. /\ Append(s, n + 1) \in Seq(Nat) /\ Len(Append(s, n + 1)) = n + 1
      /\ \A i \in 1..n : Append(s, n + 1)[i] = i
      /\ Append(s, n + 1)[n + 1] = n + 1
  BY <1>1, AppendFacts
<1>3. \A i \in 1..(n + 1) : t[i] = Append(s, n + 1)[i]
  BY <1>2
<1>4. t = Append(s, n + 1)
  <2> HIDE DEF t, s
  <2> QED BY <1>1, <1>2, <1>3, SeqEqual
<1> QED BY <1>1, <1>4

\* A WSASend that is accepted transmits the oldest message not sent yet.
LEMMA AcceptedIsTransmit ==
    ASSUME IInv, Issuing, SendIOAccepted, submitted' = submitted
    PROVE  Stream!Transmit
<1>1. /\ mSendDataqueue # << >> /\ Len(wire) = Popped /\ Popped \in Nat
      /\ submitted \in Nat
  BY MaxMsgAssumption DEF IInv, SendInv, QueueInv, TypeOK
<1>2. Head(mSendDataqueue) = mSendDataqueue[1] /\ Len(mSendDataqueue) > 0
  BY <1>1, TailFacts DEF IInv, TypeOK
<1>3. Head(mSendDataqueue) = Popped + 1
  BY <1>1, <1>2 DEF IInv, QueueInv, TypeOK
<1>4. Popped + 1 \in 1..submitted
  BY <1>1, <1>2 DEF Popped, Pushed, IInv, TypeOK
<1>5. /\ Len([i \in 1..submitted |-> i]) = submitted
      /\ [i \in 1..submitted |-> i][Popped + 1] = Popped + 1
  BY <1>1, <1>4, SubmittedFacts
<1> QED BY <1>1, <1>3, <1>4, <1>5 DEF Stream!Transmit, SendIOAccepted

\* The send path implements the ordered stream.
THEOREM Refinement == Spec => StreamSpec
<1>1. Init => Stream!Init
  BY DEF Init, Stream!Init
<1>2. IInv /\ [Next]_vars => [Stream!Next]_(Stream!vars)
  <2> SUFFICES ASSUME IInv, [Next]_vars PROVE [Stream!Next]_(Stream!vars)
    OBVIOUS
  <2> USE DEF Stream!vars
  <2>1. CASE SendMsg
    <3>1. submitted \in Nat /\ submitted + 1 \in Msg /\ submitted' = submitted + 1
      BY <2>1, MaxMsgAssumption DEF SendMsg, IInv, TypeOK, Msg
    <3>2. Append([i \in 1..submitted |-> i], submitted + 1) = [i \in 1..submitted' |-> i]
      BY <3>1, SubmittedFacts
    <3>3. \E m \in Msg : Stream!Submit(m)
      BY <2>1, <3>1, <3>2 DEF Stream!Submit, SendMsg
    <3> QED BY <3>3 DEF Stream!Next
  <2>2. CASE SendMsgIO
    <3>1. Issuing
      BY <2>2 DEF SendMsgIO, Issuing
    <3> QED BY <2>2, <3>1, AcceptedIsTransmit
            DEF SendMsgIO, SendIO, SendIOFailed, Stream!Next
  <2>3. CASE \E w \in Worker : SendCompletedIO(w)
    <3> PICK w \in Worker : SendCompletedIO(w)
      BY <2>3
    <3>1. Issuing
      BY DEF SendCompletedIO, Issuing
    <3> QED BY <3>1, AcceptedIsTransmit
            DEF SendCompletedIO, SendIO, SendIOFailed, Stream!Next
  <2>4. CASE SendMsgLock \/ SendMsgPush \/ SendMsgUnlock
    BY <2>4 DEF SendMsgLock, SendMsgPush, PushThen, SendMsgUnlock
  <2>5. CASE \E w \in Worker :
               \/ \E c \in iocp : WorkerDequeue(w, c)
               \/ CloseSocket(w) \/ SendCompletedLock(w)
               \/ SendCompletedPop(w) \/ SendCompletedUnlock(w)
    BY <2>5 DEF WorkerDequeue, CloseSocket, SendCompletedLock,
                SendCompletedPop, DeleteFront, SendCompletedUnlock
  <2>6. CASE Kernel \/ Rest \/ UNCHANGED vars
    BY <2>6 DEF Kernel, KernelRecvFailed, KernelSendDone, Rest, vars
  <2> QED BY <2>1, <2>2, <2>3, <2>4, <2>5, <2>6 DEF Next, Process, WokerThread
<1> QED BY <1>1, <1>2, Invariance, PTL DEF Spec, StreamSpec, Stream!Spec
=============================================================================
