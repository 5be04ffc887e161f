------------------------- MODULE IocpSessionProofs -------------------------
(***************************************************************************)
(* Proofs about IocpSession, for any number of slots and workers, any      *)
(* length of the port's queue and any bound on receives and sends.         *)
(*                                                                         *)
(* That a session has one receive is not inductive: it is a matter of      *)
(* counting.  A slot is handed from the accepter to the kernel, from the   *)
(* kernel to the port, from the port to a worker and back as one token;    *)
(* SlotInv counts the token wherever it can be.                            *)
(***************************************************************************)
EXTENDS IocpSession, FiniteSetTheorems, SequenceTheorems, TLAPS

Posted(s) == IF s \in acceptPosted THEN 1 ELSE 0
Q(op, s) == Cardinality(Queued(op, s))
B(s, places) == Cardinality(Busy(s, places))

\* Where a worker is between the accept of a connection and its connect packet.
Counting == {"countRead", "countWrite", "onconnect"}
Accepting == {"accept"} \cup Counting
Receiving == {"accept", "receive", "bindrecv"}
Closing == {"close", "onclose"}

\* A worker that is not waiting has a completion.
JobInv == \A w \in Worker : pc[w] # "wait" => job[w] \in Completion

\* An accept is posted, completed, handled and announced at most once.
AcceptOnce(s) == Posted(s) + Q("ACCEPT", s) + B(s, Accepting) + connects[s] <= 1

\* There is one receive, or there is still the accept that will post it.
RecvOnce(s) == Posted(s) + Q("ACCEPT", s) + Receivers(s) <= 1

\* A slot that the accepter may still take has never been used.
Unused(s) ==
    mLatestClosedTimeSec[s] # Never =>
        Posted(s) + Q("ACCEPT", s) + B(s, Accepting) + Receivers(s) = 0

\* Nothing of a session exists before its accept completes.
Quiet(s) ==
    mLatestClosedTimeSec[s] # Never \/ s \in acceptPosted =>
        /\ connects[s] = 0 /\ s \notin closed
        /\ sendPosted[s] = 0 /\ Q("SEND", s) = 0 /\ B(s, Closing) = 0

\* A session is not deaf from the moment its accept was completed.
Listening(s) ==
    connects[s] + B(s, Counting) > 0 /\ s \notin closed \cup recvError
        => Receivers(s) = 1 \/ B(s, {"close"}) > 0

\* A user is up only after the connect packet of its slot.
UpInv ==
    /\ \A s \in Slot : user[s] = "Up" => connects[s] > 0
    /\ \A i \in 1..Len(mSystemPacketQueue) :
          mSystemPacketQueue[i][1] = "CONNECT" => connects[mSystemPacketQueue[i][2]] > 0

SlotInv(s) == AcceptOnce(s) /\ RecvOnce(s) /\ Unused(s) /\ Quiet(s) /\ Listening(s)

IInv == TypeOK /\ JobInv /\ UpInv /\ \A s \in Slot : SlotInv(s)

----------------------------------------------------------------------------
(* Counting completions in a queue and workers at places.                  *)

At(q, op, s) == {i \in 1..Len(q) : q[i].op = op /\ q[i].slot = s}
Match(c, op, s) == IF c.op = op /\ c.slot = s THEN 1 ELSE 0

\* A queue holds finitely many completions.
LEMMA AtFinite ==
    ASSUME NEW q \in Seq(Completion), NEW op, NEW s
    PROVE  IsFiniteSet(At(q, op, s)) /\ Cardinality(At(q, op, s)) \in Nat
<1>1. Len(q) \in Nat
  OBVIOUS
<1>2. IsFiniteSet(1..Len(q))
  BY <1>1, FS_Interval
<1>3. At(q, op, s) \in SUBSET (1..Len(q))
  BY DEF At
<1> QED
  BY <1>2, <1>3, FS_Subset, FS_CardinalityType

\* A completion the kernel appends is one more of its kind.
LEMMA AppendCount ==
    ASSUME NEW q \in Seq(Completion), NEW c \in Completion, NEW op, NEW s
    PROVE  Cardinality(At(Append(q, c), op, s)) = Cardinality(At(q, op, s)) + Match(c, op, s)
<1>1. /\ Len(q) \in Nat /\ Len(Append(q, c)) = Len(q) + 1
      /\ \A i \in 1..Len(q) : Append(q, c)[i] = q[i]
      /\ Append(q, c)[Len(q) + 1] = c
  BY AppendProperties
<1>2. Len(q) + 1 \notin At(q, op, s)
  BY <1>1 DEF At
<1>3. CASE c.op = op /\ c.slot = s
  <2>1. At(Append(q, c), op, s) = At(q, op, s) \cup {Len(q) + 1}
    BY <1>1, <1>3 DEF At
  <2>2. IsFiniteSet(At(q, op, s))
    BY AtFinite
  <2>3. Cardinality(At(q, op, s) \cup {Len(q) + 1}) = Cardinality(At(q, op, s)) + 1
    BY <1>2, <2>2, FS_AddElement
  <2> QED
    BY <1>3, <2>1, <2>3 DEF Match
<1>4. CASE ~(c.op = op /\ c.slot = s)
  <2>1. At(Append(q, c), op, s) = At(q, op, s)
    BY <1>1, <1>4 DEF At
  <2> QED
    BY <1>4, <2>1, AtFinite DEF Match
<1> QED
  BY <1>3, <1>4

\* A completion a worker takes is one less of its kind.
LEMMA TailCount ==
    ASSUME NEW q \in Seq(Completion), q # << >>, NEW op, NEW s
    PROVE  Cardinality(At(Tail(q), op, s)) = Cardinality(At(q, op, s)) - Match(Head(q), op, s)
<1> DEFINE S == At(q, op, s) \ {1}
           T == At(Tail(q), op, s)
           f == [i \in T |-> i + 1]
<1>1. /\ Len(q) \in Nat \ {0} /\ Tail(q) \in Seq(Completion) /\ Len(Tail(q)) = Len(q) - 1
      /\ \A i \in 1..Len(Tail(q)) : Tail(q)[i] = q[i + 1]
      /\ Head(q) = q[1]
  BY HeadTailProperties, EmptySeq
<1>2. \A i \in T : i \in Nat /\ i + 1 \in S
  BY <1>1 DEF At
<1>3. \A k \in S : k - 1 \in T /\ (k - 1) + 1 = k
  BY <1>1 DEF At
<1>4. f \in Bijection(T, S)
  <2>1. f \in [T -> S] /\ \A a, b \in T : f[a] = f[b] => a = b
    BY <1>2
  <2>2. \A k \in S : \E i \in T : f[i] = k
    BY <1>3
  <2> QED
    BY <2>1, <2>2 DEF Bijection, Injection, Surjection, IsInjective
<1>5. IsFiniteSet(T) /\ Cardinality(S) = Cardinality(T)
  <2> HIDE DEF S, T, f
  <2>1. ExistsBijection(T, S)
    BY <1>4 DEF ExistsBijection
  <2>2. IsFiniteSet(T)
    BY <1>1, AtFinite DEF T
  <2> QED
    BY <2>1, <2>2, FS_Bijection
<1>6. Cardinality(S) = IF 1 \in At(q, op, s) THEN Cardinality(At(q, op, s)) - 1
                       ELSE Cardinality(At(q, op, s))
  BY AtFinite, FS_RemoveElement
<1>7. 1 \in At(q, op, s) <=> Head(q).op = op /\ Head(q).slot = s
  BY <1>1 DEF At
<1> QED
  BY <1>5, <1>6, <1>7, AtFinite DEF Match

\* The workers at one of the places with a completion of slot s.
Working(p, j, s, places) == {w \in Worker : p[w] \in places /\ j[w].slot = s}
Works(p, j, w, s, places) == IF p[w] \in places /\ j[w].slot = s THEN 1 ELSE 0

\* There are finitely many workers.
LEMMA WorkingFinite ==
    ASSUME NEW p, NEW j, NEW s, NEW places
    PROVE  /\ IsFiniteSet(Working(p, j, s, places))
           /\ Cardinality(Working(p, j, s, places)) \in Nat
BY SessionAssumption, FS_Subset, FS_CardinalityType DEF Working

\* When one worker moves, only that worker is counted differently.
LEMMA MoveCount ==
    ASSUME NEW p, NEW j, NEW p1, NEW j1, NEW w \in Worker, NEW s, NEW places,
           \A v \in Worker \ {w} : p1[v] = p[v] /\ j1[v] = j[v]
    PROVE  Cardinality(Working(p1, j1, s, places)) =
               Cardinality(Working(p, j, s, places))
                   - Works(p, j, w, s, places) + Works(p1, j1, w, s, places)
<1> DEFINE R == Working(p, j, s, places) \ {w}
<1>1. R = Working(p1, j1, s, places) \ {w}
  BY DEF Working
<1>2. Cardinality(R) = Cardinality(Working(p, j, s, places)) - Works(p, j, w, s, places)
  <2>1. w \in Working(p, j, s, places) <=> p[w] \in places /\ j[w].slot = s
    BY DEF Working
  <2>2. IsFiniteSet(Working(p, j, s, places))
    BY WorkingFinite
  <2>3. Cardinality(Working(p, j, s, places) \ {w}) =
            IF w \in Working(p, j, s, places) THEN Cardinality(Working(p, j, s, places)) - 1 ELSE Cardinality(Working(p, j, s, places))
    BY <2>2, FS_RemoveElement
  <2> QED
    BY <2>1, <2>3, WorkingFinite DEF Works
<1>3. Cardinality(R) = Cardinality(Working(p1, j1, s, places)) - Works(p1, j1, w, s, places)
  <2>1. w \in Working(p1, j1, s, places) <=> p1[w] \in places /\ j1[w].slot = s
    BY DEF Working
  <2>2. IsFiniteSet(Working(p1, j1, s, places))
    BY WorkingFinite
  <2>3. Cardinality(Working(p1, j1, s, places) \ {w}) =
            IF w \in Working(p1, j1, s, places) THEN Cardinality(Working(p1, j1, s, places)) - 1 ELSE Cardinality(Working(p1, j1, s, places))
    BY <2>2, FS_RemoveElement
  <2> QED
    BY <1>1, <2>1, <2>3, WorkingFinite DEF Works
<1> QED
  BY <1>2, <1>3, WorkingFinite DEF Works

----------------------------------------------------------------------------
(* Type correctness.                                                       *)

Place == {"wait", "accept", "countRead", "countWrite", "onconnect", "receive",
          "bindrecv", "close", "onclose"}

\* A worker that goes on keeps its completion, one that returns drops it.
LEMMA GotoTypes ==
    ASSUME TypeOK, JobInv, NEW w \in Worker, pc[w] # "wait",
           NEW place \in Place, Goto(w, place)
    PROVE  /\ pc' \in [Worker -> Place]
           /\ job' \in [Worker -> Completion \cup {<< >>}]
           /\ JobInv'
<1>1. /\ pc \in [Worker -> Place] /\ job \in [Worker -> Completion \cup {<< >>}]
      /\ job[w] \in Completion
  BY DEF TypeOK, Place, JobInv
<1>2. pc' = [pc EXCEPT ![w] = place]
  BY DEF Goto
<1>3. CASE place = "wait"
  <2>1. job' = [job EXCEPT ![w] = << >>]
    BY <1>3 DEF Goto
  <2> QED
    BY <1>1, <1>2, <1>3, <2>1 DEF JobInv
<1>4. CASE place # "wait"
  <2>1. job' = job
    BY <1>4 DEF Goto
  <2> QED
    BY <1>1, <1>2, <1>4, <2>1 DEF JobInv
<1> QED
  BY <1>3, <1>4

\* What a worker's BindRecv leaves in recvPosted and recvError.
LEMMA BindTypes ==
    ASSUME TypeOK, NEW s \in Slot, BindRecvOk(s) \/ BindRecvFail(s)
    PROVE  recvPosted' \in [Slot -> Nat] /\ recvError' \subseteq Slot
<1>1. recvPosted \in [Slot -> Nat] /\ recvError \subseteq Slot
  BY DEF TypeOK
<1>2. CASE BindRecvOk(s)
  <2>1. recvPosted' = [recvPosted EXCEPT ![s] = recvPosted[s] + 1] /\ recvError' = recvError
    BY <1>2 DEF BindRecvOk
  <2>2. recvPosted[s] + 1 \in Nat
    BY <1>1
  <2> QED
    BY <1>1, <2>1, <2>2
<1>3. CASE BindRecvFail(s)
  BY <1>1, <1>3 DEF BindRecvFail
<1> QED
  BY <1>2, <1>3

\* The clock preserves the types.
LEMMA TickTypes ==
    ASSUME TypeOK, JobInv, Tick PROVE TypeOK' /\ JobInv'
<1>1. now' \in 0..MaxNow
  BY SessionAssumption DEF Tick, TypeOK
<1> QED
  BY <1>1 DEF Tick, TypeOK, JobInv, kernelVars, queueVars, processVars, historyVars,
              workerVars

\* The accepter and the kernel preserve the types.
LEMMA OutsideTypes ==
    ASSUME TypeOK, JobInv, NEW s \in Slot, NEW ok \in BOOLEAN,
           \/ AccepterThread(s)
           \/ KernelAccept(s, ok) \/ KernelRecv(s, ok) \/ KernelSend(s, ok)
    PROVE  TypeOK' /\ JobInv'
<1> USE SessionAssumption
<1>2. CASE AccepterThread(s)
  <2>1. /\ mLatestClosedTimeSec' \in [Slot -> 0..Never]
        /\ mSock' \in [Slot -> {"valid", "invalid"}] /\ acceptPosted' \subseteq Slot
    <3>1. Never \in 0..Never
      BY DEF Never
    <3> QED
      BY <1>2, <3>1 DEF AccepterThread, PostAccept, PostAcceptMarking, TypeOK
  <2> QED
    BY <1>2, <2>1 DEF AccepterThread, TypeOK, JobInv, queueVars, processVars, historyVars,
                      workerVars
<1>3. ASSUME NEW op \in {"ACCEPT", "RECV", "SEND"}, Complete(op, s, ok)
      PROVE  iocp' \in Seq(Completion)
  <2>1. [op |-> op, slot |-> s, ok |-> ok] \in Completion
    BY DEF Completion
  <2> QED
    BY <1>3, <2>1, AppendProperties DEF Complete, TypeOK
<1>4. CASE KernelAccept(s, ok)
  <2>1. iocp' \in Seq(Completion)
    BY <1>3, <1>4 DEF KernelAccept
  <2> QED
    BY <1>4, <2>1 DEF KernelAccept, KernelUnchanged, TypeOK, JobInv, queueVars, processVars,
                      historyVars, workerVars, sessionVars
<1>5. CASE KernelRecv(s, ok)
  <2>1. iocp' \in Seq(Completion)
    BY <1>3, <1>5 DEF KernelRecv
  <2>2. recvPosted' \in [Slot -> Nat]
    BY <1>5 DEF KernelRecv, TypeOK
  <2>3. received' \in 0..MaxRecv
    BY <1>5 DEF KernelRecv, TypeOK
  <2> QED
    BY <1>5, <2>1, <2>2, <2>3 DEF KernelRecv, KernelUnchanged, TypeOK, JobInv, queueVars,
                      processVars, historyVars, workerVars, sessionVars
<1>6. CASE KernelSend(s, ok)
  <2>1. iocp' \in Seq(Completion)
    BY <1>3, <1>6 DEF KernelSend
  <2>2. sendPosted' \in [Slot -> Nat]
    BY <1>6 DEF KernelSend, TypeOK
  <2> QED
    BY <1>6, <2>1, <2>2 DEF KernelSend, KernelUnchanged, TypeOK, JobInv, queueVars,
                      processVars, historyVars, workerVars, sessionVars
<1> QED
  BY <1>2, <1>4, <1>5, <1>6

\* Taking a completion from the port preserves the types.
LEMMA DequeueTypes ==
    ASSUME TypeOK, JobInv, NEW w \in Worker, WorkerDequeue(w)
    PROVE  TypeOK' /\ JobInv'
<1> DEFINE c == Head(iocp)
<1>1. iocp' \in Seq(Completion) /\ c \in Completion
  BY HeadTailProperties DEF WorkerDequeue, TypeOK
<1>2. pc \in [Worker -> Place] /\ job \in [Worker -> Completion \cup {<< >>}]
  BY DEF TypeOK, Place
<1>3. fault' \in BOOLEAN
  BY DEF WorkerDequeue
<1>4. /\ pc' \in [Worker -> Place] /\ job' \in [Worker -> Completion \cup {<< >>}]
      /\ JobInv'
  <2>1. CASE c.op = "SEND" /\ c.ok
    BY <1>2, <2>1 DEF WorkerDequeue, JobInv
  <2>2. CASE ~(c.op = "SEND" /\ c.ok)
    <3>1. PICK place \in Place : pc' = [pc EXCEPT ![w] = place]
      <4>1. c.op \in {"ACCEPT", "RECV", "SEND"}
        BY <1>1 DEF Completion
      <4>2. pc' = [pc EXCEPT ![w] = CASE ~c.ok                   -> "close"
                                      [] c.ok /\ c.op = "ACCEPT" -> "accept"
                                      [] c.ok /\ c.op = "RECV"   -> "receive"]
        BY <2>2 DEF WorkerDequeue
      <4>3. CASE ~c.ok
        BY <4>2, <4>3 DEF Place
      <4>4. CASE c.ok /\ c.op = "ACCEPT"
        BY <4>2, <4>4 DEF Place
      <4>5. CASE c.ok /\ c.op = "RECV"
        BY <4>2, <4>5 DEF Place
      <4> QED
        BY <2>2, <4>1, <4>3, <4>4, <4>5
    <3>2. job' = [job EXCEPT ![w] = c]
      BY <2>2 DEF WorkerDequeue
    <3> QED
      BY <1>1, <1>2, <3>1, <3>2 DEF JobInv
  <2> QED
    BY <2>1, <2>2
<1> QED
  BY <1>1, <1>3, <1>4 DEF WorkerDequeue, TypeOK, Place, kernelVars, queueVars, processVars,
                          historyVars

\* The rest of WokerThread preserves the types.
LEMMA HandlerTypes ==
    ASSUME TypeOK, JobInv, NEW w \in Worker,
           \/ AcceptCompletion(w) \/ CountRead(w) \/ CountWrite(w) \/ OnConnect(w)
           \/ OnReceive(w) \/ BindRecv(w) \/ Close(w) \/ OnClose(w)
    PROVE  TypeOK' /\ JobInv'
<1>1. PICK place \in Place : pc[w] # "wait" /\ Goto(w, place)
  BY DEF AcceptCompletion, CountRead, CountWrite, OnConnect, OnReceive, BindRecv, Close,
         OnClose, Place
<1>2. /\ pc' \in [Worker -> Place] /\ job' \in [Worker -> Completion \cup {<< >>}]
      /\ JobInv'
  BY <1>1, GotoTypes
<1>3. job[w].slot \in Slot
  BY <1>1 DEF JobInv, Completion
<1> USE DEF kernelVars, queueVars, processVars, historyVars, sessionVars
<1>4. CASE AcceptCompletion(w) \/ BindRecv(w)
  <2>1. recvPosted' \in [Slot -> Nat] /\ recvError' \subseteq Slot
    BY <1>3, <1>4, BindTypes DEF AcceptCompletion, BindRecv
  <2> QED
    BY <1>2, <1>4, <2>1 DEF AcceptCompletion, BindRecv, TypeOK, Place
<1>5. CASE CountRead(w)
  <2>1. reg' \in [Worker -> Nat]
    BY <1>5 DEF CountRead, TypeOK
  <2> QED
    BY <1>2, <1>5, <2>1 DEF CountRead, TypeOK, Place
<1>6. CASE CountWrite(w)
  <2>1. reg' \in [Worker -> Nat] /\ mClientCnt' \in Nat
    BY <1>6 DEF CountWrite, TypeOK
  <2> QED
    BY <1>2, <1>6, <2>1 DEF CountWrite, TypeOK, Place
<1>7. CASE OnConnect(w)
  <2>1. mSystemPacketQueue' \in Seq({"CONNECT", "DISCONNECT"} \X Slot)
    BY <1>3, <1>7, AppendProperties DEF OnConnect, TypeOK
  <2>2. connects' \in [Slot -> Nat]
    <3>1. connects \in [Slot -> Nat]
      BY DEF TypeOK
    <3>2. connects' = [connects EXCEPT ![job[w].slot] = connects[job[w].slot] + 1]
      BY <1>7 DEF OnConnect
    <3>3. connects[job[w].slot] + 1 \in Nat
      BY <1>3, <3>1
    <3> QED
      BY <3>1, <3>2, <3>3
  <2> QED
    BY <1>2, <1>7, <2>1, <2>2 DEF OnConnect, TypeOK, Place
<1>8. CASE OnReceive(w)
  <2>1. mInComingPacketUserIndex' \in Seq(Slot)
    BY <1>3, <1>8, AppendProperties DEF OnReceive, TypeOK
  <2> QED
    BY <1>2, <1>8, <2>1 DEF OnReceive, TypeOK, Place
<1>9. CASE Close(w)
  <2>1. mSock' \in [Slot -> {"valid", "invalid"}] /\ closed' \subseteq Slot
    BY <1>3, <1>9 DEF Close, TypeOK
  <2> QED
    BY <1>2, <1>9, <2>1 DEF Close, TypeOK, Place
<1>10. CASE OnClose(w)
  <2>1. mSystemPacketQueue' \in Seq({"CONNECT", "DISCONNECT"} \X Slot)
    BY <1>3, <1>10, AppendProperties DEF OnClose, TypeOK
  <2>2. overtaken' \subseteq Slot
    BY <1>3, <1>10 DEF OnClose, TypeOK
  <2> QED
    BY <1>2, <1>10, <2>1, <2>2 DEF OnClose, TypeOK, Place
<1> QED
  BY <1>4, <1>5, <1>6, <1>7, <1>8, <1>9, <1>10

\* The process thread preserves the types.
LEMMA ProcessTypes ==
    ASSUME TypeOK, JobInv, ProcessPacket PROVE TypeOK' /\ JobInv'
<1> USE DEF kernelVars, queueVars, processVars, historyVars, sessionVars, workerVars
<1>1. CASE ProcessUser
  <2>0. mInComingPacketUserIndex \in Seq(Slot)
    BY DEF TypeOK
  <2>1. mInComingPacketUserIndex' \in Seq(Slot)
    <3>1. CASE mInComingPacketUserIndex = << >>
      BY <1>1, <2>0, <3>1 DEF ProcessUser
    <3>2. CASE mInComingPacketUserIndex # << >>
      BY <1>1, <2>0, <3>2, HeadTailProperties DEF ProcessUser
    <3> QED
      BY <3>1, <3>2
  <2>2. sendPosted' \in [Slot -> Nat] /\ sent' \in 0..MaxSend
    <3>1. CASE UNCHANGED <<sendPosted, sent>>
      BY <3>1 DEF TypeOK
    <3>2. CASE ~UNCHANGED <<sendPosted, sent>>
      <4>1. PICK s \in Slot : /\ sent < MaxSend /\ sent' = sent + 1
                              /\ sendPosted' = [sendPosted EXCEPT ![s] = @ + 1]
        BY <1>1, <2>0, <3>2, HeadTailProperties DEF ProcessUser
      <4> QED
        BY <4>1, SessionAssumption DEF TypeOK
    <3> QED
      BY <3>1, <3>2
  <2> QED
    BY <1>1, <2>1, <2>2 DEF ProcessUser, TypeOK, JobInv
<1>2. CASE ProcessSystem
  <2>1. CASE mSystemPacketQueue = << >>
    BY <1>2, <2>1 DEF ProcessSystem, TypeOK, JobInv
  <2>2. CASE mSystemPacketQueue # << >>
    <3>1. mSystemPacketQueue' = Tail(mSystemPacketQueue)
      BY <1>2, <2>2 DEF ProcessSystem
    <3>2. mSystemPacketQueue \in Seq({"CONNECT", "DISCONNECT"} \X Slot)
      BY DEF TypeOK
    <3>3. /\ mSystemPacketQueue' \in Seq({"CONNECT", "DISCONNECT"} \X Slot)
          /\ Head(mSystemPacketQueue) \in {"CONNECT", "DISCONNECT"} \X Slot
      BY <2>2, <3>1, <3>2, HeadTailProperties
    <3>4. PICK kind \in {"CONNECT", "DISCONNECT"}, s \in Slot :
              user' = [user EXCEPT ![s] = SystemPacket(kind, s)]
      BY <1>2, <2>2, <3>3 DEF ProcessSystem
    <3>5. SystemPacket(kind, s) \in {"None", "Up", "Cleared"}
      BY DEF SystemPacket, TypeOK
    <3>6. user' \in [Slot -> {"None", "Up", "Cleared"}]
      BY <3>4, <3>5 DEF TypeOK
    <3> QED
      BY <1>2, <3>3, <3>6 DEF ProcessSystem, TypeOK, JobInv
  <2> QED
    BY <2>1, <2>2
<1> QED
  BY <1>1, <1>2 DEF ProcessPacket

\* Every step of the sessions preserves the types.
LEMMA TypeStep ==
    ASSUME TypeOK, JobInv, [Next]_vars PROVE TypeOK' /\ JobInv'
<1>1. CASE UNCHANGED vars
  BY <1>1 DEF vars, kernelVars, queueVars, processVars, historyVars, sessionVars, workerVars,
              TypeOK, JobInv
<1>2. CASE Tick
  BY <1>2, TickTypes
<1>3. ASSUME NEW s \in Slot, NEW ok \in BOOLEAN,
             \/ AccepterThread(s)
             \/ KernelAccept(s, ok) \/ KernelRecv(s, ok) \/ KernelSend(s, ok)
      PROVE  TypeOK' /\ JobInv'
  BY <1>3, OutsideTypes
<1>4. ASSUME NEW w \in Worker, WokerThread(w) PROVE TypeOK' /\ JobInv'
  BY <1>4, DequeueTypes, HandlerTypes DEF WokerThread
<1> QED
  BY <1>1, <1>2, <1>3, <1>4, ProcessTypes DEF Next, Crashed

----------------------------------------------------------------------------
(* The token of a slot.                                                    *)

\* What is counted is a number, before a step and after it.
LEMMA Numbers ==
    ASSUME TypeOK, TypeOK', NEW s \in Slot
    PROVE  /\ Q("ACCEPT", s) \in Nat /\ Q("ACCEPT", s)' \in Nat
           /\ Q("RECV", s) \in Nat /\ Q("RECV", s)' \in Nat
           /\ Q("SEND", s) \in Nat /\ Q("SEND", s)' \in Nat
           /\ B(s, Accepting) \in Nat /\ B(s, Accepting)' \in Nat
           /\ B(s, Receiving) \in Nat /\ B(s, Receiving)' \in Nat
           /\ B(s, Counting) \in Nat /\ B(s, Counting)' \in Nat
           /\ B(s, Closing) \in Nat /\ B(s, Closing)' \in Nat
           /\ B(s, {"close"}) \in Nat /\ B(s, {"close"})' \in Nat
           /\ connects[s] \in Nat /\ connects[s]' \in Nat
           /\ recvPosted[s] \in Nat /\ recvPosted[s]' \in Nat
           /\ sendPosted[s] \in Nat /\ sendPosted[s]' \in Nat
<1>1. iocp \in Seq(Completion) /\ iocp' \in Seq(Completion)
  BY DEF TypeOK
<1>2. ASSUME NEW op PROVE Q(op, s) \in Nat /\ Q(op, s)' \in Nat
  <2>1. Cardinality(At(iocp, op, s)) \in Nat /\ Cardinality(At(iocp', op, s)) \in Nat
    BY <1>1, AtFinite
  <2> QED
    BY <2>1 DEF Q, Queued, At
<1>3. ASSUME NEW places PROVE B(s, places) \in Nat /\ B(s, places)' \in Nat
  <2>1. /\ Cardinality(Working(pc, job, s, places)) \in Nat
        /\ Cardinality(Working(pc', job', s, places)) \in Nat
    BY WorkingFinite
  <2> QED
    BY <2>1 DEF B, Busy, Working
<1>4. connects \in [Slot -> Nat] /\ recvPosted \in [Slot -> Nat] /\ sendPosted \in [Slot -> Nat]
  BY DEF TypeOK
<1>5. /\ connects' \in [Slot -> Nat] /\ recvPosted' \in [Slot -> Nat]
      /\ sendPosted' \in [Slot -> Nat]
  BY DEF TypeOK
<1>6. /\ Accepting' = Accepting /\ Receiving' = Receiving /\ Counting' = Counting
      /\ Closing' = Closing
  BY DEF Accepting, Receiving, Counting, Closing
<1> QED
  BY <1>2, <1>3, <1>4, <1>5, <1>6

\* The receives of a session, by the counts.
LEMMA ReceiversSum ==
    ASSUME NEW s
    PROVE  /\ Receivers(s) = recvPosted[s] + Q("RECV", s) + B(s, Receiving)
           /\ Receivers(s)' = recvPosted[s]' + Q("RECV", s)' + B(s, Receiving)'
BY DEF Receivers, Q, B, Receiving

\* A port left alone holds what it held.
LEMMA PortSame ==
    ASSUME iocp' = iocp, NEW op, NEW s PROVE Q(op, s)' = Q(op, s)
BY DEF Q, Queued

\* A completion the kernel produces.
LEMMA PortAppend ==
    ASSUME TypeOK, NEW o \in {"ACCEPT", "RECV", "SEND"}, NEW r \in Slot, NEW ok \in BOOLEAN,
           Complete(o, r, ok), NEW op, NEW s
    PROVE  Q(op, s)' = Q(op, s) + (IF o = op /\ r = s THEN 1 ELSE 0)
<1> DEFINE c == [op |-> o, slot |-> r, ok |-> ok]
<1>1. c \in Completion /\ c.op = o /\ c.slot = r
  BY DEF Completion
<1>2. iocp \in Seq(Completion) /\ iocp' = Append(iocp, c)
  BY DEF TypeOK, Complete
<1>3. Cardinality(At(Append(iocp, c), op, s)) = Cardinality(At(iocp, op, s)) + Match(c, op, s)
  BY <1>1, <1>2, AppendCount
<1> QED
  BY <1>1, <1>2, <1>3 DEF Q, Queued, At, Match

\* The completion a worker takes.
LEMMA PortTail ==
    ASSUME TypeOK, iocp # << >>, iocp' = Tail(iocp), NEW op, NEW s
    PROVE  Q(op, s)' = Q(op, s) - Match(Head(iocp), op, s)
<1>1. iocp \in Seq(Completion)
  BY DEF TypeOK
<1>2. Cardinality(At(Tail(iocp), op, s)) = Cardinality(At(iocp, op, s)) - Match(Head(iocp), op, s)
  BY <1>1, TailCount
<1> QED
  BY <1>2 DEF Q, Queued, At

\* Workers left alone are where they were.
LEMMA WorkersSame ==
    ASSUME UNCHANGED <<pc, job>>, NEW s, NEW places PROVE B(s, places)' = B(s, places)
BY DEF B, Busy

\* A worker with a completion of slot r goes from one place to another.
LEMMA WorkerGoes ==
    ASSUME TypeOK, NEW w \in Worker, NEW place \in Place, Goto(w, place),
           NEW s, NEW places, "wait" \notin places
    PROVE  B(s, places)' = B(s, places)
               - (IF pc[w] \in places /\ job[w].slot = s THEN 1 ELSE 0)
               + (IF place \in places /\ job[w].slot = s THEN 1 ELSE 0)
<1>1. /\ pc' = [pc EXCEPT ![w] = place] /\ pc \in [Worker -> Place]
      /\ \A v \in Worker \ {w} : job'[v] = job[v]
      /\ place # "wait" => job'[w] = job[w]
  BY DEF Goto, TypeOK, Place
<1>2. /\ \A v \in Worker \ {w} : pc'[v] = pc[v] /\ job'[v] = job[v]
      /\ pc'[w] = place
  BY <1>1
<1>3. Cardinality(Working(pc', job', s, places)) = Cardinality(Working(pc, job, s, places))
          - Works(pc, job, w, s, places) + Works(pc', job', w, s, places)
  BY <1>2, MoveCount
<1>4. Works(pc', job', w, s, places) =
          IF place \in places /\ job[w].slot = s THEN 1 ELSE 0
  BY <1>1, <1>2 DEF Works
<1> QED
  BY <1>3, <1>4 DEF B, Busy, Working, Works

\* The accepter takes a slot that was never used.
LEMMA AccepterSlots ==
    ASSUME IInv, TypeOK', NEW r \in Slot, AccepterThread(r), NEW s \in Slot
    PROVE  SlotInv(s)'
<1>0. TypeOK
  BY DEF IInv
<1>1. /\ \A op : Q(op, s)' = Q(op, s)
      /\ \A places : B(s, places)' = B(s, places)
      /\ Receivers(s)' = Receivers(s)
  BY PortSame, WorkersSame, ReceiversSum DEF AccepterThread, workerVars
<1>2. UNCHANGED <<connects, closed, recvError, sendPosted>>
  BY DEF AccepterThread, historyVars
<1>3. SlotInv(s)
  BY DEF IInv
<1>4. CASE s = r
  <2>1. mLatestClosedTimeSec[s] # Never
    BY <1>4, SessionAssumption DEF AccepterThread, IInv, TypeOK, Never
  <2>2. mLatestClosedTimeSec'[s] = Never
    BY <1>4 DEF AccepterThread, PostAccept, PostAcceptMarking, IInv, TypeOK
  <2>3. Posted(s)' \in 0..1
    BY DEF Posted
  <2>4. /\ Posted(s) + Q("ACCEPT", s) + B(s, Accepting) + Receivers(s) = 0
        /\ connects[s] = 0 /\ s \notin closed
        /\ sendPosted[s] = 0 /\ Q("SEND", s) = 0 /\ B(s, Closing) = 0
    BY <1>3, <2>1 DEF SlotInv, Unused, Quiet
  <2>5. Posted(s) = 0 /\ Q("ACCEPT", s) = 0 /\ B(s, Accepting) = 0 /\ Receivers(s) = 0
    <3>1. Receivers(s) \in Nat /\ Q("ACCEPT", s) \in Nat /\ B(s, Accepting) \in Nat
      BY <1>0, Numbers, ReceiversSum
    <3>2. Posted(s) \in Nat
      BY DEF Posted
    <3> QED
      BY <2>4, <3>1, <3>2
  <2>6. AcceptOnce(s)' /\ RecvOnce(s)' /\ Unused(s)' /\ Quiet(s)'
    BY <1>1, <1>2, <2>2, <2>3, <2>4, <2>5 DEF AcceptOnce, RecvOnce, Unused, Quiet
  <2>7. Listening(s)'
    BY <1>1, <1>2, <1>3 DEF SlotInv, Listening
  <2> QED
    BY <2>6, <2>7 DEF SlotInv
<1>5. CASE s # r
  <2>1. /\ mLatestClosedTimeSec'[s] = mLatestClosedTimeSec[s]
        /\ s \in acceptPosted' <=> s \in acceptPosted
    BY <1>5 DEF AccepterThread, PostAccept, PostAcceptMarking, IInv, TypeOK
  <2> QED
    BY <1>1, <1>2, <1>3, <2>1 DEF SlotInv, AcceptOnce, RecvOnce, Unused, Quiet, Listening, Posted
<1> QED
  BY <1>4, <1>5

\* The kernel turns what it holds into a completion.
LEMMA KernelSlots ==
    ASSUME IInv, TypeOK', NEW r \in Slot, NEW ok \in BOOLEAN,
           KernelAccept(r, ok) \/ KernelRecv(r, ok) \/ KernelSend(r, ok), NEW s \in Slot
    PROVE  SlotInv(s)'
<1>1. \A places : B(s, places)' = B(s, places)
  BY WorkersSame DEF KernelAccept, KernelRecv, KernelSend, KernelUnchanged, workerVars
<1>2. UNCHANGED <<connects, closed, recvError, mLatestClosedTimeSec>>
  BY DEF KernelAccept, KernelRecv, KernelSend, KernelUnchanged, historyVars, sessionVars
<1>3. SlotInv(s) /\ TypeOK
  BY DEF IInv
<1>4. CASE KernelAccept(r, ok)
  <2>1. /\ Q("ACCEPT", s)' = Q("ACCEPT", s) + (IF r = s THEN 1 ELSE 0)
        /\ Q("RECV", s)' = Q("RECV", s) /\ Q("SEND", s)' = Q("SEND", s)
    <3>1. Complete("ACCEPT", r, ok)
      BY <1>4 DEF KernelAccept
    <3>2. ASSUME NEW op PROVE Q(op, s)' = Q(op, s) + (IF "ACCEPT" = op /\ r = s THEN 1 ELSE 0)
      BY <1>3, <3>1, PortAppend
    <3> QED
      BY <1>3, <3>2, Numbers
  <2>2. /\ Posted(s)' = Posted(s) - (IF r = s THEN 1 ELSE 0)
        /\ s \in acceptPosted' => s \in acceptPosted
    BY <1>4 DEF KernelAccept, Posted
  <2>3. UNCHANGED <<recvPosted, sendPosted>>
    BY <1>4 DEF KernelAccept
  <2> QED
    BY <1>1, <1>2, <1>3, <2>1, <2>2, <2>3, Numbers, ReceiversSum
       DEF SlotInv, AcceptOnce, RecvOnce, Unused, Quiet, Listening, Posted
<1>5. CASE KernelRecv(r, ok)
  <2>1. /\ Q("RECV", s)' = Q("RECV", s) + (IF r = s THEN 1 ELSE 0)
        /\ Q("ACCEPT", s)' = Q("ACCEPT", s) /\ Q("SEND", s)' = Q("SEND", s)
    <3>1. Complete("RECV", r, ok)
      BY <1>5 DEF KernelRecv
    <3>2. ASSUME NEW op PROVE Q(op, s)' = Q(op, s) + (IF "RECV" = op /\ r = s THEN 1 ELSE 0)
      BY <1>3, <3>1, PortAppend
    <3> QED
      BY <1>3, <3>2, Numbers
  <2>2. recvPosted[s]' = recvPosted[s] - (IF r = s THEN 1 ELSE 0)
    <3>1. recvPosted \in [Slot -> Nat] /\ recvPosted' = [recvPosted EXCEPT ![r] = recvPosted[r] - 1]
      BY <1>3, <1>5 DEF KernelRecv, TypeOK
    <3> QED
      BY <3>1
  <2>3. UNCHANGED <<acceptPosted, sendPosted>>
    BY <1>5 DEF KernelRecv
  <2> QED
    BY <1>1, <1>2, <1>3, <2>1, <2>2, <2>3, Numbers, ReceiversSum
       DEF SlotInv, AcceptOnce, RecvOnce, Unused, Quiet, Listening, Posted
<1>6. CASE KernelSend(r, ok)
  <2>1. /\ Q("SEND", s)' = Q("SEND", s) + (IF r = s THEN 1 ELSE 0)
        /\ Q("ACCEPT", s)' = Q("ACCEPT", s) /\ Q("RECV", s)' = Q("RECV", s)
    <3>1. Complete("SEND", r, ok)
      BY <1>6 DEF KernelSend
    <3>2. ASSUME NEW op PROVE Q(op, s)' = Q(op, s) + (IF "SEND" = op /\ r = s THEN 1 ELSE 0)
      BY <1>3, <3>1, PortAppend
    <3> QED
      BY <1>3, <3>2, Numbers
  <2>2. sendPosted[s]' = sendPosted[s] - (IF r = s THEN 1 ELSE 0)
    <3>1. sendPosted \in [Slot -> Nat] /\ sendPosted' = [sendPosted EXCEPT ![r] = sendPosted[r] - 1]
      BY <1>3, <1>6 DEF KernelSend, TypeOK
    <3> QED
      BY <3>1
  <2>3. UNCHANGED <<acceptPosted, recvPosted>>
    BY <1>6 DEF KernelSend
  <2> QED
    BY <1>1, <1>2, <1>3, <2>1, <2>2, <2>3, Numbers, ReceiversSum
       DEF SlotInv, AcceptOnce, RecvOnce, Unused, Quiet, Listening, Posted
<1> QED
  BY <1>4, <1>5, <1>6

\* A worker takes a completion: what the port had, the worker has.
LEMMA DequeueSlots ==
    ASSUME IInv, TypeOK', NEW w \in Worker, WorkerDequeue(w), NEW s \in Slot
    PROVE  SlotInv(s)'
<1> DEFINE c == Head(iocp)
<1>0. TypeOK /\ SlotInv(s)
  BY DEF IInv
<1>1. /\ c \in Completion /\ c.op \in {"ACCEPT", "RECV", "SEND"} /\ c.ok \in BOOLEAN
      /\ iocp # << >> /\ iocp' = Tail(iocp) /\ pc[w] = "wait"
  <2>1. iocp \in Seq(Completion) /\ iocp # << >> /\ iocp' = Tail(iocp) /\ pc[w] = "wait"
    BY <1>0 DEF WorkerDequeue, TypeOK
  <2>2. c \in Completion
    BY <2>1, HeadTailProperties
  <2> QED
    BY <2>1, <2>2 DEF Completion
<1>2. ASSUME NEW op PROVE Q(op, s)' = Q(op, s) - Match(c, op, s)
  BY <1>0, <1>1, PortTail
<1>3. UNCHANGED <<connects, closed, recvError, mLatestClosedTimeSec, acceptPosted,
                  recvPosted, sendPosted>>
  BY DEF WorkerDequeue, kernelVars, historyVars
<1>4. CASE c.op = "SEND" /\ c.ok
  <2>1. \A places : B(s, places)' = B(s, places)
    BY <1>4, WorkersSame DEF WorkerDequeue
  <2>2. /\ Q("ACCEPT", s)' = Q("ACCEPT", s) /\ Q("RECV", s)' = Q("RECV", s)
        /\ Q("SEND", s)' <= Q("SEND", s)
    BY <1>0, <1>2, <1>4, Numbers DEF Match
  <2> QED
    BY <1>0, <1>3, <2>1, <2>2, Numbers, ReceiversSum
       DEF SlotInv, AcceptOnce, RecvOnce, Unused, Quiet, Listening, Posted
<1>5. CASE ~(c.op = "SEND" /\ c.ok)
  <2> DEFINE place == CASE ~c.ok                   -> "close"
                        [] c.ok /\ c.op = "ACCEPT" -> "accept"
                        [] c.ok /\ c.op = "RECV"   -> "receive"
  <2>1. pc' = [pc EXCEPT ![w] = place] /\ job' = [job EXCEPT ![w] = c]
    BY <1>5 DEF WorkerDequeue
  <2>2. /\ ~c.ok => place = "close"
        /\ c.ok /\ c.op = "ACCEPT" => place = "accept"
        /\ c.ok /\ c.op = "RECV" => place = "receive"
    OBVIOUS
  <2> HIDE DEF place
  <2>3. /\ pc'[w] = place /\ job'[w] = c
        /\ \A v \in Worker \ {w} : pc'[v] = pc[v] /\ job'[v] = job[v]
    BY <1>0, <2>1 DEF TypeOK
  <2>4. ASSUME NEW places, "wait" \notin places
        PROVE  B(s, places)' = B(s, places)
                   + (IF place \in places /\ c.slot = s THEN 1 ELSE 0)
    <3>1. Cardinality(Working(pc', job', s, places)) = Cardinality(Working(pc, job, s, places))
              - Works(pc, job, w, s, places) + Works(pc', job', w, s, places)
      BY <2>3, MoveCount
    <3>2. Works(pc, job, w, s, places) = 0
      BY <1>1, <2>4 DEF Works
    <3>3. Works(pc', job', w, s, places) = IF place \in places /\ c.slot = s THEN 1 ELSE 0
      BY <2>3 DEF Works
    <3>4. Cardinality(Working(pc, job, s, places)) \in Nat
      BY WorkingFinite
    <3> QED
      BY <3>1, <3>2, <3>3, <3>4 DEF B, Busy, Working
  <2>5. CASE c.slot # s
    <3>1. /\ Q("ACCEPT", s)' = Q("ACCEPT", s) /\ Q("RECV", s)' = Q("RECV", s)
          /\ Q("SEND", s)' = Q("SEND", s)
      BY <1>0, <1>2, <2>5, Numbers DEF Match
    <3>2. /\ B(s, Accepting)' = B(s, Accepting) /\ B(s, Receiving)' = B(s, Receiving)
          /\ B(s, Counting)' = B(s, Counting) /\ B(s, Closing)' = B(s, Closing)
          /\ B(s, {"close"})' = B(s, {"close"})
      BY <1>0, <2>4, <2>5, Numbers DEF Accepting, Receiving, Counting, Closing
    <3> QED
      BY <1>0, <1>3, <3>1, <3>2, ReceiversSum
         DEF SlotInv, AcceptOnce, RecvOnce, Unused, Quiet, Listening, Posted
  <2>6. CASE c.slot = s /\ ~c.ok
    <3>1. /\ Q("ACCEPT", s)' = Q("ACCEPT", s) - (IF c.op = "ACCEPT" THEN 1 ELSE 0)
          /\ Q("RECV", s)' = Q("RECV", s) - (IF c.op = "RECV" THEN 1 ELSE 0)
          /\ Q("SEND", s)' = Q("SEND", s) - (IF c.op = "SEND" THEN 1 ELSE 0)
      BY <1>2, <2>6 DEF Match
    <3>2. /\ B(s, Accepting)' = B(s, Accepting) /\ B(s, Receiving)' = B(s, Receiving)
          /\ B(s, Counting)' = B(s, Counting)
          /\ B(s, {"close"})' = B(s, {"close"}) + 1
      BY <1>0, <2>2, <2>4, <2>6, Numbers DEF Accepting, Receiving, Counting
    <3>3. mLatestClosedTimeSec[s] = Never /\ s \notin acceptPosted
      <4>1. Q("ACCEPT", s) + Receivers(s) > 0 \/ Q("SEND", s) > 0
        <5>1. CASE c.op = "ACCEPT"
          BY <1>0, <3>1, <5>1, Numbers, ReceiversSum
        <5>2. CASE c.op = "RECV"
          BY <1>0, <3>1, <5>2, Numbers, ReceiversSum
        <5>3. CASE c.op = "SEND"
          BY <1>0, <3>1, <5>3, Numbers
        <5> QED
          BY <1>1, <5>1, <5>2, <5>3
      <4>2. Posted(s) = 0 \/ Q("SEND", s) > 0
        <5>1. /\ Posted(s) \in {0, 1} /\ Q("ACCEPT", s) \in Nat /\ Receivers(s) \in Nat
              /\ Q("SEND", s) \in Nat
          BY <1>0, Numbers, ReceiversSum DEF Posted
        <5>2. Posted(s) + Q("ACCEPT", s) + Receivers(s) <= 1
          BY <1>0 DEF SlotInv, RecvOnce
        <5> QED
          BY <4>1, <5>1, <5>2
      <4>3. mLatestClosedTimeSec[s] = Never
        BY <1>0, <4>1, Numbers, ReceiversSum DEF SlotInv, Unused, Quiet, Posted
      <4> QED
        BY <1>0, <4>2, <4>3 DEF SlotInv, Quiet, Posted
    <3> QED
      BY <1>0, <1>3, <3>1, <3>2, <3>3, Numbers, ReceiversSum
         DEF SlotInv, AcceptOnce, RecvOnce, Unused, Quiet, Listening, Posted
  <2>7. CASE c.slot = s /\ c.ok /\ c.op = "ACCEPT"
    <3>1. /\ Q("ACCEPT", s)' = Q("ACCEPT", s) - 1
          /\ Q("RECV", s)' = Q("RECV", s) /\ Q("SEND", s)' = Q("SEND", s)
      BY <1>0, <1>2, <2>7, Numbers DEF Match
    <3>2. /\ B(s, Accepting)' = B(s, Accepting) + 1 /\ B(s, Receiving)' = B(s, Receiving) + 1
          /\ B(s, Counting)' = B(s, Counting) /\ B(s, Closing)' = B(s, Closing)
          /\ B(s, {"close"})' = B(s, {"close"})
      BY <1>0, <2>2, <2>4, <2>7, Numbers DEF Accepting, Receiving, Counting, Closing
    <3> QED
      BY <1>0, <1>3, <3>1, <3>2, Numbers, ReceiversSum
         DEF SlotInv, AcceptOnce, RecvOnce, Unused, Quiet, Listening, Posted
  <2>8. CASE c.slot = s /\ c.ok /\ c.op = "RECV"
    <3>1. /\ Q("RECV", s)' = Q("RECV", s) - 1
          /\ Q("ACCEPT", s)' = Q("ACCEPT", s) /\ Q("SEND", s)' = Q("SEND", s)
      BY <1>0, <1>2, <2>8, Numbers DEF Match
    <3>2. /\ B(s, Accepting)' = B(s, Accepting) /\ B(s, Receiving)' = B(s, Receiving) + 1
          /\ B(s, Counting)' = B(s, Counting) /\ B(s, Closing)' = B(s, Closing)
          /\ B(s, {"close"})' = B(s, {"close"})
      BY <1>0, <2>2, <2>4, <2>8, Numbers DEF Accepting, Receiving, Counting, Closing
    <3> QED
      BY <1>0, <1>3, <3>1, <3>2, Numbers, ReceiversSum
         DEF SlotInv, AcceptOnce, RecvOnce, Unused, Quiet, Listening, Posted
  <2> QED
    BY <1>1, <1>5, <2>5, <2>6, <2>7, <2>8
<1> QED
  BY <1>4, <1>5

\* What the step of a worker from one place to another adds to a count.
Change(places, from, to) ==
    (IF to \in places THEN 1 ELSE 0) - (IF from \in places THEN 1 ELSE 0)

\* The step of a worker between two places, as the counts of a slot see it.
LEMMA HandlerCounts ==
    ASSUME TypeOK, TypeOK', NEW w \in Worker, NEW from \in Place, NEW to \in Place,
           pc[w] = from, Goto(w, to), NEW s \in Slot
    PROVE  /\ job[w].slot # s =>
               /\ B(s, Accepting)' = B(s, Accepting) /\ B(s, Receiving)' = B(s, Receiving)
               /\ B(s, Counting)' = B(s, Counting) /\ B(s, Closing)' = B(s, Closing)
               /\ B(s, {"close"})' = B(s, {"close"})
           /\ job[w].slot = s =>
               /\ B(s, Accepting)' = B(s, Accepting) + Change(Accepting, from, to)
               /\ B(s, Receiving)' = B(s, Receiving) + Change(Receiving, from, to)
               /\ B(s, Counting)' = B(s, Counting) + Change(Counting, from, to)
               /\ B(s, Closing)' = B(s, Closing) + Change(Closing, from, to)
               /\ B(s, {"close"})' = B(s, {"close"}) + Change({"close"}, from, to)
<1>1. ASSUME NEW places, "wait" \notin places, B(s, places) \in Nat
      PROVE  /\ job[w].slot # s => B(s, places)' = B(s, places)
             /\ job[w].slot = s => B(s, places)' = B(s, places) + Change(places, from, to)
  <2>1. B(s, places)' = B(s, places)
               - (IF pc[w] \in places /\ job[w].slot = s THEN 1 ELSE 0)
               + (IF to \in places /\ job[w].slot = s THEN 1 ELSE 0)
    BY <1>1, WorkerGoes
  <2> QED
    BY <1>1, <2>1 DEF Change
<1>2. /\ "wait" \notin Accepting /\ "wait" \notin Receiving /\ "wait" \notin Counting
      /\ "wait" \notin Closing /\ "wait" \notin {"close"}
  BY DEF Accepting, Receiving, Counting, Closing
<1>3. /\ B(s, Accepting) \in Nat /\ B(s, Receiving) \in Nat /\ B(s, Counting) \in Nat
      /\ B(s, Closing) \in Nat /\ B(s, {"close"}) \in Nat
  BY Numbers
<1>4. /\ Accepting' = Accepting /\ Receiving' = Receiving /\ Counting' = Counting
      /\ Closing' = Closing
  BY DEF Accepting, Receiving, Counting, Closing
<1> QED
  BY <1>1, <1>2, <1>3, <1>4

\* Nothing of a slot changes when a worker handles another one.
LEMMA OtherSlot ==
    ASSUME TypeOK, TypeOK', NEW w \in Worker, NEW from \in Place, NEW to \in Place,
           pc[w] = from, Goto(w, to), NEW s \in Slot, job[w].slot # s, SlotInv(s),
           UNCHANGED <<iocp, acceptPosted, sendPosted, mLatestClosedTimeSec>>,
           UNCHANGED <<recvPosted[s], connects[s]>>,
           s \in closed' <=> s \in closed, s \in recvError' <=> s \in recvError
    PROVE  SlotInv(s)'
<1>1. /\ B(s, Accepting)' = B(s, Accepting) /\ B(s, Receiving)' = B(s, Receiving)
      /\ B(s, Counting)' = B(s, Counting) /\ B(s, Closing)' = B(s, Closing)
      /\ B(s, {"close"})' = B(s, {"close"})
  BY HandlerCounts
<1>2. \A op : Q(op, s)' = Q(op, s)
  BY PortSame
<1> QED
  BY <1>1, <1>2, ReceiversSum
     DEF SlotInv, AcceptOnce, RecvOnce, Unused, Quiet, Listening, Posted

\* AcceptCompletion and BindRecv: the worker's turn becomes the posted receive.
LEMMA BindSlots ==
    ASSUME IInv, TypeOK', NEW w \in Worker, AcceptCompletion(w) \/ BindRecv(w),
           NEW s \in Slot
    PROVE  SlotInv(s)'
<1> DEFINE r == job[w].slot
<1>0. TypeOK /\ SlotInv(s) /\ recvPosted \in [Slot -> Nat]
  BY DEF IInv, TypeOK
<1>1. UNCHANGED <<iocp, acceptPosted, sendPosted, mLatestClosedTimeSec, connects, closed>>
  BY DEF AcceptCompletion, BindRecv, sessionVars
<1>2. Q("ACCEPT", s)' = Q("ACCEPT", s) /\ Q("RECV", s)' = Q("RECV", s) /\ Q("SEND", s)' = Q("SEND", s)
  BY <1>1, PortSame
<1>3. PICK from \in {"accept", "bindrecv"}, to \in {"countRead", "close", "wait"} :
          /\ pc[w] = from /\ Goto(w, to)
          /\ from = "accept" => \/ BindRecvOk(r) /\ to = "countRead"
                                \/ BindRecvFail(r) /\ to = "close"
          /\ from = "bindrecv" => (BindRecvOk(r) \/ BindRecvFail(r)) /\ to = "wait"
  BY DEF AcceptCompletion, BindRecv
<1>4. from \in Place /\ to \in Place
  BY <1>3 DEF Place
<1>5. CASE r # s
  <2>1. /\ UNCHANGED <<recvPosted[s], connects[s]>>
        /\ s \in recvError' <=> s \in recvError
    BY <1>0, <1>1, <1>3, <1>5 DEF BindRecvOk, BindRecvFail
  <2> QED
    BY <1>0, <1>1, <1>3, <1>4, <1>5, <2>1, OtherSlot
<1>6. CASE r = s
  <2>1. /\ B(s, Receiving)' = B(s, Receiving) - 1
        /\ B(s, Accepting)' = B(s, Accepting) - (IF from = "accept" /\ to = "close" THEN 1 ELSE 0)
        /\ B(s, Counting)' = B(s, Counting) + (IF to = "countRead" THEN 1 ELSE 0)
        /\ B(s, Closing)' = B(s, Closing) + (IF to = "close" THEN 1 ELSE 0)
        /\ B(s, {"close"})' = B(s, {"close"}) + (IF to = "close" THEN 1 ELSE 0)
    <3>1. /\ B(s, Accepting)' = B(s, Accepting) + Change(Accepting, from, to)
          /\ B(s, Receiving)' = B(s, Receiving) + Change(Receiving, from, to)
          /\ B(s, Counting)' = B(s, Counting) + Change(Counting, from, to)
          /\ B(s, Closing)' = B(s, Closing) + Change(Closing, from, to)
          /\ B(s, {"close"})' = B(s, {"close"}) + Change({"close"}, from, to)
      BY <1>0, <1>3, <1>4, <1>6, HandlerCounts
    <3>2. from = "bindrecv" => to = "wait"
      BY <1>3
    <3>3. from = "accept" => to # "wait"
      BY <1>3
    <3> QED
      BY <1>0, <3>1, <3>2, <3>3, Numbers DEF Accepting, Receiving, Counting, Closing, Change
  <2>2. mLatestClosedTimeSec[s] = Never /\ s \notin acceptPosted /\ Receivers(s) = 1
    BY <1>0, <2>1, Numbers, ReceiversSum DEF SlotInv, RecvOnce, Unused, Posted
  <2>5. AcceptOnce(s)' /\ Unused(s)' /\ Quiet(s)'
    <3>1. B(s, Accepting)' <= B(s, Accepting)
      BY <1>0, <2>1, Numbers
    <3>2. mLatestClosedTimeSec'[s] = Never /\ s \notin acceptPosted'
      BY <1>1, <2>2
    <3>3. Posted(s) = 0 /\ Posted(s)' = 0
      BY <2>2, <3>2 DEF Posted
    <3>4. AcceptOnce(s)'
      BY <1>0, <1>1, <1>2, <3>1, <3>3, Numbers DEF SlotInv, AcceptOnce
    <3> QED
      BY <3>2, <3>4 DEF Unused, Quiet
  <2>3. CASE BindRecvOk(r) /\ to # "close"
    <3>1. recvPosted[s]' = recvPosted[s] + 1 /\ recvError' = recvError
      BY <1>0, <1>6, <2>3 DEF BindRecvOk
    <3>2. Receivers(s)' = 1
      BY <1>0, <1>2, <2>1, <2>2, <3>1, Numbers, ReceiversSum
    <3>3. RecvOnce(s)' /\ Listening(s)'
      BY <1>0, <1>1, <1>2, <2>2, <3>2 DEF SlotInv, RecvOnce, Listening, Posted
    <3> QED
      BY <2>5, <3>3 DEF SlotInv
  <2>4. CASE BindRecvFail(r)
    <3>1. recvPosted' = recvPosted /\ s \in recvError'
      BY <1>6, <2>4 DEF BindRecvFail
    <3>2. Receivers(s)' = 0
      BY <1>0, <1>2, <2>1, <2>2, <3>1, Numbers, ReceiversSum
    <3>3. RecvOnce(s)' /\ Listening(s)'
      BY <1>0, <1>1, <1>2, <2>2, <3>1, <3>2, Numbers DEF SlotInv, RecvOnce, Listening, Posted
    <3> QED
      BY <2>5, <3>3 DEF SlotInv
  <2> QED
    BY <1>3, <2>3, <2>4
<1> QED
  BY <1>5, <1>6

\* CountRead, CountWrite and OnReceive leave the token where it is.
LEMMA PassSlots ==
    ASSUME IInv, TypeOK', NEW w \in Worker, CountRead(w) \/ CountWrite(w) \/ OnReceive(w),
           NEW s \in Slot
    PROVE  SlotInv(s)'
<1>0. TypeOK /\ SlotInv(s)
  BY DEF IInv
<1>1. UNCHANGED <<iocp, acceptPosted, sendPosted, recvPosted, mLatestClosedTimeSec,
                  connects, closed, recvError>>
  BY DEF CountRead, CountWrite, OnReceive, kernelVars, historyVars, sessionVars
<1>2. Q("ACCEPT", s)' = Q("ACCEPT", s) /\ Q("RECV", s)' = Q("RECV", s) /\ Q("SEND", s)' = Q("SEND", s)
  BY <1>1, PortSame
<1>3. PICK from \in Place, to \in Place :
          /\ pc[w] = from /\ Goto(w, to)
          /\ \/ from \in Counting /\ to \in Counting
             \/ from = "receive" /\ to = "bindrecv"
  BY DEF CountRead, CountWrite, OnReceive, Place, Counting
<1>4. /\ Change(Accepting, from, to) = 0 /\ Change(Receiving, from, to) = 0
      /\ Change(Counting, from, to) = 0 /\ Change(Closing, from, to) = 0
      /\ Change({"close"}, from, to) = 0
  BY <1>3 DEF Change, Accepting, Receiving, Counting, Closing
<1>5. /\ B(s, Accepting)' = B(s, Accepting) /\ B(s, Receiving)' = B(s, Receiving)
      /\ B(s, Counting)' = B(s, Counting) /\ B(s, Closing)' = B(s, Closing)
      /\ B(s, {"close"})' = B(s, {"close"})
  BY <1>0, <1>3, <1>4, HandlerCounts, Numbers
<1> QED
  BY <1>0, <1>1, <1>2, <1>5, ReceiversSum
     DEF SlotInv, AcceptOnce, RecvOnce, Unused, Quiet, Listening, Posted

\* OnConnect: the worker's turn becomes the connect packet.
LEMMA ConnectSlots ==
    ASSUME IInv, TypeOK', NEW w \in Worker, OnConnect(w), NEW s \in Slot
    PROVE  SlotInv(s)'
<1> DEFINE r == job[w].slot
<1>0. TypeOK /\ SlotInv(s) /\ connects \in [Slot -> Nat]
  BY DEF IInv, TypeOK
<1>1. UNCHANGED <<iocp, acceptPosted, sendPosted, recvPosted, mLatestClosedTimeSec,
                  closed, recvError>>
  BY DEF OnConnect, kernelVars, sessionVars
<1>2. Q("ACCEPT", s)' = Q("ACCEPT", s) /\ Q("RECV", s)' = Q("RECV", s) /\ Q("SEND", s)' = Q("SEND", s)
  BY <1>1, PortSame
<1>3. pc[w] = "onconnect" /\ Goto(w, "wait") /\ "onconnect" \in Place /\ "wait" \in Place
  BY DEF OnConnect, Place
<1>4. connects' = [connects EXCEPT ![r] = connects[r] + 1]
  BY DEF OnConnect
<1>5. CASE r # s
  <2>1. UNCHANGED <<recvPosted[s], connects[s]>>
    BY <1>0, <1>1, <1>4, <1>5
  <2> QED
    BY <1>0, <1>1, <1>3, <1>5, <2>1, OtherSlot
<1>6. CASE r = s
  <2>1. /\ Change(Accepting, "onconnect", "wait") = -1 /\ Change(Receiving, "onconnect", "wait") = 0
        /\ Change(Counting, "onconnect", "wait") = -1 /\ Change(Closing, "onconnect", "wait") = 0
        /\ Change({"close"}, "onconnect", "wait") = 0
    BY DEF Change, Accepting, Receiving, Counting, Closing
  <2>2. /\ B(s, Accepting)' = B(s, Accepting) - 1 /\ B(s, Receiving)' = B(s, Receiving)
        /\ B(s, Counting)' = B(s, Counting) - 1 /\ B(s, Closing)' = B(s, Closing)
        /\ B(s, {"close"})' = B(s, {"close"})
    BY <1>0, <1>3, <1>6, <2>1, HandlerCounts, Numbers
  <2>3. connects[s]' = connects[s] + 1
    BY <1>0, <1>4, <1>6
  <2>4. Receivers(s)' = Receivers(s)
    BY <1>1, <1>2, <2>2, ReceiversSum
  <2>5. mLatestClosedTimeSec[s] = Never /\ s \notin acceptPosted
    BY <1>0, <2>2, Numbers, ReceiversSum DEF SlotInv, AcceptOnce, Unused, Posted
  <2>6. AcceptOnce(s)' /\ RecvOnce(s)'
    BY <1>0, <1>1, <1>2, <2>2, <2>3, <2>4, Numbers DEF SlotInv, AcceptOnce, RecvOnce, Posted
  <2>7. Unused(s)' /\ Quiet(s)'
    BY <1>1, <2>5 DEF Unused, Quiet
  <2>8. Listening(s)'
    BY <1>0, <1>1, <2>2, <2>3, <2>4, Numbers DEF SlotInv, Listening
  <2> QED
    BY <2>6, <2>7, <2>8 DEF SlotInv
<1> QED
  BY <1>5, <1>6

\* Close and OnClose: the slot was taken, and nothing is counted of it again.
LEMMA CloseSlots ==
    ASSUME IInv, TypeOK', NEW w \in Worker, Close(w) \/ OnClose(w), NEW s \in Slot
    PROVE  SlotInv(s)'
<1> DEFINE r == job[w].slot
<1>0. TypeOK /\ SlotInv(s)
  BY DEF IInv
<1>1. /\ UNCHANGED <<iocp, acceptPosted, sendPosted, recvPosted, mLatestClosedTimeSec,
                     connects, recvError>>
      /\ closed \subseteq closed' /\ closed' \subseteq closed \cup {r}
  BY DEF Close, OnClose, kernelVars, sessionVars
<1>2. Q("ACCEPT", s)' = Q("ACCEPT", s) /\ Q("RECV", s)' = Q("RECV", s) /\ Q("SEND", s)' = Q("SEND", s)
  BY <1>1, PortSame
<1>3. PICK from \in Closing, to \in {"onclose", "wait"} :
          /\ pc[w] = from /\ Goto(w, to)
          /\ from = "close" => to = "onclose" /\ r \in closed'
          /\ from = "onclose" => to = "wait"
  BY DEF Close, OnClose, Closing
<1>4. from \in Place /\ to \in Place /\ pc[w] = from /\ Goto(w, to)
  BY <1>3 DEF Place, Closing
<1>5. CASE r # s
  <2>1. UNCHANGED <<recvPosted[s], connects[s]>> /\ (s \in closed' <=> s \in closed)
    BY <1>1, <1>5
  <2> QED
    BY <1>0, <1>1, <1>3, <1>4, <1>5, <2>1, OtherSlot
<1>6. CASE r = s
  <2>1. /\ Change(Accepting, from, to) = 0 /\ Change(Receiving, from, to) = 0
        /\ Change(Counting, from, to) = 0
        /\ Change({"close"}, from, to) = IF from = "close" THEN -1 ELSE 0
    BY <1>3 DEF Change, Accepting, Receiving, Counting, Closing
  <2>2. /\ B(s, Accepting)' = B(s, Accepting) /\ B(s, Receiving)' = B(s, Receiving)
        /\ B(s, Counting)' = B(s, Counting)
        /\ from # "close" => B(s, {"close"})' = B(s, {"close"})
    <3>1. /\ B(s, Accepting)' = B(s, Accepting) + Change(Accepting, from, to)
          /\ B(s, Receiving)' = B(s, Receiving) + Change(Receiving, from, to)
          /\ B(s, Counting)' = B(s, Counting) + Change(Counting, from, to)
          /\ B(s, {"close"})' = B(s, {"close"}) + Change({"close"}, from, to)
      BY <1>0, <1>4, <1>6, HandlerCounts
    <3> QED
      BY <1>0, <2>1, <3>1, Numbers
  <2>3. Receivers(s)' = Receivers(s)
    BY <1>1, <1>2, <2>2, ReceiversSum
  <2>4. B(s, Closing) > 0
    <3>1. w \in Busy(s, Closing)
      BY <1>3, <1>6 DEF Busy
    <3>2. IsFiniteSet(Busy(s, Closing))
      <4>1. IsFiniteSet(Working(pc, job, s, Closing))
        BY WorkingFinite
      <4> QED
        BY <4>1 DEF Busy, Working
    <3>3. Cardinality(Busy(s, Closing)) # 0
      BY <3>1, <3>2, FS_EmptySet
    <3> QED
      BY <1>0, <3>3, Numbers DEF B
  <2>5. mLatestClosedTimeSec[s] = Never /\ s \notin acceptPosted
    BY <1>0, <2>4, Numbers DEF SlotInv, Quiet
  <2>6. AcceptOnce(s)' /\ RecvOnce(s)'
    BY <1>0, <1>1, <1>2, <2>2, <2>3 DEF SlotInv, AcceptOnce, RecvOnce, Posted
  <2>7. Unused(s)' /\ Quiet(s)'
    BY <1>1, <2>5 DEF Unused, Quiet
  <2>8. Listening(s)'
    BY <1>0, <1>1, <1>3, <1>6, <2>2, <2>3 DEF SlotInv, Listening, Closing
  <2> QED
    BY <2>6, <2>7, <2>8 DEF SlotInv
<1> QED
  BY <1>5, <1>6

\* The clock and the process thread: a send is started only after the connect.
LEMMA ProcessSlots ==
    ASSUME IInv, TypeOK', Tick \/ ProcessPacket \/ UNCHANGED vars, NEW s \in Slot
    PROVE  SlotInv(s)'
<1> USE DEF ProcessPacket, vars, kernelVars, queueVars, processVars, historyVars,
            sessionVars, workerVars
<1>0. TypeOK /\ SlotInv(s)
  BY DEF IInv
<1>1. UNCHANGED <<iocp, pc, job, acceptPosted, recvPosted, mLatestClosedTimeSec, connects,
                  closed, recvError>>
  BY DEF Tick, ProcessUser, ProcessSystem
<1>2. \A op : Q(op, s)' = Q(op, s)
  BY <1>1, PortSame
<1>3. \A places : B(s, places)' = B(s, places)
  BY <1>1, WorkersSame
<1>4. sendPosted'[s] = sendPosted[s] \/ connects[s] > 0
  <2>1. CASE Tick \/ ProcessSystem \/ UNCHANGED vars
    BY <2>1 DEF Tick, ProcessSystem
  <2>2. CASE ProcessUser
    <3>1. CASE sendPosted' = sendPosted
      BY <3>1
    <3>2. CASE sendPosted' # sendPosted
      <4>1. /\ user[Head(mInComingPacketUserIndex)] = "Up"
            /\ sendPosted' = [sendPosted EXCEPT ![Head(mInComingPacketUserIndex)] = @ + 1]
        BY <2>2, <3>2 DEF ProcessUser
      <4>2. sendPosted \in [Slot -> Nat]
        BY <1>0 DEF TypeOK
      <4>3. s = Head(mInComingPacketUserIndex) => connects[s] > 0
        BY <4>1 DEF IInv, UpInv
      <4> QED
        BY <4>1, <4>2, <4>3
    <3> QED
      BY <3>1, <3>2
  <2> QED
    BY <2>1, <2>2
<1>5. AcceptOnce(s)' /\ RecvOnce(s)' /\ Unused(s)' /\ Listening(s)'
  BY <1>0, <1>1, <1>2, <1>3, ReceiversSum
     DEF SlotInv, AcceptOnce, RecvOnce, Unused, Listening, Posted
<1>6. Quiet(s)'
  BY <1>0, <1>1, <1>2, <1>3, <1>4, Numbers DEF SlotInv, Quiet
<1> QED
  BY <1>5, <1>6 DEF SlotInv

\* Connect packets are queued with the connect and taken before the user is up.
LEMMA UpStep ==
    ASSUME IInv, TypeOK', [Next]_vars PROVE UpInv'
<1> USE DEF kernelVars, queueVars, processVars, historyVars, sessionVars, workerVars
<1> DEFINE K == {"CONNECT", "DISCONNECT"} \X Slot
<1>0. /\ UpInv /\ JobInv /\ mSystemPacketQueue \in Seq(K) /\ connects \in [Slot -> Nat]
      /\ user \in [Slot -> {"None", "Up", "Cleared"}]
  BY DEF IInv, TypeOK
<1>1. CASE UNCHANGED <<mSystemPacketQueue, user, connects>>
  BY <1>0, <1>1 DEF UpInv
<1>2. ASSUME NEW w \in Worker, OnConnect(w) PROVE UpInv'
  <2> DEFINE r == job[w].slot
  <2>1. r \in Slot
    BY <1>0, <1>2 DEF OnConnect, JobInv, Completion
  <2>2. /\ mSystemPacketQueue' = Append(mSystemPacketQueue, <<"CONNECT", r>>)
        /\ connects' = [connects EXCEPT ![r] = connects[r] + 1] /\ user' = user
    BY <1>2 DEF OnConnect
  <2>3. \A s \in Slot : (connects[s] > 0 => connects'[s] > 0) /\ connects'[r] > 0
    BY <1>0, <2>1, <2>2
  <2>4. /\ Len(mSystemPacketQueue') = Len(mSystemPacketQueue) + 1
        /\ Len(mSystemPacketQueue) \in Nat
        /\ \A i \in 1..Len(mSystemPacketQueue) : mSystemPacketQueue'[i] = mSystemPacketQueue[i]
        /\ mSystemPacketQueue'[Len(mSystemPacketQueue) + 1] = <<"CONNECT", r>>
    BY <1>0, <2>1, <2>2, AppendProperties
  <2>5. \A i \in 1..Len(mSystemPacketQueue) : mSystemPacketQueue[i][2] \in Slot
    BY <1>0
  <2>6. ASSUME NEW i \in 1..Len(mSystemPacketQueue'), mSystemPacketQueue'[i][1] = "CONNECT"
        PROVE  connects'[mSystemPacketQueue'[i][2]] > 0
    <3>1. CASE i \in 1..Len(mSystemPacketQueue)
      BY <1>0, <2>3, <2>4, <2>5, <2>6, <3>1 DEF UpInv
    <3>2. CASE i = Len(mSystemPacketQueue) + 1
      BY <2>1, <2>3, <2>4, <3>2
    <3> QED
      BY <2>4, <3>1, <3>2
  <2> QED
    BY <1>0, <2>2, <2>3, <2>6 DEF UpInv
<1>3. ASSUME NEW w \in Worker, OnClose(w) PROVE UpInv'
  <2> DEFINE r == job[w].slot
  <2>1. r \in Slot
    BY <1>0, <1>3 DEF OnClose, JobInv, Completion
  <2>2. /\ mSystemPacketQueue' = Append(mSystemPacketQueue, <<"DISCONNECT", r>>)
        /\ connects' = connects /\ user' = user
    BY <1>3 DEF OnClose
  <2>4. /\ Len(mSystemPacketQueue') = Len(mSystemPacketQueue) + 1
        /\ Len(mSystemPacketQueue) \in Nat
        /\ \A i \in 1..Len(mSystemPacketQueue) : mSystemPacketQueue'[i] = mSystemPacketQueue[i]
        /\ mSystemPacketQueue'[Len(mSystemPacketQueue) + 1] = <<"DISCONNECT", r>>
    BY <1>0, <2>1, <2>2, AppendProperties
  <2>6. ASSUME NEW i \in 1..Len(mSystemPacketQueue'), mSystemPacketQueue'[i][1] = "CONNECT"
        PROVE  i \in 1..Len(mSystemPacketQueue)
    <3>1. mSystemPacketQueue'[Len(mSystemPacketQueue) + 1][1] = "DISCONNECT"
      BY <2>4
    <3> QED
      BY <2>4, <2>6, <3>1
  <2> QED
    BY <1>0, <2>2, <2>4, <2>6 DEF UpInv
<1>4. CASE ProcessSystem /\ mSystemPacketQueue # << >>
  <2> DEFINE h == Head(mSystemPacketQueue)
  <2>1. /\ h = mSystemPacketQueue[1] /\ h \in K /\ 1 \in 1..Len(mSystemPacketQueue)
        /\ mSystemPacketQueue' = Tail(mSystemPacketQueue) /\ connects' = connects
        /\ user' = [user EXCEPT ![h[2]] = SystemPacket(h[1], h[2])]
    <3>1. h \in K /\ h = mSystemPacketQueue[1] /\ 1 \in 1..Len(mSystemPacketQueue)
      BY <1>0, <1>4, HeadTailProperties, EmptySeq
    <3> QED
      BY <1>4, <3>1 DEF ProcessSystem
  <2>2. /\ Len(mSystemPacketQueue') = Len(mSystemPacketQueue) - 1
        /\ Len(mSystemPacketQueue) \in Nat
        /\ \A i \in 1..Len(mSystemPacketQueue') :
              mSystemPacketQueue'[i] = mSystemPacketQueue[i + 1]
    BY <1>0, <1>4, <2>1, HeadTailProperties
  <2>3. h[1] = "CONNECT" => connects[h[2]] > 0
    BY <1>0, <2>1 DEF UpInv
  <2>4. h[2] \in Slot /\ (SystemPacket(h[1], h[2]) = "Up" => connects[h[2]] > 0)
    <3>1. h[1] \in {"CONNECT", "DISCONNECT"} /\ h[2] \in Slot
      BY <2>1
    <3>2. CASE h[1] = "CONNECT"
      BY <2>3, <3>1, <3>2
    <3>3. CASE h[1] = "DISCONNECT"
      BY <1>0, <3>1, <3>3 DEF SystemPacket, UpInv
    <3> QED
      BY <3>1, <3>2, <3>3
  <2>5. \A s \in Slot : user'[s] = "Up" => connects'[s] > 0
    BY <1>0, <2>1, <2>4 DEF UpInv
  <2>6. \A i \in 1..Len(mSystemPacketQueue') : i + 1 \in 1..Len(mSystemPacketQueue)
    BY <2>2
  <2> QED
    BY <1>0, <2>1, <2>2, <2>5, <2>6 DEF UpInv
<1>5. CASE ProcessSystem /\ mSystemPacketQueue = << >>
  BY <1>1, <1>5 DEF ProcessSystem
<1>6. CASE UNCHANGED vars \/ Tick \/ ProcessUser
  BY <1>1, <1>6 DEF vars, Tick, ProcessUser
<1>7. ASSUME NEW r \in Slot, NEW ok \in BOOLEAN,
             \/ AccepterThread(r)
             \/ KernelAccept(r, ok) \/ KernelRecv(r, ok) \/ KernelSend(r, ok)
      PROVE  UpInv'
  BY <1>1, <1>7 DEF AccepterThread, KernelAccept, KernelRecv, KernelSend, KernelUnchanged
<1>8. ASSUME NEW w \in Worker,
             \/ WorkerDequeue(w) \/ AcceptCompletion(w) \/ CountRead(w) \/ CountWrite(w)
             \/ OnReceive(w) \/ BindRecv(w) \/ Close(w)
      PROVE  UpInv'
  BY <1>1, <1>8 DEF WorkerDequeue, AcceptCompletion, CountRead, CountWrite, OnReceive,
                    BindRecv, Close
<1> QED
  BY <1>2, <1>3, <1>4, <1>5, <1>6, <1>7, <1>8 DEF Next, WokerThread, ProcessPacket, Crashed

----------------------------------------------------------------------------
(* Theorems.                                                               *)

\* The server starts with nothing posted.
LEMMA InitIInv == Init => IInv
<1> SUFFICES ASSUME Init PROVE IInv
  OBVIOUS
<1>1. TypeOK
  <2>1. 0 \in 0..MaxNow /\ 0 \in 0..Never /\ 0 \in 0..MaxRecv /\ 0 \in 0..MaxSend
    BY SessionAssumption DEF Never
  <2>2. /\ mSock \in [Slot -> {"valid", "invalid"}] /\ mLatestClosedTimeSec \in [Slot -> 0..Never]
        /\ recvPosted \in [Slot -> Nat] /\ sendPosted \in [Slot -> Nat]
        /\ connects \in [Slot -> Nat] /\ user \in [Slot -> {"None", "Up", "Cleared"}]
    BY <2>1 DEF Init
  <2>3. /\ pc \in [Worker -> Place] /\ reg \in [Worker -> Nat]
        /\ job \in [Worker -> Completion \cup {<< >>}]
    BY DEF Init, Place
  <2>4. /\ iocp \in Seq(Completion) /\ mInComingPacketUserIndex \in Seq(Slot)
        /\ mSystemPacketQueue \in Seq({"CONNECT", "DISCONNECT"} \X Slot)
    BY DEF Init
  <2> QED
    BY <2>1, <2>2, <2>3, <2>4 DEF Init, TypeOK, Place
<1>2. JobInv /\ UpInv
  BY DEF Init, JobInv, UpInv
<1>3. ASSUME NEW s \in Slot PROVE SlotInv(s)
  <2>1. ASSUME NEW op PROVE Q(op, s) = 0
    <3>1. Queued(op, s) = {}
      BY DEF Init, Queued
    <3> QED
      BY <3>1, FS_EmptySet DEF Q
  <2>2. ASSUME NEW places, "wait" \notin places PROVE B(s, places) = 0
    <3>1. Busy(s, places) = {}
      BY <2>2 DEF Init, Busy
    <3> QED
      BY <3>1, FS_EmptySet DEF B
  <2>3. /\ B(s, Accepting) = 0 /\ B(s, Receiving) = 0 /\ B(s, Counting) = 0
        /\ B(s, Closing) = 0 /\ B(s, {"close"}) = 0
    BY <2>2 DEF Accepting, Receiving, Counting, Closing
  <2>4. Receivers(s) = 0
    <3>1. Receivers(s) = recvPosted[s] + Q("RECV", s) + B(s, Receiving)
      BY ReceiversSum
    <3> QED
      BY <2>1, <2>3, <3>1 DEF Init
  <2>5. /\ Q("ACCEPT", s) = 0 /\ Q("SEND", s) = 0 /\ Posted(s) = 0 /\ connects[s] = 0
        /\ sendPosted[s] = 0 /\ s \notin closed
    BY <2>1 DEF Init, Posted
  <2> QED
    BY <2>3, <2>4, <2>5 DEF SlotInv, AcceptOnce, RecvOnce, Unused, Quiet, Listening
<1> QED
  BY <1>1, <1>2, <1>3 DEF IInv

\* Every step of every thread preserves the inductive invariant.
LEMMA NextIInv == IInv /\ [Next]_vars => IInv'
<1> SUFFICES ASSUME IInv, [Next]_vars PROVE IInv'
  OBVIOUS
<1>1. TypeOK' /\ JobInv'
  BY TypeStep DEF IInv
<1>2. UpInv'
  BY <1>1, UpStep
<1>3. ASSUME NEW s \in Slot PROVE SlotInv(s)'
  <2>1. ASSUME NEW r \in Slot, AccepterThread(r) PROVE SlotInv(s)'
    BY <1>1, <2>1, AccepterSlots
  <2>2. ASSUME NEW r \in Slot, NEW ok \in BOOLEAN,
               KernelAccept(r, ok) \/ KernelRecv(r, ok) \/ KernelSend(r, ok)
        PROVE  SlotInv(s)'
    BY <1>1, <2>2, KernelSlots
  <2>3. ASSUME NEW w \in Worker, WokerThread(w) PROVE SlotInv(s)'
    BY <1>1, <2>3, DequeueSlots, BindSlots, PassSlots, ConnectSlots, CloseSlots DEF WokerThread
  <2>4. CASE Tick \/ ProcessPacket \/ UNCHANGED vars
    BY <1>1, <2>4, ProcessSlots
  <2> QED
    BY <2>1, <2>2, <2>3, <2>4 DEF Next, Crashed
<1> QED
  BY <1>1, <1>2, <1>3 DEF IInv

\* The invariant holds always.
LEMMA Invariant == Spec => []IInv
BY InitIInv, NextIInv, PTL DEF Spec

(* The queues, the completions of the workers and the counters of the      *)
(* sessions are always those of IOCPServer and ClientInfo, whatever order  *)
(* the kernel, the workers, the accepter and the process thread take.      *)
THEOREM TypeCorrect == Spec => []TypeOK
<1>1. IInv => TypeOK
  BY DEF IInv
<1> QED
  BY <1>1, Invariant, PTL

(* For any number of workers: no two of them ever handle a receive of one  *)
(* session, nor is one posted while another is handled, so SetPacketData   *)
(* and mRecvBuf need no lock; and a connected session has its receive      *)
(* until it is being closed or WSARecv has failed.                         *)
THEOREM NoTwoReceivers == Spec => []OneReceiver
<1>1. IInv => OneReceiver
  <2> SUFFICES ASSUME IInv, NEW s \in Slot
               PROVE  /\ Receivers(s) <= 1
                      /\ connects[s] > 0 /\ s \notin closed \cup recvError
                            => Receivers(s) = 1 \/ Busy(s, {"close"}) # {}
    BY DEF OneReceiver
  <2>1. /\ Q("ACCEPT", s) \in Nat /\ B(s, Counting) \in Nat /\ Receivers(s) \in Nat
        /\ connects[s] \in Nat
    <3>1. iocp \in Seq(Completion) /\ recvPosted[s] \in Nat /\ connects[s] \in Nat
      BY DEF IInv, TypeOK
    <3>2. Cardinality(At(iocp, "ACCEPT", s)) \in Nat /\ Cardinality(At(iocp, "RECV", s)) \in Nat
      BY <3>1, AtFinite
    <3>3. /\ Cardinality(Working(pc, job, s, Counting)) \in Nat
          /\ Cardinality(Working(pc, job, s, Receiving)) \in Nat
      BY WorkingFinite
    <3>4. /\ Q("ACCEPT", s) \in Nat /\ Q("RECV", s) \in Nat /\ B(s, Counting) \in Nat
          /\ B(s, Receiving) \in Nat
      BY <3>2, <3>3 DEF Q, Queued, At, B, Busy, Working
    <3> QED
      BY <3>1, <3>4, ReceiversSum
  <2>2. Posted(s) \in Nat
    BY DEF Posted
  <2>3. RecvOnce(s) /\ Listening(s)
    BY DEF IInv, SlotInv
  <2>4. Receivers(s) <= 1
    BY <2>1, <2>2, <2>3 DEF RecvOnce
  <2>5. B(s, {"close"}) > 0 => Busy(s, {"close"}) # {}
    BY FS_EmptySet DEF B
  <2>6. connects[s] > 0 /\ s \notin closed \cup recvError
          => Receivers(s) = 1 \/ Busy(s, {"close"}) # {}
    BY <2>1, <2>3, <2>5 DEF Listening
  <2> QED
    BY <2>4, <2>6
<1> QED
  BY <1>1, Invariant, PTL

(* PostAccept marks a ClientInfo with a time the clock never passes: it is *)
(* given to one connection, and nothing of an earlier one is around when   *)
(* its accept is posted.                                                   *)
THEOREM NoSlotTwice == Spec => []SlotTakenOnce
<1>1. IInv => SlotTakenOnce
  <2> SUFFICES ASSUME IInv, NEW s \in Slot
               PROVE  /\ connects[s] <= 1
                      /\ s \in acceptPosted =>
                            /\ connects[s] = 0 /\ s \notin closed
                            /\ recvPosted[s] = 0 /\ Queued("RECV", s) = {}
                            /\ Queued("SEND", s) = {}
    BY DEF SlotTakenOnce
  <2>1. iocp \in Seq(Completion) /\ recvPosted[s] \in Nat /\ connects[s] \in Nat
    BY DEF IInv, TypeOK
  <2>2. ASSUME NEW op PROVE Q(op, s) \in Nat /\ (Q(op, s) = 0 <=> Queued(op, s) = {})
    <3>1. IsFiniteSet(At(iocp, op, s)) /\ Cardinality(At(iocp, op, s)) \in Nat
      BY <2>1, AtFinite
    <3> QED
      BY <3>1, FS_EmptySet DEF Q, Queued, At
  <2>3. B(s, Accepting) \in Nat /\ B(s, Receiving) \in Nat
    <3>1. /\ Cardinality(Working(pc, job, s, Accepting)) \in Nat
          /\ Cardinality(Working(pc, job, s, Receiving)) \in Nat
      BY WorkingFinite
    <3> QED
      BY <3>1 DEF B, Busy, Working
  <2>4. AcceptOnce(s) /\ RecvOnce(s) /\ Quiet(s)
    BY DEF IInv, SlotInv
  <2>5. connects[s] <= 1
    BY <2>1, <2>2, <2>3, <2>4 DEF AcceptOnce, Posted
  <2>6. ASSUME s \in acceptPosted
        PROVE  /\ connects[s] = 0 /\ s \notin closed /\ Q("SEND", s) = 0
               /\ recvPosted[s] = 0 /\ Q("RECV", s) = 0
    <3>1. Receivers(s) = recvPosted[s] + Q("RECV", s) + B(s, Receiving)
      BY ReceiversSum
    <3>2. Q("ACCEPT", s) \in Nat /\ Q("RECV", s) \in Nat
      BY <2>2
    <3>3. 1 + Q("ACCEPT", s) + Receivers(s) <= 1
      <4>1. Posted(s) = 1
        BY <2>6 DEF Posted
      <4> QED
        BY <2>4, <4>1 DEF RecvOnce
    <3>4. recvPosted[s] + Q("RECV", s) + B(s, Receiving) \in Nat
      BY <2>1, <2>3, <3>2
    <3>5. Receivers(s) = 0
      BY <3>1, <3>2, <3>3, <3>4
    <3>6. recvPosted[s] = 0 /\ Q("RECV", s) = 0
      BY <2>1, <2>3, <3>1, <3>2, <3>5
    <3> QED
      BY <2>4, <2>6, <3>6 DEF Quiet
  <2> QED
    BY <2>2, <2>5, <2>6
<1> QED
  BY <1>1, Invariant, PTL
=============================================================================
