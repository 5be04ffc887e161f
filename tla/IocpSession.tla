---------------------------- MODULE IocpSession ----------------------------
(***************************************************************************)
(* The life of the sessions: the accepter thread that posts an AcceptEx    *)
(* for every free ClientInfo, the IOCP workers that handle completions,    *)
(* the kernel that produces them, and the packet-process thread that takes *)
(* the system packets and the per-user tokens the workers queue.           *)
(*                                                                         *)
(* Left to other modules: the send queue (SendQueue; here a send is only   *)
(* an operation that may fail), the bytes received (PacketBuffer) and what *)
(* the handlers do (ChatLogic; here a user is up or not).                  *)
(***************************************************************************)
EXTENDS Naturals, Sequences, FiniteSets

CONSTANTS
    Slot,          \* client indices
    Worker,        \* IOCP worker threads
    ReuseWait,     \* RE_USE_SESSION_WAIT_TIMESEC
    MaxNow,        \* bound: seconds the clock shows at most
    MaxRecv,       \* bound: successful receives of all slots together
    MaxSend        \* bound: sends of all slots together

ASSUME SessionAssumption ==
    /\ ReuseWait \in Nat /\ MaxNow \in Nat /\ MaxRecv \in Nat /\ MaxSend \in Nat
    /\ IsFiniteSet(Slot) /\ IsFiniteSet(Worker)

Never == MaxNow + 1    \* UINT32_MAX: later than any time the clock shows

VARIABLES
    now,                        \* the clock, in seconds
    mSock,                      \* ClientInfo::mSock: "valid" or "invalid"
    mLatestClosedTimeSec,       \* ClientInfo::mLatestClosedTimeSec
    mClientCnt,                 \* IOCPServer::mClientCnt, a plain int
    acceptPosted,               \* slots whose AcceptEx the kernel holds
    recvPosted, sendPosted,     \* how many of each the kernel holds per slot
    received, sent,             \* how many were started so far (bounds)
    iocp,                       \* the completion port's queue
    pc, job, reg,               \* each worker: place, completion, register
    mSystemPacketQueue,
    mInComingPacketUserIndex,   \* one token per receive
    processPc,                  \* which queue the process thread looks at next
    user,                       \* "None", "Up" after a connect, "Cleared"
    fault,                      \* a null ClientInfo was dereferenced
    connects,                   \* history: connect packets queued per slot
    closed,                     \* history: slots on which Close was called
    overtaken,                  \* history: a disconnect was queued before the connect
    recvError                   \* history: a WSARecv call failed

kernelVars == <<acceptPosted, recvPosted, sendPosted, received, sent>>
queueVars == <<mSystemPacketQueue, mInComingPacketUserIndex>>
processVars == <<processPc, user>>
historyVars == <<connects, closed, overtaken, recvError>>
sessionVars == <<now, mSock, mLatestClosedTimeSec, mClientCnt, fault>>
workerVars == <<pc, job, reg>>
vars == <<kernelVars, queueVars, processVars, historyVars, sessionVars, workerVars, iocp>>

Completion == [op : {"ACCEPT", "RECV", "SEND"}, slot : Slot, ok : BOOLEAN]

TypeOK ==
    /\ now \in 0..MaxNow
    /\ mSock \in [Slot -> {"valid", "invalid"}]
    /\ mLatestClosedTimeSec \in [Slot -> 0..Never]
    /\ mClientCnt \in Nat
    /\ acceptPosted \subseteq Slot
    /\ recvPosted \in [Slot -> Nat] /\ sendPosted \in [Slot -> Nat]
    /\ received \in 0..MaxRecv /\ sent \in 0..MaxSend
    /\ iocp \in Seq(Completion)
    /\ pc \in [Worker -> {"wait", "accept", "countRead", "countWrite", "onconnect",
                          "receive", "bindrecv", "close", "onclose"}]
    /\ job \in [Worker -> Completion \cup {<< >>}]
    /\ reg \in [Worker -> Nat]
    /\ mSystemPacketQueue \in Seq({"CONNECT", "DISCONNECT"} \X Slot)
    /\ mInComingPacketUserIndex \in Seq(Slot)
    /\ processPc \in {"user", "system"}
    /\ user \in [Slot -> {"None", "Up", "Cleared"}]
    /\ fault \in BOOLEAN
    /\ connects \in [Slot -> Nat]
    /\ closed \subseteq Slot /\ overtaken \subseteq Slot /\ recvError \subseteq Slot

Init ==
    /\ now = 0
    /\ mSock = [s \in Slot |-> "invalid"]
    /\ mLatestClosedTimeSec = [s \in Slot |-> 0]
    /\ mClientCnt = 0
    /\ acceptPosted = {}
    /\ recvPosted = [s \in Slot |-> 0] /\ sendPosted = [s \in Slot |-> 0]
    /\ received = 0 /\ sent = 0
    /\ iocp = << >>
    /\ pc = [w \in Worker |-> "wait"]
    /\ job = [w \in Worker |-> << >>]
    /\ reg = [w \in Worker |-> 0]
    /\ mSystemPacketQueue = << >> /\ mInComingPacketUserIndex = << >>
    /\ processPc = "user"
    /\ user = [s \in Slot |-> "None"]
    /\ fault = FALSE
    /\ connects = [s \in Slot |-> 0]
    /\ closed = {} /\ overtaken = {} /\ recvError = {}

----------------------------------------------------------------------------
(* The clock and the accepter thread.                                      *)

Tick ==
    /\ ~fault /\ now < MaxNow
    /\ now' = now + 1
    /\ UNCHANGED <<kernelVars, queueVars, processVars, historyVars, workerVars, iocp,
                   mSock, mLatestClosedTimeSec, mClientCnt, fault>>

\* PostAccept: it succeeds; or WSASocket fails; or AcceptEx fails, and the new
\* socket stays in mSock.  mark is what it leaves in mLatestClosedTimeSec.
PostAcceptMarking(s, mark) ==
    /\ mLatestClosedTimeSec' = [mLatestClosedTimeSec EXCEPT ![s] = mark]
    /\ \/ /\ mSock' = [mSock EXCEPT ![s] = "valid"]
          /\ acceptPosted' = acceptPosted \cup {s}
       \/ UNCHANGED <<mSock, acceptPosted>>
       \/ /\ mSock' = [mSock EXCEPT ![s] = "valid"]
          /\ UNCHANGED acceptPosted

\* Mutant: the slot is not marked as taken.
PostAcceptUnmarked(s) == PostAcceptMarking(s, mLatestClosedTimeSec[s])

PostAccept(s) == PostAcceptMarking(s, Never)

\* One turn of AccepterThread's loop over the clients.
AccepterThread(s) ==
    /\ ~fault
    /\ mSock[s] = "invalid"
    /\ now >= mLatestClosedTimeSec[s]
    /\ now - mLatestClosedTimeSec[s] > ReuseWait
    /\ PostAccept(s)
    /\ UNCHANGED <<recvPosted, sendPosted, received, sent, queueVars, processVars,
                   historyVars, workerVars, iocp, now, mClientCnt, fault>>

----------------------------------------------------------------------------
(* The kernel.  Every completion is appended to the port's queue.          *)

Complete(op, s, ok) == iocp' = Append(iocp, [op |-> op, slot |-> s, ok |-> ok])

KernelUnchanged == UNCHANGED <<queueVars, processVars, historyVars, sessionVars, workerVars>>

\* A client connects, or the connection is gone before it is accepted.
KernelAccept(s, ok) ==
    /\ ~fault /\ s \in acceptPosted
    /\ acceptPosted' = acceptPosted \ {s}
    /\ Complete("ACCEPT", s, ok)
    /\ UNCHANGED <<recvPosted, sendPosted, received, sent>> /\ KernelUnchanged

\* Data arrives, or the peer closes or resets, or Close cancels the receive.
KernelRecv(s, ok) ==
    /\ ~fault /\ recvPosted[s] > 0
    /\ ok => received < MaxRecv
    /\ recvPosted' = [recvPosted EXCEPT ![s] = @ - 1]
    /\ received' = IF ok THEN received + 1 ELSE received
    /\ Complete("RECV", s, ok)
    /\ UNCHANGED <<acceptPosted, sendPosted, sent>> /\ KernelUnchanged

KernelSend(s, ok) ==
    /\ ~fault /\ sendPosted[s] > 0
    /\ sendPosted' = [sendPosted EXCEPT ![s] = @ - 1]
    /\ Complete("SEND", s, ok)
    /\ UNCHANGED <<acceptPosted, recvPosted, received, sent>> /\ KernelUnchanged

----------------------------------------------------------------------------
(* The workers: WokerThread.                                               *)

\* The worker goes on; back at the top of its loop it has no completion.
Goto(w, place) ==
    /\ pc' = [pc EXCEPT ![w] = place]
    /\ job' = IF place = "wait" THEN [job EXCEPT ![w] = << >>] ELSE job

\* A completed send is SendQueue's business.  The completion key of an accept
\* is the listen socket's, a null ClientInfo: when the accept failed,
\* CloseSocket dereferences it.
WorkerDequeue(w) ==
    /\ ~fault /\ pc[w] = "wait" /\ iocp # << >>
    /\ iocp' = Tail(iocp)
    /\ LET c == Head(iocp) IN
         /\ fault' = (c.op = "ACCEPT" /\ ~c.ok)
         /\ IF c.op = "SEND" /\ c.ok
            THEN UNCHANGED <<pc, job>>
            ELSE /\ job' = [job EXCEPT ![w] = c]
                 /\ pc' = [pc EXCEPT ![w] = CASE ~c.ok                   -> "close"
                                              [] c.ok /\ c.op = "ACCEPT" -> "accept"
                                              [] c.ok /\ c.op = "RECV"   -> "receive"]
    /\ UNCHANGED <<kernelVars, queueVars, processVars, historyVars, reg, now, mSock,
                   mLatestClosedTimeSec, mClientCnt>>

\* BindRecv posts the receive, or WSARecv fails: always on INVALID_SOCKET, and
\* on a valid one whose connection is gone.
BindRecvOk(s) ==
    /\ mSock[s] = "valid"
    /\ recvPosted' = [recvPosted EXCEPT ![s] = @ + 1]
    /\ UNCHANGED recvError

BindRecvFail(s) == recvError' = recvError \cup {s} /\ UNCHANGED recvPosted

\* AcceptCompletion: from here on receives can complete on other workers.
AcceptCompletion(w) ==
    /\ ~fault /\ pc[w] = "accept"
    /\ LET s == job[w].slot IN
         \/ BindRecvOk(s) /\ Goto(w, "countRead")
         \/ BindRecvFail(s) /\ Goto(w, "close")
    /\ UNCHANGED <<acceptPosted, sendPosted, received, sent, queueVars, processVars,
                   connects, closed, overtaken, sessionVars, reg, iocp>>

\* ++mClientCnt on a plain int: a load and a store.
CountRead(w) ==
    /\ ~fault /\ pc[w] = "countRead"
    /\ reg' = [reg EXCEPT ![w] = mClientCnt]
    /\ Goto(w, "countWrite")
    /\ UNCHANGED <<kernelVars, queueVars, processVars, historyVars, sessionVars, iocp>>

\* Mutant: the counter is decremented.
CountDown(w) ==
    /\ ~fault /\ pc[w] = "countWrite"
    /\ mClientCnt' = reg[w] - 1
    /\ reg' = [reg EXCEPT ![w] = 0]
    /\ Goto(w, "onconnect")
    /\ UNCHANGED <<kernelVars, queueVars, processVars, historyVars, iocp, now,
                   mSock, mLatestClosedTimeSec, fault>>

CountWrite(w) ==
    /\ ~fault /\ pc[w] = "countWrite"
    /\ mClientCnt' = reg[w] + 1
    /\ reg' = [reg EXCEPT ![w] = 0]
    /\ Goto(w, "onconnect")
    /\ UNCHANGED <<kernelVars, queueVars, processVars, historyVars, iocp, now,
                   mSock, mLatestClosedTimeSec, fault>>

\* ChatServer::OnConnect: the connect packet is queued last.
OnConnect(w) ==
    /\ ~fault /\ pc[w] = "onconnect"
    /\ LET s == job[w].slot IN
         /\ mSystemPacketQueue' = Append(mSystemPacketQueue, <<"CONNECT", s>>)
         /\ connects' = [connects EXCEPT ![s] = @ + 1]
    /\ Goto(w, "wait")
    /\ UNCHANGED <<kernelVars, mInComingPacketUserIndex, processVars, closed, overtaken,
                   recvError, sessionVars, reg, iocp>>

\* Mutant: the next receive is posted before the data of this one is taken.
OnReceiveRebinds(w) ==
    /\ ~fault /\ pc[w] = "receive"
    /\ BindRecvOk(job[w].slot)
    /\ mInComingPacketUserIndex' = Append(mInComingPacketUserIndex, job[w].slot)
    /\ Goto(w, "bindrecv")
    /\ UNCHANGED <<acceptPosted, sendPosted, received, sent, mSystemPacketQueue,
                   processVars, connects, closed, overtaken, sessionVars, reg, iocp>>

\* OnReceive: SetPacketData, then the token.
OnReceive(w) ==
    /\ ~fault /\ pc[w] = "receive"
    /\ mInComingPacketUserIndex' = Append(mInComingPacketUserIndex, job[w].slot)
    /\ Goto(w, "bindrecv")
    /\ UNCHANGED <<kernelVars, mSystemPacketQueue, processVars, historyVars, sessionVars,
                   reg, iocp>>

\* The result of this BindRecv is not looked at.
BindRecv(w) ==
    /\ ~fault /\ pc[w] = "bindrecv"
    /\ BindRecvOk(job[w].slot) \/ BindRecvFail(job[w].slot)
    /\ Goto(w, "wait")
    /\ UNCHANGED <<acceptPosted, sendPosted, received, sent, queueVars, processVars,
                   connects, closed, overtaken, sessionVars, reg, iocp>>

\* ClientInfo::Close does not touch mLatestClosedTimeSec.
Close(w) ==
    /\ ~fault /\ pc[w] = "close"
    /\ mSock' = [mSock EXCEPT ![job[w].slot] = "invalid"]
    /\ closed' = closed \cup {job[w].slot}
    /\ Goto(w, "onclose")
    /\ UNCHANGED <<kernelVars, queueVars, processVars, connects, overtaken, recvError,
                   reg, iocp, now, mLatestClosedTimeSec, mClientCnt, fault>>

\* Mutant: CloseSocket forgets OnClose.
OnCloseForgotten(w) ==
    /\ ~fault /\ pc[w] = "onclose"
    /\ Goto(w, "wait")
    /\ UNCHANGED <<kernelVars, queueVars, processVars, historyVars, sessionVars, reg, iocp>>

\* ChatServer::OnClose.
OnClose(w) ==
    /\ ~fault /\ pc[w] = "onclose"
    /\ LET s == job[w].slot IN
         /\ mSystemPacketQueue' = Append(mSystemPacketQueue, <<"DISCONNECT", s>>)
         /\ overtaken' = IF connects[s] = 0 THEN overtaken \cup {s} ELSE overtaken
    /\ Goto(w, "wait")
    /\ UNCHANGED <<kernelVars, mInComingPacketUserIndex, processVars, connects, closed,
                   recvError, sessionVars, reg, iocp>>

WokerThread(w) ==
    \/ WorkerDequeue(w)
    \/ AcceptCompletion(w) \/ CountRead(w) \/ CountWrite(w) \/ OnConnect(w)
    \/ OnReceive(w) \/ BindRecv(w)
    \/ Close(w) \/ OnClose(w)

----------------------------------------------------------------------------
(* The process thread: ProcessPacket looks at the two queues in turn.      *)

\* A request of a user that is up is answered: a send may be started on the
\* slot.  An empty queue, or a user that is not up, sends nothing.
ProcessUser ==
    /\ ~fault /\ processPc = "user"
    /\ processPc' = "system"
    /\ IF mInComingPacketUserIndex = << >>
       THEN UNCHANGED <<mInComingPacketUserIndex, sendPosted, sent>>
       ELSE LET s == Head(mInComingPacketUserIndex) IN
              /\ mInComingPacketUserIndex' = Tail(mInComingPacketUserIndex)
              /\ \/ UNCHANGED <<sendPosted, sent>>
                 \/ /\ user[s] = "Up" /\ mSock[s] = "valid" /\ sent < MaxSend
                    /\ sendPosted' = [sendPosted EXCEPT ![s] = @ + 1]
                    /\ sent' = sent + 1
    /\ UNCHANGED <<acceptPosted, recvPosted, received, mSystemPacketQueue, user,
                   historyVars, sessionVars, workerVars, iocp>>

\* ProcessUserConnect, and ProcessUserDisConnect, which a user that never
\* got its connect ignores.
SystemPacket(kind, s) ==
    CASE kind = "CONNECT" -> "Up"
      [] kind = "DISCONNECT" /\ user[s] # "None" -> "Cleared"
      [] OTHER -> user[s]

ProcessSystem ==
    /\ ~fault /\ processPc = "system"
    /\ processPc' = "user"
    /\ IF mSystemPacketQueue = << >>
       THEN UNCHANGED <<mSystemPacketQueue, user>>
       ELSE LET kind == Head(mSystemPacketQueue)[1]
                s == Head(mSystemPacketQueue)[2]
            IN  /\ mSystemPacketQueue' = Tail(mSystemPacketQueue)
                /\ user' = [user EXCEPT ![s] = SystemPacket(kind, s)]
    /\ UNCHANGED <<kernelVars, mInComingPacketUserIndex, historyVars, sessionVars,
                   workerVars, iocp>>

ProcessPacket == ProcessUser \/ ProcessSystem

----------------------------------------------------------------------------
Crashed == fault /\ UNCHANGED vars

Next ==
    \/ Tick
    \/ \E s \in Slot : AccepterThread(s)
    \/ \E s \in Slot, ok \in BOOLEAN :
          KernelAccept(s, ok) \/ KernelRecv(s, ok) \/ KernelSend(s, ok)
    \/ \E w \in Worker : WokerThread(w)
    \/ ProcessPacket
    \/ Crashed

Spec == Init /\ [][Next]_vars

\* The server's threads keep running.  Nothing is assumed of the clients.
Fairness == WF_vars(ProcessPacket) /\ \A w \in Worker : WF_vars(WokerThread(w))

FairSpec == Spec /\ Fairness

----------------------------------------------------------------------------
(* Properties.                                                             *)

Busy(s, places) == {w \in Worker : pc[w] \in places /\ job[w].slot = s}

Queued(op, s) == {i \in 1..Len(iocp) : iocp[i].op = op /\ iocp[i].slot = s}

\* The receives of a session that are posted, completed or being handled.
Receivers(s) == recvPosted[s] + Cardinality(Queued("RECV", s))
                + Cardinality(Busy(s, {"accept", "receive", "bindrecv"}))

\* A session has at most one receive.  SetPacketData has no lock: that no two
\* workers run it for one user, and that mRecvBuf is not overwritten while it
\* is read, rests on this.  A connected session has exactly one, until it is
\* being closed or a WSARecv has failed, which WokerThread ignores: no order of
\* the workers' steps makes a session deaf otherwise.
OneReceiver ==
    \A s \in Slot :
        /\ Receivers(s) <= 1
        /\ connects[s] > 0 /\ s \notin closed \cup recvError
             => Receivers(s) = 1 \/ Busy(s, {"close"}) # {}

\* A ClientInfo is given to one connection in the server's life.  ChatLogic
\* assumes it, and nothing else keeps a late completion, a late disconnect or
\* the left-over send queue of one connection away from the next.
SlotTakenOnce ==
    \A s \in Slot :
        /\ connects[s] <= 1
        /\ s \in acceptPosted =>
             /\ connects[s] = 0 /\ s \notin closed
             /\ recvPosted[s] = 0 /\ Queued("RECV", s) = {} /\ Queued("SEND", s) = {}

\* A session that was closed does not stay up for the process thread, unless
\* its disconnect packet was queued before its connect packet: the accepting
\* worker posts the receive before it queues the connect.
ClosedSessionTornDown ==
    \A s \in Slot : s \in closed ~> [](user[s] # "Up" \/ s \in overtaken \/ fault)

\* "A socket_error is treated as the client socket having been disconnected"
\* (ClientInfo.cpp:131, above the test of WSARecv's result): a session whose
\* receive could not be posted is closed.
RecvErrorDisconnects == \A s \in Slot : s \in recvError ~> s \in closed \/ fault
=============================================================================
