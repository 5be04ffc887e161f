----------------------------- MODULE SendQueue -----------------------------
(***************************************************************************)
(* The send path of one session (ClientInfo::SendMsg, SendIO,              *)
(* SendCompleted), the packet-process thread that calls SendMsg, the IOCP  *)
(* workers that run SendCompleted or CloseSocket, and the kernel that      *)
(* completes overlapped operations in its own time.                        *)
(*                                                                         *)
(* The k-th message handed to SendMsg is the number k; it stands for the   *)
(* stOverlappedEx allocated for it and its buffer.  mSendLock is explicit: *)
(* a critical section is several steps, and CloseSocket, which does not    *)
(* take the lock, can fall between any two of them.                        *)
(***************************************************************************)
EXTENDS Naturals, Sequences, FiniteSets

CONSTANTS
    Worker,     \* the IOCP worker threads (MAX_WORKERTHREAD of them)
    MaxMsg      \* bound: SendMsg is called at most MaxMsg times

ASSUME WorkerAssumption == "process" \notin Worker /\ "none" \notin Worker
ASSUME MaxMsgAssumption == MaxMsg \in Nat

Msg == 1..MaxMsg

VARIABLES
    mSock,            \* "open" or "invalid" (INVALID_SOCKET)
    mSendDataqueue,   \* the overlapped operations not yet completed, oldest first
    mSendLock,        \* the thread that holds the mutex, or "none"
    submitted,        \* number of SendMsg calls so far
    processPc,        \* where the process thread is in SendMsg
    workerPc,         \* where each worker is in WokerThread
    job,              \* the completion each worker took last
    posted,           \* sends the kernel holds: WSASend accepted, not completed
    recvPosted,       \* the session's WSARecv is outstanding
    iocp,             \* completion packets queued on the port
    wire,             \* messages WSASend has accepted, in that order
    freed,            \* messages whose operation and buffer were deleted
    broken            \* history: some send or receive of the session has failed

vars == <<mSock, mSendDataqueue, mSendLock, submitted, processPc, workerPc,
          job, posted, recvPosted, iocp, wire, freed, broken>>

Completion == [op : {"SEND", "RECV"}, msg : 0..MaxMsg, ok : BOOLEAN]

SendDone(m, ok) == [op |-> "SEND", msg |-> m, ok |-> ok]
RecvFailed == [op |-> "RECV", msg |-> 0, ok |-> FALSE]

TypeOK ==
    /\ mSock \in {"open", "invalid"}
    /\ mSendDataqueue \in Seq(Msg)
    /\ mSendLock \in Worker \cup {"process", "none"}
    /\ submitted \in 0..MaxMsg
    /\ processPc \in {"idle", "lock", "push", "sendio", "unlock"}
    /\ workerPc \in [Worker -> {"wait", "lock", "pop", "sendio", "unlock", "close"}]
    /\ job \in [Worker -> Completion]
    /\ posted \subseteq Msg
    /\ recvPosted \in BOOLEAN
    /\ iocp \subseteq Completion
    /\ wire \in Seq(Msg)
    /\ freed \subseteq Msg
    /\ broken \in BOOLEAN

\* A session just after AcceptCompletion: its receive is posted, nothing sent.
Init ==
    /\ mSock = "open"
    /\ mSendDataqueue = << >>
    /\ mSendLock = "none"
    /\ submitted = 0
    /\ processPc = "idle"
    /\ workerPc = [w \in Worker |-> "wait"]
    /\ job = [w \in Worker |-> RecvFailed]
    /\ posted = {}
    /\ recvPosted = TRUE
    /\ iocp = {}
    /\ wire = << >>
    /\ freed = {}
    /\ broken = FALSE

----------------------------------------------------------------------------
(* SendIO: WSASend of the front of the queue.  The socket takes it, or the *)
(* call fails: always on INVALID_SOCKET, and on an open socket when the    *)
(* connection is reset or the system is out of buffers.  SendIO then       *)
(* returns FALSE, and neither caller looks at the result.                  *)
\* Mutant: WSASend is given the newest operation, not the front.
SendIOAcceptedBack ==
    /\ mSock = "open"
    /\ posted' = posted \cup {mSendDataqueue[Len(mSendDataqueue)]}
    /\ wire' = Append(wire, mSendDataqueue[Len(mSendDataqueue)])
    /\ UNCHANGED broken

SendIOAccepted ==
    /\ mSock = "open"
    /\ posted' = posted \cup {Head(mSendDataqueue)}
    /\ wire' = Append(wire, Head(mSendDataqueue))
    /\ UNCHANGED broken

SendIOFailed ==
    /\ broken' = TRUE
    /\ UNCHANGED <<posted, wire>>

SendIO == SendIOAccepted \/ SendIOFailed

----------------------------------------------------------------------------
(* The packet-process thread: SendMsg.                                     *)

\* The call, up to the mutex: the operation and its copy of the data exist.
SendMsg ==
    /\ processPc = "idle" /\ submitted < MaxMsg
    /\ submitted' = submitted + 1
    /\ processPc' = "lock"
    /\ UNCHANGED <<mSock, mSendDataqueue, mSendLock, workerPc, job, posted,
                   recvPosted, iocp, wire, freed, broken>>

SendMsgLock ==
    /\ processPc = "lock" /\ mSendLock = "none"
    /\ mSendLock' = "process"
    /\ processPc' = "push"
    /\ UNCHANGED <<mSock, mSendDataqueue, submitted, workerPc, job, posted,
                   recvPosted, iocp, wire, freed, broken>>

\* Push m, and go on to SendIO when kick holds.
PushThen(m, kick) ==
    /\ processPc = "push"
    /\ mSendDataqueue' = Append(mSendDataqueue, m)
    /\ processPc' = IF kick THEN "sendio" ELSE "unlock"
    /\ UNCHANGED <<mSock, mSendLock, submitted, workerPc, job, posted,
                   recvPosted, iocp, wire, freed, broken>>

\* Mutants: an operation that is not the one just built; a send started by
\* every push; a send started only when the queue is found empty afterwards.
SendMsgPushOther == PushThen(submitted + 1, Len(mSendDataqueue) + 1 = 1)
SendMsgPushAlwaysKicks == PushThen(submitted, Len(mSendDataqueue) + 1 >= 1)
SendMsgPushNeverKicks == PushThen(submitted, Len(mSendDataqueue) + 1 = 0)

\* The queue was empty iff no send is outstanding: this call must start one.
SendMsgPush == PushThen(submitted, Len(mSendDataqueue) + 1 = 1)

SendMsgIO ==
    /\ processPc = "sendio"
    /\ SendIO
    /\ processPc' = "unlock"
    /\ UNCHANGED <<mSock, mSendDataqueue, mSendLock, submitted, workerPc, job,
                   recvPosted, iocp, freed>>

SendMsgUnlock ==
    /\ processPc = "unlock"
    /\ mSendLock' = "none"
    /\ processPc' = "idle"
    /\ UNCHANGED <<mSock, mSendDataqueue, submitted, workerPc, job, posted,
                   recvPosted, iocp, wire, freed, broken>>

----------------------------------------------------------------------------
(* The IOCP workers.                                                       *)

\* GetQueuedCompletionStatus, and the dispatch on its result: any completion
\* that failed closes the session, a completed send runs SendCompleted.
WorkerDequeue(w, c) ==
    /\ workerPc[w] = "wait" /\ c \in iocp
    /\ iocp' = iocp \ {c}
    /\ job' = [job EXCEPT ![w] = c]
    /\ workerPc' = [workerPc EXCEPT ![w] = IF c.ok THEN "lock" ELSE "close"]
    /\ UNCHANGED <<mSock, mSendDataqueue, mSendLock, submitted, processPc,
                   posted, recvPosted, wire, freed, broken>>

\* CloseSocket: the socket goes, the queue stays as it is.
CloseSocket(w) ==
    /\ workerPc[w] = "close"
    /\ mSock' = "invalid"
    /\ workerPc' = [workerPc EXCEPT ![w] = "wait"]
    /\ UNCHANGED <<mSendDataqueue, mSendLock, submitted, processPc, job, posted,
                   recvPosted, iocp, wire, freed, broken>>

SendCompletedLock(w) ==
    /\ workerPc[w] = "lock" /\ mSendLock = "none"
    /\ mSendLock' = w
    /\ workerPc' = [workerPc EXCEPT ![w] = "pop"]
    /\ UNCHANGED <<mSock, mSendDataqueue, submitted, processPc, job, posted,
                   recvPosted, iocp, wire, freed, broken>>

\* Delete the front, leave rest in the queue, then go on to next.
DeleteFront(w, rest, next) ==
    /\ workerPc[w] = "pop"
    /\ freed' = freed \cup {Head(mSendDataqueue)}
    /\ mSendDataqueue' = rest
    /\ workerPc' = [workerPc EXCEPT ![w] = next]
    /\ UNCHANGED <<mSock, mSendLock, submitted, processPc, job, posted,
                   recvPosted, iocp, wire, broken>>

\* Mutants: the deleted operation stays queued; the next send is not started.
SendCompletedNoPop(w) == DeleteFront(w, mSendDataqueue, "sendio")
SendCompletedNoRestart(w) == DeleteFront(w, Tail(mSendDataqueue), "unlock")

\* It deletes the FRONT of the queue, whichever operation has completed.
SendCompletedPop(w) ==
    DeleteFront(w, Tail(mSendDataqueue),
                IF Tail(mSendDataqueue) # << >> THEN "sendio" ELSE "unlock")

SendCompletedIO(w) ==
    /\ workerPc[w] = "sendio"
    /\ SendIO
    /\ workerPc' = [workerPc EXCEPT ![w] = "unlock"]
    /\ UNCHANGED <<mSock, mSendDataqueue, mSendLock, submitted, processPc, job,
                   recvPosted, iocp, freed>>

SendCompletedUnlock(w) ==
    /\ workerPc[w] = "unlock"
    /\ mSendLock' = "none"
    /\ workerPc' = [workerPc EXCEPT ![w] = "wait"]
    /\ UNCHANGED <<mSock, mSendDataqueue, submitted, processPc, job, posted,
                   recvPosted, iocp, wire, freed, broken>>

----------------------------------------------------------------------------
(* The kernel: it completes what it holds, in its own time.                *)

KernelSendDone(m, ok) ==
    /\ m \in posted
    /\ posted' = posted \ {m}
    /\ iocp' = iocp \cup {SendDone(m, ok)}
    /\ broken' = (broken \/ ~ok)
    /\ UNCHANGED <<mSock, mSendDataqueue, mSendLock, submitted, processPc,
                   workerPc, job, recvPosted, wire, freed>>

\* The peer closes or resets the connection: the pending receive fails.
KernelRecvFailed ==
    /\ recvPosted
    /\ recvPosted' = FALSE
    /\ iocp' = iocp \cup {RecvFailed}
    /\ broken' = TRUE
    /\ UNCHANGED <<mSock, mSendDataqueue, mSendLock, submitted, processPc,
                   workerPc, job, posted, wire, freed>>

----------------------------------------------------------------------------
Process == SendMsg \/ SendMsgLock \/ SendMsgPush \/ SendMsgIO \/ SendMsgUnlock

WokerThread(w) ==
    \/ \E c \in iocp : WorkerDequeue(w, c)
    \/ CloseSocket(w)
    \/ SendCompletedLock(w)
    \/ SendCompletedPop(w)
    \/ SendCompletedIO(w)
    \/ SendCompletedUnlock(w)

Kernel == KernelRecvFailed \/ \E m \in Msg, ok \in BOOLEAN : KernelSendDone(m, ok)

\* Every call was made, every thread is idle, nothing is outstanding: the
\* session rests (MaxMsg is the only reason the process thread does).
Rest ==
    /\ processPc = "idle" /\ submitted = MaxMsg
    /\ \A w \in Worker : workerPc[w] = "wait"
    /\ iocp = {} /\ posted = {} /\ ~recvPosted
    /\ UNCHANGED vars

Next == Process \/ (\E w \in Worker : WokerThread(w)) \/ Kernel \/ Rest

Spec == Init /\ [][Next]_vars

\* Threads keep running and the kernel completes every send it holds, with
\* either outcome.  Nothing makes the caller call SendMsg or the peer close.
Fairness ==
    /\ WF_vars(SendMsgLock \/ SendMsgPush \/ SendMsgIO \/ SendMsgUnlock)
    /\ \A w \in Worker : WF_vars(WokerThread(w))
    /\ WF_vars(\E m \in Msg, ok \in BOOLEAN : KernelSendDone(m, ok))

FairSpec == Spec /\ Fairness

----------------------------------------------------------------------------
(* Properties.                                                             *)

\* The worker w has taken the completion of a send and not popped it yet.
Handling(w) == workerPc[w] \in {"lock", "pop"}

\* A thread has put the front in place and is about to pass it to WSASend.
Issuing == processPc = "sendio" \/ \E w \in Worker : workerPc[w] = "sendio"

\* The operations the kernel, the port or a worker still refers to.
Outstanding ==
    posted \cup {c.msg : c \in {d \in iocp : d.op = "SEND" /\ d.ok}}
           \cup {job[w].msg : w \in {v \in Worker : Handling(v)}}

\* SendCompleted deletes and pops the front of the queue without comparing it
\* with the operation that completed (ClientInfo.cpp:192-195).  That is right
\* only because the completed operation always is the front: at most one send
\* is ever outstanding, across both threads that start one.
CompletionIsFront ==
    /\ Outstanding # {} => mSendDataqueue # << >> /\ Outstanding = {Head(mSendDataqueue)}
    /\ \A w, v \in Worker : Handling(w) /\ Handling(v) => w = v

\* No operation is deleted while the kernel, the port or a worker can still
\* touch its OVERLAPPED or its buffer, and none is deleted twice: what is
\* queued has never been freed (ClientInfo.cpp:192-193).
NoUseAfterFree ==
    /\ freed \cap Outstanding = {}
    /\ \A i \in 1..Len(mSendDataqueue) : mSendDataqueue[i] \notin freed

\* A queue that is not empty is being drained whenever its mutex is free:
\* a send is outstanding, or one has failed.  A push that sees a non-empty
\* queue relies on it (ClientInfo.cpp:155), otherwise its message would wait
\* for a completion that never comes.
NoLostSend ==
    mSendLock = "none" /\ mSendDataqueue # << >> /\ ~broken => Outstanding # {}

\* The session implements the ordered stream: what WSASend was given is a
\* gap-free, duplicate-free, in-order prefix of what SendMsg was given,
\* whatever the threads do and whenever the socket fails or is closed.
Stream == INSTANCE OrderedStream
              WITH submitted <- [i \in 1..submitted |-> i], transmitted <- wire

StreamSpec == Stream!Spec

\* Every message handed to SendMsg reaches the socket, unless the connection
\* fails: no interleaving of SendMsg with SendCompleted leaves it behind.
EveryMessageSent ==
    \A m \in Msg : submitted >= m ~> (Len(wire) >= m \/ broken)

\* "If it is a socket error, the client socket is treated as disconnected"
\* (ClientInfo.cpp:131 and :176): a failed operation leads to a closed session.
SocketErrorDisconnects == broken ~> (mSock = "invalid")
=============================================================================
