-------------------------- MODULE ServerLifecycle --------------------------
(***************************************************************************)
(* Start and shutdown of the server: main(), ChatServer's Init, Run and    *)
(* destructor, StartServer and DestroyThread, with the workers, the        *)
(* accepter and the process thread that run meanwhile.                     *)
(*                                                                         *)
(* main names the next thing the main thread does.  What the other threads *)
(* do with a completion or a packet is reduced to the objects they use.    *)
(* PacketManager::End and ChatServer::End have no caller: nothing clears   *)
(* mIsRunProcessThread, and ~PacketManager destroys a joinable thread,     *)
(* which ends the process (std::terminate).                                *)
(***************************************************************************)
EXTENDS Naturals

CONSTANTS
    Worker,       \* the threads of mIOWorkerThreads
    MaxClient,    \* the clients the accepter posts an accept for
    MaxIo         \* bound: operations the kernel completes

ASSUME WorkerAssumption == Worker # {}
ASSUME BoundAssumption == MaxClient \in Nat /\ MaxIo \in Nat

VARIABLES
    main,         \* the next step of the main thread
    srv,          \* what only the main thread writes: the port, whether AcceptEx
                  \* can succeed on mListenSocket, the flags of the threads
    alive,        \* the objects that exist
    worker,       \* where each worker is in WokerThread
    accepter,     \* where the accepter is in AccepterThread
    process,      \* where the process thread is in ProcessPacket
    net,          \* accepts posted; accepts and other operations the kernel
                  \* holds; operations completed in all
    completions,  \* the completions queued on the port, by kind
    queue,        \* the lengths of mInComingPacketUserIndex, mSystemPacketQueue
    undrained,    \* packets were queued or in work when UserManager was deleted
    touched       \* who used an object that does not exist, or "nobody"

threadVars == <<worker, accepter, process, net, completions, queue, touched>>
vars == <<main, srv, alive, undrained, threadVars>>

Manager == {"UserManager", "RoomManager", "AccountDB", "PacketManager"}
Object == Manager \cup {"SendPacketFunc", "Clients"}

\* A refused accept carries the listen socket's key, which is no client.
Kind == {"accepted", "refused", "io"}

MainPc == Manager \cup
    {"InitSocket", "BindandListen", "Init", "SetSendPacketFunc", "Run",
     "CreateClient", "CreateWokerThread", "CreateAccepterThread", "input",
     "flag", "closePort", "joinWorkers", "closeListen", "joinAccepter",
     "terminate", "ended"}

\* The lengths are not negative, the threads and objects are those of the code.
TypeOK ==
    /\ main \in MainPc
    /\ srv \in [port : {"invalid", "open", "closed"}, listening : BOOLEAN,
                mIsWorkerRun : BOOLEAN, mIsAccepterRun : BOOLEAN,
                mIsRunProcessThread : BOOLEAN]
    /\ alive \subseteq Object
    /\ worker \in [Worker -> {"none", "test", "wait", "exit"} \cup Kind]
    /\ accepter \in {"none", "test", "scan", "exit"}
    /\ process \in {"none", "test", "token", "user", "system", "packet"}
    /\ net \in [posted : 0..MaxClient, accepts : Nat, ops : Nat, done : 0..MaxIo]
    /\ completions \in [Kind -> Nat]
    /\ queue \in [inComing : Nat, system : Nat]
    /\ undrained \in BOOLEAN
    /\ touched \in {"nobody", "worker", "process", "poll"}

Init ==
    /\ main = "InitSocket"
    /\ srv = [port |-> "invalid", listening |-> FALSE, mIsWorkerRun |-> TRUE,
              mIsAccepterRun |-> TRUE, mIsRunProcessThread |-> FALSE]
    /\ alive = {}
    /\ worker = [w \in Worker |-> "none"]
    /\ accepter = "none" /\ process = "none"
    /\ net = [posted |-> 0, accepts |-> 0, ops |-> 0, done |-> 0]
    /\ completions = [k \in Kind |-> 0]
    /\ queue = [inComing |-> 0, system |-> 0]
    /\ undrained = FALSE /\ touched = "nobody"

\* The process still runs and has not used freed memory.
Running == main # "ended" /\ touched = "nobody"

\* Thread t uses the objects of need.
Touch(t, need) == touched' = IF need \subseteq alive THEN touched ELSE t
-----------------------------------------------------------------------------
(* The main thread: start.                                                 *)

Main(here, next) == Running /\ main = here /\ main' = next

\* WSAStartup or WSASocket may fail; main() does not look at the result.
InitSocket ==
    /\ Main("InitSocket", "BindandListen")
    /\ \E ok \in BOOLEAN : srv' = [srv EXCEPT !.listening = ok]
    /\ UNCHANGED <<alive, undrained, threadVars>>

\* bind or listen may fail, or the port, or tying the listen socket to it: the
\* server goes on and accepts nobody.
BindandListen ==
    /\ Main("BindandListen", "Init")
    /\ \E ok \in BOOLEAN, p \in {"invalid", "open"} :
          /\ ok \/ p = "open" => srv.listening
          /\ srv' = [srv EXCEPT !.listening = ok, !.port = p]
    /\ UNCHANGED <<alive, undrained, threadVars>>

ChatServerInit ==
    /\ Main("Init", "SetSendPacketFunc")
    /\ alive' = alive \cup Manager
    /\ UNCHANGED <<srv, undrained, threadVars>>

SetSendPacketFunc ==
    /\ Main("SetSendPacketFunc", "Run")
    /\ alive' = alive \cup {"SendPacketFunc"}
    /\ UNCHANGED <<srv, undrained, threadVars>>

\* PacketManager::Run always returns true: main()'s error branch is dead.
Run ==
    /\ Main("Run", "CreateClient")
    /\ srv' = [srv EXCEPT !.mIsRunProcessThread = TRUE]
    /\ process' = "test"
    /\ UNCHANGED <<alive, undrained, worker, accepter, net, completions, queue,
                   touched>>

\* The process thread runs already.
CreateClient ==
    /\ Main("CreateClient", "CreateWokerThread")
    /\ alive' = alive \cup {"Clients"}
    /\ UNCHANGED <<srv, undrained, threadVars>>

CreateWokerThread(w) ==
    /\ Running /\ main = "CreateWokerThread" /\ worker[w] = "none"
    /\ worker' = [worker EXCEPT ![w] = "test"]
    /\ main' = IF \E v \in Worker \ {w} : worker[v] = "none" THEN main
               ELSE "CreateAccepterThread"
    /\ UNCHANGED <<srv, alive, undrained, accepter, process, net, completions,
                   queue, touched>>

CreateAccepterThread ==
    /\ Main("CreateAccepterThread", "input")
    /\ accepter' = "test"
    /\ UNCHANGED <<srv, alive, undrained, worker, process, net, completions,
                   queue, touched>>

Start ==
    \/ InitSocket \/ BindandListen \/ ChatServerInit \/ SetSendPacketFunc \/ Run
    \/ CreateClient \/ CreateAccepterThread
    \/ \E w \in Worker : CreateWokerThread(w)
-----------------------------------------------------------------------------
(* The main thread: "quit", DestroyThread and the destructor.              *)

ReadQuit ==
    /\ Main("input", "flag")
    /\ UNCHANGED <<srv, alive, undrained, threadVars>>

ClearWorkerRun ==
    /\ Main("flag", "closePort")
    /\ srv' = [srv EXCEPT !.mIsWorkerRun = FALSE]
    /\ UNCHANGED <<alive, undrained, threadVars>>

\* Mutant: the port stays open.
ClosePortForgotten ==
    /\ Main("closePort", "joinWorkers")
    /\ UNCHANGED <<srv, alive, undrained, threadVars>>

\* CloseHandle; completions still queued on the port are lost with it.
ClosePort ==
    /\ Main("closePort", "joinWorkers")
    /\ srv' = [srv EXCEPT !.port = "closed"]
    /\ completions' = [k \in Kind |-> 0]
    /\ UNCHANGED <<alive, undrained, worker, accepter, process, net, queue, touched>>

\* Mutant: the workers are not waited for.
JoinWorkersDetached ==
    /\ Main("joinWorkers", "closeListen")
    /\ UNCHANGED <<srv, alive, undrained, threadVars>>

JoinWorkers ==
    /\ \A w \in Worker : worker[w] = "exit"
    /\ Main("joinWorkers", "closeListen")
    /\ UNCHANGED <<srv, alive, undrained, threadVars>>

CloseListen ==
    /\ Main("closeListen", "joinAccepter")
    /\ srv' = [srv EXCEPT !.mIsAccepterRun = FALSE, !.listening = FALSE]
    /\ UNCHANGED <<alive, undrained, threadVars>>

JoinAccepter ==
    /\ accepter = "exit"
    /\ Main("joinAccepter", "UserManager")
    /\ UNCHANGED <<srv, alive, undrained, threadVars>>

DestroyThread == ClearWorkerRun \/ ClosePort \/ JoinWorkers \/ CloseListen \/ JoinAccepter

Busy == queue.inComing + queue.system > 0 \/ process \in {"user", "packet"}

\* ~ChatServer deletes one manager after the other; the process thread runs on.
Delete(m, next) ==
    /\ Main(m, next)
    /\ alive' = alive \ {m}
    /\ undrained' = (undrained \/ (m = "UserManager" /\ Busy))
    /\ UNCHANGED <<srv, threadVars>>

Destructor ==
    \/ Delete("UserManager", "RoomManager")
    \/ Delete("RoomManager", "AccountDB")
    \/ Delete("AccountDB", "PacketManager")
    \/ Delete("PacketManager", "terminate")

\* The members of PacketManager are destroyed in reverse order: the queues and
\* mLock, then mProcessThread, which is joinable.
Terminate ==
    /\ Main("terminate", "ended")
    /\ UNCHANGED <<srv, alive, undrained, threadVars>>

MainThread == Start \/ ReadQuit \/ DestroyThread \/ Destructor \/ Terminate
-----------------------------------------------------------------------------
(* The other threads.                                                      *)

WorkerTest(w) ==
    /\ worker[w] = "test"
    /\ worker' = [worker EXCEPT ![w] = IF srv.mIsWorkerRun THEN "wait" ELSE "exit"]
    /\ UNCHANGED <<net, completions, queue, touched>>

\* GetQueuedCompletionStatus returns a completion ...
WorkerDequeue(w) ==
    /\ worker[w] = "wait" /\ srv.port = "open"
    /\ \E k \in Kind :
          /\ completions[k] > 0
          /\ completions' = [completions EXCEPT ![k] = @ - 1]
          /\ worker' = [worker EXCEPT ![w] = k]
    /\ UNCHANGED <<net, queue, touched>>

\* ... or fails with a null lpOverlapped, when the handle is or becomes invalid.
WorkerReleased(w) ==
    /\ worker[w] = "wait" /\ srv.port # "open"
    /\ worker' = [worker EXCEPT ![w] = "test"]
    /\ UNCHANGED <<net, completions, queue, touched>>

\* OnConnect and OnClose queue a system packet, OnReceive a token, SendCompleted
\* neither; an accept and a receive are followed by the next WSARecv.  Closing
\* the session of a refused accept uses a null client.
WorkerHandle(w) ==
    /\ worker[w] \in Kind
    /\ Touch("worker", {"Clients", "PacketManager", "UserManager"}
                          \cup (IF worker[w] = "refused" THEN {"null"} ELSE {}))
    /\ \E packets \in {"system", "token", "none"} :
          /\ worker[w] # "io" => packets = "system"
          /\ queue' = [inComing |-> queue.inComing + (IF packets = "token" THEN 1 ELSE 0),
                       system |-> queue.system + (IF packets = "system" THEN 1 ELSE 0)]
          /\ net' = [net EXCEPT !.ops =
                       @ + (IF worker[w] = "accepted" \/ packets = "token" THEN 1 ELSE 0)]
    /\ worker' = [worker EXCEPT ![w] = "test"]
    /\ UNCHANGED completions

WokerThread(w) ==
    /\ Running
    /\ WorkerTest(w) \/ WorkerDequeue(w) \/ WorkerReleased(w) \/ WorkerHandle(w)
    /\ UNCHANGED <<main, srv, alive, undrained, accepter, process>>

\* Every client is posted once: its mLatestClosedTimeSec never allows it again.
AccepterThread ==
    /\ Running
    /\ \/ /\ accepter = "test"
          /\ accepter' = IF srv.mIsAccepterRun THEN "scan" ELSE "exit"
          /\ UNCHANGED net
       \/ /\ accepter = "scan" /\ net.posted < MaxClient
          /\ net' = [net EXCEPT !.posted = @ + 1,
                                !.accepts = IF srv.listening THEN @ + 1 ELSE @]
          /\ UNCHANGED accepter
       \/ /\ accepter = "scan" /\ net.posted = MaxClient
          /\ accepter' = "test"
          /\ UNCHANGED net
    /\ UNCHANGED <<main, srv, alive, undrained, worker, process, completions, queue,
                   touched>>

\* Each turn takes a token and runs its packet, then a system packet.
ProcessTest ==
    /\ process = "test" /\ srv.mIsRunProcessThread
    /\ process' = "token"
    /\ UNCHANGED <<queue, touched>>

\* Mutant: the queue is not checked for being empty.
DequeTokenUnchecked ==
    /\ process = "token"
    /\ Touch("poll", {"PacketManager"})
    /\ process' = "user"
    /\ queue' = [queue EXCEPT !.inComing = @ - 1]

DequeToken ==
    /\ process = "token"
    /\ Touch("poll", {"PacketManager"})
    /\ process' = IF queue.inComing > 0 THEN "user" ELSE "system"
    /\ queue' = [queue EXCEPT !.inComing = IF @ > 0 THEN @ - 1 ELSE @]

DequeSystem ==
    /\ process = "system"
    /\ Touch("poll", {"PacketManager"})
    /\ process' = IF queue.system > 0 THEN "packet" ELSE "test"
    /\ queue' = [queue EXCEPT !.system = IF @ > 0 THEN @ - 1 ELSE @]

\* GetPacket and the handler of the packet, or the handler of a system packet.
ProcessHandle ==
    /\ process \in {"user", "packet"}
    /\ Touch("process", {"UserManager", "RoomManager", "AccountDB",
                         "SendPacketFunc", "Clients"})
    /\ process' = IF process = "user" THEN "system" ELSE "test"
    /\ UNCHANGED queue

ProcessPacket ==
    /\ Running
    /\ ProcessTest \/ DequeToken \/ DequeSystem \/ ProcessHandle
    /\ UNCHANGED <<main, srv, alive, undrained, worker, accepter, net, completions>>

\* A client connects, sends or closes, a send is done, or an accept fails since
\* the listen socket is closed (IocpSession has the other failures of an accept).
\* Without a port nobody is told.
KernelComplete ==
    /\ Running /\ net.done < MaxIo
    /\ \E k \in Kind :
          /\ IF k = "io" THEN net.ops > 0
             ELSE net.accepts > 0 /\ (k = "accepted" <=> srv.listening)
          /\ net' = IF k = "io" THEN [net EXCEPT !.ops = @ - 1, !.done = @ + 1]
                    ELSE [net EXCEPT !.accepts = @ - 1, !.done = @ + 1]
          /\ completions' =
                 [completions EXCEPT ![k] = IF srv.port = "open" THEN @ + 1 ELSE @]
    /\ UNCHANGED <<main, srv, alive, undrained, worker, accepter, process, queue, touched>>

Ended == ~Running /\ UNCHANGED vars

Next ==
    \/ MainThread
    \/ \E w \in Worker : WokerThread(w)
    \/ AccepterThread
    \/ ProcessPacket
    \/ KernelComplete
    \/ Ended

Spec == Init /\ [][Next]_vars

\* Every thread is scheduled; nobody need type "quit", no client need connect.
FairSpec ==
    /\ Spec
    /\ WF_vars(Start \/ DestroyThread \/ Destructor \/ Terminate)
    /\ \A w \in Worker : WF_vars(WokerThread(w))
    /\ WF_vars(AccepterThread)
-----------------------------------------------------------------------------
(* No thread uses an object before main() has set it up, although the      *)
(* process thread and the workers are started one after the other while    *)
(* main() goes on (ChatServer::Run, StartServer), and no worker uses one   *)
(* that ~ChatServer has deleted, nor meets an accept refused because       *)
(* DestroyThread closed the listen socket, whose key is no client.  The    *)
(* process thread, which nobody joins,                                     *)
(* reaches the deleted UserManager only when packets were left at "quit",  *)
(* and PacketManager's own queues only once PacketManager is deleted.      *)
OnlyLeftoversDangle ==
    /\ touched # "worker"
    /\ touched = "process" => undrained
    /\ touched = "poll" => main \in {"terminate", "ended"}

(* DestroyThread returns, whatever the workers do when it is called:       *)
(* handle a completion, wait on the port, or are between the test of the   *)
(* flag and the wait; and also when start-up failed and no port exists.    *)
DestroyThreadReturns == (main = "flag") ~> (main = "UserManager")
=============================================================================
