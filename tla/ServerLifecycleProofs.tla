----------------------- MODULE ServerLifecycleProofs -----------------------
(***************************************************************************)
(* Proofs about ServerLifecycle, for any number of workers and clients.    *)
(*                                                                         *)
(* That nobody dangles is not inductive: it rests on what main() has made  *)
(* and not yet deleted at each of its steps (Made), on which threads run   *)
(* then (Threads), on refused accepts never reaching a worker (NoRefusal)  *)
(* and on what the queues can hold (Drained).                              *)
(***************************************************************************)
EXTENDS ServerLifecycle, TLAPS

\* main() before it has made the managers, the send function, the clients ...
BeforeManagers == {"InitSocket", "BindandListen", "Init"}
BeforeRun == BeforeManagers \cup {"SetSendPacketFunc", "Run"}
BeforeWorkers == BeforeRun \cup {"CreateClient"}
BeforeAccepter == BeforeWorkers \cup {"CreateWokerThread", "CreateAccepterThread"}

\* ... after UserManager is deleted, after PacketManager is.
Down == {"RoomManager", "AccountDB", "PacketManager", "terminate", "ended"}
Gone == {"terminate", "ended"}

\* After the workers were joined; after the port was closed.
Joined == {"closeListen", "joinAccepter", "UserManager"} \cup Down
PortClosed == Joined \cup {"joinWorkers"}

Made ==
    /\ main \notin BeforeManagers \cup Down => Manager \subseteq alive
    /\ main \notin BeforeManagers \cup Gone => "PacketManager" \in alive
    /\ main \notin BeforeManagers \cup {"SetSendPacketFunc"} => "SendPacketFunc" \in alive
    /\ main \notin BeforeWorkers => "Clients" \in alive

Threads ==
    /\ main \in BeforeRun => process = "none"
    /\ main \in BeforeWorkers => \A w \in Worker : worker[w] = "none"
    /\ main \in BeforeAccepter => accepter = "none" /\ net.accepts = 0
    /\ main \in Joined => \A w \in Worker : worker[w] = "exit"

NoRefusal ==
    /\ main \in PortClosed => srv.port = "closed"
    /\ srv.port = "open" /\ net.accepts > 0 => srv.listening
    /\ completions["refused"] = 0
    /\ \A w \in Worker : worker[w] # "refused"

Drained ==
    /\ main \in BeforeWorkers => ~Busy
    /\ main \in Down /\ Busy => undrained

Safe == Made /\ Threads /\ NoRefusal /\ Drained /\ OnlyLeftoversDangle

\* What only the main thread writes.
Srv == [port : {"invalid", "open", "closed"}, listening : BOOLEAN,
        mIsWorkerRun : BOOLEAN, mIsAccepterRun : BOOLEAN,
        mIsRunProcessThread : BOOLEAN]

----------------------------------------------------------------------------
(* Type correctness.                                                       *)

\* What BindandListen, the flags and the port leave in srv is of its type.
LEMMA SrvTypes ==
    ASSUME TypeOK, NEW ok \in BOOLEAN, NEW p \in {"invalid", "open", "closed"}
    PROVE  /\ [srv EXCEPT !.listening = ok] \in Srv
           /\ [srv EXCEPT !.listening = ok, !.port = p] \in Srv
           /\ [srv EXCEPT !.port = p] \in Srv
           /\ [srv EXCEPT !.mIsWorkerRun = ok] \in Srv
           /\ [srv EXCEPT !.mIsAccepterRun = ok, !.listening = ok] \in Srv
           /\ [srv EXCEPT !.mIsRunProcessThread = ok] \in Srv
<1>1. srv \in Srv
  BY DEF TypeOK, Srv
<1> QED
  BY <1>1 DEF Srv

\* A step of the main thread that leaves the other threads alone.
LEMMA AloneTypes ==
    ASSUME TypeOK, main' \in MainPc, srv' \in Srv, alive' \subseteq Object,
           undrained' \in BOOLEAN, UNCHANGED threadVars
    PROVE  TypeOK'
BY DEF TypeOK, threadVars, Srv

\* A step of the main thread preserves the types.
LEMMA MainTypes ==
    ASSUME TypeOK, MainThread PROVE TypeOK'
<1> USE DEF Main
<1>0. srv \in Srv /\ alive \subseteq Object /\ undrained \in BOOLEAN
  BY DEF TypeOK, Srv
<1>1. CASE InitSocket
  <2>1. srv' \in Srv
    BY <1>1, SrvTypes DEF InitSocket
  <2>2. main' \in MainPc
    BY <1>1 DEF InitSocket, MainPc
  <2> QED
    BY <1>0, <1>1, <2>1, <2>2, AloneTypes DEF InitSocket
<1>2. CASE BindandListen
  <2>1. srv' \in Srv
    BY <1>2, SrvTypes DEF BindandListen
  <2>2. main' \in MainPc
    BY <1>2 DEF BindandListen, MainPc
  <2> QED
    BY <1>0, <1>2, <2>1, <2>2, AloneTypes DEF BindandListen
<1>3. CASE ClearWorkerRun
  <2>1. srv' \in Srv /\ main' \in MainPc
    BY <1>3, SrvTypes DEF ClearWorkerRun, MainPc
  <2> QED
    BY <1>0, <1>3, <2>1, AloneTypes DEF ClearWorkerRun
<1>4. CASE CloseListen
  <2>1. srv' \in Srv /\ main' \in MainPc
    BY <1>4, SrvTypes DEF CloseListen, MainPc
  <2> QED
    BY <1>0, <1>4, <2>1, AloneTypes DEF CloseListen
<1>5. CASE ChatServerInit \/ SetSendPacketFunc \/ CreateClient
  <2>1. alive' \subseteq Object
    BY <1>0, <1>5 DEF ChatServerInit, SetSendPacketFunc, CreateClient, Object
  <2>2. main' \in MainPc
    BY <1>5 DEF ChatServerInit, SetSendPacketFunc, CreateClient, MainPc
  <2>3. UNCHANGED <<srv, undrained, threadVars>>
    BY <1>5 DEF ChatServerInit, SetSendPacketFunc, CreateClient
  <2> QED
    BY <1>0, <2>1, <2>2, <2>3, AloneTypes
<1>6. CASE Run
  <2>1. srv' \in Srv /\ main' \in MainPc
    BY <1>6, SrvTypes DEF Run, MainPc
  <2> QED
    BY <1>6, <2>1 DEF Run, TypeOK, Srv
<1>7. CASE CreateAccepterThread
  <2>1. main' \in MainPc
    BY <1>7 DEF CreateAccepterThread, MainPc
  <2> QED
    BY <1>7, <2>1 DEF CreateAccepterThread, TypeOK
<1>8. ASSUME NEW w \in Worker, CreateWokerThread(w) PROVE TypeOK'
  <2>1. main' \in MainPc
    BY <1>8 DEF CreateWokerThread, MainPc
  <2>2. worker' \in [Worker -> {"none", "test", "wait", "exit"} \cup Kind]
    BY <1>8 DEF CreateWokerThread, TypeOK
  <2> QED
    BY <1>8, <2>1, <2>2 DEF CreateWokerThread, TypeOK
<1>9. CASE ReadQuit \/ JoinWorkers \/ JoinAccepter \/ Terminate
  <2>1. main' \in MainPc
    BY <1>9 DEF ReadQuit, JoinWorkers, JoinAccepter, Terminate, MainPc, Manager
  <2>2. UNCHANGED <<srv, alive, undrained, threadVars>>
    BY <1>9 DEF ReadQuit, JoinWorkers, JoinAccepter, Terminate
  <2> QED
    BY <1>0, <2>1, <2>2, AloneTypes
<1>10. CASE ClosePort
  <2>1. srv' \in Srv /\ main' \in MainPc /\ completions' \in [Kind -> Nat]
    BY <1>10, SrvTypes DEF ClosePort, MainPc
  <2> QED
    BY <1>10, <2>1 DEF ClosePort, TypeOK, Srv
<1>11. CASE Destructor
  <2>1. main' \in MainPc
    BY <1>11 DEF Destructor, Delete, MainPc, Manager
  <2>2. alive' \subseteq Object /\ UNCHANGED <<srv, threadVars>>
    BY <1>0, <1>11 DEF Destructor, Delete
  <2>3. undrained' \in BOOLEAN
    BY <1>0, <1>11 DEF Destructor, Delete
  <2> QED
    BY <1>0, <2>1, <2>2, <2>3, AloneTypes
<1> QED
  BY <1>1, <1>2, <1>3, <1>4, <1>5, <1>6, <1>7, <1>8, <1>9, <1>10, <1>11
     DEF MainThread, Start, DestroyThread

\* A step of a worker preserves the types.
LEMMA WorkerTypes ==
    ASSUME TypeOK, NEW w \in Worker, WokerThread(w) PROVE TypeOK'
<1> USE DEF TypeOK
<1>1. CASE WorkerTest(w)
  BY <1>1 DEF WorkerTest, WokerThread
<1>2. CASE WorkerDequeue(w)
  <2>1. PICK k \in Kind :
            /\ completions[k] > 0
            /\ completions' = [completions EXCEPT ![k] = @ - 1]
            /\ worker' = [worker EXCEPT ![w] = k]
    BY <1>2 DEF WorkerDequeue
  <2>2. completions' \in [Kind -> Nat]
    BY <2>1
  <2>3. worker' \in [Worker -> {"none", "test", "wait", "exit"} \cup Kind]
    BY <2>1
  <2> QED
    BY <1>2, <2>2, <2>3 DEF WorkerDequeue, WokerThread
<1>3. CASE WorkerReleased(w)
  BY <1>3 DEF WorkerReleased, WokerThread
<1>4. CASE WorkerHandle(w)
  <2>1. PICK packets \in {"system", "token", "none"} :
            /\ queue' = [inComing |-> queue.inComing + (IF packets = "token" THEN 1 ELSE 0),
                         system |-> queue.system + (IF packets = "system" THEN 1 ELSE 0)]
            /\ net' = [net EXCEPT !.ops =
                         @ + (IF worker[w] = "accepted" \/ packets = "token" THEN 1 ELSE 0)]
    BY <1>4 DEF WorkerHandle
  <2>2. queue' \in [inComing : Nat, system : Nat]
    BY <2>1
  <2>3. net' \in [posted : 0..MaxClient, accepts : Nat, ops : Nat, done : 0..MaxIo]
    BY <2>1
  <2>4. /\ touched' \in {"nobody", "worker", "process", "poll"}
        /\ worker' \in [Worker -> {"none", "test", "wait", "exit"} \cup Kind]
    BY <1>4 DEF WorkerHandle, Touch
  <2> QED
    BY <1>4, <2>2, <2>3, <2>4 DEF WorkerHandle, WokerThread
<1> QED
  BY <1>1, <1>2, <1>3, <1>4 DEF WokerThread

\* A step of the accepter, the process thread or the kernel preserves the types.
LEMMA OtherTypes ==
    ASSUME TypeOK, AccepterThread \/ ProcessPacket \/ KernelComplete PROVE TypeOK'
<1> USE DEF TypeOK
<1>1. CASE AccepterThread
  <2>1. CASE UNCHANGED net
    BY <1>1, <2>1 DEF AccepterThread
  <2>2. CASE /\ net.posted < MaxClient
             /\ net' = [net EXCEPT !.posted = @ + 1,
                                   !.accepts = IF srv.listening THEN @ + 1 ELSE @]
             /\ UNCHANGED accepter
    <3>1. /\ net.posted + 1 \in 0..MaxClient
          /\ (IF srv.listening THEN net.accepts + 1 ELSE net.accepts) \in Nat
      BY <2>2, BoundAssumption
    <3>2. net' \in [posted : 0..MaxClient, accepts : Nat, ops : Nat, done : 0..MaxIo]
      BY <2>2, <3>1
    <3> QED
      BY <1>1, <2>2, <3>2 DEF AccepterThread
  <2> QED
    BY <1>1, <2>1, <2>2 DEF AccepterThread
<1>2. CASE ProcessPacket
  <2>1. queue' \in [inComing : Nat, system : Nat]
    BY <1>2 DEF ProcessPacket, ProcessTest, DequeToken, DequeSystem, ProcessHandle
  <2> QED
    BY <1>2, <2>1 DEF ProcessPacket, ProcessTest, DequeToken, DequeSystem, ProcessHandle, Touch
<1>3. CASE KernelComplete
  <2>1. PICK k \in Kind :
            /\ IF k = "io" THEN net.ops > 0
               ELSE net.accepts > 0 /\ (k = "accepted" <=> srv.listening)
            /\ net' = IF k = "io" THEN [net EXCEPT !.ops = @ - 1, !.done = @ + 1]
                      ELSE [net EXCEPT !.accepts = @ - 1, !.done = @ + 1]
            /\ completions' =
                   [completions EXCEPT ![k] = IF srv.port = "open" THEN @ + 1 ELSE @]
    BY <1>3 DEF KernelComplete
  <2>2. net.done + 1 \in 0..MaxIo
    BY <1>3, BoundAssumption DEF KernelComplete
  <2>3. net' \in [posted : 0..MaxClient, accepts : Nat, ops : Nat, done : 0..MaxIo]
    <3>1. CASE k = "io"
      <4>1. net' = [net EXCEPT !.ops = @ - 1, !.done = @ + 1] /\ net.ops - 1 \in Nat
        BY <2>1, <3>1
      <4> QED
        BY <4>1, <2>2
    <3>2. CASE k # "io"
      <4>1. net' = [net EXCEPT !.accepts = @ - 1, !.done = @ + 1] /\ net.accepts - 1 \in Nat
        BY <2>1, <3>2
      <4> QED
        BY <4>1, <2>2
    <3> QED
      BY <3>1, <3>2
  <2>4. completions' \in [Kind -> Nat]
    BY <2>1
  <2> QED
    BY <1>3, <2>3, <2>4 DEF KernelComplete
<1> QED
  BY <1>1, <1>2, <1>3

(* The threads, flags and counters of start and shutdown are always those  *)
(* of the code, and no queue length drops below zero.                      *)
THEOREM TypeCorrect == Spec => []TypeOK
<1>1. Init => TypeOK
  <2>1. 0 \in 0..MaxClient /\ 0 \in 0..MaxIo
    BY BoundAssumption
  <2> SUFFICES ASSUME Init PROVE TypeOK
    OBVIOUS
  <2>2. net \in [posted : 0..MaxClient, accepts : Nat, ops : Nat, done : 0..MaxIo]
    BY <2>1 DEF Init
  <2>3. /\ worker \in [Worker -> {"none", "test", "wait", "exit"} \cup Kind]
        /\ completions \in [Kind -> Nat]
    BY DEF Init
  <2>4. /\ main \in MainPc
        /\ srv \in [port : {"invalid", "open", "closed"}, listening : BOOLEAN,
                    mIsWorkerRun : BOOLEAN, mIsAccepterRun : BOOLEAN,
                    mIsRunProcessThread : BOOLEAN]
        /\ queue \in [inComing : Nat, system : Nat]
    BY DEF Init, MainPc
  <2> QED
    BY <2>2, <2>3, <2>4 DEF Init, TypeOK
<1>2. TypeOK /\ [Next]_vars => TypeOK'
  <2> SUFFICES ASSUME TypeOK, [Next]_vars PROVE TypeOK'
    OBVIOUS
  <2>1. CASE UNCHANGED vars
    BY <2>1 DEF vars, threadVars, TypeOK
  <2> QED
    BY <2>1, MainTypes, WorkerTypes, OtherTypes DEF Next, Ended
<1> QED
  BY <1>1, <1>2, PTL DEF Spec

----------------------------------------------------------------------------
(* Nobody uses what is not there.                                          *)

\* What main() does before it waits for the quit preserves the invariant.
LEMMA StartSafe ==
    ASSUME TypeOK, Safe, Start PROVE Safe'
<1> USE DEF Main, threadVars, BeforeAccepter, BeforeWorkers, BeforeRun,
            BeforeManagers, Down, Gone, Joined, PortClosed, Manager
<1>1. CASE InitSocket \/ BindandListen
  <2>1. /\ main \in {"InitSocket", "BindandListen"} /\ main' \in BeforeManagers
        /\ UNCHANGED <<alive, undrained, threadVars>>
    <3>1. CASE InitSocket
      BY <3>1 DEF InitSocket
    <3>2. CASE BindandListen
      BY <3>2 DEF BindandListen
    <3> QED
      BY <1>1, <3>1, <3>2
  <2>2. Made' /\ Threads' /\ Drained' /\ OnlyLeftoversDangle'
    BY <2>1 DEF Safe, Made, Threads, Drained, Busy, OnlyLeftoversDangle
  <2>3. net'.accepts = 0
    BY <2>1 DEF Safe, Threads
  <2>4. NoRefusal'
    BY <2>1, <2>3 DEF Safe, NoRefusal
  <2> QED
    BY <2>2, <2>4 DEF Safe
<1>2. CASE ChatServerInit \/ SetSendPacketFunc \/ CreateClient
  BY <1>2 DEF ChatServerInit, SetSendPacketFunc, CreateClient, Safe, Made, Threads,
              NoRefusal, Drained, Busy, OnlyLeftoversDangle, TypeOK
<1>3. CASE Run
  BY <1>3 DEF Run, Safe, Made, Threads, NoRefusal, Drained, Busy, OnlyLeftoversDangle, TypeOK
<1>4. CASE CreateAccepterThread
  BY <1>4 DEF CreateAccepterThread, Safe, Made, Threads, NoRefusal, Drained, Busy,
              OnlyLeftoversDangle, TypeOK
<1>5. ASSUME NEW w \in Worker, CreateWokerThread(w) PROVE Safe'
  BY <1>5 DEF CreateWokerThread, Safe, Made, Threads, NoRefusal, Drained, Busy,
              OnlyLeftoversDangle, TypeOK
<1> QED
  BY <1>1, <1>2, <1>3, <1>4, <1>5 DEF Start

\* DestroyThread, the destructor and the end preserve the invariant.
LEMMA StopSafe ==
    ASSUME TypeOK, Safe, ReadQuit \/ DestroyThread \/ Destructor \/ Terminate
    PROVE  Safe'
<1> USE DEF Main, threadVars, BeforeAccepter, BeforeWorkers, BeforeRun,
            BeforeManagers, Down, Gone, Joined, PortClosed, Manager
<1>1. CASE ReadQuit \/ JoinWorkers \/ JoinAccepter
  BY <1>1 DEF ReadQuit, JoinWorkers, JoinAccepter, Safe, Made, Threads, NoRefusal, Drained,
              Busy, OnlyLeftoversDangle
<1>2. CASE ClearWorkerRun
  <2>1. srv'.port = srv.port /\ srv'.listening = srv.listening
    BY <1>2 DEF ClearWorkerRun, TypeOK
  <2>2. Made' /\ Threads' /\ Drained' /\ OnlyLeftoversDangle'
    BY <1>2 DEF ClearWorkerRun, Safe, Made, Threads, Drained, Busy, OnlyLeftoversDangle
  <2>3. NoRefusal'
    BY <1>2, <2>1 DEF ClearWorkerRun, Safe, NoRefusal
  <2> QED
    BY <2>2, <2>3 DEF Safe
<1>3. CASE ClosePort
  <2>1. srv'.port = "closed" /\ completions'["refused"] = 0
    BY <1>3 DEF ClosePort, TypeOK, Kind
  <2>2. Made' /\ Threads' /\ Drained' /\ OnlyLeftoversDangle'
    BY <1>3 DEF ClosePort, Safe, Made, Threads, Drained, Busy, OnlyLeftoversDangle
  <2>3. NoRefusal'
    BY <1>3, <2>1 DEF ClosePort, Safe, NoRefusal
  <2> QED
    BY <2>2, <2>3 DEF Safe
<1>4. CASE CloseListen
  <2>1. srv'.port = "closed"
    BY <1>4 DEF CloseListen, Safe, NoRefusal, TypeOK
  <2>2. Made' /\ Threads' /\ Drained' /\ OnlyLeftoversDangle'
    BY <1>4 DEF CloseListen, Safe, Made, Threads, Drained, Busy, OnlyLeftoversDangle
  <2>3. NoRefusal'
    BY <1>4, <2>1 DEF CloseListen, Safe, NoRefusal
  <2> QED
    BY <2>2, <2>3 DEF Safe
<1>5. CASE Destructor
  <2>1. /\ main \in {"UserManager", "RoomManager", "AccountDB", "PacketManager"}
        /\ main' \in Down \ {"ended"} /\ UNCHANGED <<srv, threadVars>>
        /\ alive \ alive' \subseteq {main}
        /\ main = "PacketManager" <=> main' = "terminate"
    BY <1>5 DEF Destructor, Delete
  <2>2. undrained => undrained'
    BY <1>5 DEF Destructor, Delete
  <2>3. main = "UserManager" /\ Busy => undrained'
    BY <1>5 DEF Destructor, Delete
  <2>4. Made'
    BY <2>1 DEF Safe, Made
  <2>5. Threads' /\ NoRefusal'
    BY <2>1 DEF Safe, Threads, NoRefusal
  <2>6. Busy' <=> Busy
    BY <2>1 DEF Busy
  <2>7. Drained'
    BY <2>1, <2>2, <2>3, <2>6 DEF Safe, Drained
  <2>8. OnlyLeftoversDangle'
    BY <2>1, <2>2 DEF Safe, OnlyLeftoversDangle
  <2> QED
    BY <2>4, <2>5, <2>7, <2>8 DEF Safe
<1>6. CASE Terminate
  BY <1>6 DEF Terminate, Safe, Made, Threads, NoRefusal, Drained, Busy,
              OnlyLeftoversDangle
<1> QED
  BY <1>1, <1>2, <1>3, <1>4, <1>5, <1>6 DEF DestroyThread

\* A worker preserves the invariant: while it runs, main() has deleted nothing.
LEMMA WorkerSafe ==
    ASSUME TypeOK, Safe, NEW w \in Worker, WokerThread(w) PROVE Safe'
<1> USE DEF Safe, WokerThread
<1>1. /\ worker[w] \notin {"none", "exit"} /\ worker[w] # "refused"
      /\ main \notin BeforeWorkers \cup Joined
  BY DEF Threads, NoRefusal, WorkerTest, WorkerDequeue, WorkerReleased, WorkerHandle, Kind, TypeOK
<1>2. /\ {"Clients", "PacketManager", "UserManager"} \subseteq alive
      /\ main \notin BeforeWorkers \cup Down \cup BeforeRun
  BY <1>1 DEF Made, Manager, Joined, Down, Gone, BeforeWorkers, BeforeRun
<1>3. touched' = touched
  BY <1>1, <1>2 DEF WorkerTest, WorkerDequeue, WorkerReleased, WorkerHandle, Touch
<1>4. Made' /\ Drained' /\ OnlyLeftoversDangle'
  BY <1>2, <1>3 DEF Made, Drained, OnlyLeftoversDangle
<1>5. net'.accepts = net.accepts
  BY DEF WorkerTest, WorkerDequeue, WorkerReleased, WorkerHandle, TypeOK
<1>6. worker'[w] # "refused" /\ completions'["refused"] = 0
  BY <1>1 DEF NoRefusal, WorkerTest, WorkerDequeue, WorkerReleased, WorkerHandle, TypeOK, Kind
<1>7. \A v \in Worker : v # w => worker'[v] = worker[v]
  BY DEF WorkerTest, WorkerDequeue, WorkerReleased, WorkerHandle, TypeOK
<1>8. NoRefusal'
  BY <1>5, <1>6, <1>7 DEF NoRefusal
<1>9. Threads'
  BY <1>1, <1>5 DEF Threads, BeforeWorkers
<1> QED
  BY <1>4, <1>8, <1>9

\* The accepter preserves the invariant: what it posts, it posts while listening.
LEMMA AccepterSafe ==
    ASSUME TypeOK, Safe, AccepterThread PROVE Safe'
<1>1. accepter # "none" /\ main \notin BeforeAccepter
  BY DEF AccepterThread, Safe, Threads
<1>2. net'.accepts > 0 => net.accepts > 0 \/ srv.listening
  BY DEF AccepterThread, TypeOK
<1>3. Made' /\ Drained' /\ OnlyLeftoversDangle'
  BY DEF AccepterThread, Safe, Made, Drained, Busy, OnlyLeftoversDangle
<1>4. Threads' /\ NoRefusal'
  BY <1>1, <1>2 DEF AccepterThread, Safe, Threads, NoRefusal
<1> QED
  BY <1>3, <1>4 DEF Safe

\* The process thread preserves the invariant: it uses the managers only with a
\* packet in hand, and there is none before the workers run.
LEMMA ProcessSafe ==
    ASSUME TypeOK, Safe, ProcessPacket PROVE Safe'
<1> USE DEF Safe, ProcessPacket
<1>1. main \notin BeforeRun
  BY DEF Threads, ProcessTest, DequeToken, DequeSystem, ProcessHandle
<1>2. Made' /\ Threads' /\ NoRefusal'
  BY <1>1 DEF Made, Threads, NoRefusal
<1>3. Busy' => Busy
  BY DEF Busy, ProcessTest, DequeToken, DequeSystem, ProcessHandle, TypeOK
<1>4. Drained'
  BY <1>3 DEF Drained
<1>5. OnlyLeftoversDangle'
  <2>1. CASE ProcessTest
    BY <2>1 DEF ProcessTest, OnlyLeftoversDangle
  <2>2. CASE DequeToken \/ DequeSystem
    BY <1>1, <2>2 DEF DequeToken, DequeSystem, Touch, OnlyLeftoversDangle, Made, Running,
                      Gone, BeforeManagers, BeforeRun
  <2>3. CASE ProcessHandle
    <3>1. Busy
      BY <2>3 DEF ProcessHandle, Busy
    <3>2. undrained \/ {"UserManager", "RoomManager", "AccountDB", "SendPacketFunc",
                        "Clients"} \subseteq alive
      BY <3>1, <1>1 DEF Drained, Made, Manager, BeforeManagers, BeforeRun, BeforeWorkers
    <3> QED
      BY <2>3, <3>2 DEF ProcessHandle, Touch, OnlyLeftoversDangle, Running
  <2> QED
    BY <2>1, <2>2, <2>3
<1> QED
  BY <1>2, <1>4, <1>5

\* The kernel preserves the invariant: while the port is open nothing is refused.
LEMMA KernelSafe ==
    ASSUME TypeOK, Safe, KernelComplete PROVE Safe'
<1>1. PICK k \in Kind :
          /\ IF k = "io" THEN net.ops > 0
             ELSE net.accepts > 0 /\ (k = "accepted" <=> srv.listening)
          /\ net' = IF k = "io" THEN [net EXCEPT !.ops = @ - 1, !.done = @ + 1]
                    ELSE [net EXCEPT !.accepts = @ - 1, !.done = @ + 1]
          /\ completions' =
                 [completions EXCEPT ![k] = IF srv.port = "open" THEN @ + 1 ELSE @]
  BY DEF KernelComplete
<1>2. net'.accepts <= net.accepts /\ (net.accepts = 0 => net'.accepts = 0)
  BY <1>1 DEF TypeOK
<1>3. completions'["refused"] = 0
  BY <1>1 DEF Safe, NoRefusal, TypeOK, Kind
<1>4. Made' /\ Drained' /\ OnlyLeftoversDangle'
  BY DEF KernelComplete, Safe, Made, Drained, Busy, OnlyLeftoversDangle
<1>5. Threads'
  BY <1>2 DEF KernelComplete, Safe, Threads
<1>6. NoRefusal'
  BY <1>2, <1>3 DEF KernelComplete, Safe, NoRefusal, TypeOK
<1> QED
  BY <1>4, <1>5, <1>6 DEF Safe

(* For any number of workers and clients and any failure of start-up: no   *)
(* thread uses an object before main() has set it up, no worker one that   *)
(* was deleted or the null client of a refused accept, and the process     *)
(* thread meets a deleted manager only when packets were left at the quit. *)
THEOREM NobodyElseDangles == Spec => []OnlyLeftoversDangle
<1>1. Init => Safe
  BY DEF Init, Safe, Made, Threads, NoRefusal, Drained, Busy, OnlyLeftoversDangle, Kind,
         BeforeAccepter, BeforeWorkers, BeforeRun, BeforeManagers, Down, Gone, Joined,
         PortClosed
<1>2. TypeOK /\ Safe /\ [Next]_vars => Safe'
  <2> SUFFICES ASSUME TypeOK, Safe, [Next]_vars PROVE Safe'
    OBVIOUS
  <2>1. CASE UNCHANGED vars
    BY <2>1 DEF vars, threadVars, Safe, Made, Threads, NoRefusal, Drained, Busy,
                OnlyLeftoversDangle
  <2> QED
    BY <2>1, StartSafe, StopSafe, WorkerSafe, AccepterSafe, ProcessSafe, KernelSafe
       DEF Next, Ended, MainThread
<1>3. Safe => OnlyLeftoversDangle
  BY DEF Safe
<1> QED
  BY <1>1, <1>2, <1>3, TypeCorrect, PTL DEF Spec
=============================================================================
