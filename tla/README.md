# LHJSample: TLA+ models, checks and proofs

LHJSample is a chat server for Windows (C++, I/O completion ports) with a C#
client. The server accepts up to 100 clients, lets them create an account, log
in, list rooms, enter one, chat and leave. This directory holds TLA+ models of
the logic of both, TLC configurations that check them on small instances,
and TLAPS proofs of the main safety properties for every size. Paths below are
relative to `src/LHJSample/` unless they start with `src/`.

## 1. Inventory

| Component | State | Operations | Must hold |
|---|---|---|---|
| ClientInfo, send path (`ServerNetwork/ClientInfo.cpp`) | `mSendDataqueue`, `mSendLock`, `mSock` | `SendMsg`, `SendIO`, `SendCompleted` | one send outstanding, in order, none lost, none freed early |
| ClientInfo, session (same file) | `mSock`, `mLatestClosedTimeSec`, `mRecvBuf` | `PostAccept`, `AcceptCompletion`, `BindRecv`, `Close` | one receive outstanding; a slot is taken once; errors close |
| IOCPServer (`ServerNetwork/IOCPServer.cpp`) | the clients, `mClientCnt`, the port | `WokerThread` (4 threads), `AccepterThread`, `CloseSocket` | every close is reported |
| Start and shutdown (`main.cpp`, `ChatServer.cpp`, `IOCPServer.cpp`) | the port, the run flags, the threads, the managers | `InitSocket`, `BindandListen`, `Init`, `Run`, `StartServer`, `DestroyThread`, `~ChatServer` | nobody uses what is not made yet or is gone; shutdown ends |
| ChatServer (`ChatServer.cpp`) | none of its own | `OnConnect`, `OnClose`, `OnReceive` | packets are queued in an order that makes sense |
| PacketManager (`PacketManager.cpp`) | `mSystemPacketQueue`, `mInComingPacketUserIndex` | `ProcessPacket` (1 thread) | every packet is handled, a closed session is torn down |
| User, buffer (`User/User.cpp`) | buffer, `WPos`, `RPos` | `SetPacketData`, `GetPacket`, `Clear` | exact framing, no overrun |
| User, states (`User/State/*`) | `mState`, handler table, `mUserID`, `mRoomIndex` | seven requests | requests only in the right state |
| UserManager (`User/UserManager.cpp`) | `mUserIDDictionary` | `CheckLoginable`, `AddUser`, `DeleteUserInfo` | one session per id, no stale entry |
| Room, RoomManager (`Room/*`) | `mUserList`, `mCurrentUserCount` | `EnterUser`, `LeaveUser`, `NotifyChat` | capacity, one room per user, chat reaches the room |
| AccountDB (`DB/AccountDB.cpp`, `src/0*.sql`) | the table, one statement handle | `CreateAccount`, `SelectAccount` | no login without an account |
| Client, receive path (`src/LHJSampleClientCS/PacketBufferManager.cs`, `Form1.cs`) | `PacketData`, `ReadPos`, `WritePos`, `RecvPacketQueue` | `Write`, `Read`, `NetworkReadProcess`, `BackGroundProcess` | exact framing, no packet left behind |
| Client, send path (`src/LHJSampleClientCS/Form1.cs`, `ClientNetwork.cs`) | `SendPacketQueue`, the socket | `PostSendPacket`, `NetworkSendProcess`, `Send` | in order, none lost, none twice |
| Client, form (`src/LHJSampleClientCS/Form1.cs`) | the buttons, `LobbyRoomList`, `UserList` | six clicks, ten packet handlers | what is shown and can be pressed agrees with the server |
| RedisManager, ConfigLoader, echo client | | | not modelled, see section 8 |

Interaction: the kernel queues completions on one port. Any of four workers
takes a completion. An accept posts the first receive and then queues
`SYS_USER_CONNECT`; a receive writes the bytes into the User's buffer, queues
the client's index as a token and posts the next receive; a completed send pops
the session's queue and starts the next one; a failed completion, or one of
zero bytes, closes the session and queues `SYS_USER_DISCONNECT`. One process
thread takes tokens and system packets in turn, runs the handlers and sends the
answers, so that sends are started by that thread and by the workers. The
buffer of a User is shared by a worker and the process thread without a lock.
The main thread starts the process thread, then the workers, then the accepter;
on "quit" it joins the workers and the accepter and deletes the managers, while
the process thread runs on.
In the client a read thread frames and queues packets, a send thread empties
SendPacketQueue, and the UI thread handles clicks and, every 100 ms, one packet.

What is hard here, line by line, is the list `hazards` in PROJECT.json.

## 2. Modules

| Module | Models | State and actions |
|---|---|---|
| `OrderedStream` | what a session's send path promises | two sequences; Submit, Transmit |
| `SendQueue` | ClientInfo's send path, with the threads and the kernel around it | one action per stretch of code between two points where another thread can interfere; `mSendLock` is a variable |
| `SendQueueProofs` | | theorems about SendQueue |
| `IocpSession` | sessions from accept to teardown: accepter, workers, kernel, the two packet queues | a worker's `pc` names the next call it makes in `WokerThread` |
| `IocpSessionProofs` | | theorems about IocpSession |
| `PacketBuffer` | the receive buffer of one User and the token queue | the loads and stores of the two positions, by a worker and by the process thread |
| `PacketBufferProofs` | | theorems about PacketBuffer |
| `AccountDB` | the account table and the statement handle | CreateAccount and SelectAccount as sub-actions with a result |
| `ChatLogic` | User, UserManager, Room, RoomManager and the handlers; extends AccountDB | one action per handler: only the process thread touches this state |
| `ChatLogicProofs` | | theorems about ChatLogic |
| `ClientReceive` | the client's packet buffer, read thread and timer | one action per receive, per `Read` and per tick; the buffer belongs to the read thread, the queue is locked |
| `ClientReceiveProofs` | | theorems about ClientReceive |
| `ChatClient` | the client's form, composed with the handlers of ChatLogic (which it extends) | one action per click, per handled packet and per request served; `toServer` and `toClient` are the packets on the way |
| `ChatTokens` | ChatClient with the way the server gets at the requests: a User's buffer, counted in whole requests, and the tokens | a receive brings any number of requests and a piece of the next, and one token; a token takes at most one request; a system packet clears the buffer |
| `ChatClientProofs` | | theorems about ChatClient and the server together; extends ChatLogicProofs |
| `ClientSendQueue` | the client's send path on .NET's `Queue<T>` | the loads and stores of the queue's fields by the UI thread's Enqueue, which takes no lock, and by the send thread's Dequeue |
| `ClientSendQueueProofs` | | theorems about ClientSendQueue |
| `ServerLifecycle` | `main()`, start, `DestroyThread` and the destructor, with all threads | one action per step of the main thread; the other threads are reduced to where they are in their loops and which objects they use |
| `ServerLifecycleProofs` | | theorems about ServerLifecycle |
| `MCChatLogic`, `MCClientReceive`, `MCChatClient`, `MCChatTokens` | | constants and symmetry for TLC |

Abstractions. A message is its number, a packet in `out` is its id with the
part of the body the properties tell apart. `mUserList` is kept as how often
each User is in it. A byte is its position in the client's stream, so that a
buffer shows which bytes it holds. In ServerLifecycle completions and queued
packets are counted, by kind. Time is a counter of seconds. Logging is
left out. External parts (sockets, the port, the database engine and the rules
of an ODBC statement with an open cursor, the fields of `Queue<T>` and the order
in which its methods access them) are modelled from how the code uses
them and marked so in the map.

Data races. `++mClientCnt` is a load and a store. The buffer's positions are
loaded and stored one by one; where the compiler may use an earlier load or
load again, both happen; a header read where no packet starts has any length.
(In the client, a size read where no packet starts is any member of `Garbage`;
a size that makes the code throw on the read thread ends the process.)
An access outside the buffer ends the run of the model (`fault`), and so does a
null dereference in `IocpSession` and `ChatLogic`: the process dies, and no
property claims anything about it afterwards.

What one module assumes and another shows:
- ChatLogic lets `SYS_USER_CONNECT` arrive once per slot: `SlotTakenOnce` in
  IocpSession.
- PacketBuffer has one writer: `OneReceiver` in IocpSession.
- ChatClient's `toClient` is a queue: `StreamSpec` of SendQueue on the server's
  side, `FramesInOrder` on the client's. That `toServer` is one holds as far as
  PacketBuffer and ClientSendQueue show, i.e. with the excuses of section 5.
- ChatTokens counts whole requests and leaves positions and bytes to PacketBuffer,
  so it holds while no compaction has met the reader (`raced`) and no Clear has
  cut a request in the middle. That a connected session has a receive posted is
  `OneReceiver` in IocpSession, as long as no `WSARecv` has failed (`recvError`).
- IocpSession and ChatLogic start with every object in place, and nothing in
  them is ever deleted: `OnlyLeftoversDangle` in ServerLifecycle.
- In ServerLifecycle an accept fails only because the listen socket is closed;
  the other failures of an accept, which reach the null client while the server
  runs, are in IocpSession (`fault`).
- SendQueue starts SendMsg from one thread: the process thread is the only
  caller of `sendPacketFunc`, as the comment at `ClientInfo.cpp:141` demands.

## 3. Runs that pass

- **SendQueue** (3 workers, 4 messages; 12 thousand states). `CompletionIsFront`,
  `NoUseAfterFree`, `NoLostSend`, the refinement `StreamSpec` and the liveness
  `EveryMessageSent`. Two messages make the queue non-empty when SendMsg
  pushes, three let a push fall between a pop and the next completion; a third
  worker matters because two can be busy with a completion and a close.
- **ChatLogic** (3 sessions, ids `""`, `kim`, `lee`, two passwords of which one
  is truncated to the other, 2 rooms of 2 places; 956 thousand states up to
  symmetry). Login directory, rooms, acknowledgements and chat. Three
  sessions fill a room of two and leave one outside; counters never
  decrease, so all behaviours are finite without a bound.
- **IocpSession** (2 slots, 3 workers, 2 receives and 1 send in all; 712
  thousand states). `OneReceiver`, `SlotTakenOnce` and the liveness
  `ClosedSessionTornDown`. `OneReceiver` has two sides: never two receives of
  one session, and never none while it is connected, unless a `WSARecv` has
  failed; what happens then is the run IocpRecvErrors (section 4). Two receives are needed for a worker to post the
  second while another handles a failure.
- **PacketBuffer** (buffer of 5, header of 2, three packets of 2 or 3 bytes, up
  to 3 bytes per receive, one Clear; 6.9 million states). `PacketsInOrder`,
  `OverrunOnlyWhenFull`, and `NothingLeftAtRest`: since both threads come to
  rest after every receive, it is what "every packet is handled" amounts to. The
  stream is longer than the buffer, so compaction, wrap-around of the unsigned
  difference and overrun all happen.
- **ClientReceive** (buffer of 12, packets of 2 or 3 bytes, receives of up to 6,
  six packets; 109 thousand states). The ratios are those of the code: header <
  packet (1024) < receive (2048) < buffer (80960). Six packets fill the buffer,
  so it is relocated, with a packet cut in two, and a receive is refused, after
  which sizes are read out of step, which may end the process.
- **ChatClient** (2 clients, 6 clicks in all, one broken connection, one room
  of two places; 1.5 million states up to symmetry). Four clicks bring both
  clients into the room, two more leave and enter again, or are double clicks
  and clicks whose answer is on the way. A place is never given back, so that
  with an enter, a leave and another enter the room is full and the next enter is
  refused with a client inside; a number that is no room is always refused.
  `NoNullRoom`, `ButtonsMatchState`, `CompanionsShown`, `NobodyElseShown`, and
  `OutsidersSilent`: the server moves the user of a refused client into the room
  state all the same, and what it sends from there must reach nobody.
- **ChatTokens** (1 client, 6 clicks, one broken connection, a room of one place;
  576 thousand states). `LobbyAnswered`, a liveness property. Other clients
  affect this one in three ways: by an id in use, after which it has asked for
  nothing, as after any refused login; by a full room, which one client meets by
  its second enter, since a place is never given back; and by their share of the
  process thread, which fairness stands for. Six clicks are a login, an enter, a
  leave, a refused enter, and two to double any of them or to refresh. A request
  comes in two pieces at most, and in pieces only while the user is up.
- **ServerLifecycle** (3 workers, 2 clients, 4 completed operations; 116 thousand
  states). `OnlyLeftoversDangle` and the liveness `DestroyThreadReturns`. Three
  workers can be in three different places when the port is closed; four
  operations bring two clients in and leave packets of both for the destructor.
  Start-up may fail at any of its calls, since main() looks at none of the
  results.
- **ClientSendQueue** (6 packets, the array grows by 3, so from 0 to 3 to 6; 590
  thousand states). `SentInOrder`, `NeverTwice` and the liveness
  `EveryPacketSent`. Six packets make the queue grow twice, from a wrapped array
  too, and meet a Dequeue at every point of a growth. (The code's first capacity
  is 4; a smaller one reaches the same cases with fewer packets.)

What the client's properties leave out is what the model shows to happen. A
refused enter moves the server's user into the room state all the same while
the client stays in the lobby, where the server answers nothing it asks
(`stranded`). An arrival that is reported before the list of the room is shown
twice, since the list holds it too (`early`). A broken connection is not
reported to the room, so its entry stays. A client shows nobody it should not
and misses nobody in all other cases.

What ClientSendQueue and ServerLifecycle excuse is reachable as well. In the client a
store to `_size` that overwrites another one (`lost`) delays a packet until the
next one, drops it, lets packets overtake each other, or hands null to `Send`,
whose exception ends the process; but it repeats nothing, since a taken slot is
null. An array replaced during a Dequeue (`torn`) can also bring a packet back.
A socket that the read thread closes between `Send`'s test and the call ends the
process even without such a race. In the server, packets that are left at "quit"
make the process thread use the deleted UserManager (`undrained`); and whatever
happens, `~PacketManager` destroys a thread that was never joined, which ends the
process with `std::terminate`, since nobody calls `PacketManager::End` (which
would follow the uninitialised `mRedisMgr`).

Deadlock is checked everywhere but in ChatClient and ChatTokens, where the users
may simply stop clicking. In the others, states in which the system rests (bounds reached, nothing pending, or the process dead) have an explicit
stuttering action that is enabled only there.

## 4. Runs that show a disagreement

Each checks one sentence of the repository against the code; `findings` quotes
it.

- **SendQueueErrors**: a `WSASend` that fails at once is ignored; the queue is
  stuck and the session stays open, though the comment says it is treated as a
  disconnect.
- **ChatEmptyId**: a user that never logged in erases the directory entry of
  the empty id on disconnect, so two sessions can be logged in under it. This
  is why `LoginExclusive` is stated for the other ids.
- **IocpRecvErrors**: `WokerThread` ignores the result of the `BindRecv` after a
  receive (`IOCPServer.cpp:259`), so a session whose `WSARecv` fails at once stays
  open and deaf, though the comment in `BindRecv` (`ClientInfo.cpp:131`) says that
  an error is treated as a disconnect. Checked under fairness: the session is
  never closed, not just late.

Two more sentences the code contradicts need no interleaving to see, and a test
of one function shows them, so no run is spent on them. Creating an account that
exists is acknowledged as created: `AccountDB::CreateAccount` (`AccountDB.cpp:53`)
looks at the success of the statement only, while the procedure reports "account
that exists already" by `RETURN 1` (`src/03_Account_Procedure.sql:47`). And
`mClientCnt`, called the number of connected clients (`IOCPServer.h:69`), is never
decremented, and may miss a client when two workers accept at the same time
(`IOCPServer.cpp:246`); nothing reads it. Both are in the models as the code has
them.

Two things look unintended, but no sentence says otherwise, so no run
checks them. A slot is never used again: `PostAccept` marks it as closed at
`UINT32_MAX` (`ClientInfo.cpp:34`), so that the accepter passes it over
(`IOCPServer.cpp:288-291`), and `Close` does not set the time. A server
therefore serves 100 connections in its life. The name of
`RE_USE_SESSION_WAIT_TIMESEC` (`ServerNetwork/Define.h:8`) shows that reuse was meant;
`SlotTakenOnce` holds because it does not happen, and the modules that start from
fresh sessions (SendQueue, ChatLogic) rest on it: whoever makes slots reusable
has to look at the stale completions, queue entries and disconnect packets that
`SlotTakenOnce` rules out today. And a room never gives a place back
(`Room.cpp:46`): the counter only grows, so that a room is full for good after
`mMaxUserCount` enters. `RoomCapacity` holds with or without that.

## 5. Fairness

Weak fairness of each thread: the operating system schedules every thread, the
process thread polls in a loop and a mutex is released after a bounded number
of steps. Weak fairness of the completion of sends: the kernel completes every
overlapped operation it accepted, with either outcome. Nothing is assumed of
the clients: they need not send, read, or close, and SendMsg need not be called.
In ClientReceive the read thread and the timer keep running and nothing is
assumed of the server. In ChatTokens the timer of a client keeps running, the
kernel completes the receive of a connected session when there is data, and the
process thread takes the tokens and the system packets that are queued; nobody
need click. That a *token* is taken is all the code gives: it takes one request
at most (`PacketManager.cpp:113-132`), and a request beyond the tokens waits until
the client sends again. ChatClient itself states no fairness.
In ServerLifecycle main(), the workers and the accepter keep running, nobody need
type "quit" and no client need do anything; that a wait on the port fails once
the handle is closed is part of the model of the port. In ClientSendQueue the UI
thread finishes a call it has begun and the send thread keeps running.

`EveryMessageSent` is excused by a failed operation of the session.
`ClosedSessionTornDown` is excused for a session whose disconnect was queued
before its connect: the model shows that this happens, since the accepting
worker posts the receive before it queues the connect. `EveryPacketSent` is
excused by the end of the connection and by a spoilt queue. `NothingLeftAtRest` is
excused when one receive completed two packets (one token takes one packet),
when a compaction met the reader, when a Clear dropped bytes, or when the
buffer was overrun: each of these is reachable. `LobbyAnswered` is excused for a client of
whose requests two were completed by one receive and more have arrived, for
good, than there are tokens. That is reachable too, by a double click on log-in:
the LOBBY_INFO that follows the answer stays in the buffer, and with the buttons
of the lobby disabled the client has nothing left to send. The property shows that
pieces, cleared buffers, refused enters and broken connections leave nobody
waiting without it.

So the properties do not show the absence of the following, all of which the
models reach; an excused property says what holds until then or besides.

| Excuse | What happens | Where |
|---|---|---|
| `overtaken` (IocpSession) | a disconnect is queued before its connect; the session stays up | `IOCPServer.cpp:248` |
| `lost` (PacketBuffer), the Clear in ChatTokens | the connect packet drops what has arrived | `PacketManager.cpp:167` |
| `raced` (PacketBuffer) | a compaction moves bytes and positions under the reader | `User.cpp:71` |
| `coalesced` (PacketBuffer, ChatTokens) | a request is left behind | `PacketManager.cpp:129` |
| `stranded` (ChatClient) | a refused user is in the room state for the server | `User.cpp:51` |
| `early` (ChatClient) | an arrival that crosses the list is shown twice | `Form1.cs:221` |
| `undrained` (ServerLifecycle) | packets left at "quit" meet deleted managers | `ChatServer.cpp:14` |
| `lost`, `torn`, the end of the process (ClientSendQueue) | packets delayed, dropped, reordered, repeated; a disposed socket | `Form1.cs:433`, `ClientNetwork.cs:70` |
| `refused` (ClientReceive) | a receive that does not fit is lost | `Form1.cs:298` |
| `fault` | a null dereference or an access outside the buffer ends the process | section 2 |

## 6. Proofs

All theorems hold for every value of the constants under the named assumptions
(`WorkerAssumption`, `MaxMsgAssumption`, `SessionAssumption`, `BufferAssumption`,
`AccountAssumption`, `ChatAssumption`, `ReceiveAssumption`, `SendAssumption`,
`ClientAssumption`, `BoundAssumption`), which TLC evaluates on the instances. Each
module's inductive invariant is called `IInv` (`SysIInv`, and `ShowInv` on top of
it, in ChatClient); it was checked as an invariant of the module's run before it
was proved.

**SendQueue.** `CompletionIsFront` alone is not inductive: it says nothing of a
thread that has pushed or popped and not yet called WSASend. `IInv` adds who is
in the critical section (`LockInv`), that the queue holds consecutive messages
(`QueueInv`), that the outstanding operation has one owner - kernel, port, or
worker - and that a thread about to issue excludes any owner (`OwnerInv`,
`SendInv`), and that the wire ends just before or at the front (`WireInv`).
From it: `CompletionMatchesFront`, `MemorySafe`, `QueueIsDrained`, and
`Refinement`, where a WSASend that is accepted is a `Transmit`, the call of
SendMsg a `Submit`, and every other step a stutter.

**ChatLogic.** The six invariants need each other. A leave removes entries by
id, so it spares the other members only because ids are exclusive; a login
meets a user without an id and in no list only because states, handlers and
lists are tied. `IInv` is their conjunction with `SlotInv`, which says what the
state of a user implies. One lemma per handler; handlers that only send share
`QuietStep`. From it: `LoginIsExclusive`, `DirectoryIsLive`, `RoomIsBounded`
(with the cardinality facts of FiniteSetTheorems), `InOneRoom`, `AcksAreTrue`,
and, from the database steps, `LoggedInHasAccount`.
`ChatReachesTheRoom` is an action property: a step that acknowledges a chat puts
one notification into the answers of every session that believes to be in the
sender's room and none into the others'. It follows from `ListMatchesAcks` and
`OneRoom` before the step, which tie a room's list to what the clients were told,
and from counting: a broadcast to a list in which each User is once adds as many
copies as the User is in the list.

**IocpSession.** That a session has one receive is a matter of counting. A slot
is handed from the accepter to the kernel, from the kernel to the port, from the
port to a worker, and from the worker back to the kernel, as one token. `SlotInv`
adds up the token over all these places: an accept is posted, completed, handled
and announced at most once (`AcceptOnce`); there is one receive or the accept
that will post it (`RecvOnce`); a slot the accepter may take has no token
(`Unused`); nothing of a session exists before its accept (`Quiet`); and the count
is one, not less, while nobody has closed the session and no WSARecv failed
(`Listening`). The number of workers and the length of the port's queue are
arbitrary, so the sums are cardinalities of sets of queue positions and of
workers. From it: `NoTwoReceivers` and `NoSlotTwice`.

**PacketBuffer.** `PacketsInOrder` speaks of what was handled only. `BufferInv`
says, at every pair of places of the two threads, that the cells from the read
position to the write position hold the bytes of the stream from `Read` on; that
while the worker compacts, the copy at the front is the same bytes; and that the
packet in the process thread's hands is the next one of the stream. The positions
are words and wrap; the invariant keeps them in order, so that the unsigned
difference is the true one. It holds until a compaction meets the reader or a
Clear drops bytes. `TokenInv` adds that every whole packet is handled, has a
token, or is in hand, until one receive completes two. From them:
`HandledInOrder`, `NoOtherOverrun`, `NothingForgotten`.

**ClientSendQueue.** The two threads race on `_size`, so the invariant comes in
three layers. `RangeInv` holds always: the positions stay in the array and `_size`
never exceeds it, whatever increments and decrements are lost. `OnceInv` holds
until the array is replaced during a Dequeue: a packet is in one slot, in the send
thread's hands, or sent. `OrderInv` holds until a store to `_size` overwrites
another one as well: the slots from `_head` on hold the packets that wait, in
order, `Waiting` many, which is `_size` corrected by the increment and the
decrement under way. From them: `SentAsPosted` and `SentOnce`.

**ChatClient.** What a button shows, where the server has the user, and what is on
the way between them say nothing of each other alone. `SysIInv` ties them by
`Phase`: a session that is up is in one of eleven phases (logging in, lobby asked,
lobby granted, at the lobby, entered, ..., left, stranded by a refused enter). A
phase fixes the buttons, the server's state of the user, the ids of the requests
still on the way, and the one answer that will change the buttons (`OneGrant`), if
there is one. A session is in one phase at a time because the form asks for
something new only after the answer to the last request that counts: `AtLobby`
and `AtRoom` are where a user may press several times, and the requests that come
too late meet a state without a handler for them. After the end of a connection
(`Down`) the buttons no longer matter, but the requests left on the way still reach
the server: a ROOM_INFO among them is either from a user in a room or meets a user
whose handlers are gone, so the null room is not reached then either. For what a
refused user sends (`OutsidersStaySilent`) it is a chat or a leave that matters:
either is on the way only from a session whose form shows a room (`InARoom`), and,
once the connection has ended, never together with an enter (`Down`), so neither
finds a user in the room state that the room refused. The server's
invariant is not proved again: `NextIInv` of ChatLogicProofs is used for each
request, one `Effect` lemma per handler says what it does to the session it
serves, and `Others` what the other sessions are told. From it: `SysTypeCorrect`,
`NoNullRoomReached`, `ButtonsMatch`, `OutsidersStaySilent`, for any number of clients, ids, rooms and
clicks.

*The list of users.* `CompanionsShown` and `NobodyElseShown` speak of forms with
nothing on the way, which no step leads to directly, so a second invariant,
`ShowInv`, says what every form's list will come to. `After` is how often a form
shows an id after one packet; `Ends(c, i, m, n)` says that a form that shows i m
times shows it n times after all packets c. It is a run, a function on the
positions of c, and not a fold, so that packets that join c (`EndsMore`) and the
one that is taken (`EndsTail`) are lemmas without induction. `Final` says what n
must be: nothing outside a room; at least 1 for each of the `Companions`, unless
the client is `Asking` (admitted, its request for the list not yet served); and
while no connection has broken exactly 1 or 0, unless it is `WillBeEarly`, that
is told, or about to be told, of an arrival before the list. A step of a form
moves a packet from c into the count and leaves n alone; a handler appends packets
and changes the companions, and n follows: one more for an enter, one less for a
leave, all of them for the list, none for the one who leaves. For that the list
of a room must hold a connected user exactly when its client was told so, once
(`PlaceInv`), and two users that are logged in must have different ids (`Alike`),
since a leave removes by id. ChatLogic proves both for the proper ids only, and
that is all there is: with an account under the empty id, TLC finds a run with four
clients in which a disconnect of a user that never logged in erases the directory
entry of the one who did under that id (`UserManager.cpp:56`), a second one logs in
under it, and the leave of one takes both off the list. So `EverybodyShown` assumes
that no account has the empty id, as the run ChatClient does; the shipped client
cannot create one, having no button for it. `NobodyElse` needs no assumption, since
while no connection has broken nothing is erased. Of `ShowInv` the part about the
forms was checked as an invariant of the run ChatClient, and of random behaviours
with three clients and 14 clicks.

**ClientReceive.** `FramesInOrder` speaks of the queues only. Its strengthening
ties the buffer to the stream: until a receive is refused, ReadPos stands at the
start of the next packet, the cells from ReadPos to WritePos hold the bytes that
follow, up to the last one that arrived, and at least one packet fits behind
WritePos; in `recv` less than one packet is unread. The last two parts make
relocation sufficient: what is moved to the front is less than a packet and one
receive, so `BufferSize >= ReadSize + 2 * MaxPacketSize` (80960 against 4096)
leaves room again. From it: `FramesAreInOrder`, `OnlyLongRefused`, `LoopDrains`.

**ServerLifecycle.** That nobody dangles is not inductive: it depends on where
main() is. The strengthening says what main() has made and not deleted at each of
its steps (`Made`), which threads run then (`Threads`: none before it is started,
all workers out once they are joined), that no refused accept is on the port or
with a worker (`NoRefusal`: while the port is open an accept is pending only if
the listen socket is), and that a packet in hand after the deletion of
UserManager was there before it (`Drained`). From it: `NobodyElseDangles`.

## 7. Only model-checked

Liveness (`EveryMessageSent`, `ClosedSessionTornDown`, `EveryFrameHandled`,
`LobbyAnswered`, `DestroyThreadReturns`, `EveryPacketSent`) is out of the prover's
reach. Every invariant and every action property of a passing run is stated by a
theorem.

## 8. Not modelled

- Vendored code, most of the repository's lines: tinyxml2, which reads one file
  before any thread starts, and hiredis with its wrappers, which no code path
  reaches. The share of all lines that the map covers is small for this reason.
- RedisManager: its creation and start are commented out in PacketManager.
- ConfigLoader: sequential parsing before any thread.
- The layout of packet bodies. Ids, passwords and messages are values; that one
  which fills its field has no terminator and is read on into the next field
  (`UserStateConnected.cpp:65`) is listed as a hazard only.
- `SendThread`, `CreateSendThread`, `GetEmptyClientInfo`, `PacketManager::End` and
  `ChatServer::End`: no caller.
- The client's log and layout, and the end of its process (its two threads are
  never told to stop); the echo client, a blocking loop over one socket.

## 9. Plan

1. `ChatServer`: compose IocpSession's queues with ChatLogic's handlers, so that
   late tokens and overtaken connects reach the handlers.
2. `PacketCodec`: the fields of the packet bodies, written by one side and read
   by the other.
