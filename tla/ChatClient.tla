----------------------------- MODULE ChatClient ----------------------------
(***************************************************************************)
(* The C# client's form and the server's handlers, joined by the packets   *)
(* in flight: every client is the shipped one, a button can be clicked     *)
(* when it is enabled, and the handlers are those of ChatLogic.            *)
(*                                                                         *)
(* toServer stands for SendPacketQueue, the socket and the server's        *)
(* receive buffer, toClient for the server's send queue, the socket and    *)
(* RecvPacketQueue: SendQueue and ClientReceive show that the latter is a  *)
(* queue; for the former see PacketBuffer.  The connect and disconnect     *)
(* packets travel outside of it, in mSystemPacketQueue.                    *)
(***************************************************************************)
EXTENDS ChatLogic

CONSTANTS
    MaxClicks,    \* bound: clicks of all clients together
    MaxDrops      \* bound: connections that break

ASSUME ClientAssumption == MaxClicks \in Nat /\ MaxDrops \in Nat

VARIABLES
    sock,             \* "none" before Connect, "open", "closed"
    LoginBtn, RoomListRefreshBtn, RoomEnterBtn, RoomExit, ChatSend,    \* Enabled
    LobbyRoomList,    \* the rooms shown
    UserList,         \* how often each id is shown
    toServer,         \* requests on the way, per client
    toClient,         \* packets on the way, per client
    clicks,           \* clicks so far
    stranded,         \* history: clients whose enter was refused
    early             \* history: clients told of an arrival before the room's list

buttonVars == <<LoginBtn, RoomListRefreshBtn, RoomEnterBtn, RoomExit, ChatSend>>
formVars == <<buttonVars, LobbyRoomList, UserList>>
sysVars == <<vars, sock, formVars, toServer, toClient, clicks, stranded, early>>

Req(id, arg) == [id |-> id, arg |-> arg]
NoArg == << >>

SysTypeOK ==
    /\ TypeOK
    /\ sock \in [Slot -> {"none", "open", "closed"}]
    /\ \A b \in {LoginBtn, RoomListRefreshBtn, RoomEnterBtn, RoomExit, ChatSend} :
          b \in [Slot -> BOOLEAN]
    /\ LobbyRoomList \in [Slot -> SUBSET Room]
    /\ UserList \in [Slot -> [Id -> Nat]]
    /\ \A s \in Slot : \A k \in DOMAIN toServer[s] : toServer[s][k].id \in Request
    /\ clicks \in 0..MaxClicks
    /\ stranded \subseteq Slot /\ early \subseteq Slot

Off == [s \in Slot |-> FALSE]

SysInit ==
    /\ Init
    /\ sock = [s \in Slot |-> "none"]
    /\ LoginBtn = Off /\ RoomListRefreshBtn = Off /\ RoomEnterBtn = Off
    /\ RoomExit = Off /\ ChatSend = Off
    /\ LobbyRoomList = [s \in Slot |-> {}]
    /\ UserList = [s \in Slot |-> [i \in Id |-> 0]]
    /\ toServer = Quiet /\ toClient = Quiet
    /\ clicks = 0
    /\ stranded = {} /\ early = {}

----------------------------------------------------------------------------
(* The form.  A step of the form changes nothing at the server; out is     *)
(* empty after it, since its packets are in toClient.                      *)

FormStep ==
    /\ out' = Quiet
    /\ UNCHANGED <<dbVars, accepted, mState, handlers, mUserID, mRoomIndex,
                   mUserIDDictionary, mUserList, mCurrentUserCount, view, fault>>

\* PostSendPacket does nothing when the socket is not connected.
PostSendPacket(s, req) ==
    toServer' = IF sock[s] = "open" THEN [toServer EXCEPT ![s] = Append(@, req)] ELSE toServer

Enable(button, s) == [button EXCEPT ![s] = TRUE]
Disable(button, s) == [button EXCEPT ![s] = FALSE]

Click(s, button) ==
    /\ button[s] /\ clicks < MaxClicks
    /\ clicks' = clicks + 1
    /\ FormStep
    /\ UNCHANGED <<sock, LobbyRoomList, UserList, toClient, stranded, early>>

\* ConnectBtn: enabled until a connect succeeds; one that fails changes nothing.
ConnectBtn_Click(s) ==
    /\ sock[s] = "none"
    /\ sock' = [sock EXCEPT ![s] = "open"]
    /\ LoginBtn' = Enable(LoginBtn, s)
    /\ FormStep
    /\ UNCHANGED <<RoomListRefreshBtn, RoomEnterBtn, RoomExit, ChatSend, LobbyRoomList,
                   UserList, toServer, toClient, clicks, stranded, early>>

LoginBtn_Click(s) ==
    /\ Click(s, LoginBtn)
    /\ \E id \in Id, pw \in Pw : PostSendPacket(s, Req("LOGIN", <<id, pw>>))
    /\ UNCHANGED buttonVars

\* SelectedIndex is -1 when no room is selected; room i is shown at index i.
RoomEnterBtn_Click(s) ==
    /\ Click(s, RoomEnterBtn)
    /\ \E n \in LobbyRoomList[s] \cup {NoRoom} : PostSendPacket(s, Req("ROOM_ENTER", n))
    /\ UNCHANGED buttonVars

RoomListRefreshBtn_Click(s) ==
    /\ Click(s, RoomListRefreshBtn)
    /\ RoomListRefreshBtn' = Disable(RoomListRefreshBtn, s)
    /\ RoomEnterBtn' = Disable(RoomEnterBtn, s)
    /\ PostSendPacket(s, Req("LOBBY_INFO", NoArg))
    /\ UNCHANGED <<LoginBtn, RoomExit, ChatSend>>

ChatSend_Click(s) ==
    /\ Click(s, ChatSend)
    /\ PostSendPacket(s, Req("ROOM_CHAT", NoArg))
    /\ UNCHANGED buttonVars

RoomExit_Click(s) ==
    /\ Click(s, RoomExit)
    /\ PostSendPacket(s, Req("ROOM_LEAVE", NoArg))
    /\ UNCHANGED buttonVars

----------------------------------------------------------------------------
(* The timer handles one packet: PacketProcess.                            *)

\* The packet is pkt, and it is the next one.
Tick(s, pkt) ==
    /\ toClient[s] # << >> /\ Head(toClient[s]) = pkt
    /\ toClient' = [toClient EXCEPT ![s] = Tail(@)]
    /\ FormStep
    /\ UNCHANGED <<sock, clicks, stranded>>

\* Mutant: the login button stays enabled.
AckLoginKeeps(s, result) ==
    /\ Tick(s, <<"ACK_LOGIN", result>>)
    /\ IF result = "LOGIN_SUCCESS" THEN PostSendPacket(s, Req("LOBBY_INFO", NoArg))
       ELSE UNCHANGED toServer
    /\ UNCHANGED <<buttonVars, LobbyRoomList, UserList, early>>

AckLogin(s, result) ==
    /\ Tick(s, <<"ACK_LOGIN", result>>)
    /\ IF result = "LOGIN_SUCCESS"
       THEN LoginBtn' = Disable(LoginBtn, s) /\ PostSendPacket(s, Req("LOBBY_INFO", NoArg))
       ELSE UNCHANGED <<LoginBtn, toServer>>
    /\ UNCHANGED <<RoomListRefreshBtn, RoomEnterBtn, RoomExit, ChatSend, LobbyRoomList,
                   UserList, early>>

AckLobbyInfo(s) ==
    /\ Tick(s, <<"ACK_LOBBY_INFO", "LOBBY_INFO_SUCCESS">>)
    /\ RoomListRefreshBtn' = Enable(RoomListRefreshBtn, s)
    /\ RoomEnterBtn' = Enable(RoomEnterBtn, s)
    /\ UNCHANGED <<LoginBtn, RoomExit, ChatSend, LobbyRoomList, UserList, toServer, early>>

NotifyLobbyInfo(s, rooms) ==
    /\ Tick(s, <<"NOTIFY_LOBBY_INFO", rooms>>)
    /\ LobbyRoomList' = [LobbyRoomList EXCEPT ![s] = rooms]
    /\ UNCHANGED <<buttonVars, UserList, toServer, early>>

\* Mutant: the room's list is asked for whatever the result.
AckRoomEnterAlways(s, result) ==
    /\ Tick(s, <<"ACK_ROOM_ENTER", result>>)
    /\ RoomListRefreshBtn' = Disable(RoomListRefreshBtn, s)
    /\ RoomEnterBtn' = Disable(RoomEnterBtn, s)
    /\ PostSendPacket(s, Req("ROOM_INFO", NoArg))
    /\ UNCHANGED <<LoginBtn, RoomExit, ChatSend, LobbyRoomList, UserList, early>>

AckRoomEnter(s, result) ==
    /\ Tick(s, <<"ACK_ROOM_ENTER", result>>)
    /\ IF result = "ENTER_ROOM_SUCCESS"
       THEN /\ RoomListRefreshBtn' = Disable(RoomListRefreshBtn, s)
            /\ RoomEnterBtn' = Disable(RoomEnterBtn, s)
            /\ PostSendPacket(s, Req("ROOM_INFO", NoArg))
       ELSE UNCHANGED <<RoomListRefreshBtn, RoomEnterBtn, toServer>>
    /\ UNCHANGED <<LoginBtn, RoomExit, ChatSend, LobbyRoomList, UserList, early>>

\* Mutant: only the first of the ids is read.
AckRoomInfoOne(s, ids) ==
    /\ Tick(s, <<"ACK_ROOM_INFO", ids>>)
    /\ RoomExit' = Enable(RoomExit, s) /\ ChatSend' = Enable(ChatSend, s)
    /\ UserList' = [UserList EXCEPT ![s] = [i \in Id |-> @[i] + (IF i = CHOOSE j \in ids : TRUE THEN 1 ELSE 0)]]
    /\ UNCHANGED <<LoginBtn, RoomListRefreshBtn, RoomEnterBtn, LobbyRoomList, toServer, early>>

\* The ids are added to whatever the list shows.  ids is a set: members that
\* share the empty id, whose connections broke, count as one.
AckRoomInfo(s, ids) ==
    /\ Tick(s, <<"ACK_ROOM_INFO", ids>>)
    /\ RoomExit' = Enable(RoomExit, s) /\ ChatSend' = Enable(ChatSend, s)
    /\ UserList' = [UserList EXCEPT ![s] = [i \in Id |-> @[i] + (IF i \in ids THEN 1 ELSE 0)]]
    /\ UNCHANGED <<LoginBtn, RoomListRefreshBtn, RoomEnterBtn, LobbyRoomList, toServer, early>>

NotifyRoomInfo(s, id) ==
    /\ Tick(s, <<"NOTIFY_ROOM_INFO", id>>)
    /\ UserList' = [UserList EXCEPT ![s][id] = @ + 1]
    /\ early' = IF ChatSend[s] THEN early ELSE early \cup {s}
    /\ UNCHANGED <<buttonVars, LobbyRoomList, toServer>>

\* Mutant: the loop starts behind the entry, which stays.
NotifyRoomLeaveNone(s, id) ==
    /\ Tick(s, <<"NOTIFY_ROOM_LEAVE", id>>)
    /\ UNCHANGED <<formVars, toServer, early>>

\* Mutant: an entry is removed whether or not one was found.
NotifyRoomLeaveBlind(s, id) ==
    /\ Tick(s, <<"NOTIFY_ROOM_LEAVE", id>>)
    /\ UserList' = [UserList EXCEPT ![s][id] = @ - 1]
    /\ UNCHANGED <<buttonVars, LobbyRoomList, toServer, early>>

\* The first entry with the id is removed, if there is one.
NotifyRoomLeave(s, id) ==
    /\ Tick(s, <<"NOTIFY_ROOM_LEAVE", id>>)
    /\ UserList' = [UserList EXCEPT ![s][id] = IF @ = 0 THEN 0 ELSE @ - 1]
    /\ UNCHANGED <<buttonVars, LobbyRoomList, toServer, early>>

AckRoomLeave(s, result) ==
    /\ Tick(s, <<"ACK_ROOM_LEAVE", result>>)
    /\ IF result = "LEAVE_ROOM_SUCCESS"
       THEN /\ UserList' = [UserList EXCEPT ![s] = [i \in Id |-> 0]]
            /\ RoomExit' = Disable(RoomExit, s) /\ ChatSend' = Disable(ChatSend, s)
            /\ PostSendPacket(s, Req("LOBBY_INFO", NoArg))
       ELSE UNCHANGED <<UserList, RoomExit, ChatSend, toServer>>
    /\ early' = early \ {s}
    /\ UNCHANGED <<LoginBtn, RoomListRefreshBtn, RoomEnterBtn, LobbyRoomList>>

\* AckRoomChat looks at nothing, NotifyRoomChat shows a line.
RoomChat(s) ==
    /\ \E pkt \in {<<"ACK_ROOM_CHAT", "CHAT_ROOM_SUCCESS">>} \cup {ChatFrom(i) : i \in Id} :
          Tick(s, pkt)
    /\ UNCHANGED <<formVars, toServer, early>>

PacketProcess(s) ==
    \/ \E result \in {"LOGIN_SUCCESS", "LOGIN_USER_ALREADY", "LOGIN_USER_INVALID_PW"} :
          AckLogin(s, result)
    \/ AckLobbyInfo(s)
    \/ NotifyLobbyInfo(s, Room)
    \/ \E result \in {"ENTER_ROOM_SUCCESS", "ROOM_FULL", "ROOM_INVALID_INDEX"} :
          AckRoomEnter(s, result)
    \/ \E ids \in SUBSET Id : AckRoomInfo(s, ids)
    \/ \E id \in Id : NotifyRoomInfo(s, id)
    \/ \E id \in Id : NotifyRoomLeave(s, id)
    \/ AckRoomLeave(s, "LEAVE_ROOM_SUCCESS")
    \/ RoomChat(s)

----------------------------------------------------------------------------
(* The connection and the server.                                          *)

\* The connection breaks, or the client's process dies: some of what is on the
\* way to it may have arrived, and nothing is sent any more.
Drop(s) ==
    /\ sock[s] = "open"
    /\ Cardinality({t \in Slot : sock[t] = "closed"}) < MaxDrops
    /\ sock' = [sock EXCEPT ![s] = "closed"]
    /\ \E n \in 0..Len(toClient[s]) : toClient' = [toClient EXCEPT ![s] = SubSeq(@, 1, n)]
    /\ FormStep
    /\ UNCHANGED <<formVars, toServer, clicks, stranded, early>>

\* What a handler sends is on its way to the clients that are connected.
Deliver ==
    toClient' = [s \in Slot |-> IF sock[s] = "open" THEN toClient[s] \o out'[s]
                             ELSE toClient[s]]

\* The system packets.  A disconnect may be queued more than once.
ServeSystem(s) ==
    /\ \/ sock[s] # "none" /\ ProcessUserConnect(s)
       \/ sock[s] = "closed" /\ (ProcessUserDisConnect(s) \/ IgnoredDisConnect(s))
    /\ Deliver
    /\ UNCHANGED <<sock, formVars, toServer, clicks, stranded, early>>

\* The handler of the next request of s.
ServeRequest(s, req) ==
    \/ IgnoredRequest(s, req.id)
    \/ req.id = "LOGIN" /\ ProcessLogin(s, req.arg[1], req.arg[2])
    \/ req.id = "LOBBY_INFO" /\ ProcessLobbyInfo(s)
    \/ req.id = "ROOM_ENTER" /\ ProcessEnterRoom(s, req.arg)
    \/ req.id = "ROOM_INFO" /\ ProcessRoomInfo(s)
    \/ req.id = "ROOM_LEAVE" /\ ProcessLeaveRoom(s)
    \/ req.id = "ROOM_CHAT" /\ ProcessRoomChatMessage(s)

Serve(s) ==
    /\ toServer[s] # << >>
    /\ ServeRequest(s, Head(toServer[s]))
    /\ Deliver
    /\ toServer' = [toServer EXCEPT ![s] = Tail(@)]
    /\ stranded' = IF mState'[s] = "InRoom" /\ view'[s] = NoRoom THEN stranded \cup {s}
                   ELSE stranded
    /\ UNCHANGED <<sock, formVars, clicks, early>>

User_Click(s) ==
    \/ ConnectBtn_Click(s) \/ LoginBtn_Click(s) \/ RoomEnterBtn_Click(s)
    \/ RoomListRefreshBtn_Click(s) \/ ChatSend_Click(s) \/ RoomExit_Click(s)

SysNext ==
    \E s \in Slot : User_Click(s) \/ PacketProcess(s) \/ Drop(s) \/ ServeSystem(s) \/ Serve(s)

SysSpec == SysInit /\ [][SysNext]_sysVars

----------------------------------------------------------------------------
(* Properties.                                                             *)

\* Nothing is on the way from or to s, and its connection is up.
Settled(s) == sock[s] = "open" /\ toServer[s] = << >> /\ toClient[s] = << >>

\* The ids of the connected clients in the server's list of the room of s.
Companions(s) ==
    IF view[s] = NoRoom THEN {}
    ELSE {mUserID[t] : t \in {u \in Members(view[s]) : sock[u] = "open"}}

\* The server never dereferences the null Room that ROOM_INFO of a client
\* without a room leads to (UserStateInRoom.cpp:36): the client asks for the
\* list only after an enter that succeeded, however its clicks are timed.
NoNullRoom == ~fault

\* Once the packets have settled, the buttons a client can press are those its
\* state at the server has handlers for: double clicks, clicks on a button
\* whose answer is on the way, and requests the server ignores leave no button
\* behind.  Refused enters are the exception: the server moves the user into
\* the room state all the same, and the client believes it is in the lobby.
ButtonsMatchState ==
    \A s \in Slot : Settled(s) /\ s \notin stranded =>
        /\ LoginBtn[s] <=> mState[s] \in {"None", "Connected"}
        /\ RoomEnterBtn[s] <=> mState[s] = "InLobby"
        /\ RoomListRefreshBtn[s] <=> mState[s] = "InLobby"
        /\ RoomExit[s] <=> mState[s] = "InRoom"
        /\ ChatSend[s] <=> mState[s] = "InRoom"

\* A client whose packets have settled shows everybody the server has in its
\* room, although arrivals, departures and the list it asked for cross.  (No
\* account may have the empty id: a disconnect erases its directory entry, two
\* users log in under it, and the leave of one removes both.)
CompanionsShown ==
    \A s \in Slot : Settled(s) => \A i \in Companions(s) : UserList[s][i] >= 1

\* It shows nobody twice and nobody who left, unless an arrival was reported
\* before the list (which then holds it again) or a connection broke (the
\* server reports no departure then).
NobodyElseShown ==
    (\A t \in Slot : sock[t] # "closed") =>
        \A s \in Slot : Settled(s) /\ s \notin early =>
            \A i \in Id : UserList[s][i] = IF i \in Companions(s) THEN 1 ELSE 0

\* A client that is in no room, and stays so, sends nothing to anybody else.  The
\* server does not see to it: a refused enter leaves its user in the room state
\* with the number of the room that refused it, so that a chat, or a leave, from
\* it would reach the members of that room.  It is the form that never asks
\* then, however its clicks, the answers and broken connections cross.
OutsidersSilent ==
    [][\A s \in Slot : Serve(s) /\ view[s] = NoRoom /\ view'[s] = NoRoom =>
          \A t \in Slot \ {s} : out'[t] = << >>]_sysVars
=============================================================================
