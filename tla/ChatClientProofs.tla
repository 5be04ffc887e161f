-------------------------- MODULE ChatClientProofs --------------------------
(***************************************************************************)
(* Proofs about ChatClient, for any number of clients, ids, rooms and      *)
(* clicks, and with connections that break at any time.                    *)
(*                                                                         *)
(* What the buttons show, where the server is with a client and what is on *)
(* the way between them are tied by Phase: a session that is up is in one  *)
(* of eleven phases, each with what may be on the way in it.  A click or   *)
(* an answer moves it from one to another.                                 *)
(*                                                                         *)
(* What a form's list shows and what is on the way to it are tied by Ends: *)
(* how often the form will show each id once it has taken every packet.    *)
(* Final says what that comes to, whatever the order in which arrivals,    *)
(* departures and the list crossed.                                        *)
(***************************************************************************)
EXTENDS ChatClient, ChatLogicProofs

----------------------------------------------------------------------------
(* What is on the way.                                                     *)

\* The requests the form sends.
Sendable ==
    {Req("LOGIN", <<id, pw>>) : id \in Id, pw \in Pw}
        \cup {Req("ROOM_ENTER", n) : n \in RoomNumber}
        \cup {Req(id, NoArg) : id \in {"LOBBY_INFO", "ROOM_INFO", "ROOM_LEAVE", "ROOM_CHAT"}}

\* The packets that make the form enable or disable a button ...
LoginOk == {<<"ACK_LOGIN", "LOGIN_SUCCESS">>}
LobbyOk == {<<"ACK_LOBBY_INFO", "LOBBY_INFO_SUCCESS">>}
EnterOk == {<<"ACK_ROOM_ENTER", "ENTER_ROOM_SUCCESS">>}
RoomOk == {<<"ACK_ROOM_INFO", ids>> : ids \in SUBSET Id}
LeaveOk == {<<"ACK_ROOM_LEAVE", "LEAVE_ROOM_SUCCESS">>}
Grant == LoginOk \cup LobbyOk \cup EnterOk \cup RoomOk \cup LeaveOk

\* ... and the others.
Noise ==
    {<<"ACK_LOGIN", result>> : result \in {"LOGIN_USER_ALREADY", "LOGIN_USER_INVALID_PW"}}
        \cup {<<"NOTIFY_LOBBY_INFO", Room>>}
        \cup {<<"ACK_ROOM_ENTER", result>> : result \in {"ROOM_FULL", "ROOM_INVALID_INDEX"}}
        \cup {<<"NOTIFY_ROOM_INFO", id>> : id \in Id}
        \cup {<<"NOTIFY_ROOM_LEAVE", id>> : id \in Id}
        \cup {<<"NOTIFY_ROOM_CHAT", id>> : id \in Id}
        \cup {<<"ACK_ROOM_LEAVE", "ROOM_INVALID_INDEX">>}
        \cup {<<"ACK_ROOM_CHAT", result>> :
                 result \in {"CHAT_ROOM_SUCCESS", "CHAT_ROOM_INVALID_ROOM_NUMBER"}}

Packet == Grant \cup Noise

\* None of the packets of c is a grant; one is, and it is one of g.
NoGrant(c) == \A k \in 1..Len(c) : c[k] \notin Grant
OneGrant(c, g) ==
    \E k \in 1..Len(c) : c[k] \in g /\ \A j \in 1..Len(c) : c[j] \in Grant <=> j = k

\* All requests of q have an id of ids; id is the last of them, and only that.
Only(q, ids) == \A k \in 1..Len(q) : q[k].id \in ids
LastIs(q, id) == Len(q) > 0 /\ \A k \in 1..Len(q) : q[k].id = id <=> k = Len(q)

----------------------------------------------------------------------------
(* The phases of a session.                                                *)

Shows(s, login, lobby, room) ==
    LoginBtn[s] = login /\ RoomEnterBtn[s] = lobby /\ RoomExit[s] = room

InARoom(s) == mState[s] = "InRoom" /\ mRoomIndex[s] \in Room /\ view[s] \in Room

LoggingIn(s) ==
    /\ mState[s] \in {"None", "Connected"} /\ Shows(s, TRUE, FALSE, FALSE)
    /\ Only(toServer[s], {"LOGIN"}) /\ NoGrant(toClient[s])

LoggedIn(s) ==
    /\ mState[s] = "InLobby" /\ Shows(s, TRUE, FALSE, FALSE)
    /\ Only(toServer[s], {"LOGIN"}) /\ OneGrant(toClient[s], LoginOk)

\* An enter may be on the way before the request for the rooms, or what the
\* client sent when it was not in the lobby, but not both.
LobbyAsked(s) ==
    /\ mState[s] = "InLobby" /\ Shows(s, FALSE, FALSE, FALSE)
    /\ LastIs(toServer[s], "LOBBY_INFO")
    /\ \/ Only(toServer[s], {"ROOM_ENTER", "LOBBY_INFO"})
       \/ Only(toServer[s], {"LOGIN", "ROOM_LEAVE", "ROOM_CHAT", "LOBBY_INFO"})
    /\ NoGrant(toClient[s])

LobbyGranted(s) ==
    /\ mState[s] = "InLobby" /\ Shows(s, FALSE, FALSE, FALSE)
    /\ toServer[s] = << >> /\ OneGrant(toClient[s], LobbyOk)

AtLobby(s) ==
    /\ mState[s] = "InLobby" /\ Shows(s, FALSE, TRUE, FALSE)
    /\ Only(toServer[s], {"ROOM_ENTER"}) /\ NoGrant(toClient[s])

Entered(s) ==
    /\ InARoom(s) /\ Shows(s, FALSE, RoomEnterBtn[s], FALSE)
    /\ Only(toServer[s], {"ROOM_ENTER", "LOBBY_INFO"})
    /\ OneGrant(toClient[s], EnterOk)

RoomAsked(s) ==
    /\ InARoom(s) /\ Shows(s, FALSE, FALSE, FALSE)
    /\ LastIs(toServer[s], "ROOM_INFO")
    /\ Only(toServer[s], {"ROOM_ENTER", "LOBBY_INFO", "ROOM_INFO"})
    /\ NoGrant(toClient[s])

RoomGranted(s) ==
    /\ InARoom(s) /\ Shows(s, FALSE, FALSE, FALSE)
    /\ toServer[s] = << >> /\ OneGrant(toClient[s], RoomOk)

AtRoom(s) ==
    /\ InARoom(s) /\ Shows(s, FALSE, FALSE, TRUE)
    /\ Only(toServer[s], {"ROOM_LEAVE", "ROOM_CHAT"}) /\ NoGrant(toClient[s])

Left(s) ==
    /\ mState[s] = "InLobby" /\ Shows(s, FALSE, FALSE, TRUE)
    /\ Only(toServer[s], {"ROOM_LEAVE", "ROOM_CHAT"})
    /\ OneGrant(toClient[s], LeaveOk)

\* An enter was refused: the server has the user in the room state.
Stranded(s) ==
    /\ mState[s] = "InRoom" /\ s \in stranded /\ Shows(s, FALSE, RoomEnterBtn[s], FALSE)
    /\ Only(toServer[s], {"ROOM_ENTER", "LOBBY_INFO"}) /\ NoGrant(toClient[s])

Phase(s) ==
    \/ LoggingIn(s) \/ LoggedIn(s) \/ LobbyAsked(s) \/ LobbyGranted(s) \/ AtLobby(s)
    \/ Entered(s) \/ RoomAsked(s) \/ RoomGranted(s) \/ AtRoom(s) \/ Left(s) \/ Stranded(s)

Before(s) ==
    /\ Shows(s, FALSE, FALSE, FALSE)
    /\ toServer[s] = << >> /\ toClient[s] = << >> /\ mState[s] = "None"

Up(s) ==
    /\ Phase(s)
    /\ handlers[s] = Handlers(mState[s])
    /\ mState[s] = "InLobby" => view[s] = NoRoom

\* What a client may still have sent that was not in the lobby, or asked a room
\* for nothing but its end.
RoomOrLogin == {"LOGIN", "LOBBY_INFO", "ROOM_LEAVE", "ROOM_CHAT"}

\* After the end of the connection a request for the list of the room meets a
\* user in a room, or one without handlers.  So does a chat or a leave: no enter
\* that could be refused is on the way with it.
Down(s) ==
    \/ Only(toServer[s], RoomOrLogin) /\ (mState[s] = "InRoom" => view[s] \in Room)
    \/ Only(toServer[s], {"ROOM_ENTER", "LOBBY_INFO"})
    \/ InARoom(s) /\ Only(toServer[s], {"ROOM_ENTER", "LOBBY_INFO", "ROOM_INFO"})
    \/ handlers[s] = {} /\ mState[s] # "None"

SessionInv(s) ==
    /\ sock[s] = "none" => Before(s)
    /\ sock[s] = "open" => Up(s)
    /\ sock[s] = "closed" => Down(s)

----------------------------------------------------------------------------
(* The types.                                                              *)

FormTypeInv ==
    /\ sock \in [Slot -> {"none", "open", "closed"}]
    /\ LoginBtn \in [Slot -> BOOLEAN] /\ RoomEnterBtn \in [Slot -> BOOLEAN]
    /\ RoomExit \in [Slot -> BOOLEAN]
    /\ RoomListRefreshBtn = RoomEnterBtn /\ ChatSend = RoomExit
    /\ LobbyRoomList \in [Slot -> SUBSET Room]
    /\ UserList \in [Slot -> [Id -> Nat]]
    /\ clicks \in 0..MaxClicks
    /\ stranded \subseteq Slot /\ early \subseteq Slot

WireTypeInv ==
    /\ DOMAIN toServer = Slot /\ \A s \in Slot : toServer[s] \in Seq(Sendable)
    /\ DOMAIN toClient = Slot /\ \A s \in Slot : toClient[s] \in Seq(Packet)

SysIInv ==
    /\ IInv /\ FormTypeInv /\ WireTypeInv
    /\ ~fault
    /\ \A s \in Slot : SessionInv(s)

----------------------------------------------------------------------------
(* Packets and requests that join and leave a queue.                       *)

\* The five kinds of answer are apart from each other and from what others do.
LEMMA Kinds ==
  /\ \A p \in Noise : p \notin Grant
  /\ \A p \in LoginOk : p \in Grant /\ p \notin LobbyOk \cup EnterOk \cup RoomOk \cup LeaveOk
  /\ \A p \in LobbyOk : p \in Grant /\ p \notin LoginOk \cup EnterOk \cup RoomOk \cup LeaveOk
  /\ \A p \in EnterOk : p \in Grant /\ p \notin LoginOk \cup LobbyOk \cup RoomOk \cup LeaveOk
  /\ \A p \in RoomOk : p \in Grant /\ p \notin LoginOk \cup LobbyOk \cup EnterOk \cup LeaveOk
  /\ \A p \in LeaveOk : p \in Grant /\ p \notin LoginOk \cup LobbyOk \cup EnterOk \cup RoomOk
<1>1. \A p \in Noise : p \notin Grant
  BY DEF Noise, Grant, LoginOk, LobbyOk, EnterOk, RoomOk, LeaveOk
<1>2. \A p \in LoginOk : p \in Grant /\ p \notin LobbyOk \cup EnterOk \cup RoomOk \cup LeaveOk
  BY DEF Grant, LoginOk, LobbyOk, EnterOk, RoomOk, LeaveOk
<1>3. \A p \in LobbyOk : p \in Grant /\ p \notin LoginOk \cup EnterOk \cup RoomOk \cup LeaveOk
  BY DEF Grant, LoginOk, LobbyOk, EnterOk, RoomOk, LeaveOk
<1>4. \A p \in EnterOk : p \in Grant /\ p \notin LoginOk \cup LobbyOk \cup RoomOk \cup LeaveOk
  BY DEF Grant, LoginOk, LobbyOk, EnterOk, RoomOk, LeaveOk
<1>5. \A p \in RoomOk : p \in Grant /\ p \notin LoginOk \cup LobbyOk \cup EnterOk \cup LeaveOk
  BY DEF Grant, LoginOk, LobbyOk, EnterOk, RoomOk, LeaveOk
<1>6. \A p \in LeaveOk : p \in Grant /\ p \notin LoginOk \cup LobbyOk \cup EnterOk \cup RoomOk
  BY DEF Grant, LoginOk, LobbyOk, EnterOk, RoomOk, LeaveOk
<1> QED BY <1>1, <1>2, <1>3, <1>4, <1>5, <1>6

\* What is left behind the first element.
LEMMA Behind ==
  ASSUME NEW S, NEW c \in Seq(S), c # << >>
  PROVE  /\ Tail(c) \in Seq(S) /\ Len(c) \in Nat /\ Len(c) > 0 /\ Len(Tail(c)) = Len(c) - 1
         /\ Head(c) = c[1] /\ Head(c) \in S
         /\ \A k \in 1..(Len(c) - 1) : Tail(c)[k] = c[k + 1]
<1>1. Tail(c) \in Seq(S) /\ Head(c) \in S /\ Len(Tail(c)) = Len(c) - 1
  BY HeadTailProperties
<1>2. Len(c) \in Nat /\ Len(c) > 0 /\ Head(c) = c[1]
  BY EmptySeq, LenProperties, HeadTailProperties
<1>3. \A k \in 1..(Len(c) - 1) : Tail(c)[k] = c[k + 1]
  BY <1>1, HeadTailProperties
<1> QED BY <1>1, <1>2, <1>3

\* The form takes a packet.
LEMMA TakePacket ==
  ASSUME NEW c \in Seq(Packet), c # << >>
  PROVE  /\ Tail(c) \in Seq(Packet)
         /\ NoGrant(c) => NoGrant(Tail(c)) /\ Head(c) \notin Grant
         /\ \A g : OneGrant(c, g) /\ Head(c) \notin Grant => OneGrant(Tail(c), g)
         /\ \A g : OneGrant(c, g) /\ Head(c) \in Grant => Head(c) \in g /\ NoGrant(Tail(c))
<1>1. /\ Tail(c) \in Seq(Packet) /\ Len(c) \in Nat /\ Len(c) > 0 /\ Len(Tail(c)) = Len(c) - 1
      /\ Head(c) = c[1] /\ \A k \in 1..(Len(c) - 1) : Tail(c)[k] = c[k + 1]
  BY Behind
<1>2. /\ 1 \in 1..Len(c)
      /\ \A k \in 1..Len(Tail(c)) : k + 1 \in 1..Len(c) /\ k + 1 # 1 /\ Tail(c)[k] = c[k + 1]
      /\ \A k \in 1..Len(c) : k # 1 => k - 1 \in 1..Len(Tail(c)) /\ Tail(c)[k - 1] = c[k]
      /\ \A j, k \in 1..Len(Tail(c)) : j + 1 = k + 1 => j = k
  BY <1>1
<1>3. NoGrant(c) => NoGrant(Tail(c)) /\ Head(c) \notin Grant
  BY <1>1, <1>2 DEF NoGrant
<1>4. ASSUME NEW g, OneGrant(c, g), Head(c) \notin Grant PROVE OneGrant(Tail(c), g)
  <2>1. PICK k \in 1..Len(c) : c[k] \in g /\ \A j \in 1..Len(c) : c[j] \in Grant <=> j = k
    BY <1>4 DEF OneGrant
  <2>2. k # 1
    BY <1>1, <1>4, <2>1
  <2>3. k - 1 \in 1..Len(Tail(c)) /\ Tail(c)[k - 1] \in g
    BY <1>2, <2>1, <2>2
  <2>4. ASSUME NEW j \in 1..Len(Tail(c)) PROVE Tail(c)[j] \in Grant <=> j = k - 1
    <3>1. Tail(c)[j] \in Grant <=> j + 1 = k
      BY <1>2, <2>1
    <3> QED BY <1>1, <3>1
  <2> QED BY <2>3, <2>4 DEF OneGrant
<1>5. ASSUME NEW g, OneGrant(c, g), Head(c) \in Grant PROVE Head(c) \in g /\ NoGrant(Tail(c))
  <2>1. PICK k \in 1..Len(c) : c[k] \in g /\ \A j \in 1..Len(c) : c[j] \in Grant <=> j = k
    BY <1>5 DEF OneGrant
  <2>2. k = 1
    BY <1>1, <1>2, <1>5, <2>1
  <2> QED BY <1>1, <1>2, <2>1, <2>2 DEF NoGrant
<1> QED BY <1>1, <1>3, <1>4, <1>5

\* The server's packets arrive behind those on the way.
LEMMA AddPackets ==
  ASSUME NEW c \in Seq(Packet), NEW d \in Seq(Packet)
  PROVE  /\ c \o d \in Seq(Packet)
         /\ NoGrant(c) /\ NoGrant(d) => NoGrant(c \o d)
         /\ \A g : OneGrant(c, g) /\ NoGrant(d) => OneGrant(c \o d, g)
         /\ \A g : NoGrant(c) /\ OneGrant(d, g) => OneGrant(c \o d, g)
<1>1. /\ c \o d \in Seq(Packet) /\ Len(c \o d) = Len(c) + Len(d)
      /\ \A k \in 1..(Len(c) + Len(d)) :
            (c \o d)[k] = IF k <= Len(c) THEN c[k] ELSE d[k - Len(c)]
  BY ConcatProperties
<1>2. Len(c) \in Nat /\ Len(d) \in Nat
  BY LenProperties
<1>3. /\ \A k \in 1..Len(c) : k \in 1..Len(c \o d) /\ (c \o d)[k] = c[k]
      /\ \A k \in 1..Len(d) : k + Len(c) \in 1..Len(c \o d) /\ (c \o d)[k + Len(c)] = d[k]
      /\ \A k \in 1..Len(c \o d) :
            k \in 1..Len(c) \/ \E j \in 1..Len(d) : k = j + Len(c)
  <2>1. \A k \in 1..Len(c) : k \in 1..Len(c \o d) /\ (c \o d)[k] = c[k]
    BY <1>1, <1>2
  <2>2. ASSUME NEW k \in 1..Len(d)
        PROVE  k + Len(c) \in 1..Len(c \o d) /\ (c \o d)[k + Len(c)] = d[k]
    <3>1. /\ k + Len(c) \in 1..(Len(c) + Len(d)) /\ ~(k + Len(c) <= Len(c))
          /\ (k + Len(c)) - Len(c) = k
      BY <1>2
    <3> QED BY <1>1, <3>1
  <2>3. ASSUME NEW k \in 1..Len(c \o d), k \notin 1..Len(c)
        PROVE  \E j \in 1..Len(d) : k = j + Len(c)
    <3>1. k - Len(c) \in 1..Len(d) /\ k = (k - Len(c)) + Len(c)
      BY <1>1, <1>2, <2>3
    <3> QED BY <3>1
  <2> QED BY <2>1, <2>2, <2>3
<1>4. NoGrant(c) /\ NoGrant(d) => NoGrant(c \o d)
  BY <1>3, Zenon DEF NoGrant
<1>5. ASSUME NEW g, OneGrant(c, g), NoGrant(d) PROVE OneGrant(c \o d, g)
  <2>1. PICK k \in 1..Len(c) : c[k] \in g /\ \A j \in 1..Len(c) : c[j] \in Grant <=> j = k
    BY <1>5 DEF OneGrant
  <2>2. ASSUME NEW j \in 1..Len(c \o d) PROVE (c \o d)[j] \in Grant <=> j = k
    <3>1. CASE j \in 1..Len(c)
      BY <1>3, <2>1, <3>1
    <3>2. CASE j \notin 1..Len(c)
      <4>1. PICK i \in 1..Len(d) : j = i + Len(c)
        BY <1>3, <3>2
      <4>2. (c \o d)[j] = d[i] /\ d[i] \notin Grant
        BY <1>3, <1>5, <4>1 DEF NoGrant
      <4> QED BY <2>1, <3>2, <4>2
    <3> QED BY <3>1, <3>2
  <2> QED BY <1>3, <2>1, <2>2 DEF OneGrant
<1>6. ASSUME NEW g, NoGrant(c), OneGrant(d, g) PROVE OneGrant(c \o d, g)
  <2>1. PICK k \in 1..Len(d) : d[k] \in g /\ \A j \in 1..Len(d) : d[j] \in Grant <=> j = k
    BY <1>6 DEF OneGrant
  <2>2. ASSUME NEW j \in 1..Len(c \o d) PROVE (c \o d)[j] \in Grant <=> j = k + Len(c)
    <3>1. CASE j \in 1..Len(c)
      <4>1. (c \o d)[j] = c[j] /\ c[j] \notin Grant
        BY <1>3, <1>6, <3>1 DEF NoGrant
      <4>2. j # k + Len(c)
        BY <1>2, <3>1
      <4> QED BY <4>1, <4>2
    <3>2. CASE j \notin 1..Len(c)
      <4>1. PICK i \in 1..Len(d) : j = i + Len(c)
        BY <1>3, <3>2
      <4>2. (c \o d)[j] = d[i] /\ (d[i] \in Grant <=> i = k)
        BY <1>3, <2>1, <4>1
      <4>3. i = k <=> j = k + Len(c)
        BY <1>2, <4>1
      <4> QED BY <4>2, <4>3
    <3> QED BY <3>1, <3>2
  <2> QED BY <1>3, <2>1, <2>2 DEF OneGrant
<1> QED BY <1>1, <1>4, <1>5, <1>6

\* The server takes a request.
LEMMA TakeRequest ==
  ASSUME NEW q \in Seq(Sendable), q # << >>
  PROVE  /\ Tail(q) \in Seq(Sendable) /\ Head(q) \in Sendable
         /\ \A ids : Only(q, ids) => Only(Tail(q), ids) /\ Head(q).id \in ids
         /\ \A id : LastIs(q, id) /\ Head(q).id # id => LastIs(Tail(q), id)
         /\ \A id : LastIs(q, id) /\ Head(q).id = id => Tail(q) = << >>
<1>1. /\ Tail(q) \in Seq(Sendable) /\ Len(q) \in Nat /\ Len(q) > 0 /\ Len(Tail(q)) = Len(q) - 1
      /\ Head(q) = q[1] /\ Head(q) \in Sendable
      /\ \A k \in 1..(Len(q) - 1) : Tail(q)[k] = q[k + 1]
  BY Behind
<1>2. ASSUME NEW ids, Only(q, ids) PROVE Only(Tail(q), ids) /\ Head(q).id \in ids
  <2>1. 1 \in 1..Len(q) /\ \A k \in 1..Len(Tail(q)) : k + 1 \in 1..Len(q) /\ Tail(q)[k] = q[k + 1]
    BY <1>1
  <2> QED BY <1>1, <1>2, <2>1 DEF Only
<1>3. ASSUME NEW id, LastIs(q, id), Head(q).id # id PROVE LastIs(Tail(q), id)
  <2>1. \A k \in 1..Len(q) : q[k].id = id <=> k = Len(q)
    BY <1>3 DEF LastIs
  <2>2. Len(q) # 1
    <3>1. 1 \in 1..Len(q) /\ q[1].id # id
      BY <1>1, <1>3
    <3> QED BY <2>1, <3>1
  <2>3. /\ Len(Tail(q)) > 0
        /\ \A k \in 1..Len(Tail(q)) : k + 1 \in 1..Len(q) /\ Tail(q)[k] = q[k + 1]
                                     /\ (k + 1 = Len(q) <=> k = Len(Tail(q)))
    BY <1>1, <2>2
  <2> QED BY <2>1, <2>3 DEF LastIs
<1>4. ASSUME NEW id, LastIs(q, id), Head(q).id = id PROVE Tail(q) = << >>
  <2>1. 1 \in 1..Len(q) /\ q[1].id = id
    BY <1>1, <1>4
  <2>2. Len(q) = 1
    <3>1. \A k \in 1..Len(q) : q[k].id = id <=> k = Len(q)
      BY <1>4 DEF LastIs
    <3> QED BY <2>1, <3>1
  <2>3. Len(Tail(q)) = 0
    BY <1>1, <2>2
  <2> QED BY <1>1, <2>3, EmptySeq
<1> QED BY <1>1, <1>2, <1>3, <1>4

\* PostSendPacket adds a request.
LEMMA AddRequest ==
  ASSUME NEW q \in Seq(Sendable), NEW r \in Sendable
  PROVE  /\ Append(q, r) \in Seq(Sendable)
         /\ \A ids : Only(q, ids) /\ r.id \in ids => Only(Append(q, r), ids)
         /\ \A ids : Only(q, ids) /\ r.id \notin ids => LastIs(Append(q, r), r.id)
<1>1. /\ Append(q, r) \in Seq(Sendable) /\ Len(Append(q, r)) = Len(q) + 1 /\ Len(q) \in Nat
      /\ \A k \in 1..Len(q) : Append(q, r)[k] = q[k]
      /\ Append(q, r)[Len(q) + 1] = r
  BY AppendProperties, LenProperties
<1>2. \A k \in 1..Len(Append(q, r)) : k # Len(q) + 1 => k \in 1..Len(q)
  BY <1>1
<1>3. ASSUME NEW ids, Only(q, ids), r.id \in ids PROVE Only(Append(q, r), ids)
  <2>1. ASSUME NEW k \in 1..Len(Append(q, r)) PROVE Append(q, r)[k].id \in ids
    <3>1. CASE k = Len(q) + 1
      BY <1>1, <1>3, <3>1
    <3>2. CASE k # Len(q) + 1
      BY <1>1, <1>2, <1>3, <3>2 DEF Only
    <3> QED BY <3>1, <3>2
  <2> QED BY <2>1 DEF Only
<1>4. ASSUME NEW ids, Only(q, ids), r.id \notin ids PROVE LastIs(Append(q, r), r.id)
  <2>1. \A k \in 1..Len(q) : q[k].id # r.id /\ k # Len(q) + 1
    BY <1>1, <1>4 DEF Only
  <2>2. ASSUME NEW k \in 1..Len(Append(q, r))
        PROVE  Append(q, r)[k].id = r.id <=> k = Len(Append(q, r))
    <3>1. CASE k = Len(q) + 1
      BY <1>1, <3>1
    <3>2. CASE k # Len(q) + 1
      BY <1>1, <1>2, <2>1, <3>2
    <3> QED BY <3>1, <3>2
  <2>3. Len(Append(q, r)) > 0
    BY <1>1
  <2> QED BY <2>2, <2>3 DEF LastIs
<1> QED BY <1>1, <1>3, <1>4

\* An empty queue holds no grant and only the ids one likes.
LEMMA Nothing ==
  /\ NoGrant(<< >>) /\ \A ids : Only(<< >>, ids)
  /\ << >> \in Seq(Packet) /\ << >> \in Seq(Sendable)
BY DEF NoGrant, Only

----------------------------------------------------------------------------
(* What a handler sends, and how it moves the session it serves.           *)

\* A list of what others do and of refusals holds no grant.
LEMMA Noises ==
  ASSUME NEW d \in Seq(Noise)
  PROVE  d \in Seq(Packet) /\ NoGrant(d)
<1>1. \A k \in 1..Len(d) : d[k] \in Noise
  OBVIOUS
<1>2. NoGrant(d)
  BY <1>1, Kinds DEF NoGrant
<1>3. d \in Seq(Packet)
  BY DEF Packet
<1> QED BY <1>2, <1>3

\* One packet that makes the form change, alone.
LEMMA OnePacket ==
  ASSUME NEW g, NEW p \in g, g \subseteq Grant
  PROVE  <<p>> \in Seq(Packet) /\ OneGrant(<<p>>, g)
<1>1. <<p>> \in Seq(Packet)
  BY DEF Packet
<1>2. Len(<<p>>) = 1 /\ <<p>>[1] = p
  OBVIOUS
<1>3. 1 \in 1..Len(<<p>>) /\ \A j \in 1..Len(<<p>>) : j = 1
  BY <1>2
<1>4. OneGrant(<<p>>, g)
  BY <1>2, <1>3 DEF OneGrant
<1> QED BY <1>1, <1>4

\* The five kinds of answer are grants.
LEMMA Grants ==
  /\ LoginOk \subseteq Grant /\ LobbyOk \subseteq Grant /\ EnterOk \subseteq Grant
  /\ RoomOk \subseteq Grant /\ LeaveOk \subseteq Grant
BY DEF Grant

\* A room's list is told something, and s gets an acknowledgement.
LEMMA Told ==
  ASSUME TypeOK, NEW r \in Room, NEW p \in Noise, NEW t \in Slot
  PROVE  SendToAllUser(r, p)[t] \in Seq(Noise)
<1>1. mUserList[r][t] \in Nat
  BY DEF TypeOK
<1>2. [i \in 1..mUserList[r][t] |-> p] \in Seq(Noise)
  BY <1>1
<1> QED BY <1>2 DEF SendToAllUser

\* A room is told something and s gets its answer behind it: s has the one
\* grant, the others have none.
LEMMA ToldThen ==
  ASSUME TypeOK, NEW r \in Room, NEW p \in Noise, NEW s \in Slot, NEW t \in Slot,
         NEW g, NEW q \in g, g \subseteq Grant
  PROVE  LET d == Then(SendToAllUser(r, p), To(s, q))[t] IN
           /\ t # s => d \in Seq(Noise)
           /\ t = s => d \in Seq(Packet) /\ OneGrant(d, g)
<1> DEFINE a == SendToAllUser(r, p)[t]
           d == Then(SendToAllUser(r, p), To(s, q))[t]
<1>1. a \in Seq(Noise)
  BY Told
<1>2. a \in Seq(Packet) /\ NoGrant(a)
  BY <1>1, Noises
<1>3. d = a \o (IF t = s THEN <<q>> ELSE << >>)
  BY DEF Then, To
<1>4. CASE t # s
  <2>1. d = a
    BY <1>1, <1>3, <1>4
  <2> QED BY <1>1, <1>4, <2>1
<1>5. CASE t = s
  <2>1. d = a \o <<q>>
    BY <1>3, <1>5
  <2> HIDE DEF a, d
  <2>2. d \in Seq(Packet) /\ OneGrant(d, g)
    BY <1>2, <2>1, OnePacket, AddPackets
  <2> QED BY <1>5, <2>2 DEF d
<1> QED BY <1>4, <1>5

\* The server leaves session t where it is and tells it at most what others do.
Still(t) ==
    /\ mState'[t] = mState[t] /\ handlers'[t] = handlers[t]
    /\ mRoomIndex'[t] = mRoomIndex[t] /\ view'[t] = view[t]
    /\ out'[t] \in Seq(Noise)

\* The session goes from one state to another and is told so by a grant of g,
\* or by none.
Goes(s, from, to) ==
    /\ Live(s) /\ mState[s] = from
    /\ mState'[s] = to /\ handlers'[s] = Handlers(to)
Granted(s, from, to, g) ==
    Goes(s, from, to) /\ out'[s] \in Seq(Packet) /\ OneGrant(out'[s], g)
Refused(s, from, to) == Goes(s, from, to) /\ out'[s] \in Seq(Noise)

\* What a request does to the session it came from.
Effect(s, id) ==
    \/ Still(s) /\ ~fault' /\ (id \in handlers[s] => id \in {"LOGIN", "ROOM_CHAT"})
    \/ /\ id = "LOGIN" /\ Granted(s, "Connected", "InLobby", LoginOk)
       /\ view'[s] = view[s] /\ ~fault'
    \/ /\ id = "LOBBY_INFO" /\ Granted(s, "InLobby", "InLobby", LobbyOk)
       /\ view'[s] = view[s] /\ ~fault'
    \/ /\ id = "ROOM_ENTER" /\ Granted(s, "InLobby", "InRoom", EnterOk)
       /\ mRoomIndex'[s] \in Room /\ view'[s] \in Room /\ ~fault'
    \/ /\ id = "ROOM_ENTER" /\ Refused(s, "InLobby", "InRoom")
       /\ view'[s] = view[s] /\ ~fault'
    \/ /\ id = "ROOM_INFO" /\ Granted(s, "InRoom", "InRoom", RoomOk)
       /\ mRoomIndex'[s] = mRoomIndex[s] /\ view'[s] = view[s] /\ ~fault'
    \/ /\ id = "ROOM_INFO" /\ mState[s] = "InRoom" /\ mRoomIndex[s] \notin Room /\ Live(s)
       /\ fault'
    \/ /\ id = "ROOM_LEAVE" /\ Granted(s, "InRoom", "InLobby", LeaveOk)
       /\ view'[s] = NoRoom /\ ~fault'
    \/ /\ id = "ROOM_LEAVE" /\ Refused(s, "InRoom", "InLobby") /\ ~fault'
       /\ mRoomIndex[s] \notin Room /\ view'[s] = view[s]

\* ... and to the others.
Others(s) == \A t \in Slot : t # s => Still(t)

\* The refusals and what others do, one kind after the other.
LEMMA NoiseKinds ==
  /\ \A i \in Id : /\ <<"NOTIFY_ROOM_INFO", i>> \in Noise /\ <<"NOTIFY_ROOM_LEAVE", i>> \in Noise
                   /\ <<"NOTIFY_ROOM_CHAT", i>> \in Noise
  /\ <<"ACK_LOGIN", "LOGIN_USER_ALREADY">> \in Noise
  /\ <<"ACK_LOGIN", "LOGIN_USER_INVALID_PW">> \in Noise
  /\ <<"NOTIFY_LOBBY_INFO", Room>> \in Noise
  /\ <<"ACK_ROOM_ENTER", "ROOM_FULL">> \in Noise
  /\ <<"ACK_ROOM_ENTER", "ROOM_INVALID_INDEX">> \in Noise
  /\ <<"ACK_ROOM_LEAVE", "ROOM_INVALID_INDEX">> \in Noise
  /\ <<"ACK_ROOM_CHAT", "CHAT_ROOM_SUCCESS">> \in Noise
  /\ <<"ACK_ROOM_CHAT", "CHAT_ROOM_INVALID_ROOM_NUMBER">> \in Noise
BY DEF Noise

\* Only s gets a packet, and it changes nothing in the form.
LEMMA ToNoise ==
  ASSUME NEW s \in Slot, NEW p \in Noise, NEW t \in Slot
  PROVE  To(s, p)[t] \in Seq(Noise)
BY DEF To

\* Only s gets a packet, and it is a grant.
LEMMA ToGrant ==
  ASSUME NEW s \in Slot, NEW g, NEW p \in g, g \subseteq Grant, NEW t \in Slot
  PROVE  /\ t # s => To(s, p)[t] \in Seq(Noise)
         /\ To(s, p)[s] \in Seq(Packet) /\ OneGrant(To(s, p)[s], g)
<1>1. To(s, p)[s] = <<p>> /\ (t # s => To(s, p)[t] = << >>)
  BY DEF To
<1>2. <<p>> \in Seq(Packet) /\ OneGrant(<<p>>, g) /\ << >> \in Seq(Noise)
  BY OnePacket
<1> QED BY <1>1, <1>2

\* A request on the way has the argument its handler reads.
LEMMA Requests ==
  ASSUME NEW req \in Sendable
  PROVE  /\ req.id \in Request
         /\ req.id = "LOGIN" => req.arg[1] \in Id /\ req.arg[2] \in Pw
         /\ req.id = "ROOM_ENTER" => req.arg \in RoomNumber
<1>1. Request = {"CREATE_ACCOUNT", "LOGIN", "LOBBY_INFO", "ROOM_ENTER", "ROOM_INFO",
                 "ROOM_LEAVE", "ROOM_CHAT"}
  BY DEF Request, State, Handlers
<1>2. CASE \E id \in Id, pw \in Pw : req = Req("LOGIN", <<id, pw>>)
  BY <1>1, <1>2 DEF Req
<1>3. CASE \E n \in RoomNumber : req = Req("ROOM_ENTER", n)
  BY <1>1, <1>3 DEF Req
<1>4. CASE \E id \in {"LOBBY_INFO", "ROOM_INFO", "ROOM_LEAVE", "ROOM_CHAT"} : req = Req(id, NoArg)
  BY <1>1, <1>4 DEF Req
<1> QED BY <1>2, <1>3, <1>4 DEF Sendable

\* A request the state of the session has no handler for is dropped.
LEMMA IgnoredEffect ==
  ASSUME NEW s \in Slot, NEW id, IgnoredRequest(s, id)
  PROVE  Effect(s, id) /\ Others(s)
<1>1. \A t \in Slot : Still(t)
  BY DEF IgnoredRequest, Still, Quiet
<1>2. ~fault' /\ id \notin handlers[s]
  BY DEF IgnoredRequest
<1> QED BY <1>1, <1>2 DEF Effect, Others

\* ProcessLogin lets the user into the lobby, or refuses and leaves it.
LEMMA LoginEffect ==
  ASSUME IInv, NEW s \in Slot, NEW id \in Id, NEW pw \in Pw, ProcessLogin(s, id, pw)
  PROVE  Effect(s, "LOGIN") /\ Others(s)
<1>1. mState[s] = "Connected" /\ Live(s) /\ ~fault'
  BY AcceptsState DEF IInv, ProcessLogin, Accepts
<1>2. CASE LoginSuccess(s, id, pw)
  <2> DEFINE p == <<"ACK_LOGIN", "LOGIN_SUCCESS">>
  <2>1. out' = To(s, p) /\ p \in LoginOk
    BY <1>2 DEF LoginSuccess, LoginOk
  <2> HIDE DEF p
  <2>2. /\ out'[s] \in Seq(Packet) /\ OneGrant(out'[s], LoginOk)
        /\ \A t \in Slot : t # s => out'[t] \in Seq(Noise)
    BY <2>1, ToGrant, Grants
  <2>3. Goes(s, "Connected", "InLobby") /\ view'[s] = view[s]
    BY <1>1, <1>2 DEF ProcessLogin, LoginSuccess, AddUser, ChangeState, Goes, IInv, TypeOK
  <2>4. Others(s)
    BY <1>2, <2>2 DEF ProcessLogin, LoginSuccess, AddUser, ChangeState, Others, Still, IInv, TypeOK
  <2> QED BY <1>1, <2>2, <2>3, <2>4 DEF Effect, Granted
<1>3. CASE LoginUnchanged /\ \E p \in Noise : out' = To(s, p)
  <2>1. \A t \in Slot : Still(t)
    BY <1>3, ToNoise DEF ProcessLogin, LoginUnchanged, Still
  <2> QED BY <1>1, <2>1 DEF Effect, Others
<1> QED BY <1>2, <1>3, NoiseKinds DEF ProcessLogin, LoginAlready, LoginRefused

\* ProcessLobbyInfo answers and leaves the session in the lobby.
LEMMA LobbyEffect ==
  ASSUME IInv, NEW s \in Slot, ProcessLobbyInfo(s)
  PROVE  Effect(s, "LOBBY_INFO") /\ Others(s)
<1> DEFINE p == <<"ACK_LOBBY_INFO", "LOBBY_INFO_SUCCESS">>
           q == <<"NOTIFY_LOBBY_INFO", Room>>
<1>1. mState[s] = "InLobby" /\ Live(s) /\ ~fault'
  BY AcceptsState DEF IInv, ProcessLobbyInfo, Accepts
<1>2. p \in LobbyOk /\ q \in Noise /\ out' = Then(To(s, p), To(s, q))
  BY NoiseKinds DEF ProcessLobbyInfo, LobbyOk
<1> HIDE DEF p, q
<1>3. \A t \in Slot : out'[t] = To(s, p)[t] \o To(s, q)[t]
  BY <1>2 DEF Then
<1>4. \A t \in Slot : t # s => out'[t] \in Seq(Noise)
  BY <1>3 DEF To
<1>5. out'[s] \in Seq(Packet) /\ OneGrant(out'[s], LobbyOk)
  <2>1. To(s, p)[s] \in Seq(Packet) /\ OneGrant(To(s, p)[s], LobbyOk)
    BY <1>2, ToGrant, Grants
  <2>2. To(s, q)[s] \in Seq(Packet) /\ NoGrant(To(s, q)[s])
    BY <1>2, ToNoise, Noises
  <2>3. /\ To(s, p)[s] \o To(s, q)[s] \in Seq(Packet)
        /\ OneGrant(To(s, p)[s] \o To(s, q)[s], LobbyOk)
    BY <2>1, <2>2, AddPackets
  <2> QED BY <1>3, <2>3
<1>6. handlers[s] = Handlers("InLobby")
  BY <1>1 DEF IInv, SlotInv, Live
<1>7. Granted(s, "InLobby", "InLobby", LobbyOk) /\ view'[s] = view[s]
  BY <1>1, <1>5, <1>6 DEF ProcessLobbyInfo, Granted, Goes
<1>8. Others(s)
  BY <1>4 DEF ProcessLobbyInfo, Others, Still
<1> QED BY <1>1, <1>7, <1>8 DEF Effect

\* ProcessEnterRoom changes to the room state whether or not the room took the
\* user in.
LEMMA EnterEffect ==
  ASSUME IInv, NEW s \in Slot, NEW n \in RoomNumber, ProcessEnterRoom(s, n)
  PROVE  Effect(s, "ROOM_ENTER") /\ Others(s)
<1>1. mState[s] = "InLobby" /\ Live(s) /\ ~fault'
  BY AcceptsState DEF IInv, ProcessEnterRoom, Accepts
<1>2. Goes(s, "InLobby", "InRoom") /\ mRoomIndex'[s] = n
  BY <1>1 DEF ProcessEnterRoom, ChangeState, Goes, IInv, TypeOK
<1>3. \A t \in Slot : t # s => /\ mState'[t] = mState[t] /\ handlers'[t] = handlers[t]
                               /\ mRoomIndex'[t] = mRoomIndex[t]
  BY DEF ProcessEnterRoom, ChangeState, IInv, TypeOK
<1>4. CASE EnterRefused(s, n)
  <2>1. PICK p \in Noise : out' = To(s, p)
    BY <1>4, NoiseKinds DEF EnterRefused, EnterResult
  <2>2. \A t \in Slot : out'[t] \in Seq(Noise) /\ view'[t] = view[t]
    BY <1>4, <2>1, ToNoise DEF EnterRefused
  <2> QED BY <1>1, <1>2, <1>3, <2>2 DEF Effect, Refused, Others, Still
<1>5. CASE EnterUser(s, n)
  <2> DEFINE p == <<"NOTIFY_ROOM_INFO", mUserID[s]>>
             q == <<"ACK_ROOM_ENTER", "ENTER_ROOM_SUCCESS">>
  <2>1. n \in Room /\ out' = Then(SendToAllUser(n, p), To(s, q))
    BY <1>5 DEF EnterUser, EnterResult
  <2>2. p \in Noise /\ q \in EnterOk
    BY NoiseKinds DEF EnterOk, IInv, TypeOK
  <2>3. view'[s] = n /\ \A t \in Slot : t # s => view'[t] = view[t]
    BY <1>5 DEF EnterUser, IInv, TypeOK
  <2> HIDE DEF p, q
  <2>4. /\ out'[s] \in Seq(Packet) /\ OneGrant(out'[s], EnterOk)
        /\ \A t \in Slot : t # s => out'[t] \in Seq(Noise)
    BY <2>1, <2>2, ToldThen, Grants DEF IInv
  <2> QED BY <1>1, <1>2, <1>3, <2>1, <2>3, <2>4 DEF Effect, Granted, Others, Still
<1> QED BY <1>4, <1>5 DEF ProcessEnterRoom

\* ProcessRoomInfo answers, or meets the null room of a refused enter.
LEMMA RoomInfoEffect ==
  ASSUME IInv, NEW s \in Slot, ProcessRoomInfo(s)
  PROVE  Effect(s, "ROOM_INFO") /\ Others(s)
<1>1. mState[s] = "InRoom" /\ Live(s)
  BY AcceptsState DEF IInv, ProcessRoomInfo
<1>2. \A t \in Slot : /\ mState'[t] = mState[t] /\ handlers'[t] = handlers[t]
                      /\ mRoomIndex'[t] = mRoomIndex[t] /\ view'[t] = view[t]
  BY DEF ProcessRoomInfo
<1>3. CASE mRoomIndex[s] \in Room
  <2> DEFINE ids == {mUserID[t] : t \in {u \in Slot : mUserList[mRoomIndex[s]][u] > 0}}
             p == <<"ACK_ROOM_INFO", ids>>
  <2>1. out' = To(s, p) /\ ~fault'
    BY <1>3 DEF ProcessRoomInfo
  <2>2. p \in RoomOk
    <3>1. ids \in SUBSET Id
      BY DEF IInv, TypeOK
    <3> QED BY <3>1 DEF RoomOk
  <2> HIDE DEF p
  <2>3. /\ out'[s] \in Seq(Packet) /\ OneGrant(out'[s], RoomOk)
        /\ \A t \in Slot : t # s => out'[t] \in Seq(Noise)
    BY <2>1, <2>2, ToGrant, Grants
  <2>4. handlers[s] = Handlers("InRoom")
    BY <1>1 DEF IInv, SlotInv, Live
  <2> QED BY <1>1, <1>2, <2>1, <2>3, <2>4 DEF Effect, Granted, Goes, Others, Still
<1>4. CASE mRoomIndex[s] \notin Room
  <2>1. fault' = (mRoomIndex[s] \notin Room) /\ out' = Quiet
    BY <1>4 DEF ProcessRoomInfo
  <2>2. fault'
    BY <1>4, <2>1, Zenon
  <2>3. \A t \in Slot : out'[t] \in Seq(Noise)
    BY <2>1 DEF Quiet
  <2> QED BY <1>1, <1>2, <1>4, <2>2, <2>3 DEF Effect, Others, Still
<1> QED BY <1>3, <1>4

\* ProcessLeaveRoom changes to the lobby whether or not there was a room.
LEMMA LeaveEffect ==
  ASSUME IInv, NEW s \in Slot, ProcessLeaveRoom(s)
  PROVE  Effect(s, "ROOM_LEAVE") /\ Others(s)
<1> DEFINE r == mRoomIndex[s]
<1>1. mState[s] = "InRoom" /\ Live(s) /\ ~fault'
  BY AcceptsState DEF IInv, ProcessLeaveRoom, Accepts
<1>2. Goes(s, "InRoom", "InLobby")
  BY <1>1 DEF ProcessLeaveRoom, ChangeState, Goes, IInv, TypeOK
<1>3. \A t \in Slot : t # s => /\ mState'[t] = mState[t] /\ handlers'[t] = handlers[t]
                               /\ mRoomIndex'[t] = mRoomIndex[t]
  BY DEF ProcessLeaveRoom, ChangeState, IInv, TypeOK
<1>4. CASE LeaveNoRoom(s, r)
  <2>1. PICK p \in Noise : out' = To(s, p)
    BY <1>4, NoiseKinds DEF LeaveNoRoom
  <2>2. r \notin Room /\ \A t \in Slot : out'[t] \in Seq(Noise) /\ view'[t] = view[t]
    BY <1>4, <2>1, ToNoise DEF LeaveNoRoom
  <2> QED BY <1>1, <1>2, <1>3, <2>2 DEF Effect, Refused, Others, Still
<1>5. CASE LeaveUser(s, r)
  <2> DEFINE p == <<"NOTIFY_ROOM_LEAVE", mUserID[s]>>
             q == <<"ACK_ROOM_LEAVE", "LEAVE_ROOM_SUCCESS">>
  <2>1. r \in Room /\ out' = Then(SendToAllUser(r, p), To(s, q))
    BY <1>5 DEF LeaveUser, LeaveKeeping
  <2>2. p \in Noise /\ q \in LeaveOk
    BY NoiseKinds DEF LeaveOk, IInv, TypeOK
  <2>3. view'[s] = NoRoom /\ \A t \in Slot : t # s => view'[t] = view[t]
    BY <1>5 DEF LeaveUser, LeaveKeeping, IInv, TypeOK
  <2> HIDE DEF p, q, r
  <2>4. /\ out'[s] \in Seq(Packet) /\ OneGrant(out'[s], LeaveOk)
        /\ \A t \in Slot : t # s => out'[t] \in Seq(Noise)
    BY <2>1, <2>2, ToldThen, Grants DEF IInv
  <2> QED BY <1>1, <1>2, <1>3, <2>3, <2>4 DEF Effect, Granted, Others, Still
<1> QED BY <1>4, <1>5 DEF ProcessLeaveRoom

\* ProcessRoomChatMessage moves nobody and sends nothing that counts.
LEMMA ChatEffect ==
  ASSUME IInv, NEW s \in Slot, ProcessRoomChatMessage(s)
  PROVE  Effect(s, "ROOM_CHAT") /\ Others(s)
<1> DEFINE r == mRoomIndex[s]
           p == <<"NOTIFY_ROOM_CHAT", mUserID[s]>>
           q == <<"ACK_ROOM_CHAT", "CHAT_ROOM_SUCCESS">>
<1>1. p \in Noise /\ q \in Noise
  BY NoiseKinds DEF IInv, TypeOK
<1>2. IF r \in Room THEN out' = Then(To(s, q), SendToAllUser(r, p))
                    ELSE \E a \in Noise : out' = To(s, a)
  BY NoiseKinds DEF ProcessRoomChatMessage, ChatThen
<1> HIDE DEF p, q, r
<1>3. ASSUME NEW t \in Slot PROVE out'[t] \in Seq(Noise)
  <2>1. CASE r \in Room
    <3>1. out'[t] = To(s, q)[t] \o SendToAllUser(r, p)[t]
      BY <1>2, <2>1 DEF Then
    <3>2. To(s, q)[t] \in Seq(Noise) /\ SendToAllUser(r, p)[t] \in Seq(Noise)
      BY <1>1, <2>1, ToNoise, Told DEF IInv
    <3>3. To(s, q)[t] \o SendToAllUser(r, p)[t] \in Seq(Noise)
      BY <3>2, ConcatProperties
    <3> QED BY <3>1, <3>3
  <2>2. CASE r \notin Room
    BY <1>2, <2>2, ToNoise
  <2> QED BY <2>1, <2>2
<1>4. \A t \in Slot : Still(t)
  BY <1>3 DEF ProcessRoomChatMessage, ChatThen, Still
<1>5. ~fault'
  BY DEF ProcessRoomChatMessage, ChatThen, Accepts
<1> QED BY <1>4, <1>5 DEF Effect, Others

\* The next request, whatever it is.
LEMMA ServeEffect ==
  ASSUME IInv, NEW s \in Slot, NEW req \in Sendable, ServeRequest(s, req)
  PROVE  Handle(s) /\ Effect(s, req.id) /\ Others(s)
<1>1. CASE IgnoredRequest(s, req.id)
  BY <1>1, IgnoredEffect, Requests DEF Handle
<1>2. CASE req.id = "LOGIN" /\ ProcessLogin(s, req.arg[1], req.arg[2])
  BY <1>2, LoginEffect, Requests DEF Handle
<1>3. CASE req.id = "LOBBY_INFO" /\ ProcessLobbyInfo(s)
  BY <1>3, LobbyEffect DEF Handle
<1>4. CASE req.id = "ROOM_ENTER" /\ ProcessEnterRoom(s, req.arg)
  BY <1>4, EnterEffect, Requests DEF Handle
<1>5. CASE req.id = "ROOM_INFO" /\ ProcessRoomInfo(s)
  BY <1>5, RoomInfoEffect DEF Handle
<1>6. CASE req.id = "ROOM_LEAVE" /\ ProcessLeaveRoom(s)
  BY <1>6, LeaveEffect DEF Handle
<1>7. CASE req.id = "ROOM_CHAT" /\ ProcessRoomChatMessage(s)
  BY <1>7, ChatEffect DEF Handle
<1> QED BY <1>1, <1>2, <1>3, <1>4, <1>5, <1>6, <1>7 DEF ServeRequest

----------------------------------------------------------------------------
(* Sessions whose phase does not change.                                   *)

\* What the client will see is the same, but for what others do.
Carries(c, d) == (NoGrant(c) => NoGrant(d)) /\ \A g : OneGrant(c, g) => OneGrant(d, g)

ServerSame(t) ==
    /\ mState'[t] = mState[t] /\ handlers'[t] = handlers[t]
    /\ mRoomIndex'[t] = mRoomIndex[t] /\ view'[t] = view[t]
ButtonsSame(t) ==
    /\ LoginBtn'[t] = LoginBtn[t] /\ RoomEnterBtn'[t] = RoomEnterBtn[t]
    /\ RoomExit'[t] = RoomExit[t]
WaySame(t) ==
    /\ toServer'[t] = toServer[t] /\ Carries(toClient[t], toClient'[t])
    /\ sock[t] = "none" => toClient'[t] = toClient[t]

\* A step that changes nothing of a session but adds packets that do not count
\* to those on the way leaves it in its phase.
LEMMA SamePhase ==
  ASSUME NEW t \in Slot, Phase(t), ServerSame(t), ButtonsSame(t), WaySame(t),
         t \in stranded => t \in stranded'
  PROVE  Phase(t)'
<1> USE DEF ServerSame, ButtonsSame, WaySame, Carries, Shows
<1>1. CASE LoggingIn(t)
  <2>1. LoggingIn(t)'
    BY <1>1 DEF LoggingIn
  <2> QED BY <2>1 DEF Phase
<1>2. CASE LoggedIn(t)
  <2>1. LoggedIn(t)'
    BY <1>2 DEF LoggedIn
  <2> QED BY <2>1 DEF Phase
<1>3. CASE LobbyAsked(t)
  <2>1. LobbyAsked(t)'
    BY <1>3 DEF LobbyAsked
  <2> QED BY <2>1 DEF Phase
<1>4. CASE LobbyGranted(t)
  <2>1. LobbyGranted(t)'
    BY <1>4 DEF LobbyGranted
  <2> QED BY <2>1 DEF Phase
<1>5. CASE AtLobby(t)
  <2>1. AtLobby(t)'
    BY <1>5 DEF AtLobby
  <2> QED BY <2>1 DEF Phase
<1>6. CASE Entered(t)
  <2>1. Entered(t)'
    BY <1>6 DEF Entered, InARoom
  <2> QED BY <2>1 DEF Phase
<1>7. CASE RoomAsked(t)
  <2>1. RoomAsked(t)'
    BY <1>7 DEF RoomAsked, InARoom
  <2> QED BY <2>1 DEF Phase
<1>8. CASE RoomGranted(t)
  <2>1. RoomGranted(t)'
    BY <1>8 DEF RoomGranted, InARoom
  <2> QED BY <2>1 DEF Phase
<1>9. CASE AtRoom(t)
  <2>1. AtRoom(t)'
    BY <1>9 DEF AtRoom, InARoom
  <2> QED BY <2>1 DEF Phase
<1>10. CASE Left(t)
  <2>1. Left(t)'
    BY <1>10 DEF Left
  <2> QED BY <2>1 DEF Phase
<1>11. CASE Stranded(t)
  <2>1. Stranded(t)'
    BY <1>11 DEF Stranded
  <2> QED BY <2>1 DEF Phase
<1> QED
  BY <1>1, <1>2, <1>3, <1>4, <1>5, <1>6, <1>7, <1>8, <1>9, <1>10, <1>11 DEF Phase

\* A step that leaves a session alone, or tells it what others do.
LEMMA SameSession ==
  ASSUME NEW t \in Slot, SessionInv(t), ServerSame(t), ButtonsSame(t), WaySame(t),
         sock'[t] = sock[t], t \in stranded => t \in stranded'
  PROVE  SessionInv(t)'
<1>1. sock[t] = "none" => Before(t)'
  BY DEF SessionInv, Before, Shows, ServerSame, ButtonsSame, WaySame
<1>2. ASSUME sock[t] = "open" PROVE Up(t)'
  <2>1. Up(t)
    BY <1>2 DEF SessionInv
  <2>2. Phase(t)'
    BY <2>1, SamePhase DEF Up
  <2> QED BY <2>1, <2>2 DEF Up, ServerSame
<1>3. sock[t] = "closed" => Down(t)'
  BY DEF SessionInv, Down, InARoom, ServerSame, WaySame
<1> QED BY <1>1, <1>2, <1>3 DEF SessionInv

\* Deliver brings a session what others do.
LEMMA Delivered ==
  ASSUME WireTypeInv, NEW t \in Slot, Deliver, out'[t] \in Seq(Noise),
         toServer'[t] = toServer[t]
  PROVE  WaySame(t)
<1>1. toClient'[t] = IF sock[t] = "open" THEN toClient[t] \o out'[t] ELSE toClient[t]
  BY DEF Deliver
<1>2. toClient[t] \in Seq(Packet) /\ out'[t] \in Seq(Packet) /\ NoGrant(out'[t])
  BY Noises DEF WireTypeInv
<1>3. Carries(toClient[t], toClient[t] \o out'[t])
  BY <1>2, AddPackets DEF Carries
<1>4. Carries(toClient[t], toClient[t])
  BY DEF Carries
<1> QED BY <1>1, <1>3, <1>4 DEF WaySame

----------------------------------------------------------------------------
(* The server serves a session's next request.                             *)

\* The first request of a session is one its handlers can be given.
LEMMA ServeFacts ==
  ASSUME SysIInv, NEW s \in Slot, Serve(s)
  PROVE  LET q == toServer[s]
             id == Head(q).id IN
           /\ q \in Seq(Sendable) /\ q # << >> /\ Head(q) \in Sendable
           /\ Handle(s) /\ Effect(s, id) /\ Others(s) /\ Deliver
           /\ toServer'[s] = Tail(q) /\ \A t \in Slot : t # s => toServer'[t] = toServer[t]
           /\ \A t \in Slot : ButtonsSame(t) /\ sock'[t] = sock[t]
           /\ \A t \in Slot : t \in stranded => t \in stranded'
           /\ mState'[s] = "InRoom" /\ view'[s] = NoRoom => s \in stranded'
<1>1. toServer[s] \in Seq(Sendable) /\ toServer[s] # << >>
  BY DEF SysIInv, WireTypeInv, Serve
<1>2. Head(toServer[s]) \in Sendable
  BY <1>1, TakeRequest
<1>3. /\ Handle(s) /\ Effect(s, Head(toServer[s]).id) /\ Others(s) /\ Deliver
  BY <1>2, ServeEffect DEF SysIInv, Serve
<1>4. toServer'[s] = Tail(toServer[s]) /\ \A t \in Slot : t # s => toServer'[t] = toServer[t]
  BY DEF Serve, SysIInv, WireTypeInv
<1>5. \A t \in Slot : ButtonsSame(t) /\ sock'[t] = sock[t]
  BY DEF Serve, ButtonsSame, formVars, buttonVars
<1>6. /\ \A t \in Slot : t \in stranded => t \in stranded'
      /\ mState'[s] = "InRoom" /\ view'[s] = NoRoom => s \in stranded'
  BY DEF Serve
<1> QED BY <1>1, <1>2, <1>3, <1>4, <1>5, <1>6

\* The answer is on its way behind the others.
LEMMA Answered ==
  ASSUME WireTypeInv, NEW s \in Slot, Deliver, sock[s] = "open"
  PROVE  /\ out'[s] \in Seq(Noise) => Carries(toClient[s], toClient'[s])
         /\ \A g : out'[s] \in Seq(Packet) /\ OneGrant(out'[s], g) /\ NoGrant(toClient[s])
                       => OneGrant(toClient'[s], g)
<1>1. toClient'[s] = toClient[s] \o out'[s] /\ toClient[s] \in Seq(Packet)
  BY DEF Deliver, WireTypeInv
<1>2. ASSUME out'[s] \in Seq(Noise) PROVE Carries(toClient[s], toClient'[s])
  <2>1. out'[s] \in Seq(Packet) /\ NoGrant(out'[s])
    BY <1>2, Noises
  <2>2. Carries(toClient[s], toClient[s] \o out'[s])
    BY <1>1, <2>1, AddPackets DEF Carries
  <2> QED BY <1>1, <2>2
<1>3. ASSUME NEW g, out'[s] \in Seq(Packet), OneGrant(out'[s], g), NoGrant(toClient[s])
      PROVE  OneGrant(toClient'[s], g)
  <2>1. OneGrant(toClient[s] \o out'[s], g)
    BY <1>1, <1>3, AddPackets
  <2> QED BY <1>1, <2>1
<1> QED BY <1>2, <1>3

\* Which requests have a handler where.
LEMMA Handled ==
  /\ "LOBBY_INFO" \in Handlers("InLobby") /\ "ROOM_ENTER" \in Handlers("InLobby")
  /\ "ROOM_INFO" \in Handlers("InRoom") /\ "ROOM_LEAVE" \in Handlers("InRoom")
BY DEF Handlers

\* A session that is up moves to the phase that fits.
LEMMA ServeOpen ==
  ASSUME SysIInv, NEW s \in Slot, Serve(s), sock[s] = "open"
  PROVE  Up(s)' /\ ~fault'
<1> DEFINE q == toServer[s]
           id == Head(q).id
<1>1. /\ q \in Seq(Sendable) /\ q # << >> /\ Effect(s, id) /\ ButtonsSame(s)
      /\ toServer'[s] = Tail(q) /\ (s \in stranded => s \in stranded')
      /\ mState'[s] = "InRoom" /\ view'[s] = NoRoom => s \in stranded'
  BY ServeFacts
<1>2. /\ out'[s] \in Seq(Noise) => Carries(toClient[s], toClient'[s])
      /\ \A g : out'[s] \in Seq(Packet) /\ OneGrant(out'[s], g) /\ NoGrant(toClient[s])
                    => OneGrant(toClient'[s], g)
  BY Answered, ServeFacts DEF SysIInv
<1>3. /\ \A ids : Only(q, ids) => Only(Tail(q), ids) /\ id \in ids
      /\ \A i : LastIs(q, i) /\ id # i => LastIs(Tail(q), i)
      /\ \A i : LastIs(q, i) /\ id = i => Tail(q) = << >>
  BY <1>1, TakeRequest
<1>4. /\ Phase(s) /\ handlers[s] = Handlers(mState[s])
      /\ mState[s] = "InLobby" => view[s] = NoRoom
      /\ mState[s] = "Connected" => view[s] = NoRoom
  BY DEF SysIInv, SessionInv, Up, IInv, SlotInv
<1>5. NoRoom \notin Room
  BY ChatAssumption
<1> HIDE DEF q, id
<1> USE DEF ButtonsSame, Shows
<1>6. ASSUME LoggingIn(s) PROVE Up(s)' /\ ~fault'
  <2>1. id = "LOGIN" /\ Only(Tail(q), {"LOGIN"}) /\ NoGrant(toClient[s])
    BY <1>3, <1>6 DEF LoggingIn, q
  <2>2. CASE Still(s) /\ ~fault'
    <3>1. LoggingIn(s)'
      BY <1>1, <1>2, <1>6, <2>1, <2>2 DEF LoggingIn, Still, Carries
    <3> QED BY <1>4, <2>2, <3>1 DEF Up, Phase, Still
  <2>3. CASE Granted(s, "Connected", "InLobby", LoginOk) /\ view'[s] = view[s] /\ ~fault'
    <3>1. LoggedIn(s)'
      BY <1>1, <1>2, <1>6, <2>1, <2>3 DEF LoggingIn, LoggedIn, Granted, Goes
    <3> QED BY <1>4, <2>3, <3>1 DEF Up, Phase, Granted, Goes
  <2> QED BY <1>1, <2>1, <2>2, <2>3 DEF Effect
<1>7. ASSUME LoggedIn(s) PROVE Up(s)' /\ ~fault'
  <2>1. id = "LOGIN" /\ Only(Tail(q), {"LOGIN"}) /\ mState[s] = "InLobby"
    BY <1>3, <1>7 DEF LoggedIn, q
  <2>2. Still(s) /\ ~fault'
    BY <1>1, <2>1 DEF Effect, Granted, Goes
  <2>3. LoggedIn(s)'
    BY <1>1, <1>2, <1>7, <2>1, <2>2 DEF LoggedIn, Still, Carries
  <2> QED BY <1>4, <2>2, <2>3 DEF Up, Phase, Still
<1>8. ASSUME LobbyAsked(s) PROVE Up(s)' /\ ~fault'
  <2>1. mState[s] = "InLobby" /\ NoGrant(toClient[s]) /\ LastIs(q, "LOBBY_INFO")
    BY <1>8 DEF LobbyAsked, q
  <2>2. CASE id = "LOBBY_INFO"
    <3>1. Granted(s, "InLobby", "InLobby", LobbyOk) /\ view'[s] = view[s] /\ ~fault'
      BY <1>1, <1>4, <2>1, <2>2, Handled DEF Effect
    <3>2. LobbyGranted(s)'
      BY <1>1, <1>2, <1>3, <1>8, <2>1, <2>2, <3>1 DEF LobbyAsked, LobbyGranted, Granted, Goes
    <3> QED BY <1>4, <2>1, <3>1, <3>2 DEF Up, Phase, Granted, Goes
  <2>3. CASE id = "ROOM_ENTER"
    <3>1. Only(Tail(q), {"ROOM_ENTER", "LOBBY_INFO"})
      BY <1>3, <1>8, <2>3 DEF LobbyAsked, q
    <3>2. CASE /\ Granted(s, "InLobby", "InRoom", EnterOk) /\ ~fault'
               /\ mRoomIndex'[s] \in Room /\ view'[s] \in Room
      <4>1. Entered(s)'
        BY <1>1, <1>2, <1>8, <2>1, <3>1, <3>2 DEF LobbyAsked, Entered, InARoom, Granted, Goes
      <4> QED BY <3>2, <4>1 DEF Up, Phase, Granted, Goes
    <3>3. CASE Refused(s, "InLobby", "InRoom") /\ view'[s] = view[s] /\ ~fault'
      <4>1. Stranded(s)'
        BY <1>1, <1>2, <1>4, <1>8, <2>1, <3>1, <3>3 DEF LobbyAsked, Stranded, Refused, Goes, Carries
      <4> QED BY <3>3, <4>1 DEF Up, Phase, Refused, Goes
    <3> QED BY <1>1, <1>4, <2>1, <2>3, <3>2, <3>3, Handled DEF Effect
  <2>4. CASE id \in {"LOGIN", "ROOM_LEAVE", "ROOM_CHAT"}
    <3>1. Only(Tail(q), {"LOGIN", "ROOM_LEAVE", "ROOM_CHAT", "LOBBY_INFO"})
      BY <1>3, <1>8, <2>4 DEF LobbyAsked, q
    <3>2. LastIs(Tail(q), "LOBBY_INFO")
      BY <1>3, <2>1, <2>4
    <3>3. Still(s) /\ ~fault'
      BY <1>1, <2>1, <2>4 DEF Effect, Granted, Refused, Goes
    <3>4. LobbyAsked(s)'
      BY <1>1, <1>2, <1>8, <2>1, <3>1, <3>2, <3>3 DEF LobbyAsked, Still, Carries
    <3> QED BY <1>4, <3>3, <3>4 DEF Up, Phase, Still
  <2> QED BY <1>3, <1>8, <2>2, <2>3, <2>4 DEF LobbyAsked, q
<1>9. ASSUME AtLobby(s) PROVE Up(s)' /\ ~fault'
  <2>1. /\ mState[s] = "InLobby" /\ NoGrant(toClient[s]) /\ id = "ROOM_ENTER"
        /\ Only(Tail(q), {"ROOM_ENTER"})
    BY <1>3, <1>9 DEF AtLobby, q
  <2>2. Only(Tail(q), {"ROOM_ENTER", "LOBBY_INFO"})
    BY <2>1 DEF Only
  <2>3. CASE /\ Granted(s, "InLobby", "InRoom", EnterOk) /\ ~fault'
             /\ mRoomIndex'[s] \in Room /\ view'[s] \in Room
    <3>1. Entered(s)'
      BY <1>1, <1>2, <1>9, <2>1, <2>2, <2>3 DEF AtLobby, Entered, InARoom, Granted, Goes
    <3> QED BY <2>3, <3>1 DEF Up, Phase, Granted, Goes
  <2>4. CASE Refused(s, "InLobby", "InRoom") /\ view'[s] = view[s] /\ ~fault'
    <3>1. Stranded(s)'
      BY <1>1, <1>2, <1>4, <1>9, <2>1, <2>2, <2>4 DEF AtLobby, Stranded, Refused, Goes, Carries
    <3> QED BY <2>4, <3>1 DEF Up, Phase, Refused, Goes
  <2> QED BY <1>1, <1>4, <2>1, <2>3, <2>4, Handled DEF Effect
<1>10. ASSUME Entered(s) PROVE Up(s)' /\ ~fault'
  <2>1. /\ mState[s] = "InRoom" /\ id \in {"ROOM_ENTER", "LOBBY_INFO"}
        /\ Only(Tail(q), {"ROOM_ENTER", "LOBBY_INFO"})
    BY <1>3, <1>10 DEF Entered, InARoom, q
  <2>2. Still(s) /\ ~fault'
    BY <1>1, <2>1 DEF Effect, Granted, Refused, Goes
  <2>3. Entered(s)'
    BY <1>1, <1>2, <1>10, <2>1, <2>2 DEF Entered, InARoom, Still, Carries
  <2> QED BY <1>4, <2>2, <2>3 DEF Up, Phase, Still
<1>11. ASSUME RoomAsked(s) PROVE Up(s)' /\ ~fault'
  <2>1. /\ mState[s] = "InRoom" /\ mRoomIndex[s] \in Room /\ NoGrant(toClient[s])
        /\ id \in {"ROOM_ENTER", "LOBBY_INFO", "ROOM_INFO"} /\ LastIs(q, "ROOM_INFO")
        /\ Only(Tail(q), {"ROOM_ENTER", "LOBBY_INFO", "ROOM_INFO"})
    BY <1>3, <1>11 DEF RoomAsked, InARoom, q
  <2>2. CASE id = "ROOM_INFO"
    <3>1. /\ Granted(s, "InRoom", "InRoom", RoomOk) /\ ~fault'
          /\ mRoomIndex'[s] = mRoomIndex[s] /\ view'[s] = view[s]
      BY <1>1, <1>4, <2>1, <2>2, Handled DEF Effect
    <3>2. RoomGranted(s)'
      BY <1>1, <1>2, <1>3, <1>11, <2>1, <2>2, <3>1
      DEF RoomAsked, RoomGranted, InARoom, Granted, Goes
    <3> QED BY <3>1, <3>2 DEF Up, Phase, Granted, Goes
  <2>3. CASE id \in {"ROOM_ENTER", "LOBBY_INFO"}
    <3>1. Still(s) /\ ~fault'
      BY <1>1, <2>1, <2>3 DEF Effect, Granted, Refused, Goes
    <3>2. LastIs(Tail(q), "ROOM_INFO")
      BY <1>3, <2>1, <2>3
    <3>3. RoomAsked(s)'
      BY <1>1, <1>2, <1>11, <2>1, <3>1, <3>2 DEF RoomAsked, InARoom, Still, Carries
    <3> QED BY <1>4, <3>1, <3>3 DEF Up, Phase, Still
  <2> QED BY <2>1, <2>2, <2>3
<1>12. ASSUME AtRoom(s) PROVE Up(s)' /\ ~fault'
  <2>1. /\ mState[s] = "InRoom" /\ mRoomIndex[s] \in Room /\ NoGrant(toClient[s])
        /\ id \in {"ROOM_LEAVE", "ROOM_CHAT"} /\ Only(Tail(q), {"ROOM_LEAVE", "ROOM_CHAT"})
    BY <1>3, <1>12 DEF AtRoom, InARoom, q
  <2>2. CASE Still(s) /\ ~fault'
    <3>1. AtRoom(s)'
      BY <1>1, <1>2, <1>12, <2>1, <2>2 DEF AtRoom, InARoom, Still, Carries
    <3> QED BY <1>4, <2>2, <3>1 DEF Up, Phase, Still
  <2>3. CASE Granted(s, "InRoom", "InLobby", LeaveOk) /\ view'[s] = NoRoom /\ ~fault'
    <3>1. Left(s)'
      BY <1>1, <1>2, <1>12, <2>1, <2>3 DEF AtRoom, Left, Granted, Goes
    <3> QED BY <2>3, <3>1 DEF Up, Phase, Granted, Goes
  <2> QED BY <1>1, <2>1, <2>2, <2>3 DEF Effect
<1>13. ASSUME Left(s) PROVE Up(s)' /\ ~fault'
  <2>1. /\ mState[s] = "InLobby" /\ id \in {"ROOM_LEAVE", "ROOM_CHAT"}
        /\ Only(Tail(q), {"ROOM_LEAVE", "ROOM_CHAT"})
    BY <1>3, <1>13 DEF Left, q
  <2>2. Still(s) /\ ~fault'
    BY <1>1, <2>1 DEF Effect, Granted, Refused, Goes
  <2>3. Left(s)'
    BY <1>1, <1>2, <1>13, <2>1, <2>2 DEF Left, Still, Carries
  <2> QED BY <1>4, <2>2, <2>3 DEF Up, Phase, Still
<1>14. ASSUME Stranded(s) PROVE Up(s)' /\ ~fault'
  <2>1. /\ mState[s] = "InRoom" /\ id \in {"ROOM_ENTER", "LOBBY_INFO"}
        /\ Only(Tail(q), {"ROOM_ENTER", "LOBBY_INFO"})
    BY <1>3, <1>14 DEF Stranded, q
  <2>2. Still(s) /\ ~fault'
    BY <1>1, <2>1 DEF Effect, Granted, Refused, Goes
  <2>3. Stranded(s)'
    BY <1>1, <1>2, <1>14, <2>1, <2>2 DEF Stranded, Still, Carries
  <2> QED BY <1>4, <2>2, <2>3 DEF Up, Phase, Still
<1>15. ~LobbyGranted(s) /\ ~RoomGranted(s)
  BY <1>1 DEF LobbyGranted, RoomGranted, q
<1> QED
  BY <1>4, <1>6, <1>7, <1>8, <1>9, <1>10, <1>11, <1>12, <1>13, <1>14, <1>15 DEF Phase

\* A session that is down still has requests the server takes.
LEMMA ServeClosed ==
  ASSUME SysIInv, NEW s \in Slot, Serve(s), sock[s] = "closed"
  PROVE  Down(s)' /\ ~fault'
<1> DEFINE q == toServer[s]
           id == Head(q).id
<1>1. q \in Seq(Sendable) /\ q # << >> /\ Effect(s, id) /\ toServer'[s] = Tail(q)
  BY ServeFacts
<1>2. \A ids : Only(q, ids) => Only(Tail(q), ids) /\ id \in ids
  BY <1>1, TakeRequest
<1>3. Down(s) /\ (Live(s) <=> handlers[s] # {})
  BY DEF SysIInv, SessionInv, Live
<1> HIDE DEF q, id
<1>4. ASSUME Only(q, RoomOrLogin), mState[s] = "InRoom" => view[s] \in Room
      PROVE  Down(s)' /\ ~fault'
  <2>1. id \in RoomOrLogin /\ Only(Tail(q), RoomOrLogin)
    BY <1>2, <1>4
  <2>2. id # "ROOM_INFO" /\ id # "ROOM_ENTER"
    BY <2>1 DEF RoomOrLogin
  <2>3. ~fault' /\ (mState'[s] = "InRoom" => view'[s] \in Room)
    BY <1>1, <1>4, <2>2 DEF Effect, Still, Granted, Refused, Goes
  <2> QED BY <1>1, <2>1, <2>3 DEF Down
<1>5. ASSUME Only(q, {"ROOM_ENTER", "LOBBY_INFO"}) PROVE Down(s)' /\ ~fault'
  <2>1. id \in {"ROOM_ENTER", "LOBBY_INFO"} /\ Only(Tail(q), {"ROOM_ENTER", "LOBBY_INFO"})
    BY <1>2, <1>5
  <2>2. ~fault'
    BY <1>1, <2>1 DEF Effect
  <2> QED BY <1>1, <2>1, <2>2 DEF Down
<1>6. ASSUME InARoom(s), Only(q, {"ROOM_ENTER", "LOBBY_INFO", "ROOM_INFO"})
      PROVE  Down(s)' /\ ~fault'
  <2>1. /\ id \in {"ROOM_ENTER", "LOBBY_INFO", "ROOM_INFO"}
        /\ Only(Tail(q), {"ROOM_ENTER", "LOBBY_INFO", "ROOM_INFO"})
    BY <1>2, <1>6
  <2>2. InARoom(s)' /\ ~fault'
    BY <1>1, <1>6, <2>1 DEF Effect, Still, Granted, Refused, Goes, InARoom
  <2> QED BY <1>1, <2>1, <2>2 DEF Down
<1>7. ASSUME handlers[s] = {}, mState[s] # "None" PROVE Down(s)' /\ ~fault'
  <2>1. Still(s) /\ ~fault'
    BY <1>1, <1>3, <1>7 DEF Effect, Granted, Refused, Goes
  <2> QED BY <1>7, <2>1 DEF Down, Still
<1> QED BY <1>3, <1>4, <1>5, <1>6, <1>7 DEF Down, q

\* Serving a request keeps every session in a phase and never meets a null
\* room.
LEMMA ServeStep ==
  ASSUME SysIInv, NEW s \in Slot, Serve(s)
  PROVE  ~fault' /\ \A t \in Slot : SessionInv(t)'
<1>1. sock'[s] = sock[s] /\ sock[s] \in {"open", "closed"}
  <2>1. sock[s] # "none"
    BY ServeFacts DEF SysIInv, SessionInv, Before
  <2> QED BY <2>1, ServeFacts DEF SysIInv, FormTypeInv
<1>2. ~fault' /\ SessionInv(s)'
  BY <1>1, ServeOpen, ServeClosed DEF SessionInv
<1>3. ASSUME NEW t \in Slot, t # s PROVE SessionInv(t)'
  <2>1. Still(t) /\ Deliver /\ toServer'[t] = toServer[t]
    BY <1>3, ServeFacts DEF Others
  <2>2. WaySame(t) /\ ServerSame(t)
    BY <2>1, Delivered DEF SysIInv, Still, ServerSame
  <2>3. ButtonsSame(t) /\ sock'[t] = sock[t] /\ (t \in stranded => t \in stranded')
    BY ServeFacts
  <2> QED BY <2>2, <2>3, SameSession DEF SysIInv
<1> QED BY <1>2, <1>3

----------------------------------------------------------------------------
(* The system packets.                                                     *)

\* A connect opens the phases of a session; a disconnect clears the handlers
\* of one that is down.
LEMMA SystemStep ==
  ASSUME SysIInv, NEW s \in Slot, ServeSystem(s)
  PROVE  ~fault' /\ \A t \in Slot : SessionInv(t)'
<1>1. /\ out' = Quiet /\ ~fault' /\ Deliver
      /\ \A t \in Slot : /\ toServer'[t] = toServer[t] /\ ButtonsSame(t) /\ sock'[t] = sock[t]
                         /\ t \in stranded => t \in stranded'
  BY DEF ServeSystem, ProcessUserConnect, ProcessUserDisConnect, IgnoredDisConnect,
         ButtonsSame, formVars, buttonVars
<1>2. \A t \in Slot : out'[t] \in Seq(Noise)
  BY <1>1 DEF Quiet
<1>3. \A t \in Slot : WaySame(t)
  BY <1>1, <1>2, Delivered DEF SysIInv
<1>4. ASSUME NEW t \in Slot, ServerSame(t) PROVE SessionInv(t)'
  BY <1>1, <1>3, <1>4, SameSession DEF SysIInv
<1>5. ASSUME NEW t \in Slot, t # s PROVE ServerSame(t)
  BY <1>5 DEF ServeSystem, ProcessUserConnect, ProcessUserDisConnect, IgnoredDisConnect,
              Clear, ServerSame, SysIInv, IInv, TypeOK
<1>6. ASSUME ProcessUserConnect(s), sock[s] # "none" PROVE SessionInv(s)'
  <2>1. /\ mState[s] = "None" /\ mState'[s] = "Connected" /\ handlers'[s] = Handlers("Connected")
        /\ view'[s] = view[s]
    BY <1>6 DEF ProcessUserConnect, Clear, SysIInv, IInv, TypeOK, SlotInv
  <2>2. CASE sock[s] = "open"
    <3>1. LoggingIn(s)
      BY <2>1, <2>2 DEF SysIInv, SessionInv, Up, Phase, LoggingIn, LoggedIn, LobbyAsked,
                        LobbyGranted, AtLobby, Entered, RoomAsked, RoomGranted, AtRoom, Left,
                        Stranded, InARoom
    <3>2. LoggingIn(s)'
      BY <1>1, <1>3, <2>1, <3>1 DEF LoggingIn, Shows, ButtonsSame, WaySame, Carries
    <3> QED BY <1>1, <2>1, <2>2, <3>2 DEF SessionInv, Up, Phase
  <2>3. CASE sock[s] = "closed"
    <3>1. \/ Only(toServer[s], RoomOrLogin)
          \/ Only(toServer[s], {"ROOM_ENTER", "LOBBY_INFO"})
      BY <2>1, <2>3 DEF SysIInv, SessionInv, Down, InARoom
    <3> QED BY <1>1, <2>1, <2>3, <3>1 DEF SessionInv, Down
  <2> QED BY <1>6, <2>2, <2>3 DEF SysIInv, FormTypeInv
<1>7. ASSUME ProcessUserDisConnect(s), sock[s] = "closed" PROVE SessionInv(s)'
  <2>1. handlers'[s] = {} /\ mState'[s] # "None"
    BY <1>7 DEF ProcessUserDisConnect, Clear, SysIInv, IInv, TypeOK
  <2> QED BY <1>1, <1>7, <2>1 DEF SessionInv, Down
<1>8. ASSUME IgnoredDisConnect(s) PROVE SessionInv(s)'
  BY <1>4, <1>8 DEF IgnoredDisConnect, ServerSame
<1>9. SessionInv(s)'
  BY <1>6, <1>7, <1>8 DEF ServeSystem
<1> QED BY <1>1, <1>4, <1>5, <1>9

----------------------------------------------------------------------------
(* The form.                                                               *)

\* What a step of the form keeps at the server.
LEMMA FormKeeps ==
  ASSUME IInv, FormStep
  PROVE  IInv' /\ fault' = fault /\ \A t \in Slot : ServerSame(t)
<1>1. UNCHANGED coreVars /\ fault' = fault /\ out' = Quiet
  BY DEF FormStep, coreVars
<1>2. Inv'
  BY <1>1, QuietStep
<1>3. TypeOK'
  BY DEF FormStep, IInv, TypeOK, DbTypeOK, dbVars, Quiet
<1>4. \A t \in Slot : ServerSame(t)
  BY DEF FormStep, ServerSame
<1> QED BY <1>1, <1>2, <1>3, <1>4 DEF IInv, Inv

\* PostSendPacket adds to the client's own requests, and only while it is
\* connected.
LEMMA Posted ==
  ASSUME WireTypeInv, NEW s \in Slot, NEW req \in Sendable, PostSendPacket(s, req)
  PROVE  /\ DOMAIN toServer' = Slot /\ \A t \in Slot : toServer'[t] \in Seq(Sendable)
         /\ toServer'[s] = IF sock[s] = "open" THEN Append(toServer[s], req) ELSE toServer[s]
         /\ \A t \in Slot : t # s => toServer'[t] = toServer[t]
<1>1. DOMAIN toServer = Slot /\ \A t \in Slot : toServer[t] \in Seq(Sendable)
  BY DEF WireTypeInv
<1>2. Append(toServer[s], req) \in Seq(Sendable)
  BY <1>1, AddRequest
<1> QED BY <1>1, <1>2 DEF PostSendPacket

\* The requests of the form.
LEMMA Forms ==
  /\ \A id \in Id, pw \in Pw : Req("LOGIN", <<id, pw>>) \in Sendable /\ Req("LOGIN", <<id, pw>>).id = "LOGIN"
  /\ \A n \in RoomNumber : Req("ROOM_ENTER", n) \in Sendable /\ Req("ROOM_ENTER", n).id = "ROOM_ENTER"
  /\ \A id \in {"LOBBY_INFO", "ROOM_INFO", "ROOM_LEAVE", "ROOM_CHAT"} :
        Req(id, NoArg) \in Sendable /\ Req(id, NoArg).id = id
<1>1. \A id, arg : Req(id, arg).id = id
  BY DEF Req
<1>2. \A id \in Id, pw \in Pw : Req("LOGIN", <<id, pw>>) \in Sendable
  BY DEF Sendable
<1>3. \A n \in RoomNumber : Req("ROOM_ENTER", n) \in Sendable
  BY DEF Sendable
<1>4. \A id \in {"LOBBY_INFO", "ROOM_INFO", "ROOM_LEAVE", "ROOM_CHAT"} : Req(id, NoArg) \in Sendable
  BY DEF Sendable
<1> QED BY <1>1, <1>2, <1>3, <1>4

\* What a step of one form leaves alone: the other forms.
Alone(s) ==
    /\ WireTypeInv' /\ FormTypeInv'
    /\ FormStep
    /\ \A t \in Slot : t # s => /\ ButtonsSame(t) /\ sock'[t] = sock[t]
                                /\ toServer'[t] = toServer[t] /\ toClient'[t] = toClient[t]
    /\ stranded' = stranded

\* What is left to show of a step of the form of s: its own session.
LEMMA FormOthers ==
  ASSUME SysIInv, NEW s \in Slot, Alone(s), SessionInv(s)'
  PROVE  SysIInv'
<1>1. IInv' /\ ~fault' /\ \A t \in Slot : ServerSame(t)
  BY FormKeeps DEF Alone, SysIInv
<1>2. ASSUME NEW t \in Slot, t # s PROVE SessionInv(t)'
  <2>1. ButtonsSame(t) /\ sock'[t] = sock[t] /\ (t \in stranded => t \in stranded')
    BY <1>2 DEF Alone
  <2>2. WaySame(t)
    BY <1>2 DEF Alone, WaySame, Carries
  <2> QED BY <1>1, <2>1, <2>2, SameSession DEF SysIInv
<1> QED BY <1>1, <1>2 DEF Alone, SysIInv

\* A form that is not connected, and whose connection stays as it is, changes
\* nothing that counts: its requests go nowhere.
LEMMA DownStays ==
  ASSUME NEW s \in Slot, SessionInv(s), sock[s] = "closed", sock'[s] = "closed",
         ServerSame(s), toServer'[s] = toServer[s]
  PROVE  SessionInv(s)'
BY DEF SessionInv, Down, InARoom, ServerSame

----------------------------------------------------------------------------
(* Clicks.                                                                 *)

\* Connecting begins the log-in phase.
LEMMA ConnectClick ==
  ASSUME SysIInv, NEW s \in Slot, ConnectBtn_Click(s)
  PROVE  SysIInv'
<1> USE DEF ConnectBtn_Click
<1>1. FormTypeInv'
  BY DEF SysIInv, FormTypeInv, Enable
<1>2. WireTypeInv'
  BY DEF SysIInv, WireTypeInv
<1>3. Alone(s)
  BY <1>1, <1>2 DEF Alone, ButtonsSame, Enable, SysIInv, FormTypeInv
<1>4. Before(s) /\ ServerSame(s) /\ handlers[s] = {}
  BY FormKeeps DEF SysIInv, SessionInv, Before, IInv, SlotInv, Live
<1>5. LoggingIn(s)'
  BY <1>4, Nothing DEF Before, LoggingIn, Shows, ServerSame, Enable, SysIInv, FormTypeInv
<1>6. handlers'[s] = Handlers(mState'[s]) /\ mState'[s] # "InLobby"
  BY <1>4 DEF Before, ServerSame, Handlers
<1>7. sock'[s] = "open"
  BY DEF SysIInv, FormTypeInv
<1>8. SessionInv(s)'
  BY <1>5, <1>6, <1>7 DEF SessionInv, Up, Phase
<1> QED BY <1>3, <1>8, FormOthers

\* A click that sends one request: what is left to show is the phase.
LEMMA OneClick ==
  ASSUME SysIInv, NEW s \in Slot, NEW button, Click(s, button), FormTypeInv',
         \A t \in Slot : t # s => ButtonsSame(t),
         NEW req \in Sendable, PostSendPacket(s, req),
         sock[s] # "none", sock[s] = "open" => Phase(s)'
  PROVE  SysIInv'
<1>1. sock'[s] = sock[s] /\ ServerSame(s)
  BY FormKeeps DEF Click, SysIInv
<1>2. WireTypeInv'
  BY Posted DEF SysIInv, WireTypeInv, Click
<1>3. Alone(s)
  BY <1>2, Posted DEF Alone, Click, SysIInv
<1>4. ASSUME sock[s] = "open" PROVE Up(s)'
  BY <1>1, <1>4 DEF SysIInv, SessionInv, Up, ServerSame
<1>5. ASSUME sock[s] = "closed" PROVE SessionInv(s)'
  <2>1. toServer'[s] = toServer[s]
    BY <1>5, Posted DEF SysIInv
  <2> QED BY <1>1, <1>5, <2>1, DownStays DEF SysIInv
<1>6. SessionInv(s)'
  BY <1>1, <1>4, <1>5 DEF SessionInv, SysIInv, FormTypeInv
<1> QED BY <1>3, <1>6, FormOthers

\* The buttons keep their types when a click changes none.
LEMMA ButtonsStay ==
  ASSUME SysIInv, NEW s \in Slot, NEW button, Click(s, button), UNCHANGED buttonVars
  PROVE  FormTypeInv' /\ \A t \in Slot : ButtonsSame(t)
<1>1. clicks' \in 0..MaxClicks
  BY ClientAssumption DEF SysIInv, FormTypeInv, Click
<1> QED BY <1>1 DEF SysIInv, FormTypeInv, Click, buttonVars, ButtonsSame

\* A button that can be pressed tells that the client has connected, and the
\* phase it is in.
LEMMA Pressed ==
  ASSUME SysIInv, NEW s \in Slot
  PROVE  /\ LoginBtn[s] \/ RoomEnterBtn[s] \/ RoomExit[s] => sock[s] # "none"
         /\ sock[s] = "open" /\ LoginBtn[s] => LoggingIn(s) \/ LoggedIn(s)
         /\ sock[s] = "open" /\ RoomEnterBtn[s] => AtLobby(s) \/ Entered(s) \/ Stranded(s)
         /\ sock[s] = "open" /\ RoomExit[s] => AtRoom(s) \/ Left(s)
<1>1. sock[s] = "none" => ~LoginBtn[s] /\ ~RoomEnterBtn[s] /\ ~RoomExit[s]
  BY DEF SysIInv, SessionInv, Before, Shows
<1>2. sock[s] = "open" => Phase(s)
  BY DEF SysIInv, SessionInv, Up
<1>3. Phase(s) /\ LoginBtn[s] => LoggingIn(s) \/ LoggedIn(s)
  BY DEF Phase, Shows, LobbyAsked, LobbyGranted, AtLobby, Entered, RoomAsked, RoomGranted,
         AtRoom, Left, Stranded
<1>4. Phase(s) /\ RoomEnterBtn[s] => AtLobby(s) \/ Entered(s) \/ Stranded(s)
  BY DEF Phase, Shows, LoggingIn, LoggedIn, LobbyAsked, LobbyGranted, RoomAsked, RoomGranted,
         AtRoom, Left
<1>5. Phase(s) /\ RoomExit[s] => AtRoom(s) \/ Left(s)
  BY DEF Phase, Shows, LoggingIn, LoggedIn, LobbyAsked, LobbyGranted, AtLobby, Entered,
         RoomAsked, RoomGranted, Stranded
<1> QED BY <1>1, <1>2, <1>3, <1>4, <1>5

\* What a click that posts req leaves at its own session while it is up.
LEMMA Posts ==
  ASSUME SysIInv, NEW s \in Slot, NEW button, Click(s, button), sock[s] = "open",
         NEW req \in Sendable, PostSendPacket(s, req)
  PROVE  /\ ServerSame(s) /\ toClient'[s] = toClient[s] /\ stranded' = stranded
         /\ \A ids : Only(toServer[s], ids) /\ req.id \in ids => Only(toServer'[s], ids)
         /\ \A ids : Only(toServer[s], ids) /\ req.id \notin ids => LastIs(toServer'[s], req.id)
<1>1. ServerSame(s) /\ toClient'[s] = toClient[s] /\ stranded' = stranded
  BY FormKeeps DEF Click, SysIInv
<1>2. toServer'[s] = Append(toServer[s], req) /\ toServer[s] \in Seq(Sendable)
  BY Posted DEF SysIInv, WireTypeInv
<1>3. /\ \A ids : Only(toServer[s], ids) /\ req.id \in ids => Only(Append(toServer[s], req), ids)
      /\ \A ids : Only(toServer[s], ids) /\ req.id \notin ids
                     => LastIs(Append(toServer[s], req), req.id)
  BY <1>2, AddRequest
<1> QED BY <1>1, <1>2, <1>3

\* LoginBtn sends a log-in, more than one while no answer has come.
LEMMA LoginClick ==
  ASSUME SysIInv, NEW s \in Slot, LoginBtn_Click(s)
  PROVE  SysIInv'
<1>1. PICK id \in Id, pw \in Pw : PostSendPacket(s, Req("LOGIN", <<id, pw>>))
  BY DEF LoginBtn_Click
<1> DEFINE req == Req("LOGIN", <<id, pw>>)
<1>2. req \in Sendable /\ req.id = "LOGIN" /\ PostSendPacket(s, req)
  BY <1>1, Forms
<1> HIDE DEF req
<1>3. Click(s, LoginBtn) /\ LoginBtn[s] /\ UNCHANGED buttonVars
  BY DEF LoginBtn_Click, Click
<1>4. ASSUME sock[s] = "open" PROVE Phase(s)'
  <2>1. LoggingIn(s) \/ LoggedIn(s)
    BY <1>3, <1>4, Pressed
  <2>2. LoggingIn(s) => LoggingIn(s)'
    BY <1>2, <1>3, <1>4, Posts DEF LoggingIn, ServerSame, Shows, buttonVars
  <2>3. LoggedIn(s) => LoggedIn(s)'
    BY <1>2, <1>3, <1>4, Posts DEF LoggedIn, ServerSame, Shows, buttonVars
  <2> QED BY <2>1, <2>2, <2>3 DEF Phase
<1> QED BY <1>2, <1>3, <1>4, ButtonsStay, OneClick, Pressed

\* RoomEnterBtn sends an enter, more than one while no answer has come.
LEMMA RoomEnterClick ==
  ASSUME SysIInv, NEW s \in Slot, RoomEnterBtn_Click(s)
  PROVE  SysIInv'
<1>1. PICK n \in LobbyRoomList[s] \cup {NoRoom} : PostSendPacket(s, Req("ROOM_ENTER", n))
  BY DEF RoomEnterBtn_Click
<1> DEFINE req == Req("ROOM_ENTER", n)
<1>2. req \in Sendable /\ req.id = "ROOM_ENTER" /\ PostSendPacket(s, req)
  <2>1. n \in RoomNumber
    BY ChatAssumption DEF SysIInv, FormTypeInv
  <2> QED BY <1>1, <2>1, Forms
<1> HIDE DEF req
<1>3. Click(s, RoomEnterBtn) /\ RoomEnterBtn[s] /\ UNCHANGED buttonVars
  BY DEF RoomEnterBtn_Click, Click
<1>4. ASSUME sock[s] = "open" PROVE Phase(s)'
  <2>1. AtLobby(s) \/ Entered(s) \/ Stranded(s)
    BY <1>3, <1>4, Pressed
  <2>2. AtLobby(s) => AtLobby(s)'
    BY <1>2, <1>3, <1>4, Posts DEF AtLobby, ServerSame, Shows, buttonVars
  <2>3. Entered(s) => Entered(s)'
    BY <1>2, <1>3, <1>4, Posts DEF Entered, InARoom, ServerSame, Shows, buttonVars
  <2>4. Stranded(s) => Stranded(s)'
    BY <1>2, <1>3, <1>4, Posts DEF Stranded, ServerSame, Shows, buttonVars
  <2> QED BY <2>1, <2>2, <2>3, <2>4 DEF Phase
<1> QED BY <1>2, <1>3, <1>4, ButtonsStay, OneClick, Pressed

\* RoomListRefreshBtn asks for the rooms and turns the buttons off.
LEMMA RefreshClick ==
  ASSUME SysIInv, NEW s \in Slot, RoomListRefreshBtn_Click(s)
  PROVE  SysIInv'
<1> DEFINE req == Req("LOBBY_INFO", NoArg)
<1>1. req \in Sendable /\ req.id = "LOBBY_INFO" /\ PostSendPacket(s, req)
  BY Forms DEF RoomListRefreshBtn_Click
<1> HIDE DEF req
<1>2. /\ Click(s, RoomListRefreshBtn) /\ RoomEnterBtn[s]
      /\ LoginBtn'[s] = LoginBtn[s] /\ RoomEnterBtn'[s] = FALSE /\ RoomExit'[s] = RoomExit[s]
      /\ \A t \in Slot : t # s => ButtonsSame(t)
  BY DEF RoomListRefreshBtn_Click, Click, Disable, SysIInv, FormTypeInv, ButtonsSame
<1>3. FormTypeInv'
  <2>1. clicks' \in 0..MaxClicks
    BY <1>2, ClientAssumption DEF SysIInv, FormTypeInv, Click
  <2> QED BY <1>2, <2>1 DEF RoomListRefreshBtn_Click, Click, Disable, SysIInv, FormTypeInv
<1>4. ASSUME sock[s] = "open" PROVE Phase(s)'
  <2>1. AtLobby(s) \/ Entered(s) \/ Stranded(s)
    BY <1>2, <1>4, Pressed
  <2>2. ASSUME AtLobby(s) PROVE LobbyAsked(s)'
    <3>1. Only(toServer[s], {"ROOM_ENTER", "LOBBY_INFO"}) /\ Only(toServer[s], {"ROOM_ENTER"})
      BY <2>2 DEF AtLobby, Only
    <3>2. Only(toServer'[s], {"ROOM_ENTER", "LOBBY_INFO"}) /\ LastIs(toServer'[s], "LOBBY_INFO")
      BY <1>1, <1>2, <1>4, <3>1, Posts
    <3> QED BY <1>1, <1>2, <1>4, <2>2, <3>2, Posts DEF AtLobby, LobbyAsked, ServerSame, Shows
  <2>3. Entered(s) => Entered(s)'
    BY <1>1, <1>2, <1>4, Posts DEF Entered, InARoom, ServerSame, Shows
  <2>4. Stranded(s) => Stranded(s)'
    BY <1>1, <1>2, <1>4, Posts DEF Stranded, ServerSame, Shows
  <2> QED BY <2>1, <2>2, <2>3, <2>4 DEF Phase
<1> QED BY <1>1, <1>2, <1>3, <1>4, OneClick, Pressed

\* ChatSend and RoomExit send from a room.
LEMMA RoomClick ==
  ASSUME SysIInv, NEW s \in Slot, NEW id \in {"ROOM_LEAVE", "ROOM_CHAT"},
         Click(s, RoomExit), UNCHANGED buttonVars, PostSendPacket(s, Req(id, NoArg))
  PROVE  SysIInv'
<1> DEFINE req == Req(id, NoArg)
<1>1. req \in Sendable /\ req.id = id /\ PostSendPacket(s, req)
  BY Forms
<1> HIDE DEF req
<1>2. ASSUME sock[s] = "open" PROVE Phase(s)'
  <2>1. AtRoom(s) \/ Left(s)
    BY <1>2, Pressed DEF Click
  <2>2. AtRoom(s) => AtRoom(s)'
    BY <1>1, <1>2, Posts DEF AtRoom, InARoom, ServerSame, Shows, buttonVars
  <2>3. Left(s) => Left(s)'
    BY <1>1, <1>2, Posts DEF Left, ServerSame, Shows, buttonVars
  <2> QED BY <2>1, <2>2, <2>3 DEF Phase
<1>3. RoomExit[s]
  BY DEF Click
<1> QED BY <1>1, <1>2, <1>3, ButtonsStay, OneClick, Pressed

\* Every click keeps the invariant.
LEMMA ClickStep ==
  ASSUME SysIInv, NEW s \in Slot, User_Click(s)
  PROVE  SysIInv'
<1>1. CASE ChatSend_Click(s) \/ RoomExit_Click(s)
  <2>1. ChatSend = RoomExit
    BY DEF SysIInv, FormTypeInv
  <2> QED BY <1>1, <2>1, RoomClick DEF ChatSend_Click, RoomExit_Click
<1> QED BY <1>1, ConnectClick, LoginClick, RoomEnterClick, RefreshClick DEF User_Click

----------------------------------------------------------------------------
(* The packets the form handles.                                           *)

\* The packet on turn is an answer that matters just when the phase says so.
LEMMA TickFacts ==
  ASSUME SysIInv, NEW s \in Slot, NEW pkt, Tick(s, pkt)
  PROVE  /\ sock[s] # "none" /\ \A t \in Slot : sock'[t] = sock[t]
         /\ \A t \in Slot : t # s => toClient'[t] = toClient[t]
         /\ DOMAIN toClient' = Slot /\ \A t \in Slot : toClient'[t] \in Seq(Packet)
         /\ pkt \notin Grant => Carries(toClient[s], toClient'[s])
         /\ NoGrant(toClient[s]) => pkt \notin Grant
         /\ \A g : OneGrant(toClient[s], g) /\ pkt \in Grant => pkt \in g /\ NoGrant(toClient'[s])
<1> DEFINE c == toClient[s]
<1>1. c \in Seq(Packet) /\ c # << >> /\ Head(c) = pkt
  BY DEF SysIInv, WireTypeInv, Tick
<1>2. toClient'[s] = Tail(c) /\ \A t \in Slot : t # s => toClient'[t] = toClient[t]
  BY DEF SysIInv, WireTypeInv, Tick
<1>3. sock[s] # "none" /\ sock' = sock /\ DOMAIN toClient' = Slot
  BY <1>1 DEF SysIInv, WireTypeInv, SessionInv, Before, Tick
<1>4. /\ Tail(c) \in Seq(Packet)
      /\ NoGrant(c) => NoGrant(Tail(c)) /\ pkt \notin Grant
      /\ \A g : OneGrant(c, g) /\ pkt \notin Grant => OneGrant(Tail(c), g)
      /\ \A g : OneGrant(c, g) /\ pkt \in Grant => pkt \in g /\ NoGrant(Tail(c))
  BY <1>1, TakePacket
<1>5. \A t \in Slot : toClient[t] \in Seq(Packet)
  BY DEF SysIInv, WireTypeInv
<1>6. \A t \in Slot : toClient'[t] \in Seq(Packet)
  BY <1>2, <1>4, <1>5
<1> HIDE DEF c
<1>7. pkt \notin Grant => Carries(c, Tail(c))
  BY <1>4 DEF Carries
<1> QED BY <1>2, <1>3, <1>4, <1>6, <1>7 DEF c

\* Which phase an answer tells.
LEMMA GrantPhase ==
  ASSUME SysIInv, NEW s \in Slot, NEW pkt \in Grant, Tick(s, pkt), sock[s] = "open"
  PROVE  /\ NoGrant(toClient'[s])
         /\ pkt \in LoginOk => LoggedIn(s)
         /\ pkt \in LobbyOk => LobbyGranted(s)
         /\ pkt \in EnterOk => Entered(s)
         /\ pkt \in RoomOk => RoomGranted(s)
         /\ pkt \in LeaveOk => Left(s)
<1>1. Phase(s)
  BY DEF SysIInv, SessionInv, Up
<1>2. ~NoGrant(toClient[s])
  BY TickFacts
<1>3. \A g : OneGrant(toClient[s], g) => pkt \in g /\ NoGrant(toClient'[s])
  BY TickFacts
<1>4. LoggedIn(s) \/ LobbyGranted(s) \/ Entered(s) \/ RoomGranted(s) \/ Left(s)
  BY <1>1, <1>2 DEF Phase, LoggingIn, LobbyAsked, AtLobby, RoomAsked, AtRoom, Stranded
<1>5. /\ LoggedIn(s) => pkt \in LoginOk /\ NoGrant(toClient'[s])
      /\ LobbyGranted(s) => pkt \in LobbyOk /\ NoGrant(toClient'[s])
  BY <1>3 DEF LoggedIn, LobbyGranted
<1>6. /\ Entered(s) => pkt \in EnterOk /\ NoGrant(toClient'[s])
      /\ RoomGranted(s) => pkt \in RoomOk /\ NoGrant(toClient'[s])
      /\ Left(s) => pkt \in LeaveOk /\ NoGrant(toClient'[s])
  BY <1>3 DEF Entered, RoomGranted, Left
<1>7. NoGrant(toClient'[s])
  BY <1>4, <1>5, <1>6
<1>8. /\ pkt \in LoginOk => pkt \notin LobbyOk \cup EnterOk \cup RoomOk \cup LeaveOk
      /\ pkt \in LobbyOk => pkt \notin EnterOk \cup RoomOk \cup LeaveOk
      /\ pkt \in EnterOk => pkt \notin RoomOk \cup LeaveOk
      /\ pkt \in RoomOk => pkt \notin LeaveOk
  BY Kinds
<1> QED BY <1>4, <1>5, <1>6, <1>7, <1>8

\* A packet that is not an answer to this client leaves the buttons alone.
LEMMA NoiseTick ==
  ASSUME SysIInv, NEW s \in Slot, NEW pkt \in Noise, Tick(s, pkt),
         UNCHANGED <<buttonVars, toServer>>, FormTypeInv'
  PROVE  SysIInv'
<1>1. WireTypeInv'
  BY TickFacts DEF SysIInv, WireTypeInv
<1>2. \A t \in Slot : ButtonsSame(t) /\ sock'[t] = sock[t] /\ ServerSame(t)
  BY FormKeeps, TickFacts DEF SysIInv, Tick, ButtonsSame, buttonVars
<1>3. Alone(s)
  BY <1>1, <1>2, TickFacts DEF Alone, Tick
<1>4. WaySame(s)
  BY Kinds, TickFacts DEF WaySame
<1>5. SessionInv(s)'
  BY <1>2, <1>4, SameSession DEF SysIInv, Tick
<1> QED BY <1>3, <1>5, FormOthers

\* What is left to show of an answer that matters: the phase.
LEMMA GrantTick ==
  ASSUME SysIInv, NEW s \in Slot, NEW pkt \in Grant, Tick(s, pkt), FormTypeInv',
         \A t \in Slot : t # s => ButtonsSame(t),
         DOMAIN toServer' = Slot, \A t \in Slot : toServer'[t] \in Seq(Sendable),
         \A t \in Slot : t # s => toServer'[t] = toServer[t],
         sock[s] = "closed" => toServer'[s] = toServer[s],
         sock[s] = "open" => Phase(s)'
  PROVE  SysIInv'
<1>1. WireTypeInv'
  BY TickFacts DEF WireTypeInv
<1>2. Alone(s)
  BY <1>1, TickFacts DEF Alone, Tick
<1>3. sock'[s] = sock[s] /\ ServerSame(s) /\ sock[s] # "none"
  BY FormKeeps, TickFacts DEF SysIInv, Tick
<1>4. ASSUME sock[s] = "open" PROVE SessionInv(s)'
  BY <1>3, <1>4 DEF SysIInv, SessionInv, Up, ServerSame
<1>5. ASSUME sock[s] = "closed" PROVE SessionInv(s)'
  BY <1>3, <1>5, DownStays DEF SysIInv
<1>6. SessionInv(s)'
  BY <1>3, <1>4, <1>5 DEF SysIInv, FormTypeInv
<1> QED BY <1>2, <1>6, FormOthers

\* The answers that make the client ask for something: the request joins those
\* on the way.
LEMMA TickPosts ==
  ASSUME SysIInv, NEW s \in Slot, NEW req \in Sendable, PostSendPacket(s, req), sock[s] = "open"
  PROVE  /\ \A ids : Only(toServer[s], ids) /\ req.id \in ids => Only(toServer'[s], ids)
         /\ \A ids : Only(toServer[s], ids) /\ req.id \notin ids => LastIs(toServer'[s], req.id)
<1>1. toServer'[s] = Append(toServer[s], req) /\ toServer[s] \in Seq(Sendable)
  BY Posted DEF SysIInv, WireTypeInv
<1>2. /\ \A ids : Only(toServer[s], ids) /\ req.id \in ids => Only(Append(toServer[s], req), ids)
      /\ \A ids : Only(toServer[s], ids) /\ req.id \notin ids
                     => LastIs(Append(toServer[s], req), req.id)
  BY <1>1, AddRequest
<1> QED BY <1>1, <1>2

\* A longer list of the ids that may be on the way.
LEMMA Wider ==
  ASSUME NEW q, NEW a, NEW b, Only(q, a), a \subseteq b
  PROVE  Only(q, b)
BY DEF Only

\* The answer to a log-in makes the form ask for the rooms.
LEMMA AckLoginStep ==
  ASSUME SysIInv, NEW s \in Slot, AckLogin(s, "LOGIN_SUCCESS")
  PROVE  SysIInv'
<1> DEFINE req == Req("LOBBY_INFO", NoArg)
           pkt == <<"ACK_LOGIN", "LOGIN_SUCCESS">>
<1>1. req \in Sendable /\ req.id = "LOBBY_INFO" /\ PostSendPacket(s, req)
  BY Forms DEF AckLogin
<1>2. pkt \in LoginOk /\ pkt \in Grant /\ Tick(s, pkt)
  BY DEF AckLogin, LoginOk, Grant
<1> HIDE DEF req, pkt
<1>3. FormTypeInv' /\ \A t \in Slot : t # s => ButtonsSame(t)
  BY DEF AckLogin, Tick, Disable, SysIInv, FormTypeInv, ButtonsSame
<1>4. /\ DOMAIN toServer' = Slot /\ \A t \in Slot : toServer'[t] \in Seq(Sendable)
      /\ sock[s] = "closed" => toServer'[s] = toServer[s]
      /\ \A t \in Slot : t # s => toServer'[t] = toServer[t]
  BY <1>1, Posted DEF SysIInv
<1>5. ASSUME sock[s] = "open" PROVE Phase(s)'
  <2>1. LoggedIn(s) /\ NoGrant(toClient'[s]) /\ ServerSame(s)
    BY <1>2, <1>5, GrantPhase, FormKeeps DEF SysIInv, Tick
  <2>2. LastIs(toServer'[s], "LOBBY_INFO")
    BY <1>1, <1>5, <2>1, TickPosts DEF LoggedIn
  <2>3. Only(toServer'[s], {"LOGIN", "ROOM_LEAVE", "ROOM_CHAT", "LOBBY_INFO"})
    <3>1. Only(toServer[s], {"LOGIN", "ROOM_LEAVE", "ROOM_CHAT", "LOBBY_INFO"})
      BY <2>1, Wider DEF LoggedIn
    <3> QED BY <1>1, <1>5, <3>1, TickPosts
  <2>4. Shows(s, FALSE, FALSE, FALSE)'
    BY <2>1 DEF AckLogin, Disable, LoggedIn, Shows, SysIInv, FormTypeInv
  <2>5. LobbyAsked(s)'
    BY <2>1, <2>2, <2>3, <2>4 DEF LobbyAsked, LoggedIn, ServerSame
  <2> QED BY <2>5 DEF Phase
<1> QED BY <1>2, <1>3, <1>4, <1>5, GrantTick

\* The list of rooms turns on the buttons of the lobby.
LEMMA AckLobbyStep ==
  ASSUME SysIInv, NEW s \in Slot, AckLobbyInfo(s)
  PROVE  SysIInv'
<1> DEFINE pkt == <<"ACK_LOBBY_INFO", "LOBBY_INFO_SUCCESS">>
<1>1. pkt \in LobbyOk /\ pkt \in Grant /\ Tick(s, pkt) /\ toServer' = toServer
  BY DEF AckLobbyInfo, LobbyOk, Grant
<1> HIDE DEF pkt
<1>2. FormTypeInv' /\ \A t \in Slot : t # s => ButtonsSame(t)
  BY DEF AckLobbyInfo, Tick, Enable, SysIInv, FormTypeInv, ButtonsSame
<1>3. ASSUME sock[s] = "open" PROVE Phase(s)'
  <2>1. LobbyGranted(s) /\ NoGrant(toClient'[s]) /\ ServerSame(s)
    BY <1>1, <1>3, GrantPhase, FormKeeps DEF SysIInv, Tick
  <2>2. Only(toServer'[s], {"ROOM_ENTER"})
    BY <1>1, <2>1, Nothing DEF LobbyGranted
  <2>3. Shows(s, FALSE, TRUE, FALSE)'
    BY <2>1 DEF AckLobbyInfo, Enable, LobbyGranted, Shows, SysIInv, FormTypeInv
  <2>4. AtLobby(s)'
    BY <2>1, <2>2, <2>3 DEF AtLobby, LobbyGranted, ServerSame
  <2> QED BY <2>4 DEF Phase
<1> QED BY <1>1, <1>2, <1>3, GrantTick DEF SysIInv, WireTypeInv

\* The answer to an enter makes the form ask for the list of the room.
LEMMA AckEnterStep ==
  ASSUME SysIInv, NEW s \in Slot, AckRoomEnter(s, "ENTER_ROOM_SUCCESS")
  PROVE  SysIInv'
<1> DEFINE req == Req("ROOM_INFO", NoArg)
           pkt == <<"ACK_ROOM_ENTER", "ENTER_ROOM_SUCCESS">>
<1>1. req \in Sendable /\ req.id = "ROOM_INFO" /\ PostSendPacket(s, req)
  BY Forms DEF AckRoomEnter
<1>2. pkt \in EnterOk /\ pkt \in Grant /\ Tick(s, pkt)
  BY DEF AckRoomEnter, EnterOk, Grant
<1> HIDE DEF req, pkt
<1>3. FormTypeInv' /\ \A t \in Slot : t # s => ButtonsSame(t)
  BY DEF AckRoomEnter, Tick, Disable, SysIInv, FormTypeInv, ButtonsSame
<1>4. /\ DOMAIN toServer' = Slot /\ \A t \in Slot : toServer'[t] \in Seq(Sendable)
      /\ sock[s] = "closed" => toServer'[s] = toServer[s]
      /\ \A t \in Slot : t # s => toServer'[t] = toServer[t]
  BY <1>1, Posted DEF SysIInv
<1>5. ASSUME sock[s] = "open" PROVE Phase(s)'
  <2>1. Entered(s) /\ NoGrant(toClient'[s]) /\ ServerSame(s)
    BY <1>2, <1>5, GrantPhase, FormKeeps DEF SysIInv, Tick
  <2>2. LastIs(toServer'[s], "ROOM_INFO")
    BY <1>1, <1>5, <2>1, TickPosts DEF Entered
  <2>3. Only(toServer'[s], {"ROOM_ENTER", "LOBBY_INFO", "ROOM_INFO"})
    <3>1. Only(toServer[s], {"ROOM_ENTER", "LOBBY_INFO", "ROOM_INFO"})
      BY <2>1, Wider DEF Entered
    <3> QED BY <1>1, <1>5, <3>1, TickPosts
  <2>4. Shows(s, FALSE, FALSE, FALSE)'
    BY <2>1 DEF AckRoomEnter, Disable, Entered, Shows, SysIInv, FormTypeInv
  <2>5. RoomAsked(s)'
    BY <2>1, <2>2, <2>3, <2>4 DEF RoomAsked, Entered, InARoom, ServerSame
  <2> QED BY <2>5 DEF Phase
<1> QED BY <1>2, <1>3, <1>4, <1>5, GrantTick

\* The list of the room turns on the buttons of the room.
LEMMA AckRoomInfoStep ==
  ASSUME SysIInv, NEW s \in Slot, NEW ids \in SUBSET Id, AckRoomInfo(s, ids)
  PROVE  SysIInv'
<1> DEFINE pkt == <<"ACK_ROOM_INFO", ids>>
<1>1. pkt \in RoomOk /\ pkt \in Grant /\ Tick(s, pkt) /\ toServer' = toServer
  BY DEF AckRoomInfo, RoomOk, Grant
<1> HIDE DEF pkt
<1>2. FormTypeInv' /\ \A t \in Slot : t # s => ButtonsSame(t)
  BY DEF AckRoomInfo, Tick, Enable, SysIInv, FormTypeInv, ButtonsSame
<1>3. ASSUME sock[s] = "open" PROVE Phase(s)'
  <2>1. RoomGranted(s) /\ NoGrant(toClient'[s]) /\ ServerSame(s)
    BY <1>1, <1>3, GrantPhase, FormKeeps DEF SysIInv, Tick
  <2>2. Only(toServer'[s], {"ROOM_LEAVE", "ROOM_CHAT"})
    BY <1>1, <2>1, Nothing DEF RoomGranted
  <2>3. Shows(s, FALSE, FALSE, TRUE)'
    BY <2>1 DEF AckRoomInfo, Enable, RoomGranted, Shows, SysIInv, FormTypeInv
  <2>4. AtRoom(s)'
    BY <2>1, <2>2, <2>3 DEF AtRoom, RoomGranted, InARoom, ServerSame
  <2> QED BY <2>4 DEF Phase
<1> QED BY <1>1, <1>2, <1>3, GrantTick DEF SysIInv, WireTypeInv

\* The answer to a leave makes the form ask for the rooms again.
LEMMA AckLeaveStep ==
  ASSUME SysIInv, NEW s \in Slot, AckRoomLeave(s, "LEAVE_ROOM_SUCCESS")
  PROVE  SysIInv'
<1> DEFINE req == Req("LOBBY_INFO", NoArg)
           pkt == <<"ACK_ROOM_LEAVE", "LEAVE_ROOM_SUCCESS">>
<1>1. req \in Sendable /\ req.id = "LOBBY_INFO" /\ PostSendPacket(s, req)
  BY Forms DEF AckRoomLeave
<1>2. pkt \in LeaveOk /\ pkt \in Grant /\ Tick(s, pkt)
  BY DEF AckRoomLeave, LeaveOk, Grant
<1> HIDE DEF req, pkt
<1>3. FormTypeInv' /\ \A t \in Slot : t # s => ButtonsSame(t)
  <2>1. UserList' \in [Slot -> [Id -> Nat]]
    BY DEF AckRoomLeave, SysIInv, FormTypeInv
  <2>2. /\ RoomExit' \in [Slot -> BOOLEAN] /\ ChatSend' = RoomExit'
        /\ \A t \in Slot : t # s => RoomExit'[t] = RoomExit[t]
    BY DEF AckRoomLeave, Disable, SysIInv, FormTypeInv
  <2> QED BY <2>1, <2>2 DEF AckRoomLeave, Tick, SysIInv, FormTypeInv, ButtonsSame
<1>4. /\ DOMAIN toServer' = Slot /\ \A t \in Slot : toServer'[t] \in Seq(Sendable)
      /\ sock[s] = "closed" => toServer'[s] = toServer[s]
      /\ \A t \in Slot : t # s => toServer'[t] = toServer[t]
  BY <1>1, Posted DEF SysIInv
<1>5. ASSUME sock[s] = "open" PROVE Phase(s)'
  <2>1. Left(s) /\ NoGrant(toClient'[s]) /\ ServerSame(s)
    BY <1>2, <1>5, GrantPhase, FormKeeps DEF SysIInv, Tick
  <2>2. LastIs(toServer'[s], "LOBBY_INFO")
    BY <1>1, <1>5, <2>1, TickPosts DEF Left
  <2>3. Only(toServer'[s], {"LOGIN", "ROOM_LEAVE", "ROOM_CHAT", "LOBBY_INFO"})
    <3>1. Only(toServer[s], {"LOGIN", "ROOM_LEAVE", "ROOM_CHAT", "LOBBY_INFO"})
      BY <2>1, Wider DEF Left
    <3> QED BY <1>1, <1>5, <3>1, TickPosts
  <2>4. Shows(s, FALSE, FALSE, FALSE)'
    BY <2>1 DEF AckRoomLeave, Disable, Left, Shows, SysIInv, FormTypeInv
  <2>5. LobbyAsked(s)'
    BY <2>1, <2>2, <2>3, <2>4 DEF LobbyAsked, Left, ServerSame
  <2> QED BY <2>5 DEF Phase
<1> QED BY <1>2, <1>3, <1>4, <1>5, GrantTick

\* The packets that say what others do, and the refusals.
LEMMA NoiseStep ==
  ASSUME SysIInv, NEW s \in Slot,
         \/ \E result \in {"LOGIN_USER_ALREADY", "LOGIN_USER_INVALID_PW"} : AckLogin(s, result)
         \/ \E result \in {"ROOM_FULL", "ROOM_INVALID_INDEX"} : AckRoomEnter(s, result)
         \/ NotifyLobbyInfo(s, Room)
         \/ \E id \in Id : NotifyRoomInfo(s, id) \/ NotifyRoomLeave(s, id)
         \/ RoomChat(s)
  PROVE  SysIInv'
<1>1. ASSUME NEW result \in {"LOGIN_USER_ALREADY", "LOGIN_USER_INVALID_PW"}, AckLogin(s, result)
      PROVE  SysIInv'
  <2>1. /\ UNCHANGED <<buttonVars, toServer>> /\ FormTypeInv'
        /\ Tick(s, <<"ACK_LOGIN", result>>)
    BY <1>1 DEF AckLogin, Tick, buttonVars, SysIInv, FormTypeInv
  <2> QED BY <2>1, NoiseTick, NoiseKinds
<1>2. ASSUME NEW result \in {"ROOM_FULL", "ROOM_INVALID_INDEX"}, AckRoomEnter(s, result)
      PROVE  SysIInv'
  <2>1. /\ UNCHANGED <<buttonVars, toServer>> /\ FormTypeInv'
        /\ Tick(s, <<"ACK_ROOM_ENTER", result>>)
    BY <1>2 DEF AckRoomEnter, Tick, buttonVars, SysIInv, FormTypeInv
  <2> QED BY <2>1, NoiseTick, NoiseKinds
<1>3. CASE NotifyLobbyInfo(s, Room)
  <2>1. /\ UNCHANGED <<buttonVars, toServer>> /\ FormTypeInv'
        /\ Tick(s, <<"NOTIFY_LOBBY_INFO", Room>>)
    BY <1>3 DEF NotifyLobbyInfo, Tick, buttonVars, SysIInv, FormTypeInv
  <2> QED BY <2>1, NoiseTick, NoiseKinds
<1>4. ASSUME NEW id \in Id, NotifyRoomInfo(s, id) PROVE SysIInv'
  <2>1. UserList' \in [Slot -> [Id -> Nat]]
    BY <1>4 DEF NotifyRoomInfo, SysIInv, FormTypeInv
  <2>2. /\ UNCHANGED <<buttonVars, toServer>> /\ FormTypeInv'
        /\ Tick(s, <<"NOTIFY_ROOM_INFO", id>>)
    BY <1>4, <2>1 DEF NotifyRoomInfo, Tick, buttonVars, SysIInv, FormTypeInv
  <2> QED BY <2>2, NoiseTick, NoiseKinds
<1>5. ASSUME NEW id \in Id, NotifyRoomLeave(s, id) PROVE SysIInv'
  <2> DEFINE n == IF UserList[s][id] = 0 THEN 0 ELSE UserList[s][id] - 1
  <2>1. n \in Nat
    BY DEF SysIInv, FormTypeInv
  <2>2. UserList' = [UserList EXCEPT ![s][id] = n]
    BY <1>5 DEF NotifyRoomLeave
  <2> HIDE DEF n
  <2>3. UserList' \in [Slot -> [Id -> Nat]]
    BY <2>1, <2>2 DEF SysIInv, FormTypeInv
  <2>4. /\ UNCHANGED <<buttonVars, toServer>> /\ FormTypeInv'
        /\ Tick(s, <<"NOTIFY_ROOM_LEAVE", id>>)
    BY <1>5, <2>3 DEF NotifyRoomLeave, Tick, buttonVars, SysIInv, FormTypeInv
  <2> QED BY <2>4, NoiseTick, NoiseKinds
<1>6. CASE RoomChat(s)
  <2>1. PICK pkt \in {<<"ACK_ROOM_CHAT", "CHAT_ROOM_SUCCESS">>} \cup {ChatFrom(i) : i \in Id} :
          Tick(s, pkt)
    BY <1>6 DEF RoomChat
  <2>2. pkt \in Noise
    BY NoiseKinds DEF ChatFrom
  <2>3. UNCHANGED <<buttonVars, toServer>> /\ FormTypeInv'
    BY <1>6, <2>1 DEF RoomChat, Tick, formVars, buttonVars, SysIInv, FormTypeInv
  <2> QED BY <2>1, <2>2, <2>3, NoiseTick
<1> QED BY <1>1, <1>2, <1>3, <1>4, <1>5, <1>6

\* Every packet the timer takes keeps the invariant.
LEMMA TickStep ==
  ASSUME SysIInv, NEW s \in Slot, PacketProcess(s)
  PROVE  SysIInv'
BY NoiseStep, AckLoginStep, AckLobbyStep, AckEnterStep, AckRoomInfoStep, AckLeaveStep
DEF PacketProcess

----------------------------------------------------------------------------
(* The connection, and the server's steps as a whole.                      *)

\* What was on the way to a client that is gone is cut off.
LEMMA DropStep ==
  ASSUME SysIInv, NEW s \in Slot, Drop(s)
  PROVE  SysIInv'
<1>1. PICK n \in 0..Len(toClient[s]) : toClient' = [toClient EXCEPT ![s] = SubSeq(@, 1, n)]
  BY DEF Drop
<1>2. WireTypeInv' /\ \A t \in Slot : t # s => toClient'[t] = toClient[t]
  <2>1. toClient[s] \in Seq(Packet)
    BY DEF SysIInv, WireTypeInv
  <2>2. SubSeq(toClient[s], 1, n) \in Seq(Packet)
    BY <2>1, SubSeqProperties
  <2> QED BY <1>1, <2>2 DEF SysIInv, WireTypeInv, Drop
<1>3. FormTypeInv'
  BY DEF SysIInv, FormTypeInv, Drop, formVars, buttonVars
<1>4. Alone(s)
  BY <1>2, <1>3 DEF Alone, Drop, formVars, buttonVars, ButtonsSame, SysIInv, FormTypeInv
<1>5. sock'[s] = "closed" /\ ServerSame(s) /\ toServer'[s] = toServer[s]
  BY FormKeeps DEF Drop, SysIInv, FormTypeInv
<1>6. Phase(s)
  BY DEF Drop, SysIInv, SessionInv, Up
<1>8. Down(s)
  <2>1. ASSUME NEW ids, Only(toServer[s], ids), ids \subseteq RoomOrLogin,
               mState[s] = "InRoom" => view[s] \in Room
        PROVE  Down(s)
    BY <2>1, Wider, Zenon DEF Down
  <2>2. CASE RoomAsked(s)
    BY <2>2 DEF RoomAsked, Down
  <2>3. CASE LobbyGranted(s) \/ RoomGranted(s)
    BY <2>3, Nothing DEF LobbyGranted, RoomGranted, Down
  <2>4. CASE LoggingIn(s) \/ LoggedIn(s)
    <3>1. Only(toServer[s], {"LOGIN"}) /\ mState[s] # "InRoom"
      BY <2>4 DEF LoggingIn, LoggedIn
    <3> QED BY <2>1, <3>1 DEF RoomOrLogin
  <2>5. CASE LobbyAsked(s)
    <3>1. /\ mState[s] # "InRoom"
          /\ \/ Only(toServer[s], {"ROOM_ENTER", "LOBBY_INFO"})
             \/ Only(toServer[s], {"LOGIN", "ROOM_LEAVE", "ROOM_CHAT", "LOBBY_INFO"})
      BY <2>5 DEF LobbyAsked
    <3> QED BY <2>1, <3>1 DEF Down, RoomOrLogin
  <2>6. CASE AtLobby(s)
    <3>1. Only(toServer[s], {"ROOM_ENTER"})
      BY <2>6 DEF AtLobby
    <3>2. Only(toServer[s], {"ROOM_ENTER", "LOBBY_INFO"})
      BY <3>1 DEF Only
    <3> QED BY <3>2 DEF Down
  <2>7. CASE Entered(s) \/ Stranded(s)
    BY <2>7 DEF Entered, Stranded, Down
  <2>8. CASE AtRoom(s) \/ Left(s)
    <3>1. Only(toServer[s], {"ROOM_LEAVE", "ROOM_CHAT"}) /\ (mState[s] = "InRoom" => view[s] \in Room)
      BY <2>8 DEF AtRoom, Left, InARoom
    <3> QED BY <2>1, <3>1 DEF RoomOrLogin
  <2> QED BY <1>6, <2>2, <2>3, <2>4, <2>5, <2>6, <2>7, <2>8 DEF Phase
<1>9. Down(s)'
  BY <1>5, <1>8 DEF Down, InARoom, ServerSame
<1>10. SessionInv(s)'
  BY <1>5, <1>9 DEF SessionInv
<1> QED BY <1>4, <1>10, FormOthers

\* Whatever the server handles keeps the server's own invariant.
LEMMA HandleKeeps ==
  ASSUME IInv, NEW s \in Slot, Handle(s)
  PROVE  IInv'
BY NextIInv DEF Next

\* What the server delivers has the types of packets.
LEMMA ServerTypes ==
  ASSUME SysIInv, Deliver, UNCHANGED <<sock, formVars, clicks, early>>, stranded' \subseteq Slot,
         \A t \in Slot : out'[t] \in Seq(Packet)
  PROVE  /\ FormTypeInv'
         /\ DOMAIN toClient' = Slot /\ \A t \in Slot : toClient'[t] \in Seq(Packet)
<1>1. FormTypeInv'
  BY DEF SysIInv, FormTypeInv, formVars, buttonVars
<1>2. DOMAIN toClient' = Slot
  BY DEF Deliver
<1>3. ASSUME NEW t \in Slot PROVE toClient'[t] \in Seq(Packet)
  <2>1. toClient[t] \in Seq(Packet) /\ out'[t] \in Seq(Packet)
    BY DEF SysIInv, WireTypeInv
  <2>2. toClient[t] \o out'[t] \in Seq(Packet)
    BY <2>1, AddPackets
  <2> QED BY <2>1, <2>2 DEF Deliver
<1> QED BY <1>1, <1>2, <1>3

\* A system packet keeps the whole invariant.
LEMMA SystemPart ==
  ASSUME SysIInv, NEW s \in Slot, ServeSystem(s)
  PROVE  SysIInv'
<1>1. Handle(s) /\ Deliver /\ out' = Quiet
  BY DEF ServeSystem, Handle, ProcessUserConnect, ProcessUserDisConnect, IgnoredDisConnect
<1>2. \A t \in Slot : out'[t] \in Seq(Packet)
  BY <1>1, Nothing DEF Quiet
<1>3. FormTypeInv' /\ WireTypeInv'
  BY <1>1, <1>2, ServerTypes DEF ServeSystem, SysIInv, FormTypeInv, WireTypeInv
<1> QED BY <1>1, <1>3, HandleKeeps, SystemStep DEF SysIInv

\* A client's request keeps the whole invariant.
LEMMA ServePart ==
  ASSUME SysIInv, NEW s \in Slot, Serve(s)
  PROVE  SysIInv'
<1>1. Handle(s) /\ Deliver /\ Others(s) /\ Effect(s, Head(toServer[s]).id)
  BY ServeFacts
<1>2. ~fault'
  BY ServeStep
<1>3. \A t \in Slot : out'[t] \in Seq(Packet)
  <2>1. \A t \in Slot : t # s => out'[t] \in Seq(Packet)
    BY <1>1, Noises DEF Others, Still
  <2>2. out'[s] \in Seq(Packet)
    BY <1>1, <1>2, Noises DEF Effect, Still, Granted, Refused
  <2> QED BY <2>1, <2>2
<1>4. stranded' \subseteq Slot
  BY DEF Serve, SysIInv, FormTypeInv
<1>5. FormTypeInv' /\ DOMAIN toClient' = Slot /\ \A t \in Slot : toClient'[t] \in Seq(Packet)
  BY <1>1, <1>3, <1>4, ServerTypes DEF Serve
<1>6. DOMAIN toServer' = Slot /\ \A t \in Slot : toServer'[t] \in Seq(Sendable)
  <2>1. Tail(toServer[s]) \in Seq(Sendable)
    BY ServeFacts, TakeRequest
  <2> QED BY <2>1 DEF Serve, SysIInv, WireTypeInv
<1> QED BY <1>1, <1>2, <1>5, <1>6, HandleKeeps, ServeStep DEF SysIInv, WireTypeInv

----------------------------------------------------------------------------
(* What the packets on the way will make of a form's list.                 *)

EnterDone == <<"ACK_ROOM_ENTER", "ENTER_ROOM_SUCCESS">>
LeaveDone == <<"ACK_ROOM_LEAVE", "LEAVE_ROOM_SUCCESS">>

\* How often a form that shows i n times shows it after packet p.
After(p, i, n) ==
    IF p[1] = "NOTIFY_ROOM_INFO" /\ p[2] = i THEN n + 1
    ELSE IF p[1] = "NOTIFY_ROOM_LEAVE" /\ p[2] = i /\ n > 0 THEN n - 1
    ELSE IF p[1] = "ACK_ROOM_INFO" /\ i \in p[2] THEN n + 1
    ELSE IF p = LeaveDone THEN 0
    ELSE n

\* The packets after which it shows everybody as often as before.
Plain(p) ==
    p[1] \notin {"NOTIFY_ROOM_INFO", "NOTIFY_ROOM_LEAVE", "ACK_ROOM_INFO"} /\ p # LeaveDone

\* A form that shows i m times shows it n times after all of the packets c:
\* f[k] is how often after the first k.
Ends(c, i, m, n) ==
    \E f \in [0..Len(c) -> Nat] :
        /\ f[0] = m /\ f[Len(c)] = n
        /\ \A k \in 1..Len(c) : f[k] = After(c[k], i, f[k - 1])

\* Whatever the packet, the form shows i some number of times.
LEMMA AfterType ==
  ASSUME NEW p, NEW i, NEW n \in Nat
  PROVE  After(p, i, n) \in Nat
BY DEF After, LeaveDone

\* A plain packet changes nothing.
LEMMA AfterPlain ==
  ASSUME NEW p, NEW i, NEW n \in Nat, Plain(p)
  PROVE  After(p, i, n) = n
BY DEF After, Plain

\* Nothing is on the way.
LEMMA EndsNone ==
  ASSUME NEW i, NEW m \in Nat
  PROVE  /\ Ends(<< >>, i, m, m)
         /\ \A n : Ends(<< >>, i, m, n) => n = m
<1>1. Len(<< >>) = 0
  OBVIOUS
<1>2. Ends(<< >>, i, m, m)
  <2> DEFINE f == [k \in 0..Len(<< >>) |-> m]
  <2>1. f \in [0..Len(<< >>) -> Nat] /\ f[0] = m /\ f[Len(<< >>)] = m
    BY <1>1
  <2>2. \A k \in 1..Len(<< >>) : f[k] = After(<< >>[k], i, f[k - 1])
    BY <1>1
  <2> HIDE DEF f
  <2> QED BY <2>1, <2>2 DEF Ends
<1> QED BY <1>1, <1>2 DEF Ends

\* One packet is on the way.
LEMMA EndsOne ==
  ASSUME NEW p, NEW i, NEW m \in Nat
  PROVE  Ends(<<p>>, i, m, After(p, i, m))
<1> DEFINE f == [k \in 0..1 |-> IF k = 0 THEN m ELSE After(p, i, m)]
<1>1. Len(<<p>>) = 1 /\ <<p>>[1] = p
  OBVIOUS
<1>2. f \in [0..1 -> Nat] /\ f[0] = m /\ f[1] = After(p, i, m)
  BY AfterType
<1> HIDE DEF f
<1>3. \A k \in 1..Len(<<p>>) : f[k] = After(<<p>>[k], i, f[k - 1])
  <2>1. \A k \in 1..Len(<<p>>) : k = 1 /\ k - 1 = 0
    BY <1>1
  <2> QED BY <1>1, <1>2, <2>1
<1> QED BY <1>1, <1>2, <1>3 DEF Ends

\* Packets that leave the list alone.
LEMMA EndsPlain ==
  ASSUME NEW S, NEW d \in Seq(S), NEW i, NEW m \in Nat, \A k \in 1..Len(d) : Plain(d[k])
  PROVE  Ends(d, i, m, m)
<1> DEFINE f == [k \in 0..Len(d) |-> m]
<1>1. Len(d) \in Nat
  BY LenProperties
<1>2. f \in [0..Len(d) -> Nat] /\ f[0] = m /\ f[Len(d)] = m
  BY <1>1
<1>3. ASSUME NEW k \in 1..Len(d) PROVE f[k] = After(d[k], i, f[k - 1])
  <2>1. f[k] = m /\ f[k - 1] = m
    BY <1>1
  <2> QED BY <2>1, AfterPlain
<1> HIDE DEF f
<1> QED BY <1>2, <1>3 DEF Ends

\* The packets d arrive behind c.
LEMMA EndsMore ==
  ASSUME NEW c \in Seq(Packet), NEW d \in Seq(Packet), NEW i, NEW m, NEW l, NEW n,
         Ends(c, i, m, l), Ends(d, i, l, n)
  PROVE  Ends(c \o d, i, m, n)
<1>1. /\ Len(c \o d) = Len(c) + Len(d) /\ Len(c) \in Nat /\ Len(d) \in Nat
      /\ \A k \in 1..(Len(c) + Len(d)) :
            (c \o d)[k] = IF k <= Len(c) THEN c[k] ELSE d[k - Len(c)]
  BY ConcatProperties, LenProperties
<1>2. PICK f \in [0..Len(c) -> Nat] :
        /\ f[0] = m /\ f[Len(c)] = l
        /\ \A k \in 1..Len(c) : f[k] = After(c[k], i, f[k - 1])
  BY DEF Ends
<1>3. PICK g \in [0..Len(d) -> Nat] :
        /\ g[0] = l /\ g[Len(d)] = n
        /\ \A k \in 1..Len(d) : g[k] = After(d[k], i, g[k - 1])
  BY DEF Ends
<1> DEFINE h == [k \in 0..(Len(c) + Len(d)) |-> IF k <= Len(c) THEN f[k] ELSE g[k - Len(c)]]
<1>4. \A k \in 0..Len(c) : h[k] = f[k]
  BY <1>1
<1>5. ASSUME NEW k \in 0..Len(d) PROVE h[k + Len(c)] = g[k]
  <2>1. k + Len(c) \in 0..(Len(c) + Len(d)) /\ (k + Len(c)) - Len(c) = k
    BY <1>1
  <2>2. CASE k = 0
    BY <1>1, <1>2, <1>3, <2>1, <2>2
  <2>3. CASE k # 0
    <3>1. ~(k + Len(c) <= Len(c))
      BY <1>1, <2>3
    <3> QED BY <2>1, <3>1
  <2> QED BY <2>2, <2>3
<1>6. h \in [0..(Len(c) + Len(d)) -> Nat]
  BY <1>1, <1>2, <1>3
<1> HIDE DEF h
<1>7. h[0] = m /\ h[Len(c) + Len(d)] = n
  <2>1. h[Len(d) + Len(c)] = n /\ Len(d) + Len(c) = Len(c) + Len(d)
    BY <1>1, <1>3, <1>5
  <2> QED BY <1>1, <1>2, <1>4, <2>1
<1>8. ASSUME NEW k \in 1..(Len(c) + Len(d)) PROVE h[k] = After((c \o d)[k], i, h[k - 1])
  <2>1. CASE k <= Len(c)
    <3>1. k \in 1..Len(c) /\ k \in 0..Len(c) /\ k - 1 \in 0..Len(c)
      BY <1>1, <2>1
    <3>2. (c \o d)[k] = c[k] /\ h[k] = f[k] /\ h[k - 1] = f[k - 1]
      BY <1>1, <1>4, <2>1, <3>1
    <3> QED BY <1>2, <3>1, <3>2
  <2>2. CASE ~(k <= Len(c))
    <3>1. PICK j \in 1..Len(d) : k = j + Len(c)
      <4>1. k - Len(c) \in 1..Len(d) /\ k = (k - Len(c)) + Len(c)
        BY <1>1, <2>2
      <4> QED BY <4>1
    <3>2. /\ j \in 0..Len(d) /\ j - 1 \in 0..Len(d)
          /\ k - Len(c) = j /\ k - 1 = (j - 1) + Len(c)
      BY <1>1, <3>1
    <3>3. (c \o d)[k] = d[j]
      BY <1>1, <2>2, <3>2
    <3>4. h[k] = g[j] /\ h[k - 1] = g[j - 1]
      BY <1>5, <3>1, <3>2
    <3> QED BY <1>3, <3>3, <3>4
  <2> QED BY <2>1, <2>2
<1> QED BY <1>1, <1>6, <1>7, <1>8 DEF Ends

\* The form takes the first packet.
LEMMA EndsTail ==
  ASSUME NEW c \in Seq(Packet), c # << >>, NEW i, NEW m, NEW n, Ends(c, i, m, n)
  PROVE  Ends(Tail(c), i, After(Head(c), i, m), n)
<1>1. /\ Len(c) \in Nat /\ Len(c) > 0 /\ Len(Tail(c)) = Len(c) - 1
      /\ Head(c) = c[1] /\ \A k \in 1..(Len(c) - 1) : Tail(c)[k] = c[k + 1]
  BY Behind
<1>2. PICK f \in [0..Len(c) -> Nat] :
        /\ f[0] = m /\ f[Len(c)] = n
        /\ \A k \in 1..Len(c) : f[k] = After(c[k], i, f[k - 1])
  BY DEF Ends
<1> DEFINE g == [k \in 0..(Len(c) - 1) |-> f[k + 1]]
<1>3. g \in [0..(Len(c) - 1) -> Nat] /\ \A k \in 0..(Len(c) - 1) : g[k] = f[k + 1]
  BY <1>1
<1> HIDE DEF g
<1>4. g[0] = After(Head(c), i, m)
  <2>1. 1 \in 1..Len(c) /\ 0 \in 0..(Len(c) - 1) /\ 1 - 1 = 0 /\ 0 + 1 = 1
    BY <1>1
  <2> QED BY <1>1, <1>2, <1>3, <2>1
<1>5. g[Len(c) - 1] = n
  BY <1>1, <1>2, <1>3
<1>6. ASSUME NEW k \in 1..(Len(c) - 1) PROVE g[k] = After(Tail(c)[k], i, g[k - 1])
  <2>1. /\ k + 1 \in 1..Len(c) /\ (k + 1) - 1 = k /\ (k - 1) + 1 = k
        /\ k \in 0..(Len(c) - 1) /\ k - 1 \in 0..(Len(c) - 1)
    BY <1>1
  <2>2. f[k + 1] = After(c[k + 1], i, f[k])
    BY <1>2, <2>1
  <2>3. g[k] = f[k + 1] /\ g[k - 1] = f[k] /\ Tail(c)[k] = c[k + 1]
    BY <1>1, <1>3, <2>1
  <2> QED BY <2>2, <2>3
<1> QED BY <1>1, <1>3, <1>4, <1>5, <1>6 DEF Ends

\* A request for the list of a room is on the way; the client is about to be
\* told to send one; an arrival comes before any list.
Asked(q) == \E k \in 1..Len(q) : q[k].id = "ROOM_INFO"
Admitted(c) == \E k \in 1..Len(c) : c[k] = EnterDone
Arrival(c) ==
    \E k \in 1..Len(c) : /\ c[k][1] = "NOTIFY_ROOM_INFO"
                         /\ \A j \in 1..k : c[j][1] # "ACK_ROOM_INFO"

\* A request joins those on the way, or the server takes the first.
LEMMA AskedMore ==
  ASSUME NEW q \in Seq(Sendable), NEW r \in Sendable
  PROVE  Asked(Append(q, r)) <=> Asked(q) \/ r.id = "ROOM_INFO"
<1>1. /\ Len(Append(q, r)) = Len(q) + 1 /\ Len(q) \in Nat
      /\ \A k \in 1..Len(q) : Append(q, r)[k] = q[k]
      /\ Append(q, r)[Len(q) + 1] = r
  BY AppendProperties, LenProperties
<1>2. /\ \A k \in 1..Len(q) : k \in 1..Len(Append(q, r))
      /\ Len(q) + 1 \in 1..Len(Append(q, r))
      /\ \A k \in 1..Len(Append(q, r)) : k \in 1..Len(q) \/ k = Len(q) + 1
  BY <1>1
<1>3. Asked(q) \/ r.id = "ROOM_INFO" => Asked(Append(q, r))
  BY <1>1, <1>2 DEF Asked
<1>4. Asked(Append(q, r)) => Asked(q) \/ r.id = "ROOM_INFO"
  BY <1>1, <1>2 DEF Asked
<1> QED BY <1>3, <1>4

\* The request for the list is the first, or behind it.
LEMMA AskedTail ==
  ASSUME NEW q \in Seq(Sendable), q # << >>
  PROVE  Asked(q) <=> Head(q).id = "ROOM_INFO" \/ Asked(Tail(q))
<1>1. /\ Len(q) \in Nat /\ Len(q) > 0 /\ Len(Tail(q)) = Len(q) - 1
      /\ Head(q) = q[1] /\ \A k \in 1..(Len(q) - 1) : Tail(q)[k] = q[k + 1]
  BY Behind
<1>2. /\ 1 \in 1..Len(q) /\ \A k \in 1..Len(Tail(q)) : k + 1 \in 1..Len(q) /\ Tail(q)[k] = q[k + 1]
      /\ \A k \in 1..Len(q) : k # 1 => k - 1 \in 1..Len(Tail(q)) /\ Tail(q)[k - 1] = q[k]
  BY <1>1
<1>3. Head(q).id = "ROOM_INFO" \/ Asked(Tail(q)) => Asked(q)
  BY <1>1, <1>2 DEF Asked
<1>4. Asked(q) => Head(q).id = "ROOM_INFO" \/ Asked(Tail(q))
  BY <1>1, <1>2 DEF Asked
<1> QED BY <1>3, <1>4

\* Packets join those on the way.
LEMMA WayMore ==
  ASSUME NEW c \in Seq(Packet), NEW d \in Seq(Packet)
  PROVE  /\ Admitted(c \o d) <=> Admitted(c) \/ Admitted(d)
         /\ Arrival(c) => Arrival(c \o d)
         /\ Arrival(d) /\ (\A k \in 1..Len(c) : c[k][1] # "ACK_ROOM_INFO") => Arrival(c \o d)
<1>1. /\ Len(c \o d) = Len(c) + Len(d) /\ Len(c) \in Nat /\ Len(d) \in Nat
      /\ \A k \in 1..(Len(c) + Len(d)) :
            (c \o d)[k] = IF k <= Len(c) THEN c[k] ELSE d[k - Len(c)]
  BY ConcatProperties, LenProperties
<1>2. \A k \in 1..Len(c) : k \in 1..Len(c \o d) /\ (c \o d)[k] = c[k]
  BY <1>1
<1>3. ASSUME NEW k \in 1..Len(d)
      PROVE  k + Len(c) \in 1..Len(c \o d) /\ (c \o d)[k + Len(c)] = d[k]
  <2>1. /\ k + Len(c) \in 1..(Len(c) + Len(d)) /\ ~(k + Len(c) <= Len(c))
        /\ (k + Len(c)) - Len(c) = k
    BY <1>1
  <2> QED BY <1>1, <2>1
<1>4. ASSUME NEW k \in 1..Len(c \o d), k \notin 1..Len(c)
      PROVE  \E j \in 1..Len(d) : k = j + Len(c)
  <2>1. k - Len(c) \in 1..Len(d) /\ k = (k - Len(c)) + Len(c)
    BY <1>1, <1>4
  <2> QED BY <2>1
<1>5. Admitted(c \o d) => Admitted(c) \/ Admitted(d)
  BY <1>2, <1>3, <1>4 DEF Admitted
<1>6. Admitted(c) \/ Admitted(d) => Admitted(c \o d)
  BY <1>2, <1>3 DEF Admitted
<1>7. ASSUME Arrival(c) PROVE Arrival(c \o d)
  <2>1. PICK k \in 1..Len(c) : /\ c[k][1] = "NOTIFY_ROOM_INFO"
                               /\ \A j \in 1..k : c[j][1] # "ACK_ROOM_INFO"
    BY <1>7 DEF Arrival
  <2>2. \A j \in 1..k : j \in 1..Len(c)
    BY <1>1
  <2> QED BY <1>2, <2>1, <2>2 DEF Arrival
<1>8. ASSUME Arrival(d), \A k \in 1..Len(c) : c[k][1] # "ACK_ROOM_INFO" PROVE Arrival(c \o d)
  <2>1. PICK k \in 1..Len(d) : /\ d[k][1] = "NOTIFY_ROOM_INFO"
                               /\ \A j \in 1..k : d[j][1] # "ACK_ROOM_INFO"
    BY <1>8 DEF Arrival
  <2>2. ASSUME NEW j \in 1..(k + Len(c)) PROVE (c \o d)[j][1] # "ACK_ROOM_INFO"
    <3>1. CASE j \in 1..Len(c)
      BY <1>2, <1>8, <3>1
    <3>2. CASE j \notin 1..Len(c)
      <4>1. j \in 1..Len(c \o d)
        BY <1>1
      <4>2. PICK i \in 1..Len(d) : j = i + Len(c)
        BY <1>4, <3>2, <4>1
      <4>3. i \in 1..k
        BY <1>1, <4>2
      <4> QED BY <1>3, <2>1, <4>2, <4>3
    <3> QED BY <3>1, <3>2
  <2> QED BY <1>3, <2>1, <2>2 DEF Arrival
<1> QED BY <1>5, <1>6, <1>7, <1>8

\* The form takes the first: an arrival that was to come has come, or is behind
\* a packet that is no list.
LEMMA WayTail ==
  ASSUME NEW c \in Seq(Packet), c # << >>
  PROVE  /\ Admitted(c) <=> Head(c) = EnterDone \/ Admitted(Tail(c))
         /\ Arrival(c) => \/ Head(c)[1] = "NOTIFY_ROOM_INFO"
                          \/ Head(c)[1] # "ACK_ROOM_INFO" /\ Arrival(Tail(c))
<1>1. /\ Len(c) \in Nat /\ Len(c) > 0 /\ Len(Tail(c)) = Len(c) - 1
      /\ Head(c) = c[1] /\ \A k \in 1..(Len(c) - 1) : Tail(c)[k] = c[k + 1]
  BY Behind
<1>2. /\ 1 \in 1..Len(c) /\ \A k \in 1..Len(Tail(c)) : k + 1 \in 1..Len(c) /\ Tail(c)[k] = c[k + 1]
      /\ \A k \in 1..Len(c) : k # 1 => k - 1 \in 1..Len(Tail(c)) /\ Tail(c)[k - 1] = c[k]
  BY <1>1
<1>3. Head(c) = EnterDone \/ Admitted(Tail(c)) => Admitted(c)
  BY <1>1, <1>2 DEF Admitted
<1>4. Admitted(c) => Head(c) = EnterDone \/ Admitted(Tail(c))
  BY <1>1, <1>2 DEF Admitted
<1>5. ASSUME Arrival(c), Head(c)[1] # "NOTIFY_ROOM_INFO"
      PROVE  Head(c)[1] # "ACK_ROOM_INFO" /\ Arrival(Tail(c))
  <2>1. PICK k \in 1..Len(c) : /\ c[k][1] = "NOTIFY_ROOM_INFO"
                               /\ \A j \in 1..k : c[j][1] # "ACK_ROOM_INFO"
    BY <1>5 DEF Arrival
  <2>2. k # 1 /\ 1 \in 1..k
    BY <1>1, <1>5, <2>1
  <2>3. \A j \in 1..(k - 1) : j \in 1..Len(Tail(c)) /\ j + 1 \in 1..k
    BY <1>1
  <2>4. k - 1 \in 1..Len(Tail(c)) /\ Tail(c)[k - 1][1] = "NOTIFY_ROOM_INFO"
    BY <1>2, <2>1, <2>2
  <2>5. \A j \in 1..(k - 1) : Tail(c)[j][1] # "ACK_ROOM_INFO"
    BY <1>2, <2>1, <2>3
  <2> QED BY <1>1, <2>1, <2>2, <2>4, <2>5 DEF Arrival
<1> QED BY <1>3, <1>4, <1>5

----------------------------------------------------------------------------
(* Where the clients are, and what their lists come to.                    *)

\* No account has the empty id, or no connection has broken.
Proper == NoId \notin InitialId
Calm == \A t \in Slot : sock[t] # "closed"
Sound == Proper \/ Calm

\* The user is logged in.
In(s) == Live(s) /\ mState[s] \in {"InLobby", "InRoom"}

\* Whoever is logged in is so alone, and in the list of the room it was told it
\* is in.
Placed(s) ==
    /\ mUserIDDictionary[mUserID[s]] = s
    /\ Proper => mUserID[s] # NoId
    /\ \A r \in Room : view[s] = r <=> mUserList[r][s] > 0
PlaceInv == \A s \in Slot : In(s) => Placed(s)

\* The client was admitted and has no list of the room yet, nor is one on the
\* way.
Asking(s) == Asked(toServer[s]) \/ Admitted(toClient[s])

\* The client has been told of an arrival before the list, or will be.
WillBeEarly(s) ==
    \/ s \in early
    \/ ~ChatSend[s] /\ Arrival(toClient[s])

\* What the count of i comes to once s has taken all that is on the way.
Final(s, i, n) ==
    /\ view[s] = NoRoom => n = 0
    /\ i \in Companions(s) /\ ~Asking(s) => n >= 1
    /\ Calm /\ ~WillBeEarly(s) => n = IF i \in Companions(s) /\ ~Asking(s) THEN 1 ELSE 0

Counted(s, i) == \E n \in Nat : Ends(toClient[s], i, UserList[s][i], n) /\ Final(s, i, n)

ListInv(s) ==
    sock[s] # "closed" => /\ Asking(s) => view[s] # NoRoom
                          /\ Sound => \A i \in Id : Counted(s, i)

ShowInv ==
    /\ Proper => accounts[NoId] = NoPw
    /\ Sound => PlaceInv
    /\ \A s \in Slot : ListInv(s)

\* Two users that are logged in have different ids.
LEMMA Alike ==
  ASSUME PlaceInv, NEW u \in Slot, NEW v \in Slot, In(u), In(v), mUserID[u] = mUserID[v]
  PROVE  u = v
BY DEF PlaceInv, Placed

\* A client that is connected is in the list of the room it was told, once.
LEMMA InPlace ==
  ASSUME SysIInv, PlaceInv, NEW t \in Slot, sock[t] # "closed"
  PROVE  /\ \A r \in Room : mUserList[r][t] = IF view[t] = r THEN 1 ELSE 0
         /\ \A r \in Room : t \in Members(r) => In(t) /\ view[t] = r
<1>1. In(t) \/ mState[t] \in {"None", "Connected"}
  <2>1. CASE sock[t] = "none"
    BY <2>1 DEF SysIInv, SessionInv, Before
  <2>2. CASE sock[t] = "open"
    <3>1. handlers[t] = Handlers(mState[t]) /\ mState[t] \in State
      BY <2>2 DEF SysIInv, SessionInv, Up, IInv, TypeOK
    <3> QED BY <3>1, HandlersSome DEF In, Live, State
  <2> QED BY <2>1, <2>2 DEF SysIInv, FormTypeInv
<1>2. \A r \in Room : mUserList[r][t] \in Nat /\ (mUserList[r][t] > 0 => mUserList[r][t] = 1)
  BY DEF SysIInv, IInv, TypeOK, OneRoom
<1>3. CASE In(t)
  BY <1>2, <1>3 DEF PlaceInv, Placed, Members
<1>4. CASE mState[t] \in {"None", "Connected"}
  <2>1. view[t] = NoRoom /\ NoRoom \notin Room
    BY <1>4, ChatAssumption DEF SysIInv, IInv, SlotInv
  <2>2. \A r \in Room : mUserList[r][t] = 0
    <3>1. CASE mState[t] = "None"
      BY <3>1 DEF SysIInv, IInv, SlotInv, InNoList
    <3>2. CASE mState[t] = "Connected"
      <4>1. sock[t] = "open" /\ Live(t)
        <5>1. sock[t] = "open"
          BY <3>2 DEF SysIInv, FormTypeInv, SessionInv, Before
        <5> QED BY <3>2, <5>1, HandlersSome DEF SysIInv, SessionInv, Up, Live
      <4> QED BY <1>2, <3>2, <4>1 DEF SysIInv, IInv, OneRoom
    <3> QED BY <1>4, <3>1, <3>2
  <2> QED BY <2>1, <2>2 DEF Members
<1> QED BY <1>1, <1>3, <1>4

\* The packets that carry a list, and the grants, are apart.
LEMMA Carried ==
  /\ EnterDone \in EnterOk /\ LeaveDone \in LeaveOk
  /\ EnterOk = {EnterDone} /\ LeaveOk = {LeaveDone}
  /\ \A p \in Packet : p[1] = "ACK_ROOM_INFO" => p \in RoomOk
<1>1. EnterOk = {EnterDone} /\ LeaveOk = {LeaveDone}
  BY DEF EnterOk, LeaveOk, EnterDone, LeaveDone
<1>2. \A p \in Grant : p[1] = "ACK_ROOM_INFO" => p \in RoomOk
  BY DEF Grant, LoginOk, LobbyOk, EnterOk, RoomOk, LeaveOk
<1>3. \A p \in Noise : p[1] # "ACK_ROOM_INFO"
  BY DEF Noise
<1> QED BY <1>1, <1>2, <1>3 DEF Packet

\* What the grants on the way tell.
LEMMA Ways ==
  ASSUME NEW c \in Seq(Packet)
  PROVE  /\ NoGrant(c) => ~Admitted(c) /\ \A k \in 1..Len(c) : c[k][1] # "ACK_ROOM_INFO"
         /\ OneGrant(c, EnterOk) => \A k \in 1..Len(c) : c[k][1] # "ACK_ROOM_INFO"
         /\ \A g \in {LoginOk, LobbyOk, RoomOk, LeaveOk} : OneGrant(c, g) => ~Admitted(c)
<1>1. \A k \in 1..Len(c) : c[k] \in Packet
  OBVIOUS
<1>2. NoGrant(c) => ~Admitted(c)
  BY Carried, Kinds DEF NoGrant, Admitted
<1>3. NoGrant(c) => \A k \in 1..Len(c) : c[k][1] # "ACK_ROOM_INFO"
  BY <1>1, Carried, Kinds DEF NoGrant
<1>4. ASSUME OneGrant(c, EnterOk), NEW k \in 1..Len(c), c[k][1] = "ACK_ROOM_INFO"
      PROVE  FALSE
  <2>1. PICK j \in 1..Len(c) : c[j] \in EnterOk /\ \A l \in 1..Len(c) : c[l] \in Grant <=> l = j
    BY <1>4 DEF OneGrant
  <2>2. c[k] \in RoomOk
    BY <1>1, <1>4, Carried
  <2> QED BY <2>1, <2>2, Kinds
<1>5. ASSUME NEW g \in {LoginOk, LobbyOk, RoomOk, LeaveOk}, OneGrant(c, g), Admitted(c)
      PROVE  FALSE
  <2>1. PICK j \in 1..Len(c) : c[j] \in g /\ \A l \in 1..Len(c) : c[l] \in Grant <=> l = j
    BY <1>5 DEF OneGrant
  <2>2. PICK k \in 1..Len(c) : c[k] = EnterDone
    BY <1>5 DEF Admitted
  <2>3. EnterDone \in Grant /\ EnterDone \notin g
    BY <1>5, Carried, Kinds
  <2> QED BY <2>1, <2>2, <2>3
<1> QED BY <1>2, <1>3, <1>4, <1>5

\* A client that is asking is in one of two phases; its form offers no chat.
LEMMA AskingPhase ==
  ASSUME SysIInv, NEW s \in Slot, sock[s] = "open", Asking(s)
  PROVE  /\ Entered(s) \/ RoomAsked(s)
         /\ ~ChatSend[s]
         /\ \A k \in 1..Len(toClient[s]) : toClient[s][k][1] # "ACK_ROOM_INFO"
<1> DEFINE c == toClient[s]
<1>1. Phase(s) /\ c \in Seq(Packet) /\ ChatSend = RoomExit
  BY DEF SysIInv, SessionInv, Up, WireTypeInv, FormTypeInv
<1>2. \A ids : Only(toServer[s], ids) /\ "ROOM_INFO" \notin ids => ~Asked(toServer[s])
  BY DEF Only, Asked
<1>3. toServer[s] = << >> => ~Asked(toServer[s])
  BY DEF Asked
<1>4. ~NoGrant(c) \/ Asked(toServer[s])
  BY <1>1, Ways DEF Asking
<1>5. \/ Asked(toServer[s])
      \/ /\ ~OneGrant(c, LoginOk) /\ ~OneGrant(c, LobbyOk)
         /\ ~OneGrant(c, RoomOk) /\ ~OneGrant(c, LeaveOk)
  BY <1>1, Ways DEF Asking
<1>6. ~LoggingIn(s) /\ ~LoggedIn(s)
  BY <1>2, <1>4, <1>5 DEF LoggingIn, LoggedIn
<1>7. ~LobbyAsked(s)
  BY <1>2, <1>4 DEF LobbyAsked
<1>8. ~LobbyGranted(s) /\ ~RoomGranted(s)
  BY <1>3, <1>5 DEF LobbyGranted, RoomGranted
<1>9. ~AtLobby(s) /\ ~Stranded(s) /\ ~AtRoom(s) /\ ~Left(s)
  BY <1>2, <1>4, <1>5 DEF AtLobby, Stranded, AtRoom, Left
<1>10. Entered(s) \/ RoomAsked(s)
  BY <1>1, <1>6, <1>7, <1>8, <1>9 DEF Phase
<1>11. ~ChatSend[s]
  BY <1>1, <1>10 DEF Entered, RoomAsked, Shows
<1>12. \A k \in 1..Len(c) : c[k][1] # "ACK_ROOM_INFO"
  BY <1>1, <1>10, Ways DEF Entered, RoomAsked
<1> QED BY <1>10, <1>11, <1>12

\* The count stays what it comes to while nothing it depends on changes.
LEMMA FinalKeeps ==
  ASSUME NEW s \in Slot, NEW i, NEW n, Final(s, i, n), view'[s] = view[s],
         Asking(s)' <=> Asking(s), WillBeEarly(s) => WillBeEarly(s)', Calm' => Calm,
         (i \in Companions(s))' => i \in Companions(s),
         Calm' /\ i \in Companions(s) => (i \in Companions(s))'
  PROVE  Final(s, i, n)'
BY DEF Final

----------------------------------------------------------------------------
(* Steps of a form.                                                        *)

\* While no connection changes, a step of a form keeps everybody's company.
LEMMA SameFolk ==
  ASSUME FormStep, sock' = sock
  PROVE  /\ Calm' <=> Calm
         /\ \A t \in Slot : Companions(t)' = Companions(t)
BY DEF FormStep, Calm, Companions, Members

\* What a step of one form leaves alone of the others' lists.
Elsewhere(s) ==
    \A t \in Slot : t # s =>
        /\ sock'[t] = sock[t] /\ toServer'[t] = toServer[t] /\ toClient'[t] = toClient[t]
        /\ UserList'[t] = UserList[t] /\ ChatSend'[t] = ChatSend[t]
        /\ t \in early => t \in early'

\* What is left to show of a step of the form of s: its own list.
LEMMA FormShow ==
  ASSUME ShowInv, NEW s \in Slot, FormStep, Elsewhere(s), Calm' => Calm,
         \A t \in Slot : /\ Companions(t)' \subseteq Companions(t)
                         /\ Calm' => Companions(t)' = Companions(t),
         ListInv(s)'
  PROVE  ShowInv'
<1>1. (Proper => accounts[NoId] = NoPw)'
  BY DEF ShowInv, FormStep, dbVars, Proper
<1>2. Sound' => Sound
  BY DEF Sound, Proper
<1>3. Sound' => PlaceInv'
  BY <1>2 DEF ShowInv, PlaceInv, Placed, In, Live, FormStep, Proper
<1>4. ASSUME NEW t \in Slot, t # s PROVE ListInv(t)'
  <2>1. /\ sock'[t] = sock[t] /\ view'[t] = view[t] /\ (Asking(t)' <=> Asking(t))
        /\ WillBeEarly(t) => WillBeEarly(t)'
    BY <1>4 DEF Elsewhere, FormStep, Asking, WillBeEarly
  <2>2. ASSUME Sound', sock'[t] # "closed", NEW i \in Id PROVE Counted(t, i)'
    <3>1. PICK n \in Nat : Ends(toClient[t], i, UserList[t][i], n) /\ Final(t, i, n)
      BY <1>2, <2>1, <2>2 DEF ShowInv, ListInv, Counted
    <3>2. Final(t, i, n)'
      BY <2>1, <3>1, FinalKeeps
    <3>3. toClient'[t] = toClient[t] /\ UserList'[t] = UserList[t]
      BY <1>4 DEF Elsewhere
    <3> QED BY <3>1, <3>2, <3>3 DEF Counted
  <2> QED BY <2>1, <2>2 DEF ShowInv, ListInv
<1> QED BY <1>1, <1>3, <1>4 DEF ShowInv

\* A click that sends anything but a request for the list of a room.
LEMMA ClickShow ==
  ASSUME SysIInv, ShowInv, NEW s \in Slot, NEW button, Click(s, button), ChatSend' = ChatSend,
         NEW req \in Sendable, PostSendPacket(s, req), req.id # "ROOM_INFO"
  PROVE  ShowInv'
<1>1. /\ sock' = sock /\ UserList' = UserList /\ toClient' = toClient /\ early' = early
      /\ FormStep /\ view' = view
  BY DEF Click, FormStep
<1>2. /\ toServer[s] \in Seq(Sendable)
      /\ toServer'[s] = IF sock[s] = "open" THEN Append(toServer[s], req) ELSE toServer[s]
      /\ \A t \in Slot : t # s => toServer'[t] = toServer[t]
  BY Posted DEF SysIInv, WireTypeInv
<1>3. Asked(toServer'[s]) <=> Asked(toServer[s])
  BY <1>2, AskedMore
<1>4. Elsewhere(s)
  BY <1>1, <1>2 DEF Elsewhere
<1>5. /\ Calm' <=> Calm
      /\ \A t \in Slot : Companions(t)' = Companions(t)
  BY <1>1, SameFolk
<1>6. (Asking(s)' <=> Asking(s)) /\ (WillBeEarly(s) => WillBeEarly(s)')
  BY <1>1, <1>3 DEF Asking, WillBeEarly
<1>7. ASSUME Sound', sock'[s] # "closed", NEW i \in Id PROVE Counted(s, i)'
  <2>1. PICK n \in Nat : Ends(toClient[s], i, UserList[s][i], n) /\ Final(s, i, n)
    BY <1>1, <1>5, <1>7 DEF ShowInv, ListInv, Counted, Sound, Proper
  <2>2. Final(s, i, n)'
    BY <1>1, <1>5, <1>6, <2>1, FinalKeeps
  <2> QED BY <1>1, <2>1, <2>2 DEF Counted
<1>8. ListInv(s)'
  BY <1>1, <1>6, <1>7 DEF ShowInv, ListInv
<1> QED BY <1>1, <1>4, <1>5, <1>8, FormShow

\* Connecting: the client is in no room.
LEMMA ConnectShow ==
  ASSUME SysIInv, ShowInv, NEW s \in Slot, ConnectBtn_Click(s)
  PROVE  ShowInv'
<1>1. /\ UserList' = UserList /\ ChatSend' = ChatSend /\ early' = early
      /\ toServer' = toServer /\ toClient' = toClient
      /\ FormStep /\ view' = view
  BY DEF ConnectBtn_Click, FormStep
<1>2. sock[s] = "none" /\ sock'[s] = "open" /\ \A t \in Slot : t # s => sock'[t] = sock[t]
  BY DEF ConnectBtn_Click, SysIInv, FormTypeInv
<1>3. \A r \in Room : mUserList[r][s] = 0
  BY <1>2 DEF SysIInv, SessionInv, Before, IInv, SlotInv, InNoList
<1>4. Calm' <=> Calm
  BY <1>2 DEF Calm
<1>5. ASSUME NEW t \in Slot PROVE Companions(t)' = Companions(t)
  <2>1. CASE view[t] = NoRoom
    BY <1>1, <2>1 DEF Companions
  <2>2. CASE view[t] # NoRoom
    <3>1. view[t] \in Room
      BY <2>2 DEF SysIInv, IInv, TypeOK
    <3>2. s \notin Members(view[t])
      BY <1>3, <3>1 DEF Members
    <3>3. Members(view[t])' = Members(view[t]) /\ mUserID' = mUserID
      BY <1>1 DEF FormStep, Members
    <3>4. {u \in Members(view[t]) : sock[u] = "open"}' = {u \in Members(view[t]) : sock[u] = "open"}
      BY <1>2, <3>2, <3>3 DEF Members
    <3> QED BY <1>1, <2>2, <3>3, <3>4 DEF Companions
  <2> QED BY <2>1, <2>2
<1>6. Elsewhere(s)
  BY <1>1, <1>2 DEF Elsewhere
<1>7. (Asking(s)' <=> Asking(s)) /\ (WillBeEarly(s) => WillBeEarly(s)')
  BY <1>1 DEF Asking, WillBeEarly
<1>8. ASSUME Sound', NEW i \in Id PROVE Counted(s, i)'
  <2>1. PICK n \in Nat : Ends(toClient[s], i, UserList[s][i], n) /\ Final(s, i, n)
    BY <1>2, <1>4, <1>8 DEF ShowInv, ListInv, Counted, Sound, Proper
  <2>2. Final(s, i, n)'
    BY <1>1, <1>4, <1>5, <1>7, <2>1, FinalKeeps
  <2> QED BY <1>1, <2>1, <2>2 DEF Counted
<1>9. ListInv(s)'
  BY <1>1, <1>2, <1>7, <1>8 DEF ShowInv, ListInv
<1> QED BY <1>1, <1>4, <1>5, <1>6, <1>9, FormShow

\* A connection breaks: there is less company than before.
LEMMA DropShow ==
  ASSUME SysIInv, ShowInv, NEW s \in Slot, Drop(s)
  PROVE  ShowInv'
<1>1. /\ UserList' = UserList /\ ChatSend' = ChatSend /\ early' = early
      /\ toServer' = toServer /\ FormStep /\ view' = view
  BY DEF Drop, formVars, buttonVars, FormStep
<1>2. /\ sock[s] = "open" /\ sock'[s] = "closed"
      /\ \A t \in Slot : t # s => sock'[t] = sock[t] /\ toClient'[t] = toClient[t]
  BY DEF Drop, SysIInv, FormTypeInv, WireTypeInv
<1>3. ~Calm'
  BY <1>2 DEF Calm
<1>4. \A t \in Slot : Companions(t)' \subseteq Companions(t)
  BY <1>1, <1>2 DEF Companions, Members, FormStep
<1>5. Elsewhere(s)
  BY <1>1, <1>2 DEF Elsewhere
<1>6. ListInv(s)'
  BY <1>2 DEF ListInv
<1> QED BY <1>1, <1>3, <1>4, <1>5, <1>6, FormShow

----------------------------------------------------------------------------
(* The packets the form handles.                                           *)

\* What the form does with pkt is what After and the rest say of it.
Takes(s, pkt) ==
    /\ \A t \in Slot : t # s =>
          /\ toServer'[t] = toServer[t] /\ UserList'[t] = UserList[t]
          /\ ChatSend'[t] = ChatSend[t] /\ (t \in early => t \in early')
    /\ \A i \in Id : UserList'[s][i] = After(pkt, i, UserList[s][i])
    /\ sock[s] = "open" => (Asked(toServer'[s]) <=> Asked(toServer[s]) \/ pkt = EnterDone)
    /\ pkt[1] # "ACK_ROOM_INFO" /\ pkt # LeaveDone => ChatSend'[s] = ChatSend[s]
    /\ pkt # LeaveDone /\ s \in early => s \in early'
    /\ pkt[1] = "NOTIFY_ROOM_INFO" /\ ~ChatSend[s] => s \in early'

\* A packet moves from the way into the list.
LEMMA TakesShow ==
  ASSUME SysIInv, ShowInv, NEW s \in Slot, NEW pkt, Tick(s, pkt), Takes(s, pkt)
  PROVE  ShowInv'
<1> DEFINE c == toClient[s]
<1>1. c \in Seq(Packet) /\ c # << >> /\ Head(c) = pkt /\ toClient'[s] = Tail(c)
  BY DEF SysIInv, WireTypeInv, Tick
<1>2. sock[s] # "none" /\ sock' = sock /\ FormStep /\ view' = view
  BY TickFacts DEF Tick, FormStep
<1>3. Elsewhere(s)
  BY <1>2, TickFacts DEF Elsewhere, Takes
<1>4. /\ Calm' <=> Calm
      /\ \A t \in Slot : Companions(t)' = Companions(t)
  BY <1>2, SameFolk
<1>5. ASSUME sock[s] = "open" PROVE ListInv(s)'
  <2>1. Asking(s)' <=> Asking(s)
    <3>1. Admitted(c) <=> pkt = EnterDone \/ Admitted(Tail(c))
      BY <1>1, WayTail
    <3> QED BY <1>1, <1>5, <3>1 DEF Asking, Takes
  <2>2. ASSUME pkt # LeaveDone PROVE WillBeEarly(s) => WillBeEarly(s)'
    <3>1. CASE s \in early
      BY <2>2, <3>1 DEF Takes, WillBeEarly
    <3>2. CASE ~ChatSend[s] /\ Arrival(c)
      <4>1. \/ pkt[1] = "NOTIFY_ROOM_INFO"
            \/ pkt[1] # "ACK_ROOM_INFO" /\ Arrival(Tail(c))
        BY <1>1, <3>2, WayTail
      <4> QED BY <1>1, <2>2, <3>2, <4>1 DEF Takes, WillBeEarly
    <3> QED BY <3>1, <3>2 DEF WillBeEarly
  <2>3. ASSUME pkt = LeaveDone PROVE view[s] = NoRoom
    <3>1. pkt \in LeaveOk /\ pkt \in Grant
      BY <2>3, Carried, Kinds
    <3>2. Left(s)
      BY <1>5, <3>1, GrantPhase
    <3> QED BY <1>5, <3>2 DEF Left, SysIInv, SessionInv, Up
  <2>4. ASSUME Sound', NEW i \in Id PROVE Counted(s, i)'
    <3>1. PICK n \in Nat : Ends(c, i, UserList[s][i], n) /\ Final(s, i, n)
      BY <1>4, <1>5, <2>4 DEF ShowInv, ListInv, Counted, Sound, Proper
    <3>2. Ends(toClient'[s], i, UserList'[s][i], n)
      <4>1. Ends(Tail(c), i, After(pkt, i, UserList[s][i]), n)
        BY <1>1, <3>1, EndsTail
      <4> QED BY <1>1, <4>1 DEF Takes
    <3>3. Final(s, i, n)'
      <4>1. CASE pkt = LeaveDone
        <5>1. n = 0 /\ view'[s] = NoRoom /\ i \notin Companions(s)'
          BY <1>2, <2>3, <3>1, <4>1 DEF Final, Companions
        <5> QED BY <5>1 DEF Final
      <4>2. CASE pkt # LeaveDone
        BY <1>2, <1>4, <2>1, <2>2, <3>1, <4>2, FinalKeeps
      <4> QED BY <4>1, <4>2
    <3> QED BY <3>1, <3>2, <3>3 DEF Counted
  <2> QED BY <1>2, <1>5, <2>1, <2>4 DEF ShowInv, ListInv
<1>6. sock[s] = "closed" => ListInv(s)'
  BY <1>2 DEF ListInv
<1>7. ListInv(s)'
  BY <1>2, <1>5, <1>6 DEF SysIInv, FormTypeInv
<1> QED BY <1>2, <1>3, <1>4, <1>7, FormShow

\* A packet that leaves the list alone, and at most makes the form ask for the
\* rooms.
LEMMA PlainTakes ==
  ASSUME SysIInv, NEW s \in Slot, NEW pkt, Plain(pkt), pkt # EnterDone,
         UNCHANGED <<UserList, ChatSend, early>>,
         \/ toServer' = toServer
         \/ PostSendPacket(s, Req("LOBBY_INFO", NoArg))
  PROVE  Takes(s, pkt)
<1> DEFINE req == Req("LOBBY_INFO", NoArg)
<1>1. req \in Sendable /\ req.id = "LOBBY_INFO"
  BY Forms
<1> HIDE DEF req
<1>2. /\ \A t \in Slot : t # s => toServer'[t] = toServer[t]
      /\ toServer'[s] = toServer[s] \/ toServer'[s] = Append(toServer[s], req)
  <2>1. CASE PostSendPacket(s, req)
    BY <1>1, <2>1, Posted DEF SysIInv
  <2> QED BY <2>1 DEF req
<1>3. toServer[s] \in Seq(Sendable)
  BY DEF SysIInv, WireTypeInv
<1>4. Asked(toServer'[s]) <=> Asked(toServer[s])
  <2>1. Asked(Append(toServer[s], req)) <=> Asked(toServer[s])
    BY <1>1, <1>3, AskedMore
  <2> QED BY <1>2, <2>1
<1>5. \A i \in Id : UserList'[s][i] = After(pkt, i, UserList[s][i])
  BY AfterPlain DEF SysIInv, FormTypeInv
<1> QED BY <1>2, <1>4, <1>5 DEF Takes, Plain

\* The packets that leave the list alone.
LEMMA PlainKinds ==
  /\ \A result : Plain(<<"ACK_LOGIN", result>>) /\ <<"ACK_LOGIN", result>> # EnterDone
  /\ \A result : Plain(<<"ACK_ROOM_ENTER", result>>)
  /\ \A result : /\ Plain(<<"ACK_LOBBY_INFO", result>>)
                 /\ <<"ACK_LOBBY_INFO", result>> # EnterDone
  /\ \A rooms : /\ Plain(<<"NOTIFY_LOBBY_INFO", rooms>>)
                /\ <<"NOTIFY_LOBBY_INFO", rooms>> # EnterDone
  /\ \A result : /\ Plain(<<"ACK_ROOM_CHAT", result>>)
                 /\ <<"ACK_ROOM_CHAT", result>> # EnterDone
  /\ \A i : /\ Plain(<<"NOTIFY_ROOM_CHAT", i>>)
            /\ <<"NOTIFY_ROOM_CHAT", i>> # EnterDone
  /\ Plain(<<"ACK_ROOM_LEAVE", "ROOM_INVALID_INDEX">>)
  /\ <<"ACK_ROOM_LEAVE", "ROOM_INVALID_INDEX">> # EnterDone
  /\ \A result : result # "ENTER_ROOM_SUCCESS" => <<"ACK_ROOM_ENTER", result>> # EnterDone
BY DEF Plain, EnterDone, LeaveDone

\* The log-in, the lobby and the chat.
LEMMA PlainTick ==
  ASSUME SysIInv, ShowInv, NEW s \in Slot,
         \/ \E result \in {"LOGIN_SUCCESS", "LOGIN_USER_ALREADY", "LOGIN_USER_INVALID_PW"} :
               AckLogin(s, result)
         \/ AckLobbyInfo(s)
         \/ NotifyLobbyInfo(s, Room)
         \/ \E result \in {"ROOM_FULL", "ROOM_INVALID_INDEX"} : AckRoomEnter(s, result)
         \/ RoomChat(s)
  PROVE  ShowInv'
<1>1. ASSUME NEW result, AckLogin(s, result) PROVE ShowInv'
  <2> DEFINE pkt == <<"ACK_LOGIN", result>>
  <2>1. Plain(pkt) /\ pkt # EnterDone
    BY PlainKinds
  <2>2. Tick(s, pkt) /\ UNCHANGED <<UserList, ChatSend, early>>
    BY <1>1 DEF AckLogin
  <2>3. toServer' = toServer \/ PostSendPacket(s, Req("LOBBY_INFO", NoArg))
    BY <1>1 DEF AckLogin
  <2> QED BY <2>1, <2>2, <2>3, PlainTakes, TakesShow
<1>2. CASE AckLobbyInfo(s)
  <2> DEFINE pkt == <<"ACK_LOBBY_INFO", "LOBBY_INFO_SUCCESS">>
  <2>1. Plain(pkt) /\ pkt # EnterDone
    BY PlainKinds
  <2>2. Tick(s, pkt) /\ UNCHANGED <<UserList, ChatSend, early, toServer>>
    BY <1>2 DEF AckLobbyInfo
  <2> QED BY <2>1, <2>2, PlainTakes, TakesShow
<1>3. CASE NotifyLobbyInfo(s, Room)
  <2> DEFINE pkt == <<"NOTIFY_LOBBY_INFO", Room>>
  <2>1. Plain(pkt) /\ pkt # EnterDone
    BY PlainKinds
  <2>2. Tick(s, pkt) /\ UNCHANGED <<UserList, ChatSend, early, toServer>>
    BY <1>3 DEF NotifyLobbyInfo, buttonVars
  <2> QED BY <2>1, <2>2, PlainTakes, TakesShow
<1>4. ASSUME NEW result \in {"ROOM_FULL", "ROOM_INVALID_INDEX"}, AckRoomEnter(s, result)
      PROVE  ShowInv'
  <2> DEFINE pkt == <<"ACK_ROOM_ENTER", result>>
  <2>1. Plain(pkt) /\ pkt # EnterDone
    BY PlainKinds
  <2>2. Tick(s, pkt) /\ UNCHANGED <<UserList, ChatSend, early, toServer>>
    BY <1>4 DEF AckRoomEnter
  <2> QED BY <2>1, <2>2, PlainTakes, TakesShow
<1>5. CASE RoomChat(s)
  <2>1. PICK pkt \in {<<"ACK_ROOM_CHAT", "CHAT_ROOM_SUCCESS">>} \cup {ChatFrom(i) : i \in Id} :
          Tick(s, pkt)
    BY <1>5 DEF RoomChat
  <2>2. Plain(pkt) /\ pkt # EnterDone
    BY PlainKinds DEF ChatFrom
  <2>3. UNCHANGED <<UserList, ChatSend, early, toServer>>
    BY <1>5 DEF RoomChat, formVars, buttonVars
  <2> QED BY <2>1, <2>2, <2>3, PlainTakes, TakesShow
<1> QED BY <1>1, <1>2, <1>3, <1>4, <1>5

\* The enter that succeeded: the form asks for the list.
LEMMA EnterTick ==
  ASSUME SysIInv, ShowInv, NEW s \in Slot, AckRoomEnter(s, "ENTER_ROOM_SUCCESS")
  PROVE  ShowInv'
<1> DEFINE req == Req("ROOM_INFO", NoArg)
<1>1. req \in Sendable /\ req.id = "ROOM_INFO" /\ PostSendPacket(s, req)
  BY Forms DEF AckRoomEnter
<1>2. Tick(s, EnterDone) /\ UNCHANGED <<UserList, ChatSend, early>>
  BY DEF AckRoomEnter, EnterDone
<1> HIDE DEF req
<1>3. /\ \A t \in Slot : t # s => toServer'[t] = toServer[t]
      /\ sock[s] = "open" => toServer'[s] = Append(toServer[s], req)
      /\ toServer[s] \in Seq(Sendable)
  BY <1>1, Posted DEF SysIInv, WireTypeInv
<1>4. sock[s] = "open" => Asked(toServer'[s])
  BY <1>1, <1>3, AskedMore
<1>5. Plain(EnterDone)
  BY PlainKinds DEF EnterDone
<1>6. \A i \in Id : UserList'[s][i] = After(EnterDone, i, UserList[s][i])
  BY <1>2, <1>5, AfterPlain DEF SysIInv, FormTypeInv
<1>7. Takes(s, EnterDone)
  BY <1>2, <1>3, <1>4, <1>5, <1>6 DEF Takes, Plain
<1> QED BY <1>2, <1>7, TakesShow

\* The list of the room, and what others do.
LEMMA ListTick ==
  ASSUME SysIInv, ShowInv, NEW s \in Slot,
         \/ \E ids \in SUBSET Id : AckRoomInfo(s, ids)
         \/ \E id \in Id : NotifyRoomInfo(s, id) \/ NotifyRoomLeave(s, id)
  PROVE  ShowInv'
<1>0. \A i \in Id : UserList[s][i] \in Nat
  BY DEF SysIInv, FormTypeInv
<1>1. ASSUME NEW ids \in SUBSET Id, AckRoomInfo(s, ids) PROVE ShowInv'
  <2> DEFINE pkt == <<"ACK_ROOM_INFO", ids>>
  <2>1. Tick(s, pkt) /\ toServer' = toServer /\ early' = early
    BY <1>1 DEF AckRoomInfo
  <2>2. pkt[1] = "ACK_ROOM_INFO" /\ pkt # EnterDone /\ pkt # LeaveDone
    BY DEF EnterDone, LeaveDone
  <2>3. \A i \in Id : UserList'[s][i] = After(pkt, i, UserList[s][i])
    <3>1. \A i \in Id : UserList'[s][i] = UserList[s][i] + (IF i \in ids THEN 1 ELSE 0)
      BY <1>1 DEF AckRoomInfo, SysIInv, FormTypeInv
    <3>2. ASSUME NEW i \in Id
          PROVE  After(pkt, i, UserList[s][i]) = IF i \in ids THEN UserList[s][i] + 1
                                                             ELSE UserList[s][i]
      BY <1>0, <2>2 DEF After
    <3> HIDE DEF pkt
    <3> QED BY <1>0, <3>1, <3>2
  <2>4. \A t \in Slot : t # s => UserList'[t] = UserList[t] /\ ChatSend'[t] = ChatSend[t]
    BY <1>1 DEF AckRoomInfo, Enable, SysIInv, FormTypeInv
  <2> HIDE DEF pkt
  <2>5. Takes(s, pkt)
    BY <2>1, <2>2, <2>3, <2>4 DEF Takes
  <2> QED BY <2>1, <2>5, TakesShow
<1>2. ASSUME NEW id \in Id, NotifyRoomInfo(s, id) PROVE ShowInv'
  <2> DEFINE pkt == <<"NOTIFY_ROOM_INFO", id>>
  <2>1. Tick(s, pkt) /\ toServer' = toServer /\ ChatSend' = ChatSend
    BY <1>2 DEF NotifyRoomInfo, buttonVars
  <2>2. pkt[1] = "NOTIFY_ROOM_INFO" /\ pkt # EnterDone /\ pkt # LeaveDone
    BY DEF EnterDone, LeaveDone
  <2>3. \A i \in Id : UserList'[s][i] = After(pkt, i, UserList[s][i])
    <3>1. \A i \in Id : UserList'[s][i] = IF i = id THEN UserList[s][i] + 1 ELSE UserList[s][i]
      BY <1>2 DEF NotifyRoomInfo, SysIInv, FormTypeInv
    <3>2. ASSUME NEW i \in Id
          PROVE  After(pkt, i, UserList[s][i]) = IF id = i THEN UserList[s][i] + 1
                                                          ELSE UserList[s][i]
      BY <1>0, <2>2 DEF After
    <3> HIDE DEF pkt
    <3> QED BY <3>1, <3>2
  <2>4. \A t \in Slot : /\ t # s => UserList'[t] = UserList[t]
                        /\ t \in early => t \in early'
    BY <1>2 DEF NotifyRoomInfo, SysIInv, FormTypeInv
  <2>5. ~ChatSend[s] => s \in early'
    BY <1>2 DEF NotifyRoomInfo, SysIInv, FormTypeInv
  <2> HIDE DEF pkt
  <2>6. Takes(s, pkt)
    BY <2>1, <2>2, <2>3, <2>4, <2>5 DEF Takes
  <2> QED BY <2>1, <2>6, TakesShow
<1>3. ASSUME NEW id \in Id, NotifyRoomLeave(s, id) PROVE ShowInv'
  <2> DEFINE pkt == <<"NOTIFY_ROOM_LEAVE", id>>
  <2>1. Tick(s, pkt) /\ toServer' = toServer /\ ChatSend' = ChatSend /\ early' = early
    BY <1>3 DEF NotifyRoomLeave, buttonVars
  <2>2. pkt[1] = "NOTIFY_ROOM_LEAVE" /\ pkt # EnterDone /\ pkt # LeaveDone
    BY DEF EnterDone, LeaveDone
  <2>3. \A i \in Id : UserList'[s][i] = After(pkt, i, UserList[s][i])
    <3>1. \A i \in Id : UserList'[s][i] = IF i = id /\ UserList[s][i] # 0
                                          THEN UserList[s][i] - 1 ELSE UserList[s][i]
      BY <1>3 DEF NotifyRoomLeave, SysIInv, FormTypeInv
    <3>2. ASSUME NEW i \in Id
          PROVE  After(pkt, i, UserList[s][i]) = IF id = i /\ UserList[s][i] > 0
                                                 THEN UserList[s][i] - 1 ELSE UserList[s][i]
      BY <1>0, <2>2 DEF After
    <3> HIDE DEF pkt
    <3> QED BY <1>0, <3>1, <3>2
  <2>4. \A t \in Slot : t # s => UserList'[t] = UserList[t]
    BY <1>3 DEF NotifyRoomLeave, SysIInv, FormTypeInv
  <2> HIDE DEF pkt
  <2>5. Takes(s, pkt)
    BY <2>1, <2>2, <2>3, <2>4 DEF Takes
  <2> QED BY <2>1, <2>5, TakesShow
<1> QED BY <1>1, <1>2, <1>3

\* The leave that was answered: the form clears the list.
LEMMA LeaveTick ==
  ASSUME SysIInv, ShowInv, NEW s \in Slot, AckRoomLeave(s, "LEAVE_ROOM_SUCCESS")
  PROVE  ShowInv'
<1> DEFINE req == Req("LOBBY_INFO", NoArg)
<1>1. req \in Sendable /\ req.id = "LOBBY_INFO" /\ PostSendPacket(s, req)
  BY Forms DEF AckRoomLeave
<1>2. Tick(s, LeaveDone) /\ early' = early \ {s}
  BY DEF AckRoomLeave, LeaveDone
<1> HIDE DEF req
<1>3. /\ \A t \in Slot : t # s => toServer'[t] = toServer[t]
      /\ sock[s] = "open" => toServer'[s] = Append(toServer[s], req)
      /\ toServer[s] \in Seq(Sendable)
  BY <1>1, Posted DEF SysIInv, WireTypeInv
<1>4. sock[s] = "open" => (Asked(toServer'[s]) <=> Asked(toServer[s]))
  <2>1. Asked(Append(toServer[s], req)) <=> Asked(toServer[s])
    BY <1>1, <1>3, AskedMore
  <2> QED BY <1>3, <2>1
<1>5. LeaveDone # EnterDone /\ LeaveDone[1] = "ACK_ROOM_LEAVE"
  BY DEF LeaveDone, EnterDone
<1>6. \A i \in Id : UserList'[s][i] = After(LeaveDone, i, UserList[s][i])
  <2>1. \A i \in Id : UserList'[s][i] = 0 /\ UserList[s][i] \in Nat
    BY DEF AckRoomLeave, SysIInv, FormTypeInv
  <2> QED BY <2>1 DEF After, LeaveDone
<1>7. \A t \in Slot : t # s => UserList'[t] = UserList[t] /\ ChatSend'[t] = ChatSend[t]
  BY DEF AckRoomLeave, Disable, SysIInv, FormTypeInv
<1>8. Takes(s, LeaveDone)
  BY <1>2, <1>3, <1>4, <1>5, <1>6, <1>7 DEF Takes
<1> QED BY <1>2, <1>8, TakesShow

\* Every step of a form.
LEMMA FormPart ==
  ASSUME SysIInv, ShowInv, NEW s \in Slot, User_Click(s) \/ PacketProcess(s) \/ Drop(s)
  PROVE  ShowInv'
<1>1. CASE ConnectBtn_Click(s)
  BY <1>1, ConnectShow
<1>2. ASSUME NEW button, Click(s, button), NEW req \in Sendable, PostSendPacket(s, req),
             req.id # "ROOM_INFO", ChatSend' = ChatSend
      PROVE  ShowInv'
  BY <1>2, ClickShow
<1>3. CASE LoginBtn_Click(s)
  <2>1. PICK id \in Id, pw \in Pw : PostSendPacket(s, Req("LOGIN", <<id, pw>>))
    BY <1>3 DEF LoginBtn_Click
  <2> QED BY <1>2, <1>3, <2>1, Forms DEF LoginBtn_Click, buttonVars
<1>4. CASE RoomEnterBtn_Click(s)
  <2>1. PICK n \in LobbyRoomList[s] \cup {NoRoom} : PostSendPacket(s, Req("ROOM_ENTER", n))
    BY <1>4 DEF RoomEnterBtn_Click
  <2>2. n \in RoomNumber
    BY ChatAssumption DEF SysIInv, FormTypeInv
  <2> QED BY <1>2, <1>4, <2>1, <2>2, Forms DEF RoomEnterBtn_Click, buttonVars
<1>5. CASE RoomListRefreshBtn_Click(s)
  BY <1>2, <1>5, Forms DEF RoomListRefreshBtn_Click
<1>6. CASE ChatSend_Click(s) \/ RoomExit_Click(s)
  BY <1>2, <1>6, Forms DEF ChatSend_Click, RoomExit_Click, buttonVars
<1>7. CASE PacketProcess(s)
  BY <1>7, PlainTick, EnterTick, ListTick, LeaveTick DEF PacketProcess
<1> QED BY <1>1, <1>3, <1>4, <1>5, <1>6, <1>7, DropShow DEF User_Click

----------------------------------------------------------------------------
(* Steps of the server: where the clients are.                             *)

\* A user whom nothing moves stays in its place.
LEMMA PlaceKeeps ==
  ASSUME NEW t \in Slot, Placed(t), mUserID'[t] = mUserID[t], view'[t] = view[t],
         mUserIDDictionary'[mUserID[t]] = mUserIDDictionary[mUserID[t]],
         \A r \in Room : mUserList'[r][t] = mUserList[r][t]
  PROVE  Placed(t)'
BY DEF Placed, Proper

\* A connect concerns nobody who is logged in; a disconnect erases an entry of
\* the directory, which is that of the user it is for.
LEMMA SystemPlace ==
  ASSUME SysIInv, PlaceInv, Sound, NEW s \in Slot, ServeSystem(s)
  PROVE  PlaceInv'
<1>1. SUFFICES ASSUME NEW t \in Slot, In(t)' PROVE Placed(t)'
  BY DEF PlaceInv
<1>2. CASE ProcessUserConnect(s)
  <2>1. t # s /\ In(t)
    BY <1>1, <1>2 DEF ProcessUserConnect, Clear, In, Live, SysIInv, IInv, TypeOK
  <2>2. /\ mUserID'[t] = mUserID[t] /\ view' = view /\ mUserList' = mUserList
        /\ mUserIDDictionary' = mUserIDDictionary
    BY <1>2, <2>1 DEF ProcessUserConnect, Clear, SysIInv, IInv, TypeOK
  <2> QED BY <2>1, <2>2, PlaceKeeps DEF PlaceInv
<1>3. CASE ProcessUserDisConnect(s) /\ sock[s] = "closed"
  <2>1. t # s /\ In(t)
    BY <1>1, <1>3 DEF ProcessUserDisConnect, Clear, In, Live, SysIInv, IInv, TypeOK
  <2>2. /\ mUserID'[t] = mUserID[t] /\ view'[t] = view[t] /\ mUserList' = mUserList
        /\ mUserIDDictionary' = [mUserIDDictionary EXCEPT ![mUserID[s]] = NoSlot]
    BY <1>3, <2>1 DEF ProcessUserDisConnect, Clear, SysIInv, IInv, TypeOK
  <2>3. Placed(t) /\ mUserID[t] \in Id /\ mUserID[t] # NoId
    <3>1. Proper
      BY <1>3 DEF Sound, Calm
    <3> QED BY <2>1, <3>1 DEF PlaceInv, Placed, SysIInv, IInv, TypeOK
  <2>4. mUserID[s] # mUserID[t]
    BY <2>1, <2>3 DEF SysIInv, IInv, LoginExclusive
  <2>5. mUserIDDictionary'[mUserID[t]] = mUserIDDictionary[mUserID[t]]
    BY <2>2, <2>3, <2>4 DEF SysIInv, IInv, TypeOK
  <2> QED BY <2>2, <2>3, <2>5, PlaceKeeps
<1>4. CASE IgnoredDisConnect(s)
  <2>1. /\ In(t) /\ mUserID' = mUserID /\ view' = view /\ mUserList' = mUserList
        /\ mUserIDDictionary' = mUserIDDictionary
    BY <1>1, <1>4 DEF IgnoredDisConnect, In, Live
  <2> QED BY <2>1, PlaceKeeps DEF PlaceInv
<1> QED BY <1>2, <1>3, <1>4 DEF ServeSystem

\* A log-in that succeeds finds no entry under its id, and makes one; the user
\* is in no room.  An account under the id is what it takes.
LEMMA LoginPlace ==
  ASSUME SysIInv, PlaceInv, Proper => accounts[NoId] = NoPw,
         NEW s \in Slot, NEW id \in Id, NEW pw \in Pw, ProcessLogin(s, id, pw)
  PROVE  PlaceInv'
<1>1. SUFFICES ASSUME NEW t \in Slot, In(t)' PROVE Placed(t)'
  BY DEF PlaceInv
<1>2. mState[s] = "Connected" /\ Live(s)
  BY AcceptsState DEF SysIInv, IInv, ProcessLogin
<1>3. view' = view /\ mUserList' = mUserList
  BY DEF ProcessLogin
<1>4. CASE LoginUnchanged
  BY <1>1, <1>3, <1>4, PlaceKeeps DEF LoginUnchanged, PlaceInv, In, Live
<1>5. CASE LoginSuccess(s, id, pw)
  <2>1. /\ mUserIDDictionary[id] = NoSlot /\ accounts[id] # NoPw
        /\ mUserIDDictionary' = [mUserIDDictionary EXCEPT ![id] = s]
        /\ mUserID' = [mUserID EXCEPT ![s] = id]
        /\ mState' = [mState EXCEPT ![s] = "InLobby"]
        /\ handlers' = [handlers EXCEPT ![s] = Handlers("InLobby")]
    BY <1>5 DEF LoginSuccess, AddUser, ChangeState, SelectAccount
  <2>2. CASE t = s
    <3>1. mUserID'[s] = id /\ mUserIDDictionary'[id] = s
      BY <2>1 DEF SysIInv, IInv, TypeOK
    <3>2. Proper => id # NoId
      BY <2>1
    <3>3. \A r \in Room : view[s] # r /\ mUserList[r][s] = 0
      BY <1>2, ChatAssumption DEF SysIInv, IInv, TypeOK, SlotInv, OneRoom
    <3> QED BY <1>3, <2>2, <3>1, <3>2, <3>3 DEF Placed, Proper
  <2>3. CASE t # s
    <3>1. In(t) /\ mUserID'[t] = mUserID[t]
      BY <1>1, <2>1, <2>3 DEF In, Live, SysIInv, IInv, TypeOK
    <3>2. Placed(t) /\ mUserID[t] # id
      BY <2>1, <3>1, ChatAssumption DEF PlaceInv, Placed
    <3>3. mUserIDDictionary'[mUserID[t]] = mUserIDDictionary[mUserID[t]]
      BY <2>1, <3>2 DEF SysIInv, IInv, TypeOK
    <3> QED BY <1>3, <3>1, <3>2, <3>3, PlaceKeeps
  <2> QED BY <2>2, <2>3
<1> QED BY <1>4, <1>5 DEF ProcessLogin, LoginAlready, LoginRefused

\* An enter puts the user in the list of the room it is told, or neither.
LEMMA EnterPlace ==
  ASSUME SysIInv, PlaceInv, NEW s \in Slot, NEW n \in RoomNumber, ProcessEnterRoom(s, n)
  PROVE  PlaceInv'
<1>1. SUFFICES ASSUME NEW t \in Slot, In(t)' PROVE Placed(t)'
  BY DEF PlaceInv
<1>2. mState[s] = "InLobby" /\ Live(s)
  BY AcceptsState DEF SysIInv, IInv, ProcessEnterRoom
<1>3. /\ mUserID' = mUserID /\ mUserIDDictionary' = mUserIDDictionary
      /\ In(t)
  BY <1>1, <1>2 DEF ProcessEnterRoom, ChangeState, In, Live, SysIInv, IInv, TypeOK
<1>4. CASE EnterRefused(s, n)
  BY <1>3, <1>4, PlaceKeeps DEF EnterRefused, PlaceInv
<1>5. CASE EnterUser(s, n)
  <2>1. n \in Room /\ mUserList' = [mUserList EXCEPT ![n][s] = @ + 1]
        /\ view' = [view EXCEPT ![s] = n]
    BY <1>5 DEF EnterUser, EnterResult
  <2>2. CASE t # s
    <3>1. view'[t] = view[t] /\ \A r \in Room : mUserList'[r][t] = mUserList[r][t]
      BY <2>1, <2>2 DEF SysIInv, IInv, TypeOK
    <3> QED BY <1>3, <3>1, PlaceKeeps DEF PlaceInv
  <2>3. CASE t = s
    <3>1. \A r \in Room : mUserList[r][s] = 0
      BY <1>2 DEF SysIInv, IInv, TypeOK, OneRoom
    <3>2. view'[s] = n /\ \A r \in Room : mUserList'[r][s] = IF r = n THEN 1 ELSE 0
      BY <2>1, <3>1 DEF SysIInv, IInv, TypeOK
    <3> QED BY <1>3, <2>3, <3>2 DEF PlaceInv, Placed, Proper
  <2> QED BY <2>2, <2>3
<1> QED BY <1>4, <1>5 DEF ProcessEnterRoom

\* A leave takes the user, and nobody else who is logged in, off the list.
LEMMA LeavePlace ==
  ASSUME SysIInv, PlaceInv, NEW s \in Slot, ProcessLeaveRoom(s)
  PROVE  PlaceInv'
<1>1. SUFFICES ASSUME NEW t \in Slot, In(t)' PROVE Placed(t)'
  BY DEF PlaceInv
<1> DEFINE r == mRoomIndex[s]
<1>2. mState[s] = "InRoom" /\ Live(s)
  BY AcceptsState DEF SysIInv, IInv, ProcessLeaveRoom
<1>3. /\ mUserID' = mUserID /\ mUserIDDictionary' = mUserIDDictionary
      /\ In(t)
  BY <1>1, <1>2 DEF ProcessLeaveRoom, ChangeState, In, Live, SysIInv, IInv, TypeOK
<1>4. CASE LeaveNoRoom(s, r)
  BY <1>3, <1>4, PlaceKeeps DEF LeaveNoRoom, PlaceInv
<1>5. CASE LeaveUser(s, r)
  <2>1. /\ r \in Room /\ view' = [view EXCEPT ![s] = NoRoom]
        /\ \A u \in Slot : mUserList'[r][u] = IF mUserID[u] = mUserID[s] THEN 0 ELSE mUserList[r][u]
        /\ \A q \in Room : q # r => mUserList'[q] = mUserList[q]
    BY <1>5 DEF LeaveUser, LeaveKeeping, SysIInv, IInv, TypeOK
  <2> HIDE DEF r
  <2>2. CASE t # s
    <3>1. mUserID[t] # mUserID[s]
      BY <1>2, <1>3, <2>2, Alike DEF In
    <3>2. view'[t] = view[t] /\ \A q \in Room : mUserList'[q][t] = mUserList[q][t]
      BY <2>1, <2>2, <3>1 DEF SysIInv, IInv, TypeOK
    <3> QED BY <1>3, <3>2, PlaceKeeps DEF PlaceInv
  <2>3. CASE t = s
    <3>1. \A q \in Room : q # r => mUserList[q][s] = 0
      BY <1>2 DEF SysIInv, IInv, TypeOK, OneRoom, r
    <3>2. \A q \in Room : view'[s] # q /\ mUserList'[q][s] = 0
      BY <2>1, <3>1, ChatAssumption DEF SysIInv, IInv, TypeOK
    <3> QED BY <1>3, <2>3, <3>2 DEF PlaceInv, Placed, Proper
  <2> QED BY <2>2, <2>3
<1> QED BY <1>4, <1>5 DEF ProcessLeaveRoom

\* Every request.
LEMMA ServePlace ==
  ASSUME SysIInv, PlaceInv, Proper => accounts[NoId] = NoPw,
         NEW s \in Slot, NEW req \in Sendable, ServeRequest(s, req)
  PROVE  PlaceInv' /\ accounts' = accounts
<1>1. CASE req.id = "LOGIN" /\ ProcessLogin(s, req.arg[1], req.arg[2])
  <2>1. accounts' = accounts
    BY <1>1 DEF ProcessLogin, LoginAlready, LoginSuccess, LoginRefused, SelectAccount, dbVars
  <2> QED BY <1>1, <2>1, LoginPlace, Requests
<1>2. CASE req.id = "ROOM_ENTER" /\ ProcessEnterRoom(s, req.arg)
  BY <1>2, EnterPlace, Requests DEF ProcessEnterRoom, dbVars
<1>3. CASE ProcessLeaveRoom(s)
  BY <1>3, LeavePlace DEF ProcessLeaveRoom, dbVars
<1>4. CASE \/ IgnoredRequest(s, req.id) \/ ProcessLobbyInfo(s) \/ ProcessRoomInfo(s)
           \/ ProcessRoomChatMessage(s)
  <2>1. /\ mState' = mState /\ handlers' = handlers /\ mUserID' = mUserID /\ view' = view
        /\ mUserList' = mUserList /\ mUserIDDictionary' = mUserIDDictionary
        /\ accounts' = accounts
    BY <1>4 DEF IgnoredRequest, ProcessLobbyInfo, ProcessRoomInfo, ProcessRoomChatMessage,
                ChatThen, dbVars
  <2> QED BY <2>1 DEF PlaceInv, Placed, Proper, In, Live
<1> QED BY <1>1, <1>2, <1>3, <1>4 DEF ServeRequest

----------------------------------------------------------------------------
(* Steps of the server: what comes of the lists.                           *)

\* Packets that leave the list alone and make the form ask for nothing.
Chatter == {p \in Packet : Plain(p) /\ p # EnterDone}

\* They leave every count as it is.
LEMMA Chatters ==
  ASSUME NEW d \in Seq(Chatter)
  PROVE  /\ d \in Seq(Packet) /\ ~Admitted(d)
         /\ \A i : \A n \in Nat : Ends(d, i, n, n)
<1>1. \A k \in 1..Len(d) : d[k] \in Chatter
  OBVIOUS
<1>2. d \in Seq(Packet) /\ ~Admitted(d)
  BY <1>1 DEF Chatter, Admitted
<1>3. \A k \in 1..Len(d) : Plain(d[k])
  BY <1>1 DEF Chatter
<1> QED BY <1>2, <1>3, EndsPlain

\* What a step of the server leaves alone.
Serving == Deliver /\ UNCHANGED <<sock, UserList, ChatSend, early>>

\* What is left to show of a client that is sent packets: what comes of them.
LEMMA Heard ==
  ASSUME SysIInv, ShowInv, Serving, NEW t \in Slot,
         sock[t] = "open" /\ Asking(t)' => view'[t] # NoRoom,
         sock[t] = "open" /\ Sound => \A i \in Id : \A n \in Nat : Final(t, i, n) =>
            \E m \in Nat : Ends(out'[t], i, n, m) /\ Final(t, i, m)',
         sock[t] = "open" => out'[t] \in Seq(Packet),
         sock[t] = "none" => view'[t] = view[t] /\ toServer'[t] = toServer[t]
  PROVE  ListInv(t)'
<1>1. /\ sock' = sock /\ (Calm' <=> Calm) /\ (Sound' <=> Sound)
      /\ UserList' = UserList /\ ChatSend' = ChatSend /\ early' = early
  BY DEF Serving, Calm, Sound, Proper
<1>2. toClient'[t] = IF sock[t] = "open" THEN toClient[t] \o out'[t] ELSE toClient[t]
  BY DEF Serving, Deliver
<1>3. CASE sock[t] = "open"
  <2>1. ASSUME Sound', NEW i \in Id PROVE Counted(t, i)'
    <3>1. PICK n \in Nat : Ends(toClient[t], i, UserList[t][i], n) /\ Final(t, i, n)
      BY <1>1, <1>3, <2>1 DEF ShowInv, ListInv, Counted
    <3>2. PICK m \in Nat : Ends(out'[t], i, n, m) /\ Final(t, i, m)'
      BY <1>1, <1>3, <2>1, <3>1
    <3>3. toClient[t] \in Seq(Packet) /\ out'[t] \in Seq(Packet)
      BY <1>3 DEF SysIInv, WireTypeInv
    <3>4. Ends(toClient[t] \o out'[t], i, UserList[t][i], m)
      BY <3>1, <3>2, <3>3, EndsMore
    <3> QED BY <1>1, <1>2, <1>3, <3>2, <3>4 DEF Counted
  <2> QED BY <1>3, <2>1 DEF ListInv
<1>4. CASE sock[t] = "none"
  <2>0. view[t] = NoRoom
    BY <1>4 DEF SysIInv, SessionInv, Before, IInv, SlotInv
  <2>1. (Asking(t)' <=> Asking(t)) /\ (WillBeEarly(t) => WillBeEarly(t)')
    BY <1>1, <1>2, <1>4 DEF Asking, WillBeEarly
  <2>2. ASSUME Sound', NEW i \in Id PROVE Counted(t, i)'
    <3>1. PICK n \in Nat : Ends(toClient[t], i, UserList[t][i], n) /\ Final(t, i, n)
      BY <1>1, <1>4, <2>2 DEF ShowInv, ListInv, Counted
    <3>2. Final(t, i, n)'
      <4>1. i \notin Companions(t) /\ (i \notin Companions(t))'
        BY <1>4, <2>0 DEF Companions
      <4> QED BY <1>1, <1>4, <2>1, <3>1, <4>1, FinalKeeps
    <3> QED BY <1>1, <1>2, <1>4, <3>1, <3>2 DEF Counted
  <2> QED BY <1>1, <1>4, <2>1, <2>2 DEF ShowInv, ListInv
<1>5. CASE sock[t] = "closed"
  BY <1>1, <1>5 DEF ListInv
<1> QED BY <1>3, <1>4, <1>5 DEF SysIInv, FormTypeInv

\* What was early stays so, whatever is sent.
LEMMA EarlyStays ==
  ASSUME SysIInv, Serving, NEW t \in Slot, sock[t] = "open", out'[t] \in Seq(Packet)
  PROVE  /\ WillBeEarly(t) => WillBeEarly(t)'
         /\ toClient'[t] = toClient[t] \o out'[t]
         /\ Asking(t)' <=> \/ Asked(toServer'[t])
                           \/ Admitted(toClient[t]) \/ Admitted(out'[t])
<1>1. toClient'[t] = toClient[t] \o out'[t] /\ toClient[t] \in Seq(Packet)
  BY DEF Serving, Deliver, SysIInv, WireTypeInv
<1>2. /\ Admitted(toClient[t] \o out'[t]) <=> Admitted(toClient[t]) \/ Admitted(out'[t])
      /\ Arrival(toClient[t]) => Arrival(toClient[t] \o out'[t])
  BY <1>1, WayMore
<1>3. ChatSend' = ChatSend /\ early' = early
  BY DEF Serving
<1> QED BY <1>1, <1>2, <1>3 DEF Asking, WillBeEarly

\* A client nothing happens to, but for packets that leave its list alone.
LEMMA Unmoved ==
  ASSUME SysIInv, ShowInv, Serving, NEW t \in Slot,
         view'[t] = view[t], Companions(t)' = Companions(t),
         sock[t] = "none" => toServer'[t] = toServer[t],
         sock[t] = "open" => (Asked(toServer'[t]) <=> Asked(toServer[t])),
         out'[t] \in Seq(Chatter)
  PROVE  ListInv(t)'
<1>1. out'[t] \in Seq(Packet) /\ ~Admitted(out'[t])
  BY Chatters
<1>2. Calm' <=> Calm
  BY DEF Serving, Calm
<1>3. ASSUME sock[t] = "open"
      PROVE  (Asking(t)' <=> Asking(t)) /\ (WillBeEarly(t) => WillBeEarly(t)')
  BY <1>1, <1>3, EarlyStays DEF Asking
<1>4. ASSUME sock[t] = "open", NEW i \in Id, NEW n \in Nat, Final(t, i, n)
      PROVE  \E m \in Nat : Ends(out'[t], i, n, m) /\ Final(t, i, m)'
  <2>1. Ends(out'[t], i, n, n)
    BY Chatters
  <2>2. Final(t, i, n)'
    BY <1>2, <1>3, <1>4, FinalKeeps
  <2> QED BY <2>1, <2>2
<1>5. sock[t] = "open" /\ Asking(t)' => view'[t] # NoRoom
  BY <1>3 DEF ShowInv, ListInv
<1> QED BY <1>1, <1>4, <1>5, Heard

\* The same company: no list changes, and no id of one who is in a list.
LEMMA SameCompany ==
  ASSUME SysIInv, sock' = sock, mUserList' = mUserList, NEW t \in Slot, view'[t] = view[t],
         \A u \in Slot : sock[u] = "open" /\ mUserID'[u] # mUserID[u] =>
            \A r \in Room : mUserList[r][u] = 0
  PROVE  Companions(t)' = Companions(t)
<1>1. view[t] \in Room \cup {NoRoom}
  BY DEF SysIInv, IInv, TypeOK
<1>2. CASE view[t] = NoRoom
  BY <1>2 DEF Companions
<1>3. CASE view[t] \in Room
  <2> DEFINE in == {u \in Members(view[t]) : sock[u] = "open"}
  <2>1. in' = in
    BY DEF Members
  <2>2. \A u \in in : mUserID'[u] = mUserID[u]
    BY <1>3 DEF Members
  <2>3. {mUserID'[u] : u \in in} = {mUserID[u] : u \in in}
    BY <2>2
  <2>4. view[t] # NoRoom
    BY <1>3, ChatAssumption
  <2>5. Companions(t) = {mUserID[u] : u \in in}
    BY <2>4 DEF Companions
  <2>6. Companions(t)' = {mUserID'[u] : u \in in}
    BY <2>1, <2>4 DEF Companions
  <2> QED BY <2>3, <2>5, <2>6
<1> QED BY <1>1, <1>2, <1>3

\* The connects and the disconnects.
LEMMA SystemShow ==
  ASSUME SysIInv, ShowInv, NEW s \in Slot, ServeSystem(s)
  PROVE  ShowInv'
<1>1. /\ Serving /\ toServer' = toServer /\ mUserList' = mUserList /\ accounts' = accounts
      /\ out' = Quiet /\ sock' = sock
  BY DEF ServeSystem, Serving, ProcessUserConnect, ProcessUserDisConnect, IgnoredDisConnect,
         formVars, buttonVars, dbVars
<1>2. Sound' <=> Sound
  BY <1>1 DEF Sound, Calm, Proper
<1>3. \/ sock[s] = "closed"
      \/ view' = view /\ mUserID' = mUserID
  <2>1. CASE ProcessUserConnect(s)
    <3>1. mUserID[s] = NoId /\ mUserID' = [mUserID EXCEPT ![s] = NoId] /\ view' = view
      BY <2>1 DEF ProcessUserConnect, Clear, SysIInv, IInv, SlotInv
    <3> QED BY <3>1 DEF SysIInv, IInv, TypeOK
  <2>2. CASE IgnoredDisConnect(s)
    BY <2>2 DEF IgnoredDisConnect
  <2> QED BY <2>1, <2>2 DEF ServeSystem
<1>4. \A t \in Slot : t # s => view'[t] = view[t] /\ mUserID'[t] = mUserID[t]
  BY DEF ServeSystem, ProcessUserConnect, ProcessUserDisConnect, IgnoredDisConnect, Clear,
         SysIInv, IInv, TypeOK
<1>5. ASSUME NEW t \in Slot, view'[t] = view[t] PROVE ListInv(t)'
  <2>1. Companions(t)' = Companions(t)
    BY <1>1, <1>3, <1>4, <1>5, SameCompany
  <2>2. out'[t] \in Seq(Chatter)
    BY <1>1 DEF Quiet
  <2> QED BY <1>1, <1>5, <2>1, <2>2, Unmoved
<1>6. sock[s] = "closed" => ListInv(s)'
  BY <1>1 DEF ListInv
<1>7. \A t \in Slot : ListInv(t)'
  BY <1>3, <1>4, <1>5, <1>6
<1>8. Sound' => PlaceInv'
  BY <1>2, SystemPlace DEF ShowInv
<1> QED BY <1>1, <1>7, <1>8 DEF ShowInv, Proper

\* The server takes the first request of s.
LEMMA ServeTakes ==
  ASSUME SysIInv, NEW s \in Slot, Serve(s)
  PROVE  /\ Serving /\ sock' = sock /\ sock[s] # "none"
         /\ (Calm' <=> Calm) /\ (Sound' <=> Sound)
         /\ \A t \in Slot : t # s => toServer'[t] = toServer[t]
         /\ \A t \in Slot : Asked(toServer'[t]) => Asked(toServer[t])
         /\ Head(toServer[s]).id # "ROOM_INFO" =>
               \A t \in Slot : Asked(toServer'[t]) <=> Asked(toServer[t])
<1>1. Serving /\ sock' = sock
  BY DEF Serve, Serving, formVars, buttonVars
<1>2. /\ toServer[s] \in Seq(Sendable) /\ toServer[s] # << >> /\ toServer'[s] = Tail(toServer[s])
      /\ \A t \in Slot : t # s => toServer'[t] = toServer[t]
  BY ServeFacts
<1>3. sock[s] # "none"
  BY <1>2 DEF SysIInv, SessionInv, Before
<1>4. Asked(toServer[s]) <=> Head(toServer[s]).id = "ROOM_INFO" \/ Asked(toServer'[s])
  BY <1>2, AskedTail
<1>5. (Calm' <=> Calm) /\ (Sound' <=> Sound)
  BY <1>1 DEF Calm, Sound, Proper
<1> QED BY <1>1, <1>2, <1>3, <1>4, <1>5

\* A request for the list of a room is served to a client that was admitted to
\* one, and what it has not been told of its packets is behind.
LEMMA AskingServed ==
  ASSUME SysIInv, NEW s \in Slot, Serve(s), sock[s] = "open", Asking(s)
  PROVE  /\ Head(toServer[s]).id \in {"ROOM_ENTER", "LOBBY_INFO", "ROOM_INFO"}
         /\ Head(toServer[s]).id = "ROOM_INFO" =>
               /\ RoomAsked(s) /\ toServer'[s] = << >> /\ ~Admitted(toClient[s])
<1>1. /\ toServer[s] \in Seq(Sendable) /\ toServer[s] # << >>
      /\ toServer'[s] = Tail(toServer[s]) /\ toClient[s] \in Seq(Packet)
  BY ServeFacts DEF SysIInv, WireTypeInv
<1>2. /\ \A ids : Only(toServer[s], ids) => Head(toServer[s]).id \in ids
      /\ \A id : LastIs(toServer[s], id) /\ Head(toServer[s]).id = id => Tail(toServer[s]) = << >>
  BY <1>1, TakeRequest
<1>3. CASE Entered(s)
  BY <1>2, <1>3 DEF Entered
<1>4. CASE RoomAsked(s)
  <2>1. Head(toServer[s]).id \in {"ROOM_ENTER", "LOBBY_INFO", "ROOM_INFO"}
    BY <1>2, <1>4 DEF RoomAsked
  <2>2. Head(toServer[s]).id = "ROOM_INFO" => toServer'[s] = << >>
    BY <1>1, <1>2, <1>4 DEF RoomAsked
  <2>3. ~Admitted(toClient[s])
    BY <1>1, <1>4, Ways DEF RoomAsked
  <2> QED BY <1>4, <2>1, <2>2, <2>3
<1> QED BY <1>3, <1>4, AskingPhase

\* The requests that change nobody's list.
LEMMA ChatterServe ==
  ASSUME SysIInv, ShowInv, NEW s \in Slot, Serve(s), mUserList' = mUserList, view' = view,
         \A u \in Slot : mUserID'[u] # mUserID[u] => \A r \in Room : mUserList[r][u] = 0,
         \A t \in Slot : out'[t] \in Seq(Chatter),
         sock[s] = "open" => Head(toServer[s]).id # "ROOM_INFO"
  PROVE  \A t \in Slot : ListInv(t)'
<1>1. SUFFICES ASSUME NEW t \in Slot PROVE ListInv(t)'
  OBVIOUS
<1>2. Companions(t)' = Companions(t)
  BY SameCompany, ServeTakes
<1>3. /\ sock[t] = "none" => toServer'[t] = toServer[t]
      /\ sock[t] = "open" => (Asked(toServer'[t]) <=> Asked(toServer[t]))
  BY ServeTakes
<1> QED BY <1>2, <1>3, ServeTakes, Unmoved

\* The packets that leave the list alone, again.
LEMMA ChatterKinds ==
  /\ \A i \in Id : <<"NOTIFY_ROOM_CHAT", i>> \in Chatter
  /\ <<"ACK_LOGIN", "LOGIN_SUCCESS">> \in Chatter
  /\ <<"ACK_LOGIN", "LOGIN_USER_ALREADY">> \in Chatter
  /\ <<"ACK_LOGIN", "LOGIN_USER_INVALID_PW">> \in Chatter
  /\ <<"ACK_LOBBY_INFO", "LOBBY_INFO_SUCCESS">> \in Chatter
  /\ <<"NOTIFY_LOBBY_INFO", Room>> \in Chatter
  /\ <<"ACK_ROOM_ENTER", "ROOM_FULL">> \in Chatter
  /\ <<"ACK_ROOM_ENTER", "ROOM_INVALID_INDEX">> \in Chatter
  /\ <<"ACK_ROOM_LEAVE", "ROOM_INVALID_INDEX">> \in Chatter
  /\ <<"ACK_ROOM_CHAT", "CHAT_ROOM_SUCCESS">> \in Chatter
  /\ <<"ACK_ROOM_CHAT", "CHAT_ROOM_INVALID_ROOM_NUMBER">> \in Chatter
<1>1. Noise \subseteq Packet /\ LoginOk \subseteq Packet /\ LobbyOk \subseteq Packet
  BY DEF Packet, Grant
<1>2. <<"ACK_LOGIN", "LOGIN_SUCCESS">> \in LoginOk
  BY DEF LoginOk
<1>3. <<"ACK_LOBBY_INFO", "LOBBY_INFO_SUCCESS">> \in LobbyOk
  BY DEF LobbyOk
<1> QED BY <1>1, <1>2, <1>3, NoiseKinds, PlainKinds DEF Chatter

\* One packet, or one to everybody in a list.
LEMMA ChatterSent ==
  ASSUME SysIInv, NEW p \in Chatter, NEW t \in Slot
  PROVE  /\ \A s : To(s, p)[t] \in Seq(Chatter)
         /\ \A r \in Room : SendToAllUser(r, p)[t] \in Seq(Chatter)
<1>1. \A s : To(s, p)[t] \in Seq(Chatter)
  BY DEF To
<1>2. ASSUME NEW r \in Room PROVE SendToAllUser(r, p)[t] \in Seq(Chatter)
  <2>1. mUserList[r][t] \in Nat
    BY DEF SysIInv, IInv, TypeOK
  <2>2. [i \in 1..mUserList[r][t] |-> p] \in Seq(Chatter)
    BY <2>1
  <2> QED BY <2>2 DEF SendToAllUser
<1> QED BY <1>1, <1>2

\* Ignored requests, log-ins, the lobby, the chat, and enters and leaves that
\* are refused.
LEMMA ChatterShow ==
  ASSUME SysIInv, ShowInv, NEW s \in Slot, Serve(s), NEW req, req = Head(toServer[s]),
         \/ IgnoredRequest(s, req.id)
         \/ req.id = "LOGIN" /\ ProcessLogin(s, req.arg[1], req.arg[2])
         \/ req.id = "LOBBY_INFO" /\ ProcessLobbyInfo(s)
         \/ /\ req.id = "ROOM_ENTER" /\ ProcessEnterRoom(s, req.arg)
            /\ EnterRefused(s, req.arg)
         \/ /\ req.id = "ROOM_LEAVE" /\ ProcessLeaveRoom(s)
            /\ LeaveNoRoom(s, mRoomIndex[s])
         \/ req.id = "ROOM_CHAT" /\ ProcessRoomChatMessage(s)
  PROVE  \A t \in Slot : ListInv(t)'
<1>1. req \in Sendable
  BY ServeFacts
<1>2. CASE IgnoredRequest(s, req.id)
  <2>1. /\ mUserList' = mUserList /\ view' = view /\ mUserID' = mUserID
        /\ \A t \in Slot : out'[t] \in Seq(Chatter)
    BY <1>2 DEF IgnoredRequest, Quiet
  <2>2. ASSUME sock[s] = "open", req.id = "ROOM_INFO" PROVE FALSE
    <3>1. Asked(toServer[s])
      BY <2>2, ServeFacts, AskedTail
    <3>2. mState[s] = "InRoom" /\ handlers[s] = Handlers(mState[s])
      BY <2>2, <3>1, AskingServed DEF Asking, RoomAsked, InARoom, SysIInv, SessionInv, Up
    <3> QED BY <1>2, <2>2, <3>2, Handled DEF IgnoredRequest
  <2> QED BY <2>1, <2>2, ChatterServe
<1>3. CASE req.id = "LOGIN" /\ ProcessLogin(s, req.arg[1], req.arg[2])
  <2>1. mUserList' = mUserList /\ view' = view
    BY <1>3 DEF ProcessLogin
  <2>2. mState[s] = "Connected" /\ Live(s)
    BY <1>3, AcceptsState DEF SysIInv, IInv, ProcessLogin
  <2>3. \A r \in Room : mUserList[r][s] = 0
    BY <2>2 DEF SysIInv, IInv, TypeOK, OneRoom
  <2>4. \A u \in Slot : u # s => mUserID'[u] = mUserID[u]
    BY <1>3 DEF ProcessLogin, LoginAlready, LoginRefused, LoginUnchanged, LoginSuccess,
                AddUser, SysIInv, IInv, TypeOK
  <2>5. \E p \in Chatter : out' = To(s, p)
    BY <1>3, ChatterKinds DEF ProcessLogin, LoginAlready, LoginRefused, LoginSuccess
  <2>6. \A t \in Slot : out'[t] \in Seq(Chatter)
    BY <2>5, ChatterSent
  <2> QED BY <1>3, <2>1, <2>3, <2>4, <2>6, ChatterServe
<1>4. CASE req.id = "LOBBY_INFO" /\ ProcessLobbyInfo(s)
  <2> DEFINE p == <<"ACK_LOBBY_INFO", "LOBBY_INFO_SUCCESS">>
             q == <<"NOTIFY_LOBBY_INFO", Room>>
  <2>1. mUserList' = mUserList /\ view' = view /\ mUserID' = mUserID
    BY <1>4 DEF ProcessLobbyInfo
  <2>2. p \in Chatter /\ q \in Chatter /\ out' = Then(To(s, p), To(s, q))
    BY <1>4, ChatterKinds DEF ProcessLobbyInfo
  <2> HIDE DEF p, q
  <2>3. ASSUME NEW t \in Slot PROVE out'[t] \in Seq(Chatter)
    <3>1. To(s, p)[t] \in Seq(Chatter) /\ To(s, q)[t] \in Seq(Chatter)
      BY <2>2, ChatterSent
    <3>2. out'[t] = To(s, p)[t] \o To(s, q)[t]
      BY <2>2 DEF Then
    <3> QED BY <3>1, <3>2, ConcatProperties
  <2> QED BY <1>4, <2>1, <2>3, ChatterServe
<1>5. CASE /\ req.id = "ROOM_ENTER" /\ ProcessEnterRoom(s, req.arg)
           /\ EnterRefused(s, req.arg)
  <2>1. mUserList' = mUserList /\ view' = view /\ mUserID' = mUserID
    BY <1>5 DEF ProcessEnterRoom, EnterRefused
  <2>2. \E p \in Chatter : out' = To(s, p)
    BY <1>5, ChatterKinds DEF EnterRefused, EnterResult
  <2>3. \A t \in Slot : out'[t] \in Seq(Chatter)
    BY <2>2, ChatterSent
  <2> QED BY <1>5, <2>1, <2>3, ChatterServe
<1>6. CASE /\ req.id = "ROOM_LEAVE" /\ ProcessLeaveRoom(s)
           /\ LeaveNoRoom(s, mRoomIndex[s])
  <2>1. mUserList' = mUserList /\ view' = view /\ mUserID' = mUserID
    BY <1>6 DEF ProcessLeaveRoom, LeaveNoRoom
  <2>2. \A t \in Slot : out'[t] \in Seq(Chatter)
    BY <1>6, ChatterKinds, ChatterSent DEF LeaveNoRoom
  <2> QED BY <1>6, <2>1, <2>2, ChatterServe
<1>7. CASE req.id = "ROOM_CHAT" /\ ProcessRoomChatMessage(s)
  <2> DEFINE r == mRoomIndex[s]
             p == <<"NOTIFY_ROOM_CHAT", mUserID[s]>>
             q == <<"ACK_ROOM_CHAT", "CHAT_ROOM_SUCCESS">>
  <2>1. mUserList' = mUserList /\ view' = view /\ mUserID' = mUserID
    BY <1>7 DEF ProcessRoomChatMessage, ChatThen
  <2>2. p \in Chatter /\ q \in Chatter
    BY ChatterKinds DEF SysIInv, IInv, TypeOK
  <2>3. IF r \in Room THEN out' = Then(To(s, q), SendToAllUser(r, p))
                      ELSE \E a \in Chatter : out' = To(s, a)
    BY <1>7, ChatterKinds DEF ProcessRoomChatMessage, ChatThen
  <2> HIDE DEF p, q, r
  <2>4. ASSUME NEW t \in Slot PROVE out'[t] \in Seq(Chatter)
    <3>1. CASE r \in Room
      <4>1. To(s, q)[t] \in Seq(Chatter) /\ SendToAllUser(r, p)[t] \in Seq(Chatter)
        BY <2>2, <3>1, ChatterSent
      <4>2. out'[t] = To(s, q)[t] \o SendToAllUser(r, p)[t]
        BY <2>3, <3>1 DEF Then
      <4> QED BY <4>1, <4>2, ConcatProperties
    <3>2. CASE r \notin Room
      BY <2>3, <3>2, ChatterSent
    <3> QED BY <3>1, <3>2
  <2> QED BY <1>7, <2>1, <2>4, ChatterServe
<1> QED BY <1>2, <1>3, <1>4, <1>5, <1>6, <1>7

\* What is sent to the list of a room, and what comes of it: who is connected is
\* told if it was told that it is there, once.
LEMMA RoomTold ==
  ASSUME SysIInv, PlaceInv, NEW r \in Room, NEW p \in Packet, NEW t \in Slot,
         sock[t] # "closed"
  PROVE  /\ SendToAllUser(r, p)[t] = IF view[t] = r THEN <<p>> ELSE << >>
         /\ \A i : \A k \in Nat :
               Ends(SendToAllUser(r, p)[t], i, k, IF view[t] = r THEN After(p, i, k) ELSE k)
<1>1. mUserList[r][t] = IF view[t] = r THEN 1 ELSE 0
  BY InPlace
<1>2. [j \in 1..1 |-> p] = <<p>> /\ [j \in 1..0 |-> p] = << >>
  OBVIOUS
<1>3. SendToAllUser(r, p)[t] = IF view[t] = r THEN <<p>> ELSE << >>
  BY <1>1, <1>2 DEF SendToAllUser
<1>4. ASSUME NEW i, NEW k \in Nat
      PROVE  Ends(SendToAllUser(r, p)[t], i, k, IF view[t] = r THEN After(p, i, k) ELSE k)
  BY <1>3, EndsOne, EndsNone
<1> QED BY <1>3, <1>4

\* Who is company to t: with an id, connected, and told that it is there.
LEMMA Company ==
  ASSUME SysIInv, PlaceInv, NEW t \in Slot, NEW i \in Companions(t)
  PROVE  /\ view[t] \in Room
         /\ \E u \in Slot : /\ mUserID[u] = i /\ u \in Members(view[t])
                            /\ sock[u] = "open" /\ In(u) /\ view[u] = view[t]
<1>1. view[t] \in Room
  BY DEF Companions, SysIInv, IInv, TypeOK
<1>2. PICK u \in Members(view[t]) : mUserID[u] = i /\ sock[u] = "open"
  BY DEF Companions
<1>3. u \in Slot
  BY DEF Members
<1> QED BY <1>1, <1>2, <1>3, InPlace

----------------------------------------------------------------------------
(* An enter that succeeds.                                                 *)

\* The user joins the company of those in the room; it was nobody's before.
LEMMA EnterCompany ==
  ASSUME SysIInv, PlaceInv, NEW s \in Slot, NEW n \in RoomNumber, sock' = sock,
         ProcessEnterRoom(s, n), EnterUser(s, n), NEW t \in Slot, t # s
  PROVE  /\ view[t] # n => Companions(t)' = Companions(t)
         /\ view[t] = n =>
               /\ mUserID[s] \notin Companions(t)
               /\ sock[s] = "open" => Companions(t)' = Companions(t) \cup {mUserID[s]}
               /\ sock[s] # "open" => Companions(t)' = Companions(t)
<1>1. /\ n \in Room /\ n # NoRoom /\ view' = [view EXCEPT ![s] = n] /\ mUserID' = mUserID
      /\ mUserList' = [mUserList EXCEPT ![n][s] = @ + 1]
  BY ChatAssumption DEF EnterUser, EnterResult, ProcessEnterRoom
<1>2. In(s) /\ \A r \in Room : mUserList[r][s] = 0
  BY AcceptsState DEF In, ProcessEnterRoom, SysIInv, IInv, TypeOK, OneRoom
<1>3. view'[t] = view[t] /\ view[t] \in Room \cup {NoRoom}
  BY <1>1 DEF SysIInv, IInv, TypeOK
<1>4. ASSUME NEW r \in Room PROVE Members(r)' = IF r = n THEN Members(r) \cup {s} ELSE Members(r)
  <2>1. \A u \in Slot : mUserList'[r][u] = IF r = n /\ u = s THEN 1 ELSE mUserList[r][u]
    BY <1>1, <1>2 DEF SysIInv, IInv, TypeOK
  <2> QED BY <2>1 DEF Members
<1>5. ASSUME view[t] # n PROVE Companions(t)' = Companions(t)
  BY <1>1, <1>3, <1>4, <1>5 DEF Companions
<1>6. ASSUME view[t] = n PROVE mUserID[s] \notin Companions(t)
  <2>1. ASSUME mUserID[s] \in Companions(t) PROVE FALSE
    <3>1. PICK u \in Slot : mUserID[u] = mUserID[s] /\ u \in Members(view[t]) /\ In(u)
      BY <2>1, Company
    <3>2. u = s
      BY <1>2, <3>1, Alike
    <3> QED BY <1>1, <1>2, <1>6, <3>1, <3>2 DEF Members
  <2> QED BY <2>1
<1>7. ASSUME view[t] = n
      PROVE  Companions(t)' = {mUserID[u] : u \in {v \in Members(n) \cup {s} : sock[v] = "open"}}
  BY <1>1, <1>3, <1>4, <1>7 DEF Companions
<1>8. view[t] = n => Companions(t) = {mUserID[u] : u \in {v \in Members(n) : sock[v] = "open"}}
  BY <1>1 DEF Companions
<1>9. CASE sock[s] = "open"
  BY <1>5, <1>6, <1>7, <1>8, <1>9
<1>10. CASE sock[s] # "open"
  BY <1>5, <1>6, <1>7, <1>8, <1>10
<1> QED BY <1>9, <1>10

\* Those in the room will show the user once more.  One that still waits for the
\* list has been told too early.
LEMMA EnterOther ==
  ASSUME SysIInv, ShowInv, Sound, NEW s \in Slot, Serve(s), NEW n \in RoomNumber,
         Head(toServer[s]).id # "ROOM_INFO", ProcessEnterRoom(s, n), EnterUser(s, n),
         NEW t \in Slot, t # s, sock[t] = "open", out'[t] \in Seq(Packet), ~Admitted(out'[t]),
         NEW i \in Id, NEW k \in Nat, Final(t, i, k)
  PROVE  \E m \in Nat : Ends(out'[t], i, k, m) /\ Final(t, i, m)'
<1> DEFINE p == <<"NOTIFY_ROOM_INFO", mUserID[s]>>
<1>1. PlaceInv /\ n \in Room /\ n # NoRoom
  BY ChatAssumption DEF ShowInv, EnterUser, EnterResult
<1>2. /\ mUserID[s] \in Id /\ p \in Packet
      /\ view'[t] = view[t]
  <2>1. mUserID[s] \in Id
    BY DEF SysIInv, IInv, TypeOK
  <2>2. p \in Packet
    BY <2>1, NoiseKinds DEF Packet
  <2>3. view' = [view EXCEPT ![s] = n]
    BY DEF EnterUser
  <2> QED BY <2>1, <2>2, <2>3 DEF SysIInv, IInv, TypeOK
<1>3. out'[t] = SendToAllUser(n, p)[t]
  <2>1. out'[t] = SendToAllUser(n, p)[t] \o << >>
    <3>1. out' = Then(SendToAllUser(n, p), To(s, EnterDone))
      BY DEF EnterUser, EnterDone
    <3> HIDE DEF p
    <3> QED BY <3>1 DEF Then, To
  <2>2. SendToAllUser(n, p)[t] = << >> \/ SendToAllUser(n, p)[t] = <<p>>
    BY <1>1, <1>2, RoomTold
  <2>3. << >> \o << >> = << >> /\ <<p>> \o << >> = <<p>>
    OBVIOUS
  <2> QED BY <2>1, <2>2, <2>3, Zenon
<1>4. Ends(out'[t], i, k, IF view[t] = n /\ mUserID[s] = i THEN k + 1 ELSE k)
  <2>1. Ends(out'[t], i, k, IF view[t] = n THEN After(p, i, k) ELSE k)
    <3> HIDE DEF p
    <3>1. Ends(SendToAllUser(n, p)[t], i, k, IF view[t] = n THEN After(p, i, k) ELSE k)
      BY <1>1, <1>2, RoomTold
    <3> QED BY <1>3, <3>1
  <2>2. After(p, i, k) = IF mUserID[s] = i THEN k + 1 ELSE k
    BY DEF After, LeaveDone
  <2> QED BY <2>1, <2>2
<1>5. /\ view[t] # n => Companions(t)' = Companions(t)
      /\ view[t] = n =>
            /\ mUserID[s] \notin Companions(t)
            /\ sock[s] = "open" => Companions(t)' = Companions(t) \cup {mUserID[s]}
            /\ sock[s] # "open" => Companions(t)' = Companions(t)
  BY <1>1, EnterCompany, ServeTakes
<1>6. /\ Asking(t)' <=> Asking(t)
      /\ WillBeEarly(t) => WillBeEarly(t)'
      /\ Calm' <=> Calm
      /\ toClient'[t] = toClient[t] \o out'[t]
      /\ ChatSend' = ChatSend
  <2>1. Serving /\ (Calm' <=> Calm) /\ (Asked(toServer'[t]) <=> Asked(toServer[t]))
    BY ServeTakes
  <2>2. /\ WillBeEarly(t) => WillBeEarly(t)'
        /\ toClient'[t] = toClient[t] \o out'[t]
        /\ Asking(t)' <=> \/ Asked(toServer'[t])
                          \/ Admitted(toClient[t]) \/ Admitted(out'[t])
    BY <2>1, EarlyStays
  <2> QED BY <2>1, <2>2 DEF Asking, Serving
<1>7. ASSUME view[t] = n, Asking(t) PROVE WillBeEarly(t)'
  <2>1. ~ChatSend[t] /\ \A j \in 1..Len(toClient[t]) : toClient[t][j][1] # "ACK_ROOM_INFO"
    BY <1>7, AskingPhase
  <2>2. out'[t] = <<p>>
    BY <1>1, <1>2, <1>3, <1>7, RoomTold
  <2>3. Arrival(out'[t])
    <3>1. Len(<<p>>) = 1 /\ <<p>>[1] = p /\ p[1] = "NOTIFY_ROOM_INFO"
      OBVIOUS
    <3>2. 1 \in 1..Len(<<p>>) /\ \A j \in 1..1 : j = 1
      BY <3>1
    <3> HIDE DEF p
    <3> QED BY <2>2, <3>1, <3>2 DEF Arrival
  <2>4. Arrival(toClient[t] \o out'[t])
    BY <2>1, <2>3, WayMore DEF SysIInv, WireTypeInv
  <2> QED BY <1>6, <2>1, <2>4 DEF WillBeEarly
<1> HIDE DEF p
<1>8. CASE ~(view[t] = n /\ mUserID[s] = i)
  <2>1. (i \in Companions(t))' <=> i \in Companions(t)
    BY <1>5, <1>8
  <2>2. Final(t, i, k)'
    BY <1>2, <1>6, <2>1, FinalKeeps
  <2>3. Ends(out'[t], i, k, k)
    BY <1>4, <1>8
  <2> QED BY <2>2, <2>3
<1>9. CASE view[t] = n /\ mUserID[s] = i
  <2>1. k + 1 \in Nat /\ k + 1 >= 1 /\ view'[t] # NoRoom
    BY <1>1, <1>2, <1>9
  <2>2. ASSUME Calm', ~WillBeEarly(t)'
        PROVE  k + 1 = IF (i \in Companions(t) /\ ~Asking(t))' THEN 1 ELSE 0
    <3>1. Calm /\ ~WillBeEarly(t) /\ ~Asking(t) /\ i \notin Companions(t)
      BY <1>5, <1>6, <1>7, <1>9, <2>2
    <3>2. k = 0
      BY <3>1 DEF Final
    <3>3. sock[s] = "open"
      BY <3>1, ServeTakes DEF Calm, SysIInv, FormTypeInv
    <3>4. (i \in Companions(t) /\ ~Asking(t))'
      BY <1>5, <1>6, <1>9, <3>1, <3>3
    <3> QED BY <3>2, <3>4
  <2>3. Final(t, i, k + 1)'
    BY <2>1, <2>2 DEF Final
  <2>4. Ends(out'[t], i, k, k + 1)
    BY <1>4, <1>9
  <2> QED BY <2>1, <2>3, <2>4
<1> QED BY <1>8, <1>9

\* A client whose request it is not gets at most what others do.
LEMMA Bystander ==
  ASSUME SysIInv, NEW s \in Slot, Serve(s), NEW t \in Slot
  PROVE  /\ out'[t] \in Seq(Packet)
         /\ t # s => ~Admitted(out'[t]) /\ view'[t] = view[t]
<1>1. Others(s) /\ Effect(s, Head(toServer[s]).id) /\ ~fault'
  BY ServeFacts, ServeStep
<1>2. CASE t # s
  <2>1. out'[t] \in Seq(Noise) /\ view'[t] = view[t]
    BY <1>1, <1>2 DEF Others, Still
  <2> QED BY <1>2, <2>1, Noises, Ways
<1>3. CASE t = s
  <2>1. out'[s] \in Seq(Packet)
    BY <1>1, Noises DEF Effect, Still, Granted, Refused
  <2> QED BY <1>3, <2>1
<1> QED BY <1>2, <1>3

\* The one who enters shows nobody, and will ask for the list.
LEMMA EnterSelf ==
  ASSUME SysIInv, ShowInv, Sound, NEW s \in Slot, Serve(s), NEW n \in RoomNumber,
         ProcessEnterRoom(s, n), EnterUser(s, n), sock[s] = "open",
         NEW i \in Id, NEW k \in Nat, Final(s, i, k)
  PROVE  \E m \in Nat : Ends(out'[s], i, k, m) /\ Final(s, i, m)'
<1> DEFINE p == <<"NOTIFY_ROOM_INFO", mUserID[s]>>
<1>1. PlaceInv /\ n \in Room /\ n # NoRoom /\ view' = [view EXCEPT ![s] = n]
  BY ChatAssumption DEF ShowInv, EnterUser, EnterResult
<1>2. p \in Packet
  <2>1. mUserID[s] \in Id
    BY DEF SysIInv, IInv, TypeOK
  <2> QED BY <2>1, NoiseKinds DEF Packet
<1>3. view[s] = NoRoom /\ k = 0
  <2>1. mState[s] = "InLobby"
    BY AcceptsState DEF SysIInv, IInv, ProcessEnterRoom
  <2> QED BY <2>1 DEF SysIInv, SessionInv, Up, Final
<1>4. out'[s] = <<EnterDone>>
  <2>1. out'[s] = SendToAllUser(n, p)[s] \o <<EnterDone>>
    BY DEF EnterUser, Then, To, EnterDone
  <2>2. SendToAllUser(n, p)[s] = << >>
    BY <1>1, <1>2, <1>3, RoomTold
  <2>3. << >> \o <<EnterDone>> = <<EnterDone>>
    OBVIOUS
  <2> QED BY <2>1, <2>2, <2>3, Zenon
<1>5. Ends(out'[s], i, k, 0)
  <2>1. After(EnterDone, i, 0) = 0
    BY AfterPlain, PlainKinds DEF EnterDone
  <2> QED BY <1>3, <1>4, <2>1, EndsOne
<1>6. Asking(s)'
  <2>1. Admitted(out'[s])
    <3>1. Len(<<EnterDone>>) = 1 /\ <<EnterDone>>[1] = EnterDone
      OBVIOUS
    <3> QED BY <1>4, <3>1 DEF Admitted
  <2> QED BY <2>1, Bystander, ServeTakes, EarlyStays
<1>7. Final(s, i, 0)'
  BY <1>6 DEF Final
<1> QED BY <1>5, <1>7

\* An enter that succeeds.
LEMMA EnterShow ==
  ASSUME SysIInv, ShowInv, NEW s \in Slot, Serve(s), NEW n \in RoomNumber,
         Head(toServer[s]).id # "ROOM_INFO", ProcessEnterRoom(s, n), EnterUser(s, n)
  PROVE  \A t \in Slot : ListInv(t)'
<1>1. SUFFICES ASSUME NEW t \in Slot PROVE ListInv(t)'
  OBVIOUS
<1>2. Serving /\ out'[t] \in Seq(Packet)
  BY ServeTakes, Bystander
<1>3. CASE t # s
  <2>1. ~Admitted(out'[t]) /\ view'[t] = view[t] /\ toServer'[t] = toServer[t]
    BY <1>3, Bystander, ServeTakes
  <2>2. sock[t] = "open" /\ Asking(t)' => view'[t] # NoRoom
    BY <1>2, <2>1, EarlyStays DEF ShowInv, ListInv, Asking
  <2>3. sock[t] = "open" /\ Sound => \A i \in Id : \A k \in Nat : Final(t, i, k) =>
           \E m \in Nat : Ends(out'[t], i, k, m) /\ Final(t, i, m)'
    BY <1>2, <1>3, <2>1, EnterOther
  <2> QED BY <1>2, <2>1, <2>2, <2>3, Heard
<1>4. CASE t = s
  <2>1. sock[s] # "none" /\ view'[s] # NoRoom
    BY ServeTakes, ChatAssumption DEF EnterUser, EnterResult, SysIInv, IInv, TypeOK
  <2>2. sock[s] = "open" /\ Sound => \A i \in Id : \A k \in Nat : Final(s, i, k) =>
           \E m \in Nat : Ends(out'[s], i, k, m) /\ Final(s, i, m)'
    BY EnterSelf
  <2> QED BY <1>2, <1>4, <2>1, <2>2, Heard
<1> QED BY <1>3, <1>4

----------------------------------------------------------------------------
(* The list of a room is asked for.                                        *)

\* While nobody's connection broke, everybody in a room's list is connected.
LEMMA AllThere ==
  ASSUME SysIInv, PlaceInv, Calm, NEW r \in Room, NEW u \in Members(r)
  PROVE  sock[u] = "open"
<1>1. u \in Slot /\ sock[u] # "closed"
  BY DEF Members, Calm
<1>2. In(u)
  BY <1>1, InPlace
<1>3. sock[u] # "none"
  BY <1>1, <1>2 DEF SysIInv, SessionInv, Before, In
<1> QED BY <1>1, <1>3 DEF SysIInv, FormTypeInv

\* The answer is the list of the room the client was told it is in.
LEMMA InfoAnswer ==
  ASSUME SysIInv, ShowInv, Sound, NEW s \in Slot, Serve(s), sock[s] = "open",
         Head(toServer[s]).id = "ROOM_INFO", ProcessRoomInfo(s)
  PROVE  /\ Asking(s) /\ toServer'[s] = << >> /\ ~Admitted(toClient[s]) /\ view[s] \in Room
         /\ \E ids : /\ out'[s] = <<<<"ACK_ROOM_INFO", ids>>>>
                     /\ \A i \in Companions(s) : i \in ids
                     /\ Calm => \A i \in ids : i \in Companions(s)
<1>1. Asking(s)
  BY ServeFacts, AskedTail DEF Asking
<1>2. RoomAsked(s) /\ toServer'[s] = << >> /\ ~Admitted(toClient[s])
  BY <1>1, AskingServed
<1>3. view[s] \in Room
  BY <1>1 DEF ShowInv, ListInv, SysIInv, IInv, TypeOK
<1>4. mRoomIndex[s] = view[s]
  <2>1. s \in Members(view[s]) /\ mUserList[view[s]][s] > 0
    BY <1>3, InPlace DEF ShowInv, Members
  <2>2. Live(s)
    BY <1>3, <2>1, InPlace DEF ShowInv, In
  <2> QED BY <1>3, <2>1, <2>2 DEF SysIInv, IInv, OneRoom
<1> DEFINE ids == {mUserID[u] : u \in Members(view[s])}
<1>5. out'[s] = <<<<"ACK_ROOM_INFO", ids>>>>
  BY <1>3, <1>4 DEF ProcessRoomInfo, To, Members
<1>6. Companions(s) = {mUserID[u] : u \in {v \in Members(view[s]) : sock[v] = "open"}}
  BY <1>3, ChatAssumption DEF Companions
<1>7. \A i \in Companions(s) : i \in ids
  BY <1>6
<1>8. Calm => \A i \in ids : i \in Companions(s)
  BY <1>3, <1>6, AllThere DEF ShowInv
<1> HIDE DEF ids
<1> QED BY <1>1, <1>2, <1>3, <1>5, <1>7, <1>8

\* It adds those in the room to the list, where nobody was, but who was reported
\* before it.
LEMMA InfoSelf ==
  ASSUME SysIInv, ShowInv, Sound, NEW s \in Slot, Serve(s), sock[s] = "open",
         Head(toServer[s]).id = "ROOM_INFO", ProcessRoomInfo(s),
         NEW i \in Id, NEW k \in Nat, Final(s, i, k)
  PROVE  \E m \in Nat : Ends(out'[s], i, k, m) /\ Final(s, i, m)'
<1>1. PICK ids : /\ out'[s] = <<<<"ACK_ROOM_INFO", ids>>>>
                 /\ \A j \in Companions(s) : j \in ids
                 /\ Calm => \A j \in ids : j \in Companions(s)
  BY InfoAnswer
<1> DEFINE p == <<"ACK_ROOM_INFO", ids>>
<1>2. Asking(s) /\ toServer'[s] = << >> /\ ~Admitted(toClient[s]) /\ view[s] \in Room
  BY InfoAnswer
<1>3. /\ view'[s] # NoRoom /\ sock' = sock /\ (Calm' <=> Calm)
      /\ Companions(s)' = Companions(s)
  <2>1. sock' = sock /\ (Calm' <=> Calm)
    BY ServeTakes
  <2>2. view' = view /\ mUserList' = mUserList /\ mUserID' = mUserID
    BY DEF ProcessRoomInfo
  <2>3. Companions(s)' = Companions(s)
    BY <2>1, <2>2 DEF Companions, Members
  <2> QED BY <1>2, <2>1, <2>2, <2>3, ChatAssumption
<1>4. ~Asking(s)' /\ (WillBeEarly(s) => WillBeEarly(s)')
  <2>1. ~Asked(toServer'[s])
    BY <1>2 DEF Asked
  <2>2. ~Admitted(out'[s])
    <3>1. Len(<<p>>) = 1 /\ <<p>>[1] = p /\ p # EnterDone
      BY DEF EnterDone
    <3> HIDE DEF p
    <3> QED BY <1>1, <3>1 DEF Admitted, p
  <2> QED BY <1>2, <2>1, <2>2, ServeTakes, Bystander, EarlyStays
<1>5. Ends(out'[s], i, k, IF i \in ids THEN k + 1 ELSE k)
  <2>1. After(p, i, k) = IF i \in ids THEN k + 1 ELSE k
    BY DEF After, LeaveDone
  <2>2. Ends(<<p>>, i, k, After(p, i, k))
    BY EndsOne
  <2> QED BY <1>1, <2>1, <2>2
<1>6. Calm' /\ ~WillBeEarly(s)' => k = 0
  BY <1>2, <1>3, <1>4 DEF Final
<1>7. CASE i \in ids
  <2>1. Final(s, i, k + 1)'
    BY <1>1, <1>3, <1>4, <1>6, <1>7 DEF Final
  <2>2. Ends(out'[s], i, k, k + 1) /\ k + 1 \in Nat
    BY <1>5, <1>7
  <2> QED BY <2>1, <2>2
<1>8. CASE i \notin ids
  <2>1. Final(s, i, k)'
    BY <1>1, <1>3, <1>4, <1>6, <1>8 DEF Final
  <2>2. Ends(out'[s], i, k, k)
    BY <1>5, <1>8
  <2> QED BY <2>1, <2>2
<1> QED BY <1>7, <1>8

\* A request for the list of a room.
LEMMA InfoShow ==
  ASSUME SysIInv, ShowInv, NEW s \in Slot, Serve(s),
         Head(toServer[s]).id = "ROOM_INFO", ProcessRoomInfo(s)
  PROVE  \A t \in Slot : ListInv(t)'
<1>1. SUFFICES ASSUME NEW t \in Slot PROVE ListInv(t)'
  OBVIOUS
<1>2. Serving /\ sock' = sock /\ out'[t] \in Seq(Packet)
  BY ServeTakes, Bystander
<1>3. CASE t # s
  <2>1. view'[t] = view[t] /\ Companions(t)' = Companions(t)
    BY <1>2 DEF ProcessRoomInfo, Companions, Members
  <2>2. toServer'[t] = toServer[t]
    BY <1>3, ServeTakes
  <2>3. out'[t] = << >> /\ << >> \in Seq(Chatter)
    BY <1>3 DEF ProcessRoomInfo, To, Quiet
  <2> QED BY <1>2, <2>1, <2>2, <2>3, Unmoved
<1>4. CASE t = s
  <2>1. sock[s] # "none"
    BY ServeTakes
  <2>2. ASSUME sock[s] = "open" PROVE view'[s] # NoRoom
    <3>1. view'[s] = view[s] /\ Asking(s)
      BY ServeFacts, AskedTail DEF Asking, ProcessRoomInfo
    <3> QED BY <2>2, <3>1 DEF ShowInv, ListInv
  <2>3. sock[s] = "open" /\ Sound => \A i \in Id : \A k \in Nat : Final(s, i, k) =>
           \E m \in Nat : Ends(out'[s], i, k, m) /\ Final(s, i, m)'
    BY InfoSelf
  <2> QED BY <1>2, <1>4, <2>1, <2>2, <2>3, Heard
<1> QED BY <1>3, <1>4

----------------------------------------------------------------------------
(* A leave that succeeds.                                                  *)

\* What the handler does, in short.
LEMMA Leaves ==
  ASSUME SysIInv, NEW s \in Slot, LeaveUser(s, mRoomIndex[s])
  PROVE  /\ mRoomIndex[s] \in Room /\ mRoomIndex[s] # NoRoom
         /\ view'[s] = NoRoom /\ \A t \in Slot : t # s => view'[t] = view[t]
         /\ <<"NOTIFY_ROOM_LEAVE", mUserID[s]>> \in Noise
         /\ out' = Then(SendToAllUser(mRoomIndex[s], <<"NOTIFY_ROOM_LEAVE", mUserID[s]>>),
                        To(s, LeaveDone))
         /\ \A r \in Room : Members(r)' =
               IF r = mRoomIndex[s] THEN {u \in Members(r) : mUserID[u] # mUserID[s]}
               ELSE Members(r)
<1> DEFINE r == mRoomIndex[s]
<1>1. r \in Room /\ r # NoRoom /\ view' = [view EXCEPT ![s] = NoRoom]
  BY ChatAssumption DEF LeaveUser, LeaveKeeping
<1>2. view'[s] = NoRoom /\ \A t \in Slot : t # s => view'[t] = view[t]
  BY <1>1 DEF SysIInv, IInv, TypeOK
<1>3. <<"NOTIFY_ROOM_LEAVE", mUserID[s]>> \in Noise
  <2>1. mUserID[s] \in Id
    BY DEF SysIInv, IInv, TypeOK
  <2> QED BY <2>1, NoiseKinds
<1>4. out' = Then(SendToAllUser(r, <<"NOTIFY_ROOM_LEAVE", mUserID[s]>>), To(s, LeaveDone))
  BY DEF LeaveUser, LeaveKeeping, LeaveDone
<1>5. ASSUME NEW q \in Room
      PROVE  Members(q)' = IF q = r THEN {u \in Members(q) : mUserID[u] # mUserID[s]}
                           ELSE Members(q)
  <2>1. /\ \A u \in Slot : mUserList'[r][u] = IF mUserID[u] # mUserID[s] THEN mUserList[r][u] ELSE 0
        /\ q # r => mUserList'[q] = mUserList[q]
    BY <1>1 DEF LeaveUser, LeaveKeeping, SysIInv, IInv, TypeOK
  <2> HIDE DEF r
  <2>2. CASE q = r
    BY <2>1, <2>2 DEF Members
  <2>3. CASE q # r
    BY <2>1, <2>3 DEF Members
  <2> QED BY <2>2, <2>3
<1> QED BY <1>1, <1>2, <1>3, <1>4, <1>5

\* The one who leaves is nobody's company any more.
LEMMA LeaveCompany ==
  ASSUME SysIInv, NEW s \in Slot, LeaveUser(s, mRoomIndex[s]), ProcessLeaveRoom(s),
         sock' = sock, NEW t \in Slot, t # s
  PROVE  Companions(t)' = IF view[t] = mRoomIndex[s] THEN Companions(t) \ {mUserID[s]}
                          ELSE Companions(t)
<1>1. view'[t] = view[t] /\ mUserID' = mUserID /\ mRoomIndex[s] # NoRoom
      /\ view[t] \in Room \cup {NoRoom}
  BY Leaves DEF ProcessLeaveRoom, SysIInv, IInv, TypeOK
<1>2. CASE view[t] = mRoomIndex[s]
  <2> DEFINE M == Members(view[t])
             a == mUserID[s]
  <2>1. Members(view[t])' = {u \in M : mUserID[u] # a}
    BY <1>1, <1>2, Leaves
  <2>2. Companions(t)' = {mUserID[v] : v \in {u \in {w \in M : mUserID[w] # a} : sock[u] = "open"}}
    BY <1>1, <1>2, <2>1 DEF Companions
  <2>3. Companions(t) = {mUserID[v] : v \in {u \in M : sock[u] = "open"}}
    BY <1>1, <1>2 DEF Companions
  <2> HIDE DEF M, a
  <2> QED BY <1>2, <2>2, <2>3 DEF a
<1>3. CASE view[t] # mRoomIndex[s]
  <2>1. view[t] \in Room => Members(view[t])' = Members(view[t])
    BY <1>1, <1>3, Leaves
  <2>2. CASE view[t] = NoRoom
    BY <1>1, <1>3, <2>2 DEF Companions
  <2>3. CASE view[t] # NoRoom
    BY <1>1, <1>3, <2>1, <2>3 DEF Companions
  <2> QED BY <2>2, <2>3
<1> QED BY <1>2, <1>3

\* Those in the room show the user once less.
LEMMA LeaveOther ==
  ASSUME SysIInv, ShowInv, Sound, NEW s \in Slot, Serve(s), ProcessLeaveRoom(s),
         LeaveUser(s, mRoomIndex[s]), Head(toServer[s]).id = "ROOM_LEAVE",
         NEW t \in Slot, t # s, sock[t] = "open", NEW i \in Id, NEW k \in Nat, Final(t, i, k)
  PROVE  \E m \in Nat : Ends(out'[t], i, k, m) /\ Final(t, i, m)'
<1> DEFINE r == mRoomIndex[s]
           p == <<"NOTIFY_ROOM_LEAVE", mUserID[s]>>
<1>1. PlaceInv /\ r \in Room /\ r # NoRoom /\ p \in Packet /\ view'[t] = view[t]
  BY Leaves DEF ShowInv, Packet
<1>2. out'[t] = SendToAllUser(r, p)[t]
  <2>1. out'[t] = SendToAllUser(r, p)[t] \o << >>
    <3>1. out' = Then(SendToAllUser(r, p), To(s, LeaveDone))
      BY Leaves
    <3> HIDE DEF r, p
    <3> QED BY <3>1 DEF Then, To
  <2>2. SendToAllUser(r, p)[t] = << >> \/ SendToAllUser(r, p)[t] = <<p>>
    BY <1>1, RoomTold
  <2>3. << >> \o << >> = << >> /\ <<p>> \o << >> = <<p>>
    OBVIOUS
  <2> QED BY <2>1, <2>2, <2>3, Zenon
<1>3. Ends(out'[t], i, k, IF view[t] = r /\ mUserID[s] = i /\ k > 0 THEN k - 1 ELSE k)
  <2>1. Ends(out'[t], i, k, IF view[t] = r THEN After(p, i, k) ELSE k)
    <3> HIDE DEF p
    <3>1. Ends(SendToAllUser(r, p)[t], i, k, IF view[t] = r THEN After(p, i, k) ELSE k)
      BY <1>1, RoomTold
    <3> QED BY <1>2, <3>1
  <2>2. After(p, i, k) = IF mUserID[s] = i /\ k > 0 THEN k - 1 ELSE k
    BY DEF After, LeaveDone
  <2> QED BY <2>1, <2>2
<1>4. Companions(t)' = IF view[t] = r THEN Companions(t) \ {mUserID[s]} ELSE Companions(t)
  BY LeaveCompany, ServeTakes
<1>5. (Asking(t)' <=> Asking(t)) /\ (WillBeEarly(t) => WillBeEarly(t)') /\ (Calm' <=> Calm)
  <2>1. /\ Serving /\ (Calm' <=> Calm) /\ toServer'[t] = toServer[t]
        /\ out'[t] \in Seq(Packet) /\ ~Admitted(out'[t])
    BY ServeTakes, Bystander
  <2> QED BY <2>1, EarlyStays DEF Asking
<1> HIDE DEF p, r
<1>6. CASE ~(view[t] = r /\ mUserID[s] = i)
  <2>1. (i \in Companions(t))' <=> i \in Companions(t)
    BY <1>4, <1>6
  <2>2. Final(t, i, k)'
    BY <1>1, <1>5, <2>1, FinalKeeps
  <2>3. Ends(out'[t], i, k, k)
    BY <1>3, <1>6
  <2> QED BY <2>2, <2>3
<1>7. CASE view[t] = r /\ mUserID[s] = i
  <2>1. (i \notin Companions(t))' /\ view'[t] # NoRoom
    BY <1>1, <1>4, <1>7
  <2>2. Calm' /\ ~WillBeEarly(t)' => k = 0 \/ k = 1
    BY <1>5 DEF Final
  <2>3. CASE k > 0
    <3>1. Final(t, i, k - 1)'
      BY <2>1, <2>2, <2>3 DEF Final
    <3>2. Ends(out'[t], i, k, k - 1) /\ k - 1 \in Nat
      BY <1>3, <1>7, <2>3
    <3> QED BY <3>1, <3>2
  <2>4. CASE ~(k > 0)
    <3>1. k = 0
      BY <2>4
    <3>2. Final(t, i, k)'
      BY <2>1, <3>1 DEF Final
    <3>3. Ends(out'[t], i, k, k)
      BY <1>3, <2>4
    <3> QED BY <3>2, <3>3
  <2> QED BY <2>3, <2>4
<1> QED BY <1>6, <1>7

\* The one who leaves will show nobody, and asks for nothing.
LEMMA LeaveSelf ==
  ASSUME SysIInv, NEW s \in Slot, Serve(s), ProcessLeaveRoom(s),
         LeaveUser(s, mRoomIndex[s]), Head(toServer[s]).id = "ROOM_LEAVE", sock[s] = "open"
  PROVE  /\ ~Asking(s)'
         /\ Sound /\ ShowInv => \A i \in Id : \A k \in Nat :
               Ends(out'[s], i, k, 0) /\ Final(s, i, 0)'
<1> DEFINE r == mRoomIndex[s]
           p == <<"NOTIFY_ROOM_LEAVE", mUserID[s]>>
<1>1. r \in Room /\ p \in Noise /\ view'[s] = NoRoom
  BY Leaves
<1>2. out' = Then(SendToAllUser(r, p), To(s, LeaveDone))
  BY Leaves
<1> HIDE DEF p, r
<1>3. ~Admitted(out'[s]) /\ out'[s] \in Seq(Packet)
  <2>1. out'[s] \in Seq(Packet) /\ OneGrant(out'[s], LeaveOk)
    BY <1>1, <1>2, Carried, Grants, ToldThen DEF SysIInv, IInv
  <2> QED BY <2>1, Ways
<1>4. ~Asking(s)'
  <2>1. ~Asking(s)
    BY AskingServed
  <2> QED BY <1>3, <2>1, ServeTakes, EarlyStays DEF Asking
<1>5. ASSUME Sound, ShowInv, NEW i \in Id, NEW k \in Nat PROVE Ends(out'[s], i, k, 0)
  <2> DEFINE a == SendToAllUser(r, p)[s]
             l == IF view[s] = r THEN After(p, i, k) ELSE k
  <2>1. out'[s] = a \o <<LeaveDone>>
    BY <1>2 DEF Then, To
  <2>2. Ends(a, i, k, l) /\ (a = <<p>> \/ a = << >>)
    BY <1>1, <1>5, RoomTold DEF ShowInv, Packet
  <2>3. l \in Nat
    BY AfterType
  <2> HIDE DEF a, l
  <2>4. Ends(<<LeaveDone>>, i, l, 0)
    <3>1. After(LeaveDone, i, l) = 0
      BY <2>3 DEF After, LeaveDone
    <3> QED BY <2>3, <3>1, EndsOne
  <2>5. a \in Seq(Packet) /\ <<LeaveDone>> \in Seq(Packet)
    <3>1. p \in Packet /\ LeaveDone \in Packet
      BY <1>1, Carried DEF Packet, Grant
    <3>2. \A q \in Packet : <<q>> \in Seq(Packet)
      OBVIOUS
    <3>3. << >> \in Seq(Packet)
      OBVIOUS
    <3> QED BY <2>2, <3>1, <3>2, <3>3
  <2> QED BY <2>1, <2>2, <2>4, <2>5, EndsMore
<1>6. ASSUME NEW i \in Id PROVE Final(s, i, 0)'
  <2>1. (i \notin Companions(s))'
    BY <1>1 DEF Companions
  <2> QED BY <2>1 DEF Final
<1> QED BY <1>4, <1>5, <1>6

\* A leave that succeeds.
LEMMA LeaveShow ==
  ASSUME SysIInv, ShowInv, NEW s \in Slot, Serve(s), ProcessLeaveRoom(s),
         LeaveUser(s, mRoomIndex[s]), Head(toServer[s]).id = "ROOM_LEAVE"
  PROVE  \A t \in Slot : ListInv(t)'
<1>1. SUFFICES ASSUME NEW t \in Slot PROVE ListInv(t)'
  OBVIOUS
<1>2. Serving /\ out'[t] \in Seq(Packet)
  BY ServeTakes, Bystander
<1>3. CASE t # s
  <2>1. ~Admitted(out'[t]) /\ view'[t] = view[t] /\ toServer'[t] = toServer[t]
    BY <1>3, Bystander, ServeTakes
  <2>2. sock[t] = "open" /\ Asking(t)' => view'[t] # NoRoom
    BY <1>2, <2>1, EarlyStays DEF ShowInv, ListInv, Asking
  <2>3. sock[t] = "open" /\ Sound => \A i \in Id : \A k \in Nat : Final(t, i, k) =>
           \E m \in Nat : Ends(out'[t], i, k, m) /\ Final(t, i, m)'
    BY <1>3, LeaveOther
  <2> QED BY <1>2, <2>1, <2>2, <2>3, Heard
<1>4. CASE t = s
  <2>1. sock[s] # "none"
    BY ServeTakes
  <2>2. sock[s] = "open" => ~Asking(s)'
    BY LeaveSelf
  <2>3. sock[s] = "open" /\ Sound => \A i \in Id : \A k \in Nat : Final(s, i, k) =>
           \E m \in Nat : Ends(out'[s], i, k, m) /\ Final(s, i, m)'
    BY LeaveSelf
  <2> QED BY <1>2, <1>4, <2>1, <2>2, <2>3, Heard
<1> QED BY <1>3, <1>4

----------------------------------------------------------------------------
(* Every step.                                                             *)

\* Every request.
LEMMA ServeShow ==
  ASSUME SysIInv, ShowInv, NEW s \in Slot, Serve(s)
  PROVE  ShowInv'
<1> DEFINE req == Head(toServer[s])
<1>1. req \in Sendable /\ ServeRequest(s, req)
  BY ServeFacts DEF Serve
<1>2. Sound' => PlaceInv' /\ accounts' = accounts
  BY <1>1, ServeTakes, ServePlace DEF ShowInv
<1>3. (Proper => accounts[NoId] = NoPw)'
  BY <1>2, ServeTakes DEF ShowInv, Sound, Proper
<1>4. \A t \in Slot : ListInv(t)'
  <2>1. CASE \/ IgnoredRequest(s, req.id)
             \/ req.id = "LOGIN" /\ ProcessLogin(s, req.arg[1], req.arg[2])
             \/ req.id = "LOBBY_INFO" /\ ProcessLobbyInfo(s)
             \/ req.id = "ROOM_CHAT" /\ ProcessRoomChatMessage(s)
    BY <2>1, ChatterShow
  <2>2. CASE req.id = "ROOM_ENTER" /\ ProcessEnterRoom(s, req.arg)
    <3>1. req.arg \in RoomNumber /\ req.id # "ROOM_INFO"
      BY <1>1, <2>2, Requests
    <3>2. CASE EnterRefused(s, req.arg)
      BY <2>2, <3>2, ChatterShow
    <3>3. CASE EnterUser(s, req.arg)
      BY <2>2, <3>1, <3>3, EnterShow
    <3> QED BY <2>2, <3>2, <3>3 DEF ProcessEnterRoom
  <2>3. CASE req.id = "ROOM_INFO" /\ ProcessRoomInfo(s)
    BY <2>3, InfoShow
  <2>4. CASE req.id = "ROOM_LEAVE" /\ ProcessLeaveRoom(s)
    <3>1. CASE LeaveNoRoom(s, mRoomIndex[s])
      BY <2>4, <3>1, ChatterShow
    <3>2. CASE LeaveUser(s, mRoomIndex[s])
      BY <2>4, <3>2, LeaveShow
    <3> QED BY <2>4, <3>1, <3>2 DEF ProcessLeaveRoom
  <2> QED BY <1>1, <2>1, <2>2, <2>3, <2>4 DEF ServeRequest
<1> QED BY <1>2, <1>3, <1>4 DEF ShowInv

\* At the start nobody is in a room and nothing is on the way.
LEMMA ShowInit == SysInit => ShowInv
<1> SUFFICES ASSUME SysInit PROVE ShowInv
  OBVIOUS
<1>1. Proper => accounts[NoId] = NoPw
  BY AccountAssumption DEF SysInit, Init, DbInit, Proper
<1>2. PlaceInv
  BY DEF SysInit, Init, PlaceInv, In, Live
<1>3. ASSUME NEW s \in Slot PROVE ListInv(s)
  <2>1. /\ toServer[s] = << >> /\ toClient[s] = << >> /\ view[s] = NoRoom
        /\ UserList[s] = [i \in Id |-> 0]
    BY DEF SysInit, Init, Quiet
  <2>2. ~Asking(s)
    BY <2>1 DEF Asking, Asked, Admitted
  <2>3. ASSUME NEW i \in Id PROVE Counted(s, i)
    <3>1. Ends(toClient[s], i, UserList[s][i], 0)
      BY <2>1, EndsNone
    <3>2. Final(s, i, 0)
      BY <2>1 DEF Final, Companions
    <3> QED BY <3>1, <3>2 DEF Counted
  <2> QED BY <2>2, <2>3 DEF ListInv
<1> QED BY <1>1, <1>2, <1>3 DEF ShowInv

\* A stuttering step changes nothing of it.
LEMMA ShowStutter ==
  ASSUME ShowInv, UNCHANGED sysVars
  PROVE  ShowInv'
<1> USE DEF sysVars, formVars, buttonVars, vars, chatVars, dbVars
<1>1. /\ (Proper => accounts[NoId] = NoPw)' /\ (Sound' <=> Sound) /\ (Calm' <=> Calm)
  BY DEF ShowInv, Proper, Sound, Calm
<1>2. Sound' => PlaceInv'
  BY <1>1 DEF ShowInv, PlaceInv, Placed, In, Live, Proper
<1>3. ASSUME NEW t \in Slot PROVE ListInv(t)'
  <2>1. /\ Asking(t)' <=> Asking(t)
        /\ WillBeEarly(t)' <=> WillBeEarly(t)
        /\ Companions(t)' = Companions(t)
    BY DEF Asking, WillBeEarly, Companions, Members
  <2>2. ASSUME Sound', sock[t] # "closed", NEW i \in Id PROVE Counted(t, i)'
    <3>1. PICK n \in Nat : Ends(toClient[t], i, UserList[t][i], n) /\ Final(t, i, n)
      BY <1>1, <2>2 DEF ShowInv, ListInv, Counted
    <3>2. Final(t, i, n)'
      BY <1>1, <2>1, <3>1, FinalKeeps
    <3> QED BY <3>1, <3>2 DEF Counted
  <2> QED BY <2>1, <2>2 DEF ShowInv, ListInv
<1> QED BY <1>1, <1>2, <1>3 DEF ShowInv

\* A step of a form, of the timer, of the connection or of the server.
LEMMA ShowNext == SysIInv /\ ShowInv /\ [SysNext]_sysVars => ShowInv'
<1> SUFFICES ASSUME SysIInv, ShowInv, [SysNext]_sysVars PROVE ShowInv'
  OBVIOUS
<1>1. CASE SysNext
  BY <1>1, FormPart, SystemShow, ServeShow DEF SysNext
<1>2. CASE UNCHANGED sysVars
  BY <1>2, ShowStutter
<1> QED BY <1>1, <1>2

----------------------------------------------------------------------------
(* Theorems.                                                               *)

\* At the start no form is connected and nothing is on the way.
LEMMA SysInitIInv == SysInit => SysIInv
<1> SUFFICES ASSUME SysInit PROVE SysIInv
  OBVIOUS
<1>1. IInv
  BY InitIInv DEF SysInit
<1>2. FormTypeInv
  BY ClientAssumption DEF SysInit, Off, FormTypeInv
<1>3. WireTypeInv
  BY Nothing DEF SysInit, Quiet, WireTypeInv
<1>4. ~fault
  BY DEF SysInit, Init
<1>5. ASSUME NEW s \in Slot PROVE SessionInv(s)
  <2>1. Before(s) /\ sock[s] = "none"
    BY DEF SysInit, Init, Off, Quiet, Before, Shows
  <2> QED BY <2>1 DEF SessionInv
<1> QED BY <1>1, <1>2, <1>3, <1>4, <1>5 DEF SysIInv

\* A step of a form, of the timer, of the connection or of the server.
LEMMA SysNextIInv == SysIInv /\ [SysNext]_sysVars => SysIInv'
<1> SUFFICES ASSUME SysIInv, [SysNext]_sysVars PROVE SysIInv'
  OBVIOUS
<1>1. CASE SysNext
  BY <1>1, ClickStep, TickStep, DropStep, SystemPart, ServePart DEF SysNext
<1>2. CASE UNCHANGED sysVars
  <2> USE <1>2 DEF sysVars, formVars, buttonVars, vars, chatVars
  <2>1. IInv'
    BY NextIInv DEF SysIInv
  <2>2. FormTypeInv' /\ WireTypeInv' /\ ~fault'
    BY DEF SysIInv, FormTypeInv, WireTypeInv
  <2>3. ASSUME NEW s \in Slot PROVE SessionInv(s)'
    <3>1. ServerSame(s) /\ ButtonsSame(s) /\ WaySame(s)
      BY DEF ServerSame, ButtonsSame, WaySame, Carries
    <3> QED BY <3>1, SameSession DEF SysIInv
  <2> QED BY <2>1, <2>2, <2>3 DEF SysIInv
<1> QED BY <1>1, <1>2

\* In every reachable state of the clients and the server, each session is in
\* one of the phases, and the server's own invariant holds.
THEOREM SysInvariance == SysSpec => []SysIInv
<1> QED BY SysInitIInv, SysNextIInv, PTL DEF SysSpec

\* The form, the packets on the way and the server keep their types.
THEOREM SysTypeCorrect == SysSpec => []SysTypeOK
<1>1. SysIInv => SysTypeOK
  <2> SUFFICES ASSUME SysIInv PROVE SysTypeOK
    OBVIOUS
  <2>1. \A s \in Slot : \A k \in DOMAIN toServer[s] : toServer[s][k].id \in Request
    <3> SUFFICES ASSUME NEW s \in Slot, NEW k \in DOMAIN toServer[s]
                 PROVE  toServer[s][k].id \in Request
      OBVIOUS
    <3>1. toServer[s] \in Seq(Sendable)
      BY DEF SysIInv, WireTypeInv
    <3>2. toServer[s][k] \in Sendable
      BY <3>1
    <3> QED BY <3>2, Requests
  <2> QED BY <2>1 DEF SysIInv, IInv, FormTypeInv, SysTypeOK
<1> QED BY <1>1, SysInvariance, PTL

\* However the clicks are timed and whichever connections break, no request
\* for a room's list meets a user without a room (UserStateInRoom.cpp:36).
THEOREM NoNullRoomReached == SysSpec => []NoNullRoom
<1>1. SysIInv => NoNullRoom
  BY DEF SysIInv, NoNullRoom
<1> QED BY <1>1, SysInvariance, PTL

\* Once nothing is on the way, the buttons that can be pressed are those the
\* server has handlers for, unless an enter was refused.
THEOREM ButtonsMatch == SysSpec => []ButtonsMatchState
<1>1. SysIInv => ButtonsMatchState
  <2> SUFFICES ASSUME SysIInv, NEW s \in Slot, Settled(s), s \notin stranded
               PROVE  /\ LoginBtn[s] <=> mState[s] \in {"None", "Connected"}
                      /\ RoomEnterBtn[s] <=> mState[s] = "InLobby"
                      /\ RoomListRefreshBtn[s] <=> mState[s] = "InLobby"
                      /\ RoomExit[s] <=> mState[s] = "InRoom"
                      /\ ChatSend[s] <=> mState[s] = "InRoom"
    BY DEF ButtonsMatchState
  <2>1. Phase(s) /\ RoomListRefreshBtn = RoomEnterBtn /\ ChatSend = RoomExit
    BY DEF Settled, SysIInv, SessionInv, Up, FormTypeInv
  <2>2. \A g : ~OneGrant(toClient[s], g)
    BY DEF Settled, OneGrant
  <2>3. \A id : ~LastIs(toServer[s], id)
    BY DEF Settled, LastIs
  <2>4. LoggingIn(s) \/ AtLobby(s) \/ AtRoom(s)
    BY <2>1, <2>2, <2>3 DEF Phase, LoggedIn, LobbyAsked, LobbyGranted, Entered, RoomAsked,
       RoomGranted, Left, Stranded
  <2> QED BY <2>1, <2>4 DEF LoggingIn, AtLobby, AtRoom, InARoom, Shows
<1> QED BY <1>1, SysInvariance, PTL

\* A user in the room state without a room has no chat and no leave on the way.
LEMMA OutsidersAsk ==
  ASSUME SysIInv, NEW s \in Slot, Serve(s), Live(s), mState[s] = "InRoom", view[s] = NoRoom
  PROVE  Head(toServer[s]).id \notin {"ROOM_LEAVE", "ROOM_CHAT"}
<1>1. /\ toServer[s] # << >>
      /\ \A ids : Only(toServer[s], ids) => Head(toServer[s]).id \in ids
  BY ServeFacts, TakeRequest
<1>2. NoRoom \notin Room /\ handlers[s] # {}
  BY ChatAssumption DEF Live
<1>3. \/ Only(toServer[s], {"ROOM_ENTER", "LOBBY_INFO"})
      \/ Only(toServer[s], {"ROOM_ENTER", "LOBBY_INFO", "ROOM_INFO"})
  <2>1. CASE sock[s] = "open"
    <3>1. Phase(s)
      BY <2>1 DEF SysIInv, SessionInv, Up
    <3> QED
      BY <1>1, <1>2, <3>1 DEF Phase, LoggingIn, LoggedIn, LobbyAsked, LobbyGranted, AtLobby,
                              Entered, RoomAsked, RoomGranted, AtRoom, Left, Stranded, InARoom
  <2>2. CASE sock[s] = "closed"
    <3>1. Down(s)
      BY <2>2 DEF SysIInv, SessionInv
    <3> QED BY <1>2, <3>1 DEF Down
  <2>3. CASE sock[s] = "none"
    BY <1>1, <2>3 DEF SysIInv, SessionInv, Before
  <2> QED BY <2>1, <2>2, <2>3 DEF SysIInv, FormTypeInv
<1> QED BY <1>1, <1>3

\* What a handler sends to the others when its user is in no room and stays so.
LEMMA OutsidersStep ==
  ASSUME SysIInv, NEW s \in Slot, Serve(s), view[s] = NoRoom, view'[s] = NoRoom,
         NEW t \in Slot, t # s
  PROVE  out'[t] = << >>
<1> DEFINE req == Head(toServer[s])
<1>1. ServeRequest(s, req) /\ TypeOK /\ SlotInv /\ NoRoom \notin Room
  BY ChatAssumption DEF Serve, SysIInv, IInv
<1>2. \A p : To(s, p)[t] = << >>
  BY DEF To
<1>3. req.id \in {"ROOM_LEAVE", "ROOM_CHAT"} => ~(Live(s) /\ mState[s] = "InRoom")
  BY OutsidersAsk
<1> HIDE DEF req
<1>4. CASE IgnoredRequest(s, req.id)
  BY <1>4 DEF IgnoredRequest, Quiet
<1>5. CASE ProcessLogin(s, req.arg[1], req.arg[2])
  BY <1>2, <1>5 DEF ProcessLogin, LoginAlready, LoginSuccess, LoginRefused
<1>6. CASE ProcessLobbyInfo(s)
  BY <1>2, <1>6 DEF ProcessLobbyInfo, Then
<1>7. CASE ProcessEnterRoom(s, req.arg)
  <2>1. CASE EnterRefused(s, req.arg)
    BY <1>2, <2>1 DEF EnterRefused
  <2>2. CASE EnterUser(s, req.arg)
    BY <1>1, <2>2 DEF EnterUser, EnterResult, TypeOK
  <2> QED BY <1>7, <2>1, <2>2 DEF ProcessEnterRoom
<1>8. CASE ProcessRoomInfo(s)
  BY <1>2, <1>8 DEF ProcessRoomInfo, Quiet
<1>9. CASE req.id = "ROOM_LEAVE" /\ ProcessLeaveRoom(s)
  BY <1>1, <1>3, <1>9, AcceptsState DEF ProcessLeaveRoom
<1>10. CASE req.id = "ROOM_CHAT" /\ ProcessRoomChatMessage(s)
  BY <1>1, <1>3, <1>10, AcceptsState DEF ProcessRoomChatMessage, ChatThen
<1> QED BY <1>1, <1>4, <1>5, <1>6, <1>7, <1>8, <1>9, <1>10 DEF ServeRequest

\* A client that is in no room, and stays so, has nothing sent to the others,
\* although a refused enter leaves it in the room state with the number of the
\* room (RoomManager::EnterUser's result is not what User::EnterRoom acts on).
THEOREM OutsidersStaySilent == SysSpec => OutsidersSilent
<1>1. SysIInv /\ [SysNext]_sysVars =>
        [\A s \in Slot : Serve(s) /\ view[s] = NoRoom /\ view'[s] = NoRoom =>
           \A t \in Slot \ {s} : out'[t] = << >>]_sysVars
  BY OutsidersStep
<1> QED BY <1>1, SysInvariance, PTL DEF SysSpec, OutsidersSilent

\* In every reachable state what is on the way to a form, put on top of what it
\* shows, comes to the company its client has at the server, but for a client
\* that still asks for the list.
THEOREM ShowInvariance == SysSpec => []ShowInv
<1> QED BY SysInvariance, ShowInit, ShowNext, PTL DEF SysSpec


\* A form with nothing on the way shows what the packets come to.
LEMMA SettledShows ==
  ASSUME SysIInv, ShowInv, Sound, NEW s \in Slot, Settled(s), NEW i \in Id
  PROVE  /\ UserList[s][i] \in Nat
         /\ i \in Companions(s) => UserList[s][i] >= 1
         /\ Calm /\ s \notin early => UserList[s][i] = IF i \in Companions(s) THEN 1 ELSE 0
<1>1. sock[s] # "closed" /\ toServer[s] = << >> /\ toClient[s] = << >>
  BY DEF Settled
<1>2. UserList[s][i] \in Nat
  BY DEF SysIInv, FormTypeInv
<1>3. PICK n \in Nat : Ends(toClient[s], i, UserList[s][i], n) /\ Final(s, i, n)
  BY <1>1 DEF ShowInv, ListInv, Counted
<1>4. n = UserList[s][i]
  <2>1. Ends(<< >>, i, UserList[s][i], n)
    BY <1>1, <1>3
  <2> DEFINE m == UserList[s][i]
  <2>2. m \in Nat /\ Ends(<< >>, i, m, n)
    BY <1>2, <2>1
  <2> HIDE DEF m
  <2>3. n = m
    BY <2>2, EndsNone
  <2> QED BY <2>3 DEF m
<1>5. ~Asking(s) /\ (WillBeEarly(s) => s \in early)
  BY <1>1 DEF Asking, Asked, Admitted, WillBeEarly, Arrival
<1> QED BY <1>2, <1>3, <1>4, <1>5 DEF Final

\* A client whose packets have settled shows everybody the server has in its
\* room, however arrivals, departures and its list crossed and whichever
\* connections broke.  There must be no account under the empty id: a user that
\* has not logged in has that id, and its disconnect erases the entry of one who
\* is logged in under it (UserManager.cpp:56); the next log-in under it then
\* succeeds, and when one of the two leaves a room, both are removed from its
\* list.
THEOREM EverybodyShown ==
  ASSUME NoId \notin InitialId
  PROVE  SysSpec => []CompanionsShown
<1>1. SysIInv /\ ShowInv => CompanionsShown
  <2> SUFFICES ASSUME SysIInv, ShowInv, NEW s \in Slot, Settled(s), NEW i \in Companions(s)
               PROVE  UserList[s][i] >= 1
    BY DEF CompanionsShown
  <2>1. Sound
    BY DEF Sound, Proper
  <2>2. i \in Id
    BY DEF Companions, Members, SysIInv, IInv, TypeOK
  <2> QED BY <2>1, <2>2, SettledShows
<1> QED BY <1>1, SysInvariance, ShowInvariance, PTL

\* While no connection has broken it shows each of them once, and nobody who
\* left or never came, unless it was told of an arrival before the list.
THEOREM NobodyElse == SysSpec => []NobodyElseShown
<1>1. SysIInv /\ ShowInv => NobodyElseShown
  <2> SUFFICES ASSUME SysIInv, ShowInv, Calm, NEW s \in Slot, Settled(s), s \notin early,
                      NEW i \in Id
               PROVE  UserList[s][i] = IF i \in Companions(s) THEN 1 ELSE 0
    BY DEF NobodyElseShown, Calm
  <2> QED BY SettledShows DEF Sound
<1> QED BY <1>1, SysInvariance, ShowInvariance, PTL
=============================================================================
