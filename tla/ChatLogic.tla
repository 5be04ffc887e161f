----------------------------- MODULE ChatLogic -----------------------------
(***************************************************************************)
(* What the packet-process thread does with the packets it takes: the two  *)
(* system packets and the seven requests, over User, UserManager, Room,    *)
(* RoomManager and AccountDB.  Only this thread touches that state, so     *)
(* one handler is one action.                                              *)
(*                                                                         *)
(* A slot is a client index: the User object and the session of that       *)
(* index.  IocpSession shows that a slot is accepted at most once, so      *)
(* SYS_USER_CONNECT arrives at most once per slot; SYS_USER_DISCONNECT     *)
(* may arrive several times, and before the connect.                       *)
(*                                                                         *)
(* mUserList is kept as how often each User is in the list: no property    *)
(* depends on the order in which a room's members are stored.              *)
(***************************************************************************)
EXTENDS AccountDB, Sequences

CONSTANTS
    Slot,            \* client indices
    NoSlot,          \* -1, what FindUserIndexByID returns for an unknown id
    Room,            \* the room numbers RoomManager::Init creates
    RoomNumber,      \* the room numbers a request may carry
    NoRoom,          \* -1, the room index of a cleared User
    mMaxUserCount    \* room capacity

ASSUME ChatAssumption ==
    /\ IsFiniteSet(Slot) /\ NoSlot \notin Slot
    /\ Room \subseteq RoomNumber /\ NoRoom \in RoomNumber \ Room
    /\ mMaxUserCount \in Nat

VARIABLES
    accepted,             \* slots whose SYS_USER_CONNECT was processed
    mState,               \* User::mState
    handlers,             \* requests with a handler in recvFuntionDictionary
    mUserID,              \* User::mUserID
    mRoomIndex,           \* User::mRoomIndex
    mUserIDDictionary,    \* UserManager: the slot logged in under each id
    mUserList,            \* Room: how often each User is in each room's list
    mCurrentUserCount,    \* Room::mCurrentUserCount
    out,                  \* the packets the last handler sent to each slot
    view,                 \* history: the room each client was told it is in
    fault                 \* a null Room pointer was dereferenced

chatVars == <<accepted, mState, handlers, mUserID, mRoomIndex,
              mUserIDDictionary, mUserList, mCurrentUserCount, out, view, fault>>
vars == <<dbVars, chatVars>>

State == {"None", "Connected", "InLobby", "InRoom"}

\* What Enter() of each state installs after ResetRecvFunction.
Handlers(state) ==
    CASE state = "Connected" -> {"CREATE_ACCOUNT", "LOGIN"}
      [] state = "InLobby"   -> {"LOBBY_INFO", "ROOM_ENTER"}
      [] state = "InRoom"    -> {"ROOM_INFO", "ROOM_LEAVE", "ROOM_CHAT"}
      [] OTHER               -> {}

Request == UNION {Handlers(state) : state \in State}

TypeOK ==
    /\ DbTypeOK
    /\ accepted \subseteq Slot
    /\ mState \in [Slot -> State]
    /\ handlers \in [Slot -> SUBSET Request]
    /\ mUserID \in [Slot -> Id]
    /\ mRoomIndex \in [Slot -> RoomNumber]
    /\ mUserIDDictionary \in [Id -> Slot \cup {NoSlot}]
    /\ mUserList \in [Room -> [Slot -> Nat]]
    /\ mCurrentUserCount \in [Room -> Nat]
    /\ view \in [Slot -> Room \cup {NoRoom}]
    /\ fault \in BOOLEAN
    /\ DOMAIN out = Slot

Quiet == [s \in Slot |-> << >>]

Init ==
    /\ DbInit
    /\ accepted = {}
    /\ mState = [s \in Slot |-> "None"]
    /\ handlers = [s \in Slot |-> {}]
    /\ mUserID = [s \in Slot |-> NoId]
    /\ mRoomIndex = [s \in Slot |-> NoRoom]
    /\ mUserIDDictionary = [i \in Id |-> NoSlot]
    /\ mUserList = [r \in Room |-> [s \in Slot |-> 0]]
    /\ mCurrentUserCount = [r \in Room |-> 0]
    /\ out = Quiet
    /\ view = [s \in Slot |-> NoRoom]
    /\ fault = FALSE

----------------------------------------------------------------------------
(* Sending: sendPacketFunc to one slot, Room::SendToAllUser to a room.     *)

To(s, pkt) == [t \in Slot |-> IF t = s THEN <<pkt>> ELSE << >>]

\* One packet per entry of the list, the sender included (exceptMe is FALSE).
SendToAllUser(r, pkt) == [t \in Slot |-> [i \in 1..mUserList[r][t] |-> pkt]]

Then(a, b) == [t \in Slot |-> a[t] \o b[t]]

----------------------------------------------------------------------------
(* User.                                                                   *)

ChangeState(s, state) ==
    /\ mState' = [mState EXCEPT ![s] = state]
    /\ handlers' = [handlers EXCEPT ![s] = Handlers(state)]

\* The User of slot s is cleared and its handlers become hs.  ChangeState(None)
\* returns at once, so Clear keeps mState.
Clear(s, hs) ==
    /\ mRoomIndex' = [mRoomIndex EXCEPT ![s] = NoRoom]
    /\ mUserID' = [mUserID EXCEPT ![s] = NoId]
    /\ handlers' = [handlers EXCEPT ![s] = hs]

----------------------------------------------------------------------------
(* System packets.                                                         *)

ProcessUserConnect(s) ==
    /\ ~fault /\ s \notin accepted
    /\ accepted' = accepted \cup {s}
    /\ Clear(s, Handlers("Connected"))
    /\ mState' = [mState EXCEPT ![s] = "Connected"]
    /\ out' = Quiet
    /\ UNCHANGED <<dbVars, mUserIDDictionary, mUserList, mCurrentUserCount, view, fault>>

\* Mutant: Clear runs before the erase, which then erases the empty id.
DisConnectClearsFirst(s) ==
    /\ ~fault /\ mState[s] # "None"
    /\ mUserIDDictionary' = [mUserIDDictionary EXCEPT ![NoId] = NoSlot]
    /\ Clear(s, {})
    /\ view' = [view EXCEPT ![s] = NoRoom]
    /\ out' = Quiet
    /\ UNCHANGED <<dbVars, accepted, mState, mUserList, mCurrentUserCount, fault>>

\* ClearConnectionInfo and DeleteUserInfo: the id is erased from the directory
\* whoever is logged in under it; the room the user is in is not told.
ProcessUserDisConnect(s) ==
    /\ ~fault /\ mState[s] # "None"
    /\ mUserIDDictionary' = [mUserIDDictionary EXCEPT ![mUserID[s]] = NoSlot]
    /\ Clear(s, {})
    /\ view' = [view EXCEPT ![s] = NoRoom]
    /\ out' = Quiet
    /\ UNCHANGED <<dbVars, accepted, mState, mUserList, mCurrentUserCount, fault>>

\* A disconnect that overtook its connect finds mState None.
IgnoredDisConnect(s) ==
    /\ ~fault /\ mState[s] = "None"
    /\ out' = Quiet
    /\ UNCHANGED <<dbVars, accepted, mState, handlers, mUserID, mRoomIndex,
                   mUserIDDictionary, mUserList, mCurrentUserCount, view, fault>>

----------------------------------------------------------------------------
(* Requests.  Accepts: the request has a handler in the user's state; the  *)
(* packets of every other request are dropped by an empty handler.         *)

Accepts(s, req) == ~fault /\ req \in handlers[s]

IgnoredRequest(s, req) ==
    /\ ~fault /\ req \notin handlers[s]
    /\ out' = Quiet
    /\ UNCHANGED <<dbVars, accepted, mState, handlers, mUserID, mRoomIndex,
                   mUserIDDictionary, mUserList, mCurrentUserCount, view, fault>>

ProcessCreateAccount(s, id, pw) ==
    /\ Accepts(s, "CREATE_ACCOUNT")
    /\ \E ok \in BOOLEAN :
          /\ CreateAccount(id, pw, ok)
          /\ out' = To(s, <<"ACK_CREATE_ACCOUNT",
                            IF ok THEN "NONE" ELSE "CREATE_ACCOUNT_FAIL">>)
    /\ UNCHANGED <<accepted, mState, handlers, mUserID, mRoomIndex,
                   mUserIDDictionary, mUserList, mCurrentUserCount, view, fault>>

\* AddUser: SetLogin, and the directory entry.
AddUser(s, id) ==
    /\ ChangeState(s, "InLobby")
    /\ mUserID' = [mUserID EXCEPT ![s] = id]
    /\ mUserIDDictionary' = [mUserIDDictionary EXCEPT ![id] = s]

LoginUnchanged == UNCHANGED <<mState, handlers, mUserID, mUserIDDictionary>>

\* CheckLoginable.  mCurrentUserCnt is never incremented, so its limit test
\* never refuses anybody.
LoginAlready(s, id, pw) ==
    /\ mUserIDDictionary[id] # NoSlot
    /\ out' = To(s, <<"ACK_LOGIN", "LOGIN_USER_ALREADY">>)
    /\ UNCHANGED dbVars /\ LoginUnchanged

\* Mutant: the directory is not consulted.
LoginUnchecked(s, id, pw) ==
    /\ SelectAccount(id, pw, TRUE)
    /\ AddUser(s, id)
    /\ out' = To(s, <<"ACK_LOGIN", "LOGIN_SUCCESS">>)

LoginSuccess(s, id, pw) ==
    /\ mUserIDDictionary[id] = NoSlot
    /\ SelectAccount(id, pw, TRUE)
    /\ AddUser(s, id)
    /\ out' = To(s, <<"ACK_LOGIN", "LOGIN_SUCCESS">>)

LoginRefused(s, id, pw) ==
    /\ mUserIDDictionary[id] = NoSlot
    /\ SelectAccount(id, pw, FALSE)
    /\ out' = To(s, <<"ACK_LOGIN", "LOGIN_USER_INVALID_PW">>)
    /\ LoginUnchanged

ProcessLogin(s, id, pw) ==
    /\ Accepts(s, "LOGIN")
    /\ LoginAlready(s, id, pw) \/ LoginSuccess(s, id, pw) \/ LoginRefused(s, id, pw)
    /\ UNCHANGED <<accepted, mRoomIndex, mUserList, mCurrentUserCount, view, fault>>

ProcessLobbyInfo(s) ==
    /\ Accepts(s, "LOBBY_INFO")
    /\ out' = Then(To(s, <<"ACK_LOBBY_INFO", "LOBBY_INFO_SUCCESS">>),
                   To(s, <<"NOTIFY_LOBBY_INFO", Room>>))
    /\ UNCHANGED <<dbVars, accepted, mState, handlers, mUserID, mRoomIndex,
                   mUserIDDictionary, mUserList, mCurrentUserCount, view, fault>>

\* Mutant: off by one in the capacity test.
EnterResultOffByOne(n) ==
    IF n \notin Room THEN "ROOM_INVALID_INDEX"
    ELSE IF mCurrentUserCount[n] > mMaxUserCount THEN "ROOM_FULL"
    ELSE "ENTER_ROOM_SUCCESS"

\* RoomManager::EnterUser, then User::EnterRoom, which moves the user into the
\* InRoom state with the requested number whatever the result was.
EnterResult(n) ==
    IF n \notin Room THEN "ROOM_INVALID_INDEX"
    ELSE IF mCurrentUserCount[n] >= mMaxUserCount THEN "ROOM_FULL"
    ELSE "ENTER_ROOM_SUCCESS"

EnterRefused(s, n) ==
    /\ EnterResult(n) # "ENTER_ROOM_SUCCESS"
    /\ out' = To(s, <<"ACK_ROOM_ENTER", EnterResult(n)>>)
    /\ UNCHANGED <<mUserList, mCurrentUserCount, view>>

EnterUser(s, n) ==
    /\ EnterResult(n) = "ENTER_ROOM_SUCCESS"
    /\ out' = Then(SendToAllUser(n, <<"NOTIFY_ROOM_INFO", mUserID[s]>>),
                   To(s, <<"ACK_ROOM_ENTER", "ENTER_ROOM_SUCCESS">>))
    /\ mUserList' = [mUserList EXCEPT ![n][s] = @ + 1]
    /\ mCurrentUserCount' = [mCurrentUserCount EXCEPT ![n] = @ + 1]
    /\ view' = [view EXCEPT ![s] = n]

ProcessEnterRoom(s, n) ==
    /\ Accepts(s, "ROOM_ENTER")
    /\ EnterRefused(s, n) \/ EnterUser(s, n)
    /\ mRoomIndex' = [mRoomIndex EXCEPT ![s] = n]
    /\ ChangeState(s, "InRoom")
    /\ UNCHANGED <<dbVars, accepted, mUserID, mUserIDDictionary, fault>>

\* GetRoom may return a null pointer, which is dereferenced unchecked.
ProcessRoomInfo(s) ==
    /\ Accepts(s, "ROOM_INFO")
    /\ LET r == mRoomIndex[s] IN
         /\ fault' = (r \notin Room)
         /\ out' = IF r \in Room
                   THEN To(s, <<"ACK_ROOM_INFO",
                                {mUserID[t] : t \in {u \in Slot : mUserList[r][u] > 0}}>>)
                   ELSE Quiet
    /\ UNCHANGED <<dbVars, accepted, mState, handlers, mUserID, mRoomIndex,
                   mUserIDDictionary, mUserList, mCurrentUserCount, view>>

\* Tell everybody in the list that s leaves, then keep the entries of kept.
LeaveKeeping(s, r, kept) ==
    /\ r \in Room
    /\ out' = Then(SendToAllUser(r, <<"NOTIFY_ROOM_LEAVE", mUserID[s]>>),
                   To(s, <<"ACK_ROOM_LEAVE", "LEAVE_ROOM_SUCCESS">>))
    /\ mUserList' = [mUserList EXCEPT ![r] =
                       [t \in Slot |-> IF t \in kept THEN mUserList[r][t] ELSE 0]]
    /\ view' = [view EXCEPT ![s] = NoRoom]

\* Mutants: nothing is removed; the whole list is cleared.
LeaveUserKeepsAll(s, r) == LeaveKeeping(s, r, Slot)
LeaveUserClearsAll(s, r) == LeaveKeeping(s, r, {})

\* Room::LeaveUser: every entry with the leaver's id is removed.  The count of
\* the room is not decremented.
LeaveUser(s, r) == LeaveKeeping(s, r, {t \in Slot : mUserID[t] # mUserID[s]})

LeaveNoRoom(s, r) ==
    /\ r \notin Room
    /\ out' = To(s, <<"ACK_ROOM_LEAVE", "ROOM_INVALID_INDEX">>)
    /\ UNCHANGED <<mUserList, view>>

\* Mutant: a leave decrements the room's counter, also one of a user that the
\* room had refused.
LeaveRoomCounts(s) ==
    /\ Accepts(s, "ROOM_LEAVE")
    /\ LeaveUser(s, mRoomIndex[s]) \/ LeaveNoRoom(s, mRoomIndex[s])
    /\ ChangeState(s, "InLobby")
    /\ mCurrentUserCount' = [r \in Room |-> IF r = mRoomIndex[s] THEN mCurrentUserCount[r] - 1
                                          ELSE mCurrentUserCount[r]]
    /\ UNCHANGED <<dbVars, accepted, mUserID, mRoomIndex, mUserIDDictionary, fault>>

\* Mutant: a leave does not change the state.
LeaveRoomStays(s) ==
    /\ Accepts(s, "ROOM_LEAVE")
    /\ LeaveUser(s, mRoomIndex[s]) \/ LeaveNoRoom(s, mRoomIndex[s])
    /\ UNCHANGED <<dbVars, accepted, mState, handlers, mUserID, mRoomIndex,
                   mUserIDDictionary, mCurrentUserCount, fault>>

\* User::LeaveRoom keeps mRoomIndex.
ProcessLeaveRoom(s) ==
    /\ Accepts(s, "ROOM_LEAVE")
    /\ LeaveUser(s, mRoomIndex[s]) \/ LeaveNoRoom(s, mRoomIndex[s])
    /\ ChangeState(s, "InLobby")
    /\ UNCHANGED <<dbVars, accepted, mUserID, mRoomIndex, mUserIDDictionary,
                   mCurrentUserCount, fault>>

\* Acknowledge, then notify the room.
ChatThen(s, notify) ==
    /\ Accepts(s, "ROOM_CHAT")
    /\ out' = IF mRoomIndex[s] \in Room
              THEN Then(To(s, <<"ACK_ROOM_CHAT", "CHAT_ROOM_SUCCESS">>), notify)
              ELSE To(s, <<"ACK_ROOM_CHAT", "CHAT_ROOM_INVALID_ROOM_NUMBER">>)
    /\ UNCHANGED <<dbVars, accepted, mState, handlers, mUserID, mRoomIndex,
                   mUserIDDictionary, mUserList, mCurrentUserCount, view, fault>>

\* Mutant: exceptMe is TRUE.
ChatExceptMe(s) ==
    ChatThen(s, [SendToAllUser(mRoomIndex[s], <<"NOTIFY_ROOM_CHAT", mUserID[s]>>)
                   EXCEPT ![s] = << >>])

ProcessRoomChatMessage(s) ==
    ChatThen(s, SendToAllUser(mRoomIndex[s], <<"NOTIFY_ROOM_CHAT", mUserID[s]>>))

----------------------------------------------------------------------------
\* The thread dies with the process on a null dereference.
Crashed == fault /\ UNCHANGED vars

Handle(s) ==
    \/ ProcessUserConnect(s)
    \/ ProcessUserDisConnect(s)
    \/ IgnoredDisConnect(s)
    \/ \E req \in Request : IgnoredRequest(s, req)
    \/ \E id \in Id, pw \in Pw : ProcessCreateAccount(s, id, pw)
    \/ \E id \in Id, pw \in Pw : ProcessLogin(s, id, pw)
    \/ ProcessLobbyInfo(s)
    \/ \E n \in RoomNumber : ProcessEnterRoom(s, n)
    \/ ProcessRoomInfo(s)
    \/ ProcessLeaveRoom(s)
    \/ ProcessRoomChatMessage(s)

Next == (\E s \in Slot : Handle(s)) \/ Crashed

Spec == Init /\ [][Next]_vars

----------------------------------------------------------------------------
(* Properties.                                                             *)

\* A session is live when its connect was processed and no disconnect since.
Live(s) == handlers[s] # {}

\* The directory and the users agree on who is logged in as what: under an id
\* other than "" exactly one user, the one the directory names.  Logins,
\* repeated disconnects and a clear by the connect packet could each break it.
LoginExclusive ==
    \A s \in Slot, i \in Id \ {NoId} : mUserID[s] = i <=> mUserIDDictionary[i] = s

\* The directory holds no stale entry: whoever it names is live, past the
\* login and carries that id.  A stale entry would lock the account out
\* (LOGIN_USER_ALREADY) until the server restarts.
DirectoryLive ==
    \A i \in Id : mUserIDDictionary[i] # NoSlot =>
        LET s == mUserIDDictionary[i] IN
          mUserID[s] = i /\ Live(s) /\ mState[s] \in {"InLobby", "InRoom"}

Members(r) == {s \in Slot : mUserList[r][s] > 0}

\* A room never holds more users than its capacity, counting the entries that
\* disconnected users leave behind, and its counter, which only enters touch,
\* never falls below the list it stands for.
RoomCapacity ==
    \A r \in Room : /\ Cardinality(Members(r)) <= mCurrentUserCount[r]
                    /\ mCurrentUserCount[r] <= mMaxUserCount

\* A User is in at most one room's list, once; if it is live, it is in the
\* InRoom state and points to that room, so that its leave removes it there.
OneRoom ==
    \A r \in Room, s \in Slot : mUserList[r][s] > 0 =>
        /\ mUserList[r][s] = 1
        /\ \A q \in Room \ {r} : mUserList[q][s] = 0
        /\ Live(s) => mState[s] = "InRoom" /\ mRoomIndex[s] = r

Named(s) == Live(s) /\ mUserID[s] # NoId

\* A client that logged in under a proper id is in a room's list exactly when
\* the acknowledgements it was sent say so, whatever others do in the room.
ListMatchesAcks ==
    \A s \in Slot, r \in Room : Named(s) => (view[s] = r <=> mUserList[r][s] > 0)

ChatFrom(i) == <<"NOTIFY_ROOM_CHAT", i>>

\* How many copies of pkt the last handler sent to t.
Copies(t, pkt) == Cardinality({k \in DOMAIN out[t] : out[t][k] = pkt})

\* A chat message from a client that was admitted to a room is delivered once
\* to each client admitted to it, its sender included, and to no client that
\* was told it is elsewhere.
ChatReachesRoom ==
    [][\A s \in Slot : ProcessRoomChatMessage(s) /\ Named(s) /\ view[s] # NoRoom =>
          \A t \in Slot : Named(t) =>
             Copies(t, ChatFrom(mUserID[s]))' = IF view[t] = view[s] THEN 1 ELSE 0]_vars

\* Whoever is logged in has an account.
LoggedInRegistered ==
    \A i \in Id : mUserIDDictionary[i] # NoSlot => accounts[i] # NoPw

\* "A user who is connected already gets a failure" (UserManager.cpp:99): no
\* two live sessions are logged in under one id, "" included.
NoDoubleLogin ==
    \A s, t \in Slot : Live(s) /\ Live(t) /\ mUserID[s] = mUserID[t]
                       /\ mState[s] \in {"InLobby", "InRoom"}
                       /\ mState[t] \in {"InLobby", "InRoom"} => s = t
=============================================================================
