-------------------------- MODULE ChatLogicProofs --------------------------
(***************************************************************************)
(* Proofs about ChatLogic, for any number of sessions, ids and rooms.      *)
(*                                                                         *)
(* The properties are not inductive one by one.  A login may not meet a    *)
(* user that is still in a room's list; a leave removes entries by id, so  *)
(* it spares the others only because ids are exclusive.  IInv is their     *)
(* conjunction with SlotInv, which says what the state of a user implies.  *)
(***************************************************************************)
EXTENDS ChatLogic, FiniteSetTheorems, SequenceTheorems, TLAPS

InNoList(s) == \A r \in Room : mUserList[r][s] = 0

\* Handlers are those of the state or none; a user gets an id with the login,
\* loses it with its handlers, and starts outside every room.
SlotInv ==
    \A s \in Slot :
        /\ handlers[s] \in {{}, Handlers(mState[s])}
        /\ s \in accepted <=> mState[s] # "None"
        /\ mState[s] = "None" => ~Live(s) /\ InNoList(s)
        /\ mState[s] \in {"None", "Connected"} => view[s] = NoRoom
        /\ ~Live(s) \/ mState[s] = "Connected" => mUserID[s] = NoId

IInv ==
    /\ TypeOK
    /\ SlotInv
    /\ LoginExclusive
    /\ DirectoryLive
    /\ RoomCapacity
    /\ OneRoom
    /\ ListMatchesAcks

\* What SlotInv and the properties depend on.
coreVars == <<accepted, mState, handlers, mUserID, mRoomIndex,
              mUserIDDictionary, mUserList, mCurrentUserCount, view>>

----------------------------------------------------------------------------
(* Facts about the handlers.                                               *)

\* Every state installs a set of known requests.
LEMMA HandlersType == \A state \in State : Handlers(state) \in SUBSET Request
  BY DEF Request

\* A request that is accepted tells the state of its user.
LEMMA AcceptsState ==
  ASSUME TypeOK, SlotInv, NEW s \in Slot
  PROVE  /\ \A req : Accepts(s, req) => Live(s)
         /\ Accepts(s, "CREATE_ACCOUNT") => mState[s] = "Connected"
         /\ Accepts(s, "LOGIN") => mState[s] = "Connected"
         /\ Accepts(s, "LOBBY_INFO") => mState[s] = "InLobby"
         /\ Accepts(s, "ROOM_ENTER") => mState[s] = "InLobby"
         /\ Accepts(s, "ROOM_INFO") => mState[s] = "InRoom"
         /\ Accepts(s, "ROOM_LEAVE") => mState[s] = "InRoom"
         /\ Accepts(s, "ROOM_CHAT") => mState[s] = "InRoom"
<1>1. handlers[s] = {} \/ handlers[s] = Handlers(mState[s])
  BY DEF SlotInv
<1>2. \A req : Accepts(s, req) => req \in Handlers(mState[s]) /\ Live(s)
  BY <1>1 DEF Accepts, Live
<1>3. mState[s] \in State
  BY DEF TypeOK
<1>4. \A state \in State :
        /\ "CREATE_ACCOUNT" \in Handlers(state) => state = "Connected"
        /\ "LOGIN" \in Handlers(state) => state = "Connected"
        /\ "LOBBY_INFO" \in Handlers(state) => state = "InLobby"
        /\ "ROOM_ENTER" \in Handlers(state) => state = "InLobby"
        /\ "ROOM_INFO" \in Handlers(state) => state = "InRoom"
        /\ "ROOM_LEAVE" \in Handlers(state) => state = "InRoom"
        /\ "ROOM_CHAT" \in Handlers(state) => state = "InRoom"
  BY DEF State, Handlers
<1> QED
  BY <1>2, <1>3, <1>4

\* Entering a state installs at least one handler.
LEMMA HandlersSome ==
  /\ Handlers("Connected") # {}
  /\ Handlers("InLobby") # {}
  /\ Handlers("InRoom") # {}
  BY DEF Handlers

----------------------------------------------------------------------------
(* Types.                                                                  *)

\* The two queries keep the type of the table and of the statement handle.
LEMMA DbStep ==
  ASSUME DbTypeOK, NEW id \in Id, NEW pw \in Pw, NEW ret \in BOOLEAN,
         CreateAccount(id, pw, ret) \/ SelectAccount(id, pw, ret)
  PROVE  DbTypeOK'
  BY DEF DbTypeOK, CreateAccount, SelectAccount, dbVars

\* Every step keeps the types.
LEMMA TypeStep ==
  ASSUME TypeOK, SlotInv, [Next]_vars
  PROVE  TypeOK'
<1> USE AccountAssumption, ChatAssumption
<1>1. ASSUME NEW s \in Slot, ProcessUserConnect(s) PROVE TypeOK'
  BY <1>1, HandlersType DEF TypeOK, DbTypeOK, ProcessUserConnect, Clear, Quiet, dbVars, State
<1>2. ASSUME NEW s \in Slot, ProcessUserDisConnect(s) PROVE TypeOK'
  BY <1>2 DEF TypeOK, DbTypeOK, ProcessUserDisConnect, Clear, Quiet, dbVars
<1>3. ASSUME NEW s \in Slot, IgnoredDisConnect(s) PROVE TypeOK'
  BY <1>3 DEF TypeOK, DbTypeOK, IgnoredDisConnect, Quiet, dbVars
<1>4. ASSUME NEW s \in Slot, NEW req \in Request, IgnoredRequest(s, req) PROVE TypeOK'
  BY <1>4 DEF TypeOK, DbTypeOK, IgnoredRequest, Quiet, dbVars
<1>5. ASSUME NEW s \in Slot, NEW id \in Id, NEW pw \in Pw, ProcessCreateAccount(s, id, pw)
      PROVE  TypeOK'
  <2>1. DbTypeOK'
    BY <1>5, DbStep DEF TypeOK, ProcessCreateAccount
  <2> QED
    BY <1>5, <2>1 DEF TypeOK, ProcessCreateAccount, To
<1>6. ASSUME NEW s \in Slot, NEW id \in Id, NEW pw \in Pw, ProcessLogin(s, id, pw)
      PROVE  TypeOK'
  <2>1. DbTypeOK'
    BY <1>6, DbStep DEF TypeOK, ProcessLogin, LoginAlready, LoginSuccess, LoginRefused,
                        dbVars, DbTypeOK
  <2>2. DOMAIN out' = Slot
    BY <1>6 DEF ProcessLogin, LoginAlready, LoginSuccess, LoginRefused, To
  <2>3. CASE LoginSuccess(s, id, pw)
    BY <1>6, <2>1, <2>2, <2>3, HandlersType
    DEF TypeOK, ProcessLogin, LoginSuccess, AddUser, ChangeState, State
  <2>4. CASE LoginUnchanged
    BY <1>6, <2>1, <2>2, <2>4 DEF TypeOK, ProcessLogin, LoginUnchanged
  <2> QED
    BY <1>6, <2>3, <2>4 DEF ProcessLogin, LoginAlready, LoginRefused
<1>7. ASSUME NEW s \in Slot, ProcessLobbyInfo(s) PROVE TypeOK'
  BY <1>7 DEF TypeOK, DbTypeOK, ProcessLobbyInfo, Then, dbVars
<1>8. ASSUME NEW s \in Slot, NEW n \in RoomNumber, ProcessEnterRoom(s, n) PROVE TypeOK'
  <2>1. /\ DOMAIN out' = Slot
        /\ mUserList' \in [Room -> [Slot -> Nat]]
        /\ mCurrentUserCount' \in [Room -> Nat]
        /\ view' \in [Slot -> Room \cup {NoRoom}]
    <3>1. CASE EnterRefused(s, n)
      BY <1>8, <3>1 DEF TypeOK, EnterRefused, To
    <3>2. CASE EnterUser(s, n)
      <4>1. n \in Room
        BY <3>2 DEF EnterUser, EnterResult
      <4> QED
        BY <1>8, <3>2, <4>1 DEF TypeOK, EnterUser, Then
    <3> QED
      BY <1>8, <3>1, <3>2 DEF ProcessEnterRoom
  <2> QED
    BY <1>8, <2>1, HandlersType
    DEF TypeOK, DbTypeOK, ProcessEnterRoom, ChangeState, State, dbVars
<1>9. ASSUME NEW s \in Slot, ProcessRoomInfo(s) PROVE TypeOK'
  <2>1. DOMAIN out' = Slot /\ fault' \in BOOLEAN
    BY <1>9 DEF ProcessRoomInfo, To, Quiet
  <2> QED
    BY <1>9, <2>1 DEF TypeOK, DbTypeOK, ProcessRoomInfo, dbVars
<1>10. ASSUME NEW s \in Slot, ProcessLeaveRoom(s) PROVE TypeOK'
  <2>1. /\ DOMAIN out' = Slot
        /\ mUserList' \in [Room -> [Slot -> Nat]]
        /\ view' \in [Slot -> Room \cup {NoRoom}]
    <3>1. CASE LeaveUser(s, mRoomIndex[s])
      BY <3>1 DEF TypeOK, LeaveUser, LeaveKeeping, Then
    <3>2. CASE LeaveNoRoom(s, mRoomIndex[s])
      BY <3>2 DEF TypeOK, LeaveNoRoom, To
    <3> QED
      BY <1>10, <3>1, <3>2 DEF ProcessLeaveRoom
  <2> QED
    BY <1>10, <2>1, HandlersType
    DEF TypeOK, DbTypeOK, ProcessLeaveRoom, ChangeState, State, dbVars
<1>11. ASSUME NEW s \in Slot, ProcessRoomChatMessage(s) PROVE TypeOK'
  <2>1. DOMAIN out' = Slot
    BY <1>11 DEF ProcessRoomChatMessage, ChatThen, Then, To
  <2> QED
    BY <1>11, <2>1 DEF TypeOK, DbTypeOK, ProcessRoomChatMessage, ChatThen, dbVars
<1>12. CASE UNCHANGED vars
  BY <1>12 DEF TypeOK, DbTypeOK, vars, dbVars, chatVars
<1> QED
  BY <1>1, <1>2, <1>3, <1>4, <1>5, <1>6, <1>7, <1>8, <1>9, <1>10, <1>11, <1>12
  DEF Next, Handle, Crashed

----------------------------------------------------------------------------
(* The invariant, one lemma per kind of step.  TypeOK' comes from TypeStep.*)

Inv == SlotInv /\ LoginExclusive /\ DirectoryLive /\ RoomCapacity /\ OneRoom /\ ListMatchesAcks

\* Handlers that only send, or change the database, keep everything.
LEMMA QuietStep ==
  ASSUME IInv, UNCHANGED coreVars
  PROVE  Inv'
<1> USE DEF coreVars
<1>1. SlotInv'
  BY DEF IInv, SlotInv, Live, InNoList
<1>2. LoginExclusive'
  BY DEF IInv, LoginExclusive
<1>3. DirectoryLive'
  BY DEF IInv, DirectoryLive, Live
<1>4. RoomCapacity'
  BY DEF IInv, RoomCapacity, Members
<1>5. OneRoom'
  BY DEF IInv, OneRoom, Live
<1>6. ListMatchesAcks'
  BY DEF IInv, ListMatchesAcks, Named, Live
<1> QED
  BY <1>1, <1>2, <1>3, <1>4, <1>5, <1>6 DEF Inv

\* A connect meets a user that is in no list and in no directory entry.
LEMMA ConnectStep ==
  ASSUME IInv, TypeOK', NEW s \in Slot, ProcessUserConnect(s)
  PROVE  Inv'
<1> USE ChatAssumption, AccountAssumption
<1>1. /\ mState[s] = "None" /\ ~Live(s) /\ InNoList(s)
      /\ view[s] = NoRoom /\ mUserID[s] = NoId
  BY DEF IInv, SlotInv, ProcessUserConnect
<1>2. \A i \in Id : mUserIDDictionary[i] # s
  BY <1>1 DEF IInv, TypeOK, DirectoryLive
<1>3. SlotInv'
  BY <1>1, HandlersSome DEF IInv, TypeOK, SlotInv, ProcessUserConnect, Clear, Live, InNoList
<1>4. LoginExclusive'
  BY <1>1 DEF IInv, TypeOK, LoginExclusive, ProcessUserConnect, Clear
<1>5. DirectoryLive'
  BY <1>2 DEF IInv, TypeOK, DirectoryLive, Live, ProcessUserConnect, Clear
<1>6. RoomCapacity'
  BY DEF IInv, RoomCapacity, Members, ProcessUserConnect
<1>7. OneRoom'
  BY <1>1 DEF IInv, TypeOK, OneRoom, Live, ProcessUserConnect, Clear, InNoList
<1>8. ListMatchesAcks'
  BY <1>1 DEF IInv, TypeOK, ListMatchesAcks, Named, Live, ProcessUserConnect, Clear
<1> QED
  BY <1>3, <1>4, <1>5, <1>6, <1>7, <1>8 DEF Inv

\* A disconnect erases the entry of the id its user carries: if that is a
\* proper id, the entry is the user's own.
LEMMA DisConnectStep ==
  ASSUME IInv, TypeOK', NEW s \in Slot, ProcessUserDisConnect(s)
  PROVE  Inv'
<1> USE ChatAssumption, AccountAssumption
<1>1. SlotInv'
  BY DEF IInv, TypeOK, SlotInv, ProcessUserDisConnect, Clear, Live, InNoList
<1>2. LoginExclusive'
  BY DEF IInv, TypeOK, LoginExclusive, ProcessUserDisConnect, Clear
<1>3. DirectoryLive'
  BY DEF IInv, TypeOK, DirectoryLive, Live, ProcessUserDisConnect, Clear
<1>4. RoomCapacity'
  BY DEF IInv, RoomCapacity, Members, ProcessUserDisConnect
<1>5. OneRoom'
  BY DEF IInv, TypeOK, OneRoom, Live, ProcessUserDisConnect, Clear
<1>6. ListMatchesAcks'
  BY DEF IInv, TypeOK, ListMatchesAcks, Named, Live, ProcessUserDisConnect, Clear
<1> QED
  BY <1>1, <1>2, <1>3, <1>4, <1>5, <1>6 DEF Inv

\* A login names a user that had no id and is in no room, under an id nobody
\* has.
LEMMA LoginStep ==
  ASSUME IInv, TypeOK', NEW s \in Slot, NEW id \in Id, NEW pw \in Pw,
         ProcessLogin(s, id, pw), LoginSuccess(s, id, pw)
  PROVE  Inv'
<1> USE ChatAssumption, AccountAssumption
<1> USE DEF ProcessLogin, LoginSuccess, AddUser, ChangeState
<1>1. /\ mState[s] = "Connected" /\ Live(s) /\ InNoList(s)
      /\ view[s] = NoRoom /\ mUserID[s] = NoId
  <2>1. mState[s] = "Connected" /\ Live(s)
    BY AcceptsState DEF IInv
  <2>2. InNoList(s)
    BY <2>1 DEF IInv, TypeOK, OneRoom, InNoList
  <2> QED
    BY <2>1, <2>2 DEF IInv, SlotInv
<1>2. \A i \in Id \ {NoId} : mUserIDDictionary[i] # s
  BY <1>1 DEF IInv, LoginExclusive
<1>3. mUserIDDictionary[id] = NoSlot /\ \A t \in Slot : id # NoId => mUserID[t] # id
  BY DEF IInv, LoginExclusive
<1>4. \A i \in Id : mUserIDDictionary[i] # s
  BY <1>1 DEF IInv, TypeOK, DirectoryLive
<1>5. SlotInv'
  BY <1>1, HandlersSome DEF IInv, TypeOK, SlotInv, Live, InNoList
<1>6. LoginExclusive'
  BY <1>1, <1>2, <1>3 DEF IInv, TypeOK, LoginExclusive
<1>7. DirectoryLive'
  BY <1>1, <1>3, <1>4, HandlersSome DEF IInv, TypeOK, DirectoryLive, Live
<1>8. RoomCapacity'
  BY DEF IInv, RoomCapacity, Members
<1>9. OneRoom'
  BY <1>1 DEF IInv, TypeOK, OneRoom, Live, InNoList
<1>10. ListMatchesAcks'
  BY <1>1 DEF IInv, TypeOK, ListMatchesAcks, Named, Live, InNoList
<1> QED
  BY <1>5, <1>6, <1>7, <1>8, <1>9, <1>10 DEF Inv

\* The members of a room are finitely many.
LEMMA MembersFinite ==
  ASSUME NEW r \in Room
  PROVE  IsFiniteSet(Members(r)) /\ Cardinality(Members(r)) \in Nat
<1>1. Members(r) \subseteq Slot
  BY DEF Members
<1> QED
  BY <1>1, ChatAssumption, FS_Subset, FS_CardinalityType

\* A user in the lobby is in no list, so entering puts it into one list once;
\* a room with a free place counts one more.
LEMMA EnterStep ==
  ASSUME IInv, TypeOK', NEW s \in Slot, NEW n \in RoomNumber, ProcessEnterRoom(s, n)
  PROVE  Inv'
<1> USE ChatAssumption, AccountAssumption
<1> USE DEF ProcessEnterRoom, ChangeState
<1>1. mState[s] = "InLobby" /\ Live(s) /\ InNoList(s)
  <2>1. mState[s] = "InLobby" /\ Live(s)
    BY AcceptsState DEF IInv
  <2>2. \A r \in Room : mUserList[r][s] \in Nat /\ ~(mUserList[r][s] > 0)
    BY <2>1 DEF IInv, TypeOK, OneRoom
  <2> QED
    BY <2>1, <2>2 DEF InNoList
<1>2. LoginExclusive'
  BY DEF IInv, LoginExclusive
<1>3. DirectoryLive'
  BY HandlersSome DEF IInv, TypeOK, DirectoryLive, Live
<1>4. CASE EnterRefused(s, n)
  <2> USE <1>4 DEF EnterRefused
  <2>1. SlotInv'
    BY <1>1, HandlersSome DEF IInv, TypeOK, SlotInv, Live, InNoList
  <2>2. RoomCapacity'
    BY DEF IInv, RoomCapacity, Members
  <2>3. OneRoom'
    BY <1>1 DEF IInv, TypeOK, OneRoom, Live, InNoList
  <2>4. ListMatchesAcks'
    BY <1>1 DEF IInv, TypeOK, ListMatchesAcks, Named, Live, InNoList
  <2> QED
    BY <1>2, <1>3, <2>1, <2>2, <2>3, <2>4 DEF Inv
<1>5. CASE EnterUser(s, n)
  <2> USE <1>5 DEF EnterUser
  <2>1. n \in Room /\ mCurrentUserCount[n] < mMaxUserCount
    BY DEF EnterResult, IInv, TypeOK
  <2>2. /\ \A r \in Room : mUserList'[r][s] = IF r = n THEN 1 ELSE 0
        /\ \A r \in Room, t \in Slot \ {s} : mUserList'[r][t] = mUserList[r][t]
    BY <1>1, <2>1 DEF IInv, TypeOK, InNoList
  <2>3. SlotInv'
    <3> SUFFICES ASSUME NEW t \in Slot
                 PROVE  /\ handlers'[t] \in {{}, Handlers(mState'[t])}
                        /\ t \in accepted' <=> mState'[t] # "None"
                        /\ mState'[t] = "None" => ~Live(t)' /\ InNoList(t)'
                        /\ mState'[t] \in {"None", "Connected"} => view'[t] = NoRoom
                        /\ ~Live(t)' \/ mState'[t] = "Connected" => mUserID'[t] = NoId
      BY DEF SlotInv
    <3>1. CASE t = s
      BY <1>1, <3>1, HandlersSome DEF IInv, TypeOK, SlotInv, Live
    <3>2. CASE t # s
      <4>1. InNoList(t)' <=> InNoList(t)
        BY <2>2, <3>2 DEF InNoList
      <4>2. /\ handlers'[t] = handlers[t] /\ mState'[t] = mState[t] /\ view'[t] = view[t]
            /\ Live(t)' <=> Live(t)
        BY <3>2 DEF IInv, TypeOK, Live
      <4> QED
        BY <4>1, <4>2 DEF IInv, SlotInv
    <3> QED
      BY <3>1, <3>2
  <2>4. RoomCapacity'
    <3> SUFFICES ASSUME NEW r \in Room
                 PROVE  /\ Cardinality(Members(r)') <= mCurrentUserCount'[r]
                        /\ mCurrentUserCount'[r] <= mMaxUserCount
      BY DEF RoomCapacity
    <3>1. CASE r # n
      <4>1. Members(r)' = Members(r)
        BY <2>1, <3>1 DEF Members, IInv, TypeOK
      <4> QED
        BY <2>1, <3>1, <4>1 DEF IInv, TypeOK, RoomCapacity
    <3>2. CASE r = n
      <4>1. Members(r)' = Members(r) \cup {s}
        BY <2>2, <3>2 DEF Members, IInv, TypeOK
      <4>2. s \notin Members(r)
        BY <1>1 DEF Members, InNoList
      <4>3. Cardinality(Members(r)') = Cardinality(Members(r)) + 1
        BY <4>1, <4>2, MembersFinite, FS_AddElement
      <4>4. mCurrentUserCount'[r] = mCurrentUserCount[r] + 1
        BY <2>1, <3>2 DEF IInv, TypeOK
      <4>5. Cardinality(Members(r)) <= mCurrentUserCount[r]
        BY DEF IInv, RoomCapacity
      <4> QED
        BY <2>1, <3>2, <4>3, <4>4, <4>5, MembersFinite DEF IInv, TypeOK
    <3> QED
      BY <3>1, <3>2
  <2>5. OneRoom'
    BY <1>1, <2>1, <2>2 DEF IInv, TypeOK, OneRoom, Live
  <2>6. ListMatchesAcks'
    BY <1>1, <2>1, <2>2 DEF IInv, TypeOK, ListMatchesAcks, Named, Live
  <2> QED
    BY <1>2, <1>3, <2>3, <2>4, <2>5, <2>6 DEF Inv
<1> QED
  BY <1>4, <1>5

\* The leaver is in no list but that of the room it points to, and whoever
\* else is removed with it carries the same id, so is not logged in properly.
LEMMA LeaveStep ==
  ASSUME IInv, TypeOK', NEW s \in Slot, ProcessLeaveRoom(s)
  PROVE  Inv'
<1> USE ChatAssumption, AccountAssumption
<1> USE DEF ProcessLeaveRoom, ChangeState
<1> DEFINE r == mRoomIndex[s]
<1>1. mState[s] = "InRoom" /\ Live(s)
  BY AcceptsState DEF IInv
<1>2. \A q \in Room : q # r => mUserList[q][s] = 0
  BY <1>1 DEF IInv, TypeOK, OneRoom
<1>3. LoginExclusive'
  BY DEF IInv, LoginExclusive
<1>4. DirectoryLive'
  BY HandlersSome DEF IInv, TypeOK, DirectoryLive, Live
<1>5. CASE LeaveNoRoom(s, r)
  <2> USE <1>5 DEF LeaveNoRoom
  <2>1. InNoList(s)
    BY <1>2 DEF InNoList
  <2>2. SlotInv'
    BY <1>1, HandlersSome DEF IInv, TypeOK, SlotInv, Live, InNoList
  <2>3. RoomCapacity'
    BY DEF IInv, RoomCapacity, Members
  <2>4. OneRoom'
    BY <2>1 DEF IInv, TypeOK, OneRoom, Live, InNoList
  <2>5. ListMatchesAcks'
    BY <1>1 DEF IInv, TypeOK, ListMatchesAcks, Named, Live
  <2> QED
    BY <1>3, <1>4, <2>2, <2>3, <2>4, <2>5 DEF Inv
<1>6. CASE LeaveUser(s, r)
  <2> USE <1>6 DEF LeaveUser, LeaveKeeping
  <2>1. \A q \in Room, t \in Slot :
          mUserList'[q][t] = IF q = r /\ mUserID[t] = mUserID[s] THEN 0 ELSE mUserList[q][t]
    BY DEF IInv, TypeOK
  <2>2. \A q \in Room : mUserList'[q][s] = 0
    BY <1>2, <2>1
  <2>3. \A q \in Room, t \in Slot \ {s} : Named(t) => mUserList'[q][t] = mUserList[q][t]
    <3>1. \A t \in Slot \ {s} : Named(t) => mUserID[t] # mUserID[s]
      BY DEF IInv, TypeOK, LoginExclusive, Named
    <3> QED
      BY <2>1, <3>1
  <2>4. SlotInv'
    BY <1>1, <2>1, HandlersSome DEF IInv, TypeOK, SlotInv, Live, InNoList
  <2>5. RoomCapacity'
    <3> SUFFICES ASSUME NEW q \in Room
                 PROVE  /\ Cardinality(Members(q)') <= mCurrentUserCount'[q]
                        /\ mCurrentUserCount'[q] <= mMaxUserCount
      BY DEF RoomCapacity
    <3>1. Members(q)' \subseteq Members(q)
      BY <2>1 DEF Members, IInv, TypeOK
    <3>2. Cardinality(Members(q)') <= Cardinality(Members(q)) /\ Cardinality(Members(q)') \in Nat
      BY <3>1, MembersFinite, FS_Subset, FS_CardinalityType
    <3> QED
      BY <3>2, MembersFinite DEF IInv, TypeOK, RoomCapacity
  <2>6. OneRoom'
    BY <2>1, <2>2 DEF IInv, TypeOK, OneRoom, Live
  <2>7. ListMatchesAcks'
    BY <1>1, <2>2, <2>3 DEF IInv, TypeOK, ListMatchesAcks, Named, Live
  <2> QED
    BY <1>3, <1>4, <2>4, <2>5, <2>6, <2>7 DEF Inv
<1> QED
  BY <1>5, <1>6

----------------------------------------------------------------------------
(* Theorems.                                                               *)

\* The initial state, and every step, satisfy the inductive invariant.
LEMMA InitIInv == Init => IInv
<1> SUFFICES ASSUME Init PROVE IInv
  OBVIOUS
<1> USE AccountAssumption, ChatAssumption
<1>1. TypeOK
  BY DEF Init, DbInit, TypeOK, DbTypeOK, State, Request, Quiet
<1>2. SlotInv
  BY DEF Init, SlotInv, Live, InNoList
<1>3. LoginExclusive /\ DirectoryLive
  BY DEF Init, LoginExclusive, DirectoryLive
<1>4. RoomCapacity
  <2>1. \A r \in Room : Members(r) = {}
    BY DEF Init, Members
  <2> QED
    BY <2>1, FS_EmptySet DEF Init, RoomCapacity
<1>5. OneRoom /\ ListMatchesAcks
  BY DEF Init, OneRoom, ListMatchesAcks, Named, Live
<1> QED
  BY <1>1, <1>2, <1>3, <1>4, <1>5 DEF IInv

\* One step of the process thread, whatever the packet.
LEMMA NextIInv == IInv /\ [Next]_vars => IInv'
<1> SUFFICES ASSUME IInv, [Next]_vars PROVE IInv'
  OBVIOUS
<1>1. TypeOK'
  BY TypeStep DEF IInv
<1>2. ASSUME NEW s \in Slot, Handle(s) PROVE Inv'
  <2>1. CASE ProcessUserConnect(s)
    BY <1>1, <2>1, ConnectStep
  <2>2. CASE ProcessUserDisConnect(s)
    BY <1>1, <2>2, DisConnectStep
  <2>3. CASE IgnoredDisConnect(s) \/ \E req \in Request : IgnoredRequest(s, req)
    BY <2>3, QuietStep DEF IgnoredDisConnect, IgnoredRequest, coreVars
  <2>4. CASE \E id \in Id, pw \in Pw : ProcessCreateAccount(s, id, pw)
    BY <2>4, QuietStep DEF ProcessCreateAccount, coreVars
  <2>5. ASSUME NEW id \in Id, NEW pw \in Pw, ProcessLogin(s, id, pw) PROVE Inv'
    <3>1. CASE LoginSuccess(s, id, pw)
      BY <1>1, <2>5, <3>1, LoginStep
    <3>2. CASE LoginUnchanged
      BY <2>5, <3>2, QuietStep DEF ProcessLogin, LoginUnchanged, coreVars
    <3> QED
      BY <2>5, <3>1, <3>2 DEF ProcessLogin, LoginAlready, LoginRefused
  <2>6. CASE ProcessLobbyInfo(s) \/ ProcessRoomInfo(s)
    BY <2>6, QuietStep DEF ProcessLobbyInfo, ProcessRoomInfo, coreVars
  <2>7. CASE \E n \in RoomNumber : ProcessEnterRoom(s, n)
    BY <1>1, <2>7, EnterStep
  <2>8. CASE ProcessLeaveRoom(s)
    BY <1>1, <2>8, LeaveStep
  <2>9. CASE ProcessRoomChatMessage(s)
    BY <2>9, QuietStep DEF ProcessRoomChatMessage, ChatThen, coreVars
  <2> QED
    BY <1>2, <2>1, <2>2, <2>3, <2>4, <2>5, <2>6, <2>7, <2>8, <2>9 DEF Handle
<1>3. ASSUME UNCHANGED vars PROVE Inv'
  BY <1>3, QuietStep DEF vars, chatVars, coreVars
<1>4. Inv'
  BY <1>2, <1>3 DEF Next, Crashed
<1> QED
  BY <1>1, <1>4 DEF IInv, Inv

\* The inductive invariant holds in every reachable state of the server's
\* logic, for every number of sessions, ids, passwords and rooms.
THEOREM Invariance == Spec => []IInv
  BY InitIInv, NextIInv, PTL DEF Spec

\* Every variable keeps its type.
THEOREM TypeCorrect == Spec => []TypeOK
<1>1. IInv => TypeOK
  BY DEF IInv
<1> QED
  BY <1>1, Invariance, PTL

\* The directory and the users agree on who is logged in under a proper id
\* (UserManager::AddUser, DeleteUserInfo, CheckLoginable).
THEOREM LoginIsExclusive == Spec => []LoginExclusive
<1>1. IInv => LoginExclusive
  BY DEF IInv
<1> QED
  BY <1>1, Invariance, PTL

\* No directory entry is stale, so no account is locked out by a session that
\* is gone (UserManager::DeleteUserInfo).
THEOREM DirectoryIsLive == Spec => []DirectoryLive
<1>1. IInv => DirectoryLive
  BY DEF IInv
<1> QED
  BY <1>1, Invariance, PTL

\* No room holds more users than its capacity (Room::EnterUser).
THEOREM RoomIsBounded == Spec => []RoomCapacity
<1>1. IInv => RoomCapacity
  BY DEF IInv
<1> QED
  BY <1>1, Invariance, PTL

\* A user is in at most one list, once, and points to it (User::EnterRoom,
\* LeaveRoom).
THEOREM InOneRoom == Spec => []OneRoom
<1>1. IInv => OneRoom
  BY DEF IInv
<1> QED
  BY <1>1, Invariance, PTL

\* What a client was told about its room is what the rooms' lists say
\* (Room::LeaveUser removes by id).
THEOREM AcksAreTrue == Spec => []ListMatchesAcks
<1>1. IInv => ListMatchesAcks
  BY DEF IInv
<1> QED
  BY <1>1, Invariance, PTL

\* The database part of a step: accounts that exist are kept.
LEMMA AccountsStep ==
  ASSUME IInv, [Next]_vars
  PROVE  \A i \in Id : accounts[i] # NoPw => accounts'[i] = accounts[i]
<1>1. ASSUME NEW s \in Slot, NEW id \in Id, NEW pw \in Pw, ProcessCreateAccount(s, id, pw)
      PROVE  \A i \in Id : accounts[i] # NoPw => accounts'[i] = accounts[i]
  BY <1>1 DEF ProcessCreateAccount, CreateAccount, dbVars, IInv, TypeOK, DbTypeOK
<1>2. ASSUME NEW s \in Slot, NEW id \in Id, NEW pw \in Pw, ProcessLogin(s, id, pw)
      PROVE  UNCHANGED accounts
  BY <1>2 DEF ProcessLogin, LoginAlready, LoginSuccess, LoginRefused, SelectAccount, dbVars
<1>3. ASSUME NEW s \in Slot, Handle(s)
      PROVE  \/ UNCHANGED accounts
             \/ \E id \in Id, pw \in Pw : ProcessCreateAccount(s, id, pw)
  BY <1>2, <1>3 DEF Handle, ProcessUserConnect, ProcessUserDisConnect, IgnoredDisConnect,
       IgnoredRequest, ProcessLobbyInfo, ProcessEnterRoom, ProcessRoomInfo, ProcessLeaveRoom,
       ProcessRoomChatMessage, ChatThen, dbVars
<1>4. CASE UNCHANGED vars
  BY <1>4 DEF vars, dbVars
<1> QED
  BY <1>1, <1>3, <1>4 DEF Next, Crashed

\* A directory entry appears only by a login, which found the account.
LEMMA RegisteredStep ==
  ASSUME IInv, LoggedInRegistered, [Next]_vars
  PROVE  LoggedInRegistered'
<1> USE AccountAssumption, ChatAssumption
<1>1. \A i \in Id : accounts[i] # NoPw => accounts'[i] # NoPw
  BY AccountsStep
<1>2. ASSUME UNCHANGED mUserIDDictionary PROVE LoggedInRegistered'
  BY <1>1, <1>2 DEF LoggedInRegistered
<1>3. ASSUME NEW s \in Slot, ProcessUserDisConnect(s) PROVE LoggedInRegistered'
  BY <1>1, <1>3 DEF LoggedInRegistered, ProcessUserDisConnect, IInv, TypeOK
<1>4. ASSUME NEW s \in Slot, NEW id \in Id, NEW pw \in Pw, ProcessLogin(s, id, pw)
      PROVE  LoggedInRegistered'
  <2>1. CASE LoginSuccess(s, id, pw)
    <3>1. accounts[id] # NoPw
      BY <2>1 DEF LoginSuccess, SelectAccount
    <3> QED
      BY <1>1, <2>1, <3>1 DEF LoggedInRegistered, LoginSuccess, AddUser, IInv, TypeOK
  <2>2. CASE LoginUnchanged
    BY <1>2, <2>2 DEF LoginUnchanged
  <2> QED
    BY <1>4, <2>1, <2>2 DEF ProcessLogin, LoginAlready, LoginRefused
<1>5. ASSUME NEW s \in Slot, Handle(s)
      PROVE  \/ UNCHANGED mUserIDDictionary
             \/ ProcessUserDisConnect(s)
             \/ \E id \in Id, pw \in Pw : ProcessLogin(s, id, pw)
  BY <1>5 DEF Handle, ProcessUserConnect, IgnoredDisConnect, IgnoredRequest,
       ProcessCreateAccount, ProcessLobbyInfo, ProcessEnterRoom, ProcessRoomInfo,
       ProcessLeaveRoom, ProcessRoomChatMessage, ChatThen
<1>6. CASE UNCHANGED vars
  BY <1>2, <1>6 DEF vars, chatVars
<1> QED
  BY <1>2, <1>3, <1>4, <1>5, <1>6 DEF Next, Crashed

\* Whoever is logged in has an account (UserManager::CheckLoginable).
THEOREM LoggedInHasAccount == Spec => []LoggedInRegistered
<1>1. Init => LoggedInRegistered
  BY DEF Init, LoggedInRegistered
<1>2. IInv /\ LoggedInRegistered /\ [Next]_vars => LoggedInRegistered'
  BY RegisteredStep
<1> QED
  BY <1>1, <1>2, Invariance, PTL DEF Spec

\* How often a sequence of packets has pkt.
CopiesIn(seq, pkt) == Cardinality({k \in DOMAIN seq : seq[k] = pkt})

\* What a room's list with n entries of one client sends it.
Notes(n, pkt) == [i \in 1..n |-> pkt]

\* An acknowledgement, or nothing, and then n notifications.
LEMMA Notifications ==
  ASSUME NEW ack, NEW pkt, ack # pkt, NEW pre \in {<< >>, <<ack>>}, NEW n \in {0, 1},
         NEW seq, seq = pre \o Notes(n, pkt)
  PROVE  CopiesIn(seq, pkt) = n
<1> DEFINE notes == Notes(n, pkt)
           copies == {k \in DOMAIN seq : seq[k] = pkt}
<1>1. /\ pre \in Seq({ack, pkt}) /\ Len(pre) \in {0, 1}
      /\ \A k \in 1..Len(pre) : pre[k] = ack
  <2>1. CASE pre = << >>
    BY <2>1
  <2>2. CASE pre = <<ack>>
    BY <2>2
  <2> QED BY <2>1, <2>2
<1>2. notes \in Seq({ack, pkt}) /\ Len(notes) = n /\ \A k \in 1..n : notes[k] = pkt
  <2>1. notes \in [1..n -> {ack, pkt}] /\ n \in Nat
    BY DEF Notes
  <2> QED BY <2>1 DEF Notes
<1>3. seq = pre \o notes
  OBVIOUS
<1> HIDE DEF notes
<1>4. /\ seq \in Seq({ack, pkt}) /\ Len(seq) = Len(pre) + n
      /\ \A k \in 1..(Len(pre) + n) :
            seq[k] = IF k <= Len(pre) THEN pre[k] ELSE notes[k - Len(pre)]
  <2>1. /\ pre \o notes \in Seq({ack, pkt}) /\ Len(pre \o notes) = Len(pre) + Len(notes)
        /\ \A k \in 1..(Len(pre) + Len(notes)) :
              (pre \o notes)[k] = IF k <= Len(pre) THEN pre[k] ELSE notes[k - Len(pre)]
    BY <1>1, <1>2, ConcatProperties
  <2> QED BY <1>2, <1>3, <2>1
<1>5. DOMAIN seq = 1..(Len(pre) + n)
  BY <1>4, LenProperties
<1>6. CASE n = 0
  <2>1. copies = {}
    BY <1>1, <1>4, <1>5, <1>6
  <2> QED BY <1>6, <2>1, FS_EmptySet DEF CopiesIn
<1>7. CASE n = 1
  <2>1. \A k \in 1..(Len(pre) + 1) : seq[k] = pkt <=> k = Len(pre) + 1
    BY <1>1, <1>2, <1>4, <1>7
  <2>2. copies = {Len(pre) + 1}
    BY <1>1, <1>5, <1>7, <2>1
  <2> QED BY <1>7, <2>2, FS_Singleton DEF CopiesIn
<1> QED BY <1>6, <1>7

\* A chat message goes to the list of the room its sender points to, and that
\* list holds whoever was told so, once.
LEMMA ChatStep ==
  ASSUME IInv, NEW s \in Slot, ProcessRoomChatMessage(s), Named(s), view[s] # NoRoom,
         NEW t \in Slot, Named(t)
  PROVE  Copies(t, ChatFrom(mUserID[s]))' = IF view[t] = view[s] THEN 1 ELSE 0
<1> DEFINE r == mRoomIndex[s]
           ack == <<"ACK_ROOM_CHAT", "CHAT_ROOM_SUCCESS">>
           pkt == ChatFrom(mUserID[s])
           n == mUserList[r][t]
           pre == To(s, ack)[t]
<1>1. view[s] = r /\ r \in Room
  <2>1. view[s] \in Room
    BY DEF IInv, TypeOK
  <2>2. mUserList[view[s]][s] > 0 /\ Live(s)
    BY <2>1 DEF IInv, ListMatchesAcks, Named
  <2> QED BY <2>1, <2>2 DEF IInv, OneRoom
<1>2. n = IF view[t] = view[s] THEN 1 ELSE 0
  <2>1. n \in Nat /\ (view[t] = r <=> n > 0) /\ (n > 0 => n = 1)
    BY <1>1 DEF IInv, TypeOK, ListMatchesAcks, OneRoom
  <2> QED BY <1>1, <2>1
<1>3. pre \in {<< >>, <<ack>>}
  BY DEF To
<1>4. out'[t] = pre \o Notes(n, pkt)
  BY <1>1 DEF ProcessRoomChatMessage, ChatThen, Then, SendToAllUser, ChatFrom, Notes
<1>5. ack # pkt
  BY DEF ChatFrom
<1>6. ChatFrom(mUserID[s])' = pkt
  BY DEF ProcessRoomChatMessage, ChatThen, ChatFrom
<1> HIDE DEF n, pre, ack, pkt
<1>7. CopiesIn(out'[t], pkt) = n
  <2>1. n \in {0, 1}
    BY <1>2
  <2> QED BY <1>3, <1>4, <1>5, <2>1, Notifications
<1> QED BY <1>2, <1>6, <1>7 DEF Copies, CopiesIn

\* A chat message reaches everybody admitted to the room, once, and nobody
\* else (User::SendChatMessage through Room::NotifyChat).
THEOREM ChatReachesTheRoom == Spec => ChatReachesRoom
<1>1. IInv /\ [Next]_vars =>
        [\A s \in Slot : ProcessRoomChatMessage(s) /\ Named(s) /\ view[s] # NoRoom =>
            \A t \in Slot : Named(t) =>
               Copies(t, ChatFrom(mUserID[s]))' = IF view[t] = view[s] THEN 1 ELSE 0]_vars
  BY ChatStep
<1> QED
  BY <1>1, Invariance, PTL DEF Spec, ChatReachesRoom
=============================================================================
