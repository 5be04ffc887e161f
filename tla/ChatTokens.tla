----------------------------- MODULE ChatTokens ----------------------------
(***************************************************************************)
(* ChatClient with the way the server gets at a client's requests: a       *)
(* receive puts their bytes into the User's buffer and queues the client's *)
(* index, a token, once; the process thread takes tokens, and one token    *)
(* takes at most one request.  A client gets its answers only as far as    *)
(* its tokens go, so this is where its liveness is stated.                 *)
(*                                                                         *)
(* The requests that have arrived are the first of toServer.  Positions    *)
(* and bytes of the buffer are PacketBuffer's; the order of the tokens of  *)
(* different clients does not matter here.                                 *)
(***************************************************************************)
EXTENDS ChatClient

VARIABLES
    arrived,      \* how many whole requests are in each User's buffer
    cut,          \* the Users whose buffer ends in a piece of the next request
    tokens,       \* how often each index is in mInComingPacketUserIndex
    coalesced     \* history: the clients two of whose requests one receive completed

tokenVars == <<arrived, cut, tokens, coalesced>>
allVars == <<sysVars, tokenVars>>

TokenInit ==
    /\ SysInit
    /\ arrived = [s \in Slot |-> 0] /\ tokens = [s \in Slot |-> 0]
    /\ cut = {} /\ coalesced = {}

----------------------------------------------------------------------------
\* A receive completes n requests and may end in a piece of another one.
\* Bounds: a request is cut into two pieces at most, and only while its user is
\* up: the Clear of a system packet between two pieces would leave the stream
\* out of step, which is PacketBuffer's subject.
Arrive(s, n, piece) ==
    /\ ~fault
    /\ n + (IF piece THEN 1 ELSE 0) <= Len(toServer[s]) - arrived[s]
    /\ n > 0 \/ (piece /\ s \notin cut)
    /\ piece => s \in accepted /\ sock[s] = "open"
    /\ arrived' = [arrived EXCEPT ![s] = @ + n]
    /\ cut' = IF piece THEN cut \cup {s} ELSE cut \ {s}
    /\ coalesced' = IF n > 1 THEN coalesced \cup {s} ELSE coalesced
    /\ UNCHANGED sysVars

\* Mutant: the index is not queued when it is in the queue already.
ReceiveOneToken(s) ==
    /\ \E n \in 0..Len(toServer[s]), piece \in BOOLEAN : Arrive(s, n, piece)
    /\ tokens' = [tokens EXCEPT ![s] = 1]

\* ReceivePacketData: SetPacketData, and one token whatever has come.
ReceivePacketData(s) ==
    /\ \E n \in 0..Len(toServer[s]), piece \in BOOLEAN : Arrive(s, n, piece)
    /\ tokens' = [tokens EXCEPT ![s] = @ + 1]

\* The first whole request of the buffer is handled; with none, GetPacket
\* returns nothing and the token is spent.
DequePacketData(s) ==
    /\ ~fault /\ tokens[s] > 0
    /\ tokens' = [tokens EXCEPT ![s] = @ - 1]
    /\ IF arrived[s] > 0
       THEN Serve(s) /\ arrived' = [arrived EXCEPT ![s] = @ - 1]
       ELSE UNCHANGED <<sysVars, arrived>>
    /\ UNCHANGED <<cut, coalesced>>

\* User::Clear resets the positions: what has arrived is gone, its tokens stay.
ClearBuffer(s) ==
    /\ toServer' = [toServer EXCEPT ![s] = SubSeq(@, arrived[s] + 1, Len(@))]
    /\ arrived' = [arrived EXCEPT ![s] = 0]
    /\ cut' = cut \ {s}

SystemConnect(s) == sock[s] # "none" /\ ProcessUserConnect(s) /\ ClearBuffer(s)

SystemDisConnect(s) ==
    /\ sock[s] = "closed"
    /\ \/ ProcessUserDisConnect(s) /\ ClearBuffer(s)
       \/ IgnoredDisConnect(s) /\ UNCHANGED <<toServer, arrived, cut>>

DequeSystemPacketData(s) ==
    /\ SystemConnect(s) \/ SystemDisConnect(s)
    /\ Deliver
    /\ UNCHANGED <<sock, formVars, clicks, stranded, early, tokens, coalesced>>

Form(s) == (User_Click(s) \/ PacketProcess(s) \/ Drop(s)) /\ UNCHANGED tokenVars

TokenNext ==
    \E s \in Slot : \/ Form(s)
                    \/ ReceivePacketData(s)
                    \/ DequePacketData(s)
                    \/ DequeSystemPacketData(s)

TokenSpec == TokenInit /\ [][TokenNext]_allVars

\* The timer of each client keeps running; the kernel completes the receive a
\* connected session has posted when there is data; and the process thread
\* takes the tokens and system packets that are queued.  That a token is taken
\* does not mean that every request is.
TokenFairness ==
    \A s \in Slot : /\ WF_allVars(PacketProcess(s) /\ UNCHANGED tokenVars)
                    /\ WF_allVars(sock[s] = "open" /\ ReceivePacketData(s))
                    /\ WF_allVars(DequePacketData(s))
                    /\ WF_allVars(s \notin accepted /\ DequeSystemPacketData(s))

TokenFairSpec == TokenSpec /\ TokenFairness

----------------------------------------------------------------------------
(* Property.                                                               *)

\* A request for the room list is on the way from s, whose connection is up.
LobbyAsked(s) ==
    /\ sock[s] = "open"
    /\ \E k \in DOMAIN toServer[s] : toServer[s][k].id = "LOBBY_INFO"

\* The buttons of the lobby are enabled, or s has no use for them.
LobbyOver(s) ==
    RoomEnterBtn[s] \/ view[s] # NoRoom \/ s \in stranded \/ sock[s] = "closed" \/ fault

\* More whole requests have arrived than there are tokens to take them.
Behind(s) == arrived[s] > tokens[s]

\* A refresh, a login and a leave disable the buttons of the lobby until the
\* answer to LOBBY_INFO.  It comes, whatever pieces the requests arrive in and
\* whatever the connect packet clears; or the client is in a room, refused by
\* one, or cut off.  There is one way to be left without an answer: a receive
\* completed two requests (a double click is enough), so that the tokens stay
\* behind for good (PacketManager.cpp:129), and with its buttons disabled the
\* client cannot send anything that would bring another token.
LobbyAnswered ==
    \A s \in Slot :
        [](LobbyAsked(s) => <>LobbyOver(s) \/ <>[](Behind(s) /\ s \in coalesced))
=============================================================================
