---------------------------- MODULE MCChatTokens ---------------------------
(* ChatTokens for TLC, with the constants of MCChatClient.                 *)
EXTENDS ChatTokens, Integers

MCNoRoom == -1
MCRoomNumber == {-1, 0}
MCTruncated == [p \in Pw |-> p]
=============================================================================
