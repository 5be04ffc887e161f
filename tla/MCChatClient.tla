---------------------------- MODULE MCChatClient ---------------------------
(* ChatClient for TLC: one room, and the number -1 that an enter without a *)
(* selection sends; passwords are short enough not to be truncated.        *)
EXTENDS ChatClient, Integers, TLC

MCNoRoom == -1
MCRoomNumber == {-1, 0}
MCTruncated == [p \in Pw |-> p]
MCSymmetry == Permutations(Slot)
=============================================================================
