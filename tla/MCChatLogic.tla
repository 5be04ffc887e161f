---------------------------- MODULE MCChatLogic ----------------------------
(* ChatLogic for TLC: sessions are interchangeable; two room numbers exist *)
(* and a request may carry a third that does not; one password is of full  *)
(* length, so that SQLGetData truncates it to the other.                   *)
EXTENDS ChatLogic, Integers, TLC

MCNoRoom == -1
MCRoomNumber == {-1, 0, 1}
MCTruncated == [p \in Pw |-> "pw9"]
MCSymmetry == Permutations(Slot)
=============================================================================
