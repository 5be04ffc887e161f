-------------------------- MODULE MCClientReceive --------------------------
(* ClientReceive for TLC: the streams of packets of the given sizes; a     *)
(* size read out of step is negative, zero, below the header, or large.    *)
EXTENDS ClientReceive

CONSTANT Lengths    \* sizes of the packets the server sends

Ends(len) == LET f[k \in 0..Packets] == IF k = 0 THEN 0 ELSE f[k - 1] + len[k] IN f

MCStreams == {Ends(len) : len \in [1..Packets -> Lengths]}
MCGarbage == {-1, 0, 1, 2}
=============================================================================
