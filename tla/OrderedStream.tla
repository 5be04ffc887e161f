--------------------------- MODULE OrderedStream ---------------------------
(***************************************************************************)
(* What the send path of one session promises to its caller: a byte stream *)
(* that carries the submitted messages in the order of submission, each at *)
(* most once, with no gap.  It says nothing about when a message leaves;   *)
(* SendQueue adds that as a liveness property.                             *)
(***************************************************************************)
EXTENDS Naturals, Sequences

CONSTANT Msg

VARIABLES
    submitted,     \* every message handed to the session, in order
    transmitted    \* the messages the socket has taken, in order

vars == <<submitted, transmitted>>

Init == submitted = << >> /\ transmitted = << >>

Submit(m) ==
    /\ submitted' = Append(submitted, m)
    /\ UNCHANGED transmitted

\* Only the oldest message that has not left yet may leave.
Transmit ==
    /\ Len(transmitted) < Len(submitted)
    /\ transmitted' = Append(transmitted, submitted[Len(transmitted) + 1])
    /\ UNCHANGED submitted

Next == Transmit \/ \E m \in Msg : Submit(m)

Spec == Init /\ [][Next]_vars
=============================================================================
