---------------------------- MODULE PacketStream ----------------------------
(* What readPacket promises to the rest of the client, and what MQTTClient   *)
(* takes for granted: packets come whole, once and in the order they were    *)
(* sent. Only the last one before the end of the connection may be cut off:  *)
(* it is dropped, or returned with its end missing.                          *)
EXTENDS Naturals, Sequences

CONSTANT MaxPackets    \* how many packets are sent

VARIABLES
    unread,     \* packets on their way, by number
    ended,      \* the connection has ended
    result      \* what the last read returned

vars == <<unread, ended, result>>

Packet(k, whole) == [code |-> "packet", of |-> k, whole |-> whole]
NoResult == [code |-> "none"]
FAILURE == [code |-> "failure"]
CON_EOF == [code |-> "eof"]

Init ==
    /\ \E n \in 0 .. MaxPackets : unread = [k \in 1 .. n |-> k]
    /\ ended = FALSE
    /\ result = NoResult

\* The connection ends, and the packets that have not begun to arrive are lost.
Ends ==
    /\ ~ ended
    /\ ended' = TRUE
    /\ \E n \in 0 .. Len(unread) : unread' = SubSeq(unread, 1, n)
    /\ UNCHANGED result

Take ==
    /\ unread # << >>
    /\ result' = Packet(Head(unread), TRUE)
    /\ unread' = Tail(unread)
    /\ UNCHANGED ended

Nothing ==
    /\ ~ ended
    /\ result' = FAILURE
    /\ UNCHANGED <<unread, ended>>

CutOff ==
    /\ ended /\ Len(unread) = 1
    /\ result' \in {FAILURE, Packet(Head(unread), FALSE)}
    /\ unread' = << >>
    /\ UNCHANGED ended

End ==
    /\ ended /\ unread = << >>
    /\ result' = CON_EOF
    /\ UNCHANGED <<unread, ended>>

Next == Ends \/ Take \/ Nothing \/ CutOff \/ End

Spec == Init /\ [][Next]_vars
=============================================================================
