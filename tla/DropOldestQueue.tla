--------------------------- MODULE DropOldestQueue ---------------------------
(* What the command line server promises about the messages it keeps for   *)
(* the command "queued": the newest MaxInList of them wait, in the order   *)
(* they came, and each command takes as many of the oldest as its response *)
(* has room for.                                                            *)
EXTENDS Naturals, Sequences

CONSTANTS
    Message,        \* records with a field len, the length of the text
    MaxInList,      \* MAX_INMESSAGE_IN_LIST
    ResponseSize    \* size of the buffer of a response

VARIABLES waiting, shown

vars == <<waiting, shown>>

Init == waiting = <<>> /\ shown = <<>>

Newest(s) == IF Len(s) > MaxInList THEN Tail(s) ELSE s

Arrive == \E m \in Message : waiting' = Newest(Append(waiting, m)) /\ shown' = shown

\* The running totals of the first n texts of s, each followed by a line end.
Totals(s, n) ==
    {used \in [0..n -> 0..ResponseSize] :
        used[0] = 0 /\ \A i \in 1..n : used[i] = used[i - 1] + s[i].len + 1}

\* The first n texts have room in a response, and the next one has not.
Take ==
    \E n \in 0..Len(waiting) :
        /\ \E used \in Totals(waiting, n) :
              /\ used[n] < ResponseSize
              /\ n < Len(waiting) => used[n] + waiting[n + 1].len + 1 >= ResponseSize
        /\ shown' = shown \o SubSeq(waiting, 1, n)
        /\ waiting' = SubSeq(waiting, n + 1, Len(waiting))

Next == Arrive \/ Take

Spec == Init /\ [][Next]_vars
===============================================================================
