------------------------------- MODULE MCPackets -------------------------------
(* Packets for TLC: short strings and one beyond a byte, lengths at both     *)
(* sides of every limit of the encoding.                                     *)
EXTENDS Packets

Up(n, S) == UNION {[1..k -> S] : k \in 0..n}    \* sequences of at most n members
Maybe(S) == {<< >>} \cup {<<s>> : s \in S}
Long == [i \in 1..300 |-> 97]
Brief == {<< >>, <<97>>, <<97, 47, 98>>}
Strs == Brief \cup {Long}
\* What goes through a topic recurses for each byte; 130 make a length of two bytes.
TopicStrs == Brief \cup {[i \in 1..130 |-> 97]}
Ids == {1, 255, 256, 65535}

Connects ==
    {p \in [type : {CONNECT}, version : {3, 4}, cleansession : BOOLEAN,
            keepAliveInterval : {30, 300}, clientID : Strs, will : {<< >>, <<<<97>>, << >>>>},
            willQoS : {0, 2}, willRetained : BOOLEAN, username : Maybe({<< >>, <<97>>}),
            password : Maybe({<< >>, <<98, 98>>})] :
        p.will = << >> => p.willQoS = 0 /\ ~p.willRetained}

Limits == {128, 16384, 2097152}
MCLengths ==
    0..700 \cup UNION {(l - 3)..(l + 3) : l \in Limits}
        \cup {1000, 8191, 65535, 100000, 1000000, MaxLength - 1, MaxLength}

Publishes ==
    [type : {PUBLISH}, dup : {FALSE}, qos : {0}, retained : BOOLEAN,
     topic : Up(3, {97, 98, Slash}), id : {0}, payloadlen : {0, 7}]
    \cup [type : {PUBLISH}, dup : BOOLEAN, qos : {1, 2}, retained : {TRUE},
          topic : TopicStrs, id : Ids, payloadlen : {0, 7}]
    \cup [type : {PUBLISH}, dup : {FALSE}, qos : {0}, retained : {FALSE}, topic : {<<97>>},
          id : {0}, payloadlen : {n - 3 : n \in MCLengths \ 0..120}]

Topics1 == {<<s>> : s \in TopicStrs}
Topics2 == {<<s, t>> : s, t \in {<< >>, <<97, 47, 98>>}}

MCPackets ==
    Connects \cup Publishes
    \cup [type : {CONNACK}, sessionPresent : BOOLEAN, code : {0, 5}]
    \cup [type : Acks, dup : BOOLEAN, id : Ids]
    \cup [type : {SUBSCRIBE}, dup : BOOLEAN, id : Ids, topics : Topics1, codes : {<<0>>, <<2>>}]
    \cup [type : {SUBSCRIBE}, dup : {FALSE}, id : {7}, topics : Topics2, codes : {<<1, 2>>}]
    \cup [type : {SUBACK}, id : Ids, codes : {<<0>>, <<2>>, <<128>>, <<1, 128>>, <<1, 2, 0>>}]
    \cup [type : {UNSUBSCRIBE}, dup : BOOLEAN, id : Ids, topics : Topics1 \cup Topics2]
    \cup [type : {UNSUBACK}, id : Ids]
    \cup [type : NoBody]

MCMargins == -2..3
MCTopicFilters == {f \in Up(4, {97, Slash, Plus, Hash}) : f # << >> /\ WellFormed(f)}
MCStale == <<0, 1, 97, 0, 9, 1>>
===============================================================================
