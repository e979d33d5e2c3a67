--------------------------------- MODULE Topics ---------------------------------
(***************************************************************************)
(* Topics and filters as deliverMessage of paho/MQTTClient.c compares them: *)
(* MQTTPacket_equals, or isTopicMatched, a walk along both strings.  A     *)
(* string is a sequence of bytes.  ByLevels is what the wildcards mean,    *)
(* level by level.                                                         *)
(***************************************************************************)
EXTENDS Naturals, Sequences

Slash == 47
Plus == 43
Hash == 35

\* Mutant: '+' stops on the separator, and not before it.
LevelEndOn(n, j) == CHOOSE k \in j..Len(n) : (n[k] = Slash \/ k = Len(n))
                                             /\ \A i \in j..(k - 1) : n[i] # Slash

\* The last position of the level at j, where the loop for '+' leaves curn.
LevelEnd(n, j) == CHOOSE k \in j..Len(n) : (k = Len(n) \/ n[k + 1] = Slash)
                                           /\ \A i \in (j + 1)..k : n[i] # Slash

\* f[i] and n[j] do not go together.
Breaks(f, n, i, j) ==
    \/ n[j] = Slash /\ f[i] # Slash
    \/ f[i] \notin {Plus, Hash, n[j]}

\* Where curn is after f[i].
Advanced(f, n, i, j) ==
    CASE f[i] = Plus -> LevelEnd(n, j) + 1
      [] f[i] = Hash -> Len(n) + 1
      [] OTHER -> j + 1

\* isTopicMatched: m[i][j] is the walk from f[i] and n[j] on.
isTopicMatched(f, n) ==
    LET m[i \in 1..(Len(f) + 1)] ==
            [j \in 1..(Len(n) + 1) |->
                IF i > Len(f) \/ j > Len(n) THEN i > Len(f) /\ j > Len(n)
                ELSE ~Breaks(f, n, i, j) /\ m[i + 1][Advanced(f, n, i, j)]]
    IN  m[1][1]

\* A handler is called: MQTTPacket_equals or isTopicMatched.
Matches(f, n) == f = n \/ isTopicMatched(f, n)

-------------------------------------------------------------------------------
\* The levels of a string: from[i] are those from its byte i on.  A separator begins a
\* level, any other byte is the first of the level it is in.
Levels(s) ==
    LET from[i \in 1..(Len(s) + 1)] ==
            IF i > Len(s) THEN <<<< >>>>
            ELSE LET rest == from[i + 1]
                 IN  IF s[i] = Slash THEN <<<< >>>> \o rest
                     ELSE <<<<s[i]>> \o Head(rest)>> \o Tail(rest)
    IN  from[1]

\* "format" of the comment: a wildcard is a level of its own, '#' the last one.
WellFormed(f) ==
    LET l == Levels(f)
    IN  /\ \A k \in DOMAIN l : Len(l[k]) > 1 => \A i \in DOMAIN l[k] : l[k][i] \notin {Plus, Hash}
        /\ \A k \in DOMAIN l : l[k] = <<Hash>> => k = Len(l)

\* '+' stands for one level that is not empty, '#' for one or more, the first of
\* them not empty; any other level for itself.
ByLevels(f, n) ==
    LET F == Levels(f)  N == Levels(n)
        open == F[Len(F)] = <<Hash>>
        fixed == IF open THEN Len(F) - 1 ELSE Len(F)
    IN  /\ IF open THEN Len(N) > fixed /\ N[Len(F)] # << >> ELSE Len(N) = fixed
        /\ \A k \in 1..fixed : IF F[k] = <<Plus>> THEN N[k] # << >> ELSE F[k] = N[k]
===============================================================================
