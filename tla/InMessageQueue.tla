---------------------------- MODULE InMessageQueue ----------------------------
(***************************************************************************)
(* The messages the command line server (mqttCliSvr.c) keeps between the   *)
(* callback that brings them and the command "queued" that shows them.     *)
(* Callbacks and commands run one at a time in its event loop; the loop of *)
(* HandleQueuedCommand is modelled turn by turn.                           *)
(***************************************************************************)
EXTENDS Naturals, Sequences

CONSTANTS
    Lengths,        \* lengths of the texts QueueIncomingMessage is given
    NoMessage,      \* the NULL link
    MaxInList,      \* MAX_INMESSAGE_IN_LIST
    ResponseSize,   \* size of the buffer of a response
    MaxArrivals     \* bound: messages that arrive

ASSUME SizeAssumption ==
    MaxInList \in Nat /\ ResponseSize \in Nat \ {0} /\ MaxArrivals \in Nat
\* message[256] and response[1024]: one message always fits.
ASSUME LengthAssumption == Lengths \subseteq Nat /\ \A n \in Lengths : n + 1 < ResponseSize

VARIABLES
    inMessageList,  \* _inMessageList, from the top
    node,           \* the node HandleQueuedCommand holds
    response,       \* the messages in the response so far
    responseLen,    \*   and their length: strlen(response)
    allocated,      \* nodes taken from _inMessagePool and not released
    arrived,        \* number of messages that came
    shown           \* the messages of all responses given

listVars == <<inMessageList, node, response, responseLen, allocated, arrived, shown>>

Message == [id : 1..MaxArrivals, len : Lengths]
Idle == node = NoMessage
Held == IF Idle THEN <<>> ELSE <<node>>

\* What waits to be shown; what a command holds or has copied still waits until the
\* command returns.
Waiting == response \o Held \o inMessageList

ASSUME NoMessageAssumption == NoMessage \notin Message

ListTypeOK ==
    /\ inMessageList \in Seq(Message)
    /\ node \in Message \cup {NoMessage}
    /\ response \in Seq(Message) /\ responseLen \in Nat
    /\ allocated \in 0..MaxInList /\ arrived \in 0..MaxArrivals
    /\ shown \in Seq(Message)

ListInit ==
    /\ inMessageList = <<>> /\ node = NoMessage /\ response = <<>> /\ responseLen = 0
    /\ allocated = 0 /\ arrived = 0 /\ shown = <<>>

-------------------------------------------------------------------------------
TooMany(list) == Len(list) > MaxInList

\* The new node goes to the tail; above the bound, the one on the top is released.
QueueIncomingMessage ==
    /\ Idle /\ arrived < MaxArrivals
    /\ \E n \in Lengths :
         LET list == Append(inMessageList, [id |-> arrived + 1, len |-> n])
         IN IF TooMany(list)
            THEN inMessageList' = Tail(list) /\ allocated' = allocated
            ELSE inMessageList' = list /\ allocated' = allocated + 1
    /\ arrived' = arrived + 1
    /\ UNCHANGED <<node, response, responseLen, shown>>

\* le_sls_Pop; without a node the command returns the response.
Pop(text, len) ==
    IF inMessageList # <<>>
    THEN /\ node' = Head(inMessageList) /\ inMessageList' = Tail(inMessageList)
         /\ response' = text /\ responseLen' = len /\ shown' = shown
    ELSE /\ node' = NoMessage /\ inMessageList' = inMessageList
         /\ response' = <<>> /\ responseLen' = 0 /\ shown' = shown \o text

HandleQueuedCommand ==
    /\ Idle
    /\ Pop(<<>>, 0)
    /\ UNCHANGED <<allocated, arrived>>

Fits == responseLen + node.len + 1 < ResponseSize

\* Mutant: the node copied into the response is not released.
ReleaseNothing == allocated

Release == allocated - 1

\* A turn of the loop for a message there is room for.
Copy ==
    /\ ~Idle /\ Fits
    /\ Pop(Append(response, node), responseLen + node.len + 1)
    /\ allocated' = Release
    /\ UNCHANGED arrived

\* Mutant: the node goes back to the tail.
PutBackLast == Append(inMessageList, node)

PutBack == <<node>> \o inMessageList

\* Mutant: the loop goes on after the node was put back, and pops it again.
StopForgotten == ~Idle /\ ~Fits /\ UNCHANGED listVars

\* No room: the node goes back on the top and the command returns the response.
Stop ==
    /\ ~Idle /\ ~Fits
    /\ inMessageList' = PutBack /\ node' = NoMessage
    /\ shown' = shown \o response /\ response' = <<>> /\ responseLen' = 0
    /\ UNCHANGED <<allocated, arrived>>

ListNext == QueueIncomingMessage \/ HandleQueuedCommand \/ Copy \/ Stop

ListSpec == ListInit /\ [][ListNext]_listVars

\* The user asks again and again, and a command runs to its end.
ListFairSpec == ListSpec /\ WF_listVars(HandleQueuedCommand) /\ WF_listVars(Copy) /\ WF_listVars(Stop)

-------------------------------------------------------------------------------
(* Properties.                                                             *)

\* The server is the queue it promises: the newest messages wait, in their order,
\* and a command shows the longest run of the oldest that its response has room for,
\* in order and each once: a message that is put back keeps its place.
Queue == INSTANCE DropOldestQueue WITH waiting <- Waiting
IsDropOldestQueue == Queue!Spec

\* Every node of the pool is in the list or in the hands of the command: a command
\* that stops in the middle neither loses one nor releases one twice.
NoNodeLeaks == allocated = Len(inMessageList) + Len(Held)

\* No message blocks the list: each leaves it in the end, shown or for newer ones.
EverythingLeaves ==
    \A n \in 1..MaxArrivals :
        (\E i \in DOMAIN Waiting : Waiting[i].id = n)
            ~> (\A i \in DOMAIN Waiting : Waiting[i].id # n)
===============================================================================
