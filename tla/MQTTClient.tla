------------------------------ MODULE MQTTClient ------------------------------
(***************************************************************************)
(* The paho client of one mqttClient instance (paho/MQTTClient.c) driven   *)
(* by mqttGeneric.c over a plain TCP connection (paho/MQTTLinux.c), and    *)
(* the broker at the other end.  The process is single-threaded: a call    *)
(* runs to its return before the next one starts, but the broker, the      *)
(* network and the clock move between any two of its socket operations.    *)
(*                                                                         *)
(* A packet is read whole or not at all, and a timer is the question       *)
(* expired(timer): it may become true at any moment after it was armed.    *)
(***************************************************************************)
EXTENDS Naturals, Sequences, FiniteSets

CONSTANTS
    Filters,        \* topic filters; a message is published on one of them
    NoFilter,       \* the NULL topicFilter
    QoS,            \* mqttConfig.qoS, used to subscribe and to publish
    MaxHandlers,    \* MAX_MESSAGE_HANDLERS
    MaxPacketId,    \* MAX_PACKET_ID
    SignedChar,     \* is char signed on the target (readChar returns char)
    SubackCodes,    \* return codes the broker may put in a SUBACK
    MaxCalls,       \* bound: API calls other than ProcessEvent
    MaxPushes       \* bound: messages the broker publishes to the client

ASSUME FilterAssumption == NoFilter \notin Filters
ASSUME QoSAssumption == QoS \in 0..2
ASSUME SizeAssumption ==
    MaxHandlers \in Nat \ {0} /\ MaxPacketId \in Nat \ {0}
ASSUME CodeAssumption == SignedChar \in BOOLEAN /\ SubackCodes \subseteq {0, 1, 2, 128}
ASSUME BoundAssumption == MaxCalls \in Nat /\ MaxPushes \in Nat

VARIABLES
    isconnected, next_packetid, messageHandlers, ping_outstanding,
    pingDue,        \* expired(&c->ping_timer)
    readbuf,        \* the packet cycle is handling, NoPacket after a failed read
    call,           \* the API call in progress: its packet identifier, nRetry + 1
    pc,             \* where that call stands
    timedOut,       \* expired(timer), the timer of that call
    net,            \* the TCP connection as the client's socket sees it
    toBroker,       \* bytes written and not yet handled by the broker
    torn,           \* a packet was written in part: what follows is no packet
    toClient,       \* bytes sent by the broker and not yet read
    accepted,       \* the broker's session for this connection: CONNECT accepted,
    subs,           \*   the subscriptions it serves
    granted,        \*   and every filter it granted
    subscribed,     \* filters the application was told it is subscribed to
    unserved,       \* those of them that found a full table
    delivered,      \* log of deliverMessage: message and handler slots called
    pushed,         \* number of messages the broker has published
    lost,           \* messages that went down with a connection
    unanswered,     \* ids of calls that returned without reading their own answer
    calls

client == <<isconnected, next_packetid, messageHandlers, ping_outstanding>>
session == <<accepted, subs, granted>>
wire == <<net, toBroker, torn, toClient, session>>
history == <<subscribed, unserved, delivered, pushed, lost, unanswered>>
vars == <<client, pingDue, readbuf, call, pc, timedOut, wire, history, calls>>

-------------------------------------------------------------------------------
(* Packets.  For a PUBLISH, id numbers the message and code is its QoS.    *)

ClientTypes == {"CONNECT", "SUBSCRIBE", "UNSUBSCRIBE", "PUBLISH", "PUBACK",
                "PUBREC", "PUBREL", "PINGREQ"}
BrokerTypes == {"CONNACK", "SUBACK", "UNSUBACK", "PUBLISH", "PUBACK", "PUBREC",
                "PUBREL", "PUBCOMP", "PINGRESP"}
TopicFilter == Filters \cup {NoFilter}
Packet == [type : ClientTypes \cup BrokerTypes, id : Nat,
           filter : TopicFilter, code : Nat]
Pkt(t, i, f, c) == [type |-> t, id |-> i, filter |-> f, code |-> c]
NoPacket == Pkt("PINGRESP", 0, NoFilter, 255)

Ops == {"none", "connect", "subscribe", "unsubscribe", "publish", "yield"}
PacketIds == 0..MaxPacketId
Call == [op : Ops, filter : TopicFilter, id : PacketIds, attempt : 0..3]
NewCall(op, f, id, n) == [op |-> op, filter |-> f, id |-> id, attempt |-> n]
NoCall == NewCall("none", NoFilter, 0, 0)
NoSession == accepted' = FALSE /\ subs' = {} /\ granted' = {}

Slots == 1..MaxHandlers
Installed == {messageHandlers[i] : i \in Slots} \ {NoFilter}
Delivery == [id : Nat, slots : SUBSET Slots]
NoHandlers == [i \in Slots |-> NoFilter]

\* The type waitfor is called with; MQTTYield waits for none.
Awaited ==
    CASE call.op = "connect" -> {"CONNACK"}
      [] call.op = "subscribe" -> {"SUBACK"}
      [] call.op = "unsubscribe" -> {"UNSUBACK"}
      [] call.op = "publish" /\ QoS = 1 -> {"PUBACK"}
      [] call.op = "publish" /\ QoS = 2 -> {"PUBCOMP"}
      [] OTHER -> {}

Request ==
    CASE call.op = "connect" -> Pkt("CONNECT", 0, NoFilter, 0)
      [] call.op = "subscribe" -> Pkt("SUBSCRIBE", call.id, call.filter, QoS)
      [] call.op = "unsubscribe" -> Pkt("UNSUBSCRIBE", call.id, call.filter, 0)
      [] OTHER -> Pkt("PUBLISH", call.id, NoFilter, QoS)

Messages(s) == {s[i].id : i \in {j \in DOMAIN s : s[j].type = "PUBLISH"}}

\* The message cycle has read and not yet handed to deliverMessage.
Pending == IF pc = "dispatch" /\ readbuf.type = "PUBLISH" THEN {readbuf.id} ELSE {}

-------------------------------------------------------------------------------
ClientType ==
    /\ isconnected \in BOOLEAN
    /\ next_packetid \in PacketIds
    /\ messageHandlers \in [Slots -> TopicFilter]
    /\ ping_outstanding \in BOOLEAN
    /\ pingDue \in BOOLEAN

CallType ==
    /\ readbuf \in Packet
    /\ call \in Call
    /\ pc \in {"idle", "open", "send", "payload", "wait", "dispatch", "ack",
               "keepalive", "finish", "retry"}
    /\ timedOut \in BOOLEAN

WireType ==
    /\ net \in {"unset", "closed", "open", "eof", "reset", "dead"}
    /\ toBroker \in Seq(Packet)
    /\ torn \in BOOLEAN
    /\ toClient \in Seq(Packet)
    /\ accepted \in BOOLEAN /\ subs \in SUBSET TopicFilter /\ granted \in SUBSET TopicFilter

HistoryType ==
    /\ subscribed \in SUBSET TopicFilter /\ unserved \in SUBSET TopicFilter
    /\ delivered \in Seq(Delivery)
    /\ pushed \in 0..MaxPushes
    /\ lost \in SUBSET Nat
    /\ unanswered \in SUBSET PacketIds
    /\ calls \in 0..MaxCalls

TypeOK == ClientType /\ CallType /\ WireType /\ HistoryType

Init ==   \* mqtt_CreateInstance: the object is zeroed, the socket is -1
    /\ isconnected = FALSE /\ next_packetid = 0 /\ messageHandlers = NoHandlers
    /\ ping_outstanding = FALSE /\ pingDue = TRUE
    /\ readbuf = NoPacket /\ call = NoCall /\ pc = "idle"
    /\ timedOut = FALSE
    /\ net = "unset" /\ toBroker = <<>> /\ torn = FALSE /\ toClient = <<>>
    /\ accepted = FALSE /\ subs = {} /\ granted = {}
    /\ subscribed = {} /\ unserved = {} /\ delivered = <<>> /\ pushed = 0 /\ lost = {}
    /\ unanswered = {} /\ calls = 0

-------------------------------------------------------------------------------
(* sendPacket.  A write succeeds while the socket accepts data, also when  *)
(* the broker has already closed its side; success re-arms the ping timer. *)
(* A failure may have put part of the packet on the wire.                  *)

Written(p) ==
    /\ net \in {"open", "eof"}
    /\ toBroker' = IF net = "open" /\ ~torn THEN Append(toBroker, p) ELSE toBroker
    /\ torn' = torn
    /\ pingDue' = FALSE

NotWritten ==
    /\ \E partly \in BOOLEAN : torn' = (torn \/ (partly /\ net = "open"))
    /\ UNCHANGED <<toBroker, pingDue>>

\* The call returns to the application; its packet and its timer are done with.
Return == pc' = "idle" /\ call' = NoCall /\ readbuf' = NoPacket /\ timedOut' = FALSE

Goto(l) == pc' = l /\ UNCHANGED <<call, timedOut>>

\* Mutant: mqtt_StartSession returns after the first failure as it stands.
FailAtOnce == Return

\* The call failed: mqtt_StartSession goes on with its retry loop.
Fail == IF call.op = "connect" THEN Goto("retry") /\ readbuf' = NoPacket ELSE Return

\* Mutant: every round of the loop arms the timer again.
NextCycleRearmed(failed) ==
    IF call.op = "yield" /\ failed THEN Return
    ELSE pc' = "wait" /\ call' = call /\ timedOut' = FALSE /\ readbuf' = NoPacket

\* Back to the loop of waitfor, or out of MQTTYield's when cycle failed.
NextCycle(failed) ==
    IF call.op = "yield" /\ failed THEN Return ELSE Goto("wait") /\ readbuf' = NoPacket

-------------------------------------------------------------------------------
(* API calls.                                                              *)

Idle == pc = "idle"

getNextPacketId == IF next_packetid = MaxPacketId THEN 1 ELSE next_packetid + 1

\* What MQTTSubscribe, MQTTUnsubscribe and MQTTPublish do before they write.
\* When the client is not connected they return FAILURE and change nothing.
Begin(op, f, id) ==
    /\ Idle /\ isconnected /\ calls < MaxCalls
    /\ call' = NewCall(op, f, id, 0)
    /\ next_packetid' = IF id = 0 THEN next_packetid ELSE id
    /\ pc' = "send" /\ timedOut' = FALSE /\ calls' = calls + 1
    /\ UNCHANGED <<isconnected, messageHandlers, ping_outstanding, pingDue,
                   readbuf, wire, history>>

MQTTSubscribe == \E f \in Filters : Begin("subscribe", f, getNextPacketId)
MQTTUnsubscribe == \E f \in Filters : Begin("unsubscribe", f, getNextPacketId)
MQTTPublish == Begin("publish", NoFilter, IF QoS = 0 THEN 0 ELSE getNextPacketId)

\* mqttClient_ProcessEvent; the application has started a session before.
MQTTYield ==
    /\ Idle /\ net # "unset"
    /\ call' = NewCall("yield", NoFilter, 0, 0)
    /\ pc' = "wait" /\ timedOut' = FALSE
    /\ UNCHANGED <<client, pingDue, readbuf, wire, history, calls>>

\* Mutant: the bytes the old connection had received are read on the new one.
HangupKeepsInput(n) ==
    /\ net' = n
    /\ toBroker' = <<>> /\ toClient' = toClient /\ torn' = FALSE /\ NoSession
    /\ lost' = lost
    /\ unanswered' = {}

\* The end of a connection: what was in flight is lost, and so is the broker's
\* session (cleansession is always 1).
Hangup(n) ==
    /\ net' = n
    /\ toBroker' = <<>> /\ toClient' = <<>> /\ torn' = FALSE /\ NoSession
    /\ lost' = lost \cup Messages(toClient)
    /\ unanswered' = {}

\* mqtt_StopSession: MQTTDisconnect, then network.disconnect.  The DISCONNECT
\* packet needs no model of its own: the connection closes behind it.
StopSession ==
    /\ Idle
    /\ isconnected' = FALSE
    /\ messageHandlers' = IF isconnected THEN NoHandlers ELSE messageHandlers
    /\ subscribed' = {} /\ unserved' = {}
    /\ Hangup(IF net = "unset" THEN "unset" ELSE "closed")
    /\ UNCHANGED <<next_packetid, ping_outstanding, readbuf, call, pc,
                   timedOut, delivered, pushed, calls>>
    /\ \/ pingDue' = pingDue
       \/ isconnected /\ net \in {"open", "eof"} /\ pingDue' = FALSE

StartSession ==
    /\ Idle /\ calls < MaxCalls /\ calls' = calls + 1
    /\ call' = NewCall("connect", NoFilter, 0, 1) /\ pc' = "open"
    /\ UNCHANGED <<client, pingDue, readbuf, timedOut, wire, history>>

\* network.connect (its result is ignored), MQTTClient() and MQTTConnect up to
\* the write of the CONNECT packet.
OpenConnection ==
    /\ pc = "open"
    /\ \E n \in {"open", "closed"} : Hangup(n)
    /\ isconnected' = FALSE /\ ping_outstanding' = FALSE
    /\ messageHandlers' = NoHandlers /\ subscribed' = {} /\ unserved' = {}
    /\ pingDue' = FALSE /\ timedOut' = FALSE /\ pc' = "send"
    /\ UNCHANGED <<next_packetid, readbuf, call, delivered, pushed, calls>>

\* The failure branch of mqtt_StartSession: MQTTDisconnect has nothing to do,
\* network.disconnect closes the socket, and the loop tries three times.
RetrySession ==
    /\ pc = "retry"
    /\ Hangup("closed")
    /\ IF call.attempt < 3
       THEN /\ call' = NewCall("connect", NoFilter, 0, call.attempt + 1) /\ pc' = "open"
            /\ UNCHANGED <<readbuf, timedOut>>
       ELSE Return
    /\ UNCHANGED <<client, pingDue, subscribed, unserved, delivered, pushed, calls>>

-------------------------------------------------------------------------------
(* Sending the request.                                                    *)

\* The packet a successful write of this step completes: MQTTPublish writes the
\* header and the payload one after the other.
SendRequest ==
    /\ pc = "send" /\ ~timedOut
    /\ IF call.op = "publish"
       THEN /\ net \in {"open", "eof"} /\ pingDue' = FALSE /\ Goto("payload")
            /\ UNCHANGED <<toBroker, torn>>
       ELSE Written(Request) /\ Goto("wait")
    /\ UNCHANGED <<client, readbuf, net, toClient, session, history, calls>>

\* The payload is written under a timer of its own.  At QoS 0 the call is done.
SendPayload ==
    /\ pc = "payload"
    /\ Written(Request)
    /\ IF QoS = 0 THEN Return
       ELSE pc' = "wait" /\ timedOut' = FALSE /\ UNCHANGED <<call, readbuf>>
    /\ UNCHANGED <<client, net, toClient, session, history, calls>>

SendFails ==
    /\ \/ pc = "send" /\ NotWritten
       \/ /\ pc = "payload" /\ torn' = (torn \/ net = "open")
          /\ UNCHANGED <<toBroker, pingDue>>
    /\ Fail
    /\ UNCHANGED <<client, net, toClient, session, history, calls>>

-------------------------------------------------------------------------------
(* waitfor, MQTTYield and cycle.                                           *)

\* expired(timer) at the top of the loop: waitfor gives up, MQTTYield is done.
WaitExpired ==
    /\ pc = "wait" /\ timedOut
    /\ unanswered' = IF call.op \in {"connect", "yield"} THEN unanswered
                    ELSE unanswered \cup {call.id}
    /\ Fail
    /\ UNCHANGED <<client, pingDue, wire, subscribed, unserved, delivered, pushed, lost, calls>>

\* Mutant: a PUBLISH is acknowledged before it is handed over.
ReadPacketAcksFirst ==
    /\ pc = "wait" /\ ~timedOut /\ toClient # <<>>
    /\ readbuf' = Head(toClient) /\ toClient' = Tail(toClient)
    /\ pc' = IF readbuf'.type = "PUBLISH" /\ readbuf'.code # 0 THEN "ack" ELSE "dispatch"
    /\ UNCHANGED <<client, pingDue, call, timedOut, net, toBroker, torn,
                   session, history, calls>>

ReadPacket ==
    /\ pc = "wait" /\ ~timedOut /\ toClient # <<>>
    /\ readbuf' = Head(toClient) /\ toClient' = Tail(toClient) /\ pc' = "dispatch"
    /\ UNCHANGED <<client, pingDue, call, timedOut, net, toBroker, torn,
                   session, history, calls>>

\* recv returned -1: FAILURE, and keepalive before the next round of the loop.
\* Either it timed out or it met an error: a reset connection reports its error
\* once and then reads as closed, a socket without a connection fails every time.
ReadTimesOut ==
    /\ pc = "wait" /\ ~timedOut /\ timedOut' = TRUE
    /\ readbuf' = NoPacket /\ pc' = "keepalive"
    /\ UNCHANGED <<client, pingDue, call, wire, history, calls>>

ReadError ==
    /\ pc = "wait" /\ ~timedOut /\ net \in {"reset", "closed"} /\ toClient = <<>>
    /\ net' = IF net = "reset" THEN "dead" ELSE net
    /\ readbuf' = NoPacket /\ pc' = "keepalive"
    /\ UNCHANGED <<client, pingDue, call, timedOut, toBroker, torn, toClient,
                   session, history, calls>>

\* Mutant: the end of the stream is taken for a failed read.
ReadEofIgnored ==
    /\ pc = "wait" /\ ~timedOut /\ net \in {"eof", "dead"} /\ toClient = <<>>
    /\ NextCycle(TRUE)
    /\ UNCHANGED <<client, pingDue, wire, history, calls>>

\* CON_EOF: MQTTYield returns it, waitfor keeps looping.
ReadEof ==
    /\ pc = "wait" /\ ~timedOut /\ net \in {"eof", "dead"} /\ toClient = <<>>
    /\ isconnected' = FALSE
    /\ NextCycle(TRUE)
    /\ UNCHANGED <<next_packetid, messageHandlers, ping_outstanding, pingDue,
                   wire, history, calls>>

\* Mutant: only MQTTYield delivers, a command drops what it reads while it waits.
DeliverInYield == readbuf.type = "PUBLISH" /\ call.op = "yield"

Delivers == readbuf.type = "PUBLISH"

\* deliverMessage calls every handler of the topic of the message.
deliverMessage ==
    Append(delivered, [id |-> readbuf.id,
                       slots |-> {i \in Slots : messageHandlers[i] = readbuf.filter}])

\* The switch of cycle.  A PUBLISH is delivered; one of QoS 1 or 2 and a PUBREC are
\* answered; the other types need no action.
Dispatch ==
    /\ pc = "dispatch"
    /\ delivered' = IF Delivers THEN deliverMessage ELSE delivered
    /\ ping_outstanding' = (ping_outstanding /\ readbuf.type # "PINGRESP")
    /\ pc' = IF readbuf.type = "PUBREC" \/ (readbuf.type = "PUBLISH" /\ readbuf.code # 0)
             THEN "ack" ELSE "keepalive"
    /\ UNCHANGED <<isconnected, next_packetid, messageHandlers, pingDue, readbuf,
                   call, timedOut, wire, subscribed, unserved, pushed, lost, unanswered,
                   calls>>

Answer ==
    IF readbuf.type = "PUBREC" THEN Pkt("PUBREL", readbuf.id, NoFilter, 0)
    ELSE Pkt(IF readbuf.code = 1 THEN "PUBACK" ELSE "PUBREC", readbuf.id, NoFilter, 0)

\* Mutant: a failed acknowledgement handles the packet again.
SendAckRedelivers ==
    /\ pc = "ack"
    /\ \/ ~timedOut /\ Written(Answer) /\ Goto("keepalive") /\ readbuf' = readbuf
       \/ NotWritten /\ Goto("dispatch") /\ readbuf' = readbuf
    /\ UNCHANGED <<client, net, toClient, session, history, calls>>

SendAck ==
    /\ pc = "ack"
    /\ \/ ~timedOut /\ Written(Answer) /\ Goto("keepalive") /\ readbuf' = readbuf
       \/ NotWritten /\ NextCycle(TRUE)
    /\ UNCHANGED <<client, net, toClient, session, history, calls>>

PingNow == pingDue /\ ~ping_outstanding

\* keepalive, then the return of cycle to its caller.
KeepAlive ==
    /\ pc = "keepalive"
    /\ IF PingNow
       THEN \/ Written(Pkt("PINGREQ", 0, NoFilter, 0)) /\ ping_outstanding' = TRUE
            \/ NotWritten /\ ping_outstanding' = ping_outstanding
       ELSE UNCHANGED <<toBroker, torn, pingDue, ping_outstanding>>
    /\ IF readbuf # NoPacket /\ readbuf.type \in Awaited
       THEN Goto("finish") /\ readbuf' = readbuf
       ELSE NextCycle(readbuf = NoPacket)
    /\ UNCHANGED <<isconnected, next_packetid, messageHandlers, net, toClient, session,
                   history, calls>>

-------------------------------------------------------------------------------
(* The calls after waitfor returned the packet they wait for.  None of     *)
(* them compares its packet identifier with the one it sent: after a late  *)
(* answer, the answer to the call itself is still to come.                 *)

Answered == unanswered' = unanswered \cup ({call.id} \ {readbuf.id})

\* Mutant: any CONNACK connects.
ConnackAlways == TRUE

ConnackAccepts == readbuf.code = 0

FinishConnect ==
    /\ pc = "finish" /\ call.op = "connect"
    /\ isconnected' = ConnackAccepts
    /\ IF ConnackAccepts THEN Return ELSE Fail
    /\ UNCHANGED <<next_packetid, messageHandlers, ping_outstanding, pingDue,
                   wire, history, calls>>

\* Mutant: the return code of the SUBACK is not looked at.
RefusedIgnored == FALSE

\* rc != 0x80: readChar returned 0x80 as -128 where char is signed.
Refused == readbuf.code = 128 /\ ~SignedChar

\* Mutant: the call succeeds when the broker granted the subscription.
SubscribeOkIfGranted(free) == ~Refused

\* rc becomes 0 with the handler in its slot; without a free slot rc stays the
\* granted QoS, and mqttClient_Subscribe returns LE_OK when it is 0.
SubscribeOk(free) == ~Refused /\ (free # {} \/ readbuf.code = 0)

\* The one success without a handler: the table is full, and the granted QoS is 0.
UnservedAfter(free) ==
    IF ~Refused /\ free # {} THEN unserved \ {call.filter}
    ELSE IF free = {} /\ readbuf.code = 0 THEN unserved \cup ({call.filter} \ Installed)
    ELSE unserved

\* The first free slot gets the handler.
FinishSubscribe ==
    /\ pc = "finish" /\ call.op = "subscribe"
    /\ LET free == {i \in Slots : messageHandlers[i] = NoFilter}
       IN /\ IF ~Refused /\ free # {}
             THEN \E i \in free :
                    /\ \A j \in free : i <= j
                    /\ messageHandlers' = [messageHandlers EXCEPT ![i] = call.filter]
             ELSE messageHandlers' = messageHandlers
          /\ subscribed' = IF SubscribeOk(free) THEN subscribed \cup {call.filter} ELSE subscribed
          /\ unserved' = UnservedAfter(free)
    /\ Answered /\ Return
    /\ UNCHANGED <<isconnected, next_packetid, ping_outstanding, pingDue, wire,
                   delivered, pushed, lost, calls>>

FinishUnsubscribe ==
    /\ pc = "finish" /\ call.op = "unsubscribe"
    /\ LET mine == {i \in Slots : messageHandlers[i] = call.filter}
       IN IF mine # {}
          THEN \E i \in mine :
                 /\ \A j \in mine : i <= j
                 /\ messageHandlers' = [messageHandlers EXCEPT ![i] = NoFilter]
          ELSE messageHandlers' = messageHandlers
    /\ subscribed' = subscribed \ {call.filter} /\ unserved' = unserved \ {call.filter}
    /\ Answered /\ Return
    /\ UNCHANGED <<isconnected, next_packetid, ping_outstanding, pingDue, wire,
                   delivered, pushed, lost, calls>>

FinishPublish ==
    /\ pc = "finish" /\ call.op = "publish"
    /\ Answered /\ Return
    /\ UNCHANGED <<client, pingDue, wire, subscribed, unserved, delivered, pushed, lost, calls>>

-------------------------------------------------------------------------------
(* The clock, the network and the broker.                                  *)

TimerExpires ==
    /\ ~Idle /\ ~timedOut /\ timedOut' = TRUE
    /\ UNCHANGED <<client, pingDue, readbuf, call, pc, wire, history, calls>>

PingTimerExpires ==
    /\ ~pingDue /\ pingDue' = TRUE
    /\ UNCHANGED <<client, readbuf, call, pc, timedOut, wire, history, calls>>

\* The broker closes: what it sent before can still be read.
BrokerCloses ==
    /\ net = "open" /\ net' = "eof" /\ toBroker' = <<>> /\ NoSession
    /\ UNCHANGED <<client, pingDue, readbuf, call, pc, timedOut, torn,
                   toClient, history, calls>>

\* The connection is reset, also in answer to a write after the broker closed it:
\* what has not reached the socket yet is gone.
ConnectionReset ==
    /\ net \in {"open", "eof"} /\ net' = "reset" /\ toBroker' = <<>> /\ NoSession
    /\ \E k \in 0..Len(toClient) :
         /\ toClient' = SubSeq(toClient, 1, k)
         /\ lost' = lost \cup Messages(SubSeq(toClient, k + 1, Len(toClient)))
    /\ UNCHANGED <<client, pingDue, readbuf, call, pc, timedOut, torn,
                   subscribed, unserved, delivered, pushed, unanswered, calls>>

\* The packet a conforming broker answers p with, and the codes it may carry.
ReplyType(p) ==
    CASE p.type = "CONNECT" -> "CONNACK"
      [] p.type = "SUBSCRIBE" -> "SUBACK"
      [] p.type = "UNSUBSCRIBE" -> "UNSUBACK"
      [] p.type = "PUBLISH" /\ p.code = 1 -> "PUBACK"
      [] p.type = "PUBLISH" /\ p.code = 2 -> "PUBREC"
      [] p.type = "PUBREL" -> "PUBCOMP"
      [] p.type = "PUBREC" -> "PUBREL"
      [] p.type = "PINGREQ" -> "PINGRESP"
      [] OTHER -> "none"

ReplyCodes(p) == IF p.type = "CONNECT" THEN {0, 5}
                 ELSE IF p.type = "SUBSCRIBE" THEN SubackCodes ELSE {0}

\* The broker's session after it handled p and answered with code c.
SessionAfter(p, c) ==
    LET grants == p.type = "SUBSCRIBE" /\ c # 128
    IN /\ accepted' = (accepted \/ (p.type = "CONNECT" /\ c = 0))
       /\ granted' = IF grants THEN granted \cup {p.filter} ELSE granted
       /\ subs' = IF grants THEN subs \cup {p.filter}
                  ELSE IF p.type = "UNSUBSCRIBE" THEN subs \ {p.filter} ELSE subs

\* A message on the filter of a SUBSCRIBE may overtake the SUBACK that grants it.
MayOvertake(p, c) == p.type = "SUBSCRIBE" /\ c # 128 /\ pushed < MaxPushes

BrokerHandles ==
    /\ net = "open" /\ toBroker # <<>>
    /\ LET p == Head(toBroker)
       IN \E c \in ReplyCodes(p), early \in BOOLEAN, q \in 0..QoS :
            /\ early => MayOvertake(p, c)
            /\ LET queue == IF early
                            THEN Append(toClient, Pkt("PUBLISH", pushed + 1, p.filter, q))
                            ELSE toClient
               IN toClient' = IF ReplyType(p) = "none" THEN queue
                              ELSE Append(queue, Pkt(ReplyType(p), p.id, NoFilter, c))
            /\ pushed' = IF early THEN pushed + 1 ELSE pushed
            /\ SessionAfter(p, c)
    /\ toBroker' = Tail(toBroker)
    /\ UNCHANGED <<client, pingDue, readbuf, call, pc, timedOut, net, torn,
                   subscribed, unserved, delivered, lost, unanswered, calls>>

BrokerPublishes ==
    /\ net = "open" /\ pushed < MaxPushes
    /\ \E f \in subs, q \in 0..QoS :
         toClient' = Append(toClient, Pkt("PUBLISH", pushed + 1, f, q))
    /\ pushed' = pushed + 1
    /\ UNCHANGED <<client, pingDue, readbuf, call, pc, timedOut, net,
                   toBroker, torn, session, subscribed, unserved, delivered, lost, unanswered, calls>>

-------------------------------------------------------------------------------
Read == ReadPacket \/ ReadTimesOut \/ ReadError \/ ReadEof
Finish == FinishConnect \/ FinishSubscribe \/ FinishUnsubscribe \/ FinishPublish
Run == \/ OpenConnection \/ RetrySession \/ SendRequest \/ SendPayload \/ SendFails
       \/ WaitExpired \/ Read \/ Dispatch \/ SendAck \/ KeepAlive \/ Finish
Api == \/ StartSession \/ StopSession \/ MQTTSubscribe \/ MQTTUnsubscribe
       \/ MQTTPublish \/ MQTTYield
Environment == \/ TimerExpires \/ PingTimerExpires \/ BrokerCloses \/ ConnectionReset
               \/ BrokerHandles \/ BrokerPublishes
Next == Api \/ Run \/ Environment

Spec == Init /\ [][Next]_vars

\* The process runs while a call is in progress, its timer expires in the end, and
\* the application calls ProcessEvent again and again.  A loop reads at
\* least once before its timer can expire: strong fairness for the reads.
Fairness == /\ WF_vars(Run) /\ WF_vars(TimerExpires) /\ WF_vars(MQTTYield)
            /\ SF_vars(ReadPacket) /\ SF_vars(ReadError) /\ SF_vars(ReadEof)
FairSpec == Spec /\ Fairness
-------------------------------------------------------------------------------
(* Properties.                                                             *)

DeliveredIds == {delivered[i].id : i \in DOMAIN delivered}
CommandAcks == {"SUBACK", "UNSUBACK", "PUBACK", "PUBREC", "PUBCOMP"}

\* waitfor takes any packet of the awaited type for the answer.  What it takes is
\* the answer to the call in progress, or to one that returned without its answer
\* earlier on the same connection; never one of an earlier connection.
OnlyLateAcksMismatch ==
    pc = "finish" /\ call.op # "connect"
        => readbuf.id = call.id \/ readbuf.id \in unanswered

\* "should be the same as the packetid above" (MQTTClient.c:562).
UnsubackIsMine ==
    pc = "finish" /\ call.op = "unsubscribe" => readbuf.id = call.id

\* Every message the broker published was handed to deliverMessage, waits for it,
\* or went down with its connection: reading packets while a command waits for its
\* answer loses none of them.
EveryMessageAccounted ==
    DeliveredIds \cup Pending \cup Messages(toClient) \cup lost = 1..pushed

\* Messages are delivered in the order the broker published them, each once.
DeliveredInOrder ==
    \A i, j \in DOMAIN delivered : i < j => delivered[i].id < delivered[j].id

\* A message is acknowledged only after its handlers have been called: when the
\* connection breaks in between, the broker still owns the message.
AckAfterDelivery ==
    \A i \in DOMAIN toBroker :
        toBroker[i].type \in {"PUBACK", "PUBREC"} => toBroker[i].id \in DeliveredIds

\* ping_outstanding stands for one PINGREQ or PINGRESP in flight on the present
\* connection.  If it could stay set without one, keepalive would never ping again.
PingsInFlight ==
    Cardinality({i \in DOMAIN toBroker : toBroker[i].type = "PINGREQ"})
    + Cardinality({i \in DOMAIN toClient : toClient[i].type = "PINGRESP"})
    + (IF pc = "dispatch" /\ readbuf.type = "PINGRESP" THEN 1 ELSE 0)

PingBalance ==
    /\ PingsInFlight <= 1
    /\ PingsInFlight = 1 => ping_outstanding
    /\ ping_outstanding /\ net = "open" /\ ~torn => PingsInFlight = 1

\* The client is connected only over a connection whose CONNECT the broker accepted.
ConnectedIsAccepted ==
    isconnected => /\ net \in {"open", "eof", "reset", "dead"}
                   /\ net = "open" => accepted

\* A connection is open only for a session or for an attempt at one: every failure
\* path of mqtt_StartSession closes its socket.
NoOrphanConnection == net = "open" => isconnected \/ call.op = "connect"

\* A handler is installed only for a filter the broker granted on this connection,
\* as long as no late answer is about: a refused SUBACK (0x80) installs none.
HandlersWereGranted ==
    net = "open" /\ unanswered = {} => Installed \subseteq granted

\* A topic the application was told it is subscribed to has its handler as long as the
\* application does not unsubscribe, whatever other topics take and leave the table.
\* The exceptions are those that found no free slot and were granted QoS 0, the code
\* MQTTSubscribe then returns: these are told of success and never hear of a message.
SubscribedHasHandler == subscribed \ Installed = unserved

\* "Message handlers are indexed by subscription topic" (MQTTClient.h:88).
HandlersIndexedByTopic ==
    \A i, j \in Slots :
        messageHandlers[i] = messageHandlers[j] /\ messageHandlers[i] # NoFilter => i = j

\* Every call returns, whatever the broker and the network do.
CallsReturn == pc # "idle" ~> pc = "idle"

\* A connection the broker closed or reset is noticed: IsConnected becomes false.
LossNoticed == net \in {"eof", "reset", "dead"} ~> ~isconnected
===============================================================================
