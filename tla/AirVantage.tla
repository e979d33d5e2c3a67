------------------------------ MODULE AirVantage ------------------------------
(***************************************************************************)
(* The publish from inside a callback.  The handler of the AirVantage      *)
(* tasks (mqttAirVantage.c) acknowledges a command with an MQTTPublish of  *)
(* its own while deliverMessage is still going through the handlers of the *)
(* message, inside the cycle of the call that read it.  That publish waits *)
(* for its PUBACK with cycles of its own, which may deliver the next       *)
(* command and so on: the calls form a stack, and all of them read the     *)
(* same connection into the same buffer.                                   *)
(*                                                                         *)
(* Sessions, pings, refusals and resets are those of MQTTClient and left   *)
(* out: the client is connected, and the broker may close the connection.  *)
(***************************************************************************)
EXTENDS Naturals, Sequences

CONSTANTS
    QoS,            \* mqttConfig.qoS, 0 or 1
    Commands,       \* the messages that are commands; others are not acknowledged
    MaxHandlers,    \* MAX_MESSAGE_HANDLERS
    MaxCalls,       \* bound: API calls other than ProcessEvent
    MaxPushes       \* bound: messages the broker publishes to the tasks topic

ASSUME QoSAssumption == QoS \in {0, 1}
ASSUME SizeAssumption == MaxHandlers \in Nat \ {0}
ASSUME BoundAssumption == MaxCalls \in Nat /\ MaxPushes \in Nat
ASSUME CommandAssumption == Commands \subseteq 1..MaxPushes

VARIABLES
    stack,          \* the calls in progress, the application's own first
    handlers,       \* the used part of messageHandlers: "av" or "user" handler
    isconnected, next_packetid,
    readbuf,        \* the message whose topic and payload c->readbuf holds, or 0
    open,           \* the broker has not closed the connection
    sent,           \* packets written, in order; the broker has handled
    taken,          \*   the first so many of them
    toClient,       \* packets of the broker not yet read
    subs,           \* the broker granted a subscription to the tasks
    handled,        \* log of the handlers called: message read, slot, message seen
    acked,          \* commands whose mqtt_avPublishAck has returned
    eaten,          \* answers read by a call they do not belong to
    unclaimed,      \* messages read before an AirVantage handler was installed
    pushed, calls

client == <<handlers, isconnected, next_packetid>>
broker == <<open, taken, subs, pushed>>
log == <<handled, eaten, unclaimed>>
history == <<log, acked>>
vars == <<stack, client, readbuf, broker, sent, toClient, history, calls>>

-------------------------------------------------------------------------------
(* For a PUBLISH of the broker, id is the message and code its QoS; for    *)
(* one of the client, code is the uid of the command it acknowledges.      *)

Pkt(t, i, c) == [type |-> t, id |-> i, code |-> c]

\* A call: the handler it installs or the uid it acknowledges; own, code and slot
\* are the message deliverMessage is at, its QoS and the next slot to look at.
Frame(op, handler, uid, id, pc) ==
    [op |-> op, handler |-> handler, uid |-> uid, id |-> id, pc |-> pc, timedOut |-> FALSE,
     own |-> 0, code |-> 0, slot |-> 1]

Top == stack[Len(stack)]
WithTop(f) == [stack EXCEPT ![Len(stack)] = f]

\* waitfor's packet type; a publish of QoS 0 and MQTTYield wait for none.
Awaited(f) == CASE f.op = "subscribe" -> "SUBACK"
                [] f.op \in {"publish", "ack"} -> "PUBACK"
                [] OTHER -> "none"

Request(f) == IF f.op = "subscribe" THEN Pkt("SUBSCRIBE", f.id, 0)
              ELSE Pkt("PUBLISH", f.id, f.uid)

\* The call returns, to deliverMessage when it is the acknowledgement of a command.
Return ==
    /\ stack' = SubSeq(stack, 1, Len(stack) - 1)
    /\ acked' = IF Top.op = "ack" THEN acked \cup {Top.uid} ELSE acked

NextRound == stack' = WithTop([Top EXCEPT !.pc = "wait"]) /\ acked' = acked

\* cycle returned FAILURE or CON_EOF: MQTTYield returns, waitfor goes on.
CycleFailed == IF Top.op = "yield" THEN Return ELSE NextRound

-------------------------------------------------------------------------------
Init ==
    /\ stack = <<>> /\ handlers = <<>> /\ isconnected = TRUE /\ next_packetid = 0
    /\ readbuf = 0 /\ open = TRUE /\ sent = <<>> /\ taken = 0 /\ toClient = <<>>
    /\ subs = FALSE /\ handled = <<>> /\ acked = {} /\ eaten = {}
    /\ unclaimed = {} /\ pushed = 0 /\ calls = 0

\* Mutant: a publish goes out under the identifier of the call before it.
PublishIdReused == IF QoS = 0 THEN 0 ELSE next_packetid

PublishId == IF QoS = 0 THEN 0 ELSE next_packetid + 1

\* The application's calls: StartSession and the first AirVantage handler subscribe
\* to the tasks for the AirVantage layer, Subscribe does for the application.
Call(op, handler, id) ==
    /\ stack = <<>> /\ isconnected /\ calls < MaxCalls
    /\ stack' = <<Frame(op, handler, 0, id, "send")>>
    /\ next_packetid' = IF id = 0 THEN next_packetid ELSE id
    /\ calls' = calls + 1
    /\ UNCHANGED <<handlers, isconnected, readbuf, broker, sent, toClient, history>>

Subscribe == \E h \in {"av", "user"} : Call("subscribe", h, next_packetid + 1)
Publish == Call("publish", "none", PublishId)

Yield ==
    /\ stack = <<>>
    /\ stack' = <<Frame("yield", "none", 0, 0, "wait")>>
    /\ UNCHANGED <<client, readbuf, broker, sent, toClient, history, calls>>

Send ==
    /\ stack # <<>> /\ Top.pc = "send" /\ ~Top.timedOut
    /\ sent' = Append(sent, Request(Top))
    /\ IF Top.op # "subscribe" /\ QoS = 0 THEN Return ELSE NextRound
    /\ UNCHANGED <<client, readbuf, broker, toClient, log, calls>>

SendFails ==
    /\ stack # <<>> /\ Top.pc = "send"
    /\ Return
    /\ UNCHANGED <<client, readbuf, broker, sent, toClient, log, calls>>

-------------------------------------------------------------------------------
(* waitfor, MQTTYield, cycle and deliverMessage.                           *)

Waiting == stack # <<>> /\ Top.pc = "wait"

\* Mutant: waitfor does not look at its timer.
ExpiredInYield == Top.timedOut /\ Top.op = "yield"

Expired == Top.timedOut

Reading == Waiting /\ ~Expired

WaitExpired ==
    /\ Waiting /\ Expired
    /\ Return
    /\ UNCHANGED <<client, readbuf, broker, sent, toClient, log, calls>>

\* Mutant: the message is acknowledged to the broker before it is delivered.
AfterRead(p) == IF p.code = 0 THEN "deliver" ELSE "puback"

Deliver(p) == "deliver"

ReadPublish ==
    /\ Reading /\ toClient # <<>> /\ Head(toClient).type = "PUBLISH"
    /\ LET p == Head(toClient)
       IN /\ readbuf' = p.id
          /\ stack' = WithTop([Top EXCEPT !.pc = Deliver(p), !.own = p.id,
                                          !.code = p.code, !.slot = 1])
          /\ unclaimed' = IF \E s \in DOMAIN handlers : handlers[s] = "av"
                          THEN unclaimed ELSE unclaimed \cup {p.id}
    /\ toClient' = Tail(toClient)
    /\ UNCHANGED <<client, broker, sent, handled, acked, eaten, calls>>

\* The four bytes of a PUBACK end before the topic of the message below them; the
\* fifth byte of a SUBACK overwrites its first character, unless the remaining
\* length of that message took two bytes.
Overwritten(p) == IF p.type = "SUBACK" THEN {readbuf, 0} ELSE {readbuf}

\* An answer ends the call that waits for its type, whichever call it belongs to.
ReadAnswer ==
    /\ Reading /\ toClient # <<>> /\ Head(toClient).type # "PUBLISH"
    /\ LET p == Head(toClient)
       IN /\ readbuf' \in Overwritten(p)
          /\ IF p.type = Awaited(Top) THEN Return ELSE NextRound
          /\ handlers' = IF p.type = Awaited(Top) /\ Top.op = "subscribe"
                            /\ Len(handlers) < MaxHandlers
                         THEN Append(handlers, Top.handler) ELSE handlers
          /\ eaten' = IF p.id = Top.id THEN eaten ELSE eaten \cup {p.id}
    /\ toClient' = Tail(toClient)
    /\ UNCHANGED <<isconnected, next_packetid, broker, sent, handled, unclaimed, calls>>

ReadTimesOut ==
    /\ Reading
    /\ IF Top.op = "yield" THEN Return
       ELSE stack' = WithTop([Top EXCEPT !.timedOut = TRUE]) /\ acked' = acked
    /\ UNCHANGED <<client, readbuf, broker, sent, toClient, log, calls>>

ReadEof ==
    /\ Reading /\ toClient = <<>> /\ ~open
    /\ isconnected' = FALSE
    /\ CycleFailed
    /\ UNCHANGED <<handlers, next_packetid, readbuf, broker, sent, toClient, log, calls>>

\* What the topic and the payload of the message being delivered point to by now:
\* itself, a message read later into the same place, or no message at all.
Seen == IF readbuf = Top.own THEN {readbuf} ELSE {readbuf, 0}

\* Mutant: the loop over the slots goes on only when the handler has returned.
NextSlotLater == Top

NextSlot == [Top EXCEPT !.slot = @ + 1]

\* Mutant: every handler acknowledges the commands it sees.
AnyHandlerAcks(h, m) == m \in Commands

\* mqtt_avOnIncomingMessage: the user's handlers, then mqtt_avPublishAck.
Acknowledges(h, m) == h = "av" /\ m \in Commands

\* A handler is called.  mqtt_avPublishAck returns at once when not connected.
CallHandler ==
    /\ stack # <<>> /\ Top.pc = "deliver" /\ Top.slot <= Len(handlers)
    /\ \E m \in Seen :
         LET acks == Acknowledges(handlers[Top.slot], m)
         IN /\ handled' = IF m = 0 THEN handled
                          ELSE Append(handled, [own |-> Top.own, slot |-> Top.slot, seen |-> m])
            /\ stack' = IF acks /\ isconnected
                        THEN Append(WithTop(NextSlot), Frame("ack", "none", m, PublishId, "send"))
                        ELSE WithTop(NextSlot)
            /\ next_packetid' = IF acks /\ isconnected /\ QoS = 1 THEN PublishId
                               ELSE next_packetid
            /\ acked' = IF acks /\ ~isconnected THEN acked \cup {m} ELSE acked
    /\ UNCHANGED <<handlers, isconnected, readbuf, broker, sent, toClient, eaten, unclaimed, calls>>

Delivered ==
    /\ stack # <<>> /\ Top.pc = "deliver" /\ Top.slot > Len(handlers)
    /\ stack' = WithTop([Top EXCEPT !.pc = IF Top.code = 0 THEN "wait" ELSE "puback"])
    /\ UNCHANGED <<client, readbuf, broker, sent, toClient, history, calls>>

\* The acknowledgement of the message, under the timer of the call that read it.
SendPuback ==
    /\ stack # <<>> /\ Top.pc = "puback"
    /\ \/ ~Top.timedOut /\ sent' = Append(sent, Pkt("PUBACK", Top.own, 0)) /\ NextRound
       \/ sent' = sent /\ CycleFailed
    /\ UNCHANGED <<client, readbuf, broker, toClient, log, calls>>

-------------------------------------------------------------------------------
(* The clock and the broker.                                               *)

TimerExpires ==
    /\ \E i \in DOMAIN stack :
         ~stack[i].timedOut /\ stack' = [stack EXCEPT ![i].timedOut = TRUE]
    /\ UNCHANGED <<client, readbuf, broker, sent, toClient, history, calls>>

BrokerCloses ==
    /\ open /\ open' = FALSE
    /\ UNCHANGED <<stack, client, readbuf, sent, taken, toClient, subs, history, pushed, calls>>

BrokerHandles ==
    /\ open /\ taken < Len(sent)
    /\ LET p == sent[taken + 1]
       IN /\ toClient' = IF p.type = "SUBSCRIBE" THEN Append(toClient, Pkt("SUBACK", p.id, 0))
                         ELSE IF p.type = "PUBLISH" /\ QoS = 1
                         THEN Append(toClient, Pkt("PUBACK", p.id, 0)) ELSE toClient
          /\ subs' = (subs \/ p.type = "SUBSCRIBE")
    /\ taken' = taken + 1
    /\ UNCHANGED <<stack, client, readbuf, open, sent, history, pushed, calls>>

BrokerPublishes ==
    /\ open /\ subs /\ pushed < MaxPushes
    /\ \E q \in 0..QoS : toClient' = Append(toClient, Pkt("PUBLISH", pushed + 1, q))
    /\ pushed' = pushed + 1
    /\ UNCHANGED <<stack, client, readbuf, open, sent, taken, subs, history, calls>>

-------------------------------------------------------------------------------
Run == \/ Send \/ SendFails \/ WaitExpired \/ ReadPublish \/ ReadAnswer \/ ReadTimesOut
       \/ ReadEof \/ CallHandler \/ Delivered \/ SendPuback
Api == Subscribe \/ Publish \/ Yield
Next == Api \/ Run \/ TimerExpires \/ BrokerCloses \/ BrokerHandles \/ BrokerPublishes

Spec == Init /\ [][Next]_vars

\* The process runs, and the timer of the call on top of the stack expires.
Fairness == WF_vars(Run) /\ WF_vars(TimerExpires)
FairSpec == Spec /\ Fairness
-------------------------------------------------------------------------------
(* Properties.                                                             *)

FrameType ==
    {f \in [op : {"subscribe", "publish", "yield", "ack"}, handler : {"av", "user", "none"},
            uid : Nat, id : Nat, pc : {"send", "wait", "deliver", "puback"},
            timedOut : BOOLEAN, own : Nat, code : {0, 1}, slot : Nat \ {0}] :
        f.op = "subscribe" => f.handler # "none"}

ClientPacket == [type : {"SUBSCRIBE", "PUBLISH", "PUBACK"}, id : Nat, code : Nat]
BrokerPacket == [type : {"PUBLISH", "SUBACK", "PUBACK"}, id : Nat, code : {0, 1}]

TypeOK ==
    /\ stack \in Seq(FrameType)
    /\ handlers \in Seq({"av", "user"}) /\ Len(handlers) <= MaxHandlers
    /\ isconnected \in BOOLEAN /\ next_packetid \in Nat /\ readbuf \in 0..pushed
    /\ open \in BOOLEAN /\ taken \in 0..Len(sent) /\ subs \in BOOLEAN
    /\ sent \in Seq(ClientPacket) /\ toClient \in Seq(BrokerPacket)
    /\ handled \in Seq([own : Nat, slot : Nat, seen : Nat])
    /\ acked \in SUBSET Nat /\ eaten \in SUBSET Nat /\ unclaimed \in SUBSET Nat
    /\ pushed \in 0..MaxPushes /\ calls \in 0..MaxCalls

\* The first handler of the tasks sees the commands in the order the broker
\* published them, each once, although the next one may be delivered while the
\* acknowledgement of the last one is still waiting for its answer.
CommandsInOrder ==
    \A i, j \in DOMAIN handled :
        i < j /\ handled[i].slot = 1 /\ handled[j].slot = 1 => handled[i].seen < handled[j].seen

\* A handler finds another message than the one it is called for only behind an
\* AirVantage handler that published from inside the same delivery, at QoS 1, and
\* then it finds a later one.
OnlyNestedPublishDisturbs ==
    \A i \in DOMAIN handled :
        LET h == handled[i]
        IN h.seen # h.own => /\ QoS = 1 /\ h.seen > h.own
                             /\ \E s \in 1..(h.slot - 1) : handlers[s] = "av"

\* Every handler is called with the message it is called for.
HandlersSeeTheirMessage == \A i \in DOMAIN handled : handled[i].seen = handled[i].own

\* The broker gets the PUBACK of a command after the acknowledgement of the command
\* itself, or after the attempt at it failed: a connection that breaks in between
\* leaves the command with the broker.
CommandAckFirst ==
    \A i \in DOMAIN sent :
        sent[i].type = "PUBACK" /\ sent[i].id \in Commands
            => sent[i].id \in acked \cup unclaimed

\* While the connection is up, every call that waits for an answer can still get it,
\* unless another call has read it: a publish nested in it, or one after an earlier
\* call that gave up.
Waits(f) == f.pc # "send" /\ Awaited(f) # "none"
ToCome(f) == \/ \E i \in (taken + 1)..Len(sent) : sent[i] = Request(f)
             \/ \E i \in DOMAIN toClient : toClient[i] = Pkt(Awaited(f), f.id, 0)
AnswersToCome ==
    \A i \in DOMAIN stack :
        open /\ Waits(stack[i]) => ToCome(stack[i]) \/ stack[i].id \in eaten

\* Every call returns, however many commands are delivered inside it.
CallsReturn == stack # <<>> ~> stack = <<>>
===============================================================================
