--------------------------- MODULE MQTTClient_proofs ---------------------------
(* Invariants of MQTTClient for every value of its constants: its types,   *)
(* whose answers a call may take, when the client may believe that it is   *)
(* connected, what becomes of the messages, and which handlers it has.     *)
EXTENDS MQTTClient, SequenceTheorems, TLAPS

USE FilterAssumption, QoSAssumption, SizeAssumption, CodeAssumption, BoundAssumption

-------------------------------------------------------------------------------
(* The operators the actions are built from.                               *)

\* The packets without data are packets.
LEMMA PacketConstants == NoPacket \in Packet /\ Pkt("PINGREQ", 0, NoFilter, 0) \in Packet
  BY DEF NoPacket, Pkt, Packet, TopicFilter, ClientTypes, BrokerTypes

\* So is every packet the client builds.
LEMMA PacketType ==
    ASSUME TypeOK
    PROVE  /\ NoPacket \in Packet /\ Request \in Packet /\ Answer \in Packet
           /\ Pkt("PINGREQ", 0, NoFilter, 0) \in Packet
  <1>1. NoPacket \in Packet /\ Pkt("PINGREQ", 0, NoFilter, 0) \in Packet
    BY PacketConstants
  <1>2. Request \in Packet
    BY DEF TypeOK, ClientType, CallType, WireType, HistoryType, Request, Pkt, Packet, Call, PacketIds, TopicFilter,
       ClientTypes, BrokerTypes
  <1>3. Answer \in Packet
    BY DEF TypeOK, ClientType, CallType, WireType, HistoryType, Answer, Pkt, Packet, TopicFilter, ClientTypes, BrokerTypes
  <1>4. QED
    BY <1>1, <1>2, <1>3

\* The broker answers and publishes packets.
LEMMA BrokerType ==
    ASSUME TypeOK, NEW p \in Packet, NEW c \in ReplyCodes(p)
    PROVE  /\ ReplyType(p) # "none" => Pkt(ReplyType(p), p.id, NoFilter, c) \in Packet
           /\ \A f \in TopicFilter, q \in 0..QoS :
                  Pkt("PUBLISH", pushed + 1, f, q) \in Packet
  <1>1. c \in Nat
    BY DEF ReplyCodes
  <1>2. ReplyType(p) \in BrokerTypes \cup {"none"}
    BY DEF ReplyType, BrokerTypes
  <1>3. \A f \in TopicFilter, q \in 0..QoS : Pkt("PUBLISH", pushed + 1, f, q) \in Packet
    BY DEF TypeOK, ClientType, CallType, WireType, HistoryType, Pkt, Packet, BrokerTypes
  <1>4. QED
    BY <1>1, <1>2, <1>3 DEF Pkt, Packet, TopicFilter

-------------------------------------------------------------------------------
(* Type correctness.                                                       *)

\* The fields of a call, and the calls an action may install.
LEMMA CallFields ==
    ASSUME CallType
    PROVE  /\ call.op \in Ops /\ call.filter \in TopicFilter
           /\ call.id \in PacketIds /\ call.attempt \in 0..3
  BY DEF CallType, Call

\* The calls of the API are calls, with the identifiers they are given.
LEMMA NewCalls ==
    /\ \A op \in Ops, f \in TopicFilter, id \in PacketIds, n \in 0..3 :
           NewCall(op, f, id, n) \in Call
    /\ NoCall \in Call
    /\ NewCall("yield", NoFilter, 0, 0) \in Call
    /\ \A n \in 0..3 : NewCall("connect", NoFilter, 0, n) \in Call
  <1>1. 0 \in PacketIds /\ NoFilter \in TopicFilter
    BY DEF PacketIds, TopicFilter
  <1>2. \A op \in Ops, f \in TopicFilter, id \in PacketIds, n \in 0..3 :
           NewCall(op, f, id, n) \in Call
    BY DEF NewCall, Call
  <1>3. "none" \in Ops /\ "yield" \in Ops /\ "connect" \in Ops
    BY DEF Ops
  <1>4. QED
    BY <1>1, <1>2, <1>3 DEF NoCall

\* The elements of a channel are packets.
LEMMA ElementType ==
    ASSUME NEW s \in Seq(Packet), NEW i \in DOMAIN s
    PROVE  s[i] \in Packet /\ s[i].id \in Nat /\ s[i].filter \in TopicFilter
  <1>1. s[i] \in Packet
    OBVIOUS
  <1>2. QED
    BY <1>1 DEF Packet

\* Messages are numbered.
LEMMA MessagesType ==
    ASSUME NEW s \in Seq(Packet)
    PROVE  Messages(s) \in SUBSET Nat
  BY ElementType DEF Messages

\* The end of a connection leaves every variable it changes in its type.
LEMMA HangupType ==
    ASSUME TypeOK, NEW n \in {"unset", "closed", "open"}, Hangup(n)
    PROVE  /\ net' \in {"unset", "closed", "open", "eof", "reset", "dead"}
           /\ toBroker' \in Seq(Packet) /\ toClient' \in Seq(Packet)
           /\ torn' \in BOOLEAN
           /\ accepted' \in BOOLEAN /\ subs' \in SUBSET TopicFilter
           /\ granted' \in SUBSET TopicFilter
           /\ lost' \in SUBSET Nat /\ unanswered' \in SUBSET PacketIds
  <1>1. lost' \in SUBSET Nat
    BY MessagesType DEF Hangup, TypeOK, ClientType, CallType, WireType, HistoryType
  <1>2. torn' \in BOOLEAN /\ accepted' \in BOOLEAN
    BY DEF Hangup, NoSession
  <1>3. /\ subs' \in SUBSET TopicFilter /\ granted' \in SUBSET TopicFilter
        /\ unanswered' \in SUBSET PacketIds
    BY DEF Hangup, NoSession
  <1>4. toBroker' \in Seq(Packet) /\ toClient' \in Seq(Packet)
    BY DEF Hangup
  <1>5. net' \in {"unset", "closed", "open", "eof", "reset", "dead"}
    BY DEF Hangup
  <1>6. QED
    BY <1>1, <1>2, <1>3, <1>4, <1>5

\* So do the outcomes of a write.
LEMMA WriteType ==
    ASSUME TypeOK, NEW p \in Packet, Written(p) \/ NotWritten
    PROVE  toBroker' \in Seq(Packet) /\ torn' \in BOOLEAN /\ pingDue' \in BOOLEAN
  <1>1. CASE Written(p)
    <2>1. toBroker' \in Seq(Packet)
      BY <1>1 DEF TypeOK, ClientType, CallType, WireType, HistoryType, Written
    <2>2. torn' \in BOOLEAN
      BY <1>1 DEF TypeOK, ClientType, CallType, WireType, HistoryType, Written
    <2>3. pingDue' \in BOOLEAN
      BY <1>1 DEF TypeOK, ClientType, CallType, WireType, HistoryType, Written
    <2>4. QED
      BY <2>1, <2>2, <2>3
  <1>2. CASE NotWritten
    <2>1. toBroker' \in Seq(Packet)
      BY <1>2 DEF TypeOK, ClientType, CallType, WireType, HistoryType, NotWritten
    <2>2. torn' \in BOOLEAN
      BY <1>2 DEF TypeOK, ClientType, CallType, WireType, HistoryType, NotWritten
    <2>3. pingDue' \in BOOLEAN
      BY <1>2 DEF TypeOK, ClientType, CallType, WireType, HistoryType, NotWritten
    <2>4. QED
      BY <2>1, <2>2, <2>3
  <1>3. QED
    BY <1>1, <1>2

\* A step that returns or goes on keeps the call, its packet and its timer typed.
LEMMA ControlType ==
    ASSUME TypeOK, Return \/ Fail \/ NextCycle(TRUE) \/ NextCycle(FALSE)
    PROVE  /\ pc' \in {"idle", "wait", "retry"} /\ call' \in Call
           /\ readbuf' \in Packet /\ timedOut' \in BOOLEAN
  <1>1. \/ Return
        \/ (Goto("retry") \/ Goto("wait")) /\ readbuf' = NoPacket
    BY DEF Fail, NextCycle
  <1>2. CASE Return
    <2>1. pc' \in {"idle", "wait", "retry"} /\ readbuf' \in Packet
      BY <1>2, PacketType DEF Return
    <2>2. call' \in Call
      BY <1>2, NewCalls DEF Return
    <2>3. timedOut' \in BOOLEAN
      BY <1>2 DEF Return
    <2>4. QED
      BY <2>1, <2>2, <2>3
  <1>3. CASE (Goto("retry") \/ Goto("wait")) /\ readbuf' = NoPacket
    <2>1. pc' \in {"idle", "wait", "retry"} /\ readbuf' \in Packet
      BY <1>3, PacketType DEF Goto
    <2>2. call' \in Call
      BY <1>3 DEF Goto, TypeOK, ClientType, CallType, WireType, HistoryType
    <2>3. timedOut' \in BOOLEAN
      BY <1>3 DEF Goto, TypeOK, ClientType, CallType, WireType, HistoryType
    <2>4. QED
      BY <2>1, <2>2, <2>3
  <1>4. QED
    BY <1>1, <1>2, <1>3

\* Every reachable state is well typed (types of struct Client, of the packets on
\* the wire and of the history).
THEOREM TypeCorrect == Spec => []TypeOK
  <1>1. Init => TypeOK
    <2> SUFFICES ASSUME Init PROVE TypeOK
      OBVIOUS
    <2>1. ClientType
      <3>1. isconnected \in BOOLEAN /\ ping_outstanding \in BOOLEAN /\ pingDue \in BOOLEAN
        BY DEF Init
      <3>2. messageHandlers \in [Slots -> TopicFilter] /\ next_packetid \in PacketIds
        BY DEF Init, NoHandlers, TopicFilter, PacketIds
      <3>3. QED
        BY <3>1, <3>2, Zenon DEF ClientType
    <2>2. CallType
      <3>1. timedOut \in BOOLEAN
        BY DEF Init
      <3>2. QED
        BY <3>1, PacketConstants, NewCalls DEF Init, CallType
    <2>3. WireType
      <3>1. torn \in BOOLEAN /\ accepted \in BOOLEAN
        BY DEF Init
      <3>2. toBroker \in Seq(Packet) /\ toClient \in Seq(Packet)
        BY DEF Init
      <3>3. QED
        BY <3>1, <3>2 DEF Init, WireType
    <2>4. HistoryType
      BY DEF Init, HistoryType
    <2>5. QED
      BY <2>1, <2>2, <2>3, <2>4 DEF TypeOK
  <1>2. ASSUME TypeOK, [Next]_vars PROVE TypeOK'
    <2> USE <1>2
    <2> USE DEF client, wire, session, history
    <2>1. ASSUME NEW op \in Ops, NEW f \in TopicFilter, NEW id \in PacketIds,
                 Begin(op, f, id)
          PROVE  TypeOK'
      <3>1. ClientType'
        BY <2>1 DEF TypeOK, ClientType, Begin
      <3>2. CallType'
        <4>1. call' = NewCall(op, f, id, 0) /\ call' \in Call
          BY <2>1, NewCalls DEF Begin
        <4>2. QED
          BY <2>1, <4>1 DEF TypeOK, CallType, Begin
      <3>3. WireType'
        BY <2>1 DEF TypeOK, WireType, Begin
      <3>4. HistoryType'
        BY <2>1 DEF TypeOK, HistoryType, Begin
      <3>5. QED
        BY <3>1, <3>2, <3>3, <3>4 DEF TypeOK
    <2>2. getNextPacketId \in PacketIds
      BY DEF TypeOK, ClientType, getNextPacketId, PacketIds
    <2>3. CASE MQTTSubscribe \/ MQTTUnsubscribe \/ MQTTPublish
      <3>1. /\ {"subscribe", "unsubscribe", "publish"} \subseteq Ops
            /\ Filters \subseteq TopicFilter /\ NoFilter \in TopicFilter
        BY DEF Ops, TopicFilter
      <3>2. (IF QoS = 0 THEN 0 ELSE getNextPacketId) \in PacketIds
        BY <2>2 DEF PacketIds
      <3>3. CASE MQTTSubscribe
        BY <2>1, <2>2, <3>1, <3>3 DEF MQTTSubscribe
      <3>4. CASE MQTTUnsubscribe
        BY <2>1, <2>2, <3>1, <3>4 DEF MQTTUnsubscribe
      <3>5. CASE MQTTPublish
        BY <2>1, <3>1, <3>2, <3>5 DEF MQTTPublish
      <3>6. QED
        BY <2>3, <3>3, <3>4, <3>5
    <2>4. CASE MQTTYield
      <3>1. ClientType'
        BY <2>4 DEF TypeOK, ClientType, MQTTYield
      <3>2. CallType'
        <4>1. call' = NewCall("yield", NoFilter, 0, 0) /\ call' \in Call
          BY <2>4, NewCalls DEF MQTTYield
        <4>2. QED
          BY <2>4, <4>1 DEF TypeOK, CallType, MQTTYield
      <3>3. WireType'
        BY <2>4 DEF TypeOK, WireType, MQTTYield
      <3>4. HistoryType'
        BY <2>4 DEF TypeOK, HistoryType, MQTTYield
      <3>5. QED
        BY <3>1, <3>2, <3>3, <3>4 DEF TypeOK
    <2>5. CASE StopSession
      <3>1. ClientType'
        BY <2>5 DEF TypeOK, ClientType, StopSession, NoHandlers, TopicFilter
      <3>2. CallType'
        BY <2>5 DEF TypeOK, CallType, StopSession
      <3>3. WireType'
        BY <2>5, HangupType DEF TypeOK, WireType, StopSession
      <3>4. HistoryType'
        BY <2>5, HangupType DEF TypeOK, HistoryType, StopSession
      <3>5. QED
        BY <3>1, <3>2, <3>3, <3>4 DEF TypeOK
    <2>6. CASE StartSession
      <3>1. ClientType'
        BY <2>6 DEF TypeOK, ClientType, StartSession
      <3>2. CallType'
        <4>1. call' = NewCall("connect", NoFilter, 0, 1) /\ call' \in Call
          BY <2>6, NewCalls DEF StartSession
        <4>2. QED
          BY <2>6, <4>1 DEF TypeOK, CallType, StartSession
      <3>3. WireType'
        BY <2>6 DEF TypeOK, WireType, StartSession
      <3>4. HistoryType'
        BY <2>6 DEF TypeOK, HistoryType, StartSession
      <3>5. QED
        BY <3>1, <3>2, <3>3, <3>4 DEF TypeOK
    <2>7. CASE OpenConnection
      <3>1. ClientType'
        BY <2>7 DEF TypeOK, ClientType, OpenConnection, NoHandlers, TopicFilter
      <3>2. CallType'
        BY <2>7 DEF TypeOK, CallType, OpenConnection
      <3>3. WireType'
        BY <2>7, HangupType DEF TypeOK, WireType, OpenConnection
      <3>4. HistoryType'
        BY <2>7, HangupType DEF TypeOK, HistoryType, OpenConnection
      <3>5. QED
        BY <3>1, <3>2, <3>3, <3>4 DEF TypeOK
    <2>8. CASE RetrySession
      <3>1. ClientType'
        BY <2>8 DEF TypeOK, ClientType, RetrySession
      <3>2. CallType'
        <4>1. CASE call.attempt < 3
          <5>1. NewCall("connect", NoFilter, 0, call.attempt + 1) \in Call
            <6>1. call.attempt + 1 \in 0..3
              BY <4>1, CallFields DEF TypeOK
            <6>2. QED
              BY <6>1, NewCalls
          <5>2. QED
            BY <2>8, <4>1, <5>1 DEF TypeOK, CallType, RetrySession
        <4>2. CASE ~(call.attempt < 3)
          BY <2>8, <4>2, ControlType DEF TypeOK, CallType, RetrySession
        <4>3. QED
          BY <4>1, <4>2
      <3>3. WireType'
        BY <2>8, HangupType DEF TypeOK, WireType, RetrySession
      <3>4. HistoryType'
        BY <2>8, HangupType DEF TypeOK, HistoryType, RetrySession
      <3>5. QED
        BY <3>1, <3>2, <3>3, <3>4 DEF TypeOK
    <2>9. CASE SendRequest
      <3>1. ClientType'
        BY <2>9, WriteType, PacketType DEF TypeOK, ClientType, SendRequest
      <3>2. CallType'
        BY <2>9 DEF TypeOK, CallType, SendRequest, Goto
      <3>3. WireType'
        BY <2>9, WriteType, PacketType DEF TypeOK, WireType, SendRequest
      <3>4. HistoryType'
        BY <2>9 DEF TypeOK, HistoryType, SendRequest
      <3>5. QED
        BY <3>1, <3>2, <3>3, <3>4 DEF TypeOK
    <2>10. CASE SendPayload
      <3>1. ClientType'
        BY <2>10, WriteType, PacketType DEF TypeOK, ClientType, SendPayload
      <3>2. CallType'
        BY <2>10, ControlType DEF TypeOK, CallType, SendPayload, CallType
      <3>3. WireType'
        BY <2>10, WriteType, PacketType DEF TypeOK, WireType, SendPayload
      <3>4. HistoryType'
        BY <2>10 DEF TypeOK, HistoryType, SendPayload
      <3>5. QED
        BY <3>1, <3>2, <3>3, <3>4 DEF TypeOK
    <2>11. CASE SendFails
      <3>1. ClientType'
        BY <2>11, WriteType, PacketType DEF TypeOK, ClientType, SendFails
      <3>2. CallType'
        BY <2>11, ControlType DEF TypeOK, CallType, SendFails
      <3>3. WireType'
        BY <2>11, WriteType, PacketType DEF TypeOK, WireType, SendFails
      <3>4. HistoryType'
        BY <2>11 DEF TypeOK, HistoryType, SendFails
      <3>5. QED
        BY <3>1, <3>2, <3>3, <3>4 DEF TypeOK
    <2>12. CASE WaitExpired
      <3>1. ClientType'
        BY <2>12 DEF TypeOK, ClientType, WaitExpired
      <3>2. CallType'
        BY <2>12, ControlType DEF TypeOK, CallType, WaitExpired
      <3>3. WireType'
        BY <2>12 DEF TypeOK, WireType, WaitExpired
      <3>4. HistoryType'
        BY <2>12, CallFields DEF TypeOK, HistoryType, WaitExpired
      <3>5. QED
        BY <3>1, <3>2, <3>3, <3>4 DEF TypeOK
    <2>13. CASE ReadPacket
      <3>1. ClientType'
        BY <2>13 DEF TypeOK, ClientType, ReadPacket
      <3>2. CallType'
        BY <2>13 DEF TypeOK, CallType, ReadPacket, WireType
      <3>3. WireType'
        BY <2>13 DEF TypeOK, WireType, ReadPacket
      <3>4. HistoryType'
        BY <2>13 DEF TypeOK, HistoryType, ReadPacket
      <3>5. QED
        BY <3>1, <3>2, <3>3, <3>4 DEF TypeOK
    <2>14. CASE ReadTimesOut
      <3>1. ClientType'
        BY <2>14 DEF TypeOK, ClientType, ReadTimesOut
      <3>2. CallType'
        BY <2>14, PacketType DEF TypeOK, CallType, ReadTimesOut
      <3>3. WireType'
        BY <2>14 DEF TypeOK, WireType, ReadTimesOut
      <3>4. HistoryType'
        BY <2>14 DEF TypeOK, HistoryType, ReadTimesOut
      <3>5. QED
        BY <3>1, <3>2, <3>3, <3>4 DEF TypeOK
    <2>15. CASE ReadError
      <3>1. ClientType'
        BY <2>15 DEF TypeOK, ClientType, ReadError
      <3>2. CallType'
        BY <2>15, PacketType DEF TypeOK, CallType, ReadError
      <3>3. WireType'
        BY <2>15 DEF TypeOK, WireType, ReadError
      <3>4. HistoryType'
        BY <2>15 DEF TypeOK, HistoryType, ReadError
      <3>5. QED
        BY <3>1, <3>2, <3>3, <3>4 DEF TypeOK
    <2>16. CASE ReadEof
      <3>1. ClientType'
        BY <2>16 DEF TypeOK, ClientType, ReadEof
      <3>2. CallType'
        BY <2>16, ControlType DEF TypeOK, CallType, ReadEof
      <3>3. WireType'
        BY <2>16 DEF TypeOK, WireType, ReadEof
      <3>4. HistoryType'
        BY <2>16 DEF TypeOK, HistoryType, ReadEof
      <3>5. QED
        BY <3>1, <3>2, <3>3, <3>4 DEF TypeOK
    <2>17. CASE Dispatch
      <3>1. ClientType'
        BY <2>17 DEF TypeOK, ClientType, Dispatch
      <3>2. CallType'
        BY <2>17 DEF TypeOK, CallType, Dispatch
      <3>3. WireType'
        BY <2>17 DEF TypeOK, WireType, Dispatch
      <3>4. HistoryType'
        <4>1. readbuf.id \in Nat
          BY DEF TypeOK, CallType, Packet
        <4>2. delivered' \in Seq(Delivery)
          <5>1. delivered \in Seq(Delivery)
            BY DEF TypeOK, HistoryType
          <5>2. CASE readbuf.type = "PUBLISH"
            <6> DEFINE d == [id |-> readbuf.id,
                     slots |-> {i \in Slots : messageHandlers[i] = readbuf.filter}]
            <6>1. delivered' = Append(delivered, d)
              BY <2>17, <5>2 DEF Dispatch, Delivers, deliverMessage
            <6>2. d \in Delivery
              BY <4>1 DEF Delivery
            <6> HIDE DEF d
            <6>3. QED
              BY <5>1, <6>1, <6>2
          <5>3. CASE readbuf.type # "PUBLISH"
            BY <2>17, <5>1, <5>3 DEF Dispatch, Delivers
          <5>4. QED
            BY <5>2, <5>3
        <4>3. QED
          BY <2>17, <4>2 DEF TypeOK, HistoryType, Dispatch
      <3>5. QED
        BY <3>1, <3>2, <3>3, <3>4 DEF TypeOK
    <2>18. CASE SendAck
      <3>1. ClientType'
        BY <2>18, WriteType, PacketType DEF TypeOK, ClientType, SendAck
      <3>2. CallType'
        BY <2>18, ControlType DEF TypeOK, CallType, SendAck, Goto
      <3>3. WireType'
        BY <2>18, WriteType, PacketType DEF TypeOK, WireType, SendAck
      <3>4. HistoryType'
        BY <2>18 DEF TypeOK, HistoryType, SendAck
      <3>5. QED
        BY <3>1, <3>2, <3>3, <3>4 DEF TypeOK
    <2>19. CASE KeepAlive
      <3>1. ClientType'
        BY <2>19, WriteType, PacketType DEF TypeOK, ClientType, KeepAlive
      <3>2. CallType'
        BY <2>19, ControlType DEF TypeOK, CallType, KeepAlive, Goto
      <3>3. WireType'
        BY <2>19, WriteType, PacketType DEF TypeOK, WireType, KeepAlive
      <3>4. HistoryType'
        BY <2>19 DEF TypeOK, HistoryType, KeepAlive
      <3>5. QED
        BY <3>1, <3>2, <3>3, <3>4 DEF TypeOK
    <2>20. CASE FinishConnect
      <3>1. ClientType'
        BY <2>20 DEF TypeOK, ClientType, FinishConnect, ConnackAccepts
      <3>2. CallType'
        BY <2>20, ControlType DEF TypeOK, CallType, FinishConnect
      <3>3. WireType'
        BY <2>20 DEF TypeOK, WireType, FinishConnect
      <3>4. HistoryType'
        BY <2>20 DEF TypeOK, HistoryType, FinishConnect
      <3>5. QED
        BY <3>1, <3>2, <3>3, <3>4 DEF TypeOK
    <2>21. CASE FinishSubscribe
      <3>1. ClientType'
        BY <2>21 DEF TypeOK, ClientType, FinishSubscribe, CallType, Call
      <3>2. CallType'
        BY <2>21, ControlType DEF TypeOK, CallType, FinishSubscribe
      <3>3. WireType'
        BY <2>21 DEF TypeOK, WireType, FinishSubscribe
      <3>4. HistoryType'
        <4>1. unserved' \in SUBSET TopicFilter
          BY <2>21, CallFields DEF TypeOK, HistoryType, FinishSubscribe, UnservedAfter
        <4>2. QED
          BY <2>21, <4>1, CallFields DEF TypeOK, HistoryType, FinishSubscribe, Answered
      <3>5. QED
        BY <3>1, <3>2, <3>3, <3>4 DEF TypeOK
    <2>22. CASE FinishUnsubscribe
      <3>1. ClientType'
        BY <2>22 DEF TypeOK, ClientType, FinishUnsubscribe, TopicFilter
      <3>2. CallType'
        BY <2>22, ControlType DEF TypeOK, CallType, FinishUnsubscribe
      <3>3. WireType'
        BY <2>22 DEF TypeOK, WireType, FinishUnsubscribe
      <3>4. HistoryType'
        BY <2>22, CallFields DEF TypeOK, HistoryType, FinishUnsubscribe, Answered
      <3>5. QED
        BY <3>1, <3>2, <3>3, <3>4 DEF TypeOK
    <2>23. CASE FinishPublish
      <3>1. ClientType'
        BY <2>23 DEF TypeOK, ClientType, FinishPublish
      <3>2. CallType'
        BY <2>23, ControlType DEF TypeOK, CallType, FinishPublish
      <3>3. WireType'
        BY <2>23 DEF TypeOK, WireType, FinishPublish
      <3>4. HistoryType'
        BY <2>23, CallFields DEF TypeOK, HistoryType, FinishPublish, Answered
      <3>5. QED
        BY <3>1, <3>2, <3>3, <3>4 DEF TypeOK
    <2>24. CASE TimerExpires
      <3>1. ClientType'
        BY <2>24 DEF TypeOK, ClientType, TimerExpires
      <3>2. CallType'
        BY <2>24 DEF TypeOK, CallType, TimerExpires
      <3>3. WireType'
        BY <2>24 DEF TypeOK, WireType, TimerExpires
      <3>4. HistoryType'
        BY <2>24 DEF TypeOK, HistoryType, TimerExpires
      <3>5. QED
        BY <3>1, <3>2, <3>3, <3>4 DEF TypeOK
    <2>25. CASE PingTimerExpires
      <3>1. ClientType'
        BY <2>25 DEF TypeOK, ClientType, PingTimerExpires
      <3>2. CallType'
        BY <2>25 DEF TypeOK, CallType, PingTimerExpires
      <3>3. WireType'
        BY <2>25 DEF TypeOK, WireType, PingTimerExpires
      <3>4. HistoryType'
        BY <2>25 DEF TypeOK, HistoryType, PingTimerExpires
      <3>5. QED
        BY <3>1, <3>2, <3>3, <3>4 DEF TypeOK
    <2>26. CASE BrokerCloses
      <3>1. ClientType'
        BY <2>26 DEF TypeOK, ClientType, BrokerCloses
      <3>2. CallType'
        BY <2>26 DEF TypeOK, CallType, BrokerCloses
      <3>3. WireType'
        <4>1. toBroker' \in Seq(Packet)
          BY <2>26 DEF BrokerCloses
        <4>2. accepted' \in BOOLEAN
          BY <2>26 DEF BrokerCloses, NoSession
        <4>3. QED
          BY <2>26, <4>1, <4>2 DEF TypeOK, WireType, BrokerCloses, NoSession
      <3>4. HistoryType'
        BY <2>26 DEF TypeOK, HistoryType, BrokerCloses
      <3>5. QED
        BY <3>1, <3>2, <3>3, <3>4 DEF TypeOK
    <2>27. CASE ConnectionReset
      <3>1. PICK k \in 0..Len(toClient) :
              /\ toClient' = SubSeq(toClient, 1, k)
              /\ lost' = lost \cup Messages(SubSeq(toClient, k + 1, Len(toClient)))
        BY <2>27 DEF ConnectionReset
      <3>2. toClient \in Seq(Packet) /\ Len(toClient) \in Nat
        BY DEF TypeOK, WireType
      <3>3. toClient' \in Seq(Packet)
        BY <3>1, <3>2, SubSeqProperties
      <3>4. lost' \in SUBSET Nat
        <4>1. SubSeq(toClient, k + 1, Len(toClient)) \in Seq(Packet)
          BY <3>2, SubSeqProperties
        <4>2. QED
          BY <3>1, <4>1, MessagesType DEF TypeOK, HistoryType
      <3>5. ClientType'
        BY <2>27 DEF TypeOK, ClientType, ConnectionReset
      <3>6. CallType'
        BY <2>27 DEF TypeOK, CallType, ConnectionReset
      <3>7. WireType'
        <4>1. toBroker' \in Seq(Packet)
          BY <2>27 DEF ConnectionReset
        <4>2. accepted' \in BOOLEAN
          BY <2>27 DEF ConnectionReset, NoSession
        <4>3. QED
          BY <2>27, <3>3, <4>1, <4>2 DEF TypeOK, WireType, ConnectionReset, NoSession
      <3>8. HistoryType'
        BY <2>27, <3>4 DEF TypeOK, HistoryType, ConnectionReset
      <3>9. QED
        BY <3>5, <3>6, <3>7, <3>8 DEF TypeOK
    <2>28. CASE BrokerHandles
      <3>1. DEFINE p == Head(toBroker)
      <3>2. p \in Packet /\ p.filter \in TopicFilter /\ Tail(toBroker) \in Seq(Packet)
        <4>1. p \in Packet /\ Tail(toBroker) \in Seq(Packet)
          BY <2>28 DEF TypeOK, WireType, BrokerHandles
        <4>2. QED
          BY <4>1 DEF Packet
      <3>3. PICK c \in ReplyCodes(p), early \in BOOLEAN, q \in 0..QoS :
               /\ early => MayOvertake(p, c)
               /\ LET queue == IF early
                               THEN Append(toClient, Pkt("PUBLISH", pushed + 1, p.filter, q))
                               ELSE toClient
                  IN toClient' = IF ReplyType(p) = "none" THEN queue
                                 ELSE Append(queue, Pkt(ReplyType(p), p.id, NoFilter, c))
               /\ pushed' = IF early THEN pushed + 1 ELSE pushed
               /\ SessionAfter(p, c)
        BY <2>28 DEF BrokerHandles
      <3>4. WireType'
        <4>1. toClient' \in Seq(Packet)
          BY <3>2, <3>3, BrokerType DEF TypeOK, WireType
        <4>2. accepted' \in BOOLEAN
          BY <3>3 DEF TypeOK, WireType, SessionAfter
        <4>3. subs' \in SUBSET TopicFilter /\ granted' \in SUBSET TopicFilter
          BY <3>2, <3>3 DEF TypeOK, WireType, SessionAfter
        <4>4. QED
          BY <2>28, <3>2, <4>1, <4>2, <4>3 DEF TypeOK, WireType, BrokerHandles
      <3>5. pushed' \in 0..MaxPushes
        BY <3>3 DEF TypeOK, HistoryType, MayOvertake
      <3>6. HistoryType'
        BY <2>28, <3>5 DEF TypeOK, HistoryType, BrokerHandles
      <3>7. ClientType' /\ CallType'
        BY <2>28 DEF TypeOK, ClientType, CallType, BrokerHandles
      <3>8. QED
        BY <3>4, <3>6, <3>7 DEF TypeOK
    <2>29. CASE BrokerPublishes
      <3>1. PICK f \in subs, q \in 0..QoS :
                toClient' = Append(toClient, Pkt("PUBLISH", pushed + 1, f, q))
        BY <2>29 DEF BrokerPublishes
      <3>2. Pkt("PUBLISH", pushed + 1, f, q) \in Packet
        BY DEF TypeOK, WireType, HistoryType, Pkt, Packet, BrokerTypes
      <3>3. WireType'
        BY <2>29, <3>1, <3>2 DEF TypeOK, WireType, BrokerPublishes
      <3>4. HistoryType'
        BY <2>29 DEF TypeOK, HistoryType, BrokerPublishes
      <3>5. ClientType' /\ CallType'
        BY <2>29 DEF TypeOK, ClientType, CallType, BrokerPublishes
      <3>6. QED
        BY <3>3, <3>4, <3>5 DEF TypeOK
    <2>30. CASE UNCHANGED vars
      BY <2>30 DEF TypeOK, ClientType, CallType, WireType, HistoryType, vars
    <2>31. QED
      BY <2>3, <2>4, <2>5, <2>6, <2>7, <2>8, <2>9, <2>10, <2>11, <2>12, <2>13, <2>14,
         <2>15, <2>16, <2>17, <2>18, <2>19, <2>20, <2>21, <2>22, <2>23, <2>24, <2>25,
         <2>26, <2>27, <2>28, <2>29, <2>30
      DEF Next, Api, Run, Read, Finish, Environment
  <1>3. QED
    BY <1>1, <1>2, PTL DEF Spec

-------------------------------------------------------------------------------
(* Where packets of a kind stand in a channel.                             *)

At(s, P) == {i \in DOMAIN s : s[i] \in P}
AtMostOne(S) == \A i, j \in S : i = j

\* What the channel operations do to them.
LEMMA AppendAt ==
    ASSUME NEW s \in Seq(Packet), NEW p \in Packet, NEW P
    PROVE  At(Append(s, p), P) = IF p \in P THEN At(s, P) \cup {Len(s) + 1} ELSE At(s, P)
  <1>1. /\ DOMAIN Append(s, p) = DOMAIN s \cup {Len(s) + 1}
        /\ \A i \in DOMAIN s : Append(s, p)[i] = s[i]
        /\ Append(s, p)[Len(s) + 1] = p
    OBVIOUS
  <1>2. Len(s) + 1 \notin DOMAIN s
    OBVIOUS
  <1> HIDE FilterAssumption, QoSAssumption, SizeAssumption, CodeAssumption, BoundAssumption
  <1>3. QED
    BY <1>1, <1>2, Zenon DEF At

\* Taking the head of a channel leaves no packet that was not there.
LEMMA TailAt ==
    ASSUME NEW s \in Seq(Packet), s # <<>>, NEW P
    PROVE  /\ \A i \in At(Tail(s), P) : i + 1 \in At(s, P) /\ i \in Nat \ {0}
           /\ Head(s) \in P => 1 \in At(s, P)
  <1>1. \A i \in DOMAIN Tail(s) : i + 1 \in DOMAIN s /\ Tail(s)[i] = s[i + 1] /\ i \in Nat \ {0}
    OBVIOUS
  <1>2. 1 \in DOMAIN s /\ Head(s) = s[1]
    OBVIOUS
  <1>3. QED
    BY <1>1, <1>2 DEF At

\* A channel that held one packet of a kind holds none once it was read.
LEMMA TailEmpty ==
    ASSUME NEW s \in Seq(Packet), s # <<>>, NEW P
    PROVE  /\ At(s, P) = {} => At(Tail(s), P) = {}
           /\ AtMostOne(At(s, P)) => AtMostOne(At(Tail(s), P))
           /\ AtMostOne(At(s, P)) /\ Head(s) \in P => At(Tail(s), P) = {}
  <1>1. At(s, P) = {} => At(Tail(s), P) = {}
    BY TailAt
  <1>2. ASSUME AtMostOne(At(s, P)), NEW i \in At(Tail(s), P), NEW j \in At(Tail(s), P)
        PROVE  i = j
    <2>1. i + 1 = j + 1
      BY <1>2, TailAt DEF AtMostOne
    <2>2. QED
      BY <2>1, TailAt
  <1>3. ASSUME AtMostOne(At(s, P)), Head(s) \in P, NEW i \in At(Tail(s), P)
        PROVE  FALSE
    <2>1. i + 1 = 1
      BY <1>3, TailAt DEF AtMostOne
    <2>2. QED
      BY <2>1, TailAt
  <1>4. QED
    BY <1>1, <1>2, <1>3 DEF AtMostOne

\* A prefix of a channel holds no packet that was not there.
LEMMA PrefixAt ==
    ASSUME NEW s \in Seq(Packet), NEW k \in 0..Len(s), NEW P
    PROVE  At(SubSeq(s, 1, k), P) \subseteq At(s, P)
  <1>1. \A i \in 1..k : s[i] \in Packet
    OBVIOUS
  <1>2. /\ Len(SubSeq(s, 1, k)) = k
        /\ \A i \in 1..k : SubSeq(s, 1, k)[i] = s[i]
        /\ SubSeq(s, 1, k) \in Seq(Packet)
    BY <1>1, SubSeqProperties
  <1>3. DOMAIN SubSeq(s, 1, k) = 1..k /\ 1..k \subseteq DOMAIN s
    BY <1>2
  <1>4. QED
    BY <1>2, <1>3 DEF At

\* An empty channel holds no packet.
LEMMA EmptyAt == \A P : At(<<>>, P) = {}
  BY DEF At

-------------------------------------------------------------------------------
(* Which answers a call may meet.                                          *)

\* Packets that ask for an answer under an identifier, and those answers.
Asking(id) == {p \in Packet : /\ p.id = id
                              /\ \/ p.type \in {"SUBSCRIBE", "UNSUBSCRIBE", "PUBREL"}
                                 \/ p.type = "PUBLISH" /\ p.code # 0}
Answering(id) == {p \in Packet : p.id = id /\ p.type \in CommandAcks}

\* A call has an identifier when the broker answers it under one.
Identified == \/ call.op \in {"subscribe", "unsubscribe"}
              \/ call.op = "publish" /\ QoS # 0

Phases ==
    /\ pc = "idle" => call.op = "none"
    /\ pc \in {"open", "retry"} => call.op = "connect"
    /\ pc = "send" => call.op \in {"connect", "subscribe", "unsubscribe", "publish"}
    /\ pc = "payload" => call.op = "publish"
    /\ pc \in {"idle", "open", "send", "payload", "wait", "retry"} => readbuf = NoPacket
    /\ pc = "finish" => readbuf.type \in Awaited
    /\ call.id # 0 <=> Identified

\* Whatever is in flight belongs to the call in progress or to one that returned
\* without its answer.
Owned(id) == id # 0 /\ (id = call.id \/ id \in unanswered)
Registered ==
    \A id \in Nat : \/ At(toBroker, Asking(id)) # {}
                    \/ At(toClient, Answering(id)) # {}
                    \/ readbuf \in Answering(id)
                    => Owned(id)

\* A fresh identifier is in one place at a time: the request on its way, the
\* answer on its way, or the answer the client has read and not acted on.
Held == readbuf \in Answering(call.id) /\ (pc \in {"dispatch", "ack"} \/ readbuf.type # "PUBREC")
Asked == At(toBroker, Asking(call.id))
Coming == At(toClient, Answering(call.id))
OnePlace ==
    call.id # 0 /\ call.id \notin unanswered =>
        /\ AtMostOne(Asked) /\ AtMostOne(Coming)
        /\ Asked = {} \/ Coming = {}
        /\ Held \/ pc \in {"send", "payload"} => Asked = {} /\ Coming = {}

AckInv == Phases /\ Registered /\ OnePlace

USE FilterAssumption, QoSAssumption, SizeAssumption, CodeAssumption, BoundAssumption
USE DEF client, wire, session, history

\* A packet without an identifier asks for no answer and answers nothing.
LEMMA PlainPackets ==
    ASSUME NEW id \in Nat
    PROVE  /\ NoPacket \notin Answering(id)
           /\ Pkt("PINGREQ", 0, NoFilter, 0) \notin Asking(id)
  BY DEF NoPacket, Pkt, Answering, Asking, CommandAcks

\* A step of the client that writes at most one packet and reads none.
LEMMA ClientStep ==
    ASSUME TypeOK, Registered, OnePlace, NEW p \in Packet,
           toBroker' = toBroker \/ toBroker' = Append(toBroker, p),
           UNCHANGED <<toClient, unanswered>>, call'.id = call.id,
           readbuf' = readbuf \/ readbuf' = NoPacket,
           \A id \in Nat : p \in Asking(id) => Owned(id),
           p \in Asking(call.id) => /\ call.id # 0 /\ call.id \notin unanswered
                                        => Asked = {} /\ Coming = {}
                                    /\ ~Held' /\ pc' \notin {"send", "payload"},
           Held' => Held, pc' \in {"send", "payload"} => pc \in {"send", "payload"}
    PROVE  Registered' /\ OnePlace'
  <1>1. toBroker \in Seq(Packet) /\ call.id \in Nat
    BY CallFields DEF TypeOK, WireType, PacketIds
  <1>2. \A P : \/ At(toBroker', P) = At(toBroker, P)
               \/ p \in P /\ At(toBroker', P) = At(toBroker, P) \cup {Len(toBroker) + 1}
    <2> TAKE P
    <2>1. At(Append(toBroker, p), P)
            = IF p \in P THEN At(toBroker, P) \cup {Len(toBroker) + 1} ELSE At(toBroker, P)
      BY <1>1, AppendAt
    <2>2. QED
      BY <2>1
  <1>3. \A id \in Nat : Owned(id)' <=> Owned(id)
    BY DEF Owned
  <1>4. Registered'
    BY <1>2, <1>3, PlainPackets DEF Registered
  <1>5. Coming' = Coming
    BY DEF Coming
  <1>6. \/ Asked' = Asked
        \/ p \in Asking(call.id) /\ Asked' = Asked \cup {Len(toBroker) + 1}
    BY <1>2 DEF Asked
  <1>7. OnePlace'
    <2>1. CASE Asked' = Asked
      BY <1>5, <2>1 DEF OnePlace
    <2>2. CASE p \in Asking(call.id) /\ Asked' = Asked \cup {Len(toBroker) + 1}
      BY <1>5, <2>2 DEF OnePlace, AtMostOne
    <2>3. QED
      BY <1>6, <2>1, <2>2
  <1>8. QED
    BY <1>4, <1>7

\* Writing a packet that asks for no answer.
LEMMA PlainWrite ==
    ASSUME TypeOK, NEW p \in Packet, toBroker' = toBroker \/ toBroker' = Append(toBroker, p),
           \A id \in Nat : p \notin Asking(id)
    PROVE  \A id \in Nat : At(toBroker', Asking(id)) \subseteq At(toBroker, Asking(id))
  <1> TAKE id \in Nat
  <1>1. At(Append(toBroker, p), Asking(id)) = At(toBroker, Asking(id))
    <2>1. toBroker \in Seq(Packet)
      BY DEF TypeOK, WireType
    <2>2. QED
      BY <2>1, AppendAt
  <1>2. QED
    BY <1>1

\* A call that returns leaves nothing of its own in flight, or leaves its identifier
\* in unanswered.
LEMMA ReturnStep ==
    ASSUME TypeOK, Registered, Return, toClient' = toClient,
           \A id \in Nat : At(toBroker', Asking(id)) \subseteq At(toBroker, Asking(id)),
           unanswered \subseteq unanswered',
           call.id = 0 \/ call.id \in unanswered' \/ (Asked = {} /\ Coming = {})
    PROVE  Registered' /\ OnePlace'
  <1>1. call'.id = 0 /\ readbuf' = NoPacket
    BY DEF Return, NoCall, NewCall
  <1>2. OnePlace'
    BY <1>1 DEF OnePlace
  <1>3. ASSUME NEW id \in Nat,
               \/ At(toBroker', Asking(id)) # {}
               \/ At(toClient', Answering(id)) # {}
        PROVE  Owned(id)'
    <2>1. Owned(id)
      BY <1>3 DEF Registered
    <2>2. CASE id = call.id
      BY <1>3, <2>1, <2>2 DEF Owned, Asked, Coming
    <2>3. CASE id # call.id
      BY <2>1, <2>3 DEF Owned
    <2>4. QED
      BY <2>2, <2>3
  <1>4. Registered'
    BY <1>1, <1>3, PlainPackets DEF Registered
  <1>5. QED
    BY <1>2, <1>4

\* The end of a connection ends every claim to an answer.
LEMMA HangupStep ==
    ASSUME toBroker' = <<>>, toClient' = <<>>, readbuf' = NoPacket
    PROVE  Registered' /\ (call'.id = 0 => OnePlace')
  <1>1. Registered'
    BY EmptyAt, PlainPackets DEF Registered
  <1>2. call'.id = 0 => OnePlace'
    BY DEF OnePlace
  <1>3. QED
    BY <1>1, <1>2

\* The answer of the broker takes the place of the request.
LEMMA ReplyAnswers ==
    ASSUME TypeOK, NEW p \in Packet, NEW c \in ReplyCodes(p), NEW id \in Nat,
           Pkt(ReplyType(p), p.id, NoFilter, c) \in Answering(id)
    PROVE  p \in Asking(id)
  <1>1. p.id = id /\ ReplyType(p) \in CommandAcks
    BY DEF Answering, Pkt
  <1>2. \/ p.type \in {"SUBSCRIBE", "UNSUBSCRIBE", "PUBREL"}
        \/ p.type = "PUBLISH" /\ p.code # 0
    BY <1>1 DEF ReplyType, CommandAcks
  <1>3. QED
    BY <1>1, <1>2 DEF Asking

\* The phases of a call follow its control flow.
LEMMA PhasesStep ==
    ASSUME TypeOK, Phases, [Next]_vars
    PROVE  Phases'
  <1> USE DEF Phases, Identified
  <1>1. ASSUME NEW op \in {"subscribe", "unsubscribe", "publish"}, NEW f \in TopicFilter,
               NEW id \in PacketIds, Begin(op, f, id),
               id # 0 <=> (op # "publish" \/ QoS # 0)
        PROVE  Phases'
    BY <1>1 DEF Begin, NewCall, Idle
  <1>2. getNextPacketId \in PacketIds \ {0}
    BY DEF TypeOK, ClientType, getNextPacketId, PacketIds
  <1>3. CASE MQTTSubscribe
    BY <1>1, <1>2, <1>3 DEF MQTTSubscribe, TopicFilter
  <1>4. CASE MQTTUnsubscribe
    BY <1>1, <1>2, <1>4 DEF MQTTUnsubscribe, TopicFilter
  <1>5. CASE MQTTPublish
    BY <1>1, <1>2, <1>5 DEF MQTTPublish, TopicFilter, PacketIds
  <1>6. CASE MQTTYield \/ StartSession
    BY <1>6 DEF MQTTYield, StartSession, NewCall, Idle
  <1>7. CASE StopSession
    BY <1>7 DEF StopSession, Idle
  <1>8. CASE OpenConnection
    BY <1>8 DEF OpenConnection
  <1>9. CASE RetrySession
    BY <1>9 DEF RetrySession, Return, NewCall, NoCall
  <1>10. CASE SendRequest
    BY <1>10 DEF SendRequest, Goto
  <1>11. CASE SendPayload \/ SendFails \/ WaitExpired
    BY <1>11 DEF SendPayload, SendFails, WaitExpired, Fail, Goto, Return, NewCall, NoCall
  <1>12. CASE Read
    BY <1>12 DEF Read, ReadPacket, ReadTimesOut, ReadError, ReadEof, NextCycle, Goto,
       Return, NewCall, NoCall
  <1>13. CASE Dispatch
    BY <1>13 DEF Dispatch
  <1>14. CASE SendAck
    BY <1>14 DEF SendAck, NextCycle, Goto, Return, NewCall, NoCall
  <1>15. CASE KeepAlive
    BY <1>15 DEF KeepAlive, NextCycle, Goto, Return, NewCall, NoCall, Awaited
  <1>16. CASE Finish
    BY <1>16 DEF Finish, FinishConnect, FinishSubscribe, FinishUnsubscribe, FinishPublish,
       Fail, Goto, Return, NewCall, NoCall
  <1>17. CASE Environment \/ UNCHANGED vars
    BY <1>17 DEF Environment, TimerExpires, PingTimerExpires, BrokerCloses,
       ConnectionReset, BrokerHandles, BrokerPublishes, vars, Awaited
  <1>18. QED
    BY <1>3, <1>4, <1>5, <1>6, <1>7, <1>8, <1>9, <1>10, <1>11, <1>12, <1>13, <1>14,
       <1>15, <1>16, <1>17
    DEF Next, Api, Run

\* Each step keeps the ownership of what is in flight.
LEMMA AckStep ==
    ASSUME TypeOK, AckInv, [Next]_vars
    PROVE  Registered' /\ OnePlace'
  <1> USE DEF AckInv
  <1>1. ASSUME NEW op \in Ops, NEW f \in TopicFilter, NEW id \in PacketIds, Begin(op, f, id)
        PROVE  Registered' /\ OnePlace'
    <2>1. call.id = 0 /\ call'.id = id /\ readbuf' = readbuf /\ id \in Nat
      BY <1>1 DEF Begin, Idle, NewCall, Phases, Identified, PacketIds
    <2>2. UNCHANGED <<toBroker, toClient, unanswered>> /\ pc' = "send" /\ readbuf' = NoPacket
      BY <1>1 DEF Begin, Idle, Phases
    <2>3. \A i \in Nat : Owned(i) => Owned(i)'
      BY <2>1, <2>2 DEF Owned
    <2>4. Registered'
      BY <2>1, <2>2, <2>3 DEF Registered
    <2>5. At(toBroker, Asking(id)) # {} \/ At(toClient, Answering(id)) # {}
            => id = 0 \/ id \in unanswered
      BY <2>1 DEF Registered, Owned
    <2>6. Asked' = At(toBroker, Asking(id)) /\ Coming' = At(toClient, Answering(id))
      BY <2>1, <2>2 DEF Asked, Coming
    <2>7. OnePlace'
      BY <2>1, <2>2, <2>5, <2>6 DEF OnePlace, AtMostOne
    <2>8. QED
      BY <2>4, <2>7
  <1> DEFINE ping == Pkt("PINGREQ", 0, NoFilter, 0)
  <1>2. /\ ping \in Packet /\ \A id \in Nat : ping \notin Asking(id)
        /\ call.id \in Nat /\ 0 \in Nat
    BY PacketConstants, PlainPackets, CallFields DEF TypeOK, PacketIds
  <1> HIDE DEF ping
  <1>3. ASSUME UNCHANGED <<toBroker, toClient, unanswered>>, call'.id = call.id,
               readbuf' = readbuf \/ readbuf' = NoPacket, Held' => Held,
               pc' \in {"send", "payload"} => pc \in {"send", "payload"}
        PROVE  Registered' /\ OnePlace'
    BY <1>2, <1>3, ClientStep
  <1>4. readbuf' = NoPacket => ~Held'
    <2>1. call'.id \in Nat => NoPacket \notin Answering(call'.id)
      BY PlainPackets
    <2>2. Answering(call'.id) # {} => call'.id \in Nat
      BY DEF Answering, Packet
    <2>3. QED
      BY <2>1, <2>2 DEF Held
  <1>5. CASE MQTTSubscribe \/ MQTTUnsubscribe \/ MQTTPublish
    <2>1. getNextPacketId \in PacketIds /\ 0 \in PacketIds
      BY DEF TypeOK, ClientType, getNextPacketId, PacketIds
    <2>2. /\ {"subscribe", "unsubscribe", "publish"} \subseteq Ops
          /\ Filters \subseteq TopicFilter /\ NoFilter \in TopicFilter
      BY DEF Ops, TopicFilter
    <2>3. QED
      BY <1>1, <1>5, <2>1, <2>2 DEF MQTTSubscribe, MQTTUnsubscribe, MQTTPublish
  <1>6. CASE MQTTYield \/ StartSession
    <2>1. /\ UNCHANGED <<toBroker, toClient, unanswered, readbuf>> /\ call'.id = call.id
          /\ pc' \notin {"send", "payload"} /\ readbuf' = NoPacket
      BY <1>6 DEF MQTTYield, StartSession, Idle, NewCall, Phases, Identified
    <2>2. QED
      BY <1>3, <1>4, <2>1
  <1>7. CASE StopSession
    <2>1. toBroker' = <<>> /\ toClient' = <<>> /\ readbuf' = NoPacket /\ call'.id = 0
      BY <1>7 DEF StopSession, Hangup, Idle, Phases, Identified
    <2>2. QED
      BY <2>1, HangupStep
  <1>8. CASE OpenConnection
    <2>1. toBroker' = <<>> /\ toClient' = <<>> /\ readbuf' = NoPacket /\ call'.id = 0
      BY <1>8 DEF OpenConnection, Hangup, Phases, Identified
    <2>2. QED
      BY <2>1, HangupStep
  <1>9. CASE RetrySession
    <2>1. toBroker' = <<>> /\ toClient' = <<>> /\ readbuf' = NoPacket /\ call'.id = 0
      BY <1>9 DEF RetrySession, Hangup, Phases, Return, NewCall, NoCall
    <2>2. QED
      BY <2>1, HangupStep
  <1>10. CASE TimerExpires \/ PingTimerExpires
    BY <1>3, <1>10 DEF TimerExpires, PingTimerExpires, Held
  <1>11. CASE ReadTimesOut \/ ReadError
    BY <1>3, <1>4, <1>11 DEF ReadTimesOut, ReadError
  <1>12. CASE Dispatch
    BY <1>3, <1>12 DEF Dispatch, Held
  <1>13. CASE UNCHANGED vars
    BY <1>3, <1>13 DEF vars, Held
  <1>14. ASSUME Return, UNCHANGED <<toBroker, toClient>>, unanswered \subseteq unanswered',
                call.id = 0 \/ call.id \in unanswered' \/ (Asked = {} /\ Coming = {})
         PROVE  Registered' /\ OnePlace'
    BY <1>14, ReturnStep
  <1>15. ASSUME pc \in {"send", "payload"}, NEW id \in Nat, Request \in Asking(id)
         PROVE  id = call.id /\ Owned(id) /\ Identified
    <2>1. Request.id = id
      BY <1>15 DEF Asking
    <2>2. call.op # "connect" /\ (call.op = "publish" => QoS # 0)
      BY <1>15 DEF Request, Asking, Pkt, Phases
    <2>3. Identified /\ Request.id = call.id
      BY <1>15, <2>2 DEF Identified, Phases, Request, Pkt
    <2>4. QED
      BY <2>1, <2>3 DEF Owned, Phases
  <1>16. CASE SendRequest
    <2>1. CASE call.op = "publish"
      <3>1. UNCHANGED <<toBroker, toClient, unanswered, call, readbuf>> /\ readbuf = NoPacket
        BY <1>16, <2>1 DEF SendRequest, Goto, Phases
      <3>2. pc = "send"
        BY <1>16 DEF SendRequest
      <3>3. QED
        BY <1>3, <1>4, <3>1, <3>2
    <2>2. CASE call.op # "publish"
      <3>1. /\ toBroker' = toBroker \/ toBroker' = Append(toBroker, Request)
            /\ UNCHANGED <<toClient, unanswered, call, readbuf>> /\ readbuf' = NoPacket
            /\ pc = "send" /\ pc' = "wait"
        BY <1>16, <2>2 DEF SendRequest, Written, Goto, Phases
      <3>2. /\ call.id # 0 /\ call.id \notin unanswered => Asked = {} /\ Coming = {}
            /\ ~Held' /\ pc' \notin {"send", "payload"}
        BY <1>4, <3>1 DEF OnePlace
      <3>3. Request \in Packet
        BY PacketType
      <3>4. QED
        BY <1>15, <3>1, <3>2, <3>3, ClientStep
    <2>3. QED
      BY <2>1, <2>2
  <1>17. CASE SendPayload
    <2>1. /\ toBroker' = toBroker \/ toBroker' = Append(toBroker, Request)
          /\ UNCHANGED <<toClient, unanswered>> /\ pc = "payload" /\ readbuf = NoPacket
          /\ call.op = "publish" /\ Request \in Packet
      BY <1>17, PacketType DEF SendPayload, Written, Phases
    <2>2. CASE QoS = 0
      <3>1. \A id \in Nat : Request \notin Asking(id)
        BY <1>15, <2>1, <2>2 DEF Identified
      <3>2. \A id \in Nat : At(toBroker', Asking(id)) \subseteq At(toBroker, Asking(id))
        BY <2>1, <3>1, PlainWrite
      <3>3. Return /\ call.id = 0
        BY <1>17, <2>1, <2>2 DEF SendPayload, Phases, Identified
      <3>4. QED
        BY <2>1, <3>2, <3>3, ReturnStep
    <2>3. CASE QoS # 0
      <3>1. UNCHANGED <<call, readbuf>> /\ readbuf' = NoPacket /\ pc' = "wait"
        BY <1>17, <2>1, <2>3 DEF SendPayload
      <3>2. /\ call.id # 0 /\ call.id \notin unanswered => Asked = {} /\ Coming = {}
            /\ ~Held' /\ pc' \notin {"send", "payload"}
        BY <1>4, <2>1, <3>1 DEF OnePlace
      <3>3. QED
        BY <1>15, <2>1, <3>1, <3>2, ClientStep
    <2>4. QED
      BY <2>2, <2>3
  <1>18. CASE SendFails
    <2>1. CASE call.op = "connect"
      <3>1. /\ UNCHANGED <<toBroker, toClient, unanswered, call>> /\ readbuf' = NoPacket
            /\ pc' = "retry"
        BY <1>18, <2>1 DEF SendFails, NotWritten, Fail, Goto
      <3>2. QED
        BY <1>3, <1>4, <3>1
    <2>2. CASE call.op # "connect"
      <3>1. /\ UNCHANGED <<toBroker, toClient, unanswered>> /\ Return
            /\ pc \in {"send", "payload"}
        BY <1>18, <2>2 DEF SendFails, NotWritten, Fail
      <3>2. call.id = 0 \/ call.id \in unanswered \/ (Asked = {} /\ Coming = {})
        BY <3>1 DEF OnePlace
      <3>3. QED
        BY <1>14, <3>1, <3>2
    <2>3. QED
      BY <2>1, <2>2
  <1>19. CASE WaitExpired
    <2>1. CASE call.op = "connect"
      <3>1. /\ UNCHANGED <<toBroker, toClient, unanswered, call>> /\ readbuf' = NoPacket
            /\ pc' = "retry"
        BY <1>19, <2>1 DEF WaitExpired, Fail, Goto
      <3>2. QED
        BY <1>3, <1>4, <3>1
    <2>2. CASE call.op # "connect"
      <3>1. /\ UNCHANGED <<toBroker, toClient>> /\ Return /\ unanswered \subseteq unanswered'
            /\ call.id \in unanswered' \/ call.op = "yield"
        BY <1>19, <2>2 DEF WaitExpired, Fail
      <3>2. call.id = 0 \/ call.id \in unanswered'
        BY <3>1 DEF Phases, Identified
      <3>3. QED
        BY <1>14, <3>1, <3>2
    <2>3. QED
      BY <2>1, <2>2
  <1>20. CASE ReadEof
    <2>1. CASE call.op = "yield"
      <3>1. Return /\ UNCHANGED <<toBroker, toClient, unanswered>> /\ call.id = 0
        BY <1>20, <2>1 DEF ReadEof, NextCycle, Phases, Identified
      <3>2. QED
        BY <1>14, <3>1
    <2>2. CASE call.op # "yield"
      <3>1. /\ UNCHANGED <<toBroker, toClient, unanswered, call>> /\ readbuf' = NoPacket
            /\ pc' = "wait"
        BY <1>20, <2>2 DEF ReadEof, NextCycle, Goto
      <3>2. QED
        BY <1>3, <1>4, <3>1
    <2>3. QED
      BY <2>1, <2>2
  <1>21. CASE Finish
    <2>1. CASE FinishConnect
      <3>1. UNCHANGED <<toBroker, toClient, unanswered>> /\ call.id = 0
        BY <2>1 DEF FinishConnect, Phases, Identified
      <3>2. \/ Return
            \/ pc' = "retry" /\ call' = call /\ readbuf' = NoPacket
        BY <2>1 DEF FinishConnect, Fail, Goto
      <3>3. QED
        BY <1>3, <1>4, <1>14, <3>1, <3>2
    <2>2. CASE FinishSubscribe \/ FinishUnsubscribe \/ FinishPublish
      <3>1. /\ UNCHANGED <<toBroker, toClient>> /\ Return /\ Answered /\ pc = "finish"
            /\ call.op \in {"subscribe", "unsubscribe", "publish"}
        BY <2>2 DEF FinishSubscribe, FinishUnsubscribe, FinishPublish
      <3>2. CASE readbuf.id # call.id
        BY <1>14, <3>1, <3>2 DEF Answered
      <3>3. CASE readbuf.id = call.id
        <4>1. readbuf \in Packet /\ readbuf.type \in Awaited
          BY <3>1 DEF TypeOK, CallType, Phases
        <4>2. readbuf.type \in CommandAcks \ {"PUBREC"}
          BY <3>1, <4>1 DEF Awaited, CommandAcks
        <4>3. Held
          BY <3>3, <4>1, <4>2 DEF Held, Answering
        <4>4. call.id = 0 \/ call.id \in unanswered \/ (Asked = {} /\ Coming = {})
          BY <4>3 DEF OnePlace
        <4>5. QED
          BY <1>14, <3>1, <4>4 DEF Answered
      <3>4. QED
        BY <3>2, <3>3
    <2>3. QED
      BY <1>21, <2>1, <2>2 DEF Finish
  <1>22. CASE SendAck
    <2>1. pc = "ack" /\ UNCHANGED <<toClient, unanswered>> /\ Answer \in Packet
      BY <1>22, PacketType DEF SendAck
    <2>2. CASE Written(Answer) /\ Goto("keepalive") /\ readbuf' = readbuf
      <3>1. /\ toBroker' = toBroker \/ toBroker' = Append(toBroker, Answer)
            /\ call' = call /\ readbuf' = readbuf /\ pc' = "keepalive"
        BY <2>2 DEF Written, Goto
      <3>2. ASSUME NEW id \in Nat, Answer \in Asking(id)
            PROVE  readbuf \in Answering(id) /\ readbuf.type = "PUBREC"
        BY <3>2 DEF Answer, Asking, Answering, Pkt, CommandAcks, TypeOK, CallType
      <3>3. \A id \in Nat : Answer \in Asking(id) => Owned(id)
        BY <3>2 DEF Registered
      <3>4. Held' => Held
        BY <2>1, <3>1 DEF Held
      <3>5. Answer \in Asking(call.id) => Held /\ ~Held'
        BY <1>2, <2>1, <3>1, <3>2 DEF Held
      <3>6. QED
        BY <2>1, <3>1, <3>3, <3>4, <3>5, ClientStep DEF OnePlace
    <2>3. CASE NotWritten /\ NextCycle(TRUE) /\ call.op = "yield"
      <3>1. Return /\ toBroker' = toBroker /\ call.id = 0
        BY <2>3 DEF NotWritten, NextCycle, Phases, Identified
      <3>2. QED
        BY <1>14, <2>1, <3>1
    <2>4. CASE NotWritten /\ NextCycle(TRUE) /\ call.op # "yield"
      <3>1. UNCHANGED <<toBroker, call>> /\ readbuf' = NoPacket /\ pc' = "wait"
        BY <2>4 DEF NotWritten, NextCycle, Goto
      <3>2. QED
        BY <1>3, <1>4, <2>1, <3>1
    <2>5. QED
      BY <1>22, <2>2, <2>3, <2>4 DEF SendAck
  <1>23. CASE KeepAlive
    <2>1. /\ toBroker' = toBroker \/ toBroker' = Append(toBroker, ping)
          /\ UNCHANGED <<toClient, unanswered>> /\ pc = "keepalive"
      BY <1>23 DEF KeepAlive, Written, NotWritten, ping
    <2>2. CASE Return
      <3>1. call.id = 0
        BY <1>23, <2>2 DEF KeepAlive, NextCycle, Goto, Return, Phases, Identified
      <3>2. \A id \in Nat : At(toBroker', Asking(id)) \subseteq At(toBroker, Asking(id))
        BY <1>2, <2>1, PlainWrite
      <3>3. QED
        BY <2>1, <2>2, <3>1, <3>2, ReturnStep
    <2>3. CASE ~Return
      <3>1. /\ call' = call /\ pc' \in {"finish", "wait"}
            /\ readbuf' = readbuf \/ readbuf' = NoPacket
        BY <1>23, <2>3 DEF KeepAlive, NextCycle, Goto
      <3>2. Held' => Held
        BY <1>4, <2>1, <3>1 DEF Held
      <3>3. QED
        BY <1>2, <2>1, <3>1, <3>2, ClientStep
    <2>4. QED
      BY <2>2, <2>3
  <1>24. CASE ReadPacket
    <2>1. /\ toClient # <<>> /\ toClient' = Tail(toClient) /\ readbuf' = Head(toClient)
          /\ UNCHANGED <<toBroker, unanswered, call>> /\ pc' = "dispatch"
          /\ toClient \in Seq(Packet)
      BY <1>24 DEF ReadPacket, TypeOK, WireType
    <2>2. \A id \in Nat : Owned(id)' <=> Owned(id)
      BY <2>1 DEF Owned
    <2>3. ASSUME NEW id \in Nat,
                 At(toClient', Answering(id)) # {} \/ readbuf' \in Answering(id)
          PROVE  At(toClient, Answering(id)) # {}
      BY <2>1, <2>3, TailEmpty, TailAt
    <2>4. Registered'
      BY <2>1, <2>2, <2>3 DEF Registered
    <2>5. Asked' = Asked
      BY <2>1 DEF Asked
    <2>6. /\ AtMostOne(Coming) => AtMostOne(Coming')
          /\ Coming = {} => Coming' = {}
          /\ AtMostOne(Coming) /\ Held' => Coming' = {}
          /\ Held' => Coming # {}
      BY <2>1, TailEmpty, TailAt DEF Coming, Held
    <2>7. OnePlace'
      BY <2>1, <2>5, <2>6 DEF OnePlace
    <2>8. QED
      BY <2>4, <2>7
  <1>25. CASE BrokerCloses \/ ConnectionReset
    <2>1. /\ toBroker' = <<>> /\ UNCHANGED <<unanswered, call, readbuf, pc>>
          /\ \A P : At(toClient', P) \subseteq At(toClient, P)
      <3>1. CASE BrokerCloses
        BY <1>25, <3>1 DEF BrokerCloses
      <3>2. CASE ConnectionReset
        <4>1. toClient \in Seq(Packet)
          BY DEF TypeOK, WireType
        <4>2. PICK k \in 0..Len(toClient) : toClient' = SubSeq(toClient, 1, k)
          BY <3>2 DEF ConnectionReset
        <4>3. QED
          BY <3>2, <4>1, <4>2, PrefixAt DEF ConnectionReset
      <3>3. QED
        BY <1>25, <3>1, <3>2
    <2>2. Registered'
      BY <2>1, EmptyAt DEF Registered, Owned
    <2>3. Asked' = {} /\ Coming' \subseteq Coming /\ (Held' => Held)
      BY <2>1, EmptyAt DEF Asked, Coming, Held
    <2>4. OnePlace'
      BY <2>1, <2>3 DEF OnePlace, AtMostOne
    <2>5. QED
      BY <2>2, <2>4
  <1>26. CASE BrokerPublishes
    <2>1. PICK f \in subs, q \in 0..QoS :
             toClient' = Append(toClient, Pkt("PUBLISH", pushed + 1, f, q))
      BY <1>26 DEF BrokerPublishes
    <2> DEFINE m == Pkt("PUBLISH", pushed + 1, f, q)
    <2>2. m \in Packet /\ \A id \in Nat : m \notin Answering(id)
      BY DEF TypeOK, WireType, HistoryType, Pkt, Packet, BrokerTypes, Answering, CommandAcks
    <2> HIDE DEF m
    <2>3. ASSUME NEW id \in Nat
          PROVE  At(toClient', Answering(id)) = At(toClient, Answering(id))
      <3>1. toClient \in Seq(Packet)
        BY DEF TypeOK, WireType
      <3>2. At(Append(toClient, m), Answering(id)) = At(toClient, Answering(id))
        BY <2>2, <3>1, AppendAt
      <3>3. QED
        BY <2>1, <3>2 DEF m
    <2>4. UNCHANGED <<toBroker, unanswered, call, readbuf, pc>>
      BY <1>26 DEF BrokerPublishes
    <2>5. Registered'
      BY <2>3, <2>4 DEF Registered, Owned
    <2>6. OnePlace'
      BY <1>2, <2>3, <2>4 DEF OnePlace, AtMostOne, Asked, Coming, Held
    <2>7. QED
      BY <2>5, <2>6
  <1>27. CASE BrokerHandles
    <2> DEFINE p == Head(toBroker)
    <2>1. /\ p \in Packet /\ toBroker \in Seq(Packet) /\ toBroker # <<>>
          /\ toClient \in Seq(Packet) /\ toBroker' = Tail(toBroker)
          /\ UNCHANGED <<unanswered, call, readbuf, pc>>
      BY <1>27 DEF BrokerHandles, TypeOK, WireType
    <2>2. PICK c \in ReplyCodes(p), early \in BOOLEAN, q \in 0..QoS :
             LET queue == IF early
                          THEN Append(toClient, Pkt("PUBLISH", pushed + 1, p.filter, q))
                          ELSE toClient
             IN toClient' = IF ReplyType(p) = "none" THEN queue
                            ELSE Append(queue, Pkt(ReplyType(p), p.id, NoFilter, c))
      BY <1>27 DEF BrokerHandles
    <2> DEFINE m == Pkt("PUBLISH", pushed + 1, p.filter, q)
               a == Pkt(ReplyType(p), p.id, NoFilter, c)
               queue == IF early THEN Append(toClient, m) ELSE toClient
    <2>3. toClient' = IF ReplyType(p) = "none" THEN queue ELSE Append(queue, a)
      BY <2>2
    <2>4. m \in Packet /\ \A id \in Nat : m \notin Answering(id)
      <3>1. p.filter \in TopicFilter
        BY <2>1 DEF Packet
      <3>2. QED
        BY <3>1 DEF TypeOK, WireType, HistoryType, Pkt, Packet, BrokerTypes, Answering, CommandAcks
    <2>5. ReplyType(p) # "none" => a \in Packet
      BY <2>1, BrokerType
    <2>6. ASSUME NEW id \in Nat, a \in Answering(id)
          PROVE  p \in Asking(id)
      BY <2>1, <2>6, ReplyAnswers
    <2> HIDE DEF p, m, a
    <2>7. ASSUME NEW id \in Nat
          PROVE  \/ At(toClient', Answering(id)) = At(toClient, Answering(id))
                 \/ /\ p \in Asking(id)
                    /\ \E n : At(toClient', Answering(id)) = At(toClient, Answering(id)) \cup {n}
      <3>1. queue \in Seq(Packet) /\ At(queue, Answering(id)) = At(toClient, Answering(id))
        BY <2>1, <2>4, AppendAt
      <3> HIDE DEF queue
      <3>2. CASE ReplyType(p) = "none"
        BY <2>3, <3>1, <3>2
      <3>3. CASE ReplyType(p) # "none"
        <4>1. toClient' = Append(queue, a) /\ a \in Packet
          BY <2>3, <2>5, <3>3
        <4>2. At(Append(queue, a), Answering(id))
                = IF a \in Answering(id) THEN At(queue, Answering(id)) \cup {Len(queue) + 1}
                  ELSE At(queue, Answering(id))
          BY <3>1, <4>1, AppendAt
        <4>3. QED
          BY <2>6, <3>1, <4>1, <4>2
      <3>4. QED
        BY <3>2, <3>3
    <2>8. ASSUME NEW id \in Nat
          PROVE  /\ p \in Asking(id) => At(toBroker, Asking(id)) # {}
                 /\ At(toBroker, Asking(id)) = {} => At(toBroker', Asking(id)) = {}
                 /\ AtMostOne(At(toBroker, Asking(id))) => AtMostOne(At(toBroker', Asking(id)))
                 /\ AtMostOne(At(toBroker, Asking(id))) /\ p \in Asking(id)
                        => At(toBroker', Asking(id)) = {}
      BY <2>1, TailAt, TailEmpty DEF p
    <2>9. Registered'
      <3>1. ASSUME NEW id \in Nat, \/ At(toBroker', Asking(id)) # {}
                                   \/ At(toClient', Answering(id)) # {}
                                   \/ readbuf' \in Answering(id)
            PROVE  Owned(id)'
        <4>1. \/ At(toBroker, Asking(id)) # {}
              \/ At(toClient, Answering(id)) # {}
              \/ readbuf \in Answering(id)
          BY <2>1, <2>7, <2>8, <3>1
        <4>2. QED
          BY <2>1, <4>1 DEF Registered, Owned
      <3>2. QED
        BY <3>1 DEF Registered
    <2>10. OnePlace'
      <3>1. call'.id = call.id /\ (Held' <=> Held)
        BY <2>1 DEF Held
      <3>2. /\ Coming' = Coming \/ (p \in Asking(call.id) /\ \E n : Coming' = Coming \cup {n})
            /\ p \in Asking(call.id) => Asked # {}
            /\ Asked = {} => Asked' = {}
            /\ AtMostOne(Asked) => AtMostOne(Asked')
            /\ AtMostOne(Asked) /\ p \in Asking(call.id) => Asked' = {}
        BY <1>2, <2>7, <2>8, <3>1 DEF Asked, Coming
      <3>3. CASE Coming' = Coming
        BY <2>1, <3>1, <3>2, <3>3 DEF OnePlace
      <3>4. CASE p \in Asking(call.id) /\ \E n : Coming' = Coming \cup {n}
        BY <2>1, <3>1, <3>2, <3>4 DEF OnePlace, AtMostOne
      <3>5. QED
        BY <3>2, <3>3, <3>4
    <2>11. QED
      BY <2>9, <2>10
  <1>28. QED
    BY <1>5, <1>6, <1>7, <1>8, <1>9, <1>10, <1>11, <1>12, <1>13, <1>16, <1>17, <1>18,
       <1>19, <1>20, <1>21, <1>22, <1>23, <1>24, <1>25, <1>26, <1>27
    DEF Next, Api, Run, Read, Environment

\* Initially nothing is in flight.
LEMMA AckInitially == Init => AckInv
  <1> SUFFICES ASSUME Init PROVE AckInv
    OBVIOUS
  <1>1. toBroker = <<>> /\ toClient = <<>> /\ readbuf = NoPacket /\ call.id = 0 /\ call.op = "none"
    BY DEF Init, NoCall, NewCall
  <1>2. Phases
    BY <1>1 DEF Phases, Identified, Init
  <1>3. Registered
    BY <1>1, EmptyAt, PlainPackets DEF Registered
  <1>4. OnePlace
    BY <1>1 DEF OnePlace
  <1>5. QED
    BY <1>2, <1>3, <1>4 DEF AckInv

\* The answer a command takes for its own is its own, or that of a command that
\* returned without one earlier on the same connection.
THEOREM AcksMismatchLateOnly == Spec => []OnlyLateAcksMismatch
  <1>1. TypeOK /\ AckInv /\ [Next]_vars => AckInv'
    BY PhasesStep, AckStep DEF AckInv
  <1>2. TypeOK /\ AckInv => OnlyLateAcksMismatch
    <2> SUFFICES ASSUME TypeOK, AckInv, pc = "finish", call.op # "connect"
                 PROVE  readbuf.id = call.id \/ readbuf.id \in unanswered
      BY DEF OnlyLateAcksMismatch
    <2>1. readbuf \in Packet /\ readbuf.id \in Nat /\ readbuf.type \in Awaited
      BY DEF TypeOK, CallType, Packet, AckInv, Phases
    <2>2. readbuf.type \in CommandAcks
      BY <2>1 DEF Awaited, CommandAcks
    <2>3. readbuf \in Answering(readbuf.id)
      BY <2>1, <2>2 DEF Answering
    <2>4. QED
      BY <2>1, <2>3 DEF AckInv, Registered, Owned
  <1>3. QED
    BY <1>1, <1>2, AckInitially, TypeCorrect, PTL DEF Spec

-------------------------------------------------------------------------------
(* What a connected client knows about its connection.                     *)

Accepting == {p \in Packet : p.type = "CONNACK" /\ p.code = 0}

SessionInv ==
    /\ ConnectedIsAccepted
    /\ NoOrphanConnection
    /\ pc \in {"idle", "open"} => readbuf = NoPacket
    /\ call.op = "connect" /\ pc # "open" => ~isconnected
    /\ net \in {"unset", "closed"} => toClient = <<>> /\ readbuf = NoPacket
    /\ net = "open" /\ (At(toClient, Accepting) # {} \/ readbuf \in Accepting) => accepted

\* Accepting packets come from the broker's answer to a CONNECT alone.
LEMMA OnlyConnackAccepts ==
    ASSUME TypeOK, NEW p \in Packet, NEW c \in ReplyCodes(p),
           Pkt(ReplyType(p), p.id, NoFilter, c) \in Accepting
    PROVE  p.type = "CONNECT" /\ c = 0
  <1>1. ReplyType(p) = "CONNACK" /\ c = 0
    BY DEF Accepting, Pkt
  <1>2. QED
    BY <1>1 DEF ReplyType

\* The absence of a packet is not an accepting packet.
LEMMA NoPacketAcceptsNothing == NoPacket \notin Accepting
  BY DEF NoPacket, Pkt, Accepting

\* Steps that leave the connection, the session of the broker and the answers on
\* their way alone, and set isconnected only to FALSE with the connection gone.
LEMMA SessionQuiet ==
    ASSUME SessionInv, Phases, UNCHANGED <<net, toClient, accepted>>,
           readbuf' = readbuf \/ readbuf' = NoPacket,
           \/ isconnected' = isconnected
           \/ isconnected' = FALSE /\ net # "open",
           \/ call'.op = call.op /\ (pc' # "open" => pc # "open")
           \/ call.op # "connect" /\ call'.op # "connect"
           \/ call.op # "connect" /\ pc' = "open",
           pc' \in {"idle", "open"} => readbuf' = NoPacket
    PROVE  SessionInv'
  BY NoPacketAcceptsNothing DEF SessionInv, ConnectedIsAccepted, NoOrphanConnection

\* Each step keeps the invariant of the session.
LEMMA SessionStep ==
    ASSUME TypeOK, Phases, SessionInv, [Next]_vars
    PROVE  SessionInv'
  <1>1. CASE MQTTSubscribe \/ MQTTUnsubscribe \/ MQTTPublish
    <2>1. ASSUME NEW op \in Ops \ {"connect"}, NEW f \in TopicFilter, NEW id \in PacketIds,
                 Begin(op, f, id)
          PROVE  SessionInv'
      BY <2>1, SessionQuiet DEF Begin, NewCall, Idle, Phases
    <2>2. getNextPacketId \in PacketIds /\ 0 \in PacketIds
      BY DEF TypeOK, ClientType, getNextPacketId, PacketIds
    <2>3. /\ {"subscribe", "unsubscribe", "publish"} \subseteq Ops \ {"connect"}
          /\ Filters \subseteq TopicFilter /\ NoFilter \in TopicFilter
      BY DEF Ops, TopicFilter
    <2>4. QED
      BY <1>1, <2>1, <2>2, <2>3 DEF MQTTSubscribe, MQTTUnsubscribe, MQTTPublish
  <1>2. CASE MQTTYield \/ StartSession
    <2>1. /\ UNCHANGED <<net, toClient, accepted, isconnected, readbuf>> /\ call.op = "none"
          /\ readbuf' = NoPacket
          /\ call'.op # "connect" \/ pc' = "open"
      BY <1>2 DEF MQTTYield, StartSession, NewCall, Idle, Phases
    <2>2. QED
      BY <2>1, SessionQuiet
  <1>3. CASE StopSession
    BY <1>3 DEF StopSession, Hangup, NoSession, Idle, Phases, SessionInv,
       ConnectedIsAccepted, NoOrphanConnection
  <1>4. CASE OpenConnection
    BY <1>4, EmptyAt, NoPacketAcceptsNothing
    DEF OpenConnection, Hangup, Phases, SessionInv, ConnectedIsAccepted, NoOrphanConnection
  <1>5. CASE RetrySession
    BY <1>5 DEF RetrySession, Hangup, Phases, Return, NewCall, NoCall, SessionInv,
       ConnectedIsAccepted, NoOrphanConnection
  <1>6. CASE SendRequest \/ SendPayload \/ SendFails
    <2>1. /\ UNCHANGED <<net, toClient, accepted, isconnected>>
          /\ pc \in {"send", "payload"} /\ readbuf' = NoPacket /\ pc' # "open"
      BY <1>6 DEF SendRequest, SendPayload, SendFails, Goto, Fail, Return, Phases
    <2>2. call' = call \/ (call.op # "connect" /\ call'.op # "connect")
      BY <1>6 DEF SendRequest, SendPayload, SendFails, Goto, Fail, Return, NewCall, NoCall,
         Phases
    <2>3. QED
      BY <2>1, <2>2, SessionQuiet
  <1>7. CASE WaitExpired
    <2>1. /\ UNCHANGED <<net, toClient, accepted, isconnected>>
          /\ readbuf' = NoPacket /\ pc' # "open"
      BY <1>7 DEF WaitExpired, Goto, Fail, Return
    <2>2. call' = call \/ (call.op # "connect" /\ call'.op # "connect")
      <3>1. Fail
        BY <1>7 DEF WaitExpired
      <3>2. QED
        BY <3>1 DEF Goto, Fail, Return, NewCall, NoCall
    <2>3. QED
      BY <1>7, <2>1, <2>2, SessionQuiet DEF WaitExpired
  <1>8. CASE ReadPacket
    <2>1. /\ toClient # <<>> /\ toClient' = Tail(toClient) /\ readbuf' = Head(toClient)
          /\ UNCHANGED <<isconnected, net, accepted, call>> /\ pc' = "dispatch" /\ pc = "wait"
          /\ toClient \in Seq(Packet)
      BY <1>8 DEF ReadPacket, TypeOK, WireType
    <2>2. /\ At(toClient', Accepting) # {} => At(toClient, Accepting) # {}
          /\ readbuf' \in Accepting => At(toClient, Accepting) # {}
      BY <2>1, TailAt
    <2>3. QED
      BY <2>1, <2>2 DEF SessionInv, ConnectedIsAccepted, NoOrphanConnection
  <1>9. CASE ReadTimesOut
    BY <1>9, SessionQuiet DEF ReadTimesOut
  <1>10. CASE ReadError
    BY <1>10, NoPacketAcceptsNothing
    DEF ReadError, SessionInv, ConnectedIsAccepted, NoOrphanConnection
  <1>11. CASE ReadEof
    <2>1. /\ UNCHANGED <<net, toClient, accepted>> /\ isconnected' = FALSE /\ net # "open"
          /\ readbuf' = NoPacket /\ pc' # "open" /\ pc = "wait"
      BY <1>11 DEF ReadEof, NextCycle, Goto, Return
    <2>2. call' = call \/ (call.op # "connect" /\ call'.op # "connect")
      BY <1>11 DEF ReadEof, NextCycle, Goto, Return, NewCall, NoCall
    <2>3. QED
      BY <2>1, <2>2, SessionQuiet
  <1>12. CASE Dispatch
    BY <1>12, SessionQuiet DEF Dispatch
  <1>13. CASE SendAck
    BY <1>13, SessionQuiet DEF SendAck, Written, NotWritten, NextCycle, Goto, Return,
       NewCall, NoCall, Phases
  <1>14. CASE KeepAlive
    BY <1>14, SessionQuiet DEF KeepAlive, NextCycle, Goto, Return, NewCall, NoCall, Phases
  <1>15. CASE FinishConnect
    <2>1. pc = "finish" /\ call.op = "connect" /\ readbuf.type = "CONNACK" /\ readbuf \in Packet
      BY <1>15 DEF FinishConnect, Phases, Awaited, TypeOK, CallType
    <2>2. net \notin {"unset", "closed"} /\ net \in {"unset", "closed", "open", "eof", "reset", "dead"}
      BY <2>1 DEF SessionInv, NoPacket, Pkt, TypeOK, WireType
    <2>3. CASE readbuf.code = 0
      <3>1. readbuf \in Accepting
        BY <2>1, <2>3 DEF Accepting
      <3>2. isconnected' = TRUE /\ Return /\ UNCHANGED <<net, toClient, accepted>>
        BY <1>15, <2>3 DEF FinishConnect, ConnackAccepts
      <3>3. QED
        BY <2>2, <3>1, <3>2, NoPacketAcceptsNothing
        DEF SessionInv, ConnectedIsAccepted, NoOrphanConnection, Return, NoCall, NewCall
    <2>4. CASE readbuf.code # 0
      <3>1. /\ isconnected' = FALSE /\ Goto("retry") /\ readbuf' = NoPacket
            /\ UNCHANGED <<net, toClient, accepted>>
        BY <1>15, <2>1, <2>4 DEF FinishConnect, ConnackAccepts, Fail
      <3>2. QED
        BY <2>1, <3>1, NoPacketAcceptsNothing
        DEF SessionInv, ConnectedIsAccepted, NoOrphanConnection, Goto
    <2>5. QED
      BY <2>3, <2>4
  <1>16. CASE FinishSubscribe \/ FinishUnsubscribe \/ FinishPublish
    <2>1. /\ UNCHANGED <<net, toClient, accepted, isconnected>>
          /\ readbuf' = NoPacket /\ pc' # "open"
      BY <1>16 DEF FinishSubscribe, FinishUnsubscribe, FinishPublish, Return
    <2>2. call.op # "connect" /\ call'.op # "connect"
      BY <1>16 DEF FinishSubscribe, FinishUnsubscribe, FinishPublish, Return, NewCall, NoCall
    <2>3. QED
      BY <2>1, <2>2, SessionQuiet
  <1>17. CASE TimerExpires \/ PingTimerExpires \/ UNCHANGED vars
    BY <1>17 DEF TimerExpires, PingTimerExpires, vars, SessionInv, ConnectedIsAccepted,
       NoOrphanConnection
  <1>18. CASE BrokerCloses \/ ConnectionReset
    BY <1>18 DEF BrokerCloses, ConnectionReset, SessionInv, ConnectedIsAccepted,
       NoOrphanConnection
  <1>19. CASE BrokerPublishes
    <2>1. PICK f \in subs, q \in 0..QoS :
             toClient' = Append(toClient, Pkt("PUBLISH", pushed + 1, f, q))
      BY <1>19 DEF BrokerPublishes
    <2> DEFINE m == Pkt("PUBLISH", pushed + 1, f, q)
    <2>2. m \in Packet /\ m \notin Accepting /\ toClient \in Seq(Packet)
      BY DEF TypeOK, WireType, HistoryType, Pkt, Packet, BrokerTypes, Accepting
    <2> HIDE DEF m
    <2>3. At(Append(toClient, m), Accepting) = At(toClient, Accepting)
      BY <2>2, AppendAt
    <2>4. At(toClient', Accepting) = At(toClient, Accepting)
      BY <2>1, <2>3 DEF m
    <2>5. UNCHANGED <<isconnected, net, accepted, call, readbuf, pc>> /\ net = "open"
      BY <1>19 DEF BrokerPublishes
    <2>6. QED
      BY <2>4, <2>5 DEF SessionInv, ConnectedIsAccepted, NoOrphanConnection
  <1>20. CASE BrokerHandles
    <2> DEFINE p == Head(toBroker)
    <2>1. /\ p \in Packet /\ toClient \in Seq(Packet) /\ net = "open"
          /\ UNCHANGED <<isconnected, net, call, readbuf, pc>>
      BY <1>20 DEF BrokerHandles, TypeOK, WireType
    <2>2. PICK c \in ReplyCodes(p), early \in BOOLEAN, q \in 0..QoS :
             /\ LET queue == IF early
                             THEN Append(toClient, Pkt("PUBLISH", pushed + 1, p.filter, q))
                             ELSE toClient
                IN toClient' = IF ReplyType(p) = "none" THEN queue
                               ELSE Append(queue, Pkt(ReplyType(p), p.id, NoFilter, c))
             /\ SessionAfter(p, c)
      BY <1>20 DEF BrokerHandles
    <2> DEFINE m == Pkt("PUBLISH", pushed + 1, p.filter, q)
               a == Pkt(ReplyType(p), p.id, NoFilter, c)
               queue == IF early THEN Append(toClient, m) ELSE toClient
    <2>3. toClient' = IF ReplyType(p) = "none" THEN queue ELSE Append(queue, a)
      BY <2>2
    <2>4. accepted' = (accepted \/ (p.type = "CONNECT" /\ c = 0))
      BY <2>2 DEF SessionAfter
    <2>5. m \in Packet /\ m \notin Accepting
      <3>1. p.filter \in TopicFilter
        BY <2>1 DEF Packet
      <3>2. QED
        BY <3>1 DEF TypeOK, WireType, HistoryType, Pkt, Packet, BrokerTypes, Accepting
    <2>6. ReplyType(p) # "none" => a \in Packet
      BY <2>1, BrokerType
    <2>7. a \in Accepting => accepted'
      BY <2>1, <2>4, OnlyConnackAccepts
    <2> HIDE DEF p, m, a
    <2>8. queue \in Seq(Packet) /\ At(queue, Accepting) = At(toClient, Accepting)
      BY <2>1, <2>5, AppendAt
    <2> HIDE DEF queue
    <2>9. At(toClient', Accepting) # {} => At(toClient, Accepting) # {} \/ accepted'
      <3>1. CASE ReplyType(p) = "none"
        BY <2>3, <2>8, <3>1
      <3>2. CASE ReplyType(p) # "none"
        <4>1. toClient' = Append(queue, a) /\ a \in Packet
          BY <2>3, <2>6, <3>2
        <4>2. At(Append(queue, a), Accepting)
                = IF a \in Accepting THEN At(queue, Accepting) \cup {Len(queue) + 1}
                  ELSE At(queue, Accepting)
          BY <2>8, <4>1, AppendAt
        <4>3. QED
          BY <2>7, <2>8, <4>1, <4>2
      <3>3. QED
        BY <3>1, <3>2
    <2>10. accepted => accepted'
      BY <2>4
    <2>11. QED
      BY <2>1, <2>9, <2>10 DEF SessionInv, ConnectedIsAccepted, NoOrphanConnection
  <1>21. QED
    BY <1>1, <1>2, <1>3, <1>4, <1>5, <1>6, <1>7, <1>8, <1>9, <1>10, <1>11, <1>12, <1>13,
       <1>14, <1>15, <1>16, <1>17, <1>18, <1>19, <1>20
    DEF Next, Api, Run, Read, Finish, Environment

\* The invariant of the session holds in every reachable state.
LEMMA SessionInductive == Spec => [](TypeOK /\ Phases /\ SessionInv)
  <1>1. Init => SessionInv
    BY EmptyAt, NoPacketAcceptsNothing
    DEF Init, NoCall, NewCall, SessionInv, ConnectedIsAccepted, NoOrphanConnection
  <1>2. TypeOK /\ Phases /\ SessionInv /\ [Next]_vars => Phases' /\ SessionInv'
    BY PhasesStep, SessionStep
  <1>3. Init => Phases
    BY AckInitially DEF AckInv
  <1>4. QED
    BY <1>1, <1>2, <1>3, TypeCorrect, PTL DEF Spec

\* isconnected is set only over a live connection whose CONNECT the broker accepted.
THEOREM ConnectedOnlyIfAccepted == Spec => []ConnectedIsAccepted
  <1>1. SessionInv => ConnectedIsAccepted
    BY DEF SessionInv
  <1>2. QED
    BY <1>1, SessionInductive, PTL

\* No failure path of mqtt_StartSession leaves its socket open.
THEOREM NoConnectionLeaks == Spec => []NoOrphanConnection
  <1>1. SessionInv => NoOrphanConnection
    BY DEF SessionInv
  <1>2. QED
    BY <1>1, SessionInductive, PTL

-------------------------------------------------------------------------------
(* Where the messages are: delivered, in the client's hands, in its socket *)
(* or gone with a connection, and in which order.                          *)

InOrder(s) ==
    \A i, j \in DOMAIN s :
        i < j /\ s[i].type = "PUBLISH" /\ s[j].type = "PUBLISH" => s[i].id < s[j].id
Below(A, B) == \A a \in A, b \in B : a < b

Ledger ==
    /\ EveryMessageAccounted
    /\ DeliveredInOrder /\ InOrder(toClient)
    /\ Below(DeliveredIds, Pending)
    /\ Below(DeliveredIds, Messages(toClient))
    /\ Below(Pending, Messages(toClient))

Carried(p) == IF p.type = "PUBLISH" THEN {p.id} ELSE {}

LEMMA MessageAt ==
    \A s : \A i \in DOMAIN s : s[i].type = "PUBLISH" => s[i].id \in Messages(s)
  BY DEF Messages

\* Sending a packet adds the message it carries, behind the others.
LEMMA AppendMessage ==
    ASSUME NEW s \in Seq(Packet), NEW p \in Packet
    PROVE  /\ Messages(Append(s, p)) = Messages(s) \cup Carried(p)
           /\ InOrder(s) /\ Below(Messages(s), Carried(p)) => InOrder(Append(s, p))
  <1>1. /\ DOMAIN Append(s, p) = DOMAIN s \cup {Len(s) + 1}
        /\ \A i \in DOMAIN s : Append(s, p)[i] = s[i]
        /\ Append(s, p)[Len(s) + 1] = p
    OBVIOUS
  <1>2. Messages(Append(s, p)) = Messages(s) \cup Carried(p)
    <2>1. Messages(Append(s, p)) \subseteq Messages(s) \cup Carried(p)
      BY <1>1 DEF Messages, Carried
    <2>2. Messages(s) \cup Carried(p) \subseteq Messages(Append(s, p))
      BY <1>1 DEF Messages, Carried
    <2>3. QED
      BY <2>1, <2>2
  <1>3. ASSUME InOrder(s), Below(Messages(s), Carried(p)),
               NEW i \in DOMAIN Append(s, p), NEW j \in DOMAIN Append(s, p), i < j,
               Append(s, p)[i].type = "PUBLISH", Append(s, p)[j].type = "PUBLISH"
        PROVE  Append(s, p)[i].id < Append(s, p)[j].id
    <2>1. i \in DOMAIN s
      BY <1>3
    <2>2. CASE j \in DOMAIN s
      BY <1>1, <1>3, <2>1, <2>2 DEF InOrder
    <2>3. CASE j = Len(s) + 1
      BY <1>1, <1>3, <2>1, <2>3 DEF Below, Messages, Carried
    <2>4. QED
      BY <1>1, <2>2, <2>3
  <1>4. QED
    BY <1>2, <1>3 DEF InOrder

\* Reading a packet takes the first message.
LEMMA ReadMessage ==
    ASSUME NEW s \in Seq(Packet), s # <<>>
    PROVE  /\ Messages(s) = Carried(Head(s)) \cup Messages(Tail(s))
           /\ InOrder(s) => InOrder(Tail(s)) /\ Below(Carried(Head(s)), Messages(Tail(s)))
  <1>1. /\ \A i \in DOMAIN Tail(s) : i + 1 \in DOMAIN s /\ Tail(s)[i] = s[i + 1] /\ i \in Nat \ {0}
        /\ 1 \in DOMAIN s /\ Head(s) = s[1]
        /\ \A i \in DOMAIN s \ {1} : i - 1 \in DOMAIN Tail(s) /\ Tail(s)[i - 1] = s[i]
    OBVIOUS
  <1>2. Messages(s) = Carried(Head(s)) \cup Messages(Tail(s))
    <2>1. ASSUME NEW i \in DOMAIN s, s[i].type = "PUBLISH"
          PROVE  s[i].id \in Carried(Head(s)) \cup Messages(Tail(s))
      <3>1. CASE i = 1
        BY <1>1, <2>1, <3>1 DEF Carried
      <3>2. CASE i # 1
        <4>1. i - 1 \in DOMAIN Tail(s) /\ Tail(s)[i - 1] = s[i]
          BY <1>1, <3>2
        <4>2. Tail(s)[i - 1].id \in Messages(Tail(s))
          BY <2>1, <4>1, MessageAt
        <4>3. QED
          BY <4>1, <4>2
      <3>3. QED
        BY <3>1, <3>2
    <2>2. Carried(Head(s)) \cup Messages(Tail(s)) \subseteq Messages(s)
      BY <1>1 DEF Messages, Carried
    <2>3. QED
      BY <2>1, <2>2 DEF Messages
  <1>3. InOrder(s) => InOrder(Tail(s))
    <2> SUFFICES ASSUME InOrder(s), NEW i \in DOMAIN Tail(s), NEW j \in DOMAIN Tail(s), i < j,
                        Tail(s)[i].type = "PUBLISH", Tail(s)[j].type = "PUBLISH"
                 PROVE  Tail(s)[i].id < Tail(s)[j].id
      BY DEF InOrder
    <2>1. i + 1 \in DOMAIN s /\ j + 1 \in DOMAIN s /\ i + 1 < j + 1
      BY <1>1
    <2>2. QED
      BY <1>1, <2>1 DEF InOrder
  <1>4. InOrder(s) => Below(Carried(Head(s)), Messages(Tail(s)))
    <2> SUFFICES ASSUME InOrder(s), Head(s).type = "PUBLISH",
                        NEW j \in DOMAIN Tail(s), Tail(s)[j].type = "PUBLISH"
                 PROVE  Head(s).id < Tail(s)[j].id
      BY DEF Below, Carried, Messages
    <2>1. 1 \in DOMAIN s /\ j + 1 \in DOMAIN s /\ 1 < j + 1
      BY <1>1
    <2>2. QED
      BY <1>1, <2>1 DEF InOrder
  <1>5. QED
    BY <1>2, <1>3, <1>4

\* Cutting a channel splits its messages.
LEMMA CutMessages ==
    ASSUME NEW s \in Seq(Packet), NEW k \in 0..Len(s)
    PROVE  /\ Messages(s) = Messages(SubSeq(s, 1, k)) \cup Messages(SubSeq(s, k + 1, Len(s)))
           /\ InOrder(s) => InOrder(SubSeq(s, 1, k))
  <1> DEFINE a == SubSeq(s, 1, k)
             b == SubSeq(s, k + 1, Len(s))
  <1>1. DOMAIN a = 1..k /\ 1..k \subseteq DOMAIN s /\ \A i \in 1..k : a[i] = s[i]
    BY SubSeqProperties
  <1>2. DOMAIN b = 1..(Len(s) - k) /\ \A i \in 1..(Len(s) - k) : k + i \in DOMAIN s /\ b[i] = s[k + i]
    BY SubSeqProperties
  <1>3. \A i \in DOMAIN s : i \in 1..k \/ (i - k \in 1..(Len(s) - k) /\ k + (i - k) = i)
    OBVIOUS
  <1> HIDE DEF a, b
  <1>4. Messages(s) \subseteq Messages(a) \cup Messages(b)
    <2>1. ASSUME NEW i \in DOMAIN s, s[i].type = "PUBLISH"
          PROVE  s[i].id \in Messages(a) \cup Messages(b)
      <3>1. CASE i \in 1..k
        BY <1>1, <2>1, <3>1 DEF Messages
      <3>2. CASE i - k \in 1..(Len(s) - k) /\ k + (i - k) = i
        <4>1. i - k \in DOMAIN b /\ b[i - k] = s[i]
          BY <1>2, <3>2
        <4>2. b[i - k].id \in Messages(b)
          BY <2>1, <4>1, MessageAt
        <4>3. QED
          BY <4>1, <4>2
      <3>3. QED
        BY <1>3, <3>1, <3>2
    <2>2. QED
      BY <2>1 DEF Messages
  <1>5. Messages(a) \cup Messages(b) \subseteq Messages(s)
    BY <1>1, <1>2 DEF Messages
  <1>6. InOrder(s) => InOrder(a)
    BY <1>1 DEF InOrder
  <1>7. QED
    BY <1>4, <1>5, <1>6 DEF a, b

LEMMA NoMessages == Messages(<<>>) = {} /\ InOrder(<<>>)
  BY DEF Messages, InOrder

\* Steps that hand no message on.
LEMMA LedgerQuiet ==
    ASSUME Ledger, UNCHANGED <<toClient, delivered, lost, pushed>>,
           UNCHANGED <<pc, readbuf>> \/ (pc # "dispatch" /\ pc' # "dispatch")
    PROVE  Ledger'
  <1>1. Pending' = Pending
    BY DEF Pending
  <1>2. DeliveredIds' = DeliveredIds
    BY DEF DeliveredIds
  <1>3. QED
    BY <1>1, <1>2 DEF Ledger, EveryMessageAccounted, DeliveredInOrder

\* A connection that goes takes its messages with it.
LEMMA LedgerHangup ==
    ASSUME Ledger, toClient' = <<>>, lost' = lost \cup Messages(toClient),
           UNCHANGED <<delivered, pushed>>, pc # "dispatch", pc' # "dispatch"
    PROVE  Ledger'
  <1>1. Pending = {} /\ Pending' = {}
    BY DEF Pending
  <1>2. DeliveredIds' = DeliveredIds
    BY DEF DeliveredIds
  <1>3. Messages(toClient') = {} /\ InOrder(toClient')
    BY NoMessages
  <1>4. QED
    BY <1>1, <1>2, <1>3 DEF Ledger, EveryMessageAccounted, DeliveredInOrder, Below

\* The broker numbers its messages: a new one is behind all others.
LEMMA LedgerPublish ==
    ASSUME TypeOK, Ledger, NEW p \in Packet, p.type = "PUBLISH", p.id = pushed + 1,
           toClient' = Append(toClient, p), pushed' = pushed + 1,
           UNCHANGED <<delivered, lost, readbuf, pc>>
    PROVE  Ledger'
  <1>1. pushed \in Nat /\ toClient \in Seq(Packet)
    BY DEF TypeOK, WireType, HistoryType
  <1>2. Pending' = Pending /\ DeliveredIds' = DeliveredIds
    BY DEF Pending, DeliveredIds
  <1>3. Carried(p) = {pushed + 1} /\ 1..(pushed + 1) = (1..pushed) \cup {pushed + 1}
    BY <1>1 DEF Carried
  <1>4. DeliveredIds \subseteq 1..pushed /\ Pending \subseteq 1..pushed /\ Messages(toClient) \subseteq 1..pushed
    BY DEF Ledger, EveryMessageAccounted
  <1>5. /\ Below(DeliveredIds, Carried(p)) /\ Below(Pending, Carried(p))
        /\ Below(Messages(toClient), Carried(p))
    <2>1. \A n \in 1..pushed : n < pushed + 1
      BY <1>1
    <2>2. QED
      BY <1>3, <1>4, <2>1 DEF Below
  <1>6. Messages(toClient') = Messages(toClient) \cup Carried(p) /\ InOrder(toClient')
    BY <1>1, <1>5, AppendMessage DEF Ledger
  <1>7. EveryMessageAccounted'
    <2>1. /\ EveryMessageAccounted' <=> DeliveredIds \cup Pending \cup Messages(toClient') \cup lost = 1..(pushed + 1)
          /\ DeliveredIds \cup Pending \cup Messages(toClient) \cup lost = 1..pushed
      BY <1>2 DEF Ledger, EveryMessageAccounted
    <2>2. QED
      BY <1>3, <1>6, <2>1
  <1>8. QED
    BY <1>2, <1>5, <1>6, <1>7 DEF Ledger, DeliveredInOrder, Below

\* An answer of the broker carries no message.
LEMMA LedgerReply ==
    ASSUME TypeOK, NEW s \in Seq(Packet), NEW p \in Packet, p.type # "PUBLISH"
    PROVE  Messages(Append(s, p)) = Messages(s) /\ (InOrder(s) => InOrder(Append(s, p)))
  <1>1. Carried(p) = {} /\ Below(Messages(s), Carried(p))
    BY DEF Carried, Below
  <1>2. Messages(Append(s, p)) = Messages(s) \cup Carried(p)
    BY AppendMessage
  <1>3. InOrder(s) => InOrder(Append(s, p))
    BY <1>1, AppendMessage
  <1>4. QED
    BY <1>1, <1>2, <1>3

\* The message cycle has read is the next one to be delivered.
LEMMA LedgerRead ==
    ASSUME TypeOK, Ledger, ReadPacket
    PROVE  Ledger'
  <1>1. /\ toClient # <<>> /\ toClient' = Tail(toClient) /\ readbuf' = Head(toClient)
        /\ UNCHANGED <<delivered, lost, pushed>> /\ pc = "wait" /\ pc' = "dispatch"
        /\ toClient \in Seq(Packet)
    BY DEF ReadPacket, TypeOK, WireType
  <1>2. Pending = {} /\ Pending' = Carried(Head(toClient)) /\ DeliveredIds' = DeliveredIds
    BY <1>1 DEF Pending, DeliveredIds, Carried
  <1>3. /\ Messages(toClient) = Carried(Head(toClient)) \cup Messages(toClient')
        /\ InOrder(toClient') /\ Below(Carried(Head(toClient)), Messages(toClient'))
    BY <1>1, ReadMessage DEF Ledger
  <1>4. QED
    BY <1>1, <1>2, <1>3 DEF Ledger, EveryMessageAccounted, DeliveredInOrder, Below

\* deliverMessage hands it over.
LEMMA LedgerDispatch ==
    ASSUME TypeOK, Ledger, Dispatch
    PROVE  Ledger' /\ DeliveredIds' = DeliveredIds \cup Pending
  <1>1. /\ pc = "dispatch" /\ pc' # "dispatch" /\ UNCHANGED <<toClient, lost, pushed, readbuf>>
        /\ delivered \in Seq(Delivery) /\ readbuf \in Packet
    BY DEF Dispatch, TypeOK, HistoryType, CallType
  <1>2. Pending' = {}
    BY <1>1 DEF Pending
  <1>3. CASE readbuf.type # "PUBLISH"
    <2>1. delivered' = delivered /\ Pending = {}
      BY <1>3 DEF Dispatch, Delivers, Pending
    <2>2. DeliveredIds' = DeliveredIds
      BY <2>1 DEF DeliveredIds
    <2>3. QED
      BY <1>1, <1>2, <2>1, <2>2 DEF Ledger, EveryMessageAccounted, DeliveredInOrder, Below
  <1>4. CASE readbuf.type = "PUBLISH"
    <2> DEFINE d == [id |-> readbuf.id, slots |-> {i \in Slots : messageHandlers[i] = readbuf.filter}]
    <2>1. delivered' = Append(delivered, d) /\ Pending = {readbuf.id} /\ d.id = readbuf.id /\ d \in Delivery
      BY <1>1, <1>4 DEF Dispatch, Delivers, deliverMessage, Pending, Delivery, Packet
    <2> HIDE DEF d
    <2>2. /\ DOMAIN delivered' = DOMAIN delivered \cup {Len(delivered) + 1}
          /\ \A i \in DOMAIN delivered : delivered'[i] = delivered[i] /\ i < Len(delivered) + 1
          /\ delivered'[Len(delivered) + 1] = d
          /\ DOMAIN delivered \subseteq Nat /\ Len(delivered) + 1 \notin DOMAIN delivered
      BY <1>1, <2>1
    <2>3. DeliveredIds' = DeliveredIds \cup Pending
      <3>1. DeliveredIds' \subseteq DeliveredIds \cup Pending
        BY <2>1, <2>2 DEF DeliveredIds
      <3>2. DeliveredIds \cup Pending \subseteq DeliveredIds'
        BY <2>1, <2>2 DEF DeliveredIds
      <3>3. QED
        BY <3>1, <3>2
    <2>4. DeliveredInOrder'
      <3> SUFFICES ASSUME NEW i \in DOMAIN delivered', NEW j \in DOMAIN delivered', i < j
                   PROVE  delivered'[i].id < delivered'[j].id
        BY DEF DeliveredInOrder
      <3>1. i \in DOMAIN delivered
        BY <1>1, <2>1
      <3>2. CASE j \in DOMAIN delivered
        BY <2>2, <3>1, <3>2 DEF Ledger, DeliveredInOrder
      <3>3. CASE j = Len(delivered) + 1
        BY <2>1, <2>2, <3>1, <3>3 DEF Ledger, Below, DeliveredIds
      <3>4. QED
        BY <2>2, <3>2, <3>3
    <2>5. QED
      BY <1>1, <1>2, <2>3, <2>4 DEF Ledger, EveryMessageAccounted, Below
  <1>5. QED
    BY <1>3, <1>4

\* Each step keeps the ledger.
LEMMA LedgerStep ==
    ASSUME TypeOK, Phases, Ledger, [Next]_vars
    PROVE  Ledger'
  <1>1. CASE MQTTSubscribe \/ MQTTUnsubscribe \/ MQTTPublish
    BY <1>1, LedgerQuiet DEF MQTTSubscribe, MQTTUnsubscribe, MQTTPublish, Begin, Idle
  <1>2. CASE MQTTYield \/ StartSession
    BY <1>2, LedgerQuiet DEF MQTTYield, StartSession, Idle
  <1>3. CASE StopSession
    BY <1>3, LedgerHangup DEF StopSession, Hangup, Idle
  <1>4. CASE OpenConnection
    BY <1>4, LedgerHangup DEF OpenConnection, Hangup
  <1>5. CASE RetrySession
    BY <1>5, LedgerHangup DEF RetrySession, Hangup, Return
  <1>6. CASE SendRequest \/ SendPayload \/ SendFails
    BY <1>6, LedgerQuiet DEF SendRequest, SendPayload, SendFails, Goto, Fail, Return
  <1>7. CASE WaitExpired
    BY <1>7, LedgerQuiet DEF WaitExpired, Goto, Fail, Return
  <1>8. CASE ReadPacket
    BY <1>8, LedgerRead
  <1>9. CASE ReadTimesOut \/ ReadError \/ ReadEof
    BY <1>9, LedgerQuiet DEF ReadTimesOut, ReadError, ReadEof, NextCycle, Goto, Return
  <1>10. CASE Dispatch
    BY <1>10, LedgerDispatch
  <1>11. CASE SendAck \/ KeepAlive
    BY <1>11, LedgerQuiet DEF SendAck, KeepAlive, NextCycle, Goto, Return
  <1>12. CASE Finish
    BY <1>12, LedgerQuiet DEF Finish, FinishConnect, FinishSubscribe, FinishUnsubscribe,
       FinishPublish, Fail, Goto, Return
  <1>13. CASE TimerExpires \/ PingTimerExpires \/ BrokerCloses \/ UNCHANGED vars
    BY <1>13, LedgerQuiet DEF TimerExpires, PingTimerExpires, BrokerCloses, vars
  <1>14. CASE ConnectionReset
    <2>1. PICK k \in 0..Len(toClient) :
             /\ toClient' = SubSeq(toClient, 1, k)
             /\ lost' = lost \cup Messages(SubSeq(toClient, k + 1, Len(toClient)))
      BY <1>14 DEF ConnectionReset
    <2>2. UNCHANGED <<delivered, pushed, pc, readbuf>> /\ toClient \in Seq(Packet)
      BY <1>14 DEF ConnectionReset, TypeOK, WireType
    <2>3. Pending' = Pending /\ DeliveredIds' = DeliveredIds
      BY <2>2 DEF Pending, DeliveredIds
    <2>4. /\ Messages(toClient) = Messages(toClient') \cup Messages(SubSeq(toClient, k + 1, Len(toClient)))
          /\ InOrder(toClient')
      BY <2>1, <2>2, CutMessages DEF Ledger
    <2>5. EveryMessageAccounted'
      BY <2>1, <2>2, <2>3, <2>4 DEF Ledger, EveryMessageAccounted
    <2>6. QED
      BY <2>2, <2>3, <2>4, <2>5 DEF Ledger, DeliveredInOrder, Below
  <1>15. CASE BrokerPublishes
    <2>1. PICK f \in subs, q \in 0..QoS :
             toClient' = Append(toClient, Pkt("PUBLISH", pushed + 1, f, q))
      BY <1>15 DEF BrokerPublishes
    <2> DEFINE m == Pkt("PUBLISH", pushed + 1, f, q)
    <2>2. m \in Packet /\ m.type = "PUBLISH" /\ m.id = pushed + 1
      BY DEF TypeOK, WireType, HistoryType, Pkt, Packet, BrokerTypes
    <2>3. UNCHANGED <<delivered, lost, readbuf, pc>> /\ pushed' = pushed + 1
      BY <1>15 DEF BrokerPublishes
    <2> HIDE DEF m
    <2>4. QED
      BY <2>1, <2>2, <2>3, LedgerPublish DEF m
  <1>16. CASE BrokerHandles
    <2> DEFINE p == Head(toBroker)
    <2>1. p \in Packet /\ toClient \in Seq(Packet) /\ UNCHANGED <<readbuf, pc, delivered, lost>>
      BY <1>16 DEF BrokerHandles, TypeOK, WireType
    <2>2. PICK c \in ReplyCodes(p), early \in BOOLEAN, q \in 0..QoS :
             /\ LET queue == IF early
                             THEN Append(toClient, Pkt("PUBLISH", pushed + 1, p.filter, q))
                             ELSE toClient
                IN toClient' = IF ReplyType(p) = "none" THEN queue
                               ELSE Append(queue, Pkt(ReplyType(p), p.id, NoFilter, c))
             /\ pushed' = IF early THEN pushed + 1 ELSE pushed
      BY <1>16 DEF BrokerHandles
    <2> DEFINE m == Pkt("PUBLISH", pushed + 1, p.filter, q)
               a == Pkt(ReplyType(p), p.id, NoFilter, c)
               queue == IF early THEN Append(toClient, m) ELSE toClient
    <2>3. /\ toClient' = IF ReplyType(p) = "none" THEN queue ELSE Append(queue, a)
          /\ pushed' = IF early THEN pushed + 1 ELSE pushed
      BY <2>2
    <2>4. m \in Packet /\ m.type = "PUBLISH" /\ m.id = pushed + 1
      <3>1. p.filter \in TopicFilter
        BY <2>1 DEF Packet
      <3>2. QED
        BY <3>1 DEF TypeOK, WireType, HistoryType, Pkt, Packet, BrokerTypes
    <2>5. ReplyType(p) # "none" => a \in Packet /\ a.type # "PUBLISH"
      BY <2>1, BrokerType DEF Pkt, ReplyType
    <2> HIDE DEF p, m, a
    <2>6. queue \in Seq(Packet)
      BY <2>1, <2>4
    <2>7. Messages(toClient') = Messages(queue) /\ (InOrder(queue) => InOrder(toClient'))
      BY <2>3, <2>5, <2>6, LedgerReply
    <2>8. pushed \in Nat
      BY DEF TypeOK, HistoryType
    <2>9. /\ Messages(queue) = Messages(toClient) \cup (IF early THEN {pushed + 1} ELSE {})
          /\ InOrder(queue)
      <3>1. CASE early
        <4>1. queue = Append(toClient, m) /\ Carried(m) = {pushed + 1}
          BY <2>4, <3>1 DEF Carried
        <4>2. Below(Messages(toClient), Carried(m))
          BY <2>8, <4>1 DEF Below, Ledger, EveryMessageAccounted
        <4>3. QED
          BY <2>1, <2>4, <3>1, <4>1, <4>2, AppendMessage DEF Ledger
      <3>2. CASE ~early
        BY <3>2 DEF Ledger
      <3>3. QED
        BY <3>1, <3>2
    <2> HIDE DEF queue
    <2>10. Pending' = Pending /\ DeliveredIds' = DeliveredIds
      BY <2>1 DEF Pending, DeliveredIds
    <2>11. EveryMessageAccounted'
      <3>1. 1..(pushed + 1) = (1..pushed) \cup {pushed + 1}
        BY <2>8
      <3>2. QED
        BY <2>1, <2>3, <2>7, <2>9, <2>10, <3>1 DEF Ledger, EveryMessageAccounted
    <2>12. Below(DeliveredIds, Messages(toClient')) /\ Below(Pending, Messages(toClient'))
      BY <2>7, <2>8, <2>9 DEF Below, Ledger, EveryMessageAccounted
    <2>13. QED
      BY <2>1, <2>7, <2>9, <2>10, <2>11, <2>12 DEF Ledger, DeliveredInOrder
  <1>17. QED
    BY <1>1, <1>2, <1>3, <1>4, <1>5, <1>6, <1>7, <1>8, <1>9, <1>10, <1>11, <1>12, <1>13,
       <1>14, <1>15, <1>16
    DEF Next, Api, Run, Read, Environment

-------------------------------------------------------------------------------
(* What the acknowledgements on their way say.                             *)

\* Acknowledgements of a message that is not in D.
Early(D) == {p \in Packet : p.type \in {"PUBACK", "PUBREC"} /\ p.id \notin D}

AckOrder ==
    /\ At(toBroker, Early(DeliveredIds)) = {}
    /\ pc = "ack" => \/ readbuf.type = "PUBREC"
                     \/ readbuf.type = "PUBLISH" /\ readbuf.id \in DeliveredIds

\* Steps that deliver nothing and write at most a packet that acknowledges nothing.
LEMMA AckOrderQuiet ==
    ASSUME TypeOK, AckOrder, delivered' = delivered, NEW p \in Packet,
           p \notin Early(DeliveredIds),
           \/ toBroker' \in {toBroker, <<>>} \/ toBroker' = Append(toBroker, p)
           \/ toBroker # <<>> /\ toBroker' = Tail(toBroker),
           pc' # "ack" \/ UNCHANGED <<pc, readbuf>>
    PROVE  AckOrder'
  <1>1. DeliveredIds' = DeliveredIds /\ toBroker \in Seq(Packet)
    BY DEF DeliveredIds, TypeOK, WireType
  <1>2. At(toBroker', Early(DeliveredIds)) = {}
    <2> DEFINE P == Early(DeliveredIds)
    <2>1. At(toBroker, P) = {} /\ p \notin P
      BY DEF AckOrder
    <2> HIDE DEF P
    <2>2. At(<<>>, P) = {} /\ At(Append(toBroker, p), P) = {}
      BY <1>1, <2>1, AppendAt, EmptyAt
    <2>3. toBroker # <<>> => At(Tail(toBroker), P) = {}
      BY <1>1, <2>1, TailEmpty
    <2>4. At(toBroker', P) = {}
      BY <2>1, <2>2, <2>3
    <2>5. QED
      BY <2>4 DEF P
  <1>3. QED
    BY <1>1, <1>2 DEF AckOrder

\* Each step keeps it: a packet is acknowledged once its handlers have been called.
LEMMA AckOrderStep ==
    ASSUME TypeOK, Ledger, AckOrder, [Next]_vars
    PROVE  AckOrder'
  <1> DEFINE ping == Pkt("PINGREQ", 0, NoFilter, 0)
  <1>1. ping \in Packet /\ ping \notin Early(DeliveredIds)
    BY PacketConstants DEF Pkt, Early
  <1>2. Request \in Packet /\ Request \notin Early(DeliveredIds)
    BY PacketType DEF Request, Pkt, Early
  <1> HIDE DEF ping
  <1>3. CASE MQTTSubscribe \/ MQTTUnsubscribe \/ MQTTPublish
    BY <1>1, <1>3, AckOrderQuiet DEF MQTTSubscribe, MQTTUnsubscribe, MQTTPublish, Begin
  <1>4. CASE MQTTYield \/ StartSession
    BY <1>1, <1>4, AckOrderQuiet DEF MQTTYield, StartSession
  <1>5. CASE StopSession \/ OpenConnection \/ RetrySession
    BY <1>1, <1>5, AckOrderQuiet DEF StopSession, OpenConnection, RetrySession, Hangup, Return, Idle
  <1>6. CASE SendRequest \/ SendPayload
    BY <1>2, <1>6, AckOrderQuiet DEF SendRequest, SendPayload, Written, Goto, Return
  <1>7. CASE SendFails \/ WaitExpired
    BY <1>1, <1>7, AckOrderQuiet DEF SendFails, WaitExpired, NotWritten, Goto, Fail, Return
  <1>8. CASE Read
    BY <1>1, <1>8, AckOrderQuiet DEF Read, ReadPacket, ReadTimesOut, ReadError, ReadEof, NextCycle,
       Goto, Return
  <1>9. CASE Dispatch
    <2>1. DeliveredIds' = DeliveredIds \cup Pending
      BY <1>9, LedgerDispatch
    <2>2. UNCHANGED <<toBroker, readbuf>> /\ pc = "dispatch"
          /\ (pc' = "ack" => readbuf.type \in {"PUBREC", "PUBLISH"})
      BY <1>9 DEF Dispatch
    <2>3. Early(DeliveredIds') \subseteq Early(DeliveredIds)
      BY <2>1 DEF Early
    <2>4. readbuf.type = "PUBLISH" => readbuf.id \in DeliveredIds'
      BY <2>1, <2>2 DEF Pending
    <2>5. QED
      BY <2>2, <2>3, <2>4 DEF AckOrder, At
  <1>10. CASE SendAck
    <2>1. Answer \in Packet /\ Answer \notin Early(DeliveredIds)
      <3>1. Answer \in Packet
        BY PacketType
      <3>2. Answer \notin Early(DeliveredIds)
        BY <1>10 DEF SendAck, AckOrder, Answer, Pkt, Early
      <3>3. QED
        BY <3>1, <3>2
    <2>2. delivered' = delivered /\ pc' # "ack"
      BY <1>10 DEF SendAck, NextCycle, Goto, Return
    <2>3. toBroker' = toBroker \/ toBroker' = Append(toBroker, Answer)
      BY <1>10 DEF SendAck, Written, NotWritten
    <2>4. QED
      BY <2>1, <2>2, <2>3, AckOrderQuiet
  <1>11. CASE KeepAlive
    <2>1. delivered' = delivered /\ pc' # "ack"
      BY <1>11 DEF KeepAlive, NextCycle, Goto, Return
    <2>2. toBroker' = toBroker \/ toBroker' = Append(toBroker, ping)
      BY <1>11 DEF KeepAlive, Written, NotWritten, ping
    <2>3. QED
      BY <1>1, <2>1, <2>2, AckOrderQuiet
  <1>12. CASE Finish
    BY <1>1, <1>12, AckOrderQuiet DEF Finish, FinishConnect, FinishSubscribe, FinishUnsubscribe,
       FinishPublish, Fail, Goto, Return
  <1>13. CASE Environment \/ UNCHANGED vars
    BY <1>1, <1>13, AckOrderQuiet DEF Environment, TimerExpires, PingTimerExpires, BrokerCloses,
       ConnectionReset, BrokerHandles, BrokerPublishes, vars
  <1>14. QED
    BY <1>3, <1>4, <1>5, <1>6, <1>7, <1>8, <1>9, <1>10, <1>11, <1>12, <1>13
    DEF Next, Api, Run

\* The ledger and the order of acknowledgements hold in every reachable state.
LEMMA LedgerInductive == Spec => [](TypeOK /\ Ledger /\ AckOrder)
  <1>1. Init => Ledger /\ AckOrder
    <2> SUFFICES ASSUME Init PROVE Ledger /\ AckOrder
      OBVIOUS
    <2>1. /\ toClient = <<>> /\ toBroker = <<>> /\ delivered = <<>> /\ lost = {} /\ pushed = 0
          /\ pc = "idle"
      BY DEF Init
    <2>2. Pending = {} /\ DeliveredIds = {} /\ Messages(toClient) = {} /\ InOrder(toClient)
      BY <2>1, NoMessages DEF Pending, DeliveredIds
    <2>3. 1..pushed = {}
      BY <2>1
    <2>4. Ledger
      BY <2>1, <2>2, <2>3 DEF Ledger, EveryMessageAccounted, DeliveredInOrder, Below
    <2>5. AckOrder
      BY <2>1, EmptyAt DEF AckOrder
    <2>6. QED
      BY <2>4, <2>5
  <1>2. Init => Phases
    BY AckInitially DEF AckInv
  <1>3. TypeOK /\ Phases /\ Ledger /\ AckOrder /\ [Next]_vars => Phases' /\ Ledger' /\ AckOrder'
    BY PhasesStep, LedgerStep, AckOrderStep
  <1>4. QED
    BY <1>1, <1>2, <1>3, TypeCorrect, PTL DEF Spec

\* A message the broker published was delivered, is about to be, or went down with
\* its connection: no command that waits for its answer swallows it.
THEOREM NoMessageVanishes == Spec => []EveryMessageAccounted
  <1>1. Ledger => EveryMessageAccounted
    BY DEF Ledger
  <1>2. QED
    BY <1>1, LedgerInductive, PTL

\* Whatever calls and failures lie between them, messages reach their handlers in
\* the order the broker published them, each once.
THEOREM MessagesKeepTheirOrder == Spec => []DeliveredInOrder
  <1>1. Ledger => DeliveredInOrder
    BY DEF Ledger
  <1>2. QED
    BY <1>1, LedgerInductive, PTL

\* cycle acknowledges a message only after deliverMessage.
THEOREM DeliveryBeforeAck == Spec => []AckAfterDelivery
  <1>1. TypeOK /\ AckOrder => AckAfterDelivery
    BY DEF AckOrder, AckAfterDelivery, At, Early, TypeOK, WireType
  <1>2. QED
    BY <1>1, LedgerInductive, PTL

-------------------------------------------------------------------------------
(* Handlers and grants.                                                    *)

SubscribesTo(S) == {p \in Packet : p.type = "SUBSCRIBE" /\ p.filter \in S}
Others(f) == SubscribesTo(TopicFilter \ {f})
Granting == {p \in Packet : p.type = "SUBACK" /\ p.code # 128}

\* Every handler is granted, and a SUBACK that grants is the answer to the call in
\* progress, for its filter.
GrantInv ==
    ~SignedChar /\ net = "open" /\ unanswered = {} =>
        /\ Installed \subseteq granted
        /\ call.op = "subscribe" =>
              /\ At(toBroker, Others(call.filter)) = {}
              /\ At(toClient, Granting) # {} \/ readbuf \in Granting => call.filter \in granted

\* Steps after which no subscription is under way, or the same with no news of it.
LEMMA GrantQuiet ==
    ASSUME TypeOK, GrantInv, Installed' \subseteq Installed,
           net' = "open" => net = "open" /\ granted' = granted,
           unanswered \subseteq unanswered',
           \/ call'.op # "subscribe"
           \/ /\ UNCHANGED <<call, toClient>>
              /\ readbuf' \in Granting => readbuf' = readbuf
              /\ At(toBroker', Others(call.filter)) \subseteq At(toBroker, Others(call.filter))
    PROVE  GrantInv'
  BY DEF GrantInv

\* A call that begins finds nothing in flight when no answer is outstanding.
LEMMA GrantBegin ==
    ASSUME TypeOK, Registered, GrantInv, call.id = 0, unanswered = {},
           UNCHANGED <<messageHandlers, net, granted, unanswered, toBroker, toClient>>,
           readbuf' = NoPacket
    PROVE  GrantInv'
  <1>1. toBroker \in Seq(Packet) /\ toClient \in Seq(Packet)
    BY DEF TypeOK, WireType
  <1>2. \A f : At(toBroker, Others(f)) = {}
    <2> SUFFICES ASSUME NEW f, NEW i \in At(toBroker, Others(f)) PROVE FALSE
      OBVIOUS
    <2>1. toBroker[i] \in Asking(toBroker[i].id) /\ toBroker[i].id \in Nat /\ i \in DOMAIN toBroker
      BY DEF At, Others, SubscribesTo, Asking, Packet
    <2>2. At(toBroker, Asking(toBroker[i].id)) # {}
      BY <2>1 DEF At
    <2>3. QED
      BY <2>1, <2>2 DEF Registered, Owned
  <1>3. At(toClient, Granting) = {}
    <2> SUFFICES ASSUME NEW i \in At(toClient, Granting) PROVE FALSE
      OBVIOUS
    <2>1. toClient[i] \in Answering(toClient[i].id) /\ toClient[i].id \in Nat /\ i \in DOMAIN toClient
      BY DEF At, Granting, Answering, CommandAcks, Packet
    <2>2. At(toClient, Answering(toClient[i].id)) # {}
      BY <2>1 DEF At
    <2>3. QED
      BY <2>1, <2>2 DEF Registered, Owned
  <1>4. NoPacket \notin Granting
    BY DEF NoPacket, Pkt, Granting
  <1>5. Installed' = Installed
    BY DEF Installed
  <1>6. QED
    BY <1>2, <1>3, <1>4, <1>5 DEF GrantInv

\* Writing p adds nothing to the subscriptions under way for another filter.
LEMMA GrantWrite ==
    ASSUME TypeOK, NEW p \in Packet, NEW f, p \notin Others(f)
    PROVE  At(Append(toBroker, p), Others(f)) = At(toBroker, Others(f))
  <1>1. toBroker \in Seq(Packet)
    BY DEF TypeOK, WireType
  <1>2. QED
    BY <1>1, AppendAt

\* The broker grants what it answers.
LEMMA GrantReply ==
    ASSUME TypeOK, GrantInv, BrokerHandles
    PROVE  GrantInv'
  <1> DEFINE p == Head(toBroker)
  <1>1. /\ p \in Packet /\ toClient \in Seq(Packet) /\ toBroker \in Seq(Packet) /\ toBroker # <<>>
        /\ UNCHANGED <<messageHandlers, net, unanswered, call, readbuf>>
        /\ net = "open" /\ toBroker' = Tail(toBroker)
    BY DEF BrokerHandles, TypeOK, WireType
  <1>2. PICK c \in ReplyCodes(p), early \in BOOLEAN, q \in 0..QoS :
           /\ LET queue == IF early
                           THEN Append(toClient, Pkt("PUBLISH", pushed + 1, p.filter, q))
                           ELSE toClient
              IN toClient' = IF ReplyType(p) = "none" THEN queue
                             ELSE Append(queue, Pkt(ReplyType(p), p.id, NoFilter, c))
           /\ SessionAfter(p, c)
    BY DEF BrokerHandles
  <1> DEFINE m == Pkt("PUBLISH", pushed + 1, p.filter, q)
             a == Pkt(ReplyType(p), p.id, NoFilter, c)
             queue == IF early THEN Append(toClient, m) ELSE toClient
  <1>3. toClient' = IF ReplyType(p) = "none" THEN queue ELSE Append(queue, a)
    BY <1>2
  <1>4. granted' = IF p.type = "SUBSCRIBE" /\ c # 128 THEN granted \cup {p.filter} ELSE granted
    BY <1>2 DEF SessionAfter
  <1>5. m \in Packet /\ m \notin Granting
    <2>1. p.filter \in TopicFilter
      BY <1>1 DEF Packet
    <2>2. QED
      BY <2>1 DEF TypeOK, WireType, HistoryType, Pkt, Packet, BrokerTypes, Granting
  <1>6. ReplyType(p) # "none" => a \in Packet
    BY <1>1, BrokerType
  <1>7. a \in Granting => p.type = "SUBSCRIBE" /\ c # 128
    BY DEF Granting, Pkt, ReplyType
  <1> HIDE DEF a, m
  <1>8. queue \in Seq(Packet) /\ At(queue, Granting) = At(toClient, Granting)
    BY <1>1, <1>5, AppendAt
  <1> HIDE DEF queue
  <1>9. At(toClient', Granting) # {} => At(toClient, Granting) # {} \/ (p.type = "SUBSCRIBE" /\ c # 128)
    <2>1. CASE ReplyType(p) = "none"
      BY <1>3, <1>8, <2>1
    <2>2. CASE ReplyType(p) # "none"
      <3>1. toClient' = Append(queue, a) /\ a \in Packet
        BY <1>3, <1>6, <2>2
      <3>2. At(Append(queue, a), Granting)
              = IF a \in Granting THEN At(queue, Granting) \cup {Len(queue) + 1}
                ELSE At(queue, Granting)
        BY <1>8, <3>1, AppendAt
      <3>3. QED
        BY <1>7, <1>8, <3>1, <3>2
    <2>3. QED
      BY <2>1, <2>2
  <1>10. \A f : /\ At(toBroker, Others(f)) = {} => At(toBroker', Others(f)) = {}
                /\ At(toBroker, Others(f)) = {} /\ p.type = "SUBSCRIBE" => p.filter = f
    <2> TAKE f
    <2>1. At(toBroker, Others(f)) = {} => At(toBroker', Others(f)) = {} /\ p \notin Others(f)
      BY <1>1, TailEmpty, TailAt
    <2>2. p \notin Others(f) /\ p.type = "SUBSCRIBE" => p.filter = f
      BY <1>1 DEF Others, SubscribesTo, Packet
    <2>3. QED
      BY <2>1, <2>2
  <1> HIDE DEF p
  <1>11. Installed' = Installed
    BY <1>1 DEF Installed
  <1>12. QED
    BY <1>1, <1>4, <1>9, <1>10, <1>11 DEF GrantInv

\* What MQTTSubscribe and MQTTUnsubscribe do to the table of handlers.
LEMMA SubscribeInstalls ==
    ASSUME TypeOK, FinishSubscribe
    PROVE  /\ Installed \subseteq Installed' /\ Installed' \subseteq Installed \cup {call.filter}
           /\ Refused => Installed' = Installed
           /\ readbuf.code # 0 => unserved' \subseteq unserved
           /\ SubscribedHasHandler /\ call.filter # NoFilter => SubscribedHasHandler'
  <1> DEFINE free == {i \in Slots : messageHandlers[i] = NoFilter}
  <1>1. messageHandlers \in [Slots -> TopicFilter]
    BY DEF TypeOK, ClientType
  <1>2. /\ subscribed' = IF SubscribeOk(free) THEN subscribed \cup {call.filter} ELSE subscribed
        /\ unserved' = UnservedAfter(free)
    BY DEF FinishSubscribe
  <1>3. CASE ~Refused /\ free # {}
    <2>1. PICK i \in free : messageHandlers' = [messageHandlers EXCEPT ![i] = call.filter]
      BY <1>3 DEF FinishSubscribe
    <2>2. i \in Slots /\ messageHandlers[i] = NoFilter
      OBVIOUS
    <2> HIDE DEF free
    <2>3. /\ messageHandlers'[i] = call.filter
          /\ \A j \in Slots : j # i => messageHandlers'[j] = messageHandlers[j]
      BY <1>1, <2>1, <2>2
    <2>4. Installed' = {messageHandlers'[j] : j \in Slots} \ {NoFilter}
      BY DEF Installed
    <2>5. Installed \subseteq Installed'
      BY <2>2, <2>3, <2>4 DEF Installed
    <2>6. Installed' \subseteq Installed \cup {call.filter}
      BY <2>2, <2>3, <2>4 DEF Installed
    <2>7. call.filter # NoFilter => call.filter \in Installed'
      BY <2>2, <2>3, <2>4
    <2>8. /\ subscribed' = subscribed \cup {call.filter}
          /\ unserved' = unserved \ {call.filter}
      BY <1>2, <1>3 DEF SubscribeOk, UnservedAfter
    <2>9. QED
      BY <1>3, <2>5, <2>6, <2>7, <2>8 DEF SubscribedHasHandler
  <1>4. CASE Refused \/ free = {}
    <2>1. messageHandlers' = messageHandlers
      BY <1>4 DEF FinishSubscribe
    <2>2. Installed' = Installed
      BY <2>1 DEF Installed
    <2>3. CASE free = {} /\ readbuf.code = 0
      <3>1. ~Refused
        BY <2>3 DEF Refused
      <3>2. /\ subscribed' = subscribed \cup {call.filter}
            /\ unserved' = unserved \cup ({call.filter} \ Installed)
        BY <1>2, <2>3, <3>1 DEF SubscribeOk, UnservedAfter
      <3>3. QED
        BY <2>2, <2>3, <3>2 DEF SubscribedHasHandler
    <2>4. CASE ~(free = {} /\ readbuf.code = 0)
      <3>1. subscribed' = subscribed /\ unserved' = unserved
        BY <1>2, <1>4, <2>4 DEF SubscribeOk, UnservedAfter
      <3>2. QED
        BY <2>2, <3>1 DEF SubscribedHasHandler
    <2>5. QED
      BY <2>2, <2>3, <2>4
  <1>5. QED
    BY <1>3, <1>4

LEMMA UnsubscribeRemoves ==
    ASSUME TypeOK, FinishUnsubscribe
    PROVE  Installed' \subseteq Installed /\ Installed \ {call.filter} \subseteq Installed'
  <1> DEFINE mine == {i \in Slots : messageHandlers[i] = call.filter}
  <1>1. messageHandlers \in [Slots -> TopicFilter]
    BY DEF TypeOK, ClientType
  <1>2. CASE mine # {}
    <2>1. PICK i \in mine : messageHandlers' = [messageHandlers EXCEPT ![i] = NoFilter]
      BY <1>2 DEF FinishUnsubscribe
    <2>2. i \in Slots /\ messageHandlers[i] = call.filter
      OBVIOUS
    <2> HIDE DEF mine
    <2>3. /\ messageHandlers'[i] = NoFilter
          /\ \A j \in Slots : j # i => messageHandlers'[j] = messageHandlers[j]
      BY <1>1, <2>1, <2>2
    <2>4. Installed' = {messageHandlers'[j] : j \in Slots} \ {NoFilter}
      BY DEF Installed
    <2>5. QED
      BY <2>2, <2>3, <2>4 DEF Installed
  <1>3. CASE mine = {}
    <2>1. messageHandlers' = messageHandlers
      BY <1>3 DEF FinishUnsubscribe
    <2>2. QED
      BY <2>1 DEF Installed
  <1>4. QED
    BY <1>2, <1>3

\* Each step keeps the grants.
LEMMA GrantStep ==
    ASSUME TypeOK, Phases, Registered, GrantInv, [Next]_vars
    PROVE  GrantInv'
  <1> DEFINE ping == Pkt("PINGREQ", 0, NoFilter, 0)
  <1>1. /\ ping \in Packet /\ \A f : ping \notin Others(f)
        /\ NoPacket \notin Granting
    BY PacketConstants DEF Pkt, NoPacket, Others, SubscribesTo, Granting
  <1> HIDE DEF ping
  <1>2. messageHandlers' = messageHandlers => Installed' = Installed
    BY DEF Installed
  <1>3. CASE MQTTSubscribe \/ MQTTUnsubscribe \/ MQTTPublish
    <2>1. /\ call.id = 0 /\ readbuf' = NoPacket
          /\ UNCHANGED <<messageHandlers, net, granted, unanswered, toBroker, toClient>>
      BY <1>3 DEF MQTTSubscribe, MQTTUnsubscribe, MQTTPublish, Begin, Idle, Phases, Identified
    <2>2. CASE unanswered = {}
      BY <2>1, <2>2, GrantBegin
    <2>3. CASE unanswered # {}
      BY <2>1, <2>3 DEF GrantInv
    <2>4. QED
      BY <2>2, <2>3
  <1>4. CASE MQTTYield \/ StartSession
    BY <1>2, <1>4, GrantQuiet DEF MQTTYield, StartSession, NewCall
  <1>5. CASE StopSession \/ RetrySession
    BY <1>5 DEF StopSession, RetrySession, Hangup, GrantInv
  <1>6. CASE OpenConnection
    <2>1. Installed' = {} /\ call'.op # "subscribe"
      BY <1>6 DEF OpenConnection, Installed, NoHandlers, Phases
    <2>2. QED
      BY <2>1 DEF GrantInv
  <1>7. CASE SendRequest
    <2>1. Request \in Packet /\ (call.op = "subscribe" => Request \notin Others(call.filter))
      BY PacketType DEF Request, Pkt, Others, SubscribesTo
    <2>2. toBroker' = toBroker \/ toBroker' = Append(toBroker, Request)
      BY <1>7 DEF SendRequest, Written
    <2>3. call.op = "subscribe" =>
            At(toBroker', Others(call.filter)) \subseteq At(toBroker, Others(call.filter))
      <3>1. call.op = "subscribe" =>
              At(Append(toBroker, Request), Others(call.filter)) = At(toBroker, Others(call.filter))
        BY <2>1, GrantWrite
      <3>2. QED
        BY <2>2, <3>1
    <2>4. UNCHANGED <<call, toClient, readbuf, messageHandlers, net, granted, unanswered>>
      BY <1>7 DEF SendRequest, Goto
    <2>5. QED
      BY <1>2, <2>3, <2>4, GrantQuiet
  <1>8. CASE SendPayload
    <2>1. call'.op # "subscribe"
      BY <1>8 DEF SendPayload, Return, NoCall, NewCall, Phases
    <2>2. UNCHANGED <<messageHandlers, net, granted, unanswered>>
      BY <1>8 DEF SendPayload
    <2>3. QED
      BY <1>2, <2>1, <2>2, GrantQuiet
  <1>9. CASE SendFails
    <2>1. call'.op # "subscribe"
      BY <1>9 DEF SendFails, Fail, Goto, Return, NoCall, NewCall
    <2>2. UNCHANGED <<messageHandlers, net, granted, unanswered>>
      BY <1>9 DEF SendFails
    <2>3. QED
      BY <1>2, <2>1, <2>2, GrantQuiet
  <1>10. CASE WaitExpired
    <2>1. call'.op # "subscribe"
      <3>1. Fail
        BY <1>10 DEF WaitExpired
      <3>2. QED
        BY <3>1 DEF Fail, Goto, Return, NoCall, NewCall
    <2>2. UNCHANGED <<messageHandlers, net, granted>> /\ unanswered \subseteq unanswered'
      BY <1>10 DEF WaitExpired
    <2>3. QED
      BY <1>2, <2>1, <2>2, GrantQuiet
  <1>11. CASE ReadPacket
    <2>1. /\ toClient # <<>> /\ toClient' = Tail(toClient) /\ readbuf' = Head(toClient)
          /\ UNCHANGED <<messageHandlers, net, granted, unanswered, toBroker, call>>
          /\ toClient \in Seq(Packet)
      BY <1>11 DEF ReadPacket, TypeOK, WireType
    <2>2. At(toClient', Granting) # {} \/ readbuf' \in Granting => At(toClient, Granting) # {}
      BY <2>1, TailAt
    <2>3. QED
      BY <1>2, <2>1, <2>2 DEF GrantInv
  <1>12. CASE ReadTimesOut \/ ReadError
    BY <1>1, <1>2, <1>12, GrantQuiet DEF ReadTimesOut, ReadError
  <1>13. CASE ReadEof
    <2>1. net' = net /\ net # "open"
      BY <1>13 DEF ReadEof
    <2>2. QED
      BY <2>1 DEF GrantInv
  <1>14. CASE Dispatch
    BY <1>2, <1>14, GrantQuiet DEF Dispatch
  <1>15. CASE SendAck \/ KeepAlive
    <2>1. Answer \in Packet /\ \A f : Answer \notin Others(f)
      BY PacketType DEF Answer, Pkt, Others, SubscribesTo
    <2>2. \/ toBroker' = toBroker \/ toBroker' = Append(toBroker, Answer)
          \/ toBroker' = Append(toBroker, ping)
      BY <1>15 DEF SendAck, KeepAlive, Written, NotWritten, ping
    <2>3. \A f : At(toBroker', Others(f)) \subseteq At(toBroker, Others(f))
      BY <1>1, <2>1, <2>2, GrantWrite
    <2>4. /\ UNCHANGED <<messageHandlers, net, granted, unanswered, toClient>>
          /\ call' = call \/ call'.op # "subscribe"
          /\ readbuf' = readbuf \/ readbuf' = NoPacket
      BY <1>15 DEF SendAck, KeepAlive, NextCycle, Goto, Return, NoCall, NewCall
    <2>5. QED
      BY <1>1, <1>2, <2>3, <2>4, GrantQuiet
  <1>16. CASE FinishConnect \/ FinishPublish
    <2>1. call'.op # "subscribe"
      BY <1>16 DEF FinishConnect, FinishPublish, Fail, Goto, Return, NoCall, NewCall
    <2>2. UNCHANGED <<messageHandlers, net, granted>> /\ unanswered \subseteq unanswered'
      BY <1>16 DEF FinishConnect, FinishPublish, Answered
    <2>3. QED
      BY <1>2, <2>1, <2>2, GrantQuiet
  <1>17. CASE FinishSubscribe
    <2>1. /\ UNCHANGED <<net, granted>> /\ unanswered \subseteq unanswered'
          /\ call'.op # "subscribe" /\ call.op = "subscribe" /\ pc = "finish"
      BY <1>17 DEF FinishSubscribe, Answered, Return, NoCall, NewCall
    <2>2. readbuf \in Packet /\ readbuf.type = "SUBACK"
      BY <2>1 DEF TypeOK, CallType, Phases, Awaited
    <2>3. CASE Refused
      BY <1>17, <2>1, <2>3, GrantQuiet, SubscribeInstalls
    <2>4. CASE ~Refused
      <3>1. ~SignedChar => readbuf \in Granting
        BY <2>2, <2>4 DEF Refused, Granting
      <3>2. ~SignedChar /\ net = "open" /\ unanswered = {} => call.filter \in granted
        BY <2>1, <3>1 DEF GrantInv
      <3>3. QED
        BY <1>17, <2>1, <3>2, SubscribeInstalls DEF GrantInv
    <2>5. QED
      BY <2>3, <2>4
  <1>18. CASE FinishUnsubscribe
    <2>1. call'.op # "subscribe"
      BY <1>18 DEF FinishUnsubscribe, Return, NoCall, NewCall
    <2>2. UNCHANGED <<net, granted>> /\ unanswered \subseteq unanswered'
      BY <1>18 DEF FinishUnsubscribe, Answered
    <2>3. QED
      BY <1>18, <2>1, <2>2, GrantQuiet, UnsubscribeRemoves
  <1>19. CASE TimerExpires \/ PingTimerExpires \/ UNCHANGED vars
    BY <1>2, <1>19, GrantQuiet DEF TimerExpires, PingTimerExpires, vars
  <1>20. CASE BrokerCloses \/ ConnectionReset
    BY <1>20 DEF BrokerCloses, ConnectionReset, GrantInv
  <1>21. CASE BrokerHandles
    BY <1>21, GrantReply
  <1>22. CASE BrokerPublishes
    <2>1. PICK f \in subs, q \in 0..QoS :
             toClient' = Append(toClient, Pkt("PUBLISH", pushed + 1, f, q))
      BY <1>22 DEF BrokerPublishes
    <2> DEFINE m == Pkt("PUBLISH", pushed + 1, f, q)
    <2>2. m \in Packet /\ m \notin Granting /\ toClient \in Seq(Packet)
      BY DEF TypeOK, WireType, HistoryType, Pkt, Packet, BrokerTypes, Granting
    <2> HIDE DEF m
    <2>3. At(Append(toClient, m), Granting) = At(toClient, Granting)
      BY <2>2, AppendAt
    <2>4. At(toClient', Granting) = At(toClient, Granting)
      BY <2>1, <2>3 DEF m
    <2>5. UNCHANGED <<messageHandlers, net, granted, unanswered, call, readbuf, toBroker>>
      BY <1>22 DEF BrokerPublishes
    <2>6. QED
      BY <1>2, <2>4, <2>5 DEF GrantInv
  <1>23. QED
    BY <1>3, <1>4, <1>5, <1>6, <1>7, <1>8, <1>9, <1>10, <1>11, <1>12, <1>13, <1>14, <1>15,
       <1>16, <1>17, <1>18, <1>19, <1>20, <1>21, <1>22
    DEF Next, Api, Run, Read, Finish, Environment

\* Where char is unsigned, a handler is there only for a filter the broker granted,
\* whatever else is in flight, until an answer of an earlier call is outstanding.
THEOREM HandlersNeedGrants == Spec => [](~SignedChar => HandlersWereGranted)
  <1>1. Init => AckInv /\ GrantInv
    BY AckInitially DEF Init, GrantInv
  <1>2. TypeOK /\ AckInv /\ GrantInv /\ [Next]_vars => AckInv' /\ GrantInv'
    BY PhasesStep, AckStep, GrantStep DEF AckInv
  <1>3. GrantInv => (~SignedChar => HandlersWereGranted)
    BY DEF GrantInv, HandlersWereGranted
  <1>4. QED
    BY <1>1, <1>2, <1>3, TypeCorrect, PTL DEF Spec

-------------------------------------------------------------------------------
(* What a successful subscription promises.                                *)

GrantedZero == {p \in Packet : p.type = "SUBACK" /\ p.code = 0}

SubscribedInv ==
    /\ SubscribedHasHandler
    /\ call.op = "subscribe" => call.filter # NoFilter
    /\ 0 \notin SubackCodes =>
          unserved = {} /\ At(toClient, GrantedZero) = {} /\ readbuf \notin GrantedZero

\* Steps that leave the handlers, the subscriptions and the answers alone.
LEMMA SubscribedQuiet ==
    ASSUME SubscribedInv,
           \/ UNCHANGED <<messageHandlers, subscribed, unserved>>
           \/ subscribed' = {} /\ unserved' = {},
           call' = call \/ call'.op # "subscribe",
           toClient' = toClient \/ toClient' = <<>>,
           readbuf' = readbuf \/ readbuf' = NoPacket
    PROVE  SubscribedInv'
  <1>1. NoPacket \notin GrantedZero
    BY DEF NoPacket, Pkt, GrantedZero
  <1>2. At(toClient, GrantedZero) = {} => At(toClient', GrantedZero) = {}
    BY EmptyAt
  <1>3. SubscribedHasHandler => SubscribedHasHandler'
    BY DEF SubscribedHasHandler, Installed
  <1>4. QED
    BY <1>1, <1>2, <1>3 DEF SubscribedInv

\* The broker answers with the codes it has.
LEMMA SubscribedReply ==
    ASSUME TypeOK, 0 \notin SubackCodes, At(toClient, GrantedZero) = {},
           BrokerHandles \/ BrokerPublishes
    PROVE  At(toClient', GrantedZero) = {}
  <1>1. toClient \in Seq(Packet)
    BY DEF TypeOK, WireType
  <1>2. ASSUME NEW f \in TopicFilter, NEW q \in 0..QoS
        PROVE  /\ Pkt("PUBLISH", pushed + 1, f, q) \in Packet
               /\ Pkt("PUBLISH", pushed + 1, f, q) \notin GrantedZero
    BY DEF TypeOK, WireType, HistoryType, Pkt, Packet, BrokerTypes, GrantedZero
  <1>3. CASE BrokerPublishes
    <2>1. PICK f \in subs, q \in 0..QoS :
             toClient' = Append(toClient, Pkt("PUBLISH", pushed + 1, f, q))
      BY <1>3 DEF BrokerPublishes
    <2> DEFINE m == Pkt("PUBLISH", pushed + 1, f, q)
    <2>2. m \in Packet /\ m \notin GrantedZero
      BY <1>2 DEF TypeOK, WireType
    <2> HIDE DEF m
    <2>3. At(Append(toClient, m), GrantedZero) = {}
      BY <1>1, <2>2, AppendAt
    <2>4. QED
      BY <2>1, <2>3 DEF m
  <1>4. CASE BrokerHandles
    <2> DEFINE p == Head(toBroker)
    <2>1. p \in Packet /\ p.filter \in TopicFilter
      <3>1. p \in Packet
        BY <1>4 DEF BrokerHandles, TypeOK, WireType
      <3>2. QED
        BY <3>1 DEF Packet
    <2>2. PICK c \in ReplyCodes(p), early \in BOOLEAN, q \in 0..QoS :
             LET queue == IF early
                          THEN Append(toClient, Pkt("PUBLISH", pushed + 1, p.filter, q))
                          ELSE toClient
             IN toClient' = IF ReplyType(p) = "none" THEN queue
                            ELSE Append(queue, Pkt(ReplyType(p), p.id, NoFilter, c))
      BY <1>4 DEF BrokerHandles
    <2> DEFINE m == Pkt("PUBLISH", pushed + 1, p.filter, q)
               a == Pkt(ReplyType(p), p.id, NoFilter, c)
               queue == IF early THEN Append(toClient, m) ELSE toClient
    <2>3. toClient' = IF ReplyType(p) = "none" THEN queue ELSE Append(queue, a)
      BY <2>2
    <2>4. m \in Packet /\ m \notin GrantedZero
      BY <1>2, <2>1
    <2>5. ReplyType(p) # "none" => a \in Packet
      BY <2>1, BrokerType
    <2>6. a \notin GrantedZero
      <3>1. ReplyType(p) = "SUBACK" => p.type = "SUBSCRIBE"
        BY DEF ReplyType
      <3>2. p.type = "SUBSCRIBE" => c # 0
        BY DEF ReplyCodes
      <3>3. QED
        BY <3>1, <3>2 DEF Pkt, GrantedZero
    <2> HIDE DEF p, m, a
    <2>7. queue \in Seq(Packet) /\ At(queue, GrantedZero) = {}
      BY <1>1, <2>4, AppendAt
    <2> HIDE DEF queue
    <2>8. ReplyType(p) # "none" => At(Append(queue, a), GrantedZero) = {}
      BY <2>5, <2>6, <2>7, AppendAt
    <2>9. QED
      BY <2>3, <2>7, <2>8
  <1>5. QED
    BY <1>3, <1>4

\* Each step keeps the promise.
LEMMA SubscribedStep ==
    ASSUME TypeOK, Phases, SubscribedInv, [Next]_vars
    PROVE  SubscribedInv'
  <1>1. CASE MQTTSubscribe \/ MQTTUnsubscribe \/ MQTTPublish
    <2>1. UNCHANGED <<messageHandlers, subscribed, unserved, toClient, readbuf>>
      BY <1>1 DEF MQTTSubscribe, MQTTUnsubscribe, MQTTPublish, Begin
    <2>2. call'.op # "subscribe" \/ call'.filter \in Filters
      BY <1>1 DEF MQTTSubscribe, MQTTUnsubscribe, MQTTPublish, Begin, NewCall
    <2>3. QED
      BY <2>1, <2>2 DEF SubscribedInv, SubscribedHasHandler, Installed
  <1>2. CASE MQTTYield \/ StartSession
    BY <1>2, SubscribedQuiet DEF MQTTYield, StartSession, NewCall
  <1>3. CASE StopSession \/ OpenConnection
    BY <1>3, SubscribedQuiet DEF StopSession, OpenConnection, Hangup
  <1>4. CASE RetrySession
    BY <1>4, SubscribedQuiet DEF RetrySession, Hangup, Return, NoCall, NewCall
  <1>5. CASE SendRequest \/ SendPayload \/ SendFails
    BY <1>5, SubscribedQuiet
    DEF SendRequest, SendPayload, SendFails, Goto, Fail, Return, NoCall, NewCall
  <1>6. CASE WaitExpired
    <2>1. Fail
      BY <1>6 DEF WaitExpired
    <2>2. (call' = call \/ call'.op # "subscribe") /\ readbuf' = NoPacket
      BY <2>1 DEF Goto, Fail, Return, NoCall, NewCall
    <2>3. UNCHANGED <<messageHandlers, subscribed, unserved, toClient>>
      BY <1>6 DEF WaitExpired
    <2>4. QED
      BY <2>2, <2>3, SubscribedQuiet
  <1>7. CASE ReadPacket
    <2>1. /\ toClient # <<>> /\ toClient' = Tail(toClient) /\ readbuf' = Head(toClient)
          /\ UNCHANGED <<messageHandlers, subscribed, unserved, call>> /\ toClient \in Seq(Packet)
      BY <1>7 DEF ReadPacket, TypeOK, WireType
    <2>2. At(toClient, GrantedZero) = {} =>
            At(toClient', GrantedZero) = {} /\ readbuf' \notin GrantedZero
      BY <2>1, TailAt
    <2>3. QED
      BY <2>1, <2>2 DEF SubscribedInv, SubscribedHasHandler, Installed
  <1>8. CASE ReadTimesOut \/ ReadError \/ ReadEof
    BY <1>8, SubscribedQuiet
    DEF ReadTimesOut, ReadError, ReadEof, NextCycle, Goto, Return, NoCall, NewCall
  <1>9. CASE Dispatch
    BY <1>9, SubscribedQuiet DEF Dispatch
  <1>10. CASE SendAck \/ KeepAlive
    BY <1>10, SubscribedQuiet DEF SendAck, KeepAlive, NextCycle, Goto, Return, NoCall, NewCall
  <1>11. CASE FinishConnect \/ FinishPublish
    BY <1>11, SubscribedQuiet
    DEF FinishConnect, FinishPublish, Fail, Goto, Return, NoCall, NewCall
  <1>12. CASE FinishSubscribe
    <2>1. /\ toClient' = toClient /\ readbuf' = NoPacket /\ call'.op # "subscribe"
          /\ call.op = "subscribe" /\ pc = "finish"
      BY <1>12 DEF FinishSubscribe, Return, NoCall, NewCall
    <2>2. readbuf \in Packet /\ readbuf.type = "SUBACK"
      BY <2>1 DEF TypeOK, CallType, Phases, Awaited
    <2>3. NoPacket \notin GrantedZero
      BY DEF NoPacket, Pkt, GrantedZero
    <2>4. SubscribedHasHandler'
      BY <1>12, <2>1, SubscribeInstalls DEF SubscribedInv
    <2>5. 0 \notin SubackCodes => unserved' = {}
      <3>1. 0 \notin SubackCodes => readbuf.code # 0
        BY <2>2 DEF SubscribedInv, GrantedZero
      <3>2. QED
        BY <1>12, <3>1, SubscribeInstalls DEF SubscribedInv
    <2>6. QED
      BY <2>1, <2>3, <2>4, <2>5 DEF SubscribedInv
  <1>13. CASE FinishUnsubscribe
    <2>1. /\ toClient' = toClient /\ readbuf' = NoPacket /\ call'.op # "subscribe"
          /\ subscribed' = subscribed \ {call.filter} /\ unserved' = unserved \ {call.filter}
      BY <1>13 DEF FinishUnsubscribe, Return, NoCall, NewCall
    <2>2. NoPacket \notin GrantedZero
      BY DEF NoPacket, Pkt, GrantedZero
    <2>3. SubscribedHasHandler => SubscribedHasHandler'
      BY <1>13, <2>1, UnsubscribeRemoves DEF SubscribedHasHandler
    <2>4. QED
      BY <2>1, <2>2, <2>3 DEF SubscribedInv
  <1>14. CASE TimerExpires \/ PingTimerExpires \/ BrokerCloses \/ UNCHANGED vars
    BY <1>14, SubscribedQuiet DEF TimerExpires, PingTimerExpires, BrokerCloses, vars
  <1>15. CASE ConnectionReset
    <2>1. PICK k \in 0..Len(toClient) : toClient' = SubSeq(toClient, 1, k)
      BY <1>15 DEF ConnectionReset
    <2>2. UNCHANGED <<messageHandlers, subscribed, unserved, call, readbuf>> /\ toClient \in Seq(Packet)
      BY <1>15 DEF ConnectionReset, TypeOK, WireType
    <2>3. At(toClient', GrantedZero) \subseteq At(toClient, GrantedZero)
      BY <2>1, <2>2, PrefixAt
    <2>4. QED
      BY <2>2, <2>3 DEF SubscribedInv, SubscribedHasHandler, Installed
  <1>16. CASE BrokerHandles \/ BrokerPublishes
    <2>1. UNCHANGED <<messageHandlers, subscribed, unserved, call, readbuf>>
      BY <1>16 DEF BrokerHandles, BrokerPublishes
    <2>2. 0 \notin SubackCodes /\ At(toClient, GrantedZero) = {} => At(toClient', GrantedZero) = {}
      BY <1>16, SubscribedReply
    <2>3. QED
      BY <2>1, <2>2 DEF SubscribedInv, SubscribedHasHandler, Installed
  <1>17. QED
    BY <1>1, <1>2, <1>3, <1>4, <1>5, <1>6, <1>7, <1>8, <1>9, <1>10, <1>11, <1>12, <1>13,
       <1>14, <1>15, <1>16
    DEF Next, Api, Run, Read, Finish, Environment

\* Whatever the broker grants, a topic the application was told it is subscribed to
\* has its handler, unless the table was full and the broker granted QoS 0; where it
\* never grants QoS 0, a full table reports its failure and there is no exception.
THEOREM SubscriptionsAreServed ==
    Spec => []SubscribedHasHandler /\ [](0 \notin SubackCodes => subscribed \subseteq Installed)
  <1>1. Init => Phases /\ SubscribedInv
    <2>1. Init => Phases
      BY AckInitially DEF AckInv
    <2>2. Init => SubscribedInv
      BY EmptyAt DEF Init, SubscribedInv, SubscribedHasHandler, NoCall, NewCall, NoPacket, Pkt,
         GrantedZero
    <2>3. QED
      BY <2>1, <2>2
  <1>2. TypeOK /\ Phases /\ SubscribedInv /\ [Next]_vars => Phases' /\ SubscribedInv'
    BY PhasesStep, SubscribedStep
  <1>3. SubscribedInv =>
          SubscribedHasHandler /\ (0 \notin SubackCodes => subscribed \subseteq Installed)
    BY DEF SubscribedInv, SubscribedHasHandler
  <1>4. QED
    BY <1>1, <1>2, <1>3, TypeCorrect, PTL DEF Spec
===============================================================================
