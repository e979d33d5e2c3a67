-------------------------------- MODULE Packets --------------------------------
(***************************************************************************)
(* The packets of paho: what the serializers write into a buffer, behind   *)
(* the remaining length of RemainingLength, and what the deserializers of  *)
(* the other side read from it.  The client writes CONNECT, SUBSCRIBE,     *)
(* UNSUBSCRIBE, PUBLISH and the packets without a body, and reads CONNACK, *)
(* SUBACK, UNSUBACK and PUBLISH; the server half of the library does the   *)
(* reverse; both write and read acknowledgements.                          *)
(*                                                                         *)
(* Strings are sequences of bytes; NULL is no string, << >>, and a string  *)
(* s is <<s>>.  A payload is its length: the client sends it from a buffer *)
(* of its own.                                                             *)
(***************************************************************************)
EXTENDS RemainingLength, SequencesExt, Topics

CONSTANTS
    Packets,        \* the packets written
    Margins,        \* how much larger than a packet its buffer is
    TopicFilters,   \* filters of the handlers
    MaxCount,       \* the codes of a SUBACK its reader has room for, 1 in MQTTSubscribe
    Stale           \* what readbuf holds behind a packet

CONNECT == 1
CONNACK == 2
PUBLISH == 3
PUBACK == 4
PUBREC == 5
PUBREL == 6
PUBCOMP == 7
SUBSCRIBE == 8
SUBACK == 9
UNSUBSCRIBE == 10
UNSUBACK == 11
PINGREQ == 12
PINGRESP == 13
DISCONNECT == 14

Acks == {PUBACK, PUBREC, PUBREL, PUBCOMP}
NoBody == {PINGREQ, PINGRESP, DISCONNECT}

VARIABLES
    packet,     \* the packet to be written
    buflen,     \* the size of the buffer it is written to
    cut,        \* readPacket timed out inside the length field
    read        \* what the deserializer returned

ownVars == <<packet, buflen, cut, read>>
allVars == <<vars, ownVars>>

NotRead == [rc |-> -9, as |-> << >>]
BufferTooShort == [rc |-> -2, as |-> << >>]
Refused(rc) == [rc |-> rc, as |-> << >>]
Read(p) == [rc |-> 1, as |-> p]

-------------------------------------------------------------------------------
(* What the callers pass: a string has two bytes for its length, a CONNECT   *)
(* has a will of topic and message or none, and at QoS 0 there is no         *)
(* identifier.                                                               *)
Int16 == {n \in Nat : n <= 65535}
MQTTString == {s \in Seq(Byte) : Len(s) \in Int16}
Optional == {ss \in Seq(MQTTString) : Len(ss) <= 1}

ConnectPackets ==
    [type : {CONNECT}, version : {3, 4}, cleansession : BOOLEAN, keepAliveInterval : Int16,
     clientID : MQTTString, will : {ss \in Seq(MQTTString) : Len(ss) \in {0, 2}}, willQoS : 0..2,
     willRetained : BOOLEAN, username : Optional, password : Optional]

PublishPackets ==
    [type : {PUBLISH}, dup : BOOLEAN, qos : 0..2, retained : BOOLEAN, topic : MQTTString,
     id : Int16, payloadlen : Nat]

SubscribePackets ==
    [type : {SUBSCRIBE}, dup : BOOLEAN, id : Int16, topics : Seq(MQTTString), codes : Seq(Byte)]

OtherPackets ==
    [type : {CONNACK}, sessionPresent : BOOLEAN, code : Byte]
    \cup [type : Acks, dup : BOOLEAN, id : Int16]
    \cup [type : {SUBACK}, id : Int16, codes : Seq(Byte)]
    \cup [type : {UNSUBSCRIBE}, dup : BOOLEAN, id : Int16, topics : Seq(MQTTString)]
    \cup [type : {UNSUBACK}, id : Int16]
    \cup [type : NoBody]

ASSUME PacketsAssumption ==
    \A p \in Packets :
        \/ p \in OtherPackets
        \/ p \in ConnectPackets /\ (p.will = << >> => p.willQoS = 0 /\ ~p.willRetained)
        \/ p \in PublishPackets /\ (p.qos = 0 => p.id = 0)
        \/ p \in SubscribePackets /\ Len(p.codes) = Len(p.topics)

ASSUME MarginsAssumption == Margins \subseteq Int

ASSUME MaxCountAssumption == MaxCount \in Nat

ASSUME StaleAssumption == Stale \in Seq(Byte)

\* The format the comment of isTopicMatched assumes; a filter is a C string.
ASSUME TopicFiltersAssumption ==
    \A f \in TopicFilters : f \in Seq(Byte \ {0}) /\ WellFormed(f)

-------------------------------------------------------------------------------
(* Writing.                                                                *)

Flag(b) == IF b THEN 1 ELSE 0
writeInt(n) == <<(n \div 256) % 256, n % 256>>
writeMQTTString(s) == writeInt(Len(s)) \o s
Strings(ss) == FlattenSeq([k \in DOMAIN ss |-> writeMQTTString(ss[k])])

\* Sizes(ss)[k] is the number of bytes the first k strings take.
Sizes(ss) ==
    LET size[k \in 0..Len(ss)] == IF k = 0 THEN 0 ELSE size[k - 1] + 2 + Len(ss[k])
    IN  size

MQTTstrlen(ss) == Sizes(ss)[Len(ss)]

\* The header byte: type, dup, qos and retain.
HeaderByte(p) ==
    16 * p.type +
    CASE p.type = PUBLISH -> 8 * Flag(p.dup) + 2 * p.qos + Flag(p.retained)
      [] p.type \in {SUBSCRIBE, UNSUBSCRIBE} -> 8 * Flag(p.dup) + 2
      [] p.type \in Acks -> 8 * Flag(p.dup)
      [] OTHER -> 0

Protocol(version) ==
    IF version = 4 THEN <<77, 81, 84, 84>> ELSE <<77, 81, 73, 115, 100, 112>>

\* The strings of a CONNECT, in the order in which its flags announce them.
Credentials(p) == p.username \o p.password
ConnectStrings(p) == <<p.clientID>> \o p.will \o Credentials(p)

ConnectFlags(p) ==
    2 * Flag(p.cleansession)
    + (IF p.will # << >> THEN 4 + 8 * p.willQoS + 32 * Flag(p.willRetained) ELSE 0)
    + 64 * Len(p.password) + 128 * Len(p.username)

MQTTSerialize_connectLength(p) ==
    (IF p.version = 3 THEN 12 ELSE 10) + MQTTstrlen(ConnectStrings(p))

MQTTSerialize_publishLength(p) ==
    2 + Len(p.topic) + p.payloadlen + (IF p.qos > 0 THEN 2 ELSE 0)

\* Mutant: the requested QoS is left out.
LengthWithoutQoS(p) == 2 + MQTTstrlen(p.topics)

MQTTSerialize_subscribeLength(p) == 2 + MQTTstrlen(p.topics) + Len(p.topics)

MQTTSerialize_unsubscribeLength(p) == 2 + MQTTstrlen(p.topics)

\* The remaining length.
Length(p) ==
    CASE p.type = CONNECT -> MQTTSerialize_connectLength(p)
      [] p.type = PUBLISH -> MQTTSerialize_publishLength(p)
      [] p.type = SUBSCRIBE -> MQTTSerialize_subscribeLength(p)
      [] p.type = UNSUBSCRIBE -> MQTTSerialize_unsubscribeLength(p)
      [] p.type = SUBACK -> 2 + Len(p.codes)
      [] p.type \in Acks \cup {UNSUBACK, CONNACK} -> 2
      [] OTHER -> 0

\* What the serializers write behind the remaining length.
MQTTSerialize_connect(p) ==
    writeMQTTString(Protocol(p.version)) \o <<p.version, ConnectFlags(p)>>
        \o writeInt(p.keepAliveInterval) \o Strings(ConnectStrings(p))

MQTTSerialize_connack(p) == <<Flag(p.sessionPresent), p.code>>

MQTTSerialize_publish(p) ==    \* without the payload
    writeMQTTString(p.topic) \o (IF p.qos > 0 THEN writeInt(p.id) ELSE << >>)

MQTTSerialize_ack(p) == writeInt(p.id)

MQTTSerialize_subscribe(p) ==
    writeInt(p.id)
        \o FlattenSeq([k \in DOMAIN p.topics |-> writeMQTTString(p.topics[k]) \o <<p.codes[k]>>])

MQTTSerialize_suback(p) == writeInt(p.id) \o p.codes

MQTTSerialize_unsubscribe(p) == writeInt(p.id) \o Strings(p.topics)

MQTTSerialize_unsuback(p) == writeInt(p.id)

MQTTSerialize_zero(p) == << >>

Body(p) ==
    CASE p.type = CONNECT -> MQTTSerialize_connect(p)
      [] p.type = CONNACK -> MQTTSerialize_connack(p)
      [] p.type = PUBLISH -> MQTTSerialize_publish(p)
      [] p.type \in Acks -> MQTTSerialize_ack(p)
      [] p.type = SUBSCRIBE -> MQTTSerialize_subscribe(p)
      [] p.type = SUBACK -> MQTTSerialize_suback(p)
      [] p.type = UNSUBSCRIBE -> MQTTSerialize_unsubscribe(p)
      [] p.type = UNSUBACK -> MQTTSerialize_unsuback(p)
      [] p.type \in NoBody -> MQTTSerialize_zero(p)

\* The size a serializer asks of its buffer.  The answers of the server are tested
\* against less than they write; a PUBLISH whose payload goes by itself, not at all.
Needs(p) ==
    CASE p.type \in {CONNECT, SUBSCRIBE, UNSUBSCRIBE} -> MQTTPacket_len(Length(p))
      [] p.type \in Acks -> 4
      [] p.type = SUBACK -> 2 + Len(p.codes)
      [] p.type \in {CONNACK, UNSUBACK} \cup NoBody -> 2
      [] OTHER -> 0

-------------------------------------------------------------------------------
(* Reading: the bytes, the position and the end, which the remaining length  *)
(* gives.                                                                    *)

At(bytes, i) == IF i <= Len(bytes) THEN bytes[i] ELSE 0
readInt(bytes, i) == 256 * At(bytes, i) + At(bytes, i + 1)

Reader(bytes, at, end, got) ==
    [bytes |-> bytes, at |-> at, end |-> end, ok |-> TRUE, got |-> got]
Lost(r) == [r EXCEPT !.ok = FALSE]

\* Mutant: the last byte of a string may not be the last one of the packet.
ReadWithin(r, least) ==
    LET n == readInt(r.bytes, r.at)
    IN  IF r.ok /\ r.end - r.at >= least /\ r.at + 2 + n < r.end
        THEN Reader(r.bytes, r.at + 2 + n, r.end,
                    Append(r.got, SubSeq(r.bytes, r.at + 2, r.at + 1 + n)))
        ELSE Lost(r)

\* readMQTTLenString, where at least so many bytes must be left.
readMQTTLenString(r, least) ==
    LET n == readInt(r.bytes, r.at)
    IN  IF r.ok /\ r.end - r.at >= least /\ r.at + 2 + n <= r.end
        THEN Reader(r.bytes, r.at + 2 + n, r.end,
                    Append(r.got, SubSeq(r.bytes, r.at + 2, r.at + 1 + n)))
        ELSE Lost(r)

\* The bit of n that is worth w.
Bit(n, w) == (n \div w) % 2

\* A string that is there if a flag says so.
Announced(r, flag, least) == IF flag THEN readMQTTLenString(r, least) ELSE r

\* memcmp over what the name has: a beginning of the name, and one that goes on behind
\* it, pass for it.
MQTTPacket_checkVersion(name, version) ==
    /\ version \in {3, 4}
    /\ LET protocol == Protocol(version)
       IN  \/ Len(name) >= Len(protocol) /\ SubSeq(name, 1, Len(protocol)) = protocol
           \/ Len(name) <= Len(protocol) /\ SubSeq(protocol, 1, Len(name)) = name

MQTTDeserialize_connect(bytes, end) ==
    LET p == readMQTTLenString(Reader(bytes, 1, end, << >>), 2)
        version == At(bytes, p.at)
        flags == At(bytes, p.at + 1)
        will == Bit(flags, 4) = 1
        username == Bit(flags, 128) = 1
        password == Bit(flags, 64) = 1
        client == readMQTTLenString(Reader(bytes, p.at + 4, end, << >>), 2)
        wills == Announced(Announced(client, will, 2), will, 2)
        user == Announced(wills, username, 3)
        r == Announced(user, username /\ password, 3)
    IN  IF /\ p.ok /\ MQTTPacket_checkVersion(p.got[1], version)
           /\ r.ok /\ (password => username)
        THEN Read([type |-> CONNECT, version |-> version, cleansession |-> Bit(flags, 2) = 1,
                   keepAliveInterval |-> readInt(bytes, p.at + 2),
                   clientID |-> r.got[1],
                   will |-> SubSeq(wills.got, 2, Len(wills.got)),
                   willQoS |-> IF will THEN (flags \div 8) % 4 ELSE 0,
                   willRetained |-> will /\ Bit(flags, 32) = 1,
                   username |-> SubSeq(user.got, Len(wills.got) + 1, Len(user.got)),
                   password |-> SubSeq(r.got, Len(user.got) + 1, Len(r.got))])
        ELSE Refused(0)

\* All deserializers but that of CONNECT keep the number of length bytes in rc: a
\* packet that is too short for its content is refused with that number, and 1 is
\* success.
Short == FieldLength(value)

MQTTDeserialize_publish(header, bytes, end) ==
    LET r == readMQTTLenString(Reader(bytes, 1, end, << >>), 2)
        qos == (header \div 2) % 4
        behind == IF qos > 0 THEN r.at + 2 ELSE r.at
    IN  IF ~r.ok THEN Refused(Short)
        ELSE Read([type |-> PUBLISH, dup |-> Bit(header, 8) = 1, qos |-> qos,
                   retained |-> Bit(header, 1) = 1, topic |-> r.got[1],
                   id |-> IF qos > 0 THEN readInt(bytes, r.at) ELSE 0,
                   payloadlen |-> end - behind])

MQTTDeserialize_ack(header, bytes, end) ==
    IF end - 1 < 2 THEN Refused(Short)
    ELSE Read([type |-> header \div 16, dup |-> Bit(header, 8) = 1, id |-> readInt(bytes, 1)])

MQTTDeserialize_unsuback(header, bytes, end) ==   \* 1 whatever the acknowledgement said
    IF end - 1 < 2 THEN Refused(1) ELSE Read([type |-> UNSUBACK, id |-> readInt(bytes, 1)])

MQTTDeserialize_connack(bytes, end) ==
    IF end - 1 < 2 THEN Refused(Short)
    ELSE Read([type |-> CONNACK, sessionPresent |-> Bit(At(bytes, 1), 1) = 1,
               code |-> At(bytes, 2)])

\* *count > maxcount: one code more than there is room for is read, and written behind
\* the array.
MQTTDeserialize_suback(bytes, end) ==
    IF end - 1 < 2 THEN Refused(Short)
    ELSE IF end - 3 > MaxCount + 1 THEN Refused(-1)
    ELSE Read([type |-> SUBACK, id |-> readInt(bytes, 1), codes |-> SubSeq(bytes, 3, end - 1)])

\* The loops of the server: a string, and with SUBSCRIBE its QoS, until the end.
ReadTopic(r, each) ==
    IF r.at >= r.end \/ ~r.ok THEN r
    ELSE LET s == readMQTTLenString(r, 2)
         IN  IF s.ok /\ s.at + each <= s.end
             THEN Reader(s.bytes, s.at + each, s.end, s.got)
             ELSE Lost(s)

ReadTopics(bytes, end, each) ==
    LET after[k \in 0..end] ==
            IF k = 0 THEN Reader(bytes, 3, end, << >>) ELSE ReadTopic(after[k - 1], each)
    IN  after[end]

\* The QoS of a topic is behind it.
CodesBehind(bytes, topics) ==
    [k \in DOMAIN topics |-> At(bytes, 2 + Sizes(topics)[k] + k)]

MQTTDeserialize_subscribe(header, bytes, end) ==
    LET r == ReadTopics(bytes, end, 1)
    IN  IF ~r.ok THEN Refused(Short)
        ELSE Read([type |-> SUBSCRIBE, dup |-> Bit(header, 8) = 1, id |-> readInt(bytes, 1),
                   topics |-> r.got, codes |-> CodesBehind(bytes, r.got)])

MQTTDeserialize_unsubscribe(header, bytes, end) ==
    LET r == ReadTopics(bytes, end, 0)
    IN  IF ~r.ok THEN Refused(Short)
        ELSE Read([type |-> UNSUBSCRIBE, dup |-> Bit(header, 8) = 1, id |-> readInt(bytes, 1),
                   topics |-> r.got])

Deserialize(header, bytes, end) ==
    LET type == header \div 16
    IN  CASE type = CONNECT -> MQTTDeserialize_connect(bytes, end)
          [] type = CONNACK -> MQTTDeserialize_connack(bytes, end)
          [] type = PUBLISH -> MQTTDeserialize_publish(header, bytes, end)
          [] type \in Acks -> MQTTDeserialize_ack(header, bytes, end)
          [] type = SUBSCRIBE -> MQTTDeserialize_subscribe(header, bytes, end)
          [] type = SUBACK -> MQTTDeserialize_suback(bytes, end)
          [] type = UNSUBSCRIBE -> MQTTDeserialize_unsubscribe(header, bytes, end)
          [] type = UNSUBACK -> MQTTDeserialize_unsuback(header, bytes, end)
          [] OTHER -> Read([type |-> type])

-------------------------------------------------------------------------------
\* What a serializer writes into the buffer: all but the payload sent by itself.
Written(p) == 1 + Len(buf) + Len(Body(p))

PacketInit ==
    /\ packet \in Packets
    /\ \E d \in Margins : buflen = 2 + Length(packet) + d /\ buflen >= 0
    /\ cut = FALSE /\ read = NotRead
    /\ rem_len = Length(packet)
    /\ Init

Fits == Needs(packet) <= buflen

Refuse == \* MQTTPACKET_BUFFER_TOO_SHORT, and nothing is written
    /\ phase = "encode" /\ read = NotRead /\ ~Fits
    /\ read' = BufferTooShort
    /\ UNCHANGED <<vars, packet, buflen, cut>>

WriteLength == Fits /\ Encode /\ UNCHANGED ownVars

ReadLength == read = NotRead /\ Decode /\ UNCHANGED ownVars

ReadWhole ==
    /\ phase = "done" /\ read = NotRead
    /\ read' = Deserialize(HeaderByte(packet), Body(packet) \o Stale, value + 1)
    /\ UNCHANGED <<vars, packet, buflen, cut>>

\* decodePacket gives up: readPacket returns the type with the digits there are, and
\* the buffer holds what an earlier packet left behind.
ReadCut ==
    /\ phase = "decode" /\ read = NotRead
    /\ cut' = TRUE
    /\ read' = Deserialize(HeaderByte(packet), Stale, value + 1)
    /\ UNCHANGED <<vars, packet, buflen>>

PacketNext == Refuse \/ WriteLength \/ ReadLength \/ ReadWhole \/ ReadCut

PacketSpec == PacketInit /\ [][PacketNext]_allVars

-------------------------------------------------------------------------------
(* What is written is read: every field of every packet, and the length of   *)
(* the payload that follows, whatever the buffer holds behind it; and no     *)
(* length is taken for bad data.  The server refuses the CONNECT whose       *)
(* credentials it says are not supplied: an empty password, a password       *)
(* without a user name, or an empty user name with nothing behind it.  The   *)
(* client refuses the SUBACK with more codes than one beyond its room.       *)
NotSupplied(p) ==
    /\ p.type = CONNECT
    /\ \/ p.password = <<<< >>>>
       \/ p.password # << >> /\ p.username = << >>
       \/ p.password = << >> /\ p.username = <<<< >>>>

TooMany(p) == p.type = SUBACK /\ Len(p.codes) > MaxCount + 1

Outcome(p) ==
    IF NotSupplied(p) THEN Refused(0) ELSE IF TooMany(p) THEN Refused(-1) ELSE Read(p)

WrittenIsRead ==
    /\ phase # "bad"
    /\ phase = "done" /\ read # NotRead => read = Outcome(packet)

(* What the client writes stays in its buffer, whatever length of packet and *)
(* buffer meet; a PUBLISH stays in a buffer that would hold its payload too. *)
StaysInBuffer ==
    phase = "decode" /\ packet.type \notin {CONNACK, SUBACK, UNSUBACK}
        /\ (packet.type = PUBLISH => buflen >= MQTTPacket_len(rem_len))
    => Written(packet) <= buflen

(* A message goes to the handlers of the filters its topic matches level by  *)
(* level.                                                                    *)
DeliveredByLevels ==
    phase = "done" /\ read.rc = 1 /\ packet.type = PUBLISH =>
        \A f \in TopicFilters : Matches(f, read.as.topic) <=> ByLevels(f, packet.topic)

(* "1 is success": a packet without its end is not taken for a whole one.    *)
(* The code violates this.                                                   *)
CutIsRefused == cut => read.rc # 1 \/ packet.type \in NoBody
===============================================================================
