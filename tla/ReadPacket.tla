----------------------------- MODULE ReadPacket -----------------------------
(* readPacket (paho/MQTTClient.c) over linux_read or tlsSocket_receive: the  *)
(* bytes of the packets arrive one by one, a read takes what is there, and   *)
(* waits for more until its timeout.                                         *)
EXTENDS Integers, Sequences

CONSTANTS
    Base,         \* what a byte of the length counts to: 128
    Sizes,        \* remaining lengths of the packets that are sent
    MaxPackets    \* bound: packets sent over the connection

ASSUME BaseAssumption == Base \in Nat /\ Base > 1

ASSUME SizesAssumption == Sizes \subseteq 0 .. (Base * Base * Base * Base - 1)

MAX_NO_OF_REMAINING_LENGTH_BYTES == 4

VARIABLES
    sent,     \* remaining lengths of the packets, in the order they are sent
    wire,     \* bytes that have not arrived
    buffer,   \* bytes that have arrived and were not read
    closed,   \* the connection has ended: no more bytes will arrive
    pc,       \* what readPacket reads: "header", "length" or "body"
    call,     \* its locals
    result,   \* what it returned last
    stalled   \* history: a timeout came inside a packet

vars == <<sent, wire, buffer, closed, pc, call, result, stalled>>

\* A byte is known by the packet it belongs to and what it is there; a byte of the
\* length also by its digit and its top bit.
HeaderByte(k) == [kind |-> "header", of |-> k]
BodyByte(k) == [kind |-> "body", of |-> k]
LengthByte(k, digit, more) == [kind |-> "length", of |-> k, digit |-> digit, more |-> more]

LengthBytes(k, size) ==
    LET Encode[n \in 0 .. size] ==
          IF n < Base THEN <<LengthByte(k, n, FALSE)>>
                      ELSE <<LengthByte(k, n % Base, TRUE)>> \o Encode[n \div Base]
    IN  Encode[size]

PacketBytes(k, size) ==
    <<HeaderByte(k)>> \o LengthBytes(k, size) \o [i \in 1 .. size |-> BodyByte(k)]

AllBytes(sizes) ==
    LET From[k \in 1 .. Len(sizes) + 1] ==
          IF k > Len(sizes) THEN << >> ELSE PacketBytes(k, sizes[k]) \o From[k + 1]
    IN  From[1]

NoCall == [header |-> HeaderByte(0), len |-> 0, multiplier |-> 1, rem_len |-> 0, bytes |-> 0]

Init ==
    /\ \E n \in 0 .. MaxPackets : sent \in [1 .. n -> Sizes]
    /\ wire = AllBytes(sent)
    /\ buffer = << >>
    /\ closed = FALSE
    /\ pc = "header"
    /\ call = NoCall
    /\ result = [code |-> "none"]
    /\ stalled = FALSE

-----------------------------------------------------------------------------
(* The network                                                               *)

Arrive ==
    /\ wire # << >>
    /\ buffer' = Append(buffer, Head(wire))
    /\ wire' = Tail(wire)
    /\ UNCHANGED <<sent, closed, pc, call, result, stalled>>

\* The connection ends: what has not arrived never will.
Close ==
    /\ ~ closed
    /\ closed' = TRUE
    /\ wire' = << >>
    /\ UNCHANGED <<sent, buffer, pc, call, result, stalled>>

-----------------------------------------------------------------------------
(* The reads                                                                 *)

\* A read that waits finds nothing before its timeout.
TimesOut ==
    /\ buffer = << >> /\ ~ closed
    /\ stalled' = (stalled \/ pc # "header")

AtEof ==
    /\ buffer = << >> /\ closed
    /\ UNCHANGED stalled

Returns(what) ==
    /\ pc' = "header"
    /\ call' = NoCall
    /\ result' = what

\* Whether all of the packet is there: its length was decoded to the end, and its
\* body was read.
IsWhole(c) ==
    c.header.kind = "header" /\ c.rem_len = sent[c.header.of] /\ c.bytes = c.rem_len

Packet(c) ==
    [code |-> "packet", of |-> IF c.header.kind = "header" THEN c.header.of ELSE 0,
     whole |-> IsWhole(c)]

\* 1. The header byte.
ReadHeader ==
    /\ pc = "header"
    /\ buffer # << >>
    /\ call' = [NoCall EXCEPT !.header = Head(buffer)]
    /\ buffer' = Tail(buffer)
    /\ pc' = "length"
    /\ UNCHANGED <<sent, wire, closed, result, stalled>>

HeaderTimesOut ==
    /\ pc = "header"
    /\ TimesOut
    /\ Returns([code |-> "failure"])
    /\ UNCHANGED <<sent, wire, buffer, closed>>

\* Mutant: the end of the connection is a read that failed.
HeaderEofIsFailure ==
    /\ pc = "header"
    /\ AtEof
    /\ Returns([code |-> "failure"])
    /\ UNCHANGED <<sent, wire, buffer, closed>>

HeaderEof ==
    /\ pc = "header"
    /\ AtEof
    /\ Returns([code |-> "eof"])
    /\ UNCHANGED <<sent, wire, buffer, closed>>

\* Mutant: what is there of a body is enough.
BodyFollowsUnlessShort(c) == c.rem_len > Len(buffer)

\* 3. is left out when there is no body.
BodyFollows(c) == c.rem_len > 0

AfterLength(c) ==
    IF BodyFollows(c)
    THEN pc' = "body" /\ call' = c /\ UNCHANGED result
    ELSE Returns(Packet(c))

\* Mutant: the digits are taken most significant first.
WithDigitReversed(c, digit) ==
    [c EXCEPT !.len = @ + 1, !.rem_len = @ * Base + digit, !.multiplier = @ * Base]

WithDigit(c, digit) ==
    [c EXCEPT !.len = @ + 1, !.rem_len = @ + digit * c.multiplier, !.multiplier = @ * Base]

\* What a byte says as a byte of the length: anything, when it is another one.
Digits(b) == IF b.kind = "length" THEN {b.digit} ELSE 0 .. Base - 1
TopBits(b) == IF b.kind = "length" THEN {b.more} ELSE BOOLEAN

MayReadDigit(c) == c.len < MAX_NO_OF_REMAINING_LENGTH_BYTES

\* 2. A turn of decodePacket with a byte ...
ReadLength ==
    /\ pc = "length"
    /\ MayReadDigit(call)
    /\ buffer # << >>
    /\ buffer' = Tail(buffer)
    /\ \E digit \in Digits(Head(buffer)), more \in TopBits(Head(buffer)) :
         LET c == WithDigit(call, digit) IN
         IF more THEN call' = c /\ UNCHANGED <<pc, result>> ELSE AfterLength(c)
    /\ UNCHANGED <<sent, wire, closed, stalled>>

\* ... with none, or after the fourth byte: readPacket does not look at its result, and
\* goes on with the digits it has.
LengthFails ==
    /\ pc = "length"
    /\ \/ MayReadDigit(call) /\ (TimesOut \/ AtEof)
       \/ ~ MayReadDigit(call) /\ UNCHANGED stalled
    /\ AfterLength(call)
    /\ UNCHANGED <<sent, wire, buffer, closed>>

\* 3. The body: one recv of the loop takes what is there.
ReadBody ==
    /\ pc = "body"
    /\ buffer # << >>
    /\ LET missing == call.rem_len - call.bytes
           n == IF Len(buffer) < missing THEN Len(buffer) ELSE missing
           c == [call EXCEPT !.bytes = @ + n] IN
       /\ buffer' = SubSeq(buffer, n + 1, Len(buffer))
       /\ IF n = missing THEN Returns(Packet(c)) ELSE call' = c /\ UNCHANGED <<pc, result>>
    /\ UNCHANGED <<sent, wire, closed, stalled>>

\* Mutant: a body that is cut short is returned.
WhenBodyFailsReturnsPacket == Packet(call)

WhenBodyFails == [code |-> "failure"]

BodyFails ==
    /\ pc = "body"
    /\ TimesOut \/ AtEof
    /\ Returns(WhenBodyFails)
    /\ UNCHANGED <<sent, wire, buffer, closed>>

Read ==
    \/ ReadHeader \/ HeaderTimesOut \/ HeaderEof
    \/ ReadLength \/ LengthFails
    \/ ReadBody \/ BodyFails

Next == Arrive \/ Close \/ Read

Spec == Init /\ [][Next]_vars

\* The application calls ProcessEvent again and again, and each read of readPacket
\* returns in the end.
FairSpec == Spec /\ WF_vars(Read)

-----------------------------------------------------------------------------
(* Properties                                                                *)

\* The client reads packets where they begin: as long as no timeout came inside a
\* packet, the first byte that readPacket finds is the header of one, whatever was
\* returned, cut off or failed before.
InSync ==
    ~ stalled /\ pc = "header" /\ buffer \o wire # << >>
      => Head(buffer \o wire).kind = "header"

\* A packet without its end reaches the client in one case only: the connection
\* ended inside the length, which readPacket does not look at. One that ended inside
\* the body makes the read fail.
WholeUnlessCutInLength ==
    [][ result' # result /\ result'.code = "packet" /\ ~ stalled'
          => result'.whole \/ (pc = "length" /\ closed /\ buffer = << >>) ]_vars

\* Whatever the connection ends in, a read returns CON_EOF in the end: the code by
\* which the timer of the command line server learns that it has to start over.
EofNoticed == closed ~> result.code = "eof"

\* The comment in readPacket: the first byte is the header byte and has the packet
\* type in it. After a timeout inside a packet it is whatever comes next.
HeaderIsHeader == pc = "length" => call.header.kind = "header"

\* Headers among bytes, as the packets they begin.
PacketsOf(bytes) ==
    LET Upto[i \in 0 .. Len(bytes)] ==
          IF i = 0 THEN << >>
          ELSE IF bytes[i].kind = "header" THEN Append(Upto[i - 1], bytes[i].of) ELSE Upto[i - 1]
    IN  Upto[Len(bytes)]

\* Until a timeout comes inside a packet, readPacket is a stream of whole packets,
\* each step a step of PacketStream or none.
Stream == INSTANCE PacketStream WITH
            unread <- (IF pc = "header" THEN << >> ELSE <<call.header.of>>)
                        \o PacketsOf(buffer \o wire),
            ended <- closed

IsPacketStream == Stream!Init /\ [][stalled' \/ [Stream!Next]_(Stream!vars)]_vars
=============================================================================
