-------------------------- MODULE RemainingLength --------------------------
(* The remaining length of a packet (paho/MQTTPacket.c): MQTTPacket_encode   *)
(* writes it seven bits to a byte, least significant first, with the top bit *)
(* set on all bytes but the last; decodePacket and MQTTPacket_decode read it *)
(* back, at most four bytes; MQTTPacket_len says how long a packet is.       *)
(* One step is one turn of a loop. The value goes from the encoder to the    *)
(* decoder byte by byte, as from a broker to readPacket.                     *)
EXTENDS Integers, Sequences

CONSTANT Lengths    \* the remaining lengths considered

MaxLength == 268435455      \* four bytes of seven bits: the limit of MQTT

ASSUME LengthsAssumption == \A n \in Lengths : n \in Nat /\ n <= MaxLength

Byte == 0 .. 255

MAX_NO_OF_REMAINING_LENGTH_BYTES == 4

VARIABLES
    phase,      \* "encode", "decode", "done", or "bad" (more than four bytes)
    rem_len,    \* the value to transmit
    length,     \* MQTTPacket_encode: what is left to write
    buf,        \* the bytes written
    len,        \* decodePacket: how many bytes it asked for
    multiplier, \* decodePacket
    value       \* decodePacket: *value

vars == <<phase, rem_len, length, buf, len, multiplier, value>>

Init ==
    /\ phase = "encode"
    /\ rem_len \in Lengths
    /\ length = rem_len
    /\ buf = << >>
    /\ len = 0
    /\ multiplier = 1
    /\ value = 0

\* The byte a turn of MQTTPacket_encode writes: seven bits, and the top bit when
\* there are more digits to encode.
Digit(n) == (n % 128) + (IF n \div 128 > 0 THEN 128 ELSE 0)

Encode ==
    /\ phase = "encode"
    /\ buf' = Append(buf, Digit(length))
    /\ length' = length \div 128
    /\ phase' = IF length' > 0 THEN "encode" ELSE "decode"
    /\ UNCHANGED <<rem_len, len, multiplier, value>>

\* What a byte adds to *value.
Worth(byte, m) == (byte % 128) * m

\* A turn of decodePacket; "bad" is the exit on a fifth byte.
Decode ==
    /\ phase = "decode"
    /\ len' = len + 1
    /\ IF len' > MAX_NO_OF_REMAINING_LENGTH_BYTES
         THEN /\ phase' = "bad"
              /\ UNCHANGED <<value, multiplier>>
         ELSE /\ value' = value + Worth(buf[len'], multiplier)
              /\ multiplier' = multiplier * 128
              /\ phase' = IF buf[len'] \div 128 # 0 THEN "decode" ELSE "done"
    /\ UNCHANGED <<rem_len, length, buf>>

Next == Encode \/ Decode

Spec == Init /\ [][Next]_vars

(* MQTTPacket_len: the length of a packet, from its remaining length. The    *)
(* serializers compare it with the size of their buffer before they write.   *)
FieldLength(n) ==
    CASE n < 128 -> 1
      [] n >= 128 /\ n < 16384 -> 2
      [] n >= 16384 /\ n < 2097151 -> 3
      [] OTHER -> 4

MQTTPacket_len(n) == n + 1 + FieldLength(n + 1)

-----------------------------------------------------------------------------
(* Properties                                                                *)

\* Every byte is one, and the decoder never asks for a byte that was not written.
TypeOK ==
    /\ phase \in {"encode", "decode", "done", "bad"}
    /\ rem_len \in Lengths
    /\ length \in Nat /\ length <= MaxLength
    /\ buf \in Seq(Byte)
    /\ len \in 0 .. MAX_NO_OF_REMAINING_LENGTH_BYTES + 1
    /\ phase = "decode" => len < Len(buf)
    /\ multiplier \in Nat
    /\ value \in Nat

\* What decodePacket returns is what MQTTPacket_encode was given, and it has
\* consumed exactly the bytes that were written: the byte after them is the first
\* one of the body. No length the protocol allows is taken for bad data, as one that
\* is written in more than four bytes would be.
RoundTrip ==
    /\ phase = "done" => value = rem_len /\ len = Len(buf)
    /\ phase # "bad" /\ Len(buf) <= MAX_NO_OF_REMAINING_LENGTH_BYTES

\* A packet that passes the test of MQTTPacket_len fits the buffer: the length is
\* never too short. At the ends of the ranges, where the header byte is counted in
\* the remaining length, it is one too long, and never more.
PacketFits ==
    phase = "decode" =>
        MQTTPacket_len(rem_len) - (1 + Len(buf) + rem_len) \in {0, 1}

=============================================================================
