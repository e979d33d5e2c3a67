----------------------- MODULE Packets_proofs -----------------------
(* For every set of lengths up to the limit of the protocol: what is decoded *)
(* is what was encoded, and MQTTPacket_len is never too short.  For every    *)
(* packet the callers pass, every size of buffer, and whatever is behind the *)
(* packet where it is read: it is read as it was written, and the writer     *)
(* stays in its buffer; and a message that was read goes to the handlers of  *)
(* the filters that stand for its topic, level by level.                     *)
(*                                                                           *)
(* The parts: the remaining length; bytes a buffer holds from a position on; *)
(* numbers and strings; the sizes of strings in a row, by recursion; the     *)
(* topics of SUBSCRIBE and UNSUBSCRIBE; every type of packet; CONNECT; the   *)
(* walk of isTopicMatched along the levels of a filter and a topic; and the  *)
(* behaviours.                                                               *)
EXTENDS Packets, SequenceTheorems, WellFoundedInduction, TLAPS

\* The weight of byte i + 1, its seven bits, and the number the first n bytes make.
Weight(i) ==
    IF i = 0 THEN 1 ELSE IF i = 1 THEN 128 ELSE IF i = 2 THEN 16384
    ELSE IF i = 3 THEN 2097152 ELSE 268435456

Bits(s, i) == s[i] % 128

ValueOf(s, n) ==
    IF n = 0 THEN 0
    ELSE IF n = 1 THEN Bits(s, 1) * Weight(0)
    ELSE IF n = 2 THEN Bits(s, 1) * Weight(0) + Bits(s, 2) * Weight(1)
    ELSE IF n = 3 THEN Bits(s, 1) * Weight(0) + Bits(s, 2) * Weight(1) + Bits(s, 3) * Weight(2)
    ELSE Bits(s, 1) * Weight(0) + Bits(s, 2) * Weight(1) + Bits(s, 3) * Weight(2)
           + Bits(s, 4) * Weight(3)

\* The encoder: what is written and what is left make up the value, every byte has
\* its top bit, and something is left.
Encoding ==
    phase = "encode" =>
        /\ Len(buf) \in 0 .. 3
        /\ rem_len = ValueOf(buf, Len(buf)) + length * Weight(Len(buf))
        /\ \A i \in 1 .. Len(buf) : buf[i] >= 128
        /\ Len(buf) > 0 => length > 0
        /\ len = 0 /\ multiplier = 1 /\ value = 0

\* After it: the bytes make up the value, and the last one only has no top bit and,
\* unless it is alone, is not zero.
Encoded ==
    phase \in {"decode", "done"} =>
        /\ Len(buf) \in 1 .. 4
        /\ rem_len = ValueOf(buf, Len(buf))
        /\ \A i \in 1 .. Len(buf) : buf[i] < 128 <=> i = Len(buf)
        /\ Len(buf) > 1 => buf[Len(buf)] > 0

\* The decoder: what it has is what the bytes it read stand for.
Decoding ==
    phase \in {"decode", "done"} =>
        /\ len \in 0 .. Len(buf)
        /\ phase = "decode" => len < Len(buf)
        /\ phase = "done" => len = Len(buf)
        /\ value = ValueOf(buf, len)
        /\ multiplier = Weight(len)

Types ==
    /\ phase \in {"encode", "decode", "done"}
    /\ rem_len \in Lengths
    /\ length \in Nat /\ length <= MaxLength
    /\ buf \in Seq(Byte)

IInv == Types /\ Encoding /\ Encoded /\ Decoding

\* The seven bits and the top bit of a byte.
LEMMA ByteBits ==
    ASSUME NEW x \in Byte
    PROVE  /\ x % 128 \in 0 .. 127
           /\ x < 128 => x % 128 = x
           /\ x \div 128 # 0 <=> x >= 128
  BY SMT DEF Byte

\* One turn of the encoder divides what is left; the byte has the remainder.
LEMMA DigitBits ==
    ASSUME NEW n \in Nat
    PROVE  /\ n \div 128 \in Nat /\ n % 128 \in 0 .. 127
           /\ n = 128 * (n \div 128) + (n % 128)
           /\ Digit(n) \in Byte
           /\ Digit(n) % 128 = n % 128
           /\ Digit(n) < 128 <=> n \div 128 = 0
           /\ n \div 128 = 0 => Digit(n) = n
           /\ n \div 128 <= n
<1>1. /\ n \div 128 \in Nat /\ n % 128 \in 0 .. 127
      /\ n = 128 * (n \div 128) + (n % 128)
      /\ n \div 128 <= n
  BY SMT
<1>2. CASE n \div 128 = 0
  BY <1>1, <1>2, SMT DEF Digit, Byte
<1>3. CASE n \div 128 > 0
  BY <1>1, <1>3, SMT DEF Digit, Byte
<1> QED
  BY <1>1, <1>2, <1>3

\* Each byte weighs 128 times what the one before it does.
LEMMA Weights ==
    /\ Weight(0) = 1
    /\ \A k \in 0 .. 4 : Weight(k) \in Nat
    /\ \A k \in 0 .. 3 : Weight(k + 1) = 128 * Weight(k)
  BY SMT DEF Weight

\* Numbers of digits and weights are natural.
LEMMA Products == ASSUME NEW a \in Nat, NEW b \in Nat PROVE a * b \in Nat
  BY SMT

\* One more byte adds its digit, and bytes with the same digits make the same number.
LEMMA Sums ==
    ASSUME NEW s
    PROVE  /\ ValueOf(s, 0) = 0
           /\ ValueOf(s, 1) = Bits(s, 1) * Weight(0)
           /\ ValueOf(s, 2) = ValueOf(s, 1) + Bits(s, 2) * Weight(1)
           /\ ValueOf(s, 3) = ValueOf(s, 2) + Bits(s, 3) * Weight(2)
           /\ ValueOf(s, 4) = ValueOf(s, 3) + Bits(s, 4) * Weight(3)
  BY DEF ValueOf

\* One more byte adds its digit at its weight.
LEMMA SumNext ==
    ASSUME NEW s, NEW n \in 0 .. 3, \A i \in 1 .. n + 1 : Bits(s, i) \in 0 .. 127
    PROVE  ValueOf(s, n) \in Nat /\ ValueOf(s, n + 1) = ValueOf(s, n) + Bits(s, n + 1) * Weight(n)
<1>1. CASE n = 0
  BY <1>1, Sums, Weights
<1>2. CASE n = 1
  BY <1>2, Sums, Weights
<1>3. CASE n = 2
  <2>1. Bits(s, 1) * Weight(0) \in Nat /\ Bits(s, 2) * Weight(1) \in Nat
    BY <1>3, Weights, Products
  <2> QED
    BY <1>3, <2>1, Sums
<1>4. CASE n = 3
  <2>1. /\ Bits(s, 1) * Weight(0) \in Nat /\ Bits(s, 2) * Weight(1) \in Nat
        /\ Bits(s, 3) * Weight(2) \in Nat
    BY <1>4, Weights, Products
  <2> QED
    BY <1>4, <2>1, Sums
<1> QED
  BY <1>1, <1>2, <1>3, <1>4

\* The number depends on the digits only.
LEMMA SumSame ==
    ASSUME NEW s, NEW t, NEW n \in 0 .. 3, \A i \in 1 .. n : Bits(s, i) = Bits(t, i)
    PROVE  ValueOf(s, n) = ValueOf(t, n)
<1>1. CASE n = 0
  BY <1>1, Sums
<1>2. CASE n = 1
  BY <1>2, Sums
<1>3. CASE n = 2
  BY <1>3, Sums
<1>4. CASE n = 3
  BY <1>4, Sums
<1> QED
  BY <1>1, <1>2, <1>3, <1>4

\* The length of the packet, by the number of bytes that the remaining length takes.
LEMMA PacketLengths ==
    ASSUME NEW n \in Nat
    PROVE  /\ n < Weight(1) => MQTTPacket_len(n) - (1 + 1 + n) \in {0, 1}
           /\ n >= Weight(1) /\ n < Weight(2) => MQTTPacket_len(n) - (1 + 2 + n) \in {0, 1}
           /\ n >= Weight(2) /\ n < Weight(3) => MQTTPacket_len(n) - (1 + 3 + n) \in {0, 1}
           /\ n >= Weight(3) => MQTTPacket_len(n) - (1 + 4 + n) \in {0, 1}
<1>1. n < Weight(1) => MQTTPacket_len(n) - (1 + 1 + n) \in {0, 1}
  BY SMT DEF MQTTPacket_len, FieldLength, Weight
<1>2. n >= Weight(1) /\ n < Weight(2) => MQTTPacket_len(n) - (1 + 2 + n) \in {0, 1}
  BY SMT DEF MQTTPacket_len, FieldLength, Weight
<1>3. n >= Weight(2) /\ n < Weight(3) => MQTTPacket_len(n) - (1 + 3 + n) \in {0, 1}
  BY SMT DEF MQTTPacket_len, FieldLength, Weight
<1>4. n >= Weight(3) => MQTTPacket_len(n) - (1 + 4 + n) \in {0, 1}
  BY SMT DEF MQTTPacket_len, FieldLength, Weight
<1> QED
  BY <1>1, <1>2, <1>3, <1>4

\* What one, two, three and four bytes can stand for when the last one is not zero.
LEMMA OneByte ==
    ASSUME NEW a \in 0 .. 127
    PROVE  a * Weight(0) \in Nat /\ a * Weight(0) < Weight(1)
  BY SMT DEF Weight

\* Two bytes: at least 128, below 16384.
LEMMA TwoBytes ==
    ASSUME NEW a \in 0 .. 127, NEW b \in 1 .. 127
    PROVE  LET n == a * Weight(0) + b * Weight(1) IN n \in Nat /\ n >= Weight(1) /\ n < Weight(2)
  BY SMT DEF Weight

\* Three bytes: at least 16384, below 2097152.
LEMMA ThreeBytes ==
    ASSUME NEW a \in 0 .. 127, NEW b \in 0 .. 127, NEW c \in 1 .. 127
    PROVE  LET n == a * Weight(0) + b * Weight(1) + c * Weight(2)
           IN  n \in Nat /\ n >= Weight(2) /\ n < Weight(3)
  BY SMT DEF Weight

\* Four bytes: at least 2097152.
LEMMA FourBytes ==
    ASSUME NEW a \in 0 .. 127, NEW b \in 0 .. 127, NEW c \in 0 .. 127, NEW d \in 1 .. 127
    PROVE  LET n == a * Weight(0) + b * Weight(1) + c * Weight(2) + d * Weight(3)
           IN  n \in Nat /\ n >= Weight(3)
  BY SMT DEF Weight

\* No byte is written and all of the length is left.
LEMMA InitInv == Init => IInv
<1> SUFFICES ASSUME Init PROVE IInv
  OBVIOUS
<1>1. rem_len \in Nat /\ rem_len <= MaxLength
  BY LengthsAssumption DEF Init
<1>2. phase = "encode" /\ Len(buf) = 0 /\ buf \in Seq(Byte)
  BY EmptySeq DEF Init
<1>3. length = rem_len /\ rem_len \in Lengths /\ len = 0 /\ multiplier = 1 /\ value = 0
  BY DEF Init
<1>4. Types
  BY <1>1, <1>2, <1>3 DEF Types
<1>5. rem_len = ValueOf(buf, 0) + length * Weight(0)
  BY <1>1, <1>3, Sums, Weights
<1>6. Encoding
  BY <1>2, <1>3, <1>5 DEF Encoding
<1> QED
  BY <1>2, <1>4, <1>6 DEF IInv, Encoded, Decoding

\* A turn of the encoder moves one digit from length to the buffer.
LEMMA EncodeStep == IInv /\ Encode => IInv'
<1> SUFFICES ASSUME IInv, Encode PROVE IInv'
  OBVIOUS
<1> DEFINE n == Len(buf)
           q == length \div 128
           r == length % 128
<1>1. /\ phase = "encode"
      /\ rem_len \in Lengths /\ rem_len' = rem_len
      /\ length \in Nat /\ length <= MaxLength
      /\ buf \in Seq(Byte) /\ buf' = Append(buf, Digit(length))
      /\ length' = q
      /\ phase' = IF length' > 0 THEN "encode" ELSE "decode"
      /\ len' = len /\ multiplier' = multiplier /\ value' = value
  BY DEF IInv, Types, Encode
<1>2. /\ n \in 0 .. 3
      /\ rem_len = ValueOf(buf, n) + length * Weight(n)
      /\ \A i \in 1 .. n : buf[i] >= 128
      /\ n > 0 => length > 0
      /\ len = 0 /\ multiplier = 1 /\ value = 0
  BY <1>1 DEF IInv, Encoding
<1>3. /\ q \in Nat /\ r \in 0 .. 127 /\ length = 128 * q + r /\ q <= length
      /\ Digit(length) \in Byte
      /\ Digit(length) % 128 = r
      /\ Digit(length) < 128 <=> q = 0
      /\ q = 0 => Digit(length) = length
  BY <1>1, DigitBits
<1> HIDE DEF q, r
<1>4. /\ buf' \in Seq(Byte)
      /\ Len(buf') = n + 1
      /\ \A i \in 1 .. n : buf'[i] = buf[i]
      /\ buf'[n + 1] = Digit(length)
  BY <1>1, <1>3, AppendProperties
<1>5. /\ \A i \in 1 .. n : buf[i] \in Byte
      /\ \A i \in 1 .. n + 1 : buf'[i] \in Byte
  BY <1>1, <1>4
<1>6. \A i \in 1 .. n + 1 : Bits(buf', i) \in 0 .. 127
  BY <1>5, ByteBits, Zenon DEF Bits
<1>7. /\ \A i \in 1 .. n : Bits(buf, i) = Bits(buf', i)
      /\ Bits(buf', n + 1) = r
  BY <1>3, <1>4, Zenon DEF Bits
<1> HIDE DEF n
<1>8. /\ ValueOf(buf', n) = ValueOf(buf, n) /\ ValueOf(buf, n) \in Nat
      /\ ValueOf(buf', n + 1) = ValueOf(buf, n) + r * Weight(n)
      /\ Weight(n) \in Nat /\ Weight(n + 1) = 128 * Weight(n)
  <2>1. ValueOf(buf', n) = ValueOf(buf, n)
    BY <1>2, <1>7, SumSame
  <2>2. ValueOf(buf', n) \in Nat /\ ValueOf(buf', n + 1) = ValueOf(buf', n) + Bits(buf', n + 1) * Weight(n)
    BY <1>2, <1>6, SumNext
  <2> QED
    BY <1>2, <1>7, <2>1, <2>2, Weights
<1>9. rem_len = ValueOf(buf', n + 1) + q * Weight(n + 1)
  <2>1. \A w \in Nat : (128 * q + r) * w = q * (128 * w) + r * w
    BY <1>3, SMT
  <2>2. length * Weight(n) = q * Weight(n + 1) + r * Weight(n)
    BY <1>3, <1>8, <2>1
  <2>3. q * Weight(n + 1) \in Nat /\ r * Weight(n) \in Nat
    <3>1. q \in Nat /\ r \in Nat /\ Weight(n) \in Nat /\ Weight(n + 1) \in Nat
      BY <1>3, <1>8
    <3> QED
      BY <3>1, Products
  <2> QED
    BY <1>2, <1>8, <2>2, <2>3
<1>10. n = 3 => q = 0
  <2> SUFFICES ASSUME n = 3, q > 0 PROVE FALSE
    BY <1>3
  <2>1. rem_len \in Nat /\ rem_len <= MaxLength
    BY <1>1, LengthsAssumption
  <2>2. length >= 128
    BY <1>1, <1>3
  <2>3. /\ rem_len = ValueOf(buf, n) + length * Weight(3)
        /\ length \in Nat /\ ValueOf(buf, n) \in Nat
    BY <1>1, <1>2, <1>8
  <2>4. \A s, l \in Nat : l >= 128 => ~ (s + l * Weight(3) <= MaxLength)
    BY SMT DEF MaxLength, Weight
  <2> QED
    BY <2>1, <2>2, <2>3, <2>4, Zenon
<1>11. Types'
  <2>1. MaxLength \in Nat
    BY SMT DEF MaxLength
  <2>2. length' \in Nat /\ length' <= MaxLength
    BY <1>1, <1>3, <2>1
  <2>3. phase' \in {"encode", "decode", "done"}
    BY <1>1
  <2> QED
    BY <1>1, <1>4, <2>2, <2>3 DEF Types
<1>12. CASE q > 0
  <2>1. phase' = "encode" /\ n + 1 \in 0 .. 3
    BY <1>1, <1>2, <1>10, <1>12
  <2>2. \A i \in 1 .. n + 1 : buf'[i] >= 128
    <3>1. Digit(length) >= 128
      BY <1>3, <1>12 DEF Byte
    <3> QED
      BY <1>2, <1>4, <3>1
  <2>3. Encoding'
    BY <1>1, <1>2, <1>4, <1>9, <1>12, <2>1, <2>2 DEF Encoding
  <2> QED
    BY <1>11, <2>1, <2>3 DEF IInv, Encoded, Decoding
<1>13. CASE q = 0
  <2>1. /\ phase' = "decode" /\ n + 1 \in 1 .. 4
        /\ Digit(length) < 128 /\ Digit(length) = length
    BY <1>1, <1>2, <1>3, <1>13
  <2>2. \A i \in 1 .. n + 1 : buf'[i] < 128 <=> i = n + 1
    <3>1. \A i \in 1 .. n : buf'[i] \in Byte /\ buf'[i] >= 128
      BY <1>2, <1>4, <1>5
    <3>2. \A i \in 1 .. n : ~ (buf'[i] < 128)
      BY <3>1 DEF Byte
    <3> QED
      BY <1>2, <1>4, <2>1, <3>2
  <2>3. n + 1 > 1 => buf'[n + 1] > 0
    BY <1>2, <1>4, <2>1
  <2>4. rem_len = ValueOf(buf', n + 1)
    <3>1. r * Weight(n) \in Nat /\ Weight(n + 1) \in Nat
      <4>1. r \in Nat /\ Weight(n) \in Nat
        BY <1>3, <1>8
      <4> QED
        BY <4>1, <1>8, Products
    <3> QED
      BY <1>8, <1>9, <1>13, <3>1
  <2>5. Encoded'
    BY <1>1, <1>4, <2>1, <2>2, <2>3, <2>4 DEF Encoded
  <2>6. Decoding'
    <3>1. ValueOf(buf', 0) = 0 /\ Weight(0) = 1
      BY Sums, Weights
    <3> QED
      BY <1>1, <1>2, <1>4, <2>1, <3>1 DEF Decoding
  <2> QED
    BY <1>11, <2>1, <2>5, <2>6 DEF IInv, Encoding
<1> QED
  BY <1>3, <1>12, <1>13

\* A turn of the decoder adds one digit, and stops at the last byte.
LEMMA DecodeStep == IInv /\ Decode => IInv'
<1> SUFFICES ASSUME IInv, Decode PROVE IInv'
  OBVIOUS
<1>1. /\ phase = "decode" /\ len' = len + 1
      /\ buf' = buf /\ rem_len' = rem_len /\ length' = length
      /\ Len(buf) \in 1 .. 4 /\ len \in 0 .. 3 /\ len < Len(buf)
      /\ buf \in Seq(Byte)
      /\ value = ValueOf(buf, len) /\ multiplier = Weight(len)
      /\ \A i \in 1 .. Len(buf) : buf[i] < 128 <=> i = Len(buf)
  BY DEF IInv, Types, Encoded, Decoding, Decode
<1>2. /\ value' = value + Worth(buf[len + 1], multiplier)
      /\ multiplier' = multiplier * 128
      /\ phase' = IF buf[len + 1] \div 128 # 0 THEN "decode" ELSE "done"
  BY <1>1 DEF Decode, MAX_NO_OF_REMAINING_LENGTH_BYTES
<1>3. len + 1 \in 1 .. Len(buf) /\ \A i \in 1 .. Len(buf) : buf[i] \in Byte
  BY <1>1
<1>4. \A i \in 1 .. Len(buf) : Bits(buf, i) \in 0 .. 127
  BY <1>3, ByteBits, Zenon DEF Bits
<1>5. buf[len + 1] \div 128 # 0 <=> len + 1 # Len(buf)
  <2>1. buf[len + 1] \div 128 # 0 <=> buf[len + 1] >= 128
    BY <1>3, ByteBits
  <2>2. buf[len + 1] < 128 <=> len + 1 = Len(buf)
    BY <1>1, <1>3
  <2>3. buf[len + 1] >= 128 <=> ~ (buf[len + 1] < 128)
    <3>1. \A x \in Byte : x >= 128 <=> ~ (x < 128)
      BY DEF Byte
    <3> QED
      BY <1>3, <3>1, Zenon
  <2> QED
    BY <2>1, <2>2, <2>3
<1>6. multiplier' = Weight(len + 1)
  <2>1. Weight(len) \in Nat /\ Weight(len + 1) = 128 * Weight(len)
    <3>1. len \in 0 .. 3 /\ len \in 0 .. 4
      BY <1>1
    <3> QED
      BY <3>1, Weights
  <2> QED
    BY <1>1, <1>2, <2>1
<1>7. value' = ValueOf(buf, len + 1)
  <2>1. value' = ValueOf(buf, len) + Bits(buf, len + 1) * Weight(len)
    BY <1>1, <1>2, Zenon DEF Worth, Bits
  <2>2. \A i \in 1 .. len + 1 : Bits(buf, i) \in 0 .. 127
    <3>1. \A i \in 1 .. len + 1 : i \in 1 .. Len(buf)
      BY <1>1
    <3> QED
      BY <1>4, <3>1, Zenon
  <2> QED
    BY <1>1, <2>1, <2>2, SumNext
<1>8. phase' \in {"decode", "done"}
  BY <1>2
<1>9. Types' /\ Encoding'
  BY <1>1, <1>8 DEF IInv, Types, Encoding
<1>10. Encoded'
  BY <1>1 DEF IInv, Encoded
<1>11. Decoding'
  BY <1>1, <1>2, <1>3, <1>5, <1>6, <1>7 DEF Decoding
<1> QED
  BY <1>9, <1>10, <1>11 DEF IInv

\* The steps of the packets that leave the length alone keep its invariant.
LEMMA IInvStays == IInv /\ UNCHANGED vars => IInv'
  BY DEF IInv, Types, Encoding, Encoded, Decoding, vars

\* The invariant holds in every reachable state.
LEMMA Invariance == Spec => []IInv
<1>1. IInv /\ [Next]_vars => IInv'
  BY IInvStays, EncodeStep, DecodeStep DEF Next
<1> QED
  BY <1>1, InitInv, PTL DEF Spec

-----------------------------------------------------------------------------

\* Every byte is one, and the decoder asks only for bytes that were written.
THEOREM TypeCorrect == Spec => []TypeOK
<1>1. IInv => TypeOK
  <2> SUFFICES ASSUME IInv PROVE TypeOK
    OBVIOUS
  <2>1. CASE phase = "encode"
    BY <2>1 DEF IInv, Types, Encoding, TypeOK, MAX_NO_OF_REMAINING_LENGTH_BYTES
  <2>2. CASE phase \in {"decode", "done"}
    <3>1. /\ len \in 0 .. 4 /\ len <= Len(buf) /\ multiplier = Weight(len)
          /\ Len(buf) \in 1 .. 4 /\ buf \in Seq(Byte) /\ value = ValueOf(buf, len)
      BY <2>2 DEF IInv, Types, Encoded, Decoding
    <3>2. \A i \in 1 .. Len(buf) : buf[i] \in Byte
      BY <3>1
    <3>3. \A i \in 1 .. Len(buf) : Bits(buf, i) \in 0 .. 127
      BY <3>2, ByteBits, Zenon DEF Bits
    <3>4. \A i \in 1 .. len : Bits(buf, i) \in 0 .. 127
      <4>1. \A i \in 1 .. len : i \in 1 .. Len(buf)
        BY <3>1
      <4> QED
        BY <3>3, <4>1, Zenon
    <3>5. value \in Nat
      <4>1. CASE len = 0
        BY <3>1, <4>1, Sums
      <4>2. CASE len > 0
        <5>1. len - 1 \in 0 .. 3 /\ (len - 1) + 1 = len
          BY <3>1, <4>2
        <5>2. /\ ValueOf(buf, len - 1) \in Nat
              /\ ValueOf(buf, len) = ValueOf(buf, len - 1) + Bits(buf, len) * Weight(len - 1)
          BY <3>4, <5>1, SumNext
        <5>3. len \in 1 .. len
          BY <3>1, <4>2
        <5>4. Bits(buf, len) \in 0 .. 127
          BY <3>4, <5>3, Zenon
        <5>5. Bits(buf, len) * Weight(len - 1) \in Nat
          BY <5>1, <5>4, Weights, Products
        <5> QED
          BY <3>1, <5>2, <5>5
      <4> QED
        BY <3>1, <4>1, <4>2
    <3>6. multiplier \in Nat
      BY <3>1, Weights
    <3> QED
      BY <2>2, <3>1, <3>5, <3>6 DEF IInv, Types, Decoding, TypeOK, MAX_NO_OF_REMAINING_LENGTH_BYTES
  <2> QED
    BY <2>1, <2>2 DEF IInv, Types
<1> QED
  BY <1>1, Invariance, PTL

\* What decodePacket returns is what MQTTPacket_encode was given, for every length of
\* the protocol, it consumed the bytes that were written, and it never gives up.
THEOREM DecodesWhatWasEncoded == Spec => []RoundTrip
<1>1. IInv => RoundTrip
  <2>1. IInv => (phase = "done" => value = rem_len /\ len = Len(buf))
    BY DEF IInv, Encoded, Decoding
  <2>2. IInv => phase # "bad" /\ Len(buf) <= MAX_NO_OF_REMAINING_LENGTH_BYTES
    BY DEF IInv, Types, Encoding, Encoded, MAX_NO_OF_REMAINING_LENGTH_BYTES
  <2> QED
    BY <2>1, <2>2 DEF RoundTrip
<1> QED
  BY <1>1, Invariance, PTL

\* The length MQTTPacket_len returns is that of the packet, or one more.
LEMMA PacketLengthSuffices == IInv => PacketFits
<1> SUFFICES ASSUME IInv, phase = "decode"
             PROVE MQTTPacket_len(rem_len) - (1 + Len(buf) + rem_len) \in {0, 1}
  BY DEF PacketFits
<1>1. /\ Len(buf) \in 1 .. 4 /\ rem_len = ValueOf(buf, Len(buf)) /\ buf \in Seq(Byte)
      /\ buf[Len(buf)] < 128 /\ (Len(buf) > 1 => buf[Len(buf)] > 0)
  <2>1. buf \in Seq(Byte)
    BY DEF IInv, Types
  <2>2. /\ Len(buf) \in 1 .. 4 /\ rem_len = ValueOf(buf, Len(buf))
        /\ \A i \in 1 .. Len(buf) : buf[i] < 128 <=> i = Len(buf)
        /\ Len(buf) > 1 => buf[Len(buf)] > 0
    BY DEF IInv, Encoded
  <2>3. Len(buf) \in 1 .. Len(buf)
    BY <2>2
  <2>4. buf[Len(buf)] < 128
    BY <2>2, <2>3, Zenon
  <2> QED
    BY <2>1, <2>2, <2>4, Zenon
<1>2. \A i \in 1 .. Len(buf) : buf[i] \in Byte
  BY <1>1
<1>3. \A i \in 1 .. Len(buf) : Bits(buf, i) \in 0 .. 127
  BY <1>2, ByteBits, Zenon DEF Bits
<1>4. Len(buf) \in 1 .. Len(buf)
  BY <1>1
<1>5. Bits(buf, Len(buf)) = buf[Len(buf)] /\ Bits(buf, Len(buf)) \in 0 .. 127
  <2>1. buf[Len(buf)] \in Byte
    BY <1>2, <1>4, Zenon
  <2> QED
    BY <1>1, <2>1, ByteBits, Zenon DEF Bits
<1>6. Len(buf) > 1 => Bits(buf, Len(buf)) \in 1 .. 127
  BY <1>1, <1>5
<1>7. CASE Len(buf) = 1
  <2>1. rem_len = Bits(buf, 1) * Weight(0) /\ Bits(buf, 1) \in 0 .. 127
    BY <1>1, <1>3, <1>7, Sums
  <2>2. rem_len \in Nat /\ rem_len < Weight(1)
    BY <2>1, OneByte
  <2>3. MQTTPacket_len(rem_len) - (1 + 1 + rem_len) \in {0, 1}
    BY <2>2, PacketLengths
  <2> QED
    BY <1>7, <2>3
<1>8. CASE Len(buf) = 2
  <2>1. /\ rem_len = Bits(buf, 1) * Weight(0) + Bits(buf, 2) * Weight(1)
        /\ Bits(buf, 1) \in 0 .. 127 /\ Bits(buf, 2) \in 1 .. 127
    BY <1>1, <1>3, <1>6, <1>8, Sums
  <2>2. rem_len \in Nat /\ rem_len >= Weight(1) /\ rem_len < Weight(2)
    BY <2>1, TwoBytes
  <2>3. MQTTPacket_len(rem_len) - (1 + 2 + rem_len) \in {0, 1}
    BY <2>2, PacketLengths
  <2> QED
    BY <1>8, <2>3
<1>9. CASE Len(buf) = 3
  <2>1. /\ rem_len = Bits(buf, 1) * Weight(0) + Bits(buf, 2) * Weight(1) + Bits(buf, 3) * Weight(2)
        /\ Bits(buf, 1) \in 0 .. 127 /\ Bits(buf, 2) \in 0 .. 127 /\ Bits(buf, 3) \in 1 .. 127
    BY <1>1, <1>3, <1>6, <1>9, Sums
  <2>2. rem_len \in Nat /\ rem_len >= Weight(2) /\ rem_len < Weight(3)
    BY <2>1, ThreeBytes
  <2>3. MQTTPacket_len(rem_len) - (1 + 3 + rem_len) \in {0, 1}
    BY <2>2, PacketLengths
  <2> QED
    BY <1>9, <2>3
<1>10. CASE Len(buf) = 4
  <2>1. /\ rem_len = Bits(buf, 1) * Weight(0) + Bits(buf, 2) * Weight(1)
                        + Bits(buf, 3) * Weight(2) + Bits(buf, 4) * Weight(3)
        /\ Bits(buf, 1) \in 0 .. 127 /\ Bits(buf, 2) \in 0 .. 127
        /\ Bits(buf, 3) \in 0 .. 127 /\ Bits(buf, 4) \in 1 .. 127
    BY <1>1, <1>3, <1>6, <1>10, Sums
  <2>2. rem_len \in Nat /\ rem_len >= Weight(3)
    BY <2>1, FourBytes
  <2>3. MQTTPacket_len(rem_len) - (1 + 4 + rem_len) \in {0, 1}
    BY <2>2, PacketLengths
  <2> QED
    BY <1>10, <2>3
<1> QED
  BY <1>1, <1>7, <1>8, <1>9, <1>10

\* The length MQTTPacket_len returns is that of the packet, or one more.
THEOREM LengthSuffices == Spec => []PacketFits
  BY PacketLengthSuffices, Invariance, PTL


\* A set of numbers that is not empty has a least member; with it, induction over sets.
LEMMA LeastMember ==
    ASSUME NEW S, S \subseteq Nat, S # {}
    PROVE  \E n \in S : \A m \in S : ~ (m < n)
<1>1. PICK n \in S : \A m \in S : ~ (<<m, n>> \in OpToRel(<, Nat))
  BY NatLessThanWellFounded, WFMin
<1> QED
  BY <1>1 DEF OpToRel

\* A set that has zero and is closed under successor has every number.
LEMMA Induction ==
    ASSUME NEW S, 0 \in S, \A n \in Nat : n \in S => n + 1 \in S
    PROVE  \A n \in Nat : n \in S
<1> SUFFICES ASSUME Nat \ S # {} PROVE FALSE
  OBVIOUS
<1>1. PICK n \in Nat \ S : \A m \in Nat \ S : ~ (m < n)
  BY LeastMember
<1>2. n # 0 /\ n - 1 \in Nat /\ n - 1 < n
  BY <1>1
<1>3. n - 1 \in S
  BY <1>1, <1>2
<1>4. (n - 1) + 1 \in S
  BY <1>2, <1>3
<1> QED
  BY <1>1, <1>4

-----------------------------------------------------------------------------
(* Bytes in a buffer: s is what b holds from i on.                           *)

Holds(b, i, s) ==
    /\ i + Len(s) - 1 <= Len(b)
    /\ \A j \in 1..Len(s) : b[i + j - 1] = s[j]

\* Any bytes.
Bytes == Seq(Byte)

\* What is behind the other: length and bytes.
LEMMA Joined ==
    ASSUME NEW s \in Bytes, NEW t \in Bytes
    PROVE  /\ s \o t \in Bytes
           /\ Len(s \o t) = Len(s) + Len(t)
           /\ \A j \in 1..Len(s) : (s \o t)[j] = s[j]
           /\ \A j \in 1..Len(t) : (s \o t)[Len(s) + j] = t[j]
BY DEF Bytes

\* Two parts, one behind the other, are both there.
LEMMA HoldsBoth ==
    ASSUME NEW s \in Bytes, NEW t \in Bytes
    PROVE  Holds(s \o t, 1, s) /\ Holds(s \o t, Len(s) + 1, t)
<1>1. Len(s) \in Nat /\ Len(t) \in Nat
  BY DEF Bytes
<1>2. \A j \in 1..Len(s) : (s \o t)[1 + j - 1] = s[j]
  <2> SUFFICES ASSUME NEW j \in 1..Len(s) PROVE (s \o t)[1 + j - 1] = s[j]
    OBVIOUS
  <2>1. 1 + j - 1 = j
    BY <1>1
  <2>2. (s \o t)[j] = s[j]
    BY Joined
  <2> QED
    BY <2>1, <2>2, Zenon
<1>3. \A j \in 1..Len(t) : (s \o t)[Len(s) + 1 + j - 1] = t[j]
  <2> SUFFICES ASSUME NEW j \in 1..Len(t) PROVE (s \o t)[Len(s) + 1 + j - 1] = t[j]
    OBVIOUS
  <2>1. Len(s) + 1 + j - 1 = Len(s) + j
    BY <1>1
  <2>2. (s \o t)[Len(s) + j] = t[j]
    BY Joined
  <2> QED
    BY <2>1, <2>2, Zenon
<1>4. 1 + Len(s) - 1 <= Len(s \o t) /\ Len(s) + 1 + Len(t) - 1 <= Len(s \o t)
  BY <1>1, Joined
<1> QED
  BY <1>2, <1>3, <1>4 DEF Holds

\* What is held inside of what is held.
LEMMA HoldsInside ==
    ASSUME NEW b \in Bytes, NEW s \in Bytes, NEW t \in Bytes,
           NEW i \in Nat \ {0}, NEW k \in Nat \ {0},
           Holds(b, i, s), Holds(s, k, t)
    PROVE  Holds(b, i + k - 1, t)
<1>1. Len(s) \in Nat /\ Len(t) \in Nat /\ Len(b) \in Nat
  BY DEF Bytes
<1>2. i + Len(s) - 1 <= Len(b) /\ k + Len(t) - 1 <= Len(s)
  BY DEF Holds
<1>3. (i + k - 1) + Len(t) - 1 <= Len(b)
  BY <1>1, <1>2
<1>4. ASSUME NEW j \in 1..Len(t) PROVE b[(i + k - 1) + j - 1] = t[j]
  <2>1. k + j - 1 \in 1..Len(s) /\ i + (k + j - 1) - 1 = (i + k - 1) + j - 1
    BY <1>1, <1>2
  <2>2. b[i + (k + j - 1) - 1] = s[k + j - 1]
    BY <2>1, Zenon DEF Holds
  <2>3. s[k + j - 1] = t[j]
    BY Zenon DEF Holds
  <2> QED
    BY <2>1, <2>2, <2>3, Zenon
<1> QED
  BY <1>3, <1>4 DEF Holds

\* Two parts one behind the other.
LEMMA HoldsApart ==
    ASSUME NEW b \in Bytes, NEW i \in Nat \ {0}, NEW s \in Bytes, NEW t \in Bytes,
           Holds(b, i, s \o t)
    PROVE  Holds(b, i, s) /\ Holds(b, i + Len(s), t)
<1>1. Len(s) + 1 \in Nat \ {0} /\ i + (Len(s) + 1) - 1 = i + Len(s) /\ i + 1 - 1 = i
  BY DEF Bytes
<1>2. s \o t \in Bytes
  BY Joined
<1>3. Holds(s \o t, 1, s) /\ Holds(s \o t, Len(s) + 1, t)
  BY HoldsBoth
<1>4. Holds(b, i + 1 - 1, s)
  BY <1>2, <1>3, HoldsInside
<1>5. Holds(b, i + (Len(s) + 1) - 1, t)
  BY <1>1, <1>2, <1>3, HoldsInside
<1> QED
  BY <1>1, <1>4, <1>5

\* A body with something behind it is still there.
LEMMA HoldsItself == ASSUME NEW s \in Bytes, NEW t \in Bytes PROVE Holds(s \o t, 1, s)
BY HoldsBoth

-----------------------------------------------------------------------------
(* Numbers and strings.                                                      *)

\* writeInt writes two bytes.
LEMMA IntBytes ==
    ASSUME NEW n \in Nat
    PROVE  writeInt(n) \in Bytes /\ Len(writeInt(n)) = 2
BY DEF writeInt, Bytes, Byte

\* readInt reads what writeInt wrote.
LEMMA IntRead ==
    ASSUME NEW b \in Bytes, NEW i \in Nat \ {0}, NEW n \in Int16, Holds(b, i, writeInt(n))
    PROVE  readInt(b, i) = n
<1>1. n \in Nat /\ n <= 65535
  BY DEF Int16
<1>2. Len(writeInt(n)) = 2 /\ writeInt(n)[1] = (n \div 256) % 256 /\ writeInt(n)[2] = n % 256
  BY DEF writeInt
<1>3. Len(b) \in Nat
  BY DEF Bytes
<1>4. i + 1 <= Len(b) /\ i <= Len(b)
  BY <1>2, <1>3 DEF Holds
<1>5. b[i + 1 - 1] = writeInt(n)[1] /\ b[i + 2 - 1] = writeInt(n)[2]
  BY <1>2 DEF Holds
<1>6. b[i] = (n \div 256) % 256 /\ b[i + 1] = n % 256
  BY <1>2, <1>5
<1>7. 256 * ((n \div 256) % 256) + (n % 256) = n
  BY <1>1
<1> QED
  BY <1>4, <1>6, <1>7 DEF readInt, At

\* A string is its bytes behind two for its length.
LEMMA StringBytes ==
    ASSUME NEW s \in MQTTString
    PROVE  /\ writeMQTTString(s) \in Bytes
           /\ Len(writeMQTTString(s)) = 2 + Len(s)
           /\ s \in Bytes /\ Len(s) \in Int16
<1>1. s \in Bytes
  BY DEF MQTTString, Bytes
<1>2. Len(s) \in Nat
  BY <1>1 DEF Bytes
<1>3. Len(s) \in Int16
  BY DEF MQTTString
<1> DEFINE w == writeInt(Len(s))
<1>4. w \in Bytes /\ Len(w) = 2
  BY <1>2, IntBytes
<1> HIDE DEF w
<1>5. w \o s \in Bytes /\ Len(w \o s) = Len(w) + Len(s)
  BY <1>1, <1>4, Joined
<1> QED
  BY <1>1, <1>3, <1>4, <1>5 DEF writeMQTTString, w

\* The length and the bytes of a string, read back.
LEMMA StringRead ==
    ASSUME NEW b \in Bytes, NEW i \in Nat \ {0}, NEW s \in MQTTString,
           Holds(b, i, writeMQTTString(s))
    PROVE  /\ readInt(b, i) = Len(s)
           /\ i + 1 + Len(s) <= Len(b)
           /\ SubSeq(b, i + 2, i + 1 + Len(s)) = s
<1>1. s \in Bytes /\ Len(s) \in Int16 /\ Len(s) \in Nat
  <2>1. s \in Bytes /\ Len(s) \in Int16
    BY StringBytes
  <2> QED
    BY <2>1 DEF Int16
<1>2. writeInt(Len(s)) \in Bytes /\ Len(writeInt(Len(s))) = 2
  BY <1>1, IntBytes
<1>3. Holds(b, i, writeInt(Len(s)) \o s)
  BY DEF writeMQTTString
<1>4. Holds(b, i, writeInt(Len(s))) /\ Holds(b, i + Len(writeInt(Len(s))), s)
  BY <1>1, <1>2, <1>3, HoldsApart
<1>5. readInt(b, i) = Len(s)
  BY <1>1, <1>4, IntRead
<1>6. Holds(b, i + 2, s)
  BY <1>2, <1>4
<1>7. Len(b) \in Nat /\ i + 2 + Len(s) - 1 <= Len(b)
  BY <1>6 DEF Holds, Bytes
<1>8. i + 1 + Len(s) <= Len(b)
  BY <1>1, <1>7
<1>9. SubSeq(b, i + 2, i + 1 + Len(s)) = [j \in 1..Len(s) |-> b[i + 2 + j - 1]]
  BY <1>1, <1>8 DEF Bytes
<1>10. s = [j \in 1..Len(s) |-> s[j]]
  BY <1>1 DEF Bytes
<1>11. \A j \in 1..Len(s) : b[i + 2 + j - 1] = s[j]
  BY <1>6 DEF Holds
<1> QED
  BY <1>5, <1>8, <1>9, <1>10, <1>11, Zenon

\* readMQTTLenString, when the string is within the packet.
LEMMA ReadOn ==
    ASSUME NEW r, NEW least, r.ok, r.end - r.at >= least,
           r.at + 2 + readInt(r.bytes, r.at) <= r.end
    PROVE  readMQTTLenString(r, least)
             = Reader(r.bytes, r.at + 2 + readInt(r.bytes, r.at), r.end,
                      Append(r.got, SubSeq(r.bytes, r.at + 2,
                                           r.at + 1 + readInt(r.bytes, r.at))))
BY Zenon DEF readMQTTLenString

\* readMQTTLenString, when there is too little left.
LEMMA ReadNot ==
    ASSUME NEW r, NEW least, ~ (r.ok /\ r.end - r.at >= least)
    PROVE  readMQTTLenString(r, least) = Lost(r)
BY Zenon DEF readMQTTLenString

\* A string of the packet is read, and the reader stands behind it.
LEMMA StringTaken ==
    ASSUME NEW b \in Bytes, NEW i \in Nat \ {0}, NEW s \in MQTTString, NEW e \in Int, NEW got,
           NEW least \in Nat,
           Holds(b, i, writeMQTTString(s)), i + 2 + Len(s) <= e, i + least <= e
    PROVE  readMQTTLenString(Reader(b, i, e, got), least)
             = Reader(b, i + 2 + Len(s), e, Append(got, s))
<1> DEFINE r == Reader(b, i, e, got)
<1>1. /\ r.bytes = b /\ r.at = i /\ r.end = e /\ r.ok = TRUE /\ r.got = got
  BY DEF Reader
<1>2. readInt(b, i) = Len(s) /\ SubSeq(b, i + 2, i + 1 + Len(s)) = s
  BY StringRead
<1>3. e - i >= least
  OBVIOUS
<1> HIDE DEF r
<1>4. r.ok /\ r.end - r.at >= least /\ r.at + 2 + readInt(r.bytes, r.at) <= r.end
  BY <1>1, <1>2, <1>3
<1>5. readMQTTLenString(r, least)
        = Reader(r.bytes, r.at + 2 + readInt(r.bytes, r.at), r.end,
                 Append(r.got, SubSeq(r.bytes, r.at + 2, r.at + 1 + readInt(r.bytes, r.at))))
  BY <1>4, ReadOn, Zenon
<1> QED
  BY <1>1, <1>2, <1>5, Zenon DEF r

\* Too little is left for it, or for the one before.
LEMMA StringRefused ==
    ASSUME NEW r, NEW least \in Nat, r.ok = FALSE \/ r.end - r.at < least,
           r.end \in Int, r.at \in Int
    PROVE  readMQTTLenString(r, least) = Lost(r)
<1>1. ~ (r.ok /\ r.end - r.at >= least)
  OBVIOUS
<1> QED
  BY <1>1, ReadNot, Zenon

-----------------------------------------------------------------------------
(* Recursive functions on an initial segment of the numbers.                 *)

\* f starts at a, and G leads from each value to the next.
Iterates(f, n, a, G) == f[0] = a /\ \A k \in 1..n : f[k] = G[<<k, f[k - 1]>>]

\* There is a function that iterates G from a.
LEMMA Recursion ==
    ASSUME NEW n \in Nat, NEW D, NEW a \in D, NEW G \in [(1..n) \X D -> D]
    PROVE  \E f \in [0..n -> D] : Iterates(f, n, a, G)
<1> DEFINE S == {m \in Nat : m <= n => \E f \in [0..m -> D] :
                                /\ f[0] = a
                                /\ \A k \in 1..m : f[k] = G[<<k, f[k - 1]>>]}
<1>1. 0 \in S
  <2> DEFINE h == [k \in 0..0 |-> a]
  <2>1. h \in [0..0 -> D] /\ h[0] = a
    OBVIOUS
  <2> HIDE DEF h
  <2>2. \A k \in 1..0 : h[k] = G[<<k, h[k - 1]>>]
    OBVIOUS
  <2> QED
    BY <2>1, <2>2
<1>2. ASSUME NEW m \in Nat, m \in S PROVE m + 1 \in S
  <2> SUFFICES ASSUME m + 1 <= n
               PROVE  \E f \in [0..(m + 1) -> D] :
                         /\ f[0] = a
                         /\ \A k \in 1..(m + 1) : f[k] = G[<<k, f[k - 1]>>]
    OBVIOUS
  <2>1. PICK f \in [0..m -> D] : f[0] = a /\ \A k \in 1..m : f[k] = G[<<k, f[k - 1]>>]
    BY <1>2
  <2> DEFINE g == [k \in 0..(m + 1) |-> IF k <= m THEN f[k] ELSE G[<<m + 1, f[m]>>]]
  <2>2. m \in 0..m /\ m + 1 \in 1..n
    OBVIOUS
  <2>3. f[m] \in D
    BY <2>2
  <2>4. <<m + 1, f[m]>> \in (1..n) \X D
    BY <2>2, <2>3
  <2>5. G[<<m + 1, f[m]>>] \in D
    BY <2>4
  <2>6. \A k \in 0..(m + 1) : k <= m => f[k] \in D
    BY <2>1
  <2>7. g \in [0..(m + 1) -> D]
    BY <2>5, <2>6
  <2>8. g[0] = a
    BY <2>1
  <2>9. ASSUME NEW k \in 1..(m + 1) PROVE g[k] = G[<<k, g[k - 1]>>]
    <3>1. k \in 0..(m + 1) /\ k - 1 \in 0..(m + 1) /\ k - 1 <= m
      OBVIOUS
    <3>2. g[k - 1] = f[k - 1]
      BY <3>1
    <3>3. CASE k <= m
      <4>1. g[k] = f[k]
        BY <3>1, <3>3
      <4>2. k \in 1..m
        BY <3>3
      <4> HIDE DEF g
      <4> QED
        BY <2>1, <3>2, <4>1, <4>2
    <3>4. CASE k = m + 1
      <4>1. g[k] = G[<<m + 1, f[m]>>] /\ k - 1 = m
        BY <3>1, <3>4
      <4> HIDE DEF g
      <4> QED
        BY <3>2, <3>4, <4>1
    <3> QED
      BY <3>3, <3>4
  <2> HIDE DEF g
  <2> QED
    BY <2>7, <2>8, <2>9
<1> HIDE DEF S
<1>3. \A m \in Nat : m \in S
  BY <1>1, <1>2, Induction
<1>4. n \in S
  BY <1>3
<1> QED
  BY <1>4 DEF S, Iterates

-----------------------------------------------------------------------------
(* Sequences of strings.                                                     *)

\* Sizes is the function its recursion describes.
LEMMA SizesDef ==
    ASSUME NEW ss \in Seq(MQTTString)
    PROVE  /\ Sizes(ss) \in [0..Len(ss) -> Nat]
           /\ Sizes(ss)[0] = 0
           /\ \A k \in 1..Len(ss) : Sizes(ss)[k] = Sizes(ss)[k - 1] + 2 + Len(ss[k])
<1> DEFINE n == Len(ss)
           G == [x \in (1..n) \X Nat |-> x[2] + 2 + Len(ss[x[1]])]
<1>1. n \in Nat
  OBVIOUS
<1>2. \A k \in 1..n : ss[k] \in MQTTString
  OBVIOUS
<1>3. \A k \in 1..n : Len(ss[k]) \in Nat
  BY <1>2, StringBytes DEF Int16
<1>4. G \in [(1..n) \X Nat -> Nat]
  BY <1>3
<1>5. \A k \in 1..n, m \in Nat : G[<<k, m>>] = m + 2 + Len(ss[k])
  OBVIOUS
<1> HIDE DEF G
<1>6. PICK f \in [0..n -> Nat] : Iterates(f, n, 0, G)
  <2>1. 0 \in Nat
    OBVIOUS
  <2> HIDE DEF n
  <2> QED
    BY <1>1, <1>4, <2>1, Recursion
<1>7. \A k \in 1..n : f[k] = f[k - 1] + 2 + Len(ss[k])
  <2> SUFFICES ASSUME NEW k \in 1..n PROVE f[k] = f[k - 1] + 2 + Len(ss[k])
    OBVIOUS
  <2>1. k - 1 \in 0..n
    BY <1>1
  <2>2. f[k - 1] \in Nat
    BY <2>1
  <2> HIDE DEF n
  <2>3. f[k] = G[<<k, f[k - 1]>>]
    BY <1>6 DEF Iterates
  <2> QED
    BY <1>5, <2>2, <2>3
<1>8. \E size : size = [k \in 0..n |-> IF k = 0 THEN 0 ELSE size[k - 1] + 2 + Len(ss[k])]
  <2>1. \A k \in 0..n : f[k] = IF k = 0 THEN 0 ELSE f[k - 1] + 2 + Len(ss[k])
    BY <1>1, <1>6, <1>7 DEF Iterates
  <2>2. f = [k \in 0..n |-> f[k]]
    OBVIOUS
  <2> HIDE DEF n
  <2>3. f = [k \in 0..n |-> IF k = 0 THEN 0 ELSE f[k - 1] + 2 + Len(ss[k])]
    BY <2>1, <2>2
  <2> QED
    BY <2>3
<1>9. Sizes(ss) = CHOOSE size : size = [k \in 0..n |-> IF k = 0 THEN 0
                                                      ELSE size[k - 1] + 2 + Len(ss[k])]
  BY DEF Sizes
<1>10. Sizes(ss) = [k \in 0..n |-> IF k = 0 THEN 0 ELSE Sizes(ss)[k - 1] + 2 + Len(ss[k])]
  <2> HIDE DEF n
  <2> QED
    BY <1>8, <1>9, Zenon
<1> DEFINE z == Sizes(ss)
<1> HIDE DEF z
<1>11. z = [k \in 0..n |-> IF k = 0 THEN 0 ELSE z[k - 1] + 2 + Len(ss[k])]
  BY <1>10 DEF z
<1>12. z[0] = 0 /\ \A k \in 1..n : z[k] = z[k - 1] + 2 + Len(ss[k])
  <2>1. 0 \in 0..n /\ \A k \in 1..n : k \in 0..n /\ k # 0
    BY <1>1
  <2> HIDE DEF n
  <2> QED
    BY <1>11, <2>1
<1>13. \A k \in 0..n : z[k] \in Nat
  <2> DEFINE S == {k \in Nat : k <= n => z[k] \in Nat}
  <2>1. 0 \in S
    BY <1>12
  <2>2. ASSUME NEW k \in Nat, k \in S PROVE k + 1 \in S
    <3> SUFFICES ASSUME k + 1 <= n PROVE z[k + 1] \in Nat
      OBVIOUS
    <3>1. k + 1 \in 1..n /\ (k + 1) - 1 = k /\ k <= n
      BY <1>1
    <3>2. z[k] \in Nat
      BY <2>2, <3>1
    <3> HIDE DEF n
    <3>3. z[k + 1] = z[k] + 2 + Len(ss[k + 1])
      BY <1>12, <3>1
    <3> QED
      BY <1>3, <3>1, <3>2, <3>3
  <2> HIDE DEF S
  <2>3. \A k \in Nat : k \in S
    BY <2>1, <2>2, Induction
  <2> QED
    BY <2>3, <1>1 DEF S
<1>14. z \in [0..n -> Nat]
  <2> HIDE DEF n
  <2> QED
    BY <1>11, <1>13
<1> QED
  BY <1>12, <1>14 DEF z

\* FlattenSeq appends one part after the other.
LEMMA FlattenDef ==
    ASSUME NEW ws \in Seq(Bytes), Len(ws) > 0
    PROVE  \E F \in [1..Len(ws) -> Bytes] :
             /\ FlattenSeq(ws) = F[Len(ws)]
             /\ F[1] = ws[1]
             /\ \A k \in 2..Len(ws) : F[k] = F[k - 1] \o ws[k]
<1> DEFINE n == Len(ws)
           G == [x \in (1..n) \X Bytes |-> IF x[1] = 1 THEN ws[1] ELSE x[2] \o ws[x[1]]]
<1>1. n \in Nat /\ n > 0
  OBVIOUS
<1>2. \A k \in 1..n : ws[k] \in Bytes
  OBVIOUS
<1>3. \A x \in (1..n) \X Bytes : x[1] \in 1..n /\ x[2] \in Bytes
  OBVIOUS
<1>4. \A x \in (1..n) \X Bytes : x[2] \o ws[x[1]] \in Bytes /\ ws[1] \in Bytes
  <2>1. 1 \in 1..n
    BY <1>1
  <2> HIDE DEF n
  <2> QED
    BY <1>2, <1>3, <2>1, Joined
<1>5. G \in [(1..n) \X Bytes -> Bytes]
  BY <1>4
<1>6. \A k \in 1..n, m \in Bytes : G[<<k, m>>] = IF k = 1 THEN ws[1] ELSE m \o ws[k]
  OBVIOUS
<1> HIDE DEF G
<1>7. PICK f \in [0..n -> Bytes] : Iterates(f, n, << >>, G)
  <2>1. << >> \in Bytes
    BY DEF Bytes
  <2> HIDE DEF n
  <2> QED
    BY <1>1, <1>5, <2>1, Recursion
<1>8. \A k \in 1..n : f[k] = IF k = 1 THEN ws[1] ELSE f[k - 1] \o ws[k]
  <2> SUFFICES ASSUME NEW k \in 1..n
               PROVE f[k] = IF k = 1 THEN ws[1] ELSE f[k - 1] \o ws[k]
    OBVIOUS
  <2>1. k - 1 \in 0..n
    BY <1>1
  <2>2. f[k - 1] \in Bytes
    BY <2>1
  <2> HIDE DEF n
  <2>3. f[k] = G[<<k, f[k - 1]>>]
    BY <1>7 DEF Iterates
  <2>4. G[<<k, f[k - 1]>>] = IF k = 1 THEN ws[1] ELSE f[k - 1] \o ws[k]
    BY <1>6, <2>2
  <2> QED
    BY <2>3, <2>4, Zenon
<1> DEFINE g == [k \in 1..n |-> f[k]]
<1>9. \A k \in 1..n : g[k] = IF k = 1 THEN ws[k] ELSE g[k - 1] \o ws[k]
  <2> SUFFICES ASSUME NEW k \in 1..n
               PROVE g[k] = IF k = 1 THEN ws[k] ELSE g[k - 1] \o ws[k]
    OBVIOUS
  <2>1. g[k] = f[k]
    OBVIOUS
  <2>2. CASE k = 1
    BY <1>8, <2>1, <2>2
  <2>3. CASE k # 1
    <3>1. k - 1 \in 1..n
      BY <1>1, <2>3
    <3>2. g[k - 1] = f[k - 1]
      BY <3>1
    <3>3. f[k] = f[k - 1] \o ws[k]
      BY <1>8, <2>3
    <3> HIDE DEF g
    <3> QED
      BY <2>1, <2>3, <3>2, <3>3, Zenon
  <2> QED
    BY <2>2, <2>3
<1>10. \E flatten : flatten = [k \in 1..n |-> IF k = 1 THEN ws[k] ELSE flatten[k - 1] \o ws[k]]
  <2>1. g = [k \in 1..n |-> g[k]]
    OBVIOUS
  <2> HIDE DEF g, n
  <2>2. g = [k \in 1..n |-> IF k = 1 THEN ws[k] ELSE g[k - 1] \o ws[k]]
    BY <1>9, <2>1
  <2> QED
    BY <2>2
<1> DEFINE F == CHOOSE flatten :
                  flatten = [k \in 1..n |-> IF k = 1 THEN ws[k] ELSE flatten[k - 1] \o ws[k]]
<1>11. FlattenSeq(ws) = F[n]
  BY <1>1 DEF FlattenSeq
<1>12. F = [k \in 1..n |-> IF k = 1 THEN ws[k] ELSE F[k - 1] \o ws[k]]
  <2> HIDE DEF n
  <2> QED
    BY <1>10, Zenon
<1> HIDE DEF F
<1>13. \A k \in 1..n : F[k] = IF k = 1 THEN ws[k] ELSE F[k - 1] \o ws[k]
  <2> HIDE DEF n
  <2> QED
    BY <1>12
<1>14. F[1] = ws[1]
  <2>1. 1 \in 1..n
    BY <1>1
  <2> QED
    BY <1>13, <2>1, Zenon
<1>15. \A k \in 2..n : F[k] = F[k - 1] \o ws[k]
  <2>1. \A k \in 2..n : k \in 1..n /\ k # 1
    BY <1>1
  <2> QED
    BY <1>13, <2>1, Zenon
<1>16. \A k \in 1..n : F[k] \in Bytes
  <2> DEFINE S == {k \in Nat : k + 1 <= n => F[k + 1] \in Bytes}
  <2>1. 0 \in S
    <3>1. ws[1] \in Bytes
      BY <1>1, <1>2
    <3>2. F[0 + 1] \in Bytes
      BY <1>14, <3>1
    <3> QED
      BY <3>2
  <2>2. ASSUME NEW k \in Nat, k \in S PROVE k + 1 \in S
    <3> SUFFICES ASSUME (k + 1) + 1 <= n PROVE F[(k + 1) + 1] \in Bytes
      OBVIOUS
    <3>1. (k + 1) + 1 \in 2..n /\ ((k + 1) + 1) - 1 = k + 1 /\ k + 1 <= n
             /\ (k + 1) + 1 \in 1..n
      BY <1>1
    <3>2. F[k + 1] \in Bytes /\ ws[(k + 1) + 1] \in Bytes
      BY <1>2, <2>2, <3>1
    <3>3. F[k + 1] \o ws[(k + 1) + 1] \in Bytes
      BY <3>2, Joined
    <3> QED
      BY <1>15, <3>1, <3>3
  <2> HIDE DEF S
  <2>3. \A k \in Nat : k \in S
    BY <2>1, <2>2, Induction
  <2> SUFFICES ASSUME NEW k \in 1..n PROVE F[k] \in Bytes
    OBVIOUS
  <2>4. k - 1 \in Nat /\ (k - 1) + 1 = k /\ k <= n
    BY <1>1
  <2>5. k - 1 \in S
    BY <2>3, <2>4
  <2> QED
    BY <2>4, <2>5 DEF S
<1>17. F \in [1..n -> Bytes]
  <2> HIDE DEF n
  <2> QED
    BY <1>12, <1>16
<1> HIDE DEF n
<1>18. \E H \in [1..n -> Bytes] :
             /\ FlattenSeq(ws) = H[n]
             /\ H[1] = ws[1]
             /\ \A k \in 2..n : H[k] = H[k - 1] \o ws[k]
  BY <1>11, <1>14, <1>15, <1>17
<1> QED
  BY <1>18 DEF n

-----------------------------------------------------------------------------
(* Flattened sequences: where each part begins.                              *)

Marks(ws, T) ==
    /\ T \in [0..Len(ws) -> Nat]
    /\ T[0] = 0
    /\ \A k \in 1..Len(ws) : T[k] = T[k - 1] + Len(ws[k])

\* The parts stand where the sizes of those before them say.
LEMMA Flattened ==
    ASSUME NEW ws \in Seq(Bytes), NEW T, Marks(ws, T)
    PROVE  /\ FlattenSeq(ws) \in Bytes
           /\ Len(FlattenSeq(ws)) = T[Len(ws)]
           /\ \A k \in 1..Len(ws) : Holds(FlattenSeq(ws), T[k - 1] + 1, ws[k])
<1> DEFINE n == Len(ws)
<1>1. n \in Nat /\ \A k \in 1..n : ws[k] \in Bytes
  OBVIOUS
<1>2. /\ \A k \in 0..n : T[k] \in Nat
      /\ T[0] = 0
      /\ \A k \in 1..n : T[k] = T[k - 1] + Len(ws[k])
  BY DEF Marks
<1>3. CASE n = 0
  <2>1. FlattenSeq(ws) = ws /\ ws = << >>
    BY <1>3 DEF FlattenSeq
  <2>2. << >> \in Bytes /\ Len(<< >>) = 0
    BY DEF Bytes
  <2> QED
    BY <1>2, <1>3, <2>1, <2>2
<1>4. CASE n > 0
  <2>1. PICK F \in [1..n -> Bytes] : /\ FlattenSeq(ws) = F[n]
                                     /\ F[1] = ws[1]
                                     /\ \A k \in 2..n : F[k] = F[k - 1] \o ws[k]
    BY <1>4, FlattenDef
  <2> HIDE DEF n
  <2>2. \A k \in 1..n : F[k] \in Bytes
    BY <2>1
  <2> DEFINE Good(k) == /\ Len(F[k]) = T[k]
                        /\ \A j \in 1..k : Holds(F[k], T[j - 1] + 1, ws[j])
             S == {k \in Nat : k + 1 <= n => Good(k + 1)}
  <2>3. Good(1)
    <3>1. 1 \in 1..n /\ 0 \in 0..n
      BY <1>1, <1>4
    <3>2. ws[1] \in Bytes
      BY <1>1, <3>1
    <3>3. Len(ws[1]) \in Nat
      BY <3>2 DEF Bytes
    <3>4. T[1] = T[1 - 1] + Len(ws[1])
      BY <1>2, <3>1, Zenon
    <3>5. T[1] = Len(ws[1])
      BY <1>2, <3>3, <3>4
    <3>6. Holds(ws[1], 1, ws[1])
      BY <3>3 DEF Holds
    <3>7. \A j \in 1..1 : j = 1 /\ T[j - 1] + 1 = 1
      BY <1>2
    <3> QED
      BY <2>1, <3>5, <3>6, <3>7
  <2>4. ASSUME NEW k \in Nat, k \in S PROVE k + 1 \in S
    <3> SUFFICES ASSUME (k + 1) + 1 <= n PROVE Good((k + 1) + 1)
      OBVIOUS
    <3> DEFINE m == k + 1
    <3>1. /\ m \in 1..n /\ m + 1 \in 1..n /\ m + 1 \in 2..n /\ (m + 1) - 1 = m
          /\ m \in 0..n /\ m + 1 \in 0..n
      BY <1>1
    <3>2. Good(m)
      BY <2>4, <3>1
    <3>3. F[m] \in Bytes /\ F[m + 1] \in Bytes /\ ws[m + 1] \in Bytes
      BY <1>1, <2>2, <3>1
    <3>4. F[m + 1] = F[m] \o ws[m + 1]
      BY <2>1, <3>1
    <3> HIDE DEF m
    <3>5. /\ Len(F[m] \o ws[m + 1]) = Len(F[m]) + Len(ws[m + 1])
          /\ Holds(F[m] \o ws[m + 1], 1, F[m])
          /\ Holds(F[m] \o ws[m + 1], Len(F[m]) + 1, ws[m + 1])
      BY <3>3, Joined, HoldsBoth
    <3>6. /\ Len(F[m + 1]) = Len(F[m]) + Len(ws[m + 1])
          /\ Holds(F[m + 1], 1, F[m])
          /\ Holds(F[m + 1], Len(F[m]) + 1, ws[m + 1])
      BY <3>4, <3>5
    <3>7. T[m + 1] = T[m] + Len(ws[m + 1])
      <4>1. T[m + 1] = T[(m + 1) - 1] + Len(ws[m + 1])
        BY <1>2, <3>1, Zenon
      <4> QED
        BY <3>1, <4>1, Zenon
    <3>8. Len(F[m + 1]) = T[m + 1]
      BY <3>2, <3>6, <3>7
    <3>9. ASSUME NEW j \in 1..(m + 1) PROVE Holds(F[m + 1], T[j - 1] + 1, ws[j])
      <4>1. CASE j = m + 1
        <5>1. j - 1 = m
          BY <3>1, <4>1
        <5> QED
          BY <3>2, <3>6, <4>1, <5>1
      <4>2. CASE j # m + 1
        <5>1. j \in 1..m /\ j \in 1..n /\ j - 1 \in 0..n
          BY <1>1, <3>1, <4>2
        <5>2. T[j - 1] \in Nat /\ ws[j] \in Bytes
          BY <1>1, <1>2, <5>1
        <5>3. T[j - 1] + 1 \in Nat \ {0} /\ 1 + (T[j - 1] + 1) - 1 = T[j - 1] + 1
          BY <5>2
        <5>4. Holds(F[m], T[j - 1] + 1, ws[j])
          BY <3>2, <5>1
        <5> DEFINE i == T[j - 1] + 1
        <5>5. i \in Nat \ {0} /\ Holds(F[m], i, ws[j]) /\ 1 + i - 1 = i /\ 1 \in Nat \ {0}
          BY <5>3, <5>4
        <5> HIDE DEF i
        <5>6. Holds(F[m + 1], 1 + i - 1, ws[j])
          BY <3>3, <3>6, <5>2, <5>5, HoldsInside
        <5>7. Holds(F[m + 1], i, ws[j])
          BY <5>5, <5>6
        <5> QED
          BY <5>7 DEF i
      <4> QED
        BY <4>1, <4>2
    <3>10. Good(m + 1)
      BY <3>8, <3>9
    <3> QED
      BY <3>10 DEF m
  <2>5. 0 \in S
    <3>1. 0 + 1 = 1
      OBVIOUS
    <3> QED
      BY <2>3, <3>1
  <2> HIDE DEF S
  <2>6. \A k \in Nat : k \in S
    BY <2>4, <2>5, Induction
  <2>7. n - 1 \in Nat /\ (n - 1) + 1 = n /\ n \in 1..n
    BY <1>1, <1>4
  <2>8. n - 1 \in S
    BY <2>6, <2>7
  <2>9. Good(n)
    BY <2>7, <2>8 DEF S
  <2> QED
    BY <2>1, <2>2, <2>7, <2>9 DEF n
<1> QED
  BY <1>1, <1>3, <1>4

\* The marks grow.
LEMMA MarksGrow ==
    ASSUME NEW n \in Nat, NEW T \in [0..n -> Nat],
           \A k \in 1..n : T[k] >= T[k - 1] + 2
    PROVE  \A k \in 0..n : T[k] + 2 * (n - k) <= T[n]
<1> DEFINE S == {m \in Nat : m <= n => T[n - m] + 2 * m <= T[n]}
<1>1. 0 \in S
  BY DEF S
<1>2. ASSUME NEW m \in Nat, m \in S PROVE m + 1 \in S
  <2> SUFFICES ASSUME m + 1 <= n PROVE T[n - (m + 1)] + 2 * (m + 1) <= T[n]
    OBVIOUS
  <2>1. n - m \in 1..n /\ n - (m + 1) = (n - m) - 1 /\ n - m \in 0..n /\ (n - m) - 1 \in 0..n
           /\ n \in 0..n
    OBVIOUS
  <2>2. T[n - m] + 2 * m <= T[n]
    BY <1>2
  <2>3. T[n - m] >= T[(n - m) - 1] + 2
    BY <2>1
  <2>4. T[n - m] \in Nat /\ T[(n - m) - 1] \in Nat /\ T[n] \in Nat
    BY <2>1
  <2>5. T[(n - m) - 1] + 2 * (m + 1) <= T[n]
    BY <2>2, <2>3, <2>4
  <2> QED
    BY <2>1, <2>5
<1> HIDE DEF S
<1>3. \A m \in Nat : m \in S
  BY <1>1, <1>2, Induction
<1> SUFFICES ASSUME NEW k \in 0..n PROVE T[k] + 2 * (n - k) <= T[n]
  OBVIOUS
<1>4. n - k \in Nat /\ n - k <= n /\ n - (n - k) = k
  OBVIOUS
<1>5. n - k \in S
  BY <1>3, <1>4
<1> QED
  BY <1>4, <1>5 DEF S

-----------------------------------------------------------------------------
(* Strings in a row.                                                         *)

\* Strings writes every string behind those before it.
LEMMA StringsHeld ==
    ASSUME NEW ss \in Seq(MQTTString)
    PROVE  /\ Strings(ss) \in Bytes
           /\ Len(Strings(ss)) = MQTTstrlen(ss)
           /\ \A k \in 1..Len(ss) :
                Holds(Strings(ss), Sizes(ss)[k - 1] + 1, writeMQTTString(ss[k]))
<1> DEFINE n == Len(ss)
           ws == [k \in DOMAIN ss |-> writeMQTTString(ss[k])]
           T == Sizes(ss)
<1>1. n \in Nat /\ DOMAIN ss = 1..n /\ \A k \in 1..n : ss[k] \in MQTTString
  OBVIOUS
<1>2. \A k \in 1..n : /\ writeMQTTString(ss[k]) \in Bytes
                      /\ Len(writeMQTTString(ss[k])) = 2 + Len(ss[k])
                      /\ Len(ss[k]) \in Nat
  BY <1>1, StringBytes DEF Int16
<1>3. ws = [k \in 1..n |-> writeMQTTString(ss[k])]
  BY <1>1
<1> HIDE DEF n, ws, T
<1>4. ws \in Seq(Bytes) /\ Len(ws) = n /\ \A k \in 1..n : ws[k] = writeMQTTString(ss[k])
  BY <1>1, <1>2, <1>3
<1>5. /\ T \in [0..n -> Nat]
      /\ T[0] = 0
      /\ \A k \in 1..n : T[k] = T[k - 1] + 2 + Len(ss[k])
  BY SizesDef DEF T, n
<1>6. \A k \in 1..n : T[k] = T[k - 1] + Len(ws[k])
  <2> SUFFICES ASSUME NEW k \in 1..n PROVE T[k] = T[k - 1] + Len(ws[k])
    OBVIOUS
  <2>1. Len(ws[k]) = 2 + Len(ss[k]) /\ Len(ss[k]) \in Nat
    BY <1>2, <1>4
  <2>2. k - 1 \in 0..n
    BY <1>1
  <2>3. T[k - 1] \in Nat
    BY <1>5, <2>2
  <2>4. T[k] = T[k - 1] + 2 + Len(ss[k])
    BY <1>5
  <2> QED
    BY <2>1, <2>3, <2>4, SMTT(30)
<1>7. Marks(ws, T)
  BY <1>4, <1>5, <1>6 DEF Marks
<1>8. /\ FlattenSeq(ws) \in Bytes
      /\ Len(FlattenSeq(ws)) = T[Len(ws)]
      /\ \A k \in 1..Len(ws) : Holds(FlattenSeq(ws), T[k - 1] + 1, ws[k])
  BY <1>4, <1>7, Flattened
<1>9. Strings(ss) = FlattenSeq(ws) /\ MQTTstrlen(ss) = T[n]
  BY DEF Strings, MQTTstrlen, ws, T, n
<1>10. /\ Strings(ss) \in Bytes
       /\ Len(Strings(ss)) = MQTTstrlen(ss)
       /\ \A k \in 1..n : Holds(Strings(ss), T[k - 1] + 1, writeMQTTString(ss[k]))
  BY <1>4, <1>8, <1>9, Zenon
<1> QED
  BY <1>10 DEF T, n

\* The arithmetic of one topic: string, and QoS behind it.
LEMMA RowOf ==
    ASSUME NEW z \in Nat, NEW y, NEW s \in Nat, NEW k \in Nat, y = z + 2 + s
    PROVE  y + k = (z + (k - 1)) + (2 + s + 1)
OBVIOUS

\* The QoS is behind the string.
LEMMA CodeOf ==
    ASSUME NEW z \in Nat, NEW y, NEW s \in Nat, NEW k \in Nat, y = z + 2 + s
    PROVE  (z + (k - 1) + 1) + (2 + s) = y + k
OBVIOUS

\* What a SUBSCRIBE has behind its identifier.
Requests(ss, codes) == FlattenSeq([k \in DOMAIN ss |-> writeMQTTString(ss[k]) \o <<codes[k]>>])

\* A SUBSCRIBE has every string and its QoS behind those before it.
LEMMA RequestsHeld ==
    ASSUME NEW ss \in Seq(MQTTString), NEW codes \in Seq(Byte), Len(codes) = Len(ss)
    PROVE  /\ Requests(ss, codes) \in Bytes
           /\ Len(Requests(ss, codes)) = MQTTstrlen(ss) + Len(ss)
           /\ \A k \in 1..Len(ss) :
                /\ Holds(Requests(ss, codes), Sizes(ss)[k - 1] + (k - 1) + 1,
                         writeMQTTString(ss[k]))
                /\ Holds(Requests(ss, codes), Sizes(ss)[k] + k, <<codes[k]>>)
<1> DEFINE n == Len(ss)
           w == [k \in 1..n |-> writeMQTTString(ss[k])]
           c == [k \in 1..n |-> <<codes[k]>>]
           ws == [k \in DOMAIN ss |-> writeMQTTString(ss[k]) \o <<codes[k]>>]
           Z == Sizes(ss)
           T == [k \in 0..n |-> Z[k] + k]
<1>1. /\ n \in Nat /\ DOMAIN ss = 1..n
      /\ \A k \in 1..n : ss[k] \in MQTTString /\ codes[k] \in Byte
  OBVIOUS
<1>2. \A k \in 1..n : /\ w[k] \in Bytes
                      /\ Len(w[k]) = 2 + Len(ss[k])
                      /\ Len(ss[k]) \in Nat
  BY <1>1, StringBytes DEF Int16
<1>3. \A k \in 1..n : c[k] \in Bytes /\ Len(c[k]) = 1
  BY <1>1 DEF Bytes
<1>4. ws = [k \in 1..n |-> w[k] \o c[k]]
  BY <1>1
<1>5. \A k \in 1..n : w[k] = writeMQTTString(ss[k]) /\ c[k] = <<codes[k]>>
  OBVIOUS
<1> HIDE DEF w, c
<1>6. \A k \in 1..n : w[k] \o c[k] \in Bytes /\ Len(w[k] \o c[k]) = Len(w[k]) + Len(c[k])
  BY <1>2, <1>3, Joined
<1> HIDE DEF n, ws, Z
<1>7. ws \in Seq(Bytes) /\ Len(ws) = n /\ \A k \in 1..n : ws[k] = w[k] \o c[k]
  <2> DEFINE y == [k \in 1..n |-> w[k] \o c[k]]
  <2>1. \A k \in 1..n : y[k] = w[k] \o c[k]
    OBVIOUS
  <2>2. \A k \in 1..n : y[k] \in Bytes
    BY <1>6, <2>1
  <2>3. y = [k \in 1..n |-> y[k]] /\ ws = y
    BY <1>4
  <2> HIDE DEF y
  <2>4. y \in Seq(Bytes) /\ Len(y) = n
    BY <1>1, <2>2, <2>3
  <2> QED
    BY <2>1, <2>3, <2>4
<1>8. /\ \A k \in 0..n : Z[k] \in Nat
      /\ Z[0] = 0
      /\ \A k \in 1..n : Z[k] = Z[k - 1] + 2 + Len(ss[k])
  BY SizesDef DEF Z, n
<1>9. T \in [0..n -> Nat] /\ \A k \in 0..n : T[k] = Z[k] + k
  BY <1>8
<1> HIDE DEF T
<1>10. T[0] = 0
  <2>1. 0 \in 0..n
    BY <1>1
  <2> QED
    BY <1>8, <1>9, <2>1
<1>11. \A k \in 1..n : T[k] = T[k - 1] + Len(ws[k])
  <2> SUFFICES ASSUME NEW k \in 1..n PROVE T[k] = T[k - 1] + Len(ws[k])
    OBVIOUS
  <2>1. Len(ws[k]) = Len(w[k]) + Len(c[k])
    BY <1>6, <1>7
  <2>2. Len(ws[k]) = 2 + Len(ss[k]) + 1 /\ Len(ss[k]) \in Nat
    BY <1>2, <1>3, <2>1
  <2>3. k - 1 \in 0..n /\ k \in 0..n /\ k \in Nat
    BY <1>1
  <2>4. T[k - 1] = Z[k - 1] + (k - 1) /\ T[k] = Z[k] + k /\ Z[k - 1] \in Nat
    BY <1>8, <1>9, <2>3
  <2>5. Z[k] = Z[k - 1] + 2 + Len(ss[k])
    BY <1>8
  <2>6. Z[k] + k = (Z[k - 1] + (k - 1)) + (2 + Len(ss[k]) + 1)
    <3> DEFINE z == Z[k - 1]  y == Z[k]  s == Len(ss[k])
    <3>1. z \in Nat /\ s \in Nat /\ k \in Nat /\ y = z + 2 + s
      BY <2>2, <2>3, <2>4, <2>5
    <3> HIDE DEF z, y, s
    <3>2. y + k = (z + (k - 1)) + (2 + s + 1)
      BY <3>1, RowOf
    <3> QED
      BY <3>2 DEF z, y, s
  <2> QED
    BY <2>2, <2>4, <2>6, Zenon
<1>12. Marks(ws, T)
  BY <1>7, <1>9, <1>10, <1>11 DEF Marks
<1> DEFINE b == FlattenSeq(ws)
<1>13. /\ b \in Bytes
       /\ Len(b) = T[Len(ws)]
       /\ \A k \in 1..Len(ws) : Holds(b, T[k - 1] + 1, ws[k])
  BY <1>7, <1>12, Flattened
<1>14. Requests(ss, codes) = b /\ MQTTstrlen(ss) = Z[n]
  BY DEF Requests, MQTTstrlen, ws, Z, n
<1> HIDE DEF b
<1>15. Len(b) = Z[n] + n
  <2>1. n \in 0..n
    BY <1>1
  <2> QED
    BY <1>7, <1>9, <1>13, <2>1
<1>16. ASSUME NEW k \in 1..n
       PROVE  Holds(b, Z[k - 1] + (k - 1) + 1, w[k]) /\ Holds(b, Z[k] + k, c[k])
  <2>1. k - 1 \in 0..n /\ k \in 0..n /\ k \in Nat
    BY <1>1
  <2>2. T[k - 1] = Z[k - 1] + (k - 1) /\ Z[k - 1] \in Nat
    BY <1>8, <1>9, <2>1
  <2> DEFINE i == T[k - 1] + 1
  <2>3. i \in Nat \ {0} /\ i = Z[k - 1] + (k - 1) + 1
    BY <2>1, <2>2
  <2>4. Holds(b, i, w[k] \o c[k])
    BY <1>7, <1>13
  <2> HIDE DEF i
  <2>5. w[k] \in Bytes /\ c[k] \in Bytes
    BY <1>2, <1>3
  <2>6. Holds(b, i, w[k]) /\ Holds(b, i + Len(w[k]), c[k])
    BY <1>13, <2>3, <2>4, <2>5, HoldsApart
  <2>7. i + Len(w[k]) = Z[k] + k
    <3>1. Len(w[k]) = 2 + Len(ss[k]) /\ Len(ss[k]) \in Nat
      BY <1>2
    <3>2. Z[k] = Z[k - 1] + 2 + Len(ss[k])
      BY <1>8
    <3>3. (Z[k - 1] + (k - 1) + 1) + (2 + Len(ss[k])) = Z[k] + k
      <4> DEFINE z == Z[k - 1]  y == Z[k]  s == Len(ss[k])
      <4>1. z \in Nat /\ s \in Nat /\ k \in Nat /\ y = z + 2 + s
        BY <2>1, <2>2, <3>1, <3>2
      <4> HIDE DEF z, y, s
      <4>2. (z + (k - 1) + 1) + (2 + s) = y + k
        BY <4>1, CodeOf
      <4> QED
        BY <4>2 DEF z, y, s
    <3> QED
      BY <2>3, <3>1, <3>3, Zenon
  <2> QED
    BY <2>3, <2>6, <2>7
<1>17. /\ b \in Bytes
       /\ Len(b) = Z[n] + n
       /\ \A k \in 1..n : /\ Holds(b, Z[k - 1] + (k - 1) + 1, writeMQTTString(ss[k]))
                          /\ Holds(b, Z[k] + k, <<codes[k]>>)
  BY <1>5, <1>13, <1>15, <1>16
<1> QED
  BY <1>14, <1>17, Zenon DEF Z, n

-----------------------------------------------------------------------------
(* The loops of the server.                                                  *)

\* Where the loop is when it has read m topics, each string with so many bytes behind.
Stands(b, ss, T, m) == Reader(b, 3 + T[m], 3 + T[Len(ss)], SubSeq(ss, 1, m))

\* The topics in the buffer, at the distances T from its third byte.
Rows(b, ss, T, each) ==
    /\ T \in [0..Len(ss) -> Nat]
    /\ T[0] = 0
    /\ \A k \in 1..Len(ss) : /\ T[k] = T[k - 1] + 2 + Len(ss[k]) + each
                             /\ Holds(b, 3 + T[k - 1], writeMQTTString(ss[k]))

\* Every topic takes at least the two bytes of its length.
LEMMA RowsGrow ==
    ASSUME NEW b, NEW ss \in Seq(MQTTString), NEW T, NEW each \in {0, 1}, Rows(b, ss, T, each)
    PROVE  \A k \in 0..Len(ss) : T[k] \in Nat /\ T[k] + 2 * (Len(ss) - k) <= T[Len(ss)]
<1> DEFINE n == Len(ss)
<1>1. n \in Nat /\ \A k \in 1..n : ss[k] \in MQTTString
  OBVIOUS
<1>2. \A k \in 1..n : Len(ss[k]) \in Nat
  BY <1>1, StringBytes DEF Int16
<1>3. T \in [0..n -> Nat] /\ \A k \in 1..n : T[k] = T[k - 1] + 2 + Len(ss[k]) + each
  BY DEF Rows
<1> HIDE DEF n
<1>4. \A k \in 1..n : T[k] >= T[k - 1] + 2
  <2> SUFFICES ASSUME NEW k \in 1..n PROVE T[k] >= T[k - 1] + 2
    OBVIOUS
  <2>1. k - 1 \in 0..n
    BY <1>1
  <2>2. T[k - 1] \in Nat /\ Len(ss[k]) \in Nat /\ T[k] = T[k - 1] + 2 + Len(ss[k]) + each
    BY <1>2, <1>3, <2>1
  <2> QED
    BY <2>2
<1>5. \A k \in 0..n : T[k] + 2 * (n - k) <= T[n]
  BY <1>1, <1>3, <1>4, MarksGrow
<1>6. \A k \in 0..n : T[k] \in Nat
  BY <1>3
<1> QED
  BY <1>5, <1>6 DEF n

\* A turn of the loop that reads a topic.
LEMMA Turn ==
    ASSUME NEW r, NEW each, r.at < r.end, r.ok,
           readMQTTLenString(r, 2).ok,
           readMQTTLenString(r, 2).at + each <= readMQTTLenString(r, 2).end,
           r.at \in Int, r.end \in Int
    PROVE  ReadTopic(r, each)
             = Reader(readMQTTLenString(r, 2).bytes, readMQTTLenString(r, 2).at + each,
                      readMQTTLenString(r, 2).end, readMQTTLenString(r, 2).got)
<1>1. ~ (r.at >= r.end \/ ~r.ok)
  OBVIOUS
<1> QED
  BY <1>1, Zenon DEF ReadTopic

\* The arithmetic of a turn: what is read stays in the packet.
LEMMA Within ==
    ASSUME NEW x \in Nat, NEW s \in Nat, NEW each \in {0, 1}, NEW y \in Nat, NEW z \in Nat,
           y <= z, y = x + 2 + s + each
    PROVE  /\ 3 + x \in Nat \ {0} /\ 3 + z \in Int /\ 3 + x + 2 + s <= 3 + z
           /\ 3 + x + 2 <= 3 + z /\ 3 + x < 3 + z
           /\ 3 + x + 2 + s + each = 3 + y /\ 3 + x + 2 + s + each <= 3 + z
OBVIOUS

\* A turn takes the next topic.
LEMMA TopicTaken ==
    ASSUME NEW b \in Bytes, NEW ss \in Seq(MQTTString), NEW T, NEW each \in {0, 1},
           Rows(b, ss, T, each), NEW m \in Nat, m < Len(ss)
    PROVE  ReadTopic(Stands(b, ss, T, m), each) = Stands(b, ss, T, m + 1)
<1> DEFINE n == Len(ss)  k == m + 1  e == 3 + T[n]  i == 3 + T[m]  got == SubSeq(ss, 1, m)
           s == ss[k]
<1>1. n \in Nat /\ m \in 0..n /\ k \in 1..n /\ k \in 0..n /\ n \in 0..n /\ k - 1 = m
  OBVIOUS
<1>2. s \in MQTTString
  BY <1>1
<1>3. Append(got, s) = SubSeq(ss, 1, k)
  OBVIOUS
<1>4. Len(s) \in Nat
  BY <1>2, StringBytes DEF Int16
<1> HIDE DEF n, k, s, got
<1>5. T[m] \in Nat /\ T[k] \in Nat /\ T[n] \in Nat /\ T[k] <= T[n]
  <2>1. \A j \in 0..n : T[j] \in Nat /\ T[j] + 2 * (n - j) <= T[n]
    BY RowsGrow DEF n
  <2> QED
    BY <1>1, <2>1
<1>6. T[k] = T[m] + 2 + Len(s) + each /\ Holds(b, i, writeMQTTString(s))
  <2>1. T[k] = T[k - 1] + 2 + Len(ss[k]) + each /\ Holds(b, 3 + T[k - 1], writeMQTTString(ss[k]))
    BY <1>1 DEF Rows, n
  <2> QED
    BY <1>1, <2>1 DEF s
<1>7. /\ i \in Nat \ {0} /\ e \in Int /\ i + 2 + Len(s) <= e
      /\ i + 2 <= e /\ i < e
      /\ i + 2 + Len(s) + each = 3 + T[k] /\ i + 2 + Len(s) + each <= e
  <2>1. T[k] = T[m] + 2 + Len(s) + each
    BY <1>6
  <2>2. /\ 3 + T[m] \in Nat \ {0} /\ 3 + T[n] \in Int /\ 3 + T[m] + 2 + Len(s) <= 3 + T[n]
        /\ 3 + T[m] + 2 <= 3 + T[n] /\ 3 + T[m] < 3 + T[n]
        /\ 3 + T[m] + 2 + Len(s) + each = 3 + T[k] /\ 3 + T[m] + 2 + Len(s) + each <= 3 + T[n]
    <3> DEFINE x == T[m]  y == T[k]  z == T[n]  l == Len(s)
    <3>1. x \in Nat /\ l \in Nat /\ y \in Nat /\ z \in Nat /\ y <= z /\ y = x + 2 + l + each
      BY <1>4, <1>5, <2>1
    <3> HIDE DEF x, y, z, l
    <3>2. /\ 3 + x \in Nat \ {0} /\ 3 + z \in Int /\ 3 + x + 2 + l <= 3 + z
          /\ 3 + x + 2 <= 3 + z /\ 3 + x < 3 + z
          /\ 3 + x + 2 + l + each = 3 + y /\ 3 + x + 2 + l + each <= 3 + z
      BY <3>1, Within
    <3> QED
      BY <3>2 DEF x, y, z, l
  <2> QED
    BY <2>2, Zenon
<1> HIDE DEF i, e
<1> DEFINE r == Reader(b, i, e, got)  q == Reader(b, i + 2 + Len(s), e, Append(got, s))
<1>8. readMQTTLenString(r, 2) = q
  <2>1. 2 \in Nat
    OBVIOUS
  <2> QED
    BY <1>2, <1>6, <1>7, <2>1, StringTaken
<1>9. r.at = i /\ r.end = e /\ r.ok = TRUE
  BY DEF Reader
<1>10. /\ q.bytes = b /\ q.at = i + 2 + Len(s) /\ q.end = e /\ q.ok = TRUE
       /\ q.got = Append(got, s)
  BY DEF Reader
<1> HIDE DEF r, q
<1>11. ReadTopic(r, each) = Reader(q.bytes, q.at + each, q.end, q.got)
  <2>1. r.at < r.end /\ r.ok /\ q.ok /\ q.at + each <= q.end /\ r.at \in Int /\ r.end \in Int
    BY <1>7, <1>9, <1>10
  <2> QED
    BY <1>8, <2>1, Turn
<1>12. ReadTopic(r, each) = Reader(b, 3 + T[k], e, SubSeq(ss, 1, k))
  BY <1>3, <1>7, <1>10, <1>11
<1> QED
  BY <1>12 DEF r, Stands, e, i, got, k, n

\* With all of them taken a turn changes nothing.
LEMMA TopicsTaken ==
    ASSUME NEW b, NEW ss \in Seq(MQTTString), NEW T, NEW each \in {0, 1},
           Rows(b, ss, T, each)
    PROVE  ReadTopic(Stands(b, ss, T, Len(ss)), each) = Stands(b, ss, T, Len(ss))
<1> DEFINE r == Stands(b, ss, T, Len(ss))
<1>1. Len(ss) \in Nat /\ Len(ss) \in 0..Len(ss)
  OBVIOUS
<1>2. T[Len(ss)] \in Nat
  BY <1>1, RowsGrow
<1>3. r.at = 3 + T[Len(ss)] /\ r.end = 3 + T[Len(ss)]
  BY DEF Stands, Reader
<1> HIDE DEF r
<1>4. r.at >= r.end
  BY <1>2, <1>3
<1>5. ReadTopic(r, each) = r
  BY <1>4, Zenon DEF ReadTopic
<1> QED
  BY <1>5 DEF r

\* The loop of at most end turns reads all the topics, and leaves it at that.
LEMMA AllRead ==
    ASSUME NEW b \in Bytes, NEW ss \in Seq(MQTTString), NEW T, NEW each \in {0, 1},
           Rows(b, ss, T, each)
    PROVE  ReadTopics(b, 3 + T[Len(ss)], each)
             = Reader(b, 3 + T[Len(ss)], 3 + T[Len(ss)], ss)
<1> DEFINE n == Len(ss)
           e == 3 + T[n]
           least(k) == IF k < n THEN k ELSE n
           A == [k \in 0..e |-> Stands(b, ss, T, least(k))]
<1>1. n \in Nat /\ SubSeq(ss, 1, 0) = << >> /\ SubSeq(ss, 1, n) = ss /\ n \in 0..n /\ 0 \in 0..n
  OBVIOUS
<1>2. T[n] \in Nat /\ 2 * n <= T[n]
  <2>1. \A j \in 0..n : T[j] \in Nat /\ T[j] + 2 * (n - j) <= T[n]
    BY RowsGrow
  <2>2. T[0] = 0
    BY DEF Rows
  <2> HIDE DEF n
  <2> QED
    BY <1>1, <2>1, <2>2
<1>3. e \in Nat /\ n <= e
  BY <1>1, <1>2
<1>4. Stands(b, ss, T, 0) = Reader(b, 3, e, << >>)
  <2>1. T[0] = 0 /\ 3 + 0 = 3
    BY DEF Rows
  <2> QED
    BY <1>1, <2>1, Zenon DEF Stands
<1>5. Stands(b, ss, T, n) = Reader(b, e, e, ss)
  BY <1>1, Zenon DEF Stands
<1>6. \A m \in Nat : m < n => ReadTopic(Stands(b, ss, T, m), each) = Stands(b, ss, T, m + 1)
  BY TopicTaken
<1>7. ReadTopic(Stands(b, ss, T, n), each) = Stands(b, ss, T, n)
  BY TopicsTaken
<1> HIDE DEF n, e
<1>8. \A k \in Nat : ReadTopic(Stands(b, ss, T, least(k)), each) = Stands(b, ss, T, least(k + 1))
  <2> SUFFICES ASSUME NEW k \in Nat
               PROVE ReadTopic(Stands(b, ss, T, least(k)), each) = Stands(b, ss, T, least(k + 1))
    OBVIOUS
  <2>1. CASE k < n
    <3>1. least(k) = k /\ least(k + 1) = k + 1
      BY <1>1, <2>1
    <3> HIDE DEF least
    <3> QED
      BY <1>6, <2>1, <3>1
  <2>2. CASE ~ (k < n)
    <3>1. least(k) = n /\ least(k + 1) = n
      BY <1>1, <2>2
    <3> HIDE DEF least
    <3> QED
      BY <1>7, <3>1
  <2> QED
    BY <2>1, <2>2
<1>9. least(0) = 0 /\ least(e) = n
  BY <1>1, <1>3
<1> HIDE DEF least
<1>10. \A k \in 0..e : A[k] = IF k = 0 THEN Reader(b, 3, e, << >>) ELSE ReadTopic(A[k - 1], each)
  <2> SUFFICES ASSUME NEW k \in 0..e
               PROVE A[k] = IF k = 0 THEN Reader(b, 3, e, << >>) ELSE ReadTopic(A[k - 1], each)
    OBVIOUS
  <2>1. CASE k = 0
    BY <1>4, <1>9, <2>1
  <2>2. CASE k # 0
    <3>1. k - 1 \in Nat /\ k - 1 \in 0..e /\ (k - 1) + 1 = k
      BY <1>3, <2>2
    <3>2. A[k] = Stands(b, ss, T, least(k)) /\ A[k - 1] = Stands(b, ss, T, least(k - 1))
      BY <3>1
    <3>3. ReadTopic(Stands(b, ss, T, least(k - 1)), each) = Stands(b, ss, T, least((k - 1) + 1))
      BY <1>8, <3>1
    <3> HIDE DEF A
    <3> QED
      BY <2>2, <3>1, <3>2, <3>3
  <2> QED
    BY <2>1, <2>2
<1>11. A = [k \in 0..e |-> A[k]]
  OBVIOUS
<1> HIDE DEF A
<1>12. \E after : after = [k \in 0..e |-> IF k = 0 THEN Reader(b, 3, e, << >>)
                                                  ELSE ReadTopic(after[k - 1], each)]
  <2>1. A = [k \in 0..e |-> IF k = 0 THEN Reader(b, 3, e, << >>) ELSE ReadTopic(A[k - 1], each)]
    BY <1>10, <1>11
  <2> QED
    BY <2>1
<1> DEFINE F == CHOOSE after :
                  after = [k \in 0..e |-> IF k = 0 THEN Reader(b, 3, e, << >>)
                                                   ELSE ReadTopic(after[k - 1], each)]
<1>13. ReadTopics(b, e, each) = F[e]
  BY DEF ReadTopics
<1>14. F = [k \in 0..e |-> IF k = 0 THEN Reader(b, 3, e, << >>) ELSE ReadTopic(F[k - 1], each)]
  BY <1>12, Zenon
<1> HIDE DEF F
<1>15. \A k \in 0..e : F[k] = IF k = 0 THEN Reader(b, 3, e, << >>) ELSE ReadTopic(F[k - 1], each)
  BY <1>14
<1> DEFINE S == {k \in Nat : k <= e => F[k] = Stands(b, ss, T, least(k))}
<1>16. 0 \in S
  <2>1. 0 \in 0..e
    BY <1>3
  <2>2. F[0] = Reader(b, 3, e, << >>)
    BY <1>15, <2>1
  <2> QED
    BY <1>4, <1>9, <2>2
<1>17. ASSUME NEW k \in Nat, k \in S PROVE k + 1 \in S
  <2> SUFFICES ASSUME k + 1 <= e PROVE F[k + 1] = Stands(b, ss, T, least(k + 1))
    OBVIOUS
  <2>1. k + 1 \in 0..e /\ k + 1 # 0 /\ (k + 1) - 1 = k /\ k <= e
    BY <1>3
  <2>2. F[k] = Stands(b, ss, T, least(k))
    BY <1>17, <2>1
  <2>3. F[k + 1] = ReadTopic(F[(k + 1) - 1], each)
    BY <1>15, <2>1, Zenon
  <2>4. ReadTopic(Stands(b, ss, T, least(k)), each) = Stands(b, ss, T, least(k + 1))
    BY <1>8
  <2> QED
    BY <2>1, <2>2, <2>3, <2>4, Zenon
<1> HIDE DEF S
<1>18. \A k \in Nat : k \in S
  BY <1>16, <1>17, Induction
<1>19. e \in S
  BY <1>3, <1>18
<1>20. F[e] = Stands(b, ss, T, least(e))
  BY <1>3, <1>19 DEF S
<1> QED
  BY <1>5, <1>9, <1>13, <1>20, Zenon DEF e, n

-----------------------------------------------------------------------------
(* Packet by packet.                                                         *)

\* The deserializer of every type.
LEMMA Dispatch ==
    ASSUME NEW h, NEW b, NEW e
    PROVE  /\ h \div 16 = CONNECT => Deserialize(h, b, e) = MQTTDeserialize_connect(b, e)
           /\ h \div 16 = CONNACK => Deserialize(h, b, e) = MQTTDeserialize_connack(b, e)
           /\ h \div 16 = PUBLISH => Deserialize(h, b, e) = MQTTDeserialize_publish(h, b, e)
           /\ h \div 16 \in Acks => Deserialize(h, b, e) = MQTTDeserialize_ack(h, b, e)
           /\ h \div 16 = SUBSCRIBE => Deserialize(h, b, e) = MQTTDeserialize_subscribe(h, b, e)
           /\ h \div 16 = SUBACK => Deserialize(h, b, e) = MQTTDeserialize_suback(b, e)
           /\ h \div 16 = UNSUBSCRIBE =>
                Deserialize(h, b, e) = MQTTDeserialize_unsubscribe(h, b, e)
           /\ h \div 16 = UNSUBACK => Deserialize(h, b, e) = MQTTDeserialize_unsuback(h, b, e)
           /\ h \div 16 \in NoBody => Deserialize(h, b, e) = Read([type |-> h \div 16])
<1> DEFINE type == h \div 16
<1>1. Deserialize(h, b, e) =
        CASE type = CONNECT -> MQTTDeserialize_connect(b, e)
          [] type = CONNACK -> MQTTDeserialize_connack(b, e)
          [] type = PUBLISH -> MQTTDeserialize_publish(h, b, e)
          [] type \in Acks -> MQTTDeserialize_ack(h, b, e)
          [] type = SUBSCRIBE -> MQTTDeserialize_subscribe(h, b, e)
          [] type = SUBACK -> MQTTDeserialize_suback(b, e)
          [] type = UNSUBSCRIBE -> MQTTDeserialize_unsubscribe(h, b, e)
          [] type = UNSUBACK -> MQTTDeserialize_unsuback(h, b, e)
          [] OTHER -> Read([type |-> type])
  BY DEF Deserialize
<1> HIDE DEF type
<1>2. /\ type = CONNECT => Deserialize(h, b, e) = MQTTDeserialize_connect(b, e)
      /\ type = CONNACK => Deserialize(h, b, e) = MQTTDeserialize_connack(b, e)
      /\ type = PUBLISH => Deserialize(h, b, e) = MQTTDeserialize_publish(h, b, e)
      /\ type \in Acks => Deserialize(h, b, e) = MQTTDeserialize_ack(h, b, e)
      /\ type = SUBSCRIBE => Deserialize(h, b, e) = MQTTDeserialize_subscribe(h, b, e)
      /\ type = SUBACK => Deserialize(h, b, e) = MQTTDeserialize_suback(b, e)
      /\ type = UNSUBSCRIBE => Deserialize(h, b, e) = MQTTDeserialize_unsubscribe(h, b, e)
      /\ type = UNSUBACK => Deserialize(h, b, e) = MQTTDeserialize_unsuback(h, b, e)
      /\ type \in NoBody => Deserialize(h, b, e) = Read([type |-> type])
  BY <1>1 DEF Acks, NoBody, CONNECT, CONNACK, PUBLISH, PUBACK, PUBREC, PUBREL, PUBCOMP, SUBSCRIBE,
              SUBACK, UNSUBSCRIBE, UNSUBACK, PINGREQ, PINGRESP, DISCONNECT
<1> QED
  BY <1>2 DEF type

\* The serializer of every type.
LEMMA BodyOf ==
    ASSUME NEW p
    PROVE  /\ p.type = CONNECT => Body(p) = MQTTSerialize_connect(p)
           /\ p.type = CONNACK => Body(p) = MQTTSerialize_connack(p)
           /\ p.type = PUBLISH => Body(p) = MQTTSerialize_publish(p)
           /\ p.type \in Acks => Body(p) = MQTTSerialize_ack(p)
           /\ p.type = SUBSCRIBE => Body(p) = MQTTSerialize_subscribe(p)
           /\ p.type = SUBACK => Body(p) = MQTTSerialize_suback(p)
           /\ p.type = UNSUBSCRIBE => Body(p) = MQTTSerialize_unsubscribe(p)
           /\ p.type = UNSUBACK => Body(p) = MQTTSerialize_unsuback(p)
           /\ p.type \in NoBody => Body(p) = << >>
BY DEF Body, MQTTSerialize_zero, Acks, NoBody, CONNECT, CONNACK, PUBLISH, PUBACK, PUBREC, PUBREL,
       PUBCOMP, SUBSCRIBE, SUBACK, UNSUBSCRIBE, UNSUBACK, PINGREQ, PINGRESP, DISCONNECT

\* The remaining length of every type.
LEMMA LengthOf ==
    ASSUME NEW p
    PROVE  /\ p.type = CONNECT => Length(p) = MQTTSerialize_connectLength(p)
           /\ p.type = PUBLISH => Length(p) = MQTTSerialize_publishLength(p)
           /\ p.type = SUBSCRIBE => Length(p) = MQTTSerialize_subscribeLength(p)
           /\ p.type = UNSUBSCRIBE => Length(p) = MQTTSerialize_unsubscribeLength(p)
           /\ p.type = SUBACK => Length(p) = 2 + Len(p.codes)
           /\ p.type \in Acks \cup {UNSUBACK, CONNACK} => Length(p) = 2
           /\ p.type \in NoBody => Length(p) = 0
BY DEF Length, Acks, NoBody, CONNECT, CONNACK, PUBLISH, PUBACK, PUBREC, PUBREL,
       PUBCOMP, SUBSCRIBE, SUBACK, UNSUBSCRIBE, UNSUBACK, PINGREQ, PINGRESP, DISCONNECT

\* The header of every type.
LEMMA HeaderOf ==
    ASSUME NEW p
    PROVE  /\ p.type = PUBLISH =>
                HeaderByte(p) = 16 * p.type + (8 * Flag(p.dup) + 2 * p.qos + Flag(p.retained))
           /\ p.type \in {SUBSCRIBE, UNSUBSCRIBE} =>
                HeaderByte(p) = 16 * p.type + (8 * Flag(p.dup) + 2)
           /\ p.type \in Acks => HeaderByte(p) = 16 * p.type + 8 * Flag(p.dup)
           /\ p.type \in NoBody \cup {CONNECT, CONNACK, SUBACK, UNSUBACK} =>
                HeaderByte(p) = 16 * p.type + 0
BY DEF HeaderByte, Acks, NoBody, CONNECT, CONNACK, PUBLISH, PUBACK, PUBREC, PUBREL,
       PUBCOMP, SUBSCRIBE, SUBACK, UNSUBSCRIBE, UNSUBACK, PINGREQ, PINGRESP, DISCONNECT

\* A flag is one bit.
LEMMA FlagBits ==
    ASSUME NEW f \in BOOLEAN
    PROVE  Flag(f) \in {0, 1} /\ (Flag(f) = 1 <=> f)
BY DEF Flag

\* The bits of a header.
LEMMA HeaderBits ==
    ASSUME NEW t \in 1..14, NEW d \in {0, 1}, NEW q \in 0..2, NEW r \in {0, 1}
    PROVE  /\ (16 * t + (8 * d + 2 * q + r)) \div 16 = t
           /\ ((16 * t + (8 * d + 2 * q + r)) \div 8) % 2 = d
           /\ ((16 * t + (8 * d + 2 * q + r)) \div 2) % 4 = q
           /\ ((16 * t + (8 * d + 2 * q + r)) \div 1) % 2 = r
OBVIOUS

\* The bits of a header without qos and retain.
LEMMA OtherHeaderBits ==
    ASSUME NEW t \in 1..14, NEW d \in {0, 1}
    PROVE  /\ (16 * t + (8 * d + 2)) \div 16 = t
           /\ ((16 * t + (8 * d + 2)) \div 8) % 2 = d
           /\ (16 * t + 8 * d) \div 16 = t
           /\ ((16 * t + 8 * d) \div 8) % 2 = d
           /\ (16 * t + 0) \div 16 = t
OBVIOUS

\* What a buffer holds is what is copied from there.
LEMMA PartRead ==
    ASSUME NEW b \in Bytes, NEW i \in Nat \ {0}, NEW s \in Bytes, Holds(b, i, s)
    PROVE  SubSeq(b, i, i + Len(s) - 1) = s
<1>1. Len(s) \in Nat /\ Len(b) \in Nat /\ s = [j \in 1..Len(s) |-> s[j]]
  BY DEF Bytes
<1>2. i + Len(s) - 1 <= Len(b) /\ \A j \in 1..Len(s) : b[i + j - 1] = s[j]
  BY DEF Holds
<1>3. SubSeq(b, i, i + Len(s) - 1) = [j \in 1..Len(s) |-> b[i + j - 1]]
  BY <1>1, <1>2 DEF Bytes
<1> QED
  BY <1>1, <1>2, <1>3, Zenon

\* A byte is read back.
LEMMA ByteRead ==
    ASSUME NEW b \in Bytes, NEW i \in Nat \ {0}, NEW c, Holds(b, i, <<c>>)
    PROVE  At(b, i) = c
<1>1. i + 1 - 1 <= Len(b) /\ b[i + 1 - 1] = c
  BY DEF Holds
<1>2. i <= Len(b) /\ b[i] = c
  BY <1>1
<1> QED
  BY <1>2 DEF At

\* Two bytes are read back.
LEMMA BytesRead ==
    ASSUME NEW b \in Bytes, NEW i \in Nat \ {0}, NEW c, NEW d, Holds(b, i, <<c, d>>)
    PROVE  At(b, i) = c /\ At(b, i + 1) = d
<1>1. /\ i + 2 - 1 <= Len(b)
      /\ b[i + 1 - 1] = <<c, d>>[1] /\ b[i + 2 - 1] = <<c, d>>[2]
  BY DEF Holds
<1>2. i + 1 <= Len(b) /\ i <= Len(b) /\ b[i] = c /\ b[i + 1] = d
  <2>1. Len(b) \in Nat
    BY DEF Bytes
  <2> QED
    BY <1>1, <2>1
<1> QED
  BY <1>2 DEF At

-----------------------------------------------------------------------------
(* The packets of two bytes and of none.                                     *)

\* PUBACK, PUBREC, PUBREL and PUBCOMP are read as they were written.
LEMMA AckRead ==
    ASSUME NEW p \in [type : Acks, dup : BOOLEAN, id : Int16], NEW b \in Bytes,
           Holds(b, 1, Body(p))
    PROVE  Deserialize(HeaderByte(p), b, Length(p) + 1) = Read(p)
<1> DEFINE h == HeaderByte(p)
<1>1. p.type \in Acks /\ p.dup \in BOOLEAN /\ p.id \in Int16
  OBVIOUS
<1>2. p.type \in 1..14
  BY <1>1 DEF Acks, PUBACK, PUBREC, PUBREL, PUBCOMP
<1>3. h = 16 * p.type + 8 * Flag(p.dup) /\ Flag(p.dup) \in {0, 1} /\ (Flag(p.dup) = 1 <=> p.dup)
  BY <1>1, HeaderOf, FlagBits
<1>4. h \div 16 = p.type /\ Bit(h, 8) = Flag(p.dup)
  BY <1>2, <1>3, OtherHeaderBits DEF Bit
<1>5. Length(p) + 1 = 3
  BY <1>1, LengthOf
<1>6. Body(p) = writeInt(p.id)
  BY <1>1, BodyOf DEF MQTTSerialize_ack
<1>7. readInt(b, 1) = p.id
  BY <1>1, <1>6, IntRead
<1>8. p = [type |-> p.type, dup |-> p.dup, id |-> p.id]
  OBVIOUS
<1> HIDE DEF h
<1>9. Deserialize(h, b, 3) = MQTTDeserialize_ack(h, b, 3)
  BY <1>1, <1>4, Dispatch
<1>10. MQTTDeserialize_ack(h, b, 3)
         = Read([type |-> h \div 16, dup |-> Bit(h, 8) = 1, id |-> readInt(b, 1)])
  BY DEF MQTTDeserialize_ack
<1>11. (Bit(h, 8) = 1) = p.dup
  BY <1>1, <1>3, <1>4
<1>12. Deserialize(h, b, 3) = Read(p)
  BY <1>4, <1>7, <1>8, <1>9, <1>10, <1>11, Zenon
<1> QED
  BY <1>5, <1>12 DEF h

\* UNSUBACK is read as it was written.
LEMMA UnsubackRead ==
    ASSUME NEW p \in [type : {UNSUBACK}, id : Int16], NEW b \in Bytes, Holds(b, 1, Body(p))
    PROVE  Deserialize(HeaderByte(p), b, Length(p) + 1) = Read(p)
<1> DEFINE h == HeaderByte(p)
<1>1. p.type = UNSUBACK /\ p.id \in Int16 /\ p = [type |-> UNSUBACK, id |-> p.id]
  OBVIOUS
<1>2. p.type \in 1..14
  BY <1>1 DEF UNSUBACK
<1>3. h = 16 * p.type + 0
  BY <1>1, HeaderOf
<1>4. h \div 16 = p.type
  BY <1>2, <1>3
<1>5. Length(p) + 1 = 3
  BY <1>1, LengthOf
<1>6. Body(p) = writeInt(p.id)
  BY <1>1, BodyOf DEF MQTTSerialize_unsuback
<1>7. readInt(b, 1) = p.id
  BY <1>1, <1>6, IntRead
<1> HIDE DEF h
<1>8. Deserialize(h, b, 3) = MQTTDeserialize_unsuback(h, b, 3)
  BY <1>1, <1>4, Dispatch
<1>9. MQTTDeserialize_unsuback(h, b, 3) = Read([type |-> UNSUBACK, id |-> readInt(b, 1)])
  BY DEF MQTTDeserialize_unsuback
<1>10. Deserialize(h, b, 3) = Read(p)
  BY <1>1, <1>7, <1>8, <1>9, Zenon
<1> QED
  BY <1>5, <1>10 DEF h

\* The deserializer of CONNACK.
LEMMA ConnackDispatch ==
    ASSUME NEW h, NEW b, NEW e, h \div 16 = CONNACK
    PROVE  Deserialize(h, b, e) = MQTTDeserialize_connack(b, e)
BY Dispatch

\* CONNACK is read as it was written.
LEMMA ConnackRead ==
    ASSUME NEW p \in [type : {CONNACK}, sessionPresent : BOOLEAN, code : Byte],
           NEW b \in Bytes, Holds(b, 1, Body(p))
    PROVE  Deserialize(HeaderByte(p), b, Length(p) + 1) = Read(p)
<1> DEFINE h == HeaderByte(p)
<1>1. /\ p.type = CONNACK /\ p.sessionPresent \in BOOLEAN
      /\ p = [type |-> CONNACK, sessionPresent |-> p.sessionPresent, code |-> p.code]
  OBVIOUS
<1>2. p.type \in 1..14
  BY <1>1 DEF CONNACK
<1>3. h = 16 * p.type + 0
  BY <1>1, HeaderOf
<1>4. h \div 16 = p.type
  BY <1>2, <1>3
<1>5. Length(p) + 1 = 3
  BY <1>1, LengthOf
<1>6. Body(p) = <<Flag(p.sessionPresent), p.code>>
  BY <1>1, BodyOf DEF MQTTSerialize_connack
<1>7. At(b, 1) = Flag(p.sessionPresent) /\ At(b, 2) = p.code
  <2>1. Holds(b, 1, <<Flag(p.sessionPresent), p.code>>) /\ 1 \in Nat \ {0} /\ 1 + 1 = 2
    BY <1>6
  <2>2. At(b, 1) = Flag(p.sessionPresent) /\ At(b, 1 + 1) = p.code
    BY <2>1, BytesRead, Zenon
  <2> QED
    BY <2>1, <2>2
<1>8. Flag(p.sessionPresent) \in {0, 1} /\ (Flag(p.sessionPresent) = 1 <=> p.sessionPresent)
  BY <1>1, FlagBits
<1>9. (Bit(At(b, 1), 1) = 1) = p.sessionPresent
  <2>1. Bit(At(b, 1), 1) = Flag(p.sessionPresent)
    BY <1>7, <1>8 DEF Bit
  <2> QED
    BY <1>1, <1>8, <2>1
<1> HIDE DEF h
<1>10. Deserialize(h, b, 3) = MQTTDeserialize_connack(b, 3)
  <2>1. h \div 16 = CONNACK
    BY <1>1, <1>4
  <2> QED
    BY <2>1, ConnackDispatch, Zenon
<1>11. MQTTDeserialize_connack(b, 3)
         = Read([type |-> CONNACK, sessionPresent |-> Bit(At(b, 1), 1) = 1, code |-> At(b, 2)])
  BY DEF MQTTDeserialize_connack
<1>12. Deserialize(h, b, 3) = Read(p)
  BY <1>1, <1>7, <1>9, <1>10, <1>11, Zenon
<1> QED
  BY <1>5, <1>12 DEF h

\* A packet without a body is read from any buffer.
LEMMA NoBodyRead ==
    ASSUME NEW p \in [type : NoBody], NEW b
    PROVE  Deserialize(HeaderByte(p), b, Length(p) + 1) = Read(p)
<1> DEFINE h == HeaderByte(p)
<1>1. p.type \in NoBody /\ p = [type |-> p.type]
  OBVIOUS
<1>2. p.type \in 1..14
  BY <1>1 DEF NoBody, PINGREQ, PINGRESP, DISCONNECT
<1>3. h = 16 * p.type + 0
  BY <1>1, HeaderOf
<1>4. h \div 16 = p.type
  BY <1>2, <1>3
<1> HIDE DEF h
<1>5. Deserialize(h, b, Length(p) + 1) = Read([type |-> h \div 16])
  BY <1>1, <1>4, Dispatch
<1>6. Deserialize(h, b, Length(p) + 1) = Read(p)
  BY <1>1, <1>4, <1>5, Zenon
<1> QED
  BY <1>6 DEF h

\* SUBACK is read as it was written, up to one code more than there is room for.
LEMMA SubackRead ==
    ASSUME NEW p \in [type : {SUBACK}, id : Int16, codes : Seq(Byte)], NEW b \in Bytes,
           Holds(b, 1, Body(p))
    PROVE  Deserialize(HeaderByte(p), b, Length(p) + 1)
             = IF TooMany(p) THEN Refused(-1) ELSE Read(p)
<1> DEFINE h == HeaderByte(p)  e == Length(p) + 1
<1>1. /\ p.type = SUBACK /\ p.id \in Int16 /\ p.codes \in Bytes
      /\ p = [type |-> SUBACK, id |-> p.id, codes |-> p.codes]
  BY DEF Bytes
<1>2. p.type \in 1..14 /\ p.id \in Nat
  BY <1>1 DEF SUBACK, Int16
<1>3. h = 16 * p.type + 0
  BY <1>1, HeaderOf
<1>4. h \div 16 = p.type
  BY <1>2, <1>3
<1>5. Len(p.codes) \in Nat
  BY <1>1 DEF Bytes
<1>6. e = 3 + Len(p.codes)
  BY <1>1, <1>5, LengthOf
<1>7. Body(p) = writeInt(p.id) \o p.codes
  BY <1>1, BodyOf DEF MQTTSerialize_suback
<1>8. writeInt(p.id) \in Bytes /\ Len(writeInt(p.id)) = 2
  BY <1>2, IntBytes
<1>9. Holds(b, 1, writeInt(p.id)) /\ Holds(b, 1 + Len(writeInt(p.id)), p.codes)
  <2> DEFINE w == writeInt(p.id)  c == p.codes
  <2>1. w \in Bytes /\ c \in Bytes /\ Holds(b, 1, w \o c) /\ 1 \in Nat \ {0}
    BY <1>1, <1>7, <1>8
  <2> HIDE DEF w, c
  <2>2. Holds(b, 1, w) /\ Holds(b, 1 + Len(w), c)
    BY <2>1, HoldsApart
  <2> QED
    BY <2>2 DEF w, c
<1>10. readInt(b, 1) = p.id
  BY <1>1, <1>9, IntRead
<1>11. SubSeq(b, 3, e - 1) = p.codes
  <2>1. Holds(b, 3, p.codes) /\ 3 \in Nat \ {0}
    BY <1>8, <1>9
  <2>2. SubSeq(b, 3, 3 + Len(p.codes) - 1) = p.codes
    BY <1>1, <2>1, PartRead
  <2>3. e - 1 = 3 + Len(p.codes) - 1
    BY <1>5, <1>6
  <2> QED
    BY <2>2, <2>3, Zenon
<1>12. ~ (e - 1 < 2) /\ (e - 3 > MaxCount + 1 <=> TooMany(p))
  <2>1. e - 3 = Len(p.codes)
    BY <1>5, <1>6
  <2>2. ~ (e - 1 < 2)
    BY <1>5, <1>6
  <2> QED
    BY <1>1, <2>1, <2>2, Zenon DEF TooMany
<1> HIDE DEF h, e
<1>13. Deserialize(h, b, e) = MQTTDeserialize_suback(b, e)
  BY <1>1, <1>4, Dispatch
<1>14. MQTTDeserialize_suback(b, e)
         = IF TooMany(p) THEN Refused(-1)
           ELSE Read([type |-> SUBACK, id |-> readInt(b, 1), codes |-> SubSeq(b, 3, e - 1)])
  BY <1>12, Zenon DEF MQTTDeserialize_suback
<1>15. Deserialize(h, b, e) = IF TooMany(p) THEN Refused(-1) ELSE Read(p)
  BY <1>1, <1>10, <1>11, <1>13, <1>14, Zenon
<1> QED
  BY <1>15 DEF h, e


-----------------------------------------------------------------------------
(* The packets with strings.                                                 *)

\* No bytes.
LEMMA NoBytes == << >> \in Bytes /\ Len(<< >>) = 0
BY DEF Bytes

\* A PUBLISH: the topic, an identifier unless at QoS 0, and the payload by itself.
LEMMA PublishBytes ==
    ASSUME NEW p \in PublishPackets
    PROVE  /\ Body(p) \in Bytes
           /\ Len(Body(p)) = 2 + Len(p.topic) + (IF p.qos > 0 THEN 2 ELSE 0)
           /\ Length(p) = Len(Body(p)) + p.payloadlen
<1> DEFINE w == writeMQTTString(p.topic)  c == IF p.qos > 0 THEN writeInt(p.id) ELSE << >>
<1>1. /\ p.type = PUBLISH /\ p.topic \in MQTTString /\ p.id \in Nat /\ p.qos \in 0..2
      /\ p.payloadlen \in Nat
  BY DEF PublishPackets, Int16
<1>2. w \in Bytes /\ Len(w) = 2 + Len(p.topic) /\ Len(p.topic) \in Nat
  BY <1>1, StringBytes DEF Int16
<1>3. c \in Bytes /\ Len(c) = IF p.qos > 0 THEN 2 ELSE 0
  <2>1. CASE p.qos > 0
    <3>1. c = writeInt(p.id)
      BY <2>1
    <3>2. c \in Bytes /\ Len(c) = 2
      BY <1>1, <3>1, IntBytes
    <3> HIDE DEF c
    <3> QED
      BY <2>1, <3>2
  <2>2. CASE ~ (p.qos > 0)
    <3>1. c = << >>
      BY <2>2
    <3> HIDE DEF c
    <3>2. c \in Bytes /\ Len(c) = 0
      BY <3>1, NoBytes
    <3> HIDE DEF c
    <3> QED
      BY <2>2, <3>2
  <2> QED
    BY <2>1, <2>2
<1>4. Body(p) = w \o c
  BY <1>1, BodyOf DEF MQTTSerialize_publish
<1>5. Length(p) = 2 + Len(p.topic) + p.payloadlen + (IF p.qos > 0 THEN 2 ELSE 0)
  BY <1>1, LengthOf DEF MQTTSerialize_publishLength
<1> HIDE DEF w, c
<1>6. w \o c \in Bytes /\ Len(w \o c) = Len(w) + Len(c)
  BY <1>2, <1>3, Joined
<1>7. Body(p) \in Bytes /\ Len(Body(p)) = Len(w) + Len(c)
  BY <1>4, <1>6, Zenon
<1> DEFINE l == Len(p.topic)  u == IF p.qos > 0 THEN 2 ELSE 0  n == Len(Body(p))
<1>8. l \in Nat /\ u \in Nat /\ p.payloadlen \in Nat
  BY <1>1, <1>2
<1>9. n = (2 + l) + u /\ Length(p) = 2 + l + p.payloadlen + u
  BY <1>2, <1>3, <1>5, <1>7, Zenon
<1> HIDE DEF l, u, n
<1>10. n = 2 + l + u /\ Length(p) = n + p.payloadlen
  BY <1>8, <1>9
<1> QED
  BY <1>7, <1>10 DEF l, u, n

\* PUBLISH is read as it was written, with the length of its payload.
LEMMA PublishRead ==
    ASSUME NEW p \in PublishPackets, p.qos = 0 => p.id = 0, NEW b \in Bytes,
           Holds(b, 1, Body(p))
    PROVE  Deserialize(HeaderByte(p), b, Length(p) + 1) = Read(p)
<1> DEFINE h == HeaderByte(p)  e == Length(p) + 1
           w == writeMQTTString(p.topic)  c == IF p.qos > 0 THEN writeInt(p.id) ELSE << >>
           r == Reader(b, 3 + Len(p.topic), e, <<p.topic>>)
<1>1. /\ p.type = PUBLISH /\ p.topic \in MQTTString /\ p.id \in Int16 /\ p.qos \in 0..2
      /\ p.payloadlen \in Nat /\ p.dup \in BOOLEAN /\ p.retained \in BOOLEAN
  BY DEF PublishPackets
<1>2. p = [type |-> PUBLISH, dup |-> p.dup, qos |-> p.qos, retained |-> p.retained,
           topic |-> p.topic, id |-> p.id, payloadlen |-> p.payloadlen]
  BY DEF PublishPackets
<1>3. /\ h = 16 * p.type + (8 * Flag(p.dup) + 2 * p.qos + Flag(p.retained))
      /\ Flag(p.dup) \in {0, 1} /\ (Flag(p.dup) = 1 <=> p.dup)
      /\ Flag(p.retained) \in {0, 1} /\ (Flag(p.retained) = 1 <=> p.retained)
  BY <1>1, HeaderOf, FlagBits
<1>4. p.type \in 1..14
  BY <1>1 DEF PUBLISH
<1>5. /\ h \div 16 = PUBLISH /\ Bit(h, 8) = Flag(p.dup) /\ (h \div 2) % 4 = p.qos
      /\ Bit(h, 1) = Flag(p.retained)
  BY <1>1, <1>3, <1>4, HeaderBits DEF Bit
<1>6. w \in Bytes /\ Len(w) = 2 + Len(p.topic) /\ Len(p.topic) \in Nat
  BY <1>1, StringBytes DEF Int16
<1>7. c \in Bytes
  BY <1>1, IntBytes DEF Bytes, Int16
<1>8. Body(p) = w \o c
  BY <1>1, BodyOf DEF MQTTSerialize_publish
<1>9. e = 3 + Len(p.topic) + p.payloadlen + (IF p.qos > 0 THEN 2 ELSE 0)
  <2>1. /\ Len(Body(p)) = 2 + Len(p.topic) + (IF p.qos > 0 THEN 2 ELSE 0)
        /\ Length(p) = Len(Body(p)) + p.payloadlen
    BY PublishBytes
  <2> DEFINE l == Len(p.topic)  u == IF p.qos > 0 THEN 2 ELSE 0  m == Length(p)
  <2>2. l \in Nat /\ u \in Nat /\ p.payloadlen \in Nat
    BY <1>1, <1>6
  <2>3. m = (2 + l + u) + p.payloadlen
    BY <2>1, Zenon
  <2> HIDE DEF l, u, m
  <2>4. m + 1 = 3 + l + p.payloadlen + u
    BY <2>2, <2>3
  <2> QED
    BY <2>4 DEF l, u, m
<1>10. Holds(b, 1, w) /\ Holds(b, 3 + Len(p.topic), c)
  <2>1. Holds(b, 1, w \o c) /\ 1 \in Nat \ {0}
    BY <1>8
  <2>2. 1 + Len(w) = 3 + Len(p.topic)
    BY <1>6
  <2> HIDE DEF w, c
  <2>3. Holds(b, 1, w) /\ Holds(b, 1 + Len(w), c)
    BY <1>6, <1>7, <2>1, HoldsApart
  <2> QED
    BY <2>2, <2>3
<1>11. p.qos > 0 => readInt(b, 3 + Len(p.topic)) = p.id
  <2>1. 3 + Len(p.topic) \in Nat \ {0}
    BY <1>6
  <2> QED
    BY <1>1, <1>10, <2>1, IntRead
<1>12. e \in Int /\ 1 + 2 + Len(p.topic) <= e /\ 1 + 2 <= e
  BY <1>1, <1>6, <1>9
<1> HIDE DEF h, e, c
<1>13. readMQTTLenString(Reader(b, 1, e, << >>), 2) = r
  <2>1. Holds(b, 1, writeMQTTString(p.topic)) /\ 1 \in Nat \ {0} /\ 2 \in Nat
    BY <1>10
  <2> DEFINE none == << >>
  <2> HIDE DEF none
  <2>2. readMQTTLenString(Reader(b, 1, e, none), 2)
          = Reader(b, 1 + 2 + Len(p.topic), e, Append(none, p.topic))
    BY <1>1, <1>12, <2>1, StringTaken
  <2>3. 1 + 2 + Len(p.topic) = 3 + Len(p.topic) /\ Append(none, p.topic) = <<p.topic>>
    BY <1>6 DEF none
  <2> QED
    BY <2>2, <2>3, Zenon DEF none
<1>14. r.ok = TRUE /\ r.at = 3 + Len(p.topic) /\ r.got[1] = p.topic
  BY DEF Reader
<1> HIDE DEF r, w
<1>15. Deserialize(h, b, e) = MQTTDeserialize_publish(h, b, e)
  BY <1>5, Dispatch
<1> DEFINE behind == IF p.qos > 0 THEN r.at + 2 ELSE r.at
<1>16. MQTTDeserialize_publish(h, b, e)
         = Read([type |-> PUBLISH, dup |-> Bit(h, 8) = 1, qos |-> p.qos,
                 retained |-> Bit(h, 1) = 1, topic |-> r.got[1],
                 id |-> IF p.qos > 0 THEN readInt(b, r.at) ELSE 0,
                 payloadlen |-> e - behind])
  BY <1>5, <1>13, <1>14, Zenon DEF MQTTDeserialize_publish
<1>17. (Bit(h, 8) = 1) = p.dup /\ (Bit(h, 1) = 1) = p.retained
  BY <1>1, <1>3, <1>5
<1>18. (IF p.qos > 0 THEN readInt(b, r.at) ELSE 0) = p.id
  BY <1>1, <1>11, <1>14
<1>19. e - behind = p.payloadlen
  BY <1>1, <1>6, <1>9, <1>14
<1> HIDE DEF behind
<1>20. Deserialize(h, b, e) = Read(p)
  BY <1>2, <1>14, <1>15, <1>16, <1>17, <1>18, <1>19, Zenon
<1> QED
  BY <1>20 DEF h, e

-----------------------------------------------------------------------------
(* Topics.                                                                   *)

\* An UNSUBSCRIBE: the identifier and the topics.
LEMMA UnsubscribeBytes ==
    ASSUME NEW p, p.type = UNSUBSCRIBE, p.id \in Int16, p.topics \in Seq(MQTTString)
    PROVE  /\ Body(p) \in Bytes
           /\ Len(Body(p)) = 2 + MQTTstrlen(p.topics) /\ Length(p) = Len(Body(p))
           /\ MQTTstrlen(p.topics) \in Nat
<1> DEFINE w == writeInt(p.id)  c == Strings(p.topics)
<1>1. w \in Bytes /\ Len(w) = 2
  BY IntBytes DEF Int16
<1>2. c \in Bytes /\ Len(c) = MQTTstrlen(p.topics)
  BY StringsHeld
<1>3. Body(p) = w \o c
  BY BodyOf DEF MQTTSerialize_unsubscribe
<1>4. Length(p) = 2 + MQTTstrlen(p.topics)
  BY LengthOf DEF MQTTSerialize_unsubscribeLength
<1> HIDE DEF w, c
<1>5. w \o c \in Bytes /\ Len(w \o c) = Len(w) + Len(c)
  BY <1>1, <1>2, Joined
<1>6. Len(c) \in Nat
  BY <1>2 DEF Bytes
<1> QED
  BY <1>1, <1>2, <1>3, <1>4, <1>5, <1>6

\* UNSUBSCRIBE is read as it was written.
LEMMA UnsubscribeRead ==
    ASSUME NEW p \in [type : {UNSUBSCRIBE}, dup : BOOLEAN, id : Int16, topics : Seq(MQTTString)],
           NEW b \in Bytes, Holds(b, 1, Body(p))
    PROVE  Deserialize(HeaderByte(p), b, Length(p) + 1) = Read(p)
<1> DEFINE h == HeaderByte(p)  e == Length(p) + 1  ss == p.topics  n == Len(ss)
           w == writeInt(p.id)  c == Strings(ss)  Z == Sizes(ss)
           r == Reader(b, e, e, ss)
<1>1. /\ p.type = UNSUBSCRIBE /\ p.dup \in BOOLEAN /\ p.id \in Int16
      /\ ss \in Seq(MQTTString)
  OBVIOUS
<1>2. p = [type |-> UNSUBSCRIBE, dup |-> p.dup, id |-> p.id, topics |-> p.topics]
  OBVIOUS
<1>3. /\ h = 16 * p.type + (8 * Flag(p.dup) + 2)
      /\ Flag(p.dup) \in {0, 1} /\ (Flag(p.dup) = 1 <=> p.dup)
  BY <1>1, HeaderOf, FlagBits
<1>4. p.type \in 1..14
  BY <1>1 DEF UNSUBSCRIBE
<1>5. h \div 16 = UNSUBSCRIBE /\ Bit(h, 8) = Flag(p.dup)
  BY <1>1, <1>3, <1>4, OtherHeaderBits, SMTT(30) DEF Bit
<1>6. w \in Bytes /\ Len(w) = 2
  BY <1>1, IntBytes DEF Int16
<1>7. c \in Bytes /\ \A k \in 1..n : Holds(c, Z[k - 1] + 1, writeMQTTString(ss[k]))
  BY <1>1, StringsHeld
<1>8. Body(p) = w \o c
  BY <1>1, BodyOf DEF MQTTSerialize_unsubscribe
<1>9. /\ Z \in [0..n -> Nat]
      /\ Z[0] = 0
      /\ \A k \in 1..n : Z[k] = Z[k - 1] + 2 + Len(ss[k])
  BY <1>1, SizesDef
<1>10. e = 3 + Z[n]
  <2>1. Len(Body(p)) = 2 + MQTTstrlen(p.topics) /\ Length(p) = Len(Body(p))
    BY <1>1, UnsubscribeBytes
  <2>2. n \in 0..n
    BY <1>1
  <2>3. Z[n] \in Nat
    BY <1>9, <2>2
  <2>4. Z[n] = MQTTstrlen(p.topics)
    BY DEF MQTTstrlen
  <2> QED
    BY <2>1, <2>3, <2>4
<1>11. \A k \in 1..n : ss[k] \in MQTTString /\ k - 1 \in 0..n
  BY <1>1
<1> HIDE DEF h, e, ss, n, w, c, Z
<1>12. Holds(b, 1, w) /\ Holds(b, 3, c)
  <2>1. Holds(b, 1, w \o c) /\ 1 \in Nat \ {0} /\ 1 + Len(w) = 3
    BY <1>6, <1>8
  <2>2. Holds(b, 1, w) /\ Holds(b, 1 + Len(w), c)
    BY <1>6, <1>7, <2>1, HoldsApart
  <2> QED
    BY <2>1, <2>2
<1>13. \A k \in 1..n : /\ Z[k] = Z[k - 1] + 2 + Len(ss[k]) + 0
                       /\ Holds(b, 3 + Z[k - 1], writeMQTTString(ss[k]))
  <2> SUFFICES ASSUME NEW k \in 1..n
               PROVE  /\ Z[k] = Z[k - 1] + 2 + Len(ss[k]) + 0
                      /\ Holds(b, 3 + Z[k - 1], writeMQTTString(ss[k]))
    OBVIOUS
  <2> DEFINE s == writeMQTTString(ss[k])  i == Z[k - 1] + 1
  <2>1. Z[k - 1] \in Nat /\ ss[k] \in MQTTString
    BY <1>9, <1>11
  <2>2. s \in Bytes /\ Len(ss[k]) \in Nat
    BY <2>1, StringBytes DEF Int16
  <2>3. i \in Nat \ {0} /\ 3 + i - 1 = 3 + Z[k - 1] /\ 3 \in Nat \ {0} /\ Holds(c, i, s)
    BY <1>7, <2>1
  <2> HIDE DEF s, i
  <2>4. Holds(b, 3 + i - 1, s)
    BY <1>7, <1>12, <2>2, <2>3, HoldsInside
  <2>5. Holds(b, 3 + Z[k - 1], writeMQTTString(ss[k]))
    BY <2>3, <2>4 DEF s
  <2>6. Z[k] = Z[k - 1] + 2 + Len(ss[k])
    BY <1>9
  <2> QED
    BY <2>1, <2>2, <2>5, <2>6
<1>14. Rows(b, ss, Z, 0)
  BY <1>9, <1>13 DEF Rows, n
<1>15. ReadTopics(b, e, 0) = r
  <2>1. 0 \in {0, 1}
    OBVIOUS
  <2>2. ReadTopics(b, 3 + Z[Len(ss)], 0) = Reader(b, 3 + Z[Len(ss)], 3 + Z[Len(ss)], ss)
    BY <1>1, <1>14, <2>1, AllRead
  <2> QED
    BY <1>10, <2>2, Zenon DEF n
<1>16. readInt(b, 1) = p.id
  BY <1>1, <1>12, IntRead DEF w
<1>17. r.ok = TRUE /\ r.got = ss
  BY DEF Reader
<1> HIDE DEF r
<1>18. Deserialize(h, b, e) = MQTTDeserialize_unsubscribe(h, b, e)
  BY <1>5, Dispatch
<1>19. MQTTDeserialize_unsubscribe(h, b, e)
         = Read([type |-> UNSUBSCRIBE, dup |-> Bit(h, 8) = 1, id |-> readInt(b, 1),
                 topics |-> r.got])
  BY <1>15, <1>17, Zenon DEF MQTTDeserialize_unsubscribe
<1>20. (Bit(h, 8) = 1) = p.dup
  BY <1>1, <1>3, <1>5
<1>21. Deserialize(h, b, e) = Read(p)
  BY <1>2, <1>16, <1>17, <1>18, <1>19, <1>20, Zenon DEF ss
<1> QED
  BY <1>21 DEF h, e

\* A SUBSCRIBE: the identifier, and every topic with its QoS.
LEMMA SubscribeBytes ==
    ASSUME NEW p \in SubscribePackets, Len(p.codes) = Len(p.topics)
    PROVE  /\ Body(p) \in Bytes
           /\ Len(Body(p)) = 2 + MQTTstrlen(p.topics) + Len(p.topics)
           /\ Length(p) = Len(Body(p))
           /\ MQTTstrlen(p.topics) \in Nat
<1> DEFINE w == writeInt(p.id)  c == Requests(p.topics, p.codes)
<1>1. /\ p.type = SUBSCRIBE /\ p.id \in Int16 /\ p.topics \in Seq(MQTTString)
      /\ p.codes \in Seq(Byte)
  BY DEF SubscribePackets
<1>2. w \in Bytes /\ Len(w) = 2
  BY <1>1, IntBytes DEF Int16
<1>3. c \in Bytes /\ Len(c) = MQTTstrlen(p.topics) + Len(p.topics)
  BY <1>1, RequestsHeld
<1>4. Body(p) = w \o c
  BY <1>1, BodyOf DEF MQTTSerialize_subscribe, Requests
<1>5. Length(p) = 2 + MQTTstrlen(p.topics) + Len(p.topics)
  BY <1>1, LengthOf DEF MQTTSerialize_subscribeLength
<1>6. MQTTstrlen(p.topics) \in Nat /\ Len(p.topics) \in Nat
  <2>1. Strings(p.topics) \in Bytes /\ Len(Strings(p.topics)) = MQTTstrlen(p.topics)
    BY <1>1, StringsHeld
  <2> QED
    BY <1>1, <2>1 DEF Bytes
<1> HIDE DEF w, c
<1>7. w \o c \in Bytes /\ Len(w \o c) = Len(w) + Len(c)
  BY <1>2, <1>3, Joined
<1> QED
  BY <1>2, <1>3, <1>4, <1>5, <1>6, <1>7

\* SUBSCRIBE is read as it was written.
LEMMA SubscribeRead ==
    ASSUME NEW p \in SubscribePackets, Len(p.codes) = Len(p.topics), NEW b \in Bytes,
           Holds(b, 1, Body(p))
    PROVE  Deserialize(HeaderByte(p), b, Length(p) + 1) = Read(p)
<1> DEFINE h == HeaderByte(p)  e == Length(p) + 1  ss == p.topics  n == Len(ss)
           w == writeInt(p.id)  c == Requests(ss, p.codes)  Z == Sizes(ss)
           T == [k \in 0..n |-> Z[k] + k]
           r == Reader(b, e, e, ss)
<1>1. /\ p.type = SUBSCRIBE /\ p.dup \in BOOLEAN /\ p.id \in Int16
      /\ ss \in Seq(MQTTString) /\ p.codes \in Seq(Byte)
  BY DEF SubscribePackets
<1>2. p = [type |-> SUBSCRIBE, dup |-> p.dup, id |-> p.id, topics |-> p.topics,
           codes |-> p.codes]
  BY DEF SubscribePackets
<1>3. /\ h = 16 * p.type + (8 * Flag(p.dup) + 2)
      /\ Flag(p.dup) \in {0, 1} /\ (Flag(p.dup) = 1 <=> p.dup)
  BY <1>1, HeaderOf, FlagBits
<1>4. p.type \in 1..14
  BY <1>1 DEF SUBSCRIBE
<1>5. h \div 16 = SUBSCRIBE /\ Bit(h, 8) = Flag(p.dup)
  BY <1>1, <1>3, <1>4, OtherHeaderBits, SMTT(30) DEF Bit
<1>6. w \in Bytes /\ Len(w) = 2
  BY <1>1, IntBytes DEF Int16
<1>7. /\ c \in Bytes
      /\ \A k \in 1..n : /\ Holds(c, Z[k - 1] + (k - 1) + 1, writeMQTTString(ss[k]))
                         /\ Holds(c, Z[k] + k, <<p.codes[k]>>)
  BY <1>1, RequestsHeld
<1>8. Body(p) = w \o c
  BY <1>1, BodyOf DEF MQTTSerialize_subscribe, Requests
<1>9. /\ Z \in [0..n -> Nat]
      /\ Z[0] = 0
      /\ \A k \in 1..n : Z[k] = Z[k - 1] + 2 + Len(ss[k])
  BY <1>1, SizesDef
<1>10. /\ T \in [0..n -> Nat] /\ T[0] = 0 /\ \A k \in 0..n : T[k] = Z[k] + k
       /\ n \in 0..n
  <2>1. n \in Nat /\ 0 \in 0..n /\ n \in 0..n
    BY <1>1
  <2> HIDE DEF n, Z
  <2> QED
    BY <1>9, <2>1
<1>11. e = 3 + T[n]
  <2>1. Len(Body(p)) = 2 + MQTTstrlen(p.topics) + n /\ Length(p) = Len(Body(p)) /\ n \in Nat
    BY <1>1, SubscribeBytes
  <2>2. Z[n] \in Nat /\ T[n] = Z[n] + n
    BY <1>9, <1>10
  <2>3. Z[n] = MQTTstrlen(p.topics)
    BY DEF MQTTstrlen
  <2> HIDE DEF T, Z, n
  <2> QED
    BY <2>1, <2>2, <2>3
<1>12. /\ \A k \in 1..n : /\ ss[k] \in MQTTString /\ k - 1 \in 0..n /\ k \in 0..n /\ k \in Nat
                          /\ p.codes[k] \in Byte /\ k \in 1..Len(p.codes)
       /\ DOMAIN ss = 1..n /\ p.codes = [k \in 1..n |-> p.codes[k]]
  BY <1>1
<1> HIDE DEF h, e, ss, n, w, c, Z, T
<1>13. Holds(b, 1, w) /\ Holds(b, 3, c)
  <2>1. Holds(b, 1, w \o c) /\ 1 \in Nat \ {0} /\ 1 + Len(w) = 3
    BY <1>6, <1>8
  <2>2. Holds(b, 1, w) /\ Holds(b, 1 + Len(w), c)
    BY <1>6, <1>7, <2>1, HoldsApart
  <2> QED
    BY <2>1, <2>2
<1>14. \A k \in 1..n : /\ T[k] = T[k - 1] + 2 + Len(ss[k]) + 1
                       /\ Holds(b, 3 + T[k - 1], writeMQTTString(ss[k]))
  <2> SUFFICES ASSUME NEW k \in 1..n
               PROVE  /\ T[k] = T[k - 1] + 2 + Len(ss[k]) + 1
                      /\ Holds(b, 3 + T[k - 1], writeMQTTString(ss[k]))
    OBVIOUS
  <2> DEFINE s == writeMQTTString(ss[k])  i == Z[k - 1] + (k - 1) + 1
             z == Z[k - 1]  y == Z[k]  l == Len(ss[k])  t == T[k - 1]  u == T[k]
  <2>1. z \in Nat /\ ss[k] \in MQTTString /\ k \in Nat /\ k - 1 \in Nat
    BY <1>9, <1>12
  <2>2. s \in Bytes /\ l \in Nat
    BY <2>1, StringBytes DEF Int16
  <2>3. t = z + (k - 1) /\ u = y + k
    BY <1>10, <1>12
  <2>4. y = z + 2 + l
    BY <1>9
  <2>5. Holds(c, i, s) /\ i = z + (k - 1) + 1
    BY <1>7
  <2> HIDE DEF s, i, z, y, l, t, u
  <2>6. i \in Nat \ {0} /\ 3 + i - 1 = 3 + t /\ 3 \in Nat \ {0}
    BY <2>1, <2>3, <2>5
  <2>7. Holds(b, 3 + i - 1, s)
    BY <1>7, <1>13, <2>2, <2>5, <2>6, HoldsInside
  <2>8. Holds(b, 3 + t, s)
    BY <2>6, <2>7
  <2>9. u = t + 2 + l + 1
    BY <2>1, <2>2, <2>3, <2>4
  <2> QED
    BY <2>8, <2>9 DEF s, t, u, l
<1>15. Rows(b, ss, T, 1)
  BY <1>10, <1>14 DEF Rows, n
<1>16. ReadTopics(b, e, 1) = r
  <2>1. 1 \in {0, 1}
    OBVIOUS
  <2>2. ReadTopics(b, 3 + T[Len(ss)], 1) = Reader(b, 3 + T[Len(ss)], 3 + T[Len(ss)], ss)
    BY <1>1, <1>15, <2>1, AllRead
  <2> QED
    BY <1>11, <2>2, Zenon DEF n
<1>17. readInt(b, 1) = p.id
  BY <1>1, <1>13, IntRead DEF w
<1>18. CodesBehind(b, ss) = p.codes
  <2>1. ASSUME NEW k \in 1..n PROVE At(b, 2 + Z[k] + k) = p.codes[k]
    <3> DEFINE i == Z[k] + k  s == <<p.codes[k]>>
    <3>1. Z[k] \in Nat /\ k \in Nat /\ k > 0 /\ p.codes[k] \in Byte
      BY <1>9, <1>12
    <3>2. i \in Nat \ {0} /\ 3 + i - 1 = 2 + Z[k] + k /\ 3 \in Nat \ {0}
      BY <3>1
    <3>3. Holds(c, i, s) /\ s \in Bytes
      BY <1>7, <3>1 DEF Bytes
    <3> HIDE DEF i, s
    <3>4. Holds(b, 3 + i - 1, s)
      BY <1>7, <1>13, <3>2, <3>3, HoldsInside
    <3>5. 3 + i - 1 \in Nat \ {0}
      BY <3>2
    <3>6. Holds(b, 3 + i - 1, <<p.codes[k]>>)
      BY <3>4 DEF s
    <3>7. At(b, 3 + i - 1) = p.codes[k]
      BY <3>5, <3>6, ByteRead
    <3> QED
      BY <3>2, <3>7
  <2>2. CodesBehind(b, ss) = [k \in 1..n |-> At(b, 2 + Z[k] + k)]
    BY <1>12 DEF CodesBehind, Z
  <2>3. p.codes = [k \in 1..n |-> p.codes[k]]
    BY <1>12
  <2> QED
    BY <2>1, <2>2, <2>3, Zenon
<1>19. r.ok = TRUE /\ r.got = ss
  BY DEF Reader
<1> HIDE DEF r
<1>20. Deserialize(h, b, e) = MQTTDeserialize_subscribe(h, b, e)
  BY <1>5, Dispatch
<1>21. MQTTDeserialize_subscribe(h, b, e)
         = Read([type |-> SUBSCRIBE, dup |-> Bit(h, 8) = 1, id |-> readInt(b, 1),
                 topics |-> r.got, codes |-> CodesBehind(b, r.got)])
  BY <1>16, <1>19, Zenon DEF MQTTDeserialize_subscribe
<1>22. (Bit(h, 8) = 1) = p.dup
  BY <1>1, <1>3, <1>5
<1>23. Deserialize(h, b, e) = Read(p)
  BY <1>2, <1>17, <1>18, <1>19, <1>20, <1>21, <1>22, Zenon DEF ss
<1> QED
  BY <1>23 DEF h, e


-----------------------------------------------------------------------------
(* CONNECT.                                                                  *)

\* The flags, whose bits say which strings follow.
HasBits(f, c, w, q, k, y, u) ==
    /\ f \in Byte
    /\ (f \div 2) % 2 = c
    /\ (f \div 4) % 2 = w
    /\ (f \div 8) % 4 = q
    /\ (f \div 32) % 2 = k
    /\ (f \div 64) % 2 = y
    /\ (f \div 128) % 2 = u

\* Every flag of a CONNECT has a bit of its own.
LEMMA ConnectBits ==
    ASSUME NEW c \in {0, 1}, NEW w \in {0, 1}, NEW q \in 0..2, NEW k \in {0, 1},
           NEW y \in {0, 1}, NEW u \in {0, 1}
    PROVE  HasBits(2 * c + (4 * w + 8 * q + 32 * k) + 64 * y + 128 * u, c, w, q, k, y, u)
BY DEF Byte, HasBits

\* A part of the first m strings.
LEMMA Slice ==
    ASSUME NEW S, NEW x \in Seq(S), NEW m \in Nat, m <= Len(x), NEW s \in Seq(S),
           NEW i \in Nat, i + Len(s) = m, \A j \in 1..Len(s) : x[i + j] = s[j]
    PROVE  /\ Len(SubSeq(x, 1, m)) = m
           /\ SubSeq(SubSeq(x, 1, m), i + 1, m) = s
<1> DEFINE y == SubSeq(x, 1, m)  n == Len(s)  z == SubSeq(y, i + 1, m)
<1>1. y \in Seq(S) /\ Len(y) = m /\ \A j \in 1..m : y[j] = x[j]
  OBVIOUS
<1>2. n \in Nat /\ s = [j \in 1..n |-> s[j]] /\ \A j \in 1..n : s[j] \in S
  OBVIOUS
<1> HIDE DEF y, n
<1>3. z = [j \in 1..n |-> y[i + j]]
  <2>1. i + 1 \in Int /\ m \in Int /\ m - (i + 1) + 1 = n
    BY <1>2 DEF n
  <2>2. z = [j \in 1..(m - (i + 1) + 1) |-> y[i + 1 + j - 1]]
    BY <1>1, <2>1
  <2>3. \A j \in 1..n : i + 1 + j - 1 = i + j
    BY <1>2
  <2> QED
    BY <2>1, <2>2, <2>3
<1>4. \A j \in 1..n : y[i + j] = s[j]
  <2> SUFFICES ASSUME NEW j \in 1..n PROVE y[i + j] = s[j]
    OBVIOUS
  <2>1. i + j \in 1..m
    BY <1>2 DEF n
  <2> QED
    BY <1>1, <2>1 DEF n
<1>5. z = s
  BY <1>2, <1>3, <1>4, Zenon
<1> QED
  BY <1>1, <1>5 DEF y

-----------------------------------------------------------------------------
(* A row of strings from i on, and a reader that has m of them.              *)
Row(b, ss, i) ==
    \A k \in 1..Len(ss) : Holds(b, i + Sizes(ss)[k - 1], writeMQTTString(ss[k]))

\* A reader that has m of the strings.
Upto(b, ss, i, m) ==
    Reader(b, i + Sizes(ss)[m], i + Sizes(ss)[Len(ss)], SubSeq(ss, 1, m))

\* Every string takes at least the two bytes of its length.
LEMMA SizesGrow ==
    ASSUME NEW ss \in Seq(MQTTString)
    PROVE  \A k \in 0..Len(ss) : /\ Sizes(ss)[k] \in Nat
                                 /\ Sizes(ss)[k] + 2 * (Len(ss) - k) <= Sizes(ss)[Len(ss)]
<1> DEFINE n == Len(ss)  T == Sizes(ss)
<1>1. n \in Nat /\ \A k \in 1..n : ss[k] \in MQTTString
  OBVIOUS
<1>2. \A k \in 1..n : Len(ss[k]) \in Nat
  BY <1>1, StringBytes DEF Int16
<1>3. T \in [0..n -> Nat] /\ \A k \in 1..n : T[k] = T[k - 1] + 2 + Len(ss[k])
  BY SizesDef
<1> HIDE DEF n, T
<1>4. \A k \in 1..n : T[k] >= T[k - 1] + 2
  <2> SUFFICES ASSUME NEW k \in 1..n PROVE T[k] >= T[k - 1] + 2
    OBVIOUS
  <2>1. k - 1 \in 0..n
    BY <1>1
  <2>2. T[k - 1] \in Nat /\ Len(ss[k]) \in Nat /\ T[k] = T[k - 1] + 2 + Len(ss[k])
    BY <1>2, <1>3, <2>1
  <2> QED
    BY <2>2
<1>5. \A k \in 0..n : T[k] + 2 * (n - k) <= T[n]
  BY <1>1, <1>3, <1>4, MarksGrow
<1>6. \A k \in 0..n : T[k] \in Nat
  BY <1>3
<1> QED
  BY <1>5, <1>6 DEF n, T

\* The arithmetic of the next string.
LEMMA WithinRow ==
    ASSUME NEW i \in Nat \ {0}, NEW x \in Nat, NEW l \in Nat, NEW z \in Nat, NEW y \in Nat,
           NEW least \in Nat, y = x + 2 + l, y <= z, x + least <= z
    PROVE  /\ i + x \in Nat \ {0} /\ i + z \in Int /\ (i + x) + 2 + l <= i + z
           /\ (i + x) + least <= i + z /\ (i + x) + 2 + l = i + y
OBVIOUS

\* The next string is taken if as much is left as the reader asks for.
LEMMA NextTaken ==
    ASSUME NEW b \in Bytes, NEW ss \in Seq(MQTTString), NEW i \in Nat \ {0}, Row(b, ss, i),
           NEW m \in Nat, m < Len(ss), NEW least \in Nat,
           Sizes(ss)[m] + least <= Sizes(ss)[Len(ss)]
    PROVE  readMQTTLenString(Upto(b, ss, i, m), least) = Upto(b, ss, i, m + 1)
<1> DEFINE n == Len(ss)  k == m + 1  T == Sizes(ss)  got == SubSeq(ss, 1, m)  s == ss[k]
           x == T[m]  y == T[k]  z == T[n]  l == Len(s)
<1>1. n \in Nat /\ m \in 0..n /\ k \in 1..n /\ k \in 0..n /\ n \in 0..n /\ k - 1 = m
  OBVIOUS
<1>2. s \in MQTTString
  BY <1>1
<1>3. Append(got, s) = SubSeq(ss, 1, k)
  OBVIOUS
<1>4. l \in Nat
  BY <1>2, StringBytes DEF Int16
<1>5. x \in Nat /\ y \in Nat /\ z \in Nat /\ y <= z
  <2>1. \A j \in 0..n : T[j] \in Nat /\ T[j] + 2 * (n - j) <= T[n]
    BY SizesGrow
  <2> HIDE DEF T, n, k
  <2>2. T[m] \in Nat /\ T[k] \in Nat /\ T[n] \in Nat /\ T[k] + 2 * (n - k) <= T[n]
    BY <1>1, <2>1
  <2> QED
    BY <1>1, <2>2
<1>6. y = x + 2 + l
  BY <1>1, SizesDef
<1>7. Holds(b, i + x, writeMQTTString(s))
  BY <1>1 DEF Row
<1>8. x + least <= z
  OBVIOUS
<1> HIDE DEF n, k, s, got, l, x, y, z, T
<1>9. /\ i + x \in Nat \ {0} /\ i + z \in Int /\ (i + x) + 2 + l <= i + z
      /\ (i + x) + least <= i + z /\ (i + x) + 2 + l = i + y
  BY <1>4, <1>5, <1>6, <1>8, WithinRow
<1>10. readMQTTLenString(Reader(b, i + x, i + z, got), least)
         = Reader(b, (i + x) + 2 + l, i + z, Append(got, s))
  BY <1>2, <1>7, <1>9, StringTaken DEF l
<1>11. readMQTTLenString(Reader(b, i + x, i + z, got), least)
         = Reader(b, i + y, i + z, SubSeq(ss, 1, k))
  BY <1>3, <1>9, <1>10, Zenon
<1> QED
  BY <1>11, Zenon DEF Upto, x, y, z, got, k, n, T

\* It is not, if too little is left.
LEMMA NextRefused ==
    ASSUME NEW b, NEW ss \in Seq(MQTTString), NEW i \in Nat \ {0},
           NEW m \in Nat, m <= Len(ss), NEW least \in Nat,
           Sizes(ss)[Len(ss)] < Sizes(ss)[m] + least
    PROVE  readMQTTLenString(Upto(b, ss, i, m), least) = Lost(Upto(b, ss, i, m))
<1> DEFINE x == Sizes(ss)[m]  z == Sizes(ss)[Len(ss)]  r == Upto(b, ss, i, m)
<1>1. x \in Nat /\ z \in Nat
  <2>1. m \in 0..Len(ss) /\ Len(ss) \in 0..Len(ss)
    OBVIOUS
  <2> QED
    BY <2>1, SizesGrow
<1>2. r.at = i + x /\ r.end = i + z
  BY DEF Upto, Reader
<1>3. z < x + least
  OBVIOUS
<1> HIDE DEF x, z, r
<1>4. r.end - r.at < least /\ r.end \in Int /\ r.at \in Int
  BY <1>1, <1>2, <1>3
<1>5. readMQTTLenString(r, least) = Lost(r)
  BY <1>4, StringRefused
<1> QED
  BY <1>5 DEF r

\* A reader that has lost its way is not in order.
LEMMA LostNotOk == ASSUME NEW b, NEW ss, NEW i, NEW m PROVE Lost(Upto(b, ss, i, m)).ok = FALSE
BY DEF Lost, Upto, Reader


\* The strings of a CONNECT, one by one.
LEMMA ConnectParts ==
    ASSUME NEW p \in ConnectPackets
    PROVE  /\ ConnectStrings(p) \in Seq(MQTTString)
           /\ Len(ConnectStrings(p)) = 1 + Len(p.will) + Len(p.username) + Len(p.password)
           /\ ConnectStrings(p)[1] = p.clientID
           /\ \A j \in 1..Len(p.will) : ConnectStrings(p)[1 + j] = p.will[j]
           /\ \A j \in 1..Len(p.username) :
                ConnectStrings(p)[1 + Len(p.will) + j] = p.username[j]
           /\ \A j \in 1..Len(p.password) :
                ConnectStrings(p)[1 + Len(p.will) + Len(p.username) + j] = p.password[j]
<1> DEFINE M == MQTTString  c == p.clientID  w == p.will  u == p.username  y == p.password
           cw == <<c>> \o w  uy == u \o y  x == cw \o uy
<1>1. c \in M /\ w \in Seq(M) /\ u \in Seq(M) /\ y \in Seq(M)
  BY DEF ConnectPackets, Optional
<1>2. ConnectStrings(p) = x
  BY DEF ConnectStrings, Credentials
<1> HIDE DEF M, c, w, u, y
<1>3. Len(w) \in Nat /\ Len(u) \in Nat /\ Len(y) \in Nat
  BY <1>1
<1>4. /\ cw \in Seq(M) /\ Len(cw) = 1 + Len(w) /\ cw[1] = c
      /\ \A j \in 1..Len(w) : cw[1 + j] = w[j]
  BY <1>1
<1>5. /\ uy \in Seq(M) /\ Len(uy) = Len(u) + Len(y)
      /\ \A j \in 1..Len(u) : uy[j] = u[j]
      /\ \A j \in 1..Len(y) : uy[Len(u) + j] = y[j]
  BY <1>1
<1> HIDE DEF cw, uy
<1>6. /\ x \in Seq(M) /\ Len(x) = Len(cw) + Len(uy)
      /\ \A j \in 1..Len(cw) : x[j] = cw[j]
      /\ \A j \in 1..Len(uy) : x[Len(cw) + j] = uy[j]
  <2>1. cw \in Seq(M) /\ uy \in Seq(M)
    BY <1>4, <1>5
  <2> QED
    BY <2>1
<1> HIDE DEF x
<1>7. Len(x) = 1 + Len(w) + Len(u) + Len(y)
  BY <1>3, <1>4, <1>5, <1>6
<1>8. x[1] = c
  BY <1>3, <1>4, <1>6
<1>9. ASSUME NEW j \in 1..Len(w) PROVE x[1 + j] = w[j]
  <2>1. 1 + j \in 1..Len(cw)
    BY <1>3, <1>4
  <2> QED
    BY <1>4, <1>6, <2>1
<1>10. ASSUME NEW j \in 1..Len(u) PROVE x[1 + Len(w) + j] = u[j]
  <2>1. j \in 1..Len(uy) /\ Len(cw) + j = 1 + Len(w) + j
    BY <1>3, <1>4, <1>5
  <2> QED
    BY <1>5, <1>6, <2>1
<1>11. ASSUME NEW j \in 1..Len(y) PROVE x[1 + Len(w) + Len(u) + j] = y[j]
  <2>1. Len(u) + j \in 1..Len(uy) /\ Len(cw) + (Len(u) + j) = 1 + Len(w) + Len(u) + j
    BY <1>3, <1>4, <1>5
  <2> QED
    BY <1>5, <1>6, <2>1
<1>12. /\ x \in Seq(M) /\ Len(x) = 1 + Len(w) + Len(u) + Len(y) /\ x[1] = c
       /\ \A j \in 1..Len(w) : x[1 + j] = w[j]
       /\ \A j \in 1..Len(u) : x[1 + Len(w) + j] = u[j]
       /\ \A j \in 1..Len(y) : x[1 + Len(w) + Len(u) + j] = y[j]
  BY <1>6, <1>7, <1>8, <1>9, <1>10, <1>11
<1> QED
  BY <1>2, <1>12 DEF M, c, w, u, y

\* Four parts make one body.
LEMMA FourJoined ==
    ASSUME NEW s \in Bytes, NEW t \in Bytes, NEW u \in Bytes, NEW v \in Bytes
    PROVE  s \o t \o u \o v \in Bytes /\ Len(s \o t \o u \o v) = Len(s) + Len(t) + Len(u) + Len(v)
<1> DEFINE st == s \o t  stu == st \o u
<1>1. st \in Bytes /\ Len(st) = Len(s) + Len(t)
  BY Joined
<1> HIDE DEF st
<1>2. stu \in Bytes /\ Len(stu) = Len(st) + Len(u)
  BY <1>1, Joined
<1> HIDE DEF stu
<1>3. stu \o v \in Bytes /\ Len(stu \o v) = Len(stu) + Len(v)
  BY <1>2, Joined
<1>4. stu \o v \in Bytes /\ Len(stu \o v) = Len(s) + Len(t) + Len(u) + Len(v)
  BY <1>1, <1>2, <1>3
<1> QED
  BY <1>4 DEF stu, st

\* A buffer that holds the body holds the four parts.
LEMMA FourApart ==
    ASSUME NEW b \in Bytes, NEW s \in Bytes, NEW t \in Bytes, NEW u \in Bytes, NEW v \in Bytes,
           Holds(b, 1, s \o t \o u \o v)
    PROVE  /\ Holds(b, 1, s) /\ Holds(b, 1 + Len(s), t) /\ Holds(b, 1 + Len(s) + Len(t), u)
           /\ Holds(b, 1 + Len(s) + Len(t) + Len(u), v)
<1> DEFINE st == s \o t  stu == st \o u
<1>1. st \in Bytes /\ Len(st) = Len(s) + Len(t)
  BY Joined
<1>2. Len(s) \in Nat /\ Len(t) \in Nat /\ Len(u) \in Nat /\ 1 \in Nat \ {0}
  BY DEF Bytes
<1> HIDE DEF st
<1>3. stu \in Bytes /\ Len(stu) = Len(st) + Len(u)
  BY <1>1, Joined
<1>4. Holds(b, 1, stu \o v)
  BY DEF st
<1> HIDE DEF stu
<1>5. Holds(b, 1, stu) /\ Holds(b, 1 + Len(stu), v)
  BY <1>2, <1>3, <1>4, HoldsApart
<1>6. Holds(b, 1, st) /\ Holds(b, 1 + Len(st), u)
  BY <1>1, <1>2, <1>5, HoldsApart DEF stu
<1>7. Holds(b, 1, s) /\ Holds(b, 1 + Len(s), t)
  BY <1>2, <1>6, HoldsApart DEF st
<1>8. 1 + Len(st) = 1 + Len(s) + Len(t) /\ 1 + Len(stu) = 1 + Len(s) + Len(t) + Len(u)
  BY <1>1, <1>2, <1>3
<1> QED
  BY <1>5, <1>6, <1>7, <1>8

\* The flags of a CONNECT, bit by bit.
WithoutWill(p) == p.will = << >> => p.willQoS = 0 /\ ~p.willRetained

\* The flags of a CONNECT, bit by bit.
LEMMA FlagsOf ==
    ASSUME NEW p \in ConnectPackets, WithoutWill(p)
    PROVE  /\ ConnectFlags(p) \in Byte
           /\ (Bit(ConnectFlags(p), 2) = 1) = p.cleansession
           /\ (Bit(ConnectFlags(p), 4) = 1) = (Len(p.will) = 2)
           /\ (Bit(ConnectFlags(p), 4) = 1) = (p.will # << >>)
           /\ (ConnectFlags(p) \div 8) % 4 = p.willQoS
           /\ (Bit(ConnectFlags(p), 32) = 1) = p.willRetained
           /\ (Bit(ConnectFlags(p), 64) = 1) = (Len(p.password) = 1)
           /\ (Bit(ConnectFlags(p), 128) = 1) = (Len(p.username) = 1)
<1> DEFINE c == Flag(p.cleansession)  w == IF p.will = << >> THEN 0 ELSE 1  q == p.willQoS
           k == Flag(p.willRetained)  y == Len(p.password)  u == Len(p.username)
           f == ConnectFlags(p)
<1>1. /\ p.cleansession \in BOOLEAN /\ p.willRetained \in BOOLEAN /\ q \in 0..2
      /\ p.will \in Seq(MQTTString) /\ Len(p.will) \in {0, 2}
      /\ p.password \in Seq(MQTTString) /\ Len(p.password) <= 1
      /\ p.username \in Seq(MQTTString) /\ Len(p.username) <= 1
  BY DEF ConnectPackets, Optional
<1>2. c \in {0, 1} /\ (c = 1 <=> p.cleansession) /\ k \in {0, 1} /\ (k = 1 <=> p.willRetained)
  BY <1>1, FlagBits
<1>3. y \in {0, 1} /\ u \in {0, 1} /\ w \in {0, 1}
  <2>1. /\ Len(p.password) \in Nat /\ Len(p.password) <= 1
        /\ Len(p.username) \in Nat /\ Len(p.username) <= 1
    BY <1>1
  <2>2. y \in Nat /\ y <= 1 /\ u \in Nat /\ u <= 1
    BY <2>1
  <2>3. w \in {0, 1}
    OBVIOUS
  <2> HIDE DEF y, u, w
  <2> QED
    BY <2>2, <2>3
<1>4. w = 1 <=> Len(p.will) = 2
  <2>1. p.will # << >> <=> Len(p.will) # 0
    BY <1>1, EmptySeq
  <2>2. Len(p.will) \in {0, 2}
    BY <1>1
  <2> QED
    BY <2>1, <2>2
<1>5. w = 1 <=> p.will # << >>
  OBVIOUS
<1>6. w = 0 => q = 0 /\ k = 0
  BY <1>5 DEF Flag, WithoutWill
<1>7. f = 2 * c + (IF p.will # << >> THEN 4 + 8 * q + 32 * k ELSE 0) + 64 * y + 128 * u
  BY DEF ConnectFlags
<1> HIDE DEF c, w, q, k, y, u, f
<1>8. (IF p.will # << >> THEN 4 + 8 * q + 32 * k ELSE 0) = 4 * w + 8 * q + 32 * k
  <2>1. CASE w = 1
    BY <1>1, <1>2, <1>5, <2>1
  <2>2. CASE w = 0
    BY <1>5, <1>6, <2>2
  <2> QED
    BY <1>3, <2>1, <2>2
<1>9. f = 2 * c + (4 * w + 8 * q + 32 * k) + 64 * y + 128 * u
  BY <1>7, <1>8, Zenon
<1>10. /\ f \in Byte
       /\ (f \div 2) % 2 = c
       /\ (f \div 4) % 2 = w
       /\ (f \div 8) % 4 = q
       /\ (f \div 32) % 2 = k
       /\ (f \div 64) % 2 = y
       /\ (f \div 128) % 2 = u
  <2>1. q \in 0..2
    BY <1>1
  <2>2. HasBits(2 * c + (4 * w + 8 * q + 32 * k) + 64 * y + 128 * u, c, w, q, k, y, u)
    BY <1>2, <1>3, <2>1, ConnectBits
  <2>3. HasBits(f, c, w, q, k, y, u)
    BY <1>9, <2>2, Zenon
  <2> QED
    BY <2>3 DEF HasBits
<1>11. /\ Bit(f, 2) = c /\ Bit(f, 4) = w /\ Bit(f, 32) = k /\ Bit(f, 64) = y /\ Bit(f, 128) = u
  BY <1>10 DEF Bit
<1>12. /\ (Bit(f, 2) = 1) = p.cleansession /\ (Bit(f, 32) = 1) = p.willRetained
  BY <1>1, <1>2, <1>11
<1>13. /\ (Bit(f, 4) = 1) = (Len(p.will) = 2) /\ (Bit(f, 4) = 1) = (p.will # << >>)
  BY <1>4, <1>5, <1>11
<1>14. /\ (Bit(f, 64) = 1) = (Len(p.password) = 1) /\ (Bit(f, 128) = 1) = (Len(p.username) = 1)
  BY <1>11 DEF y, u
<1> QED
  BY <1>10, <1>12, <1>13, <1>14 DEF f, q


\* A string as short as the name of a protocol is one.
LEMMA ShortString ==
    ASSUME NEW s \in Seq(Byte), NEW n \in Nat, n <= 6, Len(s) = n
    PROVE  s \in MQTTString
<1>1. n \in Int16
  BY DEF Int16
<1> QED
  BY <1>1 DEF MQTTString

\* The names of the two versions of the protocol.
LEMMA ProtocolOf ==
    ASSUME NEW v \in {3, 4}
    PROVE  /\ Protocol(v) \in MQTTString
           /\ Len(Protocol(v)) = IF v = 3 THEN 6 ELSE 4
<1>1. CASE v = 3
  <2> DEFINE s == <<77, 81, 73, 115, 100, 112>>
  <2>1. Protocol(v) = s
    BY <1>1 DEF Protocol
  <2>2. s \in Seq(Byte) /\ Len(s) = 6
    BY DEF Byte
  <2> DEFINE n == 6
  <2>3. n \in Nat /\ n <= 6
    OBVIOUS
  <2>4. s \in Seq(Byte) /\ Len(s) = n
    BY <2>2
  <2> HIDE DEF s, n
  <2>5. s \in MQTTString
    BY <2>3, <2>4, ShortString
  <2> QED
    BY <1>1, <2>1, <2>2, <2>5
<1>2. CASE v = 4
  <2> DEFINE s == <<77, 81, 84, 84>>
  <2>1. Protocol(v) = s
    BY <1>2 DEF Protocol
  <2>2. s \in Seq(Byte) /\ Len(s) = 4
    BY DEF Byte
  <2> DEFINE n == 4
  <2>3. n \in Nat /\ n <= 6
    OBVIOUS
  <2>4. s \in Seq(Byte) /\ Len(s) = n
    BY <2>2
  <2> HIDE DEF s, n
  <2>5. s \in MQTTString
    BY <2>3, <2>4, ShortString
  <2> QED
    BY <1>2, <2>1, <2>2, <2>5
<1> QED
  BY <1>1, <1>2

\* The name that is written is accepted.
LEMMA VersionAccepted ==
    ASSUME NEW v \in {3, 4}
    PROVE  MQTTPacket_checkVersion(Protocol(v), v)
<1> DEFINE s == Protocol(v)
<1>1. s \in Seq(Byte) /\ Len(s) \in Nat
  BY ProtocolOf DEF MQTTString
<1> HIDE DEF s
<1>2. Len(s) >= Len(s) /\ SubSeq(s, 1, Len(s)) = s
  BY <1>1
<1> QED
  BY <1>2 DEF MQTTPacket_checkVersion, s

\* The protocol, the flags, the keep-alive interval and the strings, one behind the other.
LEMMA ConnectBytes ==
    ASSUME NEW p \in ConnectPackets, WithoutWill(p)
    PROVE  /\ Body(p) \in Bytes
           /\ Length(p) = Len(Body(p))
           /\ Len(Protocol(p.version)) \in Nat
           /\ Length(p) + 1 = (7 + Len(Protocol(p.version))) + MQTTstrlen(ConnectStrings(p))
           /\ MQTTstrlen(ConnectStrings(p)) \in Nat
           /\ \A b \in Bytes : Holds(b, 1, Body(p)) =>
                /\ Holds(b, 1, writeMQTTString(Protocol(p.version)))
                /\ Holds(b, 3 + Len(Protocol(p.version)), <<p.version, ConnectFlags(p)>>)
                /\ Holds(b, 5 + Len(Protocol(p.version)), writeInt(p.keepAliveInterval))
                /\ Row(b, ConnectStrings(p), 7 + Len(Protocol(p.version)))
<1> DEFINE v == p.version  f == ConnectFlags(p)  cs == ConnectStrings(p)  n == Len(cs)
           A == writeMQTTString(Protocol(v))  V == <<v, f>>
           K == writeInt(p.keepAliveInterval)  C == Strings(cs)  l == Len(Protocol(v))
           z == MQTTstrlen(cs)  Z == Sizes(cs)
<1>1. p.type = CONNECT /\ v \in {3, 4} /\ p.keepAliveInterval \in Nat
  BY DEF ConnectPackets, Int16
<1>2. A \in Bytes /\ Len(A) = 2 + l /\ l \in Nat /\ l = IF v = 3 THEN 6 ELSE 4
  <2> DEFINE s == Protocol(v)
  <2>1. s \in MQTTString /\ Len(s) = IF v = 3 THEN 6 ELSE 4
    BY <1>1, ProtocolOf
  <2> HIDE DEF s
  <2>2. writeMQTTString(s) \in Bytes /\ Len(writeMQTTString(s)) = 2 + Len(s)
    BY <2>1, StringBytes
  <2>3. Len(s) \in Nat
    BY <2>1
  <2> QED
    BY <2>1, <2>2, <2>3 DEF s
<1>3. V \in Bytes /\ Len(V) = 2
  <2>1. f \in Byte
    BY FlagsOf
  <2>2. v \in Byte
    BY <1>1 DEF Byte
  <2> HIDE DEF v, f
  <2> QED
    BY <2>1, <2>2 DEF Bytes
<1>4. K \in Bytes /\ Len(K) = 2
  BY <1>1, IntBytes
<1>5. cs \in Seq(MQTTString)
  BY ConnectParts
<1>6. /\ C \in Bytes /\ Len(C) = z
      /\ \A k \in 1..n : Holds(C, Z[k - 1] + 1, writeMQTTString(cs[k]))
  BY <1>5, StringsHeld
<1>7. Body(p) = A \o V \o K \o C
  BY <1>1, BodyOf DEF MQTTSerialize_connect
<1>8. Length(p) = (IF v = 3 THEN 12 ELSE 10) + z
  BY <1>1, LengthOf DEF MQTTSerialize_connectLength
<1>9. \A k \in 1..n : k - 1 \in 0..n /\ cs[k] \in MQTTString
  BY <1>5
<1>10. Z \in [0..n -> Nat]
  BY <1>5, SizesDef
<1> HIDE DEF v, f, cs, n, A, V, K, C, l, z, Z
<1>11. z \in Nat
  BY <1>6 DEF Bytes
<1>12. Body(p) \in Bytes /\ Len(Body(p)) = Len(A) + Len(V) + Len(K) + Len(C)
  <2>1. A \o V \o K \o C \in Bytes /\ Len(A \o V \o K \o C) = Len(A) + Len(V) + Len(K) + Len(C)
    <3>1. A \in Bytes /\ V \in Bytes /\ K \in Bytes /\ C \in Bytes
      BY <1>2, <1>3, <1>4, <1>6
    <3> QED
      BY <3>1, FourJoined
  <2> QED
    BY <1>7, <2>1, Zenon
<1> DEFINE x == Len(Body(p))  y == Length(p)  a == Len(A)  c == Len(C)
<1>13. x = y /\ y + 1 = (7 + l) + z
  <2>1. x = a + 2 + 2 + c
    BY <1>3, <1>4, <1>12, Zenon
  <2>2. a = 2 + l /\ c = z
    BY <1>2, <1>6
  <2>3. y = (IF v = 3 THEN 12 ELSE 10) + z
    BY <1>8
  <2> HIDE DEF x, y, a, c
  <2> QED
    BY <1>1, <1>2, <1>11, <2>1, <2>2, <2>3
<1>14. ASSUME NEW b \in Bytes, Holds(b, 1, Body(p))
       PROVE  /\ Holds(b, 1, A) /\ Holds(b, 3 + l, V) /\ Holds(b, 5 + l, K)
              /\ Row(b, cs, 7 + l)
  <2>1. /\ Holds(b, 1, A) /\ Holds(b, 1 + Len(A), V) /\ Holds(b, 1 + Len(A) + Len(V), K)
        /\ Holds(b, 1 + Len(A) + Len(V) + Len(K), C)
    <3>1. Holds(b, 1, A \o V \o K \o C)
      BY <1>7, <1>14
    <3> QED
      BY <1>2, <1>3, <1>4, <1>6, <3>1, FourApart
  <2>2. /\ 1 + Len(A) = 3 + l /\ 1 + Len(A) + Len(V) = 5 + l
        /\ 1 + Len(A) + Len(V) + Len(K) = 7 + l /\ 7 + l \in Nat \ {0}
    BY <1>2, <1>3, <1>4
  <2>3. Holds(b, 7 + l, C)
    BY <2>1, <2>2
  <2>4. ASSUME NEW k \in 1..n PROVE Holds(b, (7 + l) + Z[k - 1], writeMQTTString(cs[k]))
    <3> DEFINE s == writeMQTTString(cs[k])  i == Z[k - 1] + 1  j == Z[k - 1]  t == 7 + l
    <3>1. s \in Bytes
      BY <1>9, StringBytes
    <3>2. j \in Nat
      BY <1>9, <1>10
    <3>3. Holds(C, i, s)
      BY <1>6
    <3>4. i = j + 1
      OBVIOUS
    <3>5. Holds(b, t, C) /\ t \in Nat \ {0}
      BY <2>2, <2>3
    <3> HIDE DEF s, i, j, t
    <3>6. i \in Nat \ {0} /\ t + i - 1 = t + j
      BY <3>2, <3>4, <3>5
    <3>7. Holds(b, t + i - 1, s)
      BY <1>6, <3>1, <3>3, <3>5, <3>6, HoldsInside
    <3> QED
      BY <3>6, <3>7 DEF s, t, j
  <2>5. Row(b, cs, 7 + l)
    BY <2>4, Zenon DEF Row, n, Z
  <2> QED
    BY <2>1, <2>2, <2>5
<1> QED
  BY <1>2, <1>11, <1>12, <1>13, <1>14 DEF v, f, cs, A, V, K, l, z

\* What the deserializer of CONNECT makes of what it has read.
ConnectResult(b, p, flags, wills, user, r) ==
    IF /\ p.ok /\ MQTTPacket_checkVersion(p.got[1], At(b, p.at))
       /\ r.ok /\ (Bit(flags, 64) = 1 => Bit(flags, 128) = 1)
    THEN Read([type |-> CONNECT, version |-> At(b, p.at), cleansession |-> Bit(flags, 2) = 1,
               keepAliveInterval |-> readInt(b, p.at + 2),
               clientID |-> r.got[1],
               will |-> SubSeq(wills.got, 2, Len(wills.got)),
               willQoS |-> IF Bit(flags, 4) = 1 THEN (flags \div 8) % 4 ELSE 0,
               willRetained |-> Bit(flags, 4) = 1 /\ Bit(flags, 32) = 1,
               username |-> SubSeq(user.got, Len(wills.got) + 1, Len(user.got)),
               password |-> SubSeq(r.got, Len(user.got) + 1, Len(r.got))])
    ELSE Refused(0)

\* What it reads, one string after the other.
ConnectSteps(b, e, p, flags, client, wills, user, r) ==
    /\ readMQTTLenString(Reader(b, 1, e, << >>), 2) = p
    /\ At(b, p.at + 1) = flags
    /\ readMQTTLenString(Reader(b, p.at + 4, e, << >>), 2) = client
    /\ Announced(Announced(client, Bit(flags, 4) = 1, 2), Bit(flags, 4) = 1, 2) = wills
    /\ Announced(wills, Bit(flags, 128) = 1, 3) = user
    /\ Announced(user, Bit(flags, 128) = 1 /\ Bit(flags, 64) = 1, 3) = r

\* The deserializer of CONNECT takes these steps to this result.
LEMMA ConnectIs ==
    ASSUME NEW b, NEW e, NEW p, NEW flags, NEW client, NEW wills, NEW user, NEW r,
           ConnectSteps(b, e, p, flags, client, wills, user, r)
    PROVE  MQTTDeserialize_connect(b, e) = ConnectResult(b, p, flags, wills, user, r)
<1> DEFINE p1 == readMQTTLenString(Reader(b, 1, e, << >>), 2)
           f1 == At(b, p1.at + 1)
           c1 == readMQTTLenString(Reader(b, p1.at + 4, e, << >>), 2)
           w1 == Announced(Announced(c1, Bit(f1, 4) = 1, 2), Bit(f1, 4) = 1, 2)
           u1 == Announced(w1, Bit(f1, 128) = 1, 3)
           r1 == Announced(u1, Bit(f1, 128) = 1 /\ Bit(f1, 64) = 1, 3)
<1>1. MQTTDeserialize_connect(b, e) = ConnectResult(b, p1, f1, w1, u1, r1)
  BY Zenon DEF MQTTDeserialize_connect, ConnectResult
<1>2. p1 = p
  BY Zenon DEF ConnectSteps
<1> HIDE DEF p1
<1>3. f1 = flags
  BY <1>2, Zenon DEF ConnectSteps
<1>4. c1 = client
  BY <1>2, Zenon DEF ConnectSteps
<1> HIDE DEF f1, c1
<1>5. w1 = wills
  BY <1>3, <1>4, Zenon DEF ConnectSteps
<1> HIDE DEF w1
<1>6. u1 = user
  BY <1>3, <1>5, Zenon DEF ConnectSteps
<1> HIDE DEF u1
<1>7. r1 = r
  BY <1>3, <1>6, Zenon DEF ConnectSteps
<1> HIDE DEF r1
<1> QED
  BY <1>1, <1>2, <1>3, <1>5, <1>6, <1>7, Zenon


\* Fewer than three bytes are left where the last string is empty, and at least four
\* where two strings follow.
LEMMA SizesLeft ==
    ASSUME NEW ss \in Seq(MQTTString), NEW m \in Nat, m < Len(ss)
    PROVE  /\ Sizes(ss)[m] + 2 <= Sizes(ss)[Len(ss)]
           /\ m + 1 < Len(ss) => Sizes(ss)[m] + 3 <= Sizes(ss)[Len(ss)]
           /\ m + 1 = Len(ss) /\ Len(ss[m + 1]) = 0 => Sizes(ss)[Len(ss)] < Sizes(ss)[m] + 3
           /\ m + 1 = Len(ss) /\ Len(ss[m + 1]) # 0 => Sizes(ss)[m] + 3 <= Sizes(ss)[Len(ss)]
<1> DEFINE n == Len(ss)  T == Sizes(ss)  k == m + 1  l == Len(ss[k])  x == T[m]  z == T[n]
           y == T[k]
<1>1. n \in Nat /\ m \in 0..n /\ k \in 1..n /\ k \in 0..n /\ n \in 0..n /\ k - 1 = m /\ m < n
  OBVIOUS
<1>2. ss[k] \in MQTTString
  BY <1>1
<1>3. l \in Nat
  BY <1>2, StringBytes DEF Int16
<1>4. \A j \in 0..n : T[j] \in Nat /\ T[j] + 2 * (n - j) <= T[n]
  BY SizesGrow
<1>5. y = x + 2 + l
  BY <1>1, SizesDef
<1>6. k = m + 1
  OBVIOUS
<1> HIDE DEF n, T, k, l
<1>7. x \in Nat /\ y \in Nat /\ z \in Nat /\ x + 2 * (n - m) <= z /\ (k = n => y = z)
  BY <1>1, <1>4
<1> HIDE DEF x, y, z
<1>8. x + 2 <= z /\ (k < n => x + 3 <= z)
  BY <1>1, <1>6, <1>7
<1>9. k = n /\ l = 0 => z < x + 3
  BY <1>5, <1>7
<1>10. k = n /\ l # 0 => x + 3 <= z
  BY <1>3, <1>5, <1>7
<1> QED
  BY <1>8, <1>9, <1>10 DEF n, T, k, l, x, y, z

\* The strings that the flags announce, in their order.
LEMMA WillTaken ==
    ASSUME NEW b \in Bytes, NEW ss \in Seq(MQTTString), NEW i \in Nat \ {0}, Row(b, ss, i),
           NEW lw \in {0, 2}, 1 + lw <= Len(ss)
    PROVE  Announced(Announced(Upto(b, ss, i, 1), lw = 2, 2), lw = 2, 2) = Upto(b, ss, i, 1 + lw)
<1>1. CASE lw = 2
  <2>1. 1 \in Nat /\ 2 \in Nat /\ 1 < Len(ss) /\ 2 < Len(ss) /\ 1 + 1 = 2 /\ 2 + 1 = 1 + lw
    BY <1>1
  <2>2. Sizes(ss)[1] + 2 <= Sizes(ss)[Len(ss)] /\ Sizes(ss)[2] + 2 <= Sizes(ss)[Len(ss)]
    BY <2>1, SizesLeft
  <2>3. readMQTTLenString(Upto(b, ss, i, 1), 2) = Upto(b, ss, i, 1 + 1)
    BY <2>1, <2>2, NextTaken
  <2>4. readMQTTLenString(Upto(b, ss, i, 2), 2) = Upto(b, ss, i, 2 + 1)
    BY <2>1, <2>2, NextTaken
  <2>5. Announced(Upto(b, ss, i, 1), lw = 2, 2) = Upto(b, ss, i, 2)
    BY <1>1, <2>1, <2>3, Zenon DEF Announced
  <2>6. Announced(Upto(b, ss, i, 2), lw = 2, 2) = Upto(b, ss, i, 1 + lw)
    BY <1>1, <2>1, <2>4, Zenon DEF Announced
  <2> QED
    BY <2>5, <2>6, Zenon
<1>2. CASE lw = 0
  <2>1. ~ (lw = 2) /\ 1 + lw = 1
    BY <1>2
  <2>2. Announced(Upto(b, ss, i, 1), lw = 2, 2) = Upto(b, ss, i, 1)
    BY <2>1, Zenon DEF Announced
  <2> QED
    BY <2>1, <2>2, Zenon
<1> QED
  BY <1>1, <1>2

\* A user name or password that is announced is taken, if three bytes are left.
LEMMA CredentialTaken ==
    ASSUME NEW b \in Bytes, NEW ss \in Seq(MQTTString), NEW i \in Nat \ {0}, Row(b, ss, i),
           NEW m \in Nat, NEW c \in {0, 1}, NEW flag, flag <=> c = 1, m + c <= Len(ss),
           c = 1 => m + 1 < Len(ss) \/ Len(ss[m + 1]) # 0
    PROVE  Announced(Upto(b, ss, i, m), flag, 3) = Upto(b, ss, i, m + c)
<1>1. CASE c = 1
  <2>1. m < Len(ss) /\ 3 \in Nat /\ m + 1 = m + c /\ (m + 1 < Len(ss) \/ m + 1 = Len(ss))
    BY <1>1
  <2>2. Sizes(ss)[m] + 3 <= Sizes(ss)[Len(ss)]
    BY <1>1, <2>1, SizesLeft
  <2>3. readMQTTLenString(Upto(b, ss, i, m), 3) = Upto(b, ss, i, m + 1)
    BY <2>1, <2>2, NextTaken
  <2> QED
    BY <1>1, <2>1, <2>3, Zenon DEF Announced
<1>2. CASE c = 0
  <2>1. ~ flag /\ m + c = m
    BY <1>2
  <2> QED
    BY <2>1, Zenon DEF Announced
<1> QED
  BY <1>1, <1>2

\* An empty one at the end of the packet is not.
LEMMA CredentialRefused ==
    ASSUME NEW b, NEW ss \in Seq(MQTTString), NEW i \in Nat \ {0}, NEW m \in Nat,
           m + 1 = Len(ss), Len(ss[m + 1]) = 0
    PROVE  readMQTTLenString(Upto(b, ss, i, m), 3).ok = FALSE
<1>1. m <= Len(ss) /\ m < Len(ss) /\ 3 \in Nat
  OBVIOUS
<1>2. Sizes(ss)[Len(ss)] < Sizes(ss)[m] + 3
  BY <1>1, SizesLeft
<1>3. readMQTTLenString(Upto(b, ss, i, m), 3) = Lost(Upto(b, ss, i, m))
  BY <1>1, <1>2, NextRefused
<1> QED
  BY <1>3, LostNotOk


\* One empty string, by lengths.
LEMMA OneEmpty ==
    ASSUME NEW x \in Seq(MQTTString)
    PROVE  x = <<<< >>>> <=> Len(x) = 1 /\ Len(x[1]) = 0
<1>1. ASSUME x = <<<< >>>> PROVE Len(x) = 1 /\ Len(x[1]) = 0
  BY <1>1
<1>2. ASSUME Len(x) = 1, Len(x[1]) = 0 PROVE x = <<<< >>>>
  <2>1. x[1] \in MQTTString
    BY <1>2
  <2>2. x[1] \in Bytes
    BY <2>1, StringBytes
  <2>3. x[1] = << >>
    BY <1>2, <2>2, EmptySeq DEF Bytes
  <2>4. x = <<x[1]>>
    BY <1>2
  <2> QED
    BY <2>3, <2>4
<1> QED
  BY <1>1, <1>2

\* No string, by lengths.
LEMMA NoneIsEmpty == ASSUME NEW S, NEW x \in Seq(S) PROVE x = << >> <=> Len(x) = 0
BY EmptySeq

\* What the server refuses, by the lengths of the strings.
LEMMA RefusedIs ==
    ASSUME NEW p \in ConnectPackets
    PROVE  NotSupplied(p) <=>
             \/ Len(p.password) = 1 /\ Len(p.password[1]) = 0
             \/ Len(p.password) = 1 /\ Len(p.username) = 0
             \/ Len(p.password) = 0 /\ Len(p.username) = 1 /\ Len(p.username[1]) = 0
<1> DEFINE y == p.password  u == p.username
<1>1. y \in Seq(MQTTString) /\ u \in Seq(MQTTString) /\ p.type = CONNECT
  BY DEF ConnectPackets, Optional
<1>2. Len(y) \in {0, 1}
  <2>1. Len(y) \in Nat /\ Len(y) <= 1
    BY DEF ConnectPackets, Optional
  <2> HIDE DEF y
  <2> QED
    BY <2>1
<1>3. NotSupplied(p) <=> \/ y = <<<< >>>>
                         \/ y # << >> /\ u = << >>
                         \/ y = << >> /\ u = <<<< >>>>
  BY <1>1 DEF NotSupplied
<1> HIDE DEF y, u
<1>4. /\ y = <<<< >>>> <=> Len(y) = 1 /\ Len(y[1]) = 0
      /\ u = <<<< >>>> <=> Len(u) = 1 /\ Len(u[1]) = 0
      /\ y = << >> <=> Len(y) = 0
      /\ u = << >> <=> Len(u) = 0
  BY <1>1, OneEmpty, NoneIsEmpty
<1> DEFINE y1 == y = <<<< >>>>  u1 == u = <<<< >>>>  y0 == y = << >>  u0 == u = << >>
           emptyY == Len(y[1]) = 0  emptyU == Len(u[1]) = 0
           oneY == Len(y) = 1  noneY == Len(y) = 0  oneU == Len(u) = 1  noneU == Len(u) = 0
<1>5. noneY <=> ~oneY
  BY <1>2
<1>6. NotSupplied(p) <=> y1 \/ (~y0 /\ u0) \/ (y0 /\ u1)
  BY <1>3
<1>7. /\ y1 <=> oneY /\ emptyY
      /\ u1 <=> oneU /\ emptyU
      /\ y0 <=> noneY
      /\ u0 <=> noneU
  BY <1>4
<1> HIDE DEF y1, u1, y0, u0, emptyY, emptyU, oneY, noneY, oneU, noneU
<1>8. NotSupplied(p) <=> (oneY /\ emptyY) \/ (oneY /\ noneU) \/ (noneY /\ oneU /\ emptyU)
  BY <1>5, <1>6, <1>7
<1> QED
  BY <1>8 DEF y, u, emptyY, emptyU, oneY, noneY, oneU, noneU

\* As far as the will, the server reads what the client wrote.
ConnectStart(b, e, p) ==
    LET l == Len(Protocol(p.version))
        cs == ConnectStrings(p)
    IN  /\ readMQTTLenString(Reader(b, 1, e, << >>), 2)
             = Reader(b, 3 + l, e, <<Protocol(p.version)>>)
        /\ At(b, 3 + l) = p.version
        /\ At(b, (3 + l) + 1) = ConnectFlags(p)
        /\ readInt(b, (3 + l) + 2) = p.keepAliveInterval
        /\ readMQTTLenString(Reader(b, (3 + l) + 4, e, << >>), 2) = Upto(b, cs, 7 + l, 1)
        /\ Announced(Announced(Upto(b, cs, 7 + l, 1), Bit(ConnectFlags(p), 4) = 1, 2),
                     Bit(ConnectFlags(p), 4) = 1, 2) = Upto(b, cs, 7 + l, 1 + Len(p.will))
        /\ Row(b, cs, 7 + l)
        /\ l \in Nat

\* So it does, from any buffer that holds the packet.
LEMMA ConnectStarts ==
    ASSUME NEW p \in ConnectPackets, WithoutWill(p), NEW b \in Bytes, Holds(b, 1, Body(p))
    PROVE  ConnectStart(b, Length(p) + 1, p)
<1> DEFINE v == p.version  f == ConnectFlags(p)  cs == ConnectStrings(p)  n == Len(cs)
           pr == Protocol(v)  l == Len(pr)  z == MQTTstrlen(cs)  Z == Sizes(cs)
           e == Length(p) + 1  i == 7 + l  lw == Len(p.will)  k == p.keepAliveInterval
<1>1. v \in {3, 4} /\ k \in Int16 /\ lw \in {0, 2}
  BY DEF ConnectPackets
<1>2. pr \in MQTTString
  BY <1>1, ProtocolOf
<1>3. l \in Nat /\ e = (7 + l) + z /\ z \in Nat
  BY ConnectBytes
<1>4. /\ Holds(b, 1, writeMQTTString(pr)) /\ Holds(b, 3 + l, <<v, f>>)
      /\ Holds(b, 5 + l, writeInt(k)) /\ Row(b, cs, i)
  BY ConnectBytes
<1>5. cs \in Seq(MQTTString) /\ n \in Nat /\ n >= 1 + lw
  <2>1. /\ cs \in Seq(MQTTString)
        /\ n = 1 + Len(p.will) + Len(p.username) + Len(p.password)
    BY ConnectParts
  <2>2. Len(p.will) \in Nat /\ Len(p.username) \in Nat /\ Len(p.password) \in Nat
    BY DEF ConnectPackets, Optional
  <2> DEFINE u == Len(p.username)  y == Len(p.password)
  <2> HIDE DEF n, u, y, lw
  <2>3. n = 1 + lw + u + y /\ lw \in Nat /\ u \in Nat /\ y \in Nat
    BY <2>1, <2>2 DEF n, u, y, lw
  <2>4. n \in Nat /\ n >= 1 + lw
    BY <2>3
  <2> QED
    BY <2>1, <2>4
<1>6. z = Z[n]
  BY DEF MQTTstrlen
<1>7. SubSeq(cs, 1, 0) = << >> /\ Z[0] = 0
  BY <1>5, SizesDef
<1>8. (Bit(f, 4) = 1) = (lw = 2)
  BY FlagsOf
<1> HIDE DEF v, f, cs, n, pr, l, z, Z, e, lw, k
<1>9. readMQTTLenString(Reader(b, 1, e, << >>), 2) = Reader(b, 3 + l, e, <<pr>>)
  <2> DEFINE none == << >>
  <2>1. Append(none, pr) = <<pr>>
    OBVIOUS
  <2> HIDE DEF none
  <2>2. 1 \in Nat \ {0} /\ 2 \in Nat /\ e \in Int /\ 1 + 2 + l <= e /\ 1 + 2 <= e
        /\ 1 + 2 + l = 3 + l
    BY <1>3
  <2>3. readMQTTLenString(Reader(b, 1, e, none), 2) = Reader(b, 1 + 2 + l, e, Append(none, pr))
    BY <1>2, <1>4, <2>2, StringTaken DEF l
  <2> QED
    BY <2>1, <2>2, <2>3, Zenon DEF none
<1>10. At(b, 3 + l) = v /\ At(b, (3 + l) + 1) = f
  <2>1. 3 + l \in Nat \ {0}
    BY <1>3
  <2> QED
    BY <1>4, <2>1, BytesRead, Zenon
<1>11. readInt(b, (3 + l) + 2) = k
  <2>1. 5 + l \in Nat \ {0} /\ (3 + l) + 2 = 5 + l
    BY <1>3
  <2>2. readInt(b, 5 + l) = k
    BY <1>1, <1>4, <2>1, IntRead
  <2> QED
    BY <2>1, <2>2, Zenon
<1>12. i \in Nat \ {0}
  BY <1>3
<1>13. readMQTTLenString(Reader(b, (3 + l) + 4, e, << >>), 2) = Upto(b, cs, i, 1)
  <2>1. 0 \in Nat /\ 2 \in Nat /\ 0 < n /\ 0 + 1 = 1
    BY <1>1, <1>5
  <2>2. Z[0] + 2 <= Z[n]
    BY <1>5, <2>1, SizesLeft DEF n, Z
  <2>3. readMQTTLenString(Upto(b, cs, i, 0), 2) = Upto(b, cs, i, 0 + 1)
    BY <1>4, <1>5, <1>12, <2>1, <2>2, NextTaken DEF n, Z
  <2>4. i + Z[0] = (3 + l) + 4 /\ i + Z[n] = e
    BY <1>3, <1>6, <1>7
  <2>5. Upto(b, cs, i, 0) = Reader(b, (3 + l) + 4, e, << >>)
    BY <1>7, <2>4, Zenon DEF Upto, n, Z
  <2> QED
    BY <2>1, <2>3, <2>5, Zenon
<1> HIDE DEF i
<1>14. Announced(Announced(Upto(b, cs, i, 1), Bit(f, 4) = 1, 2), Bit(f, 4) = 1, 2)
         = Upto(b, cs, i, 1 + lw)
  <2>1. Announced(Announced(Upto(b, cs, i, 1), lw = 2, 2), lw = 2, 2) = Upto(b, cs, i, 1 + lw)
    <3>1. 1 + lw <= Len(cs)
      BY <1>1, <1>5 DEF n
    <3> QED
      BY <1>1, <1>4, <1>5, <1>12, <3>1, WillTaken
  <2> QED
    BY <1>8, <2>1, Zenon
<1> QED
  BY <1>3, <1>4, <1>9, <1>10, <1>11, <1>13, <1>14, Zenon
     DEF ConnectStart, v, f, cs, pr, l, e, i, lw, k


\* A CONNECT whose credentials are supplied is read as it was written.
LEMMA ConnectRead ==
    ASSUME NEW p \in ConnectPackets, WithoutWill(p), NEW b \in Bytes, Holds(b, 1, Body(p))
    PROVE  Deserialize(HeaderByte(p), b, Length(p) + 1)
             = IF NotSupplied(p) THEN Refused(0) ELSE Read(p)
<1> DEFINE h == HeaderByte(p)  e == Length(p) + 1  v == p.version  f == ConnectFlags(p)
           cs == ConnectStrings(p)  n == Len(cs)  pr == Protocol(v)  l == Len(pr)  i == 7 + l
           lw == Len(p.will)  lu == Len(p.username)  ly == Len(p.password)
           k == p.keepAliveInterval
           q == Reader(b, 3 + l, e, <<pr>>)  client == Upto(b, cs, i, 1)
           wills == Upto(b, cs, i, 1 + lw)
           user == Announced(wills, Bit(f, 128) = 1, 3)
           r == Announced(user, Bit(f, 128) = 1 /\ Bit(f, 64) = 1, 3)
<1>1. p = [type |-> CONNECT, version |-> p.version, cleansession |-> p.cleansession,
           keepAliveInterval |-> p.keepAliveInterval, clientID |-> p.clientID, will |-> p.will,
           willQoS |-> p.willQoS, willRetained |-> p.willRetained, username |-> p.username,
           password |-> p.password]
  BY DEF ConnectPackets
<1>2. /\ p.type = CONNECT /\ v \in {3, 4} /\ lw \in {0, 2}
      /\ p.will \in Seq(MQTTString) /\ p.username \in Seq(MQTTString)
      /\ p.password \in Seq(MQTTString)
      /\ p.cleansession \in BOOLEAN /\ p.willRetained \in BOOLEAN
  BY DEF ConnectPackets, Optional
<1>3. lu \in {0, 1} /\ ly \in {0, 1}
  <2>1. lu \in Nat /\ lu <= 1 /\ ly \in Nat /\ ly <= 1
    BY DEF ConnectPackets, Optional
  <2> HIDE DEF lu, ly
  <2> QED
    BY <2>1
<1>4. h \div 16 = CONNECT
  <2>1. p.type \in NoBody \cup {CONNECT, CONNACK, SUBACK, UNSUBACK}
    BY <1>2
  <2>2. h = 16 * p.type + 0
    BY <2>1, HeaderOf
  <2>3. p.type \in 1..14
    BY <1>2 DEF CONNECT
  <2> QED
    BY <1>2, <2>2, <2>3
<1>5. ConnectStart(b, e, p)
  BY ConnectStarts
<1>6. /\ readMQTTLenString(Reader(b, 1, e, << >>), 2) = q
      /\ At(b, 3 + l) = v /\ At(b, (3 + l) + 1) = f /\ readInt(b, (3 + l) + 2) = k
      /\ readMQTTLenString(Reader(b, (3 + l) + 4, e, << >>), 2) = client
      /\ Announced(Announced(client, Bit(f, 4) = 1, 2), Bit(f, 4) = 1, 2) = wills
      /\ Row(b, cs, i) /\ l \in Nat
  BY <1>5, Zenon DEF ConnectStart
<1>7. q.at = 3 + l /\ q.ok = TRUE /\ q.got = <<pr>>
  BY DEF Reader
<1>8. q.got[1] = pr
  BY <1>7
<1>9. /\ cs \in Seq(MQTTString) /\ n = 1 + lw + lu + ly
      /\ cs[1] = p.clientID
      /\ \A j \in 1..lw : cs[1 + j] = p.will[j]
      /\ \A j \in 1..lu : cs[1 + lw + j] = p.username[j]
      /\ \A j \in 1..ly : cs[1 + lw + lu + j] = p.password[j]
  BY ConnectParts
<1>10. /\ (Bit(f, 2) = 1) = p.cleansession
       /\ (Bit(f, 4) = 1) = (lw = 2)
       /\ (f \div 8) % 4 = p.willQoS
       /\ (Bit(f, 32) = 1) = p.willRetained
       /\ (Bit(f, 64) = 1) = (ly = 1)
       /\ (Bit(f, 128) = 1) = (lu = 1)
  BY FlagsOf
<1>11. NotSupplied(p) <=>
         \/ ly = 1 /\ Len(p.password[1]) = 0
         \/ ly = 1 /\ lu = 0
         \/ ly = 0 /\ lu = 1 /\ Len(p.username[1]) = 0
  BY RefusedIs
<1>12. lw = 0 => p.willQoS = 0 /\ ~p.willRetained
  BY <1>2, NoneIsEmpty DEF WithoutWill
<1> HIDE DEF h, e, v, f, cs, n, pr, l, lw, lu, ly, k, q
<1>13. Deserialize(h, b, e) = ConnectResult(b, q, f, wills, user, r)
  <2>1. Deserialize(h, b, e) = MQTTDeserialize_connect(b, e)
    BY <1>4, Dispatch
  <2> HIDE DEF client, wills, user
  <2>2. At(b, q.at + 1) = f /\ readMQTTLenString(Reader(b, q.at + 4, e, << >>), 2) = client
    BY <1>6, <1>7, Zenon
  <2>3. ConnectSteps(b, e, q, f, client, wills, user, r)
    BY <1>6, <2>2, Zenon DEF ConnectSteps, user
  <2> HIDE DEF r
  <2>4. MQTTDeserialize_connect(b, e) = ConnectResult(b, q, f, wills, user, r)
    BY <2>3, ConnectIs
  <2> QED
    BY <2>1, <2>4, Zenon
<1>14. i \in Nat \ {0}
  BY <1>6
<1> HIDE DEF i
<1>15. ASSUME lu = 1, ly = 1 \/ Len(p.username[1]) # 0
       PROVE  user = Upto(b, cs, i, 1 + lw + lu)
  <2>1. 1 \in 1..lu /\ 1 + lw \in Nat /\ (1 + lw) + lu <= n
    BY <1>2, <1>3, <1>9, <1>15
  <2>2. cs[(1 + lw) + 1] = p.username[1]
    BY <1>9, <2>1
  <2>3. (1 + lw) + 1 < n \/ Len(cs[(1 + lw) + 1]) # 0
    BY <1>2, <1>3, <1>9, <1>15, <2>2
  <2> DEFINE m == 1 + lw  flag == Bit(f, 128) = 1
  <2>4. flag <=> lu = 1
    BY <1>10
  <2> HIDE DEF m, flag
  <2>5. Announced(Upto(b, cs, i, m), flag, 3) = Upto(b, cs, i, m + lu)
    BY <1>3, <1>6, <1>9, <1>14, <2>1, <2>3, <2>4, CredentialTaken DEF m, n
  <2> QED
    BY <2>5 DEF m, flag
<1> DEFINE m == 1 + lw  o == (1 + lw) + lu
           announced == Bit(f, 128) = 1  both == Bit(f, 128) = 1 /\ Bit(f, 64) = 1
<1>16. /\ m \in Nat /\ o \in Nat /\ m + lu = o /\ o + ly = n /\ m <= n /\ o <= n
       /\ (announced <=> lu = 1) /\ (both <=> lu = 1 /\ ly = 1)
  BY <1>2, <1>3, <1>9, <1>10, SMTT(30)
<1>17. ASSUME lu = 0 PROVE user = Upto(b, cs, i, o)
  <2>1. ~ (Bit(f, 128) = 1) /\ o = 1 + lw
    BY <1>2, <1>16, <1>17
  <2> QED
    BY <2>1, Zenon DEF Announced
<1>18. ASSUME ly = 1 => lu = 1 /\ Len(p.password[1]) # 0,
              ly = 0 /\ lu = 1 => Len(p.username[1]) # 0
       PROVE  Deserialize(h, b, e) = Read(p)
  <2>1. user = Upto(b, cs, i, o)
    BY <1>3, <1>15, <1>17, <1>18
  <2>2. Announced(Upto(b, cs, i, o), both, 3) = Upto(b, cs, i, n)
    <3>1. ly = 1 => cs[o + 1] = p.password[1]
      <4>1. ly = 1 => 1 \in 1..ly
        OBVIOUS
      <4> QED
        BY <1>9, <4>1
    <3>2. ly = 1 => o + 1 < Len(cs) \/ Len(cs[o + 1]) # 0
      BY <1>18, <3>1
    <3>3. both <=> ly = 1
      BY <1>16, <1>18
    <3>4. o + ly <= Len(cs)
      BY <1>9, <1>16 DEF n
    <3> HIDE DEF o, both
    <3>5. Announced(Upto(b, cs, i, o), both, 3) = Upto(b, cs, i, o + ly)
      BY <1>3, <1>6, <1>9, <1>14, <1>16, <3>2, <3>3, <3>4, CredentialTaken, SMTT(30)
    <3> QED
      BY <1>16, <3>5, Zenon
  <2>3. r = Upto(b, cs, i, n)
    BY <2>1, <2>2, Zenon
  <2>4. wills = Upto(b, cs, i, m)
    OBVIOUS
  <2> HIDE DEF wills, user, r
  <2>5. r.ok = TRUE /\ r.got = SubSeq(cs, 1, n) /\ user.got = SubSeq(cs, 1, o)
        /\ wills.got = SubSeq(cs, 1, m)
    <3> HIDE DEF m, o
    <3> QED
      BY <2>1, <2>3, <2>4 DEF Upto, Reader
  <2>6. /\ Len(SubSeq(cs, 1, m)) = m /\ Len(SubSeq(cs, 1, o)) = o /\ Len(SubSeq(cs, 1, n)) = n
        /\ SubSeq(SubSeq(cs, 1, m), 2, m) = p.will
        /\ SubSeq(SubSeq(cs, 1, o), m + 1, o) = p.username
        /\ SubSeq(SubSeq(cs, 1, n), o + 1, n) = p.password
        /\ SubSeq(cs, 1, n)[1] = p.clientID
    <3> DEFINE S == MQTTString  w == p.will  u == p.username  y == p.password
    <3>1. /\ cs \in Seq(S) /\ w \in Seq(S) /\ u \in Seq(S) /\ y \in Seq(S)
          /\ Len(w) = lw /\ Len(u) = lu /\ Len(y) = ly /\ Len(cs) = n
      BY <1>2, <1>9 DEF lw, lu, ly, n
    <3>2. /\ \A j \in 1..Len(w) : cs[1 + j] = w[j]
          /\ \A j \in 1..Len(u) : cs[m + j] = u[j]
          /\ \A j \in 1..Len(y) : cs[o + j] = y[j]
      BY <1>9 DEF lw, lu, ly
    <3>3. 1 \in Nat /\ 1 + Len(w) = m /\ m + Len(u) = o /\ o + Len(y) = n /\ n \in Nat
          /\ m <= Len(cs) /\ o <= Len(cs) /\ n <= Len(cs) /\ 1 + 1 = 2 /\ 1 \in 1..n
      BY <1>2, <1>3, <1>16, <3>1
    <3> HIDE DEF m, o, S, w, u, y
    <3>4. Len(SubSeq(cs, 1, m)) = m /\ SubSeq(SubSeq(cs, 1, m), 1 + 1, m) = w
      <4> DEFINE a == 1
      <4>1. a \in Nat /\ a + Len(w) = m /\ \A j \in 1..Len(w) : cs[a + j] = w[j]
        BY <3>2, <3>3
      <4> HIDE DEF a
      <4>2. Len(SubSeq(cs, 1, m)) = m /\ SubSeq(SubSeq(cs, 1, m), a + 1, m) = w
        <5>1. cs \in Seq(S) /\ w \in Seq(S) /\ m \in Nat /\ m <= Len(cs)
          BY <1>16, <3>1, <3>3
        <5> QED
          BY <4>1, <5>1, Slice
      <4> QED
        BY <4>2 DEF a
    <3>5. Len(SubSeq(cs, 1, o)) = o /\ SubSeq(SubSeq(cs, 1, o), m + 1, o) = u
      <4>1. /\ cs \in Seq(S) /\ u \in Seq(S) /\ o \in Nat /\ m \in Nat /\ o <= Len(cs)
            /\ m + Len(u) = o
        BY <1>16, <3>1, <3>3
      <4>2. \A j \in 1..Len(u) : cs[m + j] = u[j]
        BY <3>2
      <4> QED
        BY <4>1, <4>2, Slice
    <3>6. Len(SubSeq(cs, 1, n)) = n /\ SubSeq(SubSeq(cs, 1, n), o + 1, n) = y
      <4>1. /\ cs \in Seq(S) /\ y \in Seq(S) /\ n \in Nat /\ o \in Nat /\ n <= Len(cs)
            /\ o + Len(y) = n
        BY <1>16, <3>1, <3>3
      <4>2. \A j \in 1..Len(y) : cs[o + j] = y[j]
        BY <3>2
      <4> QED
        BY <4>1, <4>2, Slice
    <3>7. SubSeq(cs, 1, n)[1] = cs[1]
      <4>1. cs \in Seq(S) /\ n \in Nat /\ n <= Len(cs) /\ 1 \in 1..n
        BY <3>1, <3>3
      <4> QED
        BY <4>1
    <3> QED
      BY <1>9, <3>3, <3>4, <3>5, <3>6, <3>7, Zenon DEF w, u, y
  <2> HIDE DEF m, o
  <2>7. ConnectResult(b, q, f, wills, user, r)
          = Read([type |-> CONNECT, version |-> v, cleansession |-> p.cleansession,
                  keepAliveInterval |-> k, clientID |-> p.clientID, will |-> p.will,
                  willQoS |-> IF Bit(f, 4) = 1 THEN (f \div 8) % 4 ELSE 0,
                  willRetained |-> Bit(f, 4) = 1 /\ Bit(f, 32) = 1,
                  username |-> p.username, password |-> p.password])
    <3>1. /\ q.ok /\ At(b, q.at) = v /\ v \in {3, 4} /\ q.got[1] = Protocol(v) /\ r.ok
          /\ (Bit(f, 64) = 1 => Bit(f, 128) = 1)
      <4>1. q.ok /\ At(b, q.at) = v /\ r.ok
        BY <1>6, <1>7, <2>5
      <4>2. q.got[1] = Protocol(v)
        BY <1>8 DEF pr
      <4>3. Bit(f, 64) = 1 => Bit(f, 128) = 1
        BY <1>10, <1>18
      <4> QED
        BY <1>2, <4>1, <4>2, <4>3
    <3>2. readInt(b, q.at + 2) = k
      BY <1>6, <1>7, Zenon
    <3>3. /\ r.got[1] = p.clientID
          /\ SubSeq(wills.got, 2, Len(wills.got)) = p.will
          /\ SubSeq(user.got, Len(wills.got) + 1, Len(user.got)) = p.username
          /\ SubSeq(r.got, Len(user.got) + 1, Len(r.got)) = p.password
      BY <2>5, <2>6, Zenon
    <3>4. (Bit(f, 2) = 1) = p.cleansession
      BY <1>10
    <3>5. ConnectResult(b, q, f, wills, user, r)
            = Read([type |-> CONNECT, version |-> At(b, q.at),
                    cleansession |-> Bit(f, 2) = 1,
                    keepAliveInterval |-> readInt(b, q.at + 2),
                    clientID |-> r.got[1],
                    will |-> SubSeq(wills.got, 2, Len(wills.got)),
                    willQoS |-> IF Bit(f, 4) = 1 THEN (f \div 8) % 4 ELSE 0,
                    willRetained |-> Bit(f, 4) = 1 /\ Bit(f, 32) = 1,
                    username |-> SubSeq(user.got, Len(wills.got) + 1, Len(user.got)),
                    password |-> SubSeq(r.got, Len(user.got) + 1, Len(r.got))])
      <4>1. /\ q.ok /\ MQTTPacket_checkVersion(q.got[1], At(b, q.at)) /\ r.ok
            /\ (Bit(f, 64) = 1 => Bit(f, 128) = 1)
        BY <3>1, VersionAccepted
      <4> QED
        BY <4>1, Zenon DEF ConnectResult
    <3> QED
      BY <3>1, <3>2, <3>3, <3>4, <3>5, Zenon
  <2>8. (IF Bit(f, 4) = 1 THEN (f \div 8) % 4 ELSE 0) = p.willQoS
    BY <1>2, <1>10, <1>12
  <2>9. (Bit(f, 4) = 1 /\ Bit(f, 32) = 1) = p.willRetained
    BY <1>2, <1>10, <1>12
  <2> QED
    BY <1>1, <1>13, <2>7, <2>8, <2>9, Zenon DEF v, k
<1>19. ASSUME \/ ly = 1 /\ Len(p.password[1]) = 0
              \/ ly = 1 /\ lu = 0
              \/ ly = 0 /\ lu = 1 /\ Len(p.username[1]) = 0
       PROVE  Deserialize(h, b, e) = Refused(0)
  <2>1. r.ok = FALSE \/ ~ (Bit(f, 64) = 1 => Bit(f, 128) = 1)
    <3>1. CASE ly = 1 /\ lu = 0
      BY <1>10, <3>1
    <3>2. CASE ly = 1 /\ lu = 1 /\ Len(p.password[1]) = 0
      <4>1. user = Upto(b, cs, i, o)
        BY <1>15, <3>2
      <4>2. both /\ o + 1 = Len(cs)
        BY <1>16, <3>2 DEF n
      <4>3. Len(cs[o + 1]) = 0
        <5>1. 1 \in 1..ly
          BY <3>2
        <5>2. cs[o + 1] = p.password[1]
          BY <1>9, <5>1
        <5> QED
          BY <3>2, <5>2
      <4> HIDE DEF o, both
      <4>4. readMQTTLenString(Upto(b, cs, i, o), 3).ok = FALSE
        BY <1>9, <1>14, <1>16, <4>2, <4>3, CredentialRefused
      <4>5. r.ok = FALSE
        BY <4>1, <4>2, <4>4, Zenon DEF both, Announced
      <4> QED
        BY <4>5
    <3>3. CASE ly = 0 /\ lu = 1 /\ Len(p.username[1]) = 0
      <4>1. announced /\ m + 1 = Len(cs) /\ ~both
        BY <1>16, <3>3 DEF n
      <4>2. Len(cs[m + 1]) = 0
        <5>1. 1 \in 1..lu
          BY <3>3
        <5>2. cs[m + 1] = p.username[1]
          BY <1>9, <5>1
        <5> QED
          BY <3>3, <5>2
      <4> DEFINE s == Upto(b, cs, i, m)
      <4> HIDE DEF m, announced
      <4>3. readMQTTLenString(s, 3).ok = FALSE
        BY <1>9, <1>14, <1>16, <4>1, <4>2, CredentialRefused
      <4>4. user.ok = FALSE
        BY <4>1, <4>3, Zenon DEF m, announced, Announced
      <4> HIDE DEF user
      <4>5. r = user
        BY <4>1, Zenon DEF Announced
      <4> QED
        BY <4>4, <4>5, Zenon
    <3> QED
      BY <1>3, <1>19, <3>1, <3>2, <3>3
  <2> HIDE DEF wills, user, r
  <2>2. ConnectResult(b, q, f, wills, user, r) = Refused(0)
    BY <2>1, Zenon DEF ConnectResult
  <2> QED
    BY <1>13, <2>2, Zenon
<1>20. Deserialize(h, b, e) = IF NotSupplied(p) THEN Refused(0) ELSE Read(p)
  <2>1. CASE NotSupplied(p)
    BY <1>11, <1>19, <2>1, Zenon
  <2>2. CASE ~NotSupplied(p)
    <3>1. ly = 1 => lu = 1 /\ Len(p.password[1]) # 0
      BY <1>3, <1>11, <2>2
    <3>2. ly = 0 /\ lu = 1 => Len(p.username[1]) # 0
      BY <1>11, <2>2
    <3> QED
      BY <1>18, <2>2, <3>1, <3>2, Zenon
  <2> QED
    BY <2>1, <2>2
<1> QED
  BY <1>20 DEF h, e


-----------------------------------------------------------------------------
(* Every packet.                                                             *)

\* What a packet can be.
LEMMA Kinds ==
    ASSUME NEW p \in Packets
    PROVE  \/ p \in [type : {CONNACK}, sessionPresent : BOOLEAN, code : Byte]
           \/ p \in [type : Acks, dup : BOOLEAN, id : Int16]
           \/ p \in [type : {SUBACK}, id : Int16, codes : Seq(Byte)]
           \/ p \in [type : {UNSUBSCRIBE}, dup : BOOLEAN, id : Int16, topics : Seq(MQTTString)]
           \/ p \in [type : {UNSUBACK}, id : Int16]
           \/ p \in [type : NoBody]
           \/ p \in ConnectPackets /\ WithoutWill(p)
           \/ p \in PublishPackets /\ (p.qos = 0 => p.id = 0)
           \/ p \in SubscribePackets /\ Len(p.codes) = Len(p.topics)
<1>1. \/ p \in OtherPackets
      \/ p \in ConnectPackets /\ WithoutWill(p)
      \/ p \in PublishPackets /\ (p.qos = 0 => p.id = 0)
      \/ p \in SubscribePackets /\ Len(p.codes) = Len(p.topics)
  BY PacketsAssumption, Zenon DEF WithoutWill
<1>2. p \in OtherPackets =>
         \/ p \in [type : {CONNACK}, sessionPresent : BOOLEAN, code : Byte]
         \/ p \in [type : Acks, dup : BOOLEAN, id : Int16]
         \/ p \in [type : {SUBACK}, id : Int16, codes : Seq(Byte)]
         \/ p \in [type : {UNSUBSCRIBE}, dup : BOOLEAN, id : Int16, topics : Seq(MQTTString)]
         \/ p \in [type : {UNSUBACK}, id : Int16]
         \/ p \in [type : NoBody]
  BY Zenon DEF OtherPackets
<1> QED
  BY <1>1, <1>2, Zenon

\* A body is as long as announced, without the payload that goes by itself.
Announces(p) ==
    /\ Body(p) \in Bytes
    /\ Length(p) \in Nat
    /\ Len(Body(p)) <= Length(p)

\* The packet is read from any buffer that holds its body.
Arrives(p) ==
    \A b \in Bytes : Holds(b, 1, Body(p)) =>
        Deserialize(HeaderByte(p), b, Length(p) + 1) = Outcome(p)

\* What the serializers ask of the buffer.
LEMMA NeedsOf ==
    ASSUME NEW p
    PROVE  /\ p.type \in {CONNECT, SUBSCRIBE, UNSUBSCRIBE} => Needs(p) = MQTTPacket_len(Length(p))
           /\ p.type \in Acks => Needs(p) = 4
           /\ p.type \in NoBody => Needs(p) = 2
BY DEF Needs, Acks, NoBody, CONNECT, CONNACK, PUBLISH, PUBACK, PUBREC, PUBREL,
       PUBCOMP, SUBSCRIBE, SUBACK, UNSUBSCRIBE, UNSUBACK, PINGREQ, PINGRESP, DISCONNECT

\* Only a CONNECT has credentials, and only a SUBACK codes its reader counts.
LEMMA OtherSupplied ==
    ASSUME NEW p
    PROVE  /\ p.type \notin {CONNECT, SUBACK} => Outcome(p) = Read(p)
           /\ p.type = SUBACK => Outcome(p) = IF TooMany(p) THEN Refused(-1) ELSE Read(p)
           /\ p.type = CONNECT => Outcome(p) = IF NotSupplied(p) THEN Refused(0) ELSE Read(p)
BY DEF Outcome, NotSupplied, TooMany, CONNECT, SUBACK

\* Acknowledgements: four bytes in all.
LEMMA AckArrives ==
    ASSUME NEW p \in [type : Acks, dup : BOOLEAN, id : Int16]
    PROVE  Announces(p) /\ Arrives(p) /\ Needs(p) = 4 /\ Length(p) = 2
<1>1. p.type \in Acks /\ p.id \in Nat
  BY DEF Int16
<1>2. Length(p) = 2
  BY <1>1, LengthOf
<1>3. Body(p) \in Bytes /\ Len(Body(p)) = 2
  BY <1>1, BodyOf, IntBytes DEF MQTTSerialize_ack
<1>4. p.type \notin {CONNECT, SUBACK} /\ Needs(p) = 4
  <2>1. p.type \notin {CONNECT, SUBACK}
    BY <1>1 DEF Acks, CONNECT, SUBACK, PUBACK, PUBREC, PUBREL, PUBCOMP
  <2> QED
    BY <1>1, <2>1, NeedsOf
<1>5. Arrives(p)
  BY <1>4, AckRead, OtherSupplied DEF Arrives
<1> QED
  BY <1>2, <1>3, <1>4, <1>5 DEF Announces

\* UNSUBACK.
LEMMA UnsubackArrives ==
    ASSUME NEW p \in [type : {UNSUBACK}, id : Int16]
    PROVE  Announces(p) /\ Arrives(p)
<1>1. p.type = UNSUBACK /\ p.id \in Nat
  BY DEF Int16
<1>2. Length(p) = 2
  BY <1>1, LengthOf
<1>3. Body(p) \in Bytes /\ Len(Body(p)) = 2
  BY <1>1, BodyOf, IntBytes DEF MQTTSerialize_unsuback
<1>4. p.type \notin {CONNECT, SUBACK}
  BY <1>1 DEF CONNECT, SUBACK, UNSUBACK
<1>5. Arrives(p)
  BY <1>4, UnsubackRead, OtherSupplied DEF Arrives
<1> QED
  BY <1>2, <1>3, <1>5 DEF Announces

\* CONNACK.
LEMMA ConnackArrives ==
    ASSUME NEW p \in [type : {CONNACK}, sessionPresent : BOOLEAN, code : Byte]
    PROVE  Announces(p) /\ Arrives(p)
<1>1. p.type = CONNACK /\ p.code \in Byte /\ p.sessionPresent \in BOOLEAN
  OBVIOUS
<1>2. Length(p) = 2
  BY <1>1, LengthOf
<1>3. Body(p) = <<Flag(p.sessionPresent), p.code>>
  BY <1>1, BodyOf DEF MQTTSerialize_connack
<1>4. Body(p) \in Bytes /\ Len(Body(p)) = 2
  <2>1. Flag(p.sessionPresent) \in Byte
    BY <1>1, FlagBits DEF Byte
  <2> QED
    BY <1>1, <1>3, <2>1 DEF Bytes
<1>5. p.type \notin {CONNECT, SUBACK}
  BY <1>1 DEF CONNECT, SUBACK, CONNACK
<1>6. Arrives(p)
  BY <1>5, ConnackRead, OtherSupplied DEF Arrives
<1> QED
  BY <1>2, <1>4, <1>6 DEF Announces

\* Packets without a body: two bytes in all.
LEMMA NoBodyArrives ==
    ASSUME NEW p \in [type : NoBody]
    PROVE  Announces(p) /\ Arrives(p) /\ Needs(p) = 2 /\ Length(p) = 0
<1>1. p.type \in NoBody
  OBVIOUS
<1>2. Length(p) = 0
  BY <1>1, LengthOf
<1>3. Body(p) \in Bytes /\ Len(Body(p)) = 0
  BY <1>1, BodyOf, NoBytes
<1>4. p.type \notin {CONNECT, SUBACK} /\ Needs(p) = 2
  <2>1. p.type \notin {CONNECT, SUBACK}
    BY <1>1 DEF NoBody, CONNECT, SUBACK, PINGREQ, PINGRESP, DISCONNECT
  <2> QED
    BY <1>1, <2>1, NeedsOf
<1>5. Arrives(p)
  BY <1>4, NoBodyRead, OtherSupplied DEF Arrives
<1> QED
  BY <1>2, <1>3, <1>4, <1>5 DEF Announces

\* SUBACK.
LEMMA SubackArrives ==
    ASSUME NEW p \in [type : {SUBACK}, id : Int16, codes : Seq(Byte)]
    PROVE  Announces(p) /\ Arrives(p)
<1> DEFINE w == writeInt(p.id)  c == p.codes
<1>1. p.type = SUBACK /\ p.id \in Nat /\ c \in Bytes
  BY DEF Int16, Bytes
<1>2. Length(p) = 2 + Len(c) /\ Len(c) \in Nat
  BY <1>1, LengthOf DEF Bytes
<1>3. w \in Bytes /\ Len(w) = 2
  BY <1>1, IntBytes
<1>4. Body(p) = w \o c
  BY <1>1, BodyOf DEF MQTTSerialize_suback
<1> HIDE DEF w, c
<1>6. w \o c \in Bytes /\ Len(w \o c) = Len(w) + Len(c)
  BY <1>1, <1>3, Joined
<1>7. Body(p) \in Bytes /\ Len(Body(p)) = Len(w) + Len(c)
  BY <1>4, <1>6, Zenon
<1>8. Length(p) \in Nat /\ Len(Body(p)) <= Length(p)
  BY <1>2, <1>3, <1>7
<1>9. Arrives(p)
  BY <1>1, SubackRead, OtherSupplied DEF Arrives
<1> QED
  BY <1>7, <1>8, <1>9 DEF Announces

\* The packets with strings ask for the length of the packet.
LEMMA UnsubscribeArrives ==
    ASSUME NEW p \in [type : {UNSUBSCRIBE}, dup : BOOLEAN, id : Int16, topics : Seq(MQTTString)]
    PROVE  Announces(p) /\ Arrives(p) /\ Needs(p) = MQTTPacket_len(Length(p))
<1>1. p.type = UNSUBSCRIBE /\ p.id \in Int16 /\ p.topics \in Seq(MQTTString)
  OBVIOUS
<1>2. Body(p) \in Bytes /\ Length(p) = Len(Body(p))
  BY <1>1, UnsubscribeBytes
<1>3. Len(Body(p)) \in Nat
  BY <1>2 DEF Bytes
<1>4. p.type \notin {CONNECT, SUBACK} /\ Needs(p) = MQTTPacket_len(Length(p))
  <2>1. p.type \notin {CONNECT, SUBACK}
    BY <1>1 DEF CONNECT, SUBACK, SUBSCRIBE, UNSUBSCRIBE
  <2> QED
    BY <1>1, <2>1, NeedsOf
<1>5. Arrives(p)
  BY <1>4, UnsubscribeRead, OtherSupplied DEF Arrives
<1>6. Announces(p)
  BY <1>2, <1>3 DEF Announces
<1> QED
  BY <1>4, <1>5, <1>6

\* SUBSCRIBE.
LEMMA SubscribeArrives ==
    ASSUME NEW p \in SubscribePackets, Len(p.codes) = Len(p.topics)
    PROVE  Announces(p) /\ Arrives(p) /\ Needs(p) = MQTTPacket_len(Length(p))
<1>1. p.type = SUBSCRIBE
  BY DEF SubscribePackets
<1>2. Body(p) \in Bytes /\ Length(p) = Len(Body(p))
  BY SubscribeBytes
<1>3. Len(Body(p)) \in Nat
  BY <1>2 DEF Bytes
<1>4. p.type \notin {CONNECT, SUBACK} /\ Needs(p) = MQTTPacket_len(Length(p))
  <2>1. p.type \notin {CONNECT, SUBACK}
    BY <1>1 DEF CONNECT, SUBACK, SUBSCRIBE, UNSUBSCRIBE
  <2> QED
    BY <1>1, <2>1, NeedsOf
<1>5. Arrives(p)
  BY <1>4, SubscribeRead, OtherSupplied DEF Arrives
<1>6. Announces(p)
  BY <1>2, <1>3 DEF Announces
<1> QED
  BY <1>4, <1>5, <1>6

\* PUBLISH.
LEMMA PublishArrives ==
    ASSUME NEW p \in PublishPackets, p.qos = 0 => p.id = 0
    PROVE  Announces(p) /\ Arrives(p)
<1>1. p.type = PUBLISH /\ p.payloadlen \in Nat
  BY DEF PublishPackets
<1>2. Body(p) \in Bytes /\ Length(p) = Len(Body(p)) + p.payloadlen
  BY PublishBytes
<1>3. Len(Body(p)) \in Nat
  BY <1>2 DEF Bytes
<1>4. p.type \notin {CONNECT, SUBACK}
  BY <1>1 DEF CONNECT, SUBACK, PUBLISH
<1>5. Arrives(p)
  BY <1>4, PublishRead, OtherSupplied DEF Arrives
<1>6. Length(p) \in Nat /\ Len(Body(p)) <= Length(p)
  BY <1>1, <1>2, <1>3
<1> QED
  BY <1>2, <1>5, <1>6 DEF Announces

\* CONNECT.
LEMMA ConnectArrives ==
    ASSUME NEW p \in ConnectPackets, WithoutWill(p)
    PROVE  Announces(p) /\ Arrives(p) /\ Needs(p) = MQTTPacket_len(Length(p))
<1>1. p.type = CONNECT
  BY DEF ConnectPackets
<1>2. Body(p) \in Bytes /\ Length(p) = Len(Body(p))
  BY ConnectBytes
<1>3. Len(Body(p)) \in Nat
  BY <1>2 DEF Bytes
<1>4. Needs(p) = MQTTPacket_len(Length(p))
  BY <1>1, NeedsOf
<1>5. Arrives(p)
  BY <1>1, ConnectRead, OtherSupplied DEF Arrives
<1>6. Announces(p)
  BY <1>2, <1>3 DEF Announces
<1> QED
  BY <1>4, <1>5, <1>6

\* Every packet of the callers announces its length and arrives.
LEMMA AllArrive == ASSUME NEW p \in Packets PROVE Announces(p) /\ Arrives(p)
BY Kinds, AckArrives, UnsubackArrives, ConnackArrives, NoBodyArrives, SubackArrives,
   UnsubscribeArrives, SubscribeArrives, PublishArrives, ConnectArrives, Zenon

\* What the client sends is tested against the length of the packet, but for a PUBLISH.
LEMMA TestedAgainst ==
    ASSUME NEW p \in Packets, p.type \notin {CONNACK, SUBACK, UNSUBACK, PUBLISH}
    PROVE  Needs(p) = MQTTPacket_len(Length(p))
<1>1. MQTTPacket_len(2) = 4 /\ MQTTPacket_len(0) = 2
  BY DEF MQTTPacket_len, FieldLength
<1>2. ASSUME p \in [type : Acks, dup : BOOLEAN, id : Int16]
      PROVE  Needs(p) = MQTTPacket_len(Length(p))
  BY <1>1, <1>2, AckArrives
<1>3. ASSUME p \in [type : NoBody] PROVE Needs(p) = MQTTPacket_len(Length(p))
  BY <1>1, <1>3, NoBodyArrives
<1>4. /\ p \in [type : {CONNACK}, sessionPresent : BOOLEAN, code : Byte] => p.type = CONNACK
      /\ p \in [type : {SUBACK}, id : Int16, codes : Seq(Byte)] => p.type = SUBACK
      /\ p \in [type : {UNSUBACK}, id : Int16] => p.type = UNSUBACK
      /\ p \in PublishPackets => p.type = PUBLISH
  BY DEF PublishPackets
<1> QED
  BY <1>2, <1>3, <1>4, Kinds, UnsubscribeArrives, SubscribeArrives, ConnectArrives, Zenon

-----------------------------------------------------------------------------
(* Recursion and induction from the last position to the first.              *)

\* A set of positions that has the last one, and with each other one the one before,
\* has all of them.
LEMMA BackwardInduction ==
    ASSUME NEW n \in Nat, NEW S, n + 1 \in S, \A i \in 1..n : i + 1 \in S => i \in S
    PROVE  \A i \in 1..(n + 1) : i \in S
<1> DEFINE T == {k \in Nat : k <= n => n + 1 - k \in S}
<1>1. 0 \in T
  OBVIOUS
<1>2. ASSUME NEW k \in Nat, k \in T PROVE k + 1 \in T
  <2> SUFFICES ASSUME k + 1 <= n PROVE n + 1 - (k + 1) \in S
    OBVIOUS
  <2>1. n + 1 - (k + 1) \in 1..n /\ (n + 1 - (k + 1)) + 1 = n + 1 - k
    OBVIOUS
  <2>2. n + 1 - k \in S
    BY <1>2
  <2> QED
    BY <2>1, <2>2
<1> HIDE DEF T
<1>3. \A k \in Nat : k \in T
  BY <1>1, <1>2, Induction
<1> SUFFICES ASSUME NEW i \in 1..(n + 1) PROVE i \in S
  OBVIOUS
<1>4. n + 1 - i \in Nat /\ n + 1 - i <= n /\ n + 1 - (n + 1 - i) = i
  OBVIOUS
<1>5. n + 1 - i \in T
  BY <1>3, <1>4
<1> QED
  BY <1>4, <1>5 DEF T

\* G leads through g from the last position, where it is a, to the first.
IteratesBack(g, n, a, G) == g[n + 1] = a /\ \A i \in 1..n : g[i] = G[<<i, g[i + 1]>>]

\* There is a function that G leads through from the last position to the first.
LEMMA BackwardRecursion ==
    ASSUME NEW n \in Nat, NEW D, NEW a \in D, NEW G \in [(1..n) \X D -> D]
    PROVE  \E g \in [1..(n + 1) -> D] : IteratesBack(g, n, a, G)
<1> DEFINE H == [x \in (1..n) \X D |-> G[<<n + 1 - x[1], x[2]>>]]
<1>1. \A x \in (1..n) \X D : <<n + 1 - x[1], x[2]>> \in (1..n) \X D
  OBVIOUS
<1>2. H \in [(1..n) \X D -> D]
  BY <1>1
<1>3. \A k \in 1..n, d \in D : H[<<k, d>>] = G[<<n + 1 - k, d>>]
  OBVIOUS
<1> HIDE DEF H
<1>4. PICK f \in [0..n -> D] : Iterates(f, n, a, H)
  BY <1>2, Recursion
<1> DEFINE g == [i \in 1..(n + 1) |-> f[n + 1 - i]]
<1>5. \A i \in 1..(n + 1) : n + 1 - i \in 0..n
  OBVIOUS
<1>6. g \in [1..(n + 1) -> D]
  BY <1>5
<1>7. g[n + 1] = a
  BY <1>4 DEF Iterates
<1>8. ASSUME NEW i \in 1..n PROVE g[i] = G[<<i, g[i + 1]>>]
  <2>1. /\ i \in 1..(n + 1) /\ i + 1 \in 1..(n + 1) /\ n + 1 - i \in 1..n
        /\ n + 1 - (i + 1) = (n + 1 - i) - 1 /\ n + 1 - (n + 1 - i) = i
        /\ (n + 1 - i) - 1 \in 0..n
    OBVIOUS
  <2>2. g[i] = f[n + 1 - i] /\ g[i + 1] = f[(n + 1 - i) - 1]
    BY <2>1
  <2> HIDE DEF g
  <2>3. f[n + 1 - i] = H[<<n + 1 - i, f[(n + 1 - i) - 1]>>]
    BY <1>4, <2>1 DEF Iterates
  <2>4. f[(n + 1 - i) - 1] \in D
    BY <2>1
  <2>5. H[<<n + 1 - i, f[(n + 1 - i) - 1]>>] = G[<<n + 1 - (n + 1 - i), f[(n + 1 - i) - 1]>>]
    BY <1>3, <2>1, <2>4
  <2> QED
    BY <2>1, <2>2, <2>3, <2>5
<1> HIDE DEF g
<1> QED
  BY <1>6, <1>7, <1>8 DEF IteratesBack

-----------------------------------------------------------------------------
(* The levels of a string.                                                   *)

\* There is always a level.
SomeLevels == {l \in Seq(Bytes) : l # << >>}

\* A level begins; a byte is put before what there is.
NewLevel(l) == <<<< >>>> \o l
PutFirst(c, l) == <<<<c>> \o Head(l)>> \o Tail(l)

\* What is left of the levels behind a new, empty one.
LEMMA NewLevelIs ==
    ASSUME NEW l \in SomeLevels
    PROVE  /\ NewLevel(l) \in SomeLevels
           /\ Len(NewLevel(l)) = Len(l) + 1
           /\ NewLevel(l)[1] = << >>
           /\ \A k \in 1..Len(l) : NewLevel(l)[k + 1] = l[k]
<1>1. << >> \in Bytes
  BY DEF Bytes
<1> DEFINE x == NewLevel(l)
<1>2. <<<< >>>> \in Seq(Bytes) /\ l \in Seq(Bytes) /\ l # << >>
  BY <1>1 DEF SomeLevels
<1>3. x \in Seq(Bytes) /\ Len(x) = Len(l) + 1 /\ x[1] = << >> /\ \A k \in 1..Len(l) : x[k + 1] = l[k]
  BY <1>2 DEF NewLevel
<1>4. x # << >>
  BY <1>2, <1>3
<1> QED
  BY <1>3, <1>4 DEF SomeLevels

\* What is left of the levels when a byte is put in front of the first.
LEMMA PutFirstIs ==
    ASSUME NEW c \in Byte, NEW l \in SomeLevels
    PROVE  /\ PutFirst(c, l) \in SomeLevels
           /\ Len(PutFirst(c, l)) = Len(l)
           /\ l[1] \in Bytes
           /\ PutFirst(c, l)[1] = <<c>> \o l[1]
           /\ \A k \in 2..Len(l) : PutFirst(c, l)[k] = l[k]
<1>1. l \in Seq(Bytes) /\ l # << >>
  BY DEF SomeLevels
<1>2. Head(l) = l[1] /\ l[1] \in Bytes /\ Tail(l) \in Seq(Bytes) /\ Len(Tail(l)) = Len(l) - 1 /\ Len(l) > 0
  BY <1>1
<1>3. \A k \in 2..Len(l) : Tail(l)[k - 1] = l[k]
  BY <1>1
<1> DEFINE h == <<c>> \o l[1]
           t == Tail(l)
<1>4. h \in Bytes
  BY <1>2 DEF Bytes
<1> DEFINE x == <<h>> \o t
<1>5. PutFirst(c, l) = x
  BY <1>2 DEF PutFirst
<1> HIDE DEF h, t
<1>6. t \in Seq(Bytes) /\ Len(t) = Len(l) - 1 /\ \A k \in 2..Len(l) : t[k - 1] = l[k]
  BY <1>2, <1>3 DEF t
<1>7. Len(l) \in Nat /\ Len(t) \in Nat
  BY <1>1, <1>6
<1>8. x \in Seq(Bytes) /\ Len(x) = Len(t) + 1 /\ x[1] = h
  BY <1>4, <1>6
<1>9. \A k \in 1..Len(t) : x[k + 1] = t[k]
  BY <1>4, <1>6
<1>10. \A k \in 2..Len(l) : x[k] = l[k]
  <2> SUFFICES ASSUME NEW k \in 2..Len(l) PROVE x[k] = l[k]
    OBVIOUS
  <2>1. k - 1 \in 1..Len(t) /\ (k - 1) + 1 = k
    BY <1>6, <1>7
  <2> HIDE DEF x
  <2> QED
    BY <1>6, <1>9, <2>1
<1>11. x # << >> /\ Len(x) = Len(l)
  BY <1>6, <1>7, <1>8
<1> QED
  BY <1>2, <1>5, <1>8, <1>10, <1>11 DEF SomeLevels, h

\* L[i] are the levels of s from its byte i on.
SplitsFrom(L, s) ==
    /\ L \in [1..(Len(s) + 1) -> SomeLevels]
    /\ L[Len(s) + 1] = <<<< >>>>
    /\ \A i \in 1..Len(s) :
         L[i] = IF s[i] = Slash THEN NewLevel(L[i + 1]) ELSE PutFirst(s[i], L[i + 1])

\* Levels is the function its recursion describes.
LEMMA LevelsDef ==
    ASSUME NEW s \in Bytes
    PROVE  \E L : SplitsFrom(L, s) /\ Levels(s) = L[1]
<1> DEFINE n == Len(s)
           Before(i, l) == IF s[i] = Slash THEN NewLevel(l) ELSE PutFirst(s[i], l)
           G == [x \in (1..n) \X SomeLevels |-> Before(x[1], x[2])]
           Eq(L) == L = [i \in 1..(n + 1) |->
                          IF i > n THEN <<<< >>>>
                          ELSE LET rest == L[i + 1]
                               IN  IF s[i] = Slash THEN <<<< >>>> \o rest
                                   ELSE <<<<s[i]>> \o Head(rest)>> \o Tail(rest)]
<1>1. n \in Nat /\ \A i \in 1..n : s[i] \in Byte
  BY DEF Bytes
<1>2. <<<< >>>> \in SomeLevels
  <2>1. << >> \in Bytes
    BY DEF Bytes
  <2> QED
    BY <2>1 DEF SomeLevels
<1> HIDE DEF n
<1>3. ASSUME NEW i \in 1..n, NEW l \in SomeLevels PROVE Before(i, l) \in SomeLevels
  BY <1>1, NewLevelIs, PutFirstIs
<1>4. G \in [(1..n) \X SomeLevels -> SomeLevels]
  <2> HIDE DEF Before
  <2> QED
    BY <1>3
<1>5. \A i \in 1..n, l \in SomeLevels : G[<<i, l>>] = Before(i, l)
  <2> HIDE DEF Before
  <2> QED
    OBVIOUS
<1> HIDE DEF G
<1>6. PICK g \in [1..(n + 1) -> SomeLevels] : IteratesBack(g, n, <<<< >>>>, G)
  BY <1>1, <1>2, <1>4, BackwardRecursion
<1>7. \A i \in 1..n : g[i] = Before(i, g[i + 1])
  <2> SUFFICES ASSUME NEW i \in 1..n PROVE g[i] = Before(i, g[i + 1])
    OBVIOUS
  <2>1. i + 1 \in 1..(n + 1)
    BY <1>1
  <2> HIDE DEF Before
  <2> QED
    BY <1>5, <1>6, <2>1 DEF IteratesBack
<1>8. \A L : Eq(L) <=> L = [i \in 1..(n + 1) |-> IF i > n THEN <<<< >>>> ELSE Before(i, L[i + 1])]
  BY Zenon DEF NewLevel, PutFirst
<1>9. \E L : Eq(L)
  <2>1. \A i \in 1..(n + 1) : g[i] = IF i > n THEN <<<< >>>> ELSE Before(i, g[i + 1])
    <3> HIDE DEF Before
    <3> QED
      <4>1. \A i \in 1..(n + 1) : IF i > n THEN i = n + 1 ELSE i \in 1..n
        BY <1>1
      <4> QED
        BY <1>6, <1>7, <4>1, Zenon DEF IteratesBack
  <2>2. g = [i \in 1..(n + 1) |-> g[i]]
    OBVIOUS
  <2> HIDE DEF Before
  <2>3. g = [i \in 1..(n + 1) |-> IF i > n THEN <<<< >>>> ELSE Before(i, g[i + 1])]
    BY <2>1, <2>2
  <2> HIDE DEF Eq
  <2> QED
    BY <1>8, <2>3
<1> DEFINE C == CHOOSE L : Eq(L)
<1>10. Eq(C)
  <2> HIDE DEF Eq
  <2> QED
    BY <1>9
<1>11. Levels(s) = C[1]
  BY Zenon DEF Levels, n
<1> HIDE DEF C
<1>12. C = [i \in 1..(n + 1) |-> IF i > n THEN <<<< >>>> ELSE Before(i, C[i + 1])]
  <2> HIDE DEF Eq
  <2> QED
    BY <1>8, <1>10
<1> HIDE DEF Before
<1>13. C[n + 1] = <<<< >>>> /\ \A i \in 1..n : C[i] = Before(i, C[i + 1])
  <2>1. n + 1 \in 1..(n + 1) /\ n + 1 > n /\ \A i \in 1..n : i \in 1..(n + 1) /\ ~ (i > n)
    BY <1>1
  <2> QED
    BY <1>12, <2>1
<1>14. \A i \in 1..(n + 1) : C[i] \in SomeLevels
  <2> DEFINE S == {i \in 1..(n + 1) : C[i] \in SomeLevels}
  <2>1. n + 1 \in S
    BY <1>1, <1>2, <1>13
  <2>2. ASSUME NEW i \in 1..n, i + 1 \in S PROVE i \in S
    BY <1>1, <1>3, <1>13, <2>2
  <2> HIDE DEF S
  <2>3. \A i \in 1..(n + 1) : i \in S
    BY <1>1, <2>1, <2>2, BackwardInduction
  <2> QED
    BY <2>3 DEF S
<1>15. C \in [1..(n + 1) -> SomeLevels]
  BY <1>12, <1>14
<1>16. SplitsFrom(C, s)
  BY <1>13, <1>15 DEF SplitsFrom, n, Before
<1> QED
  BY <1>11, <1>16

\* What a level of a filter that is not '#' stands for.
First(a, b) == IF a = <<Plus>> THEN b # << >> ELSE a = b

\* ByLevels, of levels.
StandsFor(F, N) ==
    LET open == F[Len(F)] = <<Hash>>
        fixed == IF open THEN Len(F) - 1 ELSE Len(F)
    IN  /\ IF open THEN Len(N) > fixed /\ N[Len(F)] # << >> ELSE Len(N) = fixed
        /\ \A k \in 1..fixed : First(F[k], N[k])

LEMMA ByLevelsIs ==
    ASSUME NEW f, NEW n
    PROVE  ByLevels(f, n) <=> StandsFor(Levels(f), Levels(n))
BY Zenon DEF ByLevels, StandsFor, First

\* The two halves of it: the last level of the filter is '#', or is not.
LEMMA StandsOpen ==
    ASSUME NEW F, NEW N, F[Len(F)] = <<Hash>>
    PROVE  StandsFor(F, N) <=>
             /\ Len(N) > Len(F) - 1 /\ N[Len(F)] # << >>
             /\ \A k \in 1..(Len(F) - 1) : First(F[k], N[k])
BY Zenon DEF StandsFor

\* Without '#' there are as many levels, and each stands for its own.
LEMMA StandsFixed ==
    ASSUME NEW F, NEW N, F[Len(F)] # <<Hash>>
    PROVE  StandsFor(F, N) <=> Len(N) = Len(F) /\ \A k \in 1..Len(F) : First(F[k], N[k])
BY Zenon DEF StandsFor

\* There is a first level, if only an empty one.
LEMMA LevelsLen == ASSUME NEW l \in SomeLevels PROVE Len(l) \in Nat /\ Len(l) >= 1
<1>1. l \in Seq(Bytes) /\ l # << >>
  BY DEF SomeLevels
<1> QED
  BY <1>1

\* Levels of which only the first differ.
LEMMA StandsIfFirst ==
    ASSUME NEW F \in SomeLevels, NEW F2 \in SomeLevels, NEW N \in SomeLevels, NEW N2 \in SomeLevels,
           Len(F) = Len(F2), Len(N) = Len(N2),
           \A k \in 2..Len(F) : F[k] = F2[k], \A k \in 2..Len(N) : N[k] = N2[k],
           F[1] # <<Hash>>, F2[1] # <<Hash>>,
           First(F[1], N[1]) <=> First(F2[1], N2[1]),
           StandsFor(F, N)
    PROVE  StandsFor(F2, N2)
<1>1. Len(F) \in Nat /\ Len(F) >= 1 /\ Len(N) \in Nat /\ Len(N) >= 1
  BY LevelsLen
<1>2. CASE F[Len(F)] = <<Hash>>
  <2>1. Len(F) # 1
    BY <1>2, Zenon
  <2>2. Len(F) \in 2..Len(F)
    BY <1>1, <2>1
  <2>3. F2[Len(F2)] = <<Hash>>
    BY <1>2, <2>2
  <2>4. /\ Len(N) > Len(F) - 1 /\ N[Len(F)] # << >>
        /\ \A k \in 1..(Len(F) - 1) : First(F[k], N[k])
    BY <1>2, StandsOpen
  <2>5. N2[Len(F2)] # << >>
    <3>1. Len(F) \in 2..Len(N)
      BY <1>1, <2>1, <2>4
    <3> QED
      BY <2>4, <3>1
  <2>6. ASSUME NEW k \in 1..(Len(F2) - 1) PROVE First(F2[k], N2[k])
    <3>1. First(F[k], N[k])
      BY <2>4
    <3>2. CASE k = 1
      BY <3>1, <3>2
    <3>3. CASE k # 1
      <4>1. k \in 2..Len(F) /\ k \in 2..Len(N)
        BY <1>1, <2>4, <3>3
      <4> QED
        BY <3>1, <4>1
    <3> QED
      BY <3>2, <3>3
  <2>7. Len(N2) > Len(F2) - 1
    BY <2>4
  <2> QED
    BY <2>3, <2>5, <2>6, <2>7, StandsOpen
<1>3. CASE F[Len(F)] # <<Hash>>
  <2>1. F2[Len(F2)] # <<Hash>>
    <3>1. CASE Len(F) = 1
      BY <3>1
    <3>2. CASE Len(F) # 1
      <4>1. Len(F) \in 2..Len(F)
        BY <1>1, <3>2
      <4> QED
        BY <1>3, <4>1
    <3> QED
      BY <3>1, <3>2
  <2>2. Len(N) = Len(F) /\ \A k \in 1..Len(F) : First(F[k], N[k])
    BY <1>3, StandsFixed
  <2>3. ASSUME NEW k \in 1..Len(F2) PROVE First(F2[k], N2[k])
    <3>1. First(F[k], N[k])
      BY <2>2
    <3>2. CASE k = 1
      BY <3>1, <3>2
    <3>3. CASE k # 1
      <4>1. k \in 2..Len(F) /\ k \in 2..Len(N)
        BY <1>1, <2>2, <3>3
      <4> QED
        BY <3>1, <4>1
    <3> QED
      BY <3>2, <3>3
  <2>4. Len(N2) = Len(F2)
    BY <2>2
  <2> QED
    BY <2>1, <2>3, <2>4, StandsFixed
<1> QED
  BY <1>2, <1>3

\* Whether levels stand for others depends, but for '#', on how the first ones do.
LEMMA StandsSame ==
    ASSUME NEW F \in SomeLevels, NEW F2 \in SomeLevels, NEW N \in SomeLevels, NEW N2 \in SomeLevels,
           Len(F) = Len(F2), Len(N) = Len(N2),
           \A k \in 2..Len(F) : F[k] = F2[k], \A k \in 2..Len(N) : N[k] = N2[k],
           F[1] # <<Hash>>, F2[1] # <<Hash>>,
           First(F[1], N[1]) <=> First(F2[1], N2[1])
    PROVE  StandsFor(F, N) <=> StandsFor(F2, N2)
<1>1. StandsFor(F, N) => StandsFor(F2, N2)
  BY StandsIfFirst
<1>2. \A k \in 2..Len(F2) : F2[k] = F[k]
  OBVIOUS
<1>3. \A k \in 2..Len(N2) : N2[k] = N[k]
  OBVIOUS
<1>4. StandsFor(F2, N2) => StandsFor(F, N)
  BY <1>2, <1>3, StandsIfFirst
<1> QED
  BY <1>1, <1>4

\* A separator in front of both.
LEMMA StandsBehindSlash ==
    ASSUME NEW F \in SomeLevels, NEW N \in SomeLevels
    PROVE  StandsFor(NewLevel(F), NewLevel(N)) <=> StandsFor(F, N)
<1> DEFINE X == NewLevel(F)
           Y == NewLevel(N)
<1>1. Len(F) \in Nat /\ Len(F) >= 1 /\ Len(N) \in Nat /\ Len(N) >= 1
  BY LevelsLen
<1>2. Len(X) = Len(F) + 1 /\ X[1] = << >> /\ \A k \in 1..Len(F) : X[k + 1] = F[k]
  BY NewLevelIs
<1>3. Len(Y) = Len(N) + 1 /\ Y[1] = << >> /\ \A k \in 1..Len(N) : Y[k + 1] = N[k]
  BY NewLevelIs
<1> HIDE DEF X, Y
<1> SUFFICES StandsFor(X, Y) <=> StandsFor(F, N)
  BY DEF X, Y
<1>4. First(X[1], Y[1])
  <2>1. << >> # <<Plus>>
    OBVIOUS
  <2> QED
    BY <1>2, <1>3, <2>1 DEF First
<1>5. X[Len(X)] = F[Len(F)]
  BY <1>1, <1>2
<1>6. ASSUME NEW m \in Nat, m <= Len(F), m <= Len(N)
      PROVE  (\A k \in 1..(m + 1) : First(X[k], Y[k])) <=> (\A k \in 1..m : First(F[k], N[k]))
  <2>1. ASSUME \A k \in 1..(m + 1) : First(X[k], Y[k]), NEW k \in 1..m PROVE First(F[k], N[k])
    <3>1. k + 1 \in 1..(m + 1) /\ k \in 1..Len(F) /\ k \in 1..Len(N)
      BY <1>1, <1>6
    <3>2. First(X[k + 1], Y[k + 1])
      BY <2>1, <3>1
    <3> QED
      BY <1>2, <1>3, <3>1, <3>2
  <2>2. ASSUME \A k \in 1..m : First(F[k], N[k]), NEW k \in 1..(m + 1) PROVE First(X[k], Y[k])
    <3>1. CASE k = 1
      BY <1>4, <3>1
    <3>2. CASE k # 1
      <4>1. k - 1 \in 1..m /\ (k - 1) + 1 = k /\ k - 1 \in 1..Len(F) /\ k - 1 \in 1..Len(N)
        BY <1>1, <1>6, <3>2
      <4>2. First(F[k - 1], N[k - 1])
        BY <2>2, <4>1
      <4>3. X[(k - 1) + 1] = F[k - 1] /\ Y[(k - 1) + 1] = N[k - 1]
        BY <1>2, <1>3, <4>1
      <4> QED
        BY <4>1, <4>2, <4>3
    <3> QED
      BY <3>1, <3>2
  <2> QED
    BY <2>1, <2>2
<1>7. CASE F[Len(F)] = <<Hash>>
  <2>1. StandsFor(F, N) <=> /\ Len(N) > Len(F) - 1 /\ N[Len(F)] # << >>
                            /\ \A k \in 1..(Len(F) - 1) : First(F[k], N[k])
    BY <1>7, StandsOpen
  <2>2. StandsFor(X, Y) <=> /\ Len(Y) > Len(X) - 1 /\ Y[Len(X)] # << >>
                            /\ \A k \in 1..(Len(X) - 1) : First(X[k], Y[k])
    BY <1>5, <1>7, StandsOpen
  <2>3. Len(Y) > Len(X) - 1 <=> Len(N) > Len(F) - 1
    BY <1>1, <1>2, <1>3
  <2>4. ASSUME Len(N) > Len(F) - 1
        PROVE  /\ Y[Len(X)] = N[Len(F)]
               /\ (\A k \in 1..(Len(X) - 1) : First(X[k], Y[k]))
                    <=> (\A k \in 1..(Len(F) - 1) : First(F[k], N[k]))
    <3>1. Len(F) \in 1..Len(N)
      BY <1>1, <2>4
    <3>2. Y[Len(X)] = N[Len(F)]
      BY <1>2, <1>3, <3>1
    <3>3. Len(F) - 1 \in Nat /\ Len(F) - 1 <= Len(F) /\ Len(F) - 1 <= Len(N)
      BY <1>1, <2>4
    <3>4. (\A k \in 1..((Len(F) - 1) + 1) : First(X[k], Y[k]))
            <=> (\A k \in 1..(Len(F) - 1) : First(F[k], N[k]))
      BY <1>6, <3>3
    <3>5. (Len(F) - 1) + 1 = Len(X) - 1
      BY <1>1, <1>2
    <3> QED
      BY <3>2, <3>4, <3>5
  <2> QED
    BY <2>1, <2>2, <2>3, <2>4
<1>8. CASE F[Len(F)] # <<Hash>>
  <2>1. StandsFor(F, N) <=> Len(N) = Len(F) /\ \A k \in 1..Len(F) : First(F[k], N[k])
    BY <1>8, StandsFixed
  <2>2. StandsFor(X, Y) <=> Len(Y) = Len(X) /\ \A k \in 1..Len(X) : First(X[k], Y[k])
    BY <1>5, <1>8, StandsFixed
  <2>3. Len(Y) = Len(X) <=> Len(N) = Len(F)
    BY <1>1, <1>2, <1>3
  <2>4. ASSUME Len(N) = Len(F)
        PROVE  (\A k \in 1..Len(X) : First(X[k], Y[k]))
                 <=> (\A k \in 1..Len(F) : First(F[k], N[k]))
    <3>1. (\A k \in 1..(Len(F) + 1) : First(X[k], Y[k]))
            <=> (\A k \in 1..Len(F) : First(F[k], N[k]))
      BY <1>1, <1>6, <2>4
    <3> QED
      BY <1>2, <3>1
  <2> QED
    BY <2>1, <2>2, <2>3, <2>4
<1> QED
  BY <1>7, <1>8

\* The first level has to be stood for.
LEMMA StandsNeedsFirst ==
    ASSUME NEW F \in SomeLevels, NEW N \in SomeLevels, F[1] # <<Hash>>, StandsFor(F, N)
    PROVE  First(F[1], N[1])
<1>1. Len(F) \in Nat /\ Len(F) >= 1
  BY LevelsLen
<1>2. CASE F[Len(F)] = <<Hash>>
  <2>1. Len(F) # 1
    BY <1>2, Zenon
  <2>2. 1 \in 1..(Len(F) - 1)
    BY <1>1, <2>1
  <2> QED
    BY <1>2, <2>2, StandsOpen
<1>3. CASE F[Len(F)] # <<Hash>>
  <2>1. 1 \in 1..Len(F)
    BY <1>1
  <2> QED
    BY <1>3, <2>1, StandsFixed
<1> QED
  BY <1>2, <1>3

\* A '#' alone stands for all that begins with something.
LEMMA StandsForRest ==
    ASSUME NEW F \in SomeLevels, NEW N \in SomeLevels, Len(F) = 1, F[1] = <<Hash>>
    PROVE  StandsFor(F, N) <=> N[1] # << >>
<1>1. Len(N) \in Nat /\ Len(N) >= 1
  BY LevelsLen
<1>2. F[Len(F)] = <<Hash>>
  OBVIOUS
<1>3. Len(N) > Len(F) - 1 /\ Len(F) - 1 = 0
  BY <1>1
<1>4. 1..(Len(F) - 1) = {}
  BY <1>3
<1> QED
  BY <1>2, <1>3, <1>4, StandsOpen

\* One level does not stand for more, nor more for one.
LEMMA StandsForOne ==
    ASSUME NEW F \in SomeLevels, NEW N \in SomeLevels, StandsFor(F, N),
           F[1] # <<Hash>>, Len(F) = 1 \/ Len(N) = 1
    PROVE  Len(F) = 1 /\ Len(N) = 1
<1>1. Len(F) \in Nat /\ Len(F) >= 1 /\ Len(N) \in Nat /\ Len(N) >= 1
  BY LevelsLen
<1>2. CASE F[Len(F)] = <<Hash>>
  <2>1. Len(F) # 1
    BY <1>2, Zenon
  <2>2. Len(N) > Len(F) - 1 /\ N[Len(F)] # << >>
    BY <1>2, StandsOpen
  <2>3. Len(N) # 1
    BY <1>1, <2>1, <2>2
  <2> QED
    BY <2>1, <2>3
<1>3. CASE F[Len(F)] # <<Hash>>
  BY <1>3, StandsFixed
<1> QED
  BY <1>2, <1>3

\* WellFormed, of levels.
Correct(l) ==
    /\ \A k \in DOMAIN l : Len(l[k]) > 1 => \A i \in DOMAIN l[k] : l[k][i] \notin {Plus, Hash}
    /\ \A k \in DOMAIN l : l[k] = <<Hash>> => k = Len(l)

\* The format is one of the levels.
LEMMA WellFormedIs == ASSUME NEW f PROVE WellFormed(f) <=> Correct(Levels(f))
BY Zenon DEF WellFormed, Correct

\* A byte and what is behind it.
LEMMA ByteFirst ==
    ASSUME NEW c \in Byte, NEW b \in Bytes
    PROVE  /\ <<c>> \o b \in Bytes /\ Len(b) \in Nat
           /\ Len(<<c>> \o b) = Len(b) + 1
           /\ (<<c>> \o b)[1] = c
           /\ \A i \in 1..Len(b) : (<<c>> \o b)[i + 1] = b[i]
BY DEF Bytes

\* The levels of a level are its positions.
LEMMA LevelsOf ==
    ASSUME NEW l \in SomeLevels
    PROVE  /\ DOMAIN l = 1..Len(l) /\ 1 \in 1..Len(l)
           /\ \A k \in 1..Len(l) : l[k] \in Bytes /\ DOMAIN l[k] = 1..Len(l[k]) /\ Len(l[k]) \in Nat
<1>1. l \in Seq(Bytes) /\ l # << >>
  BY DEF SomeLevels
<1>2. DOMAIN l = 1..Len(l) /\ Len(l) \in Nat /\ Len(l) > 0
  BY <1>1
<1>3. \A k \in 1..Len(l) : l[k] \in Bytes
  BY <1>1
<1>4. \A b \in Bytes : DOMAIN b = 1..Len(b) /\ Len(b) \in Nat
  BY DEF Bytes
<1>5. 1 \in 1..Len(l)
  BY <1>2
<1> QED
  BY <1>2, <1>3, <1>4, <1>5, Zenon

\* What is behind a separator of a filter in the format is in the format.
LEMMA CorrectBehindSlash ==
    ASSUME NEW l \in SomeLevels, Correct(NewLevel(l))
    PROVE  Correct(l)
<1> DEFINE X == NewLevel(l)
<1>1. /\ X \in SomeLevels /\ Len(X) = Len(l) + 1
      /\ \A k \in 1..Len(l) : X[k + 1] = l[k]
  BY NewLevelIs
<1>2. Correct(X)
  OBVIOUS
<1> HIDE DEF X
<1>3. DOMAIN X = 1..Len(X) /\ DOMAIN l = 1..Len(l)
  BY <1>1, LevelsOf
<1>4. Len(l) \in Nat
  BY LevelsLen
<1>5. ASSUME NEW k \in 1..Len(l) PROVE k + 1 \in DOMAIN X /\ X[k + 1] = l[k]
  BY <1>1, <1>3, <1>4
<1>6. ASSUME NEW k \in DOMAIN l, Len(l[k]) > 1, NEW i \in DOMAIN l[k]
      PROVE  l[k][i] \notin {Plus, Hash}
  BY <1>2, <1>3, <1>5, <1>6, Zenon DEF Correct
<1>7. ASSUME NEW k \in DOMAIN l, l[k] = <<Hash>> PROVE k = Len(l)
  <2>1. k + 1 = Len(X)
    BY <1>2, <1>3, <1>5, <1>7, Zenon DEF Correct
  <2> QED
    BY <1>1, <1>3, <1>4, <2>1
<1> QED
  BY <1>6, <1>7, Zenon DEF Correct

\* The same for any other byte, which is a wildcard only if it is the level.
LEMMA CorrectBehindByte ==
    ASSUME NEW c \in Byte, NEW l \in SomeLevels, Correct(PutFirst(c, l))
    PROVE  /\ Correct(l)
           /\ c \in {Plus, Hash} => l[1] = << >>
           /\ c = Hash => Len(l) = 1
           /\ l[1] # <<Plus>> /\ l[1] # <<Hash>>
<1> DEFINE X == PutFirst(c, l)
           a == l[1]
           b == <<c>> \o a
<1>1. /\ X \in SomeLevels /\ Len(X) = Len(l) /\ a \in Bytes /\ X[1] = b
      /\ \A k \in 2..Len(l) : X[k] = l[k]
  BY PutFirstIs
<1>2. /\ b \in Bytes /\ Len(a) \in Nat /\ Len(b) = Len(a) + 1 /\ b[1] = c
      /\ \A i \in 1..Len(a) : b[i + 1] = a[i]
  BY <1>1, ByteFirst
<1>3. Correct(X)
  OBVIOUS
<1> HIDE DEF X, b
<1>4. /\ DOMAIN X = 1..Len(l) /\ DOMAIN l = 1..Len(l) /\ 1 \in 1..Len(l)
      /\ DOMAIN b = 1..Len(b) /\ DOMAIN a = 1..Len(a)
  BY <1>1, LevelsOf
<1>5. Len(l) \in Nat
  BY LevelsLen
<1>6. ASSUME Len(a) > 0 PROVE \A i \in DOMAIN b : b[i] \notin {Plus, Hash}
  <2>1. Len(X[1]) > 1 /\ 1 \in DOMAIN X
    BY <1>1, <1>2, <1>4, <1>6
  <2> QED
    BY <1>1, <1>3, <2>1, Zenon DEF Correct
<1>7. ASSUME Len(a) > 0 PROVE c \notin {Plus, Hash} /\ \A i \in DOMAIN a : a[i] \notin {Plus, Hash}
  <2>1. 1 \in DOMAIN b
    BY <1>2, <1>4
  <2>2. \A i \in DOMAIN a : i + 1 \in DOMAIN b /\ b[i + 1] = a[i]
    BY <1>2, <1>4
  <2> QED
    BY <1>2, <1>6, <1>7, <2>1, <2>2, Zenon
<1>8. Len(a) = 0 => a = << >>
  BY <1>1 DEF Bytes
<1>9. c \in {Plus, Hash} => a = << >>
  BY <1>2, <1>7, <1>8
<1>10. a # <<Plus>> /\ a # <<Hash>>
  <2>1. ASSUME NEW w \in {Plus, Hash}, a = <<w>> PROVE FALSE
    <3>1. Len(a) = 1 /\ a[1] = w
      BY <2>1
    <3>2. 1 \in DOMAIN a /\ Len(a) > 0
      BY <1>4, <3>1
    <3>3. a[1] \notin {Plus, Hash}
      BY <1>7, <3>2
    <3> QED
      BY <2>1, <3>1, <3>3
  <2> QED
    BY <2>1
<1>11. c = Hash => Len(l) = 1
  <2> SUFFICES ASSUME c = Hash PROVE Len(l) = 1
    OBVIOUS
  <2>1. a = << >>
    BY <1>9
  <2>2. b = <<Hash>>
    BY <2>1 DEF b
  <2>3. 1 = Len(X)
    BY <1>1, <1>3, <1>4, <2>2, Zenon DEF Correct
  <2> QED
    BY <1>1, <2>3
<1>12. ASSUME NEW k \in DOMAIN l, Len(l[k]) > 1, NEW i \in DOMAIN l[k]
       PROVE  l[k][i] \notin {Plus, Hash}
  <2>1. CASE k = 1
    <3>1. Len(a) > 0 /\ l[k] = a
      BY <1>2, <1>12, <2>1
    <3> HIDE DEF a
    <3> QED
      BY <1>7, <1>12, <3>1
  <2>2. CASE k # 1
    <3>1. k \in 2..Len(l) /\ k \in DOMAIN X
      BY <1>4, <1>5, <2>2
    <3>2. X[k] = l[k]
      BY <1>1, <3>1
    <3> QED
      BY <1>3, <1>12, <3>1, <3>2, Zenon DEF Correct
  <2> QED
    BY <2>1, <2>2
<1>13. ASSUME NEW k \in DOMAIN l, l[k] = <<Hash>> PROVE k = Len(l)
  <2>1. k # 1
    BY <1>10, <1>13
  <2>2. k \in 2..Len(l) /\ k \in DOMAIN X
    BY <1>4, <1>5, <2>1
  <2>3. X[k] = l[k]
    BY <1>1, <2>2
  <2>4. k = Len(X)
    BY <1>3, <1>13, <2>2, <2>3, Zenon DEF Correct
  <2> QED
    BY <1>1, <2>4
<1>14. Correct(l)
  BY <1>12, <1>13, Zenon DEF Correct
<1> QED
  BY <1>9, <1>10, <1>11, <1>14

-----------------------------------------------------------------------------
(* The walk.                                                                 *)

\* The loop for '+' ends on the last byte of the level.
LEMMA LevelEndIs ==
    ASSUME NEW n \in Bytes, NEW j \in 1..Len(n)
    PROVE  /\ LevelEnd(n, j) \in j..Len(n)
           /\ LevelEnd(n, j) = Len(n) \/ n[LevelEnd(n, j) + 1] = Slash
           /\ \A i \in (j + 1)..LevelEnd(n, j) : n[i] # Slash
<1> DEFINE S == {k \in Nat : k \in j..Len(n) /\ (k = Len(n) \/ n[k + 1] = Slash)}
           P(k) == (k = Len(n) \/ n[k + 1] = Slash) /\ \A i \in (j + 1)..k : n[i] # Slash
<1>1. Len(n) \in Nat
  BY DEF Bytes
<1>2. S \subseteq Nat /\ Len(n) \in S
  BY <1>1
<1>3. PICK k \in S : \A m \in S : ~ (m < k)
  <2> HIDE DEF S
  <2> QED
    BY <1>2, LeastMember
<1>4. ASSUME NEW i \in (j + 1)..k PROVE n[i] # Slash
  <2>1. i - 1 \in Nat /\ i - 1 \in j..Len(n) /\ i - 1 < k /\ (i - 1) + 1 = i
    BY <1>1, <1>3
  <2>2. i - 1 \notin S
    BY <1>3, <2>1
  <2> QED
    BY <2>1, <2>2
<1>5. k \in j..Len(n) /\ P(k)
  BY <1>3, <1>4
<1>6. LevelEnd(n, j) = CHOOSE x \in j..Len(n) : P(x)
  BY Zenon DEF LevelEnd
<1> HIDE DEF P
<1>7. LevelEnd(n, j) \in j..Len(n) /\ P(LevelEnd(n, j))
  BY <1>5, <1>6
<1> QED
  BY <1>7 DEF P

\* Where curn is after a byte it is not beyond the end.
LEMMA AdvancedIn ==
    ASSUME NEW f, NEW n \in Bytes, NEW i, NEW j \in 1..Len(n)
    PROVE  /\ Advanced(f, n, i, j) \in 1..(Len(n) + 1)
           /\ f[i] = Plus => Advanced(f, n, i, j) = LevelEnd(n, j) + 1
           /\ f[i] = Hash => Advanced(f, n, i, j) = Len(n) + 1
           /\ f[i] \notin {Plus, Hash} => Advanced(f, n, i, j) = j + 1
<1>1. Len(n) \in Nat
  BY DEF Bytes
<1>2. LevelEnd(n, j) \in j..Len(n)
  BY LevelEndIs
<1>3. LevelEnd(n, j) + 1 \in 1..(Len(n) + 1) /\ Len(n) + 1 \in 1..(Len(n) + 1)
      /\ j + 1 \in 1..(Len(n) + 1)
  BY <1>1, <1>2
<1>4. CASE f[i] = Plus
  <2>1. Advanced(f, n, i, j) = LevelEnd(n, j) + 1
    BY <1>4 DEF Advanced, Plus, Hash
  <2> QED
    BY <1>3, <1>4, <2>1 DEF Plus, Hash
<1>5. CASE f[i] = Hash
  <2>1. Advanced(f, n, i, j) = Len(n) + 1
    BY <1>5 DEF Advanced, Plus, Hash
  <2> QED
    BY <1>3, <1>5, <2>1 DEF Plus, Hash
<1>6. CASE f[i] \notin {Plus, Hash}
  <2>1. Advanced(f, n, i, j) = j + 1
    BY <1>6 DEF Advanced
  <2> QED
    BY <1>3, <1>6, <2>1
<1> QED
  BY <1>4, <1>5, <1>6

\* The table of the walks: m[i][j] is the one from f[i] and n[j] on.
Walks(m, f, n) ==
    /\ \A i \in 1..(Len(f) + 1), j \in 1..(Len(n) + 1) : m[i][j] \in BOOLEAN
    /\ \A j \in 1..(Len(n) + 1) : m[Len(f) + 1][j] <=> j = Len(n) + 1
    /\ \A i \in 1..Len(f) : ~ m[i][Len(n) + 1]
    /\ \A i \in 1..Len(f), j \in 1..Len(n) :
         m[i][j] <=> ~ Breaks(f, n, i, j) /\ m[i + 1][Advanced(f, n, i, j)]

\* isTopicMatched is the function its recursion describes.
LEMMA MatchedDef ==
    ASSUME NEW f \in Bytes, NEW n \in Bytes
    PROVE  \E m : Walks(m, f, n) /\ (isTopicMatched(f, n) <=> m[1][1])
<1> DEFINE p == Len(f)
           q == Len(n)
           Line == [1..(q + 1) -> BOOLEAN]
           Step(i, h) == [j \in 1..(q + 1) |->
                            IF i > p \/ j > q THEN i > p /\ j > q
                            ELSE ~Breaks(f, n, i, j) /\ h[Advanced(f, n, i, j)]]
           a == [j \in 1..(q + 1) |-> j > q]
           G == [x \in (1..p) \X Line |-> Step(x[1], x[2])]
           Eq(m) == m = [i \in 1..(p + 1) |-> Step(i, m[i + 1])]
<1>1. p \in Nat /\ q \in Nat
  BY DEF Bytes
<1>2. \A j \in 1..q : \A i : Advanced(f, n, i, j) \in 1..(q + 1)
  BY AdvancedIn
<1>3. isTopicMatched(f, n) = (CHOOSE m : Eq(m))[1][1]
  BY Zenon DEF isTopicMatched
<1> HIDE DEF p, q
<1>4. \A i, h : Step(i, h) \in Line
  OBVIOUS
<1>5. a \in Line /\ \A j \in 1..(q + 1) : a[j] = (j > q)
  <2>1. \A j : (j > q) \in BOOLEAN
    OBVIOUS
  <2> QED
    BY <2>1
<1>6. ASSUME NEW h PROVE Step(p + 1, h) = a
  BY <1>1
<1>7. G \in [(1..p) \X Line -> Line]
  <2> HIDE DEF Step, Line
  <2> QED
    BY <1>4
<1>8. \A i \in 1..p, h \in Line : G[<<i, h>>] = Step(i, h)
  <2> HIDE DEF Step, Line
  <2> QED
    OBVIOUS
<1>9. PICK g \in [1..(p + 1) -> Line] : IteratesBack(g, p, a, G)
  <2> HIDE DEF Line, a, G
  <2> QED
    BY <1>1, <1>5, <1>7, BackwardRecursion
<1>10. ASSUME NEW i \in 1..(p + 1) PROVE g[i] = Step(i, g[i + 1])
  <2>1. CASE i = p + 1
    <3> HIDE DEF Step, Line, a, G
    <3>1. g[i] = a
      BY <1>9, <2>1 DEF IteratesBack
    <3>2. Step(p + 1, g[i + 1]) = a
      BY <1>6
    <3> QED
      BY <2>1, <3>1, <3>2
  <2>2. CASE i # p + 1
    <3>1. i \in 1..p /\ i + 1 \in 1..(p + 1)
      BY <1>1, <2>2
    <3> HIDE DEF Step, Line, a, G
    <3>2. g[i] = G[<<i, g[i + 1]>>] /\ g[i + 1] \in Line
      BY <1>9, <3>1 DEF IteratesBack
    <3> QED
      BY <1>8, <3>1, <3>2
  <2> QED
    BY <2>1, <2>2
<1>11. Eq(g)
  <2> HIDE DEF Step
  <2>1. g = [i \in 1..(p + 1) |-> g[i]]
    OBVIOUS
  <2> QED
    BY <1>10, <2>1
<1> DEFINE m == CHOOSE m : Eq(m)
<1>12. Eq(m)
  <2> HIDE DEF Eq
  <2> QED
    BY <1>11
<1>13. isTopicMatched(f, n) = m[1][1]
  BY <1>3, Zenon
<1> HIDE DEF m
<1>14. \A i \in 1..(p + 1) : m[i] = Step(i, m[i + 1])
  <2> HIDE DEF Step
  <2> QED
    BY <1>12
<1>15. ASSUME NEW i \in 1..(p + 1), NEW j \in 1..(q + 1)
       PROVE  m[i][j] = IF i > p \/ j > q THEN i > p /\ j > q
                        ELSE ~Breaks(f, n, i, j) /\ m[i + 1][Advanced(f, n, i, j)]
  BY <1>14
<1>16. \A i \in 1..(p + 1), j \in 1..(q + 1) : m[i][j] \in BOOLEAN
  BY <1>15
<1>17. ASSUME NEW j \in 1..(q + 1) PROVE m[p + 1][j] <=> j = q + 1
  <2>1. p + 1 \in 1..(p + 1) /\ p + 1 > p /\ (j > q <=> j = q + 1)
    BY <1>1
  <2>2. m[p + 1][j] = (p + 1 > p /\ j > q)
    BY <1>15, <2>1
  <2> QED
    BY <2>1, <2>2
<1>18. ASSUME NEW i \in 1..p PROVE ~ m[i][q + 1]
  <2>1. i \in 1..(p + 1) /\ ~ (i > p) /\ q + 1 \in 1..(q + 1) /\ q + 1 > q
    BY <1>1
  <2>2. m[i][q + 1] = (i > p /\ q + 1 > q)
    BY <1>15, <2>1
  <2> QED
    BY <2>1, <2>2
<1>19. ASSUME NEW i \in 1..p, NEW j \in 1..q
       PROVE  m[i][j] <=> ~ Breaks(f, n, i, j) /\ m[i + 1][Advanced(f, n, i, j)]
  <2>1. i \in 1..(p + 1) /\ j \in 1..(q + 1) /\ ~ (i > p) /\ ~ (j > q)
    BY <1>1
  <2> QED
    BY <1>15, <2>1
<1>20. Walks(m, f, n)
  BY <1>16, <1>17, <1>18, <1>19, Zenon DEF Walks, p, q
<1> QED
  BY <1>13, <1>20

\* Up to the end of its level only the first level of what is left changes.
LEMMA LevelSkipped ==
    ASSUME NEW n \in Bytes, NEW N, SplitsFrom(N, n), NEW j \in 1..Len(n), n[j] # Slash
    PROVE  LET e == LevelEnd(n, j) + 1
           IN  /\ e \in 1..(Len(n) + 1) /\ N[e] \in SomeLevels
               /\ N[e][1] = << >> /\ N[j][1] # << >>
               /\ Len(N[e]) = Len(N[j])
               /\ \A k \in 2..Len(N[j]) : N[e][k] = N[j][k]
<1> DEFINE e == LevelEnd(n, j) + 1
<1>1. Len(n) \in Nat /\ \A i \in 1..Len(n) : n[i] \in Byte
  BY DEF Bytes
<1>2. LevelEnd(n, j) \in j..Len(n) /\ (LevelEnd(n, j) = Len(n) \/ n[LevelEnd(n, j) + 1] = Slash)
  BY LevelEndIs
<1>3. \A i \in (j + 1)..LevelEnd(n, j) : n[i] # Slash
  BY LevelEndIs
<1>4. e \in Nat /\ j < e /\ e <= Len(n) + 1 /\ (e = Len(n) + 1 \/ n[e] = Slash)
  BY <1>1, <1>2
<1>5. \A i \in j..(e - 1) : n[i] # Slash
  BY <1>1, <1>2, <1>3
<1> HIDE DEF e
<1>6. \A i \in 1..(Len(n) + 1) : N[i] \in SomeLevels
  BY DEF SplitsFrom
<1>7. N[e][1] = << >>
  <2>1. CASE e = Len(n) + 1
    <3>1. N[e] = <<<< >>>>
      BY <2>1 DEF SplitsFrom
    <3> QED
      BY <3>1
  <2>2. CASE e # Len(n) + 1
    <3>1. e \in 1..Len(n) /\ n[e] = Slash /\ e + 1 \in 1..(Len(n) + 1)
      BY <1>1, <1>4, <2>2
    <3>2. N[e] = NewLevel(N[e + 1])
      BY <3>1 DEF SplitsFrom
    <3> QED
      BY <1>6, <3>1, <3>2, NewLevelIs
  <2> QED
    BY <2>1, <2>2
<1>8. ASSUME NEW i \in j..(e - 1)
      PROVE  /\ i \in 1..Len(n) /\ i + 1 \in 1..(Len(n) + 1) /\ N[i] = PutFirst(n[i], N[i + 1])
             /\ N[i][1] = <<n[i]>> \o N[i + 1][1] /\ N[i + 1][1] \in Bytes
             /\ Len(N[i]) = Len(N[i + 1])
             /\ \A k \in 2..Len(N[i + 1]) : N[i][k] = N[i + 1][k]
  <2>1. i \in 1..Len(n) /\ i + 1 \in 1..(Len(n) + 1) /\ n[i] # Slash
    BY <1>1, <1>4, <1>5
  <2>2. N[i] = PutFirst(n[i], N[i + 1])
    BY <2>1 DEF SplitsFrom
  <2>3. n[i] \in Byte /\ N[i + 1] \in SomeLevels
    BY <1>1, <1>6, <2>1
  <2> DEFINE c == n[i]
             l == N[i + 1]
             x == PutFirst(c, l)
  <2>4. c \in Byte /\ l \in SomeLevels
    BY <2>3
  <2> HIDE DEF c, l
  <2>5. /\ Len(x) = Len(l) /\ l[1] \in Bytes /\ x[1] = <<c>> \o l[1]
        /\ \A k \in 2..Len(l) : x[k] = l[k]
    BY <2>4, PutFirstIs
  <2> HIDE DEF x
  <2>6. N[i] = x
    BY <2>2 DEF x, c, l
  <2> QED
    BY <2>1, <2>2, <2>5, <2>6, Zenon DEF c, l
<1>9. N[j][1] # << >>
  <2>1. j \in j..(e - 1)
    BY <1>4
  <2>2. N[j][1] = <<n[j]>> \o N[j + 1][1] /\ N[j + 1][1] \in Bytes /\ n[j] \in Byte
    BY <1>1, <1>8, <2>1
  <2>3. Len(N[j][1]) = Len(N[j + 1][1]) + 1 /\ Len(N[j + 1][1]) \in Nat
    BY <2>2, ByteFirst
  <2> QED
    BY <2>3
<1> DEFINE S == {d \in Nat : d <= e - j =>
                    /\ Len(N[j + d]) = Len(N[j])
                    /\ \A k \in 2..Len(N[j]) : N[j + d][k] = N[j][k]}
<1>10. 0 \in S
  OBVIOUS
<1>11. ASSUME NEW d \in Nat, d \in S PROVE d + 1 \in S
  <2> SUFFICES ASSUME d + 1 <= e - j
               PROVE  /\ Len(N[j + (d + 1)]) = Len(N[j])
                      /\ \A k \in 2..Len(N[j]) : N[j + (d + 1)][k] = N[j][k]
    OBVIOUS
  <2>1. j + d \in j..(e - 1) /\ j + (d + 1) = (j + d) + 1 /\ d <= e - j
    BY <1>4
  <2>2. Len(N[j + d]) = Len(N[j]) /\ \A k \in 2..Len(N[j]) : N[j + d][k] = N[j][k]
    BY <1>11, <2>1
  <2> DEFINE x == N[(j + d) + 1]
             y == N[j + d]
             z == N[j]
  <2>3. Len(y) = Len(x) /\ \A k \in 2..Len(x) : y[k] = x[k]
    BY <1>8, <2>1
  <2>4. Len(y) = Len(z) /\ \A k \in 2..Len(z) : y[k] = z[k]
    BY <2>2
  <2> HIDE DEF x, y, z
  <2>5. Len(x) = Len(z) /\ \A k \in 2..Len(z) : x[k] = z[k]
    BY <2>3, <2>4
  <2> QED
    BY <2>1, <2>5 DEF x, z
<1> HIDE DEF S
<1>12. \A d \in Nat : d \in S
  BY <1>10, <1>11, Induction
<1>13. e - j \in Nat /\ j + (e - j) = e /\ e - j <= e - j
  BY <1>4
<1>14. Len(N[e]) = Len(N[j]) /\ \A k \in 2..Len(N[j]) : N[e][k] = N[j][k]
  <2>1. e - j \in S
    BY <1>12, <1>13
  <2>2. /\ Len(N[j + (e - j)]) = Len(N[j])
        /\ \A k \in 2..Len(N[j]) : N[j + (e - j)][k] = N[j][k]
    BY <1>13, <2>1 DEF S
  <2> QED
    BY <1>13, <2>2
<1>15. e \in 1..(Len(n) + 1)
  BY <1>1, <1>4
<1> QED
  BY <1>6, <1>7, <1>9, <1>14, <1>15 DEF e

-----------------------------------------------------------------------------
(* A step of the walk, level by level.                                       *)

\* The first level of what begins with a separator, or with anything else.
LEMMA BeginsWith ==
    ASSUME NEW s \in Bytes, NEW L, SplitsFrom(L, s), NEW i \in 1..Len(s)
    PROVE  /\ s[i] \in Byte /\ i + 1 \in 1..(Len(s) + 1)
           /\ L[i] \in SomeLevels /\ L[i + 1] \in SomeLevels
           /\ s[i] = Slash => L[i] = NewLevel(L[i + 1]) /\ L[i][1] = << >>
                              /\ Len(L[i]) = Len(L[i + 1]) + 1 /\ Len(L[i]) > 1
           /\ s[i] # Slash => L[i] = PutFirst(s[i], L[i + 1]) /\ L[i][1] # << >>
<1>1. s[i] \in Byte /\ Len(s) \in Nat /\ i + 1 \in 1..(Len(s) + 1) /\ i \in 1..(Len(s) + 1)
  BY DEF Bytes
<1>2. L[i] \in SomeLevels /\ L[i + 1] \in SomeLevels
  BY <1>1 DEF SplitsFrom
<1>3. ASSUME s[i] = Slash
      PROVE  L[i] = NewLevel(L[i + 1]) /\ L[i][1] = << >>
             /\ Len(L[i]) = Len(L[i + 1]) + 1 /\ Len(L[i]) > 1
  <2>1. L[i] = NewLevel(L[i + 1])
    BY <1>3 DEF SplitsFrom
  <2> DEFINE l == L[i + 1]
  <2>2. l \in SomeLevels
    BY <1>2
  <2> HIDE DEF l
  <2>3. NewLevel(l)[1] = << >> /\ Len(NewLevel(l)) = Len(l) + 1 /\ Len(l) \in Nat /\ Len(l) >= 1
    BY <2>2, NewLevelIs, LevelsLen
  <2>4. Len(l) + 1 > 1
    BY <2>3
  <2> QED
    BY <2>1, <2>3, <2>4 DEF l
<1>4. ASSUME s[i] # Slash
      PROVE  L[i] = PutFirst(s[i], L[i + 1]) /\ L[i][1] # << >>
  <2>1. L[i] = PutFirst(s[i], L[i + 1])
    BY <1>4 DEF SplitsFrom
  <2> DEFINE l == L[i + 1]
             c == s[i]
  <2>2. l \in SomeLevels /\ c \in Byte
    BY <1>1, <1>2
  <2> HIDE DEF l, c
  <2>3. PutFirst(c, l)[1] = <<c>> \o l[1] /\ l[1] \in Bytes
    BY <2>2, PutFirstIs
  <2>4. Len(<<c>> \o l[1]) = Len(l[1]) + 1 /\ Len(l[1]) \in Nat
    BY <2>2, <2>3, ByteFirst
  <2>5. <<c>> \o l[1] # << >>
    BY <2>4
  <2> QED
    BY <2>1, <2>3, <2>5 DEF l, c
<1> QED
  BY <1>1, <1>2, <1>3, <1>4

\* Nothing stands for no byte at all but an empty level, and it for nothing else.
LEMMA StandsAtEnds ==
    ASSUME NEW F \in SomeLevels, NEW N \in SomeLevels
    PROVE  /\ F = <<<< >>>> /\ N = <<<< >>>> => StandsFor(F, N)
           /\ StandsFor(F, N) /\ F = <<<< >>>> => Len(N) = 1 /\ N[1] = << >>
           /\ StandsFor(F, N) /\ N = <<<< >>>> => Len(F) = 1 /\ F[1] = << >>
<1>1. << >> # <<Hash>> /\ << >> # <<Plus>>
  OBVIOUS
<1>2. ASSUME F = <<<< >>>>, N = <<<< >>>> PROVE StandsFor(F, N)
  <2>1. Len(F) = 1 /\ Len(N) = 1 /\ F[1] = << >> /\ N[1] = << >>
    BY <1>2
  <2>2. F[Len(F)] # <<Hash>>
    BY <1>1, <2>1
  <2>3. First(F[1], N[1])
    BY <1>1, <2>1 DEF First
  <2>4. \A k \in 1..1 : k = 1
    OBVIOUS
  <2> QED
    BY <2>1, <2>2, <2>3, <2>4, StandsFixed
<1>3. ASSUME StandsFor(F, N), F = <<<< >>>> PROVE Len(N) = 1 /\ N[1] = << >>
  <2>1. Len(F) = 1 /\ F[1] = << >>
    BY <1>3
  <2>2. F[1] # <<Hash>>
    BY <1>1, <2>1
  <2>3. First(F[1], N[1])
    BY <1>3, <2>2, StandsNeedsFirst
  <2>4. Len(N) = 1
    BY <1>3, <2>1, <2>2, StandsForOne
  <2> QED
    BY <1>1, <2>1, <2>3, <2>4 DEF First
<1>4. ASSUME StandsFor(F, N), N = <<<< >>>> PROVE Len(F) = 1 /\ F[1] = << >>
  <2>1. Len(N) = 1 /\ N[1] = << >>
    BY <1>4
  <2>2. CASE F[1] # <<Hash>>
    <3>1. First(F[1], N[1])
      BY <1>4, <2>2, StandsNeedsFirst
    <3>2. Len(F) = 1
      BY <1>4, <2>1, <2>2, StandsForOne
    <3> QED
      BY <2>1, <3>1, <3>2 DEF First
  <2>3. CASE F[1] = <<Hash>>
    <3>1. Len(F) \in Nat /\ Len(F) >= 1 /\ Len(N) \in Nat
      BY LevelsLen
    <3>2. CASE Len(F) = 1
      <4>1. N[1] # << >>
        BY <1>4, <2>3, <3>2, StandsForRest
      <4> QED
        BY <2>1, <4>1
    <3>3. CASE Len(F) # 1
      <4>1. F[Len(F)] = <<Hash>> => Len(N) > Len(F) - 1
        BY <1>4, StandsOpen
      <4>2. F[Len(F)] # <<Hash>> => Len(N) = Len(F)
        BY <1>4, StandsFixed
      <4>3. Len(N) = 1
        BY <2>1
      <4>4. ~ (Len(N) > Len(F) - 1) /\ Len(N) # Len(F)
        <5>1. \A x \in Nat, y \in Nat : x >= 1 /\ x # 1 /\ y = 1 => ~ (y > x - 1) /\ y # x
          OBVIOUS
        <5> QED
          BY <3>1, <3>3, <4>3, <5>1, Zenon
      <4> QED
        BY <4>1, <4>2, <4>4
    <3> QED
      BY <3>2, <3>3
  <2> QED
    BY <2>2, <2>3
<1> QED
  BY <1>2, <1>3, <1>4

\* Whether the walk goes as the levels say, from f[i] and any byte of n on.
Follows(F, N, row, i, q) == \A j \in 1..(q + 1) : row[j] <=> StandsFor(F[i], N[j])

\* Where the filter ends.
LEMMA FollowsAtEnd ==
    ASSUME NEW f \in Bytes, NEW n \in Bytes, NEW F, NEW N, SplitsFrom(F, f), SplitsFrom(N, n),
           NEW m, Walks(m, f, n)
    PROVE  Follows(F, N, m[Len(f) + 1], Len(f) + 1, Len(n))
<1> DEFINE p == Len(f)
           q == Len(n)
<1>1. p \in Nat /\ q \in Nat
  BY DEF Bytes
<1>2. F[p + 1] = <<<< >>>> /\ N[q + 1] = <<<< >>>>
  BY DEF SplitsFrom
<1>3. p + 1 \in 1..(p + 1) /\ q + 1 \in 1..(q + 1)
  BY <1>1
<1>4. F[p + 1] \in SomeLevels /\ \A j \in 1..(q + 1) : N[j] \in SomeLevels
  BY <1>3 DEF SplitsFrom
<1>5. \A j \in 1..(q + 1) : m[p + 1][j] <=> j = q + 1
  BY DEF Walks
<1> SUFFICES ASSUME NEW j \in 1..(q + 1) PROVE m[p + 1][j] <=> StandsFor(F[p + 1], N[j])
  BY DEF Follows
<1>6. CASE j = q + 1
  <2>1. StandsFor(F[p + 1], N[q + 1])
    BY <1>2, <1>3, <1>4, StandsAtEnds
  <2> QED
    BY <1>5, <1>6, <2>1
<1>7. CASE j # q + 1
  <2>1. j \in 1..q
    BY <1>1, <1>7
  <2>2. N[j][1] = << >> => Len(N[j]) > 1
    BY <2>1, BeginsWith
  <2>3. Len(N[j]) \in Nat
    BY <1>4, LevelsLen
  <2>4. ~ StandsFor(F[p + 1], N[j])
    <3> DEFINE X == F[p + 1]
               Y == N[j]
    <3>1. X \in SomeLevels /\ Y \in SomeLevels /\ X = <<<< >>>>
      BY <1>2, <1>4
    <3>2. ~ (Len(Y) = 1 /\ Y[1] = << >>)
      <4>1. \A a \in Nat : a > 1 => a # 1
        OBVIOUS
      <4> QED
        BY <2>2, <2>3, <4>1, Zenon
    <3> HIDE DEF X, Y
    <3>3. ~ StandsFor(X, Y)
      BY <3>1, <3>2, StandsAtEnds
    <3> QED
      BY <3>3 DEF X, Y
  <2> QED
    BY <1>5, <1>7, <2>4
<1> QED
  BY <1>6, <1>7

\* Where the topic ends.
LEMMA NothingLeft ==
    ASSUME NEW f \in Bytes, NEW n \in Bytes, NEW F, NEW N, SplitsFrom(F, f), SplitsFrom(N, n),
           NEW i \in 1..Len(f)
    PROVE  ~ StandsFor(F[i], N[Len(n) + 1])
<1>1. F[i] \in SomeLevels /\ (F[i][1] = << >> => Len(F[i]) > 1)
  BY BeginsWith
<1>2. Len(n) \in Nat
  BY DEF Bytes
<1>3. N[Len(n) + 1] = <<<< >>>>
  BY DEF SplitsFrom
<1>4. Len(n) + 1 \in 1..(Len(n) + 1)
  BY <1>2
<1>5. N[Len(n) + 1] \in SomeLevels
  BY <1>4 DEF SplitsFrom
<1> DEFINE X == F[i]
           Y == N[Len(n) + 1]
<1>6. X \in SomeLevels /\ Y \in SomeLevels /\ Y = <<<< >>>> /\ (X[1] = << >> => Len(X) > 1)
  BY <1>1, <1>3, <1>5
<1> HIDE DEF X, Y
<1>7. ~ (Len(X) = 1 /\ X[1] = << >>)
  <2>1. Len(X) \in Nat
    BY <1>6, LevelsLen
  <2>2. \A a \in Nat : a > 1 => a # 1
    OBVIOUS
  <2> QED
    BY <1>6, <2>1, <2>2, Zenon
<1>8. ~ StandsFor(X, Y)
  BY <1>6, <1>7, StandsAtEnds
<1> QED
  BY <1>8 DEF X, Y

\* The bytes do not go together, nor do the levels they begin.
LEMMA BreaksApart ==
    ASSUME NEW f \in Bytes, NEW n \in Bytes, NEW F, NEW N, SplitsFrom(F, f), SplitsFrom(N, n),
           NEW i \in 1..Len(f), NEW j \in 1..Len(n), Correct(F[i]), Breaks(f, n, i, j)
    PROVE  ~ StandsFor(F[i], N[j])
<1> DEFINE c == f[i]
           d == n[j]
           X == F[i]
           Y == N[j]
           l == F[i + 1]
           k == N[j + 1]
<1>1. /\ c \in Byte /\ X \in SomeLevels /\ l \in SomeLevels
      /\ c = Slash => X[1] = << >>
      /\ c # Slash => X = PutFirst(c, l) /\ X[1] # << >>
  BY BeginsWith
<1>2. /\ d \in Byte /\ Y \in SomeLevels /\ k \in SomeLevels
      /\ d = Slash => Y[1] = << >>
      /\ d # Slash => Y = PutFirst(d, k) /\ Y[1] # << >>
  BY BeginsWith
<1>3. (d = Slash /\ c # Slash) \/ c \notin {Plus, Hash, d}
  BY DEF Breaks
<1>4. Correct(X)
  OBVIOUS
<1> SUFFICES ASSUME StandsFor(X, Y) PROVE FALSE
  OBVIOUS
<1> HIDE DEF c, d, X, Y, l, k
<1>5. << >> # <<Hash>> /\ << >> # <<Plus>>
  OBVIOUS
<1>6. CASE c = Slash
  <2>1. X[1] = << >> /\ d # Slash
    BY <1>1, <1>3, <1>6
  <2>2. First(X[1], Y[1])
    BY <1>1, <1>2, <1>5, <2>1, StandsNeedsFirst
  <2> QED
    BY <1>2, <1>5, <2>1, <2>2 DEF First
<1>7. CASE c # Slash /\ d = Slash
  <2>1. X[1] # << >> /\ Y[1] = << >> /\ X = PutFirst(c, l)
    BY <1>1, <1>2, <1>7
  <2>2. CASE X[1] # <<Hash>>
    <3>1. First(X[1], Y[1])
      BY <1>1, <1>2, <2>2, StandsNeedsFirst
    <3> QED
      BY <2>1, <3>1 DEF First
  <2>3. CASE X[1] = <<Hash>>
    <3>1. 1 \in DOMAIN X
      BY <1>1, LevelsOf
    <3>2. Len(X) = 1
      BY <1>4, <2>3, <3>1, Zenon DEF Correct
    <3>3. Y[1] # << >>
      BY <1>1, <1>2, <2>3, <3>2, StandsForRest
    <3> QED
      BY <2>1, <3>3
  <2> QED
    BY <2>2, <2>3
<1>8. CASE c # Slash /\ d # Slash
  <2>1. c \notin {Plus, Hash} /\ c # d
    BY <1>3, <1>8
  <2>2. X[1] = <<c>> \o l[1] /\ l[1] \in Bytes
    <3>1. PutFirst(c, l)[1] = <<c>> \o l[1] /\ l[1] \in Bytes
      BY <1>1, PutFirstIs
    <3>2. X = PutFirst(c, l)
      BY <1>1, <1>8
    <3> QED
      BY <3>1, <3>2, Zenon
  <2>3. Y[1] = <<d>> \o k[1] /\ k[1] \in Bytes
    <3>1. PutFirst(d, k)[1] = <<d>> \o k[1] /\ k[1] \in Bytes
      BY <1>2, PutFirstIs
    <3>2. Y = PutFirst(d, k)
      BY <1>2, <1>8
    <3> QED
      BY <3>1, <3>2, Zenon
  <2>4. X[1][1] = c
    BY <1>1, <2>2, ByteFirst
  <2>5. Y[1][1] = d
    BY <1>2, <2>3, ByteFirst
  <2>6. <<Hash>>[1] = Hash /\ <<Plus>>[1] = Plus
    OBVIOUS
  <2>7. X[1] # <<Hash>> /\ X[1] # <<Plus>>
    BY <2>1, <2>4, <2>6
  <2>8. First(X[1], Y[1])
    BY <1>1, <1>2, <2>7, StandsNeedsFirst
  <2> QED
    BY <2>1, <2>4, <2>5, <2>7, <2>8 DEF First
<1> QED
  BY <1>6, <1>7, <1>8

\* They go together: the levels do, if those from where the walk goes on do.
LEMMA GoesOn ==
    ASSUME NEW f \in Bytes, NEW n \in Bytes, NEW F, NEW N, SplitsFrom(F, f), SplitsFrom(N, n),
           NEW i \in 1..Len(f), NEW j \in 1..Len(n), Correct(F[i]), ~ Breaks(f, n, i, j)
    PROVE  StandsFor(F[i], N[j]) <=> StandsFor(F[i + 1], N[Advanced(f, n, i, j)])
<1> DEFINE c == f[i]
           d == n[j]
           e == Advanced(f, n, i, j)
           X == F[i]
           Y == N[j]
           l == F[i + 1]
           k == N[e]
<1>1. /\ c \in Byte /\ X \in SomeLevels /\ l \in SomeLevels /\ i + 1 \in 1..(Len(f) + 1)
      /\ c = Slash => X = NewLevel(l)
      /\ c # Slash => X = PutFirst(c, l)
  BY BeginsWith
<1>2. /\ d \in Byte /\ Y \in SomeLevels /\ N[j + 1] \in SomeLevels
      /\ d = Slash => Y = NewLevel(N[j + 1])
      /\ d # Slash => Y = PutFirst(d, N[j + 1]) /\ Y[1] # << >>
  BY BeginsWith
<1>3. (d = Slash => c = Slash) /\ c \in {Plus, Hash, d}
  BY DEF Breaks
<1>4. /\ e \in 1..(Len(n) + 1)
      /\ c = Plus => e = LevelEnd(n, j) + 1
      /\ c = Hash => e = Len(n) + 1
      /\ c \notin {Plus, Hash} => e = j + 1
  BY AdvancedIn
<1>5. d # Slash => LET g == LevelEnd(n, j) + 1
                   IN  /\ N[g] \in SomeLevels /\ N[g][1] = << >> /\ Len(N[g]) = Len(Y)
                       /\ \A b \in 2..Len(Y) : N[g][b] = Y[b]
  BY LevelSkipped
<1>6. k \in SomeLevels
  BY <1>4 DEF SplitsFrom
<1>7. Correct(X)
  OBVIOUS
<1>8. N[Len(n) + 1] = <<<< >>>> /\ F[Len(f) + 1] = <<<< >>>>
  BY DEF SplitsFrom
<1>9. l[1] = << >> /\ Len(l) = 1 => i + 1 = Len(f) + 1
  <2> SUFFICES ASSUME l[1] = << >>, Len(l) = 1, i + 1 # Len(f) + 1 PROVE FALSE
    OBVIOUS
  <2>1. i + 1 \in 1..Len(f)
    <3>1. Len(f) \in Nat
      BY DEF Bytes
    <3> QED
      BY <3>1
  <2>2. l[1] = << >> => Len(l) > 1
    BY <2>1, BeginsWith
  <2> QED
    BY <2>2
<1> SUFFICES StandsFor(X, Y) <=> StandsFor(l, k)
  OBVIOUS
<1> HIDE DEF c, d, e, X, Y, l, k
<1>10. Plus # Slash /\ Hash # Slash /\ Plus # Hash /\ << >> # <<Hash>> /\ << >> # <<Plus>>
  BY DEF Plus, Slash, Hash
<1>11. CASE c = Slash
  <2>1. d = Slash /\ e = j + 1
    BY <1>3, <1>4, <1>10, <1>11
  <2>2. X = NewLevel(l) /\ Y = NewLevel(k)
    BY <1>1, <1>2, <1>11, <2>1 DEF k
  <2> QED
    BY <1>1, <1>6, <2>2, StandsBehindSlash
<1>12. CASE c # Slash
  <2>1. X = PutFirst(c, l) /\ d # Slash
    BY <1>1, <1>3, <1>12
  <2>2. /\ Len(X) = Len(l) /\ l[1] \in Bytes /\ X[1] = <<c>> \o l[1]
        /\ \A b \in 2..Len(X) : X[b] = l[b]
    <3>1. c \in Byte /\ l \in SomeLevels
      BY <1>1
    <3>2. /\ Len(PutFirst(c, l)) = Len(l) /\ l[1] \in Bytes
          /\ PutFirst(c, l)[1] = <<c>> \o l[1]
          /\ \A b \in 2..Len(l) : PutFirst(c, l)[b] = l[b]
      BY <3>1, PutFirstIs
    <3> QED
      BY <2>1, <3>2, Zenon
  <2>3. /\ c \in {Plus, Hash} => l[1] = << >>
        /\ c = Hash => Len(l) = 1
        /\ l[1] # <<Plus>> /\ l[1] # <<Hash>>
    BY <1>1, <1>7, <2>1, CorrectBehindByte
  <2>4. X[1][1] = c
    BY <1>1, <2>2, ByteFirst
  <2>5. Y[1] # << >>
    BY <1>2, <2>1
  <2>6. <<Hash>>[1] = Hash /\ <<Plus>>[1] = Plus
    OBVIOUS
  <2>7. CASE c = Plus
    <3>1. l[1] = << >> /\ X[1] = <<Plus>>
      <4>1. l[1] = << >>
        BY <2>3, <2>7
      <4>2. <<c>> \o << >> = <<Plus>>
        BY <2>7
      <4> QED
        BY <2>2, <4>1, <4>2
    <3>2. k[1] = << >> /\ Len(k) = Len(Y) /\ \A b \in 2..Len(Y) : Y[b] = k[b]
      BY <1>4, <1>5, <2>1, <2>7 DEF k
    <3>3. First(X[1], Y[1]) /\ First(l[1], k[1])
      BY <1>10, <2>5, <3>1, <3>2 DEF First
    <3>4. X[1] # <<Hash>>
      BY <1>10, <2>4, <2>6, <2>7
    <3> QED
      BY <1>1, <1>2, <1>6, <2>2, <2>3, <3>2, <3>3, <3>4, StandsSame
  <2>8. CASE c = Hash
    <3>1. l[1] = << >> /\ Len(l) = 1
      BY <2>3, <2>8
    <3>2. X[1] = <<Hash>> /\ Len(X) = 1
      <4>1. <<c>> \o << >> = <<Hash>>
        BY <2>8
      <4> QED
        BY <2>2, <3>1, <4>1
    <3>3. StandsFor(X, Y)
      BY <1>1, <1>2, <2>5, <3>2, StandsForRest
    <3>4. l = <<<< >>>> /\ k = <<<< >>>>
      BY <1>4, <1>8, <1>9, <2>8, <3>1 DEF l, k
    <3>5. StandsFor(l, k)
      BY <1>1, <1>6, <3>4, StandsAtEnds
    <3> QED
      BY <3>3, <3>5
  <2>9. CASE c \notin {Plus, Hash}
    <3>1. d = c /\ e = j + 1
      BY <1>3, <1>4, <2>9
    <3>2. Y = PutFirst(c, k)
      BY <1>2, <2>1, <3>1 DEF k
    <3>3. /\ Len(Y) = Len(k) /\ k[1] \in Bytes /\ Y[1] = <<c>> \o k[1]
          /\ \A b \in 2..Len(Y) : Y[b] = k[b]
      BY <1>1, <1>6, <3>2, PutFirstIs
    <3>4. X[1] # <<Hash>> /\ X[1] # <<Plus>>
      BY <2>4, <2>6, <2>9
    <3>5. X[1] = Y[1] <=> l[1] = k[1]
      <4> DEFINE s == l[1]
                 t == k[1]
      <4>1. s \in Bytes /\ t \in Bytes
        BY <2>2, <3>3
      <4> HIDE DEF s, t
      <4>2. <<c>> \o s = <<c>> \o t => s = t
        <5> SUFFICES ASSUME <<c>> \o s = <<c>> \o t PROVE s = t
          OBVIOUS
        <5>1. /\ Len(<<c>> \o s) = Len(s) + 1 /\ Len(<<c>> \o t) = Len(t) + 1
              /\ Len(s) \in Nat /\ Len(t) \in Nat
              /\ \A b \in 1..Len(s) : (<<c>> \o s)[b + 1] = s[b]
              /\ \A b \in 1..Len(t) : (<<c>> \o t)[b + 1] = t[b]
          BY <1>1, <4>1, ByteFirst
        <5>2. Len(s) = Len(t) /\ \A b \in 1..Len(s) : s[b] = t[b]
          BY <5>1
        <5>3. s \in Seq(Byte) /\ t \in Seq(Byte)
          BY <4>1 DEF Bytes
        <5>4. s = [b \in 1..Len(s) |-> s[b]] /\ t = [b \in 1..Len(t) |-> t[b]]
          BY <5>3
        <5> QED
          BY <5>2, <5>4
      <4> QED
        BY <2>2, <3>3, <4>2 DEF s, t
    <3>6. First(X[1], Y[1]) <=> First(l[1], k[1])
      BY <2>3, <3>4, <3>5 DEF First
    <3> QED
      BY <1>1, <1>2, <1>6, <2>2, <2>3, <3>3, <3>4, <3>6, StandsSame
  <2> QED
    BY <2>7, <2>8, <2>9
<1> QED
  BY <1>11, <1>12

\* What is behind a byte of a filter in the format is in the format.
LEMMA CorrectBehind ==
    ASSUME NEW f \in Bytes, NEW F, SplitsFrom(F, f), NEW i \in 1..Len(f), Correct(F[i])
    PROVE  Correct(F[i + 1])
<1>1. /\ f[i] \in Byte /\ F[i + 1] \in SomeLevels
      /\ f[i] = Slash => F[i] = NewLevel(F[i + 1])
      /\ f[i] # Slash => F[i] = PutFirst(f[i], F[i + 1])
  BY BeginsWith
<1>2. CASE f[i] = Slash
  <2>1. Correct(NewLevel(F[i + 1]))
    BY <1>1, <1>2
  <2> QED
    BY <1>1, <2>1, CorrectBehindSlash
<1>3. CASE f[i] # Slash
  <2>1. Correct(PutFirst(f[i], F[i + 1]))
    BY <1>1, <1>3
  <2> QED
    BY <1>1, <2>1, CorrectBehindByte
<1> QED
  BY <1>2, <1>3

\* The walk from any byte of the filter and of the topic.
LEMMA WalkFollows ==
    ASSUME NEW f \in Bytes, NEW n \in Bytes, NEW F, NEW N, SplitsFrom(F, f), SplitsFrom(N, n),
           NEW m, Walks(m, f, n)
    PROVE  \A i \in 1..(Len(f) + 1) : Correct(F[i]) => Follows(F, N, m[i], i, Len(n))
<1> DEFINE S == {i \in 1..(Len(f) + 1) : Correct(F[i]) => Follows(F, N, m[i], i, Len(n))}
<1>1. Len(f) \in Nat /\ Len(n) \in Nat
  BY DEF Bytes
<1>2. Len(f) + 1 \in S
  BY <1>1, FollowsAtEnd
<1>3. ASSUME NEW i \in 1..Len(f), i + 1 \in S PROVE i \in S
  <2>1. i \in 1..(Len(f) + 1) /\ i + 1 \in 1..(Len(f) + 1)
    BY <1>1
  <2> SUFFICES ASSUME Correct(F[i]) PROVE Follows(F, N, m[i], i, Len(n))
    BY <2>1
  <2>2. Follows(F, N, m[i + 1], i + 1, Len(n))
    BY <1>3, CorrectBehind
  <2> SUFFICES ASSUME NEW j \in 1..(Len(n) + 1) PROVE m[i][j] <=> StandsFor(F[i], N[j])
    BY DEF Follows
  <2>3. CASE j = Len(n) + 1
    <3>1. ~ m[i][Len(n) + 1]
      BY DEF Walks
    <3>2. ~ StandsFor(F[i], N[Len(n) + 1])
      BY NothingLeft
    <3> QED
      BY <2>3, <3>1, <3>2
  <2>4. CASE j # Len(n) + 1
    <3>1. j \in 1..Len(n)
      BY <1>1, <2>4
    <3>2. m[i][j] <=> ~ Breaks(f, n, i, j) /\ m[i + 1][Advanced(f, n, i, j)]
      BY <3>1 DEF Walks
    <3>3. CASE Breaks(f, n, i, j)
      <4>1. ~ StandsFor(F[i], N[j])
        BY <3>1, <3>3, BreaksApart
      <4> QED
        BY <3>2, <3>3, <4>1
    <3>4. CASE ~ Breaks(f, n, i, j)
      <4>1. Advanced(f, n, i, j) \in 1..(Len(n) + 1)
        BY <3>1, AdvancedIn
      <4>2. m[i + 1][Advanced(f, n, i, j)] <=> StandsFor(F[i + 1], N[Advanced(f, n, i, j)])
        BY <2>2, <4>1 DEF Follows
      <4>3. StandsFor(F[i], N[j]) <=> StandsFor(F[i + 1], N[Advanced(f, n, i, j)])
        BY <3>1, <3>4, GoesOn
      <4> QED
        BY <3>2, <3>4, <4>2, <4>3
    <3> QED
      BY <3>3, <3>4
  <2> QED
    BY <2>3, <2>4
<1> HIDE DEF S
<1>4. \A i \in 1..(Len(f) + 1) : i \in S
  BY <1>1, <1>2, <1>3, BackwardInduction
<1> QED
  BY <1>4 DEF S

\* The walk of isTopicMatched finds what the levels say, for a filter in the format.
LEMMA MatchedByLevels ==
    ASSUME NEW f \in Bytes, NEW n \in Bytes, WellFormed(f)
    PROVE  isTopicMatched(f, n) <=> ByLevels(f, n)
<1>1. PICK F : SplitsFrom(F, f) /\ Levels(f) = F[1]
  BY LevelsDef
<1>2. PICK N : SplitsFrom(N, n) /\ Levels(n) = N[1]
  BY LevelsDef
<1>3. PICK m : Walks(m, f, n) /\ (isTopicMatched(f, n) <=> m[1][1])
  BY MatchedDef
<1>4. Correct(F[1])
  BY <1>1, WellFormedIs
<1>5. 1 \in 1..(Len(f) + 1) /\ 1 \in 1..(Len(n) + 1)
  BY DEF Bytes
<1>6. Follows(F, N, m[1], 1, Len(n))
  BY <1>1, <1>2, <1>3, <1>4, <1>5, WalkFollows
<1>7. m[1][1] <=> StandsFor(F[1], N[1])
  BY <1>5, <1>6 DEF Follows
<1> QED
  BY <1>1, <1>2, <1>3, <1>7, ByLevelsIs

\* A filter in the format stands for itself.
LEMMA StandsForItself ==
    ASSUME NEW F \in SomeLevels, Correct(F)
    PROVE  StandsFor(F, F)
<1>1. Len(F) \in Nat /\ Len(F) >= 1
  BY LevelsLen
<1>2. << >> # <<Hash>> /\ << >> # <<Plus>>
  OBVIOUS
<1>3. \A k : First(F[k], F[k])
  BY <1>2 DEF First
<1>4. CASE F[Len(F)] = <<Hash>>
  <2>1. Len(F) > Len(F) - 1 /\ F[Len(F)] # << >>
    BY <1>1, <1>2, <1>4
  <2> QED
    BY <1>3, <1>4, <2>1, StandsOpen
<1>5. CASE F[Len(F)] # <<Hash>>
  BY <1>3, <1>5, StandsFixed
<1> QED
  BY <1>4, <1>5

\* A handler is called for the messages whose topic is, level by level, what its filter
\* stands for.
LEMMA MatchesByLevels ==
    ASSUME NEW f \in Bytes, NEW n \in Bytes, WellFormed(f)
    PROVE  Matches(f, n) <=> ByLevels(f, n)
<1>1. isTopicMatched(f, n) <=> ByLevels(f, n)
  BY MatchedByLevels
<1>2. ByLevels(f, f)
  <2>1. PICK F : SplitsFrom(F, f) /\ Levels(f) = F[1]
    BY LevelsDef
  <2>2. 1 \in 1..(Len(f) + 1)
    BY DEF Bytes
  <2>3. F[1] \in SomeLevels
    BY <2>1, <2>2 DEF SplitsFrom
  <2>4. Correct(F[1])
    BY <2>1, WellFormedIs
  <2> QED
    BY <2>1, <2>3, <2>4, StandsForItself, ByLevelsIs
<1> QED
  BY <1>1, <1>2 DEF Matches

-----------------------------------------------------------------------------
(* Behaviours: the packet stays, its length is the one that is written, it   *)
(* has passed the test when its length has been written, and what is read    *)
(* behind the length is the packet.                                          *)
Passing ==
    /\ packet \in Packets
    /\ rem_len = Length(packet)
    /\ buflen \in Int
    /\ phase # "encode" => Fits
    /\ phase = "done" /\ read # NotRead => read = Outcome(packet)

PacketInv == IInv /\ Passing

\* Nothing is written, and the length is that of the packet.
LEMMA PacketInitInv == PacketInit => PacketInv
<1> SUFFICES ASSUME PacketInit PROVE PacketInv
  OBVIOUS
<1>1. IInv
  BY InitInv DEF PacketInit
<1>2. packet \in Packets /\ rem_len = Length(packet) /\ read = NotRead /\ phase = "encode"
  BY DEF PacketInit, Init
<1>3. buflen \in Int
  <2>1. Length(packet) \in Nat
    BY <1>2, AllArrive DEF Announces
  <2>2. PICK d \in Margins : buflen = 2 + Length(packet) + d
    BY DEF PacketInit
  <2>3. d \in Int
    BY MarginsAssumption
  <2> QED
    BY <2>1, <2>2, <2>3
<1> QED
  BY <1>1, <1>2, <1>3 DEF PacketInv, Passing

\* With the length decoded, the deserializer has the end of the body, and a buffer
\* that holds it, whatever is behind.
LEMMA Delivered ==
    ASSUME IInv, packet \in Packets, rem_len = Length(packet), phase = "done"
    PROVE  Deserialize(HeaderByte(packet), Body(packet) \o Stale, value + 1) = Outcome(packet)
<1>1. value = rem_len
  BY DEF IInv, Encoded, Decoding
<1>2. Announces(packet) /\ Arrives(packet)
  BY AllArrive
<1>3. Body(packet) \in Bytes /\ Stale \in Bytes
  BY <1>2, StaleAssumption DEF Announces, Bytes
<1>4. Body(packet) \o Stale \in Bytes /\ Holds(Body(packet) \o Stale, 1, Body(packet))
  BY <1>3, Joined, HoldsItself
<1>5. Deserialize(HeaderByte(packet), Body(packet) \o Stale, Length(packet) + 1) = Outcome(packet)
  BY <1>2, <1>4, Zenon DEF Arrives
<1> QED
  BY <1>1, <1>5, Zenon

\* Every step keeps the packet and its length, and a read is that of the packet.
LEMMA PacketStep == PacketInv /\ [PacketNext]_allVars => PacketInv'
<1> SUFFICES ASSUME PacketInv, [PacketNext]_allVars PROVE PacketInv'
  OBVIOUS
<1>1. IInv /\ Passing /\ phase \in {"encode", "decode", "done"}
  BY DEF PacketInv, IInv, Types
<1>2. CASE Refuse
  <2>1. IInv'
    BY <1>1, <1>2, IInvStays DEF Refuse
  <2>2. Passing'
    BY <1>1, <1>2 DEF Refuse, Passing, vars, Fits
  <2> QED
    BY <2>1, <2>2 DEF PacketInv
<1>3. CASE WriteLength
  <2>1. IInv'
    BY <1>1, <1>3, EncodeStep DEF WriteLength
  <2>2. /\ Fits /\ packet' = packet /\ buflen' = buflen /\ read' = read /\ rem_len' = rem_len
        /\ phase' # "done"
    BY <1>3 DEF WriteLength, Encode, ownVars
  <2>3. Passing'
    BY <1>1, <2>2 DEF Passing, Fits
  <2> QED
    BY <2>1, <2>3 DEF PacketInv
<1>4. CASE ReadLength
  <2>1. IInv'
    BY <1>1, <1>4, DecodeStep DEF ReadLength
  <2>2. /\ read = NotRead /\ read' = read /\ packet' = packet /\ buflen' = buflen
        /\ rem_len' = rem_len /\ phase = "decode"
    BY <1>4 DEF ReadLength, Decode, ownVars
  <2>3. Passing'
    BY <1>1, <2>2 DEF Passing, Fits
  <2> QED
    BY <2>1, <2>3 DEF PacketInv
<1>5. CASE ReadWhole
  <2>1. IInv'
    BY <1>1, <1>5, IInvStays DEF ReadWhole
  <2>2. /\ phase = "done" /\ packet' = packet /\ buflen' = buflen /\ rem_len' = rem_len
        /\ phase' = phase
        /\ read' = Deserialize(HeaderByte(packet), Body(packet) \o Stale, value + 1)
    BY <1>5 DEF ReadWhole, vars
  <2>3. read' = Outcome(packet)
    BY <1>1, <2>2, Delivered, Zenon DEF Passing
  <2>4. Passing'
    BY <1>1, <2>2, <2>3 DEF Passing, Fits
  <2> QED
    BY <2>1, <2>4 DEF PacketInv
<1>6. CASE ReadCut
  <2>1. IInv'
    BY <1>1, <1>6, IInvStays DEF ReadCut
  <2>2. Passing'
    BY <1>1, <1>6 DEF ReadCut, Passing, vars, Fits
  <2> QED
    BY <2>1, <2>2 DEF PacketInv
<1>7. CASE UNCHANGED allVars
  <2>1. IInv'
    BY <1>1, <1>7, IInvStays DEF allVars
  <2>2. Passing'
    BY <1>1, <1>7 DEF allVars, vars, ownVars, Passing, Fits
  <2> QED
    BY <2>1, <2>2 DEF PacketInv
<1> QED
  BY <1>2, <1>3, <1>4, <1>5, <1>6, <1>7 DEF PacketNext

\* The invariant holds in every reachable state.
LEMMA PacketInvariance == PacketSpec => []PacketInv
<1>1. PacketInit => PacketInv
  BY PacketInitInv
<1>2. PacketInv /\ [PacketNext]_allVars => PacketInv'
  BY PacketStep
<1> QED
  BY <1>1, <1>2, PTL DEF PacketSpec

-----------------------------------------------------------------------------

\* For every packet the callers of the library pass, every size of the buffer it is
\* written to, and whatever an earlier packet left behind in the buffer it is read from:
\* the deserializer of the other side returns the packet that was written, but for the
\* CONNECT whose credentials are not supplied and the SUBACK with more codes than one
\* beyond the room of its reader, which are refused.
THEOREM ReadAsWritten == PacketSpec => []WrittenIsRead
<1>1. PacketInv => WrittenIsRead
  <2> SUFFICES ASSUME PacketInv PROVE WrittenIsRead
    OBVIOUS
  <2>1. phase # "bad"
    BY DEF PacketInv, IInv, Types
  <2>2. phase = "done" /\ read # NotRead => read = Outcome(packet)
    BY DEF PacketInv, Passing
  <2> QED
    BY <2>1, <2>2, Zenon DEF WrittenIsRead
<1> QED
  BY <1>1, PacketInvariance, PTL

\* Whatever lengths of packet and buffer meet: what the client writes, header, length and
\* body, stays in its buffer.
THEOREM NothingBehindTheBuffer == PacketSpec => []StaysInBuffer
<1>1. PacketInv => StaysInBuffer
  <2> SUFFICES ASSUME PacketInv, phase = "decode",
                      packet.type \notin {CONNACK, SUBACK, UNSUBACK},
                      packet.type = PUBLISH => buflen >= MQTTPacket_len(rem_len)
               PROVE  Written(packet) <= buflen
    BY DEF StaysInBuffer
  <2>1. packet \in Packets /\ rem_len = Length(packet) /\ buflen \in Int /\ Fits
    BY DEF PacketInv, Passing
  <2>2. MQTTPacket_len(rem_len) <= buflen
    BY <2>1, TestedAgainst DEF Fits
  <2>3. PacketFits
    BY PacketLengthSuffices DEF PacketInv
  <2> DEFINE l == Len(Body(packet))  m == MQTTPacket_len(rem_len)
  <2>4. rem_len \in Nat /\ l \in Nat /\ l <= rem_len
    BY <2>1, AllArrive DEF Announces, Bytes
  <2>5. Len(buf) \in Nat
    BY DEF PacketInv, IInv, Types
  <2>6. m \in Nat
    BY <2>4 DEF MQTTPacket_len, FieldLength
  <2>7. m - (1 + Len(buf) + rem_len) \in {0, 1}
    BY <2>3 DEF PacketFits
  <2>8. m <= buflen
    BY <2>2
  <2> HIDE DEF l, m
  <2>9. 1 + Len(buf) + l <= buflen
    BY <2>1, <2>4, <2>5, <2>6, <2>7, <2>8
  <2> QED
    BY <2>9 DEF Written, l
<1> QED
  BY <1>1, PacketInvariance, PTL

\* Whatever the topic, and for every filter in the format the comment of isTopicMatched
\* assumes: a message that was written and read goes to the handler of the filter just
\* when the levels of the filter stand for those of the topic that was written.
THEOREM MessagesByLevels == PacketSpec => []DeliveredByLevels
<1>1. PacketInv => DeliveredByLevels
  <2> SUFFICES ASSUME PacketInv, phase = "done", read.rc = 1, packet.type = PUBLISH,
                      NEW f \in TopicFilters
               PROVE  Matches(f, read.as.topic) <=> ByLevels(f, packet.topic)
    BY Zenon DEF DeliveredByLevels
  <2>1. packet \in Packets /\ (read # NotRead => read = Outcome(packet))
    BY DEF PacketInv, Passing
  <2>2. packet \in PublishPackets
    BY <2>1, PacketsAssumption
       DEF ConnectPackets, SubscribePackets, OtherPackets, Acks, NoBody, CONNECT, CONNACK, PUBLISH,
           PUBACK, PUBREC, PUBREL, PUBCOMP, SUBSCRIBE, SUBACK, UNSUBSCRIBE, UNSUBACK, PINGREQ,
           PINGRESP, DISCONNECT
  <2>3. packet.topic \in Bytes
    BY <2>2 DEF PublishPackets, MQTTString, Bytes
  <2>4. f \in Bytes /\ WellFormed(f)
    BY TopicFiltersAssumption DEF Bytes
  <2>5. read.as.topic = packet.topic
    <3>1. NotRead.rc # 1
      BY DEF NotRead
    <3>2. Outcome(packet) = Read(packet)
      BY OtherSupplied DEF PUBLISH, CONNECT, SUBACK
    <3>3. read = Read(packet)
      BY <2>1, <3>1, <3>2
    <3> QED
      BY <3>3 DEF Read
  <2> QED
    BY <2>3, <2>4, <2>5, MatchesByLevels
<1> QED
  BY <1>1, PacketInvariance, PTL

===============================================================================
