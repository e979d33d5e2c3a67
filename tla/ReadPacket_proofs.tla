------------------------- MODULE ReadPacket_proofs -------------------------
(* What readPacket keeps for packets of any number and length, and however    *)
(* their bytes arrive: as long as no timeout comes inside a packet, its       *)
(* locals and the bytes that come belong together (Tracked). From that        *)
(* follow that it begins to read at headers, that it cuts packets off in one  *)
(* place only, and that it implements PacketStream.                           *)
EXTENDS ReadPacket, SequenceTheorems, WellFoundedInduction, TLAPS

-----------------------------------------------------------------------------
(* Induction, over a set of numbers.                                         *)

LEMMA LeastMember ==
    ASSUME NEW S, S \subseteq Nat, S # {}
    PROVE  \E n \in S : \A m \in S : ~ (m < n)
<1>1. PICK n \in S : \A m \in S : ~ (<<m, n>> \in OpToRel(<, Nat))
  BY NatLessThanWellFounded, WFMin
<1> QED
  BY <1>1 DEF OpToRel

LEMMA Induction ==
    ASSUME NEW S, 0 \in S, \A n \in Nat : n \in S => n + 1 \in S
    PROVE  \A n \in Nat : n \in S
<1> SUFFICES ASSUME Nat \ S # {} PROVE FALSE
  OBVIOUS
<1>1. PICK n \in Nat \ S : \A m \in Nat \ S : ~ (m < n)
  BY LeastMember
<1>2. n # 0 /\ n - 1 \in Nat /\ n - 1 < n
  BY <1>1
<1>3. n - 1 \in S
  BY <1>1, <1>2
<1>4. (n - 1) + 1 \in S
  BY <1>2, <1>3
<1> QED
  BY <1>1, <1>4

LEMMA StrongInduction ==
    ASSUME NEW S, \A n \in Nat : (\A m \in Nat : m < n => m \in S) => n \in S
    PROVE  \A n \in Nat : n \in S
<1> SUFFICES ASSUME Nat \ S # {} PROVE FALSE
  OBVIOUS
<1>1. PICK n \in Nat \ S : \A m \in Nat \ S : ~ (m < n)
  BY LeastMember
<1> QED
  BY <1>1

-----------------------------------------------------------------------------
(* The bytes of a length.                                                    *)

Byte ==
    [kind : {"header", "body"}, of : Nat]
      \cup [kind : {"length"}, of : Nat, digit : Nat, more : BOOLEAN]

LengthBytesOf(k) == [kind : {"length"}, of : {k}, digit : Nat, more : BOOLEAN]

\* The function LengthBytes is made from: the bytes of every number up to size.
Encoding(k, size) ==
    CHOOSE Encode : Encode =
      [n \in 0 .. size |->
         IF n < Base THEN <<LengthByte(k, n, FALSE)>>
                     ELSE <<LengthByte(k, n % Base, TRUE)>> \o Encode[n \div Base]]

LEMMA Division ==
    ASSUME NEW n \in Nat, n >= Base
    PROVE  /\ n \div Base \in Nat /\ n % Base \in Nat
           /\ n = (n \div Base) * Base + (n % Base)
           /\ n \div Base < n /\ n \div Base >= 1
  BY BaseAssumption, SMT

LEMMA EncodingExists ==
    ASSUME NEW k, NEW size \in Nat
    PROVE  \E Encode : Encode =
             [n \in 0 .. size |->
                IF n < Base THEN <<LengthByte(k, n, FALSE)>>
                            ELSE <<LengthByte(k, n % Base, TRUE)>> \o Encode[n \div Base]]
<1> DEFINE Last(n) == <<LengthByte(k, n, FALSE)>>
           More(n, rest) == <<LengthByte(k, n % Base, TRUE)>> \o rest
           Is(f, N) == f = [n \in 0 .. N |-> IF n < Base THEN Last(n) ELSE More(n, f[n \div Base])]
           S == {N \in Nat : \E f : Is(f, N)}
<1> HIDE DEF Last, More
<1>1. 0 \in S
  <2>1. Is([n \in 0 .. 0 |-> Last(n)], 0)
    BY BaseAssumption
  <2> QED
    BY <2>1
<1>2. \A N \in Nat : N \in S => N + 1 \in S
  <2> SUFFICES ASSUME NEW N \in Nat, NEW f, Is(f, N) PROVE \E g : Is(g, N + 1)
    OBVIOUS
  <2> DEFINE g == [n \in 0 .. N + 1 |->
                     IF n <= N THEN f[n] ELSE IF n < Base THEN Last(n) ELSE More(n, f[n \div Base])]
  <2>1. \A n \in 0 .. N + 1 : n >= Base => n \div Base \in 0 .. N
    BY Division
  <2>2. \A n \in 0 .. N : g[n] = f[n]
    <3> HIDE DEF Is
    <3>1. \A n \in 0 .. N : n \in 0 .. N + 1 /\ n <= N
      OBVIOUS
    <3> QED
      BY <3>1
  <2>3. ASSUME NEW n \in 0 .. N + 1
        PROVE  g[n] = IF n < Base THEN Last(n) ELSE More(n, g[n \div Base])
    <3>1. CASE n <= N
      <4>1. n \in 0 .. N
        BY <3>1
      <4>2. f[n] = IF n < Base THEN Last(n) ELSE More(n, f[n \div Base])
        BY <4>1
      <4> HIDE DEF g
      <4> QED
        BY <2>1, <2>2, <4>1, <4>2, BaseAssumption
    <3>2. CASE n = N + 1
      <4>1. g[n] = IF n < Base THEN Last(n) ELSE More(n, f[n \div Base])
        BY <3>2
      <4> HIDE DEF g
      <4> QED
        BY <2>1, <2>2, <4>1, BaseAssumption
    <3> HIDE DEF g, Is
    <3> QED
      BY <3>1, <3>2
  <2>4. Is(g, N + 1)
    BY <2>3
  <2> QED
    BY <2>4
<1> HIDE DEF S
<1>3. size \in S
  BY <1>1, <1>2, Induction
<1> QED
  BY <1>3 DEF S, Last, More

LEMMA EncodingDef ==
    ASSUME NEW k, NEW size \in Nat
    PROVE  /\ LengthBytes(k, size) = Encoding(k, size)[size]
           /\ \A n \in 0 .. size :
                /\ n < Base => Encoding(k, size)[n] = <<LengthByte(k, n, FALSE)>>
                /\ n >= Base =>
                     Encoding(k, size)[n] =
                       <<LengthByte(k, n % Base, TRUE)>> \o Encoding(k, size)[n \div Base]
<1>1. LengthBytes(k, size) = Encoding(k, size)[size]
  BY DEF LengthBytes, Encoding
<1>2. Encoding(k, size) =
             [n \in 0 .. size |->
                IF n < Base THEN <<LengthByte(k, n, FALSE)>>
                            ELSE <<LengthByte(k, n % Base, TRUE)>> \o Encoding(k, size)[n \div Base]]
  BY EncodingExists DEF Encoding
<1> HIDE DEF Encoding
<1>3. \A n \in 0 .. size :
        Encoding(k, size)[n] =
          IF n < Base THEN <<LengthByte(k, n, FALSE)>>
                      ELSE <<LengthByte(k, n % Base, TRUE)>> \o Encoding(k, size)[n \div Base]
  BY <1>2
<1>4. \A n \in Nat : n >= Base => ~ (n < Base)
  BY BaseAssumption
<1>5. \A n \in 0 .. size : n \in Nat
  OBVIOUS
<1> QED
  BY <1>1, <1>3, <1>4, <1>5

LEMMA EncodingType ==
    ASSUME NEW k, NEW size \in Nat
    PROVE  \A n \in 0 .. size : Encoding(k, size)[n] \in Seq(LengthBytesOf(k))
<1> DEFINE E == Encoding(k, size)
           S == {n \in Nat : n <= size => E[n] \in Seq(LengthBytesOf(k))}
<1>1. \A n \in 0 .. size : n < Base => E[n] = <<LengthByte(k, n, FALSE)>>
  BY EncodingDef
<1>2. \A n \in 0 .. size : n >= Base => E[n] = <<LengthByte(k, n % Base, TRUE)>> \o E[n \div Base]
  BY EncodingDef
<1> HIDE DEF E
<1>3. \A n \in Nat, more \in BOOLEAN : <<LengthByte(k, n, more)>> \in Seq(LengthBytesOf(k))
  BY DEF LengthByte, LengthBytesOf
<1>4. ASSUME NEW n \in Nat, \A m \in Nat : m < n => m \in S, n <= size
      PROVE  E[n] \in Seq(LengthBytesOf(k))
  <2>0. n \in 0 .. size
    BY <1>4
  <2>1. CASE n < Base
    <3>1. E[n] = <<LengthByte(k, n, FALSE)>>
      BY <1>1, <2>0, <2>1
    <3> QED
      BY <1>3, <3>1
  <2>2. CASE n >= Base
    <3>1. n \div Base \in Nat /\ n \div Base < n /\ n % Base \in Nat
      BY <2>2, Division
    <3>2. E[n \div Base] \in Seq(LengthBytesOf(k))
      BY <1>4, <3>1
    <3>3. <<LengthByte(k, n % Base, TRUE)>> \in Seq(LengthBytesOf(k))
      BY <1>3, <3>1
    <3>4. E[n] = <<LengthByte(k, n % Base, TRUE)>> \o E[n \div Base]
      BY <1>2, <2>0, <2>2
    <3> QED
      BY <3>2, <3>3, <3>4, ConcatProperties
  <2> QED
    BY <2>1, <2>2, BaseAssumption
<1>5. \A n \in Nat : (\A m \in Nat : m < n => m \in S) => n \in S
  BY <1>4
<1> HIDE DEF S
<1>6. \A n \in Nat : n \in S
  BY <1>5, StrongInduction
<1> QED
  BY <1>6 DEF S, E

-----------------------------------------------------------------------------
(* The bytes of the packets.                                                 *)

Bodies(k, n) == [i \in 1 .. n |-> BodyByte(k)]

\* The function AllBytes is made from: the bytes of the packets from k on.
BytesFrom(sizes) ==
    CHOOSE From : From =
      [k \in 1 .. Len(sizes) + 1 |->
         IF k > Len(sizes) THEN << >> ELSE PacketBytes(k, sizes[k]) \o From[k + 1]]

LEMMA FromExists ==
    ASSUME NEW sizes, Len(sizes) \in Nat
    PROVE  \E From : From =
             [k \in 1 .. Len(sizes) + 1 |->
                IF k > Len(sizes) THEN << >> ELSE PacketBytes(k, sizes[k]) \o From[k + 1]]
<1> DEFINE n == Len(sizes)
           Next1(k, rest) == PacketBytes(k, sizes[k]) \o rest
           Is(f, N) == f = [k \in n + 1 - N .. n + 1 |-> IF k > n THEN << >> ELSE Next1(k, f[k + 1])]
           S == {N \in Nat : \E f : Is(f, N)}
<1>0. n \in Nat
  OBVIOUS
<1> HIDE DEF n, Next1
<1>1. 0 \in S
  <2>1. Is([k \in n + 1 - 0 .. n + 1 |-> << >>], 0)
    BY <1>0
  <2> QED
    BY <2>1
<1>2. \A N \in Nat : N \in S => N + 1 \in S
  <2> SUFFICES ASSUME NEW N \in Nat, NEW f, Is(f, N) PROVE \E g : Is(g, N + 1)
    OBVIOUS
  <2> DEFINE D == n + 1 - (N + 1) .. n + 1
             g == [k \in D |-> IF k >= n + 1 - N THEN f[k] ELSE Next1(k, f[k + 1])]
  <2>1. \A k \in n + 1 - N .. n + 1 : k \in D /\ k >= n + 1 - N
    BY <1>0
  <2>2. \A k \in n + 1 - N .. n + 1 : g[k] = f[k]
    BY <2>1
  <2>3. \A k \in n + 1 - N .. n + 1 : f[k] = IF k > n THEN << >> ELSE Next1(k, f[k + 1])
    OBVIOUS
  <2>4. ASSUME NEW k \in D
        PROVE  g[k] = IF k > n THEN << >> ELSE Next1(k, g[k + 1])
    <3>1. CASE k >= n + 1 - N
      <4>1. k \in n + 1 - N .. n + 1
        BY <1>0, <3>1
      <4>2. k > n \/ k + 1 \in n + 1 - N .. n + 1
        BY <1>0, <4>1
      <4> HIDE DEF g, D, Is
      <4> QED
        BY <2>2, <2>3, <4>1, <4>2
    <3>2. CASE k = n - N
      <4>1. g[k] = Next1(k, f[k + 1])
        BY <1>0, <3>2
      <4>2. ~(k > n) /\ k + 1 \in n + 1 - N .. n + 1
        BY <1>0, <3>2
      <4> HIDE DEF g, D, Is
      <4> QED
        BY <2>2, <4>1, <4>2
    <3> HIDE DEF g, Is
    <3> QED
      BY <1>0, <3>1, <3>2
  <2>5. Is(g, N + 1)
    BY <2>4
  <2> QED
    BY <2>5
<1> HIDE DEF S
<1>3. n \in S
  BY <1>0, <1>1, <1>2, Induction
<1>4. n + 1 - n = 1
  BY <1>0
<1> QED
  BY <1>3, <1>4 DEF S, Next1, n

LEMMA FromDef ==
    ASSUME NEW sizes, Len(sizes) \in Nat
    PROVE  /\ AllBytes(sizes) = BytesFrom(sizes)[1]
           /\ BytesFrom(sizes)[Len(sizes) + 1] = << >>
           /\ \A k \in 1 .. Len(sizes) :
                BytesFrom(sizes)[k] = PacketBytes(k, sizes[k]) \o BytesFrom(sizes)[k + 1]
<1>1. AllBytes(sizes) = BytesFrom(sizes)[1]
  BY DEF AllBytes, BytesFrom
<1>2. BytesFrom(sizes) =
      [k \in 1 .. Len(sizes) + 1 |->
         IF k > Len(sizes) THEN << >> ELSE PacketBytes(k, sizes[k]) \o BytesFrom(sizes)[k + 1]]
  BY FromExists DEF BytesFrom
<1> HIDE DEF BytesFrom
<1>3. \A k \in 1 .. Len(sizes) + 1 :
        BytesFrom(sizes)[k] =
          IF k > Len(sizes) THEN << >> ELSE PacketBytes(k, sizes[k]) \o BytesFrom(sizes)[k + 1]
  BY <1>2
<1>4. Len(sizes) + 1 \in 1 .. Len(sizes) + 1 /\ Len(sizes) + 1 > Len(sizes)
  OBVIOUS
<1>5. \A k \in 1 .. Len(sizes) : k \in 1 .. Len(sizes) + 1 /\ ~ (k > Len(sizes))
  OBVIOUS
<1> QED
  BY <1>1, <1>3, <1>4, <1>5

LEMMA ByteTypes ==
    ASSUME NEW k \in Nat, NEW n \in Nat
    PROVE  /\ HeaderByte(k) \in Byte /\ BodyByte(k) \in Byte
           /\ LengthBytesOf(k) \subseteq Byte
           /\ <<HeaderByte(k)>> \in Seq(Byte)
           /\ Bodies(k, n) \in Seq(Byte)
           /\ Len(Bodies(k, n)) = n
           /\ \A i \in 1 .. n : Bodies(k, n)[i] = BodyByte(k)
<1>1. HeaderByte(k) \in Byte /\ BodyByte(k) \in Byte /\ LengthBytesOf(k) \subseteq Byte
  BY DEF HeaderByte, BodyByte, LengthBytesOf, Byte
<1> HIDE DEF Byte
<1>2. <<HeaderByte(k)>> \in Seq(Byte)
  BY <1>1
<1> QED
  BY <1>1, <1>2 DEF Bodies

LEMMA EncodingBytes ==
    ASSUME NEW k \in Nat, NEW size \in Nat, NEW n \in 0 .. size
    PROVE  Encoding(k, size)[n] \in Seq(Byte)
  BY EncodingType, ByteTypes, SeqMonotonic

\* A packet and what is behind it.
LEMMA PacketAndRest ==
    ASSUME NEW k \in Nat, NEW size \in Nat, NEW rest \in Seq(Byte)
    PROVE  /\ PacketBytes(k, size) \o rest \in Seq(Byte)
           /\ PacketBytes(k, size) \o rest =
                <<HeaderByte(k)>> \o (Encoding(k, size)[size] \o (Bodies(k, size) \o rest))
<1> DEFINE h == <<HeaderByte(k)>>
           l == Encoding(k, size)[size]
           b == Bodies(k, size)
<1>1. h \in Seq(Byte) /\ l \in Seq(Byte) /\ b \in Seq(Byte)
  BY ByteTypes, EncodingBytes
<1>2. PacketBytes(k, size) = (h \o l) \o b
  BY EncodingDef DEF PacketBytes, Bodies
<1> HIDE DEF h, l, b
<1>3. /\ h \o l \in Seq(Byte) /\ (h \o l) \o b \in Seq(Byte)
      /\ b \o rest \in Seq(Byte) /\ ((h \o l) \o b) \o rest \in Seq(Byte)
  BY <1>1, ConcatProperties
<1>4. ((h \o l) \o b) \o rest = (h \o l) \o (b \o rest)
  BY <1>1, <1>3, ConcatAssociative, SMTT(30)
<1>5. (h \o l) \o (b \o rest) = h \o (l \o (b \o rest))
  BY <1>1, <1>3, ConcatAssociative, SMTT(30)
<1> QED
  BY <1>2, <1>3, <1>4, <1>5 DEF h, l, b

LEMMA FromType ==
    ASSUME NEW sizes \in Seq(Nat)
    PROVE  \A k \in 1 .. Len(sizes) + 1 : BytesFrom(sizes)[k] \in Seq(Byte)
<1> DEFINE n == Len(sizes)
           F == BytesFrom(sizes)
           S == {i \in Nat : i <= n => F[n + 1 - i] \in Seq(Byte)}
<1>0. n \in Nat /\ \A k \in 1 .. n : sizes[k] \in Nat
  OBVIOUS
<1>1. F[n + 1] = << >> /\ \A k \in 1 .. n : F[k] = PacketBytes(k, sizes[k]) \o F[k + 1]
  BY <1>0, FromDef
<1> HIDE DEF F, n
<1>2. 0 \in S
  <2>1. n + 1 - 0 = n + 1
    BY <1>0
  <2>2. F[n + 1 - 0] \in Seq(Byte)
    BY <1>1, <2>1, EmptySeq
  <2> QED
    BY <2>2
<1>3. \A i \in Nat : i \in S => i + 1 \in S
  <2> SUFFICES ASSUME NEW i \in Nat, i \in S, i + 1 <= n PROVE F[n + 1 - (i + 1)] \in Seq(Byte)
    OBVIOUS
  <2>1. F[n + 1 - i] \in Seq(Byte)
    BY <1>0
  <2>2. n - i \in 1 .. n /\ (n - i) + 1 = n + 1 - i /\ n + 1 - (i + 1) = n - i
    BY <1>0
  <2>3. F[n - i] = PacketBytes(n - i, sizes[n - i]) \o F[n + 1 - i]
    BY <1>1, <2>2
  <2> HIDE DEF S
  <2>4. n - i \in Nat /\ sizes[n - i] \in Nat
    BY <1>0, <2>2
  <2>5. PacketBytes(n - i, sizes[n - i]) \o F[n + 1 - i] \in Seq(Byte)
    BY <2>1, <2>4, PacketAndRest
  <2> QED
    BY <2>2, <2>3, <2>5
<1> HIDE DEF S
<1>4. \A i \in Nat : i \in S
  BY <1>2, <1>3, Induction
<1>5. \A k \in 1 .. n + 1 : n + 1 - k \in Nat /\ n + 1 - k <= n /\ n + 1 - (n + 1 - k) = k
  BY <1>0
<1> QED
  BY <1>4, <1>5 DEF S, F, n

-----------------------------------------------------------------------------
(* The packets that begin in a sequence of bytes.                            *)

\* One byte more.
With(packets, byte) == IF byte.kind = "header" THEN Append(packets, byte.of) ELSE packets

\* The function PacketsOf is made from: the packets that begin in the first i bytes.
PacketsUpto(bytes) ==
    CHOOSE Upto : Upto =
      [i \in 0 .. Len(bytes) |->
         IF i = 0 THEN << >>
         ELSE IF bytes[i].kind = "header" THEN Append(Upto[i - 1], bytes[i].of) ELSE Upto[i - 1]]

LEMMA UptoExists ==
    ASSUME NEW bytes, Len(bytes) \in Nat
    PROVE  \E Upto : Upto = [i \in 0 .. Len(bytes) |->
                               IF i = 0 THEN << >> ELSE With(Upto[i - 1], bytes[i])]
<1> DEFINE Is(f, N) == f = [i \in 0 .. N |-> IF i = 0 THEN << >> ELSE With(f[i - 1], bytes[i])]
           S == {N \in Nat : \E f : Is(f, N)}
<1> HIDE DEF With
<1>1. 0 \in S
  <2>1. Is([i \in 0 .. 0 |-> << >>], 0)
    OBVIOUS
  <2> QED
    BY <2>1
<1>2. \A N \in Nat : N \in S => N + 1 \in S
  <2> SUFFICES ASSUME NEW N \in Nat, NEW f, Is(f, N) PROVE \E g : Is(g, N + 1)
    OBVIOUS
  <2> DEFINE g == [i \in 0 .. N + 1 |-> IF i <= N THEN f[i] ELSE With(f[i - 1], bytes[i])]
  <2>1. \A i \in 0 .. N : i \in 0 .. N + 1 /\ i <= N
    OBVIOUS
  <2>2. \A i \in 0 .. N : g[i] = f[i]
    BY <2>1
  <2>3. \A i \in 0 .. N : f[i] = IF i = 0 THEN << >> ELSE With(f[i - 1], bytes[i])
    OBVIOUS
  <2>4. ASSUME NEW i \in 0 .. N + 1
        PROVE  g[i] = IF i = 0 THEN << >> ELSE With(g[i - 1], bytes[i])
    <3>1. CASE i <= N
      <4>1. i \in 0 .. N /\ (i = 0 \/ i - 1 \in 0 .. N)
        BY <3>1
      <4> HIDE DEF g, Is
      <4> QED
        BY <2>2, <2>3, <4>1
    <3>2. CASE i = N + 1
      <4>1. g[i] = With(f[i - 1], bytes[i])
        BY <3>2
      <4>2. i # 0 /\ i - 1 \in 0 .. N
        BY <3>2
      <4> HIDE DEF g, Is
      <4> QED
        BY <2>2, <4>1, <4>2
    <3> HIDE DEF g, Is
    <3> QED
      BY <3>1, <3>2
  <2>5. Is(g, N + 1)
    BY <2>4
  <2> QED
    BY <2>5
<1> HIDE DEF S
<1>3. Len(bytes) \in S
  BY <1>1, <1>2, Induction
<1> QED
  BY <1>3 DEF S

LEMMA UptoDef ==
    ASSUME NEW bytes, Len(bytes) \in Nat
    PROVE  /\ PacketsOf(bytes) = PacketsUpto(bytes)[Len(bytes)]
           /\ PacketsUpto(bytes)[0] = << >>
           /\ \A i \in 1 .. Len(bytes) :
                PacketsUpto(bytes)[i] = With(PacketsUpto(bytes)[i - 1], bytes[i])
<1>1. PacketsOf(bytes) = PacketsUpto(bytes)[Len(bytes)]
  BY DEF PacketsOf, PacketsUpto
<1>2. \E Upto : Upto =
      [i \in 0 .. Len(bytes) |->
         IF i = 0 THEN << >>
         ELSE IF bytes[i].kind = "header" THEN Append(Upto[i - 1], bytes[i].of) ELSE Upto[i - 1]]
  BY UptoExists DEF With
<1>3. PacketsUpto(bytes) =
      [i \in 0 .. Len(bytes) |->
         IF i = 0 THEN << >>
         ELSE IF bytes[i].kind = "header"
              THEN Append(PacketsUpto(bytes)[i - 1], bytes[i].of) ELSE PacketsUpto(bytes)[i - 1]]
  BY <1>2 DEF PacketsUpto
<1> HIDE DEF PacketsUpto
<1>4. 0 \in 0 .. Len(bytes) /\ \A i \in 1 .. Len(bytes) : i \in 0 .. Len(bytes) /\ i # 0
  OBVIOUS
<1>5. PacketsUpto(bytes)[0] = << >>
  BY <1>3, <1>4
<1>6. \A i \in 1 .. Len(bytes) :
        PacketsUpto(bytes)[i] = With(PacketsUpto(bytes)[i - 1], bytes[i])
  BY <1>3, <1>4 DEF With
<1> QED
  BY <1>1, <1>5, <1>6

LEMMA WithType ==
    ASSUME NEW q \in Seq(Nat), NEW b \in Byte
    PROVE  /\ With(q, b) \in Seq(Nat)
           /\ \A p \in Seq(Nat) : With(p \o q, b) = p \o With(q, b)
<1>1. CASE b.kind = "header"
  <2>1. b.of \in Nat
    BY <1>1 DEF Byte
  <2>2. With(q, b) = Append(q, b.of) /\ \A p : With(p \o q, b) = Append(p \o q, b.of)
    BY <1>1 DEF With
  <2>3. ASSUME NEW p \in Seq(Nat) PROVE Append(p \o q, b.of) = p \o Append(q, b.of)
    <3>1. p \o q \in Seq(Nat) /\ <<b.of>> \in Seq(Nat)
      BY <2>1, ConcatProperties
    <3>2. Append(p \o q, b.of) = (p \o q) \o <<b.of>> /\ Append(q, b.of) = q \o <<b.of>>
      BY <2>1, <3>1, AppendIsConcat
    <3> QED
      BY <3>1, <3>2, ConcatAssociative
  <2>4. Append(q, b.of) \in Seq(Nat)
    BY <2>1, AppendProperties
  <2> QED
    BY <2>2, <2>3, <2>4, Zenon
<1>2. CASE b.kind # "header"
  BY <1>2 DEF With
<1> QED
  BY <1>1, <1>2

LEMMA UptoType ==
    ASSUME NEW bytes \in Seq(Byte)
    PROVE  \A i \in 0 .. Len(bytes) : PacketsUpto(bytes)[i] \in Seq(Nat)
<1> DEFINE n == Len(bytes)
           U == PacketsUpto(bytes)
           S == {i \in Nat : i <= n => U[i] \in Seq(Nat)}
<1>0. n \in Nat /\ \A i \in 1 .. n : bytes[i] \in Byte
  OBVIOUS
<1>1. U[0] = << >> /\ \A i \in 1 .. n : U[i] = With(U[i - 1], bytes[i])
  BY <1>0, UptoDef
<1> HIDE DEF n, U
<1>2. 0 \in S
  BY <1>1, EmptySeq
<1>3. \A i \in Nat : i \in S => i + 1 \in S
  <2> SUFFICES ASSUME NEW i \in Nat, i \in S, i + 1 <= n PROVE U[i + 1] \in Seq(Nat)
    OBVIOUS
  <2>1. U[i] \in Seq(Nat)
    BY <1>0
  <2>2. i + 1 \in 1 .. n /\ (i + 1) - 1 = i
    BY <1>0
  <2>3. U[i + 1] = With(U[i], bytes[i + 1])
    BY <1>1, <2>2
  <2>4. bytes[i + 1] \in Byte
    BY <1>0, <2>2
  <2> QED
    BY <2>1, <2>3, <2>4, WithType
<1> HIDE DEF S
<1>4. \A i \in Nat : i \in S
  BY <1>2, <1>3, Induction
<1> QED
  BY <1>0, <1>4 DEF S, n, U

\* The packets of two sequences, one behind the other.
LEMMA PacketsOfBoth ==
    ASSUME NEW a \in Seq(Byte), NEW b \in Seq(Byte)
    PROVE  /\ PacketsOf(a) \in Seq(Nat)
           /\ PacketsOf(a \o b) = PacketsOf(a) \o PacketsOf(b)
<1> DEFINE c == a \o b
           m == Len(a)
           n == Len(b)
           A == PacketsUpto(a)
           B == PacketsUpto(b)
           C == PacketsUpto(c)
<1>0. m \in Nat /\ n \in Nat
  OBVIOUS
<1>1. /\ c \in Seq(Byte) /\ Len(c) = m + n
      /\ \A i \in 1 .. m + n : c[i] = IF i <= m THEN a[i] ELSE b[i - m]
  BY ConcatProperties
<1>2. /\ \A i \in 0 .. m : A[i] \in Seq(Nat)
      /\ \A i \in 0 .. n : B[i] \in Seq(Nat)
  BY UptoType
<1>3. /\ A[0] = << >> /\ \A i \in 1 .. m : A[i] = With(A[i - 1], a[i])
      /\ B[0] = << >> /\ \A i \in 1 .. n : B[i] = With(B[i - 1], b[i])
      /\ PacketsOf(a) = A[m] /\ PacketsOf(b) = B[n]
  BY <1>0, UptoDef
<1>4. /\ C[0] = << >> /\ \A i \in 1 .. m + n : C[i] = With(C[i - 1], c[i])
      /\ PacketsOf(c) = C[m + n]
  <2>1. Len(c) \in Nat
    BY <1>0, <1>1
  <2> HIDE DEF c
  <2> QED
    BY <1>1, <2>1, UptoDef
<1>b. \A i \in 1 .. n : b[i] \in Byte
  OBVIOUS
<1> HIDE DEF A, B, C, c, m, n
<1>5. \A i \in 0 .. m : C[i] = A[i]
  <2> DEFINE S == {i \in Nat : i <= m => C[i] = A[i]}
  <2>1. 0 \in S
    BY <1>3, <1>4
  <2>2. \A i \in Nat : i \in S => i + 1 \in S
    <3> SUFFICES ASSUME NEW i \in Nat, i \in S, i + 1 <= m PROVE C[i + 1] = A[i + 1]
      OBVIOUS
    <3>1. C[i] = A[i]
      BY <1>0
    <3>2. i + 1 \in 1 .. m /\ i + 1 \in 1 .. m + n /\ (i + 1) - 1 = i
      BY <1>0
    <3>3. C[i + 1] = With(C[i], c[i + 1]) /\ A[i + 1] = With(A[i], a[i + 1])
      BY <1>3, <1>4, <3>2
    <3>4. c[i + 1] = a[i + 1]
      BY <1>1, <3>2
    <3> QED
      BY <3>1, <3>3, <3>4
  <2> HIDE DEF S
  <2>3. \A i \in Nat : i \in S
    BY <2>1, <2>2, Induction
  <2> QED
    BY <1>0, <2>3 DEF S
<1>6. \A i \in 0 .. n : C[m + i] = A[m] \o B[i]
  <2> DEFINE Both(i) == C[m + i] = A[m] \o B[i]
             S == {i \in Nat : i <= n => Both(i)}
  <2>0. m \in 0 .. m /\ A[m] \in Seq(Nat)
    BY <1>0, <1>2
  <2>1. 0 \in S
    <3>1. C[m + 0] = A[m]
      BY <1>0, <1>5
    <3>2. A[m] \o << >> = A[m]
      BY <2>0, ConcatEmptySeq
    <3> QED
      BY <1>3, <3>1, <3>2
  <2> HIDE DEF Both
  <2>2. \A i \in Nat : i \in S => i + 1 \in S
    <3> SUFFICES ASSUME NEW i \in Nat, i \in S, i + 1 <= n PROVE Both(i + 1)
      OBVIOUS
    <3>1. C[m + i] = A[m] \o B[i]
      <4>1. Both(i)
        BY <1>0
      <4> QED
        BY <4>1 DEF Both
    <3>2. /\ i \in 0 .. n /\ i + 1 \in 1 .. n /\ (i + 1) - 1 = i
          /\ m + (i + 1) \in 1 .. m + n /\ (m + (i + 1)) - 1 = m + i
          /\ (m + (i + 1)) - m = i + 1 /\ ~ (m + (i + 1) <= m)
      BY <1>0
    <3>3. C[m + (i + 1)] = With(C[m + i], c[m + (i + 1)]) /\ B[i + 1] = With(B[i], b[i + 1])
      BY <1>3, <1>4, <3>2
    <3>4. c[m + (i + 1)] = b[i + 1]
      BY <1>1, <3>2
    <3>5. B[i] \in Seq(Nat) /\ b[i + 1] \in Byte
      BY <1>2, <1>b, <3>2
    <3>6. With(A[m] \o B[i], b[i + 1]) = A[m] \o With(B[i], b[i + 1])
      BY <2>0, <3>5, WithType
    <3>7. C[m + (i + 1)] = A[m] \o B[i + 1]
      BY <3>1, <3>3, <3>4, <3>6
    <3> QED
      BY <3>7 DEF Both
  <2> HIDE DEF S
  <2>3. \A i \in Nat : i \in S
    BY <2>1, <2>2, Induction
  <2>4. \A i \in 0 .. n : i \in Nat /\ i <= n
    BY <1>0
  <2>5. \A i \in 0 .. n : Both(i)
    BY <2>3, <2>4 DEF S
  <2> QED
    BY <2>5 DEF Both
<1>7. PacketsOf(a \o b) = A[m] \o B[n]
  <2>1. n \in 0 .. n
    BY <1>0
  <2>2. C[m + n] = A[m] \o B[n]
    BY <1>6, <2>1
  <2> QED
    BY <1>4, <2>2 DEF c
<1> QED
  BY <1>0, <1>2, <1>3, <1>7

LEMMA PacketsOfNone == PacketsOf(<< >>) = << >>
<1>1. Len(<< >>) = 0
  OBVIOUS
<1> QED
  BY <1>1, UptoDef

\* Of bytes that are no headers there are none.
LEMMA NoPackets ==
    ASSUME NEW a \in Seq(Byte), \A i \in 1 .. Len(a) : a[i].kind # "header"
    PROVE  PacketsOf(a) = << >>
<1> DEFINE n == Len(a)
           A == PacketsUpto(a)
           S == {i \in Nat : i <= n => A[i] = << >>}
<1>0. n \in Nat
  OBVIOUS
<1>1. /\ A[0] = << >> /\ \A i \in 1 .. n : A[i] = With(A[i - 1], a[i])
      /\ PacketsOf(a) = A[n]
  BY <1>0, UptoDef
<1>2. \A i \in 1 .. n : A[i] = A[i - 1]
  BY <1>1 DEF With
<1> HIDE DEF n, A
<1>3. 0 \in S
  BY <1>1
<1>4. \A i \in Nat : i \in S => i + 1 \in S
  <2> SUFFICES ASSUME NEW i \in Nat, i \in S, i + 1 <= n PROVE A[i + 1] = << >>
    OBVIOUS
  <2>1. A[i] = << >> /\ i + 1 \in 1 .. n /\ (i + 1) - 1 = i
    BY <1>0
  <2> QED
    BY <1>2, <2>1
<1> HIDE DEF S
<1>5. n \in S
  BY <1>0, <1>3, <1>4, Induction
<1> QED
  BY <1>0, <1>1, <1>5 DEF S

LEMMA OnePacket == ASSUME NEW k \in Nat PROVE PacketsOf(<<HeaderByte(k)>>) = <<k>>
<1> DEFINE b == <<HeaderByte(k)>>
<1>1. Len(b) = 1 /\ b[1] = HeaderByte(k)
  OBVIOUS
<1> HIDE DEF b
<1>2. PacketsOf(b) = With(<< >>, HeaderByte(k))
  <2>1. Len(b) \in Nat /\ 1 \in 1 .. Len(b) /\ 1 - 1 = 0
    BY <1>1
  <2> QED
    BY <1>1, <2>1, UptoDef
<1> QED
  BY <1>2 DEF With, HeaderByte, b

-----------------------------------------------------------------------------
(* What is taken from the front of the bytes that come.                      *)

LEMMA Joined ==
    ASSUME NEW a \in Seq(Byte), NEW b \in Seq(Byte), NEW c \in Seq(Byte)
    PROVE  /\ a \o b \in Seq(Byte) /\ b \o c \in Seq(Byte)
           /\ (a \o b) \o c = a \o (b \o c)
<1>1. a \o b \in Seq(Byte) /\ b \o c \in Seq(Byte)
  BY ConcatProperties
<1>2. (a \o b) \o c = a \o (b \o c)
  BY ConcatAssociative
<1> QED
  BY <1>1, <1>2

LEMMA FirstOff ==
    ASSUME NEW g \in Byte, NEW h \in Byte, NEW x \in Seq(Byte), NEW y \in Seq(Byte),
           <<g>> \o x = <<h>> \o y
    PROVE  g = h /\ x = y
<1>1. <<g>> \in Seq(Byte) /\ <<h>> \in Seq(Byte) /\ Len(<<g>>) = 1 /\ Len(<<h>>) = 1
  OBVIOUS
<1>2. (<<g>> \o x)[1] = g /\ (<<h>> \o y)[1] = h
  <2>1. /\ \A i \in 1 .. 1 + Len(x) : (<<g>> \o x)[i] = IF i <= 1 THEN <<g>>[i] ELSE x[i - 1]
        /\ \A i \in 1 .. 1 + Len(y) : (<<h>> \o y)[i] = IF i <= 1 THEN <<h>>[i] ELSE y[i - 1]
    BY <1>1, ConcatProperties
  <2>2. 1 \in 1 .. 1 + Len(x) /\ 1 \in 1 .. 1 + Len(y)
    OBVIOUS
  <2> QED
    BY <2>1, <2>2
<1>3. g = h
  BY <1>2
<1>4. <<g>> \o x = <<g>> \o y
  BY <1>3
<1> QED
  BY <1>1, <1>3, <1>4, ConcatSimplifications

LEMMA HeadAndTail ==
    ASSUME NEW b \in Seq(Byte), b # << >>
    PROVE  /\ Head(b) \in Byte /\ Tail(b) \in Seq(Byte)
           /\ b = <<Head(b)>> \o Tail(b)
<1>1. /\ Head(b) \in Byte /\ Tail(b) \in Seq(Byte) /\ Len(Tail(b)) = Len(b) - 1
      /\ \A i \in 1 .. Len(Tail(b)) : Tail(b)[i] = b[i + 1]
      /\ Head(b) = b[1]
  BY HeadTailProperties
<1> DEFINE h == <<Head(b)>>
           c == h \o Tail(b)
<1>2. h \in Seq(Byte) /\ Len(h) = 1 /\ h[1] = Head(b)
  BY <1>1
<1> HIDE DEF h
<1>3. /\ c \in Seq(Byte) /\ Len(c) = 1 + Len(Tail(b))
      /\ \A i \in 1 .. 1 + Len(Tail(b)) : c[i] = IF i <= 1 THEN h[i] ELSE Tail(b)[i - 1]
  <2>1. /\ c \in Seq(Byte) /\ Len(c) = Len(h) + Len(Tail(b))
        /\ \A i \in 1 .. Len(h) + Len(Tail(b)) :
             c[i] = IF i <= Len(h) THEN h[i] ELSE Tail(b)[i - Len(h)]
    <3>1. h \in Seq(Byte) /\ Tail(b) \in Seq(Byte)
      BY <1>1, <1>2
    <3> QED
      BY <3>1, ConcatProperties
  <2> HIDE DEF c
  <2> QED
    BY <1>2, <2>1
<1> HIDE DEF c
<1>4. Len(c) = Len(b) /\ Len(b) \in Nat /\ 1 + Len(Tail(b)) = Len(b)
  BY <1>1, <1>3
<1>5. ASSUME NEW i \in 1 .. Len(b) PROVE c[i] = b[i]
  <2>1. CASE i = 1
    BY <1>1, <1>2, <1>3, <1>4, <2>1
  <2>2. CASE i # 1
    <3>1. i - 1 \in 1 .. Len(Tail(b)) /\ ~ (i <= 1) /\ (i - 1) + 1 = i
      BY <1>4, <2>2
    <3> QED
      BY <1>1, <1>3, <1>4, <3>1
  <2> QED
    BY <2>1, <2>2
<1>6. c = b
  BY <1>3, <1>4, <1>5, SeqEqual
<1> QED
  BY <1>1, <1>6 DEF c, h

\* The first byte: of a header h, say, in front of the rest, when the bytes b and w are
\* here and u are not.
IsByteOff(h, rest, b, w, u) ==
    <<h>> \o rest = (b \o w) \o u =>
      /\ Head(b) = h /\ Tail(b) \in Seq(Byte)
      /\ rest = (Tail(b) \o w) \o u
      /\ PacketsOf(b \o w) = PacketsOf(<<h>>) \o PacketsOf(Tail(b) \o w)

LEMMA ByteOff ==
    ASSUME NEW h \in Byte, NEW rest \in Seq(Byte),
           NEW b \in Seq(Byte), NEW w \in Seq(Byte), NEW u \in Seq(Byte), b # << >>
    PROVE  IsByteOff(h, rest, b, w, u)
<1>1. Head(b) \in Byte /\ Tail(b) \in Seq(Byte) /\ b = <<Head(b)>> \o Tail(b)
  BY HeadAndTail
<1> DEFINE g == <<Head(b)>>
           t == Tail(b)
<1>2. g \in Seq(Byte) /\ t \in Seq(Byte)
  BY <1>1
<1>b. b = g \o t
  BY <1>1
<1> HIDE DEF t
<1> HIDE DEF g
<1> DEFINE e == t \o w
<1>3. (g \o t) \o w = g \o e /\ e \in Seq(Byte)
  BY <1>2, Joined, SMTT(30)
<1> HIDE DEF e
<1>c. g \in Seq(Byte) /\ e \in Seq(Byte)
  BY <1>2, <1>3
<1>4. (g \o e) \o u = g \o (e \o u) /\ e \o u \in Seq(Byte)
  BY <1>c, Joined, SMTT(30)
<1> SUFFICES ASSUME <<h>> \o rest = (b \o w) \o u
             PROVE  /\ Head(b) = h /\ Tail(b) \in Seq(Byte)
                    /\ rest = (Tail(b) \o w) \o u
                    /\ PacketsOf(b \o w) = PacketsOf(<<h>>) \o PacketsOf(Tail(b) \o w)
  BY DEF IsByteOff
<1>5. <<h>> \o rest = <<Head(b)>> \o (e \o u)
  BY <1>3, <1>4, <1>b DEF g
<1>6. Head(b) = h /\ rest = e \o u
  <2> DEFINE y == e \o u
  <2>1. y \in Seq(Byte) /\ <<h>> \o rest = <<Head(b)>> \o y
    BY <1>4, <1>5
  <2> HIDE DEF y
  <2>2. Head(b) = h /\ rest = y
    BY <1>1, <2>1, FirstOff, SMTT(30)
  <2> QED
    BY <2>2 DEF y
<1>7. PacketsOf(b \o w) = PacketsOf(g) \o PacketsOf(e)
  <2>1. b \o w = g \o e
    BY <1>3, <1>b
  <2> QED
    BY <1>2, <1>3, <2>1, PacketsOfBoth, ZenonT(30)
<1>8. PacketsOf(g) = PacketsOf(<<h>>)
  BY <1>6 DEF g
<1> QED
  BY <1>1, <1>6, <1>7, <1>8 DEF t, e

LEMMA BodiesSplit ==
    ASSUME NEW k \in Nat, NEW r \in Nat, NEW n \in 0 .. r
    PROVE  Bodies(k, r) = Bodies(k, n) \o Bodies(k, r - n)
<1> DEFINE a == Bodies(k, n)
           b == Bodies(k, r - n)
           c == Bodies(k, r)
<1>0. n \in Nat /\ r - n \in Nat
  OBVIOUS
<1>1. /\ a \in Seq(Byte) /\ Len(a) = n /\ \A i \in 1 .. n : a[i] = BodyByte(k)
      /\ b \in Seq(Byte) /\ Len(b) = r - n /\ \A i \in 1 .. r - n : b[i] = BodyByte(k)
      /\ c \in Seq(Byte) /\ Len(c) = r /\ \A i \in 1 .. r : c[i] = BodyByte(k)
  BY <1>0, ByteTypes
<1> HIDE DEF a, b, c
<1>2. /\ a \o b \in Seq(Byte) /\ Len(a \o b) = r
      /\ \A i \in 1 .. r : (a \o b)[i] = IF i <= n THEN a[i] ELSE b[i - n]
  <2>1. /\ a \o b \in Seq(Byte) /\ Len(a \o b) = Len(a) + Len(b)
        /\ \A i \in 1 .. Len(a) + Len(b) : (a \o b)[i] = IF i <= Len(a) THEN a[i] ELSE b[i - Len(a)]
    BY <1>1, ConcatProperties
  <2>2. Len(a) + Len(b) = r
    BY <1>0, <1>1
  <2> QED
    BY <1>1, <2>1, <2>2
<1> HIDE DEF Bodies
<1>3. \A i \in 1 .. r : IF i <= n THEN i \in 1 .. n ELSE i - n \in 1 .. r - n
  BY <1>0
<1>4. \A i \in 1 .. r : (a \o b)[i] = c[i]
  BY <1>1, <1>2, <1>3
<1>5. a \o b = c
  BY <1>1, <1>2, <1>4, SeqEqual
<1> QED
  BY <1>5 DEF a, b, c

LEMMA SplitAt ==
    ASSUME NEW b \in Seq(Byte), NEW n \in 0 .. Len(b)
    PROVE  LET front == SubSeq(b, 1, n)  back == SubSeq(b, n + 1, Len(b)) IN
           /\ front \in Seq(Byte) /\ back \in Seq(Byte)
           /\ Len(front) = n /\ Len(back) = Len(b) - n
           /\ \A i \in 1 .. n : front[i] = b[i]
           /\ front \o back = b
<1> DEFINE front == SubSeq(b, 1, n)
           back == SubSeq(b, n + 1, Len(b))
<1>0. /\ Len(b) \in Nat /\ n \in Nat /\ n <= Len(b)
      /\ \A i \in 1 .. Len(b) : b[i] \in Byte
  OBVIOUS
<1>1. /\ \A i \in 1 .. n : b[i] \in Byte
      /\ \A i \in n + 1 .. Len(b) : b[i] \in Byte
  BY <1>0
<1>2. /\ front \in Seq(Byte) /\ Len(front) = IF 1 <= n THEN n - 1 + 1 ELSE 0
      /\ \A i \in 1 .. n - 1 + 1 : front[i] = b[1 + i - 1]
  BY <1>0, <1>1, SubSeqProperties
<1>3. /\ back \in Seq(Byte) /\ Len(back) = IF n + 1 <= Len(b) THEN Len(b) - (n + 1) + 1 ELSE 0
  BY <1>0, <1>1, SubSeqProperties
<1> HIDE DEF front, back
<1>4. Len(front) = n /\ Len(back) = Len(b) - n /\ \A i \in 1 .. n : front[i] = b[i]
  BY <1>0, <1>2, <1>3
<1>5. front \o back = b
  <2>1. 1 \in 1 .. Len(b) + 1 /\ n \in 1 - 1 .. Len(b) /\ Len(b) \in n .. Len(b)
    BY <1>0
  <2>2. front \o back = SubSeq(b, 1, Len(b))
    BY <2>1, ConcatAdjacentSubSeq DEF front, back
  <2> QED
    BY <2>2, SubSeqFull
<1> QED
  BY <1>2, <1>3, <1>4, <1>5 DEF front, back

\* The first n bytes of a body of r.
AreBodiesOff(k, r, n, rest, b, w, u) ==
    LET back == SubSeq(b, n + 1, Len(b)) IN
    Bodies(k, r) \o rest = (b \o w) \o u =>
      /\ back \in Seq(Byte)
      /\ Bodies(k, r - n) \o rest = (back \o w) \o u
      /\ PacketsOf(b \o w) = PacketsOf(back \o w)

LEMMA BodiesOff ==
    ASSUME NEW k \in Nat, NEW r \in Nat, NEW rest \in Seq(Byte),
           NEW b \in Seq(Byte), NEW w \in Seq(Byte), NEW u \in Seq(Byte),
           NEW n \in Nat, n <= r, n <= Len(b)
    PROVE  AreBodiesOff(k, r, n, rest, b, w, u)
<1> DEFINE front == SubSeq(b, 1, n)
           back == SubSeq(b, n + 1, Len(b))
           x == Bodies(k, n)
           y == Bodies(k, r - n)
<1>0. n \in 0 .. r /\ n \in 0 .. Len(b) /\ r - n \in Nat
  OBVIOUS
<1>1. front \in Seq(Byte) /\ back \in Seq(Byte)
  BY <1>0, SplitAt
<1>2. x \in Seq(Byte) /\ y \in Seq(Byte)
  BY <1>0, ByteTypes
<1>3. /\ Len(front) = n /\ \A i \in 1 .. n : front[i] = b[i]
      /\ Len(x) = n /\ \A i \in 1 .. n : x[i] = BodyByte(k)
  BY <1>0, SplitAt, ByteTypes
<1>b. b = front \o back
  BY <1>0, SplitAt
<1>c. Bodies(k, r) = x \o y
  BY <1>0, BodiesSplit
<1> HIDE DEF front, back, x, y
<1> DEFINE e == back \o w
           p == y \o rest
<1>t. e \in Seq(Byte)
  BY <1>1, Joined
<1>4. (front \o back) \o w = front \o e
  BY <1>1, Joined, SMTT(30)
<1>5. (x \o y) \o rest = x \o p /\ p \in Seq(Byte)
  BY <1>2, Joined, SMTT(30)
<1> HIDE DEF e, p
<1>s. front \in Seq(Byte) /\ e \in Seq(Byte) /\ u \in Seq(Byte)
  BY <1>1, <1>t
<1>u. (front \o e) \o u = front \o (e \o u) /\ e \o u \in Seq(Byte)
  BY <1>s, Joined, SMTT(30)
<1> DEFINE q == e \o u
<1>6. (front \o e) \o u = front \o q /\ q \in Seq(Byte)
  BY <1>u
<1> HIDE DEF q
<1> SUFFICES ASSUME Bodies(k, r) \o rest = (b \o w) \o u
             PROVE  /\ back \in Seq(Byte)
                    /\ y \o rest = e \o u
                    /\ PacketsOf(b \o w) = PacketsOf(back \o w)
  BY DEF back, y, e, AreBodiesOff
<1>7. x \o p = front \o q
  BY <1>4, <1>5, <1>6, <1>b, <1>c
<1>8. x = front
  <2>1. \A i \in 1 .. Len(x) + Len(p) : (x \o p)[i] = IF i <= Len(x) THEN x[i] ELSE p[i - Len(x)]
    BY <1>2, <1>5, ConcatProperties
  <2>2. \A i \in 1 .. Len(front) + Len(q) :
          (front \o q)[i] = IF i <= Len(front) THEN front[i] ELSE q[i - Len(front)]
    BY <1>1, <1>6, ConcatProperties
  <2>3. \A i \in 1 .. n : i <= n /\ i \in 1 .. n + Len(p) /\ i \in 1 .. n + Len(q)
    BY <1>5, <1>6
  <2>4. \A i \in 1 .. n : x[i] = front[i]
    BY <1>3, <1>7, <2>1, <2>2, <2>3
  <2> QED
    BY <1>1, <1>2, <1>3, <2>4, SeqEqual
<1>9. p = q
  <2>1. x \o p = x \o q
    BY <1>7, <1>8
  <2> QED
    BY <1>2, <1>5, <1>6, <2>1, ConcatSimplifications
<1>10. PacketsOf(front) = << >>
  <2>1. \A i \in 1 .. Len(front) : front[i].kind # "header"
    BY <1>3, <1>8 DEF BodyByte
  <2> QED
    BY <1>1, <2>1, NoPackets
<1>11. PacketsOf(b \o w) = PacketsOf(e)
  <2>1. b \o w = front \o e
    BY <1>4, <1>b
  <2>2. PacketsOf(front \o e) = PacketsOf(front) \o PacketsOf(e) /\ PacketsOf(e) \in Seq(Nat)
    BY <1>1, <1>t, PacketsOfBoth
  <2> QED
    BY <1>10, <2>1, <2>2, ConcatEmptySeq
<1> QED
  BY <1>1, <1>9, <1>11 DEF e, p, q

-----------------------------------------------------------------------------
(* What comes: the bytes here, and those that a connection which ended has   *)
(* lost.                                                                     *)

Coming(bytes, here, ended) ==
    \E lost \in Seq(Byte) : bytes = here \o lost /\ (ended \/ lost = << >>)

LEMMA NoneHere ==
    ASSUME NEW bytes \in Seq(Byte)
    PROVE  Coming(bytes, << >> \o << >>, TRUE)
<1>1. (<< >> \o << >>) \o bytes = bytes
  BY EmptySeq, ConcatEmptySeq
<1> QED
  BY <1>1 DEF Coming

One(byte) == <<byte>>

LEMMA OneType ==
    ASSUME NEW h \in Byte
    PROVE  One(h) \in Seq(Byte) /\ Len(One(h)) = 1 /\ One(h)[1] = h
  BY DEF One

LEMMA ByteTaken ==
    ASSUME NEW h \in Byte, NEW rest \in Seq(Byte), NEW b \in Seq(Byte), NEW w \in Seq(Byte),
           NEW ended, b # << >>, Coming(One(h) \o rest, b \o w, ended)
    PROVE  /\ Head(b) = h /\ Tail(b) \in Seq(Byte)
           /\ Coming(rest, Tail(b) \o w, ended)
           /\ PacketsOf(b \o w) = PacketsOf(One(h)) \o PacketsOf(Tail(b) \o w)
<1>1. ASSUME NEW u \in Seq(Byte)
      PROVE  IsByteOff(h, rest, b, w, u)
  BY ByteOff
<1>2. PICK u \in Seq(Byte) : <<h>> \o rest = (b \o w) \o u /\ (ended \/ u = << >>)
  BY DEF Coming, One
<1> QED
  BY <1>1, <1>2 DEF Coming, IsByteOff, One

LEMMA BodiesTaken ==
    ASSUME NEW k \in Nat, NEW r \in Nat, NEW rest \in Seq(Byte),
           NEW b \in Seq(Byte), NEW w \in Seq(Byte), NEW ended,
           NEW n \in Nat, n <= r, n <= Len(b),
           Coming(Bodies(k, r) \o rest, b \o w, ended)
    PROVE  LET back == SubSeq(b, n + 1, Len(b)) IN
           /\ back \in Seq(Byte)
           /\ Coming(Bodies(k, r - n) \o rest, back \o w, ended)
           /\ PacketsOf(b \o w) = PacketsOf(back \o w)
<1> DEFINE back == SubSeq(b, n + 1, Len(b))
<1>1. ASSUME NEW u \in Seq(Byte)
      PROVE  AreBodiesOff(k, r, n, rest, b, w, u)
  BY BodiesOff
<1>2. PICK u \in Seq(Byte) : Bodies(k, r) \o rest = (b \o w) \o u /\ (ended \/ u = << >>)
  BY DEF Coming
<1> QED
  BY <1>1, <1>2 DEF Coming, AreBodiesOff

\* What arrives was coming already ...
LEMMA Arriving ==
    ASSUME NEW b \in Seq(Byte), NEW w \in Seq(Byte), w # << >>
    PROVE  /\ Append(b, Head(w)) \in Seq(Byte) /\ Tail(w) \in Seq(Byte)
           /\ Append(b, Head(w)) \o Tail(w) = b \o w
<1>1. Head(w) \in Byte /\ Tail(w) \in Seq(Byte) /\ w = <<Head(w)>> \o Tail(w)
  BY HeadAndTail
<1> DEFINE h == <<Head(w)>>
           t == Tail(w)
<1>2. h \in Seq(Byte) /\ t \in Seq(Byte)
  BY <1>1
<1>3. Append(b, Head(w)) = b \o h /\ Append(b, Head(w)) \in Seq(Byte)
  BY <1>1, AppendIsConcat, AppendProperties
<1>4. w = h \o t
  BY <1>1
<1> HIDE DEF h, t
<1>5. (b \o h) \o t = b \o (h \o t)
  BY <1>2, Joined
<1> QED
  BY <1>1, <1>3, <1>4, <1>5 DEF t

\* ... and what has not, when the connection ends, is lost.
LEMMA Closing ==
    ASSUME NEW bytes, NEW b \in Seq(Byte), NEW w \in Seq(Byte), NEW ended,
           Coming(bytes, b \o w, ended)
    PROVE  Coming(bytes, b \o << >>, TRUE)
<1>1. PICK u \in Seq(Byte) : bytes = (b \o w) \o u
  BY DEF Coming
<1>2. (b \o w) \o u = b \o (w \o u) /\ w \o u \in Seq(Byte)
  <2> HIDE DEF Byte
  <2>1. (b \o w) \o u = b \o (w \o u)
    BY Joined
  <2>2. w \o u \in Seq(Byte)
    BY ConcatProperties
  <2> QED
    BY <2>1, <2>2
<1>3. b \o << >> = b
  BY ConcatEmptySeq
<1> DEFINE lost == w \o u
<1>4. bytes = (b \o << >>) \o lost /\ lost \in Seq(Byte)
  BY <1>1, <1>2, <1>3
<1> HIDE DEF lost
<1> QED
  BY <1>4 DEF Coming

LEMMA Cut ==
    ASSUME NEW a \in Seq(Nat), NEW b \in Seq(Nat)
    PROVE  Len(a) \in 0 .. Len(a \o b) /\ a = SubSeq(a \o b, 1, Len(a))
<1>1. /\ a \o b \in Seq(Nat) /\ Len(a \o b) = Len(a) + Len(b)
      /\ \A i \in 1 .. Len(a) + Len(b) : (a \o b)[i] = IF i <= Len(a) THEN a[i] ELSE b[i - Len(a)]
  BY ConcatProperties
<1> DEFINE c == a \o b
           d == SubSeq(c, 1, Len(a))
<1>0. Len(a) \in Nat /\ Len(b) \in Nat
  OBVIOUS
<1>2. c \in Seq(Nat) /\ Len(c) = Len(a) + Len(b)
      /\ \A i \in 1 .. Len(a) : c[i] = a[i]
  <2>1. \A i \in 1 .. Len(a) : i \in 1 .. Len(a) + Len(b) /\ i <= Len(a)
    BY <1>0
  <2> QED
    BY <1>1, <2>1
<1> HIDE DEF c
<1>3. /\ d \in Seq(Nat) /\ Len(d) = Len(a)
      /\ \A i \in 1 .. Len(a) : d[i] = c[i]
  <2>1. \A i \in 1 .. Len(a) : c[i] \in Nat
    BY <1>2
  <2>2. /\ d \in Seq(Nat)
        /\ Len(d) = IF 1 <= Len(a) THEN Len(a) - 1 + 1 ELSE 0
        /\ \A i \in 1 .. Len(a) - 1 + 1 : d[i] = c[1 + i - 1]
    BY <1>0, <1>2, <2>1, SubSeqProperties
  <2> HIDE DEF d
  <2> QED
    BY <1>0, <2>2
<1> HIDE DEF d
<1>4. a = d
  <2>1. \A i \in 1 .. Len(a) : a[i] = d[i]
    BY <1>2, <1>3
  <2> QED
    BY <1>3, <2>1, SeqEqual
<1> QED
  BY <1>0, <1>2, <1>4 DEF c, d

-----------------------------------------------------------------------------
(* The packets that come.                                                    *)

\* All that follows in a packet of this size, and behind it, its header ...
LengthOnwards(k, size, m, rest) == Encoding(k, size)[m] \o (Bodies(k, size) \o rest)

LEMMA OnwardsType ==
    ASSUME NEW k \in Nat, NEW size \in Nat, NEW m \in 0 .. size, NEW rest \in Seq(Byte)
    PROVE  LengthOnwards(k, size, m, rest) \in Seq(Byte)
<1>1. Encoding(k, size)[m] \in Seq(Byte) /\ Bodies(k, size) \in Seq(Byte)
  BY ByteTypes, EncodingBytes
<1> QED
  BY <1>1, Joined DEF LengthOnwards

\* ... of which the first byte is one of the length.
LEMMA MoreOnwards ==
    ASSUME NEW k \in Nat, NEW size \in Nat, NEW m \in 0 .. size, NEW rest \in Seq(Byte), m >= Base
    PROVE  LengthOnwards(k, size, m, rest) =
             One(LengthByte(k, m % Base, TRUE)) \o LengthOnwards(k, size, m \div Base, rest)
<1> DEFINE body == Bodies(k, size) \o rest
           digits == Encoding(k, size)[m \div Base]
           first == One(LengthByte(k, m % Base, TRUE))
<1>1. m \div Base \in 0 .. size /\ m % Base \in Nat
  <2>1. m \in Nat /\ m \div Base \in Nat /\ m % Base \in Nat /\ m \div Base < m
    BY Division
  <2> QED
    BY <2>1
<1>2. body \in Seq(Byte)
  BY ByteTypes, Joined
<1>3. digits \in Seq(Byte)
  BY <1>1, EncodingBytes
<1>4. first \in Seq(Byte)
  <2>1. LengthByte(k, m % Base, TRUE) \in LengthBytesOf(k)
    BY <1>1 DEF LengthByte, LengthBytesOf
  <2> QED
    BY <2>1, ByteTypes, OneType
<1>5. Encoding(k, size)[m] = first \o digits
  BY EncodingDef DEF One
<1>6. LengthOnwards(k, size, m, rest) = (first \o digits) \o body
  BY <1>5 DEF LengthOnwards
<1>7. LengthOnwards(k, size, m \div Base, rest) = digits \o body
  BY DEF LengthOnwards
<1> HIDE DEF first, digits, body
<1>8. (first \o digits) \o body = first \o (digits \o body)
  BY <1>2, <1>3, <1>4, Joined
<1> QED
  BY <1>6, <1>7, <1>8 DEF first

LEMMA HeaderTaken ==
    ASSUME NEW sizes \in Seq(Nat), NEW k \in 1 .. Len(sizes) + 1,
           NEW b \in Seq(Byte), NEW w \in Seq(Byte), NEW ended, b # << >>,
           Coming(BytesFrom(sizes)[k], b \o w, ended)
    PROVE  /\ k \in 1 .. Len(sizes)
           /\ Head(b) = HeaderByte(k) /\ Tail(b) \in Seq(Byte)
           /\ Coming(LengthOnwards(k, sizes[k], sizes[k], BytesFrom(sizes)[k + 1]), Tail(b) \o w, ended)
           /\ PacketsOf(b \o w) = <<k>> \o PacketsOf(Tail(b) \o w)
<1> DEFINE rest == BytesFrom(sizes)[k + 1]
           tail == LengthOnwards(k, sizes[k], sizes[k], rest)
<1>1. k \in 1 .. Len(sizes)
  <2> SUFFICES ASSUME k = Len(sizes) + 1 PROVE FALSE
    OBVIOUS
  <2>1. BytesFrom(sizes)[k] = << >>
    <3>1. Len(sizes) \in Nat
      OBVIOUS
    <3> QED
      BY <3>1, FromDef
  <2>2. PICK u \in Seq(Byte) : << >> = (b \o w) \o u
    BY <2>1 DEF Coming
  <2>3. b \o w \in Seq(Byte) /\ Len(b \o w) = Len(b) + Len(w)
    BY ConcatProperties
  <2>4. Len((b \o w) \o u) = Len(b \o w) + Len(u)
    BY <2>3, ConcatProperties
  <2>5. Len(b) \in Nat \ {0} /\ Len(w) \in Nat /\ Len(u) \in Nat /\ Len(<< >>) = 0
    <3>1. Len(b) \in Nat \ {0}
      BY EmptySeq
    <3> QED
      BY <3>1
  <2> DEFINE here == b \o w
             all == here \o u
  <2>6. Len(all) = Len(b) + Len(w) + Len(u)
    BY <2>3, <2>4
  <2>7. Len(all) = 0
    BY <2>2, <2>5
  <2> HIDE DEF all
  <2>8. Len(b) + Len(w) + Len(u) # 0
    BY <2>5
  <2> QED
    BY <2>6, <2>7, <2>8, Zenon
<1>2. sizes[k] \in Nat /\ rest \in Seq(Byte) /\ sizes[k] \in 0 .. sizes[k] /\ k \in Nat
  <2>1. k + 1 \in 1 .. Len(sizes) + 1 /\ sizes[k] \in Nat
    BY <1>1
  <2> QED
    BY <1>1, <2>1, FromType
<1>3. BytesFrom(sizes)[k] = One(HeaderByte(k)) \o tail
  <2>1. BytesFrom(sizes)[k] = PacketBytes(k, sizes[k]) \o rest
    <3>1. Len(sizes) \in Nat
      OBVIOUS
    <3> QED
      BY <1>1, <3>1, FromDef
  <2>2. PacketBytes(k, sizes[k]) \o rest = One(HeaderByte(k)) \o tail
    BY <1>2, PacketAndRest DEF LengthOnwards, One
  <2> QED
    BY <2>1, <2>2
<1>4. tail \in Seq(Byte) /\ HeaderByte(k) \in Byte
  BY <1>2, OnwardsType, ByteTypes
<1>5. Coming(One(HeaderByte(k)) \o tail, b \o w, ended)
  BY <1>3
<1>6. PacketsOf(One(HeaderByte(k))) = <<k>>
  BY <1>2, OnePacket DEF One
<1> HIDE DEF rest, tail
<1>7. /\ Head(b) = HeaderByte(k) /\ Tail(b) \in Seq(Byte)
      /\ Coming(tail, Tail(b) \o w, ended)
      /\ PacketsOf(b \o w) = PacketsOf(One(HeaderByte(k))) \o PacketsOf(Tail(b) \o w)
  BY <1>4, <1>5, ByteTaken
<1> QED
  BY <1>1, <1>6, <1>7 DEF tail, rest

\* A byte of the length: m of it are left to be told.
LEMMA DigitTaken ==
    ASSUME NEW k \in Nat, NEW size \in Nat, NEW m \in 0 .. size, NEW rest \in Seq(Byte),
           NEW b \in Seq(Byte), NEW w \in Seq(Byte), NEW ended, b # << >>,
           Coming(LengthOnwards(k, size, m, rest), b \o w, ended)
    PROVE  /\ Tail(b) \in Seq(Byte)
           /\ PacketsOf(b \o w) = PacketsOf(Tail(b) \o w)
           /\ m < Base => /\ Head(b) = LengthByte(k, m, FALSE)
                          /\ Coming(Bodies(k, size) \o rest, Tail(b) \o w, ended)
           /\ m >= Base => /\ Head(b) = LengthByte(k, m % Base, TRUE)
                           /\ Coming(LengthOnwards(k, size, m \div Base, rest), Tail(b) \o w, ended)
<1> DEFINE body == Bodies(k, size) \o rest
<1>0. m \in Nat /\ Base \in Nat
  BY BaseAssumption
<1>1. body \in Seq(Byte)
  BY ByteTypes, Joined
<1>2. ASSUME NEW h \in LengthBytesOf(k), NEW tail \in Seq(Byte),
             Coming(One(h) \o tail, b \o w, ended)
      PROVE  /\ Head(b) = h /\ Tail(b) \in Seq(Byte)
             /\ Coming(tail, Tail(b) \o w, ended)
             /\ PacketsOf(b \o w) = PacketsOf(Tail(b) \o w)
  <2>1. h \in Byte /\ One(h) \in Seq(Byte) /\ h.kind # "header"
    BY OneType DEF LengthBytesOf, Byte
  <2>2. PacketsOf(One(h)) = << >>
    <3>1. \A i \in 1 .. Len(One(h)) : One(h)[i].kind # "header"
      <4>1. Len(One(h)) = 1 /\ One(h)[1] = h
        BY <2>1, OneType
      <4> QED
        BY <2>1, <4>1
    <3> QED
      BY <2>1, <3>1, NoPackets
  <2>3. /\ Head(b) = h /\ Tail(b) \in Seq(Byte)
        /\ Coming(tail, Tail(b) \o w, ended)
        /\ PacketsOf(b \o w) = PacketsOf(One(h)) \o PacketsOf(Tail(b) \o w)
    BY <1>2, <2>1, ByteTaken
  <2>4. PacketsOf(Tail(b) \o w) \in Seq(Nat)
    <3>1. Tail(b) \o w \in Seq(Byte)
      BY <2>3, ConcatProperties
    <3> QED
      BY <3>1, PacketsOfBoth
  <2> QED
    BY <2>2, <2>3, <2>4, ConcatEmptySeq
<1>3. CASE m < Base
  <2>1. LengthByte(k, m, FALSE) \in LengthBytesOf(k)
    BY <1>0 DEF LengthByte, LengthBytesOf
  <2>2. Encoding(k, size)[m] = One(LengthByte(k, m, FALSE))
    BY <1>3, EncodingDef DEF One
  <2>3. Coming(One(LengthByte(k, m, FALSE)) \o body, b \o w, ended)
    BY <2>2 DEF LengthOnwards
  <2> HIDE DEF body
  <2>4. /\ Head(b) = LengthByte(k, m, FALSE) /\ Tail(b) \in Seq(Byte)
        /\ Coming(body, Tail(b) \o w, ended)
        /\ PacketsOf(b \o w) = PacketsOf(Tail(b) \o w)
    BY <1>1, <1>2, <2>1, <2>3
  <2>5. ~ (m >= Base)
    BY <1>0, <1>3
  <2> QED
    BY <2>4, <2>5 DEF body
<1>4. CASE m >= Base
  <2>1. m \div Base \in 0 .. size /\ m % Base \in Nat
    <3>1. m \div Base \in Nat /\ m % Base \in Nat /\ m \div Base < m
      BY <1>0, <1>4, Division
    <3> QED
      BY <1>0, <3>1
  <2>2. LengthByte(k, m % Base, TRUE) \in LengthBytesOf(k)
    BY <2>1 DEF LengthByte, LengthBytesOf
  <2> DEFINE tail == LengthOnwards(k, size, m \div Base, rest)
  <2>3. tail \in Seq(Byte)
    BY <2>1, OnwardsType
  <2>9. Coming(One(LengthByte(k, m % Base, TRUE)) \o tail, b \o w, ended)
    BY <1>4, MoreOnwards
  <2> HIDE DEF tail
  <2>10. /\ Head(b) = LengthByte(k, m % Base, TRUE) /\ Tail(b) \in Seq(Byte)
         /\ Coming(tail, Tail(b) \o w, ended)
         /\ PacketsOf(b \o w) = PacketsOf(Tail(b) \o w)
    BY <1>2, <2>2, <2>3, <2>9
  <2>11. ~ (m < Base)
    BY <1>0, <1>4
  <2> QED
    BY <2>10, <2>11 DEF tail
<1>5. m < Base \/ m >= Base
  BY <1>0
<1> QED
  BY <1>3, <1>4, <1>5

LEMMA NoBodies ==
    ASSUME NEW k \in Nat, NEW rest \in Seq(Byte)
    PROVE  Bodies(k, 0) \o rest = rest
<1>1. Bodies(k, 0) = << >>
  <2>1. Bodies(k, 0) \in Seq(Byte) /\ Len(Bodies(k, 0)) = 0
    BY ByteTypes
  <2> QED
    BY <2>1, EmptySeq
<1> QED
  BY <1>1, ConcatEmptySeq

\* All of them, from the start.
LEMMA PacketFirst ==
    ASSUME NEW k \in Nat, NEW size \in Nat, NEW rest \in Seq(Byte)
    PROVE  PacketsOf(PacketBytes(k, size) \o rest) = <<k>> \o PacketsOf(rest)
<1> DEFINE h == <<HeaderByte(k)>>
           e == Encoding(k, size)[size]
           b == Bodies(k, size)
           p == b \o rest
           q == e \o p
<1>1. size \in 0 .. size
  OBVIOUS
<1>2. h \in Seq(Byte) /\ e \in Seq(Byte) /\ b \in Seq(Byte)
  BY <1>1, ByteTypes, EncodingBytes
<1>3. PacketsOf(h) = <<k>>
  BY OnePacket
<1>4. PacketsOf(e) = << >>
  <2>1. e \in Seq(LengthBytesOf(k))
    BY <1>1, EncodingType
  <2> HIDE DEF e
  <2>2. \A i \in 1 .. Len(e) : e[i].kind # "header"
    <3>1. \A i \in 1 .. Len(e) : e[i] \in LengthBytesOf(k)
      BY <2>1
    <3> QED
      BY <3>1 DEF LengthBytesOf
  <2> QED
    BY <1>2, <2>2, NoPackets
<1>5. PacketsOf(b) = << >>
  <2>1. Len(b) = size /\ \A i \in 1 .. size : b[i] = BodyByte(k)
    BY ByteTypes
  <2> HIDE DEF b
  <2>2. \A i \in 1 .. Len(b) : b[i].kind # "header"
    BY <2>1 DEF BodyByte
  <2> QED
    BY <1>2, <2>2, NoPackets
<1>6. PacketBytes(k, size) \o rest = h \o q
  BY PacketAndRest
<1> HIDE DEF h, e, b
<1>7. p \in Seq(Byte)
  BY <1>2, Joined
<1> HIDE DEF p
<1>8. q \in Seq(Byte)
  BY <1>2, <1>7, Joined
<1>9. PacketsOf(h \o q) = PacketsOf(h) \o PacketsOf(q)
  <2> HIDE DEF q
  <2> QED
    BY <1>2, <1>8, PacketsOfBoth
<1>10. PacketsOf(q) = PacketsOf(e) \o PacketsOf(p) /\ PacketsOf(p) \in Seq(Nat)
  BY <1>2, <1>7, PacketsOfBoth
<1>11. PacketsOf(p) = PacketsOf(b) \o PacketsOf(rest) /\ PacketsOf(rest) \in Seq(Nat)
  BY <1>2, PacketsOfBoth DEF p
<1>12. PacketsOf(q) = PacketsOf(rest)
  <2>1. << >> \o PacketsOf(p) = PacketsOf(p) /\ << >> \o PacketsOf(rest) = PacketsOf(rest)
    BY <1>10, <1>11, ConcatEmptySeq
  <2> HIDE DEF q
  <2> QED
    BY <1>4, <1>5, <1>10, <1>11, <2>1
<1> QED
  BY <1>3, <1>6, <1>9, <1>12

LEMMA PacketsAtFirst ==
    ASSUME NEW sizes \in Seq(Nat)
    PROVE  PacketsOf(AllBytes(sizes)) = [k \in 1 .. Len(sizes) |-> k]
<1> DEFINE n == Len(sizes)
           F == BytesFrom(sizes)
           Ahead(i) == [j \in 1 .. i |-> n - i + j]
           S == {i \in Nat : i <= n => PacketsOf(F[n + 1 - i]) = Ahead(i)}
<1>0. n \in Nat /\ \A k \in 1 .. n : sizes[k] \in Nat
  OBVIOUS
<1>1. /\ AllBytes(sizes) = F[1]
      /\ F[n + 1] = << >> /\ \A k \in 1 .. n : F[k] = PacketBytes(k, sizes[k]) \o F[k + 1]
      /\ \A k \in 1 .. n + 1 : F[k] \in Seq(Byte)
  BY <1>0, FromDef, FromType
<1> HIDE DEF F, n
<1>2. 0 \in S
  <2>1. n + 1 - 0 = n + 1 /\ Ahead(0) = << >>
    BY <1>0
  <2> HIDE DEF Ahead
  <2> QED
    BY <1>1, <2>1, PacketsOfNone
<1>3. ASSUME NEW i \in Nat, i \in S PROVE i + 1 \in S
  <2> SUFFICES ASSUME i + 1 <= n PROVE PacketsOf(F[n + 1 - (i + 1)]) = Ahead(i + 1)
    OBVIOUS
  <2> DEFINE k == n - i
  <2>1. k \in 1 .. n /\ k \in Nat /\ n + 1 - (i + 1) = k /\ n + 1 - i = k + 1 /\ k + 1 \in 1 .. n + 1
    BY <1>0
  <2>2. PacketsOf(F[k + 1]) = Ahead(i)
    BY <1>0, <1>3, <2>1
  <2>3. F[k] = PacketBytes(k, sizes[k]) \o F[k + 1]
    BY <1>1, <2>1
  <2>4. sizes[k] \in Nat /\ F[k + 1] \in Seq(Byte)
    BY <1>0, <1>1, <2>1
  <2>5. PacketsOf(F[k]) = <<k>> \o Ahead(i)
    <3> HIDE DEF Ahead, k
    <3>1. PacketsOf(PacketBytes(k, sizes[k]) \o F[k + 1]) = <<k>> \o PacketsOf(F[k + 1])
      BY <2>1, <2>4, PacketFirst
    <3> QED
      BY <2>2, <2>3, <3>1
  <2>6. <<k>> \o Ahead(i) = Ahead(i + 1)
    <3>1. /\ Ahead(i) \in Seq(Nat) /\ Len(Ahead(i)) = i /\ \A j \in 1 .. i : Ahead(i)[j] = n - i + j
          /\ Ahead(i + 1) \in Seq(Nat) /\ Len(Ahead(i + 1)) = i + 1
          /\ \A j \in 1 .. i + 1 : Ahead(i + 1)[j] = n - (i + 1) + j
      BY <1>0, <2>1
    <3> HIDE DEF Ahead
    <3>2. <<k>> \in Seq(Nat) /\ Len(<<k>>) = 1 /\ <<k>>[1] = k
      BY <2>1
    <3>3. /\ <<k>> \o Ahead(i) \in Seq(Nat) /\ Len(<<k>> \o Ahead(i)) = 1 + i
          /\ \A j \in 1 .. 1 + i :
               (<<k>> \o Ahead(i))[j] = IF j <= 1 THEN <<k>>[j] ELSE Ahead(i)[j - 1]
      BY <3>1, <3>2, ConcatProperties
    <3>4. ASSUME NEW j \in 1 .. i + 1 PROVE (<<k>> \o Ahead(i))[j] = Ahead(i + 1)[j]
      <4>1. CASE j = 1
        BY <1>0, <3>1, <3>2, <3>3, <4>1
      <4>2. CASE j # 1
        <5>1. j - 1 \in 1 .. i /\ j \in 1 .. 1 + i /\ ~ (j <= 1) /\ n - i + (j - 1) = n - (i + 1) + j
          BY <1>0, <4>2
        <5>2. (<<k>> \o Ahead(i))[j] = Ahead(i)[j - 1]
          BY <3>3, <5>1
        <5> QED
          BY <3>1, <5>1, <5>2
      <4> QED
        BY <4>1, <4>2
    <3> DEFINE s == <<k>> \o Ahead(i)
               t == Ahead(i + 1)
    <3>5. s \in Seq(Nat) /\ t \in Seq(Nat) /\ Len(s) = i + 1 /\ Len(t) = i + 1
      BY <1>0, <3>1, <3>3
    <3>6. \A j \in 1 .. i + 1 : s[j] = t[j]
      BY <3>4
    <3> HIDE DEF s, t
    <3>7. s = t
      BY <3>5, <3>6, SeqEqual
    <3> QED
      BY <3>7 DEF s, t
  <2> QED
    BY <2>1, <2>5, <2>6
<1>4. n \in S
  <2> HIDE DEF S
  <2> QED
    BY <1>0, <1>2, <1>3, Induction
<1>5. n + 1 - n = 1 /\ Ahead(n) = [k \in 1 .. n |-> k]
  BY <1>0
<1>6. PacketsOf(F[n + 1 - n]) = Ahead(n)
  BY <1>0, <1>4
<1> QED
  BY <1>1, <1>5, <1>6 DEF n

-----------------------------------------------------------------------------
(* The inductive invariant: as long as no timeout came inside a packet, what *)
(* is read next, and what comes, belong together.                            *)

Power(n) ==
    IF n = 0 THEN 1 ELSE IF n = 1 THEN Base ELSE IF n = 2 THEN Base * Base
    ELSE IF n = 3 THEN Base * Base * Base ELSE Base * Base * Base * Base

Calls == [header : Byte, len : Nat, multiplier : Nat, rem_len : Nat, bytes : Nat]

LEMMA NoCallType == NoCall \in Calls
  BY DEF NoCall, HeaderByte, Byte, Calls

Types ==
    /\ sent \in Seq(Nat) /\ \A k \in 1 .. Len(sent) : sent[k] < Power(4)
    /\ buffer \in Seq(Byte) /\ wire \in Seq(Byte)
    /\ closed \in BOOLEAN /\ (closed => wire = << >>)
    /\ pc \in {"header", "length", "body"}
    /\ call \in Calls

AtHeader ==
    \E k \in 1 .. Len(sent) + 1 : Coming(BytesFrom(sent)[k], buffer \o wire, closed)

\* m is what the digits that are left count to.
InLengthOf(k) ==
    /\ call.header = HeaderByte(k) /\ call.bytes = 0
    /\ call.len \in 0 .. 3 /\ call.multiplier = Power(call.len)
    /\ \E m \in 0 .. sent[k] :
         /\ call.rem_len + call.multiplier * m = sent[k]
         /\ call.len > 0 => m > 0
         /\ Coming(LengthOnwards(k, sent[k], m, BytesFrom(sent)[k + 1]), buffer \o wire, closed)

InBodyOf(k) ==
    /\ call.header = HeaderByte(k) /\ call.bytes < call.rem_len
    /\ \/ closed /\ buffer = << >>
       \/ /\ call.rem_len = sent[k]
          /\ Coming(Bodies(k, sent[k] - call.bytes) \o BytesFrom(sent)[k + 1], buffer \o wire, closed)

Tracked ==
    /\ Types
    /\ pc = "header" => AtHeader
    /\ pc = "length" => \E k \in 1 .. Len(sent) : InLengthOf(k)
    /\ pc = "body" => \E k \in 1 .. Len(sent) : InBodyOf(k)

IInv == stalled \in BOOLEAN /\ (stalled \/ Tracked)

LEMMA Powers ==
    /\ \A n \in 0 .. 4 : Power(n) \in Nat
    /\ \A n \in 0 .. 3 : Power(n + 1) = Power(n) * Base
<1>1. ASSUME NEW b \in Nat PROVE b * b \in Nat /\ b * b * b \in Nat /\ b * b * b * b \in Nat
  BY SMT
<1>2. \A n \in 0 .. 4 : Power(n) \in Nat
  BY <1>1, BaseAssumption DEF Power
<1>3. \A n \in 0 .. 3 : n = 0 \/ n = 1 \/ n = 2 \/ n = 3
  OBVIOUS
<1>4. Base = 1 * Base
  BY BaseAssumption
<1>5. ASSUME NEW n \in 0 .. 3 PROVE Power(n + 1) = Power(n) * Base
  BY <1>3, <1>4, BaseAssumption DEF Power
<1> QED
  BY <1>2, <1>5

\* A turn of decodePacket with the digit that comes.
LEMMA Counting ==
    ASSUME NEW size \in Nat, NEW r \in Nat, NEW p \in Nat, NEW m \in Nat, r + p * m = size
    PROVE  /\ m < Base => r + m * p = size
           /\ m >= Base =>
                (r + (m % Base) * p) + (p * Base) * (m \div Base) = size
<1>1. m * p = p * m
  BY SMT
<1>2. CASE m < Base
  <2>1. ~ (m >= Base)
    BY <1>2, BaseAssumption
  <2> QED
    BY <1>1, <2>1
<1>3. CASE m >= Base
  <2> DEFINE q == m \div Base
             d == m % Base
  <2>1. q \in Nat /\ d \in Nat /\ m = q * Base + d
    BY <1>3, Division
  <2> HIDE DEF q, d
  <2>2. ASSUME NEW b \in Nat, NEW x \in Nat, NEW y \in Nat
        PROVE  (r + y * p) + (p * b) * x = r + p * (x * b + y)
    <3>1. (p * b) * x = p * (x * b) /\ y * p = p * y
      BY SMT
    <3>2. p * (x * b + y) = p * (x * b) + p * y
      BY SMT
    <3>3. x * b \in Nat /\ p * (x * b) \in Nat /\ p * y \in Nat
      BY SMT
    <3> QED
      BY <3>1, <3>2, <3>3
  <2>3. (r + d * p) + (p * Base) * q = r + p * (q * Base + d)
    BY <2>1, <2>2, BaseAssumption
  <2>4. ~ (m < Base)
    BY <1>3, BaseAssumption
  <2> QED
    BY <2>1, <2>3, <2>4 DEF q, d
<1>4. m < Base \/ m >= Base
  BY BaseAssumption
<1> QED
  BY <1>2, <1>3, <1>4

\* There are four digits at most.
LEMMA NoFifth ==
    ASSUME NEW size \in Nat, size < Power(4),
           NEW r \in Nat, NEW m \in Nat, r + Power(4) * m = size
    PROVE  m = 0
<1>1. ASSUME NEW p \in Nat, size < p, r + p * m = size PROVE m = 0
  <2>1. SUFFICES ASSUME m >= 1 PROVE FALSE
    OBVIOUS
  <2>2. p * m >= p
    BY <2>1, SMT
  <2>3. p * m \in Nat
    BY SMT
  <2> QED
    BY <1>1, <2>2, <2>3
<1>2. Power(4) \in Nat
  BY Powers
<1> HIDE DEF Power
<1> QED
  BY <1>1, <1>2

LEMMA SizesFit == Sizes \subseteq Nat /\ \A s \in Sizes : s < Power(4)
<1>1. Power(4) = Base * Base * Base * Base
  BY DEF Power
<1>2. Power(4) \in Nat
  BY Powers
<1> HIDE DEF Power
<1>3. Sizes \subseteq 0 .. Power(4) - 1
  BY <1>1, SizesAssumption
<1> QED
  BY <1>2, <1>3

LEMMA InitTracked == Init => IInv
<1> SUFFICES ASSUME Init PROVE IInv
  OBVIOUS
<1>1. PICK n \in 0 .. MaxPackets : sent \in [1 .. n -> Sizes]
  BY DEF Init
<1>2. n \in Nat /\ Sizes \subseteq Nat /\ \A s \in Sizes : s < Power(4)
  BY SizesFit
<1>3. sent \in Seq(Nat) /\ Len(sent) = n
  <2>1. sent \in [1 .. n -> Nat]
    BY <1>1, <1>2
  <2> QED
    BY <1>2, <2>1
<1>4. \A k \in 1 .. Len(sent) : sent[k] < Power(4)
  BY <1>1, <1>2, <1>3
<1>5. wire = BytesFrom(sent)[1] /\ BytesFrom(sent)[1] \in Seq(Byte) /\ 1 \in 1 .. Len(sent) + 1
  <2>1. wire = AllBytes(sent) /\ Len(sent) \in Nat
    BY <1>2, <1>3 DEF Init
  <2>2. 1 \in 1 .. Len(sent) + 1
    BY <2>1
  <2> QED
    BY <1>3, <2>1, <2>2, FromDef, FromType
<1>6. Coming(BytesFrom(sent)[1], buffer \o wire, closed)
  <2>1. (<< >> \o wire) \o << >> = wire /\ << >> \in Seq(Byte)
    BY <1>5, ConcatEmptySeq, EmptySeq
  <2>2. buffer = << >>
    BY DEF Init
  <2> QED
    BY <1>5, <2>1, <2>2 DEF Coming
<1>7. NoCall \in Calls
  BY NoCallType
<1>8. Types
  <2>1. << >> \in Seq(Byte)
    BY EmptySeq
  <2>2. /\ buffer = << >> /\ closed = FALSE /\ pc = "header" /\ call = NoCall
    BY DEF Init
  <2> QED
    BY <1>3, <1>4, <1>5, <1>7, <2>1, <2>2 DEF Types
<1> QED
  BY <1>5, <1>6, <1>8 DEF Init, IInv, Tracked, AtHeader

-----------------------------------------------------------------------------
(* What a step is to PacketStream.                                           *)

Begun == IF pc = "header" THEN << >> ELSE <<call.header.of>>

Unread == Begun \o PacketsOf(buffer \o wire)

StreamStep == [Stream!Next]_(Stream!vars)

\* WholeUnlessCutInLength, of a step.
WholeStep ==
    result' # result /\ result'.code = "packet" /\ ~ stalled'
      => result'.whole \/ (pc = "length" /\ closed /\ buffer = << >>)

\* What every step of an execution without stalls has to keep.
Kept == Tracked' /\ StreamStep /\ WholeStep

LEMMA UnreadType ==
    ASSUME Types
    PROVE  /\ PacketsOf(buffer \o wire) \in Seq(Nat)
           /\ PacketsOf(buffer) \in Seq(Nat) /\ PacketsOf(wire) \in Seq(Nat)
           /\ PacketsOf(buffer \o wire) = PacketsOf(buffer) \o PacketsOf(wire)
           /\ Begun \in Seq(Nat)
<1>1. buffer \in Seq(Byte) /\ wire \in Seq(Byte)
  BY DEF Types
<1>2. buffer \o wire \in Seq(Byte)
  BY <1>1, ConcatProperties
<1>3. call.header \in Byte
  BY DEF Types, Calls
<1>4. call.header.of \in Nat
  BY <1>3 DEF Byte
<1>5. Begun \in Seq(Nat)
  BY <1>4, EmptySeq DEF Begun
<1> QED
  BY <1>1, <1>2, <1>5, PacketsOfBoth

LEMMA Stutters ==
    ASSUME Unread' = Unread, closed' = closed, result' = result
    PROVE  StreamStep /\ WholeStep
  BY DEF StreamStep, WholeStep, Stream!vars, Unread, Begun

LEMMA Takes ==
    ASSUME NEW k \in Nat, Unread = <<k>> \o Unread', Unread' \in Seq(Nat), closed' = closed,
           result' = [code |-> "packet", of |-> k, whole |-> TRUE]
    PROVE  StreamStep /\ WholeStep
<1> DEFINE rest == Unread'
           all == <<k>> \o rest
<1>1. Unread = all /\ rest \in Seq(Nat)
  OBVIOUS
<1>2. all # << >> /\ Head(all) = k /\ Tail(all) = rest
  <2> HIDE DEF rest
  <2>1. rest \in Seq(Nat)
    BY <1>1
  <2> QED
    BY <2>1
<1> HIDE DEF all
<1>3. Stream!Take
  BY <1>1, <1>2 DEF Stream!Take, Stream!Packet, Unread, Begun
<1> QED
  BY <1>3 DEF StreamStep, WholeStep, Stream!Next

LEMMA CutsOff ==
    ASSUME NEW k \in Nat, closed, Unread = <<k>>, Unread' = << >>, closed' = closed,
           \/ result' = [code |-> "failure"]
           \/ result' = [code |-> "packet", of |-> k, whole |-> FALSE] /\ pc = "length" /\ buffer = << >>
    PROVE  StreamStep /\ WholeStep
<1>1. Len(<<k>>) = 1 /\ Head(<<k>>) = k
  OBVIOUS
<1>2. Stream!CutOff
  BY <1>1 DEF Stream!CutOff, Stream!Packet, Stream!FAILURE, Unread, Begun
<1>3. WholeStep
  BY DEF WholeStep
<1> QED
  BY <1>2, <1>3 DEF StreamStep, Stream!Next

LEMMA FindsNothing ==
    ASSUME Unread' = Unread, closed' = closed,
           \/ ~ closed /\ result' = [code |-> "failure"]
           \/ closed /\ Unread = << >> /\ result' = [code |-> "eof"]
    PROVE  StreamStep /\ WholeStep
<1>1. Stream!Nothing \/ Stream!End
  BY DEF Stream!Nothing, Stream!End, Stream!FAILURE, Stream!CON_EOF, Unread, Begun
<1>2. WholeStep
  BY DEF WholeStep
<1> QED
  BY <1>1, <1>2 DEF StreamStep, Stream!Next

-----------------------------------------------------------------------------
(* The network.                                                              *)

LEMMA ArriveKept == ASSUME Tracked, ~ stalled', Arrive PROVE Kept
<1>1. /\ buffer' \in Seq(Byte) /\ wire' \in Seq(Byte)
      /\ buffer' \o wire' = buffer \o wire
  <2>1. buffer \in Seq(Byte) /\ wire \in Seq(Byte) /\ wire # << >>
    BY DEF Tracked, Types, Arrive
  <2>2. buffer' = Append(buffer, Head(wire)) /\ wire' = Tail(wire)
    BY DEF Arrive
  <2> QED
    BY <2>1, <2>2, Arriving
<1>2. UNCHANGED <<sent, closed, pc, call, result>> /\ ~ closed
  BY DEF Tracked, Types, Arrive
<1>3. Types'
  BY <1>1, <1>2 DEF Tracked, Types
<1>4. AtHeader => AtHeader'
  BY <1>1, <1>2 DEF AtHeader
<1>5. \A k \in 1 .. Len(sent) : InLengthOf(k) => InLengthOf(k)'
  BY <1>1, <1>2 DEF InLengthOf
<1>6. \A k \in 1 .. Len(sent) : InBodyOf(k) => InBodyOf(k)'
  BY <1>1, <1>2 DEF InBodyOf
<1>7. Tracked'
  BY <1>2, <1>3, <1>4, <1>5, <1>6 DEF Tracked
<1>8. Unread' = Unread
  BY <1>1, <1>2 DEF Unread, Begun
<1> QED
  BY <1>2, <1>7, <1>8, Stutters DEF Kept

LEMMA CloseKept == ASSUME Tracked, ~ stalled', Close PROVE Kept
<1>1. /\ buffer \in Seq(Byte) /\ wire \in Seq(Byte) /\ Types
      /\ ~ closed /\ closed' = TRUE /\ buffer' = buffer /\ wire' = << >>
      /\ UNCHANGED <<sent, pc, call, result>>
  BY DEF Tracked, Types, Close
<1>2. Types'
  <2>1. << >> \in Seq(Byte)
    BY EmptySeq
  <2> QED
    BY <1>1, <2>1 DEF Types
<1>3. \A bytes : Coming(bytes, buffer \o wire, closed) => Coming(bytes, buffer' \o wire', closed')
  BY <1>1, Closing
<1>4. AtHeader => AtHeader'
  BY <1>1, <1>3 DEF AtHeader
<1>5. \A k \in 1 .. Len(sent) : InLengthOf(k) => InLengthOf(k)'
  BY <1>1, <1>3 DEF InLengthOf
<1>6. \A k \in 1 .. Len(sent) : InBodyOf(k) => InBodyOf(k)'
  BY <1>1, <1>3 DEF InBodyOf
<1>7. Tracked'
  BY <1>1, <1>2, <1>4, <1>5, <1>6 DEF Tracked
<1>8. Stream!Ends
  <2> DEFINE here == PacketsOf(buffer)
             lost == PacketsOf(wire)
             kept == Begun \o here
  <2>1. here \in Seq(Nat) /\ lost \in Seq(Nat) /\ Begun \in Seq(Nat)
    BY <1>1, UnreadType
  <2>2. Unread = Begun \o (here \o lost)
    BY <1>1, UnreadType DEF Unread
  <2>3. Unread' = Begun \o here
    <3>1. buffer' \o wire' = buffer
      BY <1>1, ConcatEmptySeq
    <3>2. Begun' = Begun
      BY <1>1 DEF Begun
    <3> QED
      BY <3>1, <3>2 DEF Unread
  <2> HIDE DEF here, lost
  <2>4. Begun \o (here \o lost) = (Begun \o here) \o lost
    BY <2>1, ConcatAssociative
  <2>5. kept \in Seq(Nat)
    BY <2>1, ConcatProperties
  <2>6. Unread = kept \o lost /\ Unread' = kept
    BY <2>2, <2>3, <2>4
  <2> HIDE DEF kept
  <2>7. Len(kept) \in 0 .. Len(kept \o lost) /\ kept = SubSeq(kept \o lost, 1, Len(kept))
    BY <2>1, <2>5, Cut
  <2>8. \E n \in 0 .. Len(Unread) : Unread' = SubSeq(Unread, 1, n)
    BY <2>6, <2>7
  <2> QED
    BY <1>1, <2>8 DEF Stream!Ends, Unread, Begun
<1>9. StreamStep /\ WholeStep
  BY <1>1, <1>8 DEF StreamStep, Stream!Next, WholeStep
<1> QED
  BY <1>7, <1>9 DEF Kept

-----------------------------------------------------------------------------
(* The reads.                                                                *)

\* Nothing is there, and nothing comes.
LEMMA NothingComes ==
    ASSUME Types, buffer = << >>, closed
    PROVE  /\ buffer \o wire = << >> \o << >> /\ closed = TRUE
           /\ PacketsOf(buffer \o wire) = << >>
           /\ \A bytes \in Seq(Byte) : Coming(bytes, buffer \o wire, closed)
<1>1. wire = << >> /\ closed = TRUE
  BY DEF Types
<1>2. PacketsOf(<< >> \o << >>) = << >>
  <2>1. << >> \o << >> = << >>
    BY EmptySeq, ConcatEmptySeq
  <2> QED
    BY <2>1, PacketsOfNone
<1> QED
  BY <1>1, <1>2, NoneHere

\* The packet is read, and the next one is read from where it begins.
LEMMA ReturnsKept ==
    ASSUME Types, NEW k \in 1 .. Len(sent), NEW what, Returns(what),
           UNCHANGED <<sent, wire, closed>>, buffer' \in Seq(Byte),
           Coming(BytesFrom(sent)[k + 1], buffer' \o wire, closed)
    PROVE  Tracked'
<1>1. k + 1 \in 1 .. Len(sent) + 1
  BY DEF Types
<1>2. pc' = "header" /\ call' = NoCall
  BY DEF Returns
<1>3. Types'
  BY <1>2, NoCallType DEF Types, Calls
<1>4. AtHeader'
  BY <1>1 DEF AtHeader
<1> QED
  BY <1>2, <1>3, <1>4 DEF Tracked

LEMMA ReadHeaderKept == ASSUME Tracked, ~ stalled', ReadHeader PROVE Kept
<1>1. /\ Types /\ sent \in Seq(Nat) /\ buffer \in Seq(Byte) /\ wire \in Seq(Byte)
      /\ buffer # << >> /\ buffer' = Tail(buffer) /\ pc = "header" /\ pc' = "length"
      /\ call' = [NoCall EXCEPT !.header = Head(buffer)]
      /\ UNCHANGED <<sent, wire, closed, result>>
      /\ AtHeader
  BY DEF Tracked, Types, ReadHeader
<1>2. PICK i \in 1 .. Len(sent) + 1 : Coming(BytesFrom(sent)[i], buffer \o wire, closed)
  BY <1>1 DEF AtHeader
<1> DEFINE rest == BytesFrom(sent)[i + 1]
<1>3. /\ i \in 1 .. Len(sent)
      /\ Head(buffer) = HeaderByte(i) /\ Tail(buffer) \in Seq(Byte)
      /\ Coming(LengthOnwards(i, sent[i], sent[i], rest), Tail(buffer) \o wire, closed)
      /\ PacketsOf(buffer \o wire) = <<i>> \o PacketsOf(Tail(buffer) \o wire)
  BY <1>1, <1>2, HeaderTaken
<1>4. i \in Nat /\ sent[i] \in Nat /\ HeaderByte(i) \in Byte
  <2>1. i \in Nat /\ sent[i] \in Nat
    BY <1>1, <1>3
  <2> QED
    BY <2>1, ByteTypes
<1>5. /\ call' = [header |-> HeaderByte(i), len |-> 0, multiplier |-> 1, rem_len |-> 0, bytes |-> 0]
      /\ call' \in Calls
  BY <1>1, <1>3, <1>4 DEF NoCall, Calls
<1>6. Types'
  BY <1>1, <1>3, <1>5 DEF Types, Calls
<1> HIDE DEF rest
<1>7. InLengthOf(i)'
  <2>1. Power(0) = 1 /\ 0 + 1 * sent[i] = sent[i] /\ sent[i] \in 0 .. sent[i]
    BY <1>4 DEF Power
  <2>2. \E m \in 0 .. sent'[i] :
          /\ call'.rem_len + call'.multiplier * m = sent'[i]
          /\ call'.len > 0 => m > 0
          /\ Coming(LengthOnwards(i, sent'[i], m, BytesFrom(sent')[i + 1]), buffer' \o wire', closed')
    <3>1. Coming(LengthOnwards(i, sent'[i], sent[i], BytesFrom(sent')[i + 1]), buffer' \o wire', closed')
      BY <1>1, <1>3 DEF rest
    <3>2. /\ sent[i] \in 0 .. sent'[i]
          /\ call'.rem_len + call'.multiplier * sent[i] = sent'[i]
          /\ ~ (call'.len > 0)
      <4>1. call'.rem_len = 0 /\ call'.multiplier = 1 /\ call'.len = 0
        BY <1>5
      <4>2. sent' = sent
        BY <1>1
      <4> QED
        BY <2>1, <4>1, <4>2
    <3> QED
      BY <3>1, <3>2
  <2> QED
    BY <1>5, <2>1, <2>2 DEF InLengthOf
<1>8. Tracked'
  BY <1>1, <1>3, <1>6, <1>7 DEF Tracked
<1>9. Unread' = Unread
  <2>1. Begun = << >> /\ Begun' = <<i>>
    BY <1>1, <1>5 DEF Begun, HeaderByte
  <2>2. PacketsOf(buffer \o wire) \in Seq(Nat)
    BY <1>1, UnreadType
  <2>3. Unread = PacketsOf(buffer \o wire)
    BY <2>1, <2>2, ConcatEmptySeq DEF Unread
  <2>4. Unread' = <<i>> \o PacketsOf(Tail(buffer) \o wire)
    BY <1>1, <2>1 DEF Unread
  <2> QED
    BY <1>3, <2>3, <2>4
<1> QED
  BY <1>1, <1>8, <1>9, Stutters DEF Kept

LEMMA HeaderTimesOutKept == ASSUME Tracked, ~ stalled', HeaderTimesOut PROVE Kept
<1>1. /\ Types /\ AtHeader /\ pc = "header" /\ pc' = "header" /\ ~ closed
      /\ call' = NoCall /\ result' = [code |-> "failure"]
      /\ UNCHANGED <<sent, wire, buffer, closed>>
  BY DEF Tracked, HeaderTimesOut, TimesOut, Returns
<1>2. Types'
  BY <1>1, NoCallType DEF Types, Calls
<1>3. AtHeader'
  BY <1>1 DEF AtHeader
<1>4. Unread' = Unread
  BY <1>1 DEF Unread, Begun
<1>5. Tracked'
  BY <1>1, <1>2, <1>3 DEF Tracked
<1> QED
  BY <1>1, <1>4, <1>5, FindsNothing DEF Kept

LEMMA HeaderEofKept == ASSUME Tracked, ~ stalled', HeaderEof PROVE Kept
<1>1. /\ Types /\ AtHeader /\ pc = "header" /\ pc' = "header" /\ closed /\ buffer = << >>
      /\ call' = NoCall /\ result' = [code |-> "eof"]
      /\ UNCHANGED <<sent, wire, buffer, closed>>
  BY DEF Tracked, HeaderEof, AtEof, Returns
<1>2. Types'
  BY <1>1, NoCallType DEF Types, Calls
<1>3. AtHeader'
  BY <1>1 DEF AtHeader
<1>4. Unread' = Unread
  BY <1>1 DEF Unread, Begun
<1>5. Unread = << >>
  <2>1. PacketsOf(buffer \o wire) = << >> /\ Begun = << >>
    BY <1>1, NothingComes DEF Begun
  <2> QED
    BY <2>1, EmptySeq, ConcatEmptySeq DEF Unread
<1>6. Tracked'
  BY <1>1, <1>2, <1>3 DEF Tracked
<1> QED
  BY <1>1, <1>4, <1>5, <1>6, FindsNothing DEF Kept

LEMMA BodyFailsKept == ASSUME Tracked, ~ stalled', BodyFails PROVE Kept
<1>1. /\ Types /\ pc = "body" /\ closed /\ buffer = << >>
      /\ Returns([code |-> "failure"])
      /\ UNCHANGED <<sent, wire, buffer, closed>>
  BY DEF Tracked, BodyFails, TimesOut, AtEof, WhenBodyFails
<1>2. PICK k \in 1 .. Len(sent) : InBodyOf(k)
  BY <1>1 DEF Tracked
<1>3. k \in Nat /\ k + 1 \in 1 .. Len(sent) + 1 /\ sent \in Seq(Nat)
  BY <1>1 DEF Types
<1>4. Coming(BytesFrom(sent)[k + 1], buffer' \o wire, closed) /\ buffer' \in Seq(Byte)
  <2>1. BytesFrom(sent)[k + 1] \in Seq(Byte)
    BY <1>3, FromType
  <2> QED
    BY <1>1, <2>1, NothingComes DEF Types
<1>5. Tracked'
  BY <1>1, <1>4, ReturnsKept
<1>6. PacketsOf(buffer \o wire) = << >>
  BY <1>1, NothingComes
<1>7. Unread = <<k>> /\ Unread' = << >>
  <2>1. Begun = <<k>> /\ Begun' = << >>
    BY <1>1, <1>2 DEF Begun, InBodyOf, HeaderByte, Returns
  <2>2. PacketsOf(buffer' \o wire') = << >>
    BY <1>1, <1>6
  <2>3. << >> \o << >> = << >> /\ <<k>> \o << >> = <<k>>
    BY <1>3, EmptySeq, ConcatEmptySeq
  <2> QED
    BY <1>6, <2>1, <2>2, <2>3 DEF Unread
<1>8. result' = [code |-> "failure"]
  BY <1>1 DEF Returns
<1> QED
  BY <1>1, <1>3, <1>5, <1>7, <1>8, CutsOff DEF Kept

LEMMA LengthFailsKept == ASSUME Tracked, ~ stalled', LengthFails PROVE Kept
<1>1. /\ Types /\ pc = "length" /\ UNCHANGED <<sent, wire, buffer, closed>> /\ AfterLength(call)
  BY DEF Tracked, LengthFails
<1>2. PICK k \in 1 .. Len(sent) : InLengthOf(k)
  BY <1>1 DEF Tracked
<1>3. closed /\ buffer = << >>
  <2>1. MayReadDigit(call)
    BY <1>2 DEF InLengthOf, MayReadDigit, MAX_NO_OF_REMAINING_LENGTH_BYTES
  <2> QED
    BY <1>1, <2>1 DEF LengthFails, TimesOut, AtEof
<1>4. k \in Nat /\ k + 1 \in 1 .. Len(sent) + 1 /\ sent \in Seq(Nat) /\ buffer \in Seq(Byte)
  BY <1>1 DEF Types
<1>5. call.header = HeaderByte(k) /\ call.bytes = 0 /\ call.rem_len \in Nat /\ call \in Calls
  BY <1>1, <1>2 DEF InLengthOf, Types, Calls
<1>6. PacketsOf(buffer \o wire) = << >> /\ PacketsOf(buffer' \o wire') = << >>
  BY <1>1, <1>3, NothingComes
<1>7. Begun = <<k>> /\ Unread = <<k>>
  <2>1. Begun = <<k>>
    BY <1>1, <1>5 DEF Begun, HeaderByte
  <2>2. <<k>> \o << >> = <<k>>
    BY <1>4, ConcatEmptySeq
  <2> QED
    BY <1>6, <2>1, <2>2 DEF Unread
<1>8. CASE BodyFollows(call)
  <2>1. pc' = "body" /\ call' = call /\ result' = result
    BY <1>1, <1>8 DEF AfterLength
  <2>2. Types'
    BY <1>1, <2>1 DEF Types
  <2>3. InBodyOf(k)'
    BY <1>1, <1>3, <1>5, <1>8, <2>1 DEF InBodyOf, BodyFollows
  <2>4. Tracked'
    BY <1>1, <2>1, <2>2, <2>3 DEF Tracked
  <2>5. Unread' = Unread
    BY <1>1, <2>1 DEF Unread, Begun
  <2> QED
    BY <1>1, <2>1, <2>4, <2>5, Stutters DEF Kept
<1>9. CASE ~ BodyFollows(call)
  <2>1. Returns(Packet(call)) /\ call.rem_len = 0
    BY <1>1, <1>5, <1>9 DEF AfterLength, BodyFollows
  <2>2. Tracked'
    <3>1. BytesFrom(sent)[k + 1] \in Seq(Byte)
      BY <1>4, FromType
    <3>2. Coming(BytesFrom(sent)[k + 1], buffer' \o wire, closed)
      BY <1>1, <1>3, <3>1, NothingComes
    <3> QED
      BY <1>1, <1>4, <2>1, <3>2, ReturnsKept
  <2>3. Unread' = << >>
    <3>1. Begun' = << >>
      BY <2>1 DEF Returns, Begun
    <3>2. << >> \o << >> = << >>
      BY EmptySeq, ConcatEmptySeq
    <3> QED
      BY <1>6, <3>1, <3>2 DEF Unread
  <2>4. result' = [code |-> "packet", of |-> k, whole |-> (0 = sent[k])]
    BY <1>5, <2>1 DEF Returns, Packet, IsWhole, HeaderByte
  <2>5. CASE sent[k] = 0
    <3>1. <<k>> \o << >> = <<k>> /\ << >> \in Seq(Nat)
      BY <1>4, EmptySeq, ConcatEmptySeq
    <3>2. result' = [code |-> "packet", of |-> k, whole |-> TRUE]
      BY <2>4, <2>5
    <3>3. Unread = <<k>> \o Unread' /\ Unread' \in Seq(Nat)
      BY <1>7, <2>3, <3>1
    <3> QED
      BY <1>1, <1>4, <2>2, <3>2, <3>3, Takes DEF Kept
  <2>6. CASE sent[k] # 0
    <3>1. result' = [code |-> "packet", of |-> k, whole |-> FALSE]
      BY <2>4, <2>6
    <3> QED
      BY <1>1, <1>3, <1>4, <1>7, <2>2, <2>3, <3>1, CutsOff DEF Kept
  <2> QED
    BY <2>5, <2>6
<1> QED
  BY <1>8, <1>9

\* The last byte of the length was read.
LEMMA LengthEnds ==
    ASSUME Types, pc = "length", NEW k \in 1 .. Len(sent), call.header = HeaderByte(k),
           NEW c \in Calls, c.header = HeaderByte(k), c.bytes = 0, c.rem_len = sent[k],
           buffer' \in Seq(Byte), UNCHANGED <<sent, wire, closed>>,
           PacketsOf(buffer' \o wire) = PacketsOf(buffer \o wire),
           Coming(Bodies(k, sent[k]) \o BytesFrom(sent)[k + 1], buffer' \o wire, closed),
           AfterLength(c)
    PROVE  Kept
<1>1. k \in Nat /\ k + 1 \in 1 .. Len(sent) + 1 /\ sent \in Seq(Nat) /\ sent[k] \in Nat
  BY DEF Types
<1>2. Begun = <<k>>
  BY DEF Begun, HeaderByte
<1>3. CASE BodyFollows(c)
  <2>1. pc' = "body" /\ call' = c /\ result' = result
    BY <1>3 DEF AfterLength
  <2>2. Types'
    BY <2>1 DEF Types, Calls
  <2>3. InBodyOf(k)'
    <3>1. sent[k] - 0 = sent[k] /\ 0 < c.rem_len
      BY <1>1, <1>3 DEF BodyFollows
    <3> QED
      BY <2>1, <3>1 DEF InBodyOf
  <2>4. Tracked'
    BY <2>1, <2>2, <2>3 DEF Tracked
  <2>5. Unread' = Unread
    BY <2>1 DEF Unread, Begun
  <2> QED
    BY <2>1, <2>4, <2>5, Stutters DEF Kept
<1>4. CASE ~ BodyFollows(c)
  <2>1. Returns(Packet(c)) /\ sent[k] = 0
    BY <1>1, <1>4 DEF AfterLength, BodyFollows
  <2>2. Coming(BytesFrom(sent)[k + 1], buffer' \o wire, closed)
    <3>1. BytesFrom(sent)[k + 1] \in Seq(Byte)
      BY <1>1, FromType
    <3> QED
      BY <1>1, <2>1, <3>1, NoBodies
  <2>3. Tracked'
    BY <2>1, <2>2, ReturnsKept
  <2>4. Unread' = PacketsOf(buffer \o wire) /\ PacketsOf(buffer \o wire) \in Seq(Nat)
    <3>1. Begun' = << >> /\ PacketsOf(buffer \o wire) \in Seq(Nat)
      BY <2>1, UnreadType DEF Returns, Begun
    <3>2. << >> \o PacketsOf(buffer \o wire) = PacketsOf(buffer \o wire)
      BY <3>1, ConcatEmptySeq
    <3> QED
      BY <3>1, <3>2 DEF Unread
  <2>5. Unread = <<k>> \o Unread' /\ Unread' \in Seq(Nat)
    BY <1>2, <2>4 DEF Unread
  <2>6. result' = [code |-> "packet", of |-> k, whole |-> TRUE]
    <3>1. c.header.kind = "header" /\ c.header.of = k /\ c.rem_len = c.bytes
      BY <2>1 DEF HeaderByte
    <3>2. IsWhole(c) = TRUE
      BY <3>1 DEF IsWhole
    <3> QED
      BY <2>1, <3>1, <3>2 DEF Returns, Packet
  <2> QED
    BY <1>1, <2>3, <2>5, <2>6, Takes DEF Kept
<1> QED
  BY <1>3, <1>4

LEMMA DigitCounted ==
    ASSUME NEW c \in Calls, NEW digit \in Nat, c.multiplier * Base \in Nat,
           c.rem_len + digit * c.multiplier \in Nat
    PROVE  /\ WithDigit(c, digit) \in Calls
           /\ WithDigit(c, digit).header = c.header /\ WithDigit(c, digit).bytes = c.bytes
           /\ WithDigit(c, digit).len = c.len + 1
           /\ WithDigit(c, digit).multiplier = c.multiplier * Base
           /\ WithDigit(c, digit).rem_len = c.rem_len + digit * c.multiplier
<1> DEFINE p == c.multiplier * Base
           r == c.rem_len + digit * c.multiplier
<1>1. WithDigit(c, digit) = [c EXCEPT !.len = @ + 1, !.rem_len = r, !.multiplier = p]
  BY DEF WithDigit
<1>2. p \in Nat /\ r \in Nat
  OBVIOUS
<1> HIDE DEF p, r
<1>3. /\ WithDigit(c, digit) \in Calls
      /\ WithDigit(c, digit).header = c.header /\ WithDigit(c, digit).bytes = c.bytes
      /\ WithDigit(c, digit).len = c.len + 1
      /\ WithDigit(c, digit).multiplier = p
      /\ WithDigit(c, digit).rem_len = r
  <2>1. WithDigit(c, digit) =
          [header |-> c.header, len |-> c.len + 1, multiplier |-> p, rem_len |-> r, bytes |-> c.bytes]
    BY <1>1 DEF Calls
  <2>2. c.header \in Byte /\ c.len + 1 \in Nat /\ c.bytes \in Nat
    BY DEF Calls
  <2> QED
    BY <1>2, <2>1, <2>2 DEF Calls
<1> QED
  BY <1>3 DEF p, r

LEMMA ReadLengthKept == ASSUME Tracked, ~ stalled', ReadLength PROVE Kept
<1>1. /\ Types /\ pc = "length" /\ buffer # << >> /\ buffer' = Tail(buffer)
      /\ UNCHANGED <<sent, wire, closed>>
  BY DEF Tracked, ReadLength
<1>2. PICK k \in 1 .. Len(sent) : InLengthOf(k)
  BY <1>1 DEF Tracked
<1>3. /\ k \in Nat /\ k + 1 \in 1 .. Len(sent) + 1 /\ sent \in Seq(Nat) /\ sent[k] \in Nat
      /\ sent[k] < Power(4) /\ buffer \in Seq(Byte) /\ wire \in Seq(Byte) /\ call \in Calls
  BY <1>1 DEF Types, Calls
<1>4. /\ call.header = HeaderByte(k) /\ call.bytes = 0 /\ call.rem_len \in Nat
      /\ call.len \in 0 .. 3 /\ call.multiplier = Power(call.len) /\ call.multiplier \in Nat
  BY <1>2, <1>3 DEF InLengthOf, Calls
<1> DEFINE rest == BytesFrom(sent)[k + 1]
           left == Tail(buffer)
<1>5. rest \in Seq(Byte)
  BY <1>3, FromType
<1>6. PICK m \in 0 .. sent[k] :
        /\ call.rem_len + call.multiplier * m = sent[k]
        /\ Coming(LengthOnwards(k, sent[k], m, rest), buffer \o wire, closed)
  BY <1>2 DEF InLengthOf
<1> HIDE DEF rest
<1>7. /\ left \in Seq(Byte)
      /\ PacketsOf(buffer \o wire) = PacketsOf(left \o wire)
      /\ m < Base => /\ Head(buffer) = LengthByte(k, m, FALSE)
                     /\ Coming(Bodies(k, sent[k]) \o rest, left \o wire, closed)
      /\ m >= Base => /\ Head(buffer) = LengthByte(k, m % Base, TRUE)
                      /\ Coming(LengthOnwards(k, sent[k], m \div Base, rest), left \o wire, closed)
  BY <1>1, <1>3, <1>5, <1>6, DigitTaken
<1> HIDE DEF left
<1>8. buffer' = left
  BY <1>1 DEF left
<1>9. m \in Nat /\ (m < Base \/ m >= Base)
  BY <1>3, BaseAssumption
<1>10. ASSUME NEW digit, NEW more, Head(buffer) = LengthByte(k, digit, more)
       PROVE  LET c == WithDigit(call, digit) IN
              IF more THEN call' = c /\ UNCHANGED <<pc, result>> ELSE AfterLength(c)
  <2>1. Digits(Head(buffer)) = {digit} /\ TopBits(Head(buffer)) = {more}
    BY <1>10 DEF Digits, TopBits, LengthByte
  <2> QED
    BY <2>1 DEF ReadLength
<1>11. CASE m < Base
  <2> DEFINE c == WithDigit(call, m)
  <2>1. AfterLength(c)
    BY <1>7, <1>10, <1>11
  <2>2. call.rem_len + m * call.multiplier = sent[k]
    BY <1>3, <1>4, <1>6, <1>9, <1>11, Counting
  <2>3. call.multiplier * Base \in Nat
    BY <1>4, BaseAssumption, SMT
  <2>4. /\ c \in Calls /\ c.header = HeaderByte(k) /\ c.bytes = 0 /\ c.rem_len = sent[k]
    BY <1>3, <1>4, <1>9, <2>2, <2>3, DigitCounted
  <2> HIDE DEF c
  <2>5. Coming(Bodies(k, sent[k]) \o BytesFrom(sent)[k + 1], buffer' \o wire, closed)
    BY <1>7, <1>8, <1>11 DEF rest
  <2>6. PacketsOf(buffer' \o wire) = PacketsOf(buffer \o wire) /\ buffer' \in Seq(Byte)
    BY <1>7, <1>8
  <2> QED
    BY <1>1, <1>4, <2>1, <2>4, <2>5, <2>6, LengthEnds
<1>12. CASE m >= Base
  <2> DEFINE digit == m % Base
             q == m \div Base
             c == WithDigit(call, digit)
  <2>1. call' = c /\ pc' = pc /\ result' = result
    BY <1>7, <1>10, <1>12
  <2>2. q \in Nat /\ digit \in Nat /\ q >= 1 /\ q < m
    BY <1>9, <1>12, Division
  <2>3. (call.rem_len + digit * call.multiplier) + (call.multiplier * Base) * q = sent[k]
    BY <1>3, <1>4, <1>6, <1>9, <1>12, Counting, SMTT(30)
  <2>4. Coming(LengthOnwards(k, sent[k], q, rest), left \o wire, closed)
    BY <1>7, <1>12
  <2> HIDE DEF q, digit
  <2>5. call.multiplier * Base = Power(call.len + 1)
    BY <1>4, Powers
  <2>6. call.multiplier * Base \in Nat /\ call.rem_len + digit * call.multiplier \in Nat
    BY <1>4, <2>2, BaseAssumption, SMT
  <2>7. /\ call' \in Calls /\ call'.header = HeaderByte(k) /\ call'.bytes = 0
        /\ call'.len = call.len + 1 /\ call'.multiplier = Power(call.len + 1)
        /\ call'.rem_len = call.rem_len + digit * call.multiplier
    BY <1>3, <1>4, <2>1, <2>2, <2>5, <2>6, DigitCounted
  <2>8. call'.rem_len + call'.multiplier * q = sent[k]
    BY <2>3, <2>5, <2>7
  <2>9. call'.len \in 0 .. 3
    <3>1. CASE call.len = 3
      <4>1. call'.multiplier = Power(4) /\ call'.rem_len \in Nat
        BY <2>6, <2>7, <3>1
      <4>2. q = 0
        BY <1>3, <2>2, <2>8, <4>1, NoFifth
      <4> QED
        BY <2>2, <4>2
    <3>2. CASE call.len # 3
      BY <1>4, <2>7, <3>2
    <3> QED
      BY <3>1, <3>2
  <2>10. Types'
    BY <1>1, <1>7, <1>8, <2>1, <2>7 DEF Types, Calls
  <2>11. InLengthOf(k)'
    <3>1. Coming(LengthOnwards(k, sent'[k], q, BytesFrom(sent')[k + 1]), buffer' \o wire', closed')
      BY <1>1, <1>8, <2>4 DEF rest
    <3>2. q \in 0 .. sent'[k] /\ q > 0
      BY <1>1, <1>3, <2>2
    <3>3. call'.rem_len + call'.multiplier * q = sent'[k]
      BY <1>1, <2>8
    <3> QED
      BY <2>7, <2>9, <3>1, <3>2, <3>3 DEF InLengthOf
  <2>12. Tracked'
    BY <1>1, <2>1, <2>10, <2>11 DEF Tracked
  <2>13. Unread' = Unread
    <3>1. Begun' = Begun
      BY <1>4, <2>1, <2>7 DEF Begun
    <3>2. PacketsOf(buffer' \o wire') = PacketsOf(buffer \o wire)
      BY <1>1, <1>7, <1>8
    <3> QED
      BY <3>1, <3>2 DEF Unread
  <2> QED
    BY <1>1, <2>1, <2>12, <2>13, Stutters DEF Kept
<1> QED
  BY <1>9, <1>11, <1>12

LEMMA ReadBodyKept == ASSUME Tracked, ~ stalled', ReadBody PROVE Kept
<1> DEFINE missing == call.rem_len - call.bytes
           n == IF Len(buffer) < missing THEN Len(buffer) ELSE missing
           c == [call EXCEPT !.bytes = @ + n]
           back == SubSeq(buffer, n + 1, Len(buffer))
<1>0. Types
  BY DEF Tracked
<1>1. /\ Types /\ pc = "body" /\ buffer # << >> /\ buffer' = back
      /\ UNCHANGED <<sent, wire, closed>>
      /\ IF n = missing THEN Returns(Packet(c)) ELSE call' = c /\ UNCHANGED <<pc, result>>
  BY DEF Tracked, ReadBody
<1>2. PICK k \in 1 .. Len(sent) : InBodyOf(k)
  BY <1>1 DEF Tracked
<1>3. /\ k \in Nat /\ k + 1 \in 1 .. Len(sent) + 1 /\ sent \in Seq(Nat) /\ sent[k] \in Nat
      /\ buffer \in Seq(Byte) /\ wire \in Seq(Byte) /\ call \in Calls
  BY <1>0 DEF Types, Calls
<1> DEFINE rest == BytesFrom(sent)[k + 1]
<1>4. /\ call.header = HeaderByte(k) /\ call.bytes < call.rem_len /\ call.rem_len = sent[k]
      /\ Coming(Bodies(k, sent[k] - call.bytes) \o rest, buffer \o wire, closed)
  BY <1>1, <1>2 DEF InBodyOf
<1>5. rest \in Seq(Byte)
  BY <1>3, FromType
<1>6. call.bytes \in Nat /\ Len(buffer) \in Nat \ {0}
  BY <1>1, <1>3, EmptySeq DEF Calls
<1>7. missing \in Nat /\ missing = sent[k] - call.bytes /\ missing > 0
  BY <1>3, <1>4, <1>6
<1>8. n \in Nat /\ n <= missing /\ n <= Len(buffer)
  BY <1>6, <1>7
<1>9. /\ c = [header |-> HeaderByte(k), len |-> call.len, multiplier |-> call.multiplier,
              rem_len |-> call.rem_len, bytes |-> call.bytes + n]
      /\ call.bytes + n \in Nat
      /\ n = missing => call.bytes + n = call.rem_len
      /\ n # missing => call.bytes + n < call.rem_len
      /\ sent[k] - (call.bytes + n) = missing - n
  <2> HIDE DEF rest, n
  <2>1. c = [header |-> HeaderByte(k), len |-> call.len, multiplier |-> call.multiplier,
             rem_len |-> call.rem_len, bytes |-> call.bytes + n]
    <3>1. call \in Calls
      BY <1>3
    <3>2. c = [header |-> call.header, len |-> call.len, multiplier |-> call.multiplier,
               rem_len |-> call.rem_len, bytes |-> call.bytes + n]
      BY <3>1 DEF Calls
    <3> HIDE DEF c
    <3> QED
      BY <1>4, <3>2
  <2>2. /\ call.bytes + n \in Nat
        /\ n = missing => call.bytes + n = call.rem_len
        /\ n # missing => call.bytes + n < call.rem_len
        /\ sent[k] - (call.bytes + n) = missing - n
    BY <1>3, <1>4, <1>6, <1>7, <1>8, SMTT(30)
  <2> QED
    BY <2>1, <2>2
<1> HIDE DEF rest, missing, n, c
<1>10. Coming(Bodies(k, missing) \o rest, buffer \o wire, closed)
  BY <1>4, <1>7
<1>11. /\ back \in Seq(Byte)
       /\ Coming(Bodies(k, missing - n) \o rest, back \o wire, closed)
       /\ PacketsOf(buffer \o wire) = PacketsOf(back \o wire)
  BY <1>3, <1>5, <1>7, <1>8, <1>10, BodiesTaken
<1>12. Begun = <<k>>
  BY <1>1, <1>4 DEF Begun, HeaderByte
<1> HIDE DEF back
<1>13. CASE n = missing
  <2>1. Returns(Packet(c))
    BY <1>1, <1>13
  <2>2. Coming(rest, buffer' \o wire, closed)
    <3>1. missing - n = 0
      BY <1>7, <1>13
    <3>2. Bodies(k, 0) \o rest = rest
      BY <1>3, <1>5, NoBodies
    <3> QED
      BY <1>1, <1>11, <3>1, <3>2
  <2>3. Tracked'
    BY <1>1, <1>11, <2>1, <2>2, ReturnsKept DEF rest
  <2>4. Unread' = PacketsOf(buffer \o wire) /\ PacketsOf(buffer \o wire) \in Seq(Nat)
    <3>1. Begun' = << >> /\ PacketsOf(buffer \o wire) \in Seq(Nat)
      BY <1>1, <2>1, UnreadType DEF Returns, Begun
    <3>2. << >> \o PacketsOf(buffer \o wire) = PacketsOf(buffer \o wire)
      BY <3>1, ConcatEmptySeq
    <3>3. PacketsOf(buffer' \o wire') = PacketsOf(buffer \o wire)
      BY <1>1, <1>11
    <3> QED
      BY <3>1, <3>2, <3>3 DEF Unread
  <2>5. Unread = <<k>> \o Unread' /\ Unread' \in Seq(Nat)
    BY <1>12, <2>4 DEF Unread
  <2>6. result' = [code |-> "packet", of |-> k, whole |-> TRUE]
    <3>1. c.header.kind = "header" /\ c.header.of = k /\ c.rem_len = sent[k] /\ c.bytes = c.rem_len
      BY <1>4, <1>9, <1>13 DEF HeaderByte
    <3>2. IsWhole(c) = TRUE
      BY <3>1 DEF IsWhole
    <3> QED
      BY <2>1, <3>1, <3>2 DEF Returns, Packet
  <2> QED
    BY <1>1, <1>3, <2>3, <2>5, <2>6, Takes DEF Kept
<1>14. CASE n # missing
  <2>1. call' = c /\ pc' = pc /\ result' = result
    BY <1>1, <1>14
  <2>2. c \in Calls
    BY <1>3, <1>4, <1>9 DEF Calls
  <2>3. Types'
    BY <1>1, <1>11, <2>1, <2>2 DEF Types, Calls
  <2>4. InBodyOf(k)'
    <3>1. call'.header = HeaderByte(k) /\ call'.bytes < call'.rem_len /\ call'.rem_len = sent'[k]
      BY <1>1, <1>4, <1>9, <1>14, <2>1
    <3>2. sent'[k] - call'.bytes = missing - n
      BY <1>1, <1>9, <2>1
    <3>3. Coming(Bodies(k, sent'[k] - call'.bytes) \o BytesFrom(sent')[k + 1], buffer' \o wire', closed')
      BY <1>1, <1>11, <3>2 DEF rest
    <3> QED
      BY <3>1, <3>3 DEF InBodyOf
  <2>5. Tracked'
    BY <1>1, <2>1, <2>3, <2>4 DEF Tracked
  <2>6. Unread' = Unread
    <3>1. Begun' = <<k>>
      BY <1>1, <1>9, <2>1 DEF Begun, HeaderByte
    <3> QED
      BY <1>1, <1>11, <1>12, <3>1 DEF Unread
  <2> QED
    BY <1>1, <2>1, <2>5, <2>6, Stutters DEF Kept
<1> QED
  BY <1>13, <1>14

-----------------------------------------------------------------------------
(* The theorems.                                                             *)

LEMMA StepKept == ASSUME IInv, [Next]_vars, ~ stalled' PROVE Kept
<1>1. Tracked
  <2>1. stalled \in BOOLEAN /\ (stalled \/ Tracked)
    BY DEF IInv
  <2>2. ~ stalled
    <3> SUFFICES ASSUME stalled PROVE stalled'
      OBVIOUS
    <3> QED
      BY DEF Next, vars, Arrive, Close, Read, ReadHeader, HeaderTimesOut, HeaderEof, ReadLength,
             LengthFails, ReadBody, BodyFails, TimesOut, AtEof
  <2> QED
    BY <2>1, <2>2
<1>2. CASE UNCHANGED vars
  <2>1. Tracked'
    BY <1>1, <1>2 DEF vars, Tracked, Types, AtHeader, InLengthOf, InBodyOf
  <2>2. Unread' = Unread
    BY <1>2 DEF vars, Unread, Begun
  <2> QED
    BY <1>2, <2>1, <2>2, Stutters DEF Kept, vars
<1> QED
  BY <1>1, <1>2, ArriveKept, CloseKept, ReadHeaderKept, HeaderTimesOutKept, HeaderEofKept,
     ReadLengthKept, LengthFailsKept, ReadBodyKept, BodyFailsKept DEF Next, Read

LEMMA StepIInv == IInv /\ [Next]_vars => IInv'
<1> SUFFICES ASSUME IInv, [Next]_vars PROVE IInv'
  OBVIOUS
<1>1. stalled' \in BOOLEAN
  BY DEF IInv, Next, vars, Arrive, Close, Read, ReadHeader, HeaderTimesOut, HeaderEof, ReadLength,
         LengthFails, ReadBody, BodyFails, TimesOut, AtEof
<1>2. CASE stalled'
  BY <1>1, <1>2 DEF IInv
<1>3. CASE ~ stalled'
  <2>1. Tracked'
    BY <1>3, StepKept DEF Kept
  <2> QED
    BY <1>1, <2>1 DEF IInv
<1> QED
  BY <1>2, <1>3

\* As long as no timeout came inside a packet, readPacket has decoded of the packet it
\* reads what it has taken off the wire, and the rest of the packet comes next.
THEOREM TrackedThroughout == Spec => []IInv
<1>1. Init => IInv
  BY InitTracked
<1>2. IInv /\ [Next]_vars => IInv'
  BY StepIInv
<1> QED
  BY <1>1, <1>2, PTL DEF Spec

LEMMA InSyncStep == IInv => InSync
<1> SUFFICES ASSUME IInv, ~ stalled, pc = "header", buffer \o wire # << >>
             PROVE  Head(buffer \o wire).kind = "header"
  BY DEF InSync
<1>1. Types /\ AtHeader
  BY DEF IInv, Tracked
<1> DEFINE here == buffer \o wire
<1>2. here \in Seq(Byte) /\ sent \in Seq(Nat) /\ here # << >>
  BY <1>1, ConcatProperties DEF Types
<1>3. PICK k \in 1 .. Len(sent) + 1 : Coming(BytesFrom(sent)[k], here, closed)
  BY <1>1 DEF AtHeader
<1>4. here \o << >> = here /\ << >> \in Seq(Byte)
  BY <1>2, ConcatEmptySeq, EmptySeq
<1> HIDE DEF here
<1>5. Coming(BytesFrom(sent)[k], here \o << >>, closed)
  BY <1>3, <1>4
<1>6. Head(here) = HeaderByte(k)
  BY <1>2, <1>4, <1>5, HeaderTaken
<1> QED
  BY <1>6 DEF here, HeaderByte

\* As long as no timeout came inside a packet, what readPacket reads first is the header
\* of a packet (buffer and wire are all bytes that are left).
THEOREM Synchronised == Spec => []InSync
<1>1. IInv => InSync
  BY InSyncStep
<1> QED
  BY <1>1, TrackedThroughout, PTL

\* A packet that readPacket returns is whole, except one: the connection ended inside
\* its length.
THEOREM OnlyLengthCut == Spec => WholeUnlessCutInLength
<1>1. IInv /\ [Next]_vars => [WholeStep]_vars
  <2> SUFFICES ASSUME IInv, [Next]_vars, ~ stalled' PROVE WholeStep
    BY DEF WholeStep
  <2> QED
    BY StepKept DEF Kept
<1> QED
  BY <1>1, TrackedThroughout, PTL DEF Spec, WholeUnlessCutInLength, WholeStep

LEMMA StreamInit == Init => Stream!Init
<1> SUFFICES ASSUME Init PROVE Stream!Init
  OBVIOUS
<1>1. PICK n \in 0 .. MaxPackets : sent \in [1 .. n -> Sizes]
  BY DEF Init
<1>2. sent \in Seq(Nat) /\ Len(sent) = n
  <2>1. sent \in [1 .. n -> Nat] /\ n \in Nat
    <3>1. Sizes \subseteq Nat /\ n \in Nat
      BY SizesFit
    <3> QED
      BY <1>1, <3>1
  <2> QED
    BY <2>1
<1>3. IInv /\ ~ stalled
  BY InitTracked DEF Init
<1>4. Types
  BY <1>3 DEF IInv, Tracked
<1>5. PacketsOf(buffer \o wire) = [k \in 1 .. n |-> k]
  <2>1. buffer = << >> /\ wire = AllBytes(sent) /\ wire \in Seq(Byte)
    BY <1>4 DEF Init, Types
  <2>2. buffer \o wire = AllBytes(sent)
    BY <2>1, ConcatEmptySeq
  <2> QED
    BY <1>2, <2>2, PacketsAtFirst
<1>6. Unread = [k \in 1 .. n |-> k]
  <2>1. Begun = << >>
    BY DEF Init, Begun
  <2>2. PacketsOf(buffer \o wire) \in Seq(Nat)
    BY <1>4, UnreadType
  <2>3. << >> \o PacketsOf(buffer \o wire) = PacketsOf(buffer \o wire)
    BY <2>2, ConcatEmptySeq
  <2> QED
    BY <1>5, <2>1, <2>3 DEF Unread
<1> QED
  BY <1>6 DEF Stream!Init, Stream!NoResult, Init, Unread, Begun

\* Until a timeout comes inside a packet, readPacket gives the packets of PacketStream:
\* whole, once and in the order they were sent, but for the last one of a connection
\* that ends.
THEOREM ImplementsPacketStream == Spec => IsPacketStream
<1>1. IInv /\ [Next]_vars => [stalled' \/ StreamStep]_vars
  <2> SUFFICES ASSUME IInv, [Next]_vars, ~ stalled' PROVE StreamStep
    OBVIOUS
  <2> QED
    BY StepKept DEF Kept
<1> QED
  BY <1>1, StreamInit, TrackedThroughout, PTL DEF Spec, IsPacketStream, StreamStep
=============================================================================
