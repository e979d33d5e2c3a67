--------------------------- MODULE AirVantage_proofs ---------------------------
(***************************************************************************)
(* What holds of commands and their acknowledgements for any number of     *)
(* handlers and messages, however deep the deliveries are nested.  The     *)
(* invariant speaks of the frames of the stack: s is the stack, n its      *)
(* depth, h the handlers and k their number, r what the buffer holds.      *)
(***************************************************************************)
EXTENDS AirVantage, SequenceTheorems, TLAPS

\* An AirVantage handler is installed in a slot before j.
AvBefore(h, j) == \E i \in 1..(j - 1) : h[i] = "av"

\* Below the top, every frame is in the middle of a delivery and behind an AirVantage
\* handler; a delivery has lost its message only behind one, to a later message.
FrameShape(s, n, h, k, r, i) ==
    /\ i > 1 => s[i].op = "ack"
    /\ s[i].op = "ack" /\ QoS = 0 => s[i].pc = "send"
    /\ i < n => s[i].pc = "deliver" /\ AvBefore(h, s[i].slot)
    /\ s[i].pc = "deliver" =>
          /\ s[i].slot <= k + 1
          /\ r # s[i].own => QoS = 1 /\ (r = 0 \/ r > s[i].own) /\ AvBefore(h, s[i].slot)

Shape(s, n, h, k, r) == \A i \in 1..n : FrameShape(s, n, h, k, r, i)

\* A command that an AirVantage handler has to acknowledge: the acknowledgement has
\* returned (A), is the call on top of its delivery, or is to come.  U are the
\* commands that were read before there was such a handler.
Claimed(m, U) == m \in Commands /\ m \notin U

FrameAcks(s, n, h, k, A, U, i) ==
    Claimed(s[i].own, U) =>
        /\ s[i].pc = "deliver" =>
              /\ AvBefore(h, k + 1)
              /\ AvBefore(h, s[i].slot) =>
                    s[i].own \in A \/ (i < n /\ s[i + 1].uid = s[i].own)
        /\ s[i].pc = "puback" => s[i].own \in A

Acks(s, n, h, k, A, U) == \A i \in 1..n : FrameAcks(s, n, h, k, A, U, i)

Frames(s, n) == \A i \in 1..n : s[i] \in FrameType

-------------------------------------------------------------------------------
(* Steps that start no call and no delivery, and end one call at most.     *)

\* What frame f may become in such a step.
Follows(g, f, k) ==
    /\ g.op = f.op /\ g.id = f.id /\ g.uid = f.uid /\ g.own = f.own /\ g.slot = f.slot
    /\ \/ g.pc = f.pc
       \/ g.pc = "wait" /\ f.pc # "send"
       \/ g.pc = "wait" /\ f.pc = "send" /\ (f.op # "subscribe" => QoS = 1)
       \/ g.pc = "puback" /\ f.pc = "deliver" /\ f.slot > k

Settles(s, n, t, m, k) ==
    /\ n \in Nat \ {0} /\ m \in {n - 1, n} /\ Frames(s, n)
    /\ \A i \in 1..m : /\ Follows(t[i], s[i], k)
                       /\ i # n => t[i].pc = s[i].pc

LEMMA SettledFrame ==
    ASSUME NEW s, NEW n, NEW t, NEW m, NEW k, Settles(s, n, t, m, k), NEW i \in 1..m
    PROVE  /\ i \in 1..n /\ i \in Nat /\ n \in Nat /\ m \in Nat /\ s[i] \in FrameType
           /\ Follows(t[i], s[i], k) /\ (i # n => t[i].pc = s[i].pc)
           /\ (i < m => i < n /\ i + 1 \in 1..m)
           /\ (i < n /\ ~(i < m) => m = n - 1 /\ i = m /\ i + 1 = n)
  BY DEF Settles, Frames

LEMMA SettlesShape ==
    ASSUME NEW s, NEW n, NEW t, NEW m, NEW h, NEW k \in Nat, NEW r, NEW q,
           Settles(s, n, t, m, k), Shape(s, n, h, k, r),
           q = r \/ (q = 0 /\ s[n].pc = "wait")
    PROVE  Shape(t, m, h, k, q)
  <1> SUFFICES ASSUME NEW i \in 1..m PROVE FrameShape(t, m, h, k, q, i)
    BY DEF Shape
  <1>1. /\ i \in 1..n /\ i \in Nat /\ n \in Nat /\ m \in Nat
        /\ Follows(t[i], s[i], k) /\ (i # n => t[i].pc = s[i].pc)
        /\ (i < m => i < n)
    BY SettledFrame
  <1>2. FrameShape(s, n, h, k, r, i)
    BY <1>1 DEF Shape
  <1>3. /\ i > 1 => t[i].op = "ack"
        /\ t[i].op = "ack" /\ QoS = 0 => t[i].pc = "send"
        /\ i < m => t[i].pc = "deliver" /\ AvBefore(h, t[i].slot)
    <2>1. t[i].op = s[i].op /\ t[i].slot = s[i].slot
      BY <1>1 DEF Follows
    <2>2. i > 1 => t[i].op = "ack"
      BY <1>2, <2>1 DEF FrameShape
    <2>3. i < m => t[i].pc = "deliver" /\ AvBefore(h, t[i].slot)
      BY <1>1, <1>2, <2>1 DEF FrameShape
    <2>4. ASSUME t[i].op = "ack", QoS = 0 PROVE t[i].pc = "send"
      BY <1>1, <1>2, <2>1, <2>4 DEF FrameShape, Follows
    <2>5. QED
      BY <2>2, <2>3, <2>4
  <1>4. ASSUME t[i].pc = "deliver"
        PROVE  /\ t[i].slot <= k + 1
               /\ q # t[i].own => QoS = 1 /\ (q = 0 \/ q > t[i].own) /\ AvBefore(h, t[i].slot)
    <2>1. s[i].pc = "deliver" /\ t[i].slot = s[i].slot /\ t[i].own = s[i].own
      BY <1>1, <1>4 DEF Follows
    <2>2. CASE q = r
      BY <1>2, <2>1, <2>2 DEF FrameShape
    <2>3. CASE q = 0 /\ s[n].pc = "wait"
      <3>1. i # n
        BY <2>1, <2>3
      <3>2. i < n /\ n > 1 /\ n \in 1..n
        BY <1>1, <3>1
      <3>3. AvBefore(h, s[i].slot)
        BY <1>2, <3>2 DEF FrameShape
      <3>4. FrameShape(s, n, h, k, r, n)
        BY <3>2 DEF Shape
      <3>5. QoS # 0
        BY <2>3, <3>2, <3>4 DEF FrameShape
      <3>6. QED
        BY <1>2, <2>1, <2>3, <3>3, <3>5, QoSAssumption DEF FrameShape
    <2>4. QED
      BY <2>2, <2>3
  <1>5. QED
    BY <1>3, <1>4 DEF FrameShape

LEMMA SettlesAcks ==
    ASSUME NEW s, NEW n, NEW t, NEW m, NEW h, NEW k \in Nat, NEW r,
           NEW A, NEW B, NEW U, NEW V,
           Settles(s, n, t, m, k), Shape(s, n, h, k, r), Acks(s, n, h, k, A, U),
           A \subseteq B, U \subseteq V,
           m # n /\ s[n].op = "ack" => s[n].uid \in B
    PROVE  Acks(t, m, h, k, B, V)
  <1> SUFFICES ASSUME NEW i \in 1..m, Claimed(t[i].own, V)
               PROVE  /\ t[i].pc = "deliver" =>
                            /\ AvBefore(h, k + 1)
                            /\ AvBefore(h, t[i].slot) =>
                                  t[i].own \in B \/ (i < m /\ t[i + 1].uid = t[i].own)
                      /\ t[i].pc = "puback" => t[i].own \in B
    BY DEF Acks, FrameAcks
  <1>1. /\ i \in 1..n /\ i \in Nat /\ n \in Nat /\ m \in Nat /\ s[i] \in FrameType
        /\ Follows(t[i], s[i], k) /\ (i # n => t[i].pc = s[i].pc)
        /\ (i < m => i < n /\ i + 1 \in 1..m)
        /\ (i < n /\ ~(i < m) => m = n - 1 /\ i = m /\ i + 1 = n)
    BY SettledFrame
  <1>2. FrameAcks(s, n, h, k, A, U, i)
    BY <1>1 DEF Acks
  <1>3. t[i].own = s[i].own /\ t[i].slot = s[i].slot
    BY <1>1 DEF Follows
  <1>4. Claimed(s[i].own, U)
    BY <1>3 DEF Claimed
  <1>5. ASSUME s[i].pc = "deliver", AvBefore(h, s[i].slot)
        PROVE  s[i].own \in B \/ (i < m /\ t[i + 1].uid = s[i].own)
    <2>1. s[i].own \in A \/ (i < n /\ s[i + 1].uid = s[i].own)
      BY <1>2, <1>4, <1>5 DEF FrameAcks
    <2>2. CASE i < m /\ s[i + 1].uid = s[i].own
      <3>1. Follows(t[i + 1], s[i + 1], k)
        BY <1>1, <2>2, SettledFrame
      <3>2. QED
        BY <2>2, <3>1 DEF Follows
    <2>3. CASE i < n /\ ~(i < m) /\ s[i + 1].uid = s[i].own
      <3>1. m # n /\ i + 1 = n /\ n > 1 /\ n \in 1..n
        BY <1>1, <2>3
      <3>2. s[n].op = "ack"
        BY <3>1 DEF Shape, FrameShape
      <3>3. QED
        BY <2>3, <3>1, <3>2
    <2>4. QED
      BY <1>1, <2>1, <2>2, <2>3
  <1>6. CASE t[i].pc = "deliver"
    <2>1. s[i].pc = "deliver"
      BY <1>1, <1>6 DEF Follows
    <2>2. AvBefore(h, k + 1)
      BY <1>2, <1>4, <2>1 DEF FrameAcks
    <2>3. QED
      BY <1>3, <1>5, <1>6, <2>1, <2>2
  <1>7. CASE t[i].pc = "puback"
    <2>1. CASE s[i].pc = "puback"
      BY <1>2, <1>3, <1>4, <1>7, <2>1 DEF FrameAcks
    <2>2. CASE s[i].pc # "puback"
      <3>1. s[i].pc = "deliver" /\ s[i].slot > k /\ i = n
        BY <1>1, <1>7, <2>2 DEF Follows
      <3>2. AvBefore(h, k + 1)
        BY <1>2, <1>4, <3>1 DEF FrameAcks
      <3>3. s[i].slot \in Nat
        BY <1>1 DEF FrameType
      <3>4. AvBefore(h, s[i].slot)
        BY <3>1, <3>2, <3>3 DEF AvBefore
      <3>5. s[i].own \in A
        BY <1>1, <1>2, <1>4, <3>1, <3>4 DEF FrameAcks
      <3>6. QED
        BY <1>3, <1>7, <3>5
    <2>3. QED
      BY <2>1, <2>2
  <1>8. QED
    BY <1>6, <1>7

-------------------------------------------------------------------------------
(* A message is read, and a handler is called.                             *)

\* In s the frame on top becomes f.
Retops(s, n, t, f) == t[n] = f /\ \A i \in 1..(n - 1) : t[i] = s[i]

LEMMA ReadShape ==
    ASSUME NEW s, NEW n \in Nat \ {0}, NEW t, NEW f, NEW h, NEW k \in Nat, NEW r, NEW q \in Nat,
           Retops(s, n, t, f), Shape(s, n, h, k, r), s[n].pc = "wait",
           f.op = s[n].op, f.own = q, f.slot = 1,
           \A i \in 1..n : s[i].own < q
    PROVE  Shape(t, n, h, k, q)
  <1> SUFFICES ASSUME NEW i \in 1..n PROVE FrameShape(t, n, h, k, q, i)
    BY DEF Shape
  <1>1. FrameShape(s, n, h, k, r, i) /\ FrameShape(s, n, h, k, r, n)
    BY DEF Shape
  <1>2. s[n].op = "ack" => QoS = 1
    BY <1>1, QoSAssumption DEF FrameShape
  <1>3. CASE i = n
    BY <1>1, <1>2, <1>3 DEF FrameShape, Retops
  <1>4. CASE i < n
    <2>1. t[i] = s[i] /\ n > 1
      BY <1>4 DEF Retops
    <2>2. QoS = 1
      BY <1>1, <1>2, <2>1 DEF FrameShape
    <2>3. q > s[i].own \/ ~(s[i].own < q)
      OBVIOUS
    <2>4. s[i].own < q
      OBVIOUS
    <2>5. /\ i > 1 => s[i].op = "ack"
          /\ s[i].pc = "deliver" /\ AvBefore(h, s[i].slot) /\ s[i].slot <= k + 1
      BY <1>1, <1>4 DEF FrameShape
    <2>6. QED
      BY <1>4, <2>1, <2>2, <2>4, <2>5 DEF FrameShape
  <1>5. QED
    BY <1>3, <1>4

LEMMA ReadAcks ==
    ASSUME NEW s, NEW n \in Nat \ {0}, NEW t, NEW f, NEW h, NEW k \in Nat, NEW q,
           NEW A, NEW U, NEW V,
           Retops(s, n, t, f), Acks(s, n, h, k, A, U), U \subseteq V,
           f.pc = "deliver", f.uid = s[n].uid, f.own = q, f.slot = 1,
           AvBefore(h, k + 1) \/ q \in V
    PROVE  Acks(t, n, h, k, A, V)
  <1> SUFFICES ASSUME NEW i \in 1..n PROVE FrameAcks(t, n, h, k, A, V, i)
    BY DEF Acks
  <1>1. CASE i = n
    <2>1. ~ AvBefore(h, 1)
      BY DEF AvBefore
    <2>2. t[i] = f
      BY <1>1 DEF Retops
    <2>3. QED
      BY <2>1, <2>2 DEF FrameAcks, Claimed
  <1>2. CASE i < n
    <2>1. t[i] = s[i] /\ FrameAcks(s, n, h, k, A, U, i)
      BY <1>2 DEF Retops, Acks
    <2>2. i + 1 < n \/ i + 1 = n
      BY <1>2
    <2>3. t[i + 1].uid = s[i + 1].uid
      BY <2>2 DEF Retops
    <2>4. QED
      BY <2>1, <2>3 DEF FrameAcks, Claimed
  <1>3. QED
    BY <1>1, <1>2

\* The next slot of the message on top, and perhaps a frame on top of it.
Calls(s, n, t, m, h, k) ==
    /\ s[n] \in FrameType /\ s[n].pc = "deliver" /\ s[n].slot <= k
    /\ Retops(s, n, t, [s[n] EXCEPT !.slot = @ + 1])
    /\ m = n \/ (m = n + 1 /\ h[s[n].slot] = "av" /\ t[m].op = "ack" /\ t[m].pc = "send")

LEMMA CalledTop ==
    ASSUME NEW s, NEW n, NEW t, NEW m, NEW h, NEW k, Calls(s, n, t, m, h, k)
    PROVE  /\ t[n].op = s[n].op /\ t[n].pc = "deliver" /\ t[n].own = s[n].own
           /\ t[n].slot = s[n].slot + 1 /\ s[n].slot \in Nat \ {0} /\ s[n].slot <= k
  <1>1. t[n] = [s[n] EXCEPT !.slot = @ + 1]
    BY DEF Calls, Retops
  <1>2. QED
    BY <1>1 DEF Calls, FrameType

LEMMA SlotCalled ==
    ASSUME NEW h, NEW j \in Nat \ {0}
    PROVE  AvBefore(h, j + 1) <=> AvBefore(h, j) \/ h[j] = "av"
  BY DEF AvBefore

LEMMA CallShape ==
    ASSUME NEW s, NEW n \in Nat \ {0}, NEW t, NEW m, NEW h, NEW k \in Nat, NEW r,
           Calls(s, n, t, m, h, k), Shape(s, n, h, k, r)
    PROVE  Shape(t, m, h, k, r)
  <1> SUFFICES ASSUME NEW i \in 1..m PROVE FrameShape(t, m, h, k, r, i)
    BY DEF Shape
  <1>1. m \in Nat /\ (m = n \/ m = n + 1)
    BY DEF Calls
  <1>2. CASE i = n
    <2>1. FrameShape(s, n, h, k, r, n)
      BY DEF Shape
    <2>2. AvBefore(h, s[n].slot) => AvBefore(h, s[n].slot + 1)
      BY CalledTop, SlotCalled
    <2>3. n < m => AvBefore(h, s[n].slot + 1)
      BY <1>1, CalledTop, SlotCalled DEF Calls
    <2>4. QoS # 0 \/ s[n].op # "ack"
      BY <2>1 DEF FrameShape, Calls
    <2>5. /\ t[n].op = s[n].op /\ t[n].pc = "deliver" /\ t[n].own = s[n].own
          /\ t[n].slot = s[n].slot + 1 /\ s[n].slot + 1 <= k + 1
      BY CalledTop
    <2>6. n > 1 => s[n].op = "ack"
      BY <2>1 DEF FrameShape
    <2>7. r # s[n].own => QoS = 1 /\ (r = 0 \/ r > s[n].own) /\ AvBefore(h, s[n].slot)
      BY <2>1 DEF FrameShape, Calls
    <2>8. FrameShape(t, m, h, k, r, n)
      BY <2>2, <2>3, <2>4, <2>5, <2>6, <2>7 DEF FrameShape
    <2>9. QED
      BY <1>2, <2>8
  <1>3. CASE i < n
    <2>1. t[i] = s[i] /\ FrameShape(s, n, h, k, r, i)
      BY <1>1, <1>3 DEF Shape, Calls, Retops
    <2>2. QED
      BY <1>3, <2>1 DEF FrameShape
  <1>4. CASE i = n + 1
    <2>1. t[i].op = "ack" /\ t[i].pc = "send" /\ ~(i < m)
      BY <1>1, <1>4 DEF Calls
    <2>2. QED
      BY <2>1 DEF FrameShape
  <1>5. QED
    BY <1>1, <1>2, <1>3, <1>4

\* x is what the handler finds, d whether it acknowledges it.
LEMMA CallAcks ==
    ASSUME NEW s, NEW n \in Nat \ {0}, NEW t, NEW m, NEW h, NEW k \in Nat, NEW r,
           NEW A, NEW B, NEW U, NEW x,
           Calls(s, n, t, m, h, k), Shape(s, n, h, k, r), Acks(s, n, h, k, A, U),
           A \subseteq B, x = s[n].own \/ r # s[n].own,
           h[s[n].slot] = "av" /\ x \in Commands =>
               x \in B \/ (m = n + 1 /\ t[m].uid = x),
           m = n + 1 => t[m].own = 0
    PROVE  Acks(t, m, h, k, B, U)
  <1> SUFFICES ASSUME NEW i \in 1..m PROVE FrameAcks(t, m, h, k, B, U, i)
    BY DEF Acks
  <1>1. m \in Nat /\ (m = n \/ m = n + 1)
    BY DEF Calls
  <1>2. CASE i = n
    <2>1. FrameAcks(s, n, h, k, A, U, n) /\ FrameShape(s, n, h, k, r, n)
      BY DEF Acks, Shape
    <2>2. ASSUME Claimed(s[n].own, U), AvBefore(h, s[n].slot)
          PROVE  s[n].own \in B
      BY <2>1, <2>2, CalledTop DEF FrameAcks, Calls
    <2>3. ASSUME Claimed(s[n].own, U), h[s[n].slot] = "av"
          PROVE  s[n].own \in B \/ (n < m /\ t[n + 1].uid = s[n].own)
      <3>1. CASE x = s[n].own
        BY <1>1, <2>3, <3>1 DEF Claimed
      <3>2. CASE r # s[n].own
        <4>1. AvBefore(h, s[n].slot)
          BY <2>1, <3>2 DEF FrameShape, Calls
        <4>2. QED
          BY <2>2, <2>3, <4>1
      <3>3. QED
        BY <3>1, <3>2
    <2>4. Claimed(s[n].own, U) => AvBefore(h, k + 1)
      BY <2>1 DEF FrameAcks, Calls
    <2>5. AvBefore(h, s[n].slot + 1) => AvBefore(h, s[n].slot) \/ h[s[n].slot] = "av"
      BY CalledTop, SlotCalled
    <2>6. QED
      BY <1>2, <2>2, <2>3, <2>4, <2>5, CalledTop DEF FrameAcks
  <1>3. CASE i < n
    <2>1. t[i] = s[i] /\ FrameAcks(s, n, h, k, A, U, i)
      BY <1>1, <1>3 DEF Acks, Calls, Retops
    <2>2. i + 1 < n \/ i + 1 = n
      BY <1>3
    <2>3. t[i + 1].uid = s[i + 1].uid
      <3>1. CASE i + 1 < n
        BY <3>1, <1>1, <1>3 DEF Calls, Retops
      <3>2. CASE i + 1 = n
        <4>1. t[n] = [s[n] EXCEPT !.slot = @ + 1]
          BY DEF Calls, Retops
        <4>2. t[n].uid = s[n].uid
          BY <4>1 DEF Calls, FrameType
        <4>3. QED
          BY <3>2, <4>2
      <3>3. QED
        BY <2>2, <3>1, <3>2
    <2>4. QED
      BY <1>1, <1>3, <2>1, <2>3 DEF FrameAcks
  <1>4. CASE i = n + 1
    <2>1. t[i].own = 0
      BY <1>1, <1>4
    <2>2. 0 \notin Commands
      BY CommandAssumption, BoundAssumption
    <2>3. QED
      BY <2>1, <2>2 DEF FrameAcks, Claimed
  <1>5. QED
    BY <1>1, <1>2, <1>3, <1>4

-------------------------------------------------------------------------------
(* Order: what is still to be read is later than all that was.  H are the  *)
(* l entries of the log of the handlers, c the packets on their way.       *)

Later(s, n, r, H, l, b) ==
    /\ r < b
    /\ \A i \in 1..n : s[i].own < b
    /\ \A i \in 1..l : H[i].seen < b

\* The messages on their way are in order, the last published at their end.
InOrder(c, e, p) ==
    \A j \in 1..e : c[j].type = "PUBLISH" =>
        /\ c[j].id <= p
        /\ \A i \in 1..e : i < j /\ c[i].type = "PUBLISH" => c[i].id < c[j].id

\* A message that is new to its first handler is later than all that were seen.
NewOnTop(s, n, H, l) ==
    n > 0 /\ s[n].pc = "deliver" /\ s[n].slot = 1 => \A i \in 1..l : H[i].seen < s[n].own

Order(s, n, r, H, l, c, e, p) ==
    /\ Later(s, n, r, H, l, p + 1)
    /\ \A j \in 1..e : c[j].type = "PUBLISH" => Later(s, n, r, H, l, c[j].id)
    /\ InOrder(c, e, p)
    /\ NewOnTop(s, n, H, l)

LEMMA SettlesLater ==
    ASSUME NEW s, NEW n, NEW t, NEW m, NEW k, NEW r, NEW q, NEW H, NEW l, NEW b \in Nat \ {0},
           Settles(s, n, t, m, k), q = r \/ q = 0, Later(s, n, r, H, l, b)
    PROVE  Later(t, m, q, H, l, b)
  <1>1. ASSUME NEW i \in 1..m PROVE t[i].own < b
    BY SettledFrame DEF Later, Follows
  <1>2. q < b
    BY DEF Later
  <1>3. QED
    BY <1>1, <1>2 DEF Later

LEMMA SettlesNewOnTop ==
    ASSUME NEW s, NEW n, NEW t, NEW m, NEW h, NEW k \in Nat, NEW r, NEW H, NEW l,
           Settles(s, n, t, m, k), Shape(s, n, h, k, r), NewOnTop(s, n, H, l)
    PROVE  NewOnTop(t, m, H, l)
  <1> SUFFICES ASSUME m > 0, t[m].pc = "deliver", t[m].slot = 1
               PROVE  \A i \in 1..l : H[i].seen < t[m].own
    BY DEF NewOnTop
  <1>1. n \in Nat \ {0} /\ m \in Nat /\ m \in 1..m
    BY DEF Settles
  <1>2. m \in 1..n /\ Follows(t[m], s[m], k)
    BY <1>1, SettledFrame
  <1>3. s[m].pc = "deliver" /\ s[m].slot = 1 /\ s[m].own = t[m].own
    BY <1>2 DEF Follows
  <1>4. m = n
    <2>1. ~ AvBefore(h, 1)
      BY DEF AvBefore
    <2>2. ~(m < n)
      BY <1>2, <1>3, <2>1 DEF Shape, FrameShape
    <2>3. QED
      BY <1>1, <1>2, <2>2
  <1>5. QED
    BY <1>1, <1>3, <1>4 DEF NewOnTop

\* Nothing came, or the first packet on its way was read.
Moves(c, e, d, g) ==
    /\ e \in Nat
    /\ \/ g = e /\ \A j \in 1..e : d[j] = c[j]
       \/ e > 0 /\ g = e - 1 /\ \A j \in 1..g : d[j] = c[j + 1]

LEMMA StillToCome ==
    ASSUME NEW c, NEW e, NEW d, NEW g, Moves(c, e, d, g), NEW j \in 1..g
    PROVE  \E i \in 1..e : d[j] = c[i]
  BY DEF Moves

LEMMA InOrderKept ==
    ASSUME NEW c, NEW e, NEW d, NEW g, NEW p, Moves(c, e, d, g), InOrder(c, e, p)
    PROVE  InOrder(d, g, p)
  <1>1. CASE g = e /\ \A j \in 1..e : d[j] = c[j]
    BY <1>1 DEF InOrder
  <1>2. CASE e > 0 /\ g = e - 1 /\ \A j \in 1..g : d[j] = c[j + 1]
    <2> SUFFICES ASSUME NEW j \in 1..g, d[j].type = "PUBLISH"
                 PROVE  /\ d[j].id <= p
                        /\ \A i \in 1..g : i < j /\ d[i].type = "PUBLISH" => d[i].id < d[j].id
      BY DEF InOrder
    <2>1. e \in Nat /\ j + 1 \in 1..e /\ d[j] = c[j + 1]
      BY <1>2 DEF Moves
    <2>2. d[j].id <= p
      BY <2>1 DEF InOrder
    <2>3. ASSUME NEW i \in 1..g, i < j, d[i].type = "PUBLISH" PROVE d[i].id < d[j].id
      <3>1. i + 1 \in 1..e /\ i + 1 < j + 1 /\ d[i] = c[i + 1]
        BY <1>2, <2>1, <2>3
      <3>2. QED
        BY <2>1, <2>3, <3>1 DEF InOrder
    <2>4. QED
      BY <2>2, <2>3
  <1>3. QED
    BY <1>1, <1>2 DEF Moves

Types(c, e) == \A j \in 1..e : c[j] \in BrokerPacket

LEMMA SettlesOrder ==
    ASSUME NEW s, NEW n, NEW t, NEW m, NEW h, NEW k \in Nat, NEW r \in Nat, NEW q, NEW H, NEW l,
           NEW c, NEW e, NEW d, NEW g, NEW p \in Nat,
           Settles(s, n, t, m, k), Shape(s, n, h, k, r), q = r \/ q = 0,
           Order(s, n, r, H, l, c, e, p), Types(c, e), Moves(c, e, d, g)
    PROVE  Order(t, m, q, H, l, d, g, p)
  <1>1. Later(t, m, q, H, l, p + 1)
    <2>1. Later(s, n, r, H, l, p + 1) /\ p + 1 \in Nat \ {0}
      BY DEF Order
    <2>2. QED
      BY <2>1, SettlesLater
  <1>2. ASSUME NEW j \in 1..g, d[j].type = "PUBLISH" PROVE Later(t, m, q, H, l, d[j].id)
    <2>1. PICK i \in 1..e : d[j] = c[i]
      BY StillToCome
    <2>2. Later(s, n, r, H, l, c[i].id) /\ c[i].id \in Nat
      BY <1>2, <2>1 DEF Order, Types, BrokerPacket
    <2>3. c[i].id # 0
      BY <2>2 DEF Later
    <2>4. QED
      BY <2>1, <2>2, <2>3, SettlesLater
  <1>3. InOrder(d, g, p)
    BY InOrderKept DEF Order
  <1>4. NewOnTop(t, m, H, l)
    BY SettlesNewOnTop DEF Order
  <1>5. QED
    BY <1>1, <1>2, <1>3, <1>4 DEF Order

\* The first message on its way is read into the frame on top.
LEMMA ReadOrder ==
    ASSUME NEW s, NEW n \in Nat \ {0}, NEW t, NEW f, NEW r, NEW q, NEW H, NEW l,
           NEW c, NEW e \in Nat \ {0}, NEW d, NEW p \in Nat,
           Retops(s, n, t, f), f.own = q, q = c[1].id, c[1].type = "PUBLISH",
           Order(s, n, r, H, l, c, e, p), Types(c, e),
           \A j \in 1..(e - 1) : d[j] = c[j + 1],
           \A i \in 1..n : s[i].own \in Nat, r \in Nat, \A i \in 1..l : H[i].seen \in Nat
    PROVE  Order(t, n, q, H, l, d, e - 1, p)
  <1>1. q \in Nat /\ q <= p /\ Later(s, n, r, H, l, q)
    BY DEF Order, InOrder, Types, BrokerPacket
  <1>2. ASSUME NEW b \in Nat, q < b PROVE Later(t, n, q, H, l, b)
    <2>1. Later(s, n, r, H, l, b)
      <3>1. ASSUME NEW i \in 1..n PROVE s[i].own < b
        BY <1>1, <1>2 DEF Later
      <3>2. ASSUME NEW i \in 1..l PROVE H[i].seen < b
        BY <1>1, <1>2 DEF Later
      <3>3. r < b
        BY <1>1, <1>2 DEF Later
      <3>4. QED
        BY <3>1, <3>2, <3>3 DEF Later
    <2>2. ASSUME NEW i \in 1..n PROVE t[i].own < b
      BY <1>2, <2>1 DEF Later, Retops
    <2>3. QED
      BY <1>2, <2>1, <2>2 DEF Later
  <1>3. Later(t, n, q, H, l, p + 1)
    BY <1>1, <1>2
  <1>4. ASSUME NEW j \in 1..(e - 1), d[j].type = "PUBLISH" PROVE Later(t, n, q, H, l, d[j].id)
    <2>1. j + 1 \in 1..e /\ 1 \in 1..e /\ 1 < j + 1 /\ d[j] = c[j + 1]
      OBVIOUS
    <2>2. q < d[j].id
      BY <1>4, <2>1 DEF Order, InOrder
    <2>3. d[j].id \in Nat
      BY <2>1 DEF Types, BrokerPacket
    <2>4. QED
      BY <1>2, <2>2, <2>3
  <1>5. InOrder(d, e - 1, p)
    <2>1. Moves(c, e, d, e - 1)
      BY DEF Moves
    <2>2. QED
      BY <2>1, InOrderKept DEF Order
  <1>6. NewOnTop(t, n, H, l)
    BY <1>1 DEF NewOnTop, Later, Retops
  <1>7. QED
    BY <1>3, <1>4, <1>5, <1>6 DEF Order

\* A handler is called: what it found, if anything, ends the log.
LEMMA CallOrder ==
    ASSUME NEW s, NEW n \in Nat \ {0}, NEW t, NEW m, NEW h, NEW k \in Nat, NEW r \in Nat,
           NEW H, NEW l \in Nat, NEW G, NEW g, NEW c, NEW e, NEW p \in Nat,
           Calls(s, n, t, m, h, k), Order(s, n, r, H, l, c, e, p), Types(c, e),
           m = n + 1 => t[m].own = 0,
           \A i \in 1..l : G[i] = H[i],
           g = l \/ (g = l + 1 /\ G[g].seen = r)
    PROVE  Order(t, m, r, G, g, c, e, p)
  <1>1. m \in Nat /\ (m = n \/ m = n + 1)
    BY DEF Calls
  <1>2. ASSUME NEW b \in Nat, b > 0, Later(s, n, r, H, l, b) PROVE Later(t, m, r, G, g, b)
    <2>1. ASSUME NEW i \in 1..m PROVE t[i].own < b
      <3>1. CASE i = n
        BY <1>2, <3>1, CalledTop DEF Later
      <3>2. CASE i < n
        BY <1>1, <1>2, <3>2 DEF Later, Calls, Retops
      <3>3. CASE i = n + 1
        BY <1>1, <1>2, <3>3
      <3>4. QED
        BY <1>1, <3>1, <3>2, <3>3
    <2>2. ASSUME NEW i \in 1..g PROVE G[i].seen < b
      <3>1. CASE i <= l
        BY <1>2, <3>1 DEF Later
      <3>2. CASE i = l + 1
        BY <1>2, <3>2 DEF Later
      <3>3. QED
        BY <3>1, <3>2
    <2>3. QED
      BY <1>2, <2>1, <2>2 DEF Later
  <1>3. Later(t, m, r, G, g, p + 1)
    BY <1>2 DEF Order
  <1>4. ASSUME NEW j \in 1..e, c[j].type = "PUBLISH" PROVE Later(t, m, r, G, g, c[j].id)
    <2>1. Later(s, n, r, H, l, c[j].id) /\ c[j].id \in Nat
      BY <1>4 DEF Order, Types, BrokerPacket
    <2>2. c[j].id > 0
      BY <2>1 DEF Later
    <2>3. QED
      BY <1>2, <2>1, <2>2
  <1>5. NewOnTop(t, m, G, g)
    <2>1. CASE m = n
      BY <2>1, CalledTop DEF NewOnTop
    <2>2. CASE m = n + 1
      BY <2>2 DEF NewOnTop, Calls
    <2>3. QED
      BY <1>1, <2>1, <2>2
  <1>6. QED
    BY <1>3, <1>4, <1>5 DEF Order

\* The broker publishes.
LEMMA PublishOrder ==
    ASSUME NEW s, NEW n, NEW r, NEW H, NEW l, NEW c, NEW e \in Nat, NEW d, NEW p \in Nat,
           Order(s, n, r, H, l, c, e, p), Types(c, e),
           \A j \in 1..e : d[j] = c[j],
           NEW v \in {p, p + 1},
           d[e + 1].type = "PUBLISH" => v = p + 1 /\ d[e + 1].id = v,
           \A i \in 1..n : s[i].own \in Nat, r \in Nat, \A i \in 1..l : H[i].seen \in Nat
    PROVE  Order(s, n, r, H, l, d, e + 1, v)
  <1>1. ASSUME NEW b \in Nat, b > p PROVE Later(s, n, r, H, l, b)
    BY <1>1 DEF Order, Later
  <1>2. Later(s, n, r, H, l, v + 1)
    BY <1>1
  <1>3. ASSUME NEW j \in 1..(e + 1), d[j].type = "PUBLISH"
        PROVE  /\ Later(s, n, r, H, l, d[j].id) /\ d[j].id <= v
               /\ \A i \in 1..(e + 1) : i < j /\ d[i].type = "PUBLISH" => d[i].id < d[j].id
    <2>1. CASE j <= e
      <3>1. j \in 1..e /\ d[j] = c[j] /\ d[j].id \in Nat
        BY <2>1 DEF Types, BrokerPacket
      <3>2. QED
        BY <1>3, <2>1, <3>1 DEF Order, InOrder
    <2>2. CASE j = e + 1
      <3>1. v = p + 1 /\ d[j].id = v
        BY <1>3, <2>2
      <3>2. ASSUME NEW i \in 1..(e + 1), i < j, d[i].type = "PUBLISH" PROVE d[i].id < d[j].id
        <4>1. i \in 1..e /\ d[i] = c[i] /\ d[i].id \in Nat
          BY <2>2, <3>2 DEF Types, BrokerPacket
        <4>2. d[i].id <= p
          BY <3>2, <4>1 DEF Order, InOrder
        <4>3. QED
          BY <3>1, <4>1, <4>2
      <3>3. QED
        BY <1>1, <3>1, <3>2
    <2>3. QED
      BY <2>1, <2>2
  <1>4. QED
    BY <1>2, <1>3 DEF Order, InOrder

-------------------------------------------------------------------------------
(* The invariant, and the steps of the stack.                              *)

ShapeInv == Shape(stack, Len(stack), handlers, Len(handlers), readbuf)
AcksInv == Acks(stack, Len(stack), handlers, Len(handlers), acked, unclaimed)
OrderInv == Order(stack, Len(stack), readbuf, handled, Len(handled),
                  toClient, Len(toClient), pushed)
Stacked == ShapeInv /\ AcksInv /\ OrderInv

\* What has been seen and sent.
SlotsExist == \A i \in DOMAIN handled : handled[i].slot <= Len(handlers)

Logged == CommandsInOrder /\ OnlyNestedPublishDisturbs /\ CommandAckFirst /\ SlotsExist

IInv == TypeOK /\ Stacked /\ Logged

\* A frame into which message q, of QoS c, is read.
ReadInto(g, q, c) == [g EXCEPT !.pc = "deliver", !.own = q, !.code = c, !.slot = 1]

LEMMA FrameRead ==
    ASSUME NEW g \in FrameType, NEW q \in Nat, NEW c \in {0, 1}
    PROVE  LET f == ReadInto(g, q, c)
           IN /\ f \in FrameType /\ f.op = g.op /\ f.uid = g.uid /\ f.pc = "deliver"
              /\ f.own = q /\ f.slot = 1
  <1> DEFINE d == [g EXCEPT !.pc = "deliver", !.own = q]
             e == [d EXCEPT !.code = c]
             f == [e EXCEPT !.slot = 1]
  <1>1. /\ d \in FrameType /\ d.op = g.op /\ d.uid = g.uid /\ d.pc = "deliver" /\ d.own = q
    BY DEF FrameType
  <1>2. ReadInto(g, q, c) = f
    BY DEF ReadInto
  <1>3. d \in FrameType
    BY <1>1
  <1> HIDE DEF d
  <1>4. e \in FrameType /\ e.op = d.op /\ e.uid = d.uid /\ e.pc = d.pc /\ e.own = d.own
    BY <1>3 DEF FrameType
  <1>5. e \in FrameType
    BY <1>4
  <1> HIDE DEF e
  <1>6. /\ f \in FrameType /\ f.op = e.op /\ f.uid = e.uid /\ f.pc = e.pc /\ f.own = e.own
        /\ f.slot = 1
    BY <1>5 DEF FrameType
  <1>7. QED
    BY <1>1, <1>2, <1>4, <1>6

LEMMA TypeFacts ==
    ASSUME TypeOK
    PROVE  /\ stack \in Seq(FrameType) /\ Len(stack) \in Nat /\ DOMAIN stack = 1..Len(stack)
           /\ handlers \in Seq({"av", "user"}) /\ Len(handlers) \in Nat
           /\ DOMAIN handlers = 1..Len(handlers)
           /\ Frames(stack, Len(stack)) /\ \A i \in 1..Len(stack) : stack[i].own \in Nat
           /\ toClient \in Seq(BrokerPacket) /\ Len(toClient) \in Nat
           /\ Types(toClient, Len(toClient))
           /\ Len(handled) \in Nat /\ DOMAIN handled = 1..Len(handled)
           /\ \A i \in 1..Len(handled) : handled[i].seen \in Nat
           /\ sent \in Seq(ClientPacket) /\ Len(sent) \in Nat /\ DOMAIN sent = 1..Len(sent)
           /\ readbuf \in Nat /\ pushed \in Nat
  <1>1. /\ stack \in Seq(FrameType) /\ toClient \in Seq(BrokerPacket)
        /\ handlers \in Seq({"av", "user"}) /\ sent \in Seq(ClientPacket)
        /\ handled \in Seq([own : Nat, slot : Nat, seen : Nat])
        /\ readbuf \in 0..pushed /\ pushed \in 0..MaxPushes
    BY DEF TypeOK
  <1>2. Len(stack) \in Nat /\ DOMAIN stack = 1..Len(stack)
        /\ \A i \in 1..Len(stack) : stack[i] \in FrameType
    BY <1>1, LenProperties, ElementOfSeq
  <1>3. \A i \in 1..Len(stack) : stack[i].own \in Nat
    BY <1>2 DEF FrameType
  <1>4. Len(toClient) \in Nat /\ \A i \in 1..Len(toClient) : toClient[i] \in BrokerPacket
    BY <1>1, LenProperties, ElementOfSeq
  <1>5. Len(handlers) \in Nat /\ DOMAIN handlers = 1..Len(handlers)
    BY <1>1, LenProperties
  <1>6. Len(sent) \in Nat /\ DOMAIN sent = 1..Len(sent)
    BY <1>1, LenProperties
  <1>7. Len(handled) \in Nat /\ DOMAIN handled = 1..Len(handled)
        /\ \A i \in 1..Len(handled) : handled[i] \in [own : Nat, slot : Nat, seen : Nat]
    BY <1>1, LenProperties, ElementOfSeq
  <1>8. readbuf \in Nat /\ pushed \in Nat
    BY <1>1, BoundAssumption
  <1>9. QED
    BY <1>1, <1>2, <1>3, <1>4, <1>5, <1>6, <1>7, <1>8 DEF Frames, Types

LEMMA TopFacts ==
    ASSUME TypeOK, stack # <<>>
    PROVE  /\ Len(stack) \in Nat \ {0} /\ Top = stack[Len(stack)] /\ Top \in FrameType
           /\ Len(stack) \in 1..Len(stack)
  <1>1. stack \in Seq(FrameType)
    BY DEF TypeOK
  <1>2. Len(stack) \in Nat \ {0}
    BY <1>1, EmptySeq
  <1>3. stack[Len(stack)] \in FrameType
    BY <1>1, <1>2, ElementOfSeq
  <1>4. QED
    BY <1>2, <1>3 DEF Top

LEMMA TopReplaced ==
    ASSUME TypeOK, stack # <<>>, NEW f \in FrameType
    PROVE  /\ WithTop(f) \in Seq(FrameType) /\ Len(WithTop(f)) = Len(stack)
           /\ Retops(stack, Len(stack), WithTop(f), f)
  <1>1. stack \in Seq(FrameType) /\ Len(stack) \in Nat \ {0} /\ Len(stack) \in 1..Len(stack)
    BY TopFacts DEF TypeOK
  <1>2. /\ WithTop(f) \in Seq(FrameType) /\ Len(WithTop(f)) = Len(stack)
        /\ \A j \in 1..Len(stack) : WithTop(f)[j] = IF j = Len(stack) THEN f ELSE stack[j]
    BY <1>1, ExceptSeq DEF WithTop
  <1>3. QED
    BY <1>1, <1>2 DEF Retops

LEMMA TopRemoved ==
    ASSUME TypeOK, stack # <<>>
    PROVE  LET s == SubSeq(stack, 1, Len(stack) - 1)
           IN /\ s \in Seq(FrameType) /\ Len(s) = Len(stack) - 1
              /\ \A i \in 1..(Len(stack) - 1) : s[i] = stack[i]
  <1>1. stack \in Seq(FrameType) /\ Len(stack) \in Nat \ {0}
    BY TopFacts DEF TypeOK
  <1> DEFINE n == Len(stack) - 1
             s == SubSeq(stack, 1, n)
  <1>2. n \in Nat /\ n - 1 + 1 = n /\ \A i \in 1..n : 1 + i - 1 = i /\ stack[i] \in FrameType
    BY <1>1, ElementOfSeq
  <1>3. /\ s \in Seq(FrameType) /\ Len(s) = IF 1 <= n THEN n - 1 + 1 ELSE 0
        /\ \A i \in 1..(n - 1 + 1) : s[i] = stack[1 + i - 1]
    <2> HIDE DEF n
    <2>1. 1 \in Int /\ n \in Int /\ \A i \in 1..n : stack[i] \in FrameType
      BY <1>2
    <2>2. QED
      BY <2>1, SubSeqProperties DEF s
  <1>4. QED
    BY <1>2, <1>3

\* What a call does to the stack when it starts none, or what TimerExpires does.
Settled ==
    /\ stack' \in Seq(FrameType)
    /\ Settles(stack, Len(stack), stack', Len(stack'), Len(handlers))
    /\ acked \subseteq acked' /\ acked' \in SUBSET Nat
    /\ Len(stack') # Len(stack) /\ Top.op = "ack" => Top.uid \in acked'

LEMMA ReturnSettles ==
    ASSUME TypeOK, stack # <<>>, Return
    PROVE  Settled /\ Len(stack') = Len(stack) - 1
  <1>1. /\ stack' \in Seq(FrameType) /\ Len(stack') = Len(stack) - 1
        /\ \A i \in 1..(Len(stack) - 1) : stack'[i] = stack[i]
    BY TopRemoved DEF Return
  <1>2. Settles(stack, Len(stack), stack', Len(stack'), Len(handlers))
    BY <1>1, TopFacts, TypeFacts DEF Settles, Follows
  <1>3. acked \in SUBSET Nat /\ Top.uid \in Nat
    BY TopFacts DEF TypeOK, FrameType
  <1>4. QED
    BY <1>1, <1>2, <1>3 DEF Settled, Return

LEMMA FrameSettles ==
    ASSUME TypeOK, stack # <<>>, NEW f \in FrameType, Follows(f, Top, Len(handlers)),
           stack' = WithTop(f), acked' = acked
    PROVE  Settled /\ Len(stack') = Len(stack)
  <1>1. /\ stack' \in Seq(FrameType) /\ Len(stack') = Len(stack)
        /\ Retops(stack, Len(stack), stack', f)
    BY TopReplaced
  <1>2. Settles(stack, Len(stack), stack', Len(stack'), Len(handlers))
    <2>1. ASSUME NEW i \in 1..Len(stack)
          PROVE  Follows(stack'[i], stack[i], Len(handlers))
                 /\ (i # Len(stack) => stack'[i].pc = stack[i].pc)
      <3>1. CASE i = Len(stack)
        BY <1>1, <3>1, TopFacts DEF Retops
      <3>2. CASE i # Len(stack)
        <4>1. stack'[i] = stack[i]
          BY <1>1, <3>2, TopFacts DEF Retops
        <4>2. QED
          BY <4>1 DEF Follows
      <3>3. QED
        BY <3>1, <3>2
    <2>2. QED
      BY <1>1, <2>1, TopFacts, TypeFacts DEF Settles
  <1>3. QED
    BY <1>1, <1>2 DEF Settled, TypeOK

LEMMA NextRoundSettles ==
    ASSUME TypeOK, stack # <<>>, NextRound,
           Top.pc = "send" /\ Top.op # "subscribe" => QoS = 1
    PROVE  Settled /\ Len(stack') = Len(stack)
  <1> DEFINE f == [Top EXCEPT !.pc = "wait"]
  <1>1. f \in FrameType /\ Follows(f, Top, Len(handlers))
    BY TopFacts DEF FrameType, Follows
  <1>2. QED
    BY <1>1, FrameSettles DEF NextRound

LEMMA CycleFailedSettles ==
    ASSUME TypeOK, stack # <<>>, CycleFailed, Top.pc # "send"
    PROVE  Settled
  BY ReturnSettles, NextRoundSettles DEF CycleFailed

\* Such a step keeps the invariant on the stack.
LEMMA SettledKeeps ==
    ASSUME TypeOK, Stacked, Settled, UNCHANGED <<handlers, handled, unclaimed, pushed>>,
           readbuf' = readbuf \/ (readbuf' = 0 /\ Top.pc = "wait"),
           Moves(toClient, Len(toClient), toClient', Len(toClient'))
    PROVE  Stacked'
  <1>1. Shape(stack', Len(stack'), handlers, Len(handlers), readbuf')
    BY TypeFacts, SettlesShape DEF Settled, Stacked, ShapeInv, Top
  <1>2. Acks(stack', Len(stack'), handlers, Len(handlers), acked', unclaimed)
    BY TypeFacts, SettlesAcks DEF Settled, Stacked, ShapeInv, AcksInv, Top
  <1>3. Order(stack', Len(stack'), readbuf', handled, Len(handled),
              toClient', Len(toClient'), pushed)
    BY TypeFacts, SettlesOrder DEF Settled, Stacked, ShapeInv, OrderInv
  <1>4. QED
    BY <1>1, <1>2, <1>3 DEF Stacked, ShapeInv, AcksInv, OrderInv

LEMMA NothingMoves ==
    ASSUME TypeOK, toClient' = toClient
    PROVE  Moves(toClient, Len(toClient), toClient', Len(toClient'))
  BY TypeFacts DEF Moves

LEMMA HeadMoves ==
    ASSUME TypeOK, toClient # <<>>, toClient' = Tail(toClient)
    PROVE  /\ Moves(toClient, Len(toClient), toClient', Len(toClient'))
           /\ toClient' \in Seq(BrokerPacket) /\ Len(toClient') = Len(toClient) - 1
           /\ Head(toClient) = toClient[1] /\ Head(toClient) \in BrokerPacket
           /\ Len(toClient) \in Nat \ {0}
           /\ \A j \in 1..(Len(toClient) - 1) : toClient'[j] = toClient[j + 1]
  <1>1. toClient \in Seq(BrokerPacket) /\ Len(toClient) \in Nat \ {0}
    BY TypeFacts, EmptySeq
  <1>2. /\ toClient' \in Seq(BrokerPacket) /\ Len(toClient') = Len(toClient) - 1
        /\ Head(toClient) \in BrokerPacket
        /\ \A j \in 1..Len(toClient') : toClient'[j] = toClient[j + 1]
    BY <1>1, HeadTailProperties
  <1>3. Head(toClient) = toClient[1]
    BY <1>1
  <1>4. Len(toClient) > 0 /\ Len(toClient) \in Nat
        /\ \A j \in 1..(Len(toClient) - 1) : toClient'[j] = toClient[j + 1]
    BY <1>1, <1>2
  <1>5. Moves(toClient, Len(toClient), toClient', Len(toClient'))
    BY <1>2, <1>4 DEF Moves
  <1>6. QED
    BY <1>1, <1>2, <1>3, <1>4, <1>5

-------------------------------------------------------------------------------
(* What has been seen and sent.                                            *)

LEMMA WriteKeeps ==
    ASSUME TypeOK, CommandAckFirst, acked \subseteq acked', unclaimed \subseteq unclaimed',
           NEW p \in ClientPacket, sent' = Append(sent, p),
           p.type = "PUBACK" /\ p.id \in Commands => p.id \in acked' \cup unclaimed'
    PROVE  CommandAckFirst'
  <1>1. sent \in Seq(ClientPacket) /\ Len(sent) \in Nat /\ DOMAIN sent = 1..Len(sent)
    BY TypeFacts
  <1>2. /\ sent' \in Seq(ClientPacket) /\ Len(sent') = Len(sent) + 1
        /\ sent'[Len(sent) + 1] = p /\ \A i \in 1..Len(sent) : sent'[i] = sent[i]
    BY <1>1, AppendProperties
  <1>3. DOMAIN sent' = 1..(Len(sent) + 1)
    BY <1>2, LenProperties
  <1>4. ASSUME NEW i \in DOMAIN sent', sent'[i].type = "PUBACK", sent'[i].id \in Commands
        PROVE  sent'[i].id \in acked' \cup unclaimed'
    <2>1. i \in DOMAIN sent \/ i = Len(sent) + 1
      BY <1>1, <1>3
    <2>2. CASE i \in DOMAIN sent
      BY <1>1, <1>2, <1>4, <2>2 DEF CommandAckFirst
    <2>3. CASE i = Len(sent) + 1
      BY <1>2, <1>4, <2>3
    <2>4. QED
      BY <2>1, <2>2, <2>3
  <1>5. QED
    BY <1>4 DEF CommandAckFirst

\* Steps that call no handler: an acknowledgement to the broker is of a command that
\* was acknowledged before.
LEMMA LoggedQuiet ==
    ASSUME TypeOK, Logged, handled' = handled,
           handlers' = handlers \/ \E x : handlers' = Append(handlers, x),
           acked \subseteq acked', unclaimed \subseteq unclaimed',
           \/ sent' = sent
           \/ \E p \in ClientPacket :
                /\ sent' = Append(sent, p)
                /\ p.type = "PUBACK" /\ p.id \in Commands => p.id \in acked' \cup unclaimed'
    PROVE  Logged'
  <1>1. /\ \A i \in 1..Len(handlers) : handlers'[i] = handlers[i]
        /\ Len(handlers) <= Len(handlers') /\ Len(handlers) \in Nat /\ Len(handlers') \in Nat
    <2>1. handlers \in Seq({"av", "user"}) /\ Len(handlers) \in Nat
      BY TypeFacts
    <2>2. ASSUME NEW x, handlers' = Append(handlers, x)
          PROVE  /\ \A i \in 1..Len(handlers) : handlers'[i] = handlers[i]
                 /\ Len(handlers') = Len(handlers) + 1
      <3>1. handlers \in Seq({"av", "user"} \cup {x})
        BY <2>1, SeqMonotonic
      <3>2. QED
        BY <2>2, <3>1, AppendProperties
    <2>3. QED
      BY <2>1, <2>2
  <1>2. \A i \in DOMAIN handled : handled[i].slot \in Nat
    <2>1. handled \in Seq([own : Nat, slot : Nat, seen : Nat])
      BY DEF TypeOK
    <2>2. \A i \in DOMAIN handled : handled[i] \in [own : Nat, slot : Nat, seen : Nat]
      BY <2>1, LenProperties, ElementOfSeq
    <2>3. QED
      BY <2>2
  <1>3. CommandsInOrder'
    BY DEF Logged, CommandsInOrder
  <1>4. SlotsExist'
    BY <1>1, <1>2 DEF Logged, SlotsExist
  <1>5. OnlyNestedPublishDisturbs'
    <2> SUFFICES ASSUME NEW i \in DOMAIN handled, handled[i].seen # handled[i].own
                 PROVE  /\ QoS = 1 /\ handled[i].seen > handled[i].own
                        /\ \E s \in 1..(handled[i].slot - 1) : handlers'[s] = "av"
      BY DEF OnlyNestedPublishDisturbs
    <2>1. /\ QoS = 1 /\ handled[i].seen > handled[i].own
          /\ \E s \in 1..(handled[i].slot - 1) : handlers[s] = "av"
      BY DEF Logged, OnlyNestedPublishDisturbs
    <2>2. \A s \in 1..(handled[i].slot - 1) : s \in 1..Len(handlers)
      BY <1>1, <1>2 DEF Logged, SlotsExist
    <2>3. QED
      BY <1>1, <2>1, <2>2
  <1>6. CommandAckFirst'
    <2>1. CASE sent' = sent
      BY <2>1 DEF Logged, CommandAckFirst
    <2>2. CASE sent' # sent
      BY <2>2, WriteKeeps DEF Logged
    <2>3. QED
      BY <2>1, <2>2
  <1>7. QED
    BY <1>3, <1>4, <1>5, <1>6 DEF Logged

-------------------------------------------------------------------------------
(* The calls.                                                              *)

LEMMA StartKeeps ==
    ASSUME TypeOK, Stacked, stack = <<>>, NEW f \in FrameType, stack' = <<f>>,
           f.op # "ack", f.pc \in {"send", "wait"}, f.own = 0,
           UNCHANGED <<handlers, handled, unclaimed, acked, pushed, readbuf, toClient>>
    PROVE  Stacked' /\ stack' \in Seq(FrameType)
  <1>1. Len(stack) = 0 /\ Len(stack') = 1 /\ stack'[1] = f /\ stack' \in Seq(FrameType)
    OBVIOUS
  <1>2. Shape(stack', 1, handlers, Len(handlers), readbuf)
    BY <1>1 DEF Shape, FrameShape
  <1>3. Acks(stack', 1, handlers, Len(handlers), acked, unclaimed)
    BY <1>1 DEF Acks, FrameAcks
  <1>4. ASSUME NEW b \in Nat, Later(stack, 0, readbuf, handled, Len(handled), b)
        PROVE  Later(stack', 1, readbuf, handled, Len(handled), b)
    <2>1. \A i \in 1..1 : stack'[i].own = 0
      BY <1>1
    <2>2. 0 < b
      BY <1>4, TypeFacts DEF Later
    <2>3. QED
      BY <1>4, <2>1, <2>2 DEF Later
  <1>5. Order(stack, 0, readbuf, handled, Len(handled), toClient, Len(toClient), pushed)
    BY <1>1 DEF Stacked, OrderInv
  <1>6. Order(stack', 1, readbuf, handled, Len(handled), toClient, Len(toClient), pushed)
    <2>1. Later(stack', 1, readbuf, handled, Len(handled), pushed + 1)
      BY <1>4, <1>5, TypeFacts DEF Order
    <2>2. ASSUME NEW j \in 1..Len(toClient), toClient[j].type = "PUBLISH"
          PROVE  Later(stack', 1, readbuf, handled, Len(handled), toClient[j].id)
      <3>1. toClient[j].id \in Nat
        BY TypeFacts DEF Types, BrokerPacket
      <3>2. QED
        BY <1>4, <1>5, <2>2, <3>1 DEF Order
    <2>3. NewOnTop(stack', 1, handled, Len(handled))
      BY <1>1 DEF NewOnTop
    <2>4. QED
      BY <1>5, <2>1, <2>2, <2>3 DEF Order
  <1>7. QED
    BY <1>1, <1>2, <1>3, <1>6 DEF Stacked, ShapeInv, AcksInv, OrderInv

LEMMA ApiStep ==
    ASSUME IInv, Api
    PROVE  IInv'
  <1>1. PICK f \in FrameType : /\ stack' = <<f>> /\ f.op # "ack" /\ f.own = 0
                               /\ f.pc \in {"send", "wait"}
    <2>1. CASE Yield
      <3>1. Frame("yield", "none", 0, 0, "wait") \in FrameType
        BY DEF Frame, FrameType
      <3>2. QED
        BY <2>1, <3>1 DEF Yield, Frame
    <2>2. CASE Publish
      <3>1. PublishId \in Nat
        BY DEF PublishId, IInv, TypeOK
      <3>2. Frame("publish", "none", 0, PublishId, "send") \in FrameType
        BY <3>1 DEF Frame, FrameType
      <3>3. QED
        BY <2>2, <3>2 DEF Publish, Call, Frame
    <2>3. ASSUME NEW h \in {"av", "user"}, Call("subscribe", h, next_packetid + 1)
          PROVE  \E f \in FrameType : /\ stack' = <<f>> /\ f.op # "ack" /\ f.own = 0
                                      /\ f.pc \in {"send", "wait"}
      <3>1. next_packetid + 1 \in Nat
        BY DEF IInv, TypeOK
      <3>2. Frame("subscribe", h, 0, next_packetid + 1, "send") \in FrameType
        BY <3>1 DEF Frame, FrameType
      <3>3. QED
        BY <2>3, <3>2 DEF Call, Frame
    <2>4. QED
      BY <2>1, <2>2, <2>3 DEF Api, Subscribe
  <1>2. /\ stack = <<>> /\ UNCHANGED <<handlers, isconnected, readbuf, broker, sent, toClient, history>>
        /\ next_packetid' \in Nat /\ calls' \in 0..MaxCalls
    <2>1. calls \in 0..MaxCalls /\ next_packetid \in Nat /\ MaxCalls \in Nat
      BY BoundAssumption DEF IInv, TypeOK
    <2>2. CASE Yield
      BY <2>1, <2>2 DEF Yield, client
    <2>3. ASSUME NEW op, NEW h, NEW id \in Nat, Call(op, h, id)
          PROVE  /\ stack = <<>> /\ UNCHANGED <<handlers, isconnected, readbuf, broker, sent, toClient, history>>
                 /\ next_packetid' \in Nat /\ calls' \in 0..MaxCalls
      BY <2>1, <2>3 DEF Call
    <2>4. PublishId \in Nat /\ next_packetid + 1 \in Nat
      BY <2>1 DEF PublishId
    <2>5. QED
      BY <2>2, <2>3, <2>4 DEF Api, Subscribe, Publish
  <1>3. Stacked' /\ stack' \in Seq(FrameType)
    BY <1>1, <1>2, StartKeeps DEF IInv, history, log, broker
  <1>4. TypeOK'
    BY <1>2, <1>3 DEF IInv, TypeOK, history, log, broker
  <1>5. Logged'
    BY <1>2, LoggedQuiet DEF IInv, history, log
  <1>6. QED
    BY <1>3, <1>4, <1>5 DEF IInv

\* Steps that settle, with what they leave alone.
LEMMA SettledStep ==
    ASSUME IInv, Settled, UNCHANGED <<client, broker, log, calls>>,
           readbuf' = readbuf, toClient' = toClient,
           \/ sent' = sent
           \/ \E p \in ClientPacket :
                /\ sent' = Append(sent, p)
                /\ p.type = "PUBACK" /\ p.id \in Commands => p.id \in acked' \cup unclaimed'
    PROVE  IInv'
  <1>1. sent' \in Seq(ClientPacket) /\ Len(sent) <= Len(sent') /\ Len(sent) \in Nat
        /\ Len(sent') \in Nat
    <2>1. sent \in Seq(ClientPacket) /\ Len(sent) \in Nat
      BY TypeFacts DEF IInv
    <2>2. ASSUME NEW p \in ClientPacket, sent' = Append(sent, p)
          PROVE  sent' \in Seq(ClientPacket) /\ Len(sent') = Len(sent) + 1
      BY <2>1, <2>2, AppendProperties
    <2>3. QED
      BY <2>1, <2>2
  <1>2. TypeOK'
    <2>1. taken \in 0..Len(sent')
      BY <1>1 DEF IInv, TypeOK
    <2>2. QED
      BY <1>1, <2>1 DEF IInv, TypeOK, Settled, client, broker, log
  <1>3. Stacked'
    BY SettledKeeps, NothingMoves DEF IInv, client, broker, log
  <1>4. Logged'
    BY LoggedQuiet DEF IInv, Settled, client, log
  <1>5. QED
    BY <1>2, <1>3, <1>4 DEF IInv

LEMMA SendSettles ==
    ASSUME IInv, Send
    PROVE  Settled
  <1>1. stack # <<>> /\ Top.pc = "send"
    BY DEF Send
  <1>2. CASE Top.op # "subscribe" /\ QoS = 0
    BY <1>1, <1>2, ReturnSettles DEF Send, IInv
  <1>3. CASE ~(Top.op # "subscribe" /\ QoS = 0)
    BY <1>1, <1>3, QoSAssumption, NextRoundSettles DEF Send, IInv
  <1>4. QED
    BY <1>2, <1>3

LEMMA ReadTimesOutSettles ==
    ASSUME IInv, ReadTimesOut
    PROVE  Settled
  <1>1. stack # <<>> /\ Top.pc = "wait"
    BY DEF ReadTimesOut, Reading, Waiting
  <1>2. CASE Top.op = "yield"
    BY <1>1, <1>2, ReturnSettles DEF ReadTimesOut, IInv
  <1>3. CASE Top.op # "yield"
    <2> DEFINE f == [Top EXCEPT !.timedOut = TRUE]
    <2>1. f \in FrameType /\ Follows(f, Top, Len(handlers))
      BY <1>1, TopFacts DEF IInv, FrameType, Follows
    <2>2. QED
      BY <1>1, <1>3, <2>1, FrameSettles DEF ReadTimesOut, IInv
  <1>4. QED
    BY <1>2, <1>3

LEMMA DeliveredSettles ==
    ASSUME IInv, Delivered
    PROVE  Settled
  <1> DEFINE f == [Top EXCEPT !.pc = IF Top.code = 0 THEN "wait" ELSE "puback"]
  <1>1. stack # <<>> /\ Top.pc = "deliver" /\ Top.slot > Len(handlers) /\ stack' = WithTop(f)
        /\ acked' = acked
    BY DEF Delivered, history
  <1>2. f \in FrameType /\ Follows(f, Top, Len(handlers))
    BY <1>1, TopFacts DEF IInv, FrameType, Follows
  <1>3. QED
    BY <1>1, <1>2, FrameSettles DEF IInv

LEMMA TimerSettles ==
    ASSUME IInv, TimerExpires
    PROVE  Settled
  <1>1. PICK i \in DOMAIN stack : stack' = [stack EXCEPT ![i].timedOut = TRUE]
    BY DEF TimerExpires
  <1>2. stack \in Seq(FrameType) /\ i \in 1..Len(stack) /\ Len(stack) \in Nat \ {0}
        /\ stack[i] \in FrameType
    BY <1>1, TypeFacts, ElementOfSeq DEF IInv
  <1> DEFINE f == [stack[i] EXCEPT !.timedOut = TRUE]
  <1>3. f \in FrameType /\ stack' = [stack EXCEPT ![i] = f]
    BY <1>1, <1>2 DEF FrameType
  <1>4. /\ stack' \in Seq(FrameType) /\ Len(stack') = Len(stack)
        /\ \A j \in 1..Len(stack) : stack'[j] = IF j = i THEN f ELSE stack[j]
    BY <1>2, <1>3, ExceptSeq
  <1>5. ASSUME NEW j \in 1..Len(stack)
        PROVE  Follows(stack'[j], stack[j], Len(handlers)) /\ stack'[j].pc = stack[j].pc
    <2>1. stack'[j] = stack[j] \/ (j = i /\ stack'[j] = f)
      BY <1>4
    <2>2. QED
      BY <1>2, <2>1, SMTT(30) DEF Follows, FrameType
  <1>6. Settles(stack, Len(stack), stack', Len(stack'), Len(handlers))
    BY <1>2, <1>4, <1>5, TypeFacts DEF Settles, IInv
  <1>7. QED
    BY <1>4, <1>6 DEF Settled, TimerExpires, history, IInv, TypeOK

LEMMA RunSettles ==
    ASSUME IInv,
           \/ Send \/ SendFails \/ WaitExpired \/ ReadAnswer \/ ReadTimesOut \/ ReadEof
           \/ Delivered \/ SendPuback \/ TimerExpires
    PROVE  Settled
  <1>1. CASE SendFails \/ WaitExpired
    BY <1>1, ReturnSettles DEF IInv, SendFails, WaitExpired, Waiting
  <1>2. CASE ReadAnswer
    BY <1>2, ReturnSettles, NextRoundSettles DEF IInv, ReadAnswer, Reading, Waiting
  <1>3. CASE ReadEof
    BY <1>3, CycleFailedSettles DEF IInv, ReadEof, Reading, Waiting
  <1>4. CASE SendPuback
    BY <1>4, NextRoundSettles, CycleFailedSettles DEF IInv, SendPuback
  <1>5. QED
    BY <1>1, <1>2, <1>3, <1>4, SendSettles, ReadTimesOutSettles, DeliveredSettles, TimerSettles

\* Those that write nothing, or a request.
LEMMA QuietStep ==
    ASSUME IInv, \/ Send \/ SendFails \/ WaitExpired \/ ReadTimesOut \/ Delivered
                 \/ TimerExpires
    PROVE  IInv'
  <1>1. Settled /\ UNCHANGED <<client, broker, log, calls, readbuf, toClient>>
    BY RunSettles DEF Send, SendFails, WaitExpired, ReadTimesOut, Delivered, TimerExpires, history
  <1>2. CASE Send
    <2>1. Top \in FrameType
      BY <1>2, TopFacts DEF IInv, Send
    <2>2. Request(Top) \in ClientPacket /\ Request(Top).type # "PUBACK"
      BY <2>1 DEF Request, Pkt, ClientPacket, FrameType
    <2>3. QED
      BY <1>1, <1>2, <2>2, SettledStep DEF Send
  <1>3. CASE sent' = sent
    BY <1>1, <1>3, SettledStep
  <1>4. QED
    BY <1>2, <1>3 DEF SendFails, WaitExpired, ReadTimesOut, Delivered, TimerExpires

LEMMA SendPubackStep ==
    ASSUME IInv, SendPuback
    PROVE  IInv'
  <1>1. stack # <<>> /\ Top \in FrameType /\ Top.pc = "puback" /\ Top = stack[Len(stack)]
        /\ Len(stack) \in 1..Len(stack)
    BY TopFacts DEF IInv, SendPuback
  <1>2. Settled
    BY RunSettles
  <1>3. Top.own \in Commands => Top.own \in acked \cup unclaimed
    <2>1. FrameAcks(stack, Len(stack), handlers, Len(handlers), acked, unclaimed, Len(stack))
      BY <1>1 DEF IInv, Stacked, AcksInv, Acks
    <2>2. QED
      BY <1>1, <2>1 DEF FrameAcks, Claimed
  <1>4. Pkt("PUBACK", Top.own, 0) \in ClientPacket /\ Pkt("PUBACK", Top.own, 0).id = Top.own
    BY <1>1 DEF Pkt, ClientPacket, FrameType
  <1>5. acked \cup unclaimed \subseteq acked' \cup unclaimed'
    BY <1>2 DEF Settled, SendPuback, log
  <1>6. QED
    BY <1>2, <1>3, <1>4, <1>5, SettledStep DEF SendPuback

LEMMA ReadEofStep ==
    ASSUME IInv, ReadEof
    PROVE  IInv'
  <1>1. Settled
    BY RunSettles
  <1>2. UNCHANGED <<handlers, handled, unclaimed, pushed, readbuf, toClient, sent, eaten>>
    BY DEF ReadEof, log, broker
  <1>3. TypeOK'
    BY <1>1, <1>2 DEF IInv, TypeOK, Settled, ReadEof, broker
  <1>4. Stacked'
    BY <1>1, <1>2, SettledKeeps, NothingMoves DEF IInv
  <1>5. Logged'
    BY <1>1, <1>2, LoggedQuiet DEF IInv, Settled
  <1>6. QED
    BY <1>3, <1>4, <1>5 DEF IInv

LEMMA ReadPublishStep ==
    ASSUME IInv, ReadPublish
    PROVE  IInv'
  <1> DEFINE p == Head(toClient)
             n == Len(stack)
             k == Len(handlers)
             f == ReadInto(Top, p.id, p.code)
  <1>1. /\ stack # <<>> /\ Top.pc = "wait" /\ toClient # <<>> /\ p.type = "PUBLISH"
        /\ readbuf' = p.id /\ stack' = WithTop(f) /\ toClient' = Tail(toClient)
        /\ unclaimed' = IF \E s \in DOMAIN handlers : handlers[s] = "av"
                        THEN unclaimed ELSE unclaimed \cup {p.id}
    BY DEF ReadPublish, Reading, Waiting, Deliver, ReadInto
  <1>2. UNCHANGED <<handlers, isconnected, next_packetid, broker, sent, handled, acked, eaten, calls>>
    BY DEF ReadPublish, client
  <1>3. /\ toClient' \in Seq(BrokerPacket) /\ Len(toClient') = Len(toClient) - 1
        /\ p = toClient[1] /\ p \in BrokerPacket /\ Len(toClient) \in Nat \ {0}
        /\ \A j \in 1..(Len(toClient) - 1) : toClient'[j] = toClient[j + 1]
    BY <1>1, HeadMoves DEF IInv
  <1>4. n \in Nat \ {0} /\ Top = stack[n] /\ Top \in FrameType
    BY <1>1, TopFacts DEF IInv
  <1>5. f \in FrameType /\ f.op = Top.op /\ f.uid = Top.uid /\ f.pc = "deliver"
        /\ f.own = p.id /\ f.slot = 1
    <2>1. p.id \in Nat /\ p.code \in {0, 1}
      BY <1>3 DEF BrokerPacket
    <2> HIDE DEF p
    <2>2. QED
      BY <1>4, <2>1, FrameRead
  <1>6. stack' \in Seq(FrameType) /\ Len(stack') = n /\ Retops(stack, n, stack', f)
    BY <1>1, <1>5, TopReplaced DEF IInv
  <1>7. p.id \in Nat /\ p.id <= pushed
        /\ \A i \in 1..n : stack[i].own < p.id
    <2>1. Later(stack, n, readbuf, handled, Len(handled), p.id) /\ p.id <= pushed
      BY <1>1, <1>3 DEF IInv, Stacked, OrderInv, Order, InOrder
    <2>2. QED
      BY <1>3, <2>1 DEF Later, BrokerPacket
  <1>8. Stacked'
    <2>1. Shape(stack', n, handlers, k, p.id)
      <3>1. Shape(stack, n, handlers, k, readbuf) /\ k \in Nat
        BY TypeFacts DEF IInv, Stacked, ShapeInv
      <3>2. stack[n].pc = "wait" /\ f.op = stack[n].op
        BY <1>1, <1>4, <1>5
      <3> HIDE DEF f, p, n, k
      <3>3. QED
        BY <1>4, <1>5, <1>6, <1>7, <3>1, <3>2, ReadShape
    <2>2. Acks(stack', n, handlers, k, acked, unclaimed')
      <3>1. Acks(stack, n, handlers, k, acked, unclaimed) /\ k \in Nat
            /\ DOMAIN handlers = 1..k
        BY TypeFacts DEF IInv, Stacked, AcksInv
      <3>2. AvBefore(handlers, k + 1) \/ p.id \in unclaimed'
        BY <1>1, <3>1 DEF AvBefore
      <3>3. unclaimed \subseteq unclaimed' /\ f.uid = stack[n].uid
        BY <1>1, <1>4, <1>5
      <3> HIDE DEF f, p, n, k
      <3>4. QED
        BY <1>4, <1>5, <1>6, <3>1, <3>2, <3>3, ReadAcks
    <2>3. Order(stack', n, p.id, handled, Len(handled), toClient', Len(toClient) - 1, pushed)
      <3>1. /\ Order(stack, n, readbuf, handled, Len(handled), toClient, Len(toClient), pushed)
            /\ Types(toClient, Len(toClient)) /\ pushed \in Nat /\ readbuf \in Nat
            /\ \A i \in 1..n : stack[i].own \in Nat
            /\ \A i \in 1..Len(handled) : handled[i].seen \in Nat
        BY TypeFacts DEF IInv, Stacked, OrderInv
      <3>2. p.id = toClient[1].id /\ toClient[1].type = "PUBLISH"
        BY <1>1, <1>3
      <3> HIDE DEF f, p, n
      <3>3. QED
        BY <1>3, <1>4, <1>5, <1>6, <3>1, <3>2, ReadOrder
    <2>4. QED
      BY <1>1, <1>2, <1>3, <1>6, <2>1, <2>2, <2>3
      DEF Stacked, ShapeInv, AcksInv, OrderInv, broker
  <1>9. TypeOK'
    <2>1. readbuf' \in 0..pushed' /\ pushed' = pushed
      BY <1>1, <1>2, <1>7, TypeFacts DEF IInv, broker
    <2>2. unclaimed' \in SUBSET Nat
      BY <1>1, <1>7 DEF IInv, TypeOK
    <2> HIDE DEF p, n, f
    <2>3. QED
      BY <1>2, <1>3, <1>6, <2>1, <2>2 DEF IInv, TypeOK, broker
  <1>10. Logged'
    <2>1. unclaimed \subseteq unclaimed'
      BY <1>1
    <2>2. QED
      BY <1>2, <2>1, LoggedQuiet DEF IInv
  <1>11. QED
    BY <1>8, <1>9, <1>10 DEF IInv

LEMMA ReadAnswerStep ==
    ASSUME IInv, ReadAnswer
    PROVE  IInv'
  <1> DEFINE p == Head(toClient)
  <1>1. stack # <<>> /\ Top.pc = "wait" /\ toClient # <<>> /\ toClient' = Tail(toClient)
        /\ UNCHANGED <<isconnected, next_packetid, broker, sent, handled, unclaimed, calls>>
    BY DEF ReadAnswer, Reading, Waiting
  <1>2. /\ Moves(toClient, Len(toClient), toClient', Len(toClient'))
        /\ toClient' \in Seq(BrokerPacket) /\ p \in BrokerPacket
    BY <1>1, HeadMoves DEF IInv
  <1>3. Settled
    BY RunSettles
  <1>4. readbuf' = readbuf \/ readbuf' = 0
    BY DEF ReadAnswer, Overwritten
  <1>5. \/ handlers' = handlers
        \/ /\ Top.op = "subscribe" /\ Return /\ Len(handlers) < MaxHandlers
           /\ handlers' = Append(handlers, Top.handler)
    BY DEF ReadAnswer
  <1>6. Stacked'
    <2>1. CASE handlers' = handlers
      BY <1>1, <1>2, <1>3, <1>4, <2>1, SettledKeeps DEF IInv, broker
    <2>2. CASE Top.op = "subscribe" /\ Return
      <3>1. Len(stack) \in Nat \ {0} /\ Top = stack[Len(stack)] /\ Len(stack) \in 1..Len(stack)
        BY <1>1, TopFacts DEF IInv
      <3>2. ~(Len(stack) > 1)
        BY <2>2, <3>1 DEF IInv, Stacked, ShapeInv, Shape, FrameShape
      <3>3. Len(stack') = Len(stack) - 1
        BY <1>1, <2>2, ReturnSettles DEF IInv
      <3>4. Len(stack') = 0
        BY <3>1, <3>2, <3>3
      <3>5. ShapeInv' /\ AcksInv'
        BY <3>4 DEF ShapeInv, AcksInv, Shape, Acks
      <3>6. Order(stack', Len(stack'), readbuf', handled, Len(handled),
                  toClient', Len(toClient'), pushed)
        BY <1>2, <1>3, <1>4, TypeFacts, SettlesOrder
        DEF IInv, Settled, Stacked, ShapeInv, OrderInv
      <3>7. QED
        BY <1>1, <3>5, <3>6 DEF Stacked, OrderInv, broker
    <2>3. QED
      BY <1>5, <2>1, <2>2
  <1>7. TypeOK'
    <2>1. handlers' \in Seq({"av", "user"}) /\ Len(handlers') <= MaxHandlers
      <3>1. handlers \in Seq({"av", "user"}) /\ Len(handlers) \in Nat
            /\ Len(handlers) <= MaxHandlers /\ MaxHandlers \in Nat
        BY TypeFacts, SizeAssumption DEF IInv, TypeOK
      <3>2. CASE handlers' = handlers
        BY <3>1, <3>2
      <3>3. CASE /\ Top.op = "subscribe" /\ Len(handlers) < MaxHandlers
                 /\ handlers' = Append(handlers, Top.handler)
        <4>1. Top.handler \in {"av", "user"}
          BY <1>1, <3>3, TopFacts DEF IInv, FrameType
        <4>2. QED
          BY <3>1, <3>3, <4>1, AppendProperties
      <3>4. QED
        BY <1>5, <3>2, <3>3
    <2>2. readbuf' \in 0..pushed
      BY <1>4, TypeFacts DEF IInv, TypeOK
    <2>3. eaten' \in SUBSET Nat
      BY <1>2 DEF ReadAnswer, IInv, TypeOK, BrokerPacket
    <2> HIDE DEF p
    <2>4. QED
      BY <1>1, <1>2, <1>3, <2>1, <2>2, <2>3 DEF IInv, TypeOK, Settled, broker
  <1>8. Logged'
    BY <1>1, <1>3, <1>5, LoggedQuiet DEF IInv, Settled
  <1>9. QED
    BY <1>6, <1>7, <1>8 DEF IInv

LEMMA CallHandlerStep ==
    ASSUME IInv, CallHandler
    PROVE  IInv'
  <1> DEFINE n == Len(stack)
             m == Len(stack')
             k == Len(handlers)
             l == Len(handled)
             g == Len(handled')
             h == handlers[Top.slot]
  <1>1. PICK x \in Seen :
          /\ handled' = IF x = 0 THEN handled
                        ELSE Append(handled, [own |-> Top.own, slot |-> Top.slot, seen |-> x])
          /\ stack' = IF Acknowledges(h, x) /\ isconnected
                      THEN Append(WithTop(NextSlot), Frame("ack", "none", x, PublishId, "send"))
                      ELSE WithTop(NextSlot)
          /\ next_packetid' = IF Acknowledges(h, x) /\ isconnected /\ QoS = 1 THEN PublishId
                              ELSE next_packetid
          /\ acked' = IF Acknowledges(h, x) /\ ~isconnected THEN acked \cup {x} ELSE acked
    BY DEF CallHandler
  <1>2. /\ stack # <<>> /\ Top.pc = "deliver" /\ Top.slot <= Len(handlers)
        /\ UNCHANGED <<handlers, isconnected, readbuf, broker, sent, toClient, eaten, unclaimed, calls>>
    BY DEF CallHandler
  <1>3. /\ n \in Nat \ {0} /\ Top = stack[n] /\ Top \in FrameType /\ n \in 1..n
        /\ Top.slot \in Nat \ {0} /\ Top.own \in Nat /\ k \in Nat /\ l \in Nat
        /\ readbuf \in Nat /\ pushed \in Nat /\ Types(toClient, Len(toClient))
    BY <1>2, TopFacts, TypeFacts DEF IInv, FrameType
  <1>4. /\ x \in Nat /\ (x = readbuf \/ x = 0) /\ (x = Top.own \/ readbuf # Top.own)
        /\ Acknowledges(h, x) => x # 0 /\ h = "av"
    BY <1>3, CommandAssumption, BoundAssumption DEF Seen, Acknowledges
  <1>5. /\ Shape(stack, n, handlers, k, readbuf)
        /\ Acks(stack, n, handlers, k, acked, unclaimed)
        /\ Order(stack, n, readbuf, handled, l, toClient, Len(toClient), pushed)
    BY DEF IInv, Stacked, ShapeInv, AcksInv, OrderInv
  <1>6. NextSlot \in FrameType /\ NextSlot = [stack[n] EXCEPT !.slot = @ + 1]
    BY <1>3, SMTT(30) DEF NextSlot, FrameType
  <1>7. /\ WithTop(NextSlot) \in Seq(FrameType) /\ Len(WithTop(NextSlot)) = n
        /\ Retops(stack, n, WithTop(NextSlot), NextSlot)
    BY <1>2, <1>6, TopReplaced DEF IInv
  <1>8. PublishId \in Nat
    BY DEF PublishId, IInv, TypeOK
  <1>9. /\ stack' \in Seq(FrameType) /\ Retops(stack, n, stack', NextSlot)
        /\ IF Acknowledges(h, x) /\ isconnected
           THEN /\ m = n + 1 /\ stack'[m].op = "ack" /\ stack'[m].pc = "send"
                /\ stack'[m].own = 0 /\ stack'[m].uid = x
           ELSE m = n
    <2>1. CASE Acknowledges(h, x) /\ isconnected
      <3> DEFINE f == Frame("ack", "none", x, PublishId, "send")
                 s == WithTop(NextSlot)
      <3>1. f \in FrameType /\ f.op = "ack" /\ f.pc = "send" /\ f.own = 0 /\ f.uid = x
        BY <1>4, <1>8 DEF Frame, FrameType
      <3>2. stack' = Append(s, f)
        BY <1>1, <2>1
      <3> HIDE DEF f, s
      <3>3. /\ stack' \in Seq(FrameType) /\ m = Len(s) + 1
            /\ \A i \in 1..Len(s) : stack'[i] = s[i]
            /\ stack'[Len(s) + 1] = f
        BY <1>7, <3>1, <3>2, AppendProperties DEF s
      <3>4. Len(s) = n /\ Retops(stack, n, s, NextSlot)
        BY <1>7 DEF s
      <3>5. Retops(stack, n, stack', NextSlot)
        BY <1>3, <3>3, <3>4 DEF Retops
      <3>6. QED
        BY <2>1, <3>1, <3>3, <3>4, <3>5
    <2>2. CASE ~(Acknowledges(h, x) /\ isconnected)
      BY <1>1, <1>7, <2>2
    <2>3. QED
      BY <2>1, <2>2
  <1>10. Calls(stack, n, stack', m, handlers, k)
    BY <1>2, <1>3, <1>4, <1>6, <1>9 DEF Calls
  <1>11. /\ handled' \in Seq([own : Nat, slot : Nat, seen : Nat])
         /\ \A i \in 1..l : handled'[i] = handled[i]
         /\ g = l \/ (g = l + 1 /\ x = readbuf /\ x # 0)
         /\ g = l + 1 => /\ handled'[g].own = Top.own /\ handled'[g].slot = Top.slot
                         /\ handled'[g].seen = x
         /\ DOMAIN handled = 1..l /\ DOMAIN handled' = 1..g
    <2>1. handled \in Seq([own : Nat, slot : Nat, seen : Nat]) /\ DOMAIN handled = 1..l
      BY TypeFacts DEF IInv, TypeOK
    <2> DEFINE e == [own |-> Top.own, slot |-> Top.slot, seen |-> x]
    <2>2. e \in [own : Nat, slot : Nat, seen : Nat]
      BY <1>3, <1>4
    <2>3. CASE x = 0
      <3>1. handled' = handled /\ g = l
        BY <1>1, <2>3
      <3>2. g # l + 1
        BY <1>3, <3>1
      <3> HIDE DEF g, l
      <3>3. QED
        BY <2>1, <3>1, <3>2
    <2>4. CASE x # 0
      <3>1. handled' = Append(handled, e)
        BY <1>1, <2>4
      <3> HIDE DEF e
      <3>2. /\ handled' \in Seq([own : Nat, slot : Nat, seen : Nat]) /\ g = l + 1
            /\ \A i \in 1..l : handled'[i] = handled[i]
            /\ handled'[l + 1] = e
        BY <2>1, <2>2, <3>1, AppendProperties
      <3>3. DOMAIN handled' = 1..g
        BY <3>2, LenProperties
      <3>4. e.own = Top.own /\ e.slot = Top.slot /\ e.seen = x
        BY DEF e
      <3>5. QED
        BY <1>4, <2>1, <2>4, <3>2, <3>3, <3>4
    <2>5. QED
      BY <2>3, <2>4
  <1>12. Stacked'
    <2>1. Shape(stack', m, handlers, k, readbuf)
      BY <1>3, <1>5, <1>10, CallShape
    <2>2. Acks(stack', m, handlers, k, acked', unclaimed)
      <3>1. acked \subseteq acked'
        BY <1>1
      <3>2. x = stack[n].own \/ readbuf # stack[n].own
        BY <1>3, <1>4
      <3>3. handlers[stack[n].slot] = "av" /\ x \in Commands =>
                x \in acked' \/ (m = n + 1 /\ stack'[m].uid = x)
        BY <1>1, <1>3, <1>9 DEF Acknowledges
      <3>4. m = n + 1 => stack'[m].own = 0
        BY <1>3, <1>9
      <3> HIDE DEF n, m, k, h
      <3>5. QED
        BY <1>3, <1>5, <1>10, <3>1, <3>2, <3>3, <3>4, CallAcks
    <2>3. Order(stack', m, readbuf, handled', g, toClient, Len(toClient), pushed)
      <3>1. m = n + 1 => stack'[m].own = 0
        BY <1>3, <1>9
      <3>2. g = l \/ (g = l + 1 /\ handled'[g].seen = readbuf)
        <4> HIDE DEF n, m, k, l, g
        <4>1. QED
          BY <1>11
      <3> HIDE DEF n, m, k, l, g
      <3>3. QED
        BY <1>3, <1>5, <1>10, <1>11, <3>1, <3>2, CallOrder, ZenonT(40)
    <2>4. QED
      BY <1>2, <2>1, <2>2, <2>3 DEF Stacked, ShapeInv, AcksInv, OrderInv, broker
  <1>13. TypeOK'
    <2>1. next_packetid' \in Nat /\ acked' \in SUBSET Nat
      BY <1>1, <1>4, <1>8 DEF IInv, TypeOK
    <2> HIDE DEF n, m, k, l, g, h
    <2>2. QED
      BY <1>2, <1>9, <1>11, <2>1 DEF IInv, TypeOK, broker
  <1>14. FrameShape(stack, n, handlers, k, readbuf, n)
    BY <1>3, <1>5 DEF Shape
  <1>15. ASSUME NEW i \in 1..g, ~(i <= l)
         PROVE  /\ i = l + 1 /\ i = g /\ x = readbuf
                /\ handled'[i].own = Top.own /\ handled'[i].slot = Top.slot
                /\ handled'[i].seen = x /\ x # 0
    <2> HIDE DEF l, g
    <2>1. i = l + 1 /\ i = g
      BY <1>3, <1>11, <1>15
    <2>2. QED
      BY <1>3, <1>11, <2>1
  <1>16. ASSUME NEW i \in 1..g, i <= l
         PROVE  i \in DOMAIN handled /\ handled'[i] = handled[i]
    <2> HIDE DEF g, l
    <2>1. i \in 1..l
      BY <1>3, <1>11, <1>16
    <2>2. QED
      BY <1>11, <2>1
  <1>17. ASSUME NEW i \in 1..g, NEW j \in 1..g, i < j, handled'[i].slot = 1,
                handled'[j].slot = 1
         PROVE  handled'[i].seen < handled'[j].seen
    <2> HIDE DEF g, l
    <2>1. CASE j <= l
      <3>1. i <= l
        BY <1>3, <1>17, <2>1
      <3>2. QED
        BY <1>16, <1>17, <2>1, <3>1 DEF IInv, Logged, CommandsInOrder
    <2>2. CASE ~(j <= l)
      <3>1. j = l + 1 /\ handled'[j].seen = x /\ Top.slot = 1 /\ x = readbuf
        BY <1>15, <1>17, <2>2
      <3>2. ~ AvBefore(handlers, 1)
        BY DEF AvBefore
      <3>3. x = Top.own
        BY <1>2, <1>3, <1>4, <1>14, <3>1, <3>2 DEF FrameShape
      <3>4. i <= l /\ i \in 1..l
        BY <1>3, <1>17, <3>1
      <3>5. handled[i].seen < Top.own
        BY <1>2, <1>3, <1>5, <3>1, <3>4 DEF Order, NewOnTop
      <3>6. QED
        BY <1>16, <3>1, <3>3, <3>4, <3>5
    <2>3. QED
      BY <2>1, <2>2
  <1>18. ASSUME NEW i \in 1..g
         PROVE  /\ handled'[i].slot <= k
                /\ handled'[i].seen # handled'[i].own =>
                      /\ QoS = 1 /\ handled'[i].seen > handled'[i].own
                      /\ AvBefore(handlers, handled'[i].slot)
    <2> HIDE DEF g, l
    <2>1. CASE i <= l
      BY <1>16, <2>1
      DEF IInv, Logged, SlotsExist, OnlyNestedPublishDisturbs, AvBefore
    <2>2. CASE ~(i <= l)
      <3>1. handled'[i].own = Top.own /\ handled'[i].slot = Top.slot
            /\ handled'[i].seen = x /\ x = readbuf /\ x # 0
        BY <1>15, <2>2
      <3>2. QED
        BY <1>2, <1>3, <1>4, <1>14, <3>1 DEF FrameShape
    <2>3. QED
      BY <2>1, <2>2
  <1>19. CommandsInOrder'
    BY <1>11, <1>17 DEF CommandsInOrder
  <1>20. SlotsExist' /\ OnlyNestedPublishDisturbs'
    BY <1>2, <1>11, <1>18 DEF SlotsExist, OnlyNestedPublishDisturbs, AvBefore
  <1>21. CommandAckFirst'
    BY <1>1, <1>2 DEF IInv, Logged, CommandAckFirst
  <1>22. QED
    BY <1>12, <1>13, <1>19, <1>20, <1>21 DEF IInv, Logged

-------------------------------------------------------------------------------
(* The broker.                                                             *)

\* A packet of the broker joins those on their way; if it is a message, it is a new one.
LEMMA BrokerSends ==
    ASSUME IInv, UNCHANGED <<stack, client, readbuf, open, sent, history, calls>>,
           NEW q \in BrokerPacket, toClient' = Append(toClient, q),
           pushed' \in {pushed, pushed + 1}, pushed' \in 0..MaxPushes,
           q.type = "PUBLISH" => pushed' = pushed + 1 /\ q.id = pushed',
           taken' \in 0..Len(sent), subs' \in BOOLEAN
    PROVE  IInv'
  <1>1. /\ toClient' \in Seq(BrokerPacket) /\ Len(toClient') = Len(toClient) + 1
        /\ toClient'[Len(toClient) + 1] = q
        /\ \A j \in 1..Len(toClient) : toClient'[j] = toClient[j]
    BY TypeFacts, AppendProperties DEF IInv
  <1>2. Order(stack, Len(stack), readbuf, handled, Len(handled),
              toClient', Len(toClient) + 1, pushed')
    BY <1>1, TypeFacts, PublishOrder DEF IInv, Stacked, OrderInv
  <1>3. Stacked'
    BY <1>1, <1>2 DEF IInv, Stacked, ShapeInv, AcksInv, OrderInv, client, history, log
  <1>4. TypeOK'
    <2>1. readbuf' \in 0..pushed'
      BY TypeFacts DEF IInv, TypeOK
    <2>2. QED
      BY <1>1, <2>1 DEF IInv, TypeOK, client, history, log
  <1>5. Logged'
    BY LoggedQuiet DEF IInv, client, history, log
  <1>6. QED
    BY <1>3, <1>4, <1>5 DEF IInv

LEMMA BrokerHandlesStep ==
    ASSUME IInv, BrokerHandles
    PROVE  IInv'
  <1> DEFINE p == sent[taken + 1]
  <1>1. taken \in Nat /\ taken < Len(sent) /\ taken' = taken + 1 /\ Len(sent) \in Nat
    BY TypeFacts DEF BrokerHandles, IInv, TypeOK
  <1>2. taken' \in 0..Len(sent) /\ p \in ClientPacket
    BY <1>1, TypeFacts, ElementOfSeq DEF IInv
  <1>3. /\ subs' \in BOOLEAN
        /\ UNCHANGED <<stack, client, readbuf, open, sent, history, pushed, calls>>
    BY DEF BrokerHandles, IInv, TypeOK
  <1>4. ASSUME NEW q \in {Pkt("SUBACK", p.id, 0), Pkt("PUBACK", p.id, 0)},
               toClient' = Append(toClient, q)
        PROVE  IInv'
    <2>1. q \in BrokerPacket /\ q.type # "PUBLISH"
      BY <1>2 DEF Pkt, BrokerPacket, ClientPacket
    <2>2. pushed' \in 0..MaxPushes /\ pushed' = pushed
      BY <1>3 DEF IInv, TypeOK
    <2> HIDE DEF p
    <2>3. QED
      BY <1>2, <1>3, <1>4, <2>1, <2>2, BrokerSends
  <1>5. CASE toClient' = toClient
    <2>1. Stacked' /\ TypeOK'
      BY <1>2, <1>3, <1>5
      DEF IInv, Stacked, ShapeInv, AcksInv, OrderInv, TypeOK, client, history, log
    <2>2. Logged'
      BY <1>3, LoggedQuiet DEF IInv, client, history, log
    <2>3. QED
      BY <2>1, <2>2 DEF IInv
  <1>6. QED
    BY <1>4, <1>5 DEF BrokerHandles

LEMMA BrokerPublishesStep ==
    ASSUME IInv, BrokerPublishes
    PROVE  IInv'
  <1>1. PICK c \in 0..QoS : toClient' = Append(toClient, Pkt("PUBLISH", pushed + 1, c))
    BY DEF BrokerPublishes
  <1>2. /\ pushed' = pushed + 1 /\ pushed < MaxPushes /\ pushed \in Nat
        /\ UNCHANGED <<stack, client, readbuf, open, sent, taken, subs, history, calls>>
    BY TypeFacts DEF BrokerPublishes, IInv
  <1>3. Pkt("PUBLISH", pushed + 1, c) \in BrokerPacket /\ Pkt("PUBLISH", pushed + 1, c).id = pushed'
    BY <1>1, <1>2, QoSAssumption DEF Pkt, BrokerPacket
  <1>4. pushed' \in 0..MaxPushes /\ taken' \in 0..Len(sent) /\ subs' \in BOOLEAN
    BY <1>2, BoundAssumption DEF IInv, TypeOK
  <1>5. QED
    BY <1>1, <1>2, <1>3, <1>4, BrokerSends

LEMMA BrokerClosesStep ==
    ASSUME IInv, BrokerCloses
    PROVE  IInv'
  <1>1. /\ open' \in BOOLEAN
        /\ UNCHANGED <<stack, client, readbuf, sent, taken, toClient, subs, history, pushed, calls>>
    BY DEF BrokerCloses
  <1>2. Stacked' /\ TypeOK'
    BY <1>1
    DEF IInv, Stacked, ShapeInv, AcksInv, OrderInv, TypeOK, client, history, log
  <1>3. Logged'
    BY <1>1, LoggedQuiet DEF IInv, client, history, log
  <1>4. QED
    BY <1>2, <1>3 DEF IInv

-------------------------------------------------------------------------------

LEMMA InitInv == Init => IInv
  <1> SUFFICES ASSUME Init PROVE IInv
    OBVIOUS
  <1>1. Len(stack) = 0 /\ Len(toClient) = 0 /\ Len(handled) = 0 /\ Len(sent) = 0
        /\ Len(handlers) = 0 /\ DOMAIN sent = {} /\ DOMAIN handled = {}
    BY DEF Init
  <1>2. TypeOK
    <2>1. \A S : <<>> \in Seq(S)
      BY EmptySeq
    <2>2. /\ 0 \in 0..MaxPushes /\ 0 \in 0..MaxCalls /\ 0 <= MaxHandlers
      BY BoundAssumption, SizeAssumption
    <2>3. /\ stack \in Seq(FrameType) /\ handlers \in Seq({"av", "user"})
          /\ sent \in Seq(ClientPacket) /\ toClient \in Seq(BrokerPacket)
          /\ handled \in Seq([own : Nat, slot : Nat, seen : Nat])
      BY <2>1 DEF Init
    <2>4. /\ isconnected \in BOOLEAN /\ open \in BOOLEAN /\ subs \in BOOLEAN
          /\ acked \in SUBSET Nat /\ eaten \in SUBSET Nat /\ unclaimed \in SUBSET Nat
      BY DEF Init
    <2>5. /\ Len(handlers) <= MaxHandlers /\ next_packetid \in Nat /\ readbuf \in 0..pushed
          /\ taken \in 0..Len(sent) /\ pushed \in 0..MaxPushes /\ calls \in 0..MaxCalls
      BY <1>1, <2>2 DEF Init
    <2>6. QED
      BY <2>3, <2>4, <2>5 DEF TypeOK
  <1>3. Stacked
    BY <1>1 DEF Init, Stacked, ShapeInv, AcksInv, OrderInv, Shape, Acks, Order, Later, InOrder,
                NewOnTop
  <1>4. Logged
    BY <1>1 DEF Logged, CommandsInOrder, OnlyNestedPublishDisturbs, CommandAckFirst, SlotsExist
  <1>5. QED
    BY <1>2, <1>3, <1>4 DEF IInv

LEMMA Inductive == Spec => []IInv
  <1>1. IInv /\ [Next]_vars => IInv'
    <2> SUFFICES ASSUME IInv, [Next]_vars PROVE IInv'
      OBVIOUS
    <2>1. CASE UNCHANGED vars
      BY <2>1
      DEF IInv, Stacked, ShapeInv, AcksInv, OrderInv, TypeOK, Logged, CommandsInOrder, SlotsExist,
          OnlyNestedPublishDisturbs, CommandAckFirst, vars, client, broker, history, log
    <2>2. CASE Run
      BY <2>2, QuietStep, ReadPublishStep, ReadAnswerStep, ReadEofStep, CallHandlerStep,
         SendPubackStep
      DEF Run
    <2>3. QED
      BY <2>1, <2>2, ApiStep, QuietStep, BrokerClosesStep, BrokerHandlesStep, BrokerPublishesStep
      DEF Next
  <1>2. QED
    BY <1>1, InitInv, PTL DEF Spec

\* Calls, frames, packets and logs keep to their types, for any bounds.
THEOREM TypeCorrect == Spec => []TypeOK
  <1>1. IInv => TypeOK
    BY DEF IInv
  <1>2. QED
    BY <1>1, Inductive, PTL

\* mqtt_avOnIncomingMessage sees the commands in the order they were published, each
\* once, however deep the deliveries are nested.
THEOREM CommandsKeepTheirOrder == Spec => []CommandsInOrder
  <1>1. IInv => CommandsInOrder
    BY DEF IInv, Logged
  <1>2. QED
    BY <1>1, Inductive, PTL

\* deliverMessage hands a later message to a handler only behind an AirVantage handler
\* that published at QoS 1 from inside the same delivery.
THEOREM OnlyPublishersDisturb == Spec => []OnlyNestedPublishDisturbs
  <1>1. IInv => OnlyNestedPublishDisturbs
    BY DEF IInv, Logged
  <1>2. QED
    BY <1>1, Inductive, PTL

\* cycle sends the PUBACK of a command after mqtt_avPublishAck has returned.
THEOREM AckBeforePuback == Spec => []CommandAckFirst
  <1>1. IInv => CommandAckFirst
    BY DEF IInv, Logged
  <1>2. QED
    BY <1>1, Inductive, PTL

-------------------------------------------------------------------------------
(* Answers: P are the packets the broker has still to handle, Q those on   *)
(* their way to the client, E the identifiers of answers read by a call    *)
(* they do not belong to.                                                  *)

Reply(f) == Pkt(Awaited(f), f.id, 0)
Promised(f, P, Q, E) == Request(f) \in P \/ Reply(f) \in Q \/ f.id \in E
Answered(s, n, P, Q, E) == \A i \in 1..n : Waits(s[i]) => Promised(s[i], P, Q, E)

\* At QoS 1 the identifiers grow with the stack, so an answer is of one call at most;
\* at QoS 0 no publish waits.
FrameId(s, n, x, i) ==
    /\ s[i].id <= x
    /\ s[i].op \in {"publish", "ack"} /\ QoS = 0 => s[i].pc = "send"
    /\ QoS = 1 => \A j \in 1..n : i < j => s[i].id < s[j].id

Ids(s, n, x) == \A i \in 1..n : FrameId(s, n, x, i)

LEMMA SettlesIds ==
    ASSUME NEW s, NEW n, NEW t, NEW m, NEW k, NEW x, Settles(s, n, t, m, k), Ids(s, n, x)
    PROVE  Ids(t, m, x)
  <1> SUFFICES ASSUME NEW i \in 1..m PROVE FrameId(t, m, x, i)
    BY DEF Ids
  <1>1. i \in 1..n /\ Follows(t[i], s[i], k)
    BY SettledFrame
  <1>2. FrameId(s, n, x, i)
    BY <1>1 DEF Ids
  <1>3. ASSUME NEW j \in 1..m, i < j, QoS = 1 PROVE t[i].id < t[j].id
    <2>1. j \in 1..n /\ Follows(t[j], s[j], k)
      BY SettledFrame
    <2>2. QED
      BY <1>1, <1>2, <1>3, <2>1 DEF FrameId, Follows
  <1>4. t[i].op \in {"publish", "ack"} /\ QoS = 0 => t[i].pc = "send"
    BY <1>1, <1>2 DEF FrameId, Follows
  <1>5. QED
    BY <1>1, <1>2, <1>3, <1>4 DEF FrameId, Follows

LEMMA SameAnswer ==
    ASSUME NEW f, NEW g, NEW k, Follows(g, f, k)
    PROVE  /\ Request(g) = Request(f) /\ Reply(g) = Reply(f) /\ g.id = f.id
           /\ Waits(g) => Waits(f) \/ f.pc = "send"
  BY DEF Follows, Request, Reply, Awaited, Waits

LEMMA SettlesAnswered ==
    ASSUME NEW s, NEW n, NEW t, NEW m, NEW k, NEW P, NEW Q, NEW E, NEW B, NEW C, NEW D,
           Settles(s, n, t, m, k), Answered(s, n, P, Q, E),
           \A i \in 1..m : Waits(s[i]) /\ Promised(s[i], P, Q, E) => Promised(s[i], B, C, D),
           s[n].pc = "send" /\ m = n => t[n].pc = "send" \/ Request(s[n]) \in B
    PROVE  Answered(t, m, B, C, D)
  <1> SUFFICES ASSUME NEW i \in 1..m, Waits(t[i]) PROVE Promised(t[i], B, C, D)
    BY DEF Answered
  <1>1. /\ i \in 1..n /\ Follows(t[i], s[i], k) /\ (i # n => t[i].pc = s[i].pc)
        /\ n \in Nat /\ m \in {n - 1, n}
    BY SettledFrame DEF Settles
  <1>2. /\ Request(t[i]) = Request(s[i]) /\ Reply(t[i]) = Reply(s[i]) /\ t[i].id = s[i].id
        /\ Waits(s[i]) \/ s[i].pc = "send"
    BY <1>1, SameAnswer
  <1>3. CASE Waits(s[i])
    BY <1>1, <1>2, <1>3 DEF Answered, Promised
  <1>4. CASE s[i].pc = "send"
    <2>1. i = n /\ m = n
      BY <1>1, <1>4 DEF Waits
    <2>2. QED
      BY <1>2, <1>4, <2>1 DEF Promised, Waits
  <1>5. QED
    BY <1>2, <1>3, <1>4

ToHandle == {sent[i] : i \in (taken + 1)..Len(sent)}
OnWay == {toClient[i] : i \in DOMAIN toClient}

AnswerInv ==
    /\ Ids(stack, Len(stack), next_packetid)
    /\ open => Answered(stack, Len(stack), ToHandle, OnWay, eaten)

LEMMA AnswersPromised ==
    ASSUME TypeOK, AnswerInv
    PROVE  AnswersToCome
  <1> SUFFICES ASSUME NEW i \in DOMAIN stack, open, Waits(stack[i])
               PROVE  ToCome(stack[i]) \/ stack[i].id \in eaten
    BY DEF AnswersToCome
  <1>1. Promised(stack[i], ToHandle, OnWay, eaten)
    BY TypeFacts DEF AnswerInv, Answered
  <1>2. QED
    BY <1>1 DEF Promised, ToHandle, OnWay, Reply, ToCome

\* What becomes of the packets on their way.
LEMMA Written ==
    ASSUME TypeOK, taken' = taken, NEW p \in ClientPacket, sent' = Append(sent, p)
    PROVE  ToHandle \subseteq ToHandle' /\ p \in ToHandle'
  <1>1. sent \in Seq(ClientPacket) /\ Len(sent) \in Nat /\ taken \in Nat /\ taken <= Len(sent)
    BY TypeFacts DEF TypeOK
  <1>2. /\ Len(sent') = Len(sent) + 1 /\ sent'[Len(sent) + 1] = p
        /\ \A i \in 1..Len(sent) : sent'[i] = sent[i]
    BY <1>1, AppendProperties
  <1>3. ASSUME NEW i \in (taken + 1)..Len(sent)
        PROVE  i \in (taken + 1)..Len(sent') /\ sent[i] = sent'[i]
    BY <1>1, <1>2
  <1>4. Len(sent) + 1 \in (taken + 1)..Len(sent')
    BY <1>1, <1>2
  <1>5. QED
    BY <1>2, <1>3, <1>4 DEF ToHandle

LEMMA Handled ==
    ASSUME TypeOK, taken' = taken + 1, sent' = sent
    PROVE  ToHandle \subseteq ToHandle' \cup {sent[taken + 1]}
  <1>1. Len(sent) \in Nat /\ taken \in Nat
    BY TypeFacts DEF TypeOK
  <1>2. \A i \in (taken + 1)..Len(sent) : i = taken + 1 \/ i \in (taken + 1 + 1)..Len(sent)
    BY <1>1
  <1>3. QED
    BY <1>2 DEF ToHandle

LEMMA Answers ==
    ASSUME TypeOK, NEW q \in BrokerPacket, toClient' = Append(toClient, q)
    PROVE  OnWay \subseteq OnWay' /\ q \in OnWay'
  <1>1. toClient \in Seq(BrokerPacket) /\ Len(toClient) \in Nat /\ DOMAIN toClient = 1..Len(toClient)
    BY TypeFacts, LenProperties
  <1>2. /\ toClient' \in Seq(BrokerPacket) /\ Len(toClient') = Len(toClient) + 1
        /\ toClient'[Len(toClient) + 1] = q
        /\ \A i \in 1..Len(toClient) : toClient'[i] = toClient[i]
    BY <1>1, AppendProperties
  <1>3. DOMAIN toClient' = 1..Len(toClient')
    BY <1>2, LenProperties
  <1>4. QED
    BY <1>1, <1>2, <1>3 DEF OnWay

LEMMA HeadRead ==
    ASSUME TypeOK, toClient # <<>>, toClient' = Tail(toClient)
    PROVE  OnWay \subseteq OnWay' \cup {Head(toClient)}
  <1>1. /\ toClient' \in Seq(BrokerPacket) /\ Len(toClient') = Len(toClient) - 1
        /\ Head(toClient) = toClient[1] /\ Len(toClient) \in Nat \ {0}
        /\ \A j \in 1..(Len(toClient) - 1) : toClient'[j] = toClient[j + 1]
    BY HeadMoves
  <1>2. DOMAIN toClient = 1..Len(toClient) /\ DOMAIN toClient' = 1..Len(toClient')
    BY <1>1, TypeFacts, LenProperties
  <1>3. \A i \in 1..Len(toClient) :
           i = 1 \/ (i - 1 \in DOMAIN toClient' /\ toClient[i] = toClient'[i - 1])
    BY <1>1, <1>2
  <1>4. ASSUME NEW i \in DOMAIN toClient
        PROVE  toClient[i] = Head(toClient) \/ \E j \in DOMAIN toClient' : toClient'[j] = toClient[i]
    BY <1>1, <1>2, <1>3
  <1>5. QED
    BY <1>4 DEF OnWay

\* A step that reads a message or calls a handler: the calls are the same, and there may be
\* a new one on top.
SameCall(g, f) ==
    /\ g.op = f.op /\ g.id = f.id /\ g.uid = f.uid
    /\ g.pc = f.pc \/ (f.pc # "send" /\ g.pc # "send")

Keeps(s, n, t, m, x, y) ==
    /\ n \in Nat /\ x \in Nat /\ y \in Nat /\ x <= y /\ m \in {n, n + 1}
    /\ \A i \in 1..n : s[i] \in FrameType /\ SameCall(t[i], s[i])
    /\ m = n + 1 => /\ t[m].pc = "send" /\ t[m].id \in Nat /\ t[m].id <= y
                    /\ QoS = 1 => t[m].id > x

LEMMA KeepsIds ==
    ASSUME NEW s, NEW n, NEW t, NEW m, NEW x, NEW y, Keeps(s, n, t, m, x, y), Ids(s, n, x)
    PROVE  Ids(t, m, y)
  <1> SUFFICES ASSUME NEW i \in 1..m PROVE FrameId(t, m, y, i)
    BY DEF Ids
  <1>1. n \in Nat /\ m \in Nat /\ (m = n \/ m = n + 1) /\ x \in Nat /\ y \in Nat /\ x <= y
    BY DEF Keeps
  <1>2. CASE i \in 1..n
    <2>1. SameCall(t[i], s[i]) /\ FrameId(s, n, x, i) /\ s[i].id \in Nat
      BY <1>2 DEF Keeps, Ids, FrameType
    <2>2. t[i].id <= y
      BY <1>1, <2>1 DEF SameCall, FrameId
    <2>3. t[i].op \in {"publish", "ack"} /\ QoS = 0 => t[i].pc = "send"
      BY <2>1 DEF SameCall, FrameId
    <2>4. ASSUME QoS = 1, NEW j \in 1..m, i < j PROVE t[i].id < t[j].id
      <3>1. CASE j \in 1..n
        <4>1. SameCall(t[j], s[j])
          BY <3>1 DEF Keeps
        <4>2. QED
          BY <2>1, <2>4, <3>1, <4>1 DEF SameCall, FrameId
      <3>2. CASE j = n + 1
        <4>1. j = m /\ t[m].id \in Nat /\ t[m].id > x
          BY <1>1, <2>4, <3>2 DEF Keeps
        <4>2. t[i].id <= x /\ t[i].id \in Nat
          BY <2>1 DEF SameCall, FrameId
        <4>3. QED
          BY <1>1, <4>1, <4>2
      <3>3. QED
        BY <1>1, <3>1, <3>2
    <2>5. QED
      BY <2>2, <2>3, <2>4 DEF FrameId
  <1>3. CASE i = n + 1
    <2>1. m = n + 1 /\ t[i].pc = "send" /\ t[i].id <= y
      BY <1>1, <1>3 DEF Keeps
    <2>2. \A j \in 1..m : ~(i < j)
      BY <1>1, <1>3
    <2>3. QED
      BY <2>1, <2>2 DEF FrameId
  <1>4. QED
    BY <1>1, <1>2, <1>3

LEMMA KeepsAnswered ==
    ASSUME NEW s, NEW n, NEW t, NEW m, NEW x, NEW y, NEW P, NEW Q, NEW E, NEW C,
           Keeps(s, n, t, m, x, y), Answered(s, n, P, Q, E),
           \A i \in 1..n : Waits(s[i]) /\ Promised(s[i], P, Q, E) => Promised(s[i], P, C, E)
    PROVE  Answered(t, m, P, C, E)
  <1> SUFFICES ASSUME NEW i \in 1..m, Waits(t[i]) PROVE Promised(t[i], P, C, E)
    BY DEF Answered
  <1>1. i \in 1..n
    BY DEF Keeps, Waits
  <1>2. SameCall(t[i], s[i])
    BY <1>1 DEF Keeps
  <1>3. Waits(s[i]) /\ Request(t[i]) = Request(s[i]) /\ Reply(t[i]) = Reply(s[i])
        /\ t[i].id = s[i].id
    BY <1>2 DEF SameCall, Waits, Awaited, Request, Reply
  <1>4. Promised(s[i], P, C, E)
    BY <1>1, <1>3 DEF Answered
  <1>5. QED
    BY <1>3, <1>4 DEF Promised

LEMMA AnswersNoMessage ==
    \A f : Reply(f).type # "PUBLISH" /\ Reply(f).id = f.id /\ Reply(f).type = Awaited(f)
  BY DEF Reply, Pkt, Awaited

LEMMA ApiAnswers ==
    ASSUME IInv, AnswerInv, Api
    PROVE  AnswerInv'
  <1>1. PICK f : /\ stack' = <<f>> /\ ~Waits(f) /\ f.id \in Nat /\ f.id <= next_packetid'
                 /\ f.op # "ack" /\ (f.op = "publish" => f.pc = "send")
    <2>1. next_packetid \in Nat
      BY DEF IInv, TypeOK
    <2>2. CASE Yield
      BY <2>1, <2>2 DEF Yield, Frame, Waits, Awaited, client
    <2>3. CASE Publish
      BY <2>1, <2>3 DEF Publish, Call, Frame, Waits, PublishId
    <2>4. CASE Subscribe
      BY <2>1, <2>4 DEF Subscribe, Call, Frame, Waits
    <2>5. QED
      BY <2>2, <2>3, <2>4 DEF Api
  <1>2. Len(stack') = 1 /\ stack'[1] = f
    BY <1>1
  <1>3. Ids(stack', 1, next_packetid')
    BY <1>1, <1>2 DEF Ids, FrameId
  <1>4. \A P, Q, E : Answered(stack', 1, P, Q, E)
    BY <1>1, <1>2 DEF Answered
  <1>5. QED
    BY <1>2, <1>3, <1>4 DEF AnswerInv

\* Calls that go on or return.
LEMMA QuietAnswers ==
    ASSUME IInv, AnswerInv, \/ Send \/ SendFails \/ WaitExpired \/ ReadTimesOut \/ ReadEof
                            \/ Delivered \/ SendPuback \/ TimerExpires
    PROVE  AnswerInv'
  <1>1. Settled /\ TypeOK
    BY RunSettles DEF IInv
  <1>2. UNCHANGED <<next_packetid, open, taken, toClient, eaten>>
    BY DEF Send, SendFails, WaitExpired, ReadTimesOut, ReadEof, Delivered, SendPuback, TimerExpires,
           client, broker, history, log
  <1>3. ToHandle \subseteq ToHandle' /\ OnWay' = OnWay
    <2>1. CASE sent' = sent
      BY <1>2, <2>1 DEF ToHandle, OnWay
    <2>2. ASSUME NEW p \in ClientPacket, sent' = Append(sent, p)
          PROVE  ToHandle \subseteq ToHandle' /\ OnWay' = OnWay
      BY <1>1, <1>2, <2>2, Written DEF OnWay
    <2>3. sent' = sent \/ \E p \in ClientPacket : sent' = Append(sent, p)
      <3>1. stack # <<>> => Top \in FrameType
        BY TopFacts DEF IInv
      <3>2. Top \in FrameType => Request(Top) \in ClientPacket
                                  /\ Pkt("PUBACK", Top.own, 0) \in ClientPacket
        BY DEF Request, Pkt, ClientPacket, FrameType
      <3>3. QED
        BY <3>1, <3>2 DEF Send, SendFails, WaitExpired, ReadTimesOut, ReadEof, Delivered,
                          SendPuback, TimerExpires, history
    <2>4. QED
      BY <2>1, <2>2, <2>3
  <1>4. Settles(stack, Len(stack), stack', Len(stack'), Len(handlers))
    BY <1>1 DEF Settled
  <1>5. Ids(stack', Len(stack'), next_packetid')
    BY <1>2, <1>4, SettlesIds DEF AnswerInv
  <1>6. stack[Len(stack)].pc = "send" /\ Len(stack') = Len(stack) =>
            stack'[Len(stack)].pc = "send" \/ Request(stack[Len(stack)]) \in ToHandle'
    <2>1. CASE Send
      <3>1. stack # <<>> /\ Top \in FrameType
        BY <2>1, TopFacts DEF IInv, Send
      <3>2. Request(Top) \in ClientPacket
        BY <3>1 DEF Request, Pkt, ClientPacket, FrameType
      <3>3. QED
        BY <1>1, <1>2, <2>1, <3>2, Written DEF Send, Top
    <2>2. CASE SendFails
      <3>1. Len(stack') = Len(stack) - 1 /\ Len(stack) \in Nat
        BY <2>2, ReturnSettles, TypeFacts DEF SendFails, IInv
      <3>2. QED
        BY <3>1
    <2>3. CASE TimerExpires
      <3>1. stack # <<>> => stack'[Len(stack)].pc = stack[Len(stack)].pc
        <4>1. PICK i \in DOMAIN stack : stack' = [stack EXCEPT ![i].timedOut = TRUE]
          BY <2>3 DEF TimerExpires
        <4>2. QED
          BY <4>1, TypeFacts, TopFacts, ElementOfSeq DEF IInv, FrameType
      <3>2. stack # <<>>
        BY <2>3, TypeFacts DEF TimerExpires, IInv
      <3>3. QED
        BY <3>1, <3>2
    <2>4. QED
      BY <2>1, <2>2, <2>3
      DEF WaitExpired, ReadTimesOut, ReadEof, Delivered, SendPuback, Reading, Waiting, Top
  <1>7. open => Answered(stack', Len(stack'), ToHandle', OnWay', eaten')
    BY <1>2, <1>3, <1>4, <1>6, SettlesAnswered DEF AnswerInv, Promised
  <1>8. QED
    BY <1>2, <1>5, <1>7 DEF AnswerInv

\* An answer that another call waits for is noted as eaten.
LEMMA ReadAnswers ==
    ASSUME IInv, AnswerInv, ReadAnswer
    PROVE  AnswerInv'
  <1> DEFINE p == Head(toClient)
             n == Len(stack)
             m == Len(stack')
  <1>1. /\ stack # <<>> /\ Top.pc = "wait" /\ toClient # <<>> /\ toClient' = Tail(toClient)
        /\ UNCHANGED <<next_packetid, open, taken, sent>>
        /\ IF p.type = Awaited(Top) THEN Return ELSE NextRound
        /\ eaten' = IF p.id = Top.id THEN eaten ELSE eaten \cup {p.id}
    BY DEF ReadAnswer, Reading, Waiting, broker
  <1>2. /\ Settles(stack, n, stack', m, Len(handlers))
        /\ p.type = Awaited(Top) => m = n - 1
    BY <1>1, RunSettles, ReturnSettles DEF Settled, IInv
  <1>3. n \in Nat \ {0} /\ Top = stack[n] /\ n \in 1..n /\ m \in {n - 1, n}
    BY <1>1, <1>2, TopFacts DEF IInv, Settles
  <1>4. ToHandle' = ToHandle /\ OnWay \subseteq OnWay' \cup {p}
    BY <1>1, HeadRead DEF ToHandle, IInv
  <1>5. ASSUME NEW i \in 1..m, Waits(stack[i]), Reply(stack[i]) = p
        PROVE  stack[i].id \in eaten'
    <2>1. p.type = Awaited(stack[i]) /\ p.id = stack[i].id
      BY <1>5, AnswersNoMessage
    <2>2. i < n /\ i \in 1..n
      <3>1. i # n
        BY <1>2, <1>3, <2>1
      <3>2. QED
        BY <1>3, <3>1
    <2>3. stack[n].op = "ack" /\ QoS # 0
      BY <1>1, <1>3, <2>2 DEF IInv, Stacked, ShapeInv, Shape, FrameShape
    <2>4. stack[i].id < stack[n].id
      BY <1>3, <2>2, <2>3, QoSAssumption DEF AnswerInv, Ids, FrameId
    <2>5. stack[i].id \in Nat /\ stack[n].id \in Nat
      BY <1>3, <2>2, TypeFacts DEF IInv, Frames, FrameType
    <2>6. QED
      BY <1>1, <1>3, <2>1, <2>4, <2>5
  <1>6. Ids(stack', m, next_packetid')
    BY <1>1, <1>2, SettlesIds DEF AnswerInv
  <1>7. open => Answered(stack', m, ToHandle', OnWay', eaten')
    <2> SUFFICES ASSUME open PROVE Answered(stack', m, ToHandle', OnWay', eaten')
      OBVIOUS
    <2>1. Answered(stack, n, ToHandle, OnWay, eaten)
      BY DEF AnswerInv
    <2>2. eaten \subseteq eaten'
      BY <1>1
    <2>3. ASSUME NEW i \in 1..m, Waits(stack[i]), Promised(stack[i], ToHandle, OnWay, eaten)
          PROVE  Promised(stack[i], ToHandle', OnWay', eaten')
      <3> HIDE DEF p, m
      <3>1. QED
        BY <1>4, <1>5, <2>2, <2>3 DEF Promised
    <2>4. stack[n].pc # "send"
      BY <1>1, <1>3
    <2> HIDE DEF p, n, m
    <2>5. QED
      BY <1>2, <2>1, <2>3, <2>4, SettlesAnswered
  <1>8. QED
    BY <1>1, <1>6, <1>7 DEF AnswerInv

\* A message read is no answer.
LEMMA DeliveryAnswers ==
    ASSUME IInv, AnswerInv, ReadPublish
    PROVE  AnswerInv'
  <1> DEFINE p == Head(toClient)
             n == Len(stack)
             f == ReadInto(Top, p.id, p.code)
  <1>1. /\ stack # <<>> /\ Top.pc = "wait" /\ toClient # <<>> /\ p.type = "PUBLISH"
        /\ stack' = WithTop(f) /\ toClient' = Tail(toClient)
        /\ UNCHANGED <<next_packetid, open, taken, sent, eaten>>
    BY DEF ReadPublish, Reading, Waiting, Deliver, ReadInto, client, broker
  <1>2. Top \in FrameType /\ Top = stack[n] /\ n \in Nat \ {0} /\ next_packetid \in Nat
    BY <1>1, TopFacts DEF IInv, TypeOK
  <1>3. f \in FrameType /\ SameCall(f, Top)
    <2>1. p.id \in Nat /\ p.code \in {0, 1}
      BY <1>1, HeadMoves DEF IInv, BrokerPacket
    <2> HIDE DEF p
    <2>2. f \in FrameType /\ f.op = Top.op /\ f.uid = Top.uid /\ f.pc = "deliver"
      BY <1>2, <2>1, FrameRead
    <2>3. f.id = Top.id
      BY <1>2 DEF FrameType, ReadInto
    <2>4. QED
      BY <1>1, <2>2, <2>3 DEF SameCall
  <1>4. Len(stack') = n /\ Retops(stack, n, stack', f)
    BY <1>1, <1>3, TopReplaced DEF IInv
  <1>5. Keeps(stack, n, stack', Len(stack'), next_packetid, next_packetid')
    <2>1. ASSUME NEW i \in 1..n PROVE stack[i] \in FrameType /\ SameCall(stack'[i], stack[i])
      <3>1. stack[i] \in FrameType
        BY TypeFacts DEF IInv, Frames
      <3>2. i = n \/ stack'[i] = stack[i]
        BY <1>2, <1>4 DEF Retops
      <3>3. QED
        BY <1>2, <1>3, <1>4, <3>1, <3>2 DEF Retops, SameCall
    <2> HIDE DEF f, p
    <2>2. QED
      BY <1>1, <1>2, <1>4, <2>1 DEF Keeps
  <1>6. ToHandle' = ToHandle /\ OnWay \subseteq OnWay' \cup {p}
    BY <1>1, HeadRead DEF ToHandle, IInv
  <1>7. ASSUME NEW g, Promised(g, ToHandle, OnWay, eaten)
        PROVE  Promised(g, ToHandle, OnWay', eaten)
    BY <1>1, <1>6, <1>7, AnswersNoMessage DEF Promised
  <1> HIDE DEF f, p, n
  <1>8. Ids(stack', Len(stack'), next_packetid')
    BY <1>5, KeepsIds DEF AnswerInv, n
  <1>9. open => Answered(stack', Len(stack'), ToHandle, OnWay', eaten)
    BY <1>5, <1>7, KeepsAnswered DEF AnswerInv, n
  <1>10. QED
    BY <1>1, <1>6, <1>8, <1>9 DEF AnswerInv

\* The acknowledgement of a command gets an identifier of its own.
LEMMA CallAnswers ==
    ASSUME IInv, AnswerInv, CallHandler
    PROVE  AnswerInv'
  <1> DEFINE n == Len(stack)
  <1>1. PICK x \in Seen :
          /\ stack' = IF Acknowledges(handlers[Top.slot], x) /\ isconnected
                      THEN Append(WithTop(NextSlot), Frame("ack", "none", x, PublishId, "send"))
                      ELSE WithTop(NextSlot)
          /\ next_packetid' = IF Acknowledges(handlers[Top.slot], x) /\ isconnected /\ QoS = 1
                              THEN PublishId ELSE next_packetid
    BY DEF CallHandler
  <1>2. /\ stack # <<>> /\ UNCHANGED <<open, taken, sent, toClient, eaten>>
    BY DEF CallHandler, broker
  <1>3. Top \in FrameType /\ Top = stack[n] /\ n \in Nat \ {0} /\ next_packetid \in Nat
    BY <1>2, TopFacts DEF IInv, TypeOK
  <1>4. x \in Nat /\ PublishId \in Nat /\ (QoS = 0 => PublishId = 0)
        /\ (QoS = 1 => PublishId = next_packetid + 1)
    BY <1>3, TypeFacts DEF Seen, IInv, PublishId
  <1>5. NextSlot \in FrameType /\ SameCall(NextSlot, Top)
    BY <1>3 DEF NextSlot, FrameType, SameCall
  <1>6. /\ WithTop(NextSlot) \in Seq(FrameType) /\ Len(WithTop(NextSlot)) = n
        /\ Retops(stack, n, WithTop(NextSlot), NextSlot)
    BY <1>2, <1>5, TopReplaced DEF IInv
  <1>7. ASSUME NEW i \in 1..n
        PROVE  stack[i] \in FrameType /\ SameCall(WithTop(NextSlot)[i], stack[i])
    <2>1. stack[i] \in FrameType
      BY TypeFacts DEF IInv, Frames
    <2>2. i = n \/ WithTop(NextSlot)[i] = stack[i]
      BY <1>3, <1>6 DEF Retops
    <2>3. QED
      BY <1>3, <1>5, <1>6, <2>1, <2>2 DEF Retops, SameCall
  <1>8. Keeps(stack, n, stack', Len(stack'), next_packetid, next_packetid')
    <2>1. CASE Acknowledges(handlers[Top.slot], x) /\ isconnected
      <3> DEFINE f == Frame("ack", "none", x, PublishId, "send")
                 s == WithTop(NextSlot)
      <3>1. f \in FrameType /\ f.pc = "send" /\ f.id = PublishId
        BY <1>4 DEF Frame, FrameType
      <3>2. stack' = Append(s, f) /\ next_packetid' = IF QoS = 1 THEN PublishId ELSE next_packetid
        BY <1>1, <2>1
      <3>3. s \in Seq(FrameType) /\ Len(s) = n /\ \A i \in 1..n : SameCall(s[i], stack[i])
        BY <1>6, <1>7
      <3> HIDE DEF f, s
      <3>4. /\ Len(stack') = n + 1 /\ stack'[n + 1] = f
            /\ \A i \in 1..n : stack'[i] = s[i]
        BY <3>1, <3>2, <3>3, AppendProperties
      <3> HIDE DEF n
      <3>5. next_packetid' \in Nat /\ next_packetid <= next_packetid'
            /\ f.id <= next_packetid' /\ (QoS = 1 => f.id > next_packetid) /\ f.id \in Nat
        BY <1>3, <1>4, <3>1, <3>2, QoSAssumption
      <3>6. QED
        BY <1>3, <1>7, <3>1, <3>3, <3>4, <3>5 DEF Keeps
    <2>2. CASE ~(Acknowledges(handlers[Top.slot], x) /\ isconnected)
      <3>1. stack' = WithTop(NextSlot) /\ next_packetid' = next_packetid
        BY <1>1, <2>2
      <3> HIDE DEF n
      <3>2. QED
        BY <1>3, <1>6, <1>7, <3>1 DEF Keeps
    <2>3. QED
      BY <2>1, <2>2
  <1>9. ToHandle' = ToHandle /\ OnWay' = OnWay
    BY <1>2 DEF ToHandle, OnWay
  <1> HIDE DEF n
  <1>10. Ids(stack', Len(stack'), next_packetid')
    BY <1>8, KeepsIds DEF AnswerInv, n
  <1>11. open => Answered(stack', Len(stack'), ToHandle, OnWay, eaten)
    BY <1>8, KeepsAnswered DEF AnswerInv, n
  <1>12. QED
    BY <1>2, <1>9, <1>10, <1>11 DEF AnswerInv

\* The broker answers what it handles.
LEMMA BrokerAnswers ==
    ASSUME IInv, AnswerInv, BrokerHandles
    PROVE  AnswerInv'
  <1> DEFINE p == sent[taken + 1]
  <1>1. UNCHANGED <<stack, next_packetid, sent, eaten, open>> /\ open /\ taken' = taken + 1
        /\ toClient' = IF p.type = "SUBSCRIBE" THEN Append(toClient, Pkt("SUBACK", p.id, 0))
                       ELSE IF p.type = "PUBLISH" /\ QoS = 1
                       THEN Append(toClient, Pkt("PUBACK", p.id, 0)) ELSE toClient
    BY DEF BrokerHandles, client, history, log
  <1>2. ToHandle \subseteq ToHandle' \cup {p}
    BY <1>1, Handled DEF IInv
  <1>3. p \in ClientPacket
    <2>1. taken \in Nat /\ taken < Len(sent) /\ Len(sent) \in Nat /\ sent \in Seq(ClientPacket)
      BY TypeFacts DEF BrokerHandles, IInv, TypeOK
    <2>2. QED
      BY <2>1, ElementOfSeq
  <1>4. /\ Pkt("SUBACK", p.id, 0) \in BrokerPacket /\ Pkt("PUBACK", p.id, 0) \in BrokerPacket
    BY <1>3 DEF Pkt, BrokerPacket, ClientPacket
  <1>5. /\ OnWay \subseteq OnWay'
        /\ p.type = "SUBSCRIBE" => Pkt("SUBACK", p.id, 0) \in OnWay'
        /\ p.type = "PUBLISH" /\ QoS = 1 => Pkt("PUBACK", p.id, 0) \in OnWay'
    <2>1. CASE toClient' = toClient /\ p.type # "SUBSCRIBE" /\ ~(p.type = "PUBLISH" /\ QoS = 1)
      BY <2>1 DEF OnWay
    <2>2. CASE p.type = "SUBSCRIBE"
      <3> HIDE DEF p
      <3>1. QED
        BY <1>1, <1>4, <2>2, Answers DEF IInv
    <2>3. CASE p.type = "PUBLISH" /\ QoS = 1
      <3> HIDE DEF p
      <3>1. QED
        BY <1>1, <1>4, <2>3, Answers DEF IInv
    <2>4. QED
      BY <1>1, <2>1, <2>2, <2>3
  <1>6. ASSUME NEW i \in 1..Len(stack), Waits(stack[i]), Request(stack[i]) = p
        PROVE  Reply(stack[i]) \in OnWay'
    <2>1. stack[i] \in FrameType
      BY TypeFacts DEF IInv, Frames
    <2>2. FrameId(stack, Len(stack), next_packetid, i)
      BY DEF AnswerInv, Ids
    <2>3. p = Request(stack[i])
      BY <1>6
    <2>4. CASE stack[i].op = "subscribe"
      <3>1. p.type = "SUBSCRIBE" /\ p.id = stack[i].id /\ Awaited(stack[i]) = "SUBACK"
        BY <2>3, <2>4 DEF Request, Pkt, Awaited
      <3> HIDE DEF p
      <3>2. QED
        BY <1>5, <3>1 DEF Reply
    <2>5. CASE stack[i].op \in {"publish", "ack"}
      <3>1. p.type = "PUBLISH" /\ p.id = stack[i].id /\ Awaited(stack[i]) = "PUBACK"
        BY <2>3, <2>5 DEF Request, Pkt, Awaited
      <3>2. QoS = 1
        BY <1>6, <2>2, <2>5, QoSAssumption DEF FrameId, Waits
      <3> HIDE DEF p
      <3>3. QED
        BY <1>5, <3>1, <3>2 DEF Reply
    <2>6. CASE stack[i].op = "yield"
      BY <1>6, <2>6 DEF Waits, Awaited
    <2>7. QED
      BY <2>1, <2>4, <2>5, <2>6 DEF FrameType
  <1> HIDE DEF p
  <1>7. Answered(stack, Len(stack), ToHandle', OnWay', eaten)
    BY <1>1, <1>2, <1>5, <1>6 DEF AnswerInv, Answered, Promised
  <1>8. QED
    BY <1>1, <1>7 DEF AnswerInv

\* While the connection is up, no call waits in vain unless another one has read its
\* answer: waitfor, the nested publish and the broker keep each answer in one place.
THEOREM AnswersArrive == Spec => []AnswersToCome
  <1>1. Init => AnswerInv
    BY DEF Init, AnswerInv, Ids, Answered
  <1>2. IInv /\ AnswerInv /\ [Next]_vars => AnswerInv'
    <2> SUFFICES ASSUME IInv, AnswerInv, [Next]_vars PROVE AnswerInv'
      OBVIOUS
    <2>1. CASE UNCHANGED vars
      BY <2>1 DEF AnswerInv, ToHandle, OnWay, vars, client, broker, history, log
    <2>2. CASE BrokerPublishes
      <3>1. PICK c \in 0..QoS : toClient' = Append(toClient, Pkt("PUBLISH", pushed + 1, c))
        BY <2>2 DEF BrokerPublishes
      <3>2. UNCHANGED <<stack, next_packetid, open, sent, taken, eaten>>
        BY <2>2 DEF BrokerPublishes, client, history, log
      <3>3. Pkt("PUBLISH", pushed + 1, c) \in BrokerPacket
        BY QoSAssumption, TypeFacts DEF Pkt, BrokerPacket, IInv
      <3>4. OnWay \subseteq OnWay'
        BY <3>1, <3>3, Answers DEF IInv
      <3>5. ToHandle' = ToHandle
        BY <3>2 DEF ToHandle
      <3>6. QED
        BY <3>2, <3>4, <3>5 DEF AnswerInv, Answered, Promised
    <2>3. CASE BrokerCloses
      BY <2>3 DEF BrokerCloses, AnswerInv, client
    <2>4. CASE Run
      BY <2>4, QuietAnswers, ReadAnswers, DeliveryAnswers, CallAnswers DEF Run
    <2>5. QED
      BY <2>1, <2>2, <2>3, <2>4, ApiAnswers, QuietAnswers, BrokerAnswers DEF Next
  <1>3. IInv /\ AnswerInv => AnswersToCome
    BY AnswersPromised DEF IInv
  <1>4. QED
    BY <1>1, <1>2, <1>3, Inductive, PTL DEF Spec

===============================================================================
