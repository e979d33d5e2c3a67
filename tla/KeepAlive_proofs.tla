---------------------------- MODULE KeepAlive_proofs ----------------------------
(***************************************************************************)
(* Proofs about KeepAlive: its types, StaysAlive, ReturnsInTime and        *)
(* PingsAreSpaced, for every interval, waiting time and stall.             *)
(*                                                                         *)
(* The invariant follows the check to come.  After every packet and every  *)
(* failed read keepalive has either written a ping or seen that less than  *)
(* the interval is over, so that a round is left until the next check.     *)
(* While a PINGRESP is to come there is no silence but that of waiting for *)
(* it; when it has come the application, or the packet before it, is all   *)
(* that keeps the client from reading it.                                  *)
(***************************************************************************)
EXTENDS KeepAlive, TLAPS

(* The silence that does not wait for a PINGRESP.                          *)
Quiet == sinceSent - awaited

(* What StaysAlive allows after m failed writes and a clock set back by s. *)
Bound(m, s) == Interval + s + (m + 1) * (Round + s)

(* The time until keepalive runs again, at most, while no PINGRESP waits.  *)
Ahead == IF call = "none" THEN left + Longest + Stall
         ELSE IF inside THEN left ELSE left + Stall

TimerInv == /\ ping_timer + sinceSent <= Interval + setBack
            /\ ping_timer + sinceSent + setForth >= Interval

CheckInv == ~arrived => Quiet + Ahead <= Bound(missed, setBack)

AwaitedInv == /\ Quiet \in Nat
              /\ arrived => ping_outstanding
              /\ ToCome => Quiet = 0

ArrivedInv == arrived =>
    IF call = "none" THEN Quiet + left <= Stall + Period
    ELSE IF inside THEN Quiet + left <= Stall
    ELSE Quiet <= Stall + Period

CallInv == /\ call = "none" => left <= Period /\ ~inside
           /\ inside => left <= Stall
           /\ call # "none" =>
                /\ timer + held <= Limit + setBack
                /\ held + left <= Limit + setBack + MinRead + (IF inside THEN Stall ELSE 0)

Inv == TypeOK /\ TimerInv /\ CheckInv /\ AwaitedInv /\ ArrivedInv /\ CallInv

-------------------------------------------------------------------------------
LEMMA Constants ==
    /\ Interval \in Nat /\ Interval > 0 /\ Period \in Nat /\ Stall \in Nat
    /\ Wait \in Nat /\ Timeout \in Nat /\ Wait > 0 /\ Timeout > 0
    /\ MinRead \in Nat /\ MinRead > 0 /\ MinRead <= Wait
    /\ MaxJump \in Nat /\ MaxMissed \in Nat /\ MaxAwaited \in Nat
    /\ Longest \in Nat /\ Wait <= Longest /\ Timeout <= Longest
    /\ Round \in Nat /\ Round = Period + Longest + Stall
    /\ Limit \in Nat /\ Limit <= Longest
BY IntervalAssumption, CallAssumption, NetworkAssumption, BoundAssumption
   DEF Longest, Round, Limit

(* Sums of inequalities, as they are needed below.                         *)
LEMMA Add ==
    ASSUME NEW x \in Int, NEW y \in Int, NEW a \in Int, NEW b \in Int, x <= a, y <= b
    PROVE  x + y <= a + b
OBVIOUS

LEMMA AddRound ==
    ASSUME NEW l \in Nat, NEW s \in Nat, NEW x \in Nat, NEW y \in Nat, NEW z \in Nat, l <= y + s
    PROVE  l + z \in Nat /\ l + z <= x + y + z + s
OBVIOUS

LEMMA QuietType ==
    ASSUME Inv
    PROVE  Quiet \in Nat /\ sinceSent \in Nat /\ awaited \in Nat /\ Quiet <= sinceSent
BY BoundAssumption DEF Inv, TypeOK, AwaitedInv, Quiet

LEMMA BoundFacts ==
    ASSUME NEW m \in Nat, NEW s \in Nat
    PROVE  /\ Bound(m, s) \in Nat
           /\ Bound(0, s) = Interval + Round + 2 * s
           /\ Bound(m + 1, s) = Bound(m, s) + Round + s
           /\ Bound(m, s) >= Interval + Round + 2 * s
           /\ Bound(m, s + 1) >= Bound(m, s)
<1> DEFINE R == Round
<1>0. R \in Nat BY Constants
<1>1. Bound(m, s) = Interval + s + (m + 1) * (R + s) BY DEF Bound
<1>2. Bound(m + 1, s) = Interval + s + (m + 2) * (R + s) BY DEF Bound
<1>3. Bound(m, s + 1) = Interval + (s + 1) + (m + 1) * (R + (s + 1)) BY DEF Bound
<1>4. Bound(0, s) = Interval + s + (0 + 1) * (R + s) BY DEF Bound
<1>5. Interval \in Nat BY Constants
<1> HIDE DEF R
<1>6. (m + 1) * (R + s) = m * (R + s) + (R + s) BY <1>0
<1>7. (m + 2) * (R + s) = m * (R + s) + 2 * (R + s) BY <1>0
<1>8. (m + 1) * (R + (s + 1)) = m * (R + s) + m + (R + s) + 1 BY <1>0
<1>9. m * (R + s) \in Nat BY <1>0
<1>10. Bound(0, s) = Interval + R + 2 * s BY <1>0, <1>4, <1>5
<1> DEFINE p == m * (R + s)
<1> HIDE DEF p
<1>11. p \in Nat /\ (m + 1) * (R + s) = p + (R + s) /\ (m + 2) * (R + s) = p + 2 * (R + s)
       /\ (m + 1) * (R + (s + 1)) = p + m + (R + s) + 1
  BY <1>6, <1>7, <1>8, <1>9 DEF p
<1>12. /\ Bound(m, s) = Interval + s + p + (R + s)
       /\ Bound(m + 1, s) = Interval + s + p + 2 * (R + s)
       /\ Bound(m, s + 1) = Interval + (s + 1) + p + m + (R + s) + 1
  <2>1. Bound(m, s) = Interval + s + (p + (R + s)) BY <1>1, <1>11
  <2>2. Bound(m + 1, s) = Interval + s + (p + 2 * (R + s)) BY <1>2, <1>11
  <2>3. Bound(m, s + 1) = Interval + (s + 1) + (p + m + (R + s) + 1) BY <1>3, <1>11
  <2> QED BY <1>0, <1>5, <1>11, <2>1, <2>2, <2>3
<1>13. /\ Bound(m, s) \in Nat /\ Bound(m + 1, s) = Bound(m, s) + R + s
       /\ Bound(m, s) >= Interval + R + 2 * s /\ Bound(m, s + 1) >= Bound(m, s)
  BY <1>0, <1>5, <1>11, <1>12
<1> QED BY <1>10, <1>13 DEF R

(* The state after the loops of MQTTYield and waitfor have been through.   *)
After == /\ call' \in {"none", "yield", "command"} /\ timer' \in Int /\ held' \in Nat
         /\ inside' = FALSE /\ left' \in Nat
         /\ call' = "none" => left' = Period
         /\ call' # "none" =>
              /\ left' <= Longest + setBack
              /\ call' = call
              /\ timer' + held' <= Limit + setBack
              /\ held' + left' <= Limit + setBack + MinRead

LEMMA LoopGoesOn ==
    ASSUME Inv, call # "none", AfterSuccess \/ AfterFailure \/ Return
    PROVE  After
<1>1. CASE Return BY <1>1, Constants DEF Return, After
<1>2. CASE ReadOn
  <2>1. /\ timer \in Int /\ timer >= 0 /\ held \in Nat /\ setBack \in Nat
        /\ timer + held <= Limit + setBack /\ call \in {"none", "yield", "command"}
    BY <1>2 DEF ReadOn, MayBeRunning, Inv, TypeOK, CallInv
  <2>2. /\ call' = call /\ timer' = timer /\ held' = held /\ inside' = FALSE
        /\ left' = (IF timer = 0 THEN MinRead ELSE timer)
    BY <1>2 DEF ReadOn
  <2> QED BY <2>1, <2>2, Constants DEF After
<1> QED BY <1>1, <1>2 DEF AfterSuccess, AfterFailure

LEMMA AheadAfter ==
    ASSUME Inv, After, setBack' = setBack
    PROVE  Ahead' \in Nat /\ Ahead' <= Round + setBack
<1>1. setBack \in Nat /\ left' \in Nat /\ inside' = FALSE
  BY DEF Inv, TypeOK, After
<1>2. CASE call' = "none" BY <1>1, <1>2, Constants DEF After, Ahead
<1>3. CASE call' # "none"
  <2>1. Ahead' = left' + Stall BY <1>1, <1>3 DEF Ahead
  <2>2. left' <= Longest + setBack BY <1>3 DEF After
  <2>3. Longest \in Nat /\ Period \in Nat /\ Stall \in Nat /\ Round = Period + Longest + Stall
    BY Constants
  <2>4. left' + Stall \in Nat /\ left' + Stall <= Period + Longest + Stall + setBack
    BY <1>1, <2>2, <2>3, AddRound
  <2> QED BY <2>1, <2>3, <2>4
<1> QED BY <1>2, <1>3

LEMMA AfterKeepsCallInv ==
    ASSUME Inv, After, setBack' = setBack
    PROVE  CallInv'
<1>1. CASE call' = "none" BY <1>1, Constants DEF After, CallInv, Inv, TypeOK
<1>2. CASE call' # "none"
  <2>1. Limit' = Limit BY <1>2 DEF After, Limit
  <2>2. /\ inside' = FALSE /\ timer' + held' <= Limit + setBack
        /\ held' + left' <= Limit + setBack + MinRead
    BY <1>2 DEF After
  <2>3. held' + left' <= Limit + setBack + MinRead + 0
    BY <2>2, Constants DEF Inv, TypeOK
  <2> QED BY <1>2, <2>1, <2>2, <2>3 DEF CallInv
<1> QED BY <1>1, <1>2

(* A check: cycle has handled a packet, or failed to read one.             *)
LEMMA CheckKeepsInv ==
    ASSUME Inv, After, call # "none", UNCHANGED clockVars,
           NEW out \in BOOLEAN, keepalive(out),
           out => ping_outstanding,
           inside \/ ~arrived => out = ping_outstanding,
           arrived /\ ~inside => ~out
    PROVE  Inv'
<1>0. setBack' = setBack /\ setForth' = setForth BY DEF clockVars
<1>1. CallInv' BY <1>0, AfterKeepsCallInv
<1>2. Ahead' \in Nat /\ Ahead' <= Round + setBack BY <1>0, AheadAfter
<1>3. /\ call' \in {"none", "yield", "command"} /\ timer' \in Int /\ held' \in Nat
      /\ inside' \in BOOLEAN /\ left' \in Nat
      /\ inside' = FALSE /\ (call' = "none" => left' = Period)
  BY DEF After
<1>4. /\ ping_timer \in Int /\ Quiet \in Nat /\ missed \in Nat /\ missed <= MaxMissed
      /\ setBack \in Nat /\ setForth \in Nat /\ setBack <= MaxJump /\ setForth <= MaxJump
      /\ left \in Nat /\ sinceSent \in Nat /\ awaited \in 0..MaxAwaited
  BY BoundAssumption, QuietType DEF Inv, TypeOK
<1>5. CASE /\ Sent
           /\ ping_outstanding' = TRUE /\ arrived' = FALSE
  <2>1. /\ ping_timer' = Interval /\ sinceSent' = 0 /\ awaited' = 0 /\ missed' = 0
        /\ Quiet' = 0
    BY <1>5 DEF Sent, Quiet
  <2>2. TypeOK'
    <3>1. ping_outstanding' \in BOOLEAN /\ arrived' \in BOOLEAN BY <1>5
    <3>2. awaited' \in 0..MaxAwaited BY <2>1, Constants
    <3>3. ping_timer' \in Int /\ sinceSent' \in Nat /\ missed' \in 0..MaxMissed
      BY <2>1, Constants
    <3>4. setBack' \in 0..MaxJump /\ setForth' \in 0..MaxJump BY <1>0, <1>4, Constants
    <3> QED BY <1>3, <3>1, <3>2, <3>3, <3>4 DEF TypeOK
  <2>3. TimerInv' BY <1>0, <1>4, <2>1, Constants DEF TimerInv
  <2>4. CheckInv'
    <3>1. Bound(0, setBack) = Interval + Round + 2 * setBack BY <1>4, BoundFacts
    <3>2. Quiet' + Ahead' <= Bound(missed', setBack')
      BY <1>0, <1>2, <1>4, <2>1, <3>1, Constants
    <3> QED BY <3>2 DEF CheckInv
  <2>5. AwaitedInv' BY <1>5, <2>1 DEF AwaitedInv, ToCome
  <2>6. ArrivedInv' BY <1>5 DEF ArrivedInv
  <2> QED BY <1>1, <2>2, <2>3, <2>4, <2>5, <2>6 DEF Inv
<1>6. CASE /\ \/ MayBeExpired(ping_timer) /\ ~out /\ NotSent
              \/ (MayBeRunning(ping_timer) \/ out) /\ UNCHANGED sendVars
           /\ ping_outstanding' = out /\ arrived' = (arrived /\ out)
  <2>1. /\ ping_timer' = ping_timer /\ sinceSent' = sinceSent /\ awaited' = awaited
        /\ missed' \in Nat /\ missed' <= MaxMissed /\ Quiet' = Quiet
    BY <1>4, <1>6, Constants DEF NotSent, sendVars, Quiet
  <2>2. TypeOK'
    <3>1. ping_outstanding' \in BOOLEAN /\ arrived' \in BOOLEAN BY <1>6
    <3>2. missed' \in 0..MaxMissed BY <2>1, Constants
    <3>3. setBack' \in 0..MaxJump /\ setForth' \in 0..MaxJump BY <1>0, <1>4, Constants
    <3> QED BY <1>3, <1>4, <2>1, <3>1, <3>2, <3>3 DEF TypeOK
  <2>3. TimerInv' BY <1>0, <2>1 DEF TimerInv, Inv
  <2>4. AwaitedInv'
    <3>1. AwaitedInv BY DEF Inv
    <3> QED BY <1>6, <2>1, <3>1 DEF AwaitedInv, ToCome
  <2>5. ArrivedInv'
    <3> SUFFICES ASSUME arrived' PROVE ArrivedInv' BY DEF ArrivedInv
    <3>1. arrived /\ inside BY <1>6
    <3>2. Quiet + left <= Stall BY <3>1 DEF Inv, ArrivedInv
    <3>3. CASE call' = "none"
      <4>1. Quiet' + left' <= Stall + Period
        BY <1>3, <1>4, <2>1, <3>2, <3>3, Constants
      <4> QED BY <3>3, <4>1 DEF ArrivedInv
    <3>4. CASE call' # "none"
      <4>1. Quiet' <= Stall + Period BY <1>4, <2>1, <3>2, Constants
      <4> QED BY <1>3, <3>4, <4>1 DEF ArrivedInv
    <3> QED BY <3>3, <3>4
  <2>6. CheckInv'
    <3> SUFFICES ASSUME ~arrived' PROVE Quiet' + Ahead' <= Bound(missed', setBack')
      BY DEF CheckInv
    <3>1. CASE out
      <4>1. ~arrived /\ ping_outstanding BY <1>6, <3>1
      <4>2. Quiet = 0 BY <4>1 DEF Inv, AwaitedInv, ToCome
      <4>3. Bound(missed', setBack) >= Interval + Round + 2 * setBack
            /\ Bound(missed', setBack) \in Nat
        BY <1>4, <2>1, BoundFacts
      <4> QED BY <1>0, <1>2, <1>4, <2>1, <4>2, <4>3, Constants
    <3>2. CASE ~out /\ MayBeRunning(ping_timer)
      <4>0. sinceSent <= Interval + setBack
        BY <1>4, <3>2, Constants DEF Inv, TimerInv, MayBeRunning
      <4>1. Quiet <= Interval + setBack BY <1>4, <4>0, QuietType, Constants
      <4>3. Bound(missed', setBack) >= Interval + Round + 2 * setBack
            /\ Bound(missed', setBack) \in Nat
        BY <1>4, <2>1, BoundFacts
      <4> QED BY <1>0, <1>2, <1>4, <2>1, <4>1, <4>3, Constants
    <3>3. CASE ~out /\ NotSent
      <4>1. missed' = missed + 1 BY <3>3 DEF NotSent
      <4>2. /\ Bound(missed', setBack) = Bound(missed, setBack) + Round + setBack
            /\ Bound(missed, setBack) \in Nat
            /\ Bound(missed, setBack) >= Interval + Round + 2 * setBack
        BY <1>4, <4>1, BoundFacts
      <4>3. Quiet <= Bound(missed, setBack)
        <5>1. CASE arrived
          <6>1. Quiet <= Stall + Period
            BY <1>4, <5>1, Constants DEF Inv, ArrivedInv
          <6> QED BY <1>4, <4>2, <6>1, Constants
        <5>2. CASE ~arrived
          <6>1. Quiet + Ahead <= Bound(missed, setBack)
            BY <5>2 DEF Inv, CheckInv
          <6>2. Ahead \in Nat BY <1>4, Constants DEF Ahead
          <6> QED BY <1>4, <4>2, <6>1, <6>2
        <5> QED BY <5>1, <5>2
      <4> QED BY <1>0, <1>2, <1>4, <2>1, <4>2, <4>3, Constants
    <3> QED BY <1>6, <3>1, <3>2, <3>3
  <2> QED BY <1>1, <2>2, <2>3, <2>4, <2>5, <2>6 DEF Inv
<1> QED BY <1>5, <1>6 DEF keepalive

(* A packet whose acknowledgement is written, or fails to be written.      *)
LEMMA AckKeepsInv ==
    ASSUME Inv, After, call # "none", inside, Sent \/ NotSent, UNCHANGED <<pingVars, clockVars>>
    PROVE  Inv'
<1>0. /\ setBack' = setBack /\ setForth' = setForth
      /\ ping_outstanding' = ping_outstanding /\ arrived' = arrived
  BY DEF clockVars, pingVars
<1>1. CallInv' BY <1>0, AfterKeepsCallInv
<1>2. Ahead' \in Nat /\ Ahead' <= Round + setBack BY <1>0, AheadAfter
<1>3. /\ call' \in {"none", "yield", "command"} /\ timer' \in Int /\ held' \in Nat
      /\ inside' \in BOOLEAN /\ left' \in Nat
      /\ inside' = FALSE /\ (call' = "none" => left' = Period)
  BY DEF After
<1>4. /\ ping_timer \in Int /\ Quiet \in Nat /\ missed \in Nat /\ missed <= MaxMissed
      /\ setBack \in Nat /\ setForth \in Nat /\ left \in Nat
      /\ sinceSent \in Nat /\ awaited \in 0..MaxAwaited
      /\ setBack \in 0..MaxJump /\ setForth \in 0..MaxJump
      /\ ping_outstanding \in BOOLEAN /\ arrived \in BOOLEAN
  BY BoundAssumption, QuietType DEF Inv, TypeOK
<1>5. /\ ping_timer' \in Int /\ sinceSent' \in Nat /\ awaited' \in 0..MaxAwaited
      /\ missed' \in 0..MaxMissed /\ Quiet' \in Nat /\ Quiet' <= Quiet
  BY <1>4, Constants DEF Sent, NotSent, Quiet
<1>6. TypeOK' BY <1>0, <1>3, <1>4, <1>5 DEF TypeOK
<1>7. TimerInv'
  <2>1. CASE Sent BY <1>0, <1>4, <2>1, Constants DEF Sent, TimerInv
  <2>2. CASE NotSent BY <1>0, <2>2 DEF NotSent, TimerInv, Inv
  <2> QED BY <2>1, <2>2
<1>8. AwaitedInv'
  <2>1. Quiet = 0 => Quiet' = 0 BY <1>5
  <2> QED BY <1>0, <1>5, <2>1 DEF Inv, AwaitedInv, ToCome
<1>9. ArrivedInv'
  <2> SUFFICES ASSUME arrived PROVE ArrivedInv' BY <1>0 DEF ArrivedInv
  <2>1. Quiet + left <= Stall BY DEF Inv, ArrivedInv
  <2>2. Quiet' <= Stall BY <1>4, <1>5, <2>1, Constants
  <2>3. CASE call' = "none"
    <3>0. left' = Period /\ Quiet' \in Nat BY <1>3, <1>5, <2>3
    <3>2. Stall \in Int /\ Period \in Int /\ Period <= Period BY Constants
    <3>3. Quiet' \in Int BY <3>0
    <3>1. Quiet' + left' <= Stall + Period BY <2>2, <3>0, <3>2, <3>3, Add
    <3> QED BY <2>3, <3>1 DEF ArrivedInv
  <2>4. CASE call' # "none"
    <3>1. Quiet' <= Stall + Period BY <1>5, <2>2, Constants
    <3> QED BY <1>3, <2>4, <3>1 DEF ArrivedInv
  <2> QED BY <2>3, <2>4
<1>10. CheckInv'
  <2> SUFFICES ASSUME ~arrived PROVE Quiet' + Ahead' <= Bound(missed', setBack')
    BY <1>0 DEF CheckInv
  <2>1. CASE Sent
    <3>1. Bound(0, setBack) = Interval + Round + 2 * setBack BY <1>4, BoundFacts
    <3>2. Quiet' = 0 /\ missed' = 0 BY <2>1 DEF Sent, Quiet
    <3> QED BY <1>0, <1>2, <1>4, <3>1, <3>2, Constants
  <2>2. CASE NotSent
    <3>1. missed' = missed + 1 /\ Quiet' = Quiet BY <2>2 DEF NotSent, Quiet
    <3>2. /\ Bound(missed', setBack) = Bound(missed, setBack) + Round + setBack
          /\ Bound(missed, setBack) \in Nat
      BY <1>4, <3>1, BoundFacts
    <3>3. Quiet + left <= Bound(missed, setBack) BY DEF Inv, CheckInv, Ahead
    <3> QED BY <1>0, <1>2, <1>4, <3>1, <3>2, <3>3, Constants
  <2> QED BY <2>1, <2>2
<1> QED BY <1>1, <1>6, <1>7, <1>8, <1>9, <1>10 DEF Inv

-------------------------------------------------------------------------------
LEMMA InitHolds == Init => Inv
<1> SUFFICES ASSUME Init PROVE Inv OBVIOUS
<1>1. TypeOK
  <2>1. sinceSent \in Nat /\ ping_timer \in Int BY Constants DEF Init
  <2>2. left \in Nat /\ missed \in 0..MaxMissed BY Constants DEF Init
  <2>3. awaited \in 0..MaxAwaited
    <3>1. MaxAwaited \in Nat /\ awaited = 0 BY Constants DEF Init
    <3> QED BY <3>1
  <2>4. setBack \in 0..MaxJump /\ setForth \in 0..MaxJump
    <3>1. MaxJump \in Nat /\ setBack = 0 /\ setForth = 0 BY Constants DEF Init
    <3> QED BY <3>1
  <2>5. call \in {"none", "yield", "command"} /\ timer \in Int /\ held \in Nat
    BY DEF Init
  <2>6. inside \in BOOLEAN /\ ping_outstanding \in BOOLEAN /\ arrived \in BOOLEAN
    BY Zenon DEF Init
  <2> QED BY <2>1, <2>2, <2>3, <2>4, <2>5, <2>6 DEF TypeOK
<1>2. TimerInv BY Constants DEF Init, TimerInv
<1>3. CheckInv
  <2>1. Bound(0, 0) = Interval + Round + 2 * 0 BY BoundFacts
  <2>2. Quiet + Ahead <= Bound(0, 0) BY <2>1, Constants DEF Init, Ahead, Quiet
  <2> QED BY <2>2 DEF CheckInv, Init
<1>4. AwaitedInv BY Constants DEF Init, AwaitedInv, ToCome, Quiet
<1>5. ArrivedInv BY DEF Init, ArrivedInv
<1>6. CallInv BY Constants DEF Init, CallInv
<1> QED BY <1>1, <1>2, <1>3, <1>4, <1>5, <1>6 DEF Inv

LEMMA YieldStep == ASSUME Inv, MQTTYield PROVE Inv'
<1> USE DEF Inv, MQTTYield
<1>0. /\ call = "none" /\ call' = "yield" /\ timer' = Wait /\ held' = 0 /\ inside' = FALSE
      /\ left' = Wait
      /\ UNCHANGED <<ping_timer, sinceSent, awaited, missed, ping_outstanding, arrived,
                     setBack, setForth, Quiet, ToCome>>
  BY DEF sendVars, pingVars, clockVars, Quiet, ToCome
<1>1. Quiet \in Nat /\ left \in Nat /\ setBack \in Nat /\ missed \in Nat
  BY BoundAssumption DEF TypeOK, AwaitedInv
<1>2. TypeOK'
  <2>1. Wait \in Nat /\ Wait \in Int /\ 0 \in Nat BY Constants
  <2> QED BY <1>0, <2>1 DEF TypeOK
<1>3. TimerInv' BY <1>0 DEF TimerInv
<1>4. CheckInv'
  <2> SUFFICES ASSUME ~arrived PROVE Quiet + (Wait + Stall) <= Bound(missed, setBack)
    BY <1>0 DEF CheckInv, Ahead
  <2>1. Quiet + (left + Longest + Stall) <= Bound(missed, setBack)
    BY <1>0 DEF CheckInv, Ahead
  <2>2. Bound(missed, setBack) \in Nat BY <1>1, BoundFacts
  <2> QED BY <1>1, <2>1, <2>2, Constants
<1>5. AwaitedInv' BY <1>0 DEF AwaitedInv
<1>6. ArrivedInv'
  <2> SUFFICES ASSUME arrived PROVE Quiet <= Stall + Period
    BY <1>0 DEF ArrivedInv
  <2>1. Quiet + left <= Stall + Period BY <1>0 DEF ArrivedInv
  <2> QED BY <1>1, <2>1, Constants
<1>7. CallInv'
  <2>1. Limit' = Wait BY <1>0 DEF Limit
  <2>2. Wait + 0 <= Wait + setBack /\ 0 + Wait <= Wait + setBack + MinRead + 0
    BY <1>1, Constants
  <2> QED BY <1>0, <2>1, <2>2 DEF CallInv
<1> QED BY <1>2, <1>3, <1>4, <1>5, <1>6, <1>7

LEMMA CommandStep == ASSUME Inv, Command PROVE Inv'
<1>0. /\ call = "none"
      /\ UNCHANGED <<ping_outstanding, arrived, setBack, setForth, ToCome>>
  BY DEF Command, pingVars, clockVars, ToCome
<1>1. /\ Quiet \in Nat /\ left \in Nat /\ setBack \in Nat /\ missed \in Nat
      /\ missed <= MaxMissed /\ sinceSent \in Nat
  BY BoundAssumption DEF Inv, TypeOK, AwaitedInv
<1>2. CASE /\ Sent
           /\ call' = "command" /\ timer' = Timeout /\ held' = 0
           /\ inside' = FALSE /\ left' = Timeout
  <2>0. /\ ping_timer' = Interval /\ sinceSent' = 0 /\ awaited' = 0 /\ missed' = 0
        /\ Quiet' = 0
    BY <1>2 DEF Sent, Quiet
  <2>1. TypeOK'
    <3>1. /\ ping_timer' \in Int /\ sinceSent' \in Nat /\ awaited' \in 0..MaxAwaited
          /\ missed' \in 0..MaxMissed
      BY <2>0, Constants
    <3>2. timer' \in Int /\ held' \in Nat /\ left' \in Nat BY <1>2, Constants
    <3> QED BY <1>0, <1>2, <3>1, <3>2 DEF Inv, TypeOK
  <2>2. TimerInv'
    <3>1. setForth \in Nat BY BoundAssumption DEF Inv, TypeOK
    <3> QED BY <1>0, <1>1, <2>0, <3>1, Constants DEF TimerInv
  <2>3. CheckInv'
    <3>1. Bound(0, setBack) = Interval + Round + 2 * setBack BY <1>1, BoundFacts
    <3>2. 0 + (Timeout + Stall) <= Bound(0, setBack) BY <1>1, <3>1, Constants
    <3> QED BY <1>0, <1>2, <2>0, <3>2 DEF CheckInv, Ahead
  <2>4. AwaitedInv' BY <1>0, <2>0 DEF Inv, AwaitedInv
  <2>5. ArrivedInv'
    <3>1. 0 <= Stall + Period BY Constants
    <3> QED BY <1>0, <1>2, <2>0, <3>1 DEF ArrivedInv
  <2>6. CallInv'
    <3>1. Limit' = Timeout BY <1>2 DEF Limit
    <3>2. Timeout + 0 <= Timeout + setBack /\ 0 + Timeout <= Timeout + setBack + MinRead + 0
      BY <1>1, Constants
    <3> QED BY <1>0, <1>2, <3>1, <3>2 DEF CallInv
  <2> QED BY <2>1, <2>2, <2>3, <2>4, <2>5, <2>6 DEF Inv
<1>3. CASE NotSent /\ UNCHANGED callVars
  <2>0. /\ missed' = missed + 1 /\ missed < MaxMissed
        /\ UNCHANGED <<ping_timer, sinceSent, awaited, Quiet, call, timer, held, inside, left>>
    BY <1>3 DEF NotSent, callVars, Quiet
  <2>1. TypeOK'
    <3>1. missed' \in 0..MaxMissed BY <1>1, <2>0, Constants
    <3> QED BY <1>0, <2>0, <3>1 DEF Inv, TypeOK
  <2>2. TimerInv' BY <1>0, <2>0 DEF Inv, TimerInv
  <2>3. CheckInv'
    <3> SUFFICES ASSUME ~arrived PROVE Quiet + Ahead <= Bound(missed + 1, setBack)
      BY <1>0, <2>0 DEF CheckInv, Ahead
    <3>1. Quiet + Ahead <= Bound(missed, setBack) BY DEF Inv, CheckInv
    <3>2. Ahead \in Nat BY <1>0, <1>1, Constants DEF Ahead
    <3>3. /\ Bound(missed + 1, setBack) = Bound(missed, setBack) + Round + setBack
          /\ Bound(missed, setBack) \in Nat
      BY <1>1, BoundFacts
    <3> QED BY <1>1, <3>1, <3>2, <3>3, Constants
  <2>4. AwaitedInv' BY <1>0, <2>0 DEF Inv, AwaitedInv
  <2>5. ArrivedInv' BY <1>0, <2>0 DEF Inv, ArrivedInv
  <2>6. CallInv' BY <1>0, <2>0 DEF Inv, CallInv, Limit
  <2> QED BY <2>1, <2>2, <2>3, <2>4, <2>5, <2>6 DEF Inv
<1> QED BY <1>2, <1>3 DEF Command

LEMMA FirstByteStep == ASSUME Inv, FirstByte PROVE Inv'
<1>0. /\ call # "none" /\ ~inside /\ ~arrived /\ inside' = TRUE /\ left' \in 0..Stall
      /\ UNCHANGED <<call, timer, held, ping_timer, sinceSent, awaited, missed,
                     ping_outstanding, arrived, setBack, setForth, Quiet, ToCome>>
  BY DEF FirstByte, sendVars, pingVars, clockVars, Quiet, ToCome
<1>1. Quiet \in Nat /\ left \in Nat /\ setBack \in Nat /\ missed \in Nat /\ held \in Nat
  BY BoundAssumption DEF Inv, TypeOK, AwaitedInv
<1>2. left' \in Nat /\ left' <= Stall BY <1>0, Constants
<1>3. TypeOK' BY <1>0, <1>2 DEF Inv, TypeOK
<1>4. TimerInv' BY <1>0 DEF Inv, TimerInv
<1>5. CheckInv'
  <2>1. Quiet + (left + Stall) <= Bound(missed, setBack)
    BY <1>0 DEF Inv, CheckInv, Ahead
  <2>2. Bound(missed, setBack) \in Nat BY <1>1, BoundFacts
  <2>3. Quiet + left' <= Bound(missed, setBack) BY <1>1, <1>2, <2>1, <2>2, Constants
  <2> QED BY <1>0, <2>3 DEF CheckInv, Ahead
<1>6. AwaitedInv' BY <1>0 DEF Inv, AwaitedInv
<1>7. ArrivedInv' BY <1>0 DEF ArrivedInv
<1>8. CallInv'
  <2>1. Limit' = Limit BY <1>0 DEF Limit
  <2>2. timer + held <= Limit + setBack /\ held + left <= Limit + setBack + MinRead + 0
    BY <1>0 DEF Inv, CallInv
  <2>3. Limit \in Nat /\ MinRead \in Nat /\ Stall \in Int BY Constants
  <2>4. held <= Limit + setBack + MinRead /\ Limit + setBack + MinRead \in Int
    BY <1>1, <2>2, <2>3
  <2>5. left' \in Int /\ held \in Int BY <1>1, <1>2
  <2>6. held + left' <= Limit + setBack + MinRead + Stall BY <1>2, <2>3, <2>4, <2>5, Add
  <2> QED BY <1>0, <1>2, <2>1, <2>2, <2>6 DEF CallInv
<1> QED BY <1>3, <1>4, <1>5, <1>6, <1>7, <1>8 DEF Inv

(* The packets and failed reads, by the lemmas on checks and acknowledgements.  *)
LEMMA ReadStep ==
    ASSUME Inv, Handled \/ Acknowledged \/ AckFails \/ ReadPingresp \/ ReadFails
    PROVE  Inv'
<1>0. inside => call # "none" BY DEF Inv, CallInv
<1>1. ping_outstanding \in BOOLEAN /\ arrived \in BOOLEAN /\ (arrived => ping_outstanding)
  BY DEF Inv, TypeOK, AwaitedInv
<1>2. CASE Handled
  <2>1. inside /\ keepalive(ping_outstanding) /\ UNCHANGED clockVars /\ (AfterSuccess \/ Return)
    BY <1>2 DEF Handled
  <2>2. After BY <1>0, <2>1, LoopGoesOn
  <2> QED BY <1>0, <1>1, <2>1, <2>2, CheckKeepsInv
<1>3. CASE Acknowledged
  <2>1. inside /\ Sent /\ AfterSuccess /\ UNCHANGED <<pingVars, clockVars>>
    BY <1>3 DEF Acknowledged
  <2>2. After BY <1>0, <2>1, LoopGoesOn
  <2> QED BY <1>0, <2>1, <2>2, AckKeepsInv
<1>4. CASE AckFails
  <2>1. inside /\ NotSent /\ AfterFailure /\ UNCHANGED <<pingVars, clockVars>>
    BY <1>4 DEF AckFails
  <2>2. After BY <1>0, <2>1, LoopGoesOn
  <2> QED BY <1>0, <2>1, <2>2, AckKeepsInv
<1>5. CASE ReadPingresp
  <2>1. /\ call # "none" /\ ~inside /\ arrived /\ keepalive(FALSE) /\ AfterSuccess
        /\ UNCHANGED clockVars
    BY <1>5 DEF ReadPingresp
  <2>2. After BY <2>1, LoopGoesOn
  <2> QED BY <2>1, <2>2, CheckKeepsInv
<1>6. CASE ReadFails
  <2>1. /\ call # "none" /\ (inside \/ ~arrived) /\ keepalive(ping_outstanding)
        /\ AfterFailure /\ UNCHANGED clockVars
    BY <1>6 DEF ReadFails
  <2>2. After BY <2>1, LoopGoesOn
  <2> QED BY <1>1, <2>1, <2>2, CheckKeepsInv
<1> QED BY <1>2, <1>3, <1>4, <1>5, <1>6

LEMMA PingrespStep == ASSUME Inv, PingrespComes PROVE Inv'
<1>0. /\ ToCome /\ ping_outstanding /\ arrived' = TRUE
      /\ UNCHANGED <<call, timer, held, inside, left, ping_timer, sinceSent, awaited, missed,
                     ping_outstanding, setBack, setForth, Quiet>>
  BY DEF PingrespComes, ToCome, callVars, sendVars, clockVars, Quiet
<1>1. left \in Nat /\ Quiet = 0 BY <1>0 DEF Inv, TypeOK, AwaitedInv
<1>2. Stall \in Nat /\ Period \in Nat BY Constants
<1>4. TypeOK' BY <1>0 DEF Inv, TypeOK
<1>5. TimerInv' BY <1>0 DEF Inv, TimerInv
<1>6. CheckInv' BY <1>0 DEF CheckInv
<1>7. AwaitedInv' BY <1>0, <1>1 DEF AwaitedInv, ToCome
<1>8. ArrivedInv'
  <2>1. CASE call = "none"
    <3>1. left <= Period BY <2>1 DEF Inv, CallInv
    <3>2. Quiet + left <= Stall + Period BY <1>1, <1>2, <3>1
    <3> QED BY <1>0, <2>1, <3>2 DEF ArrivedInv
  <2>2. CASE call # "none" /\ inside
    <3>1. left <= Stall BY <2>2 DEF Inv, CallInv
    <3>2. Quiet + left <= Stall BY <1>1, <1>2, <3>1
    <3> QED BY <1>0, <2>2, <3>2 DEF ArrivedInv
  <2>3. CASE call # "none" /\ ~inside
    <3>1. Quiet <= Stall + Period BY <1>1, <1>2
    <3> QED BY <1>0, <2>3, <3>1 DEF ArrivedInv
  <2> QED BY <2>1, <2>2, <2>3
<1>9. CallInv' BY <1>0 DEF Inv, CallInv, Limit
<1> QED BY <1>4, <1>5, <1>6, <1>7, <1>8, <1>9 DEF Inv

LEMMA TickStep == ASSUME Inv, Tick PROVE Inv'
<1>0. /\ left > 0 /\ ~(call # "none" /\ ~inside /\ arrived)
      /\ left' = left - 1 /\ ping_timer' = ping_timer - 1 /\ sinceSent' = sinceSent + 1
      /\ (ToCome => awaited < MaxAwaited)
      /\ awaited' = (IF ToCome THEN awaited + 1 ELSE awaited)
      /\ IF call = "none" THEN UNCHANGED <<timer, held>>
         ELSE timer' = timer - 1 /\ held' = held + 1
      /\ UNCHANGED <<call, inside, missed, ping_outstanding, arrived, setBack, setForth,
                     ToCome>>
  BY DEF Tick, clockVars, pingVars, ToCome
<1>1. /\ left \in Nat /\ ping_timer \in Int /\ timer \in Int /\ held \in Nat
      /\ sinceSent \in Nat /\ awaited \in Nat /\ awaited <= MaxAwaited /\ Quiet \in Nat
      /\ setBack \in Nat /\ setForth \in Nat /\ missed \in Nat
  BY BoundAssumption, QuietType DEF Inv, TypeOK
<1>2. Stall \in Nat /\ Period \in Nat /\ Longest \in Nat /\ MaxAwaited \in Nat
  BY Constants
<1>3. left' \in Nat /\ Quiet' = (IF ToCome THEN Quiet ELSE Quiet + 1)
  BY <1>0, <1>1 DEF Quiet
<1>4. TypeOK'
  <2>1. awaited' \in 0..MaxAwaited BY <1>0, <1>1, <1>2
  <2>2. ping_timer' \in Int /\ sinceSent' \in Nat BY <1>0, <1>1
  <2>3. timer' \in Int /\ held' \in Nat BY <1>0, <1>1
  <2> QED BY <1>0, <1>3, <2>1, <2>2, <2>3 DEF Inv, TypeOK
<1>5. TimerInv'
  <2>1. ping_timer' + sinceSent' = ping_timer + sinceSent BY <1>0, <1>1
  <2> QED BY <1>0, <2>1 DEF Inv, TimerInv
<1>6. CheckInv'
  <2> SUFFICES ASSUME ~arrived PROVE Quiet' + Ahead' <= Bound(missed, setBack)
    BY <1>0 DEF CheckInv
  <2>1. Quiet + Ahead <= Bound(missed, setBack) BY DEF Inv, CheckInv
  <2>2. Ahead' = Ahead - 1 /\ Ahead \in Nat
    <3>1. CASE call = "none" BY <1>0, <1>1, <1>2, <3>1 DEF Ahead
    <3>2. CASE call # "none" /\ inside BY <1>0, <1>1, <1>2, <3>2 DEF Ahead
    <3>3. CASE call # "none" /\ ~inside BY <1>0, <1>1, <1>2, <3>3 DEF Ahead
    <3> QED BY <3>1, <3>2, <3>3
  <2>3. Quiet' \in Nat /\ Quiet' <= Quiet + 1 BY <1>1, <1>3
  <2>4. Bound(missed, setBack) \in Nat BY <1>1, BoundFacts
  <2> QED BY <1>1, <2>1, <2>2, <2>3, <2>4
<1>7. AwaitedInv' BY <1>0, <1>1, <1>3 DEF Inv, AwaitedInv
<1>8. ArrivedInv'
  <2>0. arrived => Quiet' + left' = Quiet + left BY <1>0, <1>1, <1>3 DEF ToCome
  <2>1. CASE call = "none" BY <1>0, <2>0, <2>1 DEF Inv, ArrivedInv
  <2>2. CASE call # "none" /\ inside BY <1>0, <2>0, <2>2 DEF Inv, ArrivedInv
  <2>3. CASE call # "none" /\ ~inside BY <1>0, <2>3 DEF ArrivedInv
  <2> QED BY <2>1, <2>2, <2>3
<1>9. CallInv'
  <2>1. CASE call = "none"
    <3>1. left' <= Period /\ ~inside BY <1>0, <1>1, <1>2, <2>1 DEF Inv, CallInv
    <3> QED BY <1>0, <2>1, <3>1 DEF CallInv
  <2>2. CASE call # "none"
    <3>1. timer' + held' = timer + held /\ held' + left' = held + left
      BY <1>0, <1>1, <2>2
    <3>2. inside => left' <= Stall BY <1>0, <1>1, <1>2 DEF Inv, CallInv
    <3>3. Limit' = Limit BY <1>0 DEF Limit
    <3> QED BY <1>0, <2>2, <3>1, <3>2, <3>3 DEF Inv, CallInv
  <2> QED BY <2>1, <2>2
<1> QED BY <1>4, <1>5, <1>6, <1>7, <1>8, <1>9 DEF Inv

LEMMA ClockStep == ASSUME Inv, ClockSetBack \/ ClockSetForth PROVE Inv'
<1>0. /\ ping_timer \in Int /\ sinceSent \in Nat /\ Quiet \in Nat /\ timer \in Int /\ held \in Nat
      /\ setBack \in Nat /\ setForth \in Nat /\ missed \in Nat /\ left \in Nat
  BY BoundAssumption, QuietType DEF Inv, TypeOK
<1>1. /\ UNCHANGED <<call, held, inside, left, sinceSent, awaited, missed, ping_outstanding,
                     arrived, Quiet, ToCome>>
      /\ Limit' = Limit /\ Ahead' = Ahead
  BY DEF ClockSetBack, ClockSetForth, pingVars, Limit, Ahead, Quiet, ToCome
<1>2. AwaitedInv' BY <1>1 DEF Inv, AwaitedInv
<1>3. ArrivedInv' BY <1>1 DEF Inv, ArrivedInv
<1>4. CASE ClockSetBack
  <2>0. /\ setBack < MaxJump /\ setBack' = setBack + 1 /\ ping_timer' = ping_timer + 1
        /\ timer' = (IF call = "none" THEN timer ELSE timer + 1) /\ setForth' = setForth
    BY <1>4 DEF ClockSetBack
  <2>1. setBack' \in 0..MaxJump /\ timer' \in Int /\ ping_timer' \in Int
    BY <1>0, <2>0, BoundAssumption
  <2>2. TypeOK' BY <1>1, <2>0, <2>1 DEF Inv, TypeOK
  <2>3. TimerInv'
    <3>1. /\ ping_timer + sinceSent <= Interval + setBack
          /\ ping_timer + sinceSent + setForth >= Interval
      BY DEF Inv, TimerInv
    <3>2. /\ (ping_timer + 1) + sinceSent <= Interval + (setBack + 1)
          /\ (ping_timer + 1) + sinceSent + setForth >= Interval
      BY <1>0, <3>1, Constants
    <3> QED BY <1>1, <2>0, <3>2 DEF TimerInv
  <2>4. CheckInv'
    <3> SUFFICES ASSUME ~arrived PROVE Quiet + Ahead <= Bound(missed, setBack + 1)
      BY <1>1, <2>0 DEF CheckInv
    <3>1. Quiet + Ahead <= Bound(missed, setBack) BY DEF Inv, CheckInv
    <3>2. /\ Bound(missed, setBack + 1) >= Bound(missed, setBack)
          /\ Bound(missed, setBack) \in Nat
      BY <1>0, BoundFacts
    <3>3. Bound(missed, setBack + 1) \in Nat
      <4>1. setBack + 1 \in Nat BY <1>0
      <4> QED BY <1>0, <4>1, BoundFacts
    <3>4. Ahead \in Nat BY <1>0, Constants DEF Ahead
    <3> QED BY <1>0, <3>1, <3>2, <3>3, <3>4
  <2>5. CallInv'
    <3>1. ASSUME call # "none"
          PROVE  /\ timer' + held <= Limit + setBack'
                 /\ held + left <= Limit + setBack' + MinRead + (IF inside THEN Stall ELSE 0)
      <4> DEFINE stall == IF inside THEN Stall ELSE 0
      <4>1. stall \in Nat BY Constants
      <4>2. timer + held <= Limit + setBack /\ held + left <= Limit + setBack + MinRead + stall
        BY <3>1 DEF Inv, CallInv
      <4> HIDE DEF stall
      <4>3. timer' = timer + 1 /\ setBack' = setBack + 1 BY <2>0, <3>1
      <4>4. (timer + 1) + held <= Limit + (setBack + 1) BY <1>0, <4>2, Constants
      <4>5. held + left <= Limit + (setBack + 1) + MinRead + stall
        BY <1>0, <4>1, <4>2, Constants
      <4> QED BY <4>3, <4>4, <4>5 DEF stall
    <3> QED BY <1>1, <3>1 DEF Inv, CallInv
  <2> QED BY <1>2, <1>3, <2>2, <2>3, <2>4, <2>5 DEF Inv
<1>5. CASE ClockSetForth
  <2>0. /\ setForth < MaxJump /\ setForth' = setForth + 1 /\ ping_timer' = ping_timer - 1
        /\ timer' = (IF call = "none" THEN timer ELSE timer - 1) /\ setBack' = setBack
    BY <1>5 DEF ClockSetForth
  <2>1. setForth' \in 0..MaxJump /\ timer' \in Int /\ ping_timer' \in Int
    BY <1>0, <2>0, BoundAssumption
  <2>2. TypeOK' BY <1>1, <2>0, <2>1 DEF Inv, TypeOK
  <2>3. TimerInv'
    <3>1. /\ ping_timer + sinceSent <= Interval + setBack
          /\ ping_timer + sinceSent + setForth >= Interval
      BY DEF Inv, TimerInv
    <3>2. /\ (ping_timer - 1) + sinceSent <= Interval + setBack
          /\ (ping_timer - 1) + sinceSent + (setForth + 1) >= Interval
      BY <1>0, <3>1, Constants
    <3> QED BY <1>1, <2>0, <3>2 DEF TimerInv
  <2>4. CheckInv' BY <1>1, <2>0 DEF Inv, CheckInv
  <2>5. CallInv'
    <3>1. ASSUME call # "none" PROVE timer' + held <= Limit + setBack
      <4>1. timer + held <= Limit + setBack BY <3>1 DEF Inv, CallInv
      <4>2. timer' = timer - 1 BY <2>0, <3>1
      <4> QED BY <1>0, <4>1, <4>2, Constants
    <3> QED BY <1>1, <2>0, <3>1 DEF Inv, CallInv
  <2> QED BY <1>2, <1>3, <2>2, <2>3, <2>4, <2>5 DEF Inv
<1> QED BY <1>4, <1>5

LEMMA StutterStep == ASSUME Inv, UNCHANGED vars PROVE Inv'
BY DEF vars, callVars, sendVars, pingVars, clockVars, Inv, TypeOK, TimerInv, CheckInv, Ahead,
       AwaitedInv, ArrivedInv, CallInv, Limit, ToCome, Quiet

LEMMA NextStep == Inv /\ [Next]_vars => Inv'
BY YieldStep, CommandStep, FirstByteStep, ReadStep, PingrespStep, TickStep, ClockStep,
   StutterStep
   DEF Next

LEMMA Invariant == Spec => []Inv
<1>1. Init => Inv BY InitHolds
<1>2. Inv /\ [Next]_vars => Inv' BY NextStep
<1> QED BY <1>1, <1>2, PTL DEF Spec

-------------------------------------------------------------------------------
(* The timers, the clocks and the state of a read keep their types.        *)
THEOREM TypeCorrect == Spec => []TypeOK
<1>1. Inv => TypeOK BY DEF Inv
<1> QED BY <1>1, Invariant, PTL

(* The client never keeps silent for longer than StaysAlive allows, the    *)
(* waiting for a PINGRESP left out: the time to the next check is bounded  *)
(* in every state, and a check that writes nothing finds the interval not  *)
(* over or a PINGRESP still to be read.                                    *)
THEOREM KeptAlive == Spec => []StaysAlive
<1>1. ASSUME Inv PROVE StaysAlive
  <2>0. /\ Quiet \in Nat /\ left \in Nat /\ setBack \in Nat /\ missed \in Nat
    BY <1>1, BoundAssumption, QuietType DEF Inv, TypeOK
  <2>1. /\ Bound(missed, setBack) \in Nat
        /\ Bound(missed, setBack) >= Interval + Round + 2 * setBack
    BY <2>0, BoundFacts
  <2>2. CASE arrived
    <3>1. Quiet <= Stall + Period
      BY <1>1, <2>0, <2>2, Constants DEF Inv, ArrivedInv
    <3>2. Stall + Period <= Interval + Round + 2 * setBack BY <2>0, Constants
    <3>3. Stall + Period \in Nat /\ Interval + Round + 2 * setBack \in Nat
      BY <2>0, Constants
    <3>4. Quiet <= Bound(missed, setBack) BY <2>0, <2>1, <3>1, <3>2, <3>3
    <3> QED BY <3>4 DEF StaysAlive, Bound, Quiet
  <2>3. CASE ~arrived
    <3>1. Quiet + Ahead <= Bound(missed, setBack) BY <1>1, <2>3 DEF Inv, CheckInv
    <3>2. Ahead \in Nat BY <2>0, Constants DEF Ahead
    <3>3. Quiet <= Bound(missed, setBack) BY <2>0, <2>1, <3>1, <3>2
    <3> QED BY <3>3 DEF StaysAlive, Bound, Quiet
  <2> QED BY <2>2, <2>3
<1> QED BY <1>1, Invariant, PTL

(* No call holds the event loop longer than its time and one packet.       *)
THEOREM Returned == Spec => []ReturnsInTime
<1>1. ASSUME Inv PROVE ReturnsInTime
  <2> SUFFICES ASSUME call # "none" PROVE held <= Limit + setBack + MinRead + Stall
    BY DEF ReturnsInTime
  <2> DEFINE stall == IF inside THEN Stall ELSE 0
  <2>1. held \in Nat /\ left \in Nat /\ setBack \in Nat
    BY <1>1, BoundAssumption DEF Inv, TypeOK
  <2>2. held + left <= Limit + setBack + MinRead + stall BY <1>1 DEF Inv, CallInv
  <2>3. stall \in Nat /\ stall <= Stall BY Constants
  <2> HIDE DEF stall
  <2>4. held <= Limit + setBack + MinRead + stall BY <2>1, <2>2, <2>3, Constants
  <2> QED BY <2>1, <2>3, <2>4, Constants
<1> QED BY <1>1, Invariant, PTL

(* A ping is written when the timer of the last packet is over, and a      *)
(* clock set forth is all that makes it early.                             *)
THEOREM PingsSpaced == Spec => PingsAreSpaced
<1>1. ASSUME Inv, [Next]_vars PROVE [Pings => sinceSent + setForth >= Interval]_vars
  <2> SUFFICES ASSUME Pings, Next PROVE sinceSent + setForth >= Interval
    BY <1>1
  <2>1. ping_timer <= 0
    <3>1. ASSUME NEW out \in BOOLEAN, keepalive(out), out => ping_outstanding
          PROVE  ping_timer <= 0
      BY <3>1 DEF keepalive, MayBeExpired, Pings
    <3>2. ping_outstanding \in BOOLEAN BY <1>1 DEF Inv, TypeOK
    <3>3. keepalive(ping_outstanding) \/ keepalive(FALSE) \/ UNCHANGED ping_outstanding
      BY DEF Next, MQTTYield, Command, FirstByte, Handled, Acknowledged, AckFails, ReadPingresp,
             ReadFails, PingrespComes, Tick, ClockSetBack, ClockSetForth, pingVars
    <3> QED BY <3>1, <3>2, <3>3 DEF Pings
  <2>2. ping_timer + sinceSent + setForth >= Interval BY <1>1 DEF Inv, TimerInv
  <2>3. ping_timer \in Int /\ sinceSent \in Nat /\ setForth \in Nat
    BY <1>1, BoundAssumption DEF Inv, TypeOK
  <2> QED BY <2>1, <2>2, <2>3, Constants
<1> QED BY <1>1, Invariant, PTL DEF Spec, PingsAreSpaced
===============================================================================
