------------------------------- MODULE KeepAlive -------------------------------
(***************************************************************************)
(* The keep-alive of a connected client in discrete time: the ping timer   *)
(* of paho/MQTTClient.c, the blocking reads of MQTTYield and waitfor, the  *)
(* wall clock in which paho/MQTTLinux.c keeps its timers, and an           *)
(* application that never stays away longer than Period.                   *)
(*                                                                         *)
(* keepalive is no thread.  It runs when cycle has handled a packet or     *)
(* failed to read one, and not at all when the acknowledgement of a packet *)
(* cannot be written: sendPacket refuses it once the time of the call is   *)
(* over.  The timeout of linux_read is one of every recv, so that a packet *)
(* holds a call for as long as its bytes and its handler take.             *)
(*                                                                         *)
(* A tick is long against a millisecond: a timer at 0 may have expired or  *)
(* have less than a millisecond left, which left_ms rounds to 0 and        *)
(* linux_read takes for half a second.  Writes take no time.               *)
(*                                                                         *)
(* Nothing limits how long a PINGRESP is awaited, and no PINGREQ is        *)
(* written until it has been read: if it never comes the client stays      *)
(* silent until the application writes.                                    *)
(***************************************************************************)
EXTENDS Integers

CONSTANTS
    Interval,       \* keepAliveInterval
    Period,         \* the longest time the application spends between two calls
    Wait,           \* the waiting time it passes to ProcessEvent
    Timeout,        \* command_timeout_ms
    MinRead,        \* how long linux_read blocks when no millisecond is left
    Stall,          \* the longest time from the first byte of a packet to the
                    \* end of its handler
    MaxJump,        \* bound: ticks the clock is set back or forth in all
    MaxMissed,      \* bound: writes that fail in a row
    MaxAwaited      \* bound: ticks without a write while a PINGRESP is awaited

ASSUME IntervalAssumption == Interval \in Nat \ {0}
ASSUME CallAssumption == /\ Period \in Nat /\ Wait \in Nat \ {0} /\ Timeout \in Nat \ {0}
                         /\ MinRead \in 1..Wait
ASSUME NetworkAssumption == Stall \in Nat
ASSUME BoundAssumption == MaxJump \in Nat /\ MaxMissed \in Nat /\ MaxAwaited \in Nat

VARIABLES
    call,               \* "none", "yield" or "command"
    timer,              \* ticks left of the timer of the call
    held,               \* ticks the call has lasted
    inside,             \* readPacket has read the first byte of a packet
    left,               \* ticks until the read, the packet or the pause must end
    ping_timer,         \* ticks left of c->ping_timer
    ping_outstanding,
    arrived,            \* the PINGRESP is the next packet
    sinceSent,          \* ticks since a packet was written
    awaited,            \* those of them in which a PINGRESP was yet to come
    missed,             \* writes that have failed since then
    setBack, setForth   \* ticks the clock was set back and forth

callVars == <<call, timer, held, inside, left>>
sendVars == <<ping_timer, sinceSent, awaited, missed>>
pingVars == <<ping_outstanding, arrived>>
clockVars == <<setBack, setForth>>
vars == <<callVars, sendVars, pingVars, clockVars>>

Init ==   \* the CONNECT was written and accepted, MQTTConnect has returned
    /\ call = "none" /\ timer = 0 /\ held = 0 /\ inside = FALSE /\ left = Period
    /\ sinceSent \in 0..Interval /\ sinceSent <= Timeout
    /\ ping_timer = Interval - sinceSent /\ awaited = 0 /\ missed = 0
    /\ ping_outstanding = FALSE /\ arrived = FALSE
    /\ setBack = 0 /\ setForth = 0

-------------------------------------------------------------------------------
Limit == IF call = "yield" THEN Wait ELSE Timeout

MayBeExpired(t) == t <= 0
MayBeRunning(t) == t >= 0

Sent == ping_timer' = Interval /\ sinceSent' = 0 /\ awaited' = 0 /\ missed' = 0

\* Mutant: a failed write arms the ping timer too.
NotSentRearmed == /\ missed < MaxMissed /\ missed' = missed + 1
                  /\ ping_timer' = Interval /\ UNCHANGED <<sinceSent, awaited>>

NotSent == /\ missed < MaxMissed /\ missed' = missed + 1
           /\ UNCHANGED <<ping_timer, sinceSent, awaited>>

keepalive(outstanding) ==     \* its result is ignored by cycle
    LET due == MayBeExpired(ping_timer) /\ ~outstanding
    IN  \/ /\ due /\ Sent
           /\ ping_outstanding' = TRUE /\ arrived' = FALSE
        \/ /\ \/ due /\ NotSent
              \/ (MayBeRunning(ping_timer) \/ outstanding) /\ UNCHANGED sendVars
           /\ ping_outstanding' = outstanding /\ arrived' = (arrived /\ outstanding)

Return == call' = "none" /\ timer' = 0 /\ held' = 0 /\ inside' = FALSE /\ left' = Period

\* Mutant: every packet gets the whole time again.
ReadOnRearmed ==
    /\ MayBeRunning(timer)
    /\ inside' = FALSE /\ left' = Limit /\ timer' = Limit
    /\ UNCHANGED <<call, held>>

ReadOn ==   \* the loop of MQTTYield and waitfor: another cycle
    /\ MayBeRunning(timer)
    /\ inside' = FALSE /\ left' = (IF timer = 0 THEN MinRead ELSE timer)
    /\ UNCHANGED <<call, timer, held>>

AfterSuccess == ReadOn \/ (MayBeExpired(timer) /\ Return)

AfterFailure ==   \* MQTTYield returns it, waitfor goes on
    \/ call = "yield" /\ Return
    \/ call = "command" /\ AfterSuccess

-------------------------------------------------------------------------------
MQTTYield ==
    /\ call = "none"
    /\ call' = "yield" /\ timer' = Wait /\ held' = 0 /\ inside' = FALSE /\ left' = Wait
    /\ UNCHANGED <<sendVars, pingVars, clockVars>>

Command ==   \* MQTTPublish, MQTTSubscribe or MQTTUnsubscribe: write and wait
    /\ call = "none"
    /\ \/ /\ Sent
          /\ call' = "command" /\ timer' = Timeout /\ held' = 0
          /\ inside' = FALSE /\ left' = Timeout
       \/ NotSent /\ UNCHANGED callVars
    /\ UNCHANGED <<pingVars, clockVars>>

FirstByte ==   \* of a packet that is no PINGRESP
    /\ call # "none" /\ ~inside /\ ~arrived
    /\ inside' = TRUE /\ left' \in 0..Stall
    /\ UNCHANGED <<call, timer, held, sendVars, pingVars, clockVars>>

Handled ==     \* the packet asks for no acknowledgement
    /\ inside
    /\ keepalive(ping_outstanding)
    /\ AfterSuccess \/ (call = "command" /\ Return)    \* the answer waitfor waits for
    /\ UNCHANGED clockVars

Acknowledged ==   \* a PUBACK, PUBREC or PUBREL is written, keepalive finds nothing due
    /\ inside /\ MayBeRunning(timer)
    /\ Sent
    /\ AfterSuccess
    /\ UNCHANGED <<pingVars, clockVars>>

AckFails ==       \* no time left, or an error of the write: cycle skips keepalive
    /\ inside
    /\ NotSent
    /\ AfterFailure
    /\ UNCHANGED <<pingVars, clockVars>>

ReadPingresp ==
    /\ call # "none" /\ ~inside /\ arrived
    /\ keepalive(FALSE)
    /\ AfterSuccess
    /\ UNCHANGED clockVars

ReadFails ==      \* nothing came, or the packet stopped in its middle
    /\ call # "none" /\ left = 0
    /\ inside \/ ~arrived
    /\ keepalive(ping_outstanding)
    /\ AfterFailure
    /\ UNCHANGED clockVars

-------------------------------------------------------------------------------
ToCome == ping_outstanding /\ ~arrived

PingrespComes ==   \* at any time, or never
    /\ ToCome
    /\ arrived' = TRUE
    /\ UNCHANGED <<callVars, sendVars, clockVars, ping_outstanding>>

Tick ==   \* a read that can return does so before time passes
    /\ left > 0
    /\ ~(call # "none" /\ ~inside /\ arrived)
    /\ ToCome => awaited < MaxAwaited
    /\ left' = left - 1
    /\ ping_timer' = ping_timer - 1 /\ sinceSent' = sinceSent + 1
    /\ IF call = "none" THEN UNCHANGED <<timer, held>>
       ELSE timer' = timer - 1 /\ held' = held + 1
    /\ awaited' = IF ToCome THEN awaited + 1 ELSE awaited
    /\ UNCHANGED <<call, inside, missed, pingVars, clockVars>>

ClockSetBack ==   \* gettimeofday: every timer ends later, a blocked recv does not
    /\ setBack < MaxJump
    /\ setBack' = setBack + 1
    /\ ping_timer' = ping_timer + 1
    /\ timer' = IF call = "none" THEN timer ELSE timer + 1
    /\ UNCHANGED <<call, held, inside, left, sinceSent, awaited, missed, pingVars, setForth>>

ClockSetForth ==
    /\ setForth < MaxJump
    /\ setForth' = setForth + 1
    /\ ping_timer' = ping_timer - 1
    /\ timer' = IF call = "none" THEN timer ELSE timer - 1
    /\ UNCHANGED <<call, held, inside, left, sinceSent, awaited, missed, pingVars, setBack>>

Next == \/ MQTTYield \/ Command
        \/ FirstByte \/ Handled \/ Acknowledged \/ AckFails \/ ReadPingresp \/ ReadFails
        \/ PingrespComes \/ Tick \/ ClockSetBack \/ ClockSetForth

Spec == Init /\ [][Next]_vars

-------------------------------------------------------------------------------
(* The ranges the variables keep.                                          *)
TypeOK ==
    /\ call \in {"none", "yield", "command"} /\ timer \in Int /\ held \in Nat
    /\ inside \in BOOLEAN /\ left \in Nat
    /\ ping_timer \in Int /\ sinceSent \in Nat /\ awaited \in 0..MaxAwaited
    /\ missed \in 0..MaxMissed /\ ping_outstanding \in BOOLEAN /\ arrived \in BOOLEAN
    /\ setBack \in 0..MaxJump /\ setForth \in 0..MaxJump

Longest == IF Wait > Timeout THEN Wait ELSE Timeout

(* A pause of the application, one read and one packet.                    *)
Round == Period + Longest + Stall

(* The client is not silent for longer than the keep-alive interval, one   *)
(* round, one more for every write that failed, and the time for which the *)
(* PINGRESP is still to come, which nothing in the code bounds.  However   *)
(* late that is, the client goes on as soon as it has come, whatever other *)
(* traffic there is; a clock set back delays it by twice as much.          *)
StaysAlive == sinceSent - awaited <= Interval + setBack + (missed + 1) * (Round + setBack)

(* A call ends with its time: one read of MinRead and one packet later at  *)
(* most, and never by what the packets that come add up to.                *)
ReturnsInTime == call # "none" => held <= Limit + setBack + MinRead + Stall

(* A PINGREQ is written when nothing else was for the whole interval: the  *)
(* timer counts from the last packet of any kind.                          *)
Pings == ~ping_outstanding /\ ping_outstanding'
PingsAreSpaced == [][Pings => sinceSent + setForth >= Interval]_vars

===============================================================================
