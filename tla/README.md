# A verification of mqttClient for Legato

TLA+ models of the MQTT client service and of the command line server that uses
it, checked with TLC on small instances, and theorems about them checked with
TLAPS for every value of their constants. Everything is written from the C code
under `src/`; `PROJECT.json` maps each definition to its lines. Below, `C` is
`paho/MQTTClient.c`, `L` is `paho/MQTTLinux.c`, `G` is
`mqttGeneric/mqttGeneric.c`, `AV` is `mqttAirVantage/mqttAirVantage.c`, `API` is
`mqttClientApi.c` (all in `src/mqttClientApi/mqttClientApiComponent/`), and `CLI` is
`src/mqttCLI/mqttCliSvrComponent/mqttCliSvr.c`, or the file of that name in
`src/mqttGoogleCLI/` where the Google server is meant.

## The system

Three kinds of process, each with one Legato event loop and no other thread:

- `mqttClient`, the service. Applications call it by synchronous IPC; each
  holds references to *instances*, and gets messages back by IPC callbacks.
- `mqttCLI` and `mqttGoogleCLI`, applications of the service: command line servers
  that keep one session up over the data connection.
- the one-shot programs that send a command to a command line server.

An API call runs to its end before the service looks at anything else, also when
it waits seconds for a packet. Between two of its socket operations the broker,
the network and the clock move freely: that is where the concurrency is.

| Component | State | Operations | What makes it correct |
|---|---|---|---|
| paho client (`C`) | `isconnected`, packet identifier, handler table, `ping_outstanding`, two timers, one read buffer | connect, subscribe, unsubscribe, publish, yield, disconnect; all read through `cycle` | an answer is matched to its call; no message is lost, reordered, doubled or acknowledged too early; pings balance; every call returns |
| packet serialization | the buffers of its caller | encode and decode every packet | what one side writes the other reads, within the buffer |
| TCP socket and timers (`L`) | descriptor, timer ends | connect, read, write, close | descriptors are closed by their owner, once, and not leaked; packets are read where they begin |
| TLS socket | mbedtls contexts, `is_connected` | create, connect, send, receive, close, delete | contexts and descriptor are owned and released once |
| generic session layer (`G`) | one instance: client, network, configuration | start (three attempts), stop, subscribe, publish, process | a failed start leaves nothing open; connected means accepted |
| AirVantage layer (`AV`) | handlers of commands and software installs | subscribe to the tasks of a device, deliver a command, acknowledge it from inside the callback | every command reaches its handler and is acknowledged; the nested publish takes nothing from the call around it but what is said below |
| mqttClient API service (`API`) | reference map of instances, handlers | create, start, stop, process, delete, add and remove handlers | a reference is valid from create to delete; messages go to the handlers that are registered, and to nobody else |
| command line servers, session (`CLI`) | instance, data connection handler and request, one-shot timer; the Google server a token | session start and stop, commands, timer, data connection report | no instance is left behind, handles follow the user, a session is serviced and restarted |
| command line servers, messages (`CLI`) | list of at most 20 messages | queue a message, show the queued ones | oldest dropped first, shown in order, no node lost |
| paho server side | none | the other half of the serialization | not called by the client; it is the other end of `Packets` |
| mbedtls, formatting of packets, samples | | | vendored, or not called |

How they interact: the command line server calls the API service by IPC; the API
service calls the generic layer, which drives the paho client; the paho client
reads and writes through the function pointers of its `Network`, which lead to
the TCP or the TLS socket. Back up, `deliverMessage` calls the handler the generic
layer installed, which hands the message to the AirVantage layer or the application,
where it ends in the list of messages. What is hard is listed under `hazards` in
`PROJECT.json`, each at its line: late answers, messages that come while a
command waits, calls inside the callbacks of calls, partly written packets, resets
between two operations, a full handler table, limits of lengths, a ping that nothing but
traffic can trigger, a connection whose end one party sees and the other does not, and
data connection reports that are out of date.

## The modules

### MQTTClient

One instance driven over plain TCP, and the broker at the other end. `pc` says
where the call in progress stands and `call` is its locals; each action ends at a
socket operation or a loop head:

| Actions | Code |
|---|---|
| `MQTTSubscribe`, `MQTTUnsubscribe`, `MQTTPublish`, `MQTTYield`, `StartSession`, `StopSession` | entry of a call up to its first write |
| `OpenConnection`, `RetrySession` | the loop of `mqtt_StartSession` |
| `SendRequest`, `SendPayload`, `SendFails` | `sendPacket`, `sendPacket2`: written whole, or in part (`torn`) |
| `WaitExpired`, `ReadPacket`, `ReadTimesOut`, `ReadError`, `ReadEof` | `waitfor`, `MQTTYield`, `readPacket`, `linux_read` |
| `Dispatch`, `SendAck`, `KeepAlive` | the switch of `cycle`, its acknowledgements, `keepalive` |
| `FinishConnect`, `FinishSubscribe`, `FinishUnsubscribe`, `FinishPublish` | the rest of the call after `waitfor` |
| `TimerExpires`, `PingTimerExpires` | `expired` becomes true |
| `BrokerCloses`, `ConnectionReset`, `BrokerHandles`, `BrokerPublishes` | the network and a conforming broker |

The data are abstracted to what the properties tell apart: a packet is its type,
identifier, filter and code (its bytes are `Packets`); filters are model values that
match themselves (`Topics` has the wildcards). A timer is the question whether it has
expired (`KeepAlive` has the time). The history variables (`delivered`,
`lost`, `unanswered`, `granted`, `subscribed`, `unserved`) are written and never read by
the actions.

A broker may grant less than was asked for, so the code 0 can answer a subscription of any
QoS, and over a full table `MQTTSubscribe` returns the code as it is: 0 is a success, 1
and 2 are failures. `SubscribedHasHandler` says that the subscriptions without a handler
are those (`unserved`) and no others: what leaves and takes slots later, a
retry of one of them included, does not add any.

### AirVantage

The acknowledgement of a command is an `MQTTPublish` that `avOnIncomingMessage` makes
while `deliverMessage` goes through the handlers of that command, inside the `cycle` of
the call that read it. At QoS 1 it waits for its PUBACK with cycles of its own, which may
deliver the next command. So the calls are a `stack` of frames, and `Top` is the one that
runs: `Send`, `ReadPublish`, `ReadAnswer`, `ReadTimesOut`, `ReadEof`, `WaitExpired` are
`waitfor` and `cycle` of the topmost call, `CallHandler` is one turn of the loop over the
slots and may push a frame, `Delivered` and `SendPuback` end a delivery. All frames read
into one `readbuf`: `Seen` is what the topic and the payload of a delivery point to by
then. A PUBACK is shorter than the topic's place and leaves it as it is; a SUBACK may
overwrite its first byte. Sessions, pings and refusals are those of `MQTTClient` and left
out.

### KeepAlive

Time in ticks. `ping_timer` and the timer of the call are what is left of them, `left` is
the time until the current read, packet or pause must end, and `sinceSent` the silence of
the client. The constants are the numbers a deployment has: the keep-alive interval (30 s
unless configured), the `Period` between two calls of the application (15 s with `CLI`),
the `Wait` of `MQTTYield` (1 s), the `Timeout` of the commands (5 s), the half second
`linux_read` blocks when less than a millisecond is left (`MinRead`) and the longest packet
with its handler (`Stall`). A PINGRESP comes at any time, or never. `keepalive` is called
by `Handled`, `ReadPingresp` and `ReadFails`, not by `AckFails`, as in `cycle`. The wall clock may be set (`ClockSetBack`,
`ClockSetForth`): the timers are `gettimeofday`, a blocked read is not. Writes take no time.

While a PINGRESP is awaited `keepalive` writes nothing, and nothing in the code gives up the
waiting: as long as the PINGRESP is still to come (`ToCome`), which may be for good, the client
is silent unless the application publishes or subscribes. `awaited` counts that time,
and `StaysAlive` leaves it out, since nothing bounds it. The rest of the silence is bounded by the
interval and one `Round` (pause, longest call, packet), and one more for each write that failed
since: whatever else the network sends, and however late the PINGRESP was, the silence ends
after it. A broker closes after one and a
half intervals without a packet, so `Round` has to stay below half an interval for a
session to survive; with the numbers of `CLI` and its default interval it is 15 s and a
call, which is just above. After a PINGRESP that is lost, it is the loss of the connection
that ends the session.

### Packets, RemainingLength and Topics

`RemainingLength` is the length field of a packet, one turn of a loop at a time: `Encode` is
`MQTTPacket_encode`, `Decode` is `decodePacket`, `MQTTPacket_len` is the length a
serializer compares with its buffer. The numbers are the real ones, up to
268435455. `Packets` puts everything else around it: `HeaderByte` and one operator for each
serializer give the bytes of a packet, `Deserialize` and the operators behind it what the
deserializers read from them, with the packets of the client written by the client's half
and read by the server's, and the reverse. Strings are sequences of bytes; the payload of
a PUBLISH is its length, since the client sends it from the buffer of its caller.
`ConnectPackets` and its siblings are what the callers pass: a string whose length fits its
two bytes, a will of topic and message or none, no identifier at QoS 0. The loops over
strings are functions of the number of turns, `Sizes` for the lengths and `ReadTopics` for the
reader; `isTopicMatched` and `Levels` are functions of the position from which they go on.
The filters are in the format the comment of `isTopicMatched` assumes
(`TopicFiltersAssumption`, `WellFormed`). `Stale` is what the read buffer holds behind a
packet, and `ReadCut` is the packet whose length field `readPacket` gave up in. `Topics` is `isTopicMatched`, position by position, next to
what wildcards mean level by level (`ByLevels`): here `+` stands for one level that is not
empty, and `#` for one or more, the first not empty, which is narrower than the protocol
for empty levels and for the parent level of `#`.

What the translation brought up and the properties leave room for: the server refuses a
password that is empty or comes without a user name, and an empty user name with nothing
behind it (`NotSupplied`), but takes every prefix of the protocol name for it, the empty one
included, and what begins with it (`MQTTPacket_checkVersion`); an UNSUBSCRIBE that is cut short is
refused with what `decodeBuf` counted, 1 for a short one; the serializers of CONNACK, SUBACK and UNSUBACK, which only a
server calls, ask for two bytes less than they write (`Needs`); `MQTTDeserialize_suback`
compares `*count > maxcount` before it stores a code, so that it accepts one more than its
caller has room for, 2 in `MQTTSubscribe`, and refuses what has more (`MaxCount`, `TooMany`).

### CliSession

The command line server with its three handles, its timer, the instances it owns
in the service and the reports that wait in its event loop. `Connect` and
`Disconnect` are functions on a record of what they read and write, so that
"start over" is their composition, as in the code. `google` says which of the two servers
it is: that of Google signs a token before it creates an instance and makes none of its
handles without one (`HaveToken`), has no command that reads, and subscribes to the
configuration of its device after a start, as the service does to the tasks of an AirVantage
device; either subscription may read the end of the stream. The data connection service is
external: it may report late, repeatedly, and to another application's request.

An instance remembers how its session ended: stopped by a report that the data connection is
down, refused by a start that failed, or lost at the end of its connection. Each calls for
something else. A stopped session must be started by the report that the data connection is up
again, and so must a new one (`NewInstanceStarts`); a refused one is not tried again
by the server before the next report, and a lost one is started over only if the timer sees the
loss, which is the disagreement of `start_over`.

### DropOldestQueue and InMessageQueue

`DropOldestQueue` is the promise: the newest messages wait in order, a command
takes the longest run of the oldest that fits its response. `InMessageQueue` is
the code, with the list, the pool and the loop of the command one turn at a time.
`ListSpec` of `InMessageQueue` implements `DropOldestQueue` with `waiting` mapped to what is in
the response, in the hands of the loop, and in the list, and `shown` to what the responses have shown.
The two command line servers have the same list.

### PacketStream and ReadPacket

`PacketStream` is what `MQTTClient` takes for granted of `readPacket`: whole
packets, once, in order; only the last one before the end of the connection may be
cut off. `ReadPacket` is the code over `linux_read` or `tlsSocket_receive`, which
behave alike here: a byte is known by the packet and the place it belongs to, `wire`
is what has not arrived, `buffer` what has arrived and was not read. A read takes
what is there and may find nothing before its timeout, also inside a packet:
`stalled` remembers that. What is read out of step says anything as a digit of a
length. Until it stalls, `ReadPacket` implements `PacketStream` with `unread` mapped
to the headers that are still to come, the one in the hands of `readPacket`
included.

### Sockets

The table of descriptors, and for each instance `my_socket`, `tlsSocketObject`,
`ipstack` and `isconnected`. The functions of the sockets (`tlsSocket_free`,
`linux_disconnect`, `TcpConnect`, ...) are functions on the record of what they read
and write, composed as in the code, so that what `tlsSocket_delete` does to an
object that `tlsSocket_close` left alone comes out by itself. `mqtt_StartSession` is
two actions for each attempt, as `MQTTConnect` may succeed or fail; the other
calls are one. Descriptor 0 is standard input or free; `close` by an instance of
what another has open is remembered in `stolen`.

### ClientApi

The service between its applications and the paho client: references, the table of
subscriptions with the callback of each slot, and the user data in which the handlers
are kept, once for the tasks of AirVantage and once for everything else. A call is one
action, except the two that subscribe to the tasks: `mqttClient_StartSession` of an
AirVantage instance, and the first handler that is added to one. They wait (`call`),
and messages and the end of the connection may come before `TasksAnswered`. A message is
a topic and what its JSON asks for: a command, a software install, or neither.
`registered` is what the applications have added and not removed; it is not read by the
actions, except that an application adds a handler once and removes what it has added. `heap`
counts the `malloc`s of user data for an instance, apart from the pointers to them: each
replaces the pointer that was there, and `mqtt_DeleteInstance` frees what it has a pointer to
(`leaked` is the rest). `StopSession` clears the table of a session that is up, as
`MQTTDisconnect` does, and leaves that of one that was lost, until `StartSession` clears it.

## The runs

| Run | Bounds | Shows |
|---|---|---|
| `qos1` | 2 filters, 2 handlers, QoS 1, 4 calls, 1 message, codes 0, 1 and 0x80 | answers, sessions, handlers |
| `messages` | 1 filter, QoS 2, 2 calls, 2 messages, fairness | the fate of every message; calls return, losses are noticed |
| `unsuback` | as small as shows it | one disagreement, below |
| `air_vantage` | QoS 1, 2 commands, 2 slots, 2 calls of the application | order of commands and acknowledgements, what a nested publish may take, all calls return |
| `keep_alive` | interval 5, pause 2, calls of 3, packets of 2, clock set by 2 each way, 2 failing writes, 12 ticks of waiting for a PINGRESP | silence is bounded, calls return in time |
| `packets` | strings of 0, 1, 3 and 300 bytes (topics of up to 130), lengths 0 to 700 and 3 around each limit, buffers 2 shorter to 3 longer, filters of 4 characters, topics of 3, 1 to 3 codes with room for 1 | written is read, within the buffer; wildcards |
| `read_packet` | a byte counts to 2; 2 packets of remaining lengths 0, 1, 2, 9 | `readPacket` is in step and implements the stream until a stall, and notices the end |
| `sockets` | 1 TCP and 2 TLS instances, 4 descriptors | who owns which descriptor |
| `client_api` | 1 reference, 2 handlers, 1 topic besides the tasks, 3 slots | handlers, tasks, acknowledgements, user data |
| `cli` | both servers, 2 references, 4 waiting reports | handles, instances, timer, data connection; restarts |
| `start_over` | same | one disagreement, below |
| `queue` | 3 messages listed, 6 arrive, a response for one long or two short ones | the queue |

Why the bounds are enough: the packet identifier wraps at 2, so identifiers are
reused within a run; four calls allow a subscription, a late answer, a second
subscription and a reconnection; two handlers are filled and one is freed; two
messages can be reordered, and both can come while one call waits. The two filters of
`qos1` are symmetric: no definition and no property tells them apart. In `air_vantage` two
commands stack three calls: the application's, the acknowledgement of the first and, inside
it, that of the second; two slots put a handler behind the one that publishes, and two calls
leave a late answer of the first for the second. In `keep_alive` the interval is longer than
any part of a round and shorter than two rounds, so that checks fall before, at and after
its end; a PINGRESP may be awaited for longer than two intervals. `packets` has both sides of every limit of the length field and of the two bytes of
a string, every combination of the flags of a CONNECT, and filters long enough for a wildcard
behind a separator at the end. A byte that counts to 2 makes lengths of one, two and four bytes
short enough to enumerate every cut and every stall; 2 has a first digit that is
zero, which is what a length that is cut off looks like; two packets allow one
before and one after the one that is cut. Two TLS instances and a TCP one can
take each other's descriptors, and four descriptors with 0 among them run out when
two of them are lost; the actions of `ClientApi` on two references have nothing in
common but `call`, so one is enough, and two handlers are what a removal needs; three slots hold
both subscriptions to the tasks and one more, or overflow. Two references are what `Connect`
after `Disconnect` needs; four waiting reports let an up, a down and another up be out of date
together. Six arrivals overflow a list of three twice around a command that stops
in the middle. `packets` ends with a packet read, and `sockets` may end with the service
crashed: these two do not check for deadlock.

### Fairness

`MQTTClient`: the process runs while a call is in progress (`WF` on its steps),
its timer expires in the end, and the application calls `ProcessEvent` again and
again, as `mqttClient.api` asks. The reads have strong fairness: each loop makes
a read before its timer is looked at again, so a packet or an end of stream that
is there call after call is read. `AirVantage`: the process runs, and the timer of a call in
progress expires. `CliSession`: the event loop handles what waits
in it, a running timer expires, the data connection service answers requests;
a start that can succeed again and again does, and a loss that can be read again
and again is read. `ReadPacket`: each read returns in the end and the application calls
`ProcessEvent` again; nothing is asked of the network. `InMessageQueue`: the user asks again and a command runs to its
end.

### Where the code and its comments disagree

- `unsuback`: `MQTTUnsubscribe` never compares the identifier of the UNSUBACK
  (`C:562`), so a late answer ends the next call. `OnlyLateAcksMismatch` says what
  does hold.
- `start_over`: a session whose end a command reads is not started over
  (`CLI:228`).

Eight more instances lie beside the runs; TLC violates the property of each of them.
They show the edge of a property that a run checks, or of what the callers keep to:

| Instance | Property | What it shows |
|---|---|---|
| `MCMQTTClient_signed_char` | `HandlersWereGranted` | where `char` is signed, the refusal 0x80 of a SUBACK (`C:516`) becomes -128 and is taken for a grant; on the ARM targets `char` is unsigned and the property holds (`qos1`) |
| `MCMQTTClient_duplicate` | `HandlersIndexedByTopic` | subscribing to a filter twice fills two slots (`C:522`), though the header says that handlers are indexed by topic (`paho/MQTTClient.h:88`); `TwoAcksAtMost` says how far this goes for the tasks of a device (`client_api`) |
| `MCAirVantage_buffer` | `HandlersSeeTheirMessage` | at QoS 1 the handler behind an AirVantage handler may get the command that was read inside the acknowledgement of its own (`AV:248`); never an earlier one, and at QoS 0 never another, says `OnlyNestedPublishDisturbs` (`air_vantage`) |
| `MCPackets_cut` | `CutIsRefused` | the deserializers of the client keep in `rc` what `decodeBuf` counted, so a packet without its end is refused with 1, which is their success (`MQTTDeserializePublish.c:57`); whole packets are read as they were written (`packets`) |
| `MCReadPacket_header` | `HeaderIsHeader` | after a timeout inside a packet the rest of it is read as headers (`C:155`); before, `InSync` holds (`read_packet`) |
| `MCSockets_close` | `CloseCloses` | `tlsSocket_close` (`tlsSocket.c:353`) frees nothing while `is_connected` is set; its descriptor and contexts are lost. `OrphansWereConnected` says that nothing else loses one (`sockets`) |
| `MCSockets_free` | `FreedSafely` | after a failed connect over TLS, descriptor 0 is closed (`tlsSocket.c:537`), whoever has it open; never another one, says `OnlyZeroIsStolen` (`sockets`) |
| `MCSockets_null` | `ProcessEventReturns` | `mqttClient_ProcessEvent` crashes the service before the first start and after the stop of a TLS session (`L:78`, `C:157`); the command line server does not call it then |

## The proofs

- `MQTTClient_proofs`: `TypeOK`, one lemma per kind of step, and every safety property of its
  passing runs. `OnlyLateAcksMismatch` follows from `AckInv`. The property alone is
  not inductive: whether the answer read is the call's own depends on what is in
  flight. `AckInv` says that each request and each answer in flight is of the
  call in progress or of one in `unanswered` (`Registered`), that the call's own
  is in one place at most (`OnePlace`), and which control points a call can be at
  (`Phases`). `ConnectedIsAccepted` and `NoOrphanConnection` follow from
  `SessionInv`, which follows the accepting CONNACK from the broker to
  `isconnected`. The order of messages is in `Ledger`: those delivered come before the
  one in the client's hands (`Pending`) and that before those in the socket, and the three with
  `lost` are all that were published. `EveryMessageAccounted` and
  `DeliveredInOrder` are parts of it; `AckAfterDelivery` needs `AckOrder` beside it: no
  acknowledgement of an undelivered message is under way, and `cycle` comes to its
  `ack` with a delivered one only. For `HandlersWereGranted`, `GrantInv` says that a granting
  SUBACK under way answers the call in progress, for its filter, as long as no call returned
  unanswered; it is proved where `char` is unsigned, since `MCMQTTClient_signed_char` refutes the rest.
  `SubscribedHasHandler` holds whatever the broker grants (`SubscribedInv`), with the exception it names;
  the theorem adds that there is none with a broker that never returns the code 0.
- `CliServer_proofs`: of `CliSession`, `TypeOK` and the four safety properties; for the handles the
  missing part is `ReportsHaveHandler`: a report waits only while the handler is
  registered, so `DcsStateHandler` never runs without an instance. `AllOrNone` says what a
  start leaves, all handles or, with the Google server, none. Of `InMessageQueue`, the types (with
  the bound of the pool), `NoNodeLeaks`, and the refinement of `DropOldestQueue`. Its
  invariant `RoomLeft` says that the response holds the running total of its texts, below
  its size.
- `ReadPacket_proofs`: `InSync`, `WholeUnlessCutInLength` and the refinement of `PacketStream`, for
  any packets, lengths and base of the digits. Until a timeout comes inside a
  packet, the invariant `Tracked` says that the locals of the call and the bytes
  to come belong together: at a header those bytes are the packets that are left, inside a length the
  digits that are left are worth what `rem_len` lacks, and inside a body as many bytes are
  left as the locals say. A connection that ended took the last of them away (`Coming`). The bytes of a packet are
  built by recursion over its length and the packets by recursion over their number, so
  the proofs first show what each of the two functions is for every argument.
- `Packets_proofs`: of `RemainingLength`, `TypeOK`, `RoundTrip` and `PacketFits`, for every length of
  the protocol; no run repeats them, `packets` checks what is built on them. The
  invariant relates what was written, what is left and what was read: the value is
  the sum of the digits before the position times their weights. Powers of 128 up to the
  fourth are given as numbers, since the solver cannot multiply variables. Of
  `Packets`, `WrittenIsRead` and `StaysInBuffer`, for all packets, buffers and stale bytes. `Holds` says that
  a buffer has certain bytes from a position on, whatever is around them; with it each reader
  has a lemma that inverts its writer: the numbers, a string, a string in a row of
  strings, the topics of a SUBSCRIBE, and then each type of packet. `Announces` says that
  the body of a packet is no longer than its length field says, which `StaysInBuffer` needs;
  `Arrives` that its deserializer returns it from any buffer that holds the body. The invariant `Passing` ties both to the
  behaviours: the length under way is that of the packet, and what was
  read is what was written, or the refusal of a CONNECT that is `NotSupplied` or of a
  SUBACK with `TooMany` codes.
  `DeliveredByLevels` holds for any topic and any filter in the format. `isTopicMatched` never
  sees a level, so its walk is compared with the levels of what is left: from each byte
  of the filter, and each byte of the topic, it comes to the end of both just when the levels behind
  the one stand for the levels behind the other (`Follows`). That goes from the last byte of the
  filter to the first. Where two bytes break the walk, the levels they
  begin do not stand for each other (`BreaksApart`); where they go together, the levels do just when
  those from which the walk goes on do (`GoesOn`), which for `+` is the next separator or the
  end. This needs the format: behind `+` a level has to end, behind `#` the
  filter (`CorrectBehindByte`).
- `KeepAlive_proofs`: the types, `StaysAlive`, `ReturnsInTime` and `PingsAreSpaced`, for
  every interval, pause, timeout and stall. The invariant looks ahead: the silence so far
  and the time until `keepalive` runs again (`Ahead`) stay within the bound. While a PINGRESP is still to come
  the silence that counts (`Quiet`) is none at all (`AwaitedInv`); once it has come, what is left
  of the pause and of the packet before it bounds the rest (`ArrivedInv`).
- `AirVantage_proofs`: `TypeOK` and the four safety properties, for any number of handlers and
  messages and any depth of the stack. The invariant speaks of every frame: below the top all
  are in the middle of a delivery and behind an AirVantage handler, and a delivery
  lost its message only behind one (`Shape`); what is still to be read is later than all that was
  (`Order`); and a command behind such a handler is acknowledged, or the call on top of
  it does so (`Acks`). `AnswersToCome` adds that at QoS 1 the identifiers grow with the stack (`Ids`), so
  the answer a call eats is noted. The lemmas are about stacks as functions, with no
  state: most steps leave the frames as they are and end one call at most (`Settles`).
- `Sockets_proofs`: `TypeOK`, `OnlyZeroIsStolen` and `OwnConnection`, for any
  instances and descriptors. They need each other, and `Owned`: the number an
  instance holds is 0, or names a descriptor that it has opened itself (a TCP attempt
  that found no address may hold one it has closed); and
  `Ready`: between `connect` and `MQTTConnect` the connection is up or
  `isconnected` is not set. The functions of the sockets have a lemma each, which
  says that they keep what other instances own. `OrphansWereConnected` compares two states,
  so each function has a second lemma (`Tidy`): a descriptor changes hands only to the
  instance it runs for, which lets go only of a connected TLS socket. `Clean` says that
  it runs for an instance that exists, and that the others hold nothing.
- `ClientApi_proofs`: `TypeOK` and all five safety properties, for any references,
  handlers, topics and size of the table. Three invariants carry them. `ServedInv`
  says where the handlers of a client are: in its user data are only handlers that
  are registered (`Owned`), and the only one there ever was is in all its places
  (`Sole`); lemmas say what each call does to one client, and `ServedReplaced`
  that the others keep theirs. `TasksInv` says that two slots at most hand out
  tasks, and one while no handler was added (`Few`): the first handler may add a
  slot, and from then on no call subscribes again. It holds while the call waits
  only because the call cannot be overtaken (`Waits`). `DataInv` counts the heap of each
  client: what was allocated for it is what it has pointers to (`ReplacedIsCounted`).

Assumed are only the named assumptions on constants: sizes are positive, NULL
values are no values, the codes of a SUBACK and the lengths are those of the
protocol, every message fits an empty response, the packets are those the
callers of `Packets` pass, and filters are in the format of the comment at
`paho/MQTTClient.c:186`. The buffers of `G` have a fixed size, so nothing is assumed of theirs.

What is computed by recursion is proved for every argument by induction on sets: the
arguments for which a statement fails would have a least one (`LeastMember`, from the
well-foundedness of `<` on the naturals). The library's induction rules, which are over operators,
are not used.

Only model-checked: the liveness properties (`CallsReturn` of `MQTTClient` and of
`AirVantage`, `LossNoticed`, `EofNoticed`, `NewInstanceStarts`, `EverythingLeaves`), which need fairness.
Every safety property of the passing runs is proved.

## Plan

1. `MQTTClient`, `CliSession` with both servers, `InMessageQueue`: done as above.
2. `Sockets`, `ReadPacket`, `RemainingLength`, `ClientApi`: done as above.
3. `Packets`, `Topics`, `KeepAlive`, `AirVantage`: done as above.
4. Proofs of the safety properties and of the two refinements: done for all of them.

## Not modelled

- TLS apart from its descriptors and reads: certificates, the handshake and mbedtls, which is
  vendored and nine tenths of the lines under `src/`.
- Configuration: the calls and commands that set strings and numbers before a start.
- Text: the JSON of AirVantage and of its messages, the words of commands, the token of
  the Google server, `MQTTFormat.c`.
- What nothing calls: `MQTTPacket_read` and `MQTTPacket_readnb`, `tlsSocket_receive_pattern`,
  and the helpers for PUBACK, PUBREL and PUBCOMP, which pass the identifier where the dup
  flag is expected.
- Wills: they are in the bytes of a CONNECT, but `G` never sets one.
- A connection that is reset while a packet is read byte by byte (`MQTTClient` has the
  reset, `ReadPacket` the end); packets longer than the read buffer; malformed packets, since
  the broker conforms; a write that blocks forever.
- The one-shot programs and the samples: the first sample has the session handling of `CLI`,
  the others are not built.
