------------------------------ MODULE ClientApi ------------------------------
(* The mqttClient service between its applications and the paho client:      *)
(* references, instances and message handlers (mqttClientApi.c), with the    *)
(* user data of an instance (mqttGeneric/mqttGeneric.c) and the tasks of     *)
(* AirVantage (mqttAirVantage/mqttAirVantage.c). A call runs to its end      *)
(* before the next one; while it waits for the answer to its subscription to *)
(* the tasks, messages arrive and are handed out.                            *)
EXTENDS Integers, FiniteSets

CONSTANTS
    Refs,                   \* references le_ref_CreateRef may return
    Handlers,               \* handlers of the applications
    Topics,                 \* topics the applications subscribe to
    TASKS,                  \* the topic of the tasks of an AirVantage device
    MAX_MESSAGE_HANDLERS,
    NULL

ASSUME TasksAssumption == TASKS \notin Topics

ASSUME SlotsAssumption == MAX_MESSAGE_HANDLERS \in Nat \ {0}

Slots == 1 .. MAX_MESSAGE_HANDLERS
Indexes == {0, 1}      \* USER_DATA_INDEX and AV_USER_DATA_INDEX

\* messageHandlers: a topic filter and mqtt_OnIncomingMessage or mqtt_avOnIncomingMessage.
Slot == [topic : Topics \cup {TASKS}, fp : {"generic", "av"}]

\* mqtt_ctxData_t: the handlers of commands (and messages) and of software installs.
CtxData == [command : Handlers \cup {NULL}, install : Handlers \cup {NULL}]

\* A client; heap counts the mqtt_ctxData_t that were allocated for it.
Client ==
    [av : BOOLEAN, isconnected : BOOLEAN, messageHandlers : [Slots -> Slot \cup {NULL}],
     userCtxData : [Indexes -> CtxData \cup {NULL}], heap : Nat]

ASSUME NullAssumption == NULL \notin Refs \cup Handlers \cup Slot \cup CtxData \cup Client

Kinds == {"command", "install"}

VARIABLES
    clients,     \* g_MqttClientRefMap
    used,        \* references that were handed out: le_ref does not reuse them
    leaked,      \* number of mqtt_ctxData_t that no free can reach any more
    call,        \* the call that waits for the answer to its subscription
    registered,  \* history: handlers added and not removed, by reference and kind
    contested,   \* history: where two were registered at once
    granted,     \* history: sessions whose tasks were granted when they started
    event        \* history: what was made of the message that came in the last step

vars == <<clients, used, leaked, call, registered, contested, granted, event>>

Idle == [ref |-> NULL]
NoEvent == [ref |-> NULL, topic |-> NULL, kind |-> "message", calls |-> {}, acks |-> 0]

NoHandlers == [s \in Slots |-> NULL]

Init ==
    /\ clients = [r \in Refs |-> NULL]
    /\ used = {}
    /\ leaked = 0
    /\ call = Idle
    /\ registered = [r \in Refs |-> [k \in Kinds |-> {}]]
    /\ contested = {}
    /\ granted = {}
    /\ event = NoEvent

Calls(r) == call = Idle /\ clients[r] # NULL

-----------------------------------------------------------------------------
(* The table of subscriptions and the user data                              *)

\* MQTTSubscribe: the first slot that is free, if there is one.
Subscribed(c, topic, fp) ==
    LET free == {s \in Slots : c.messageHandlers[s] = NULL} IN
    [c EXCEPT !.messageHandlers =
        [s \in Slots |-> IF s \in free /\ \A f \in free : s <= f
                         THEN [topic |-> topic, fp |-> fp] ELSE @[s]]]

\* Mutant: the first slot that is taken, whatever its topic.
UnsubscribedFirst(c, topic) ==
    LET mine == {s \in Slots : c.messageHandlers[s] # NULL} IN
    [c EXCEPT !.messageHandlers =
        [s \in Slots |-> IF s \in mine /\ \A m \in mine : s <= m THEN NULL ELSE @[s]]]

\* MQTTUnsubscribe: the first slot of the topic.
Unsubscribed(c, topic) ==
    LET mine == {s \in Slots : c.messageHandlers[s] # NULL /\ c.messageHandlers[s].topic = topic} IN
    [c EXCEPT !.messageHandlers =
        [s \in Slots |-> IF s \in mine /\ \A m \in mine : s <= m THEN NULL ELSE @[s]]]

\* mqtt_CreateUserData, and the first half of mqtt_avCreateUserData.
HasData(c, index) == c.userCtxData[index] # NULL

\* malloc and mqtt_SetUserData: the pointer that was there is gone.
Allocated(c, index) ==
    [c EXCEPT !.userCtxData[index] = [command |-> NULL, install |-> NULL], !.heap = @ + 1]

\* Mutant: user data are created whenever a handler is set.
WithNewData(c, index) == Allocated(c, index)

WithData(c, index) == IF HasData(c, index) THEN c ELSE Allocated(c, index)

\* Mutant: handlers of AirVantage go to one place only.
CommandSetElse(c, h) ==
    IF c.av THEN [WithData(c, 1) EXCEPT !.userCtxData[1].command = h]
    ELSE [WithData(c, 0) EXCEPT !.userCtxData[0].command = h]

\* mqtt_avSetCommandHandler for AirVantage, and mqtt_SetCommandHandler for everybody.
CommandSet(c, h) ==
    LET av == IF c.av THEN [WithData(c, 1) EXCEPT !.userCtxData[1].command = h] ELSE c
    IN  [WithData(av, 0) EXCEPT !.userCtxData[0].command = h]

\* Mutant: a handler that is removed is not looked at.
InstallSetUnlessRemoved(c, h) ==
    IF c.av /\ h # NULL THEN [WithData(c, 1) EXCEPT !.userCtxData[1].install = h] ELSE c

InstallSet(c, h) ==
    IF c.av THEN [WithData(c, 1) EXCEPT !.userCtxData[1].install = h] ELSE c

HandlerSet(c, kind, h) == IF kind = "command" THEN CommandSet(c, h) ELSE InstallSet(c, h)

\* The pointers to user data that a client has.
DataOf(c) == {index \in Indexes : HasData(c, index)}

-----------------------------------------------------------------------------
(* Instances and sessions                                                    *)

Create(r, av) ==
    /\ call = Idle
    /\ r \notin used
    /\ used' = used \cup {r}
    /\ clients' = [clients EXCEPT ![r] =
            [av |-> av, isconnected |-> FALSE, messageHandlers |-> NoHandlers,
             userCtxData |-> [index \in Indexes |-> NULL], heap |-> 0]]
    /\ event' = NoEvent
    /\ UNCHANGED <<leaked, call, registered, contested, granted>>

\* mqtt_DeleteInstance frees the user data it finds a pointer to, and then the pointers.
Delete(r) ==
    /\ Calls(r)
    /\ clients' = [clients EXCEPT ![r] = NULL]
    /\ leaked' = leaked + clients[r].heap - Cardinality(DataOf(clients[r]))
    /\ granted' = granted \ {r}
    /\ event' = NoEvent
    /\ UNCHANGED <<used, call, registered, contested>>

\* What subscribes to the tasks, and what is set when the answer is there.
Subscribing(r, kind, h) == [ref |-> r, kind |-> kind, handler |-> h]

\* MQTTClient() clears the table, and a session of AirVantage subscribes to the tasks.
StartSession(r) ==
    /\ Calls(r)
    /\ \E up \in BOOLEAN :
         /\ clients' = [clients EXCEPT ![r].isconnected = up, ![r].messageHandlers = NoHandlers]
         /\ call' = IF up /\ clients[r].av THEN Subscribing(r, "session", NULL) ELSE Idle
    /\ granted' = granted \ {r}
    /\ event' = NoEvent
    /\ UNCHANGED <<used, leaked, registered, contested>>

\* MQTTDisconnect clears the table of a session that is up, and of no other.
Disconnected(c) ==
    [c EXCEPT !.isconnected = FALSE,
              !.messageHandlers = IF c.isconnected THEN NoHandlers ELSE @]

StopSession(r) ==
    /\ Calls(r)
    /\ clients' = [clients EXCEPT ![r] = Disconnected(@)]
    /\ granted' = granted \ {r}
    /\ event' = NoEvent
    /\ UNCHANGED <<used, leaked, call, registered, contested>>

\* A read finds the end of the connection: in ProcessEvent, or while a call waits.
ConnectionLost(r) ==
    /\ clients[r] # NULL /\ call.ref \in {NULL, r}
    /\ clients' = [clients EXCEPT ![r].isconnected = FALSE]
    /\ event' = NoEvent
    /\ UNCHANGED <<used, leaked, call, registered, contested, granted>>

Subscribe(r, topic) ==
    /\ Calls(r) /\ clients[r].isconnected
    /\ clients' = [clients EXCEPT ![r] = Subscribed(@, topic, "generic")]
    /\ event' = NoEvent
    /\ UNCHANGED <<used, leaked, call, registered, contested, granted>>

Unsubscribe(r, topic) ==
    /\ Calls(r) /\ clients[r].isconnected
    /\ clients' = [clients EXCEPT ![r] = Unsubscribed(@, topic)]
    /\ granted' = IF topic = TASKS THEN granted \ {r} ELSE granted
    /\ event' = NoEvent
    /\ UNCHANGED <<used, leaked, call, registered, contested>>

-----------------------------------------------------------------------------
(* Handlers                                                                  *)

Registers(r, kind, h) ==
    /\ registered' = [registered EXCEPT ![r][kind] = @ \cup {h}]
    /\ contested' = IF registered[r][kind] = {} THEN contested ELSE contested \cup {r}

\* Mutant: the tasks are subscribed to each time.
SubscribesAlways(c) == c.av

\* mqtt_avCreateUserData subscribes to the tasks when it creates the user data.
SubscribesFirst(c) == c.av /\ ~ HasData(c, 1)

\* mqttClient_AddIncomingMessageHandler and mqttClient_AddAvSoftwareInstallHandler: the
\* handler is set at once ...
AddHandler(r, kind, h) ==
    /\ Calls(r) /\ h \notin registered[r][kind]
    /\ ~ SubscribesFirst(clients[r])
    /\ clients' = [clients EXCEPT ![r] = HandlerSet(clients[r], kind, h)]
    /\ Registers(r, kind, h)
    /\ event' = NoEvent
    /\ UNCHANGED <<used, leaked, call, granted>>

\* ... or when the tasks were subscribed to.
AddFirstHandler(r, kind, h) ==
    /\ Calls(r) /\ h \notin registered[r][kind]
    /\ SubscribesFirst(clients[r])
    /\ clients' = [clients EXCEPT ![r] = WithData(clients[r], 1)]
    /\ call' = Subscribing(r, kind, h)
    /\ event' = NoEvent
    /\ UNCHANGED <<used, leaked, registered, contested, granted>>

\* The subscription ends, granted or not, and the call with it.
TasksAnswered ==
    /\ call # Idle
    /\ LET r == call.ref IN
       \E ok \in BOOLEAN :
         LET c == IF ok THEN Subscribed(clients[r], TASKS, "av") ELSE clients[r] IN
         /\ ok => clients[r].isconnected
         /\ IF call.kind = "session"
            THEN /\ clients' = [clients EXCEPT ![r] = c]
                 /\ granted' = IF ok THEN granted \cup {r} ELSE granted
                 /\ UNCHANGED <<registered, contested>>
            ELSE /\ clients' = [clients EXCEPT ![r] = HandlerSet(c, call.kind, call.handler)]
                 /\ Registers(r, call.kind, call.handler)
                 /\ UNCHANGED granted
    /\ call' = Idle
    /\ event' = NoEvent
    /\ UNCHANGED <<used, leaked>>

\* mqttClient_RemoveIncomingMessageHandler and mqttClient_RemoveAvSoftwareInstallHandler
\* know the instance and not the handler: it is the last one that goes. After a Delete
\* the reference is not found.
RemoveHandler(r, kind, h) ==
    /\ call = Idle
    /\ h \in registered[r][kind]
    /\ registered' = [registered EXCEPT ![r][kind] = @ \ {h}]
    /\ IF clients[r] = NULL THEN UNCHANGED clients
                            ELSE clients' = [clients EXCEPT ![r] = HandlerSet(clients[r], kind, NULL)]
    /\ event' = NoEvent
    /\ UNCHANGED <<used, leaked, call, contested, granted>>

-----------------------------------------------------------------------------
(* Messages                                                                  *)

Has(c, s, topic, fp) == c.messageHandlers[s] = [topic |-> topic, fp |-> fp]

HandlerIn(c, index, kind) == IF HasData(c, index) THEN {c.userCtxData[index][kind]} \ {NULL} ELSE {}

\* mqtt_OnIncomingMessage and mqtt_avOnIncomingMessage: whom they call.
Called(c, topic, kind) ==
    (IF \E s \in Slots : Has(c, s, topic, "generic") THEN HandlerIn(c, 0, "command") ELSE {})
      \cup (IF kind \in Kinds /\ (\E s \in Slots : Has(c, s, topic, "av"))
            THEN HandlerIn(c, 1, kind) ELSE {})

\* deliverMessage, for each slot of the topic: a command is acknowledged by each of
\* them, unless it cannot be written, whether a handler was called or not.
Message(r, topic, kind) ==
    /\ clients[r] # NULL /\ call.ref \in {NULL, r}
    /\ clients[r].isconnected
    /\ kind \in Kinds => topic = TASKS
    /\ LET c == clients[r]
           tasks == {s \in Slots : Has(c, s, topic, "av")} IN
       \E acks \in 0 .. (IF kind = "command" THEN Cardinality(tasks) ELSE 0) :
         event' = [ref |-> r, topic |-> topic, kind |-> kind,
                   calls |-> Called(c, topic, kind), acks |-> acks]
    /\ UNCHANGED <<clients, used, leaked, call, registered, contested, granted>>

\* A call with a reference that is not found changes nothing.
Fault(r) ==
    /\ call = Idle
    /\ r \in used /\ clients[r] = NULL
    /\ UNCHANGED vars

Next ==
    \/ \E r \in Refs :
         \/ \E av \in BOOLEAN : Create(r, av)
         \/ Delete(r) \/ StartSession(r) \/ StopSession(r) \/ ConnectionLost(r) \/ Fault(r)
         \/ \E topic \in Topics \cup {TASKS} :
              \/ Subscribe(r, topic) \/ Unsubscribe(r, topic)
              \/ \E kind \in {"message"} \cup Kinds : Message(r, topic, kind)
         \/ \E kind \in Kinds, h \in Handlers :
              AddHandler(r, kind, h) \/ AddFirstHandler(r, kind, h) \/ RemoveHandler(r, kind, h)
    \/ TasksAnswered

Spec == Init /\ [][Next]_vars

-----------------------------------------------------------------------------
(* Properties                                                                *)

CallsInProgress ==
    {Idle} \cup [ref : Refs, kind : {"session"}, handler : {NULL}]
           \cup [ref : Refs, kind : Kinds, handler : Handlers]

Events ==
    [ref : Refs \cup {NULL}, topic : Topics \cup {TASKS, NULL}, kind : {"message"} \cup Kinds,
     calls : SUBSET Handlers, acks : 0 .. MAX_MESSAGE_HANDLERS]

\* Types: a call in progress is of a reference that is found.
TypeOK ==
    /\ clients \in [Refs -> Client \cup {NULL}]
    /\ used \in SUBSET Refs
    /\ leaked \in Int
    /\ call \in CallsInProgress
    /\ call # Idle => clients[call.ref] # NULL
    /\ registered \in [Refs -> [Kinds -> SUBSET Handlers]]
    /\ contested \in SUBSET Refs
    /\ granted \in SUBSET Refs
    /\ event \in Events

\* A message is handed to nobody who has not added a handler of its kind to its
\* instance, or has removed it: not after a second handler was added and one of the
\* two removed, and not to the handler that is just being added, while its call waits.
OnlyRegisteredAreCalled ==
    event # NoEvent =>
        event.calls \subseteq
            UNION {registered[event.ref][k] : k \in {"command"} \cup ({event.kind} \cap Kinds)}

\* Where no two handlers were ever registered at once, the one that is registered is
\* installed in every place a message for it may come through, whatever sessions were
\* started and lost since it was added.
SoleHandlerIsInstalled ==
    \A r \in Refs \ contested, h \in Handlers :
        clients[r] # NULL =>
          /\ registered[r]["command"] = {h} =>
                HandlerIn(clients[r], 0, "command") = {h}
                  /\ (clients[r].av => HandlerIn(clients[r], 1, "command") = {h})
          /\ registered[r]["install"] = {h} /\ clients[r].av =>
                HandlerIn(clients[r], 1, "install") = {h}

\* Each mqtt_ctxData_t that was allocated and not freed has one pointer to it, whatever
\* calls set handlers, of commands and of installs, for AirVantage or not, in whichever
\* order, and however many instances were deleted before: none is allocated over one
\* that is there, and mqtt_DeleteInstance passes over none.
NoUserDataLeaks ==
    /\ \A r \in Refs : clients[r] # NULL => clients[r].heap = Cardinality(DataOf(clients[r]))
    /\ leaked = 0

\* A command of AirVantage is acknowledged at most twice: the session and the first
\* handler subscribe to the tasks, each may get a slot, and nothing else does, however
\* often sessions start and handlers come and go.
TwoAcksAtMost == event.acks <= 2

\* As long as the application leaves the topic of the tasks alone, a session whose
\* tasks were granted when it started has the slot that receives them, whatever else
\* is subscribed to and unsubscribed from.
GrantedTasksArrive ==
    \A r \in granted : \E s \in Slots : Has(clients[r], s, TASKS, "av")
=============================================================================
