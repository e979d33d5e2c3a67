------------------------------ MODULE CliSession ------------------------------
(***************************************************************************)
(* The command line servers (mqttCLI and mqttGoogleCLI, mqttCliSvr.c): how *)
(* they keep an MQTT session up over the data connection.  A server runs   *)
(* one event loop, so a command, a timer expiry and a data connection      *)
(* report are each handled to the end.  The mqttClient service it calls    *)
(* holds the instances; the data connection service reports to the handler *)
(* registered with it.                                                     *)
(*                                                                         *)
(* The Google server differs in three ways: it signs a token before it     *)
(* creates an instance, and makes nothing when it has none; it publishes   *)
(* at QoS 0, so that no command of its own reads; and it subscribes to the *)
(* configuration of its device as soon as the session has started.         *)
(***************************************************************************)
EXTENDS Naturals, Sequences

CONSTANTS
    Refs,       \* references mqttClient_Create can return
    NoRef,      \* the NULL reference
    MaxEvents   \* bound: reports waiting in the event loop

ASSUME RefAssumption == NoRef \notin Refs /\ Refs # {}
ASSUME EventAssumption == MaxEvents \in Nat \ {0}

VARIABLES
    google,     \* the server is that of mqttGoogleCLI
    cliMqttRef, hDataConnectionState, RequestRef,
    timer,      \* _timerRef is running
    wanted,     \* the last session command of the user was a start
    instance,   \* the instances the mqttClient service holds
    link,       \* the connection under the session: up, at the end of its stream,
                \*   or silent
    dataUp,     \* the data connection
    reported,   \* the data connection service has answered the present request
    events      \* its reports to the registered handler, not yet handled

cli == <<google, cliMqttRef, hDataConnectionState, RequestRef>>
vars == <<cli, timer, wanted, instance, link, dataUp, reported, events>>

\* A session is stopped by a report that the data connection is down, refused by a start
\* that fails, lost at the end of its connection.
Status == {"none", "created", "stopped", "refused", "lost", "connected"}

\* A reference that is set is one of an instance.
TypeOK ==
    /\ google \in BOOLEAN
    /\ cliMqttRef \in {r \in Refs : instance[r] # "none"} \cup {NoRef}
    /\ hDataConnectionState \in BOOLEAN /\ RequestRef \in BOOLEAN
    /\ timer \in BOOLEAN /\ wanted \in BOOLEAN
    /\ instance \in [Refs -> Status]
    /\ link \in {"up", "eof", "silent"}
    /\ dataUp \in BOOLEAN /\ reported \in BOOLEAN
    /\ events \in Seq(BOOLEAN) /\ Len(events) <= MaxEvents

Init ==
    /\ google \in BOOLEAN
    /\ cliMqttRef = NoRef /\ hDataConnectionState = FALSE /\ RequestRef = FALSE
    /\ timer = FALSE /\ wanted = FALSE
    /\ instance = [r \in Refs |-> "none"]
    /\ link = "silent" /\ dataUp \in BOOLEAN /\ reported = FALSE /\ events = <<>>

-------------------------------------------------------------------------------
(* Connect and Disconnect, as functions of what they read and write: the   *)
(* three handles of the server, the instances, and the reports waiting.    *)

Handles == [ref |-> cliMqttRef, handler |-> hDataConnectionState, request |-> RequestRef,
            instance |-> instance, events |-> events, reported |-> reported]

\* jwt_Create: the Google server may find no token, with the key it was given.
HaveToken == IF google THEN BOOLEAN ELSE {TRUE}

\* Each handle is made when it is NULL; without a token for the instance, none is.
Connect(h, token) ==
    LET new == IF h.ref # NoRef THEN h.ref
               ELSE CHOOSE r \in Refs : h.instance[r] = "none"
    IN  IF h.ref = NoRef /\ ~token THEN h
        ELSE [ref |-> new, handler |-> TRUE, request |-> TRUE,
              instance |-> IF h.ref # NoRef THEN h.instance
                           ELSE [h.instance EXCEPT ![new] = "created"],
              events |-> h.events,
              reported |-> h.reported /\ h.request]

\* Mutant: the instance is forgotten and not deleted.
DisconnectForgets(h) ==
    [ref |-> NoRef, handler |-> FALSE, request |-> FALSE,
     instance |-> h.instance, events |-> <<>>, reported |-> FALSE]

\* Mutant: the handle of the released request keeps its value, and Connect finds it.
DisconnectKeepsRequest(h) ==
    [ref |-> NoRef, handler |-> FALSE, request |-> h.request,
     instance |-> IF h.ref = NoRef THEN h.instance
                  ELSE [h.instance EXCEPT ![h.ref] = "none"],
     events |-> <<>>, reported |-> h.reported]

\* Each handle is released and set to NULL.  Deleting an instance stops its
\* session; a removed handler gets none of the reports already on their way.
Disconnect(h) ==
    [ref |-> NoRef, handler |-> FALSE, request |-> FALSE,
     instance |-> IF h.ref = NoRef THEN h.instance
                  ELSE [h.instance EXCEPT ![h.ref] = "none"],
     events |-> <<>>, reported |-> FALSE]

Becomes(h) ==
    /\ cliMqttRef' = h.ref /\ hDataConnectionState' = h.handler /\ RequestRef' = h.request
    /\ instance' = h.instance /\ events' = h.events /\ reported' = h.reported

SessionStart ==
    /\ \E token \in HaveToken : Becomes(Connect(Handles, token))
    /\ wanted' = TRUE
    /\ UNCHANGED <<google, timer, link, dataUp>>

\* "session stop", and "quit" up to the exit a second later.
SessionStop ==
    /\ Becomes(Disconnect(Handles)) /\ wanted' = FALSE
    /\ UNCHANGED <<google, timer, link, dataUp>>

-------------------------------------------------------------------------------
(* The calls of the mqttClient service.                                    *)

IsConnected == cliMqttRef # NoRef /\ instance[cliMqttRef] = "connected"

\* A command that waits for an answer (pub, sub, unsub, ...) may read the end of
\* the stream: the session is over and the command fails.
Command ==
    /\ ~google
    /\ IsConnected /\ link = "eof"
    /\ instance' = [instance EXCEPT ![cliMqttRef] = "lost"]
    /\ UNCHANGED <<cli, timer, wanted, link, dataUp, reported, events>>

\* mqttClient_ProcessEvent returns LE_FAULT when it reads the end of the stream.
\* It may return before it gets there, when the time is up or a read fails.
Faults == link = "eof"

\* Mutant: Connect comes first, and finds every handle still set.
StartOverSwapped(h, token) == Disconnect(Connect(h, token))

StartOver(h, token) == Connect(Disconnect(h), token)

\* Mutant: the timer runs once.
RearmNever == FALSE

Rearm == TRUE

\* The one-shot timer has expired.
timerHandler ==
    /\ timer
    /\ IF IsConnected
       THEN \/ /\ Faults
               /\ \E token \in HaveToken :
                    Becomes(StartOver([Handles EXCEPT !.instance[cliMqttRef] = "lost"], token))
               /\ timer' = FALSE
            \/ timer' = Rearm /\ UNCHANGED <<cli, instance, events, reported>>
       ELSE timer' = FALSE /\ UNCHANGED <<cli, instance, events, reported>>
    /\ UNCHANGED <<google, wanted, link, dataUp>>

\* Mutant: a report that the connection is down is not acted upon.
StopOnDownIgnored(r) == instance[r]

\* mqttClient_StopSession.
StopSession(r) == IF instance[r] = "none" THEN "none" ELSE "stopped"

\* A report of the data connection.  A session can be started only while the data
\* connection is up; what is reported may be out of date.  The subscription to the tasks
\* or to the configuration that follows a start may read the end of the stream.
DcsStateHandler ==
    /\ events # <<>> /\ events' = Tail(events)
    /\ IF Head(events)
       THEN \/ /\ dataUp /\ cliMqttRef # NoRef
               /\ \/ /\ instance' = [instance EXCEPT ![cliMqttRef] = "connected"]
                     /\ link' = "up"
                  \/ /\ instance' = [instance EXCEPT ![cliMqttRef] = "lost"]
                     /\ link' = "eof"
               /\ timer' = TRUE
            \/ /\ instance' = [instance EXCEPT ![cliMqttRef] = "refused"]
               /\ UNCHANGED <<link, timer>>
       ELSE /\ instance' = [instance EXCEPT ![cliMqttRef] = StopSession(cliMqttRef)]
            /\ UNCHANGED <<link, timer>>
    /\ UNCHANGED <<cli, wanted, dataUp, reported>>

-------------------------------------------------------------------------------
(* The broker and the data connection service.                             *)

\* The connection is closed, or dies without a sign of it.
ConnectionLost ==
    /\ link = "up" /\ link' \in {"eof", "silent"}
    /\ UNCHANGED <<cli, timer, wanted, instance, dataUp, reported, events>>

Report(up) ==
    IF hDataConnectionState THEN Len(events) < MaxEvents /\ events' = Append(events, up)
    ELSE events' = events

\* Another application may request the data connection as well.
DataComesUp ==
    /\ ~dataUp /\ dataUp' = TRUE
    /\ Report(TRUE) /\ reported' = RequestRef
    /\ UNCHANGED <<cli, timer, wanted, instance, link>>

DataGoesDown ==
    /\ dataUp /\ dataUp' = FALSE
    /\ link' = IF link = "up" THEN "silent" ELSE link
    /\ Report(FALSE)
    /\ UNCHANGED <<cli, timer, wanted, instance, reported>>

\* A request made while the data connection is up is answered by a report; so is
\* the request of another application.
DataReported ==
    /\ dataUp /\ Report(TRUE) /\ reported' = RequestRef
    /\ UNCHANGED <<cli, timer, wanted, instance, link, dataUp>>

AnswerRequest == DataReported /\ RequestRef /\ ~reported

-------------------------------------------------------------------------------
Next == \/ SessionStart \/ SessionStop \/ Command \/ timerHandler \/ DcsStateHandler
        \/ ConnectionLost \/ DataComesUp \/ DataGoesDown \/ DataReported

Spec == Init /\ [][Next]_vars

\* The event loop handles what waits in it, a running timer expires, and the data
\* connection service brings a requested connection up and says so.  A loss that
\* can be read again and again is read, and a session that can start again and
\* again starts.
StartsSession == DcsStateHandler /\ Head(events) /\ instance'[cliMqttRef] = "connected"
NoticesLoss == timerHandler /\ instance' # instance
Fairness ==
    /\ WF_vars(DcsStateHandler) /\ WF_vars(timerHandler)
    /\ WF_vars(DataComesUp /\ RequestRef) /\ WF_vars(AnswerRequest)
    /\ SF_vars(StartsSession) /\ SF_vars(NoticesLoss)
FairSpec == Spec /\ Fairness
-------------------------------------------------------------------------------
(* Properties.                                                             *)

\* The instances in the mqttClient service are the one the server refers to: however
\* often the session starts over, none is left behind.
NoInstanceLeaks == {r \in Refs : instance[r] # "none"} = {cliMqttRef} \ {NoRef}

\* After "session start" the server holds an instance, a handler and a request, also
\* when it has started over; the Google server that has no token holds none of them.
\* Nor does any after "session stop", and no report or timer expiry that comes later
\* brings one back.
HandlesFollowUser ==
    /\ hDataConnectionState = (cliMqttRef # NoRef)
    /\ RequestRef = (cliMqttRef # NoRef)
    /\ cliMqttRef # NoRef => wanted
    /\ wanted => cliMqttRef # NoRef \/ google

\* A connected session has a timer running, so that mqttClient_ProcessEvent is
\* called "on a regular basis" (mqttClient.api:159).
ConnectedIsServiced == IsConnected => timer

\* While the data connection stays up, an instance made by "session start" or by a start
\* over, and one whose session a report of the data connection stopped, gets its session
\* started: the request that belongs to it is reported to the handler registered with
\* it, and the report that follows the one that stopped it is handled.  Only a start that
\* fails with the data connection up leaves it without a session; the server does not
\* try again (mqttCliSvr.c:324-328).
NewInstanceStarts ==
    cliMqttRef # NoRef /\ instance[cliMqttRef] \in {"created", "stopped"} /\ []dataUp
        ~> cliMqttRef = NoRef \/ instance[cliMqttRef] \in {"connected", "lost", "refused"}

\* A session does not outlive its data connection: while it still counts as connected
\* without one, the report that stops it is on its way.
DownStopsSession ==
    IsConnected /\ ~dataUp => \E i \in DOMAIN events : events[i] = FALSE

\* "MQTT connection might be lost", "Start over again" (mqttCliSvr.c:228): a session
\* whose connection came to its end is connected again when the data connection
\* stays up, or the user stops it.
LossStartsOver ==
    ~google /\ IsConnected /\ link = "eof" /\ []dataUp ~> ~wanted \/ (IsConnected /\ link = "up")
===============================================================================
