------------------------------- MODULE Sockets -------------------------------
(* Who owns which descriptor: the Network of each instance (paho/MQTTLinux.c)*)
(* with the TLS socket under it (tlsInterface/tlsSocket.c), through the      *)
(* sessions an application starts and stops (mqttGeneric/mqttGeneric.c).     *)
(* A call runs to its end before the service takes the next one.             *)
EXTENDS Integers

CONSTANTS
    Instances,      \* the instances an application may create
    TlsInstances,   \* those created with useTLS
    MaxDescriptor,  \* socket() fails when 0 .. MaxDescriptor are open
    Process,        \* who opened standard input
    Free,           \* nobody: the descriptor is closed
    NULL

ASSUME InstancesAssumption ==
    /\ TlsInstances \subseteq Instances
    /\ Process \notin Instances /\ Free \notin Instances /\ Free # Process

ASSUME MaxDescriptorAssumption == MaxDescriptor \in Nat

Descriptors == 0 .. MaxDescriptor
None == -1

\* tlsSocket_st: the descriptor in server_fd, and is_connected.
TlsSocket == [fd : Descriptors \cup {None}, is_connected : BOOLEAN]

ASSUME NullAssumption == NULL \notin TlsSocket

nMaxRetry == 3

VARIABLES
    openBy,           \* by whom the file of each descriptor was opened
    created,          \* instances that exist
    my_socket,        \* Network: the TCP socket of an instance
    tlsSocketObject,  \* Network: its TLS socket
    ipstack,          \* Client: whether MQTTClient() has set ipstack
    isconnected,      \* Client
    call,             \* mqtt_StartSession, when it is in progress
    stolen            \* history: descriptors closed over somebody else's file

vars == <<openBy, created, my_socket, tlsSocketObject, ipstack, isconnected, call, stolen>>

Idle == [at |-> "idle"]
Crashed == [at |-> "crashed"]
Calls ==
    {Idle, Crashed}
        \cup [at : {"connect"}, instance : Instances, nRetry : 0 .. nMaxRetry - 1]
        \cup [at : {"mqttConnect"}, instance : Instances, nRetry : 0 .. nMaxRetry - 1, up : BOOLEAN]

\* Standard input is open or not; the other descriptors of the process are left out.
Init ==
    /\ \E stdin \in {Process, Free} : openBy = [d \in Descriptors |-> IF d = 0 THEN stdin ELSE Free]
    /\ created = {}
    /\ my_socket = [i \in Instances |-> None]
    /\ tlsSocketObject = [i \in Instances |-> NULL]
    /\ ipstack = [i \in Instances |-> FALSE]
    /\ isconnected = [i \in Instances |-> FALSE]
    /\ call = Idle
    /\ stolen = {}

-----------------------------------------------------------------------------
(* The functions of the sockets, on what they read and write: the table of   *)
(* descriptors, the history, and the Network of the instance.                *)

Net(i) ==
    [openBy |-> openBy, stolen |-> stolen, my_socket |-> my_socket[i], tls |-> tlsSocketObject[i]]

Becomes(i, s) ==
    /\ openBy' = s.openBy
    /\ stolen' = s.stolen
    /\ my_socket' = [my_socket EXCEPT ![i] = s.my_socket]
    /\ tlsSocketObject' = [tlsSocketObject EXCEPT ![i] = s.tls]

\* close(), by instance i: nothing happens when d is not open.
Close(s, i, d) ==
    IF d = None THEN s
    ELSE [s EXCEPT !.openBy = [@ EXCEPT ![d] = Free],
                   !.stolen = @ \cup (IF s.openBy[d] \in {Free, i} THEN {} ELSE {d})]

\* socket(): the lowest descriptor that is not open.
Lowest(s, d) ==
    /\ d \in Descriptors /\ s.openBy[d] = Free
    /\ \A e \in Descriptors : s.openBy[e] = Free => d <= e

Open(s, i, d) == [s EXCEPT !.openBy = [@ EXCEPT ![d] = i]]

\* Mutant: the contexts are freed, and server_fd is not.
TlsFreeKeepsDescriptor(s, i) ==
    IF s.tls.is_connected THEN s
    ELSE [s EXCEPT !.tls = [fd |-> 0, is_connected |-> FALSE]]

\* tlsSocket_free: memset leaves 0 in server_fd, which is a descriptor.
tlsSocket_free(s, i) ==
    IF s.tls.is_connected THEN s
    ELSE [Close(s, i, s.tls.fd) EXCEPT !.tls = [fd |-> 0, is_connected |-> FALSE]]

\* tlsSocket_close: is_connected is still set when it calls tlsSocket_free.
tlsSocket_close(s, i) == IF s.tls.is_connected THEN tlsSocket_free(s, i) ELSE s

tlsSocket_delete(s, i) == [tlsSocket_free(s, i) EXCEPT !.tls = NULL]

\* Mutant: my_socket is not reset.
TcpCloseKeepsSocket(s, i) == Close(s, i, s.my_socket)

TcpClose(s, i) == [Close(s, i, s.my_socket) EXCEPT !.my_socket = None]

linux_disconnect(s, i) ==
    IF i \in TlsInstances
    THEN IF s.tls = NULL THEN s ELSE tlsSocket_delete(tlsSocket_close(s, i), i)
    ELSE TcpClose(s, i)

\* linux_connect over TCP and how it ends: no address, which leaves my_socket as it
\* was; no descriptor; or a socket, connected or not.
TcpConnect(i, up) ==
    LET closed == Close(Net(i), i, my_socket[i]) IN
    \/ Becomes(i, closed) /\ ~ up
    \/ /\ \A d \in Descriptors : ~ Lowest(closed, d)
       /\ Becomes(i, [closed EXCEPT !.my_socket = None])
       /\ ~ up
    \/ \E d \in Descriptors :
         Lowest(closed, d) /\ Becomes(i, [Open(closed, i, d) EXCEPT !.my_socket = d])

\* linux_connect over TLS: the old object is deleted. tlsSocket_connect fails before it
\* has a connection (mbedtls_net_connect closes its socket and leaves the number in
\* fd), fails in the handshake, or succeeds.
TlsConnect(i, up) ==
    LET deleted == linux_disconnect(Net(i), i)
        With(s, fd) == [s EXCEPT !.tls = [fd |-> fd, is_connected |-> FALSE]] IN
    \/ /\ \E fd \in {None} \cup {d \in Descriptors : Lowest(deleted, d)} :
            Becomes(i, tlsSocket_free(With(deleted, fd), i))
       /\ ~ up
    \/ \E d \in Descriptors :
         /\ Lowest(deleted, d)
         /\ LET opened == With(Open(deleted, i, d), d) IN
            IF up THEN Becomes(i, [opened EXCEPT !.tls.is_connected = TRUE])
                  ELSE Becomes(i, tlsSocket_free(opened, i))

-----------------------------------------------------------------------------
(* The calls                                                                 *)

\* mqttClient_Create: NewNetwork, on memory that was cleared.
Create(i) ==
    /\ call = Idle
    /\ i \notin created
    /\ created' = created \cup {i}
    /\ my_socket' = [my_socket EXCEPT ![i] = None]
    /\ tlsSocketObject' = [tlsSocketObject EXCEPT ![i] = NULL]
    /\ ipstack' = [ipstack EXCEPT ![i] = FALSE]
    /\ isconnected' = [isconnected EXCEPT ![i] = FALSE]
    /\ UNCHANGED <<openBy, call, stolen>>

\* mqtt_StopSession: MQTTDisconnect and the disconnect of the Network.
StopSession(i) ==
    /\ call = Idle
    /\ i \in created
    /\ isconnected' = [isconnected EXCEPT ![i] = FALSE]
    /\ Becomes(i, linux_disconnect(Net(i), i))
    /\ UNCHANGED <<created, ipstack, call>>

\* mqtt_DeleteInstance stops the session first.
Delete(i) ==
    /\ call = Idle
    /\ i \in created
    /\ created' = created \ {i}
    /\ isconnected' = [isconnected EXCEPT ![i] = FALSE]
    /\ Becomes(i, linux_disconnect(Net(i), i))
    /\ UNCHANGED <<ipstack, call>>

StartSession(i) ==
    /\ call = Idle
    /\ i \in created
    /\ call' = [at |-> "connect", instance |-> i, nRetry |-> 0]
    /\ UNCHANGED <<openBy, created, my_socket, tlsSocketObject, ipstack, isconnected, stolen>>

\* Mutant: MQTTClient() leaves isconnected as it is.
MQTTClientKeepsConnected(i) == ipstack' = [ipstack EXCEPT ![i] = TRUE] /\ UNCHANGED isconnected

MQTTClient(i) ==
    /\ ipstack' = [ipstack EXCEPT ![i] = TRUE]
    /\ isconnected' = [isconnected EXCEPT ![i] = FALSE]

\* The first half of an attempt: network.connect, whose result is not looked at, and
\* MQTTClient().
Connect ==
    /\ call.at = "connect"
    /\ LET i == call.instance IN
       /\ \E up \in BOOLEAN :
            /\ IF i \in TlsInstances THEN TlsConnect(i, up) ELSE TcpConnect(i, up)
            /\ call' = [at |-> "mqttConnect", instance |-> i, nRetry |-> call.nRetry, up |-> up]
       /\ MQTTClient(i)
    /\ UNCHANGED created

TriesAgain(n) == n + 1 < nMaxRetry

\* The second half: MQTTConnect, which can succeed over a connection only.
ConnectAccepted ==
    /\ call.at = "mqttConnect"
    /\ call.up /\ ~ isconnected[call.instance]
    /\ isconnected' = [isconnected EXCEPT ![call.instance] = TRUE]
    /\ call' = Idle
    /\ UNCHANGED <<openBy, created, my_socket, tlsSocketObject, ipstack, stolen>>

ConnectFails ==
    /\ call.at = "mqttConnect"
    /\ LET i == call.instance IN
       /\ isconnected' = [isconnected EXCEPT ![i] = FALSE]
       /\ Becomes(i, linux_disconnect(Net(i), i))
       /\ call' = IF TriesAgain(call.nRetry)
                  THEN [at |-> "connect", instance |-> i, nRetry |-> call.nRetry + 1]
                  ELSE Idle
    /\ UNCHANGED <<created, ipstack>>

\* Whether a read of instance i has a socket to read from: linux_read dereferences
\* tlsSocketObject, and readPacket the pointer ipstack.
CanRead(i) == ipstack[i] /\ (i \in TlsInstances => tlsSocketObject[i] # NULL)

\* mqtt_ProcessEvent, or another call that reads, finds the end of the stream ...
ReadEof(i) ==
    /\ call = Idle
    /\ i \in created
    /\ CanRead(i)
    /\ isconnected' = [isconnected EXCEPT ![i] = FALSE]
    /\ UNCHANGED <<openBy, created, my_socket, tlsSocketObject, ipstack, call, stolen>>

\* ... or has no socket to read from.
ReadCrashes(i) ==
    /\ call = Idle
    /\ i \in created
    /\ ~ CanRead(i)
    /\ call' = Crashed
    /\ UNCHANGED <<openBy, created, my_socket, tlsSocketObject, ipstack, isconnected, stolen>>

Next ==
    \/ \E i \in Instances :
         \/ Create(i) \/ Delete(i) \/ StartSession(i) \/ StopSession(i)
         \/ ReadEof(i) \/ ReadCrashes(i)
    \/ Connect \/ ConnectAccepted \/ ConnectFails

Spec == Init /\ [][Next]_vars

-----------------------------------------------------------------------------
(* Properties                                                                *)

\* Types: the attempts of mqtt_StartSession stay below their limit.
TypeOK ==
    /\ openBy \in [Descriptors -> Instances \cup {Process, Free}]
    /\ created \in SUBSET Instances
    /\ my_socket \in [Instances -> Descriptors \cup {None}]
    /\ tlsSocketObject \in [Instances -> TlsSocket \cup {NULL}]
    /\ ipstack \in [Instances -> BOOLEAN]
    /\ isconnected \in [Instances -> BOOLEAN]
    /\ call \in Calls
    /\ stolen \in SUBSET Descriptors

\* The descriptor an instance reads from and writes to.
Descriptor(i) ==
    IF i \notin TlsInstances THEN my_socket[i]
    ELSE IF tlsSocketObject[i] = NULL THEN None ELSE tlsSocketObject[i].fd

\* Whatever sessions are started and stopped, and however they fail, an instance that
\* is connected talks over a connection it opened itself, unless that has the number 0.
OwnConnection ==
    \A i \in created : isconnected[i] =>
        /\ Descriptor(i) # None
        /\ Descriptor(i) # 0 => openBy[Descriptor(i)] = i

\* No instance ever closes what another has open, or the process itself, except at
\* descriptor 0.
OnlyZeroIsStolen == stolen \subseteq {0}

\* A connection that nobody can close any more.
Orphan(d) == openBy[d] \in Instances /\ Descriptor(openBy[d]) # d

\* A connection is lost in one way only: a TLS socket whose handshake succeeded is
\* closed. No failure of a connect, of any kind and at any attempt, loses one.
OrphansWereConnected ==
    [][\A d \in Descriptors : Orphan(d)' /\ ~ Orphan(d) =>
         \E i \in TlsInstances :
            /\ tlsSocketObject[i] = [fd |-> d, is_connected |-> TRUE]
            /\ tlsSocketObject'[i] # tlsSocketObject[i]]_vars

\* What tlsSocket.h says of tlsSocket_close, "Close the TCP socket": an instance
\* without a TLS socket has no connection open.
CloseCloses ==
    call = Idle => \A i \in TlsInstances :
        tlsSocketObject[i] = NULL => \A d \in Descriptors : openBy[d] # i

\* What net.h says of mbedtls_net_init, "Just makes the context ready to be used or
\* freed safely": no context that is freed closes somebody else's file.
FreedSafely == stolen = {}

\* What mqttClient.api says of ProcessEvent, "should be calling this function on a
\* regular basis": the service survives the call in every state of an instance.
ProcessEventReturns == call # Crashed
=============================================================================
