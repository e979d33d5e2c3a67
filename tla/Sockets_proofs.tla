---------------------------- MODULE Sockets_proofs ----------------------------
(* For every set of instances and every number of descriptors: a connected    *)
(* instance has its own connection, nothing is stolen but descriptor 0, and   *)
(* only a connected TLS socket that is closed leaves its connection behind.   *)
EXTENDS Sockets, TLAPS

Table == [Descriptors -> Instances \cup {Process, Free}]

\* What the functions of the sockets work on.
Nets == [openBy : Table, stolen : SUBSET Descriptors,
         my_socket : Descriptors \cup {None}, tls : TlsSocket \cup {NULL}]

\* What instance i holds is its own: a TLS socket is connected or has been cleared by
\* memset; a TCP socket that is not 0 is open by i, or by one of the others.
TlsHeld(s, i) ==
    s.tls # NULL =>
        IF s.tls.is_connected
        THEN s.tls.fd # None /\ (s.tls.fd # 0 => s.openBy[s.tls.fd] = i)
        ELSE s.tls.fd = 0

TcpHeld(s, i, others) ==
    s.my_socket # None /\ s.my_socket # 0 => s.openBy[s.my_socket] \in {i} \cup others

\* When an attempt fails for want of an address my_socket may be closed already.
Held(s, i, others) == IF i \in TlsInstances THEN TlsHeld(s, i) ELSE TcpHeld(s, i, others)

\* What a call of instance i may do to the table: nothing to what others have open,
\* except at 0.
Keeps(s, t, i) ==
    /\ \A d \in Descriptors :
         d # 0 /\ s.openBy[d] \notin {i, Free} => t.openBy[d] = s.openBy[d]
    /\ t.stolen \subseteq s.stolen \cup {0}

Failing(i) == call.at = "mqttConnect" /\ call.instance = i /\ ~ call.up

Owned == \A i \in Instances : Held(Net(i), i, IF Failing(i) THEN {Free} ELSE {})

\* A session stands on a socket, and so does an attempt whose transport is up.
Ready ==
    /\ \A i \in Instances : isconnected[i] => Descriptor(i) # None /\ ~ Failing(i)
    /\ call.at = "mqttConnect" => /\ ~ isconnected[call.instance]
                                  /\ call.up => Descriptor(call.instance) # None

IInv == TypeOK /\ Owned /\ Ready /\ OnlyZeroIsStolen

-----------------------------------------------------------------------------
(* The functions of the sockets                                              *)

LEMMA NetType == TypeOK => \A i \in Instances : Net(i) \in Nets
  BY DEF TypeOK, Net, Nets, Table

\* close() frees d and nothing else.
LEMMA CloseFacts ==
    ASSUME NEW s \in Nets, NEW i \in Instances, NEW d \in Descriptors \cup {None}
    PROVE  /\ Close(s, i, d) \in Nets
           /\ Close(s, i, d).my_socket = s.my_socket
           /\ Close(s, i, d).tls = s.tls
           /\ \A e \in Descriptors :
                Close(s, i, d).openBy[e] = IF e = d THEN Free ELSE s.openBy[e]
           /\ Close(s, i, d).stolen \subseteq s.stolen \cup {d}
           /\ d \in Descriptors /\ s.openBy[d] \in {i, Free} => Close(s, i, d).stolen = s.stolen
           /\ d = None => Close(s, i, d).stolen = s.stolen
<1>1. None \notin Descriptors
  BY MaxDescriptorAssumption DEF None, Descriptors
<1>2. CASE d = None
  BY <1>1, <1>2 DEF Close, Nets
<1>3. CASE d \in Descriptors
  BY <1>1, <1>3 DEF Close, Nets, Table
<1> QED
  BY <1>2, <1>3

\* socket() opens d for i.
LEMMA OpenFacts ==
    ASSUME NEW s \in Nets, NEW i \in Instances, NEW d \in Descriptors
    PROVE  /\ Open(s, i, d) \in Nets
           /\ Open(s, i, d).my_socket = s.my_socket
           /\ Open(s, i, d).tls = s.tls
           /\ Open(s, i, d).stolen = s.stolen
           /\ \A e \in Descriptors :
                Open(s, i, d).openBy[e] = IF e = d THEN i ELSE s.openBy[e]
  BY DEF Open, Nets, Table

\* Closing what i holds, or 0, or nothing, keeps what the others have.
LEMMA CloseKeeps ==
    ASSUME NEW s \in Nets, NEW i \in Instances, NEW d \in Descriptors \cup {None},
           d # None /\ d # 0 => s.openBy[d] \in {i, Free}
    PROVE  Keeps(s, Close(s, i, d), i)
<1>1. CASE d = None
  BY <1>1 DEF Close, Keeps
<1>2. CASE d # None /\ d # 0
  BY <1>2, CloseFacts DEF Keeps
<1>3. CASE d = 0
  BY <1>3, CloseFacts DEF Keeps
<1> QED
  BY <1>1, <1>2, <1>3

LEMMA KeepsTransitive ==
    ASSUME NEW i \in Instances, NEW s, NEW t, NEW r, Keeps(s, t, i), Keeps(t, r, i)
    PROVE  Keeps(s, r, i)
  BY DEF Keeps

\* tlsSocket_free does nothing to a connected socket and clears another one.
LEMMA FreeFacts ==
    ASSUME NEW s \in Nets, NEW i \in Instances, s.tls # NULL
    PROVE  LET t == tlsSocket_free(s, i) IN
           /\ t \in Nets
           /\ t.my_socket = s.my_socket
           /\ s.tls.is_connected => t = s
           /\ ~ s.tls.is_connected =>
                /\ t.tls = [fd |-> 0, is_connected |-> FALSE]
                /\ t.openBy = Close(s, i, s.tls.fd).openBy
                /\ t.stolen = Close(s, i, s.tls.fd).stolen
<1>1. s.tls \in TlsSocket /\ s.tls.fd \in Descriptors \cup {None} /\ s.tls.is_connected \in BOOLEAN
  BY DEF Nets, TlsSocket
<1>2. Close(s, i, s.tls.fd) \in Nets /\ Close(s, i, s.tls.fd).my_socket = s.my_socket
  BY <1>1, CloseFacts
<1>3. [fd |-> 0, is_connected |-> FALSE] \in TlsSocket
  BY MaxDescriptorAssumption DEF TlsSocket, Descriptors
<1> QED
  BY <1>1, <1>2, <1>3 DEF tlsSocket_free, Nets

\* What is left of the TLS socket after linux_disconnect, and that it takes nothing.
LEMMA DisconnectFacts ==
    ASSUME NEW s \in Nets, NEW i \in Instances, Held(s, i, {Free})
    PROVE  LET t == linux_disconnect(s, i) IN
           /\ t \in Nets
           /\ Keeps(s, t, i)
           /\ i \in TlsInstances => t.tls = NULL
           /\ i \notin TlsInstances => t.my_socket = None
<1>1. CASE i \notin TlsInstances
  <2>1. s.my_socket \in Descriptors \cup {None}
    BY DEF Nets
  <2>2. s.my_socket # None /\ s.my_socket # 0 => s.openBy[s.my_socket] \in {i, Free}
    BY <1>1 DEF Held, TcpHeld
  <2>3. Close(s, i, s.my_socket) \in Nets /\ Keeps(s, Close(s, i, s.my_socket), i)
    BY <2>1, <2>2, CloseFacts, CloseKeeps
  <2> QED
    BY <1>1, <2>3 DEF linux_disconnect, TcpClose, Nets, Keeps
<1>2. CASE i \in TlsInstances /\ s.tls = NULL
  BY <1>2 DEF linux_disconnect, Keeps
<1>3. CASE i \in TlsInstances /\ s.tls # NULL
  <2> DEFINE c == tlsSocket_close(s, i)
             f == tlsSocket_free(c, i)
  <2>1. c = s
    BY <1>3 DEF tlsSocket_close, tlsSocket_free
  <2>2. f \in Nets /\ Keeps(s, f, i)
    <3>1. CASE s.tls.is_connected
      BY <1>3, <2>1, <3>1, FreeFacts DEF Keeps
    <3>2. CASE ~ s.tls.is_connected
      <4>1. s.tls.fd = 0 /\ 0 \in Descriptors
        BY <1>3, <3>2, MaxDescriptorAssumption DEF Held, TlsHeld, Descriptors
      <4>2. Keeps(s, Close(s, i, 0), i)
        BY <4>1, CloseKeeps
      <4>3. /\ f \in Nets
            /\ f.openBy = Close(s, i, 0).openBy
            /\ f.stolen = Close(s, i, 0).stolen
        BY <1>3, <2>1, <3>2, <4>1, FreeFacts
      <4> QED
        BY <4>2, <4>3 DEF Keeps
    <3> QED
      BY <3>1, <3>2
  <2>3. linux_disconnect(s, i) = [f EXCEPT !.tls = NULL]
    BY <1>3 DEF linux_disconnect, tlsSocket_delete
  <2> HIDE DEF f
  <2> QED
    BY <1>3, <2>2, <2>3 DEF Nets, Keeps
<1> QED
  BY <1>1, <1>2, <1>3

-----------------------------------------------------------------------------
(* The steps                                                                 *)

\* A call of i that ends in s, where i holds its own, keeps the invariant's parts
\* about descriptors.
LEMMA BecomesOwned ==
    ASSUME IInv, NEW i \in Instances, NEW s \in Nets, Becomes(i, s), Keeps(Net(i), s, i),
           Held(s, i, IF Failing(i)' THEN {Free} ELSE {}),
           \A j \in Instances \ {i} : ~ Failing(j)
    PROVE  /\ Owned'
           /\ OnlyZeroIsStolen'
           /\ Net(i)' = s
           /\ \A j \in Instances \ {i} : Descriptor(j)' = Descriptor(j)
           /\ openBy' \in Table /\ stolen' \in SUBSET Descriptors
           /\ my_socket' \in [Instances -> Descriptors \cup {None}]
           /\ tlsSocketObject' \in [Instances -> TlsSocket \cup {NULL}]
<1>1. /\ openBy' = s.openBy /\ stolen' = s.stolen
      /\ my_socket' = [my_socket EXCEPT ![i] = s.my_socket]
      /\ tlsSocketObject' = [tlsSocketObject EXCEPT ![i] = s.tls]
  BY DEF Becomes
<1>2. /\ my_socket \in [Instances -> Descriptors \cup {None}]
      /\ tlsSocketObject \in [Instances -> TlsSocket \cup {NULL}]
      /\ openBy \in Table /\ stolen \subseteq {0}
  BY DEF IInv, TypeOK, Table, OnlyZeroIsStolen
<1>3. /\ openBy' \in Table /\ stolen' \in SUBSET Descriptors
      /\ my_socket' \in [Instances -> Descriptors \cup {None}]
      /\ tlsSocketObject' \in [Instances -> TlsSocket \cup {NULL}]
  BY <1>1, <1>2 DEF Nets
<1>4. my_socket'[i] = s.my_socket /\ tlsSocketObject'[i] = s.tls
  BY <1>1, <1>2
<1>5. s = [openBy |-> s.openBy, stolen |-> s.stolen, my_socket |-> s.my_socket, tls |-> s.tls]
  BY DEF Nets
<1>6. Net(i)' = s
  BY <1>1, <1>4, <1>5 DEF Net
<1>7. \A j \in Instances \ {i} :
         my_socket'[j] = my_socket[j] /\ tlsSocketObject'[j] = tlsSocketObject[j]
  BY <1>1, <1>2
<1>8. \A j \in Instances \ {i} : Descriptor(j)' = Descriptor(j)
  BY <1>7 DEF Descriptor
<1>9. OnlyZeroIsStolen'
  BY <1>1, <1>2 DEF Keeps, Net, OnlyZeroIsStolen
<1>10. \A d \in Descriptors : d # 0 /\ openBy[d] \notin {i, Free} => openBy'[d] = openBy[d]
  BY <1>1 DEF Keeps, Net
<1>11. ASSUME NEW j \in Instances \ {i} PROVE Held(Net(j)', j, {})
  <2>1. Held(Net(j), j, {})
    BY DEF IInv, Owned
  <2>2. j # i /\ j # Free
    BY InstancesAssumption
  <2>3. my_socket[j] \in Descriptors \cup {None}
        /\ (tlsSocketObject[j] # NULL => tlsSocketObject[j].fd \in Descriptors \cup {None})
    BY <1>2 DEF TlsSocket
  <2>4. CASE j \notin TlsInstances
    <3>1. my_socket[j] # None /\ my_socket[j] # 0 => openBy[my_socket[j]] = j
      BY <2>1, <2>4 DEF Held, TcpHeld, Net
    <3>2. my_socket'[j] # None /\ my_socket'[j] # 0 => openBy'[my_socket'[j]] = j
      BY <1>7, <1>10, <2>2, <2>3, <3>1
    <3> QED
      BY <2>4, <3>2 DEF Held, TcpHeld, Net
  <2>5. CASE j \in TlsInstances
    BY <1>7, <1>10, <2>1, <2>2, <2>3, <2>5 DEF Held, TlsHeld, Net
  <2> QED
    BY <2>4, <2>5
<1>12. Owned'
  <2>1. \A j \in Instances \ {i} : Held(Net(j)', j, IF Failing(j)' THEN {Free} ELSE {})
    BY <1>11 DEF Held, TcpHeld
  <2>2. Held(Net(i)', i, IF Failing(i)' THEN {Free} ELSE {})
    BY <1>6
  <2> QED
    BY <2>1, <2>2 DEF Owned
<1> QED
  BY <1>3, <1>6, <1>8, <1>9, <1>12

\* No instance has a socket.
LEMMA InitInv == Init => IInv
<1> SUFFICES ASSUME Init PROVE IInv
  OBVIOUS
<1>1. TypeOK
  BY DEF Init, TypeOK, Calls, Idle
<1>2. ~ (call.at = "mqttConnect")
  BY DEF Init, Idle
<1>3. \A i \in Instances :
        my_socket[i] = None /\ tlsSocketObject[i] = NULL /\ ~ isconnected[i]
  BY DEF Init
<1>4. Owned
  BY <1>3 DEF Owned, Held, TlsHeld, TcpHeld, Net
<1> QED
  BY <1>1, <1>2, <1>3, <1>4 DEF IInv, Ready, OnlyZeroIsStolen, Init

\* No call is in progress, so nobody is between the two halves of an attempt.
LEMMA NobodyFailing == \A i \in Instances : call = Idle \/ call = Crashed => ~ Failing(i)
  BY DEF Failing, Idle, Crashed

\* The step changes neither sockets nor descriptors.
LEMMA SameSockets ==
    ASSUME IInv, UNCHANGED <<openBy, my_socket, tlsSocketObject, stolen>>,
           \A i \in Instances : Failing(i) => Failing(i)'
    PROVE  Owned' /\ OnlyZeroIsStolen' /\ \A i \in Instances : Descriptor(i)' = Descriptor(i)
<1>1. \A i \in Instances : Net(i)' = Net(i) /\ Descriptor(i)' = Descriptor(i)
  BY DEF Net, Descriptor
<1>2. ASSUME NEW i \in Instances PROVE Held(Net(i)', i, IF Failing(i)' THEN {Free} ELSE {})
  <2>1. Held(Net(i), i, IF Failing(i) THEN {Free} ELSE {})
    BY DEF IInv, Owned
  <2> QED
    BY <1>1, <2>1 DEF Held, TcpHeld
<1> QED
  BY <1>1, <1>2 DEF IInv, Owned, OnlyZeroIsStolen

LEMMA CreateStep == ASSUME IInv, NEW i \in Instances, Create(i) PROVE IInv'
<1>1. TypeOK'
  BY DEF IInv, TypeOK, Create
<1>2. \A j \in Instances : ~ Failing(j) /\ ~ Failing(j)'
  BY DEF Create, Failing, Idle
<1>3. ~ (call.at = "mqttConnect") /\ ~ (call'.at = "mqttConnect")
  BY DEF Create, Idle
<1>4. /\ my_socket'[i] = None /\ tlsSocketObject'[i] = NULL /\ ~ isconnected'[i]
      /\ \A j \in Instances \ {i} : /\ my_socket'[j] = my_socket[j]
                                    /\ tlsSocketObject'[j] = tlsSocketObject[j]
                                    /\ isconnected'[j] = isconnected[j]
      /\ openBy' = openBy /\ stolen' = stolen
  BY DEF IInv, TypeOK, Create
<1>5. ASSUME NEW j \in Instances PROVE Held(Net(j)', j, {})
  <2>1. Held(Net(j), j, {})
    BY <1>2 DEF IInv, Owned
  <2>2. CASE j = i
    BY <1>4, <2>2 DEF Held, TlsHeld, TcpHeld, Net
  <2>3. CASE j # i
    BY <1>4, <2>1, <2>3 DEF Net
  <2> QED
    BY <2>2, <2>3
<1>6. Owned'
  BY <1>2, <1>5 DEF Owned
<1>7. Ready'
  BY <1>2, <1>3, <1>4 DEF IInv, Ready, Descriptor
<1> QED
  BY <1>1, <1>4, <1>6, <1>7 DEF IInv, OnlyZeroIsStolen

\* linux_disconnect by i, which ends its session.
LEMMA DisconnectStep ==
    ASSUME IInv, NEW i \in Instances,
           Becomes(i, linux_disconnect(Net(i), i)),
           isconnected' = [isconnected EXCEPT ![i] = FALSE],
           created' \in SUBSET Instances, ipstack' = ipstack, call' \in Calls,
           \A j \in Instances \ {i} : ~ Failing(j),
           ~ (call'.at = "mqttConnect")
    PROVE  IInv'
<1> DEFINE s == linux_disconnect(Net(i), i)
<1>1. \A j \in Instances : ~ Failing(j)'
  BY DEF Failing
<1>2. Net(i) \in Nets /\ Held(Net(i), i, {Free})
  BY NetType DEF IInv, Owned, Held, TcpHeld
<1>3. /\ s \in Nets /\ Keeps(Net(i), s, i)
      /\ i \in TlsInstances => s.tls = NULL
      /\ i \notin TlsInstances => s.my_socket = None
  BY <1>2, DisconnectFacts
<1> HIDE DEF s
<1>4. Held(s, i, IF Failing(i)' THEN {Free} ELSE {})
  BY <1>3 DEF Held, TlsHeld, TcpHeld
<1>5. Becomes(i, s)
  BY DEF s
<1>6. /\ Owned' /\ OnlyZeroIsStolen'
      /\ \A j \in Instances \ {i} : Descriptor(j)' = Descriptor(j)
      /\ openBy' \in Table /\ stolen' \in SUBSET Descriptors
      /\ my_socket' \in [Instances -> Descriptors \cup {None}]
      /\ tlsSocketObject' \in [Instances -> TlsSocket \cup {NULL}]
  BY <1>3, <1>4, <1>5, BecomesOwned
<1>7. /\ isconnected' \in [Instances -> BOOLEAN] /\ ~ isconnected'[i]
      /\ \A j \in Instances \ {i} : isconnected'[j] = isconnected[j]
  BY DEF IInv, TypeOK
<1>8. TypeOK'
  BY <1>6, <1>7 DEF IInv, TypeOK, Table
<1>9. Ready'
  BY <1>1, <1>6, <1>7 DEF IInv, Ready
<1> QED
  BY <1>6, <1>8, <1>9 DEF IInv

LEMMA StopSessionStep == ASSUME IInv, NEW i \in Instances, StopSession(i) PROVE IInv'
<1>1. \A j \in Instances : ~ Failing(j)
  BY NobodyFailing DEF StopSession
<1>2. call' \in Calls /\ ~ (call'.at = "mqttConnect") /\ created' \in SUBSET Instances
  BY DEF IInv, TypeOK, StopSession, Calls, Idle
<1> QED
  BY <1>1, <1>2, DisconnectStep, Zenon DEF StopSession

LEMMA DeleteStep == ASSUME IInv, NEW i \in Instances, Delete(i) PROVE IInv'
<1>1. \A j \in Instances : ~ Failing(j)
  BY NobodyFailing DEF Delete
<1>2. call' \in Calls /\ ~ (call'.at = "mqttConnect") /\ created' \in SUBSET Instances
  BY DEF IInv, TypeOK, Delete, Calls, Idle
<1> QED
  BY <1>1, <1>2, DisconnectStep, Zenon DEF Delete

LEMMA StartSessionStep == ASSUME IInv, NEW i \in Instances, StartSession(i) PROVE IInv'
<1>1. call' = [at |-> "connect", instance |-> i, nRetry |-> 0]
  BY DEF StartSession
<1>2. call' \in Calls /\ ~ (call'.at = "mqttConnect") /\ ~ (call.at = "mqttConnect")
  BY <1>1 DEF Calls, nMaxRetry, StartSession, Idle
<1>3. TypeOK'
  BY <1>2 DEF IInv, TypeOK, StartSession
<1>4. \A j \in Instances : ~ Failing(j) /\ ~ Failing(j)'
  BY <1>2 DEF Failing
<1>5. /\ Owned' /\ OnlyZeroIsStolen'
      /\ \A j \in Instances : Descriptor(j)' = Descriptor(j)
  BY <1>4, SameSockets DEF StartSession
<1>6. isconnected' = isconnected
  BY DEF StartSession
<1> QED
  BY <1>2, <1>3, <1>4, <1>5, <1>6 DEF IInv, Ready

\* What network.connect may leave behind: a socket of i's own when it is up, and when it
\* is not, possibly the number of a socket that is closed.
Connected(s, i, up) ==
    /\ s \in Nets
    /\ Keeps(Net(i), s, i)
    /\ Held(s, i, IF up THEN {} ELSE {Free})
    /\ up => IF i \in TlsInstances THEN s.tls # NULL ELSE s.my_socket # None

LEMMA TcpConnectFacts ==
    ASSUME IInv, NEW i \in Instances, i \notin TlsInstances, NEW up \in BOOLEAN,
           TcpConnect(i, up)
    PROVE  \E s : Becomes(i, s) /\ Connected(s, i, up)
<1> DEFINE closed == Close(Net(i), i, my_socket[i])
<1>1. Net(i) \in Nets /\ my_socket[i] \in Descriptors \cup {None} /\ Net(i).my_socket = my_socket[i]
  BY NetType DEF IInv, TypeOK, Net
<1>2. my_socket[i] # None /\ my_socket[i] # 0 => Net(i).openBy[my_socket[i]] \in {i, Free}
  BY <1>1 DEF IInv, Owned, Held, TcpHeld
<1>3. /\ closed \in Nets /\ closed.my_socket = my_socket[i]
      /\ \A e \in Descriptors : e = my_socket[i] => closed.openBy[e] = Free
      /\ Keeps(Net(i), closed, i)
  BY <1>1, <1>2, CloseFacts, CloseKeeps
<1>4. \/ Becomes(i, closed) /\ ~ up
      \/ Becomes(i, [closed EXCEPT !.my_socket = None]) /\ ~ up
      \/ \E d \in Descriptors :
           Lowest(closed, d) /\ Becomes(i, [Open(closed, i, d) EXCEPT !.my_socket = d])
  BY DEF TcpConnect
<1> HIDE DEF closed
<1>5. CASE Becomes(i, closed) /\ ~ up
  <2>1. Held(closed, i, {Free})
    BY <1>1, <1>3 DEF Held, TcpHeld
  <2> QED
    BY <1>3, <1>5, <2>1 DEF Connected
<1>6. CASE Becomes(i, [closed EXCEPT !.my_socket = None]) /\ ~ up
  <2> DEFINE s == [closed EXCEPT !.my_socket = None]
  <2>1. s \in Nets /\ s.openBy = closed.openBy /\ s.stolen = closed.stolen /\ s.my_socket = None
    BY <1>3 DEF Nets
  <2> HIDE DEF s
  <2>2. Keeps(Net(i), s, i) /\ Held(s, i, {Free})
    BY <1>3, <2>1 DEF Keeps, Held, TcpHeld
  <2>3. Becomes(i, s)
    BY <1>6 DEF s
  <2> QED
    BY <1>6, <2>1, <2>2, <2>3 DEF Connected
<1>7. ASSUME NEW d \in Descriptors, Lowest(closed, d),
             Becomes(i, [Open(closed, i, d) EXCEPT !.my_socket = d])
      PROVE  \E s : Becomes(i, s) /\ Connected(s, i, up)
  <2> DEFINE s == [Open(closed, i, d) EXCEPT !.my_socket = d]
  <2>1. /\ s \in Nets /\ s.my_socket = d
        /\ s.stolen = closed.stolen
        /\ \A e \in Descriptors : s.openBy[e] = IF e = d THEN i ELSE closed.openBy[e]
    BY <1>3, OpenFacts DEF Nets
  <2>2. closed.openBy[d] = Free
    BY <1>7 DEF Lowest
  <2> HIDE DEF s
  <2>3. Keeps(closed, s, i)
    BY <2>1, <2>2 DEF Keeps
  <2>4. Keeps(Net(i), s, i)
    BY <1>3, <2>3, KeepsTransitive
  <2>5. Held(s, i, IF up THEN {} ELSE {Free})
    BY <2>1 DEF Held, TcpHeld
  <2>6. d # None
    BY MaxDescriptorAssumption DEF None, Descriptors
  <2>7. Becomes(i, s)
    BY <1>7 DEF s
  <2> QED
    BY <2>1, <2>4, <2>5, <2>6, <2>7 DEF Connected
<1> QED
  BY <1>4, <1>5, <1>6, <1>7

LEMMA TlsConnectFacts ==
    ASSUME IInv, NEW i \in TlsInstances, NEW up \in BOOLEAN, TlsConnect(i, up)
    PROVE  \E s : Becomes(i, s) /\ Connected(s, i, up)
<1> i \in Instances
  BY InstancesAssumption
<1> DEFINE deleted == linux_disconnect(Net(i), i)
           With(s, fd) == [s EXCEPT !.tls = [fd |-> fd, is_connected |-> FALSE]]
<1>1. Net(i) \in Nets /\ Held(Net(i), i, {Free})
  BY NetType DEF IInv, Owned, Held
<1>2. deleted \in Nets /\ Keeps(Net(i), deleted, i)
  BY <1>1, DisconnectFacts
<1>3. \/ /\ \E fd \in {None} \cup {d \in Descriptors : Lowest(deleted, d)} :
              Becomes(i, tlsSocket_free(With(deleted, fd), i))
         /\ ~ up
      \/ \E d \in Descriptors :
           /\ Lowest(deleted, d)
           /\ IF up THEN Becomes(i, [With(Open(deleted, i, d), d) EXCEPT !.tls.is_connected = TRUE])
                    ELSE Becomes(i, tlsSocket_free(With(Open(deleted, i, d), d), i))
  BY DEF TlsConnect
<1> HIDE DEF deleted
<1>4. ASSUME NEW r \in Nets, Keeps(Net(i), r, i), NEW fd \in Descriptors \cup {None},
             fd # None => r.openBy[fd] \in {i, Free},
             Becomes(i, tlsSocket_free(With(r, fd), i)), ~ up
      PROVE  \E s : Becomes(i, s) /\ Connected(s, i, up)
  <2> DEFINE w == With(r, fd)
             f == tlsSocket_free(w, i)
  <2>1. /\ w \in Nets /\ w.tls # NULL /\ w.tls.fd = fd /\ w.tls.is_connected = FALSE
        /\ w.openBy = r.openBy /\ w.stolen = r.stolen
    <3> DEFINE new == [fd |-> fd, is_connected |-> FALSE]
    <3>1. new \in TlsSocket /\ new # NULL /\ new.fd = fd /\ new.is_connected = FALSE
      <4>1. new \in TlsSocket
        BY <1>4 DEF TlsSocket
      <4> QED
        BY <4>1, NullAssumption
    <3>2. w = [r EXCEPT !.tls = new]
      OBVIOUS
    <3> HIDE DEF new, w
    <3>3. w \in Nets /\ w.tls = new /\ w.openBy = r.openBy /\ w.stolen = r.stolen
      BY <3>1, <3>2 DEF Nets
    <3> QED
      BY <3>1, <3>3
  <2> HIDE DEF w
  <2>2. /\ f \in Nets /\ f.tls = [fd |-> 0, is_connected |-> FALSE]
        /\ f.openBy = Close(w, i, fd).openBy /\ f.stolen = Close(w, i, fd).stolen
    BY <2>1, FreeFacts
  <2>3. Keeps(w, Close(w, i, fd), i)
    BY <1>4, <2>1, CloseKeeps
  <2> HIDE DEF f
  <2>4. Keeps(r, f, i)
    BY <2>1, <2>2, <2>3 DEF Keeps
  <2>5. Keeps(Net(i), f, i)
    BY <1>4, <2>4, KeepsTransitive
  <2>6. Held(f, i, {Free})
    BY <2>2 DEF Held, TlsHeld
  <2>7. Becomes(i, f)
    BY <1>4 DEF f, w
  <2> QED
    BY <1>4, <2>2, <2>5, <2>6, <2>7 DEF Connected
<1>5. ASSUME NEW fd \in {None} \cup {d \in Descriptors : Lowest(deleted, d)},
             Becomes(i, tlsSocket_free(With(deleted, fd), i)), ~ up
      PROVE  \E s : Becomes(i, s) /\ Connected(s, i, up)
  <2>1. fd \in Descriptors \cup {None} /\ (fd # None => deleted.openBy[fd] = Free)
    BY <1>5 DEF Lowest
  <2> QED
    BY <1>2, <1>4, <1>5, <2>1
<1>6. ASSUME NEW d \in Descriptors, Lowest(deleted, d)
      PROVE  /\ Open(deleted, i, d) \in Nets
             /\ Open(deleted, i, d).openBy[d] = i
             /\ Keeps(Net(i), Open(deleted, i, d), i)
  <2>1. deleted.openBy[d] = Free
    BY <1>6 DEF Lowest
  <2>2. Keeps(deleted, Open(deleted, i, d), i)
    BY <1>2, <2>1, OpenFacts DEF Keeps
  <2> QED
    BY <1>2, <2>2, OpenFacts, KeepsTransitive
<1>7. ASSUME NEW d \in Descriptors, Lowest(deleted, d),
             Becomes(i, tlsSocket_free(With(Open(deleted, i, d), d), i)), ~ up
      PROVE  \E s : Becomes(i, s) /\ Connected(s, i, up)
  BY <1>4, <1>6, <1>7
<1>8. ASSUME NEW d \in Descriptors, Lowest(deleted, d), up,
             Becomes(i, [With(Open(deleted, i, d), d) EXCEPT !.tls.is_connected = TRUE])
      PROVE  \E s : Becomes(i, s) /\ Connected(s, i, up)
  <2> DEFINE o == Open(deleted, i, d)
             s == [With(o, d) EXCEPT !.tls.is_connected = TRUE]
  <2>1. o \in Nets /\ o.openBy[d] = i /\ Keeps(Net(i), o, i)
    BY <1>6, <1>8
  <2> HIDE DEF o
  <2>2. /\ s \in Nets /\ s.tls = [fd |-> d, is_connected |-> TRUE] /\ s.tls # NULL
        /\ s.openBy = o.openBy /\ s.stolen = o.stolen
    BY <2>1, NullAssumption DEF Nets, TlsSocket
  <2>3. Becomes(i, s)
    BY <1>8 DEF o
  <2> HIDE DEF s
  <2>4. Keeps(Net(i), s, i)
    BY <2>1, <2>2 DEF Keeps
  <2>5. d # None
    BY MaxDescriptorAssumption DEF None, Descriptors
  <2>6. Held(s, i, {})
    BY <2>1, <2>2, <2>5 DEF Held, TlsHeld
  <2> QED
    BY <1>8, <2>2, <2>3, <2>4, <2>6 DEF Connected
<1> QED
  BY <1>3, <1>5, <1>7, <1>8

LEMMA ConnectStep == IInv /\ Connect => IInv'
<1> SUFFICES ASSUME IInv, Connect PROVE IInv'
  OBVIOUS
<1>1. call.at = "connect" /\ call.instance \in Instances /\ call.nRetry \in 0 .. nMaxRetry - 1
  BY DEF Connect, IInv, TypeOK, Calls, Idle, Crashed
<1> PICK i \in Instances : i = call.instance
  BY <1>1
<1>2. PICK up \in BOOLEAN :
         /\ IF i \in TlsInstances THEN TlsConnect(i, up) ELSE TcpConnect(i, up)
         /\ call' = [at |-> "mqttConnect", instance |-> i, nRetry |-> call.nRetry, up |-> up]
  BY DEF Connect
<1>3. /\ ipstack' = [ipstack EXCEPT ![i] = TRUE]
      /\ isconnected' = [isconnected EXCEPT ![i] = FALSE]
      /\ created' = created
  BY DEF Connect, MQTTClient
<1>4. PICK s : Becomes(i, s) /\ Connected(s, i, up)
  BY <1>1, <1>2, TcpConnectFacts, TlsConnectFacts
<1>5. /\ s \in Nets /\ Keeps(Net(i), s, i) /\ Held(s, i, IF up THEN {} ELSE {Free})
      /\ up => IF i \in TlsInstances THEN s.tls # NULL ELSE s.my_socket # None
  BY <1>4 DEF Connected
<1>6. /\ call'.at = "mqttConnect" /\ call'.instance = i /\ call'.up = up
      /\ call' \in Calls
  BY <1>1, <1>2 DEF Calls
<1>7. \A j \in Instances : Failing(j)' <=> j = i /\ ~ up
  BY <1>6 DEF Failing
<1>8. \A j \in Instances : ~ Failing(j)
  BY <1>1 DEF Failing
<1>9. Held(s, i, IF Failing(i)' THEN {Free} ELSE {})
  BY <1>1, <1>5, <1>7, Zenon
<1>10. /\ Owned' /\ OnlyZeroIsStolen' /\ Net(i)' = s
       /\ \A j \in Instances \ {i} : Descriptor(j)' = Descriptor(j)
       /\ openBy' \in Table /\ stolen' \in SUBSET Descriptors
       /\ my_socket' \in [Instances -> Descriptors \cup {None}]
       /\ tlsSocketObject' \in [Instances -> TlsSocket \cup {NULL}]
  <2>1. \A j \in Instances \ {i} : ~ Failing(j)
    BY <1>8
  <2> QED
    BY <1>1, <1>4, <1>5, <1>9, <2>1, BecomesOwned, Zenon
<1>11. /\ isconnected' \in [Instances -> BOOLEAN] /\ ~ isconnected'[i]
       /\ ipstack' \in [Instances -> BOOLEAN]
       /\ \A j \in Instances \ {i} : isconnected'[j] = isconnected[j]
  BY <1>1, <1>3 DEF IInv, TypeOK
<1>12. TypeOK'
  BY <1>3, <1>6, <1>10, <1>11 DEF IInv, TypeOK, Table
<1>13. up => Descriptor(i)' # None
  <2> SUFFICES ASSUME up PROVE Descriptor(i)' # None
    BY Zenon
  <2>1. my_socket'[i] = s.my_socket /\ tlsSocketObject'[i] = s.tls
    BY <1>10 DEF Net
  <2>2. CASE i \notin TlsInstances
    <3>1. s.my_socket # None
      BY <1>5, <2>2, Zenon
    <3> QED
      BY <2>1, <2>2, <3>1, Zenon DEF Descriptor
  <2>3. CASE i \in TlsInstances
    <3>1. s.tls # NULL /\ TlsHeld(s, i)
      BY <1>5, <2>3, Zenon DEF Held
    <3>2. s.tls.fd # None
      BY <3>1 DEF TlsHeld, None
    <3> QED
      BY <2>1, <2>3, <3>1, <3>2, Zenon DEF Descriptor
  <2> QED
    BY <2>2, <2>3, Zenon
<1>14. Ready'
  BY <1>1, <1>6, <1>7, <1>8, <1>10, <1>11, <1>13 DEF IInv, Ready
<1> QED
  BY <1>10, <1>12, <1>14 DEF IInv

LEMMA ConnectAcceptedStep == IInv /\ ConnectAccepted => IInv'
<1> SUFFICES ASSUME IInv, ConnectAccepted PROVE IInv'
  OBVIOUS
<1>1. call.at = "mqttConnect" /\ call.up /\ call.instance \in Instances
  BY DEF ConnectAccepted, IInv, TypeOK, Calls, Idle, Crashed
<1> PICK i \in Instances : i = call.instance
  BY <1>1
<1>2. /\ call' = Idle /\ isconnected' = [isconnected EXCEPT ![i] = TRUE]
      /\ UNCHANGED <<openBy, created, my_socket, tlsSocketObject, ipstack, stolen>>
  BY DEF ConnectAccepted
<1>3. \A j \in Instances : ~ Failing(j) /\ ~ Failing(j)'
  BY <1>1, <1>2 DEF Failing, Idle
<1>4. /\ Owned' /\ OnlyZeroIsStolen'
      /\ \A j \in Instances : Descriptor(j)' = Descriptor(j)
  BY <1>2, <1>3, SameSockets
<1>5. TypeOK'
  BY <1>1, <1>2 DEF IInv, TypeOK, Calls
<1>6. Descriptor(i) # None
  BY <1>1 DEF IInv, Ready
<1>7. \A j \in Instances : isconnected'[j] => j = i \/ isconnected[j]
  BY <1>1, <1>2 DEF IInv, TypeOK
<1>8. Ready'
  BY <1>2, <1>3, <1>4, <1>6, <1>7 DEF IInv, Ready, Idle
<1> QED
  BY <1>4, <1>5, <1>8 DEF IInv

LEMMA ConnectFailsStep == IInv /\ ConnectFails => IInv'
<1> SUFFICES ASSUME IInv, ConnectFails PROVE IInv'
  OBVIOUS
<1>1. /\ call.at = "mqttConnect" /\ call.instance \in Instances
      /\ call.nRetry \in 0 .. nMaxRetry - 1
  BY DEF ConnectFails, IInv, TypeOK, Calls, Idle, Crashed
<1> PICK i \in Instances : i = call.instance
  BY <1>1
<1>2. /\ isconnected' = [isconnected EXCEPT ![i] = FALSE]
      /\ Becomes(i, linux_disconnect(Net(i), i))
      /\ call' = IF TriesAgain(call.nRetry)
                 THEN [at |-> "connect", instance |-> i, nRetry |-> call.nRetry + 1]
                 ELSE Idle
      /\ created' = created /\ ipstack' = ipstack
  BY DEF ConnectFails
<1>3. \A j \in Instances \ {i} : ~ Failing(j)
  BY DEF Failing
<1>4. call' \in Calls /\ ~ (call'.at = "mqttConnect")
  <2>1. CASE TriesAgain(call.nRetry)
    BY <1>1, <1>2, <2>1 DEF TriesAgain, Calls, nMaxRetry
  <2>2. CASE ~ TriesAgain(call.nRetry)
    BY <1>2, <2>2 DEF Calls, Idle
  <2> QED
    BY <2>1, <2>2
<1>5. created' \in SUBSET Instances
  BY <1>2 DEF IInv, TypeOK
<1> QED
  BY <1>1, <1>2, <1>3, <1>4, <1>5, DisconnectStep, Zenon

LEMMA ReadStep ==
    ASSUME IInv, NEW i \in Instances, ReadEof(i) \/ ReadCrashes(i)
    PROVE  IInv'
<1>1. /\ UNCHANGED <<openBy, created, my_socket, tlsSocketObject, ipstack, stolen>>
      /\ isconnected' \in [Instances -> BOOLEAN]
      /\ \A j \in Instances : isconnected'[j] => isconnected[j]
      /\ call = Idle /\ call' \in {Idle, Crashed}
  BY DEF ReadEof, ReadCrashes, IInv, TypeOK
<1>2. ~ (call.at = "mqttConnect") /\ ~ (call'.at = "mqttConnect")
  BY <1>1 DEF Idle, Crashed
<1>3. \A j \in Instances : ~ Failing(j) /\ ~ Failing(j)'
  BY <1>2 DEF Failing
<1>4. TypeOK'
  BY <1>1 DEF IInv, TypeOK, Calls
<1>5. /\ Owned' /\ OnlyZeroIsStolen'
      /\ \A j \in Instances : Descriptor(j)' = Descriptor(j)
  BY <1>1, <1>3, SameSockets
<1> QED
  BY <1>1, <1>2, <1>3, <1>4, <1>5 DEF IInv, Ready

\* The invariant holds in every reachable state.
LEMMA Invariance == Spec => []IInv
<1>1. IInv /\ UNCHANGED vars => IInv'
  <2> SUFFICES ASSUME IInv, UNCHANGED vars PROVE IInv'
    OBVIOUS
  <2>1. TypeOK'
    BY DEF vars, IInv, TypeOK
  <2>2. \A i \in Instances : Failing(i)' <=> Failing(i)
    BY DEF vars, Failing
  <2>3. /\ Owned' /\ OnlyZeroIsStolen'
        /\ \A i \in Instances : Descriptor(i)' = Descriptor(i)
    BY <2>2, SameSockets DEF vars
  <2>4. isconnected' = isconnected /\ call' = call
    BY DEF vars
  <2>5. call.at = "mqttConnect" => call.instance \in Instances
    BY DEF IInv, TypeOK, Calls, Idle, Crashed
  <2> QED
    BY <2>1, <2>2, <2>3, <2>4, <2>5 DEF IInv, Ready
<1>2. ASSUME IInv, NEW i \in Instances,
             \/ Create(i) \/ Delete(i) \/ StartSession(i) \/ StopSession(i)
             \/ ReadEof(i) \/ ReadCrashes(i)
      PROVE  IInv'
  BY <1>2, CreateStep, DeleteStep, StartSessionStep, StopSessionStep, ReadStep, Zenon
<1>3. IInv /\ [Next]_vars => IInv'
  BY <1>1, <1>2, ConnectStep, ConnectAcceptedStep, ConnectFailsStep, Zenon DEF Next
<1> QED
  BY <1>3, InitInv, PTL DEF Spec

-----------------------------------------------------------------------------

\* Every variable has its type, and mqtt_StartSession makes three attempts at most.
THEOREM TypeCorrect == Spec => []TypeOK
<1>1. IInv => TypeOK
  BY DEF IInv
<1> QED
  BY <1>1, Invariance, PTL

\* No sequence of sessions, failures and retries makes an instance close what another
\* has open, at any descriptor but 0.
THEOREM StealsOnlyZero == Spec => []OnlyZeroIsStolen
<1>1. IInv => OnlyZeroIsStolen
  BY DEF IInv
<1> QED
  BY <1>1, Invariance, PTL

\* A connected instance talks over a connection of its own.
THEOREM ConnectedOwnsDescriptor == Spec => []OwnConnection
<1>1. IInv => OwnConnection
  <2> SUFFICES ASSUME IInv, NEW i \in created, isconnected[i]
               PROVE  /\ Descriptor(i) # None
                      /\ Descriptor(i) # 0 => openBy[Descriptor(i)] = i
    BY DEF OwnConnection
  <2>1. i \in Instances
    BY DEF IInv, TypeOK
  <2>2. Descriptor(i) # None /\ Held(Net(i), i, {})
    BY <2>1 DEF IInv, Ready, Owned
  <2>3. CASE i \notin TlsInstances
    BY <2>2, <2>3 DEF Held, TcpHeld, Descriptor, Net
  <2>4. CASE i \in TlsInstances
    BY <2>2, <2>4 DEF Held, TlsHeld, Descriptor, Net
  <2> QED
    BY <2>2, <2>3, <2>4
<1> QED
  BY <1>1, Invariance, PTL

-----------------------------------------------------------------------------
(* Which connections are lost                                                *)

\* The descriptor instance i holds in s.
Handle(s, i) ==
    IF i \notin TlsInstances THEN s.my_socket ELSE IF s.tls = NULL THEN None ELSE s.tls.fd

ConnectedTls(s, i, d) == i \in TlsInstances /\ s.tls = [fd |-> d, is_connected |-> TRUE]

\* A call of i closes descriptors, or opens the one it holds in the end; it lets go of
\* an open one only when that is a connected TLS socket.
Tidy(s, t, i) ==
    \A d \in Descriptors :
        /\ t.openBy[d] \in {s.openBy[d], Free} \/ (t.openBy[d] = i /\ Handle(t, i) = d)
        /\ Handle(s, i) = d /\ t.openBy[d] = i /\ Handle(t, i) # d => ConnectedTls(s, i, d)

\* An instance that does not exist holds nothing; mqtt_StartSession has one that does.
Clean ==
    /\ call.at \in {"connect", "mqttConnect"} => call.instance \in created
    /\ \A i \in Instances \ created : Descriptor(i) = None

\* linux_disconnect closes what i holds, unless it is a connected TLS socket.
LEMMA DisconnectTidy ==
    ASSUME NEW s \in Nets, NEW i \in Instances
    PROVE  LET t == linux_disconnect(s, i) IN
           /\ t \in Nets
           /\ Handle(t, i) = None
           /\ \A d \in Descriptors :
                /\ t.openBy[d] \in {s.openBy[d], Free}
                /\ Handle(s, i) = d /\ t.openBy[d] # Free => ConnectedTls(s, i, d)
<1>1. CASE i \notin TlsInstances
  <2> DEFINE c == Close(s, i, s.my_socket)
  <2>1. /\ c \in Nets
        /\ \A e \in Descriptors : c.openBy[e] = IF e = s.my_socket THEN Free ELSE s.openBy[e]
    BY CloseFacts DEF Nets
  <2>2. linux_disconnect(s, i) = [c EXCEPT !.my_socket = None]
    BY <1>1 DEF linux_disconnect, TcpClose
  <2> HIDE DEF c
  <2> QED
    BY <1>1, <2>1, <2>2 DEF Nets, Handle
<1>2. CASE i \in TlsInstances /\ s.tls = NULL
  <2>1. None \notin Descriptors
    BY MaxDescriptorAssumption DEF None, Descriptors
  <2> QED
    BY <1>2, <2>1 DEF linux_disconnect, Handle
<1>3. CASE i \in TlsInstances /\ s.tls # NULL
  <2> DEFINE f == tlsSocket_free(s, i)
  <2>1. linux_disconnect(s, i) = [f EXCEPT !.tls = NULL]
    BY <1>3 DEF linux_disconnect, tlsSocket_delete, tlsSocket_close, tlsSocket_free
  <2>2. s.tls \in TlsSocket /\ s.tls.fd \in Descriptors \cup {None} /\ s.tls.is_connected \in BOOLEAN
        /\ s.tls = [fd |-> s.tls.fd, is_connected |-> s.tls.is_connected]
    BY <1>3 DEF Nets, TlsSocket
  <2>3. /\ f \in Nets /\ (s.tls.is_connected => f = s)
        /\ ~ s.tls.is_connected =>
             \A e \in Descriptors : f.openBy[e] = IF e = s.tls.fd THEN Free ELSE s.openBy[e]
    BY <1>3, <2>2, FreeFacts, CloseFacts
  <2> HIDE DEF f
  <2>4. \A d \in Descriptors :
          /\ f.openBy[d] \in {s.openBy[d], Free}
          /\ s.tls.fd = d /\ f.openBy[d] # Free => s.tls.is_connected
    BY <2>2, <2>3
  <2>5. [f EXCEPT !.tls = NULL] \in Nets /\ [f EXCEPT !.tls = NULL].openBy = f.openBy
        /\ [f EXCEPT !.tls = NULL].tls = NULL
    BY <2>3 DEF Nets
  <2> QED
    BY <1>3, <2>1, <2>2, <2>4, <2>5 DEF Handle, ConnectedTls
<1> QED
  BY <1>1, <1>2, <1>3

LEMMA TcpConnectTidy ==
    ASSUME TypeOK, NEW i \in Instances, i \notin TlsInstances, NEW up \in BOOLEAN,
           TcpConnect(i, up)
    PROVE  \E s \in Nets : Becomes(i, s) /\ Tidy(Net(i), s, i)
<1> DEFINE closed == Close(Net(i), i, my_socket[i])
<1>1. Net(i) \in Nets /\ my_socket[i] \in Descriptors \cup {None} /\ Net(i).my_socket = my_socket[i]
  BY NetType DEF TypeOK, Net
<1>2. /\ closed \in Nets /\ closed.my_socket = my_socket[i]
      /\ \A e \in Descriptors :
           closed.openBy[e] = IF e = my_socket[i] THEN Free ELSE Net(i).openBy[e]
  BY <1>1, CloseFacts
<1>3. \/ Becomes(i, closed)
      \/ Becomes(i, [closed EXCEPT !.my_socket = None])
      \/ \E d \in Descriptors : Becomes(i, [Open(closed, i, d) EXCEPT !.my_socket = d])
  BY DEF TcpConnect, Lowest
<1>4. Free # i
  BY InstancesAssumption
<1> HIDE DEF closed
<1>5. CASE Becomes(i, closed)
  <2>1. Tidy(Net(i), closed, i)
    BY <1>1, <1>2, <1>4 DEF Tidy, Handle
  <2> QED
    BY <1>2, <1>5, <2>1
<1>6. CASE Becomes(i, [closed EXCEPT !.my_socket = None])
  <2> DEFINE s == [closed EXCEPT !.my_socket = None]
  <2>1. s \in Nets /\ s.openBy = closed.openBy
    BY <1>2 DEF Nets
  <2> HIDE DEF s
  <2>2. Tidy(Net(i), s, i)
    BY <1>1, <1>2, <1>4, <2>1 DEF Tidy, Handle
  <2>3. Becomes(i, s)
    BY <1>6 DEF s
  <2> QED
    BY <2>1, <2>2, <2>3
<1>7. ASSUME NEW d \in Descriptors, Becomes(i, [Open(closed, i, d) EXCEPT !.my_socket = d])
      PROVE  \E s \in Nets : Becomes(i, s) /\ Tidy(Net(i), s, i)
  <2> DEFINE s == [Open(closed, i, d) EXCEPT !.my_socket = d]
  <2>1. /\ s \in Nets /\ s.my_socket = d
        /\ \A e \in Descriptors : s.openBy[e] = IF e = d THEN i ELSE closed.openBy[e]
    BY <1>2, OpenFacts DEF Nets
  <2> HIDE DEF s
  <2>2. Tidy(Net(i), s, i)
    BY <1>1, <1>2, <1>4, <2>1 DEF Tidy, Handle
  <2>3. Becomes(i, s)
    BY <1>7 DEF s
  <2> QED
    BY <2>1, <2>2, <2>3
<1> QED
  BY <1>3, <1>5, <1>6, <1>7

LEMMA TlsConnectTidy ==
    ASSUME TypeOK, NEW i \in TlsInstances, NEW up \in BOOLEAN, TlsConnect(i, up)
    PROVE  \E s \in Nets : Becomes(i, s) /\ Tidy(Net(i), s, i)
<1> i \in Instances /\ i # Free
  BY InstancesAssumption
<1> DEFINE deleted == linux_disconnect(Net(i), i)
           With(s, fd) == [s EXCEPT !.tls = [fd |-> fd, is_connected |-> FALSE]]
<1>1. Net(i) \in Nets
  BY NetType
<1>2. /\ deleted \in Nets
      /\ \A d \in Descriptors :
           /\ deleted.openBy[d] \in {Net(i).openBy[d], Free}
           /\ Handle(Net(i), i) = d /\ deleted.openBy[d] # Free => ConnectedTls(Net(i), i, d)
  BY <1>1, DisconnectTidy
<1>3. \/ \E fd \in {None} \cup Descriptors : Becomes(i, tlsSocket_free(With(deleted, fd), i))
      \/ \E d \in Descriptors :
           \/ Becomes(i, [With(Open(deleted, i, d), d) EXCEPT !.tls.is_connected = TRUE])
           \/ Becomes(i, tlsSocket_free(With(Open(deleted, i, d), d), i))
  BY DEF TlsConnect, Lowest
<1> HIDE DEF deleted
<1>4. ASSUME NEW r \in Nets, NEW fd \in Descriptors \cup {None},
             \A e \in Descriptors : e # fd => r.openBy[e] = deleted.openBy[e],
             Becomes(i, tlsSocket_free(With(r, fd), i))
      PROVE  \E s \in Nets : Becomes(i, s) /\ Tidy(Net(i), s, i)
  <2> DEFINE w == With(r, fd)
             f == tlsSocket_free(w, i)
  <2>1. /\ w \in Nets /\ w.tls # NULL /\ w.tls.fd = fd /\ w.tls.is_connected = FALSE
        /\ w.openBy = r.openBy
    <3> DEFINE new == [fd |-> fd, is_connected |-> FALSE]
    <3>1. new \in TlsSocket /\ new # NULL /\ new.fd = fd /\ new.is_connected = FALSE
      <4>1. new \in TlsSocket
        BY <1>4 DEF TlsSocket
      <4> QED
        BY <4>1, NullAssumption
    <3>2. w = [r EXCEPT !.tls = new]
      OBVIOUS
    <3> HIDE DEF new, w
    <3>3. w \in Nets /\ w.tls = new /\ w.openBy = r.openBy
      BY <3>1, <3>2 DEF Nets
    <3> QED
      BY <3>1, <3>3
  <2> HIDE DEF w
  <2>2. f \in Nets /\ f.openBy = Close(w, i, fd).openBy
    BY <2>1, FreeFacts
  <2>3. \A e \in Descriptors : Close(w, i, fd).openBy[e] = IF e = fd THEN Free ELSE w.openBy[e]
    BY <2>1, CloseFacts
  <2> HIDE DEF f
  <2>4. \A e \in Descriptors : f.openBy[e] \in {deleted.openBy[e], Free}
    BY <1>4, <2>1, <2>2, <2>3
  <2>5. Tidy(Net(i), f, i)
    BY <1>2, <2>4 DEF Tidy
  <2>6. Becomes(i, f)
    BY <1>4 DEF f, w
  <2> QED
    BY <2>2, <2>5, <2>6
<1>5. ASSUME NEW d \in Descriptors
      PROVE  /\ Open(deleted, i, d) \in Nets
             /\ \A e \in Descriptors :
                  Open(deleted, i, d).openBy[e] = IF e = d THEN i ELSE deleted.openBy[e]
  BY <1>2, OpenFacts
<1>6. ASSUME NEW d \in Descriptors,
             Becomes(i, [With(Open(deleted, i, d), d) EXCEPT !.tls.is_connected = TRUE])
      PROVE  \E s \in Nets : Becomes(i, s) /\ Tidy(Net(i), s, i)
  <2> DEFINE o == Open(deleted, i, d)
             s == [With(o, d) EXCEPT !.tls.is_connected = TRUE]
  <2>1. o \in Nets
    BY <1>5
  <2>2. \A e \in Descriptors : o.openBy[e] = IF e = d THEN i ELSE deleted.openBy[e]
    BY <1>5
  <2> HIDE DEF o
  <2>3. s \in Nets /\ s.tls = [fd |-> d, is_connected |-> TRUE] /\ s.tls # NULL /\ s.openBy = o.openBy
    BY <2>1, NullAssumption DEF Nets, TlsSocket
  <2>4. Becomes(i, s)
    BY <1>6 DEF o
  <2> HIDE DEF s
  <2>5. Handle(s, i) = d
    BY <2>3 DEF Handle
  <2>6. Tidy(Net(i), s, i)
    BY <1>2, <2>2, <2>3, <2>5 DEF Tidy
  <2> QED
    BY <2>3, <2>4, <2>6
<1>7. ASSUME NEW fd \in {None} \cup Descriptors, Becomes(i, tlsSocket_free(With(deleted, fd), i))
      PROVE  \E s \in Nets : Becomes(i, s) /\ Tidy(Net(i), s, i)
  BY <1>2, <1>4, <1>7
<1>8. ASSUME NEW d \in Descriptors, Becomes(i, tlsSocket_free(With(Open(deleted, i, d), d), i))
      PROVE  \E s \in Nets : Becomes(i, s) /\ Tidy(Net(i), s, i)
  BY <1>4, <1>5, <1>8
<1> QED
  BY <1>3, <1>6, <1>7, <1>8

\* A connection that the step makes an orphan, and the only way it may.
Loses(d) == Orphan(d)' /\ ~ Orphan(d)
LostTls(d) == \E i \in TlsInstances :
                 /\ tlsSocketObject[i] = [fd |-> d, is_connected |-> TRUE]
                 /\ tlsSocketObject'[i] # tlsSocketObject[i]

LEMMA TidyStep ==
    ASSUME TypeOK, NEW i \in Instances, NEW s \in Nets, Becomes(i, s), Tidy(Net(i), s, i),
           NEW d \in Descriptors, Loses(d)
    PROVE  LostTls(d)
<1>1. /\ openBy' = s.openBy /\ my_socket'[i] = s.my_socket /\ tlsSocketObject'[i] = s.tls
      /\ \A j \in Instances \ {i} : /\ my_socket'[j] = my_socket[j]
                                    /\ tlsSocketObject'[j] = tlsSocketObject[j]
  BY DEF Becomes, TypeOK
<1>2. Descriptor(i)' = Handle(s, i) /\ \A j \in Instances \ {i} : Descriptor(j)' = Descriptor(j)
  BY <1>1 DEF Descriptor, Handle
<1>3. Descriptor(i) = Handle(Net(i), i) /\ Net(i).openBy = openBy /\ Net(i).tls = tlsSocketObject[i]
  BY DEF Descriptor, Handle, Net
<1>4. PICK k \in Instances : openBy'[d] = k /\ Descriptor(k)' # d
  <2>1. /\ openBy'[d] \in Instances
        /\ d # IF openBy'[d] \notin TlsInstances THEN my_socket'[openBy'[d]]
               ELSE IF tlsSocketObject'[openBy'[d]] = NULL THEN None
               ELSE tlsSocketObject'[openBy'[d]].fd
    BY DEF Loses, Orphan, Descriptor
  <2> QED
    BY <2>1 DEF Descriptor
<1>5. ~ (openBy[d] = k /\ Descriptor(k) # d) /\ Free # k
  BY InstancesAssumption DEF Loses, Orphan
<1>6. CASE k # i
  <2>1. openBy[d] = k
    BY <1>1, <1>3, <1>4, <1>5, <1>6 DEF Tidy
  <2>2. Descriptor(k)' = Descriptor(k)
    BY <1>2, <1>6
  <2> QED
    BY <1>4, <1>5, <2>1, <2>2
<1>7. CASE k = i
  <2>1. Handle(s, i) # d
    BY <1>2, <1>4, <1>7
  <2>2. openBy[d] = i
    BY <1>1, <1>3, <1>4, <1>5, <1>7, <2>1 DEF Tidy
  <2>3. Handle(Net(i), i) = d
    BY <1>3, <1>5, <1>7, <2>2
  <2>4. ConnectedTls(Net(i), i, d)
    BY <1>1, <1>4, <1>7, <2>1, <2>3 DEF Tidy
  <2>5. s.tls # Net(i).tls
    BY <2>1, <2>3, <2>4 DEF Handle, ConnectedTls
  <2> QED
    BY <1>1, <1>3, <2>4, <2>5 DEF ConnectedTls, LostTls
<1> QED
  BY <1>6, <1>7

\* Steps that change neither sockets nor descriptors lose nothing.
LEMMA QuietStep ==
    ASSUME NEW d \in Descriptors, UNCHANGED <<openBy, my_socket, tlsSocketObject>>
    PROVE  ~ Loses(d)
  BY DEF Loses, Orphan, Descriptor

\* The step keeps Clean.
LEMMA CleanStep ==
    ASSUME TypeOK, Clean, [Next]_vars
    PROVE  Clean'
<1>1. ASSUME NEW i \in Instances, NEW s \in Nets, Becomes(i, s), i \in created,
             created' = created, call'.at \in {"connect", "mqttConnect"} => call'.instance = i
      PROVE  Clean'
  <2>1. \A j \in Instances \ {i} : Descriptor(j)' = Descriptor(j)
    BY <1>1 DEF Becomes, TypeOK, Descriptor
  <2> QED
    BY <1>1, <2>1 DEF Clean
<1>2. ASSUME NEW i \in Instances, Becomes(i, linux_disconnect(Net(i), i)),
             created \ {i} \subseteq created',
             call'.at \in {"connect", "mqttConnect"} => call'.instance \in created'
      PROVE  Clean'
  <2> DEFINE s == linux_disconnect(Net(i), i)
  <2>1. s \in Nets /\ Handle(s, i) = None
    BY NetType, DisconnectTidy
  <2>2. Becomes(i, s)
    BY <1>2
  <2> HIDE DEF s
  <2>3. \A j \in Instances \ {i} : Descriptor(j)' = Descriptor(j)
    BY <2>2 DEF Becomes, TypeOK, Descriptor
  <2>4. Descriptor(i)' = None
    BY <2>1, <2>2 DEF Becomes, TypeOK, Descriptor, Handle
  <2> QED
    BY <1>2, <2>3, <2>4 DEF Clean
<1>3. ASSUME NEW i \in Instances, Create(i) PROVE Clean'
  <2>1. \A j \in Instances \ {i} : Descriptor(j)' = Descriptor(j)
    BY <1>3 DEF Create, TypeOK, Descriptor
  <2> QED
    BY <1>3, <2>1 DEF Create, Clean, Idle
<1>4. ASSUME NEW i \in Instances, Delete(i) \/ StopSession(i) PROVE Clean'
  BY <1>2, <1>4 DEF Delete, StopSession, Idle
<1>5. ASSUME UNCHANGED <<openBy, my_socket, tlsSocketObject, created>>,
             call'.at \in {"connect", "mqttConnect"} => call'.instance \in created
      PROVE  Clean'
  BY <1>5 DEF Clean, Descriptor
<1>6. ASSUME NEW i \in Instances, StartSession(i) \/ ReadEof(i) \/ ReadCrashes(i) PROVE Clean'
  BY <1>5, <1>6 DEF StartSession, ReadEof, ReadCrashes, Idle, Crashed
<1>7. CASE Connect
  <2>1. /\ call.instance \in created /\ call.instance \in Instances /\ created' = created
        /\ call'.instance = call.instance
    BY <1>7 DEF Connect, Clean, TypeOK
  <2>2. PICK up \in BOOLEAN :
           IF call.instance \in TlsInstances THEN TlsConnect(call.instance, up)
           ELSE TcpConnect(call.instance, up)
    BY <1>7 DEF Connect
  <2>3. \E s \in Nets : Becomes(call.instance, s)
    BY <2>1, <2>2, TcpConnectTidy, TlsConnectTidy
  <2> QED
    BY <1>1, <2>1, <2>3
<1>8. CASE ConnectAccepted
  BY <1>5, <1>8 DEF ConnectAccepted, Idle
<1>9. CASE ConnectFails
  <2>1. call.instance \in created /\ call.instance \in Instances
    BY <1>9 DEF ConnectFails, Clean, TypeOK
  <2>2. /\ Becomes(call.instance, linux_disconnect(Net(call.instance), call.instance))
        /\ created' = created
        /\ call'.at \in {"connect", "mqttConnect"} => call'.instance = call.instance
    BY <1>9 DEF ConnectFails, Idle
  <2> QED
    BY <1>2, <2>1, <2>2
<1>10. CASE UNCHANGED vars
  BY <1>5, <1>10 DEF vars, Clean
<1> QED
  BY <1>3, <1>4, <1>6, <1>7, <1>8, <1>9, <1>10 DEF Next

\* The step loses a connection only with the TLS socket that holds it.
LEMMA LosesStep ==
    ASSUME TypeOK, Clean, Next, NEW d \in Descriptors, Loses(d)
    PROVE  LostTls(d)
<1>1. ASSUME NEW i \in Instances, Becomes(i, linux_disconnect(Net(i), i))
      PROVE  LostTls(d)
  <2> DEFINE s == linux_disconnect(Net(i), i)
  <2>1. Net(i) \in Nets /\ Free # i
    BY NetType, InstancesAssumption
  <2>2. s \in Nets /\ Tidy(Net(i), s, i)
    BY <2>1, DisconnectTidy DEF Tidy
  <2>3. Becomes(i, s)
    BY <1>1
  <2> HIDE DEF s
  <2> QED
    BY <2>2, <2>3, TidyStep
<1>2. ASSUME NEW i \in Instances, Create(i) PROVE FALSE
  <2>1. \A j \in Instances \ {i} : Descriptor(j)' = Descriptor(j)
    BY <1>2 DEF Create, TypeOK, Descriptor
  <2>2. Descriptor(i) = None /\ None # d /\ openBy' = openBy
    BY <1>2, MaxDescriptorAssumption DEF Create, Clean, None, Descriptors
  <2>3. PICK k \in Instances : openBy[d] = k
    BY <2>2 DEF Loses, Orphan
  <2>4. Descriptor(k) = d
    BY <2>3 DEF Loses, Orphan
  <2>5. k # i
    BY <2>2, <2>4
  <2>6. Descriptor(k)' = d
    BY <2>1, <2>4, <2>5
  <2>7. ~ Orphan(d)'
    BY <2>2, <2>3, <2>6 DEF Orphan, Descriptor
  <2> QED
    BY <2>7 DEF Loses
<1>3. ASSUME NEW i \in Instances, Delete(i) \/ StopSession(i) PROVE LostTls(d)
  BY <1>1, <1>3 DEF Delete, StopSession
<1>4. ASSUME NEW i \in Instances, StartSession(i) \/ ReadEof(i) \/ ReadCrashes(i) PROVE FALSE
  BY <1>4, QuietStep DEF StartSession, ReadEof, ReadCrashes
<1>5. CASE Connect
  <2>1. call.instance \in Instances
    BY <1>5 DEF Connect, Clean, TypeOK
  <2>2. PICK up \in BOOLEAN :
           IF call.instance \in TlsInstances THEN TlsConnect(call.instance, up)
           ELSE TcpConnect(call.instance, up)
    BY <1>5 DEF Connect
  <2>3. \E s \in Nets : Becomes(call.instance, s) /\ Tidy(Net(call.instance), s, call.instance)
    BY <2>1, <2>2, TcpConnectTidy, TlsConnectTidy
  <2> QED
    BY <2>1, <2>3, TidyStep
<1>6. CASE ConnectAccepted
  BY <1>6, QuietStep DEF ConnectAccepted
<1>7. CASE ConnectFails
  <2>1. call.instance \in Instances
    BY <1>7 DEF ConnectFails, Clean, TypeOK
  <2>2. Becomes(call.instance, linux_disconnect(Net(call.instance), call.instance))
    BY <1>7 DEF ConnectFails
  <2> QED
    BY <1>1, <2>1, <2>2
<1> QED
  BY <1>2, <1>3, <1>4, <1>5, <1>6, <1>7 DEF Next

\* No failure of a connect, at any attempt of any instance, loses a connection: one is
\* lost only when a TLS socket whose handshake succeeded is closed.
THEOREM LossIsAClosedTls == Spec => OrphansWereConnected
<1>1. Init => Clean
  BY DEF Init, Clean, Idle, Descriptor
<1>2. TypeOK /\ Clean /\ [Next]_vars => Clean'
  BY CleanStep
<1>3. TypeOK /\ Clean /\ [Next]_vars =>
        [\A d \in Descriptors : Loses(d) => LostTls(d)]_vars
  BY LosesStep
<1>4. Spec => [][\A d \in Descriptors : Loses(d) => LostTls(d)]_vars
  BY <1>1, <1>2, <1>3, TypeCorrect, PTL DEF Spec
<1> QED
  BY <1>4 DEF OrphansWereConnected, Loses, LostTls
=============================================================================
