---------------------------- MODULE CliServer_proofs ----------------------------
(* The command line server, for every value of the constants: its session  *)
(* (CliSession), then the list of messages it keeps (InMessageQueue).      *)
EXTENDS CliSession, InMessageQueue, SequenceTheorems, TLAPS

-------------------------------------------------------------------------------
(* The session.                                                            *)

\* Reports wait only while a handler is registered: Disconnect, which removes the
\* handler, drops them, so DcsStateHandler never runs without an instance.
ReportsHaveHandler == events # <<>> => hDataConnectionState

\* The inductive invariant.
Inv == /\ TypeOK /\ NoInstanceLeaks /\ HandlesFollowUser /\ ConnectedIsServiced
       /\ ReportsHaveHandler

\* What Connect and Disconnect are given and give back.
HandlesType(h) ==
    /\ h.ref \in Refs \cup {NoRef} /\ h.handler \in BOOLEAN /\ h.request \in BOOLEAN
    /\ h.instance \in [Refs -> Status] /\ h.reported \in BOOLEAN
    /\ h.events \in Seq(BOOLEAN) /\ Len(h.events) <= MaxEvents
    /\ {r \in Refs : h.instance[r] # "none"} = {h.ref} \ {NoRef}
    /\ h.events # <<>> => h.handler

\* The fields of the record the event handlers start from.
LEMMA HandlesFields ==
    /\ Handles.ref = cliMqttRef /\ Handles.handler = hDataConnectionState
    /\ Handles.request = RequestRef /\ Handles.instance = instance
    /\ Handles.events = events /\ Handles.reported = reported
  BY DEF Handles

\* The invariant says of the handles what Connect and Disconnect need.
LEMMA HandlesOK == ASSUME Inv PROVE HandlesType(Handles)
  BY HandlesFields DEF Inv, TypeOK, NoInstanceLeaks, ReportsHaveHandler, HandlesType, Status

\* Disconnect leaves no instance, no handle and no report.
LEMMA DisconnectClears ==
    ASSUME NEW h, HandlesType(h)
    PROVE  /\ HandlesType(Disconnect(h))
           /\ Disconnect(h).ref = NoRef
           /\ ~Disconnect(h).handler /\ ~Disconnect(h).request
           /\ Disconnect(h).events = <<>>
           /\ \A r \in Refs : Disconnect(h).instance[r] = "none"
  <1> DEFINE new == IF h.ref = NoRef THEN h.instance ELSE [h.instance EXCEPT ![h.ref] = "none"]
  <1>1. /\ Disconnect(h).ref = NoRef /\ Disconnect(h).handler = FALSE
        /\ Disconnect(h).request = FALSE /\ Disconnect(h).events = <<>>
        /\ Disconnect(h).reported = FALSE /\ Disconnect(h).instance = new
    BY DEF Disconnect
  <1>2. new \in [Refs -> Status]
    BY DEF HandlesType, Status
  <1>3. \A r \in Refs : new[r] = "none"
    BY RefAssumption DEF HandlesType, Status
  <1>4. <<>> \in Seq(BOOLEAN) /\ Len(<<>>) <= MaxEvents
    BY EventAssumption
  <1> HIDE DEF new
  <1>5. {r \in Refs : new[r] # "none"} = {NoRef} \ {NoRef}
    BY <1>3
  <1>6. QED
    BY <1>1, <1>2, <1>3, <1>4, <1>5 DEF HandlesType

\* Connect leaves one instance and every handle, and makes what was missing; without
\* a token for a new instance it makes nothing.
LEMMA ConnectMakes ==
    ASSUME NEW h, HandlesType(h), NEW token \in BOOLEAN
    PROVE  /\ HandlesType(Connect(h, token))
           /\ Connect(h, token).events = h.events
           /\ \/ /\ Connect(h, token).ref \in Refs
                 /\ Connect(h, token).handler = TRUE /\ Connect(h, token).request = TRUE
              \/ ~token /\ h.ref = NoRef /\ Connect(h, token) = h
           /\ \A r \in Refs : Connect(h, token).instance[r] = "connected"
                              => r = h.ref /\ h.instance[r] = "connected"
  <1> DEFINE new == IF h.ref # NoRef THEN h.ref ELSE CHOOSE r \in Refs : h.instance[r] = "none"
             ins == IF h.ref # NoRef THEN h.instance ELSE [h.instance EXCEPT ![new] = "created"]
             con == Connect(h, token)
  <1>1. CASE h.ref = NoRef /\ ~token
    <2>1. con = h
      BY <1>1 DEF Connect
    <2>2. \A r \in Refs : h.instance[r] # "connected"
      BY <1>1 DEF HandlesType
    <2> HIDE DEF con
    <2>3. QED
      BY <1>1, <2>1, <2>2 DEF con
  <1>2. CASE ~(h.ref = NoRef /\ ~token)
    <2>1. /\ con.ref = new /\ con.handler = TRUE /\ con.request = TRUE
          /\ con.instance = ins /\ con.events = h.events
          /\ con.reported = (h.reported /\ h.request)
      BY <1>2 DEF Connect
    <2>2. h.ref = NoRef => \E r \in Refs : h.instance[r] = "none"
      BY RefAssumption DEF HandlesType
    <2>3. new \in Refs /\ (h.ref = NoRef => h.instance[new] = "none")
      BY <2>2, RefAssumption DEF HandlesType
    <2> HIDE DEF new
    <2>4. ins \in [Refs -> Status]
      BY <2>3 DEF HandlesType, Status
    <2>5. {r \in Refs : ins[r] # "none"} = {new} \ {NoRef}
      <3>1. CASE h.ref = NoRef
        <4>1. \A r \in Refs : h.instance[r] = "none"
          BY <3>1 DEF HandlesType
        <4>2. \A r \in Refs : ins[r] = IF r = new THEN "created" ELSE "none"
          BY <3>1, <4>1, <2>3 DEF HandlesType
        <4> HIDE DEF ins
        <4>3. QED
          BY <4>2, <2>3, RefAssumption
      <3>2. CASE h.ref # NoRef
        BY <3>2 DEF HandlesType, new
      <3>3. QED
        BY <3>1, <3>2
    <2>6. \A r \in Refs : ins[r] = "connected" => r = h.ref /\ h.instance[r] = "connected"
      BY <2>3 DEF HandlesType
    <2> HIDE DEF ins, con
    <2>7. HandlesType(con)
      BY <2>1, <2>3, <2>4, <2>5 DEF HandlesType
    <2>8. QED
      BY <2>1, <2>3, <2>6, <2>7 DEF con
  <1>3. QED
    BY <1>1, <1>2

\* What "session start" and a start over leave: every handle, or with the Google server
\* none.
AllOrNone(h) ==
    /\ h.handler = (h.ref # NoRef) /\ h.request = (h.ref # NoRef)
    /\ h.ref # NoRef \/ google

LEMMA ConnectHolds ==
    ASSUME NEW h, HandlesType(h), h.handler = (h.ref # NoRef), h.request = (h.ref # NoRef),
           NEW token \in HaveToken
    PROVE  AllOrNone(Connect(h, token))
  <1> DEFINE con == Connect(h, token)
  <1>1. token \in BOOLEAN /\ (~token => google)
    BY DEF HaveToken
  <1>2. \/ con.ref \in Refs /\ con.handler = TRUE /\ con.request = TRUE
        \/ ~token /\ con = h
    BY <1>1, ConnectMakes
  <1> HIDE DEF con
  <1>3. QED
    BY <1>1, <1>2, RefAssumption DEF AllOrNone, con

-------------------------------------------------------------------------------
\* Every initial state satisfies the invariant.
LEMMA InvInitially == Init => Inv
  <1> SUFFICES ASSUME Init PROVE Inv
    OBVIOUS
  <1>1. TypeOK
    <2>1. events \in Seq(BOOLEAN) /\ Len(events) <= MaxEvents
      BY EventAssumption DEF Init
    <2>2. instance \in [Refs -> Status]
      BY DEF Init, Status
    <2>3. QED
      BY <2>1, <2>2, Zenon DEF Init, TypeOK
  <1>2. \A r \in Refs : instance[r] = "none"
    BY DEF Init
  <1>3. NoInstanceLeaks /\ ConnectedIsServiced
    BY <1>2 DEF Init, NoInstanceLeaks, ConnectedIsServiced, IsConnected
  <1>4. HandlesFollowUser /\ ReportsHaveHandler
    BY DEF Init, HandlesFollowUser, ReportsHaveHandler
  <1>5. QED
    BY <1>1, <1>3, <1>4 DEF Inv

\* A step that installs new handles and keeps them in line with the user's wish.
LEMMA BecomesKeeps ==
    ASSUME Inv, NEW h, HandlesType(h), Becomes(h),
           wanted' \in BOOLEAN, timer' \in BOOLEAN, UNCHANGED <<google, link, dataUp>>,
           h.handler = (h.ref # NoRef), h.request = (h.ref # NoRef),
           h.ref # NoRef => wanted', wanted' => h.ref # NoRef \/ google,
           \A r \in Refs : h.instance[r] = "connected" => timer'
    PROVE  Inv'
  <1>1. TypeOK'
    BY DEF Inv, TypeOK, Becomes, HandlesType, Status
  <1>2. NoInstanceLeaks' /\ ReportsHaveHandler'
    BY DEF NoInstanceLeaks, ReportsHaveHandler, Becomes, HandlesType
  <1>3. HandlesFollowUser'
    BY DEF HandlesFollowUser, Becomes
  <1>4. ConnectedIsServiced'
    BY DEF ConnectedIsServiced, IsConnected, Becomes, HandlesType
  <1>5. QED
    BY <1>1, <1>2, <1>3, <1>4 DEF Inv

\* A step that gives the session of the one instance another state.
LEMMA StatusChange ==
    ASSUME Inv, cliMqttRef \in Refs, NEW s \in Status \ {"none"},
           instance' = [instance EXCEPT ![cliMqttRef] = s],
           s = "connected" => timer', timer' \in BOOLEAN,
           link' \in {"up", "eof", "silent"},
           events' \in Seq(BOOLEAN), Len(events') <= MaxEvents,
           events' # <<>> => hDataConnectionState,
           UNCHANGED <<cli, wanted, dataUp, reported>>
    PROVE  Inv'
  <1>1. TypeOK'
    BY DEF Inv, TypeOK, Status, cli
  <1>2. NoInstanceLeaks'
    <2>1. \A r \in Refs : instance'[r] = IF r = cliMqttRef THEN s ELSE instance[r]
      BY DEF Inv, TypeOK
    <2>2. QED
      BY <2>1, RefAssumption DEF Inv, NoInstanceLeaks, cli, Status
  <1>3. HandlesFollowUser' /\ ReportsHaveHandler'
    BY DEF Inv, HandlesFollowUser, ReportsHaveHandler, cli
  <1>4. ConnectedIsServiced'
    BY DEF Inv, TypeOK, ConnectedIsServiced, IsConnected, cli
  <1>5. QED
    BY <1>1, <1>2, <1>3, <1>4 DEF Inv

\* A step of the environment, which may add a report.
LEMMA EnvironmentKeeps ==
    ASSUME Inv, UNCHANGED <<cli, timer, wanted, instance>>,
           link' \in {"up", "eof", "silent"}, dataUp' \in BOOLEAN, reported' \in BOOLEAN,
           events' = events \/ \E up \in BOOLEAN : Report(up)
    PROVE  Inv'
  <1>1. /\ events' \in Seq(BOOLEAN) /\ Len(events') <= MaxEvents
        /\ events' # <<>> => hDataConnectionState
    <2>1. CASE events' = events
      BY <2>1 DEF Inv, TypeOK, ReportsHaveHandler
    <2>2. CASE \E up \in BOOLEAN : Report(up)
      <3>1. PICK up \in BOOLEAN : Report(up)
        BY <2>2
      <3>2. CASE hDataConnectionState
        <4>1. Len(Append(events, up)) = Len(events) + 1 /\ Append(events, up) \in Seq(BOOLEAN)
          BY AppendProperties DEF Inv, TypeOK
        <4>2. Len(events) \in Nat
          BY LenProperties DEF Inv, TypeOK
        <4>3. QED
          BY <3>1, <3>2, <4>1, <4>2, EventAssumption DEF Report, Inv, TypeOK
      <3>3. CASE ~hDataConnectionState
        BY <3>1, <3>3 DEF Report, Inv, TypeOK, ReportsHaveHandler
      <3>4. QED
        BY <3>2, <3>3
    <2>3. QED
      BY <2>1, <2>2
  <1>2. QED
    BY <1>1 DEF Inv, TypeOK, NoInstanceLeaks, HandlesFollowUser, ConnectedIsServiced,
                ReportsHaveHandler, IsConnected, cli

\* Every step keeps the invariant.
LEMMA InvStep == Inv /\ [Next]_vars => Inv'
  <1> SUFFICES ASSUME Inv, [Next]_vars PROVE Inv'
    OBVIOUS
  <1>h. HandlesType(Handles)
    BY HandlesOK
  <1>1. CASE SessionStart
    <2>1. PICK token \in HaveToken : Becomes(Connect(Handles, token))
      BY <1>1 DEF SessionStart
    <2> DEFINE con == Connect(Handles, token)
    <2>2. token \in BOOLEAN
      BY DEF HaveToken
    <2>3. /\ HandlesType(con)
          /\ \A r \in Refs : con.instance[r] = "connected"
                              => r = cliMqttRef /\ instance[r] = "connected"
      <3>1. /\ HandlesType(con)
            /\ \A r \in Refs : con.instance[r] = "connected"
                                => r = Handles.ref /\ Handles.instance[r] = "connected"
        BY <1>h, <2>2, ConnectMakes
      <3> HIDE DEF con
      <3>2. QED
        BY <3>1, HandlesFields
    <2>4. AllOrNone(con)
      <3>1. Handles.handler = (Handles.ref # NoRef) /\ Handles.request = (Handles.ref # NoRef)
        BY HandlesFields DEF Inv, HandlesFollowUser
      <3>2. QED
        BY <1>h, <3>1, ConnectHolds
    <2>5. wanted' = TRUE /\ timer' = timer /\ UNCHANGED <<google, link, dataUp>>
      BY <1>1 DEF SessionStart
    <2>6. \A r \in Refs : con.instance[r] = "connected" => timer'
      BY <2>3, <2>5, RefAssumption DEF Inv, ConnectedIsServiced, IsConnected
    <2>7. timer' \in BOOLEAN
      BY <2>5 DEF Inv, TypeOK
    <2> HIDE DEF con
    <2>8. QED
      BY <2>1, <2>3, <2>4, <2>5, <2>6, <2>7, BecomesKeeps DEF AllOrNone, con
  <1>2. CASE SessionStop
    <2> DEFINE off == Disconnect(Handles)
    <2>1. /\ HandlesType(off) /\ off.ref = NoRef /\ ~off.handler /\ ~off.request
          /\ \A r \in Refs : off.instance[r] = "none"
      BY <1>h, DisconnectClears
    <2>2. Becomes(off) /\ wanted' = FALSE /\ timer' = timer /\ UNCHANGED <<google, link, dataUp>>
      BY <1>2 DEF SessionStop
    <2> HIDE DEF off
    <2>3. off.handler = FALSE /\ off.request = FALSE
      BY <2>1 DEF HandlesType
    <2>4. timer' \in BOOLEAN
      BY <2>2 DEF Inv, TypeOK
    <2>5. QED
      BY <2>1, <2>2, <2>3, <2>4, BecomesKeeps
  <1>3. CASE Command
    <2>1. cliMqttRef \in Refs
      BY <1>3 DEF Command, IsConnected, Inv, TypeOK
    <2>2. "lost" \in Status \ {"none"} /\ "lost" # "connected"
      BY DEF Status
    <2>3. QED
      BY <1>3, <2>1, <2>2, StatusChange DEF Command, Inv, TypeOK, ReportsHaveHandler
  <1>4. CASE timerHandler
    <2>1. CASE /\ UNCHANGED <<cli, wanted, instance, link, dataUp, events, reported>>
               /\ timer' \in BOOLEAN /\ (IsConnected => timer')
      <3>1. TypeOK'
        BY <2>1 DEF Inv, TypeOK, cli
      <3>2. NoInstanceLeaks' /\ HandlesFollowUser' /\ ReportsHaveHandler'
        BY <2>1 DEF Inv, NoInstanceLeaks, HandlesFollowUser, ReportsHaveHandler, cli
      <3>3. ConnectedIsServiced'
        BY <2>1 DEF ConnectedIsServiced, IsConnected, cli
      <3>4. QED
        BY <3>1, <3>2, <3>3 DEF Inv
    <2>2. ASSUME NEW token \in HaveToken, IsConnected, timer' = FALSE,
                 UNCHANGED <<google, wanted, link, dataUp>>,
                 Becomes(StartOver([Handles EXCEPT !.instance[cliMqttRef] = "lost"], token))
          PROVE  Inv'
      <3> DEFINE old == [Handles EXCEPT !.instance[cliMqttRef] = "lost"]
                 off == Disconnect(old)
      <3>1. cliMqttRef \in Refs
        BY <2>2 DEF IsConnected, Inv, TypeOK
      <3>2. /\ old.ref = cliMqttRef /\ old.handler = hDataConnectionState /\ old.request = RequestRef
            /\ old.instance = [instance EXCEPT ![cliMqttRef] = "lost"]
            /\ old.events = events /\ old.reported = reported
        BY DEF Handles
      <3> HIDE DEF old
      <3>3. HandlesType(old)
        <4>1. [instance EXCEPT ![cliMqttRef] = "lost"] \in [Refs -> Status]
          BY DEF Inv, TypeOK, Status
        <4>2. {r \in Refs : [instance EXCEPT ![cliMqttRef] = "lost"][r] # "none"}
                = {cliMqttRef} \ {NoRef}
          <5>1. \A r \in Refs : [instance EXCEPT ![cliMqttRef] = "lost"][r]
                                  = IF r = cliMqttRef THEN "lost" ELSE instance[r]
            BY DEF Inv, TypeOK
          <5>2. QED
            BY <3>1, <5>1, RefAssumption DEF Inv, NoInstanceLeaks
        <4>3. QED
          BY <3>2, <4>1, <4>2 DEF HandlesType, Inv, TypeOK, ReportsHaveHandler
      <3>4. /\ HandlesType(off) /\ off.ref = NoRef /\ ~off.handler /\ ~off.request
            /\ \A r \in Refs : off.instance[r] = "none"
        BY <3>3, DisconnectClears
      <3> HIDE DEF off
      <3> DEFINE con == Connect(off, token)
      <3>5. off.handler = FALSE /\ off.request = FALSE
        BY <3>4 DEF HandlesType
      <3>6. HandlesType(con) /\ \A r \in Refs : con.instance[r] # "connected"
        <4>1. token \in BOOLEAN
          BY DEF HaveToken
        <4>2. HandlesType(off)
          BY <3>4
        <4>3. /\ HandlesType(con)
              /\ \A r \in Refs : con.instance[r] = "connected"
                                  => r = off.ref /\ off.instance[r] = "connected"
          BY <4>1, <4>2, ConnectMakes
        <4> HIDE DEF con
        <4>4. QED
          BY <3>4, <4>3
      <3>7. AllOrNone(con)
        BY <3>4, <3>5, ConnectHolds
      <3>8. Becomes(con)
        BY <2>2 DEF StartOver, old, off
      <3>9. wanted' = TRUE
        BY <2>2, <3>1, RefAssumption DEF Inv, TypeOK, HandlesFollowUser
      <3> HIDE DEF con
      <3>10. QED
        BY <2>2, <3>6, <3>7, <3>8, <3>9, BecomesKeeps DEF AllOrNone
    <2>3. QED
      BY <1>4, <2>1, <2>2 DEF timerHandler, Rearm, Faults, cli
  <1>5. CASE DcsStateHandler
    <2>1. /\ hDataConnectionState /\ cliMqttRef \in Refs
          /\ events \in Seq(BOOLEAN) /\ events # <<>> /\ events' = Tail(events)
      <3>1. events # <<>> /\ events' = Tail(events) /\ events \in Seq(BOOLEAN)
        BY <1>5 DEF DcsStateHandler, Inv, TypeOK
      <3>2. hDataConnectionState
        BY <3>1 DEF Inv, ReportsHaveHandler
      <3>3. cliMqttRef # NoRef
        BY <3>2, Zenon DEF Inv, HandlesFollowUser
      <3>4. QED
        BY <3>1, <3>2, <3>3 DEF Inv, TypeOK
    <2>2. events' \in Seq(BOOLEAN) /\ Len(events') <= MaxEvents
      <3>1. Tail(events) \in Seq(BOOLEAN) /\ Len(Tail(events)) = Len(events) - 1
        BY <2>1, HeadTailProperties
      <3>2. Len(events) \in Nat /\ Len(events) <= MaxEvents
        BY <2>1, LenProperties DEF Inv, TypeOK
      <3>3. QED
        BY <2>1, <3>1, <3>2, EventAssumption
    <2>3. instance[cliMqttRef] # "none"
      BY <2>1, RefAssumption DEF Inv, NoInstanceLeaks
    <2>4. PICK s \in Status \ {"none"} :
             /\ instance' = [instance EXCEPT ![cliMqttRef] = s]
             /\ s = "connected" => timer'
      <3>1. \/ /\ instance' = [instance EXCEPT ![cliMqttRef] = "connected"] /\ timer' = TRUE
            \/ instance' = [instance EXCEPT ![cliMqttRef] = "lost"]
            \/ instance' = [instance EXCEPT ![cliMqttRef] = "refused"]
            \/ instance' = [instance EXCEPT ![cliMqttRef] = StopSession(cliMqttRef)]
        BY <1>5 DEF DcsStateHandler
      <3>2. StopSession(cliMqttRef) = "stopped"
        BY <2>3 DEF StopSession
      <3>3. {"connected", "lost", "refused", "stopped"} \subseteq Status \ {"none"}
        BY DEF Status
      <3>4. "lost" # "connected" /\ "refused" # "connected" /\ "stopped" # "connected"
        OBVIOUS
      <3>5. QED
        BY <3>1, <3>2, <3>3, <3>4, Zenon
    <2>5. s \in Status \ {"none"}
      BY DEF Status
    <2>6. timer' \in BOOLEAN /\ link' \in {"up", "eof", "silent"}
      BY <1>5 DEF DcsStateHandler, Inv, TypeOK
    <2>7. UNCHANGED <<cli, wanted, dataUp, reported>>
      BY <1>5 DEF DcsStateHandler
    <2>8. events' # <<>> => hDataConnectionState
      BY <2>1
    <2>9. s = "connected" => timer'
      BY <2>4
    <2>10. instance' = [instance EXCEPT ![cliMqttRef] = s]
      BY <2>4
    <2>11. QED
      BY <2>1, <2>2, <2>5, <2>6, <2>7, <2>8, <2>9, <2>10, StatusChange, Zenon
  <1>6. CASE ConnectionLost
    BY <1>6, EnvironmentKeeps DEF ConnectionLost, Inv, TypeOK
  <1>7. CASE DataComesUp
    BY <1>7, EnvironmentKeeps DEF DataComesUp, Inv, TypeOK
  <1>8. CASE DataGoesDown
    BY <1>8, EnvironmentKeeps DEF DataGoesDown, Inv, TypeOK
  <1>9. CASE DataReported
    BY <1>9, EnvironmentKeeps DEF DataReported, Inv, TypeOK
  <1>10. CASE UNCHANGED vars
    BY <1>10 DEF vars, cli, Inv, TypeOK, NoInstanceLeaks, HandlesFollowUser,
                 ConnectedIsServiced, ReportsHaveHandler, IsConnected
  <1>11. QED
    BY <1>1, <1>2, <1>3, <1>4, <1>5, <1>6, <1>7, <1>8, <1>9, <1>10 DEF Next

\* A session that counts as connected without a data connection has the report that
\* stops it on its way, after every step.
LEMMA DownStep == Inv /\ DownStopsSession /\ [Next]_vars => DownStopsSession'
  <1> SUFFICES ASSUME Inv, DownStopsSession, [Next]_vars PROVE DownStopsSession'
    OBVIOUS
  <1>h. HandlesType(Handles)
    BY HandlesOK
  <1>q. ASSUME UNCHANGED <<cliMqttRef, instance, events, dataUp>> PROVE DownStopsSession'
    BY <1>q DEF DownStopsSession, IsConnected
  <1>n. ASSUME ~IsConnected' PROVE DownStopsSession'
    BY <1>n DEF DownStopsSession
  <1>1. CASE SessionStart
    <2>1. PICK token \in HaveToken : Becomes(Connect(Handles, token))
      BY <1>1 DEF SessionStart
    <2> DEFINE con == Connect(Handles, token)
    <2>2. token \in BOOLEAN
      BY DEF HaveToken
    <2>3. /\ HandlesType(con) /\ con.events = events
          /\ \A r \in Refs : con.instance[r] = "connected"
                              => r = cliMqttRef /\ instance[r] = "connected"
      <3>1. /\ HandlesType(con) /\ con.events = Handles.events
            /\ \A r \in Refs : con.instance[r] = "connected"
                                => r = Handles.ref /\ Handles.instance[r] = "connected"
        BY <1>h, <2>2, ConnectMakes
      <3> HIDE DEF con
      <3>2. QED
        BY <3>1, HandlesFields
    <2> HIDE DEF con
    <2>4. /\ cliMqttRef' = con.ref /\ instance' = con.instance /\ events' = con.events
          /\ dataUp' = dataUp
      BY <1>1, <2>1 DEF SessionStart, Becomes, con
    <2>5. IsConnected' => IsConnected
      BY <2>3, <2>4 DEF IsConnected, HandlesType
    <2>6. QED
      BY <2>3, <2>4, <2>5 DEF DownStopsSession
  <1>2. CASE SessionStop
    <2>1. cliMqttRef' = NoRef
      BY <1>2 DEF SessionStop, Becomes, Disconnect
    <2>2. QED
      BY <2>1, <1>n DEF IsConnected
  <1>3. CASE Command
    <2>1. cliMqttRef \in Refs /\ cliMqttRef' = cliMqttRef
      BY <1>3 DEF Command, IsConnected, Inv, TypeOK, cli
    <2>2. instance'[cliMqttRef] = "lost"
      BY <1>3, <2>1 DEF Command, Inv, TypeOK
    <2>3. QED
      BY <2>1, <2>2, <1>n DEF IsConnected
  <1>4. CASE timerHandler
    <2>1. CASE UNCHANGED <<cli, instance, events, dataUp>>
      BY <2>1, <1>q DEF cli
    <2>2. ASSUME NEW token \in HaveToken, IsConnected,
                 Becomes(StartOver([Handles EXCEPT !.instance[cliMqttRef] = "lost"], token))
          PROVE  DownStopsSession'
      <3> DEFINE old == [Handles EXCEPT !.instance[cliMqttRef] = "lost"]
                 off == Disconnect(old)
      <3>1. cliMqttRef \in Refs
        BY <2>2 DEF IsConnected, Inv, TypeOK
      <3>2. /\ old.ref = cliMqttRef
            /\ old.instance = [instance EXCEPT ![cliMqttRef] = "lost"]
        BY DEF Handles
      <3> HIDE DEF old
      <3>3. off.ref = NoRef /\ off.instance = [old.instance EXCEPT ![cliMqttRef] = "none"]
        BY <3>1, <3>2, RefAssumption DEF Disconnect
      <3>4. \A r \in Refs : off.instance[r] # "connected"
        BY <3>1, <3>2, <3>3 DEF Inv, TypeOK, NoInstanceLeaks
      <3> HIDE DEF off
      <3> DEFINE con == Connect(off, token)
      <3>5. Becomes(con)
        BY <2>2 DEF StartOver, old, off
      <3>6. con = off \/ \E r : con.instance = [off.instance EXCEPT ![r] = "created"]
        <4>1. CASE ~token
          BY <3>3, <4>1 DEF Connect
        <4>2. CASE token
          BY <3>3, <4>2 DEF Connect
        <4>3. QED
          BY <4>1, <4>2 DEF HaveToken
      <3> HIDE DEF con
      <3>7. \A r \in Refs : con.instance[r] # "connected"
        <4>1. off.instance \in [Refs -> Status]
          BY <3>2, <3>3 DEF Inv, TypeOK, Status
        <4>2. QED
          BY <3>4, <3>6, <4>1
      <3>8. cliMqttRef' \in Refs \cup {NoRef}
        BY InvStep DEF Inv, TypeOK
      <3>9. QED
        BY <3>5, <3>7, <3>8, <1>n DEF IsConnected, Becomes
    <2>3. QED
      BY <1>4, <2>1, <2>2 DEF timerHandler, cli
  <1>5. CASE DcsStateHandler
    <2>1. dataUp' = dataUp /\ cliMqttRef' = cliMqttRef
      BY <1>5 DEF DcsStateHandler, cli
    <2>2. CASE dataUp
      BY <2>1, <2>2 DEF DownStopsSession
    <2>3. CASE ~dataUp
      <3>1. \/ instance' = [instance EXCEPT ![cliMqttRef] = "refused"]
            \/ instance' = [instance EXCEPT ![cliMqttRef] = StopSession(cliMqttRef)]
        BY <1>5, <2>3 DEF DcsStateHandler
      <3>2. cliMqttRef \in Refs => instance'[cliMqttRef] # "connected"
        BY <3>1 DEF StopSession, Inv, TypeOK
      <3>3. QED
        BY <2>1, <3>2, <1>n DEF IsConnected, Inv, TypeOK
    <2>4. QED
      BY <2>2, <2>3
  <1>6. CASE ConnectionLost
    BY <1>6, <1>q DEF ConnectionLost, cli
  <1>7. CASE DataComesUp \/ DataReported
    <2>1. dataUp' = TRUE
      BY <1>7, Zenon DEF DataComesUp, DataReported
    <2>2. QED
      BY <2>1 DEF DownStopsSession
  <1>8. CASE DataGoesDown
    <2>1. IsConnected' => IsConnected /\ hDataConnectionState
      <3>1. IsConnected' => IsConnected
        BY <1>8 DEF DataGoesDown, IsConnected, cli
      <3>2. IsConnected => hDataConnectionState
        BY DEF Inv, TypeOK, HandlesFollowUser, IsConnected
      <3>3. QED
        BY <3>1, <3>2
    <2>2. hDataConnectionState => events' = Append(events, FALSE)
      BY <1>8 DEF DataGoesDown, Report
    <2>3. events \in Seq(BOOLEAN)
      BY DEF Inv, TypeOK
    <2>4. /\ Len(events) + 1 \in DOMAIN Append(events, FALSE)
          /\ Append(events, FALSE)[Len(events) + 1] = FALSE
      BY <2>3, AppendProperties, LenProperties
    <2>5. hDataConnectionState => \E i \in DOMAIN events' : events'[i] = FALSE
      BY <2>2, <2>4, Zenon
    <2>6. QED
      BY <2>1, <2>5 DEF DownStopsSession
  <1>9. CASE UNCHANGED vars
    BY <1>9, <1>q DEF vars, cli
  <1>10. QED
    BY <1>1, <1>2, <1>3, <1>4, <1>5, <1>6, <1>7, <1>8, <1>9 DEF Next

-------------------------------------------------------------------------------
\* The instances in the mqttClient service are those the command line server refers
\* to: Disconnect and Connect leave none behind.
THEOREM InstancesOwned == Spec => []NoInstanceLeaks
  <1>1. Inv => NoInstanceLeaks
    BY DEF Inv
  <1>2. QED
    BY InvInitially, InvStep, <1>1, PTL DEF Spec

\* The server holds its handles exactly while the user wants the session.
THEOREM HandlesMatchUser == Spec => []HandlesFollowUser
  <1>1. Inv => HandlesFollowUser
    BY DEF Inv
  <1>2. QED
    BY InvInitially, InvStep, <1>1, PTL DEF Spec

\* A connected session has its timer running.
THEOREM ConnectedHasTimer == Spec => []ConnectedIsServiced
  <1>1. Inv => ConnectedIsServiced
    BY DEF Inv
  <1>2. QED
    BY InvInitially, InvStep, <1>1, PTL DEF Spec

\* Every variable has its type; a reference that is set is one of an instance.
THEOREM TypeCorrect == Spec => []TypeOK
  <1>1. Inv => TypeOK
    BY DEF Inv
  <1>2. QED
    BY InvInitially, InvStep, <1>1, PTL DEF Spec

\* No session outlives its data connection unnoticed.
THEOREM SessionsFollowData == Spec => []DownStopsSession
  <1>1. Init => DownStopsSession
    BY DEF Init, DownStopsSession, IsConnected
  <1>2. QED
    BY InvInitially, InvStep, DownStep, <1>1, PTL DEF Spec

-------------------------------------------------------------------------------
(* The list of messages.                                                   *)

\* The response holds a run of texts with room to spare, and it is empty between
\* two commands.
RoomLeft ==
    /\ Idle => response = <<>>
    /\ \E used \in Queue!Totals(response, Len(response)) : used[Len(response)] = responseLen
    /\ responseLen < ResponseSize

\* The inductive invariant.
ListInv == ListTypeOK /\ NoNodeLeaks /\ RoomLeft

-------------------------------------------------------------------------------
(* Sequences.                                                              *)

\* The sequence of one element.
LEMMA Singleton ==
    ASSUME NEW S, NEW e \in S
    PROVE  <<e>> \in Seq(S) /\ Len(<<e>>) = 1 /\ <<e>>[1] = e
  OBVIOUS

\* A sequence that is not empty is its head followed by its tail.
LEMMA HeadThenTail ==
    ASSUME NEW S, NEW s \in Seq(S), s # <<>>
    PROVE  <<Head(s)>> \o Tail(s) = s
  <1>1. Len(s) \in Nat \ {0}
    BY LenProperties, EmptySeq
  <1>2. SubSeq(s, 1, Len(s)) = <<s[1]>> \o SubSeq(s, 1 + 1, Len(s))
    BY <1>1, SubSeqRecursiveFirst
  <1>3. Tail(s) = SubSeq(s, 2, Len(s)) /\ Head(s) = s[1]
    BY TailIsSubSeq
  <1>4. QED
    BY <1>2, <1>3, SubSeqFull

\* The parts of a concatenation.
LEMMA Parts ==
    ASSUME NEW S, NEW s \in Seq(S), NEW t \in Seq(S)
    PROVE  /\ SubSeq(s \o t, 1, Len(s)) = s
           /\ SubSeq(s \o t, Len(s) + 1, Len(s \o t)) = t
  <1>1. s \o t \in Seq(S) /\ Len(s \o t) = Len(s) + Len(t)
    BY ConcatProperties
  <1>2. Len(s) \in Nat /\ Len(t) \in Nat
    BY LenProperties
  <1>3. SubSeq(s \o t, 1, Len(s)) = s
    <2>1. CASE s = <<>>
      BY <2>1, SubSeqEmpty
    <2>2. CASE s # <<>>
      <3>1. 1 \in 1..Len(s) /\ Len(s) \in 1..Len(s)
        BY <2>2, <1>2, EmptySeq
      <3>2. SubSeq(s \o t, 1, Len(s)) = SubSeq(s, 1, Len(s))
        BY <3>1, SubSeqOfConcat1
      <3>3. QED
        BY <3>2, SubSeqFull
    <2>3. QED
      BY <2>1, <2>2
  <1>4. SubSeq(s \o t, Len(s) + 1, Len(s) + Len(t)) = t
    <2>1. CASE t = <<>>
      <3>1. Len(s) + Len(t) < Len(s) + 1 /\ Len(s) + 1 \in Int /\ Len(s) + Len(t) \in Int
        BY <2>1, <1>2
      <3>2. QED
        BY <3>1, <2>1, SubSeqEmpty
    <2>2. CASE t # <<>>
      <3>1. /\ Len(s) + 1 \in Len(s) + 1..Len(s) + Len(t)
            /\ Len(s) + Len(t) \in Len(s) + 1..Len(s) + Len(t)
            /\ (Len(s) + 1) - Len(s) = 1 /\ (Len(s) + Len(t)) - Len(s) = Len(t)
        BY <2>2, <1>2, EmptySeq
      <3>2. SubSeq(s \o t, Len(s) + 1, Len(s) + Len(t)) = SubSeq(t, 1, Len(t))
        BY <3>1, SubSeqOfConcat2
      <3>3. QED
        BY <3>2, SubSeqFull
    <2>3. QED
      BY <2>1, <2>2
  <1>5. QED
    BY <1>1, <1>3, <1>4

-------------------------------------------------------------------------------
(* The invariant.                                                          *)

\* What a command holds is a sequence of at most one message.
LEMMA HeldType ==
    ASSUME ListTypeOK
    PROVE  /\ Held \in Seq(Message)
           /\ Idle => Held = <<>> /\ Len(Held) = 0
           /\ ~Idle => node \in Message /\ Held = <<node>> /\ Len(Held) = 1
  BY DEF ListTypeOK, Held, Idle

\* No text fits beyond an empty total.
LEMMA EmptyTotals ==
    \E used \in Queue!Totals(<<>>, 0) : used[0] = 0
  <1> DEFINE used == [i \in 0..0 |-> 0]
  <1>1. used \in [0..0 -> 0..ResponseSize] /\ used[0] = 0
    BY SizeAssumption
  <1>2. \A i \in 1..0 : used[i] = used[i - 1] + <<>>[i].len + 1
    OBVIOUS
  <1> HIDE DEF used
  <1>3. used \in Queue!Totals(<<>>, 0)
    BY <1>1, <1>2 DEF Queue!Totals
  <1>4. QED
    BY <1>1, <1>3

\* The totals of a run give those of the run with one text more.
LEMMA ExtendTotals ==
    ASSUME NEW s \in Seq(Message), NEW e \in Message,
           NEW used \in Queue!Totals(s, Len(s)),
           used[Len(s)] + e.len + 1 < ResponseSize
    PROVE  \E u \in Queue!Totals(Append(s, e), Len(s) + 1) :
              u[Len(s) + 1] = used[Len(s)] + e.len + 1
  <1> DEFINE n == Len(s)
             u == [i \in 0..n + 1 |-> IF i = n + 1 THEN used[n] + e.len + 1 ELSE used[i]]
  <1>1. n \in Nat /\ e.len \in Nat
    BY LenProperties, LengthAssumption DEF Message
  <1>2. /\ used \in [0..n -> 0..ResponseSize] /\ used[0] = 0
        /\ \A i \in 1..n : used[i] = used[i - 1] + s[i].len + 1
    BY DEF Queue!Totals
  <1>3. /\ \A i \in 1..n : Append(s, e)[i] = s[i]
        /\ Append(s, e)[n + 1] = e
    BY AppendProperties
  <1> HIDE DEF n
  <1>4. u \in [0..n + 1 -> 0..ResponseSize]
    <2>1. used[n] + e.len + 1 \in 0..ResponseSize
      BY <1>1, <1>2, SizeAssumption DEF n
    <2>2. \A i \in 0..n + 1 : i # n + 1 => i \in 0..n
      BY <1>1
    <2>3. QED
      BY <2>1, <2>2, <1>2
  <1>5. u[0] = 0 /\ u[n + 1] = used[n] + e.len + 1
    BY <1>1, <1>2
  <1>6. \A i \in 1..n + 1 : u[i] = u[i - 1] + Append(s, e)[i].len + 1
    <2>1. SUFFICES ASSUME NEW i \in 1..n + 1 PROVE u[i] = u[i - 1] + Append(s, e)[i].len + 1
      OBVIOUS
    <2>2. CASE i = n + 1
      <3>1. u[n + 1] = used[n] + e.len + 1 /\ u[n] = used[n] /\ i - 1 = n
        BY <2>2, <1>1
      <3>2. QED
        BY <2>2, <3>1, <1>3
    <2>3. CASE i # n + 1
      <3>1. i \in 1..n /\ i - 1 \in 0..n + 1 /\ i - 1 # n + 1
        BY <2>3, <1>1
      <3>2. u[i] = used[i] /\ u[i - 1] = used[i - 1]
        BY <2>3, <3>1, <1>1
      <3>3. QED
        BY <3>1, <3>2, <1>2, <1>3
    <2>4. QED
      BY <2>2, <2>3
  <1> HIDE DEF u
  <1>7. u \in Queue!Totals(Append(s, e), n + 1)
    BY <1>4, <1>5, <1>6 DEF Queue!Totals
  <1>8. QED
    BY <1>5, <1>7 DEF n

\* Every initial state satisfies the invariant.
LEMMA ListInvInitially == ListInit => ListInv
  <1> SUFFICES ASSUME ListInit PROVE ListInv
    OBVIOUS
  <1>1. ListTypeOK
    BY SizeAssumption DEF ListInit, ListTypeOK
  <1>2. NoNodeLeaks
    BY DEF ListInit, NoNodeLeaks, Held, Idle
  <1>3. RoomLeft
    BY EmptyTotals, SizeAssumption DEF ListInit, RoomLeft
  <1>4. QED
    BY <1>1, <1>2, <1>3 DEF ListInv

\* Taking the next node keeps the invariant when the response so far is in order.
LEMMA PopKeeps ==
    ASSUME ListInv, NEW text \in Seq(Message), NEW len \in Nat, Pop(text, len),
           \E used \in Queue!Totals(text, Len(text)) : used[Len(text)] = len,
           len < ResponseSize,
           allocated' \in 0..MaxInList, allocated' = Len(inMessageList), arrived' = arrived
    PROVE  ListInv'
  <1>1. CASE inMessageList # <<>>
    <2>1. /\ node' = Head(inMessageList) /\ inMessageList' = Tail(inMessageList)
          /\ response' = text /\ responseLen' = len /\ shown' = shown
      BY <1>1 DEF Pop
    <2>2. /\ Head(inMessageList) \in Message /\ Tail(inMessageList) \in Seq(Message)
          /\ Len(Tail(inMessageList)) = Len(inMessageList) - 1
      BY <1>1, HeadTailProperties DEF ListInv, ListTypeOK
    <2>3. Len(inMessageList) \in Nat
      BY LenProperties DEF ListInv, ListTypeOK
    <2>4. ListTypeOK'
      BY <2>1, <2>2, <2>3, SizeAssumption DEF ListInv, ListTypeOK
    <2>5. ~Idle' /\ Len(Held') = 1
      BY <2>1, <2>2, NoMessageAssumption DEF Idle, Held
    <2>6. NoNodeLeaks'
      BY <2>1, <2>2, <2>3, <2>5 DEF NoNodeLeaks
    <2>7. RoomLeft'
      BY <2>1, <2>5 DEF RoomLeft
    <2>8. QED
      BY <2>4, <2>6, <2>7 DEF ListInv
  <1>2. CASE inMessageList = <<>>
    <2>1. /\ node' = NoMessage /\ inMessageList' = inMessageList
          /\ response' = <<>> /\ responseLen' = 0 /\ shown' = shown \o text
      BY <1>2 DEF Pop
    <2>2. shown \o text \in Seq(Message)
      BY ConcatProperties DEF ListInv, ListTypeOK
    <2>3. ListTypeOK'
      BY <2>1, <2>2 DEF ListInv, ListTypeOK
    <2>4. Idle' /\ Len(Held') = 0
      BY <2>1 DEF Idle, Held
    <2>5. NoNodeLeaks'
      BY <1>2, <2>1, <2>4 DEF NoNodeLeaks
    <2>6. RoomLeft'
      BY <2>1, EmptyTotals, SizeAssumption DEF RoomLeft
    <2>7. QED
      BY <2>3, <2>5, <2>6 DEF ListInv
  <1>3. QED
    BY <1>1, <1>2

\* The response of a turn that copies its node is in order.
LEMMA CopiedInOrder ==
    ASSUME ListInv, Copy
    PROVE  /\ node \in Message /\ Append(response, node) \in Seq(Message)
           /\ responseLen + node.len + 1 \in Nat
           /\ responseLen + node.len + 1 < ResponseSize
           /\ Len(Append(response, node)) = Len(response) + 1
           /\ \E used \in Queue!Totals(Append(response, node), Len(response) + 1) :
                 used[Len(response) + 1] = responseLen + node.len + 1
  <1>1. node \in Message /\ node.len \in Nat
    BY LengthAssumption DEF ListInv, ListTypeOK, Copy, Idle, Message
  <1>2. response \in Seq(Message) /\ responseLen \in Nat
    BY DEF ListInv, ListTypeOK
  <1>3. responseLen + node.len + 1 \in Nat /\ responseLen + node.len + 1 < ResponseSize
    BY <1>1, <1>2 DEF Copy, Fits
  <1>4. PICK used \in Queue!Totals(response, Len(response)) : used[Len(response)] = responseLen
    BY DEF ListInv, RoomLeft
  <1>5. QED
    BY <1>1, <1>2, <1>3, <1>4, ExtendTotals, AppendProperties

\* The arrival of a message keeps the invariant.
LEMMA ArrivalKeeps == ASSUME ListInv, QueueIncomingMessage PROVE ListInv'
  <1>1. PICK n \in Lengths :
           LET list == Append(inMessageList, [id |-> arrived + 1, len |-> n])
           IN IF TooMany(list)
              THEN inMessageList' = Tail(list) /\ allocated' = allocated
              ELSE inMessageList' = list /\ allocated' = allocated + 1
    BY DEF QueueIncomingMessage
  <1> DEFINE m == [id |-> arrived + 1, len |-> n]
             list == Append(inMessageList, m)
  <1>2. arrived + 1 \in 1..MaxArrivals /\ arrived' \in 0..MaxArrivals
    BY SizeAssumption DEF QueueIncomingMessage, ListInv, ListTypeOK
  <1>3. m \in Message
    BY <1>2 DEF Message
  <1>4. inMessageList \in Seq(Message) /\ allocated \in 0..MaxInList
    BY DEF ListInv, ListTypeOK
  <1>5. list \in Seq(Message) /\ list # <<>> /\ Len(list) = Len(inMessageList) + 1
    BY <1>3, <1>4, AppendProperties
  <1>6. Len(inMessageList) \in Nat
    BY <1>4, LenProperties
  <1>7. Idle /\ Idle' /\ UNCHANGED <<node, response, responseLen, shown>>
    BY DEF QueueIncomingMessage, Idle
  <1>8. Len(Held) = 0 /\ Len(Held') = 0
    BY <1>7 DEF Held
  <1>9. IF Len(list) > MaxInList
        THEN inMessageList' = Tail(list) /\ allocated' = allocated
        ELSE inMessageList' = list /\ allocated' = allocated + 1
    BY <1>1 DEF TooMany
  <1> HIDE DEF list
  <1>10. Tail(list) \in Seq(Message) /\ Len(Tail(list)) = Len(list) - 1
    BY <1>5, HeadTailProperties
  <1>11. inMessageList' \in Seq(Message) /\ allocated' \in 0..MaxInList
    <2>1. allocated = Len(inMessageList)
      BY <1>4, <1>6, <1>8 DEF ListInv, NoNodeLeaks
    <2>2. QED
      BY <2>1, <1>4, <1>5, <1>6, <1>9, <1>10, SizeAssumption
  <1>12. ListTypeOK'
    BY <1>2, <1>7, <1>11 DEF ListInv, ListTypeOK
  <1>13. NoNodeLeaks'
    BY <1>5, <1>6, <1>8, <1>9, <1>10 DEF ListInv, NoNodeLeaks
  <1>14. RoomLeft'
    BY <1>7 DEF ListInv, RoomLeft, Idle
  <1>15. QED
    BY <1>12, <1>13, <1>14 DEF ListInv

\* A command that stops keeps the invariant.
LEMMA StopKeeps == ASSUME ListInv, Stop PROVE ListInv'
  <1>1. /\ node \in Message /\ inMessageList \in Seq(Message)
        /\ shown \in Seq(Message) /\ response \in Seq(Message)
    BY DEF Stop, ListInv, ListTypeOK, Idle
  <1>2. /\ <<node>> \o inMessageList \in Seq(Message)
        /\ Len(<<node>> \o inMessageList) = 1 + Len(inMessageList)
    BY <1>1, Singleton, ConcatProperties
  <1>3. shown \o response \in Seq(Message)
    BY <1>1, ConcatProperties
  <1>4. allocated = Len(inMessageList) + 1 /\ Len(inMessageList) \in Nat
    BY <1>1, HeldType, LenProperties DEF Stop, ListInv, NoNodeLeaks
  <1>5. /\ inMessageList' = <<node>> \o inMessageList /\ node' = NoMessage
        /\ shown' = shown \o response /\ response' = <<>> /\ responseLen' = 0
        /\ allocated' = allocated /\ arrived' = arrived
    BY DEF Stop, PutBack
  <1>6. ListTypeOK'
    BY <1>2, <1>3, <1>5 DEF ListInv, ListTypeOK
  <1>7. Idle' /\ Len(Held') = 0
    BY <1>5 DEF Idle, Held
  <1>8. NoNodeLeaks'
    BY <1>2, <1>4, <1>5, <1>7 DEF NoNodeLeaks
  <1>9. RoomLeft'
    BY <1>5, EmptyTotals, SizeAssumption DEF RoomLeft
  <1>10. QED
    BY <1>6, <1>8, <1>9 DEF ListInv

\* Every step keeps the invariant.
LEMMA ListInvStep == ListInv /\ [ListNext]_listVars => ListInv'
  <1> SUFFICES ASSUME ListInv, [ListNext]_listVars PROVE ListInv'
    OBVIOUS
  <1>t. ListTypeOK /\ NoNodeLeaks /\ inMessageList \in Seq(Message) /\ allocated \in 0..MaxInList
    BY DEF ListInv, ListTypeOK
  <1>1. CASE QueueIncomingMessage
    BY <1>1, ArrivalKeeps
  <1>2. CASE HandleQueuedCommand
    <2>1. Pop(<<>>, 0) /\ allocated' = allocated /\ arrived' = arrived
      BY <1>2 DEF HandleQueuedCommand
    <2>2. allocated = Len(inMessageList)
      BY <1>2, <1>t, HeldType, LenProperties DEF HandleQueuedCommand, NoNodeLeaks
    <2>3. <<>> \in Seq(Message) /\ Len(<<>>) = 0 /\ 0 \in Nat /\ 0 < ResponseSize
      BY SizeAssumption
    <2>4. \E used \in Queue!Totals(<<>>, Len(<<>>)) : used[Len(<<>>)] = 0
      BY <2>3, EmptyTotals
    <2>5. allocated' \in 0..MaxInList /\ allocated' = Len(inMessageList)
      BY <2>1, <2>2, <1>t
    <2>6. QED
      BY <2>1, <2>3, <2>4, <2>5, PopKeeps
  <1>3. CASE Copy
    <2>1. Pop(Append(response, node), responseLen + node.len + 1)
      BY <1>3 DEF Copy
    <2>2. /\ Append(response, node) \in Seq(Message)
          /\ responseLen + node.len + 1 \in Nat
          /\ responseLen + node.len + 1 < ResponseSize
          /\ Len(Append(response, node)) = Len(response) + 1
          /\ \E used \in Queue!Totals(Append(response, node), Len(response) + 1) :
                used[Len(response) + 1] = responseLen + node.len + 1
      BY <1>3, CopiedInOrder
    <2>3. allocated = Len(inMessageList) + 1 /\ Len(inMessageList) \in Nat
      BY <1>3, <1>t, HeldType, LenProperties DEF Copy, NoNodeLeaks
    <2>4. allocated' = allocated - 1 /\ arrived' = arrived
      BY <1>3 DEF Copy, Release
    <2>5. allocated' \in 0..MaxInList /\ allocated' = Len(inMessageList)
      BY <2>3, <2>4, <1>t, SizeAssumption
    <2>6. QED
      BY <2>1, <2>2, <2>4, <2>5, PopKeeps
  <1>4. CASE Stop
    BY <1>4, StopKeeps
  <1>5. CASE UNCHANGED listVars
    BY <1>5 DEF listVars, ListInv, ListTypeOK, NoNodeLeaks, RoomLeft, Held, Idle
  <1>6. QED
    BY <1>1, <1>2, <1>3, <1>4, <1>5 DEF ListNext

-------------------------------------------------------------------------------
(* The list of the server implements the queue it promises.                *)

\* What the refinement needs of a state.
LEMMA WaitingParts ==
    ASSUME ListTypeOK
    PROVE  /\ response \in Seq(Message) /\ Held \in Seq(Message) /\ inMessageList \in Seq(Message)
           /\ Waiting \in Seq(Message)
           /\ Waiting = response \o (Held \o inMessageList)
  <1>1. /\ response \in Seq(Message) /\ Held \in Seq(Message)
        /\ inMessageList \in Seq(Message)
    BY HeldType DEF ListTypeOK
  <1>2. Waiting \in Seq(Message)
    BY <1>1, ConcatProperties DEF Waiting
  <1>3. QED
    BY <1>1, <1>2, ConcatAssociative DEF Waiting

\* Between commands only the list waits.
LEMMA IdleWaiting ==
    ASSUME ListTypeOK, Idle, response = <<>>
    PROVE  Waiting = inMessageList
  <1>1. inMessageList \in Seq(Message) /\ <<>> \in Seq(Message) /\ Held = <<>>
    BY HeldType DEF ListTypeOK
  <1>2. QED
    BY <1>1, ConcatEmptySeq DEF Waiting

\* Initially nothing waits.
LEMMA QueueInitially == ListInit => Queue!Init
  <1> SUFFICES ASSUME ListInit PROVE Queue!Init
    OBVIOUS
  <1>1. Waiting = <<>>
    BY ListInvInitially, IdleWaiting DEF ListInv, ListInit, Idle
  <1>2. QED
    BY <1>1 DEF ListInit, Queue!Init

\* The arrival of a message is that of the abstract queue.
LEMMA ArrivalRefines == ASSUME ListInv, ListInv', QueueIncomingMessage PROVE Queue!Arrive
  <1>1. PICK n \in Lengths :
           LET list == Append(inMessageList, [id |-> arrived + 1, len |-> n])
           IN IF TooMany(list)
              THEN inMessageList' = Tail(list) /\ allocated' = allocated
              ELSE inMessageList' = list /\ allocated' = allocated + 1
    BY DEF QueueIncomingMessage
  <1> DEFINE m == [id |-> arrived + 1, len |-> n]
  <1>2. m \in Message
    BY SizeAssumption DEF Message, QueueIncomingMessage, ListInv, ListTypeOK
  <1>3. Idle /\ Idle' /\ response = <<>> /\ response' = <<>> /\ shown' = shown
    BY DEF QueueIncomingMessage, Idle, ListInv, RoomLeft
  <1>4. Waiting = inMessageList
    BY <1>3, IdleWaiting DEF ListInv
  <1>5. Waiting' = inMessageList'
    <2>1. /\ inMessageList' \in Seq(Message) /\ <<>> \in Seq(Message) /\ Held' = <<>>
      BY <1>3 DEF ListInv, ListTypeOK, Held
    <2>2. QED
      BY <2>1, <1>3, ConcatEmptySeq DEF Waiting
  <1>6. inMessageList' = Queue!Newest(Append(inMessageList, m))
    BY <1>1 DEF TooMany, Queue!Newest
  <1> HIDE DEF m
  <1>7. QED
    BY <1>2, <1>3, <1>4, <1>5, <1>6 DEF Queue!Arrive

\* Taking a node that is there moves a text within what waits.
LEMMA PopStutters ==
    ASSUME ListInv, NEW text \in Seq(Message), NEW len, Pop(text, len), inMessageList # <<>>
    PROVE  Waiting' = text \o inMessageList /\ shown' = shown
  <1>1. /\ node' = Head(inMessageList) /\ inMessageList' = Tail(inMessageList)
        /\ response' = text /\ shown' = shown
    BY DEF Pop
  <1>2. inMessageList \in Seq(Message)
    BY DEF ListInv, ListTypeOK
  <1>3. Head(inMessageList) \in Message /\ Tail(inMessageList) \in Seq(Message)
    BY <1>2, HeadTailProperties
  <1>4. Held' = <<Head(inMessageList)>> /\ Held' \in Seq(Message)
    BY <1>1, <1>3, NoMessageAssumption, Singleton DEF Held, Idle
  <1>5. Waiting' = (text \o <<Head(inMessageList)>>) \o Tail(inMessageList)
    BY <1>1, <1>4 DEF Waiting
  <1>6. Waiting' = text \o (<<Head(inMessageList)>> \o Tail(inMessageList))
    BY <1>3, <1>4, <1>5, ConcatAssociative
  <1>7. QED
    BY <1>1, <1>2, <1>6, HeadThenTail

\* A command that finds no further node shows its text and leaves nothing.
LEMMA PopShows ==
    ASSUME NEW text, NEW len, Pop(text, len), inMessageList = <<>>
    PROVE  Waiting' = <<>> /\ shown' = shown \o text
  <1>1. /\ node' = NoMessage /\ inMessageList' = <<>> /\ response' = <<>>
        /\ shown' = shown \o text
    BY DEF Pop
  <1>2. Held' = <<>>
    BY <1>1 DEF Held, Idle
  <1>3. <<>> \o <<>> = <<>>
    BY ConcatEmptySeq, EmptySeq
  <1>4. QED
    BY <1>1, <1>2, <1>3 DEF Waiting

\* The totals of the first part of a run are those of the run.
LEMMA TotalsOfPart ==
    ASSUME NEW s \in Seq(Message), NEW t \in Seq(Message),
           NEW used \in Queue!Totals(s, Len(s))
    PROVE  used \in Queue!Totals(s \o t, Len(s))
  <1>1. \A i \in 1..Len(s) : (s \o t)[i] = s[i]
    BY ConcatProperties, LenProperties
  <1>2. QED
    BY <1>1 DEF Queue!Totals

\* A turn that copies the last message ends the command with all of them.
LEMMA CopyLastTakes ==
    ASSUME ListInv, Copy, inMessageList = <<>>
    PROVE  Queue!Take
  <1> DEFINE all == Append(response, node)
  <1>1. Pop(all, responseLen + node.len + 1) /\ ~Idle
    BY DEF Copy
  <1>2. Waiting' = <<>> /\ shown' = shown \o all
    BY <1>1, PopShows
  <1>3. /\ node \in Message /\ all \in Seq(Message) /\ Len(all) = Len(response) + 1
        /\ responseLen + node.len + 1 < ResponseSize
    BY CopiedInOrder
  <1>4. PICK used \in Queue!Totals(all, Len(all)) :
           used[Len(all)] = responseLen + node.len + 1
    BY CopiedInOrder
  <1>5. Waiting = all
    <2>1. Held = <<node>> /\ response \in Seq(Message)
      BY <1>1 DEF Held, ListInv, ListTypeOK
    <2>2. all = response \o <<node>>
      BY <1>3, <2>1, AppendIsConcat
    <2>3. (response \o <<node>>) \o <<>> = response \o <<node>>
      BY <1>3, <2>2, ConcatEmptySeq
    <2>4. QED
      BY <2>1, <2>2, <2>3 DEF Waiting
  <1> HIDE DEF all
  <1>6. Len(all) \in 0..Len(Waiting) /\ Len(all) \in Nat
    BY <1>3, <1>5, LenProperties
  <1>7. SubSeq(Waiting, 1, Len(all)) = all
    BY <1>3, <1>5, SubSeqFull
  <1>8. SubSeq(Waiting, Len(all) + 1, Len(Waiting)) = <<>>
    BY <1>5, <1>6, SubSeqEmpty
  <1>9. /\ used \in Queue!Totals(Waiting, Len(all)) /\ used[Len(all)] < ResponseSize
        /\ ~(Len(all) < Len(Waiting))
    BY <1>3, <1>4, <1>5, <1>6
  <1>10. QED
    BY <1>2, <1>6, <1>7, <1>8, <1>9 DEF Queue!Take

\* A command that stops at a message without room takes those before it.
LEMMA StopTakes ==
    ASSUME ListInv, Stop
    PROVE  Queue!Take
  <1>1. node \in Message /\ ~Idle /\ ~Fits
    BY DEF Stop, ListInv, ListTypeOK, Idle
  <1> DEFINE rest == <<node>> \o inMessageList
             n == Len(response)
  <1>2. /\ inMessageList' = rest /\ node' = NoMessage
        /\ shown' = shown \o response /\ response' = <<>>
    BY DEF Stop, PutBack
  <1>3. /\ response \in Seq(Message) /\ inMessageList \in Seq(Message)
        /\ Waiting = response \o rest
    <2>1. Held = <<node>>
      BY <1>1 DEF Held
    <2>2. QED
      BY <2>1, WaitingParts DEF ListInv
  <1>4. rest \in Seq(Message) /\ Len(rest) = 1 + Len(inMessageList) /\ rest[1] = node
    <2>1. <<node>> \in Seq(Message) /\ Len(<<node>>) = 1 /\ <<node>>[1] = node
      BY <1>1, Singleton
    <2>2. Len(inMessageList) \in Nat
      BY <1>3, LenProperties
    <2>3. QED
      BY <1>3, <2>1, <2>2, ConcatProperties
  <1> HIDE DEF rest
  <1>5. Waiting' = rest
    <2>1. Held' = <<>>
      BY <1>2 DEF Held, Idle
    <2>2. Waiting' = (<<>> \o <<>>) \o rest
      BY <1>2, <2>1 DEF Waiting
    <2>3. <<>> \o <<>> = <<>> /\ <<>> \o rest = rest
      BY <1>4, ConcatEmptySeq, EmptySeq
    <2>4. QED
      BY <2>2, <2>3
  <1>6. /\ Len(Waiting) = n + Len(rest) /\ n \in Nat /\ Len(rest) \in Nat
        /\ Waiting[n + 1] = node
    <2>1. n \in Nat /\ Len(rest) \in Nat /\ Len(rest) >= 1
      BY <1>3, <1>4, LenProperties
    <2>2. Len(response \o rest) = n + Len(rest)
          /\ \A i \in 1..n + Len(rest) :
                (response \o rest)[i] = IF i <= n THEN response[i] ELSE rest[i - n]
      <3>1. response \in Seq(Message) /\ rest \in Seq(Message) /\ Len(response) = n
        BY <1>3, <1>4
      <3>2. QED
        BY <3>1, ConcatProperties
    <2>3. n + 1 \in 1..n + Len(rest) /\ ~(n + 1 <= n) /\ (n + 1) - n = 1
      BY <2>1
    <2>4. QED
      BY <2>1, <2>2, <2>3, <1>3, <1>4
  <1>7. SubSeq(Waiting, 1, n) = response /\ SubSeq(Waiting, n + 1, Len(Waiting)) = rest
    BY <1>3, <1>4, Parts
  <1>8. PICK used \in Queue!Totals(response, n) : used[n] = responseLen
    BY DEF ListInv, RoomLeft
  <1>9. used \in Queue!Totals(Waiting, n)
    BY <1>3, <1>4, <1>8, TotalsOfPart
  <1>10. used[n] < ResponseSize /\ used[n] + Waiting[n + 1].len + 1 >= ResponseSize
    <2>1. node.len \in Nat /\ responseLen \in Nat
      BY <1>1, LengthAssumption DEF Message, ListInv, ListTypeOK
    <2>2. QED
      BY <2>1, <1>1, <1>6, <1>8, SizeAssumption DEF Fits, ListInv, RoomLeft
  <1>11. n \in 0..Len(Waiting)
    BY <1>6
  <1> HIDE DEF n
  <1>12. QED
    BY <1>2, <1>5, <1>7, <1>9, <1>10, <1>11 DEF Queue!Take

\* Every step is a step of the abstract queue or leaves it alone.
LEMMA QueueStep == ListInv /\ ListInv' /\ [ListNext]_listVars => [Queue!Next]_Queue!vars
  <1> SUFFICES ASSUME ListInv, ListInv', [ListNext]_listVars PROVE [Queue!Next]_Queue!vars
    OBVIOUS
  <1>1. CASE QueueIncomingMessage
    BY <1>1, ArrivalRefines DEF Queue!Next
  <1>2. CASE HandleQueuedCommand
    <2>1. Pop(<<>>, 0) /\ Waiting = inMessageList /\ <<>> \in Seq(Message)
      BY <1>2, IdleWaiting DEF HandleQueuedCommand, ListInv, RoomLeft
    <2>2. inMessageList \in Seq(Message) /\ shown \in Seq(Message)
      BY DEF ListInv, ListTypeOK
    <2>3. CASE inMessageList # <<>>
      <3>1. Waiting' = <<>> \o inMessageList /\ shown' = shown
        BY <2>1, <2>3, PopStutters
      <3>2. <<>> \o inMessageList = inMessageList
        BY <2>2, ConcatEmptySeq
      <3>3. QED
        BY <2>1, <3>1, <3>2 DEF Queue!vars
    <2>4. CASE inMessageList = <<>>
      <3>1. Waiting' = <<>> /\ shown' = shown \o <<>>
        BY <2>1, <2>4, PopShows
      <3>2. shown \o <<>> = shown
        BY <2>2, ConcatEmptySeq
      <3>3. QED
        BY <2>1, <2>4, <3>1, <3>2 DEF Queue!vars
    <2>5. QED
      BY <2>3, <2>4
  <1>3. CASE Copy
    <2>1. CASE inMessageList # <<>>
      <3>1. Pop(Append(response, node), responseLen + node.len + 1) /\ ~Idle
        BY <1>3 DEF Copy
      <3>2. node \in Message /\ Append(response, node) \in Seq(Message)
        BY <1>3, CopiedInOrder
      <3>3. Waiting' = Append(response, node) \o inMessageList /\ shown' = shown
        BY <2>1, <3>1, <3>2, PopStutters
      <3>4. Append(response, node) = response \o <<node>> /\ Held = <<node>>
        BY <3>1, <3>2, AppendIsConcat DEF ListInv, ListTypeOK, Held
      <3>5. Waiting' = Waiting
        BY <3>3, <3>4 DEF Waiting
      <3>6. QED
        BY <3>3, <3>5 DEF Queue!vars
    <2>2. CASE inMessageList = <<>>
      BY <1>3, <2>2, CopyLastTakes DEF Queue!Next
    <2>3. QED
      BY <2>1, <2>2
  <1>4. CASE Stop
    BY <1>4, StopTakes DEF Queue!Next
  <1>5. CASE UNCHANGED listVars
    BY <1>5 DEF listVars, Queue!vars, Waiting, Held, Idle
  <1>6. QED
    BY <1>1, <1>2, <1>3, <1>4, <1>5 DEF ListNext

-------------------------------------------------------------------------------
\* No node of the pool is lost or released twice.
THEOREM NodesAccounted == ListSpec => []NoNodeLeaks
  <1>1. ListInv => NoNodeLeaks
    BY DEF ListInv
  <1>2. QED
    BY ListInvInitially, ListInvStep, <1>1, PTL DEF ListSpec

\* The list never holds more than MAX_INMESSAGE_IN_LIST nodes of the pool, and every
\* variable has its type.
THEOREM ListTypeCorrect == ListSpec => []ListTypeOK
  <1>1. ListInv => ListTypeOK
    BY DEF ListInv
  <1>2. QED
    BY ListInvInitially, ListInvStep, <1>1, PTL DEF ListSpec

\* Arrivals and commands, turn by turn, are those of a queue that keeps the newest
\* messages and shows the longest run of the oldest a response has room for.
THEOREM ImplementsDropOldestQueue == ListSpec => IsDropOldestQueue
  <1>1. ListInv /\ ListInv' /\ [ListNext]_listVars => [Queue!Next]_Queue!vars
    BY QueueStep
  <1>2. QED
    BY QueueInitially, ListInvInitially, ListInvStep, <1>1, PTL DEF ListSpec, Queue!Spec, IsDropOldestQueue
===============================================================================
