---------------------------- MODULE ClientApi_proofs ----------------------------
(* Who is handed a message, and what is left on the heap, for any references,   *)
(* handlers, topics and size of the table.                                      *)
EXTENDS ClientApi, FiniteSetTheorems, TLAPS

-----------------------------------------------------------------------------
(* What the calls do to one client                                           *)

OneUserData == [Indexes -> CtxData \cup {NULL}]

\* Where the handlers of a client are: c is the client, reg what was added to it and
\* not removed, contested whether two handlers were ever there at once.
Owned(c, reg) ==
    /\ HandlerIn(c, 0, "command") \subseteq reg["command"]
    /\ \A k \in Kinds : HandlerIn(c, 1, k) \subseteq reg[k]
    /\ ~ c.av => c.userCtxData[1] = NULL

Single(reg) == \A k \in Kinds : \A a, b \in reg[k] : a = b

Sole(c, reg) ==
    \A h \in Handlers :
      /\ reg["command"] = {h} =>
            HandlerIn(c, 0, "command") = {h} /\ (c.av => HandlerIn(c, 1, "command") = {h})
      /\ reg["install"] = {h} /\ c.av => HandlerIn(c, 1, "install") = {h}

Served(c, reg, cont) == Owned(c, reg) /\ (~ cont => Single(reg) /\ Sole(c, reg))

Registrations == [Kinds -> SUBSET Handlers]

\* User data that are created hold no handler; nothing else changes.
LEMMA DataCreated ==
    ASSUME NEW c \in Client, NEW index \in Indexes
    PROVE  /\ WithData(c, index) \in Client
           /\ HasData(WithData(c, index), index)
           /\ WithData(c, index).av = c.av
           /\ WithData(c, index).isconnected = c.isconnected
           /\ WithData(c, index).messageHandlers = c.messageHandlers
           /\ \A i \in Indexes, k \in Kinds : HandlerIn(WithData(c, index), i, k) = HandlerIn(c, i, k)
           /\ \A i \in Indexes : i # index => WithData(c, index).userCtxData[i] = c.userCtxData[i]
           /\ \A i \in Indexes : HasData(c, i) => HasData(WithData(c, index), i)
           /\ HasData(c, index) => WithData(c, index).heap = c.heap
           /\ ~ HasData(c, index) => WithData(c, index).heap = c.heap + 1
<1> DEFINE empty == [command |-> NULL, install |-> NULL]
<1>1. empty \in CtxData /\ empty # NULL
  <2>1. empty \in CtxData
    BY DEF CtxData
  <2> QED
    BY <2>1, NullAssumption
<1>2. CASE HasData(c, index)
  BY <1>2 DEF WithData
<1>3. CASE ~ HasData(c, index)
  <2>1. WithData(c, index) = [c EXCEPT !.userCtxData[index] = empty, !.heap = @ + 1]
    BY <1>3 DEF WithData, Allocated
  <2> DEFINE data == [c.userCtxData EXCEPT ![index] = empty]
  <2>4. /\ data \in OneUserData /\ data[index] = empty
        /\ \A i \in Indexes : i # index => data[i] = c.userCtxData[i]
    BY <1>1 DEF OneUserData, Client
  <2>5. c.heap + 1 \in Nat
    BY DEF Client
  <2>6. WithData(c, index) = [c EXCEPT !.userCtxData = data, !.heap = c.heap + 1]
    BY <2>1 DEF Client
  <2> HIDE DEF data
  <2>2. /\ WithData(c, index) \in Client
        /\ WithData(c, index).heap = c.heap + 1
        /\ WithData(c, index).av = c.av
        /\ WithData(c, index).isconnected = c.isconnected
        /\ WithData(c, index).messageHandlers = c.messageHandlers
        /\ WithData(c, index).userCtxData[index] = empty
        /\ \A i \in Indexes : i # index => WithData(c, index).userCtxData[i] = c.userCtxData[i]
    BY <2>4, <2>5, <2>6 DEF Client, OneUserData
  <2>3. ASSUME NEW i \in Indexes, NEW k \in Kinds
        PROVE  HandlerIn(WithData(c, index), i, k) = HandlerIn(c, i, k)
    <3>1. CASE i = index
      <4>1. HandlerIn(c, i, k) = {}
        BY <1>3, <3>1 DEF HandlerIn
      <4>2. empty[k] = NULL
        BY DEF Kinds
      <4>3. HandlerIn(WithData(c, index), i, k) = {}
        BY <2>2, <3>1, <4>2 DEF HandlerIn
      <4> QED
        BY <4>1, <4>3
    <3>2. CASE i # index
      BY <2>2, <3>2 DEF HandlerIn, HasData
    <3> QED
      BY <3>1, <3>2
  <2> QED
    BY <1>1, <1>3, <2>2, <2>3 DEF HasData
<1> QED
  BY <1>2, <1>3

Stored(c, index, k, h) == [c EXCEPT !.userCtxData[index][k] = h]

\* A handler is set in user data that are there, and nowhere else.
LEMMA HandlerStored ==
    ASSUME NEW c \in Client, NEW index \in Indexes, HasData(c, index),
           NEW k \in Kinds, NEW h \in Handlers \cup {NULL}
    PROVE  LET d == Stored(c, index, k, h) IN
           /\ d \in Client /\ d.av = c.av /\ d.heap = c.heap
           /\ d.isconnected = c.isconnected /\ d.messageHandlers = c.messageHandlers
           /\ \A i \in Indexes : HasData(c, i) <=> HasData(d, i)
           /\ HandlerIn(d, index, k) = {h} \ {NULL}
           /\ \A i \in Indexes, q \in Kinds :
                (i # index \/ q # k) => HandlerIn(d, i, q) = HandlerIn(c, i, q)
           /\ \A i \in Indexes : i # index => d.userCtxData[i] = c.userCtxData[i]
<1> DEFINE d == Stored(c, index, k, h)
<1>1. c.userCtxData[index] \in CtxData
  BY DEF Client, HasData
<1>2. /\ d.av = c.av /\ d.isconnected = c.isconnected /\ d.messageHandlers = c.messageHandlers
      /\ d.heap = c.heap
      /\ d.userCtxData[index] = [c.userCtxData[index] EXCEPT ![k] = h]
      /\ \A i \in Indexes : i # index => d.userCtxData[i] = c.userCtxData[i]
  BY DEF Client, Stored
<1>3. [c.userCtxData[index] EXCEPT ![k] = h] \in CtxData
  BY <1>1 DEF CtxData, Kinds
<1>4. d \in Client
  BY <1>3 DEF Client, Stored
<1> HIDE DEF d
<1>5. HasData(d, index)
  BY <1>2, <1>3, NullAssumption DEF HasData
<1>6. \A q \in Kinds : d.userCtxData[index][q] = IF q = k THEN h ELSE c.userCtxData[index][q]
  BY <1>1, <1>2 DEF CtxData, Kinds
<1>7. HandlerIn(d, index, k) = {h} \ {NULL}
  BY <1>5, <1>6 DEF HandlerIn
<1>8. ASSUME NEW i \in Indexes, NEW q \in Kinds, i # index \/ q # k
      PROVE  HandlerIn(d, i, q) = HandlerIn(c, i, q)
  <2>1. CASE i = index
    <3>1. q # k
      BY <1>8, <2>1
    <3> QED
      BY <1>5, <1>6, <2>1, <3>1 DEF HandlerIn
  <2>2. CASE i # index
    BY <1>2, <2>2 DEF HandlerIn, HasData
  <2> QED
    BY <2>1, <2>2
<1>9. \A i \in Indexes : HasData(c, i) <=> HasData(d, i)
  BY <1>2, <1>5 DEF HasData
<1> QED
  BY <1>2, <1>4, <1>7, <1>8, <1>9 DEF d

\* mqttClient_AddIncomingMessageHandler and mqttClient_RemoveIncomingMessageHandler.
LEMMA CommandStored ==
    ASSUME NEW c \in Client, NEW h \in Handlers \cup {NULL}
    PROVE  /\ CommandSet(c, h) \in Client /\ CommandSet(c, h).av = c.av
           /\ CommandSet(c, h).messageHandlers = c.messageHandlers
           /\ HasData(c, 1) => HasData(CommandSet(c, h), 1)
           /\ HandlerIn(CommandSet(c, h), 0, "command") = {h} \ {NULL}
           /\ c.av => HandlerIn(CommandSet(c, h), 1, "command") = {h} \ {NULL}
           /\ HandlerIn(CommandSet(c, h), 1, "install") = HandlerIn(c, 1, "install")
           /\ ~ c.av => CommandSet(c, h).userCtxData[1] = c.userCtxData[1]
<1> DEFINE av == IF c.av THEN [WithData(c, 1) EXCEPT !.userCtxData[1]["command"] = h] ELSE c
           new == [WithData(av, 0) EXCEPT !.userCtxData[0]["command"] = h]
<1>1. CommandSet(c, h) = new
  BY DEF CommandSet
<1>2. /\ av \in Client /\ av.av = c.av /\ av.messageHandlers = c.messageHandlers
      /\ HasData(c, 1) => HasData(av, 1)
      /\ c.av => HandlerIn(av, 1, "command") = {h} \ {NULL}
      /\ HandlerIn(av, 1, "install") = HandlerIn(c, 1, "install")
      /\ ~ c.av => av.userCtxData[1] = c.userCtxData[1]
  <2>1. CASE c.av
    <3>1. 1 \in Indexes /\ "command" \in Kinds /\ "install" \in Kinds
      BY DEF Indexes, Kinds
    <3> DEFINE w == WithData(c, 1)
    <3>2. /\ w \in Client /\ HasData(w, 1) /\ w.av = c.av
          /\ HasData(c, 1) => HasData(w, 1)
          /\ w.messageHandlers = c.messageHandlers
          /\ HandlerIn(w, 1, "install") = HandlerIn(c, 1, "install")
      BY <3>1, DataCreated
    <3>3. av = Stored(w, 1, "command", h)
      BY <2>1 DEF Stored
    <3> HIDE DEF av, w
    <3>4. /\ av \in Client /\ av.av = c.av /\ av.messageHandlers = c.messageHandlers
          /\ HasData(av, 1)
          /\ HandlerIn(av, 1, "command") = {h} \ {NULL}
          /\ HandlerIn(av, 1, "install") = HandlerIn(w, 1, "install")
      BY <3>1, <3>2, <3>3, HandlerStored
    <3> QED
      BY <2>1, <3>2, <3>4
  <2>2. CASE ~ c.av
    BY <2>2
  <2> QED
    BY <2>1, <2>2
<1> HIDE DEF av
<1>3. /\ WithData(av, 0) \in Client /\ HasData(WithData(av, 0), 0)
      /\ WithData(av, 0).av = c.av /\ WithData(av, 0).messageHandlers = c.messageHandlers
      /\ \A k \in Kinds : HandlerIn(WithData(av, 0), 1, k) = HandlerIn(av, 1, k)
      /\ WithData(av, 0).userCtxData[1] = av.userCtxData[1]
      /\ HasData(av, 1) => HasData(WithData(av, 0), 1)
  <2>1. 0 \in Indexes /\ 1 \in Indexes /\ 1 # 0
    BY DEF Indexes
  <2> QED
    BY <1>2, <2>1, DataCreated
<1>4. /\ new \in Client /\ new.av = c.av /\ new.messageHandlers = c.messageHandlers
      /\ HasData(av, 1) => HasData(new, 1)
      /\ HandlerIn(new, 0, "command") = {h} \ {NULL}
      /\ \A k \in Kinds : HandlerIn(new, 1, k) = HandlerIn(av, 1, k)
      /\ new.userCtxData[1] = av.userCtxData[1]
  <2>1. 0 \in Indexes /\ 1 \in Indexes /\ 1 # 0 /\ "command" \in Kinds
    BY DEF Indexes, Kinds
  <2>2. new = Stored(WithData(av, 0), 0, "command", h)
    BY DEF Stored
  <2> HIDE DEF new
  <2> QED
    BY <1>3, <2>1, <2>2, HandlerStored
<1> HIDE DEF new
<1>5. "command" \in Kinds /\ "install" \in Kinds
  BY DEF Kinds
<1> QED
  BY <1>1, <1>2, <1>4, <1>5

\* mqttClient_AddAvSoftwareInstallHandler and mqttClient_RemoveAvSoftwareInstallHandler.
LEMMA InstallStored ==
    ASSUME NEW c \in Client, NEW h \in Handlers \cup {NULL}
    PROVE  /\ InstallSet(c, h) \in Client /\ InstallSet(c, h).av = c.av
           /\ InstallSet(c, h).messageHandlers = c.messageHandlers
           /\ HasData(c, 1) => HasData(InstallSet(c, h), 1)
           /\ c.av => HandlerIn(InstallSet(c, h), 1, "install") = {h} \ {NULL}
           /\ HandlerIn(InstallSet(c, h), 0, "command") = HandlerIn(c, 0, "command")
           /\ HandlerIn(InstallSet(c, h), 1, "command") = HandlerIn(c, 1, "command")
           /\ ~ c.av => InstallSet(c, h) = c
<1> DEFINE w == WithData(c, 1)
           new == [w EXCEPT !.userCtxData[1]["install"] = h]
<1>1. CASE c.av
  <2>1. 0 \in Indexes /\ 1 \in Indexes /\ "command" \in Kinds /\ "install" \in Kinds
    BY DEF Indexes, Kinds
  <2>2. /\ w \in Client /\ HasData(w, 1) /\ w.av = c.av
        /\ w.messageHandlers = c.messageHandlers
        /\ HandlerIn(w, 0, "command") = HandlerIn(c, 0, "command")
        /\ HandlerIn(w, 1, "command") = HandlerIn(c, 1, "command")
    BY <2>1, DataCreated
  <2>3. InstallSet(c, h) = new
    BY <1>1 DEF InstallSet
  <2>4. new = Stored(w, 1, "install", h)
    BY DEF Stored
  <2> HIDE DEF w, new
  <2>5. /\ new \in Client /\ new.av = c.av /\ new.messageHandlers = c.messageHandlers
        /\ HasData(new, 1)
        /\ HandlerIn(new, 1, "install") = {h} \ {NULL}
        /\ HandlerIn(new, 0, "command") = HandlerIn(w, 0, "command")
        /\ HandlerIn(new, 1, "command") = HandlerIn(w, 1, "command")
    BY <2>1, <2>2, <2>4, HandlerStored
  <2> QED
    BY <1>1, <2>2, <2>3, <2>5
<1>2. CASE ~ c.av
  BY <1>2 DEF InstallSet
<1> QED
  BY <1>1, <1>2

\* A handler that is added is in every place it may be called from.
LEMMA AddedIsServed ==
    ASSUME NEW c \in Client, NEW reg \in Registrations, NEW cont \in BOOLEAN,
           Served(c, reg, cont), NEW k \in Kinds, NEW h \in Handlers
    PROVE  Served(HandlerSet(c, k, h), [reg EXCEPT ![k] = @ \cup {h}], cont \/ reg[k] # {})
<1> DEFINE d == HandlerSet(c, k, h)
           new == [reg EXCEPT ![k] = @ \cup {h}]
<1>1. h # NULL /\ {h} \ {NULL} = {h}
  BY NullAssumption
<1>2. CASE k = "command"
  <2>1. d = CommandSet(c, h)
    BY <1>2 DEF HandlerSet
  <2>2. /\ d.av = c.av /\ HandlerIn(d, 0, "command") = {h}
        /\ c.av => HandlerIn(d, 1, "command") = {h}
        /\ HandlerIn(d, 1, "install") = HandlerIn(c, 1, "install")
        /\ ~ c.av => d.userCtxData[1] = c.userCtxData[1]
    BY <1>1, <2>1, CommandStored
  <2>3. new["command"] = reg["command"] \cup {h} /\ new["install"] = reg["install"]
    BY <1>2 DEF Registrations, Kinds
  <2> HIDE DEF d, new
  <2>4. ~ c.av => HandlerIn(d, 1, "command") = {}
    BY <2>2 DEF Served, Owned, HandlerIn, HasData
  <2>5. Owned(d, new)
    <3>1. /\ HandlerIn(c, 1, "install") \subseteq reg["install"]
          /\ ~ c.av => c.userCtxData[1] = NULL
      BY DEF Served, Owned, Kinds
    <3>2. HandlerIn(d, 1, "command") \subseteq new["command"]
      BY <2>2, <2>3, <2>4
    <3> QED
      BY <2>2, <2>3, <3>1, <3>2 DEF Owned, Kinds
  <2>6. ASSUME ~ (cont \/ reg[k] # {}) PROVE Single(new) /\ Sole(d, new)
    <3>1. new["command"] = {h}
      BY <1>2, <2>3, <2>6
    <3>2. Single(reg) /\ Sole(c, reg)
      BY <2>6 DEF Served
    <3>3. Single(new)
      BY <2>3, <3>1, <3>2 DEF Single, Kinds
    <3>4. Sole(d, new)
      BY <2>2, <2>3, <3>1, <3>2 DEF Sole
    <3> QED
      BY <3>3, <3>4
  <2> QED
    BY <2>5, <2>6 DEF Served, d, new
<1>3. CASE k = "install"
  <2>1. d = InstallSet(c, h)
    BY <1>3 DEF HandlerSet
  <2>2. /\ d.av = c.av
        /\ c.av => HandlerIn(d, 1, "install") = {h}
        /\ HandlerIn(d, 0, "command") = HandlerIn(c, 0, "command")
        /\ HandlerIn(d, 1, "command") = HandlerIn(c, 1, "command")
        /\ ~ c.av => d = c
    BY <1>1, <2>1, InstallStored
  <2>3. new["install"] = reg["install"] \cup {h} /\ new["command"] = reg["command"]
    BY <1>3 DEF Registrations, Kinds
  <2> HIDE DEF d, new
  <2>4. ~ c.av => HandlerIn(d, 1, "install") = {} /\ d.userCtxData[1] = NULL
    BY <2>2 DEF Served, Owned, HandlerIn, HasData
  <2>5. Owned(d, new)
    BY <2>2, <2>3, <2>4 DEF Served, Owned, Kinds
  <2>6. ASSUME ~ (cont \/ reg[k] # {}) PROVE Single(new) /\ Sole(d, new)
    <3>1. new["install"] = {h}
      BY <1>3, <2>3, <2>6
    <3>2. Single(reg) /\ Sole(c, reg)
      BY <2>6 DEF Served
    <3>3. Single(new)
      BY <2>3, <3>1, <3>2 DEF Single, Kinds
    <3>4. Sole(d, new)
      BY <2>2, <2>3, <3>1, <3>2 DEF Sole
    <3> QED
      BY <3>3, <3>4
  <2> QED
    BY <2>5, <2>6 DEF Served, d, new
<1> QED
  BY <1>2, <1>3 DEF Kinds

\* A handler that is removed is in none of them, and takes nobody's place with it
\* unless there were two.
LEMMA RemovedIsNotServed ==
    ASSUME NEW c \in Client, NEW reg \in Registrations, NEW cont \in BOOLEAN,
           Served(c, reg, cont), NEW k \in Kinds, NEW h \in reg[k]
    PROVE  Served(HandlerSet(c, k, NULL), [reg EXCEPT ![k] = @ \ {h}], cont)
<1> DEFINE d == HandlerSet(c, k, NULL)
           new == [reg EXCEPT ![k] = @ \ {h}]
<1>1. CASE k = "command"
  <2>1. d = CommandSet(c, NULL)
    BY <1>1 DEF HandlerSet
  <2>2. /\ d.av = c.av /\ HandlerIn(d, 0, "command") = {}
        /\ c.av => HandlerIn(d, 1, "command") = {}
        /\ HandlerIn(d, 1, "install") = HandlerIn(c, 1, "install")
        /\ ~ c.av => d.userCtxData[1] = c.userCtxData[1]
    BY <2>1, CommandStored
  <2>3. new["command"] = reg["command"] \ {h} /\ new["install"] = reg["install"]
    BY <1>1 DEF Registrations, Kinds
  <2>4. h \in reg["command"]
    BY <1>1
  <2> HIDE DEF d, new
  <2>5. ~ c.av => HandlerIn(d, 1, "command") = {}
    BY <2>2 DEF Served, Owned, HandlerIn, HasData
  <2>6. Owned(d, new)
    <3>1. /\ HandlerIn(c, 1, "install") \subseteq reg["install"]
          /\ ~ c.av => c.userCtxData[1] = NULL
      BY DEF Served, Owned, Kinds
    <3>2. HandlerIn(d, 1, "command") \subseteq new["command"]
      BY <2>2, <2>3, <2>5
    <3> QED
      BY <2>2, <2>3, <3>1, <3>2 DEF Owned, Kinds
  <2>7. ASSUME ~ cont PROVE Single(new) /\ Sole(d, new)
    <3>1. Single(reg) /\ Sole(c, reg)
      BY <2>7 DEF Served
    <3>2. new["command"] = {}
      BY <2>3, <2>4, <3>1 DEF Single, Kinds
    <3>3. Single(new)
      BY <2>3, <3>1, <3>2 DEF Single, Kinds
    <3>4. Sole(d, new)
      BY <2>2, <2>3, <3>1, <3>2 DEF Sole
    <3> QED
      BY <3>3, <3>4
  <2> QED
    BY <2>6, <2>7 DEF Served, d, new
<1>2. CASE k = "install"
  <2>1. d = InstallSet(c, NULL)
    BY <1>2 DEF HandlerSet
  <2>2. /\ d.av = c.av
        /\ c.av => HandlerIn(d, 1, "install") = {}
        /\ HandlerIn(d, 0, "command") = HandlerIn(c, 0, "command")
        /\ HandlerIn(d, 1, "command") = HandlerIn(c, 1, "command")
        /\ ~ c.av => d = c
    BY <2>1, InstallStored
  <2>3. new["install"] = reg["install"] \ {h} /\ new["command"] = reg["command"]
    BY <1>2 DEF Registrations, Kinds
  <2>4. h \in reg["install"]
    BY <1>2
  <2> HIDE DEF d, new
  <2>5. ~ c.av => HandlerIn(d, 1, "install") = {} /\ d.userCtxData[1] = NULL
    BY <2>2 DEF Served, Owned, HandlerIn, HasData
  <2>6. Owned(d, new)
    BY <2>2, <2>3, <2>5 DEF Served, Owned, Kinds
  <2>7. ASSUME ~ cont PROVE Single(new) /\ Sole(d, new)
    <3>1. Single(reg) /\ Sole(c, reg)
      BY <2>7 DEF Served
    <3>2. new["install"] = {}
      BY <2>3, <2>4, <3>1 DEF Single, Kinds
    <3>3. Single(new)
      BY <2>3, <3>1, <3>2 DEF Single, Kinds
    <3>4. Sole(d, new)
      BY <2>2, <2>3, <3>1, <3>2 DEF Sole
    <3> QED
      BY <3>3, <3>4
  <2> QED
    BY <2>6, <2>7 DEF Served, d, new
<1> QED
  BY <1>1, <1>2 DEF Kinds

\* What is served depends on the user data alone.
LEMMA SameDataServed ==
    ASSUME NEW c, NEW d, NEW reg, NEW cont \in BOOLEAN, Served(c, reg, cont),
           d.av = c.av, d.userCtxData = c.userCtxData
    PROVE  Served(d, reg, cont)
  BY DEF Served, Owned, Sole, HandlerIn, HasData

\* Creating user data changes nothing either.
LEMMA NewDataServed ==
    ASSUME NEW c \in Client, NEW reg, NEW cont \in BOOLEAN, Served(c, reg, cont), c.av
    PROVE  Served(WithData(c, 1), reg, cont)
<1>1. 0 \in Indexes /\ 1 \in Indexes /\ "command" \in Kinds /\ "install" \in Kinds
  BY DEF Indexes, Kinds
<1> DEFINE w == WithData(c, 1)
<1>2. /\ w.av = c.av
      /\ \A i \in Indexes, k \in Kinds : HandlerIn(w, i, k) = HandlerIn(c, i, k)
  BY <1>1, DataCreated
<1> HIDE DEF w
<1>3. /\ \A k \in Kinds : HandlerIn(w, 0, k) = HandlerIn(c, 0, k)
      /\ \A k \in Kinds : HandlerIn(w, 1, k) = HandlerIn(c, 1, k)
  BY <1>1, <1>2
<1>4. Served(w, reg, cont)
  BY <1>1, <1>2, <1>3 DEF Served, Owned, Sole
<1> QED
  BY <1>4 DEF w

\* The slots that hand messages to mqtt_avOnIncomingMessage.
AvSlots(c) == {s \in Slots : c.messageHandlers[s] # NULL /\ c.messageHandlers[s].fp = "av"}

\* A subscription takes one slot, which was free.
LEMMA SlotTaken ==
    ASSUME NEW c \in Client, NEW t \in Topics \cup {TASKS}, NEW fp \in {"generic", "av"}
    PROVE  LET d == Subscribed(c, t, fp) IN
           /\ d \in Client /\ d.av = c.av /\ d.userCtxData = c.userCtxData
           /\ d.heap = c.heap /\ d.isconnected = c.isconnected
           /\ \A s \in Slots : c.messageHandlers[s] # NULL => d.messageHandlers[s] = c.messageHandlers[s]
           /\ \A s \in Slots :
                d.messageHandlers[s] # c.messageHandlers[s] =>
                  /\ c.messageHandlers[s] = NULL
                  /\ d.messageHandlers[s] = [topic |-> t, fp |-> fp]
                  /\ \A f \in Slots : c.messageHandlers[f] = NULL => s <= f
           /\ \A s \in Slots :
                c.messageHandlers[s] = NULL /\ (\A f \in Slots : c.messageHandlers[f] = NULL => s <= f)
                  => d.messageHandlers[s] = [topic |-> t, fp |-> fp]
<1> DEFINE d == Subscribed(c, t, fp)
           free == {s \in Slots : c.messageHandlers[s] = NULL}
           table == [s \in Slots |-> IF s \in free /\ \A f \in free : s <= f
                                     THEN [topic |-> t, fp |-> fp] ELSE c.messageHandlers[s]]
<1>1. d = [c EXCEPT !.messageHandlers = table]
  BY DEF Subscribed, Client
<1>2. [topic |-> t, fp |-> fp] \in Slot
  BY DEF Slot
<1>3. table \in [Slots -> Slot \cup {NULL}]
  BY <1>2 DEF Client
<1>4. /\ d \in Client /\ d.av = c.av /\ d.userCtxData = c.userCtxData
      /\ d.heap = c.heap /\ d.isconnected = c.isconnected /\ d.messageHandlers = table
  BY <1>1, <1>3 DEF Client
<1>5. \A s \in Slots : table[s] = IF s \in free /\ \A f \in free : s <= f
                                  THEN [topic |-> t, fp |-> fp] ELSE c.messageHandlers[s]
  OBVIOUS
<1> HIDE DEF d, table
<1> QED
  BY <1>4, <1>5 DEF d

\* It leaves the slots that are taken as they are.
LEMMA TakenSlotsStay ==
    ASSUME NEW c \in Client, NEW t \in Topics \cup {TASKS}, NEW fp \in {"generic", "av"}
    PROVE  \A s \in Slots : c.messageHandlers[s] # NULL =>
               Subscribed(c, t, fp).messageHandlers[s] = c.messageHandlers[s]
<1> DEFINE d == Subscribed(c, t, fp)
<1>1. \A s \in Slots : c.messageHandlers[s] # NULL => d.messageHandlers[s] = c.messageHandlers[s]
  BY SlotTaken, Zenon
<1> QED
  BY <1>1

\* It takes a slot for the tasks at most; when the table is empty it gets the first.
LEMMA AvSlotTaken ==
    ASSUME NEW c \in Client
    PROVE  LET d == Subscribed(c, TASKS, "av") IN
           /\ \E s \in Slots : AvSlots(d) \subseteq AvSlots(c) \cup {s}
           /\ c.messageHandlers = NoHandlers => Has(d, 1, TASKS, "av")
<1> DEFINE d == Subscribed(c, TASKS, "av")
           free == {s \in Slots : c.messageHandlers[s] = NULL}
<1>1. 1 \in Slots /\ Slots \subseteq Nat /\ \A s \in Slots : 1 <= s
  BY SlotsAssumption DEF Slots
<1>2. /\ \A s \in Slots :
           d.messageHandlers[s] # c.messageHandlers[s] =>
             /\ c.messageHandlers[s] = NULL
             /\ \A f \in Slots : c.messageHandlers[f] = NULL => s <= f
      /\ \A s \in Slots :
           c.messageHandlers[s] = NULL /\ (\A f \in Slots : c.messageHandlers[f] = NULL => s <= f)
             => d.messageHandlers[s] = [topic |-> TASKS, fp |-> "av"]
  BY SlotTaken, ZenonT(30)
<1> HIDE DEF d
<1>3. \E s \in Slots : AvSlots(d) \subseteq AvSlots(c) \cup {s}
  <2>1. CASE \E s \in Slots : d.messageHandlers[s] # c.messageHandlers[s]
    <3>1. PICK s \in Slots : d.messageHandlers[s] # c.messageHandlers[s]
      BY <2>1
    <3>2. \A q \in Slots : d.messageHandlers[q] # c.messageHandlers[q] => q = s
      <4> SUFFICES ASSUME NEW q \in Slots, d.messageHandlers[q] # c.messageHandlers[q]
                   PROVE q = s
        OBVIOUS
      <4>1. s <= q /\ q <= s
        BY <1>2, <3>1
      <4> QED
        BY <1>1, <4>1
    <3>3. AvSlots(d) \subseteq AvSlots(c) \cup {s}
      BY <3>2 DEF AvSlots
    <3> QED
      BY <3>3
  <2>2. CASE \A s \in Slots : d.messageHandlers[s] = c.messageHandlers[s]
    <3>1. AvSlots(d) \subseteq AvSlots(c) \cup {1}
      BY <2>2 DEF AvSlots
    <3> QED
      BY <1>1, <3>1
  <2> QED
    BY <2>1, <2>2
<1>4. ASSUME c.messageHandlers = NoHandlers PROVE Has(d, 1, TASKS, "av")
  BY <1>1, <1>2, <1>4 DEF NoHandlers, Has
<1> QED
  BY <1>3, <1>4 DEF d

\* Unsubscribing clears a slot of its topic and no other.
LEMMA SlotCleared ==
    ASSUME NEW c \in Client, NEW t
    PROVE  LET d == Unsubscribed(c, t) IN
           /\ d \in Client /\ d.av = c.av /\ d.userCtxData = c.userCtxData
           /\ d.heap = c.heap /\ d.isconnected = c.isconnected
           /\ \A s \in Slots : \/ d.messageHandlers[s] = c.messageHandlers[s]
                               \/ d.messageHandlers[s] = NULL /\ c.messageHandlers[s] # NULL
                                    /\ c.messageHandlers[s].topic = t
<1> DEFINE d == Unsubscribed(c, t)
           mine == {s \in Slots : c.messageHandlers[s] # NULL /\ c.messageHandlers[s].topic = t}
           table == [s \in Slots |-> IF s \in mine /\ \A m \in mine : s <= m
                                     THEN NULL ELSE c.messageHandlers[s]]
<1>1. d = [c EXCEPT !.messageHandlers = table]
  BY DEF Unsubscribed, Client
<1>2. table \in [Slots -> Slot \cup {NULL}]
  BY DEF Client
<1>3. /\ d \in Client /\ d.av = c.av /\ d.userCtxData = c.userCtxData
      /\ d.heap = c.heap /\ d.isconnected = c.isconnected /\ d.messageHandlers = table
  BY <1>1, <1>2 DEF Client
<1>4. \A s \in Slots : table[s] = IF s \in mine /\ \A m \in mine : s <= m
                                  THEN NULL ELSE c.messageHandlers[s]
  OBVIOUS
<1> HIDE DEF d, table
<1> QED
  BY <1>3, <1>4 DEF d

\* Setting a handler leaves the table alone, and never loses user data.
LEMMA HandlerSetType ==
    ASSUME NEW c \in Client, NEW k \in Kinds, NEW h \in Handlers \cup {NULL}
    PROVE  LET d == HandlerSet(c, k, h) IN
           /\ d \in Client /\ d.av = c.av /\ d.messageHandlers = c.messageHandlers
           /\ HasData(c, 1) => HasData(d, 1)
  BY CommandStored, InstallStored DEF HandlerSet

-----------------------------------------------------------------------------
(* Types                                                                     *)

Types ==
    /\ clients \in [Refs -> Client \cup {NULL}]
    /\ used \in SUBSET Refs
    /\ call \in CallsInProgress
    /\ call # Idle => clients[call.ref] # NULL
    /\ registered \in [Refs -> Registrations]
    /\ contested \in SUBSET Refs
    /\ granted \in SUBSET Refs
    /\ event \in Events

\* A call in progress is of a client.
LEMMA CallTypes ==
    ASSUME Types, call # Idle
    PROVE  /\ call.ref \in Refs /\ clients[call.ref] \in Client
           /\ call.kind \in {"session"} \cup Kinds
           /\ call.kind # "session" => call.kind \in Kinds /\ call.handler \in Handlers
<1>1. call \in [ref : Refs, kind : {"session"}, handler : {NULL}]
        \/ call \in [ref : Refs, kind : Kinds, handler : Handlers]
  BY DEF Types, CallsInProgress
<1>2. call.ref \in Refs /\ clients[call.ref] # NULL
  BY <1>1 DEF Types
<1>3. clients[call.ref] \in Client
  BY <1>2 DEF Types
<1> QED
  BY <1>1, <1>2, <1>3

\* What says that no message came is an event.
LEMMA NoEventType == NoEvent \in Events
<1>1. 0 \in 0 .. MAX_MESSAGE_HANDLERS
  BY SlotsAssumption
<1> QED
  BY <1>1 DEF NoEvent, Events

\* A call that subscribes to the tasks is a call in progress, of its reference.
LEMMA SubscribingTypes ==
    /\ \A r \in Refs : Subscribing(r, "session", NULL) \in CallsInProgress
    /\ \A r \in Refs, k \in Kinds, h \in Handlers : Subscribing(r, k, h) \in CallsInProgress
    /\ \A r, k, h : Subscribing(r, k, h).ref = r
  BY DEF Subscribing, CallsInProgress

\* The slots are finitely many, and the acknowledgements of a message no more.
LEMMA SlotsCounted ==
    ASSUME NEW S \in SUBSET Slots
    PROVE  IsFiniteSet(S) /\ Cardinality(S) \in 0 .. MAX_MESSAGE_HANDLERS
<1>1. IsFiniteSet(Slots) /\ Cardinality(Slots) = MAX_MESSAGE_HANDLERS
  BY SlotsAssumption, FS_Interval DEF Slots
<1>2. IsFiniteSet(S) /\ Cardinality(S) <= Cardinality(Slots)
  BY <1>1, FS_Subset
<1>3. Cardinality(S) \in Nat
  BY <1>2, FS_CardinalityType
<1> QED
  BY <1>1, <1>2, <1>3, SlotsAssumption

\* A client that is replaced leaves the others as they are.
LEMMA Replaced ==
    ASSUME Types, NEW r \in Refs, NEW d \in Client \cup {NULL},
           clients' = [clients EXCEPT ![r] = d]
    PROVE  /\ clients' \in [Refs -> Client \cup {NULL}]
           /\ clients'[r] = d
           /\ \A q \in Refs : q # r => clients'[q] = clients[q]
  BY DEF Types

\* A session that ends has a client still: without a connection, and with the table it
\* had or an empty one.
LEMMA EndedTypes ==
    ASSUME NEW c \in Client
    PROVE  /\ [c EXCEPT !.isconnected = FALSE] \in Client
           /\ Disconnected(c) \in Client
           /\ Disconnected(c).av = c.av /\ Disconnected(c).heap = c.heap
           /\ Disconnected(c).userCtxData = c.userCtxData
           /\ Disconnected(c).messageHandlers \in {c.messageHandlers, NoHandlers}
<1>1. NoHandlers \in [Slots -> Slot \cup {NULL}]
  BY DEF NoHandlers
<1> QED
  BY <1>1 DEF Client, Disconnected

\* The types hold at the start ...
LEMMA InitTypes == ASSUME Init PROVE Types
<1>1. Idle \in CallsInProgress
  BY DEF CallsInProgress
<1>2. [r \in Refs |-> [k \in Kinds |-> {}]] \in [Refs -> Registrations]
  BY DEF Registrations
<1> QED
  BY <1>1, <1>2, NoEventType DEF Init, Types

\* ... and each action keeps them.
LEMMA TypesStep == ASSUME Types, [Next]_vars PROVE Types'
<1>1. ASSUME NEW r \in Refs, NEW b \in BOOLEAN, Create(r, b) PROVE Types'
  <2> DEFINE c == [av |-> b, isconnected |-> FALSE, messageHandlers |-> NoHandlers,
                   userCtxData |-> [index \in Indexes |-> NULL], heap |-> 0]
  <2>1. c \in Client
    BY DEF Client, NoHandlers
  <2>2. clients' = [clients EXCEPT ![r] = c] /\ call = Idle /\ UNCHANGED call
    BY <1>1 DEF Create
  <2> HIDE DEF c
  <2> QED
    BY <1>1, <2>1, <2>2, Replaced, NoEventType DEF Create, Types
<1>2. ASSUME NEW r \in Refs, Delete(r) PROVE Types'
  <2>1. clients' = [clients EXCEPT ![r] = NULL] /\ call = Idle /\ UNCHANGED call
    BY <1>2 DEF Delete, Calls
  <2> QED
    BY <1>2, <2>1, Replaced, NoEventType DEF Delete, Types
<1>3. ASSUME NEW r \in Refs, StartSession(r) PROVE Types'
  <2>1. PICK up \in BOOLEAN :
           /\ clients' = [clients EXCEPT ![r].isconnected = up, ![r].messageHandlers = NoHandlers]
           /\ call' = IF up /\ clients[r].av THEN Subscribing(r, "session", NULL) ELSE Idle
    BY <1>3 DEF StartSession
  <2> DEFINE d == [clients[r] EXCEPT !.isconnected = up, !.messageHandlers = NoHandlers]
  <2>2. clients[r] \in Client
    BY <1>3 DEF StartSession, Calls, Types
  <2>3. d \in Client
    BY <2>2 DEF Client, NoHandlers
  <2>4. clients' = [clients EXCEPT ![r] = d]
    BY <2>1 DEF Types
  <2>5. d # NULL
    BY <2>3, NullAssumption
  <2> HIDE DEF d
  <2>6. call' \in CallsInProgress /\ (call' # Idle => clients'[call'.ref] # NULL)
    <3>1. Idle \in CallsInProgress
      BY DEF CallsInProgress
    <3>2. clients'[r] # NULL
      BY <2>3, <2>4, <2>5, Replaced
    <3>3. CASE up /\ clients[r].av
      <4>1. call' = Subscribing(r, "session", NULL)
        BY <2>1, <3>3
      <4>2. call' \in CallsInProgress /\ call'.ref = r
        BY <4>1, SubscribingTypes
      <4> QED
        BY <3>2, <4>2
    <3>4. CASE ~ (up /\ clients[r].av)
      BY <2>1, <3>1, <3>4
    <3> QED
      BY <3>3, <3>4
  <2> QED
    BY <1>3, <2>3, <2>4, <2>6, Replaced, NoEventType DEF StartSession, Types
<1>4. ASSUME NEW r \in Refs, StopSession(r) \/ ConnectionLost(r) PROVE Types'
  <2>1. clients[r] \in Client
    BY <1>4 DEF StopSession, ConnectionLost, Calls, Types
  <2>2. PICK d \in Client : clients' = [clients EXCEPT ![r] = d]
    BY <1>4, <2>1, EndedTypes DEF StopSession, ConnectionLost, Types
  <2>3. d # NULL
    BY NullAssumption
  <2>4. /\ UNCHANGED <<used, call, registered, contested>> /\ event' = NoEvent
        /\ granted' \in SUBSET Refs
    BY <1>4 DEF StopSession, ConnectionLost, Types
  <2>5. call # Idle => clients'[call.ref] # NULL
    BY <2>2, <2>3, Replaced, CallTypes DEF Types
  <2> QED
    BY <2>2, <2>3, <2>4, <2>5, Replaced, NoEventType DEF Types
<1>5. ASSUME NEW r \in Refs, NEW t \in Topics \cup {TASKS}, Subscribe(r, t) \/ Unsubscribe(r, t)
      PROVE  Types'
  <2>1. clients[r] \in Client
    BY <1>5 DEF Subscribe, Unsubscribe, Calls, Types
  <2>2. PICK d \in Client : clients' = [clients EXCEPT ![r] = d]
    <3>1. CASE Subscribe(r, t)
      <4>1. Subscribed(clients[r], t, "generic") \in Client
        BY <2>1, SlotTaken
      <4> QED
        BY <3>1, <4>1 DEF Subscribe
    <3>2. CASE Unsubscribe(r, t)
      <4>1. Unsubscribed(clients[r], t) \in Client
        BY <2>1, SlotCleared
      <4> QED
        BY <3>2, <4>1 DEF Unsubscribe
    <3> QED
      BY <1>5, <3>1, <3>2
  <2>3. /\ UNCHANGED <<used, call, registered, contested>> /\ event' = NoEvent /\ call = Idle
        /\ granted' \in SUBSET Refs
    BY <1>5 DEF Subscribe, Unsubscribe, Calls, Types
  <2> QED
    BY <2>2, <2>3, Replaced, NoEventType DEF Types
<1>6. ASSUME NEW r \in Refs, NEW k \in Kinds, NEW h \in Handlers, AddHandler(r, k, h) PROVE Types'
  <2>1. clients[r] \in Client
    BY <1>6 DEF AddHandler, Calls, Types
  <2>2. HandlerSet(clients[r], k, h) \in Client
    BY <2>1, HandlerSetType
  <2>3. clients' = [clients EXCEPT ![r] = HandlerSet(clients[r], k, h)]
    BY <1>6 DEF AddHandler
  <2>4. /\ UNCHANGED <<used, call, granted>> /\ event' = NoEvent /\ call = Idle
        /\ registered' \in [Refs -> Registrations] /\ contested' \in SUBSET Refs
    BY <1>6 DEF AddHandler, Calls, Registers, Types, Registrations
  <2> QED
    BY <2>2, <2>3, <2>4, Replaced, NoEventType DEF Types
<1>7. ASSUME NEW r \in Refs, NEW k \in Kinds, NEW h \in Handlers, AddFirstHandler(r, k, h)
      PROVE  Types'
  <2>1. clients[r] \in Client
    BY <1>7 DEF AddFirstHandler, Calls, Types
  <2>2. WithData(clients[r], 1) \in Client /\ WithData(clients[r], 1) # NULL
    BY <2>1, DataCreated, NullAssumption DEF Indexes
  <2>3. clients' = [clients EXCEPT ![r] = WithData(clients[r], 1)] /\ call' = Subscribing(r, k, h)
    BY <1>7 DEF AddFirstHandler
  <2>4. UNCHANGED <<used, registered, contested, granted>> /\ event' = NoEvent
    BY <1>7 DEF AddFirstHandler
  <2>5. call' \in CallsInProgress /\ clients'[call'.ref] # NULL
    <3>1. clients'[r] # NULL
      BY <2>2, <2>3, Replaced
    <3>2. call' \in CallsInProgress /\ call'.ref = r
      BY <2>3, SubscribingTypes
    <3> QED
      BY <3>1, <3>2
  <2> QED
    BY <2>2, <2>3, <2>4, <2>5, Replaced, NoEventType DEF Types
<1>8. ASSUME TasksAnswered PROVE Types'
  <2> DEFINE r == call.ref
  <2>1. /\ r \in Refs /\ clients[r] \in Client /\ call # Idle
        /\ call.kind # "session" => call.kind \in Kinds /\ call.handler \in Handlers
    BY <1>8, CallTypes DEF TasksAnswered
  <2>2. PICK ok \in BOOLEAN :
          LET c == IF ok THEN Subscribed(clients[r], TASKS, "av") ELSE clients[r] IN
          /\ ok => clients[r].isconnected
          /\ IF call.kind = "session"
             THEN /\ clients' = [clients EXCEPT ![r] = c]
                  /\ granted' = IF ok THEN granted \cup {r} ELSE granted
                  /\ UNCHANGED <<registered, contested>>
             ELSE /\ clients' = [clients EXCEPT ![r] = HandlerSet(c, call.kind, call.handler)]
                  /\ Registers(r, call.kind, call.handler)
                  /\ UNCHANGED granted
    BY <1>8 DEF TasksAnswered
  <2> DEFINE c == IF ok THEN Subscribed(clients[r], TASKS, "av") ELSE clients[r]
             d == IF call.kind = "session" THEN c ELSE HandlerSet(c, call.kind, call.handler)
  <2>3. c \in Client
    BY <2>1, SlotTaken
  <2>4. d \in Client
    BY <2>1, <2>3, HandlerSetType
  <2>5. clients' = [clients EXCEPT ![r] = d]
    BY <2>2 
  <2>6. /\ UNCHANGED used /\ event' = NoEvent /\ call' = Idle
        /\ registered' \in [Refs -> Registrations] /\ contested' \in SUBSET Refs
        /\ granted' \in SUBSET Refs
    BY <1>8, <2>1, <2>2 DEF TasksAnswered, Registers, Types, Registrations
  <2>7. Idle \in CallsInProgress
    BY DEF CallsInProgress
  <2> HIDE DEF d, c
  <2>8. clients' \in [Refs -> Client \cup {NULL}]
    BY <2>1, <2>4, <2>5, Replaced
  <2> QED
    BY <2>6, <2>7, <2>8, NoEventType DEF Types
<1>9. ASSUME NEW r \in Refs, NEW k \in Kinds, NEW h \in Handlers, RemoveHandler(r, k, h)
      PROVE  Types'
  <2>1. /\ UNCHANGED <<used, call, contested, granted>> /\ event' = NoEvent /\ call = Idle
        /\ registered' \in [Refs -> Registrations]
    BY <1>9 DEF RemoveHandler, Types, Registrations
  <2>2. clients' \in [Refs -> Client \cup {NULL}]
    <3>1. CASE clients[r] = NULL
      BY <1>9, <3>1 DEF RemoveHandler, Types
    <3>2. CASE clients[r] # NULL
      <4>1. clients[r] \in Client
        BY <3>2 DEF Types
      <4>2. HandlerSet(clients[r], k, NULL) \in Client
        BY <4>1, HandlerSetType
      <4>3. clients' = [clients EXCEPT ![r] = HandlerSet(clients[r], k, NULL)]
        BY <1>9, <3>2 DEF RemoveHandler
      <4> QED
        BY <4>2, <4>3, Replaced
    <3> QED
      BY <3>1, <3>2
  <2> QED
    BY <2>1, <2>2, NoEventType DEF Types
<1>10. ASSUME NEW r \in Refs, NEW t \in Topics \cup {TASKS}, NEW k \in {"message"} \cup Kinds,
              Message(r, t, k)
       PROVE  Types'
  <2>1. clients[r] \in Client
    BY <1>10 DEF Message, Types
  <2> DEFINE tasks == {s \in Slots : Has(clients[r], s, t, "av")}
  <2>2. PICK acks \in 0 .. (IF k = "command" THEN Cardinality(tasks) ELSE 0) :
           event' = [ref |-> r, topic |-> t, kind |-> k,
                     calls |-> Called(clients[r], t, k), acks |-> acks]
    BY <1>10 DEF Message
  <2>3. acks \in 0 .. MAX_MESSAGE_HANDLERS
    <3>1. Cardinality(tasks) \in 0 .. MAX_MESSAGE_HANDLERS
      BY SlotsCounted
    <3> QED
      BY <2>2, <3>1, SlotsAssumption
  <2>4. Called(clients[r], t, k) \in SUBSET Handlers
    <3>1. \A i \in Indexes, q \in Kinds : HandlerIn(clients[r], i, q) \in SUBSET Handlers
      BY <2>1 DEF HandlerIn, HasData, Client, CtxData, Kinds
    <3> QED
      BY <3>1 DEF Called, Indexes, Kinds
  <2>5. event' \in Events
    BY <2>2, <2>3, <2>4 DEF Events
  <2> QED
    BY <1>10, <2>5 DEF Message, Types
<1>11. ASSUME NEW r \in Refs, Fault(r) PROVE Types'
  BY <1>11 DEF Fault, Types, vars
<1>12. CASE UNCHANGED vars
  BY <1>12 DEF Types, vars
<1> QED
  BY <1>1, <1>2, <1>3, <1>4, <1>5, <1>6, <1>7, <1>8, <1>9, <1>10, <1>11, <1>12 DEF Next

-----------------------------------------------------------------------------
(* What a step makes of the client it is about                               *)

\* A session that starts clears the table and keeps the user data.
LEMMA StartChanges ==
    ASSUME Types, NEW r \in Refs, StartSession(r)
    PROVE  \E d \in Client : /\ clients' = [clients EXCEPT ![r] = d]
                             /\ d.av = clients[r].av /\ d.userCtxData = clients[r].userCtxData
                             /\ d.heap = clients[r].heap
                             /\ d.messageHandlers = NoHandlers
<1>1. PICK up \in BOOLEAN :
         clients' = [clients EXCEPT ![r].isconnected = up, ![r].messageHandlers = NoHandlers]
  BY DEF StartSession
<1> DEFINE d == [clients[r] EXCEPT !.isconnected = up, !.messageHandlers = NoHandlers]
<1>2. clients[r] \in Client
  BY DEF StartSession, Calls, Types
<1>3. /\ d \in Client /\ d.av = clients[r].av /\ d.userCtxData = clients[r].userCtxData
      /\ d.messageHandlers = NoHandlers /\ d.heap = clients[r].heap
  BY <1>2 DEF Client, NoHandlers
<1>4. clients' = [clients EXCEPT ![r] = d]
  BY <1>1 DEF Types
<1> QED
  BY <1>3, <1>4

\* A session that ends keeps the user data, and the table unless it was stopped.
LEMMA DownChanges ==
    ASSUME Types, NEW r \in Refs, StopSession(r) \/ ConnectionLost(r)
    PROVE  \E d \in Client : /\ clients' = [clients EXCEPT ![r] = d]
                             /\ d.av = clients[r].av /\ d.userCtxData = clients[r].userCtxData
                             /\ d.heap = clients[r].heap
                             /\ \/ d.messageHandlers = clients[r].messageHandlers
                                \/ StopSession(r) /\ d.messageHandlers = NoHandlers
<1>1. clients[r] \in Client
  BY DEF StopSession, ConnectionLost, Calls, Types
<1>2. CASE StopSession(r)
  <2>1. clients' = [clients EXCEPT ![r] = Disconnected(clients[r])]
    BY <1>2 DEF StopSession
  <2> QED
    BY <1>1, <1>2, <2>1, EndedTypes
<1>3. CASE ConnectionLost(r)
  <2> DEFINE d == [clients[r] EXCEPT !.isconnected = FALSE]
  <2>1. /\ d \in Client /\ d.av = clients[r].av /\ d.userCtxData = clients[r].userCtxData
        /\ d.heap = clients[r].heap /\ d.messageHandlers = clients[r].messageHandlers
    BY <1>1 DEF Client
  <2>2. clients' = [clients EXCEPT ![r] = d]
    BY <1>3 DEF ConnectionLost, Types
  <2> QED
    BY <2>1, <2>2
<1> QED
  BY <1>2, <1>3

\* What the application subscribes to takes no slot for the tasks, and what it
\* unsubscribes from none of another topic.
LEMMA TableChanges ==
    ASSUME Types, NEW r \in Refs, NEW t \in Topics \cup {TASKS}, Subscribe(r, t) \/ Unsubscribe(r, t)
    PROVE  \E d \in Client : /\ clients' = [clients EXCEPT ![r] = d]
                             /\ d.av = clients[r].av /\ d.userCtxData = clients[r].userCtxData
                             /\ d.heap = clients[r].heap
                             /\ AvSlots(d) \subseteq AvSlots(clients[r])
                             /\ \A s \in Slots : Has(clients[r], s, TASKS, "av") =>
                                    Has(d, s, TASKS, "av") \/ (Unsubscribe(r, t) /\ t = TASKS)
<1>1. clients[r] \in Client
  BY DEF Subscribe, Unsubscribe, Calls, Types
<1>2. CASE Subscribe(r, t)
  <2> DEFINE d == Subscribed(clients[r], t, "generic")
  <2>1. clients' = [clients EXCEPT ![r] = d]
    BY <1>2 DEF Subscribe
  <2>2. /\ d \in Client /\ d.heap = clients[r].heap /\ d.av = clients[r].av /\ d.userCtxData = clients[r].userCtxData
        /\ \A s \in Slots : clients[r].messageHandlers[s] # NULL =>
             d.messageHandlers[s] = clients[r].messageHandlers[s]
        /\ \A s \in Slots : d.messageHandlers[s] # clients[r].messageHandlers[s] =>
             d.messageHandlers[s] = [topic |-> t, fp |-> "generic"]
    BY <1>1, SlotTaken
  <2> HIDE DEF d
  <2>3. AvSlots(d) \subseteq AvSlots(clients[r])
    BY <2>2 DEF AvSlots
  <2>4. [topic |-> TASKS, fp |-> "av"] # NULL
    BY NullAssumption DEF Slot
  <2>5. \A s \in Slots : Has(clients[r], s, TASKS, "av") => Has(d, s, TASKS, "av")
    BY <2>2, <2>4 DEF Has
  <2> QED
    BY <2>1, <2>2, <2>3, <2>5
<1>3. CASE Unsubscribe(r, t)
  <2> DEFINE d == Unsubscribed(clients[r], t)
  <2>1. clients' = [clients EXCEPT ![r] = d]
    BY <1>3 DEF Unsubscribe
  <2>2. /\ d \in Client /\ d.heap = clients[r].heap /\ d.av = clients[r].av /\ d.userCtxData = clients[r].userCtxData
        /\ \A s \in Slots : \/ d.messageHandlers[s] = clients[r].messageHandlers[s]
                            \/ d.messageHandlers[s] = NULL /\ clients[r].messageHandlers[s] # NULL
                                 /\ clients[r].messageHandlers[s].topic = t
    BY <1>1, SlotCleared
  <2> HIDE DEF d
  <2>3. AvSlots(d) \subseteq AvSlots(clients[r])
    BY <2>2 DEF AvSlots
  <2>4. ASSUME t # TASKS PROVE \A s \in Slots : Has(clients[r], s, TASKS, "av") => Has(d, s, TASKS, "av")
    BY <2>2, <2>4 DEF Has
  <2> QED
    BY <1>3, <2>1, <2>2, <2>3, <2>4
<1> QED
  BY <1>2, <1>3

-----------------------------------------------------------------------------
(* Handlers                                                                  *)

\* A reference that was not handed out has no client and no handlers.
ServedInv ==
    \A r \in Refs :
      /\ r \notin used => clients[r] = NULL /\ \A k \in Kinds : registered[r][k] = {}
      /\ clients[r] # NULL => Served(clients[r], registered[r], r \in contested)

\* A step about one client leaves the handlers of the others where they are.
LEMMA ServedReplaced ==
    ASSUME Types, ServedInv, NEW r \in Refs, NEW d \in Client \cup {NULL},
           clients' = [clients EXCEPT ![r] = d],
           used' = used \cup {r},
           \A q \in Refs : q # r => /\ registered'[q] = registered[q]
                                    /\ q \in contested' <=> q \in contested,
           d # NULL => Served(d, registered'[r], r \in contested')
    PROVE  ServedInv'
<1>1. clients'[r] = d /\ \A q \in Refs : q # r => clients'[q] = clients[q]
  BY Replaced
<1>2. ASSUME NEW q \in Refs
      PROVE  /\ q \notin used' => clients'[q] = NULL /\ \A k \in Kinds : registered'[q][k] = {}
             /\ clients'[q] # NULL => Served(clients'[q], registered'[q], q \in contested')
  <2>1. CASE q = r
    BY <1>1, <2>1
  <2>2. CASE q # r
    <3>1. (q \in contested') = (q \in contested)
      BY <2>2
    <3>2. clients'[q] = clients[q] /\ registered'[q] = registered[q]
      BY <1>1, <2>2
    <3>3. /\ q \notin used => clients[q] = NULL /\ \A k \in Kinds : registered[q][k] = {}
          /\ clients[q] # NULL => Served(clients[q], registered[q], q \in contested)
      BY DEF ServedInv
    <3> QED
      BY <2>2, <3>1, <3>2, <3>3
  <2> QED
    BY <2>1, <2>2
<1> QED
  BY <1>2 DEF ServedInv

\* A client that exists has a reference that was handed out.
LEMMA ClientIsUsed ==
    ASSUME ServedInv, NEW r \in Refs, clients[r] # NULL
    PROVE  used = used \cup {r} /\ Served(clients[r], registered[r], r \in contested)
  BY DEF ServedInv

\* A new client has no handler, and none was added to it.
LEMMA CreatedIsServed ==
    ASSUME NEW c \in Client, \A i \in Indexes : c.userCtxData[i] = NULL,
           NEW reg \in Registrations, \A k \in Kinds : reg[k] = {}, NEW cont \in BOOLEAN
    PROVE  Served(c, reg, cont)
<1>1. 1 \in Indexes
  BY DEF Indexes
<1>2. \A i \in Indexes, k \in Kinds : HandlerIn(c, i, k) = {}
  BY DEF HandlerIn, HasData
<1>3. Owned(c, reg)
  BY <1>1, <1>2 DEF Owned, Indexes, Kinds
<1>4. Single(reg) /\ Sole(c, reg)
  BY DEF Single, Sole, Kinds
<1> QED
  BY <1>3, <1>4 DEF Served

\* Adding a handler.
LEMMA RegisteredIsServed ==
    ASSUME Types, ServedInv, NEW r \in Refs, NEW k \in Kinds, NEW h \in Handlers,
           NEW c \in Client, clients[r] # NULL,
           c.av = clients[r].av, c.userCtxData = clients[r].userCtxData,
           clients' = [clients EXCEPT ![r] = HandlerSet(c, k, h)], Registers(r, k, h), UNCHANGED used
    PROVE  ServedInv'
<1> DEFINE d == HandlerSet(c, k, h)
           cont == (r \in contested)
<1>1. d \in Client
  BY HandlerSetType
<1>2. clients' = [clients EXCEPT ![r] = d]
  OBVIOUS
<1>3. used' = used \cup {r} /\ Served(clients[r], registered[r], cont)
  BY ClientIsUsed
<1>11. cont \in BOOLEAN
  OBVIOUS
<1> HIDE DEF cont
<1>4. Served(c, registered[r], cont)
  BY <1>3, <1>11, SameDataServed
<1>5. registered[r] \in Registrations
  BY DEF Types
<1>6. Served(d, [registered[r] EXCEPT ![k] = @ \cup {h}], cont \/ registered[r][k] # {})
  BY <1>4, <1>5, <1>11, AddedIsServed
<1>7. registered'[r] = [registered[r] EXCEPT ![k] = @ \cup {h}]
  BY DEF Registers, Types
<1>8. (r \in contested') = (cont \/ registered[r][k] # {})
  BY DEF Registers, cont
<1>9. \A q \in Refs : q # r => /\ registered'[q] = registered[q]
                               /\ q \in contested' <=> q \in contested
  BY DEF Registers, Types
<1>10. Served(d, registered'[r], r \in contested')
  BY <1>6, <1>7, <1>8
<1> HIDE DEF d
<1> QED
  BY <1>1, <1>2, <1>3, <1>9, <1>10, ServedReplaced

\* A step that leaves the user data and the registrations alone.
LEMMA QuietIsServed ==
    ASSUME Types, ServedInv, NEW r \in Refs, clients[r] # NULL, NEW d \in Client,
           clients' = [clients EXCEPT ![r] = d],
           d.av = clients[r].av, d.userCtxData = clients[r].userCtxData,
           UNCHANGED <<used, registered, contested>>
    PROVE  ServedInv'
<1> DEFINE cont == (r \in contested)
<1>1. used' = used \cup {r} /\ Served(clients[r], registered[r], cont)
  BY ClientIsUsed
<1>2. cont \in BOOLEAN
  OBVIOUS
<1> HIDE DEF cont
<1>3. Served(d, registered[r], cont)
  BY <1>1, <1>2, SameDataServed
<1>4. Served(d, registered'[r], r \in contested')
  BY <1>3 DEF cont
<1> QED
  BY <1>1, <1>4, ServedReplaced

\* Each action keeps the handlers where they are.
LEMMA ServedStep == ASSUME Types, ServedInv, [Next]_vars PROVE ServedInv'
<1>1. ASSUME NEW r \in Refs, NEW b \in BOOLEAN, Create(r, b) PROVE ServedInv'
  <2> DEFINE c == [av |-> b, isconnected |-> FALSE, messageHandlers |-> NoHandlers,
                   userCtxData |-> [index \in Indexes |-> NULL], heap |-> 0]
             cont == (r \in contested)
  <2>1. c \in Client /\ \A i \in Indexes : c.userCtxData[i] = NULL
    BY DEF Client, NoHandlers
  <2>2. clients' = [clients EXCEPT ![r] = c]
    BY <1>1 DEF Create
  <2>3. UNCHANGED <<registered, contested>> /\ used' = used \cup {r} /\ r \notin used
    BY <1>1 DEF Create
  <2>4. registered[r] \in Registrations /\ \A k \in Kinds : registered[r][k] = {}
    BY <2>3 DEF Types, ServedInv
  <2>5. cont \in BOOLEAN
    OBVIOUS
  <2> HIDE DEF c, cont
  <2>6. Served(c, registered[r], cont)
    BY <2>1, <2>4, <2>5, CreatedIsServed
  <2>7. Served(c, registered'[r], r \in contested')
    BY <2>3, <2>6 DEF cont
  <2> QED
    BY <2>1, <2>2, <2>3, <2>7, ServedReplaced
<1>2. ASSUME NEW r \in Refs, Delete(r) PROVE ServedInv'
  <2>1. /\ clients' = [clients EXCEPT ![r] = NULL] /\ clients[r] # NULL
        /\ UNCHANGED <<used, registered, contested>>
    BY <1>2 DEF Delete, Calls
  <2>2. used' = used \cup {r}
    BY <2>1, ClientIsUsed
  <2> QED
    BY <2>1, <2>2, ServedReplaced
<1>3. ASSUME NEW r \in Refs, StartSession(r) PROVE ServedInv'
  <2>1. clients[r] # NULL /\ UNCHANGED <<used, registered, contested>>
    BY <1>3 DEF StartSession, Calls
  <2> QED
    BY <1>3, <2>1, StartChanges, QuietIsServed
<1>4. ASSUME NEW r \in Refs, StopSession(r) \/ ConnectionLost(r) PROVE ServedInv'
  <2>1. clients[r] # NULL /\ UNCHANGED <<used, registered, contested>>
    BY <1>4 DEF StopSession, ConnectionLost, Calls
  <2> QED
    BY <1>4, <2>1, DownChanges, QuietIsServed
<1>5. ASSUME NEW r \in Refs, NEW t \in Topics \cup {TASKS}, Subscribe(r, t) \/ Unsubscribe(r, t)
      PROVE  ServedInv'
  <2>1. clients[r] # NULL /\ UNCHANGED <<used, registered, contested>>
    BY <1>5 DEF Subscribe, Unsubscribe, Calls
  <2> QED
    BY <1>5, <2>1, TableChanges, QuietIsServed
<1>6. ASSUME NEW r \in Refs, NEW k \in Kinds, NEW h \in Handlers, AddHandler(r, k, h)
      PROVE  ServedInv'
  <2>1. /\ clients[r] # NULL /\ UNCHANGED used
        /\ clients' = [clients EXCEPT ![r] = HandlerSet(clients[r], k, h)] /\ Registers(r, k, h)
    BY <1>6 DEF AddHandler, Calls
  <2>2. clients[r] \in Client
    BY <2>1 DEF Types
  <2> QED
    BY <2>1, <2>2, RegisteredIsServed
<1>7. ASSUME NEW r \in Refs, NEW k \in Kinds, NEW h \in Handlers, AddFirstHandler(r, k, h)
      PROVE  ServedInv'
  <2> DEFINE d == WithData(clients[r], 1)
             cont == (r \in contested)
  <2>1. /\ clients[r] # NULL /\ clients[r].av /\ UNCHANGED <<used, registered, contested>>
        /\ clients' = [clients EXCEPT ![r] = d]
    BY <1>7 DEF AddFirstHandler, Calls, SubscribesFirst
  <2>2. clients[r] \in Client
    BY <2>1 DEF Types
  <2>3. d \in Client
    BY <2>2, DataCreated DEF Indexes
  <2>4. used' = used \cup {r} /\ Served(clients[r], registered[r], cont)
    BY <2>1, ClientIsUsed
  <2>5. cont \in BOOLEAN
    OBVIOUS
  <2> HIDE DEF cont
  <2>6. Served(d, registered[r], cont)
    BY <2>1, <2>2, <2>4, <2>5, NewDataServed
  <2> HIDE DEF d
  <2>7. Served(d, registered'[r], r \in contested')
    BY <2>1, <2>6 DEF cont
  <2> QED
    BY <2>1, <2>3, <2>4, <2>7, ServedReplaced
<1>8. ASSUME TasksAnswered PROVE ServedInv'
  <2>1. PICK r \in Refs : r = call.ref /\ clients[r] \in Client
    BY <1>8, CallTypes DEF TasksAnswered
  <2>2. call.kind # "session" => call.kind \in Kinds /\ call.handler \in Handlers
    BY <1>8, CallTypes DEF TasksAnswered
  <2>3. clients[r] # NULL
    BY <2>1, NullAssumption
  <2>4. PICK c \in Client :
          /\ c.av = clients[r].av /\ c.userCtxData = clients[r].userCtxData
          /\ IF call.kind = "session"
             THEN clients' = [clients EXCEPT ![r] = c] /\ UNCHANGED <<registered, contested>>
             ELSE /\ clients' = [clients EXCEPT ![r] = HandlerSet(c, call.kind, call.handler)]
                  /\ Registers(r, call.kind, call.handler)
    <3>1. \/ \E c \in {clients[r], Subscribed(clients[r], TASKS, "av")} :
               IF call.kind = "session"
               THEN clients' = [clients EXCEPT ![r] = c] /\ UNCHANGED <<registered, contested>>
               ELSE /\ clients' = [clients EXCEPT ![r] = HandlerSet(c, call.kind, call.handler)]
                    /\ Registers(r, call.kind, call.handler)
      BY <1>8, <2>1 DEF TasksAnswered
    <3>2. /\ Subscribed(clients[r], TASKS, "av") \in Client
          /\ Subscribed(clients[r], TASKS, "av").av = clients[r].av
          /\ Subscribed(clients[r], TASKS, "av").userCtxData = clients[r].userCtxData
      BY <2>1, SlotTaken
    <3> QED
      BY <2>1, <3>1, <3>2
  <2>5. UNCHANGED used
    BY <1>8 DEF TasksAnswered
  <2>6. CASE call.kind = "session"
    <3>1. clients' = [clients EXCEPT ![r] = c] /\ UNCHANGED <<registered, contested>>
      BY <2>4, <2>6 
    <3> QED
      BY <2>3, <2>4, <2>5, <3>1, QuietIsServed
  <2>7. CASE call.kind # "session"
    BY <2>2, <2>3, <2>4, <2>5, <2>7, RegisteredIsServed
  <2> QED
    BY <2>6, <2>7
<1>9. ASSUME NEW r \in Refs, NEW k \in Kinds, NEW h \in Handlers, RemoveHandler(r, k, h)
      PROVE  ServedInv'
  <2> DEFINE d == HandlerSet(clients[r], k, NULL)
             cont == (r \in contested)
  <2>1. /\ UNCHANGED <<used, contested>> /\ h \in registered[r][k]
        /\ registered' = [registered EXCEPT ![r][k] = @ \ {h}]
    BY <1>9 DEF RemoveHandler
  <2>2. /\ registered'[r] = [registered[r] EXCEPT ![k] = @ \ {h}]
        /\ \A q \in Refs : q # r => registered'[q] = registered[q]
        /\ registered[r] \in Registrations
    BY <2>1 DEF Types
  <2>3. used' = used \cup {r}
    BY <2>1 DEF ServedInv
  <2>4. CASE clients[r] = NULL
    <3>1. clients' = [clients EXCEPT ![r] = NULL]
      BY <1>9, <2>4 DEF RemoveHandler, Types
    <3> QED
      BY <2>1, <2>2, <2>3, <3>1, ServedReplaced
  <2>5. CASE clients[r] # NULL
    <3>1. clients[r] \in Client /\ clients' = [clients EXCEPT ![r] = d]
      BY <1>9, <2>5 DEF RemoveHandler, Types
    <3>2. d \in Client
      BY <3>1, HandlerSetType
    <3>3. Served(clients[r], registered[r], cont)
      BY <2>5, ClientIsUsed
    <3>4. cont \in BOOLEAN
      OBVIOUS
    <3> HIDE DEF cont
    <3>5. Served(d, [registered[r] EXCEPT ![k] = @ \ {h}], cont)
      BY <2>1, <2>2, <3>1, <3>3, <3>4, RemovedIsNotServed
    <3> HIDE DEF d
    <3>6. Served(d, registered'[r], r \in contested')
      BY <2>1, <2>2, <3>5 DEF cont
    <3> QED
      BY <2>1, <2>2, <2>3, <3>1, <3>2, <3>6, ServedReplaced
  <2> QED
    BY <2>4, <2>5
<1>10. CASE \/ UNCHANGED vars
            \/ \E r \in Refs : Fault(r)
            \/ \E r \in Refs, t \in Topics \cup {TASKS}, k \in {"message"} \cup Kinds : Message(r, t, k)
  <2>1. UNCHANGED <<clients, used, registered, contested>>
    BY <1>10 DEF Fault, Message, vars
  <2> QED
    BY <2>1 DEF ServedInv
<1> QED
  BY <1>1, <1>2, <1>3, <1>4, <1>5, <1>6, <1>7, <1>8, <1>9, <1>10 DEF Next

-----------------------------------------------------------------------------
(* The tasks of a device                                                     *)

\* Two slots at most hand out tasks, and one as long as no handler was added.
Few(c, waiting) ==
    \E a, b \in Slots : /\ AvSlots(c) \subseteq {a, b}
                        /\ ~ HasData(c, 1) \/ waiting => a = b

\* What the call that waits relies on.
Waits(c, kind) ==
    IF kind = "session" THEN c.messageHandlers = NoHandlers ELSE HasData(c, 1)

Waiting(r) == call # Idle /\ call.ref = r

\* The slots of the tasks, while no call waits and while one does.
TasksInv ==
    /\ \A r \in granted : clients[r] # NULL
    /\ GrantedTasksArrive
    /\ \A r \in Refs : Waiting(r) => Waits(clients[r], call.kind)
    /\ \A r \in Refs : clients[r] # NULL => Few(clients[r], Waiting(r))

\* A step about one client leaves the slots of the others.
LEMMA TasksReplaced ==
    ASSUME Types, TasksInv, NEW r \in Refs, NEW d \in Client \cup {NULL},
           clients' = [clients EXCEPT ![r] = d],
           granted' \subseteq granted \cup {r},
           r \in granted' => d # NULL /\ \E s \in Slots : Has(d, s, TASKS, "av"),
           call' = Idle \/ call'.ref = r,
           call' # Idle => Waits(d, call'.kind),
           d # NULL => Few(d, call' # Idle)
    PROVE  TasksInv'
<1>1. clients'[r] = d /\ \A q \in Refs : q # r => clients'[q] = clients[q]
  BY Replaced
<1>2. ASSUME NEW q \in granted'
      PROVE  clients'[q] # NULL /\ \E s \in Slots : Has(clients'[q], s, TASKS, "av")
  <2>1. CASE q = r
    BY <1>1, <2>1
  <2>2. CASE q # r
    <3>1. q \in granted /\ q \in Refs
      BY <2>2 DEF Types
    <3> QED
      BY <1>1, <2>2, <3>1 DEF TasksInv, GrantedTasksArrive
  <2> QED
    BY <2>1, <2>2
<1>3. ASSUME NEW q \in Refs
      PROVE  /\ Waiting(q)' => Waits(clients'[q], call'.kind)
             /\ clients'[q] # NULL => Few(clients'[q], Waiting(q)')
  <2>1. CASE q = r
    <3>1. Waiting(q)' <=> call' # Idle
      BY <2>1 DEF Waiting
    <3>2. Waiting(q)' => Waits(clients'[q], call'.kind)
      BY <1>1, <2>1, <3>1
    <3>3. ASSUME d # NULL PROVE Few(d, Waiting(q)')
      BY <3>1, <3>3 DEF Few
    <3> QED
      BY <1>1, <2>1, <3>2, <3>3
  <2>2. CASE q # r
    <3>1. ~ Waiting(q)' /\ clients'[q] = clients[q]
      BY <1>1, <2>2 DEF Waiting
    <3>2. clients[q] # NULL => Few(clients[q], Waiting(q))
      BY DEF TasksInv
    <3>3. ASSUME clients[q] # NULL PROVE Few(clients[q], Waiting(q)')
      BY <3>1, <3>2, <3>3 DEF Few
    <3> QED
      BY <3>1, <3>3
  <2> QED
    BY <2>1, <2>2
<1>4. GrantedTasksArrive'
  BY <1>2 DEF GrantedTasksArrive, Has
<1> QED
  BY <1>2, <1>3, <1>4 DEF TasksInv

\* No slot hands out tasks, or fewer than before.
LEMMA NoneIsFew ==
    ASSUME NEW c, c.messageHandlers = NoHandlers, NEW w \in BOOLEAN
    PROVE  Few(c, w)
<1>1. 1 \in Slots
  BY SlotsAssumption DEF Slots
<1>2. AvSlots(c) \subseteq {1, 1}
  BY DEF AvSlots, NoHandlers
<1> QED
  BY <1>1, <1>2 DEF Few

LEMMA FewerIsFew ==
    ASSUME NEW c, NEW d, NEW w \in BOOLEAN, Few(c, w), AvSlots(d) \subseteq AvSlots(c),
           NEW v \in BOOLEAN, ~ HasData(d, 1) \/ v => ~ HasData(c, 1) \/ w
    PROVE  Few(d, v)
<1>1. PICK a \in Slots, b \in Slots : /\ AvSlots(c) \subseteq {a, b}
                                      /\ ~ HasData(c, 1) \/ w => a = b
  BY DEF Few
<1>2. AvSlots(d) \subseteq {a, b} /\ (~ HasData(d, 1) \/ v => a = b)
  BY <1>1
<1> QED
  BY <1>2 DEF Few

\* A subscription to the tasks adds a slot to one or none.
LEMMA OneMoreIsFew ==
    ASSUME NEW c \in Client, Few(c, TRUE),
           HasData(c, 1) \/ c.messageHandlers = NoHandlers
    PROVE  Few(Subscribed(c, TASKS, "av"), FALSE)
<1> DEFINE d == Subscribed(c, TASKS, "av")
<1>1. PICK a \in Slots : AvSlots(c) \subseteq {a}
  BY DEF Few
<1>2. PICK s \in Slots : AvSlots(d) \subseteq AvSlots(c) \cup {s}
  BY AvSlotTaken
<1>3. d.userCtxData = c.userCtxData
  BY SlotTaken
<1> HIDE DEF d
<1>4. CASE HasData(c, 1)
  <2>1. HasData(d, 1)
    BY <1>3, <1>4 DEF HasData
  <2>2. AvSlots(d) \subseteq {a, s}
    BY <1>1, <1>2
  <2>3. Few(d, FALSE)
    BY <2>1, <2>2 DEF Few
  <2> QED
    BY <2>3 DEF d
<1>5. CASE c.messageHandlers = NoHandlers
  <2>1. AvSlots(c) = {}
    BY <1>5 DEF AvSlots, NoHandlers
  <2>2. AvSlots(d) \subseteq {s, s}
    BY <1>2, <2>1
  <2>3. Few(d, FALSE)
    BY <2>2 DEF Few
  <2> QED
    BY <2>3 DEF d
<1> QED
  BY <1>4, <1>5

\* What the invariant says of a client while no call waits, and while one does.
LEMMA FewNow ==
    ASSUME TasksInv, NEW r \in Refs, clients[r] # NULL
    PROVE  /\ Few(clients[r], FALSE)
           /\ Waiting(r) => Few(clients[r], TRUE) /\ Waits(clients[r], call.kind)
<1>1. Few(clients[r], Waiting(r)) /\ (Waiting(r) => Waits(clients[r], call.kind))
  BY DEF TasksInv
<1> QED
  BY <1>1 DEF Few

\* A step between two calls that leaves the slots of the tasks and the user data of a
\* client, or adds to the latter.
LEMMA QuietTasks ==
    ASSUME Types, TasksInv, NEW r \in Refs, clients[r] # NULL, NEW d \in Client,
           clients' = [clients EXCEPT ![r] = d],
           HasData(clients[r], 1) => HasData(d, 1),
           AvSlots(d) \subseteq AvSlots(clients[r]),
           granted' \subseteq granted, call = Idle, UNCHANGED call,
           r \in granted' => \A s \in Slots : Has(clients[r], s, TASKS, "av") => Has(d, s, TASKS, "av")
    PROVE  TasksInv'
<1>1. Few(d, FALSE)
  <2>1. Few(clients[r], FALSE)
    BY FewNow
  <2>2. ~ HasData(d, 1) \/ FALSE => ~ HasData(clients[r], 1) \/ FALSE
    OBVIOUS
  <2> QED
    BY <2>1, <2>2, FewerIsFew
<1>2. r \in granted' => d # NULL /\ \E s \in Slots : Has(d, s, TASKS, "av")
  BY NullAssumption DEF TasksInv, GrantedTasksArrive
<1>3. d # NULL => Few(d, call' # Idle)
  BY <1>1 DEF Few
<1> QED
  BY <1>2, <1>3, TasksReplaced

\* Each action keeps the slots of the tasks.
LEMMA TasksStep == ASSUME Types, ServedInv, TasksInv, [Next]_vars PROVE TasksInv'
<1>1. ASSUME NEW r \in Refs, NEW b \in BOOLEAN, Create(r, b) PROVE TasksInv'
  <2> DEFINE c == [av |-> b, isconnected |-> FALSE, messageHandlers |-> NoHandlers,
                   userCtxData |-> [index \in Indexes |-> NULL], heap |-> 0]
  <2>1. c \in Client /\ c.messageHandlers = NoHandlers
    BY DEF Client, NoHandlers
  <2>2. clients' = [clients EXCEPT ![r] = c] /\ UNCHANGED <<granted, call>> /\ call = Idle
    BY <1>1 DEF Create
  <2>3. r \notin granted
    BY <1>1 DEF Create, ServedInv, TasksInv
  <2> HIDE DEF c
  <2>4. Few(c, FALSE)
    BY <2>1, NoneIsFew
  <2>5. Few(c, call' # Idle)
    BY <2>2, <2>4 DEF Few
  <2> QED
    BY <2>1, <2>2, <2>3, <2>5, TasksReplaced
<1>2. ASSUME NEW r \in Refs, Delete(r) PROVE TasksInv'
  <2>1. /\ clients' = [clients EXCEPT ![r] = NULL] /\ granted' = granted \ {r}
        /\ UNCHANGED call /\ call = Idle
    BY <1>2 DEF Delete, Calls
  <2> QED
    BY <2>1, TasksReplaced
<1>3. ASSUME NEW r \in Refs, StartSession(r) PROVE TasksInv'
  <2>1. PICK d \in Client : /\ clients' = [clients EXCEPT ![r] = d]
                            /\ d.messageHandlers = NoHandlers
    BY <1>3, StartChanges
  <2>2. granted' = granted \ {r}
    BY <1>3 DEF StartSession
  <2>3. call' = Idle \/ (call'.ref = r /\ call'.kind = "session")
    BY <1>3 DEF StartSession, Subscribing
  <2>4. call' # Idle => Waits(d, call'.kind)
    BY <2>1, <2>3 DEF Waits
  <2>5. Few(d, call' # Idle)
    <3>1. Few(d, TRUE) /\ Few(d, FALSE)
      BY <2>1, NoneIsFew
    <3> QED
      BY <3>1 DEF Few
  <2> QED
    BY <2>1, <2>2, <2>3, <2>4, <2>5, TasksReplaced
<1>4. ASSUME NEW r \in Refs, StopSession(r) \/ ConnectionLost(r) PROVE TasksInv'
  <2>1. PICK d \in Client : /\ clients' = [clients EXCEPT ![r] = d]
                            /\ d.av = clients[r].av /\ d.userCtxData = clients[r].userCtxData
                            /\ \/ d.messageHandlers = clients[r].messageHandlers
                               \/ StopSession(r) /\ d.messageHandlers = NoHandlers
    BY <1>4, DownChanges
  <2>2. clients[r] # NULL /\ UNCHANGED call
    BY <1>4 DEF StopSession, ConnectionLost, Calls
  <2>3. HasData(d, 1) <=> HasData(clients[r], 1)
    BY <2>1 DEF HasData
  <2>4. CASE StopSession(r)
    <3>1. call = Idle /\ granted' = granted \ {r}
      BY <2>4 DEF StopSession, Calls
    <3>2. Few(d, FALSE)
      <4>1. CASE d.messageHandlers = NoHandlers
        BY <4>1, NoneIsFew
      <4>2. CASE d.messageHandlers = clients[r].messageHandlers
        <5>1. AvSlots(d) = AvSlots(clients[r])
          BY <4>2 DEF AvSlots
        <5>2. Few(clients[r], FALSE)
          BY <2>2, FewNow
        <5> QED
          BY <2>3, <5>1, <5>2 DEF Few
      <4> QED
        BY <2>1, <4>1, <4>2
    <3>3. Few(d, call' # Idle)
      BY <2>2, <3>1, <3>2 DEF Few
    <3> QED
      BY <2>1, <2>2, <3>1, <3>3, TasksReplaced
  <2>5. CASE ~ StopSession(r)
    <3>1. UNCHANGED granted
      BY <1>4, <2>5 DEF ConnectionLost
    <3>2. call = Idle \/ call.ref = r
      <4>1. call.ref \in {NULL, r} \/ call = Idle
        BY <1>4, <2>5 DEF ConnectionLost
      <4> QED
        BY <4>1, CallTypes, NullAssumption
    <3>3. /\ AvSlots(d) = AvSlots(clients[r]) /\ d.messageHandlers = clients[r].messageHandlers
          /\ \A s \in Slots : Has(d, s, TASKS, "av") <=> Has(clients[r], s, TASKS, "av")
      BY <2>1, <2>5 DEF AvSlots, Has
    <3>4. call # Idle => Waits(clients[r], call.kind) /\ Few(clients[r], TRUE)
      BY <2>2, <3>2, FewNow DEF Waiting
    <3>5. call' # Idle => Waits(d, call'.kind)
      BY <2>2, <2>3, <3>3, <3>4 DEF Waits
    <3>6. Few(d, call' # Idle)
      <4>1. Few(clients[r], FALSE)
        BY <2>2, FewNow
      <4> QED
        BY <2>2, <2>3, <3>3, <3>4, <4>1 DEF Few
    <3>7. r \in granted' => d # NULL /\ \E s \in Slots : Has(d, s, TASKS, "av")
      BY <3>1, <3>3, NullAssumption DEF TasksInv, GrantedTasksArrive
    <3> QED
      BY <2>1, <2>2, <3>1, <3>2, <3>5, <3>6, <3>7, TasksReplaced
  <2> QED
    BY <2>4, <2>5
<1>5. ASSUME NEW r \in Refs, NEW t \in Topics \cup {TASKS}, Subscribe(r, t) \/ Unsubscribe(r, t)
      PROVE  TasksInv'
  <2>1. PICK d \in Client : /\ clients' = [clients EXCEPT ![r] = d]
                            /\ d.userCtxData = clients[r].userCtxData
                            /\ AvSlots(d) \subseteq AvSlots(clients[r])
                            /\ \A s \in Slots : Has(clients[r], s, TASKS, "av") =>
                                   Has(d, s, TASKS, "av") \/ (Unsubscribe(r, t) /\ t = TASKS)
    BY <1>5, TableChanges
  <2>2. clients[r] # NULL /\ call = Idle /\ UNCHANGED call /\ granted' \subseteq granted
    BY <1>5 DEF Subscribe, Unsubscribe, Calls
  <2>3. Unsubscribe(r, t) /\ t = TASKS => r \notin granted'
    BY DEF Unsubscribe
  <2>4. HasData(clients[r], 1) => HasData(d, 1)
    BY <2>1 DEF HasData
  <2> QED
    BY <2>1, <2>2, <2>3, <2>4, QuietTasks
<1>6. ASSUME NEW r \in Refs, NEW k \in Kinds, NEW h \in Handlers \cup {NULL},
             AddHandler(r, k, h) \/ (h = NULL /\ \E g \in Handlers : RemoveHandler(r, k, g))
      PROVE  TasksInv'
  <2> DEFINE d == HandlerSet(clients[r], k, h)
  <2>1. call = Idle /\ UNCHANGED <<granted, call>>
    BY <1>6 DEF AddHandler, RemoveHandler, Calls
  <2>2. CASE clients[r] = NULL
    <3>1. UNCHANGED clients
      BY <1>6, <2>2 DEF AddHandler, RemoveHandler, Calls
    <3> QED
      BY <2>1, <3>1 DEF TasksInv, GrantedTasksArrive, Waiting
  <2>3. CASE clients[r] # NULL
    <3>1. clients[r] \in Client
      BY <2>3 DEF Types
    <3>2. /\ d \in Client /\ d.messageHandlers = clients[r].messageHandlers
          /\ HasData(clients[r], 1) => HasData(d, 1)
      BY <3>1, HandlerSetType
    <3>3. clients' = [clients EXCEPT ![r] = d]
      BY <1>6, <2>3 DEF AddHandler, RemoveHandler
    <3> HIDE DEF d
    <3>4. /\ AvSlots(d) = AvSlots(clients[r])
          /\ \A s \in Slots : Has(clients[r], s, TASKS, "av") => Has(d, s, TASKS, "av")
      BY <3>2 DEF AvSlots, Has
    <3> QED
      BY <2>1, <2>3, <3>2, <3>3, <3>4, QuietTasks
  <2> QED
    BY <2>2, <2>3
<1>7. ASSUME NEW r \in Refs, NEW k \in Kinds, NEW h \in Handlers, AddFirstHandler(r, k, h)
      PROVE  TasksInv'
  <2> DEFINE d == WithData(clients[r], 1)
  <2>1. /\ clients[r] # NULL /\ ~ HasData(clients[r], 1) /\ UNCHANGED granted
        /\ clients' = [clients EXCEPT ![r] = d] /\ call' = Subscribing(r, k, h)
    BY <1>7 DEF AddFirstHandler, Calls, SubscribesFirst
  <2>2. clients[r] \in Client
    BY <2>1 DEF Types
  <2>3. d \in Client /\ HasData(d, 1) /\ d.messageHandlers = clients[r].messageHandlers
    BY <2>2, DataCreated DEF Indexes
  <2> HIDE DEF d
  <2>4. call'.ref = r /\ Waits(d, call'.kind)
    BY <2>1, <2>3 DEF Subscribing, Waits, Kinds
  <2>5. /\ AvSlots(d) = AvSlots(clients[r])
        /\ \A s \in Slots : Has(d, s, TASKS, "av") <=> Has(clients[r], s, TASKS, "av")
    BY <2>3 DEF AvSlots, Has
  <2>6. Few(d, call' # Idle)
    <3>1. Few(clients[r], FALSE)
      BY <2>1, FewNow
    <3> QED
      BY <2>1, <2>5, <3>1 DEF Few
  <2>7. r \in granted' => d # NULL /\ \E s \in Slots : Has(d, s, TASKS, "av")
    BY <2>1, <2>3, <2>5, NullAssumption DEF TasksInv, GrantedTasksArrive
  <2> QED
    BY <2>1, <2>3, <2>4, <2>6, <2>7, TasksReplaced
<1>8. ASSUME TasksAnswered PROVE TasksInv'
  <2>1. PICK r \in Refs : r = call.ref /\ clients[r] \in Client
    BY <1>8, CallTypes DEF TasksAnswered
  <2>2. call.kind # "session" => call.kind \in Kinds /\ call.handler \in Handlers
    BY <1>8, CallTypes DEF TasksAnswered
  <2>3. PICK ok \in BOOLEAN :
          LET c == IF ok THEN Subscribed(clients[r], TASKS, "av") ELSE clients[r] IN
          IF call.kind = "session"
          THEN clients' = [clients EXCEPT ![r] = c] /\ granted' = IF ok THEN granted \cup {r} ELSE granted
          ELSE clients' = [clients EXCEPT ![r] = HandlerSet(c, call.kind, call.handler)] /\ UNCHANGED granted
    BY <1>8, <2>1 DEF TasksAnswered
  <2> DEFINE c == IF ok THEN Subscribed(clients[r], TASKS, "av") ELSE clients[r]
             d == IF call.kind = "session" THEN c ELSE HandlerSet(c, call.kind, call.handler)
  <2>4. clients' = [clients EXCEPT ![r] = d] /\ call' = Idle
    BY <1>8, <2>3 DEF TasksAnswered
  <2>5. Waits(clients[r], call.kind) /\ Few(clients[r], TRUE) /\ Few(clients[r], FALSE)
    <3>1. Waiting(r) /\ clients[r] # NULL
      BY <1>8, <2>1, NullAssumption DEF Waiting, TasksAnswered
    <3> QED
      BY <3>1, FewNow
  <2>6. c \in Client /\ c.userCtxData = clients[r].userCtxData /\ Few(c, FALSE)
    <3>1. CASE ok
      BY <2>1, <2>5, <3>1, OneMoreIsFew, SlotTaken DEF Waits
    <3>2. CASE ~ ok
      BY <2>1, <2>5, <3>2
    <3> QED
      BY <3>1, <3>2
  <2>7. \A s \in Slots : Has(clients[r], s, TASKS, "av") => Has(c, s, TASKS, "av")
    <3>1. [topic |-> TASKS, fp |-> "av"] # NULL
      BY NullAssumption DEF Slot
    <3>2. CASE ok
      <4> DEFINE e == Subscribed(clients[r], TASKS, "av")
      <4>1. \A s \in Slots : clients[r].messageHandlers[s] # NULL =>
                e.messageHandlers[s] = clients[r].messageHandlers[s]
        BY <2>1, TakenSlotsStay
      <4>2. c = e
        BY <3>2
      <4> HIDE DEF c, e
      <4> QED
        BY <3>1, <4>1, <4>2 DEF Has
    <3>3. CASE ~ ok
      BY <3>3
    <3> QED
      BY <3>2, <3>3
  <2>8. call.kind = "session" /\ ok => Has(c, 1, TASKS, "av") /\ 1 \in Slots
    BY <2>1, <2>5, AvSlotTaken, SlotsAssumption DEF Waits, Slots
  <2> HIDE DEF c
  <2>9. /\ d \in Client /\ d.messageHandlers = c.messageHandlers
        /\ HasData(c, 1) => HasData(d, 1)
    BY <2>2, <2>6, HandlerSetType
  <2>10. /\ granted' \subseteq granted \cup {r}
         /\ r \in granted' => r \in granted \/ (call.kind = "session" /\ ok)
    BY <2>3
  <2> HIDE DEF d
  <2>11. /\ AvSlots(d) = AvSlots(c)
         /\ \A s \in Slots : Has(d, s, TASKS, "av") <=> Has(c, s, TASKS, "av")
    BY <2>9 DEF AvSlots, Has
  <2>12. Few(d, call' # Idle)
    BY <2>4, <2>6, <2>9, <2>11 DEF Few
  <2>13. r \in granted' => d # NULL /\ \E s \in Slots : Has(d, s, TASKS, "av")
    <3>1. d # NULL
      BY <2>9, NullAssumption
    <3>2. r \in granted => \E s \in Slots : Has(d, s, TASKS, "av")
      BY <2>7, <2>11 DEF TasksInv, GrantedTasksArrive
    <3> QED
      BY <2>8, <2>10, <2>11, <3>1, <3>2
  <2> QED
    BY <2>4, <2>9, <2>10, <2>12, <2>13, TasksReplaced
<1>9. CASE \/ UNCHANGED vars
           \/ \E r \in Refs : Fault(r)
           \/ \E r \in Refs, t \in Topics \cup {TASKS}, k \in {"message"} \cup Kinds : Message(r, t, k)
  <2>1. UNCHANGED <<clients, call, granted>>
    BY <1>9 DEF Fault, Message, vars
  <2> QED
    BY <2>1 DEF TasksInv, GrantedTasksArrive, Waiting
<1>10. ASSUME NEW r \in Refs, NEW k \in Kinds, NEW h \in Handlers, RemoveHandler(r, k, h)
       PROVE  TasksInv'
  BY <1>6, <1>10
<1>11. ASSUME NEW r \in Refs, NEW k \in Kinds, NEW h \in Handlers, AddHandler(r, k, h)
       PROVE  TasksInv'
  <2>1. h \in Handlers \cup {NULL}
    OBVIOUS
  <2>2. AddHandler(r, k, h) \/ (h = NULL /\ \E g \in Handlers : RemoveHandler(r, k, g))
    BY <1>11
  <2> QED
    BY <1>6, <2>1, <2>2
<1> QED
  BY <1>1, <1>2, <1>3, <1>4, <1>5, <1>7, <1>8, <1>9, <1>10, <1>11 DEF Next

-----------------------------------------------------------------------------
(* User data                                                                 *)

\* What was allocated for a client is what it has a pointer to.
Counted(c) == c.heap = Cardinality(DataOf(c))

DataInv ==
    /\ \A r \in Refs : clients[r] # NULL => Counted(clients[r])
    /\ leaked = 0

\* Two that differ are two.
LEMMA TwoCounted ==
    ASSUME NEW a, NEW b, a # b
    PROVE  IsFiniteSet({a, b}) /\ Cardinality({a, b}) = 2
<1>1. IsFiniteSet({a}) /\ Cardinality({a}) = 1
  BY FS_Singleton
<1>2. {a, b} = {a} \cup {b} /\ b \notin {a}
  OBVIOUS
<1>3. /\ IsFiniteSet({a} \cup {b})
      /\ Cardinality({a} \cup {b}) = IF b \in {a} THEN Cardinality({a}) ELSE Cardinality({a}) + 1
  BY <1>1, FS_AddElement
<1> QED
  BY <1>1, <1>2, <1>3

\* A client has finitely many pointers, and a number of them.
LEMMA PointersCounted ==
    ASSUME NEW c
    PROVE  IsFiniteSet(DataOf(c)) /\ Cardinality(DataOf(c)) \in Nat
<1>1. IsFiniteSet(Indexes)
  <2>1. 0 # 1
    OBVIOUS
  <2> QED
    BY <2>1, TwoCounted DEF Indexes
<1>2. DataOf(c) \in SUBSET Indexes
  BY DEF DataOf
<1> QED
  BY <1>1, <1>2, FS_Subset, FS_CardinalityType

\* As many pointers, and as much allocated.
LEMMA SamePointers ==
    ASSUME NEW c, NEW d, Counted(c), d.heap = c.heap,
           \A i \in Indexes : HasData(c, i) <=> HasData(d, i)
    PROVE  Counted(d)
<1>1. DataOf(d) = DataOf(c)
  BY DEF DataOf
<1> QED
  BY <1>1 DEF Counted

\* mqtt_CreateUserData allocates once for an index that has no pointer.
LEMMA CreatedIsCounted ==
    ASSUME NEW c \in Client, Counted(c), NEW index \in Indexes
    PROVE  Counted(WithData(c, index))
<1> DEFINE d == WithData(c, index)
<1>1. /\ HasData(d, index)
      /\ \A i \in Indexes : i # index => d.userCtxData[i] = c.userCtxData[i]
      /\ HasData(c, index) => d.heap = c.heap
      /\ ~ HasData(c, index) => d.heap = c.heap + 1
  BY DataCreated
<1> HIDE DEF d
<1>2. \A i \in Indexes : i # index => (HasData(c, i) <=> HasData(d, i))
  BY <1>1 DEF HasData
<1>3. CASE HasData(c, index)
  <2>1. d.heap = c.heap /\ \A i \in Indexes : HasData(c, i) <=> HasData(d, i)
    BY <1>1, <1>2, <1>3
  <2>2. Counted(d)
    BY <2>1, SamePointers
  <2> QED
    BY <2>2 DEF d
<1>4. CASE ~ HasData(c, index)
  <2>1. DataOf(d) = DataOf(c) \cup {index} /\ index \notin DataOf(c)
    BY <1>1, <1>2, <1>4 DEF DataOf
  <2>2. Cardinality(DataOf(d)) = Cardinality(DataOf(c)) + 1
    BY <2>1, PointersCounted, FS_AddElement
  <2>3. Counted(d)
    BY <1>1, <1>4, <2>2 DEF Counted
  <2> QED
    BY <2>3 DEF d
<1> QED
  BY <1>3, <1>4

\* So setting a handler allocates what it gets a pointer to, in each of its places.
LEMMA SetIsCounted ==
    ASSUME NEW c \in Client, Counted(c), NEW k \in Kinds, NEW h \in Handlers \cup {NULL}
    PROVE  Counted(HandlerSet(c, k, h))
<1>1. ASSUME NEW b \in Client, Counted(b), NEW index \in Indexes, NEW q \in Kinds
      PROVE  /\ Stored(WithData(b, index), index, q, h) \in Client
             /\ Counted(Stored(WithData(b, index), index, q, h))
  <2> DEFINE w == WithData(b, index)
             d == Stored(w, index, q, h)
  <2>1. w \in Client /\ HasData(w, index) /\ Counted(w)
    BY <1>1, DataCreated, CreatedIsCounted
  <2> HIDE DEF w
  <2>2. d \in Client /\ d.heap = w.heap /\ \A i \in Indexes : HasData(w, i) <=> HasData(d, i)
    BY <1>1, <2>1, HandlerStored
  <2> HIDE DEF d
  <2>3. d \in Client /\ Counted(d)
    BY <2>1, <2>2, SamePointers
  <2> QED
    BY <2>3 DEF d, w
<1>2. 0 \in Indexes /\ 1 \in Indexes /\ "command" \in Kinds /\ "install" \in Kinds
  BY DEF Indexes, Kinds
<1> DEFINE av == IF c.av THEN Stored(WithData(c, 1), 1, "command", h) ELSE c
<1>3. av \in Client /\ Counted(av)
  BY <1>1, <1>2
<1>4. CommandSet(c, h) = Stored(WithData(av, 0), 0, "command", h)
  BY DEF CommandSet, Stored
<1>5. InstallSet(c, h) = IF c.av THEN Stored(WithData(c, 1), 1, "install", h) ELSE c
  BY DEF InstallSet, Stored
<1> HIDE DEF av
<1>6. Counted(CommandSet(c, h))
  BY <1>1, <1>2, <1>3, <1>4
<1>7. Counted(InstallSet(c, h))
  BY <1>1, <1>2, <1>5
<1> QED
  BY <1>6, <1>7 DEF HandlerSet

\* A step that leaves a client, if any, with what was allocated for it.
LEMMA ReplacedIsCounted ==
    ASSUME Types, DataInv, NEW r \in Refs, NEW d \in Client \cup {NULL},
           clients' = [clients EXCEPT ![r] = d], d # NULL => Counted(d), UNCHANGED leaked
    PROVE  DataInv'
<1>1. clients'[r] = d /\ \A q \in Refs : q # r => clients'[q] = clients[q]
  BY Replaced
<1>2. ASSUME NEW q \in Refs, clients'[q] # NULL PROVE Counted(clients'[q])
  BY <1>1, <1>2 DEF DataInv
<1> QED
  BY <1>2 DEF DataInv, Counted, DataOf, HasData

\* Nothing is allocated at the start ...
LEMMA InitData == ASSUME Init PROVE DataInv
  BY DEF Init, DataInv

\* ... and each action counts what it allocates and frees.
LEMMA DataStep == ASSUME Types, ServedInv, DataInv, [Next]_vars PROVE DataInv'
<1>1. ASSUME NEW r \in Refs, NEW b \in BOOLEAN, Create(r, b) PROVE DataInv'
  <2> DEFINE c == [av |-> b, isconnected |-> FALSE, messageHandlers |-> NoHandlers,
                   userCtxData |-> [index \in Indexes |-> NULL], heap |-> 0]
  <2>1. c \in Client /\ c.heap = 0 /\ \A i \in Indexes : ~ HasData(c, i)
    BY DEF Client, NoHandlers, HasData
  <2>2. clients' = [clients EXCEPT ![r] = c] /\ UNCHANGED leaked
    BY <1>1 DEF Create
  <2> HIDE DEF c
  <2>3. DataOf(c) = {}
    BY <2>1 DEF DataOf
  <2>4. Counted(c)
    BY <2>1, <2>3, FS_EmptySet DEF Counted
  <2> QED
    BY <2>1, <2>2, <2>4, ReplacedIsCounted
<1>2. ASSUME NEW r \in Refs, Delete(r) PROVE DataInv'
  <2>1. /\ clients' = [clients EXCEPT ![r] = NULL] /\ clients[r] # NULL
        /\ leaked' = leaked + clients[r].heap - Cardinality(DataOf(clients[r]))
    BY <1>2 DEF Delete, Calls
  <2>2. clients[r].heap = Cardinality(DataOf(clients[r]))
    BY <2>1 DEF DataInv, Counted
  <2>3. Cardinality(DataOf(clients[r])) \in Nat /\ leaked = 0
    BY PointersCounted DEF DataInv
  <2>4. UNCHANGED leaked
    BY <2>1, <2>2, <2>3
  <2> QED
    BY <2>1, <2>4, ReplacedIsCounted
<1>3. ASSUME NEW r \in Refs, clients[r] # NULL, UNCHANGED leaked,
             NEW d \in Client, d.userCtxData = clients[r].userCtxData, d.heap = clients[r].heap,
             clients' = [clients EXCEPT ![r] = d]
      PROVE  DataInv'
  <2>1. Counted(clients[r]) /\ \A i \in Indexes : HasData(clients[r], i) <=> HasData(d, i)
    BY <1>3 DEF DataInv, HasData
  <2>2. Counted(d)
    BY <1>3, <2>1, SamePointers
  <2> QED
    BY <1>3, <2>2, ReplacedIsCounted
<1>4. ASSUME NEW r \in Refs, StartSession(r) PROVE DataInv'
  <2>1. clients[r] # NULL /\ UNCHANGED leaked
    BY <1>4 DEF StartSession, Calls
  <2> QED
    BY <1>3, <1>4, <2>1, StartChanges
<1>5. ASSUME NEW r \in Refs, StopSession(r) \/ ConnectionLost(r) PROVE DataInv'
  <2>1. clients[r] # NULL /\ UNCHANGED leaked
    BY <1>5 DEF StopSession, ConnectionLost, Calls
  <2> QED
    BY <1>3, <1>5, <2>1, DownChanges
<1>6. ASSUME NEW r \in Refs, NEW t \in Topics \cup {TASKS}, Subscribe(r, t) \/ Unsubscribe(r, t)
      PROVE  DataInv'
  <2>1. clients[r] # NULL /\ UNCHANGED leaked
    BY <1>6 DEF Subscribe, Unsubscribe, Calls
  <2> QED
    BY <1>3, <1>6, <2>1, TableChanges
<1>7. ASSUME NEW r \in Refs, NEW k \in Kinds, NEW h \in Handlers, AddHandler(r, k, h)
      PROVE  DataInv'
  <2>1. /\ clients[r] \in Client /\ Counted(clients[r]) /\ UNCHANGED leaked
        /\ clients' = [clients EXCEPT ![r] = HandlerSet(clients[r], k, h)]
    BY <1>7 DEF AddHandler, Calls, Types, DataInv
  <2>2. HandlerSet(clients[r], k, h) \in Client /\ Counted(HandlerSet(clients[r], k, h))
    BY <2>1, HandlerSetType, SetIsCounted
  <2> QED
    BY <2>1, <2>2, ReplacedIsCounted
<1>8. ASSUME NEW r \in Refs, NEW k \in Kinds, NEW h \in Handlers, AddFirstHandler(r, k, h)
      PROVE  DataInv'
  <2>1. /\ clients[r] \in Client /\ Counted(clients[r]) /\ UNCHANGED leaked
        /\ clients' = [clients EXCEPT ![r] = WithData(clients[r], 1)]
    BY <1>8 DEF AddFirstHandler, Calls, Types, DataInv
  <2>2. WithData(clients[r], 1) \in Client /\ Counted(WithData(clients[r], 1))
    BY <2>1, DataCreated, CreatedIsCounted DEF Indexes
  <2> QED
    BY <2>1, <2>2, ReplacedIsCounted
<1>9. ASSUME NEW r \in Refs, NEW k \in Kinds, NEW h \in Handlers, RemoveHandler(r, k, h)
      PROVE  DataInv'
  <2>1. CASE clients[r] = NULL
    <3>1. UNCHANGED <<clients, leaked>>
      BY <1>9, <2>1 DEF RemoveHandler
    <3> QED
      BY <3>1 DEF DataInv, Counted, DataOf, HasData
  <2>2. CASE clients[r] # NULL
    <3>1. /\ clients[r] \in Client /\ Counted(clients[r]) /\ UNCHANGED leaked
          /\ clients' = [clients EXCEPT ![r] = HandlerSet(clients[r], k, NULL)]
      BY <1>9, <2>2 DEF RemoveHandler, Types, DataInv
    <3>2. HandlerSet(clients[r], k, NULL) \in Client /\ Counted(HandlerSet(clients[r], k, NULL))
      BY <3>1, HandlerSetType, SetIsCounted
    <3> QED
      BY <3>1, <3>2, ReplacedIsCounted
  <2> QED
    BY <2>1, <2>2
<1>10. ASSUME TasksAnswered PROVE DataInv'
  <2>1. PICK r \in Refs : r = call.ref /\ clients[r] \in Client
    BY <1>10, CallTypes DEF TasksAnswered
  <2>2. call.kind # "session" => call.kind \in Kinds /\ call.handler \in Handlers
    BY <1>10, CallTypes DEF TasksAnswered
  <2>3. PICK ok \in BOOLEAN :
          LET c == IF ok THEN Subscribed(clients[r], TASKS, "av") ELSE clients[r] IN
          clients' = [clients EXCEPT ![r] =
              IF call.kind = "session" THEN c ELSE HandlerSet(c, call.kind, call.handler)]
    BY <1>10, <2>1 DEF TasksAnswered
  <2> DEFINE c == IF ok THEN Subscribed(clients[r], TASKS, "av") ELSE clients[r]
             d == IF call.kind = "session" THEN c ELSE HandlerSet(c, call.kind, call.handler)
  <2>4. clients' = [clients EXCEPT ![r] = d] /\ UNCHANGED leaked
    BY <1>10, <2>3 DEF TasksAnswered
  <2>5. c \in Client /\ Counted(c)
    <3>1. Counted(clients[r])
      BY <2>1, NullAssumption DEF DataInv
    <3>2. CASE ok
      <4> DEFINE e == Subscribed(clients[r], TASKS, "av")
      <4>1. e \in Client /\ e.userCtxData = clients[r].userCtxData /\ e.heap = clients[r].heap
        BY <2>1, SlotTaken
      <4> HIDE DEF e
      <4>2. Counted(e)
        BY <3>1, <4>1, SamePointers DEF HasData
      <4> QED
        BY <3>2, <4>1, <4>2 DEF e
    <3>3. CASE ~ ok
      BY <2>1, <3>1, <3>3
    <3> QED
      BY <3>2, <3>3
  <2> HIDE DEF c
  <2>6. d \in Client /\ Counted(d)
    BY <2>2, <2>5, HandlerSetType, SetIsCounted
  <2> HIDE DEF d
  <2> QED
    BY <2>1, <2>4, <2>6, ReplacedIsCounted
<1>11. CASE \/ UNCHANGED vars
            \/ \E r \in Refs : Fault(r)
            \/ \E r \in Refs, t \in Topics \cup {TASKS}, k \in {"message"} \cup Kinds : Message(r, t, k)
  <2>1. UNCHANGED <<clients, leaked>>
    BY <1>11 DEF Fault, Message, vars
  <2> QED
    BY <2>1 DEF DataInv, Counted, DataOf, HasData
<1> QED
  BY <1>1, <1>2, <1>4, <1>5, <1>6, <1>7, <1>8, <1>9, <1>10, <1>11 DEF Next

-----------------------------------------------------------------------------
(* Messages                                                                  *)

\* The handlers of a client are called for a message of their kind only.
LEMMA CalledAreOwned ==
    ASSUME NEW c, NEW reg \in Registrations, Owned(c, reg), NEW t,
           NEW k \in {"message"} \cup Kinds
    PROVE  Called(c, t, k) \subseteq UNION {reg[j] : j \in {"command"} \cup ({k} \cap Kinds)}
<1>1. HandlerIn(c, 0, "command") \subseteq reg["command"]
  BY DEF Owned
<1>2. k \in Kinds => HandlerIn(c, 1, k) \subseteq reg[k]
  BY DEF Owned
<1>3. ASSUME NEW h \in Called(c, t, k)
      PROVE  h \in reg["command"] \/ (k \in Kinds /\ h \in reg[k])
  BY <1>1, <1>2 DEF Called
<1> QED
  BY <1>3

\* The slots that receive a message of a topic for the tasks are two at most.
LEMMA FewAcknowledge ==
    ASSUME NEW c \in Client, NEW w \in BOOLEAN, Few(c, w), NEW t \in Topics \cup {TASKS}
    PROVE  Cardinality({s \in Slots : Has(c, s, t, "av")}) \in 0 .. 2
<1> DEFINE tasks == {s \in Slots : Has(c, s, t, "av")}
<1>1. PICK a \in Slots, b \in Slots : AvSlots(c) \subseteq {a, b}
  BY DEF Few
<1>2. tasks \in SUBSET {a, b}
  <2>1. [topic |-> t, fp |-> "av"] \in Slot /\ [topic |-> t, fp |-> "av"].fp = "av"
    BY DEF Slot
  <2>2. tasks \subseteq AvSlots(c)
    BY <2>1, NullAssumption DEF Has, AvSlots
  <2> QED
    BY <1>1, <2>2
<1>3. IsFiniteSet({a, b}) /\ Cardinality({a, b}) \in {1, 2}
  <2>1. CASE a = b
    <3>1. {a, b} = {a}
      BY <2>1
    <3> QED
      BY <3>1, FS_Singleton
  <2>2. CASE a # b
    BY <2>2, TwoCounted
  <2> QED
    BY <2>1, <2>2
<1> HIDE DEF tasks
<1>4. IsFiniteSet(tasks) /\ Cardinality(tasks) <= Cardinality({a, b})
  BY <1>2, <1>3, FS_Subset
<1>5. Cardinality(tasks) \in Nat
  BY <1>4, FS_CardinalityType
<1>6. Cardinality(tasks) \in 0 .. 2
  BY <1>3, <1>4, <1>5
<1> QED
  BY <1>6 DEF tasks

EventInv == OnlyRegisteredAreCalled /\ TwoAcksAtMost

\* A message calls who is registered; no other action calls anybody.
LEMMA EventStep ==
    ASSUME Types, ServedInv, TasksInv, EventInv, [Next]_vars PROVE EventInv'
<1>1. ASSUME event' = NoEvent PROVE EventInv'
  BY <1>1 DEF EventInv, OnlyRegisteredAreCalled, TwoAcksAtMost, NoEvent
<1>2. ASSUME NEW r \in Refs, NEW t \in Topics \cup {TASKS}, NEW k \in {"message"} \cup Kinds,
             Message(r, t, k)
      PROVE  EventInv'
  <2> DEFINE tasks == {s \in Slots : Has(clients[r], s, t, "av")}
  <2>1. PICK acks \in 0 .. (IF k = "command" THEN Cardinality(tasks) ELSE 0) :
           event' = [ref |-> r, topic |-> t, kind |-> k,
                     calls |-> Called(clients[r], t, k), acks |-> acks]
    BY <1>2 DEF Message
  <2>2. clients[r] # NULL /\ UNCHANGED registered
    BY <1>2 DEF Message
  <2>3. clients[r] \in Client /\ registered[r] \in Registrations
    BY <2>2 DEF Types
  <2>4. Owned(clients[r], registered[r])
    BY <2>2 DEF ServedInv, Served
  <2>5. Called(clients[r], t, k) \subseteq
          UNION {registered[r][j] : j \in {"command"} \cup ({k} \cap Kinds)}
    BY <2>3, <2>4, CalledAreOwned
  <2>6. Cardinality(tasks) \in 0 .. 2
    BY <2>2, <2>3, FewNow, FewAcknowledge
  <2> HIDE DEF tasks
  <2>7. event'.acks <= 2
    BY <2>1, <2>6
  <2>8. event'.calls \subseteq
          UNION {registered'[event'.ref][j] : j \in {"command"} \cup ({event'.kind} \cap Kinds)}
    BY <2>1, <2>2, <2>5
  <2> QED
    BY <2>7, <2>8 DEF EventInv, OnlyRegisteredAreCalled, TwoAcksAtMost
<1>3. CASE UNCHANGED vars \/ \E r \in Refs : Fault(r)
  <2>1. UNCHANGED <<event, registered>>
    BY <1>3 DEF Fault, vars
  <2> QED
    BY <2>1 DEF EventInv, OnlyRegisteredAreCalled, TwoAcksAtMost
<1>4. ASSUME NEW r \in Refs, \/ \E b \in BOOLEAN : Create(r, b)
                             \/ Delete(r) \/ StartSession(r) \/ StopSession(r) \/ ConnectionLost(r)
      PROVE  event' = NoEvent
  BY <1>4 DEF Create, Delete, StartSession, StopSession, ConnectionLost
<1>5. ASSUME NEW r \in Refs, NEW t \in Topics \cup {TASKS}, Subscribe(r, t) \/ Unsubscribe(r, t)
      PROVE  event' = NoEvent
  BY <1>5 DEF Subscribe, Unsubscribe
<1>6. ASSUME NEW r \in Refs, NEW k \in Kinds, NEW h \in Handlers,
             AddHandler(r, k, h) \/ AddFirstHandler(r, k, h) \/ RemoveHandler(r, k, h)
      PROVE  event' = NoEvent
  BY <1>6 DEF AddHandler, AddFirstHandler, RemoveHandler
<1>7. CASE TasksAnswered
  BY <1>1, <1>7 DEF TasksAnswered
<1> QED
  BY <1>1, <1>2, <1>3, <1>4, <1>5, <1>6, <1>7 DEF Next

-----------------------------------------------------------------------------
(* The invariant                                                             *)

IInv == Types /\ ServedInv /\ TasksInv /\ DataInv /\ EventInv

\* At the start there is no client.
LEMMA InitHolds == ASSUME Init PROVE IInv
<1>1. \A r \in Refs : clients[r] = NULL
  BY DEF Init
<1>2. ServedInv
  BY <1>1 DEF ServedInv, Init
<1>3. TasksInv
  BY <1>1 DEF TasksInv, GrantedTasksArrive, Waiting, Init
<1>4. EventInv
  BY DEF Init, EventInv, OnlyRegisteredAreCalled, TwoAcksAtMost, NoEvent
<1> QED
  BY <1>2, <1>3, <1>4, InitTypes, InitData DEF IInv

\* Every step of the service keeps the four invariants, and what is said of events.
THEOREM Invariance == Spec => []IInv
<1>1. Init => IInv
  BY InitHolds
<1>2. IInv /\ [Next]_vars => IInv'
  BY TypesStep, ServedStep, TasksStep, DataStep, EventStep DEF IInv
<1> QED
  BY <1>1, <1>2, PTL DEF Spec

\* A call that waits is of a client that exists: no Delete comes between the
\* subscription to the tasks and what is set when its answer is there.
THEOREM TypeCorrect == Spec => []TypeOK
<1>1. IInv => TypeOK
  BY DEF IInv, Types, TypeOK, Registrations, DataInv
<1> QED
  BY <1>1, Invariance, PTL

\* A message reaches no handler that was not added, or was removed, whichever of
\* several handlers mqttClient_RemoveIncomingMessageHandler took out.
THEOREM RegisteredOnly == Spec => []OnlyRegisteredAreCalled
<1>1. IInv => OnlyRegisteredAreCalled
  BY DEF IInv, EventInv
<1> QED
  BY <1>1, Invariance, PTL

\* The only handler of an instance is in the user data of the client and in those of
\* AirVantage.
THEOREM SoleHandler == Spec => []SoleHandlerIsInstalled
<1>1. IInv => SoleHandlerIsInstalled
  <2> SUFFICES ASSUME IInv, NEW r \in Refs \ contested, NEW h \in Handlers, clients[r] # NULL
               PROVE  /\ registered[r]["command"] = {h} =>
                           HandlerIn(clients[r], 0, "command") = {h}
                             /\ (clients[r].av => HandlerIn(clients[r], 1, "command") = {h})
                      /\ registered[r]["install"] = {h} /\ clients[r].av =>
                           HandlerIn(clients[r], 1, "install") = {h}
    BY DEF SoleHandlerIsInstalled
  <2>1. Sole(clients[r], registered[r])
    BY DEF IInv, ServedInv, Served
  <2> QED
    BY <2>1 DEF Sole
<1> QED
  BY <1>1, Invariance, PTL

\* Whatever mqtt_CreateUserData and mqtt_avCreateUserData allocated has one pointer to it
\* until mqtt_DeleteInstance frees it, for any number of instances and handlers.
THEOREM NoLeaks == Spec => []NoUserDataLeaks
<1>1. IInv => NoUserDataLeaks
  BY DEF IInv, DataInv, Counted, NoUserDataLeaks
<1> QED
  BY <1>1, Invariance, PTL

\* However large the table and whatever else is in it, a device keeps the slot of its
\* tasks.
THEOREM TasksArrive == Spec => []GrantedTasksArrive
<1>1. IInv => GrantedTasksArrive
  BY DEF IInv, TasksInv
<1> QED
  BY <1>1, Invariance, PTL

\* A command is acknowledged twice at most, for a table of any size.
THEOREM TwoAcks == Spec => []TwoAcksAtMost
<1>1. IInv => TwoAcksAtMost
  BY DEF IInv, EventInv
<1> QED
  BY <1>1, Invariance, PTL
=============================================================================
