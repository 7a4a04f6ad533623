---------------------------- MODULE TransportProofs ---------------------------
(***************************************************************************)
(* Safety of the transport, whatever the web page, the messages, the       *)
(* network and a lack of memory do.                                        *)
(***************************************************************************)
EXTENDS Transport, TLAPS

-----------------------------------------------------------------------------
\* The inductive invariant

\* Between xSemaphoreTake and xSemaphoreGive.
Inside == {"held", "stopping", "destroyed", "create", "unlock"}

\* Only one caller at a time is inside, and it is there for an operation.
LockInv ==
  /\ \A c \in Callers : pc[c] \in Inside => mutex = c
  /\ \A c \in Callers : pc[c] \in {"lock", "held"} => op[c] # "none"

\* What the caller inside knows of g_MQ.client.
ClientInv ==
  /\ \A c \in Callers : pc[c] = "create" => client = "null"
  /\ \A c \in Callers : pc[c] = "stopping" => client = "ok"
  /\ \A c \in Callers : pc[c] = "destroyed" => client = "dangling"
  /\ client = "dangling" => \E c \in Callers : pc[c] = "destroyed"
  /\ client = "ok" <=> conn # "none"

TransportInv == TypeOK /\ LockInv /\ ClientInv /\ OneClient /\ ConnectedIsTrue

USE DEF Callers, Places, Ops, Inside

LEMMA AgainType ==
  ASSUME TypeOK, NEW c \in Callers, NEW b \in BOOLEAN
  PROVE  [again EXCEPT ![c] = b] \in [Callers -> BOOLEAN]
BY Zenon DEF TypeOK

\* The parts of TypeOK: where the callers are, the client, the flags.
PlacesOK ==
  /\ mutex \in Callers \cup {"free"}
  /\ pc \in [Callers -> Places]
  /\ op \in [Callers -> Ops]

ClientOK ==
  /\ pushMode \in {0, 1}
  /\ client \in {"null", "ok", "dangling"}
  /\ conn \in {"none", "connecting", "up", "subscribed", "down"}
  /\ live \in Int

FlagsOK ==
  /\ link \in BOOLEAN /\ sleeping \in BOOLEAN /\ timerArmed \in BOOLEAN
  /\ isConnected \in BOOLEAN
  /\ again \in [Callers -> BOOLEAN]

LEMMA TypeParts == TypeOK <=> PlacesOK /\ ClientOK /\ FlagsOK
BY Zenon DEF TypeOK, PlacesOK, ClientOK, FlagsOK

LEMMA TypePartsNext == PlacesOK' /\ ClientOK' /\ FlagsOK' => TypeOK'
BY Zenon DEF TypeOK, PlacesOK, ClientOK, FlagsOK

LEMMA InitTransportInv == Init => TransportInv
<1> SUFFICES ASSUME Init PROVE TransportInv
  OBVIOUS
<1>1. TypeOK
  <2>1. PlacesOK /\ ClientOK
    BY DEF Init, PlacesOK, ClientOK, Idle, NoOp
  <2>2. Never \in [Callers -> BOOLEAN]
    BY Zenon DEF Never
  <2>3. FlagsOK
    BY <2>2, Zenon DEF Init, FlagsOK
  <2>4. QED BY <2>1, <2>3, TypeParts
<1>2. LockInv /\ ClientInv /\ OneClient /\ ConnectedIsTrue
  BY DEF Init, LockInv, ClientInv, OneClient, ConnectedIsTrue, Idle, NoOp
<1>3. QED BY <1>1, <1>2 DEF TransportInv

\* A step that leaves the client alone and moves c between places outside the
\* mutex keeps the invariant.
LEMMA OutsideStep ==
  ASSUME TransportInv, TypeOK', NEW c \in Callers, NEW place \in Places \ Inside,
         pc' = [pc EXCEPT ![c] = place], pc[c] \notin Inside \/ mutex' = "free",
         place = "lock" => op'[c] # "none",
         \A d \in Callers \ {c} : op'[d] = op[d],
         mutex' = mutex \/ (pc[c] = "unlock" /\ mutex' = "free"), UNCHANGED mqtt
  PROVE  TransportInv'
<1>1. /\ pc \in [Callers -> Places] /\ pc'[c] = place
      /\ \A d \in Callers \ {c} : pc'[d] = pc[d]
  BY DEF TransportInv, TypeOK
<1>2. LockInv'
  <2>1. ASSUME NEW d \in Callers, pc'[d] \in Inside PROVE mutex' = d
    BY <1>1, <2>1 DEF TransportInv, LockInv
  <2>2. ASSUME NEW d \in Callers, pc'[d] \in {"lock", "held"} PROVE op'[d] # "none"
    BY <1>1, <2>2 DEF TransportInv, LockInv
  <2>3. QED BY <2>1, <2>2 DEF LockInv
<1>3. ClientInv'
  <2>1. client' = "dangling" => \E d \in Callers : pc'[d] = "destroyed"
    <3>1. SUFFICES ASSUME client = "dangling" PROVE \E d \in Callers : pc'[d] = "destroyed"
      BY DEF mqtt
    <3>2. PICK d \in Callers : pc[d] = "destroyed"
      BY <3>1 DEF TransportInv, ClientInv
    <3>3. d # c
      BY <1>1, <3>2 DEF TransportInv, LockInv, TypeOK
    <3>4. QED BY <1>1, <3>2, <3>3
  <2>2. \A d \in Callers : pc'[d] \in {"create", "stopping", "destroyed"} => pc[d] = pc'[d]
    BY <1>1
  <2>3. QED BY <2>1, <2>2 DEF TransportInv, ClientInv, mqtt
<1>4. OneClient' /\ ConnectedIsTrue'
  BY DEF TransportInv, OneClient, ConnectedIsTrue, mqtt
<1>5. QED BY <1>2, <1>3, <1>4 DEF TransportInv

\* The steps outside the mutex.
LEMMA PushSteps ==
  ASSUME TransportInv, NEW c \in Callers, PushStop(c) \/ PushStart(c) PROVE TransportInv'
<1>1. TypeOK'
  <2>1. PlacesOK' /\ ClientOK'
    BY DEF TransportInv, TypeOK, PlacesOK, ClientOK, PushStop, PushStart, Return,
           outside, mqtt
  <2>2. again' = again \/ again' = [again EXCEPT ![c] = FALSE]
    BY Zenon DEF PushStop, PushStart, Return
  <2>3. timerArmed' = timerArmed \/ timerArmed' = FALSE
    BY Zenon DEF PushStop, PushStart
  <2>4. link' = link /\ sleeping' = sleeping /\ isConnected' = isConnected
    BY DEF PushStop, PushStart, mqtt, outside
  <2>5. TypeOK /\ FlagsOK
    BY TypeParts DEF TransportInv
  <2>6. again' \in [Callers -> BOOLEAN]
    BY <2>2, <2>5, AgainType, Zenon DEF FlagsOK
  <2>7. timerArmed' \in BOOLEAN
    BY <2>3, <2>5, Zenon DEF FlagsOK
  <2>8. FlagsOK'
    BY <2>4, <2>5, <2>6, <2>7, Zenon DEF FlagsOK
  <2>9. QED BY <2>1, <2>8, TypePartsNext
<1>2. PICK place \in {"push_start", "idle", "lock"} :
        /\ pc' = [pc EXCEPT ![c] = place]
        /\ place = "lock" => op'[c] # "none"
  BY DEF TransportInv, TypeOK, PushStop, PushStart, Return
<1>3. \A d \in Callers \ {c} : op'[d] = op[d]
  BY DEF TransportInv, TypeOK, PushStop, PushStart, Return
<1>4. pc[c] \notin Inside /\ UNCHANGED mqtt /\ mutex' = mutex
  BY DEF PushStop, PushStart
<1>5. QED BY <1>1, <1>2, <1>3, <1>4, OutsideStep

LEMMA UnlockStep ==
  ASSUME TransportInv, NEW c \in Callers, Unlock(c) PROVE TransportInv'
<1>1. TypeOK'
  BY DEF TransportInv, TypeOK, Unlock, Return, outside, mqtt
<1>2. PICK place \in {"push_start", "idle"} : pc' = [pc EXCEPT ![c] = place]
  BY DEF TransportInv, TypeOK, Unlock, Return
<1>3. \A d \in Callers \ {c} : op'[d] = op[d]
  BY DEF TransportInv, TypeOK, Unlock, Return
<1>4. pc[c] = "unlock" /\ UNCHANGED mqtt /\ mutex' = "free"
  BY DEF Unlock
<1>5. QED BY <1>1, <1>2, <1>3, <1>4, OutsideStep

LEMMA CallSteps ==
  ASSUME TransportInv,
         DataPushMode \/ LinkUp \/ LinkDown \/ NetworkStops \/ WebRestart \/ SleepBegins
         \/ TimerFires \/ TimerCheck
  PROVE  TransportInv'
<1>1. TypeOK'
  <2>1. PlacesOK'
    <3>1. mutex' = mutex
      BY DEF DataPushMode, LinkUp, LinkDown, NetworkStops, WebRestart, SleepBegins,
             TimerFires, TimerCheck
    <3>2. \E c \in Callers, place \in Places : pc' = [pc EXCEPT ![c] = place]
      BY DEF DataPushMode, LinkUp, LinkDown, NetworkStops, WebRestart, SleepBegins, TimerFires,
             TimerCheck, Call, Goto
    <3>3. op' = op \/ op' = [op EXCEPT !["timer"] = "mqtt_restart"]
      BY DEF DataPushMode, LinkUp, LinkDown, NetworkStops, WebRestart, SleepBegins,
             TimerFires, TimerCheck
    <3>4. TypeOK
      BY DEF TransportInv
    <3>5. pc' \in [Callers -> Places]
      BY <3>2, <3>4 DEF TypeOK
    <3>6. op' \in [Callers -> Ops]
      BY <3>3, <3>4 DEF TypeOK
    <3>7. QED BY <3>1, <3>4, <3>5, <3>6 DEF TypeOK, PlacesOK
  <2>2. ClientOK'
    <3>1. pushMode' = pushMode \/ pushMode' = 1 - pushMode
      BY DEF DataPushMode, LinkUp, LinkDown, NetworkStops, WebRestart, SleepBegins, TimerFires,
             TimerCheck, outside
    <3>2. UNCHANGED <<client, conn, live>>
      BY DEF DataPushMode, LinkUp, LinkDown, NetworkStops, WebRestart, SleepBegins, TimerFires,
             TimerCheck, mqtt
    <3>3. ClientOK
      BY TypeParts DEF TransportInv
    <3>4. QED BY <3>1, <3>2, <3>3 DEF ClientOK
  <2>3. again' = again \/ \E c \in Callers, b \in BOOLEAN : again' = [again EXCEPT ![c] = b]
    BY Zenon DEF DataPushMode, LinkUp, LinkDown, NetworkStops, WebRestart, SleepBegins,
                 TimerFires,
                 TimerCheck, Call
  <2>4. link' \in BOOLEAN /\ sleeping' \in BOOLEAN /\ timerArmed' \in BOOLEAN
    BY Zenon DEF TransportInv, TypeOK, DataPushMode, LinkUp, LinkDown, NetworkStops, WebRestart,
                 SleepBegins, TimerFires, TimerCheck, outside
  <2>5. isConnected' = isConnected
    BY Zenon DEF DataPushMode, LinkUp, LinkDown, NetworkStops, WebRestart, SleepBegins,
                 TimerFires,
                 TimerCheck, mqtt
  <2>6. TypeOK /\ FlagsOK
    BY TypeParts DEF TransportInv
  <2>7. again' \in [Callers -> BOOLEAN]
    BY <2>3, <2>6, AgainType, Zenon DEF FlagsOK
  <2>8. FlagsOK'
    BY <2>4, <2>5, <2>6, <2>7, Zenon DEF FlagsOK
  <2>9. QED BY <2>1, <2>2, <2>8, TypePartsNext
<1>2. UNCHANGED mqtt /\ mutex' = mutex
  BY DEF DataPushMode, LinkUp, LinkDown, NetworkStops, WebRestart, SleepBegins,
         TimerFires, TimerCheck
<1>3. PICK c \in Callers, place \in {"push_stop", "push_start", "check", "lock", "idle"} :
        /\ pc' = [pc EXCEPT ![c] = place] /\ pc[c] \in {"idle", "check"}
        /\ place = "lock" => op'[c] # "none"
        /\ \A d \in Callers \ {c} : op'[d] = op[d]
  <2>1. CASE DataPushMode
    BY <2>1 DEF DataPushMode, Call, Goto
  <2>2. CASE LinkUp \/ LinkDown \/ NetworkStops \/ WebRestart \/ SleepBegins \/ TimerFires
    BY <2>2 DEF LinkUp, LinkDown, NetworkStops, WebRestart, SleepBegins, TimerFires, Call, Goto
  <2>3. CASE TimerCheck
    BY <2>3 DEF TransportInv, TypeOK, TimerCheck, Goto
  <2>4. QED BY <2>1, <2>2, <2>3
<1>4. QED BY <1>1, <1>2, <1>3, OutsideStep

LEMMA LockStep ==
  ASSUME TransportInv, NEW c \in Callers, Lock(c) PROVE TransportInv'
<1>1. TypeOK'
  BY DEF TransportInv, TypeOK, Lock, Goto, outside, mqtt
<1>2. /\ pc[c] = "lock" /\ pc'[c] = "held" /\ mutex = "free" /\ mutex' = c
      /\ \A d \in Callers \ {c} : pc'[d] = pc[d]
      /\ op' = op /\ UNCHANGED mqtt
  BY DEF TransportInv, TypeOK, Lock, Goto
<1>3. LockInv'
  BY <1>2 DEF TransportInv, LockInv
<1>4. \A d \in Callers : pc[d] \notin Inside
  BY <1>2 DEF TransportInv, LockInv
<1>5. ClientInv'
  BY <1>2, <1>4 DEF TransportInv, ClientInv, mqtt
<1>6. OneClient' /\ ConnectedIsTrue'
  BY <1>2 DEF TransportInv, OneClient, ConnectedIsTrue, mqtt
<1>7. QED BY <1>1, <1>3, <1>5, <1>6 DEF TransportInv

\* The steps inside the mutex: nobody else is inside.
LEMMA InsideStep ==
  ASSUME TransportInv, NEW c \in Callers,
         Decide(c) \/ StopClient(c) \/ ForgetClient(c) \/ CreateClient(c)
  PROVE  TransportInv'
<1>1. /\ pc[c] \in Inside \ {"unlock"} /\ mutex' = mutex /\ op' = op
      /\ \A d \in Callers \ {c} : pc[d] \notin Inside /\ pc'[d] = pc[d]
      /\ pc \in [Callers -> Places] /\ op[c] \in Ops
  BY DEF TransportInv, TypeOK, LockInv, Decide, StopClient, ForgetClient, CreateClient, Goto
<1>2. CASE Decide(c)
  <2>1. /\ client \in {"null", "ok"} /\ op[c] # "none" /\ pc[c] = "held"
    BY <1>1, <1>2 DEF TransportInv, TypeOK, LockInv, ClientInv, Decide, Goto
  <2>2. /\ pc'[c] \in {"create", "unlock", "stopping"}
        /\ pc'[c] = "create" => client = "null"
        /\ pc'[c] = "stopping" => client = "ok"
    BY <1>1, <1>2, <2>1 DEF Decide, Goto, Todo
  <2>3. TypeOK'
    BY <1>1, <1>2, <2>2 DEF TransportInv, TypeOK, Decide, Goto, outside, mqtt
  <2>4. UNCHANGED mqtt
    BY <1>2 DEF Decide
  <2>5. LockInv'
    BY <1>1, <2>1, <2>2 DEF TransportInv, LockInv
  <2>6. ClientInv'
    BY <1>1, <2>1, <2>2, <2>4 DEF TransportInv, ClientInv, mqtt
  <2>7. OneClient' /\ ConnectedIsTrue'
    BY <2>4 DEF TransportInv, OneClient, ConnectedIsTrue, mqtt
  <2>8. QED BY <2>3, <2>5, <2>6, <2>7 DEF TransportInv
<1>3. CASE StopClient(c)
  <2>1. /\ pc[c] = "stopping" /\ pc'[c] = "destroyed" /\ client = "ok"
        /\ client' = "dangling" /\ conn' = "none" /\ live' = live - 1
    BY <1>1, <1>3 DEF TransportInv, ClientInv, StopClient, Goto
  <2>2. TypeOK'
    BY <1>3, <2>1 DEF TransportInv, TypeOK, StopClient, Goto, outside
  <2>3. LockInv' /\ ClientInv'
    BY <1>1, <2>1 DEF TransportInv, LockInv, ClientInv
  <2>4. OneClient' /\ ConnectedIsTrue'
    BY <2>1 DEF TransportInv, TypeOK, OneClient, ConnectedIsTrue
  <2>5. QED BY <2>2, <2>3, <2>4 DEF TransportInv
<1>4. CASE ForgetClient(c)
  <2>1. /\ pc[c] = "destroyed" /\ pc'[c] \in {"create", "unlock"}
        /\ client = "dangling" /\ client' = "null" /\ ~isConnected'
        /\ conn' = conn /\ live' = live
    BY <1>1, <1>4 DEF TransportInv, ClientInv, ForgetClient, Goto
  <2>2. TypeOK'
    BY <1>4, <2>1 DEF TransportInv, TypeOK, ForgetClient, Goto, outside
  <2>3. LockInv' /\ ClientInv'
    BY <1>1, <2>1 DEF TransportInv, LockInv, ClientInv
  <2>4. OneClient' /\ ConnectedIsTrue'
    BY <2>1 DEF TransportInv, OneClient, ConnectedIsTrue
  <2>5. QED BY <2>2, <2>3, <2>4 DEF TransportInv
<1>5. CASE CreateClient(c)
  <2>1. /\ pc[c] = "create" /\ pc'[c] = "unlock" /\ client = "null"
        /\ isConnected' = isConnected /\ ~isConnected
        /\ \/ client' = "ok" /\ conn' = "connecting" /\ live' = live + 1
           \/ client' = "null" /\ conn' = conn /\ live' = live
    BY <1>1, <1>5 DEF TransportInv, ClientInv, ConnectedIsTrue, CreateClient, Goto
  <2>2. TypeOK'
    BY <1>5, <2>1 DEF TransportInv, TypeOK, CreateClient, Goto, outside
  <2>3. LockInv' /\ ClientInv'
    BY <1>1, <2>1 DEF TransportInv, LockInv, ClientInv
  <2>4. OneClient' /\ ConnectedIsTrue'
    BY <2>1 DEF TransportInv, TypeOK, OneClient, ConnectedIsTrue
  <2>5. QED BY <2>2, <2>3, <2>4 DEF TransportInv
<1>6. QED BY <1>2, <1>3, <1>4, <1>5

\* The events of the client, which move only its connection.
LEMMA EventSteps ==
  ASSUME TransportInv, Connected \/ Subscribed \/ Disconnected PROVE TransportInv'
<1>1. conn # "none" /\ conn' # "none" /\ client = "ok"
  BY DEF TransportInv, ClientInv, Connected, Subscribed, Disconnected
<1>2. UNCHANGED <<client, live, mutex, pc, op>>
  BY DEF Connected, Subscribed, Disconnected
<1>3. TypeOK'
  BY DEF TransportInv, TypeOK, Connected, Subscribed, Disconnected, outside
<1>4. LockInv' /\ ClientInv' /\ OneClient'
  BY <1>1, <1>2 DEF TransportInv, LockInv, ClientInv, OneClient
<1>5. ConnectedIsTrue'
  BY <1>1 DEF TransportInv, ConnectedIsTrue, Connected, Subscribed, Disconnected
<1>6. QED BY <1>3, <1>4, <1>5 DEF TransportInv

LEMMA QuietSteps ==
  ASSUME TransportInv, DataBroker \/ WebPushMode \/ UNCHANGED vars PROVE TransportInv'
<1>1. UNCHANGED <<mqtt, mutex, pc, op>>
  BY DEF DataBroker, WebPushMode, vars, mqtt
<1>2. TypeOK'
  <2>1. PlacesOK'
    BY <1>1 DEF TransportInv, TypeOK, PlacesOK
  <2>2. ClientOK'
    BY DEF TransportInv, TypeOK, ClientOK, DataBroker, WebPushMode, vars, outside, mqtt
  <2>3. FlagsOK'
    BY Zenon DEF TransportInv, TypeOK, FlagsOK, DataBroker, WebPushMode, vars, outside, mqtt
  <2>4. QED BY <2>1, <2>2, <2>3, TypePartsNext
<1>3. QED
  BY <1>1, <1>2 DEF TransportInv, LockInv, ClientInv, OneClient, ConnectedIsTrue, mqtt

LEMMA SleepStep == ASSUME TransportInv, DeepSleep PROVE TransportInv'
<1>1. TypeOK'
  <2>1. PlacesOK' /\ ClientOK'
    BY DEF TransportInv, TypeOK, PlacesOK, ClientOK, DeepSleep, Idle, NoOp
  <2>2. Never \in [Callers -> BOOLEAN]
    BY Zenon DEF Never
  <2>3. FlagsOK'
    BY <2>2, Zenon DEF DeepSleep, FlagsOK
  <2>4. QED BY <2>1, <2>3, TypePartsNext
<1>2. LockInv' /\ ClientInv' /\ OneClient' /\ ConnectedIsTrue'
  BY DEF DeepSleep, LockInv, ClientInv, OneClient, ConnectedIsTrue, Idle, NoOp
<1>3. QED BY <1>1, <1>2 DEF TransportInv

THEOREM TransportInvariant == Spec => []TransportInv
<1>1. TransportInv /\ [Next]_vars => TransportInv'
  <2> SUFFICES ASSUME TransportInv, [Next]_vars PROVE TransportInv'
    OBVIOUS
  <2>1. ASSUME NEW c \in Callers, CallStep(c) PROVE TransportInv'
    BY <2>1, PushSteps, UnlockStep, LockStep, InsideStep DEF CallStep
  <2>2. CASE TimerCheck \/ Events \/ Environment
    BY <2>2, CallSteps, EventSteps, QuietSteps DEF Events, Environment
  <2>3. CASE DeepSleep \/ UNCHANGED vars
    BY <2>3, SleepStep, QuietSteps
  <2>4. QED BY <2>1, <2>2, <2>3 DEF Next
<1>2. QED BY <1>1, InitTransportInv, PTL DEF Spec

-----------------------------------------------------------------------------
\* There is never more than one MQTT client, none leaks and none is destroyed
\* twice.
THEOREM AtMostOneClient == Spec => []OneClient
<1>1. TransportInv => OneClient BY DEF TransportInv
<1>2. QED BY <1>1, TransportInvariant, PTL

\* What the push task is told about the connection is true.
THEOREM ConnectedMeansConnected == Spec => []ConnectedIsTrue
<1>1. TransportInv => ConnectedIsTrue BY DEF TransportInv
<1>2. QED BY <1>1, TransportInvariant, PTL
=============================================================================
