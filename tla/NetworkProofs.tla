----------------------------- MODULE NetworkProofs -----------------------------
(***************************************************************************)
(* Safety of a boot of the network, for every size of the event queue,     *)
(* number of retries and of provisioning tasks, and every fault.           *)
(***************************************************************************)
EXTENDS Network, TLAPS

USE MaxRetriesAssumption, FittedAssumption
    DEF Reconnectors, CallPlaces, DppPlaces, Openers, StarterPlaces, LteCallPlaces

-----------------------------------------------------------------------------
\* The steps, by the variables they leave alone

\* The station, its event handlers and whoever connects it.
StaStep ==
  /\ fitted # "cat1" /\ UNCHANGED <<dppVars, cat1Vars>>
  /\ \/ WifiOpen \/ WifiRetry \/ WifiOpened \/ HandleStaEvent \/ WriteBits \/ WriteFlag
     \/ Driver \/ HttpReconnect \/ HttpReconnected
     \/ \E c \in Reconnectors : ReconnectStep(c)

ProvisionStep ==
  /\ fitted # "cat1" /\ UNCHANGED cat1Vars
  /\ \E d \in DppTasks : DoubleClick(d) \/ DppStep(d)

ModemStep ==
  /\ fitted = "cat1" /\ UNCHANGED <<wifiVars, dppVars>>
  /\ \/ LteOpen \/ LteOpened \/ HandleLteEvent \/ Modem \/ HttpRestart \/ LteRestart
     \/ \E c \in Openers : LteWait(c)
     \/ \E s \in Openers : StarterStep(s)

PushStep == writing = "none" /\ HandlePush /\ UNCHANGED <<wifiVars, dppVars, cat1Vars>>

LEMMA NextCases == Next => StaStep \/ ProvisionStep \/ ModemStep \/ PushStep \/ Work
BY DEF Next, Main, EventTask, WebPage, Outside, Provisioner, OnlyWifi, OnlyLte,
       StaOpens, StaHandler, StaStep, ProvisionStep, ModemStep, PushStep, LteRestart

-----------------------------------------------------------------------------
\* Types

FlagsOK ==
  /\ config \in BOOLEAN /\ pushOn \in BOOLEAN /\ lateStop \in BOOLEAN
  /\ isConnected \in BOOLEAN /\ fresh \in BOOLEAN /\ late \in BOOLEAN
  /\ dppRunning \in BOOLEAN /\ dppDone \in BOOLEAN /\ overlap \in BOOLEAN

\* Everything else.  A try that is still to come is counted below the limit.
PlacesOK ==
  /\ fitted \in Fitted
  /\ mainPc \in {"open", "retry", "lte", "opened", "waiting", "asleep", "panic"}
  /\ events \in Seq(EventNames)
  /\ handling \in {"none", "push_start", "push_stop"}
  /\ sta \in {"idle", "connecting", "retrying", "assoc", "up"}
  /\ bits \subseteq {"CONNECT", "DISCONNECT", "LINK_UP"}
  /\ writing \in {"none", "disconnect", "flag", "link_up", "clear", "connect"}
  /\ retries \in 0..MaxRetries
  /\ mainPc \in {"open", "retry"} => retries < MaxRetries
  /\ call \in [Reconnectors -> CallPlaces]
  /\ dppPc \in [DppTasks -> DppPlaces]
  /\ Cat1TypeOK

LEMMA TypeParts == FlagsOK /\ PlacesOK => TypeOK
BY Zenon DEF TypeOK, NetTypeOK, WifiTypeOK, DppTypeOK, FlagsOK, PlacesOK

LEMMA StaStepFlags == FlagsOK /\ StaStep => FlagsOK'
<1> SUFFICES ASSUME FlagsOK, StaStep PROVE FlagsOK'
  OBVIOUS
<1> USE DEF FlagsOK, netVars, wifiVars, dppVars
<1>0. UNCHANGED <<dppRunning, dppDone, overlap>>
  BY DEF StaStep
<1>1. CASE WifiOpen \/ WifiRetry \/ WifiOpened
  BY <1>0, <1>1, Zenon DEF WifiOpen, WifiRetry, WifiOpened
<1>2. CASE HandleStaEvent \/ WriteBits \/ WriteFlag
  BY <1>0, <1>2, Zenon DEF HandleStaEvent, HandleStaStart, HandleDisconnected,
     HandleConnected, HandleGotIp, WriteBits, WriteFlag
<1>3. CASE Driver
  BY <1>0, <1>3, Zenon DEF Driver, StaAssociates, StaGetsIp, StaFails, StaDrops
<1>4. CASE HttpReconnect \/ HttpReconnected
  BY <1>0, <1>4, Zenon DEF HttpReconnect, ReconnectStart, HttpReconnected
<1>5. ASSUME NEW c \in Reconnectors, ReconnectStep(c) PROVE FlagsOK'
  BY <1>0, <1>5, Zenon DEF ReconnectStep, ReconnectWaits, ReconnectConnects, ReconnectOk,
     ReconnectFails
<1>6. QED BY <1>1, <1>2, <1>3, <1>4, <1>5 DEF StaStep

LEMMA StaStepPlaces == PlacesOK /\ StaStep => PlacesOK'
<1> SUFFICES ASSUME PlacesOK, StaStep PROVE PlacesOK'
  OBVIOUS
<1> USE DEF PlacesOK, netVars, wifiVars
<1>0. UNCHANGED <<dppPc, dce, ppp, lteBits, starter, lteCall>>
  BY DEF StaStep, dppVars, cat1Vars
<1>1. Cat1TypeOK'
  BY <1>0 DEF Cat1TypeOK
<1> USE DEF EventNames
<1>2. CASE WifiOpen
  BY <1>0, <1>1, <1>2 DEF WifiOpen, Post
<1>3. CASE WifiRetry
  BY <1>0, <1>1, <1>3 DEF WifiRetry, StaConnect, PostIf
<1>4. CASE WifiOpened
  BY <1>0, <1>1, <1>4 DEF WifiOpened
<1>5. CASE HandleStaEvent
  <2>1. events' \in Seq(EventNames)
    BY <1>5 DEF HandleStaEvent
  <2>2. QED
    BY <1>0, <1>1, <1>5, <2>1 DEF HandleStaEvent, HandleStaStart, HandleDisconnected,
       HandleConnected, HandleGotIp
<1>6. CASE Driver
  BY <1>0, <1>1, <1>6 DEF Driver, StaAssociates, StaGetsIp, StaFails, StaDrops, Post
<1>7. CASE HttpReconnect
  BY <1>0, <1>1, <1>7 DEF HttpReconnect, ReconnectStart, CallGoes, StaDisconnect, PostIf
<1>8. CASE HttpReconnected
  BY <1>0, <1>1, <1>8 DEF HttpReconnected
<1>9. ASSUME NEW c \in Reconnectors, ReconnectStep(c) PROVE PlacesOK'
  <2>1. CASE ReconnectWaits(c)
    BY <1>0, <1>1, <2>1 DEF ReconnectWaits, CallGoes
  <2>2. CASE ReconnectConnects(c)
    BY <1>0, <1>1, <2>2 DEF ReconnectConnects, CallGoes, StaConnect, PostIf
  <2>3. CASE ReconnectOk(c)
    BY <1>0, <1>1, <2>3 DEF ReconnectOk, CallGoes
  <2>4. CASE ReconnectFails(c)
    BY <1>0, <1>1, <2>4 DEF ReconnectFails, CallGoes
  <2>5. QED BY <1>9, <2>1, <2>2, <2>3, <2>4 DEF ReconnectStep
<1>10. CASE WriteBits \/ WriteFlag
  BY <1>0, <1>1, <1>10 DEF WriteBits, WriteFlag
<1>11. QED BY <1>2, <1>3, <1>4, <1>5, <1>6, <1>7, <1>8, <1>9, <1>10 DEF StaStep

LEMMA ProvisionStepFlags == FlagsOK /\ ProvisionStep => FlagsOK'
<1> SUFFICES ASSUME FlagsOK, NEW d \in DppTasks, DoubleClick(d) \/ DppStep(d)
             PROVE  FlagsOK'
  BY DEF ProvisionStep
<1> USE DEF FlagsOK, netVars, wifiVars, StopLate, SetDppDone
<1>1. CASE DoubleClick(d) \/ DppClear(d) \/ DppPushStop(d) \/ DppRefused(d) \/ DppPasses(d)
  BY <1>1, Zenon DEF DoubleClick, DppClear, DppPushStop, DppRefused, DppPasses
<1>2. CASE DppDisconnects(d) \/ DppNoMemory(d) \/ DppGivesUp(d) \/ DppConfigured(d)
  BY <1>2, Zenon DEF DppDisconnects, DppNoMemory, DppGivesUp, DppConfigured, ReconnectStart
<1>3. CASE DppReconnected(d)
  BY <1>3, Zenon DEF DppReconnected
<1>4. CASE DppEnd(d)
  <2>1. (\E e \in DppTasks : Provisioning(e)) \in BOOLEAN
    OBVIOUS
  <2>2. QED BY <1>4, <2>1, Zenon DEF DppEnd
<1>5. QED BY <1>1, <1>2, <1>3, <1>4 DEF DppStep

LEMMA ProvisionStepPlaces == PlacesOK /\ ProvisionStep => PlacesOK'
<1> SUFFICES ASSUME PlacesOK, NEW d \in DppTasks, DoubleClick(d) \/ DppStep(d),
                    UNCHANGED cat1Vars
             PROVE  PlacesOK'
  BY DEF ProvisionStep
<1> USE DEF PlacesOK, netVars, wifiVars
<1>0. Cat1TypeOK'
  BY DEF Cat1TypeOK, cat1Vars
<1> USE DEF EventNames, DppGoes
<1>1. CASE DoubleClick(d) \/ DppClear(d) \/ DppPushStop(d) \/ DppRefused(d) \/ DppPasses(d)
  <2>1. UNCHANGED <<fitted, mainPc, events, handling, sta, bits, writing, retries, call>>
    BY <1>1 DEF DoubleClick, DppClear, DppPushStop, DppRefused, DppPasses
  <2>2. dppPc' \in [DppTasks -> DppPlaces]
    BY <1>1 DEF DoubleClick, DppClear, DppPushStop, DppRefused, DppPasses
  <2>3. QED BY <1>0, <2>1, <2>2
<1>2. CASE DppDisconnects(d)
  <2>1. events' \in Seq(EventNames) /\ sta' = "idle"
    BY <1>2 DEF DppDisconnects, StaDisconnect, PostIf
  <2>2. UNCHANGED <<fitted, mainPc, handling, bits, writing, retries, call>>
        /\ dppPc' = [dppPc EXCEPT ![d] = "wait"]
    BY <1>2 DEF DppDisconnects
  <2>3. QED BY <1>0, <2>1, <2>2
<1>3. CASE DppNoMemory(d) \/ DppGivesUp(d)
  BY <1>0, <1>3 DEF DppNoMemory, DppGivesUp
<1>4. CASE DppConfigured(d)
  BY <1>0, <1>4 DEF DppConfigured, ReconnectStart, CallGoes, StaDisconnect, PostIf
<1>5. CASE DppReconnected(d)
  BY <1>0, <1>5 DEF DppReconnected
<1>6. CASE DppEnd(d)
  BY <1>0, <1>6 DEF DppEnd
<1>7. QED BY <1>1, <1>2, <1>3, <1>4, <1>5, <1>6 DEF DppStep

LEMMA ModemStepFlags == FlagsOK /\ ModemStep => FlagsOK'
<1> SUFFICES ASSUME FlagsOK, ModemStep PROVE FlagsOK'
  OBVIOUS
<1> USE DEF FlagsOK, netVars, StopLate
<1>0. UNCHANGED <<isConnected, fresh, late, dppRunning, dppDone, overlap>>
  BY DEF ModemStep, wifiVars, dppVars
<1>1. CASE LteOpen \/ LteOpened \/ HandleLteEvent \/ Modem
  BY <1>0, <1>1, Zenon DEF LteOpen, LteOpened, HandleLteEvent, Modem
<1>2. CASE HttpRestart \/ LteRestart
  BY <1>0, <1>2, Zenon DEF HttpRestart, LteRestart, RestartDestroys, RestartOpens
<1>3. ASSUME NEW c \in Openers, LteWait(c) PROVE FlagsOK'
  BY <1>0, <1>3, Zenon DEF LteWait, WaitEnds, WaitStops
<1>4. ASSUME NEW s \in Openers, StarterStep(s) PROVE FlagsOK'
  BY <1>0, <1>4, Zenon DEF StarterStep
<1>5. QED BY <1>1, <1>2, <1>3, <1>4 DEF ModemStep

LEMMA ModemStepModem == Cat1TypeOK /\ ModemStep => Cat1TypeOK'
<1> SUFFICES ASSUME Cat1TypeOK, ModemStep PROVE Cat1TypeOK'
  OBVIOUS
<1> USE DEF Cat1TypeOK, netVars, cat1Vars, LteGoes, StarterGoes
<1>1. CASE LteOpen \/ LteOpened
  BY <1>1 DEF LteOpen, Cat1Open, LteOpened
<1>2. CASE HandleLteEvent
  BY <1>2 DEF HandleLteEvent
<1>3. CASE Modem
  BY <1>3 DEF Modem, PppUp, PppFails, PppDrops
<1>4. CASE HttpRestart
  BY <1>4 DEF HttpRestart
<1>5. CASE RestartDestroys
  BY <1>5 DEF RestartDestroys
<1>6. CASE RestartOpens
  BY <1>6 DEF RestartOpens, Cat1Open
<1>7. ASSUME NEW c \in Openers, LteWait(c) PROVE Cat1TypeOK'
  BY <1>7 DEF LteWait, WaitEnds, WaitStops
<1>8. ASSUME NEW s \in Openers, StarterStep(s) PROVE Cat1TypeOK'
  <2>1. CASE StarterClears(s) \/ StarterFindsModem(s) \/ StarterAttaches(s)
    BY <1>8, <2>1 DEF StarterStep, StarterClears, StarterFindsModem, StarterAttaches
  <2>2. CASE StarterFails(s)
    BY <1>8, <2>2 DEF StarterStep, StarterFails
  <2>3. CASE StarterDials(s)
    BY <1>8, <2>3 DEF StarterStep, StarterDials
  <2>4. QED BY <1>8, <2>1, <2>2, <2>3 DEF StarterStep
<1>9. QED BY <1>1, <1>2, <1>3, <1>4, <1>5, <1>6, <1>7, <1>8 DEF ModemStep, LteRestart

LEMMA ModemStepPlaces == PlacesOK /\ ModemStep => PlacesOK'
<1> SUFFICES ASSUME PlacesOK, ModemStep PROVE PlacesOK'
  OBVIOUS
<1> USE DEF netVars, EventNames
<1>1. UNCHANGED <<sta, bits, retries, call, dppPc>>
  BY DEF ModemStep, wifiVars, dppVars
<1>2. Cat1TypeOK'
  BY ModemStepModem DEF PlacesOK
<1>3. /\ fitted' = fitted
      /\ mainPc' = mainPc \/ mainPc' \in {"lte", "opened", "panic"}
      /\ handling' = handling \/ handling' \in {"push_start", "push_stop"}
  <2>1. CASE LteOpen \/ LteOpened \/ HandleLteEvent \/ Modem \/ HttpRestart \/ LteRestart
    BY <2>1 DEF LteOpen, LteOpened, HandleLteEvent, HandlePppLost, Modem, HttpRestart,
       LteRestart, RestartDestroys, RestartOpens
  <2>2. CASE \E c \in Openers : LteWait(c) \/ StarterStep(c)
    BY <2>2 DEF LteWait, WaitEnds, WaitStops, StarterStep
  <2>3. QED BY <2>1, <2>2 DEF ModemStep
<1>4. events' \in Seq(EventNames)
  <2>1. CASE LteOpen \/ LteOpened \/ HttpRestart \/ RestartOpens
    BY <2>1 DEF PlacesOK, LteOpen, LteOpened, HttpRestart, RestartOpens
  <2>2. CASE HandleLteEvent
    BY <2>2 DEF PlacesOK, HandleLteEvent
  <2>3. CASE Modem
    BY <2>3 DEF PlacesOK, Modem, PppUp, PppFails, PppDrops, Post
  <2>4. CASE RestartDestroys
    BY <2>4 DEF PlacesOK, RestartDestroys, PostIf
  <2>5. CASE \E c \in Openers : LteWait(c) \/ StarterStep(c)
    BY <2>5 DEF PlacesOK, LteWait, WaitEnds, WaitStops, StarterStep
  <2>6. QED BY <2>1, <2>2, <2>3, <2>4, <2>5 DEF ModemStep, LteRestart
<1>5. mainPc' \in {"open", "retry"} => retries' < MaxRetries
  BY <1>1, <1>3 DEF PlacesOK
<1>6. UNCHANGED <<sta, bits, writing, retries, call, dppPc>>
  BY DEF ModemStep, wifiVars, dppVars
<1>7. QED BY <1>2, <1>3, <1>4, <1>5, <1>6 DEF PlacesOK

LEMMA OtherStepType ==
  FlagsOK /\ PlacesOK /\ (PushStep \/ Work \/ UNCHANGED vars) => FlagsOK' /\ PlacesOK'
<1> SUFFICES ASSUME FlagsOK, PlacesOK, PushStep \/ Work \/ UNCHANGED vars
             PROVE  FlagsOK' /\ PlacesOK'
  OBVIOUS
<1> USE DEF PushStep, HandlePush, Work, MainWaits, MainSleeps, SetDppDone, vars, netVars,
        wifiVars, dppVars
<1>1. FlagsOK'
  <2>1. (\E d \in DppTasks : Provisioning(d)) \in BOOLEAN /\ (handling = "push_start") \in BOOLEAN
    OBVIOUS
  <2>2. QED BY <2>1, Zenon DEF FlagsOK
<1>2. PlacesOK'
  <2>1. Cat1TypeOK'
    BY DEF PlacesOK, Cat1TypeOK, cat1Vars
  <2>2. QED BY <2>1 DEF PlacesOK
<1>3. QED BY <1>1, <1>2

LEMMA InitType == Init => FlagsOK /\ PlacesOK
<1> SUFFICES ASSUME Init PROVE FlagsOK /\ PlacesOK
  OBVIOUS
<1> USE DEF Init, NetInit, WifiInit, DppInit, Cat1Init
<1>1. FlagsOK
  BY Zenon DEF FlagsOK
<1>2. PlacesOK
  BY DEF PlacesOK, Cat1TypeOK
<1>3. QED BY <1>1, <1>2

LEMMA TypeInvariant == Spec => [](FlagsOK /\ PlacesOK)
<1>1. FlagsOK /\ PlacesOK /\ [Next]_vars => FlagsOK' /\ PlacesOK'
  BY NextCases, StaStepFlags, StaStepPlaces, ProvisionStepFlags, ProvisionStepPlaces,
     ModemStepFlags, ModemStepPlaces, OtherStepType
<1>2. QED BY InitType, <1>1, PTL DEF Spec

\* Every variable of a boot of the network has its type: no wait is started for
\* a caller that does not exist, and wifi_open never tries more often than
\* WIFI_STA_CONNECT_MAX_RETRIES.
THEOREM NetworkTypeCorrect == Spec => []TypeOK
BY TypeInvariant, TypeParts, PTL

-----------------------------------------------------------------------------
\* The queue of events

\* The events that tell whether the network is up, and those that say it is.
Words == {"disconnected", "got_ip", "ppp_up", "ppp_lost"}
UpWords == {"got_ip", "ppp_up"}
DownWords == Words \ UpWords

Silent(q) == \A k \in 1..Len(q) : q[k] \notin Words

\* The last word of q, if it has one, is in S.
LastIn(q, S) ==
  \A k \in 1..Len(q) :
    q[k] \in Words \ S => \E j \in 1..Len(q) : j > k /\ q[j] \in S

LEMMA AppendWord ==
  ASSUME NEW q \in Seq(EventNames), NEW S \in SUBSET Words, NEW e \in S
  PROVE  LastIn(Append(q, e), S) /\ ~Silent(Append(q, e))
<1> DEFINE a == Append(q, e)
<1>1. /\ Len(a) = Len(q) + 1 /\ Len(q) \in Nat
      /\ \A k \in 1..Len(q) : a[k] = q[k]
      /\ a[Len(q) + 1] = e
  BY DEF EventNames, Words
<1> HIDE DEF a
<1>2. Len(q) + 1 \in 1..Len(a)
  BY <1>1
<1>3. ~Silent(a)
  BY <1>1, <1>2 DEF Silent
<1>4. ASSUME NEW k \in 1..Len(a), a[k] \in Words \ S
      PROVE  \E j \in 1..Len(a) : j > k /\ a[j] \in S
  <2>1. k < Len(q) + 1
    BY <1>1, <1>4
  <2>2. QED BY <1>1, <1>2, <2>1
<1>5. QED BY <1>3, <1>4 DEF LastIn, a

LEMMA AppendOther ==
  ASSUME NEW q \in Seq(EventNames), NEW S \in SUBSET Words, NEW e \in EventNames \ Words
  PROVE  /\ LastIn(q, S) => LastIn(Append(q, e), S)
         /\ Silent(Append(q, e)) => Silent(q)
<1> DEFINE a == Append(q, e)
<1>1. /\ Len(a) = Len(q) + 1 /\ Len(q) \in Nat
      /\ \A k \in 1..Len(q) : a[k] = q[k]
      /\ a[Len(q) + 1] = e
  OBVIOUS
<1> HIDE DEF a
<1>2. 1..Len(q) \subseteq 1..Len(a)
  BY <1>1
<1>3. Silent(a) => Silent(q)
  BY <1>1, <1>2 DEF Silent
<1>4. ASSUME LastIn(q, S), NEW k \in 1..Len(a), a[k] \in Words \ S
      PROVE  \E j \in 1..Len(a) : j > k /\ a[j] \in S
  <2>1. k \in 1..Len(q) /\ q[k] \in Words \ S
    BY <1>1, <1>4
  <2>2. PICK j \in 1..Len(q) : j > k /\ q[j] \in S
    BY <1>4, <2>1 DEF LastIn
  <2>3. QED BY <1>1, <1>2, <2>2
<1>5. QED BY <1>3, <1>4 DEF LastIn, a

LEMMA TailWords ==
  ASSUME NEW q \in Seq(EventNames), q # <<>>, NEW S \in SUBSET Words, LastIn(q, S)
  PROVE  /\ LastIn(Tail(q), S)
         /\ Silent(Tail(q)) /\ Head(q) \in Words => Head(q) \in S
         /\ Silent(Tail(q)) /\ Head(q) \notin Words => Silent(q)
<1> DEFINE t == Tail(q)
<1>1. /\ Len(t) = Len(q) - 1 /\ Len(q) \in Nat \ {0}
      /\ \A k \in 1..Len(t) : t[k] = q[k + 1]
      /\ Head(q) = q[1]
  OBVIOUS
<1> HIDE DEF t
<1>2. \A k \in 2..Len(q) : k - 1 \in 1..Len(t) /\ t[k - 1] = q[k]
  BY <1>1
<1>3. ASSUME NEW k \in 1..Len(t), t[k] \in Words \ S
      PROVE  \E j \in 1..Len(t) : j > k /\ t[j] \in S
  <2>1. k + 1 \in 1..Len(q) /\ q[k + 1] \in Words \ S
    BY <1>1, <1>3
  <2>2. PICK j \in 1..Len(q) : j > k + 1 /\ q[j] \in S
    BY <2>1 DEF LastIn
  <2>3. j - 1 \in 1..Len(t) /\ t[j - 1] \in S /\ j - 1 > k
    BY <1>2, <2>2
  <2>4. QED BY <2>3
<1>4. ASSUME Silent(t), Head(q) \in Words, Head(q) \notin S PROVE FALSE
  <2>1. 1 \in 1..Len(q) /\ q[1] \in Words \ S
    BY <1>1, <1>4
  <2>2. PICK j \in 1..Len(q) : j > 1 /\ q[j] \in S
    BY <2>1 DEF LastIn
  <2>3. j - 1 \in 1..Len(t) /\ t[j - 1] \in Words
    BY <1>2, <2>2
  <2>4. QED BY <1>4, <2>3 DEF Silent
<1>5. ASSUME Silent(t), Head(q) \notin Words PROVE Silent(q)
  <2>1. ASSUME NEW k \in 1..Len(q) PROVE q[k] \notin Words
    <3>1. CASE k = 1
      BY <1>1, <1>5, <3>1
    <3>2. CASE k # 1
      BY <1>2, <1>5, <3>2 DEF Silent
    <3>3. QED BY <3>1, <3>2
  <2>2. QED BY <2>1 DEF Silent
<1>6. QED BY <1>3, <1>4, <1>5 DEF LastIn, t

-----------------------------------------------------------------------------
\* The transport follows the network

\* cat1_restart has stopped the transport and not yet the connection.
Restarting == lteCall["http"] = "destroy"

\* What holds when no event of the network is waiting.
Settled ==
  /\ handling = "push_start" => IsUp
  /\ handling = "push_stop" => ~IsUp
  /\ handling = "none" => /\ pushOn => IsUp
                          /\ IsUp => pushOn \/ lateStop \/ Restarting
  /\ fitted # "cat1" /\ writing \notin {"disconnect", "flag"} => (isConnected <=> IsUp)

Agreement ==
  /\ IsUp => LastIn(events, UpWords)
  /\ ~IsUp => LastIn(events, DownWords)
  /\ Silent(events) => Settled

\* The bits of g_wifi.eventGroup, and what a handler has still to write.
BitsInv ==
  /\ "DISCONNECT" \in bits => bits = {"DISCONNECT"}
  /\ "CONNECT" \in bits => isConnected
  /\ "DISCONNECT" \in bits /\ isConnected => writing \in {"flag", "clear"}
  /\ writing \in {"disconnect", "flag"} =>
       handling = "push_stop" /\ "CONNECT" \notin bits /\ "LINK_UP" \notin bits
  /\ writing \in {"clear", "connect"} => handling = "push_start" /\ isConnected
  /\ writing \in {"link_up", "connect"} => "DISCONNECT" \notin bits

\* Nothing is connected before wifi_open, and the station is not used with LTE.
OpenInv ==
  /\ fitted = "cat1" => sta = "idle" /\ ~isConnected /\ writing = "none"
  /\ fitted # "cat1" /\ mainPc = "open" =>
       /\ sta = "idle" /\ events = <<>>
       /\ \A c \in Reconnectors : call[c] = "idle"
       /\ \A d \in DppTasks : dppPc[d] = "idle"

\* A step that neither brings nor handles an event of the network.
LEMMA SameNetwork ==
  ASSUME Agreement, IsUp' <=> IsUp, events' = events,
         UNCHANGED <<fitted, handling, isConnected, writing, pushOn, lateStop, lteCall>>
  PROVE  Agreement'
BY DEF Agreement, Settled, Restarting

\* A station that is told to stop or to begin anew.
LEMMA StationDown ==
  ASSUME PlacesOK, Agreement, ~IsUp',
         \/ events' = Append(events, "disconnected")
         \/ events' = events /\ ~IsUp,
         UNCHANGED <<fitted, handling, isConnected, writing, pushOn, lateStop, lteCall>>
  PROVE  Agreement'
<1>1. CASE events' = events /\ ~IsUp
  BY <1>1, SameNetwork
<1>2. CASE events' = Append(events, "disconnected")
  <2>1. events \in Seq(EventNames) /\ DownWords \in SUBSET Words /\ "disconnected" \in DownWords
    BY DEF PlacesOK, Words, UpWords, DownWords
  <2>2. LastIn(events', DownWords) /\ ~Silent(events')
    BY <1>2, <2>1, AppendWord
  <2>3. QED BY <2>2 DEF Agreement
<1>3. QED BY <1>1, <1>2

\* An event that tells nothing of the network.
LEMMA OtherPosted ==
  ASSUME PlacesOK, Agreement, IsUp' <=> IsUp,
         NEW e \in EventNames \ Words, events' = Append(events, e),
         UNCHANGED <<fitted, handling, isConnected, writing, pushOn, lateStop, lteCall>>
  PROVE  Agreement'
<1>1. events \in Seq(EventNames) /\ UpWords \in SUBSET Words /\ DownWords \in SUBSET Words
  BY DEF PlacesOK, Words, UpWords, DownWords
<1>2. /\ LastIn(events, UpWords) => LastIn(events', UpWords)
      /\ LastIn(events, DownWords) => LastIn(events', DownWords)
      /\ Silent(events') => Silent(events)
  BY <1>1, AppendOther
<1>3. QED BY <1>2 DEF Agreement, Settled, Restarting

LEMMA StationConnects ==
  ASSUME PlacesOK, Agreement, fitted # "cat1", StaConnect \/ StaDisconnect,
         UNCHANGED <<fitted, handling, isConnected, writing, pushOn, lateStop, lteCall>>
  PROVE  Agreement'
<1>1. CASE StaDisconnect
  BY <1>1, StationDown DEF StaDisconnect, LinkIsUp, PostIf, IsUp
<1>2. CASE StaConnect /\ fitted = "halow"
  BY <1>2, StationDown DEF StaConnect, LinkIsUp, PostIf, IsUp
<1>3. CASE StaConnect /\ fitted # "halow"
  BY <1>3, SameNetwork DEF StaConnect, PostIf, IsUp
<1>4. QED BY <1>1, <1>2, <1>3

LEMMA StaStepAgreement == PlacesOK /\ OpenInv /\ BitsInv /\ Agreement /\ StaStep => Agreement'
<1> SUFFICES ASSUME PlacesOK, OpenInv, BitsInv, Agreement, StaStep PROVE Agreement'
  OBVIOUS
<1> USE DEF netVars, wifiVars
<1>0. fitted # "cat1" /\ lteCall' = lteCall /\ (fitted' = fitted => (IsUp' <=> sta' = "up"))
      /\ (IsUp <=> sta = "up")
  BY DEF StaStep, cat1Vars, IsUp
<1>1. CASE WifiOpen
  <2>1. CASE fitted = "halow"
    <3>1. UNCHANGED <<fitted, handling, isConnected, writing, pushOn, lateStop, events>> /\ (IsUp' <=> IsUp)
      BY <1>0, <1>1, <2>1 DEF WifiOpen, OpenInv
    <3>2. QED BY <1>0, <3>1, SameNetwork
  <2>2. CASE fitted # "halow"
    <3>1. /\ UNCHANGED <<fitted, handling, isConnected, writing, pushOn, lateStop>> /\ (IsUp' <=> IsUp)
          /\ events' = Append(events, "sta_start") /\ "sta_start" \in EventNames \ Words
      BY <1>0, <1>1, <2>2 DEF WifiOpen, Post, EventNames, Words
    <3>2. QED BY <1>0, <3>1, OtherPosted
  <2>3. QED BY <2>1, <2>2
<1>2. CASE WifiRetry
  BY <1>0, <1>2, StationConnects DEF WifiRetry
<1>3. CASE WifiOpened
  BY <1>0, <1>3, SameNetwork DEF WifiOpened
<1>4. CASE HandleStaEvent
  <2>1. /\ handling = "none" /\ writing = "none" /\ events # <<>> /\ events' = Tail(events)
        /\ UNCHANGED <<fitted, pushOn, lateStop, lteCall>>
    BY <1>0, <1>4 DEF HandleStaEvent
  <2>2. IsUp' <=> IsUp
    BY <1>0, <1>4, <2>1 DEF HandleStaEvent, HandleStaStart, HandleDisconnected,
       HandleConnected, HandleGotIp
  <2>3. /\ events \in Seq(EventNames)
        /\ UpWords \in SUBSET Words /\ DownWords \in SUBSET Words
    BY DEF PlacesOK, Words, UpWords, DownWords
  <2>4. /\ IsUp => LastIn(events', UpWords)
        /\ ~IsUp => LastIn(events', DownWords)
        /\ Silent(events') /\ Head(events) \in Words /\ IsUp => Head(events) \in UpWords
        /\ Silent(events') /\ Head(events) \in Words /\ ~IsUp => Head(events) \in DownWords
        /\ Silent(events') /\ Head(events) \notin Words => Silent(events)
    BY <2>1, <2>3, TailWords DEF Agreement
  <2>5. ASSUME Silent(events') PROVE Settled'
    <3>1. CASE Head(events) = "disconnected" /\ HandleDisconnected
      <4>1. ~IsUp
        BY <2>4, <2>5, <3>1 DEF Words, UpWords
      <4>2. QED BY <1>0, <2>1, <2>2, <3>1, <4>1 DEF HandleDisconnected, Settled
    <3>2. CASE Head(events) = "got_ip" /\ HandleGotIp
      <4>1. IsUp
        BY <2>4, <2>5, <3>2 DEF Words, UpWords, DownWords
      <4>2. QED BY <1>0, <2>1, <2>2, <3>2, <4>1 DEF HandleGotIp, Settled
    <3>3. CASE /\ Head(events) \in {"sta_start", "connected"}
               /\ UNCHANGED <<isConnected, handling>>
      BY <2>1, <2>2, <2>4, <2>5, <3>3 DEF Words, Agreement, Settled, Restarting
    <3>4. QED BY <1>4, <3>1, <3>2, <3>3 DEF HandleStaEvent, HandleStaStart, HandleConnected
  <2>6. QED BY <2>2, <2>4, <2>5 DEF Agreement
<1>5. CASE Driver
  <2>1. UNCHANGED <<fitted, handling, isConnected, writing, pushOn, lateStop, lteCall>>
    BY <1>0, <1>5 DEF Driver
  <2>2. CASE StaAssociates
    <3>1. "connected" \in EventNames \ Words /\ events' = Append(events, "connected")
      BY <2>2 DEF StaAssociates, Post, EventNames, Words
    <3>2. IsUp' <=> IsUp
      BY <1>0, <2>1, <2>2 DEF StaAssociates
    <3>3. QED BY <2>1, <3>1, <3>2, OtherPosted
  <2>3. CASE StaGetsIp
    <3>1. events' = Append(events, "got_ip") /\ sta' = "up"
      BY <2>3 DEF StaGetsIp, Post
    <3>2. events \in Seq(EventNames) /\ UpWords \in SUBSET Words /\ "got_ip" \in UpWords
      BY DEF PlacesOK, Words, UpWords
    <3>3. LastIn(events', UpWords) /\ ~Silent(events')
      BY <3>1, <3>2, AppendWord
    <3>4. IsUp'
      BY <1>0, <2>1, <3>1
    <3>5. QED BY <3>3, <3>4 DEF Agreement
  <2>4. CASE StaFails \/ StaDrops
    <3>1. events' = Append(events, "disconnected") /\ sta' # "up"
      BY <2>4 DEF StaFails, StaDrops, Post
    <3>2. QED BY <1>0, <2>1, <3>1, StationDown
  <2>5. QED BY <1>5, <2>2, <2>3, <2>4 DEF Driver
<1>6. CASE HttpReconnect
  BY <1>0, <1>6, StationConnects DEF HttpReconnect, ReconnectStart
<1>7. CASE HttpReconnected
  BY <1>0, <1>7, SameNetwork DEF HttpReconnected
<1>8. ASSUME NEW c \in Reconnectors, ReconnectStep(c) PROVE Agreement'
  <2>1. CASE ReconnectWaits(c) \/ ReconnectOk(c) \/ ReconnectFails(c)
    BY <1>0, <2>1, SameNetwork DEF ReconnectWaits, ReconnectOk, ReconnectFails
  <2>2. CASE ReconnectConnects(c)
    BY <1>0, <2>2, StationConnects DEF ReconnectConnects
  <2>3. QED BY <1>8, <2>1, <2>2 DEF ReconnectStep
<1>9. CASE WriteBits
  <2>1. /\ UNCHANGED <<fitted, events, handling, isConnected, pushOn, lateStop, sta>>
        /\ writing' \in {"disconnect", "flag"} <=> writing \in {"disconnect", "flag"}
    BY <1>9 DEF WriteBits
  <2>2. (IsUp' <=> IsUp) /\ (Restarting' <=> Restarting)
    BY <1>0, <2>1 DEF Restarting
  <2>3. QED BY <2>1, <2>2 DEF Agreement, Settled
<1>10. CASE WriteFlag
  <2>1. /\ UNCHANGED <<fitted, events, handling, pushOn, lateStop, sta>>
        /\ handling = "push_stop" /\ isConnected' = FALSE
    BY <1>10 DEF WriteFlag, BitsInv
  <2>2. IsUp' <=> IsUp
    BY <1>0, <2>1
  <2>3. Silent(events) => ~IsUp
    BY <2>1 DEF Agreement, Settled
  <2>4. QED BY <2>1, <2>2, <2>3 DEF Agreement, Settled
<1>11. QED BY <1>1, <1>2, <1>3, <1>4, <1>5, <1>6, <1>7, <1>8, <1>9, <1>10 DEF StaStep

\* A push_stop of a task that knows nothing of the events on their way.
LEMMA StoppedLate ==
  ASSUME Agreement, FlagsOK, StopLate, IsUp' <=> IsUp,
         Restarting' <=> Restarting,
         UNCHANGED <<fitted, handling, isConnected, writing, events>>
  PROVE  Agreement'
BY DEF Agreement, Settled, StopLate

LEMMA ProvisionStepAgreement == PlacesOK /\ FlagsOK /\ Agreement /\ ProvisionStep => Agreement'
<1> SUFFICES ASSUME PlacesOK, FlagsOK, Agreement, fitted # "cat1", UNCHANGED cat1Vars,
                    NEW d \in DppTasks, DoubleClick(d) \/ DppStep(d)
             PROVE  Agreement'
  BY DEF ProvisionStep
<1> USE DEF netVars, wifiVars
<1>0. lteCall' = lteCall /\ (Restarting' <=> Restarting)
      /\ (fitted' = fitted /\ sta' = sta => (IsUp' <=> IsUp))
  BY DEF cat1Vars, IsUp, Restarting
<1>1. CASE DppPushStop(d)
  <2>1. StopLate /\ UNCHANGED <<fitted, handling, isConnected, writing, events, sta>>
    BY <1>1 DEF DppPushStop
  <2>2. QED BY <1>0, <2>1, StoppedLate
<1>2. CASE DppDisconnects(d)
  BY <1>0, <1>2, StationConnects DEF DppDisconnects
<1>3. CASE DppConfigured(d)
  BY <1>0, <1>3, StationConnects DEF DppConfigured, ReconnectStart
<1>4. CASE \/ DoubleClick(d) \/ DppClear(d) \/ DppRefused(d) \/ DppPasses(d)
           \/ DppNoMemory(d) \/ DppGivesUp(d) \/ DppReconnected(d) \/ DppEnd(d)
  <2>1. UNCHANGED <<fitted, handling, isConnected, writing, pushOn, lateStop, events, sta>>
    BY <1>4 DEF DoubleClick, DppClear, DppRefused, DppPasses, DppNoMemory, DppGivesUp,
       DppReconnected, DppEnd
  <2>2. QED BY <1>0, <2>1, SameNetwork
<1>5. QED BY <1>1, <1>2, <1>3, <1>4 DEF DppStep

\* An event handled: the last word is what counts.
LEMMA ModemHandlesAgreement ==
  ASSUME PlacesOK, Agreement, fitted = "cat1", HandleLteEvent PROVE Agreement'
<1>1. /\ handling = "none" /\ events # <<>> /\ events' = Tail(events)
      /\ UNCHANGED <<fitted, pushOn, lateStop, lteCall, ppp>>
  BY DEF HandleLteEvent
<1>2. (IsUp' <=> IsUp) /\ (Restarting' <=> Restarting) /\ fitted' = "cat1"
  BY <1>1 DEF IsUp, Restarting
<1>3. /\ events \in Seq(EventNames)
      /\ UpWords \in SUBSET Words /\ DownWords \in SUBSET Words
  BY DEF PlacesOK, Words, UpWords, DownWords
<1>4. /\ IsUp => LastIn(events', UpWords)
      /\ ~IsUp => LastIn(events', DownWords)
      /\ Silent(events') /\ Head(events) \in Words /\ IsUp => Head(events) \in UpWords
      /\ Silent(events') /\ Head(events) \in Words /\ ~IsUp => Head(events) \in DownWords
      /\ Silent(events') /\ Head(events) \notin Words => Silent(events)
  BY <1>1, <1>3, TailWords DEF Agreement
<1>5. ASSUME Silent(events') PROVE Settled'
  <2>1. CASE Head(events) = "ppp_up" /\ handling' = "push_start"
    <3>1. IsUp
      BY <1>4, <1>5, <2>1 DEF Words, UpWords, DownWords
    <3>2. QED BY <1>2, <2>1, <3>1 DEF Settled
  <2>2. CASE Head(events) = "ppp_lost" /\ handling' = "push_stop"
    <3>1. ~IsUp
      BY <1>4, <1>5, <2>2 DEF Words, UpWords
    <3>2. QED BY <1>2, <2>2, <3>1 DEF Settled
  <2>3. CASE Head(events) = "ppp_got_ip" /\ UNCHANGED handling
    <3>1. Settled
      BY <1>4, <1>5, <2>3 DEF Words, Agreement
    <3>2. QED BY <1>1, <1>2, <2>3, <3>1 DEF Settled
  <2>4. QED BY <2>1, <2>2, <2>3 DEF HandleLteEvent, HandlePppLost
<1>6. QED BY <1>2, <1>4, <1>5 DEF Agreement

\* A connection that goes down with its event, or was not up.
LEMMA ModemDown ==
  ASSUME PlacesOK, Agreement, fitted = "cat1", fitted' = fitted, ppp' = "down",
         \/ events' = Append(events, "ppp_lost")
         \/ events' = events /\ ppp # "up" /\ UNCHANGED <<handling, pushOn>>
  PROVE  Agreement'
<1>0. ~IsUp'
  BY DEF IsUp
<1>1. CASE events' = events /\ ppp # "up" /\ UNCHANGED <<handling, pushOn>>
  BY <1>0, <1>1 DEF Agreement, Settled, IsUp
<1>2. CASE events' = Append(events, "ppp_lost")
  <2>1. events \in Seq(EventNames) /\ DownWords \in SUBSET Words /\ "ppp_lost" \in DownWords
    BY DEF PlacesOK, Words, UpWords, DownWords
  <2>2. LastIn(events', DownWords) /\ ~Silent(events')
    BY <1>2, <2>1, AppendWord
  <2>3. QED BY <1>0, <2>2 DEF Agreement
<1>3. QED BY <1>1, <1>2

LEMMA ModemStepAgreement == PlacesOK /\ FlagsOK /\ Agreement /\ ModemStep => Agreement'
<1> SUFFICES ASSUME PlacesOK, FlagsOK, Agreement, ModemStep PROVE Agreement'
  OBVIOUS
<1> USE DEF netVars, cat1Vars
<1>0. /\ fitted = "cat1" /\ UNCHANGED <<isConnected, writing>>
      /\ fitted' = fitted /\ ppp' = ppp => (IsUp' <=> IsUp)
      /\ lteCall' = lteCall => (Restarting' <=> Restarting)
  BY DEF ModemStep, wifiVars, IsUp, Restarting
<1>1. CASE LteOpen \/ LteOpened
  <2>1. UNCHANGED <<fitted, ppp, handling, pushOn, lateStop, events>>
        /\ (Restarting' <=> Restarting)
    BY <1>1 DEF LteOpen, LteOpened, LteGoes, Restarting, PlacesOK, Cat1TypeOK
  <2>2. QED BY <1>0, <2>1 DEF Agreement, Settled
<1>2. CASE HandleLteEvent
  BY <1>0, <1>2, ModemHandlesAgreement
<1>3. CASE PppUp /\ UNCHANGED <<fitted, handling, pushOn, lateStop, lteCall>>
  <2> DEFINE q == Append(events, "ppp_got_ip")
  <2>1. IsUp' /\ events' = Append(q, "ppp_up")
    BY <1>0, <1>3 DEF PppUp, IsUp
  <2>2. q \in Seq(EventNames) /\ UpWords \in SUBSET Words /\ "ppp_up" \in UpWords
    BY DEF PlacesOK, EventNames, Words, UpWords
  <2> HIDE DEF q
  <2>3. LastIn(events', UpWords) /\ ~Silent(events')
    BY <2>1, <2>2, AppendWord
  <2>4. QED BY <2>1, <2>3 DEF Agreement
<1>4. CASE (PppFails \/ PppDrops) /\ UNCHANGED <<fitted, handling, pushOn, lateStop, lteCall>>
  <2>1. CASE PppFails
    BY <1>0, <1>4, <2>1, ModemDown DEF PppFails
  <2>2. CASE PppDrops
    BY <1>0, <1>4, <2>2, ModemDown DEF PppDrops, Post
  <2>3. QED BY <1>4, <2>1, <2>2
<1>5. CASE HttpRestart
  <2>1. UNCHANGED <<fitted, ppp, handling, lateStop, events>> /\ pushOn' = FALSE /\ Restarting'
    BY <1>5 DEF HttpRestart, LteGoes, Restarting, PlacesOK, Cat1TypeOK
  <2>2. QED BY <1>0, <2>1 DEF Agreement, Settled
<1>6. CASE RestartDestroys
  <2>1. UNCHANGED <<fitted, handling, pushOn, lateStop>> /\ ppp' = "down"
    BY <1>6 DEF RestartDestroys
  <2>2. events' = IF ppp = "up" THEN Append(events, "ppp_lost") ELSE events
    BY <1>6 DEF RestartDestroys, PostIf
  <2>3. QED BY <1>0, <2>1, <2>2, ModemDown
<1>7. CASE RestartOpens \/ \E c \in Openers : WaitEnds(c)
  <2>1. UNCHANGED <<fitted, ppp, handling, pushOn, lateStop, events>>
        /\ (Restarting' <=> Restarting)
    BY <1>7 DEF RestartOpens, WaitEnds, LteGoes, Restarting, PlacesOK, Cat1TypeOK
  <2>2. QED BY <1>0, <2>1 DEF Agreement, Settled
<1>8. ASSUME NEW c \in Openers, WaitStops(c) PROVE Agreement'
  <2>1. StopLate /\ UNCHANGED <<fitted, ppp, handling, events>> /\ (Restarting' <=> Restarting)
    BY <1>8 DEF WaitStops, LteGoes, Restarting, PlacesOK, Cat1TypeOK
  <2>2. QED BY <1>0, <2>1, StoppedLate
<1>9. ASSUME NEW s \in Openers, StarterStep(s) PROVE Agreement'
  <2>1. UNCHANGED <<fitted, handling, pushOn, lateStop, events, lteCall>>
    BY <1>9 DEF StarterStep
  <2>2. IsUp' <=> IsUp
    BY <1>0, <1>9, <2>1 DEF StarterStep, StarterClears, StarterFindsModem, StarterAttaches,
       StarterFails, StarterDials, IsUp
  <2>3. QED BY <1>0, <2>1, <2>2, SameNetwork
<1>10. QED
  BY <1>1, <1>2, <1>3, <1>4, <1>5, <1>6, <1>7, <1>8, <1>9
     DEF ModemStep, Modem, LteRestart, LteWait

LEMMA OtherStepAgreement ==
  FlagsOK /\ PlacesOK /\ Agreement /\ (PushStep \/ Work \/ UNCHANGED vars) => Agreement'
<1> SUFFICES ASSUME FlagsOK, PlacesOK, Agreement, PushStep \/ Work \/ UNCHANGED vars
             PROVE  Agreement'
  OBVIOUS
<1>1. CASE PushStep
  <2>1. /\ UNCHANGED <<fitted, sta, ppp, isConnected, writing, lteCall, events>>
        /\ handling # "none" /\ handling' = "none"
        /\ pushOn' = (handling = "push_start")
    BY <1>1 DEF PushStep, HandlePush, wifiVars, cat1Vars
  <2>2. (IsUp' <=> IsUp) /\ (pushOn' <=> handling = "push_start")
    BY <2>1 DEF IsUp
  <2>3. handling \in {"push_start", "push_stop"}
    BY <2>1 DEF PlacesOK
  <2>4. QED BY <2>1, <2>2, <2>3 DEF Agreement, Settled, Restarting
<1>2. CASE Work \/ UNCHANGED vars
  <2>1. UNCHANGED <<fitted, sta, ppp, isConnected, writing, lteCall, events, handling, pushOn,
                   lateStop>>
    BY <1>2 DEF Work, MainWaits, MainSleeps, vars, netVars, wifiVars, cat1Vars
  <2>2. IsUp' <=> IsUp
    BY <2>1 DEF IsUp
  <2>3. QED BY <2>1, <2>2, SameNetwork
<1>3. QED BY <1>1, <1>2

LEMMA StaStepOpen == PlacesOK /\ OpenInv /\ StaStep => OpenInv'
<1> SUFFICES ASSUME PlacesOK, OpenInv, StaStep PROVE OpenInv'
  OBVIOUS
<1> USE DEF netVars, wifiVars
<1>0. fitted # "cat1" /\ dppPc' = dppPc
  BY DEF StaStep, dppVars
<1>1. CASE WifiOpen \/ WifiRetry \/ WifiOpened
  BY <1>0, <1>1 DEF OpenInv, WifiOpen, WifiRetry, WifiOpened
<1>2. CASE HandleStaEvent \/ WriteBits \/ WriteFlag \/ Driver
  BY <1>0, <1>2 DEF OpenInv, HandleStaEvent, WriteBits, WriteFlag, Driver, StaAssociates,
     StaGetsIp, StaFails, StaDrops
<1>3. CASE HttpReconnect \/ HttpReconnected
  BY <1>0, <1>3 DEF OpenInv, HttpReconnect, ReconnectStart, HttpReconnected
<1>4. ASSUME NEW c \in Reconnectors, ReconnectStep(c) PROVE OpenInv'
  <2>1. UNCHANGED <<fitted, mainPc>> /\ call[c] # "idle"
    BY <1>4 DEF ReconnectStep, ReconnectWaits, ReconnectConnects, ReconnectOk,
       ReconnectFails, CallGoes
  <2>2. QED BY <1>0, <2>1 DEF OpenInv
<1>5. QED BY <1>1, <1>2, <1>3, <1>4 DEF StaStep

LEMMA ProvisionStepOpen == PlacesOK /\ OpenInv /\ ProvisionStep => OpenInv'
<1> SUFFICES ASSUME OpenInv, fitted # "cat1", NEW d \in DppTasks, DoubleClick(d) \/ DppStep(d)
             PROVE  OpenInv'
  BY DEF ProvisionStep
<1>1. UNCHANGED <<fitted, mainPc>> /\ (mainPc # "open" \/ dppPc[d] # "idle")
  BY DEF DoubleClick, DppStep, DppClear, DppPushStop, DppRefused, DppPasses, DppDisconnects,
     DppNoMemory, DppGivesUp, DppConfigured, ReconnectStart, DppReconnected, DppEnd, DppGoes, netVars
<1>2. QED BY <1>1 DEF OpenInv

LEMMA OtherStepOpen ==
  OpenInv /\ (ModemStep \/ PushStep \/ Work \/ UNCHANGED vars) => OpenInv'
<1> SUFFICES ASSUME OpenInv, ModemStep \/ PushStep \/ Work \/ UNCHANGED vars PROVE OpenInv'
  OBVIOUS
<1>1. CASE ModemStep
  <2>1. fitted = "cat1" /\ UNCHANGED <<sta, isConnected, writing>>
    BY <1>1 DEF ModemStep, wifiVars
  <2>2. fitted' = fitted
    <3>1. CASE \E c \in Openers : LteWait(c) \/ StarterStep(c)
      BY <3>1 DEF LteWait, WaitEnds, WaitStops, StarterStep, netVars
    <3>2. CASE LteOpen \/ LteOpened \/ HandleLteEvent \/ Modem \/ HttpRestart \/ LteRestart
      BY <3>2 DEF LteOpen, LteOpened, HandleLteEvent, Modem, HttpRestart, LteRestart,
         RestartDestroys, RestartOpens, netVars
    <3>3. QED BY <1>1, <3>1, <3>2 DEF ModemStep
  <2>3. QED BY <2>1, <2>2 DEF OpenInv
<1>2. CASE PushStep \/ UNCHANGED vars
  BY <1>2 DEF OpenInv, PushStep, HandlePush, vars, netVars, wifiVars, dppVars
<1>3. CASE Work
  BY <1>3 DEF OpenInv, Work, MainWaits, MainSleeps, wifiVars, dppVars
<1>4. QED BY <1>1, <1>2, <1>3

LEMMA StepBits == PlacesOK /\ OpenInv /\ BitsInv /\ [Next]_vars => BitsInv'
<1> SUFFICES ASSUME PlacesOK, OpenInv, BitsInv, [Next]_vars PROVE BitsInv'
  OBVIOUS
<1>0. bits \subseteq {"CONNECT", "DISCONNECT", "LINK_UP"}
  BY DEF PlacesOK
<1>1. CASE HandleStaEvent
  <2>0. writing = "none" /\ handling = "none"
    BY <1>1 DEF HandleStaEvent
  <2>1. CASE HandleDisconnected
    BY <1>0, <2>0, <2>1 DEF HandleDisconnected, BitsInv
  <2>2. CASE HandleConnected \/ HandleGotIp \/ HandleStaStart
    BY <1>0, <2>0, <2>2 DEF HandleConnected, HandleGotIp, HandleStaStart, BitsInv
  <2>3. QED BY <1>1, <2>1, <2>2 DEF HandleStaEvent
<1>2. CASE WriteBits \/ WriteFlag
  BY <1>0, <1>2 DEF WriteBits, WriteFlag, netVars, BitsInv
<1>3. ASSUME NEW c \in Reconnectors, ReconnectStep(c) PROVE BitsInv'
  BY <1>0, <1>3 DEF ReconnectStep, ReconnectWaits, ReconnectConnects, ReconnectOk,
     ReconnectFails, wifiVars, netVars, BitsInv
<1>4. CASE PushStep
  BY <1>4 DEF PushStep, wifiVars, BitsInv
<1>5. CASE ModemStep
  BY <1>5 DEF ModemStep, wifiVars, OpenInv, BitsInv
<1>6. CASE UNCHANGED <<bits, isConnected, writing, handling>>
  BY <1>6 DEF BitsInv
<1>7. ASSUME ProvisionStep PROVE UNCHANGED <<bits, isConnected, writing, handling>>
  BY <1>7 DEF ProvisionStep, DoubleClick, DppStep, DppClear, DppPushStop, DppRefused,
     DppPasses, DppDisconnects, DppNoMemory, DppGivesUp, DppConfigured, ReconnectStart,
     DppReconnected, DppEnd, netVars, wifiVars
<1>8. ASSUME StaStep, ~HandleStaEvent, ~WriteBits, ~WriteFlag,
             ~ \E c \in Reconnectors : ReconnectStep(c)
      PROVE  UNCHANGED <<bits, isConnected, writing, handling>>
  BY <1>8 DEF StaStep, WifiOpen, WifiRetry, WifiOpened, Driver, HttpReconnect, ReconnectStart,
     HttpReconnected, netVars, wifiVars
<1>9. ASSUME Work \/ UNCHANGED vars PROVE UNCHANGED <<bits, isConnected, writing, handling>>
  BY <1>9 DEF Work, MainWaits, MainSleeps, vars, netVars, wifiVars
<1>10. QED BY <1>1, <1>2, <1>3, <1>4, <1>5, <1>6, <1>7, <1>8, <1>9, NextCases

-----------------------------------------------------------------------------
\* The invariants together

NetworkInv == FlagsOK /\ PlacesOK /\ Agreement /\ OpenInv /\ BitsInv

LEMMA InitNetworkInv == Init => NetworkInv
<1> SUFFICES ASSUME Init PROVE NetworkInv
  OBVIOUS
<1> USE DEF Init, NetInit, WifiInit, DppInit, Cat1Init
<1>1. Len(events) = 0 /\ 1..0 = {}
  OBVIOUS
<1>2. Agreement
  BY <1>1 DEF Agreement, LastIn, Settled, IsUp
<1>3. OpenInv /\ BitsInv
  BY DEF OpenInv, BitsInv
<1>4. QED BY <1>2, <1>3, InitType DEF NetworkInv

LEMMA NetworkInvariant == Spec => []NetworkInv
<1>1. ASSUME NetworkInv, [Next]_vars PROVE NetworkInv'
  <2> USE DEF NetworkInv
  <2>1. FlagsOK' /\ PlacesOK'
    BY <1>1, NextCases, StaStepFlags, StaStepPlaces, ProvisionStepFlags, ProvisionStepPlaces,
       ModemStepFlags, ModemStepPlaces, OtherStepType
  <2>2. Agreement'
    BY <1>1, NextCases, StaStepAgreement, ProvisionStepAgreement, ModemStepAgreement,
       OtherStepAgreement
  <2>3. OpenInv'
    BY <1>1, NextCases, StaStepOpen, ProvisionStepOpen, OtherStepOpen
  <2>4. BitsInv'
    BY <1>1, StepBits
  <2>5. QED BY <2>1, <2>2, <2>3, <2>4
<1>2. QED BY InitNetworkInv, <1>1, PTL DEF Spec

\* However many events wait, however late they are handled and wherever the other
\* tasks cut into a handler, the bits that wifi_open and wifi_sta_reconnect test
\* never contradict each other, CONNECT is never set without isConnected, and
\* DISCONNECT is set with it only between two writes of a handler.  With every
\* event handled and the last disconnection written down, isConnected is the truth
\* about the station.
THEOREM BitsAreTrue == Spec => []BitsTellTheTruth
<1>1. NetworkInv => BitsTellTheTruth
  <2> SUFFICES ASSUME NetworkInv PROVE BitsTellTheTruth
    OBVIOUS
  <2>1. ASSUME events = <<>>, writing \notin {"disconnect", "flag"}
        PROVE  isConnected <=> sta = "up"
    <3>1. Silent(events)
      BY <2>1 DEF Silent
    <3>2. QED BY <2>1, <3>1 DEF NetworkInv, OpenInv, Agreement, Settled, IsUp
  <2>2. BitsInv
    BY DEF NetworkInv
  <2>3. QED BY <2>1, <2>2 DEF BitsInv, BitsTellTheTruth
<1>2. QED BY NetworkInvariant, <1>1, PTL

\* With every event handled and no restart or provisioning under way, the push
\* transport is started only while the network is up; if the network is up and
\* the transport is not, a task stopped it after the event task had started it.
THEOREM TransportFollows == Spec => []PushFollowsNetwork
<1>1. NetworkInv => PushFollowsNetwork
  <2> SUFFICES ASSUME NetworkInv, Quiet PROVE (pushOn => IsUp) /\ (IsUp => pushOn \/ lateStop)
    BY DEF PushFollowsNetwork
  <2>1. Silent(events) /\ handling = "none" /\ ~Restarting
    BY DEF Quiet, Silent, Restarting
  <2>2. QED BY <2>1 DEF NetworkInv, Agreement, Settled
<1>2. QED BY NetworkInvariant, <1>1, PTL

-----------------------------------------------------------------------------
\* The event task stops the transport before it starts it again

\* What the event task did last, or is about to do, is not a push_start.
Stopped == handling = "push_stop" \/ (handling = "none" /\ ~pushOn /\ ~lateStop)

\* Between two events that say that the network is up there is one that it is not.
Alternates(q) ==
  \A i, k \in 1..Len(q) :
    i < k /\ q[i] \in UpWords /\ q[k] \in UpWords =>
      \E j \in 1..Len(q) : i < j /\ j < k /\ q[j] \in DownWords

\* An event says that the network is up, and none before it that it is not.
UpFirst(q) ==
  \E k \in 1..Len(q) : q[k] \in UpWords /\ \A i \in 1..Len(q) : i < k => q[i] \notin DownWords

AlternateInv ==
  /\ handling = "push_start" => ~pushOn /\ ~lateStop
  /\ Silent(events) /\ ~IsUp => Stopped
  /\ UpFirst(events) => Stopped
  /\ Alternates(events)

LEMMA AppendAlternates ==
  ASSUME NEW q \in Seq(EventNames), Alternates(q), NEW e \in EventNames
  PROVE  /\ e \notin UpWords => Alternates(Append(q, e)) /\ (UpFirst(Append(q, e)) => UpFirst(q))
         /\ e \in UpWords /\ LastIn(q, DownWords) =>
              /\ Alternates(Append(q, e))
              /\ UpFirst(Append(q, e)) => UpFirst(q) \/ Silent(q)
<1> DEFINE a == Append(q, e)
<1>1. /\ Len(a) = Len(q) + 1 /\ Len(q) \in Nat
      /\ \A k \in 1..Len(q) : a[k] = q[k]
      /\ a[Len(q) + 1] = e
  OBVIOUS
<1> HIDE DEF a
<1>2. /\ 1..Len(q) \subseteq 1..Len(a) /\ Len(q) + 1 \in 1..Len(a)
      /\ \A k \in 1..Len(a) : k \in 1..Len(q) \/ k = Len(q) + 1
  BY <1>1
<1>3. ASSUME NEW i \in 1..Len(q), NEW k \in 1..Len(q), i < k, q[i] \in UpWords, q[k] \in UpWords
      PROVE  \E j \in 1..Len(a) : i < j /\ j < k /\ a[j] \in DownWords
  <2>1. PICK j \in 1..Len(q) : i < j /\ j < k /\ q[j] \in DownWords
    BY <1>3 DEF Alternates
  <2>2. QED BY <1>1, <1>2, <2>1
<1>4. ASSUME e \notin UpWords PROVE Alternates(a) /\ (UpFirst(a) => UpFirst(q))
  <2>1. \A k \in 1..Len(a) : a[k] \in UpWords => k \in 1..Len(q) /\ q[k] \in UpWords
    BY <1>1, <1>2, <1>4
  <2>2. Alternates(a)
    BY <1>3, <2>1 DEF Alternates
  <2>3. UpFirst(a) => UpFirst(q)
    BY <1>1, <1>2, <2>1 DEF UpFirst
  <2>4. QED BY <2>2, <2>3
<1>5. ASSUME e \in UpWords, LastIn(q, DownWords)
      PROVE  Alternates(a) /\ (UpFirst(a) => UpFirst(q) \/ Silent(q))
  <2>1. ASSUME NEW i \in 1..Len(q), q[i] \in UpWords
        PROVE  \E j \in 1..Len(q) : i < j /\ q[j] \in DownWords
    BY <1>5, <2>1 DEF LastIn, DownWords, UpWords, Words
  <2>2. ASSUME NEW i \in 1..Len(a), NEW k \in 1..Len(a), i < k, a[i] \in UpWords, a[k] \in UpWords
        PROVE  \E j \in 1..Len(a) : i < j /\ j < k /\ a[j] \in DownWords
    <3>1. i \in 1..Len(q) /\ q[i] \in UpWords
      BY <1>1, <1>2, <2>2
    <3>2. CASE k \in 1..Len(q)
      BY <1>1, <1>3, <2>2, <3>1, <3>2
    <3>3. CASE k = Len(q) + 1
      <4>1. PICK j \in 1..Len(q) : i < j /\ q[j] \in DownWords
        BY <2>1, <3>1
      <4>2. j < k
        BY <1>1, <3>3, <4>1
      <4>3. QED BY <1>1, <1>2, <4>1, <4>2
    <3>4. QED BY <1>2, <3>2, <3>3
  <2>3. ASSUME UpFirst(a) PROVE UpFirst(q) \/ Silent(q)
    <3>1. PICK k \in 1..Len(a) :
            a[k] \in UpWords /\ \A i \in 1..Len(a) : i < k => a[i] \notin DownWords
      BY <2>3 DEF UpFirst
    <3>2. CASE k \in 1..Len(q)
      <4>1. q[k] \in UpWords /\ \A i \in 1..Len(q) : i < k => q[i] \notin DownWords
        BY <1>1, <1>2, <3>1, <3>2
      <4>2. QED BY <3>2, <4>1 DEF UpFirst
    <3>3. CASE k = Len(q) + 1
      <4>1. \A i \in 1..Len(q) : q[i] \notin DownWords
        BY <1>1, <1>2, <3>1, <3>3
      <4>2. \A i \in 1..Len(q) : q[i] \notin UpWords
        BY <2>1, <4>1
      <4>3. QED BY <4>1, <4>2 DEF Silent, DownWords
    <3>4. QED BY <1>2, <3>2, <3>3
  <2>4. QED BY <2>2, <2>3 DEF Alternates
<1>6. QED BY <1>4, <1>5 DEF a

LEMMA TailAlternates ==
  ASSUME NEW q \in Seq(EventNames), q # <<>>, Alternates(q)
  PROVE  /\ Alternates(Tail(q))
         /\ Head(q) \in UpWords => UpFirst(q) /\ ~UpFirst(Tail(q))
         /\ Head(q) \notin Words /\ UpFirst(Tail(q)) => UpFirst(q)
<1> DEFINE t == Tail(q)
<1>1. /\ Len(t) = Len(q) - 1 /\ Len(q) \in Nat \ {0}
      /\ \A k \in 1..Len(t) : t[k] = q[k + 1]
      /\ Head(q) = q[1]
  OBVIOUS
<1> HIDE DEF t
<1>2. /\ \A k \in 1..Len(t) : k + 1 \in 1..Len(q) /\ q[k + 1] = t[k] /\ 1 < k + 1
      /\ \A k \in 1..Len(q) : k > 1 => k - 1 \in 1..Len(t) /\ t[k - 1] = q[k]
      /\ 1 \in 1..Len(q)
  BY <1>1
<1>3. ASSUME NEW i \in 1..Len(t), NEW k \in 1..Len(t), i < k, t[i] \in UpWords, t[k] \in UpWords
      PROVE  \E j \in 1..Len(t) : i < j /\ j < k /\ t[j] \in DownWords
  <2>1. i + 1 < k + 1
    BY <1>3
  <2>2. PICK j \in 1..Len(q) : i + 1 < j /\ j < k + 1 /\ q[j] \in DownWords
    BY <1>2, <1>3, <2>1 DEF Alternates
  <2>3. j - 1 \in 1..Len(t) /\ t[j - 1] \in DownWords /\ i < j - 1 /\ j - 1 < k
    BY <1>2, <2>2
  <2>4. QED BY <2>3
<1>4. ASSUME Head(q) \in UpWords PROVE UpFirst(q) /\ ~UpFirst(t)
  <2>1. UpFirst(q)
    BY <1>1, <1>2, <1>4 DEF UpFirst
  <2>2. ASSUME NEW k \in 1..Len(t), t[k] \in UpWords
        PROVE  \E i \in 1..Len(t) : i < k /\ t[i] \in DownWords
    <3>1. PICK j \in 1..Len(q) : 1 < j /\ j < k + 1 /\ q[j] \in DownWords
      BY <1>1, <1>2, <1>4, <2>2 DEF Alternates
    <3>2. j - 1 \in 1..Len(t) /\ t[j - 1] \in DownWords /\ j - 1 < k
      BY <1>2, <3>1
    <3>3. QED BY <3>2
  <2>3. QED BY <2>1, <2>2 DEF UpFirst
<1>5. ASSUME Head(q) \notin Words, UpFirst(t) PROVE UpFirst(q)
  <2>1. PICK k \in 1..Len(t) :
          t[k] \in UpWords /\ \A i \in 1..Len(t) : i < k => t[i] \notin DownWords
    BY <1>5 DEF UpFirst
  <2>2. ASSUME NEW i \in 1..Len(q), i < k + 1 PROVE q[i] \notin DownWords
    <3>1. CASE i = 1
      BY <1>1, <1>5, <3>1 DEF DownWords
    <3>2. CASE i > 1
      <4>1. i - 1 \in 1..Len(t) /\ t[i - 1] = q[i] /\ i - 1 < k
        BY <1>2, <2>2, <3>2
      <4>2. QED BY <2>1, <4>1
    <3>3. QED BY <3>1, <3>2
  <2>3. k + 1 \in 1..Len(q) /\ q[k + 1] \in UpWords
    BY <1>2, <2>1
  <2>4. QED BY <2>2, <2>3 DEF UpFirst
<1>6. QED BY <1>3, <1>4, <1>5 DEF Alternates, t

\* A step that brings no event and handles none.
LEMMA SameQueue ==
  ASSUME AlternateInv, events' = events, handling' = handling, ~IsUp' => ~IsUp,
         ~pushOn /\ ~lateStop => ~pushOn' /\ ~lateStop'
  PROVE  AlternateInv'
BY DEF AlternateInv, Stopped

\* A step that brings an event other than that the network is up.
LEMMA LossPosted ==
  ASSUME PlacesOK, AlternateInv, NEW e \in EventNames \ UpWords, events' = Append(events, e),
         e \in Words \/ (~IsUp' => ~IsUp), UNCHANGED <<handling, pushOn, lateStop>>
  PROVE  AlternateInv'
<1>1. events \in Seq(EventNames) /\ DownWords \in SUBSET Words
  BY DEF PlacesOK, DownWords
<1>2. Alternates(events') /\ (UpFirst(events') => UpFirst(events))
  BY <1>1, AppendAlternates DEF AlternateInv
<1>3. e \in Words => ~Silent(events')
  BY <1>1, AppendWord DEF DownWords
<1>4. e \notin Words /\ Silent(events') => Silent(events)
  BY <1>1, AppendOther
<1>5. QED BY <1>2, <1>3, <1>4 DEF AlternateInv, Stopped

\* A step that brings the event that the network, which was down, is up.
LEMMA UpPosted ==
  ASSUME PlacesOK, Agreement, AlternateInv, ~IsUp, NEW e \in UpWords,
         events' = Append(events, e), UNCHANGED <<handling, pushOn, lateStop>>
  PROVE  AlternateInv'
<1>1. /\ events \in Seq(EventNames) /\ e \in EventNames
      /\ UpWords \in SUBSET Words
  BY DEF PlacesOK, UpWords, Words, EventNames
<1>2. LastIn(events, DownWords)
  BY DEF Agreement
<1>3. Alternates(events') /\ (UpFirst(events') => UpFirst(events) \/ Silent(events))
  BY <1>1, <1>2, AppendAlternates DEF AlternateInv
<1>4. ~Silent(events')
  BY <1>1, AppendWord
<1>5. QED BY <1>3, <1>4 DEF AlternateInv, Stopped

\* A step of the event task: what it has still to call is what the event says.
LEMMA EventTaken ==
  ASSUME PlacesOK, Agreement, AlternateInv, handling = "none", events # <<>>,
         events' = Tail(events), IsUp' <=> IsUp, UNCHANGED <<pushOn, lateStop>>,
         \/ Head(events) \in UpWords /\ handling' = "push_start"
         \/ Head(events) \in DownWords /\ handling' = "push_stop"
         \/ Head(events) \notin Words /\ handling' = handling
  PROVE  AlternateInv'
<1>1. /\ events \in Seq(EventNames)
      /\ UpWords \in SUBSET Words /\ DownWords \in SUBSET Words
  BY DEF PlacesOK, Words, UpWords, DownWords
<1>2. /\ Alternates(events')
      /\ Head(events) \in UpWords => UpFirst(events) /\ ~UpFirst(events')
      /\ Head(events) \notin Words /\ UpFirst(events') => UpFirst(events)
  BY <1>1, TailAlternates DEF AlternateInv
<1>3. CASE Head(events) \in UpWords /\ handling' = "push_start"
  <2>1. ~pushOn /\ ~lateStop
    BY <1>2, <1>3 DEF AlternateInv, Stopped
  <2>2. ASSUME Silent(events'), ~IsUp PROVE FALSE
    <3>1. LastIn(events, DownWords) /\ Head(events) \in Words
      BY <1>1, <1>3, <2>2 DEF Agreement
    <3>2. Head(events) \in DownWords
      BY <1>1, <2>2, <3>1, TailWords
    <3>3. QED BY <1>3, <3>2 DEF DownWords
  <2>3. QED BY <1>2, <1>3, <2>1, <2>2 DEF AlternateInv
<1>4. CASE Head(events) \in DownWords /\ handling' = "push_stop"
  BY <1>2, <1>4 DEF AlternateInv, Stopped
<1>5. CASE Head(events) \notin Words /\ handling' = handling
  <2>1. Silent(events') /\ ~IsUp => Silent(events)
    BY <1>1, <1>5, TailWords DEF Agreement
  <2>2. QED BY <1>2, <1>5, <2>1 DEF AlternateInv, Stopped
<1>6. QED BY <1>3, <1>4, <1>5

LEMMA StationAlternates ==
  ASSUME PlacesOK, AlternateInv, fitted # "cat1", StaConnect \/ StaDisconnect,
         UNCHANGED <<fitted, handling, pushOn, lateStop>>
  PROVE  AlternateInv'
<1>1. \/ events' = Append(events, "disconnected")
      \/ events' = events /\ (~IsUp' => ~IsUp)
  BY DEF StaConnect, StaDisconnect, LinkIsUp, PostIf, IsUp
<1>2. "disconnected" \in EventNames \ UpWords /\ "disconnected" \in Words
  BY DEF EventNames, UpWords, Words
<1>3. QED BY <1>1, <1>2, SameQueue, LossPosted

LEMMA StaStepAlternates ==
  PlacesOK /\ OpenInv /\ Agreement /\ AlternateInv /\ StaStep => AlternateInv'
<1> SUFFICES ASSUME PlacesOK, OpenInv, Agreement, AlternateInv, StaStep PROVE AlternateInv'
  OBVIOUS
<1> USE DEF netVars, wifiVars
<1>0. /\ fitted # "cat1" /\ (fitted' = fitted => (IsUp' <=> sta' = "up"))
      /\ (IsUp <=> sta = "up")
  BY DEF StaStep, IsUp
<1>1. CASE WifiOpen
  <2>1. sta # "up" /\ UNCHANGED <<fitted, handling, pushOn, lateStop>>
    BY <1>0, <1>1 DEF WifiOpen, OpenInv
  <2>2. events' = events \/ events' = Append(events, "sta_start")
    BY <1>1 DEF WifiOpen, Post
  <2>3. "sta_start" \in EventNames \ UpWords
    BY DEF EventNames, UpWords
  <2>4. QED BY <1>0, <2>1, <2>2, <2>3, SameQueue, LossPosted
<1>2. CASE WifiRetry
  BY <1>0, <1>2, StationAlternates DEF WifiRetry
<1>3. CASE WifiOpened
  BY <1>0, <1>3, SameQueue DEF WifiOpened
<1>4. CASE HandleStaEvent
  <2>1. /\ handling = "none" /\ events # <<>> /\ events' = Tail(events)
        /\ UNCHANGED <<fitted, pushOn, lateStop>>
    BY <1>4 DEF HandleStaEvent
  <2>2. IsUp' <=> IsUp
    BY <1>0, <1>4, <2>1 DEF HandleStaEvent, HandleStaStart, HandleDisconnected,
       HandleConnected, HandleGotIp
  <2>3. \/ Head(events) \in UpWords /\ handling' = "push_start"
        \/ Head(events) \in DownWords /\ handling' = "push_stop"
        \/ Head(events) \notin Words /\ handling' = handling
    BY <1>4 DEF HandleStaEvent, HandleStaStart, HandleConnected, HandleDisconnected, HandleGotIp,
       UpWords, DownWords, Words
  <2>4. QED BY <2>1, <2>2, <2>3, EventTaken
<1>5. CASE Driver
  <2>1. UNCHANGED <<fitted, handling, pushOn, lateStop>>
    BY <1>5 DEF Driver
  <2>2. CASE StaGetsIp
    <3>1. ~IsUp /\ events' = Append(events, "got_ip") /\ "got_ip" \in UpWords
      BY <1>0, <2>2 DEF StaGetsIp, Post, UpWords
    <3>2. QED BY <2>1, <3>1, UpPosted
  <2>3. CASE StaAssociates \/ StaFails \/ StaDrops
    <3>1. \/ events' = Append(events, "connected") /\ sta # "up"
          \/ events' = Append(events, "disconnected")
      BY <2>3 DEF StaAssociates, StaFails, StaDrops, Post
    <3>2. /\ {"connected", "disconnected"} \subseteq EventNames \ UpWords
          /\ "disconnected" \in Words
      BY DEF EventNames, UpWords, Words
    <3>3. QED BY <1>0, <2>1, <3>1, <3>2, LossPosted
  <2>4. QED BY <1>5, <2>2, <2>3 DEF Driver
<1>6. CASE HttpReconnect
  BY <1>0, <1>6, StationAlternates DEF HttpReconnect, ReconnectStart
<1>7. CASE HttpReconnected
  BY <1>0, <1>7, SameQueue DEF HttpReconnected
<1>8. ASSUME NEW c \in Reconnectors, ReconnectStep(c) PROVE AlternateInv'
  <2>1. CASE ReconnectWaits(c) \/ ReconnectOk(c) \/ ReconnectFails(c)
    BY <1>0, <2>1, SameQueue DEF ReconnectWaits, ReconnectOk, ReconnectFails
  <2>2. CASE ReconnectConnects(c)
    BY <1>0, <2>2, StationAlternates DEF ReconnectConnects
  <2>3. QED BY <1>8, <2>1, <2>2 DEF ReconnectStep
<1>9. CASE WriteBits \/ WriteFlag
  BY <1>0, <1>9, SameQueue DEF WriteBits, WriteFlag
<1>10. QED BY <1>1, <1>2, <1>3, <1>4, <1>5, <1>6, <1>7, <1>8, <1>9 DEF StaStep

LEMMA ProvisionStepAlternates == PlacesOK /\ AlternateInv /\ ProvisionStep => AlternateInv'
<1> SUFFICES ASSUME PlacesOK, AlternateInv, fitted # "cat1", UNCHANGED cat1Vars,
                    NEW d \in DppTasks, DoubleClick(d) \/ DppStep(d)
             PROVE  AlternateInv'
  BY DEF ProvisionStep
<1> USE DEF netVars, wifiVars
<1>0. fitted' = fitted /\ sta' = sta => (IsUp' <=> IsUp)
  BY DEF cat1Vars, IsUp
<1>1. CASE DppPushStop(d)
  <2>1. StopLate /\ UNCHANGED <<fitted, handling, events, sta>>
    BY <1>1 DEF DppPushStop
  <2>2. QED BY <1>0, <2>1, SameQueue DEF StopLate
<1>2. CASE DppDisconnects(d)
  BY <1>2, StationAlternates DEF DppDisconnects
<1>3. CASE DppConfigured(d)
  BY <1>3, StationAlternates DEF DppConfigured, ReconnectStart
<1>4. CASE \/ DoubleClick(d) \/ DppClear(d) \/ DppRefused(d) \/ DppPasses(d)
           \/ DppNoMemory(d) \/ DppGivesUp(d) \/ DppReconnected(d) \/ DppEnd(d)
  <2>1. UNCHANGED <<fitted, handling, pushOn, lateStop, events, sta>>
    BY <1>4 DEF DoubleClick, DppClear, DppRefused, DppPasses, DppNoMemory, DppGivesUp,
       DppReconnected, DppEnd
  <2>2. QED BY <1>0, <2>1, SameQueue
<1>5. QED BY <1>1, <1>2, <1>3, <1>4 DEF DppStep

LEMMA ModemStepAlternates ==
  PlacesOK /\ Agreement /\ AlternateInv /\ ModemStep => AlternateInv'
<1> SUFFICES ASSUME PlacesOK, Agreement, AlternateInv, ModemStep PROVE AlternateInv'
  OBVIOUS
<1> USE DEF netVars, cat1Vars
<1>0. fitted = "cat1" /\ (fitted' = fitted => (IsUp' <=> ppp' = "up")) /\ (IsUp <=> ppp = "up")
  BY DEF ModemStep, IsUp
<1>1. CASE LteOpen \/ LteOpened \/ RestartOpens \/ \E c \in Openers : WaitEnds(c)
  <2>1. UNCHANGED <<fitted, ppp, handling, pushOn, lateStop, events>>
    BY <1>1 DEF LteOpen, LteOpened, RestartOpens, WaitEnds
  <2>2. QED BY <1>0, <2>1, SameQueue
<1>2. CASE HandleLteEvent
  <2>1. /\ handling = "none" /\ events # <<>> /\ events' = Tail(events)
        /\ UNCHANGED <<fitted, ppp, pushOn, lateStop>>
    BY <1>2 DEF HandleLteEvent
  <2>2. \/ Head(events) \in UpWords /\ handling' = "push_start"
        \/ Head(events) \in DownWords /\ handling' = "push_stop"
        \/ Head(events) \notin Words /\ handling' = handling
    BY <1>2 DEF HandleLteEvent, HandlePppLost, UpWords, DownWords, Words
  <2>3. QED BY <1>0, <2>1, <2>2, EventTaken
<1>3. CASE Modem
  <2>1. UNCHANGED <<fitted, handling, pushOn, lateStop, lteCall>>
    BY <1>3 DEF Modem
  <2>2. CASE PppUp
    <3> DEFINE q == Append(events, "ppp_got_ip")
    <3>1. ~IsUp /\ events' = Append(q, "ppp_up")
      BY <1>0, <2>2 DEF PppUp
    <3>2. /\ events \in Seq(EventNames) /\ UpWords \in SUBSET Words /\ DownWords \in SUBSET Words
          /\ "ppp_got_ip" \in EventNames \ Words /\ "ppp_got_ip" \in EventNames
          /\ "ppp_got_ip" \notin UpWords
          /\ "ppp_up" \in UpWords /\ "ppp_up" \in EventNames
      BY DEF PlacesOK, EventNames, Words, UpWords, DownWords
    <3>3. q \in Seq(EventNames)
      BY <3>2
    <3>4. LastIn(q, DownWords) /\ (Silent(q) => Silent(events))
      BY <3>1, <3>2, AppendOther DEF Agreement
    <3>5. Alternates(q) /\ (UpFirst(q) => UpFirst(events))
      BY <3>2, AppendAlternates DEF AlternateInv
    <3> HIDE DEF q
    <3>6. Alternates(events') /\ (UpFirst(events') => UpFirst(q) \/ Silent(q))
      BY <3>1, <3>2, <3>3, <3>4, <3>5, AppendAlternates
    <3>7. ~Silent(events')
      BY <3>1, <3>2, <3>3, AppendWord
    <3>8. QED BY <2>1, <3>1, <3>4, <3>5, <3>6, <3>7 DEF AlternateInv, Stopped
  <2>3. CASE PppFails
    BY <1>0, <2>1, <2>3, SameQueue DEF PppFails
  <2>4. CASE PppDrops
    <3>1. events' = Append(events, "ppp_lost")
      BY <2>4 DEF PppDrops, Post
    <3>2. "ppp_lost" \in EventNames \ UpWords /\ "ppp_lost" \in Words
      BY DEF EventNames, UpWords, Words
    <3>3. QED BY <2>1, <3>1, <3>2, LossPosted
  <2>5. QED BY <1>3, <2>2, <2>3, <2>4 DEF Modem
<1>4. CASE HttpRestart
  <2>1. UNCHANGED <<fitted, ppp, handling, lateStop, events>> /\ pushOn' = FALSE
    BY <1>4 DEF HttpRestart
  <2>2. QED BY <1>0, <2>1, SameQueue
<1>5. CASE RestartDestroys
  <2>1. UNCHANGED <<fitted, handling, pushOn, lateStop>> /\ ppp' = "down"
        /\ events' = IF ppp = "up" THEN Append(events, "ppp_lost") ELSE events
    BY <1>5 DEF RestartDestroys, PostIf
  <2>2. "ppp_lost" \in EventNames \ UpWords /\ "ppp_lost" \in Words
    BY DEF EventNames, UpWords, Words
  <2>3. QED BY <1>0, <2>1, <2>2, SameQueue, LossPosted
<1>6. ASSUME NEW c \in Openers, WaitStops(c) PROVE AlternateInv'
  <2>1. StopLate /\ UNCHANGED <<fitted, ppp, handling, events>>
    BY <1>6 DEF WaitStops
  <2>2. QED BY <1>0, <2>1, SameQueue DEF StopLate
<1>7. ASSUME NEW s \in Openers, StarterStep(s) PROVE AlternateInv'
  <2>1. UNCHANGED <<fitted, handling, pushOn, lateStop, events>> /\ (ppp = "up" => ppp' = "up")
    BY <1>7 DEF StarterStep, StarterClears, StarterFindsModem, StarterAttaches, StarterFails,
       StarterDials
  <2>2. QED BY <1>0, <2>1, SameQueue
<1>8. QED
  BY <1>1, <1>2, <1>3, <1>4, <1>5, <1>6, <1>7 DEF ModemStep, LteRestart, LteWait

LEMMA OtherStepAlternates ==
  PlacesOK /\ AlternateInv /\ (PushStep \/ Work \/ UNCHANGED vars) => AlternateInv'
<1> SUFFICES ASSUME PlacesOK, AlternateInv, PushStep \/ Work \/ UNCHANGED vars
             PROVE  AlternateInv'
  OBVIOUS
<1>1. CASE PushStep
  <2>1. /\ UNCHANGED <<fitted, sta, ppp, events>> /\ lateStop' = FALSE
        /\ handling # "none" /\ handling' = "none"
        /\ pushOn' = (handling = "push_start")
    BY <1>1 DEF PushStep, HandlePush, wifiVars, cat1Vars
  <2>2. (IsUp' <=> IsUp) /\ (pushOn' <=> handling = "push_start")
    BY <2>1 DEF IsUp
  <2>3. handling \in {"push_start", "push_stop"}
    BY <2>1 DEF PlacesOK
  <2>4. QED BY <2>1, <2>2, <2>3 DEF AlternateInv, Stopped
<1>2. CASE Work \/ UNCHANGED vars
  <2>1. UNCHANGED <<fitted, sta, ppp, events, handling, pushOn, lateStop>>
    BY <1>2 DEF Work, MainWaits, MainSleeps, vars, netVars, wifiVars, cat1Vars
  <2>2. IsUp' <=> IsUp
    BY <2>1 DEF IsUp
  <2>3. QED BY <2>1, <2>2, SameQueue
<1>3. QED BY <1>1, <1>2

\* The event task never starts a transport that it has started before and not
\* stopped since, for every size of the queue and however late it is: between
\* two connections in the queue there is always the loss of the first.
THEOREM EventTaskAlternates == Spec => []StartsAfterStop
<1>1. Init => AlternateInv
  <2> SUFFICES ASSUME Init PROVE AlternateInv
    OBVIOUS
  <2>1. Len(events) = 0 /\ 1..0 = {} /\ handling = "none" /\ ~pushOn /\ ~lateStop
    BY DEF Init, NetInit
  <2>2. QED BY <2>1 DEF AlternateInv, Stopped, Alternates, UpFirst
<1>2. NetworkInv /\ AlternateInv /\ [Next]_vars => AlternateInv'
  BY NextCases, StaStepAlternates, ProvisionStepAlternates, ModemStepAlternates,
     OtherStepAlternates DEF NetworkInv
<1>3. AlternateInv => StartsAfterStop
  BY DEF AlternateInv, StartsAfterStop
<1>4. QED BY <1>1, <1>2, <1>3, NetworkInvariant, PTL DEF Spec

-----------------------------------------------------------------------------
\* The bit that keeps the device awake while it is provisioned

DppInv ==
  /\ dppDone /\ (\E d \in DppTasks : Provisioning(d)) => overlap
  /\ ~config => \A d \in DppTasks : dppPc[d] = "idle"

LEMMA ProvisionStepDpp == FlagsOK /\ PlacesOK /\ DppInv /\ ProvisionStep => DppInv'
<1> SUFFICES ASSUME FlagsOK, PlacesOK, DppInv, NEW d \in DppTasks, DoubleClick(d) \/ DppStep(d)
             PROVE  DppInv'
  BY DEF ProvisionStep
<1>0. dppPc \in [DppTasks -> DppPlaces]
  BY DEF PlacesOK
<1>1. config' = config /\ config
  BY DEF DppInv, DoubleClick, DppStep, DppClear, DppPushStop, DppRefused, DppPasses,
     DppDisconnects, DppNoMemory, DppGivesUp, DppConfigured, ReconnectStart, DppReconnected, DppEnd, DppGoes, netVars
<1>2. CASE DppClear(d)
  BY <1>1, <1>2, Zenon DEF DppInv, DppClear
<1>3. CASE DppEnd(d)
  <2>1. \A e \in DppTasks : Provisioning(e)' => Provisioning(e)
    BY <1>0, <1>3 DEF DppEnd, DppGoes, Provisioning
  <2>2. overlap' = (\E e \in DppTasks : Provisioning(e))
    BY <1>3 DEF DppEnd, SetDppDone
  <2>3. QED BY <1>1, <2>1, <2>2 DEF DppInv
<1>4. CASE \/ DoubleClick(d) \/ DppPushStop(d) \/ DppRefused(d) \/ DppPasses(d)
           \/ DppDisconnects(d) \/ DppNoMemory(d) \/ DppGivesUp(d) \/ DppConfigured(d)
           \/ DppReconnected(d)
  <2>1. \A e \in DppTasks : Provisioning(e)' => Provisioning(e)
    BY <1>0, <1>4 DEF Provisioning, DppGoes, DoubleClick, DppPushStop, DppRefused,
       DppPasses, DppDisconnects, DppNoMemory, DppGivesUp, DppConfigured, DppReconnected
  <2>2. UNCHANGED <<dppDone, overlap>>
    BY <1>4 DEF DoubleClick, DppPushStop, DppRefused, DppPasses, DppDisconnects, DppNoMemory,
       DppGivesUp, DppConfigured, DppReconnected
  <2>3. QED BY <1>1, <2>1, <2>2 DEF DppInv
<1>5. QED BY <1>2, <1>3, <1>4 DEF DppStep

LEMMA OtherStepDpp ==
  DppInv /\ (StaStep \/ ModemStep \/ PushStep \/ Work \/ UNCHANGED vars) => DppInv'
<1> SUFFICES ASSUME DppInv, StaStep \/ ModemStep \/ PushStep \/ Work \/ UNCHANGED vars
             PROVE  DppInv'
  OBVIOUS
<1>1. dppPc' = dppPc
  BY DEF StaStep, ModemStep, PushStep, Work, MainWaits, MainSleeps, vars, dppVars
<1>2. config' = config
  <2>1. CASE StaStep
    BY <2>1 DEF StaStep, WifiOpen, WifiRetry, WifiOpened, HandleStaEvent, WriteBits,
       WriteFlag, Driver, HttpReconnect,
       ReconnectStart, HttpReconnected, ReconnectStep, ReconnectWaits, ReconnectConnects,
       ReconnectOk, ReconnectFails, netVars
  <2>2. CASE ModemStep
    <3>1. CASE \E c \in Openers : LteWait(c) \/ StarterStep(c)
      BY <3>1 DEF LteWait, WaitEnds, WaitStops, StarterStep, netVars
    <3>2. CASE LteOpen \/ LteOpened \/ HandleLteEvent \/ Modem \/ HttpRestart \/ LteRestart
      BY <3>2 DEF LteOpen, LteOpened, HandleLteEvent, Modem, HttpRestart, LteRestart,
         RestartDestroys, RestartOpens, netVars
    <3>3. QED BY <2>2, <3>1, <3>2 DEF ModemStep
  <2>3. CASE PushStep \/ Work \/ UNCHANGED vars
    BY <2>3 DEF PushStep, HandlePush, Work, MainWaits, MainSleeps, vars, netVars
  <2>4. QED BY <2>1, <2>2, <2>3
<1>3. CASE UNCHANGED <<dppDone, overlap>>
  BY <1>1, <1>2, <1>3 DEF DppInv, Provisioning
<1>4. CASE SetDppDone
  <2>1. overlap' = (\E d \in DppTasks : Provisioning(d))
    BY <1>4 DEF SetDppDone
  <2>2. \A d \in DppTasks : Provisioning(d)' <=> Provisioning(d)
    BY <1>1 DEF Provisioning
  <2>3. QED BY <1>1, <1>2, <2>1, <2>2 DEF DppInv
<1>5. ASSUME ~SetDppDone PROVE UNCHANGED <<dppDone, overlap>>
  BY <1>5 DEF StaStep, ModemStep, PushStep, Work, MainWaits, MainSleeps, vars, dppVars
<1>6. QED BY <1>3, <1>4, <1>5

LEMMA DppInvariant == Spec => []DppInv
<1>1. Init => DppInv
  BY DEF Init, DppInit, DppInv
<1>2. NetworkInv /\ DppInv /\ [Next]_vars => DppInv'
  BY NextCases, ProvisionStepDpp, OtherStepDpp DEF NetworkInv
<1>3. QED BY <1>1, <1>2, NetworkInvariant, PTL DEF Spec

LEMMA OnlyMainSleeps == Next /\ mainPc' = "asleep" /\ mainPc # "asleep" => MainSleeps
<1> SUFFICES ASSUME Next, mainPc' = "asleep", mainPc # "asleep" PROVE MainSleeps
  OBVIOUS
<1>1. CASE StaStep
  BY <1>1 DEF StaStep, WifiOpen, WifiRetry, WifiOpened, HandleStaEvent, WriteBits,
       WriteFlag, Driver, HttpReconnect,
     ReconnectStart, HttpReconnected, ReconnectStep, ReconnectWaits, ReconnectConnects,
     ReconnectOk, ReconnectFails, netVars
<1>2. CASE ProvisionStep
  BY <1>2 DEF ProvisionStep, DoubleClick, DppStep, DppClear, DppPushStop, DppRefused,
     DppPasses, DppDisconnects, DppNoMemory, DppGivesUp, DppConfigured, ReconnectStart, DppReconnected, DppEnd, netVars
<1>3. CASE ModemStep
  <2>1. CASE \E c \in Openers : LteWait(c) \/ StarterStep(c)
    BY <2>1 DEF LteWait, WaitEnds, WaitStops, StarterStep, netVars
  <2>2. CASE LteOpen \/ LteOpened \/ HandleLteEvent \/ Modem \/ HttpRestart \/ LteRestart
    BY <2>2 DEF LteOpen, LteOpened, HandleLteEvent, Modem, HttpRestart, LteRestart,
       RestartDestroys, RestartOpens, netVars
  <2>3. QED BY <1>3, <2>1, <2>2 DEF ModemStep
<1>4. CASE PushStep \/ Work
  BY <1>4 DEF PushStep, HandlePush, Work, MainWaits
<1>5. QED BY <1>1, <1>2, <1>3, <1>4, NextCases

\* The device never goes to deep sleep in the middle of a provisioning by push
\* button, unless SLEEP_DPP_DONE_BIT was set by another provisioning task, or
\* by the main task that came to wait while one was under way.
THEOREM AwakeForDpp == Spec => SleepsWithoutDpp
<1>1. DppInv /\ [Next]_vars =>
        (mainPc' = "asleep" /\ mainPc # "asleep"
           => overlap \/ \A d \in DppTasks : ~Provisioning(d))
  <2> SUFFICES ASSUME DppInv, [Next]_vars, mainPc' = "asleep", mainPc # "asleep"
               PROVE  overlap \/ \A d \in DppTasks : ~Provisioning(d)
    OBVIOUS
  <2>1. Next
    BY DEF vars, netVars
  <2>2. config => dppDone
    BY <2>1, OnlyMainSleeps DEF MainSleeps
  <2>3. QED BY <2>2 DEF DppInv, Provisioning
<1>2. QED BY DppInvariant, <1>1, PTL DEF Spec, SleepsWithoutDpp

-----------------------------------------------------------------------------
\* What wifi_sta_reconnect tells its caller

Without(q, S) == \A k \in 1..Len(q) : q[k] \notin S

LEMMA QueueWithout ==
  ASSUME NEW q \in Seq(EventNames), NEW S, Without(q, S)
  PROVE  /\ \A e \in EventNames \ S : Without(Append(q, e), S)
         /\ q # <<>> => Without(Tail(q), S) /\ Head(q) \notin S
<1>1. ASSUME NEW e \in EventNames \ S PROVE Without(Append(q, e), S)
  <2> DEFINE a == Append(q, e)
  <2>1. /\ Len(a) = Len(q) + 1 /\ Len(q) \in Nat
        /\ \A k \in 1..Len(q) : a[k] = q[k]
        /\ a[Len(q) + 1] = e
    OBVIOUS
  <2> HIDE DEF a
  <2>2. ASSUME NEW k \in 1..Len(a) PROVE k \in 1..Len(q) \/ k = Len(q) + 1
    BY <2>1
  <2>3. Without(a, S)
    BY <2>1, <2>2 DEF Without
  <2>4. QED BY <2>3 DEF a
<1>2. ASSUME q # <<>> PROVE Without(Tail(q), S) /\ Head(q) \notin S
  <2> DEFINE t == Tail(q)
  <2>1. /\ Len(t) = Len(q) - 1 /\ Len(q) \in Nat \ {0}
        /\ \A k \in 1..Len(t) : t[k] = q[k + 1]
        /\ Head(q) = q[1]
    BY <1>2
  <2> HIDE DEF t
  <2>2. \A k \in 1..Len(t) : k + 1 \in 1..Len(q)
    BY <2>1
  <2>3. Without(t, S) /\ 1 \in 1..Len(q)
    BY <2>1, <2>2 DEF Without
  <2>4. QED BY <2>1, <2>3 DEF Without, t
<1>3. QED BY <1>1, <1>2

PppWords == {"ppp_up", "ppp_lost"}

\* With the ESP32's Wi-Fi only the web page reconnects, with the station started;
\* until it connects the station is idle, and from its wait on, an address of
\* the connection before is neither in the bits, nor in the queue, nor being handled.
ReconnectInv ==
  fitted = "wifi" =>
    /\ call["dpp"] = "idle" /\ \A d \in DppTasks : dppPc[d] = "idle"
    /\ Without(events, PppWords)
    /\ call["http"] # "idle" =>
         mainPc \notin {"open", "retry"} /\ Without(events, {"sta_start"})
    /\ call["http"] \in {"disconnecting", "configure"} => sta = "idle"
    /\ call["http"] \in {"configure", "connecting"} =>
         \/ fresh \/ late
         \/ /\ "CONNECT" \notin bits /\ writing \notin {"clear", "connect"}
            /\ Without(events, {"got_ip"})
    /\ call["http"] = "ok" => fresh \/ late

LEMMA EventReconnect ==
  ASSUME FlagsOK, PlacesOK, ReconnectInv, fitted = "wifi", HandleStaEvent, UNCHANGED dppVars
  PROVE  ReconnectInv'
<1>1. /\ events # <<>> /\ events' = Tail(events)
      /\ UNCHANGED <<fitted, mainPc, call, fresh, late, dppPc>>
  BY DEF HandleStaEvent, dppVars
<1>2. \A S : Without(events, S) => Without(events', S) /\ Head(events) \notin S
  BY <1>1, QueueWithout DEF PlacesOK
<1>3. call["http"] # "idle" => sta' = sta
  BY <1>2 DEF ReconnectInv, HandleStaEvent, HandleDisconnected, HandleConnected, HandleGotIp
<1>4. Without(events, {"got_ip"}) /\ "CONNECT" \notin bits
        => "CONNECT" \notin bits' /\ writing' \notin {"clear", "connect"}
  BY <1>2 DEF HandleStaEvent, HandleStaStart, HandleDisconnected, HandleConnected
<1>5. QED BY <1>1, <1>2, <1>3, <1>4 DEF ReconnectInv

LEMMA WriteReconnect ==
  ASSUME ReconnectInv, fitted = "wifi", WriteBits \/ WriteFlag, UNCHANGED dppVars
  PROVE  ReconnectInv'
<1>1. UNCHANGED <<fitted, mainPc, events, sta, call, fresh, late, dppPc>>
  BY DEF WriteBits, WriteFlag, netVars, dppVars
<1>2. writing \notin {"clear", "connect"} =>
        writing' \notin {"clear", "connect"} /\ ("CONNECT" \in bits' => "CONNECT" \in bits)
  BY DEF WriteBits, WriteFlag
<1>3. QED BY <1>1, <1>2 DEF ReconnectInv

LEMMA DriverReconnect ==
  ASSUME FlagsOK, PlacesOK, ReconnectInv, fitted = "wifi", Driver, UNCHANGED dppVars
  PROVE  ReconnectInv'
<1>1. UNCHANGED <<fitted, mainPc, call, late, bits, writing, dppPc>>
  BY DEF Driver, dppVars
<1>2. sta # "idle"
  BY DEF Driver, StaAssociates, StaGetsIp, StaFails, StaDrops
<1>3. \A S : \A e \in EventNames \ S : Without(events, S) => Without(Append(events, e), S)
  BY QueueWithout DEF PlacesOK
<1>4. CASE StaGetsIp
  <2>1. events' = Append(events, "got_ip")
        /\ fresh' = (fresh \/ call["http"] = "connecting")
    BY <1>4, Zenon DEF StaGetsIp, Post
  <2>2. "got_ip" \in (EventNames \ PppWords) \cap (EventNames \ {"sta_start"})
    BY DEF EventNames, PppWords
  <2>3. QED BY <1>1, <1>2, <1>3, <2>1, <2>2 DEF ReconnectInv
<1>5. CASE StaFails \/ StaDrops
  <2>1. events' = Append(events, "disconnected") /\ UNCHANGED fresh
    BY <1>5 DEF StaFails, StaDrops, Post
  <2>2. "disconnected" \in (EventNames \ PppWords) \cap (EventNames \ {"sta_start"})
                             \cap (EventNames \ {"got_ip"})
    BY DEF EventNames, PppWords
  <2>3. QED BY <1>1, <1>2, <1>3, <2>1, <2>2 DEF ReconnectInv
<1>6. QED BY <1>4, <1>5 DEF Driver, StaAssociates

LEMMA OpenReconnect ==
  ASSUME FlagsOK, PlacesOK, OpenInv, ReconnectInv, fitted = "wifi",
         WifiOpen \/ WifiRetry \/ WifiOpened, UNCHANGED dppVars
  PROVE  ReconnectInv'
<1>1. UNCHANGED <<fitted, call, late, bits, writing, fresh, dppPc>>
  BY DEF WifiOpen, WifiRetry, WifiOpened, wifiVars, dppVars
<1>2. call["http"] = "idle"
  BY DEF WifiOpen, WifiRetry, WifiOpened, OpenInv, ReconnectInv
<1>3. events' = events \/ events' = Append(events, "sta_start")
  BY DEF WifiOpen, WifiRetry, WifiOpened, StaConnect, PostIf, Post
<1>4. "sta_start" \in EventNames \ PppWords
  BY DEF EventNames, PppWords
<1>5. \A S : \A e \in EventNames \ S : Without(events, S) => Without(Append(events, e), S)
  BY QueueWithout DEF PlacesOK
<1>6. Without(events', PppWords)
  BY <1>3, <1>4, <1>5 DEF ReconnectInv
<1>7. QED BY <1>1, <1>2, <1>6 DEF ReconnectInv

\* The wait ends with no disconnection on its way: the events of the connection
\* of before have all been handled, and the last of them cleared CONNECT.
LEMMA WaitsReconnect ==
  ASSUME NetworkInv, ReconnectInv, fitted = "wifi", ReconnectWaits("http"), UNCHANGED dppVars
  PROVE  ReconnectInv'
<1> USE DEF NetworkInv
<1>1. /\ UNCHANGED <<fitted, mainPc, events, sta, writing, fresh, dppPc>>
      /\ call["http"] = "disconnecting" /\ call' = [call EXCEPT !["http"] = "configure"]
      /\ bits' = bits \ {"DISCONNECT"} /\ (late' <=> Underway)
  BY DEF ReconnectWaits, CallGoes, netVars, dppVars
<1>2. sta = "idle" /\ ~IsUp
  BY <1>1 DEF ReconnectInv, IsUp
<1>3. ASSUME ~Underway
      PROVE  "CONNECT" \notin bits /\ writing \notin {"clear", "connect"}
             /\ Without(events, {"got_ip"})
  <2>1. \A k \in 1..Len(events) : events[k] \notin DownWords
    BY <1>3 DEF Underway, DownWords, Words, UpWords, ReconnectInv, Without, PppWords
  <2>2. Silent(events)
    BY <1>2, <2>1 DEF Agreement, LastIn, Silent
  <2>3. handling # "push_start" /\ (writing \in {"disconnect", "flag"} \/ ~isConnected)
    BY <1>2, <2>2 DEF Agreement, Settled
  <2>4. "CONNECT" \notin bits /\ writing \notin {"clear", "connect"}
    BY <2>3 DEF BitsInv
  <2>5. QED BY <2>2, <2>4 DEF Silent, Without, Words
<1>4. call'["http"] = "configure" /\ call'["dpp"] = call["dpp"]
  BY <1>1 DEF PlacesOK
<1>5. QED BY <1>1, <1>2, <1>3, <1>4 DEF ReconnectInv

LEMMA CallReconnect ==
  ASSUME NetworkInv, ReconnectInv, fitted = "wifi", UNCHANGED dppVars,
         \/ HttpReconnect \/ HttpReconnected
         \/ \E c \in Reconnectors : ReconnectStep(c)
  PROVE  ReconnectInv'
<1> USE DEF netVars, dppVars
<1>0. /\ events \in Seq(EventNames) /\ call \in [Reconnectors -> CallPlaces]
  BY DEF NetworkInv, PlacesOK
<1>1. CASE HttpReconnect
  <2>1. /\ UNCHANGED <<fitted, mainPc, dppPc>> /\ mainPc \in {"opened", "waiting"}
        /\ call' = [call EXCEPT !["http"] = "disconnecting"] /\ sta' = "idle"
        /\ Without(events, {"sta_start"})
        /\ events' = events \/ events' = Append(events, "disconnected")
    BY <1>1 DEF HttpReconnect, ReconnectStart, CallGoes, StaDisconnect, PostIf, Without
  <2>2. "disconnected" \in (EventNames \ PppWords) \cap (EventNames \ {"sta_start"})
    BY DEF EventNames, PppWords
  <2>3. \A S : \A e \in EventNames \ S : Without(events, S) => Without(Append(events, e), S)
    BY <1>0, QueueWithout
  <2>4. Without(events', PppWords) /\ Without(events', {"sta_start"})
    BY <2>1, <2>2, <2>3 DEF ReconnectInv
  <2>5. call'["http"] = "disconnecting" /\ call'["dpp"] = call["dpp"]
    BY <1>0, <2>1
  <2>6. QED BY <2>1, <2>4, <2>5 DEF ReconnectInv
<1>2. CASE HttpReconnected
  <2>1. UNCHANGED <<fitted, mainPc, events, dppPc>> /\ call' = [call EXCEPT !["http"] = "idle"]
    BY <1>2 DEF HttpReconnected
  <2>2. call'["http"] = "idle" /\ call'["dpp"] = call["dpp"]
    BY <1>0, <2>1
  <2>3. QED BY <2>1, <2>2 DEF ReconnectInv
<1>3. ASSUME NEW c \in Reconnectors, ReconnectStep(c) PROVE ReconnectInv'
  <2>1. c = "http"
    BY <1>3 DEF ReconnectInv, ReconnectStep, ReconnectWaits, ReconnectConnects, ReconnectOk,
       ReconnectFails, CallGoes
  <2>2. CASE ReconnectWaits("http")
    BY <2>2, WaitsReconnect
  <2>3. CASE ReconnectConnects("http")
    <3>1. /\ UNCHANGED <<fitted, mainPc, events, bits, writing, fresh, late, dppPc>>
          /\ call["http"] = "configure" /\ call' = [call EXCEPT !["http"] = "connecting"]
      BY <2>3 DEF ReconnectConnects, CallGoes, StaConnect, PostIf
    <3>2. call'["http"] = "connecting" /\ call'["dpp"] = call["dpp"]
      BY <1>0, <3>1
    <3>3. QED BY <3>1, <3>2 DEF ReconnectInv
  <2>4. CASE ReconnectOk("http") \/ ReconnectFails("http")
    <3>1. /\ UNCHANGED <<fitted, mainPc, events, fresh, late, dppPc>>
          /\ call["http"] = "connecting"
          /\ \/ "CONNECT" \in bits /\ call' = [call EXCEPT !["http"] = "ok"]
             \/ call' = [call EXCEPT !["http"] = "failed"]
      BY <2>4 DEF ReconnectOk, ReconnectFails, CallGoes, Awaited
    <3>2. /\ call'["dpp"] = call["dpp"] /\ call'["http"] \in {"ok", "failed"}
          /\ call'["http"] = "ok" => "CONNECT" \in bits
      BY <1>0, <3>1
    <3>3. QED BY <3>1, <3>2 DEF ReconnectInv
  <2>5. QED BY <1>3, <2>1, <2>2, <2>3, <2>4 DEF ReconnectStep
<1>4. QED BY <1>1, <1>2, <1>3

LEMMA StepReconnect == NetworkInv /\ ReconnectInv /\ [Next]_vars => ReconnectInv'
<1> SUFFICES ASSUME NetworkInv, ReconnectInv, [Next]_vars PROVE ReconnectInv'
  OBVIOUS
<1>1. CASE StaStep
  <2>1. fitted' = fitted /\ UNCHANGED dppVars
    BY <1>1 DEF StaStep, WifiOpen, WifiRetry, WifiOpened, HandleStaEvent, WriteBits,
       WriteFlag, Driver, HttpReconnect,
       ReconnectStart, HttpReconnected, ReconnectStep, ReconnectWaits, ReconnectConnects,
       ReconnectOk, ReconnectFails, netVars
  <2>2. CASE fitted = "wifi"
    BY <1>1, <2>1, <2>2, EventReconnect, WriteReconnect, DriverReconnect, OpenReconnect,
       CallReconnect
       DEF StaStep, NetworkInv
  <2>3. QED BY <2>1, <2>2 DEF ReconnectInv
<1>2. CASE ProvisionStep
  <2>1. PICK d \in DppTasks : DoubleClick(d) \/ DppStep(d)
    BY <1>2 DEF ProvisionStep
  <2>2. fitted' = fitted /\ (fitted = "halow" \/ dppPc[d] # "idle")
    BY <2>1 DEF DoubleClick, DppStep, DppClear, DppPushStop, DppRefused, DppPasses,
       DppDisconnects, DppNoMemory, DppGivesUp, DppConfigured, ReconnectStart, DppReconnected, DppEnd, DppGoes, netVars
  <2>3. QED BY <2>2 DEF ReconnectInv
<1>3. CASE ModemStep
  <2>1. fitted = "cat1" /\ fitted' = fitted
    <3>1. CASE \E c \in Openers : LteWait(c) \/ StarterStep(c)
      BY <1>3, <3>1 DEF ModemStep, LteWait, WaitEnds, WaitStops, StarterStep, netVars
    <3>2. CASE LteOpen \/ LteOpened \/ HandleLteEvent \/ Modem \/ HttpRestart \/ LteRestart
      BY <1>3, <3>2 DEF ModemStep, LteOpen, LteOpened, HandleLteEvent, Modem, HttpRestart,
         LteRestart, RestartDestroys, RestartOpens, netVars
    <3>3. QED BY <1>3, <3>1, <3>2 DEF ModemStep
  <2>2. QED BY <2>1 DEF ReconnectInv
<1>4. CASE PushStep \/ Work \/ UNCHANGED vars
  <2>1. UNCHANGED <<fitted, events, sta, bits, writing, call, fresh, late, dppPc>>
        /\ (mainPc' = mainPc \/ mainPc' \in {"waiting", "asleep"})
    BY <1>4 DEF PushStep, HandlePush, Work, MainWaits, MainSleeps, vars, netVars, wifiVars, dppVars
  <2>2. QED BY <2>1 DEF ReconnectInv
<1>5. QED BY <1>1, <1>2, <1>3, <1>4, NextCases

\* With the ESP32's Wi-Fi, new credentials are reported as good to the web page
\* only if an address was got with them, or if the page's wait for the
\* disconnection had ended before the event task got to it.
THEOREM OkIsTrue == Spec => []OkMeansConnected
<1>1. Init => ReconnectInv
  <2> SUFFICES ASSUME Init PROVE ReconnectInv
    OBVIOUS
  <2> USE DEF Init, NetInit, WifiInit, DppInit
  <2>1. Len(events) = 0 /\ 1..0 = {}
    OBVIOUS
  <2>2. QED BY <2>1 DEF ReconnectInv, Without
<1>2. NetworkInv /\ ReconnectInv => OkMeansConnected
  BY DEF ReconnectInv, OkMeansConnected
<1>3. QED BY <1>1, <1>2, StepReconnect, NetworkInvariant, PTL DEF Spec
=============================================================================
