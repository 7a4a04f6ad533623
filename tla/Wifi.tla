--------------------------------- MODULE Wifi ---------------------------------
(***************************************************************************)
(* The station of wifi.c, over the ESP32's own Wi-Fi or over the HaLow     *)
(* module of morse.c: opening it, its events, and wifi_sta_reconnect,      *)
(* which the web page and the provisioning of module Dpp call to try new   *)
(* credentials.                                                            *)
(*                                                                         *)
(* The drivers are taken as their interfaces say.  The ESP32 does not try  *)
(* again by itself, and connecting again while it tries does nothing.      *)
(* HaLow tries for 20 s (the timer of morse.c) or, after it was up, until  *)
(* it is told to stop; enabling it again begins anew.                      *)
(***************************************************************************)
EXTENDS NetEvents

CONSTANTS MaxRetries   \* WIFI_STA_CONNECT_MAX_RETRIES

ASSUME MaxRetriesAssumption == MaxRetries \in Nat \ {0}

VARIABLES
  sta,          \* the driver's station
  bits,         \* g_wifi.eventGroup
  isConnected,  \* g_wifi.isConnected
  writing,      \* what the handler in progress will write next of these two
  retries,      \* retry_count of wifi_open
  call,         \* wifi_sta_reconnect: where each caller is
  fresh,        \* history: an address was got since the caller connected
  late          \* history: the caller's wait ended before the disconnection

wifiVars == <<sta, bits, isConnected, writing, retries, call, fresh, late>>

Reconnectors == {"http", "dpp"}
CallPlaces == {"idle", "disconnecting", "configure", "connecting", "ok", "failed"}

\* esp_wifi_disconnect or mm_wifi_disconnect
LinkIsUp == sta \in {"assoc", "up"} \/ (sta = "connecting" /\ fitted = "wifi")
StaDisconnect == sta' = "idle" /\ PostIf(LinkIsUp, "disconnected")

\* esp_wifi_connect or mm_wifi_connect
StaConnect ==
  /\ sta' = IF fitted = "halow" \/ sta = "idle" THEN "connecting" ELSE sta
  /\ PostIf(fitted = "halow" /\ LinkIsUp, "disconnected")

-----------------------------------------------------------------------------
\* The driver and the access point it talks to

StaAssociates ==
  /\ fitted = "halow" /\ sta \in {"connecting", "retrying"} /\ CanPost
  /\ sta' = "assoc"
  /\ Post("connected")
  /\ UNCHANGED <<fresh>>

StaGetsIp ==
  /\ sta = (IF fitted = "halow" THEN "assoc" ELSE "connecting") /\ CanPost
  /\ sta' = "up"
  /\ Post("got_ip")
  /\ fresh' = (fresh \/ (call["http"] = "connecting" /\ fitted = "wifi"))

StaFails ==
  /\ "fail" \in NetFaults
  /\ sta = "connecting" /\ CanPost
  /\ sta' = "idle"
  /\ Post("disconnected")
  /\ UNCHANGED fresh

StaDrops ==
  /\ "drop" \in NetFaults
  /\ sta \in {"assoc", "up"} /\ CanPost
  /\ sta' = IF fitted = "halow" THEN "retrying" ELSE "idle"
  /\ Post("disconnected")
  /\ UNCHANGED fresh

Driver ==
  /\ StaAssociates \/ StaGetsIp \/ StaFails \/ StaDrops
  /\ UNCHANGED <<fitted, config, mainPc, handling, pushOn, lateStop,
                 bits, isConnected, writing, retries, call, late>>

-----------------------------------------------------------------------------
\* wifi_event_handler and ip_event_handler, in the event task.  The other tasks
\* see each change of the bits and of isConnected by itself.

HandleStaStart ==
  /\ sta' = IF sta = "idle" THEN "connecting" ELSE sta
  /\ UNCHANGED <<bits, isConnected, writing, handling>>

(* Mutant of HandleDisconnected: only the link bit is cleared. *)
HandleDisconnectedKeepsIp ==
  /\ bits' = bits \ {"LINK_UP"}
  /\ writing' = "disconnect" /\ handling' = "push_stop"
  /\ UNCHANGED <<sta, isConnected>>

HandleDisconnected ==
  /\ bits' = bits \ {"CONNECT", "LINK_UP"}
  /\ writing' = "disconnect" /\ handling' = "push_stop"
  /\ UNCHANGED <<sta, isConnected>>

HandleConnected ==
  /\ bits' = bits \ {"DISCONNECT"}
  /\ writing' = "link_up"
  /\ UNCHANGED <<sta, isConnected, handling>>

HandleGotIp ==
  /\ isConnected' = TRUE
  /\ writing' = "clear" /\ handling' = "push_start"
  /\ UNCHANGED <<sta, bits>>

HandleStaEvent ==
  /\ handling = "none" /\ writing = "none" /\ events # <<>>
  /\ events' = Tail(events)
  /\ \/ Head(events) = "sta_start" /\ HandleStaStart
     \/ Head(events) = "disconnected" /\ HandleDisconnected
     \/ Head(events) = "connected" /\ HandleConnected
     \/ Head(events) = "got_ip" /\ HandleGotIp
  /\ UNCHANGED <<fitted, config, mainPc, pushOn, lateStop, retries, call, fresh, late>>

\* The writes that follow the first: of the bits...
WriteBits ==
  /\ \/ /\ writing = "disconnect" /\ writing' = "flag"
        /\ bits' = bits \cup {"DISCONNECT"}
     \/ /\ writing = "link_up" /\ writing' = "none"
        /\ bits' = bits \cup {"LINK_UP"}
     \/ /\ writing = "clear" /\ writing' = "connect"
        /\ bits' = bits \ {"DISCONNECT"}
     \/ /\ writing = "connect" /\ writing' = "none"
        /\ bits' = bits \cup {"CONNECT"}
  /\ UNCHANGED <<netVars, sta, isConnected, retries, call, fresh, late>>

\* ... and of isConnected, after a disconnection.
WriteFlag ==
  /\ writing = "flag" /\ writing' = "none"
  /\ isConnected' = FALSE
  /\ UNCHANGED <<netVars, sta, bits, retries, call, fresh, late>>

StaHandler == HandleStaEvent \/ WriteBits \/ WriteFlag

-----------------------------------------------------------------------------
\* wifi_open, in the main task.  Only the ESP32's station, and not next to an
\* access point, is waited for.

WifiOpen ==
  /\ mainPc = "open"
  /\ IF fitted = "halow"
     THEN sta' = "connecting" /\ UNCHANGED events
     ELSE UNCHANGED sta /\ Post("sta_start")
  /\ mainPc' = IF fitted = "halow" \/ config THEN "opened" ELSE "retry"
  /\ UNCHANGED <<fitted, config, handling, pushOn, lateStop,
                 bits, isConnected, writing, retries, call, fresh, late>>

WifiOpened ==
  /\ mainPc = "retry" /\ "CONNECT" \in bits
  /\ mainPc' = "opened"
  /\ UNCHANGED <<fitted, config, events, handling, pushOn, lateStop, wifiVars>>

(* Mutant of WifiRetry: only a timeout counts as a try. *)
WifiRetryUncounted ==
  /\ mainPc = "retry" /\ "CONNECT" \notin bits
  /\ StaConnect
  /\ retries' = IF "DISCONNECT" \in bits THEN retries ELSE retries + 1
  /\ mainPc' = IF retries' = MaxRetries THEN "opened" ELSE "retry"
  /\ UNCHANGED <<fitted, config, handling, pushOn, lateStop,
                 bits, isConnected, writing, call, fresh, late>>

(* Mutant of WifiRetry: one try too many. *)
WifiRetryOnceMore ==
  /\ mainPc = "retry" /\ "CONNECT" \notin bits
  /\ StaConnect
  /\ retries' = retries + 1
  /\ mainPc' = IF retries' > MaxRetries THEN "opened" ELSE "retry"
  /\ UNCHANGED <<fitted, config, handling, pushOn, lateStop,
                 bits, isConnected, writing, call, fresh, late>>

\* DISCONNECT is set, or nothing has come in 20 s.
WifiRetry ==
  /\ mainPc = "retry" /\ "CONNECT" \notin bits
  /\ StaConnect
  /\ retries' = retries + 1
  /\ mainPc' = IF retries' = MaxRetries THEN "opened" ELSE "retry"
  /\ UNCHANGED <<fitted, config, handling, pushOn, lateStop,
                 bits, isConnected, writing, call, fresh, late>>

-----------------------------------------------------------------------------
\* wifi_sta_reconnect

CallGoes(c, from, to) == call[c] = from /\ call' = [call EXCEPT ![c] = to]

ReconnectStart(c) ==
  /\ CallGoes(c, "idle", "disconnecting") /\ CanPost
  /\ StaDisconnect
  /\ UNCHANGED <<fitted, config, mainPc, handling, pushOn, lateStop,
                 bits, isConnected, writing, retries, fresh, late>>

\* The event the caller waits for is posted and not handled.
Underway == \E k \in 1..Len(events) : events[k] = "disconnected"

(* Mutant of ReconnectWaits: DISCONNECT is not looked at. *)
ReconnectWaitsNot(c) ==
  /\ CallGoes(c, "disconnecting", "configure")
  /\ UNCHANGED <<bits, late>>
  /\ UNCHANGED <<netVars, sta, isConnected, writing, retries, fresh>>

\* The wait clears DISCONNECT, which may be there from before, or ends after 2 s.
ReconnectWaits(c) ==
  /\ CallGoes(c, "disconnecting", "configure")
  /\ bits' = bits \ {"DISCONNECT"}
  /\ late' = (Underway /\ fitted = "wifi")
  /\ "DISCONNECT" \notin bits /\ Underway => "slow_events" \in NetFaults
  /\ UNCHANGED <<netVars, sta, isConnected, writing, retries, fresh>>

\* wifi_cfg_sta and the connect, with which HaLow may have to post.
ReconnectConnects(c) ==
  /\ CallGoes(c, "configure", "connecting")
  /\ fitted = "halow" => CanPost
  /\ StaConnect
  /\ bits' = IF fitted = "halow" THEN bits \ {"LINK_UP"} ELSE bits
  /\ UNCHANGED <<fitted, config, mainPc, handling, pushOn, lateStop,
                 isConnected, writing, retries, fresh, late>>

\* The last wait: for the address with the ESP32, for the link with HaLow.
Awaited == IF fitted = "halow" THEN "LINK_UP" ELSE "CONNECT"

\* The ESP32's wait clears its bit; HaLow's leaves the bits as they are.
ReconnectOk(c) ==
  /\ Awaited \in bits
  /\ CallGoes(c, "connecting", "ok")
  /\ bits' = IF fitted = "halow" THEN bits ELSE bits \ {"CONNECT"}
  /\ UNCHANGED <<netVars, sta, isConnected, writing, retries, fresh, late>>

\* After 20 s or, with HaLow, at once when DISCONNECT is set.
ReconnectFails(c) ==
  /\ Awaited \notin bits
  /\ CallGoes(c, "connecting", "failed")
  /\ UNCHANGED <<netVars, sta, bits, isConnected, writing, retries, fresh, late>>

ReconnectStep(c) ==
  ReconnectWaits(c) \/ ReconnectConnects(c) \/ ReconnectOk(c) \/ ReconnectFails(c)

\* set_wifi_param_handle: the credentials are saved if they worked.  The page
\* comes over the access point, well after the station has started.
HttpReconnect ==
  /\ config /\ mainPc \in {"opened", "waiting"}
  /\ \A k \in 1..Len(events) : events[k] # "sta_start"
  /\ ReconnectStart("http")

HttpReconnected ==
  /\ call["http"] \in {"ok", "failed"}
  /\ call' = [call EXCEPT !["http"] = "idle"]
  /\ fresh' = FALSE /\ late' = FALSE
  /\ UNCHANGED <<netVars, sta, bits, isConnected, writing, retries>>

-----------------------------------------------------------------------------
WifiInit ==
  /\ sta = "idle" /\ bits = {} /\ isConnected = FALSE /\ writing = "none" /\ retries = 0
  /\ call = [c \in Reconnectors |-> "idle"]
  /\ fresh = FALSE /\ late = FALSE

WifiTypeOK ==
  /\ sta \in {"idle", "connecting", "retrying", "assoc", "up"}
  /\ bits \subseteq {"CONNECT", "DISCONNECT", "LINK_UP"}
  /\ isConnected \in BOOLEAN
  /\ writing \in {"none", "disconnect", "flag", "link_up", "clear", "connect"}
  /\ retries \in 0..MaxRetries
  /\ call \in [Reconnectors -> CallPlaces]
  /\ fresh \in BOOLEAN /\ late \in BOOLEAN

-----------------------------------------------------------------------------
\* wifi_open and wifi_sta_reconnect test the bits one by one, and the web page
\* goes by isConnected.  However an event handler is cut into by them, they never
\* see bits that contradict each other, nor CONNECT without isConnected.  They may
\* see DISCONNECT with isConnected, but only while a handler is between its two
\* writes (wifi.c:72 and 73, wifi.c:100 and 101).  The events are handled in order, however
\* late: with none left, and the last disconnection written down, isConnected is
\* the truth about the station.
BitsTellTheTruth ==
  /\ "DISCONNECT" \in bits => bits = {"DISCONNECT"}
  /\ "CONNECT" \in bits => isConnected
  /\ "DISCONNECT" \in bits /\ isConnected => writing \in {"flag", "clear"}
  /\ events = <<>> /\ writing \notin {"disconnect", "flag"} => (isConnected <=> sta = "up")

\* "@return ESP_OK on success": with the ESP32, new credentials are reported as
\* good, and saved, only if an address was got with them.  The one exception
\* is a caller whose wait for the disconnection ended before the event task got
\* to it: it may find the CONNECT of the connection of before.
OkMeansConnected ==
  call["http"] = "ok" /\ fitted = "wifi" => fresh \/ late

\* "The number of retries when automatically connecting": each retry after a
\* disconnection is a new attempt.  The code does not guarantee this: DISCONNECT
\* stays set, so the three retries all fall into the first attempt after it.
RetriesConnect ==
  [][retries' > retries /\ "DISCONNECT" \in bits => sta # "connecting"]_<<retries, sta, bits>>
=============================================================================
