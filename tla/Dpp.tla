---------------------------------- MODULE Dpp ---------------------------------
(***************************************************************************)
(* Provisioning a HaLow device by push button: a double click in config    *)
(* mode starts dpp_pb_task of misc.c, which keeps the device awake by      *)
(* SLEEP_DPP_DONE_BIT and runs morse_dpp_pb_run of morse_dpp_cli.c.  Every *)
(* double click starts a task of its own.  The console's dpp_pb command is *)
(* left out, and so is the LED.                                            *)
(***************************************************************************)
EXTENDS Wifi

CONSTANTS DppTasks   \* bound: provisioning tasks at a time

VARIABLES
  dppPc,       \* where each dpp_pb_task is
  dppRunning,  \* s_dpp_running
  dppDone,     \* SLEEP_DPP_DONE_BIT
  overlap      \* history: DPP_DONE was last set while a task was provisioning

dppVars == <<dppPc, dppRunning, dppDone, overlap>>

DppPlaces == {"idle", "clear", "push_stop", "run", "begin", "wait", "reconnect", "end"}
DppGoes(d, from, to) == dppPc[d] = from /\ dppPc' = [dppPc EXCEPT ![d] = to]

\* Between the clearing of DPP_DONE and its end.
Provisioning(d) == dppPc[d] \notin {"idle", "clear", "end"}

\* button_double_click_cb
DoubleClick(d) ==
  /\ config /\ fitted = "halow" /\ mainPc \in {"opened", "waiting"}
  /\ DppGoes(d, "idle", "clear")
  /\ UNCHANGED <<netVars, wifiVars, dppRunning, dppDone, overlap>>

(* Mutant of DppClear: the bit is left as it is. *)
DppClearNot(d) ==
  /\ DppGoes(d, "clear", "push_stop")
  /\ UNCHANGED <<netVars, wifiVars, dppRunning, dppDone, overlap>>

DppClear(d) ==
  /\ DppGoes(d, "clear", "push_stop")
  /\ dppDone' = FALSE
  /\ UNCHANGED <<netVars, wifiVars, dppRunning, overlap>>

DppPushStop(d) ==
  /\ DppGoes(d, "push_stop", "run")
  /\ StopLate
  /\ UNCHANGED <<fitted, config, mainPc, events, handling, wifiVars,
                 dppRunning, dppDone, overlap>>

\* morse_dpp_pb_run refuses a second run.  The transport stays stopped.
DppRefused(d) ==
  /\ dppRunning
  /\ DppGoes(d, "run", "end")
  /\ UNCHANGED <<netVars, wifiVars, dppRunning, dppDone, overlap>>

\* The test of s_dpp_running: before one task sets it, another may pass, too.
DppPasses(d) ==
  /\ ~dppRunning
  /\ DppGoes(d, "run", "begin")
  /\ UNCHANGED <<netVars, wifiVars, dppRunning, dppDone, overlap>>

DppDisconnects(d) ==
  /\ dppRunning' = TRUE
  /\ DppGoes(d, "begin", "wait") /\ CanPost
  /\ StaDisconnect
  /\ UNCHANGED <<fitted, config, mainPc, handling, pushOn, lateStop,
                 bits, isConnected, writing, retries, call, fresh, late, dppDone, overlap>>

\* No memory for the semaphore.
DppNoMemory(d) ==
  /\ "memory" \in NetFaults
  /\ DppGoes(d, "begin", "end")
  /\ dppRunning' = FALSE
  /\ UNCHANGED <<netVars, wifiVars, dppDone, overlap>>

(* Mutant of DppGivesUp: a run without credentials ends the task. *)
DppGivesUpEnds(d) ==
  /\ "fail" \in NetFaults
  /\ DppGoes(d, "wait", "idle")
  /\ dppRunning' = FALSE
  /\ UNCHANGED <<netVars, wifiVars, dppDone, overlap>>

\* DPP does not start, times out or brings no credentials.  Nobody connects
\* again with the old ones.
DppGivesUp(d) ==
  /\ "fail" \in NetFaults
  /\ DppGoes(d, "wait", "end")
  /\ dppRunning' = FALSE
  /\ UNCHANGED <<netVars, wifiVars, dppDone, overlap>>

\* The credentials are saved and tried.  Bound: two tasks that both passed the
\* test, and share one DPP, do so one after the other.
DppConfigured(d) ==
  /\ DppGoes(d, "wait", "reconnect")
  /\ ReconnectStart("dpp")
  /\ UNCHANGED <<dppRunning, dppDone, overlap>>

DppReconnected(d) ==
  /\ DppGoes(d, "reconnect", "end")
  /\ call["dpp"] \in {"ok", "failed"}
  /\ call' = [call EXCEPT !["dpp"] = "idle"]
  /\ dppRunning' = FALSE
  /\ UNCHANGED <<netVars, sta, bits, isConnected, writing, retries, fresh, late, dppDone, overlap>>

SetDppDone ==
  /\ dppDone' = TRUE
  /\ overlap' = (\E d \in DppTasks : Provisioning(d))

DppEnd(d) ==
  /\ DppGoes(d, "end", "idle")
  /\ SetDppDone
  /\ UNCHANGED <<netVars, wifiVars, dppRunning>>

DppStep(d) ==
  \/ DppClear(d) \/ DppPushStop(d) \/ DppRefused(d) \/ DppPasses(d)
  \/ DppDisconnects(d) \/ DppNoMemory(d)
  \/ DppGivesUp(d) \/ DppConfigured(d) \/ DppReconnected(d) \/ DppEnd(d)

DppInit ==
  /\ dppPc = [d \in DppTasks |-> "idle"]
  /\ dppRunning = FALSE /\ dppDone = FALSE /\ overlap = FALSE

DppTypeOK ==
  /\ dppPc \in [DppTasks -> DppPlaces]
  /\ dppRunning \in BOOLEAN /\ dppDone \in BOOLEAN /\ overlap \in BOOLEAN
=============================================================================
