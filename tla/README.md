# Verification of the NE101 firmware

NE101 is a battery camera on an ESP32-S3.  It sleeps in deep sleep, wakes up
by timer, button or external trigger, takes a picture, publishes it by MQTT or
webhook or keeps it on flash, and goes back to sleep.  This directory holds
TLA+ models of the firmware under `src/main`, the TLC runs that check them and
the theorems about them that the TLAPS proof system checks.

Everything else in the repository (`components/`, the ESP-IDF managed
components, the PCB and case files) is vendored or not code, and is modelled
only from the way `src/main` uses it: FreeRTOS queues, semaphores and event
groups, esp-mqtt, LittleFS, and deep sleep.

## 1. Inventory

| Component | State it keeps | Operations | Talks to | What is hard | Correct when |
|---|---|---|---|---|---|
| boot and mode handlers, `main.c` | `main_mode`, the two queues | `mode_selector`, one handler per mode | opens every other part, then waits for sleep bits | a boot is a wake-up, a reset or a power-on | the right mode runs, every wait ends |
| capture, `camera.c` | backend, `captureCount`, out queue | `camera_open/close`, `camera_snapshot`, node malloc and free | out queue; sleep bit | called from the main task, the button timer and the console; nodes freed by three tasks | one owner per heap copy, exact count, exact sleep bit |
| storage, `storage.c` | files, mutex, event group (START, STOP, DONE) | tasks `record` and `upload`; `storage_upload_start/stop`; clear | both queues; sleep bit | bits that carry no identity, a mutex held across a blocking send, eviction, power loss | a file is unlinked only when its image was delivered, evicted or cleared |
| push, `push.c` | event group, transport | `push_task`, `push_start/stop/ready/exit/restart` | takes from the MQTT queue, gives to the storage queue | blocking hand-over, mode switch | an image that was not published is stored |
| MQTT, `mqtt.c` | client, `isConnected`, PUBLISHED bit | event handler, `mqtt_publish_node`, start, stop, restart | push and storage by callbacks | events of another task, late acknowledgements, disconnects | OK means the broker has the message |
| webhook, `webhook.c` | URL | `webhook_publish` | push | answer lost after delivery | OK means a 2xx answer |
| sleep, `sleep.c` | event group; in RTC memory: todo queue, last times, expected wake-up | set, clear, wait; wake-up calculation; `sleep_start` | everyone | a wait that must end; time arithmetic; state that survives the sleep | sleeps soon, with nothing in RAM only, and wakes for the nearest task |
| mode work, `system.c` | temporary mode, NTP time | schedule and upload work, NTP | storage, sleep | clock jumps | |
| network selection, `net_module.c` | fitted module, check flag (RTC) | check, init, open | Wi-Fi, HaLow, LTE | sleeps inside a boot | opening returns, with or without a network |
| Wi-Fi, `wifi.c` | station event group, `isConnected`, AP users | open, reconnect, scan; idle timer of the access point | `push_start/stop` | events handled late; event bits left over from an earlier attempt | bits and `isConnected` agree with the station; push runs while there is a link |
| LTE, `cat1.c` | modem handle, event group, status | open, wait, restart, AT commands | `push_start/stop` | a restart that meets a start task; a time limit that meets the connection | push runs while there is a link, opening returns |
| HaLow, DPP: `morse.c`, `morse_dpp_cli.c` | connect timer, `s_dpp_running` | connect, disconnect, provision | wifi, sleep bit | provisioning in a task of its own, next to the web page and sleep | no sleep in the middle; it ends |
| web server, `http.c` | idle seconds, settings | one handler per setting; sleep, reset, upgrade; idle timer | config, storage, sleep | settings that change under running tasks; a counter shared with the timer | the device sleeps when, and only when, nobody uses it |
| button, LED, I/O: `misc.c` | LED mode, effect and timer, `reset_flag` | click callbacks, blink, breath, flash | camera, sleep, provisioning | callbacks in the timer task, four tasks that set the LED | the indicator comes back; an armed reset happens |
| configuration, console: `config.c`, `debug.c` | NVS keys | get, set, commands | everyone | | |
| onboarding, `onboarding.c` | topic | validate and apply JSON | config, mqtt, push | `push_restart` from the MQTT client's own task | |
| session log, `session_log.c` | log files, one FILE, mutex | rotate, write, export, close | LittleFS, every task that logs | power loss between renames; export while others log and sleep | the last logs are kept, in order |
| OTA, PIR, UVC, HTTP and SMTP clients, ping, iperf | little | | | | |

`PROJECT.json` lists the same components with what is modelled of each, and
every hazard at its line.

## 2. The image pipeline

    camera_snapshot --> xQueueMqtt --> push_task --> broker or webhook
         |                  ^              |
         |                  |              v
         |               upload        xQueueStorage --> record --> LittleFS
         +--(no network)---------------------^                         |
                            ^------------------------------------------+

One chain of modules, from `Device` to `UploadHistory` each of which EXTENDS the
one before, but for the abstract `ImageLedger`:

| Module | Code | State |
|---|---|---|
| `Device` | queues of `main.c`, sleep event group of `sleep.c` | `mode`, `uploadMode`, `mqttQueue`, `storageQueue`, `sleepBits`, `mainWait` |
| `Camera` | `camera.c` | `camera`, `captures`, `captureCount`, `snap` (each caller in `camera_snapshot`) |
| `Storage` | `storage.c` | `flash`, `mutex`, `storageBits`, record task (`recPc`, `recNode`), upload task (`upPc`, `upFile`, `unread`) |
| `Push` | `push.c` | `pushPc`, `pushNode` |
| `Mqtt` | `mqtt.c`, `webhook.c`, `push_start`, `push_stop` | `client`, `isConnected`, `publishedBit`, `inflight`, `link` |
| `ImagePipeline` | `main.c` mode handlers, `sleep_start`, `system_*_todo`, events of `wifi.c`, `http.c`, `misc.c` | `mainPc`; `Next`, fairness, properties |
| `ImageLedger` | abstract specification | `where`: the place of each image |
| `UploadHistory` | `ImagePipeline` with two history variables: whose node was last reported published, and whether an upload was cut short | `answered`, `gaveUp` |
| `MCImagePipeline`, `MCUploadHistory` | TLC: the views and the refinement mapping | |
| `ImagePipelineProofs`, `OwnershipProofs`, `DeliveryProofs` | theorems | |

`accepted`, `discarded`, `delivered` and `lost` are history variables: no
guard reads them except that a new picture has a new timestamp.

How steps correspond to code.  A task is a program counter; an action is the
code from one blocking call (or one access to shared state) to the next.  A
FreeRTOS event group wakes a waiting task, and clears what it waited for,
inside `xEventGroupSetBits`; the models do the same (`ReleaseMain`,
`WakeUpload`), because a bit that is cleared a moment later does not take the
release back.  A queue send with `portMAX_DELAY` is an action whose guard is
room in the queue; one with timeout 0 is two actions, success and failure.

What is abstracted.  A picture is its timestamp; JPEG data, JSON payloads, file
names and the snapshot type are left out.  The DPP and debug sleep bits, which
only delay a sleep, are left out (section 7 has them).  A file is absent, empty (created, not yet
closed) or full; the free-space rule `len * 5` becomes `MaxFiles`.  Time is
left out: what has a time limit may give up, under the condition written at
the action.  MQTT_EVENT_ERROR only calls `push_exit`, which does what the
ready timeout does.

Faults are named in `Faults` (`Device!FaultNames`) and each run chooses its
own: camera and frame failures, flash writes that fail, no heap, no link, link
or broker that drops, late acknowledgements, upload and sleep timeouts, power
loss, and the console command `clear`.

`ImageLedger` is what an owner expects: an image is `ram`, `saved`, `sent`,
`evicted` or `lost`, and moves only along the permitted edges; see the module.
`MCImagePipeline!Place` maps the pipeline onto it.

### Runs

| Run | Instance | Shows |
|---|---|---|
| `snapshot_mqtt` | snapshot mode, MQTT QoS 1, 2 images, queues of 1, both upload modes, nine faults | types, sleep bit, sleep with nothing in RAM, no image forgotten, OK only after delivery |
| `config_buttons` | config mode, MQTT QoS 0, main task and button, full queues; frames, publications and flash writes that fail, half-hour timeout | one owner per copy, exact count |
| `web_uploads` | config mode, webhook, 2 images, upload mode changed by the web page, flapping link, upload timeouts | a DONE is another file's, and the tasks wait for each other without four pictures in RAM, only after an upload was cut short |
| `ledger` | 3 images, 2 files, three modes, NTP on, no link, power loss | the pipeline implements `ImageLedger`; a file is not written or evicted while it is read |
| `sleep_liveness` | three modes, disconnects, fairness | every wake-up ends in deep sleep without the half-hour timeout |

Bounds.  Queue sizes are 1 (the code has 3 and 2): a full queue is then one
send away, and everything the properties say about queues concerns empty, full
and order.  Two or three images suffice for an acknowledgement, bit or file of
one to be taken for that of another.  `TryCount` is 1 or 2 instead of 5: a
retry and the last try.  One more caller than the main task is enough for two
snapshots at a time.  The number of wake-ups is not bounded.  `config_buttons`
and `web_uploads` have a VIEW that hides `delivered`, `discarded` and `lost`, which
neither guards nor the properties of these runs read.

`web_uploads` is where uploads are cut short and begun again while their nodes are
out: a STOP comes from the link and from the web page, a START from both, and the
30 s pass at any moment.  Without an exception both its properties are false there.
`gaveUp` is that exception: in this boot the upload task has ended a wait, by STOP or
by the timeout, with its node in a queue or in the hands of push or record.  The
properties say that nothing else brings a stale DONE or the circular wait: not a
STOP that is forgotten, a START that comes twice, nor a change of mode.
The bound of `DeadlockNeedsCopies`, the sizes of both queues and two, is the least: with
four pictures and queues of one the tasks do wait for each other
in config mode without any upload cut short.

Fairness (`ImagePipeline!Fairness`): weak fairness of each task, because every
wait is a blocking FreeRTOS call and the scheduler is preemptive; of the 30 s
upload timeout; of boot; and of the link coming up, from which the fault
`nolink` exempts it.  Nothing is assumed of the user, nor of
SLEEP_WAIT_TIMEOUT_MS, which a healthy device should not need.
`EventuallySleeps` does need the upload timeout: `storage_upload_start` clears
a STOP that is pending, and then only the timeout ends the wait for a node that
was dropped.

The properties hold under the faults of their runs and not under all.  A flash
write that fails, a link that drops in the middle of a node, a late
acknowledgement or an early half-hour timeout do lose images in this code (section 8).
What is proved below needs no such condition unless it says so.

### Findings

| Run | Finding |
|---|---|
| `upload_race` | in upload mode the main task may see the upload-stop bit that was set before START and sleep with all files still there |

Section 8 lists what else the code does otherwise than its text says, with the
settings that show it.

### Proofs

`ImagePipelineProofs` proves `TypeCorrect`: Spec => []TypeOK, for every set of
images, queue size, set of callers, mode and fault.  `TypeOK` is cut into parts
along the lines the actions respect (`TypeParts`); lemma `Frame` says an action
keeps every part whose variables it leaves alone, so each action's step proves
only the parts it changes.  The three conjuncts that a task with something to
do has a node or file (for example `upPc \in UploadBusy => upFile \in Images`)
make it inductive.

The same module proves `ReadStaysIntact`: Spec => []ReadIntact.  `ReadIntact` is
not inductive; `MutexInv` adds who holds the mutex where, and
type correctness gives that `upFile` is a file.  No fault is excluded.

It also proves `OkIsDelivered`: Spec => []OkMeansDelivered under `NeverLate`,
which excludes the acknowledgement that comes after its 20 s and, with QoS 0,
a client that drops what it has accepted.  Without these the property is false
(section 8).  `OneInFlight` says that what is in flight is the image push works
on, and that nothing is while push does not wait.

`OwnershipProofs` proves `OneOwnerAlways` and `CountIsExactAlways` with no fault
excluded.  `OwnerInv` says that the tasks' program counters and what they hold
agree, that the snapshots of the callers differ from what is queued, and that
every copy counted in `captures` is placed once; lemmas about `Append` and
`Tail` move a copy from one place to the next.  The count follows
from the cardinality of `captures`, which changes by one with each malloc and
free.

The same module proves `StopBitIsExactAlways` with no fault excluded and
`NothingInRamAtSleep` without the half-hour timeout, which is there to
sleep regardless.  `SleepInv` relates the bit to the count, the callers of
`camera_snapshot` and the main task: whoever frees the last copy
sets the bit, and a boot opens with none.  It needs `OneOwnerAlways`: a node that
is freed twice would set the bit under a live copy.

`DeliveryProofs` proves what the pipeline as a whole promises.  An event bit
carries no identity: the DONE bit says that some node was published, and the
upload task takes it for its own.

`AnswersCorrect` says when it is right, with no mode or fault excluded: as long as no
upload was cut short in this boot, `Clean` holds.  At most one node of the
upload task is out; one is out only while the task sends or waits for it, and it
is about `upFile`; a DONE that is pending is about `upFile` too.
START, STOP, the link, the web page and the main task may come in any order: they
move no node, and if they end a wait whose node is still out, `gaveUp` holds from
there on.  `UnlinksTheAnswered` follows, and so does `DeadlockTakesCopies`: in a
circular wait without a cut upload, whatever is in both queues and in the hands of push and
record comes from the camera, `OwnerInv` gives that no copy is in two places, and
counting them gives the bound.

`NothingIsForgotten` and `LedgerIsImplemented` need the next upload to be safe, too.  `SessionInv`
says so where `OneUpload` holds: no upload begins while a node of an earlier one is
out.  `KeepInv` adds where each accepted image is, and gives
`NothingIsForgotten`.  `LedgerInv` says what the place of an image is at each
program counter, and gives `LedgerIsImplemented`: every step of the pipeline is
a step of `ImageLedger` or leaves the ledger alone.

These two have conditions, because the properties are false without them
(section 8).  `NeverLate` is as above.  `OneUpload` excludes config mode and a
link that drops and comes back; and for upload mode with scheduled uploads, where
the transport and the main task both start one, it also excludes disconnections,
the upload timeout and, with the webhook, a missing link.  Both exclude flash
writes that fail.  The ledger also excludes the console's `clear`, and needs a
finite set of images.  The instance of `snapshot_mqtt` meets the conditions of
the first, that of `ledger` those of both.

Assumptions used: those named in `Device`, `Camera`, `Storage` and `Mqtt`; TLC
evaluates them in every run.  Liveness is only model-checked.

## 3. The power cycle

Between two pictures the device is off.  What it does next depends on a few
words in RTC memory, on the settings, on what woke it and on a clock that NTP
or the web page may move.

| Module | Code | Contents |
|---|---|---|
| `WakeupCalc` | `sleep.c`: `find_most_recent_time_interval` to `calculate_compensation` | pure functions: timed lists, the three interval modes, uploads, the schedule run, the earliest of them, the compensation of a long sleep |
| `PowerCycle` | `main.c`: `mode_selector`, `app_main`; `sleep.c`: `sleep_start`, the todo queue, RTC memory; what a mode changes of these | `power` (asleep, boot, awake, done), `reset`, `now`, `mode`, `wakeupTodo`, `lastCapTime`, `lastScheduleTime`, `willWakeupTime`, `checkFlag`, `tmpMode`, settings, `wakeSources`, `timer` |
| `MCPowerCycle` | TLC: the settings, a view, and the search loop of `find_most_recent_time_interval` as written | |
| `PowerCycleProofs` | | theorems |

How steps correspond to code.  A boot action is one branch of `mode_selector`
together with the start of the mode; a work action is all a mode does to state
that outlives it, and the image pipeline is what it does meanwhile; `Sleep` is
the return of `sleep_wait_event_bits` and all of `sleep_start`.  Every reset but
a deep sleep initialises the RTC variables; `g_tmpMode` is in the part that is
never initialised.  Alarm input and PIR both arrive as EXT1, which the code
reports as the alarm input.  `BootSleepAgain` joins "the time is not reached"
and "nothing to do", of which the second does not occur.  A sleep of 100 ms
takes no time.

What is abstracted.  The clock counts seconds from a Sunday, without time zone
or daylight saving.  Drift statistics (`record_time_sync`,
`time_compensation`) are never called, so all that is left of the compensation
is the lengthening of sleeps of more than five hours.  The console command
`sleep` is left out.  The loop of `find_most_recent_time_interval` is replaced
by a set comprehension, which `MCPowerCycle!LoopAssumption` compares with the
loop for every list of up to three nodes over two days.

### Runs

| Run | Instance | Shows |
|---|---|---|
| `power_cycle` | all seven kinds of capture setting, timed uploads; timer, trigger, restart, crash, new settings, failed snapshots, clock put back | types; the device always wakes, within two days; it never sleeps past a moment the settings ask for |
| `wake_liveness` | two capture and two upload settings; button, trigger, click, clock put forward; fairness | one timer capture per slot, spacing of schedule runs; a click leads to config mode, actions due together are all run |

Bounds.  A day has 12 seconds, an hour 2 and a minute 1, so that times meet,
follow at once or wrap in every combination; the interval lengths keep the
order of the real ones, and some divide the day while others do not.
`Horizon` (14 to 16) ends a behaviour after the first day, so each wake-up
calculation is done before, at and after every daily time and across midnight;
weekly nodes are met on the first two days and looked for up to a week ahead.
`AwakeTimes` is 1: a boot takes longer than a second, as
mounting and the camera warm-up do.  `ClockSteps` moves the clock by about
half a day.  The uint32_t arithmetic has `Word` values, which
`ClockAssumption` only asks to be larger than two weeks.  `Horizon` stops
`sleep_start`, after which nothing but a power-on happens.

Fairness (`PowerCycle!Fairness`): the timer that is armed fires, a boot
proceeds, and a mode ends, because `sleep_wait_event_bits` has a timeout.  The
user, the trigger and the network are under no obligation.

### Proofs

`PowerCycleProofs` proves `PowerCycleTypeCorrect` and `AlwaysWakesAgain`:
Spec => []AlwaysWakes, for all settings, lengths of minute, hour and day, word
widths and clock changes.  `WakeInv`, the conjunction of the two, is inductive.
What it takes is a bound for each function of `WakeupCalc`: a timed list gives at
least 0 and a daily node at most a day, the interval modes never give a moment
that is past (`NextInSeries`, `GridRange`), so that the schedule run bounds the
earliest of the three by two days (`EarliestRange`), and the compensation keeps
the order of times (`SleepRange`).  `LeastNatural`, that a set of naturals has a
minimum, comes from the well-foundedness of Nat.

It also proves the other three safety properties of the runs.

`NeverPastASlot`: Spec => []NeverSleepsPastASlot, for any change of the clock.
`WakeupCalc` calculates how long to wait; the property says what moments the
settings mean.  The bridge is a description of these moments as a series:
those of a node are one week or one day apart (`NodeSeries`), those of an
interval of days start at the anchor before the last capture (`DaysSlots`),
those of minutes and hours are a grid in each day (`GridSlots`).  For each, the
wait ends at most at the first of them (`DueInIsNext`, `TimedIsNext`,
`NextInterval`), and the earliest of the three waits is at most each
(`EarliestIsLeast`).  The condition that a list of upload times has at most 10
entries is the size of the array in `config.h`.

`SchedulesSpaced` and `OneCaptureEach`: ScheduleSpacing and OneCapturePerSlot.
Both relate an action to a wake-up time calculated some boots before, so
the invariant `CycleInv` is about the queue: which start finds it empty
(`TodoInv`), that only the first start after a power-on or restart can find a
temporary mode (`ModeInv`), and that a snapshot or a schedule run in the queue is
not begun before `willWakeupTime` (`TimeInv`).  `SpacedInv` and `CaptureInv` say
for what moment that time was chosen; the second uses that each wait also ends
*at* such a moment.  `CycleInv` also gives what the code relies on and nowhere
says: `sleep_start` never finds a snapshot pending, and a boot by the timer
never finds the queue empty.  The conditions, a clock that is put only forward,
a timer that is not early, and for the second a camera that does not fail and a
list of times with one that is a time, are needed: without each the property
is false (below, and section 8).

The liveness of the queue is only model-checked.

### Observations

In `find_most_recent_time_interval` the interval 0 means both "no node yet" and "due
this second" (section 8).
`NeverSleepsPastASlot` therefore leaves out a sleep that begins in the very
second of a timed setting (`DueThisSecond`).  In that second a capture or
upload may be skipped, and a schedule run is put off by a day.

The runs also showed how the code behaves where no text says otherwise: a
timed slot that passes while the device is awake is missed; in interval mode a
snapshot that fails is tried again after a sleep of one second, for ever; a
trigger or a visit to config mode drops the queued actions; a clock that is
put back leaves `lastCapTime` in the future, and interval captures wait until
it is passed.  `OneCapturePerSlot` and `ScheduleSpacing` are therefore stated
for a clock that is only put forward, and the first for snapshots that do not
fail.  A list of times of which none is a time (text that `sscanf` does not
take) makes `find_most_recent_time_interval` return its least value, 1, so the
device takes a picture at every wake-up, one second after the other: see
section 8.

## 4. The session log

| Module | Code | Contents |
|---|---|---|
| `SessionLog` | `session_log.c`, its callers in `main.c` and `sleep.c` | `slot` (the files), the boot and its rotation (`bootPc`, `renames`), the open FILE (`fp`), the mutex, what each task does with the log (`pc`) |
| `SessionLogProofs` | | theorems |

How steps correspond to code.  A boot is a program counter that makes one file
operation at a time, so that a power loss falls between any two of them.  The
tasks log, export or close under the recursive mutex; `session_log_vprintf`
looks at `s_log_fp` before it takes the mutex, and so does the model
(`LogCheck`, `LogWrite`, `LogPanics`).  A file is the number of the boot whose
log it holds.  `logged` and `renameFailed` are history variables.

| Run | Instance | Shows |
|---|---|---|
| `session_log` | 4 slots, 7 boots, 2 tasks, all faults | the logs of the last 4 boots that opened one are there while no rename failed; file names are in the order of time even then; an export is alone with the files |

Bounds.  With 4 slots and 7 boots a log lives its whole life, from slot 0 out of
slot 3, with rotations cut short at every point and cut short again.  Two tasks
are an export against a logger, a closer or a second export; they are
symmetric.

Observations.  `session_log.h` says of `session_log_close_for_sleep` "Close
writer before deep sleep (flush+fsync+fclose). No reopen."  That is so unless
an export is waiting for the mutex, or holds it for more than five seconds: the
export opens the log again (`SleepsWithLogClosed` states it; add it to
`SessionLog.cfg` for the counterexample).  A task that logs while an export or
a sleep closes the log may pass NULL to `vfprintf` (`session_log.c:85`).

## 5. The push transport

| Module | Code | Contents |
|---|---|---|
| `Transport` | `push.c`: `push_start`, `push_stop`, `push_restart`; `mqtt.c`: client, mutex, restart timer, events; their callers in `wifi.c`, `cat1.c`, `http.c`, `onboarding.c`, `sleep.c` | `pushMode`, `client`, `conn`, `isConnected`, `mutex`, `timerArmed`, and where each caller is (`pc`, `op`, `again`) |
| `TransportProofs` | | theorems |

Five tasks call these functions: web server, event task, timer task, main task,
and the MQTT client's own task, for an onboarding message.  The calls of
`cat1_wait_open`, `cat1_restart` and `dpp_pb_task` (`NetworkStops`) stand at the
main task's place, which does not sleep before they are done.  The event task
may stop a transport that is not started, since a failed attempt to connect is
told of like a loss; that it starts one only after it stopped it is not assumed
but shown in section 6 (`StartsAfterStop`).  A step goes from one
access of shared state to the next.  `esp_mqtt_client_stop` waits until the
client's task is out of its event handler (`StopClient`), and the caller keeps
the mutex meanwhile.  `ImagePipeline` fixes the push mode and starts and stops
the client in one step; this module shows what those steps are made of.

| Run | Instance | Shows |
|---|---|---|
| `transport` | all faults, fairness | never a second or a forgotten client; `isConnected` is true of the client; every call returns and a device that decided to sleep does sleep, except in `RestartsItself` |

One task at a time gives up on the network; else there is nothing to bound:
callers and places are those of the code.  Fairness:
a task that can run runs, and a mutex that is given is handed to a waiting task
(strong fairness of `Lock`, as FreeRTOS does in priority order).  User, broker
and network owe nothing.  `CHECK_DEADLOCK FALSE` because of `RestartsItself`:
a message that changes the push mode from webhook to MQTT while a client is
still there, or from MQTT with the web page changing it too, lets the client's
task stop its own client.  `esp_mqtt_client_stop` refuses that, and whoever
holds the mutex may then wait for the client's task while it waits for the
mutex: for ever.

Other observations: a change of the push mode to the webhook leaves the MQTT
client running (section 8); the client has no auto-reconnect and `LinkUp` leaves an
existing client alone, so a client that was started while the network was down
stays disconnected until something restarts it, and the web page may start one
so: `http.c:815` looks at the link before `push_restart`, which the event task may
come between, and with LTE it does not look; a restart timer that fires just
before the sleep begins starts a client that `push_stop` then stops, which is
harmless; `mqtt_publish_node` uses the client without the mutex (`mqtt.c:215`).

## 6. The network

| Module | Code | Contents |
|---|---|---|
| `NetEvents` | `net_module.c`, the default event loop | `fitted`, `mainPc`, `events`, `handling`, `pushOn` (what the network's own calls left; a `push_restart` after new settings is in `Transport`) |
| `Wifi` | `wifi.c` station, `morse.c` | `sta`, `bits`, `isConnected`, `writing`, `retries`, `call` (each caller of `wifi_sta_reconnect`) |
| `Dpp` | `misc.c` double click, `morse_dpp_cli.c` | `dppPc`, `dppRunning`, `dppDone` |
| `Cat1` | `cat1.c` | `dce`, `ppp`, `lteBits`, `starter` (each start task), `lteCall` |
| `Network` | composition: one boot | `Next`, fairness, properties |
| `NetworkProofs` | | theorems |

`Wifi` EXTENDS `NetEvents`, `Dpp` EXTENDS `Wifi`, `Cat1` EXTENDS `NetEvents`, and
`Network` composes them: only one module is fitted, and the other's variables
stay as they are.  A driver posts an event to a queue of bounded length, and
one task handles them in order.  Each write of a handler, of the event bits and of
`isConnected`, is a step of its own (`HandleStaEvent`, `WriteBits`, `WriteFlag`;
`writing` says which comes next), since `wifi_open` and `wifi_sta_reconnect` run in
other tasks.  After them a handler may wait ten seconds for an NTP server before
`push_start`, so that its last call is a step, too (`HandlePush`).
The test and the set of `s_dpp_running` are two steps (`DppPasses`,
`DppDisconnects`), between which a second task may pass the test.

What is assumed of what is not in `src/main`: the ESP32's driver does not try
again by itself; HaLow tries for 20 s or, after it was up, until it is told to
stop; a modem command on a null handle fails; destroying a connected modem
posts the lost address.  The web page is reached after the station has started.
`late`, `fresh`, `overlap` and `lateStop` are history variables; the waits of
`cat1_wait_open` may end at any moment.

| Run | Instance | Shows |
|---|---|---|
| `network` | ESP32, HaLow and LTE; failing, dropping, slow events, no memory; web page, two provisioning tasks; fairness | DISCONNECT never stands with another event bit, CONNECT only with `isConnected`, at any step of a handler; credentials reported good were; the transport follows the network, and the event task does not start it twice; no sleep in the middle of provisioning, which ends; opening returns |

Bounds.  An event queue of 1 is full with one event waiting behind the one that is being
handled, which is what a driver that waits needs; PPP posts two events, of which
the second may wait for room (`PppUp`).  A call that may post an event waits for room
also when it posts none.  The safety properties are proved for
every size of the queue.  Three retries as in the code.  Two provisioning tasks
are one that overlaps another.  If both have passed the test of `s_dpp_running`
they share one DPP, and save its credentials one after the other.  The
half-hour limit of the wait for sleep is left out: it would end every boot.

Fairness: the main task, whose wait for LTE has a timeout, and the event task
run.  Provisioning is strongly fair: it may have to wait for room in the event
queue, for which FreeRTOS serves the waiting tasks in turn.  The radio, the
network and the user owe nothing.

Five properties name an exception, and each is a thing the code does:

- `BitsTellTheTruth` (`writing`): DISCONNECT is seen with `isConnected` between the
  two writes of `wifi.c:72` and `73`, and of `wifi.c:100` and `101`, and at no other
  time.
- `OkMeansConnected` (`late`): if the event task is more than two seconds
  behind, `wifi_sta_reconnect` gives up waiting for the disconnection, finds
  the CONNECT bit of the old connection, and the web page saves credentials
  that were never tried.
- `PushFollowsNetwork` (`lateStop`): the connection comes up just after
  `cat1_wait_open` gave up; its `push_stop` undoes the event task's
  `push_start`, and nothing starts the transport again in this boot.
- `SleepsWithoutDpp` (`overlap`): a double click before the main task sets the
  bit (`main.c:420`), or a second double click whose task is refused and sets
  the bit while the first still provisions, lets the device sleep in the
  middle.
- `TypeOK` allows `mainPc = "panic"`: `cat1_restart` destroys the modem under a
  start task that is using it (`cat1.c:1059`).

More of the kind: `wifi.c:26` calls its three retries "The number of retries
when automatically connecting", but DISCONNECT stays set, so they all fall into
the first new attempt (`RetriesConnect` states it); after a failed provisioning
nobody connects with the old credentials; LTE never dials again after a drop;
`is_restarting` is read and reset (`cat1.c:1068`) but never set; `is_opened` is
never reset; HaLow's reconnect may take a LINK_UP or DISCONNECT of the
connection before for its own.

## 7. Config mode

| Module | Code | Contents |
|---|---|---|
| `Indicator` | `misc.c`: the LED, its timer, the button's callbacks, `dpp_pb_task`; the flash in `camera.c` | `led` (`g_misc.led`), `pwm`, `timerTask`, `dppPc`, `snap`, `btn`, `reset_flag` |
| `WebSession` | `http.c`: idle timer, requests to sleep, reset and upgrade, live view; `wifi.c`: idle timer of the access point; `config.c`: `debug` | `webTimeoutSeconds`, `tick`, `hasClient`, `apTimeoutSeconds`, `apUser`, `apTimer`, `bits`, `webPc` |
| `ConfigMode` | composition: one boot of `handle_config_mode` | `mainPc`, `uses`; `Next`, fairness, properties |
| `ConfigModeProofs` | | theorems |

`ConfigMode` EXTENDS the other two.  The button's callbacks, the LED's timer and
both idle timers share one task, so that they exclude each other
(`timerTask`); `misc_task`, the web server, the main task and the provisioning
tasks do not.  Each critical section of the LED's mutex is a step.
`webTimeoutSeconds++` is a read and a write, between which a request may
reset it.  The snapshot of a click and that of a boot by the button have a step
where the flash goes on and one where it goes off, so that two of them overlap;
the first to end puts out the flash of the other.

Left out: duties, and how long a blink or a breath takes; the half-hour limit of
the wait, which would end every boot; the bits of the camera and the upload,
which section 2 covers; the console commands that drive the LED.  A live
view counts as a use when it starts and not later, as in the code.

| Run | Instance | Shows |
|---|---|---|
| `config_mode` | 7 combinations of uses, 2 blinks, one provisioning task, idle limits of 2 and 1 s; fairness | the indicator is lit again after everything that came over it; no sleep before the idle limit; once left alone, config mode ends in sleep or in the armed reset |

Bounds.  Two blinks are one that is not the last and one that is; the web's
limit is longer than the access point's, as 300 s and 60 s are.  `UseSets` says
which uses share a boot: those that touch the same state do, and
the access point exists when it is used.  More than one use of a kind follows
from its being repeated without limit.

Fairness: tasks run (weak), and a periodic timer fires again and again (strong:
the task of the timers may be in another callback each time it is due).
Requests and provisioning end, an upgrade need not.  Users owe nothing;
`EndsWhenLeft` is about those who stop.

Two history variables name the exceptions, all of them things the code does:

- `uncounted` (`SleepsWhenUnused`): a request that falls between the read and
  the write of the tick is forgotten (`http.c:1963`); a request or click after
  the bit has been set does not clear it, and the device sleeps as soon as
  nothing else keeps it awake; an upgrade does not count at all.
- `unsteady` (`IndicatorStays`): a provisioning task that starts during a blink,
  a flash or another task's breath saves that state and restores it, so
  that the LED may be left dark or in flash mode.

## 8. Where the code does otherwise

One run expects a violation, `upload_race`, and `PROJECT.json` quotes the lines.
For ten more the property is in the module and the counterexample is found
with the settings given here.

| Property | Settings | What happens |
|---|---|---|
| `OkMeansDelivered` (`Mqtt`) | as `UploadRace.cfg` with `Images = {1, 2}`, `Stored = {1}`, `Modes = {"snapshot"}`, `UploadModes = {0}`, `PushMode = "mqtt"`, `Qos = 1`, `Faults = {"late_ack"}` | `mqtt.c:231` waits for the PUBLISHED bit without clearing it first: an acknowledgement that comes after the 20 s limit makes the next publication succeed at once |
| `FailedPushIsHandedOver` (`ImagePipeline`), with `FairSpec` | the same with `PushMode = "webhook"`, `Faults = {"link_drop"}` | upload waits for the MQTT queue with the storage mutex taken (`storage.c:271`), push for the storage queue (`push.c:81`), record for the mutex (`storage.c:294`), until the half-hour limit; `push.c:80` says "PUSH FAIL, save to flash".  `DeadlockNeedsCopies` says when it can happen |
| `FailedPushIsSaved` (`ImagePipeline`) | as `UploadRace.cfg` with `Images = {1, 2}`, `Stored = {1, 2}`, `PushMode = "mqtt"`, `Faults = {"disconnect"}` | `storage_upload_start` clears only STOP: a DONE that comes after its upload was stopped by a disconnection ends the wait of the next upload (`storage.c:336`), which unlinks its file; if the push of that one then fails, it is gone, although `push.c:80` says "PUSH FAIL, save to flash".  `UnlinksWhatWasAnswered` says that it takes a cut upload |
| `StopBitMeansNoCaptures` (`ImagePipeline`) | as `UploadRace.cfg` with `Stored = {}`, `Modes = {"config"}`, `UploadModes = {0}`, `MaxFiles = 1`, `Callers = {"main", "button"}` | `camera_open` sets the snapshot bit after the warm-up (`camera.c:447`) with a picture of the button still in RAM; `camera.c:140` says "Signal no active captures" |
| `NothingBeforeItsTime` (`PowerCycle`) | as `WakeLiveness.cfg` with `Events = {"early_timer"}`, no clock step | a timer that fires early makes the device sleep one second, overwrite the wake-up time (`sleep.c:662`) and run the action, although `main.c:273` says "the time is not reached, sleep again" |
| `DueNowIsNext` (`PowerCycle`) | `CaptureSettings <- CloseTimes`, `AwakeTimes = {2}`, no events | in `sleep.c:276` the interval 0 is both "no node yet" and "due this second": a timed capture due as the device goes to sleep is skipped |
| `OneCapturePerSlot` (`PowerCycle`) | as `WakeLiveness.cfg` with `CaptureSettings <- NoTimes` | a timed list that is not empty but has no time in it: `find_most_recent_time_interval` returns 1 (`sleep.c:282`), and the device captures at every wake-up, a second after it fell asleep |
| `OnlyTheWebhook` (`Transport`) | `MCTransport` with `Faults = {"onboard_mode"}`, `SPECIFICATION Spec`, `CHECK_DEADLOCK FALSE` | `docs/onboarding-json.md:111` says "`push_mode` \| 0 = MQTT, 1 = Webhook"; `push_restart` runs after the new mode is stored, and `push_stop` (`push.c:147`) stops the transport of the stored mode: after a change to the webhook the MQTT client stays connected |
| `UpgradeIsNotCut` (`ConfigMode`) | as `ConfigMode.cfg` with `UseSets = {{"upgrade"}}`, `SPECIFICATION Spec` and no other property | the idle timer runs on during an upgrade (`http.c:1104`) and the device may fall asleep while it writes the firmware |
| `BreathIsSeen` (`ConfigMode`) | the same with `UseSets = {{"click", "provision"}}` | a tick that waited for the mutex while `misc_led_breath_start` stopped its timer puts out the light (`misc.c:715`), and nothing lights it again while the task provisions |

## 9. Checked and proved

| | Model-checked | Proved for all constants |
|---|---|---|
| Type correctness of the pipeline | `snapshot_mqtt` | `ImagePipelineProofs!TypeCorrect` |
| A file is never read while it is written or evicted | `ledger` | `ImagePipelineProofs!ReadStaysIntact` |
| One owner for each copy, exact count | `config_buttons` | `OwnershipProofs!OneOwnerAlways`, `CountIsExactAlways` |
| The stop bit, and nothing in RAM at sleep | `snapshot_mqtt` | `OwnershipProofs!StopBitIsExactAlways`, `NothingInRamAtSleep` |
| OK only after delivery | `snapshot_mqtt` | `ImagePipelineProofs!OkIsDelivered` |
| No image forgotten | `snapshot_mqtt` | `DeliveryProofs!NothingIsForgotten`, under `OneUpload` and `NeverLate`, without failing flash |
| Whose DONE it is; what a circular wait takes | `web_uploads` | `DeliveryProofs!UnlinksTheAnswered`, `DeadlockTakesCopies`, without condition |
| Config mode: types, indicator, sleep only when unused | `config_mode` | `ConfigModeProofs!ConfigModeTypeCorrect`, `IndicatorIsSteady`, `SleepsOnlyWhenUnused` |
| The pipeline implements the ledger | `ledger` | `DeliveryProofs!LedgerIsImplemented`, under `OneUpload` and `NeverLate`, without failing flash and `clear` |
| Liveness | `sleep_liveness`, `wake_liveness`, `transport`, `network`, `config_mode` | liveness is out of the prover's reach |
| Power cycle: types, always wakes, never past a slot | `power_cycle` | `PowerCycleProofs!PowerCycleTypeCorrect`, `AlwaysWakesAgain`, `NeverPastASlot` |
| Power cycle: one capture per slot, schedule spacing | `wake_liveness` | `PowerCycleProofs!OneCaptureEach`, `SchedulesSpaced`, for a clock that is only put forward and timers that are not early, the first without failing snapshots |
| Power cycle: the click and the queue | `wake_liveness` | liveness is out of the prover's reach |
| Session log: types, last boots kept, order, export alone | `session_log` | `SessionLogProofs!LogTypeCorrect`, `LastBootsKept`, `LogsInOrder`, `ExportAlone` |
| At most one client, `isConnected` | `transport` | `TransportProofs!AtMostOneClient`, `ConnectedMeansConnected` |
| The network: types, bits, transport, sleep, credentials | `network` | `NetworkProofs!NetworkTypeCorrect`, `BitsAreTrue`, `TransportFollows`, `EventTaskAlternates`, `AwakeForDpp`, `OkIsTrue` |
| Provisioning ends, opening returns | `network` | liveness is out of the prover's reach |

`SessionLogProofs`.  `KeepsLastBoots` is not inductive: during a rotation a log
may be in a slot that the next step overwrites.  The invariant says how far each
log of an earlier boot may have moved, given the renames still to do, that the
slot after the hole is free or the last one, and that the slots are in order;
`LogInvariant` proves it for any number of slots, tasks and boots.

`TransportProofs`.  `TransportInvariant` says who holds the mutex in which
place, that only its holder sees the client neither null nor whole, and that
the connection is that of the client.

`NetworkProofs`.  An event bit follows the network with a delay, the events
still in the queue.  `Agreement` says what the last one of them that matters is:
it tells whether the network is up, and once none is left the bits and
`pushOn` do (`Settled`).  `BitsInv` adds to `BitsTellTheTruth` what a handler has still to write
(`writing`): after the first write of a disconnection neither CONNECT nor LINK_UP is
set, and before CONNECT is set DISCONNECT is cleared.  `AlternateInv` says that between two events of a
connection that came up there is one of its loss, and that one with no loss before
it finds the transport stopped, by `handling` or by `pushOn`.  `OpenInv` says that nothing has come before the main
task opens the network, `DppInv` that the sleep bit is set under a task that
provisions only after two of them overlapped, and `ReconnectInv` that from its
disconnection on a reconnection leaves no address of the connection before in
the bits or in the queue, unless the event task is late.  Each is proved for every length of
the event queue, number of retries and of provisioning tasks.

`ConfigModeProofs`.  `LampInv` says that, once nothing has been saved in the
middle of a blink, an indicator without an effect is held on, the flash mode
means that the flash is lit, and what a provisioning task will restore is the
steady light.  `IdleInv` says that the idle counters are never ahead of the
time since the last use, in the middle of a tick neither, and that once the bit
is set that time reaches the limit.  Both hold for any number of blinks up to
254, of provisioning tasks, both limits and any `UseSets`.

Liveness and ENABLED are out of reach of the prover, and so is what recursive
definitions compute.  The theorems use the assumptions named in the modules,
which TLC evaluates in every run.

## 10. Plan

1. The push transport of `Transport` below `Network`, in one composition: what
   the two promise each other now are `StartsAfterStop` and the actions `LinkUp`,
   `LinkDown` and `NetworkStops`.
2. The scans of `wifi.c`.

## 11. Not modelled, and why

- `components/` is vendored: the HaLow SDK with its copies of hostap, lwIP and
  mbedTLS is nearly all of the repository's lines.  The models cover
  `src/main`, which is the firmware's own code.
- `uvc.c`, `camera_uvc_controls.c`, `pir.c`, and the inside of `ota.c`: drivers
  and sequences of ESP-IDF calls whose state is in the driver.
- `http_client.c`, `smtp_client.c` (which is not compiled), `ping.c`,
  `wifi_iperf.c`, `debug.c`, `utils.c`: no state the other parts depend on.
- `config.c` as a store: each key is read and written on its own, in NVS; the
  models take the settings as values.
- `onboarding.c`: JSON validation; what it does to the transport is modelled.
- `cat1.c`: the AT commands and the status they fill in, which only the web
  page reads; the console commands.
- `wifi.c`: scans, country codes, the settings of the access point.
- `misc.c`: LED duties and the ADC.  The console's `dpp_pb`, `cat1restart` and
  LED commands.
- Data: JPEG, JSON, topics, TLS files, log text.
