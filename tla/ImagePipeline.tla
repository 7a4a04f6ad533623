--------------------------- MODULE ImagePipeline ---------------------------
(***************************************************************************)
(* The life of an image from the shutter to the server: the main task of   *)
(* main.c in each boot mode, the camera, push, record and upload tasks,    *)
(* the MQTT client or webhook, the network link, and deep sleep, over any  *)
(* number of wake-ups.                                                     *)
(***************************************************************************)
EXTENDS Mqtt

VARIABLES
  mainPc,  \* where app_main is
  lost     \* history: accepted images that were only in RAM when power went away

mainVars == <<mainPc, link, lost>>

vars == <<deviceVars, cameraVars, storageVars, pushVars, mqttVars, mainVars>>

(* The first thing each handle_*_mode function does. *)
FirstStep(m) == IF m = "snapshot" THEN "camera" ELSE "net"

-----------------------------------------------------------------------------
(* netModule_open returns when the link is up or the retries are used up; *)
(* with an access point (config mode) it does not wait.                   *)
MainNetOpen ==
  /\ mainPc = "net"
  /\ link = "off"
  /\ link' = "down"
  /\ UNCHANGED <<mainPc, lost, deviceVars, cameraVars, storageVars, pushVars, mqttVars>>

MainNetReady ==
  /\ mainPc = "net"
  /\ \/ link = "up"
     \/ link = "down" /\ (mode = "config" \/ "nolink" \in Faults)
  /\ mainPc' = CASE mode = "snapshot" -> "sleep"
                 [] mode = "config"   -> "camera"
                 [] OTHER             -> "work"
  /\ UNCHANGED <<link, lost, deviceVars, cameraVars, storageVars, pushVars, mqttVars>>

(* camera_open *)
MainCameraInit ==
  /\ mainPc = "camera"
  /\ \/ CameraInitOK /\ UNCHANGED mainPc
     \/ CameraInitFails /\ mainPc' = "snap"
  /\ UNCHANGED <<link, lost, storageVars, pushVars, mqttVars>>

MainCameraOpened ==
  /\ mainPc = "camera"
  /\ CameraOpened
  /\ mainPc' = "snap"
  /\ UNCHANGED <<link, lost, storageVars, pushVars, mqttVars>>

(* camera_snapshot, which returns at once when the trigger is disabled; *)
(* config mode calls it only after a button wake-up.                    *)
MainSnapshot ==
  /\ mainPc = "snap"
  /\ SnapshotCall("main")
  /\ mainPc' = "snapping"
  /\ UNCHANGED <<link, lost, storageVars, pushVars, mqttVars>>

MainAfterSnapshot ==
  /\ \/ mainPc = "snapping" /\ snap["main"].pc = "idle"
     \/ mainPc = "snap"
  /\ mainPc' = IF mode = "snapshot" THEN "close" ELSE "sleep"
  /\ UNCHANGED <<link, lost, deviceVars, cameraVars, storageVars, pushVars, mqttVars>>

MainCameraClose ==
  /\ mainPc = "close"
  /\ CameraClose
  /\ mainPc' = IF NeedNet THEN "net" ELSE "sleep"
  /\ UNCHANGED <<link, lost, storageVars, pushVars, mqttVars>>

(* system_schedule_todo, system_upload_todo *)
MainWork ==
  /\ mainPc = "work"
  /\ mainPc' = "sleep"
  /\ \/ /\ mode = "schedule"
        /\ SetSleepBit("schedule")
        /\ UNCHANGED <<storageBits, upPc>>
     \/ /\ mode = "upload" /\ uploadMode = 1
        /\ UploadStart
        /\ UNCHANGED <<sleepBits, mainWait>>
     \/ /\ mode = "upload" /\ uploadMode # 1
        /\ UNCHANGED <<sleepBits, mainWait, storageBits, upPc>>
  /\ UNCHANGED <<link, lost, mode, uploadMode, mqttQueue, storageQueue, cameraVars,
                 flashVars, mutex, recVars, upFile, unread, pushVars, mqttVars>>

(* sleep_wait_event_bits *)
MainSleepWait ==
  /\ mainPc = "sleep"
  /\ SleepWait
  /\ mainPc' = "wait"
  /\ UNCHANGED <<link, lost, mode, uploadMode, mqttQueue, storageQueue,
                 cameraVars, storageVars, pushVars, mqttVars>>

(* SLEEP_WAIT_TIMEOUT_MS, half an hour, ends the wait without the bits. *)
MainSleepTimeout ==
  /\ "sleep_timeout" \in Faults
  /\ mainWait = "waiting"
  /\ mainWait' = "released"
  /\ UNCHANGED <<mode, uploadMode, mqttQueue, storageQueue, sleepBits,
                 cameraVars, storageVars, pushVars, mqttVars, mainVars>>

(* sleep_start: push_stop, wifi_close, cat1_close ... *)
MainSleepStart ==
  /\ mainPc = "wait"
  /\ mainWait = "released"
  /\ PushStop
  /\ mainPc' = "stop"
  /\ link' = "off"
  /\ UNCHANGED <<lost, deviceVars, cameraVars, flashVars, mutex, recVars, upFile, unread, pushNode>>

(* The chip loses power to everything but the flash and RTC memory. *)
PowerOff ==
  /\ mainPc' = "off"
  /\ link' = "off"
  /\ lost' = lost \cup {i \in captures \cap accepted : flash[i] # "full"}
  /\ DevicePowerOff
  /\ CameraPowerOff
  /\ StoragePowerOff
  /\ PushPowerOff
  /\ MqttPowerOff

(* ... esp_deep_sleep_start *)
DeepSleep ==
  /\ mainPc = "stop"
  /\ PowerOff

(* A single click outside config mode restarts the device into it. *)
ButtonSleep ==
  /\ mode # "config"
  /\ PowerOff

PowerLoss ==
  /\ "power_loss" \in Faults
  /\ PowerOff

Boot ==
  /\ mainPc = "off"
  /\ mode' \in Modes
  /\ mainPc' = FirstStep(mode')
  /\ UNCHANGED <<link, lost, uploadMode, mqttQueue, storageQueue, sleepBits, mainWait,
                 cameraVars, storageVars, pushVars, mqttVars>>

MainStep ==
  \/ MainNetOpen \/ MainNetReady
  \/ MainCameraInit \/ MainCameraOpened \/ MainSnapshot \/ MainAfterSnapshot \/ MainCameraClose
  \/ MainWork
  \/ MainSleepWait \/ MainSleepStart \/ DeepSleep

-----------------------------------------------------------------------------
(* The other callers of camera_snapshot: the button and the console. *)
OtherSnapshot(c) ==
  /\ mode = "config"
  /\ c # "main"
  /\ SnapshotCall(c)
  /\ UNCHANGED <<storageVars, pushVars, mqttVars, mainVars>>

(* Nobody has used the access point or the web page for a minute. *)
NoOperation ==
  /\ mode = "config"
  /\ SetSleepBit("no_operation")
  /\ UNCHANGED <<mode, uploadMode, mqttQueue, storageQueue, cameraVars,
                 storageVars, pushVars, mqttVars, mainVars>>

(* set_upload_param_handle: the web page changes the upload mode. *)
SetUploadMode ==
  /\ mode = "config"
  /\ uploadMode' \in UploadModes
  /\ IF uploadMode' = 0 THEN UploadStart ELSE UploadStop
  /\ UNCHANGED <<mode, mqttQueue, storageQueue, sleepBits, mainWait, cameraVars,
                 flashVars, mutex, recVars, upFile, unread, pushVars, mqttVars, mainVars>>

(* The link comes up, or comes back: got IP, PPP connected. *)
LinkUp ==
  /\ link = "down"
  /\ link' = "up"
  /\ PushStart
  /\ UNCHANGED <<mainPc, lost, pushNode, deviceVars, cameraVars, flashVars, mutex, recVars, upFile, unread>>

(* The link drops, or an attempt to join fails: both are DISCONNECTED. *)
LinkDown ==
  /\ \/ link = "up" /\ "link_drop" \in Faults
     \/ link = "down" /\ "nolink" \in Faults
  /\ link' = "down"
  /\ PushStop
  /\ UNCHANGED <<mainPc, lost, pushNode, deviceVars, cameraVars, flashVars, mutex, recVars, upFile, unread>>

-----------------------------------------------------------------------------
CameraTask(c) == SnapshotStep(c) /\ UNCHANGED <<storageVars, pushVars, mqttVars, mainVars>>

RecordTask == RecordStep /\ UNCHANGED <<pushVars, mqttVars, mainVars>>

UploadTask == UploadStep /\ UNCHANGED <<pushVars, mqttVars, mainVars>>

PushTask == PushStep /\ UNCHANGED mainVars

MqttTask == MqttEvent /\ UNCHANGED mainVars

Environment ==
  \/ UploadTimeout /\ UNCHANGED <<pushVars, mqttVars, mainVars>>
  \/ ClearFiles /\ UNCHANGED <<pushVars, mqttVars, mainVars>>
  \/ \E c \in Callers : OtherSnapshot(c)
  \/ NoOperation
  \/ SetUploadMode
  \/ LinkUp \/ LinkDown
  \/ MainSleepTimeout
  \/ ButtonSleep
  \/ PowerLoss

Awake ==
  \/ MainStep
  \/ \E c \in Callers : CameraTask(c)
  \/ RecordTask
  \/ UploadTask
  \/ PushTask
  \/ MqttTask
  \/ Environment

Init ==
  /\ DeviceInit
  /\ CameraInit
  /\ StorageInit
  /\ PushInit
  /\ MqttInit
  /\ mainPc = "off"
  /\ lost = {}

Next ==
  \/ mainPc # "off" /\ Awake
  \/ Boot

Spec == Init /\ [][Next]_vars

MainPcTypeOK ==
  mainPc \in {"off", "net", "camera", "snap", "snapping", "close", "work", "sleep",
             "wait", "stop"}

TypeOK ==
  /\ DeviceTypeOK
  /\ CameraTypeOK
  /\ StorageTypeOK
  /\ PushTypeOK
  /\ MqttTypeOK
  /\ MainPcTypeOK
  /\ lost \subseteq Images
-----------------------------------------------------------------------------
(***************************************************************************)
(* Fairness.  Every task runs at a fixed priority, the scheduler preempts, *)
(* and each wait is a blocking one, so a task that can continue does.  The *)
(* waits that have a timeout end; a network that is not up yet comes up,   *)
(* unless "nolink" lets netModule_open give up.  The button, the web page  *)
(* and the console are under no obligation, nor is the half hour of        *)
(* SLEEP_WAIT_TIMEOUT_MS: the device must not depend on it.                *)
(***************************************************************************)
Fairness ==
  /\ WF_vars(Boot)
  /\ WF_vars(MainStep)
  /\ \A c \in Callers : WF_vars(CameraTask(c))
  /\ WF_vars(RecordTask)
  /\ WF_vars(UploadTask)
  /\ WF_vars(UploadTimeout /\ UNCHANGED <<pushVars, mqttVars, mainVars>>)
  /\ WF_vars(PushTask)
  /\ WF_vars(MqttTask)
  /\ WF_vars(LinkUp)

FairSpec == Spec /\ Fairness

-----------------------------------------------------------------------------
(***************************************************************************)
(* Memory: camera_queue_node_malloc, camera_queue_node_free and the        *)
(* pointers that travel through two queues and three tasks.                *)
(***************************************************************************)

Slots(queue, i) == {k \in 1..Len(queue) : queue[k] = CameraNode(i)}

(* Everyone who holds a pointer to the heap copy of image i. *)
Owners(i) ==
  ({"mqttQueue"} \X Slots(mqttQueue, i))
    \cup ({"storageQueue"} \X Slots(storageQueue, i))
    \cup ({"push"} \X {n \in {pushNode} : n = CameraNode(i)})
    \cup ({"record"} \X {n \in {recNode} : n = CameraNode(i)})
    \cup ({"snapshot"} \X {c \in Callers : snap[c].pc \in {"send", "drop"} /\ snap[c].img = i})

(* Each heap copy that is allocated has exactly one owner, who will free   *)
(* it, and nobody holds one that was freed: no leak, no double free and no *)
(* use after free on any path of camera.c, push.c and storage.c.           *)
OneOwner ==
  \A i \in Images : IF i \in captures THEN \E o \in Owners(i) : Owners(i) = {o}
                                      ELSE Owners(i) = {}

(* g_mdCamera.captureCount is the number of heap copies that are alive,    *)
(* although three tasks free them and several allocate them.               *)
CountIsExact == captureCount = Cardinality(captures) % 256

-----------------------------------------------------------------------------
(***************************************************************************)
(* Sleep: SLEEP_SNAPSHOT_STOP_BIT follows captureCount.                    *)
(***************************************************************************)

(* Outside config mode the bit is set only when no copy is alive; and the  *)
(* main task never waits for a bit that nobody is left to set, which would *)
(* keep the chip awake until SLEEP_WAIT_TIMEOUT_MS.                        *)
StopBitIsExact ==
  /\ "snapshot" \in sleepBits /\ mode # "config" => captures = {}
  /\ mainWait = "waiting" /\ mode \in {"snapshot", "config"} /\ captures = {}
       => "snapshot" \in sleepBits

(* handle_snapshot_mode: when the sleep bits let the main task go, and up  *)
(* to the deep sleep, no image is in RAM only.                             *)
SleepsWithNothingInRam ==
  mode # "config" /\ (mainWait = "released" \/ mainPc = "stop") => captures = {}

(* sleep.h says SLEEP_SNAPSHOT_STOP_BIT is "Snapshot complete" and         *)
(* camera.c sets it to "Signal no active captures", in every boot mode.    *)
StopBitMeansNoCaptures == "snapshot" \in sleepBits => captures = {}

(* sleep.h says SLEEP_STORAGE_UPLOAD_STOP_BIT is "Storage upload complete" *)
(* and storage.c "if no remaining images to upload in flash, will enter    *)
(* sleep": a scheduled upload sleeps only when all files are uploaded.     *)
UploadBitMeansComplete ==
  mode = "upload" /\ uploadMode = 1 /\ mainWait = "released" => Files = {}

(* An awake device goes back to sleep, and not by the half-hour timeout.   *)
EventuallySleeps == mainPc # "off" ~> mainPc = "off"

-----------------------------------------------------------------------------
(***************************************************************************)
(* No image disappears.                                                    *)
(***************************************************************************)

Safe(i) == flash[i] = "full" \/ i \in delivered \/ i \in discarded

(* An image a queue has accepted is in RAM, in a file, at the server or    *)
(* evicted for a newer one; a power-off is all that may lose one from RAM. *)
NothingForgotten == \A i \in accepted : i \in captures \/ i \in lost \/ Safe(i)

(* While the upload task holds the mutex its file is complete: record      *)
(* neither evicts it nor is still writing it.                              *)
ReadIntact == upPc = "send" => flash[upFile] = "full"

(* system.h: EVENT_OK is "Operation succeeded".  push_task frees a node    *)
(* with EVENT_OK only when its image is at the server.                     *)
OkMeansDelivered == pushPc = "success" => pushNode.img \in delivered

(* push.c: "PUSH FAIL, save to flash".  A stored image whose push failed,  *)
(* and which comes back to the record task, is still stored.               *)
FailedPushIsSaved ==
  recPc = "free" /\ recNode.from = "storage" => recNode.img \in Files \/ Safe(recNode.img)

(* upload waits for room in the MQTT queue with the mutex taken, push for  *)
(* room in the storage queue, and record for the mutex.                    *)
CircularWait ==
  /\ upPc = "send" /\ ~HasRoom(mqttQueue, MqttQueueSize)
  /\ pushPc = "store" /\ ~HasRoom(storageQueue, StorageQueueSize)
  /\ recPc = "lock"

(* push.c: "PUSH FAIL, save to flash".  The push task gets rid of a node   *)
(* it could not publish.                                                   *)
FailedPushIsHandedOver == pushPc = "store" ~> pushPc # "store"
=============================================================================
