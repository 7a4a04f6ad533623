------------------------------- MODULE Camera -------------------------------
(***************************************************************************)
(* camera.c: camera_snapshot takes a frame, copies it to the heap and      *)
(* offers it to the out queue without waiting; captureCount counts the     *)
(* copies that are alive and drives SLEEP_SNAPSHOT_STOP_BIT.               *)
(***************************************************************************)
EXTENDS Device

CONSTANTS
  Callers,   \* the tasks that call camera_snapshot: main, button, console
  TryCount   \* try_count, 5 in the code

ASSUME CameraAssumption ==
  /\ "main" \in Callers
  /\ TryCount \in Nat \ {0}

VARIABLES
  camera,        \* g_mdCamera: has init_camera installed a backend?
  captures,      \* the images whose heap copy is allocated
  captureCount,  \* g_mdCamera.captureCount, an uint8_t
  snap,          \* each caller inside camera_snapshot
  accepted       \* history: the images a queue has accepted

cameraVars == <<camera, captures, captureCount, snap, accepted>>

NotInSnapshot == [pc |-> "idle", img |-> NoImage, tries |-> 0]

SnapState ==
  {NotInSnapshot} \cup [pc : {"try", "send", "drop"}, img : Images, tries : 1..TryCount]

Fresh == Images \ (accepted \cup {snap[c].img : c \in Callers})

OutToMqtt == mode # "snapshot" \/ NeedNet

-----------------------------------------------------------------------------
(* Mutant of FreeCapture: the last copy is freed without a signal. *)
FreeCaptureSilently(i) ==
  /\ captures' = captures \ {i}
  /\ captureCount' = (captureCount + 255) % 256
  /\ UNCHANGED <<sleepBits, mainWait>>

(* Mutant of FreeCapture: the count is not decremented while others live. *)
FreeCaptureMiscounts(i) ==
  /\ captures' = captures \ {i}
  /\ captureCount' = IF captures' = {} THEN 0 ELSE captureCount
  /\ IF captures' = {} THEN SetSleepBit("snapshot") ELSE UNCHANGED <<sleepBits, mainWait>>

(* camera_queue_node_free: the count reaching zero signals the sleep task. *)
FreeCapture(i) ==
  LET count == (captureCount + 255) % 256
  IN  /\ captures' = captures \ {i}
      /\ captureCount' = count
      /\ \/ count = 0 /\ SetSleepBit("snapshot")
         \/ count # 0 /\ UNCHANGED <<sleepBits, mainWait>>

(* init_camera fails: nothing can be captured, so the bit is set at once. *)
CameraInitFails ==
  /\ camera = "off"
  /\ "camera" \in Faults
  /\ camera' = "failed"
  /\ SetSleepBit("snapshot")
  /\ UNCHANGED <<mode, uploadMode, mqttQueue, storageQueue, captures, captureCount, snap, accepted>>

(* init_camera installs the backend; camera_open then waits camWarmupMs. *)
CameraInitOK ==
  /\ camera = "off"
  /\ camera' = "warmup"
  /\ UNCHANGED <<captures, captureCount, snap, accepted, deviceVars>>

(* The end of camera_open: the bit is set whatever captureCount is. *)
CameraOpened ==
  /\ camera = "warmup"
  /\ camera' = "on"
  /\ SetSleepBit("snapshot")
  /\ UNCHANGED <<mode, uploadMode, mqttQueue, storageQueue, captures, captureCount, snap, accepted>>

CameraClose ==
  /\ camera' = IF camera = "failed" THEN "failed" ELSE "off"
  /\ UNCHANGED <<captures, captureCount, snap, accepted, deviceVars>>

-----------------------------------------------------------------------------
(* camera_snapshot(type, 1) called by task c. *)
SnapshotCall(c) ==
  /\ snap[c].pc = "idle"
  /\ \E i \in Fresh : snap' = [snap EXCEPT ![c] = [pc |-> "try", img |-> i, tries |-> TryCount]]
  /\ UNCHANGED <<camera, captures, captureCount, accepted, deviceVars>>

(* One more of the TryCount rounds, or the snapshot fails. *)
TryAgain(c) ==
  LET s == snap[c]
  IN  snap' = [snap EXCEPT ![c] = IF s.tries = 1 THEN NotInSnapshot
                                  ELSE [pc |-> "try", img |-> s.img, tries |-> s.tries - 1]]

(* fb_get has no frame, or the copy cannot be allocated. *)
NoFrame(c) ==
  /\ snap[c].pc = "try"
  /\ camera \in {"off", "failed"} \/ "frame" \in Faults
  /\ TryAgain(c)
  /\ UNCHANGED <<camera, captures, captureCount, accepted, deviceVars>>

(* Mutant of GrabFrame: the bit is left as camera_open set it. *)
GrabFrameKeepsBit(c) ==
  /\ snap[c].pc = "try"
  /\ camera \in {"warmup", "on"}
  /\ captures' = captures \cup {snap[c].img}
  /\ captureCount' = (captureCount + 1) % 256
  /\ snap' = [snap EXCEPT ![c].pc = "send"]
  /\ UNCHANGED <<camera, accepted, deviceVars>>

(* camera_queue_node_malloc: count up and clear the bit under the mutex. *)
GrabFrame(c) ==
  /\ snap[c].pc = "try"
  /\ camera \in {"warmup", "on"}
  /\ captures' = captures \cup {snap[c].img}
  /\ captureCount' = (captureCount + 1) % 256
  /\ ClearSleepBit("snapshot")
  /\ snap' = [snap EXCEPT ![c].pc = "send"]
  /\ UNCHANGED <<camera, accepted, mode, uploadMode, mqttQueue, storageQueue>>

SendToMqtt(c) ==
  /\ OutToMqtt
  /\ HasRoom(mqttQueue, MqttQueueSize)
  /\ mqttQueue' = Append(mqttQueue, CameraNode(snap[c].img))
  /\ UNCHANGED storageQueue

SendToStorage(c) ==
  /\ ~OutToMqtt
  /\ HasRoom(storageQueue, StorageQueueSize)
  /\ storageQueue' = Append(storageQueue, CameraNode(snap[c].img))
  /\ UNCHANGED mqttQueue

(* xQueueSend with no timeout succeeds. *)
SendFrame(c) ==
  /\ snap[c].pc = "send"
  /\ SendToMqtt(c) \/ SendToStorage(c)
  /\ accepted' = accepted \cup {snap[c].img}
  /\ snap' = [snap EXCEPT ![c] = NotInSnapshot]
  /\ UNCHANGED <<camera, captures, captureCount, mode, uploadMode, sleepBits, mainWait>>

(* xQueueSend with no timeout fails: "device BUSY, wait to try again". *)
QueueIsFull(c) ==
  /\ snap[c].pc = "send"
  /\ IF OutToMqtt THEN ~HasRoom(mqttQueue, MqttQueueSize)
                  ELSE ~HasRoom(storageQueue, StorageQueueSize)
  /\ snap' = [snap EXCEPT ![c].pc = "drop"]
  /\ UNCHANGED <<camera, captures, captureCount, accepted, deviceVars>>

(* Mutant of DropFrame: a copy that no queue took is forgotten. *)
DropFrameLeaks(c) ==
  /\ snap[c].pc = "drop"
  /\ TryAgain(c)
  /\ UNCHANGED <<camera, captures, captureCount, accepted, deviceVars>>

DropFrame(c) ==
  /\ snap[c].pc = "drop"
  /\ FreeCapture(snap[c].img)
  /\ TryAgain(c)
  /\ UNCHANGED <<camera, accepted, mode, uploadMode, mqttQueue, storageQueue>>

SnapshotStep(c) ==
  \/ NoFrame(c)
  \/ GrabFrame(c)
  \/ SendFrame(c)
  \/ QueueIsFull(c)
  \/ DropFrame(c)

-----------------------------------------------------------------------------
CameraInit ==
  /\ camera = "off"
  /\ captures = {}
  /\ captureCount = 0
  /\ snap = [c \in Callers |-> NotInSnapshot]

CameraPowerOff ==
  /\ camera' = "off"
  /\ captures' = {}
  /\ captureCount' = 0
  /\ snap' = [c \in Callers |-> NotInSnapshot]
  /\ UNCHANGED accepted

CameraTypeOK ==
  /\ camera \in {"off", "failed", "warmup", "on"}
  /\ captures \subseteq Images
  /\ captureCount \in 0..255
  /\ snap \in [Callers -> SnapState]
  /\ accepted \subseteq Images
=============================================================================
