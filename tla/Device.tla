------------------------------- MODULE Device -------------------------------
(***************************************************************************)
(* What the tasks of the firmware share while the chip is awake: the boot  *)
(* mode, the two FreeRTOS queues that main.c creates between them, and the *)
(* event group of sleep.c that decides when the chip may go to deep sleep. *)
(***************************************************************************)
EXTENDS Naturals, Sequences, FiniteSets

CONSTANTS
  Images,            \* the JPEGs the device may take, named by their timestamp
  MqttQueueSize,     \* MQTT_QUEUE_SIZE
  StorageQueueSize,  \* STORAGE_QUEUE_SIZE
  Modes,             \* the boot modes that are explored
  UploadModes,       \* the values uploadMode may have: 0 instant, 1 scheduled
  NtpEnabled,        \* ntp_sync.enable
  Faults             \* what the environment may do wrong, by name

FaultNames ==
  {"camera", "frame", "flash", "memory", "publish", "late_ack", "upload_timeout",
   "nolink", "link_drop", "disconnect", "sleep_timeout", "power_loss", "clear"}

ASSUME ImagesAssumption == Images \subseteq (Nat \ {0})

ASSUME QueueSizeAssumption ==
  /\ MqttQueueSize \in Nat \ {0}
  /\ StorageQueueSize \in Nat \ {0}

ASSUME ConfigurationAssumption ==
  /\ Modes \subseteq {"snapshot", "config", "schedule", "upload"}
  /\ UploadModes \subseteq {0, 1}
  /\ NtpEnabled \in BOOLEAN
  /\ Faults \subseteq FaultNames

VARIABLES
  mode,          \* main_mode of this boot
  uploadMode,    \* upload.uploadMode in NVS
  mqttQueue,     \* xQueueMqtt: camera and upload task to push task
  storageQueue,  \* xQueueStorage: push task (or camera) to record task
  sleepBits,     \* g_sleep.eventGroup
  mainWait       \* the main task in sleep_wait_event_bits

deviceVars == <<mode, uploadMode, mqttQueue, storageQueue, sleepBits, mainWait>>

-----------------------------------------------------------------------------
(* queueNode_t: where an image comes from and which one it is. *)

NoImage == 0

Node == [from : {"camera", "storage"}, img : Images]

NoNode == [from |-> "none", img |-> NoImage]

CameraNode(i) == [from |-> "camera", img |-> i]

StorageNode(i) == [from |-> "storage", img |-> i]

(* Mutant of HasRoom: one node more than the queue has slots for. *)
HasRoomOffByOne(queue, size) == Len(queue) <= size

HasRoom(queue, size) == Len(queue) < size

(* In snapshot mode the camera feeds the push task only when the network *)
(* is going to be opened, otherwise it feeds the record task.             *)
NeedNet == NtpEnabled \/ uploadMode = 0

-----------------------------------------------------------------------------
(***************************************************************************)
(* The sleep event group.  A FreeRTOS event group releases a waiting task, *)
(* and clears the bits it waited for, inside the call that sets the last   *)
(* of them: a bit cleared a moment later does not take the release back.   *)
(***************************************************************************)

SleepBits == {"snapshot", "upload", "schedule", "no_operation"}

(* Mutant of WaitBits: snapshot mode does not wait for the snapshot. *)
WaitBitsWithoutSnapshot ==
  CASE mode = "config"   -> {"snapshot", "upload", "no_operation"}
    [] mode = "schedule" -> {"schedule", "upload"}
    [] OTHER             -> {"upload"}

WaitBits ==
  CASE mode = "snapshot" -> {"snapshot", "upload"}
    [] mode = "config"   -> {"snapshot", "upload", "no_operation"}
    [] mode = "schedule" -> {"schedule", "upload"}
    [] OTHER             -> {"upload"}

ReleaseMain(bits) ==
  \/ /\ mainWait = "waiting"
     /\ WaitBits \subseteq bits
     /\ sleepBits' = bits \ WaitBits
     /\ mainWait' = "released"
  \/ /\ ~(mainWait = "waiting" /\ WaitBits \subseteq bits)
     /\ sleepBits' = bits
     /\ UNCHANGED mainWait

SetSleepBit(bit) == ReleaseMain(sleepBits \cup {bit})

ClearSleepBit(bit) ==
  /\ sleepBits' = sleepBits \ {bit}
  /\ UNCHANGED mainWait

(* The main task arrives at xEventGroupWaitBits. *)
SleepWait ==
  \/ /\ WaitBits \subseteq sleepBits
     /\ sleepBits' = sleepBits \ WaitBits
     /\ mainWait' = "released"
  \/ /\ ~(WaitBits \subseteq sleepBits)
     /\ mainWait' = "waiting"
     /\ UNCHANGED sleepBits

-----------------------------------------------------------------------------
DeviceInit ==
  /\ mode \in Modes
  /\ uploadMode \in UploadModes
  /\ mqttQueue = <<>>
  /\ storageQueue = <<>>
  /\ sleepBits = {}
  /\ mainWait = "busy"

(* RAM content is lost in deep sleep and on a power loss; NVS is not. *)
DevicePowerOff ==
  /\ mqttQueue' = <<>>
  /\ storageQueue' = <<>>
  /\ sleepBits' = {}
  /\ mainWait' = "busy"
  /\ UNCHANGED <<mode, uploadMode>>

DeviceTypeOK ==
  /\ mode \in Modes
  /\ uploadMode \in UploadModes
  /\ mqttQueue \in Seq(Node)
  /\ Len(mqttQueue) <= MqttQueueSize
  /\ storageQueue \in Seq(Node)
  /\ Len(storageQueue) <= StorageQueueSize
  /\ sleepBits \subseteq SleepBits
  /\ mainWait \in {"busy", "waiting", "released"}
=============================================================================
