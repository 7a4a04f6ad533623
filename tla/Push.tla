-------------------------------- MODULE Push --------------------------------
(***************************************************************************)
(* push.c: one task takes nodes from the MQTT queue, publishes each one    *)
(* when the upload mode or the boot mode asks for it, and hands what could *)
(* not or must not be published to the record task.                        *)
(***************************************************************************)
EXTENDS Storage

VARIABLES pushPc, pushNode

pushVars == <<pushPc, pushNode>>

(***************************************************************************)
(* READY and EXIT have the same effect: they end the wait at the top of    *)
(* push_task, and nobody ever waits for them again.                        *)
(***************************************************************************)
PushReady == pushPc' = IF pushPc = "start" THEN "recv" ELSE pushPc

PushExit == PushReady

PushReadyTimeout ==
  /\ pushPc = "start"
  /\ pushPc' = "recv"
  /\ UNCHANGED <<pushNode, deviceVars, cameraVars, storageVars>>

PublishNow == uploadMode = 0 \/ mode = "upload"

PushReceive ==
  /\ pushPc = "recv"
  /\ mqttQueue # <<>>
  /\ pushNode' = Head(mqttQueue)
  /\ mqttQueue' = Tail(mqttQueue)
  /\ pushPc' = IF PublishNow THEN "publish" ELSE "store"
  /\ UNCHANGED <<mode, uploadMode, storageQueue, sleepBits, mainWait, cameraVars, storageVars>>

(* "PUSH FAIL, save to flash": blocks while the storage queue is full. *)
PushStore ==
  /\ pushPc = "store"
  /\ HasRoom(storageQueue, StorageQueueSize)
  /\ storageQueue' = Append(storageQueue, pushNode)
  /\ pushPc' = "recv"
  /\ pushNode' = NoNode
  /\ UNCHANGED <<mode, uploadMode, mqttQueue, sleepBits, mainWait, cameraVars, storageVars>>

(* "PUSH SUCCESS" *)
PushSuccess ==
  /\ pushPc = "success"
  /\ FreeNode(pushNode, "DONE")
  /\ pushPc' = "recv"
  /\ pushNode' = NoNode
  /\ UNCHANGED <<mode, uploadMode, mqttQueue, storageQueue, camera, snap, accepted,
                 flashVars, mutex, recVars, upFile, unread>>

-----------------------------------------------------------------------------
PushInit == pushPc = "start" /\ pushNode = NoNode

PushPowerOff == pushPc' = "start" /\ pushNode' = NoNode

PushTypeOK ==
  /\ pushPc \in {"start", "recv", "publish", "puback", "success", "store"}
  /\ pushNode \in Node \cup {NoNode}
  /\ pushPc \notin {"start", "recv"} => pushNode \in Node
=============================================================================
