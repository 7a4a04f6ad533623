------------------------ MODULE ImagePipelineProofs ------------------------
(***************************************************************************)
(* Theorems about the image pipeline, for every number of images, queue    *)
(* size, caller of camera_snapshot, boot mode and set of faults.           *)
(***************************************************************************)
EXTENDS ImagePipeline, TLAPS

-----------------------------------------------------------------------------
(* Queues. *)

LEMMA AppendType ==
  ASSUME NEW q \in Seq(Node), NEW n \in Node, NEW size \in Nat,
         HasRoom(q, size)
  PROVE  Append(q, n) \in Seq(Node) /\ Len(Append(q, n)) <= size
  BY DEF HasRoom

LEMMA TailType ==
  ASSUME NEW q \in Seq(Node), NEW size \in Nat, q # <<>>, Len(q) <= size
  PROVE  Head(q) \in Node /\ Tail(q) \in Seq(Node) /\ Len(Tail(q)) <= size
  OBVIOUS

LEMMA NodeType ==
  ASSUME NEW i \in Images
  PROVE  CameraNode(i) \in Node /\ StorageNode(i) \in Node
  BY DEF CameraNode, StorageNode, Node

-----------------------------------------------------------------------------
(* Event groups. *)

SleepTypeOK ==
  /\ sleepBits \subseteq SleepBits
  /\ mainWait \in {"busy", "waiting", "released"}

LEMMA SleepBitType ==
  ASSUME SleepTypeOK, NEW bit \in SleepBits
  PROVE  /\ SetSleepBit(bit) => SleepTypeOK'
         /\ ClearSleepBit(bit) => SleepTypeOK'
         /\ SleepWait => SleepTypeOK'
  BY DEF SleepTypeOK, SetSleepBit, ReleaseMain, ClearSleepBit, SleepWait

UploadTypeOK ==
  /\ storageBits \subseteq {"START", "STOP", "DONE"}
  /\ upPc \in {"park", "parked", "wait", "open", "scan"} \cup UploadBusy
  /\ upPc \in UploadBusy => upFile \in Images

LEMMA WakeUploadType ==
  ASSUME UploadTypeOK, UNCHANGED upFile
  PROVE  /\ UploadStart => UploadTypeOK'
         /\ UploadStop => UploadTypeOK'
         /\ \A bit \in {"STOP", "DONE"} : FreeStorageNode(bit) => UploadTypeOK'
         /\ UNCHANGED <<storageBits, upPc>> => UploadTypeOK'
  BY DEF UploadTypeOK, UploadBusy, UploadStart, UploadStop, FreeStorageNode, WakeUpload

CaptureTypeOK == captures \subseteq Images /\ captureCount \in 0..255

LEMMA FreeCaptureType ==
  ASSUME SleepTypeOK, CaptureTypeOK, NEW i, FreeCapture(i)
  PROVE  SleepTypeOK' /\ CaptureTypeOK'
<1>1. /\ captures' = captures \ {i}
      /\ captureCount' = (captureCount + 255) % 256
      /\ SetSleepBit("snapshot") \/ UNCHANGED <<sleepBits, mainWait>>
  BY DEF FreeCapture
<1>2. CaptureTypeOK'
  BY <1>1 DEF CaptureTypeOK
<1>3. SleepTypeOK'
  <2>1. "snapshot" \in SleepBits
    BY DEF SleepBits
  <2>2. CASE SetSleepBit("snapshot")
    BY <2>1, <2>2, SleepBitType
  <2>3. CASE UNCHANGED <<sleepBits, mainWait>>
    BY <2>3 DEF SleepTypeOK
  <2> QED
    BY <1>1, <2>2, <2>3
<1> QED
  BY <1>2, <1>3

LEMMA FreeNodeType ==
  ASSUME SleepTypeOK, UploadTypeOK, CaptureTypeOK, UNCHANGED upFile,
         NEW node, NEW bit \in {"STOP", "DONE"}, FreeNode(node, bit)
  PROVE  SleepTypeOK' /\ UploadTypeOK' /\ CaptureTypeOK'
<1>1. CASE FreeCapture(node.img) /\ UNCHANGED <<storageBits, upPc>>
  BY <1>1, FreeCaptureType, WakeUploadType
<1>2. CASE FreeStorageNode(bit) /\ UNCHANGED <<captures, captureCount, sleepBits, mainWait>>
  BY <1>2, WakeUploadType DEF SleepTypeOK, CaptureTypeOK
<1> QED
  BY <1>1, <1>2 DEF FreeNode

-----------------------------------------------------------------------------
(***************************************************************************)
(* The type invariant, cut along the lines that the actions respect: what  *)
(* an action leaves alone keeps its type.                                  *)
(***************************************************************************)

QueueTypeOK ==
  /\ mqttQueue \in Seq(Node) /\ Len(mqttQueue) <= MqttQueueSize
  /\ storageQueue \in Seq(Node) /\ Len(storageQueue) <= StorageQueueSize

ModeTypeOK == mode \in Modes /\ uploadMode \in UploadModes

SnapTypeOK ==
  /\ camera \in {"off", "failed", "warmup", "on"}
  /\ snap \in [Callers -> SnapState]
  /\ accepted \subseteq Images

FlashTypeOK ==
  /\ flash \in [Images -> {"absent", "empty", "full"}]
  /\ discarded \subseteq Images
  /\ mutex \in {"none", "record", "upload"}

RecordTypeOK ==
  /\ recPc \in {"recv", "lock", "write", "free"}
  /\ recNode \in Node \cup {NoNode}
  /\ recPc # "recv" => recNode \in Node

ReaderTypeOK == upFile \in Images \cup {NoImage} /\ unread \subseteq Images

MainTypeOK == MainPcTypeOK /\ lost \subseteq Images

TypeParts ==
  /\ ModeTypeOK /\ QueueTypeOK /\ SleepTypeOK
  /\ SnapTypeOK /\ CaptureTypeOK
  /\ FlashTypeOK /\ RecordTypeOK /\ UploadTypeOK /\ ReaderTypeOK
  /\ PushTypeOK /\ MqttTypeOK /\ MainTypeOK

LEMMA TypeOKIsItsParts == TypeOK <=> TypeParts
  BY DEF TypeParts, TypeOK, DeviceTypeOK, CameraTypeOK, StorageTypeOK, ModeTypeOK, QueueTypeOK,
         SleepTypeOK, SnapTypeOK, CaptureTypeOK, FlashTypeOK, RecordTypeOK, UploadTypeOK,
         ReaderTypeOK, MainTypeOK

LEMMA Frame ==
  ASSUME TypeParts
  PROVE  /\ UNCHANGED <<mode, uploadMode>> => ModeTypeOK'
         /\ UNCHANGED <<mqttQueue, storageQueue>> => QueueTypeOK'
         /\ UNCHANGED <<sleepBits, mainWait>> => SleepTypeOK'
         /\ UNCHANGED <<camera, snap, accepted>> => SnapTypeOK'
         /\ UNCHANGED <<captures, captureCount>> => CaptureTypeOK'
         /\ UNCHANGED <<flash, discarded, mutex>> => FlashTypeOK'
         /\ UNCHANGED <<recPc, recNode>> => RecordTypeOK'
         /\ UNCHANGED <<storageBits, upPc, upFile>> => UploadTypeOK'
         /\ UNCHANGED <<upFile, unread>> => ReaderTypeOK'
         /\ UNCHANGED <<pushPc, pushNode>> => PushTypeOK'
         /\ UNCHANGED <<client, isConnected, publishedBit, inflight, delivered, link>> => MqttTypeOK'
         /\ UNCHANGED <<mainPc, lost>> => MainTypeOK'
<1> USE DEF TypeParts
<1>1. UNCHANGED <<mode, uploadMode>> => ModeTypeOK'
  BY DEF ModeTypeOK
<1>2. UNCHANGED <<mqttQueue, storageQueue>> => QueueTypeOK'
  BY DEF QueueTypeOK
<1>3. UNCHANGED <<sleepBits, mainWait>> => SleepTypeOK'
  BY DEF SleepTypeOK
<1>4. UNCHANGED <<camera, snap, accepted>> => SnapTypeOK'
  BY DEF SnapTypeOK
<1>5. UNCHANGED <<captures, captureCount>> => CaptureTypeOK'
  BY DEF CaptureTypeOK
<1>6. UNCHANGED <<flash, discarded, mutex>> => FlashTypeOK'
  BY DEF FlashTypeOK
<1>7. UNCHANGED <<recPc, recNode>> => RecordTypeOK'
  BY DEF RecordTypeOK
<1>8. UNCHANGED <<storageBits, upPc, upFile>> => UploadTypeOK'
  BY DEF UploadTypeOK
<1>9. UNCHANGED <<upFile, unread>> => ReaderTypeOK'
  BY DEF ReaderTypeOK
<1>10. UNCHANGED <<pushPc, pushNode>> => PushTypeOK'
  BY DEF PushTypeOK
<1>11. UNCHANGED <<client, isConnected, publishedBit, inflight, delivered, link>> => MqttTypeOK'
  BY DEF MqttTypeOK
<1>12. UNCHANGED <<mainPc, lost>> => MainTypeOK'
  BY DEF MainTypeOK, MainPcTypeOK
<1> QED
  BY <1>1, <1>2, <1>3, <1>4, <1>5, <1>6, <1>7, <1>8, <1>9, <1>10, <1>11, <1>12

-----------------------------------------------------------------------------
(* The tasks. *)

USE DEF deviceVars, cameraVars, flashVars, recVars, upVars, storageVars, pushVars, mqttVars, mainVars

LEMMA TryAgainType ==
  ASSUME SnapTypeOK, NEW c \in Callers, snap[c].pc \in {"try", "drop"}, TryAgain(c),
         UNCHANGED <<camera, accepted>>
  PROVE  SnapTypeOK'
<1>1. snap[c] \in [pc : {"try", "send", "drop"}, img : Images, tries : 1..TryCount]
  BY DEF SnapTypeOK, SnapState, NotInSnapshot
<1>2. CASE snap[c].tries = 1
  BY <1>2 DEF TryAgain, SnapTypeOK, SnapState
<1>3. CASE snap[c].tries # 1
  BY <1>1, <1>3, CameraAssumption DEF TryAgain, SnapTypeOK, SnapState
<1> QED
  BY <1>2, <1>3

LEMMA SnapshotStepType ==
  ASSUME TypeParts, NEW c \in Callers, CameraTask(c)
  PROVE  TypeParts'
<1>0. SnapTypeOK /\ CaptureTypeOK /\ QueueTypeOK /\ SleepTypeOK
  BY DEF TypeParts
<1>1. CASE NoFrame(c)
  <2>1. SnapTypeOK'
    BY <1>0, <1>1, TryAgainType DEF NoFrame
  <2> QED
    BY <1>1, <2>1, Frame DEF NoFrame, CameraTask, TypeParts
<1>2. CASE GrabFrame(c)
  <2>1. snap[c] \in [pc : {"try", "send", "drop"}, img : Images, tries : 1..TryCount]
    BY <1>0, <1>2 DEF GrabFrame, SnapTypeOK, SnapState, NotInSnapshot
  <2>2. SnapTypeOK'
    BY <1>0, <1>2, <2>1 DEF GrabFrame, SnapTypeOK, SnapState
  <2>3. CaptureTypeOK'
    BY <1>0, <1>2, <2>1 DEF GrabFrame, CaptureTypeOK
  <2>4. SleepTypeOK'
    BY <1>0, <1>2, SleepBitType DEF GrabFrame, SleepBits
  <2> QED
    BY <1>2, <2>2, <2>3, <2>4, Frame DEF GrabFrame, CameraTask, TypeParts
<1>3. CASE SendFrame(c)
  <2>1. snap[c] \in [pc : {"try", "send", "drop"}, img : Images, tries : 1..TryCount]
    BY <1>0, <1>3 DEF SendFrame, SnapTypeOK, SnapState, NotInSnapshot
  <2>2. SnapTypeOK'
    BY <1>0, <1>3, <2>1 DEF SendFrame, SnapTypeOK, SnapState
  <2>3. CameraNode(snap[c].img) \in Node
    BY <2>1, NodeType
  <2>4. CASE SendToMqtt(c)
    <3>1. QueueTypeOK'
      BY <1>0, <2>3, <2>4, AppendType, QueueSizeAssumption DEF SendToMqtt, QueueTypeOK
    <3> QED
      BY <1>3, <2>2, <3>1, Frame DEF SendFrame, CameraTask, TypeParts
  <2>5. CASE SendToStorage(c)
    <3>1. QueueTypeOK'
      BY <1>0, <2>3, <2>5, AppendType, QueueSizeAssumption DEF SendToStorage, QueueTypeOK
    <3> QED
      BY <1>3, <2>2, <3>1, Frame DEF SendFrame, CameraTask, TypeParts
  <2> QED
    BY <1>3, <2>4, <2>5 DEF SendFrame
<1>4. CASE QueueIsFull(c)
  <2>1. snap[c] \in [pc : {"try", "send", "drop"}, img : Images, tries : 1..TryCount]
    BY <1>0, <1>4 DEF QueueIsFull, SnapTypeOK, SnapState, NotInSnapshot
  <2>2. SnapTypeOK'
    BY <1>0, <1>4, <2>1 DEF QueueIsFull, SnapTypeOK, SnapState
  <2> QED
    BY <1>4, <2>2, Frame DEF QueueIsFull, CameraTask, TypeParts
<1>5. CASE DropFrame(c)
  <2>1. SnapTypeOK'
    BY <1>0, <1>5, TryAgainType DEF DropFrame
  <2>2. SleepTypeOK' /\ CaptureTypeOK'
    BY <1>0, <1>5, FreeCaptureType DEF DropFrame
  <2> QED
    BY <1>5, <2>1, <2>2, Frame DEF DropFrame, CameraTask, TypeParts
<1> QED
  BY <1>1, <1>2, <1>3, <1>4, <1>5 DEF CameraTask, SnapshotStep

LEMMA RecordTaskType ==
  ASSUME TypeParts, RecordTask
  PROVE  TypeParts'
<1>0. QueueTypeOK /\ FlashTypeOK /\ RecordTypeOK /\ SleepTypeOK /\ UploadTypeOK /\ CaptureTypeOK
  BY DEF TypeParts
<1>1. CASE RecordReceive
  <2>1. QueueTypeOK' /\ recNode' \in Node
    BY <1>0, <1>1, TailType, QueueSizeAssumption DEF RecordReceive, QueueTypeOK
  <2>2. RecordTypeOK'
    BY <1>1, <2>1 DEF RecordReceive, RecordTypeOK
  <2> QED
    BY <1>1, <2>1, <2>2, Frame DEF RecordReceive, RecordTask, TypeParts
<1>2. CASE RecordOpenFile
  <2>1. Evicted \subseteq Images
    BY DEF Evicted, Files
  <2>2. flash' \in [Images -> {"absent", "empty", "full"}]
    BY <1>0, <1>2 DEF RecordOpenFile, FlashTypeOK
  <2>3. FlashTypeOK'
    BY <1>0, <1>2, <2>1, <2>2 DEF RecordOpenFile, FlashTypeOK
  <2>4. RecordTypeOK'
    BY <1>0, <1>2 DEF RecordOpenFile, RecordTypeOK
  <2> QED
    BY <1>2, <2>3, <2>4, Frame DEF RecordOpenFile, RecordTask, TypeParts
<1>3. CASE RecordWriteFile
  <2>1. FlashTypeOK'
    BY <1>0, <1>3 DEF RecordWriteFile, FlashTypeOK
  <2>2. RecordTypeOK'
    BY <1>0, <1>3 DEF RecordWriteFile, RecordTypeOK
  <2> QED
    BY <1>3, <2>1, <2>2, Frame DEF RecordWriteFile, RecordTask, TypeParts
<1>4. CASE RecordFree
  <2>1. SleepTypeOK' /\ UploadTypeOK' /\ CaptureTypeOK'
    BY <1>0, <1>4, FreeNodeType DEF RecordFree
  <2>2. RecordTypeOK'
    BY <1>4 DEF RecordFree, RecordTypeOK
  <2> QED
    BY <1>4, <2>1, <2>2, Frame DEF RecordFree, RecordTask, TypeParts
<1> QED
  BY <1>1, <1>2, <1>3, <1>4 DEF RecordTask, RecordStep

LEMMA UploadTaskType ==
  ASSUME TypeParts, UploadTask
  PROVE  TypeParts'
<1>0. QueueTypeOK /\ FlashTypeOK /\ SleepTypeOK /\ UploadTypeOK /\ ReaderTypeOK
  BY DEF TypeParts
<1>10. Files \subseteq Images
  BY DEF Files
<1>1. CASE UploadPark
  <2>1. SleepTypeOK'
    BY <1>0, <1>1, SleepBitType DEF UploadPark, SleepBits
  <2>2. UploadTypeOK' /\ ReaderTypeOK'
    BY <1>0, <1>1 DEF UploadPark, UploadTypeOK, UploadBusy, ReaderTypeOK
  <2> QED
    BY <1>1, <2>1, <2>2, Frame DEF UploadPark, UploadTask, TypeParts
<1>2. CASE UploadWaitStart
  <2>1. UploadTypeOK'
    BY <1>0, <1>2 DEF UploadWaitStart, UploadTypeOK, UploadBusy
  <2> QED
    BY <1>2, <2>1, Frame DEF UploadWaitStart, UploadTask, TypeParts
<1>3. CASE UploadOpenDir
  <2>1. SleepTypeOK'
    BY <1>0, <1>3, SleepBitType DEF UploadOpenDir, SleepBits
  <2>2. UploadTypeOK' /\ ReaderTypeOK'
    BY <1>0, <1>10, <1>3 DEF UploadOpenDir, UploadTypeOK, UploadBusy, ReaderTypeOK
  <2> QED
    BY <1>3, <2>1, <2>2, Frame DEF UploadOpenDir, UploadTask, TypeParts
<1>4. CASE UploadNextFile
  <2>1. UploadTypeOK' /\ ReaderTypeOK'
    BY <1>0, <1>10, <1>4 DEF UploadNextFile, UploadTypeOK, UploadBusy, ReaderTypeOK
  <2> QED
    BY <1>4, <2>1, Frame DEF UploadNextFile, UploadTask, TypeParts
<1>5. CASE UploadEndOfDir
  <2>1. UploadTypeOK'
    BY <1>0, <1>5 DEF UploadEndOfDir, UploadTypeOK, UploadBusy
  <2> QED
    BY <1>5, <2>1, Frame DEF UploadEndOfDir, UploadTask, TypeParts
<1>6. CASE UploadReadFile
  <2>1. flash' \in [Images -> {"absent", "empty", "full"}]
    BY <1>0, <1>6 DEF UploadReadFile, Unlink, FlashTypeOK
  <2>2. FlashTypeOK'
    BY <1>0, <1>6, <2>1 DEF UploadReadFile, FlashTypeOK
  <2>3. upPc' \in {"send", "scan"} /\ UNCHANGED <<storageBits, upFile, unread>>
    BY <1>6 DEF UploadReadFile
  <2>4. UploadTypeOK'
    BY <1>0, <1>6, <2>3 DEF UploadReadFile, UploadTypeOK, UploadBusy
  <2> QED
    BY <1>6, <2>2, <2>4, Frame DEF UploadReadFile, UploadTask, TypeParts
<1>7. CASE UploadSend
  <2>1. upFile \in Images
    BY <1>0, <1>7 DEF UploadSend, UploadTypeOK, UploadBusy
  <2>2. QueueTypeOK'
    BY <1>0, <1>7, <2>1, NodeType, AppendType, QueueSizeAssumption DEF UploadSend, QueueTypeOK
  <2>3. UploadTypeOK' /\ FlashTypeOK'
    BY <1>0, <1>7, <2>1 DEF UploadSend, UploadTypeOK, UploadBusy, FlashTypeOK
  <2> QED
    BY <1>7, <2>2, <2>3, Frame DEF UploadSend, UploadTask, TypeParts
<1>8. CASE UploadAwait
  <2>1. upPc' \in {"unlink", "park", "await"} /\ storageBits' \subseteq storageBits
    BY <1>8 DEF UploadAwait
  <2>2. UploadTypeOK'
    BY <1>0, <1>8, <2>1 DEF UploadAwait, UploadTypeOK, UploadBusy
  <2> QED
    BY <1>8, <2>2, Frame DEF UploadAwait, UploadTask, TypeParts
<1>9. CASE UploadUnlink
  <2>1. FlashTypeOK'
    BY <1>0, <1>9 DEF UploadUnlink, Unlink, FlashTypeOK
  <2>2. UploadTypeOK'
    BY <1>0, <1>9 DEF UploadUnlink, UploadTypeOK, UploadBusy
  <2> QED
    BY <1>9, <2>1, <2>2, Frame DEF UploadUnlink, UploadTask, TypeParts
<1> QED
  BY <1>1, <1>2, <1>3, <1>4, <1>5, <1>6, <1>7, <1>8, <1>9 DEF UploadTask, UploadStep

LEMMA PushWakeType ==
  ASSUME PushTypeOK, UNCHANGED pushNode, PushReady \/ PushExit
  PROVE  PushTypeOK'
  BY DEF PushTypeOK, PushReady, PushExit

LEMMA PushTaskType ==
  ASSUME TypeParts, PushTask
  PROVE  TypeParts'
<1>0. /\ QueueTypeOK /\ SleepTypeOK /\ UploadTypeOK /\ CaptureTypeOK
      /\ PushTypeOK /\ MqttTypeOK
  BY DEF TypeParts
<1>1. CASE PushReadyTimeout /\ UNCHANGED mqttVars
  <2>1. PushTypeOK'
    BY <1>0, <1>1 DEF PushReadyTimeout, PushTypeOK
  <2> QED
    BY <1>1, <2>1, Frame DEF PushReadyTimeout, PushTask, TypeParts
<1>2. CASE PushReceive /\ UNCHANGED mqttVars
  <2>1. QueueTypeOK' /\ pushNode' \in Node
    BY <1>0, <1>2, TailType, QueueSizeAssumption DEF PushReceive, QueueTypeOK
  <2>2. PushTypeOK'
    BY <1>2, <2>1 DEF PushReceive, PushTypeOK
  <2> QED
    BY <1>2, <2>1, <2>2, Frame DEF PushReceive, PushTask, TypeParts
<1>3. CASE PushStore /\ UNCHANGED mqttVars
  <2>1. pushNode \in Node
    BY <1>0, <1>3 DEF PushStore, PushTypeOK
  <2>2. QueueTypeOK'
    BY <1>0, <1>3, <2>1, AppendType, QueueSizeAssumption DEF PushStore, QueueTypeOK
  <2>3. PushTypeOK'
    BY <1>3 DEF PushStore, PushTypeOK
  <2> QED
    BY <1>3, <2>2, <2>3, Frame DEF PushStore, PushTask, TypeParts
<1>4. CASE PushSuccess /\ UNCHANGED mqttVars
  <2>1. SleepTypeOK' /\ UploadTypeOK' /\ CaptureTypeOK'
    BY <1>0, <1>4, FreeNodeType DEF PushSuccess
  <2>2. PushTypeOK'
    BY <1>4 DEF PushSuccess, PushTypeOK
  <2> QED
    BY <1>4, <2>1, <2>2, Frame DEF PushSuccess, PushTask, TypeParts
<1>6. CASE pushPc = "publish"
  <2>1. pushNode \in Node /\ pushNode.img \in Images
    BY <1>0, <1>6 DEF PushTypeOK, Node
  <2>2. CASE PublishFails
    <3>1. PushTypeOK' /\ MqttTypeOK'
      BY <1>0, <2>1, <2>2 DEF PublishFails, PushTypeOK, MqttTypeOK, PushTask
    <3> QED
      BY <2>2, <3>1, Frame DEF PublishFails, PushTask, TypeParts
  <2>3. CASE WebhookPublish
    <3>1. PushTypeOK' /\ MqttTypeOK'
      BY <1>0, <2>1, <2>3 DEF WebhookPublish, PushTypeOK, MqttTypeOK, PushTask
    <3> QED
      BY <2>3, <3>1, Frame DEF WebhookPublish, PushTask, TypeParts
  <2>4. CASE MqttPublishQos0
    <3>1. PushTypeOK' /\ MqttTypeOK'
      BY <1>0, <2>1, <2>4 DEF MqttPublishQos0, PushTypeOK, MqttTypeOK, PushTask
    <3> QED
      BY <2>4, <3>1, Frame DEF MqttPublishQos0, PushTask, TypeParts
  <2>5. CASE MqttPublish
    <3>1. PushTypeOK' /\ MqttTypeOK'
      BY <1>0, <2>1, <2>5 DEF MqttPublish, PushTypeOK, MqttTypeOK, PushTask
    <3> QED
      BY <2>5, <3>1, Frame DEF MqttPublish, PushTask, TypeParts
  <2> QED
    BY <1>1, <1>2, <1>3, <1>4, <1>6, <2>2, <2>3, <2>4, <2>5
    DEF PushTask, PushStep, PublishTimeout
<1>5. CASE PublishTimeout
  <2>1. PushTypeOK'
    BY <1>0, <1>5 DEF PublishTimeout, PushTypeOK
  <2> QED
    BY <1>5, <2>1, Frame DEF PublishTimeout, PushTask, TypeParts
<1> QED
  BY <1>1, <1>2, <1>3, <1>4, <1>6, <1>5
  DEF PushTask, PushStep, PublishFails, WebhookPublish, MqttPublishQos0, MqttPublish

LEMMA MqttTaskType ==
  ASSUME TypeParts, MqttTask
  PROVE  TypeParts'
<1>0. UploadTypeOK /\ PushTypeOK /\ MqttTypeOK
  BY DEF TypeParts
<1>1. CASE MqttConnected
  <2>1. MqttTypeOK'
    BY <1>0, <1>1 DEF MqttConnected, MqttTypeOK, MqttTask
  <2> QED
    BY <1>1, <2>1, Frame DEF MqttConnected, MqttTask, TypeParts
<1>2. CASE MqttSubscribed
  <2>1. MqttTypeOK'
    BY <1>0, <1>2 DEF MqttSubscribed, MqttTypeOK, MqttTask
  <2>2. UploadTypeOK' /\ PushTypeOK'
    BY <1>0, <1>2, WakeUploadType, PushWakeType DEF MqttSubscribed
  <2> QED
    BY <1>2, <2>1, <2>2, Frame DEF MqttSubscribed, MqttTask, TypeParts
<1>3. CASE MqttDisconnected
  <2>1. MqttTypeOK'
    BY <1>0, <1>3 DEF MqttDisconnected, LoseConnection, MqttTypeOK, MqttTask
  <2>2. UploadTypeOK' /\ PushTypeOK'
    BY <1>0, <1>3, WakeUploadType, PushWakeType DEF MqttDisconnected
  <2> QED
    BY <1>3, <2>1, <2>2, Frame DEF MqttDisconnected, MqttTask, TypeParts
<1>4. CASE MqttPublished
  <2>1. MqttTypeOK' /\ PushTypeOK'
    BY <1>0, <1>4 DEF MqttPublished, MqttTypeOK, PushTypeOK, MqttTask
  <2> QED
    BY <1>4, <2>1, Frame DEF MqttPublished, MqttTask, TypeParts
<1> QED
  BY <1>1, <1>2, <1>3, <1>4 DEF MqttTask, MqttEvent

-----------------------------------------------------------------------------
(* The network link, the main task and the environment. *)

LEMMA LinkChangeType ==
  ASSUME UploadTypeOK, PushTypeOK, MqttTypeOK, UNCHANGED <<pushNode, upFile>>,
         link' \in {"off", "down", "up"}, PushStart \/ PushStop
  PROVE  UploadTypeOK' /\ PushTypeOK' /\ MqttTypeOK'
<1>1. CASE PushStart
  <2>1. UploadTypeOK' /\ PushTypeOK'
    BY <1>1, WakeUploadType, PushWakeType DEF PushStart, PushTypeOK
  <2>2. MqttTypeOK'
    BY <1>1 DEF PushStart, MqttTypeOK
  <2> QED
    BY <2>1, <2>2
<1>2. CASE PushStop
  <2>1. UploadTypeOK' /\ PushTypeOK'
    BY <1>2, WakeUploadType, PushWakeType DEF PushStop
  <2>2. MqttTypeOK'
    BY <1>2 DEF PushStop, LoseConnection, MqttTypeOK
  <2> QED
    BY <2>1, <2>2
<1> QED
  BY <1>1, <1>2

LEMMA PowerOffType ==
  ASSUME TypeParts, PowerOff
  PROVE  TypeParts'
<1>1. ModeTypeOK' /\ QueueTypeOK' /\ SleepTypeOK'
  BY QueueSizeAssumption
  DEF TypeParts, PowerOff, DevicePowerOff, ModeTypeOK, QueueTypeOK, SleepTypeOK
<1>2. SnapTypeOK' /\ CaptureTypeOK'
  BY DEF TypeParts, PowerOff, CameraPowerOff, SnapTypeOK, SnapState, CaptureTypeOK
<1>3. FlashTypeOK' /\ RecordTypeOK' /\ ReaderTypeOK'
  BY DEF TypeParts, PowerOff, StoragePowerOff, FlashTypeOK, RecordTypeOK, ReaderTypeOK
<1>4. UploadTypeOK'
  BY DEF PowerOff, StoragePowerOff, UploadTypeOK, UploadBusy
<1>5. PushTypeOK'
  BY DEF PowerOff, PushPowerOff, PushTypeOK
<1>6. MqttTypeOK'
  BY DEF TypeParts, PowerOff, MqttPowerOff, MqttTypeOK
<1>7. MainTypeOK'
  BY DEF TypeParts, PowerOff, MainTypeOK, MainPcTypeOK, CaptureTypeOK
<1> QED
  BY <1>1, <1>2, <1>3, <1>4, <1>5, <1>6, <1>7 DEF TypeParts

LEMMA SnapshotCallType ==
  ASSUME TypeParts, NEW c \in Callers, SnapshotCall(c)
  PROVE  SnapTypeOK'
<1>1. Fresh \subseteq Images
  BY DEF Fresh
<1>2. PICK i \in Images : snap' = [snap EXCEPT ![c] = [pc |-> "try", img |-> i, tries |-> TryCount]]
  BY <1>1 DEF SnapshotCall
<1>3. [pc |-> "try", img |-> i, tries |-> TryCount] \in SnapState
  BY CameraAssumption DEF SnapState
<1> QED
  BY <1>2, <1>3 DEF SnapshotCall, SnapTypeOK, TypeParts

LEMMA MainStepType ==
  ASSUME TypeParts, MainStep
  PROVE  TypeParts'
<1>0. /\ ModeTypeOK /\ SleepTypeOK /\ SnapTypeOK /\ UploadTypeOK /\ PushTypeOK /\ MqttTypeOK
      /\ MainTypeOK
  BY DEF TypeParts
<1>1. CASE MainNetOpen
  <2>1. MqttTypeOK'
    BY <1>0, <1>1 DEF MainNetOpen, MqttTypeOK
  <2> QED
    BY <1>1, <2>1, Frame DEF MainNetOpen, TypeParts
<1>2. CASE MainNetReady
  <2>1. MainTypeOK'
    BY <1>0, <1>2 DEF MainNetReady, MainTypeOK, MainPcTypeOK
  <2> QED
    BY <1>2, <2>1, Frame DEF MainNetReady, TypeParts
<1>3. CASE MainCameraInit
  <2>1. CASE CameraInitOK /\ UNCHANGED mainPc
    <3>1. SnapTypeOK'
      BY <1>0, <2>1 DEF CameraInitOK, SnapTypeOK
    <3> QED
      BY <1>3, <2>1, <3>1, Frame DEF MainCameraInit, CameraInitOK, TypeParts
  <2>2. CASE CameraInitFails /\ mainPc' = "snap"
    <3>1. SnapTypeOK'
      BY <1>0, <2>2 DEF CameraInitFails, SnapTypeOK
    <3>2. SleepTypeOK'
      BY <1>0, <2>2, SleepBitType DEF CameraInitFails, SleepBits
    <3>3. MainTypeOK'
      BY <1>0, <1>3, <2>2 DEF MainCameraInit, MainTypeOK, MainPcTypeOK
    <3> QED
      BY <1>3, <2>2, <3>1, <3>2, <3>3, Frame DEF MainCameraInit, CameraInitFails, TypeParts
  <2> QED
    BY <1>3, <2>1, <2>2 DEF MainCameraInit
<1>4. CASE MainCameraOpened
  <2>1. SnapTypeOK'
    BY <1>0, <1>4 DEF MainCameraOpened, CameraOpened, SnapTypeOK
  <2>2. SleepTypeOK'
    BY <1>0, <1>4, SleepBitType DEF MainCameraOpened, CameraOpened, SleepBits
  <2>3. MainTypeOK'
    BY <1>0, <1>4 DEF MainCameraOpened, MainTypeOK, MainPcTypeOK
  <2> QED
    BY <1>4, <2>1, <2>2, <2>3, Frame DEF MainCameraOpened, CameraOpened, TypeParts
<1>5. CASE MainSnapshot
  <2>1. SnapTypeOK'
    BY <1>5, SnapshotCallType, CameraAssumption DEF MainSnapshot
  <2>2. MainTypeOK'
    BY <1>0, <1>5 DEF MainSnapshot, MainTypeOK, MainPcTypeOK
  <2> QED
    BY <1>5, <2>1, <2>2, Frame DEF MainSnapshot, SnapshotCall, TypeParts
<1>6. CASE MainAfterSnapshot
  <2>1. MainTypeOK'
    BY <1>0, <1>6 DEF MainAfterSnapshot, MainTypeOK, MainPcTypeOK
  <2> QED
    BY <1>6, <2>1, Frame DEF MainAfterSnapshot, TypeParts
<1>7. CASE MainCameraClose
  <2>1. SnapTypeOK'
    BY <1>0, <1>7 DEF MainCameraClose, CameraClose, SnapTypeOK
  <2>2. MainTypeOK'
    BY <1>0, <1>7 DEF MainCameraClose, MainTypeOK, MainPcTypeOK
  <2> QED
    BY <1>7, <2>1, <2>2, Frame DEF MainCameraClose, CameraClose, TypeParts
<1>8. CASE MainWork
  <2>1. MainTypeOK'
    BY <1>0, <1>8 DEF MainWork, MainTypeOK, MainPcTypeOK
  <2>2. SleepTypeOK'
    BY <1>0, <1>8, SleepBitType DEF MainWork, SleepBits, SleepTypeOK
  <2>3. UploadTypeOK'
    BY <1>0, <1>8, WakeUploadType DEF MainWork
  <2> QED
    BY <1>8, <2>1, <2>2, <2>3, Frame DEF MainWork, TypeParts
<1>9. CASE MainSleepWait
  <2>1. MainTypeOK'
    BY <1>0, <1>9 DEF MainSleepWait, MainTypeOK, MainPcTypeOK
  <2>2. "upload" \in SleepBits /\ SleepTypeOK
    BY <1>0 DEF SleepBits
  <2>3. SleepTypeOK'
    BY <1>9, <2>2, SleepBitType DEF MainSleepWait
  <2> QED
    BY <1>9, <2>1, <2>3, Frame DEF MainSleepWait, TypeParts
<1>10. CASE MainSleepStart
  <2>1. MainTypeOK'
    BY <1>0, <1>10 DEF MainSleepStart, MainTypeOK, MainPcTypeOK
  <2>2. UploadTypeOK' /\ PushTypeOK' /\ MqttTypeOK'
    BY <1>0, <1>10, LinkChangeType DEF MainSleepStart
  <2> QED
    BY <1>10, <2>1, <2>2, Frame DEF MainSleepStart, TypeParts
<1>11. CASE DeepSleep
  BY <1>11, PowerOffType DEF DeepSleep
<1> QED
  BY <1>1, <1>2, <1>3, <1>4, <1>5, <1>6, <1>7, <1>8, <1>9, <1>10, <1>11 DEF MainStep

LEMMA EnvironmentType ==
  ASSUME TypeParts, Environment
  PROVE  TypeParts'
<1>0. /\ ModeTypeOK /\ SleepTypeOK /\ FlashTypeOK /\ UploadTypeOK /\ PushTypeOK /\ MqttTypeOK
  BY DEF TypeParts
<1>1. CASE UploadTimeout /\ UNCHANGED <<pushVars, mqttVars, mainVars>>
  <2>1. UploadTypeOK'
    BY <1>0, <1>1 DEF UploadTimeout, UploadTypeOK, UploadBusy
  <2> QED
    BY <1>1, <2>1, Frame DEF UploadTimeout, TypeParts
<1>2. CASE ClearFiles /\ UNCHANGED <<pushVars, mqttVars, mainVars>>
  <2>1. FlashTypeOK'
    BY <1>0, <1>2 DEF ClearFiles, Files, FlashTypeOK
  <2> QED
    BY <1>2, <2>1, Frame DEF ClearFiles, TypeParts
<1>3. ASSUME NEW c \in Callers, OtherSnapshot(c) PROVE TypeParts'
  <2>1. SnapTypeOK'
    BY <1>3, SnapshotCallType DEF OtherSnapshot
  <2> QED
    BY <1>3, <2>1, Frame DEF OtherSnapshot, SnapshotCall, TypeParts
<1>4. CASE NoOperation
  <2>1. SleepTypeOK'
    BY <1>0, <1>4, SleepBitType DEF NoOperation, SleepBits
  <2> QED
    BY <1>4, <2>1, Frame DEF NoOperation, TypeParts
<1>5. CASE SetUploadMode
  <2>1. ModeTypeOK'
    BY <1>0, <1>5 DEF SetUploadMode, ModeTypeOK
  <2>2. UploadTypeOK'
    BY <1>0, <1>5, WakeUploadType DEF SetUploadMode
  <2> QED
    BY <1>5, <2>1, <2>2, Frame DEF SetUploadMode, TypeParts
<1>6. CASE LinkUp
  <2>1. UploadTypeOK' /\ PushTypeOK' /\ MqttTypeOK'
    BY <1>0, <1>6, LinkChangeType DEF LinkUp
  <2> QED
    BY <1>6, <2>1, Frame DEF LinkUp, TypeParts
<1>7. CASE LinkDown
  <2>1. UploadTypeOK' /\ PushTypeOK' /\ MqttTypeOK'
    BY <1>0, <1>7, LinkChangeType DEF LinkDown
  <2> QED
    BY <1>7, <2>1, Frame DEF LinkDown, TypeParts
<1>8. CASE MainSleepTimeout
  <2>1. SleepTypeOK'
    BY <1>0, <1>8 DEF MainSleepTimeout, SleepTypeOK
  <2> QED
    BY <1>8, <2>1, Frame DEF MainSleepTimeout, TypeParts
<1>9. CASE ButtonSleep
  BY <1>9, PowerOffType DEF ButtonSleep
<1>10. CASE PowerLoss
  BY <1>10, PowerOffType DEF PowerLoss
<1> QED
  BY <1>1, <1>2, <1>3, <1>4, <1>5, <1>6, <1>7, <1>8, <1>9, <1>10 DEF Environment

-----------------------------------------------------------------------------
(* The whole. *)

LEMMA InitType == Init => TypeParts
<1> SUFFICES ASSUME Init PROVE TypeParts
  OBVIOUS
<1>1. ModeTypeOK /\ QueueTypeOK /\ SleepTypeOK
  BY QueueSizeAssumption DEF Init, DeviceInit, ModeTypeOK, QueueTypeOK, SleepTypeOK
<1>2. FlashTypeOK /\ RecordTypeOK /\ ReaderTypeOK
  BY DEF Init, StorageInit, FlashTypeOK, RecordTypeOK, ReaderTypeOK
<1>3. SnapTypeOK /\ CaptureTypeOK
  BY DEF Init, CameraInit, StorageInit, Files, SnapTypeOK, SnapState, CaptureTypeOK
<1>4. UploadTypeOK /\ PushTypeOK
  BY DEF Init, StorageInit, PushInit, UploadTypeOK, UploadBusy, PushTypeOK
<1>5. MqttTypeOK /\ MainTypeOK
  BY DEF Init, MqttInit, MqttTypeOK, MainTypeOK, MainPcTypeOK
<1> QED
  BY <1>1, <1>2, <1>3, <1>4, <1>5 DEF TypeParts

LEMMA NextType ==
  ASSUME TypeParts, [Next]_vars
  PROVE  TypeParts'
<1>1. CASE MainStep
  BY <1>1, MainStepType
<1>2. ASSUME NEW c \in Callers, CameraTask(c) PROVE TypeParts'
  BY <1>2, SnapshotStepType
<1>3. CASE RecordTask
  BY <1>3, RecordTaskType
<1>4. CASE UploadTask
  BY <1>4, UploadTaskType
<1>5. CASE PushTask
  BY <1>5, PushTaskType
<1>6. CASE MqttTask
  BY <1>6, MqttTaskType
<1>7. CASE Environment
  BY <1>7, EnvironmentType
<1>8. CASE Boot
  <2>1. ModeTypeOK' /\ MainTypeOK'
    BY <1>8 DEF Boot, FirstStep, TypeParts, ModeTypeOK, MainTypeOK, MainPcTypeOK
  <2> QED
    BY <1>8, <2>1, Frame DEF Boot, TypeParts
<1>9. CASE UNCHANGED vars
  BY <1>9, Frame DEF vars, TypeParts
<1> QED
  BY <1>1, <1>2, <1>3, <1>4, <1>5, <1>6, <1>7, <1>8, <1>9 DEF Next, Awake

(* The parts of the type invariant hold in every state: each of main.c,    *)
(* camera.c, storage.c, push.c and mqtt.c keeps its own state well typed.  *)
THEOREM PartsCorrect == Spec => []TypeParts
<1>1. TypeParts /\ [Next]_vars => TypeParts'
  BY NextType
<1> QED
  BY InitType, <1>1, PTL DEF Spec

(* Every variable has its type in every state; in particular neither queue *)
(* of main.c ever holds more nodes than it was created for, and a task of  *)
(* storage.c or push.c that works on an image has one.                     *)
THEOREM TypeCorrect == Spec => []TypeOK
  BY PartsCorrect, TypeOKIsItsParts, PTL

-----------------------------------------------------------------------------
(***************************************************************************)
(* What g_mdStorage.mutex protects.  storage_upload_file holds it from the *)
(* fopen to the fclose of a file, for as long as the MQTT queue is full;   *)
(* storage_record_file_ex holds it while it makes room and writes; and the *)
(* console command "clear" unlinks files without taking it.                *)
(***************************************************************************)

(* ReadIntact alone is not inductive: a record task that is writing, or is *)
(* about to evict, could destroy the file.  That it cannot is the meaning  *)
(* of the mutex, which each task holds at one place only.                  *)
MutexInv ==
  /\ mutex = "upload" <=> upPc = "send"
  /\ mutex = "record" <=> recPc = "write"
  /\ ReadIntact

(* Nothing but the record and upload tasks and "clear" touches a file or   *)
(* the mutex; a bit in the event group moves the upload task, but neither  *)
(* into nor out of its critical section.                                   *)
LEMMA MutexFrame ==
  ASSUME MutexInv, UNCHANGED <<flash, mutex, recPc, upFile>>
  PROVE  /\ UNCHANGED upPc => MutexInv'
         /\ UploadStart => MutexInv'
         /\ UploadStop => MutexInv'
         /\ \A bit \in {"STOP", "DONE"} : FreeStorageNode(bit) => MutexInv'
         /\ \A node : \A bit \in {"STOP", "DONE"} : FreeNode(node, bit) => MutexInv'
<1>1. UNCHANGED upPc => MutexInv'
  BY DEF MutexInv, ReadIntact
<1>2. ASSUME NEW bits, WakeUpload(bits) PROVE MutexInv'
  BY <1>2 DEF MutexInv, ReadIntact, WakeUpload
<1>3. \A bit \in {"STOP", "DONE"} : FreeStorageNode(bit) => MutexInv'
  BY <1>2 DEF FreeStorageNode
<1> QED
  BY <1>1, <1>2, <1>3 DEF UploadStart, UploadStop, FreeNode

LEMMA RecordTaskMutex ==
  ASSUME TypeParts, MutexInv, RecordTask
  PROVE  MutexInv'
<1>1. CASE RecordReceive
  BY <1>1 DEF RecordReceive, MutexInv, ReadIntact
<1>2. CASE RecordOpenFile
  BY <1>2 DEF RecordOpenFile, MutexInv, ReadIntact
<1>3. CASE RecordWriteFile
  BY <1>3 DEF RecordWriteFile, MutexInv, ReadIntact
<1>4. CASE RecordFree
  <2>1. upPc' = "send" <=> upPc = "send"
    BY <1>4 DEF RecordFree, FreeNode, FreeStorageNode, WakeUpload
  <2> QED
    BY <1>4, <2>1 DEF RecordFree, MutexInv, ReadIntact
<1> QED
  BY <1>1, <1>2, <1>3, <1>4 DEF RecordTask, RecordStep

LEMMA UploadTaskMutex ==
  ASSUME TypeParts, MutexInv, UploadTask
  PROVE  MutexInv'
<1>1. CASE UploadPark
  BY <1>1 DEF UploadPark, MutexInv, ReadIntact
<1>2. CASE UploadWaitStart
  BY <1>2 DEF UploadWaitStart, MutexInv, ReadIntact
<1>3. CASE UploadOpenDir
  BY <1>3 DEF UploadOpenDir, MutexInv, ReadIntact
<1>4. CASE UploadNextFile
  BY <1>4 DEF UploadNextFile, MutexInv, ReadIntact
<1>5. CASE UploadEndOfDir
  BY <1>5 DEF UploadEndOfDir, MutexInv, ReadIntact
<1>6. CASE UploadReadFile
  BY <1>6 DEF UploadReadFile, MutexInv, ReadIntact
<1>7. CASE UploadSend
  BY <1>7 DEF UploadSend, MutexInv, ReadIntact
<1>8. CASE UploadAwait
  <2>1. upPc' # "send" /\ UNCHANGED <<flash, mutex, recPc>>
    BY <1>8 DEF UploadAwait
  <2> QED
    BY <1>8, <2>1 DEF UploadAwait, MutexInv, ReadIntact
<1>9. CASE UploadUnlink
  BY <1>9 DEF UploadUnlink, MutexInv, ReadIntact
<1> QED
  BY <1>1, <1>2, <1>3, <1>4, <1>5, <1>6, <1>7, <1>8, <1>9 DEF UploadTask, UploadStep

LEMMA PushTaskMutex ==
  ASSUME MutexInv, PushTask
  PROVE  MutexInv'
<1>1. UNCHANGED <<flash, mutex, recPc, upFile>>
  BY DEF PushTask, PushStep, PushReadyTimeout, PushReceive, PushStore, PushSuccess, PublishFails,
         WebhookPublish, MqttPublishQos0, MqttPublish, PublishTimeout
<1>2. CASE PushSuccess
  BY <1>1, <1>2, MutexFrame DEF PushSuccess
<1>3. CASE ~PushSuccess
  <2>1. UNCHANGED upPc
    BY <1>3 DEF PushTask, PushStep, PushReadyTimeout, PushReceive, PushStore, PublishFails,
                WebhookPublish, MqttPublishQos0, MqttPublish, PublishTimeout
  <2> QED
    BY <1>1, <2>1, MutexFrame
<1> QED
  BY <1>2, <1>3

LEMMA MqttTaskMutex ==
  ASSUME MutexInv, MqttTask
  PROVE  MutexInv'
<1>1. UNCHANGED <<flash, mutex, recPc, upFile>>
  BY DEF MqttTask, MqttEvent, MqttConnected, MqttSubscribed, MqttDisconnected, MqttPublished
<1>2. UNCHANGED upPc \/ UploadStart \/ UploadStop
  BY DEF MqttTask, MqttEvent, MqttConnected, MqttSubscribed, MqttDisconnected, MqttPublished
<1> QED
  BY <1>1, <1>2, MutexFrame

LEMMA PowerOffMutex == PowerOff => MutexInv'
  BY DEF PowerOff, StoragePowerOff, MutexInv, ReadIntact

LEMMA MainStepMutex ==
  ASSUME MutexInv, MainStep
  PROVE  MutexInv'
<1>1. CASE DeepSleep
  BY <1>1, PowerOffMutex DEF DeepSleep
<1>2. CASE ~DeepSleep
  <2>1. UNCHANGED <<flash, mutex, recPc, upFile>>
    BY <1>2 DEF MainStep, MainNetOpen, MainNetReady, MainCameraInit, MainCameraOpened,
                MainSnapshot, MainAfterSnapshot, MainCameraClose, MainWork, MainSleepWait,
                MainSleepStart
  <2>2. UNCHANGED upPc \/ UploadStart \/ UploadStop
    BY <1>2 DEF MainStep, MainNetOpen, MainNetReady, MainCameraInit, MainCameraOpened,
                MainSnapshot, MainAfterSnapshot, MainCameraClose, MainWork, MainSleepWait,
                MainSleepStart, PushStop
  <2> QED
    BY <2>1, <2>2, MutexFrame
<1> QED
  BY <1>1, <1>2

LEMMA EnvironmentMutex ==
  ASSUME TypeParts, MutexInv, Environment
  PROVE  MutexInv'
<1>1. CASE UploadTimeout
  BY <1>1 DEF UploadTimeout, MutexInv, ReadIntact
<1>2. CASE ClearFiles
  <2>1. UNCHANGED <<mutex, recPc, upPc, upFile>>
    BY <1>2 DEF ClearFiles
  <2>2. upPc = "send" => flash'[upFile] = flash[upFile]
    <3>1. HAVE upPc = "send"
    <3>2. upFile \in Images
      BY <3>1 DEF TypeParts, UploadTypeOK, UploadBusy
    <3> QED
      BY <1>2, <3>1, <3>2 DEF ClearFiles
  <2> QED
    BY <2>1, <2>2 DEF MutexInv, ReadIntact
<1>3. CASE ButtonSleep \/ PowerLoss
  BY <1>3, PowerOffMutex DEF ButtonSleep, PowerLoss
<1>4. CASE \E c \in Callers : OtherSnapshot(c)
  BY <1>4, MutexFrame DEF OtherSnapshot
<1>5. CASE NoOperation \/ SetUploadMode \/ LinkUp \/ LinkDown \/ MainSleepTimeout
  <2>1. UNCHANGED <<flash, mutex, recPc, upFile>>
    BY <1>5 DEF NoOperation, SetUploadMode, LinkUp, LinkDown, MainSleepTimeout
  <2>2. UNCHANGED upPc \/ UploadStart \/ UploadStop
    BY <1>5 DEF NoOperation, SetUploadMode, LinkUp, LinkDown, MainSleepTimeout, PushStart, PushStop
  <2> QED
    BY <2>1, <2>2, MutexFrame
<1> QED
  BY <1>1, <1>2, <1>3, <1>4, <1>5 DEF Environment

LEMMA NextMutex ==
  ASSUME TypeParts, MutexInv, [Next]_vars
  PROVE  MutexInv'
<1>1. ASSUME NEW c \in Callers, CameraTask(c) PROVE MutexInv'
  BY <1>1, MutexFrame DEF CameraTask
<1>2. CASE Boot \/ UNCHANGED vars
  BY <1>2, MutexFrame DEF Boot, vars
<1> QED
  BY <1>1, <1>2, MainStepMutex, RecordTaskMutex, UploadTaskMutex, PushTaskMutex, MqttTaskMutex,
     EnvironmentMutex DEF Next, Awake

(* While upload waits for room in the MQTT queue, however long that takes, *)
(* the file it has open is whole: record can neither evict nor rewrite it, *)
(* and "clear" skips it.  This holds under every fault.                    *)
THEOREM ReadStaysIntact == Spec => []ReadIntact
<1>1. Init => MutexInv
  BY DEF Init, StorageInit, MutexInv, ReadIntact
<1>2. TypeParts /\ MutexInv /\ [Next]_vars => MutexInv'
  BY NextMutex
<1>3. MutexInv => ReadIntact
  BY DEF MutexInv
<1> QED
  BY <1>1, <1>2, <1>3, PartsCorrect, PTL DEF Spec

-----------------------------------------------------------------------------
(***************************************************************************)
(* What EVENT_OK means.  MQTT_PUBLISHED_BIT says that some message was     *)
(* acknowledged, not which: as long as no wait for it ends while its       *)
(* message is under way, there is only one it can be.                      *)
(***************************************************************************)

OneInFlight ==
  /\ ~publishedBit
  /\ inflight \subseteq {pushNode.img}
  /\ pushPc # "puback" => inflight = {}
  /\ OkMeansDelivered

NeverLate == "late_ack" \notin Faults /\ (Qos = 0 => "publish" \notin Faults)

LEMMA PublicationFrame ==
  ASSUME OneInFlight,
         \/ UNCHANGED <<pushPc, pushNode>>
         \/ PushReady \/ PushExit,
         UNCHANGED pushNode,
         \/ UNCHANGED <<publishedBit, inflight, delivered>>
         \/ LoseConnection
  PROVE  OneInFlight'
<1>1. pushPc' = pushPc \/ (pushPc = "start" /\ pushPc' = "recv")
  BY DEF PushReady, PushExit
<1>2. /\ publishedBit' = publishedBit /\ inflight' \in {inflight, {}}
      /\ delivered \subseteq delivered'
  BY DEF LoseConnection
<1> QED
  BY <1>1, <1>2 DEF OneInFlight, OkMeansDelivered

LEMMA PushTaskPublishes ==
  ASSUME NeverLate, MqttAssumption, OneInFlight, PushTask
  PROVE  OneInFlight'
<1>1. CASE PushReadyTimeout \/ PushReceive \/ PushStore \/ PushSuccess
  <2>1. UNCHANGED mqttVars
    BY <1>1 DEF PushTask, PushStep, PushReadyTimeout, PushReceive, PushStore, PushSuccess,
                PublishFails, WebhookPublish, MqttPublishQos0, MqttPublish, PublishTimeout
  <2>2. /\ pushPc \notin {"puback"} /\ pushPc' \notin {"puback", "success"}
        /\ UNCHANGED <<publishedBit, inflight>>
    BY <1>1, <2>1 DEF PushReadyTimeout, PushReceive, PushStore, PushSuccess
  <2> QED
    BY <2>2 DEF OneInFlight, OkMeansDelivered
<1>2. CASE PublishFails
  BY <1>2 DEF PublishFails, OneInFlight, OkMeansDelivered
<1>3. CASE WebhookPublish
  BY <1>3 DEF WebhookPublish, OneInFlight, OkMeansDelivered
<1>4. CASE MqttPublishQos0
  BY <1>4 DEF MqttPublishQos0, NeverLate, OneInFlight, OkMeansDelivered
<1>5. CASE MqttPublish
  BY <1>5 DEF MqttPublish, OneInFlight, OkMeansDelivered
<1>6. CASE PublishTimeout
  BY <1>6 DEF PublishTimeout, NeverLate, OneInFlight, OkMeansDelivered
<1> QED
  BY <1>1, <1>2, <1>3, <1>4, <1>5, <1>6 DEF PushTask, PushStep

LEMMA MqttTaskPublishes ==
  ASSUME OneInFlight, MqttTask
  PROVE  OneInFlight'
<1>1. CASE MqttConnected \/ MqttSubscribed \/ MqttDisconnected
  BY <1>1, PublicationFrame DEF MqttConnected, MqttSubscribed, MqttDisconnected
<1>2. CASE MqttPublished
  <2>1. PICK i \in inflight : inflight' = inflight \ {i} /\ delivered' = delivered \cup {i}
    BY <1>2 DEF MqttPublished
  <2>2. i = pushNode.img /\ pushPc = "puback"
    BY <2>1 DEF OneInFlight
  <2>3. pushPc' = "success" /\ ~publishedBit' /\ pushNode' = pushNode
    BY <1>2, <2>2 DEF MqttPublished
  <2> QED
    BY <2>1, <2>2, <2>3 DEF OneInFlight, OkMeansDelivered
<1> QED
  BY <1>1, <1>2 DEF MqttTask, MqttEvent

LEMMA PowerOffPublishes == PowerOff => OneInFlight'
  BY DEF PowerOff, PushPowerOff, MqttPowerOff, OneInFlight, OkMeansDelivered

LEMMA NextPublishes ==
  ASSUME NeverLate, OneInFlight, [Next]_vars
  PROVE  OneInFlight'
<1>1. CASE UNCHANGED <<pushVars, mqttVars>>
  BY <1>1, PublicationFrame
<1>2. CASE MainStep
  <2>1. CASE DeepSleep
    BY <2>1, PowerOffPublishes DEF DeepSleep
  <2>2. CASE MainSleepStart
    BY <2>2, PublicationFrame DEF MainSleepStart, PushStop
  <2> QED
    BY <1>1, <1>2, <2>1, <2>2
       DEF MainStep, MainNetOpen, MainNetReady, MainCameraInit, MainCameraOpened, MainSnapshot,
           MainAfterSnapshot, MainCameraClose, MainWork, MainSleepWait
<1>3. CASE Environment
  <2>1. CASE ButtonSleep \/ PowerLoss
    BY <2>1, PowerOffPublishes DEF ButtonSleep, PowerLoss
  <2>2. CASE LinkUp \/ LinkDown
    BY <2>2, PublicationFrame DEF LinkUp, LinkDown, PushStart, PushStop
  <2> QED
    BY <1>1, <1>3, <2>1, <2>2
       DEF Environment, OtherSnapshot, NoOperation, SetUploadMode, MainSleepTimeout
<1>4. ASSUME NEW c \in Callers, CameraTask(c) PROVE OneInFlight'
  BY <1>1, <1>4 DEF CameraTask
<1>5. CASE RecordTask \/ UploadTask \/ Boot \/ UNCHANGED vars
  BY <1>1, <1>5 DEF RecordTask, UploadTask, Boot, vars
<1> QED
  BY <1>2, <1>3, <1>4, <1>5, PushTaskPublishes, MqttTaskPublishes, MqttAssumption DEF Next, Awake

(* push_task frees a node with EVENT_OK only when its image is at the      *)
(* server, for every number of images and queue slots, unless an answer    *)
(* may come after the wait for it, or QoS 0 loses a message.               *)
THEOREM OkIsDelivered ==
  ASSUME NeverLate
  PROVE  Spec => []OkMeansDelivered
<1>1. Init => OneInFlight
  BY DEF Init, PushInit, MqttInit, OneInFlight, OkMeansDelivered
<1>2. OneInFlight /\ [Next]_vars => OneInFlight'
  BY NextPublishes
<1>3. OneInFlight => OkMeansDelivered
  BY DEF OneInFlight
<1> QED
  BY <1>1, <1>2, <1>3, PTL DEF Spec
=============================================================================
