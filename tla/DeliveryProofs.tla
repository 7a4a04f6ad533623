---------------------------- MODULE DeliveryProofs ----------------------------
(***************************************************************************)
(* No image disappears, for every number of images, queue size and caller. *)
(*                                                                         *)
(* The bits between push, record and upload carry no identity: a DONE says *)
(* that some file was delivered.  It is that of the file the upload task   *)
(* waits for as long as no upload begins while a node of an earlier one is *)
(* still on its way.                                                       *)
(***************************************************************************)
EXTENDS OwnershipProofs, MCImagePipeline, UploadHistory

-----------------------------------------------------------------------------
(***************************************************************************)
(* An upload is begun by the transport when it is up and, in upload mode   *)
(* with scheduled uploads, by the main task.  Where both may begin one,    *)
(* none may be cut short by the network or the upload timeout; elsewhere   *)
(* there is only one in a boot, if the link does not come twice and the    *)
(* web page does not change the upload mode.                               *)
(***************************************************************************)
OneUpload ==
  /\ "config" \notin Modes
  /\ "link_drop" \notin Faults
  /\ "upload" \in Modes /\ 1 \in UploadModes =>
       /\ "disconnect" \notin Faults /\ "upload_timeout" \notin Faults
       /\ PushMode = "webhook" => "nolink" \notin Faults

(* The boot begins an upload from the main task, too. *)
TwoStarts == mode = "upload" /\ uploadMode = 1

LinkInv ==
  /\ link \in {"off", "down"} => client = "none"
  /\ PushMode = "webhook" => client = "none"
  /\ mainPc \in {"off", "stop"} => link = "off"
  /\ mainPc = "off" => upPc = "park" /\ storageBits = {}
  /\ mode \in {"upload", "schedule"} => mainPc \in {"off", "net", "work", "sleep", "wait", "stop"}

(* The transport has begun its upload, or never will. *)
TransportStarted ==
  \/ mainPc = "stop"
  \/ PushMode = "mqtt" /\ client \in {"subscribed", "down"}
  \/ PushMode = "webhook" /\ link = "up"

WorkDone == mainPc \notin {"off", "net", "work"}

Begun == TransportStarted \/ (TwoStarts /\ WorkDone)

NoMoreStarts == TransportStarted /\ (TwoStarts => WorkDone)

Resting == upPc \in {"park", "parked", "wait"}

-----------------------------------------------------------------------------
(* The nodes of the upload task that are on their way. *)

Carries(q, i) ==
  \E k \in 1..Len(q) :
    /\ q[k] = StorageNode(i)
    /\ \A j \in 1..Len(q) : j # k => q[j].from # "storage"

(* Only the node of upFile, in one place. *)
OneOut ==
  \/ /\ Carries(mqttQueue, upFile) /\ NoneIn(storageQueue)
     /\ pushNode.from # "storage" /\ recNode.from # "storage"
  \/ /\ NoneIn(mqttQueue) /\ NoneIn(storageQueue)
     /\ pushNode = StorageNode(upFile) /\ recNode.from # "storage"
  \/ /\ NoneIn(mqttQueue) /\ Carries(storageQueue, upFile)
     /\ pushNode.from # "storage" /\ recNode.from # "storage"
  \/ /\ NoneIn(mqttQueue) /\ NoneIn(storageQueue)
     /\ pushNode.from # "storage" /\ recNode = StorageNode(upFile)

(* Nothing will begin an upload any more, whatever is still on its way. *)
Retired == Resting /\ "START" \notin storageBits /\ NoMoreStarts

BitsInv ==
  /\ "STOP" \in storageBits =>
       \/ upPc = "sent" /\ NoneOut
       \/ "START" \notin storageBits /\ (Resting \/ NoMoreStarts)
  /\ "DONE" \in storageBits => upPc = "sent" /\ upFile \in delivered
  /\ upPc = "await" => "STOP" \notin storageBits

Running ==
  /\ BitsInv
  /\ NoneOut \/ (OneOut /\ upPc \in {"sent", "await"} /\ "DONE" \notin storageBits)
  /\ upPc = "unlink" => upFile \in delivered

SessionInv ==
  /\ ~Resting \/ "START" \in storageBits => Begun
  /\ ~TwoStarts /\ "START" \in storageBits => Resting
  /\ Retired \/ Running

-----------------------------------------------------------------------------
(* The link, the client and the main task. *)

USE DEF deviceVars, cameraVars, flashVars, recVars, upVars, storageVars, pushVars, mqttVars, mainVars

LEMMA ModesUsed ==
  ASSUME OneUpload, TypeParts
  PROVE  /\ mode \in {"snapshot", "schedule", "upload"}
         /\ TwoStarts => /\ "disconnect" \notin Faults /\ "upload_timeout" \notin Faults
                         /\ PushMode = "webhook" => "nolink" \notin Faults
  BY ConfigurationAssumption DEF OneUpload, TypeParts, ModeTypeOK, TwoStarts

LEMMA LinkFrame ==
  ASSUME LinkInv, UNCHANGED <<mode, mainPc, link, client>>, mainPc # "off"
  PROVE  LinkInv'
  BY DEF LinkInv

LEMMA PowerOffLink == PowerOff => LinkInv'
  BY DEF PowerOff, DevicePowerOff, StoragePowerOff, MqttPowerOff, LinkInv

LEMMA MainStepLink ==
  ASSUME OneUpload, TypeParts, LinkInv, mainPc # "off", MainStep
  PROVE  LinkInv'
<1>0. mode \in {"snapshot", "schedule", "upload"}
  BY ModesUsed
<1>1. CASE MainNetOpen
  BY <1>1 DEF MainNetOpen, LinkInv
<1>2. CASE MainNetReady
  BY <1>0, <1>2 DEF MainNetReady, LinkInv
<1>3. CASE MainCameraInit \/ MainCameraOpened \/ MainSnapshot \/ MainAfterSnapshot \/ MainCameraClose
  <2>1. mode = "snapshot" /\ mainPc' \notin {"off", "stop"}
    BY <1>0, <1>3 DEF MainCameraInit, MainCameraOpened, MainSnapshot, MainAfterSnapshot,
                      MainCameraClose, LinkInv
  <2>2. UNCHANGED <<mode, link, client>>
    BY <1>3 DEF MainCameraInit, MainCameraOpened, MainSnapshot, MainAfterSnapshot, MainCameraClose,
                CameraInitOK, CameraInitFails, CameraOpened, CameraClose, SnapshotCall
  <2> QED
    BY <2>1, <2>2 DEF LinkInv
<1>4. CASE MainWork
  BY <1>4 DEF MainWork, LinkInv
<1>5. CASE MainSleepWait
  BY <1>5 DEF MainSleepWait, LinkInv
<1>6. CASE MainSleepStart
  <2>1. client' = "none"
    BY <1>6 DEF MainSleepStart, PushStop, LinkInv
  <2> QED
    BY <1>6, <2>1 DEF MainSleepStart, LinkInv
<1>7. CASE DeepSleep
  BY <1>7, PowerOffLink DEF DeepSleep
<1> QED
  BY <1>1, <1>2, <1>3, <1>4, <1>5, <1>6, <1>7 DEF MainStep

LEMMA NextLink ==
  ASSUME OneUpload, TypeParts, LinkInv, [Next]_vars
  PROVE  LinkInv'
<1>1. CASE UNCHANGED vars
  BY <1>1 DEF vars, LinkInv
<1>2. CASE Boot
  BY <1>2, ModesUsed DEF Boot, FirstStep, LinkInv
<1>3. CASE mainPc # "off" /\ MainStep
  BY <1>3, MainStepLink
<1>4. ASSUME mainPc # "off", NEW c \in Callers, CameraTask(c) PROVE LinkInv'
  BY <1>4, LinkFrame
     DEF CameraTask, SnapshotStep, NoFrame, GrabFrame, SendFrame, QueueIsFull, DropFrame
<1>5. CASE mainPc # "off" /\ RecordTask
  BY <1>5, LinkFrame
     DEF RecordTask, RecordStep, RecordReceive, RecordOpenFile, RecordWriteFile, RecordFree
<1>6. CASE mainPc # "off" /\ UploadTask
  BY <1>6, LinkFrame
     DEF UploadTask, UploadStep, UploadPark, UploadWaitStart, UploadOpenDir, UploadNextFile,
         UploadEndOfDir, UploadReadFile, UploadSend, UploadAwait, UploadUnlink
<1>7. CASE mainPc # "off" /\ PushTask
  BY <1>7, LinkFrame
     DEF PushTask, PushStep, PushReadyTimeout, PushReceive, PushStore, PushSuccess, PublishFails,
         WebhookPublish, MqttPublishQos0, MqttPublish, PublishTimeout
<1>8. CASE mainPc # "off" /\ MqttTask
  BY <1>8
     DEF MqttTask, MqttEvent, MqttConnected, MqttSubscribed, MqttDisconnected, MqttPublished,
         LinkInv
<1>9. CASE mainPc # "off" /\ Environment
  <2>1. CASE ButtonSleep \/ PowerLoss
    BY <2>1, PowerOffLink DEF ButtonSleep, PowerLoss
  <2>2. CASE LinkUp
    BY <1>9, <2>2, MqttAssumption DEF LinkUp, PushStart, LinkInv
  <2>3. CASE LinkDown
    <3>1. link = "down" /\ link' = "down" /\ client = "none" /\ UNCHANGED <<mode, mainPc>>
      BY <2>3 DEF LinkDown, OneUpload, LinkInv
    <3>2. client' = "none"
      BY <2>3, <3>1 DEF LinkDown, PushStop
    <3> QED
      BY <1>9, <3>1, <3>2 DEF LinkInv
  <2>4. CASE SetUploadMode \/ \E c \in Callers : OtherSnapshot(c)
    BY <2>4, ModesUsed DEF SetUploadMode, OtherSnapshot
  <2>5. CASE \/ UploadTimeout /\ UNCHANGED <<pushVars, mqttVars, mainVars>>
             \/ ClearFiles /\ UNCHANGED <<pushVars, mqttVars, mainVars>>
             \/ NoOperation \/ MainSleepTimeout
    BY <1>9, <2>5, LinkFrame DEF UploadTimeout, ClearFiles, NoOperation, MainSleepTimeout
  <2> QED
    BY <1>9, <2>1, <2>2, <2>3, <2>4, <2>5 DEF Environment
<1> QED
  BY <1>1, <1>2, <1>3, <1>4, <1>5, <1>6, <1>7, <1>8, <1>9 DEF Next, Awake

-----------------------------------------------------------------------------
(* Nodes in queues. *)

LEMMA AppendedNone ==
  ASSUME NEW q \in Seq(Node), NoneIn(q), NEW n \in Node
  PROVE  /\ n.from # "storage" => NoneIn(Append(q, n))
         /\ \A i : n = StorageNode(i) => Carries(Append(q, n), i)
<1> DEFINE a == Append(q, n)
<1>1. /\ Len(q) \in Nat /\ Len(a) = Len(q) + 1 /\ a[Len(q) + 1] = n
      /\ \A k \in 1..Len(q) : a[k] = q[k]
  OBVIOUS
<1> HIDE DEF a
<1>2. n.from # "storage" => NoneIn(a)
  BY <1>1 DEF NoneIn
<1>3. ASSUME NEW i, n = StorageNode(i) PROVE Carries(a, i)
  BY <1>1, <1>3 DEF NoneIn, Carries
<1> QED
  BY <1>2, <1>3 DEF a

LEMMA AppendedCarries ==
  ASSUME NEW q \in Seq(Node), NEW i, Carries(q, i), NEW n \in Node, n.from # "storage"
  PROVE  Carries(Append(q, n), i)
<1> DEFINE a == Append(q, n)
<1>1. /\ Len(q) \in Nat /\ Len(a) = Len(q) + 1 /\ a[Len(q) + 1] = n
      /\ \A k \in 1..Len(q) : a[k] = q[k]
  OBVIOUS
<1> HIDE DEF a
<1>2. PICK k \in 1..Len(q) : q[k] = StorageNode(i) /\ \A j \in 1..Len(q) : j # k => q[j].from # "storage"
  BY DEF Carries
<1>3. k \in 1..Len(a) /\ a[k] = StorageNode(i)
  BY <1>1, <1>2
<1>4. \A j \in 1..Len(a) : j # k => a[j].from # "storage"
  BY <1>1, <1>2
<1> QED
  BY <1>3, <1>4 DEF Carries, a

LEMMA TailNone ==
  ASSUME NEW q \in Seq(Node), q # <<>>, NoneIn(q)
  PROVE  NoneIn(Tail(q)) /\ Head(q).from # "storage"
<1> DEFINE t == Tail(q)
<1>1. /\ Len(q) \in Nat \ {0} /\ Len(t) = Len(q) - 1 /\ q[1] = Head(q)
      /\ \A k \in 1..Len(t) : t[k] = q[k + 1]
  OBVIOUS
<1> HIDE DEF t
<1>2. NoneIn(t) /\ Head(q).from # "storage"
  BY <1>1 DEF NoneIn
<1> QED
  BY <1>2 DEF t

LEMMA TailCarries ==
  ASSUME NEW q \in Seq(Node), q # <<>>, NEW i, Carries(q, i)
  PROVE  \/ Head(q) = StorageNode(i) /\ NoneIn(Tail(q))
         \/ Head(q).from # "storage" /\ Carries(Tail(q), i)
<1> DEFINE t == Tail(q)
<1>1. /\ Len(q) \in Nat \ {0} /\ Len(t) = Len(q) - 1 /\ q[1] = Head(q)
      /\ \A k \in 1..Len(t) : t[k] = q[k + 1]
  OBVIOUS
<1> HIDE DEF t
<1>2. PICK k \in 1..Len(q) : q[k] = StorageNode(i) /\ \A j \in 1..Len(q) : j # k => q[j].from # "storage"
  BY DEF Carries
<1>3. CASE k = 1
  <2>1. \A j \in 1..Len(t) : j + 1 \in 1..Len(q) /\ j + 1 # 1
    BY <1>1
  <2>2. NoneIn(t)
    BY <1>1, <1>2, <1>3, <2>1 DEF NoneIn
  <2> QED
    BY <1>1, <1>2, <1>3, <2>2 DEF t
<1>4. CASE k # 1
  <2>1. k - 1 \in 1..Len(t) /\ t[k - 1] = StorageNode(i) /\ Head(q).from # "storage"
    BY <1>1, <1>2, <1>4
  <2>2. \A j \in 1..Len(t) : j # k - 1 => t[j].from # "storage"
    <3>1. ASSUME NEW j \in 1..Len(t), j # k - 1 PROVE j + 1 \in 1..Len(q) /\ j + 1 # k
      BY <1>1, <3>1
    <3> QED
      BY <1>1, <1>2, <3>1
  <2> QED
    BY <2>1, <2>2 DEF Carries, t
<1> QED
  BY <1>3, <1>4

-----------------------------------------------------------------------------
NodeVars == <<mqttQueue, storageQueue, pushNode, recNode>>

LEMMA NodesStay ==
  ASSUME UNCHANGED NodeVars
  PROVE  NoneOut' <=> NoneOut
  BY DEF NodeVars, NoneOut, NoneIn

LEMMA NodeOfFileStays ==
  ASSUME UNCHANGED NodeVars, UNCHANGED upFile
  PROVE  OneOut' <=> OneOut
  BY DEF NodeVars, OneOut, NoneIn, Carries

-----------------------------------------------------------------------------
(* What each task does to the nodes of the upload task. *)

(* Those that are out remain so, and nobody tells the upload task anything. *)
NodesMove ==
  /\ NoneOut => NoneOut'
  /\ OneOut => OneOut'
  /\ ~ReportsDone
  /\ UNCHANGED <<upPc, storageBits, upFile>>

(* One comes to its end, which the upload task is told. *)
NodeEnds(bit) ==
  /\ FreeStorageNode(bit)
  /\ ~NoneOut /\ (OneOut => NoneOut' /\ (bit = "DONE" => pushNode.img = upFile))
  /\ bit = "DONE" <=> ReportsDone
  /\ UNCHANGED upFile

LEMMA NodesRest ==
  ASSUME UNCHANGED NodeVars, UNCHANGED <<upPc, storageBits, upFile>>,
         pushPc # "success" \/ pushPc' # "recv"
  PROVE  NodesMove
  BY NodesStay, NodeOfFileStays DEF NodesMove, ReportsDone

LEMMA CameraTaskNodes ==
  ASSUME TypeParts, NEW c \in Callers, CameraTask(c)
  PROVE  NodesMove
<1>1. UNCHANGED <<upPc, storageBits, upFile, pushPc, pushNode, recNode>>
  BY DEF CameraTask, SnapshotStep, NoFrame, GrabFrame, SendFrame, QueueIsFull, DropFrame
<1>2. CASE UNCHANGED <<mqttQueue, storageQueue>>
  BY <1>1, <1>2, NodesRest DEF NodeVars
<1>3. CASE SendFrame(c)
  <2> DEFINE n == CameraNode(snap[c].img)
  <2>1. n \in Node /\ n.from # "storage"
    <3>1. snap[c] \in SnapState /\ snap[c].pc = "send"
      BY <1>3 DEF SendFrame, TypeParts, SnapTypeOK
    <3>2. snap[c].img \in Images
      BY <3>1 DEF SnapState, NotInSnapshot
    <3> QED
      BY <3>2 DEF CameraNode, Node
  <2>2. \/ mqttQueue' = Append(mqttQueue, n) /\ UNCHANGED storageQueue
        \/ storageQueue' = Append(storageQueue, n) /\ UNCHANGED mqttQueue
    BY <1>3 DEF SendFrame, SendToMqtt, SendToStorage
  <2>3. mqttQueue \in Seq(Node) /\ storageQueue \in Seq(Node)
    BY DEF TypeParts, QueueTypeOK
  <2> HIDE DEF n
  <2>4. /\ NoneIn(mqttQueue) => NoneIn(mqttQueue')
        /\ NoneIn(storageQueue) => NoneIn(storageQueue')
    BY <2>1, <2>2, <2>3, AppendedNone
  <2>5. /\ Carries(mqttQueue, upFile) => Carries(mqttQueue', upFile)
        /\ Carries(storageQueue, upFile) => Carries(storageQueue', upFile)
    BY <2>1, <2>2, <2>3, AppendedCarries
  <2>6. (NoneOut => NoneOut') /\ (OneOut => OneOut')
    BY <1>1, <2>4, <2>5 DEF NoneOut, OneOut
  <2> QED
    BY <1>1, <2>6 DEF NodesMove, ReportsDone
<1> QED
  BY <1>2, <1>3
     DEF CameraTask, SnapshotStep, NoFrame, GrabFrame, QueueIsFull, DropFrame

LEMMA RecordTaskNodes ==
  ASSUME TypeParts, TasksIdle, RecordTask
  PROVE  NodesMove \/ NodeEnds("STOP")
<1>1. UNCHANGED <<upFile, pushPc, pushNode, mqttQueue>>
  BY DEF RecordTask, RecordStep, RecordReceive, RecordOpenFile, RecordWriteFile, RecordFree
<1>2. storageQueue \in Seq(Node) /\ ~ReportsDone
  BY <1>1 DEF TypeParts, QueueTypeOK, ReportsDone
<1>3. CASE RecordReceive
  <2>1. /\ recNode = NoNode /\ storageQueue # <<>>
        /\ recNode' = Head(storageQueue) /\ storageQueue' = Tail(storageQueue)
        /\ UNCHANGED <<upPc, storageBits>>
    BY <1>3 DEF RecordReceive, TasksIdle
  <2>2. NoneIn(storageQueue) => NoneIn(storageQueue') /\ recNode'.from # "storage"
    BY <1>2, <2>1, TailNone
  <2>3. Carries(storageQueue, upFile) =>
          \/ recNode' = StorageNode(upFile) /\ NoneIn(storageQueue')
          \/ recNode'.from # "storage" /\ Carries(storageQueue', upFile)
    BY <1>2, <2>1, TailCarries
  <2>4. recNode # StorageNode(upFile)
    BY <2>1 DEF NoNode, StorageNode
  <2>5. NoneOut => NoneOut'
    BY <1>1, <2>2 DEF NoneOut
  <2>6. OneOut => OneOut'
    BY <1>1, <2>2, <2>3, <2>4 DEF OneOut
  <2> QED
    BY <1>1, <1>2, <2>1, <2>5, <2>6 DEF NodesMove
<1>4. CASE RecordOpenFile \/ RecordWriteFile
  BY <1>1, <1>4, NodesRest DEF RecordOpenFile, RecordWriteFile, NodeVars
<1>5. CASE RecordFree
  <2>1. FreeNode(recNode, "STOP") /\ recNode' = NoNode /\ UNCHANGED storageQueue
    BY <1>5 DEF RecordFree
  <2>2. recNode'.from # "storage" /\ \A i : StorageNode(i).from = "storage"
    BY <2>1 DEF NoNode, StorageNode
  <2>3. CASE recNode.from = "camera" /\ UNCHANGED <<storageBits, upPc>>
    BY <1>1, <1>2, <2>1, <2>2, <2>3 DEF NoneOut, OneOut, NodesMove
  <2>4. CASE recNode.from = "storage" /\ FreeStorageNode("STOP")
    BY <1>1, <1>2, <2>1, <2>2, <2>4 DEF NoneOut, OneOut, NodeEnds
  <2> QED
    BY <2>1, <2>3, <2>4 DEF FreeNode
<1> QED
  BY <1>3, <1>4, <1>5 DEF RecordTask, RecordStep

LEMMA PushTaskNodes ==
  ASSUME TypeParts, TasksIdle, PushTask
  PROVE  NodesMove \/ (pushPc = "success" /\ NodeEnds("DONE"))
<1>1. UNCHANGED <<upFile, recNode>>
  BY DEF PushTask, PushStep, PushReadyTimeout, PushReceive, PushStore, PushSuccess, PublishFails,
         WebhookPublish, MqttPublishQos0, MqttPublish, PublishTimeout
<1>2. mqttQueue \in Seq(Node) /\ storageQueue \in Seq(Node)
  BY DEF TypeParts, QueueTypeOK
<1>3. \A i : StorageNode(i).from = "storage" /\ StorageNode(i).img = i
  BY DEF StorageNode
<1>4. CASE PushReceive
  <2>1. /\ pushNode = NoNode /\ mqttQueue # <<>> /\ pushPc # "success"
        /\ pushNode' = Head(mqttQueue) /\ mqttQueue' = Tail(mqttQueue)
        /\ UNCHANGED <<upPc, storageBits, storageQueue>>
    BY <1>4 DEF PushReceive, TasksIdle
  <2>2. NoneIn(mqttQueue) => NoneIn(mqttQueue') /\ pushNode'.from # "storage"
    BY <1>2, <2>1, TailNone
  <2>3. Carries(mqttQueue, upFile) =>
          \/ pushNode' = StorageNode(upFile) /\ NoneIn(mqttQueue')
          \/ pushNode'.from # "storage" /\ Carries(mqttQueue', upFile)
    BY <1>2, <2>1, TailCarries
  <2>4. pushNode # StorageNode(upFile)
    BY <2>1 DEF NoNode, StorageNode
  <2>5. NoneOut => NoneOut'
    BY <1>1, <2>1, <2>2 DEF NoneOut
  <2>6. OneOut => OneOut'
    BY <1>1, <2>1, <2>2, <2>3, <2>4 DEF OneOut
  <2> QED
    BY <1>1, <2>1, <2>5, <2>6 DEF NodesMove, ReportsDone
<1>5. CASE PushStore
  <2>1. /\ pushNode \in Node /\ pushNode' = NoNode /\ pushPc # "success"
        /\ storageQueue' = Append(storageQueue, pushNode)
        /\ UNCHANGED <<upPc, storageBits, mqttQueue>>
    BY <1>5 DEF PushStore, TypeParts, PushTypeOK
  <2>2. pushNode'.from # "storage"
    BY <2>1 DEF NoNode
  <2>3. pushNode.from # "storage" /\ NoneIn(storageQueue) => NoneIn(storageQueue')
    BY <1>2, <2>1, AppendedNone
  <2>4. pushNode.from # "storage" /\ Carries(storageQueue, upFile) => Carries(storageQueue', upFile)
    BY <1>2, <2>1, AppendedCarries
  <2>5. pushNode = StorageNode(upFile) /\ NoneIn(storageQueue) => Carries(storageQueue', upFile)
    BY <1>2, <2>1, AppendedNone
  <2>6. NoneOut => NoneOut'
    BY <1>1, <2>1, <2>2, <2>3 DEF NoneOut
  <2>7. OneOut => OneOut'
    BY <1>1, <2>1, <2>2, <2>3, <2>4, <2>5 DEF OneOut
  <2> QED
    BY <1>1, <2>1, <2>6, <2>7 DEF NodesMove, ReportsDone
<1>6. CASE PushSuccess
  <2>1. /\ pushPc = "success" /\ pushPc' = "recv"
        /\ FreeNode(pushNode, "DONE") /\ pushNode' = NoNode
        /\ UNCHANGED <<mqttQueue, storageQueue>>
    BY <1>6 DEF PushSuccess
  <2>2. pushNode'.from # "storage"
    BY <2>1 DEF NoNode
  <2>3. CASE pushNode.from = "camera" /\ UNCHANGED <<storageBits, upPc>>
    BY <1>1, <1>3, <2>1, <2>2, <2>3 DEF NoneOut, OneOut, NodesMove, ReportsDone
  <2>4. CASE pushNode.from = "storage" /\ FreeStorageNode("DONE")
    BY <1>1, <1>3, <2>1, <2>2, <2>4 DEF NoneOut, OneOut, NodeEnds, ReportsDone
  <2> QED
    BY <2>1, <2>3, <2>4 DEF FreeNode
<1>7. CASE \/ PushReadyTimeout \/ PublishFails \/ WebhookPublish \/ MqttPublishQos0
           \/ MqttPublish \/ PublishTimeout
  <2>1. /\ UNCHANGED <<upPc, storageBits, mqttQueue, storageQueue, pushNode>>
        /\ pushPc # "success"
    BY <1>7 DEF PushReadyTimeout, PublishFails, WebhookPublish, MqttPublishQos0, MqttPublish,
                PublishTimeout
  <2> QED
    BY <1>1, <2>1, NodesRest DEF NodeVars
<1> QED
  BY <1>4, <1>5, <1>6, <1>7 DEF PushTask, PushStep

(* upload puts its node into the MQTT queue. *)
LEMMA SentNode ==
  ASSUME TypeParts, NoneOut, UploadSend, UNCHANGED pushNode
  PROVE  OneOut'
<1> DEFINE n == StorageNode(upFile)
<1>1. /\ upPc = "send" /\ mqttQueue' = Append(mqttQueue, n)
      /\ UNCHANGED <<upFile, storageQueue, recNode>>
  BY DEF UploadSend
<1>2. mqttQueue \in Seq(Node) /\ n \in Node
  <2>1. upFile \in Images
    BY <1>1 DEF TypeParts, UploadTypeOK, UploadBusy
  <2> QED
    BY <2>1 DEF TypeParts, QueueTypeOK, StorageNode, Node
<1> HIDE DEF n
<1>3. Carries(mqttQueue', upFile)
  <2>1. NoneIn(mqttQueue)
    BY DEF NoneOut
  <2>2. Carries(Append(mqttQueue, n), upFile)
    BY <1>2, <2>1, AppendedNone DEF n
  <2> QED
    BY <1>1, <2>2
<1> QED
  BY <1>1, <1>3 DEF NoneOut, OneOut, NoneIn, Carries

-----------------------------------------------------------------------------
(***************************************************************************)
(* What keeps the sessions apart.  A step that leaves the upload task and  *)
(* its bits alone may move nodes about, and the transport may only have    *)
(* begun more than before.                                                 *)
(***************************************************************************)

Onward ==
  /\ Begun => Begun'
  /\ NoMoreStarts => NoMoreStarts'
  /\ TwoStarts' = TwoStarts
  /\ delivered \subseteq delivered'

LEMMA Kept ==
  ASSUME SessionInv, Onward, UNCHANGED <<upPc, storageBits, upFile>>,
         NoneOut => NoneOut', OneOut => OneOut'
  PROVE  SessionInv'
<1>1. Retired => Retired'
  BY DEF Onward, Retired, Resting
<1>2. Running => Running'
  <2>1. BitsInv /\ (NoneOut => NoneOut') => BitsInv'
    BY DEF Onward, BitsInv, Resting
  <2> QED
    BY <2>1 DEF Onward, Running
<1>3. ~Resting' \/ "START" \in storageBits' => Begun'
  BY DEF Onward, SessionInv, Resting
<1>4. ~TwoStarts' /\ "START" \in storageBits' => Resting'
  BY DEF Onward, SessionInv, Resting
<1> QED
  BY <1>1, <1>2, <1>3, <1>4 DEF SessionInv

(* storage_upload_stop while the last upload of the boot, or none, is on. *)
LEMMA Stopped ==
  ASSUME SessionInv, UploadTypeOK, Onward, UploadStop, UNCHANGED upFile, UNCHANGED NodeVars,
         ~Resting => NoMoreStarts'
  PROVE  SessionInv'
<1>1. /\ NoneOut' <=> NoneOut
      /\ OneOut' <=> OneOut
  BY NodesStay, NodeOfFileStays
<1>2. "START" \notin storageBits' /\ storageBits' \subseteq storageBits \cup {"STOP"}
  BY DEF UploadStop, WakeUpload
<1>3. CASE upPc # "await"
  <2>1. upPc' = upPc
    BY <1>2, <1>3 DEF UploadStop, WakeUpload
  <2>2. Retired => Retired'
    BY <1>2, <2>1 DEF Onward, Retired, Resting
  <2>3. Running => Running'
    <3>1. BitsInv => BitsInv'
      BY <1>1, <1>2, <1>3, <2>1 DEF Onward, BitsInv, Resting
    <3> QED
      BY <1>1, <1>2, <2>1, <3>1 DEF Onward, Running
  <2> QED
    BY <1>2, <2>1, <2>2, <2>3 DEF Onward, SessionInv, Resting
<1>4. CASE upPc = "await"
  <2>1. Running /\ NoMoreStarts'
    BY <1>4 DEF SessionInv, Retired, Resting
  <2>2. "DONE" \notin storageBits
    BY <1>4, <2>1 DEF Running, BitsInv
  <2>3. upPc' = "park"
    BY <1>4, <2>2 DEF UploadStop, WakeUpload
  <2>4. Retired'
    BY <1>2, <2>1, <2>3 DEF Retired, Resting
  <2> QED
    BY <1>2, <2>3, <2>4 DEF SessionInv, Resting
<1> QED
  BY <1>3, <1>4

(* storage_upload_start when no node of an earlier upload is on its way. *)
LEMMA Started ==
  ASSUME SessionInv, UploadTypeOK, UploadStart, ~NoMoreStarts, Begun',
         TwoStarts' = TwoStarts, UNCHANGED <<upFile, delivered>>, UNCHANGED NodeVars
  PROVE  SessionInv'
<1>1. /\ NoneOut' <=> NoneOut
      /\ OneOut' <=> OneOut
  BY NodesStay, NodeOfFileStays
<1>2. Running /\ BitsInv
  BY DEF SessionInv, Retired, Running
<1>3. "STOP" \notin storageBits' /\ storageBits' \subseteq storageBits \cup {"START"}
  BY DEF UploadStart, WakeUpload
<1>4. upPc' = IF upPc = "wait" THEN "open" ELSE upPc
  BY <1>2 DEF UploadStart, WakeUpload, BitsInv
<1>5. upPc = "wait" => "START" \notin storageBits'
  BY DEF UploadStart, WakeUpload
<1>6. BitsInv'
  BY <1>2, <1>3, <1>4 DEF BitsInv
<1>7. Running'
  BY <1>1, <1>2, <1>3, <1>4, <1>6 DEF Running
<1>8. ~TwoStarts' /\ "START" \in storageBits' => Resting'
  <2>1. ~TwoStarts => Resting
    BY DEF SessionInv, Begun, NoMoreStarts
  <2> QED
    BY <1>4, <1>5, <2>1 DEF Resting
<1> QED
  BY <1>7, <1>8 DEF SessionInv

(* storage_queue_node_free of the only node there is, or of any when no    *)
(* upload will begin again.                                                *)
LEMMA Freed ==
  ASSUME SessionInv, UploadTypeOK, Onward, UNCHANGED upFile,
         NEW bit \in {"STOP", "DONE"}, FreeStorageNode(bit),
         ~NoneOut, OneOut => NoneOut' /\ (bit = "DONE" => upFile \in delivered)
  PROVE  SessionInv'
<1>1. CASE Retired
  <2>1. upPc' = upPc /\ "START" \notin storageBits'
    BY <1>1 DEF Retired, Resting, FreeStorageNode, WakeUpload
  <2>2. Retired'
    BY <1>1, <2>1 DEF Onward, Retired, Resting
  <2> QED
    BY <1>1, <2>1, <2>2 DEF SessionInv, Retired, Resting
<1>2. CASE ~Retired
  <2>1. /\ Running /\ OneOut /\ NoneOut' /\ (bit = "DONE" => upFile \in delivered)
        /\ upPc \in {"sent", "await"} /\ "DONE" \notin storageBits
    BY <1>2 DEF SessionInv, Running
  <2>2. CASE upPc = "sent"
    <3>1. upPc' = "sent" /\ storageBits' = storageBits \cup {bit}
      BY <2>2 DEF FreeStorageNode, WakeUpload
    <3>2. BitsInv'
      BY <2>1, <2>2, <3>1 DEF Onward, Running, BitsInv
    <3>3. ~Resting /\ ~Resting'
      BY <2>2, <3>1 DEF Resting
    <3>4. "START" \in storageBits' => "START" \in storageBits
      BY <3>1
    <3> QED
      BY <2>1, <3>1, <3>2, <3>3, <3>4 DEF Onward, SessionInv, Running
  <2>3. CASE upPc = "await"
    <3>1. /\ upPc' = IF bit = "DONE" THEN "unlink" ELSE "park"
          /\ storageBits' = storageBits \ {"DONE", "STOP"}
      BY <2>1, <2>3 DEF FreeStorageNode, WakeUpload
    <3>2. BitsInv'
      BY <3>1 DEF BitsInv
    <3>3. Running'
      BY <2>1, <3>1, <3>2 DEF Onward, Running
    <3>4. ~Resting /\ ("START" \in storageBits' => "START" \in storageBits)
      BY <2>3, <3>1 DEF Resting
    <3> QED
      BY <3>3, <3>4 DEF Onward, SessionInv
  <2> QED
    BY <2>1, <2>2, <2>3
<1> QED
  BY <1>1, <1>2

(* Nothing happens to the nodes, the upload task or its bits. *)
LEMMA Quiet ==
  ASSUME SessionInv, UNCHANGED <<mode, uploadMode>>,
         TransportStarted => TransportStarted', TwoStarts /\ WorkDone => WorkDone',
         delivered \subseteq delivered'
  PROVE  /\ Onward
         /\ UNCHANGED <<upPc, storageBits, upFile>> /\ UNCHANGED NodeVars => SessionInv'
<1>1. Onward
  BY DEF Onward, Begun, NoMoreStarts, TwoStarts
<1>2. ASSUME UNCHANGED NodeVars, UNCHANGED upFile
      PROVE  (NoneOut => NoneOut') /\ (OneOut => OneOut')
  BY <1>2, NodesStay, NodeOfFileStays
<1> QED
  BY <1>1, <1>2, Kept

LEMMA QuietFrame ==
  ASSUME UNCHANGED <<mainPc, client, link>>
  PROVE  /\ TransportStarted => TransportStarted'
         /\ TwoStarts /\ WorkDone => WorkDone'
  BY DEF TransportStarted, WorkDone

-----------------------------------------------------------------------------
(* The tasks that move nodes. *)

LEMMA CameraTaskSession ==
  ASSUME TypeParts, SessionInv, NEW c \in Callers, CameraTask(c)
  PROVE  SessionInv'
<1>1. UNCHANGED <<mainPc, client, link, mode, uploadMode, delivered>>
  BY DEF CameraTask, SnapshotStep, NoFrame, GrabFrame, SendFrame, QueueIsFull, DropFrame
<1>2. Onward
  BY <1>1, Quiet, QuietFrame
<1> QED
  BY <1>2, CameraTaskNodes, Kept DEF NodesMove

LEMMA RecordTaskSession ==
  ASSUME TypeParts, TasksIdle, SessionInv, RecordTask
  PROVE  SessionInv'
<1>1. UNCHANGED <<mainPc, client, link, mode, uploadMode, delivered>>
  BY DEF RecordTask, RecordStep, RecordReceive, RecordOpenFile, RecordWriteFile, RecordFree
<1>2. Onward
  BY <1>1, Quiet, QuietFrame
<1>3. CASE NodesMove
  BY <1>2, <1>3, Kept DEF NodesMove
<1>4. CASE NodeEnds("STOP")
  BY <1>2, <1>4, Freed DEF NodeEnds, TypeParts
<1> QED
  BY <1>3, <1>4, RecordTaskNodes

LEMMA PushTaskSession ==
  ASSUME TypeParts, TasksIdle, OneInFlight, SessionInv, PushTask
  PROVE  SessionInv'
<1>1. /\ UNCHANGED <<mainPc, client, link, mode, uploadMode>>
      /\ delivered \subseteq delivered'
  BY DEF PushTask, PushStep, PushReadyTimeout, PushReceive, PushStore, PushSuccess, PublishFails,
         WebhookPublish, MqttPublishQos0, MqttPublish, PublishTimeout
<1>2. Onward
  BY <1>1, Quiet, QuietFrame
<1>3. CASE NodesMove
  BY <1>2, <1>3, Kept DEF NodesMove
<1>4. CASE pushPc = "success" /\ NodeEnds("DONE")
  <2>1. pushNode.img \in delivered
    BY <1>4 DEF OneInFlight, OkMeansDelivered
  <2> QED
    BY <1>2, <1>4, <2>1, Freed DEF NodeEnds, TypeParts
<1> QED
  BY <1>3, <1>4, PushTaskNodes

-----------------------------------------------------------------------------
(* The upload task. *)

(* It works on the directory: it has no node out, and has had its answer. *)
LEMMA Scans ==
  ASSUME SessionInv, upPc \in {"open", "scan", "lock", "unlink"},
         upPc' \in {"scan", "lock", "send", "park"},
         UNCHANGED <<mode, uploadMode, mainPc, link, client, delivered, storageBits>>,
         UNCHANGED NodeVars
  PROVE  SessionInv'
<1>1. Running /\ NoneOut /\ Begun /\ (~TwoStarts => "START" \notin storageBits)
  BY DEF SessionInv, Retired, Resting, Running
<1>2. /\ NoneOut' /\ Begun' /\ (NoMoreStarts => NoMoreStarts')
      /\ TwoStarts' = TwoStarts
  BY <1>1, NodesStay DEF Begun, NoMoreStarts, TransportStarted, TwoStarts, WorkDone
<1>3. BitsInv'
  BY <1>1, <1>2 DEF Running, BitsInv, Resting
<1> QED
  BY <1>1, <1>2, <1>3 DEF SessionInv, Running

LEMMA UploadTaskSession ==
  ASSUME TypeParts, SessionInv, UploadTask
  PROVE  SessionInv'
<1>1. /\ UNCHANGED <<mode, uploadMode, mainPc, link, client, delivered>>
      /\ UNCHANGED <<storageQueue, pushNode, recNode>>
  BY DEF UploadTask, UploadStep, UploadPark, UploadWaitStart, UploadOpenDir, UploadNextFile,
         UploadEndOfDir, UploadReadFile, UploadSend, UploadAwait, UploadUnlink
<1>2. /\ Begun => Begun'
      /\ NoMoreStarts => NoMoreStarts'
      /\ TwoStarts' = TwoStarts
  BY <1>1 DEF Begun, NoMoreStarts, TransportStarted, TwoStarts, WorkDone
<1>3. CASE UploadPark
  <2>1. upPc = "park" /\ upPc' = "parked" /\ UNCHANGED storageBits /\ UNCHANGED NodeVars
    BY <1>1, <1>3 DEF UploadPark, NodeVars
  <2>2. Retired => Retired'
    BY <1>2, <2>1 DEF Retired, Resting
  <2>3. Running => Running'
    <3>1. Running => NoneOut /\ NoneOut'
      BY <2>1, NodesStay DEF Running
    <3>2. Running => BitsInv'
      BY <2>1 DEF Running, BitsInv, Resting
    <3> QED
      BY <2>1, <3>1, <3>2 DEF Running
  <2> QED
    BY <1>2, <2>1, <2>2, <2>3 DEF SessionInv, Resting
<1>4. CASE UploadWaitStart
  <2>1. /\ upPc = "parked" /\ upPc' = IF "START" \in storageBits THEN "open" ELSE "wait"
        /\ storageBits' = storageBits \ {"START"} /\ UNCHANGED NodeVars
    BY <1>1, <1>4 DEF UploadWaitStart, NodeVars
  <2>2. Running => Running'
    <3>1. Running => NoneOut /\ NoneOut'
      BY <2>1, NodesStay DEF Running
    <3>2. Running => BitsInv'
      BY <2>1 DEF Running, BitsInv, Resting
    <3> QED
      BY <2>1, <3>1, <3>2 DEF Running
  <2>3. CASE "START" \in storageBits
    BY <1>2, <2>1, <2>2, <2>3 DEF SessionInv, Retired
  <2>4. CASE "START" \notin storageBits
    <3>1. Retired => Retired'
      BY <1>2, <2>1, <2>4 DEF Retired, Resting
    <3> QED
      BY <2>1, <2>2, <2>4, <3>1 DEF SessionInv, Resting
  <2> QED
    BY <2>3, <2>4
<1>5. CASE UploadOpenDir \/ UploadNextFile \/ UploadEndOfDir \/ UploadReadFile \/ UploadUnlink
  <2>1. /\ upPc \in {"open", "scan", "lock", "unlink"} /\ upPc' \in {"scan", "lock", "send", "park"}
        /\ UNCHANGED storageBits /\ UNCHANGED NodeVars
    BY <1>1, <1>5 DEF UploadOpenDir, UploadNextFile, UploadEndOfDir, UploadReadFile, UploadUnlink, NodeVars
  <2> QED
    BY <1>1, <2>1, Scans
<1>6. CASE UploadSend
  <2>1. upPc = "send" /\ upPc' = "sent" /\ UNCHANGED <<storageBits, upFile>>
    BY <1>6 DEF UploadSend
  <2>2. /\ Running /\ NoneOut /\ Begun /\ (~TwoStarts => "START" \notin storageBits)
        /\ "DONE" \notin storageBits
    BY <2>1 DEF SessionInv, Retired, Resting, Running, BitsInv
  <2>3. OneOut'
    BY <1>1, <1>6, <2>2, SentNode
  <2>4. BitsInv'
    BY <1>2, <2>1, <2>2 DEF Running, BitsInv, Resting
  <2> QED
    BY <1>2, <2>1, <2>2, <2>3, <2>4 DEF SessionInv, Running
<1>7. CASE UploadAwait
  <2>1. upPc = "sent" /\ UNCHANGED upFile /\ UNCHANGED NodeVars
    BY <1>1, <1>7 DEF UploadAwait, NodeVars
  <2>2. /\ Running /\ BitsInv /\ Begun /\ (~TwoStarts => "START" \notin storageBits)
    BY <2>1 DEF SessionInv, Retired, Resting, Running
  <2>3. /\ NoneOut' <=> NoneOut
        /\ OneOut' <=> OneOut
    BY <2>1, NodesStay, NodeOfFileStays
  <2>4. CASE "DONE" \in storageBits
    <3>1. upPc' = "unlink" /\ storageBits' = storageBits \ {"DONE", "STOP"}
      BY <1>7, <2>4 DEF UploadAwait
    <3>2. NoneOut' /\ upFile' \in delivered'
      BY <1>1, <2>1, <2>2, <2>3, <2>4 DEF Running, BitsInv
    <3>3. BitsInv'
      BY <3>1 DEF BitsInv
    <3> QED
      BY <1>2, <2>2, <3>1, <3>2, <3>3 DEF SessionInv, Running
  <2>5. CASE "DONE" \notin storageBits /\ "STOP" \in storageBits
    <3>1. upPc' = "park" /\ storageBits' = storageBits \ {"DONE", "STOP"}
      BY <1>7, <2>5 DEF UploadAwait
    <3>2. CASE NoneOut
      <4>1. BitsInv'
        BY <3>1 DEF BitsInv
      <4> QED
        BY <1>2, <2>2, <2>3, <3>1, <3>2, <4>1 DEF SessionInv, Running
    <3>3. CASE ~NoneOut
      <4>1. "START" \notin storageBits /\ NoMoreStarts
        BY <2>1, <2>2, <2>5, <3>3 DEF BitsInv, Resting
      <4>2. Retired'
        BY <1>2, <3>1, <4>1 DEF Retired, Resting
      <4> QED
        BY <1>2, <2>2, <3>1, <4>1, <4>2 DEF SessionInv
    <3> QED
      BY <3>2, <3>3
  <2>6. CASE "DONE" \notin storageBits /\ "STOP" \notin storageBits
    <3>1. upPc' = "await" /\ UNCHANGED storageBits
      BY <1>7, <2>6 DEF UploadAwait
    <3>2. BitsInv'
      BY <2>6, <3>1 DEF BitsInv
    <3>3. Running'
      BY <2>1, <2>2, <2>3, <2>6, <3>1, <3>2 DEF Running
    <3> QED
      BY <1>2, <2>2, <3>1, <3>3 DEF SessionInv
  <2> QED
    BY <2>4, <2>5, <2>6
<1> QED
  BY <1>3, <1>4, <1>5, <1>6, <1>7 DEF UploadTask, UploadStep

LEMMA UploadTimeoutSession ==
  ASSUME OneUpload, TypeParts, SessionInv, UploadTimeout, UNCHANGED <<pushVars, mqttVars, mainVars>>
  PROVE  SessionInv'
<1>1. /\ upPc = "await" /\ upPc' = "park" /\ ~TwoStarts
      /\ UNCHANGED <<mode, uploadMode, mainPc, link, client, storageBits>>
  BY ModesUsed DEF UploadTimeout
<1>2. NoMoreStarts /\ Begun /\ "START" \notin storageBits
  BY <1>1 DEF SessionInv, Resting, Begun, NoMoreStarts
<1>3. NoMoreStarts' /\ Begun'
  BY <1>1, <1>2 DEF Begun, NoMoreStarts, TransportStarted, TwoStarts, WorkDone
<1> QED
  BY <1>1, <1>2, <1>3 DEF SessionInv, Retired, Resting

-----------------------------------------------------------------------------
(* The transport *)

LEMMA MqttTaskSession ==
  ASSUME OneUpload, TypeParts, LinkInv, SessionInv, MqttTask
  PROVE  SessionInv'
<1>1. /\ UNCHANGED <<mode, uploadMode, mainPc, link, upFile>> /\ UNCHANGED NodeVars
      /\ delivered \subseteq delivered'
  BY DEF MqttTask, MqttEvent, MqttConnected, MqttSubscribed, MqttDisconnected, MqttPublished,
         LoseConnection, NodeVars
<1>2. UploadTypeOK /\ TwoStarts' = TwoStarts
  BY <1>1 DEF TypeParts, TwoStarts
<1>3. client # "none" => PushMode = "mqtt" /\ mainPc # "stop"
  BY MqttAssumption DEF LinkInv
<1>4. CASE MqttConnected \/ MqttPublished
  <2>1. UNCHANGED <<upPc, storageBits>> /\ (client' = client \/ client = "connecting")
    BY <1>4 DEF MqttConnected, MqttPublished
  <2>2. TransportStarted => TransportStarted'
    BY <1>1, <2>1 DEF TransportStarted
  <2>3. TwoStarts /\ WorkDone => WorkDone'
    BY <1>1 DEF WorkDone
  <2> QED
    BY <1>1, <2>1, <2>2, <2>3, Quiet
<1>5. CASE MqttSubscribed
  <2>1. client = "connected" /\ client' = "subscribed" /\ UploadStart /\ UNCHANGED delivered
    BY <1>5 DEF MqttSubscribed
  <2>2. ~NoMoreStarts /\ Begun'
    BY <1>3, <2>1 DEF NoMoreStarts, Begun, TransportStarted
  <2> QED
    BY <1>1, <1>2, <2>1, <2>2, Started
<1>6. CASE MqttDisconnected
  <2>1. /\ client # "none" /\ client' = "down" /\ UploadStop
        /\ client = "connecting" \/ "disconnect" \in Faults
    BY <1>6 DEF MqttDisconnected
  <2>2. TransportStarted' /\ Begun'
    BY <1>3, <2>1 DEF TransportStarted, Begun
  <2>3. WorkDone' = WorkDone
    BY <1>1 DEF WorkDone
  <2>4. Onward
    BY <1>1, <1>2, <2>2, <2>3 DEF Onward, NoMoreStarts
  <2>5. TwoStarts => client = "connecting"
    BY <2>1, ModesUsed
  <2>6. TwoStarts => ~TransportStarted
    BY <1>3, <2>5 DEF TransportStarted
  <2>7. ~Resting => NoMoreStarts'
    BY <1>2, <2>2, <2>3, <2>6 DEF SessionInv, Begun, NoMoreStarts
  <2> QED
    BY <1>1, <1>2, <2>1, <2>4, <2>7, Stopped
<1> QED
  BY <1>4, <1>5, <1>6 DEF MqttTask, MqttEvent

LEMMA LinkUpSession ==
  ASSUME TypeParts, LinkInv, SessionInv, LinkUp
  PROVE  SessionInv'
<1>1. /\ UNCHANGED <<mode, uploadMode, mainPc, upFile, delivered>> /\ UNCHANGED NodeVars
      /\ link = "down" /\ link' = "up" /\ client = "none" /\ mainPc # "stop"
  BY DEF LinkUp, PushStart, NodeVars, LinkInv
<1>2. ~TransportStarted /\ UploadTypeOK /\ TwoStarts' = TwoStarts
  BY <1>1 DEF TransportStarted, TypeParts, TwoStarts
<1>3. CASE PushMode = "webhook" /\ UploadStart
  <2>1. ~NoMoreStarts /\ Begun'
    BY <1>1, <1>2, <1>3 DEF NoMoreStarts, Begun, TransportStarted
  <2> QED
    BY <1>1, <1>2, <1>3, <2>1, Started
<1>4. CASE UNCHANGED <<storageBits, upPc>>
  <2>1. TwoStarts /\ WorkDone => WorkDone'
    BY <1>1 DEF WorkDone
  <2> QED
    BY <1>1, <1>2, <1>4, <2>1, Quiet
<1> QED
  BY <1>3, <1>4 DEF LinkUp, PushStart

LEMMA LinkDownSession ==
  ASSUME OneUpload, TypeParts, LinkInv, SessionInv, LinkDown
  PROVE  SessionInv'
<1>1. /\ UNCHANGED <<mode, uploadMode, mainPc, upFile>> /\ UNCHANGED NodeVars
      /\ link = "down" /\ link' = "down" /\ "nolink" \in Faults
      /\ client = "none" /\ mainPc # "stop"
  BY DEF LinkDown, NodeVars, LinkInv, OneUpload
<1>2. ~TransportStarted /\ UploadTypeOK /\ TwoStarts' = TwoStarts
  BY <1>1 DEF TransportStarted, TypeParts, TwoStarts
<1>3. /\ UNCHANGED <<client, delivered>>
      /\ \/ PushMode = "webhook" /\ UploadStop
         \/ UNCHANGED <<storageBits, upPc>>
  BY <1>1 DEF LinkDown, PushStop
<1>4. Onward
  <2>1. TwoStarts /\ WorkDone => WorkDone'
    BY <1>1 DEF WorkDone
  <2> QED
    BY <1>1, <1>2, <1>3, <2>1, Quiet
<1>5. CASE PushMode = "webhook" /\ UploadStop
  <2>1. ~TwoStarts
    BY <1>1, <1>5, ModesUsed
  <2>2. Resting
    BY <1>2, <2>1 DEF SessionInv, Begun
  <2> QED
    BY <1>1, <1>2, <1>4, <1>5, <2>2, Stopped
<1>6. CASE UNCHANGED <<storageBits, upPc>>
  <2>1. TwoStarts /\ WorkDone => WorkDone'
    BY <1>1 DEF WorkDone
  <2> QED
    BY <1>1, <1>2, <1>3, <1>6, <2>1, Quiet
<1> QED
  BY <1>3, <1>5, <1>6

-----------------------------------------------------------------------------
(* The main task and power *)

LEMMA PowerOffSession == PowerOff => SessionInv'
<1> SUFFICES ASSUME PowerOff PROVE SessionInv'
  OBVIOUS
<1>1. /\ mqttQueue' = <<>> /\ storageQueue' = <<>> /\ storageBits' = {} /\ upPc' = "park"
      /\ recNode' = NoNode /\ pushNode' = NoNode
  BY DEF PowerOff, DevicePowerOff, StoragePowerOff, PushPowerOff
<1>2. NoneOut'
  BY <1>1 DEF NoneOut, NoneIn, NoNode
<1>3. BitsInv'
  BY <1>1 DEF BitsInv
<1> QED
  BY <1>1, <1>2, <1>3 DEF SessionInv, Running, Resting

LEMMA BootSession ==
  ASSUME LinkInv, SessionInv, Boot
  PROVE  SessionInv'
<1>1. /\ mainPc = "off" /\ link = "off" /\ client = "none" /\ upPc = "park" /\ storageBits = {}
      /\ UNCHANGED <<upPc, storageBits>> /\ UNCHANGED NodeVars
  BY DEF Boot, LinkInv, NodeVars
<1>2. ~Retired
  BY <1>1 DEF Retired, NoMoreStarts, TransportStarted
<1>3. NoneOut'
  BY <1>1, <1>2, NodesStay DEF SessionInv, Running
<1>4. BitsInv'
  BY <1>1 DEF BitsInv
<1> QED
  BY <1>1, <1>3, <1>4 DEF SessionInv, Running, Resting

LEMMA MainMovesSession ==
  ASSUME OneUpload, TypeParts, LinkInv, SessionInv, mainPc # "off",
         \/ MainNetOpen \/ MainNetReady \/ MainCameraInit \/ MainCameraOpened \/ MainSnapshot
         \/ MainAfterSnapshot \/ MainCameraClose \/ MainSleepWait
  PROVE  SessionInv'
<1>1. /\ UNCHANGED <<mode, uploadMode, client, delivered, upPc, storageBits, upFile>>
      /\ UNCHANGED NodeVars
  BY DEF MainNetOpen, MainNetReady, MainCameraInit, MainCameraOpened, MainSnapshot,
         MainAfterSnapshot, MainCameraClose, MainSleepWait, CameraInitOK, CameraInitFails,
         CameraOpened, CameraClose, SnapshotCall, NodeVars
<1>2. TransportStarted => TransportStarted'
  <2>1. mainPc # "stop" /\ (link' = link \/ link = "off")
    BY DEF MainNetOpen, MainNetReady, MainCameraInit, MainCameraOpened, MainSnapshot,
           MainAfterSnapshot, MainCameraClose, MainSleepWait
  <2> QED
    BY <1>1, <2>1 DEF TransportStarted
<1>3. TwoStarts /\ WorkDone => WorkDone'
  <2>1. TwoStarts => mainPc \in {"off", "net", "work", "sleep", "wait", "stop"}
    BY DEF TwoStarts, LinkInv
  <2>2. CASE MainSleepWait
    BY <2>2 DEF MainSleepWait, WorkDone
  <2>3. CASE ~MainSleepWait
    <3>1. TwoStarts => mainPc = "net"
      BY <2>1, <2>3
         DEF MainNetOpen, MainNetReady, MainCameraInit, MainCameraOpened, MainSnapshot,
             MainAfterSnapshot, MainCameraClose
    <3> QED
      BY <3>1 DEF WorkDone
  <2> QED
    BY <2>2, <2>3
<1> QED
  BY <1>1, <1>2, <1>3, Quiet

LEMMA MainWorkSession ==
  ASSUME TypeParts, LinkInv, SessionInv, MainWork
  PROVE  SessionInv'
<1>1. /\ mainPc = "work" /\ mainPc' = "sleep"
      /\ UNCHANGED <<mode, uploadMode, link, client, delivered, upFile>> /\ UNCHANGED NodeVars
  BY DEF MainWork, NodeVars
<1>2. ~WorkDone /\ WorkDone'
  BY <1>1 DEF WorkDone
<1>3. UploadTypeOK /\ TwoStarts' = TwoStarts
  BY <1>1 DEF TypeParts, TwoStarts
<1>4. CASE TwoStarts /\ UploadStart
  <2>1. ~NoMoreStarts /\ Begun'
    BY <1>2, <1>3, <1>4 DEF NoMoreStarts, Begun
  <2> QED
    BY <1>1, <1>3, <1>4, <2>1, Started
<1>5. CASE UNCHANGED <<storageBits, upPc>>
  <2>1. TransportStarted => TransportStarted'
    BY <1>1 DEF TransportStarted
  <2> QED
    BY <1>1, <1>2, <1>5, <2>1, Quiet
<1> QED
  BY <1>4, <1>5 DEF MainWork, TwoStarts

LEMMA MainSleepStartSession ==
  ASSUME TypeParts, SessionInv, MainSleepStart
  PROVE  SessionInv'
<1>1. /\ mainPc' = "stop" /\ PushStop
      /\ UNCHANGED <<mode, uploadMode, upFile>> /\ UNCHANGED NodeVars
  BY DEF MainSleepStart, NodeVars
<1>2. TransportStarted' /\ WorkDone' /\ UploadTypeOK /\ TwoStarts' = TwoStarts
  BY <1>1 DEF TransportStarted, WorkDone, TypeParts, TwoStarts
<1>3. NoMoreStarts' /\ Begun'
  BY <1>2 DEF NoMoreStarts, Begun
<1>4. /\ delivered \subseteq delivered'
      /\ UploadStop \/ UNCHANGED <<storageBits, upPc>>
  BY <1>1 DEF PushStop, LoseConnection
<1>5. Onward
  BY <1>2, <1>3, <1>4 DEF Onward
<1>6. CASE UploadStop
  BY <1>1, <1>2, <1>3, <1>5, <1>6, Stopped
<1>7. CASE UNCHANGED <<storageBits, upPc>>
  BY <1>1, <1>2, <1>4, <1>7, Quiet
<1> QED
  BY <1>4, <1>6, <1>7

LEMMA MainStepSession ==
  ASSUME OneUpload, TypeParts, LinkInv, SessionInv, mainPc # "off", MainStep
  PROVE  SessionInv'
<1>1. CASE DeepSleep
  BY <1>1, PowerOffSession DEF DeepSleep
<1> QED
  BY <1>1, MainMovesSession, MainWorkSession, MainSleepStartSession DEF MainStep

LEMMA EnvironmentSession ==
  ASSUME OneUpload, TypeParts, LinkInv, SessionInv, mainPc # "off", Environment
  PROVE  SessionInv'
<1>1. CASE ButtonSleep \/ PowerLoss
  BY <1>1, PowerOffSession DEF ButtonSleep, PowerLoss
<1>2. CASE \/ ClearFiles /\ UNCHANGED <<pushVars, mqttVars, mainVars>>
           \/ NoOperation \/ MainSleepTimeout
  <2>1. /\ UNCHANGED <<mode, uploadMode, mainPc, link, client, delivered, upPc, storageBits, upFile>>
        /\ UNCHANGED NodeVars
    BY <1>2 DEF ClearFiles, NoOperation, MainSleepTimeout, NodeVars
  <2> QED
    BY <2>1, Quiet, QuietFrame
<1>3. CASE SetUploadMode \/ \E c \in Callers : OtherSnapshot(c)
  BY <1>3, ModesUsed DEF SetUploadMode, OtherSnapshot
<1> QED
  BY <1>1, <1>2, <1>3, UploadTimeoutSession, LinkUpSession, LinkDownSession DEF Environment

LEMMA NextSession ==
  ASSUME OneUpload, TypeParts, LinkInv, OneInFlight, TasksIdle, SessionInv, [Next]_vars
  PROVE  SessionInv'
<1>1. CASE UNCHANGED vars
  <2>1. /\ UNCHANGED <<mode, uploadMode, mainPc, link, client, delivered, upPc, storageBits, upFile>>
        /\ UNCHANGED NodeVars
    BY <1>1 DEF vars, NodeVars
  <2> QED
    BY <2>1, Quiet, QuietFrame
<1>2. CASE mainPc # "off" /\ Awake
  <2>1. ASSUME NEW c \in Callers, CameraTask(c) PROVE SessionInv'
    BY <2>1, CameraTaskSession
  <2> QED
    BY <1>2, <2>1, MainStepSession, RecordTaskSession, UploadTaskSession, PushTaskSession,
       MqttTaskSession, EnvironmentSession DEF Awake
<1> QED
  BY <1>1, <1>2, BootSession DEF Next

LEMMA InitSession == Init => SessionInv /\ LinkInv
<1> SUFFICES ASSUME Init PROVE SessionInv /\ LinkInv
  OBVIOUS
<1>1. /\ mqttQueue = <<>> /\ storageQueue = <<>> /\ storageBits = {} /\ upPc = "park"
      /\ recNode = NoNode /\ pushNode = NoNode
      /\ mainPc = "off" /\ link = "off" /\ client = "none"
  BY DEF Init, DeviceInit, StorageInit, PushInit, MqttInit
<1>2. NoneOut
  BY <1>1 DEF NoneOut, NoneIn, NoNode
<1>3. BitsInv
  BY <1>1 DEF BitsInv
<1> QED
  BY <1>1, <1>2, <1>3 DEF SessionInv, Running, Resting, LinkInv

DeliveryInv == LinkInv /\ OneInFlight /\ SessionInv

THEOREM SessionsCorrect ==
  ASSUME NeverLate, OneUpload
  PROVE  Spec => []DeliveryInv
<1>1. Init => DeliveryInv
  BY InitSession DEF Init, PushInit, MqttInit, OneInFlight, OkMeansDelivered, DeliveryInv
<1>2. TypeParts /\ OwnerInv /\ DeliveryInv /\ [Next]_vars => DeliveryInv'
  BY NextLink, NextPublishes, NextSession DEF DeliveryInv, OwnerInv
<1> QED
  BY <1>1, <1>2, PartsCorrect, OwnersCorrect, PTL DEF Spec

(* Then a file is unlinked only after it was delivered. *)
UnlinksOnlyDelivered == upPc = "unlink" => upFile \in delivered

LEMMA UnlinksAfterDelivery ==
  ASSUME NeverLate, OneUpload
  PROVE  Spec => []UnlinksOnlyDelivered
<1>1. DeliveryInv => UnlinksOnlyDelivered
  BY DEF DeliveryInv, SessionInv, Retired, Resting, Running, UnlinksOnlyDelivered
<1> QED
  BY <1>1, SessionsCorrect, PTL

-----------------------------------------------------------------------------
(***************************************************************************)
(* Whose DONE it is, in every mode and with every fault.  As long as the   *)
(* upload task has given up no node on its way, the only node that is out  *)
(* is that of the file it waits for, and a DONE that is set is about it.   *)
(***************************************************************************)

Clean ==
  /\ NoneOut \/ (OneOut /\ upPc \in {"sent", "await"} /\ "DONE" \notin storageBits)
  /\ "DONE" \in storageBits => upPc = "sent" /\ answered = upFile
  /\ upPc = "unlink" => answered = upFile

AnswerInv == gaveUp \/ Clean

(* What Remember says of a step while the device stays awake. *)
Remembers ==
  /\ gaveUp' = (gaveUp \/ GivesUp)
  /\ answered' = IF ReportsDone THEN pushNode.img ELSE answered

LEMMA StillGaveUp == ASSUME Remembers, gaveUp PROVE AnswerInv'
  BY DEF Remembers, AnswerInv

LEMMA AnswerKept ==
  ASSUME AnswerInv, Remembers, NodesMove
  PROVE  AnswerInv'
<1>1. CASE gaveUp
  BY <1>1, StillGaveUp
<1>2. CASE Clean
  <2>1. answered' = answered /\ UNCHANGED <<upPc, storageBits, upFile>>
    BY DEF Remembers, NodesMove
  <2>2. Clean'
    BY <1>2, <2>1 DEF NodesMove, Clean
  <2> QED
    BY <2>2 DEF AnswerInv
<1> QED
  BY <1>1, <1>2 DEF AnswerInv

(* START or STOP reaches the upload task, from the transport or the web. *)
LEMMA AnswerSignalled ==
  ASSUME AnswerInv, Remembers, UNCHANGED NodeVars, UNCHANGED upFile, ~ReportsDone,
         NEW bits, "DONE" \in bits <=> "DONE" \in storageBits, WakeUpload(bits)
  PROVE  AnswerInv'
<1>1. CASE gaveUp
  BY <1>1, StillGaveUp
<1>2. CASE Clean
  <2>1. /\ answered' = answered
        /\ NoneOut' <=> NoneOut
        /\ OneOut' <=> OneOut
    BY NodesStay, NodeOfFileStays DEF Remembers
  <2>2. CASE upPc = "wait" /\ upPc' = "open" /\ storageBits' = bits \ {"START"}
    <3>1. Clean'
      BY <1>2, <2>1, <2>2 DEF Clean
    <3> QED
      BY <3>1 DEF AnswerInv
  <2>3. CASE upPc = "await" /\ storageBits' = bits \ {"DONE", "STOP"}
             /\ upPc' = IF "DONE" \in bits THEN "unlink" ELSE "park"
    <3>1. upPc' = "park"
      BY <1>2, <2>3 DEF Clean
    <3>2. CASE NoneOut
      <4>1. Clean'
        BY <2>1, <2>3, <3>1, <3>2 DEF Clean
      <4> QED
        BY <4>1 DEF AnswerInv
    <3>3. CASE ~NoneOut
      <4>1. GivesUp
        BY <2>1, <2>3, <3>1, <3>3 DEF GivesUp
      <4> QED
        BY <4>1 DEF Remembers, AnswerInv
    <3> QED
      BY <3>2, <3>3
  <2>4. CASE upPc' = upPc /\ storageBits' = bits
    <3>1. Clean'
      BY <1>2, <2>1, <2>4 DEF Clean
    <3> QED
      BY <3>1 DEF AnswerInv
  <2> QED
    BY <2>2, <2>3, <2>4 DEF WakeUpload
<1> QED
  BY <1>1, <1>2 DEF AnswerInv

LEMMA AnswerStartStop ==
  ASSUME AnswerInv, Remembers, UNCHANGED NodeVars, UNCHANGED upFile,
         pushPc # "success" \/ pushPc' # "recv",
         UploadStart \/ UploadStop \/ UNCHANGED <<storageBits, upPc>>
  PROVE  AnswerInv'
<1>1. ~ReportsDone
  BY DEF ReportsDone
<1>2. CASE UploadStart
  <2>1. "DONE" \in (storageBits \ {"STOP"}) \cup {"START"} <=> "DONE" \in storageBits
    OBVIOUS
  <2> QED
    BY <1>1, <1>2, <2>1, AnswerSignalled DEF UploadStart
<1>3. CASE UploadStop
  <2>1. "DONE" \in (storageBits \ {"START"}) \cup {"STOP"} <=> "DONE" \in storageBits
    OBVIOUS
  <2> QED
    BY <1>1, <1>3, <2>1, AnswerSignalled DEF UploadStop
<1>4. CASE UNCHANGED <<storageBits, upPc>>
  BY <1>4, NodesRest, AnswerKept
<1> QED
  BY <1>2, <1>3, <1>4

(* push or record free the node of the upload task. *)
LEMMA AnswerFreed ==
  ASSUME AnswerInv, Remembers, NEW bit \in {"STOP", "DONE"}, NodeEnds(bit)
  PROVE  AnswerInv'
<1>1. CASE gaveUp
  BY <1>1, StillGaveUp
<1>2. CASE Clean
  <2>1. /\ OneOut /\ NoneOut' /\ upPc \in {"sent", "await"} /\ "DONE" \notin storageBits
        /\ upFile' = upFile
        /\ bit = "DONE" => answered' = upFile'
    BY <1>2 DEF Clean, NodeEnds, Remembers
  <2>2. CASE upPc = "sent"
    <3>1. upPc' = "sent" /\ storageBits' = storageBits \cup {bit}
      BY <2>2 DEF NodeEnds, FreeStorageNode, WakeUpload
    <3>2. Clean'
      BY <2>1, <3>1 DEF Clean
    <3> QED
      BY <3>2 DEF AnswerInv
  <2>3. CASE upPc = "await"
    <3>1. /\ upPc' = IF bit = "DONE" THEN "unlink" ELSE "park"
          /\ storageBits' = (storageBits \cup {bit}) \ {"DONE", "STOP"}
      BY <2>1, <2>3 DEF NodeEnds, FreeStorageNode, WakeUpload
    <3>2. Clean'
      BY <2>1, <3>1 DEF Clean
    <3> QED
      BY <3>2 DEF AnswerInv
  <2> QED
    BY <2>1, <2>2, <2>3
<1> QED
  BY <1>1, <1>2 DEF AnswerInv

LEMMA UploadTaskAnswer ==
  ASSUME TypeParts, AnswerInv, Remembers, UploadTask
  PROVE  AnswerInv'
<1>1. UNCHANGED <<pushPc, pushNode, storageQueue, recNode>> /\ answered' = answered
  BY DEF UploadTask, UploadStep, UploadPark, UploadWaitStart, UploadOpenDir, UploadNextFile,
         UploadEndOfDir, UploadReadFile, UploadSend, UploadAwait, UploadUnlink, Remembers, ReportsDone
<1>2. CASE gaveUp
  BY <1>2, StillGaveUp
<1>3. CASE Clean /\ ~UploadSend /\ ~UploadAwait
  <2>1. /\ upPc \notin {"sent", "await"} /\ upPc' \notin {"sent", "await", "unlink"}
        /\ storageBits' \subseteq storageBits /\ UNCHANGED NodeVars
    BY <1>1, <1>3
       DEF UploadTask, UploadStep, UploadPark, UploadWaitStart, UploadOpenDir, UploadNextFile,
           UploadEndOfDir, UploadReadFile, UploadUnlink, NodeVars
  <2>2. Clean'
    BY <1>3, <2>1, NodesStay DEF Clean
  <2> QED
    BY <2>2 DEF AnswerInv
<1>4. CASE Clean /\ UploadSend
  <2>1. upPc = "send" /\ upPc' = "sent" /\ UNCHANGED <<storageBits, upFile>>
    BY <1>4 DEF UploadSend
  <2>2. NoneOut /\ "DONE" \notin storageBits
    BY <1>4, <2>1 DEF Clean
  <2>3. Clean'
    BY <1>1, <1>4, <2>1, <2>2, SentNode DEF Clean
  <2> QED
    BY <2>3 DEF AnswerInv
<1>5. CASE Clean /\ UploadAwait
  <2>1. upPc = "sent" /\ UNCHANGED upFile /\ UNCHANGED NodeVars
    BY <1>1, <1>5 DEF UploadAwait, NodeVars
  <2>2. (NoneOut' <=> NoneOut) /\ (OneOut' <=> OneOut)
    BY <2>1, NodesStay, NodeOfFileStays
  <2>3. CASE "DONE" \in storageBits
    <3>1. upPc' = "unlink" /\ storageBits' = storageBits \ {"DONE", "STOP"}
      BY <1>5, <2>3 DEF UploadAwait
    <3>2. Clean'
      BY <1>1, <1>5, <2>1, <2>2, <2>3, <3>1 DEF Clean
    <3> QED
      BY <3>2 DEF AnswerInv
  <2>4. CASE "DONE" \notin storageBits /\ "STOP" \in storageBits
    <3>1. upPc' = "park" /\ storageBits' = storageBits \ {"DONE", "STOP"}
      BY <1>5, <2>4 DEF UploadAwait
    <3>2. CASE NoneOut
      <4>1. Clean'
        BY <2>2, <3>1, <3>2 DEF Clean
      <4> QED
        BY <4>1 DEF AnswerInv
    <3>3. CASE ~NoneOut
      <4>1. GivesUp
        BY <2>1, <2>2, <3>1, <3>3 DEF GivesUp
      <4> QED
        BY <4>1 DEF Remembers, AnswerInv
    <3> QED
      BY <3>2, <3>3
  <2>5. CASE "DONE" \notin storageBits /\ "STOP" \notin storageBits
    <3>1. upPc' = "await" /\ UNCHANGED storageBits
      BY <1>5, <2>5 DEF UploadAwait
    <3>2. Clean'
      BY <1>5, <2>1, <2>2, <2>5, <3>1 DEF Clean
    <3> QED
      BY <3>2 DEF AnswerInv
  <2> QED
    BY <2>3, <2>4, <2>5
<1> QED
  BY <1>2, <1>3, <1>4, <1>5 DEF AnswerInv

(* STORAGE_UPLOAD_DONE_TIMEOUT_MS *)
LEMMA UploadTimeoutAnswer ==
  ASSUME AnswerInv, Remembers, UploadTimeout, UNCHANGED <<pushVars, mqttVars, mainVars>>
  PROVE  AnswerInv'
<1>1. /\ upPc = "await" /\ upPc' = "park" /\ UNCHANGED storageBits /\ UNCHANGED NodeVars
      /\ NoneOut' <=> NoneOut
  BY NodesStay DEF UploadTimeout, NodeVars
<1>2. CASE gaveUp
  BY <1>2, StillGaveUp
<1>3. CASE Clean /\ NoneOut
  <2>1. Clean'
    BY <1>1, <1>3 DEF Clean
  <2> QED
    BY <2>1 DEF AnswerInv
<1>4. CASE ~NoneOut
  <2>1. GivesUp
    BY <1>1, <1>4 DEF GivesUp
  <2> QED
    BY <2>1 DEF Remembers, AnswerInv
<1> QED
  BY <1>2, <1>3, <1>4 DEF AnswerInv

LEMMA PowerOffAnswer == PowerOff => AnswerInv'
<1> SUFFICES ASSUME PowerOff PROVE AnswerInv'
  OBVIOUS
<1>1. /\ mqttQueue' = <<>> /\ storageQueue' = <<>> /\ storageBits' = {} /\ upPc' = "park"
      /\ recNode' = NoNode /\ pushNode' = NoNode
  BY DEF PowerOff, DevicePowerOff, StoragePowerOff, PushPowerOff
<1>2. NoneOut'
  BY <1>1 DEF NoneOut, NoneIn, NoNode
<1>3. Clean'
  BY <1>1, <1>2 DEF Clean
<1> QED
  BY <1>3 DEF AnswerInv

LEMMA NextAnswer ==
  ASSUME TypeParts, TasksIdle, AnswerInv, NextH
  PROVE  AnswerInv'
<1>1. CASE PowerOff
  BY <1>1, PowerOffAnswer
<1>2. CASE Remembers
  <2>1. CASE RecordTask \/ PushTask
    BY <1>2, <2>1, RecordTaskNodes, PushTaskNodes, AnswerKept, AnswerFreed
  <2>2. ASSUME NEW c \in Callers, CameraTask(c) PROVE AnswerInv'
    BY <1>2, <2>2, CameraTaskNodes, AnswerKept
  <2>3. CASE UploadTask
    BY <1>2, <2>3, UploadTaskAnswer
  <2>4. CASE MqttTask
    <3>1. /\ UNCHANGED NodeVars /\ UNCHANGED upFile
          /\ pushPc # "success" \/ pushPc' # "recv"
          /\ UploadStart \/ UploadStop \/ UNCHANGED <<storageBits, upPc>>
      BY <2>4 DEF MqttTask, MqttEvent, MqttConnected, MqttSubscribed, MqttDisconnected,
                  MqttPublished, PushReady, PushExit, NodeVars
    <3> QED
      BY <1>2, <3>1, AnswerStartStop
  <2>5. CASE (MainStep /\ ~DeepSleep) \/ Boot
    <3>1. /\ UNCHANGED NodeVars /\ UNCHANGED upFile
          /\ pushPc # "success" \/ pushPc' # "recv"
          /\ UploadStart \/ UploadStop \/ UNCHANGED <<storageBits, upPc>>
      BY <2>5
         DEF MainStep, MainNetOpen, MainNetReady, MainCameraInit, MainCameraOpened, MainSnapshot,
             MainAfterSnapshot, MainCameraClose, MainWork, MainSleepWait, MainSleepStart, Boot,
             CameraInitOK, CameraInitFails, CameraOpened, CameraClose, SnapshotCall,
             PushStop, PushExit, PushReady, NodeVars
    <3> QED
      BY <1>2, <3>1, AnswerStartStop
  <2>6. CASE UploadTimeout /\ UNCHANGED <<pushVars, mqttVars, mainVars>>
    BY <1>2, <2>6, UploadTimeoutAnswer
  <2>7. CASE \/ ClearFiles /\ UNCHANGED <<pushVars, mqttVars, mainVars>>
             \/ \E c \in Callers : OtherSnapshot(c)
             \/ NoOperation \/ SetUploadMode \/ LinkUp \/ LinkDown \/ MainSleepTimeout
    <3>1. /\ UNCHANGED NodeVars /\ UNCHANGED upFile
          /\ pushPc # "success" \/ pushPc' # "recv"
          /\ UploadStart \/ UploadStop \/ UNCHANGED <<storageBits, upPc>>
      BY <2>7 DEF ClearFiles, OtherSnapshot, SnapshotCall, NoOperation, SetUploadMode, LinkUp,
                  LinkDown, MainSleepTimeout, PushStart, PushStop, PushExit, PushReady, NodeVars
    <3> QED
      BY <1>2, <3>1, AnswerStartStop
  <2> QED
    BY <1>1, <2>1, <2>2, <2>3, <2>4, <2>5, <2>6, <2>7
       DEF NextH, Next, Awake, Environment, DeepSleep, ButtonSleep, PowerLoss
<1>3. CASE ~PowerOff /\ ~Remembers
  <2>1. mainPc' = "off"
    BY <1>3 DEF NextH, Remember, Remembers
  <2>2. mainPc' # "off"
    <3>1. CASE Boot
      BY <3>1 DEF Boot, FirstStep
    <3>2. CASE mainPc # "off" /\ MainStep
      BY <1>3, <3>2
         DEF MainStep, MainNetOpen, MainNetReady, MainCameraInit, MainCameraOpened, MainSnapshot,
             MainAfterSnapshot, MainCameraClose, MainWork, MainSleepWait, MainSleepStart, DeepSleep
    <3>3. CASE mainPc # "off" /\ ~MainStep /\ Awake
      BY <1>3, <3>3
         DEF Awake, CameraTask, RecordTask, UploadTask, PushTask, MqttTask, Environment,
             OtherSnapshot, NoOperation, SetUploadMode, LinkUp, LinkDown, MainSleepTimeout,
             ButtonSleep, PowerLoss
    <3> QED
      BY <3>1, <3>2, <3>3 DEF NextH, Next
  <2> QED
    BY <2>1, <2>2
<1> QED
  BY <1>1, <1>2, <1>3

(* What holds of the pipeline holds of the pipeline with its histories. *)
LEMMA HistoryIsFree == SpecH => Spec
<1>1. InitH => Init
  BY DEF InitH
<1>2. [NextH]_<<vars, historyVars>> => [Next]_vars
  BY DEF NextH
<1> QED
  BY <1>1, <1>2, PTL DEF SpecH, Spec

(* The invariant holds. *)
THEOREM AnswersCorrect == SpecH => []AnswerInv
<1>1. InitH => AnswerInv
  <2> SUFFICES ASSUME Init PROVE Clean
    BY DEF InitH, AnswerInv
  <2>1. /\ mqttQueue = <<>> /\ storageQueue = <<>> /\ storageBits = {} /\ upPc = "park"
        /\ recNode = NoNode /\ pushNode = NoNode
    BY DEF Init, DeviceInit, StorageInit, PushInit
  <2>2. NoneOut
    BY <2>1 DEF NoneOut, NoneIn, NoNode
  <2> QED
    BY <2>1, <2>2 DEF Clean
<1>2. TypeParts /\ OwnerInv /\ AnswerInv /\ [NextH]_<<vars, historyVars>> => AnswerInv'
  <2> SUFFICES ASSUME TypeParts, OwnerInv, AnswerInv, [NextH]_<<vars, historyVars>>
               PROVE  AnswerInv'
    OBVIOUS
  <2>1. CASE NextH
    BY <2>1, NextAnswer DEF OwnerInv
  <2>2. CASE UNCHANGED <<vars, historyVars>>
    <3>1. UNCHANGED NodeVars /\ UNCHANGED <<upPc, upFile, storageBits, gaveUp, answered>>
      BY <2>2 DEF vars, historyVars, NodeVars
    <3>2. (NoneOut' <=> NoneOut) /\ (OneOut' <=> OneOut)
      BY <3>1, NodesStay, NodeOfFileStays
    <3>3. Clean' <=> Clean
      BY <3>1, <3>2 DEF Clean
    <3> QED
      BY <3>1, <3>3 DEF AnswerInv
  <2> QED
    BY <2>1, <2>2
<1> QED
  BY <1>1, <1>2, HistoryIsFree, PartsCorrect, OwnersCorrect, PTL DEF SpecH

(* upload unlinks a file because push has published that very file: bits   *)
(* that carry no identity suffice for every number of images, in every     *)
(* mode and with every fault, but for what the upload task itself gave up. *)
THEOREM UnlinksTheAnswered == SpecH => []UnlinksWhatWasAnswered
<1>1. AnswerInv => UnlinksWhatWasAnswered
  BY DEF AnswerInv, Clean, UnlinksWhatWasAnswered
<1> QED
  BY <1>1, AnswersCorrect, PTL

(* The circular wait takes a copy of the camera for each place in the two  *)
(* queues and one each for push and record.                                *)
LEMMA WaitTakesCopies ==
  ASSUME TypeParts, OwnerInv, IsFiniteSet(captures), NoneOut, CircularWait
  PROVE  Cardinality(captures) >= MqttQueueSize + StorageQueueSize + 2
<1> DEFINE M == MqttQueueSize
           S == StorageQueueSize
           Places == 1..(M + S + 2)
           ImageAt == [k \in Places |-> IF k <= M THEN mqttQueue[k].img
                                        ELSE IF k <= M + S THEN storageQueue[k - M].img
                                        ELSE IF k = M + S + 1 THEN pushNode.img
                                        ELSE recNode.img]
<1>1. M \in Nat /\ S \in Nat
  BY QueueSizeAssumption
<1>2. /\ mqttQueue \in Seq(Node) /\ Len(mqttQueue) = M
      /\ storageQueue \in Seq(Node) /\ Len(storageQueue) = S
  BY <1>1 DEF TypeParts, QueueTypeOK, CircularWait, HasRoom
<1>3. pushNode \in Node /\ recNode \in Node
  BY DEF TypeParts, PushTypeOK, RecordTypeOK, CircularWait
<1>4. \A n \in Node : n.from # "storage" => n = CameraNode(n.img) /\ n.img \in Images
  BY NodesDiffer DEF Node
<1>5. /\ \A k \in 1..M : mqttQueue[k] = CameraNode(mqttQueue[k].img) /\ mqttQueue[k].img \in Images
      /\ \A k \in 1..S : /\ storageQueue[k] = CameraNode(storageQueue[k].img)
                         /\ storageQueue[k].img \in Images
      /\ pushNode = CameraNode(pushNode.img) /\ pushNode.img \in Images
      /\ recNode = CameraNode(recNode.img) /\ recNode.img \in Images
  BY <1>2, <1>3, <1>4 DEF NoneOut, NoneIn
<1>6. \A i \in Images : InOnePlace(i) /\ (OnItsWay(i) => i \in captures)
  BY DEF OwnerInv, AllPlaced, Placed
<1>7. /\ \A k \in 1..M : mqttQueue[k].img \in captures
      /\ \A k \in 1..S : storageQueue[k].img \in captures
      /\ pushNode.img \in captures /\ recNode.img \in captures
  BY <1>2, <1>5, <1>6 DEF OnItsWay, InQueue
<1>8. /\ \A j, k \in 1..M : mqttQueue[j].img = mqttQueue[k].img => j = k
      /\ \A j, k \in 1..S : storageQueue[j].img = storageQueue[k].img => j = k
  BY <1>2, <1>5, <1>6 DEF InOnePlace, Single
<1>9. /\ \A j \in 1..M, k \in 1..S : mqttQueue[j].img # storageQueue[k].img
      /\ \A j \in 1..M : mqttQueue[j].img # pushNode.img /\ mqttQueue[j].img # recNode.img
      /\ \A k \in 1..S : storageQueue[k].img # pushNode.img /\ storageQueue[k].img # recNode.img
      /\ pushNode.img # recNode.img
  BY <1>2, <1>5, <1>6 DEF InOnePlace, InQueue
<1>10. /\ \A k \in Places : k <= M => k \in 1..M /\ ImageAt[k] = mqttQueue[k].img
       /\ \A k \in Places : k > M /\ k <= M + S => k - M \in 1..S /\ ImageAt[k] = storageQueue[k - M].img
       /\ \A k \in Places : k = M + S + 1 => ImageAt[k] = pushNode.img
       /\ \A k \in Places : k > M + S + 1 => k = M + S + 2 /\ ImageAt[k] = recNode.img
  BY <1>1
<1>11. IsFiniteSet(Places) /\ Cardinality(Places) = M + S + 2
  BY <1>1, FS_Interval
<1>12. \A k \in Places : k \in Int /\ k - M \in Int
  BY <1>1
<1>13. ImageAt = [k \in Places |-> ImageAt[k]]
  OBVIOUS
<1> HIDE DEF M, S, Places, ImageAt
<1>14. ImageAt \in [Places -> captures]
  <2>1. \A k \in Places : ImageAt[k] \in captures
    BY <1>1, <1>7, <1>10, <1>12
  <2> QED
    BY <1>13, <2>1
<1>15. ASSUME NEW j \in Places, NEW k \in Places, j < k PROVE ImageAt[j] # ImageAt[k]
  <2>1. CASE j <= M
    <3>1. j \in 1..M /\ ImageAt[j] = mqttQueue[j].img
      BY <1>10, <2>1
    <3>2. CASE k <= M
      BY <1>8, <1>10, <1>12, <1>15, <3>1, <3>2
    <3>3. CASE k > M
      BY <1>1, <1>9, <1>10, <1>12, <3>1, <3>3
    <3> QED
      BY <1>1, <1>12, <3>2, <3>3
  <2>2. CASE j > M /\ j <= M + S
    <3>1. j - M \in 1..S /\ ImageAt[j] = storageQueue[j - M].img
      BY <1>10, <2>2
    <3>2. CASE k <= M + S
      <4>1. k - M \in 1..S /\ ImageAt[k] = storageQueue[k - M].img /\ j - M # k - M
        BY <1>1, <1>10, <1>12, <1>15, <2>2, <3>2
      <4> QED
        BY <1>8, <3>1, <4>1
    <3>3. CASE k > M + S
      BY <1>1, <1>9, <1>10, <1>12, <3>1, <3>3
    <3> QED
      BY <1>1, <1>12, <3>2, <3>3
  <2>3. CASE j > M + S
    <3>1. j = M + S + 1 /\ k = M + S + 2
      BY <1>1, <1>10, <1>12, <1>15, <2>3
    <3>2. ImageAt[j] = pushNode.img /\ ImageAt[k] = recNode.img
      BY <1>1, <1>10, <3>1
    <3> QED
      BY <1>9, <3>2
  <2> QED
    BY <1>1, <1>12, <2>1, <2>2, <2>3
<1>16. \A j, k \in Places : j # k => ImageAt[j] # ImageAt[k]
  BY <1>12, <1>15
<1>17. ~(Cardinality(captures) < Cardinality(Places))
  BY <1>11, <1>14, <1>16, FS_PigeonHole
<1>18. Cardinality(captures) \in Nat
  BY FS_CardinalityType
<1>19. Cardinality(captures) >= M + S + 2
  BY <1>1, <1>11, <1>17, <1>18
<1> QED
  BY <1>19 DEF M, S

(* Upload, push and record wait for each other in a circle only when the   *)
(* camera has filled both queues and the hands of push and record, in any  *)
(* mode and with any fault, unless an upload was cut short: what the       *)
(* upload task itself sends never suffices.                                *)
THEOREM DeadlockTakesCopies == SpecH => []DeadlockNeedsCopies
<1>1. TypeParts /\ OwnerInv /\ CountInv /\ AnswerInv => DeadlockNeedsCopies
  <2> SUFFICES ASSUME TypeParts, OwnerInv, CountInv, AnswerInv, CircularWait, ~gaveUp
               PROVE  Cardinality(captures) >= MqttQueueSize + StorageQueueSize + 2
    BY DEF DeadlockNeedsCopies
  <2>1. NoneOut
    BY DEF AnswerInv, Clean, CircularWait
  <2> QED
    BY <2>1, WaitTakesCopies DEF CountInv
<1> QED
  BY <1>1, HistoryIsFree, PartsCorrect, OwnersCorrect, CountCorrect, AnswersCorrect, PTL

-----------------------------------------------------------------------------
(***************************************************************************)
(* No accepted image is forgotten.  The record task saves the copy of a    *)
(* camera node before it frees it, unless the flash fails.                 *)
(***************************************************************************)

KeepInv ==
  /\ recPc \in {"lock", "write"} => recNode.from = "camera"
  /\ recPc = "free" /\ recNode.from = "camera" => Safe(recNode.img)
  /\ NothingForgotten

KeepVars == <<recPc, recNode, accepted, captures, flash, discarded>>

(* No file is lost and no copy is freed in vain. *)
LEMMA StillKept ==
  ASSUME TypeParts, KeepInv, UNCHANGED <<recPc, recNode, accepted>>, lost \subseteq lost',
         \A i \in Images : Safe(i) => Safe(i)',
         \A i \in accepted : i \in captures => i \in captures' \/ i \in lost' \/ Safe(i)'
  PROVE  KeepInv'
<1>1. /\ accepted \subseteq Images
      /\ recPc = "free" => recNode.img \in Images
  BY DEF TypeParts, SnapTypeOK, RecordTypeOK, Node
<1>2. NothingForgotten'
  BY <1>1 DEF KeepInv, NothingForgotten
<1> QED
  BY <1>1, <1>2 DEF KeepInv

LEMMA KeepFrame ==
  ASSUME TypeParts, KeepInv, UNCHANGED KeepVars, lost \subseteq lost', delivered \subseteq delivered'
  PROVE  KeepInv'
<1>1. \A i \in Images : Safe(i) => Safe(i)'
  BY DEF KeepVars, Safe
<1> QED
  BY <1>1, StillKept DEF KeepVars

LEMMA CameraTaskKeeps ==
  ASSUME TypeParts, OwnerInv, KeepInv, NEW c \in Callers, CameraTask(c)
  PROVE  KeepInv'
<1>1. UNCHANGED <<recPc, recNode, flash, discarded, delivered, lost>>
  BY DEF CameraTask
<1>2. CASE NoFrame(c) \/ QueueIsFull(c)
  BY <1>1, <1>2, KeepFrame DEF NoFrame, QueueIsFull, KeepVars
<1>3. \A i \in Images : Safe(i) => Safe(i)'
  BY <1>1 DEF Safe
<1>4. CASE GrabFrame(c)
  BY <1>1, <1>3, <1>4, StillKept DEF GrabFrame
<1>5. CASE SendFrame(c)
  <2>1. /\ snap[c].pc = "send" /\ accepted' = accepted \cup {snap[c].img}
        /\ UNCHANGED captures
    BY <1>5 DEF SendFrame
  <2>2. snap[c].img \in captures
    BY <2>1 DEF OwnerInv, OwnSnapshots, AllPlaced, Placed, Taken
  <2>3. NothingForgotten'
    BY <1>1, <2>1, <2>2 DEF KeepInv, NothingForgotten, Safe
  <2> QED
    BY <1>1, <2>3 DEF KeepInv, Safe
<1>6. CASE DropFrame(c)
  <2>1. /\ snap[c].pc = "drop" /\ captures' = captures \ {snap[c].img} /\ UNCHANGED accepted
    BY <1>6 DEF DropFrame, FreeCapture
  <2>2. snap[c].img \notin accepted
    BY <2>1 DEF OwnerInv, OwnSnapshots
  <2> QED
    BY <1>1, <1>3, <2>1, <2>2, StillKept
<1> QED
  BY <1>2, <1>4, <1>5, <1>6 DEF CameraTask, SnapshotStep

LEMMA RecordTaskKeeps ==
  ASSUME "flash" \notin Faults, TypeParts, OwnerInv, KeepInv, RecordTask
  PROVE  KeepInv'
<1>1. UNCHANGED <<accepted, delivered, lost>> /\ accepted \subseteq Images
  BY DEF RecordTask, RecordStep, RecordReceive, RecordOpenFile, RecordWriteFile, RecordFree,
         TypeParts, SnapTypeOK
<1>2. recPc # "recv" => recNode \in Node /\ recNode.img \in Images
  BY DEF TypeParts, RecordTypeOK, Node
<1>3. flash \in [Images -> {"absent", "empty", "full"}]
  BY DEF TypeParts, FlashTypeOK
<1>4. CASE RecordReceive
  <2>1. /\ recNode' = Head(storageQueue) /\ recPc' = IF recNode'.from = "camera" THEN "lock" ELSE "free"
        /\ UNCHANGED <<captures, flash, discarded>>
    BY <1>4 DEF RecordReceive
  <2>2. NothingForgotten'
    BY <1>1, <2>1 DEF KeepInv, NothingForgotten, Safe
  <2> QED
    BY <2>1, <2>2 DEF KeepInv
<1>5. CASE RecordOpenFile
  <2>1. /\ recPc = "lock" /\ recPc' = "write" /\ UNCHANGED <<captures, recNode>>
        /\ discarded' = discarded \cup Evicted
        /\ flash' = [i \in Images |-> IF i = recNode.img THEN "empty"
                                      ELSE IF i \in Evicted THEN "absent" ELSE flash[i]]
    BY <1>5 DEF RecordOpenFile
  <2>2. recNode.from = "camera" /\ recNode.img \in captures
    <3>1. recNode = CameraNode(recNode.img) /\ recNode.from = "camera" /\ recNode.img \in Images
      BY <1>2, <2>1, NodesDiffer DEF KeepInv
    <3> QED
      BY <3>1 DEF OwnerInv, AllPlaced, Placed, OnItsWay
  <2> HIDE DEF Evicted
  <2>3. \A i \in Images \ {recNode.img} : Safe(i) => Safe(i)'
    BY <1>1, <2>1 DEF Safe
  <2>4. NothingForgotten'
    BY <1>1, <2>1, <2>2, <2>3 DEF KeepInv, NothingForgotten
  <2> QED
    BY <2>1, <2>2, <2>4 DEF KeepInv
<1>6. CASE RecordWriteFile
  <2>1. /\ recPc = "write" /\ recPc' = "free" /\ UNCHANGED <<captures, recNode, discarded>>
        /\ flash' = [flash EXCEPT ![recNode.img] = "full"]
    BY <1>6 DEF RecordWriteFile
  <2>2. \A i \in Images : Safe(i) => Safe(i)'
    BY <1>1, <1>3, <2>1 DEF Safe
  <2>3. Safe(recNode.img)'
    BY <1>2, <1>3, <2>1 DEF Safe
  <2>4. NothingForgotten'
    BY <1>1, <2>1, <2>2 DEF KeepInv, NothingForgotten
  <2> QED
    BY <2>1, <2>3, <2>4 DEF KeepInv
<1>7. CASE RecordFree
  <2>1. /\ recPc = "free" /\ recPc' = "recv" /\ UNCHANGED <<flash, discarded>>
        /\ \/ recNode.from = "camera" /\ captures' = captures \ {recNode.img}
           \/ UNCHANGED captures
    BY <1>7 DEF RecordFree, FreeNode, FreeCapture
  <2>2. NothingForgotten'
    BY <1>1, <2>1 DEF KeepInv, NothingForgotten, Safe
  <2> QED
    BY <2>1, <2>2 DEF KeepInv
<1> QED
  BY <1>4, <1>5, <1>6, <1>7 DEF RecordTask, RecordStep

LEMMA UploadTaskKeeps ==
  ASSUME TypeParts, UnlinksOnlyDelivered, KeepInv, UploadTask
  PROVE  KeepInv'
<1>1. UNCHANGED <<recPc, recNode, accepted, captures, discarded, delivered, lost>>
  BY DEF UploadTask, UploadStep, UploadPark, UploadWaitStart, UploadOpenDir, UploadNextFile,
         UploadEndOfDir, UploadReadFile, UploadSend, UploadAwait, UploadUnlink
<1>2. \/ UNCHANGED flash
      \/ /\ flash' = [flash EXCEPT ![upFile] = "absent"]
         /\ flash[upFile] # "full" \/ upFile \in delivered
  BY DEF UploadTask, UploadStep, UploadPark, UploadWaitStart, UploadOpenDir, UploadNextFile,
         UploadEndOfDir, UploadReadFile, UploadSend, UploadAwait, UploadUnlink, Unlink,
         UnlinksOnlyDelivered
<1>3. \A i \in Images : Safe(i) => Safe(i)'
  BY <1>1, <1>2 DEF Safe, TypeParts, FlashTypeOK
<1> QED
  BY <1>1, <1>3, StillKept

LEMMA PushTaskKeeps ==
  ASSUME TypeParts, OkMeansDelivered, KeepInv, PushTask
  PROVE  KeepInv'
<1>1. /\ UNCHANGED <<recPc, recNode, accepted, flash, discarded, lost>>
      /\ delivered \subseteq delivered'
  BY DEF PushTask, PushStep, PushReadyTimeout, PushReceive, PushStore, PushSuccess, PublishFails,
         WebhookPublish, MqttPublishQos0, MqttPublish, PublishTimeout
<1>2. CASE UNCHANGED captures
  BY <1>1, <1>2, KeepFrame DEF KeepVars
<1>3. CASE PushSuccess
  <2>1. /\ pushNode.img \in delivered
        /\ captures' = captures \ {pushNode.img} \/ UNCHANGED captures
    BY <1>3 DEF PushSuccess, FreeNode, FreeCapture, OkMeansDelivered
  <2>2. \A i \in Images : Safe(i) => Safe(i)'
    BY <1>1 DEF Safe
  <2>3. \A i \in delivered : Safe(i)'
    BY <1>1 DEF Safe
  <2> QED
    BY <1>1, <2>1, <2>2, <2>3, StillKept
<1> QED
  BY <1>2, <1>3
     DEF PushTask, PushStep, PushReadyTimeout, PushReceive, PushStore, PublishFails,
         WebhookPublish, MqttPublishQos0, MqttPublish, PublishTimeout

LEMMA PowerOffKeeps ==
  ASSUME TypeParts, KeepInv, PowerOff
  PROVE  KeepInv'
<1>1. /\ lost' = lost \cup {i \in captures \cap accepted : flash[i] # "full"}
      /\ recPc' = "recv" /\ UNCHANGED <<accepted, flash, discarded>>
      /\ delivered \subseteq delivered'
  BY DEF PowerOff, DevicePowerOff, CameraPowerOff, StoragePowerOff, MqttPowerOff
<1>2. NothingForgotten'
  BY <1>1 DEF KeepInv, NothingForgotten, Safe
<1> QED
  BY <1>1, <1>2 DEF KeepInv

LEMMA NextKeeps ==
  ASSUME "flash" \notin Faults, TypeParts, OwnerInv, UnlinksOnlyDelivered, OkMeansDelivered,
         KeepInv, [Next]_vars
  PROVE  KeepInv'
<1>1. CASE Boot \/ UNCHANGED vars
  BY <1>1, KeepFrame DEF Boot, vars, KeepVars
<1>2. CASE MainStep
  <2>1. CASE DeepSleep
    BY <2>1, PowerOffKeeps DEF DeepSleep
  <2>2. CASE ~DeepSleep
    <3>1. UNCHANGED KeepVars /\ UNCHANGED lost /\ delivered \subseteq delivered'
      BY <1>2, <2>2
         DEF MainStep, MainNetOpen, MainNetReady, MainCameraInit, MainCameraOpened, MainSnapshot,
             MainAfterSnapshot, MainCameraClose, MainWork, MainSleepWait, MainSleepStart,
             CameraInitOK, CameraInitFails, CameraOpened, CameraClose, SnapshotCall,
             PushStop, LoseConnection, KeepVars
    <3> QED
      BY <3>1, KeepFrame
  <2> QED
    BY <2>1, <2>2
<1>3. CASE MqttTask
  <2>1. UNCHANGED KeepVars /\ UNCHANGED lost /\ delivered \subseteq delivered'
    BY <1>3 DEF MqttTask, MqttEvent, MqttConnected, MqttSubscribed, MqttDisconnected,
                MqttPublished, LoseConnection, KeepVars
  <2> QED
    BY <2>1, KeepFrame
<1>4. CASE Environment
  <2>1. CASE ButtonSleep \/ PowerLoss
    BY <2>1, PowerOffKeeps DEF ButtonSleep, PowerLoss
  <2>2. CASE ClearFiles /\ UNCHANGED <<pushVars, mqttVars, mainVars>>
    <3>1. UNCHANGED <<recPc, recNode, accepted, captures, delivered, lost>>
      BY <2>2 DEF ClearFiles
    <3>2. PICK open : /\ flash' = [i \in Images |-> IF i \in open THEN flash[i] ELSE "absent"]
                      /\ discarded' = discarded \cup (Files \ open)
      BY <2>2 DEF ClearFiles
    <3>3. \A i \in Images : Safe(i) => Safe(i)'
      BY <3>1, <3>2 DEF Safe, Files
    <3> QED
      BY <3>1, <3>3, StillKept
  <2>3. CASE \/ UploadTimeout /\ UNCHANGED <<pushVars, mqttVars, mainVars>>
             \/ \E c \in Callers : OtherSnapshot(c)
             \/ NoOperation \/ SetUploadMode \/ LinkUp \/ LinkDown \/ MainSleepTimeout
    <3>1. UNCHANGED KeepVars /\ UNCHANGED lost /\ delivered \subseteq delivered'
      BY <2>3 DEF UploadTimeout, OtherSnapshot, SnapshotCall, NoOperation, SetUploadMode, LinkUp,
                  LinkDown, MainSleepTimeout, PushStart, PushStop, LoseConnection, KeepVars
    <3> QED
      BY <3>1, KeepFrame
  <2> QED
    BY <1>4, <2>1, <2>2, <2>3 DEF Environment
<1>5. ASSUME NEW c \in Callers, CameraTask(c) PROVE KeepInv'
  BY <1>5, CameraTaskKeeps
<1> QED
  BY <1>1, <1>2, <1>3, <1>4, <1>5, RecordTaskKeeps, UploadTaskKeeps, PushTaskKeeps DEF Next, Awake

(* The invariant holds. *)
THEOREM KeepsCorrect ==
  ASSUME NeverLate, OneUpload, "flash" \notin Faults
  PROVE  Spec => []KeepInv
<1>1. Init => KeepInv
  <2> SUFFICES ASSUME Init PROVE KeepInv
    OBVIOUS
  <2>1. recPc = "recv" /\ accepted = Files
    BY DEF Init, StorageInit
  <2>2. \A i \in Images : flash[i] \in {"full", "absent"}
    BY DEF Init, StorageInit
  <2>3. NothingForgotten
    BY <2>1, <2>2 DEF NothingForgotten, Safe, Files
  <2> QED
    BY <2>1, <2>3 DEF KeepInv
<1>2. DeliveryInv => OkMeansDelivered
  BY DEF DeliveryInv, OneInFlight
<1>3. TypeParts /\ OwnerInv /\ UnlinksOnlyDelivered /\ OkMeansDelivered /\ KeepInv /\ [Next]_vars
        => KeepInv'
  BY NextKeeps
<1> QED
  BY <1>1, <1>2, <1>3, PartsCorrect, OwnersCorrect, SessionsCorrect, UnlinksAfterDelivery,
     PTL DEF Spec

(* An image that a queue has accepted is in RAM, in a file, at the server  *)
(* or evicted for a newer one, or it was in RAM only when the power went   *)
(* away: no other path of camera.c, push.c and storage.c forgets it.       *)
THEOREM NothingIsForgotten ==
  ASSUME NeverLate, OneUpload, "flash" \notin Faults
  PROVE  Spec => []NothingForgotten
<1>1. KeepInv => NothingForgotten
  BY DEF KeepInv
<1> QED
  BY <1>1, KeepsCorrect, PTL

-----------------------------------------------------------------------------
(***************************************************************************)
(* The pipeline implements the ledger.  What it has to know about an image *)
(* besides: nothing happened to one that no queue accepted; one in RAM has *)
(* no file but the one the record task is about to finish, and was never   *)
(* lost or evicted; a lost one has no complete file and no node.           *)
(***************************************************************************)

(* The record task has begun the file of image i, and still has its copy. *)
Saving(i) == recPc \in {"write", "free"} /\ recNode = CameraNode(i)

Current(n) == n.from = "storage" => n.img \in accepted \ lost

AcceptedInv ==
  /\ delivered \subseteq accepted /\ lost \subseteq accepted /\ discarded \subseteq accepted
  /\ \A i \in Images : flash[i] # "absent" => i \in accepted

CopyInv ==
  /\ \A i \in captures : i \notin discarded /\ (flash[i] = "absent" \/ Saving(i))
  /\ \A i \in lost : flash[i] # "full" /\ i \notin captures

NodesInv ==
  /\ \A k \in 1..Len(mqttQueue) : Current(mqttQueue[k])
  /\ \A k \in 1..Len(storageQueue) : Current(storageQueue[k])
  /\ Current(pushNode) /\ Current(recNode)

LedgerInv == AcceptedInv /\ CopyInv /\ NodesInv

LedgerVars == <<accepted, lost, discarded, flash, captures, recPc, recNode>>

LEMMA LedgerFrame ==
  ASSUME LedgerInv, UNCHANGED LedgerVars, UNCHANGED NodeVars, delivered' \subseteq accepted
  PROVE  LedgerInv'
<1>1. AcceptedInv' /\ CopyInv'
  BY DEF LedgerInv, AcceptedInv, CopyInv, Saving, LedgerVars
<1>2. NodesInv'
  BY DEF LedgerInv, NodesInv, Current, LedgerVars, NodeVars
<1> QED
  BY <1>1, <1>2 DEF LedgerInv

(* An image on its way to the server may still arrive. *)
LEMMA NodeIsLive ==
  ASSUME TypeParts, OwnerInv, OneInFlight, LedgerInv
  PROVE  /\ pushNode \in Node => pushNode.img \in accepted \ lost
         /\ inflight \subseteq accepted \ lost
         /\ accepted \subseteq Images
<1>1. pushNode \in Node => pushNode.img \in accepted \ lost
  <2>1. CASE pushNode \in Node /\ pushNode.from = "storage"
    BY <2>1 DEF LedgerInv, NodesInv, Current
  <2>2. CASE pushNode \in Node /\ pushNode.from = "camera"
    <3>1. pushNode = CameraNode(pushNode.img) /\ pushNode.img \in Images
      BY <2>2, NodesDiffer
    <3>2. pushNode.img \in accepted /\ pushNode.img \in captures
      BY <3>1 DEF OwnerInv, AllPlaced, Placed, OnItsWay
    <3> QED
      BY <3>2 DEF LedgerInv, CopyInv
  <2> QED
    BY <2>1, <2>2 DEF Node
<1>2. inflight \subseteq accepted \ lost
  <2>1. CASE pushPc = "puback"
    BY <1>1, <2>1 DEF OneInFlight, TypeParts, PushTypeOK
  <2>2. CASE pushPc # "puback"
    BY <2>2 DEF OneInFlight
  <2> QED
    BY <2>1, <2>2
<1> QED
  BY <1>1, <1>2 DEF TypeParts, SnapTypeOK

LEMMA AppendedCurrent ==
  ASSUME NEW q \in Seq(Node), NEW n \in Node, \A k \in 1..Len(q) : Current(q[k]), Current(n)
  PROVE  \A k \in 1..Len(Append(q, n)) : Current(Append(q, n)[k])
<1> DEFINE a == Append(q, n)
<1>1. /\ Len(q) \in Nat /\ Len(a) = Len(q) + 1 /\ a[Len(q) + 1] = n
      /\ \A k \in 1..Len(q) : a[k] = q[k]
  OBVIOUS
<1> HIDE DEF a
<1>2. \A k \in 1..Len(a) : k \in 1..Len(q) \/ k = Len(q) + 1
  BY <1>1
<1>3. \A k \in 1..Len(a) : Current(a[k])
  BY <1>1, <1>2
<1> QED
  BY <1>3 DEF a

LEMMA TailCurrent ==
  ASSUME NEW q \in Seq(Node), q # <<>>, \A k \in 1..Len(q) : Current(q[k])
  PROVE  Current(Head(q)) /\ \A k \in 1..Len(Tail(q)) : Current(Tail(q)[k])
<1> DEFINE t == Tail(q)
<1>1. /\ Len(q) \in Nat \ {0} /\ Len(t) = Len(q) - 1 /\ q[1] = Head(q)
      /\ \A k \in 1..Len(t) : t[k] = q[k + 1]
  OBVIOUS
<1> HIDE DEF t
<1>2. 1 \in 1..Len(q) /\ \A k \in 1..Len(t) : k + 1 \in 1..Len(q)
  BY <1>1
<1>3. Current(Head(q)) /\ \A k \in 1..Len(t) : Current(t[k])
  BY <1>1, <1>2
<1> QED
  BY <1>3 DEF t

LEMMA CameraTaskLedger ==
  ASSUME TypeParts, OwnerInv, LedgerInv, NEW c \in Callers, CameraTask(c)
  PROVE  LedgerInv'
<1>1. /\ UNCHANGED <<recPc, recNode, pushNode, flash, discarded, delivered, lost>>
      /\ accepted \subseteq accepted'
  BY DEF CameraTask, SnapshotStep, NoFrame, GrabFrame, SendFrame, QueueIsFull, DropFrame
<1>2. AcceptedInv'
  BY <1>1 DEF LedgerInv, AcceptedInv
<1>3. CASE UNCHANGED <<captures, accepted, mqttQueue, storageQueue>>
  BY <1>1, <1>3, LedgerFrame DEF LedgerVars, NodeVars, LedgerInv, AcceptedInv
<1>4. CASE SendFrame(c)
  <2> DEFINE n == CameraNode(snap[c].img)
  <2>1. n \in Node /\ n.from # "storage"
    <3>1. snap[c] \in SnapState /\ snap[c].pc = "send"
      BY <1>4 DEF SendFrame, TypeParts, SnapTypeOK
    <3>2. snap[c].img \in Images
      BY <3>1 DEF SnapState, NotInSnapshot
    <3> QED
      BY <3>2 DEF CameraNode, Node
  <2>2. /\ \/ mqttQueue' = Append(mqttQueue, n) /\ UNCHANGED storageQueue
           \/ storageQueue' = Append(storageQueue, n) /\ UNCHANGED mqttQueue
        /\ UNCHANGED captures
    BY <1>4 DEF SendFrame, SendToMqtt, SendToStorage
  <2>3. mqttQueue \in Seq(Node) /\ storageQueue \in Seq(Node)
    BY DEF TypeParts, QueueTypeOK
  <2> HIDE DEF n
  <2>4. \A m : Current(m) => Current(m)'
    BY <1>1 DEF Current
  <2>5. /\ \A k \in 1..Len(mqttQueue') : Current(mqttQueue'[k])
        /\ \A k \in 1..Len(storageQueue') : Current(storageQueue'[k])
    BY <2>1, <2>2, <2>3, AppendedCurrent DEF LedgerInv, NodesInv, Current
  <2>6. NodesInv'
    BY <1>1, <2>5 DEF LedgerInv, NodesInv, Current
  <2>7. CopyInv'
    BY <1>1, <2>2 DEF LedgerInv, CopyInv, Saving
  <2> QED
    BY <1>2, <2>6, <2>7 DEF LedgerInv
<1>5. CASE GrabFrame(c)
  <2>1. /\ snap[c].pc = "try" /\ captures' = captures \cup {snap[c].img}
        /\ UNCHANGED <<accepted, mqttQueue, storageQueue>>
    BY <1>5 DEF GrabFrame
  <2>2. snap[c].img \in Images \ accepted
    BY <2>1 DEF OwnerInv, OwnSnapshots
  <2>3. CopyInv'
    BY <1>1, <2>1, <2>2 DEF LedgerInv, AcceptedInv, CopyInv, Saving
  <2>4. NodesInv'
    BY <1>1, <2>1 DEF LedgerInv, NodesInv, Current
  <2> QED
    BY <1>2, <2>3, <2>4 DEF LedgerInv
<1>6. CASE DropFrame(c)
  <2>1. captures' \subseteq captures /\ UNCHANGED <<accepted, mqttQueue, storageQueue>>
    BY <1>6 DEF DropFrame, FreeCapture
  <2>2. CopyInv'
    BY <1>1, <2>1 DEF LedgerInv, CopyInv, Saving
  <2>3. NodesInv'
    BY <1>1, <2>1 DEF LedgerInv, NodesInv, Current
  <2> QED
    BY <1>2, <2>2, <2>3 DEF LedgerInv
<1> QED
  BY <1>3, <1>4, <1>5, <1>6 DEF CameraTask, SnapshotStep, NoFrame, QueueIsFull

LEMMA RecordTaskLedger ==
  ASSUME "flash" \notin Faults, TypeParts, OwnerInv, KeepInv, LedgerInv, RecordTask
  PROVE  LedgerInv'
<1>1. UNCHANGED <<accepted, delivered, lost, mqttQueue, pushNode>>
  BY DEF RecordTask, RecordStep, RecordReceive, RecordOpenFile, RecordWriteFile, RecordFree
<1>2. /\ storageQueue \in Seq(Node)
      /\ recPc # "recv" => recNode \in Node /\ recNode.img \in Images
      /\ flash \in [Images -> {"absent", "empty", "full"}]
  BY DEF TypeParts, QueueTypeOK, RecordTypeOK, FlashTypeOK, Node
<1>3. recNode \in Node /\ recNode.from = "camera" =>
        recNode = CameraNode(recNode.img) /\ recNode.img \in captures /\ recNode.img \in accepted
  <2> SUFFICES ASSUME recNode \in Node, recNode.from = "camera"
               PROVE  recNode = CameraNode(recNode.img) /\ recNode.img \in captures
                      /\ recNode.img \in accepted
    OBVIOUS
  <2>1. recNode = CameraNode(recNode.img) /\ recNode.img \in Images
    BY NodesDiffer
  <2> QED
    BY <2>1 DEF OwnerInv, AllPlaced, Placed, OnItsWay
<1>4. captures \subseteq Images
  BY DEF TypeParts, CaptureTypeOK
<1>5. CASE RecordReceive
  <2>1. /\ recPc = "recv" /\ storageQueue # <<>> /\ recNode' = Head(storageQueue)
        /\ storageQueue' = Tail(storageQueue) /\ UNCHANGED <<captures, flash, discarded>>
    BY <1>5 DEF RecordReceive
  <2>2. NodesInv'
    <3>1. Current(recNode') /\ \A k \in 1..Len(storageQueue') : Current(storageQueue'[k])
      BY <1>2, <2>1, TailCurrent DEF LedgerInv, NodesInv
    <3> QED
      BY <1>1, <3>1 DEF LedgerInv, NodesInv, Current
  <2>3. AcceptedInv' /\ CopyInv'
    BY <1>1, <2>1 DEF LedgerInv, AcceptedInv, CopyInv, Saving
  <2> QED
    BY <2>2, <2>3 DEF LedgerInv
<1>6. CASE RecordOpenFile
  <2>1. /\ recPc = "lock" /\ recPc' = "write" /\ UNCHANGED <<captures, recNode, storageQueue>>
        /\ discarded' = discarded \cup Evicted
        /\ flash' = [i \in Images |-> IF i = recNode.img THEN "empty"
                                      ELSE IF i \in Evicted THEN "absent" ELSE flash[i]]
    BY <1>6 DEF RecordOpenFile
  <2>2. recNode = CameraNode(recNode.img) /\ recNode.img \in captures /\ recNode.img \in accepted
    BY <1>2, <1>3, <2>1 DEF KeepInv
  <2>3. Evicted \subseteq {i \in Images : flash[i] # "absent"}
    BY DEF Evicted, Files
  <2>4. \A i \in captures : flash[i] = "absent"
    BY <2>1 DEF LedgerInv, CopyInv, Saving
  <2> HIDE DEF Evicted
  <2>5. AcceptedInv'
    BY <1>1, <2>1, <2>2, <2>3 DEF LedgerInv, AcceptedInv
  <2>6. \A i \in captures : i \notin discarded' /\ (flash'[i] = "absent" \/ i = recNode.img)
    BY <1>4, <2>1, <2>3, <2>4 DEF LedgerInv, CopyInv
  <2>7. \A i \in lost : flash'[i] # "full" /\ i \notin captures
    <3>1. lost \subseteq Images
      BY DEF TypeParts, MainTypeOK
    <3> QED
      BY <2>1, <3>1 DEF LedgerInv, CopyInv
  <2>8. CopyInv'
    BY <1>1, <2>1, <2>2, <2>6, <2>7 DEF CopyInv, Saving
  <2>9. NodesInv'
    BY <1>1, <2>1 DEF LedgerInv, NodesInv, Current
  <2> QED
    BY <2>5, <2>8, <2>9 DEF LedgerInv
<1>7. CASE RecordWriteFile
  <2>1. /\ recPc = "write" /\ recPc' = "free" /\ UNCHANGED <<captures, recNode, storageQueue, discarded>>
        /\ flash' = [flash EXCEPT ![recNode.img] = "full"]
    BY <1>7 DEF RecordWriteFile
  <2>2. recNode = CameraNode(recNode.img) /\ recNode.img \in captures /\ recNode.img \in accepted
    BY <1>2, <1>3, <2>1 DEF KeepInv
  <2>3. \A i \in Images : flash'[i] = IF i = recNode.img THEN "full" ELSE flash[i]
    BY <1>2, <2>1
  <2>4. AcceptedInv'
    BY <1>1, <2>1, <2>2, <2>3 DEF LedgerInv, AcceptedInv
  <2>5. CopyInv'
    <3>1. lost \subseteq Images
      BY DEF TypeParts, MainTypeOK
    <3> QED
      BY <1>1, <1>4, <2>1, <2>2, <2>3, <3>1 DEF LedgerInv, CopyInv, Saving
  <2>6. NodesInv'
    BY <1>1, <2>1 DEF LedgerInv, NodesInv, Current
  <2> QED
    BY <2>4, <2>5, <2>6 DEF LedgerInv
<1>8. CASE RecordFree
  <2>1. /\ recPc = "free" /\ recNode' = NoNode /\ UNCHANGED <<flash, discarded, storageQueue>>
        /\ \/ recNode.from = "camera" /\ captures' = captures \ {recNode.img}
           \/ recNode.from = "storage" /\ UNCHANGED captures
    BY <1>8 DEF RecordFree, FreeNode, FreeCapture
  <2>2. \A i \in captures' : recNode # CameraNode(i)
    BY <2>1 DEF CameraNode
  <2>3. AcceptedInv' /\ CopyInv'
    BY <1>1, <2>1, <2>2 DEF LedgerInv, AcceptedInv, CopyInv, Saving
  <2>4. NodesInv'
    BY <1>1, <2>1 DEF LedgerInv, NodesInv, Current, NoNode
  <2> QED
    BY <2>3, <2>4 DEF LedgerInv
<1> QED
  BY <1>5, <1>6, <1>7, <1>8 DEF RecordTask, RecordStep

LEMMA UploadTaskLedger ==
  ASSUME TypeParts, ReadIntact, LedgerInv, UploadTask
  PROVE  LedgerInv'
<1>1. /\ UNCHANGED <<accepted, delivered, lost, discarded, captures, recPc, recNode, pushNode>>
      /\ UNCHANGED storageQueue
  BY DEF UploadTask, UploadStep, UploadPark, UploadWaitStart, UploadOpenDir, UploadNextFile,
         UploadEndOfDir, UploadReadFile, UploadSend, UploadAwait, UploadUnlink
<1>2. /\ flash \in [Images -> {"absent", "empty", "full"}] /\ captures \subseteq Images
      /\ lost \subseteq Images
  BY DEF TypeParts, FlashTypeOK, CaptureTypeOK, MainTypeOK
<1>3. \A i \in Images : flash'[i] = flash[i] \/ flash'[i] = "absent"
  <2>1. flash' = flash \/ flash' = [flash EXCEPT ![upFile] = "absent"]
    BY DEF UploadTask, UploadStep, UploadPark, UploadWaitStart, UploadOpenDir, UploadNextFile,
           UploadEndOfDir, UploadReadFile, UploadSend, UploadAwait, UploadUnlink, Unlink
  <2> QED
    BY <1>2, <2>1
<1>4. AcceptedInv' /\ CopyInv'
  BY <1>1, <1>2, <1>3 DEF LedgerInv, AcceptedInv, CopyInv, Saving
<1>5. CASE UNCHANGED mqttQueue
  BY <1>1, <1>4, <1>5 DEF LedgerInv, NodesInv, Current
<1>6. CASE UploadSend
  <2> DEFINE n == StorageNode(upFile)
  <2>1. upPc = "send" /\ mqttQueue' = Append(mqttQueue, n)
    BY <1>6 DEF UploadSend
  <2>2. upFile \in Images /\ upFile \in accepted \ lost
    <3>1. upFile \in Images
      BY <2>1 DEF TypeParts, UploadTypeOK, UploadBusy
    <3> QED
      BY <2>1, <3>1 DEF ReadIntact, LedgerInv, AcceptedInv, CopyInv
  <2>3. mqttQueue \in Seq(Node) /\ n \in Node /\ Current(n)
    BY <2>2 DEF TypeParts, QueueTypeOK, StorageNode, Node, Current
  <2> HIDE DEF n
  <2>4. \A k \in 1..Len(mqttQueue') : Current(mqttQueue'[k])
    BY <2>1, <2>3, AppendedCurrent DEF LedgerInv, NodesInv
  <2> QED
    BY <1>1, <1>4, <2>4 DEF LedgerInv, NodesInv, Current
<1> QED
  BY <1>5, <1>6 DEF UploadTask, UploadStep, UploadPark, UploadWaitStart, UploadOpenDir,
                    UploadNextFile, UploadEndOfDir, UploadReadFile, UploadAwait, UploadUnlink

LEMMA PushTaskLedger ==
  ASSUME TypeParts, OwnerInv, OneInFlight, LedgerInv, PushTask
  PROVE  LedgerInv'
<1>1. UNCHANGED <<accepted, lost, discarded, flash, recPc, recNode>>
  BY DEF PushTask, PushStep, PushReadyTimeout, PushReceive, PushStore, PushSuccess, PublishFails,
         WebhookPublish, MqttPublishQos0, MqttPublish, PublishTimeout
<1>2. mqttQueue \in Seq(Node) /\ storageQueue \in Seq(Node)
  BY DEF TypeParts, QueueTypeOK
<1>3. \A m : Current(m)' = Current(m)
  BY <1>1 DEF Current
<1>4. CASE PushReceive
  <2>1. /\ mqttQueue # <<>> /\ pushNode' = Head(mqttQueue) /\ mqttQueue' = Tail(mqttQueue)
        /\ UNCHANGED <<captures, storageQueue, delivered>>
    BY <1>4 DEF PushTask, PushStep, PushReceive, PublishFails, WebhookPublish, MqttPublishQos0,
                MqttPublish, PublishTimeout
  <2>2. Current(pushNode') /\ \A k \in 1..Len(mqttQueue') : Current(mqttQueue'[k])
    BY <1>2, <2>1, TailCurrent DEF LedgerInv, NodesInv
  <2>3. NodesInv'
    BY <1>1, <2>1, <2>2 DEF LedgerInv, NodesInv, Current
  <2> QED
    BY <1>1, <2>1, <2>3 DEF LedgerInv, AcceptedInv, CopyInv, Saving
<1>5. CASE PushStore
  <2>1. /\ pushNode \in Node /\ pushNode' = NoNode
        /\ storageQueue' = Append(storageQueue, pushNode)
        /\ UNCHANGED <<captures, mqttQueue, delivered>>
    BY <1>5 DEF PushTask, PushStep, PushStore, PublishFails, WebhookPublish, MqttPublishQos0,
                MqttPublish, PublishTimeout, TypeParts, PushTypeOK
  <2>2. \A k \in 1..Len(storageQueue') : Current(storageQueue'[k])
    BY <1>2, <2>1, AppendedCurrent DEF LedgerInv, NodesInv
  <2>3. NodesInv'
    BY <1>1, <2>1, <2>2 DEF LedgerInv, NodesInv, Current, NoNode
  <2> QED
    BY <1>1, <2>1, <2>3 DEF LedgerInv, AcceptedInv, CopyInv, Saving
<1>6. CASE PushSuccess
  <2>1. /\ pushNode' = NoNode /\ captures' \subseteq captures
        /\ UNCHANGED <<mqttQueue, storageQueue, delivered>>
    BY <1>6 DEF PushTask, PushStep, PushSuccess, FreeNode, FreeCapture, PublishFails,
                WebhookPublish, MqttPublishQos0, MqttPublish, PublishTimeout
  <2>2. NodesInv'
    BY <1>1, <2>1 DEF LedgerInv, NodesInv, Current, NoNode
  <2> QED
    BY <1>1, <2>1, <2>2 DEF LedgerInv, AcceptedInv, CopyInv, Saving
<1>7. CASE \/ PushReadyTimeout /\ UNCHANGED mqttVars
           \/ PublishFails \/ WebhookPublish \/ MqttPublishQos0 \/ MqttPublish \/ PublishTimeout
  <2>1. /\ UNCHANGED <<captures, mqttQueue, storageQueue, pushNode>>
        /\ \/ UNCHANGED delivered
           \/ pushPc = "publish" /\ delivered' = delivered \cup {pushNode.img}
    BY <1>7 DEF PushReadyTimeout, PublishFails, WebhookPublish, MqttPublishQos0, MqttPublish,
                PublishTimeout
  <2>2. pushPc = "publish" => pushNode.img \in accepted
    BY NodeIsLive DEF TypeParts, PushTypeOK
  <2>3. delivered' \subseteq accepted
    BY <2>1, <2>2 DEF LedgerInv, AcceptedInv
  <2> QED
    BY <1>1, <2>1, <2>3, LedgerFrame DEF LedgerVars, NodeVars
<1> QED
  BY <1>4, <1>5, <1>6, <1>7 DEF PushTask, PushStep

LEMMA PowerOffLedger ==
  ASSUME TypeParts, OwnerInv, OneInFlight, LedgerInv, PowerOff
  PROVE  LedgerInv'
<1>1. /\ lost' = lost \cup {i \in captures \cap accepted : flash[i] # "full"}
      /\ captures' = {} /\ mqttQueue' = <<>> /\ storageQueue' = <<>>
      /\ pushNode' = NoNode /\ recNode' = NoNode
      /\ UNCHANGED <<accepted, flash, discarded>>
  BY DEF PowerOff, DevicePowerOff, CameraPowerOff, StoragePowerOff, PushPowerOff
<1>2. delivered' \subseteq accepted
  <2>1. delivered' \subseteq delivered \cup inflight
    BY DEF PowerOff, MqttPowerOff
  <2> QED
    BY <2>1, NodeIsLive DEF LedgerInv, AcceptedInv
<1>3. AcceptedInv'
  BY <1>1, <1>2 DEF LedgerInv, AcceptedInv
<1>4. CopyInv'
  BY <1>1 DEF LedgerInv, CopyInv
<1>5. NodesInv'
  BY <1>1 DEF NodesInv, Current, NoNode
<1> QED
  BY <1>3, <1>4, <1>5 DEF LedgerInv

(* Steps that only may deliver what is in flight. *)
LEMMA FlightLedger ==
  ASSUME TypeParts, OwnerInv, OneInFlight, LedgerInv,
         UNCHANGED LedgerVars, UNCHANGED NodeVars, delivered' \subseteq delivered \cup inflight
  PROVE  LedgerInv'
  BY NodeIsLive, LedgerFrame DEF LedgerInv, AcceptedInv

MainRests == MainStep /\ ~DeepSleep

EnvironmentRests ==
  \/ UploadTimeout /\ UNCHANGED <<pushVars, mqttVars, mainVars>>
  \/ \E c \in Callers : OtherSnapshot(c)
  \/ NoOperation \/ SetUploadMode \/ LinkUp \/ LinkDown \/ MainSleepTimeout

LEMMA FlightSteps ==
  ASSUME Boot \/ UNCHANGED vars \/ MainRests \/ MqttTask \/ EnvironmentRests
  PROVE  /\ UNCHANGED LedgerVars /\ UNCHANGED NodeVars
         /\ delivered \subseteq delivered' /\ delivered' \subseteq delivered \cup inflight
<1>1. CASE Boot \/ UNCHANGED vars
  BY <1>1 DEF Boot, vars, LedgerVars, NodeVars
<1>2. CASE MainRests
  BY <1>2 DEF MainRests, MainStep, MainNetOpen, MainNetReady, MainCameraInit, MainCameraOpened,
              MainSnapshot, MainAfterSnapshot, MainCameraClose, MainWork, MainSleepWait,
              MainSleepStart, CameraInitOK, CameraInitFails, CameraOpened, CameraClose,
              SnapshotCall, PushStop, LoseConnection, LedgerVars, NodeVars
<1>3. CASE MqttTask
  BY <1>3 DEF MqttTask, MqttEvent, MqttConnected, MqttSubscribed, MqttDisconnected,
              MqttPublished, LoseConnection, LedgerVars, NodeVars
<1>4. CASE EnvironmentRests
  BY <1>4 DEF EnvironmentRests, UploadTimeout, OtherSnapshot, SnapshotCall, NoOperation,
              SetUploadMode, LinkUp, LinkDown, MainSleepTimeout, PushStart, PushStop,
              LoseConnection, LedgerVars, NodeVars
<1> QED
  BY <1>1, <1>2, <1>3, <1>4

LEMMA StepKinds ==
  ASSUME "clear" \notin Faults, [Next]_vars
  PROVE  \/ Boot \/ UNCHANGED vars \/ MainRests \/ MqttTask \/ EnvironmentRests
         \/ PowerOff \/ RecordTask \/ UploadTask \/ PushTask
         \/ \E c \in Callers : CameraTask(c)
<1>1. MainStep => MainRests \/ PowerOff
  BY DEF MainRests, DeepSleep
<1>2. Environment => EnvironmentRests \/ PowerOff
  BY DEF Environment, EnvironmentRests, ButtonSleep, PowerLoss, ClearFiles
<1> QED
  BY <1>1, <1>2 DEF Next, Awake

LEMMA NextLedger ==
  ASSUME "flash" \notin Faults, "clear" \notin Faults, TypeParts, OwnerInv, OneInFlight,
         ReadIntact, KeepInv, LedgerInv, [Next]_vars
  PROVE  LedgerInv'
<1>1. CASE Boot \/ UNCHANGED vars \/ MainRests \/ MqttTask \/ EnvironmentRests
  BY <1>1, FlightSteps, FlightLedger
<1>2. ASSUME NEW c \in Callers, CameraTask(c) PROVE LedgerInv'
  BY <1>2, CameraTaskLedger
<1> QED
  BY <1>1, <1>2, StepKinds, PowerOffLedger, RecordTaskLedger, UploadTaskLedger, PushTaskLedger

LEMMA InitLedger == Init => LedgerInv
<1> SUFFICES ASSUME Init PROVE LedgerInv
  OBVIOUS
<1>1. /\ mqttQueue = <<>> /\ storageQueue = <<>> /\ pushNode = NoNode /\ recNode = NoNode
      /\ captures = {} /\ accepted = Files /\ discarded = {} /\ delivered = {} /\ lost = {}
  BY DEF Init, DeviceInit, CameraInit, StorageInit, PushInit, MqttInit
<1>2. AcceptedInv
  BY <1>1 DEF AcceptedInv, Files
<1>3. CopyInv /\ NodesInv
  BY <1>1 DEF CopyInv, NodesInv, Current, NoNode
<1> QED
  BY <1>2, <1>3 DEF LedgerInv

-----------------------------------------------------------------------------
(* Each step of the pipeline is one of the ledger's, or none of its. *)

Where == [i \in Images |-> Place(i)]

LedgerStep == [Ledger!Next]_Where

LEMMA NothingMoves ==
  ASSUME \A i \in Images : Place(i)' = Place(i)
  PROVE  LedgerStep
  BY DEF LedgerStep, Where

LEMMA Moves ==
  ASSUME NEW S, NEW place,
         \A i \in Images : Place(i)' = IF i \in S THEN place ELSE Place(i)
  PROVE  Ledger!Move(S, place)
  BY DEF Ledger!Move

LEMMA AtPlace ==
  ASSUME NEW place
  PROVE  Ledger!At(place) = {i \in Images : Place(i) = place}
  BY DEF Ledger!At

(* Arrivals *)
LEMMA LedgerSends ==
  ASSUME NothingForgotten, accepted \subseteq Images, NEW S, S \subseteq accepted \ lost,
         delivered' = delivered \cup S, UNCHANGED <<flash, lost, discarded, captures, accepted>>
  PROVE  LedgerStep
<1> DEFINE T == S \ delivered
<1>1. \A i \in Images : Place(i)' = IF i \in T THEN "sent" ELSE Place(i)
  BY DEF Place
<1>2. \A i \in T : i \in Images /\ Place(i) \in {"ram", "saved", "evicted"}
  BY DEF NothingForgotten, Safe, Place
<1> HIDE DEF T
<1>3. CASE T = {}
  BY <1>1, <1>3, NothingMoves
<1>4. CASE T # {}
  <2>1. T \in SUBSET (Ledger!At("ram") \cup Ledger!At("saved") \cup Ledger!At("evicted"))
    BY <1>2, AtPlace
  <2>2. Ledger!Send
    BY <1>1, <1>4, <2>1, Moves DEF Ledger!Send
  <2> QED
    BY <2>2 DEF LedgerStep, Ledger!Next
<1> QED
  BY <1>3, <1>4

(* Copies that nobody needs come and go. *)
LEMMA LedgerCopies ==
  ASSUME UNCHANGED <<flash, lost, discarded, delivered, accepted>>,
         \A i \in accepted : Safe(i) \/ (i \in captures <=> i \in captures')
  PROVE  LedgerStep
<1>1. \A i \in Images : Place(i)' = Place(i)
  BY DEF Safe, Place
<1> QED
  BY <1>1, NothingMoves

LEMMA LedgerSnapshot ==
  ASSUME TypeParts, OwnerInv, LedgerInv, NEW c \in Callers, CameraTask(c)
  PROVE  LedgerStep
<1>1. UNCHANGED <<flash, discarded, delivered, lost>>
  BY DEF CameraTask
<1>2. CASE NoFrame(c) \/ QueueIsFull(c)
  BY <1>1, <1>2, LedgerCopies DEF NoFrame, QueueIsFull
<1>3. CASE GrabFrame(c) \/ DropFrame(c)
  <2>1. /\ snap[c].pc # "idle" /\ UNCHANGED accepted
        /\ captures' \in {captures \cup {snap[c].img}, captures \ {snap[c].img}}
    BY <1>3 DEF GrabFrame, DropFrame, FreeCapture
  <2>2. snap[c].img \notin accepted
    BY <2>1 DEF OwnerInv, OwnSnapshots
  <2> QED
    BY <1>1, <2>1, <2>2, LedgerCopies
<1>4. CASE SendFrame(c)
  <2>1. /\ snap[c].pc = "send" /\ accepted' = accepted \cup {snap[c].img}
        /\ UNCHANGED captures
    BY <1>4 DEF SendFrame
  <2>2. snap[c].img \in captures /\ snap[c].img \in Images \ accepted
    BY <2>1 DEF OwnerInv, OwnSnapshots, AllPlaced, Placed, Taken
  <2>3. \A i \in Images : Place(i)' = IF i \in {snap[c].img} THEN "ram" ELSE Place(i)
    BY <1>1, <2>1, <2>2 DEF Place, LedgerInv, AcceptedInv
  <2>4. snap[c].img \in Ledger!At("none")
    BY <2>2, AtPlace DEF Place, LedgerInv, AcceptedInv
  <2>5. Ledger!Take
    BY <2>3, <2>4, Moves DEF Ledger!Take
  <2> QED
    BY <2>5 DEF LedgerStep, Ledger!Next
<1> QED
  BY <1>2, <1>3, <1>4 DEF CameraTask, SnapshotStep

(* storage_rm_oldest_file removes the oldest files. *)
LEMMA EvictsOldest ==
  ASSUME IsFiniteSet(Images), NEW i \in Evicted, NEW j \in Files \ Evicted
  PROVE  i < j
<1>1. Images \subseteq Nat /\ Files \subseteq Images
  BY ImagesAssumption DEF Files
<1> DEFINE later(k) == {f \in Files : f > k}
<1>2. \A k : IsFiniteSet(later(k)) /\ Cardinality(later(k)) \in Nat
  <2>1. \A k : later(k) \subseteq Images
    BY <1>1
  <2> QED
    BY <2>1, FS_Subset, FS_CardinalityType
<1>3. /\ Cardinality(later(i)) >= MaxFiles - 1
      /\ ~(Cardinality(later(j)) >= MaxFiles - 1)
      /\ i \in Nat /\ j \in Nat /\ i # j
  BY <1>1 DEF Evicted
<1>4. ASSUME j < i PROVE Cardinality(later(i)) <= Cardinality(later(j))
  <2>1. ASSUME NEW f \in later(i) PROVE f \in later(j)
    <3>1. f \in Files /\ f \in Nat /\ f > i
      BY <1>1
    <3>2. f > j
      BY <1>3, <1>4, <3>1
    <3> QED
      BY <3>1, <3>2
  <2> QED
    BY <1>2, <2>1, FS_Subset
<1> HIDE DEF later
<1>5. ~(j < i)
  BY <1>2, <1>3, <1>4, StorageAssumption
<1> QED
  BY <1>3, <1>5

LEMMA LedgerRecord ==
  ASSUME IsFiniteSet(Images), "flash" \notin Faults, TypeParts, OwnerInv, KeepInv, LedgerInv,
         RecordTask
  PROVE  LedgerStep
<1>1. UNCHANGED <<accepted, delivered, lost>>
  BY DEF RecordTask, RecordStep, RecordReceive, RecordOpenFile, RecordWriteFile, RecordFree
<1>2. /\ recPc # "recv" => recNode \in Node /\ recNode.img \in Images
      /\ flash \in [Images -> {"absent", "empty", "full"}]
  BY DEF TypeParts, RecordTypeOK, FlashTypeOK, Node
<1>3. recPc \in {"lock", "write"} =>
        /\ recNode = CameraNode(recNode.img) /\ recNode.img \in Images
        /\ recNode.img \in captures /\ recNode.img \in accepted
        /\ recNode.img \notin lost /\ recNode.img \notin discarded
  <2> SUFFICES ASSUME recPc \in {"lock", "write"}
               PROVE  /\ recNode = CameraNode(recNode.img) /\ recNode.img \in Images
                      /\ recNode.img \in captures /\ recNode.img \in accepted
                      /\ recNode.img \notin lost /\ recNode.img \notin discarded
    OBVIOUS
  <2>1. recNode = CameraNode(recNode.img) /\ recNode.img \in Images
    BY <1>2, NodesDiffer DEF KeepInv
  <2>2. recNode.img \in captures /\ recNode.img \in accepted
    BY <2>1 DEF OwnerInv, AllPlaced, Placed, OnItsWay
  <2> QED
    BY <2>1, <2>2 DEF LedgerInv, CopyInv
<1>4. CASE RecordReceive
  BY <1>1, <1>4, LedgerCopies DEF RecordReceive
<1>5. CASE RecordOpenFile
  <2> DEFINE S == {i \in Evicted : Place(i) = "saved"}
             own == recNode.img
  <2>1. /\ recPc = "lock" /\ UNCHANGED captures
        /\ discarded' = discarded \cup Evicted
        /\ flash' = [i \in Images |-> IF i = own THEN "empty"
                                      ELSE IF i \in Evicted THEN "absent" ELSE flash[i]]
    BY <1>5 DEF RecordOpenFile
  <2>2. Evicted \subseteq Files /\ Files = {i \in Images : flash[i] # "absent"}
    BY DEF Evicted, Files
  <2>3. \A i \in captures : flash[i] = "absent"
    BY <2>1 DEF LedgerInv, CopyInv, Saving
  <2>4. own \in captures /\ own \in accepted /\ own \in Images /\ own \notin lost
        /\ own \notin discarded /\ own \notin Evicted /\ flash[own] = "absent"
    BY <1>3, <2>1, <2>2, <2>3
  <2> HIDE DEF own
  <2>5. \A i \in Images : Place(i)' = IF i \in S THEN "evicted" ELSE Place(i)
    <3> SUFFICES ASSUME NEW i \in Images
                 PROVE  Place(i)' = IF i \in S THEN "evicted" ELSE Place(i)
      OBVIOUS
    <3>1. CASE i \notin Evicted
      BY <1>1, <2>1, <2>4, <3>1 DEF Place
    <3>2. CASE i \in Evicted /\ flash[i] = "full"
      <4>1. i # own /\ flash'[i] = "absent" /\ i \in discarded' /\ i \notin lost
        BY <2>1, <2>4, <3>2 DEF LedgerInv, CopyInv
      <4> QED
        BY <1>1, <3>2, <4>1 DEF Place
    <3>3. CASE i \in Evicted /\ flash[i] # "full"
      <4>1. i # own /\ flash'[i] = "absent" /\ i \in accepted /\ i \notin captures
        BY <2>1, <2>2, <2>3, <2>4, <3>3 DEF LedgerInv, AcceptedInv
      <4>2. i \in lost \/ i \in delivered \/ i \in discarded
        BY <3>3, <4>1 DEF KeepInv, NothingForgotten, Safe
      <4> QED
        BY <1>1, <2>1, <3>3, <4>1, <4>2 DEF Place
    <3> QED
      BY <3>1, <3>2, <3>3
  <2>6. S \in SUBSET Ledger!At("saved")
    BY <2>2, AtPlace
  <2>7. \A i \in S, j \in Ledger!At("saved") \ S : i < j
    <3>1. \A j \in Ledger!At("saved") \ S : j \in Files \ Evicted
      BY <2>2, AtPlace DEF Place
    <3> QED
      BY <3>1, EvictsOldest
  <2> HIDE DEF S
  <2>8. CASE S = {}
    BY <2>5, <2>8, NothingMoves
  <2>9. CASE S # {}
    <3>1. Ledger!Evict
      BY <2>5, <2>6, <2>7, <2>9, Moves DEF Ledger!Evict
    <3> QED
      BY <3>1 DEF LedgerStep, Ledger!Next
  <2> QED
    BY <2>8, <2>9
<1>6. CASE RecordWriteFile
  <2> DEFINE own == recNode.img
  <2>1. /\ recPc = "write" /\ UNCHANGED <<captures, discarded>>
        /\ flash' = [flash EXCEPT ![own] = "full"]
    BY <1>6 DEF RecordWriteFile
  <2>2. own \in captures /\ own \in accepted /\ own \in Images /\ own \notin lost
        /\ own \notin discarded
    BY <1>3, <2>1
  <2> HIDE DEF own
  <2>3. \A i \in Images : flash'[i] = IF i = own THEN "full" ELSE flash[i]
    BY <1>2, <2>1
  <2>4. CASE Place(own) # "ram"
    <3>1. Place(own) \in {"sent", "saved"}
      BY <2>2, <2>4 DEF Place
    <3>2. \A i \in Images : Place(i)' = Place(i)
      BY <1>1, <2>1, <2>2, <2>3, <3>1 DEF Place
    <3> QED
      BY <3>2, NothingMoves
  <2>5. CASE Place(own) = "ram"
    <3>1. own \notin delivered
      BY <2>5 DEF Place
    <3>2. \A i \in Images : Place(i)' = IF i \in {own} THEN "saved" ELSE Place(i)
      BY <1>1, <2>1, <2>2, <2>3, <3>1 DEF Place
    <3>3. own \in Ledger!At("ram")
      BY <2>2, <2>5, AtPlace
    <3>4. Ledger!Save
      BY <3>2, <3>3, Moves DEF Ledger!Save
    <3> QED
      BY <3>4 DEF LedgerStep, Ledger!Next
  <2> QED
    BY <2>4, <2>5
<1>7. CASE RecordFree
  <2>1. /\ recPc = "free" /\ UNCHANGED <<flash, discarded>>
        /\ \/ recNode.from = "camera" /\ captures' = captures \ {recNode.img}
           \/ UNCHANGED captures
    BY <1>7 DEF RecordFree, FreeNode, FreeCapture
  <2> QED
    BY <1>1, <2>1, LedgerCopies DEF KeepInv
<1> QED
  BY <1>4, <1>5, <1>6, <1>7 DEF RecordTask, RecordStep

LEMMA LedgerUpload ==
  ASSUME TypeParts, UnlinksOnlyDelivered, UploadTask
  PROVE  LedgerStep
<1>1. UNCHANGED <<accepted, captures, discarded, delivered, lost>>
  BY DEF UploadTask, UploadStep, UploadPark, UploadWaitStart, UploadOpenDir, UploadNextFile,
         UploadEndOfDir, UploadReadFile, UploadSend, UploadAwait, UploadUnlink
<1>2. \/ UNCHANGED flash
      \/ /\ flash' = [flash EXCEPT ![upFile] = "absent"]
         /\ flash[upFile] # "full" \/ upFile \in delivered
  BY DEF UploadTask, UploadStep, UploadPark, UploadWaitStart, UploadOpenDir, UploadNextFile,
         UploadEndOfDir, UploadReadFile, UploadSend, UploadAwait, UploadUnlink, Unlink,
         UnlinksOnlyDelivered
<1>3. \A i \in Images : i \notin delivered => (flash'[i] = "full" <=> flash[i] = "full")
  BY <1>2 DEF TypeParts, FlashTypeOK
<1>4. \A i \in Images : Place(i)' = Place(i)
  BY <1>1, <1>3 DEF Place
<1> QED
  BY <1>4, NothingMoves

LEMMA LedgerPush ==
  ASSUME TypeParts, OwnerInv, OneInFlight, KeepInv, LedgerInv, PushTask
  PROVE  LedgerStep
<1>1. UNCHANGED <<accepted, lost, discarded, flash>>
  BY DEF PushTask, PushStep, PushReadyTimeout, PushReceive, PushStore, PushSuccess, PublishFails,
         WebhookPublish, MqttPublishQos0, MqttPublish, PublishTimeout
<1>2. CASE PushSuccess /\ UNCHANGED mqttVars
  <2>1. /\ pushNode.img \in delivered /\ UNCHANGED delivered
        /\ captures' = captures \ {pushNode.img} \/ UNCHANGED captures
    BY <1>2 DEF PushSuccess, FreeNode, FreeCapture, OneInFlight, OkMeansDelivered
  <2> QED
    BY <1>1, <2>1, LedgerCopies DEF Safe
<1>3. CASE \/ (PushReadyTimeout \/ PushReceive \/ PushStore) /\ UNCHANGED mqttVars
           \/ PublishFails \/ WebhookPublish \/ MqttPublishQos0 \/ MqttPublish \/ PublishTimeout
  <2>1. /\ UNCHANGED captures
        /\ \/ UNCHANGED delivered
           \/ pushPc = "publish" /\ delivered' = delivered \cup {pushNode.img}
    BY <1>3 DEF PushReadyTimeout, PushReceive, PushStore, PublishFails, WebhookPublish,
                MqttPublishQos0, MqttPublish, PublishTimeout
  <2>2. pushPc = "publish" => pushNode.img \in accepted \ lost
    BY NodeIsLive DEF TypeParts, PushTypeOK
  <2>3. PICK S : S \subseteq accepted \ lost /\ delivered' = delivered \cup S
    <3>1. CASE UNCHANGED delivered
      BY <3>1, {} \subseteq accepted \ lost /\ delivered' = delivered \cup {}
    <3>2. CASE ~UNCHANGED delivered
      BY <2>1, <2>2, <3>2, {pushNode.img} \subseteq accepted \ lost
    <3> QED
      BY <3>1, <3>2
  <2> QED
    BY <1>1, <2>1, <2>3, LedgerSends, NodeIsLive DEF KeepInv
<1> QED
  BY <1>2, <1>3 DEF PushTask, PushStep

LEMMA LedgerFlight ==
  ASSUME TypeParts, OwnerInv, OneInFlight, KeepInv, LedgerInv,
         UNCHANGED LedgerVars, delivered \subseteq delivered', delivered' \subseteq delivered \cup inflight
  PROVE  LedgerStep
<1> DEFINE S == delivered' \ delivered
<1>1. S \subseteq accepted \ lost /\ delivered' = delivered \cup S
  BY NodeIsLive
<1> HIDE DEF S
<1> QED
  BY <1>1, LedgerSends, NodeIsLive DEF KeepInv, LedgerVars

LEMMA LedgerPowerOff ==
  ASSUME TypeParts, OwnerInv, OneInFlight, KeepInv, LedgerInv, PowerOff
  PROVE  LedgerStep
<1>1. /\ lost' = lost \cup {i \in captures \cap accepted : flash[i] # "full"}
      /\ captures' = {} /\ UNCHANGED <<accepted, flash, discarded>>
  BY DEF PowerOff, DevicePowerOff, CameraPowerOff, StoragePowerOff
<1>2. PICK arrived \in SUBSET inflight : delivered' = delivered \cup arrived
  BY DEF PowerOff, MqttPowerOff
<1> DEFINE T == arrived \ delivered
<1>3. \A i \in T : i \in Images /\ Place(i) \in {"ram", "saved", "evicted"}
  BY NodeIsLive DEF KeepInv, NothingForgotten, Safe, Place
<1>4. \A i \in Images : Place(i)' = IF i \in T THEN "sent"
                                    ELSE IF Place(i) = "ram" THEN "lost" ELSE Place(i)
  <2> SUFFICES ASSUME NEW i \in Images
               PROVE  Place(i)' = IF i \in T THEN "sent"
                                  ELSE IF Place(i) = "ram" THEN "lost" ELSE Place(i)
    OBVIOUS
  <2>1. CASE i \in delivered \/ i \in T
    BY <1>2, <2>1 DEF Place
  <2>2. CASE i \notin delivered /\ i \notin T /\ flash[i] = "full"
    BY <1>1, <1>2, <2>2 DEF Place
  <2>3. CASE i \notin delivered /\ i \notin T /\ flash[i] # "full"
    <3>1. i \notin delivered'
      BY <1>2, <2>3
    <3>2. CASE i \in captures
      BY <1>1, <2>3, <3>1, <3>2 DEF Place, LedgerInv, AcceptedInv, CopyInv
    <3>3. CASE i \notin captures
      BY <1>1, <2>3, <3>1, <3>3 DEF Place
    <3> QED
      BY <3>2, <3>3
  <2> QED
    BY <2>1, <2>2, <2>3
<1> HIDE DEF T
<1>5. T \in SUBSET (Ledger!At("ram") \cup Ledger!At("saved") \cup Ledger!At("evicted"))
  BY <1>3, AtPlace
<1>6. Ledger!PowerOff
  BY <1>4, <1>5 DEF Ledger!PowerOff
<1> QED
  BY <1>6 DEF LedgerStep, Ledger!Next

LEMMA StepsOfTheLedger ==
  ASSUME IsFiniteSet(Images), "flash" \notin Faults, "clear" \notin Faults,
         TypeParts, OwnerInv, OneInFlight, UnlinksOnlyDelivered, KeepInv, LedgerInv, [Next]_vars
  PROVE  LedgerStep
<1>1. CASE Boot \/ UNCHANGED vars \/ MainRests \/ MqttTask \/ EnvironmentRests
  BY <1>1, FlightSteps, LedgerFlight
<1>2. ASSUME NEW c \in Callers, CameraTask(c) PROVE LedgerStep
  BY <1>2, LedgerSnapshot
<1> QED
  BY <1>1, <1>2, StepKinds, LedgerPowerOff, LedgerRecord, LedgerUpload, LedgerPush

LEMMA LedgerStarts == Init => Ledger!Init
<1> SUFFICES ASSUME Init PROVE Ledger!Init
  OBVIOUS
<1>1. /\ captures = {} /\ accepted = Files /\ discarded = {} /\ delivered = {} /\ lost = {}
      /\ \A i \in Images : flash[i] \in {"full", "absent"}
  BY DEF Init, CameraInit, StorageInit, MqttInit
<1>2. \A i \in Images : Place(i) \in {"none", "saved"}
  BY <1>1 DEF Place, Files
<1> QED
  BY <1>2 DEF Ledger!Init

(* The tasks, queues, bits and files of the firmware implement the ledger, *)
(* for every number of images, files and queue slots: every step moves     *)
(* images as an owner expects, none is destroyed, and the record task      *)
(* evicts no file while it keeps an older one.                             *)
THEOREM LedgerIsImplemented ==
  ASSUME IsFiniteSet(Images), NeverLate, OneUpload, "flash" \notin Faults, "clear" \notin Faults
  PROVE  Spec => ImplementsLedger
<1>1. DeliveryInv => OneInFlight /\ OkMeansDelivered
  BY DEF DeliveryInv, OneInFlight
<1>2. TypeParts /\ OwnerInv /\ OneInFlight /\ ReadIntact /\ KeepInv /\ LedgerInv /\ [Next]_vars
        => LedgerInv'
  BY NextLedger
<1>3. TypeParts /\ OwnerInv /\ OneInFlight /\ UnlinksOnlyDelivered /\ KeepInv /\ LedgerInv
        /\ [Next]_vars => LedgerStep
  BY StepsOfTheLedger
<1>4. LedgerStep => [Ledger!Next]_Where
  BY DEF LedgerStep
<1>5. Spec => []LedgerInv
  BY <1>1, <1>2, InitLedger, PartsCorrect, OwnersCorrect, ReadStaysIntact, SessionsCorrect,
     KeepsCorrect, PTL DEF Spec
<1>6. Spec => [][Ledger!Next]_Where
  BY <1>1, <1>3, <1>4, <1>5, PartsCorrect, OwnersCorrect, SessionsCorrect, UnlinksAfterDelivery,
     KeepsCorrect, PTL DEF Spec
<1>7. Spec => Ledger!Init
  BY LedgerStarts, PTL DEF Spec
<1> QED
  BY <1>6, <1>7, PTL DEF ImplementsLedger, Ledger!Spec, Where
=============================================================================
