--------------------------- MODULE OwnershipProofs ---------------------------
(***************************************************************************)
(* Who frees the heap copy of an image, for every number of images, queue  *)
(* size, caller of camera_snapshot, boot mode and set of faults: exactly   *)
(* one task or queue holds each copy, captureCount counts them, and the    *)
(* sleep bit follows the count.                                            *)
(***************************************************************************)
EXTENDS ImagePipelineProofs, FiniteSetTheorems

-----------------------------------------------------------------------------
(* One image in one queue. *)

InQueue(q, i) == \E k \in 1..Len(q) : q[k] = CameraNode(i)

Single(q, i) ==
  \A j, k \in 1..Len(q) : q[j] = CameraNode(i) /\ q[k] = CameraNode(i) => j = k

LEMMA AppendedIn ==
  ASSUME NEW q \in Seq(Node), NEW n \in Node, NEW i
  PROVE  /\ InQueue(Append(q, n), i) <=> InQueue(q, i) \/ n = CameraNode(i)
         /\ Single(q, i) /\ (n = CameraNode(i) => ~InQueue(q, i)) => Single(Append(q, n), i)
<1> DEFINE a == Append(q, n)
<1>1. /\ Len(q) \in Nat /\ Len(a) = Len(q) + 1 /\ a[Len(q) + 1] = n
      /\ \A k \in 1..Len(q) : a[k] = q[k]
  OBVIOUS
<1> HIDE DEF a
<1>2. InQueue(a, i) <=> InQueue(q, i) \/ n = CameraNode(i)
  BY <1>1 DEF InQueue
<1>3. Single(q, i) /\ (n = CameraNode(i) => ~InQueue(q, i)) => Single(a, i)
  <2> SUFFICES ASSUME Single(q, i), n = CameraNode(i) => ~InQueue(q, i),
                      NEW j \in 1..Len(a), NEW k \in 1..Len(a),
                      a[j] = CameraNode(i), a[k] = CameraNode(i)
               PROVE  j = k
    BY DEF Single
  <2>1. CASE n = CameraNode(i)
    BY <1>1, <2>1 DEF InQueue
  <2>2. CASE n # CameraNode(i)
    BY <1>1, <2>2 DEF Single
  <2> QED
    BY <2>1, <2>2
<1> QED
  BY <1>2, <1>3 DEF a

LEMMA TakenFrom ==
  ASSUME NEW q \in Seq(Node), q # <<>>, NEW i
  PROVE  /\ InQueue(q, i) <=> Head(q) = CameraNode(i) \/ InQueue(Tail(q), i)
         /\ Single(q, i) => /\ Single(Tail(q), i)
                            /\ Head(q) = CameraNode(i) => ~InQueue(Tail(q), i)
<1> DEFINE t == Tail(q)
<1>1. /\ Len(q) \in Nat \ {0} /\ Len(t) = Len(q) - 1 /\ q[1] = Head(q)
      /\ \A k \in 1..Len(t) : t[k] = q[k + 1]
  OBVIOUS
<1> HIDE DEF t
<1>2. InQueue(q, i) <=> Head(q) = CameraNode(i) \/ InQueue(t, i)
  <2>1. InQueue(t, i) => InQueue(q, i)
    BY <1>1 DEF InQueue
  <2>2. Head(q) = CameraNode(i) => InQueue(q, i)
    BY <1>1 DEF InQueue
  <2>3. ASSUME NEW k \in 1..Len(q), q[k] = CameraNode(i), k # 1 PROVE InQueue(t, i)
    <3>1. k - 1 \in 1..Len(t) /\ t[k - 1] = q[k]
      BY <1>1, <2>3
    <3> QED
      BY <2>3, <3>1 DEF InQueue
  <2> QED
    BY <1>1, <2>1, <2>2, <2>3 DEF InQueue
<1>3. ASSUME Single(q, i) PROVE Single(t, i)
  <2> SUFFICES ASSUME NEW j \in 1..Len(t), NEW k \in 1..Len(t),
                      t[j] = CameraNode(i), t[k] = CameraNode(i)
               PROVE  j = k
    BY DEF Single
  <2>1. j + 1 \in 1..Len(q) /\ k + 1 \in 1..Len(q) /\ q[j + 1] = t[j] /\ q[k + 1] = t[k]
    BY <1>1
  <2>2. j + 1 = k + 1
    BY <1>3, <2>1 DEF Single
  <2> QED
    BY <2>2
<1>4. ASSUME Single(q, i), Head(q) = CameraNode(i), NEW k \in 1..Len(t), t[k] = CameraNode(i)
      PROVE  FALSE
  <2>1. 1 \in 1..Len(q) /\ k + 1 \in 1..Len(q) /\ q[k + 1] = CameraNode(i) /\ q[1] = CameraNode(i)
    BY <1>1, <1>4
  <2>2. 1 = k + 1
    BY <1>4, <2>1 DEF Single
  <2> QED
    BY <2>2
<1> QED
  BY <1>2, <1>3, <1>4 DEF t, InQueue

LEMMA NodesDiffer ==
  /\ \A i \in Images, j \in Images : CameraNode(i) = CameraNode(j) => i = j
  /\ \A i \in Images, j \in Images : StorageNode(i) # CameraNode(j)
  /\ \A i \in Images : NoNode # CameraNode(i)
  /\ \A n \in Node : n.img \in Images /\ (n.from = "camera" <=> n = CameraNode(n.img))
  /\ \A i \in Images : CameraNode(i).img = i /\ CameraNode(i).from = "camera"
  BY DEF CameraNode, StorageNode, NoNode, Node

-----------------------------------------------------------------------------
(***************************************************************************)
(* The invariant.  A task that waits for a node holds none; the image of   *)
(* a snapshot under way is the caller's own, and no queue has accepted it; *)
(* an image on its way is in one place, and it is accepted; the copies     *)
(* that are allocated are those on their way or in a caller's hands.       *)
(***************************************************************************)

TasksIdle ==
  /\ recPc = "recv" => recNode = NoNode
  /\ pushPc \in {"start", "recv"} => pushNode = NoNode

OwnSnapshots ==
  \A c \in Callers :
    snap[c].pc # "idle" =>
      /\ snap[c].img \in Images \ accepted
      /\ \A d \in Callers : snap[d].pc # "idle" /\ snap[d].img = snap[c].img => c = d

Taken(i) == \E c \in Callers : snap[c].pc \in {"send", "drop"} /\ snap[c].img = i

OnItsWay(i) ==
  \/ InQueue(mqttQueue, i)
  \/ InQueue(storageQueue, i)
  \/ pushNode = CameraNode(i)
  \/ recNode = CameraNode(i)

InOnePlace(i) ==
  /\ Single(mqttQueue, i) /\ Single(storageQueue, i)
  /\ InQueue(mqttQueue, i) =>
       ~InQueue(storageQueue, i) /\ pushNode # CameraNode(i) /\ recNode # CameraNode(i)
  /\ InQueue(storageQueue, i) => pushNode # CameraNode(i) /\ recNode # CameraNode(i)
  /\ pushNode = CameraNode(i) => recNode # CameraNode(i)

Placed(i) ==
  /\ InOnePlace(i)
  /\ OnItsWay(i) => i \in accepted
  /\ i \in captures <=> OnItsWay(i) \/ Taken(i)

AllPlaced == \A i \in Images : Placed(i)

OwnerInv == TasksIdle /\ OwnSnapshots /\ AllPlaced

OwnerVars == <<captures, mqttQueue, storageQueue, pushNode, recNode, snap, accepted>>

LEMMA Unmoved ==
  ASSUME OwnerInv, UNCHANGED OwnerVars,
         recPc' = "recv" => recPc = "recv",
         pushPc' \in {"start", "recv"} => pushPc \in {"start", "recv"}
  PROVE  OwnerInv'
<1>1. TasksIdle'
  BY DEF OwnerInv, TasksIdle, OwnerVars
<1>2. OwnSnapshots'
  BY DEF OwnerInv, OwnSnapshots, OwnerVars
<1>3. AllPlaced'
  BY DEF OwnerInv, AllPlaced, Placed, InOnePlace, OnItsWay, Taken, InQueue, Single, OwnerVars
<1> QED
  BY <1>1, <1>2, <1>3 DEF OwnerInv

-----------------------------------------------------------------------------
(* camera_snapshot *)

USE DEF deviceVars, cameraVars, flashVars, recVars, upVars, storageVars, pushVars, mqttVars, mainVars

LEMMA TryAgainOwn ==
  ASSUME SnapTypeOK, OwnSnapshots, NEW c \in Callers, snap[c].pc # "idle", TryAgain(c),
         UNCHANGED accepted
  PROVE  /\ OwnSnapshots'
         /\ snap'[c].pc \notin {"send", "drop"}
         /\ \A d \in Callers \ {c} : snap'[d] = snap[d]
<1>1. /\ \A d \in Callers \ {c} : snap'[d] = snap[d]
      /\ \/ snap'[c].pc = "idle"
         \/ snap'[c].pc = "try" /\ snap'[c].img = snap[c].img
  BY DEF TryAgain, SnapTypeOK, NotInSnapshot
<1>2. OwnSnapshots'
  BY <1>1 DEF OwnSnapshots
<1> QED
  BY <1>1, <1>2

LEMMA SnapshotStepOwner ==
  ASSUME TypeParts, OwnerInv, NEW c \in Callers, CameraTask(c)
  PROVE  OwnerInv'
<1>0. SnapTypeOK /\ QueueTypeOK /\ TasksIdle /\ OwnSnapshots /\ AllPlaced
  BY DEF TypeParts, OwnerInv
<1>1. UNCHANGED <<recPc, recNode, pushPc, pushNode>>
  BY DEF CameraTask
<1>2. TasksIdle'
  BY <1>0, <1>1 DEF TasksIdle
<1>3. CASE NoFrame(c)
  <2>1. /\ snap[c].pc = "try" /\ TryAgain(c)
        /\ UNCHANGED <<captures, accepted, mqttQueue, storageQueue>>
    BY <1>3 DEF NoFrame
  <2>2. OwnSnapshots' /\ \A i : Taken(i)' = Taken(i)
    BY <1>0, <2>1, TryAgainOwn DEF Taken
  <2>3. AllPlaced'
    BY <1>0, <1>1, <2>1, <2>2 DEF AllPlaced, Placed, InOnePlace, OnItsWay, InQueue, Single
  <2> QED
    BY <1>2, <2>2, <2>3 DEF OwnerInv
<1>4. CASE GrabFrame(c)
  <2>1. /\ snap[c].pc = "try" /\ snap' = [snap EXCEPT ![c].pc = "send"]
        /\ captures' = captures \cup {snap[c].img}
        /\ UNCHANGED <<accepted, mqttQueue, storageQueue>>
    BY <1>4 DEF GrabFrame
  <2>2. /\ \A d \in Callers \ {c} : snap'[d] = snap[d]
        /\ snap'[c].pc = "send" /\ snap'[c].img = snap[c].img
    BY <1>0, <2>1 DEF SnapTypeOK, SnapState, NotInSnapshot
  <2>3. OwnSnapshots'
    BY <1>0, <2>1, <2>2 DEF OwnSnapshots
  <2>4. \A i \in Images : Taken(i)' <=> Taken(i) \/ i = snap[c].img
    BY <2>1, <2>2 DEF Taken
  <2>5. AllPlaced'
    BY <1>0, <1>1, <2>1, <2>4 DEF AllPlaced, Placed, InOnePlace, OnItsWay, InQueue, Single
  <2> QED
    BY <1>2, <2>3, <2>5 DEF OwnerInv
<1>5. CASE SendFrame(c)
  <2>1. /\ snap[c].pc = "send" /\ snap' = [snap EXCEPT ![c] = NotInSnapshot]
        /\ accepted' = accepted \cup {snap[c].img} /\ captures' = captures
    BY <1>5 DEF SendFrame
  <2> DEFINE img == snap[c].img
  <2>2. /\ \A d \in Callers \ {c} : snap'[d] = snap[d]
        /\ snap'[c].pc = "idle" /\ img \in Images \ accepted
    BY <1>0, <2>1 DEF SnapTypeOK, NotInSnapshot, OwnSnapshots
  <2>3. OwnSnapshots'
    BY <1>0, <2>1, <2>2 DEF OwnSnapshots
  <2>4. \A i \in Images : Taken(i) <=> Taken(i)' \/ i = img
    BY <1>0, <2>1, <2>2 DEF Taken, OwnSnapshots
  <2>5. \A i \in Images : Taken(i)' => i # img
    <3>1. ASSUME NEW d \in Callers, snap[d].pc \in {"send", "drop"}, snap[d].img = img
          PROVE  c = d
      BY <1>0, <2>1, <3>1 DEF OwnSnapshots
    <3> QED
      BY <2>2, <3>1 DEF Taken
  <2>6. CameraNode(img) \in Node /\ ~OnItsWay(img)
    BY <1>0, <2>2, NodeType DEF AllPlaced, Placed
  <2>7. \/ mqttQueue' = Append(mqttQueue, CameraNode(img)) /\ storageQueue' = storageQueue
        \/ storageQueue' = Append(storageQueue, CameraNode(img)) /\ mqttQueue' = mqttQueue
    BY <1>5 DEF SendFrame, SendToMqtt, SendToStorage
  <2>8. ASSUME NEW i \in Images PROVE Placed(i)'
    <3>1. mqttQueue \in Seq(Node) /\ storageQueue \in Seq(Node)
      BY <1>0 DEF QueueTypeOK
    <3>2. CameraNode(i) = CameraNode(img) <=> i = img
      BY <2>2, NodesDiffer
    <3>3. Placed(i)
      BY <1>0 DEF AllPlaced
    <3>4. CASE mqttQueue' = Append(mqttQueue, CameraNode(img)) /\ storageQueue' = storageQueue
      <4>1. /\ InQueue(mqttQueue', i) <=> InQueue(mqttQueue, i) \/ i = img
            /\ Single(mqttQueue', i)
        BY <2>6, <3>1, <3>2, <3>3, <3>4, AppendedIn DEF Placed, InOnePlace, OnItsWay
      <4> QED
        BY <1>1, <2>1, <2>4, <2>5, <2>6, <3>3, <3>4, <4>1 DEF Placed, InOnePlace, OnItsWay
    <3>5. CASE storageQueue' = Append(storageQueue, CameraNode(img)) /\ mqttQueue' = mqttQueue
      <4>1. /\ InQueue(storageQueue', i) <=> InQueue(storageQueue, i) \/ i = img
            /\ Single(storageQueue', i)
        BY <2>6, <3>1, <3>2, <3>3, <3>5, AppendedIn DEF Placed, InOnePlace, OnItsWay
      <4> QED
        BY <1>1, <2>1, <2>4, <2>5, <2>6, <3>3, <3>5, <4>1 DEF Placed, InOnePlace, OnItsWay
    <3> QED
      BY <2>7, <3>4, <3>5
  <2> QED
    BY <1>2, <2>3, <2>8 DEF OwnerInv, AllPlaced
<1>6. CASE QueueIsFull(c)
  <2>1. /\ snap[c].pc = "send" /\ snap' = [snap EXCEPT ![c].pc = "drop"]
        /\ UNCHANGED <<captures, accepted, mqttQueue, storageQueue>>
    BY <1>6 DEF QueueIsFull
  <2>2. /\ \A d \in Callers \ {c} : snap'[d] = snap[d]
        /\ snap'[c].pc = "drop" /\ snap'[c].img = snap[c].img
    BY <1>0, <2>1 DEF SnapTypeOK, SnapState, NotInSnapshot
  <2>3. OwnSnapshots' /\ \A i \in Images : Taken(i)' <=> Taken(i)
    BY <1>0, <2>1, <2>2 DEF OwnSnapshots, Taken
  <2>4. AllPlaced'
    BY <1>0, <1>1, <2>1, <2>3 DEF AllPlaced, Placed, InOnePlace, OnItsWay, InQueue, Single
  <2> QED
    BY <1>2, <2>3, <2>4 DEF OwnerInv
<1>7. CASE DropFrame(c)
  <2>1. /\ snap[c].pc = "drop" /\ TryAgain(c) /\ captures' = captures \ {snap[c].img}
        /\ UNCHANGED <<accepted, mqttQueue, storageQueue>>
    BY <1>7 DEF DropFrame, FreeCapture
  <2>2. /\ OwnSnapshots' /\ snap'[c].pc \notin {"send", "drop"}
        /\ \A d \in Callers \ {c} : snap'[d] = snap[d]
    BY <1>0, <2>1, TryAgainOwn
  <2>3. \A i \in Images : Taken(i)' <=> Taken(i) /\ i # snap[c].img
    BY <1>0, <2>1, <2>2 DEF Taken, OwnSnapshots
  <2>4. ~OnItsWay(snap[c].img)
    BY <1>0, <2>1 DEF AllPlaced, Placed, OwnSnapshots
  <2>5. AllPlaced'
    BY <1>0, <1>1, <2>1, <2>3, <2>4 DEF AllPlaced, Placed, InOnePlace, OnItsWay, InQueue, Single
  <2> QED
    BY <1>2, <2>2, <2>5 DEF OwnerInv
<1> QED
  BY <1>3, <1>4, <1>5, <1>6, <1>7 DEF CameraTask, SnapshotStep

-----------------------------------------------------------------------------
(* The record, upload and push tasks *)

LEMMA FreedNode ==
  ASSUME NEW node \in Node, NEW bit, FreeNode(node, bit)
  PROVE  \A i \in Images : i \in captures' <=> i \in captures /\ node # CameraNode(i)
<1>1. CASE node.from = "camera" /\ FreeCapture(node.img)
  BY <1>1, NodesDiffer DEF FreeCapture
<1>2. CASE node.from = "storage" /\ captures' = captures
  BY <1>2, NodesDiffer
<1> QED
  BY <1>1, <1>2 DEF FreeNode

LEMMA RecordTaskOwner ==
  ASSUME TypeParts, OwnerInv, RecordTask
  PROVE  OwnerInv'
<1>0. QueueTypeOK /\ RecordTypeOK /\ TasksIdle /\ OwnSnapshots /\ AllPlaced
  BY DEF TypeParts, OwnerInv
<1>1. UNCHANGED <<pushPc, pushNode>>
  BY DEF RecordTask
<1>2. CASE RecordReceive
  <2>1. /\ recNode = NoNode /\ storageQueue \in Seq(Node) /\ storageQueue # <<>>
        /\ recNode' = Head(storageQueue) /\ storageQueue' = Tail(storageQueue)
        /\ recPc' # "recv"
        /\ UNCHANGED <<captures, mqttQueue, snap, accepted>>
    BY <1>0, <1>2 DEF RecordReceive, TasksIdle, QueueTypeOK
  <2>2. TasksIdle' /\ OwnSnapshots'
    BY <1>0, <1>1, <2>1 DEF TasksIdle, OwnSnapshots
  <2>3. ASSUME NEW i \in Images PROVE Placed(i)'
    <3>1. Placed(i) /\ recNode # CameraNode(i)
      BY <1>0, <2>1, NodesDiffer DEF AllPlaced
    <3>2. /\ InQueue(storageQueue, i) <=> recNode' = CameraNode(i) \/ InQueue(storageQueue', i)
          /\ Single(storageQueue', i)
          /\ recNode' = CameraNode(i) => ~InQueue(storageQueue', i)
      BY <2>1, <3>1, TakenFrom DEF Placed, InOnePlace
    <3> QED
      BY <1>1, <2>1, <3>1, <3>2 DEF Placed, InOnePlace, OnItsWay, Taken
  <2> QED
    BY <2>2, <2>3 DEF OwnerInv, AllPlaced
<1>3. CASE RecordOpenFile \/ RecordWriteFile
  BY <1>1, <1>3, Unmoved DEF RecordOpenFile, RecordWriteFile, OwnerVars
<1>4. CASE RecordFree
  <2>1. /\ recNode \in Node /\ recNode' = NoNode
        /\ UNCHANGED <<mqttQueue, storageQueue, snap, accepted>>
    BY <1>0, <1>4 DEF RecordFree, RecordTypeOK
  <2>2. \A i \in Images : i \in captures' <=> i \in captures /\ recNode # CameraNode(i)
    BY <1>4, <2>1, FreedNode DEF RecordFree
  <2>3. TasksIdle' /\ OwnSnapshots'
    BY <1>0, <1>1, <2>1 DEF TasksIdle, OwnSnapshots
  <2>4. ASSUME NEW i \in Images PROVE Placed(i)'
    <3>1. Placed(i) /\ recNode' # CameraNode(i)
      BY <1>0, <2>1, NodesDiffer DEF AllPlaced
    <3>2. recNode = CameraNode(i) => ~Taken(i)
      BY <1>0, <3>1 DEF Placed, OnItsWay, Taken, OwnSnapshots
    <3> QED
      BY <1>1, <2>1, <2>2, <3>1, <3>2
         DEF Placed, InOnePlace, OnItsWay, Taken, InQueue, Single
  <2> QED
    BY <2>3, <2>4 DEF OwnerInv, AllPlaced
<1> QED
  BY <1>2, <1>3, <1>4 DEF RecordTask, RecordStep

LEMMA UploadTaskOwner ==
  ASSUME TypeParts, OwnerInv, UploadTask
  PROVE  OwnerInv'
<1>1. UNCHANGED <<pushPc, pushNode, recPc, recNode, captures, snap, accepted, storageQueue>>
  BY DEF UploadTask, UploadStep, UploadPark, UploadWaitStart, UploadOpenDir, UploadNextFile,
         UploadEndOfDir, UploadReadFile, UploadSend, UploadAwait, UploadUnlink
<1>2. CASE mqttQueue' = mqttQueue
  BY <1>1, <1>2, Unmoved DEF OwnerVars
<1>3. CASE UploadSend
  <2>1. mqttQueue' = Append(mqttQueue, StorageNode(upFile)) /\ upFile \in Images
    BY <1>3 DEF UploadSend, TypeParts, UploadTypeOK, UploadBusy
  <2>2. mqttQueue \in Seq(Node) /\ StorageNode(upFile) \in Node
    BY <2>1, NodeType DEF TypeParts, QueueTypeOK
  <2>3. TasksIdle' /\ OwnSnapshots'
    BY <1>1 DEF OwnerInv, TasksIdle, OwnSnapshots
  <2>4. ASSUME NEW i \in Images PROVE Placed(i)'
    <3>1. Placed(i) /\ StorageNode(upFile) # CameraNode(i)
      BY <2>1, NodesDiffer DEF OwnerInv, AllPlaced
    <3>2. (InQueue(mqttQueue', i) <=> InQueue(mqttQueue, i)) /\ Single(mqttQueue', i)
      BY <2>1, <2>2, <3>1, AppendedIn DEF Placed, InOnePlace
    <3> QED
      BY <1>1, <3>1, <3>2 DEF Placed, InOnePlace, OnItsWay, Taken
  <2> QED
    BY <2>3, <2>4 DEF OwnerInv, AllPlaced
<1>4. mqttQueue' = mqttQueue \/ UploadSend
  BY DEF UploadTask, UploadStep, UploadPark, UploadWaitStart, UploadOpenDir, UploadNextFile,
         UploadEndOfDir, UploadReadFile, UploadAwait, UploadUnlink
<1> QED
  BY <1>2, <1>3, <1>4

LEMMA PushTaskOwner ==
  ASSUME TypeParts, OwnerInv, PushTask
  PROVE  OwnerInv'
<1>0. QueueTypeOK /\ PushTypeOK /\ TasksIdle /\ OwnSnapshots /\ AllPlaced
  BY DEF TypeParts, OwnerInv
<1>1. CASE PushReadyTimeout \/ PublishFails \/ WebhookPublish \/ MqttPublishQos0 \/ MqttPublish
             \/ PublishTimeout
  BY <1>1, Unmoved DEF PushReadyTimeout, PublishFails, WebhookPublish, MqttPublishQos0,
                       MqttPublish, PublishTimeout, OwnerVars
<1>2. CASE PushReceive
  <2>1. /\ pushNode = NoNode /\ mqttQueue \in Seq(Node) /\ mqttQueue # <<>>
        /\ pushNode' = Head(mqttQueue) /\ mqttQueue' = Tail(mqttQueue)
        /\ pushPc' \notin {"start", "recv"}
        /\ UNCHANGED <<captures, storageQueue, snap, accepted, recPc, recNode>>
    BY <1>0, <1>2 DEF PushReceive, TasksIdle, QueueTypeOK
  <2>2. TasksIdle' /\ OwnSnapshots'
    BY <1>0, <2>1 DEF TasksIdle, OwnSnapshots
  <2>3. ASSUME NEW i \in Images PROVE Placed(i)'
    <3>1. Placed(i) /\ pushNode # CameraNode(i)
      BY <1>0, <2>1, NodesDiffer DEF AllPlaced
    <3>2. /\ InQueue(mqttQueue, i) <=> pushNode' = CameraNode(i) \/ InQueue(mqttQueue', i)
          /\ Single(mqttQueue', i)
          /\ pushNode' = CameraNode(i) => ~InQueue(mqttQueue', i)
      BY <2>1, <3>1, TakenFrom DEF Placed, InOnePlace
    <3> QED
      BY <2>1, <3>1, <3>2 DEF Placed, InOnePlace, OnItsWay, Taken
  <2> QED
    BY <2>2, <2>3 DEF OwnerInv, AllPlaced
<1>3. CASE PushStore
  <2>1. /\ pushNode \in Node /\ storageQueue \in Seq(Node) /\ pushNode' = NoNode
        /\ storageQueue' = Append(storageQueue, pushNode)
        /\ UNCHANGED <<captures, mqttQueue, snap, accepted, recPc, recNode>>
    BY <1>0, <1>3 DEF PushStore, PushTypeOK, QueueTypeOK
  <2>2. TasksIdle' /\ OwnSnapshots'
    BY <1>0, <2>1 DEF TasksIdle, OwnSnapshots
  <2>3. ASSUME NEW i \in Images PROVE Placed(i)'
    <3>1. Placed(i) /\ pushNode' # CameraNode(i)
      BY <1>0, <2>1, NodesDiffer DEF AllPlaced
    <3>2. /\ InQueue(storageQueue', i) <=> InQueue(storageQueue, i) \/ pushNode = CameraNode(i)
          /\ Single(storageQueue', i)
      BY <2>1, <3>1, AppendedIn DEF Placed, InOnePlace
    <3> QED
      BY <2>1, <3>1, <3>2 DEF Placed, InOnePlace, OnItsWay, Taken
  <2> QED
    BY <2>2, <2>3 DEF OwnerInv, AllPlaced
<1>4. CASE PushSuccess
  <2>1. /\ pushNode \in Node /\ pushNode' = NoNode
        /\ UNCHANGED <<mqttQueue, storageQueue, snap, accepted, recPc, recNode>>
    BY <1>0, <1>4 DEF PushSuccess, PushTypeOK
  <2>2. \A i \in Images : i \in captures' <=> i \in captures /\ pushNode # CameraNode(i)
    BY <1>4, <2>1, FreedNode DEF PushSuccess
  <2>3. TasksIdle' /\ OwnSnapshots'
    BY <1>0, <2>1 DEF TasksIdle, OwnSnapshots
  <2>4. ASSUME NEW i \in Images PROVE Placed(i)'
    <3>1. Placed(i) /\ pushNode' # CameraNode(i)
      BY <1>0, <2>1, NodesDiffer DEF AllPlaced
    <3>2. pushNode = CameraNode(i) => ~Taken(i)
      BY <1>0, <3>1 DEF Placed, OnItsWay, Taken, OwnSnapshots
    <3> QED
      BY <2>1, <2>2, <3>1, <3>2
         DEF Placed, InOnePlace, OnItsWay, Taken, InQueue, Single
  <2> QED
    BY <2>3, <2>4 DEF OwnerInv, AllPlaced
<1> QED
  BY <1>1, <1>2, <1>3, <1>4 DEF PushTask, PushStep

-----------------------------------------------------------------------------
(* The main task, the network and the environment *)

LEMMA PowerOffOwner == PowerOff => OwnerInv'
<1> SUFFICES ASSUME PowerOff PROVE OwnerInv'
  OBVIOUS
<1>1. /\ mqttQueue' = <<>> /\ storageQueue' = <<>> /\ captures' = {}
      /\ recNode' = NoNode /\ pushNode' = NoNode
      /\ snap' = [c \in Callers |-> NotInSnapshot]
  BY DEF PowerOff, DevicePowerOff, CameraPowerOff, StoragePowerOff, PushPowerOff
<1>2. \A c \in Callers : snap'[c].pc = "idle"
  BY <1>1 DEF NotInSnapshot
<1>3. AllPlaced'
  BY <1>1, <1>2, NodesDiffer
     DEF AllPlaced, Placed, InOnePlace, OnItsWay, Taken, InQueue, Single
<1> QED
  BY <1>1, <1>2, <1>3 DEF OwnerInv, TasksIdle, OwnSnapshots

LEMMA SnapshotCallOwner ==
  ASSUME TypeParts, OwnerInv, NEW c \in Callers, SnapshotCall(c),
         UNCHANGED <<recPc, recNode, pushPc, pushNode>>
  PROVE  OwnerInv'
<1>1. PICK i \in Fresh : snap' = [snap EXCEPT ![c] = [pc |-> "try", img |-> i, tries |-> TryCount]]
  BY DEF SnapshotCall
<1>2. /\ snap[c].pc = "idle"
      /\ UNCHANGED <<captures, accepted, mqttQueue, storageQueue>>
  BY DEF SnapshotCall
<1>3. /\ \A d \in Callers \ {c} : snap'[d] = snap[d]
      /\ snap'[c].pc = "try" /\ snap'[c].img = i
  BY <1>1 DEF TypeParts, SnapTypeOK
<1>4. i \in Images \ accepted /\ \A d \in Callers : snap[d].img # i
  BY <1>1 DEF Fresh
<1>5. OwnSnapshots'
  BY <1>2, <1>3, <1>4 DEF OwnerInv, OwnSnapshots
<1>6. \A j \in Images : Taken(j)' <=> Taken(j)
  BY <1>2, <1>3 DEF Taken
<1>7. AllPlaced'
  BY <1>2, <1>6 DEF OwnerInv, AllPlaced, Placed, InOnePlace, OnItsWay, InQueue, Single
<1> QED
  BY <1>5, <1>7 DEF OwnerInv, TasksIdle

LEMMA MainStepOwner ==
  ASSUME TypeParts, OwnerInv, MainStep
  PROVE  OwnerInv'
<1>1. CASE MainSnapshot
  BY <1>1, SnapshotCallOwner, CameraAssumption DEF MainSnapshot
<1>2. CASE DeepSleep
  BY <1>2, PowerOffOwner DEF DeepSleep
<1>3. CASE MainSleepStart
  <2>1. UNCHANGED <<OwnerVars, recPc>> /\ (pushPc' \in {"start", "recv"} => pushPc \in {"start", "recv"})
    BY <1>3 DEF MainSleepStart, PushStop, PushExit, PushReady, OwnerVars
  <2> QED
    BY <2>1, Unmoved
<1>4. CASE MainNetOpen \/ MainNetReady \/ MainCameraInit \/ MainCameraOpened \/ MainAfterSnapshot
             \/ MainCameraClose \/ MainWork \/ MainSleepWait
  <2>1. UNCHANGED <<OwnerVars, recPc, pushPc>>
    BY <1>4 DEF MainNetOpen, MainNetReady, MainCameraInit, MainCameraOpened, MainAfterSnapshot,
                MainCameraClose, MainWork, MainSleepWait, CameraInitOK, CameraInitFails,
                CameraOpened, CameraClose, OwnerVars
  <2> QED
    BY <2>1, Unmoved
<1> QED
  BY <1>1, <1>2, <1>3, <1>4 DEF MainStep

LEMMA MqttTaskOwner ==
  ASSUME OwnerInv, MqttTask
  PROVE  OwnerInv'
<1>1. UNCHANGED <<OwnerVars, recPc>> /\ (pushPc' \in {"start", "recv"} => pushPc \in {"start", "recv"})
  BY DEF MqttTask, MqttEvent, MqttConnected, MqttSubscribed, MqttDisconnected, MqttPublished,
         PushExit, PushReady, OwnerVars
<1> QED
  BY <1>1, Unmoved

LEMMA EnvironmentOwner ==
  ASSUME TypeParts, OwnerInv, Environment
  PROVE  OwnerInv'
<1>1. CASE ButtonSleep \/ PowerLoss
  BY <1>1, PowerOffOwner DEF ButtonSleep, PowerLoss
<1>2. ASSUME NEW c \in Callers, OtherSnapshot(c) PROVE OwnerInv'
  BY <1>2, SnapshotCallOwner DEF OtherSnapshot
<1>3. CASE LinkUp \/ LinkDown
  <2>1. UNCHANGED <<OwnerVars, recPc>> /\ (pushPc' \in {"start", "recv"} => pushPc \in {"start", "recv"})
    BY <1>3 DEF LinkUp, LinkDown, PushStart, PushStop, PushExit, PushReady, OwnerVars
  <2> QED
    BY <2>1, Unmoved
<1>4. CASE \/ UploadTimeout /\ UNCHANGED <<pushVars, mqttVars, mainVars>>
           \/ ClearFiles /\ UNCHANGED <<pushVars, mqttVars, mainVars>>
           \/ NoOperation \/ SetUploadMode \/ MainSleepTimeout
  <2>1. UNCHANGED <<OwnerVars, recPc, pushPc>>
    BY <1>4 DEF UploadTimeout, ClearFiles, NoOperation, SetUploadMode, MainSleepTimeout, OwnerVars
  <2> QED
    BY <2>1, Unmoved
<1> QED
  BY <1>1, <1>2, <1>3, <1>4 DEF Environment

LEMMA InitOwner == Init => OwnerInv
<1> SUFFICES ASSUME Init PROVE OwnerInv
  OBVIOUS
<1>1. /\ mqttQueue = <<>> /\ storageQueue = <<>> /\ captures = {}
      /\ recNode = NoNode /\ pushNode = NoNode
      /\ snap = [c \in Callers |-> NotInSnapshot]
  BY DEF Init, DeviceInit, CameraInit, StorageInit, PushInit
<1>2. \A c \in Callers : snap[c].pc = "idle"
  BY <1>1 DEF NotInSnapshot
<1>3. AllPlaced
  BY <1>1, <1>2, NodesDiffer
     DEF AllPlaced, Placed, InOnePlace, OnItsWay, Taken, InQueue, Single
<1> QED
  BY <1>1, <1>2, <1>3 DEF OwnerInv, TasksIdle, OwnSnapshots

LEMMA NextOwner ==
  ASSUME TypeParts, OwnerInv, [Next]_vars
  PROVE  OwnerInv'
<1>1. CASE Boot
  BY <1>1, Unmoved DEF Boot, OwnerVars
<1>2. CASE UNCHANGED vars
  BY <1>2, Unmoved DEF vars, OwnerVars
<1>3. ASSUME NEW c \in Callers, CameraTask(c) PROVE OwnerInv'
  BY <1>3, SnapshotStepOwner
<1> QED
  BY <1>1, <1>2, <1>3, MainStepOwner, RecordTaskOwner, UploadTaskOwner, PushTaskOwner,
     MqttTaskOwner, EnvironmentOwner DEF Next, Awake

THEOREM OwnersCorrect == Spec => []OwnerInv
<1>1. TypeParts /\ OwnerInv /\ [Next]_vars => OwnerInv'
  BY NextOwner
<1> QED
  BY InitOwner, PartsCorrect, <1>1, PTL DEF Spec

-----------------------------------------------------------------------------
(* One owner *)

LEMMA PairSets ==
  ASSUME NEW s, NEW x
  PROVE  {s} \X {x} = {<<s, x>>} /\ {s} \X {} = {}
  OBVIOUS

LEMMA OneSlot ==
  ASSUME NEW q, NEW i, Single(q, i)
  PROVE  /\ InQueue(q, i) => \E k : Slots(q, i) = {k}
         /\ ~InQueue(q, i) => Slots(q, i) = {}
<1>1. ASSUME InQueue(q, i) PROVE \E k : Slots(q, i) = {k}
  <2>1. PICK k \in 1..Len(q) : q[k] = CameraNode(i)
    BY <1>1 DEF InQueue
  <2>2. \A j \in Slots(q, i) : j = k
    BY <2>1, Zenon DEF Single, Slots
  <2>3. k \in Slots(q, i)
    BY <2>1, Zenon DEF Slots
  <2>4. Slots(q, i) = {k}
    BY <2>2, <2>3
  <2> QED
    BY <2>4
<1>2. ASSUME ~InQueue(q, i) PROVE Slots(q, i) = {}
  BY <1>2, Zenon DEF InQueue, Slots
<1> QED
  BY <1>1, <1>2

LEMMA OwnerIsAlone == OwnerInv => OneOwner
<1> SUFFICES ASSUME OwnerInv, NEW i \in Images
             PROVE  IF i \in captures THEN \E o \in Owners(i) : Owners(i) = {o}
                                      ELSE Owners(i) = {}
  BY DEF OneOwner
<1> DEFINE inMqtt == Slots(mqttQueue, i)
           inStorage == Slots(storageQueue, i)
           atPush == {n \in {pushNode} : n = CameraNode(i)}
           atRecord == {n \in {recNode} : n = CameraNode(i)}
           atCamera == {c \in Callers : snap[c].pc \in {"send", "drop"} /\ snap[c].img = i}
           Pair(s, X) == {s} \X X
<1>0. \A s : Pair(s, {}) = {} /\ \A x : Pair(s, {x}) = {<<s, x>>}
  BY PairSets
<1>1. Owners(i) = Pair("mqttQueue", inMqtt) \cup Pair("storageQueue", inStorage)
                    \cup Pair("push", atPush) \cup Pair("record", atRecord)
                    \cup Pair("snapshot", atCamera)
  BY DEF Owners
<1>2. Placed(i) /\ OwnSnapshots
  BY DEF OwnerInv, AllPlaced
<1>3. /\ InQueue(mqttQueue, i) => \E k : inMqtt = {k}
      /\ ~InQueue(mqttQueue, i) => inMqtt = {}
  BY <1>2, OneSlot DEF Placed, InOnePlace
<1>4. /\ InQueue(storageQueue, i) => \E k : inStorage = {k}
      /\ ~InQueue(storageQueue, i) => inStorage = {}
  BY <1>2, OneSlot DEF Placed, InOnePlace
<1>5. /\ pushNode = CameraNode(i) => \E n : atPush = {n}
      /\ pushNode # CameraNode(i) => atPush = {}
  OBVIOUS
<1>6. /\ recNode = CameraNode(i) => \E n : atRecord = {n}
      /\ recNode # CameraNode(i) => atRecord = {}
  OBVIOUS
<1>7. /\ Taken(i) => (\E c : atCamera = {c}) /\ ~OnItsWay(i)
      /\ ~Taken(i) => atCamera = {}
  BY <1>2 DEF Taken, OwnSnapshots, Placed
<1> HIDE DEF inMqtt, inStorage, atPush, atRecord, atCamera, Pair
<1>8. CASE i \notin captures
  <2>1. inMqtt = {} /\ inStorage = {} /\ atPush = {} /\ atRecord = {} /\ atCamera = {}
    BY <1>2, <1>3, <1>4, <1>5, <1>6, <1>7, <1>8 DEF Placed, OnItsWay
  <2> QED
    BY <1>0, <1>1, <1>8, <2>1
<1>9. ASSUME NEW o, Owners(i) = {o} PROVE \E q \in Owners(i) : Owners(i) = {q}
  BY <1>9
<1>10. CASE i \in captures
  <2>1. CASE Taken(i)
    <3>1. PICK c : atCamera = {c}
      BY <1>7, <2>1
    <3>2. inMqtt = {} /\ inStorage = {} /\ atPush = {} /\ atRecord = {}
      BY <1>3, <1>4, <1>5, <1>6, <1>7, <2>1 DEF OnItsWay
    <3>3. Owners(i) = {<<"snapshot", c>>}
      BY <1>0, <1>1, <3>1, <3>2
    <3> QED
      BY <1>9, <1>10, <3>3
  <2>2. CASE InQueue(mqttQueue, i)
    <3>1. PICK k : inMqtt = {k}
      BY <1>3, <2>2
    <3>2. inStorage = {} /\ atPush = {} /\ atRecord = {} /\ atCamera = {}
      BY <1>2, <1>4, <1>5, <1>6, <1>7, <2>2 DEF Placed, InOnePlace, OnItsWay
    <3>3. Owners(i) = {<<"mqttQueue", k>>}
      BY <1>0, <1>1, <3>1, <3>2
    <3> QED
      BY <1>9, <1>10, <3>3
  <2>3. CASE InQueue(storageQueue, i)
    <3>1. PICK k : inStorage = {k}
      BY <1>4, <2>3
    <3>2. inMqtt = {} /\ atPush = {} /\ atRecord = {} /\ atCamera = {}
      BY <1>2, <1>3, <1>5, <1>6, <1>7, <2>3 DEF Placed, InOnePlace, OnItsWay
    <3>3. Owners(i) = {<<"storageQueue", k>>}
      BY <1>0, <1>1, <3>1, <3>2
    <3> QED
      BY <1>9, <1>10, <3>3
  <2>4. CASE pushNode = CameraNode(i)
    <3>1. PICK n : atPush = {n}
      BY <1>5, <2>4
    <3>2. inMqtt = {} /\ inStorage = {} /\ atRecord = {} /\ atCamera = {}
      BY <1>2, <1>3, <1>4, <1>6, <1>7, <2>4 DEF Placed, InOnePlace, OnItsWay
    <3>3. Owners(i) = {<<"push", n>>}
      BY <1>0, <1>1, <3>1, <3>2
    <3> QED
      BY <1>9, <1>10, <3>3
  <2>5. CASE recNode = CameraNode(i)
    <3>1. PICK n : atRecord = {n}
      BY <1>6, <2>5
    <3>2. inMqtt = {} /\ inStorage = {} /\ atPush = {} /\ atCamera = {}
      BY <1>2, <1>3, <1>4, <1>5, <1>7, <2>5 DEF Placed, InOnePlace, OnItsWay
    <3>3. Owners(i) = {<<"record", n>>}
      BY <1>0, <1>1, <3>1, <3>2
    <3> QED
      BY <1>9, <1>10, <3>3
  <2> QED
    BY <1>2, <1>10, <2>1, <2>2, <2>3, <2>4, <2>5 DEF Placed, OnItsWay
<1> QED
  BY <1>8, <1>10

(* Each heap copy of an image is held by exactly one queue or task, who    *)
(* will free it, and one that was freed by none: camera_queue_node_malloc  *)
(* and the free handlers never leak, free twice or use after the free, for *)
(* every number of images, callers of camera_snapshot and queue slots.     *)
THEOREM OneOwnerAlways == Spec => []OneOwner
  BY OwnersCorrect, OwnerIsAlone, PTL

-----------------------------------------------------------------------------
(* captureCount *)

CountInv == IsFiniteSet(captures) /\ CountIsExact

LEMMA CountModulo ==
  /\ \A n \in Nat : ((n % 256) + 1) % 256 = (n + 1) % 256
  /\ \A n \in Nat \ {0} : ((n % 256) + 255) % 256 = (n - 1) % 256
  OBVIOUS

LEMMA CountsUp ==
  ASSUME CountInv, NEW i, i \notin captures, captures' = captures \cup {i},
         captureCount' = (captureCount + 1) % 256
  PROVE  CountInv'
<1>1. Cardinality(captures) \in Nat
  BY FS_CardinalityType DEF CountInv
<1>2. IsFiniteSet(captures') /\ Cardinality(captures') = Cardinality(captures) + 1
  BY FS_AddElement DEF CountInv
<1> QED
  BY <1>1, <1>2, CountModulo DEF CountInv, CountIsExact

LEMMA CountsDown ==
  ASSUME CountInv, NEW i \in captures, FreeCapture(i)
  PROVE  CountInv'
<1>1. captures' = captures \ {i} /\ captureCount' = (captureCount + 255) % 256
  BY DEF FreeCapture
<1>2. Cardinality(captures) \in Nat
  BY FS_CardinalityType DEF CountInv
<1>3. /\ IsFiniteSet(captures') /\ Cardinality(captures') = Cardinality(captures) - 1
      /\ Cardinality(captures) # 0
  BY <1>1, FS_RemoveElement, FS_EmptySet DEF CountInv
<1> QED
  BY <1>1, <1>2, <1>3, CountModulo DEF CountInv, CountIsExact

LEMMA NodeFreed ==
  ASSUME CountInv, NEW node \in Node, NEW bit, FreeNode(node, bit),
         node.from = "camera" => node.img \in captures
  PROVE  CountInv'
<1>1. CASE node.from = "camera" /\ FreeCapture(node.img)
  BY <1>1, CountsDown
<1>2. CASE UNCHANGED <<captures, captureCount>>
  BY <1>2 DEF CountInv, CountIsExact
<1> QED
  BY <1>1, <1>2 DEF FreeNode

LEMMA NextCount ==
  ASSUME TypeParts, OwnerInv, CountInv, [Next]_vars
  PROVE  CountInv'
<1>0. AllPlaced /\ OwnSnapshots
  BY DEF OwnerInv
<1>1. CASE UNCHANGED <<captures, captureCount>>
  BY <1>1 DEF CountInv, CountIsExact
<1>2. ASSUME NEW c \in Callers, GrabFrame(c) PROVE CountInv'
  <2>1. snap[c].pc = "try" /\ snap[c].img \in Images \ accepted
    BY <1>0, <1>2 DEF GrabFrame, OwnSnapshots
  <2>2. ~Taken(snap[c].img)
    BY <1>0, <2>1 DEF Taken, OwnSnapshots
  <2>3. snap[c].img \notin captures
    BY <1>0, <2>1, <2>2 DEF AllPlaced, Placed
  <2> QED
    BY <1>2, <2>3, CountsUp DEF GrabFrame
<1>3. ASSUME NEW c \in Callers, DropFrame(c) PROVE CountInv'
  <2>1. snap[c].img \in captures
    BY <1>0, <1>3 DEF DropFrame, AllPlaced, Placed, Taken, OwnSnapshots
  <2> QED
    BY <1>3, <2>1, CountsDown DEF DropFrame
<1>4. CASE RecordFree
  <2>1. recNode \in Node /\ FreeNode(recNode, "STOP")
    BY <1>4 DEF RecordFree, TypeParts, RecordTypeOK
  <2>2. recNode.from = "camera" => recNode.img \in captures
    BY <1>0, <2>1, NodesDiffer DEF AllPlaced, Placed, OnItsWay
  <2> QED
    BY <2>1, <2>2, NodeFreed
<1>5. CASE PushSuccess
  <2>1. pushNode \in Node /\ FreeNode(pushNode, "DONE")
    BY <1>5 DEF PushSuccess, TypeParts, PushTypeOK
  <2>2. pushNode.from = "camera" => pushNode.img \in captures
    BY <1>0, <2>1, NodesDiffer DEF AllPlaced, Placed, OnItsWay
  <2> QED
    BY <2>1, <2>2, NodeFreed
<1>6. CASE PowerOff
  <2>1. captures' = {} /\ captureCount' = 0
    BY <1>6 DEF PowerOff, CameraPowerOff
  <2> QED
    BY <2>1, FS_EmptySet DEF CountInv, CountIsExact
<1>7. CASE MainStep
  BY <1>1, <1>6, <1>7
     DEF MainStep, MainNetOpen, MainNetReady, MainCameraInit, MainCameraOpened, MainSnapshot,
         MainAfterSnapshot, MainCameraClose, MainWork, MainSleepWait, MainSleepStart, DeepSleep,
         CameraInitOK, CameraInitFails, CameraOpened, CameraClose, SnapshotCall
<1>8. ASSUME NEW c \in Callers, CameraTask(c) PROVE CountInv'
  BY <1>1, <1>2, <1>3, <1>8 DEF CameraTask, SnapshotStep, NoFrame, SendFrame, QueueIsFull
<1>9. CASE RecordTask
  BY <1>1, <1>4, <1>9 DEF RecordTask, RecordStep, RecordReceive, RecordOpenFile, RecordWriteFile
<1>10. CASE UploadTask
  BY <1>1, <1>10
     DEF UploadTask, UploadStep, UploadPark, UploadWaitStart, UploadOpenDir, UploadNextFile,
         UploadEndOfDir, UploadReadFile, UploadSend, UploadAwait, UploadUnlink
<1>11. CASE PushTask
  BY <1>1, <1>5, <1>11
     DEF PushTask, PushStep, PushReadyTimeout, PushReceive, PushStore, PublishFails,
         WebhookPublish, MqttPublishQos0, MqttPublish, PublishTimeout
<1>12. CASE MqttTask
  BY <1>1, <1>12
     DEF MqttTask, MqttEvent, MqttConnected, MqttSubscribed, MqttDisconnected, MqttPublished
<1>13. CASE Environment
  BY <1>1, <1>6, <1>13
     DEF Environment, UploadTimeout, ClearFiles, OtherSnapshot, SnapshotCall, NoOperation,
         SetUploadMode, LinkUp, LinkDown, MainSleepTimeout, ButtonSleep, PowerLoss
<1>14. CASE Boot \/ UNCHANGED vars
  BY <1>1, <1>14 DEF Boot, vars
<1> QED
  BY <1>7, <1>8, <1>9, <1>10, <1>11, <1>12, <1>13, <1>14 DEF Next, Awake

THEOREM CountCorrect == Spec => []CountInv
<1>1. Init => CountInv
  BY FS_EmptySet DEF Init, CameraInit, CountInv, CountIsExact
<1>2. TypeParts /\ OwnerInv /\ CountInv /\ [Next]_vars => CountInv'
  BY NextCount
<1> QED
  BY <1>1, <1>2, PartsCorrect, OwnersCorrect, PTL DEF Spec

(* g_mdCamera.captureCount is the number of heap copies that are alive,    *)
(* modulo its 8 bits, although several tasks allocate and free them, for   *)
(* every number of images and of callers.                                  *)
THEOREM CountIsExactAlways == Spec => []CountIsExact
<1>1. CountInv => CountIsExact
  BY DEF CountInv
<1> QED
  BY <1>1, CountCorrect, PTL

-----------------------------------------------------------------------------
(***************************************************************************)
(* When the chip may sleep: SLEEP_SNAPSHOT_STOP_BIT is set when no copy of *)
(* an image is alive, and outside config mode only then.                   *)
(*                                                                         *)
(* The invariant.  The main task waits, and is released, where the code    *)
(* says; callers are inside camera_snapshot only in their mode and place;  *)
(* outside config mode at most one copy is alive, and none before the      *)
(* snapshot; the bit follows the copies; a release finds none.             *)
(***************************************************************************)

OffInv ==
  mainPc = "off" =>
    /\ captures = {} /\ sleepBits = {} /\ mainWait = "busy"
    /\ \A c \in Callers : snap[c].pc = "idle"

WaitInv ==
  /\ mainWait = "waiting" => mainPc = "wait"
  /\ mainWait = "released" => mainPc \in {"wait", "stop"}
  /\ mainPc = "stop" => mainWait = "released"

CallersInv ==
  /\ snap["main"].pc # "idle" => mainPc = "snapping"
  /\ mode # "config" => \A c \in Callers \ {"main"} : snap[c].pc = "idle"

CopiesInv ==
  /\ mode \in {"schedule", "upload"} =>
       captures = {} /\ mainPc \notin {"camera", "snap", "snapping", "close"}
  /\ mode = "snapshot" =>
       /\ \A i, j \in captures : i = j
       /\ mainPc \in {"camera", "snap"} \/ snap["main"].pc = "try" => captures = {}

(* camera_open is over. *)
Opened ==
  \/ mode \in {"snapshot", "config"} /\ mainPc \in {"snap", "snapping", "close", "sleep", "wait"}
  \/ mode = "snapshot" /\ mainPc = "net"

BitInv ==
  /\ "snapshot" \in sleepBits /\ mode # "config" => captures = {}
  /\ Opened /\ mainWait # "released" /\ captures = {} => "snapshot" \in sleepBits

ReleasedInv ==
  "sleep_timeout" \notin Faults /\ mode # "config" /\ mainWait = "released" => captures = {}

SleepInv ==
  OffInv /\ WaitInv /\ CallersInv /\ CopiesInv /\ BitInv /\ ReleasedInv

-----------------------------------------------------------------------------
(* What the event group and the copies do. *)

LEMMA Waited ==
  /\ mode \in {"snapshot", "config"} => "snapshot" \in WaitBits
  /\ mode \in Modes => mode \in {"snapshot", "config", "schedule", "upload"}
  BY ConfigurationAssumption DEF WaitBits

LEMMA BitsSet ==
  ASSUME NEW b, SetSleepBit(b)
  PROVE  \/ sleepBits' = sleepBits \cup {b} /\ mainWait' = mainWait
         \/ /\ mainWait = "waiting" /\ mainWait' = "released"
            /\ WaitBits \subseteq sleepBits \cup {b}
            /\ sleepBits' = (sleepBits \cup {b}) \ WaitBits
  BY DEF SetSleepBit, ReleaseMain

LEMMA Rests ==
  ASSUME SleepInv, UNCHANGED <<mode, mainPc, captures, snap, sleepBits, mainWait>>
  PROVE  SleepInv'
  BY DEF SleepInv, OffInv, WaitInv, CallersInv, CopiesInv, BitInv, ReleasedInv, Opened

LEMMA OtherBit ==
  ASSUME SleepInv, mode \in Modes, NEW b, b # "snapshot", mainPc # "off",
         SetSleepBit(b) \/ ClearSleepBit(b), UNCHANGED <<mode, mainPc, captures, snap>>
  PROVE  SleepInv'
<1>1. OffInv' /\ CallersInv' /\ CopiesInv'
  BY DEF SleepInv, OffInv, CallersInv, CopiesInv
<1>2. CASE /\ sleepBits' \in {sleepBits \cup {b}, sleepBits \ {b}}
           /\ mainWait' = mainWait
  BY <1>1, <1>2 DEF SleepInv, WaitInv, BitInv, ReleasedInv, Opened
<1>3. CASE /\ mainWait = "waiting" /\ mainWait' = "released"
           /\ WaitBits \subseteq sleepBits \cup {b}
           /\ sleepBits' = (sleepBits \cup {b}) \ WaitBits
  <2>1. WaitInv' /\ BitInv'
    BY <1>3, Waited DEF SleepInv, WaitInv, CopiesInv, BitInv
  <2>2. ReleasedInv'
    BY <1>3, Waited DEF SleepInv, CopiesInv, BitInv, ReleasedInv
  <2> QED
    BY <1>1, <2>1, <2>2 DEF SleepInv
<1> QED
  BY <1>2, <1>3, BitsSet DEF ClearSleepBit

LEMMA CopyFreed ==
  ASSUME SleepInv, CountInv', mode \in Modes, mainPc # "off", NEW i \in captures, FreeCapture(i),
         UNCHANGED <<mode, mainPc>>,
         \A c \in Callers : snap[c].pc = "idle" => snap'[c].pc = "idle"
  PROVE  SleepInv'
<1>1. /\ captures' = captures \ {i}
      /\ \/ SetSleepBit("snapshot")
         \/ captureCount' # 0 /\ UNCHANGED <<sleepBits, mainWait>>
  BY DEF FreeCapture
<1>2. mode # "config" => captures' = {}
  BY <1>1, Waited DEF SleepInv, CopiesInv
<1>3. captures' = {} => captureCount' = 0
  BY FS_EmptySet DEF CountInv, CountIsExact
<1>4. OffInv' /\ CallersInv' /\ CopiesInv'
  BY <1>1, <1>2, CameraAssumption DEF SleepInv, OffInv, CallersInv, CopiesInv
<1>5. ReleasedInv'
  BY <1>2 DEF ReleasedInv
<1>6. CASE UNCHANGED <<sleepBits, mainWait>> /\ captures' # {}
  BY <1>2, <1>4, <1>5, <1>6 DEF SleepInv, WaitInv, BitInv
<1>7. CASE sleepBits' = sleepBits \cup {"snapshot"} /\ mainWait' = mainWait
  BY <1>2, <1>4, <1>5, <1>7 DEF SleepInv, WaitInv, BitInv
<1>8. CASE mainWait = "waiting" /\ mainWait' = "released"
  BY <1>2, <1>4, <1>5, <1>8 DEF SleepInv, WaitInv, BitInv
<1> QED
  BY <1>1, <1>3, <1>6, <1>7, <1>8, BitsSet

LEMMA NodeFreedRests ==
  ASSUME SleepInv, CountInv', mode \in Modes, mainPc # "off", NEW node \in Node, NEW bit,
         FreeNode(node, bit), node.from = "camera" => node.img \in captures,
         UNCHANGED <<mode, mainPc, snap>>
  PROVE  SleepInv'
<1>1. CASE node.from = "camera" /\ FreeCapture(node.img)
  BY <1>1, CopyFreed
<1>2. CASE UNCHANGED <<captures, captureCount, sleepBits, mainWait>>
  BY <1>2, Rests
<1> QED
  BY <1>1, <1>2 DEF FreeNode

-----------------------------------------------------------------------------
(* The tasks *)

LEMMA SnapshotStepSleep ==
  ASSUME TypeParts, OwnerInv, CountInv', SleepInv, mainPc # "off", NEW c \in Callers, CameraTask(c)
  PROVE  SleepInv'
<1>0. /\ SnapTypeOK /\ mode \in Modes /\ snap \in [Callers -> SnapState]
      /\ UNCHANGED <<mode, mainPc>>
  BY DEF TypeParts, SnapTypeOK, ModeTypeOK, CameraTask, SnapshotStep, NoFrame, GrabFrame,
         SendFrame, QueueIsFull, DropFrame
<1>1. CASE NoFrame(c)
  <2>1. /\ snap[c].pc = "try" /\ TryAgain(c)
        /\ UNCHANGED <<captures, sleepBits, mainWait>>
    BY <1>1 DEF NoFrame
  <2>2. /\ \A d \in Callers \ {c} : snap'[d] = snap[d]
        /\ snap'[c].pc \in {"idle", "try"}
    BY <1>0, <2>1 DEF TryAgain, NotInSnapshot
  <2> QED
    BY <1>0, <2>1, <2>2, CameraAssumption
       DEF SleepInv, OffInv, WaitInv, CallersInv, CopiesInv, BitInv, ReleasedInv, Opened
<1>2. CASE GrabFrame(c)
  <2>1. /\ snap[c].pc = "try" /\ snap' = [snap EXCEPT ![c].pc = "send"]
        /\ captures' = captures \cup {snap[c].img}
        /\ sleepBits' = sleepBits \ {"snapshot"} /\ mainWait' = mainWait
    BY <1>2 DEF GrabFrame, ClearSleepBit
  <2>2. /\ \A d \in Callers \ {c} : snap'[d] = snap[d]
        /\ snap'[c].pc = "send"
    BY <1>0, <2>1 DEF SnapState, NotInSnapshot
  <2>3. mode # "config" => c = "main" /\ mainPc = "snapping" /\ mode = "snapshot" /\ captures = {}
    BY <1>0, <2>1, Waited DEF SleepInv, CallersInv, CopiesInv
  <2>4. OffInv' /\ WaitInv' /\ CallersInv'
    BY <1>0, <2>1, <2>2 DEF SleepInv, OffInv, WaitInv, CallersInv
  <2>5. CopiesInv'
    BY <1>0, <2>1, <2>2, <2>3, CameraAssumption DEF CopiesInv
  <2>6. BitInv' /\ ReleasedInv'
    BY <1>0, <2>1, <2>3 DEF SleepInv, WaitInv, BitInv, ReleasedInv
  <2> QED
    BY <2>4, <2>5, <2>6 DEF SleepInv
<1>3. CASE SendFrame(c)
  <2>1. /\ snap' = [snap EXCEPT ![c] = NotInSnapshot]
        /\ UNCHANGED <<captures, sleepBits, mainWait>>
    BY <1>3 DEF SendFrame
  <2>2. /\ \A d \in Callers \ {c} : snap'[d] = snap[d]
        /\ snap'[c].pc = "idle"
    BY <1>0, <2>1 DEF NotInSnapshot
  <2> QED
    BY <1>0, <2>1, <2>2, CameraAssumption
       DEF SleepInv, OffInv, WaitInv, CallersInv, CopiesInv, BitInv, ReleasedInv, Opened
<1>4. CASE QueueIsFull(c)
  <2>1. /\ snap[c].pc = "send" /\ snap' = [snap EXCEPT ![c].pc = "drop"]
        /\ UNCHANGED <<captures, sleepBits, mainWait>>
    BY <1>4 DEF QueueIsFull
  <2>2. /\ \A d \in Callers \ {c} : snap'[d] = snap[d]
        /\ snap'[c].pc = "drop"
    BY <1>0, <2>1 DEF SnapState, NotInSnapshot
  <2> QED
    BY <1>0, <2>1, <2>2, CameraAssumption
       DEF SleepInv, OffInv, WaitInv, CallersInv, CopiesInv, BitInv, ReleasedInv, Opened
<1>5. CASE DropFrame(c)
  <2>1. /\ snap[c].pc = "drop" /\ TryAgain(c) /\ FreeCapture(snap[c].img)
    BY <1>5 DEF DropFrame
  <2>2. snap[c].img \in captures
    BY <2>1 DEF OwnerInv, AllPlaced, Placed, Taken, OwnSnapshots
  <2>3. \A d \in Callers : snap[d].pc = "idle" => snap'[d].pc = "idle"
    BY <1>0, <2>1 DEF TryAgain
  <2> QED
    BY <1>0, <2>1, <2>2, <2>3, CopyFreed
<1> QED
  BY <1>1, <1>2, <1>3, <1>4, <1>5 DEF CameraTask, SnapshotStep

LEMMA RecordTaskSleep ==
  ASSUME TypeParts, OwnerInv, CountInv', SleepInv, mainPc # "off", RecordTask
  PROVE  SleepInv'
<1>1. CASE RecordReceive \/ RecordOpenFile \/ RecordWriteFile
  BY <1>1, Rests DEF RecordTask, RecordReceive, RecordOpenFile, RecordWriteFile
<1>2. CASE RecordFree
  <2>1. /\ recNode \in Node /\ FreeNode(recNode, "STOP") /\ mode \in Modes
        /\ UNCHANGED <<mode, mainPc, snap>>
    BY <1>2 DEF RecordTask, RecordFree, TypeParts, RecordTypeOK, ModeTypeOK
  <2>2. recNode.from = "camera" => recNode.img \in captures
    BY <2>1, NodesDiffer DEF OwnerInv, AllPlaced, Placed, OnItsWay
  <2> QED
    BY <2>1, <2>2, NodeFreedRests
<1> QED
  BY <1>1, <1>2 DEF RecordTask, RecordStep

LEMMA UploadTaskSleep ==
  ASSUME TypeParts, SleepInv, mainPc # "off", UploadTask
  PROVE  SleepInv'
<1>1. mode \in Modes
  BY DEF TypeParts, ModeTypeOK
<1>2. UNCHANGED <<mode, mainPc, captures, snap>>
  BY DEF UploadTask, UploadStep, UploadPark, UploadWaitStart, UploadOpenDir, UploadNextFile,
         UploadEndOfDir, UploadReadFile, UploadSend, UploadAwait, UploadUnlink
<1>3. \/ UNCHANGED <<sleepBits, mainWait>>
      \/ SetSleepBit("upload") \/ ClearSleepBit("upload")
  BY DEF UploadTask, UploadStep, UploadPark, UploadWaitStart, UploadOpenDir, UploadNextFile,
         UploadEndOfDir, UploadReadFile, UploadSend, UploadAwait, UploadUnlink
<1> QED
  BY <1>1, <1>2, <1>3, Rests, OtherBit

LEMMA PushTaskSleep ==
  ASSUME TypeParts, OwnerInv, CountInv', SleepInv, mainPc # "off", PushTask
  PROVE  SleepInv'
<1>1. CASE \/ PushReadyTimeout \/ PushReceive \/ PushStore
           \/ PublishFails \/ WebhookPublish \/ MqttPublishQos0 \/ MqttPublish \/ PublishTimeout
  BY <1>1, Rests DEF PushTask, PushReadyTimeout, PushReceive, PushStore, PublishFails,
                     WebhookPublish, MqttPublishQos0, MqttPublish, PublishTimeout
<1>2. CASE PushSuccess
  <2>1. /\ pushNode \in Node /\ FreeNode(pushNode, "DONE") /\ mode \in Modes
        /\ UNCHANGED <<mode, mainPc, snap>>
    BY <1>2 DEF PushTask, PushSuccess, TypeParts, PushTypeOK, ModeTypeOK
  <2>2. pushNode.from = "camera" => pushNode.img \in captures
    BY <2>1, NodesDiffer DEF OwnerInv, AllPlaced, Placed, OnItsWay
  <2> QED
    BY <2>1, <2>2, NodeFreedRests
<1> QED
  BY <1>1, <1>2 DEF PushTask, PushStep

LEMMA MqttTaskSleep ==
  ASSUME SleepInv, MqttTask
  PROVE  SleepInv'
  BY Rests DEF MqttTask, MqttEvent, MqttConnected, MqttSubscribed, MqttDisconnected, MqttPublished

-----------------------------------------------------------------------------
(* The main task *)

LEMMA PowerOffSleep == PowerOff => SleepInv'
<1> SUFFICES ASSUME PowerOff PROVE SleepInv'
  OBVIOUS
<1>1. /\ mainPc' = "off" /\ captures' = {} /\ sleepBits' = {} /\ mainWait' = "busy"
      /\ snap' = [c \in Callers |-> NotInSnapshot]
  BY DEF PowerOff, DevicePowerOff, CameraPowerOff
<1>2. \A c \in Callers : snap'[c].pc = "idle"
  BY <1>1 DEF NotInSnapshot
<1> QED
  BY <1>1, <1>2, CameraAssumption
     DEF SleepInv, OffInv, WaitInv, CallersInv, CopiesInv, BitInv, ReleasedInv, Opened

LEMMA BootSleep ==
  ASSUME SleepInv, Boot
  PROVE  SleepInv'
<1>1. /\ mainPc = "off" /\ mode' \in Modes /\ mainPc' = FirstStep(mode')
      /\ UNCHANGED <<captures, snap, sleepBits, mainWait>>
  BY DEF Boot
<1>2. /\ mainPc' = IF mode' = "snapshot" THEN "camera" ELSE "net"
      /\ captures' = {} /\ mainWait' = "busy" /\ sleepBits' = {}
      /\ \A c \in Callers : snap'[c].pc = "idle"
  BY <1>1 DEF FirstStep, SleepInv, OffInv
<1> QED
  BY <1>2, CameraAssumption
     DEF SleepInv, OffInv, WaitInv, CallersInv, CopiesInv, BitInv, ReleasedInv, Opened

LEMMA MainMoves ==
  ASSUME TypeParts, SleepInv, UNCHANGED <<mode, captures, snap, sleepBits, mainWait>>,
         \/ mainPc = "net" /\ mainPc' = "net"
         \/ MainNetReady \/ MainAfterSnapshot \/ MainCameraClose
  PROVE  SleepInv'
<1>1. mode \in {"snapshot", "config", "schedule", "upload"}
  BY Waited DEF TypeParts, ModeTypeOK
<1>2. CASE mainPc' = mainPc
  BY <1>2, Rests
<1>3. CASE MainNetReady
  BY <1>1, <1>3 DEF MainNetReady, SleepInv, OffInv, WaitInv, CallersInv, CopiesInv, BitInv,
                     ReleasedInv, Opened
<1>4. CASE MainAfterSnapshot
  BY <1>1, <1>4 DEF MainAfterSnapshot, SleepInv, OffInv, WaitInv, CallersInv, CopiesInv, BitInv,
                     ReleasedInv, Opened
<1>5. CASE MainCameraClose
  BY <1>1, <1>5 DEF MainCameraClose, SleepInv, OffInv, WaitInv, CallersInv, CopiesInv, BitInv,
                     ReleasedInv, Opened
<1> QED
  BY <1>2, <1>3, <1>4, <1>5

LEMMA MainOpens ==
  ASSUME TypeParts, SleepInv, MainCameraInit \/ MainCameraOpened
  PROVE  SleepInv'
<1>1. mode \in {"snapshot", "config", "schedule", "upload"}
  BY Waited DEF TypeParts, ModeTypeOK
<1>2. CASE MainCameraInit /\ CameraInitOK /\ UNCHANGED mainPc
  BY <1>2, Rests DEF CameraInitOK
<1>3. CASE mainPc = "camera" /\ mainPc' = "snap" /\ (CameraInitFails \/ CameraOpened)
  <2>1. SetSleepBit("snapshot") /\ UNCHANGED <<mode, captures, snap>>
    BY <1>3 DEF CameraInitFails, CameraOpened
  <2>2. mainWait # "waiting"
    BY <1>3 DEF SleepInv, WaitInv
  <2>3. sleepBits' = sleepBits \cup {"snapshot"} /\ mainWait' = mainWait
    BY <2>1, <2>2, BitsSet
  <2>4. mode # "config" => captures = {}
    BY <1>1, <1>3 DEF SleepInv, CopiesInv
  <2> QED
    BY <1>1, <1>3, <2>1, <2>3, <2>4
       DEF SleepInv, OffInv, WaitInv, CallersInv, CopiesInv, BitInv, ReleasedInv
<1> QED
  BY <1>2, <1>3 DEF MainCameraInit, MainCameraOpened

LEMMA MainSleeps ==
  ASSUME TypeParts, SleepInv, MainSleepWait \/ MainSleepStart
  PROVE  SleepInv'
<1>1. mode \in {"snapshot", "config", "schedule", "upload"}
  BY Waited DEF TypeParts, ModeTypeOK
<1>2. CASE MainSleepStart
  <2>1. /\ mainPc = "wait" /\ mainPc' = "stop" /\ mainWait = "released"
        /\ UNCHANGED <<mode, captures, snap, sleepBits, mainWait>>
    BY <1>2 DEF MainSleepStart
  <2> QED
    BY <2>1 DEF SleepInv, OffInv, WaitInv, CallersInv, CopiesInv, BitInv, ReleasedInv, Opened
<1>3. CASE MainSleepWait
  <2>1. /\ mainPc = "sleep" /\ mainPc' = "wait" /\ SleepWait
        /\ UNCHANGED <<mode, captures, snap>>
    BY <1>3 DEF MainSleepWait
  <2>2. OffInv' /\ WaitInv' /\ CallersInv' /\ CopiesInv'
    BY <2>1 DEF SleepWait, SleepInv, OffInv, WaitInv, CallersInv, CopiesInv
  <2>3. mainWait # "released"
    BY <2>1 DEF SleepInv, WaitInv
  <2>4. CASE WaitBits \subseteq sleepBits /\ sleepBits' = sleepBits \ WaitBits /\ mainWait' = "released"
    BY <1>1, <2>1, <2>2, <2>4, Waited DEF SleepInv, CopiesInv, BitInv, ReleasedInv
  <2>5. CASE sleepBits' = sleepBits /\ mainWait' = "waiting"
    BY <2>1, <2>2, <2>3, <2>5 DEF SleepInv, BitInv, ReleasedInv, Opened
  <2> QED
    BY <2>1, <2>4, <2>5 DEF SleepWait
<1> QED
  BY <1>2, <1>3

LEMMA MainWorks ==
  ASSUME TypeParts, SleepInv, MainWork
  PROVE  SleepInv'
<1>1. /\ mainPc = "work" /\ mainPc' = "sleep" /\ mode \in {"schedule", "upload"}
      /\ UNCHANGED <<mode, captures, snap>>
      /\ SetSleepBit("schedule") \/ UNCHANGED <<sleepBits, mainWait>>
  BY DEF MainWork
<1>2. mainWait \notin {"waiting", "released"}
  BY <1>1 DEF SleepInv, WaitInv
<1>3. mainWait' = mainWait /\ sleepBits' \in {sleepBits, sleepBits \cup {"schedule"}}
  BY <1>1, <1>2, BitsSet
<1> QED
  BY <1>1, <1>2, <1>3 DEF SleepInv, OffInv, WaitInv, CallersInv, CopiesInv, BitInv, ReleasedInv, Opened

LEMMA SnapshotCallSleep ==
  ASSUME TypeParts, SleepInv, mainPc # "off", NEW c \in Callers, SnapshotCall(c),
         \/ c = "main" /\ mainPc = "snap" /\ mainPc' = "snapping"
         \/ c # "main" /\ mode = "config" /\ mainPc' = mainPc
  PROVE  SleepInv'
<1>1. UNCHANGED <<mode, captures, sleepBits, mainWait>>
  BY DEF SnapshotCall
<1>2. \A d \in Callers \ {c} : snap'[d] = snap[d]
  BY DEF SnapshotCall, TypeParts, SnapTypeOK
<1>3. mode \in {"snapshot", "config", "schedule", "upload"}
  BY Waited DEF TypeParts, ModeTypeOK
<1>4. CASE c = "main" /\ mainPc = "snap" /\ mainPc' = "snapping"
  BY <1>1, <1>2, <1>3, <1>4
     DEF SleepInv, OffInv, WaitInv, CallersInv, CopiesInv, BitInv, ReleasedInv, Opened
<1>5. CASE c # "main" /\ mode = "config" /\ mainPc' = mainPc
  BY <1>1, <1>2, <1>5, CameraAssumption
     DEF SleepInv, OffInv, WaitInv, CallersInv, CopiesInv, BitInv, ReleasedInv, Opened
<1> QED
  BY <1>4, <1>5

LEMMA MainStepSleep ==
  ASSUME TypeParts, SleepInv, mainPc # "off", MainStep
  PROVE  SleepInv'
<1>1. CASE MainNetOpen \/ MainNetReady \/ MainAfterSnapshot \/ MainCameraClose
  BY <1>1, MainMoves DEF MainNetOpen, MainNetReady, MainAfterSnapshot, MainCameraClose, CameraClose
<1>2. CASE MainSnapshot
  BY <1>2, SnapshotCallSleep, CameraAssumption DEF MainSnapshot
<1>3. CASE DeepSleep
  BY <1>3, PowerOffSleep DEF DeepSleep
<1> QED
  BY <1>1, <1>2, <1>3, MainOpens, MainSleeps, MainWorks DEF MainStep

LEMMA EnvironmentSleep ==
  ASSUME TypeParts, SleepInv, mainPc # "off", Environment
  PROVE  SleepInv'
<1>1. CASE ButtonSleep \/ PowerLoss
  BY <1>1, PowerOffSleep DEF ButtonSleep, PowerLoss
<1>2. ASSUME NEW c \in Callers, OtherSnapshot(c) PROVE SleepInv'
  BY <1>2, SnapshotCallSleep DEF OtherSnapshot
<1>3. CASE NoOperation
  BY <1>3, OtherBit DEF NoOperation, TypeParts, ModeTypeOK
<1>4. CASE MainSleepTimeout
  <2>1. /\ "sleep_timeout" \in Faults /\ mainWait = "waiting" /\ mainWait' = "released"
        /\ UNCHANGED <<mode, mainPc, captures, snap, sleepBits>>
    BY <1>4 DEF MainSleepTimeout
  <2> QED
    BY <2>1 DEF SleepInv, OffInv, WaitInv, CallersInv, CopiesInv, BitInv, ReleasedInv
<1>5. CASE \/ UploadTimeout /\ UNCHANGED <<pushVars, mqttVars, mainVars>>
           \/ ClearFiles /\ UNCHANGED <<pushVars, mqttVars, mainVars>>
           \/ SetUploadMode \/ LinkUp \/ LinkDown
  BY <1>5, Rests DEF UploadTimeout, ClearFiles, SetUploadMode, LinkUp, LinkDown
<1> QED
  BY <1>1, <1>2, <1>3, <1>4, <1>5 DEF Environment

-----------------------------------------------------------------------------
(* Sleep *)

LEMMA NextSleep ==
  ASSUME TypeParts, OwnerInv, CountInv', SleepInv, [Next]_vars
  PROVE  SleepInv'
<1>1. CASE Boot
  BY <1>1, BootSleep
<1>2. CASE UNCHANGED vars
  BY <1>2, Rests DEF vars
<1>3. CASE mainPc # "off" /\ Awake
  <2>1. ASSUME NEW c \in Callers, CameraTask(c) PROVE SleepInv'
    BY <1>3, <2>1, SnapshotStepSleep
  <2> QED
    BY <1>3, <2>1, MainStepSleep, RecordTaskSleep, UploadTaskSleep, PushTaskSleep,
       MqttTaskSleep, EnvironmentSleep DEF Awake
<1> QED
  BY <1>1, <1>2, <1>3 DEF Next

LEMMA InitSleep == Init => SleepInv
<1> SUFFICES ASSUME Init PROVE SleepInv
  OBVIOUS
<1>1. /\ mainPc = "off" /\ captures = {} /\ sleepBits = {} /\ mainWait = "busy"
      /\ snap = [c \in Callers |-> NotInSnapshot]
  BY DEF Init, DeviceInit, CameraInit
<1>2. \A c \in Callers : snap[c].pc = "idle"
  BY <1>1 DEF NotInSnapshot
<1> QED
  BY <1>1, <1>2, CameraAssumption
     DEF SleepInv, OffInv, WaitInv, CallersInv, CopiesInv, BitInv, ReleasedInv, Opened

THEOREM SleepCorrect == Spec => []SleepInv
<1>1. TypeParts /\ OwnerInv /\ CountInv' /\ SleepInv /\ [Next]_vars => SleepInv'
  BY NextSleep
<1> QED
  BY <1>1, InitSleep, PartsCorrect, OwnersCorrect, CountCorrect, PTL DEF Spec

(* SLEEP_SNAPSHOT_STOP_BIT follows captureCount: outside config mode it is *)
(* set only when no copy is alive, and a main task that waits for it is    *)
(* never left without it once the last copy has been freed, for every      *)
(* number of images, callers and queue slots, and every fault.             *)
THEOREM StopBitIsExactAlways == Spec => []StopBitIsExact
<1>1. SleepInv => StopBitIsExact
  BY DEF SleepInv, WaitInv, BitInv, Opened, StopBitIsExact
<1> QED
  BY <1>1, SleepCorrect, PTL

(* handle_snapshot_mode: when the sleep bits let the main task go, and up  *)
(* to the deep sleep, no image is in RAM only.  The half-hour timeout of   *)
(* the wait is the one way around the bits.                                *)
THEOREM NothingInRamAtSleep ==
  ASSUME "sleep_timeout" \notin Faults
  PROVE  Spec => []SleepsWithNothingInRam
<1>1. SleepInv => SleepsWithNothingInRam
  BY DEF SleepInv, WaitInv, ReleasedInv, SleepsWithNothingInRam
<1> QED
  BY <1>1, SleepCorrect, PTL
=============================================================================
