------------------------------ MODULE Storage ------------------------------
(***************************************************************************)
(* storage.c: the record task writes what the push task could not publish  *)
(* to LittleFS, the upload task reads files back into the MQTT queue and   *)
(* unlinks each one that is reported delivered.                            *)
(***************************************************************************)
EXTENDS Camera

CONSTANTS
  MaxFiles,  \* files the partition holds when a write may begin
  Stored     \* images that earlier wake-ups may have left in a file

ASSUME StorageAssumption ==
  /\ MaxFiles \in Nat \ {0}
  /\ Stored \subseteq Images

VARIABLES
  flash,        \* the file of each image: absent, empty (no data) or full
  discarded,    \* history: images evicted by the record task or cleared
  mutex,        \* g_mdStorage.mutex
  storageBits,  \* g_mdStorage.eventGroup
  recPc, recNode,          \* record task
  upPc, upFile, unread     \* upload task; unread: the open directory

flashVars == <<flash, discarded>>
recVars == <<recPc, recNode>>
upVars == <<upPc, upFile, unread>>
storageVars == <<flashVars, mutex, storageBits, recVars, upVars>>

Files == {i \in Images : flash[i] # "absent"}

Unlink(i) == flash' = [flash EXCEPT ![i] = "absent"]

-----------------------------------------------------------------------------
(***************************************************************************)
(* The event group between the upload task and those who steer it.  Given  *)
(* the new bits: the upload task waiting for START, or for DONE or STOP,   *)
(* is released and the bits it waited for are cleared in the same call.    *)
(***************************************************************************)
WakeUpload(bits) ==
  \/ /\ upPc = "wait" /\ "START" \in bits
     /\ storageBits' = bits \ {"START"}
     /\ upPc' = "open"
  \/ /\ upPc = "await" /\ bits \cap {"DONE", "STOP"} # {}
     /\ storageBits' = bits \ {"DONE", "STOP"}
     /\ upPc' = IF "DONE" \in bits THEN "unlink" ELSE "park"
  \/ /\ ~(upPc = "wait" /\ "START" \in bits)
     /\ ~(upPc = "await" /\ bits \cap {"DONE", "STOP"} # {})
     /\ storageBits' = bits
     /\ UNCHANGED upPc

(* storage_queue_node_free: tell the upload task how its node ended. *)
FreeStorageNode(bit) == WakeUpload(storageBits \cup {bit})

(* storage_upload_start clears STOP; a DONE that is pending stays. *)
UploadStart == WakeUpload((storageBits \ {"STOP"}) \cup {"START"})

UploadStop == WakeUpload((storageBits \ {"START"}) \cup {"STOP"})

-----------------------------------------------------------------------------
(* record: node->free_handler on a node of the camera or of the upload task *)
FreeNode(node, bit) ==
  \/ /\ node.from = "camera"
     /\ FreeCapture(node.img)
     /\ UNCHANGED <<storageBits, upPc>>
  \/ /\ node.from = "storage"
     /\ FreeStorageNode(bit)
     /\ UNCHANGED <<captures, captureCount, sleepBits, mainWait>>

RecordReceive ==
  /\ recPc = "recv"
  /\ storageQueue # <<>>
  /\ recNode' = Head(storageQueue)
  /\ storageQueue' = Tail(storageQueue)
  /\ recPc' = IF recNode'.from = "camera" THEN "lock" ELSE "free"
  /\ UNCHANGED <<mode, uploadMode, mqttQueue, sleepBits, mainWait, cameraVars,
                 flashVars, mutex, storageBits, upVars>>

(* Mutant of Evicted: the newest files make room. *)
EvictedNewestFirst == {i \in Files : Cardinality({j \in Files : j < i}) >= MaxFiles - 1}

(* storage_rm_oldest_file until storage_free_space suffices. *)
Evicted == {i \in Files : Cardinality({j \in Files : j > i}) >= MaxFiles - 1}

(* Mutant of RecordOpenFile: the mutex is not taken. *)
RecordOpenFileUnlocked ==
  /\ recPc = "lock"
  /\ discarded' = discarded \cup Evicted
  /\ flash' = [i \in Images |-> IF i = recNode.img THEN "empty"
                                ELSE IF i \in Evicted THEN "absent" ELSE flash[i]]
  /\ recPc' = "write"
  /\ UNCHANGED <<recNode, mutex, storageBits, upVars, deviceVars, cameraVars>>

(* Under the mutex: make room, then fopen(.., "w") creates the file.  When *)
(* that fails too, nothing tells the node apart from one that was saved.   *)
RecordOpenFile ==
  /\ recPc = "lock"
  /\ mutex = "none"
  /\ discarded' = discarded \cup Evicted
  /\ \/ /\ mutex' = "record"
        /\ flash' = [i \in Images |-> IF i = recNode.img THEN "empty"
                                      ELSE IF i \in Evicted THEN "absent" ELSE flash[i]]
        /\ recPc' = "write"
     \/ /\ "flash" \in Faults
        /\ flash' = [i \in Images |-> IF i \in Evicted THEN "absent" ELSE flash[i]]
        /\ recPc' = "free"
        /\ UNCHANGED mutex
  /\ UNCHANGED <<recNode, storageBits, upVars, deviceVars, cameraVars>>

(* fwrite and fclose; the data, and a failure, show when the file is closed. *)
RecordWriteFile ==
  /\ recPc = "write"
  /\ \/ flash' = [flash EXCEPT ![recNode.img] = "full"]
     \/ "flash" \in Faults /\ UNCHANGED flash
  /\ mutex' = "none"
  /\ recPc' = "free"
  /\ UNCHANGED <<discarded, recNode, storageBits, upVars, deviceVars, cameraVars>>

(* Mutant of RecordFree: a node that comes back counts as delivered. *)
RecordFreeDone ==
  /\ recPc = "free"
  /\ FreeNode(recNode, "DONE")
  /\ recPc' = "recv"
  /\ recNode' = NoNode
  /\ UNCHANGED <<mode, uploadMode, mqttQueue, storageQueue, camera, snap, accepted,
                 flashVars, mutex, upFile, unread>>

(* "SAVE TO FLASH" or "IS SELF": a storage node that comes back has failed. *)
RecordFree ==
  /\ recPc = "free"
  /\ FreeNode(recNode, "STOP")
  /\ recPc' = "recv"
  /\ recNode' = NoNode
  /\ UNCHANGED <<mode, uploadMode, mqttQueue, storageQueue, camera, snap, accepted,
                 flashVars, mutex, upFile, unread>>

-----------------------------------------------------------------------------
(* upload: "if no remaining images to upload in flash, will enter sleep" *)
UploadPark ==
  /\ upPc = "park"
  /\ SetSleepBit("upload")
  /\ upPc' = "parked"
  /\ upFile' = NoImage
  /\ unread' = {}
  /\ UNCHANGED <<mode, uploadMode, mqttQueue, storageQueue, cameraVars,
                 flashVars, mutex, storageBits, recVars>>

UploadWaitStart ==
  /\ upPc = "parked"
  /\ upPc' = IF "START" \in storageBits THEN "open" ELSE "wait"
  /\ storageBits' = storageBits \ {"START"}
  /\ UNCHANGED <<flashVars, mutex, recVars, upFile, unread, deviceVars, cameraVars>>

UploadOpenDir ==
  /\ upPc = "open"
  /\ ClearSleepBit("upload")
  /\ unread' = Files
  /\ upPc' = "scan"
  /\ UNCHANGED <<mode, uploadMode, mqttQueue, storageQueue, cameraVars,
                 flashVars, mutex, storageBits, recVars, upFile>>

(* readdir returns a file that still exists. *)
UploadNextFile ==
  /\ upPc = "scan"
  /\ \E i \in unread \cap Files :
       /\ upFile' = i
       /\ unread' = unread \ {i}
  /\ upPc' = "lock"
  /\ UNCHANGED <<flashVars, mutex, storageBits, recVars, deviceVars, cameraVars>>

UploadEndOfDir ==
  /\ upPc = "scan"
  /\ unread \cap Files = {}
  /\ upPc' = "park"
  /\ UNCHANGED <<flashVars, mutex, storageBits, recVars, upFile, unread, deviceVars, cameraVars>>

(* storage_upload_file under the mutex: an empty file is unlinked, a full *)
(* one is read and its node is waiting for room in the MQTT queue.        *)
UploadReadFile ==
  /\ upPc = "lock"
  /\ mutex = "none"
  /\ \/ /\ flash[upFile] = "full"
        /\ mutex' = "upload"
        /\ upPc' = "send"
        /\ UNCHANGED flash
     \/ /\ flash[upFile] = "full"
        /\ "memory" \in Faults
        /\ upPc' = "scan"
        /\ UNCHANGED <<flash, mutex>>
     \/ /\ flash[upFile] # "full"
        /\ Unlink(upFile)
        /\ upPc' = "scan"
        /\ UNCHANGED mutex
  /\ UNCHANGED <<discarded, storageBits, recVars, upFile, unread, deviceVars, cameraVars>>

(* xQueueSend(.., portMAX_DELAY) returns, fclose, and the mutex is given. *)
UploadSend ==
  /\ upPc = "send"
  /\ HasRoom(mqttQueue, MqttQueueSize)
  /\ mqttQueue' = Append(mqttQueue, StorageNode(upFile))
  /\ mutex' = "none"
  /\ upPc' = "sent"
  /\ UNCHANGED <<mode, uploadMode, storageQueue, sleepBits, mainWait, cameraVars,
                 flashVars, storageBits, recVars, upFile, unread>>

(* Arriving at the wait for DONE or STOP: a bit set before ends it at once. *)
UploadAwait ==
  /\ upPc = "sent"
  /\ \/ /\ storageBits \cap {"DONE", "STOP"} # {}
        /\ upPc' = IF "DONE" \in storageBits THEN "unlink" ELSE "park"
        /\ storageBits' = storageBits \ {"DONE", "STOP"}
     \/ /\ storageBits \cap {"DONE", "STOP"} = {}
        /\ upPc' = "await"
        /\ UNCHANGED storageBits
  /\ UNCHANGED <<flashVars, mutex, recVars, upFile, unread, deviceVars, cameraVars>>

UploadUnlink ==
  /\ upPc = "unlink"
  /\ Unlink(upFile)
  /\ upPc' = "scan"
  /\ UNCHANGED <<discarded, mutex, storageBits, recVars, upFile, unread, deviceVars, cameraVars>>

(* Mutant of UploadTimeout: the file is sent again at once. *)
UploadTimeoutRetries ==
  /\ upPc = "await"
  /\ "upload_timeout" \in Faults
  /\ upPc' = "lock"
  /\ UNCHANGED <<flashVars, mutex, storageBits, recVars, upFile, unread, deviceVars, cameraVars>>

(* STORAGE_UPLOAD_DONE_TIMEOUT_MS: the node stays where it is. *)
UploadTimeout ==
  /\ upPc = "await"
  /\ "upload_timeout" \in Faults
  /\ upPc' = "park"
  /\ UNCHANGED <<flashVars, mutex, storageBits, recVars, upFile, unread, deviceVars, cameraVars>>

(* The console command "clear": no mutex, but an open file is not unlinked. *)
ClearFiles ==
  LET open == {recNode.img : x \in {recPc} \cap {"write"}}
                \cup {upFile : x \in {upPc} \cap {"send"}}
  IN  /\ "clear" \in Faults
      /\ flash' = [i \in Images |-> IF i \in open THEN flash[i] ELSE "absent"]
      /\ discarded' = discarded \cup (Files \ open)
      /\ UNCHANGED <<mutex, storageBits, recVars, upVars, deviceVars, cameraVars>>

RecordStep == RecordReceive \/ RecordOpenFile \/ RecordWriteFile \/ RecordFree

UploadStep ==
  \/ UploadPark \/ UploadWaitStart \/ UploadOpenDir
  \/ UploadNextFile \/ UploadEndOfDir
  \/ UploadReadFile \/ UploadSend \/ UploadAwait \/ UploadUnlink

-----------------------------------------------------------------------------
StorageInit ==
  /\ \E files \in SUBSET Stored : flash = [i \in Images |-> IF i \in files THEN "full" ELSE "absent"]
  /\ accepted = Files
  /\ discarded = {}
  /\ mutex = "none"
  /\ storageBits = {}
  /\ recPc = "recv" /\ recNode = NoNode
  /\ upPc = "park" /\ upFile = NoImage /\ unread = {}

(* Files persist: one whose data was not written remains empty. *)
StoragePowerOff ==
  /\ mutex' = "none"
  /\ storageBits' = {}
  /\ recPc' = "recv" /\ recNode' = NoNode
  /\ upPc' = "park" /\ upFile' = NoImage /\ unread' = {}
  /\ UNCHANGED flashVars

(* Where the upload task is concerned with one file. *)
UploadBusy == {"lock", "send", "sent", "await", "unlink"}

StorageTypeOK ==
  /\ flash \in [Images -> {"absent", "empty", "full"}]
  /\ discarded \subseteq Images
  /\ mutex \in {"none", "record", "upload"}
  /\ storageBits \subseteq {"START", "STOP", "DONE"}
  /\ recPc \in {"recv", "lock", "write", "free"}
  /\ recNode \in Node \cup {NoNode}
  /\ recPc # "recv" => recNode \in Node
  /\ upPc \in {"park", "parked", "wait", "open", "scan"} \cup UploadBusy
  /\ upFile \in Images \cup {NoImage}
  /\ upPc \in UploadBusy => upFile \in Images
  /\ unread \subseteq Images
=============================================================================
