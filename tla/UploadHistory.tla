---------------------------- MODULE UploadHistory ----------------------------
(***************************************************************************)
(* Whose DONE is it?  The bits between push, record and upload carry no    *)
(* identity, so ImagePipeline with two history variables remembers what    *)
(* they do not: which file the last DONE was about, and whether the upload *)
(* task has, in this boot, stopped to wait for a node that is on its way.  *)
(* The histories restrict no step and no step of the code reads them.      *)
(***************************************************************************)
EXTENDS ImagePipeline

VARIABLES
  answered,  \* the file of the storage node that was last reported published
  gaveUp     \* a wait for DONE was cut short while its node was on its way

historyVars == <<answered, gaveUp>>

-----------------------------------------------------------------------------
(* No node of the upload task is in a queue or in the hands of a task. *)
NoneIn(q) == \A k \in 1..Len(q) : q[k].from # "storage"

NoneOut ==
  /\ NoneIn(mqttQueue) /\ NoneIn(storageQueue)
  /\ pushNode.from # "storage" /\ recNode.from # "storage"

(* "PUSH SUCCESS" for a node of the upload task: DONE is set. *)
ReportsDone == pushPc = "success" /\ pushPc' = "recv" /\ pushNode.from = "storage"

(* The wait for DONE or STOP ends otherwise, by a STOP from the network or *)
(* the web page or by its timeout, and the node may still be published.    *)
GivesUp == upPc \in {"sent", "await"} /\ upPc' = "park" /\ ~NoneOut'

Remember ==
  \/ /\ mainPc' = "off"
     /\ answered' = NoImage
     /\ gaveUp' = FALSE
  \/ /\ mainPc' # "off"
     /\ answered' = IF ReportsDone THEN pushNode.img ELSE answered
     /\ gaveUp' = (gaveUp \/ GivesUp)

InitH == Init /\ answered = NoImage /\ gaveUp = FALSE

NextH == Next /\ Remember

SpecH == InitH /\ [][NextH]_<<vars, historyVars>>

-----------------------------------------------------------------------------
(* upload unlinks a file because the push task has published that file:    *)
(* however STOP, DONE and START cross each other, in every mode and with   *)
(* every fault, a DONE is another file's only after an upload that was cut *)
(* short while its node was on its way (storage.c: wait in upload).        *)
UnlinksWhatWasAnswered == upPc = "unlink" => upFile = answered \/ gaveUp

(* The three tasks of the image path wait for each other only when the     *)
(* camera has filled both queues and the hands of push and record, unless  *)
(* an upload was cut short and its node fills a place as well.             *)
DeadlockNeedsCopies ==
  CircularWait /\ ~gaveUp => Cardinality(captures) >= MqttQueueSize + StorageQueueSize + 2
=============================================================================
