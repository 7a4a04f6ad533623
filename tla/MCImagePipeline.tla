-------------------------- MODULE MCImagePipeline --------------------------
(***************************************************************************)
(* The image pipeline on small instances, and the ledger it implements.    *)
(***************************************************************************)
EXTENDS ImagePipeline

(* What the guards read: the histories that only the properties of other   *)
(* runs look at do not tell two states apart.                              *)
NoHistory ==
  <<deviceVars, cameraVars, flash, mutex, storageBits, recVars, upVars, pushVars,
    client, isConnected, publishedBit, inflight, mainPc, link>>

-----------------------------------------------------------------------------
(* The best copy of image i. *)
Place(i) ==
  IF i \in delivered                   THEN "sent"
  ELSE IF flash[i] = "full"            THEN "saved"
  ELSE IF i \in lost                   THEN "lost"
  ELSE IF i \in discarded              THEN "evicted"
  ELSE IF i \in captures \cap accepted THEN "ram"
  ELSE IF i \in accepted               THEN "destroyed"
  ELSE "none"

Ledger == INSTANCE ImageLedger WITH where <- [i \in Images |-> Place(i)]

(* The tasks, queues, bits and files of the firmware implement the ledger: *)
(* every step moves images as the ledger allows, so none is destroyed, and *)
(* the record task evicts no file while it keeps an older one.             *)
ImplementsLedger == Ledger!Spec
=============================================================================
