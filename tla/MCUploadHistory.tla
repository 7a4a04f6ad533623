-------------------------- MODULE MCUploadHistory --------------------------
(***************************************************************************)
(* UploadHistory on small instances.                                       *)
(***************************************************************************)
EXTENDS UploadHistory

(* What the guards and the two properties read: the ledger's histories     *)
(* (delivered, discarded, lost) do not tell two states apart.              *)
UploadView ==
  <<deviceVars, cameraVars, flash, mutex, storageBits, recVars, upVars, pushVars,
    client, isConnected, publishedBit, inflight, mainPc, link, historyVars>>
=============================================================================
