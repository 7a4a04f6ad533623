------------------------------- MODULE MCNetwork -------------------------------
(* A boot with each of the three network modules, and two provisioning tasks. *)
EXTENDS Network
=============================================================================
