---------------------------- MODULE ImageLedger ----------------------------
(***************************************************************************)
(* What the firmware promises about each image, with no task, queue or bit *)
(* in sight: where the best copy of it is.  An image is taken into RAM;    *)
(* from there it is saved or sent, and is lost only when the chip loses    *)
(* power with nothing but the copy in RAM; a saved image is sent, or is    *)
(* evicted to make room, the oldest first; a sent image is done with.      *)
(***************************************************************************)
EXTENDS Naturals

CONSTANT Images

VARIABLE where

Places == {"none", "ram", "saved", "sent", "evicted", "lost"}

At(place) == {i \in Images : where[i] = place}

Move(S, place) == where' = [i \in Images |-> IF i \in S THEN place ELSE where[i]]

-----------------------------------------------------------------------------
Take ==
  \E i \in At("none") : Move({i}, "ram")

Save ==
  \E i \in At("ram") : Move({i}, "saved")

(* A file may be evicted while its image is on the way to the server. *)
Send ==
  \E S \in SUBSET (At("ram") \cup At("saved") \cup At("evicted")) :
    S # {} /\ Move(S, "sent")

Evict ==
  \E S \in SUBSET At("saved") :
    /\ S # {}
    /\ \A i \in S, j \in At("saved") \ S : i < j
    /\ Move(S, "evicted")

(* What was in flight may have arrived; what was in RAM is gone. *)
PowerOff ==
  \E arrived \in SUBSET (At("ram") \cup At("saved") \cup At("evicted")) :
    where' = [i \in Images |-> IF i \in arrived THEN "sent"
                               ELSE IF where[i] = "ram" THEN "lost" ELSE where[i]]

Init == where \in [Images -> {"none", "saved"}]

Next == Take \/ Save \/ Send \/ Evict \/ PowerOff

Spec == Init /\ [][Next]_where

TypeOK == where \in [Images -> Places]
=============================================================================
