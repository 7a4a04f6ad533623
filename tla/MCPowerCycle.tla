---------------------------- MODULE MCPowerCycle ----------------------------
(***************************************************************************)
(* The power cycle with days of twelve seconds: two to the hour.  The      *)
(* times of the settings coincide, follow each other at once, or do not    *)
(* divide the day.                                                         *)
(***************************************************************************)
EXTENDS PowerCycle, SequencesExt

Daily(time) == [day |-> 7, time |-> time, valid |-> TRUE]

Weekly(day, time) == [day |-> day, time |-> time, valid |-> TRUE]

Invalid == [day |-> 7, time |-> 0, valid |-> FALSE]

Timed(nodes, trigger) ==
  [bScheCap |-> TRUE, scheCapMode |-> 0, timedNodes |-> nodes, intervalValue |-> 0,
   intervalUnit |-> 0, anchor |-> NoAnchor, trigger |-> trigger]

Every(value, unit, anchor, trigger) ==
  [bScheCap |-> TRUE, scheCapMode |-> 1, timedNodes |-> <<>>, intervalValue |-> value,
   intervalUnit |-> unit, anchor |-> anchor, trigger |-> trigger]

NoCapture == [Timed(<<>>, TRUE) EXCEPT !.bScheCap = FALSE]

Instant == [uploadMode |-> 0, timedNodes |-> <<>>]

UploadAt(nodes) == [uploadMode |-> 1, timedNodes |-> nodes]

ScheduleAt3 == Daily(3)

AllCaptureSettings ==
  {NoCapture, Timed(<<Daily(3), Daily(9)>>, FALSE), Timed(<<Weekly(1, 4), Invalid>>, TRUE),
   Every(5, 0, 2, FALSE), Every(2, 1, 3, TRUE), Every(2, 2, 3, FALSE),
   Every(7, 0, NoAnchor, FALSE)}

OnlyScheduled == {UploadAt(<<Daily(3), Weekly(0, 7)>>)}

TwoCaptureSettings == {Timed(<<Daily(3), Daily(9)>>, TRUE), Every(2, 1, 3, FALSE)}

TwoUploadSettings == {Instant, UploadAt(<<Daily(3)>>)}

ClockForward == {5}

ClockBack == {-7}

NoClockStep == {0}

(* Three times in order, so close that the second falls due as the first   *)
(* wake-up ends.                                                           *)
CloseTimes == {Timed(<<Daily(5), Daily(7), Daily(9)>>, FALSE)}

(* A list of times that has none. *)
NoTimes == {Timed(<<Invalid>>, FALSE)}

OnlyInstant == {Instant}

(* The history that only the properties of other runs look at. *)
NoHistory ==
  <<power, reset, now, mode, snapType, snapshotFailed, tmpMode, rtcVars, nvsVars,
    wakeSources, timer>>

-----------------------------------------------------------------------------
(* find_most_recent_time_interval as the loop it is, and the definition of *)
(* WakeupCalc for it: they agree.                                          *)
LoopInterval(nodes, now0) ==
  LET Step(interval, node) ==
        IF ~node.valid THEN interval
        ELSE IF interval = 0 THEN DueIn(node, now0)
        ELSE Min({interval, DueIn(node, now0)})
  IN  IF nodes = <<>> THEN 0 ELSE Max({FoldLeft(Step, 0, nodes), 1})

SomeNodes == {Daily(3), Daily(4), Weekly(0, 3), Weekly(1, 4), Invalid}

ASSUME LoopAssumption ==
  \A n \in 0 .. 3 : \A nodes \in [1 .. n -> SomeNodes] : \A t \in 0 .. 2 * Day :
    FindMostRecentTimeInterval(nodes, t) = LoopInterval(nodes, t)
=============================================================================
