--------------------------- MODULE SessionLogProofs ---------------------------
(***************************************************************************)
(* Theorems about SessionLog, for every number of slots, every set of      *)
(* tasks, every fault and any number of boots.                             *)
(***************************************************************************)
EXTENDS SessionLog, TLAPS

USE SlotsAssumption, TasksAssumption DEF Files, Last, Absent

-----------------------------------------------------------------------------
\* The inductive invariant

\* Only the log that is being written is as young as this boot.
Dated ==
  /\ \A i \in Files : slot[i] <= boot /\ (slot[i] = boot => i = 0 /\ bootPc = "done")
  /\ \A b \in logged : b > 0

\* Tasks write and export only after session_log_init.
TasksAfterInit ==
  \A t \in Tasks : pc[t] \in {"log", "export", "sending"} => bootPc = "done"

Kept == \A b \in logged : b > boot - Slots => \E i \in Files : slot[i] = b

\* The rotation of this boot has not reached file i yet.
ToShift(i) ==
  \/ bootPc \in {"mount", "unlink"}
  \/ bootPc = "rename" /\ i < renames

\* A log moves by at most one slot in a boot, so slot i is only reached by
\* boots that are i back.
InTime ==
  \A i \in Files : slot[i] # Absent =>
    /\ slot[i] + i <= boot
    /\ ToShift(i) => slot[i] + i < boot

\* A rename overwrites nothing that is to be kept.
Vacated ==
  bootPc = "rename" => slot[renames] = Absent \/ slot[renames] <= boot - Slots

LogInv ==
  /\ TypeOK
  /\ NewestFirst
  /\ Dated
  /\ TasksAfterInit
  /\ ExportIsAlone
  /\ ~renameFailed => Kept /\ InTime /\ Vacated

LEMMA InitLogInv == Init => LogInv
<1> SUFFICES ASSUME Init PROVE LogInv
  OBVIOUS
<1>1. TypeOK
  <2>1. 0 \in 0..Last /\ slot \in [Files -> Nat]
    BY DEF Init
  <2>2. pc \in [Tasks -> {"idle", "log", "export", "sending", "close", "sleep"}]
    BY DEF Init
  <2>3. fp \in BOOLEAN /\ hooked \in BOOLEAN /\ renameFailed \in BOOLEAN
    BY DEF Init
  <2>4. boot \in Nat \ {0} /\ renames \in 0..Last /\ logged \subseteq Nat
    BY <2>1 DEF Init
  <2>5. QED BY <2>1, <2>2, <2>3, <2>4, Zenon DEF Init, TypeOK
<1>2. NewestFirst /\ Dated
  BY DEF Init, NewestFirst, Dated
<1>3. TasksAfterInit /\ ExportIsAlone
  BY DEF Init, TasksAfterInit, ExportIsAlone
<1>4. Kept /\ InTime /\ Vacated
  BY DEF Init, Kept, InTime, Vacated
<1>5. QED BY <1>1, <1>2, <1>3, <1>4 DEF LogInv

\* The steps of a boot.
LEMMA MountStep == LogInv /\ Mount => LogInv'
  BY DEF LogInv, TypeOK, NewestFirst, Dated, TasksAfterInit, ExportIsAlone, Kept,
         InTime, ToShift, Vacated, Mount, files, writer

LEMMA UnlinkStep == LogInv /\ UnlinkOldest => LogInv'
<1> SUFFICES ASSUME LogInv, UnlinkOldest PROVE LogInv'
  OBVIOUS
<1>1. TypeOK' /\ NewestFirst' /\ Dated' /\ TasksAfterInit' /\ ExportIsAlone'
  BY DEF LogInv, TypeOK, NewestFirst, Dated, TasksAfterInit, ExportIsAlone,
         UnlinkOldest, writer
<1>2. ASSUME ~renameFailed PROVE Kept' /\ InTime' /\ Vacated'
  <2>1. slot[Last] # Absent => slot[Last] <= boot - Slots
    BY <1>2 DEF LogInv, TypeOK, InTime, ToShift, UnlinkOldest
  <2>2. Kept'
    BY <1>2, <2>1 DEF LogInv, TypeOK, Dated, Kept, UnlinkOldest
  <2>3. InTime'
    BY <1>2 DEF LogInv, TypeOK, InTime, ToShift, UnlinkOldest
  <2>4. Vacated'
    BY <1>2, <2>1 DEF LogInv, TypeOK, Vacated, UnlinkOldest
  <2>5. QED BY <2>2, <2>3, <2>4
<1>3. QED BY <1>1, <1>2 DEF LogInv, UnlinkOldest

LEMMA RenameStep == LogInv /\ RenameNext => LogInv'
<1> SUFFICES ASSUME LogInv, RenameNext PROVE LogInv'
  OBVIOUS
<1> DEFINE r == renames
<1>1. r \in 1..Last /\ r - 1 \in Files /\ r \in Files /\ bootPc = "rename"
  BY DEF LogInv, TypeOK, RenameNext
<1>2. CASE slot' = slot
  <2>1. TypeOK' /\ NewestFirst' /\ Dated' /\ TasksAfterInit' /\ ExportIsAlone'
    BY <1>1, <1>2 DEF LogInv, TypeOK, NewestFirst, Dated, TasksAfterInit, ExportIsAlone,
                RenameNext, writer
  <2>2. ~renameFailed' => ~renameFailed /\ slot[r - 1] = Absent
    BY <1>1, <1>2 DEF LogInv, TypeOK, RenameNext, Shifted
  <2>3. ~renameFailed' => Kept' /\ InTime' /\ Vacated'
    BY <1>1, <1>2, <2>2 DEF LogInv, TypeOK, Kept, InTime, ToShift, Vacated, RenameNext
  <2>4. QED BY <2>1, <2>3 DEF LogInv
<1>3. CASE slot[r - 1] # Absent /\ slot' = Shifted(r - 1) /\ renameFailed' = renameFailed
  <2>1. /\ slot'[r] = slot[r - 1] /\ slot'[r - 1] = Absent
        /\ \A i \in Files \ {r, r - 1} : slot'[i] = slot[i]
        /\ slot' \in [Files -> Nat]
    BY <1>1, <1>3 DEF LogInv, TypeOK, Shifted
  <2>2. TypeOK' /\ TasksAfterInit' /\ ExportIsAlone'
    BY <1>1, <2>1 DEF LogInv, TypeOK, TasksAfterInit, ExportIsAlone, RenameNext, writer
  <2>3. NewestFirst'
    <3>1. SUFFICES ASSUME NEW i \in Files, NEW j \in Files, i < j,
                          slot'[i] # Absent, slot'[j] # Absent
                   PROVE  slot'[i] > slot'[j]
      BY DEF NewestFirst
    <3>2. i # r - 1 /\ j # r - 1
      BY <2>1, <3>1
    <3>3. CASE i = r
      BY <1>1, <2>1, <3>1, <3>2, <3>3 DEF LogInv, TypeOK, NewestFirst
    <3>4. CASE j = r
      <4>1. i < r - 1 /\ slot'[i] = slot[i]
        BY <1>1, <2>1, <3>1, <3>2, <3>4
      <4>2. QED BY <1>1, <2>1, <3>1, <3>4, <4>1 DEF LogInv, TypeOK, NewestFirst
    <3>5. CASE i # r /\ j # r
      BY <2>1, <3>1, <3>2, <3>5 DEF LogInv, NewestFirst
    <3>6. QED BY <3>3, <3>4, <3>5
  <2>4. Dated'
    <3>1. slot[r - 1] < boot
      BY <1>1 DEF LogInv, TypeOK, Dated
    <3>2. ASSUME NEW i \in Files
          PROVE  slot'[i] <= boot /\ (slot'[i] = boot => i = 0 /\ bootPc = "done")
      <4>1. CASE i = r
        BY <1>1, <2>1, <3>1, <4>1 DEF LogInv, TypeOK
      <4>2. CASE i = r - 1
        BY <1>1, <2>1, <4>2 DEF LogInv, TypeOK
      <4>3. CASE i # r /\ i # r - 1
        BY <2>1, <4>3 DEF LogInv, Dated
      <4>4. QED BY <4>1, <4>2, <4>3
    <3>3. boot' = boot /\ bootPc' = bootPc /\ logged' = logged
      BY DEF RenameNext
    <3>4. QED BY <3>2, <3>3 DEF LogInv, Dated
  <2>5. ASSUME ~renameFailed PROVE Kept' /\ InTime' /\ Vacated'
    <3>1. ASSUME NEW b \in logged, b > boot - Slots
          PROVE  \E i \in Files : slot'[i] = b
      <4>1. PICK i \in Files : slot[i] = b
        BY <2>5, <3>1 DEF LogInv, Kept
      <4>2. b # Absent /\ i # r
        BY <1>1, <2>5, <3>1, <4>1 DEF LogInv, TypeOK, Dated, Vacated
      <4>3. CASE i = r - 1
        BY <1>1, <2>1, <4>1, <4>3
      <4>4. CASE i # r - 1
        BY <2>1, <4>1, <4>2, <4>4
      <4>5. QED BY <4>3, <4>4
    <3>2. Kept'
      BY <3>1 DEF Kept, RenameNext
    <3>3. InTime'
      <4>1. /\ boot' = boot /\ bootPc' = "rename" /\ renames' = r - 1
            /\ boot \in Nat
        BY <1>1 DEF LogInv, TypeOK, RenameNext
      <4>2. SUFFICES ASSUME NEW i \in Files, slot'[i] # Absent
                     PROVE  /\ slot'[i] + i <= boot
                            /\ i < r - 1 => slot'[i] + i < boot
        BY <4>1 DEF InTime, ToShift
      <4>3. CASE i = r
        <5>1. slot[r - 1] + (r - 1) < boot
          BY <1>1, <1>3, <2>5 DEF LogInv, InTime, ToShift
        <5>2. QED BY <1>1, <2>1, <4>1, <4>3, <5>1 DEF LogInv, TypeOK
      <4>4. CASE i # r
        <5>1. slot'[i] = slot[i]
          BY <2>1, <4>2, <4>4
        <5>2. QED BY <1>1, <2>5, <4>2, <5>1 DEF LogInv, TypeOK, InTime, ToShift
      <4>5. QED BY <4>3, <4>4
    <3>4. Vacated'
      BY <1>1, <2>1 DEF Vacated, RenameNext
    <3>5. QED BY <3>2, <3>3, <3>4
  <2>6. QED BY <1>3, <2>2, <2>3, <2>4, <2>5 DEF LogInv
<1>4. QED
  BY <1>2, <1>3 DEF RenameNext

\* Slot 0 gets a log of this boot: fopen "w" at the start, fopen "a" after an
\* export that found no file.
LEMMA NewCurrent ==
  ASSUME LogInv, slot' = [slot EXCEPT ![0] = boot],
         bootPc \in {"rename", "done"}, bootPc' = "done",
         slot[0] = Absent \/ slot[0] <= boot - Slots \/ renameFailed,
         UNCHANGED <<boot, renames, renameFailed>>, logged' = logged \cup {boot}
  PROVE  /\ slot' \in [Files -> Nat] /\ logged' \subseteq Nat
         /\ NewestFirst' /\ Dated'
         /\ ~renameFailed' => Kept' /\ InTime' /\ Vacated'
<1>1. /\ 0 \in Files /\ boot \in Nat \ {0} /\ slot \in [Files -> Nat]
      /\ logged \subseteq Nat
  BY DEF LogInv, TypeOK
<1>2. slot'[0] = boot /\ (\A i \in Files \ {0} : slot'[i] = slot[i] /\ slot[i] < boot)
  BY <1>1 DEF LogInv, Dated
<1>3. slot' \in [Files -> Nat] /\ logged' \subseteq Nat
  BY <1>1
<1>4. NewestFirst'
  BY <1>1, <1>2 DEF LogInv, NewestFirst
<1>5. Dated'
  BY <1>1, <1>2 DEF LogInv, Dated
<1>6. ASSUME ~renameFailed PROVE Kept'
  <2>1. ASSUME NEW b \in logged, b > boot - Slots PROVE \E i \in Files : slot'[i] = b
    <3>1. PICK i \in Files : slot[i] = b
      BY <1>6, <2>1 DEF LogInv, Kept
    <3>2. b # Absent /\ b \in Nat
      BY <1>1, <2>1 DEF LogInv, Dated
    <3>3. i # 0
      BY <1>1, <1>6, <2>1, <3>1, <3>2
    <3>4. QED BY <1>2, <3>1, <3>3
  <2>2. QED BY <1>1, <1>2, <2>1 DEF Kept
<1>7. ASSUME ~renameFailed PROVE InTime' /\ Vacated'
  BY <1>1, <1>2, <1>7 DEF LogInv, InTime, ToShift, Vacated
<1>8. QED BY <1>3, <1>4, <1>5, <1>6, <1>7

LEMMA OpenStep == LogInv /\ OpenLog => LogInv'
<1> SUFFICES ASSUME LogInv, OpenLog PROVE LogInv'
  OBVIOUS
<1>1. TasksAfterInit' /\ ExportIsAlone'
  BY DEF LogInv, TasksAfterInit, ExportIsAlone, OpenLog
<1>2. CASE slot' = [slot EXCEPT ![0] = boot] /\ logged' = logged \cup {boot}
  <2>1. slot[0] = Absent \/ slot[0] <= boot - Slots \/ renameFailed
    BY DEF LogInv, Vacated, OpenLog
  <2>2. /\ slot' \in [Files -> Nat] /\ logged' \subseteq Nat
        /\ NewestFirst' /\ Dated'
        /\ ~renameFailed' => Kept' /\ InTime' /\ Vacated'
    BY <1>2, <2>1, NewCurrent DEF OpenLog
  <2>3. TypeOK'
    BY <2>2 DEF LogInv, TypeOK, OpenLog
  <2>4. QED BY <1>1, <2>2, <2>3 DEF LogInv
<1>3. CASE UNCHANGED <<slot, logged, fp, hooked>>
  <2>1. TypeOK' /\ NewestFirst' /\ Dated'
    BY <1>3 DEF LogInv, TypeOK, NewestFirst, Dated, OpenLog
  <2>2. ~renameFailed' => Kept' /\ InTime' /\ Vacated'
    BY <1>3 DEF LogInv, Kept, InTime, ToShift, Vacated, OpenLog
  <2>3. QED BY <1>1, <2>1, <2>2 DEF LogInv
<1>4. QED BY <1>2, <1>3 DEF OpenLog

LEMMA ExportEndStep == ASSUME NEW t \in Tasks PROVE LogInv /\ ExportEnd(t) => LogInv'
<1> SUFFICES ASSUME LogInv, ExportEnd(t) PROVE LogInv'
  OBVIOUS
<1>1. bootPc = "done" /\ bootPc' = "done" /\ mutex = t
  BY DEF LogInv, TasksAfterInit, ExportIsAlone, ExportEnd, Goto
<1>2. TasksAfterInit' /\ ExportIsAlone'
  BY <1>1 DEF LogInv, TypeOK, TasksAfterInit, ExportIsAlone, ExportEnd, Goto
<1>3. CASE slot[0] = Absent /\ slot' = [slot EXCEPT ![0] = boot]
           /\ logged' = logged \cup {boot}
  <2>1. /\ slot' \in [Files -> Nat] /\ logged' \subseteq Nat
        /\ NewestFirst' /\ Dated'
        /\ ~renameFailed' => Kept' /\ InTime' /\ Vacated'
    BY <1>1, <1>3, NewCurrent DEF ExportEnd
  <2>2. TypeOK'
    BY <2>1 DEF LogInv, TypeOK, ExportEnd, Goto
  <2>3. QED BY <1>2, <2>1, <2>2 DEF LogInv
<1>4. CASE UNCHANGED <<slot, logged>>
  <2>1. TypeOK' /\ NewestFirst' /\ Dated'
    BY <1>4 DEF LogInv, TypeOK, NewestFirst, Dated, ExportEnd, Goto
  <2>2. ~renameFailed' => Kept' /\ InTime' /\ Vacated'
    BY <1>4 DEF LogInv, Kept, InTime, ToShift, Vacated, ExportEnd
  <2>3. QED BY <1>2, <2>1, <2>2 DEF LogInv
<1>5. QED BY <1>3, <1>4 DEF ExportEnd

\* The other steps of the tasks touch no file.
LEMMA QuietStep ==
  ASSUME NEW t \in Tasks,
         \/ LogCheck(t) \/ LogWrite(t) \/ ExportStart(t) \/ ExportBusy(t)
         \/ ExportTake(t) \/ CloseStart(t) \/ CloseTake(t) \/ CloseBusy(t)
  PROVE  LogInv => LogInv'
<1> SUFFICES ASSUME LogInv PROVE LogInv'
  OBVIOUS
<1>1. UNCHANGED <<files, boot, bootPc, renames>>
  BY DEF LogCheck, LogWrite, ExportStart, ExportBusy, ExportTake, CloseStart,
         CloseTake, CloseBusy
<1>2. NewestFirst' /\ Dated' /\ (~renameFailed' => Kept' /\ InTime' /\ Vacated')
  BY <1>1 DEF LogInv, NewestFirst, Dated, Kept, InTime, ToShift, Vacated, files
<1>3. TypeOK'
  BY <1>1 DEF LogInv, TypeOK, LogCheck, LogWrite, ExportStart, ExportBusy, ExportTake,
         CloseStart, CloseTake, CloseBusy, Goto, files, writer
<1>4. TasksAfterInit'
  BY <1>1 DEF LogInv, TypeOK, TasksAfterInit, LogCheck, LogWrite, ExportStart,
         ExportBusy, ExportTake, CloseStart, CloseTake, CloseBusy, Goto
<1>5. ExportIsAlone'
  <2>1. CASE ExportTake(t)
    BY <2>1 DEF LogInv, TypeOK, ExportIsAlone, ExportTake, Goto
  <2>2. CASE ~ExportTake(t)
    BY <2>2 DEF LogInv, TypeOK, ExportIsAlone, LogCheck, LogWrite, ExportStart,
         ExportBusy, CloseStart, CloseTake, CloseBusy, Goto, writer
  <2>3. QED BY <2>1, <2>2
<1>6. QED BY <1>2, <1>3, <1>4, <1>5 DEF LogInv

LEMMA RestartStep == LogInv /\ Restart => LogInv'
<1> SUFFICES ASSUME LogInv, Restart PROVE LogInv'
  OBVIOUS
<1>1. boot' = boot + 1 /\ bootPc' = "mount" /\ UNCHANGED files
  BY DEF Restart
<1>2. TypeOK'
  <2>1. fp' \in BOOLEAN /\ hooked' \in BOOLEAN
    BY DEF Restart
  <2>2. boot' \in Nat \ {0} /\ renames' \in 0..Last
    BY <1>1 DEF LogInv, TypeOK, Restart
  <2>3. pc' \in [Tasks -> {"idle", "log", "export", "sending", "close", "sleep"}]
    BY DEF Restart
  <2>4. QED BY <1>1, <2>1, <2>2, <2>3, Zenon DEF LogInv, TypeOK, Restart, files
<1>3. NewestFirst' /\ Dated'
  BY <1>1 DEF LogInv, TypeOK, NewestFirst, Dated, files
<1>4. TasksAfterInit' /\ ExportIsAlone'
  BY DEF TasksAfterInit, ExportIsAlone, Restart
<1>5. ASSUME ~renameFailed PROVE Kept'
  <2>1. logged \subseteq Nat /\ boot \in Nat
    BY DEF LogInv, TypeOK
  <2>2. slot' = slot /\ logged' = logged
    BY <1>1 DEF files
  <2>3. ASSUME NEW b \in logged, b > boot' - Slots PROVE b > boot - Slots
    BY <1>1, <2>1, <2>3
  <2>4. ASSUME NEW b \in logged, b > boot' - Slots PROVE \E i \in Files : slot'[i] = b
    BY <1>5, <2>2, <2>3, <2>4 DEF LogInv, Kept
  <2>5. QED BY <2>2, <2>4 DEF Kept
<1>6. ASSUME ~renameFailed PROVE InTime' /\ Vacated'
  BY <1>1, <1>6 DEF LogInv, TypeOK, InTime, ToShift, Vacated, files
<1>7. QED BY <1>1, <1>2, <1>3, <1>4, <1>5, <1>6 DEF LogInv, files

LEMMA StepLogInv == LogInv /\ [Next]_vars => LogInv'
<1> SUFFICES ASSUME LogInv, [Next]_vars PROVE LogInv'
  OBVIOUS
<1>1. CASE Boot
  BY <1>1, MountStep, UnlinkStep, RenameStep, OpenStep DEF Boot
<1>2. CASE PowerLoss
  BY <1>2, RestartStep DEF PowerLoss
<1>3. ASSUME NEW t \in Tasks, TaskStep(t) PROVE LogInv'
  BY <1>3, ExportEndStep, QuietStep, RestartStep DEF TaskStep, LogPanics, DeepSleep
<1>4. CASE UNCHANGED vars
  BY <1>4 DEF LogInv, TypeOK, NewestFirst, Dated, TasksAfterInit, ExportIsAlone,
              Kept, InTime, ToShift, Vacated, vars
<1>5. QED BY <1>1, <1>2, <1>3, <1>4 DEF Next, LastBoot

THEOREM LogInvariant == Spec => []LogInv
  BY InitLogInv, StepLogInv, PTL DEF Spec

-----------------------------------------------------------------------------
\* Types.
THEOREM LogTypeCorrect == Spec => []TypeOK
<1>1. LogInv => TypeOK BY DEF LogInv
<1>2. QED BY <1>1, LogInvariant, PTL

\* However many boots are cut short, and wherever, the logs of the last
\* SESSION_LOG_BOOT_SLOTS boots are there as long as no rename fails.
THEOREM LastBootsKept == Spec => []KeepsLastBoots
<1>1. LogInv => KeepsLastBoots BY DEF LogInv, Kept, KeepsLastBoots
<1>2. QED BY <1>1, LogInvariant, PTL

\* The file names stay in the order of time, whatever fails.
THEOREM LogsInOrder == Spec => []NewestFirst
<1>1. LogInv => NewestFirst BY DEF LogInv
<1>2. QED BY <1>1, LogInvariant, PTL

\* An export has the log files to itself.
THEOREM ExportAlone == Spec => []ExportIsAlone
<1>1. LogInv => ExportIsAlone BY DEF LogInv
<1>2. QED BY <1>1, LogInvariant, PTL
=============================================================================
