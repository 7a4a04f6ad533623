------------------------------ MODULE SessionLog ------------------------------
(***************************************************************************)
(* The session log of session_log.c: the log of each boot is a file of its *)
(* own, session_log_0 being the one of this boot and session_log_{N-1} the *)
(* oldest.  A boot renames the files one by one, so a power loss may leave *)
(* them anywhere between two renames.  Then every task that logs, the web  *)
(* page that exports the logs and whatever puts the device to sleep share  *)
(* one FILE under a recursive mutex.                                       *)
(*                                                                         *)
(* A file is the number of the boot whose log it holds; what is in it is   *)
(* left out.  LittleFS renames and creates a file atomically.              *)
(* session_log_pause_for_stat, session_log_resume_after_stat (their calls  *)
(* are commented out) and session_log_detach (storage_format has no        *)
(* caller) never run.                                                      *)
(***************************************************************************)
EXTENDS Integers, FiniteSets

CONSTANTS
  Slots,     \* SESSION_LOG_BOOT_SLOTS
  Tasks,     \* tasks that log, export or put the device to sleep
  Faults,    \* what may go wrong, of FaultNames
  MaxBoots   \* bound: boots in a behaviour

FaultNames == {"mount", "unlink", "rename", "open", "reopen"}

ASSUME SlotsAssumption == Slots \in Nat \ {0}
ASSUME LogFaultsAssumption == Faults \subseteq FaultNames
ASSUME MaxBootsAssumption == MaxBoots \in Nat \ {0}

VARIABLES
  slot,          \* slot[i]: the boot whose log is session_log_i.txt, or Absent
  boot,          \* number of this boot
  bootPc,        \* app_main, as far as the log goes
  renames,       \* renames still to do: the next one is renames-1 -> renames
  fp,            \* s_log_fp is not NULL
  hooked,        \* session_log_vprintf is installed
  mutex,         \* holder of s_log_mutex, or Nobody
  pc,            \* what each task is doing with the log
  logged,        \* history: the boots that opened a log
  renameFailed   \* history: some rename has failed

vars == <<slot, boot, bootPc, renames, fp, hooked, mutex, pc, logged, renameFailed>>
files == <<slot, logged, renameFailed>>
writer == <<fp, hooked, mutex>>

Absent == 0
Nobody == "nobody"
Last == Slots - 1
Files == 0..Last

ASSUME TasksAssumption == Nobody \notin Tasks

Init ==
  /\ slot = [i \in Files |-> Absent]
  /\ boot = 1
  /\ bootPc = "mount"
  /\ renames = 0
  /\ fp = FALSE /\ hooked = FALSE /\ mutex = Nobody
  /\ pc = [t \in Tasks |-> "idle"]
  /\ logged = {}
  /\ renameFailed = FALSE

-----------------------------------------------------------------------------
\* A boot

\* app_main: without a file system there is no log in this boot, and
\* session_log_export says so.
Mount ==
  /\ bootPc = "mount"
  /\ \/ bootPc' = "unlink"
     \/ "mount" \in Faults /\ bootPc' = "no_log"
  /\ UNCHANGED <<files, boot, renames, writer, pc>>

(* Mutant of UnlinkOldest: one rename too many. *)
UnlinkOldestOffByOne ==
  /\ bootPc = "unlink"
  /\ slot' = [slot EXCEPT ![Last] = Absent]
  /\ bootPc' = "rename"
  /\ renames' = Slots
  /\ UNCHANGED <<boot, writer, pc, logged, renameFailed>>

\* The oldest log is dropped.  A failure is logged and ignored.
UnlinkOldest ==
  /\ bootPc = "unlink"
  /\ \/ slot' = [slot EXCEPT ![Last] = Absent]
     \/ "unlink" \in Faults /\ slot' = slot
  /\ bootPc' = "rename"
  /\ renames' = Last
  /\ UNCHANGED <<boot, writer, pc, logged, renameFailed>>

(* Mutant of Shifted: the old name is left behind. *)
ShiftedCopy(i) == [slot EXCEPT ![i + 1] = slot[i]]

\* session_log_{i} becomes session_log_{i+1}, replacing what is there; no
\* such file is no error.
Shifted(i) == [slot EXCEPT ![i + 1] = slot[i], ![i] = Absent]

(* Mutant of RenameNext: the rotation stops at a file that is missing. *)
RenameNextStopsAtHole ==
  /\ bootPc = "rename" /\ renames > 0
  /\ renames' = IF slot[renames - 1] = Absent THEN 0 ELSE renames - 1
  /\ slot' = IF slot[renames - 1] = Absent THEN slot ELSE Shifted(renames - 1)
  /\ UNCHANGED <<boot, bootPc, writer, pc, logged, renameFailed>>

RenameNext ==
  /\ bootPc = "rename" /\ renames > 0
  /\ renames' = renames - 1
  /\ \/ /\ slot' = IF slot[renames - 1] = Absent THEN slot ELSE Shifted(renames - 1)
        /\ UNCHANGED renameFailed
     \/ /\ "rename" \in Faults /\ slot[renames - 1] # Absent
        /\ renameFailed' = TRUE
        /\ UNCHANGED slot
  /\ UNCHANGED <<boot, bootPc, writer, pc, logged>>

\* fopen "w" of slot 0, the first line, and the hook.
OpenLog ==
  /\ bootPc = "rename" /\ renames = 0
  /\ \/ /\ slot' = [slot EXCEPT ![0] = boot]
        /\ logged' = logged \cup {boot}
        /\ fp' = TRUE /\ hooked' = TRUE
     \/ "open" \in Faults /\ UNCHANGED <<slot, logged, fp, hooked>>
  /\ bootPc' = "done"
  /\ UNCHANGED <<boot, renames, mutex, pc, renameFailed>>

-----------------------------------------------------------------------------
\* The tasks.  They start after session_log_init.

Goto(t, from, to) == pc[t] = from /\ pc' = [pc EXCEPT ![t] = to]

\* session_log_vprintf looks at s_log_fp before it takes the mutex.
LogCheck(t) ==
  /\ bootPc = "done" /\ hooked /\ fp
  /\ Goto(t, "idle", "log")
  /\ UNCHANGED <<files, boot, bootPc, renames, writer>>

LogWrite(t) ==
  /\ mutex = Nobody /\ fp
  /\ Goto(t, "log", "idle")
  /\ UNCHANGED <<files, boot, bootPc, renames, writer>>

\* session_log_http_export.  It gives up ("Log busy") if it does not get the
\* mutex in five seconds.
ExportStart(t) ==
  /\ bootPc = "done"
  /\ Goto(t, "idle", "export")
  /\ UNCHANGED <<files, boot, bootPc, renames, writer>>

ExportBusy(t) ==
  /\ mutex # Nobody
  /\ Goto(t, "export", "idle")
  /\ UNCHANGED <<files, boot, bootPc, renames, writer>>

(* Mutant of ExportTake: the mutex is not waited for. *)
ExportTakeUnlocked(t) ==
  /\ Goto(t, "export", "sending")
  /\ mutex' = t
  /\ fp' = FALSE
  /\ UNCHANGED <<files, boot, bootPc, renames, hooked>>

ExportTake(t) ==
  /\ mutex = Nobody
  /\ Goto(t, "export", "sending")
  /\ mutex' = t
  /\ fp' = FALSE
  /\ UNCHANGED <<files, boot, bootPc, renames, hooked>>

\* The logs are sent, or sending them fails; slot 0 is opened to append, which
\* creates it when it is absent.
ExportEnd(t) ==
  /\ Goto(t, "sending", "idle")
  /\ mutex' = Nobody
  /\ \/ /\ fp' = TRUE
        /\ IF slot[0] = Absent
           THEN /\ slot' = [slot EXCEPT ![0] = boot]
                /\ logged' = logged \cup {boot}
           ELSE UNCHANGED <<slot, logged>>
     \/ "reopen" \in Faults /\ UNCHANGED <<fp, slot, logged>>
  /\ UNCHANGED <<boot, bootPc, renames, hooked, renameFailed>>

\* session_log_close_for_sleep, from sleep_start, the button or the module
\* check.  It gives up after five seconds; the device sleeps all the same.
CloseStart(t) ==
  /\ bootPc \in {"done", "no_log"}
  /\ Goto(t, "idle", "close")
  /\ UNCHANGED <<files, boot, bootPc, renames, writer>>

CloseTake(t) ==
  /\ mutex = Nobody
  /\ Goto(t, "close", "sleep")
  /\ fp' = FALSE
  /\ UNCHANGED <<files, boot, bootPc, renames, hooked, mutex>>

CloseBusy(t) ==
  /\ mutex # Nobody
  /\ Goto(t, "close", "sleep")
  /\ UNCHANGED <<files, boot, bootPc, renames, writer>>

-----------------------------------------------------------------------------
\* The next boot: only the files survive.
Restart ==
  /\ boot < MaxBoots
  /\ boot' = boot + 1
  /\ bootPc' = "mount"
  /\ renames' = 0
  /\ fp' = FALSE /\ hooked' = FALSE /\ mutex' = Nobody
  /\ pc' = [t \in Tasks |-> "idle"]
  /\ UNCHANGED files

DeepSleep(t) == pc[t] = "sleep" /\ Restart

\* vfprintf to a FILE that was closed between the look and the mutex: s_log_fp
\* is NULL by then, and the device panics.
LogPanics(t) == pc[t] = "log" /\ mutex = Nobody /\ ~fp /\ Restart

\* At any moment.
PowerLoss == Restart

TaskStep(t) ==
  \/ LogCheck(t) \/ LogWrite(t) \/ LogPanics(t)
  \/ ExportStart(t) \/ ExportBusy(t) \/ ExportTake(t) \/ ExportEnd(t)
  \/ CloseStart(t) \/ CloseTake(t) \/ CloseBusy(t) \/ DeepSleep(t)

\* The bound.
LastBoot == boot = MaxBoots /\ UNCHANGED vars

Boot == Mount \/ UnlinkOldest \/ RenameNext \/ OpenLog

Next == Boot \/ PowerLoss \/ LastBoot \/ \E t \in Tasks : TaskStep(t)

Spec == Init /\ [][Next]_vars

-----------------------------------------------------------------------------
TypeOK ==
  /\ slot \in [Files -> Nat]
  /\ boot \in Nat \ {0}
  /\ bootPc \in {"mount", "no_log", "unlink", "rename", "done"}
  /\ renames \in 0..Last
  /\ fp \in BOOLEAN /\ hooked \in BOOLEAN
  /\ mutex \in Tasks \cup {Nobody}
  /\ pc \in [Tasks -> {"idle", "log", "export", "sending", "close", "sleep"}]
  /\ logged \subseteq Nat
  /\ renameFailed \in BOOLEAN

\* "Keeps the last SESSION_LOG_BOOT_SLOTS boot sessions": the log of each of
\* the last N boots is still there, if that boot opened one, wherever a power loss
\* cut a rotation short and however often, as long as no rename fails.
KeepsLastBoots ==
  \A b \in logged :
    ~renameFailed /\ b > boot - Slots => \E i \in Files : slot[i] = b

\* The file names are in the order of time, newest first, whatever power
\* losses and failed renames there were: the export, which sends the files
\* from the highest number down, is chronological, and no log is there twice.
NewestFirst ==
  \A i, j \in Files :
    i < j /\ slot[i] # Absent /\ slot[j] # Absent => slot[i] > slot[j]

\* While the files are sent nobody writes the log of this boot, no second
\* export runs, and the holder of the mutex is the one who sends.
ExportIsAlone ==
  \A t \in Tasks : pc[t] = "sending" => mutex = t /\ ~fp

\* A task that sleeps leaves no open log behind, so that LittleFS has written
\* all of it.  The code does not guarantee this: an export that waits for the
\* mutex, or holds it for more than five seconds, opens the log again.
SleepsWithLogClosed ==
  \A t \in Tasks : pc[t] = "sleep" => ~fp

=============================================================================
