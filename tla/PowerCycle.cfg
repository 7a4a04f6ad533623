CONSTANTS
  Minute = 1
  Hour = 2
  Day = 12
  Word = 1048576
  CompDivisor = 10
  ScheduleTime <- ScheduleAt3
  CaptureSettings <- AllCaptureSettings
  UploadSettings <- OnlyScheduled
  AwakeTimes = {1}
  ClockSteps <- ClockBack
  Horizon = 15
  Events = {"trigger", "restart", "crash", "settings", "snapshot_fails"}
SPECIFICATION Spec
VIEW NoHistory
INVARIANTS
  TypeOK
  AlwaysWakes
  NeverSleepsPastASlot
