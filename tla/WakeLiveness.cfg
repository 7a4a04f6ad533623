CONSTANTS
  Minute = 1
  Hour = 2
  Day = 12
  Word = 1048576
  CompDivisor = 10
  ScheduleTime <- ScheduleAt3
  CaptureSettings <- TwoCaptureSettings
  UploadSettings <- TwoUploadSettings
  AwakeTimes = {1}
  ClockSteps <- ClockForward
  Horizon = 14
  Events = {"button", "click", "trigger"}
SPECIFICATION FairSpec
PROPERTIES
  OneCapturePerSlot
  ScheduleSpacing
  ClickOpensConfig
  QueuedActionsRun
