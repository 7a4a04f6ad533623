CONSTANTS
  Images = {1, 2}
  Stored = {1}
  MqttQueueSize = 1
  StorageQueueSize = 1
  Modes = {"config"}
  UploadModes = {0, 1}
  NtpEnabled = FALSE
  Faults = {"link_drop", "upload_timeout"}
  Callers = {"main"}
  TryCount = 1
  MaxFiles = 1
  PushMode = "webhook"
  Qos = 1
SPECIFICATION SpecH
VIEW UploadView
INVARIANTS
  UnlinksWhatWasAnswered
  DeadlockNeedsCopies
