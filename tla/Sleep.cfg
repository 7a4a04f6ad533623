CONSTANTS
  Images = {1, 2}
  Stored = {1}
  MqttQueueSize = 1
  StorageQueueSize = 1
  Modes = {"snapshot", "upload", "schedule"}
  UploadModes = {0, 1}
  NtpEnabled = FALSE
  Faults = {"nolink", "disconnect", "upload_timeout"}
  Callers = {"main"}
  TryCount = 1
  MaxFiles = 1
  PushMode = "mqtt"
  Qos = 1
SPECIFICATION FairSpec
PROPERTY
  EventuallySleeps
