CONSTANTS
  Images = {1, 2}
  Stored = {1}
  MqttQueueSize = 1
  StorageQueueSize = 1
  Modes = {"config"}
  UploadModes = {0}
  NtpEnabled = FALSE
  Faults = {"frame", "flash", "publish", "sleep_timeout"}
  Callers = {"main", "button"}
  TryCount = 2
  MaxFiles = 1
  PushMode = "mqtt"
  Qos = 0
SPECIFICATION Spec
VIEW NoHistory
INVARIANTS
  OneOwner
  CountIsExact
