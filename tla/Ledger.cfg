CONSTANTS
  Images = {1, 2, 3}
  Stored = {1, 2, 3}
  MqttQueueSize = 1
  StorageQueueSize = 1
  Modes = {"snapshot", "upload", "schedule"}
  UploadModes = {0, 1}
  NtpEnabled = TRUE
  Faults = {"nolink", "power_loss"}
  Callers = {"main"}
  TryCount = 1
  MaxFiles = 2
  PushMode = "mqtt"
  Qos = 1
SPECIFICATION Spec
INVARIANT
  ReadIntact
PROPERTY
  ImplementsLedger
