CONSTANTS
  Images = {1}
  Stored = {1}
  MqttQueueSize = 1
  StorageQueueSize = 1
  Modes = {"upload"}
  UploadModes = {1}
  NtpEnabled = FALSE
  Faults = {}
  Callers = {"main"}
  TryCount = 1
  MaxFiles = 2
  PushMode = "webhook"
  Qos = 1
SPECIFICATION Spec
INVARIANTS
  UploadBitMeansComplete
