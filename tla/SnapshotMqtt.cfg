CONSTANTS
  Images = {1, 2}
  Stored = {1, 2}
  MqttQueueSize = 1
  StorageQueueSize = 1
  Modes = {"snapshot"}
  UploadModes = {0, 1}
  NtpEnabled = FALSE
  Faults = {"nolink", "disconnect", "publish", "camera", "frame", "memory", "power_loss", "clear", "upload_timeout"}
  Callers = {"main"}
  TryCount = 2
  MaxFiles = 2
  PushMode = "mqtt"
  Qos = 1
SPECIFICATION Spec
INVARIANTS
  TypeOK
  StopBitIsExact
  SleepsWithNothingInRam
  NothingForgotten
  OkMeansDelivered
