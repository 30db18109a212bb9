CONSTANTS
  SensorList = {"ID_G", "ID_GAME_RV", "ID_LA", "ID_GRAVITY", "ID_RV"}
  Reports = {"DT_GYRO", "DT_ACCEL"}
  Count = 4
  QueueMax = 2
  FrameMax = 1
  ReaderFrames = 4
SPECIFICATION Spec
INVARIANTS EventsFit
