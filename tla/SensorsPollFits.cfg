CONSTANTS
  SensorList = {"ID_G", "ID_GAME_RV", "ID_LA", "ID_GRAVITY", "ID_MOTION_DETECT"}
  Reports = {"DT_GYRO", "DT_MOTION_DETECT", "DT_RESET"}
  Count = 4
  QueueMax = 2
  FrameMax = 2
  ReaderFrames = 1
SPECIFICATION Spec
INVARIANTS TypeOK EventsFit
PROPERTIES BacklogDrains
