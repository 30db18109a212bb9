CONSTANTS
  Bases = {0, 4}
  Offsets = {1}
  ShortMax = 2
  Delays <- MCDelays
  Boards = {3}
  FLASH_SIZE = 7
  PacketLength = 4
  Align = 2
  Firmware <- MCFirmware
  Stock <- MCStock
  BlackList <- MCBlackList
  AlgoIds = {"modality", "stowed"}
  Parts = {{}, {1}, {1, 2}}
  MotoHandles = {"ID_M", "ID_O", "ID_UNCALIB_MAG", "ID_G", "ID_UNCALIB_GYRO",
                 "ID_GLANCE_GESTURE", "ID_MOTO_GLANCE_GESTURE", "ID_MOTION_DETECT"}
  MotoDelays = {20, 65535, 65546}
  MotoCounts = {1, 2}
  MotoReports = {"DT_GLANCE", "DT_RESET", "DT_MOTION_DETECT", "DT_GYRO_CAL", "DT_MAG"}
  ErrorMax = 1
  Hints = {"SUSTAINED_PERFORMANCE", "VIDEO_ENCODE"}
  MaxUsers = 3
  MaxLost = 2
  LibQti = {TRUE, FALSE}
  Bins = {1, 2}
  kBackupTrigger = 2
  Levels = {0, 2}
  Capacities = {5, 6}
  MaxCount = 1
SPECIFICATION MCSpec
INVARIANTS
  ServicesTypeOK OffsetMatchesBase FlashIsFile BootedRunsFile AlgosFollowParts
  MasksFollowHandles SharedRateHeld GlancesKept LocksFollowUsers
PROPERTIES
  JoinReturns LoaderEnds NothingForgotten
