CONSTANTS
  SensorList <- MCSensorList
  Periods = {7, 10, 100}
  Failing = {"sensors", "wake", "gyro"}
  MAG_COUNTS = 2
SPECIFICATION MCSpec
INVARIANTS TypeOK UsersAreServed FusionRateHeld StreamsFollowUsers WakeMaskAgrees
INVARIANTS FTypeOK GeoMagWarmUp
PROPERTIES RotationVectorSettles
CHECK_DEADLOCK FALSE
