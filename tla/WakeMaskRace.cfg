CONSTANTS
  WakeHandles = {"ID_P", "ID_MOTION_DETECT"}
  OneShots = {"ID_MOTION_DETECT"}
SPECIFICATION Spec
INVARIANTS OneShotStaysOff
