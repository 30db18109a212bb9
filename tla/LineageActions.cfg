CONSTANTS
  DELAY_BETWEEN_DOZES = 1
  IN_POCKET_MIN_TIME = 2
  MaxBroadcasts = 2
  Choices = {"ACTION_POWER", "ACTION_FLASHLIGHT", "ACTION_CAMERA", "ACTION_HOME"}
  MaxGestures = 3
  MaxCallbacks = 3
SPECIFICATION MCSpec
INVARIANTS ActionsTypeOK SettledWithScreen GestureBegunInTheDark ActionsEarned TorchKnown
PROPERTIES PulsesApart
