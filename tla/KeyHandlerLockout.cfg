CONSTANTS
  Choices = {"ACTION_POWER", "ACTION_FLASHLIGHT", "ACTION_HOME"}
  MaxGestures = 2
  MaxCallbacks = 2
SPECIFICATION Spec
PROPERTY GesturesUsed
