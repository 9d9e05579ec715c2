SPECIFICATION Spec
CONSTANTS
  NoValue = NoValue
CHECK_DEADLOCK FALSE
PROPERTIES
  Progress
