SPECIFICATION Spec
CONSTANTS
  MaxVersion = 1
  MaxStarts = 1
PROPERTIES AutosaveReachesDrive
CHECK_DEADLOCK FALSE
