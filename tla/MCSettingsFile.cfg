SPECIFICATION Spec
CONSTANTS
  MaxVersion = 3
  MaxStarts = 3
INVARIANTS TypeOK SecuredSurvives
PROPERTIES SaveKeepsItsValues
CHECK_DEADLOCK FALSE
