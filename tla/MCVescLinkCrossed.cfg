SPECIFICATION Spec
CONSTANTS
  Askers <- BothThreads
  DualVESC = TRUE
  MaxLosses = 0
  MayBeLate = FALSE
  Profiles = {"Eco", "Single"}
  SavedProfiles = {"Single"}
  SingleMotor = {"Single"}
  FirstMotors <- EachAlone
  MaxQuestions <- MCMaxQuestions
  MaxAsked = 4
  MaxChanges = 1
INVARIANT AnswersTheQuestion
CHECK_DEADLOCK FALSE
