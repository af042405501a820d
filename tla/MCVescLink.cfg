SPECIFICATION FairSpec
CONSTANTS
  Askers <- BothThreads
  DualVESC = TRUE
  MaxLosses = 1
  MayBeLate = TRUE
  Profiles = {"Eco", "Single"}
  SavedProfiles = {"Single"}
  SingleMotor = {"Single"}
  FirstMotors <- EachAlone
  MaxQuestions <- MCMaxQuestions
  MaxAsked = 4
  MaxChanges = 1
INVARIANTS TypeOK AnswersWhenAlone LimitsFollowProfile
PROPERTIES TelemetryMovesForward EveryQuestionEnds
CHECK_DEADLOCK FALSE
