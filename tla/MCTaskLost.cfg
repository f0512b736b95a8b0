SPECIFICATION FairSpec
CONSTANTS
  CanResume = TRUE
  MaxCommands = 5
PROPERTY StopReturns
