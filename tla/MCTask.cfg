SPECIFICATION FairSpec
CONSTANTS
  CanResume = TRUE
  MaxCommands = 5
INVARIANTS NoUseAfterFree QuietWhenPending
PROPERTIES StopReturnsUnlessOverwritten SuspendObeyed
