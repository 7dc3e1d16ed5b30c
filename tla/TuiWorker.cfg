SPECIFICATION FairSpec
CONSTANTS
  EvCap = 2
  JobCap = 1
  MaxTurns = 1
  MaxCalls = 1
  MaxPrompts = 2
  Jobs = {"run", "fork", "new", "shell"}
  MaxSubmits = 2
CHECK_DEADLOCK FALSE
INVARIANT TypeOK
INVARIANT QuestionHasOnePlace
INVARIANT QuietWhenIdle
INVARIANT OnlyNewLosesAgent
PROPERTY AnsweredOnce
PROPERTY KeepsPromise
PROPERTY QuitEnds
