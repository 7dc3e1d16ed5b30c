\* Two sessions and providers, 7 keys; two jobs of two pieces and a call on a ring
\* of one; a history of two lines; a leader of two ticks; frames of 1, 2 or 4 rows.
SPECIFICATION Spec
CONSTANTS
  Ids = {"s", "t"}
  Providers = {"p", "q"}
  MaxKeys = 7
  MaxJobs = 2
  MaxRuns = 1
  MaxTasks = 2
  MaxPieces = 2
  MaxCalls = 1
  RingSize = 1
  Texts = {1, 2, 3}
  RingCap = 2
  FileCap = 2
  MaxMoves = 7
  Keys <- MCKeys
  Letters = {"l", "q", "Q"}
  Overrides <- MCOverrides
  Leaders <- MCLeaders
  SlashNames <- MCSlashNames
  Timeout = 2
  MaxLine = 2
  MaxNow = 2
  Sessions = {"s", "t"}
  Models = {"m", "n", "o"}
  RecentCap = 2
  MaxDone = 5
  Lists <- MCLists
  Filters <- MCFilters
  Windows = {1, 2, 4}
  MaxPresses = 6
  Threshold = 2
  Page = 2
  Heights = {7, 9}
  Sizes = {1, 4}
  MaxBlocks = 2
  MaxEdits = 4
  Texts_ <- MCTexts
  Columns = {2, 3, 4}
INVARIANT DialogsTruthful
INVARIANT InputKept
INVARIANT ScreenRight
CHECK_DEADLOCK FALSE
