\* Files of up to 7 symbols and 2 edits of a call; 2 changes and 4 undos of 2
\* entries; 2 calls at the gate; commands of up to 5 characters; files of 4
\* characters in pieces of 2 lines; a pipe of 2 bytes, a window of 2 and 3 written,
\* a deadline of 1 second.  A window of 4 messages, 2 turns of 2 calls; answers of
\* up to 4 items; 6 messages of a conversation; texts of 3 blocks, 4 parts of a
\* chunk; 3 turns of a sub-agent.
SPECIFICATION Spec
CONSTANTS
  DiffContext = 1
  MaxFileSize = 7
  TextFiles <- MCTextFiles
  OldStrings <- MCOldStrings
  NewStrings <- MCNewStrings
  MaxAtOnce = 2
  Root <- MCRoot
  Trees <- MCTrees
  Lists <- MCLists
  Paths <- MCPaths
  Writes <- MCWrites
  FileEdits <- MCFileEdits
  MaxStack = 2
  MaxChanges = 2
  MaxUndos = 4
  Tools <- MCTools
  DefaultTools <- MCDefaultTools
  ConfLists <- MCConfLists
  MaxGated = 2
  Commands <- MCCommands
  Patterns <- MCPatterns
  Urls <- MCUrls
  DomainLists <- MCDomains
  Addresses <- MCAddresses
  TextsToRead <- MCTextsToRead
  ReadMaxLines = 2
  Limits = {0, 1, 3}
  MaxResult = 4
  MarkSize = 2
  HintSize = 2
  PipeSize = 2
  ReadBytes = 1
  TailBytes = 2
  BufBytes = 2
  Deadline = 1
  MaxBytes = 3
  MaxSeconds = 2
  MaxMessages = 4
  MaxChars = 16
  MaxIterations = 2
  Threshold = 1
  Cooldown = 1
  Sizes = {8}
  MaxTurns = 2
  MaxToolCalls = 2
  MaxClock = 1
  Outputs <- MCOutputs
  Habits <- MCHabits
  Marks = {"m"}
  Answers <- MCAnswers
  Talks <- MCTalks
  Bursts = {0, 1, 2}
  Backends <- MCBackends
  ToolSets <- MCToolSets
  MaxHistory = 6
  MaxCallsEach = 2
  Streams <- MCStreams
  MaxParts = 4
  CallLists <- MCCallLists
  Iterations = {0, 2, 9}
  MaxTurnsSub = 3
  FirstRoom = 4
  Actions = {"open", "navigate", "screenshot", "click", "close"}
  PendingMax = 2
  RequestRoom = 3
  MaxSleeps = 2
  RemoveTries = 2
  MaxActions = 2
  Losses = TRUE
INVARIANT ReadsWhatItKept
CHECK_DEADLOCK FALSE
