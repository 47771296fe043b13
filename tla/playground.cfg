SPECIFICATION Spec
CONSTANTS
  Answers <- MCAnswers
  MaxRequests = 2
  MaxFailures = 1
  MaxStored = 2
  MaxLoadedSize = 3
  MaxStoredSize = 6
  CutStreams = TRUE
INVARIANTS TypeOK ReplyBelongs PendingOnlyWhileGenerating TextIntact StoredFollows GenerationCanEnd
