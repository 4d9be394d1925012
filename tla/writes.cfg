SPECIFICATION FairSpec
CONSTANTS
  ann = ann
  nobody = nobody
  Users = {ann, nobody}
  kMaxPendingWrites = 3
  MaxWrites = 4
  MaxTroubles = 2
  MaxEvents = 5
  NoStream = NoStream
INVARIANT WritesInv
INVARIANT AssertionsHold
INVARIANT AnswersMatchPipeline
INVARIANT SentAsAuthor
INVARIANT CompletionsTellTruth
INVARIANT NothingLost
PROPERTY ImplementsWriteQueue
PROPERTY QueueDrains
CHECK_DEADLOCK FALSE
