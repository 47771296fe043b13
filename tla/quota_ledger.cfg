SPECIFICATION FairSpec
CONSTANTS
  n1 = n1
  n2 = n2
  Nodes = {n1, n2}
  RedisEnabled = TRUE
  BatchUpdateEnabled = {n1}
  Amounts = {1}
  MaxPosts = 2
  Readers = {n1}
  MaxReads = 1
  MaxHashes = 1
  MaxFaults = 1
INVARIANT TypeOK
PROPERTY ImplementsAccount
PROPERTY EventuallyWritten
PROPERTY CacheRecovers
\* Calls are bounded, and a node with nothing to write waits.
CHECK_DEADLOCK FALSE
