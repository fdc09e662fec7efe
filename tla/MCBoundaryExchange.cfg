CONSTANTS
  Ranks <- MCRanks
  Lists <- MCLists
  Links <- MCLinks
  MaxExchanges = 2
  MaxVersion   = 3
  Source = "b"
  EarlyReceives = TRUE
  Owners <- MCOwners
  ChunkSize = 2
SPECIFICATION FairCacheSpec
INVARIANTS DataKept StorageHandedOutOnce
PROPERTIES ImplementsHaloExchange CopiesUseCurrentStorage Termination
CHECK_DEADLOCK FALSE
