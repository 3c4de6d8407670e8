CONSTANTS
  u1 = u1
  Docs <- MCTwoDocs
  MaxSequence = 2
  MaxTickets = 2
  ChunkSize = 1
  Uploads <- MCUploads
SPECIFICATION FairSpec
INVARIANTS
  TypeOK
  ErasedIsArchived
  WithinReach
  ReplayExact
  FrozenBySession
PROPERTIES
  FreezeEnds
  ArchiveCompletes
CHECK_DEADLOCK FALSE
