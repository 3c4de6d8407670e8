CONSTANTS
  u1 = u1
  Docs <- MCTwoDocs
  MaxSequence = 1
  MaxTickets = 2
  ChunkSize = 1
  Uploads <- MCUploads
SPECIFICATION Spec
INVARIANT Resumable
CHECK_DEADLOCK FALSE
