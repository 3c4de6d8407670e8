CONSTANTS
  q1 = q1
  worker = worker
  Docs <- MCTwoDocs
  MaxSequence = 2
  Readers <- MCOneQuery
  Writers <- MCWriters
  Worker = worker
  BatchSize = 1
  Damages = {"records"}
SPECIFICATION QueriedSpec
PROPERTY CorruptIndexRebuilt
