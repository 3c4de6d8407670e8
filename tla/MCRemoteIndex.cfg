CONSTANTS
  q1 = q1
  worker = worker
  Docs <- MCDocs
  MaxSequence = 2
  Readers <- MCOneQuery
  Writers <- MCWriters
  Worker = worker
  BatchSize = 2
  Damages = {"schema", "tables"}
SPECIFICATION QueriedSpec
INVARIANTS TypeOK EntriesRecorded IndexFaithful AnswersExact
PROPERTY CatchesUp
