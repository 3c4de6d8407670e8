SPECIFICATION Spec
CONSTANTS
  r1 = r1
  r2 = r2
  r3 = r3
  r4 = r4
  r5 = r5
  a = a
  b = b
  x = x
  y = y
  z = z
  Requests <- MCRequests
  Communities <- MCCommunities
  Readers <- MCReaders
  Owners <- MCOwners
  NoReader = NoReader
  Workers = 1
  Queue = 2
  QueueBytes = 2
  Bytes <- MCBytes
  InitialEstimate = 2
  Durations = {1, 3}
  Cancellable = {r4}
  Expiring = {r1, r2, r3}
  HistoryLapses = FALSE
SYMMETRY Symmetry
INVARIANTS TypeOK SlotsExact QueuesExact IndexesExact BudgetUsed OutcomesExact NoIdleCredit
PROPERTIES DonorStaysLonger PoolSpec
