SPECIFICATION FairSpec
CONSTANTS
  r1 = r1
  r2 = r2
  r3 = r3
  r4 = r4
  r5 = r5
  a = a
  b = b
  x = x
  y = y
  z = z
  Requests <- MCFewRequests
  Communities <- MCCommunities
  Readers <- MCReaders
  Owners <- MCTwoOwners
  NoReader = NoReader
  Workers = 1
  Queue = 2
  QueueBytes = 2
  Bytes <- MCFewBytes
  InitialEstimate = 2
  Durations = {2}
  Cancellable = {r4}
  Expiring = {}
  HistoryLapses = TRUE
PROPERTIES EveryCallReturns
