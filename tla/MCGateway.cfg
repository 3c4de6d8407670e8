SPECIFICATION FairSpec
CONSTANTS
  q1 = q1
  q2 = q2
  s1 = s1
  o1 = o1
  worker = worker
  Readers <- MCReaders
  Writers <- MCWriters
  Indexer = worker
  Uploads <- MCUploads
  Statistics <- MCStatistics
  Others <- MCOthers
  Operator <- MCUploads
  Ingress = 1
  OperatorIngress = 1
  Waiting = 1
  StatsWorkers = 1
  StatsWaiting = 1
  UploadWorkers = 1
  DBConnections = 2
  Spare = 1
INVARIANT AdmissionExact
PROPERTY EveryRequestEnds
CHECK_DEADLOCK FALSE
