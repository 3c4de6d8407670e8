CONSTANTS
  q1 = q1
  worker = worker
  deleter = deleter
  cleaner = cleaner
  Readers <- MCReaders
  Writers <- MCWriters
  Worker = worker
  Deleter = deleter
  Cleaner = cleaner
SPECIFICATION Spec
PROPERTY NoRebuildOfRemoved
