SPECIFICATION Spec
CONSTANTS
  c1 = c1
  c2 = c2
  t1 = t1
  t2 = t2
  b1 = b1
  Links <- MCLinks
  NoLink = NoLink
  Texts <- MCTexts
  NoText = NoText
  Batches <- MCBatches
  NoBatch = NoBatch
  MaxChanges = 3
  OthersRename = FALSE
  MaxEdits = 1
SYMMETRY Symmetry
INVARIANTS TypeOK BatchOnce BaseWasShared LocalEditKept ManifestHonest
PROPERTIES BaseNeverGoesBack
CHECK_DEADLOCK FALSE
