SPECIFICATION Spec
CONSTANTS
  MaxSeqno = 2
  MaxPipelines = 2
  MaxSpecs = 2
  MaxSourceFailovers = 1
  MaxTargetFailovers = 1
  MaxIncidents = 1
  MaxRecords = 2
  Goroutines = {g1, g2}
  Filtered <- MCFiltered
  Xattrs = {2}
  OldTarget = TRUE
SYMMETRY Symmetric
CHECK_DEADLOCK FALSE
INVARIANTS
  TypeOK
  ResumeHonest
  OldTargetOwnDocument
PROPERTY RollbackDescends
