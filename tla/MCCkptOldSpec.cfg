SPECIFICATION Spec
CONSTANTS
  MaxSeqno = 2
  MaxPipelines = 2
  MaxSpecs = 2
  MaxSourceFailovers = 0
  MaxTargetFailovers = 0
  MaxIncidents = 1
  MaxRecords = 2
  Goroutines = {g1}
  Filtered <- MCFiltered
  Xattrs = {2}
  OldTarget = FALSE
CHECK_DEADLOCK FALSE
INVARIANT OldSpecDeleted
