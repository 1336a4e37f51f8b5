SPECIFICATION ResumedSpec
CONSTANTS
  MaxSeqno = 2
  MaxPipelines = 3
  MaxSpecs = 1
  MaxSourceFailovers = 1
  MaxTargetFailovers = 0
  MaxIncidents = 1
  MaxRecords = 2
  Goroutines = {g1}
  Filtered <- NoFilter
  Xattrs = {2}
  OldTarget = FALSE
CHECK_DEADLOCK FALSE
INVARIANT RecordsPropagated
