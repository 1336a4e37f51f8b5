SPECIFICATION Spec
CONSTANTS
  MaxSeqno = 2
  MaxPipelines = 1
  MaxSpecs = 1
  MaxSourceFailovers = 0
  MaxTargetFailovers = 0
  MaxIncidents = 0
  MaxRecords = 2
  Goroutines = {g1, g2}
  Filtered <- NoFilter
  Xattrs = {2}
  OldTarget = FALSE
CHECK_DEADLOCK FALSE
PROPERTY NewestKept
