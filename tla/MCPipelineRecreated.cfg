SPECIFICATION FairSpec
CONSTANTS
  MaxSpecs = 2
  MaxChanges = 2
  MaxFailures = 0
  MaxQueue = 3
  Handlers = {1}
  Statuses = {1, 2, 3}
  Updaters = {1, 2, 3}
  Pipelines = {1, 2, 3}
PROPERTY RecreatedConverges
CHECK_DEADLOCK FALSE
