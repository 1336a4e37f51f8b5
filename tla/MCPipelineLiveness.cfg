SPECIFICATION FairSpec
CONSTANTS
  MaxSpecs = 1
  MaxChanges = 1
  MaxFailures = 2
  MaxQueue = 2
  Handlers = {1}
  Statuses = {1, 2, 3, 4}
  Updaters = {1, 2, 3, 4}
  Pipelines = {1, 2}
PROPERTIES JobsHandled  
CHECK_DEADLOCK FALSE
