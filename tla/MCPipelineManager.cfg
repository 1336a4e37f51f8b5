SPECIFICATION Spec
CONSTANTS
  MaxSpecs = 2
  MaxChanges = 2
  MaxFailures = 1
  MaxQueue = 2
  Handlers = {1, 2}
  Statuses = {1, 2, 3, 4}
  Updaters = {1, 2, 3, 4, 5}
  Pipelines = {1, 2, 3, 4}
INVARIANTS TypeOK SerialJobs  
CHECK_DEADLOCK FALSE
