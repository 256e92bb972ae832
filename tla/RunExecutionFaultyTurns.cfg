SPECIFICATION Spec
CONSTANTS
  Runs <- TwoRuns
  ThreadOf <- OneThread
  Delegates = {}
  Legacy = {1}
  MaxWaits = 1
  MaxEvents = 1
  MaxReports = 0
  MaxFaults = 1
PROPERTIES ThreadOrder
CHECK_DEADLOCK FALSE
