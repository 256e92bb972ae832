SPECIFICATION FairSpec
CONSTANTS
  Runs <- OneRun
  ThreadOf <- OneThread
  Delegates = {1}
  Legacy = {}
  MaxWaits = 1
  MaxEvents = 0
  MaxReports = 1
  MaxFaults = 2
INVARIANTS AtMostOnce SingleOutcome NoOrphan
PROPERTIES EvidenceKept DecisionAwaited EventuallyAtRest
CHECK_DEADLOCK FALSE
