SPECIFICATION FairSpec
CONSTANTS
  Deployments = {d1}
  MaxDate = 1
  ClosedDates = {}
  Workers = {w1}
  Recoveries = {"queued", "orphans"}
  Redelivered = {}
  MaxCopies = 1
  MaxFaults = 1
  MaxAttempts = 2
  NoCycle = NoCycle
  Faults = {"client_crash", "retry"}
CHECK_DEADLOCK FALSE
PROPERTIES QueuedPickedUp 
