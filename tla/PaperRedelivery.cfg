SPECIFICATION Spec
CONSTANTS
  Deployments = {d1}
  MaxDate = 2
  ClosedDates = {2}
  Workers = {w1, w2}
  Recoveries = {"queued", "finalizations", "orphans"}
  Redelivered = {"run", "finalizeRun", "finalizeCycle"}
  MaxCopies = 2
  MaxFaults = 1
  MaxAttempts = 1
  NoCycle = NoCycle
  Faults = {"crash", "client_crash", "redeliver"}
SYMMETRY Symmetry
CHECK_DEADLOCK FALSE
INVARIANTS TypeOK SucceededHasRun SingleFlight AdvancedIsProcessed
PROPERTIES SucceededForever
