SPECIFICATION FairSpec
CONSTANTS
  Deliverers = {d1, d2}
  Configured = {"webhook"}
  Severities = {"error"}
  MaxAttempts = 2
  EscalateAfter = 2
  MaxEvents = 1
CHECK_DEADLOCK FALSE
INVARIANTS TypeOK DeliveredIsAcknowledged
PROPERTIES OutboxSettles AlertSettles
