SPECIFICATION FairSpec
CONSTANTS
  N = 3
  BatchUnits = 2
  Modes = {"symbol"}
  BaseModes = {"incremental"}
  Workers = {w1}
  MaxTasks = 1
  MaxCopies = 1
  MaxFaults = 1
  Nobody = Nobody
  Faults = {"fetch_failure", "db_lost", "write_error", "prepare_error", "required", "api_crash", "broker_down", "crash", "slow", "cancel"}
CHECK_DEADLOCK FALSE
INVARIANTS TypeOK ReadyIsComplete
PROPERTIES RunEnds DerivedEnds
