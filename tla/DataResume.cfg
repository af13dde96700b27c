SPECIFICATION Spec
CONSTANTS
  N = 3
  BatchUnits = 2
  Modes = {"date"}
  BaseModes = {"incremental", "initial_full"}
  Workers = {w1}
  MaxTasks = 2
  MaxCopies = 1
  MaxFaults = 1
  Nobody = Nobody
  Faults = {"fetch_failure", "db_lost", "write_error", "prepare_error", "required", "crash"}
CHECK_DEADLOCK FALSE
INVARIANTS ReadyIsComplete EvidenceIsBacked
