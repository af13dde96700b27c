SPECIFICATION FairSpec
CONSTANTS
  N = 2
  Kinds = {"buy", "sell", "blocked", "unmarketable"}
  OpeningCash = 5
  OpeningPosition = 1
  Price = 2
  Fee = 1
  Workers = {w1, w2}
  MaxFaults = 1
  Faults = {"crash", "checkpoint_crash", "overlap", "error", "history_drift"}
CHECK_DEADLOCK FALSE
INVARIANTS TypeOK LedgerOnce NoOverspend SuccessIsReconciled ReadModelFollowsLedger
PROPERTIES RunEnds
