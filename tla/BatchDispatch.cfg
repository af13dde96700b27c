SPECIFICATION FairSpec
CONSTANTS
  Candidates = {c1}
  Phases = {"validation", "oos"}
  MaxRuns = 2
  Window = 4
  Procs = {p1, p2}
  UserOps = {}
  MaxOps = 0
  MaxFaults = 1
  NoItem = NoItem
  NoCandidate = NoCandidate
  Faults = {"rejected", "broker_down"}
CHECK_DEADLOCK FALSE
INVARIANTS OosWaitsForSelection OneLiveChild 
  
