SPECIFICATION FairSpec
CONSTANTS
  r1 = r1
  r2 = r2
  r3 = r3
  cheap = cheap
  fair = fair
  dear = dear
  None = None
  Run = {r1, r2}
  ToolCall = {cheap, fair, dear}
  Cost <- MCCost
  Base = 2
  Premium = {0, 1}
  MaxPremium = 1
  MaxTurns = 2
  MaxBatch = 2
INVARIANTS TypeOK SavingsBounded
PROPERTIES GateHolds RunsEnd
CHECK_DEADLOCK FALSE
