SPECIFICATION TurnSpec
CONSTANTS
  r1 = r1
  r2 = r2
  r3 = r3
  note = note
  revise = revise
  stray = stray
  update = update
  None = None
  Run = {r1, r2, r3}
  ToolCall = {note, revise, stray}
  Cost <- MCCost
  Base = 1
  Premium = {0}
  MaxPremium = 0
  MaxTurns = 2
  MaxBatch = 2
  Registry = {update}
  UpdateMemory = update
  Name <- MCName
  CallId <- MCCallId
  WellFormed = {note, revise}
  InitialMemory = None
INVARIANTS CallsAnswered MemoryOfLastUpdate UndispatchedOfPrevious ToldOnce
SYMMETRY MCRuns
CHECK_DEADLOCK FALSE
