SPECIFICATION FairSpec
CONSTANTS
  start = start
  address = address
  scroll = scroll
  close = close
  cheap = cheap
  dear = dear
  None = None
  Event = {start, address, scroll}
  SessionStart = start
  Address = {address}
  Never = {}
  AddressPremium = 1
  Faults = {"timeout", "refuse"}
  ToolCall = {cheap, dear}
  Cost <- MCCost
  Base = 2
  MaxTurns = 2
  MaxBatch = 2
INVARIANT QueueSound
PROPERTIES OneRunAtATime AddressHeard
CHECK_DEADLOCK FALSE
