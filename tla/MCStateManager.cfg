SPECIFICATION FairInterfaceSpec
CONSTANTS
  d1 = d1
  d2 = d2
  Target <- MCTarget
  Document = {d1, d2}
  Navigation = {n1}
  Opening = {v1}
  Authority = {1, 2}
  Undefined = Undefined
  MaxBus = 2
  MaxMoves = 1
INVARIANT CopySound
PROPERTIES PrecedenceKept ShownInTheEnd
CHECK_DEADLOCK FALSE
