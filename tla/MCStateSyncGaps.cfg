SPECIFICATION FairSpec
CONSTANTS
  p = p
  q = q
  m1 = m1
  m2 = m2
  m3 = m3
  None = None
  Copy = {p, q}
  Mutation = {m1, m2, m3}
  Owner <- MCWriter
  Normalised = {m1}
  Faults = {"lose"}
  MaxLost = 1
INVARIANT GapsClosed
PROPERTY HeardIsShown
CHECK_DEADLOCK FALSE
