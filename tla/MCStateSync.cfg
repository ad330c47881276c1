SPECIFICATION Spec
CONSTANTS
  p = p
  q = q
  m1 = m1
  m2 = m2
  m3 = m3
  None = None
  Copy = {p, q}
  Mutation = {m1, m2}
  Owner <- MCOwner
  Normalised = {m1}
  Faults = {"lose", "fetch", "timeout", "dispose"}
  MaxLost = 1
INVARIANTS CopyFaithful AppliedToWhatWasSeen
PROPERTY KeepsOrder
CHECK_DEADLOCK FALSE
