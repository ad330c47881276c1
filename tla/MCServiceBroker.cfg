CONSTANTS
  a = a
  b = b
  ask = ask
  tell = tell
  sub = sub
  reg = reg
  Main = Main
  Local = Local
  None = None
  Service = {a, b}
  Host = {h1, h2, h3}
  Msg = {ask, tell, sub, reg}
  Call = {ask, sub, reg}
  Registering = {reg}
  Bootstrapped = {a}
  OnBroker = {}
  InProcess = FALSE
  Faults = {"launch", "crash", "timeout", "dispose"}
  To <- MCTo
  Parent <- MCParent
SPECIFICATION Spec
INVARIANTS AnswersArrive HostDeliveryOrder
PROPERTY KeepsPromise
SYMMETRY MCHosts
CHECK_DEADLOCK FALSE
