CONSTANTS
  a = a
  b = b
  ask = ask
  tell = tell
  sub = sub
  reg = reg
  Main = Main
  Local = Local
  None = None
  Service = {a, b}
  Host = {h1, h2}
  Msg = {ask, tell, sub, reg}
  Call = {ask, sub, reg}
  Registering = {reg}
  Bootstrapped = {a}
  OnBroker = {b}
  InProcess = TRUE
  Faults = {}
  To <- MCTo
  Parent <- MCParent
SPECIFICATION FairSpec
PROPERTY CallsSettle
CHECK_DEADLOCK FALSE
