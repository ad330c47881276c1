CONSTANTS
  ann = ann
  bob = bob
  turn1 = turn1
  turn2 = turn2
  turn3 = turn3
  read1 = read1
  gold = gold
  forged = forged
  anonymous = anonymous
  token = token
  None = None
  Unlimited = Unlimited
  Visitor = {ann, bob}
  Request = {turn1, read1, turn3}
  Turn = {turn1, turn3}
  Secret = {gold, forged}
  Tier = {anonymous, token}
  Anonymous = anonymous
  Window = 1
  Ttl = 2
  Margin = 2
  Behind = 1
  MaxClock = 3
  MaxStops = 1
  Owner <- MCOwner
  Granted <- MCGranted
  Limit <- MCLimit
  Cap <- MCCap
SPECIFICATION FairSpec
INVARIANTS RateLimited TokensHonoured
PROPERTIES LimitsCalls SessionStable AnsweredInTheEnd
CHECK_DEADLOCK FALSE
