CONSTANTS
  guide = guide
  kb = guide
  turn = turn
  scroll = scroll
  search = search
  None = None
  Service = {guide}
  Bus = {1, 2}
  Host = {h1, h2}
  Call = {turn, scroll, search}
  Later = {"inProcess"}
  MaxOptions = 1
  MaxMoves = 2
  To <- MCTo
  Parent <- MCParent
SPECIFICATION FairSpec
INVARIANT ElementSound
PROPERTIES KeepsPromise AnsweredInTime
CHECK_DEADLOCK FALSE
