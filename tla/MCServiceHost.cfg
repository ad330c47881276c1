SPECIFICATION FairSpec
CONSTANTS
  guide = guide
  avatar = avatar
  init1 = init1
  init2 = init2
  ask = ask
  poke = poke
  wave = wave
  None = None
  Service = {guide, avatar}
  Entry = {e1, e2}
  Msg = {init1, init2, ask, poke, wave}
  Target <- MCTarget
  Call = {ask, wave}
  Initializer = {init1, init2}
  HasInitializer = {guide}
  NeedsSlices = {guide, avatar}
INVARIANTS TypeOK InitializerFirst DeliveryOrder AnsweredOnce NothingStranded
PROPERTY ActiveServes
CHECK_DEADLOCK FALSE
