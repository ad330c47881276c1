SPECIFICATION ContentSpec
CONSTANTS
  pa = pa
  pb = pb
  pc = pc
  tFoo = tFoo
  tFOO = tFOO
  tFoo2 = tFoo2
  tBar = tBar
  foo = foo
  bar = bar
  rel = rel
  odd = odd
  Null = Null
  Path = {pa, pb}
  Title = {tFoo, tFOO, tFoo2, tBar}
  Job = {j1, j2}
  Vocabulary = {rel}
  PageLimit = {2}
  MaxEdits = 1
  MaxLoadTime = 2
  PathOrder <- MCPathOrder
  deriveDocumentId <- MCDocumentId
  slugify <- MCSlugify
  TitlesWith <- MCTitlesWith
  File <- MCFile
INVARIANTS RetrievalSound ModifiedListed QuietCompileCurrent
SYMMETRY MCJobs
CHECK_DEADLOCK FALSE
