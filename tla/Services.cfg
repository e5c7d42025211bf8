SPECIFICATION ServicesSpec
CONSTANTS
  x = x
  y = y
  MaxSteps = 3
  StepIds <- MCStepIds
  NoStep = NoStep
  Trim <- MCTrim
  NoId = x
  Stray = y
  Answers <- MCAnswers
  Calls = 2
  MaxChunks = 5
  MaxLines = 4
  None = None
  Unset = Unset
  src = src
  dist = dist
  a = a
  b = b
  c = c
  loop = loop
  back = back
  out = out
  Root = Root
  Outside = Outside
  Names = {src, dist, a, b, c, loop, back, out}
  Dirs = {src, dist}
  Symlinks = {loop, back, out}
  Parent <- MCParent
  Target <- MCTarget
  Rank <- MCRank
  Ignored = {dist, b}
  Depths = {1, 3}
  MaxFiles = 2
  MaxResults = 2
  MaxScanned = 2
  Ttl = 1
  j1 = j1
  j2 = j2
  Jobs = {j1, j2}
  MaxChanges = 1
SYMMETRY Symmetry
INVARIANTS
  PlansJudged
  ChecksFit
  FailuresBlamed
  CallsAssembled
  LinesRead
  SnapshotIsOfItsTime
  SearchIsHonest
CHECK_DEADLOCK FALSE
