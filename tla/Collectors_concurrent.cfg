SPECIFICATION WalkSpec
CONSTANTS
  sonar = sonar
  sonarCi = sonarCi
  Collector <- MCCollector
  NoId = NoId
  PrefixedBy <- MCPrefixedBy
  k1 = k1
  k2 = k2
  Kind <- MCKind
  MaxNotes = 2
  PageSize = 3
  git = git
  fork = fork
  image = image
  Uri <- MCUri
  ListOrder <- MCListOrder
  MaxPageSize = 2
  Walks <- MCWalks
  Handler = {h1, h2}
  Missing = Missing
  CallFaults = TRUE
SYMMETRY Symmetry
INVARIANTS
  RegisteredNotesExist
  NotRecreated
  PagesLoseNothing
