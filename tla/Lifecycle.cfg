SPECIFICATION Spec
CONSTANTS
  Clients = {c1, c2}
  Daemons = {d1, d2}
  None = None
  Named = TRUE
SYMMETRY Symmetry
VIEW BrowsersAside
INVARIANTS
  TypeOK
  SoleDaemon
  StopEndsTheDaemon
  RetriedOnlyAfterLoss
PROPERTIES
  OrphanedOnlyBy
