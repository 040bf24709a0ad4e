SPECIFICATION Spec
CONSTANTS
  Tasks = {k1, k2}
  Pages = {p1, p2}
  None = None
  MaxTimeline = 2
  BatchSteps = 2
  MaxActions = 3
  MaxChanges = 1
SYMMETRY Symmetry
INVARIANTS
  TypeOK
  TimelineIsWindow
  RunningHasItsTask
  EvidenceBrackets
  LoneCommandLeavesAPair
