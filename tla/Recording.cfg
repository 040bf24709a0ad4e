SPECIFICATION Spec
CONSTANTS
  CliTasks = {d1, d2}
  Viewers = {v1}
  Listeners = {l1}
  Free = Free
  BufferSize = 1
  MaxSeq = 4
  MaxRec = 2
  MaxTraffic = 1
SYMMETRY Symmetry
INVARIANTS
  TypeOK
  SeqsIncrease
  OrphansWereTaggedEarlier
  BracketedByStartAndStop
  EveryNumberAccounted
PROPERTY
  StoppedBundleIsFrozen
