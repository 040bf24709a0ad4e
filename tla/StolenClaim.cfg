SPECIFICATION Spec
CONSTANTS
  CliTasks = {d1, d2}
  Viewers = {}
  Listeners = {l1}
  Free = Free
  BufferSize = 1
  MaxSeq = 4
  MaxRec = 1
  MaxTraffic = 1
INVARIANT EventUsesItsClaim
