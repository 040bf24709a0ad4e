SPECIFICATION Spec
CONSTANTS
  CliTasks = {d1}
  Viewers = {}
  Listeners = {l1}
  Free = Free
  BufferSize = 2
  MaxSeq = 4
  MaxRec = 2
  MaxTraffic = 2
INVARIANT SlicesAreUnpolluted
