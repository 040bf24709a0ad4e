SPECIFICATION FairSpec
CONSTANTS
  Actions = {a1}
  Operators = {o1}
PROPERTY
  UnblocksWhenGateOpens
