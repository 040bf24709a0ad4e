SPECIFICATION ControlSpec
CONSTANTS
  Commands = {type}
  Verdicts <- MCVerdicts
  Conns = {c1}
  None = None
  MaxVersion = 3
  MaxFrame = 1
  Actions = {a1}
  Operators = {o1, o2, v1, h1}
  CliOperators = {o1, o2}
  ViewerOperators = {v1}
  HttpOperators = {h1}
SYMMETRY Symmetry
INVARIANTS
  PauseHoldsTheAgent
  StepAdmitsOnePerGate
CHECK_DEADLOCK FALSE
