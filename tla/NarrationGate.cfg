SPECIFICATION FairSpec
CONSTANTS
  Actions = {a1, a2, a3}
  Operators = {o1, o2}
INVARIANTS
  TypeOK
  OneDecisionOneAction
PROPERTIES
  ImplementsActionGate
  RepeatedResumeFrees
