SPECIFICATION Spec
CONSTANTS
  type = type
  click = click
  Commands = {type, click}
  Verdicts <- MCVerdicts
  Conns = {c1, c2}
  None = None
  MaxVersion = 4
  MaxFrame = 2
SYMMETRY Symmetry
INVARIANTS
  TypeOK
  ModeAgreesWithOwner
  BannerMatchesInput
  ApprovalSpentOnce
  HeldAgentBudget
PROPERTY
  AdmittedAsSeen
