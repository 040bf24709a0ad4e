SPECIFICATION Spec
CONSTANTS
  Texts = {a, b}
  SitePages = 3
  PageLength = 2
  OtherLength = 1
  MaxPages = 3
  Calls = 3
  Numbers <- MCNumbers
  MaxAttempts = 3
  None = None
INVARIANTS
  OrdinalIsExact
  FeedbackFindsValue
SYMMETRY Symmetry
