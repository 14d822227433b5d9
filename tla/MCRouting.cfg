SPECIFICATION Spec
CONSTANTS
  a = a
  b = b
  Boxes = {a, b}
  None = None
  MaxRules = 2
  Drafts <- MCDrafts
  Layouts <- MCFewLayouts
  MaxResolutions = 2
  MaxEdits = 1
INVARIANTS
  TypeOK
  AnswersOneState
  PrecedenceHolds
  CountsAreSound
CHECK_DEADLOCK FALSE
