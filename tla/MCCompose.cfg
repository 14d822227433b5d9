SPECIFICATION Spec
CONSTANTS
  d1 = d1
  d2 = d2
  d3 = d3
  f1 = f1
  Drafts = {d1, d2, d3}
  Files = {f1}
  None = None
  MaxEvents = 3
  MaxTexts = 3
  MaxSaves = 2
  MaxDiscards = 2
SYMMETRY DraftSymmetry
INVARIANTS
  TypeOK
  NothingLeftBehind
  SavedIsCurrent
CHECK_DEADLOCK FALSE
