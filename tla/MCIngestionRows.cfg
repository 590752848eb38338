CONSTANTS
  Gone = Gone
  NoText = NoText
  a = a
  b = b
  r1 = r1
  r2 = r2
  Keys = {1, 2}
  Texts = {a, b}
  Revisions = {r1, r2}
  BatchSize = 1
  MaxIngestions = 2
  MaxEdits = 2
SYMMETRY MCSymmetry
SPECIFICATION RowsSpec
INVARIANT FullRunIsExact
INVARIANT RowsAgree
CHECK_DEADLOCK FALSE
