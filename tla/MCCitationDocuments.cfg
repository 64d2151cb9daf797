SPECIFICATION Spec
CONSTANTS
  i1 = i1
  i2 = i2
  p1 = p1
  p2 = p2
  large = large
  junk = junk
  w1 = w1
  w2 = w2
  Workers = {w1, w2}
  Items = {i1, i2}
  Missing = {i1}
  Bases <- MCBases
  Bodies = {p1, p2, large, junk}
  Pdfs = {p1, p2}
  Size <- MCSize
  Limit = 1
  Held = {p2}
  Declared <- MCDeclared
  Configured <- MCConfigured
  MaxUploads = 1
  MaxCommands = 2
SYMMETRY MCSymmetry
INVARIANTS
  TypeOK
  UploadsJudged
  ProcessedOnce
  CatalogsFollowResults
  OfferedTranscriptsOpen
  CompetitionStands
