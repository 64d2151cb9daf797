SPECIFICATION Spec
CONSTANTS
  i1 = i1
  i2 = i2
  p1 = p1
  p2 = p2
  large = large
  junk = junk
  w1 = w1
  w2 = w2
  Workers = {w1, w2}
  Items = {i1, i2}
  Missing = {i1, i2}
  Bases <- MCOneBase
  Bodies = {p1, p2}
  Pdfs = {p1, p2}
  Size <- MCSize
  Limit = 1
  Held = {p1, p2}
  Declared <- MCUndeclared
  Configured = {}
  MaxUploads = 1
  MaxCommands = 4
INVARIANTS
  CurrentCatalogAccepted
