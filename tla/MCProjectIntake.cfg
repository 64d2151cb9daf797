SPECIFICATION Spec
CONSTANTS
  r1 = r1
  r2 = r2
  k1 = k1
  k2 = k2
  unknown = unknown
  short = short
  long = long
  huge = huge
  text = text
  Requests = {r1, r2}
  Citekeys = {k1, k2, unknown}
  Required = {k1}
  Optional = {k2}
  Files = {short, long, huge, text}
  Pdfs = {short, long, huge}
  Size <- SizeOf
  MaxPdfBytes = 2
INVARIANTS
  TypeOK
  CustodyIsWhole
  ConflictIsReal
  ListsAreCurrent
PROPERTIES
  ImplementsDocumentIntake
