SPECIFICATION Spec
CONSTANTS
  m1 = m1
  m2 = m2
  c1 = c1
  c2 = c2
  k1 = k1
  k2 = k2
  w1 = w1
  w2 = w2
  Workers = {w1, w2}
  Manuscripts = {m1, m2}
  Claims = {c1, c2}
  CitationKeys = {k1, k2}
  Bundles <- MCBundles
  NoBundle = NoBundle
  NoWorker = NoWorker
  Requests <- MCRequests
  MaxDecides = 2
INVARIANTS
  KeysComeFromOwnManuscript
