SPECIFICATION Spec
CONSTANTS
  reader = reader
  label = label
  Readers = {reader}
  ClaimCount = 2
  MaxOutputs = 1
  Labels = {label}
  Bundles <- FoundOrNot
INVARIANTS
  UnavailableMeansUnavailable
