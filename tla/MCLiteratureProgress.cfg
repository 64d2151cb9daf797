SPECIFICATION Spec
CONSTANTS
  reader = reader
  label = label
  Readers = {reader}
  ClaimCount = 2
  MaxOutputs = 2
  Labels = {label}
  Bundles <- Found
INVARIANTS
  TypeOK
  ProgressIsOfOneOutput
  ProgressIsNotBehind
