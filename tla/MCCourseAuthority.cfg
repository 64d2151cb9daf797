SPECIFICATION Spec
CONSTANTS
  alice = alice
  bob = bob
  item = item
  here = here
  there = there
  Clients = {alice, bob}
  Items = {item}
  Courses = {here, there}
  Course = here
  MaxEvidence = 1
  MaxCommands = 1
INVARIANTS
  TypeOK
  DecisionsSeeEachOther
  RefusedMeansNotRecorded
  ReceiptsAreOfTheDecision
SYMMETRY Renamings
