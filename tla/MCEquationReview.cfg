SPECIFICATION Spec
CONSTANTS
  c1 = c1
  p1 = p1
  w1 = w1
  w2 = w2
  Workers = {w1, w2}
  Candidates = {c1}
  Proposals = {p1}
  NoProposal = NoProposal
  Packages <- MCPackages
  Requests <- MCRequests
  MaxRevisions = 2
  MaxDecides = 3
INVARIANTS
  TypeOK
  DecisionsFollowWhatWasSeen
  ConflictMeansNotRecorded
  AcceptancesNameTheProposal
PROPERTIES
  DecideAnswersOwnLatest
  ImplementsDecisionLog
