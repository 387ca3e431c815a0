CONSTANTS
  c1 = c1
  c2 = c2
  c3 = c3
  c4 = c4
  c5 = c5
  c6 = c6
  None = None
  Call = {c1, c2, c3, c4, c5, c6}
  Kind <- AllKinds
  Deadline = {c1, c2, c3, c4, c5, c6}
  Probes <- ThreeProbes
  MaxSeq = 2
  TEIDs = 6
  MaxFailures = 2
  Inbound = {}
  FirstSeq = {2}
  FirstTEID = {3}
SPECIFICATION GSpec
INVARIANTS AnswerIsOwn WaitingIsPending TEIDsDistinct HealthFollowsProbes
SYMMETRY CreateSymmetry
CONSTRAINT FewCalls
CHECK_DEADLOCK FALSE
