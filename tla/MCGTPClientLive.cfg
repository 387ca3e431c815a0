CONSTANTS
  c1 = c1
  c2 = c2
  c3 = c3
  c4 = c4
  c5 = c5
  c6 = c6
  None = None
  Call = {c1, c2}
  Kind <- CreateAndDelete
  Deadline = {c1}
  Probes <- NoProbe
  MaxSeq = 2
  TEIDs = 4
  MaxFailures = 2
  Inbound = {"delete_request"}
  FirstSeq = {1, 2}
  FirstTEID = {2}
SPECIFICATION FairGSpec
PROPERTIES CloseEndsCalls ImplementsCalls
CHECK_DEADLOCK FALSE
