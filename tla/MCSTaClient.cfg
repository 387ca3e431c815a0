CONSTANTS
  c1 = c1
  None = None
  Call = {c1}
  Deadline = {}
  MaxConn = 2
  MaxHop = 3
SPECIFICATION FairSSpec
INVARIANTS ReplyNeverBlocks WaitingIsWatched
PROPERTIES ImplementsCalls LostPeerNoticed
CHECK_DEADLOCK FALSE
