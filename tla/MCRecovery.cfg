CONSTANTS
  m1 = m1
  m2 = m2
  i1 = i1
  None = None
  MAC <- MC_MAC
  IMSI <- MC_IMSI
  Client <- MC_Client
  Proc = {g1, g2}
  Window = 1
  TTL = 2
  WaitForStop = TRUE
  Disconnect = TRUE
  MaxSessions = 2
  MaxTime = 3
SPECIFICATION RSpec
INVARIANTS TombstonesIndexed DisconnectSparesRecovered DisconnectingHasHandler
PROPERTIES TombstoneKept NoTombstoneRevived
SYMMETRY DeviceSymmetry
