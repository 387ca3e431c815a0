CONSTANTS
  i1 = i1
  i2 = i2
  m1 = m1
  m2 = m2
  a1 = a1
  p1 = p1
  t1 = t1
  None = None
  IMSI <- MC_IMSI
  MAC <- MC_MAC
  APN <- MC_APN
  IP <- MC_IP
  TEID <- MC_TEID
  Input <- MC_Input
  Bearer <- MC_Bearer
  MaxSessions = 2
SPECIFICATION MgrSpec
INVARIANTS MgrTypeOK IndexSound AuthorizedBeforeService UnsharedMACFound
PROPERTY NoResurrection
CHECK_DEADLOCK FALSE
