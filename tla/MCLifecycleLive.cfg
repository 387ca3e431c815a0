CONSTANTS
  i1 = i1
  i2 = i2
  m1 = m1
  m2 = m2
  a1 = a1
  ip1 = ip1
  ip2 = ip2
  ip3 = ip3
  t1 = t1
  t2 = t2
  t3 = t3
  g1 = g1
  g2 = g2
  g3 = g3
  None = None
  IMSI <- MC_IMSI
  MAC <- MC_MAC
  APN <- MC_APN
  IP = {ip1}
  TEID = {t1}
  Proc <- MC_Proc
  Setups <- MC_Waiting
  Input <- MC_Input
  Bearer <- MC_Bearer
  MaxSessions = 3
  ReuseIP = TRUE
SPECIFICATION FairLcSpec
PROPERTIES EveryEventHandled TeardownEnds
