CONSTANTS
  i1 = i1
  i2 = i2
  m1 = m1
  g1 = g1
  g2 = g2
  None = None
  MAC = {m1}
  IMSI = {i1, i2}
  Proc = {g1, g2}
  TTL = 2
  Cooldown = 1
  MaxAttempts = 1
  Minute = 2
  ClearOnStop = FALSE
  MaxTime = 3
SPECIFICATION ACSpec
INVARIANTS CacheIndexSound SingleRecovery PendingHasOwner RateLimited
SYMMETRY Symmetry
