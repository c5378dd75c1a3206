SPECIFICATION FairLimiterSpec
CONSTANTS
  i1 = i1  i2 = i2
  r1 = r1  r2 = r2
  IPs = {i1, i2}
  Requests = {r1, r2}
  Limits = {0, 1, 2}
  Highest = 2
  Minute = 1
  FiveMinutes = 3
  None = None
INVARIANTS Uniform NoExtraTokens NoStolenTokens LimiterInv
PROPERTIES LimitSettles Forgotten
