SPECIFICATION FairRouterSpec
CONSTANTS
  i1 = i1
  r1 = r1  r2 = r2
  user = user  token1 = token1  token2 = token2  site = site
  IPs = {i1}
  Requests = {r1, r2}
  Configs <- MCConfigs
  Calls <- MCCalls
  Limits = {1, 2}
  Highest = 2
  Minute = 1
  FiveMinutes = 2
  None = None
INVARIANTS RouterInv ServedByRules TakenByRules Balanced
PROPERTIES Limited RevocationSettles
