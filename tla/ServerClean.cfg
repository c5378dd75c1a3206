SPECIFICATION ServerSpec
CONSTANTS
  r1 = r1  r2 = r2
  cfg1 = cfg1  cfg2 = cfg2  cfg3 = cfg3
  Requests = {r1, r2}
  Configs = {cfg1, cfg2, cfg3}
  LevelOf <- MCLevelOf
  Levels <- MCLevels
  Missing = Missing
  Defaults = cfg1
  PathGiven = FALSE
  None = None
INVARIANT CleanlyMeansClean
