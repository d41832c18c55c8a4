SPECIFICATION Spec
CHECK_DEADLOCK FALSE
CONSTANTS
  k1 = k1
  k2 = k2
  k3 = k3
  de = de
  unk = unk
  ServerOf <- MCServerOf
  HostOf <- MCServerOf
  NoServer <- MCNoServer
  Regions <- MCRegions
  Unknown <- MCUnknown
  Keys = {k1, k2, k3}
  MaxSpeed = 1
  MaxPerRegion = 1
  CrawlAdders = {}
  ImportAdders = {}
  Rechecks = {c1}
  Stabs = {s1}
  AdminOps = {}
  InitPools <- OneRow
  MaxId = 1
  MaxRuns = 2
  DeactivateDeaths = 2
  PurgeDeaths = 3
  StableStreak = 1
INVARIANTS StableHasNoFailure
