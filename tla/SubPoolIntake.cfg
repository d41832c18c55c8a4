SPECIFICATION SceneSpec
CHECK_DEADLOCK FALSE
CONSTANTS
  a1 = a1
  a2 = a2
  c1 = c1
  c2 = c2
  s1 = s1
  Scenes = {"crowd", "serial"}
  k1 = k1
  k2 = k2
  k3 = k3
  de = de
  unk = unk
  ServerOf <- MCServerOf
  HostOf <- MCServerOf
  NoServer <- MCNoServer
  Regions <- MCRegions
  Unknown <- MCUnknown
  Keys = {k1, k2, k3}
  MaxSpeed = 2
  MaxPerRegion = 1
  CrawlAdders = {a1}
  ImportAdders = {a2}
  Rechecks = {}
  Stabs = {}
  AdminOps = {"delete", "move", "unknown", "clear"}
  InitPools <- NoRows
  MaxId = 3
  MaxRuns = 1
  DeactivateDeaths = 2
  PurgeDeaths = 3
  StableStreak = 1
INVARIANTS UniqueKeys BanWindow ServerOnce CapKept
PROPERTY PoolSpec
