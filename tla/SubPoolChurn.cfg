SPECIFICATION SceneSpec
CHECK_DEADLOCK FALSE
CONSTANTS
  a1 = a1
  a2 = a2
  c1 = c1
  c2 = c2
  s1 = s1
  Scenes = {"churn", "verdicts"}
  k1 = k1
  k2 = k2
  k3 = k3
  de = de
  unk = unk
  ServerOf <- MCServerOf
  HostOf <- MCServerOf
  NoServer <- MCNoServer
  Regions <- MCRegions
  Unknown <- MCUnknown
  Keys = {k1, k3}
  MaxSpeed = 1
  MaxPerRegion = 1
  CrawlAdders = {a1}
  ImportAdders = {}
  Rechecks = {c1, c2}
  Stabs = {s1}
  AdminOps = {"delete", "toggle", "geo"}
  InitPools <- OneRow
  MaxId = 2
  MaxRuns = 3
  DeactivateDeaths = 2
  PurgeDeaths = 3
  StableStreak = 1
INVARIANTS TypeOK NoForeignVerdict DeathsCounted VisibilityFollowsDeaths
PROPERTY TrimKeepsVisible
