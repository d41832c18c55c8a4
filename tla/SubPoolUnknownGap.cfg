SPECIFICATION Spec
CHECK_DEADLOCK FALSE
CONSTANTS
  k1 = k1
  k2 = k2
  k3 = k3
  de = de
  unk = unk
  ServerOf <- MCServerOf
  HostOf <- MCServerOf
  NoServer <- MCNoServer
  Regions <- MCRegions
  Unknown <- MCUnknown
  Keys = {k1, k2, k3}
  MaxSpeed = 2
  MaxPerRegion = 1
  CrawlAdders = {}
  ImportAdders = {a1}
  Rechecks = {}
  Stabs = {}
  AdminOps = {"unknown"}
  InitPools <- NoRows
  MaxId = 3
  MaxRuns = 1
  DeactivateDeaths = 2
  PurgeDeaths = 3
  StableStreak = 1
PROPERTY UnknownMoveBansAll
