SPECIFICATION ServingSpec
CONSTANTS
  Rows = {"r1", "r2"}
  SchemeOf <- SchemeAt
  RegionOf <- PlaceAt
  Tagged = {"r2"}
  Rank <- RankAt
  Requests = {q1}
  Externals = {"vmess", "trojan"}
  Limits = {0, 1}
INVARIANT SettingsApply
CHECK_DEADLOCK FALSE
