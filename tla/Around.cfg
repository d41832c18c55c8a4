SPECIFICATION AroundSpec
CONSTANTS
  Parts = {"control", "vless", "kinds", "user", "overlap", "group", "tags", "probe", "alone", "callers", "broadcast"}
  Admins = {a1, a2}
  Jobs = {j1, j2}
  Slots = 1
  l1 = l1
  l2 = l2
  l3 = l3
  l4 = l4
  u1 = u1
  q1 = q1
  h1 = h1
  Links = {l1, l2, l3, l4}
  CallerOf <- CallerAt
  KindOf <- KindAt
  Upstream = {p1, p2}
  HttpOnes = {p2}
  NoUpstream = none
  Samples = 2
  MaxOutages = 2
  Users = {u1, u2}
  Groups = {g1, g2}
  Names = {"n"}
  Regions = {A, B}
  Tags = {"ai"}
  Handlers = {h1, h2}
  BufferSize = 1
  All = All
  Nothing = Nothing
  NoUser = NoUser
  Rows = {"r1", "r2"}
  SchemeOf <- SchemeAt
  RegionOf <- PlaceAt
  Tagged = {"r2"}
  Rank <- RankAt
  Requests = {q1, q2}
  Externals = {"vmess", "trojan"}
  Limits = {0, 1}
  Drafts = {d1, d2}
  Readers = {r1, r2}
  Calls = {c1, c2}
  NoDraft = NoDraft
  NoReader = NoReader
INVARIANTS
  RaisedHasOwner RecheckKeepsFlag ClientBlame ShownAsPressed ServedAsAsked OneCopyEach
PROPERTIES
  DeletesBlocked
CHECK_DEADLOCK FALSE
