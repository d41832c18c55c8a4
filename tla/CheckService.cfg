SPECIFICATION FairSpec
CONSTANTS
  p1 = p1
  p2 = p2
  c1 = c1
  c2 = c2
  t1 = t1
  Nobody = Nobody
  NoProxy = NoProxy
  Proxies = {p1, p2}
  Checks = {c1, c2}
  Tasks = {t1}
  MaxPool = 2
  Modes = {"direct", "paid", "pool"}
  Paid <- PaidList
  MaxAttempts = 2
INVARIANTS TypeOK BlameNeedsAlibi XrayOwned
PROPERTIES GivesUpLast Answered
