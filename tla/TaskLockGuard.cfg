SPECIFICATION TurnsSpec
CONSTANTS
  r1 = r1
  r2 = r2
  r3 = r3
  r4 = r4
  Nobody = Nobody
  Runs = {r1, r2, r3, r4}
  TaskOf <- TwoEach
  TokenOf <- Unique
  Ttl <- TtlCoarse
  Limit <- LimitCoarse
  WaitMax = 1
INVARIANTS TypeOK OneRunEach
PROPERTIES GuardSpec OrphansExpire ReleasesOwn
