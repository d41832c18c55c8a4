SPECIFICATION Spec
CONSTANTS
  r1 = r1
  r2 = r2
  r3 = r3
  r4 = r4
  Nobody = Nobody
  Runs = {r1, r2, r3}
  TaskOf <- Mixed
  TokenOf <- Printed
  Ttl <- TtlShort
  Limit <- LimitShort
  WaitMax = 1
INVARIANTS ParallelOnlyLate
