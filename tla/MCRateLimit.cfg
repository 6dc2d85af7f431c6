SPECIFICATION Spec
CONSTANTS
  IPs = {a, b}
  Requests = {r1, r2}
  Burst = 2
  IdleEvict = 3
  MaxStall = 1
  MaxTime = 6
INVARIANT TypeOK
INVARIANT OneBucketPerClient
PROPERTY ImplementsTokenBucket
CHECK_DEADLOCK FALSE
