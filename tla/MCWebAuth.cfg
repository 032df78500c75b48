CONSTANTS
  User = {u1}
  Password = {p1, p2, weak}
  Ip = {i1}
  Request = {r1, r2}
  Token = {t1}
  None = None
  Weak = {weak}
  IdleTtl = 2
  AbsoluteTtl = 3
  MaxAttempts = 1
  AttemptWindow = 1
  MaxRequests = 2
  RateWindow = 2
  MaxMisread = 1
SPECIFICATION FairSpec
INVARIANTS TypeOK FailuresBounded SessionsFollowPassword LimiterExact
PROPERTIES AccountsKept SessionsEnd
