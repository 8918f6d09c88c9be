SPECIFICATION SourcesSpec
CONSTANTS
  u1 = u1
  u2 = u2
  u4 = u4
  u5 = u5
  u6 = u6
  g1 = g1
  g2 = g2
  Source <- MCSource
  OracleOf <- MCOracleOf
  LimitOf <- MCLimitOf
  HitsOf <- MCHitsOf
  SampleOf <- MCSampleOf
  ListOf <- MCListOf
  Circular = {g2}
  Hidden = {u4}
  ListPageSize = 2
  MaxMembers = 3
  MaxRetries = 1
  RequestLimit = 15
  PackLimit = 2
  Parallel = 2
INVARIANTS
  PacksSampledToTheirCap
CHECK_DEADLOCK FALSE
