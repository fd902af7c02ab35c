\* As many Loads as connections: the lock holder waits for a connection that
\* those waiting for its lock have pinned.
CONSTANTS
  p1 = p1  p2 = p2  g1 = g1  g2 = g2
  NoGrant = NoGrant  Nobody = Nobody
  Procs <- TwoProcs
  LongHeadroom <- OneLong
  Grants <- OneGrant
  Backend = "postgres"
  Faults <- NoFaults
  MaxOpenConns = 2
  MaxGen = 2
SPECIFICATION FairSpec
PROPERTIES LoadReturns
CHECK_DEADLOCK FALSE
