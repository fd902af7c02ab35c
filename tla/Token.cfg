\* Two Loads and a reconnection under every fault at once: crashes, lost answers,
\* failed saves, lost lock sessions.
CONSTANTS
  p1 = p1  p2 = p2  g1 = g1  g2 = g2
  NoGrant = NoGrant  Nobody = Nobody
  Procs <- TwoProcs
  LongHeadroom <- OneLong
  Grants <- TwoGrants
  Backend = "postgres"
  Faults <- EveryFault
  MaxOpenConns = 3
  MaxGen = 2
SPECIFICATION FairSpec
INVARIANTS RevokedOnlyIfUnsettled StoredTokenLive
PROPERTIES KeepsOneCell ServesTheStoredToken LoadReturns
