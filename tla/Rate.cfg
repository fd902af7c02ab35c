\* One slot for three callers, each of whose requests Fortnox may refuse once,
\* with waits shorter and longer than the window.
CONSTANTS
  c1 = c1  c2 = c2  c3 = c3
  Calls <- ThreeCalls
  MaxReqs = 1
  Window = 2
  MaxRetries = 1
  MaxWait = 3
SPECIFICATION FairSpec
INVARIANTS RefillsBound
PROPERTIES CallReturns
