\* The nightly run and one at a terminal: they may overlap, fail and be killed.
CONSTANTS
  n1 = n1  n2 = n2  i1 = i1  j1 = j1
  Runs <- TwoRuns
  Nightly <- OneRun
  Payables <- OnePayable
  Receivables <- OneReceivable
SPECIFICATION FairWatchSpec
INVARIANTS RememberedWasTold
PROPERTIES OnceEach ReportedInTheEnd
