\* One run at a time, which fails, is killed and is run again, and an owner who
\* forwards as well; the relay keeps its copies in the second account.
CONSTANTS
  r1 = r1  m1 = m1  m2 = m2  s1 = s1
  NoSubject = NoSubject
  Runs <- OneRun
  LastAccount = 2
  Mails <- TwoMails
  AccountOf <- Places
  Routed <- TwoMails
  SubjectOf <- OneTopic
  NoId <- Unnamed
  RelayAccount = 2
  FetchBodies = FALSE
  Max = 2
  Cap = 2
SPECIFICATION FairSpec
INVARIANTS ForwardedOnce
PROPERTIES HandForwardKept ReachesTheBooks
