\* One run and one receipt, with the search as the program sets it up.
CONSTANTS
  r1 = r1  m1 = m1  m2 = m2  s1 = s1
  NoSubject = NoSubject
  Runs <- OneRun
  LastAccount = 1
  Mails <- OneMail
  AccountOf <- Places
  Routed <- OneMail
  SubjectOf <- OneTopic
  NoId <- None
  RelayAccount = 0
  FetchBodies = FALSE
  Max = 1
  Cap = 2
SPECIFICATION Spec
INVARIANTS ForwardsCarryTheMail
