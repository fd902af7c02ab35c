\* Two tabs, a database that fails, two companies that share a number, renames.
CONSTANTS
  p1 = p1  p2 = p2  c1 = c1  c2 = c2  o1 = o1  n1 = n1  n2 = n2  n3 = n3
  sandbox = sandbox  production = production
  NoCompany = NoCompany  NoOrg = NoOrg  NoName = NoName
  Tabs <- TwoTabs
  Modes <- TwoModes
  Companies <- TwoCompanies
  Orgs <- OneOrg
  OrgOf <- SharedOrg
  Names <- ThreeNames
  FirstName <- Named
  AllowedIn <- RenamedInSandbox
  MaxConnects = 2
SPECIFICATION Spec
SYMMETRY TabSymmetry
VIEW Live
CHECK_DEADLOCK FALSE
INVARIANTS RowNamesTheToken
PROPERTIES CompanyKept ChosenWasConnected
