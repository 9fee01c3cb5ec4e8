SPECIFICATION Spec
CONSTANTS
  Jobs = {j1, j2}
  RawIds = {a}
  NoId = NoId
  NoReport = NoReport
  Strong <- MCStrong
  Weak <- MCWeak
  a = a
  Reports <- MCReports
  j1 = j1
  j2 = j2
  KindsOf <- MCKindsOf
  Changes <- MCChanges
  MaxFindings = 2
  MaxEdits = 1
  MaxCrashes = 1
  MaxFaults = 1
INVARIANTS
    CompletedResolved
    RetestedHasChain
    CompletedEventTruthful
    FindingsKept
PROPERTY
    TerminalKept
