SPECIFICATION FairSpec
CONSTANTS
  a1 = a1
  k1 = k1
  d1 = d1
  d2 = d2
  t1 = t1
  Addresses <- MCAddresses
  Projects <- MCProjects
  KeyIds <- MCKeyIds
  Dsns <- MCDsns
  Texts <- MCTexts
  SDKAccepts <- MCAccepts
  Plans <- MCPlans
  HandedActions <- MCHandedActions
  MaxSkip = 1
  MaxGeneration = 3
  MaxMishaps = 2
INVARIANTS
  ApplyTypeOK
  ReceiptsAreOfCommits
  StateRecordsOneCommit
  OutputsAreAuthored
PROPERTIES
  RecordedGenerationNeverFalls
  CommitsAreRecorded
