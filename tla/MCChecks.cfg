SPECIFICATION MCSpec
CONSTANTS
  a1 = a1
  a2 = a2
  p1 = p1
  p2 = p2
  k1 = k1
  k2 = k2
  k3 = k3
  k4 = k4
  d1 = d1
  d2 = d2
  Hosts <- MCHosts
  MaxSlashes = 2
  RawInputs <- MCRawInputs
  Meaning <- MCMeaning
  Addresses <- MCAddresses
  Projects <- MCProjects
  KeyIds <- MCKeyIds
  Dsns <- MCDsns
  Texts = {}
  SDKAccepts <- MCAccepts
  Labels = {}
  NewKeys <- MCNewKeys
  InitialKeys <- MCInitialKeys
  FaultCodes <- MCFaultCodes
  DoctorInputs <- MCDoctorInputs
  PageSize = 2
  MaxChanges = 2
  MaxFaults = 2
INVARIANTS
  TypeOK
  HealthyIffPlannable
  WarningMeansUnknown
  HealthyIsTrue
  SpellingIsImmaterial
  FieldsAreJudgedApart
CHECK_DEADLOCK FALSE
