SPECIFICATION Spec
CONSTANTS
  a1 = a1
  a2 = a2
  p1 = p1
  p2 = p2
  k1 = k1
  k2 = k2
  k3 = k3
  k4 = k4
  d1 = d1
  d2 = d2
  t1 = t1
  Addresses <- MCAddresses
  Projects <- MCProjects
  KeyIds <- MCKeyIds
  Dsns <- MCDsns
  Texts <- MCTexts
  SDKAccepts <- MCAccepts
  Labels = {}
  NewKeys <- MCNewKeys
  InitialKeys <- MCInitialKeys
  FaultCodes <- MCFaultCodes
  DesiredInputs <- MCFewInputs
  PageSize = 2
  MaxChanges = 2
  MaxFaults = 2
  Targets <- MCOneTarget
INVARIANT NoVerdictForUnreadKeys
