SPECIFICATION MCProviderSpec
CONSTANTS
  a1 = a1
  a2 = a2
  p1 = p1
  p2 = p2
  k1 = k1
  k2 = k2
  k3 = k3
  k4 = k4
  d1 = d1
  d2 = d2
  t1 = t1
  t2 = t2
  Addresses <- MCAddresses
  Projects <- MCProjects
  KeyIds <- MCKeyIds
  Dsns <- MCDsns
  Texts <- MCEnvironments
  SDKAccepts <- MCAcceptsAll
  Labels = {}
  NewKeys <- MCNewKeys
  InitialKeys <- MCInitialKeys
  FaultCodes <- MCFewFaults
  DesiredInputs <- MCBindings
  PageSize = 2
  MaxChanges = 1
  MaxFaults = 1
  Targets <- MCTwoGenerations
  HandedActions <- MCForged
  MaxSkip = 0
  MaxGeneration = 2
  MaxMishaps = 1
PROPERTY ContractKept
