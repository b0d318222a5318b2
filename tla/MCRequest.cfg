SPECIFICATION FairSpec
CONSTANTS
  a1 = a1
  a2 = a2
  Addresses <- MCAddresses
  Projects = {}
  KeyIds = {}
  Dsns = {}
  Contexts <- MCContexts
  Manifests <- MCManifests
  AttemptIds <- MCAttemptIds
  MaxFaults = 2
  MaxLosses = 1
INVARIANTS
  TypeOK
  AnswerIsOwn
  ReadOnce
  WithinAdmission
PROPERTY ObservationCompletes
CHECK_DEADLOCK FALSE
