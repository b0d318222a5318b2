SPECIFICATION Spec
CONSTANTS
  k1 = k1
  k2 = k2
  k3 = k3
  d1 = d1
  d2 = d2
  s1 = s1
  l1 = l1
  KeyIds <- MCKeyIds
  Dsns <- MCDsns
  Labels <- MCLabels
  Bodies <- MCBodies
INVARIANTS
  TypeOK
  EntriesOfVisited
  OrderIndependent
  KeysMirrorBody
\* The function returns once.
CHECK_DEADLOCK FALSE
