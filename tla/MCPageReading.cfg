SPECIFICATION Spec
CONSTANTS
  k1 = k1
  k2 = k2
  d1 = d1
  KeyIds <- MCKeyIds
  Dsns <- MCDsns
  MaxKeys = 3
INVARIANTS
  TypeOK
  HeldBackVerdictsOverturnable
  OrderIrrelevant
PROPERTY VerdictStable
\* The list ends at MaxKeys keys.
CHECK_DEADLOCK FALSE
