SPECIFICATION FairSpec
CONSTANTS
  v1 = v1
  v2 = v2
  r1 = r1
  r2 = r2
  retrieve = retrieve
  list = list
  Agents <- MCAgents
  Surfaces <- MCSurfaces
  Manifests <- MCManifests
  Revisions <- MCRevisions
  MaxEdits = 1
  MaxCrashes = 1
INVARIANTS
  TypeOK
  IdentityIsOwn
PROPERTY CheckoutIsServed
CHECK_DEADLOCK FALSE
