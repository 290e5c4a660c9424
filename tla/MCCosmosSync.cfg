SPECIFICATION FairSpec
CONSTANTS
  s1 = s1
  s2 = s2
  N = 2
  MaxVersion = 2
  Run <- MCRun
  OriginOf <- MCOriginOf
  FirstUncastable <- MCFirstUncastable
INVARIANTS
  TypeOK
  DocsAreHistory
  DuplicatesBounded
PROPERTIES
  OverlapReplicaSpec
  Converges
