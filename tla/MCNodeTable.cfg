SPECIFICATION FairSpec
CONSTANTS
    dir = dir
    file = file
    Root = Root
    Nobody = Nobody
    Nodes = {dir, file}
    Threads = {t1, t2}
    Workers = {w1}
    Parent <- MCParent
    Prefixes <- MCPrefixes
    Bucket <- MCBucket
INVARIANTS
  NoDanglingPointer
  ClaimHasOneOwner
  NoStrandedNode
  InsertNeverMeetsLeaf
PROPERTIES
  ClaimIsServed
  TeardownEnds
