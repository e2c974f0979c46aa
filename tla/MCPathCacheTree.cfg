SPECIFICATION Spec
CONSTANTS
  dir = dir
  east = east
  west = west
  a1 = a1
  a2 = a2
  Feeder = Feeder
  file = file
  Root = Root
  None = None
  Paths = {dir, file}
  Dirs = {Root, dir}
  Parent <- DeepParent
  Under <- DeepUnder
  Buckets <- OneBucket
  BucketOf <- AllInOne
  ListingBuckets <- TwoBuckets
  ListingBucketOf <- ListingsApart
  MaxPerBucket = 1
  ListingMaxPerBucket = 1
  ListingMax = 1
  StructuralMax = 1
  TTL = 1
  FeedTTL = 1
  Grace = 1
  Openers = {1}
  Listers = {2}
  Scenes <- TreeScenes
  OpenPaths <- OpenFile
  ListDirs <- ListRoot
  Subtree = TRUE
  MaxTime = 1
  MaxSequence = 2
INVARIANTS
  ServedIsFresh
