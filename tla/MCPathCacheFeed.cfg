SPECIFICATION Spec
CONSTANTS
  dir = dir
  east = east
  west = west
  a1 = a1
  a2 = a2
  Feeder = Feeder
  file = file
  Root = Root
  None = None
  Paths = {dir, east, west, file}
  Dirs = {Root, dir, east, west}
  Parent <- FlatParent
  Under <- FlatUnder
  Buckets <- OneBucket
  BucketOf <- AllInOne
  ListingBuckets <- TwoBuckets
  ListingBucketOf <- ListingsApart
  MaxPerBucket = 1
  ListingMaxPerBucket = 2
  ListingMax = 2
  StructuralMax = 1
  TTL = 1
  FeedTTL = 2
  Grace = 1
  Openers = {1}
  Listers = {a1, a2, 2, 3}
  Scenes <- FeedScenes
  OpenPaths <- OpenFile
  ListDirs <- ListDir
  Subtree = FALSE
  MaxTime = 2
  MaxSequence = 2
SYMMETRY Alike
INVARIANTS
  ServedIsFresh
  WarmOpenIsFresh
  
PROPERTIES
  LaterListingWins
