CONSTANTS
  alice = alice
  bob = bob
  carer = carer
  b0 = b0
  b1 = b1
  b2 = b2
  Proc = {alice, bob, carer}
  Blob = {b0, b1, b2}
  Initial = b0
  None = None
  Scripts <- MCScripts
  Objects <- MCObjects
  Digit = 2
  Wide = 16
  WideCopy = 2
  Offsets <- MCOffsets
  Capacity = 1
  FirstPacks <- MCFirstPacks
  Streams <- MCStreams
  Lists <- MCLists
  Sizes <- MCSizes
  MaxPacks = 2
  NoObject = NoObject
  BadPack = BadPack
  Sessions <- MCSessions
  Gone = gone
  Context = 1
  MaxMoves = 2
  Paths <- MCPaths
  Absent = absent
  Merges <- MCMerges
  Retyped <- MCRetyped
  Threshold = 50
  Limit = 4
  NameCap = 3
  OidLen = 2
  BlockSize = 64
  Digest <- MCDigest
  Crc <- MCCrc
  Damaged = Damaged
  Indexes <- MCIndexes
  Entries <- MCEntries
  Removals <- MCRemovals
  Batches <- MCBatches
  GitTables <- MCGitTables
  Sector = 16
  MaxEdits = 2
  MaxTables = 2
SPECIFICATION ObjectsSpec
INVARIANTS ReachableAvailable FilesTruthful DiffsHold StagedIfPlaced MergeSound StatusTruthful PastTruthful
CHECK_DEADLOCK FALSE
