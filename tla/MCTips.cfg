CONSTANTS
  head = head
  main = main
  topic = topic
  o1 = o1
  o2 = o2
  o3 = o3
  Proc = {p1, p2}
  NoProc = NoProc
  Name <- MCName
  HEAD = head
  Oid <- MCOid
  Absent = Absent
  AnyOld = AnyOld
  NoRecord = NoRecord
  Base <- MCBase
  Commands <- MCCommands
  MaxCommits = 4
  MaxParents = 3
  MaxConflict = 2
  Times = {1, 2}
  Id <- MCIds
  BucketSize = 2
  Given <- MCGiven
  Tagged = {1, 3}
  MaxFaults = 1
SPECIFICATION TipsSpec
INVARIANTS LogTellsHistory BasesAreBest WalksTruthful GraphTruthful FirstBadIsCulprit
PROPERTIES ImplementsAtomicBatches VerdictNarrows
CHECK_DEADLOCK FALSE
