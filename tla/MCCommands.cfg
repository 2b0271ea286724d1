CONSTANTS
  Globs <- MCGlobs
  Subjects <- MCSubjects
  Bytes <- MCBytes
  TreeFiles <- MCTreeFiles
  TreeDirs <- MCTreeDirs
  Tracked <- MCTracked
  Ignores <- MCIgnores
  Specs <- MCSpecs
  Keys <- MCKeys
  Lower <- MCLower
  Value <- MCValue
  None = none
  Broken = broken
  Stacks <- MCStacks
  MaxEdits = 2
  RawValues <- MCRawValues
  Blobs <- MCBlobs
  TextHead = 3
  Aliases <- MCAliases
  Builtins = {"status", "log"}
  MaxHops = 3
  Typed <- MCTyped
  Signatures <- MCSignatures
  Commits = {"c1", "c2", "c3"}
  Parents <- MCParents
  HexIds <- MCHexIds
  Short <- MCShort
  FirstRefs <- MCFirstRefs
  Exprs <- MCExprs
  MaxRefs = 6
  MaxCount = 9
  NameTexts <- MCNameTexts
  NoName = noname
  Failed = failed
  Cap = 1
  Ran <- MCRan
  Scripts <- MCScripts
  NoAnswer = noanswer
  WireOids = {"o1", "o2", "0"}
  Talks <- MCTalks
  Styles <- MCStyles
  PartsOf <- MCPartsOf
  MainDir <- MCMainDir
  FirstDirs <- MCFirstDirs
  GivenPaths <- MCGivenPaths
  WorkBranches <- MCBranches
  MaxTips = 2
  MaxCommands = 3
  MaxMeddles = 1
  NoEntry = noentry
  w1 = w1
  w2 = w2
  NoteProc = {w1, w2}
  IdLength = 5
  NoteLevels <- MCNoteLevels
  NoteTargets <- MCNoteTargets
  NoteBodies <- MCNoteBodies
  NoteEdits <- MCNoteEdits
  FirstNotes <- MCFirstNotes
  MaxNoteRuns = 2
  NoNotes = nonotes
  Proc = {p1, p2, p3}
  Path = {ref, index}
  ReadFirst = {index}
  Interruptible = {p1}
  NoProc = NoProc
SPECIFICATION JobsSpec
INVARIANTS
  PathsTruthful ChildrenHeeded WireTruthful WorktreesWhole
  MutualExclusion TargetNeverTorn NoLostEdit
PROPERTIES SettingsTruthful NamesTruthful NotesTruthful CommandsEnd StaleLockCleared
CHECK_DEADLOCK FALSE
