CONSTANTS
  alice = alice
  bob = bob
  main = main
  v = v
  r = r
  a1 = a1
  a2 = a2
  b1 = b1
  Client = {alice, bob}
  Hub = hub
  Branch = {main}
  Tag = {v}
  Main = main
  Commit = {r, a1, a2, b1}
  Parents <- MCParents
  Author <- MCAuthor
  None = none
  Dead = dead
  Pushes <- MCPushes
  Commands = {"push path", "push net", "fetch", "clone net", "clone path", "commit", "move", "gc"}
  MaxWork = 2
  MaxRemote = 3
  MaxFaults = 1
SPECIFICATION Spec
INVARIANTS RefsWhole ToldTheTruth
PROPERTY NothingDropped
CHECK_DEADLOCK FALSE
