CONSTANTS
  alice = alice
  bob = bob
  main = main
  v = v
  r = r
  a1 = a1
  a2 = a2
  b1 = b1
  Client = {alice, bob}
  Hub = hub
  Branch = {main}
  Tag = {v}
  Main = main
  Commit = {r, a1, a2, b1}
  Parents <- MCParents
  Author <- MCAuthor
  None = none
  Dead = dead
  Pushes <- MCPushes
  Commands = {"push path", "commit"}
  MaxWork = 2
  MaxRemote = 2
  MaxFaults = 0
SPECIFICATION Spec
INVARIANT PushedIsThere
CHECK_DEADLOCK FALSE
