CONSTANTS
  p = p
  q = q
  a = a
  b = b
  t = t
  main = main
  side = side
  Path = {p, q}
  Content = {a, b, t}
  Typed = {t}
  Dir = dir
  Branch = {main, side}
  None = none
  Tips <- OtherTips
  Commands = {"switch", "switch -c", "detach", "soft", "mixed", "hard", "reset", "read-tree", "restore --source", "restore", "push", "push -u", "apply", "pop", "drop", "add", "cacheinfo", "rm", "mv", "clean", "commit", "prune-locks", "force"}
  MaxCommands = 3
  MaxEdits = 1
  MaxFaults = 1
SPECIFICATION Spec
INVARIANTS EditsKept FailureKeeps CommandsArrive
CHECK_DEADLOCK FALSE
