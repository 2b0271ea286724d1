SPECIFICATION Spec
CONSTANTS
  p = p
  q = q
  o = o
  m = m
  t = t
  x = x
  Path = {p, q}
  Content = {o, m, t, x}
  Unmerged = Unmerged
  None = None
  Tips <- MCTips
  Picks <- MCPicks
  Ontos <- MCOntos
  Word = {"root", "main", "topic 1", "topic 2", "Revert", "user"}
  Resolution = {m, x}
  CommitsFirst = TRUE
  MaxSequences = 2
  MaxCrashes = 1
  MaxEdits = 1
INVARIANTS
  PicksSafe
PROPERTIES
  FinishedApplied
  AbortRestores
CHECK_DEADLOCK FALSE
