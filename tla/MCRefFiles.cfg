SPECIFICATION Spec
CONSTANTS
  head = head
  main = main
  topic = topic
  o1 = o1
  o2 = o2
  o3 = o3
  Proc = {p1, p2, p3}
  NoProc = NoProc
  Name <- MCName
  HEAD = head
  Oid <- MCOid
  Absent = Absent
  AnyOld = AnyOld
  Commands <- MCCommands
  Scenarios <- MCScenarios
INVARIANTS
  TypeOK
  LockDiscipline
  LogComplete
PROPERTIES
  ImplementsAtomicRefs
  PackPreservesView
SYMMETRY Symmetry
CHECK_DEADLOCK FALSE
