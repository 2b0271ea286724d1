SPECIFICATION Spec
CONSTANTS
  head = head
  main = main
  topic = topic
  o1 = o1
  o2 = o2
  o3 = o3
  Proc = {p1, p2}
  NoProc = NoProc
  Name <- MCName
  HEAD = head
  Oid <- MCOid
  Absent = Absent
  AnyOld = AnyOld
  Commands <- MCCommands
  Scenarios <- PruneBesideWriter
PROPERTY PackPreservesView
CHECK_DEADLOCK FALSE
