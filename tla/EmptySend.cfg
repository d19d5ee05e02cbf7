SPECIFICATION SystemSpec
CONSTANTS
  NULL = NULL
  Thread = {t1}
  IfIndex = {d1}
  NumSlots = 1
  Addr = {a1, a2}
  Handle = {h1}
  Cpu = {c1}
  List = {l1}
INVARIANTS
  NothingToDoWithoutList
