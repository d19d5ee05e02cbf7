SPECIFICATION SystemSpec
CONSTANTS
  NULL = NULL
  Thread = {t1, t2}
  IfIndex = {d1, d2}
  NumSlots = 2
  Addr = {a1, a2, a3}
  Handle = {h1, h2}
  Cpu = {}
  List = {}
SYMMETRY SystemSymmetry
INVARIANTS
  SystemInv
  SlotsFillInOrder
  SearchedSlotsInUse
  DeletableAdapter
  MiniportAlive
  ReferencesReadable
PROPERTIES
  CallsShrink
