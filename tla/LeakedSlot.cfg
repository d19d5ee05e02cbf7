SPECIFICATION Spec
CONSTANTS
  NULL = NULL
  Thread = {t1}
  IfIndex = {d1}
  NumSlots = 2
  Addr = {a1, a2, a3}
  Handle = {h1}
INVARIANTS
  RefusedOnlyWhenFull
