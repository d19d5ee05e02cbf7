SPECIFICATION Spec
CONSTANTS
  NULL = NULL
  Thread = {t1, t2}
  IfIndex = {d1, d2}
  NumSlots = 2
  Addr = {a1, a2, a3}
  Handle = {h1}
SYMMETRY Symmetry
INVARIANTS
  OneObjectPerDevice
