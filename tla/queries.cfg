SPECIFICATION QuerySpec
\* With every slot taken and nothing to let go of, nothing is left to do.
CHECK_DEADLOCK FALSE
CONSTANTS
  d = d
  n1 = n1
  n2 = n2
  n3 = n3
  x = x
  s = s
  other = other
  Doc = {doc}
  Elem = {elem1, elem2}
  Prop = {prop1, prop2}
  Slot <- QueriesSlot
  Nil = Nil
  MaxGarbage = 2
  MaxFound = 2
SYMMETRY CellSymmetry
INVARIANTS
  OneOwner
  HeldAlive
