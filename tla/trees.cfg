SPECIFICATION Spec
\* Two bare documents and no free cell: nothing is left to do.
CHECK_DEADLOCK FALSE
CONSTANTS
  d = d
  e = e
  n1 = n1
  n2 = n2
  n3 = n3
  n4 = n4
  Doc <- MCDoc
  Node <- MCNode
  Nil = Nil
  Leaf = {"comment", "text", "xinclude_start"}
  AttrName = {"key"}
SYMMETRY Symmetry
INVARIANTS
  TypeOK
  WellLinked
  AnswersAgree
  WalksAgree
  DocumentTold
