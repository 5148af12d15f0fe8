SPECIFICATION Spec
CONSTANTS
  Parser = {parser1, parser2}
  Context = {context1, context2}
  Document = {document1, document2, document3}
  Doc = {doc1, doc2}
  Nil = Nil
  MaxCount = 7
  MaxDepth = 2
SYMMETRY Symmetry
INVARIANTS
  CleanedUpLast
  DocumentsOwned
  ContextsKept
