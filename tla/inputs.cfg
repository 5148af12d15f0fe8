SPECIFICATION Spec
CONSTANTS
  deb = deb
  zip = zip
  debFile = debFile
  plainFile = plainFile
  Name = {deb, zip}
  File = {debFile, plainFile}
  Begins <- MCBegins
  Takes <- MCTakes
  Class = {class1, class2}
  Answer = {answer}
  Length <- MCLength
  Sax = {sax1}
  Event = {"comment", "externalSubset"}
  Proc = {proc}
  Nil = Nil
  MaxSchemes = 2
  MaxDepth = 2
  MaxRead = 2
INVARIANTS
  ServedInOrder
  HandlersAlive
PROPERTY
  ImplementsRegistry
