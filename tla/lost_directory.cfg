SPECIFICATION Spec
CONSTANTS
  stdio = stdio
  xml = xml
  fake = fake
  z = z
  xml2 = xml2
  bogus = bogus
  main = main
  inflate = inflate
  parse = parse
  blah = blah
  putc = putc
  sys = sys
  inc = inc
  opt = opt
  alt = alt
  Header <- MCHeader
  Lib <- MCLib
  Func <- MCFunc
  Dir <- MCDir
  SysDir = sys
  HeaderDirs <- MCHeaderDirs
  LibDirs <- MCLibDirs
  Exports <- MCExports
  Declares <- MCDeclares
  Inline = {}
  Runtime <- MCRuntime
  Main = main
  Macro <- MCMacro
  MacroOf <- MCMacroOf
  Options <- MCOptions
  InitLibraryPaths = {}
  PathLists <- MCPathLists
  LibraryPathLists <- MCNoPaths
  MaxBlocks = 0
  Overlap = TRUE
  Faults = FALSE
  Debug = FALSE
  Windows = FALSE
INVARIANTS
  StillUsable
