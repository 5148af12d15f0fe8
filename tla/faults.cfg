SPECIFICATION Spec
CONSTANTS
  stdio = stdio
  xml = xml
  fake = fake
  z = z
  xml2 = xml2
  bogus = bogus
  main = main
  inflate = inflate
  parse = parse
  blah = blah
  putc = putc
  sys = sys
  inc = inc
  opt = opt
  alt = alt
  Header <- SmallHeader
  Lib <- SmallLib
  Func <- SmallFunc
  Dir <- MCDir
  SysDir = sys
  HeaderDirs <- SmallHeaderDirs
  LibDirs <- SmallLibDirs
  Exports <- SmallExports
  Declares <- SmallDeclares
  Inline = {}
  Runtime <- MCRuntime
  Main = main
  Macro <- MCMacro
  MacroOf <- SmallMacroOf
  Options <- MCOptions
  InitLibraryPaths = {}
  PathLists <- SmallPathLists
  LibraryPathLists <- MCNoPaths
  MaxBlocks = 1
  Overlap = FALSE
  Faults = TRUE
  Debug = FALSE
  Windows = FALSE
INVARIANTS
  NoStrayTempFiles
  FunctionYes
PROPERTIES
  NothingLost
