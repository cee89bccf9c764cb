\* A dialog, two libraries of one name, and every way to edit them.
SPECIFICATION Spec
CONSTANTS
  Main = Main
  main = main
  lib = lib
  sub = sub
  away = away
  user = user
  other = other
  blocks = blocks
  twice = twice
  broken = broken
  Spelling = {"Main.com", "main.com", "lib.com", "sub/lib.com"}
  Uri = {Main, main, lib, sub, away}
  FileUri = {Main, main, lib, sub, away}
  ComFile = {Main, main, lib, sub, away}
  Identity <- MCIdentity
  Path = {"/main.com", "/lib.com", "/sub/lib.com", "/sub/main.com", "/away/lib.com"}
  Name = {"main.com", "lib.com"}
  PathOf <- MCPathOf
  NameOf <- MCNameOf
  Text = {user, other, blocks, twice, broken}
  NoText = NoText
  Scans <- MCScans
  Ident <- MCIdent
  Fold <- MCFold
  Target = {"lib.com", "main.com", "sub/lib.com", "C:/away/lib.com"}
  NoTarget = NoTarget
  Absolute = {"C:/away/lib.com"}
  Bare = {"lib.com", "main.com"}
  ComTarget = {"lib.com", "main.com", "sub/lib.com", "C:/away/lib.com"}
  PathNamed <- MCPathNamed
  PathFrom <- MCPathFrom
  NameNamed <- MCNameNamed
  Analysis <- MCAnalysis
  Contexts <- MCContexts
  NoOwner = NoOwner
  MaxRevision = 4
INVARIANTS
  DiagnosedAreDangling
  FileTargetsAreUnambiguous
  ReferencesPartition
  AcceptedCompletionsResolve
PROPERTIES
  SameContentsSameAnswers
