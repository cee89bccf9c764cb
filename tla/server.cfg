\* Documents opened, changed and closed, also in vain; a request among them.
SPECIFICATION FairSpec
CONSTANTS
  a = a
  b = b
  t1 = t1
  t2 = t2
  p = p
  Spelling = {"./a.com", "a.com", "b.com"}
  Uri = {a, b}
  FileUri = {a, b}
  ComFile = {a, b}
  Identity <- MCIdentity
  Sorted <- MCSorted
  Path = {"/a.com", "/b.com"}
  Name = {"a.com", "b.com"}
  PathOf <- MCPathOf
  NameOf <- MCNameOf
  Text = {t1, t2, t3}
  NoText = NoText
  Scans <- MCScans
  Unparsable = {t3}
  Unreadable = {a}
  Call = {c1}
  NoCall = NoCall
  Id = {i1}
  Position = {p}
  At <- MCAt
  NoRequest = NoRequest
  ReuseIds = FALSE
  MaxRevision = 4
CONSTRAINT Bounds
INVARIANTS
  IndexFollowsStore
  ShownDiagnosticsAreCurrent
  OnlyFailedClosesLeaveDiagnostics
  OrderlyShutdown
PROPERTIES
  ReadsAreAtomic
  RequestsAreAnswered
  MainLoopReturns
