\* A client that uses the id of an answered call again.
SPECIFICATION Spec
CONSTANTS
  t1 = t1
  t2 = t2
  p = p
  Call = {c1, c2}
  NoCall = NoCall
  Id = {i1}
  Uri = {u1}
  Text = {t1, t2}
  NoText = NoText
  Position = {p}
  At <- AtSomeTexts
  NoRequest = NoRequest
  ReuseIds = TRUE
  MaxRevision = 1
INVARIANTS
  RunningAreRegistered
