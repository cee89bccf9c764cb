\* Two calls in flight at once; the position exists in one of two texts.
SPECIFICATION Spec
CONSTANTS
  t1 = t1
  t2 = t2
  p = p
  Call = {c1, c2}
  NoCall = NoCall
  Id = {i1, i2}
  Uri = {u1}
  Text = {t1, t2}
  NoText = NoText
  Position = {p}
  At <- AtSomeTexts
  NoRequest = NoRequest
  ReuseIds = FALSE
  MaxRevision = 3
SYMMETRY Symmetry
INVARIANTS
  HandlerInv
  ExhaustedOnlyAfterThreeChanges
  RunningAreRegistered
PROPERTIES
  ReadsAreAtomic
