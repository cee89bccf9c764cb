\* A workspace without case collisions.
SPECIFICATION Spec
CONSTANTS
  Main = Main
  main = main
  sub = sub
  note = note
  untitled = untitled
  t1 = t1
  t2 = t2
  Spelling <- MCSpelling
  Uri = {Main, main, sub, note, untitled}
  FileUri = {Main, main, sub, note}
  ComFile = {Main, main, sub}
  Identity <- MCIdentity
  Path = {"/main.com", "/sub/main.com", "/note.txt"}
  Name = {"main.com", "note.txt"}
  PathOf <- MCPathOf
  NameOf <- MCNameOf
  Text = {t1, t2}
  NoText = NoText
  Scans <- PlainScans
  MaxRevision = 5
INVARIANTS
  TablesAreCurrent
  LookupFindsTheFile
PROPERTIES
  ActsOnFiles
