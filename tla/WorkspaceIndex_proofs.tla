----------------------- MODULE WorkspaceIndex_proofs -----------------------
(***************************************************************************)
(* Proofs about WorkspaceIndex, for any set of URIs, paths and texts and   *)
(* any number of calls.  The case tables are always current; and, provided *)
(* no scan of the disk finds two files whose names differ in case only,    *)
(* every file is indexed under one URI, whatever spellings the client uses *)
(* to open, edit and close it.  From that it follows that looking up any   *)
(* spelling finds its file, and that the index implements CaseFoldedFiles. *)
(***************************************************************************)
EXTENDS WorkspaceIndex, TLAPS

AnyHeld == Held(disk) \cup Held(overlays)

(* The invariant behind all theorems: what the tables hold, and that        *)
(* nothing is open until the workspace has been loaded.                     *)
IndexInv ==
  /\ TypeOK
  /\ TablesAreCurrent
  /\ revision = 0 => overlays = NoDocuments

LEMMA TableTypes ==
  ASSUME NEW d, NEW o
  PROVE  /\ PathTable(d, o) \in [Path -> SUBSET Uri]
         /\ NameTable(d, o) \in [Name -> SUBSET Uri]
<1>1. Reachable(d, o) \subseteq Uri
  BY DEF Reachable, Held
<1> QED BY <1>1 DEF PathTable, NameTable

(* Resolving a URI through the path table gives a URI. *)
LEMMA UriForPathType ==
  ASSUME NEW u \in Uri
  PROVE  UriForPath(u) \in Uri
BY DEF UriForPath

LEMMA HeldNothing == Held(NoDocuments) = {} /\ NoDocuments \in Documents
BY DEF Held, NoDocuments, Documents

LEMMA InitIndex == Init => IndexInv
<1> SUFFICES ASSUME Init PROVE IndexInv
  OBVIOUS
<1>1. Reachable(disk, overlays) = {}
  BY HeldNothing DEF Init, Reachable
<1>2. TablesAreCurrent
  BY <1>1 DEF Init, TablesAreCurrent, PathTable, NameTable
<1>3. TypeOK
  BY HeldNothing DEF Init, TypeOK
<1> QED BY <1>2, <1>3 DEF Init, IndexInv

(* Every writer rebuilds both tables last, from what it wrote. *)
LEMMA RebuildEffect ==
  ASSUME RebuildPaths(disk', overlays')
  PROVE  /\ TablesAreCurrent'
         /\ paths' \in [Path -> SUBSET Uri] /\ filenames' \in [Name -> SUBSET Uri]
BY TableTypes DEF RebuildPaths, TablesAreCurrent, PathTable, NameTable, Reachable, Held

LEMMA StepIndex == IndexInv /\ [Next]_vars => IndexInv'
<1> SUFFICES ASSUME IndexInv, [Next]_vars PROVE IndexInv'
  OBVIOUS
<1> USE DEF IndexInv
<1>1. ASSUME NEW scan \in Scans, Load(scan) PROVE IndexInv'
  <2>1. disk' \in Documents /\ Held(disk)' \subseteq ComFile
    BY <1>1, ScanAssumption DEF Load, Documents, Held
  <2>2. overlays' = overlays /\ revision' = revision + 1 /\ revision \in Nat
    BY <1>1 DEF Load, TypeOK
  <2>3. RebuildPaths(disk', overlays')
    BY <1>1, <2>2 DEF Load
  <2> QED BY <2>1, <2>2, <2>3, RebuildEffect DEF TypeOK
<1>2. ASSUME NEW s \in Spelling, NEW t \in Text, Overlay(s, t) PROVE IndexInv'
  <2>1. UriForPath(Identity[s]) \in Uri
    BY UriForPathType, UriAssumption
  <2>2. disk' = disk /\ revision' = revision + 1 /\ revision \in Nat
    BY <1>2 DEF Overlay, TypeOK
  <2>3. overlays' \in Documents
    BY <1>2, <2>1 DEF Overlay, TypeOK, Documents
  <2>4. RebuildPaths(disk', overlays')
    BY <1>2, <2>2 DEF Overlay
  <2> QED BY <2>2, <2>3, <2>4, RebuildEffect DEF TypeOK, Held
<1>3. ASSUME NEW s \in Spelling, NEW file \in Text \cup {NoText},
             RemoveOverlay(s, file)
      PROVE  IndexInv'
  <2> DEFINE m == UriForPath(Identity[s])
             read == IF m \in ComFile THEN file ELSE NoText
  <2>1. m \in Uri
    BY UriForPathType, UriAssumption
  <2>2. /\ overlays' = [overlays EXCEPT ![m] = NoText]
        /\ disk' = [disk EXCEPT ![m] = read]
        /\ revision' = revision + 1 /\ revision \in Nat
        /\ RebuildPaths(disk', overlays')
    BY <1>3 DEF RemoveOverlay, TypeOK
  <2>3. read \in Text \cup {NoText} /\ (read # NoText => m \in ComFile)
    OBVIOUS
  <2> HIDE DEF m, read
  <2>4. overlays' \in Documents /\ disk' \in Documents
    BY <2>1, <2>2, <2>3 DEF TypeOK, Documents
  <2>5. Held(disk)' \subseteq ComFile
    BY <2>1, <2>2, <2>3 DEF TypeOK, Documents, Held
  <2>6. revision' \in Nat /\ revision' # 0
    BY <2>2
  <2>7. TablesAreCurrent' /\ TypeOK'
    BY <2>2, <2>4, <2>5, <2>6, RebuildEffect DEF TypeOK
  <2> QED BY <2>6, <2>7
<1>4. CASE UNCHANGED vars
  BY <1>4 DEF vars, TypeOK, TablesAreCurrent, Held, PathTable, NameTable, Reachable
<1> QED BY <1>1, <1>2, <1>3, <1>4 DEF Next, RemoveOverlayFails

LEMMA IndexInvariant == Spec => []IndexInv
BY InitIndex, StepIndex, PTL DEF Spec

(* The tables of the index have their types, and only .com files are ever   *)
(* taken from the disk.                                                     *)
THEOREM IndexTypeCorrect == Spec => []TypeOK
BY IndexInvariant, PTL DEF IndexInv

(* Load, Overlay and RemoveOverlay leave both tables in step with the       *)
(* documents.                                                               *)
THEOREM TablesFollowDocuments == Spec => []TablesAreCurrent
BY IndexInvariant, PTL DEF IndexInv
-----------------------------------------------------------------------------
(* One document per file. *)

LEMMA FileOfAgrees ==
  ASSUME NEW u \in Uri, NEW v \in Uri, FileOf(u) = FileOf(v)
  PROVE  \/ u \in FileUri /\ v \in FileUri /\ PathOf[u] = PathOf[v]
         \/ u \notin FileUri /\ u = v
BY PathAssumption, UriAssumption DEF FileOf

(* OneDocumentPerPath, said of files. *)
LEMMA OneDocumentPerFile ==
  ASSUME OneDocumentPerPath, NEW u \in AnyHeld, NEW v \in AnyHeld,
         FileOf(u) = FileOf(v)
  PROVE  u = v
<1>1. u \in Uri /\ v \in Uri
  BY DEF AnyHeld, Held
<1> QED BY <1>1, FileOfAgrees DEF OneDocumentPerPath, AnyHeld

(* The path table leads every spelling to the one document of its file.     *)
LEMMA UriForPathFinds ==
  ASSUME IndexInv, OneDocumentPerPath, NEW u \in Uri
  PROVE  /\ UriForPath(u) \in Uri
         /\ FileOf(UriForPath(u)) = FileOf(u)
         /\ \A v \in AnyHeld : FileOf(v) = FileOf(u) => v = UriForPath(u)
<1>1. CASE u \notin FileUri
  <2>1. UriForPath(u) = u
    BY <1>1 DEF UriForPath
  <2> QED BY <1>1, <2>1, FileOfAgrees DEF AnyHeld, Held
<1>2. CASE u \in FileUri
  <2> DEFINE k == PathOf[u]
  <2>1. k \in Path
    BY <1>2, PathAssumption
  <2>2. paths[k] = {w \in Reachable(disk, overlays) : PathOf[w] = k}
    BY <2>1 DEF IndexInv, TablesAreCurrent, PathTable
  <2>3. paths[k] = {w \in AnyHeld \cap FileUri : PathOf[w] = k}
    <3>1. ASSUME NEW w \in AnyHeld \cap FileUri, PathOf[w] = k
          PROVE  w \in Reachable(disk, overlays)
      <4>1. CASE w \in Held(overlays)
        BY <4>1 DEF Reachable
      <4>2. CASE w \in Held(disk) /\ w \notin Held(overlays)
        <5>1. \A o \in Held(overlays) \cap FileUri : PathOf[o] # PathOf[w]
          BY <3>1, <4>2 DEF OneDocumentPerPath
        <5> QED BY <3>1, <4>2, <5>1 DEF Reachable
      <4> QED BY <4>1, <4>2 DEF AnyHeld
    <3>2. Reachable(disk, overlays) \subseteq AnyHeld \cap FileUri
      BY DEF Reachable, AnyHeld
    <3> QED BY <2>2, <3>1, <3>2
  <2> HIDE DEF k
  <2>4. CASE \E m \in AnyHeld \cap FileUri : PathOf[m] = k
    <3>1. PICK m \in AnyHeld \cap FileUri : PathOf[m] = k
      BY <2>4
    <3>2. m \in Uri
      BY DEF AnyHeld, Held
    <3>3. paths[k] = {m}
      BY <2>3, <3>1 DEF OneDocumentPerPath, AnyHeld
    <3>4. UriForPath(u) = m
      BY <1>2, <3>2, <3>3 DEF UriForPath, k
    <3>5. FileOf(m) = FileOf(u)
      BY <1>2, <3>1 DEF FileOf, k
    <3> QED BY <3>1, <3>2, <3>4, <3>5, OneDocumentPerFile
  <2>5. CASE ~\E m \in AnyHeld \cap FileUri : PathOf[m] = k
    <3>1. paths[k] = {}
      BY <2>3, <2>5
    <3>2. UriForPath(u) = u
      BY <1>2, <3>1 DEF UriForPath, k
    <3>3. \A v \in AnyHeld : FileOf(v) # FileOf(u)
      BY <1>2, <2>5, FileOfAgrees DEF AnyHeld, Held, k
    <3> QED BY <3>2, <3>3
  <2> QED BY <2>4, <2>5
<1> QED BY <1>1, <1>2

(* Putting a document where the table leads adds no second one. *)
LEMMA OneDocumentStays ==
  ASSUME IndexInv, OneDocumentPerPath, NEW u \in Uri,
         AnyHeld' \subseteq AnyHeld \cup {UriForPath(u)}
  PROVE  OneDocumentPerPath'
<1> DEFINE m == UriForPath(u)
<1>1. /\ m \in Uri
      /\ \A v \in AnyHeld : FileOf(v) = FileOf(m) => v = m
  BY UriForPathFinds
<1> HIDE DEF m
<1>2. ASSUME NEW v \in (AnyHeld \cup {m}) \cap FileUri,
             NEW w \in (AnyHeld \cup {m}) \cap FileUri, PathOf[v] = PathOf[w]
      PROVE  v = w
  <2>1. FileOf(v) = FileOf(w)
    BY <1>2 DEF FileOf
  <2> QED BY <1>1, <2>1, OneDocumentPerFile
<1> QED BY <1>2 DEF OneDocumentPerPath, AnyHeld, m

LEMMA InitOneDocument == Init => OneDocumentPerPath
BY HeldNothing DEF Init, OneDocumentPerPath

LEMMA StepOneDocument ==
  NoCaseCollisions /\ IndexInv /\ OneDocumentPerPath /\ [Next]_vars
    => OneDocumentPerPath'
<1> SUFFICES ASSUME NoCaseCollisions, IndexInv, OneDocumentPerPath, [Next]_vars
             PROVE  OneDocumentPerPath'
  OBVIOUS
<1>1. ASSUME NEW scan \in Scans, Load(scan) PROVE OneDocumentPerPath'
  <2>1. Held(overlays') = {} /\ disk' = scan
    BY <1>1, HeldNothing DEF Load, IndexInv
  <2> QED BY <2>1 DEF OneDocumentPerPath, NoCaseCollisions
<1>2. ASSUME NEW s \in Spelling, NEW t \in Text, Overlay(s, t)
      PROVE  OneDocumentPerPath'
  <2>1. Identity[s] \in Uri
    BY UriAssumption
  <2>2. AnyHeld' \subseteq AnyHeld \cup {UriForPath(Identity[s])}
    BY <1>2 DEF Overlay, AnyHeld, Held, IndexInv, TypeOK, Documents
  <2> QED BY <2>1, <2>2, OneDocumentStays
<1>3. ASSUME NEW s \in Spelling, NEW file \in Text \cup {NoText},
             RemoveOverlay(s, file)
      PROVE  OneDocumentPerPath'
  <2>1. Identity[s] \in Uri
    BY UriAssumption
  <2>2. AnyHeld' \subseteq AnyHeld \cup {UriForPath(Identity[s])}
    BY <1>3 DEF RemoveOverlay, AnyHeld, Held, IndexInv, TypeOK, Documents
  <2> QED BY <2>1, <2>2, OneDocumentStays
<1>4. CASE UNCHANGED vars
  BY <1>4 DEF vars, OneDocumentPerPath, Held
<1> QED BY <1>1, <1>2, <1>3, <1>4 DEF Next, RemoveOverlayFails

LEMMA OneDocumentInvariant ==
  ASSUME NoCaseCollisions
  PROVE  Spec => [](IndexInv /\ OneDocumentPerPath)
<1>1. IndexInv /\ OneDocumentPerPath /\ [Next]_vars => OneDocumentPerPath'
  BY StepOneDocument
<1> QED BY <1>1, InitOneDocument, IndexInvariant, PTL DEF Spec

(* Unless the disk holds two files whose names differ in case only, the     *)
(* index never lists a file twice.                                          *)
THEOREM FilesAreIndexedOnce ==
  ASSUME NoCaseCollisions
  PROVE  Spec => []OneDocumentPerPath
BY OneDocumentInvariant, PTL
-----------------------------------------------------------------------------
(* The abstraction: what a file reads, and how the writers change it.       *)

(* The files as CaseFoldedFiles sees them. *)
Texts(documents) == [f \in AllFiles |-> TextIn(documents, f)]
Buffer == Texts(overlays)
Saved == Texts(disk)

(* No file twice in S; one text written, under m; no second name for u.     *)
OnePerFile(S) == \A v, w \in S : FileOf(v) = FileOf(w) => v = w
Writes(documents, m, t, after) ==
  after[m] = t /\ \A v \in Uri \ {m} : after[v] = documents[v]
Single(documents, u) == \A v \in Held(documents) : FileOf(v) = FileOf(u) => v = u

LEMMA TextInOf ==
  ASSUME NEW documents \in Documents, NEW u \in Uri, Single(documents, u)
  PROVE  TextIn(documents, FileOf(u)) = documents[u]
<1>1. CASE u \in Held(documents)
  BY <1>1 DEF TextIn, Single
<1>2. CASE u \notin Held(documents)
  <2>1. \A v \in Held(documents) : FileOf(v) # FileOf(u)
    BY <1>2 DEF Single
  <2> QED BY <1>2, <2>1 DEF TextIn, Held
<1> QED BY <1>1, <1>2

LEMMA TextInType ==
  ASSUME NEW documents \in Documents, NEW f
  PROVE  TextIn(documents, f) \in Text \cup {NoText}
BY DEF TextIn, Documents, Held

LEMMA FileOfType ==
  ASSUME NEW u \in Uri
  PROVE  FileOf(u) \in AllFiles
BY PathAssumption DEF FileOf, AllFiles

(* Writing one document writes one file. *)
LEMMA TextInExcept ==
  ASSUME NEW documents \in Documents, NEW m \in Uri, NEW t,
         OnePerFile(Held(documents) \cup {m}),
         NEW after \in Documents, Writes(documents, m, t, after)
  PROVE  Texts(after) = [Texts(documents) EXCEPT ![FileOf(m)] = t]
<1>1. /\ after[m] = t
      /\ \A v \in Uri \ {m} : after[v] = documents[v]
      /\ Held(after) \subseteq Held(documents) \cup {m}
  BY DEF Writes, Held
<1>2. TextIn(after, FileOf(m)) = t
  <2>1. Single(after, m)
    BY <1>1 DEF Single, OnePerFile
  <2> QED BY <1>1, <2>1, TextInOf
<1>3. ASSUME NEW f \in AllFiles, f # FileOf(m)
      PROVE  TextIn(after, f) = TextIn(documents, f)
  <2>1. CASE \E v \in Held(documents) : FileOf(v) = f
    <3>1. PICK v \in Held(documents) : FileOf(v) = f
      BY <2>1
    <3>2. v \in Uri /\ v # m /\ Single(documents, v) /\ Single(after, v)
      BY <1>1, <1>3, <3>1 DEF Single, OnePerFile, Held
    <3> QED BY <1>1, <3>1, <3>2, TextInOf
  <2>2. CASE ~\E v \in Held(documents) : FileOf(v) = f
    <3>1. ~\E v \in Held(after) : FileOf(v) = f
      BY <1>1, <1>3, <2>2
    <3> QED BY <2>2, <3>1 DEF TextIn
  <2> QED BY <2>1, <2>2
<1>4. FileOf(m) \in AllFiles
  BY FileOfType
<1> QED BY <1>2, <1>3, <1>4 DEF Texts

LEMMA LookupFinds == IndexInv /\ OneDocumentPerPath => LookupFindsTheFile
<1> SUFFICES ASSUME IndexInv, OneDocumentPerPath, NEW s \in Spelling
             PROVE  DocumentSnapshot(s) = Files!TextOf(FileOf(Identity[s]))
  BY DEF LookupFindsTheFile
<1> DEFINE m == UriForPath(Identity[s])
           f == FileOf(Identity[s])
<1>1. Identity[s] \in Uri
  BY UriAssumption
<1>2. m \in Uri /\ FileOf(m) = f /\ \A v \in AnyHeld : FileOf(v) = f => v = m
  BY <1>1, UriForPathFinds
<1>3. f \in AllFiles
  BY <1>1, FileOfType
<1>4. DocumentSnapshot(s) = IF overlays[m] # NoText THEN overlays[m] ELSE disk[m]
  BY DEF DocumentSnapshot, Document
<1> HIDE DEF m, f
<1>5. TextIn(overlays, f) = overlays[m] /\ TextIn(disk, f) = disk[m]
  BY <1>2, TextInOf DEF Single, AnyHeld, IndexInv, TypeOK
<1> QED BY <1>3, <1>4, <1>5 DEF Files!TextOf, f

(* Whatever spelling is looked up, the text found is that of its file: the  *)
(* editor's while it is open, otherwise the one last read from disk.        *)
THEOREM LookupsFindTheFile ==
  ASSUME NoCaseCollisions
  PROVE  Spec => []LookupFindsTheFile
BY OneDocumentInvariant, LookupFinds, PTL
-----------------------------------------------------------------------------
LEMMA TextInNothing == Texts(NoDocuments) = Files!Nothing
BY HeldNothing DEF Texts, TextIn, Files!Nothing

LEMMA InitFiles == Init => Files!Init
BY TextInNothing DEF Init, Files!Init, Texts

LEMMA StepFiles ==
  IndexInv /\ OneDocumentPerPath /\ [Next]_vars => [Files!Next]_(Files!vars)
<1> SUFFICES ASSUME IndexInv, OneDocumentPerPath, [Next]_vars
             PROVE  Files!Next \/ UNCHANGED Files!vars
  OBVIOUS
<1>0. /\ disk \in Documents /\ overlays \in Documents
      /\ disk' \in Documents /\ overlays' \in Documents
  BY StepIndex DEF IndexInv, TypeOK
<1>1. ASSUME NEW u \in Uri
      PROVE  /\ UriForPath(u) \in Uri
             /\ OnePerFile(Held(disk) \cup {UriForPath(u)})
             /\ OnePerFile(Held(overlays) \cup {UriForPath(u)})
  BY UriForPathFinds, OneDocumentPerFile DEF AnyHeld, OnePerFile
<1>2. ASSUME NEW scan \in Scans, Load(scan) PROVE Files!Next
  <2>1. overlays = NoDocuments /\ overlays' = overlays /\ disk' = scan
    BY <1>2 DEF Load, IndexInv
  <2>2. Buffer = Files!Nothing /\ Buffer' = Buffer
    BY <2>1, TextInNothing DEF Buffer
  <2>3. scan \in Documents /\ Held(scan) \subseteq ComFile
    BY ScanAssumption DEF Documents, Held
  <2>4. Saved' \in Files!Contents
    BY <2>1, <2>3, TextInType DEF Saved, Texts, Files!Contents
  <2>5. ASSUME NEW f \in AllFiles \ {PathOf[u] : u \in ComFile}
        PROVE  Saved'[f] = NoText
    <3>1. \A v \in Held(scan) : FileOf(v) # f
      BY <2>3, UriAssumption DEF FileOf
    <3> QED BY <2>1, <3>1 DEF Saved, Texts, TextIn
  <2> QED BY <2>2, <2>4, <2>5 DEF Files!Next, Files!Scan, Buffer, Saved, Texts
<1>3. ASSUME NEW s \in Spelling, NEW t \in Text, Overlay(s, t) PROVE Files!Next
  <2> DEFINE m == UriForPath(Identity[s])
  <2>1. /\ m \in Uri
        /\ OnePerFile(Held(overlays) \cup {m})
    BY <1>1, UriAssumption
  <2>2. Writes(overlays, m, t, overlays') /\ disk' = disk
    BY <1>0, <1>3, <2>1 DEF Overlay, Writes, Documents
  <2> HIDE DEF m
  <2>3. Buffer' = [Buffer EXCEPT ![FileOf(m)] = t]
    BY <1>0, <2>1, <2>2, TextInExcept DEF Buffer
  <2>4. Files!Edit(FileOf(m), t)
    BY <2>2, <2>3 DEF Files!Edit, Buffer, Texts
  <2> QED BY <2>1, <2>4, FileOfType DEF Files!Next
<1>4. ASSUME NEW s \in Spelling, NEW file \in Text \cup {NoText},
             RemoveOverlay(s, file)
      PROVE  Files!Next
  <2> DEFINE m == UriForPath(Identity[s])
             read == IF m \in ComFile THEN file ELSE NoText
  <2>1. m \in Uri
    BY <1>1, UriAssumption
  <2>2. OnePerFile(Held(disk) \cup {m})
    BY <1>1, UriAssumption
  <2>3. OnePerFile(Held(overlays) \cup {m})
    BY <1>1, UriAssumption
  <2>4. Writes(overlays, m, NoText, overlays')
    BY <1>0, <1>4, <2>1 DEF RemoveOverlay, Writes, Documents
  <2>5. Writes(disk, m, read, disk')
    BY <1>0, <1>4, <2>1 DEF RemoveOverlay, Writes, Documents
  <2>6. read \in Text \cup {NoText} /\ (m \notin ComFile => read = NoText)
    OBVIOUS
  <2> HIDE DEF m, read
  <2>7. Buffer' = [Buffer EXCEPT ![FileOf(m)] = NoText]
    BY <1>0, <2>1, <2>3, <2>4, TextInExcept DEF Buffer
  <2>8. Saved' = [Saved EXCEPT ![FileOf(m)] = read]
    BY <1>0, <2>1, <2>2, <2>5, TextInExcept DEF Saved
  <2>9. FileOf(m) \notin {PathOf[u] : u \in ComFile} => read = NoText
    BY <2>6, UriAssumption DEF FileOf
  <2>10. Files!Close(FileOf(m))
    BY <2>6, <2>7, <2>8, <2>9 DEF Files!Close, Buffer, Saved, Texts
  <2> QED BY <2>1, <2>10, FileOfType DEF Files!Next
<1>5. CASE UNCHANGED vars
  BY <1>5 DEF vars, Files!vars
<1> QED BY <1>2, <1>3, <1>4, <1>5 DEF Next, RemoveOverlayFails

(* The index implements CaseFoldedFiles: however URIs are spelled, the      *)
(* client acts on files that exist once.                                    *)
THEOREM IndexActsOnFiles ==
  ASSUME NoCaseCollisions
  PROVE  Spec => ActsOnFiles
BY OneDocumentInvariant, InitFiles, StepFiles, PTL DEF Spec, ActsOnFiles, Files!Spec
-----------------------------------------------------------------------------
(* What a call does to lookups and overlays, for those who use the index.   *)

LEMMA OverlayEffect ==
  ASSUME IndexInv, OneDocumentPerPath, IndexInv', OneDocumentPerPath',
         NEW s \in Spelling, NEW t \in Text, Overlay(s, t)
  PROVE  /\ \A o \in Spelling : DocumentSnapshot(o)' =
              IF FileOf(Identity[o]) = FileOf(Identity[s]) THEN t ELSE DocumentSnapshot(o)
         /\ \A u \in Held(overlays') : u \in Held(overlays) \/ FileOf(u) = FileOf(Identity[s])
<1> DEFINE m == UriForPath(Identity[s])
           f == FileOf(Identity[s])
<1>1. /\ m \in Uri /\ FileOf(m) = f /\ f \in AllFiles
      /\ OnePerFile(Held(overlays) \cup {m})
  BY UriForPathFinds, OneDocumentPerFile, FileOfType, UriAssumption DEF AnyHeld, OnePerFile
<1>2. /\ overlays \in Documents /\ overlays' \in Documents
      /\ overlays' = [overlays EXCEPT ![m] = t] /\ disk' = disk
  BY DEF IndexInv, TypeOK, Overlay
<1> HIDE DEF m
<1>3. Writes(overlays, m, t, overlays')
  BY <1>1, <1>2 DEF Writes, Documents
<1>4. Buffer' = [Buffer EXCEPT ![f] = t] /\ Saved' = Saved
  BY <1>1, <1>2, <1>3, TextInExcept DEF Buffer, Saved
<1>5. ASSUME NEW o \in Spelling
      PROVE  DocumentSnapshot(o)' = IF FileOf(Identity[o]) = f THEN t ELSE DocumentSnapshot(o)
  <2> DEFINE g == FileOf(Identity[o])
  <2>1. g \in AllFiles
    BY FileOfType, UriAssumption
  <2>2. DocumentSnapshot(o) = IF Buffer[g] # NoText THEN Buffer[g] ELSE Saved[g]
    BY <2>1, LookupFinds DEF LookupFindsTheFile, Files!TextOf, Buffer, Saved, Texts
  <2>3. LookupFindsTheFile'
    BY LookupFinds, PTL
  <2>4. DocumentSnapshot(o)' = IF Buffer'[g] # NoText THEN Buffer'[g] ELSE Saved'[g]
    BY <2>1, <2>3 DEF LookupFindsTheFile, Files!TextOf, Buffer, Saved, Texts
  <2>5. DOMAIN Buffer = AllFiles
    BY DEF Buffer, Texts
  <2> HIDE DEF g, f
  <2> QED BY <1>4, <2>1, <2>2, <2>4, <2>5, TextAssumption DEF g
<1>6. ASSUME NEW u \in Held(overlays') PROVE u \in Held(overlays) \/ FileOf(u) = f
  BY <1>1, <1>2, <1>6 DEF Held, Documents
<1> QED BY <1>5, <1>6

LEMMA RemoveOverlayEffect ==
  ASSUME IndexInv, OneDocumentPerPath, IndexInv', OneDocumentPerPath',
         NEW s \in Spelling, NEW file \in Text \cup {NoText}, RemoveOverlay(s, file)
  PROVE  /\ \A o \in Spelling : FileOf(Identity[o]) # FileOf(Identity[s]) =>
              DocumentSnapshot(o)' = DocumentSnapshot(o)
         /\ \A u \in Held(overlays') : u \in Held(overlays) /\ FileOf(u) # FileOf(Identity[s])
<1> DEFINE m == UriForPath(Identity[s])
           f == FileOf(Identity[s])
           read == IF m \in ComFile THEN file ELSE NoText
<1>1. /\ m \in Uri /\ FileOf(m) = f /\ f \in AllFiles
      /\ OnePerFile(Held(overlays) \cup {m})
      /\ OnePerFile(Held(disk) \cup {m})
      /\ \A v \in AnyHeld : FileOf(v) = f => v = m
  BY UriForPathFinds, OneDocumentPerFile, FileOfType, UriAssumption DEF AnyHeld, OnePerFile
<1>2. /\ overlays \in Documents /\ overlays' \in Documents
      /\ disk \in Documents /\ disk' \in Documents
      /\ overlays' = [overlays EXCEPT ![m] = NoText] /\ disk' = [disk EXCEPT ![m] = read]
  BY DEF IndexInv, TypeOK, RemoveOverlay
<1> HIDE DEF m, read
<1>3. Writes(overlays, m, NoText, overlays') /\ Writes(disk, m, read, disk')
  BY <1>1, <1>2 DEF Writes, Documents
<1>4. Buffer' = [Buffer EXCEPT ![f] = NoText]
  BY <1>1, <1>2, <1>3, TextInExcept DEF Buffer
<1>5. Saved' = [Saved EXCEPT ![f] = read]
  BY <1>1, <1>2, <1>3, TextInExcept DEF Saved
<1>6. ASSUME NEW o \in Spelling, FileOf(Identity[o]) # f
      PROVE  DocumentSnapshot(o)' = DocumentSnapshot(o)
  <2> DEFINE g == FileOf(Identity[o])
  <2>1. g \in AllFiles
    BY FileOfType, UriAssumption
  <2>2. DocumentSnapshot(o) = IF Buffer[g] # NoText THEN Buffer[g] ELSE Saved[g]
    BY <2>1, LookupFinds DEF LookupFindsTheFile, Files!TextOf, Buffer, Saved, Texts
  <2>3. LookupFindsTheFile'
    BY LookupFinds, PTL
  <2>4. DocumentSnapshot(o)' = IF Buffer'[g] # NoText THEN Buffer'[g] ELSE Saved'[g]
    BY <2>1, <2>3 DEF LookupFindsTheFile, Files!TextOf, Buffer, Saved, Texts
  <2>5. DOMAIN Buffer = AllFiles /\ DOMAIN Saved = AllFiles
    BY DEF Buffer, Saved, Texts
  <2> HIDE DEF g, f
  <2> QED BY <1>4, <1>5, <1>6, <2>1, <2>2, <2>4, <2>5 DEF g
<1>7. ASSUME NEW u \in Held(overlays')
      PROVE  u \in Held(overlays) /\ FileOf(u) # f
  BY <1>1, <1>2, <1>7 DEF Held, Documents, AnyHeld
<1> QED BY <1>6, <1>7
=============================================================================
