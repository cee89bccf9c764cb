--------------------------- MODULE WorkspaceIndex ---------------------------
(***************************************************************************)
(* The state of workspace.Index (index.go): the documents found on disk,   *)
(* the overlays of the documents the client has open, and two tables from  *)
(* case-folded paths and file names to URIs, rebuilt by every writer.      *)
(*                                                                         *)
(* Writers run in the server's main loop only, so the gap in RemoveOverlay *)
(* between its two locks, in which it reads the disk, is filled by readers *)
(* at most and the whole call is one step.  A Document's Path is the path  *)
(* its URI decodes to (Overlay takes over the Path of the document it      *)
(* replaces, whose URI it takes over too), so it is not kept separately.   *)
(***************************************************************************)
EXTENDS Integers

CONSTANTS
  Spelling,        (* URIs as the client writes them                      *)
  Uri,             (* canonical URIs                                      *)
  FileUri,         (* those that have a path                              *)
  ComFile,         (* those whose path ends in .com, in any case          *)
  Identity,        (* [Spelling -> Uri]: canonicalDocumentIdentity        *)
  Path, Name,      (* case-folded paths and file names                    *)
  PathOf,          (* [FileUri -> Path]: canonicalPath                    *)
  NameOf,          (* [Path -> Name]: the last element of a path          *)
  Text, NoText,
  Scans,           (* what reading the workspace folders may find         *)
  MaxRevision      (* bound: index changes the model explores             *)

ASSUME UriAssumption ==
  /\ ComFile \subseteq FileUri /\ FileUri \subseteq Uri
  /\ Identity \in [Spelling -> Uri]
ASSUME PathAssumption ==
  /\ PathOf \in [FileUri -> Path] /\ NameOf \in [Path -> Name]
  /\ Path \cap Uri = {}
  /\ \A u, v \in FileUri : PathOf[u] = PathOf[v] /\ u \in ComFile => v \in ComFile
ASSUME TextAssumption == NoText \notin Text
ASSUME ScanAssumption ==
  /\ Scans \subseteq [Uri -> Text \cup {NoText}]
  /\ \A scan \in Scans : \A u \in Uri \ ComFile : scan[u] = NoText
ASSUME BoundAssumption == MaxRevision \in Nat

VARIABLES
  disk,         (* [Uri -> Text \cup {NoText}]                            *)
  overlays,     (* [Uri -> Text \cup {NoText}]                            *)
  paths,        (* Path -> the URIs found there                           *)
  filenames,    (* Name -> the URIs of files of that name                 *)
  revision

vars == <<disk, overlays, paths, filenames, revision>>

Documents == [Uri -> Text \cup {NoText}]
NoDocuments == [u \in Uri |-> NoText]
Held(documents) == {u \in Uri : documents[u] # NoText}

Init ==
  /\ disk = NoDocuments
  /\ overlays = NoDocuments
  /\ paths = [k \in Path |-> {}]
  /\ filenames = [n \in Name |-> {}]
  /\ revision = 0
-----------------------------------------------------------------------------
(* The URIs rebuildPathsLocked registers: every overlay, and the documents  *)
(* on disk whose path no overlay has.                                       *)
Reachable(dsk, ovl) ==
  LET open == Held(ovl) \cap FileUri
      hidden == {PathOf[u] : u \in open}
  IN  open \cup {u \in Held(dsk) \cap FileUri : PathOf[u] \notin hidden}

PathTable(dsk, ovl) ==
  [k \in Path |-> {u \in Reachable(dsk, ovl) : PathOf[u] = k}]

NameTable(dsk, ovl) ==
  [n \in Name |-> {u \in Reachable(dsk, ovl) : NameOf[PathOf[u]] = n}]

RebuildOnlyPaths(dsk, ovl) ==   \* Mutant
  /\ paths' = PathTable(dsk, ovl)
  /\ UNCHANGED filenames

RebuildPaths(dsk, ovl) ==
  /\ paths' = PathTable(dsk, ovl)
  /\ filenames' = NameTable(dsk, ovl)

OwnUri(u) == u   \* Mutant

(* A path that exactly one document has stands for that document. *)
UriForPath(u) ==
  IF u \in FileUri /\ \E m \in Uri : paths[PathOf[u]] = {m}
  THEN CHOOSE m \in Uri : paths[PathOf[u]] = {m}
  ELSE u

DiskFirst(u) ==   \* Mutant
  IF disk[u] # NoText THEN disk[u] ELSE overlays[u]

Document(u) == IF overlays[u] # NoText THEN overlays[u] ELSE disk[u]

DocumentSnapshot(s) == Document(UriForPath(Identity[s]))
-----------------------------------------------------------------------------
(* The server loads the workspace once, before it takes any document; a    *)
(* root that cannot be read leaves everything as it was.                    *)
Load(scan) ==
  /\ revision = 0
  /\ disk' = scan
  /\ revision' = revision + 1
  /\ RebuildPaths(disk', overlays)
  /\ UNCHANGED overlays

OverlaySilently(s, t) ==   \* Mutant
  /\ overlays' = [overlays EXCEPT ![UriForPath(Identity[s])] = t]
  /\ revision' = IF DocumentSnapshot(s) = NoText THEN revision + 1 ELSE revision
  /\ RebuildPaths(disk, overlays')
  /\ UNCHANGED disk

Overlay(s, t) ==
  /\ overlays' = [overlays EXCEPT ![UriForPath(Identity[s])] = t]
  /\ revision' = revision + 1
  /\ RebuildPaths(disk, overlays')
  /\ UNCHANGED disk

OverlayStays(s, file) ==   \* Mutant
  LET u == UriForPath(Identity[s]) IN
    /\ overlays' = overlays
    /\ disk' = [disk EXCEPT ![u] = IF u \in ComFile THEN file ELSE NoText]
    /\ revision' = revision + 1
    /\ RebuildPaths(disk', overlays')

(* file is what the disk holds at the document's path, NoText for nothing;  *)
(* only .com files are looked up.                                           *)
RemoveOverlay(s, file) ==
  LET u == UriForPath(Identity[s]) IN
    /\ overlays' = [overlays EXCEPT ![u] = NoText]
    /\ disk' = [disk EXCEPT ![u] = IF u \in ComFile THEN file ELSE NoText]
    /\ revision' = revision + 1
    /\ RebuildPaths(disk', overlays')

(* A file that is there but cannot be read is an error: the overlay stays.  *)
RemoveOverlayFails(s) ==
  /\ UriForPath(Identity[s]) \in ComFile
  /\ UNCHANGED vars

Next ==
  \/ \E scan \in Scans : Load(scan)
  \/ /\ revision \in 1..(MaxRevision - 1)
     /\ \E s \in Spelling :
          \/ \E t \in Text : Overlay(s, t)
          \/ \E file \in Text \cup {NoText} : RemoveOverlay(s, file)
  \/ revision > 0 /\ \E s \in Spelling : RemoveOverlayFails(s)

Spec == Init /\ [][Next]_vars
-----------------------------------------------------------------------------
TypeOK ==
  /\ disk \in Documents
  /\ overlays \in Documents
  /\ paths \in [Path -> SUBSET Uri]
  /\ filenames \in [Name -> SUBSET Uri]
  /\ revision \in Nat
  /\ Held(disk) \subseteq ComFile

(* No two files of the workspace differ in the case of their names only.    *)
NoCaseCollisions ==
  \A scan \in Scans : \A u, v \in Held(scan) : PathOf[u] = PathOf[v] => u = v

(* Both tables are those of the documents held now; every reader trusts     *)
(* them without looking.                                                    *)
TablesAreCurrent ==
  /\ paths = PathTable(disk, overlays)
  /\ filenames = NameTable(disk, overlays)

(* However the client spells its URIs, a file is indexed under one of them: *)
(* a buffer is never listed beside the saved copy of the same file, so that *)
(* references and completion do not see it twice.                           *)
OneDocumentPerPath ==
  \A u, v \in (Held(disk) \cup Held(overlays)) \cap FileUri :
    PathOf[u] = PathOf[v] => u = v

(* A name that two files on disk share stays ambiguous: it never resolves   *)
(* to one of them, whatever is open.                                        *)
AmbiguityIsKept ==
  \A u, v \in Held(disk) \cap FileUri :
    u # v /\ PathOf[u] = PathOf[v] => \A m \in Uri : paths[PathOf[u]] # {m}
-----------------------------------------------------------------------------
FileOf(u) == IF u \in FileUri THEN PathOf[u] ELSE u

TextIn(documents, f) ==
  IF \E u \in Held(documents) : FileOf(u) = f
  THEN documents[CHOOSE u \in Held(documents) : FileOf(u) = f]
  ELSE NoText

AllFiles == Path \cup (Uri \ FileUri)

Files == INSTANCE CaseFoldedFiles WITH
  File <- AllFiles,
  Indexed <- {PathOf[u] : u \in ComFile},
  buffer <- [f \in AllFiles |-> TextIn(overlays, f)],
  saved <- [f \in AllFiles |-> TextIn(disk, f)]

(* Opening, editing and closing documents under any spelling of their URIs  *)
(* acts on files that have one name each, and refreshes the closed file     *)
(* from disk.                                                               *)
ActsOnFiles == Files!Spec

(* Looking a document up by any spelling finds the text of its file: the    *)
(* buffer if it is open under any spelling, else what was last read.        *)
LookupFindsTheFile ==
  \A s \in Spelling : DocumentSnapshot(s) = Files!TextOf(FileOf(Identity[s]))
=============================================================================
