--------------------------- MODULE LanguageServer ---------------------------
(***************************************************************************)
(* The whole server: the main loop (server.go, Run and handle), the store  *)
(* of open documents (document/store.go), the workspace index, and the     *)
(* goroutines that answer concurrent requests.  The main loop is the only  *)
(* writer of the store and the index; the goroutines read the index.       *)
(*                                                                         *)
(* An action of the main loop is one message, up to the point where it     *)
(* waits or writes more than one notification: publishOpenDiagnostics      *)
(* writes one per step, so that answers come in between.  Requests served  *)
(* by the main loop itself (documentSymbol, definition, foldingRange),     *)
(* and those refused before initialize or after shutdown, change no state. *)
(***************************************************************************)
EXTENDS Integers, Sequences

CONSTANTS
  Spelling, Uri, FileUri, ComFile, Identity, Path, Name, PathOf, NameOf,
  Text, NoText, Scans, MaxRevision,
  Call, NoCall, Id, Position, At, NoRequest, ReuseIds,
  Sorted,        (* the client's URIs in the order of Store.All           *)
  Unparsable,    (* texts that Analyze fails on                           *)
  Unreadable     (* files that may be there and not be readable           *)

ASSUME SortedAssumption ==
  /\ Sorted \in Seq(Spelling) /\ {Sorted[i] : i \in DOMAIN Sorted} = Spelling
  /\ \A i, j \in DOMAIN Sorted : Sorted[i] = Sorted[j] => i = j
ASSUME FaultAssumption == Unparsable \subseteq Text /\ Unreadable \subseteq ComFile
ASSUME UriAssumption ==
  /\ ComFile \subseteq FileUri /\ FileUri \subseteq Uri
  /\ Identity \in [Spelling -> Uri]
ASSUME PathAssumption ==
  /\ PathOf \in [FileUri -> Path] /\ NameOf \in [Path -> Name]
  /\ Path \cap Uri = {}
  /\ \A u, v \in FileUri : PathOf[u] = PathOf[v] /\ u \in ComFile => v \in ComFile
ASSUME TextAssumption == NoText \notin Text /\ At \in [Position -> SUBSET Text]
ASSUME ScanAssumption ==
  /\ Scans \subseteq [Uri -> Text \cup {NoText}]
  /\ \A scan \in Scans : \A u \in Uri \ ComFile : scan[u] = NoText
ASSUME CallAssumption == NoCall \notin Call /\ ReuseIds \in BOOLEAN
ASSUME BoundAssumption == MaxRevision \in Nat \ {0}

VARIABLES
  disk, overlays, paths, filenames, revision,   (* WorkspaceIndex         *)
  requests, cancelled, asked, call,             (* RequestHandlers        *)
  store,         (* Store.documents, NoText for what is not open          *)
  initialized, shutdown,
  main,          (* what the main goroutine is doing                      *)
  todo,          (* the documents publishOpenDiagnostics has ahead of it  *)
  shown,         (* the last diagnostics the client got for each document *)
  abandoned      (* history: documents whose last didClose failed         *)

indexVars == <<disk, overlays, paths, filenames, revision>>
handlerVars == <<requests, cancelled, asked, call>>
flags == <<initialized, shutdown>>
client == <<shown, abandoned>>
vars == <<indexVars, handlerVars, store, flags, main, todo, client>>

Index == INSTANCE WorkspaceIndex

(* What a goroutine finds in the index under each URI. *)
Docs == [s \in Spelling |-> Index!DocumentSnapshot(s)]

Handlers == INSTANCE RequestHandlers WITH Uri <- Spelling, docs <- Docs

Running(c) == Handlers!Running(c)
AllDone == \A c \in Call : ~Running(c)

Closed == [text |-> NoText, analysed |-> FALSE]
Open(s) == store[s].text # NoText

(* Diagnostics: the text whose syntax errors they list (NoText: none) and   *)
(* the documents their semantic part was computed from.                     *)
NoDiagnostics == [syntax |-> NoText, semantics |-> Handlers!NoView]

Init ==
  /\ Index!Init
  /\ requests = [i \in Id |-> NoCall]
  /\ cancelled = {}
  /\ asked = [c \in Call |-> NoRequest]
  /\ call = [c \in Call |-> Handlers!Locals("new", 0)]
  /\ store = [s \in Spelling |-> Closed]
  /\ initialized = FALSE /\ shutdown = FALSE
  /\ main = "read"
  /\ todo = {}
  /\ shown = [s \in Spelling |-> NoDiagnostics]
  /\ abandoned = {}
-----------------------------------------------------------------------------
Ready == main = "read" /\ initialized /\ ~shutdown

(* A second initialize is refused; one that fails to load changes nothing. *)
Initialize(scan) ==
  /\ main = "read" /\ ~initialized
  /\ Index!Load(scan)
  /\ initialized' = TRUE
  /\ UNCHANGED <<handlerVars, store, shutdown, main, todo, client>>

(* publishOpenDiagnostics takes a copy of the open documents and walks it. *)
PublishOpen(str) ==
  /\ main' = "publish"
  /\ todo' = {s \in Spelling : str[s].text # NoText}

(* The document the walk has come to, in the order of Store.All. *)
IsNext(s) ==
  /\ s \in todo
  /\ \E i \in DOMAIN Sorted : Sorted[i] = s /\ \A j \in 1..(i - 1) : Sorted[j] \notin todo

(* The new text of an open document is analysed and becomes its overlay.    *)
(* If the analysis fails, the index keeps what it had.                      *)
Submit(s, t) ==
  /\ store' = [store EXCEPT ![s] = [text |-> t, analysed |-> t \notin Unparsable]]
  /\ IF t \in Unparsable
     THEN UNCHANGED <<indexVars, main, todo>>
     ELSE /\ revision < MaxRevision
          /\ Index!Overlay(s, t)
          /\ PublishOpen(store')
  /\ abandoned' = abandoned \ {s}
  /\ UNCHANGED <<handlerVars, flags, shown>>

(* Clients open a document that is not open, under one URI at a time.       *)
DidOpen(s, t) ==
  /\ Ready
  /\ \A o \in Spelling : Open(o) => Index!FileOf(Identity[o]) # Index!FileOf(Identity[s])
  /\ Submit(s, t)

DidChange(s, t) ==
  /\ Ready /\ Open(s)
  /\ Submit(s, t)

DidCloseQuietly(s, file) ==   \* Mutant
  /\ Ready /\ Open(s) /\ file \notin Unparsable
  /\ revision < MaxRevision
  /\ Index!RemoveOverlay(s, file)
  /\ store' = [store EXCEPT ![s] = Closed]
  /\ PublishOpen(store')
  /\ UNCHANGED <<handlerVars, flags, client>>

DidCloseLate(s, file) ==   \* Mutant
  /\ Ready /\ Open(s) /\ file \notin Unparsable
  /\ revision < MaxRevision
  /\ Index!RemoveOverlay(s, file)
  /\ store' = [store EXCEPT ![s] = Closed]
  /\ shown' = [shown EXCEPT ![s] = NoDiagnostics]
  /\ PublishOpen(store)
  /\ UNCHANGED <<handlerVars, flags, abandoned>>

(* The overlay goes, the client is told there are no diagnostics, and the   *)
(* other documents, which may depend on this one, are diagnosed again.      *)
DidClose(s, file) ==
  /\ Ready /\ Open(s) /\ file \notin Unparsable
  /\ revision < MaxRevision
  /\ Index!RemoveOverlay(s, file)
  /\ store' = [store EXCEPT ![s] = Closed]
  /\ shown' = [shown EXCEPT ![s] = NoDiagnostics]
  /\ PublishOpen(store')
  /\ UNCHANGED <<handlerVars, flags, abandoned>>

(* The document has left the store when its file turns out unreadable, or   *)
(* its saved text cannot be analysed; didClose stops there.                 *)
DidCloseFails(s) ==
  /\ Ready /\ Open(s)
  /\ Unparsable # {} \/ Index!UriForPath(Identity[s]) \in Unreadable
  /\ Index!RemoveOverlayFails(s)
  /\ store' = [store EXCEPT ![s] = Closed]
  /\ abandoned' = abandoned \cup {s}
  /\ UNCHANGED <<handlerVars, flags, main, todo, shown>>

PublishOwnText(s) ==   \* Mutant
  /\ main = "publish" /\ IsNext(s)
  /\ shown' = [shown EXCEPT ![s] =
       [syntax |-> store[s].text,
        semantics |-> [Handlers!NoView EXCEPT ![s] = Docs[s]]]]
  /\ todo' = todo \ {s}
  /\ UNCHANGED <<indexVars, handlerVars, store, flags, main, abandoned>>

PublishOverAndOver(s) ==   \* Mutant
  /\ main = "publish" /\ IsNext(s)
  /\ shown' = [shown EXCEPT ![s] = [syntax |-> store[s].text, semantics |-> Docs]]
  /\ PublishOpen(store)
  /\ UNCHANGED <<indexVars, handlerVars, store, flags, abandoned>>

(* One turn of the loop in publishOpenDiagnostics.  Nobody else writes the  *)
(* index, so the revision is the one DocumentSnapshot returned.             *)
Publish(s) ==
  /\ main = "publish" /\ IsNext(s)
  /\ IF Docs[s] = NoText THEN UNCHANGED shown
     ELSE shown' = [shown EXCEPT ![s] =
            [syntax |-> IF store[s].analysed THEN store[s].text ELSE NoText,
             semantics |-> Docs]]
  /\ todo' = todo \ {s}
  /\ UNCHANGED <<indexVars, handlerVars, store, flags, main, abandoned>>

Published ==
  /\ main = "publish" /\ todo = {}
  /\ main' = "read"
  /\ UNCHANGED <<indexVars, handlerVars, store, flags, todo, client>>
-----------------------------------------------------------------------------
StartRequest(c, r) ==
  /\ Ready
  /\ UNCHANGED <<indexVars, store, flags, main, todo, client>>
  /\ Handlers!Dispatch(c, r)

CancelRequest(i) ==
  /\ main = "read"
  /\ UNCHANGED <<indexVars, store, flags, main, todo, client>>
  /\ Handlers!CancelRequest(i)

(* Goroutines run until the process ends. *)
Handle(c) ==
  /\ main \notin {"stopped", "failed"}
  /\ UNCHANGED <<indexVars, store, flags, main, todo, client>>
  /\ Handlers!Handle(c)

ShutdownWithoutCancel ==   \* Mutant
  /\ Ready
  /\ main' = "drain"
  /\ UNCHANGED <<indexVars, handlerVars, store, flags, todo, client>>

Shutdown ==
  /\ Ready
  /\ UNCHANGED <<indexVars, store, flags, todo, client>>
  /\ Handlers!CancelAll
  /\ main' = "drain"

DrainedEarly ==   \* Mutant
  /\ main = "drain"
  /\ shutdown' = TRUE
  /\ main' = "read"
  /\ UNCHANGED <<indexVars, handlerVars, store, initialized, todo, client>>

(* The flag is set, and shutdown answered, when the last goroutine is gone. *)
Drained ==
  /\ main = "drain" /\ AllDone
  /\ shutdown' = TRUE
  /\ main' = "read"
  /\ UNCHANGED <<indexVars, handlerVars, store, initialized, todo, client>>

StopWith(pc) ==
  /\ main = "read"
  /\ main' = pc
  /\ UNCHANGED <<indexVars, handlerVars, store, flags, todo, client>>

(* Only an exit after shutdown, or the end of input, waits for goroutines.  *)
Exit == StopWith(IF shutdown THEN "wait" ELSE "failed")
EndOfInput == StopWith("wait")
ReadError == StopWith("failed")

WaitNever ==   \* Mutant
  /\ main = "wait"
  /\ main' = "stopped"
  /\ UNCHANGED <<indexVars, handlerVars, store, flags, todo, client>>

Wait ==
  /\ main = "wait" /\ AllDone
  /\ main' = "stopped"
  /\ UNCHANGED <<indexVars, handlerVars, store, flags, todo, client>>

Stopped == main \in {"stopped", "failed"} /\ UNCHANGED vars

MainStep == (\E s \in Spelling : Publish(s)) \/ Published \/ Drained \/ Wait

Next ==
  \/ \E scan \in Scans : Initialize(scan)
  \/ \E s \in Spelling :
       \/ \E t \in Text : DidOpen(s, t) \/ DidChange(s, t)
       \/ \E file \in Text \cup {NoText} : DidClose(s, file)
       \/ DidCloseFails(s)
  \/ \E c \in Call : Handle(c) \/ \E r \in Handlers!Request : StartRequest(c, r)
  \/ \E i \in Id : CancelRequest(i)
  \/ Shutdown \/ Exit \/ EndOfInput \/ ReadError
  \/ MainStep
  \/ Stopped

Spec == Init /\ [][Next]_vars

(* Goroutines are scheduled and writes to the client succeed: once a        *)
(* message is taken, its handling goes on.  Nothing makes the client send.  *)
FairSpec == Spec /\ WF_vars(MainStep) /\ \A c \in Call : WF_vars(Handle(c))
-----------------------------------------------------------------------------
TypeOK ==
  /\ Index!TypeOK
  /\ Handlers!TypeOK
  /\ store \in [Spelling -> [text : Text \cup {NoText}, analysed : BOOLEAN]]
  /\ initialized \in BOOLEAN /\ shutdown \in BOOLEAN
  /\ main \in {"read", "publish", "drain", "wait", "stopped", "failed"}
  /\ todo \subseteq {s \in Spelling : Open(s)}
  /\ shown \in [Spelling -> [syntax : Text \cup {NoText},
                             semantics : Handlers!View]]
  /\ \A s \in abandoned : ~Open(s)

(* Between two messages the client sees, for every open document, the       *)
(* diagnostics of its present text against the present workspace: nothing   *)
(* that happened to another document is left out.                           *)
ShownDiagnosticsAreCurrent ==
  main = "read" => \A s \in Spelling : Open(s) /\ store[s].analysed =>
    shown[s] = [syntax |-> store[s].text, semantics |-> Docs]

(* A closed document shows no diagnostics, whatever the order of opens and  *)
(* closes and however long the publishing of the others takes.              *)
ClosedDocumentsAreCleared ==
  \A s \in Spelling : ~Open(s) => shown[s] = NoDiagnostics

(* What the code does of it: only a failed didClose leaves diagnostics of a *)
(* closed document behind; opening and closing it once more clears them.    *)
OnlyFailedClosesLeaveDiagnostics ==
  \A s \in Spelling : ~Open(s) => shown[s] = NoDiagnostics \/ s \in abandoned

(* Lookups find the text that was last analysed; one that fails its         *)
(* analysis stays in the store only.                                        *)
OpenTextIsIndexed ==
  \A s \in Spelling : Open(s) /\ store[s].analysed => Docs[s] = store[s].text

(* An overlay is of a document that is open, or of one whose closing failed. *)
OverlaysAreOpen ==
  \A u \in Uri : overlays[u] # NoText =>
    \E s \in Spelling : /\ Open(s) \/ s \in abandoned
                        /\ Index!FileOf(Identity[s]) = Index!FileOf(u)

(* The store and the index, two copies of what is open, stay in step under  *)
(* any spelling: the index serves the editor's text of every open document, *)
(* not the one on disk, and forgets it when the document is closed; only    *)
(* open documents wait for diagnostics (server.go, updateDocument,          *)
(* didClose).                                                               *)
IndexFollowsStore == TypeOK /\ OpenTextIsIndexed /\ OverlaysAreOpen

(* Shutdown waits for nobody it has not told to stop, and its answer is the *)
(* last thing the client hears but refusals: nothing runs once the flag is  *)
(* set (server.go, handle, cancelAllRequests).                              *)
OrderlyShutdown ==
  /\ main = "drain" => \A c \in Call : Running(c) => c \in cancelled
  /\ shutdown => AllDone

(* Every request is answered, unless the process ends on an error.          *)
RequestsAreAnswered ==
  \A c \in Call : Running(c) ~> (call[c].pc = "done" \/ main = "failed")

(* Publishing, shutdown and exit all come to an end.                        *)
MainLoopReturns ==
  main \in {"publish", "drain", "wait"} ~> main \in {"read", "stopped"}

(* The goroutines of the real server behave as RequestHandlers says, when   *)
(* the documents they read are those of the real index; so what they answer *)
(* is what the workspace said at one instant.                               *)
ReadsAreAtomic == Handlers!ReadsAreAtomic
=============================================================================
