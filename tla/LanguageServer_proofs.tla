----------------------- MODULE LanguageServer_proofs -----------------------
(***************************************************************************)
(* Proofs about LanguageServer, for any number of documents, spellings,    *)
(* texts, calls and changes.  The server is built from two components; it  *)
(* is first shown to make only their steps, so that what is proved of each *)
(* of them alone (WorkspaceIndex_proofs, RequestHandlers_proofs) holds in  *)
(* the server.  What remains is the server's own: the store, the client's  *)
(* screen, and the order in which the server ends.                         *)
(***************************************************************************)
EXTENDS LanguageServer, TLAPS

IndexProofs == INSTANCE WorkspaceIndex_proofs
HandlerProofs == INSTANCE RequestHandlers_proofs WITH Uri <- Spelling, docs <- Docs
-----------------------------------------------------------------------------
(* The components as the server knows them are those the theorems are about. *)

LEMMA IndexAssumptions ==
  /\ IndexProofs!UriAssumption /\ IndexProofs!PathAssumption /\ IndexProofs!TextAssumption
  /\ IndexProofs!ScanAssumption /\ IndexProofs!BoundAssumption
BY UriAssumption, PathAssumption, TextAssumption, ScanAssumption, BoundAssumption
   DEF IndexProofs!UriAssumption, IndexProofs!PathAssumption, IndexProofs!TextAssumption,
       IndexProofs!ScanAssumption, IndexProofs!BoundAssumption

LEMMA HandlerAssumptions ==
  /\ HandlerProofs!NoCallAssumption /\ HandlerProofs!TextAssumption
  /\ HandlerProofs!BoundAssumption
BY CallAssumption, TextAssumption, BoundAssumption
   DEF HandlerProofs!NoCallAssumption, HandlerProofs!TextAssumption, HandlerProofs!BoundAssumption

LEMMA SameIndex ==
  /\ Index!Init = IndexProofs!Init
  /\ \A scan \in Scans : Index!Load(scan) = IndexProofs!Load(scan)
  /\ \A s \in Spelling, t \in Text : Index!Overlay(s, t) = IndexProofs!Overlay(s, t)
  /\ \A s \in Spelling, file \in Text \cup {NoText} :
       Index!RemoveOverlay(s, file) = IndexProofs!RemoveOverlay(s, file)
  /\ \A s \in Spelling : Index!RemoveOverlayFails(s) = IndexProofs!RemoveOverlayFails(s)
  /\ \A s \in Spelling : Index!DocumentSnapshot(s) = IndexProofs!DocumentSnapshot(s)
  /\ Index!TypeOK = IndexProofs!TypeOK
BY DEF IndexProofs!Init, Index!Init, IndexProofs!NoDocuments, Index!NoDocuments,
  IndexProofs!Load, Index!Load, IndexProofs!Overlay, Index!Overlay,
  IndexProofs!RemoveOverlay, Index!RemoveOverlay,
  IndexProofs!RemoveOverlayFails, Index!RemoveOverlayFails, IndexProofs!vars, Index!vars,
  IndexProofs!UriForPath, Index!UriForPath, IndexProofs!RebuildPaths, Index!RebuildPaths,
  IndexProofs!PathTable, Index!PathTable, IndexProofs!NameTable, Index!NameTable,
  IndexProofs!Reachable, Index!Reachable, IndexProofs!Held, Index!Held,
  IndexProofs!DocumentSnapshot, Index!DocumentSnapshot, IndexProofs!Document, Index!Document,
  IndexProofs!TypeOK, Index!TypeOK, IndexProofs!Documents, Index!Documents

LEMMA SameRequests == Handlers!Request = HandlerProofs!Request /\ Handlers!View = HandlerProofs!View
BY DEF Handlers!Request, HandlerProofs!Request, Handlers!Method, HandlerProofs!Method,
       Handlers!View, HandlerProofs!View

LEMMA SameLocals ==
  /\ Handlers!NoView = HandlerProofs!NoView
  /\ Handlers!NoAnswer = HandlerProofs!NoAnswer
  /\ \A pc, since : Handlers!Locals(pc, since) = HandlerProofs!Locals(pc, since)
BY DEF Handlers!NoView, HandlerProofs!NoView, Handlers!NoAnswer, HandlerProofs!NoAnswer,
       Handlers!Locals, HandlerProofs!Locals

LEMMA SameHandlers ==
  ASSUME NEW c \in Call
  PROVE  /\ Handlers!Handle(c) = HandlerProofs!Handle(c)
         /\ \A r \in Handlers!Request : Handlers!Dispatch(c, r) = HandlerProofs!Dispatch(c, r)
         /\ Handlers!Running(c) = HandlerProofs!Running(c)
BY SameLocals
   DEF Handlers!Handle, HandlerProofs!Handle, Handlers!Check, HandlerProofs!Check,
  Handlers!Lookup, HandlerProofs!Lookup,
  Handlers!CompletionContextCancelled, HandlerProofs!CompletionContextCancelled,
  Handlers!Snapshot, HandlerProofs!Snapshot, Handlers!Compute, HandlerProofs!Compute,
  Handlers!Recheck, HandlerProofs!Recheck, Handlers!Reply, HandlerProofs!Reply,
  Handlers!Cleanup, HandlerProofs!Cleanup, Handlers!Goto, HandlerProofs!Goto,
  Handlers!Decide, HandlerProofs!Decide,
  Handlers!DecideCancelled, HandlerProofs!DecideCancelled,
  Handlers!Retry, HandlerProofs!Retry, Handlers!Attempts, HandlerProofs!Attempts,
  Handlers!Dispatch, HandlerProofs!Dispatch, Handlers!MayUseId, HandlerProofs!MayUseId,
  Handlers!Answered, HandlerProofs!Answered, Handlers!Running, HandlerProofs!Running

LEMMA SameCancellations ==
  /\ \A i \in Id : Handlers!CancelRequest(i) = HandlerProofs!CancelRequest(i)
  /\ Handlers!CancelAll = HandlerProofs!CancelAll
BY DEF Handlers!CancelRequest, HandlerProofs!CancelRequest,
       Handlers!CancelAll, HandlerProofs!CancelAll

LEMMA SameHandlerTypes == Handlers!TypeOK = HandlerProofs!TypeOK
BY SameLocals, SameRequests
   DEF Handlers!TypeOK, HandlerProofs!TypeOK, Handlers!CallState, HandlerProofs!CallState,
       Handlers!ProgramCounter, HandlerProofs!ProgramCounter,
       Handlers!Answer, HandlerProofs!Answer, Handlers!Attempts, HandlerProofs!Attempts
-----------------------------------------------------------------------------
(* What ties the index to the main loop: it is loaded first, and once.      *)
LoadedFirst ==
  /\ initialized \in BOOLEAN
  /\ initialized <=> revision # 0
  /\ ~initialized => main # "publish"

LEMMA InitIndex == Init => IndexProofs!Init /\ LoadedFirst
BY SameIndex DEF Init, LoadedFirst, Index!Init

(* Every action of the server is one of these, as far as the components go. *)
LEMMA StepIndex ==
  ASSUME IndexProofs!IndexInv, LoadedFirst, [Next]_vars
  PROVE  [IndexProofs!Next]_(IndexProofs!vars) /\ LoadedFirst'
<1> USE DEF LoadedFirst
<1>0. revision \in Nat /\ MaxRevision \in Nat
  BY BoundAssumption DEF IndexProofs!IndexInv, IndexProofs!TypeOK
<1>1. ASSUME NEW scan \in Scans, Initialize(scan)
      PROVE  IndexProofs!Next /\ LoadedFirst'
  <2>1. IndexProofs!Load(scan)
    BY <1>1, SameIndex DEF Initialize
  <2>2. revision = 0 /\ revision' = 1 /\ initialized' = TRUE /\ main' = main
    BY <1>0, <1>1, <2>1 DEF Initialize, IndexProofs!Load
  <2> QED BY <2>1, <2>2 DEF IndexProofs!Next
<1>2. ASSUME NEW s \in Spelling, NEW t \in Text, Ready, Submit(s, t)
      PROVE  [IndexProofs!Next]_(IndexProofs!vars) /\ LoadedFirst'
  <2>1. CASE t \in Unparsable
    BY <1>2, <2>1 DEF Submit, indexVars, flags, Ready, IndexProofs!vars
  <2>2. CASE t \notin Unparsable
    <3>1. /\ IndexProofs!Overlay(s, t) /\ revision \in 1..(MaxRevision - 1)
          /\ initialized' = TRUE
      BY <1>0, <1>2, <2>2, SameIndex DEF Submit, Ready, flags
    <3>2. revision' = revision + 1
      BY <3>1 DEF IndexProofs!Overlay
    <3> QED BY <1>0, <3>1, <3>2 DEF IndexProofs!Next
  <2> QED BY <2>1, <2>2
<1>3. ASSUME NEW s \in Spelling, NEW file \in Text \cup {NoText}, DidClose(s, file)
      PROVE  IndexProofs!Next /\ LoadedFirst'
  <2>1. /\ IndexProofs!RemoveOverlay(s, file) /\ revision \in 1..(MaxRevision - 1)
        /\ initialized' = TRUE
    BY <1>0, <1>3, SameIndex DEF DidClose, Ready, flags
  <2>2. revision' = revision + 1
    BY <2>1 DEF IndexProofs!RemoveOverlay
  <2> QED BY <1>0, <2>1, <2>2 DEF IndexProofs!Next
<1>4. ASSUME NEW s \in Spelling, DidCloseFails(s)
      PROVE  IndexProofs!Next /\ LoadedFirst'
  <2>1. IndexProofs!RemoveOverlayFails(s)
    BY <1>4, SameIndex DEF DidCloseFails
  <2>2. revision' = revision
    BY <2>1 DEF IndexProofs!RemoveOverlayFails, IndexProofs!vars
  <2>3. initialized' = initialized /\ main' = main /\ revision > 0
    BY <1>0, <1>4 DEF DidCloseFails, flags, Ready
  <2> QED BY <2>1, <2>2, <2>3 DEF IndexProofs!Next
<1>5. ASSUME UNCHANGED indexVars, initialized' = initialized,
             main' # "publish" \/ main' = main
      PROVE  [IndexProofs!Next]_(IndexProofs!vars) /\ LoadedFirst'
  BY <1>5 DEF indexVars, IndexProofs!vars
<1>6. ASSUME NEW s \in Spelling, Publish(s)
      PROVE  UNCHANGED indexVars /\ initialized' = initialized /\ main' = main
  BY <1>6 DEF Publish, flags
<1>7. ASSUME NEW c \in Call, NEW r \in Handlers!Request, StartRequest(c, r)
      PROVE  UNCHANGED indexVars /\ initialized' = initialized /\ main' = main
  BY <1>7 DEF StartRequest, flags
<1>8. ASSUME NEW c \in Call, Handle(c)
      PROVE  UNCHANGED indexVars /\ initialized' = initialized /\ main' = main
  BY <1>8 DEF Handle, flags
<1>9. ASSUME NEW i \in Id, CancelRequest(i)
      PROVE  UNCHANGED indexVars /\ initialized' = initialized /\ main' = main
  BY <1>9 DEF CancelRequest, flags
<1>10. ASSUME Published \/ Drained \/ Wait \/ Shutdown \/ Exit \/ EndOfInput \/ ReadError
       PROVE  UNCHANGED indexVars /\ initialized' = initialized /\ main' # "publish"
  BY <1>10 DEF Published, Drained, Wait, Shutdown, Exit, EndOfInput, ReadError, StopWith, flags
<1>11. CASE UNCHANGED vars
  BY <1>5, <1>11 DEF vars, flags
<1> QED BY <1>1, <1>2, <1>3, <1>4, <1>5, <1>6, <1>7, <1>8, <1>9, <1>10, <1>11
        DEF Next, DidOpen, DidChange, MainStep, Stopped

(* The server is a user of the index. *)
LEMMA ServerUsesIndex == Spec => IndexProofs!Spec /\ [](IndexProofs!IndexInv /\ LoadedFirst)
<1>1. Init => IndexProofs!Init /\ IndexProofs!IndexInv /\ LoadedFirst
  BY InitIndex, IndexAssumptions, IndexProofs!InitIndex
<1>2. IndexProofs!IndexInv /\ LoadedFirst /\ [Next]_vars
        => (IndexProofs!IndexInv /\ LoadedFirst)' /\ [IndexProofs!Next]_(IndexProofs!vars)
  BY StepIndex, IndexAssumptions, IndexProofs!StepIndex
<1> QED BY <1>1, <1>2, PTL DEF Spec, IndexProofs!Spec
-----------------------------------------------------------------------------
(* The goroutines, who see of the index what lookups find. *)

DocsHaveType == Docs \in HandlerProofs!View

LEMMA DocsType == IndexProofs!IndexInv => DocsHaveType
<1> SUFFICES ASSUME IndexProofs!IndexInv, NEW s \in Spelling
             PROVE  Index!DocumentSnapshot(s) \in Text \cup {NoText}
  BY DEF Docs, DocsHaveType, HandlerProofs!View
<1>1. Identity[s] \in Uri
  BY UriAssumption
<1>2. IndexProofs!UriForPath(Identity[s]) \in Uri
  BY <1>1, IndexAssumptions, IndexProofs!UriForPathType
<1> QED BY <1>2, SameIndex
        DEF IndexProofs!DocumentSnapshot, IndexProofs!Document, IndexProofs!IndexInv,
            IndexProofs!TypeOK, IndexProofs!Documents

LEMMA LookupsStay == UNCHANGED indexVars => Docs' = Docs
BY DEF indexVars, Docs, Index!DocumentSnapshot, Index!Document, Index!UriForPath

LEMMA InitHandlers == Init => HandlerProofs!Init
<1> SUFFICES ASSUME Init PROVE HandlerProofs!Init
  OBVIOUS
<1>1. IndexProofs!IndexInv /\ revision = 0
  BY InitIndex, IndexAssumptions, IndexProofs!InitIndex DEF IndexProofs!Init
<1>2. HandlerProofs!Locals("new", 0) = Handlers!Locals("new", 0)
  BY SameLocals
<1> QED BY <1>1, <1>2, DocsType DEF Init, DocsHaveType, HandlerProofs!Init

(* A change of the index is one of any view of the documents. *)
LEMMA ChangeIsSeen ==
  ASSUME Docs' \in HandlerProofs!View, revision < MaxRevision,
         revision' = revision + 1, UNCHANGED handlerVars
  PROVE  HandlerProofs!Next
BY DEF HandlerProofs!Next, HandlerProofs!IndexChange, handlerVars

LEMMA StepHandlers ==
  ASSUME IndexProofs!IndexInv, DocsHaveType', LoadedFirst, [Next]_vars
  PROVE  [HandlerProofs!Next]_(HandlerProofs!vars)
<1>0. revision \in Nat /\ MaxRevision \in Nat \ {0}
  BY BoundAssumption DEF IndexProofs!IndexInv, IndexProofs!TypeOK
<1>1. Docs' \in HandlerProofs!View
  BY DEF DocsHaveType
<1>2. ASSUME NEW scan \in Scans, Initialize(scan)
      PROVE  HandlerProofs!Next
  <2>1. revision = 0 /\ revision' = 1
    BY <1>0, <1>2 DEF Initialize, Index!Load
  <2> QED BY <1>0, <1>1, <1>2, <2>1, ChangeIsSeen DEF Initialize
<1>3. ASSUME UNCHANGED indexVars, UNCHANGED handlerVars
      PROVE  UNCHANGED HandlerProofs!vars
  BY <1>3, LookupsStay DEF indexVars, handlerVars, HandlerProofs!vars
<1>4. ASSUME NEW s \in Spelling, NEW t \in Text, Submit(s, t)
      PROVE  [HandlerProofs!Next]_(HandlerProofs!vars)
  BY <1>0, <1>1, <1>3, <1>4, ChangeIsSeen DEF Submit, Index!Overlay
<1>5. ASSUME NEW s \in Spelling, NEW file \in Text \cup {NoText}, DidClose(s, file)
      PROVE  HandlerProofs!Next
  BY <1>0, <1>1, <1>5, ChangeIsSeen DEF DidClose, Index!RemoveOverlay
<1>6. ASSUME NEW s \in Spelling, DidCloseFails(s)
      PROVE  UNCHANGED indexVars /\ UNCHANGED handlerVars
  BY <1>6 DEF DidCloseFails, Index!RemoveOverlayFails, Index!vars, indexVars
<1>7. ASSUME NEW s \in Spelling, Publish(s)
      PROVE  UNCHANGED indexVars /\ UNCHANGED handlerVars
  BY <1>7 DEF Publish
<1>8. ASSUME NEW c \in Call, NEW r \in Handlers!Request, StartRequest(c, r)
      PROVE  HandlerProofs!Next
  BY <1>8, SameHandlers, SameRequests DEF StartRequest, HandlerProofs!Next
<1>9. ASSUME NEW c \in Call, Handle(c)
      PROVE  HandlerProofs!Next
  BY <1>9, SameHandlers DEF Handle, HandlerProofs!Next
<1>10. ASSUME NEW i \in Id, CancelRequest(i)
       PROVE  HandlerProofs!Next
  BY <1>10, SameCancellations DEF CancelRequest, HandlerProofs!Next
<1>11. ASSUME Shutdown
       PROVE  HandlerProofs!Next
  BY <1>11, SameCancellations DEF Shutdown, HandlerProofs!Next
<1>12. ASSUME Published \/ Drained \/ Wait \/ Exit \/ EndOfInput \/ ReadError \/ UNCHANGED vars
       PROVE  UNCHANGED indexVars /\ UNCHANGED handlerVars
  BY <1>12 DEF Published, Drained, Wait, Exit, EndOfInput, ReadError, StopWith, vars
<1> QED BY <1>2, <1>3, <1>4, <1>5, <1>6, <1>7, <1>8, <1>9, <1>10, <1>11, <1>12
        DEF Next, DidOpen, DidChange, MainStep, Stopped

LEMMA ServerRunsHandlers == Spec => HandlerProofs!Spec
<1>1. IndexProofs!IndexInv /\ LoadedFirst /\ [Next]_vars /\ DocsHaveType'
        => [HandlerProofs!Next]_(HandlerProofs!vars)
  BY StepHandlers
<1> QED BY <1>1, DocsType, InitHandlers, ServerUsesIndex, PTL DEF Spec, HandlerProofs!Spec
-----------------------------------------------------------------------------
(* So what the handlers promise in RequestHandlers they keep in the server. *)

LEMMA SameReads ==
  /\ Handlers!Reads!Init = HandlerProofs!Reads!Init
  /\ Handlers!Reads!Next = HandlerProofs!Reads!Next
  /\ Handlers!Reads!vars = HandlerProofs!Reads!vars
  /\ Handlers!Reads!vars' = HandlerProofs!Reads!vars'
BY SameLocals, SameRequests
   DEF Handlers!Reads!Init, HandlerProofs!Reads!Init, Handlers!Reads!Next, HandlerProofs!Reads!Next,
  Handlers!Reads!vars, HandlerProofs!Reads!vars, Handlers!Reads!Write, HandlerProofs!Reads!Write,
  Handlers!Reads!Cancel, HandlerProofs!Reads!Cancel, Handlers!Reads!Ask, HandlerProofs!Reads!Ask,
  Handlers!Reads!Serve, HandlerProofs!Reads!Serve, Handlers!Reads!GiveUp, HandlerProofs!Reads!GiveUp,
  Handlers!Reads!Abort, HandlerProofs!Reads!Abort, Handlers!Reads!Send, HandlerProofs!Reads!Send,
  Handlers!Reads!Decide, HandlerProofs!Reads!Decide, Handlers!Reads!View, HandlerProofs!Reads!View,
  Handlers!Reads!NoView, HandlerProofs!Reads!NoView,
  Handlers!Reads!NoAnswer, HandlerProofs!Reads!NoAnswer,
  Handlers!Stage, HandlerProofs!Stage, Handlers!AnswerOf, HandlerProofs!AnswerOf,
  Handlers!HoldsAnswer, HandlerProofs!HoldsAnswer, Handlers!Answered, HandlerProofs!Answered,
  Handlers!Attempts, HandlerProofs!Attempts, Handlers!Request, HandlerProofs!Request,
  Handlers!Method, HandlerProofs!Method

(* References, hover and completion answer from the workspace as it was at  *)
(* one instant after the question, while the main loop of the same server   *)
(* opens, edits and closes documents; or they fall back, after at least     *)
(* three such changes, or were cancelled.                                   *)
THEOREM ServerReadsAtomically == Spec => ReadsAreAtomic
<1>1. HandlerProofs!ReadsAreAtomic => ReadsAreAtomic
  <2>1. HandlerProofs!Reads!Init => Handlers!Reads!Init
    BY SameReads
  <2>2. [HandlerProofs!Reads!Next]_(HandlerProofs!Reads!vars)
          => [Handlers!Reads!Next]_(Handlers!Reads!vars)
    BY SameReads
  <2> QED BY <2>1, <2>2, PTL
          DEF ReadsAreAtomic, Handlers!ReadsAreAtomic, HandlerProofs!ReadsAreAtomic,
              Handlers!Reads!Spec, HandlerProofs!Reads!Spec
<1> QED BY <1>1, ServerRunsHandlers, HandlerAssumptions,
           HandlerProofs!HandlersImplementAtomicReads, PTL
-----------------------------------------------------------------------------
(* The store, the client's screen and the main loop: their types.  A walk   *)
(* over the open documents is under way only while publishing.              *)
OwnTypes ==
  /\ store \in [Spelling -> [text : Text \cup {NoText}, analysed : BOOLEAN]]
  /\ initialized \in BOOLEAN /\ shutdown \in BOOLEAN
  /\ main \in {"read", "publish", "drain", "wait", "stopped", "failed"}
  /\ todo \subseteq {s \in Spelling : Open(s)}
  /\ todo # {} => main = "publish"
  /\ shown \in [Spelling -> [syntax : Text \cup {NoText}, semantics : Handlers!View]]
  /\ abandoned \subseteq Spelling
  /\ \A s \in abandoned : ~Open(s)

LEMMA NothingShown ==
  NoDiagnostics \in [syntax : Text \cup {NoText}, semantics : Handlers!View]
BY DEF NoDiagnostics, Handlers!NoView, Handlers!View

LEMMA InitOwnTypes == Init => OwnTypes
<1> SUFFICES ASSUME Init PROVE OwnTypes
  OBVIOUS
<1>1. /\ store = [s \in Spelling |-> Closed]
      /\ shown = [s \in Spelling |-> NoDiagnostics]
      /\ initialized = FALSE /\ shutdown = FALSE
      /\ main = "read" /\ todo = {} /\ abandoned = {}
  BY DEF Init
<1>2. Closed \in [text : Text \cup {NoText}, analysed : BOOLEAN]
  BY DEF Closed
<1> QED BY <1>1, <1>2, NothingShown DEF OwnTypes

LEMMA SubmitTypes ==
  ASSUME OwnTypes, Ready, NEW s \in Spelling, NEW t \in Text, Submit(s, t)
  PROVE  OwnTypes'
<1> DEFINE k == [text |-> t, analysed |-> t \notin Unparsable]
<1>0. k \in [text : Text \cup {NoText}, analysed : BOOLEAN] /\ k.text = t
  OBVIOUS
<1> HIDE DEF k
<1>1. /\ store' = [store EXCEPT ![s] = k]
      /\ abandoned' = abandoned \ {s} /\ UNCHANGED <<flags, shown>>
      /\ main = "read" /\ todo = {}
      /\ UNCHANGED <<main, todo>> \/ PublishOpen(store')
  BY DEF Submit, Ready, OwnTypes, k
<1>2. /\ store' \in [Spelling -> [text : Text \cup {NoText}, analysed : BOOLEAN]]
      /\ \A o \in Spelling \ {s} : store'[o] = store[o]
  BY <1>0, <1>1 DEF OwnTypes
<1>3. /\ todo' \subseteq {o \in Spelling : store'[o].text # NoText}
      /\ todo' # {} => main' = "publish"
      /\ main' \in {"read", "publish"}
  BY <1>1 DEF PublishOpen
<1> QED BY <1>1, <1>2, <1>3 DEF OwnTypes, Open, flags

LEMMA CloseTypes ==
  ASSUME OwnTypes, NEW s \in Spelling,
         DidCloseFails(s) \/ \E file \in Text \cup {NoText} : DidClose(s, file)
  PROVE  OwnTypes'
<1>1. /\ store' = [store EXCEPT ![s] = Closed]
      /\ UNCHANGED flags /\ main = "read" /\ todo = {} /\ Open(s)
  BY DEF DidCloseFails, DidClose, Ready, OwnTypes
<1>2. /\ store' \in [Spelling -> [text : Text \cup {NoText}, analysed : BOOLEAN]]
      /\ \A o \in Spelling \ {s} : store'[o] = store[o]
      /\ store'[s].text = NoText
  BY <1>1 DEF OwnTypes, Closed
<1>3. /\ shown' \in [Spelling -> [syntax : Text \cup {NoText}, semantics : Handlers!View]]
      /\ abandoned' \subseteq abandoned \cup {s}
  BY NothingShown DEF DidCloseFails, DidClose, OwnTypes
<1>4. /\ todo' \subseteq {o \in Spelling : store'[o].text # NoText}
      /\ todo' # {} => main' = "publish"
      /\ main' \in {"read", "publish"}
  BY <1>1 DEF DidCloseFails, DidClose, PublishOpen
<1> QED BY <1>1, <1>2, <1>3, <1>4 DEF OwnTypes, Open, flags

LEMMA PublishTypes ==
  ASSUME OwnTypes, DocsHaveType, NEW s \in Spelling, Publish(s)
  PROVE  OwnTypes'
<1> DEFINE k == [syntax |-> IF store[s].analysed THEN store[s].text ELSE NoText,
                 semantics |-> Docs]
<1>1. k \in [syntax : Text \cup {NoText}, semantics : Handlers!View]
  BY SameRequests DEF OwnTypes, DocsHaveType
<1>2. shown' = shown \/ shown' = [shown EXCEPT ![s] = k]
  BY DEF Publish
<1> HIDE DEF k
<1>3. shown' \in [Spelling -> [syntax : Text \cup {NoText}, semantics : Handlers!View]]
  BY <1>1, <1>2 DEF OwnTypes
<1> QED BY <1>3 DEF Publish, OwnTypes, Open, flags

(* The other steps touch nothing of it but the control of the main loop.    *)
Control ==
  /\ UNCHANGED <<store, todo, client>>
  /\ \/ UNCHANGED main
     \/ /\ main = "publish" => todo = {}
        /\ main' \in {"read", "drain", "wait", "stopped", "failed"}

LEMMA ControlSteps ==
  ASSUME \/ \E c \in Call : Handle(c) \/ \E r \in Handlers!Request : StartRequest(c, r)
         \/ \E i \in Id : CancelRequest(i)
         \/ Shutdown \/ Exit \/ EndOfInput \/ ReadError
         \/ Published \/ Drained \/ Wait \/ Stopped \/ UNCHANGED vars
  PROVE  Control /\ UNCHANGED indexVars /\ initialized' = initialized
<1> USE DEF Control, flags
<1>1. CASE \E c \in Call : Handle(c) \/ \E r \in Handlers!Request : StartRequest(c, r)
  BY <1>1 DEF Handle, StartRequest
<1>2. CASE \E i \in Id : CancelRequest(i)
  BY <1>2 DEF CancelRequest
<1>3. CASE Shutdown
  BY <1>3 DEF Shutdown, Ready
<1>4. CASE Exit \/ EndOfInput \/ ReadError
  BY <1>4 DEF Exit, EndOfInput, ReadError, StopWith
<1>5. CASE Published \/ Drained \/ Wait
  BY <1>5 DEF Published, Drained, Wait
<1>6. CASE Stopped \/ UNCHANGED vars
  BY <1>6 DEF Stopped, vars
<1> QED BY <1>1, <1>2, <1>3, <1>4, <1>5, <1>6

LEMMA ShutdownType == ASSUME OwnTypes, [Next]_vars PROVE shutdown' \in BOOLEAN
<1> USE DEF flags, OwnTypes
<1>1. ASSUME NEW scan \in Scans, Initialize(scan) PROVE shutdown' = shutdown
  BY <1>1 DEF Initialize
<1>2. ASSUME NEW s \in Spelling, NEW t \in Text, Submit(s, t) PROVE shutdown' = shutdown
  BY <1>2 DEF Submit
<1>3. ASSUME NEW s \in Spelling, DidCloseFails(s) \/ Publish(s) PROVE shutdown' = shutdown
  BY <1>3 DEF DidCloseFails, Publish
<1>4. ASSUME NEW s \in Spelling, NEW file \in Text \cup {NoText}, DidClose(s, file)
      PROVE  shutdown' = shutdown
  BY <1>4 DEF DidClose
<1>5. ASSUME NEW c \in Call, Handle(c) \/ \E r \in Handlers!Request : StartRequest(c, r)
      PROVE  shutdown' = shutdown
  BY <1>5 DEF Handle, StartRequest
<1>6. ASSUME NEW i \in Id, CancelRequest(i) PROVE shutdown' = shutdown
  BY <1>6 DEF CancelRequest
<1>7. ASSUME Shutdown \/ Exit \/ EndOfInput \/ ReadError \/ Published \/ Wait \/ UNCHANGED vars
      PROVE  shutdown' = shutdown
  BY <1>7 DEF Shutdown, Exit, EndOfInput, ReadError, StopWith, Published, Wait, vars
<1>8. CASE Drained
  BY <1>8 DEF Drained
<1> QED BY <1>1, <1>2, <1>3, <1>4, <1>5, <1>6, <1>7, <1>8
        DEF Next, DidOpen, DidChange, MainStep, Stopped

LEMMA StepOwnTypes ==
  ASSUME OwnTypes, DocsHaveType, [Next]_vars
  PROVE  OwnTypes'
<1>1. ASSUME NEW scan \in Scans, Initialize(scan) PROVE OwnTypes'
  BY <1>1 DEF Initialize, OwnTypes, Open, client
<1>2. ASSUME NEW s \in Spelling, NEW t \in Text, DidOpen(s, t) \/ DidChange(s, t)
      PROVE  OwnTypes'
  BY <1>2, SubmitTypes DEF DidOpen, DidChange
<1>3. ASSUME NEW s \in Spelling,
             DidCloseFails(s) \/ \E file \in Text \cup {NoText} : DidClose(s, file)
      PROVE  OwnTypes'
  BY <1>3, CloseTypes
<1>4. ASSUME NEW s \in Spelling, Publish(s) PROVE OwnTypes'
  BY <1>4, PublishTypes
<1>5. ASSUME Control, initialized' = initialized PROVE OwnTypes'
  BY <1>5, ShutdownType DEF Control, OwnTypes, Open, client
<1> QED BY <1>1, <1>2, <1>3, <1>4, <1>5, ControlSteps DEF Next, MainStep

LEMMA OwnTypesHold == Spec => []OwnTypes
<1>1. OwnTypes /\ DocsHaveType /\ [Next]_vars => OwnTypes'
  BY StepOwnTypes
<1> QED BY <1>1, InitOwnTypes, DocsType, ServerUsesIndex, PTL DEF Spec

(* Every state of the server has the types of its parts. *)
LEMMA ServerTypes == Spec => []TypeOK
<1>1. IndexProofs!TypeOK /\ HandlerProofs!TypeOK /\ OwnTypes => TypeOK
  BY SameIndex, SameHandlerTypes DEF OwnTypes, TypeOK
<1>2. IndexProofs!IndexInv => IndexProofs!TypeOK
  BY DEF IndexProofs!IndexInv
<1> QED BY <1>1, <1>2, OwnTypesHold, ServerUsesIndex, ServerRunsHandlers,
           HandlerAssumptions, HandlerProofs!TypeCorrect, PTL
-----------------------------------------------------------------------------
(* Diagnostics of closed documents. *)

LEMMA ControlKeepsClient ==
  ASSUME Control, NEW s \in Spelling
  PROVE  Open(s)' = Open(s) /\ shown'[s] = shown[s] /\ abandoned' = abandoned
BY DEF Control, Open, client

LEMMA StepLeavesNothing ==
  ASSUME OwnTypes, OnlyFailedClosesLeaveDiagnostics, [Next]_vars
  PROVE  OnlyFailedClosesLeaveDiagnostics'
<1> DEFINE Clear(o) == Open(o) \/ shown[o] = NoDiagnostics \/ o \in abandoned
<1> SUFFICES ASSUME NEW o \in Spelling PROVE Clear(o)'
  BY DEF OnlyFailedClosesLeaveDiagnostics
<1>0. Clear(o)
  BY DEF OnlyFailedClosesLeaveDiagnostics
<1>1. ASSUME NEW scan \in Scans, Initialize(scan) PROVE Clear(o)'
  BY <1>0, <1>1 DEF Initialize, Open, client
<1>2. ASSUME NEW s \in Spelling, NEW t \in Text, Submit(s, t) PROVE Clear(o)'
  <2>1. /\ store' = [store EXCEPT ![s] = [text |-> t, analysed |-> t \notin Unparsable]]
        /\ shown' = shown /\ abandoned' = abandoned \ {s}
    BY <1>2 DEF Submit
  <2>2. CASE o = s
    BY <2>1, <2>2, TextAssumption DEF Open, OwnTypes
  <2>3. CASE o # s
    BY <1>0, <2>1, <2>3 DEF Open, OwnTypes
  <2> QED BY <2>2, <2>3
<1>3. ASSUME NEW s \in Spelling, NEW file \in Text \cup {NoText}, DidClose(s, file)
      PROVE  Clear(o)'
  <2>1. /\ store' = [store EXCEPT ![s] = Closed]
        /\ shown' = [shown EXCEPT ![s] = NoDiagnostics] /\ abandoned' = abandoned
    BY <1>3 DEF DidClose
  <2> QED BY <1>0, <2>1 DEF Open, OwnTypes
<1>4. ASSUME NEW s \in Spelling, DidCloseFails(s) PROVE Clear(o)'
  <2>1. /\ store' = [store EXCEPT ![s] = Closed]
        /\ shown' = shown /\ abandoned' = abandoned \cup {s}
    BY <1>4 DEF DidCloseFails
  <2> QED BY <1>0, <2>1 DEF Open, OwnTypes
<1>5. ASSUME NEW s \in Spelling, Publish(s) PROVE Clear(o)'
  <2>1. Open(s) /\ store' = store /\ abandoned' = abandoned
    BY <1>5 DEF Publish, IsNext, OwnTypes
  <2>2. o # s => shown'[o] = shown[o]
    BY <1>5 DEF Publish, OwnTypes
  <2> QED BY <1>0, <2>1, <2>2 DEF Open
<1>6. ASSUME Control PROVE Clear(o)'
  BY <1>0, <1>6, ControlKeepsClient
<1> QED BY <1>1, <1>2, <1>3, <1>4, <1>5, <1>6, ControlSteps
        DEF Next, DidOpen, DidChange, MainStep

(* A document that is not open shows no diagnostics, whatever is being      *)
(* published meanwhile, except one whose didClose failed.                   *)
THEOREM ClosedDocumentsShowNothing == Spec => []OnlyFailedClosesLeaveDiagnostics
<1>1. Init => OnlyFailedClosesLeaveDiagnostics
  BY DEF Init, OnlyFailedClosesLeaveDiagnostics
<1>2. OwnTypes /\ OnlyFailedClosesLeaveDiagnostics /\ [Next]_vars
        => OnlyFailedClosesLeaveDiagnostics'
  BY StepLeavesNothing
<1> QED BY <1>1, <1>2, OwnTypesHold, PTL DEF Spec
-----------------------------------------------------------------------------
(* The store and the index.  What makes them agree: the client opens a file *)
(* under one spelling at a time, and only after the workspace is loaded.    *)

FileOfSpelling(s) == IndexProofs!FileOf(Identity[s])

OneSpellingOpen ==
  /\ \A s, o \in Spelling : Open(s) /\ Open(o) /\ FileOfSpelling(s) = FileOfSpelling(o) => s = o
  /\ ~initialized => \A s \in Spelling : ~Open(s)

StoreInv == OwnTypes /\ OneSpellingOpen /\ OpenTextIsIndexed /\ OverlaysAreOpen

OneFileOnce == IndexProofs!IndexInv /\ IndexProofs!OneDocumentPerPath

LEMMA SameFiles ==
  /\ \A u : Index!FileOf(u) = IndexProofs!FileOf(u)
  /\ \A s \in Spelling : Docs[s] = IndexProofs!DocumentSnapshot(s)
  /\ \A s \in Spelling : Docs'[s] = IndexProofs!DocumentSnapshot(s)'
BY DEF Index!FileOf, IndexProofs!FileOf, Docs,
       IndexProofs!DocumentSnapshot, Index!DocumentSnapshot, IndexProofs!Document, Index!Document,
       IndexProofs!UriForPath, Index!UriForPath

(* What a step that leaves the index and the store alone leaves alone.      *)
LEMMA QuietStore ==
  ASSUME StoreInv, UNCHANGED indexVars, UNCHANGED store, abandoned' = abandoned,
         initialized' = initialized, OwnTypes'
  PROVE  StoreInv'
<1>1. OneSpellingOpen'
  BY DEF StoreInv, OneSpellingOpen, Open, FileOfSpelling, IndexProofs!FileOf
<1>2. OpenTextIsIndexed'
  BY LookupsStay DEF StoreInv, OpenTextIsIndexed, Open
<1>3. OverlaysAreOpen'
  BY DEF StoreInv, OverlaysAreOpen, Open, indexVars, Index!FileOf
<1> QED BY <1>1, <1>2, <1>3 DEF StoreInv

LEMMA LoadKeepsStore ==
  ASSUME StoreInv, NEW scan \in Scans, Initialize(scan), OwnTypes'
  PROVE  StoreInv'
<1>1. /\ \A s \in Spelling : ~Open(s) /\ ~Open(s)'
      /\ overlays' = overlays /\ abandoned' = abandoned /\ initialized' = TRUE
  BY DEF Initialize, Index!Load, StoreInv, OneSpellingOpen, Open, client
<1>2. OneSpellingOpen' /\ OpenTextIsIndexed'
  BY <1>1 DEF OneSpellingOpen, OpenTextIsIndexed
<1>3. OverlaysAreOpen'
  BY <1>1 DEF StoreInv, OverlaysAreOpen, Index!FileOf
<1> QED BY <1>2, <1>3 DEF StoreInv

(* No other open document is of the file that is opened or changed. *)
LEMMA SubmitIsAlone ==
  ASSUME StoreInv, NEW s \in Spelling, NEW t \in Text, DidOpen(s, t) \/ DidChange(s, t)
  PROVE  /\ Submit(s, t) /\ initialized
         /\ \A o \in Spelling \ {s} : Open(o) => FileOfSpelling(o) # FileOfSpelling(s)
BY SameFiles DEF DidOpen, DidChange, Ready, StoreInv, OneSpellingOpen, FileOfSpelling

LEMMA SubmitKeepsStore ==
  ASSUME StoreInv, OneFileOnce, OneFileOnce', NEW s \in Spelling, NEW t \in Text,
         DidOpen(s, t) \/ DidChange(s, t), OwnTypes'
  PROVE  StoreInv'
<1> DEFINE k == [text |-> t, analysed |-> t \notin Unparsable]
<1>1. /\ Submit(s, t) /\ initialized /\ initialized' = initialized
      /\ \A o \in Spelling \ {s} : Open(o) => FileOfSpelling(o) # FileOfSpelling(s)
  BY SubmitIsAlone DEF Submit, flags
<1>2. /\ store' = [store EXCEPT ![s] = k] /\ abandoned' = abandoned \ {s}
      /\ k.text = t /\ k.analysed = (t \notin Unparsable) /\ t # NoText
  BY <1>1, TextAssumption DEF Submit
<1> HIDE DEF k
<1>3. /\ store'[s] = k /\ Open(s)'
      /\ \A o \in Spelling \ {s} : store'[o] = store[o] /\ Open(o)' = Open(o)
  BY <1>2 DEF StoreInv, OwnTypes, Open
<1>4. \A o \in Spelling : FileOfSpelling(o)' = FileOfSpelling(o)
  BY DEF FileOfSpelling, IndexProofs!FileOf
<1>5. OneSpellingOpen'
  BY <1>1, <1>3, <1>4 DEF StoreInv, OneSpellingOpen
<1>6. CASE t \in Unparsable
  <2>1. UNCHANGED indexVars
    BY <1>1, <1>6 DEF Submit
  <2>2. OpenTextIsIndexed'
    BY <1>2, <1>3, <1>6, <2>1, LookupsStay DEF StoreInv, OpenTextIsIndexed
  <2>3. OverlaysAreOpen'
    BY <1>2, <1>3, <2>1 DEF StoreInv, OverlaysAreOpen, indexVars, Index!FileOf
  <2> QED BY <1>5, <2>2, <2>3 DEF StoreInv
<1>7. CASE t \notin Unparsable
  <2>1. IndexProofs!Overlay(s, t)
    BY <1>1, <1>7, SameIndex DEF Submit
  <2>2. /\ \A o \in Spelling : IndexProofs!DocumentSnapshot(o)' =
              IF FileOfSpelling(o) = FileOfSpelling(s) THEN t
              ELSE IndexProofs!DocumentSnapshot(o)
        /\ \A u \in IndexProofs!Held(overlays') :
              u \in IndexProofs!Held(overlays) \/ IndexProofs!FileOf(u) = FileOfSpelling(s)
    BY <2>1, IndexAssumptions, IndexProofs!OverlayEffect DEF OneFileOnce, FileOfSpelling
  <2>3. OpenTextIsIndexed'
    BY <1>1, <1>2, <1>3, <2>2, SameFiles DEF StoreInv, OpenTextIsIndexed
  <2>4. ASSUME NEW u \in Uri, overlays'[u] # NoText
        PROVE  \E o \in Spelling : /\ Open(o)' \/ o \in abandoned'
                                   /\ Index!FileOf(Identity[o]) = Index!FileOf(u)
    <3>1. overlays[u] # NoText \/ Index!FileOf(u) = Index!FileOf(Identity[s])
      BY <2>2, <2>4, SameFiles DEF IndexProofs!Held, FileOfSpelling
    <3> QED BY <1>2, <1>3, <3>1 DEF StoreInv, OverlaysAreOpen
  <2>5. OverlaysAreOpen'
    BY <2>4 DEF OverlaysAreOpen, Index!FileOf
  <2> QED BY <1>5, <2>3, <2>5 DEF StoreInv
<1> QED BY <1>6, <1>7

LEMMA CloseKeepsStore ==
  ASSUME StoreInv, OneFileOnce, OneFileOnce', NEW s \in Spelling,
         NEW file \in Text \cup {NoText}, DidClose(s, file), OwnTypes'
  PROVE  StoreInv'
<1>1. /\ store' = [store EXCEPT ![s] = Closed] /\ abandoned' = abandoned
      /\ initialized' = initialized /\ Open(s) /\ initialized
      /\ IndexProofs!RemoveOverlay(s, file)
  BY SameIndex DEF DidClose, Ready, flags
<1>2. /\ ~Open(s)'
      /\ \A o \in Spelling \ {s} : store'[o] = store[o] /\ Open(o)' = Open(o)
  BY <1>1 DEF StoreInv, OwnTypes, Open, Closed
<1>3. \A o \in Spelling : FileOfSpelling(o)' = FileOfSpelling(o)
  BY DEF FileOfSpelling, IndexProofs!FileOf
<1>4. /\ \A o \in Spelling : FileOfSpelling(o) # FileOfSpelling(s) =>
            IndexProofs!DocumentSnapshot(o)' = IndexProofs!DocumentSnapshot(o)
      /\ \A u \in IndexProofs!Held(overlays') :
            /\ u \in IndexProofs!Held(overlays)
            /\ IndexProofs!FileOf(u) # FileOfSpelling(s)
  BY <1>1, IndexAssumptions, IndexProofs!RemoveOverlayEffect DEF OneFileOnce, FileOfSpelling
<1>5. OneSpellingOpen'
  BY <1>1, <1>2, <1>3 DEF StoreInv, OneSpellingOpen
<1>6. OpenTextIsIndexed'
  BY <1>1, <1>2, <1>4, SameFiles DEF StoreInv, OpenTextIsIndexed, OneSpellingOpen
<1>7. ASSUME NEW u \in Uri, overlays'[u] # NoText
      PROVE  \E o \in Spelling : /\ Open(o)' \/ o \in abandoned'
                                 /\ Index!FileOf(Identity[o]) = Index!FileOf(u)
  <2>1. overlays[u] # NoText /\ Index!FileOf(u) # Index!FileOf(Identity[s])
    BY <1>4, <1>7, SameFiles DEF IndexProofs!Held, FileOfSpelling
  <2> QED BY <1>1, <1>2, <2>1 DEF StoreInv, OverlaysAreOpen
<1>8. OverlaysAreOpen'
  BY <1>7 DEF OverlaysAreOpen, Index!FileOf
<1> QED BY <1>5, <1>6, <1>8 DEF StoreInv

LEMMA FailedCloseKeepsStore ==
  ASSUME StoreInv, NEW s \in Spelling, DidCloseFails(s), OwnTypes'
  PROVE  StoreInv'
<1>1. /\ store' = [store EXCEPT ![s] = Closed] /\ abandoned' = abandoned \cup {s}
      /\ initialized' = initialized /\ UNCHANGED indexVars
  BY DEF DidCloseFails, Index!RemoveOverlayFails, Index!vars, indexVars, flags
<1>2. /\ ~Open(s)'
      /\ \A o \in Spelling \ {s} : store'[o] = store[o] /\ Open(o)' = Open(o)
  BY <1>1 DEF StoreInv, OwnTypes, Open, Closed
<1>3. OneSpellingOpen'
  BY <1>1, <1>2 DEF StoreInv, OneSpellingOpen, FileOfSpelling, IndexProofs!FileOf
<1>4. OpenTextIsIndexed'
  BY <1>1, <1>2, LookupsStay DEF StoreInv, OpenTextIsIndexed
<1>5. OverlaysAreOpen'
  BY <1>1, <1>2 DEF StoreInv, OverlaysAreOpen, indexVars, Index!FileOf
<1> QED BY <1>3, <1>4, <1>5 DEF StoreInv

LEMMA StepStore ==
  ASSUME StoreInv, OneFileOnce, OneFileOnce', DocsHaveType, [Next]_vars
  PROVE  StoreInv'
<1>0. OwnTypes'
  BY StepOwnTypes DEF StoreInv
<1>1. ASSUME NEW scan \in Scans, Initialize(scan) PROVE StoreInv'
  BY <1>0, <1>1, LoadKeepsStore
<1>2. ASSUME NEW s \in Spelling, NEW t \in Text, DidOpen(s, t) \/ DidChange(s, t)
      PROVE  StoreInv'
  BY <1>0, <1>2, SubmitKeepsStore
<1>3. ASSUME NEW s \in Spelling, NEW file \in Text \cup {NoText}, DidClose(s, file)
      PROVE  StoreInv'
  BY <1>0, <1>3, CloseKeepsStore
<1>4. ASSUME NEW s \in Spelling, DidCloseFails(s) PROVE StoreInv'
  BY <1>0, <1>4, FailedCloseKeepsStore
<1>5. ASSUME NEW s \in Spelling, Publish(s) PROVE StoreInv'
  <2>1. /\ UNCHANGED indexVars /\ UNCHANGED store /\ abandoned' = abandoned
        /\ initialized' = initialized
    BY <1>5 DEF Publish, flags
  <2> QED BY <1>0, <2>1, QuietStore
<1>6. ASSUME Control, UNCHANGED indexVars, initialized' = initialized
      PROVE  StoreInv'
  <2>1. UNCHANGED store /\ abandoned' = abandoned
    BY <1>6 DEF Control, client
  <2> QED BY <1>0, <1>6, <2>1, QuietStore
<1> QED BY <1>1, <1>2, <1>3, <1>4, <1>5, <1>6, ControlSteps DEF Next, MainStep

LEMMA InitStore == Init => StoreInv
<1> SUFFICES ASSUME Init PROVE StoreInv
  OBVIOUS
<1>1. \A s \in Spelling : ~Open(s)
  BY DEF Init, Open, Closed
<1>2. \A u \in Uri : overlays[u] = NoText
  BY DEF Init, Index!Init, Index!NoDocuments
<1> QED BY <1>1, <1>2, InitOwnTypes
        DEF StoreInv, OneSpellingOpen, OpenTextIsIndexed, OverlaysAreOpen

LEMMA StoreInvariant ==
  ASSUME Index!NoCaseCollisions
  PROVE  Spec => [](StoreInv /\ OneFileOnce)
<1>1. IndexProofs!NoCaseCollisions
  BY DEF Index!NoCaseCollisions, IndexProofs!NoCaseCollisions, Index!Held, IndexProofs!Held
<1>2. Spec => []OneFileOnce
  BY <1>1, ServerUsesIndex, IndexAssumptions, IndexProofs!OneDocumentInvariant, PTL
     DEF OneFileOnce
<1>3. StoreInv /\ OneFileOnce /\ OneFileOnce' /\ DocsHaveType /\ [Next]_vars => StoreInv'
  BY StepStore
<1> QED BY <1>2, <1>3, InitStore, DocsType, ServerUsesIndex, PTL DEF Spec

(* The index serves the editor's text of every open document, whatever its  *)
(* URI is spelled like, and holds on to no other, except one whose closing  *)
(* failed; unless two files differ in the case of their names only.         *)
THEOREM StoreAndIndexAgree ==
  ASSUME Index!NoCaseCollisions
  PROVE  Spec => []IndexFollowsStore
<1>1. TypeOK /\ StoreInv => IndexFollowsStore
  BY DEF StoreInv, IndexFollowsStore
<1> QED BY <1>1, StoreInvariant, ServerTypes, PTL
-----------------------------------------------------------------------------
(* What the client sees.  Between two messages nothing is waiting; during   *)
(* the walk, a document either waits or has been diagnosed anew.            *)

Diagnosed(s) == shown[s] = [syntax |-> store[s].text, semantics |-> Docs]
ShownInv ==
  \A s \in Spelling : Open(s) /\ store[s].analysed => s \in todo \/ Diagnosed(s)

LEMMA AllWaiting ==
  ASSUME NEW str, store' = str, PublishOpen(str)
  PROVE  ShownInv'
BY DEF ShownInv, PublishOpen, Open

LEMMA QuietScreen ==
  ASSUME ShownInv, UNCHANGED indexVars, UNCHANGED <<store, todo, shown>>
  PROVE  ShownInv'
BY LookupsStay DEF ShownInv, Diagnosed, Open

(* An analysed document has a text in the index, so publishing skips none.  *)
LEMMA PublishShows ==
  ASSUME StoreInv, ShownInv, NEW s \in Spelling, Publish(s)
  PROVE  ShownInv'
<1>1. /\ store' = store /\ todo' = todo \ {s} /\ Docs' = Docs
      /\ \A o \in Spelling \ {s} : shown'[o] = shown[o]
  BY LookupsStay DEF Publish, StoreInv, OwnTypes
<1>2. ASSUME Open(s), store[s].analysed PROVE shown'[s] = [syntax |-> store[s].text, semantics |-> Docs]
  <2>1. Docs[s] # NoText
    BY <1>2 DEF StoreInv, OpenTextIsIndexed, Open
  <2> QED BY <1>2, <2>1 DEF Publish, StoreInv, OwnTypes
<1> QED BY <1>1, <1>2 DEF ShownInv, Diagnosed, Open

LEMMA StepShown ==
  ASSUME StoreInv, ShownInv, [Next]_vars
  PROVE  ShownInv'
<1>1. ASSUME NEW scan \in Scans, Initialize(scan) PROVE ShownInv'
  BY <1>1 DEF Initialize, ShownInv, StoreInv, OneSpellingOpen, Open
<1>2. ASSUME NEW s \in Spelling, NEW t \in Text, Submit(s, t) PROVE ShownInv'
  <2>1. CASE t \in Unparsable
    <3>1. /\ store' = [store EXCEPT ![s] = [text |-> t, analysed |-> FALSE]]
          /\ UNCHANGED indexVars /\ UNCHANGED <<todo, shown>>
      BY <1>2, <2>1 DEF Submit
    <3>2. ~store'[s].analysed /\ \A o \in Spelling \ {s} : store'[o] = store[o]
      BY <3>1 DEF StoreInv, OwnTypes
    <3> QED BY <3>1, <3>2, LookupsStay DEF ShownInv, Diagnosed, Open
  <2>2. CASE t \notin Unparsable
    BY <1>2, <2>2, AllWaiting DEF Submit
  <2> QED BY <2>1, <2>2
<1>3. ASSUME NEW s \in Spelling, NEW file \in Text \cup {NoText}, DidClose(s, file)
      PROVE  ShownInv'
  BY <1>3, AllWaiting DEF DidClose
<1>4. ASSUME NEW s \in Spelling, DidCloseFails(s) PROVE ShownInv'
  <2>1. /\ store' = [store EXCEPT ![s] = Closed] /\ UNCHANGED <<todo, shown>>
        /\ UNCHANGED indexVars
    BY <1>4 DEF DidCloseFails, Index!RemoveOverlayFails, Index!vars, indexVars
  <2>2. store'[s].text = NoText /\ \A o \in Spelling \ {s} : store'[o] = store[o]
    BY <2>1 DEF StoreInv, OwnTypes, Closed
  <2> QED BY <2>1, <2>2, LookupsStay DEF ShownInv, Diagnosed, Open
<1>5. ASSUME NEW s \in Spelling, Publish(s) PROVE ShownInv'
  BY <1>5, PublishShows
<1>6. ASSUME Control, UNCHANGED indexVars PROVE ShownInv'
  BY <1>6, QuietScreen DEF Control, client
<1> QED BY <1>1, <1>2, <1>3, <1>4, <1>5, <1>6, ControlSteps
        DEF Next, DidOpen, DidChange, MainStep

(* When the server takes the next message, every open document shows the    *)
(* diagnostics of its present text against the present workspace: a change  *)
(* to one document has reached all the others.                              *)
THEOREM DiagnosticsAreCurrent ==
  ASSUME Index!NoCaseCollisions
  PROVE  Spec => []ShownDiagnosticsAreCurrent
<1>1. Init => ShownInv
  <2> SUFFICES ASSUME Init PROVE ShownInv
    OBVIOUS
  <2>1. \A s \in Spelling : ~Open(s)
    BY DEF Init, Open, Closed
  <2> QED BY <2>1 DEF ShownInv
<1>2. StoreInv /\ ShownInv /\ [Next]_vars => ShownInv'
  BY StepShown
<1>3. OwnTypes /\ ShownInv => ShownDiagnosticsAreCurrent
  BY DEF OwnTypes, ShownInv, Diagnosed, ShownDiagnosticsAreCurrent
<1> QED BY <1>1, <1>2, <1>3, StoreInvariant, OwnTypesHold, PTL DEF Spec
-----------------------------------------------------------------------------
(* The end of the server. *)

(* A goroutine that runs after a step of the server ran before it, unless   *)
(* the step started it; nobody's cancellation is taken back.                *)
LEMMA NobodyStarts ==
  ASSUME HandlerProofs!TypeOK, NEW c \in Call, Handle(c), NEW d \in Call
  PROVE  /\ Running(d)' => Running(d)
         /\ cancelled \subseteq cancelled'
<1>1. HandlerProofs!Handle(c)
  BY SameHandlers DEF Handle
<1>2. /\ \A e \in Call \ {c} : call'[e] = call[e]
      /\ HandlerProofs!Running(c)
      /\ cancelled' = cancelled \/ cancelled' = cancelled \cup {c}
  BY <1>1, HandlerAssumptions, HandlerProofs!HandleEffect
<1> QED BY <1>2, SameHandlers
        DEF Running, Handlers!Running, HandlerProofs!Running

LEMMA ShutdownTellsAll ==
  ASSUME HandlerProofs!TypeOK, HandlerProofs!RunningAreRegistered, Shutdown,
         NEW d \in Call, Running(d)'
  PROVE  d \in cancelled'
<1>1. Handlers!CancelAll
  BY DEF Shutdown
<1>2. Running(d) /\ asked[d] \in HandlerProofs!Request
  BY <1>1 DEF Handlers!CancelAll, Running, Handlers!Running, HandlerProofs!TypeOK
<1>3. asked[d].id \in Id /\ requests[asked[d].id] = d
  BY <1>2, SameHandlers DEF HandlerProofs!Request, HandlerProofs!RunningAreRegistered, Running
<1>4. d # NoCall
  BY CallAssumption
<1> QED BY <1>1, <1>3, <1>4 DEF Handlers!CancelAll

LEMMA StepOrder ==
  ASSUME HandlerProofs!TypeOK, HandlerProofs!RunningAreRegistered, OrderlyShutdown, [Next]_vars
  PROVE  OrderlyShutdown'
<1> USE DEF OrderlyShutdown, flags
<1> DEFINE Same == UNCHANGED handlerVars
<1>0. ASSUME Same, NEW d \in Call PROVE Running(d)' = Running(d) /\ cancelled' = cancelled
  BY <1>0 DEF handlerVars, Running, Handlers!Running
<1>1. ASSUME Same, shutdown' = shutdown, main' # "drain" \/ main' = main
      PROVE  OrderlyShutdown'
  BY <1>0, <1>1 DEF AllDone
<1>2. ASSUME \/ \E scan \in Scans : Initialize(scan)
             \/ \E s \in Spelling : DidCloseFails(s) \/ Publish(s)
             \/ \E s \in Spelling, t \in Text : Submit(s, t)
             \/ \E s \in Spelling, file \in Text \cup {NoText} : DidClose(s, file)
             \/ Published \/ Exit \/ EndOfInput \/ ReadError \/ Wait \/ UNCHANGED vars
      PROVE  Same /\ shutdown' = shutdown /\ (main' # "drain" \/ main' = main)
  <2>1. CASE \E scan \in Scans : Initialize(scan)
    BY <2>1 DEF Initialize
  <2>2. CASE \E s \in Spelling : DidCloseFails(s) \/ Publish(s)
    BY <2>2 DEF DidCloseFails, Publish
  <2>3. CASE \E s \in Spelling, t \in Text : Submit(s, t)
    BY <2>3 DEF Submit, PublishOpen
  <2>4. CASE \E s \in Spelling, file \in Text \cup {NoText} : DidClose(s, file)
    BY <2>4 DEF DidClose, PublishOpen
  <2>5. CASE Published \/ Exit \/ EndOfInput \/ ReadError \/ Wait \/ UNCHANGED vars
    BY <2>5 DEF Published, Exit, EndOfInput, ReadError, StopWith, Wait, vars
  <2> QED BY <1>2, <2>1, <2>2, <2>3, <2>4, <2>5
<1>3. ASSUME NEW c \in Call, Handle(c) PROVE OrderlyShutdown'
  <2>1. shutdown' = shutdown /\ main' = main
    BY <1>3 DEF Handle
  <2> QED BY <1>3, <2>1, NobodyStarts DEF AllDone
<1>4. ASSUME NEW c \in Call, NEW r \in Handlers!Request, StartRequest(c, r)
      PROVE  OrderlyShutdown'
  BY <1>4 DEF StartRequest, Ready
<1>5. ASSUME NEW i \in Id, CancelRequest(i) PROVE OrderlyShutdown'
  BY <1>5 DEF CancelRequest, Handlers!CancelRequest, AllDone, Running, Handlers!Running
<1>6. CASE Shutdown
  BY <1>6, ShutdownTellsAll DEF Shutdown, Ready
<1>7. CASE Drained
  BY <1>7, <1>0 DEF Drained, AllDone
<1> QED BY <1>1, <1>2, <1>3, <1>4, <1>5, <1>6, <1>7
        DEF Next, DidOpen, DidChange, MainStep, Stopped

(* Shutdown waits for nobody it has not told to stop, and nothing runs once *)
(* it is answered; as long as clients do not reuse request ids.             *)
THEOREM ShutdownIsOrderly ==
  ASSUME ReuseIds = FALSE
  PROVE  Spec => []OrderlyShutdown
<1>1. Init => OrderlyShutdown
  BY DEF Init, OrderlyShutdown
<1>2. HandlerProofs!TypeOK /\ HandlerProofs!RunningAreRegistered /\ OrderlyShutdown /\ [Next]_vars
        => OrderlyShutdown'
  BY StepOrder
<1> QED BY <1>1, <1>2, ServerRunsHandlers, HandlerAssumptions, HandlerProofs!TypeCorrect,
           HandlerProofs!RunningCallsCanBeCancelled, PTL DEF Spec
=============================================================================
