-------------------------- MODULE RequestHandlers --------------------------
(***************************************************************************)
(* The concurrent requests of the server: textDocument/references, hover   *)
(* and completion each run in a goroutine (server.go, startRequest) and    *)
(* read the workspace index (index.go) optimistically.  A handler reads    *)
(* the document and the index revision under one lock, turns the position  *)
(* into an offset of THAT text, and later asks the index a question about  *)
(* the offset "at that revision".  If the revision has moved on, it starts *)
(* over, at most Attempts times.                                           *)
(*                                                                         *)
(* docs[u] is what the index finds for URI u (NoText: nothing).  A query   *)
(* is a deterministic function of the documents it is asked about, so its  *)
(* result is represented by the documents it was computed from ("view").   *)
(* The history field since is the revision at which the call was started.  *)
(***************************************************************************)
EXTENDS Integers

CONSTANTS
  Call, NoCall,        (* the goroutines, one per concurrent request      *)
  Id,                  (* JSON-RPC request ids                            *)
  Uri, Text, NoText,
  Position,
  At,                  (* At[p]: the texts in which position p exists     *)
  NoRequest,
  ReuseIds,            (* may a client reuse the id of an answered call?  *)
  MaxRevision          (* bound: index changes the model explores         *)

ASSUME NoCallAssumption == NoCall \notin Call
ASSUME TextAssumption == NoText \notin Text /\ At \in [Position -> SUBSET Text]
ASSUME BoundAssumption == MaxRevision \in Nat /\ ReuseIds \in BOOLEAN

VARIABLES
  docs,       (* [Uri -> Text \cup {NoText}]                              *)
  revision,   (* Index.revision                                           *)
  requests,   (* Server.requests: the call a request id cancels           *)
  cancelled,  (* calls whose context is cancelled                         *)
  asked,      (* the request each call serves                             *)
  call        (* program counter and local variables of each goroutine    *)

vars == <<docs, revision, requests, cancelled, asked, call>>

Method == {"references", "hover", "completion"}
Request == [id : Id, method : Method, uri : Uri, pos : Position]
View == [Uri -> Text \cup {NoText}]
NoView == [u \in Uri |-> NoText]
Answer == [kind : {"none", "result", "empty", "exhausted", "cancelled"},
           view : View]
NoAnswer == [kind |-> "none", view |-> NoView]

OneAttempt == 1   \* Mutant
Attempts == 3

(* The locals of a goroutine that is about to execute pc. *)
Locals(pc, since) ==
  [pc |-> pc, attempt |-> 0, rev |-> 0, text |-> NoText, snap |-> NoView,
   answer |-> NoAnswer, since |-> since]

Running(c) == call[c].pc \notin {"new", "done"}
Answered(c) == call[c].pc \in {"cleanup", "done"}

Init ==
  /\ docs \in View
  /\ revision = 0
  /\ requests = [i \in Id |-> NoCall]
  /\ cancelled = {}
  /\ asked = [c \in Call |-> NoRequest]
  /\ call = [c \in Call |-> Locals("new", 0)]
-----------------------------------------------------------------------------
(* An id is free while no other call uses it, or uses it unanswered. *)
MayUseId(c, i) ==
  \A d \in Call \ {c} :
    (call[d].pc # "new" /\ asked[d].id = i) => ReuseIds /\ Answered(d)

UnregisteredDispatch(c, r) ==   \* Mutant
  /\ call[c].pc = "new"
  /\ MayUseId(c, r.id)
  /\ asked' = [asked EXCEPT ![c] = r]
  /\ call' = [call EXCEPT ![c] = Locals("check", revision)]
  /\ UNCHANGED <<docs, revision, cancelled, requests>>

Dispatch(c, r) ==
  /\ call[c].pc = "new"
  /\ MayUseId(c, r.id)
  /\ requests' = [requests EXCEPT ![r.id] = c]
  /\ asked' = [asked EXCEPT ![c] = r]
  /\ call' = [call EXCEPT ![c] = Locals("check", revision)]
  /\ UNCHANGED <<docs, revision, cancelled>>

Goto(c, pc) == call' = [call EXCEPT ![c].pc = pc]

Decide(c, kind, view) ==
  call' = [call EXCEPT ![c] =
            [Locals("reply", @.since) EXCEPT
               !.answer = [kind |-> kind, view |-> view]]]

DecideCancelled(c) ==
  /\ c \in cancelled
  /\ Decide(c, "cancelled", NoView)

RetrySameRevision(c) ==   \* Mutant
  UNCHANGED call

(* The revision moved on: next attempt, or the fallback answer. *)
Retry(c) ==
  IF call[c].attempt + 1 < Attempts
  THEN call' = [call EXCEPT ![c] =
                 [Locals("check", @.since) EXCEPT !.attempt = call[c].attempt + 1]]
  ELSE Decide(c, "exhausted", NoView)

(* ctx.Err() at the head of the loop. *)
Check(c) ==
  /\ call[c].pc = "check"
  /\ \/ DecideCancelled(c)
     \/ c \notin cancelled /\ Goto(c, "lookup")
  /\ UNCHANGED <<docs, revision, requests, cancelled, asked>>

(* DocumentSnapshot and ByteOffsetAt: the text and the revision are read    *)
(* together; nothing there, or no such position, is an empty answer.        *)
Lookup(c) ==
  /\ call[c].pc = "lookup"
  /\ LET text == docs[asked[c].uri] IN
     \/ /\ text \in At[asked[c].pos]
        /\ call' = [call EXCEPT ![c] =
                     [@ EXCEPT !.pc = "query", !.rev = revision, !.text = text]]
     \/ /\ text \notin At[asked[c].pos]
        /\ Decide(c, "empty", docs)
  /\ UNCHANGED <<docs, revision, requests, cancelled, asked>>

(* The parser of CompletionContext gives up on a cancelled context. *)
CompletionContextCancelled(c) ==
  /\ call[c].pc = "query"
  /\ asked[c].method = "completion"
  /\ DecideCancelled(c)
  /\ UNCHANGED <<docs, revision, requests, cancelled, asked>>

(* Head of ReferencesAtRevision, HoverAtRevision, CompletionsAtRevision. *)
Snapshot(c) ==
  /\ call[c].pc = "query"
  /\ IF call[c].rev = revision
     THEN call' = [call EXCEPT ![c] = [@ EXCEPT !.pc = "compute", !.snap = docs]]
     ELSE Retry(c)
  /\ UNCHANGED <<docs, revision, requests, cancelled, asked>>

LiveCompute(c) ==   \* Mutant
  /\ call[c].pc = "compute"
  /\ \/ DecideCancelled(c)
     \/ /\ asked[c].method = "hover" => c \notin cancelled
        /\ IF asked[c].method = "references"
           THEN Decide(c, "result", docs)
           ELSE Goto(c, "recheck")
  /\ UNCHANGED <<docs, revision, requests, cancelled, asked>>

(* The query proper, over the copy it took.  Hover looks at its context     *)
(* once; the loops of the other two look whenever they make a step, so a    *)
(* cancellation may come too late for them.  Only references returns here   *)
(* without a second look at the revision.                                   *)
Compute(c) ==
  /\ call[c].pc = "compute"
  /\ \/ DecideCancelled(c)
     \/ /\ asked[c].method = "hover" => c \notin cancelled
        /\ IF asked[c].method = "references"
           THEN Decide(c, "result", call[c].snap)
           ELSE Goto(c, "recheck")
  /\ UNCHANGED <<docs, revision, requests, cancelled, asked>>

(* finishHover, and the end of CompletionsAtRevision. *)
Recheck(c) ==
  /\ call[c].pc = "recheck"
  /\ IF call[c].rev = revision
     THEN Decide(c, "result", call[c].snap)
     ELSE Retry(c)
  /\ UNCHANGED <<docs, revision, requests, cancelled, asked>>

Reply(c) ==
  /\ call[c].pc = "reply"
  /\ Goto(c, "cleanup")
  /\ UNCHANGED <<docs, revision, requests, cancelled, asked>>

(* The deferred functions: forget the id, cancel the context, WG.Done. *)
Cleanup(c) ==
  /\ call[c].pc = "cleanup"
  /\ requests' = [requests EXCEPT ![asked[c].id] = NoCall]
  /\ cancelled' = cancelled \cup {c}
  /\ Goto(c, "done")
  /\ UNCHANGED <<docs, revision, asked>>

Handle(c) ==
  \/ Check(c) \/ Lookup(c) \/ CompletionContextCancelled(c) \/ Snapshot(c)
  \/ Compute(c) \/ Recheck(c) \/ Reply(c) \/ Cleanup(c)
-----------------------------------------------------------------------------
(* $/cancelRequest; an id that is not registered changes nothing. *)
CancelRequest(i) ==
  /\ requests[i] # NoCall
  /\ cancelled' = cancelled \cup {requests[i]}
  /\ UNCHANGED <<docs, revision, requests, asked, call>>

CancelAll ==
  /\ cancelled' = cancelled \cup {requests[i] : i \in {j \in Id : requests[j] # NoCall}}
  /\ UNCHANGED <<docs, revision, requests, asked, call>>

SilentChange(view) ==   \* Mutant
  /\ revision < MaxRevision
  /\ docs' = view
  /\ UNCHANGED <<revision, requests, cancelled, asked, call>>

(* Load, Overlay or RemoveOverlay: the documents change under the write    *)
(* lock, and the revision with them.                                       *)
IndexChange(view) ==
  /\ revision < MaxRevision
  /\ docs' = view
  /\ revision' = revision + 1
  /\ UNCHANGED <<requests, cancelled, asked, call>>

Next ==
  \/ \E c \in Call : (\E r \in Request : Dispatch(c, r)) \/ Handle(c)
  \/ \E i \in Id : CancelRequest(i)
  \/ CancelAll
  \/ \E view \in View : IndexChange(view)

Spec == Init /\ [][Next]_vars
-----------------------------------------------------------------------------
ProgramCounter ==
  {"new", "check", "lookup", "query", "compute", "recheck", "reply", "cleanup",
   "done"}

CallState ==
  [pc : ProgramCounter, attempt : 0..(Attempts - 1), rev : Nat,
   text : Text \cup {NoText}, snap : View, answer : Answer, since : Nat]

TypeOK ==
  /\ docs \in View
  /\ revision \in Nat
  /\ requests \in [Id -> Call \cup {NoCall}]
  /\ cancelled \subseteq Call
  /\ asked \in [Call -> Request \cup {NoRequest}]
  /\ call \in [Call -> CallState]
  /\ \A c \in Call : call[c].pc # "new" => asked[c] \in Request

(* The offset of a query was computed in the very text the query runs on:   *)
(* a handler that has taken its copy of the index, and an answer it sends,  *)
(* find the document as DocumentSnapshot returned it.                       *)
OffsetBelongsToSnapshot ==
  \A c \in Call :
    /\ call[c].pc \in {"compute", "recheck"} =>
         call[c].snap[asked[c].uri] = call[c].text
    /\ call[c].answer.kind = "result" =>
         call[c].answer.view[asked[c].uri] \in At[asked[c].pos]

(* Equal revisions mean equal documents: a handler may take "the revision   *)
(* has not moved" for "what I read is still so".                            *)
RevisionVouchesForView ==
  \A c \in Call : call[c].rev = revision =>
    /\ call[c].pc = "query" => docs[asked[c].uri] = call[c].text
    /\ call[c].pc \in {"compute", "recheck"} => docs = call[c].snap

(* The bookkeeping those two rest on.  An attempt after the first was       *)
(* caused by a change of its own, and the text a handler works on has the   *)
(* position it was asked about.                                             *)
HandlerInv ==
  /\ OffsetBelongsToSnapshot
  /\ RevisionVouchesForView
  /\ \A c \in Call :
       /\ call[c].pc \in {"check", "lookup"} =>
            call[c].since + call[c].attempt <= revision
       /\ call[c].pc \in {"query", "compute", "recheck"} =>
            /\ call[c].since + call[c].attempt <= call[c].rev
            /\ call[c].rev <= revision
            /\ call[c].text \in At[asked[c].pos]
       /\ call[c].pc \notin {"reply", "cleanup", "done"} =>
            call[c].answer = NoAnswer

(* The empty or incomplete fallback is never given to a client that left    *)
(* the documents alone: it takes three changes since the call was started.  *)
ExhaustedOnlyAfterThreeChanges ==
  \A c \in Call : call[c].answer.kind = "exhausted" => revision >= call[c].since + 3

(* The registry of cancel functions leaks nothing: what is registered is    *)
(* still running, under the id it was sent with.                            *)
RegisteredAreRunning ==
  \A i \in Id : requests[i] # NoCall =>
    Running(requests[i]) /\ asked[requests[i]].id = i

(* Every running call can be cancelled by its id, and so by shutdown.  It   *)
(* holds as long as clients never reuse an id.                              *)
RunningAreRegistered ==
  \A c \in Call : Running(c) => requests[asked[c].id] = c
-----------------------------------------------------------------------------
(* What the client sees: references has made up its mind once it holds its  *)
(* snapshot (unless it is cancelled), the others at their last look at the  *)
(* revision.                                                                *)
HoldsAnswer(c) == call[c].pc = "compute" /\ asked[c].method = "references"

Stage(c) ==
  IF call[c].pc = "new" THEN "new"
  ELSE IF call[c].pc = "reply" \/ HoldsAnswer(c) THEN "decided"
  ELSE IF Answered(c) THEN "sent"
  ELSE "open"

AnswerOf(c) ==
  IF HoldsAnswer(c) THEN [kind |-> "result", view |-> call[c].snap]
  ELSE call[c].answer

Reads == INSTANCE AtomicReads WITH
  since <- [c \in Call |-> call[c].since],
  stage <- [c \in Call |-> Stage(c)],
  answer <- [c \in Call |-> AnswerOf(c)]

(* Snapshots, revision checks and retries amount to reading the whole       *)
(* workspace at one instant between the question and the answer.            *)
ReadsAreAtomic == Reads!Spec
=============================================================================
