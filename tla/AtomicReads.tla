---------------------------- MODULE AtomicReads ----------------------------
(***************************************************************************)
(* What a client may rely on when it asks the server a question while the  *)
(* documents keep changing: the answer is what ONE state of the workspace, *)
(* reached after the question was asked, says; or it is the fallback, and  *)
(* then the workspace changed at least Attempts times in the meantime; or  *)
(* it is "cancelled", and then the call was cancelled.                     *)
(*                                                                         *)
(* There is no lock, snapshot, revision check or retry here: Serve reads   *)
(* the whole workspace in one step.  RequestHandlers implements this.      *)
(***************************************************************************)
EXTENDS Integers

CONSTANTS
  Call,       (* the calls a client may make                              *)
  Uri,        (* document URIs                                            *)
  Text,       (* document contents                                        *)
  NoText,     (* "no such document"                                       *)
  Request,    (* what a call asks: a record with fields uri and pos       *)
  NoRequest,
  At,         (* At[p]: the texts in which position p exists              *)
  Attempts    (* changes it takes before the server may give up           *)

VARIABLES
  docs,       (* the text of each document, NoText where there is none    *)
  revision,   (* counts the changes of docs                               *)
  asked,      (* the request of each call                                 *)
  since,      (* the revision at which the call was made                  *)
  cancelled,  (* the calls the client has cancelled                       *)
  stage,      (* "new", "open", "decided" or "sent"                       *)
  answer      (* the answer of a decided call                             *)

vars == <<docs, revision, asked, since, cancelled, stage, answer>>

View == [Uri -> Text \cup {NoText}]
NoView == [u \in Uri |-> NoText]
NoAnswer == [kind |-> "none", view |-> NoView]

Init ==
  /\ docs \in View
  /\ revision \in Nat
  /\ asked = [c \in Call |-> NoRequest]
  /\ since = [c \in Call |-> 0]
  /\ cancelled = {}
  /\ stage = [c \in Call |-> "new"]
  /\ answer = [c \in Call |-> NoAnswer]

(* A document is opened, edited, closed or read from disk again. *)
Write ==
  /\ docs' \in View
  /\ revision' = revision + 1
  /\ UNCHANGED <<asked, since, cancelled, stage, answer>>

Ask(c) ==
  /\ stage[c] = "new"
  /\ \E r \in Request : asked' = [asked EXCEPT ![c] = r]
  /\ since' = [since EXCEPT ![c] = revision]
  /\ stage' = [stage EXCEPT ![c] = "open"]
  /\ UNCHANGED <<docs, revision, cancelled, answer>>

Cancel ==
  /\ cancelled' \in SUBSET Call
  /\ cancelled \subseteq cancelled'
  /\ UNCHANGED <<docs, revision, asked, since, stage, answer>>

Decide(c, a) ==
  /\ stage' = [stage EXCEPT ![c] = "decided"]
  /\ answer' = [answer EXCEPT ![c] = a]
  /\ UNCHANGED <<docs, revision, asked, since, cancelled>>

Serve(c) ==
  /\ stage[c] = "open"
  /\ Decide(c, [kind |-> IF docs[asked[c].uri] \in At[asked[c].pos]
                           THEN "result" ELSE "empty",
                view |-> docs])

GiveUp(c) ==
  /\ stage[c] = "open"
  /\ revision >= since[c] + Attempts
  /\ Decide(c, [kind |-> "exhausted", view |-> NoView])

(* A call that is cancelled may be answered so until its answer is sent. *)
Abort(c) ==
  /\ stage[c] \in {"open", "decided"}
  /\ c \in cancelled
  /\ Decide(c, [kind |-> "cancelled", view |-> NoView])

Send(c) ==
  /\ stage[c] = "decided"
  /\ stage' = [stage EXCEPT ![c] = "sent"]
  /\ UNCHANGED <<docs, revision, asked, since, cancelled, answer>>

Next ==
  \/ Write
  \/ Cancel
  \/ \E c \in Call : Ask(c) \/ Serve(c) \/ GiveUp(c) \/ Abort(c) \/ Send(c)

Spec == Init /\ [][Next]_vars
=============================================================================
