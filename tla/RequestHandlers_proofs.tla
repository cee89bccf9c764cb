----------------------- MODULE RequestHandlers_proofs -----------------------
(***************************************************************************)
(* Proofs about RequestHandlers, for any calls, documents and bounds.      *)
(***************************************************************************)
EXTENDS RequestHandlers, TLAPS

LEMMA NoViewType == NoView \in View
BY DEF NoView, View

LEMMA LocalsType ==
  ASSUME NEW pc \in ProgramCounter, NEW since \in Nat
  PROVE  Locals(pc, since) \in CallState
BY DEF Locals, CallState, View, NoView, Answer, NoAnswer, Attempts
-----------------------------------------------------------------------------
(* What the three ways of leaving a program point do to the local state.    *)

LEMMA DecideEffect ==
  ASSUME TypeOK, NEW c \in Call, NEW view \in View,
         NEW kind \in {"result", "empty", "exhausted", "cancelled"},
         Decide(c, kind, view)
  PROVE  /\ call' \in [Call -> CallState]
         /\ \A d \in Call \ {c} : call'[d] = call[d]
         /\ call'[c].pc = "reply"
         /\ call'[c].since = call[c].since
         /\ call'[c].answer = [kind |-> kind, view |-> view]
<1> DEFINE k == [Locals("reply", call[c].since) EXCEPT
                   !.answer = [kind |-> kind, view |-> view]]
<1>1. call[c].since \in Nat
  BY DEF TypeOK, CallState
<1>2. Locals("reply", call[c].since) \in CallState
  BY <1>1, LocalsType DEF ProgramCounter
<1>3. [kind |-> kind, view |-> view] \in Answer
  BY DEF Answer
<1>4. k \in CallState
  BY <1>2, <1>3 DEF CallState
<1>5. k.pc = "reply" /\ k.since = call[c].since /\ k.answer = [kind |-> kind, view |-> view]
  BY <1>2 DEF Locals, CallState
<1>6. call' = [call EXCEPT ![c] = k]
  BY DEF Decide
<1> HIDE DEF k
<1> QED BY <1>4, <1>5, <1>6 DEF TypeOK

LEMMA GotoEffect ==
  ASSUME TypeOK, NEW c \in Call, NEW pc \in ProgramCounter, Goto(c, pc)
  PROVE  /\ call' \in [Call -> CallState]
         /\ \A d \in Call \ {c} : call'[d] = call[d]
         /\ call'[c] = [call[c] EXCEPT !.pc = pc]
         /\ call'[c].pc = pc
         /\ call'[c].since = call[c].since
         /\ call'[c].attempt = call[c].attempt
         /\ call'[c].rev = call[c].rev
         /\ call'[c].text = call[c].text
         /\ call'[c].snap = call[c].snap
         /\ call'[c].answer = call[c].answer
BY DEF Goto, TypeOK, CallState

LEMMA RetryEffect ==
  ASSUME TypeOK, NEW c \in Call, Retry(c)
  PROVE  /\ call' \in [Call -> CallState]
         /\ \A d \in Call \ {c} : call'[d] = call[d]
         /\ call'[c].since = call[c].since
         /\ \/ /\ call'[c].pc = "check"
               /\ call'[c].attempt = call[c].attempt + 1
               /\ call'[c].answer = NoAnswer
            \/ /\ call[c].attempt = 2
               /\ call'[c].pc = "reply"
               /\ call'[c].answer = [kind |-> "exhausted", view |-> NoView]
<1>1. CASE call[c].attempt + 1 < Attempts
  <2> DEFINE k == [Locals("check", call[c].since) EXCEPT !.attempt = call[c].attempt + 1]
  <2>1. Locals("check", call[c].since) \in CallState
    BY LocalsType DEF TypeOK, CallState, ProgramCounter
  <2>2. call[c].attempt + 1 \in 0..(Attempts - 1)
    BY <1>1 DEF TypeOK, CallState, Attempts
  <2>3. k \in CallState
    BY <2>1, <2>2 DEF CallState
  <2>4. /\ k.pc = "check" /\ k.since = call[c].since
        /\ k.attempt = call[c].attempt + 1 /\ k.answer = NoAnswer
    BY <2>1 DEF Locals, CallState
  <2>5. call' = [call EXCEPT ![c] = k]
    BY <1>1 DEF Retry
  <2> HIDE DEF k
  <2> QED BY <2>3, <2>4, <2>5 DEF TypeOK
<1>2. CASE ~(call[c].attempt + 1 < Attempts)
  <2>1. call[c].attempt = 2
    BY <1>2 DEF TypeOK, CallState, Attempts
  <2>2. Decide(c, "exhausted", NoView)
    BY <1>2 DEF Retry
  <2> QED BY <2>1, <2>2, DecideEffect, NoViewType
<1> QED BY <1>1, <1>2
-----------------------------------------------------------------------------
(* Type correctness. *)

LEMMA InitType == Init => TypeOK
BY LocalsType DEF Init, TypeOK, ProgramCounter, View, Locals

(* A handler's step writes its own locals, and the registry when it ends. *)
LEMMA HandleEffect ==
  ASSUME TypeOK, NEW c \in Call, Handle(c)
  PROVE  /\ call' \in [Call -> CallState]
         /\ \A d \in Call \ {c} : call'[d] = call[d]
         /\ Running(c) /\ call'[c].pc # "new"
         /\ call'[c].since = call[c].since
         /\ UNCHANGED <<docs, revision, asked>>
         /\ \/ UNCHANGED <<requests, cancelled>> /\ call'[c].pc # "done"
            \/ /\ call[c].pc = "cleanup" /\ call'[c].pc = "done"
               /\ requests' = [requests EXCEPT ![asked[c].id] = NoCall]
               /\ cancelled' = cancelled \cup {c}
<1> USE DEF Running
<1>0. docs \in View /\ call[c] \in CallState /\ call[c].snap \in View
  BY DEF TypeOK, CallState
<1>1. CASE Check(c)
  <2>1. CASE Decide(c, "cancelled", NoView)
    BY <1>1, <2>1, DecideEffect, NoViewType DEF Check
  <2>2. CASE Goto(c, "lookup")
    BY <1>1, <2>2, GotoEffect DEF Check, ProgramCounter
  <2> QED BY <1>1, <2>1, <2>2 DEF Check, DecideCancelled
<1>2. CASE Lookup(c)
  <2>1. CASE docs[asked[c].uri] \in At[asked[c].pos]
    <3> DEFINE k == [call[c] EXCEPT !.pc = "query", !.rev = revision,
                                    !.text = docs[asked[c].uri]]
    <3>1. docs[asked[c].uri] \in Text \cup {NoText} /\ revision \in Nat
      BY <1>2, <2>1, TextAssumption DEF Lookup, TypeOK, View, Request, ProgramCounter
    <3>2. k \in CallState /\ k.pc = "query" /\ k.since = call[c].since
      BY <1>0, <3>1 DEF CallState, ProgramCounter
    <3>3. call' = [call EXCEPT ![c] = k]
      BY <1>2, <2>1 DEF Lookup, Decide
    <3> HIDE DEF k
    <3> QED BY <1>2, <3>2, <3>3 DEF Lookup, TypeOK
  <2>2. CASE Decide(c, "empty", docs)
    BY <1>0, <1>2, <2>2, DecideEffect DEF Lookup
  <2> QED BY <1>2, <2>1, <2>2 DEF Lookup
<1>3. CASE CompletionContextCancelled(c)
  BY <1>3, DecideEffect, NoViewType DEF CompletionContextCancelled, DecideCancelled
<1>4. CASE Snapshot(c)
  <2>1. CASE call[c].rev = revision
    <3> DEFINE k == [call[c] EXCEPT !.pc = "compute", !.snap = docs]
    <3>1. k \in CallState /\ k.pc = "compute" /\ k.since = call[c].since
      BY <1>0 DEF CallState, ProgramCounter
    <3>2. call' = [call EXCEPT ![c] = k]
      BY <1>4, <2>1 DEF Snapshot
    <3> HIDE DEF k
    <3> QED BY <1>4, <3>1, <3>2 DEF Snapshot, TypeOK
  <2>2. CASE Retry(c)
    BY <1>4, <2>2, RetryEffect DEF Snapshot
  <2> QED BY <1>4, <2>1, <2>2 DEF Snapshot
<1>5. CASE Compute(c)
  <2>1. CASE Decide(c, "cancelled", NoView)
    BY <1>5, <2>1, DecideEffect, NoViewType DEF Compute
  <2>2. CASE Decide(c, "result", call[c].snap)
    BY <1>5, <1>0, <2>2, DecideEffect DEF Compute
  <2>3. CASE Goto(c, "recheck")
    BY <1>5, <2>3, GotoEffect DEF Compute, ProgramCounter
  <2> QED BY <1>5, <2>1, <2>2, <2>3 DEF Compute, DecideCancelled
<1>6. CASE Recheck(c)
  BY <1>6, <1>0, DecideEffect, RetryEffect DEF Recheck
<1>7. CASE Reply(c)
  BY <1>7, GotoEffect DEF Reply, ProgramCounter
<1>8. CASE Cleanup(c)
  BY <1>8, GotoEffect DEF Cleanup, ProgramCounter
<1> QED BY <1>1, <1>2, <1>3, <1>4, <1>5, <1>6, <1>7, <1>8 DEF Handle

LEMMA DispatchType ==
  ASSUME TypeOK, NEW c \in Call, NEW r \in Request, Dispatch(c, r)
  PROVE  TypeOK'
<1>1. Locals("check", revision) \in CallState
  BY LocalsType DEF TypeOK, ProgramCounter
<1> QED BY <1>1 DEF Dispatch, TypeOK, Request

LEMMA StepType == TypeOK /\ [Next]_vars => TypeOK'
<1> SUFFICES ASSUME TypeOK, [Next]_vars PROVE TypeOK'
  OBVIOUS
<1>1. ASSUME NEW c \in Call, NEW r \in Request, Dispatch(c, r) PROVE TypeOK'
  BY <1>1, DispatchType
<1>2. ASSUME NEW c \in Call, Handle(c) PROVE TypeOK'
  BY <1>2, HandleEffect DEF TypeOK, Running
<1>3. ASSUME NEW i \in Id, CancelRequest(i) PROVE TypeOK'
  BY <1>3 DEF CancelRequest, TypeOK
<1>4. CASE CancelAll
  BY <1>4 DEF CancelAll, TypeOK
<1>5. ASSUME NEW view \in View, IndexChange(view) PROVE TypeOK'
  BY <1>5 DEF IndexChange, TypeOK
<1>6. CASE UNCHANGED vars
  BY <1>6 DEF vars, TypeOK
<1> QED BY <1>1, <1>2, <1>3, <1>4, <1>5, <1>6 DEF Next

(* Every reachable state is well-typed; in particular no handler makes more *)
(* than Attempts attempts.                                                  *)
THEOREM TypeCorrect == Spec => []TypeOK
BY InitType, StepType, PTL DEF Spec
-----------------------------------------------------------------------------
(* What is invariant about one call; HandlerInv and the bound on fallback   *)
(* answers say it of all calls.                                             *)
CallInv(c) ==
  /\ call[c].pc \in {"check", "lookup"} =>
       call[c].since + call[c].attempt <= revision
  /\ call[c].pc \in {"query", "compute", "recheck"} =>
       /\ call[c].since + call[c].attempt <= call[c].rev
       /\ call[c].rev <= revision
       /\ call[c].text \in At[asked[c].pos]
  /\ call[c].pc \in {"compute", "recheck"} =>
       call[c].snap[asked[c].uri] = call[c].text
  /\ call[c].rev = revision =>
       /\ call[c].pc = "query" => docs[asked[c].uri] = call[c].text
       /\ call[c].pc \in {"compute", "recheck"} => docs = call[c].snap
  /\ call[c].pc \notin {"reply", "cleanup", "done"} => call[c].answer = NoAnswer
  /\ call[c].answer.kind = "result" =>
       call[c].answer.view[asked[c].uri] \in At[asked[c].pos]
  /\ call[c].answer.kind = "exhausted" => revision >= call[c].since + 3

CallsInv == \A c \in Call : CallInv(c)

LEMMA CallsInvSuffices ==
  CallsInv => HandlerInv /\ ExhaustedOnlyAfterThreeChanges
BY DEF CallsInv, HandlerInv, ExhaustedOnlyAfterThreeChanges, OffsetBelongsToSnapshot,
       RevisionVouchesForView, CallInv

(* Leaving with an answer establishes the invariant if the answer is right. *)
LEMMA DecideInv ==
  ASSUME TypeOK, NEW c \in Call, NEW view \in View,
         NEW kind \in {"result", "empty", "exhausted", "cancelled"},
         Decide(c, kind, view), UNCHANGED <<revision, asked>>,
         kind = "result" => view[asked[c].uri] \in At[asked[c].pos],
         kind = "exhausted" => revision >= call[c].since + 3
  PROVE  CallInv(c)'
<1>1. /\ call'[c].pc = "reply" /\ call'[c].since = call[c].since
      /\ call'[c].answer = [kind |-> kind, view |-> view]
  BY DecideEffect
<1>2. call'[c].answer.kind = kind /\ call'[c].answer.view = view
  BY <1>1
<1> QED BY <1>1, <1>2 DEF CallInv

LEMMA RetryInv ==
  ASSUME TypeOK, NEW c \in Call, CallInv(c), Retry(c), UNCHANGED <<revision, asked>>,
         call[c].pc \in {"query", "recheck"}, call[c].rev # revision
  PROVE  CallInv(c)'
<1>1. /\ call[c].since \in Nat /\ call[c].attempt \in Nat
      /\ call[c].rev \in Nat /\ revision \in Nat
  BY DEF TypeOK, CallState
<1>2. call[c].since + call[c].attempt + 1 <= revision
  BY <1>1 DEF CallInv
<1> QED BY <1>1, <1>2, RetryEffect DEF CallInv, NoAnswer

(* A handler's step keeps the invariant of its own call. *)
LEMMA HandleInv ==
  ASSUME TypeOK, NEW c \in Call, CallInv(c), Handle(c)
  PROVE  CallInv(c)'
<1>0. /\ docs \in View /\ call[c] \in CallState /\ call[c].snap \in View
      /\ revision \in Nat /\ call[c].rev \in Nat
  BY DEF TypeOK, CallState
<1>1. CASE Check(c)
  <2>1. CASE Decide(c, "cancelled", NoView)
    BY <1>1, <2>1, DecideInv, NoViewType DEF Check
  <2>2. CASE Goto(c, "lookup")
    BY <1>1, <2>2, GotoEffect DEF Check, ProgramCounter, CallInv, NoAnswer
  <2> QED BY <1>1, <2>1, <2>2 DEF Check, DecideCancelled
<1>2. CASE Lookup(c)
  <2>1. CASE docs[asked[c].uri] \in At[asked[c].pos]
    <3> DEFINE k == [call[c] EXCEPT !.pc = "query", !.rev = revision,
                                    !.text = docs[asked[c].uri]]
    <3>1. /\ k.pc = "query" /\ k.rev = revision /\ k.text = docs[asked[c].uri]
          /\ k.since = call[c].since /\ k.attempt = call[c].attempt
          /\ k.answer = call[c].answer
      BY <1>0 DEF CallState
    <3>2. call'[c] = k
      BY <1>2, <2>1 DEF Lookup, TypeOK
    <3> HIDE DEF k
    <3> QED BY <1>0, <1>2, <2>1, <3>1, <3>2 DEF Lookup, CallInv, NoAnswer
  <2>2. CASE Decide(c, "empty", docs)
    BY <1>0, <1>2, <2>2, DecideInv DEF Lookup
  <2> QED BY <1>2, <2>1, <2>2 DEF Lookup
<1>3. CASE CompletionContextCancelled(c)
  BY <1>3, DecideInv, NoViewType DEF CompletionContextCancelled, DecideCancelled
<1>4. CASE Snapshot(c)
  <2>1. CASE call[c].rev = revision
    <3> DEFINE k == [call[c] EXCEPT !.pc = "compute", !.snap = docs]
    <3>1. /\ k.pc = "compute" /\ k.snap = docs
          /\ k.rev = call[c].rev /\ k.text = call[c].text
          /\ k.since = call[c].since /\ k.attempt = call[c].attempt
          /\ k.answer = call[c].answer
      BY <1>0 DEF CallState
    <3>2. call'[c] = k
      BY <1>4, <2>1 DEF Snapshot, TypeOK
    <3> HIDE DEF k
    <3> QED BY <1>0, <1>4, <2>1, <3>1, <3>2 DEF Snapshot, CallInv, NoAnswer
  <2>2. CASE call[c].rev # revision
    BY <1>4, <2>2, RetryInv DEF Snapshot
  <2> QED BY <2>1, <2>2
<1>5. CASE Compute(c)
  <2>1. CASE Decide(c, "cancelled", NoView)
    BY <1>5, <2>1, DecideInv, NoViewType DEF Compute
  <2>2. CASE Decide(c, "result", call[c].snap)
    <3>1. call[c].snap[asked[c].uri] \in At[asked[c].pos]
      BY <1>5 DEF Compute, CallInv
    <3> QED BY <1>0, <1>5, <2>2, <3>1, DecideInv DEF Compute
  <2>3. CASE Goto(c, "recheck")
    BY <1>5, <2>3, GotoEffect DEF Compute, ProgramCounter, CallInv, NoAnswer
  <2> QED BY <1>5, <2>1, <2>2, <2>3 DEF Compute, DecideCancelled
<1>6. CASE Recheck(c)
  <2>1. CASE call[c].rev = revision
    <3>1. call[c].snap[asked[c].uri] \in At[asked[c].pos]
      BY <1>6 DEF Recheck, CallInv
    <3> QED BY <1>0, <1>6, <2>1, <3>1, DecideInv DEF Recheck
  <2>2. CASE call[c].rev # revision
    BY <1>6, <2>2, RetryInv DEF Recheck
  <2> QED BY <2>1, <2>2
<1>7. CASE Reply(c)
  BY <1>7, GotoEffect DEF Reply, ProgramCounter, CallInv
<1>8. CASE Cleanup(c)
  BY <1>8, GotoEffect DEF Cleanup, ProgramCounter, CallInv
<1> QED BY <1>1, <1>2, <1>3, <1>4, <1>5, <1>6, <1>7, <1>8 DEF Handle

LEMMA StepInv ==
  TypeOK /\ CallsInv /\ [Next]_vars => CallsInv'
<1> SUFFICES ASSUME TypeOK, \A c \in Call : CallInv(c), [Next]_vars, NEW d \in Call
             PROVE  CallInv(d)'
  BY DEF CallsInv
<1>0. /\ call[d] \in CallState /\ revision \in Nat
      /\ call[d].rev \in Nat /\ call[d].since \in Nat /\ call[d].attempt \in Nat
  BY DEF TypeOK, CallState
<1>1. ASSUME NEW c \in Call, NEW r \in Request, Dispatch(c, r) PROVE CallInv(d)'
  <2>1. CASE d = c
    <3>1. call'[d] = Locals("check", revision)
      BY <1>1, <2>1 DEF Dispatch, TypeOK
    <3>2. revision' = revision
      BY <1>1 DEF Dispatch
    <3> QED BY <1>0, <3>1, <3>2 DEF Locals, CallInv, NoAnswer
  <2>2. CASE d # c
    BY <1>1, <2>2 DEF Dispatch, TypeOK, CallInv
  <2> QED BY <2>1, <2>2
<1>2. ASSUME NEW c \in Call, Handle(c) PROVE CallInv(d)'
  <2>1. CASE d = c
    BY <1>2, <2>1, HandleInv
  <2>2. CASE d # c
    BY <1>2, <2>2, HandleEffect DEF CallInv
  <2> QED BY <2>1, <2>2
<1>3. ASSUME NEW i \in Id, CancelRequest(i) PROVE CallInv(d)'
  BY <1>3 DEF CancelRequest, CallInv
<1>4. CASE CancelAll
  BY <1>4 DEF CancelAll, CallInv
<1>5. ASSUME NEW view \in View, IndexChange(view) PROVE CallInv(d)'
  <2>1. revision' = revision + 1 /\ UNCHANGED <<asked, call>>
    BY <1>5 DEF IndexChange
  <2> QED BY <1>0, <2>1 DEF CallInv
<1>6. CASE UNCHANGED vars
  BY <1>6 DEF vars, CallInv
<1> QED BY <1>1, <1>2, <1>3, <1>4, <1>5, <1>6 DEF Next

LEMMA InvariantOfCalls == Spec => []CallsInv
<1>1. Init => CallsInv
  <2> SUFFICES ASSUME Init, NEW c \in Call PROVE CallInv(c)
    BY DEF CallsInv
  <2>1. call[c] = Locals("new", 0)
    BY DEF Init
  <2> QED BY <2>1 DEF Locals, CallInv, NoAnswer
<1> QED BY <1>1, StepInv, TypeCorrect, PTL DEF Spec

(* The strengthening is invariant: equal revisions mean equal documents,    *)
(* and every attempt after the first was caused by a change of its own.     *)
THEOREM HandlersKeepBooks == Spec => []HandlerInv
BY InvariantOfCalls, CallsInvSuffices, PTL

(* A handler never applies an offset to a text it was not computed from.    *)
THEOREM OffsetsFitTheirSnapshots == Spec => []OffsetBelongsToSnapshot
<1>1. HandlerInv => OffsetBelongsToSnapshot
  BY DEF HandlerInv
<1> QED BY <1>1, HandlersKeepBooks, PTL

(* The fallback answer takes three changes of the workspace.                *)
THEOREM FallbackTakesThreeChanges == Spec => []ExhaustedOnlyAfterThreeChanges
BY InvariantOfCalls, CallsInvSuffices, PTL
-----------------------------------------------------------------------------
(* The registry of cancel functions. *)

LEMMA StepRegistered ==
  TypeOK /\ RegisteredAreRunning /\ [Next]_vars => RegisteredAreRunning'
<1> SUFFICES ASSUME TypeOK, RegisteredAreRunning, [Next]_vars,
                    NEW i \in Id, requests'[i] # NoCall
             PROVE  Running(requests[i])' /\ asked'[requests'[i]].id = i
  BY DEF RegisteredAreRunning
<1>0. /\ requests'[i] = requests[i] =>
           /\ requests[i] \in Call
           /\ Running(requests[i]) /\ asked[requests[i]].id = i
  BY DEF RegisteredAreRunning, TypeOK
<1>1. ASSUME NEW c \in Call, NEW r \in Request, Dispatch(c, r)
      PROVE  Running(requests[i])' /\ asked'[requests'[i]].id = i
  <2>1. /\ requests' = [requests EXCEPT ![r.id] = c]
        /\ asked' = [asked EXCEPT ![c] = r]
        /\ call' = [call EXCEPT ![c] = Locals("check", revision)]
        /\ call[c].pc = "new"
    BY <1>1 DEF Dispatch
  <2>2. CASE i = r.id
    BY <2>1, <2>2 DEF TypeOK, Running, Locals
  <2>3. CASE i # r.id
    BY <1>0, <2>1, <2>3 DEF TypeOK, Running
  <2> QED BY <2>2, <2>3
<1>2. ASSUME NEW c \in Call, Handle(c)
      PROVE  Running(requests[i])' /\ asked'[requests'[i]].id = i
  BY <1>0, <1>2, HandleEffect DEF TypeOK, Running
<1>3. ASSUME UNCHANGED <<requests, asked, call>>
      PROVE  Running(requests[i])' /\ asked'[requests'[i]].id = i
  BY <1>0, <1>3 DEF Running
<1> QED BY <1>1, <1>2, <1>3
        DEF Next, CancelRequest, CancelAll, IndexChange, vars

(* The registry never keeps a call that has ended, nor under a wrong id.    *)
THEOREM RegistryLeaksNothing == Spec => []RegisteredAreRunning
<1>1. Init => RegisteredAreRunning
  BY DEF Init, RegisteredAreRunning
<1> QED BY <1>1, StepRegistered, TypeCorrect, PTL DEF Spec

LEMMA StepRunning ==
  ASSUME ReuseIds = FALSE
  PROVE  TypeOK /\ RunningAreRegistered /\ [Next]_vars => RunningAreRegistered'
<1> SUFFICES ASSUME TypeOK, RunningAreRegistered, [Next]_vars,
                    NEW d \in Call, Running(d)'
             PROVE  requests'[asked'[d].id] = d
  BY DEF RunningAreRegistered
<1>0. Running(d) => requests[asked[d].id] = d /\ asked[d].id \in Id
  BY DEF RunningAreRegistered, TypeOK, Running, Request
<1>1. ASSUME NEW c \in Call, NEW r \in Request, Dispatch(c, r)
      PROVE  requests'[asked'[d].id] = d
  <2>1. r.id \in Id
    BY DEF Request
  <2>2. /\ requests' = [requests EXCEPT ![r.id] = c]
        /\ asked' = [asked EXCEPT ![c] = r]
        /\ call' = [call EXCEPT ![c] = Locals("check", revision)]
    BY <1>1 DEF Dispatch
  <2>3. CASE d = c
    BY <2>1, <2>2, <2>3 DEF TypeOK
  <2>4. CASE d # c
    <3>1. Running(d) /\ asked'[d] = asked[d]
      BY <2>2, <2>4 DEF TypeOK, Running
    <3>2. asked[d].id # r.id
      BY <1>1, <2>4, <3>1 DEF Dispatch, MayUseId, Running
    <3> QED BY <1>0, <2>2, <3>1, <3>2 DEF TypeOK
  <2> QED BY <2>3, <2>4
<1>2. ASSUME NEW c \in Call, Handle(c)
      PROVE  requests'[asked'[d].id] = d
  <2>1. Running(c) /\ asked' = asked
    BY <1>2, HandleEffect
  <2>2. requests[asked[c].id] = c /\ asked[c].id \in Id
    BY <2>1 DEF RunningAreRegistered, TypeOK, Running, Request
  <2>3. Running(d)
    BY <1>2, <2>1, HandleEffect DEF Running
  <2>4. CASE d = c
    BY <1>0, <1>2, <2>1, <2>3, <2>4, HandleEffect DEF Running
  <2>5. CASE d # c
    <3>1. asked[d].id # asked[c].id
      BY <1>0, <2>2, <2>3, <2>5
    <3> QED BY <1>0, <1>2, <2>1, <2>3, <3>1, HandleEffect DEF TypeOK
  <2> QED BY <2>4, <2>5
<1>3. ASSUME UNCHANGED <<requests, asked, call>>
      PROVE  requests'[asked'[d].id] = d
  BY <1>0, <1>3 DEF Running
<1> QED BY <1>1, <1>2, <1>3
        DEF Next, CancelRequest, CancelAll, IndexChange, vars

(* If clients never reuse an id, every running call can be cancelled.       *)
THEOREM RunningCallsCanBeCancelled ==
  ASSUME ReuseIds = FALSE
  PROVE  Spec => []RunningAreRegistered
<1>1. Init => RunningAreRegistered
  BY DEF Init, RunningAreRegistered, Running, Locals
<1> QED BY <1>1, StepRunning, TypeCorrect, PTL DEF Spec
-----------------------------------------------------------------------------
(* Refinement: reading the workspace through snapshots, revision checks and *)
(* retries is reading it at one instant.                                    *)

AStage == [c \in Call |-> Stage(c)]
AAnswer == [c \in Call |-> AnswerOf(c)]
ASince == [c \in Call |-> call[c].since]

LEMMA OthersAbs ==
  ASSUME NEW d \in Call, call'[d] = call[d], asked'[d] = asked[d]
  PROVE  Stage(d)' = Stage(d) /\ AnswerOf(d)' = AnswerOf(d)
BY DEF Stage, AnswerOf, HoldsAnswer, Answered

LEMMA ChangeAbs ==
  ASSUME NEW c \in Call, asked' = asked,
         \A d \in Call \ {c} : call'[d] = call[d],
         call'[c].since = call[c].since
  PROVE  /\ AStage' = [AStage EXCEPT ![c] = Stage(c)']
         /\ AAnswer' = [AAnswer EXCEPT ![c] = AnswerOf(c)']
         /\ ASince' = ASince
<1>1. \A d \in Call \ {c} : Stage(d)' = Stage(d) /\ AnswerOf(d)' = AnswerOf(d)
  BY OthersAbs
<1>2. AStage' = [AStage EXCEPT ![c] = Stage(c)']
  BY <1>1 DEF AStage
<1>3. AAnswer' = [AAnswer EXCEPT ![c] = AnswerOf(c)']
  BY <1>1 DEF AAnswer
<1>4. ASince' = ASince
  BY DEF ASince
<1> QED BY <1>2, <1>3, <1>4

(* Steps that only prepare an answer, or hand over one already made.        *)
LEMMA StutterAbs ==
  ASSUME NEW c \in Call, UNCHANGED <<docs, revision, asked>>,
         \A d \in Call \ {c} : call'[d] = call[d],
         call'[c].since = call[c].since,
         Stage(c)' = Stage(c), AnswerOf(c)' = AnswerOf(c)
  PROVE  UNCHANGED <<docs, revision, asked, ASince, AStage, AAnswer>>
<1>1. AStage' = AStage
  BY ChangeAbs DEF AStage
<1>2. AAnswer' = AAnswer
  BY ChangeAbs DEF AAnswer
<1> QED BY <1>1, <1>2, ChangeAbs

LEMMA DecideAbs ==
  ASSUME NEW c \in Call, NEW a, UNCHANGED <<docs, revision, asked, cancelled>>,
         \A d \in Call \ {c} : call'[d] = call[d],
         call'[c].since = call[c].since,
         Stage(c)' = "decided", AnswerOf(c)' = a
  PROVE  Reads!Decide(c, a)
BY ChangeAbs DEF Reads!Decide, AStage, AAnswer, ASince

(* Deciding on an answer, at the concrete level and at the abstract one.    *)
LEMMA DecideMaps ==
  ASSUME TypeOK, NEW c \in Call, NEW view \in View,
         NEW kind \in {"result", "empty", "exhausted", "cancelled"},
         Decide(c, kind, view), UNCHANGED <<docs, revision, asked, cancelled>>
  PROVE  Reads!Decide(c, [kind |-> kind, view |-> view])
<1>1. /\ call'[c].pc = "reply" /\ call'[c].since = call[c].since
      /\ call'[c].answer = [kind |-> kind, view |-> view]
      /\ \A d \in Call \ {c} : call'[d] = call[d]
  BY DecideEffect
<1>2. Stage(c)' = "decided"
  BY <1>1 DEF Stage, HoldsAnswer
<1>3. AnswerOf(c)' = [kind |-> kind, view |-> view]
  BY <1>1 DEF AnswerOf, HoldsAnswer
<1> QED BY <1>1, <1>2, <1>3, DecideAbs

LEMMA AbortMaps ==
  ASSUME TypeOK, NEW c \in Call, DecideCancelled(c),
         call[c].pc \in {"check", "query", "compute"},
         UNCHANGED <<docs, revision, asked, cancelled>>
  PROVE  Reads!Abort(c)
<1>1. Reads!Decide(c, [kind |-> "cancelled", view |-> NoView])
  BY DecideMaps, NoViewType DEF DecideCancelled
<1>2. Stage(c) \in {"open", "decided"}
  BY DEF Stage, HoldsAnswer, Answered
<1> QED BY <1>1, <1>2 DEF Reads!Abort, Reads!NoView, NoView, DecideCancelled

LEMMA RetryMaps ==
  ASSUME TypeOK, CallsInv, NEW c \in Call, Retry(c), call[c].rev # revision,
         \/ call[c].pc = "query"
         \/ call[c].pc = "recheck",
         UNCHANGED <<docs, revision, asked, cancelled>>
  PROVE  Reads!GiveUp(c) \/ UNCHANGED Reads!vars
<1>0. Stage(c) = "open" /\ AnswerOf(c) = NoAnswer
  BY DEF Stage, AnswerOf, HoldsAnswer, Answered, CallsInv, CallInv
<1>1. CASE call'[c].pc = "check"
  <2>1. Stage(c)' = "open" /\ AnswerOf(c)' = NoAnswer
    BY <1>1, RetryEffect DEF Stage, AnswerOf, HoldsAnswer, Answered
  <2> QED BY <1>0, <2>1, RetryEffect, StutterAbs DEF Reads!vars, AStage, AAnswer, ASince
<1>2. CASE call'[c].pc # "check"
  <2>1. /\ call'[c].pc = "reply" /\ call[c].attempt = 2
        /\ call'[c].answer = [kind |-> "exhausted", view |-> NoView]
    BY <1>2, RetryEffect
  <2>2. Stage(c)' = "decided"
    BY <2>1 DEF Stage, HoldsAnswer
  <2>5. AnswerOf(c)' = [kind |-> "exhausted", view |-> NoView]
    BY <2>1 DEF AnswerOf, HoldsAnswer
  <2>3. Reads!Decide(c, [kind |-> "exhausted", view |-> NoView])
    BY <2>2, <2>5, RetryEffect, DecideAbs
  <2>4. revision >= call[c].since + Attempts
    <3>1. /\ call[c].since \in Nat /\ call[c].rev \in Nat /\ revision \in Nat
      BY DEF TypeOK, CallState
    <3>2. call[c].since + 2 <= call[c].rev /\ call[c].rev <= revision
      BY <2>1 DEF CallsInv, CallInv
    <3> QED BY <3>1, <3>2 DEF Attempts
  <2> QED BY <1>0, <2>3, <2>4 DEF Reads!GiveUp, Reads!NoView, NoView
<1> QED BY <1>1, <1>2

LEMMA ServeMaps ==
  ASSUME TypeOK, NEW c \in Call, Stage(c) = "open",
         NEW kind, kind = IF docs[asked[c].uri] \in At[asked[c].pos] THEN "result" ELSE "empty",
         Reads!Decide(c, [kind |-> kind, view |-> docs])
  PROVE  Reads!Serve(c)
BY DEF Reads!Serve

LEMMA HandleMaps ==
  ASSUME TypeOK, CallsInv, NEW c \in Call, Handle(c)
  PROVE  Reads!Next \/ UNCHANGED Reads!vars
<1> DEFINE Quiet == UNCHANGED <<docs, revision, asked, cancelled>>
           Step == Reads!Serve(c) \/ Reads!GiveUp(c) \/ Reads!Abort(c) \/ Reads!Send(c)
<1> SUFFICES Step \/ UNCHANGED Reads!vars \/ Reads!Cancel
  BY DEF Reads!Next
<1>0. /\ docs \in View /\ call[c].snap \in View /\ CallInv(c)
      /\ \A d \in Call \ {c} : call'[d] = call[d]
      /\ call'[c].since = call[c].since
  BY HandleEffect DEF TypeOK, CallState, CallsInv
<1>a. ASSUME Quiet, Stage(c)' = Stage(c), AnswerOf(c)' = AnswerOf(c)
      PROVE  UNCHANGED Reads!vars
  BY <1>0, <1>a, StutterAbs DEF Reads!vars, AStage, AAnswer, ASince
<1>1. CASE Check(c)
  <2>1. CASE DecideCancelled(c)
    BY <1>1, <2>1, AbortMaps DEF Check
  <2>2. CASE Goto(c, "lookup")
    <3>1. Stage(c)' = Stage(c) /\ AnswerOf(c)' = AnswerOf(c)
      BY <1>1, <2>2, GotoEffect
         DEF Check, ProgramCounter, Stage, AnswerOf, HoldsAnswer, Answered
    <3> QED BY <1>1, <1>a, <3>1 DEF Check
  <2> QED BY <1>1, <2>1, <2>2 DEF Check
<1>2. CASE Lookup(c)
  <2>0. Stage(c) = "open" /\ AnswerOf(c) = NoAnswer
    BY <1>0, <1>2 DEF Lookup, Stage, AnswerOf, HoldsAnswer, Answered, CallInv
  <2>1. CASE docs[asked[c].uri] \in At[asked[c].pos]
    <3> DEFINE k == [call[c] EXCEPT !.pc = "query", !.rev = revision,
                                    !.text = docs[asked[c].uri]]
    <3>1. k.pc = "query" /\ k.answer = call[c].answer
      BY DEF TypeOK, CallState
    <3>2. call'[c] = k
      BY <1>2, <2>1 DEF Lookup, TypeOK
    <3> HIDE DEF k
    <3>3. Stage(c)' = "open" /\ AnswerOf(c)' = NoAnswer
      BY <1>0, <1>2, <3>1, <3>2
         DEF Lookup, Stage, AnswerOf, HoldsAnswer, Answered, CallInv
    <3> QED BY <1>2, <1>a, <2>0, <3>3 DEF Lookup
  <2>2. CASE docs[asked[c].uri] \notin At[asked[c].pos]
    <3>1. Reads!Decide(c, [kind |-> "empty", view |-> docs])
      BY <1>0, <1>2, <2>2, DecideMaps DEF Lookup
    <3> QED BY <2>0, <2>2, <3>1, ServeMaps
  <2> QED BY <2>1, <2>2
<1>3. CASE CompletionContextCancelled(c)
  BY <1>3, AbortMaps DEF CompletionContextCancelled
<1>4. CASE Snapshot(c)
  <2>0. Stage(c) = "open" /\ AnswerOf(c) = NoAnswer
    BY <1>0, <1>4 DEF Snapshot, Stage, AnswerOf, HoldsAnswer, Answered, CallInv
  <2>1. CASE call[c].rev = revision
    <3> DEFINE k == [call[c] EXCEPT !.pc = "compute", !.snap = docs]
    <3>1. k.pc = "compute" /\ k.answer = call[c].answer /\ k.snap = docs
      BY DEF TypeOK, CallState
    <3>2. call'[c] = k
      BY <1>4, <2>1 DEF Snapshot, TypeOK
    <3> HIDE DEF k
    <3>3. CASE asked[c].method = "references"
      <4>0. HoldsAnswer(c)'
        BY <1>4, <3>1, <3>2, <3>3 DEF Snapshot, HoldsAnswer
      <4>1. Stage(c)' = "decided"
        BY <4>0 DEF Stage, HoldsAnswer
      <4>4. AnswerOf(c)' = [kind |-> "result", view |-> docs]
        BY <4>0, <3>1, <3>2 DEF AnswerOf
      <4>2. docs[asked[c].uri] \in At[asked[c].pos]
        BY <1>0, <1>4, <2>1 DEF Snapshot, CallInv
      <4>3. Reads!Decide(c, [kind |-> "result", view |-> docs])
        BY <1>0, <1>4, <4>1, <4>4, DecideAbs DEF Snapshot
      <4> QED BY <2>0, <4>2, <4>3, ServeMaps
    <3>4. CASE asked[c].method # "references"
      <4>1. Stage(c)' = "open" /\ AnswerOf(c)' = NoAnswer
        BY <1>0, <1>4, <3>1, <3>2, <3>4
           DEF Snapshot, Stage, AnswerOf, HoldsAnswer, Answered, CallInv
      <4> QED BY <1>4, <1>a, <2>0, <4>1 DEF Snapshot
    <3> QED BY <3>3, <3>4
  <2>2. CASE call[c].rev # revision
    BY <1>4, <2>2, RetryMaps DEF Snapshot
  <2> QED BY <2>1, <2>2
<1>5. CASE Compute(c)
  <2>1. CASE DecideCancelled(c)
    BY <1>5, <2>1, AbortMaps DEF Compute
  <2>2. CASE asked[c].method = "references" /\ Decide(c, "result", call[c].snap)
    <3>1. HoldsAnswer(c)
      BY <1>5, <2>2 DEF Compute, HoldsAnswer
    <3>2. /\ call'[c].pc = "reply"
          /\ call'[c].answer = [kind |-> "result", view |-> call[c].snap]
      BY <1>0, <2>2, DecideEffect
    <3>3. Stage(c) = "decided" /\ Stage(c)' = "decided"
      BY <3>1, <3>2 DEF Stage, HoldsAnswer
    <3>4. AnswerOf(c) = [kind |-> "result", view |-> call[c].snap]
      BY <3>1 DEF AnswerOf
    <3>5. AnswerOf(c)' = [kind |-> "result", view |-> call[c].snap]
      BY <3>2 DEF AnswerOf, HoldsAnswer
    <3> QED BY <1>5, <1>a, <3>3, <3>4, <3>5 DEF Compute
  <2>3. CASE asked[c].method # "references" /\ Goto(c, "recheck")
    <3>1. Stage(c)' = Stage(c) /\ AnswerOf(c)' = AnswerOf(c)
      BY <1>5, <2>3, GotoEffect
         DEF Compute, ProgramCounter, Stage, AnswerOf, HoldsAnswer, Answered
    <3> QED BY <1>5, <1>a, <3>1 DEF Compute
  <2> QED BY <1>5, <2>1, <2>2, <2>3 DEF Compute
<1>6. CASE Recheck(c)
  <2>1. CASE call[c].rev = revision
    <3>0. Stage(c) = "open"
      BY <1>6 DEF Recheck, Stage, HoldsAnswer, Answered
    <3>1. docs = call[c].snap /\ docs[asked[c].uri] \in At[asked[c].pos]
      BY <1>0, <1>6, <2>1 DEF Recheck, CallInv
    <3>2. Reads!Decide(c, [kind |-> "result", view |-> docs])
      BY <1>0, <1>6, <2>1, <3>1, DecideMaps DEF Recheck
    <3> QED BY <3>0, <3>1, <3>2, ServeMaps
  <2>2. CASE call[c].rev # revision
    BY <1>6, <2>2, RetryMaps DEF Recheck
  <2> QED BY <2>1, <2>2
<1>7. CASE Reply(c)
  <2>1. /\ Stage(c) = "decided" /\ Stage(c)' = "sent"
        /\ AnswerOf(c)' = AnswerOf(c)
    BY <1>7, GotoEffect
       DEF Reply, ProgramCounter, Stage, AnswerOf, HoldsAnswer, Answered
  <2> QED BY <1>0, <1>7, <2>1, ChangeAbs
          DEF Reply, Reads!Send, AStage, AAnswer, ASince
<1>8. CASE Cleanup(c)
  <2>1. Stage(c)' = Stage(c) /\ AnswerOf(c)' = AnswerOf(c)
    BY <1>8, GotoEffect
       DEF Cleanup, ProgramCounter, Stage, AnswerOf, HoldsAnswer, Answered
  <2>2. cancelled' \in SUBSET Call /\ cancelled \subseteq cancelled'
    BY <1>8 DEF Cleanup, TypeOK
  <2> QED BY <1>0, <1>8, <2>1, <2>2, StutterAbs
          DEF Cleanup, Reads!Cancel, AStage, AAnswer, ASince
<1> QED BY <1>1, <1>2, <1>3, <1>4, <1>5, <1>6, <1>7, <1>8 DEF Handle

LEMMA DispatchMaps ==
  ASSUME TypeOK, CallsInv, NEW c \in Call, NEW r \in Request, Dispatch(c, r)
  PROVE  Reads!Next
<1>1. /\ asked' = [asked EXCEPT ![c] = r]
      /\ call' = [call EXCEPT ![c] = Locals("check", revision)]
      /\ call[c].pc = "new"
      /\ UNCHANGED <<docs, revision, cancelled>>
  BY DEF Dispatch
<1>2. \A d \in Call \ {c} : call'[d] = call[d] /\ asked'[d] = asked[d]
  BY <1>1 DEF TypeOK
<1>3. call'[c].pc = "check" /\ call'[c].since = revision /\ call'[c].answer = NoAnswer
  BY <1>1 DEF TypeOK, Locals
<1>4. \A d \in Call \ {c} : Stage(d)' = Stage(d) /\ AnswerOf(d)' = AnswerOf(d)
  BY <1>2, OthersAbs
<1>5. /\ Stage(c) = "new" /\ Stage(c)' = "open"
      /\ AnswerOf(c) = NoAnswer /\ AnswerOf(c)' = NoAnswer
  BY <1>1, <1>3 DEF Stage, AnswerOf, HoldsAnswer, Answered, CallsInv, CallInv
<1>6. AStage' = [AStage EXCEPT ![c] = "open"]
  BY <1>4, <1>5 DEF AStage
<1>7. AAnswer' = AAnswer
  BY <1>4, <1>5 DEF AAnswer
<1>8. ASince' = [ASince EXCEPT ![c] = revision]
  BY <1>2, <1>3 DEF ASince
<1>9. Reads!Ask(c)
  BY <1>1, <1>5, <1>6, <1>7, <1>8 DEF Reads!Ask, AStage, AAnswer, ASince
<1> QED BY <1>9 DEF Reads!Next

LEMMA StepMaps ==
  TypeOK /\ CallsInv /\ [Next]_vars => [Reads!Next]_(Reads!vars)
<1> SUFFICES ASSUME TypeOK, CallsInv, [Next]_vars
             PROVE  Reads!Next \/ UNCHANGED Reads!vars
  OBVIOUS
<1>1. ASSUME UNCHANGED <<asked, call>>
      PROVE  UNCHANGED <<AStage, AAnswer, ASince>>
  BY <1>1 DEF AStage, AAnswer, ASince, Stage, AnswerOf, HoldsAnswer, Answered
<1>2. ASSUME UNCHANGED <<docs, revision, asked, call>>,
             cancelled' \subseteq Call, cancelled \subseteq cancelled'
      PROVE  Reads!Cancel
  BY <1>1, <1>2 DEF Reads!Cancel, AStage, AAnswer, ASince
<1>3. ASSUME NEW i \in Id, CancelRequest(i) PROVE Reads!Next
  BY <1>2, <1>3 DEF CancelRequest, TypeOK, Reads!Next
<1>4. CASE CancelAll
  BY <1>2, <1>4 DEF CancelAll, TypeOK, Reads!Next
<1>5. ASSUME NEW view \in View, IndexChange(view) PROVE Reads!Next
  BY <1>1, <1>5
     DEF IndexChange, Reads!Next, Reads!Write, Reads!View, View, AStage, AAnswer, ASince
<1>6. CASE UNCHANGED vars
  BY <1>1, <1>6 DEF vars, Reads!vars, AStage, AAnswer, ASince
<1> QED BY <1>3, <1>4, <1>5, <1>6, DispatchMaps, HandleMaps DEF Next

LEMMA InitMaps == Init => Reads!Init
<1> SUFFICES ASSUME Init PROVE Reads!Init
  OBVIOUS
<1>1. ASSUME NEW c \in Call
      PROVE  Stage(c) = "new" /\ AnswerOf(c) = NoAnswer /\ call[c].since = 0
  <2>1. call[c] = Locals("new", 0)
    BY DEF Init
  <2>2. call[c].pc = "new" /\ call[c].answer = NoAnswer /\ call[c].since = 0
    BY <2>1 DEF Locals
  <2> QED BY <2>2 DEF Stage, AnswerOf, HoldsAnswer
<1> QED BY <1>1 DEF Init, Reads!Init, Reads!View, View, Reads!NoAnswer, NoAnswer,
                    Reads!NoView, NoView

(* RequestHandlers implements AtomicReads: whatever a client is answered is *)
(* what the workspace said at one instant after it asked, or the fallback   *)
(* after at least three changes, or a cancellation it asked for.            *)
THEOREM HandlersImplementAtomicReads == Spec => ReadsAreAtomic
BY InitMaps, StepMaps, TypeCorrect, InvariantOfCalls, PTL
   DEF Spec, ReadsAreAtomic, Reads!Spec
=============================================================================
