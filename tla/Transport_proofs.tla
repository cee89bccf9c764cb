-------------------------- MODULE Transport_proofs --------------------------
(***************************************************************************)
(* Proofs about the connection.  First its writing half (Connection), for  *)
(* any number of writers, chunks and room; then its reading half           *)
(* (MessageReader), for any payloads, headers and number of frames; and    *)
(* that both halves in one behaviour are what they are alone.              *)
(*                                                                         *)
(* Where a frame's header begins and ends follows from what the client     *)
(* wrote; the reader has to find the same places in the items.             *)
(***************************************************************************)
EXTENDS Transport, SequenceTheorems, WellFoundedInduction, TLAPS

USE TaskAssumption, SizeAssumption DEF TaskAssumption, SizeAssumption, Kind

(* What the ways of leaving a program point do to the state of a task.      *)

LEMMA WriteType ==
  ASSUME TypeOK, NEW t \in Task, NEW kind \in Kind,
         NEW notes \in 0..MaxNotes, Write(t, kind, notes)
  PROVE  /\ task' \in [Task -> TaskState]
         /\ task' = [task EXCEPT ![t] = task'[t]]
         /\ task'[t].pc = "encode" /\ task'[t].kind = kind /\ task'[t].at = 0
<1> DEFINE k == [pc |-> "encode", kind |-> kind, at |-> 0, notes |-> notes]
<1>1. k \in TaskState
  BY DEF TaskState
<1>2. k.pc = "encode" /\ k.kind = kind /\ k.at = 0
  OBVIOUS
<1>3. task' = [task EXCEPT ![t] = k]
  BY DEF Write
<1> HIDE DEF k
<1> QED BY <1>1, <1>2, <1>3 DEF TypeOK

LEMMA DoneType ==
  ASSUME TypeOK, NEW t \in Task, Done(t)
  PROVE  /\ task' \in [Task -> TaskState]
         /\ task' = [task EXCEPT ![t] = task'[t]]
         /\ task'[t].pc = "done" /\ task'[t].kind = task[t].kind
         /\ main' = IF OnMain(t) THEN "read" ELSE main
<1>1. [task[t] EXCEPT !.pc = "done"] \in TaskState
  BY DEF TypeOK, TaskState
<1> QED BY <1>1 DEF TypeOK, Done, TaskState

LEMMA GiveUpType ==
  ASSUME TypeOK, NEW t \in Task, GiveUp(t)
  PROVE  /\ task' \in [Task -> TaskState]
         /\ task' = [task EXCEPT ![t] = task'[t]]
         /\ task'[t].pc = "done" /\ task'[t].kind = task[t].kind
         /\ main' = IF OnMain(t) THEN "failed" ELSE main
<1>1. [task[t] EXCEPT !.pc = "done"] \in TaskState
  BY DEF TypeOK, TaskState
<1> QED BY <1>1 DEF TypeOK, GiveUp, TaskState

LEMMA TypeInit == Init => TypeOK
<1>1. New \in TaskState
  BY DEF New, TaskState
<1>2. <<>> \in Seq(Chunk) /\ Len(<<>>) = 0
  OBVIOUS
<1> SUFFICES ASSUME Init
             PROVE  TypeOK
  OBVIOUS
<1>3. sent \in Seq(Chunk) /\ taken \in 0..Len(sent)
  BY <1>2 DEF Init
<1>4. task \in [Task -> TaskState] /\ mu \in Task \cup {NoTask}
  BY <1>1 DEF Init
<1> QED BY <1>3, <1>4 DEF Init, TypeOK

LEMMA TypeStep == TypeOK /\ [Next]_vars => TypeOK'
<1> SUFFICES ASSUME TypeOK, [Next]_vars
             PROVE  TypeOK'
  OBVIOUS
<1> USE DEF TypeOK
<1>1. ASSUME NEW t \in Task, Receive(t)
      PROVE  TypeOK'
  <2>1. [task[t] EXCEPT !.pc = "handle"] \in TaskState
    BY DEF TaskState
  <2> QED BY <1>1, <2>1 DEF Receive
<1>2. ASSUME NEW t \in Task, NEW kind \in Kind \ {"note"}, HandleRequest(t, kind)
      PROVE  TypeOK'
  BY <1>2, WriteType DEF HandleRequest
<1>3. ASSUME NEW t \in Task, NEW notes \in 0..MaxNotes, HandleNotification(t, notes)
      PROVE  TypeOK'
  <2>1. CASE notes = 0
    BY <1>3, <2>1, DoneType DEF HandleNotification
  <2>2. CASE notes # 0
    <3>1. notes - 1 \in 0..MaxNotes
      BY <2>2
    <3> QED BY <1>3, <2>2, <3>1, WriteType DEF HandleNotification
  <2> QED BY <2>1, <2>2
<1>4. ASSUME NEW t \in Task, EncodeFails(t)
      PROVE  TypeOK'
  BY <1>4, WriteType DEF EncodeFails, Report
<1>5. ASSUME NEW t \in Task, Lock(t)
      PROVE  TypeOK'
  <2>1. [task[t] EXCEPT !.pc = "write"] \in TaskState
    BY DEF TaskState
  <2> QED BY <1>5, <2>1 DEF Lock
<1>6. ASSUME NEW t \in Task, WriteChunk(t)
      PROVE  TypeOK'
  <2>1. /\ sent' \in Seq(Chunk) /\ Len(sent') = Len(sent) + 1
        /\ taken' \in 0..Len(sent')
    <3>1. [task |-> t, kind |-> task[t].kind, at |-> task[t].at] \in Chunk
      BY DEF Chunk, TaskState
    <3> QED BY <1>6, <3>1 DEF WriteChunk
  <2>2. CASE task[t].at < Parts
    <3>1. task[t].at + 1 \in 0..Parts
      BY <2>2 DEF TaskState
    <3>2. [task[t] EXCEPT !.at = @ + 1] \in TaskState
      BY <3>1 DEF TaskState
    <3> QED BY <1>6, <2>1, <2>2, <3>2 DEF WriteChunk
  <2>3. CASE ~(task[t].at < Parts) /\ task[t].kind = "note" /\ task[t].notes > 0
    <3>1. task[t].notes - 1 \in 0..MaxNotes
      BY <2>3 DEF TaskState
    <3> QED BY <1>6, <2>1, <2>3, <3>1, WriteType DEF WriteChunk, AfterWrite
  <2>4. CASE ~(task[t].at < Parts) /\ ~(task[t].kind = "note" /\ task[t].notes > 0)
    <3>1. Done(t)
      BY <1>6, <2>4 DEF WriteChunk, AfterWrite
    <3> QED BY <1>6, <2>1, <2>4, <3>1, DoneType DEF WriteChunk
  <2> QED BY <2>2, <2>3, <2>4
<1>7. ASSUME NEW t \in Task, WriteFails(t)
      PROVE  TypeOK'
  <2>1. task[t].kind \in Kind
    BY DEF TaskState
  <2>2. CASE task[t].kind \in {"result", "refusal"}
    <3>1. Write(t, "error", 0) /\ UNCHANGED main
      BY <1>7, <2>2 DEF WriteFails, Report
    <3> QED BY <1>7, <3>1, WriteType DEF WriteFails
  <2>3. CASE task[t].kind = "error"
    BY <1>7, <2>3, GiveUpType DEF WriteFails, Report
  <2>4. CASE task[t].kind = "note"
    BY <1>7, <2>4, DoneType DEF WriteFails, Report
  <2> QED BY <2>1, <2>2, <2>3, <2>4
<1>8. ASSUME ClientReads \/ ClientCloses \/ Drain \/ Abort \/ Wait \/ Terminated \/ UNCHANGED vars
      PROVE  TypeOK'
  <2>1. CASE ClientReads
    BY <2>1 DEF ClientReads
  <2>2. CASE ~ClientReads
    BY <1>8, <2>2 DEF ClientCloses, Drain, Abort, StopWith, Wait, Terminated, vars
  <2> QED BY <2>1, <2>2
<1> QED BY <1>1, <1>2, <1>3, <1>4, <1>5, <1>6, <1>7, <1>8 DEF Next, Handle

(* Every variable keeps its type. *)
THEOREM ConnectionTypes == Spec => []TypeOK
BY TypeInit, TypeStep, PTL DEF Spec
-----------------------------------------------------------------------------
(* Most steps of a task are far from the stream. *)
Quiet(t) ==
  /\ task' = [task EXCEPT ![t] = task'[t]]
  /\ task[t].pc \notin {"write", "done"} /\ task'[t].pc # "write"
  /\ task'[t].pc = "encode" => task'[t].at = 0
  /\ t \in Request => task'[t].kind # "note" /\ task'[t].pc # "done"
  /\ UNCHANGED <<sent, taken, broken, mu>>

LEMMA QuietSteps ==
  ASSUME TypeOK, AnswerInv, NEW t \in Task,
         \/ Receive(t)
         \/ \E kind \in Kind \ {"note"} : HandleRequest(t, kind)
         \/ \E notes \in 0..MaxNotes : HandleNotification(t, notes)
         \/ EncodeFails(t)
  PROVE  Quiet(t)
<1>1. CASE Receive(t)
  BY <1>1 DEF Receive, Quiet, TypeOK, TaskState, AnswerInv
<1>2. ASSUME NEW kind \in Kind \ {"note"}, HandleRequest(t, kind)
      PROVE  Quiet(t)
  BY <1>2, WriteType DEF HandleRequest, Quiet
<1>3. ASSUME NEW notes \in 0..MaxNotes, HandleNotification(t, notes)
      PROVE  Quiet(t)
  <2>1. CASE notes = 0
    BY <1>3, <2>1, DoneType DEF HandleNotification, Quiet
  <2>2. CASE notes # 0
    <3>1. notes - 1 \in 0..MaxNotes
      BY <2>2
    <3> QED BY <1>3, <2>2, <3>1, WriteType DEF HandleNotification, Quiet
  <2> QED BY <2>1, <2>2
<1>4. CASE EncodeFails(t)
  BY <1>4, WriteType DEF EncodeFails, Report, Quiet
<1> QED BY <1>1, <1>2, <1>3, <1>4

(* The end of a write, whatever follows it. *)
LEMMA WriteEnds ==
  ASSUME TypeOK, NEW t \in Task, AfterWrite(t)
  PROVE  /\ task' = [task EXCEPT ![t] = task'[t]]
         /\ task'[t].pc \in {"encode", "done"}
         /\ task'[t].pc = "encode" => task'[t].at = 0 /\ task[t].kind = "note" /\ UNCHANGED main
         /\ task'[t].kind = task[t].kind
         /\ task'[t].pc = "done" => main' = IF OnMain(t) THEN "read" ELSE main
<1>1. CASE task[t].kind = "note" /\ task[t].notes > 0
  <2>1. task[t].notes - 1 \in 0..MaxNotes
    BY <1>1 DEF TypeOK, TaskState
  <2> QED BY <1>1, <2>1, WriteType DEF AfterWrite
<1>2. CASE ~(task[t].kind = "note" /\ task[t].notes > 0)
  BY <1>2, DoneType DEF AfterWrite
<1> QED BY <1>1, <1>2

LEMMA ReportEffect ==
  ASSUME TypeOK, NEW t \in Task, Report(t)
  PROVE  /\ task' = [task EXCEPT ![t] = task'[t]]
         /\ task'[t].pc \in {"encode", "done"}
         /\ task'[t].pc = "encode" => task'[t].at = 0 /\ UNCHANGED main
         /\ task[t].kind # "note" => task'[t].kind # "note"
         /\ task'[t].pc = "done" => main' = main \/ (OnMain(t) /\ main' \in {"read", "failed"})
<1>1. task[t].kind \in Kind
  BY DEF TypeOK, TaskState
<1>2. CASE task[t].kind \in {"result", "refusal"}
  <2>1. Write(t, "error", 0) /\ UNCHANGED main
    BY <1>2 DEF Report
  <2> QED BY <1>2, <2>1, WriteType
<1>3. CASE task[t].kind = "error"
  <2>1. GiveUp(t)
    BY <1>3 DEF Report
  <2> QED BY <1>3, <2>1, GiveUpType
<1>4. CASE task[t].kind = "note"
  <2>1. Done(t)
    BY <1>4 DEF Report
  <2> QED BY <1>4, <2>1, DoneType
<1> QED BY <1>1, <1>2, <1>3, <1>4

(* What a chunk adds to the stream. *)
LEMMA ChunkEffect ==
  ASSUME TypeOK, NEW t \in Task, WriteChunk(t)
  PROVE  /\ sent' = Append(sent, [task |-> t, kind |-> task[t].kind, at |-> task[t].at])
         /\ Len(sent') = Len(sent) + 1
         /\ \A i \in 1..Len(sent) : sent'[i] = sent[i]
         /\ sent'[Len(sent')] = [task |-> t, kind |-> task[t].kind, at |-> task[t].at]
         /\ sent' # <<>>
<1>1. [task |-> t, kind |-> task[t].kind, at |-> task[t].at] \in Chunk
  BY DEF Chunk, TypeOK, TaskState
<1> QED BY <1>1 DEF WriteChunk, TypeOK

LEMMA WriterStep == TypeOK /\ WriterInv /\ AnswerInv /\ [Next]_vars => WriterInv'
<1> SUFFICES ASSUME TypeOK, WriterInv, AnswerInv, [Next]_vars
             PROVE  WriterInv'
  OBVIOUS
<1>1. ASSUME NEW t \in Task, Quiet(t)
      PROVE  WriterInv'
  BY <1>1 DEF Quiet, WriterInv, Complete, TypeOK
<1>2. ASSUME NEW t \in Task, Lock(t)
      PROVE  WriterInv'
  <2>1. /\ \A u \in Task \ {t} : task'[u] = task[u]
        /\ task'[t].pc = "write" /\ task'[t].at = task[t].at
    BY <1>2 DEF Lock, TypeOK, TaskState
  <2> QED BY <1>2, <2>1 DEF Lock, WriterInv, Complete
<1>3. ASSUME NEW t \in Task, WriteChunk(t)
      PROVE  WriterInv'
  <2>1. mu = t /\ ~broken /\ UNCHANGED broken /\ task[t].pc = "write"
    BY <1>3 DEF WriteChunk, WriterInv
  <2>2. CASE task[t].at < Parts
    <3>1. /\ \A u \in Task \ {t} : task'[u] = task[u]
          /\ task'[t].pc = "write" /\ task'[t].at = task[t].at + 1
          /\ task'[t].kind = task[t].kind /\ mu' = t
      BY <1>3, <2>1, <2>2 DEF WriteChunk, TypeOK, TaskState
    <3>2. task[t].at \in Nat
      BY DEF TypeOK, TaskState
    <3> QED BY <2>1, <3>1, <3>2, <1>3, ChunkEffect DEF WriterInv, Complete
  <2>3. CASE ~(task[t].at < Parts)
    <3>1. task[t].at = Parts
      BY <2>3 DEF TypeOK, TaskState
    <3>2. AfterWrite(t) /\ mu' = NoTask
      BY <1>3, <2>3 DEF WriteChunk
    <3>3. \A u \in Task \ {t} : task'[u] = task[u]
      BY <3>2, WriteEnds DEF TypeOK
    <3>4. Complete'
      <4>1. sent'[Len(sent')] = [task |-> t, kind |-> task[t].kind, at |-> task[t].at]
        BY <1>3, ChunkEffect
      <4>2. sent'[Len(sent')].at = Parts
        BY <3>1, <4>1
      <4> QED BY <4>2 DEF Complete
    <3>5. task'[t].pc # "write" /\ (task'[t].pc = "encode" => task'[t].at = 0)
      BY <3>2, WriteEnds
    <3>6. \A u \in Task : task'[u].pc # "write" /\ mu' # u
      BY <2>1, <3>2, <3>3, <3>5 DEF WriterInv
    <3>7. \A u \in Task : task'[u].pc = "encode" => task'[u].at = 0
      BY <3>3, <3>5 DEF WriterInv
    <3> QED BY <3>4, <3>6, <3>7 DEF WriterInv
  <2> QED BY <2>2, <2>3
<1>4. ASSUME NEW t \in Task, WriteFails(t)
      PROVE  WriterInv'
  <2>1. \A u \in Task \ {t} : task'[u] = task[u]
    BY <1>4, ReportEffect DEF WriteFails, TypeOK
  <2> QED BY <1>4, <2>1, ReportEffect DEF WriteFails, WriterInv
<1>5. ASSUME ClientReads \/ ClientCloses \/ Drain \/ Abort \/ Wait \/ Terminated \/ UNCHANGED vars
      PROVE  WriterInv'
  <2>1. UNCHANGED <<sent, mu, task>> /\ (broken => broken')
    BY <1>5 DEF ClientReads, ClientCloses, Drain, Abort, StopWith, Wait, Terminated, vars
  <2> QED BY <2>1 DEF WriterInv, Complete
<1> QED BY <1>1, <1>2, <1>3, <1>4, <1>5, QuietSteps DEF Next, Handle

LEMMA StepsOfTheClient ==
  ASSUME ClientReads \/ ClientCloses \/ Drain \/ Abort \/ Wait \/ Terminated \/ UNCHANGED vars
  PROVE  UNCHANGED <<sent, mu, task>> /\ (broken => broken')
BY DEF ClientReads, ClientCloses, Drain, Abort, StopWith, Wait, Terminated, vars

(* Only WriteChunk touches the stream. *)
LEMMA OtherStepsKeepSent ==
  ASSUME TypeOK, AnswerInv, [Next]_vars, \A t \in Task : ~WriteChunk(t)
  PROVE  UNCHANGED sent
<1>1. ASSUME NEW t \in Task, Quiet(t)
      PROVE  UNCHANGED sent
  BY <1>1 DEF Quiet
<1>2. ASSUME NEW t \in Task, Lock(t) \/ WriteFails(t)
      PROVE  UNCHANGED sent
  BY <1>2 DEF Lock, WriteFails
<1> QED BY <1>1, <1>2, QuietSteps, StepsOfTheClient DEF Next, Handle

LEMMA FramesStep ==
  TypeOK /\ WriterInv /\ AnswerInv /\ FramesAreWhole /\ [Next]_vars => FramesAreWhole'
<1> SUFFICES ASSUME TypeOK, WriterInv, AnswerInv, FramesAreWhole, [Next]_vars
             PROVE  FramesAreWhole'
  OBVIOUS
<1>1. ASSUME NEW t \in Task, WriteChunk(t)
      PROVE  FramesAreWhole'
  <2> DEFINE c == [task |-> t, kind |-> task[t].kind, at |-> task[t].at]
             n == Len(sent)
  <2>1. n \in Nat /\ Len(sent') = n + 1 /\ sent'[n + 1] = c
        /\ \A i \in 1..n : sent'[i] = sent[i]
    BY <1>1, ChunkEffect DEF TypeOK
  <2>2. mu = t /\ ~broken
    BY <1>1 DEF WriteChunk, WriterInv
  <2>3. (sent # <<>>) <=> (n > 0)
    BY DEF TypeOK
  <2>4. task[t].at \in Nat
    BY DEF TypeOK, TaskState
  <2>5. IF c.at = 0 THEN n + 1 = 1 \/ sent'[n].at = Parts
        ELSE n + 1 > 1 /\ sent'[n] = [c EXCEPT !.at = @ - 1]
    <3>1. CASE task[t].at = 0
      <4>1. sent # <<>> => sent[n].at = Parts
        BY <3>1, <2>2 DEF WriterInv, Complete
      <4>2. n > 0 => sent'[n].at = Parts
        BY <4>1, <2>1, <2>3
      <4>3. n = 0 \/ n > 0
        BY <2>1
      <4>4. c.at = 0
        BY <3>1
      <4> QED BY <4>2, <4>3, <4>4
    <3>2. CASE task[t].at # 0
      <4>1. n > 0 /\ sent[n] = [task |-> t, kind |-> task[t].kind, at |-> task[t].at - 1]
        BY <3>2, <2>2, <2>3 DEF WriterInv
      <4>2. [c EXCEPT !.at = @ - 1] = [task |-> t, kind |-> task[t].kind, at |-> task[t].at - 1]
        OBVIOUS
      <4> QED BY <3>2, <4>1, <4>2, <2>1
    <3> QED BY <3>1, <3>2
  <2> SUFFICES ASSUME NEW i \in 1..(n + 1)
               PROVE  IF sent'[i].at = 0 THEN i = 1 \/ sent'[i - 1].at = Parts
                      ELSE i > 1 /\ sent'[i - 1] = [sent'[i] EXCEPT !.at = @ - 1]
    BY <2>1 DEF FramesAreWhole
  <2> HIDE DEF c, n
  <2>6. CASE i = n + 1
    BY <2>6, <2>5, <2>1
  <2>7. CASE i # n + 1
    <3>1. i \in 1..n /\ sent'[i] = sent[i]
      BY <2>7, <2>1
    <3>2. i > 1 => i - 1 \in 1..n /\ sent'[i - 1] = sent[i - 1]
      BY <3>1, <2>1
    <3>3. IF sent[i].at = 0 THEN i = 1 \/ sent[i - 1].at = Parts
          ELSE i > 1 /\ sent[i - 1] = [sent[i] EXCEPT !.at = @ - 1]
      BY <3>1 DEF FramesAreWhole, n
    <3>4. i = 1 \/ i > 1
      BY <3>1, <2>1
    <3> QED BY <3>1, <3>2, <3>3, <3>4
  <2> QED BY <2>6, <2>7
<1>2. CASE \A t \in Task : ~WriteChunk(t)
  BY <1>2, OtherStepsKeepSent DEF FramesAreWhole
<1> QED BY <1>1, <1>2

LEMMA AnswerStep == TypeOK /\ WriterInv /\ AnswerInv /\ [Next]_vars => AnswerInv'
<1> SUFFICES ASSUME TypeOK, WriterInv, AnswerInv, [Next]_vars
             PROVE  AnswerInv'
  OBVIOUS
<1>1. ASSUME NEW t \in Task, Quiet(t)
      PROVE  AnswerInv'
  <2>1. \A u \in Task \ {t} : task'[u] = task[u]
    BY <1>1 DEF Quiet, TypeOK
  <2>2. \A i \in 1..Len(sent) : ~IsAnswer(i, t)
    BY <1>1 DEF Quiet, AnswerInv
  <2> QED BY <1>1, <2>1, <2>2 DEF Quiet, AnswerInv, IsAnswer
<1>2. ASSUME NEW t \in Task, Lock(t)
      PROVE  AnswerInv'
  <2>1. /\ \A u \in Task \ {t} : task'[u] = task[u]
        /\ task'[t].pc = "write" /\ task'[t].kind = task[t].kind /\ task[t].pc = "encode"
    BY <1>2 DEF Lock, TypeOK, TaskState
  <2> QED BY <1>2, <2>1 DEF Lock, AnswerInv, IsAnswer
<1>3. ASSUME NEW t \in Task, WriteFails(t)
      PROVE  AnswerInv'
  <2>1. /\ \A u \in Task \ {t} : task'[u] = task[u]
        /\ task[t].kind # "note" => task'[t].kind # "note"
    BY <1>3, ReportEffect DEF WriteFails, TypeOK
  <2>2. UNCHANGED sent /\ broken' /\ task[t].pc = "write"
    BY <1>3 DEF WriteFails
  <2> QED BY <2>1, <2>2 DEF AnswerInv, IsAnswer
<1>4. ASSUME NEW t \in Task, WriteChunk(t)
      PROVE  AnswerInv'
  <2>0. PICK n \in Nat : n = Len(sent)
    BY DEF TypeOK
  <2>1. n \in Nat /\ Len(sent') = n + 1
        /\ sent'[n + 1] = [task |-> t, kind |-> task[t].kind, at |-> task[t].at]
        /\ \A i \in 1..n : sent'[i] = sent[i]
    BY <2>0, <1>4, ChunkEffect
  <2>2. /\ \A u \in Task : \A i \in 1..n : IsAnswer(i, u)' <=> IsAnswer(i, u)
        /\ \A u \in Task : IsAnswer(n + 1, u)' <=>
             u = t /\ task[t].kind # "note" /\ task[t].at = Parts
    BY <2>1 DEF IsAnswer
  <2>3. task[t].pc = "write" /\ UNCHANGED broken
    BY <1>4 DEF WriteChunk
  <2>4. \A i \in 1..n : ~IsAnswer(i, t)
    BY <2>0, <2>3 DEF AnswerInv
  <2>5. CASE task[t].at < Parts
    <3>1. /\ \A u \in Task \ {t} : task'[u] = task[u]
          /\ task'[t].pc = "write" /\ task'[t].kind = task[t].kind
      BY <1>4, <2>3, <2>5 DEF WriteChunk, TypeOK, TaskState
    <3>2. \A u \in Task : ~IsAnswer(n + 1, u)'
      BY <2>2, <2>5 DEF TypeOK, TaskState
    <3>3. \A u \in Task : \A i \in 1..(n + 1) : IsAnswer(i, u)' =>
            i \in 1..n /\ IsAnswer(i, u)
      BY <2>1, <2>2, <3>2
    <3>4. \A u \in Task : \A i \in 1..n : IsAnswer(i, u) => i \in 1..(n + 1) /\ IsAnswer(i, u)'
      BY <2>1, <2>2
    <3> QED BY <2>0, <2>1, <2>3, <2>4, <3>1, <3>3, <3>4 DEF AnswerInv
  <2>6. CASE ~(task[t].at < Parts)
    <3>1. task[t].at = Parts
      BY <2>6 DEF TypeOK, TaskState
    <3>2. AfterWrite(t)
      BY <1>4, <2>6 DEF WriteChunk
    <3>3. /\ \A u \in Task \ {t} : task'[u] = task[u]
          /\ task[t].kind # "note" => task'[t].pc = "done"
          /\ task'[t].kind = task[t].kind
      BY <3>2, WriteEnds DEF TypeOK
    <3>4. \A u \in Task : \A i \in 1..(n + 1) : IsAnswer(i, u)' =>
            \/ i \in 1..n /\ IsAnswer(i, u)
            \/ u = t /\ task[t].kind # "note"
      BY <2>1, <2>2
    <3>5. \A u \in Task : \A i \in 1..n : IsAnswer(i, u) => i \in 1..(n + 1) /\ IsAnswer(i, u)'
      BY <2>1, <2>2
    <3>6. task[t].kind # "note" => n + 1 \in 1..(n + 1) /\ IsAnswer(n + 1, t)'
      BY <2>1, <2>2, <3>1
    <3>7. \A u \in Task : \A i \in 1..(n + 1) : IsAnswer(i, u)' => task'[u].pc = "done"
      BY <2>0, <2>4, <3>3, <3>4 DEF AnswerInv
    <3>8. ASSUME NEW u \in Request
          PROVE  /\ task'[u].kind # "note"
                 /\ task'[u].pc = "done" /\ ~broken' =>
                      \E i \in 1..(n + 1) : IsAnswer(i, u)'
      <4>1. CASE u = t
        BY <4>1, <3>3, <3>6 DEF AnswerInv
      <4>2. CASE u # t
        BY <2>0, <4>2, <2>3, <3>3, <3>5 DEF AnswerInv
      <4> QED BY <4>1, <4>2
    <3> QED BY <2>1, <3>7, <3>8 DEF AnswerInv
  <2> QED BY <2>5, <2>6
<1>5. ASSUME UNCHANGED <<sent, mu, task>> /\ (broken => broken')
      PROVE  AnswerInv'
  BY <1>5 DEF AnswerInv, IsAnswer
<1> QED BY <1>1, <1>2, <1>3, <1>4, <1>5, QuietSteps, StepsOfTheClient DEF Next, Handle

LEMMA OnceStep ==
  TypeOK /\ WriterInv /\ AnswerInv /\ AtMostOneAnswer /\ [Next]_vars => AtMostOneAnswer'
<1> SUFFICES ASSUME TypeOK, WriterInv, AnswerInv, AtMostOneAnswer, [Next]_vars
             PROVE  AtMostOneAnswer'
  OBVIOUS
<1>1. ASSUME NEW t \in Task, WriteChunk(t)
      PROVE  AtMostOneAnswer'
  <2>0. PICK n \in Nat : n = Len(sent)
    BY DEF TypeOK
  <2>1. Len(sent') = n + 1 /\ sent'[n + 1].task = t /\ \A i \in 1..n : sent'[i] = sent[i]
    <3>1. /\ Len(sent') = n + 1
          /\ sent'[n + 1] = [task |-> t, kind |-> task[t].kind, at |-> task[t].at]
          /\ \A i \in 1..n : sent'[i] = sent[i]
      BY <2>0, <1>1, ChunkEffect
    <3> QED BY <3>1
  <2>2. /\ \A u \in Task : \A i \in 1..n : IsAnswer(i, u)' <=> IsAnswer(i, u)
        /\ \A u \in Task : IsAnswer(n + 1, u)' => u = t
    BY <2>1 DEF IsAnswer
  <2>3. \A i \in 1..n : ~IsAnswer(i, t)
    BY <1>1, <2>0 DEF WriteChunk, AnswerInv
  <2> SUFFICES ASSUME NEW u \in Task, NEW i \in 1..(n + 1), NEW j \in 1..(n + 1),
                      IsAnswer(i, u)', IsAnswer(j, u)'
               PROVE  i = j
    BY <2>1, <2>0 DEF AtMostOneAnswer
  <2>4. CASE i = n + 1 \/ j = n + 1
    <3>1. u = t
      BY <2>2, <2>4
    <3>2. \A k \in 1..n : ~IsAnswer(k, t)'
      BY <2>2, <2>3
    <3> QED BY <2>4, <3>1, <3>2
  <2>5. CASE i # n + 1 /\ j # n + 1
    <3>1. i \in 1..n /\ j \in 1..n
      BY <2>5
    <3> QED BY <2>0, <2>2, <3>1 DEF AtMostOneAnswer
  <2> QED BY <2>4, <2>5
<1>2. CASE \A t \in Task : ~WriteChunk(t)
  BY <1>2, OtherStepsKeepSent DEF AtMostOneAnswer, IsAnswer
<1> QED BY <1>1, <1>2
-----------------------------------------------------------------------------
(* How the main loop and its tasks fit together.                            *)

LEMMA RunningStays ==
  ASSUME TypeOK, MainInv, NEW t \in Task, task[t].pc \notin {"new", "done"}, Alive,
         task' = [task EXCEPT ![t] = task'[t]],
         task'[t].pc \notin {"new", "done"}, UNCHANGED main
  PROVE  MainInv'
<1>1. \A u \in Task : Running(u)' <=> Running(u)
  BY DEF Running, TypeOK
<1> QED BY <1>1 DEF MainInv, AllDone, OnMain, Alive

LEMMA RunningEnds ==
  ASSUME TypeOK, MainInv, NEW t \in Task, task[t].pc \notin {"new", "done"}, Alive,
         task' = [task EXCEPT ![t] = task'[t]], task'[t].pc = "done",
         main' = main \/ (OnMain(t) /\ main' \in {"read", "failed"})
  PROVE  MainInv'
<1>1. \A u \in Task : Running(u)' <=> Running(u) /\ u # t
  BY DEF Running, TypeOK
<1>2. CASE main' = main
  BY <1>1, <1>2 DEF MainInv, AllDone, OnMain, Alive
<1>3. CASE OnMain(t) /\ main' \in {"read", "failed"}
  <2>1. \A u \in Task : ~(OnMain(u) /\ Running(u)')
    BY <1>1, <1>3 DEF MainInv, Running
  <2> QED BY <1>3, <2>1 DEF MainInv, OnMain
<1> QED BY <1>2, <1>3

LEMMA MainStepInv == TypeOK /\ WriterInv /\ AnswerInv /\ MainInv /\ [Next]_vars => MainInv'
<1> SUFFICES ASSUME TypeOK, WriterInv, AnswerInv, MainInv, [Next]_vars
             PROVE  MainInv'
  OBVIOUS
<1>1. ASSUME NEW t \in Task, Receive(t)
      PROVE  MainInv'
  <2>1. \A u \in Task : Running(u)' <=> Running(u) \/ u = t
    BY <1>1 DEF Receive, Running, TypeOK, TaskState
  <2>2. \A u \in Task : ~(OnMain(u) /\ Running(u))
    BY <1>1 DEF Receive, MainInv
  <2> QED BY <1>1, <2>1, <2>2 DEF Receive, MainInv, OnMain
<1>2. ASSUME NEW t \in Task, NEW kind \in Kind \ {"note"}, HandleRequest(t, kind)
      PROVE  MainInv'
  BY <1>2, WriteType, RunningStays DEF HandleRequest
<1>3. ASSUME NEW t \in Task, NEW notes \in 0..MaxNotes, HandleNotification(t, notes)
      PROVE  MainInv'
  <2>1. CASE notes = 0
    BY <1>3, <2>1, DoneType, RunningEnds DEF HandleNotification
  <2>2. CASE notes # 0
    <3>1. notes - 1 \in 0..MaxNotes
      BY <2>2
    <3> QED BY <1>3, <2>2, <3>1, WriteType, RunningStays DEF HandleNotification
  <2> QED BY <2>1, <2>2
<1>4. ASSUME NEW t \in Task, EncodeFails(t)
      PROVE  MainInv'
  BY <1>4, WriteType, RunningStays DEF EncodeFails, Report
<1>5. ASSUME NEW t \in Task, Lock(t)
      PROVE  MainInv'
  <2>1. task' = [task EXCEPT ![t] = task'[t]] /\ task'[t].pc = "write"
    BY <1>5 DEF Lock, TypeOK, TaskState
  <2> QED BY <1>5, <2>1, RunningStays DEF Lock
<1>6. ASSUME NEW t \in Task, WriteChunk(t)
      PROVE  MainInv'
  <2>1. Alive /\ task[t].pc = "write"
    BY <1>6 DEF WriteChunk
  <2>2. CASE task[t].at < Parts
    <3>1. task' = [task EXCEPT ![t] = task'[t]] /\ task'[t].pc = "write" /\ UNCHANGED main
      BY <1>6, <2>2 DEF WriteChunk, TypeOK, TaskState
    <3> QED BY <2>1, <3>1, RunningStays
  <2>3. CASE ~(task[t].at < Parts)
    <3>1. AfterWrite(t)
      BY <1>6, <2>3 DEF WriteChunk
    <3>2. CASE task'[t].pc = "encode"
      BY <2>1, <3>1, <3>2, WriteEnds, RunningStays
    <3>3. CASE task'[t].pc = "done"
      BY <2>1, <3>1, <3>3, WriteEnds, RunningEnds
    <3> QED BY <3>1, <3>2, <3>3, WriteEnds
  <2> QED BY <2>2, <2>3
<1>7. ASSUME NEW t \in Task, WriteFails(t)
      PROVE  MainInv'
  <2>1. Alive /\ task[t].pc = "write" /\ Report(t)
    BY <1>7 DEF WriteFails
  <2>2. CASE task'[t].pc = "encode"
    BY <2>1, <2>2, ReportEffect, RunningStays
  <2>3. CASE task'[t].pc = "done"
    BY <2>1, <2>3, ReportEffect, RunningEnds
  <2> QED BY <2>1, <2>2, <2>3, ReportEffect
<1>8. ASSUME ClientReads \/ ClientCloses \/ Terminated \/ UNCHANGED vars
      PROVE  MainInv'
  BY <1>8 DEF ClientReads, ClientCloses, Terminated, vars, MainInv, AllDone, Running, OnMain
<1>9. ASSUME Drain \/ Abort \/ Wait
      PROVE  MainInv'
  BY <1>9 DEF Drain, Abort, StopWith, Wait, MainInv, AllDone, Running, OnMain
<1> QED BY <1>1, <1>2, <1>3, <1>4, <1>5, <1>6, <1>7, <1>8, <1>9 DEF Next, Handle

Inv == TypeOK /\ WriterInv /\ AnswerInv /\ MainInv /\ FramesAreWhole /\ AtMostOneAnswer

LEMMA InitInv == Init => Inv
<1> SUFFICES ASSUME Init
             PROVE  Inv
  OBVIOUS
<1>1. TypeOK
  BY TypeInit
<1>2. Len(sent) = 0 /\ sent = <<>> /\ mu = NoTask
  BY DEF Init
<1>3. \A t \in Task : task[t].pc = "new" /\ task[t].kind = "result" /\ task[t].at = 0
  BY DEF Init, New
<1>4. WriterInv /\ AnswerInv
  BY <1>2, <1>3 DEF WriterInv, Complete, AnswerInv
<1>5. MainInv
  BY <1>3 DEF MainInv, Running, Init
<1> QED BY <1>1, <1>2, <1>4, <1>5 DEF Inv, FramesAreWhole, AtMostOneAnswer

(* All of it together is inductive. *)
THEOREM InvIsInvariant == Spec => []Inv
<1>1. Inv /\ [Next]_vars => Inv'
  BY TypeStep, WriterStep, AnswerStep, MainStepInv, FramesStep, OnceStep DEF Inv
<1> QED BY <1>1, InitInv, PTL DEF Spec

(* The lock, the end of the stream, the answers and the main loop always    *)
(* agree on who is writing what.                                            *)
THEOREM WritersAgree == Spec => []ConnectionInv
BY InvIsInvariant, PTL DEF Inv, ConnectionInv

(* However many goroutines write, the client reads whole messages.          *)
THEOREM OutputIsFramed == Spec => []FramesAreWhole
BY InvIsInvariant, PTL DEF Inv

(* No request is answered twice, whatever fails on the way.                 *)
THEOREM AnswersAreUnique == Spec => []AtMostOneAnswer
BY InvIsInvariant, PTL DEF Inv

(* An orderly end leaves nothing half written and nothing unanswered.       *)
THEOREM OrderlyEndLosesNothing == Spec => []OrderlyEnd
<1>1. Inv => OrderlyEnd
  <2> SUFFICES ASSUME Inv, main = "stopped", ~broken
               PROVE  /\ Complete
                      /\ \A t \in Request : task[t].pc # "new" =>
                           \E i \in 1..Len(sent) : IsAnswer(i, t)
    BY DEF OrderlyEnd
  <2>1. \A t \in Task : ~Running(t)
    BY DEF Inv, MainInv, AllDone, OnMain
  <2>2. \A t \in Task : task[t].pc # "write"
    BY <2>1 DEF Running
  <2>3. mu = NoTask
    BY <2>2 DEF Inv, TypeOK, WriterInv
  <2> QED BY <2>1, <2>3 DEF Inv, WriterInv, AnswerInv, Running
<1> QED BY <1>1, InvIsInvariant, PTL
-----------------------------------------------------------------------------
(* To the client it is a stream of messages.                                *)

LEMMA SetInduction ==
  ASSUME NEW S, 0 \in S, \A n \in Nat : n \in S => n + 1 \in S
  PROVE  Nat \subseteq S
<1> DEFINE less == OpToRel(<, Nat)
           T == Nat \ S
<1>1. \A y, z \in Nat : y < z => <<y, z>> \in less
  BY DEF OpToRel
<1>2. IsWellFoundedOn(less, Nat)
  BY NatLessThanWellFounded
<1> HIDE DEF less
<1> SUFFICES ASSUME T # {} PROVE FALSE
  OBVIOUS
<1>3. PICK z \in T : \A y \in T : <<y, z>> \notin less
  BY <1>2, WFMin
<1>4. z \in Nat /\ z # 0 /\ z - 1 \in Nat /\ z - 1 < z
  BY <1>3
<1>5. z - 1 \notin T
  BY <1>1, <1>3, <1>4
<1> QED BY <1>3, <1>4, <1>5

(* MessagesIn reads the chunks one after the other: the function it defines *)
(* recursively exists, and knows no chunk but those before its argument.    *)
Rest(chunks, upTo, n) ==
  IF n = 0 THEN <<>>
  ELSE IF chunks[n].at = Parts THEN Append(upTo[n - 1], MessageOf(chunks[n]))
  ELSE upTo[n - 1]

IsUpTo(chunks, m, upTo) == upTo = [n \in 0..m |-> Rest(chunks, upTo, n)]

LEMMA UpToAt ==
  ASSUME NEW chunks, NEW m, NEW upTo, IsUpTo(chunks, m, upTo), NEW n \in 0..m
  PROVE  upTo[n] = Rest(chunks, upTo, n)
<1> DEFINE R(k) == Rest(chunks, upTo, k)
<1>1. upTo = [k \in 0..m |-> R(k)]
  BY DEF IsUpTo
<1> HIDE DEF R
<1>2. upTo[n] = R(n)
  BY <1>1
<1> QED BY <1>2 DEF R

LEMMA UpToExists ==
  ASSUME NEW chunks, NEW m \in Nat
  PROVE  \E upTo : IsUpTo(chunks, m, upTo)
<1> DEFINE S == {n \in Nat : \E upTo : IsUpTo(chunks, n, upTo)}
<1>1. 0 \in S
  <2> DEFINE g == [n \in 0..0 |-> <<>>]
  <2>1. IsUpTo(chunks, 0, g)
    BY DEF IsUpTo, Rest
  <2> QED BY <2>1
<1>2. ASSUME NEW n \in Nat, n \in S PROVE n + 1 \in S
  <2>1. PICK g : IsUpTo(chunks, n, g)
    BY <1>2
  <2> DEFINE h == [i \in 0..(n + 1) |-> IF i = n + 1 THEN Rest(chunks, g, n + 1) ELSE g[i]]
  <2>2. ASSUME NEW i \in 0..(n + 1) PROVE h[i] = Rest(chunks, h, i)
    <3>1. i # 0 => i - 1 \in 0..n /\ h[i - 1] = g[i - 1]
      OBVIOUS
    <3>2. Rest(chunks, h, i) = Rest(chunks, g, i)
      BY <3>1 DEF Rest
    <3>3. CASE i = n + 1
      BY <3>2, <3>3
    <3>4. CASE i # n + 1
      <4>1. i \in 0..n /\ h[i] = g[i]
        BY <3>4
      <4>2. g[i] = Rest(chunks, g, i)
        BY <2>1, <4>1 DEF IsUpTo
      <4> QED BY <3>2, <4>1, <4>2
    <3> QED BY <3>3, <3>4
  <2>3. h = [i \in 0..(n + 1) |-> Rest(chunks, h, i)]
    BY <2>2
  <2>4. IsUpTo(chunks, n + 1, h)
    BY <2>3 DEF IsUpTo
  <2> QED BY <2>4
<1> HIDE DEF S
<1>3. Nat \subseteq S
  BY <1>1, <1>2, SetInduction
<1> QED BY <1>3 DEF S

(* The function knows the chunks before n and nothing else.                 *)
LEMMA UpToAgrees ==
  ASSUME NEW chunks, NEW more, NEW m \in Nat, NEW k \in Nat, m <= k,
         \A i \in 1..m : more[i] = chunks[i],
         NEW f, IsUpTo(chunks, m, f), NEW g, IsUpTo(more, k, g)
  PROVE  f[m] = g[m]
<1> DEFINE S == {n \in Nat : n <= m => f[n] = g[n]}
<1>0. \A n \in 0..m : f[n] = Rest(chunks, f, n) /\ g[n] = Rest(more, g, n)
  BY UpToAt
<1>1. 0 \in S
  BY <1>0 DEF Rest
<1>2. ASSUME NEW n \in Nat, n \in S PROVE n + 1 \in S
  <2> SUFFICES ASSUME n + 1 <= m PROVE f[n + 1] = g[n + 1]
    OBVIOUS
  <2>1. f[n] = g[n] /\ more[n + 1] = chunks[n + 1] /\ n + 1 \in 0..m /\ n + 1 # 0
    BY <1>2
  <2>2. (n + 1) - 1 = n
    OBVIOUS
  <2>3. Rest(chunks, f, n + 1) = Rest(more, g, n + 1)
    BY <2>1, <2>2 DEF Rest
  <2> QED BY <1>0, <2>1, <2>3
<1> HIDE DEF S
<1>3. Nat \subseteq S
  BY <1>1, <1>2, SetInduction
<1> QED BY <1>3 DEF S

(* Reading one more chunk. *)
LEMMA MessagesInAppend ==
  ASSUME NEW chunks \in Seq(Chunk), NEW c \in Chunk
  PROVE  MessagesIn(Append(chunks, c)) =
           IF c.at = Parts THEN Append(MessagesIn(chunks), MessageOf(c)) ELSE MessagesIn(chunks)
<1> DEFINE n == Len(chunks)
           more == Append(chunks, c)
           f == CHOOSE upTo : IsUpTo(chunks, n, upTo)
           g == CHOOSE upTo : IsUpTo(more, n + 1, upTo)
<1>1. n \in Nat /\ Len(more) = n + 1 /\ more[n + 1] = c /\ \A i \in 1..n : more[i] = chunks[i]
  OBVIOUS
<1>2. MessagesIn(chunks) = f[n]
  BY DEF MessagesIn, IsUpTo, Rest
<1>3. MessagesIn(more) = g[n + 1]
  BY <1>1 DEF MessagesIn, IsUpTo, Rest
<1> HIDE DEF n, more
<1>4. IsUpTo(chunks, n, f) /\ IsUpTo(more, n + 1, g)
  <2>1. n + 1 \in Nat
    BY <1>1
  <2>2. (\E upTo : IsUpTo(chunks, n, upTo)) /\ \E upTo : IsUpTo(more, n + 1, upTo)
    BY <1>1, <2>1, UpToExists
  <2> QED BY <2>2, Zenon
<1> HIDE DEF f, g
<1>5. g[n + 1] = Rest(more, g, n + 1)
  BY <1>1, <1>4, UpToAt
<1>6. f[n] = g[n]
  BY <1>1, <1>4, UpToAgrees
<1>7. (n + 1) - 1 = n /\ n + 1 # 0
  BY <1>1
<1> QED BY <1>1, <1>2, <1>3, <1>5, <1>6, <1>7 DEF Rest, more

LEMMA MessagesInNothing == MessagesIn(<<>>) = <<>>
<1> DEFINE f == CHOOSE upTo : IsUpTo(<<>>, 0, upTo)
<1>1. Len(<<>>) = 0
  OBVIOUS
<1>2. MessagesIn(<<>>) = f[0]
  BY <1>1 DEF MessagesIn, IsUpTo, Rest
<1>3. IsUpTo(<<>>, 0, f)
  BY UpToExists
<1> HIDE DEF f
<1>4. f[0] = Rest(<<>>, f, 0)
  BY <1>3, UpToAt
<1> QED BY <1>2, <1>4 DEF Rest

(* What the client has is made of chunks that end messages.                 *)
StreamInv ==
  /\ MessagesIn(sent) \in Seq([task : Task, answer : BOOLEAN])
  /\ \A i \in DOMAIN MessagesIn(sent) : \E j \in 1..Len(sent) :
       sent[j].at = Parts /\ MessagesIn(sent)[i] = MessageOf(sent[j])
  /\ \A t \in Task \ Request :
       task[t].pc \in {"encode", "write"} => task[t].kind = "note"

LEMMA InitStream == Init => StreamInv /\ Stream!Init
<1> SUFFICES ASSUME Init PROVE StreamInv /\ Stream!Init
  OBVIOUS
<1>1. MessagesIn(sent) = <<>>
  BY MessagesInNothing DEF Init
<1>2. \A t \in Task : task[t].pc = "new"
  BY DEF Init, New
<1>3. (Alive /\ ~broken) = TRUE
  BY DEF Init, Alive
<1>4. {t \in Task : task[t].pc # "new"} = {}
  BY <1>2
<1>5. Stream!Init
  BY <1>1, <1>3, <1>4 DEF Stream!Init
<1> QED BY <1>1, <1>2, <1>5 DEF StreamInv

(* One chunk more.                                                          *)
LEMMA ChunkInStream ==
  ASSUME Inv, StreamInv, NEW t \in Task, WriteChunk(t)
  PROVE  MessagesIn(sent') =
           IF task[t].at = Parts
           THEN Append(MessagesIn(sent), [task |-> t, answer |-> task[t].kind # "note"])
           ELSE MessagesIn(sent)
<1> DEFINE c == [task |-> t, kind |-> task[t].kind, at |-> task[t].at]
<1>1. c \in Chunk /\ sent \in Seq(Chunk)
  BY DEF Chunk, Inv, TypeOK, TaskState
<1>2. sent' = Append(sent, c)
  BY DEF WriteChunk
<1>3. MessageOf(c) = [task |-> t, answer |-> task[t].kind # "note"] /\ c.at = task[t].at
  BY DEF MessageOf
<1> HIDE DEF c
<1> QED BY <1>1, <1>2, <1>3, MessagesInAppend

LEMMA StreamStep == Inv /\ StreamInv /\ [Next]_vars => StreamInv'
<1> SUFFICES ASSUME Inv, StreamInv, [Next]_vars PROVE StreamInv'
  OBVIOUS
<1> DEFINE NotesOnly ==
      \A t \in Task \ Request : task[t].pc \in {"encode", "write"} => task[t].kind = "note"
<1>1. NotesOnly'
  <2> USE DEF Inv
  <2>1. ASSUME NEW t \in Task, NEW u \in Task, u # t,
               task' = [task EXCEPT ![t] = task'[t]]
        PROVE  task'[u] = task[u]
    BY <2>1 DEF TypeOK
  <2>2. NotesOnly
    BY DEF StreamInv
  <2> SUFFICES ASSUME NEW u \in Task \ Request, task'[u].pc \in {"encode", "write"}
               PROVE  task'[u].kind = "note"
    OBVIOUS
  <2>3. ASSUME NEW t \in Task, Receive(t) PROVE task'[u].kind = "note"
    BY <2>2, <2>3 DEF Receive, TypeOK, TaskState
  <2>4. ASSUME NEW t \in Task, NEW kind \in Kind \ {"note"}, HandleRequest(t, kind)
        PROVE  task'[u].kind = "note"
    BY <2>1, <2>2, <2>4, WriteType DEF HandleRequest
  <2>5. ASSUME NEW t \in Task, NEW notes \in 0..MaxNotes, HandleNotification(t, notes)
        PROVE  task'[u].kind = "note"
    <3>1. CASE notes = 0
      BY <2>1, <2>2, <2>5, <3>1, DoneType DEF HandleNotification
    <3>2. CASE notes # 0
      <4>1. notes - 1 \in 0..MaxNotes
        BY <3>2
      <4> QED BY <2>1, <2>2, <2>5, <3>2, <4>1, WriteType DEF HandleNotification
    <3> QED BY <3>1, <3>2
  <2>6. ASSUME NEW t \in Task, EncodeFails(t) PROVE task'[u].kind = "note"
    BY <2>1, <2>2, <2>6, WriteType DEF EncodeFails, Report
  <2>7. ASSUME NEW t \in Task, Lock(t) PROVE task'[u].kind = "note"
    BY <2>2, <2>7 DEF Lock, TypeOK, TaskState
  <2>8. ASSUME NEW t \in Task, WriteChunk(t) PROVE task'[u].kind = "note"
    <3>1. CASE task[t].at < Parts
      BY <2>2, <2>8, <3>1 DEF WriteChunk, TypeOK, TaskState
    <3>2. CASE ~(task[t].at < Parts)
      BY <2>1, <2>2, <2>8, <3>2, WriteEnds DEF WriteChunk
    <3> QED BY <3>1, <3>2
  <2>9. ASSUME NEW t \in Task, WriteFails(t) PROVE task'[u].kind = "note"
    <3>1. CASE task[t].kind = "note"
      BY <2>1, <2>2, <2>9, <3>1, DoneType DEF WriteFails, Report
    <3>2. CASE task[t].kind # "note"
      <4>1. t # u
        BY <2>2, <2>9, <3>2 DEF WriteFails
      <4> QED BY <2>1, <2>2, <2>9, <4>1, ReportEffect DEF WriteFails
    <3> QED BY <3>1, <3>2
  <2>10. CASE UNCHANGED task
    BY <2>2, <2>10
  <2> QED BY <2>3, <2>4, <2>5, <2>6, <2>7, <2>8, <2>9, <2>10, StepsOfTheClient
             DEF Next, Handle
<1>2. ASSUME NEW t \in Task, WriteChunk(t) PROVE StreamInv'
  <2> DEFINE old == MessagesIn(sent)
             m == [task |-> t, answer |-> task[t].kind # "note"]
             n == Len(sent)
  <2>1. /\ n \in Nat /\ Len(sent') = n + 1 /\ \A i \in 1..n : sent'[i] = sent[i]
        /\ sent'[n + 1] = [task |-> t, kind |-> task[t].kind, at |-> task[t].at]
    BY <1>2, ChunkEffect DEF Inv, TypeOK
  <2>2. /\ old \in Seq([task : Task, answer : BOOLEAN])
        /\ \A i \in DOMAIN old : \E j \in 1..n :
             sent[j].at = Parts /\ old[i] = MessageOf(sent[j])
    BY DEF StreamInv
  <2>3. MessagesIn(sent)' = IF task[t].at = Parts THEN Append(old, m) ELSE old
    BY <1>2, ChunkInStream
  <2>4. m \in [task : Task, answer : BOOLEAN]
    OBVIOUS
  <2>5. task[t].at = Parts => sent'[n + 1].at = Parts /\ m = MessageOf(sent'[n + 1])
    BY <2>1 DEF MessageOf
  <2> HIDE DEF old, m, n
  <2>6. \A i \in DOMAIN old : \E j \in 1..(n + 1) :
          sent'[j].at = Parts /\ old[i] = MessageOf(sent'[j])
    <3> SUFFICES ASSUME NEW i \in DOMAIN old
                 PROVE  \E j \in 1..(n + 1) : sent'[j].at = Parts /\ old[i] = MessageOf(sent'[j])
      OBVIOUS
    <3>1. PICK j \in 1..n : sent[j].at = Parts /\ old[i] = MessageOf(sent[j])
      BY <2>2
    <3> QED BY <2>1, <3>1
  <2>7. CASE task[t].at # Parts
    BY <1>1, <2>1, <2>2, <2>3, <2>6, <2>7 DEF StreamInv
  <2>8. CASE task[t].at = Parts
    <3>1. /\ Append(old, m) \in Seq([task : Task, answer : BOOLEAN])
          /\ DOMAIN Append(old, m) = 1..(Len(old) + 1)
          /\ Append(old, m)[Len(old) + 1] = m
          /\ \A i \in 1..Len(old) : Append(old, m)[i] = old[i]
          /\ Len(old) \in Nat /\ DOMAIN old = 1..Len(old)
      BY <2>2, <2>4
    <3>2. ASSUME NEW i \in DOMAIN Append(old, m)
          PROVE  \E j \in 1..(n + 1) :
                   sent'[j].at = Parts /\ Append(old, m)[i] = MessageOf(sent'[j])
      <4>1. CASE i = Len(old) + 1
        BY <2>1, <2>5, <2>8, <3>1, <4>1
      <4>2. CASE i # Len(old) + 1
        <5>1. i \in DOMAIN old /\ Append(old, m)[i] = old[i]
          BY <3>1, <4>2
        <5> QED BY <2>6, <5>1
      <4> QED BY <4>1, <4>2
    <3> QED BY <1>1, <2>1, <2>3, <2>8, <3>1, <3>2 DEF StreamInv
  <2> QED BY <2>7, <2>8
<1>3. CASE UNCHANGED sent
  BY <1>1, <1>3 DEF StreamInv
<1> QED BY <1>2, <1>3, OtherStepsKeepSent DEF Inv

(* What the client sees of a step, in terms of the variables of the stream. *)
Unseen ==
  /\ UNCHANGED <<MessagesIn(sent), Alive /\ ~broken>>
  /\ \A u \in Task : task'[u].pc # "new" <=> task[u].pc # "new"

LEMMA UnseenStutters == Unseen => UNCHANGED Stream!vars
BY DEF Unseen, Stream!vars

(* A task that has been received and goes on is nothing to see.             *)
LEMMA TaskUnseen ==
  ASSUME Inv, NEW t \in Task, task' = [task EXCEPT ![t] = task'[t]],
         task[t].pc # "new", task'[t].pc # "new",
         UNCHANGED <<sent, broken>>, broken \/ (Alive /\ Alive')
  PROVE  Unseen
<1>1. \A u \in Task \ {t} : task'[u] = task[u]
  BY DEF Inv, TypeOK
<1> QED BY <1>1 DEF Unseen

LEMMA RequestIsAnswered ==
  ASSUME Inv, StreamInv, NEW t \in Task, Stream!Answered(t)
  PROVE  task[t].pc = "done"
<1>1. PICK i \in DOMAIN MessagesIn(sent) :
        MessagesIn(sent)[i] = [task |-> t, answer |-> TRUE]
  BY DEF Stream!Answered
<1>2. PICK j \in 1..Len(sent) :
        sent[j].at = Parts /\ MessagesIn(sent)[i] = MessageOf(sent[j])
  BY DEF StreamInv
<1>3. [task |-> sent[j].task, answer |-> sent[j].kind # "note"] = [task |-> t, answer |-> TRUE]
  BY <1>1, <1>2 DEF MessageOf
<1>4. sent[j].task = t /\ (sent[j].kind # "note") = TRUE
  BY <1>3
<1> QED BY <1>2, <1>4 DEF IsAnswer, Inv, AnswerInv

(* The last chunk of a message is the message: an answer, or a notification. *)
LEMMA ChunkIsSeen ==
  ASSUME Inv, StreamInv, NEW t \in Task, WriteChunk(t)
  PROVE  Unseen \/ Stream!Answer(t) \/ Stream!Notify(t)
<1>1. Alive /\ ~broken /\ UNCHANGED broken /\ task[t].pc = "write"
  BY DEF WriteChunk
<1>2. CASE task[t].at < Parts
  <2>1. /\ task' = [task EXCEPT ![t] = task'[t]] /\ task'[t].pc = "write"
        /\ UNCHANGED main
    BY <1>2 DEF WriteChunk, Inv, TypeOK, TaskState
  <2>2. \A u \in Task \ {t} : task'[u] = task[u]
    BY <2>1 DEF Inv, TypeOK
  <2>3. MessagesIn(sent') = MessagesIn(sent)
    <3>1. task[t].at # Parts
      BY <1>2
    <3> QED BY <3>1, ChunkInStream
  <2> QED BY <1>1, <2>1, <2>2, <2>3 DEF Unseen, Alive
<1>3. CASE ~(task[t].at < Parts)
  <2>1. task[t].at = Parts
    BY <1>3 DEF Inv, TypeOK, TaskState
  <2>2. AfterWrite(t)
    BY <1>3 DEF WriteChunk
  <2>3. /\ task' = [task EXCEPT ![t] = task'[t]] /\ task'[t].pc \in {"encode", "done"}
        /\ main' \in {"read", main}
    BY <2>2, WriteEnds DEF Inv
  <2>4. \A u \in Task \ {t} : task'[u] = task[u]
    BY <2>3 DEF Inv, TypeOK
  <2>5. UNCHANGED {u \in Task : task[u].pc # "new"}
    BY <1>1, <2>3, <2>4
  <2>6. UNCHANGED (Alive /\ ~broken)
    BY <1>1, <2>3 DEF Alive
  <2>7. MessagesIn(sent') = Append(MessagesIn(sent), [task |-> t, answer |-> task[t].kind # "note"])
    BY <2>1, ChunkInStream
  <2>8. CASE task[t].kind = "note"
    <3>1. t \notin Request
      BY <2>8 DEF Inv, AnswerInv
    <3> QED BY <1>1, <2>5, <2>6, <2>7, <2>8, <3>1 DEF Stream!Notify
  <2>9. CASE task[t].kind # "note"
    <3>1. t \in Request
      BY <1>1, <2>9 DEF StreamInv
    <3>2. ~Stream!Answered(t)
      BY <1>1, RequestIsAnswered
    <3> QED BY <1>1, <2>5, <2>6, <2>7, <2>9, <3>1, <3>2 DEF Stream!Answer
  <2> QED BY <2>8, <2>9
<1> QED BY <1>2, <1>3

LEMMA StepIsStreamStep == Inv /\ StreamInv /\ [Next]_vars => [Stream!Next]_(Stream!vars)
<1> SUFFICES ASSUME Inv, StreamInv, [Next]_vars PROVE [Stream!Next]_(Stream!vars)
  OBVIOUS
<1>1. ASSUME NEW t \in Task, Receive(t) PROVE Stream!Receive(t)
  <2>1. /\ \A u \in Task \ {t} : task'[u] = task[u]
        /\ task[t].pc = "new" /\ task'[t].pc = "handle"
    BY <1>1 DEF Receive, Inv, TypeOK, TaskState
  <2>2. UNCHANGED (Alive /\ ~broken)
    BY <1>1 DEF Receive, Alive
  <2>3. UNCHANGED MessagesIn(sent)
    BY <1>1 DEF Receive
  <2> QED BY <2>1, <2>2, <2>3 DEF Stream!Receive
<1>2. ASSUME NEW t \in Task, NEW kind \in Kind \ {"note"}, HandleRequest(t, kind)
      PROVE  Unseen
  BY <1>2, WriteType, TaskUnseen DEF HandleRequest, Alive, Inv
<1>3. ASSUME NEW t \in Task, NEW notes \in 0..MaxNotes, HandleNotification(t, notes)
      PROVE  Unseen
  <2>1. CASE notes = 0
    BY <1>3, <2>1, DoneType, TaskUnseen DEF HandleNotification, Alive, Inv
  <2>2. CASE notes # 0
    <3>1. notes - 1 \in 0..MaxNotes
      BY <2>2
    <3> QED BY <1>3, <2>2, <3>1, WriteType, TaskUnseen DEF HandleNotification, Alive, Inv
  <2> QED BY <2>1, <2>2
<1>4. ASSUME NEW t \in Task, EncodeFails(t) PROVE Unseen
  BY <1>4, WriteType, TaskUnseen DEF EncodeFails, Report, Alive, Inv
<1>5. ASSUME NEW t \in Task, Lock(t) PROVE Unseen
  <2>1. /\ task' = [task EXCEPT ![t] = task'[t]]
        /\ task[t].pc = "encode" /\ task'[t].pc = "write"
    BY <1>5 DEF Lock, Inv, TypeOK, TaskState
  <2> QED BY <1>5, <2>1, TaskUnseen DEF Lock, Alive
<1>6. ASSUME NEW t \in Task, WriteFails(t) PROVE Unseen
  BY <1>6, ReportEffect, TaskUnseen DEF WriteFails, Inv
<1>7. ASSUME ClientReads \/ Drain \/ Terminated \/ UNCHANGED vars PROVE Unseen
  BY <1>7 DEF ClientReads, Drain, StopWith, Terminated, vars, Unseen, Alive
<1>8. ASSUME ClientCloses \/ Abort \/ Wait PROVE [Stream!Next]_(Stream!vars)
  <2>1. /\ UNCHANGED <<MessagesIn(sent), {u \in Task : task[u].pc # "new"}>>
        /\ (Alive /\ ~broken)' => Alive /\ ~broken
    BY <1>8 DEF ClientCloses, Abort, Wait, StopWith, Alive
  <2>2. CASE UNCHANGED (Alive /\ ~broken)
    BY <2>1, <2>2 DEF Stream!vars
  <2>3. CASE (Alive /\ ~broken) /\ ~(Alive /\ ~broken)'
    BY <2>1, <2>3 DEF Stream!Next, Stream!End
  <2> QED BY <2>1, <2>2, <2>3
<1>9. ASSUME NEW t \in Task, WriteChunk(t) PROVE [Stream!Next]_(Stream!vars)
  BY <1>9, ChunkIsSeen, UnseenStutters DEF Stream!Next
<1>10. ASSUME NEW t \in Task, Handle(t) PROVE [Stream!Next]_(Stream!vars)
  BY <1>2, <1>3, <1>4, <1>5, <1>6, <1>9, <1>10, UnseenStutters DEF Handle
<1>11. ASSUME NEW t \in Task, Receive(t) PROVE [Stream!Next]_(Stream!vars)
  BY <1>1, <1>11 DEF Stream!Next
<1> QED BY <1>7, <1>8, <1>10, <1>11, UnseenStutters DEF Next

(* Every step of the writers and of the client is a step of the stream of   *)
(* whole messages, or none the client sees.                                 *)
THEOREM OutputIsAStream == Spec => Stream!Steps
<1>1. Init => Stream!Init /\ StreamInv
  BY InitStream
<1>2. Spec => []StreamInv
  BY <1>1, StreamStep, InvIsInvariant, PTL DEF Spec
<1> QED BY <1>1, <1>2, StepIsStreamStep, InvIsInvariant, PTL DEF Spec, Stream!Steps
-----------------------------------------------------------------------------
(* The reading half.                                                        *)
HIDE TaskAssumption
HIDE SizeAssumption
HIDE DEF TaskAssumption, SizeAssumption, Kind

Frame == [payload : Payload, end : Nat, good : BOOLEAN]

Begin(i) == IF i = 1 THEN 0 ELSE frames[i - 1].end
HeaderEnd(i) == frames[i].end - Len(frames[i].payload)
InHeader(i) == {k \in (Begin(i) + 1)..(HeaderEnd(i) - 1) : k <= Len(input)}

TypeInv ==
  /\ input \in Seq(Items) /\ frames \in Seq(Frame) /\ closed \in BOOLEAN
  /\ position \in 0..Len(input) /\ phase \in {"header", "payload", "end", "error"}
  /\ contentLength \in Nat \cup {Unset}
  /\ delivered \in Seq(Payload)

(* What is at the places of frame i, as far as it has arrived. *)
HeaderAt(i) ==
  /\ Begin(i) \in Nat /\ HeaderEnd(i) \in Nat
  /\ Begin(i) < HeaderEnd(i)
  /\ \A k \in InHeader(i) : input[k] \in HeaderLines
  /\ HeaderEnd(i) <= Len(input) => input[HeaderEnd(i)] = Blank

PayloadAt(i) ==
  \A k \in 1..Len(frames[i].payload) :
    HeaderEnd(i) + k <= Len(input) => input[HeaderEnd(i) + k] = frames[i].payload[k]

NotCounted(i) ==
  ~frames[i].good /\ \A k \in InHeader(i) : input[k].kind # "length"

Counted(i) ==
  /\ Begin(i) < HeaderEnd(i) - 1
  /\ HeaderEnd(i) - 1 <= Len(input) =>
       input[HeaderEnd(i) - 1] = ContentLength(Len(frames[i].payload))
  /\ frames[i].good => frames[i].payload \notin Malformed
                       /\ \A k \in InHeader(i) : input[k] # Broken
  /\ ~frames[i].good => \/ frames[i].payload \in Malformed
                        \/ \E k \in (Begin(i) + 1)..(HeaderEnd(i) - 1) :
                             k <= Len(input) => input[k] = Broken

FrameAt(i) == HeaderAt(i) /\ PayloadAt(i) /\ (NotCounted(i) \/ Counted(i))

Sent == IF frames = <<>> THEN 0 ELSE frames[Len(frames)].end

(* The frames are one after the other, and nothing else was sent; while the *)
(* client lives all of it has arrived.                                     *)
Layout ==
  /\ \A i \in DOMAIN frames : FrameAt(i)
  /\ Len(input) <= Sent
  /\ ~closed => /\ Len(input) = Sent
                /\ \A i \in DOMAIN frames : Whole(i)

(* In a header the reader remembers the last length, and has met nothing    *)
(* that stops it.                                                          *)
Passed == (Begin(Undelivered) + 1)..position

HeaderInv ==
  phase = "header" =>
    /\ Begin(Undelivered) \in Nat /\ Begin(Undelivered) <= position
    /\ IF Undelivered \in DOMAIN frames
       THEN position < HeaderEnd(Undelivered) ELSE position = Begin(Undelivered)
    /\ \A k \in Passed : input[k].kind # "broken"
    /\ (\A k \in Passed : input[k].kind # "length") => contentLength = Unset
    /\ \A k \in Passed : k = position /\ input[k].kind = "length" =>
                           contentLength = input[k].length

PayloadInv ==
  phase = "payload" =>
    /\ Undelivered \in DOMAIN frames
    /\ position = HeaderEnd(Undelivered)
    /\ contentLength = Len(frames[Undelivered].payload)
    /\ frames[Undelivered].good <=> frames[Undelivered].payload \notin Malformed

DeliveredInv ==
  /\ DeliveredAsSent
  /\ \A i \in DOMAIN delivered : frames[i].end <= position

ReaderInv ==
  TypeInv /\ Layout /\ HeaderInv /\ PayloadInv /\ DeliveredInv /\ StopsForAReason
-----------------------------------------------------------------------------
(* What the client writes at once, and where it lands. *)

Lands(all, seq, before, length, payload) ==
  LET head == Len(seq) + Len(before) + Len(length) + 1
  IN  /\ all \in Seq(Items) /\ Len(all) = head + Len(payload)
      /\ Len(length) \in {0, 1}
      /\ \A k \in 1..Len(seq) : all[k] = seq[k]
      /\ \A k \in 1..Len(before) : all[Len(seq) + k] = before[k]
      /\ Len(length) = 1 =>
           all[Len(seq) + Len(before) + 1] = ContentLength(Len(payload))
      /\ all[head] = Blank
      /\ \A k \in 1..Len(payload) : all[head + k] = payload[k]

LEMMA JoinedItems ==
  ASSUME NEW s \in Seq(Items), NEW t \in Seq(Items)
  PROVE  /\ s \o t \in Seq(Items) /\ Len(s \o t) = Len(s) + Len(t)
         /\ Len(s) \in Nat /\ Len(t) \in Nat
         /\ \A i \in 1..Len(s) : (s \o t)[i] = s[i]
         /\ \A i \in 1..Len(t) : (s \o t)[Len(s) + i] = t[i]
<1>1. Len(s) \in Nat /\ Len(t) \in Nat
  BY LenProperties
<1>2. /\ s \o t \in Seq(Items) /\ Len(s \o t) = Len(s) + Len(t)
      /\ \A i \in 1..Len(s) + Len(t) :
           (s \o t)[i] = IF i <= Len(s) THEN s[i] ELSE t[i - Len(s)]
  BY ConcatProperties
<1> DEFINE st == s \o t
<1> HIDE DEF st
<1>3. \A i \in 1..Len(s) : st[i] = s[i]
  BY <1>1, <1>2 DEF st
<1>4. ASSUME NEW i \in 1..Len(t) PROVE st[Len(s) + i] = t[i]
  <2>1. Len(s) + i \in 1..Len(s) + Len(t) /\ ~(Len(s) + i <= Len(s))
    BY <1>1
  <2>2. (Len(s) + i) - Len(s) = i
    BY <1>1
  <2> QED BY <1>2, <2>1, <2>2 DEF st
<1> QED BY <1>1, <1>2, <1>3, <1>4 DEF st

LEMMA SentItems ==
  ASSUME NEW seq \in Seq(Items), NEW before \in Seq(HeaderLines),
         NEW payload \in Seq(Items), NEW length,
         length = <<>> \/ length = <<ContentLength(Len(payload))>>
  PROVE  Lands(seq \o before \o length \o <<Blank>> \o payload, seq, before, length, payload)
<1> DEFINE s1 == seq \o before
           s2 == s1 \o length
           s3 == s2 \o <<Blank>>
           s4 == s3 \o payload
<1> HIDE DEF s1, s2, s3, s4
<1>1. HeaderLines \subseteq Items /\ Blank \in Items
  <2>1. Other \in Items /\ Broken \in Items /\ Blank \in Items
    BY DEF Items, Blank, Item, Other, Broken
  <2>2. \A line \in [kind : {"length"}, length : Nat] : line \in Items
    BY DEF Items
  <2> QED BY <2>1, <2>2 DEF HeaderLines
<1>2. before \in Seq(Items)
  BY <1>1, SeqMonotonic
<1>3. <<Blank>> \in Seq(Items) /\ Len(<<Blank>>) = 1 /\ <<Blank>>[1] = Blank
  BY <1>1
<1>4. /\ length \in Seq(Items) /\ Len(length) \in {0, 1}
      /\ Len(length) = 1 => length[1] = ContentLength(Len(payload))
  <2>1. CASE length = <<>>
    BY <2>1
  <2>2. CASE length = <<ContentLength(Len(payload))>>
    <3>1. Len(payload) \in Nat
      BY LenProperties
    <3>2. ContentLength(Len(payload)) \in Items
      BY <3>1 DEF Items, Item, ContentLength
    <3> QED BY <2>2, <3>2
  <2> QED BY <2>1, <2>2
<1>5. /\ s1 \in Seq(Items) /\ Len(s1) = Len(seq) + Len(before)
      /\ Len(seq) \in Nat /\ Len(before) \in Nat
      /\ \A i \in 1..Len(seq) : s1[i] = seq[i]
      /\ \A i \in 1..Len(before) : s1[Len(seq) + i] = before[i]
  BY <1>2, JoinedItems DEF s1
<1>6. /\ s2 \in Seq(Items) /\ Len(s2) = Len(s1) + Len(length)
      /\ Len(s1) \in Nat /\ Len(length) \in Nat
      /\ \A i \in 1..Len(s1) : s2[i] = s1[i]
      /\ \A i \in 1..Len(length) : s2[Len(s1) + i] = length[i]
  BY <1>4, <1>5, JoinedItems DEF s2
<1>7. /\ s3 \in Seq(Items) /\ Len(s3) = Len(s2) + 1
      /\ Len(s2) \in Nat
      /\ \A i \in 1..Len(s2) : s3[i] = s2[i]
      /\ s3[Len(s2) + 1] = Blank
  <2> DEFINE line == <<Blank>>
  <2>1. line \in Seq(Items) /\ Len(line) = 1 /\ line[1] = Blank /\ s3 = s2 \o line
    BY <1>3 DEF s3
  <2> HIDE DEF line
  <2>2. /\ s3 \in Seq(Items) /\ Len(s3) = Len(s2) + Len(line) /\ Len(s2) \in Nat
        /\ \A i \in 1..Len(s2) : s3[i] = s2[i]
        /\ \A i \in 1..Len(line) : s3[Len(s2) + i] = line[i]
    BY <1>6, <2>1, JoinedItems
  <2> QED BY <2>1, <2>2
<1>8. /\ s4 \in Seq(Items) /\ Len(s4) = Len(s3) + Len(payload)
      /\ Len(s3) \in Nat
      /\ \A i \in 1..Len(s3) : s4[i] = s3[i]
      /\ \A i \in 1..Len(payload) : s4[Len(s3) + i] = payload[i]
  BY <1>7, JoinedItems DEF s4
<1> DEFINE head == Len(seq) + Len(before) + Len(length) + 1
<1>9. head = Len(s3) /\ Len(s4) = head + Len(payload)
  BY <1>5, <1>6, <1>7, <1>8
<1>10. ASSUME NEW k \in 1..Len(seq) PROVE s4[k] = seq[k]
  <2>1. k \in 1..Len(s1) /\ k \in 1..Len(s2) /\ k \in 1..Len(s3)
    BY <1>5, <1>6, <1>7
  <2> QED BY <1>5, <1>6, <1>7, <1>8, <2>1
<1>11. ASSUME NEW k \in 1..Len(before) PROVE s4[Len(seq) + k] = before[k]
  <2> DEFINE at == Len(seq) + k
  <2>1. at \in 1..Len(s1) /\ at \in 1..Len(s2) /\ at \in 1..Len(s3)
    BY <1>5, <1>6, <1>7
  <2>2. s1[at] = before[k]
    BY <1>5
  <2> HIDE DEF at
  <2>3. s4[at] = before[k]
    BY <1>6, <1>7, <1>8, <2>1, <2>2
  <2> QED BY <2>3 DEF at
<1>12. ASSUME Len(length) = 1
       PROVE  s4[Len(seq) + Len(before) + 1] = ContentLength(Len(payload))
  <2> DEFINE at == Len(s1) + 1
  <2>1. at \in 1..Len(s2) /\ at \in 1..Len(s3)
    BY <1>5, <1>6, <1>7, <1>12
  <2>2. s2[at] = length[1]
    BY <1>6, <1>12
  <2>3. s4[at] = length[1]
    BY <1>7, <1>8, <2>1, <2>2
  <2> HIDE DEF at
  <2> QED BY <1>4, <1>5, <1>12, <2>3 DEF at
<1>13. s4[head] = Blank
  <2>1. Len(s2) + 1 \in 1..Len(s3)
    BY <1>7
  <2>2. s4[Len(s2) + 1] = Blank
    BY <1>7, <1>8, <2>1
  <2> QED BY <1>7, <1>9, <2>2
<1>14. \A k \in 1..Len(payload) : s4[head + k] = payload[k]
  <2> HIDE DEF head
  <2> QED BY <1>8, <1>9
<1> HIDE DEF head
<1>15. Lands(s4, seq, before, length, payload)
  BY <1>4, <1>8, <1>9, <1>10, <1>11, <1>12, <1>13, <1>14 DEF Lands, head
<1> QED BY <1>15 DEF s1, s2, s3, s4

LEMMA FrameType ==
  ASSUME TypeInv, NEW i \in DOMAIN frames
  PROVE  /\ i \in 1..Len(frames) /\ Len(frames) \in Nat
         /\ frames[i] \in Frame /\ frames[i].payload \in Payload /\ frames[i].end \in Nat
<1>1. i \in 1..Len(frames) /\ Len(frames) \in Nat
  BY LenProperties DEF TypeInv
<1>2. frames[i] \in Frame
  BY <1>1, ElementOfSeq DEF TypeInv
<1> QED BY <1>1, <1>2 DEF Frame

(* A frame that is neither moved nor extended stays what it was, whether    *)
(* more arrives behind it or less of it arrives.                           *)
LEMMA FrameStays ==
  ASSUME ClientSendsItems, TypeInv, NEW i \in DOMAIN frames, FrameAt(i),
         frames'[i] = frames[i], i > 1 => frames'[i - 1] = frames[i - 1],
         Len(input') \in Nat,
         \A k \in 1..frames[i].end :
           k <= Len(input') => k <= Len(input) /\ input'[k] = input[k]
  PROVE  FrameAt(i)' /\ Begin(i)' = Begin(i) /\ HeaderEnd(i)' = HeaderEnd(i)
<1> DEFINE size == Len(frames[i].payload)
<1>1. i \in Nat /\ i >= 1 /\ frames[i].end \in Nat /\ frames[i].payload \in Payload
  BY FrameType
<1>2. Begin(i)' = Begin(i) /\ HeaderEnd(i)' = HeaderEnd(i)
  BY <1>1 DEF Begin, HeaderEnd
<1>3. size \in Nat
  BY <1>1, LenProperties DEF ClientSendsItems
<1>4. /\ Begin(i) \in Nat /\ HeaderEnd(i) \in Nat /\ Begin(i) < HeaderEnd(i)
      /\ HeaderEnd(i) + size = frames[i].end /\ Len(input) \in Nat
  BY <1>1, <1>3, LenProperties DEF FrameAt, HeaderAt, HeaderEnd, TypeInv
<1>5. size = Len(frames'[i].payload)
  OBVIOUS
<1> HIDE DEF size
<1>6. \A k \in InHeader(i)' : k \in InHeader(i) /\ input'[k] = input[k]
  BY <1>2, <1>3, <1>4 DEF InHeader
<1>7. HeaderAt(i)'
  <2>1. HeaderEnd(i) <= Len(input') => input'[HeaderEnd(i)] = Blank
    BY <1>3, <1>4 DEF FrameAt, HeaderAt
  <2> QED BY <1>2, <1>4, <1>6, <2>1 DEF FrameAt, HeaderAt
<1>8. PayloadAt(i)'
  <2>1. ASSUME NEW k \in 1..size, HeaderEnd(i) + k <= Len(input')
        PROVE  input'[HeaderEnd(i) + k] = frames[i].payload[k]
    <3>1. HeaderEnd(i) + k \in 1..frames[i].end
      BY <1>3, <1>4
    <3>2. /\ HeaderEnd(i) + k <= Len(input)
          /\ input'[HeaderEnd(i) + k] = input[HeaderEnd(i) + k]
      BY <2>1, <3>1
    <3> QED BY <3>2 DEF FrameAt, PayloadAt, size
  <2> QED BY <1>2, <1>5, <2>1 DEF PayloadAt
<1>9. ASSUME NotCounted(i) PROVE NotCounted(i)'
  BY <1>6, <1>9 DEF NotCounted
<1>10. ASSUME Counted(i) PROVE Counted(i)'
  <2>1. HeaderEnd(i) - 1 <= Len(input') => input'[HeaderEnd(i) - 1] = input[HeaderEnd(i) - 1]
                                          /\ HeaderEnd(i) - 1 <= Len(input)
    BY <1>3, <1>4, <1>10 DEF Counted
  <2>2. \A k \in (Begin(i) + 1)..(HeaderEnd(i) - 1) :
          k <= Len(input') => k <= Len(input) /\ input'[k] = input[k]
    BY <1>3, <1>4
  <2>3. HeaderEnd(i) - 1 <= Len(input') =>
          input'[HeaderEnd(i) - 1] = ContentLength(size)
    BY <1>10, <2>1 DEF Counted, size
  <2> QED BY <1>2, <1>5, <1>6, <1>10, <2>2, <2>3 DEF Counted
<1> QED BY <1>2, <1>7, <1>8, <1>9, <1>10 DEF FrameAt
-----------------------------------------------------------------------------
(* The client's steps. *)

LEMMA SendLaysOut ==
  ASSUME ClientSendsItems, TypeInv, Layout, NEW payload \in Payload, NEW before \in Before,
         NEW counted \in BOOLEAN, Send(payload, before, counted),
         NEW n, n = Len(frames) + 1
  PROVE  /\ TypeInv' /\ Layout'
         /\ \A k \in 1..Len(input) : input'[k] = input[k]
         /\ \A i \in DOMAIN frames : /\ i \in DOMAIN frames' /\ frames'[i] = frames[i]
                                     /\ Begin(i)' = Begin(i) /\ HeaderEnd(i)' = HeaderEnd(i)
         /\ DOMAIN frames' = 1..n
         /\ Begin(n)' = Begin(n) /\ Begin(n) < HeaderEnd(n)'
<1> DEFINE length == IF counted THEN <<ContentLength(Len(payload))>> ELSE <<>>
           all == input \o before \o length \o <<Blank>> \o payload
           head == Len(input) + Len(before) + Len(length) + 1
           frame == [payload |-> payload, end |-> Len(all),
                     good |-> counted /\ payload \notin Malformed /\ Broken \notin Range(before)]
<1>1. input' = all /\ frames' = Append(frames, frame) /\ ~closed
  BY DEF Send
<1>2. /\ input \in Seq(Items) /\ frames \in Seq(Frame)
      /\ before \in Seq(HeaderLines) /\ payload \in Seq(Items)
  BY DEF TypeInv, ClientSendsItems
<1>3. /\ all \in Seq(Items) /\ Len(all) = head + Len(payload)
      /\ Len(length) \in {0, 1}
      /\ \A k \in 1..Len(input) : all[k] = input[k]
      /\ \A k \in 1..Len(before) : all[Len(input) + k] = before[k]
      /\ Len(length) = 1 =>
           all[Len(input) + Len(before) + 1] = ContentLength(Len(payload))
      /\ all[head] = Blank
      /\ \A k \in 1..Len(payload) : all[head + k] = payload[k]
  <2>1. length = <<>> \/ length = <<ContentLength(Len(payload))>>
    OBVIOUS
  <2> HIDE DEF length
  <2>2. Lands(all, input, before, length, payload)
    BY <1>2, <2>1, SentItems
  <2> HIDE DEF all
  <2> QED BY <2>2 DEF Lands
<1>4. Len(length) = IF counted THEN 1 ELSE 0
  OBVIOUS
<1>5. /\ Len(input) \in Nat /\ Len(before) \in Nat /\ Len(payload) \in Nat
      /\ Len(frames) \in Nat /\ DOMAIN frames = 1..Len(frames) /\ n \in Nat
      /\ DOMAIN before = 1..Len(before)
  BY <1>2, LenProperties
<1> HIDE DEF length, all
<1>6. frame \in Frame
  <2>1. Len(all) \in Nat
    BY <1>3, LenProperties
  <2> QED BY <2>1 DEF Frame
<1> HIDE DEF frame
<1>7. /\ frames' \in Seq(Frame) /\ Len(frames') = n
      /\ \A i \in 1..Len(frames) : frames'[i] = frames[i]
      /\ frames'[n] = frame
  BY <1>1, <1>2, <1>6, AppendProperties
<1>8. DOMAIN frames' = 1..n
  BY <1>7, LenProperties
<1>9. TypeInv'
  <2>1. Len(input) <= Len(all) /\ Len(all) \in Nat
    BY <1>3, <1>4, <1>5
  <2>2. position' \in 0..Len(input')
    BY <1>1, <1>5, <2>1 DEF TypeInv, Send
  <2> QED BY <1>1, <1>3, <1>7, <2>2 DEF TypeInv, Send
<1>10. ASSUME NEW i \in DOMAIN frames
       PROVE  FrameAt(i)' /\ Begin(i)' = Begin(i) /\ HeaderEnd(i)' = HeaderEnd(i)
  <2>1. frames'[i] = frames[i] /\ (i > 1 => frames'[i - 1] = frames[i - 1])
    BY <1>5, <1>7
  <2>2. FrameAt(i) /\ frames[i].end <= Len(input)
    BY <1>1 DEF Layout, Whole
  <2>3. \A k \in 1..frames[i].end : k <= Len(input) /\ input'[k] = input[k]
    BY <1>1, <1>3, <1>5, <2>2, FrameType
  <2>4. Len(input') \in Nat
    BY <1>9, LenProperties DEF TypeInv
  <2> QED BY <2>1, <2>2, <2>3, <2>4, FrameStays
<1>11. Begin(n)' = Begin(n) /\ Begin(n) = Len(input)
  <2>1. Begin(n) = Len(input)
    <3>1. frames = <<>> <=> n = 1
      BY <1>2, <1>5, EmptySeq
    <3> QED BY <1>1, <1>5, <3>1 DEF Layout, Begin, Sent
  <2>2. n > 1 => frames'[n - 1] = frames[n - 1]
    BY <1>5, <1>7
  <2> QED BY <2>1, <2>2, <1>5 DEF Begin
<1>12. /\ frames'[n].payload = payload /\ frames'[n].end = Len(all)
       /\ frames'[n].good <=> counted /\ payload \notin Malformed /\ Broken \notin Range(before)
  <2>1. /\ frame.payload = payload /\ frame.end = Len(all)
        /\ frame.good <=> counted /\ payload \notin Malformed /\ Broken \notin Range(before)
    BY DEF frame
  <2> QED BY <1>7, <2>1
<1>13. HeaderEnd(n)' = head /\ head \in Nat
  <2>1. Len(all) - Len(payload) = head /\ head \in Nat
    BY <1>3, <1>4, <1>5
  <2> QED BY <1>12, <2>1 DEF HeaderEnd
<1>14. FrameAt(n)'
  <2>1. /\ Len(input') = head + Len(payload)
        /\ head = Len(input) + Len(before) + Len(length) + 1 /\ Len(length) \in {0, 1}
    BY <1>1, <1>3
  <2> HIDE DEF head
  <2>2. \A k \in InHeader(n)' : k \in (Len(input) + 1)..(head - 1)
    BY <1>11, <1>13 DEF InHeader
  <2>3. \A k \in 1..Len(before) : input'[Len(input) + k] = before[k] /\ before[k] \in HeaderLines
    BY <1>1, <1>2, <1>3, ElementOfSeq
  <2>4. \A k \in (Len(input) + 1)..(Len(input) + Len(before)) :
          /\ input'[k] = before[k - Len(input)] /\ k - Len(input) \in DOMAIN before
          /\ input'[k] \in HeaderLines
    <3>1. ASSUME NEW k \in (Len(input) + 1)..(Len(input) + Len(before))
          PROVE  k - Len(input) \in 1..Len(before) /\ Len(input) + (k - Len(input)) = k
      BY <1>5
    <3> QED BY <1>5, <2>3, <3>1
  <2>5. Len(length) = 1 =>
          /\ input'[head - 1] = ContentLength(Len(payload))
          /\ head - 1 = Len(input) + Len(before) + 1
    <3>1. Len(length) = 1 => head - 1 = Len(input) + Len(before) + 1
      BY <1>5, <2>1
    <3> QED BY <1>1, <1>3, <3>1
  <2>6. ContentLength(Len(payload)) \in HeaderLines
    BY <1>5 DEF ContentLength, Item, HeaderLines
  <2>7. HeaderAt(n)'
    <3>1. \A k \in InHeader(n)' : input'[k] \in HeaderLines
      <4>1. ASSUME NEW k \in (Len(input) + 1)..(head - 1)
            PROVE  \/ k \in (Len(input) + 1)..(Len(input) + Len(before))
                   \/ k = head - 1 /\ Len(length) = 1
        <5>1. CASE Len(length) = 0
          BY <1>5, <2>1, <5>1
        <5>2. CASE Len(length) = 1
          BY <1>5, <2>1, <5>2
        <5> QED BY <2>1, <5>1, <5>2
      <4> QED BY <2>2, <2>4, <2>5, <2>6, <4>1
    <3>2. input'[head] = Blank
      BY <1>1, <1>3
    <3>3. Len(input) < head /\ Len(input) \in Nat
      BY <1>5, <2>1
    <3> QED BY <1>11, <1>13, <3>1, <3>2, <3>3 DEF HeaderAt
  <2>8. PayloadAt(n)'
    BY <1>1, <1>3, <1>12, <1>13 DEF PayloadAt
  <2>9. CASE ~counted
    <3>1. \A k \in InHeader(n)' : k \in (Len(input) + 1)..(Len(input) + Len(before))
      BY <1>4, <1>5, <2>1, <2>2, <2>9
    <3>2. \A i \in DOMAIN before : before[i].kind # "length"
      BY <2>9 DEF Send
    <3>3. NotCounted(n)'
      BY <1>12, <2>4, <2>9, <3>1, <3>2 DEF NotCounted
    <3> QED BY <2>7, <2>8, <3>3 DEF FrameAt
  <2>10. CASE counted
    <3>1. Len(length) = 1 /\ Len(input) < head - 1
      BY <1>4, <1>5, <2>1, <2>10
    <3>2. ASSUME frames'[n].good, NEW k \in InHeader(n)' PROVE input'[k] # Broken
      <4>1. k \in (Len(input) + 1)..(Len(input) + Len(before)) \/ k = head - 1
        BY <1>5, <2>1, <2>2, <3>1
      <4>2. CASE k \in (Len(input) + 1)..(Len(input) + Len(before))
        BY <1>12, <2>4, <3>2, <4>2 DEF Range
      <4>3. CASE k = head - 1
        BY <2>5, <3>1, <4>3 DEF ContentLength, Item, Broken
      <4> QED BY <4>1, <4>2, <4>3
    <3>3. ASSUME ~frames'[n].good, payload \in Payload, payload \notin Malformed
          PROVE  \E k \in (Len(input) + 1)..(head - 1) : input'[k] = Broken
      <4>1. PICK i \in 1..Len(before) : before[i] = Broken
        BY <1>5, <1>12, <2>10, <3>3 DEF Range
      <4>2. Len(input) + i \in (Len(input) + 1)..(head - 1)
        BY <1>5, <2>1
      <4> QED BY <2>3, <4>1, <4>2
    <3>4. Counted(n)'
      BY <1>11, <1>12, <1>13, <2>5, <3>1, <3>2, <3>3 DEF Counted
    <3> QED BY <2>7, <2>8, <3>4 DEF FrameAt
  <2> QED BY <2>9, <2>10
<1>15. Layout'
  <2>1. Sent' = Len(input')
    <3>1. frames' # <<>>
      BY <1>5, <1>7, EmptySeq
    <3> QED BY <1>1, <1>7, <1>12, <3>1 DEF Sent
  <2>2. ASSUME NEW i \in DOMAIN frames' PROVE Whole(i)'
    <3>1. CASE i \in DOMAIN frames
      <4>1. frames[i].end <= Len(input) /\ frames[i].end \in Nat
        BY <1>1, <3>1, FrameType DEF Layout, Whole
      <4>2. frames'[i] = frames[i]
        BY <1>5, <1>7, <3>1
      <4>3. Len(input) <= Len(input') /\ Len(input') \in Nat
        BY <1>1, <1>3, <1>4, <1>5
      <4> QED BY <1>5, <4>1, <4>2, <4>3 DEF Whole
    <3>2. CASE i = n
      <4>1. Len(input') \in Nat /\ frames'[i].end = Len(input')
        BY <1>1, <1>3, <1>4, <1>5, <1>12, <3>2
      <4> QED BY <4>1 DEF Whole
    <3> QED BY <1>5, <1>8, <3>1, <3>2
  <2>3. closed' = closed
    BY DEF Send
  <2>4. \A i \in DOMAIN frames' : FrameAt(i)'
    <3>1. \A i \in DOMAIN frames' : i \in DOMAIN frames \/ i = n
      BY <1>5, <1>8
    <3> QED BY <1>10, <1>14, <3>1
  <2>5. Len(input') \in Nat
    BY <1>9, LenProperties DEF TypeInv
  <2>6. Len(input') <= Sent'
    BY <2>1, <2>5
  <2> QED BY <2>1, <2>2, <2>4, <2>6 DEF Layout
<1> QED
  <2>1. Begin(n) < HeaderEnd(n)'
    BY <1>4, <1>5, <1>11, <1>13
  <2> QED BY <1>1, <1>3, <1>5, <1>7, <1>8, <1>9, <1>10, <1>11, <1>15, <2>1

LEMMA CloseLaysOut ==
  ASSUME ClientSendsItems, TypeInv, Layout, Close
  PROVE  /\ TypeInv' /\ Layout' /\ position <= Len(input')
         /\ \A k \in 1..position : input'[k] = input[k]
         /\ frames' = frames
         /\ \A i \in DOMAIN frames : Begin(i)' = Begin(i) /\ HeaderEnd(i)' = HeaderEnd(i)
<1>1. PICK m \in position..Len(input) : input' = SubSeq(input, 1, m)
  BY DEF Close
<1>2. /\ input \in Seq(Items) /\ Len(input) \in Nat /\ position \in Nat
      /\ m \in Nat /\ m <= Len(input) /\ position <= m
  BY <1>1, LenProperties DEF TypeInv
<1>3. \A k \in 1..m : input[k] \in Items
  BY <1>2, ElementOfSeq
<1>4. /\ input' \in Seq(Items) /\ Len(input') = m
      /\ \A k \in 1..m : input'[k] = input[k]
  BY <1>1, <1>2, <1>3, SubSeqProperties
<1>5. frames' = frames /\ closed' = TRUE
  BY DEF Close
<1>6. TypeInv'
  BY <1>2, <1>4, <1>5 DEF TypeInv, Close
<1>7. ASSUME NEW i \in DOMAIN frames
      PROVE  FrameAt(i)' /\ Begin(i)' = Begin(i) /\ HeaderEnd(i)' = HeaderEnd(i)
  <2>1. FrameAt(i) /\ frames[i].end \in Nat
    BY FrameType DEF Layout
  <2>2. \A k \in 1..frames[i].end :
          k <= Len(input') => k <= Len(input) /\ input'[k] = input[k]
    BY <1>2, <1>4, <2>1
  <2>3. /\ frames'[i] = frames[i] /\ (i > 1 => frames'[i - 1] = frames[i - 1])
        /\ Len(input') \in Nat
    BY <1>2, <1>4, <1>5
  <2> QED BY <2>1, <2>2, <2>3, FrameStays
<1>8. Layout'
  <2>1. Sent' = Sent /\ Sent \in Nat /\ Len(input) <= Sent
    BY <1>2, <1>5, FrameType DEF Sent, Layout, TypeInv
  <2>2. Len(input') <= Sent'
    BY <1>2, <1>4, <2>1
  <2> QED BY <1>5, <1>7, <2>2 DEF Layout
<1> QED BY <1>2, <1>4, <1>5, <1>6, <1>7, <1>8

(* The frame that is read next. *)
LEMMA NextFrame ==
  ASSUME TypeInv, DeliveredAsSent
  PROVE  /\ Len(delivered) \in Nat /\ Len(frames) \in Nat
         /\ Undelivered \in 1..(Len(frames) + 1)
         /\ DOMAIN frames = 1..Len(frames) /\ DOMAIN delivered = 1..Len(delivered)
BY LenProperties DEF TypeInv, DeliveredAsSent, Undelivered

(* What the client does further on does not disturb the reader. *)
LEMMA ReaderStays ==
  ASSUME TypeInv, TypeInv', HeaderInv, PayloadInv, DeliveredInv,
         UNCHANGED <<position, phase, contentLength, delivered>>,
         \A k \in 1..position : input'[k] = input[k],
         \A i \in DOMAIN frames : /\ i \in DOMAIN frames' /\ frames'[i] = frames[i]
                                  /\ Begin(i)' = Begin(i) /\ HeaderEnd(i)' = HeaderEnd(i),
         NEW n, n = Len(frames) + 1, Begin(n)' = Begin(n),
         n \in DOMAIN frames' => Begin(n) < HeaderEnd(n)'
  PROVE  HeaderInv' /\ PayloadInv' /\ DeliveredInv'
<1>1. PICK u \in 1..n : u = Undelivered
  BY NextFrame DEF DeliveredInv
<1>2. /\ Len(delivered) \in Nat /\ Len(frames) \in Nat /\ n \in Nat
      /\ DOMAIN frames = 1..Len(frames) /\ DOMAIN delivered = 1..Len(delivered)
  BY NextFrame DEF DeliveredInv
<1>3. Undelivered' = u
  BY <1>1 DEF Undelivered
<1>4. u \in DOMAIN frames \/ (u = n /\ u \notin DOMAIN frames)
  BY <1>2
<1>5. Begin(u)' = Begin(u)
  BY <1>4
<1>6. Passed' = Passed
  BY <1>1, <1>3, <1>5 DEF Passed
<1>7. ASSUME phase = "header"
      PROVE  \A k \in Passed : input'[k] = input[k]
  <2>1. Begin(u) \in Nat /\ position \in Nat
    BY <1>1, <1>7 DEF HeaderInv, TypeInv
  <2> QED BY <1>1, <2>1 DEF Passed
<1>8. HeaderInv'
  <2> SUFFICES ASSUME phase' = "header" PROVE HeaderInv'
    BY DEF HeaderInv
  <2>1. phase = "header"
    OBVIOUS
  <2>2. Begin(u) \in Nat /\ Begin(u) <= position
    BY <1>1, <2>1 DEF HeaderInv
  <2>3. IF u \in DOMAIN frames' THEN position < HeaderEnd(u)' ELSE position = Begin(u)
    <3>1. CASE u \in DOMAIN frames
      BY <1>1, <2>1, <3>1 DEF HeaderInv
    <3>2. CASE u = n /\ u \notin DOMAIN frames
      BY <1>1, <2>1, <3>2 DEF HeaderInv
    <3> QED BY <1>4, <3>1, <3>2
  <2>4. /\ \A k \in Passed' : input'[k].kind # "broken"
        /\ (\A k \in Passed' : input'[k].kind # "length") => contentLength' = Unset
        /\ \A k \in Passed' : k = position' /\ input'[k].kind = "length" =>
                                contentLength' = input'[k].length
    BY <1>6, <1>7, <2>1 DEF HeaderInv
  <2> QED BY <1>3, <1>5, <2>2, <2>3, <2>4 DEF HeaderInv
<1>9. PayloadInv'
  <2> SUFFICES ASSUME phase' = "payload" PROVE PayloadInv'
    BY DEF PayloadInv
  <2>1. /\ u \in DOMAIN frames /\ position = HeaderEnd(u)
        /\ contentLength = Len(frames[u].payload)
        /\ frames[u].good <=> frames[u].payload \notin Malformed
    BY <1>1 DEF PayloadInv
  <2> QED BY <1>3, <2>1 DEF PayloadInv
<1>10. DeliveredInv'
  <2>1. Len(frames') \in Nat /\ DOMAIN frames' = 1..Len(frames')
    BY LenProperties DEF TypeInv
  <2>2. Len(delivered) <= Len(frames')
    <3>1. Len(delivered) <= Len(frames)
      BY DEF DeliveredInv, DeliveredAsSent
    <3>2. Len(frames) > 0 => Len(frames) \in DOMAIN frames'
      BY <1>2
    <3> QED BY <1>2, <2>1, <3>1, <3>2
  <2>3. ASSUME NEW i \in DOMAIN delivered
        PROVE  /\ frames'[i].good /\ Whole(i)' /\ delivered[i] = frames'[i].payload
               /\ frames'[i].end <= position
    <3>1. /\ i \in DOMAIN frames /\ frames[i].good /\ delivered[i] = frames[i].payload
          /\ frames[i].end <= position
      BY <1>2 DEF DeliveredInv, DeliveredAsSent
    <3>2. frames[i].end \in Nat
      BY <3>1, FrameType
    <3>3. position' <= Len(input') /\ position \in Nat /\ Len(input') \in Nat
      BY LenProperties DEF TypeInv
    <3> QED BY <3>1, <3>2, <3>3 DEF Whole
  <2> QED BY <2>2, <2>3 DEF DeliveredInv, DeliveredAsSent
<1> QED BY <1>8, <1>9, <1>10

(* Nor does it change why the reader stopped: before the end, only a message *)
(* that is none has stopped it.                                            *)
LEMMA StopStays ==
  ASSUME TypeInv, TypeInv', Layout, DeliveredInv, StopsForAReason,
         UNCHANGED <<phase, delivered>>, ~closed,
         \A i \in DOMAIN frames : i \in DOMAIN frames' /\ frames'[i] = frames[i]
  PROVE  StopsForAReason'
<1> SUFFICES ASSUME Stopped PROVE StopsForAReason'
  BY DEF StopsForAReason, Stopped
<1>1. PICK u \in Nat : u = Undelivered
  BY NextFrame DEF DeliveredInv
<1>2. phase = "error" /\ u \in DOMAIN frames /\ (~frames[u].good \/ CutInPayload(u))
  BY <1>1 DEF StopsForAReason, Stopped
<1>3. Whole(u)
  BY <1>2 DEF Layout
<1>4. ~CutInPayload(u)
  BY <1>2, <1>3, FrameType, LenProperties DEF CutInPayload, Whole, TypeInv
<1>5. ~frames'[u].good /\ u \in DOMAIN frames'
  BY <1>2, <1>4
<1> QED BY <1>1, <1>2, <1>5 DEF StopsForAReason, Stopped, Undelivered
-----------------------------------------------------------------------------
(* The reader's steps; they leave what the client wrote alone. *)

LEMMA LayoutStays ==
  ASSUME UNCHANGED client
  PROVE  /\ Layout => Layout'
         /\ \A i : /\ Begin(i)' = Begin(i) /\ HeaderEnd(i)' = HeaderEnd(i)
                   /\ FrameAt(i)' = FrameAt(i)
BY DEF client, Layout, FrameAt, HeaderAt, PayloadAt, NotCounted, Counted, InHeader,
       Begin, HeaderEnd, Sent, Whole

(* The next line of a header is one of the frame that is read next: the     *)
(* blank line is where its header ends, the others are what was sent.      *)
LEMMA NextLine ==
  ASSUME TypeInv, Layout, HeaderInv, DeliveredInv, phase = "header", position < Len(input),
         NEW u, u = Undelivered, NEW next, next = position + 1
  PROVE  /\ u \in DOMAIN frames /\ FrameAt(u)
         /\ Begin(u) \in Nat /\ HeaderEnd(u) \in Nat /\ position \in Nat
         /\ Begin(u) <= position /\ next <= HeaderEnd(u)
         /\ next < HeaderEnd(u) => next \in InHeader(u) /\ input[next] \in HeaderLines
         /\ input[next].kind = "blank" <=> next = HeaderEnd(u)
         /\ next = HeaderEnd(u) => input[next] = Blank
<1>1. /\ Len(frames) \in Nat /\ u \in 1..(Len(frames) + 1) /\ DOMAIN frames = 1..Len(frames)
      /\ position \in Nat /\ Len(input) \in Nat
  BY NextFrame, LenProperties DEF DeliveredInv, TypeInv
<1>2. u \in DOMAIN frames
  <2> SUFFICES ASSUME u \notin DOMAIN frames PROVE FALSE
    OBVIOUS
  <2>1. position = Begin(u) /\ u = Len(frames) + 1
    BY <1>1 DEF HeaderInv
  <2>2. Begin(u) = Sent
    <3>1. frames = <<>> <=> u = 1
      BY <1>1, <2>1, EmptySeq DEF TypeInv
    <3> QED BY <1>1, <2>1, <3>1 DEF Begin, Sent
  <2> QED BY <1>1, <2>1, <2>2 DEF Layout
<1>3. FrameAt(u)
  BY <1>2 DEF Layout
<1>4. Begin(u) \in Nat /\ HeaderEnd(u) \in Nat /\ Begin(u) <= position /\ position < HeaderEnd(u)
  BY <1>2, <1>3 DEF FrameAt, HeaderAt, HeaderInv
<1>5. ASSUME next < HeaderEnd(u)
      PROVE  next \in InHeader(u) /\ input[next] \in HeaderLines /\ input[next].kind # "blank"
  <2>1. next \in InHeader(u)
    BY <1>1, <1>4, <1>5 DEF InHeader
  <2>2. input[next] \in HeaderLines
    BY <1>3, <2>1 DEF FrameAt, HeaderAt
  <2>3. \A line \in HeaderLines : line.kind # "blank"
    BY DEF HeaderLines, Item, Other, Broken
  <2> QED BY <2>1, <2>2, <2>3
<1>6. ASSUME next = HeaderEnd(u)
      PROVE  input[next] = Blank /\ input[next].kind = "blank"
  <2>1. input[next] = Blank
    BY <1>1, <1>3, <1>6 DEF FrameAt, HeaderAt
  <2> QED BY <2>1 DEF Blank, Item
<1>7. next <= HeaderEnd(u) /\ (next < HeaderEnd(u) \/ next = HeaderEnd(u))
  BY <1>1, <1>4
<1> QED BY <1>1, <1>2, <1>3, <1>4, <1>5, <1>6, <1>7

LEMMA ReadLineKeeps ==
  ASSUME TypeInv, Layout, HeaderInv, DeliveredInv, StopsForAReason, phase = "header",
         ReadLength \/ SkipLine, UNCHANGED client
  PROVE  ReaderInv'
<1>1. PICK u \in Nat : u = Undelivered
  BY NextFrame DEF DeliveredInv
<1>2. PICK next \in Nat : next = position + 1
  BY DEF TypeInv
<1>3. position < Len(input) /\ position' = next /\ phase' = phase /\ delivered' = delivered
  BY <1>2 DEF ReadLength, SkipLine, Line
<1>4. /\ u \in DOMAIN frames /\ FrameAt(u)
      /\ Begin(u) \in Nat /\ HeaderEnd(u) \in Nat /\ position \in Nat
      /\ Begin(u) <= position /\ next <= HeaderEnd(u)
      /\ next < HeaderEnd(u) => next \in InHeader(u) /\ input[next] \in HeaderLines
      /\ input[next].kind = "blank" <=> next = HeaderEnd(u)
  BY <1>1, <1>2, <1>3, NextLine
<1>5. /\ input[next].kind \in {"length", "other"}
      /\ contentLength' = IF input[next].kind = "length" THEN input[next].length
                          ELSE contentLength
  BY <1>2 DEF ReadLength, SkipLine, Line
<1>6. next < HeaderEnd(u) /\ input[next] \in HeaderLines
  BY <1>4, <1>5
<1>7. input[next].kind = "length" => input[next].length \in Nat
  BY <1>6 DEF HeaderLines, Item, Other, Broken
<1>8. TypeInv'
  <2>1. next \in 0..Len(input)
    BY <1>2, <1>3, LenProperties DEF TypeInv
  <2>2. contentLength' \in Nat \cup {Unset}
    BY <1>5, <1>7 DEF TypeInv
  <2> QED BY <1>3, <2>1, <2>2 DEF TypeInv, client
<1>9. Layout' /\ Begin(u)' = Begin(u) /\ HeaderEnd(u)' = HeaderEnd(u) /\ Undelivered' = u
  BY <1>1, <1>3, LayoutStays DEF Undelivered
<1>10. HeaderInv'
  <2>1. Passed' = Passed \cup {next}
    BY <1>1, <1>2, <1>3, <1>4, <1>9 DEF Passed
  <2>2. \A k \in Passed' : input'[k].kind # "broken"
    BY <1>5, <2>1 DEF HeaderInv, client
  <2>3. (\A k \in Passed' : input'[k].kind # "length") => contentLength' = Unset
    BY <1>5, <2>1 DEF HeaderInv, client
  <2>4. contentLength' = input[next].length \/ input[next].kind # "length"
    BY <1>5
  <2>5. Begin(u) <= next
    BY <1>2, <1>4
  <2>6. /\ Begin(Undelivered)' \in Nat /\ Begin(Undelivered)' <= position'
        /\ Undelivered' \in DOMAIN frames' /\ position' < HeaderEnd(Undelivered)'
    BY <1>1, <1>3, <1>4, <1>6, <1>9, <2>5 DEF client
  <2>7. \A k \in Passed' : k = position' /\ input'[k].kind = "length" =>
                             contentLength' = input'[k].length
    BY <1>3, <2>4 DEF client
  <2> QED BY <2>2, <2>3, <2>6, <2>7 DEF HeaderInv
<1>11. PayloadInv' /\ StopsForAReason'
  BY <1>3 DEF PayloadInv, StopsForAReason, Stopped
<1>12. DeliveredInv'
  <2>1. \A i \in DOMAIN delivered : frames[i].end <= next
    <3>1. ASSUME NEW i \in DOMAIN delivered PROVE frames[i].end <= next
      <4>1. i \in DOMAIN frames
        BY NextFrame DEF DeliveredInv, DeliveredAsSent
      <4> QED BY <1>2, <1>4, <4>1, FrameType DEF DeliveredInv
    <3> QED BY <3>1
  <2> QED BY <1>3, <2>1 DEF DeliveredInv, DeliveredAsSent, Whole, client
<1> QED BY <1>8, <1>9, <1>10, <1>11, <1>12 DEF ReaderInv

LEMMA EndHeaderKeeps ==
  ASSUME ClientSendsItems, TypeInv, Layout, HeaderInv, DeliveredInv, phase = "header",
         EndHeader, UNCHANGED client
  PROVE  ReaderInv'
<1>1. PICK u \in Nat : u = Undelivered
  BY NextFrame DEF DeliveredInv
<1>2. PICK next \in Nat : next = position + 1
  BY DEF TypeInv
<1>3. /\ position < Len(input) /\ position' = next /\ phase' = "payload"
      /\ delivered' = delivered /\ contentLength' = contentLength /\ contentLength # Unset
      /\ input[next].kind = "blank"
  BY <1>2 DEF EndHeader, Line
<1>4. /\ u \in DOMAIN frames /\ FrameAt(u)
      /\ Begin(u) \in Nat /\ HeaderEnd(u) \in Nat /\ position \in Nat
      /\ Begin(u) <= position /\ next = HeaderEnd(u)
  BY <1>1, <1>2, <1>3, NextLine
<1>5. \A k \in Passed : k \in InHeader(u) /\ input[k].kind # "broken"
  BY <1>1, <1>2, <1>3, <1>4, LenProperties DEF Passed, InHeader, TypeInv, HeaderInv
<1>6. \A k \in InHeader(u) : k \in Passed
  BY <1>1, <1>2, <1>4 DEF Passed, InHeader
<1>7. Counted(u)
  <2> SUFFICES ASSUME NotCounted(u) PROVE FALSE
    BY <1>4 DEF FrameAt
  <2>1. \A k \in Passed : input[k].kind # "length"
    BY <1>5 DEF NotCounted
  <2> QED BY <1>3, <2>1 DEF HeaderInv
<1>8. contentLength = Len(frames[u].payload)
  <2>1. /\ input[position] = ContentLength(Len(frames[u].payload))
        /\ position \in Passed
    BY <1>1, <1>2, <1>3, <1>4, <1>7, LenProperties DEF Counted, Passed, TypeInv
  <2>2. /\ input[position].kind = "length"
        /\ input[position].length = Len(frames[u].payload)
    BY <2>1 DEF ContentLength, Item
  <2> QED BY <2>1, <2>2 DEF HeaderInv
<1>9. frames[u].good <=> frames[u].payload \notin Malformed
  <2>1. ASSUME ~frames[u].good, frames[u].payload \notin Malformed PROVE FALSE
    <3>1. PICK k \in (Begin(u) + 1)..(HeaderEnd(u) - 1) :
            k <= Len(input) => input[k] = Broken
      BY <1>7, <2>1 DEF Counted
    <3>2. k <= Len(input) /\ k \in InHeader(u)
      BY <1>2, <1>3, <1>4, LenProperties DEF InHeader, TypeInv
    <3>3. input[k].kind = "broken"
      BY <3>1, <3>2 DEF Broken, Item
    <3> QED BY <1>5, <1>6, <3>2, <3>3
  <2> QED BY <1>7, <2>1 DEF Counted
<1>10. TypeInv'
  <2>1. next \in 0..Len(input)
    BY <1>2, <1>3, LenProperties DEF TypeInv
  <2> QED BY <1>3, <2>1 DEF TypeInv, client
<1>11. Layout' /\ HeaderEnd(u)' = HeaderEnd(u) /\ Undelivered' = u
  BY <1>1, <1>3, LayoutStays DEF Undelivered
<1>12. HeaderInv' /\ StopsForAReason'
  BY <1>3 DEF HeaderInv, StopsForAReason, Stopped
<1>13. PayloadInv'
  BY <1>3, <1>4, <1>8, <1>9, <1>11 DEF PayloadInv, client
<1>14. DeliveredInv'
  <2>1. ASSUME NEW i \in DOMAIN delivered PROVE frames[i].end <= next
    <3>1. i \in DOMAIN frames
      BY NextFrame DEF DeliveredInv, DeliveredAsSent
    <3> QED BY <1>2, <1>4, <3>1, FrameType DEF DeliveredInv
  <2> QED BY <1>3, <2>1 DEF DeliveredInv, DeliveredAsSent, Whole, client
<1> QED BY <1>10, <1>11, <1>12, <1>13, <1>14 DEF ReaderInv

(* When the reader stops, only its reason is to be shown. *)
LEMMA StoppingKeeps ==
  ASSUME TypeInv, Layout, DeliveredInv, UNCHANGED client, NEW how \in {"end", "error"},
         Stop(how),
         NEW u, u = Undelivered,
         u \in DOMAIN frames => ~frames[u].good \/ ~Whole(u),
         how = "end" => closed /\ (u \in DOMAIN frames => ~(frames[u].good /\ CutInPayload(u))),
         how = "error" => u \in DOMAIN frames /\ (~frames[u].good \/ CutInPayload(u))
  PROVE  ReaderInv'
<1>1. phase' = how /\ UNCHANGED <<position, contentLength, delivered>>
  BY DEF Stop
<1>2. TypeInv' /\ Layout'
  BY <1>1, LayoutStays DEF TypeInv, client
<1>3. HeaderInv' /\ PayloadInv'
  BY <1>1 DEF HeaderInv, PayloadInv
<1>4. DeliveredInv'
  BY <1>1 DEF DeliveredInv, DeliveredAsSent, Whole, client
<1>5. StopsForAReason'
  <2>1. Undelivered' = u /\ (CutInPayload(u)' <=> CutInPayload(u)) /\ (Whole(u)' <=> Whole(u))
        /\ frames' = frames /\ closed' = closed
    BY <1>1 DEF Undelivered, CutInPayload, Whole, client
  <2> QED BY <1>1, <2>1 DEF StopsForAReason
<1> QED BY <1>2, <1>3, <1>4, <1>5 DEF ReaderInv

LEMMA StopInHeaderKeeps ==
  ASSUME ClientSendsItems, TypeInv, Layout, HeaderInv, DeliveredInv, phase = "header",
         MissingLength \/ BrokenLine \/ EndInHeader, UNCHANGED client
  PROVE  ReaderInv'
<1>1. PICK u \in Nat : u = Undelivered
  BY NextFrame DEF DeliveredInv
<1>2. PICK next \in Nat : next = position + 1
  BY DEF TypeInv
<1>3. position < Len(input) =>
        /\ u \in DOMAIN frames /\ FrameAt(u)
        /\ Begin(u) \in Nat /\ HeaderEnd(u) \in Nat /\ position \in Nat
        /\ Begin(u) <= position /\ next <= HeaderEnd(u)
        /\ next < HeaderEnd(u) => next \in InHeader(u) /\ input[next] \in HeaderLines
        /\ input[next].kind = "blank" <=> next = HeaderEnd(u)
        /\ next = HeaderEnd(u) => input[next] = Blank
  BY <1>1, <1>2, NextLine
<1>4. CASE MissingLength
  <2>1. /\ position < Len(input) /\ input[next].kind = "blank" /\ contentLength = Unset
        /\ Stop("error")
    BY <1>2, <1>4 DEF MissingLength, Line
  <2>2. next = HeaderEnd(u) /\ u \in DOMAIN frames
    BY <1>3, <2>1
  <2>3. ~Counted(u)
    <3> SUFFICES ASSUME Counted(u) PROVE FALSE
      OBVIOUS
    <3>1. input[position] = ContentLength(Len(frames[u].payload)) /\ position \in Passed
      BY <1>1, <1>2, <1>3, <2>1, <2>2, LenProperties DEF Counted, Passed, TypeInv
    <3>2. /\ input[position].kind = "length"
          /\ input[position].length = Len(frames[u].payload)
      BY <3>1 DEF ContentLength, Item
    <3>3. Len(frames[u].payload) \in Nat
      BY <2>2, FrameType, LenProperties DEF ClientSendsItems
    <3> QED BY <2>1, <3>1, <3>2, <3>3 DEF HeaderInv, Unset
  <2>4. ~frames[u].good
    BY <1>3, <2>1, <2>3 DEF FrameAt, NotCounted
  <2> QED BY <1>1, <2>1, <2>2, <2>4, StoppingKeeps
<1>5. CASE BrokenLine
  <2>1. position < Len(input) /\ input[next].kind = "broken" /\ Stop("error")
    BY <1>2, <1>5 DEF BrokenLine, Line
  <2>2. next < HeaderEnd(u) /\ u \in DOMAIN frames /\ next \in InHeader(u)
    BY <1>3, <2>1
  <2>3. input[next] = Broken
    BY <1>3, <2>1, <2>2 DEF HeaderLines, Item, Other, Broken
  <2>4. ~frames[u].good
    BY <1>3, <2>1, <2>2, <2>3 DEF FrameAt, NotCounted, Counted
  <2> QED BY <1>1, <2>1, <2>2, <2>4, StoppingKeeps
<1>6. CASE EndInHeader
  <2>1. closed /\ position = Len(input) /\ Stop("end")
    BY <1>6 DEF EndInHeader, AtEnd
  <2>2. ASSUME u \in DOMAIN frames PROVE ~Whole(u) /\ ~CutInPayload(u)
    <3>1. position < HeaderEnd(u) /\ HeaderEnd(u) \in Nat
      BY <1>1, <2>2 DEF HeaderInv, Layout, FrameAt, HeaderAt
    <3>2. Len(frames[u].payload) \in Nat /\ frames[u].end \in Nat
      BY <2>2, FrameType, LenProperties DEF ClientSendsItems
    <3>3. Len(input) \in Nat
      BY LenProperties DEF TypeInv
    <3> QED BY <2>1, <3>1, <3>2, <3>3 DEF HeaderEnd, Whole, CutInPayload
  <2> QED BY <1>1, <2>1, <2>2, StoppingKeeps
<1> QED BY <1>4, <1>5, <1>6

(* In a payload the reader has what the client sent, if all of it is there. *)
LEMMA NextPayload ==
  ASSUME ClientSendsItems, TypeInv, Layout, PayloadInv, phase = "payload",
         NEW u, u = Undelivered
  PROVE  /\ u \in DOMAIN frames /\ position = HeaderEnd(u) /\ position \in Nat
         /\ frames[u].good <=> frames[u].payload \notin Malformed
         /\ frames[u].payload \in Payload /\ frames[u].end \in Nat
         /\ contentLength = Len(frames[u].payload) /\ contentLength \in Nat
         /\ frames[u].end = position + contentLength
         /\ Len(input) \in Nat /\ position <= Len(input)
         /\ Arrived >= contentLength <=> Whole(u)
         /\ Whole(u) => Coming(contentLength) = frames[u].payload
<1>1. /\ u \in DOMAIN frames /\ position = HeaderEnd(u)
      /\ contentLength = Len(frames[u].payload)
      /\ frames[u].good <=> frames[u].payload \notin Malformed
  BY DEF PayloadInv
<1>2. /\ frames[u].payload \in Payload /\ frames[u].end \in Nat
      /\ frames[u].payload \in Seq(Items)
  BY <1>1, FrameType DEF ClientSendsItems
<1>3. Len(input) \in Nat /\ position \in Nat /\ position <= Len(input)
  BY LenProperties DEF TypeInv
<1>4. contentLength \in Nat
  BY <1>1, <1>2, LenProperties
<1>5. frames[u].end = position + contentLength
  BY <1>1, <1>2, <1>3, <1>4 DEF HeaderEnd
<1>6. Arrived >= contentLength <=> Whole(u)
  BY <1>2, <1>3, <1>4, <1>5 DEF Arrived, Whole
<1>7. ASSUME Whole(u) PROVE Coming(contentLength) = frames[u].payload
  <2> DEFINE coming == SubSeq(input, position + 1, position + contentLength)
  <2>1. position + contentLength <= Len(input)
    BY <1>5, <1>7 DEF Whole
  <2>2. \A i \in (position + 1)..(position + contentLength) : input[i] \in Items
    BY <1>3, <1>4, <2>1, ElementOfSeq DEF TypeInv
  <2>3. /\ coming \in Seq(Items) /\ Len(coming) = contentLength
        /\ \A i \in 1..contentLength : coming[i] = input[position + i]
    <3> DEFINE m == position + 1
               n == position + contentLength
    <3>1. m \in Int /\ n \in Int /\ n - m + 1 = contentLength
          /\ (m > n <=> contentLength = 0)
          /\ \A i \in 1..contentLength : m + i - 1 = position + i
      BY <1>3, <1>4
    <3>2. coming = SubSeq(input, m, n) /\ \A i \in m..n : input[i] \in Items
      BY <2>2
    <3> HIDE DEF m, n, coming
    <3>3. /\ coming \in Seq(Items)
          /\ Len(coming) = IF m <= n THEN n - m + 1 ELSE 0
          /\ \A i \in 1..n - m + 1 : coming[i] = input[m + i - 1]
      BY <3>1, <3>2, SubSeqProperties
    <3> QED BY <3>1, <3>3, <1>4
  <2>4. \A i \in 1..contentLength : input[position + i] = frames[u].payload[i]
    <3>1. \A i \in 1..contentLength : position + i <= Len(input)
      BY <1>3, <1>4, <2>1
    <3> QED BY <1>1, <3>1 DEF Layout, FrameAt, PayloadAt
  <2> HIDE DEF coming
  <2>5. coming = frames[u].payload
    BY <1>1, <1>2, <2>3, <2>4, SeqEqual
  <2> QED BY <2>5 DEF coming, Coming
<1> QED BY <1>1, <1>2, <1>3, <1>4, <1>5, <1>6, <1>7

LEMMA TakePayloadKeeps ==
  ASSUME ClientSendsItems, TypeInv, Layout, PayloadInv, DeliveredInv, phase = "payload",
         TakePayload, UNCHANGED client
  PROVE  ReaderInv'
<1>1. PICK u \in Nat : u = Undelivered /\ u = Len(delivered) + 1
  BY NextFrame DEF DeliveredInv, Undelivered
<1>2. PICK m : m = frames[u].end
  OBVIOUS
<1>3. /\ u \in DOMAIN frames /\ position \in Nat /\ Whole(u)
      /\ frames[u].payload \in Payload /\ m \in Nat /\ m <= Len(input)
      /\ position <= m /\ Len(input) \in Nat
      /\ position' = m /\ phase' = "header" /\ contentLength' = Unset
      /\ delivered' = Append(delivered, frames[u].payload)
      /\ frames[u].payload \notin Malformed /\ frames[u].good
  BY <1>1, <1>2, NextPayload DEF TakePayload, Whole
<1>4. /\ Len(delivered) \in Nat /\ Len(frames) \in Nat
      /\ DOMAIN frames = 1..Len(frames) /\ DOMAIN delivered = 1..Len(delivered)
  BY NextFrame DEF DeliveredInv
<1>5. /\ delivered' \in Seq(Payload) /\ Len(delivered') = u
      /\ \A i \in 1..Len(delivered) : delivered'[i] = delivered[i]
      /\ delivered'[u] = frames[u].payload
      /\ DOMAIN delivered' = 1..u
  <2>1. delivered \in Seq(Payload)
    BY DEF TypeInv
  <2> QED BY <1>1, <1>3, <2>1, AppendProperties, LenProperties
<1>6. TypeInv'
  BY <1>3, <1>5 DEF TypeInv, client
<1>7. Layout' /\ Begin(u + 1)' = Begin(u + 1) /\ Undelivered' = u + 1
  BY <1>5, LayoutStays DEF Undelivered
<1>8. Begin(u + 1) = m
  BY <1>1, <1>2, <1>4 DEF Begin
<1>9. HeaderInv'
  <2>1. Passed' = {}
    BY <1>3, <1>7, <1>8 DEF Passed
  <2>2. IF u + 1 \in DOMAIN frames THEN m < HeaderEnd(u + 1) ELSE m = Begin(u + 1)
    BY <1>8 DEF Layout, FrameAt, HeaderAt
  <2>3. HeaderEnd(u + 1)' = HeaderEnd(u + 1) /\ frames' = frames
    BY LayoutStays DEF client
  <2> QED BY <1>3, <1>7, <1>8, <2>1, <2>2, <2>3 DEF HeaderInv
<1>10. PayloadInv' /\ StopsForAReason'
  BY <1>3 DEF PayloadInv, StopsForAReason, Stopped
<1>11. DeliveredInv'
  <2>1. ASSUME NEW i \in DOMAIN delivered'
        PROVE  /\ frames[i].good /\ Whole(i) /\ delivered'[i] = frames[i].payload
               /\ frames[i].end <= m
    <3>1. CASE i = u
      BY <1>2, <1>3, <1>5, <3>1
    <3>2. CASE i \in DOMAIN delivered
      <4>1. i \in DOMAIN frames /\ frames[i].end <= position /\ frames[i].end \in Nat
        BY <1>4, <3>2, FrameType DEF DeliveredInv, DeliveredAsSent
      <4> QED BY <1>3, <1>4, <1>5, <3>2, <4>1 DEF DeliveredInv, DeliveredAsSent
    <3> QED BY <1>1, <1>4, <1>5, <3>1, <3>2
  <2>2. Len(delivered') <= Len(frames)
    BY <1>3, <1>4, <1>5
  <2> QED BY <1>3, <2>1, <2>2 DEF DeliveredInv, DeliveredAsSent, Whole, client
<1> QED BY <1>6, <1>7, <1>9, <1>10, <1>11 DEF ReaderInv

LEMMA StopInPayloadKeeps ==
  ASSUME ClientSendsItems, TypeInv, Layout, PayloadInv, DeliveredInv, phase = "payload",
         RefusePayload \/ EndInPayload, UNCHANGED client
  PROVE  ReaderInv'
<1>1. PICK u \in Nat : u = Undelivered
  BY NextFrame DEF DeliveredInv
<1>2. /\ u \in DOMAIN frames /\ position \in Nat /\ Len(input) \in Nat
      /\ frames[u].good <=> frames[u].payload \notin Malformed
      /\ contentLength = Len(frames[u].payload) /\ contentLength \in Nat
      /\ frames[u].end = position + contentLength /\ position <= Len(input)
      /\ Arrived >= contentLength <=> Whole(u)
      /\ Whole(u) => Coming(contentLength) = frames[u].payload
  BY <1>1, NextPayload
<1>3. CASE RefusePayload
  <2>1. ~frames[u].good /\ Stop("error")
    BY <1>2, <1>3 DEF RefusePayload
  <2> QED BY <1>1, <1>2, <2>1, StoppingKeeps
<1>4. CASE EndInPayload
  <2>1. closed /\ Arrived < contentLength /\ Arrived \in Nat
    BY <1>2, <1>4 DEF EndInPayload, Arrived
  <2>2. ~Whole(u)
    BY <1>2, <2>1
  <2>3. CutInPayload(u) <=> Arrived # 0
    BY <1>2, <2>1 DEF CutInPayload, Arrived
  <2>4. CASE Arrived = 0
    <3>1. Stop("end")
      BY <1>4, <2>4 DEF EndInPayload
    <3> QED BY <1>1, <2>1, <2>2, <2>3, <2>4, <3>1, StoppingKeeps
  <2>5. CASE Arrived # 0
    <3>1. Stop("error")
      BY <1>4, <2>5 DEF EndInPayload
    <3> QED BY <1>1, <1>2, <2>2, <2>3, <2>5, <3>1, StoppingKeeps
  <2> QED BY <2>4, <2>5
<1> QED BY <1>3, <1>4
-----------------------------------------------------------------------------
LEMMA ReaderStarts ==
  ReaderInit => ReaderInv
<1> SUFFICES ASSUME ReaderInit PROVE ReaderInv
  OBVIOUS
<1>1. TypeInv
  <2>1. /\ input \in Seq(Items) /\ frames \in Seq(Frame) /\ delivered \in Seq(Payload)
        /\ position \in 0..Len(input)
    BY EmptySeq DEF ReaderInit
  <2> QED BY <2>1 DEF ReaderInit, TypeInv
<1>2. Layout /\ DeliveredInv /\ PayloadInv /\ StopsForAReason
  BY DEF ReaderInit, Layout, Sent, DeliveredInv, DeliveredAsSent, PayloadInv, StopsForAReason, Stopped
<1>3. HeaderInv
  BY DEF ReaderInit, HeaderInv, Undelivered, Begin, Passed
<1> QED BY <1>1, <1>2, <1>3 DEF ReaderInv

LEMMA ReaderStep ==
  ASSUME ClientSendsItems, ReaderInv, [ReaderNext]_readerVars
  PROVE  ReaderInv'
<1> USE DEF ReaderInv
<1>1. PICK n : n = Len(frames) + 1
  OBVIOUS
<1>2. ASSUME NEW payload \in Payload, NEW before \in Before, NEW counted \in BOOLEAN,
             Send(payload, before, counted)
      PROVE  ReaderInv'
  <2>1. /\ TypeInv' /\ Layout'
        /\ \A k \in 1..Len(input) : input'[k] = input[k]
        /\ \A i \in DOMAIN frames : /\ i \in DOMAIN frames' /\ frames'[i] = frames[i]
                                    /\ Begin(i)' = Begin(i) /\ HeaderEnd(i)' = HeaderEnd(i)
        /\ Begin(n)' = Begin(n) /\ Begin(n) < HeaderEnd(n)'
    BY <1>1, <1>2, SendLaysOut
  <2>2. UNCHANGED <<position, phase, contentLength, delivered>> /\ ~closed
    BY <1>2 DEF Send
  <2>3. \A k \in 1..position : input'[k] = input[k]
    <3>1. position \in Nat /\ Len(input) \in Nat /\ position <= Len(input)
      BY LenProperties DEF TypeInv
    <3>2. \A k \in 1..position : k \in 1..Len(input)
      BY <3>1
    <3> QED BY <2>1, <3>2
  <2>4. HeaderInv' /\ PayloadInv' /\ DeliveredInv'
    BY <1>1, <2>1, <2>2, <2>3, ReaderStays
  <2>5. StopsForAReason'
    BY <2>1, <2>2, StopStays
  <2> QED BY <2>1, <2>4, <2>5
<1>3. CASE Close
  <2>1. /\ TypeInv' /\ Layout' /\ position <= Len(input')
        /\ \A k \in 1..position : input'[k] = input[k]
        /\ frames' = frames
        /\ \A i \in DOMAIN frames : Begin(i)' = Begin(i) /\ HeaderEnd(i)' = HeaderEnd(i)
    BY <1>3, CloseLaysOut
  <2>2. UNCHANGED <<position, phase, contentLength, delivered>> /\ ~closed
    BY <1>3 DEF Close
  <2>3. Begin(n)' = Begin(n) /\ n \notin DOMAIN frames'
    BY <1>1, <2>1, LenProperties DEF Begin, TypeInv
  <2>4. HeaderInv' /\ PayloadInv' /\ DeliveredInv'
    BY <1>1, <2>1, <2>2, <2>3, ReaderStays
  <2>5. StopsForAReason'
    BY <2>1, <2>2, StopStays
  <2> QED BY <2>1, <2>4, <2>5
<1>4. ASSUME phase = "header", ReadHeader, UNCHANGED client PROVE ReaderInv'
  BY <1>4, ReadLineKeeps, EndHeaderKeeps, StopInHeaderKeeps DEF ReadHeader
<1>5. ASSUME phase = "payload", ReadPayload, UNCHANGED client PROVE ReaderInv'
  BY <1>5, TakePayloadKeeps, StopInPayloadKeeps DEF ReadPayload
<1>6. CASE UNCHANGED readerVars
  <2>1. UNCHANGED client /\ UNCHANGED <<position, phase, contentLength, delivered>>
    BY <1>6 DEF readerVars
  <2>2. Layout'
    BY <2>1, LayoutStays
  <2>3. TypeInv'
    BY <2>1 DEF TypeInv, client
  <2>4. HeaderInv' /\ PayloadInv'
    BY <2>1 DEF HeaderInv, PayloadInv, Undelivered, Passed, Begin, HeaderEnd, client
  <2>5. DeliveredInv' /\ StopsForAReason'
    BY <2>1 DEF DeliveredInv, DeliveredAsSent, StopsForAReason, Stopped, CutInPayload,
                Undelivered, Whole, client
  <2> QED BY <2>2, <2>3, <2>4, <2>5
<1> QED
  BY <1>2, <1>3, <1>4, <1>5, <1>6 DEF ReaderNext, Read, ReadHeader, ReadPayload, Over

-----------------------------------------------------------------------------
(* Both halves in one behaviour.                                            *)

LEMMA TransportSteps ==
  [Writes \/ Reads]_transportVars => [Next]_vars /\ [ReaderNext]_readerVars
BY DEF Writes, Reads, transportVars

(* What is proved of one half holds of the whole, whose steps are those of  *)
(* either half.                                                             *)
LEMMA HalvesOfAConnection == TransportSpec => Spec /\ ReaderSpec
BY TransportSteps, PTL DEF TransportSpec, NewConnection, Spec, ReaderSpec

(* The reader is always where it should be in what the client wrote: no     *)
(* payload is taken for a header or a header for a payload (connection.go,  *)
(* Read).                                                                  *)
THEOREM ReaderFindsFrames == TransportSpec => []ReaderInv
<1>1. ReaderInit => ReaderInv
  BY ReaderStarts
<1>2. ReaderInv /\ [ReaderNext]_readerVars => ReaderInv'
  BY ReaderStep, ClientAssumption
<1>3. ReaderSpec => []ReaderInv
  BY <1>1, <1>2, PTL DEF ReaderSpec
<1> QED BY <1>3, HalvesOfAConnection, PTL

(* Whatever the payloads look like, whatever other lines and lengths a      *)
(* header has, and wherever the client dies, Read returns what was sent     *)
(* (connection.go, Read).                                                  *)
THEOREM MessagesArriveAsSent == TransportSpec => []DeliveredAsSent
<1>1. ReaderInv => DeliveredAsSent
  BY DEF ReaderInv, DeliveredInv
<1> QED BY <1>1, ReaderFindsFrames, PTL

(* Run stops for a reason and with the right result (server.go, Run).       *)
THEOREM RunStopsForAReason == TransportSpec => []StopsForAReason
<1>1. ReaderInv => StopsForAReason
  BY DEF ReaderInv
<1> QED BY <1>1, ReaderFindsFrames, PTL
=============================================================================
