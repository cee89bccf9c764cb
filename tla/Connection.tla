----------------------------- MODULE Connection -----------------------------
(***************************************************************************)
(* The server's side of the output stream (protocol/connection.go, write)  *)
(* and everybody who writes to it (server.go): the main loop, which serves *)
(* one message of the client at a time, and a goroutine for each           *)
(* concurrent request.  A message is a header and a payload, written with  *)
(* separate calls under Connection.mu into a pipe of limited room; the     *)
(* client takes it out at its own pace, and may go away at any time.       *)
(*                                                                         *)
(* A chunk is what one step puts into the pipe: chunk 0 of a message is    *)
(* its header, chunks 1..Parts its payload.  sent is all that was ever     *)
(* written, and the client has read the first taken chunks of it.  A write *)
(* that failed once fails for ever: the other end is closed.               *)
(***************************************************************************)
EXTENDS Integers, Sequences

CONSTANTS
  Task,         (* messages of the client                                 *)
  Request,      (* those with an id, which are to be answered             *)
  Concurrent,   (* the requests that get a goroutine                      *)
  Shutdown,     (* the requests that wait for the goroutines              *)
  NoTask,
  Parts,        (* chunks of a payload                                    *)
  Room,         (* chunks the pipe holds                                  *)
  MaxNotes      (* bound: notifications one message gives rise to         *)

ASSUME TaskAssumption ==
  /\ Concurrent \subseteq Request /\ Request \subseteq Task /\ NoTask \notin Task
  /\ Shutdown \subseteq Request \ Concurrent
ASSUME SizeAssumption ==
  Parts \in Nat \ {0} /\ Room \in Nat \ {0} /\ MaxNotes \in Nat

VARIABLES
  sent, taken,  (* the stream, and how much of it the client has          *)
  broken,       (* the client has closed its end                          *)
  mu,           (* Connection.mu: who holds it                            *)
  main,         (* "read", "busy", "wait", "stopped" or "failed"          *)
  task          (* what has become of each message of the client          *)

vars == <<sent, taken, broken, mu, main, task>>

(* What is written: what handle replies, an error handle replies itself,    *)
(* an error that is reported for it, and a notification.                    *)
Kind == {"result", "refusal", "error", "note"}

Chunk == [task : Task, kind : Kind, at : 0..Parts]
TaskState ==
  [pc : {"new", "handle", "encode", "write", "done"},
   kind : Kind, at : 0..Parts, notes : 0..MaxNotes]
New == [pc |-> "new", kind |-> "result", at |-> 0, notes |-> 0]

Running(t) == task[t].pc \notin {"new", "done"}
OnMain(t) == t \notin Concurrent
Alive == main \notin {"stopped", "failed"}
AllDone == \A t \in Concurrent : ~Running(t)

Init ==
  /\ sent = <<>> /\ taken = 0 /\ broken = FALSE
  /\ mu = NoTask
  /\ main = "read"
  /\ task = [t \in Task |-> New]

(* The main loop takes a message: it starts a goroutine and reads on, or    *)
(* handles the message itself.                                              *)
Receive(t) ==
  /\ main = "read" /\ task[t].pc = "new"
  /\ task' = [task EXCEPT ![t].pc = "handle"]
  /\ main' = IF OnMain(t) THEN "busy" ELSE "read"
  /\ UNCHANGED <<sent, taken, broken, mu>>

Done(t) ==
  /\ task' = [task EXCEPT ![t].pc = "done"]
  /\ main' = IF OnMain(t) THEN "read" ELSE main

(* Run gives up when it cannot even report an error; a goroutine only logs. *)
GiveUp(t) ==
  /\ task' = [task EXCEPT ![t].pc = "done"]
  /\ main' = IF OnMain(t) THEN "failed" ELSE main

(* Reply, ReplyError or Notify is called; notes more Notify will follow.    *)
Write(t, kind, notes) ==
  task' = [task EXCEPT ![t] =
            [pc |-> "encode", kind |-> kind, at |-> 0, notes |-> notes]]

(* handle ends in one Reply, one ReplyError of its own, as only the main    *)
(* loop's requests do, or an error.  Shutdown waits before it replies.      *)
HandleRequest(t, kind) ==
  /\ Alive /\ task[t].pc = "handle" /\ t \in Request
  /\ kind = "refusal" => OnMain(t)
  /\ t \in Shutdown => AllDone
  /\ Write(t, kind, 0)
  /\ UNCHANGED <<sent, taken, broken, mu, main>>

(* A notification may be followed by diagnostics of several documents.      *)
HandleNotification(t, notes) ==
  /\ Alive /\ task[t].pc = "handle" /\ t \notin Request
  /\ IF notes = 0 THEN Done(t)
     ELSE Write(t, "note", notes - 1) /\ UNCHANGED main
  /\ UNCHANGED <<sent, taken, broken, mu>>

ReportAgain(t) ==   \* Mutant
  IF task[t].kind = "note" THEN Done(t) ELSE Write(t, "error", 0) /\ UNCHANGED main

(* handle's own reply has failed, or the error reported for it, or a        *)
(* notification: what startRequest and Run do then.                         *)
Report(t) ==
  CASE task[t].kind \in {"result", "refusal"} -> Write(t, "error", 0) /\ UNCHANGED main
    [] task[t].kind = "error"  -> GiveUp(t)
    [] task[t].kind = "note"   -> Done(t)

EncodeFailsQuietly(t) ==   \* Mutant
  /\ Alive /\ task[t].pc = "encode" /\ task[t].kind = "result"
  /\ Done(t)
  /\ UNCHANGED <<sent, taken, broken, mu>>

(* json.Marshal comes before the lock; only a result can be beyond it.      *)
EncodeFails(t) ==
  /\ Alive /\ task[t].pc = "encode" /\ task[t].kind = "result"
  /\ Report(t)
  /\ UNCHANGED <<sent, taken, broken, mu>>

LockNothing(t) ==   \* Mutant
  /\ Alive /\ task[t].pc = "encode"
  /\ mu' = t
  /\ task' = [task EXCEPT ![t].pc = "write"]
  /\ UNCHANGED <<sent, taken, broken, main>>

Lock(t) ==
  /\ Alive /\ task[t].pc = "encode"
  /\ mu = NoTask
  /\ mu' = t
  /\ task' = [task EXCEPT ![t].pc = "write"]
  /\ UNCHANGED <<sent, taken, broken, main>>

(* write has returned nil: the next notification, if any, or the end.       *)
AfterWrite(t) ==
  IF task[t].kind = "note" /\ task[t].notes > 0
  THEN Write(t, "note", task[t].notes - 1) /\ UNCHANGED main
  ELSE Done(t)

(* The next chunk goes into the pipe when there is room for it; the last    *)
(* one releases the lock, and the writer goes on.                           *)
WriteChunk(t) ==
  /\ Alive /\ task[t].pc = "write"
  /\ ~broken /\ Len(sent) - taken < Room
  /\ sent' = Append(sent, [task |-> t, kind |-> task[t].kind, at |-> task[t].at])
  /\ IF task[t].at < Parts
     THEN /\ task' = [task EXCEPT ![t].at = @ + 1]
          /\ UNCHANGED <<mu, main>>
     ELSE mu' = NoTask /\ AfterWrite(t)
  /\ UNCHANGED <<taken, broken>>

(* The other end is closed: Write returns an error, and so does write.      *)
WriteFails(t) ==
  /\ Alive /\ task[t].pc = "write" /\ broken
  /\ mu' = NoTask
  /\ Report(t)
  /\ UNCHANGED <<sent, taken, broken>>

ClientReads ==
  /\ taken < Len(sent)
  /\ taken' = taken + 1
  /\ UNCHANGED <<sent, broken, mu, main, task>>

ClientCloses ==
  /\ ~broken
  /\ broken' = TRUE
  /\ UNCHANGED <<sent, taken, mu, main, task>>

StopWith(pc) ==
  /\ main = "read"
  /\ main' = pc
  /\ UNCHANGED <<sent, taken, broken, mu, task>>

(* The end of input and an exit in its place wait for the goroutines; an    *)
(* exit before shutdown and input that is no message do not.                *)
Drain == StopWith("wait")
Abort == StopWith("failed")

WaitForNobody ==   \* Mutant
  /\ main = "wait"
  /\ main' = "stopped"
  /\ UNCHANGED <<sent, taken, broken, mu, task>>

Wait ==
  /\ main = "wait" /\ AllDone
  /\ main' = "stopped"
  /\ UNCHANGED <<sent, taken, broken, mu, task>>

Terminated == ~Alive /\ taken = Len(sent) /\ UNCHANGED vars

Handle(t) ==
  \/ \E kind \in Kind \ {"note"} : HandleRequest(t, kind)
  \/ \E notes \in 0..MaxNotes : HandleNotification(t, notes)
  \/ EncodeFails(t) \/ Lock(t) \/ WriteChunk(t) \/ WriteFails(t)

Next ==
  \/ \E t \in Task : Receive(t) \/ Handle(t)
  \/ ClientReads \/ ClientCloses
  \/ Drain \/ Abort \/ Wait
  \/ Terminated

Spec == Init /\ [][Next]_vars

(* The client goes on reading, whatever it is doing otherwise; goroutines   *)
(* are scheduled, and the mutex does not pass over a waiter for ever.       *)
Fairness ==
  /\ WF_vars(ClientReads) /\ WF_vars(Wait)
  /\ \A t \in Task : WF_vars(Handle(t)) /\ SF_vars(Lock(t))
-----------------------------------------------------------------------------
TypeOK ==
  /\ sent \in Seq(Chunk) /\ taken \in 0..Len(sent)
  /\ broken \in BOOLEAN
  /\ mu \in Task \cup {NoTask}
  /\ main \in {"read", "busy", "wait", "stopped", "failed"}
  /\ task \in [Task -> TaskState]

Complete == sent # <<>> => sent[Len(sent)].at = Parts

(* What the client reads after a header is the payload of that very         *)
(* message, up to its end, whoever else is writing; only the last message   *)
(* may be cut.                                                              *)
FramesAreWhole ==
  \A i \in 1..Len(sent) :
    IF sent[i].at = 0 THEN i = 1 \/ sent[i - 1].at = Parts
    ELSE i > 1 /\ sent[i - 1] = [sent[i] EXCEPT !.at = @ - 1]

IsAnswer(i, t) == sent[i].task = t /\ sent[i].kind # "note" /\ sent[i].at = Parts

(* However Reply, ReplyError and their failures follow each other, no       *)
(* request is answered twice.                                               *)
AtMostOneAnswer ==
  \A t \in Task : \A i, j \in 1..Len(sent) : IsAnswer(i, t) /\ IsAnswer(j, t) => i = j

(* A server that stops in order leaves no message half written and no       *)
(* request it has taken without its answer, if there was anyone to read.    *)
OrderlyEnd ==
  main = "stopped" /\ ~broken =>
    /\ Complete
    /\ \A t \in Request : task[t].pc # "new" => \E i \in 1..Len(sent) : IsAnswer(i, t)

(* What these rest on.  The lock belongs to the one who is writing, and the *)
(* end of the stream is where that writer thinks it is.                     *)
WriterInv ==
  /\ \A t \in Task : task[t].pc = "write" <=> mu = t
  /\ \A t \in Task : task[t].pc = "encode" => task[t].at = 0
  /\ mu = NoTask /\ ~broken => Complete
  /\ \A t \in Task : mu = t /\ ~broken =>
       IF task[t].at = 0 THEN Complete
       ELSE /\ sent # <<>>
            /\ sent[Len(sent)] = [task |-> t, kind |-> task[t].kind, at |-> task[t].at - 1]

(* Those who have been answered are done, and, as long as the client is     *)
(* there, those who are done have been answered.                            *)
AnswerInv ==
  /\ \A t \in Task : \A i \in 1..Len(sent) : IsAnswer(i, t) => task[t].pc = "done"
  /\ \A t \in Request :
       /\ task[t].kind # "note"
       /\ task[t].pc = "done" /\ ~broken => \E i \in 1..Len(sent) : IsAnswer(i, t)

(* The main loop is busy with one message, and stops after everybody else.  *)
MainInv ==
  /\ \A t \in Task : OnMain(t) /\ Running(t) =>
       /\ main \in {"busy", "failed"}
       /\ \A u \in Task : OnMain(u) /\ Running(u) => u = t
  /\ main = "stopped" => AllDone

ConnectionInv == WriterInv /\ AnswerInv /\ MainInv

(* The main loop always comes back to its input: nobody keeps it waiting    *)
(* for the lock or the pipe for ever, not even when writes fail.            *)
MainLoopComesBack == main \in {"busy", "wait"} ~> main \notin {"busy", "wait"}

(* To the client, all this is a stream of whole messages, an answer for     *)
(* each of its requests.                                                    *)
MessageOf(c) == [task |-> c.task, answer |-> c.kind # "note"]

MessagesIn(chunks) ==
  LET upTo[n \in 0..Len(chunks)] ==
        IF n = 0 THEN <<>>
        ELSE IF chunks[n].at = Parts THEN Append(upTo[n - 1], MessageOf(chunks[n]))
        ELSE upTo[n - 1]
  IN  upTo[Len(chunks)]

Stream == INSTANCE MessageStream WITH
  received <- {t \in Task : task[t].pc # "new"},
  stream <- MessagesIn(sent),
  up <- Alive /\ ~broken

StreamOfMessages == Stream!Spec
=============================================================================
