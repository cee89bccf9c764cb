---------------------------- MODULE MessageReader ----------------------------
(***************************************************************************)
(* The reading half of the connection (connection.go, Read) under the loop *)
(* that calls it (server.go, Run).  The client writes frames, header lines *)
(* and a payload as long as they say; it may stop in the middle of one.    *)
(* Bytes come in as items: a header line is one item, and a payload is     *)
(* some items, which may look like header lines themselves.                *)
(***************************************************************************)
EXTENDS Integers, Sequences, Functions

CONSTANTS
  Payload,      (* what the client sends: sequences of items               *)
  Malformed,    (* of these, those that are no JSON-RPC message            *)
  Before,       (* what may come before a Content-Length line: lines       *)
  MaxMessages   (* bound: frames the client sends                          *)

Unset == -1

Item(kind, n) == [kind |-> kind, length |-> n]
ContentLength(n) == Item("length", n)
Blank == Item("blank", 0)     \* the empty line that ends a header
Other == Item("other", 0)     \* a header line that does not matter
Broken == Item("broken", 0)   \* a line that is no header, or no length

(* A client sends anything as a payload, but lines as a header. *)
Items == [kind : {"length", "blank", "other", "broken", "json"}, length : Nat]
HeaderLines == [kind : {"length"}, length : Nat] \cup {Other, Broken}
ClientSendsItems == Payload \subseteq Seq(Items) /\ Before \subseteq Seq(HeaderLines)

VARIABLES
  input,        (* what the client has written                             *)
  frames,       (* the frames in it: payload, good, end                    *)
  closed,       (* the client has closed its end                           *)
  position,     (* items read                                              *)
  phase,        (* "header", "payload", or how Run ended: "end", "error"   *)
  contentLength,
  delivered     (* messages Read has returned                              *)

client == <<input, frames, closed>>
readerVars == <<client, position, phase, contentLength, delivered>>

ReaderInit ==
  /\ input = <<>> /\ frames = <<>> /\ closed = FALSE
  /\ position = 0 /\ phase = "header" /\ contentLength = Unset /\ delivered = <<>>

(* The client; a frame that is not counted has no length at all. *)
Send(payload, before, counted) ==
  LET length == IF counted THEN <<ContentLength(Len(payload))>> ELSE <<>> IN
    /\ ~closed /\ Len(frames) < MaxMessages
    /\ counted \/ \A i \in DOMAIN before : before[i].kind # "length"
    /\ input' = input \o before \o length \o <<Blank>> \o payload
    /\ frames' = Append(frames,
         [payload |-> payload, end |-> Len(input'),
          good |-> counted /\ payload \notin Malformed /\ Broken \notin Range(before)])
    /\ UNCHANGED <<closed, position, phase, contentLength, delivered>>

(* It dies, and what it had written last may never arrive. *)
Close ==
  /\ ~closed /\ closed' = TRUE
  /\ \E n \in position..Len(input) : input' = SubSeq(input, 1, n)
  /\ UNCHANGED <<frames, position, phase, contentLength, delivered>>

AtEnd == closed /\ position = Len(input)
Stop(how) == phase' = how /\ UNCHANGED <<position, contentLength, delivered>>
Line(kind) == position < Len(input) /\ input[position + 1].kind = kind

FirstLengthCounts ==   \* Mutant
  /\ Line("length")
  /\ contentLength' = IF contentLength = Unset THEN input[position + 1].length ELSE contentLength
  /\ position' = position + 1
  /\ UNCHANGED <<phase, delivered>>

(* One header line; the last Content-Length counts. *)
ReadLength ==
  /\ Line("length")
  /\ contentLength' = input[position + 1].length
  /\ position' = position + 1
  /\ UNCHANGED <<phase, delivered>>

SkipLine ==
  /\ Line("other")
  /\ position' = position + 1
  /\ UNCHANGED <<phase, contentLength, delivered>>

EndHeader ==
  /\ Line("blank") /\ contentLength # Unset
  /\ position' = position + 1
  /\ phase' = "payload"
  /\ UNCHANGED <<contentLength, delivered>>

MissingLength == Line("blank") /\ contentLength = Unset /\ Stop("error")
BrokenLine == Line("broken") /\ Stop("error")

(* The end of the input in a header ends Run in order, wherever it is. *)
EndInHeader == AtEnd /\ Stop("end")

ReadHeader ==
  /\ phase = "header"
  /\ ReadLength \/ SkipLine \/ EndHeader \/ MissingLength \/ BrokenLine \/ EndInHeader

Arrived == Len(input) - position
Coming(n) == SubSeq(input, position + 1, position + n)

KeepLength ==   \* Mutant
  /\ Arrived >= contentLength
  /\ Coming(contentLength) \notin Malformed
  /\ delivered' = Append(delivered, Coming(contentLength))
  /\ position' = position + contentLength
  /\ phase' = "header" /\ UNCHANGED contentLength

TakePayload ==
  /\ Arrived >= contentLength
  /\ Coming(contentLength) \notin Malformed
  /\ delivered' = Append(delivered, Coming(contentLength))
  /\ position' = position + contentLength
  /\ phase' = "header" /\ contentLength' = Unset

RefusePayload ==
  Arrived >= contentLength /\ Coming(contentLength) \in Malformed /\ Stop("error")

(* io.ReadFull: nothing of the payload is an end of the input as any other, *)
(* a part of it is not.                                                    *)
WaitForPayload ==   \* Mutant
  /\ closed /\ Arrived < contentLength
  /\ UNCHANGED <<phase, position, contentLength, delivered>>

EndInPayload ==
  /\ closed /\ Arrived < contentLength
  /\ Stop(IF Arrived = 0 THEN "end" ELSE "error")

ReadPayload == phase = "payload" /\ (TakePayload \/ RefusePayload \/ EndInPayload)

Read == (ReadHeader \/ ReadPayload) /\ UNCHANGED client

Over == closed /\ phase \in {"end", "error"} /\ UNCHANGED readerVars

ReaderNext ==
  \/ Close \/ Read \/ Over
  \/ \E payload \in Payload, before \in Before, counted \in BOOLEAN : Send(payload, before, counted)

ReaderSpec == ReaderInit /\ [][ReaderNext]_readerVars

(* The loop reads on whenever there is something to read, or the end.      *)
ReaderFairness == WF_readerVars(Read)
-----------------------------------------------------------------------------
Stopped == phase \in {"end", "error"}
Whole(i) == frames[i].end <= Len(input)
Undelivered == Len(delivered) + 1

(* The client died within the payload of frame i, the header of which is fine. *)
CutInPayload(i) ==
  LET begin == frames[i].end - Len(frames[i].payload)
  IN Len(input) \in (begin + 1)..(frames[i].end - 1)

(* What Read returns is what the client sent, whole and in order, however  *)
(* a payload looks, whatever other lines and lengths a header has, and     *)
(* wherever the client dies (connection.go, Read).                         *)
DeliveredAsSent ==
  /\ Len(delivered) <= Len(frames)
  /\ \A i \in DOMAIN delivered : frames[i].good /\ Whole(i) /\ delivered[i] = frames[i].payload

(* Run stops for a reason, and with the right result: never before a       *)
(* message it could have read; in order only when the client is gone and   *)
(* has not been cut off within a payload; with an error only then, or      *)
(* because of a message that is none (server.go, Run).                     *)
StopsForAReason ==
  Stopped =>
    /\ Undelivered \in DOMAIN frames => ~frames[Undelivered].good \/ ~Whole(Undelivered)
    /\ phase = "end" => /\ closed
                        /\ Undelivered \in DOMAIN frames =>
                             ~(frames[Undelivered].good /\ CutInPayload(Undelivered))
    /\ phase = "error" => /\ Undelivered \in DOMAIN frames
                          /\ ~frames[Undelivered].good \/ CutInPayload(Undelivered)

(* Every message that follows only messages is read, unless it is cut off, *)
(* and Run does not outlive its client (connection.go, Read; server.go,    *)
(* Run).                                                                   *)
EverythingSentIsRead ==
  /\ \A i \in 1..MaxMessages :
       (Len(frames) >= i /\ \A j \in 1..i : frames[j].good)
         ~> (Len(delivered) >= i \/ (i \in DOMAIN frames /\ ~Whole(i)))
  /\ closed ~> Stopped
=============================================================================
