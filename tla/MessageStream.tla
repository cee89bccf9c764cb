--------------------------- MODULE MessageStream ---------------------------
(***************************************************************************)
(* What the client may count on when it reads the server's output: whole   *)
(* messages, one after the other, never two answers to one request, until  *)
(* one of the two ends is gone.                                            *)
(***************************************************************************)
EXTENDS Sequences

CONSTANTS Task, Request    (* messages of the client; those with an id     *)

VARIABLES
  received,   (* what the server has taken from the client                *)
  stream,     (* the messages on their way to the client                  *)
  up          (* both ends are there                                      *)

vars == <<received, stream, up>>

Answered(t) == \E i \in DOMAIN stream : stream[i] = [task |-> t, answer |-> TRUE]

Init == received = {} /\ stream = <<>> /\ up = TRUE

Receive(t) ==
  /\ t \notin received
  /\ received' = received \cup {t}
  /\ UNCHANGED <<stream, up>>

Answer(t) ==
  /\ up /\ t \in received \cap Request /\ ~Answered(t)
  /\ stream' = Append(stream, [task |-> t, answer |-> TRUE])
  /\ UNCHANGED <<received, up>>

Notify(t) ==
  /\ up /\ t \in received \ Request
  /\ stream' = Append(stream, [task |-> t, answer |-> FALSE])
  /\ UNCHANGED <<received, up>>

End == up /\ up' = FALSE /\ UNCHANGED <<received, stream>>

Next == End \/ \E t \in Task : Receive(t) \/ Answer(t) \/ Notify(t)

Steps == Init /\ [][Next]_vars

(* Every request is answered in the end, or somebody has gone away. *)
Spec == Steps /\ \A t \in Request : WF_vars(Answer(t))
=============================================================================
