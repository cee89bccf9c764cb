----------------------------- MODULE Transport -----------------------------
(***************************************************************************)
(* Both halves of the connection (protocol/connection.go): Read, which     *)
(* only the main loop calls, and write, which everybody calls.  A          *)
(* Connection gives them a reader, a writer and a lock of the writer's;    *)
(* they share no state, so that what holds of each alone holds of both.    *)
(* A behaviour of this module therefore moves one half and leaves the      *)
(* other as it was made.                                                   *)
(***************************************************************************)
EXTENDS Connection, MessageReader

transportVars == <<vars, readerVars>>

ASSUME ClientAssumption == ClientSendsItems

NewConnection == Init /\ ReaderInit

Writes == ReaderInit /\ Next /\ UNCHANGED readerVars
Reads == Init /\ ReaderNext /\ UNCHANGED vars

(* Each half is as fair as it is alone: neither owes a step before it has  *)
(* made its first.                                                         *)
TransportSpec ==
  /\ NewConnection /\ [][Writes \/ Reads]_transportVars
  /\ Fairness /\ ReaderFairness
=============================================================================
