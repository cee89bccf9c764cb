------------------------ MODULE MCRequestHandlers ------------------------
(* Small instances of RequestHandlers.  Position p exists in one text only. *)
EXTENDS RequestHandlers, TLC

CONSTANTS t1, t2, p

AtSomeTexts == p :> {t1}
Symmetry == Permutations(Call) \cup Permutations(Id)
=============================================================================
