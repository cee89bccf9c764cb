-------------------------- MODULE MCLanguageServer --------------------------
(* Two files, a.com and b.com; the client can write the URI of a.com in a   *)
(* second way.                                                              *)
EXTENDS LanguageServer, TLC

CONSTANTS a, b, t1, t2, p

MCIdentity == "./a.com" :> a @@ "a.com" :> a @@ "b.com" :> b
MCSorted == <<"./a.com", "a.com", "b.com">>
MCPathOf == a :> "/a.com" @@ b :> "/b.com"
MCNameOf == "/a.com" :> "a.com" @@ "/b.com" :> "b.com"
MCScans == {[u \in {a, b} |-> IF u = a THEN t1 ELSE NoText]}
MCAt == p :> {t1, t2}

(* Long sequences of edits, failures and second spellings are explored      *)
(* before the first request, and a request among up to three changes.       *)
AnyFault == abandoned # {} \/ \E s \in Spelling : Open(s) /\ ~store[s].analysed
Bounds ==
  (\E c \in Call : call[c].pc # "new") =>
    revision <= 3 /\ ~AnyFault /\ ~Open("./a.com")
=============================================================================
