---------------------------- MODULE MCResolution ----------------------------
(* A dialog that uses a library of blocks, with libraries of the same name  *)
(* in two other directories, one of which the editor never opens: without   *)
(* the one beside the dialog the name is ambiguous.  Main.com and main.com  *)
(* are one file.                                                            *)
EXTENDS Resolution, TLC

CONSTANTS Main, main, lib, sub, away, user, other, blocks, twice, broken

MCIdentity == "Main.com" :> Main @@ "main.com" :> main
              @@ "lib.com" :> lib @@ "sub/lib.com" :> sub
MCPathOf == Main :> "/main.com" @@ main :> "/main.com" @@ lib :> "/lib.com"
            @@ sub :> "/sub/lib.com" @@ away :> "/away/lib.com"
MCNameOf == "/main.com" :> "main.com" @@ "/lib.com" :> "lib.com"
            @@ "/sub/lib.com" :> "lib.com" @@ "/sub/main.com" :> "main.com"
            @@ "/away/lib.com" :> "lib.com"

MCIdent == {"work", "Work", "WORK", "Kit", "kit", "Kit2", "Dlg", "v", "V"}
MCFold == [n \in MCIdent |->
             CASE n \in {"work", "Work", "WORK"} -> "work" [] n \in {"Kit", "kit"} -> "kit"
               [] n \in {"v", "V"} -> "v" [] OTHER -> n]
MCPathNamed == "C:/away/lib.com" :> "/away/lib.com"
MCNameNamed == "lib.com" :> "lib.com" @@ "main.com" :> "main.com"
Beside == "lib.com" :> "/lib.com" @@ "main.com" :> "/main.com"
          @@ "sub/lib.com" :> "/sub/lib.com" @@ "C:/away/lib.com" :> "/away/lib.com"
BesideSub == "lib.com" :> "/sub/lib.com" @@ "main.com" :> "/sub/main.com"
          @@ "sub/lib.com" :> "/away/lib.com" @@ "C:/away/lib.com" :> "/away/lib.com"
MCPathFrom == "/main.com" :> Beside @@ "/lib.com" :> Beside @@ "/sub/lib.com" :> BesideSub
              @@ "/sub/main.com" :> BesideSub @@ "/away/lib.com" :> Beside

Def(name, kind, scope, at) ==
  [name |-> name, kind |-> kind, scope |-> scope, version |-> 0, at |-> at]
Ref(name, kind, scope, at) ==
  [name |-> name, kind |-> kind, scope |-> scope, file |-> NoTarget, at |-> at]
RefIn(name, kind, scope, file, at) ==
  [name |-> name, kind |-> kind, scope |-> scope, file |-> file, at |-> at]

(* user loads the block Kit and calls Work from it, in two events of one    *)
(* dialog; v is declared in the dialog, then again in the first event.      *)
User ==
  [complete |-> TRUE,
   definitions |-> {Def("Dlg", "dialog", <<>>, 1), Def("v", "variable", <<1>>, 2),
                    Def("V", "variable", <<1, 10>>, 11)},
   references |-> {RefIn("Kit", "block", <<1, 10>>, "lib.com", 12),
                   Ref("v", "variable", <<1, 10>>, 13),
                   Ref("V", "arrayOrGrid", <<1, 20>>, 21),
                   Ref("WORK", "subprogram", <<1, 20>>, 22)}]

(* other has a Work and a grid of its own, a local that a second event       *)
(* cannot see, and loads from explicit places; its second dialog loads Kit   *)
(* and has no Work.                                                         *)
Other ==
  [complete |-> TRUE,
   definitions |-> {Def("Dlg", "dialog", <<>>, 1), Def("v", "variable", <<1, 5>>, 6),
                    Def("v", "variable", <<1, 5>>, 7),
                    Def("Work", "subprogram", <<1>>, 8), Def("V", "grid", <<>>, 30),
                    Def("Kit2", "dialog", <<>>, 40)},
   references |-> {Ref("v", "variable", <<1, 10>>, 11), Ref("v", "variable", <<1, 5>>, 12),
                   Ref("v", "arrayOrGrid", <<1, 10>>, 13), Ref("V", "grid", <<1, 10>>, 14),
                   Ref("Work", "subprogram", <<1, 10>>, 15),
                   RefIn("Kit", "block", <<1, 10>>, "sub/lib.com", 16),
                   RefIn("Dlg", "dialog", <<1, 10>>, "main.com", 17),
                   RefIn("Kit", "block", <<1, 10>>, "C:/away/lib.com", 18),
                   RefIn("Kit", "block", <<40, 41>>, "C:/away/lib.com", 42)}]

Blocks ==
  [complete |-> TRUE,
   definitions |-> {Def("Kit", "block", <<>>, 1), Def("Work", "subprogram", <<1>>, 2),
                    Def("Kit2", "block", <<>>, 10), Def("Work", "subprogram", <<10>>, 11)},
   references |-> {Ref("work", "subprogram", <<1, 2>>, 3)}]

Twice ==
  [complete |-> TRUE,
   definitions |-> {Def("Kit", "block", <<>>, 1), Def("work", "subprogram", <<1>>, 2),
                    Def("Work", "subprogram", <<1>>, 3), Def("kit", "block", <<>>, 9)},
   references |-> {}]

(* In broken the parser has lost the first dialog: its members have no       *)
(* scope, and stand before and behind those of the second one.              *)
Broken ==
  [complete |-> FALSE,
   definitions |-> {Def("Kit2", "subprogram", <<>>, 2), Def("V", "variable", <<>>, 3),
                    Def("Dlg", "dialog", <<>>, 30), Def("V", "variable", <<30>>, 31),
                    Def("v", "variable", <<30, 32>>, 33), Def("Work", "subprogram", <<30>>, 34),
                    Def("kit", "output", <<>>, 50)},
   references |-> {RefIn("Kit", "block", <<>>, "lib.com", 4), Ref("v", "variable", <<>>, 5),
                   Ref("work", "subprogram", <<30, 32>>, 35)}]

MCAnalysis == user :> User @@ other :> Other @@ blocks :> Blocks
              @@ twice :> Twice @@ broken :> Broken

At(scope, owner, end) == [scope |-> scope, owner |-> owner, end |-> end]

(* Cursors in the events, outside, and behind the last line; in broken, one  *)
(* whose dialog is known from the lines alone, with and without a scope.    *)
InDialog == {At(<<1, 10>>, 1, 40), At(<<1, 20>>, 1, 40), At(<<1, 5>>, 1, 40), At(<<1>>, NoOwner, 0)}
MCContexts ==
  user :> InDialog @@ other :> InDialog \cup {At(<<40, 41>>, 40, 60), At(<<>>, NoOwner, 0)}
  @@ blocks :> {At(<<1, 2>>, 1, 9), At(<<10>>, 10, 20)} @@ twice :> {At(<<1>>, 1, 8)}
  @@ broken :> {At(<<1>>, 1, 30), At(<<>>, 1, 0), At(<<30, 32>>, 30, 40), At(<<32>>, 30, 0)}

MCScans == {[u \in {Main, main, lib, sub, away} |->
               IF u = lib THEN l ELSE IF u \in {sub, away} THEN s
               ELSE IF u = Main THEN user ELSE NoText] :
              l \in {blocks, NoText}, s \in {blocks, NoText}}
=============================================================================
