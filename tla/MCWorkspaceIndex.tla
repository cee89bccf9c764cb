-------------------------- MODULE MCWorkspaceIndex --------------------------
(* Four canonical URIs: Main.com and main.com are one file unless the disk  *)
(* tells them apart, other.com sits in a second directory, and untitled has *)
(* no path.  "./Main.com" is a second way to write the URI of Main.com.     *)
EXTENDS WorkspaceIndex, TLC

CONSTANTS Main, main, sub, note, untitled, t1, t2

MCSpelling == {"Main.com", "./Main.com", "main.com", "sub/main.com",
               "note.txt", "untitled:1"}
MCIdentity == "Main.com" :> Main @@ "./Main.com" :> Main @@ "main.com" :> main
              @@ "sub/main.com" :> sub @@ "note.txt" :> note @@ "untitled:1" :> untitled
MCPathOf == Main :> "/main.com" @@ main :> "/main.com" @@ sub :> "/sub/main.com"
            @@ note :> "/note.txt"
MCNameOf == "/main.com" :> "main.com" @@ "/sub/main.com" :> "main.com"
            @@ "/note.txt" :> "note.txt"

AllScans == {scan \in [{Main, main, sub, note, untitled} -> {t1, NoText}] :
               scan[note] = NoText /\ scan[untitled] = NoText}
PlainScans == {scan \in AllScans : scan[Main] = NoText \/ scan[main] = NoText}
=============================================================================
