-------------------------- MODULE CaseFoldedFiles --------------------------
(***************************************************************************)
(* What the workspace index promises: a file exists once, however its name *)
(* is spelled; while it is open the editor's buffer is its text, afterwards *)
(* the disk is.  No URIs, no path table and no resolution here: a file is  *)
(* named by its case-folded path.  WorkspaceIndex implements this for      *)
(* workspaces without two files whose names differ in case only.           *)
(***************************************************************************)
CONSTANTS
  File,       (* case-folded paths, and the URIs that have no path        *)
  Indexed,    (* the files the index reads from disk                      *)
  Text, NoText

VARIABLES
  buffer,     (* the text of each open file, NoText for the others        *)
  saved       (* what the index last read from disk                       *)

vars == <<buffer, saved>>

Contents == [File -> Text \cup {NoText}]
Nothing == [f \in File |-> NoText]

TextOf(f) == IF buffer[f] # NoText THEN buffer[f] ELSE saved[f]

Init == buffer = Nothing /\ saved = Nothing

(* The workspace folders are read once, before the editor opens anything.  *)
Scan ==
  /\ buffer = Nothing
  /\ saved' \in Contents
  /\ \A f \in File \ Indexed : saved'[f] = NoText
  /\ UNCHANGED buffer

Edit(f, t) ==
  /\ buffer' = [buffer EXCEPT ![f] = t]
  /\ UNCHANGED saved

(* Closing a file looks at the disk again, for this file only.             *)
Close(f) ==
  /\ buffer' = [buffer EXCEPT ![f] = NoText]
  /\ \E t \in Text \cup {NoText} :
       /\ f \notin Indexed => t = NoText
       /\ saved' = [saved EXCEPT ![f] = t]

Next ==
  \/ Scan
  \/ \E f \in File : Close(f) \/ \E t \in Text : Edit(f, t)

Spec == Init /\ [][Next]_vars
=============================================================================
