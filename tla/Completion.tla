----------------------------- MODULE Completion -----------------------------
(***************************************************************************)
(* What completion knows about the place of the cursor (analyzer.go,       *)
(* CompletionContext): the line it is in, read by classifyCompletionLine,  *)
(* and the lines before it, read by recoverCompletionStructure.  Each      *)
(* reads its own part of the text and keeps nothing, so that every line    *)
(* may follow every document: a behaviour of this module varies one of     *)
(* the two, below an empty document or above an empty line.                *)
(***************************************************************************)
EXTENDS CompletionLine

CONSTANTS Language, Words, MaxLines, FewWords, MaxFewLines

VARIABLES lines, open, ended

structureVars == <<lines, open, ended>>
completionVars == <<vars, structureVars>>

Structure == INSTANCE CompletionStructure

ASSUME LanguageAssumption == Structure!TablesFit

EditLine == Structure!Init /\ Next /\ UNCHANGED structureVars
WriteLines == line = <<>> /\ Structure!Next /\ UNCHANGED vars

CompletionInit == Init /\ Structure!Init

CompletionSpec == CompletionInit /\ [][EditLine \/ WriteLines]_completionVars
-----------------------------------------------------------------------------
(* Whatever the parser makes of the document, the scan of the lines before *)
(* the cursor finds the blocks that are open there (analyzer.go,           *)
(* lexicalBlocks).                                                         *)
BlocksAreWhatIsOpen == Structure!BlocksAreWhatIsOpen

(* The place of the cursor is what the tree and the lines together say: its *)
(* scopes, where each ends, and the definition that owns it (analyzer.go,   *)
(* CompletionContext).                                                      *)
PlaceIsKnown == Structure!PlaceIsKnown

(* Completion offers the terminators of the blocks around the cursor, and  *)
(* none of a block that is over (analyzer.go, expectedTerminators).        *)
TerminatorsAreExpected == Structure!TerminatorsAreExpected
=============================================================================
