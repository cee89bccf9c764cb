-------------------------- MODULE CompletionStructure --------------------------
(***************************************************************************)
(* Where completion believes the cursor is (analyzer.go, CompletionContext *)
(* and recoverCompletionStructure).  Two readings of the document are put  *)
(* together: the nodes of the syntax tree around the cursor, and a scan of *)
(* the lines before it, which still knows what is open when the document   *)
(* is unfinished and the tree does not.                                    *)
(*                                                                         *)
(* A document is a sequence of lines and a line is its first word: a       *)
(* header ("M" for //M( ...), the end of a definition ("END" for //END),   *)
(* the opening or closing word of a block, or anything else.  A cursor is  *)
(* the number of lines before it: it stands on an empty line, or right     *)
(* behind the last line.  A byte offset is the number of a line.           *)
(*                                                                         *)
(* The editor writes a document that may leave out terminators, or have    *)
(* some too many.  The variables open and ended say what is really open;   *)
(* the code sees only lines and the tree.                                  *)
(***************************************************************************)
EXTENDS Integers, FiniteSets, FiniteSetsExt, SequencesExt

CONSTANTS
  Language,     (* opening word -> node kinds of its block, words that end it *)
  Words,        (* lines the editor writes                                *)
  MaxLines,     (* bound: lines of the document                           *)
  FewWords,     (* words of which there may be more lines                 *)
  MaxFewLines   (* bound: lines of a document of FewWords                 *)

VARIABLES
  lines,        (* the document                                           *)
  open,         (* the lines that opened what is open at its end          *)
  ended         (* what was opened and ended: from, to; whole: it has its terminator *)

vars == <<lines, open, ended>>

Init == lines = <<>> /\ open = <<>> /\ ended = {}

(* The editor.                                                             *)
Number == Len(lines) + 1
Opens(word) == word \in DOMAIN Language
Defines(word) == Opens(word) /\ "END" \in Language[word].ends
Endable(word) == {k \in DOMAIN open : word \in Language[lines[open[k]]].ends}
Left(k, whole) == [from |-> open[k], to |-> Number, whole |-> whole]

(* A header ends whatever the definition before it left open. *)
StartDefinition(word) ==
  /\ Defines(word)
  /\ open' = <<Number>>
  /\ ended' = ended \cup {Left(k, FALSE) : k \in DOMAIN open}

StartBlock(word) ==
  /\ Opens(word) /\ ~Defines(word) /\ open # <<>>
  /\ open' = Append(open, Number)
  /\ UNCHANGED ended

(* A closing word ends the last block it can end, and what that block left open. *)
EndBlock(word) ==
  /\ Endable(word) # {}
  /\ LET last == Max(Endable(word)) IN
       /\ open' = SubSeq(open, 1, last - 1)
       /\ ended' = ended \cup {Left(k, k = last) : k \in last..Len(open)}

OtherLine(word) ==
  /\ ~Opens(word) /\ Endable(word) = {}
  /\ UNCHANGED <<open, ended>>

Write(word) ==
  /\ lines' = Append(lines, word)
  /\ Len(lines) < IF Range(lines') \subseteq FewWords THEN MaxFewLines ELSE MaxLines
  /\ StartDefinition(word) \/ StartBlock(word) \/ EndBlock(word) \/ OtherLine(word)

Next == \E word \in Words : Write(word)

Spec == Init /\ [][Next]_vars

(* The parser, on a document that need not be correct: a block is a node,  *)
(* or none in what could not be parsed; one without its terminator, if it  *)
(* is a node, ends with its first line or before what ended it.            *)
Nodes(b) ==
  [kind : Language[lines[b.from]].kinds, start : {b.from},
   end : IF b.whole THEN {b.to} ELSE {b.from, b.to - 1}]

Blocks == ended \cup {Left(k, FALSE) : k \in DOMAIN open}

Grown(trees, line) ==
  LET NodesThere == UNION {Nodes(b) : b \in {x \in Blocks : x.from = line}}
  IN trees \cup {tree \cup {n} : tree \in trees, n \in NodesThere}

Trees ==
  LET upTo[i \in 0..Len(lines)] == IF i = 0 THEN {{}} ELSE Grown(upTo[i - 1], i)
  IN upTo[Len(lines)]
-----------------------------------------------------------------------------
(* The tables of the code, each of them written down on its own there.     *)
HeaderKind ==
  "M" :> "dialog_definition" @@ "S" :> "softkey_menu_definition" @@
  "A" :> "array_definition" @@ "B" :> "block_definition" @@ "G" :> "grid_definition"

TopLevel ==
  {"dialog_definition", "softkey_menu_definition", "array_definition",
   "block_definition", "grid_definition"}

LexicalOpener ==
  "LOAD" :> "load_event" @@ "UNLOAD" :> "unload_event" @@
  "CHANGE" :> "change_event" @@ "PRESS" :> "press_event" @@
  "FOCUS" :> "focus_event" @@ "ACCESSLEVEL" :> "accesslevel_event" @@
  "CHANNEL" :> "channel_event" @@ "CONTROL" :> "control_event" @@
  "LANGUAGE" :> "language_event" @@ "RESOLUTION" :> "resolution_event" @@
  "SUSPEND" :> "suspend_event" @@ "RESUME" :> "resume_event" @@
  "SUB" :> "subprogram" @@ "OUTPUT" :> "output_block" @@
  "IF" :> "if_statement" @@ "SWITCH" :> "switch_statement" @@
  "DO" :> "post_test_loop" @@ "DO_WHILE" :> "pre_test_loop" @@
  "DO_UNTIL" :> "pre_test_loop"

LexicalClosers ==
  "END_LOAD" :> {"load_event"} @@ "END_UNLOAD" :> {"unload_event"} @@
  "END_CHANGE" :> {"change_event"} @@
  "END_PRESS" :> {"press_event", "start_softkey_press_event"} @@
  "END_FOCUS" :> {"focus_event"} @@ "END_ACCESSLEVEL" :> {"accesslevel_event"} @@
  "END_CHANNEL" :> {"channel_event"} @@ "END_CONTROL" :> {"control_event"} @@
  "END_LANGUAGE" :> {"language_event"} @@ "END_RESOLUTION" :> {"resolution_event"} @@
  "END_SUSPEND" :> {"suspend_event"} @@ "END_RESUME" :> {"resume_event"} @@
  "END_SUB" :> {"subprogram"} @@ "END_OUTPUT" :> {"output_block"} @@
  "ENDIF" :> {"if_statement"} @@ "END_SWITCH" :> {"switch_statement"} @@
  "LOOP" :> {"pre_test_loop"} @@ "LOOP_WHILE" :> {"post_test_loop"} @@
  "LOOP_UNTIL" :> {"post_test_loop"}

ExpectedTerminators ==
  [kind \in TopLevel |-> {"END"}] @@
  "load_event" :> {"END_LOAD"} @@ "unload_event" :> {"END_UNLOAD"} @@
  "change_event" :> {"END_CHANGE"} @@ "press_event" :> {"END_PRESS"} @@
  "start_softkey_press_event" :> {"END_PRESS"} @@ "focus_event" :> {"END_FOCUS"} @@
  "accesslevel_event" :> {"END_ACCESSLEVEL"} @@ "channel_event" :> {"END_CHANNEL"} @@
  "control_event" :> {"END_CONTROL"} @@ "language_event" :> {"END_LANGUAGE"} @@
  "resolution_event" :> {"END_RESOLUTION"} @@ "suspend_event" :> {"END_SUSPEND"} @@
  "resume_event" :> {"END_RESUME"} @@ "subprogram" :> {"END_SUB"} @@
  "output_block" :> {"END_OUTPUT"} @@ "if_statement" :> {"ENDIF"} @@
  "switch_statement" :> {"END_SWITCH"} @@ "pre_test_loop" :> {"LOOP"} @@
  "post_test_loop" :> {"LOOP_WHILE", "LOOP_UNTIL"}

IsSemanticScope(kind) ==
  kind \in TopLevel \cup {"subprogram", "output_block", "load_event", "unload_event",
    "change_event", "press_event", "focus_event", "accesslevel_event", "channel_event",
    "control_event", "language_event", "resolution_event", "suspend_event",
    "resume_event", "start_softkey_press_event"}

(* The tables are about this language: headers and openers are the words    *)
(* that open its blocks, with the kinds of their nodes; closers and         *)
(* expected terminators are the words that end them; all kinds of a word    *)
(* are scopes or none is.                                                   *)
TablesFit ==
  LET Headers == {word \in DOMAIN Language : "END" \in Language[word].ends}
      Ends == UNION {Language[word].ends : word \in DOMAIN Language}
      Kinds == UNION {Language[word].kinds : word \in DOMAIN Language}
  IN /\ DOMAIN HeaderKind = Headers
     /\ \A word \in Headers : Language[word].kinds = {HeaderKind[word]}
     /\ DOMAIN LexicalOpener = DOMAIN Language \ Headers
     /\ \A word \in DOMAIN LexicalOpener :
          Language[word].kinds = {LexicalOpener[word]} \cup
            IF word = "PRESS" THEN {"start_softkey_press_event"} ELSE {}
     /\ \A word \in DOMAIN Language, kind \in Kinds :
          kind \in Language[word].kinds => ExpectedTerminators[kind] = Language[word].ends
     /\ \A kind \in Kinds : kind \in TopLevel <=> "END" \in ExpectedTerminators[kind]
     /\ DOMAIN LexicalClosers = Ends \ {"END"}
     /\ \A word \in DOMAIN LexicalClosers, kind \in Kinds :
          kind \in LexicalClosers[word] <=> word \in ExpectedTerminators[kind]
     /\ DOMAIN Language \cap (Ends \cup {"END"}) = {}
     /\ \A word \in DOMAIN Language : \A kind, other \in Language[word].kinds :
          IsSemanticScope(kind) => IsSemanticScope(other)
-----------------------------------------------------------------------------
(* lexicalBlocks: the blocks the lines before the cursor leave open.       *)
PopAboveOnly(blocks, kinds) ==   \* Mutant
  LET found == {i \in DOMAIN blocks : blocks[i].kind \in kinds} IN
    IF found = {} THEN blocks ELSE SubSeq(blocks, 1, Max(found))

PopLexical(blocks, kinds) ==
  LET found == {i \in DOMAIN blocks : blocks[i].kind \in kinds} IN
    IF found = {} THEN blocks ELSE SubSeq(blocks, 1, Max(found) - 1)

ReplaceNothing(blocks, block) == Append(blocks, block)   \* Mutant

ReplaceTopLevel(blocks, block) == Append(PopLexical(blocks, TopLevel), block)

LexicalKind(tree, word, start) == LexicalOpener[word]   \* Mutant

(* A press is known from its line only as a press: the tree may know more. *)
OpenedKind(tree, word, start) ==
  IF word = "PRESS" /\ \E n \in tree : n.kind = "start_softkey_press_event" /\ n.start = start
  THEN "start_softkey_press_event"
  ELSE LexicalOpener[word]

AfterLine(tree, source, blocks, i) ==
  LET word == source[i] IN
    CASE word = "END" -> PopLexical(blocks, TopLevel)
      [] word \in DOMAIN HeaderKind ->
           ReplaceTopLevel(blocks, [kind |-> HeaderKind[word], start |-> i])
      [] word \in DOMAIN LexicalOpener ->
           Append(blocks, [kind |-> OpenedKind(tree, word, i), start |-> i])
      [] word \in DOMAIN LexicalClosers -> PopLexical(blocks, LexicalClosers[word])
      [] OTHER -> blocks

LexicalBlocks(tree, source) ==
  LET after[i \in 0..Len(source)] ==
        IF i = 0 THEN <<>> ELSE AfterLine(tree, source, after[i - 1], i)
  IN after[Len(source)]

(* The nodes around the cursor; behind the last line, those around the     *)
(* last character.                                                         *)
Around(tree, source, cursor) ==
  IF cursor = Len(source)
  THEN {n \in tree : n.end = cursor}
  ELSE {n \in tree : n.start <= cursor /\ cursor < n.end}

SemanticRange(tree, source, block) ==
  LET same == {n \in tree : n.kind = block.kind /\ n.start = block.start} IN
    IF same = {} THEN [start |-> block.start, end |-> Len(source)]
    ELSE LET n == CHOOSE n \in same : TRUE IN [start |-> n.start, end |-> n.end]

OutermostFirst(a, b) == a.start < b.start \/ (a.start = b.start /\ a.end > b.end)

(* Sorted: each range behind those that come before it. *)
InOrder(ranges) ==
  [k \in 1..Cardinality(ranges) |->
     CHOOSE r \in ranges : Cardinality({x \in ranges : OutermostFirst(x, r)}) = k - 1]

ContextOfAll(tree, source, cursor) ==   \* Mutant
  LET blocks == Range(LexicalBlocks(tree, source))
      owners == {b.start : b \in {x \in blocks : x.kind \in TopLevel}}
  IN [owner |-> IF owners = {} THEN 0 ELSE Max(owners),
      terminators |-> UNION {ExpectedTerminators[x.kind] : x \in blocks},
      scope |-> <<>>]

CompletionContext(tree, source, cursor) ==
  LET around == Around(tree, source, cursor)
      blocks == Range(LexicalBlocks(tree, SubSeq(source, 1, cursor)))
      owners == {b.start : b \in {x \in blocks : x.kind \in TopLevel}}
  IN [owner |-> IF owners = {} THEN 0 ELSE Max(owners),
      terminators |-> UNION {ExpectedTerminators[x.kind] : x \in around \cup blocks},
      scope |-> InOrder(
        {[start |-> n.start, end |-> n.end] : n \in {x \in around : IsSemanticScope(x.kind)}}
        \cup {SemanticRange(tree, source, b) : b \in {x \in blocks : IsSemanticScope(x.kind)}})]
-----------------------------------------------------------------------------
Cursors == 0..Len(lines)

(* What is really open at a cursor, by the line that opened it. *)
OpenAt(cursor) ==
  {s \in Range(open) : s <= cursor}
  \cup {e.from : e \in {x \in ended : x.from <= cursor /\ cursor < x.to}}

Ascending(s) == \A i, j \in DOMAIN s : i < j => s[i] < s[j]

(* A cursor with a line after it; behind the last line, a block that just  *)
(* ended still counts as around it.                                        *)
Inside(cursor) == cursor < Len(lines)

(* The context is well formed: an owner is a line before the cursor, and   *)
(* every scope is a range of lines that begins before it (analyzer.go,     *)
(* recoverCompletionStructure).                                            *)
TypeOK ==
  /\ lines \in Seq(Words)
  /\ \A tree \in Trees, cursor \in Cursors :
       LET context == CompletionContext(tree, lines, cursor) IN
         /\ context.owner \in 0..cursor
         /\ context.scope \in Seq([start : 1..cursor, end : 1..Len(lines)])

(* Whatever the parser makes of the document, the scan of the lines before *)
(* the cursor finds the blocks that are open there, innermost last: each   *)
(* terminator ends what it says, and a header or //END leaves nothing of   *)
(* the definition before it (analyzer.go, lexicalBlocks).                  *)
BlocksAreWhatIsOpen ==
  \A tree \in Trees, cursor \in Cursors :
    LET blocks == LexicalBlocks(tree, SubSeq(lines, 1, cursor)) IN
      /\ \A i \in DOMAIN blocks : blocks[i].kind \in Language[lines[blocks[i].start]].kinds
      /\ {blocks[i].start : i \in DOMAIN blocks} = OpenAt(cursor)
      /\ Ascending([i \in DOMAIN blocks |-> blocks[i].start])

(* The tree and the scan agree on the scopes: each block around the cursor *)
(* that is a scope is one scope, outermost first, and ends where its node  *)
(* ends or, without a node, with the document (analyzer.go,                *)
(* CompletionContext and recoverCompletionStructure).                      *)
ScopesAreTheBlocksAround ==
  \A tree \in Trees, cursor \in Cursors :
    LET scope == CompletionContext(tree, lines, cursor).scope
        starts == [i \in DOMAIN scope |-> scope[i].start]
        around == {s \in OpenAt(cursor) : \E k \in Language[lines[s]].kinds : IsSemanticScope(k)}
    IN /\ Ascending(starts)
       /\ around \subseteq Range(starts)
       /\ Inside(cursor) => Range(starts) = around
       /\ \A i \in DOMAIN scope :
            IF \E n \in tree : n.start = starts[i]
            THEN \E n \in tree : n.start = starts[i] /\ n.end = scope[i].end
            ELSE scope[i].end = Len(lines)

(* Completion offers the terminators of the blocks around the cursor, and  *)
(* none of a block that is over (analyzer.go, expectedTerminators).        *)
TerminatorsAreExpected ==
  \A tree \in Trees, cursor \in Cursors :
    LET expected == UNION {Language[lines[s]].ends : s \in OpenAt(cursor)}
        offered == CompletionContext(tree, lines, cursor).terminators
    IN expected \subseteq offered /\ (Inside(cursor) => offered = expected)

(* The owner by which locals are chosen (index.go, completionSameOwner) is *)
(* the definition the cursor is in, and so the outermost of its scopes.    *)
OwnerIsTheDefinitionAround ==
  \A tree \in Trees, cursor \in Cursors :
    LET context == CompletionContext(tree, lines, cursor) IN
      /\ context.owner = IF OpenAt(cursor) = {} THEN 0 ELSE Min(OpenAt(cursor))
      /\ (context.owner # 0 /\ Inside(cursor)) => context.scope[1].start = context.owner

(* The place of the cursor is what the tree and the lines together say: its *)
(* scopes, where each ends, and the definition that owns it (analyzer.go,   *)
(* CompletionContext).                                                      *)
PlaceIsKnown == TypeOK /\ ScopesAreTheBlocksAround /\ OwnerIsTheDefinitionAround
=============================================================================
