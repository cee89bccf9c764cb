---------------------------- MODULE SyntaxLowering ----------------------------
(***************************************************************************)
(* What TreeSitterAnalyzer.Analyze reads off a syntax tree (analyzer.go):  *)
(* diagnostics, the outline, definitions, references and uses of builtins, *)
(* which the index resolves (Resolution) and the server shows.  Each is a  *)
(* walk of its own over the tree, with tables of its own.                  *)
(*                                                                         *)
(* The parser is outside: it builds any tree of one of several grammars,   *)
(* in the order of the text.  Nodes are numbered in that order; a position *)
(* is the number of a token, so that a node without a word of its own      *)
(* begins where its first child does.                                      *)
(***************************************************************************)
EXTENDS Integers, FiniteSets, FiniteSetsExt, SequencesExt

CONSTANTS
  Grammar,   (* grammars, by name: rules, from node kind to productions,   *)
             (* which are sequences of [field, kinds]; mayMiss, the kinds  *)
             (* the parser inserts where they are missing; inner, the      *)
             (* kinds of headers and of what is in them or a declaration;  *)
             (* and a bound, maxNodes, of the nodes of a tree              *)
  Word,      (* node kinds that begin with a token of their own            *)
  Texts(_, _)  (* the texts of a kind, as a field                          *)

VARIABLES
  language,  (* the grammar of the document                                *)
  nodes,     (* the nodes so far                                           *)
  path,      (* those not ended yet, outermost first                       *)
  rest,      (* for each of those, the children it still gets              *)
  at         (* tokens so far                                              *)

vars == <<language, nodes, path, rest, at>>

Rules == Grammar[language].rules

None == 0

Root == [kind |-> "source_file", field |-> "", parent |-> None, above |-> {}, from |-> 1, to |-> 0,
         text |-> "", missing |-> FALSE]

Init ==
  /\ language \in DOMAIN Grammar
  /\ nodes = <<Root>> /\ path = <<1>> /\ at = 0
  /\ rest \in {<<production>> : production \in Rules["source_file"]}

Enter(kind, text, missing, production) ==
  /\ Len(nodes) < Grammar[language].maxNodes
  /\ nodes' = Append(nodes, [kind |-> kind, field |-> Head(Last(rest)).field,
                             parent |-> Last(path), above |-> Range(path),
                             from |-> at + 1, to |-> at + 1,
                             text |-> text, missing |-> missing])
  /\ at' = IF kind \in Word /\ ~missing THEN at + 1 ELSE at
  /\ path' = Append(path, Len(nodes) + 1)
  /\ rest' = Append(Append(Front(rest), Tail(Last(rest))), production)
  /\ UNCHANGED language

Parse ==
  /\ path # <<>> /\ Last(rest) # <<>>
  /\ \E kind \in Head(Last(rest)).kinds :
       \/ \E text \in Texts(kind, Head(Last(rest)).field), production \in Rules[kind] :
            Enter(kind, text, FALSE, production)
       \/ kind \in Grammar[language].mayMiss /\ Enter(kind, "", TRUE, <<>>)

Leave ==
  /\ path # <<>> /\ Last(rest) = <<>>
  /\ nodes' = [nodes EXCEPT ![Last(path)].to = at]
  /\ path' = Front(path) /\ rest' = Front(rest)
  /\ UNCHANGED <<language, at>>

Next == Parse \/ Leave

Spec == Init /\ [][Next]_vars

Parsed == path = <<>>
-----------------------------------------------------------------------------
Node == DOMAIN nodes
Kind(i) == IF i = None THEN "" ELSE nodes[i].kind
Text(i) == nodes[i].text
Named(i) == Kind(i) # ","

Children(i) == {j \in Node : nodes[j].parent = i}
First(S) == IF S = {} THEN None ELSE Min(S)
Field(i, field) == First({j \in Children(i) : nodes[j].field = field})

(* The nodes around a node.                                                *)
Above(i) == nodes[i].above

FirstDescendant(i, kinds) == First({j \in Node : i \in Above(j) \cup {j} /\ Kind(j) \in kinds})

SameNode(i, j) ==
  /\ i # None /\ j # None /\ Kind(i) = Kind(j)
  /\ nodes[i].from = nodes[j].from /\ nodes[i].to = nodes[j].to

Entity ==
  {"dialog_definition", "softkey_menu_definition", "array_definition",
   "block_definition", "grid_definition"}

Event ==
  {"load_event", "unload_event", "change_event", "press_event", "focus_event",
   "accesslevel_event", "channel_event", "control_event", "language_event",
   "resolution_event", "suspend_event", "resume_event", "start_softkey_press_event"}

IsSemanticScope(kind) == kind \in Entity \cup {"subprogram", "output_block"} \cup Event

ContainsExecutableExpressions(kind) ==
  kind \in Event \cup
    {"assignment_statement", "expression_statement", "if_statement", "switch_statement",
     "case_clause", "post_test_loop", "pre_test_loop", "output_line"}

ScopeWithItself(i) == {j \in Above(i) \cup {i} : IsSemanticScope(Kind(j))}   \* Mutant
Scope(i) == {j \in Above(i) : IsSemanticScope(Kind(j))}
-----------------------------------------------------------------------------
ErrorsInOthers ==   \* Mutant
  {[code |-> "syntax-error", node |-> i] :
     i \in {j \in Node : Kind(j) = "ERROR" /\ Kind(nodes[j].parent) # "ERROR"}}
  \cup {[code |-> "missing-syntax", node |-> i] : i \in {j \in Node : nodes[j].missing}}

(* collectDiagnostics: of nested errors the outermost.                     *)
Diagnostics ==
  {[code |-> "syntax-error", node |-> i] :
     i \in {j \in Node : /\ Kind(j) = "ERROR"
                         /\ \A k \in Above(j) : Kind(k) # "ERROR"}}
  \cup {[code |-> "missing-syntax", node |-> i] : i \in {j \in Node : nodes[j].missing}}
  \cup {[code |-> "mismatched-event-end", node |-> i] :
          i \in {j \in Node : Kind(j) = "mismatched_event_end"}}

(* root.HasError(), of the tree-sitter library.                            *)
SemanticComplete == \A i \in Node : Kind(i) # "ERROR" /\ ~nodes[i].missing

(* collectSymbols.                                                         *)
SymbolKind ==
  [dialog_definition |-> "dialog", softkey_menu_definition |-> "softkey",
   array_definition |-> "array", block_definition |-> "block", grid_definition |-> "grid",
   declaration |-> "variable", subprogram |-> "subprogram", output_block |-> "output",
   load_event |-> "event", unload_event |-> "event", change_event |-> "event",
   press_event |-> "event", focus_event |-> "event", accesslevel_event |-> "event",
   channel_event |-> "event", control_event |-> "event", language_event |-> "event",
   resolution_event |-> "event", suspend_event |-> "event", resume_event |-> "event",
   start_softkey_press_event |-> "event"]

HeaderAsName(i) ==   \* Mutant
  First({j \in Children(i) : nodes[j].field \in {"name", "header"}})

SymbolSelection(i) ==
  LET name == Field(i, "name")
      header == Field(i, "header")
      identifier == IF header = None THEN None
                    ELSE FirstDescendant(header,
                           {"identifier", "start_softkey_identifier", "softkey_identifier"})
  IN CASE name # None -> name
       [] name = None /\ header = None -> i
       [] name = None /\ header # None /\ (Kind(i) \in Event \/ identifier = None) -> header
       [] OTHER -> identifier

(* A symbol and the symbol it is a child of.                               *)
IsSymbol(i) == Kind(i) \in DOMAIN SymbolKind
Symbols ==
  {[node |-> i, kind |-> SymbolKind[Kind(i)], selection |-> SymbolSelection(i),
    parent |-> LET above == {j \in Above(i) : IsSymbol(j)} IN
                 IF above = {} THEN None ELSE Max(above)] :
   i \in {j \in Node : IsSymbol(j)}}

(* lowerDefinition.                                                        *)
DefinitionKind ==
  [dialog_definition |-> "dialog", softkey_menu_definition |-> "softkey",
   array_definition |-> "array", block_definition |-> "block", grid_definition |-> "grid",
   declaration |-> "variable", subprogram |-> "subprogram", output_block |-> "output"]

(* The name in a header is its first field, if that is an identifier alone.*)
NameInRecord(record) ==
  LET first == First({j \in Children(record) : Named(j)})
      parts == {j \in Children(first) : Named(j)}
  IN CASE Kind(first) = "identifier" -> first
       [] Kind(first) = "legacy_field" /\ Cardinality(parts) = 1 -> Min(parts)
       [] OTHER -> None

DefinitionSelection(i) ==
  LET name == Field(i, "name")
      header == Field(i, "header")
      record == IF header = None THEN None
                ELSE FirstDescendant(header, {"legacy_field_record", "property_record"})
  IN CASE name # None -> name
       [] name = None /\ record # None -> NameInRecord(record)
       [] OTHER -> None

IsDefinition(i) ==
  /\ Kind(i) \in DOMAIN DefinitionKind
  /\ Kind(DefinitionSelection(i)) = "identifier"
  /\ Text(DefinitionSelection(i)) # ""

Definitions ==
  {[node |-> i, kind |-> DefinitionKind[Kind(i)], selection |-> DefinitionSelection(i),
    scope |-> Scope(i)] : i \in {j \in Node : IsDefinition(j)}}
-----------------------------------------------------------------------------
(* lowerReference.  Identifiers are references to variables where code is  *)
(* executed, but not where they are names, properties or functions.        *)
SuppressesDefinedNames(parent, child) ==   \* Mutant
  nodes[child].field \in {"header", "name", "property"}

Suppresses(parent, child) ==
  CASE Kind(parent) \in Entity -> SameNode(child, Field(parent, "header"))
    [] Kind(parent) \in {"declaration", "subprogram", "output_block"} ->
         \/ SameNode(child, Field(parent, "name"))
         \/ Kind(child) \in {"legacy_field_record", "property_record"}
    [] Kind(parent) = "call_expression"     -> SameNode(child, Field(parent, "function"))
    [] Kind(parent) = "member_expression"   -> SameNode(child, Field(parent, "property"))
    [] Kind(parent) = "index_expression"    -> SameNode(child, Field(parent, "value"))
    [] Kind(parent) = "property_assignment" -> SameNode(child, Field(parent, "name"))
    [] OTHER -> FALSE

AllowsVariables(i) ==
  LET allows[j \in Node] ==
        LET parent == nodes[j].parent IN
          /\ parent # None
          /\ allows[parent] \/ ContainsExecutableExpressions(Kind(parent))
          /\ ~Suppresses(parent, j)
  IN allows[i]

Reference(node, kind, name, file) ==
  [node |-> node, kind |-> kind, name |-> name, file |-> file, scope |-> Scope(node)]

VariableReferences ==
  {Reference(i, "variable", Text(i), None) :
     i \in {j \in Node : Kind(j) = "identifier" /\ AllowsVariables(j)}}

IndexReferences ==
  {Reference(Field(i, "value"), "arrayOrGrid", Text(Field(i, "value")), None) :
     i \in {j \in Node : /\ Kind(j) = "index_expression"
                         /\ Kind(Field(j, "value")) = "identifier"}}

OrdinalSlot(argument) ==   \* Mutant
  Cardinality({j \in Children(nodes[argument].parent) : Named(j) /\ j < argument})

(* The arguments of a call, by the commas before them.                     *)
Slot(argument) ==
  Cardinality({j \in Children(nodes[argument].parent) : Kind(j) = "," /\ j < argument})

InSlot(arguments, slot) ==
  LET there == {j \in Children(arguments) :
                  Named(j) /\ Kind(j) # "comment" /\ Slot(j) = slot}
  IN IF there = {} THEN None ELSE Max(there)

(* A string that is all there and not empty. *)
IsDecoded(i) == Kind(i) = "string" /\ Text(i) # ""

CallKind ==
  [CALL |-> "subprogram", GC |-> "output", LM |-> "dialog", LS |-> "softkey",
   LB |-> "block", LA |-> "array", LG |-> "grid"]

TakesFile == {"LM", "LS", "LB", "LA"}

Function(call) == LET f == Field(call, "function") IN
  IF Kind(f) = "identifier" THEN Text(f) ELSE ""

IsStaticCall(i) ==
  /\ Kind(i) = "call_expression" /\ Function(i) \in DOMAIN CallKind
  /\ Field(i, "arguments") # None /\ IsDecoded(InSlot(Field(i, "arguments"), 0))

CallReferences ==
  {LET file == InSlot(Field(i, "arguments"), 1)
       target == InSlot(Field(i, "arguments"), 0)
   IN Reference(target, CallKind[Function(i)], Text(target),
        IF Function(i) \in TakesFile /\ IsDecoded(file) THEN file ELSE None) :
   i \in {j \in Node : IsStaticCall(j)}}

References == VariableReferences \cup IndexReferences \cup CallReferences

(* lowerBuiltin: the function of a call, a constant, or the keyword with   *)
(* which a node begins.                                                    *)
BuiltinKeyword == {"declaration_statement", "if_statement", "subprogram",
                   "output_block", "return_statement"}

BuiltinFunctions == {Field(i, "function") : i \in
  {j \in Node : Kind(j) = "call_expression" /\ Function(j) \in DOMAIN CallKind}}

Builtins ==
  BuiltinFunctions
  \cup {i \in Node : Kind(i) \in BuiltinKeyword \cup {"boolean"} /\ ~nodes[i].missing}

(* What completion asks for in a string (classifyCompletionLine), with      *)
(* another table of functions.                                              *)
CompletionTargetKind ==
  [CALL |-> "subprogram", GC |-> "output", LM |-> "dialog", LS |-> "softkey",
   LB |-> "block", LA |-> "array", LG |-> "grid"]

CompletionAsksFor(function, slot) ==
  CASE function \in DOMAIN CompletionTargetKind /\ slot = 0 -> CompletionTargetKind[function]
    [] function \in {"LM", "LS", "LB", "LA"} /\ slot = 1 -> "filename"
    [] OTHER -> "expression"

(* activeCallArgument, which sees no tree but the line before the cursor    *)
(* (CompletionLine): the arguments a string in the text is taken to be in,  *)
(* and the commas counted for it.  A call of a member, which no name opens, *)
(* only nests in the call around it.                                        *)
NamesACall(a) == Kind(a) = "arguments" /\ Function(nodes[a].parent) # ""

ScannedArguments(i) ==
  LET opened == {a \in Above(i) : NamesACall(a)} IN
    IF opened = {} THEN None ELSE Max(opened)

ScannedSlot(i) ==
  Cardinality({j \in Node :
    /\ Kind(j) = "," /\ nodes[j].to < nodes[i].from /\ ScannedArguments(i) \in Above(j)
    /\ \A a \in Above(j) : Kind(a) = "arguments" => a <= ScannedArguments(i)})

Asked(i) ==
  LET a == ScannedArguments(i) IN
    IF a = None THEN "expression"
    ELSE CompletionAsksFor(Function(nodes[a].parent), ScannedSlot(i))
-----------------------------------------------------------------------------
(* What the analyzer takes for granted of the language.                    *)
IsTyped(grammar) ==
  LET kinds == DOMAIN grammar.rules IN
    /\ "source_file" \in kinds
    /\ \A kind \in kinds :
         grammar.rules[kind] \subseteq Seq([field : STRING, kinds : SUBSET kinds])

(* A child that is asked for by its field is the only one.                 *)
FieldsDiffer(grammar) ==
  \A kind \in DOMAIN grammar.rules : \A production \in grammar.rules[kind] :
    \A m, n \in DOMAIN production :
      m # n /\ production[m].field = production[n].field =>
        production[m].field \notin {"header", "name", "property", "function", "arguments"}

(* Commas are between the arguments of a call.                             *)
ArgumentsAreSeparated(grammar) ==
  "arguments" \in DOMAIN grammar.rules =>
    \A production \in grammar.rules["arguments"] : \A m, n \in DOMAIN production :
      m < n => \/ production[m].kinds \subseteq {",", "comment"}
               \/ production[n].kinds \subseteq {",", "comment"}
               \/ \E k \in m..n : production[k].kinds = {","}

(* The name of a declaration comes first.                                  *)
NamesComeFirst(grammar) ==
  "declaration" \in DOMAIN grammar.rules =>
    \A production \in grammar.rules["declaration"] : \A k \in DOMAIN production :
      production[k].field = "name" => k = 1

Parts(grammar, kind) ==
  UNION {{production[k] : k \in DOMAIN production} : production \in grammar.rules[kind]}

(* Nothing is in a comma, a comment or a string.                           *)
NothingIsInWords(grammar) ==
  \A kind \in DOMAIN grammar.rules :
    kind \in {",", "comment", "string"} => Parts(grammar, kind) = {}

(* Which nodes have a child with a field, and of which kind it is.         *)
FieldsAreOf(grammar) ==
  \A kind \in DOMAIN grammar.rules : \A part \in Parts(grammar, kind) :
    /\ part.field = "header" =>
         kind \in Event \/ (kind \in Entity /\ part.kinds = {"definition_header"})
    /\ part.field = "name" =>
         kind \in {"declaration", "subprogram", "output_block", "property_assignment"}
    /\ part.field = "property" => kind = "member_expression"
    /\ part.field = "arguments" => kind = "call_expression" /\ part.kinds = {"arguments"}
    /\ "arguments" \in part.kinds => part.field = "arguments"

(* A header holds records and words without identifiers; and nothing that  *)
(* is defined or executed is in a header or in a declaration.              *)
HeadersAreRecords(grammar) ==
  /\ "definition_header" \in grammar.inner
  /\ \A kind \in grammar.inner :
       kind \notin DOMAIN DefinitionKind /\ ~ContainsExecutableExpressions(kind)
  /\ \A kind \in DOMAIN grammar.rules : \A part \in Parts(grammar, kind) :
       /\ kind \in grammar.inner \cup {"declaration"} => part.kinds \subseteq grammar.inner
       /\ kind = "definition_header" => \A inside \in part.kinds :
            \/ inside \in {"legacy_field_record", "property_record"}
            \/ /\ Parts(grammar, inside) = {}
               /\ inside \notin {"identifier", "start_softkey_identifier", "softkey_identifier"}

(* Definitions of dialogs and their like make up the file, and all else is *)
(* in one of them, but for what could not be parsed.                       *)
FilesAreDefinitions(grammar) ==
  \A kind \in DOMAIN grammar.rules : \A part \in Parts(grammar, kind) :
    /\ "source_file" \notin part.kinds
    /\ IF kind = "source_file" THEN part.kinds \subseteq Entity \cup {"ERROR", "comment"}
       ELSE kind # "ERROR" => part.kinds \cap Entity = {}

ASSUME GrammarAssumption ==
  /\ \A name \in DOMAIN Grammar :
       LET grammar == Grammar[name] IN
         /\ IsTyped(grammar) /\ FieldsDiffer(grammar) /\ FieldsAreOf(grammar)
         /\ ArgumentsAreSeparated(grammar) /\ NamesComeFirst(grammar)
         /\ NothingIsInWords(grammar)
         /\ HeadersAreRecords(grammar) /\ FilesAreDefinitions(grammar)
  /\ Entity \cup {"subprogram", "output_block", "identifier", "string"} \subseteq Word
-----------------------------------------------------------------------------
(* A name in the text is one thing only: the name of a definition, a       *)
(* variable, an array or grid that is indexed, the target of a call or the *)
(* file it is in, or the function that is called.  So hover, definition    *)
(* and references, which look for them in different orders, mean the same  *)
(* by one position (analyzer.go, collectSemantics).                        *)
NamesHaveOneMeaning ==
  Parsed =>
    LET names == {d.selection : d \in Definitions}
        uses == {r.node : r \in References}
        files == {r.file : r \in References} \ {None}
    IN /\ names \cap uses = {} /\ files \cap (names \cup uses) = {}
       /\ Cardinality(uses) = Cardinality(References)
       /\ BuiltinFunctions \cap (names \cup uses) = {}
       /\ \A i \in uses : nodes[i].field \notin {"property", "name"}

(* The outline and the definitions, two walks with two tables, agree: each *)
(* definition is a symbol of its kind under the same name, a child of the  *)
(* symbol that is its innermost scope.  The name of a symbol lies in it    *)
(* (analyzer.go, lowerSymbol, lowerDefinition and symbolSelection).        *)
OutlineShowsDefinitions ==
  Parsed =>
    /\ \A d \in Definitions :
         [node |-> d.node, kind |-> d.kind, selection |-> d.selection,
          parent |-> IF d.scope = {} THEN None ELSE Max(d.scope)] \in Symbols
    /\ \A s \in Symbols : /\ s.parent \in Above(s.node) \cup {None}
                           /\ s.node \in Above(s.selection) \cup {s.selection}

(* What Resolution assumes of an analysis (AnalysisAssumption): files are   *)
(* named only where a dialog or its like, but no grid, is used, and no two  *)
(* things in the text begin at one place; and if it is complete, dialogs    *)
(* and their like are owned by nothing and everything else by one of them   *)
(* (analyzer.go, lowerDefinition and lowerReference).                       *)
AnalysisIsAsAssumed ==
  Parsed =>
    LET things == {i \in {d.node : d \in Definitions} \cup {r.node : r \in References} :
                     ~nodes[i].missing}
    IN /\ \A r \in References : r.file # None => r.kind \in {"dialog", "softkey", "array", "block"}
       /\ \A i, j \in things : nodes[i].from = nodes[j].from => i = j
       /\ SemanticComplete =>
            /\ \A d \in Definitions : Kind(d.node) \in Entity <=> d.scope = {}
            /\ \A r \in References : \E e \in r.scope : e = Min(r.scope) /\ Kind(e) \in Entity

(* An analysis is incomplete, so that the index makes no claims from it,   *)
(* exactly if the user is shown a syntax error, and of errors within       *)
(* errors only the outermost is shown (analyzer.go, Analyze and            *)
(* collectDiagnostics).                                                    *)
IncompleteMeansErrors ==
  Parsed =>
    LET errors == {d.node : d \in {x \in Diagnostics : x.code = "syntax-error"}} IN
      /\ SemanticComplete <=> \A d \in Diagnostics : d.code = "mismatched-event-end"
      /\ \A i, j \in errors : i \notin Above(j)

(* Completion, which scans the line, and the analysis, which walks the      *)
(* tree, each with a table and a count of its own, agree on what a string   *)
(* means: one that names a target, or the file of one, is asked for as      *)
(* just that, and what is asked for in the arguments of a call, as a        *)
(* target, becomes one (analyzer.go, classifyCompletionLine and             *)
(* lowerCallReference).  They do not agree on strings further inside: for   *)
(* one in the call of a member, as in LM(object.CALL("..")), completion     *)
(* asks for the target of LM, which the analysis does not see there.        *)
CompletedTargetsAreReferences ==
  Parsed =>
    \A i \in {j \in Node : IsDecoded(j)} :
      LET meant == {r \in CallReferences : i \in {r.node, r.file}} IN
        /\ \A r \in meant : Asked(i) = IF i = r.node THEN r.kind ELSE "filename"
        /\ /\ nodes[i].parent = ScannedArguments(i)
           /\ Asked(i) \notin {"expression", "filename"}
           => \E r \in meant : i = r.node
=============================================================================
