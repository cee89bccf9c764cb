--------------------------- MODULE MCSyntaxLowering ---------------------------
(* Trees for TLC: two parts of the grammar, as far as the analyzer knows   *)
(* it.  Code has one event or subprogram with one statement; Outline has   *)
(* every form of a header, declarations and errors.                        *)
EXTENDS SyntaxLowering

Child(field, kinds) == [field |-> field, kinds |-> kinds]
One(kinds) == Child("", kinds)

Leaves == [kind \in {"identifier", "string", "number", ",", "event_header", "boolean",
                     "mismatched_event_end"} |-> {<<>>}]

Expression == {"identifier", "string", "call_expression", "index_expression"}

Fields ==
  "legacy_field_record" :> {<<One({"legacy_field"})>>} @@
  "legacy_field" :> {<<One({"identifier"})>>}

Code ==
  Leaves @@ Fields @@
  "source_file" :> {<<One({"block_definition"})>>} @@
  "block_definition" :> {<<Child("header", {"definition_header"}),
                           One({"load_event", "subprogram"})>>} @@
  "definition_header" :> {<<One({"legacy_field_record"})>>} @@
  "load_event" :> {<<Child("header", {"event_header"}),
                     One({"expression_statement", "assignment_statement", "if_statement",
                          "declaration_statement"})>>} @@
  "subprogram" :> {<<Child("name", {"identifier"}),
                     One({"expression_statement", "assignment_statement"})>>} @@
  "expression_statement" :> {<<One({"call_expression"})>>} @@
  "assignment_statement" :> {<<Child("left", {"identifier", "index_expression"}),
                               Child("right", Expression)>>} @@
  "if_statement" :> {<<Child("condition", {"identifier", "index_expression", "boolean"})>>} @@
  "declaration_statement" :> {<<One({"declaration"})>>} @@
  "declaration" :> {<<Child("name", {"identifier"}),
                      Child("value", {"identifier", "legacy_field_record", "property_record"})>>} @@
  "property_record" :> {<<One({"property_assignment"})>>} @@
  "property_assignment" :> {<<Child("name", {"identifier"}), Child("value", Expression)>>} @@
  "call_expression" :> {<<Child("function", {"identifier", "member_expression"}),
                          Child("arguments", {"arguments"})>>} @@
  "arguments" :> {<<>>, <<One(Expression)>>, <<One({","}), One({"string"})>>,
                  <<One({"identifier", "string"}), One({","}), One({"string"})>>} @@
  "member_expression" :> {<<Child("object", {"identifier"}), Child("property", {"identifier"})>>} @@
  "index_expression" :> {<<Child("value", {"identifier", "member_expression"}),
                           Child("index", Expression)>>}

Items == {"declaration_statement", "load_event", "subprogram", "ERROR"}

Outline ==
  Leaves @@
  "source_file" :> {<<One({"dialog_definition"})>>, <<One({"ERROR"})>>,
                    <<One({"dialog_definition"}), One({"grid_definition"})>>} @@
  "dialog_definition" :> {<<Child("header", {"definition_header"}), One(Items)>>} @@
  "grid_definition" :> {<<Child("header", {"definition_header"})>>} @@
  "definition_header" :> {<<One({"legacy_field_record", "property_record"})>>} @@
  "legacy_field_record" :> {<<One({"legacy_field"})>>, <<One({"legacy_field"}), One({"legacy_field"})>>} @@
  "legacy_field" :> {<<One({"identifier", "number"})>>, <<One({"number"}), One({"identifier"})>>} @@
  "property_record" :> {<<One({"identifier"}), One({"property_assignment"})>>,
                        <<One({"property_assignment"})>>} @@
  "property_assignment" :> {<<Child("name", {"identifier"}), Child("value", {"identifier"})>>} @@
  "declaration_statement" :> {<<One({"declaration"})>>, <<One({"declaration"}), One({"declaration"})>>} @@
  "declaration" :> {<<Child("name", {"identifier"})>>, <<Child("name", {"identifier"}), Child("value", {"number"})>>} @@
  "load_event" :> {<<Child("header", {"event_header"}), One({"ERROR", "declaration_statement", "mismatched_event_end"})>>} @@
  "subprogram" :> {<<Child("name", {"identifier"})>>} @@
  "ERROR" :> {<<>>, <<One({"ERROR", "identifier"})>>, <<One({"load_event"})>>}

Begins ==
  Entity \cup
  {"load_event", "subprogram", "output_block", "declaration_statement", "if_statement",
   "arguments", "legacy_field_record", "property_record", "event_header",
   "mismatched_event_end", "identifier", "string", "number", ",", "boolean"}

Inner ==
  {"definition_header", "legacy_field_record", "legacy_field", "property_record",
   "property_assignment", "identifier", "string", "number", ",", "call_expression",
   "arguments", "member_expression", "index_expression"}

MCGrammar ==
  [code |-> [rules |-> Code, mayMiss |-> {}, inner |-> Inner, maxNodes |-> 20],
   outline |-> [rules |-> Outline, mayMiss |-> {"identifier", "event_header"}, inner |-> Inner,
                maxNodes |-> 16]]

MCTexts(kind, field) ==
  CASE field = "function" /\ kind = "identifier" -> {"CALL", "LM", "other"}
    [] kind = "string" -> {"target", ""}
    [] kind = "identifier" -> {"name"}
    [] OTHER -> {""}
=============================================================================
