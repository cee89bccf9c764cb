---------------------------- MODULE MCCompletion ----------------------------
(* Lines: L is the name of LM or its like, C that of CALL; x is any other  *)
(* letter.  Documents: what opens, and ends, the blocks of the language    *)
(* (grammar and analyzer_test.go,                                          *)
(* TestExpectedTerminatorsCoverEventsAndLoopShapes).                       *)
EXTENDS Completion

MCTyped == {"x", Blank, "(", ")", ",", Quote, ";"}
MCStart == {<<>>, <<"L", "(">>, <<"L", "(", "x", ".", "x", "(">>,
            <<"x", ".", "L">>, <<"C", "(", Quote>>, <<"C", "(", Quote, Quote>>,
            <<"L", "(", "(">>, <<"L", "(", Quote, ";">>, <<"x", Quote, ")">>,
            <<"L", "(", Quote, "x", Quote, ",">>}
MCEntity == {<<"L">>}
MCOneTarget == {<<"C">>}
MCEnding == {<<>>, <<"x">>, <<Quote, "x">>, <<"x", Quote>>}

Block(kinds, ends) == [kinds |-> kinds, ends |-> ends]

MCLanguage ==
  "M" :> Block({"dialog_definition"}, {"END"}) @@
  "S" :> Block({"softkey_menu_definition"}, {"END"}) @@
  "A" :> Block({"array_definition"}, {"END"}) @@
  "B" :> Block({"block_definition"}, {"END"}) @@
  "G" :> Block({"grid_definition"}, {"END"}) @@
  "LOAD" :> Block({"load_event"}, {"END_LOAD"}) @@
  "UNLOAD" :> Block({"unload_event"}, {"END_UNLOAD"}) @@
  "CHANGE" :> Block({"change_event"}, {"END_CHANGE"}) @@
  "PRESS" :> Block({"press_event", "start_softkey_press_event"}, {"END_PRESS"}) @@
  "FOCUS" :> Block({"focus_event"}, {"END_FOCUS"}) @@
  "ACCESSLEVEL" :> Block({"accesslevel_event"}, {"END_ACCESSLEVEL"}) @@
  "CHANNEL" :> Block({"channel_event"}, {"END_CHANNEL"}) @@
  "CONTROL" :> Block({"control_event"}, {"END_CONTROL"}) @@
  "LANGUAGE" :> Block({"language_event"}, {"END_LANGUAGE"}) @@
  "RESOLUTION" :> Block({"resolution_event"}, {"END_RESOLUTION"}) @@
  "SUSPEND" :> Block({"suspend_event"}, {"END_SUSPEND"}) @@
  "RESUME" :> Block({"resume_event"}, {"END_RESUME"}) @@
  "SUB" :> Block({"subprogram"}, {"END_SUB"}) @@
  "OUTPUT" :> Block({"output_block"}, {"END_OUTPUT"}) @@
  "IF" :> Block({"if_statement"}, {"ENDIF"}) @@
  "SWITCH" :> Block({"switch_statement"}, {"END_SWITCH"}) @@
  "DO" :> Block({"post_test_loop"}, {"LOOP_WHILE", "LOOP_UNTIL"}) @@
  "DO_WHILE" :> Block({"pre_test_loop"}, {"LOOP"}) @@
  "DO_UNTIL" :> Block({"pre_test_loop"}, {"LOOP"})

AllWords == DOMAIN MCLanguage \cup UNION {MCLanguage[w].ends : w \in DOMAIN MCLanguage}
=============================================================================
