--------------------------- MODULE MCTextDocument ---------------------------
(* Every text of up to five bytes, changed to a shorter one, to one with    *)
(* other line starts, and to one with characters of all lengths.            *)
EXTENDS TextDocument

MCReplacements == {<<>>, <<"lf", "x", "cr", "lf">>,
                   <<"l4", "t", "t", "t", "lf", "l3", "t", "t", "t">>}
=============================================================================
