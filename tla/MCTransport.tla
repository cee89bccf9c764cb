---------------------------- MODULE MCTransport ----------------------------
(* For the reader: payloads that look like headers, one that is no message *)
(* and an empty one, which is none either; headers with more lines and     *)
(* lengths.                                                                *)
EXTENDS Transport

Json == Item("json", 0)

MCPayload ==
  {<<Json>>, <<Blank, Json>>, <<Item("length", 2), Blank, Broken>>, <<Other>>, <<>>}
MCMalformed == {<<Other>>, <<>>}
MCBefore == {<<>>, <<Other>>, <<Item("length", 1)>>, <<Other, Broken>>}
=============================================================================
