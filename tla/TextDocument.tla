---------------------------- MODULE TextDocument ----------------------------
(***************************************************************************)
(* document.Document (document.go): a text of bytes, the table of its line *)
(* starts, and the translation between byte offsets, which the parser and  *)
(* the index use, and LSP positions, which count UTF-16 code units.        *)
(*                                                                         *)
(* A byte is told apart by its role in UTF-8: "x" is an ASCII character,   *)
(* "cr" and "lf" end lines, "l3" and "l4" start characters of three and    *)
(* four bytes and "t" continues them.  Files read from disk need not be    *)
(* valid UTF-8; a byte that fits nowhere is a character of its own, as in  *)
(* Go's decoder.  Offsets count from 0, the elements of a sequence from 1. *)
(***************************************************************************)
EXTENDS Integers, Sequences, SequencesExt, FiniteSets

CONSTANTS
  MaxLength,       (* bound: bytes in a text that is opened               *)
  Replacements     (* the texts an open document may be changed to        *)

Byte == {"x", "cr", "lf", "l3", "l4", "t"}

ASSUME LengthAssumption == MaxLength \in Nat
ASSUME ReplacementAssumption == Replacements \subseteq Seq(Byte)

VARIABLES
  text,            (* Document.Text                                       *)
  lineStarts       (* Document.lineStarts                                 *)

vars == <<text, lineStarts>>

Position == [line : Nat, character : Nat]
NoOffset == -1

(* reindex: a line starts at 0 and after every line feed. *)
LineStarts(t) ==
  LET upTo[n \in 0..Len(t)] ==
        IF n = 0 THEN <<0>>
        ELSE IF t[n] = "lf" THEN Append(upTo[n - 1], n)
        ELSE upTo[n - 1]
  IN  upTo[Len(t)]

Init ==
  /\ text \in BoundedSeq(Byte, MaxLength)
  /\ lineStarts = LineStarts(text)

Replace(t) ==
  /\ text' = t
  /\ lineStarts' = LineStarts(t)

Next == \E t \in Replacements : Replace(t)

Spec == Init /\ [][Next]_vars
-----------------------------------------------------------------------------
(* utf8.DecodeRune on the bytes from offset i up to offset end, end not     *)
(* included: the size of the character, and its UTF-16 length.              *)
LengthAfter(byte) == IF byte = "l3" THEN 3 ELSE IF byte = "l4" THEN 4 ELSE 1

Size(i, end) ==
  LET n == LengthAfter(text[i + 1]) IN
  IF i + n <= end /\ \A k \in 2..n : text[i + k] = "t" THEN n ELSE 1

OneUnitEach(i, end) == 1   \* Mutant

Units(i, end) == IF Size(i, end) = 4 THEN 2 ELSE 1

Utf16Length(start, end) ==
  LET length[i \in start..end] ==
        IF i = end THEN 0 ELSE Units(i, end) + length[i + Size(i, end)]
  IN  length[start]

(* PositionAt: the last line that does not start after the offset. *)
PositionAt(byteOffset) ==
  LET offset == IF byteOffset > Len(text) THEN Len(text) ELSE byteOffset
      line == Cardinality({i \in DOMAIN lineStarts : lineStarts[i] <= offset})
  IN  [line |-> line - 1, character |-> Utf16Length(lineStarts[line], offset)]

LineEndBeforeLf(line) ==   \* Mutant
  IF line = Len(lineStarts) THEN Len(text) ELSE lineStarts[line + 1] - 1

(* The end of a line, without its line feed and the carriage return before. *)
LineEnd(line) ==
  IF line = Len(lineStarts) THEN Len(text)
  ELSE LET end == lineStarts[line + 1] - 1 IN
       IF end > lineStarts[line] /\ text[end] = "cr" THEN end - 1 ELSE end

EndlessByteOffsetAt(position) ==   \* Mutant
  LET line == position.line + 1 IN
  IF line > Len(lineStarts) THEN NoOffset
  ELSE LET end == LineEnd(line)
           scan[at \in (lineStarts[line]..end) \X (0..position.character)] ==
             IF at[1] = end THEN NoOffset
             ELSE IF at[2] = position.character THEN at[1]
             ELSE IF at[2] + Units(at[1], end) > position.character THEN NoOffset
             ELSE scan[<<at[1] + Size(at[1], end), at[2] + Units(at[1], end)>>]
       IN  scan[<<lineStarts[line], 0>>]

(* ByteOffsetAt: no offset for a line or a column that is not there, nor    *)
(* for the middle of a surrogate pair.  The loop is at an offset of the     *)
(* line, that many code units behind its start.                             *)
ByteOffsetAt(position) ==
  LET line == position.line + 1 IN
  IF line > Len(lineStarts) THEN NoOffset
  ELSE LET end == LineEnd(line)
           scan[at \in (lineStarts[line]..end) \X (0..position.character)] ==
             IF at[2] = position.character THEN at[1]
             ELSE IF at[1] = end \/ at[2] + Units(at[1], end) > position.character
             THEN NoOffset
             ELSE scan[<<at[1] + Size(at[1], end), at[2] + Units(at[1], end)>>]
       IN  scan[<<lineStarts[line], 0>>]

FoldsToTheEnd(from, to) ==   \* Mutant
  LET start == PositionAt(from).line
      last == PositionAt(to).line
  IN IF last <= start THEN {} ELSE {[startLine |-> start, endLine |-> last]}

(* foldingRanges (server.go) for a node from one offset up to another: a    *)
(* node that takes its last line break with it ends on the line before.     *)
FoldingRange(from, to) ==
  LET start == PositionAt(from).line
      end == PositionAt(to)
      last == IF end.character = 0 /\ end.line > start THEN end.line - 1 ELSE end.line
  IN IF last <= start THEN {} ELSE {[startLine |-> start, endLine |-> last]}
-----------------------------------------------------------------------------
(* What an editor sees of a text: characters, and line breaks as one.       *)
InsideCharacter(offset) ==
  \E i \in 0..(offset - 1) : i + Size(i, Len(text)) > offset

InsideLineBreak(offset) ==
  offset \in 1..(Len(text) - 1) /\ text[offset] = "cr" /\ text[offset + 1] = "lf"

CursorOffsets ==
  {o \in 0..Len(text) : ~InsideCharacter(o) /\ ~InsideLineBreak(o)}

Positions == [line : 0..(Len(text) + 1), character : 0..(Len(text) + 1)]

(* A position the server accepts is a place where the cursor can be, and    *)
(* is translated back to itself: what the index says about the offset is    *)
(* said about the position the client asked for.                            *)
AcceptedPositionsComeBack ==
  \A position \in Positions :
    LET offset == ByteOffsetAt(position) IN
    offset # NoOffset => offset \in CursorOffsets /\ PositionAt(offset) = position

(* Every place a range can start or end at has a position, and the client   *)
(* can ask about it.                                                        *)
OffsetsComeBack == \A o \in CursorOffsets : ByteOffsetAt(PositionAt(o)) = o

(* Offsets in the text and positions in the protocol name the same places,  *)
(* whatever bytes the text has and after any replacement of it: no table is *)
(* stale, and nothing is off by one (document.go, ByteOffsetAt,             *)
(* PositionAt).                                                             *)
PositionsAndOffsetsAgree == AcceptedPositionsComeBack /\ OffsetsComeBack

(* Positions are what the protocol says: line breaks before, and UTF-16     *)
(* code units since the last one; a character outside the BMP counts two.   *)
PositionsCountCodeUnits ==
  \A o \in CursorOffsets :
    LET line == {i \in 0..(o - 1) : \A k \in (i + 1)..o : text[k] # "lf"}
        starts == {i \in line : ~InsideCharacter(i)}
    IN  PositionAt(o) =
          [line |-> Cardinality({i \in 1..o : text[i] = "lf"}),
           character |-> Cardinality(starts)
             + Cardinality({i \in starts : text[i + 1] = "l4" /\ Size(i, Len(text)) # 1})]

(* A block folds up to the line of its last character, whether or not it    *)
(* has the line break behind it; the line after it is never hidden, and     *)
(* what lies on one line is no fold (server.go, foldingRanges).             *)
FoldsEndWithTheirBlock ==
  \A from, to \in CursorOffsets :
    from < to =>
      LET Line(o) == Cardinality({i \in 1..o : text[i] = "lf"}) IN
        FoldingRange(from, to) =
          IF Line(to - 1) > Line(from)
          THEN {[startLine |-> Line(from), endLine |-> Line(to - 1)]} ELSE {}
=============================================================================
