--------------------------- MODULE CompletionLine ---------------------------
(***************************************************************************)
(* Completion looks at the line the cursor is in with a scanner of its own *)
(* (analyzer.go, classifyCompletionLine): is the cursor in a string that   *)
(* is an argument of a call, of which call, at which place, and which part *)
(* of the line does an accepted item replace.  The server filters the      *)
(* items and turns the accepted one into an edit (server.go,               *)
(* completionItems).                                                       *)
(*                                                                         *)
(* A line is a sequence of characters, a cursor the number of characters   *)
(* before it.  The editor types at the end of the line and moves the       *)
(* cursor back, so that every line is seen with every cursor.              *)
(***************************************************************************)
EXTENDS Integers, FiniteSets, FiniteSetsExt, SequencesExt

CONSTANTS
  Letter,       (* characters of identifiers                              *)
  Entity,       (* names of LM, LS, LB, LA: a target, then a file name    *)
  OneTarget,    (* names of CALL, GC, LG: a target                        *)
  Start,        (* lines the editor starts from                           *)
  Typed,        (* characters it types                                    *)
  MaxTyped,     (* bound: how many it types                               *)
  Ending        (* what an item's label has after the typed prefix        *)

Character == Typed \cup UNION {Range(l) : l \in Start}

ASSUME CharacterAssumption ==
  /\ "" \notin Letter   \* At gives it for the end of the line
  /\ \A l \in Start : l \in Seq(Character)
  /\ \A w \in Ending : w \in Seq(Range(w))
  /\ MaxTyped \in Nat

Quote == "\""
Blank == " "
Semicolon == ";"
Separator == ","

VARIABLES line, cursor, typed

vars == <<line, cursor, typed>>

Init == line \in Start /\ cursor = Len(line) /\ typed = 0

Type(char) ==
  /\ cursor = Len(line) /\ typed < MaxTyped
  /\ line' = Append(line, char)
  /\ cursor' = cursor + 1
  /\ typed' = typed + 1

MoveBack ==
  /\ cursor > 0
  /\ cursor' = cursor - 1
  /\ UNCHANGED <<line, typed>>

Next == MoveBack \/ \E char \in Typed : Type(char)

Spec == Init /\ [][Next]_vars
-----------------------------------------------------------------------------
(* The character at i, "" at the end of the line. *)
At(l, i) == IF i \in DOMAIN l THEN l[i] ELSE ""

(* The end of the run of characters in S that ends at i, going back. *)
Back(l, i, S) == Max({j \in 0..i : j = 0 \/ l[j] \notin S})

IdentifierPrefix(l) == SubSeq(l, Back(l, Len(l), Letter) + 1, Len(l))

(* The identifier before the parenthesis at i, and whether it is a member. *)
IdentifierBefore(l, i) ==
  LET end == Back(l, i - 1, {Blank})
      begin == Back(l, end, Letter)
      before == Back(l, begin, {Blank})
  IN [name |-> SubSeq(l, begin + 1, end), member |-> before > 0 /\ l[before] = "."]

(* activeCallArgument: the open calls, each with the depth of parentheses   *)
(* and the argument in it, and where the string begins in which its scan    *)
(* is (0: none).                                                            *)
ScanStart == [stack |-> <<>>, outside |-> FALSE, skips |-> FALSE, ended |-> FALSE]

Top(s) == Last(s.stack)
WithTop(s, top) == [s EXCEPT !.stack = Append(Front(@), top)]

OpenString(s, i) ==
  IF s.stack = <<>> THEN [s EXCEPT !.outside = TRUE]
  ELSE WithTop(s, [Top(s) EXCEPT !.start = i])

CloseString(s) ==
  IF s.stack = <<>> THEN [s EXCEPT !.outside = FALSE]
  ELSE WithTop(s, [Top(s) EXCEPT !.start = 0])

OpenParenthesis(s, l, i) ==
  LET before == IdentifierBefore(l, i) IN
    IF before.name # <<>> /\ ~before.member
    THEN [s EXCEPT !.stack =
           Append(@, [name |-> before.name, depth |-> 1, slot |-> 0, start |-> 0])]
    ELSE IF s.stack = <<>> THEN s
    ELSE WithTop(s, [Top(s) EXCEPT !.depth = @ + 1])

CloseParenthesis(s) ==
  IF s.stack = <<>> THEN s
  ELSE IF Top(s).depth = 1 THEN [s EXCEPT !.stack = Front(@)]
  ELSE WithTop(s, [Top(s) EXCEPT !.depth = @ - 1])

CommaAtAnyDepth(s) ==   \* Mutant
  IF s.stack # <<>> THEN WithTop(s, [Top(s) EXCEPT !.slot = @ + 1]) ELSE s

Comma(s) ==
  IF s.stack # <<>> /\ Top(s).depth = 1
  THEN WithTop(s, [Top(s) EXCEPT !.slot = @ + 1])
  ELSE s

InString(s) == s.outside \/ (s.stack # <<>> /\ Top(s).start > 0)

(* One turn of the loop: of a doubled quote it skips the second, and a      *)
(* comment ends it.                                                         *)
ScanCharacter(l, next, i, s) ==
  CASE s.ended -> s
    [] ~s.ended /\ s.skips -> [s EXCEPT !.skips = FALSE]
    [] ~s.ended /\ ~s.skips /\ InString(s) ->
         IF l[i] # Quote THEN s
         ELSE IF At(l, i + 1) = Quote THEN [s EXCEPT !.skips = TRUE]
         ELSE IF i = Len(l) /\ next = Quote /\ ~s.outside THEN s
         ELSE CloseString(s)
    [] OTHER ->
         CASE l[i] = Semicolon -> [s EXCEPT !.ended = TRUE]
           [] l[i] = Quote     -> OpenString(s, i)
           [] l[i] = "("       -> OpenParenthesis(s, l, i)
           [] l[i] = ")"       -> CloseParenthesis(s)
           [] l[i] = Separator -> Comma(s)
           [] OTHER            -> s

Scan(l, next) ==
  LET after[i \in 0..Len(l)] ==
        IF i = 0 THEN ScanStart ELSE ScanCharacter(l, next, i, after[i - 1])
  IN  after[Len(l)]

(* strings.ReplaceAll, both ways. *)
Decode(s) ==
  LET from[i \in 1..(Len(s) + 1)] ==
        IF i > Len(s) THEN <<>>
        ELSE IF s[i] = Quote /\ At(s, i + 1) = Quote THEN <<Quote>> \o from[i + 2]
        ELSE <<s[i]>> \o from[i + 1]
  IN  from[1]

Encode(s) ==
  LET upTo[i \in 0..Len(s)] ==
        IF i = 0 THEN <<>>
        ELSE upTo[i - 1] \o IF s[i] = Quote THEN <<Quote, Quote>> ELSE <<s[i]>>
  IN  upTo[Len(s)]

(* quotedReplacementEnd: past doubled quotes, up to the closing one. *)
ReplacementEnd(l, offset) ==
  LET from[end \in 0..Len(l)] ==
        IF end = Len(l) THEN end
        ELSE IF l[end + 1] # Quote THEN from[end + 1]
        ELSE IF At(l, end + 2) = Quote THEN from[end + 2]
        ELSE end
  IN  from[offset]

Argument(name, slot) ==
  IF slot = 0 /\ name \in Entity \cup OneTarget THEN "target"
  ELSE IF slot = 1 /\ name \in Entity THEN "filename"
  ELSE "expression"

(* stripLineComment, with which the scan of the lines above the cursor      *)
(* (CompletionStructure) leaves out comments.                               *)
CommentStart(l) ==
  LET from[at \in (1..(Len(l) + 1)) \X BOOLEAN] ==
        LET i == at[1]
            inside == at[2]
        IN  IF i > Len(l) THEN i
            ELSE IF l[i] = Semicolon /\ ~inside THEN i
            ELSE IF l[i] # Quote THEN from[<<i + 1, inside>>]
            ELSE IF inside /\ At(l, i + 1) = Quote THEN from[<<i + 2, inside>>]
            ELSE from[<<i + 1, ~inside>>]
  IN  from[<<1, FALSE>>]

UpToSemicolon(l) == SubSeq(l, 1, Min({i \in 1..(Len(l) + 1) : At(l, i) \in {Semicolon, ""}}) - 1)   \* Mutant

StripLineComment(l) == SubSeq(l, 1, CommentStart(l) - 1)

QuotedNeverSkips(l, c, call) ==   \* Mutant
  [kind |-> Argument(call.name, call.slot), quoted |-> TRUE,
   prefix |-> Decode(SubSeq(l, call.start + 1, c)),
   from |-> call.start, to |-> ReplacementEnd(l, c)]

(* A cursor between two quotes skips the second, which belongs to the first.*)
Quoted(l, c, call) ==
  LET between == c > call.start /\ l[c] = Quote /\ At(l, c + 1) = Quote
  IN [kind |-> Argument(call.name, call.slot), quoted |-> TRUE,
      prefix |-> Decode(SubSeq(l, call.start + 1, c)),
      from |-> call.start, to |-> ReplacementEnd(l, IF between THEN c + 1 ELSE c)]

UnquotedOneEarly(l, c) ==   \* Mutant
  LET prefix == IdentifierPrefix(SubSeq(l, 1, c))
  IN [kind |-> "expression", quoted |-> FALSE, prefix |-> prefix,
      from |-> c - Len(prefix) - 1, to |-> c]

UnquotedUpToCursor(l, c) ==   \* Mutant
  LET prefix == IdentifierPrefix(SubSeq(l, 1, c))
  IN [kind |-> "expression", quoted |-> FALSE, prefix |-> prefix,
      from |-> c - Len(prefix), to |-> c]

Unquoted(l, c) ==
  LET before == SubSeq(l, 1, c)
      prefix == IdentifierPrefix(before)
      first == \A i \in 1..(c - Len(prefix)) : l[i] = Blank
  IN [kind |-> IF first THEN "statement" ELSE "expression", quoted |-> FALSE,
      prefix |-> prefix, from |-> c - Len(prefix),
      to |-> Min({j \in c..Len(l) : At(l, j + 1) \notin Letter})]

Classify(l, c) ==
  LET s == Scan(SubSeq(l, 1, c), At(l, c + 1)) IN
    IF s.stack # <<>> /\ Top(s).start > 0 THEN Quoted(l, c, Top(s)) ELSE Unquoted(l, c)

(* completionItems offers the labels that begin with the prefix, and writes *)
(* them into a string with their quotes doubled.                            *)
Labels(completion) == {completion.prefix \o w : w \in Ending}

NewText(completion, label) == IF completion.quoted THEN Encode(label) ELSE label

Edit(l, completion, label) ==
  SubSeq(l, 1, completion.from) \o NewText(completion, label)
    \o SubSeq(l, completion.to + 1, Len(l))
-----------------------------------------------------------------------------
(* What a line means, said without a scanner.  A character is in a string   *)
(* if the quotes before it are odd in number: a doubled quote counts twice. *)
Quotes(l, i) == Cardinality({j \in 1..i : l[j] = Quote})

Even(n) == n % 2 = 0
Commented(l, i) == \E j \in 1..i : l[j] = Semicolon /\ Even(Quotes(l, j))
Code(l, i) == Even(Quotes(l, i)) /\ ~Commented(l, i)

(* The cursor parts the two halves of a doubled quote. *)
PartsEscape(l, c) ==
  /\ c \in 1..(Len(l) - 1) /\ l[c] = Quote /\ l[c + 1] = Quote
  /\ Even(Quotes(l, c))

Within(l, c) == ~Commented(l, c) /\ (~Even(Quotes(l, c)) \/ PartsEscape(l, c))

(* A quote that is no half of a doubled one opens or closes a string.       *)
Opens(l, j) == l[j] = Quote /\ ~Even(Quotes(l, j)) /\ At(l, j - 1) # Quote
Closes(l, j) == l[j] = Quote /\ Even(Quotes(l, j)) /\ At(l, j + 1) # Quote

StringStart(l, c) == Max({j \in 1..c : Opens(l, j)})
StringEnd(l, c) == Min({Len(l)} \cup {j - 1 : j \in {k \in (c + 1)..Len(l) : Closes(l, k)}})

(* Parentheses that are open at the cursor, and the commas of such a one.   *)
Balance(l, i, j) ==
  Cardinality({k \in i..j : l[k] = "(" /\ Code(l, k)})
    - Cardinality({k \in i..j : l[k] = ")" /\ Code(l, k)})

OpenAt(l, c) ==
  {p \in 1..c : /\ l[p] = "(" /\ Code(l, p)
                /\ \A j \in (p + 1)..c : Balance(l, p + 1, j) >= 0}

Commas(l, p, c) ==
  Cardinality({k \in (p + 1)..c : /\ l[k] = Separator /\ Code(l, k)
                                  /\ Balance(l, p + 1, k) = 0})

NamedAt(l, c) == {p \in OpenAt(l, c) : IdentifierBefore(l, p).name # <<>>}
CallsAt(l, c) == {p \in NamedAt(l, c) : ~IdentifierBefore(l, p).member}
-----------------------------------------------------------------------------
(* Types; the text an accepted item replaces lies on both sides of the      *)
(* cursor and in the line (analyzer.go, classifyCompletionLine).            *)
TypeOK ==
  LET completion == Classify(line, cursor) IN
    /\ line \in Seq(Character)
    /\ cursor \in 0..Len(line) /\ typed \in 0..MaxTyped
    /\ completion.kind \in {"statement", "expression", "target", "filename"}
    /\ completion.from \in 0..cursor /\ completion.to \in cursor..Len(line)

(* The scanner and the meaning of the line agree on what is a string of a   *)
(* call, on the call and on the argument, through comments, doubled quotes  *)
(* and parentheses of every kind (analyzer.go, activeCallArgument).         *)
ArgumentsAreFound ==
  LET completion == Classify(line, cursor) IN
    /\ completion.quoted <=> Within(line, cursor) /\ CallsAt(line, cursor) # {}
    /\ completion.quoted =>
         LET p == Max(CallsAt(line, cursor)) IN
           /\ completion.kind = Argument(IdentifierBefore(line, p).name, Commas(line, p, cursor))
           /\ completion.from = StringStart(line, cursor)

(* The other scanner of lines agrees with it on what is a comment           *)
(* (analyzer.go, stripLineComment).                                         *)
CommentsAreStripped ==
  \A i \in DOMAIN line : i <= Len(StripLineComment(line)) <=> ~Commented(line, i)

(* The two scanners of a line and its meaning agree, in every text that is  *)
(* being typed: on the strings, the calls and their arguments, and on what  *)
(* is a comment (analyzer.go, activeCallArgument, stripLineComment).        *)
ScannersAgree == TypeOK /\ ArgumentsAreFound /\ CommentsAreStripped

(* "Safe completion text edits": whichever item is accepted, the string     *)
(* around the cursor then says exactly what the item's label says, and      *)
(* nothing before it or behind it has changed.                              *)
EditSetsTheString(l, c) ==
  LET completion == Classify(l, c) IN
    completion.quoted =>
      \A label \in Labels(completion) :
        LET from == StringStart(l, c)
            edited == Edit(l, completion, label)
            end == StringEnd(edited, from)
        IN /\ Decode(SubSeq(edited, from + 1, end)) = label
           /\ SubSeq(edited, 1, from) = SubSeq(l, 1, from)
           /\ SubSeq(edited, end + 1, Len(edited)) = SubSeq(l, StringEnd(l, c) + 1, Len(l))

(* The cursor is behind a doubled quote, and another quote follows.         *)
BehindEscape(l, c) ==
  /\ c \in 1..(Len(l) - 1) /\ l[c] = Quote /\ l[c + 1] = Quote
  /\ ~Even(Quotes(l, c)) /\ ~Opens(l, c)

(* README.md: "Safe completion text edits for incomplete and quoted source, *)
(* including doubled-quote escaping and mid-token replacement", of every    *)
(* edit of server.go, completionItems, in a string.                         *)
EditsAreSafe == EditSetsTheString(line, cursor)

(* Those edits are safe unless the cursor is behind a doubled quote and     *)
(* before another quote.                                                    *)
EditsAreSafeElsewhere == BehindEscape(line, cursor) \/ EditSetsTheString(line, cursor)

(* Outside strings the item takes the place of the whole identifier around  *)
(* the cursor (analyzer.go, classifyCompletionLine).                        *)
EditSetsTheIdentifier ==
  LET completion == Classify(line, cursor) IN
    ~completion.quoted =>
      \A label \in Labels(completion) :
        label \in Seq(Letter) =>
          LET edited == Edit(line, completion, label)
              end == completion.from + Len(label)
          IN /\ IdentifierPrefix(SubSeq(edited, 1, end)) = label
             /\ At(edited, end + 1) \notin Letter
=============================================================================
