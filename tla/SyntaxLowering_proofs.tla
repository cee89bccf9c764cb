------------------------ MODULE SyntaxLowering_proofs ------------------------
(***************************************************************************)
(* Proofs about what is read off a syntax tree, for every tree that any    *)
(* grammar as the analyzer takes it allows, of any size.                   *)
(*                                                                         *)
(* A tree is built in the order of the text.  So the nodes around a node   *)
(* come before it, the nodes before it that are not around it end before   *)
(* it begins, and its children are the beginning of a production.          *)
(***************************************************************************)
EXTENDS SyntaxLowering, SequenceTheorems, FiniteSetTheorems, WellFoundedInduction, TLAPS

Kinds(l) == DOMAIN Grammar[l].rules

Part(l) == [field : STRING, kinds : SUBSET Kinds(l)]

Written(l) == {""} \cup UNION {Texts(p[1], p[2]) : p \in Kinds(l) \X STRING}

NodeRecord(l) ==
  [kind : Kinds(l), field : STRING \cup {""}, parent : Nat, above : SUBSET Nat,
   from : Nat, to : Nat, text : Written(l), missing : BOOLEAN]

TypeOK ==
  /\ language \in DOMAIN Grammar
  /\ nodes \in Seq(NodeRecord(language))
  /\ path \in Seq(Nat)
  /\ rest \in Seq(Seq(Part(language))) /\ Len(rest) = Len(path)
  /\ at \in Nat

Open == {path[k] : k \in 1..Len(path)}

(* What is around a node comes before it, and whatever comes after a node   *)
(* that is still open is within it.                                         *)
NestingOK ==
  /\ Len(nodes) >= 1
  /\ nodes[1].parent = None /\ Above(1) = {} /\ nodes[1].kind = "source_file"
  /\ \A i \in 2..Len(nodes) :
       /\ nodes[i].parent \in 1..(i - 1)
       /\ Above(i) = Above(nodes[i].parent) \cup {nodes[i].parent}
  /\ \A i \in 1..Len(nodes) : Above(i) \subseteq 1..(i - 1)
  /\ \A k \in 1..Len(path) :
       /\ path[k] \in 1..Len(nodes)
       /\ Above(path[k]) = {path[m] : m \in 1..(k - 1)}
       /\ \A i \in 1..Len(nodes) : i > path[k] => path[k] \in Above(i)

Tokens == {i \in 2..Len(nodes) : nodes[i].kind \in Word /\ ~nodes[i].missing}

(* What comes before a node and is not around it ends before it.            *)
PositionsOK ==
  /\ \A i \in 1..Len(nodes) :
       /\ nodes[i].from <= at + 1 /\ (i \in Tokens => nodes[i].from <= at)
       /\ i \notin Open => nodes[i].to <= at
       /\ nodes[i].missing => Text(i) = ""
  /\ \A i, j \in 1..Len(nodes) : i < j =>
       /\ i \notin Above(j) => nodes[i].to < nodes[j].from
       /\ i \in Tokens => nodes[i].from < nodes[j].from /\ nodes[i].from <= nodes[j].to

(* What is between a node and one within it is within it, too; and the      *)
(* nodes are in the order of the text.                                      *)
OrderOK ==
  /\ \A a, b, x \in 1..Len(nodes) : a < b /\ b < x /\ a \in Above(x) => a \in Above(b)
  /\ \A i, j \in 1..Len(nodes) : i < j => nodes[i].from <= nodes[j].from

(* child are the children of j, which begin a production.                   *)
IsGrown(j, production, n, child) ==
  /\ \A c \in Children(j) : \E m \in 1..n : child[m] = c
  /\ \A l, m \in 1..n : l < m => child[l] < child[m]
  /\ \A m \in 1..n : /\ nodes[child[m]].kind \in production[m].kinds
                      /\ nodes[child[m]].field = production[m].field
  /\ \A k \in 1..Len(path) : path[k] = j =>
       /\ Len(rest[k]) = Len(production) - n
       /\ \A m \in 1..(Len(production) - n) : rest[k][m] = production[n + m]

GrownAt(j) ==
  \E production \in Rules[nodes[j].kind] \cup {<<>>} : \E n \in 0..Len(production) :
    \E child \in [1..n -> Children(j)] : IsGrown(j, production, n, child)

GrownOK == \A j \in 1..Len(nodes) : GrownAt(j)

Tree == TypeOK /\ NestingOK /\ PositionsOK /\ OrderOK /\ GrownOK

(* The parser enters a node below the last of its path.                     *)
Entered(kind, text, missing, production) ==
  LET c == Len(nodes) + 1
      node == [kind |-> kind, field |-> Head(rest[Len(path)]).field,
               parent |-> path[Len(path)], above |-> {path[k] : k \in 1..Len(path)},
               from |-> at + 1, to |-> at + 1, text |-> text, missing |-> missing]
  IN /\ path # <<>> /\ rest[Len(path)] # <<>>
     /\ kind \in Kinds(language) /\ missing \in BOOLEAN /\ production \in Seq(Part(language))
     /\ kind \in Head(rest[Len(path)]).kinds
     /\ production \in Rules[kind] \cup {<<>>}
     /\ missing => text = ""
     /\ nodes' = Append(nodes, node) /\ node \in NodeRecord(language)
     /\ at' = IF kind \in Word /\ ~missing THEN at + 1 ELSE at
     /\ path' = Append(path, c)
     /\ rest' = Append(Append(Front(rest), Tail(rest[Len(path)])), production)
     /\ language' = language

(* ... or leaves the last of its path.                                      *)
Left ==
  LET l == path[Len(path)] IN
    /\ path # <<>> /\ rest[Len(path)] = <<>>
    /\ nodes' = [nodes EXCEPT ![l].to = at]
    /\ path' = Front(path) /\ rest' = Front(rest)
    /\ language' = language /\ at' = at

LEMMA EnterStep ==
  ASSUME TypeOK, Parse
  PROVE  \E kind, text, missing, production : Entered(kind, text, missing, production)
<1>1. /\ path # <<>> /\ Last(rest) # <<>>
      /\ \E kind \in Head(Last(rest)).kinds :
           \/ \E text \in Texts(kind, Head(Last(rest)).field), production \in Rules[kind] :
                Enter(kind, text, FALSE, production)
           \/ kind \in Grammar[language].mayMiss /\ Enter(kind, "", TRUE, <<>>)
  BY DEF Parse
<1>2. /\ Len(path) \in Nat /\ Len(path) >= 1 /\ Last(path) = path[Len(path)]
      /\ path[Len(path)] \in Nat /\ Last(rest) = rest[Len(path)]
      /\ Range(path) = {path[k] : k \in 1..Len(path)}
      /\ \A k \in 1..Len(path) : path[k] \in Nat
  <2>1. path \in Seq(Nat) /\ Len(rest) = Len(path)
    BY DEF TypeOK
  <2>4. Len(path) \in Nat \ {0}
    BY <1>1, <2>1, EmptySeq
  <2>2. Len(path) \in Nat /\ Len(path) >= 1 /\ DOMAIN path = 1..Len(path)
        /\ \A k \in 1..Len(path) : path[k] \in Nat
    BY <2>1, <2>4, LenProperties
  <2>3. Range(path) = {path[k] : k \in 1..Len(path)}
    BY <2>2 DEF Range
  <2> QED BY <2>1, <2>2, <2>3 DEF Last
<1> DEFINE P == Part(language)
           part == Head(rest[Len(path)])
<1> HIDE DEF P
<1>3. rest \in Seq(Seq(P)) /\ Len(rest) = Len(path) /\ at \in Nat
  BY DEF TypeOK, P
<1>4. rest[Len(path)] \in Seq(P) /\ part \in P
  <2>1. rest[Len(path)] \in Seq(P)
    <3> DEFINE Q == Seq(P)
    <3> HIDE DEF Q
    <3>1. rest \in Seq(Q) /\ Len(path) \in 1..Len(rest)
      BY <1>2, <1>3 DEF Q
    <3>2. rest[Len(path)] \in Q
      BY <3>1
    <3> QED BY <3>2 DEF Q
  <2>2. rest[Len(path)] # <<>>
    BY <1>1, <1>2
  <2> QED BY <2>1, <2>2, HeadTailProperties
<1>5. part.field \in STRING /\ \A kind \in part.kinds :
        /\ kind \in Kinds(language)
        /\ Texts(kind, part.field) \subseteq Written(language)
  <2>1. part.field \in STRING /\ part.kinds \subseteq Kinds(language)
    BY <1>4 DEF P, Part
  <2>2. \A kind \in part.kinds : Texts(kind, part.field) \subseteq Written(language)
    <3> SUFFICES ASSUME NEW kind \in part.kinds
                 PROVE  Texts(kind, part.field) \subseteq Written(language)
      OBVIOUS
    <3> DEFINE pair == <<kind, part.field>>
    <3>1. pair \in Kinds(language) \X STRING /\ pair[1] = kind /\ pair[2] = part.field
      BY <2>1
    <3> HIDE DEF pair
    <3>2. Texts(pair[1], pair[2]) \subseteq Written(language)
      BY <3>1, Zenon DEF Written
    <3> QED BY <3>1, <3>2
  <2> QED BY <2>1, <2>2
<1>6. \A kind \in part.kinds : \A production \in Rules[kind] : production \in Seq(P)
  BY <1>5, GrammarAssumption DEF GrammarAssumption, IsTyped, P, Part, Kinds, TypeOK, Rules
<1>7. <<>> \in Seq(P)
  OBVIOUS
<1> HIDE DEF part
<1>8. ASSUME NEW kind \in part.kinds, NEW text \in Written(language), NEW missing \in BOOLEAN,
             NEW production \in Seq(P), production \in Rules[kind] \cup {<<>>},
             missing => text = "", Enter(kind, text, missing, production)
      PROVE  Entered(kind, text, missing, production)
  <2> DEFINE node == [kind |-> kind, field |-> part.field,
               parent |-> path[Len(path)], above |-> {path[k] : k \in 1..Len(path)},
               from |-> at + 1, to |-> at + 1, text |-> text, missing |-> missing]
  <2>1. node \in NodeRecord(language)
    <3>1. {path[k] : k \in 1..Len(path)} \in SUBSET Nat
      BY <1>2
    <3>2. kind \in Kinds(language) /\ part.field \in STRING /\ path[Len(path)] \in Nat /\ at + 1 \in Nat
      BY <1>2, <1>3, <1>5
    <3> QED BY <1>8, <3>1, <3>2 DEF NodeRecord
  <2>2. nodes' = Append(nodes, node) /\ path' = Append(path, Len(nodes) + 1)
        /\ rest' = Append(Append(Front(rest), Tail(rest[Len(path)])), production)
        /\ at' = (IF kind \in Word /\ ~missing THEN at + 1 ELSE at) /\ language' = language
    BY <1>2, <1>8 DEF Enter, part
  <2> QED BY <1>1, <1>2, <1>5, <1>8, <2>1, <2>2 DEF Entered, part, P
<1>9. PICK kind \in part.kinds :
           \/ \E text \in Texts(kind, part.field), production \in Rules[kind] :
                Enter(kind, text, FALSE, production)
           \/ kind \in Grammar[language].mayMiss /\ Enter(kind, "", TRUE, <<>>)
  BY <1>1, <1>2 DEF part
<1>10. CASE \E text \in Texts(kind, part.field), production \in Rules[kind] :
              Enter(kind, text, FALSE, production)
  <2>1. PICK text \in Texts(kind, part.field), production \in Rules[kind] :
          Enter(kind, text, FALSE, production)
    BY <1>10
  <2>2. text \in Written(language) /\ production \in Seq(P) /\ FALSE \in BOOLEAN
    BY <1>5, <1>6
  <2>3. Entered(kind, text, FALSE, production)
    BY <1>8, <2>1, <2>2
  <2> QED BY <2>3
<1>11. CASE Enter(kind, "", TRUE, <<>>)
  <2>1. "" \in Written(language)
    BY DEF Written
  <2>4. TRUE \in BOOLEAN
    OBVIOUS
  <2>3. <<>> \in Rules[kind] \cup {<<>>}
    BY Zenon
  <2>2. Entered(kind, "", TRUE, <<>>)
    BY <1>7, <1>8, <1>11, <2>1, <2>3, <2>4
  <2> QED BY <2>2
<1> QED BY <1>9, <1>10, <1>11

LEMMA LeaveStep ==
  ASSUME TypeOK, Leave
  PROVE  Left
BY DEF TypeOK, Leave, Left, Last

-----------------------------------------------------------------------------
(* What the two steps do, node for node.                                    *)
AfterEntering(kind, missing, production, c, n) ==
  /\ Len(nodes) \in Nat /\ missing \in BOOLEAN
  /\ c = Len(nodes) + 1 /\ n = Len(path) /\ n \in Nat \ {0} /\ c \in Nat \ {0}
  /\ Len(nodes') = c /\ (\A i \in 1..(c - 1) : nodes'[i] = nodes[i])
  /\ nodes'[c].kind = kind /\ nodes'[c].field = rest[n][1].field
  /\ nodes'[c].parent = path[n] /\ nodes'[c].above = {path[k] : k \in 1..n}
  /\ nodes'[c].from = at + 1 /\ nodes'[c].to = at + 1
  /\ nodes'[c].missing = missing /\ (missing => nodes'[c].text = "")
  /\ Len(path') = n + 1 /\ path'[n + 1] = c /\ (\A k \in 1..n : path'[k] = path[k])
  /\ Len(rest') = n + 1 /\ rest'[n + 1] = production
  /\ (\A k \in 1..(n - 1) : rest'[k] = rest[k])
  /\ kind \in rest[n][1].kinds /\ Len(rest[n]) \in Nat \ {0} /\ Len(rest'[n]) = Len(rest[n]) - 1
  /\ (\A m \in 1..(Len(rest[n]) - 1) : rest'[n][m] = rest[n][m + 1])
  /\ production \in Grammar[language].rules[kind] \cup {<<>>} /\ Len(production) \in Nat
  /\ at \in Nat /\ at' = (IF kind \in Word /\ ~missing THEN at + 1 ELSE at)
  /\ language' = language

(* A node is as before, but for its end.                                    *)
IsEnded(old, new, to) ==
  /\ new.kind = old.kind /\ new.field = old.field /\ new.parent = old.parent
  /\ new.above = old.above /\ new.from = old.from /\ new.text = old.text
  /\ new.missing = old.missing /\ new.to = to

AfterLeaving(n, l) ==
  /\ n = Len(path) /\ n \in Nat \ {0} /\ l = path[n] /\ Len(nodes) \in Nat
  /\ Len(nodes') = Len(nodes)
  /\ (\A i \in 1..Len(nodes) : IsEnded(nodes[i], nodes'[i], IF i = l THEN at ELSE nodes[i].to))
  /\ Len(path') = n - 1 /\ (\A k \in 1..(n - 1) : path'[k] = path[k])
  /\ Len(rest') = n - 1 /\ (\A k \in 1..(n - 1) : rest'[k] = rest[k])
  /\ at \in Nat /\ at' = at /\ language' = language

LEMMA AppendToSeq ==
  ASSUME NEW S, NEW s \in Seq(S), NEW e \in S
  PROVE  /\ Append(s, e) \in Seq(S) /\ Len(Append(s, e)) = Len(s) + 1
         /\ Append(s, e)[Len(s) + 1] = e
         /\ \A k \in 1..Len(s) : Append(s, e)[k] = s[k]
OBVIOUS

LEMMA FrontOfSeq ==
  ASSUME NEW S, NEW s \in Seq(S), s # <<>>
  PROVE  /\ Front(s) \in Seq(S) /\ Len(Front(s)) = Len(s) - 1
         /\ \A k \in 1..(Len(s) - 1) : Front(s)[k] = s[k]
<1>1. Len(s) \in Nat \ {0}
  BY EmptySeq
<1>2. Front(s) = [k \in 1..(Len(s) - 1) |-> s[k]]
  BY <1>1 DEF Front
<1>3. /\ Len(s) - 1 \in Nat
      /\ \A k \in 1..(Len(s) - 1) : s[k] \in S
  BY <1>1
<1> QED
  BY <1>2, <1>3

LEMMA EnteringStep ==
  ASSUME TypeOK, NEW kind, NEW text, NEW missing, NEW production,
         Entered(kind, text, missing, production)
  PROVE  TypeOK' /\ AfterEntering(kind, missing, production, Len(nodes) + 1, Len(path))
<1> DEFINE n == Len(path)
           c == Len(nodes) + 1
           P == Part(language)
           Q == Seq(P)
           R == NodeRecord(language)
           node == [kind |-> kind, field |-> Head(rest[n]).field,
                    parent |-> path[n], above |-> {path[k] : k \in 1..n},
                    from |-> at + 1, to |-> at + 1, text |-> text, missing |-> missing]
<1>1. /\ nodes \in Seq(R) /\ path \in Seq(Nat) /\ rest \in Seq(Q) /\ Len(rest) = n
      /\ at \in Nat /\ language \in DOMAIN Grammar
  BY DEF TypeOK
<1>2. path # <<>> /\ rest[n] # <<>> /\ production \in Q
  BY DEF Entered
<1>16. /\ missing \in BOOLEAN /\ kind \in Head(rest[n]).kinds /\ language' = language
       /\ production \in Rules[kind] \cup {<<>>}
       /\ missing => text = ""
  BY DEF Entered
<1>17. nodes' = Append(nodes, node) /\ node \in R
  BY DEF Entered
<1>18. path' = Append(path, c)
  BY DEF Entered
<1>19. rest' = Append(Append(Front(rest), Tail(rest[n])), production)
  BY DEF Entered
<1>20. at' = (IF kind \in Word /\ ~missing THEN at + 1 ELSE at)
  BY DEF Entered
<1> HIDE DEF R, Q
<1>3. n \in Nat \ {0} /\ c \in Nat \ {0} /\ n \in 1..Len(rest)
  BY <1>1, <1>2, EmptySeq
<1>4. rest[n] \in Q /\ rest # <<>>
  BY <1>1, <1>3
<1> HIDE DEF P
<1>5. /\ Tail(rest[n]) \in Q /\ Len(rest[n]) \in Nat \ {0}
      /\ Len(Tail(rest[n])) = Len(rest[n]) - 1
      /\ \A m \in 1..(Len(rest[n]) - 1) : Tail(rest[n])[m] = rest[n][m + 1]
      /\ Head(rest[n]) = rest[n][1]
  BY <1>2, <1>4, EmptySeq, HeadTailProperties DEF Q
<1> DEFINE front == Front(rest)
           first == Append(front, Tail(rest[n]))
<1>6. front \in Seq(Q) /\ Len(front) = n - 1 /\ \A k \in 1..(n - 1) : front[k] = rest[k]
  BY <1>1, <1>4, FrontOfSeq
<1> HIDE DEF front
<1>7. /\ first \in Seq(Q) /\ Len(first) = n /\ first[n] = Tail(rest[n])
      /\ \A k \in 1..(n - 1) : first[k] = rest[k]
  BY <1>3, <1>5, <1>6, AppendToSeq
<1> HIDE DEF first
<1>8. /\ rest' \in Seq(Q) /\ Len(rest') = n + 1 /\ rest'[n + 1] = production
      /\ \A k \in 1..n : rest'[k] = first[k]
  BY <1>2, <1>7, <1>19, AppendToSeq DEF first, front
<1> HIDE DEF node
<1>9. /\ nodes' \in Seq(R) /\ Len(nodes') = c /\ nodes'[c] = node
      /\ \A i \in 1..(c - 1) : nodes'[i] = nodes[i]
  BY <1>1, <1>17, AppendToSeq
<1>10. /\ path' \in Seq(Nat) /\ Len(path') = n + 1 /\ path'[n + 1] = c
       /\ \A k \in 1..n : path'[k] = path[k]
  BY <1>1, <1>3, <1>18, AppendToSeq
<1>11. TypeOK'
  <2>1. at' \in Nat
    BY <1>1, <1>20
  <2> QED BY <1>1, <1>16, <1>8, <1>9, <1>10, <2>1 DEF TypeOK, R, Q, P
<1>12. /\ node.kind = kind /\ node.field = rest[n][1].field
       /\ node.parent = path[n] /\ node.above = {path[k] : k \in 1..n}
       /\ node.from = at + 1 /\ node.to = at + 1 /\ node.missing = missing
       /\ (missing => node.text = "")
  BY <1>5, <1>16 DEF node
<1>21. Len(nodes) \in Nat
  BY <1>1
<1>22. missing \in BOOLEAN
  BY <1>16
<1>13. production \in Grammar[language].rules[kind] \cup {<<>>} /\ Len(production) \in Nat
  <2>1. production \in Grammar[language].rules[kind] \cup {<<>>}
    BY <1>16, Zenon DEF Rules
  <2>2. Len(production) \in Nat
    BY <1>2 DEF Q
  <2> QED BY <2>1, <2>2
<1>14. /\ Len(rest'[n]) = Len(rest[n]) - 1
       /\ (\A m \in 1..(Len(rest[n]) - 1) : rest'[n][m] = rest[n][m + 1])
       /\ \A k \in 1..(n - 1) : rest'[k] = rest[k]
  <2>1. rest'[n] = Tail(rest[n]) /\ \A k \in 1..(n - 1) : rest'[k] = rest[k]
    BY <1>3, <1>7, <1>8
  <2> QED BY <1>5, <2>1, Zenon
<1>15. AfterEntering(kind, missing, production, c, n)
  BY <1>1, <1>3, <1>5, <1>8, <1>9, <1>10, <1>12, <1>13, <1>14, <1>16, <1>20, <1>21, <1>22 DEF AfterEntering
<1> QED BY <1>11, <1>15

LEMMA LeavingStep ==
  ASSUME TypeOK, NestingOK, Left
  PROVE  TypeOK' /\ AfterLeaving(Len(path), path[Len(path)])
<1> DEFINE n == Len(path)
           l == path[n]
           Q == Seq(Part(language))
           R == NodeRecord(language)
<1>1. /\ nodes \in Seq(R) /\ path \in Seq(Nat) /\ rest \in Seq(Q) /\ Len(rest) = n
      /\ at \in Nat /\ language \in DOMAIN Grammar
  BY DEF TypeOK
<1>2. /\ path # <<>> /\ nodes' = [nodes EXCEPT ![l].to = at]
      /\ path' = Front(path) /\ rest' = Front(rest) /\ language' = language /\ at' = at
  BY DEF Left
<1> HIDE DEF Q
<1>3. n \in Nat \ {0} /\ l \in 1..Len(nodes) /\ rest # <<>>
  BY <1>1, <1>2, EmptySeq DEF NestingOK
<1>4. [nodes[l] EXCEPT !.to = at] \in R
  <2>1. nodes[l] \in R
    BY <1>1, <1>3
  <2> SUFFICES ASSUME NEW x \in R PROVE [x EXCEPT !.to = at] \in R
    BY <2>1
  <2> QED BY <1>1 DEF NodeRecord
<1>5. /\ nodes' \in Seq(R) /\ Len(nodes') = Len(nodes)
      /\ \A i \in 1..Len(nodes) : nodes'[i] = IF i = l THEN [nodes[l] EXCEPT !.to = at] ELSE nodes[i]
  <2> HIDE DEF R
  <2>1. nodes' = [nodes EXCEPT ![l] = [nodes[l] EXCEPT !.to = at]]
    BY <1>2
  <2> QED BY <1>1, <1>3, <1>4, <2>1, ExceptSeq
<1>6. path' \in Seq(Nat) /\ Len(path') = n - 1 /\ \A k \in 1..(n - 1) : path'[k] = path[k]
  BY <1>1, <1>2, FrontOfSeq
<1>7. rest' \in Seq(Q) /\ Len(rest') = n - 1 /\ \A k \in 1..(n - 1) : rest'[k] = rest[k]
  BY <1>1, <1>2, <1>3, FrontOfSeq
<1>8. TypeOK'
  BY <1>1, <1>2, <1>5, <1>6, <1>7 DEF TypeOK, Q
<1>9. \A i \in 1..Len(nodes) : IsEnded(nodes[i], nodes'[i], IF i = l THEN at ELSE nodes[i].to)
  <2> SUFFICES ASSUME NEW i \in 1..Len(nodes), NEW x, x = nodes[i], NEW y, y = nodes'[i]
               PROVE  IsEnded(x, y, IF i = l THEN at ELSE x.to)
    BY Zenon
  <2>1. x \in R
    <3> HIDE DEF R
    <3> QED BY <1>1
  <2>2. y = IF i = l THEN [x EXCEPT !.to = at] ELSE x
    BY <1>5
  <2>3. CASE i = l
    BY <2>1, <2>2, <2>3 DEF NodeRecord, IsEnded
  <2>4. CASE i # l
    BY <2>2, <2>4 DEF IsEnded
  <2> QED BY <2>3, <2>4
<1>10. Len(nodes) \in Nat /\ at' = at /\ language' = language
  BY <1>1, <1>2
<1>11. AfterLeaving(n, l)
  BY <1>1, <1>3, <1>5, <1>6, <1>7, <1>9, <1>10, Zenon DEF AfterLeaving
<1> QED BY <1>8, <1>11

LEMMA EnterNesting ==
  ASSUME NestingOK, NEW kind, NEW missing, NEW production, NEW c, NEW n,
         AfterEntering(kind, missing, production, c, n)
  PROVE  NestingOK'
<1>1. /\ c \in Nat \ {0} /\ n \in Nat \ {0} /\ c - 1 = Len(nodes) /\ Len(nodes') = c
      /\ Len(path) = n /\ Len(path') = n + 1
  <2>1. /\ Len(nodes) \in Nat /\ c = Len(nodes) + 1 /\ n = Len(path) /\ n \in Nat \ {0}
        /\ Len(nodes') = c /\ Len(path') = n + 1
    BY Zenon DEF AfterEntering
  <2> QED BY <2>1
<1>2. /\ \A i \in 1..(c - 1) : nodes'[i] = nodes[i]
      /\ nodes'[c].parent = path[n] /\ nodes'[c].above = {path[k] : k \in 1..n}
  BY DEF AfterEntering
<1>3. path'[n + 1] = c /\ \A k \in 1..n : path'[k] = path[k]
  BY DEF AfterEntering
<1>4. /\ c - 1 >= 1 /\ nodes[1].parent = None /\ nodes[1].above = {}
      /\ \A i \in 2..(c - 1) :
           /\ nodes[i].parent \in 1..(i - 1)
           /\ nodes[i].above = nodes[nodes[i].parent].above \cup {nodes[i].parent}
      /\ \A i \in 1..(c - 1) : nodes[i].above \subseteq 1..(i - 1)
  BY <1>1 DEF NestingOK, Above
<1>5. \A k \in 1..n :
       /\ path[k] \in 1..(c - 1)
       /\ nodes[path[k]].above = {path[m] : m \in 1..(k - 1)}
       /\ \A i \in 1..(c - 1) : i > path[k] => path[k] \in nodes[i].above
  BY <1>1 DEF NestingOK, Above
<1>6. \A i \in 2..c :
        /\ nodes'[i].parent \in 1..(i - 1)
        /\ nodes'[i].above = nodes'[nodes'[i].parent].above \cup {nodes'[i].parent}
  <2>1. ASSUME NEW i \in 2..(c - 1)
        PROVE  /\ nodes'[i].parent \in 1..(i - 1)
               /\ nodes'[i].above = nodes'[nodes'[i].parent].above \cup {nodes'[i].parent}
    <3>1. i \in 1..(c - 1) /\ nodes[i].parent \in 1..(c - 1)
      BY <1>1, <1>4
    <3> QED BY <1>2, <1>4, <3>1
  <2>2. /\ nodes'[c].parent \in 1..(c - 1)
        /\ nodes'[c].above = nodes'[nodes'[c].parent].above \cup {nodes'[c].parent}
    <3>1. n \in 1..n /\ path[n] \in 1..(c - 1) /\ nodes[path[n]].above = {path[m] : m \in 1..(n - 1)}
      BY <1>1, <1>5
    <3>2. {path[k] : k \in 1..n} = {path[m] : m \in 1..(n - 1)} \cup {path[n]}
      BY <1>1
    <3> QED BY <1>2, <3>1, <3>2
  <2>3. \A i \in 2..c : i \in 2..(c - 1) \/ i = c
    BY <1>1
  <2> QED BY <2>1, <2>2, <2>3
<1>7. \A i \in 1..c : nodes'[i].above \subseteq 1..(i - 1)
  <2>1. {path[k] : k \in 1..n} \subseteq 1..(c - 1)
    BY <1>5
  <2>2. \A i \in 1..c : i \in 1..(c - 1) \/ i = c
    BY <1>1
  <2> QED BY <1>2, <1>4, <2>1, <2>2
<1>8. \A k \in 1..(n + 1) :
       /\ path'[k] \in 1..c
       /\ nodes'[path'[k]].above = {path'[m] : m \in 1..(k - 1)}
       /\ \A i \in 1..c : i > path'[k] => path'[k] \in nodes'[i].above
  <2> SUFFICES ASSUME NEW k \in 1..(n + 1)
               PROVE  /\ path'[k] \in 1..c
                      /\ nodes'[path'[k]].above = {path'[m] : m \in 1..(k - 1)}
                      /\ \A i \in 1..c : i > path'[k] => path'[k] \in nodes'[i].above
    OBVIOUS
  <2>1. {path'[m] : m \in 1..(k - 1)} = {path[m] : m \in 1..(k - 1)}
    <3>1. \A m \in 1..(k - 1) : path'[m] = path[m]
      BY <1>1, <1>3
    <3> QED BY <3>1
  <2>2. CASE k = n + 1
    <3>1. path'[k] = c /\ k - 1 = n /\ c \in 1..c
      BY <1>1, <1>3, <2>2
    <3>2. \A i \in 1..c : ~(i > c)
      BY <1>1
    <3> QED BY <1>2, <2>1, <3>1, <3>2
  <2>3. CASE k \in 1..n
    <3>1. path'[k] = path[k] /\ path[k] \in 1..(c - 1) /\ path[k] \in 1..c
      BY <1>1, <1>3, <1>5, <2>3
    <3>2. nodes'[path[k]].above = {path[m] : m \in 1..(k - 1)}
      BY <1>2, <1>5, <2>3, <3>1
    <3>3. ASSUME NEW i \in 1..c, i > path[k] PROVE path[k] \in nodes'[i].above
      <4>1. CASE i = c
        BY <1>2, <2>3, <4>1
      <4>2. CASE i \in 1..(c - 1)
        BY <1>2, <1>5, <2>3, <3>3, <4>2
      <4> QED BY <1>1, <4>1, <4>2
    <3> QED BY <2>1, <3>1, <3>2, <3>3
  <2> QED BY <1>1, <2>2, <2>3
<1>9. c >= 1 /\ nodes'[1].parent = None /\ nodes'[1].above = {}
  BY <1>1, <1>2, <1>4
<1>10. nodes'[1].kind = "source_file"
  BY <1>1, <1>2 DEF NestingOK
<1> QED BY <1>1, <1>6, <1>7, <1>8, <1>9, <1>10 DEF NestingOK, Above

LEMMA LeaveNesting ==
  ASSUME NestingOK, NEW n, NEW l, AfterLeaving(n, l)
  PROVE  NestingOK'
<1> DEFINE c == Len(nodes)
<1>1. n \in Nat \ {0} /\ c \in Nat /\ Len(nodes') = c /\ Len(path) = n /\ Len(path') = n - 1
  BY DEF AfterLeaving
<1>2. \A i \in 1..c : nodes'[i].parent = nodes[i].parent /\ nodes'[i].above = nodes[i].above
  BY DEF AfterLeaving, IsEnded
<1>3. \A k \in 1..(n - 1) : path'[k] = path[k]
  BY DEF AfterLeaving
<1>4. /\ c >= 1 /\ nodes[1].parent = None /\ nodes[1].above = {}
      /\ \A i \in 2..c :
           /\ nodes[i].parent \in 1..(i - 1)
           /\ nodes[i].above = nodes[nodes[i].parent].above \cup {nodes[i].parent}
      /\ \A i \in 1..c : nodes[i].above \subseteq 1..(i - 1)
  BY DEF NestingOK, Above
<1>5. \A k \in 1..n :
       /\ path[k] \in 1..c
       /\ nodes[path[k]].above = {path[m] : m \in 1..(k - 1)}
       /\ \A i \in 1..c : i > path[k] => path[k] \in nodes[i].above
  BY <1>1 DEF NestingOK, Above
<1> HIDE DEF c
<1>6. \A i \in 2..c :
        /\ nodes'[i].parent \in 1..(i - 1)
        /\ nodes'[i].above = nodes'[nodes'[i].parent].above \cup {nodes'[i].parent}
  <2> SUFFICES ASSUME NEW i \in 2..c
        PROVE  /\ nodes'[i].parent \in 1..(i - 1)
               /\ nodes'[i].above = nodes'[nodes'[i].parent].above \cup {nodes'[i].parent}
    OBVIOUS
  <2>1. i \in 1..c /\ nodes[i].parent \in 1..c
    BY <1>1, <1>4
  <2> QED BY <1>2, <1>4, <2>1
<1>7. \A k \in 1..(n - 1) :
       /\ path'[k] \in 1..c
       /\ nodes'[path'[k]].above = {path'[m] : m \in 1..(k - 1)}
       /\ \A i \in 1..c : i > path'[k] => path'[k] \in nodes'[i].above
  <2> SUFFICES ASSUME NEW k \in 1..(n - 1)
               PROVE  /\ path'[k] \in 1..c
                      /\ nodes'[path'[k]].above = {path'[m] : m \in 1..(k - 1)}
                      /\ \A i \in 1..c : i > path'[k] => path'[k] \in nodes'[i].above
    OBVIOUS
  <2>1. k \in 1..n /\ path'[k] = path[k]
    BY <1>1, <1>3
  <2>2. {path'[m] : m \in 1..(k - 1)} = {path[m] : m \in 1..(k - 1)}
    <3>1. \A m \in 1..(k - 1) : path'[m] = path[m]
      BY <1>1, <1>3
    <3> QED BY <3>1
  <2> QED BY <1>2, <1>5, <2>1, <2>2
<1>8. c >= 1 /\ nodes'[1].parent = None /\ nodes'[1].above = {}
  BY <1>1, <1>2, <1>4
<1>9. \A i \in 1..c : nodes'[i].above \subseteq 1..(i - 1)
  BY <1>2, <1>4
<1>10. nodes'[1].kind = "source_file"
  BY DEF AfterLeaving, IsEnded, NestingOK
<1> QED BY <1>1, <1>6, <1>7, <1>8, <1>9, <1>10 DEF NestingOK, Above

LEMMA EnterPositions ==
  ASSUME TypeOK, NestingOK, PositionsOK, NEW kind, NEW missing, NEW production, NEW c, NEW n,
         AfterEntering(kind, missing, production, c, n)
  PROVE  PositionsOK'
<1>1. /\ c \in Nat \ {0} /\ n \in Nat \ {0} /\ c - 1 = Len(nodes) /\ Len(nodes') = c
      /\ Len(path) = n /\ Len(path') = n + 1 /\ c # 1
  <2>1. /\ Len(nodes) \in Nat /\ c = Len(nodes) + 1 /\ n = Len(path) /\ n \in Nat \ {0}
        /\ Len(nodes') = c /\ Len(path') = n + 1
    BY Zenon DEF AfterEntering
  <2> QED BY <2>1 DEF NestingOK
<1>2. \A i \in 1..(c - 1) : nodes'[i] = nodes[i]
  BY DEF AfterEntering
<1>3. /\ nodes'[c].from = at + 1 /\ nodes'[c].to = at + 1
      /\ nodes'[c].above = {path[k] : k \in 1..n}
  BY DEF AfterEntering
<1>13. nodes'[c].kind = kind /\ nodes'[c].missing = missing /\ (missing => nodes'[c].text = "")
  BY DEF AfterEntering
<1>4. at \in Nat /\ at' = (IF kind \in Word /\ ~missing THEN at + 1 ELSE at)
  BY DEF AfterEntering
<1>5. path'[n + 1] = c /\ \A k \in 1..n : path'[k] = path[k]
  BY DEF AfterEntering
<1> DEFINE T == Tokens
<1>6. \A i \in 1..(c - 1) :
       /\ nodes[i].from \in Nat /\ nodes[i].to \in Nat
       /\ nodes[i].from <= at + 1 /\ (i \in T => nodes[i].from <= at)
       /\ i \notin {path[k] : k \in 1..n} => nodes[i].to <= at
       /\ nodes[i].missing => nodes[i].text = ""
  <2>1. \A i \in 1..(c - 1) : nodes[i].from \in Nat /\ nodes[i].to \in Nat
    <3> DEFINE R == NodeRecord(language)
    <3>1. \A r \in R : r.from \in Nat /\ r.to \in Nat
      BY DEF NodeRecord
    <3> HIDE DEF R
    <3>2. nodes \in Seq(R)
      BY DEF TypeOK, R
    <3> QED BY <1>1, <3>1, <3>2
  <2> QED BY <1>1, <2>1 DEF PositionsOK, Text, Open
<1>7. \A i, j \in 1..(c - 1) : i < j =>
       /\ i \notin nodes[j].above => nodes[i].to < nodes[j].from
       /\ i \in T => nodes[i].from < nodes[j].from /\ nodes[i].from <= nodes[j].to
  BY <1>1 DEF PositionsOK, Above
<1> DEFINE new == Tokens'
<1>9. \A i \in 1..(c - 1) : i \in new <=> i \in T
  BY <1>1, <1>2 DEF Tokens
<1>12. c \in new => kind \in Word /\ ~missing
  BY <1>1, <1>13 DEF Tokens
<1> HIDE DEF new, T
<1>8. at' \in Nat /\ at <= at' /\ at' <= at + 1 /\ (c \in new => at' = at + 1)
  <2>1. CASE kind \in Word /\ ~missing
    BY <1>4, <2>1
  <2>2. CASE ~(kind \in Word /\ ~missing)
    BY <1>4, <1>12, <2>2
  <2> QED BY <2>1, <2>2
<1>10. \A i \in 1..c :
       /\ nodes'[i].from <= at' + 1 /\ (i \in new => nodes'[i].from <= at')
       /\ i \notin {path'[k] : k \in 1..(n + 1)} => nodes'[i].to <= at'
       /\ nodes'[i].missing => nodes'[i].text = ""
  <2> SUFFICES ASSUME NEW i \in 1..c
        PROVE  /\ nodes'[i].from <= at' + 1 /\ (i \in new => nodes'[i].from <= at')
               /\ i \notin {path'[k] : k \in 1..(n + 1)} => nodes'[i].to <= at'
               /\ nodes'[i].missing => nodes'[i].text = ""
    OBVIOUS
  <2>1. CASE i = c
    <3>1. i \in {path'[k] : k \in 1..(n + 1)}
      <4>1. n + 1 \in 1..(n + 1)
        BY <1>1
      <4> QED BY <1>5, <2>1, <4>1
    <3>2. nodes'[i].from <= at' + 1 /\ (i \in new => nodes'[i].from <= at')
      <4>1. at \in Nat
        BY <1>4
      <4> QED BY <1>3, <1>8, <2>1, <4>1
    <3> QED BY <1>3, <1>13, <2>1, <3>1, <3>2
  <2>2. CASE i \in 1..(c - 1)
    <3>1. \A k \in 1..n : k \in 1..(n + 1) /\ path'[k] = path[k]
      BY <1>1, <1>5
    <3>2. i \notin {path'[k] : k \in 1..(n + 1)} => i \notin {path[k] : k \in 1..n}
      BY <3>1
    <3>3. /\ nodes'[i] = nodes[i] /\ (i \in new <=> i \in T) /\ nodes[i].from \in Nat /\ nodes[i].to \in Nat
          /\ nodes[i].from <= at + 1 /\ (i \in T => nodes[i].from <= at)
          /\ i \notin {path[k] : k \in 1..n} => nodes[i].to <= at
          /\ nodes[i].missing => nodes[i].text = ""
      BY <1>2, <1>6, <1>9, <2>2
    <3>4. at \in Nat
      BY <1>4
    <3>5. /\ nodes'[i].from <= at' + 1 /\ (i \in new => nodes'[i].from <= at')
          /\ i \notin {path'[k] : k \in 1..(n + 1)} => nodes'[i].to <= at'
      <4>1. nodes'[i].from = nodes[i].from /\ nodes'[i].to = nodes[i].to
        BY <3>3
      <4>2. nodes[i].from <= at' + 1 /\ (i \in T => nodes[i].from <= at')
            /\ (i \notin {path[k] : k \in 1..n} => nodes[i].to <= at')
        <5>1. nodes[i].from \in Nat /\ nodes[i].to \in Nat /\ nodes[i].from <= at + 1
              /\ (i \in T => nodes[i].from <= at)
              /\ (i \notin {path[k] : k \in 1..n} => nodes[i].to <= at)
          BY <3>3
        <5>2. at' \in Nat /\ at <= at'
          BY <1>8
        <5> QED BY <3>4, <5>1, <5>2
      <4> QED BY <3>2, <3>3, <4>1, <4>2
    <3> QED BY <3>3, <3>5, Zenon
  <2>3. i = c \/ i \in 1..(c - 1)
    BY <1>1
  <2> QED BY <2>1, <2>2, <2>3, Zenon
<1>11. ASSUME NEW i \in 1..c, NEW j \in 1..c, i < j
       PROVE  /\ i \notin nodes'[j].above => nodes'[i].to < nodes'[j].from
              /\ i \in new => nodes'[i].from < nodes'[j].from /\ nodes'[i].from <= nodes'[j].to
  <2>1. i \in 1..(c - 1) /\ nodes'[i] = nodes[i]
    BY <1>1, <1>2, <1>11
  <2>2. CASE j = c
    <3>1. at \in Nat
      BY <1>4
    <3>2. i \notin nodes'[j].above => i \notin {path[k] : k \in 1..n}
      BY <1>3, <2>2
    <3>3. (i \in new => i \in T) /\ nodes[i].from \in Nat /\ nodes[i].to \in Nat
          /\ (i \in T => nodes[i].from <= at)
          /\ (i \notin {path[k] : k \in 1..n} => nodes[i].to <= at)
      BY <1>6, <1>9, <2>1
    <3> QED BY <1>3, <2>1, <2>2, <3>1, <3>2, <3>3
  <2>3. CASE j \in 1..(c - 1)
    BY <1>2, <1>7, <1>9, <1>11, <2>1, <2>3
  <2> QED BY <1>1, <2>2, <2>3
<1> QED BY <1>1, <1>10, <1>11 DEF PositionsOK, Text, Open, Above, new

LEMMA PositionTypes ==
  ASSUME TypeOK, NEW i \in 1..Len(nodes)
  PROVE  nodes[i].from \in Nat /\ nodes[i].to \in Nat /\ nodes[i].kind \in Kinds(language)
<1> DEFINE R == NodeRecord(language)
<1>1. \A r \in R : r.from \in Nat /\ r.to \in Nat /\ r.kind \in Kinds(language)
  BY DEF NodeRecord
<1> HIDE DEF R
<1>2. nodes \in Seq(R)
  BY DEF TypeOK, R
<1> QED BY <1>1, <1>2

LEMMA LeavePositions ==
  ASSUME TypeOK, NestingOK, PositionsOK, NEW n, NEW l, AfterLeaving(n, l)
  PROVE  PositionsOK'
<1> DEFINE c == Len(nodes)
           T == Tokens
           new == Tokens'
<1>1. n \in Nat \ {0} /\ c \in Nat /\ Len(nodes') = c /\ Len(path) = n /\ Len(path') = n - 1
      /\ l = path[n] /\ at \in Nat /\ at' = at
  BY DEF AfterLeaving
<1>2. \A i \in 1..c :
        /\ nodes'[i].from = nodes[i].from /\ nodes'[i].above = nodes[i].above
        /\ nodes'[i].kind = nodes[i].kind /\ nodes'[i].missing = nodes[i].missing
        /\ nodes'[i].text = nodes[i].text
  BY DEF AfterLeaving, IsEnded
<1>3. \A i \in 1..c : nodes'[i].to = IF i = l THEN at ELSE nodes[i].to
  BY DEF AfterLeaving, IsEnded
<1>4. \A k \in 1..(n - 1) : path'[k] = path[k]
  BY DEF AfterLeaving
<1>5. \A i \in 1..c :
       /\ nodes[i].from \in Nat /\ nodes[i].to \in Nat
       /\ nodes[i].from <= at + 1 /\ (i \in T => nodes[i].from <= at)
       /\ i \notin Open => nodes[i].to <= at
  BY PositionTypes DEF PositionsOK
<1>6. \A i \in 1..c : nodes[i].missing => nodes[i].text = ""
  BY DEF PositionsOK, Text
<1>7. \A i, j \in 1..c : i < j =>
       /\ i \notin nodes[j].above => nodes[i].to < nodes[j].from
       /\ i \in T => nodes[i].from < nodes[j].from /\ nodes[i].from <= nodes[j].to
  BY DEF PositionsOK, Above
<1>8. new = T
  BY <1>1, <1>2 DEF Tokens
<1>9. l \in 1..c /\ \A i \in 1..c : i > l => l \in nodes[i].above
  BY <1>1 DEF NestingOK, Above
<1>10. \A i \in 1..c : i \notin Open' => i \notin Open \/ i = l
  <2>1. ASSUME NEW i \in 1..c, i \in Open, i # l PROVE i \in Open'
    <3>1. PICK k \in 1..n : path[k] = i
      BY <1>1, <2>1 DEF Open
    <3>2. k \in 1..(n - 1) /\ path'[k] = i
      BY <1>1, <1>4, <2>1, <3>1
    <3> QED BY <1>1, <3>2 DEF Open
  <2> QED BY <2>1
<1> HIDE DEF c, T, new
<1>11. \A i \in 1..c :
       /\ nodes'[i].from <= at' + 1 /\ (i \in new => nodes'[i].from <= at')
       /\ i \notin Open' => nodes'[i].to <= at'
  <2> SUFFICES ASSUME NEW i \in 1..c
        PROVE  /\ nodes'[i].from <= at' + 1 /\ (i \in new => nodes'[i].from <= at')
               /\ i \notin Open' => nodes'[i].to <= at'
    OBVIOUS
  <2>1. nodes'[i].from <= at' + 1 /\ (i \in new => nodes'[i].from <= at')
    BY <1>1, <1>2, <1>5, <1>8
  <2>2. i \notin Open' => nodes'[i].to <= at'
    <3>1. CASE i = l
      BY <1>1, <1>3, <3>1
    <3>2. CASE i # l
      BY <1>1, <1>3, <1>5, <1>10, <3>2
    <3> QED BY <3>1, <3>2
  <2> QED BY <2>1, <2>2
<1>12. \A i, j \in 1..c : i < j =>
       /\ i \notin nodes'[j].above => nodes'[i].to < nodes'[j].from
       /\ i \in new => nodes'[i].from < nodes'[j].from /\ nodes'[i].from <= nodes'[j].to
  <2> SUFFICES ASSUME NEW i \in 1..c, NEW j \in 1..c, i < j
        PROVE  /\ i \notin nodes'[j].above => nodes'[i].to < nodes'[j].from
               /\ i \in new => nodes'[i].from < nodes'[j].from /\ nodes'[i].from <= nodes'[j].to
    OBVIOUS
  <2>1. i \notin nodes'[j].above => nodes'[i].to < nodes'[j].from
    <3>1. CASE i = l
      <4>1. l \in nodes[j].above
        BY <1>1, <1>9, <3>1
      <4> QED BY <1>2, <3>1, <4>1
    <3>2. CASE i # l
      BY <1>2, <1>3, <1>7, <3>2
    <3> QED BY <3>1, <3>2
  <2>2. i \in new => nodes'[i].from < nodes'[j].from /\ nodes'[i].from <= nodes'[j].to
    <3>1. CASE j = l
      BY <1>1, <1>2, <1>3, <1>5, <1>7, <1>8, <3>1
    <3>2. CASE j # l
      BY <1>2, <1>3, <1>7, <1>8, <3>2
    <3> QED BY <3>1, <3>2
  <2> QED BY <2>1, <2>2
<1>13. \A i \in 1..c : nodes'[i].missing => nodes'[i].text = ""
  BY <1>2, <1>6, Zenon
<1> QED
  <2>1. Len(nodes') = c
    BY <1>1
  <2> QED BY <1>11, <1>12, <1>13, <2>1, Zenon DEF PositionsOK, Text, Above, new

-----------------------------------------------------------------------------
LEMMA EnterOrder ==
  ASSUME TypeOK, NestingOK, PositionsOK, OrderOK,
         NEW kind, NEW missing, NEW production, NEW c, NEW n,
         AfterEntering(kind, missing, production, c, n)
  PROVE  OrderOK'
<1>1. /\ c \in Nat \ {0} /\ c - 1 = Len(nodes) /\ Len(nodes') = c /\ Len(path) = n
      /\ \A i \in 1..(c - 1) : nodes'[i] = nodes[i]
  <2>1. /\ Len(nodes) \in Nat /\ c = Len(nodes) + 1 /\ Len(nodes') = c /\ Len(path) = n
        /\ \A i \in 1..(c - 1) : nodes'[i] = nodes[i]
    BY Zenon DEF AfterEntering
  <2> QED BY <2>1
<1>2. nodes'[c].from = at + 1 /\ nodes'[c].above = {path[k] : k \in 1..n}
  BY DEF AfterEntering
<1>3. \A i \in 1..c : i \in 1..(c - 1) \/ i = c
  BY <1>1
<1>4. ASSUME NEW a \in 1..c, NEW b \in 1..c, NEW x \in 1..c,
             a < b, b < x, a \in nodes'[x].above
      PROVE  a \in nodes'[b].above
  <2>1. a \in 1..(c - 1) /\ b \in 1..(c - 1) /\ nodes'[b].above = nodes[b].above
    BY <1>1, <1>4
  <2>2. CASE x \in 1..(c - 1)
    <3>1. a \in nodes[x].above
      BY <1>1, <1>4, <2>2
    <3> QED BY <1>1, <1>4, <2>1, <2>2, <3>1 DEF OrderOK, Above
  <2>3. CASE x = c
    <3>1. PICK k \in 1..n : a = path[k]
      BY <1>2, <1>4, <2>3
    <3> QED BY <1>1, <1>4, <2>1, <3>1 DEF NestingOK, Above
  <2> QED BY <1>3, <2>2, <2>3
<1>5. ASSUME NEW i \in 1..c, NEW j \in 1..c, i < j
      PROVE  nodes'[i].from <= nodes'[j].from
  <2>1. i \in 1..(c - 1) /\ nodes'[i].from = nodes[i].from
    BY <1>1, <1>5
  <2>2. CASE j = c
    BY <1>1, <1>2, <2>1, <2>2 DEF PositionsOK
  <2>3. CASE j \in 1..(c - 1)
    BY <1>1, <1>5, <2>1, <2>3 DEF OrderOK
  <2> QED BY <1>3, <2>2, <2>3
<1> QED BY <1>1, <1>4, <1>5 DEF OrderOK, Above

LEMMA LeaveOrder ==
  ASSUME OrderOK, NEW n, NEW l, AfterLeaving(n, l)
  PROVE  OrderOK'
<1>1. /\ Len(nodes') = Len(nodes)
      /\ \A i \in 1..Len(nodes) :
           nodes'[i].above = nodes[i].above /\ nodes'[i].from = nodes[i].from
  BY DEF AfterLeaving, IsEnded
<1> QED BY <1>1, Zenon DEF OrderOK, Above

LEMMA ProductionsAreSequences ==
  ASSUME TypeOK, NEW j \in 1..Len(nodes), NEW production \in Rules[nodes[j].kind] \cup {<<>>}
  PROVE  production \in Seq(Part(language)) /\ Len(production) \in Nat
<1> DEFINE P == Part(language)
<1>1. CASE production \in Rules[nodes[j].kind]
  <2>1. nodes[j].kind \in Kinds(language) /\ language \in DOMAIN Grammar
    BY PositionTypes DEF TypeOK
  <2>2. production \in Seq(P)
    BY <1>1, <2>1, GrammarAssumption DEF GrammarAssumption, IsTyped, Rules, Kinds, Part
  <2> HIDE DEF P
  <2> QED BY <2>2 DEF P
<1>2. CASE production = <<>>
  <2> HIDE DEF P
  <2>1. production \in Seq(P)
    BY <1>2
  <2> QED BY <2>1 DEF P
<1> QED BY <1>1, <1>2

LEMMA LeaveGrown ==
  ASSUME TypeOK, GrownOK, NEW n, NEW l, AfterLeaving(n, l)
  PROVE  GrownOK'
<1> DEFINE c == Len(nodes)
<1>1. n \in Nat \ {0} /\ c \in Nat /\ Len(nodes') = c /\ Len(path) = n /\ Len(path') = n - 1
      /\ language' = language
  BY DEF AfterLeaving
<1>2. \A i \in 1..c :
        /\ nodes'[i].kind = nodes[i].kind /\ nodes'[i].field = nodes[i].field
        /\ nodes'[i].parent = nodes[i].parent
  BY DEF AfterLeaving, IsEnded
<1>3. \A k \in 1..(n - 1) : path'[k] = path[k] /\ rest'[k] = rest[k]
  BY DEF AfterLeaving
<1>4. DOMAIN nodes = 1..c /\ DOMAIN nodes' = 1..c
  BY DEF AfterLeaving
<1>5. ASSUME NEW j \in 1..c PROVE GrownAt(j)'
  <2>1. Children(j)' = Children(j) /\ \A i \in Children(j) : i \in 1..c
    BY <1>2, <1>4 DEF Children, Node
  <2>2. PICK production \in Rules[nodes[j].kind] \cup {<<>>} : \E m \in 0..Len(production) :
          \E child \in [1..m -> Children(j)] : IsGrown(j, production, m, child)
    BY DEF GrownOK, GrownAt
  <2>3. PICK m \in 0..Len(production) :
          \E child \in [1..m -> Children(j)] : IsGrown(j, production, m, child)
    BY <2>2
  <2>4. PICK child \in [1..m -> Children(j)] : IsGrown(j, production, m, child)
    BY <2>3
  <2>7. Len(production) \in Nat /\ m \in Nat
    BY <1>5, ProductionsAreSequences
  <2>5. IsGrown(j, production, m, child)'
    <3>1. \A i \in 1..m : child[i] \in 1..c
      BY <2>1
    <3>2. /\ \A d \in Children(j) : \E i \in 1..m : child[i] = d
          /\ \A h, i \in 1..m : h < i => child[h] < child[i]
          /\ \A i \in 1..m : /\ nodes[child[i]].kind \in production[i].kinds
                             /\ nodes[child[i]].field = production[i].field
      BY <2>4 DEF IsGrown
    <3>3. \A k \in 1..Len(path) : path[k] = j =>
            /\ Len(rest[k]) = Len(production) - m
            /\ \A i \in 1..(Len(production) - m) : rest[k][i] = production[m + i]
      BY <2>4 DEF IsGrown
    <3>4. \A k \in 1..Len(path') : path'[k] = j =>
            /\ Len(rest'[k]) = Len(production) - m
            /\ \A i \in 1..(Len(production) - m) : rest'[k][i] = production[m + i]
      <4> SUFFICES ASSUME NEW k \in 1..Len(path'), path'[k] = j
                   PROVE  /\ Len(rest'[k]) = Len(production) - m
                          /\ \A i \in 1..(Len(production) - m) : rest'[k][i] = production[m + i]
        OBVIOUS
      <4>1. k \in 1..(n - 1) /\ k \in 1..Len(path)
        BY <1>1
      <4>2. path[k] = j /\ rest'[k] = rest[k]
        BY <1>3, <4>1
      <4> QED BY <3>3, <4>1, <4>2, Zenon
    <3>5. \A i \in 1..m : /\ nodes'[child[i]].kind \in production[i].kinds
                          /\ nodes'[child[i]].field = production[i].field
      BY <1>2, <3>1, <3>2
    <3> QED BY <2>1, <3>2, <3>4, <3>5, Zenon DEF IsGrown
  <2>6. production \in Rules'[nodes'[j].kind] \cup {<<>>}
    BY <1>1, <1>2, Zenon DEF Rules
  <2> QED BY <2>1, <2>5, <2>6, Zenon DEF GrownAt
<1> QED BY <1>1, <1>5, Zenon DEF GrownOK

LEMMA EnterGrown ==
  ASSUME TypeOK, NestingOK, GrownOK, NEW kind, NEW missing, NEW fresh, NEW c, NEW n,
         AfterEntering(kind, missing, fresh, c, n), DOMAIN nodes = 1..(c - 1), DOMAIN nodes' = 1..c
  PROVE  GrownOK'
<1>1. /\ c \in Nat \ {0} /\ n \in Nat \ {0} /\ c - 1 = Len(nodes) /\ Len(nodes') = c
      /\ Len(path) = n /\ Len(path') = n + 1 /\ language' = language
  <2>1. /\ Len(nodes) \in Nat /\ c = Len(nodes) + 1 /\ n = Len(path) /\ n \in Nat \ {0}
        /\ Len(nodes') = c /\ Len(path') = n + 1 /\ language' = language
    BY Zenon DEF AfterEntering
  <2> QED BY <2>1
<1>2. /\ \A i \in 1..(c - 1) : nodes'[i] = nodes[i]
      /\ nodes'[c].parent = path[n] /\ nodes'[c].kind = kind /\ nodes'[c].field = rest[n][1].field
  BY DEF AfterEntering
<1>3. path'[n + 1] = c /\ \A k \in 1..n : path'[k] = path[k]
  BY DEF AfterEntering
<1>4. /\ \A k \in 1..(n - 1) : rest'[k] = rest[k]
      /\ rest'[n + 1] = fresh /\ Len(fresh) \in Nat
  BY DEF AfterEntering
<1>5. /\ kind \in rest[n][1].kinds
      /\ Len(rest[n]) \in Nat \ {0} /\ Len(rest'[n]) = Len(rest[n]) - 1
      /\ (\A m \in 1..(Len(rest[n]) - 1) : rest'[n][m] = rest[n][m + 1])
  BY DEF AfterEntering
<1>6. fresh \in Rules[kind] \cup {<<>>}
  BY Zenon DEF AfterEntering, Rules
<1>7. /\ \A i \in 2..(c - 1) : nodes[i].parent \in 1..(i - 1)
      /\ nodes[1].parent = None
      /\ \A k \in 1..n : path[k] \in 1..(c - 1)
      /\ \A k \in 1..n : nodes[path[k]].above = {path[m] : m \in 1..(k - 1)}
      /\ \A i \in 1..(c - 1) : nodes[i].above \subseteq 1..(i - 1)
  BY <1>1 DEF NestingOK, Above
<1>8. \A k \in 1..(n - 1) : path[k] # path[n]
  <2> SUFFICES ASSUME NEW k \in 1..(n - 1) PROVE path[k] # path[n]
    OBVIOUS
  <2>1. path[k] \in nodes[path[n]].above /\ path[n] \in 1..(c - 1)
    BY <1>1, <1>7
  <2>2. path[k] \in 1..(path[n] - 1)
    BY <1>7, <2>1
  <2> QED BY <2>1, <2>2
<1>9. ASSUME NEW j \in 1..(c - 1)
      PROVE  /\ Children(j)' = Children(j) \cup IF j = path[n] THEN {c} ELSE {}
             /\ Children(j) \subseteq 1..(c - 1)
  <2>1. \A i \in 1..c : i \in 1..(c - 1) \/ i = c
    BY <1>1
  <2>2. \A i \in 1..(c - 1) : i \in 1..c
    BY <1>1
  <2>3. c \in 1..c
    BY <1>1
  <2> QED BY <1>2, <2>1, <2>2, <2>3 DEF Children, Node
<1>10. Children(c)' = {}
  <2>1. \A i \in 1..(c - 1) : nodes[i].parent # c
    BY <1>1, <1>7 DEF None
  <2>2. path[n] # c
    BY <1>1, <1>7
  <2>3. \A i \in 1..c : i \in 1..(c - 1) \/ i = c
    BY <1>1
  <2> QED BY <1>2, <2>1, <2>2, <2>3 DEF Children, Node
<1>11. GrownAt(c)'
  <2> DEFINE child == [i \in 1..0 |-> c]
  <2>1. child \in [1..0 -> Children(c)'] /\ 0 \in 0..Len(fresh)
    BY <1>4
  <2>2. IsGrown(c, fresh, 0, child)'
    <3>1. \A k \in 1..Len(path') : path'[k] = c => k = n + 1
      <4>1. \A k \in 1..Len(path') : k \in 1..n \/ k = n + 1
        BY <1>1
      <4>2. \A k \in 1..n : path'[k] # c
        BY <1>1, <1>3, <1>7
      <4> QED BY <4>1, <4>2
    <3>2. \A i \in 1..Len(fresh) : rest'[n + 1][i] = fresh[0 + i]
      BY <1>4
    <3>3. \A k \in 1..Len(path') : path'[k] = c =>
            /\ Len(rest'[k]) = Len(fresh) - 0
            /\ \A i \in 1..(Len(fresh) - 0) : rest'[k][i] = fresh[0 + i]
      BY <1>4, <3>1, <3>2
    <3>4. \A i \in 1..0 : FALSE
      OBVIOUS
    <3> HIDE DEF child
    <3> QED BY <1>10, <3>3, <3>4 DEF IsGrown
  <2>3. fresh \in Rules'[nodes'[c].kind] \cup {<<>>}
    BY <1>1, <1>2, <1>6, Zenon DEF Rules
  <2> HIDE DEF child
  <2> QED BY <2>1, <2>2, <2>3, Zenon DEF GrownAt
<1>12. ASSUME NEW j \in 1..(c - 1) PROVE GrownAt(j)'
  <2>1. PICK production \in Rules[nodes[j].kind] \cup {<<>>} : \E m \in 0..Len(production) :
          \E child \in [1..m -> Children(j)] : IsGrown(j, production, m, child)
    BY <1>1 DEF GrownOK, GrownAt
  <2>2. PICK m \in 0..Len(production) :
          \E child \in [1..m -> Children(j)] : IsGrown(j, production, m, child)
    BY <2>1
  <2>3. PICK child \in [1..m -> Children(j)] : IsGrown(j, production, m, child)
    BY <2>2
  <2>4. /\ \A d \in Children(j) : \E i \in 1..m : child[i] = d
        /\ \A h, i \in 1..m : h < i => child[h] < child[i]
        /\ \A i \in 1..m : /\ nodes[child[i]].kind \in production[i].kinds
                           /\ nodes[child[i]].field = production[i].field
    BY <2>3 DEF IsGrown
  <2>5. \A k \in 1..n : path[k] = j =>
          /\ Len(rest[k]) = Len(production) - m
          /\ \A i \in 1..(Len(production) - m) : rest[k][i] = production[m + i]
    BY <1>1, <2>3 DEF IsGrown
  <2>6. production \in Rules'[nodes'[j].kind] \cup {<<>>}
    BY <1>1, <1>2, Zenon DEF Rules
  <2>7. \A i \in 1..m : child[i] \in 1..(c - 1) /\ child[i] \in Children(j)
    BY <1>9
  <2>10. Len(production) \in Nat /\ m \in Nat
    BY <1>1, ProductionsAreSequences
  <2>8. CASE j # path[n]
    <3>1. Children(j)' = Children(j)
      BY <1>9, <2>8
    <3>2. \A k \in 1..(n + 1) : path'[k] = j =>
            k \in 1..(n - 1) /\ path[k] = j /\ rest'[k] = rest[k]
      BY <1>1, <1>3, <1>4, <2>8
    <3>3. \A k \in 1..Len(path') : path'[k] = j =>
            /\ Len(rest'[k]) = Len(production) - m
            /\ \A i \in 1..(Len(production) - m) : rest'[k][i] = production[m + i]
      BY <1>1, <2>5, <2>10, <3>2
    <3>4. \A i \in 1..m : /\ nodes'[child[i]].kind \in production[i].kinds
                          /\ nodes'[child[i]].field = production[i].field
      BY <1>2, <2>4, <2>7
    <3>5. IsGrown(j, production, m, child)'
      BY <2>4, <3>1, <3>3, <3>4, Zenon DEF IsGrown
    <3> QED BY <2>6, <3>1, <3>5, Zenon DEF GrownAt
  <2>9. CASE j = path[n]
    <3> DEFINE more == [i \in 1..(m + 1) |-> IF i <= m THEN child[i] ELSE c]
    <3>1. Children(j)' = Children(j) \cup {c}
      BY <1>9, <2>9
    <3>2. Len(rest[n]) = Len(production) - m
          /\ \A i \in 1..(Len(production) - m) : rest[n][i] = production[m + i]
      BY <1>1, <2>5, <2>9, <2>10
    <3>3. m + 1 \in 0..Len(production) /\ rest[n][1] = production[m + 1]
      BY <1>5, <3>2, <2>10
    <3>4. /\ \A i \in 1..m : i \in 1..(m + 1) /\ more[i] = child[i]
          /\ m + 1 \in 1..(m + 1) /\ more[m + 1] = c
          /\ \A i \in 1..(m + 1) : i \in 1..m \/ i = m + 1
      BY <2>10
    <3>5. more \in [1..(m + 1) -> Children(j)']
      BY <2>7, <3>1, <3>4
    <3> HIDE DEF more
    <3>6. \A d \in Children(j)' : \E i \in 1..(m + 1) : more[i] = d
      BY <2>4, <3>1, <3>4, Zenon
    <3>7. \A h, i \in 1..(m + 1) : h < i => more[h] < more[i]
      <4> SUFFICES ASSUME NEW h \in 1..(m + 1), NEW i \in 1..(m + 1), h < i PROVE more[h] < more[i]
        OBVIOUS
      <4>1. h \in 1..m
        BY <2>10
      <4>2. CASE i = m + 1
        BY <1>1, <2>7, <3>4, <4>1, <4>2
      <4>3. CASE i \in 1..m
        BY <2>4, <3>4, <4>1, <4>3
      <4> QED BY <3>4, <4>2, <4>3
    <3>8. \A i \in 1..(m + 1) : /\ nodes'[more[i]].kind \in production[i].kinds
                                /\ nodes'[more[i]].field = production[i].field
      <4>1. ASSUME NEW i \in 1..m
            PROVE  /\ nodes'[more[i]].kind \in production[i].kinds
                   /\ nodes'[more[i]].field = production[i].field
        BY <1>2, <2>4, <2>7, <3>4
      <4>2. /\ nodes'[more[m + 1]].kind \in production[m + 1].kinds
            /\ nodes'[more[m + 1]].field = production[m + 1].field
        BY <1>2, <1>5, <3>3, <3>4
      <4> QED BY <3>4, <4>1, <4>2
    <3>9. \A k \in 1..(n + 1) : path'[k] = j => k = n
      BY <1>1, <1>3, <1>7, <1>8, <2>9
    <3>10. /\ Len(rest'[n]) = Len(production) - (m + 1)
           /\ \A i \in 1..(Len(production) - (m + 1)) : rest'[n][i] = production[(m + 1) + i]
      <4>1. m + 1 \in 1..Len(production)
        BY <1>5, <3>2, <2>10
      <4>2. Len(rest'[n]) = Len(production) - (m + 1)
        BY <1>5, <3>2, <2>10
      <4>3. ASSUME NEW i \in 1..(Len(production) - (m + 1))
            PROVE  rest'[n][i] = production[(m + 1) + i]
        <5>1. i \in 1..(Len(rest[n]) - 1) /\ i + 1 \in 1..(Len(production) - m)
              /\ m + (i + 1) = (m + 1) + i
          BY <3>2, <2>10
        <5>2. rest'[n][i] = rest[n][i + 1] /\ rest[n][i + 1] = production[m + (i + 1)]
          BY <1>5, <3>2, <5>1
        <5> QED BY <5>1, <5>2
      <4> QED BY <4>2, <4>3
    <3>11. \A k \in 1..Len(path') : path'[k] = j =>
            /\ Len(rest'[k]) = Len(production) - (m + 1)
            /\ \A i \in 1..(Len(production) - (m + 1)) : rest'[k][i] = production[(m + 1) + i]
      BY <1>1, <3>9, <3>10
    <3>12. IsGrown(j, production, m + 1, more)'
      BY <3>6, <3>7, <3>8, <3>11, Zenon DEF IsGrown
    <3> QED BY <2>6, <3>3, <3>5, <3>12, Zenon DEF GrownAt
  <2> QED BY <2>8, <2>9
<1> QED
  <2>1. \A i \in 1..c : i \in 1..(c - 1) \/ i = c
    BY <1>1
  <2> QED BY <1>1, <1>11, <1>12, <2>1, Zenon DEF GrownOK

-----------------------------------------------------------------------------
LEMMA InitTree ==
  ASSUME Init
  PROVE  Tree
<1> DEFINE P == Part(language)
           Q == Seq(P)
<1>1. /\ language \in DOMAIN Grammar /\ nodes = <<Root>> /\ path = <<1>> /\ at = 0
      /\ rest \in {<<production>> : production \in Rules["source_file"]}
  BY DEF Init
<1>2. PICK production \in Rules["source_file"] : rest = <<production>>
  BY <1>1
<1>3. "source_file" \in Kinds(language) /\ production \in Q
  BY <1>1, <1>2, GrammarAssumption DEF GrammarAssumption, IsTyped, Rules, Kinds, Part
<1>4. Root \in NodeRecord(language)
  <2>1. "" \in Written(language)
    BY DEF Written
  <2> QED BY <1>3, <2>1 DEF Root, None, NodeRecord
<1>5. /\ Len(nodes) = 1 /\ nodes[1] = Root /\ DOMAIN nodes = 1..1
      /\ Len(path) = 1 /\ path[1] = 1 /\ Len(rest) = 1 /\ rest[1] = production
  BY <1>1, <1>2
<1>6. TypeOK
  <2> HIDE DEF Q
  <2>1. path \in Seq(Nat) /\ rest \in Seq(Q) /\ Len(rest) = Len(path) /\ at \in Nat
    BY <1>1, <1>2, <1>3
  <2>2. nodes \in Seq(NodeRecord(language))
    <3> DEFINE R == NodeRecord(language)
               root == Root
    <3>1. root \in R /\ nodes = <<root>>
      BY <1>1, <1>4
    <3> HIDE DEF R, root
    <3>2. nodes \in Seq(R)
      BY <3>1
    <3> QED BY <3>2 DEF R
  <2> QED BY <1>1, <2>1, <2>2 DEF TypeOK, Q
<1>7. nodes[1].parent = None /\ nodes[1].from = 1 /\ nodes[1].to = 0
  <2>1. Root.parent = None /\ Root.from = 1 /\ Root.to = 0
    BY DEF Root
  <2> QED BY <1>5, <2>1
<1>11. nodes[1].above = {}
  <2>1. Root.above = {}
    BY DEF Root
  <2> QED BY <1>5, <2>1
<1>12. nodes[1].kind = "source_file" /\ nodes[1].text = ""
  <2>1. Root.kind = "source_file" /\ Root.text = ""
    BY DEF Root
  <2> QED BY <1>5, <2>1
<1>8. NestingOK
  <2>7. \A i \in 1..Len(nodes) : i = 1
    BY <1>5
  <2>1. \A i \in 1..Len(nodes) : i = 1 /\ nodes[i].above = {}
    BY <1>11, <2>7
  <2>2. \A k \in 1..Len(path) : k = 1 /\ path[k] = 1
    BY <1>5
  <2>3. {path[m] : m \in 1..(1 - 1)} = {} /\ 2..Len(nodes) = {}
    BY <1>5
  <2>4. \A i \in 1..Len(nodes) : nodes[i].above \subseteq 1..(i - 1)
    BY <2>1
  <2>5. \A k \in 1..Len(path) :
         /\ path[k] \in 1..Len(nodes)
         /\ nodes[path[k]].above = {path[m] : m \in 1..(k - 1)}
         /\ \A i \in 1..Len(nodes) : i > path[k] => path[k] \in nodes[i].above
    <3> SUFFICES ASSUME NEW k \in 1..Len(path)
                 PROVE  /\ path[k] \in 1..Len(nodes)
                        /\ nodes[path[k]].above = {path[m] : m \in 1..(k - 1)}
                        /\ \A i \in 1..Len(nodes) : i > path[k] => path[k] \in nodes[i].above
      OBVIOUS
    <3>1. k = 1 /\ path[k] = 1 /\ \A i \in 1..Len(nodes) : ~(i > 1)
      BY <2>1, <2>2
    <3> QED BY <1>5, <1>11, <2>3, <3>1
  <2>6. Len(nodes) >= 1
    BY <1>5
  <2> QED BY <1>7, <1>11, <1>12, <2>3, <2>4, <2>5, <2>6, Zenon DEF NestingOK, Above
<1>9. PositionsOK
  <2>1. Tokens = {}
    BY <1>5 DEF Tokens
  <2>2. \A i \in 1..Len(nodes) : i = 1
    BY <1>5
  <2>5. nodes[1].from <= at + 1 /\ nodes[1].to <= at
    BY <1>1, <1>7
  <2>3. \A i \in 1..Len(nodes) :
         /\ nodes[i].from <= at + 1 /\ nodes[i].to <= at
         /\ nodes[i].missing => nodes[i].text = ""
    BY <1>12, <2>2, <2>5, Zenon
  <2>4. \A i, j \in 1..Len(nodes) : ~(i < j)
    BY <2>2
  <2> QED BY <2>1, <2>3, <2>4, Zenon DEF PositionsOK, Text
<1>10. GrownOK
  <2> SUFFICES GrownAt(1)
    BY <1>5 DEF GrownOK
  <2>1. Children(1) = {}
    <3>2. \A i \in Node : i = 1
      BY <1>5 DEF Node
    <3>3. nodes[1].parent # 1
      BY <1>7 DEF None
    <3>1. \A i \in Node : nodes[i].parent # 1
      BY <3>2, <3>3
    <3> QED BY <3>1 DEF Children
  <2> DEFINE child == [i \in 1..0 |-> 1]
  <2>2. child \in [1..0 -> Children(1)] /\ Len(production) \in Nat /\ 0 \in 0..Len(production)
    BY <1>3
  <2> HIDE DEF child
  <2>3. IsGrown(1, production, 0, child)
    BY <1>5, <2>1, <2>2 DEF IsGrown
  <2>4. production \in Rules[nodes[1].kind] \cup {<<>>}
    BY <1>2, <1>12, Zenon
  <2> QED BY <2>2, <2>3, <2>4, Zenon DEF GrownAt
<1>13. OrderOK
  <2>1. \A i, j \in 1..Len(nodes) : ~(i < j)
    BY <1>5
  <2> QED BY <2>1, Zenon DEF OrderOK
<1> QED BY <1>6, <1>8, <1>9, <1>10, <1>13 DEF Tree

LEMMA NodesOfTypes ==
  ASSUME TypeOK
  PROVE  DOMAIN nodes = 1..Len(nodes) /\ Len(nodes) \in Nat
BY DEF TypeOK

LEMMA NextTree ==
  ASSUME Tree, [Next]_vars
  PROVE  Tree'
<1>1. TypeOK /\ NestingOK /\ PositionsOK /\ OrderOK /\ GrownOK
  BY DEF Tree
<1>2. CASE Parse
  <2>1. PICK kind, text, missing, production : Entered(kind, text, missing, production)
    BY <1>1, <1>2, EnterStep
  <2> DEFINE c == Len(nodes) + 1
             n == Len(path)
  <2>2. TypeOK' /\ AfterEntering(kind, missing, production, c, n)
    BY <1>1, <2>1, EnteringStep
  <2>3. DOMAIN nodes = 1..(c - 1) /\ DOMAIN nodes' = 1..c
    <3>1. DOMAIN nodes = 1..Len(nodes) /\ Len(nodes) \in Nat
      BY <1>1, NodesOfTypes
    <3>2. DOMAIN nodes' = 1..Len(nodes') /\ Len(nodes') = c
      <4>1. Len(nodes') = c
        BY <2>2 DEF AfterEntering
      <4>2. DOMAIN nodes' = 1..Len(nodes')
        BY <2>2 DEF TypeOK
      <4> QED BY <4>1, <4>2
    <3> QED BY <3>1, <3>2
  <2> HIDE DEF c, n
  <2> QED BY <1>1, <2>2, <2>3, EnterNesting, EnterPositions, EnterOrder, EnterGrown DEF Tree
<1>3. CASE Leave
  <2> DEFINE n == Len(path)
             l == path[n]
  <2>1. TypeOK' /\ AfterLeaving(n, l)
    BY <1>1, <1>3, LeaveStep, LeavingStep
  <2> HIDE DEF n, l
  <2> QED BY <1>1, <2>1, LeaveNesting, LeavePositions, LeaveOrder, LeaveGrown DEF Tree
<1>4. CASE UNCHANGED vars
  <2>1. language' = language /\ nodes' = nodes /\ path' = path /\ rest' = rest /\ at' = at
    BY <1>4 DEF vars
  <2>5. TypeOK'
    BY <1>1, <2>1 DEF TypeOK
  <2>2. NestingOK'
    BY <1>1, <2>1 DEF NestingOK, Above
  <2>3. PositionsOK'
    BY <1>1, <2>1, Zenon DEF PositionsOK, Above, Text, Open, Tokens
  <2>4. GrownOK'
    <3>1. \A j : Children(j)' = Children(j)
      BY <2>1 DEF Children, Node
    <3>2. \A j, production, n, child : IsGrown(j, production, n, child)' <=> IsGrown(j, production, n, child)
      BY <2>1, <3>1 DEF IsGrown
    <3>3. \A j : Rules'[nodes'[j].kind] = Rules[nodes[j].kind]
      BY <2>1 DEF Rules
    <3>4. Len(nodes') = Len(nodes)
      BY <2>1
    <3> QED BY <1>1, <3>1, <3>2, <3>3, <3>4 DEF GrownOK, GrownAt
  <2>6. OrderOK'
    BY <1>1, <2>1, Zenon DEF OrderOK, Above
  <2> QED BY <2>2, <2>5, <2>3, <2>4, <2>6 DEF Tree
<1> QED BY <1>2, <1>3, <1>4 DEF Next

(* Every tree is nested, in the order of the text, and as the grammar has   *)
(* it (analyzer.go: all its walks rely on it).                              *)
THEOREM TreesAreAsWritten == Spec => []Tree
<1>1. Init => Tree
  BY InitTree
<1>2. Tree /\ [Next]_vars => Tree'
  BY NextTree
<1> QED BY <1>1, <1>2, PTL DEF Spec
-----------------------------------------------------------------------------
LEMMA LeastOf ==
  ASSUME NEW S \in SUBSET Nat, S # {}
  PROVE  \E i \in S : \A j \in S : i <= j
<1> DEFINE less == OpToRel(<, Nat)
<1>1. \A y, z \in Nat : y < z => <<y, z>> \in less
  BY DEF OpToRel
<1>2. IsWellFoundedOn(less, Nat)
  BY NatLessThanWellFounded
<1> HIDE DEF less
<1>3. PICK z \in S : \A y \in S : <<y, z>> \notin less
  BY <1>2, WFMin
<1>4. \A y \in S : ~(y < z)
  BY <1>1, <1>3
<1> QED BY <1>3, <1>4

LEMMA OutermostErrors ==
  ASSUME Tree
  PROVE  IncompleteMeansErrors
<1> DEFINE E == {j \in Node : Kind(j) = "ERROR"}
           Outer == {j \in E : \A k \in Above(j) : Kind(k) # "ERROR"}
           Missing == {j \in Node : nodes[j].missing}
           errors == {d.node : d \in {x \in Diagnostics : x.code = "syntax-error"}}
<1>1. Node \subseteq Nat /\ \A j \in Node : \A k \in Above(j) : k \in Node /\ k < j
  BY NodesOfTypes DEF Tree, NestingOK, Node
<1>2. \A d : d \in Diagnostics =>
        \/ d.code = "syntax-error" /\ d.node \in Outer
        \/ d.code = "missing-syntax" /\ d.node \in Missing
        \/ d.code = "mismatched-event-end"
  BY DEF Diagnostics
<1>3. errors \subseteq Outer
  BY <1>2
<1>4. \A i \in Outer : \E d \in Diagnostics : d.code = "syntax-error"
  <2> SUFFICES ASSUME NEW i \in Outer PROVE \E d \in Diagnostics : d.code = "syntax-error"
    OBVIOUS
  <2>1. [code |-> "syntax-error", node |-> i] \in Diagnostics
    BY Zenon DEF Diagnostics
  <2> QED BY <2>1
<1>5. \A i \in Missing : \E d \in Diagnostics : d.code = "missing-syntax"
  <2> SUFFICES ASSUME NEW i \in Missing PROVE \E d \in Diagnostics : d.code = "missing-syntax"
    OBVIOUS
  <2>1. [code |-> "missing-syntax", node |-> i] \in Diagnostics
    BY Zenon DEF Diagnostics
  <2> QED BY <2>1
<1>6. E # {} => Outer # {}
  <2> SUFFICES ASSUME E # {} PROVE Outer # {}
    OBVIOUS
  <2>1. PICK i \in E : \A j \in E : i <= j
    BY <1>1, LeastOf
  <2>2. ASSUME NEW k \in Above(i) PROVE Kind(k) # "ERROR"
    <3>1. i \in Nat /\ k \in Nat /\ k \in Node /\ k < i
      BY <1>1, <2>1
    <3>2. k \notin E
      BY <2>1, <3>1
    <3> QED BY <3>1, <3>2
  <2> QED BY <2>1, <2>2
<1>7. SemanticComplete <=> E = {} /\ Missing = {}
  BY DEF SemanticComplete
<1>8. SemanticComplete <=> \A d \in Diagnostics : d.code = "mismatched-event-end"
  <2>1. ASSUME SemanticComplete, NEW d \in Diagnostics PROVE d.code = "mismatched-event-end"
    BY <1>2, <1>7, <2>1
  <2>2. ASSUME ~SemanticComplete PROVE \E d \in Diagnostics : d.code # "mismatched-event-end"
    BY <1>4, <1>5, <1>6, <1>7, <2>2
  <2> QED BY <2>1, <2>2
<1>9. \A i, j \in errors : i \notin Above(j)
  BY <1>3
<1> HIDE DEF errors
<1> QED BY <1>8, <1>9 DEF IncompleteMeansErrors, errors

(* An analysis is incomplete exactly if the user is shown a syntax error,   *)
(* and of errors within errors only the outermost (analyzer.go, Analyze and *)
(* collectDiagnostics).                                                     *)
THEOREM ErrorsAreShown == Spec => []IncompleteMeansErrors
<1>1. Tree => IncompleteMeansErrors
  BY OutermostErrors
<1> QED BY <1>1, TreesAreAsWritten, PTL

-----------------------------------------------------------------------------
(* What the children of a node are, by the production that they begin.      *)
ChildOf(j, i, production, m) ==
  /\ production \in Grammar[language].rules[nodes[j].kind] /\ production \in Seq(Part(language))
  /\ m \in DOMAIN production
  /\ nodes[i].kind \in production[m].kinds /\ nodes[i].field = production[m].field

LEMMA ChildrenOf ==
  ASSUME Tree, NEW j \in Node
  PROVE  \E production \in Rules[nodes[j].kind] \cup {<<>>} : \E n \in 0..Len(production) :
           \E child \in [1..n -> Children(j)] :
             /\ \A c \in Children(j) : \E m \in 1..n : child[m] = c
             /\ \A l, m \in 1..n : l < m => child[l] < child[m]
             /\ \A m \in 1..n : ChildOf(j, child[m], production, m)
<1>1. j \in 1..Len(nodes)
  BY NodesOfTypes DEF Tree, Node
<1>2. PICK production \in Rules[nodes[j].kind] \cup {<<>>} : \E n \in 0..Len(production) :
        \E child \in [1..n -> Children(j)] : IsGrown(j, production, n, child)
  BY <1>1 DEF Tree, GrownOK, GrownAt
<1>3. PICK n \in 0..Len(production) :
        \E child \in [1..n -> Children(j)] : IsGrown(j, production, n, child)
  BY <1>2
<1>4. PICK child \in [1..n -> Children(j)] : IsGrown(j, production, n, child)
  BY <1>3
<1> DEFINE P == Part(language)
<1>5. production \in Seq(P) /\ Len(production) \in Nat
  BY <1>1, ProductionsAreSequences DEF Tree
<1> HIDE DEF P
<1>6. DOMAIN production = 1..Len(production) /\ n \in Nat
  BY <1>5
<1>7. ASSUME NEW m \in 1..n PROVE ChildOf(j, child[m], production, m)
  <2>1. nodes[child[m]].kind \in production[m].kinds /\ nodes[child[m]].field = production[m].field
    BY <1>4 DEF IsGrown
  <2>2. m \in DOMAIN production
    BY <1>5, <1>6
  <2>3. production # <<>>
    <3>1. Len(production) # 0
      BY <1>5, <1>6
    <3> QED BY <3>1
  <2>4. production \in Grammar[language].rules[nodes[j].kind]
    BY <2>3, Zenon DEF Rules
  <2> QED BY <1>5, <2>1, <2>2, <2>4, Zenon DEF ChildOf, P
<1>8. /\ \A c \in Children(j) : \E m \in 1..n : child[m] = c
      /\ \A l, m \in 1..n : l < m => child[l] < child[m]
  BY <1>4 DEF IsGrown
<1> QED BY <1>7, <1>8

LEMMA NodeTypes ==
  ASSUME Tree, NEW i \in Node
  PROVE  /\ i \in 1..Len(nodes) /\ i \in Nat \ {0} /\ Kind(i) = nodes[i].kind
         /\ nodes[i].kind \in Kinds(language) /\ language \in DOMAIN Grammar
         /\ i # 1 => nodes[i].parent \in Node /\ nodes[i].parent < i
<1>1. DOMAIN nodes = 1..Len(nodes) /\ Len(nodes) \in Nat
  BY NodesOfTypes DEF Tree
<1>2. i \in 1..Len(nodes) /\ i \in Nat \ {0}
  BY <1>1 DEF Node
<1>3. i # 1 => nodes[i].parent \in Node /\ nodes[i].parent < i
  <2> SUFFICES ASSUME i # 1 PROVE nodes[i].parent \in Node /\ nodes[i].parent < i
    OBVIOUS
  <2>1. nodes[i].parent \in 1..(i - 1)
    BY <1>1, <1>2 DEF Tree, NestingOK
  <2> QED BY <1>1, <1>2, <2>1 DEF Node
<1>4. nodes[i].kind \in Kinds(language) /\ language \in DOMAIN Grammar
  BY <1>2, PositionTypes DEF Tree, TypeOK
<1> QED BY <1>2, <1>3, <1>4 DEF Kind, None

(* What a node is below its parent is a part of a production of the parent. *)
LEMMA PartOfParent ==
  ASSUME Tree, NEW i \in Node, i # 1
  PROVE  \E part \in Parts(Grammar[language], Kind(nodes[i].parent)) :
           Kind(i) \in part.kinds /\ nodes[i].field = part.field
<1> DEFINE j == nodes[i].parent
<1>1. j \in Node /\ i \in Children(j) /\ Kind(j) = nodes[j].kind /\ Kind(i) = nodes[i].kind
  BY NodeTypes DEF Children
<1> HIDE DEF j
<1>2. PICK production \in Rules[nodes[j].kind] \cup {<<>>} : \E n \in 0..Len(production) :
        \E child \in [1..n -> Children(j)] :
           /\ \A c \in Children(j) : \E m \in 1..n : child[m] = c
           /\ \A m \in 1..n : ChildOf(j, child[m], production, m)
  BY <1>1, ChildrenOf
<1>3. PICK m : ChildOf(j, i, production, m)
  BY <1>1, <1>2
<1>4. production[m] \in Parts(Grammar[language], nodes[j].kind)
  BY <1>3 DEF ChildOf, Parts
<1>5. nodes[i].kind \in production[m].kinds /\ nodes[i].field = production[m].field
  BY <1>3 DEF ChildOf
<1> QED BY <1>1, <1>4, <1>5 DEF j

AskedFields == {"header", "name", "property", "function", "arguments"}

LEMMA FieldsOnce ==
  ASSUME Tree, NEW j \in Node, NEW a \in Children(j), NEW b \in Children(j),
         nodes[a].field = nodes[b].field, nodes[a].field \in AskedFields
  PROVE  a = b
<1>1. PICK production \in Rules[nodes[j].kind] \cup {<<>>} : \E n \in 0..Len(production) :
        \E child \in [1..n -> Children(j)] :
           /\ \A c \in Children(j) : \E m \in 1..n : child[m] = c
           /\ \A m \in 1..n : ChildOf(j, child[m], production, m)
  BY ChildrenOf
<1>8. PICK n \in 0..Len(production) : \E child \in [1..n -> Children(j)] :
           /\ \A c \in Children(j) : \E m \in 1..n : child[m] = c
           /\ \A m \in 1..n : ChildOf(j, child[m], production, m)
  BY <1>1
<1>2. PICK child \in [1..n -> Children(j)] :
           /\ \A c \in Children(j) : \E m \in 1..n : child[m] = c
           /\ \A m \in 1..n : ChildOf(j, child[m], production, m)
  BY <1>8
<1>3. PICK k, m \in 1..n : child[k] = a /\ child[m] = b
  BY <1>2
<1>4. ChildOf(j, a, production, k) /\ ChildOf(j, b, production, m)
  BY <1>2, <1>3
<1>5. nodes[j].kind \in DOMAIN Grammar[language].rules /\ language \in DOMAIN Grammar
  BY NodeTypes DEF Kinds
<1>6. FieldsDiffer(Grammar[language])
  BY <1>5, GrammarAssumption DEF GrammarAssumption
<1>7. k # m => production[k].field \notin AskedFields
  BY <1>4, <1>5, <1>6 DEF FieldsDiffer, ChildOf, AskedFields
<1> QED BY <1>3, <1>4, <1>7 DEF ChildOf

LEMMA FieldIs ==
  ASSUME Tree, NEW j \in Node, NEW a \in Children(j), nodes[a].field \in AskedFields
  PROVE  Field(j, nodes[a].field) = a
<1> DEFINE S == {i \in Children(j) : nodes[i].field = nodes[a].field}
<1>1. S = {a}
  BY FieldsOnce
<1>2. a \in Nat
  BY NodeTypes DEF Children
<1> HIDE DEF S
<1>3. Min(S) = a
  BY <1>1, <1>2 DEF Min
<1> QED BY <1>1, <1>3 DEF Field, First, S

LEMMA FieldIsChild ==
  ASSUME Tree, NEW j \in Node, NEW field \in AskedFields, Field(j, field) # None
  PROVE  Field(j, field) \in Children(j) /\ nodes[Field(j, field)].field = field
<1>1. PICK a \in Children(j) : nodes[a].field = field
  BY DEF Field, First
<1> QED BY <1>1, FieldIs

LEMMA ArgumentsAreOfCalls ==
  ASSUME Tree, NEW a \in Node, Kind(a) = "arguments"
  PROVE  /\ a # 1 /\ nodes[a].parent \in Node /\ a \in Children(nodes[a].parent)
         /\ Kind(nodes[a].parent) = "call_expression"
         /\ Field(nodes[a].parent, "arguments") = a
<1>1. nodes[a].kind = "arguments" /\ a # 1
  BY NodeTypes DEF Tree, NestingOK
<1> DEFINE j == nodes[a].parent
<1>2. j \in Node /\ a \in Children(j)
  BY <1>1, NodeTypes DEF Children
<1> HIDE DEF j
<1>3. PICK part \in Parts(Grammar[language], Kind(j)) :
        Kind(a) \in part.kinds /\ nodes[a].field = part.field
  BY <1>1, PartOfParent DEF j
<1>5. Kind(j) \in DOMAIN Grammar[language].rules /\ language \in DOMAIN Grammar
  BY <1>2, NodeTypes DEF Kinds
<1>6. FieldsAreOf(Grammar[language])
  BY <1>5, GrammarAssumption DEF GrammarAssumption
<1>7. Kind(j) = "call_expression" /\ nodes[a].field = "arguments"
  BY <1>3, <1>5, <1>6, Zenon DEF FieldsAreOf
<1>8. Field(j, "arguments") = a
  BY <1>2, <1>7, FieldIs DEF AskedFields
<1> QED BY <1>1, <1>2, <1>5, <1>7, <1>8 DEF j

-----------------------------------------------------------------------------
(* The commas before an argument, by the numbers of the nodes and by their  *)
(* positions.                                                               *)
Comma == ","

Commas(i) == {j \in Children(nodes[i].parent) : Kind(j) = Comma /\ j < i}

LEMMA StringsAreTokens ==
  ASSUME Tree, NEW i \in Node, i # 1, IsDecoded(i)
  PROVE  i \in Tokens
<1>1. nodes[i].kind = "string" /\ Text(i) # ""
  BY NodeTypes, Zenon DEF IsDecoded
<1>2. i \in 2..Len(nodes) /\ ~nodes[i].missing
  <2>1. i \in 1..Len(nodes) /\ Len(nodes) \in Nat
    BY NodeTypes, NodesOfTypes DEF Tree
  <2>2. nodes[i].missing => Text(i) = ""
    BY <2>1, Zenon DEF Tree, PositionsOK
  <2>3. ~nodes[i].missing
    BY <1>1, <2>2, Zenon
  <2>4. i \in 2..Len(nodes)
    BY <2>1
  <2> QED BY <2>3, <2>4
<1>3. "string" \in Word
  BY GrammarAssumption DEF GrammarAssumption
<1> QED BY <1>1, <1>2, <1>3 DEF Tokens

LEMMA CommaPositions ==
  ASSUME Tree, NEW i \in Node, i # 1, NEW j \in Node, nodes[j].parent = nodes[i].parent, j < i
  PROVE  nodes[j].to < nodes[i].from
<1>1. i \in 1..Len(nodes) /\ j \in 1..Len(nodes) /\ i \in Nat /\ j \in Nat
  BY NodeTypes
<1>2. j # 1
  BY NodeTypes DEF Tree, NestingOK, None, Node
<1>3. Above(i) = Above(nodes[i].parent) \cup {nodes[i].parent}
  BY <1>1 DEF Tree, NestingOK
<1>4. nodes[j].parent < j /\ nodes[j].parent \in Node
  BY <1>2, NodeTypes
<1>5. Above(nodes[i].parent) \subseteq 1..(nodes[i].parent - 1)
  BY <1>4, NodeTypes DEF Tree, NestingOK
<1>6. nodes[i].parent \in Nat
  BY <1>4, NodeTypes
<1>7. j \notin Above(i)
  BY <1>1, <1>3, <1>4, <1>5, <1>6
<1> QED BY <1>1, <1>7 DEF Tree, PositionsOK

IsArgument(p, i) == i \in Children(p) /\ Kind(i) # Comma /\ Kind(i) # "comment"

LEMMA SlotsDiffer ==
  ASSUME Tree, NEW p \in Node, Kind(p) = "arguments",
         NEW a, NEW b, IsArgument(p, a), IsArgument(p, b), Slot(a) = Slot(b)
  PROVE  a = b
<1>1. SUFFICES ASSUME NEW x, NEW y, IsArgument(p, x), IsArgument(p, y), Slot(x) = Slot(y), x < y
               PROVE  FALSE
  <2>1. a \in Nat /\ b \in Nat
    BY NodeTypes DEF IsArgument, Children
  <2>2. ~(a < b) /\ ~(b < a)
    BY <1>1
  <2> QED BY <2>1, <2>2
<1>2. x \in Node /\ y \in Node /\ nodes[x].parent = p /\ nodes[y].parent = p
      /\ x \in Nat /\ y \in Nat
  BY <1>1, NodeTypes DEF IsArgument, Children
<1>3. PICK production \in Rules[nodes[p].kind] \cup {<<>>} : \E n \in 0..Len(production) :
        \E child \in [1..n -> Children(p)] :
           /\ \A c \in Children(p) : \E m \in 1..n : child[m] = c
           /\ \A l, m \in 1..n : l < m => child[l] < child[m]
           /\ \A m \in 1..n : ChildOf(p, child[m], production, m)
  BY ChildrenOf
<1>4. PICK n \in 0..Len(production) : \E child \in [1..n -> Children(p)] :
           /\ \A c \in Children(p) : \E m \in 1..n : child[m] = c
           /\ \A l, m \in 1..n : l < m => child[l] < child[m]
           /\ \A m \in 1..n : ChildOf(p, child[m], production, m)
  BY <1>3
<1>5. PICK child \in [1..n -> Children(p)] :
           /\ \A c \in Children(p) : \E m \in 1..n : child[m] = c
           /\ \A l, m \in 1..n : l < m => child[l] < child[m]
           /\ \A m \in 1..n : ChildOf(p, child[m], production, m)
  BY <1>4
<1>6. PICK k \in 1..n : child[k] = x
  BY <1>1, <1>5 DEF IsArgument
<1>7. PICK m \in 1..n : child[m] = y
  BY <1>1, <1>5 DEF IsArgument
<1>8. ChildOf(p, x, production, k) /\ ChildOf(p, y, production, m)
  BY <1>5, <1>6, <1>7
<1>9. Kind(x) = nodes[x].kind /\ Kind(y) = nodes[y].kind /\ nodes[p].kind = "arguments"
      /\ nodes[p].kind \in DOMAIN Grammar[language].rules /\ language \in DOMAIN Grammar
  BY <1>2, NodeTypes DEF Kinds
<1>10. n \in Nat /\ 1..n \subseteq DOMAIN production
  <2>1. Len(production) \in Nat
    BY ProductionsAreSequences, NodeTypes DEF Tree
  <2>2. \A i \in 1..n : i \in DOMAIN production
    BY <1>5 DEF ChildOf
  <2> QED BY <2>1, <2>2
<1>11. k < m
  <2>1. m < k => y < x
    BY <1>5, <1>6, <1>7
  <2>2. k # m
    BY <1>1, <1>2, <1>6, <1>7
  <2> QED BY <1>1, <1>2, <1>10, <2>1, <2>2
<1>12. PICK j \in k..m : production[j].kinds = {Comma}
  <2>1. ArgumentsAreSeparated(Grammar[language])
    BY <1>9, GrammarAssumption DEF GrammarAssumption
  <2>5. "arguments" \in DOMAIN Grammar[language].rules =>
          \A r \in Grammar[language].rules["arguments"] : \A d, e \in DOMAIN r :
            d < e => \/ r[d].kinds \subseteq {Comma, "comment"}
                     \/ r[e].kinds \subseteq {Comma, "comment"}
                     \/ \E f \in d..e : r[f].kinds = {Comma}
    BY <2>1, Zenon DEF ArgumentsAreSeparated, Comma
  <2>2. k \in DOMAIN production /\ m \in DOMAIN production
    BY <1>8 DEF ChildOf
  <2>3. production \in Grammar[language].rules["arguments"]
    BY <1>8, <1>9 DEF ChildOf
  <2>4. ~(production[k].kinds \subseteq {Comma, "comment"}) /\ ~(production[m].kinds \subseteq {Comma, "comment"})
    BY <1>1, <1>8, <1>9 DEF ChildOf, IsArgument
  <2> QED BY <1>9, <1>11, <2>2, <2>3, <2>4, <2>5
<1> DEFINE c == child[j]
<1>13. j \in 1..n /\ c \in Children(p) /\ nodes[c].kind = Comma
  <2>1. j \in 1..n
    BY <1>10, <1>12
  <2>2. ChildOf(p, c, production, j)
    BY <1>5, <2>1
  <2> QED BY <1>12, <2>1, <2>2 DEF ChildOf
<1>14. j # k /\ j # m
  BY <1>1, <1>6, <1>7, <1>9, <1>13 DEF IsArgument
<1>15. x < c /\ c < y
  BY <1>5, <1>6, <1>7, <1>10, <1>12, <1>13, <1>14
<1>16. c \in Node /\ Kind(c) = Comma /\ c \in Nat
  BY <1>13, NodeTypes DEF Children
<1> HIDE DEF c
<1>17. c \in Commas(y) /\ c \notin Commas(x)
  BY <1>2, <1>13, <1>15, <1>16 DEF Commas
<1>18. Commas(x) \subseteq Commas(y)
  <2>1. \A i \in Children(p) : i \in Nat
    BY NodeTypes DEF Children
  <2> QED BY <1>1, <1>2, <2>1 DEF Commas
<1>19. IsFiniteSet(Commas(y))
  <2>1. Commas(y) \subseteq 1..Len(nodes) /\ Len(nodes) \in Nat
    BY NodesOfTypes DEF Tree, Commas, Children, Node
  <2>2. IsFiniteSet(1..Len(nodes))
    BY <2>1, FS_Interval
  <2>3. Commas(y) \in SUBSET (1..Len(nodes))
    BY <2>1
  <2> QED BY <2>2, <2>3, FS_Subset
<1>20. Cardinality(Commas(x)) = Cardinality(Commas(y))
  <2>1. Slot(x) = Cardinality(Commas(x)) /\ Slot(y) = Cardinality(Commas(y))
    BY Zenon DEF Slot, Commas, Comma
  <2> QED BY <1>1, <2>1
<1> QED BY <1>17, <1>18, <1>19, <1>20, FS_Subset

LEMMA InSlotIs ==
  ASSUME Tree, NEW p \in Node, Kind(p) = "arguments", NEW i, IsArgument(p, i)
  PROVE  InSlot(p, Slot(i)) = i
<1> DEFINE there == {j \in Children(p) : Named(j) /\ Kind(j) # "comment" /\ Slot(j) = Slot(i)}
<1>1. there = {i}
  <2>1. i \in there
    BY Zenon DEF IsArgument, Named, Comma
  <2>2. \A j \in there : IsArgument(p, j) /\ Slot(j) = Slot(i)
    BY Zenon DEF IsArgument, Named, Comma
  <2> HIDE DEF there
  <2> QED BY <2>1, <2>2, SlotsDiffer
<1>2. i \in Nat
  BY NodeTypes DEF IsArgument, Children
<1> HIDE DEF there
<1>3. Max(there) = i
  BY <1>1, <1>2 DEF Max
<1> QED BY <1>1, <1>3 DEF InSlot, there

LEMMA InSlotIsArgument ==
  ASSUME Tree, NEW p \in Node, Kind(p) = "arguments", NEW slot, InSlot(p, slot) # None
  PROVE  IsArgument(p, InSlot(p, slot)) /\ Slot(InSlot(p, slot)) = slot
<1>1. PICK i \in Children(p) : Named(i) /\ Kind(i) # "comment" /\ Slot(i) = slot
  BY DEF InSlot
<1>2. IsArgument(p, i)
  BY <1>1, Zenon DEF IsArgument, Named, Comma
<1> QED BY <1>1, <1>2, InSlotIs

LEMMA MaxOf ==
  ASSUME NEW n \in Nat, NEW S \in SUBSET (1..n), S # {}
  PROVE  Max(S) \in S /\ \A y \in S : y <= Max(S)
<1> DEFINE D == {n - x : x \in S}
<1>1. D \in SUBSET Nat /\ D # {}
  <2>1. \A x \in S : n - x \in Nat
    OBVIOUS
  <2> QED BY <2>1
<1>2. PICK d \in D : \A e \in D : d <= e
  BY <1>1, LeastOf
<1>3. PICK x \in S : d = n - x
  BY <1>2
<1>4. \A y \in S : x >= y
  <2> SUFFICES ASSUME NEW y \in S PROVE x >= y
    OBVIOUS
  <2>1. d <= n - y
    BY <1>2
  <2> QED BY <1>3, <2>1
<1>5. Max(S) \in S /\ \A y \in S : Max(S) >= y
  BY <1>4 DEF Max
<1> QED BY <1>5

LEMMA InSlotIsChild ==
  ASSUME Tree, NEW p, NEW slot, InSlot(p, slot) # None
  PROVE  InSlot(p, slot) \in Children(p)
<1> DEFINE there == {j \in Children(p) : Named(j) /\ Kind(j) # "comment" /\ Slot(j) = slot}
<1>1. there # {} /\ InSlot(p, slot) = Max(there)
  BY Zenon DEF InSlot
<1>2. there \subseteq Children(p) /\ there \in SUBSET (1..Len(nodes)) /\ Len(nodes) \in Nat
  <2>1. Children(p) \subseteq 1..Len(nodes) /\ Len(nodes) \in Nat
    BY NodesOfTypes DEF Tree, Children, Node
  <2>2. there \subseteq Children(p)
    BY Zenon
  <2> HIDE DEF there
  <2> QED BY <2>1, <2>2
<1> HIDE DEF there
<1> QED BY <1>1, <1>2, MaxOf

(* The tables of completion and of the analysis, argument for argument.     *)
LEMMA TablesAgree ==
  ASSUME NEW f, NEW slot
  PROVE  /\ f \in DOMAIN CallKind /\ slot = 0 =>
              /\ CompletionAsksFor(f, slot) = CallKind[f]
              /\ CallKind[f] # "expression" /\ CallKind[f] # "filename"
         /\ f \in TakesFile /\ slot = 1 => CompletionAsksFor(f, slot) = "filename"
         /\ ~(f \in DOMAIN CallKind /\ slot = 0) =>
              CompletionAsksFor(f, slot) \in {"filename", "expression"}
<1> DEFINE asked == CompletionAsksFor(f, slot)
           first == f \in DOMAIN CompletionTargetKind /\ slot = 0
           second == f \in {"LM", "LS", "LB", "LA"} /\ slot = 1
<1>1. /\ first => asked = CompletionTargetKind[f]
      /\ ~first /\ second => asked = "filename"
      /\ ~first /\ ~second => asked = "expression"
  <2>1. ~(first /\ second)
    OBVIOUS
  <2> HIDE DEF first, second
  <2>2. asked = CASE first -> CompletionTargetKind[f] [] second -> "filename" [] OTHER -> "expression"
    BY DEF CompletionAsksFor, first, second
  <2> HIDE DEF asked
  <2> QED BY <2>1, <2>2
<1>2. DOMAIN CallKind = {"CALL", "GC", "LM", "LS", "LB", "LA", "LG"}
      /\ DOMAIN CompletionTargetKind = {"CALL", "GC", "LM", "LS", "LB", "LA", "LG"}
  BY DEF CallKind, CompletionTargetKind
<1>3. \A g \in {"CALL", "GC", "LM", "LS", "LB", "LA", "LG"} :
        CompletionTargetKind[g] = CallKind[g] /\ CallKind[g] # "expression" /\ CallKind[g] # "filename"
  BY DEF CallKind, CompletionTargetKind
<1>4. (second <=> f \in TakesFile /\ slot = 1) /\ (first <=> f \in DOMAIN CallKind /\ slot = 0)
  BY <1>2 DEF TakesFile
<1> HIDE DEF asked
<1>5. second => ~first
  OBVIOUS
<1> HIDE DEF first, second
<1> QED BY <1>1, <1>2, <1>3, <1>4, <1>5 DEF asked, first

-----------------------------------------------------------------------------
(* Nodes within nodes.                                                      *)
LEMMA AboveOf ==
  ASSUME Tree, NEW i \in Node
  PROVE  /\ Above(i) \subseteq Node /\ \A a \in Above(i) : a < i /\ a \in Nat \ {0}
         /\ i # 1 => Above(i) = Above(nodes[i].parent) \cup {nodes[i].parent}
         /\ i = 1 => Above(i) = {}
<1>1. DOMAIN nodes = 1..Len(nodes) /\ Len(nodes) \in Nat /\ i \in 1..Len(nodes)
  BY NodesOfTypes DEF Tree, Node
<1>2. Above(i) \subseteq 1..(i - 1)
  BY <1>1 DEF Tree, NestingOK
<1>3. Above(i) \subseteq Node /\ \A a \in Above(i) : a < i /\ a \in Nat \ {0}
  BY <1>1, <1>2 DEF Node
<1>4. i # 1 => Above(i) = Above(nodes[i].parent) \cup {nodes[i].parent}
  <2>1. i # 1 => i \in 2..Len(nodes)
    BY <1>1
  <2> QED BY <2>1 DEF Tree, NestingOK
<1>5. i = 1 => Above(i) = {}
  BY DEF Tree, NestingOK
<1> QED BY <1>3, <1>4, <1>5

LEMMA BetweenOf ==
  ASSUME Tree, NEW a \in Node, NEW b \in Node, NEW x \in Node, a < b, b < x, a \in Above(x)
  PROVE  a \in Above(b)
<1>1. a \in 1..Len(nodes) /\ b \in 1..Len(nodes) /\ x \in 1..Len(nodes)
  BY NodeTypes
<1> QED BY <1>1 DEF Tree, OrderOK

(* The first node of a set, if there is one.                                *)
LEMMA FirstOf ==
  ASSUME NEW S \in SUBSET Nat, 0 \notin S
  PROVE  /\ First(S) # None => First(S) \in S /\ \A i \in S : First(S) <= i
         /\ \A i \in S : (\A j \in S : i <= j) => First(S) = i
         /\ S # {} => First(S) # None
<1>1. ASSUME S # {} PROVE First(S) \in S /\ \A i \in S : First(S) <= i
  <2>1. PICK z \in S : \A j \in S : z <= j
    BY <1>1, LeastOf
  <2>2. First(S) = Min(S)
    BY <1>1 DEF First
  <2> QED BY <2>1, <2>2 DEF Min
<1>2. S = {} => First(S) = None
  BY DEF First
<1>3. ASSUME NEW i \in S, \A j \in S : i <= j PROVE First(S) = i
  <2>1. First(S) <= i /\ i <= First(S) /\ First(S) \in Nat
    BY <1>1, <1>3
  <2> QED BY <2>1
<1> QED BY <1>1, <1>2, <1>3 DEF None

LEMMA AboveIsTransitive ==
  ASSUME Tree, NEW x \in Node, NEW b \in Above(x), NEW a \in Above(b)
  PROVE  a \in Above(x)
<1> DEFINE S == {y \in Node : b \in Above(y) /\ a \notin Above(y)}
<1>1. ASSUME S # {} PROVE FALSE
  <2>1. S \in SUBSET Nat
    BY NodeTypes
  <2>2. PICK y \in S : \A j \in S : y <= j
    BY <1>1, <2>1, LeastOf
  <2> DEFINE p == nodes[y].parent
  <2>3. y # 1 /\ Above(y) = Above(p) \cup {p}
    BY <2>2, AboveOf
  <2>4. p \in Node /\ p < y /\ p \in Nat /\ y \in Nat
    <3>1. p \in Node /\ p < y
      BY <2>2, <2>3, NodeTypes
    <3> QED BY <2>1, <2>2, <3>1, NodeTypes
  <2> HIDE DEF p
  <2>5. p \notin S
    BY <2>2, <2>4
  <2> QED BY <2>2, <2>3, <2>4, <2>5
<1> QED BY <1>1

(* A node within another is one of its children or within one of them.      *)
LEMMA ChildUnder ==
  ASSUME Tree, NEW a \in Node, NEW x \in Node, a \in Above(x)
  PROVE  \E c \in Children(a) : (c = x \/ c \in Above(x)) /\ c <= x /\ a < c
<1> DEFINE Has(y) == \E c \in Children(a) : c = y \/ c \in Above(y)
           S == {y \in Node : a \in Above(y) /\ ~Has(y)}
<1>1. ASSUME S # {} PROVE FALSE
  <2>1. S \in SUBSET Nat
    BY NodeTypes
  <2>2. PICK y \in S : \A j \in S : y <= j
    BY <1>1, <2>1, LeastOf
  <2> DEFINE p == nodes[y].parent
  <2>3. y # 1 /\ Above(y) = Above(p) \cup {p}
    BY <2>2, AboveOf
  <2>4. p \in Node /\ p < y /\ p \in Nat /\ y \in Nat
    <3>1. p \in Node /\ p < y
      BY <2>2, <2>3, NodeTypes
    <3> QED BY <2>1, <2>2, <3>1, NodeTypes
  <2>6. p = a => y \in Children(a)
    BY <2>2 DEF Children
  <2> HIDE DEF p
  <2>5. p \notin S
    BY <2>2, <2>4
  <2>7. p # a
    BY <2>2, <2>6
  <2>8. Has(p)
    BY <2>2, <2>3, <2>4, <2>5, <2>7
  <2> QED BY <2>2, <2>3, <2>8
<1>2. PICK c \in Children(a) : c = x \/ c \in Above(x)
  BY <1>1
<1>3. c \in Node /\ c \in Nat /\ x \in Nat /\ nodes[c].parent = a /\ a \in Nat \ {0}
  BY NodeTypes DEF Children
<1>4. c <= x
  BY <1>2, <1>3, AboveOf
<1>5. a < c
  <2>1. c # 1
    BY <1>3, NodesOfTypes DEF Tree, NestingOK, None
  <2> QED BY <1>3, <2>1, NodeTypes
<1> QED BY <1>2, <1>4, <1>5

LEMMA ChildrenAre ==
  ASSUME Tree, NEW j \in Node, NEW c \in Children(j)
  PROVE  /\ c \in Node /\ c # 1 /\ nodes[c].parent = j /\ j < c
         /\ Above(c) = Above(j) \cup {j}
         /\ \E part \in Parts(Grammar[language], Kind(j)) :
              Kind(c) \in part.kinds /\ nodes[c].field = part.field
<1>1. c \in Node /\ nodes[c].parent = j /\ j \in Nat \ {0}
  BY NodeTypes DEF Children
<1>2. c # 1
  BY <1>1, NodesOfTypes DEF Tree, NestingOK, None
<1>3. j < c /\ Above(c) = Above(j) \cup {j}
  BY <1>1, <1>2, NodeTypes, AboveOf
<1>4. \E part \in Parts(Grammar[language], Kind(j)) :
              Kind(c) \in part.kinds /\ nodes[c].field = part.field
  BY <1>1, <1>2, PartOfParent
<1> QED BY <1>1, <1>2, <1>3, <1>4

LEMMA KindsAre ==
  ASSUME Tree, NEW j \in Node
  PROVE  /\ Kind(j) \in DOMAIN Grammar[language].rules /\ language \in DOMAIN Grammar
         /\ FieldsAreOf(Grammar[language]) /\ HeadersAreRecords(Grammar[language])
         /\ FilesAreDefinitions(Grammar[language]) /\ NothingIsInWords(Grammar[language])
<1>1. Kind(j) \in DOMAIN Grammar[language].rules /\ language \in DOMAIN Grammar
  BY NodeTypes DEF Kinds
<1> QED BY <1>1, GrammarAssumption DEF GrammarAssumption

Within(l) == Grammar[l].inner \cup {"declaration"}

LEMMA InnerOf ==
  ASSUME Tree, NEW j \in Node, NEW c \in Children(j), Kind(j) \in Within(language)
  PROVE  Kind(c) \in Grammar[language].inner
<1>1. PICK part \in Parts(Grammar[language], Kind(j)) : Kind(c) \in part.kinds
  BY ChildrenAre
<1>2. HeadersAreRecords(Grammar[language]) /\ Kind(j) \in DOMAIN Grammar[language].rules
  BY KindsAre
<1>3. part.kinds \subseteq Grammar[language].inner
  BY <1>1, <1>2, Zenon DEF HeadersAreRecords, Within
<1> QED BY <1>1, <1>3

LEMMA InnerUnder ==
  ASSUME Tree, NEW a \in Node, NEW x \in Node, a \in Above(x), Kind(a) \in Within(language)
  PROVE  Kind(x) \in Grammar[language].inner
<1> DEFINE S == {y \in Node : a \in Above(y) /\ Kind(y) \notin Grammar[language].inner}
<1>1. ASSUME S # {} PROVE FALSE
  <2>1. S \in SUBSET Nat
    BY NodeTypes
  <2>2. PICK y \in S : \A j \in S : y <= j
    BY <1>1, <2>1, LeastOf
  <2> DEFINE p == nodes[y].parent
  <2>3. y # 1 /\ Above(y) = Above(p) \cup {p}
    BY <2>2, AboveOf
  <2>4. p \in Node /\ p < y /\ p \in Nat /\ y \in Nat /\ y \in Children(p)
    <3>1. p \in Node /\ p < y
      BY <2>2, <2>3, NodeTypes
    <3>2. y \in Children(p)
      BY <2>2 DEF Children
    <3> QED BY <2>1, <2>2, <3>1, <3>2, NodeTypes
  <2> HIDE DEF p
  <2>5. p \notin S
    BY <2>2, <2>4
  <2>6. Kind(p) \in Within(language)
    BY <2>2, <2>3, <2>4, <2>5, Zenon DEF Within
  <2> QED BY <2>2, <2>4, <2>6, InnerOf
<1> QED BY <1>1

-----------------------------------------------------------------------------
(* The names of definitions and of symbols.                                 *)
Defined == Entity \cup {"declaration", "subprogram", "output_block"}

LEMMA KindsOfTables ==
  /\ DOMAIN DefinitionKind = Defined /\ DOMAIN SymbolKind = Defined \cup Event
  /\ Defined \cap Event = {}
  /\ \A kind \in Defined : SymbolKind[kind] = DefinitionKind[kind]
<1>1. DOMAIN DefinitionKind = Defined
  BY DEF DefinitionKind, Defined, Entity
<1>2. DOMAIN SymbolKind = Defined \cup Event
  BY DEF SymbolKind, Defined, Entity, Event
<1>3. Defined \cap Event = {}
  BY DEF Defined, Entity, Event
<1>4. \A kind \in Defined : SymbolKind[kind] = DefinitionKind[kind]
  BY DEF SymbolKind, DefinitionKind, Defined, Entity
<1> QED BY <1>1, <1>2, <1>3, <1>4

LEMMA HeaderIs ==
  ASSUME Tree, NEW i \in Node, Kind(i) \in Defined, NEW h \in Children(i), nodes[h].field = "header"
  PROVE  Kind(h) = "definition_header" /\ Kind(i) \in Entity
<1>1. PICK part \in Parts(Grammar[language], Kind(i)) :
        Kind(h) \in part.kinds /\ nodes[h].field = part.field
  BY ChildrenAre
<1>2. FieldsAreOf(Grammar[language]) /\ Kind(i) \in DOMAIN Grammar[language].rules
  BY KindsAre
<1>3. Kind(i) \in Event \/ (Kind(i) \in Entity /\ part.kinds = {"definition_header"})
  BY <1>1, <1>2, Zenon DEF FieldsAreOf
<1> QED BY <1>1, <1>3, KindsOfTables

Identifiers == {"identifier", "start_softkey_identifier", "softkey_identifier"}

Records == {"legacy_field_record", "property_record"}

(* In a header: a record, or a word that holds nothing and is no identifier.*)
LEMMA InHeader ==
  ASSUME Tree, NEW h \in Node, Kind(h) = "definition_header", NEW c \in Children(h)
  PROVE  Kind(c) \in Records \/ (Children(c) = {} /\ Kind(c) \notin Identifiers)
<1>1. PICK part \in Parts(Grammar[language], Kind(h)) : Kind(c) \in part.kinds
  BY ChildrenAre
<1>2. HeadersAreRecords(Grammar[language]) /\ Kind(h) \in DOMAIN Grammar[language].rules
  BY KindsAre
<1>3. \/ Kind(c) \in Records
      \/ Parts(Grammar[language], Kind(c)) = {} /\ Kind(c) \notin Identifiers
  BY <1>1, <1>2, Zenon DEF HeadersAreRecords, Records, Identifiers
<1>4. Parts(Grammar[language], Kind(c)) = {} => Children(c) = {}
  BY ChildrenAre
<1> QED BY <1>3, <1>4

LEMMA WordsHoldNothing ==
  ASSUME Tree, NEW j \in Node, Kind(j) = Comma \/ Kind(j) = "comment" \/ Kind(j) = "string"
  PROVE  Children(j) = {}
<1>1. NothingIsInWords(Grammar[language]) /\ Kind(j) \in DOMAIN Grammar[language].rules
  BY KindsAre
<1>2. Parts(Grammar[language], Kind(j)) = {}
  BY <1>1, Zenon DEF NothingIsInWords, Comma
<1> QED BY <1>2, ChildrenAre

(* What is in a header before its first record is no identifier.            *)
LEMMA BeforeRecords ==
  ASSUME Tree, NEW h \in Node, Kind(h) = "definition_header",
         NEW r \in Node, \A x \in Node : h \in Above(x) /\ Kind(x) \in Records => r <= x,
         NEW y \in Node, h \in Above(y), y < r
  PROVE  Kind(y) \notin Identifiers
<1>1. PICK c \in Children(h) : (c = y \/ c \in Above(y)) /\ c <= y
  BY ChildUnder
<1>2. c \in Node /\ h \in Above(c)
  BY ChildrenAre
<1>3. Kind(c) \notin Records
  <2>1. c \in Nat /\ r \in Nat /\ y \in Nat
    BY <1>2, NodeTypes
  <2> QED BY <1>1, <1>2, <2>1
<1>4. Children(c) = {} /\ Kind(c) \notin Identifiers
  BY <1>1, <1>3, InHeader
<1>5. c = y
  BY <1>1, <1>2, <1>4, ChildUnder
<1> QED BY <1>4, <1>5

(* The named children of a node.                                            *)
NamedChildren(j) == {k \in Children(j) : Kind(k) # Comma}

LEMMA NamedChildrenAre ==
  ASSUME Tree, NEW j \in Node
  PROVE  /\ NamedChildren(j) \in SUBSET Nat /\ 0 \notin NamedChildren(j)
         /\ {k \in Children(j) : Named(k)} = NamedChildren(j)
<1>1. \A k \in Children(j) : k \in Nat \ {0}
  BY NodeTypes DEF Children
<1> QED BY <1>1, Zenon DEF NamedChildren, Named, Comma

(* Before the first named child of a node there are only commas in it.      *)
LEMMA BeforeNamed ==
  ASSUME Tree, NEW j \in Node, NEW f \in Node, \A k \in NamedChildren(j) : f <= k,
         NEW y \in Node, j \in Above(y), y < f
  PROVE  Kind(y) = Comma
<1>1. PICK c \in Children(j) : (c = y \/ c \in Above(y)) /\ c <= y
  BY ChildUnder
<1>2. c \in Node /\ c \in Nat /\ f \in Nat /\ y \in Nat
  BY ChildrenAre, NodeTypes
<1>3. c \notin NamedChildren(j)
  BY <1>1, <1>2
<1>4. Kind(c) = Comma
  BY <1>1, <1>3 DEF NamedChildren
<1>5. c = y
  BY <1>1, <1>2, <1>4, WordsHoldNothing, ChildUnder
<1> QED BY <1>4, <1>5

LEMMA FirstDescendantIs ==
  ASSUME Tree, NEW h \in Node, NEW kinds
  PROVE  LET d == FirstDescendant(h, kinds) IN
         /\ d # None => /\ d \in Node /\ h \in Above(d) \cup {d} /\ Kind(d) \in kinds
                        /\ \A x \in Node : h \in Above(x) /\ Kind(x) \in kinds => d <= x
         /\ \A i \in Node :
              /\ h \in Above(i) /\ Kind(i) \in kinds /\ Kind(h) \notin kinds
              /\ \A x \in Node : h \in Above(x) /\ Kind(x) \in kinds => i <= x
              => d = i
<1> DEFINE S == {j \in Node : h \in Above(j) \cup {j} /\ Kind(j) \in kinds}
<1>1. FirstDescendant(h, kinds) = First(S)
  BY DEF FirstDescendant
<1>2. S \in SUBSET Nat /\ 0 \notin S
  BY NodeTypes
<1>3. \A x \in S : x \in Node /\ h \in Above(x) \cup {x} /\ Kind(x) \in kinds
  OBVIOUS
<1>4. \A x \in Node : h \in Above(x) /\ Kind(x) \in kinds => x \in S
  OBVIOUS
<1>5. ASSUME NEW x \in S, Kind(h) \notin kinds PROVE h \in Above(x)
  BY <1>3, <1>5
<1> HIDE DEF S
<1>6. ASSUME First(S) # None
      PROVE  /\ First(S) \in Node /\ h \in Above(First(S)) \cup {First(S)} /\ Kind(First(S)) \in kinds
             /\ \A x \in Node : h \in Above(x) /\ Kind(x) \in kinds => First(S) <= x
  BY <1>2, <1>3, <1>4, <1>6, FirstOf
<1>7. ASSUME NEW i \in Node, h \in Above(i), Kind(i) \in kinds, Kind(h) \notin kinds,
             \A x \in Node : h \in Above(x) /\ Kind(x) \in kinds => i <= x
      PROVE  First(S) = i
  <2>1. i \in S /\ \A x \in S : i <= x
    BY <1>3, <1>4, <1>5, <1>7
  <2> QED BY <1>2, <2>1, FirstOf
<1> QED BY <1>1, <1>6, <1>7

IsFirstNamed(j, f) == f \in NamedChildren(j) /\ \A k \in NamedChildren(j) : f <= k

LEMMA NameInRecordIs ==
  ASSUME Tree, NEW r \in Node, Kind(NameInRecord(r)) = "identifier"
  PROVE  \/ IsFirstNamed(r, NameInRecord(r))
         \/ \E first : /\ IsFirstNamed(r, first) /\ Kind(first) = "legacy_field"
                       /\ IsFirstNamed(first, NameInRecord(r))
<1> DEFINE f == NameInRecord(r)
           first == First(NamedChildren(r))
           parts == NamedChildren(first)
<1>1. {j \in Children(r) : Named(j)} = NamedChildren(r)
  BY NamedChildrenAre
<1>2. {j \in Children(first) : Named(j)} = parts
  BY Zenon DEF NamedChildren, Named, Comma
<1>3. /\ Kind(first) = "identifier" => f = first
      /\ Kind(first) # "identifier" =>
           \/ Kind(first) = "legacy_field" /\ Cardinality(parts) = 1 /\ f = Min(parts)
           \/ f = None
  <2> HIDE DEF parts, first
  <2> QED BY <1>1, <1>2, "identifier" # "legacy_field" DEF NameInRecord, first
<1>4. Kind(None) # "identifier"
  BY Zenon DEF Kind, None
<1>5. first # None => IsFirstNamed(r, first)
  BY NamedChildrenAre, FirstOf DEF IsFirstNamed
<1>6. CASE Kind(first) = "identifier"
  BY <1>3, <1>4, <1>5, <1>6
<1>7. CASE Kind(first) # "identifier"
  <2>1. Kind(first) = "legacy_field" /\ Cardinality(parts) = 1 /\ f = Min(parts)
    BY <1>3, <1>4, <1>7
  <2>2. Kind(None) # "legacy_field"
    BY Zenon DEF Kind, None
  <2>3. IsFirstNamed(r, first)
    BY <1>5, <2>1, <2>2
  <2>4. first \in Node
    BY <2>3 DEF IsFirstNamed, NamedChildren, Children
  <2>5. parts # {}
    BY <2>1, FS_EmptySet
  <2>6. parts \in SUBSET Nat /\ 0 \notin parts
    BY <2>4, NamedChildrenAre
  <2> HIDE DEF parts, first
  <2>7. First(parts) = Min(parts)
    BY <2>5 DEF First
  <2>8. f \in parts /\ \A k \in parts : f <= k
    BY <2>1, <2>5, <2>6, <2>7, FirstOf
  <2>9. IsFirstNamed(first, f)
    BY <2>8 DEF IsFirstNamed, parts
  <2> QED BY <2>1, <2>3, <2>9
<1> QED BY <1>6, <1>7

(* The name of a record is the first identifier of the header it is in.     *)
LEMMA NameInHeader ==
  ASSUME Tree, NEW h \in Node, Kind(h) = "definition_header",
         NEW r \in Node, r = FirstDescendant(h, Records), Kind(NameInRecord(r)) = "identifier"
  PROVE  LET f == NameInRecord(r) IN
         /\ f \in Node /\ h \in Above(f) /\ FirstDescendant(h, Identifiers) = f
         /\ nodes[f].parent \in Node
         /\ Kind(nodes[f].parent) \in Records \cup {"legacy_field"}
<1> DEFINE f == NameInRecord(r)
<1>1. /\ h \in Above(r) \cup {r} /\ Kind(r) \in Records
      /\ \A x \in Node : h \in Above(x) /\ Kind(x) \in Records => r <= x
  <2>1. r # None
    BY NodeTypes DEF None
  <2> QED BY <2>1, FirstDescendantIs
<1>2. Kind(h) \notin Identifiers /\ Kind(h) \notin Records
  BY DEF Identifiers, Records
<1>3. h \in Above(r)
  BY <1>1, <1>2
<1>4. Kind(f) \in Identifiers /\ Kind(r) \notin Identifiers /\ Comma \notin Identifiers
  <2>1. Kind(f) \in Identifiers /\ Kind(r) \notin Identifiers
    BY <1>1 DEF Identifiers, Records
  <2>2. Comma \notin Identifiers
    BY Zenon DEF Comma, Identifiers
  <2> QED BY <2>1, <2>2
<1>5. \A y \in Node : h \in Above(y) /\ y < r => Kind(y) \notin Identifiers
  BY <1>1, BeforeRecords
<1>6. CASE IsFirstNamed(r, f)
  <2>1. f \in Children(r) /\ \A k \in NamedChildren(r) : f <= k
    BY <1>6 DEF IsFirstNamed, NamedChildren
  <2>2. f \in Node /\ nodes[f].parent = r /\ Above(f) = Above(r) \cup {r}
    BY <2>1, ChildrenAre
  <2>3. ASSUME NEW y \in Node, h \in Above(y), Kind(y) \in Identifiers, y < f PROVE FALSE
    <3>1. y \in Nat /\ r \in Nat /\ ~(y < r) /\ y # r
      BY <1>4, <1>5, <2>3, NodeTypes
    <3>3. r < y /\ r \in Above(f)
      BY <2>2, <3>1
    <3>2. r \in Above(y)
      BY <2>2, <2>3, <3>3, BetweenOf
    <3> QED BY <1>4, <2>1, <2>2, <2>3, <3>2, BeforeNamed
  <2>4. \A x \in Node : h \in Above(x) /\ Kind(x) \in Identifiers => f <= x
    BY <2>2, <2>3, NodeTypes
  <2> QED BY <1>1, <1>2, <1>3, <1>4, <2>2, <2>4, FirstDescendantIs
<1>7. ASSUME NEW first, IsFirstNamed(r, first), Kind(first) = "legacy_field", IsFirstNamed(first, f)
      PROVE  /\ f \in Node /\ h \in Above(f) /\ FirstDescendant(h, Identifiers) = f
             /\ nodes[f].parent \in Node /\ Kind(nodes[f].parent) = "legacy_field"
  <2>1. first \in Children(r) /\ \A k \in NamedChildren(r) : first <= k
    BY <1>7 DEF IsFirstNamed, NamedChildren
  <2>2. /\ first \in Node /\ nodes[first].parent = r /\ Above(first) = Above(r) \cup {r}
        /\ r < first /\ Kind(first) \notin Identifiers
    BY <1>7, <2>1, ChildrenAre DEF Identifiers
  <2>3. f \in Children(first) /\ \A k \in NamedChildren(first) : f <= k
    BY <1>7 DEF IsFirstNamed, NamedChildren
  <2>4. f \in Node /\ nodes[f].parent = first /\ Above(f) = Above(first) \cup {first}
    BY <2>2, <2>3, ChildrenAre
  <2>5. ASSUME NEW y \in Node, h \in Above(y), Kind(y) \in Identifiers, y < f PROVE FALSE
    <3>1. y \in Nat /\ r \in Nat /\ first \in Nat /\ ~(y < r) /\ y # r /\ y # first
      BY <1>4, <1>5, <2>2, <2>5, NodeTypes
    <3>2. CASE y < first
      <4>1. r \in Above(y)
        BY <2>2, <3>1, <3>2, BetweenOf
      <4> QED BY <1>4, <2>1, <2>2, <2>5, <3>2, <4>1, BeforeNamed
    <3>3. CASE first < y
      <4>1. first \in Above(y)
        BY <2>2, <2>4, <2>5, <3>3, BetweenOf
      <4> QED BY <1>4, <2>2, <2>3, <2>4, <2>5, <4>1, BeforeNamed
    <3> QED BY <3>1, <3>2, <3>3
  <2>6. \A x \in Node : h \in Above(x) /\ Kind(x) \in Identifiers => f <= x
    BY <2>4, <2>5, NodeTypes
  <2> QED BY <1>2, <1>3, <1>4, <1>7, <2>2, <2>4, <2>6, FirstDescendantIs
<1> QED BY <1>6, <1>7, NameInRecordIs

(* Where the name of a definition is.                                       *)
NamedByField(i, d) ==
  d \in Children(i) /\ nodes[d].field = "name" /\ d = Field(i, "name") /\ Kind(i) \notin Entity

NamedByHeader(i, d) ==
  LET h == Field(i, "header") IN
    /\ Field(i, "name") = None /\ h # None /\ h \in Children(i) /\ nodes[h].field = "header"
    /\ Kind(h) = "definition_header" /\ Kind(i) \in Entity
    /\ d \in Node /\ h \in Above(d) /\ d = FirstDescendant(h, Identifiers)
    /\ nodes[d].parent \in Node /\ Kind(nodes[d].parent) \in Records \cup {"legacy_field"}

LEMMA NamesAreOf ==
  ASSUME Tree, NEW i \in Node, Kind(i) \in Defined, NEW d \in Children(i), nodes[d].field = "name"
  PROVE  Kind(i) \notin Entity
<1>1. PICK part \in Parts(Grammar[language], Kind(i)) : nodes[d].field = part.field
  BY ChildrenAre
<1>2. FieldsAreOf(Grammar[language]) /\ Kind(i) \in DOMAIN Grammar[language].rules
  BY KindsAre
<1>3. Kind(i) \in {"declaration", "subprogram", "output_block", "property_assignment"}
  BY <1>1, <1>2, Zenon DEF FieldsAreOf
<1> QED BY <1>3 DEF Entity

LEMMA DefinitionsAreNamed ==
  ASSUME Tree, NEW i \in Node, IsDefinition(i)
  PROVE  LET d == DefinitionSelection(i) IN
         /\ Kind(i) \in Defined /\ Kind(d) = "identifier"
         /\ NamedByField(i, d) \/ NamedByHeader(i, d)
<1> DEFINE d == DefinitionSelection(i)
           name == Field(i, "name")
           h == Field(i, "header")
           record == IF h = None THEN None ELSE FirstDescendant(h, Records)
<1>1. Kind(i) \in Defined /\ Kind(d) = "identifier"
  BY KindsOfTables DEF IsDefinition
<1>2. d = (CASE name # None -> name
             [] name = None /\ record # None -> NameInRecord(record)
             [] OTHER -> None)
  BY DEF DefinitionSelection, Records
<1>3. Kind(None) # "identifier"
  BY Zenon DEF Kind, None
<1> HIDE DEF d
<1>4. CASE name # None
  <2>1. name \in Children(i) /\ nodes[name].field = "name" /\ d = name
    BY <1>2, <1>4, FieldIsChild DEF AskedFields
  <2>2. NamedByField(i, d)
    BY <1>1, <2>1, NamesAreOf DEF NamedByField
  <2> QED BY <1>1, <2>2 DEF d
<1>5. CASE name = None
  <2>1. record # None /\ d = NameInRecord(record)
    BY <1>1, <1>2, <1>3, <1>5
  <2>2. h # None /\ record = FirstDescendant(h, Records)
    BY <2>1
  <2>3. h \in Children(i) /\ nodes[h].field = "header"
    BY <2>2, FieldIsChild DEF AskedFields
  <2>4. h \in Node /\ Kind(h) = "definition_header" /\ Kind(i) \in Entity
    BY <1>1, <2>3, HeaderIs, ChildrenAre
  <2> HIDE DEF h
  <2>5. FirstDescendant(h, Records) \in Node
    BY <2>1, <2>2, <2>4, FirstDescendantIs
  <2> HIDE DEF record
  <2>6. /\ d \in Node /\ h \in Above(d) /\ d = FirstDescendant(h, Identifiers)
        /\ nodes[d].parent \in Node /\ Kind(nodes[d].parent) \in Records \cup {"legacy_field"}
    BY <1>1, <2>1, <2>2, <2>4, <2>5, NameInHeader
  <2>7. NamedByHeader(i, d)
    BY <1>5, <2>2, <2>3, <2>4, <2>6 DEF NamedByHeader, h
  <2> QED BY <1>1, <2>7 DEF d
<1> QED BY <1>4, <1>5

LEMMA SymbolSelectionIs ==
  ASSUME NEW i
  PROVE  LET name == Field(i, "name")
             h == Field(i, "header")
             d == IF h = None THEN None ELSE FirstDescendant(h, Identifiers)
         IN /\ name # None => SymbolSelection(i) = name
            /\ name = None /\ h = None => SymbolSelection(i) = i
            /\ name = None /\ h # None /\ (Kind(i) \in Event \/ d = None) => SymbolSelection(i) = h
            /\ name = None /\ h # None /\ Kind(i) \notin Event /\ d # None => SymbolSelection(i) = d
<1> DEFINE name == Field(i, "name")
           h == Field(i, "header")
           d == IF h = None THEN None ELSE FirstDescendant(h, Identifiers)
<1>1. SymbolSelection(i) =
        (CASE name # None -> name
           [] name = None /\ h = None -> i
           [] name = None /\ h # None /\ (Kind(i) \in Event \/ d = None) -> h
           [] OTHER -> d)
  BY DEF SymbolSelection, Identifiers
<1> HIDE DEF name, h, d
<1>2. /\ name # None => SymbolSelection(i) = name
      /\ name = None /\ h = None => SymbolSelection(i) = i
      /\ name = None /\ h # None /\ (Kind(i) \in Event \/ d = None) => SymbolSelection(i) = h
      /\ name = None /\ h # None /\ Kind(i) \notin Event /\ d # None => SymbolSelection(i) = d
  BY <1>1
<1> QED BY <1>2 DEF name, h, d

(* Both searches for the name of a definition find it.                      *)
LEMMA SelectionsAgree ==
  ASSUME Tree, NEW i \in Node, IsDefinition(i)
  PROVE  SymbolSelection(i) = DefinitionSelection(i)
<1> DEFINE d == DefinitionSelection(i)
<1>1. /\ Kind(i) \in Defined /\ Kind(d) = "identifier"
      /\ NamedByField(i, d) \/ NamedByHeader(i, d)
  BY DefinitionsAreNamed
<1>2. d # None /\ Kind(i) \notin Event
  <2>1. Kind(None) # "identifier"
    BY Zenon DEF Kind, None
  <2> QED BY <1>1, <2>1, KindsOfTables
<1>3. CASE NamedByField(i, d)
  BY <1>2, <1>3, SymbolSelectionIs DEF NamedByField
<1>4. CASE NamedByHeader(i, d)
  BY <1>2, <1>4, SymbolSelectionIs DEF NamedByHeader
<1> QED BY <1>1, <1>3, <1>4

LEMMA SelectionsAreInside ==
  ASSUME Tree, NEW i \in Node
  PROVE  i \in Above(SymbolSelection(i)) \cup {SymbolSelection(i)}
<1> DEFINE name == Field(i, "name")
           h == Field(i, "header")
           d == FirstDescendant(h, Identifiers)
<1>1. name # None => i \in Above(name)
  BY FieldIsChild, ChildrenAre DEF AskedFields
<1>2. h # None => h \in Node /\ i \in Above(h)
  BY FieldIsChild, ChildrenAre DEF AskedFields
<1>3. h # None /\ d # None => i \in Above(d)
  <2> SUFFICES ASSUME h # None, d # None PROVE i \in Above(d)
    OBVIOUS
  <2>1. d \in Node /\ h \in Above(d) \cup {d}
    BY <1>2, FirstDescendantIs
  <2> QED BY <1>2, <2>1, AboveIsTransitive
<1> QED BY <1>1, <1>2, <1>3, SymbolSelectionIs

SymbolsAbove(i) == {j \in Above(i) : IsSymbol(j)}

(* The symbols around a definition are its scope: it is in no declaration.  *)
LEMMA ScopesAreSymbols ==
  ASSUME Tree, NEW i \in Node, Kind(i) \in Defined
  PROVE  SymbolsAbove(i) = Scope(i)
<1>1. \A j \in Above(i) : Kind(j) # "declaration"
  <2> SUFFICES ASSUME NEW j \in Above(i), Kind(j) = "declaration" PROVE FALSE
    OBVIOUS
  <2>1. j \in Node
    BY AboveOf
  <2>2. Kind(i) \in Grammar[language].inner
    BY <2>1, InnerUnder DEF Within
  <2>3. HeadersAreRecords(Grammar[language])
    BY KindsAre
  <2>4. Kind(i) \notin Defined
    BY <2>2, <2>3, KindsOfTables, Zenon DEF HeadersAreRecords
  <2> QED BY <2>4
<1>2. \A kind : kind # "declaration" =>
        (kind \in DOMAIN SymbolKind <=> IsSemanticScope(kind))
  BY KindsOfTables DEF Defined, IsSemanticScope
<1> QED BY <1>1, <1>2 DEF SymbolsAbove, Scope, IsSymbol

LEMMA OutlineIsComplete ==
  ASSUME Tree
  PROVE  OutlineShowsDefinitions
<1> DEFINE Parent(i) == IF SymbolsAbove(i) = {} THEN None ELSE Max(SymbolsAbove(i))
           Symbol(i) == [node |-> i, kind |-> SymbolKind[Kind(i)],
                         selection |-> SymbolSelection(i), parent |-> Parent(i)]
<1>1. Symbols = {Symbol(i) : i \in {j \in Node : IsSymbol(j)}}
  BY DEF Symbols, SymbolsAbove
<1>2. ASSUME NEW i \in Node, IsDefinition(i)
      PROVE  [node |-> i, kind |-> DefinitionKind[Kind(i)], selection |-> DefinitionSelection(i),
              parent |-> IF Scope(i) = {} THEN None ELSE Max(Scope(i))] \in Symbols
  <2>1. Kind(i) \in Defined /\ IsSymbol(i)
    BY <1>2, KindsOfTables DEF IsDefinition, IsSymbol
  <2>2. SymbolKind[Kind(i)] = DefinitionKind[Kind(i)]
    BY <2>1, KindsOfTables
  <2>3. SymbolSelection(i) = DefinitionSelection(i) /\ SymbolsAbove(i) = Scope(i)
    BY <1>2, <2>1, SelectionsAgree, ScopesAreSymbols
  <2>4. Symbol(i) \in Symbols
    BY <1>1, <2>1
  <2> QED BY <2>2, <2>3, <2>4
<1>3. ASSUME NEW i \in Node
      PROVE  /\ Parent(i) \in Above(i) \cup {None}
             /\ i \in Above(SymbolSelection(i)) \cup {SymbolSelection(i)}
  <2>1. SymbolsAbove(i) \in SUBSET (1..Len(nodes)) /\ Len(nodes) \in Nat
    BY AboveOf, NodesOfTypes DEF Tree, SymbolsAbove, Node
  <2>2. SymbolsAbove(i) # {} => Max(SymbolsAbove(i)) \in SymbolsAbove(i)
    BY <2>1, MaxOf
  <2>3. Parent(i) \in Above(i) \cup {None}
    BY <2>2 DEF SymbolsAbove
  <2> QED BY <2>3, SelectionsAreInside
<1> HIDE DEF Parent
<1>4. \A d \in Definitions :
         [node |-> d.node, kind |-> d.kind, selection |-> d.selection,
          parent |-> IF d.scope = {} THEN None ELSE Max(d.scope)] \in Symbols
  BY <1>2 DEF Definitions
<1>5. \A s \in Symbols : /\ s.parent \in Above(s.node) \cup {None}
                         /\ s.node \in Above(s.selection) \cup {s.selection}
  BY <1>1, <1>3
<1> QED BY <1>4, <1>5 DEF OutlineShowsDefinitions

(* Every definition is in the outline, as a symbol of its kind and with its *)
(* name, a child of the symbol that is its innermost scope, however long    *)
(* headers are (analyzer.go, lowerSymbol, lowerDefinition and               *)
(* symbolSelection).                                                        *)
THEOREM DefinitionsAreOutlined == Spec => []OutlineShowsDefinitions
<1>1. Tree => OutlineShowsDefinitions
  BY OutlineIsComplete
<1> QED BY <1>1, TreesAreAsWritten, PTL

-----------------------------------------------------------------------------
(* Where identifiers are variables: by the node around a node.              *)
Permits(f, j) ==
  /\ nodes[j].parent # None
  /\ f[nodes[j].parent] \/ ContainsExecutableExpressions(Kind(nodes[j].parent))
  /\ ~Suppresses(nodes[j].parent, j)

IsAllowance(N, f) == f = [j \in N |-> Permits(f, j)]

LEMMA AllowanceGrows ==
  ASSUME Tree, NEW m \in Nat, m + 1 <= Len(nodes), NEW g, IsAllowance(1..m, g)
  PROVE  \E h : IsAllowance(1..(m + 1), h)
<1> DEFINE h == [j \in 1..(m + 1) |-> IF j = m + 1 THEN Permits(g, j) ELSE g[j]]
<1>1. \A j \in 1..m : g[j] = Permits(g, j)
  BY Zenon DEF IsAllowance
<1>2. \A j \in 1..m : j \in 1..(m + 1) /\ h[j] = g[j]
  OBVIOUS
<1>3. h[m + 1] = Permits(g, m + 1) /\ m + 1 \in 1..(m + 1)
  OBVIOUS
<1>4. \A j \in 1..(m + 1) : j \in 1..m \/ j = m + 1
  OBVIOUS
<1>5. h = [j \in 1..(m + 1) |-> h[j]]
  OBVIOUS
<1> HIDE DEF h
<1>6. ASSUME NEW j \in 1..(m + 1) PROVE Permits(h, j) = Permits(g, j)
  <2> DEFINE p == nodes[j].parent
  <2>1. p = None \/ p \in 1..m
    <3>1. Len(nodes) \in Nat
      BY NodesOfTypes DEF Tree
    <3>2. j = 1 \/ j \in 2..Len(nodes)
      BY <3>1
    <3>3. j # 1 => p \in 1..(j - 1)
      BY <3>2 DEF Tree, NestingOK
    <3>4. j = 1 => p = None
      BY DEF Tree, NestingOK
    <3>5. \A x \in 1..(j - 1) : x \in 1..m
      OBVIOUS
    <3> QED BY <3>3, <3>4, <3>5
  <2>2. CASE p = None
    BY <2>2, Zenon DEF Permits
  <2>3. CASE p \in 1..m
    <3>1. h[p] = g[p]
      BY <1>2, <2>3
    <3> QED BY <3>1, Zenon DEF Permits
  <2> QED BY <2>1, <2>2, <2>3
<1>7. ASSUME NEW j \in 1..(m + 1) PROVE h[j] = Permits(h, j)
  <2>1. CASE j \in 1..m
    BY <1>1, <1>2, <1>6, <2>1, Zenon
  <2>2. CASE j = m + 1
    BY <1>3, <1>6, <2>2, Zenon
  <2> QED BY <1>4, <2>1, <2>2
<1>8. IsAllowance(1..(m + 1), h)
  BY <1>5, <1>7, Zenon DEF IsAllowance
<1> QED BY <1>8

LEMMA AllowanceExists ==
  ASSUME Tree, NEW n \in Nat, n <= Len(nodes)
  PROVE  \E f : IsAllowance(1..n, f)
<1> DEFINE S == {m \in Nat : m <= Len(nodes) /\ ~(\E f : IsAllowance(1..m, f))}
<1>1. ASSUME S # {} PROVE FALSE
  <2>1. PICK m \in S : \A k \in S : m <= k
    BY <1>1, LeastOf
  <2>2. m # 0
    <3> DEFINE f == [j \in 1..0 |-> 0]
    <3>1. \A j \in 1..0 : FALSE
      OBVIOUS
    <3>2. f = [j \in 1..0 |-> Permits(f, j)]
      BY <3>1
    <3>3. IsAllowance(1..0, f)
      BY <3>2, Zenon DEF IsAllowance
    <3> QED BY <2>1, <3>3
  <2>3. m - 1 \in Nat /\ (m - 1) + 1 = m /\ m <= Len(nodes) /\ m \in Nat
        /\ m - 1 <= Len(nodes) /\ ~(m <= m - 1)
    BY <2>1, <2>2, NodesOfTypes DEF Tree
  <2>4. \E g : IsAllowance(1..(m - 1), g)
    BY <2>1, <2>3
  <2>5. \E f : IsAllowance(1..m, f)
    BY <2>3, <2>4, AllowanceGrows
  <2> QED BY <2>1, <2>5
<1> QED BY <1>1

LEMMA AllowsStep ==
  ASSUME Tree, NEW i \in Node
  PROVE  LET p == nodes[i].parent IN
         AllowsVariables(i) <=>
           /\ i # 1
           /\ AllowsVariables(p) \/ ContainsExecutableExpressions(Kind(p))
           /\ ~Suppresses(p, i)
<1> DEFINE f == CHOOSE g : IsAllowance(Node, g)
           p == nodes[i].parent
<1>1. IsAllowance(Node, f)
  <2>1. Node = 1..Len(nodes) /\ Len(nodes) \in Nat /\ Len(nodes) <= Len(nodes)
    BY NodesOfTypes DEF Tree, Node
  <2>2. \E g : IsAllowance(Node, g)
    BY <2>1, AllowanceExists
  <2> QED BY <2>2, Zenon
<1>2. \A j : AllowsVariables(j) = f[j]
  BY Zenon DEF AllowsVariables, IsAllowance, Permits
<1> HIDE DEF f
<1>3. f[i] = Permits(f, i)
  BY <1>1, Zenon DEF IsAllowance
<1>4. p # None <=> i # 1
  <2>1. i # 1 => p \in Nat \ {0}
    BY NodeTypes
  <2>2. i = 1 => p = None
    BY DEF Tree, NestingOK
  <2> QED BY <2>1, <2>2 DEF None
<1>5. Permits(f, i) <=>
           /\ p # None
           /\ f[p] \/ ContainsExecutableExpressions(Kind(p))
           /\ ~Suppresses(p, i)
  BY Zenon DEF Permits
<1>6. AllowsVariables(i) <=> Permits(f, i)
  BY <1>2, <1>3, Zenon
<1>7. AllowsVariables(p) <=> f[p]
  BY <1>2, Zenon
<1> QED BY <1>4, <1>5, <1>6, <1>7, Zenon

(* The fields of which the analyzer knows that they are no variables.       *)
Suppressing(kind, field) ==
  \/ kind \in Entity /\ field = "header"
  \/ kind \in {"declaration", "subprogram", "output_block", "property_assignment"} /\ field = "name"
  \/ kind = "call_expression" /\ field = "function"
  \/ kind = "member_expression" /\ field = "property"
  \/ kind = "index_expression" /\ field = "value"

LEMMA Suppressed ==
  ASSUME Tree, NEW p \in Node, NEW field, Suppressing(Kind(p), field),
         NEW i \in Children(p), i = Field(p, field)
  PROVE  ~AllowsVariables(i)
<1>1. i \in Node /\ nodes[i].parent = p
  BY ChildrenAre
<1>2. SameNode(i, Field(p, field))
  <2>1. i # None
    BY <1>1, NodeTypes DEF None
  <2>2. SameNode(i, i)
    BY <2>1 DEF SameNode
  <2> QED BY <2>2
<1>3. Suppresses(p, i)
  <2> DEFINE Same(name) == SameNode(i, Field(p, name))
             kind == Kind(p)
  <2>1. Same(field) /\ Suppressing(kind, field)
    BY <1>2
  <2>2. Suppresses(p, i) =
          (CASE kind \in Entity -> Same("header")
             [] kind \in {"declaration", "subprogram", "output_block"} ->
                  Same("name") \/ Kind(i) \in {"legacy_field_record", "property_record"}
             [] kind = "call_expression"     -> Same("function")
             [] kind = "member_expression"   -> Same("property")
             [] kind = "index_expression"    -> Same("value")
             [] kind = "property_assignment" -> Same("name")
             [] OTHER -> FALSE)
    BY DEF Suppresses
  <2>3. kind \in Entity => kind \notin {"declaration", "subprogram", "output_block", "call_expression",
                                        "member_expression", "index_expression", "property_assignment"}
    BY DEF Entity
  <2> HIDE DEF Same, kind
  <2>4. CASE kind \in Entity
    <3>1. field = "header"
      BY <2>1, <2>3, <2>4 DEF Suppressing
    <3> QED BY <2>1, <2>2, <2>3, <2>4, <3>1
  <2>5. CASE kind \notin Entity
    BY <2>1, <2>2, <2>5 DEF Suppressing
  <2> QED BY <2>4, <2>5
<1> QED BY <1>1, <1>3, AllowsStep

LEMMA HeadersHoldNoVariables ==
  ASSUME Tree, NEW i \in Node, Kind(i) \in Entity, NEW h \in Children(i),
         nodes[h].field = "header", NEW x \in Node, h \in Above(x)
  PROVE  ~AllowsVariables(x)
<1>1. Kind(h) = "definition_header" /\ h \in Node
  BY HeaderIs, ChildrenAre DEF Defined
<1>2. ~AllowsVariables(h)
  <2>1. h = Field(i, "header")
    BY FieldIs DEF AskedFields
  <2> QED BY <2>1, Suppressed DEF Suppressing
<1>3. /\ Kind(h) \in Grammar[language].inner
      /\ \A kind \in Grammar[language].inner : ~ContainsExecutableExpressions(kind)
  <2>1. HeadersAreRecords(Grammar[language])
    BY <1>1, KindsAre
  <2> QED BY <1>1, <2>1, Zenon DEF HeadersAreRecords
<1> DEFINE S == {y \in Node : h \in Above(y) /\ AllowsVariables(y)}
<1>4. ASSUME S # {} PROVE FALSE
  <2>1. S \in SUBSET Nat
    BY NodeTypes
  <2>2. PICK y \in S : \A j \in S : y <= j
    BY <1>4, <2>1, LeastOf
  <2> DEFINE p == nodes[y].parent
  <2>3. y # 1 /\ Above(y) = Above(p) \cup {p}
    BY <2>2, AboveOf
  <2>4. p \in Node /\ p < y /\ p \in Nat /\ y \in Nat
    <3>1. p \in Node /\ p < y
      BY <2>2, <2>3, NodeTypes
    <3> QED BY <2>1, <2>2, <3>1, NodeTypes
  <2>5. AllowsVariables(p) \/ ContainsExecutableExpressions(Kind(p))
    BY <2>2, AllowsStep
  <2> HIDE DEF p
  <2>6. p \notin S
    BY <2>2, <2>4
  <2>7. h = p \/ h \in Above(p)
    BY <2>2, <2>3
  <2>8. Kind(p) \in Grammar[language].inner
    BY <1>1, <1>3, <2>4, <2>7, InnerUnder DEF Within
  <2>9. ~AllowsVariables(p)
    BY <1>2, <2>4, <2>6, <2>7
  <2> QED BY <1>3, <2>5, <2>8, <2>9
<1> QED BY <1>4

-----------------------------------------------------------------------------
(* What is referred to, by what it is in the tree.                          *)
IsVariable(x) == x \in Node /\ Kind(x) = "identifier" /\ AllowsVariables(x)

IsIndexed(x) ==
  LET p == nodes[x].parent IN
    /\ x \in Node /\ Kind(x) = "identifier" /\ p \in Node /\ Kind(p) = "index_expression"
    /\ x \in Children(p) /\ nodes[x].field = "value" /\ x = Field(p, "value")

IsArgumentOf(x, call, slot) ==
  LET a == nodes[x].parent IN
    /\ x \in Node /\ Kind(x) = "string" /\ x \in Children(a)
    /\ a \in Node /\ Kind(a) = "arguments" /\ nodes[a].parent = call
    /\ x = InSlot(a, slot) /\ Slot(x) = slot

LEMMA IndexedAre ==
  ASSUME Tree, NEW k \in Node, Kind(k) = "index_expression", Kind(Field(k, "value")) = "identifier"
  PROVE  IsIndexed(Field(k, "value")) /\ nodes[Field(k, "value")].parent = k
<1> DEFINE S == {j \in Children(k) : nodes[j].field = "value"}
           x == Field(k, "value")
<1>1. S \in SUBSET Nat /\ 0 \notin S
  BY NodeTypes DEF Children
<1>2. x # None
  BY Zenon DEF Kind, None
<1>3. x = First(S)
  BY DEF Field
<1> HIDE DEF S
<1>4. x \in S
  BY <1>1, <1>2, <1>3, FirstOf
<1>5. x \in Children(k) /\ nodes[x].field = "value"
  BY <1>4 DEF S
<1> HIDE DEF x
<1>6. x \in Node /\ nodes[x].parent = k
  BY <1>5, ChildrenAre
<1> QED BY <1>5, <1>6 DEF IsIndexed, x

LEMMA ArgumentsAre ==
  ASSUME Tree, NEW call \in Node, Field(call, "arguments") # None, NEW slot,
         IsDecoded(InSlot(Field(call, "arguments"), slot))
  PROVE  IsArgumentOf(InSlot(Field(call, "arguments"), slot), call, slot)
<1> DEFINE a == Field(call, "arguments")
           x == InSlot(a, slot)
<1>1. a \in Children(call) /\ nodes[a].field = "arguments"
  BY FieldIsChild DEF AskedFields
<1>2. a \in Node /\ nodes[a].parent = call
  BY <1>1, ChildrenAre
<1>3. Kind(a) = "arguments"
  <2>1. PICK part \in Parts(Grammar[language], Kind(call)) :
          Kind(a) \in part.kinds /\ nodes[a].field = part.field
    BY <1>1, ChildrenAre
  <2>2. FieldsAreOf(Grammar[language]) /\ Kind(call) \in DOMAIN Grammar[language].rules
    BY KindsAre
  <2>3. part.kinds = {"arguments"}
    BY <1>1, <2>1, <2>2, Zenon DEF FieldsAreOf
  <2> QED BY <2>1, <2>3
<1>4. x # None /\ Kind(x) = "string"
  <2>1. Kind(x) = "string"
    BY DEF IsDecoded
  <2>2. Kind(None) # "string"
    BY Zenon DEF Kind, None
  <2> QED BY <2>1, <2>2
<1> HIDE DEF a
<1>5. IsArgument(a, x) /\ Slot(x) = slot
  BY <1>2, <1>3, <1>4, InSlotIsArgument
<1>6. x \in Children(a)
  BY <1>5 DEF IsArgument
<1>7. x \in Node /\ nodes[x].parent = a
  BY <1>2, <1>6, ChildrenAre
<1> HIDE DEF x
<1>8. IsArgumentOf(x, call, slot)
  BY <1>2, <1>3, <1>4, <1>5, <1>6, <1>7 DEF IsArgumentOf, x
<1> QED BY <1>8 DEF a, x

VariableAt(x) == Reference(x, "variable", Text(x), None)

IndexAt(x) == Reference(x, "arrayOrGrid", Text(x), None)

CallAt(i) ==
  LET file == InSlot(Field(i, "arguments"), 1)
      target == InSlot(Field(i, "arguments"), 0)
  IN Reference(target, CallKind[Function(i)], Text(target),
       IF Function(i) \in TakesFile /\ IsDecoded(file) THEN file ELSE None)

LEMMA VariablesAre ==
  ASSUME NEW r \in VariableReferences
  PROVE  IsVariable(r.node) /\ r = VariableAt(r.node) /\ r.file = None
<1>1. PICK i \in Node : Kind(i) = "identifier" /\ AllowsVariables(i) /\ r = VariableAt(i)
  BY DEF VariableReferences, VariableAt
<1>2. r.node = i /\ r.file = None
  BY <1>1 DEF VariableAt, Reference
<1> QED BY <1>1, <1>2 DEF IsVariable

LEMMA IndexesAre ==
  ASSUME Tree, NEW r \in IndexReferences
  PROVE  IsIndexed(r.node) /\ r = IndexAt(r.node) /\ r.file = None
<1>1. PICK k \in Node : /\ Kind(k) = "index_expression" /\ Kind(Field(k, "value")) = "identifier"
                        /\ r = IndexAt(Field(k, "value"))
  BY DEF IndexReferences, IndexAt
<1>2. r.node = Field(k, "value") /\ r.file = None
  BY <1>1 DEF IndexAt, Reference
<1> QED BY <1>1, <1>2, IndexedAre

LEMMA CallsAre ==
  ASSUME Tree, NEW r \in CallReferences
  PROVE  \E i \in Node :
           /\ Kind(i) = "call_expression" /\ Function(i) \in DOMAIN CallKind
           /\ r = CallAt(i) /\ r.kind = CallKind[Function(i)]
           /\ IsArgumentOf(r.node, i, 0)
           /\ r.file # None => IsArgumentOf(r.file, i, 1) /\ Function(i) \in TakesFile
<1>1. PICK i \in Node : IsStaticCall(i) /\ r = CallAt(i)
  BY DEF CallReferences, CallAt
<1> DEFINE file == InSlot(Field(i, "arguments"), 1)
           target == InSlot(Field(i, "arguments"), 0)
<1>2. /\ r.node = target /\ r.kind = CallKind[Function(i)]
      /\ r.file = IF Function(i) \in TakesFile /\ IsDecoded(file) THEN file ELSE None
  BY <1>1 DEF CallAt, Reference
<1>3. /\ Kind(i) = "call_expression" /\ Function(i) \in DOMAIN CallKind
      /\ Field(i, "arguments") # None /\ IsDecoded(target)
  BY <1>1 DEF IsStaticCall
<1>4. IsArgumentOf(target, i, 0)
  BY <1>3, ArgumentsAre
<1>5. IsDecoded(file) => IsArgumentOf(file, i, 1)
  BY <1>3, ArgumentsAre
<1> HIDE DEF file, target
<1> QED BY <1>1, <1>2, <1>3, <1>4, <1>5

(* An identifier is a variable or indexed, not both; a string is neither.   *)
LEMMA UsesDiffer ==
  ASSUME Tree, NEW x
  PROVE  /\ ~(IsVariable(x) /\ IsIndexed(x))
         /\ \A call, slot : IsArgumentOf(x, call, slot) => ~IsVariable(x) /\ ~IsIndexed(x)
<1>1. IsIndexed(x) => ~AllowsVariables(x)
  BY Suppressed DEF IsIndexed, Suppressing
<1> QED BY <1>1 DEF IsVariable, IsIndexed, IsArgumentOf

LEMMA ReferencesByNode ==
  ASSUME Tree, NEW r \in References, NEW s \in References, r.node = s.node
  PROVE  r = s
<1>1. \/ IsVariable(r.node) /\ r = VariableAt(r.node)
      \/ IsIndexed(r.node) /\ r = IndexAt(r.node)
      \/ \E i : IsArgumentOf(r.node, i, 0) /\ r = CallAt(i)
  BY VariablesAre, IndexesAre, CallsAre DEF References
<1>2. \/ IsVariable(s.node) /\ s = VariableAt(s.node)
      \/ IsIndexed(s.node) /\ s = IndexAt(s.node)
      \/ \E i : IsArgumentOf(s.node, i, 0) /\ s = CallAt(i)
  BY VariablesAre, IndexesAre, CallsAre DEF References
<1>3. \A i, j : IsArgumentOf(r.node, i, 0) /\ IsArgumentOf(r.node, j, 0) => i = j
  BY DEF IsArgumentOf
<1> QED BY <1>1, <1>2, <1>3, UsesDiffer

LEMMA OneReferenceForANode ==
  ASSUME Tree
  PROVE  Cardinality({r.node : r \in References}) = Cardinality(References)
<1> DEFINE uses == {r.node : r \in References}
           ref == [x \in uses |-> CHOOSE r \in References : r.node = x]
<1>1. uses \subseteq Node
  <2>1. \A r \in References : r.node \in Node
    BY VariablesAre, IndexesAre, CallsAre DEF References, IsVariable, IsIndexed, IsArgumentOf
  <2> QED BY <2>1
<1>2. IsFiniteSet(uses)
  <2>1. Node = 1..Len(nodes) /\ Len(nodes) \in Nat
    BY NodesOfTypes DEF Tree, Node
  <2>2. IsFiniteSet(Node)
    BY <2>1, FS_Interval
  <2> QED BY <1>1, <2>2, FS_Subset
<1>3. \A x \in uses : ref[x] \in References /\ ref[x].node = x
  OBVIOUS
<1>4. ref \in [uses -> References]
  BY <1>3
<1>5. \A r \in References : r.node \in uses /\ ref[r.node] = r
  <2>1. \A r \in References : r.node \in uses
    OBVIOUS
  <2> HIDE DEF ref, uses
  <2> QED BY <1>3, <2>1, ReferencesByNode
<1> HIDE DEF ref, uses
<1>6. ref \in Bijection(uses, References)
  <2>1. ref \in Injection(uses, References)
    BY <1>3, <1>4 DEF Injection, IsInjective
  <2>2. ref \in Surjection(uses, References)
    BY <1>4, <1>5 DEF Surjection
  <2> QED BY <2>1, <2>2 DEF Bijection
<1>7. Cardinality(References) = Cardinality(uses)
  BY <1>2, <1>6, FS_Bijection DEF ExistsBijection
<1> QED BY <1>7 DEF uses

(* The name of a definition is referred to by nobody where it stands.       *)
LEMMA NamesAreNoUses ==
  ASSUME Tree, NEW i \in Node, IsDefinition(i)
  PROVE  LET d == DefinitionSelection(i) IN
         /\ Kind(d) = "identifier" /\ d \in Node /\ nodes[d].parent \in Node
         /\ ~AllowsVariables(d) /\ ~IsIndexed(d)
         /\ nodes[d].field # "function" \/ Kind(nodes[d].parent) # "call_expression"
<1> DEFINE d == DefinitionSelection(i)
<1>1. /\ Kind(i) \in Defined /\ Kind(d) = "identifier"
      /\ NamedByField(i, d) \/ NamedByHeader(i, d)
  BY DefinitionsAreNamed
<1>2. CASE NamedByField(i, d)
  <2>1. d \in Children(i) /\ nodes[d].field = "name" /\ d = Field(i, "name") /\ Kind(i) \notin Entity
    BY <1>2 DEF NamedByField
  <2>2. d \in Node /\ nodes[d].parent = i
    BY <2>1, ChildrenAre
  <2>3. ~AllowsVariables(d)
    BY <1>1, <2>1, Suppressed DEF Suppressing, Defined
  <2>4. ~IsIndexed(d)
    BY <2>1 DEF IsIndexed
  <2> QED BY <1>1, <2>1, <2>2, <2>3, <2>4
<1>3. CASE NamedByHeader(i, d)
  <2> DEFINE h == Field(i, "header")
  <2>1. /\ h \in Children(i) /\ nodes[h].field = "header" /\ Kind(i) \in Entity
        /\ d \in Node /\ h \in Above(d)
        /\ nodes[d].parent \in Node /\ Kind(nodes[d].parent) \in Records \cup {"legacy_field"}
    BY <1>3 DEF NamedByHeader
  <2>2. ~AllowsVariables(d)
    BY <2>1, HeadersHoldNoVariables
  <2>3. Kind(nodes[d].parent) # "index_expression" /\ Kind(nodes[d].parent) # "call_expression"
    BY <2>1 DEF Records
  <2>4. ~IsIndexed(d)
    BY <2>3 DEF IsIndexed
  <2> QED BY <1>1, <2>1, <2>2, <2>3, <2>4
<1> QED BY <1>1, <1>2, <1>3

LEMMA FunctionsAreNoUses ==
  ASSUME Tree, NEW i \in Node, Kind(i) = "call_expression", Function(i) \in DOMAIN CallKind
  PROVE  LET f == Field(i, "function") IN
         /\ Kind(f) = "identifier" /\ ~AllowsVariables(f) /\ ~IsIndexed(f)
         /\ nodes[f].field = "function" /\ Kind(nodes[f].parent) = "call_expression"
<1> DEFINE f == Field(i, "function")
<1>1. Kind(f) = "identifier"
  <2>1. "" \notin DOMAIN CallKind
    BY Zenon DEF CallKind
  <2> QED BY <2>1, Zenon DEF Function
<1>2. f # None
  <2>1. Kind(None) # "identifier"
    BY Zenon DEF Kind, None
  <2> QED BY <1>1, <2>1
<1>3. f \in Children(i) /\ nodes[f].field = "function"
  BY <1>2, FieldIsChild DEF AskedFields
<1>4. nodes[f].parent = i
  BY <1>3, ChildrenAre
<1>5. ~AllowsVariables(f)
  BY <1>3, Suppressed DEF Suppressing
<1>6. ~IsIndexed(f)
  BY <1>4 DEF IsIndexed
<1> QED BY <1>1, <1>3, <1>4, <1>5, <1>6

(* Properties and the names of assignments are no variables either.         *)
LEMMA UsesHaveOtherFields ==
  ASSUME Tree, NEW x, IsVariable(x) \/ IsIndexed(x) \/ \E call, slot : IsArgumentOf(x, call, slot)
  PROVE  nodes[x].field \notin {"property", "name"}
<1> DEFINE p == nodes[x].parent
<1>1. x \in Node /\ x # 1
  <2>1. Kind(1) = "source_file"
    BY NodesOfTypes DEF Tree, NestingOK, Kind, None
  <2> QED BY <2>1 DEF IsVariable, IsIndexed, IsArgumentOf
<1>2. p \in Node /\ x \in Children(p)
  BY <1>1, NodeTypes DEF Children
<1>3. PICK part \in Parts(Grammar[language], Kind(p)) : nodes[x].field = part.field
  BY <1>2, ChildrenAre
<1>4. FieldsAreOf(Grammar[language]) /\ Kind(p) \in DOMAIN Grammar[language].rules
  BY <1>2, KindsAre
<1>5. /\ nodes[x].field = "property" => Kind(p) = "member_expression"
      /\ nodes[x].field = "name" =>
           Kind(p) \in {"declaration", "subprogram", "output_block", "property_assignment"}
  BY <1>3, <1>4, Zenon DEF FieldsAreOf
<1> HIDE DEF p
<1>6. CASE IsVariable(x)
  <2>1. ASSUME nodes[x].field \in {"property", "name"} PROVE FALSE
    <3>1. x = Field(p, nodes[x].field)
      BY <1>2, <2>1, FieldIs DEF AskedFields
    <3>2. Suppressing(Kind(p), nodes[x].field)
      BY <1>5, <2>1 DEF Suppressing
    <3>3. ~AllowsVariables(x)
      BY <1>2, <3>1, <3>2, Suppressed
    <3> QED BY <1>6, <3>3 DEF IsVariable
  <2> QED BY <2>1
<1>7. CASE IsIndexed(x)
  BY <1>7 DEF IsIndexed
<1>8. CASE \E call, slot : IsArgumentOf(x, call, slot)
  <2>1. Kind(p) = "arguments"
    BY <1>8 DEF IsArgumentOf, p
  <2> QED BY <1>5, <2>1
<1> QED BY <1>6, <1>7, <1>8

LEMMA OneMeaning ==
  ASSUME Tree
  PROVE  NamesHaveOneMeaning
<1> DEFINE names == {d.selection : d \in Definitions}
           uses == {r.node : r \in References}
           files == {r.file : r \in References} \ {None}
<1>1. ASSUME NEW x \in names
      PROVE  /\ Kind(x) = "identifier" /\ ~IsVariable(x) /\ ~IsIndexed(x)
             /\ nodes[x].field # "function" \/ Kind(nodes[x].parent) # "call_expression"
  <2>1. PICK i \in Node : IsDefinition(i) /\ x = DefinitionSelection(i)
    BY DEF Definitions
  <2> QED BY <2>1, NamesAreNoUses DEF IsVariable
<1>2. ASSUME NEW x \in uses
      PROVE  IsVariable(x) \/ IsIndexed(x) \/ \E call : IsArgumentOf(x, call, 0)
  BY VariablesAre, IndexesAre, CallsAre DEF References
<1>3. ASSUME NEW x \in files
      PROVE  \E call : IsArgumentOf(x, call, 1)
  BY VariablesAre, IndexesAre, CallsAre DEF References
<1>4. ASSUME NEW x \in BuiltinFunctions
      PROVE  /\ Kind(x) = "identifier" /\ ~IsVariable(x) /\ ~IsIndexed(x)
             /\ nodes[x].field = "function" /\ Kind(nodes[x].parent) = "call_expression"
  <2>1. PICK i \in Node : /\ Kind(i) = "call_expression" /\ Function(i) \in DOMAIN CallKind
                          /\ x = Field(i, "function")
    BY DEF BuiltinFunctions
  <2> QED BY <2>1, FunctionsAreNoUses DEF IsVariable
<1>5. \A x, call, slot : IsArgumentOf(x, call, slot) => Kind(x) # "identifier" /\ Slot(x) = slot
  BY DEF IsArgumentOf
<1> HIDE DEF names, uses, files
<1>6. names \cap uses = {}
  BY <1>1, <1>2, <1>5
<1>7. files \cap (names \cup uses) = {}
  <2>1. files \cap names = {}
    BY <1>1, <1>3, <1>5
  <2>2. ASSUME NEW x \in files, x \in uses PROVE FALSE
    <3>1. PICK call : IsArgumentOf(x, call, 1)
      BY <1>3
    <3>2. Slot(x) = 1 /\ ~IsVariable(x) /\ ~IsIndexed(x)
      BY <1>5, <3>1, UsesDiffer
    <3>3. Slot(x) = 0
      BY <1>2, <1>5, <2>2, <3>2
    <3> QED BY <3>2, <3>3
  <2> QED BY <2>1, <2>2
<1>8. BuiltinFunctions \cap (names \cup uses) = {}
  BY <1>1, <1>2, <1>4, <1>5
<1>9. Cardinality(uses) = Cardinality(References)
  BY OneReferenceForANode DEF uses
<1>10. \A i \in uses : nodes[i].field \notin {"property", "name"}
  BY <1>2, UsesHaveOtherFields
<1> QED BY <1>6, <1>7, <1>8, <1>9, <1>10 DEF NamesHaveOneMeaning, names, uses, files

(* A name in the text is one thing only, in every tree: the name of a       *)
(* definition, a variable, an array or grid that is indexed, a target or    *)
(* its file, or a function (analyzer.go, collectSemantics).                 *)
THEOREM NamesMeanOneThing == Spec => []NamesHaveOneMeaning
<1>1. Tree => NamesHaveOneMeaning
  BY OneMeaning
<1> QED BY <1>1, TreesAreAsWritten, PTL

-----------------------------------------------------------------------------
(* What completion asks for in a string.                                    *)
LEMMA ScannedIs ==
  ASSUME Tree, NEW p \in Node, NamesACall(p), NEW i \in Children(p)
  PROVE  ScannedArguments(i) = p
<1> DEFINE opened == {a \in Above(i) : NamesACall(a)}
<1>1. Above(i) = Above(p) \cup {p} /\ \A a \in Above(p) : a < p /\ a \in Nat
  BY ChildrenAre, AboveOf
<1>2. p \in Nat /\ p \in opened
  BY <1>1, NodeTypes
<1>3. \A a \in opened : a \in Nat /\ a <= p
  BY <1>1, <1>2
<1>6. opened \in SUBSET (1..p)
  <2>1. \A a \in opened : a \in 1..p
    BY <1>1, <1>2, NodeTypes, AboveOf
  <2> QED BY <2>1
<1> HIDE DEF opened
<1>4. Max(opened) = p
  <2>1. Max(opened) \in opened /\ p <= Max(opened)
    BY <1>2, <1>6, MaxOf
  <2>2. Max(opened) \in Nat /\ Max(opened) <= p
    BY <1>3, <2>1
  <2> QED BY <1>2, <2>1, <2>2
<1>5. opened # {}
  BY <1>2
<1> QED BY <1>4, <1>5 DEF ScannedArguments, opened

ScannedCommas(i) ==
  {j \in Node : /\ Kind(j) = Comma /\ nodes[j].to < nodes[i].from /\ ScannedArguments(i) \in Above(j)
                /\ \A a \in Above(j) : Kind(a) = "arguments" => a <= ScannedArguments(i)}

LEMMA ScannedSlotIs == ASSUME NEW i PROVE ScannedSlot(i) = Cardinality(ScannedCommas(i))
<1> QED BY Zenon DEF ScannedSlot, ScannedCommas, Comma

LEMMA NodesAreFinite ==
  ASSUME Tree, NEW S \in SUBSET Node
  PROVE  IsFiniteSet(S)
<1>1. Node = 1..Len(nodes) /\ Len(nodes) \in Nat
  BY NodesOfTypes DEF Tree, Node
<1>2. IsFiniteSet(Node)
  BY <1>1, FS_Interval
<1> QED BY <1>2, FS_Subset

(* A comma of the call, by position or by number.                           *)
LEMMA BeforeAString ==
  ASSUME Tree, NEW i \in Tokens, NEW j \in Node, nodes[j].to < nodes[i].from
  PROVE  j <= i
<1>1. i \in 1..Len(nodes) /\ j \in 1..Len(nodes) /\ i \in Nat /\ j \in Nat
  BY NodesOfTypes DEF Tree, Tokens, Node
<1>2. nodes[i].from \in Nat /\ nodes[j].to \in Nat
  BY <1>1, PositionTypes DEF Tree
<1>3. i < j => nodes[i].from <= nodes[j].to
  BY <1>1 DEF Tree, PositionsOK
<1> QED BY <1>1, <1>2, <1>3

LEMMA CommasAreScanned ==
  ASSUME Tree, NEW p \in Node, NamesACall(p), NEW i \in Children(p), IsDecoded(i)
  PROVE  Commas(i) \subseteq ScannedCommas(i)
<1>1. ScannedArguments(i) = p /\ i \in Node /\ i # 1 /\ nodes[i].parent = p
  BY ScannedIs, ChildrenAre
<1>2. i \in Tokens /\ Kind(i) # Comma
  <2>1. "string" # ","
    OBVIOUS
  <2> QED BY <1>1, <2>1, StringsAreTokens, Zenon DEF IsDecoded, Comma
<1> SUFFICES ASSUME NEW j \in Commas(i) PROVE j \in ScannedCommas(i)
  OBVIOUS
<1>3. j \in Children(p) /\ Kind(j) = Comma /\ j < i
  BY <1>1 DEF Commas
<1>4. j \in Node /\ Above(j) = Above(p) \cup {p} /\ p \in Nat
      /\ \A a \in Above(p) : a < p /\ a \in Nat
  BY <1>3, ChildrenAre, AboveOf, NodeTypes
<1>5. nodes[j].to < nodes[i].from
  BY <1>1, <1>2, <1>3, <1>4, CommaPositions DEF Children
<1>6. \A a \in Above(j) : a <= p
  BY <1>4
<1> QED BY <1>1, <1>3, <1>4, <1>5, <1>6 DEF ScannedCommas

LEMMA NothingScanned ==
  ASSUME Tree, NEW p \in Node, NamesACall(p), NEW i \in Children(p), IsDecoded(i),
         ScannedSlot(i) = 0
  PROVE  Slot(i) = 0
<1>1. IsFiniteSet(ScannedCommas(i))
  <2>1. ScannedCommas(i) \subseteq Node
    BY DEF ScannedCommas
  <2> QED BY <2>1, NodesAreFinite
<1>2. ScannedCommas(i) = {}
  BY <1>1, ScannedSlotIs, FS_EmptySet
<1>3. Commas(i) = {}
  BY <1>2, CommasAreScanned
<1>4. Slot(i) = Cardinality(Commas(i))
  BY Zenon DEF Slot, Commas, Comma
<1> QED BY <1>3, <1>4, FS_EmptySet

(* Before a target there is nothing, and before its file the target, in     *)
(* which there is nothing; so the scanner, which counts commas wherever no  *)
(* call with a name intervenes, counts those of the call.                   *)
LEMMA ScannedAsCounted ==
  ASSUME Tree, NEW p \in Node, NamesACall(p), NEW i \in Children(p), IsDecoded(i),
         \/ Slot(i) = 0
         \/ Slot(i) = 1 /\ Kind(InSlot(p, 0)) = "string"
  PROVE  ScannedSlot(i) = Slot(i)
<1>1. ScannedArguments(i) = p /\ i \in Node /\ i # 1 /\ nodes[i].parent = p /\ Kind(p) = "arguments"
  BY ScannedIs, ChildrenAre DEF NamesACall
<1>2. i \in Tokens /\ Kind(i) # Comma /\ Kind(i) # "comment"
  <2>1. "string" # "," /\ "string" # "comment"
    OBVIOUS
  <2> QED BY <1>1, <2>1, StringsAreTokens, Zenon DEF IsDecoded, Comma
<1>3. Slot(i) = Cardinality(Commas(i))
  BY Zenon DEF Slot, Commas, Comma
<1>4. IsFiniteSet(Commas(i)) /\ Commas(i) \subseteq Node
  <2>1. Commas(i) \subseteq Node
    BY DEF Commas, Children
  <2> QED BY <2>1, NodesAreFinite
<1>5. ASSUME NEW j \in ScannedCommas(i), j \notin Commas(i) PROVE FALSE
  <2>1. j \in Node /\ Kind(j) = Comma /\ nodes[j].to < nodes[i].from /\ p \in Above(j)
    BY <1>1, <1>5 DEF ScannedCommas
  <2>2. PICK c \in Children(p) : (c = j \/ c \in Above(j)) /\ c <= j
    BY <2>1, ChildUnder
  <2>3. c \in Node /\ c \in Nat /\ i \in Nat /\ j \in Nat /\ nodes[c].parent = p
    BY <1>1, <2>1, <2>2, ChildrenAre, NodeTypes
  <2>4. j <= i /\ j # i
    BY <1>2, <2>1, BeforeAString
  <2>5. c < i
    BY <2>2, <2>3, <2>4
  <2>6. c # j
    BY <1>1, <1>5, <2>1, <2>2, <2>3, <2>4, <2>5 DEF Commas
  <2>7. Children(c) # {}
    BY <2>1, <2>2, <2>3, <2>6, ChildUnder
  <2>8. Kind(c) # Comma /\ Kind(c) # "comment" /\ Kind(c) # "string"
    BY <2>3, <2>7, WordsHoldNothing
  <2>9. IsArgument(p, c) /\ IsArgument(p, i)
    BY <1>2, <2>2, <2>8 DEF IsArgument
  <2>10. Slot(c) # Slot(i)
    BY <1>1, <2>3, <2>5, <2>9, SlotsDiffer
  <2>11. Commas(c) \subseteq Commas(i)
    <3>1. \A x \in Children(p) : x \in Nat /\ (x < c => x < i)
      BY <2>3, <2>5, NodeTypes DEF Children
    <3>2. /\ Commas(c) = {x \in Children(p) : Kind(x) = Comma /\ x < c}
          /\ Commas(i) = {x \in Children(p) : Kind(x) = Comma /\ x < i}
      BY <1>1, <2>3 DEF Commas
    <3> QED BY <3>1, <3>2
  <2>12. Slot(c) = Cardinality(Commas(c))
    BY Zenon DEF Slot, Commas, Comma
  <2>13. /\ Cardinality(Commas(c)) \in Nat /\ Cardinality(Commas(i)) \in Nat
         /\ Cardinality(Commas(c)) <= Cardinality(Commas(i))
    BY <1>4, <2>11, FS_Subset, FS_CardinalityType
  <2>14. Slot(i) = 1 /\ Slot(c) = 0
    BY <1>3, <2>10, <2>12, <2>13
  <2>15. InSlot(p, 0) = c
    BY <1>1, <2>9, <2>14, InSlotIs
  <2> QED BY <2>8, <2>14, <2>15
<1>6. ScannedCommas(i) = Commas(i)
  BY <1>5, CommasAreScanned
<1> QED BY <1>3, <1>6, ScannedSlotIs

LEMMA AskedInACall ==
  ASSUME Tree, NEW p \in Node, NamesACall(p), NEW i \in Children(p)
  PROVE  Asked(i) = CompletionAsksFor(Function(nodes[p].parent), ScannedSlot(i))
<1>1. ScannedArguments(i) = p /\ p # None
  BY ScannedIs, NodeTypes DEF None
<1> QED BY <1>1 DEF Asked

(* A target or its file is asked for as what it is.                         *)
LEMMA MeantIsAsked ==
  ASSUME Tree, NEW i \in Node, IsDecoded(i), NEW r \in CallReferences, i \in {r.node, r.file}
  PROVE  Asked(i) = IF i = r.node THEN r.kind ELSE "filename"
<1>1. PICK call \in Node :
        /\ Kind(call) = "call_expression" /\ Function(call) \in DOMAIN CallKind
        /\ r = CallAt(call) /\ r.kind = CallKind[Function(call)]
        /\ IsArgumentOf(r.node, call, 0)
        /\ r.file # None => IsArgumentOf(r.file, call, 1) /\ Function(call) \in TakesFile
  BY CallsAre
<1> DEFINE p == nodes[i].parent
<1>2. i # None
  BY NodeTypes DEF None
<1>3. \/ i = r.node /\ IsArgumentOf(i, call, 0)
      \/ i # r.node /\ i = r.file /\ IsArgumentOf(i, call, 1) /\ Function(call) \in TakesFile
  BY <1>1, <1>2
<1>4. p \in Node /\ i \in Children(p) /\ Kind(p) = "arguments" /\ nodes[p].parent = call
  BY <1>3 DEF IsArgumentOf
<1> HIDE DEF p
<1>5. NamesACall(p)
  <2>1. Function(call) # ""
    <3>1. "" \notin DOMAIN CallKind
      BY DEF CallKind
    <3> QED BY <1>1, <3>1
  <2> QED BY <1>4, <2>1 DEF NamesACall
<1>6. Asked(i) = CompletionAsksFor(Function(call), ScannedSlot(i))
  BY <1>4, <1>5, AskedInACall
<1>7. CASE i = r.node /\ IsArgumentOf(i, call, 0)
  <2>1. Slot(i) = 0
    BY <1>7 DEF IsArgumentOf
  <2>2. ScannedSlot(i) = 0
    BY <1>4, <1>5, <2>1, ScannedAsCounted
  <2> QED BY <1>1, <1>6, <1>7, <2>2, TablesAgree
<1>8. CASE i # r.node /\ i = r.file /\ IsArgumentOf(i, call, 1) /\ Function(call) \in TakesFile
  <2>1. Slot(i) = 1
    BY <1>8 DEF IsArgumentOf
  <2>2. nodes[r.node].parent = p
    <3>1. PICK a \in Node : nodes[r.node].parent = a /\ nodes[a].parent = call /\ Kind(a) = "arguments"
      BY <1>1 DEF IsArgumentOf
    <3>2. Field(call, "arguments") = a /\ Field(call, "arguments") = p
      BY <1>4, <3>1, ArgumentsAreOfCalls
    <3> QED BY <3>1, <3>2
  <2>3. Kind(InSlot(p, 0)) = "string"
    BY <1>1, <2>2 DEF IsArgumentOf
  <2>4. ScannedSlot(i) = 1
    BY <1>4, <1>5, <2>1, <2>3, ScannedAsCounted
  <2> QED BY <1>6, <1>8, <2>4, TablesAgree
<1> QED BY <1>3, <1>7, <1>8

(* What is asked for as a target, in the arguments it is taken to be in,    *)
(* is one.                                                                  *)
LEMMA AskedIsMeant ==
  ASSUME Tree, NEW i \in Node, IsDecoded(i), nodes[i].parent = ScannedArguments(i),
         Asked(i) # "expression", Asked(i) # "filename"
  PROVE  \E r \in CallReferences : i = r.node
<1> DEFINE p == nodes[i].parent
           opened == {a \in Above(i) : NamesACall(a)}
<1>1. opened # {} /\ ScannedArguments(i) = Max(opened)
  BY Zenon DEF ScannedArguments, Asked
<1>2. opened \in SUBSET (1..Len(nodes)) /\ Len(nodes) \in Nat
  <2>1. Above(i) \subseteq 1..Len(nodes) /\ Len(nodes) \in Nat
    BY AboveOf, NodesOfTypes DEF Tree, Node
  <2> QED BY <2>1
<1>3. p \in opened
  <2> HIDE DEF opened
  <2> QED BY <1>1, <1>2, MaxOf
<1>4. p \in Node /\ NamesACall(p) /\ i \in Children(p) /\ p # None
  <2>1. p \in Node
    BY <1>3, AboveOf
  <2> QED BY <1>3, <2>1, NodeTypes DEF Children, None
<1> HIDE DEF p, opened
<1> DEFINE call == nodes[p].parent
<1>5. Asked(i) = CompletionAsksFor(Function(call), ScannedSlot(i))
  BY <1>4, AskedInACall
<1>6. Function(call) \in DOMAIN CallKind /\ ScannedSlot(i) = 0
  BY <1>5, TablesAgree
<1>7. Slot(i) = 0
  BY <1>4, <1>6, NothingScanned
<1>8. call \in Node /\ Kind(call) = "call_expression" /\ Field(call, "arguments") = p
      /\ Kind(p) = "arguments"
  BY <1>4, ArgumentsAreOfCalls DEF NamesACall
<1> HIDE DEF call
<1>9. IsArgument(p, i)
  <2>1. "string" # "," /\ "string" # "comment"
    OBVIOUS
  <2> QED BY <1>4, <2>1, Zenon DEF IsArgument, IsDecoded, Comma
<1>10. InSlot(p, 0) = i
  BY <1>4, <1>7, <1>8, <1>9, InSlotIs
<1>11. IsStaticCall(call)
  BY <1>4, <1>6, <1>8, <1>10, Zenon DEF IsStaticCall
<1>12. CallAt(call) \in CallReferences
  BY <1>8, <1>11, Zenon DEF CallReferences, CallAt
<1>13. CallAt(call).node = i
  BY <1>8, <1>10 DEF CallAt, Reference
<1> QED BY <1>12, <1>13

LEMMA CompletedTargets ==
  ASSUME Tree
  PROVE  CompletedTargetsAreReferences
<1> SUFFICES ASSUME NEW i \in {j \in Node : IsDecoded(j)}
             PROVE  LET meant == {r \in CallReferences : i \in {r.node, r.file}} IN
                      /\ \A r \in meant : Asked(i) = IF i = r.node THEN r.kind ELSE "filename"
                      /\ /\ nodes[i].parent = ScannedArguments(i)
                         /\ Asked(i) \notin {"expression", "filename"}
                         => \E r \in meant : i = r.node
  BY Zenon DEF CompletedTargetsAreReferences
<1> DEFINE meant == {r \in CallReferences : i \in {r.node, r.file}}
<1>1. \A r \in meant : Asked(i) = IF i = r.node THEN r.kind ELSE "filename"
  BY MeantIsAsked
<1>2. /\ nodes[i].parent = ScannedArguments(i)
      /\ Asked(i) \notin {"expression", "filename"}
      => \E r \in meant : i = r.node
  <2> SUFFICES ASSUME nodes[i].parent = ScannedArguments(i),
                      Asked(i) # "expression", Asked(i) # "filename"
               PROVE  \E r \in meant : i = r.node
    OBVIOUS
  <2>1. PICK r \in CallReferences : i = r.node
    BY AskedIsMeant
  <2>2. r \in meant
    BY <2>1
  <2> QED BY <2>1, <2>2
<1> QED BY <1>1, <1>2

(* A string that is a target, or names the file of one, is asked for as     *)
(* just that, and what is asked for in the arguments of a call, as a        *)
(* target, is one: the line is scanned for what the tree says, and the two  *)
(* tables are the same (analyzer.go, classifyCompletionLine,                *)
(* activeCallArgument and lowerCallReference).                              *)
THEOREM TargetsAreCompleted == Spec => []CompletedTargetsAreReferences
<1>1. Tree => CompletedTargetsAreReferences
  BY CompletedTargets
<1> QED BY <1>1, TreesAreAsWritten, PTL

-----------------------------------------------------------------------------
(* What Resolution assumes of an analysis.  A file is made of               *)
(* definitions of dialogs and their like, which are in nothing but the file.*)
LEMMA RootIs ==
  ASSUME Tree
  PROVE  /\ 1 \in Node /\ Kind(1) = "source_file" /\ ~IsSemanticScope("source_file")
         /\ \A i \in Node : Kind(i) = "source_file" => i = 1
<1>1. 1 \in Node /\ Kind(1) = "source_file"
  BY NodesOfTypes DEF Tree, NestingOK, Kind, None, Node
<1>2. ~IsSemanticScope("source_file")
  BY DEF IsSemanticScope, Entity, Event
<1>3. ASSUME NEW i \in Node, Kind(i) = "source_file", i # 1 PROVE FALSE
  <2>1. nodes[i].parent \in Node
    BY <1>3, NodeTypes
  <2>2. PICK part \in Parts(Grammar[language], Kind(nodes[i].parent)) : Kind(i) \in part.kinds
    BY <1>3, PartOfParent
  <2> DEFINE kind == Kind(nodes[i].parent)
  <2>3. kind \in DOMAIN Grammar[language].rules /\ FilesAreDefinitions(Grammar[language])
    BY <2>1, KindsAre
  <2> HIDE DEF kind
  <2>4. part \in Parts(Grammar[language], kind)
    BY <2>2 DEF kind
  <2>5. "source_file" \notin part.kinds
    BY <2>3, <2>4, Zenon DEF FilesAreDefinitions
  <2> QED BY <1>3, <2>2, <2>5
<1> QED BY <1>1, <1>2, <1>3

LEMMA EntitiesAreOutermost ==
  ASSUME Tree, SemanticComplete, NEW i \in Node, Kind(i) \in Entity
  PROVE  Above(i) = {1}
<1> DEFINE p == nodes[i].parent
           kind == Kind(p)
<1>1. i # 1
  <2>1. "source_file" \notin Entity
    BY DEF Entity
  <2> QED BY <2>1, RootIs
<1>2. p \in Node /\ Above(i) = Above(p) \cup {p}
  BY <1>1, NodeTypes, AboveOf
<1>3. kind # "ERROR"
  BY <1>2 DEF SemanticComplete
<1>4. PICK part \in Parts(Grammar[language], kind) : Kind(i) \in part.kinds
  BY <1>1, PartOfParent
<1>5. kind \in DOMAIN Grammar[language].rules /\ FilesAreDefinitions(Grammar[language])
  BY <1>2, KindsAre
<1> HIDE DEF kind
<1>6. kind # "source_file" => part.kinds \cap Entity = {}
  BY <1>3, <1>4, <1>5, Zenon DEF FilesAreDefinitions
<1>7. kind = "source_file"
  BY <1>4, <1>6
<1>8. p = 1
  BY <1>2, <1>7, RootIs DEF kind
<1> QED BY <1>2, <1>8, AboveOf, RootIs

LEMMA EverythingIsInTheFile ==
  ASSUME Tree, NEW x \in Node, x # 1
  PROVE  1 \in Above(x)
<1> DEFINE S == {y \in Node : y # 1 /\ 1 \notin Above(y)}
<1>1. ASSUME S # {} PROVE FALSE
  <2>1. S \in SUBSET Nat
    BY NodeTypes
  <2>2. PICK y \in S : \A j \in S : y <= j
    BY <1>1, <2>1, LeastOf
  <2> DEFINE p == nodes[y].parent
  <2>3. y \in Node /\ y # 1 /\ Above(y) = Above(p) \cup {p}
    BY <2>2, AboveOf
  <2>4. p \in Node /\ p < y /\ p \in Nat /\ y \in Nat
    <3>1. p \in Node /\ p < y
      BY <2>3, NodeTypes
    <3> QED BY <2>3, <3>1, NodeTypes
  <2> HIDE DEF p
  <2>5. p \notin S
    BY <2>2, <2>4
  <2> QED BY <2>2, <2>3, <2>4, <2>5
<1> QED BY <1>1

(* Whatever else there is, is in one of them, its outermost scope.          *)
LEMMA EntityAround ==
  ASSUME Tree, SemanticComplete, NEW x \in Node, x # 1, Kind(x) \notin Entity \cup {"comment"}
  PROVE  \E t \in Scope(x) : Kind(t) \in Entity /\ \A a \in Scope(x) : t <= a
<1>1. 1 \in Above(x)
  BY EverythingIsInTheFile
<1>2. PICK t \in Children(1) : t = x \/ t \in Above(x)
  BY <1>1, ChildUnder, RootIs
<1>3. t \in Node /\ t # 1 /\ Above(t) = {1}
  <2>1. t \in Node /\ t # 1 /\ Above(t) = Above(1) \cup {1}
    BY <1>2, ChildrenAre, RootIs
  <2> QED BY <2>1, AboveOf, RootIs
<1>4. Kind(t) \in Entity \cup {"comment"}
  <2>1. PICK part \in Parts(Grammar[language], Kind(1)) : Kind(t) \in part.kinds
    BY <1>2, ChildrenAre, RootIs
  <2>2. /\ "source_file" \in DOMAIN Grammar[language].rules
        /\ FilesAreDefinitions(Grammar[language])
    BY RootIs, KindsAre
  <2>3. part \in Parts(Grammar[language], "source_file")
    BY <2>1, RootIs
  <2>4. part.kinds \subseteq Entity \cup {"ERROR", "comment"}
    BY <2>2, <2>3, Zenon DEF FilesAreDefinitions
  <2>5. Kind(t) # "ERROR"
    BY <1>3 DEF SemanticComplete
  <2> QED BY <2>1, <2>4, <2>5
<1>5. t \in Above(x)
  BY <1>2, <1>4
<1>6. Kind(t) # "comment"
  <2>1. PICK c \in Children(t) : c \in Node
    BY <1>3, <1>5, ChildUnder, ChildrenAre
  <2> QED BY <1>3, <2>1, WordsHoldNothing
<1>7. Kind(t) \in Entity
  BY <1>4, <1>6
<1>8. t \in Scope(x)
  BY <1>5, <1>7 DEF Scope, IsSemanticScope
<1>9. ASSUME NEW a \in Scope(x) PROVE t <= a
  <2>1. a \in Above(x) /\ IsSemanticScope(Kind(a))
    BY DEF Scope
  <2>2. a \in Node /\ a # 1
    <3>1. a \in Node
      BY <2>1, AboveOf
    <3> QED BY <2>1, <3>1, RootIs
  <2>3. a \notin Above(t)
    BY <1>3, <2>2
  <2>4. t < x
    BY <1>5, AboveOf
  <2>5. ~(a < t)
    BY <1>3, <2>1, <2>2, <2>3, <2>4, BetweenOf
  <2>6. a \in Nat /\ t \in Nat
    BY <1>3, <2>2, NodeTypes
  <2> QED BY <2>5, <2>6
<1> QED BY <1>7, <1>8, <1>9

(* Where there is a name of a declaration, it is the next node.             *)
LEMMA DeclaredNamesAreNext ==
  ASSUME Tree, NEW i \in Node, Kind(i) = "declaration", NEW d \in Children(i), nodes[d].field = "name"
  PROVE  d = i + 1
<1>1. PICK production \in Rules[nodes[i].kind] \cup {<<>>} : \E n \in 0..Len(production) :
        \E child \in [1..n -> Children(i)] :
           /\ \A c \in Children(i) : \E m \in 1..n : child[m] = c
           /\ \A l, m \in 1..n : l < m => child[l] < child[m]
           /\ \A m \in 1..n : ChildOf(i, child[m], production, m)
  BY ChildrenOf
<1>2. PICK n \in 0..Len(production) : \E child \in [1..n -> Children(i)] :
           /\ \A c \in Children(i) : \E m \in 1..n : child[m] = c
           /\ \A l, m \in 1..n : l < m => child[l] < child[m]
           /\ \A m \in 1..n : ChildOf(i, child[m], production, m)
  BY <1>1
<1>3. PICK child \in [1..n -> Children(i)] :
           /\ \A c \in Children(i) : \E m \in 1..n : child[m] = c
           /\ \A l, m \in 1..n : l < m => child[l] < child[m]
           /\ \A m \in 1..n : ChildOf(i, child[m], production, m)
  BY <1>2
<1>4. PICK k \in 1..n : child[k] = d
  BY <1>3
<1>5. k = 1
  <2>1. ChildOf(i, d, production, k)
    BY <1>3, <1>4
  <2>2. /\ nodes[i].kind = "declaration" /\ "declaration" \in DOMAIN Grammar[language].rules
        /\ language \in DOMAIN Grammar
    BY NodeTypes DEF Kinds
  <2>3. NamesComeFirst(Grammar[language])
    BY <2>2, GrammarAssumption DEF GrammarAssumption
  <2>4. /\ production \in Grammar[language].rules["declaration"] /\ k \in DOMAIN production
        /\ production[k].field = "name"
    BY <2>1, <2>2 DEF ChildOf
  <2> QED BY <2>2, <2>3, <2>4, Zenon DEF NamesComeFirst
<1>6. ASSUME NEW c \in Children(i) PROVE d <= c
  <2>1. PICK m \in 1..n : child[m] = c
    BY <1>3
  <2>2. d \in Nat /\ c \in Nat
    BY NodeTypes, ChildrenAre
  <2>3. n \in Nat
    <3>1. production \in Seq(Part(language))
      <4>1. i \in 1..Len(nodes)
        BY NodeTypes
      <4> QED BY <4>1, ProductionsAreSequences DEF Tree
    <3> QED BY <3>1
  <2>4. m = 1 \/ 1 < m
    BY <2>3
  <2>5. 1 \in 1..n
    BY <2>3
  <2> QED BY <1>3, <1>4, <1>5, <2>1, <2>2, <2>4, <2>5
<1>7. d \in Node /\ d \in Nat /\ i \in Nat /\ i < d /\ i \in Above(d)
  <2>1. d \in Node /\ i < d /\ Above(d) = Above(i) \cup {i}
    BY ChildrenAre
  <2> QED BY <2>1, NodeTypes
<1>8. ASSUME i + 1 < d PROVE FALSE
  <2>1. i + 1 \in Node
    <3>1. DOMAIN nodes = 1..Len(nodes) /\ Len(nodes) \in Nat
      BY NodesOfTypes DEF Tree
    <3>2. d \in 1..Len(nodes)
      BY <1>7, NodeTypes
    <3> QED BY <1>7, <1>8, <3>1, <3>2 DEF Node
  <2>2. i < i + 1
    BY <1>7
  <2>3. i \in Above(i + 1)
    BY <1>7, <1>8, <2>1, <2>2, BetweenOf
  <2>4. PICK c \in Children(i) : c <= i + 1
    BY <2>1, <2>3, ChildUnder
  <2>5. c \in Nat /\ d <= c
    BY <1>6, NodeTypes, ChildrenAre
  <2> QED BY <1>7, <1>8, <2>4, <2>5
<1> QED BY <1>7, <1>8

(* A thing of an analysis: what is defined or referred to.                  *)
IsThing(x) ==
  \/ IsDefinition(x)
  \/ IsVariable(x) \/ IsIndexed(x) \/ \E call : IsArgumentOf(x, call, 0)

LEMMA ReferencesAre ==
  ASSUME Tree, NEW r \in References
  PROVE  /\ IsVariable(r.node) \/ IsIndexed(r.node) \/ \E call : IsArgumentOf(r.node, call, 0)
         /\ r.node \in Node /\ Kind(r.node) \in {"identifier", "string"}
         /\ r.scope = Scope(r.node)
         /\ r.file # None => r.kind \in {"dialog", "softkey", "array", "block"}
<1>1. IsVariable(r.node) \/ IsIndexed(r.node) \/ \E call : IsArgumentOf(r.node, call, 0)
  BY VariablesAre, IndexesAre, CallsAre DEF References
<1>2. r.node \in Node /\ Kind(r.node) \in {"identifier", "string"}
  BY <1>1 DEF IsVariable, IsIndexed, IsArgumentOf
<1>3. r.scope = Scope(r.node)
  BY DEF References, VariableReferences, IndexReferences, CallReferences, Reference
<1>4. ASSUME r.file # None PROVE r.kind \in {"dialog", "softkey", "array", "block"}
  <2>1. r \in CallReferences
    BY <1>4, VariablesAre, IndexesAre DEF References
  <2>2. PICK f \in TakesFile : r.kind = CallKind[f]
    BY <1>4, <2>1, CallsAre
  <2> QED BY <2>2 DEF TakesFile, CallKind
<1> QED BY <1>1, <1>2, <1>3, <1>4

(* Things begin with a token of their own, but for declarations.            *)
LEMMA ThingsAreTokens ==
  ASSUME Tree, NEW x \in Node, IsThing(x), ~nodes[x].missing
  PROVE  /\ x \in 1..Len(nodes) /\ x \in Nat
         /\ Kind(x) \in Defined \cup {"identifier", "string"}
         /\ x \in Tokens \/ (IsDefinition(x) /\ Kind(x) = "declaration")
<1>1. Kind(x) \in Defined \cup {"identifier", "string"}
  BY DefinitionsAreNamed DEF IsThing, IsVariable, IsIndexed, IsArgumentOf
<1>2. IsDefinition(x) \/ Kind(x) \in {"identifier", "string"}
  BY DEF IsThing, IsVariable, IsIndexed, IsArgumentOf
<1>3. Kind(x) # "declaration" => Kind(x) \in Word
  BY <1>1, GrammarAssumption DEF GrammarAssumption, Defined
<1>4. x # 1
  <2>1. "source_file" \notin Defined \cup {"identifier", "string"}
    BY DEF Defined, Entity
  <2> QED BY <1>1, <2>1, RootIs
<1>6. x \in 1..Len(nodes) /\ x \in Nat /\ Kind(x) = nodes[x].kind /\ Len(nodes) \in Nat
  BY NodeTypes, NodesOfTypes DEF Tree
<1>7. x \in 2..Len(nodes)
  BY <1>4, <1>6
<1>8. Kind(x) # "declaration" => x \in Tokens
  BY <1>3, <1>6, <1>7 DEF Tokens
<1> QED BY <1>1, <1>2, <1>6, <1>8

LEMMA ThingsBeginInOrder ==
  ASSUME Tree, NEW i \in Node, NEW j \in Node, IsThing(i), IsThing(j), i < j,
         ~nodes[i].missing, ~nodes[j].missing
  PROVE  nodes[i].from < nodes[j].from
<1>1. i \in 1..Len(nodes) /\ j \in 1..Len(nodes) /\ i \in Nat /\ j \in Nat
  BY ThingsAreTokens
<1>2. \A x \in Tokens : x \in 1..Len(nodes) /\ x < j => nodes[x].from < nodes[j].from
  BY <1>1 DEF Tree, PositionsOK
<1>3. CASE i \in Tokens
  BY <1>1, <1>2, <1>3
<1>4. CASE i \notin Tokens
  <2> DEFINE d == DefinitionSelection(i)
  <2>1. IsDefinition(i) /\ Kind(i) = "declaration"
    BY <1>4, ThingsAreTokens
  <2>2. Kind(i) \notin Entity
    BY <2>1 DEF Entity
  <2>3. d \in Children(i) /\ nodes[d].field = "name"
    BY <2>1, <2>2, DefinitionsAreNamed DEF NamedByField, NamedByHeader
  <2>4. d = i + 1
    BY <2>1, <2>3, DeclaredNamesAreNext
  <2>5. d \in Node /\ Kind(d) = "identifier" /\ ~AllowsVariables(d) /\ ~IsIndexed(d)
    BY <2>1, NamesAreNoUses
  <2>12. Text(d) # ""
    BY <2>1 DEF IsDefinition
  <2> HIDE DEF d
  <2>6. ~IsThing(d)
    <3>1. ~IsDefinition(d)
      <4>1. "identifier" \notin Defined
        BY DEF Defined, Entity
      <4> QED BY <2>5, <4>1, DefinitionsAreNamed
    <3> QED BY <2>5, <3>1 DEF IsThing, IsVariable, IsArgumentOf
  <2>7. d < j
    <3>1. d # j
      BY <2>6
    <3> QED BY <1>1, <2>4, <3>1
  <2>8. d \in Tokens /\ d \in 1..Len(nodes)
    <3>1. ~nodes[d].missing
      <4>1. d \in 1..Len(nodes)
        BY <2>5, NodeTypes
      <4> QED BY <2>12, <4>1, Zenon DEF Tree, PositionsOK
    <3>2. d \in 1..Len(nodes) /\ Kind(d) = nodes[d].kind /\ Len(nodes) \in Nat
      BY <2>5, NodeTypes, NodesOfTypes DEF Tree
    <3>3. d \in 2..Len(nodes)
      BY <1>1, <2>4, <3>2
    <3>4. "identifier" \in Word
      BY GrammarAssumption DEF GrammarAssumption
    <3> QED BY <2>5, <3>1, <3>2, <3>3, <3>4 DEF Tokens
  <2>9. nodes[d].from < nodes[j].from
    BY <1>2, <2>7, <2>8
  <2>10. nodes[i].from <= nodes[d].from
    BY <1>1, <2>4, <2>8 DEF Tree, OrderOK
  <2>11. nodes[i].from \in Nat /\ nodes[d].from \in Nat /\ nodes[j].from \in Nat
    BY <1>1, <2>8, PositionTypes DEF Tree
  <2> QED BY <2>9, <2>10, <2>11
<1> QED BY <1>3, <1>4

LEMMA AnalysisFeedsResolution ==
  ASSUME Tree
  PROVE  AnalysisIsAsAssumed
<1> DEFINE named == {d.node : d \in Definitions} \cup {r.node : r \in References}
           things == {i \in named : ~nodes[i].missing}
<1>1. ASSUME SemanticComplete, NEW d \in Definitions
      PROVE  Kind(d.node) \in Entity <=> d.scope = {}
  <2>1. PICK i \in Node : IsDefinition(i) /\ d.node = i /\ d.scope = Scope(i)
    BY DEF Definitions
  <2>2. CASE Kind(i) \in Entity
    <3>1. Above(i) = {1}
      BY <1>1, <2>2, EntitiesAreOutermost
    <3>2. Scope(i) = {}
      BY <3>1, RootIs DEF Scope
    <3> QED BY <2>1, <2>2, <3>2
  <2>3. CASE Kind(i) \notin Entity
    <3>1. Kind(i) \in Defined
      BY <2>1, DefinitionsAreNamed
    <3>2. i # 1 /\ Kind(i) # "comment"
      <4>1. "source_file" \notin Defined /\ "comment" \notin Defined
        BY DEF Defined, Entity
      <4> QED BY <3>1, <4>1, RootIs
    <3>3. Scope(i) # {}
      BY <1>1, <2>3, <3>2, EntityAround
    <3> QED BY <2>1, <2>3, <3>3
  <2> QED BY <2>2, <2>3
<1>2. ASSUME SemanticComplete, NEW r \in References
      PROVE  \E e \in r.scope : e = Min(r.scope) /\ Kind(e) \in Entity
  <2> DEFINE x == r.node
  <2>1. x \in Node /\ Kind(x) \in {"identifier", "string"} /\ r.scope = Scope(x)
    BY ReferencesAre
  <2> HIDE DEF x
  <2>2. x # 1 /\ Kind(x) \notin Entity \cup {"comment"}
    <3>1. \A kind \in {"identifier", "string"} : kind \notin Entity \cup {"comment", "source_file"}
      BY DEF Entity
    <3> QED BY <2>1, <3>1, RootIs
  <2>3. PICK t \in Scope(x) : Kind(t) \in Entity /\ \A a \in Scope(x) : t <= a
    BY <1>2, <2>1, <2>2, EntityAround
  <2>4. \A a \in Scope(x) : a \in Nat
    BY <2>1, AboveOf DEF Scope
  <2>5. Min(Scope(x)) = t
    BY <2>3, <2>4 DEF Min
  <2> QED BY <2>1, <2>3, <2>5
<1>3. ASSUME NEW i \in things, NEW j \in things, nodes[i].from = nodes[j].from PROVE i = j
  <2>1. \A x \in things : x \in Node /\ IsThing(x) /\ ~nodes[x].missing
    BY ReferencesAre DEF Definitions, IsThing
  <2> HIDE DEF things
  <2>2. i \in Nat /\ j \in Nat /\ i \in 1..Len(nodes) /\ j \in 1..Len(nodes)
    BY <2>1, ThingsAreTokens
  <2>3. nodes[i].from \in Nat /\ nodes[j].from \in Nat
    BY <2>2, PositionTypes DEF Tree
  <2>4. ~(i < j)
    <3> SUFFICES ASSUME i < j PROVE FALSE
      OBVIOUS
    <3>1. nodes[i].from < nodes[j].from
      BY <2>1, ThingsBeginInOrder
    <3> QED BY <1>3, <2>3, <3>1
  <2>5. ~(j < i)
    <3> SUFFICES ASSUME j < i PROVE FALSE
      OBVIOUS
    <3>1. nodes[j].from < nodes[i].from
      BY <2>1, ThingsBeginInOrder
    <3> QED BY <1>3, <2>3, <3>1
  <2> QED BY <2>2, <2>4, <2>5
<1>4. \A r \in References : r.file # None => r.kind \in {"dialog", "softkey", "array", "block"}
  BY ReferencesAre
<1> QED BY <1>1, <1>2, <1>3, <1>4, Zenon DEF AnalysisIsAsAssumed

(* What Resolution assumes of an analysis holds of every tree: files are    *)
(* named where they may be and no two things begin at one place, and if the *)
(* tree has no error, dialogs and their like are owned by nothing and       *)
(* everything else by one of them (analyzer.go, lowerDefinition and         *)
(* lowerReference).                                                         *)
THEOREM ResolutionIsFed == Spec => []AnalysisIsAsAssumed
<1>1. Tree => AnalysisIsAsAssumed
  BY AnalysisFeedsResolution
<1> QED BY <1>1, TreesAreAsWritten, PTL
===============================================================================
