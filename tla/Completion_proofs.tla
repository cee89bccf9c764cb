-------------------------- MODULE Completion_proofs --------------------------
(***************************************************************************)
(* Proofs about what completion knows of the place of the cursor, for      *)
(* lines of any length and any characters, and for documents of any        *)
(* length in any language that the code's tables describe.                 *)
(*                                                                         *)
(* A line has a meaning that needs no scanner: whether a character is in a *)
(* string is the parity of the quotes before it, a parenthesis is open if  *)
(* those behind it balance.  The scanners are shown to find it, one turn   *)
(* of a loop after the other.                                              *)
(*                                                                         *)
(* In a document, what is open behind a line follows from that line and    *)
(* from what was open before it.  The scan of the lines does the same to   *)
(* its blocks, and the tree adds no others.                                *)
(***************************************************************************)
EXTENDS Completion, SequenceTheorems, FiniteSetTheorems, WellFoundedInduction, TLAPS

LEMMA Characters ==
  /\ Quote # "" /\ Quote # Semicolon /\ Quote # Separator /\ Quote # "(" /\ Quote # ")"
  /\ Semicolon # Separator /\ Semicolon # "(" /\ Semicolon # ")"
  /\ Separator # "(" /\ Separator # ")" /\ "(" # ")"
BY DEF Quote, Semicolon, Separator

LEMMA SetInduction ==
  ASSUME NEW S, 0 \in S, \A n \in Nat : n \in S => n + 1 \in S
  PROVE  Nat \subseteq S
<1> DEFINE less == OpToRel(<, Nat)
           T == Nat \ S
<1>1. \A y, z \in Nat : y < z => <<y, z>> \in less
  BY DEF OpToRel
<1>2. IsWellFoundedOn(less, Nat)
  BY NatLessThanWellFounded
<1> HIDE DEF less
<1> SUFFICES ASSUME T # {} PROVE FALSE
  OBVIOUS
<1>3. PICK z \in T : \A y \in T : <<y, z>> \notin less
  BY <1>2, WFMin
<1>4. z \in Nat /\ z # 0 /\ z - 1 \in Nat /\ z - 1 < z
  BY <1>3
<1>5. z - 1 \notin T
  BY <1>1, <1>3, <1>4
<1> QED BY <1>3, <1>4, <1>5

(* From the end of an interval back to its start, past any number at once.  *)
LEMMA BackwardInduction ==
  ASSUME NEW a \in Int, NEW b \in Int, NEW S,
         \A n \in a..b : (n + 1)..b \subseteq S => n \in S
  PROVE  a..b \subseteq S
<1> DEFINE D == {d \in Nat : \A n \in a..b : b - n <= d => n \in S}
<1>1. 0 \in D
  <2> SUFFICES ASSUME NEW n \in a..b, b - n <= 0 PROVE n \in S
    OBVIOUS
  <2>1. (n + 1)..b = {}
    OBVIOUS
  <2> QED BY <2>1
<1>2. ASSUME NEW d \in Nat, d \in D PROVE d + 1 \in D
  <2> SUFFICES ASSUME NEW n \in a..b, b - n <= d + 1 PROVE n \in S
    OBVIOUS
  <2>1. \A m \in (n + 1)..b : m \in a..b /\ b - m <= d
    OBVIOUS
  <2> QED BY <1>2, <2>1
<1> HIDE DEF D
<1>3. Nat \subseteq D
  BY <1>1, <1>2, SetInduction
<1> SUFFICES ASSUME NEW n \in a..b PROVE n \in S
  OBVIOUS
<1>4. b - n \in Nat /\ b - n \in D
  BY <1>3
<1> QED BY <1>4 DEF D
-----------------------------------------------------------------------------

LEMMA MaximumOf ==
  ASSUME NEW n \in Nat, NEW S \in SUBSET (0..n), S # {}
  PROVE  Max(S) \in S /\ \A y \in S : Max(S) >= y
<1> DEFINE T == {i \in 0..n : (i..n) \cap S # {} => \E x \in S : \A y \in S : x >= y}
<1>1. ASSUME NEW i \in 0..n, (i + 1)..n \subseteq T PROVE i \in T
  <2> SUFFICES ASSUME (i..n) \cap S # {} PROVE \E x \in S : \A y \in S : x >= y
    OBVIOUS
  <2>1. CASE ((i + 1)..n) \cap S # {}
    <3>1. i + 1 \in (i + 1)..n
      BY <2>1
    <3> QED BY <1>1, <2>1, <3>1
  <2>2. CASE ((i + 1)..n) \cap S = {}
    <3>1. i \in S /\ \A y \in S : i >= y
      BY <2>2
    <3> QED BY <3>1
  <2> QED BY <2>1, <2>2
<1> HIDE DEF T
<1>2. 0 \in Int /\ n \in Int /\ 0 \in 0..n
  OBVIOUS
<1>3. 0..n \subseteq T
  BY <1>1, <1>2, BackwardInduction, Zenon
<1>4. (0..n) \cap S # {}
  OBVIOUS
<1>5. \E x \in S : \A y \in S : x >= y
  BY <1>2, <1>3, <1>4 DEF T
<1> QED BY <1>5 DEF Max

LEMMA MaximumIs ==
  ASSUME NEW n \in Nat, NEW S \in SUBSET (0..n), NEW x \in S, \A y \in S : x >= y
  PROVE  Max(S) = x
<1>1. Max(S) \in S /\ Max(S) >= x
  BY MaximumOf
<1>2. x >= Max(S)
  BY <1>1
<1>3. \A y \in S : y \in Int
  OBVIOUS
<1>4. x \in Int /\ Max(S) \in Int
  BY <1>1, <1>3
<1> QED BY <1>1, <1>2, <1>4

LEMMA MinimumIs ==
  ASSUME NEW S \in SUBSET Int, NEW x \in S, \A y \in S : x <= y
  PROVE  Min(S) = x
<1>1. \E z \in S : \A y \in S : z <= y
  OBVIOUS
<1>2. Min(S) \in S /\ \A y \in S : Min(S) <= y
  BY <1>1 DEF Min
<1>3. Min(S) <= x /\ x <= Min(S) /\ x \in Int /\ Min(S) \in Int
  BY <1>2
<1> QED BY <1>3
-----------------------------------------------------------------------------
(* Quotes and their parity.                                                 *)

LEMMA IntervalFinite ==
  ASSUME NEW i \in Nat, NEW S \in SUBSET (1..i)
  PROVE  IsFiniteSet(S) /\ Cardinality(S) \in Nat
<1>1. IsFiniteSet(1..i)
  BY FS_Interval
<1>2. IsFiniteSet(S)
  BY <1>1, FS_Subset
<1> QED BY <1>2, FS_CardinalityType

LEMMA OneMore ==
  ASSUME NEW i \in Nat, NEW S \in SUBSET (1..i), NEW T, T = S \/ T = S \cup {i + 1}
  PROVE  Cardinality(T) = Cardinality(S) + IF T = S THEN 0 ELSE 1
<1>1. IsFiniteSet(S) /\ Cardinality(S) \in Nat
  BY IntervalFinite
<1>2. i + 1 \notin S
  OBVIOUS
<1>3. CASE T = S
  BY <1>1, <1>3
<1>4. CASE T # S
  <2>1. T = S \cup {i + 1}
    BY <1>4
  <2>2. Cardinality(S \cup {i + 1}) = Cardinality(S) + 1
    BY <1>1, <1>2, FS_AddElement
  <2> QED BY <1>4, <2>1, <2>2
<1> QED BY <1>3, <1>4

LEMMA QuotesType ==
  ASSUME NEW l, NEW i \in Nat
  PROVE  Quotes(l, i) \in Nat
<1>1. {j \in 1..i : l[j] = Quote} \in SUBSET (1..i)
  OBVIOUS
<1> QED BY <1>1, IntervalFinite DEF Quotes

LEMMA QuotesNext ==
  ASSUME NEW l, NEW i \in Nat
  PROVE  Quotes(l, i + 1) = Quotes(l, i) + IF l[i + 1] = Quote THEN 1 ELSE 0
<1> DEFINE S == {j \in 1..i : l[j] = Quote}
           T == {j \in 1..(i + 1) : l[j] = Quote}
<1>1. S \in SUBSET (1..i)
  OBVIOUS
<1>2. T = IF l[i + 1] = Quote THEN S \cup {i + 1} ELSE S
  <2>1. \A j \in 1..(i + 1) : j = i + 1 \/ j \in 1..i
    OBVIOUS
  <2>2. i + 1 \in 1..(i + 1) /\ \A j \in 1..i : j \in 1..(i + 1)
    OBVIOUS
  <2> QED BY <2>1, <2>2
<1>3. i + 1 \notin S
  OBVIOUS
<1> HIDE DEF S, T
<1>4. Cardinality(T) = Cardinality(S) + IF l[i + 1] = Quote THEN 1 ELSE 0
  BY <1>1, <1>2, <1>3, OneMore
<1> QED BY <1>4 DEF Quotes, S, T

LEMMA EvenNext ==
  ASSUME NEW n \in Nat
  PROVE  (Even(n + 1) <=> ~Even(n)) /\ (Even(n + 2) <=> Even(n))
BY DEF Even

(* A quote changes the parity, and nothing else does.                       *)
LEMMA Parity ==
  ASSUME NEW l, NEW i \in Nat
  PROVE  /\ l[i + 1] = Quote => (Even(Quotes(l, i + 1)) <=> ~Even(Quotes(l, i)))
         /\ l[i + 1] # Quote => (Even(Quotes(l, i + 1)) <=> Even(Quotes(l, i)))
<1>1. Quotes(l, i) \in Nat
  BY QuotesType
<1>2. CASE l[i + 1] = Quote
  <2>1. Quotes(l, i + 1) = Quotes(l, i) + 1
    BY <1>1, <1>2, QuotesNext
  <2> QED BY <1>1, <1>2, <2>1, EvenNext
<1>3. CASE l[i + 1] # Quote
  <2>1. Quotes(l, i + 1) = Quotes(l, i)
    BY <1>1, <1>3, QuotesNext
  <2> QED BY <1>3, <2>1
<1> QED BY <1>2, <1>3

LEMMA NoQuotes == ASSUME NEW l PROVE Quotes(l, 0) = 0 /\ Even(Quotes(l, 0))
<1>1. {j \in 1..0 : l[j] = Quote} = {}
  OBVIOUS
<1> QED BY <1>1, FS_EmptySet DEF Quotes, Even

(* Counting depends on nothing behind.                                      *)
LEMMA SameQuotes ==
  ASSUME NEW l, NEW m, NEW i \in Nat, \A j \in 1..i : l[j] = m[j]
  PROVE  Quotes(l, i) = Quotes(m, i)
<1>1. {j \in 1..i : l[j] = Quote} = {j \in 1..i : m[j] = Quote}
  OBVIOUS
<1> QED BY <1>1 DEF Quotes
-----------------------------------------------------------------------------
(* The end of the text that is replaced is the end of the string.           *)

EndRest(l, f, end) ==
  IF end = Len(l) THEN end
  ELSE IF l[end + 1] # Quote THEN f[end + 1]
  ELSE IF At(l, end + 2) = Quote THEN f[end + 2]
  ELSE end

IsEnd(l, a, f) == f = [end \in a..Len(l) |-> EndRest(l, f, end)]

LEMMA AtDomain ==
  ASSUME NEW S, NEW l \in Seq(S), NEW i \in Int
  PROVE  /\ i \in 1..Len(l) => At(l, i) = l[i]
         /\ i \notin 1..Len(l) => At(l, i) = ""
         /\ At(l, i) = Quote <=> i \in 1..Len(l) /\ l[i] = Quote
<1>1. DOMAIN l = 1..Len(l)
  OBVIOUS
<1>2. Quote # ""
  BY DEF Quote
<1> QED BY <1>1, <1>2 DEF At

LEMMA AtSecond ==
  ASSUME NEW S, NEW l \in Seq(S), NEW i \in Nat
  PROVE  At(l, i + 2) = Quote <=> i + 2 \in 1..Len(l) /\ l[i + 2] = Quote
<1>1. i + 2 \in Int
  OBVIOUS
<1> QED BY <1>1, AtDomain

LEMMA EndAt ==
  ASSUME NEW l, NEW a, NEW f, IsEnd(l, a, f), NEW i \in a..Len(l)
  PROVE  f[i] = EndRest(l, f, i)
<1> DEFINE R(k) == EndRest(l, f, k)
<1>1. f = [k \in a..Len(l) |-> R(k)]
  BY DEF IsEnd
<1> HIDE DEF R
<1>2. f[i] = R(i)
  BY <1>1
<1> QED BY <1>2 DEF R

LEMMA EndExists ==
  ASSUME NEW S, NEW l \in Seq(S)
  PROVE  \E f : IsEnd(l, 0, f)
<1> DEFINE n == Len(l)
           T == {i \in 0..n : \E f : IsEnd(l, i, f)}
<1>1. n \in Nat
  OBVIOUS
<1>2. ASSUME NEW i \in 0..n, (i + 1)..n \subseteq T PROVE i \in T
  <2>1. CASE i = n
    <3> DEFINE g == [k \in i..n |-> k]
    <3>1. \A k \in i..n : k = n
      BY <1>1, <2>1
    <3>2. IsEnd(l, i, g)
      BY <3>1 DEF IsEnd, EndRest
    <3> QED BY <3>2
  <2>2. CASE i # n
    <3>1. i + 1 \in (i + 1)..n
      BY <1>1, <2>2
    <3>2. PICK g : IsEnd(l, i + 1, g)
      BY <1>2, <3>1
    <3> DEFINE h == [k \in i..n |-> IF k = i THEN EndRest(l, g, i) ELSE g[k]]
    <3>3. ASSUME NEW k \in i..n PROVE h[k] = EndRest(l, h, k)
      <4>1. k # n => k + 1 \in (i + 1)..n
        BY <1>1
      <4>2. At(l, k + 2) = Quote => k + 2 \in (i + 1)..n
        BY <1>1, AtSecond
      <4>3. \A m \in (i + 1)..n : h[m] = g[m]
        BY <1>1
      <4>4. EndRest(l, h, k) = EndRest(l, g, k)
        BY <4>1, <4>2, <4>3 DEF EndRest
      <4>5. CASE k = i
        BY <4>4, <4>5
      <4>6. CASE k # i
        <5>1. k \in (i + 1)..n
          BY <1>1, <4>6
        <5>2. g[k] = EndRest(l, g, k)
          BY <3>2, <5>1, EndAt
        <5> QED BY <4>3, <4>4, <5>1, <5>2
      <4> QED BY <4>5, <4>6
    <3>4. h = [k \in i..n |-> EndRest(l, h, k)]
      BY <3>3
    <3>5. IsEnd(l, i, h)
      BY <3>4 DEF IsEnd
    <3> QED BY <3>5
  <2> QED BY <2>1, <2>2
<1>3. 0 \in Int /\ n \in Int /\ 0 \in 0..n
  BY <1>1
<1> HIDE DEF T
<1>4. 0..n \subseteq T
  BY <1>2, <1>3, BackwardInduction, Zenon
<1> QED BY <1>3, <1>4 DEF T

LEMMA EndStep ==
  ASSUME NEW S, NEW l \in Seq(S), NEW i \in 0..Len(l)
  PROVE  ReplacementEnd(l, i) =
           IF i = Len(l) THEN i
           ELSE IF l[i + 1] # Quote THEN ReplacementEnd(l, i + 1)
           ELSE IF At(l, i + 2) = Quote THEN ReplacementEnd(l, i + 2)
           ELSE i
<1> DEFINE f == CHOOSE g : IsEnd(l, 0, g)
<1>1. \A k : ReplacementEnd(l, k) = f[k]
  BY DEF ReplacementEnd, IsEnd, EndRest
<1>2. IsEnd(l, 0, f)
  <2>1. \E g : IsEnd(l, 0, g)
    BY EndExists
  <2> QED BY <2>1, Zenon
<1> HIDE DEF f
<1>3. f[i] = EndRest(l, f, i)
  BY <1>2, EndAt
<1> QED BY <1>1, <1>3 DEF EndRest

LEMMA EndType ==
  ASSUME NEW S, NEW l \in Seq(S), NEW i \in 0..Len(l)
  PROVE  ReplacementEnd(l, i) \in i..Len(l)
<1> DEFINE n == Len(l)
           T == {k \in 0..n : ReplacementEnd(l, k) \in k..n}
<1>1. n \in Nat
  OBVIOUS
<1>2. ASSUME NEW k \in 0..n, (k + 1)..n \subseteq T PROVE k \in T
  <2>1. k # n => k + 1 \in T /\ ReplacementEnd(l, k + 1) \in (k + 1)..n
    BY <1>1, <1>2
  <2>2. At(l, k + 2) = Quote => k + 2 \in T /\ ReplacementEnd(l, k + 2) \in (k + 2)..n
    BY <1>1, <1>2, AtSecond
  <2> QED BY <1>1, <2>1, <2>2, EndStep
<1>3. 0 \in Int /\ n \in Int
  BY <1>1
<1> HIDE DEF T
<1>4. 0..n \subseteq T
  BY <1>2, <1>3, BackwardInduction, Zenon
<1> QED BY <1>4 DEF T

(* In a string the loop ends before the quote that closes it.               *)
LEMMA EndCloses ==
  ASSUME NEW S, NEW l \in Seq(S), NEW i \in 0..Len(l), ~Even(Quotes(l, i))
  PROVE  /\ \A j \in (i + 1)..ReplacementEnd(l, i) : ~Closes(l, j)
         /\ ReplacementEnd(l, i) < Len(l) => Closes(l, ReplacementEnd(l, i) + 1)
<1> DEFINE n == Len(l)
           r(k) == ReplacementEnd(l, k)
           Good(k) == /\ \A j \in (k + 1)..r(k) : ~Closes(l, j)
                      /\ r(k) < n => Closes(l, r(k) + 1)
           T == {k \in 0..n : ~Even(Quotes(l, k)) => Good(k)}
<1>1. n \in Nat
  OBVIOUS
<1>2. ASSUME NEW k \in 0..n, (k + 1)..n \subseteq T PROVE k \in T
  <2> SUFFICES ASSUME ~Even(Quotes(l, k)) PROVE Good(k)
    OBVIOUS
  <2>1. r(k) \in k..n
    BY EndType
  <2>2. CASE k = n
    BY <1>1, <2>2, EndStep
  <2>3. CASE k # n /\ l[k + 1] # Quote
    <3>1. k + 1 \in (k + 1)..n
      BY <1>1, <2>3
    <3>2. r(k) = r(k + 1) /\ ~Even(Quotes(l, k + 1)) /\ ~Closes(l, k + 1)
      BY <2>3, EndStep, Parity DEF Closes
    <3>3. Good(k + 1)
      BY <1>2, <3>1, <3>2
    <3>4. \A j \in (k + 1)..r(k) : j = k + 1 \/ j \in ((k + 1) + 1)..r(k)
      BY <2>1
    <3> QED BY <3>2, <3>3, <3>4
  <2>4. CASE k # n /\ l[k + 1] = Quote /\ At(l, k + 2) = Quote
    <3>1. k + 2 \in (k + 1)..n /\ l[k + 2] = Quote /\ (k + 1) + 1 = k + 2
      BY <1>1, <2>4, AtSecond
    <3>2. /\ r(k) = r(k + 2) /\ Even(Quotes(l, k + 1)) /\ ~Even(Quotes(l, (k + 1) + 1))
          /\ ~Closes(l, k + 1)
      BY <2>4, <3>1, EndStep, Parity DEF Closes
    <3>3. Good(k + 2) /\ ~Closes(l, k + 2)
      BY <1>2, <3>1, <3>2 DEF Closes
    <3>4. \A j \in (k + 1)..r(k) : j = k + 1 \/ j = k + 2 \/ j \in ((k + 2) + 1)..r(k)
      BY <2>1
    <3> QED BY <3>2, <3>3, <3>4
  <2>5. CASE k # n /\ l[k + 1] = Quote /\ At(l, k + 2) # Quote
    <3>1. r(k) = k /\ Even(Quotes(l, k + 1))
      BY <2>5, EndStep, Parity
    <3>2. Closes(l, k + 1)
      BY <2>5, <3>1 DEF Closes
    <3>3. (k + 1)..k = {}
      OBVIOUS
    <3> QED BY <3>1, <3>2, <3>3
  <2> QED BY <2>2, <2>3, <2>4, <2>5
<1>3. 0 \in Int /\ n \in Int
  BY <1>1
<1> HIDE DEF T
<1>4. 0..n \subseteq T
  BY <1>2, <1>3, BackwardInduction, Zenon
<1> QED BY <1>4 DEF T

LEMMA StringEndIs ==
  ASSUME NEW S, NEW l \in Seq(S), NEW c \in 0..Len(l), NEW r \in c..Len(l),
         \A j \in (c + 1)..r : ~Closes(l, j), r < Len(l) => Closes(l, r + 1)
  PROVE  StringEnd(l, c) = r
<1> DEFINE E == {Len(l)} \cup {j - 1 : j \in {k \in (c + 1)..Len(l) : Closes(l, k)}}
<1>1. Len(l) \in Nat
  OBVIOUS
<1>2. r \in E
  <2>1. CASE r = Len(l)
    BY <2>1
  <2>2. CASE r < Len(l)
    <3>1. r + 1 \in (c + 1)..Len(l) /\ Closes(l, r + 1) /\ (r + 1) - 1 = r
      BY <1>1, <2>2
    <3> QED BY <3>1
  <2> QED BY <1>1, <2>1, <2>2
<1>3. E \in SUBSET Int
  BY <1>1
<1>4. \A e \in E : r <= e
  <2> SUFFICES ASSUME NEW k \in (c + 1)..Len(l), Closes(l, k) PROVE r <= k - 1
    BY <1>1
  <2>1. k \notin (c + 1)..r
    OBVIOUS
  <2> QED BY <1>1, <2>1
<1> HIDE DEF E
<1>5. Min(E) = r
  BY <1>2, <1>3, <1>4, MinimumIs
<1> QED BY <1>5 DEF StringEnd, E
-----------------------------------------------------------------------------
(* What is doubled and then halved again is as it was.                      *)

DecodeRest(s, f, i) ==
  IF i > Len(s) THEN <<>>
  ELSE IF s[i] = Quote /\ At(s, i + 1) = Quote THEN <<Quote>> \o f[i + 2]
  ELSE <<s[i]>> \o f[i + 1]

IsDecoding(s, a, f) == f = [i \in a..(Len(s) + 1) |-> DecodeRest(s, f, i)]

LEMMA DecodeAt ==
  ASSUME NEW s, NEW a, NEW f, IsDecoding(s, a, f), NEW i \in a..(Len(s) + 1)
  PROVE  f[i] = DecodeRest(s, f, i)
<1> DEFINE R(k) == DecodeRest(s, f, k)
<1>1. f = [k \in a..(Len(s) + 1) |-> R(k)]
  BY DEF IsDecoding
<1> HIDE DEF R
<1>2. f[i] = R(i)
  BY <1>1
<1> QED BY <1>2 DEF R

LEMMA AtNext ==
  ASSUME NEW S, NEW l \in Seq(S), NEW i \in Nat
  PROVE  At(l, i + 1) = Quote <=> i + 1 \in 1..Len(l) /\ l[i + 1] = Quote
<1>1. i + 1 \in Int
  OBVIOUS
<1> QED BY <1>1, AtDomain

LEMMA DecodingExists ==
  ASSUME NEW S, NEW s \in Seq(S)
  PROVE  \E f : IsDecoding(s, 1, f)
<1> DEFINE n == Len(s) + 1
           T == {i \in 1..n : \E f : IsDecoding(s, i, f)}
<1>1. n \in Nat /\ n = Len(s) + 1
  OBVIOUS
<1> HIDE DEF n
<1>2. ASSUME NEW i \in 1..n, (i + 1)..n \subseteq T PROVE i \in T
  <2>1. CASE i = n
    <3> DEFINE g == [k \in i..n |-> <<>>]
    <3>1. \A k \in i..n : k > Len(s)
      BY <1>1, <2>1
    <3>2. g = [k \in i..n |-> DecodeRest(s, g, k)]
      BY <3>1 DEF DecodeRest
    <3>3. IsDecoding(s, i, g)
      BY <1>1, <3>2 DEF IsDecoding
    <3> QED BY <3>3
  <2>2. CASE i # n
    <3>1. i + 1 \in (i + 1)..n
      BY <1>1, <2>2
    <3>2. PICK g : IsDecoding(s, i + 1, g)
      BY <1>2, <3>1
    <3> DEFINE h == [k \in i..n |-> IF k = i THEN DecodeRest(s, g, i) ELSE g[k]]
    <3>3. ASSUME NEW k \in i..n PROVE h[k] = DecodeRest(s, h, k)
      <4>1. ~(k > Len(s)) => k + 1 \in (i + 1)..n
        BY <1>1
      <4>2. At(s, k + 1) = Quote => k + 2 \in (i + 1)..n
        BY <1>1, AtNext
      <4>3. \A m \in (i + 1)..n : h[m] = g[m]
        BY <1>1
      <4>4. DecodeRest(s, h, k) = DecodeRest(s, g, k)
        BY <4>1, <4>2, <4>3 DEF DecodeRest
      <4>5. CASE k = i
        BY <4>4, <4>5
      <4>6. CASE k # i
        <5>1. k \in (i + 1)..n
          BY <1>1, <4>6
        <5>2. g[k] = DecodeRest(s, g, k)
          BY <1>1, <3>2, <5>1, DecodeAt
        <5> QED BY <4>3, <4>4, <5>1, <5>2
      <4> QED BY <4>5, <4>6
    <3>4. h = [k \in i..n |-> DecodeRest(s, h, k)]
      BY <3>3
    <3>5. IsDecoding(s, i, h)
      BY <1>1, <3>4 DEF IsDecoding
    <3> QED BY <3>5
  <2> QED BY <2>1, <2>2
<1>3. 1 \in Int /\ n \in Int /\ 1 \in 1..n
  BY <1>1
<1> HIDE DEF T
<1>4. 1..n \subseteq T
  BY <1>2, <1>3, BackwardInduction, Zenon
<1> QED BY <1>3, <1>4 DEF T

DecodedFrom(s, i) == (CHOOSE f : IsDecoding(s, 1, f))[i]

LEMMA DecodeStep ==
  ASSUME NEW S, NEW s \in Seq(S)
  PROVE  /\ Decode(s) = DecodedFrom(s, 1)
         /\ \A i \in 1..(Len(s) + 1) : DecodedFrom(s, i) =
              IF i > Len(s) THEN <<>>
              ELSE IF s[i] = Quote /\ At(s, i + 1) = Quote THEN <<Quote>> \o DecodedFrom(s, i + 2)
              ELSE <<s[i]>> \o DecodedFrom(s, i + 1)
<1> DEFINE f == CHOOSE g : IsDecoding(s, 1, g)
<1>1. Decode(s) = f[1] /\ \A k : DecodedFrom(s, k) = f[k]
  BY DEF Decode, DecodedFrom, IsDecoding, DecodeRest
<1>2. IsDecoding(s, 1, f)
  <2>1. \E g : IsDecoding(s, 1, g)
    BY DecodingExists
  <2> QED BY <2>1, Zenon
<1> HIDE DEF f
<1>3. \A i \in 1..(Len(s) + 1) : f[i] = DecodeRest(s, f, i)
  BY <1>2, DecodeAt
<1> QED BY <1>1, <1>3 DEF DecodeRest

LEMMA DecodeType ==
  ASSUME NEW S, NEW s \in Seq(S)
  PROVE  Decode(s) \in Seq(S)
<1> DEFINE n == Len(s) + 1
           T == {k \in 1..n : DecodedFrom(s, k) \in Seq(S)}
<1>1. n \in Nat /\ n = Len(s) + 1
  OBVIOUS
<1> HIDE DEF n
<1>2. ASSUME NEW k \in 1..n, (k + 1)..n \subseteq T PROVE k \in T
  <2>1. CASE k = n
    <3>1. k \in 1..(Len(s) + 1) /\ k > Len(s)
      BY <1>1, <2>1
    <3>2. DecodedFrom(s, k) = <<>>
      BY <3>1, DecodeStep
    <3> QED BY <3>2
  <2>2. CASE k # n
    <3>1. k \in 1..Len(s) /\ ~(k > Len(s))
      BY <1>1, <2>2
    <3>2. s[k] \in S
      BY <3>1
    <3>3. PICK m \in {k + 1, k + 2} : m \in (k + 1)..n /\ DecodedFrom(s, k) = <<s[k]>> \o DecodedFrom(s, m)
      <4>1. CASE s[k] = Quote /\ At(s, k + 1) = Quote
        <5>1. k + 2 \in (k + 1)..n
          BY <1>1, <4>1, AtNext
        <5>2. DecodedFrom(s, k) = <<s[k]>> \o DecodedFrom(s, k + 2)
          BY <1>1, <3>1, <4>1, DecodeStep
        <5> QED BY <5>1, <5>2
      <4>2. CASE ~(s[k] = Quote /\ At(s, k + 1) = Quote)
        <5>1. k + 1 \in (k + 1)..n
          BY <1>1, <3>1
        <5>2. DecodedFrom(s, k) = <<s[k]>> \o DecodedFrom(s, k + 1)
          BY <1>1, <3>1, <4>2, DecodeStep
        <5> QED BY <5>1, <5>2
      <4> QED BY <4>1, <4>2
    <3>4. DecodedFrom(s, m) \in Seq(S) /\ <<s[k]>> \in Seq(S)
      BY <1>2, <3>2, <3>3
    <3>5. <<s[k]>> \o DecodedFrom(s, m) \in Seq(S)
      BY <3>4, ConcatProperties
    <3> QED BY <3>3, <3>5
  <2> QED BY <2>1, <2>2
<1>3. 1 \in Int /\ n \in Int /\ 1 \in 1..n
  BY <1>1
<1> HIDE DEF T
<1>4. 1..n \subseteq T
  BY <1>2, <1>3, BackwardInduction, Zenon
<1>5. DecodedFrom(s, 1) \in Seq(S)
  BY <1>3, <1>4 DEF T
<1> QED BY <1>5, DecodeStep

EncodeRest(s, f, i) ==
  IF i = 0 THEN <<>>
  ELSE f[i - 1] \o IF s[i] = Quote THEN <<Quote, Quote>> ELSE <<s[i]>>

IsEncoding(s, m, f) == f = [i \in 0..m |-> EncodeRest(s, f, i)]

LEMMA EncodeAt ==
  ASSUME NEW s, NEW m, NEW f, IsEncoding(s, m, f), NEW i \in 0..m
  PROVE  f[i] = EncodeRest(s, f, i)
<1> DEFINE R(k) == EncodeRest(s, f, k)
<1>1. f = [k \in 0..m |-> R(k)]
  BY DEF IsEncoding
<1> HIDE DEF R
<1>2. f[i] = R(i)
  BY <1>1
<1> QED BY <1>2 DEF R

LEMMA EncodingExists ==
  ASSUME NEW s, NEW m \in Nat
  PROVE  \E f : IsEncoding(s, m, f)
<1> DEFINE T == {n \in Nat : \E f : IsEncoding(s, n, f)}
<1>1. 0 \in T
  <2> DEFINE g == [n \in 0..0 |-> <<>>]
  <2>1. IsEncoding(s, 0, g)
    BY DEF IsEncoding, EncodeRest
  <2> QED BY <2>1
<1>2. ASSUME NEW n \in Nat, n \in T PROVE n + 1 \in T
  <2>1. PICK g : IsEncoding(s, n, g)
    BY <1>2
  <2> DEFINE h == [i \in 0..(n + 1) |-> IF i = n + 1 THEN EncodeRest(s, g, n + 1) ELSE g[i]]
  <2>2. ASSUME NEW i \in 0..(n + 1) PROVE h[i] = EncodeRest(s, h, i)
    <3>1. i # 0 => i - 1 \in 0..n /\ h[i - 1] = g[i - 1]
      OBVIOUS
    <3>2. EncodeRest(s, h, i) = EncodeRest(s, g, i)
      BY <3>1 DEF EncodeRest
    <3>3. CASE i = n + 1
      BY <3>2, <3>3
    <3>4. CASE i # n + 1
      <4>1. i \in 0..n /\ h[i] = g[i]
        BY <3>4
      <4>2. g[i] = EncodeRest(s, g, i)
        BY <2>1, <4>1, EncodeAt
      <4> QED BY <3>2, <4>1, <4>2
    <3> QED BY <3>3, <3>4
  <2>3. h = [i \in 0..(n + 1) |-> EncodeRest(s, h, i)]
    BY <2>2
  <2>4. IsEncoding(s, n + 1, h)
    BY <2>3 DEF IsEncoding
  <2> QED BY <2>4
<1> HIDE DEF T
<1>3. Nat \subseteq T
  BY <1>1, <1>2, SetInduction
<1> QED BY <1>3 DEF T

(* at[k] says where the first k characters end in e, the encoding of s.     *)
Encodes(s, e, at) ==
  /\ at[0] = 0 /\ at[Len(s)] = Len(e)
  /\ \A k \in 0..Len(s) : at[k] \in 0..Len(e)
  /\ \A k \in 0..(Len(s) - 1) :
       /\ at[k + 1] = at[k] + IF s[k + 1] = Quote THEN 2 ELSE 1
       /\ e[at[k] + 1] = s[k + 1]
       /\ s[k + 1] = Quote => e[at[k] + 2] = Quote

LEMMA EncodeStep ==
  ASSUME NEW S, NEW e \in Seq(S), NEW x \in S,
         NEW w, w = IF x = Quote THEN <<Quote, Quote>> ELSE <<x>>
  PROVE  /\ e \o w \in Seq(S)
         /\ Len(e \o w) = Len(e) + IF x = Quote THEN 2 ELSE 1
         /\ \A j \in 1..Len(e) : (e \o w)[j] = e[j]
         /\ (e \o w)[Len(e) + 1] = x
         /\ x = Quote => (e \o w)[Len(e) + 2] = Quote
<1>1. /\ w \in Seq(S) /\ w[1] = x /\ Len(w) = (IF x = Quote THEN 2 ELSE 1)
      /\ x = Quote => w[2] = Quote
  OBVIOUS
<1>2. Len(e) \in Nat
  OBVIOUS
<1>3. /\ e \o w \in Seq(S) /\ Len(e \o w) = Len(e) + Len(w)
      /\ \A j \in 1..(Len(e) + Len(w)) : (e \o w)[j] = IF j <= Len(e) THEN e[j] ELSE w[j - Len(e)]
  BY <1>1, ConcatProperties
<1>4. (e \o w)[Len(e) + 1] = w[1]
  <2>1. Len(e) + 1 \in 1..(Len(e) + Len(w)) /\ ~(Len(e) + 1 <= Len(e)) /\ (Len(e) + 1) - Len(e) = 1
    BY <1>1, <1>2
  <2> QED BY <1>3, <2>1
<1>5. x = Quote => (e \o w)[Len(e) + 2] = w[2]
  <2> SUFFICES ASSUME x = Quote PROVE (e \o w)[Len(e) + 2] = w[2]
    OBVIOUS
  <2>1. Len(e) + 2 \in 1..(Len(e) + Len(w)) /\ ~(Len(e) + 2 <= Len(e)) /\ (Len(e) + 2) - Len(e) = 2
    BY <1>1, <1>2
  <2> QED BY <1>3, <2>1
<1> QED BY <1>1, <1>2, <1>3, <1>4, <1>5

EncodedUpTo(s, S, f, m) ==
  /\ f[m] \in Seq(S)
  /\ \A k \in 0..m : Len(f[k]) \in 0..Len(f[m])
  /\ \A k \in 0..(m - 1) :
       /\ Len(f[k + 1]) = Len(f[k]) + IF s[k + 1] = Quote THEN 2 ELSE 1
       /\ f[m][Len(f[k]) + 1] = s[k + 1]
       /\ s[k + 1] = Quote => f[m][Len(f[k]) + 2] = Quote
       /\ Len(f[k + 1]) <= Len(f[m])

LEMMA EncodeIs ==
  ASSUME NEW S, NEW s \in Seq(S)
  PROVE  Encode(s) \in Seq(S) /\ \E at : Encodes(s, Encode(s), at)
<1> DEFINE n == Len(s)
           f == CHOOSE g : IsEncoding(s, n, g)
<1>1. n \in Nat /\ n = Len(s)
  OBVIOUS
<1>2. Encode(s) = f[n]
  BY DEF Encode, IsEncoding, EncodeRest
<1>3. IsEncoding(s, n, f)
  <2>1. \E g : IsEncoding(s, n, g)
    BY <1>1, EncodingExists
  <2> QED BY <2>1, Zenon
<1> HIDE DEF f, n
<1>4. \A k \in 0..n : f[k] = EncodeRest(s, f, k)
  BY <1>3, EncodeAt
<1> DEFINE T == {m \in Nat : m <= n => EncodedUpTo(s, S, f, m)}
<1>5. f[0] = <<>>
  <2>1. 0 \in 0..n
    BY <1>1
  <2>2. f[0] = EncodeRest(s, f, 0)
    BY <1>4, <2>1
  <2> QED BY <2>2 DEF EncodeRest
<1>6. 0 \in T
  <2>1. f[0] \in Seq(S) /\ Len(f[0]) = 0
    BY <1>5
  <2>2. (\A k \in 0..0 : k = 0) /\ 0..(0 - 1) = {}
    OBVIOUS
  <2>3. EncodedUpTo(s, S, f, 0)
    BY <2>1, <2>2 DEF EncodedUpTo
  <2>4. 0 \in Nat
    OBVIOUS
  <2> QED BY <2>3, <2>4
<1>7. ASSUME NEW m \in Nat, m \in T PROVE m + 1 \in T
  <2> SUFFICES ASSUME m + 1 <= n PROVE EncodedUpTo(s, S, f, m + 1)
    OBVIOUS
  <2> DEFINE e == f[m]
             x == s[m + 1]
             w == IF x = Quote THEN <<Quote, Quote>> ELSE <<x>>
             d == e \o w
  <2>1. EncodedUpTo(s, S, f, m)
    BY <1>1, <1>7
  <2>2. e \in Seq(S) /\ x \in S /\ w = IF x = Quote THEN <<Quote, Quote>> ELSE <<x>>
    BY <1>1, <2>1 DEF EncodedUpTo
  <2>3. f[m + 1] = d
    <3>1. m + 1 \in 0..n /\ m + 1 # 0 /\ (m + 1) - 1 = m
      BY <1>1
    <3>2. f[m + 1] = EncodeRest(s, f, m + 1)
      BY <1>4, <3>1
    <3> QED BY <3>1, <3>2 DEF EncodeRest
  <2>4. f[m] = e /\ s[m + 1] = x
    OBVIOUS
  <2> HIDE DEF e, x, w
  <2>5. /\ d \in Seq(S) /\ Len(d) = Len(e) + IF x = Quote THEN 2 ELSE 1
        /\ \A j \in 1..Len(e) : d[j] = e[j]
        /\ d[Len(e) + 1] = x
        /\ x = Quote => d[Len(e) + 2] = Quote
    BY <2>2, EncodeStep
  <2> HIDE DEF d
  <2>6. Len(e) \in Nat /\ Len(d) \in Nat /\ Len(e) <= Len(d)
    BY <2>2, <2>5
  <2>7. \A k \in 0..(m + 1) : Len(f[k]) \in 0..Len(d)
    <3> SUFFICES ASSUME NEW k \in 0..(m + 1) PROVE Len(f[k]) \in 0..Len(d)
      OBVIOUS
    <3>1. CASE k = m + 1
      BY <2>3, <2>6, <3>1
    <3>2. CASE k # m + 1
      <4>1. k \in 0..m
        BY <3>2
      <4>2. Len(f[k]) \in 0..Len(e)
        BY <2>1, <2>4, <4>1 DEF EncodedUpTo
      <4> QED BY <2>6, <4>2
    <3> QED BY <3>1, <3>2
  <2>8. ASSUME NEW k \in 0..m
        PROVE  /\ Len(f[k + 1]) = Len(f[k]) + IF s[k + 1] = Quote THEN 2 ELSE 1
               /\ d[Len(f[k]) + 1] = s[k + 1]
               /\ s[k + 1] = Quote => d[Len(f[k]) + 2] = Quote
               /\ Len(f[k + 1]) <= Len(d)
    <3>1. CASE k = m
      <4>1. f[k] = e /\ f[k + 1] = d /\ s[k + 1] = x
        BY <2>3, <2>4, <3>1
      <4> QED BY <2>5, <2>6, <4>1
    <3>2. CASE k # m
      <4>1. k \in 0..(m - 1) /\ k \in 0..m
        BY <3>2
      <4>6. k + 1 \in 0..m
        BY <4>1
      <4>7. Len(f[k + 1]) \in Nat /\ Len(f[k]) \in Nat
        BY <2>1, <2>4, <2>6, <4>1, <4>6 DEF EncodedUpTo
      <4>2. /\ Len(f[k + 1]) = Len(f[k]) + IF s[k + 1] = Quote THEN 2 ELSE 1
            /\ e[Len(f[k]) + 1] = s[k + 1]
            /\ s[k + 1] = Quote => e[Len(f[k]) + 2] = Quote
            /\ Len(f[k + 1]) <= Len(e)
        BY <2>1, <2>4, <4>1 DEF EncodedUpTo
      <4>8. /\ Len(f[k + 1]) >= Len(f[k]) + 1
            /\ s[k + 1] = Quote => Len(f[k + 1]) = Len(f[k]) + 2
        <5>1. CASE s[k + 1] = Quote
          <6>1. Len(f[k + 1]) = Len(f[k]) + 2
            BY <4>2, <5>1
          <6> QED BY <4>7, <6>1
        <5>2. CASE s[k + 1] # Quote
          <6>1. Len(f[k + 1]) = Len(f[k]) + 1
            BY <4>2, <5>2
          <6> QED BY <4>7, <5>2, <6>1
        <5> QED BY <5>1, <5>2
      <4>9. Len(f[k + 1]) <= Len(e)
        BY <4>2
      <4>3. Len(f[k]) + 1 \in 1..Len(e)
        BY <2>6, <4>7, <4>8, <4>9
      <4>4. s[k + 1] = Quote => Len(f[k]) + 2 \in 1..Len(e)
        BY <2>6, <4>7, <4>8, <4>9
      <4>5. Len(f[k + 1]) <= Len(d)
        BY <2>6, <4>7, <4>9
      <4> QED BY <2>5, <4>2, <4>3, <4>4, <4>5
    <3> QED BY <3>1, <3>2
  <2>9. (m + 1) - 1 = m
    OBVIOUS
  <2> QED BY <2>3, <2>5, <2>7, <2>8, <2>9 DEF EncodedUpTo
<1> HIDE DEF T
<1>8. Nat \subseteq T
  BY <1>6, <1>7, SetInduction
<1>9. EncodedUpTo(s, S, f, n)
  BY <1>1, <1>8 DEF T
<1> DEFINE at == [k \in 0..n |-> Len(f[k])]
<1>10. Encodes(s, f[n], at)
  <2>1. at[0] = 0 /\ at[n] = Len(f[n])
    BY <1>1, <1>5
  <2>2. \A k \in 0..n : at[k] \in 0..Len(f[n])
    BY <1>9 DEF EncodedUpTo
  <2>3. \A k \in 0..(n - 1) : at[k + 1] = Len(f[k + 1]) /\ at[k] = Len(f[k])
    BY <1>1
  <2> HIDE DEF at
  <2>4. \A k \in 0..(n - 1) :
          /\ at[k + 1] = at[k] + IF s[k + 1] = Quote THEN 2 ELSE 1
          /\ f[n][at[k] + 1] = s[k + 1]
          /\ s[k + 1] = Quote => f[n][at[k] + 2] = Quote
    BY <1>9, <2>3 DEF EncodedUpTo
  <2> QED BY <1>1, <2>1, <2>2, <2>4 DEF Encodes
<1> QED BY <1>2, <1>9, <1>10 DEF EncodedUpTo

LEMMA DecodeEncode ==
  ASSUME NEW S, NEW s \in Seq(S)
  PROVE  Decode(Encode(s)) = s
<1> DEFINE n == Len(s)
<1>1. n \in Nat /\ n = Len(s)
  OBVIOUS
<1> HIDE DEF n
<1>2. PICK e \in Seq(S) : e = Encode(s)
  BY EncodeIs
<1>3. PICK at : Encodes(s, e, at)
  BY <1>2, EncodeIs
<1> DEFINE T == {k \in 0..n : DecodedFrom(e, at[k] + 1) = SubSeq(s, k + 1, n)}
<1>4. Len(e) \in Nat
  OBVIOUS
<1>5. ASSUME NEW k \in 0..n, (k + 1)..n \subseteq T PROVE k \in T
  <2>1. at[k] \in 0..Len(e)
    BY <1>1, <1>3 DEF Encodes
  <2>2. at[k] + 1 \in 1..(Len(e) + 1)
    BY <1>4, <2>1
  <2>3. CASE k = n
    <3>1. at[k] = Len(e)
      BY <1>1, <1>3, <2>3 DEF Encodes
    <3>4. at[k] + 1 > Len(e)
      BY <1>4, <3>1
    <3>2. DecodedFrom(e, at[k] + 1) = <<>>
      BY <2>2, <3>4, DecodeStep
    <3>3. SubSeq(s, k + 1, n) = <<>>
      BY <1>1, <2>3
    <3> QED BY <3>2, <3>3
  <2>4. CASE k # n
    <3>1. k \in 0..(n - 1) /\ k + 1 \in (k + 1)..n /\ k + 1 \in 1..n
      BY <1>1, <2>4
    <3>2. /\ at[k + 1] = at[k] + IF s[k + 1] = Quote THEN 2 ELSE 1
          /\ e[at[k] + 1] = s[k + 1] /\ at[k + 1] \in 0..Len(e)
          /\ s[k + 1] = Quote => e[at[k] + 2] = Quote
      BY <1>1, <1>3, <3>1 DEF Encodes
    <3>3. DecodedFrom(e, at[k + 1] + 1) = SubSeq(s, k + 2, n)
      <4> HIDE DEF T
      <4>1. k + 1 \in T
        BY <1>5, <3>1
      <4>2. (k + 1) + 1 = k + 2
        OBVIOUS
      <4> QED BY <4>1, <4>2 DEF T
    <3>4. DecodedFrom(e, at[k] + 1) = <<s[k + 1]>> \o DecodedFrom(e, at[k + 1] + 1)
      <4>1. CASE s[k + 1] = Quote
        <5>1. /\ (at[k] + 1) + 1 = at[k] + 2 /\ at[k] + 2 \in 1..Len(e)
              /\ ~(at[k] + 1 > Len(e)) /\ (at[k] + 1) + 2 = at[k + 1] + 1
              /\ at[k] + 1 \in Nat
          BY <1>4, <2>1, <3>2, <4>1
        <5>2. At(e, (at[k] + 1) + 1) = Quote
          BY <3>2, <4>1, <5>1, AtNext
        <5> QED BY <2>2, <3>2, <4>1, <5>1, <5>2, DecodeStep
      <4>2. CASE s[k + 1] # Quote
        <5>1. ~(at[k] + 1 > Len(e)) /\ (at[k] + 1) + 1 = at[k + 1] + 1
          BY <1>4, <2>1, <3>2, <4>2
        <5> QED BY <2>2, <3>2, <4>2, <5>1, DecodeStep
      <4> QED BY <4>1, <4>2
    <3>5. SubSeq(s, k + 1, n) = <<s[k + 1]>> \o SubSeq(s, (k + 1) + 1, n)
      <4>1. n \in (k + 1)..Len(s)
        BY <1>1, <3>1
      <4> QED BY <3>1, <4>1, SubSeqRecursiveFirst
    <3>6. (k + 1) + 1 = k + 2
      OBVIOUS
    <3> QED BY <3>3, <3>4, <3>5, <3>6
  <2> QED BY <2>3, <2>4
<1>6. 0 \in Int /\ n \in Int /\ 0 \in 0..n
  BY <1>1
<1> HIDE DEF T
<1>7. 0..n \subseteq T
  BY <1>5, <1>6, BackwardInduction, Zenon
<1>8. DecodedFrom(e, 1) = SubSeq(s, 1, n)
  <2>1. at[0] + 1 = 1 /\ 0 + 1 = 1
    BY <1>3 DEF Encodes
  <2> QED BY <1>6, <1>7, <2>1 DEF T
<1>9. SubSeq(s, 1, n) = s
  BY <1>1
<1>10. Decode(e) = DecodedFrom(e, 1)
  BY <1>2, DecodeStep
<1> QED BY <1>2, <1>8, <1>9, <1>10
-----------------------------------------------------------------------------
(* What is a comment, and the loop that leaves it out.                      *)

LEMMA CommentedNext ==
  ASSUME NEW l, NEW i \in Nat
  PROVE  Commented(l, i + 1) <=> Commented(l, i) \/ (l[i + 1] = Semicolon /\ Even(Quotes(l, i + 1)))
<1>1. \A j \in 1..(i + 1) : j = i + 1 \/ j \in 1..i
  OBVIOUS
<1>2. i + 1 \in 1..(i + 1) /\ \A j \in 1..i : j \in 1..(i + 1)
  OBVIOUS
<1> QED BY <1>1, <1>2 DEF Commented

LEMMA CommentedLater ==
  ASSUME NEW l, NEW i \in Int, NEW j \in Int, i <= j, Commented(l, i)
  PROVE  Commented(l, j)
<1>1. PICK k \in 1..i : l[k] = Semicolon /\ Even(Quotes(l, k))
  BY DEF Commented
<1>2. k \in 1..j
  OBVIOUS
<1> QED BY <1>1, <1>2 DEF Commented

CommentRest(l, f, at) ==
  LET i == at[1]
      inside == at[2]
  IN  IF i > Len(l) THEN i
      ELSE IF l[i] = Semicolon /\ ~inside THEN i
      ELSE IF l[i] # Quote THEN f[<<i + 1, inside>>]
      ELSE IF inside /\ At(l, i + 1) = Quote THEN f[<<i + 2, inside>>]
      ELSE f[<<i + 1, ~inside>>]

IsCommentScan(l, a, f) ==
  f = [at \in (a..(Len(l) + 1)) \X BOOLEAN |-> CommentRest(l, f, at)]

LEMMA CommentAt ==
  ASSUME NEW l, NEW a, NEW f, IsCommentScan(l, a, f), NEW at \in (a..(Len(l) + 1)) \X BOOLEAN
  PROVE  f[at] = CommentRest(l, f, at)
<1> DEFINE R(k) == CommentRest(l, f, k)
<1>1. f = [k \in (a..(Len(l) + 1)) \X BOOLEAN |-> R(k)]
  BY DEF IsCommentScan
<1> HIDE DEF R
<1>2. f[at] = R(at)
  BY <1>1
<1> QED BY <1>2 DEF R

LEMMA CommentScanExists ==
  ASSUME NEW S, NEW l \in Seq(S)
  PROVE  \E f : IsCommentScan(l, 1, f)
<1> DEFINE n == Len(l) + 1
           T == {i \in 1..n : \E f : IsCommentScan(l, i, f)}
<1>1. n \in Nat /\ n = Len(l) + 1
  OBVIOUS
<1> HIDE DEF n
<1>2. ASSUME NEW i \in 1..n, (i + 1)..n \subseteq T PROVE i \in T
  <2>1. CASE i = n
    <3> DEFINE g == [at \in (i..n) \X BOOLEAN |-> at[1]]
    <3>1. \A at \in (i..n) \X BOOLEAN : at[1] > Len(l)
      BY <1>1, <2>1
    <3>2. \A at \in (i..n) \X BOOLEAN : CommentRest(l, g, at) = at[1]
      BY <3>1 DEF CommentRest
    <3>3. g = [at \in (i..n) \X BOOLEAN |-> CommentRest(l, g, at)]
      BY <3>2
    <3>4. IsCommentScan(l, i, g)
      BY <1>1, <3>3 DEF IsCommentScan
    <3> QED BY <3>4
  <2>2. CASE i # n
    <3>1. i + 1 \in (i + 1)..n
      BY <1>1, <2>2
    <3>2. PICK g : IsCommentScan(l, i + 1, g)
      BY <1>2, <3>1
    <3> DEFINE h == [at \in (i..n) \X BOOLEAN |-> IF at[1] = i THEN CommentRest(l, g, at) ELSE g[at]]
    <3>3. ASSUME NEW at \in (i..n) \X BOOLEAN PROVE h[at] = CommentRest(l, h, at)
      <4> DEFINE k == at[1]
                 b == at[2]
      <4>1. k \in i..n /\ b \in BOOLEAN /\ at = <<k, b>>
        OBVIOUS
      <4> HIDE DEF k, b
      <4>2. ~(k > Len(l)) => k + 1 \in (i + 1)..n
        BY <1>1, <4>1
      <4>3. At(l, k + 1) = Quote => k + 2 \in (i + 1)..n
        BY <1>1, <4>1, AtNext
      <4>4. \A m \in (i + 1)..n, d \in BOOLEAN : h[<<m, d>>] = g[<<m, d>>]
        BY <1>1
      <4> HIDE DEF h
      <4>5. CommentRest(l, h, at) = CommentRest(l, g, at)
        <5>1. ~(k > Len(l)) =>
                /\ h[<<k + 1, b>>] = g[<<k + 1, b>>]
                /\ h[<<k + 1, ~b>>] = g[<<k + 1, ~b>>]
          <6>1. (~b) \in BOOLEAN
            OBVIOUS
          <6> QED BY <4>1, <4>2, <4>4, <6>1
        <5>2. At(l, k + 1) = Quote => h[<<k + 2, b>>] = g[<<k + 2, b>>]
          BY <4>1, <4>3, <4>4
        <5>3. at[1] = k /\ at[2] = b
          BY <4>1
        <5> QED BY <5>1, <5>2, <5>3, Zenon DEF CommentRest
      <4>6. CASE k = i
        <5>1. h[at] = CommentRest(l, g, at)
          BY <4>1, <4>6 DEF h
        <5> QED BY <4>5, <5>1
      <4>7. CASE k # i
        <5>1. at \in ((i + 1)..n) \X BOOLEAN /\ h[at] = g[at]
          BY <1>1, <4>1, <4>7 DEF h
        <5>2. g[at] = CommentRest(l, g, at)
          BY <1>1, <3>2, <5>1, CommentAt
        <5> QED BY <4>5, <5>1, <5>2
      <4> QED BY <4>6, <4>7
    <3>4. h = [at \in (i..n) \X BOOLEAN |-> CommentRest(l, h, at)]
      BY <3>3
    <3>5. IsCommentScan(l, i, h)
      BY <1>1, <3>4 DEF IsCommentScan
    <3> QED BY <3>5
  <2> QED BY <2>1, <2>2
<1>3. 1 \in Int /\ n \in Int /\ 1 \in 1..n
  BY <1>1
<1> HIDE DEF T
<1>4. 1..n \subseteq T
  BY <1>2, <1>3, BackwardInduction, Zenon
<1> QED BY <1>3, <1>4 DEF T

CommentFrom(l, i, inside) == (CHOOSE f : IsCommentScan(l, 1, f))[<<i, inside>>]

LEMMA CommentStep ==
  ASSUME NEW S, NEW l \in Seq(S)
  PROVE  /\ CommentStart(l) = CommentFrom(l, 1, FALSE)
         /\ \A i \in 1..(Len(l) + 1) :
              /\ CommentFrom(l, i, FALSE) =
                   IF i > Len(l) \/ l[i] = Semicolon THEN i
                   ELSE IF l[i] # Quote THEN CommentFrom(l, i + 1, FALSE)
                   ELSE CommentFrom(l, i + 1, TRUE)
              /\ CommentFrom(l, i, TRUE) =
                   IF i > Len(l) THEN i
                   ELSE IF l[i] # Quote THEN CommentFrom(l, i + 1, TRUE)
                   ELSE IF At(l, i + 1) = Quote THEN CommentFrom(l, i + 2, TRUE)
                   ELSE CommentFrom(l, i + 1, FALSE)
<1> DEFINE f == CHOOSE g : IsCommentScan(l, 1, g)
<1>1. CommentStart(l) = f[<<1, FALSE>>] /\ \A k, b : CommentFrom(l, k, b) = f[<<k, b>>]
  BY DEF CommentStart, CommentFrom, IsCommentScan, CommentRest
<1>2. IsCommentScan(l, 1, f)
  <2>1. \E g : IsCommentScan(l, 1, g)
    BY CommentScanExists
  <2> QED BY <2>1, Zenon
<1> HIDE DEF f
<1>3. ASSUME NEW i \in 1..(Len(l) + 1)
      PROVE  /\ f[<<i, FALSE>>] = CommentRest(l, f, <<i, FALSE>>)
             /\ f[<<i, TRUE>>] = CommentRest(l, f, <<i, TRUE>>)
  <2>1. /\ <<i, FALSE>> \in (1..(Len(l) + 1)) \X BOOLEAN
        /\ <<i, TRUE>> \in (1..(Len(l) + 1)) \X BOOLEAN
    OBVIOUS
  <2> QED BY <1>2, <2>1, CommentAt
<1>4. ASSUME NEW i \in 1..(Len(l) + 1)
      PROVE  /\ CommentRest(l, f, <<i, FALSE>>) =
                  IF i > Len(l) \/ l[i] = Semicolon THEN i
                  ELSE IF l[i] # Quote THEN f[<<i + 1, FALSE>>]
                  ELSE f[<<i + 1, TRUE>>]
             /\ CommentRest(l, f, <<i, TRUE>>) =
                  IF i > Len(l) THEN i
                  ELSE IF l[i] # Quote THEN f[<<i + 1, TRUE>>]
                  ELSE IF At(l, i + 1) = Quote THEN f[<<i + 2, TRUE>>]
                  ELSE f[<<i + 1, FALSE>>]
  BY DEF CommentRest
<1>5. ASSUME NEW i \in 1..(Len(l) + 1)
      PROVE  /\ CommentFrom(l, i, FALSE) =
                  IF i > Len(l) \/ l[i] = Semicolon THEN i
                  ELSE IF l[i] # Quote THEN CommentFrom(l, i + 1, FALSE)
                  ELSE CommentFrom(l, i + 1, TRUE)
             /\ CommentFrom(l, i, TRUE) =
                  IF i > Len(l) THEN i
                  ELSE IF l[i] # Quote THEN CommentFrom(l, i + 1, TRUE)
                  ELSE IF At(l, i + 1) = Quote THEN CommentFrom(l, i + 2, TRUE)
                  ELSE CommentFrom(l, i + 1, FALSE)
  <2>1. /\ CommentFrom(l, i, FALSE) = CommentRest(l, f, <<i, FALSE>>)
        /\ CommentFrom(l, i, TRUE) = CommentRest(l, f, <<i, TRUE>>)
    BY <1>1, <1>3
  <2>2. \A k, b : f[<<k, b>>] = CommentFrom(l, k, b)
    BY <1>1
  <2> QED BY <1>4, <2>1, <2>2
<1> QED BY <1>1, <1>5

(* Begun before a comment, with the parity of the quotes, the loop stops    *)
(* where the comment begins.                                                *)
LEMMA CommentFound ==
  ASSUME NEW S, NEW l \in Seq(S)
  PROVE  /\ CommentStart(l) \in 1..(Len(l) + 1)
         /\ ~Commented(l, CommentStart(l) - 1)
         /\ CommentStart(l) <= Len(l) => Commented(l, CommentStart(l))
<1> DEFINE n == Len(l)
           Good(k, b) == LET r == CommentFrom(l, k + 1, b) IN
                           /\ r \in (k + 1)..(n + 1)
                           /\ ~Commented(l, r - 1)
                           /\ r <= n => Commented(l, r)
           T == {k \in 0..n : ~Commented(l, k) =>
                   /\ Even(Quotes(l, k)) => Good(k, FALSE)
                   /\ ~Even(Quotes(l, k)) => Good(k, TRUE)}
<1>1. n \in Nat /\ n = Len(l)
  OBVIOUS
<1>2. ASSUME NEW k \in 0..n, (k + 1)..n \subseteq T PROVE k \in T
  <2> HIDE DEF n, Good
  <2> SUFFICES ASSUME ~Commented(l, k)
               PROVE  /\ Even(Quotes(l, k)) => Good(k, FALSE)
                      /\ ~Even(Quotes(l, k)) => Good(k, TRUE)
    OBVIOUS
  <2>1. k + 1 \in 1..(Len(l) + 1) /\ (k + 1) - 1 = k /\ k \in Nat
    BY <1>1
  <2>2. CASE k = n
    <3>1. k + 1 > Len(l)
      BY <1>1, <2>2
    <3>2. CommentFrom(l, k + 1, FALSE) = k + 1 /\ CommentFrom(l, k + 1, TRUE) = k + 1
      BY <2>1, <3>1, CommentStep
    <3>3. k + 1 \in (k + 1)..(n + 1) /\ ~(k + 1 <= n)
      BY <1>1, <2>2
    <3>4. \A b : CommentFrom(l, k + 1, b) = k + 1 => Good(k, b)
      BY <2>1, <3>3 DEF Good
    <3> QED BY <3>2, <3>4
  <2>3. CASE k # n
    <3>1. k + 1 \in (k + 1)..n /\ ~(k + 1 > Len(l)) /\ k + 1 \in 1..n
      BY <1>1, <2>3
    <3> HIDE DEF T
    <3>2. k + 1 \in T
      BY <1>2, <3>1
    <3>3. ~Commented(l, k + 1) =>
            /\ Even(Quotes(l, k + 1)) => Good(k + 1, FALSE)
            /\ ~Even(Quotes(l, k + 1)) => Good(k + 1, TRUE)
      BY <3>2 DEF T
    <3>4. \A b : CommentFrom(l, (k + 1) + 1, b) = CommentFrom(l, k + 2, b)
      <4>1. (k + 1) + 1 = k + 2
        OBVIOUS
      <4> QED BY <4>1
    <3>5. \A b, d : Good(k + 1, d) /\ CommentFrom(l, k + 1, b) = CommentFrom(l, (k + 1) + 1, d)
                    => Good(k, b)
      BY <1>1 DEF Good
    <3>6. ASSUME Even(Quotes(l, k)) PROVE Good(k, FALSE)
      <4>1. CASE l[k + 1] = Semicolon
        <5>1. CommentFrom(l, k + 1, FALSE) = k + 1
          BY <2>1, <4>1, CommentStep
        <5>2. l[k + 1] # Quote
          BY <4>1, Characters
        <5>3. Commented(l, k + 1)
          BY <2>1, <3>6, <4>1, <5>2, Parity, CommentedNext
        <5>4. k + 1 \in (k + 1)..(n + 1)
          BY <1>1, <3>1
        <5> QED BY <2>1, <5>1, <5>3, <5>4 DEF Good
      <4>2. CASE l[k + 1] # Semicolon /\ l[k + 1] # Quote
        <5>1. CommentFrom(l, k + 1, FALSE) = CommentFrom(l, (k + 1) + 1, FALSE)
          BY <2>1, <3>1, <4>2, CommentStep
        <5>2. Even(Quotes(l, k + 1)) /\ ~Commented(l, k + 1)
          BY <2>1, <3>6, <4>2, Parity, CommentedNext
        <5> QED BY <3>3, <3>5, <5>1, <5>2
      <4>3. CASE l[k + 1] = Quote
        <5>0. l[k + 1] # Semicolon
          BY <4>3, Characters
        <5>1. CommentFrom(l, k + 1, FALSE) = CommentFrom(l, (k + 1) + 1, TRUE)
          BY <2>1, <3>1, <4>3, <5>0, CommentStep
        <5>2. ~Even(Quotes(l, k + 1)) /\ ~Commented(l, k + 1)
          BY <2>1, <3>6, <4>3, <5>0, Parity, CommentedNext
        <5> QED BY <3>3, <3>5, <5>1, <5>2
      <4> QED BY <4>1, <4>2, <4>3
    <3>7. ASSUME ~Even(Quotes(l, k)) PROVE Good(k, TRUE)
      <4>1. CASE l[k + 1] # Quote
        <5>1. CommentFrom(l, k + 1, TRUE) = CommentFrom(l, (k + 1) + 1, TRUE)
          BY <2>1, <3>1, <4>1, CommentStep
        <5>2. ~Even(Quotes(l, k + 1)) /\ ~Commented(l, k + 1)
          BY <2>1, <3>7, <4>1, Parity, CommentedNext
        <5> QED BY <3>3, <3>5, <5>1, <5>2
      <4>2. CASE l[k + 1] = Quote /\ At(l, (k + 1) + 1) # Quote
        <5>0. l[k + 1] # Semicolon
          BY <4>2, Characters
        <5>1. CommentFrom(l, k + 1, TRUE) = CommentFrom(l, (k + 1) + 1, FALSE)
          BY <2>1, <3>1, <4>2, CommentStep
        <5>2. Even(Quotes(l, k + 1)) /\ ~Commented(l, k + 1)
          BY <2>1, <3>7, <4>2, <5>0, Parity, CommentedNext
        <5> QED BY <3>3, <3>5, <5>1, <5>2
      <4>3. CASE l[k + 1] = Quote /\ At(l, (k + 1) + 1) = Quote
        <5>0. /\ l[k + 1] # Semicolon /\ l[k + 2] = Quote /\ l[k + 2] # Semicolon
              /\ k + 2 \in (k + 1)..n /\ (k + 1) + 1 = k + 2 /\ k + 1 \in Nat
              /\ (k + 1) + 2 = (k + 2) + 1
          <6>1. (k + 1) + 1 = k + 2 /\ k + 1 \in Nat /\ (k + 1) + 2 = (k + 2) + 1
            BY <2>1
          <6>2. (k + 1) + 1 \in 1..Len(l) /\ l[(k + 1) + 1] = Quote
            BY <4>3, <6>1, AtNext
          <6>3. k + 2 \in (k + 1)..n
            BY <1>1, <6>1, <6>2
          <6> QED BY <4>3, <6>1, <6>2, <6>3, Characters
        <5>1. CommentFrom(l, k + 1, TRUE) = CommentFrom(l, (k + 2) + 1, TRUE)
          BY <2>1, <3>1, <4>3, <5>0, CommentStep
        <5>2. /\ ~Even(Quotes(l, k + 2)) /\ ~Commented(l, k + 2)
          <6>1. Even(Quotes(l, k + 1)) /\ ~Commented(l, k + 1)
            BY <2>1, <3>7, <4>3, <5>0, Parity, CommentedNext
          <6>2. ~Even(Quotes(l, (k + 1) + 1)) /\ ~Commented(l, (k + 1) + 1)
            BY <5>0, <6>1, Parity, CommentedNext
          <6> QED BY <5>0, <6>2
        <5>3. k + 2 \in T
          BY <1>2, <5>0
        <5>4. Good(k + 2, TRUE)
          BY <5>2, <5>3 DEF T
        <5>5. \A r \in ((k + 2) + 1)..(n + 1) : r \in (k + 1)..(n + 1)
          BY <1>1
        <5> QED BY <5>1, <5>4, <5>5 DEF Good
      <4> QED BY <4>1, <4>2, <4>3
    <3> QED BY <3>6, <3>7
  <2> QED BY <2>2, <2>3
<1>3. 0 \in Int /\ n \in Int /\ 0 \in 0..n /\ 0 + 1 = 1
  BY <1>1
<1> HIDE DEF T
<1>4. 0..n \subseteq T
  BY <1>2, <1>3, BackwardInduction, Zenon
<1>5. ~Commented(l, 0) /\ Even(Quotes(l, 0))
  BY NoQuotes DEF Commented
<1>6. Good(0, FALSE)
  BY <1>3, <1>4, <1>5 DEF T
<1>7. CommentStart(l) = CommentFrom(l, 0 + 1, FALSE)
  BY <1>3, CommentStep
<1> QED BY <1>1, <1>3, <1>6, <1>7

LEMMA CommentsStripped ==
  ASSUME NEW S, NEW l \in Seq(S), NEW i \in DOMAIN l
  PROVE  i <= Len(StripLineComment(l)) <=> ~Commented(l, i)
<1> DEFINE r == CommentStart(l)
<1>1. /\ r \in 1..(Len(l) + 1) /\ ~Commented(l, r - 1)
      /\ r <= Len(l) => Commented(l, r)
  BY CommentFound
<1>2. i \in 1..Len(l) /\ Len(l) \in Nat
  OBVIOUS
<1>3. Len(StripLineComment(l)) = r - 1
  <2>1. StripLineComment(l) = SubSeq(l, 1, r - 1)
    BY DEF StripLineComment
  <2>2. r - 1 \in 0..Len(l)
    BY <1>1, <1>2
  <2> HIDE DEF r
  <2>3. Len(SubSeq(l, 1, r - 1)) = r - 1
    BY <2>2
  <2> QED BY <2>1, <2>3
<1> HIDE DEF r
<1>4. CASE i <= r - 1
  <2>1. ~Commented(l, i)
    <3>1. r - 1 \in Int /\ i \in Int
      BY <1>1, <1>2
    <3> QED BY <1>1, <1>4, <3>1, CommentedLater
  <2> QED BY <1>3, <1>4, <2>1
<1>5. CASE ~(i <= r - 1)
  <2>1. r \in Int /\ i \in Int /\ r <= i /\ r <= Len(l)
    BY <1>1, <1>2, <1>5
  <2>2. Commented(l, i)
    BY <1>1, <2>1, CommentedLater
  <2> QED BY <1>3, <1>5, <2>2
<1> QED BY <1>4, <1>5
-----------------------------------------------------------------------------
(* Which parentheses are open: one more behind an opening one, all but the  *)
(* last behind a closing one.                                               *)

Marks(l, char, i, j) == {k \in i..j : l[k] = char /\ Code(l, k)}

LEMMA MarksFinite ==
  ASSUME NEW l, NEW char, NEW i \in Nat \ {0}, NEW j \in Nat
  PROVE  /\ Marks(l, char, i, j) \in SUBSET (1..j)
         /\ IsFiniteSet(Marks(l, char, i, j)) /\ Cardinality(Marks(l, char, i, j)) \in Nat
<1>1. Marks(l, char, i, j) \in SUBSET (1..j)
  BY DEF Marks
<1> QED BY <1>1, IntervalFinite

LEMMA MarksNext ==
  ASSUME NEW l, NEW char, NEW i \in Nat \ {0}, NEW j \in Nat, i <= j + 1
  PROVE  /\ l[j + 1] = char /\ Code(l, j + 1) =>
              Cardinality(Marks(l, char, i, j + 1)) = Cardinality(Marks(l, char, i, j)) + 1
         /\ ~(l[j + 1] = char /\ Code(l, j + 1)) => Marks(l, char, i, j + 1) = Marks(l, char, i, j)
<1>1. \A k \in i..(j + 1) : k = j + 1 \/ k \in i..j
  OBVIOUS
<1>2. j + 1 \in i..(j + 1) /\ j + 1 \notin i..j /\ \A k \in i..j : k \in i..(j + 1)
  OBVIOUS
<1>3. CASE l[j + 1] = char /\ Code(l, j + 1)
  <2>1. Marks(l, char, i, j + 1) = Marks(l, char, i, j) \cup {j + 1}
    BY <1>1, <1>2, <1>3 DEF Marks
  <2>2. j + 1 \notin Marks(l, char, i, j)
    BY <1>2 DEF Marks
  <2>3. Cardinality(Marks(l, char, i, j) \cup {j + 1}) = Cardinality(Marks(l, char, i, j)) + 1
    BY <2>2, MarksFinite, FS_AddElement
  <2> QED BY <1>3, <2>1, <2>3
<1>4. CASE ~(l[j + 1] = char /\ Code(l, j + 1))
  <2>1. Marks(l, char, i, j + 1) = Marks(l, char, i, j)
    BY <1>1, <1>2, <1>4 DEF Marks
  <2> QED BY <1>4, <2>1
<1> QED BY <1>3, <1>4

LEMMA BalanceMarks ==
  ASSUME NEW l, NEW i \in Nat \ {0}, NEW j \in Nat
  PROVE  /\ Balance(l, i, j) = Cardinality(Marks(l, "(", i, j)) - Cardinality(Marks(l, ")", i, j))
         /\ Cardinality(Marks(l, "(", i, j)) \in Nat /\ Cardinality(Marks(l, ")", i, j)) \in Nat
         /\ Balance(l, i, j) \in Int
<1>1. Balance(l, i, j) = Cardinality(Marks(l, "(", i, j)) - Cardinality(Marks(l, ")", i, j))
  BY DEF Balance, Marks
<1>2. Cardinality(Marks(l, "(", i, j)) \in Nat /\ Cardinality(Marks(l, ")", i, j)) \in Nat
  BY MarksFinite
<1> QED BY <1>1, <1>2

LEMMA BalanceNone == ASSUME NEW l, NEW i \in Nat PROVE Balance(l, i + 1, i) = 0
<1>1. (i + 1)..i = {} /\ i + 1 \in Nat \ {0}
  OBVIOUS
<1>2. Marks(l, "(", i + 1, i) = {} /\ Marks(l, ")", i + 1, i) = {}
  BY <1>1 DEF Marks
<1>3. Cardinality(Marks(l, "(", i + 1, i)) = 0 /\ Cardinality(Marks(l, ")", i + 1, i)) = 0
  BY <1>2, FS_EmptySet
<1>4. Balance(l, i + 1, i)
        = Cardinality(Marks(l, "(", i + 1, i)) - Cardinality(Marks(l, ")", i + 1, i))
  BY <1>1, BalanceMarks
<1> QED BY <1>3, <1>4

LEMMA BalanceNext ==
  ASSUME NEW l, NEW i \in Nat \ {0}, NEW j \in Nat, i <= j + 1
  PROVE  /\ l[j + 1] = "(" /\ Code(l, j + 1) => Balance(l, i, j + 1) = Balance(l, i, j) + 1
         /\ l[j + 1] = ")" /\ Code(l, j + 1) => Balance(l, i, j + 1) = Balance(l, i, j) - 1
         /\ ~(l[j + 1] \in {"(", ")"} /\ Code(l, j + 1)) => Balance(l, i, j + 1) = Balance(l, i, j)
<1> DEFINE up(k) == Cardinality(Marks(l, "(", i, k))
           down(k) == Cardinality(Marks(l, ")", i, k))
<1>1. /\ Balance(l, i, j) = up(j) - down(j) /\ up(j) \in Nat /\ down(j) \in Nat
      /\ Balance(l, i, j + 1) = up(j + 1) - down(j + 1)
  <2>1. j + 1 \in Nat
    OBVIOUS
  <2> QED BY <2>1, BalanceMarks
<1>2. /\ l[j + 1] = "(" /\ Code(l, j + 1) => up(j + 1) = up(j) + 1
      /\ ~(l[j + 1] = "(" /\ Code(l, j + 1)) => up(j + 1) = up(j)
      /\ l[j + 1] = ")" /\ Code(l, j + 1) => down(j + 1) = down(j) + 1
      /\ ~(l[j + 1] = ")" /\ Code(l, j + 1)) => down(j + 1) = down(j)
  BY MarksNext
<1>3. "(" # ")"
  OBVIOUS
<1> HIDE DEF up, down
<1>4. ASSUME l[j + 1] = "(", Code(l, j + 1) PROVE Balance(l, i, j + 1) = Balance(l, i, j) + 1
  <2>1. up(j + 1) = up(j) + 1 /\ down(j + 1) = down(j)
    BY <1>2, <1>3, <1>4
  <2> QED BY <1>1, <2>1
<1>5. ASSUME l[j + 1] = ")", Code(l, j + 1) PROVE Balance(l, i, j + 1) = Balance(l, i, j) - 1
  <2>1. up(j + 1) = up(j) /\ down(j + 1) = down(j) + 1
    BY <1>2, <1>3, <1>5
  <2> QED BY <1>1, <2>1
<1>6. ASSUME ~(l[j + 1] \in {"(", ")"} /\ Code(l, j + 1)) PROVE Balance(l, i, j + 1) = Balance(l, i, j)
  <2>1. up(j + 1) = up(j) /\ down(j + 1) = down(j)
    BY <1>2, <1>6
  <2> QED BY <1>1, <2>1
<1> QED BY <1>4, <1>5, <1>6

LEMMA OpenType ==
  ASSUME NEW l, NEW i \in Nat
  PROVE  OpenAt(l, i) \in SUBSET (1..i) /\ IsFiniteSet(OpenAt(l, i))
<1>1. OpenAt(l, i) \in SUBSET (1..i)
  BY DEF OpenAt
<1> QED BY <1>1, IntervalFinite

LEMMA OpenNext ==
  ASSUME NEW l, NEW i \in Nat
  PROVE  /\ l[i + 1] = "(" /\ Code(l, i + 1) => OpenAt(l, i + 1) = OpenAt(l, i) \cup {i + 1}
         /\ l[i + 1] = ")" /\ Code(l, i + 1) =>
              OpenAt(l, i + 1) = {p \in OpenAt(l, i) : Balance(l, p + 1, i) >= 1}
         /\ ~(l[i + 1] \in {"(", ")"} /\ Code(l, i + 1)) => OpenAt(l, i + 1) = OpenAt(l, i)
<1> DEFINE Stays(p, k) == \A j \in (p + 1)..k : Balance(l, p + 1, j) >= 0
<1>1. ASSUME NEW p \in 1..i
      PROVE  /\ Stays(p, i + 1) <=> Stays(p, i) /\ Balance(l, p + 1, i + 1) >= 0
             /\ Stays(p, i) => Balance(l, p + 1, i) >= 0
             /\ Balance(l, p + 1, i) \in Int
  <2>1. \A j \in (p + 1)..(i + 1) : j = i + 1 \/ j \in (p + 1)..i
    OBVIOUS
  <2>2. i + 1 \in (p + 1)..(i + 1) /\ \A j \in (p + 1)..i : j \in (p + 1)..(i + 1)
    OBVIOUS
  <2>3. Stays(p, i) => Balance(l, p + 1, i) >= 0
    <3>1. CASE p = i
      <4>1. Balance(l, p + 1, i) = 0
        BY <3>1, BalanceNone
      <4> QED BY <4>1
    <3>2. CASE p # i
      <4>1. i \in (p + 1)..i
        BY <3>2
      <4> QED BY <4>1
    <3> QED BY <3>1, <3>2
  <2>4. Balance(l, p + 1, i) \in Int
    <3>1. p + 1 \in Nat \ {0}
      OBVIOUS
    <3> QED BY <3>1, BalanceMarks
  <2> QED BY <2>1, <2>2, <2>3, <2>4
<1>2. ASSUME NEW p \in 1..i
      PROVE  /\ l[i + 1] = "(" /\ Code(l, i + 1) => (p \in OpenAt(l, i + 1) <=> p \in OpenAt(l, i))
             /\ l[i + 1] = ")" /\ Code(l, i + 1) =>
                  (p \in OpenAt(l, i + 1) <=> p \in OpenAt(l, i) /\ Balance(l, p + 1, i) >= 1)
             /\ ~(l[i + 1] \in {"(", ")"} /\ Code(l, i + 1)) =>
                  (p \in OpenAt(l, i + 1) <=> p \in OpenAt(l, i))
  <2>1. /\ p \in OpenAt(l, i) <=> l[p] = "(" /\ Code(l, p) /\ Stays(p, i)
        /\ p \in OpenAt(l, i + 1) <=> l[p] = "(" /\ Code(l, p) /\ Stays(p, i + 1)
    BY DEF OpenAt
  <2> HIDE DEF Stays
  <2>2. p + 1 \in Nat \ {0} /\ p + 1 <= i + 1
    OBVIOUS
  <2>3. /\ l[i + 1] = "(" /\ Code(l, i + 1) => Balance(l, p + 1, i + 1) = Balance(l, p + 1, i) + 1
        /\ l[i + 1] = ")" /\ Code(l, i + 1) => Balance(l, p + 1, i + 1) = Balance(l, p + 1, i) - 1
        /\ ~(l[i + 1] \in {"(", ")"} /\ Code(l, i + 1)) => Balance(l, p + 1, i + 1) = Balance(l, p + 1, i)
    BY <2>2, BalanceNext
  <2> QED BY <1>1, <2>1, <2>3
<1>3. i + 1 \in OpenAt(l, i + 1) <=> l[i + 1] = "(" /\ Code(l, i + 1)
  <2>1. ((i + 1) + 1)..(i + 1) = {} /\ i + 1 \in 1..(i + 1)
    OBVIOUS
  <2> QED BY <2>1 DEF OpenAt
<1>4. OpenAt(l, i) \in SUBSET (1..i) /\ OpenAt(l, i + 1) \in SUBSET (1..(i + 1))
  BY DEF OpenAt
<1>5. \A p \in 1..(i + 1) : p = i + 1 \/ p \in 1..i
  OBVIOUS
<1> HIDE DEF Stays
<1>6. ASSUME l[i + 1] = "(", Code(l, i + 1) PROVE OpenAt(l, i + 1) = OpenAt(l, i) \cup {i + 1}
  BY <1>2, <1>3, <1>4, <1>5, <1>6
<1>7. ASSUME l[i + 1] = ")", Code(l, i + 1)
      PROVE  OpenAt(l, i + 1) = {p \in OpenAt(l, i) : Balance(l, p + 1, i) >= 1}
  <2>1. i + 1 \notin OpenAt(l, i + 1)
    BY <1>3, <1>7
  <2> QED BY <1>2, <1>4, <1>5, <1>7, <2>1
<1>8. ASSUME ~(l[i + 1] \in {"(", ")"} /\ Code(l, i + 1)) PROVE OpenAt(l, i + 1) = OpenAt(l, i)
  <2>1. i + 1 \notin OpenAt(l, i + 1)
    BY <1>3, <1>8
  <2> QED BY <1>2, <1>4, <1>5, <1>8, <2>1
<1> QED BY <1>6, <1>7, <1>8

Behind(O, p) == {q \in O : q > p}

LEMMA BehindFinite ==
  ASSUME NEW O, IsFiniteSet(O), NEW p
  PROVE  /\ IsFiniteSet(Behind(O, p)) /\ Cardinality(Behind(O, p)) \in Nat
         /\ Cardinality(Behind(O, p)) = 0 <=> Behind(O, p) = {}
<1>1. Behind(O, p) \subseteq O
  BY DEF Behind
<1>2. IsFiniteSet(Behind(O, p))
  BY <1>1, FS_Subset
<1> QED BY <1>2, FS_CardinalityType, FS_EmptySet

(* Behind an open parenthesis the balance counts those open behind it.      *)
LEMMA OpenBalance ==
  ASSUME NEW l, NEW i \in Nat
  PROVE  \A p \in OpenAt(l, i) : Balance(l, p + 1, i) = Cardinality(Behind(OpenAt(l, i), p))
<1> DEFINE T == {n \in Nat : \A p \in OpenAt(l, n) :
                   Balance(l, p + 1, n) = Cardinality(Behind(OpenAt(l, n), p))}
<1>1. 0 \in T
  <2>1. OpenAt(l, 0) = {}
    <3>1. 1..0 = {} /\ OpenAt(l, 0) \subseteq 1..0
      BY DEF OpenAt
    <3> QED BY <3>1
  <2> QED BY <2>1
<1>2. ASSUME NEW n \in Nat, n \in T PROVE n + 1 \in T
  <2> DEFINE O == OpenAt(l, n)
             N == OpenAt(l, n + 1)
  <2>1. /\ O \in SUBSET (1..n) /\ IsFiniteSet(O)
        /\ \A p \in O : p \in 1..n /\ p + 1 \in Nat \ {0} /\ p + 1 <= n + 1
    BY OpenType
  <2>2. \A p \in O : Balance(l, p + 1, n) = Cardinality(Behind(O, p))
    BY <1>2
  <2> SUFFICES ASSUME NEW p \in N PROVE Balance(l, p + 1, n + 1) = Cardinality(Behind(N, p))
    OBVIOUS
  <2>3. CASE l[n + 1] = "(" /\ Code(l, n + 1)
    <3>1. N = O \cup {n + 1}
      BY <2>3, OpenNext
    <3>2. CASE p = n + 1
      <4>1. Behind(N, p) = {}
        BY <2>1, <3>1, <3>2 DEF Behind
      <4>2. Balance(l, p + 1, n + 1) = 0
        BY <3>2, BalanceNone
      <4> QED BY <4>1, <4>2, FS_EmptySet
    <3>3. CASE p # n + 1
      <4>1. p \in O
        BY <3>1, <3>3
      <4>2. Balance(l, p + 1, n + 1) = Balance(l, p + 1, n) + 1
        BY <2>1, <2>3, <4>1, BalanceNext
      <4>3. Behind(N, p) = Behind(O, p) \cup {n + 1} /\ n + 1 \notin Behind(O, p)
        BY <2>1, <3>1, <4>1 DEF Behind
      <4>4. Cardinality(Behind(O, p) \cup {n + 1}) = Cardinality(Behind(O, p)) + 1
        BY <2>1, <4>3, BehindFinite, FS_AddElement
      <4> QED BY <2>2, <4>1, <4>2, <4>3, <4>4
    <3> QED BY <3>2, <3>3
  <2>4. CASE l[n + 1] = ")" /\ Code(l, n + 1)
    <3>1. p \in O /\ N = {q \in O : Balance(l, q + 1, n) >= 1}
      BY <2>4, OpenNext
    <3>2. \A q \in O : q \in N <=> Behind(O, q) # {}
      <4> SUFFICES ASSUME NEW q \in O PROVE q \in N <=> Behind(O, q) # {}
        OBVIOUS
      <4>1. /\ Cardinality(Behind(O, q)) \in Nat
            /\ Cardinality(Behind(O, q)) = 0 <=> Behind(O, q) = {}
        BY <2>1, BehindFinite
      <4>2. q \in N <=> Cardinality(Behind(O, q)) >= 1
        BY <2>2, <3>1
      <4> QED BY <4>1, <4>2
    <3>3. PICK m \in O : \A q \in O : m >= q
      <4>1. O \in SUBSET (0..n) /\ O # {}
        BY <2>1, <3>1
      <4> QED BY <4>1, MaximumOf
    <3>4. Behind(O, m) = {} /\ m \notin N
      <4>1. Behind(O, m) = {}
        BY <2>1, <3>3 DEF Behind
      <4> QED BY <3>2, <3>3, <4>1
    <3>5. m > p
      BY <2>1, <3>1, <3>3, <3>4
    <3>6. Behind(O, p) = Behind(N, p) \cup {m} /\ m \notin Behind(N, p)
      <4>1. \A q \in O : q = m \/ q \in N
        <5> SUFFICES ASSUME NEW q \in O, q # m PROVE q \in N
          OBVIOUS
        <5>1. m > q
          BY <2>1, <3>3
        <5>2. m \in Behind(O, q)
          BY <3>3, <5>1 DEF Behind
        <5> QED BY <3>2, <5>2
      <4>2. N \subseteq O
        BY <3>1
      <4> QED BY <3>3, <3>4, <3>5, <4>1, <4>2 DEF Behind
    <3>7. IsFiniteSet(N)
      BY OpenType
    <3>8. Cardinality(Behind(N, p) \cup {m}) = Cardinality(Behind(N, p)) + 1
      BY <3>6, <3>7, BehindFinite, FS_AddElement
    <3>9. Balance(l, p + 1, n + 1) = Balance(l, p + 1, n) - 1
      BY <2>1, <2>4, <3>1, BalanceNext
    <3>10. Cardinality(Behind(N, p)) \in Nat
      BY <3>7, BehindFinite
    <3> QED BY <2>2, <3>1, <3>6, <3>8, <3>9, <3>10
  <2>5. CASE ~(l[n + 1] \in {"(", ")"} /\ Code(l, n + 1))
    <3>1. N = O /\ p \in O
      BY <2>5, OpenNext
    <3>2. Balance(l, p + 1, n + 1) = Balance(l, p + 1, n)
      BY <2>1, <2>5, <3>1, BalanceNext
    <3> QED BY <2>2, <3>1, <3>2
  <2> QED BY <2>3, <2>4, <2>5
<1> HIDE DEF T
<1>3. Nat \subseteq T
  BY <1>1, <1>2, SetInduction
<1> QED BY <1>3 DEF T

(* A closing parenthesis closes the last that is open.                      *)
LEMMA OpenCloses ==
  ASSUME NEW l, NEW i \in Nat, l[i + 1] = ")", Code(l, i + 1)
  PROVE  OpenAt(l, i + 1) = {p \in OpenAt(l, i) : \E q \in OpenAt(l, i) : q > p}
<1> DEFINE O == OpenAt(l, i)
<1>1. OpenAt(l, i + 1) = {p \in O : Balance(l, p + 1, i) >= 1}
  BY OpenNext
<1>2. IsFiniteSet(O)
  BY OpenType
<1>3. ASSUME NEW p \in O PROVE Balance(l, p + 1, i) >= 1 <=> \E q \in O : q > p
  <2>1. Balance(l, p + 1, i) = Cardinality(Behind(O, p))
    BY OpenBalance
  <2>2. /\ Cardinality(Behind(O, p)) \in Nat
        /\ Cardinality(Behind(O, p)) = 0 <=> Behind(O, p) = {}
    BY <1>2, BehindFinite
  <2>3. Behind(O, p) # {} <=> \E q \in O : q > p
    BY DEF Behind
  <2> QED BY <2>1, <2>2, <2>3
<1> QED BY <1>1, <1>3

(* Commas of the argument list that the parenthesis at p opens.             *)
LEMMA CommasNext ==
  ASSUME NEW l, NEW p \in Nat, NEW i \in Nat, p <= i
  PROVE  /\ Commas(l, p, i) \in Nat
         /\ l[i + 1] = Separator /\ Code(l, i + 1) /\ Balance(l, p + 1, i) = 0 =>
              Commas(l, p, i + 1) = Commas(l, p, i) + 1
         /\ ~(l[i + 1] = Separator /\ Code(l, i + 1) /\ Balance(l, p + 1, i) = 0) =>
              Commas(l, p, i + 1) = Commas(l, p, i)
<1> DEFINE IsComma(k) == l[k] = Separator /\ Code(l, k) /\ Balance(l, p + 1, k) = 0
           C(n) == {k \in (p + 1)..n : IsComma(k)}
<1>1. C(i) \in SUBSET (1..i)
  <2> HIDE DEF IsComma
  <2> QED OBVIOUS
<1>2. IsFiniteSet(C(i)) /\ Cardinality(C(i)) \in Nat
  BY <1>1, IntervalFinite
<1>3. Commas(l, p, i) = Cardinality(C(i)) /\ Commas(l, p, i + 1) = Cardinality(C(i + 1))
  BY DEF Commas
<1>4. (\A k \in (p + 1)..(i + 1) : k = i + 1 \/ k \in (p + 1)..i)
      /\ i + 1 \in (p + 1)..(i + 1) /\ i + 1 \notin (p + 1)..i
      /\ \A k \in (p + 1)..i : k \in (p + 1)..(i + 1)
  OBVIOUS
<1>5. IsComma(i + 1) <=> l[i + 1] = Separator /\ Code(l, i + 1) /\ Balance(l, p + 1, i) = 0
  <2>1. p + 1 \in Nat \ {0} /\ p + 1 <= i + 1
    OBVIOUS
  <2>2. l[i + 1] = Separator => ~(l[i + 1] \in {"(", ")"} /\ Code(l, i + 1))
    BY Characters
  <2>3. l[i + 1] = Separator => Balance(l, p + 1, i + 1) = Balance(l, p + 1, i)
    BY <2>1, <2>2, BalanceNext
  <2> QED BY <2>3
<1> HIDE DEF IsComma
<1>6. CASE IsComma(i + 1)
  <2>1. C(i + 1) = C(i) \cup {i + 1} /\ i + 1 \notin C(i)
    BY <1>4, <1>6
  <2> HIDE DEF C
  <2>2. Cardinality(C(i) \cup {i + 1}) = Cardinality(C(i)) + 1
    BY <1>2, <2>1, FS_AddElement
  <2> QED BY <1>2, <1>3, <1>5, <1>6, <2>1, <2>2
<1>7. CASE ~IsComma(i + 1)
  <2>1. C(i + 1) = C(i)
    BY <1>4, <1>7
  <2> HIDE DEF C
  <2> QED BY <1>2, <1>3, <1>5, <1>7, <2>1
<1> QED BY <1>6, <1>7

LEMMA NoCommas == ASSUME NEW l, NEW i \in Nat PROVE Commas(l, i, i) = 0
<1>1. (i + 1)..i = {}
  OBVIOUS
<1> QED BY <1>1, FS_EmptySet DEF Commas
-----------------------------------------------------------------------------
(* The stack of the scan: its calls are those that are open, each at the    *)
(* place pos gives, with the parentheses open between it and the next, and  *)
(* its commas so far.                                                       *)

Call(l) ==
  [name : {IdentifierBefore(l, p).name : p \in Nat}, depth : Nat \ {0}, slot : Nat, start : Nat]

Between(O, pos, k) == {q \in O : q > pos[k] /\ (k < Len(pos) => q < pos[k + 1])}

StackIs(l, i, stack, pos) ==
  /\ stack \in Seq(Call(l)) /\ pos \in Seq(Nat) /\ Len(pos) = Len(stack)
  /\ \A k \in 1..Len(pos) : pos[k] \in CallsAt(l, i)
  /\ \A p \in CallsAt(l, i) : \E k \in 1..Len(pos) : pos[k] = p
  /\ \A j, k \in 1..Len(pos) : j < k => pos[j] < pos[k]
  /\ \A k \in 1..Len(pos) :
       /\ stack[k].name = IdentifierBefore(l, pos[k]).name
       /\ stack[k].depth = 1 + Cardinality(Between(OpenAt(l, i), pos, k))
       /\ stack[k].slot = Commas(l, pos[k], i)
       /\ k < Len(pos) => stack[k].start = 0

LEMMA CallsType ==
  ASSUME NEW l, NEW i \in Nat
  PROVE  CallsAt(l, i) \subseteq OpenAt(l, i) /\ CallsAt(l, i) \subseteq 1..i
BY OpenType DEF CallsAt, NamedAt

LEMMA Taken ==
  ASSUME NEW R, NEW l \in Seq(R), NEW n \in Nat, n <= Len(l)
  PROVE  /\ SubSeq(l, 1, n) \in Seq(R) /\ Len(SubSeq(l, 1, n)) = n
         /\ \A k \in 1..n : SubSeq(l, 1, n)[k] = l[k]
<1>1. 1 \in Int /\ n \in Int /\ Len(l) \in Nat
  OBVIOUS
<1>2. \A k \in 1..n : l[k] \in R
  OBVIOUS
<1>3. /\ SubSeq(l, 1, n) \in Seq(R)
      /\ Len(SubSeq(l, 1, n)) = IF 1 <= n THEN (n - 1) + 1 ELSE 0
      /\ \A k \in 1..((n - 1) + 1) : SubSeq(l, 1, n)[k] = l[(1 + k) - 1]
  BY <1>1, <1>2, SubSeqProperties
<1>4. (n - 1) + 1 = n /\ (~(1 <= n) => n = 0) /\ \A k \in 1..n : (1 + k) - 1 = k
  OBVIOUS
<1> QED BY <1>3, <1>4

LEMMA TopReplaced ==
  ASSUME NEW R, NEW stack \in Seq(R), stack # <<>>, NEW top \in R
  PROVE  /\ Append(Front(stack), top) \in Seq(R)
         /\ Len(Append(Front(stack), top)) = Len(stack)
         /\ Append(Front(stack), top)[Len(stack)] = top
         /\ Last(Append(Front(stack), top)) = top
         /\ Append(Front(stack), top) # <<>>
         /\ \A k \in 1..(Len(stack) - 1) : Append(Front(stack), top)[k] = stack[k]
<1>1. Len(stack) \in Nat \ {0} /\ Front(stack) = SubSeq(stack, 1, Len(stack) - 1)
  BY DEF Front
<1> DEFINE front == SubSeq(stack, 1, Len(stack) - 1)
<1>2. /\ front \in Seq(R) /\ Len(front) = Len(stack) - 1
      /\ \A k \in 1..(Len(stack) - 1) : front[k] = stack[k]
  <2>1. Len(stack) - 1 \in Nat /\ Len(stack) - 1 <= Len(stack)
    BY <1>1
  <2> QED BY <2>1, Taken
<1> HIDE DEF front
<1>3. /\ Append(front, top) \in Seq(R) /\ Len(Append(front, top)) = Len(stack)
      /\ Append(front, top)[Len(stack)] = top /\ Append(front, top) # <<>>
      /\ \A k \in 1..(Len(stack) - 1) : Append(front, top)[k] = stack[k]
  BY <1>1, <1>2
<1> QED BY <1>1, <1>3 DEF Last, front

LEMMA TopDropped ==
  ASSUME NEW R, NEW stack \in Seq(R), stack # <<>>
  PROVE  /\ Front(stack) \in Seq(R) /\ Len(Front(stack)) = Len(stack) - 1
         /\ \A k \in 1..(Len(stack) - 1) : Front(stack)[k] = stack[k]
<1>1. Len(stack) \in Nat \ {0} /\ Front(stack) = SubSeq(stack, 1, Len(stack) - 1)
  BY DEF Front
<1> DEFINE n == Len(stack) - 1
<1>2. n \in Nat /\ n <= Len(stack) /\ Front(stack) = SubSeq(stack, 1, n)
  BY <1>1
<1> HIDE DEF n
<1>3. Front(stack) \in Seq(R) /\ Len(Front(stack)) = n /\ \A k \in 1..n : Front(stack)[k] = stack[k]
  BY <1>2, Taken
<1> QED BY <1>3 DEF n

LEMMA StackKept ==
  ASSUME NEW l, NEW i, NEW j, NEW stack, NEW pos, StackIs(l, i, stack, pos),
         CallsAt(l, j) = CallsAt(l, i),
         \A k \in 1..Len(pos) :
           /\ Between(OpenAt(l, j), pos, k) = Between(OpenAt(l, i), pos, k)
           /\ Commas(l, pos[k], j) = Commas(l, pos[k], i)
  PROVE  StackIs(l, j, stack, pos)
BY DEF StackIs

LEMMA StackTop ==
  ASSUME NEW l, NEW i, NEW j, NEW stack, NEW pos, StackIs(l, i, stack, pos), stack # <<>>,
         CallsAt(l, j) = CallsAt(l, i),
         \A k \in 1..(Len(stack) - 1) :
           /\ Between(OpenAt(l, j), pos, k) = Between(OpenAt(l, i), pos, k)
           /\ Commas(l, pos[k], j) = Commas(l, pos[k], i),
         NEW top \in Call(l), top.name = Last(stack).name,
         top.depth = 1 + Cardinality(Between(OpenAt(l, j), pos, Len(stack))),
         top.slot = Commas(l, pos[Len(stack)], j)
  PROVE  StackIs(l, j, Append(Front(stack), top), pos)
<1> DEFINE n == Len(stack)
           new == Append(Front(stack), top)
<1>1. /\ stack \in Seq(Call(l)) /\ pos \in Seq(Nat) /\ Len(pos) = n
  BY DEF StackIs
<1>2. n \in Nat \ {0} /\ Last(stack) = stack[n]
  BY <1>1 DEF Last
<1>3. /\ new \in Seq(Call(l)) /\ Len(new) = n /\ new[n] = top
      /\ \A k \in 1..(n - 1) : new[k] = stack[k]
  BY <1>1, TopReplaced
<1> HIDE DEF n, new
<1>4. ASSUME NEW k \in 1..n
      PROVE  /\ new[k].name = IdentifierBefore(l, pos[k]).name
             /\ new[k].depth = 1 + Cardinality(Between(OpenAt(l, j), pos, k))
             /\ new[k].slot = Commas(l, pos[k], j)
             /\ k < n => new[k].start = 0
  <2>1. /\ stack[k].name = IdentifierBefore(l, pos[k]).name
        /\ stack[k].depth = 1 + Cardinality(Between(OpenAt(l, i), pos, k))
        /\ stack[k].slot = Commas(l, pos[k], i)
        /\ k < n => stack[k].start = 0
    BY <1>1 DEF StackIs
  <2>2. CASE k = n
    <3>1. new[k] = top /\ top.name = stack[k].name
      BY <1>2, <1>3, <2>2
    <3>2. ~(k < n)
      BY <1>2, <2>2
    <3> QED BY <2>1, <2>2, <3>1, <3>2 DEF n
  <2>3. CASE k # n
    <3>1. k \in 1..(n - 1)
      BY <1>2, <2>3
    <3>2. new[k] = stack[k]
      BY <1>3, <3>1
    <3>3. /\ Between(OpenAt(l, j), pos, k) = Between(OpenAt(l, i), pos, k)
          /\ Commas(l, pos[k], j) = Commas(l, pos[k], i)
      BY <3>1 DEF n
    <3> QED BY <2>1, <3>2, <3>3
  <2> QED BY <2>2, <2>3
<1>5. /\ \A k \in 1..n : pos[k] \in CallsAt(l, i)
      /\ \A p \in CallsAt(l, i) : \E k \in 1..n : pos[k] = p
      /\ \A m, k \in 1..n : m < k => pos[m] < pos[k]
  BY <1>1 DEF StackIs
<1>6. StackIs(l, j, new, pos)
  BY <1>1, <1>3, <1>4, <1>5 DEF StackIs
<1> QED BY <1>6 DEF new

(* What the invariant says of the top.                                      *)
LEMMA StackMeans ==
  ASSUME NEW l, NEW i \in Nat, NEW stack, NEW pos, StackIs(l, i, stack, pos)
  PROVE  /\ stack = <<>> <=> CallsAt(l, i) = {}
         /\ stack # <<>> =>
              LET n == Len(stack) IN
                /\ n \in Nat \ {0} /\ n \in 1..Len(pos) /\ Last(stack) = stack[n]
                /\ pos[n] \in CallsAt(l, i) /\ Max(CallsAt(l, i)) = pos[n]
                /\ Between(OpenAt(l, i), pos, n) = Behind(OpenAt(l, i), pos[n])
                /\ Last(stack) \in Call(l)
                /\ Last(stack).depth = 1 + Balance(l, pos[n] + 1, i)
                /\ Balance(l, pos[n] + 1, i) \in Nat
         /\ \A k \in 1..(Len(stack) - 1) : Balance(l, pos[k] + 1, i) # 0
<1> DEFINE n == Len(stack)
           C == CallsAt(l, i)
           O == OpenAt(l, i)
<1>1. /\ stack \in Seq(Call(l)) /\ pos \in Seq(Nat) /\ Len(pos) = n
      /\ \A k \in 1..n : pos[k] \in C
      /\ \A p \in C : \E k \in 1..n : pos[k] = p
      /\ \A m, k \in 1..n : m < k => pos[m] < pos[k]
      /\ \A k \in 1..n : stack[k].depth = 1 + Cardinality(Between(O, pos, k))
  BY DEF StackIs
<1>2. n \in Nat /\ (stack = <<>> <=> n = 0)
  BY <1>1
<1>3. C \in SUBSET (1..i) /\ C \subseteq O /\ O \in SUBSET (1..i) /\ IsFiniteSet(O)
  BY CallsType, OpenType
<1>4. \A k \in 1..n : Balance(l, pos[k] + 1, i) = Cardinality(Behind(O, pos[k]))
  BY <1>1, <1>3, OpenBalance
<1>5. \A k \in 1..n : /\ Cardinality(Behind(O, pos[k])) \in Nat
                      /\ Cardinality(Behind(O, pos[k])) = 0 <=> Behind(O, pos[k]) = {}
  BY <1>3, BehindFinite
<1> HIDE DEF n, C, O
<1>6. stack = <<>> <=> C = {}
  <2>1. CASE n = 0
    BY <1>1, <1>2, <2>1
  <2>2. CASE n # 0
    <3>1. n \in 1..n
      BY <1>2, <2>2
    <3> QED BY <1>1, <1>2, <2>2, <3>1
  <2> QED BY <2>1, <2>2
<1>7. ASSUME stack # <<>>
      PROVE  /\ n \in Nat \ {0} /\ n \in 1..Len(pos) /\ Last(stack) = stack[n]
             /\ pos[n] \in C /\ Max(C) = pos[n]
             /\ Between(O, pos, n) = Behind(O, pos[n])
             /\ Last(stack) \in Call(l)
             /\ Last(stack).depth = 1 + Balance(l, pos[n] + 1, i)
             /\ Balance(l, pos[n] + 1, i) \in Nat
  <2>1. n \in Nat \ {0} /\ n \in 1..n /\ ~(n < n) /\ 1..n = 1..Len(pos)
    BY <1>1, <1>2, <1>7
  <2>2. Last(stack) = stack[n] /\ stack[n] \in Call(l)
    BY <1>1, <2>1 DEF Last, n
  <2>3. pos[n] \in C
    BY <1>1, <2>1
  <2>4. Max(C) = pos[n]
    <3>1. \A y \in C : pos[n] >= y
      <4> SUFFICES ASSUME NEW y \in C PROVE pos[n] >= y
        OBVIOUS
      <4>1. PICK k \in 1..n : pos[k] = y
        BY <1>1
      <4>2. pos[k] \in Nat /\ pos[n] \in Nat /\ (k < n => pos[k] < pos[n])
        BY <1>1, <2>1
      <4> QED BY <2>1, <4>1, <4>2
    <3>2. C \in SUBSET (0..i)
      BY <1>3
    <3> QED BY <2>3, <3>1, <3>2, MaximumIs
  <2>5. Between(O, pos, n) = Behind(O, pos[n])
    BY <1>1, <2>1 DEF Between, Behind
  <2>6. stack[n].depth = 1 + Cardinality(Behind(O, pos[n]))
    BY <1>1, <2>1, <2>5
  <2> QED BY <1>4, <1>5, <2>1, <2>2, <2>3, <2>4, <2>5, <2>6
<1>8. ASSUME NEW k \in 1..(n - 1) PROVE Balance(l, pos[k] + 1, i) # 0
  <2>1. k \in 1..n /\ k + 1 \in 1..n /\ k < k + 1
    BY <1>2
  <2>2. pos[k + 1] \in O /\ pos[k + 1] > pos[k] /\ pos[k] \in Nat
    BY <1>1, <1>3, <2>1
  <2>3. Behind(O, pos[k]) # {}
    BY <2>2 DEF Behind
  <2> QED BY <1>4, <1>5, <2>1, <2>3
<1> QED BY <1>6, <1>7, <1>8 DEF n, C, O

(* A parenthesis that begins a call.                                        *)
LEMMA StackPush ==
  ASSUME NEW l, NEW i \in Nat, NEW stack, NEW pos, StackIs(l, i, stack, pos),
         stack # <<>> => Last(stack).start = 0,
         OpenAt(l, i + 1) = OpenAt(l, i) \cup {i + 1},
         CallsAt(l, i + 1) = CallsAt(l, i) \cup {i + 1},
         \A p \in CallsAt(l, i) : Commas(l, p, i + 1) = Commas(l, p, i),
         NEW new \in Call(l),
         new = [name |-> IdentifierBefore(l, i + 1).name, depth |-> 1, slot |-> 0, start |-> 0]
  PROVE  StackIs(l, i + 1, Append(stack, new), Append(pos, i + 1))
<1> DEFINE n == Len(stack)
           more == Append(stack, new)
           posm == Append(pos, i + 1)
           O == OpenAt(l, i)
           N == OpenAt(l, i + 1)
<1>1. /\ stack \in Seq(Call(l)) /\ pos \in Seq(Nat) /\ Len(pos) = n
      /\ \A k \in 1..n : pos[k] \in CallsAt(l, i)
      /\ \A p \in CallsAt(l, i) : \E k \in 1..n : pos[k] = p
      /\ \A m, k \in 1..n : m < k => pos[m] < pos[k]
      /\ \A k \in 1..n :
           /\ stack[k].name = IdentifierBefore(l, pos[k]).name
           /\ stack[k].depth = 1 + Cardinality(Between(O, pos, k))
           /\ stack[k].slot = Commas(l, pos[k], i)
           /\ k < n => stack[k].start = 0
  BY DEF StackIs
<1>2. n \in Nat
  BY <1>1
<1>3. /\ more \in Seq(Call(l)) /\ Len(more) = n + 1 /\ more[n + 1] = new
      /\ \A k \in 1..n : more[k] = stack[k]
  BY <1>1
<1>4. /\ posm \in Seq(Nat) /\ Len(posm) = n + 1 /\ posm[n + 1] = i + 1
      /\ \A k \in 1..n : posm[k] = pos[k]
  BY <1>1
<1>5. /\ O \in SUBSET (1..i) /\ N = O \cup {i + 1} /\ CallsAt(l, i) \in SUBSET (1..i)
      /\ \A k \in 1..n : pos[k] \in 1..i
  BY <1>1, OpenType, CallsType
<1>6. n # 0 => Last(stack) = stack[n] /\ stack[n].start = 0
  BY <1>1, <1>2 DEF Last
<1> HIDE DEF n, more, posm, O, N
<1>7. \A k \in 1..(n + 1) : k = n + 1 \/ k \in 1..n
  BY <1>2
<1>8. ASSUME NEW k \in 1..n
      PROVE  /\ more[k].name = IdentifierBefore(l, posm[k]).name
             /\ more[k].depth = 1 + Cardinality(Between(N, posm, k))
             /\ more[k].slot = Commas(l, posm[k], i + 1)
             /\ more[k].start = 0
  <2>1. more[k] = stack[k] /\ posm[k] = pos[k] /\ k < n + 1 /\ pos[k] \in 1..i
    BY <1>2, <1>3, <1>4, <1>5
  <2>2. Between(N, posm, k) = Between(O, pos, k)
    <3>1. CASE k = n
      <4>1. ~(k < Len(pos)) /\ posm[k + 1] = i + 1 /\ k < Len(posm)
        BY <1>1, <1>2, <1>4, <3>1
      <4>2. /\ Between(N, posm, k) = {q \in N : q > pos[k] /\ q < i + 1}
            /\ Between(O, pos, k) = {q \in O : q > pos[k]}
        BY <2>1, <4>1 DEF Between
      <4>3. (\A q \in O : q < i + 1) /\ ~(i + 1 < i + 1)
        BY <1>5
      <4> QED BY <1>5, <4>2, <4>3
    <3>2. CASE k # n
      <4>1. k < Len(pos) /\ k < Len(posm) /\ k + 1 \in 1..n
        BY <1>1, <1>2, <1>4, <3>2
      <4>2. posm[k + 1] = pos[k + 1] /\ pos[k + 1] \in 1..i
        BY <1>4, <1>5, <4>1
      <4> QED BY <1>5, <2>1, <4>1, <4>2 DEF Between
    <3> QED BY <3>1, <3>2
  <2>3. stack[k].start = 0
    BY <1>1, <1>2, <1>6
  <2> QED BY <1>1, <2>1, <2>2, <2>3
<1>9. /\ more[n + 1].name = IdentifierBefore(l, posm[n + 1]).name
      /\ more[n + 1].depth = 1 + Cardinality(Between(N, posm, n + 1))
      /\ more[n + 1].slot = Commas(l, posm[n + 1], i + 1)
  <2>1. Between(N, posm, n + 1) = {}
    <3>1. \A q \in N : ~(q > posm[n + 1])
      BY <1>4, <1>5
    <3> QED BY <3>1 DEF Between
  <2>2. Cardinality(Between(N, posm, n + 1)) = 0
    BY <2>1, FS_EmptySet
  <2>3. Commas(l, i + 1, i + 1) = 0
    <3>1. i + 1 \in Nat
      OBVIOUS
    <3> QED BY <3>1, NoCommas
  <2> QED BY <1>3, <1>4, <2>2, <2>3
<1>10. \A k \in 1..(n + 1) : posm[k] \in CallsAt(l, i + 1)
  BY <1>1, <1>4, <1>7
<1>11. \A p \in CallsAt(l, i + 1) : \E k \in 1..(n + 1) : posm[k] = p
  <2> SUFFICES ASSUME NEW p \in CallsAt(l, i + 1) PROVE \E k \in 1..(n + 1) : posm[k] = p
    OBVIOUS
  <2>1. CASE p = i + 1
    <3>1. n + 1 \in 1..(n + 1)
      BY <1>2
    <3> QED BY <1>4, <2>1, <3>1
  <2>2. CASE p # i + 1
    <3>1. PICK k \in 1..n : pos[k] = p
      BY <1>1, <2>2
    <3>2. k \in 1..(n + 1)
      BY <1>2
    <3> QED BY <1>4, <3>1, <3>2
  <2> QED BY <2>1, <2>2
<1>12. \A m, k \in 1..(n + 1) : m < k => posm[m] < posm[k]
  <2> SUFFICES ASSUME NEW m \in 1..(n + 1), NEW k \in 1..(n + 1), m < k PROVE posm[m] < posm[k]
    OBVIOUS
  <2>1. m \in 1..n
    BY <1>2
  <2>2. CASE k = n + 1
    BY <1>4, <1>5, <2>1, <2>2
  <2>3. CASE k # n + 1
    BY <1>1, <1>4, <1>7, <2>1, <2>3
  <2> QED BY <2>2, <2>3
<1>13. \A k \in 1..(n + 1) :
         /\ more[k].name = IdentifierBefore(l, posm[k]).name
         /\ more[k].depth = 1 + Cardinality(Between(N, posm, k))
         /\ more[k].slot = Commas(l, posm[k], i + 1)
         /\ k < n + 1 => more[k].start = 0
  <2> SUFFICES ASSUME NEW k \in 1..(n + 1)
               PROVE  /\ more[k].name = IdentifierBefore(l, posm[k]).name
                      /\ more[k].depth = 1 + Cardinality(Between(N, posm, k))
                      /\ more[k].slot = Commas(l, posm[k], i + 1)
                      /\ k < n + 1 => more[k].start = 0
    OBVIOUS
  <2>1. CASE k = n + 1
    <3>1. ~(k < n + 1)
      BY <1>2, <2>1
    <3> QED BY <1>9, <2>1, <3>1
  <2>2. CASE k # n + 1
    BY <1>7, <1>8, <2>2
  <2> QED BY <2>1, <2>2
<1>14. StackIs(l, i + 1, more, posm)
  BY <1>3, <1>4, <1>10, <1>11, <1>12, <1>13 DEF StackIs, N
<1> QED BY <1>14 DEF more, posm

(* One that ends the last call.                                             *)
LEMMA StackPop ==
  ASSUME NEW l, NEW i \in Nat, NEW stack, NEW pos, StackIs(l, i, stack, pos), stack # <<>>,
         OpenAt(l, i + 1) = {p \in OpenAt(l, i) : \E q \in OpenAt(l, i) : q > p},
         CallsAt(l, i + 1) = {p \in CallsAt(l, i) : \E q \in OpenAt(l, i) : q > p},
         \A p \in CallsAt(l, i) : Commas(l, p, i + 1) = Commas(l, p, i),
         Balance(l, pos[Len(stack)] + 1, i) = 0
  PROVE  StackIs(l, i + 1, Front(stack), SubSeq(pos, 1, Len(stack) - 1))
<1> DEFINE n == Len(stack) - 1
           less == Front(stack)
           posl == SubSeq(pos, 1, n)
           O == OpenAt(l, i)
           N == OpenAt(l, i + 1)
<1>1. /\ stack \in Seq(Call(l)) /\ pos \in Seq(Nat) /\ Len(pos) = n + 1 /\ n \in Nat
  BY DEF StackIs
<1>2. /\ \A k \in 1..(n + 1) : pos[k] \in CallsAt(l, i)
      /\ \A p \in CallsAt(l, i) : \E k \in 1..(n + 1) : pos[k] = p
      /\ \A m, k \in 1..(n + 1) : m < k => pos[m] < pos[k]
      /\ \A k \in 1..(n + 1) :
           /\ stack[k].name = IdentifierBefore(l, pos[k]).name
           /\ stack[k].depth = 1 + Cardinality(Between(O, pos, k))
           /\ stack[k].slot = Commas(l, pos[k], i)
           /\ k < n + 1 => stack[k].start = 0
  BY <1>1 DEF StackIs
<1>3. /\ less \in Seq(Call(l)) /\ Len(less) = n /\ \A k \in 1..n : less[k] = stack[k]
  BY <1>1, TopDropped
<1>4. /\ posl \in Seq(Nat) /\ Len(posl) = n /\ \A k \in 1..n : posl[k] = pos[k]
  <2>1. n <= Len(pos)
    BY <1>1
  <2> HIDE DEF n
  <2> QED BY <1>1, <2>1, Taken
<1>5. /\ O \in SUBSET (1..i) /\ IsFiniteSet(O) /\ CallsAt(l, i) \subseteq O
      /\ n + 1 \in 1..(n + 1)
  BY <1>1, OpenType, CallsType
<1>6. Len(stack) = n + 1
  BY <1>1
<1> HIDE DEF n, less, posl, O, N
<1> DEFINE t == pos[n + 1]
<1>7. t \in O /\ Behind(O, t) = {}
  <2>1. t \in O
    BY <1>2, <1>5
  <2>2. Balance(l, t + 1, i) = Cardinality(Behind(O, t))
    BY <2>1, OpenBalance DEF O
  <2>3. Cardinality(Behind(O, t)) = 0
    BY <1>6, <2>2
  <2> QED BY <1>5, <2>1, <2>3, BehindFinite
<1>8. N = O \ {t} /\ CallsAt(l, i + 1) = CallsAt(l, i) \ {t}
  <2>1. ASSUME NEW p \in O PROVE (\E q \in O : q > p) <=> p # t
    <3>1. t \in 1..i /\ p \in 1..i
      BY <1>5, <1>7
    <3>2. ~(p > t)
      BY <1>7 DEF Behind
    <3>3. ~(\E q \in O : q > t)
      BY <1>7 DEF Behind
    <3> QED BY <1>7, <3>1, <3>2, <3>3
  <2>2. N = {p \in O : \E q \in O : q > p} /\ CallsAt(l, i + 1) = {p \in CallsAt(l, i) : \E q \in O : q > p}
    BY DEF N, O
  <2> HIDE DEF t
  <2> QED BY <1>5, <2>1, <2>2
<1>9. \A k \in 1..n : /\ k \in 1..(n + 1) /\ k < n + 1 /\ pos[k] < t /\ pos[k] \in 1..i
                      /\ pos[k] \in CallsAt(l, i)
  <2> SUFFICES ASSUME NEW k \in 1..n
               PROVE  /\ k \in 1..(n + 1) /\ k < n + 1 /\ pos[k] < t /\ pos[k] \in 1..i
                      /\ pos[k] \in CallsAt(l, i)
    OBVIOUS
  <2>1. k \in 1..(n + 1) /\ k < n + 1
    BY <1>1
  <2> QED BY <1>2, <1>5, <2>1
<1>10. ASSUME NEW k \in 1..n
       PROVE  /\ less[k].name = IdentifierBefore(l, posl[k]).name
              /\ less[k].depth = 1 + Cardinality(Between(N, posl, k))
              /\ less[k].slot = Commas(l, posl[k], i + 1)
              /\ less[k].start = 0
  <2>1. less[k] = stack[k] /\ posl[k] = pos[k]
    BY <1>3, <1>4
  <2>2. Between(N, posl, k) = Between(O, pos, k)
    <3>0. /\ Between(N, posl, k) = {q \in N : q > pos[k] /\ (k < n => q < posl[k + 1])}
          /\ Between(O, pos, k) = {q \in O : q > pos[k] /\ q < pos[k + 1]}
      BY <1>1, <1>4, <1>9, <2>1 DEF Between
    <3>1. CASE k = n
      <4>1. ~(k < n) /\ pos[k + 1] = t
        BY <1>1, <3>1
      <4>2. \A q \in O : q # t <=> q < t
        <5> SUFFICES ASSUME NEW q \in O PROVE q # t <=> q < t
          OBVIOUS
        <5>1. q \in 1..i /\ t \in 1..i /\ ~(q > t)
          BY <1>5, <1>7 DEF Behind
        <5> QED BY <5>1
      <4> HIDE DEF t
      <4> QED BY <1>8, <3>0, <4>1, <4>2
    <3>2. CASE k # n
      <4>1. k < n /\ k + 1 \in 1..n
        BY <1>1, <3>2
      <4>2. posl[k + 1] = pos[k + 1] /\ pos[k + 1] < t /\ pos[k + 1] \in 1..i /\ t \in 1..i
        BY <1>4, <1>5, <1>7, <1>9, <4>1
      <4> HIDE DEF t
      <4>3. \A q \in O : q < pos[k + 1] => q # t
        BY <1>5, <4>2
      <4> QED BY <1>8, <3>0, <4>1, <4>2, <4>3
    <3> QED BY <3>1, <3>2
  <2>3. Commas(l, pos[k], i + 1) = Commas(l, pos[k], i)
    BY <1>9
  <2> QED BY <1>2, <1>9, <2>1, <2>2, <2>3
<1>11. \A k \in 1..n : posl[k] \in CallsAt(l, i + 1)
  <2> SUFFICES ASSUME NEW k \in 1..n PROVE posl[k] \in CallsAt(l, i + 1)
    OBVIOUS
  <2>1. posl[k] = pos[k] /\ pos[k] \in CallsAt(l, i) /\ pos[k] # t
    BY <1>4, <1>5, <1>7, <1>9
  <2> QED BY <1>8, <2>1
<1>12. \A p \in CallsAt(l, i + 1) : \E k \in 1..n : posl[k] = p
  <2> SUFFICES ASSUME NEW p \in CallsAt(l, i + 1) PROVE \E k \in 1..n : posl[k] = p
    OBVIOUS
  <2>1. PICK k \in 1..(n + 1) : pos[k] = p
    BY <1>2, <1>8
  <2>2. k # n + 1
    BY <1>8, <2>1
  <2>3. k \in 1..n
    BY <1>1, <2>2
  <2> QED BY <1>4, <2>1, <2>3
<1>13. \A m, k \in 1..n : m < k => posl[m] < posl[k]
  BY <1>2, <1>4, <1>9
<1>14. StackIs(l, i + 1, less, posl)
  BY <1>3, <1>4, <1>10, <1>11, <1>12, <1>13 DEF StackIs, N
<1> QED BY <1>14 DEF less, posl, n
-----------------------------------------------------------------------------
(* Identifiers, which are read backwards.                                   *)

LEMMA BackIs ==
  ASSUME NEW l, NEW i \in Nat, NEW S
  PROVE  /\ Back(l, i, S) \in 0..i
         /\ Back(l, i, S) = 0 \/ l[Back(l, i, S)] \notin S
         /\ \A k \in (Back(l, i, S) + 1)..i : l[k] \in S
<1> DEFINE T == {j \in 0..i : j = 0 \/ l[j] \notin S}
<1>1. T \in SUBSET (0..i) /\ 0 \in T /\ Back(l, i, S) = Max(T)
  BY DEF Back
<1>2. Max(T) \in T /\ \A y \in T : Max(T) >= y
  <2> HIDE DEF T
  <2> QED BY <1>1, MaximumOf
<1>3. \A k \in (Max(T) + 1)..i : k \notin T /\ k \in 0..i /\ k # 0
  <2>1. Max(T) \in 0..i
    BY <1>1, <1>2
  <2> HIDE DEF T
  <2> QED BY <1>1, <1>2, <2>1
<1> QED BY <1>1, <1>2, <1>3

LEMMA BackSame ==
  ASSUME NEW l, NEW m, NEW i \in Nat, NEW S, \A j \in 1..i : l[j] = m[j]
  PROVE  Back(l, i, S) = Back(m, i, S)
<1>1. {j \in 0..i : j = 0 \/ l[j] \notin S} = {j \in 0..i : j = 0 \/ m[j] \notin S}
  OBVIOUS
<1> QED BY <1>1 DEF Back

LEMMA IdentifierSame ==
  ASSUME NEW S, NEW l \in Seq(S), NEW c \in Nat, c <= Len(l), NEW i \in 1..c
  PROVE  IdentifierBefore(SubSeq(l, 1, c), i) = IdentifierBefore(l, i)
<1> DEFINE m == SubSeq(l, 1, c)
           end(w) == Back(w, i - 1, {Blank})
           begin(w) == Back(w, end(w), Letter)
           before(w) == Back(w, begin(w), {Blank})
<1>1. m \in Seq(S) /\ Len(m) = c /\ \A k \in 1..c : m[k] = l[k]
  BY Taken
<1>2. m = SubSeq(l, 1, c)
  OBVIOUS
<1> HIDE DEF m
<1>3. ASSUME NEW b \in 0..(c - 1), NEW W PROVE Back(m, b, W) = Back(l, b, W) /\ Back(l, b, W) \in 0..b
  <2>1. b \in Nat /\ \A k \in 1..b : m[k] = l[k]
    BY <1>1
  <2> QED BY <2>1, BackSame, BackIs
<1>4. end(m) = end(l) /\ end(l) \in 0..(i - 1)
  <2>1. i - 1 \in 0..(c - 1)
    OBVIOUS
  <2> QED BY <1>3, <2>1
<1>5. begin(m) = begin(l) /\ begin(l) \in 0..end(l)
  <2> HIDE DEF end
  <2>1. end(l) \in 0..(c - 1)
    BY <1>4
  <2> QED BY <1>3, <1>4, <2>1
<1>6. before(m) = before(l) /\ before(l) \in 0..begin(l)
  <2> HIDE DEF begin, end
  <2>1. begin(l) \in 0..(c - 1)
    BY <1>4, <1>5
  <2> QED BY <1>3, <1>5, <2>1
<1> HIDE DEF end, begin, before
<1>7. SubSeq(m, begin(l) + 1, end(l)) = SubSeq(l, begin(l) + 1, end(l))
  <2> DEFINE b == begin(l)
             e == end(l)
  <2>1. b \in Nat /\ e \in Nat /\ b <= e /\ e < c
    BY <1>4, <1>5
  <2> SUFFICES SubSeq(m, b + 1, e) = SubSeq(l, b + 1, e)
    OBVIOUS
  <2> HIDE DEF b, e
  <2>2. CASE e < b + 1
    <3>1. b + 1 \in Int /\ e \in Int
      BY <2>1
    <3>2. SubSeq(m, b + 1, e) = <<>> /\ SubSeq(l, b + 1, e) = <<>>
      BY <2>2, <3>1, SubSeqEmpty
    <3> QED BY <3>2
  <2>3. CASE b + 1 <= e
    <3>1. /\ 1 \in 1..Len(l) /\ c \in 1..Len(l)
          /\ b + 1 \in 1..((c - 1) + 1) /\ e \in 1..((c - 1) + 1)
          /\ (1 + (b + 1)) - 1 = b + 1 /\ (1 + e) - 1 = e
      BY <2>1, <2>3
    <3>2. SubSeq(SubSeq(l, 1, c), b + 1, e) = SubSeq(l, (1 + (b + 1)) - 1, (1 + e) - 1)
      BY <3>1, SubSeqOfSubSeq
    <3> QED BY <1>2, <3>1, <3>2
  <2> QED BY <2>1, <2>2, <2>3
<1>8. before(l) > 0 => m[before(l)] = l[before(l)]
  BY <1>1, <1>4, <1>5, <1>6
<1>9. \A w : IdentifierBefore(w, i) =
         [name |-> SubSeq(w, begin(w) + 1, end(w)), member |-> before(w) > 0 /\ w[before(w)] = "."]
  BY DEF IdentifierBefore, end, begin, before
<1>10. IdentifierBefore(m, i) =
         [name |-> SubSeq(m, begin(l) + 1, end(l)), member |-> before(l) > 0 /\ m[before(l)] = "."]
  BY <1>4, <1>5, <1>6, <1>9
<1>11. (before(l) > 0 /\ m[before(l)] = ".") <=> (before(l) > 0 /\ l[before(l)] = ".")
  BY <1>8
<1>12. IdentifierBefore(m, i) = IdentifierBefore(l, i)
  BY <1>7, <1>9, <1>10, <1>11
<1> QED BY <1>2, <1>12
-----------------------------------------------------------------------------
(* What a turn of the scan does to the calls.                               *)

IsCall(l, p) == IdentifierBefore(l, p).name # <<>> /\ ~IdentifierBefore(l, p).member

LEMMA CallsAre == ASSUME NEW l, NEW i PROVE CallsAt(l, i) = {p \in OpenAt(l, i) : IsCall(l, p)}
BY DEF CallsAt, NamedAt, IsCall

State(l) == [stack : Seq(Call(l)), outside : BOOLEAN, skips : BOOLEAN, ended : BOOLEAN]

HasStack(l, i, stack) == \E pos : StackIs(l, i, stack, pos)

(* After a turn outside strings.                                            *)
Turned(l, i, s, r) ==
  /\ r \in State(l) /\ r.outside = s.outside /\ r.skips = s.skips /\ r.ended = s.ended
  /\ HasStack(l, i + 1, r.stack)
  /\ r.stack # <<>> => Top(r).start = 0

LEMMA WithTopIs ==
  ASSUME NEW l, NEW s \in State(l), s.stack # <<>>, NEW top \in Call(l)
  PROVE  /\ WithTop(s, top) \in State(l) /\ Top(WithTop(s, top)) = top
         /\ WithTop(s, top).outside = s.outside /\ WithTop(s, top).skips = s.skips
         /\ WithTop(s, top).ended = s.ended
         /\ WithTop(s, top).stack = Append(Front(s.stack), top)
         /\ WithTop(s, top).stack # <<>>
<1> DEFINE w == Append(Front(s.stack), top)
<1>1. s.stack \in Seq(Call(l))
  BY DEF State
<1>2. w \in Seq(Call(l)) /\ Last(w) = top /\ w # <<>>
  BY <1>1, TopReplaced
<1> HIDE DEF w
<1>3. WithTop(s, top) = [s EXCEPT !.stack = w]
  BY DEF WithTop, w
<1> QED BY <1>2, <1>3 DEF State, Top, w

LEMMA TopType ==
  ASSUME NEW l, NEW s \in State(l), s.stack # <<>>
  PROVE  /\ Top(s) \in Call(l) /\ Top(s).depth \in Nat \ {0} /\ Top(s).slot \in Nat
         /\ Top(s).start \in Nat
         /\ \A x \in Nat \ {0} : [Top(s) EXCEPT !.depth = x] \in Call(l)
         /\ \A x \in Nat : [Top(s) EXCEPT !.slot = x] \in Call(l) /\ [Top(s) EXCEPT !.start = x] \in Call(l)
<1>1. s.stack \in Seq(Call(l)) /\ Len(s.stack) \in 1..Len(s.stack)
  BY DEF State
<1>2. Top(s) = s.stack[Len(s.stack)]
  BY DEF Top, Last
<1>3. Top(s) \in Call(l)
  BY <1>1, <1>2
<1> QED BY <1>3 DEF Call

LEMMA InInterval == ASSUME NEW i \in Nat, NEW p \in 1..i PROVE p \in Nat /\ p <= i
OBVIOUS

LEMMA SameCalls ==
  ASSUME NEW l, NEW i \in Nat, ~(l[i + 1] \in {"(", ")"} /\ Code(l, i + 1))
  PROVE  OpenAt(l, i + 1) = OpenAt(l, i) /\ CallsAt(l, i + 1) = CallsAt(l, i)
BY OpenNext, CallsAre

LEMMA SameCommas ==
  ASSUME NEW l, NEW i \in Nat, ~(l[i + 1] = Separator /\ Code(l, i + 1))
  PROVE  \A p \in CallsAt(l, i) : Commas(l, p, i + 1) = Commas(l, p, i)
<1>0. CallsAt(l, i) \subseteq 1..i
  BY CallsType
<1>1. \A p \in CallsAt(l, i) : p \in Nat /\ p <= i
  BY <1>0, InInterval, Zenon
<1> QED BY <1>1, CommasNext

LEMMA PlainTurn ==
  ASSUME NEW l, NEW i \in Nat, NEW stack, HasStack(l, i, stack),
         ~(l[i + 1] \in {"(", ")", Separator} /\ Code(l, i + 1))
  PROVE  HasStack(l, i + 1, stack)
<1>1. PICK pos : StackIs(l, i, stack, pos)
  BY DEF HasStack
<1>2. /\ OpenAt(l, i + 1) = OpenAt(l, i) /\ CallsAt(l, i + 1) = CallsAt(l, i)
      /\ \A p \in CallsAt(l, i) : Commas(l, p, i + 1) = Commas(l, p, i)
  BY SameCalls, SameCommas
<1>3. \A k \in 1..Len(pos) : pos[k] \in CallsAt(l, i)
  BY <1>1 DEF StackIs
<1>4. StackIs(l, i + 1, stack, pos)
  BY <1>1, <1>2, <1>3, StackKept
<1> QED BY <1>4 DEF HasStack

LEMMA StartTurn ==
  ASSUME NEW l, NEW i \in Nat, NEW s \in State(l), s.stack # <<>>, HasStack(l, i, s.stack),
         NEW x \in Nat
  PROVE  HasStack(l, i, WithTop(s, [Top(s) EXCEPT !.start = x]).stack)
<1> DEFINE top == [Top(s) EXCEPT !.start = x]
<1>1. PICK pos : StackIs(l, i, s.stack, pos)
  BY DEF HasStack
<1>2. /\ top \in Call(l) /\ top.name = Last(s.stack).name /\ top.depth = Last(s.stack).depth
      /\ top.slot = Last(s.stack).slot
  <2>1. top \in Call(l) /\ Top(s) \in Call(l)
    BY TopType
  <2> QED BY <2>1 DEF Top, Call
<1>3. WithTop(s, top).stack = Append(Front(s.stack), top)
  BY <1>2, WithTopIs
<1>4. Len(s.stack) \in 1..Len(pos) /\ Last(s.stack) = s.stack[Len(s.stack)]
  <2>1. Len(s.stack) \in Nat /\ Len(s.stack) # 0 /\ Len(pos) = Len(s.stack)
    BY <1>1 DEF StackIs, State
  <2> QED BY <2>1 DEF Last
<1>5. /\ top.depth = 1 + Cardinality(Between(OpenAt(l, i), pos, Len(s.stack)))
      /\ top.slot = Commas(l, pos[Len(s.stack)], i)
  BY <1>1, <1>2, <1>4 DEF StackIs
<1> HIDE DEF top
<1>6. StackIs(l, i, Append(Front(s.stack), top), pos)
  BY <1>1, <1>2, <1>5, StackTop
<1> QED BY <1>3, <1>6 DEF HasStack, top

(* Outside strings a call's comma counts if no parenthesis behind the       *)
(* call's own is open.                                                      *)
LEMMA CommaTurn ==
  ASSUME NEW l, NEW i \in Nat, NEW s \in State(l), HasStack(l, i, s.stack),
         s.stack # <<>> => Top(s).start = 0, l[i + 1] = Separator, Code(l, i + 1)
  PROVE  Turned(l, i, s, Comma(s))
<1>1. PICK pos : StackIs(l, i, s.stack, pos)
  BY DEF HasStack
<1>2. l[i + 1] \notin {"(", ")"}
  BY Characters
<1>3. OpenAt(l, i + 1) = OpenAt(l, i) /\ CallsAt(l, i + 1) = CallsAt(l, i)
  BY <1>2, SameCalls
<1>4. \A p \in CallsAt(l, i) :
        Commas(l, p, i + 1) = Commas(l, p, i) + IF Balance(l, p + 1, i) = 0 THEN 1 ELSE 0
  <2> SUFFICES ASSUME NEW p \in CallsAt(l, i)
               PROVE  Commas(l, p, i + 1) = Commas(l, p, i) + IF Balance(l, p + 1, i) = 0 THEN 1 ELSE 0
    OBVIOUS
  <2>0. CallsAt(l, i) \subseteq 1..i
    BY CallsType
  <2>1. p \in Nat /\ p <= i
    BY <2>0, InInterval
  <2>2. CASE Balance(l, p + 1, i) = 0
    BY <2>1, <2>2, CommasNext
  <2>3. CASE Balance(l, p + 1, i) # 0
    <3>1. Commas(l, p, i + 1) = Commas(l, p, i) /\ Commas(l, p, i) \in Nat
      BY <2>1, <2>3, CommasNext
    <3> QED BY <2>3, <3>1
  <2> QED BY <2>2, <2>3
<1>5. \A k \in 1..Len(pos) : pos[k] \in CallsAt(l, i)
  BY <1>1 DEF StackIs
<1>6. CASE s.stack = <<>>
  <2>1. Len(pos) = 0
    <3>1. Len(pos) = Len(s.stack)
      BY <1>1 DEF StackIs
    <3> QED BY <1>6, <3>1
  <2>2. StackIs(l, i + 1, s.stack, pos)
    BY <1>1, <1>3, <2>1, StackKept
  <2> QED BY <1>6, <2>2 DEF Turned, Comma, HasStack
<1>7. CASE s.stack # <<>>
  <2> DEFINE n == Len(s.stack)
  <2>1. /\ n \in Nat \ {0} /\ Len(pos) = n /\ Top(s) = Last(s.stack) /\ Top(s) = s.stack[n]
        /\ Top(s).depth = 1 + Balance(l, pos[n] + 1, i) /\ Balance(l, pos[n] + 1, i) \in Nat
        /\ \A k \in 1..(n - 1) : Balance(l, pos[k] + 1, i) # 0
    <3>1. Len(pos) = n
      BY <1>1 DEF StackIs
    <3> QED BY <1>1, <1>7, <3>1, StackMeans DEF Top
  <2>2. /\ \A k \in 1..n :
             /\ pos[k] \in CallsAt(l, i)
             /\ Commas(l, pos[k], i + 1)
                  = Commas(l, pos[k], i) + IF Balance(l, pos[k] + 1, i) = 0 THEN 1 ELSE 0
             /\ Commas(l, pos[k], i) \in Nat
        /\ Top(s).slot = Commas(l, pos[n], i)
        /\ Top(s).depth = 1 + Cardinality(Between(OpenAt(l, i), pos, n))
    <3>1. n \in 1..Len(pos)
      BY <2>1
    <3>2. \A k \in 1..Len(pos) : Commas(l, pos[k], i) \in Nat
      <4> SUFFICES ASSUME NEW k \in 1..Len(pos) PROVE Commas(l, pos[k], i) \in Nat
        OBVIOUS
      <4>1. CallsAt(l, i) \subseteq 1..i /\ pos[k] \in CallsAt(l, i)
        BY <1>5, CallsType
      <4>2. pos[k] \in Nat /\ pos[k] <= i
        BY <4>1, InInterval
      <4> QED BY <4>2, CommasNext
    <3> QED BY <1>1, <1>4, <1>5, <2>1, <3>1, <3>2 DEF StackIs
  <2>3. /\ Top(s) \in Call(l) /\ Top(s).slot \in Nat
        /\ [Top(s) EXCEPT !.slot = Top(s).slot + 1] \in Call(l)
    <3>1. Top(s).slot \in Nat => Top(s).slot + 1 \in Nat
      OBVIOUS
    <3> QED BY <1>7, <3>1, TopType
  <2>4. CASE Top(s).depth = 1
    <3> DEFINE top == [Top(s) EXCEPT !.slot = @ + 1]
    <3>1. /\ top \in Call(l) /\ top.name = Last(s.stack).name /\ top.depth = Top(s).depth
          /\ top.start = 0 /\ top.slot = Top(s).slot + 1
      BY <1>7, <2>1, <2>3 DEF Call
    <3>2. Comma(s) = WithTop(s, top)
      BY <1>7, <2>4 DEF Comma
    <3> HIDE DEF top
    <3>3. \A k \in 1..(n - 1) :
            /\ Between(OpenAt(l, i + 1), pos, k) = Between(OpenAt(l, i), pos, k)
            /\ Commas(l, pos[k], i + 1) = Commas(l, pos[k], i)
      <4> HIDE DEF n
      <4>1. ASSUME NEW k \in 1..(n - 1) PROVE Commas(l, pos[k], i + 1) = Commas(l, pos[k], i)
        <5>1. k \in 1..n
          BY <2>1
        <5> QED BY <2>1, <2>2, <5>1
      <4> QED BY <1>3, <4>1
    <3>4. top.slot = Commas(l, pos[n], i + 1)
      <4> HIDE DEF n
      <4>1. n \in 1..n /\ Balance(l, pos[n] + 1, i) = 0
        BY <2>1, <2>4
      <4> QED BY <2>2, <3>1, <4>1
    <3>5. top.depth = 1 + Cardinality(Between(OpenAt(l, i + 1), pos, n))
      BY <1>3, <2>2, <3>1
    <3>6. StackIs(l, i + 1, Append(Front(s.stack), top), pos)
      BY <1>1, <1>3, <1>7, <3>1, <3>3, <3>4, <3>5, StackTop
    <3>7. HasStack(l, i + 1, Append(Front(s.stack), top))
      BY <3>6 DEF HasStack
    <3>8. /\ WithTop(s, top) \in State(l) /\ Top(WithTop(s, top)) = top
          /\ WithTop(s, top).outside = s.outside /\ WithTop(s, top).skips = s.skips
          /\ WithTop(s, top).ended = s.ended
          /\ WithTop(s, top).stack = Append(Front(s.stack), top)
      BY <1>7, <3>1, WithTopIs
    <3> QED BY <3>1, <3>2, <3>7, <3>8 DEF Turned
  <2>5. CASE Top(s).depth # 1
    <3> HIDE DEF n
    <3>1. Comma(s) = s
      BY <2>5 DEF Comma
    <3>2. \A k \in 1..n : Commas(l, pos[k], i + 1) = Commas(l, pos[k], i)
      <4> SUFFICES ASSUME NEW k \in 1..n PROVE Commas(l, pos[k], i + 1) = Commas(l, pos[k], i)
        OBVIOUS
      <4>1. Balance(l, pos[k] + 1, i) # 0
        <5>1. CASE k = n
          BY <2>1, <2>5, <5>1
        <5>2. CASE k # n
          <6>1. k \in 1..(n - 1)
            BY <2>1, <5>2
          <6> QED BY <2>1, <6>1
        <5> QED BY <5>1, <5>2
      <4> QED BY <2>2, <4>1
    <3>3. StackIs(l, i + 1, s.stack, pos)
      BY <1>1, <1>3, <2>1, <3>2, StackKept
    <3>4. HasStack(l, i + 1, s.stack)
      BY <3>3 DEF HasStack
    <3> QED BY <3>1, <3>4 DEF Turned
  <2> QED BY <2>4, <2>5
<1> QED BY <1>6, <1>7

LEMMA CallsOpen ==
  ASSUME NEW l, NEW i \in Nat, l[i + 1] = "(", Code(l, i + 1)
  PROVE  /\ OpenAt(l, i + 1) = OpenAt(l, i) \cup {i + 1}
         /\ IsCall(l, i + 1) => CallsAt(l, i + 1) = CallsAt(l, i) \cup {i + 1}
         /\ ~IsCall(l, i + 1) => CallsAt(l, i + 1) = CallsAt(l, i)
<1>1. OpenAt(l, i + 1) = OpenAt(l, i) \cup {i + 1}
  BY OpenNext
<1> QED BY <1>1, CallsAre

LEMMA OpenTurn ==
  ASSUME NEW l, NEW i \in Nat, NEW s \in State(l), HasStack(l, i, s.stack),
         s.stack # <<>> => Top(s).start = 0, l[i + 1] = "(", Code(l, i + 1)
  PROVE  Turned(l, i, s, OpenParenthesis(s, l, i + 1))
<1>1. PICK pos : StackIs(l, i, s.stack, pos)
  BY DEF HasStack
<1>2. /\ OpenAt(l, i + 1) = OpenAt(l, i) \cup {i + 1}
      /\ IsCall(l, i + 1) => CallsAt(l, i + 1) = CallsAt(l, i) \cup {i + 1}
      /\ ~IsCall(l, i + 1) => CallsAt(l, i + 1) = CallsAt(l, i)
  BY CallsOpen
<1>3. \A p \in CallsAt(l, i) : Commas(l, p, i + 1) = Commas(l, p, i)
  <2>1. l[i + 1] # Separator
    BY Characters
  <2> QED BY <2>1, SameCommas
<1>4. \A k \in 1..Len(pos) : pos[k] \in CallsAt(l, i)
  BY <1>1 DEF StackIs
<1>5. s.stack \in Seq(Call(l)) /\ s.outside \in BOOLEAN /\ s.skips \in BOOLEAN /\ s.ended \in BOOLEAN
  BY DEF State
<1>6. CASE IsCall(l, i + 1)
  <2> DEFINE new == [name |-> IdentifierBefore(l, i + 1).name, depth |-> 1, slot |-> 0, start |-> 0]
             r == OpenParenthesis(s, l, i + 1)
  <2>1. new \in Call(l)
    <3>1. i + 1 \in Nat
      OBVIOUS
    <3> QED BY <3>1 DEF Call
  <2>2. r = [s EXCEPT !.stack = Append(s.stack, new)]
    BY <1>6 DEF OpenParenthesis, IsCall
  <2> HIDE DEF new
  <2>3. /\ Append(s.stack, new) \in Seq(Call(l)) /\ Append(s.stack, new) # <<>>
        /\ Last(Append(s.stack, new)) = new
    <3>1. /\ Append(s.stack, new) \in Seq(Call(l)) /\ Len(Append(s.stack, new)) = Len(s.stack) + 1
          /\ Append(s.stack, new)[Len(s.stack) + 1] = new /\ Len(s.stack) \in Nat
      BY <1>5, <2>1
    <3>2. Append(s.stack, new) # <<>>
      BY <3>1
    <3> QED BY <3>1, <3>2 DEF Last
  <2>4. StackIs(l, i + 1, Append(s.stack, new), Append(pos, i + 1))
    <3>1. s.stack # <<>> => Last(s.stack).start = 0
      BY DEF Top
    <3>2. new = [name |-> IdentifierBefore(l, i + 1).name, depth |-> 1, slot |-> 0, start |-> 0]
      BY DEF new
    <3> QED BY <1>1, <1>2, <1>3, <1>6, <2>1, <3>1, <3>2, StackPush
  <2>5. new.start = 0
    BY DEF new
  <2>6. /\ r \in State(l) /\ r.stack = Append(s.stack, new) /\ r.outside = s.outside
        /\ r.skips = s.skips /\ r.ended = s.ended
    BY <2>2, <2>3 DEF State
  <2> HIDE DEF r
  <2>7. HasStack(l, i + 1, r.stack) /\ Top(r).start = 0
    BY <2>3, <2>4, <2>5, <2>6 DEF HasStack, Top
  <2> QED BY <2>6, <2>7 DEF Turned, r
<1>7. CASE ~IsCall(l, i + 1) /\ s.stack = <<>>
  <2>1. Len(pos) = 0
    <3>1. Len(pos) = Len(s.stack)
      BY <1>1 DEF StackIs
    <3> QED BY <1>7, <3>1
  <2>2. StackIs(l, i + 1, s.stack, pos)
    BY <1>1, <1>2, <1>7, <2>1, StackKept
  <2>3. OpenParenthesis(s, l, i + 1) = s
    BY <1>7 DEF OpenParenthesis, IsCall
  <2> QED BY <1>7, <2>2, <2>3 DEF Turned, HasStack
<1>8. CASE ~IsCall(l, i + 1) /\ s.stack # <<>>
  <2> DEFINE n == Len(s.stack)
             top == [Top(s) EXCEPT !.depth = @ + 1]
             O == OpenAt(l, i)
             N == OpenAt(l, i + 1)
  <2>1. /\ n \in Nat \ {0} /\ n \in 1..Len(pos) /\ Last(s.stack) = s.stack[n] /\ Len(pos) = n
        /\ pos[n] \in CallsAt(l, i)
    <3>1. Len(pos) = n
      BY <1>1 DEF StackIs
    <3> QED BY <1>1, <1>8, <3>1, StackMeans
  <2>2. /\ Top(s).slot = Commas(l, pos[n], i) /\ Top(s) = Last(s.stack)
        /\ Top(s).depth = 1 + Cardinality(Between(O, pos, n))
        /\ \A j, k \in 1..n : j < k => pos[j] < pos[k]
    BY <1>1, <2>1 DEF StackIs, Top
  <2>3. /\ top \in Call(l) /\ top.name = Last(s.stack).name /\ top.slot = Top(s).slot
        /\ top.depth = Top(s).depth + 1 /\ top.start = 0
    <3>1. Top(s) \in Call(l) /\ Top(s).depth \in Nat \ {0} /\ [Top(s) EXCEPT !.depth = Top(s).depth + 1] \in Call(l)
      <4>1. Top(s).depth \in Nat \ {0} => Top(s).depth + 1 \in Nat \ {0}
        OBVIOUS
      <4> QED BY <1>8, <4>1, TopType
    <3> QED BY <1>8, <2>2, <3>1 DEF Call
  <2>4. /\ O \in SUBSET (1..i) /\ IsFiniteSet(O) /\ N = O \cup {i + 1}
        /\ \A k \in 1..n : pos[k] \in 1..i
    <3>1. CallsAt(l, i) \subseteq 1..i
      BY CallsType
    <3> QED BY <1>2, <1>4, <2>1, <3>1, OpenType
  <2> HIDE DEF n, O, N
  <2>5. ASSUME NEW k \in 1..(n - 1)
        PROVE  Between(N, pos, k) = Between(O, pos, k) /\ Commas(l, pos[k], i + 1) = Commas(l, pos[k], i)
    <3>1. k \in 1..n /\ k + 1 \in 1..n /\ k < Len(pos)
      BY <2>1
    <3>2. pos[k + 1] \in 1..i
      BY <2>4, <3>1
    <3>3. ~(i + 1 < pos[k + 1])
      BY <3>2
    <3>4. Between(N, pos, k) = Between(O, pos, k)
      BY <2>4, <3>1, <3>3 DEF Between
    <3> QED BY <1>3, <1>4, <2>1, <3>1, <3>4
  <2>6. Cardinality(Between(N, pos, n)) = Cardinality(Between(O, pos, n)) + 1
    <3>1. ~(n < Len(pos)) /\ pos[n] \in 1..i
      BY <2>1, <2>4
    <3>2. i + 1 > pos[n] /\ i + 1 \notin O
      BY <2>4, <3>1
    <3>3. Between(N, pos, n) = Between(O, pos, n) \cup {i + 1} /\ i + 1 \notin Between(O, pos, n)
      BY <2>4, <3>1, <3>2 DEF Between
    <3>4. IsFiniteSet(Between(O, pos, n))
      <4>1. Between(O, pos, n) \subseteq O
        BY DEF Between
      <4> QED BY <2>4, <4>1, FS_Subset
    <3> QED BY <3>3, <3>4, FS_AddElement
  <2>7. Cardinality(Between(O, pos, n)) \in Nat
    <3>1. Between(O, pos, n) \subseteq O
      BY DEF Between
    <3> QED BY <2>4, <3>1, FS_Subset, FS_CardinalityType
  <2>8. OpenParenthesis(s, l, i + 1) = WithTop(s, top)
    BY <1>8 DEF OpenParenthesis, IsCall
  <2> HIDE DEF top
  <2>9. /\ top.depth = 1 + Cardinality(Between(N, pos, n)) /\ top.slot = Commas(l, pos[n], i + 1)
    BY <1>3, <2>1, <2>2, <2>3, <2>6, <2>7
  <2>10. StackIs(l, i + 1, Append(Front(s.stack), top), pos)
    BY <1>1, <1>2, <1>8, <2>3, <2>5, <2>9, StackTop DEF n, N, O
  <2>11. HasStack(l, i + 1, Append(Front(s.stack), top))
    BY <2>10 DEF HasStack
  <2>12. /\ WithTop(s, top) \in State(l) /\ Top(WithTop(s, top)) = top
         /\ WithTop(s, top).outside = s.outside /\ WithTop(s, top).skips = s.skips
         /\ WithTop(s, top).ended = s.ended
         /\ WithTop(s, top).stack = Append(Front(s.stack), top)
    BY <1>8, <2>3, WithTopIs
  <2> QED BY <2>3, <2>8, <2>11, <2>12 DEF Turned
<1> QED BY <1>6, <1>7, <1>8

LEMMA CloseTurn ==
  ASSUME NEW l, NEW i \in Nat, NEW s \in State(l), HasStack(l, i, s.stack),
         s.stack # <<>> => Top(s).start = 0, l[i + 1] = ")", Code(l, i + 1)
  PROVE  Turned(l, i, s, CloseParenthesis(s))
<1> DEFINE n == Len(s.stack)
           O == OpenAt(l, i)
           N == OpenAt(l, i + 1)
           C == CallsAt(l, i)
<1>1. PICK pos : StackIs(l, i, s.stack, pos)
  BY DEF HasStack
<1>2. N = {p \in O : \E q \in O : q > p}
  BY OpenCloses
<1>3. CallsAt(l, i + 1) = {p \in C : \E q \in O : q > p}
  <2> HIDE DEF O, N
  <2>1. CallsAt(l, i + 1) = {p \in N : IsCall(l, p)} /\ C = {p \in O : IsCall(l, p)}
    BY CallsAre DEF O, N
  <2> QED BY <1>2, <2>1
<1>4. \A p \in C : Commas(l, p, i + 1) = Commas(l, p, i)
  <2>1. l[i + 1] # Separator
    BY Characters
  <2> QED BY <2>1, SameCommas
<1>5. /\ \A k \in 1..Len(pos) : pos[k] \in C
      /\ Len(pos) = n /\ s.stack \in Seq(Call(l))
  BY <1>1 DEF StackIs
<1>6. s.outside \in BOOLEAN /\ s.skips \in BOOLEAN /\ s.ended \in BOOLEAN
  BY DEF State
<1>7. CASE s.stack = <<>>
  <2>1. C = {}
    BY <1>1, <1>7, StackMeans
  <2>2. CallsAt(l, i + 1) = C /\ Len(pos) = 0
    BY <1>3, <1>5, <1>7, <2>1
  <2>3. StackIs(l, i + 1, s.stack, pos)
    BY <1>1, <2>2, StackKept
  <2>4. HasStack(l, i + 1, s.stack) /\ CloseParenthesis(s) = s
    BY <1>7, <2>3 DEF HasStack, CloseParenthesis
  <2> QED BY <1>7, <2>4 DEF Turned
<1>8. CASE s.stack # <<>>
  <2>1. /\ n \in Nat \ {0} /\ Top(s) = s.stack[n] /\ Top(s) = Last(s.stack) /\ pos[n] \in C
        /\ Between(O, pos, n) = Behind(O, pos[n])
        /\ Top(s).depth = 1 + Balance(l, pos[n] + 1, i) /\ Balance(l, pos[n] + 1, i) \in Nat
    BY <1>1, <1>8, StackMeans DEF Top
  <2>2. /\ \A k \in 1..n : s.stack[k].depth = 1 + Cardinality(Between(O, pos, k))
        /\ \A k \in 1..n : s.stack[k].slot = Commas(l, pos[k], i)
        /\ \A k \in 1..n : k < n => s.stack[k].start = 0
        /\ \A j, k \in 1..n : j < k => pos[j] < pos[k]
    BY <1>1, <1>5 DEF StackIs
  <2>3. /\ O \in SUBSET (1..i) /\ IsFiniteSet(O) /\ C \subseteq O /\ n \in 1..n
    BY <2>1, OpenType, CallsType
  <2>4. CASE Top(s).depth = 1
    <3>1. Balance(l, pos[n] + 1, i) = 0
      BY <2>1, <2>4
    <3>2. StackIs(l, i + 1, Front(s.stack), SubSeq(pos, 1, n - 1))
      BY <1>1, <1>2, <1>3, <1>4, <1>8, <3>1, StackPop
    <3>3. CloseParenthesis(s) = [s EXCEPT !.stack = Front(s.stack)]
      BY <1>8, <2>4 DEF CloseParenthesis
    <3>4. /\ Front(s.stack) \in Seq(Call(l)) /\ Len(Front(s.stack)) = n - 1
          /\ \A k \in 1..(n - 1) : Front(s.stack)[k] = s.stack[k]
      BY <1>5, <1>8, TopDropped
    <3> DEFINE less == Front(s.stack)
    <3>5. HasStack(l, i + 1, less)
      BY <3>2 DEF HasStack
    <3> HIDE DEF less, n
    <3>6. less # <<>> => Last(less).start = 0
      <4> SUFFICES ASSUME less # <<>> PROVE Last(less).start = 0
        OBVIOUS
      <4>1. less \in Seq(Call(l)) /\ Len(less) = n - 1
        BY <3>4 DEF less
      <4>2. n - 1 \in 1..(n - 1) /\ n - 1 \in 1..n /\ n - 1 < n
        BY <2>1, <4>1
      <4>3. Last(less) = s.stack[n - 1]
        BY <3>4, <4>1, <4>2 DEF Last, less
      <4> QED BY <2>2, <4>2, <4>3
    <3>7. CloseParenthesis(s) = [s EXCEPT !.stack = less] /\ less \in Seq(Call(l))
      BY <3>3, <3>4 DEF less
    <3>8. /\ [s EXCEPT !.stack = less] \in State(l) /\ [s EXCEPT !.stack = less].stack = less
          /\ [s EXCEPT !.stack = less].outside = s.outside
          /\ [s EXCEPT !.stack = less].skips = s.skips
          /\ [s EXCEPT !.stack = less].ended = s.ended
      BY <3>7 DEF State
    <3>9. less # <<>> => Top([s EXCEPT !.stack = less]).start = 0
      BY <3>6, <3>8 DEF Top
    <3> QED BY <3>5, <3>7, <3>8, <3>9 DEF Turned
  <2>5. CASE Top(s).depth # 1
    <3> DEFINE top == [Top(s) EXCEPT !.depth = @ - 1]
               t == Max(O)
    <3>1. Behind(O, pos[n]) # {}
      <4>1. Balance(l, pos[n] + 1, i) = Cardinality(Behind(O, pos[n]))
        BY <2>1, <2>3, OpenBalance
      <4>2. Cardinality(Behind(O, pos[n])) # 0
        BY <2>1, <2>5, <4>1
      <4> QED BY <4>2, FS_EmptySet
    <3>2. t \in O /\ \A q \in O : t >= q
      <4>1. O \in SUBSET (0..i) /\ O # {}
        BY <2>1, <2>3
      <4> HIDE DEF O
      <4> QED BY <4>1, MaximumOf
    <3> HIDE DEF t, O, N, C, n
    <3>3. t > pos[n]
      <4>1. PICK q \in O : q > pos[n]
        BY <3>1 DEF Behind
      <4>2. q \in 1..i /\ t \in 1..i /\ pos[n] \in 1..i /\ t >= q
        BY <2>1, <2>3, <3>2
      <4> QED BY <4>1, <4>2
    <3>4. \A q \in O : (\E r \in O : r > q) <=> q # t
      BY <2>3, <3>2
    <3>5. N = O \ {t}
      BY <1>2, <3>4
    <3>6. \A k \in 1..n : pos[k] \in C /\ pos[k] \in 1..i /\ pos[k] <= pos[n] /\ pos[k] # t
      <4> SUFFICES ASSUME NEW k \in 1..n
                   PROVE  pos[k] \in C /\ pos[k] \in 1..i /\ pos[k] <= pos[n] /\ pos[k] # t
        OBVIOUS
      <4>1. pos[k] \in C /\ pos[k] \in 1..i /\ pos[n] \in 1..i /\ t \in 1..i
        BY <1>5, <2>1, <2>3, <3>2
      <4>2. pos[k] <= pos[n]
        <5>1. CASE k = n
          BY <4>1, <5>1
        <5>2. CASE k # n
          <6>1. k < n
            BY <2>1, <5>2
          <6> QED BY <2>2, <2>3, <4>1, <6>1
        <5> QED BY <5>1, <5>2
      <4> QED BY <3>3, <4>1, <4>2
    <3>7. CallsAt(l, i + 1) = C
      <4>1. \A p \in C : \E k \in 1..n : pos[k] = p
        BY <1>1, <1>5 DEF StackIs, C
      <4>2. \A p \in C : \E q \in O : q > p
        BY <2>3, <3>4, <3>6, <4>1
      <4> QED BY <1>3, <4>2
    <3>8. ASSUME NEW k \in 1..(n - 1)
          PROVE  Between(N, pos, k) = Between(O, pos, k) /\ Commas(l, pos[k], i + 1) = Commas(l, pos[k], i)
      <4>1. k \in 1..n /\ k + 1 \in 1..n /\ k < Len(pos)
        BY <1>5, <2>1
      <4>2. ~(t < pos[k + 1])
        <5>1. pos[k + 1] \in 1..i /\ pos[k + 1] <= pos[n] /\ pos[n] \in 1..i /\ t \in 1..i
          BY <2>3, <3>2, <3>6, <4>1
        <5> QED BY <3>3, <5>1
      <4>3. Between(N, pos, k) = Between(O, pos, k)
        BY <3>5, <4>1, <4>2 DEF Between
      <4> QED BY <1>4, <3>6, <4>1, <4>3
    <3>9. Between(O, pos, n) = Between(N, pos, n) \cup {t} /\ t \notin Between(N, pos, n)
      <4>1. ~(n < Len(pos))
        BY <1>5, <2>1
      <4> QED BY <3>2, <3>3, <3>5, <4>1 DEF Between
    <3>10. IsFiniteSet(Between(N, pos, n)) /\ Cardinality(Between(N, pos, n)) \in Nat
      <4>1. Between(N, pos, n) \subseteq O
        BY <3>5 DEF Between
      <4> QED BY <2>3, <4>1, FS_Subset, FS_CardinalityType
    <3>11. Cardinality(Between(O, pos, n)) = Cardinality(Between(N, pos, n)) + 1
      BY <3>9, <3>10, FS_AddElement
    <3>12. Top(s).depth - 1 \in Nat \ {0} /\ Top(s).depth \in Nat
      BY <2>1, <2>5
    <3>13. /\ Top(s) \in Call(l) /\ [Top(s) EXCEPT !.depth = Top(s).depth - 1] \in Call(l)
      BY <1>8, <3>12, TopType
    <3>14. /\ top \in Call(l) /\ top.name = Last(s.stack).name /\ top.slot = Top(s).slot
           /\ top.depth = Top(s).depth - 1 /\ top.start = 0
      BY <1>8, <2>1, <3>13 DEF Call
    <3>15. CloseParenthesis(s) = WithTop(s, top)
      BY <1>8, <2>5 DEF CloseParenthesis
    <3> HIDE DEF top
    <3>16. top.depth = 1 + Cardinality(Between(N, pos, n))
      <4>1. Top(s).depth = 1 + Cardinality(Between(O, pos, n))
        BY <2>1, <2>2, <2>3
      <4>2. top.depth = Top(s).depth - 1
        BY <3>14
      <4> QED BY <3>10, <3>11, <4>1, <4>2
    <3>17. top.slot = Commas(l, pos[n], i + 1)
      BY <1>4, <2>1, <2>2, <2>3, <3>14
    <3>18. StackIs(l, i + 1, Append(Front(s.stack), top), pos)
      BY <1>1, <1>8, <3>7, <3>8, <3>14, <3>16, <3>17, StackTop DEF n, N, O, C
    <3>19. HasStack(l, i + 1, Append(Front(s.stack), top))
      BY <3>18 DEF HasStack
    <3>20. /\ WithTop(s, top) \in State(l) /\ Top(WithTop(s, top)) = top
           /\ WithTop(s, top).outside = s.outside /\ WithTop(s, top).skips = s.skips
           /\ WithTop(s, top).ended = s.ended
           /\ WithTop(s, top).stack = Append(Front(s.stack), top)
      BY <1>8, <3>14, WithTopIs
    <3> QED BY <3>14, <3>15, <3>19, <3>20 DEF Turned
  <2> QED BY <2>4, <2>5
<1> QED BY <1>7, <1>8
-----------------------------------------------------------------------------
(* The scan: after i of the c characters before the cursor.                 *)

LEMMA StartNext ==
  ASSUME NEW l, NEW i \in Nat
  PROVE  /\ Opens(l, i + 1) => StringStart(l, i + 1) = i + 1
         /\ ~Opens(l, i + 1) => StringStart(l, i + 1) = StringStart(l, i)
<1> DEFINE S(k) == {j \in 1..k : Opens(l, j)}
<1>1. (\A j \in 1..(i + 1) : j = i + 1 \/ j \in 1..i) /\ \A j \in 1..i : j \in 1..(i + 1)
  OBVIOUS
<1>2. ASSUME Opens(l, i + 1) PROVE StringStart(l, i + 1) = i + 1
  <2>1. /\ i + 1 \in Nat /\ S(i + 1) \in SUBSET (0..(i + 1)) /\ i + 1 \in S(i + 1)
        /\ \A y \in S(i + 1) : i + 1 >= y
    BY <1>2
  <2> HIDE DEF S
  <2>2. Max(S(i + 1)) = i + 1
    BY <2>1, MaximumIs
  <2> QED BY <2>2 DEF StringStart, S
<1>3. ASSUME ~Opens(l, i + 1) PROVE StringStart(l, i + 1) = StringStart(l, i)
  <2>1. S(i + 1) = S(i)
    BY <1>1, <1>3
  <2> QED BY <2>1 DEF StringStart
<1> QED BY <1>2, <1>3

(* A turn of the loop, said of the line itself.                             *)
Turn(l, c, i, s) ==
  CASE s.ended -> s
    [] ~s.ended /\ s.skips -> [s EXCEPT !.skips = FALSE]
    [] ~s.ended /\ ~s.skips /\ InString(s) ->
         IF l[i] # Quote THEN s
         ELSE IF i < c /\ l[i + 1] = Quote THEN [s EXCEPT !.skips = TRUE]
         ELSE IF i = c /\ At(l, c + 1) = Quote /\ ~s.outside THEN s
         ELSE CloseString(s)
    [] OTHER ->
         CASE l[i] = Semicolon -> [s EXCEPT !.ended = TRUE]
           [] l[i] = Quote     -> OpenString(s, i)
           [] l[i] = "("       -> OpenParenthesis(s, l, i)
           [] l[i] = ")"       -> CloseParenthesis(s)
           [] l[i] = Separator -> Comma(s)
           [] OTHER            -> s

LEMMA TurnOf ==
  ASSUME NEW S, NEW l \in Seq(S), NEW c \in Nat, c <= Len(l), NEW i \in 1..c, NEW s
  PROVE  ScanCharacter(SubSeq(l, 1, c), At(l, c + 1), i, s) = Turn(l, c, i, s)
<1> DEFINE m == SubSeq(l, 1, c)
<1>1. m \in Seq(S) /\ Len(m) = c /\ \A k \in 1..c : m[k] = l[k]
  BY Taken
<1>2. IdentifierBefore(m, i) = IdentifierBefore(l, i)
  BY IdentifierSame
<1> HIDE DEF m
<1>3. m[i] = l[i] /\ (i = Len(m) <=> i = c)
  BY <1>1
<1>4. At(m, i + 1) = Quote <=> i < c /\ l[i + 1] = Quote
  <2>1. i \in Nat
    OBVIOUS
  <2>2. At(m, i + 1) = Quote <=> i + 1 \in 1..c /\ m[i + 1] = Quote
    BY <1>1, <2>1, AtNext
  <2>3. i + 1 \in 1..c <=> i < c
    OBVIOUS
  <2> QED BY <1>1, <2>2, <2>3
<1>5. OpenParenthesis(s, m, i) = OpenParenthesis(s, l, i)
  BY <1>2 DEF OpenParenthesis
<1>6. ScanCharacter(m, At(l, c + 1), i, s) = Turn(l, c, i, s)
  BY <1>3, <1>4, <1>5, Zenon DEF ScanCharacter, Turn
<1> QED BY <1>6 DEF m

ScanIs(l, c, i, s) ==
  /\ s \in State(l)
  /\ s.ended <=> Commented(l, i)
  /\ s.ended => ~InString(s)
  /\ ~s.ended =>
       /\ s.skips <=> i < c /\ PartsEscape(l, i)
       /\ s.outside => s.stack = <<>>
       /\ InString(s) <=> ~Even(Quotes(l, i)) \/ (PartsEscape(l, i) /\ (i < c \/ s.stack # <<>>))
       /\ s.stack # <<>> => Top(s).start = IF InString(s) THEN StringStart(l, i) ELSE 0
       /\ HasStack(l, i, s.stack)

LEMMA ScanStarts ==
  ASSUME NEW l, NEW c \in Nat
  PROVE  ScanIs(l, c, 0, ScanStart)
<1>1. CallsAt(l, 0) = {}
  <2>1. CallsAt(l, 0) \subseteq 1..0 /\ 1..0 = {}
    BY CallsType
  <2> QED BY <2>1
<1>2. StackIs(l, 0, <<>>, <<>>)
  BY <1>1 DEF StackIs
<1>3. ~Commented(l, 0) /\ Even(Quotes(l, 0)) /\ ~PartsEscape(l, 0)
  BY NoQuotes DEF Commented, PartsEscape
<1>4. /\ ScanStart \in State(l) /\ ScanStart.stack = <<>> /\ ~ScanStart.outside /\ ~ScanStart.skips
      /\ ~ScanStart.ended
  BY DEF ScanStart, State
<1>5. ~InString(ScanStart)
  BY <1>4 DEF InString
<1>6. HasStack(l, 0, ScanStart.stack)
  BY <1>2, <1>4 DEF HasStack
<1> QED BY <1>3, <1>4, <1>5, <1>6 DEF ScanIs

LEMMA StartSet ==
  ASSUME NEW l, NEW i \in Nat, NEW s \in State(l), s.stack # <<>>, HasStack(l, i, s.stack),
         NEW x \in Nat
  PROVE  LET r == WithTop(s, [Top(s) EXCEPT !.start = x]) IN
           /\ r \in State(l) /\ r.outside = s.outside /\ r.skips = s.skips /\ r.ended = s.ended
           /\ r.stack # <<>> /\ Top(r).start = x /\ HasStack(l, i, r.stack)
<1> DEFINE top == [Top(s) EXCEPT !.start = x]
<1>1. top \in Call(l) /\ top.start = x
  <2>1. top \in Call(l) /\ Top(s) \in Call(l)
    BY TopType
  <2> QED BY <2>1 DEF Call
<1>2. HasStack(l, i, WithTop(s, top).stack)
  BY StartTurn
<1> HIDE DEF top
<1>3. /\ WithTop(s, top) \in State(l) /\ Top(WithTop(s, top)) = top
      /\ WithTop(s, top).outside = s.outside /\ WithTop(s, top).skips = s.skips
      /\ WithTop(s, top).ended = s.ended /\ WithTop(s, top).stack # <<>>
  BY <1>1, WithTopIs
<1> QED BY <1>1, <1>2, <1>3 DEF top

LEMMA TurnEnded ==
  ASSUME NEW l, NEW c \in Nat, NEW i \in Nat, NEW s, ScanIs(l, c, i, s), s.ended
  PROVE  ScanIs(l, c, i + 1, Turn(l, c, i + 1, s))
<1>1. Turn(l, c, i + 1, s) = s
  BY DEF Turn
<1>2. Commented(l, i + 1)
  BY CommentedNext DEF ScanIs
<1> QED BY <1>1, <1>2 DEF ScanIs

(* The second half of a doubled quote.                                      *)
LEMMA TurnSkips ==
  ASSUME NEW l, NEW c \in Nat, NEW i \in Nat, i + 1 <= c, NEW s, ScanIs(l, c, i, s),
         ~s.ended, s.skips
  PROVE  ScanIs(l, c, i + 1, Turn(l, c, i + 1, s))
<1> DEFINE r == [s EXCEPT !.skips = FALSE]
<1>1. Turn(l, c, i + 1, s) = r
  BY DEF Turn
<1>2. s \in State(l) /\ PartsEscape(l, i) /\ i < c /\ ~Commented(l, i) /\ HasStack(l, i, s.stack)
  BY DEF ScanIs
<1>3. l[i] = Quote /\ l[i + 1] = Quote /\ Even(Quotes(l, i)) /\ i \in DOMAIN l
  BY <1>2 DEF PartsEscape
<1>4. ~Even(Quotes(l, i + 1)) /\ ~Commented(l, i + 1) /\ ~PartsEscape(l, i + 1)
  <2>1. ~Even(Quotes(l, i + 1))
    BY <1>3, Parity
  <2>2. ~Commented(l, i + 1)
    BY <1>2, <2>1, CommentedNext
  <2> QED BY <2>1, <2>2 DEF PartsEscape
<1>5. StringStart(l, i + 1) = StringStart(l, i)
  <2>1. (i + 1) - 1 = i
    OBVIOUS
  <2>2. At(l, (i + 1) - 1) = Quote
    BY <1>3, <2>1 DEF At
  <2>3. ~Opens(l, i + 1)
    BY <2>2 DEF Opens
  <2> QED BY <2>3, StartNext
<1>6. HasStack(l, i + 1, s.stack)
  <2>1. ~Code(l, i + 1)
    BY <1>4 DEF Code
  <2> QED BY <1>2, <2>1, PlainTurn
<1>7. /\ r \in State(l) /\ r.stack = s.stack /\ r.outside = s.outside /\ r.ended = s.ended
      /\ r.skips = FALSE
  BY <1>2 DEF State
<1> HIDE DEF r
<1>8. (InString(r) <=> InString(s)) /\ Top(r) = Top(s)
  BY <1>7 DEF InString, Top
<1>9. /\ InString(s)
      /\ s.outside => s.stack = <<>>
      /\ s.stack # <<>> => Top(s).start = StringStart(l, i)
  BY <1>2 DEF ScanIs
<1>10. ScanIs(l, c, i + 1, r)
  BY <1>4, <1>5, <1>6, <1>7, <1>8, <1>9 DEF ScanIs
<1> QED BY <1>1, <1>10

(* A character of a string.                                                 *)
LEMMA TurnInString ==
  ASSUME NEW S, NEW l \in Seq(S), NEW c \in Nat, c <= Len(l), NEW i \in Nat, i + 1 <= c,
         NEW s, ScanIs(l, c, i, s), ~s.ended, ~s.skips, InString(s)
  PROVE  ScanIs(l, c, i + 1, Turn(l, c, i + 1, s))
<1>1. /\ s \in State(l) /\ ~Commented(l, i) /\ HasStack(l, i, s.stack) /\ i < c
      /\ ~PartsEscape(l, i)
      /\ s.outside => s.stack = <<>>
      /\ s.stack # <<>> => Top(s).start = StringStart(l, i)
  BY DEF ScanIs
<1>2. ~Even(Quotes(l, i))
  BY <1>1 DEF ScanIs
<1>3. ~Commented(l, i + 1)
  <2>1. l[i + 1] = Semicolon => ~Even(Quotes(l, i + 1))
    BY <1>2, Parity, Characters
  <2> QED BY <1>1, <2>1, CommentedNext
<1>4. StringStart(l, i + 1) = StringStart(l, i)
  <2>1. ~Opens(l, i + 1)
    BY <1>2, Parity DEF Opens
  <2> QED BY <2>1, StartNext
<1>5. HasStack(l, i + 1, s.stack)
  <2>1. ~(l[i + 1] \in {"(", ")", Separator} /\ Code(l, i + 1))
    <3>1. CASE l[i + 1] = Quote
      BY <3>1, Characters
    <3>2. CASE l[i + 1] # Quote
      <4>1. ~Even(Quotes(l, i + 1))
        BY <1>2, <3>2, Parity
      <4> QED BY <4>1 DEF Code
    <3> QED BY <3>1, <3>2
  <2> QED BY <1>1, <2>1, PlainTurn
<1>6. PartsEscape(l, i + 1) <=>
        l[i + 1] = Quote /\ i + 1 < Len(l) /\ l[(i + 1) + 1] = Quote
  <2>1. Len(l) \in Nat /\ (i + 1 \in 1..(Len(l) - 1) <=> i + 1 < Len(l))
    OBVIOUS
  <2> QED BY <1>2, <2>1, Parity DEF PartsEscape
<1>7. CASE l[i + 1] # Quote
  <2>1. Turn(l, c, i + 1, s) = s
    BY <1>7 DEF Turn
  <2>2. ~Even(Quotes(l, i + 1)) /\ ~PartsEscape(l, i + 1)
    BY <1>2, <1>6, <1>7, Parity
  <2> QED BY <1>1, <1>3, <1>4, <1>5, <2>1, <2>2 DEF ScanIs
<1>8. CASE l[i + 1] = Quote /\ i + 1 < c /\ l[(i + 1) + 1] = Quote
  <2> DEFINE r == [s EXCEPT !.skips = TRUE]
  <2>1. Turn(l, c, i + 1, s) = r
    BY <1>8 DEF Turn
  <2>2. PartsEscape(l, i + 1)
    <3>1. i + 1 < Len(l)
      BY <1>8
    <3> QED BY <1>6, <1>8, <3>1
  <2>3. /\ r \in State(l) /\ r.stack = s.stack /\ r.outside = s.outside /\ r.ended = s.ended
        /\ r.skips = TRUE
    BY <1>1 DEF State
  <2> HIDE DEF r
  <2>4. (InString(r) <=> InString(s)) /\ Top(r) = Top(s)
    BY <2>3 DEF InString, Top
  <2>5. ScanIs(l, c, i + 1, r)
    BY <1>1, <1>3, <1>4, <1>5, <1>8, <2>2, <2>3, <2>4 DEF ScanIs
  <2> QED BY <2>1, <2>5
<1>9. CASE l[i + 1] = Quote /\ ~(i + 1 < c /\ l[(i + 1) + 1] = Quote)
  <2>1. Even(Quotes(l, i + 1))
    BY <1>2, <1>9, Parity
  <2>2. i + 1 = c => (At(l, c + 1) = Quote <=> PartsEscape(l, i + 1))
    <3> SUFFICES ASSUME i + 1 = c PROVE At(l, c + 1) = Quote <=> PartsEscape(l, i + 1)
      OBVIOUS
    <3>1. At(l, c + 1) = Quote <=> c + 1 \in 1..Len(l) /\ l[c + 1] = Quote
      BY AtNext
    <3>2. c + 1 \in 1..Len(l) <=> i + 1 < Len(l)
      OBVIOUS
    <3> QED BY <1>6, <1>9, <3>1, <3>2
  <2>3. i + 1 # c => i + 1 < c /\ ~PartsEscape(l, i + 1)
    BY <1>6, <1>9
  <2>4. CASE i + 1 = c /\ At(l, c + 1) = Quote /\ ~s.outside
    <3>1. Turn(l, c, i + 1, s) = s
      BY <1>9, <2>4 DEF Turn
    <3>2. s.stack # <<>>
      BY <2>4 DEF InString
    <3>3. PartsEscape(l, i + 1) /\ ~(i + 1 < c)
      BY <2>2, <2>4
    <3> QED BY <1>1, <1>3, <1>4, <1>5, <2>1, <3>1, <3>2, <3>3 DEF ScanIs
  <2>5. CASE ~(i + 1 = c /\ At(l, c + 1) = Quote /\ ~s.outside)
    <3> DEFINE r == CloseString(s)
    <3>1. Turn(l, c, i + 1, s) = r
      BY <1>9, <2>5 DEF Turn
    <3>2. /\ r \in State(l) /\ ~r.outside /\ r.skips = s.skips /\ r.ended = s.ended
          /\ r.stack # <<>> <=> s.stack # <<>>
          /\ r.stack # <<>> => Top(r).start = 0
          /\ HasStack(l, i + 1, r.stack)
      <4>1. CASE s.stack = <<>>
        <5>1. r = [s EXCEPT !.outside = FALSE]
          BY <4>1 DEF CloseString
        <5>2. r \in State(l) /\ r.stack = s.stack /\ ~r.outside /\ r.skips = s.skips /\ r.ended = s.ended
          BY <1>1, <5>1 DEF State
        <5> QED BY <1>5, <4>1, <5>2
      <4>2. CASE s.stack # <<>>
        <5>1. r = WithTop(s, [Top(s) EXCEPT !.start = 0])
          BY <4>2 DEF CloseString
        <5>2. 0 \in Nat /\ i + 1 \in Nat
          OBVIOUS
        <5> HIDE DEF r
        <5>3. /\ r \in State(l) /\ r.outside = s.outside /\ r.skips = s.skips /\ r.ended = s.ended
              /\ r.stack # <<>> /\ Top(r).start = 0 /\ HasStack(l, i + 1, r.stack)
          BY <1>1, <1>5, <4>2, <5>1, <5>2, StartSet
        <5> QED BY <1>1, <4>2, <5>3
      <4> QED BY <4>1, <4>2
    <3> HIDE DEF r
    <3>3. ~InString(r)
      BY <3>2 DEF InString
    <3>4. ~(PartsEscape(l, i + 1) /\ (i + 1 < c \/ r.stack # <<>>))
      <4>1. CASE i + 1 = c
        BY <1>1, <2>2, <2>5, <3>2, <4>1
      <4>2. CASE i + 1 # c
        BY <2>3, <4>2
      <4> QED BY <4>1, <4>2
    <3>5. ~(i + 1 < c /\ PartsEscape(l, i + 1))
      BY <3>4
    <3>6. ScanIs(l, c, i + 1, r)
      BY <1>3, <2>1, <3>2, <3>3, <3>4, <3>5 DEF ScanIs
    <3> QED BY <3>1, <3>6
  <2> QED BY <2>4, <2>5
<1> QED BY <1>7, <1>8, <1>9

(* One outside strings, of code or at the start of a string or a comment.   *)
LEMMA TurnOutside ==
  ASSUME NEW S, NEW l \in Seq(S), NEW c \in Nat, c <= Len(l), NEW i \in Nat, i + 1 <= c,
         NEW s, ScanIs(l, c, i, s), ~s.ended, ~s.skips, ~InString(s)
  PROVE  ScanIs(l, c, i + 1, Turn(l, c, i + 1, s))
<1>1. /\ s \in State(l) /\ ~Commented(l, i) /\ HasStack(l, i, s.stack) /\ i < c
      /\ ~PartsEscape(l, i) /\ Even(Quotes(l, i)) /\ ~s.outside
      /\ s.stack # <<>> => Top(s).start = 0
  BY DEF ScanIs, InString
<1>2. Turn(l, c, i + 1, s) =
        CASE l[i + 1] = Semicolon -> [s EXCEPT !.ended = TRUE]
          [] l[i + 1] = Quote     -> OpenString(s, i + 1)
          [] l[i + 1] = "("       -> OpenParenthesis(s, l, i + 1)
          [] l[i + 1] = ")"       -> CloseParenthesis(s)
          [] l[i + 1] = Separator -> Comma(s)
          [] OTHER                -> s
  BY DEF Turn
<1>3. CASE l[i + 1] = Semicolon
  <2>0. Turn(l, c, i + 1, s) = [s EXCEPT !.ended = TRUE]
    BY <1>2, <1>3, Characters
  <2> DEFINE r == [s EXCEPT !.ended = TRUE]
  <2>1. Turn(l, c, i + 1, s) = r
    BY <2>0
  <2>2. Commented(l, i + 1)
    <3>1. Even(Quotes(l, i + 1))
      BY <1>1, <1>3, Parity, Characters
    <3> QED BY <1>3, <3>1, CommentedNext
  <2>3. r \in State(l) /\ r.stack = s.stack /\ r.outside = s.outside /\ r.ended
    BY <1>1 DEF State
  <2> HIDE DEF r
  <2>4. ~InString(r)
    BY <2>3 DEF InString, Top
  <2>5. ScanIs(l, c, i + 1, r)
    BY <2>2, <2>3, <2>4 DEF ScanIs
  <2> QED BY <2>1, <2>5
<1>4. CASE l[i + 1] = Quote
  <2>0. Turn(l, c, i + 1, s) = OpenString(s, i + 1)
    BY <1>2, <1>4, Characters
  <2> DEFINE r == OpenString(s, i + 1)
  <2>1. Turn(l, c, i + 1, s) = r
    BY <2>0
  <2>2. ~Even(Quotes(l, i + 1)) /\ ~Commented(l, i + 1) /\ ~PartsEscape(l, i + 1)
    <3>1. ~Even(Quotes(l, i + 1))
      BY <1>1, <1>4, Parity
    <3>2. ~Commented(l, i + 1)
      BY <1>1, <3>1, CommentedNext
    <3> QED BY <3>1, <3>2 DEF PartsEscape
  <2>3. StringStart(l, i + 1) = i + 1
    <3>1. At(l, (i + 1) - 1) # Quote
      <4> SUFFICES ASSUME At(l, (i + 1) - 1) = Quote PROVE FALSE
        OBVIOUS
      <4>1. (i + 1) - 1 = i /\ i \in Int
        OBVIOUS
      <4>2. i \in 1..Len(l) /\ l[i] = Quote
        BY <4>1, AtDomain
      <4>3. i \in 1..(Len(l) - 1)
        BY <4>2
      <4> QED BY <1>1, <1>4, <4>2, <4>3 DEF PartsEscape
    <3>2. Opens(l, i + 1)
      BY <1>4, <2>2, <3>1 DEF Opens
    <3> QED BY <3>2, StartNext
  <2>4. HasStack(l, i + 1, s.stack)
    <3>1. ~Code(l, i + 1)
      BY <2>2 DEF Code
    <3> QED BY <1>1, <3>1, PlainTurn
  <2>5. /\ r \in State(l) /\ r.skips = s.skips /\ r.ended = s.ended /\ HasStack(l, i + 1, r.stack)
        /\ r.outside => r.stack = <<>>
        /\ r.outside \/ (r.stack # <<>> /\ Top(r).start > 0)
        /\ r.stack # <<>> => Top(r).start = i + 1
    <3>1. CASE s.stack = <<>>
      <4>1. r = [s EXCEPT !.outside = TRUE]
        BY <3>1 DEF OpenString
      <4>2. r \in State(l) /\ r.stack = s.stack /\ r.outside /\ r.skips = s.skips /\ r.ended = s.ended
        BY <1>1, <4>1 DEF State
      <4> QED BY <2>4, <3>1, <4>2
    <3>2. CASE s.stack # <<>>
      <4>1. r = WithTop(s, [Top(s) EXCEPT !.start = i + 1])
        BY <3>2 DEF OpenString
      <4>2. i + 1 \in Nat /\ i + 1 > 0
        OBVIOUS
      <4> HIDE DEF r
      <4>3. /\ r \in State(l) /\ r.outside = s.outside /\ r.skips = s.skips /\ r.ended = s.ended
            /\ r.stack # <<>> /\ Top(r).start = i + 1 /\ HasStack(l, i + 1, r.stack)
        BY <1>1, <2>4, <3>2, <4>1, <4>2, StartSet
      <4> QED BY <1>1, <4>2, <4>3
    <3> QED BY <3>1, <3>2
  <2> HIDE DEF r
  <2>6. InString(r)
    BY <2>5 DEF InString
  <2>7. ScanIs(l, c, i + 1, r)
    BY <2>2, <2>3, <2>5, <2>6 DEF ScanIs
  <2> QED BY <2>1, <2>7
<1>5. CASE l[i + 1] # Semicolon /\ l[i + 1] # Quote
  <2>1. Even(Quotes(l, i + 1)) /\ ~Commented(l, i + 1) /\ Code(l, i + 1) /\ ~PartsEscape(l, i + 1)
    <3>1. Even(Quotes(l, i + 1))
      BY <1>1, <1>5, Parity
    <3>2. ~Commented(l, i + 1)
      BY <1>1, <1>5, CommentedNext
    <3> QED BY <1>5, <3>1, <3>2 DEF Code, PartsEscape
  <2>2. Turned(l, i, s, Turn(l, c, i + 1, s))
    <3>1. CASE l[i + 1] = "("
      <4>1. Turn(l, c, i + 1, s) = OpenParenthesis(s, l, i + 1)
        BY <1>2, <3>1, Characters
      <4> QED BY <1>1, <2>1, <3>1, <4>1, OpenTurn
    <3>2. CASE l[i + 1] = ")"
      <4>1. Turn(l, c, i + 1, s) = CloseParenthesis(s)
        BY <1>2, <3>2, Characters
      <4> QED BY <1>1, <2>1, <3>2, <4>1, CloseTurn
    <3>3. CASE l[i + 1] = Separator
      <4>1. Turn(l, c, i + 1, s) = Comma(s)
        BY <1>2, <3>3, Characters
      <4> QED BY <1>1, <2>1, <3>3, <4>1, CommaTurn
    <3>4. CASE l[i + 1] \notin {"(", ")", Separator}
      <4>1. Turn(l, c, i + 1, s) = s
        BY <1>2, <1>5, <3>4
      <4>2. HasStack(l, i + 1, s.stack)
        BY <1>1, <3>4, PlainTurn
      <4> QED BY <1>1, <4>1, <4>2 DEF Turned
    <3> QED BY <3>1, <3>2, <3>3, <3>4
  <2> DEFINE r == Turn(l, c, i + 1, s)
  <2>3. /\ r \in State(l) /\ r.outside = s.outside /\ r.skips = s.skips /\ r.ended = s.ended
        /\ HasStack(l, i + 1, r.stack) /\ (r.stack # <<>> => Top(r).start = 0)
    BY <2>2 DEF Turned
  <2> HIDE DEF r
  <2>4. ~InString(r)
    BY <1>1, <2>3 DEF InString
  <2>5. ScanIs(l, c, i + 1, r)
    BY <1>1, <2>1, <2>3, <2>4 DEF ScanIs
  <2> QED BY <2>5 DEF r
<1> QED BY <1>3, <1>4, <1>5

ScanRest(l, next, f, i) == IF i = 0 THEN ScanStart ELSE ScanCharacter(l, next, i, f[i - 1])

IsScan(l, next, m, f) == f = [i \in 0..m |-> ScanRest(l, next, f, i)]

LEMMA ScanAt ==
  ASSUME NEW l, NEW next, NEW m, NEW f, IsScan(l, next, m, f), NEW i \in 0..m
  PROVE  f[i] = ScanRest(l, next, f, i)
<1> DEFINE R(k) == ScanRest(l, next, f, k)
<1>1. f = [k \in 0..m |-> R(k)]
  BY DEF IsScan
<1> HIDE DEF R
<1>2. f[i] = R(i)
  BY <1>1
<1> QED BY <1>2 DEF R

LEMMA ScanExists ==
  ASSUME NEW l, NEW next, NEW m \in Nat
  PROVE  \E f : IsScan(l, next, m, f)
<1> DEFINE T == {n \in Nat : \E f : IsScan(l, next, n, f)}
<1>1. 0 \in T
  <2> DEFINE g == [n \in 0..0 |-> ScanStart]
  <2>1. \A n \in 0..0 : ScanRest(l, next, g, n) = ScanStart
    BY DEF ScanRest
  <2>2. g = [n \in 0..0 |-> ScanRest(l, next, g, n)]
    BY <2>1
  <2>3. IsScan(l, next, 0, g)
    BY <2>2 DEF IsScan
  <2> QED BY <2>3
<1>2. ASSUME NEW n \in Nat, n \in T PROVE n + 1 \in T
  <2>1. PICK g : IsScan(l, next, n, g)
    BY <1>2
  <2> DEFINE h == [i \in 0..(n + 1) |-> IF i = n + 1 THEN ScanRest(l, next, g, n + 1) ELSE g[i]]
  <2>2. ASSUME NEW i \in 0..(n + 1) PROVE h[i] = ScanRest(l, next, h, i)
    <3>1. i # 0 => i - 1 \in 0..n /\ h[i - 1] = g[i - 1]
      OBVIOUS
    <3>2. ScanRest(l, next, h, i) = ScanRest(l, next, g, i)
      BY <3>1 DEF ScanRest
    <3>3. CASE i = n + 1
      BY <3>2, <3>3
    <3>4. CASE i # n + 1
      <4>1. i \in 0..n /\ h[i] = g[i]
        BY <3>4
      <4>2. g[i] = ScanRest(l, next, g, i)
        BY <2>1, <4>1, ScanAt
      <4> QED BY <3>2, <4>1, <4>2
    <3> QED BY <3>3, <3>4
  <2>3. h = [i \in 0..(n + 1) |-> ScanRest(l, next, h, i)]
    BY <2>2
  <2>4. IsScan(l, next, n + 1, h)
    BY <2>3 DEF IsScan
  <2> QED BY <2>4
<1> HIDE DEF T
<1>3. Nat \subseteq T
  BY <1>1, <1>2, SetInduction
<1> QED BY <1>3 DEF T

(* The scan up to the cursor has found what the line means there.           *)
LEMMA ScanFinds ==
  ASSUME NEW S, NEW l \in Seq(S), NEW c \in Nat, c <= Len(l)
  PROVE  ScanIs(l, c, c, Scan(SubSeq(l, 1, c), At(l, c + 1)))
<1> DEFINE m == SubSeq(l, 1, c)
           next == At(l, c + 1)
           f == CHOOSE g : IsScan(m, next, c, g)
<1>1. Len(m) = c
  BY Taken
<1>2. Scan(m, next) = f[c]
  <2> HIDE DEF m, next
  <2> QED BY <1>1 DEF Scan, IsScan, ScanRest
<1>3. IsScan(m, next, c, f)
  <2> HIDE DEF m, next
  <2>1. \E g : IsScan(m, next, c, g)
    BY ScanExists
  <2> QED BY <2>1, Zenon
<1> HIDE DEF f
<1>4. f[0] = ScanStart /\ \A i \in 1..c : f[i] = ScanCharacter(m, next, i, f[i - 1])
  <2> HIDE DEF m, next
  <2>1. \A i \in 0..c : f[i] = ScanRest(m, next, f, i)
    BY <1>3, ScanAt
  <2>2. 0 \in 0..c /\ \A i \in 1..c : i \in 0..c /\ i # 0
    OBVIOUS
  <2> QED BY <2>1, <2>2 DEF ScanRest
<1> DEFINE T == {i \in Nat : i <= c => ScanIs(l, c, i, f[i])}
<1>5. 0 \in T
  <2>1. ScanIs(l, c, 0, f[0])
    BY <1>4, ScanStarts
  <2> QED BY <2>1
<1>6. ASSUME NEW i \in Nat, i \in T PROVE i + 1 \in T
  <2> SUFFICES ASSUME i + 1 <= c PROVE ScanIs(l, c, i + 1, f[i + 1])
    OBVIOUS
  <2>1. ScanIs(l, c, i, f[i])
    BY <1>6
  <2>2. i + 1 \in 1..c /\ (i + 1) - 1 = i
    OBVIOUS
  <2>3. f[i + 1] = ScanCharacter(m, next, i + 1, f[i])
    <3>1. f[i + 1] = ScanCharacter(m, next, i + 1, f[(i + 1) - 1])
      BY <1>4, <2>2
    <3> QED BY <2>2, <3>1
  <2>4. f[i + 1] = Turn(l, c, i + 1, f[i])
    BY <2>2, <2>3, TurnOf
  <2> DEFINE s == f[i]
  <2>5. ScanIs(l, c, i, s)
    BY <2>1
  <2> HIDE DEF s
  <2>6. ScanIs(l, c, i + 1, Turn(l, c, i + 1, s))
    <3>1. CASE s.ended
      BY <2>5, <3>1, TurnEnded
    <3>2. CASE ~s.ended /\ s.skips
      BY <2>5, <3>2, TurnSkips
    <3>3. CASE ~s.ended /\ ~s.skips /\ InString(s)
      BY <2>5, <3>3, TurnInString
    <3>4. CASE ~s.ended /\ ~s.skips /\ ~InString(s)
      BY <2>5, <3>4, TurnOutside
    <3> QED BY <3>1, <3>2, <3>3, <3>4
  <2> QED BY <2>4, <2>6 DEF s
<1> HIDE DEF T
<1>7. Nat \subseteq T
  BY <1>5, <1>6, SetInduction
<1>8. ScanIs(l, c, c, f[c])
  BY <1>7 DEF T
<1> QED BY <1>2, <1>8
-----------------------------------------------------------------------------
(* A string begins where it is said to.                                     *)

LEMMA SomeOpens ==
  ASSUME NEW S, NEW l \in Seq(S), NEW i \in Nat,
         ~Even(Quotes(l, i)) \/ (i \in 1..Len(l) /\ l[i] = Quote)
  PROVE  \E j \in 1..i : Opens(l, j)
<1> DEFINE Inside(n) == ~Even(Quotes(l, n)) \/ (n \in 1..Len(l) /\ l[n] = Quote)
           T == {n \in Nat : Inside(n) => \E j \in 1..n : Opens(l, j)}
<1>1. 0 \in T
  <2>1. ~Inside(0)
    BY NoQuotes
  <2> QED BY <2>1
<1>2. ASSUME NEW n \in Nat, n \in T PROVE n + 1 \in T
  <2> SUFFICES ASSUME Inside(n + 1) PROVE \E j \in 1..(n + 1) : Opens(l, j)
    OBVIOUS
  <2>1. Inside(n) => \E j \in 1..(n + 1) : Opens(l, j)
    <3>1. \A j \in 1..n : j \in 1..(n + 1)
      OBVIOUS
    <3> QED BY <1>2, <3>1
  <2>2. CASE Even(Quotes(l, n + 1)) \/ l[n + 1] # Quote
    <3>1. ~Even(Quotes(l, n))
      BY <2>2, Parity
    <3> QED BY <2>1, <3>1
  <2>3. CASE ~Even(Quotes(l, n + 1)) /\ l[n + 1] = Quote
    <3>1. CASE At(l, n) = Quote
      <4>1. n \in 1..Len(l) /\ l[n] = Quote
        <5>1. n \in Int
          OBVIOUS
        <5> QED BY <3>1, <5>1, AtDomain
      <4> QED BY <2>1, <4>1
    <3>2. CASE At(l, n) # Quote
      <4>1. (n + 1) - 1 = n /\ n + 1 \in 1..(n + 1)
        OBVIOUS
      <4>2. Opens(l, n + 1)
        BY <2>3, <3>2, <4>1 DEF Opens
      <4> QED BY <4>1, <4>2
    <3> QED BY <3>1, <3>2
  <2> QED BY <2>2, <2>3
<1> HIDE DEF T
<1>3. Nat \subseteq T
  BY <1>1, <1>2, SetInduction
<1> QED BY <1>3 DEF T

LEMMA StartIs ==
  ASSUME NEW S, NEW l \in Seq(S), NEW c \in Nat, c <= Len(l), Within(l, c)
  PROVE  /\ StringStart(l, c) \in 1..c /\ Opens(l, StringStart(l, c))
         /\ \A j \in (StringStart(l, c) + 1)..c : ~Opens(l, j)
<1> DEFINE T == {j \in 1..c : Opens(l, j)}
<1>1. ~Even(Quotes(l, c)) \/ (c \in 1..Len(l) /\ l[c] = Quote)
  BY DEF Within, PartsEscape
<1>2. T \in SUBSET (0..c) /\ T # {} /\ T \in SUBSET (1..c)
  BY <1>1, SomeOpens
<1>3. StringStart(l, c) = Max(T)
  BY DEF StringStart
<1>4. Max(T) \in T /\ \A j \in T : Max(T) >= j
  <2> HIDE DEF T
  <2> QED BY <1>2, MaximumOf
<1>5. Max(T) \in 1..c
  BY <1>2, <1>4
<1>6. \A j \in (Max(T) + 1)..c : j \in 1..c /\ ~(Max(T) >= j)
  BY <1>5
<1> QED BY <1>3, <1>4, <1>5, <1>6

LEMMA MinimumOf ==
  ASSUME NEW S \in SUBSET Nat, S # {}
  PROVE  Min(S) \in S /\ \A y \in S : Min(S) <= y
<1> DEFINE less == OpToRel(<, Nat)
<1>1. \A y, z \in Nat : y < z => <<y, z>> \in less
  BY DEF OpToRel
<1>2. IsWellFoundedOn(less, Nat)
  BY NatLessThanWellFounded
<1> HIDE DEF less
<1>3. PICK z \in S : \A y \in S : <<y, z>> \notin less
  BY <1>2, WFMin
<1>4. \A y \in S : z <= y
  <2> SUFFICES ASSUME NEW y \in S PROVE z <= y
    OBVIOUS
  <2>1. y \in Nat /\ z \in Nat /\ ~(y < z)
    BY <1>1, <1>3
  <2> QED BY <2>1
<1> QED BY <1>3, <1>4 DEF Min
-----------------------------------------------------------------------------
(* What classifyCompletionLine makes of it.                                 *)

InCall(l, c) == Within(l, c) /\ CallsAt(l, c) # {}

(* The text before the cursor is replaced from the start of the string, to  *)
(* the quote that ends it.                                                  *)
QuotedEnd(l, c) ==
  ReplacementEnd(l, IF c > StringStart(l, c) /\ l[c] = Quote /\ At(l, c + 1) = Quote THEN c + 1 ELSE c)

LEMMA Classified ==
  ASSUME NEW S, NEW l \in Seq(S), NEW c \in Nat, c <= Len(l)
  PROVE  /\ InCall(l, c) =>
              LET p == Max(CallsAt(l, c)) IN
                Classify(l, c) =
                  [kind |-> Argument(IdentifierBefore(l, p).name, Commas(l, p, c)), quoted |-> TRUE,
                   prefix |-> Decode(SubSeq(l, StringStart(l, c) + 1, c)),
                   from |-> StringStart(l, c), to |-> QuotedEnd(l, c)]
         /\ ~InCall(l, c) => Classify(l, c) = Unquoted(l, c)
<1> DEFINE s == Scan(SubSeq(l, 1, c), At(l, c + 1))
           InArgument == s.stack # <<>> /\ Top(s).start > 0
<1>1. ScanIs(l, c, c, s)
  BY ScanFinds
<1>2. Classify(l, c) = IF InArgument THEN Quoted(l, c, Top(s)) ELSE Unquoted(l, c)
  BY DEF Classify
<1> HIDE DEF s
<1>3. ASSUME s.ended PROVE ~InArgument /\ ~InCall(l, c)
  BY <1>1, <1>3 DEF ScanIs, InString, InCall, Within
<1>4. ASSUME ~s.ended
      PROVE  /\ ~Commented(l, c) /\ HasStack(l, c, s.stack)
             /\ s.outside => s.stack = <<>>
             /\ InString(s) <=> ~Even(Quotes(l, c)) \/ (PartsEscape(l, c) /\ s.stack # <<>>)
             /\ s.stack # <<>> => Top(s).start = IF InString(s) THEN StringStart(l, c) ELSE 0
  BY <1>1, <1>4 DEF ScanIs
<1>5. ASSUME ~s.ended PROVE InArgument <=> InCall(l, c)
  <2>1. PICK pos : StackIs(l, c, s.stack, pos)
    BY <1>4, <1>5 DEF HasStack
  <2>2. s.stack = <<>> <=> CallsAt(l, c) = {}
    BY <2>1, StackMeans
  <2>3. s.stack # <<>> => (InArgument <=> InString(s))
    BY <1>4, <1>5 DEF InString
  <2>4. s.stack # <<>> => (InString(s) <=> Within(l, c))
    BY <1>4, <1>5 DEF Within
  <2> QED BY <2>2, <2>3, <2>4 DEF InCall
<1>6. ASSUME InCall(l, c)
      PROVE  LET p == Max(CallsAt(l, c)) IN
               Classify(l, c) =
                 [kind |-> Argument(IdentifierBefore(l, p).name, Commas(l, p, c)), quoted |-> TRUE,
                  prefix |-> Decode(SubSeq(l, StringStart(l, c) + 1, c)),
                  from |-> StringStart(l, c), to |-> QuotedEnd(l, c)]
  <2>1. ~s.ended /\ InArgument
    BY <1>3, <1>5, <1>6
  <2>2. PICK pos : StackIs(l, c, s.stack, pos)
    BY <1>4, <2>1 DEF HasStack
  <2> DEFINE n == Len(s.stack)
             p == Max(CallsAt(l, c))
  <2>3. n \in 1..Len(pos) /\ Top(s) = s.stack[n] /\ p = pos[n]
    <3>1. s.stack # <<>>
      BY <2>1
    <3> DEFINE stack == s.stack
    <3>2. StackIs(l, c, stack, pos) /\ stack # <<>> /\ c \in Nat
      BY <2>2, <3>1
    <3> HIDE DEF stack
    <3>3. /\ Len(stack) \in 1..Len(pos) /\ Last(stack) = stack[Len(stack)]
          /\ Max(CallsAt(l, c)) = pos[Len(stack)]
      <4> HIDE DEF n, p
      <4> QED BY <3>2, StackMeans
    <3> USE DEF stack
    <3> QED BY <3>3 DEF Top
  <2>4. Top(s).name = IdentifierBefore(l, p).name /\ Top(s).slot = Commas(l, p, c)
    BY <2>2, <2>3 DEF StackIs
  <2>5. Top(s).start = StringStart(l, c)
    BY <1>4, <2>1 DEF InString
  <2>6. Classify(l, c) = Quoted(l, c, Top(s))
    BY <1>2, <2>1
  <2> HIDE DEF p, InArgument
  <2>7. Classify(l, c) =
          [kind |-> Argument(IdentifierBefore(l, p).name, Commas(l, p, c)), quoted |-> TRUE,
           prefix |-> Decode(SubSeq(l, StringStart(l, c) + 1, c)),
           from |-> StringStart(l, c), to |-> QuotedEnd(l, c)]
    BY <2>4, <2>5, <2>6, Zenon DEF Quoted, QuotedEnd
  <2> QED BY <2>7 DEF p
<1> QED BY <1>2, <1>3, <1>5, <1>6

LEMMA QuotedEndType ==
  ASSUME NEW S, NEW l \in Seq(S), NEW c \in Nat, c <= Len(l)
  PROVE  QuotedEnd(l, c) \in c..Len(l)
<1>1. c \in 0..Len(l)
  OBVIOUS
<1>2. At(l, c + 1) = Quote => c + 1 \in 0..Len(l)
  <2>1. At(l, c + 1) = Quote => c + 1 \in 1..Len(l)
    BY AtNext
  <2> QED BY <2>1
<1>3. PICK x \in {c, c + 1} : x \in 0..Len(l) /\ QuotedEnd(l, c) = ReplacementEnd(l, x)
  BY <1>1, <1>2 DEF QuotedEnd
<1>4. ReplacementEnd(l, x) \in x..Len(l)
  BY <1>3, EndType
<1>5. x \in Nat /\ x >= c
  BY <1>3
<1> QED BY <1>3, <1>4, <1>5

LEMMA UnquotedIs ==
  ASSUME NEW S, NEW l \in Seq(S), NEW c \in Nat, c <= Len(l)
  PROVE  /\ ~Unquoted(l, c).quoted /\ Unquoted(l, c).kind \in {"statement", "expression"}
         /\ Unquoted(l, c).from = Back(l, c, Letter) /\ Unquoted(l, c).from \in 0..c
         /\ Unquoted(l, c).to \in c..Len(l) /\ At(l, Unquoted(l, c).to + 1) \notin Letter
<1> DEFINE before == SubSeq(l, 1, c)
           prefix == IdentifierPrefix(before)
           ends == {j \in c..Len(l) : At(l, j + 1) \notin Letter}
           b == Back(l, c, Letter)
<1>1. before \in Seq(S) /\ Len(before) = c /\ \A k \in 1..c : before[k] = l[k]
  BY Taken
<1>2. Back(before, c, Letter) = b /\ b \in 0..c
  <2> HIDE DEF before
  <2>1. Back(before, c, Letter) = Back(l, c, Letter)
    BY <1>1, BackSame
  <2>2. Back(l, c, Letter) \in 0..c
    BY BackIs
  <2> QED BY <2>1, <2>2
<1>3. Len(prefix) = c - b
  <2> HIDE DEF before, b
  <2>1. prefix = SubSeq(before, b + 1, c)
    BY <1>1, <1>2 DEF IdentifierPrefix
  <2>2. b + 1 \in Int /\ c \in Int /\ \A k \in (b + 1)..c : before[k] \in S
    BY <1>1, <1>2
  <2>3. Len(SubSeq(before, b + 1, c)) = IF b + 1 <= c THEN (c - (b + 1)) + 1 ELSE 0
    BY <2>2, SubSeqProperties
  <2> HIDE DEF prefix
  <2> QED BY <1>2, <2>1, <2>3
<1>4. Min(ends) \in ends
  <2>1. "" \notin Letter
    BY CharacterAssumption DEF CharacterAssumption
  <2>2. At(l, Len(l) + 1) = ""
    <3>1. Len(l) + 1 \in Int /\ Len(l) + 1 \notin 1..Len(l)
      OBVIOUS
    <3> QED BY <3>1, AtDomain
  <2>3. At(l, Len(l) + 1) \notin Letter
    BY <2>1, <2>2, Zenon
  <2>4. Len(l) \in c..Len(l)
    OBVIOUS
  <2>5. Len(l) \in ends
    BY <2>3, <2>4, Zenon
  <2>6. ends \in SUBSET Nat
    <3>1. c..Len(l) \in SUBSET Nat
      OBVIOUS
    <3> QED BY <3>1, Zenon
  <2> HIDE DEF ends
  <2> QED BY <2>5, <2>6, MinimumOf
<1> DEFINE first == \A i \in 1..(c - Len(prefix)) : l[i] = Blank
<1>5. Unquoted(l, c) =
        [kind |-> IF first THEN "statement" ELSE "expression", quoted |-> FALSE,
         prefix |-> prefix, from |-> c - Len(prefix), to |-> Min(ends)]
  BY DEF Unquoted
<1>6. c - Len(prefix) = b
  <2> HIDE DEF prefix, b
  <2> QED BY <1>2, <1>3
<1> HIDE DEF first, prefix, before
<1> QED BY <1>2, <1>4, <1>5, <1>6
-----------------------------------------------------------------------------
(* The line that is being typed.                                            *)

LineInv ==
  /\ line \in Seq(Character)
  /\ cursor \in 0..Len(line)
  /\ typed \in 0..MaxTyped

LEMMA InitLine == CompletionInit => LineInv
<1> SUFFICES ASSUME Init PROVE LineInv
  BY DEF CompletionInit
<1>1. line \in Seq(Character) /\ MaxTyped \in Nat
  BY CharacterAssumption DEF Init, CharacterAssumption
<1>2. cursor = Len(line) /\ typed = 0
  BY DEF Init
<1> QED BY <1>1, <1>2 DEF LineInv

LEMMA NextLine == LineInv /\ [EditLine \/ WriteLines]_completionVars => LineInv'
<1> SUFFICES ASSUME LineInv, [EditLine \/ WriteLines]_completionVars PROVE LineInv'
  OBVIOUS
<1>1. line \in Seq(Character) /\ cursor \in 0..Len(line) /\ typed \in 0..MaxTyped /\ MaxTyped \in Nat
  BY CharacterAssumption DEF LineInv, CharacterAssumption
<1>2. ASSUME NEW char \in Typed, Type(char) PROVE LineInv'
  <2>1. char \in Character
    BY DEF Character
  <2>2. line' \in Seq(Character) /\ Len(line') = Len(line) + 1
    BY <1>1, <1>2, <2>1 DEF Type
  <2>3. cursor' \in 0..Len(line') /\ typed' \in 0..MaxTyped
    BY <1>1, <1>2, <2>2 DEF Type
  <2> QED BY <2>2, <2>3 DEF LineInv
<1>3. CASE MoveBack
  BY <1>1, <1>3 DEF MoveBack, LineInv
<1>4. CASE UNCHANGED vars
  BY <1>1, <1>4 DEF vars, LineInv
<1>5. (\E char \in Typed : Type(char)) \/ MoveBack \/ UNCHANGED vars
  BY DEF EditLine, WriteLines, completionVars, Next
<1> QED BY <1>2, <1>3, <1>4, <1>5

(* In every text that is being typed, the line is one of characters and     *)
(* the cursor is in it.                                                     *)
THEOREM LineIsTyped == CompletionSpec => []LineInv
<1>1. CompletionInit => LineInv
  BY InitLine
<1>2. LineInv /\ [EditLine \/ WriteLines]_completionVars => LineInv'
  BY NextLine
<1> QED BY <1>1, <1>2, PTL DEF CompletionSpec

LEMMA ArgumentKind ==
  ASSUME NEW name, NEW slot
  PROVE  Argument(name, slot) \in {"statement", "expression", "target", "filename"}
BY DEF Argument

LEMMA LineClassified == LineInv => ScannersAgree
<1> SUFFICES ASSUME LineInv PROVE ScannersAgree
  OBVIOUS
<1>1. line \in Seq(Character) /\ cursor \in 0..Len(line) /\ typed \in 0..MaxTyped
  BY DEF LineInv
<1>2. cursor \in Nat /\ cursor <= Len(line)
  BY <1>1
<1> DEFINE made == Classify(line, cursor)
           p == Max(CallsAt(line, cursor))
<1>3. CASE InCall(line, cursor)
  <2>1. made =
          [kind |-> Argument(IdentifierBefore(line, p).name, Commas(line, p, cursor)), quoted |-> TRUE,
           prefix |-> Decode(SubSeq(line, StringStart(line, cursor) + 1, cursor)),
           from |-> StringStart(line, cursor), to |-> QuotedEnd(line, cursor)]
    BY <1>1, <1>2, <1>3, Classified
  <2> HIDE DEF p
  <2>2. /\ made.kind = Argument(IdentifierBefore(line, p).name, Commas(line, p, cursor))
        /\ made.quoted /\ made.from = StringStart(line, cursor) /\ made.to = QuotedEnd(line, cursor)
    <3> HIDE DEF made
    <3> QED BY <2>1
  <2> HIDE DEF made
  <2>3. made.kind \in {"statement", "expression", "target", "filename"}
    BY <2>2, ArgumentKind
  <2>4. made.from \in 0..cursor
    <3>1. StringStart(line, cursor) \in 1..cursor
      BY <1>1, <1>2, <1>3, StartIs DEF InCall
    <3> QED BY <1>2, <2>2, <3>1
  <2>5. made.to \in cursor..Len(line)
    BY <1>1, <1>2, <2>2, QuotedEndType
  <2>6. TypeOK
    BY <1>1, <2>3, <2>4, <2>5 DEF TypeOK, made
  <2>7. ArgumentsAreFound
    <3>1. Within(line, cursor) /\ CallsAt(line, cursor) # {}
      BY <1>3 DEF InCall
    <3> QED BY <2>2, <3>1 DEF ArgumentsAreFound, made, p
  <2>8. CommentsAreStripped
    BY <1>1, CommentsStripped DEF CommentsAreStripped
  <2> QED BY <2>6, <2>7, <2>8 DEF ScannersAgree
<1>4. CASE ~InCall(line, cursor)
  <2>1. made = Unquoted(line, cursor)
    BY <1>1, <1>2, <1>4, Classified
  <2> HIDE DEF made
  <2>2. /\ ~made.quoted /\ made.kind \in {"statement", "expression"}
        /\ made.from \in 0..cursor /\ made.to \in cursor..Len(line)
    BY <1>1, <1>2, <2>1, UnquotedIs
  <2>6. TypeOK
    BY <1>1, <2>2 DEF TypeOK, made
  <2>7. ArgumentsAreFound
    BY <1>4, <2>2 DEF ArgumentsAreFound, made, InCall
  <2>8. CommentsAreStripped
    BY <1>1, CommentsStripped DEF CommentsAreStripped
  <2> QED BY <2>6, <2>7, <2>8 DEF ScannersAgree
<1> QED BY <1>3, <1>4

(* In every line that is being typed and with the cursor at any place of    *)
(* it, the scanner finds the string, the call and the argument the cursor   *)
(* is in as the meaning of the line gives them, and the other scanner the   *)
(* comment (analyzer.go, activeCallArgument, stripLineComment).             *)
THEOREM LinesAreUnderstood == CompletionSpec => []ScannersAgree
<1>1. LineInv => ScannersAgree
  BY LineClassified
<1> QED BY <1>1, LineIsTyped, PTL
-----------------------------------------------------------------------------
(* What an edit makes of a line.                                            *)

LEMMA Piece ==
  ASSUME NEW S, NEW l, NEW a \in Nat, NEW b \in Nat, a <= b, \A k \in (a + 1)..b : l[k] \in S
  PROVE  /\ SubSeq(l, a + 1, b) \in Seq(S) /\ Len(SubSeq(l, a + 1, b)) = b - a
         /\ \A k \in 1..(b - a) : SubSeq(l, a + 1, b)[k] = l[a + k]
<1>1. a + 1 \in Int /\ b \in Int
  OBVIOUS
<1>2. /\ SubSeq(l, a + 1, b) \in Seq(S)
      /\ Len(SubSeq(l, a + 1, b)) = IF a + 1 <= b THEN (b - (a + 1)) + 1 ELSE 0
      /\ \A k \in 1..((b - (a + 1)) + 1) : SubSeq(l, a + 1, b)[k] = l[((a + 1) + k) - 1]
  BY <1>1, SubSeqProperties
<1>3. (b - (a + 1)) + 1 = b - a
  OBVIOUS
<1>4. ~(a + 1 <= b) => b - a = 0
  OBVIOUS
<1>5. \A k \in 1..(b - a) : ((a + 1) + k) - 1 = a + k
  OBVIOUS
<1>6. Len(SubSeq(l, a + 1, b)) = b - a
  BY <1>2, <1>3, <1>4
<1>7. ASSUME NEW k \in 1..(b - a) PROVE SubSeq(l, a + 1, b)[k] = l[a + k]
  <2>1. k \in 1..((b - (a + 1)) + 1)
    BY <1>3
  <2> QED BY <1>2, <1>5, <2>1
<1> QED BY <1>2, <1>6, <1>7

LEMMA PieceOf ==
  ASSUME NEW S, NEW l \in Seq(S), NEW a \in Nat, NEW b \in Nat, a <= b, b <= Len(l),
         NEW m \in Seq(S), Len(m) = b - a, \A k \in 1..Len(m) : m[k] = l[a + k]
  PROVE  SubSeq(l, a + 1, b) = m
<1>1. \A k \in (a + 1)..b : l[k] \in S
  OBVIOUS
<1> DEFINE t == SubSeq(l, a + 1, b)
<1>2. t \in Seq(S) /\ Len(t) = b - a /\ \A k \in 1..(b - a) : t[k] = l[a + k]
  BY <1>1, Piece
<1> HIDE DEF t
<1>3. Len(t) = Len(m) /\ \A k \in 1..Len(t) : t[k] = m[k]
  BY <1>2
<1>4. t = m
  BY <1>2, <1>3, SeqEqual
<1> QED BY <1>4 DEF t

Splice(l, from, to, w) == SubSeq(l, 1, from) \o w \o SubSeq(l, to + 1, Len(l))

IsSplice(l, from, to, w, e) ==
  /\ Len(e) = (from + Len(w)) + (Len(l) - to)
  /\ \A k \in 1..from : e[k] = l[k]
  /\ \A k \in 1..Len(w) : e[from + k] = w[k]
  /\ \A k \in 1..(Len(l) - to) : e[(from + Len(w)) + k] = l[to + k]

LEMMA SpliceIs ==
  ASSUME NEW S, NEW l \in Seq(S), NEW w \in Seq(S), NEW from \in Nat, NEW to \in Nat,
         from <= to, to <= Len(l)
  PROVE  Splice(l, from, to, w) \in Seq(S) /\ IsSplice(l, from, to, w, Splice(l, from, to, w))
<1> DEFINE x == SubSeq(l, 1, from)
           z == SubSeq(l, to + 1, Len(l))
           m == Len(w)
           n == Len(l) - to
           y == x \o w
           e == y \o z
<1>1. Len(l) \in Nat /\ m \in Nat /\ n \in Nat /\ from <= Len(l)
  OBVIOUS
<1>2. x \in Seq(S) /\ Len(x) = from /\ \A k \in 1..from : x[k] = l[k]
  BY <1>1, Taken
<1>3. z \in Seq(S) /\ Len(z) = n /\ \A k \in 1..n : z[k] = l[to + k]
  <2>1. \A k \in (to + 1)..Len(l) : l[k] \in S
    OBVIOUS
  <2> QED BY <1>1, <2>1, Piece
<1>4. Splice(l, from, to, w) = e
  BY DEF Splice
<1>5. m = Len(w)
  OBVIOUS
<1> HIDE DEF x, z, m, n
<1>6. /\ y \in Seq(S) /\ Len(y) = from + m
      /\ \A k \in 1..(from + m) : y[k] = IF k <= from THEN x[k] ELSE w[k - from]
  BY <1>2, <1>5, ConcatProperties
<1>7. \A k \in 1..from : y[k] = l[k]
  BY <1>1, <1>2, <1>6
<1>8. \A k \in 1..m : y[from + k] = w[k]
  <2> SUFFICES ASSUME NEW k \in 1..m PROVE y[from + k] = w[k]
    OBVIOUS
  <2>1. from + k \in 1..(from + m) /\ ~(from + k <= from) /\ (from + k) - from = k
    BY <1>1
  <2> HIDE DEF y
  <2> QED BY <1>6, <2>1
<1> HIDE DEF y
<1>9. /\ e \in Seq(S) /\ Len(e) = (from + m) + n
      /\ \A k \in 1..((from + m) + n) : e[k] = IF k <= from + m THEN y[k] ELSE z[k - (from + m)]
  <2>1. /\ e \in Seq(S) /\ Len(e) = Len(y) + Len(z)
        /\ \A k \in 1..(Len(y) + Len(z)) : e[k] = IF k <= Len(y) THEN y[k] ELSE z[k - Len(y)]
    BY <1>3, <1>6, ConcatProperties
  <2> HIDE DEF e
  <2> QED BY <1>3, <1>6, <2>1
<1> HIDE DEF e
<1>10. \A k \in 1..from : e[k] = l[k]
  BY <1>1, <1>7, <1>9
<1>11. \A k \in 1..m : e[from + k] = w[k]
  <2> SUFFICES ASSUME NEW k \in 1..m PROVE e[from + k] = w[k]
    OBVIOUS
  <2>1. from + k \in 1..((from + m) + n) /\ from + k <= from + m
    BY <1>1
  <2> QED BY <1>8, <1>9, <2>1
<1>12. \A k \in 1..n : e[(from + m) + k] = l[to + k]
  <2> SUFFICES ASSUME NEW k \in 1..n PROVE e[(from + m) + k] = l[to + k]
    OBVIOUS
  <2>1. /\ (from + m) + k \in 1..((from + m) + n) /\ ~((from + m) + k <= from + m)
        /\ ((from + m) + k) - (from + m) = k
    BY <1>1
  <2>2. e[(from + m) + k] = z[k]
    BY <1>9, <2>1
  <2> QED BY <1>3, <2>2
<1>13. n = Len(l) - to
  BY DEF n
<1>14. IsSplice(l, from, to, w, e)
  BY <1>5, <1>9, <1>10, <1>11, <1>12, <1>13 DEF IsSplice
<1> QED BY <1>4, <1>9, <1>14

HasPieces(l, from, to, w, e) ==
  /\ SubSeq(e, 1, from) = SubSeq(l, 1, from)
  /\ SubSeq(e, from + 1, from + Len(w)) = w
  /\ SubSeq(e, (from + Len(w)) + 1, Len(e)) = SubSeq(l, to + 1, Len(l))

LEMMA SplicePieces ==
  ASSUME NEW S, NEW l \in Seq(S), NEW w \in Seq(S), NEW from \in Nat, NEW to \in Nat,
         from <= to, to <= Len(l)
  PROVE  HasPieces(l, from, to, w, Splice(l, from, to, w))
<1> DEFINE e == Splice(l, from, to, w)
           m == Len(w)
           n == Len(l) - to
<1>1. Len(l) \in Nat /\ m \in Nat /\ n \in Nat /\ from <= Len(l) /\ m = Len(w) /\ n = Len(l) - to
  OBVIOUS
<1>2. /\ e \in Seq(S) /\ Len(e) = (from + m) + n
      /\ \A k \in 1..from : e[k] = l[k]
      /\ \A k \in 1..m : e[from + k] = w[k]
      /\ \A k \in 1..n : e[(from + m) + k] = l[to + k]
  <2> HIDE DEF e, m, n
  <2>1. /\ e \in Seq(S) /\ Len(e) = (from + Len(w)) + (Len(l) - to)
        /\ \A k \in 1..from : e[k] = l[k]
        /\ \A k \in 1..Len(w) : e[from + k] = w[k]
        /\ \A k \in 1..(Len(l) - to) : e[(from + Len(w)) + k] = l[to + k]
    <3>1. e \in Seq(S) /\ IsSplice(l, from, to, w, e)
      BY SpliceIs DEF e
    <3> QED BY <3>1 DEF IsSplice
  <2> QED BY <1>1, <2>1
<1> HIDE DEF e, m, n
<1>3. SubSeq(e, 1, from) = SubSeq(l, 1, from)
  <2> DEFINE t == SubSeq(l, 1, from)
  <2>1. t \in Seq(S) /\ Len(t) = from /\ \A k \in 1..from : t[k] = l[k]
    BY <1>1, Taken
  <2> HIDE DEF t
  <2>2. Len(t) = from - 0 /\ \A k \in 1..Len(t) : t[k] = e[0 + k]
    BY <1>2, <2>1
  <2>3. 0 \in Nat /\ 0 <= from /\ from <= Len(e)
    BY <1>1, <1>2
  <2>4. SubSeq(e, 0 + 1, from) = t
    BY <1>2, <2>1, <2>2, <2>3, PieceOf
  <2>5. 0 + 1 = 1
    OBVIOUS
  <2>6. SubSeq(e, 1, from) = t
    BY <2>4, <2>5, Zenon
  <2> QED BY <2>6 DEF t
<1>4. SubSeq(e, from + 1, from + m) = w
  <2>1. Len(w) = (from + m) - from /\ \A k \in 1..Len(w) : w[k] = e[from + k]
    BY <1>1, <1>2
  <2>2. from + m \in Nat /\ from <= from + m /\ from + m <= Len(e)
    BY <1>1, <1>2
  <2> QED BY <1>2, <2>1, <2>2, PieceOf
<1>5. SubSeq(e, (from + m) + 1, Len(e)) = SubSeq(l, to + 1, Len(l))
  <2> DEFINE t == SubSeq(l, to + 1, Len(l))
  <2>1. t \in Seq(S) /\ Len(t) = n /\ \A k \in 1..n : t[k] = l[to + k]
    <3>1. \A k \in (to + 1)..Len(l) : l[k] \in S
      OBVIOUS
    <3> QED BY <1>1, <3>1, Piece
  <2> HIDE DEF t
  <2> DEFINE a == from + m
  <2>2. a \in Nat /\ a <= Len(e) /\ Len(e) \in Nat /\ Len(t) = Len(e) - a
    BY <1>1, <1>2, <2>1
  <2>3. \A k \in 1..Len(t) : t[k] = e[a + k]
    BY <1>2, <2>1
  <2> HIDE DEF a
  <2>4. SubSeq(e, a + 1, Len(e)) = t
    BY <1>2, <2>1, <2>2, <2>3, PieceOf
  <2> QED BY <2>4 DEF a, t
<1>6. HasPieces(l, from, to, w, e)
  BY <1>3, <1>4, <1>5 DEF HasPieces, m
<1> QED BY <1>6 DEF e

LEMMA SeqWider ==
  ASSUME NEW A, NEW B, A \subseteq B, NEW s \in Seq(A)
  PROVE  s \in Seq(B)
OBVIOUS

LEMMA BackUnique ==
  ASSUME NEW l, NEW i \in Nat, NEW S, NEW b \in 0..i, b = 0 \/ l[b] \notin S,
         \A k \in (b + 1)..i : l[k] \in S
  PROVE  Back(l, i, S) = b
<1> DEFINE ends == {j \in 0..i : j = 0 \/ l[j] \notin S}
<1>1. ends \in SUBSET (0..i) /\ b \in ends
  OBVIOUS
<1>2. \A y \in ends : b >= y
  <2> SUFFICES ASSUME NEW y \in ends, ~(b >= y) PROVE FALSE
    OBVIOUS
  <2>1. y \in (b + 1)..i /\ y # 0
    OBVIOUS
  <2> QED BY <2>1
<1> HIDE DEF ends
<1>3. Max(ends) = b
  BY <1>1, <1>2, MaximumIs
<1> QED BY <1>3 DEF Back, ends

LEMMA IdentifierReplaced ==
  ASSUME NEW S, NEW l \in Seq(S), NEW from \in Nat, NEW to \in Nat, from <= to, to <= Len(l),
         from = 0 \/ l[from] \notin Letter, At(l, to + 1) \notin Letter,
         NEW label \in Seq(S), label \in Seq(Letter)
  PROVE  LET edited == Splice(l, from, to, label)
             end == from + Len(label)
         IN /\ IdentifierPrefix(SubSeq(edited, 1, end)) = label
            /\ At(edited, end + 1) \notin Letter
<1> DEFINE edited == Splice(l, from, to, label)
           end == from + Len(label)
           m == SubSeq(edited, 1, end)
<1>1. edited \in Seq(S) /\ IsSplice(l, from, to, label, edited)
  BY SpliceIs
<1>2. Len(l) \in Nat /\ Len(label) \in Nat /\ end \in Nat /\ from <= end /\ end = from + Len(label)
  OBVIOUS
<1> HIDE DEF edited, end
<1>3. /\ Len(edited) = end + (Len(l) - to)
      /\ \A k \in 1..from : edited[k] = l[k]
      /\ \A k \in 1..Len(label) : edited[from + k] = label[k]
      /\ \A k \in 1..(Len(l) - to) : edited[end + k] = l[to + k]
  BY <1>1, <1>2 DEF IsSplice
<1>4. end <= Len(edited)
  BY <1>2, <1>3
<1>5. m \in Seq(S) /\ Len(m) = end /\ \A k \in 1..end : m[k] = edited[k]
  BY <1>1, <1>2, <1>4, Taken
<1> HIDE DEF m
<1>6. Back(m, end, Letter) = from
  <2>1. from \in 0..end
    BY <1>2
  <2>2. from = 0 \/ m[from] \notin Letter
    <3>1. CASE from = 0
      BY <3>1
    <3>2. CASE from # 0
      <4>1. from \in 1..from /\ from \in 1..end
        BY <1>2, <3>2
      <4>2. m[from] = l[from]
        BY <1>3, <1>5, <4>1
      <4> QED BY <3>2, <4>2
    <3> QED BY <3>1, <3>2
  <2>3. ASSUME NEW k \in (from + 1)..end PROVE m[k] \in Letter
    <3>1. k - from \in 1..Len(label) /\ from + (k - from) = k /\ k \in 1..end
      BY <1>2
    <3>2. m[k] = label[k - from]
      BY <1>3, <1>5, <3>1
    <3>3. label[k - from] \in Letter
      BY <3>1
    <3> QED BY <3>2, <3>3
  <2> QED BY <1>2, <2>1, <2>2, <2>3, BackUnique
<1>7. SubSeq(m, from + 1, end) = label
  <2>1. Len(label) = end - from
    BY <1>2
  <2>2. ASSUME NEW k \in 1..Len(label) PROVE label[k] = m[from + k]
    <3>1. from + k \in 1..end
      BY <1>2
    <3> QED BY <1>3, <1>5, <3>1
  <2>3. end <= Len(m) /\ m \in Seq(S)
    BY <1>2, <1>5
  <2>4. end \in Nat /\ from <= end
    BY <1>2
  <2> QED BY <2>1, <2>2, <2>3, <2>4, PieceOf
<1>8. IdentifierPrefix(m) = label
  BY <1>5, <1>6, <1>7 DEF IdentifierPrefix
<1>9. At(edited, end + 1) \notin Letter
  <2>1. end + 1 \in Int /\ to + 1 \in Int
    BY <1>2
  <2>2. CASE to = Len(l)
    <3>1. end + 1 \notin 1..Len(edited)
      BY <1>2, <1>3, <2>2
    <3>2. At(edited, end + 1) = ""
      BY <1>1, <2>1, <3>1, AtDomain
    <3>3. "" \notin Letter
      BY CharacterAssumption DEF CharacterAssumption
    <3> QED BY <3>2, <3>3, Zenon
  <2>3. CASE to # Len(l)
    <3>1. end + 1 \in 1..Len(edited) /\ to + 1 \in 1..Len(l) /\ 1 \in 1..(Len(l) - to)
      BY <1>2, <1>3, <2>3
    <3>2. At(edited, end + 1) = edited[end + 1]
      BY <1>1, <2>1, <3>1, AtDomain
    <3>3. At(l, to + 1) = l[to + 1]
      BY <2>1, <3>1, AtDomain
    <3>4. edited[end + 1] = l[to + 1]
      BY <1>3, <3>1
    <3> QED BY <3>2, <3>3, <3>4
  <2> QED BY <2>2, <2>3
<1> QED BY <1>8, <1>9 DEF m, edited, end

LEMMA LineIdentifier == LineInv => EditSetsTheIdentifier
<1> DEFINE made == Classify(line, cursor)
<1> SUFFICES ASSUME LineInv, ~made.quoted, NEW label \in Labels(made), label \in Seq(Letter)
             PROVE  LET edited == Edit(line, made, label)
                        end == made.from + Len(label)
                    IN /\ IdentifierPrefix(SubSeq(edited, 1, end)) = label
                       /\ At(edited, end + 1) \notin Letter
  BY DEF EditSetsTheIdentifier
<1>1. line \in Seq(Character) /\ cursor \in Nat /\ cursor <= Len(line)
  BY DEF LineInv
<1>2. made = Unquoted(line, cursor)
  <2>1. CASE InCall(line, cursor)
    <3> DEFINE p == Max(CallsAt(line, cursor))
    <3>1. made =
            [kind |-> Argument(IdentifierBefore(line, p).name, Commas(line, p, cursor)), quoted |-> TRUE,
             prefix |-> Decode(SubSeq(line, StringStart(line, cursor) + 1, cursor)),
             from |-> StringStart(line, cursor), to |-> QuotedEnd(line, cursor)]
      BY <1>1, <2>1, Classified
    <3> HIDE DEF p, made
    <3>2. made.quoted
      BY <3>1
    <3> QED BY <3>2
  <2>2. CASE ~InCall(line, cursor)
    BY <1>1, <2>2, Classified
  <2> QED BY <2>1, <2>2
<1> HIDE DEF made
<1> DEFINE from == made.from
           to == made.to
           S == Character \cup Letter
<1>3. /\ from = Back(line, cursor, Letter) /\ from \in 0..cursor
      /\ to \in cursor..Len(line) /\ At(line, to + 1) \notin Letter
  BY <1>1, <1>2, UnquotedIs
<1> HIDE DEF from, to
<1>4. line \in Seq(S) /\ label \in Seq(S)
  <2>1. Character \subseteq S /\ Letter \subseteq S
    OBVIOUS
  <2> HIDE DEF S
  <2> QED BY <1>1, <2>1, SeqWider
<1> HIDE DEF S
<1>5. from \in Nat /\ to \in Nat /\ from <= to /\ to <= Len(line)
  BY <1>1, <1>3
<1>6. from = 0 \/ line[from] \notin Letter
  BY <1>1, <1>3, BackIs
<1> DEFINE e == Splice(line, from, to, label)
           end == from + Len(label)
<1>7. IdentifierPrefix(SubSeq(e, 1, end)) = label /\ At(e, end + 1) \notin Letter
  BY <1>3, <1>4, <1>5, <1>6, IdentifierReplaced
<1>8. Edit(line, made, label) = e
  BY DEF Edit, NewText, Splice, from, to
<1> HIDE DEF e
<1> QED BY <1>7, <1>8 DEF from

(* An item that is accepted outside strings takes the place of the whole    *)
(* identifier around the cursor, in every line that is being typed          *)
(* (analyzer.go, classifyCompletionLine).                                   *)
THEOREM IdentifiersAreReplaced == CompletionSpec => []EditSetsTheIdentifier
<1>1. LineInv => EditSetsTheIdentifier
  BY LineIdentifier
<1> QED BY <1>1, LineIsTyped, PTL
-----------------------------------------------------------------------------
(* An edit in a string.                                                     *)

LEMMA QuotedEndCloses ==
  ASSUME NEW S, NEW l \in Seq(S), NEW c \in Nat, c <= Len(l), Within(l, c), ~BehindEscape(l, c)
  PROVE  /\ StringEnd(l, c) = QuotedEnd(l, c)
         /\ QuotedEnd(l, c) < Len(l) => Closes(l, QuotedEnd(l, c) + 1)
<1> DEFINE f == StringStart(l, c)
           between == c > f /\ l[c] = Quote /\ At(l, c + 1) = Quote
<1>1. f \in 1..c /\ Opens(l, f) /\ \A j \in (f + 1)..c : ~Opens(l, j)
  BY StartIs
<1>2. QuotedEnd(l, c) = ReplacementEnd(l, IF between THEN c + 1 ELSE c)
  BY DEF QuotedEnd
<1> HIDE DEF f
<1>3. CASE between
  <2>1. c \in 1..(Len(l) - 1) /\ l[c] = Quote /\ l[c + 1] = Quote
    <3>1. c + 1 \in 1..Len(l) /\ l[c + 1] = Quote
      BY <1>3, AtNext
    <3> QED BY <1>1, <1>3, <3>1
  <2>2. ~Opens(l, c)
    <3>1. c \in (f + 1)..c
      BY <1>1, <1>3
    <3> QED BY <1>1, <3>1
  <2>3. Even(Quotes(l, c))
    BY <2>1, <2>2 DEF BehindEscape
  <2>4. ~Even(Quotes(l, c + 1))
    BY <2>1, <2>3, Parity
  <2> DEFINE r == ReplacementEnd(l, c + 1)
  <2>5. c + 1 \in 0..Len(l) /\ c \in 0..Len(l)
    BY <2>1
  <2>6. /\ r \in (c + 1)..Len(l)
        /\ \A j \in ((c + 1) + 1)..r : ~Closes(l, j)
        /\ r < Len(l) => Closes(l, r + 1)
    BY <2>4, <2>5, EndType, EndCloses
  <2>7. QuotedEnd(l, c) = r
    BY <1>2, <1>3
  <2> HIDE DEF r
  <2>8. ~Closes(l, c + 1)
    BY <2>4 DEF Closes
  <2>9. ASSUME NEW j \in (c + 1)..r PROVE ~Closes(l, j)
    <3>1. j = c + 1 \/ j \in ((c + 1) + 1)..r
      BY <2>5, <2>6
    <3> QED BY <2>6, <2>8, <3>1
  <2>10. r \in c..Len(l)
    BY <2>5, <2>6
  <2>11. StringEnd(l, c) = r
    BY <2>5, <2>6, <2>9, <2>10, StringEndIs
  <2> QED BY <2>6, <2>7, <2>11
<1>4. CASE ~between
  <2>1. ~Even(Quotes(l, c))
    <3> SUFFICES ASSUME Even(Quotes(l, c)) PROVE FALSE
      OBVIOUS
    <3>1. c \in 1..(Len(l) - 1) /\ l[c] = Quote /\ l[c + 1] = Quote
      BY DEF Within, PartsEscape
    <3>2. At(l, c + 1) = Quote
      <4>1. c + 1 \in 1..Len(l)
        BY <3>1
      <4> QED BY <3>1, <4>1, AtNext
    <3>3. ~(c > f)
      BY <1>4, <3>1, <3>2
    <3>4. c = f
      BY <1>1, <3>3
    <3> QED BY <1>1, <3>4 DEF Opens
  <2> DEFINE r == ReplacementEnd(l, c)
  <2>2. c \in 0..Len(l)
    OBVIOUS
  <2>3. /\ r \in c..Len(l)
        /\ \A j \in (c + 1)..r : ~Closes(l, j)
        /\ r < Len(l) => Closes(l, r + 1)
    BY <2>1, <2>2, EndType, EndCloses
  <2>4. QuotedEnd(l, c) = r
    BY <1>2, <1>4
  <2> HIDE DEF r
  <2>5. StringEnd(l, c) = r
    BY <2>2, <2>3, StringEndIs
  <2> QED BY <2>3, <2>4, <2>5
<1> QED BY <1>3, <1>4

(* No quote of an encoded text ends the string it is written into.          *)
LEMMA EncodedStaysInside ==
  ASSUME NEW S, NEW e \in Seq(S), NEW f \in Nat, NEW label \in Seq(S), NEW new \in Seq(S), NEW at,
         Encodes(label, new, at), f + Len(new) <= Len(e), ~Even(Quotes(e, f)),
         \A k \in 1..Len(new) : e[f + k] = new[k]
  PROVE  /\ ~Even(Quotes(e, f + Len(new)))
         /\ \A j \in (f + 1)..(f + Len(new)) : ~Closes(e, j)
<1> DEFINE n == Len(label)
           Inside(k) == /\ ~Even(Quotes(e, f + at[k]))
                        /\ \A j \in (f + 1)..(f + at[k]) : ~Closes(e, j)
           T == {k \in Nat : k <= n => Inside(k)}
<1>1. /\ n \in Nat /\ Len(new) \in Nat /\ at[0] = 0 /\ at[n] = Len(new)
      /\ \A k \in 0..n : at[k] \in 0..Len(new)
      /\ \A k \in 0..(n - 1) :
           /\ at[k + 1] = at[k] + IF label[k + 1] = Quote THEN 2 ELSE 1
           /\ new[at[k] + 1] = label[k + 1]
           /\ label[k + 1] = Quote => new[at[k] + 2] = Quote
  <2>1. n \in Nat /\ Len(new) \in Nat
    OBVIOUS
  <2>2. Encodes(label, new, at)
    OBVIOUS
  <2>3. at[0] = 0 /\ at[n] = Len(new)
    BY ONLY <2>2 DEF Encodes
  <2>4. \A k \in 0..n : at[k] \in 0..Len(new)
    BY ONLY <2>2 DEF Encodes
  <2>5. \A k \in 0..(n - 1) :
           /\ at[k + 1] = at[k] + IF label[k + 1] = Quote THEN 2 ELSE 1
           /\ new[at[k] + 1] = label[k + 1]
           /\ label[k + 1] = Quote => new[at[k] + 2] = Quote
    BY ONLY <2>2, Zenon DEF Encodes
  <2> QED BY ONLY <2>1, <2>3, <2>4, <2>5, Zenon
<1> HIDE DEF n
<1>2. 0 \in T
  <2>1. f + at[0] = f
    BY <1>1
  <2>2. (f + 1)..(f + at[0]) = {}
    BY <2>1
  <2> QED BY <2>1, <2>2
<1>3. ASSUME NEW k \in Nat, k \in T PROVE k + 1 \in T
  <2> SUFFICES ASSUME k + 1 <= n PROVE Inside(k + 1)
    OBVIOUS
  <2>1. k \in 0..n /\ k \in 0..(n - 1) /\ k + 1 \in 0..n
    BY <1>1
  <2>2. Inside(k)
    BY <1>3, <2>1
  <2> DEFINE a == at[k]
             b == at[k + 1]
             i == f + a
  <2>3. /\ a \in Nat /\ b \in 0..Len(new)
        /\ b = a + IF label[k + 1] = Quote THEN 2 ELSE 1
        /\ new[a + 1] = label[k + 1]
        /\ label[k + 1] = Quote => new[a + 2] = Quote
    BY <1>1, <2>1
  <2>4. ~Even(Quotes(e, i)) /\ \A j \in (f + 1)..i : ~Closes(e, j)
    BY <2>2
  <2>5. ASSUME ~Even(Quotes(e, f + b)), \A j \in (f + 1)..(f + b) : ~Closes(e, j)
        PROVE  Inside(k + 1)
    BY <2>5
  <2> HIDE DEF a, b, Inside
  <2>6. i \in Nat /\ f + (a + 1) = i + 1 /\ f + (a + 2) = i + 2
    BY <2>3
  <2>7. e[i + 1] = label[k + 1]
    <3>1. b \in Int /\ b >= a + 1
      BY <2>3
    <3>2. a + 1 \in 1..Len(new)
      BY <1>1, <2>3, <3>1
    <3>3. e[f + (a + 1)] = new[a + 1]
      BY <3>2
    <3> QED BY <2>3, <2>6, <3>3
  <2>8. CASE label[k + 1] # Quote
    <3>1. f + b = i + 1
      BY <2>3, <2>8
    <3> HIDE DEF i
    <3>2. ~Even(Quotes(e, i + 1)) /\ ~Closes(e, i + 1)
      BY <2>4, <2>6, <2>7, <2>8, Parity DEF Closes
    <3>3. ASSUME NEW j \in (f + 1)..(i + 1) PROVE ~Closes(e, j)
      <4>1. j = i + 1 \/ j \in (f + 1)..i
        BY <2>6
      <4> QED BY <2>4, <3>2, <4>1
    <3> QED BY <2>5, <3>1, <3>2, <3>3
  <2>9. CASE label[k + 1] = Quote
    <3>1. f + b = i + 2 /\ b = a + 2
      BY <2>3, <2>9
    <3>2. a + 2 \in 1..Len(new)
      BY <1>1, <2>3, <3>1
    <3>3. e[i + 2] = Quote /\ i + 2 <= Len(e)
      <4>1. e[f + (a + 2)] = new[a + 2]
        BY <3>2
      <4>2. i + 2 <= Len(e)
        BY <1>1, <2>3, <3>1
      <4> QED BY <2>3, <2>6, <2>9, <4>1, <4>2
    <3> HIDE DEF i
    <3>4. Even(Quotes(e, i + 1)) /\ ~Even(Quotes(e, i + 2))
      <4>1. Even(Quotes(e, i + 1))
        BY <2>4, <2>6, <2>7, <2>9, Parity
      <4>2. i + 1 \in Nat /\ (i + 1) + 1 = i + 2
        BY <2>6
      <4>3. ~Even(Quotes(e, (i + 1) + 1))
        BY <3>3, <4>1, <4>2, Parity
      <4> QED BY <4>1, <4>2, <4>3
    <3>5. ~Closes(e, i + 2)
      BY <3>4 DEF Closes
    <3>6. ~Closes(e, i + 1)
      <4>1. i + 2 \in 1..Len(e)
        BY <2>6, <3>3
      <4>2. At(e, i + 2) = Quote
        BY <2>6, <3>3, <4>1, AtSecond
      <4>3. (i + 1) + 1 = i + 2
        BY <2>6
      <4> QED BY <4>2, <4>3 DEF Closes
    <3>7. ASSUME NEW j \in (f + 1)..(i + 2) PROVE ~Closes(e, j)
      <4>1. j = i + 1 \/ j = i + 2 \/ j \in (f + 1)..i
        BY <2>6
      <4> QED BY <2>4, <3>5, <3>6, <4>1
    <3> QED BY <2>5, <3>1, <3>4, <3>7
  <2> QED BY <2>8, <2>9
<1> HIDE DEF T
<1>4. Nat \subseteq T
  BY <1>2, <1>3, SetInduction
<1>5. n \in T
  BY <1>1, <1>4
<1>6. Inside(n)
  BY <1>1, <1>5 DEF T
<1> QED BY <1>1, <1>6

SetsString(l, f, to, label, edited) ==
  LET end == StringEnd(edited, f)
  IN /\ Decode(SubSeq(edited, f + 1, end)) = label
     /\ SubSeq(edited, 1, f) = SubSeq(l, 1, f)
     /\ SubSeq(edited, end + 1, Len(edited)) = SubSeq(l, to + 1, Len(l))

LEMMA StringReplaced ==
  ASSUME NEW S, NEW l \in Seq(S), NEW f \in 1..Len(l), NEW to \in f..Len(l), NEW label \in Seq(S),
         ~Even(Quotes(l, f)), to < Len(l) => Closes(l, to + 1)
  PROVE  SetsString(l, f, to, label, Splice(l, f, to, Encode(label)))
<1> DEFINE new == Encode(label)
           edited == Splice(l, f, to, new)
           end == f + Len(new)
<1>1. new \in Seq(S) /\ \E at : Encodes(label, new, at)
  BY EncodeIs
<1>2. Decode(new) = label
  BY DecodeEncode
<1> HIDE DEF new
<1>3. f \in Nat /\ to \in Nat /\ f <= to /\ to <= Len(l) /\ Len(l) \in Nat /\ Len(new) \in Nat
  BY <1>1
<1>4. edited \in Seq(S) /\ IsSplice(l, f, to, new, edited)
  BY <1>1, <1>3, SpliceIs
<1>5. /\ SubSeq(edited, 1, f) = SubSeq(l, 1, f)
      /\ SubSeq(edited, f + 1, end) = new
      /\ SubSeq(edited, end + 1, Len(edited)) = SubSeq(l, to + 1, Len(l))
  <2>1. HasPieces(l, f, to, new, edited)
    BY <1>1, <1>3, SplicePieces
  <2> HIDE DEF edited
  <2> QED BY <2>1 DEF HasPieces
<1>6. end \in Nat /\ f <= end /\ end = f + Len(new)
  BY <1>3
<1> HIDE DEF edited, end
<1>7. /\ Len(edited) = end + (Len(l) - to)
      /\ \A k \in 1..f : edited[k] = l[k]
      /\ \A k \in 1..Len(new) : edited[f + k] = new[k]
      /\ \A k \in 1..(Len(l) - to) : edited[end + k] = l[to + k]
  BY <1>4, <1>6 DEF IsSplice
<1>8. end <= Len(edited)
  BY <1>3, <1>6, <1>7
<1>9. ~Even(Quotes(edited, f))
  <2>1. Quotes(edited, f) = Quotes(l, f)
    BY <1>3, <1>7, SameQuotes
  <2> QED BY <2>1
<1>10. ~Even(Quotes(edited, end)) /\ \A j \in (f + 1)..end : ~Closes(edited, j)
  <2>1. PICK at : Encodes(label, new, at)
    BY <1>1
  <2>2. f + Len(new) <= Len(edited)
    BY <1>6, <1>8
  <2>3. /\ ~Even(Quotes(edited, f + Len(new)))
        /\ \A j \in (f + 1)..(f + Len(new)) : ~Closes(edited, j)
    BY <1>1, <1>3, <1>4, <1>7, <1>9, <2>1, <2>2, EncodedStaysInside
  <2> QED BY <1>6, <2>3
<1>11. ASSUME end < Len(edited) PROVE Closes(edited, end + 1)
  <2>1. to < Len(l)
    BY <1>3, <1>6, <1>7, <1>11
  <2>2. l[to + 1] = Quote /\ At(l, (to + 1) + 1) # Quote
    BY <2>1 DEF Closes
  <2>3. 1 \in 1..(Len(l) - to)
    BY <1>3, <2>1
  <2>4. edited[end + 1] = Quote
    BY <1>7, <2>2, <2>3
  <2>5. Even(Quotes(edited, end + 1))
    BY <1>6, <1>10, <2>4, Parity
  <2>6. At(edited, end + 2) # Quote
    <3> SUFFICES ASSUME At(edited, end + 2) = Quote PROVE FALSE
      OBVIOUS
    <3>1. end + 2 \in 1..Len(edited) /\ edited[end + 2] = Quote
      BY <1>4, <1>6, AtSecond
    <3>2. 2 \in 1..(Len(l) - to) /\ to + 2 \in 1..Len(l)
      BY <1>3, <1>6, <1>7, <3>1
    <3>3. l[to + 2] = Quote
      BY <1>7, <3>1, <3>2
    <3>4. At(l, to + 2) = Quote
      BY <1>3, <3>2, <3>3, AtSecond
    <3>5. (to + 1) + 1 = to + 2
      BY <1>3
    <3> QED BY <2>2, <3>4, <3>5
  <2>7. (end + 1) + 1 = end + 2
    BY <1>6
  <2> QED BY <2>4, <2>5, <2>6, <2>7 DEF Closes
<1>12. StringEnd(edited, f) = end
  <2>1. f \in 0..Len(edited) /\ end \in f..Len(edited)
    BY <1>3, <1>6, <1>8
  <2> QED BY <1>4, <1>10, <1>11, <2>1, StringEndIs
<1>13. SetsString(l, f, to, label, edited)
  BY <1>2, <1>5, <1>12 DEF SetsString
<1> QED BY <1>13 DEF edited, new

LEMMA LineString == LineInv => EditsAreSafeElsewhere
<1> DEFINE made == Classify(line, cursor)
           f == StringStart(line, cursor)
<1> SUFFICES ASSUME LineInv, ~BehindEscape(line, cursor), made.quoted, NEW label \in Labels(made)
             PROVE  LET edited == Edit(line, made, label)
                        end == StringEnd(edited, f)
                    IN /\ Decode(SubSeq(edited, f + 1, end)) = label
                       /\ SubSeq(edited, 1, f) = SubSeq(line, 1, f)
                       /\ SubSeq(edited, end + 1, Len(edited))
                            = SubSeq(line, StringEnd(line, cursor) + 1, Len(line))
  BY DEF EditsAreSafeElsewhere, EditSetsTheString
<1>1. line \in Seq(Character) /\ cursor \in Nat /\ cursor <= Len(line)
  BY DEF LineInv
<1>2. InCall(line, cursor)
  <2> SUFFICES ASSUME ~InCall(line, cursor) PROVE FALSE
    OBVIOUS
  <2>1. made = Unquoted(line, cursor)
    BY <1>1, Classified
  <2> QED BY <1>1, <2>1, UnquotedIs
<1> DEFINE p == Max(CallsAt(line, cursor))
<1>3. made =
        [kind |-> Argument(IdentifierBefore(line, p).name, Commas(line, p, cursor)), quoted |-> TRUE,
         prefix |-> Decode(SubSeq(line, StringStart(line, cursor) + 1, cursor)),
         from |-> StringStart(line, cursor), to |-> QuotedEnd(line, cursor)]
  BY <1>1, <1>2, Classified
<1> HIDE DEF p, made
<1> DEFINE to == QuotedEnd(line, cursor)
           inside == SubSeq(line, f + 1, cursor)
<1>4. made.prefix = Decode(inside) /\ made.from = f /\ made.to = to /\ made.quoted
  BY <1>3
<1>5. f \in 1..cursor /\ Opens(line, f)
  BY <1>1, <1>2, StartIs DEF InCall
<1>6. to \in cursor..Len(line)
  BY <1>1, QuotedEndType
<1>7. StringEnd(line, cursor) = to /\ (to < Len(line) => Closes(line, to + 1))
  BY <1>1, <1>2, QuotedEndCloses DEF InCall
<1> HIDE DEF f, to
<1>8. f \in 1..Len(line) /\ to \in f..Len(line) /\ ~Even(Quotes(line, f))
  BY <1>1, <1>5, <1>6 DEF Opens
<1>9. PICK w \in Ending : label = made.prefix \o w
  BY DEF Labels
<1> DEFINE S == Character \cup Range(w)
<1>10. line \in Seq(S) /\ w \in Seq(S) /\ made.prefix \in Seq(S)
  <2>1. Character \subseteq S /\ Range(w) \subseteq S
    OBVIOUS
  <2>2. w \in Seq(Range(w))
    BY CharacterAssumption DEF CharacterAssumption
  <2>3. inside \in Seq(Character)
    <3>1. f \in Nat /\ f <= cursor
      BY <1>1, <1>5
    <3>2. \A k \in (f + 1)..cursor : line[k] \in Character
      BY <1>1, <3>1
    <3> QED BY <1>1, <3>1, <3>2, Piece
  <2> HIDE DEF inside
  <2>4. made.prefix \in Seq(Character)
    BY <1>4, <2>3, DecodeType
  <2> HIDE DEF S
  <2> QED BY <1>1, <2>1, <2>2, <2>4, SeqWider
<1> HIDE DEF S
<1>11. label \in Seq(S)
  BY <1>9, <1>10, ConcatProperties
<1>12. Edit(line, made, label) = Splice(line, f, to, Encode(label))
  BY <1>4 DEF Edit, NewText, Splice
<1>13. SetsString(line, f, to, label, Splice(line, f, to, Encode(label)))
  BY <1>7, <1>8, <1>10, <1>11, StringReplaced
<1>14. SetsString(line, f, StringEnd(line, cursor), label, Edit(line, made, label))
  BY <1>7, <1>12, <1>13
<1> QED BY <1>14 DEF SetsString

(* An item that is accepted in a string makes it say exactly what the       *)
(* item's label says and leaves the rest of the line alone, in every line   *)
(* that is being typed and at every place of the cursor but behind a        *)
(* doubled quote and before another one (server.go, completionItems,        *)
(* analyzer.go, quotedReplacementEnd).                                      *)
THEOREM StringsAreReplaced == CompletionSpec => []EditsAreSafeElsewhere
<1>1. LineInv => EditsAreSafeElsewhere
  BY LineString
<1> QED BY <1>1, LineIsTyped, PTL
-----------------------------------------------------------------------------
(* The lines before the cursor.  What is open behind a line follows from    *)
(* what was open before it, and so the scan, line after line, can find it.  *)

FollowsLine(c) ==
  LET word == lines[c + 1]
      before == Structure!OpenAt(c)
      ending == {s \in before : word \in Language[lines[s]].ends}
  IN IF Structure!Opens(word)
     THEN /\ ~Structure!Defines(word) => before # {}
          /\ Structure!OpenAt(c + 1) = (IF Structure!Defines(word) THEN {} ELSE before) \cup {c + 1}
     ELSE Structure!OpenAt(c + 1) = {s \in before : ending # {} => \E e \in ending : s < e}

StructureType ==
  /\ lines \in Seq(Words)
  /\ open \in Seq(1..Len(lines)) /\ Structure!Ascending(open)
  /\ \A i \in DOMAIN open : Structure!Opens(lines[open[i]])
  /\ \A e \in ended :
       /\ e \in [from : 1..Len(lines), to : 1..Len(lines), whole : BOOLEAN]
       /\ e.from < e.to /\ Structure!Opens(lines[e.from])

(* A line is open or ended, once.                                           *)
OpenedOnce ==
  /\ \A e \in ended, i \in DOMAIN open : e.from # open[i]
  /\ \A e, f \in ended : e.from = f.from => e = f

StructureInv ==
  /\ StructureType
  /\ OpenedOnce
  /\ \A c \in 0..(Len(lines) - 1) : FollowsLine(c)

(* What any line does: it ends the innermost blocks from some depth on, and *)
(* may open one (new is 1).                                                 *)
HasEnded(e, k) == \E whole \in BOOLEAN : e = [from |-> open[k], to |-> Len(lines) + 1, whole |-> whole]

EndsFrom(depth) ==
  /\ \A e \in ended' : e \in ended \/ \E k \in (depth + 1)..Len(open) : HasEnded(e, k)
  /\ \A e \in ended : e \in ended'
  /\ \A k \in (depth + 1)..Len(open) :
       \E e \in ended' : HasEnded(e, k) /\ \A f \in ended' : HasEnded(f, k) => f = e

Cut(depth, new) ==
  /\ depth \in 0..Len(open) /\ new \in {0, 1}
  /\ open' \in Seq(1..(Len(lines) + 1)) /\ Len(open') = depth + new
  /\ \A k \in 1..depth : open'[k] = open[k]
  /\ new = 1 => open'[depth + 1] = Len(lines) + 1
  /\ EndsFrom(depth)

End(k, last) == [from |-> open[k], to |-> Len(lines) + 1, whole |-> (k = last)]

LEMMA LeftIs ==
  ASSUME NEW k, NEW last, NEW whole, whole = (k = last)
  PROVE  Structure!Left(k, whole) = End(k, last)
BY DEF Structure!Left, Structure!Number, End

(* The blocks that are open are not ended.                                  *)
LEMMA EndsAre ==
  ASSUME StructureType, OpenedOnce, NEW depth \in 0..Len(open), NEW last \in Nat,
         \A e : e \in ended' <=> (e \in ended \/ \E k \in (depth + 1)..Len(open) : e = End(k, last))
  PROVE  EndsFrom(depth)
<1>2. Len(open) \in Nat /\ DOMAIN open = 1..Len(open) /\ Len(lines) \in Nat
  BY DEF StructureType
<1>3. \A i, j \in DOMAIN open : open[i] = open[j] => i = j
  <2> SUFFICES ASSUME NEW i \in DOMAIN open, NEW j \in DOMAIN open, open[i] = open[j], i # j
               PROVE  FALSE
    OBVIOUS
  <2>1. open[i] \in Int /\ open[j] \in Int
    BY <1>2 DEF StructureType
  <2>2. i < j \/ j < i
    BY <1>2
  <2>3. open[i] < open[j] \/ open[j] < open[i]
    BY <2>2 DEF StructureType, Structure!Ascending
  <2> QED BY <2>1, <2>3
<1>4. \A f \in ended' : f \in ended \/ \E k \in (depth + 1)..Len(open) : f = End(k, last)
  OBVIOUS
<1>5. \A k \in (depth + 1)..Len(open) : End(k, last) \in ended' /\ HasEnded(End(k, last), k)
  BY DEF HasEnded, End
<1>6. ASSUME NEW k \in (depth + 1)..Len(open), NEW f \in ended', HasEnded(f, k)
      PROVE  f = End(k, last)
  <2>1. k \in DOMAIN open /\ \A j \in (depth + 1)..Len(open) : j \in DOMAIN open
    BY <1>2
  <2>2. f.from = open[k]
    BY <1>6 DEF HasEnded
  <2>3. f \notin ended
    BY <2>1, <2>2 DEF OpenedOnce
  <2>4. PICK j \in (depth + 1)..Len(open) : f = End(j, last)
    BY <1>4, <2>3
  <2>5. open[j] = open[k]
    BY <2>2, <2>4 DEF End
  <2> QED BY <1>3, <2>1, <2>4, <2>5
<1>7. \A f \in ended : f \in ended'
  OBVIOUS
<1> QED BY <1>4, <1>5, <1>6, <1>7 DEF EndsFrom

LEMMA DefinitionCuts ==
  ASSUME StructureType, OpenedOnce, NEW word \in Words, Structure!StartDefinition(word)
  PROVE  Cut(0, 1)
<1>1. Len(open) \in Nat /\ DOMAIN open = 1..Len(open) /\ Len(lines) \in Nat
  BY DEF StructureType
<1>2. open' = <<Len(lines) + 1>>
  BY DEF Structure!StartDefinition, Structure!Number
<1>3. open' \in Seq(1..(Len(lines) + 1)) /\ Len(open') = 1 /\ open'[1] = Len(lines) + 1
  BY <1>1, <1>2
<1>4. \A e : e \in ended' <=> (e \in ended \/ \E k \in (0 + 1)..Len(open) : e = End(k, 0))
  <2> DEFINE r(k) == [from |-> open[k], to |-> Len(lines) + 1, whole |-> FALSE]
  <2>1. ended' = ended \cup {r(k) : k \in 1..Len(open)}
    BY <1>1 DEF Structure!StartDefinition, Structure!Left, Structure!Number
  <2>2. ASSUME NEW k \in 1..Len(open) PROVE r(k) = End(k, 0)
    <3>1. (k = 0) <=> FALSE
      BY <1>1
    <3> QED BY <3>1 DEF End
  <2> HIDE DEF r
  <2>3. 0 + 1 = 1
    OBVIOUS
  <2> QED BY <2>1, <2>2, <2>3
<1>5. 0 \in 0..Len(open) /\ 0 \in Nat
  BY <1>1
<1> QED BY <1>3, <1>4, <1>5, EndsAre DEF Cut

(* Nothing is ended.                                                        *)
LEMMA NothingEnds ==
  ASSUME StructureType, UNCHANGED ended
  PROVE  EndsFrom(Len(open))
<1>1. Len(open) \in Nat
  BY DEF StructureType
<1>2. (Len(open) + 1)..Len(open) = {}
  BY <1>1
<1> QED BY <1>2 DEF EndsFrom

LEMMA BlockCuts ==
  ASSUME StructureType, NEW word \in Words, Structure!StartBlock(word)
  PROVE  Cut(Len(open), 1)
<1>1. Len(open) \in Nat /\ open \in Seq(1..Len(lines)) /\ Len(lines) \in Nat
  BY DEF StructureType
<1>2. open' = Append(open, Len(lines) + 1) /\ UNCHANGED ended
  BY DEF Structure!StartBlock, Structure!Number
<1>3. open \in Seq(1..(Len(lines) + 1))
  BY <1>1
<1>4. /\ open' \in Seq(1..(Len(lines) + 1)) /\ Len(open') = Len(open) + 1
      /\ \A k \in 1..Len(open) : open'[k] = open[k]
      /\ open'[Len(open) + 1] = Len(lines) + 1
  BY <1>1, <1>2, <1>3
<1>5. Len(open) \in 0..Len(open)
  BY <1>1
<1> QED BY <1>2, <1>4, <1>5, NothingEnds DEF Cut

LEMMA LineCuts ==
  ASSUME StructureType, NEW word \in Words, Structure!OtherLine(word)
  PROVE  Cut(Len(open), 0)
<1>1. Len(open) \in Nat /\ open \in Seq(1..Len(lines)) /\ Len(lines) \in Nat
  BY DEF StructureType
<1>2. open' = open /\ UNCHANGED ended
  BY DEF Structure!OtherLine
<1>3. open' \in Seq(1..(Len(lines) + 1))
  BY <1>1, <1>2
<1>5. Len(open) \in 0..Len(open) /\ Len(open') = Len(open) + 0
  BY <1>1, <1>2
<1> QED BY <1>2, <1>3, <1>5, NothingEnds DEF Cut

LEMMA EndCuts ==
  ASSUME StructureType, OpenedOnce, NEW word \in Words, Structure!EndBlock(word)
  PROVE  \E last \in Structure!Endable(word) :
           /\ \A k \in Structure!Endable(word) : k <= last
           /\ last \in 1..Len(open) /\ Cut(last - 1, 0)
<1>1. Len(open) \in Nat /\ DOMAIN open = 1..Len(open) /\ open \in Seq(1..Len(lines))
      /\ Len(lines) \in Nat
  BY DEF StructureType
<1> DEFINE S == Structure!Endable(word)
           last == Max(S)
<1>2. S \in SUBSET (0..Len(open)) /\ S \subseteq 1..Len(open) /\ S # {}
  BY <1>1 DEF Structure!EndBlock, Structure!Endable
<1>3. last \in S /\ \A k \in S : last >= k
  BY <1>1, <1>2, MaximumOf
<1>4. /\ open' = SubSeq(open, 1, last - 1)
      /\ ended' = ended \cup {Structure!Left(k, k = last) : k \in last..Len(open)}
  BY DEF Structure!EndBlock, Structure!Max, Max
<1>5. \A k \in S : k <= last
  BY <1>1, <1>2, <1>3
<1>6. last \in 1..Len(open)
  BY <1>2, <1>3
<1> HIDE DEF last, S
<1>7. last - 1 \in 0..Len(open) /\ (last - 1) + 1 = last /\ last - 1 <= Len(open) /\ last \in Nat
  BY <1>1, <1>6
<1>8. /\ open' \in Seq(1..(Len(lines) + 1)) /\ Len(open') = (last - 1) + 0
      /\ \A k \in 1..(last - 1) : open'[k] = open[k]
  <2> DEFINE d == last - 1
  <2>1. d \in 0..Len(open) /\ open' = SubSeq(open, 1, d) /\ d \in Nat
    BY <1>1, <1>4, <1>7
  <2> HIDE DEF d
  <2>2. open' \in Seq(1..Len(lines)) /\ Len(open') = d /\ \A k \in 1..d : open'[k] = open[k]
    BY <1>1, <2>1
  <2>3. open' \in Seq(1..(Len(lines) + 1))
    BY <1>1, <2>2
  <2> QED BY <2>1, <2>2, <2>3 DEF d
<1>9. \A e : e \in ended' <=> (e \in ended \/ \E k \in ((last - 1) + 1)..Len(open) : e = End(k, last))
  <2>1. \A k \in last..Len(open) : Structure!Left(k, k = last) = End(k, last)
    BY LeftIs
  <2> QED BY <1>4, <1>7, <2>1
<1>10. Cut(last - 1, 0)
  BY <1>7, <1>8, <1>9, EndsAre DEF Cut
<1> QED BY <1>3, <1>5, <1>6, <1>10 DEF S

Extends(word, depth, new) ==
  /\ word \in Words /\ lines' = Append(lines, word)
  /\ Cut(depth, new)
  /\ new = 1 => Structure!Opens(word)

LEMMA Numbers ==
  ASSUME StructureType
  PROVE  /\ Len(lines) \in Nat /\ Len(open) \in Nat /\ DOMAIN open = 1..Len(open)
         /\ \A k \in 1..Len(open) : open[k] \in 1..Len(lines)
         /\ \A e \in ended : e.from \in 1..Len(lines) /\ e.to \in 1..Len(lines)
BY DEF StructureType

LEMMA OneLineMore ==
  ASSUME StructureType, NEW word \in Words, lines' = Append(lines, word)
  PROVE  /\ lines' \in Seq(Words) /\ Len(lines') = Len(lines) + 1
         /\ \A i \in 1..Len(lines) : lines'[i] = lines[i]
         /\ lines'[Len(lines) + 1] = word
BY DEF StructureType

(* What has ended, and what has just ended.                                 *)
LEMMA EndedIs ==
  ASSUME StructureType, NEW depth, NEW new, Cut(depth, new), NEW e \in ended'
  PROVE  \/ e \in ended
         \/ \E k \in (depth + 1)..Len(open) :
              /\ k \in 1..Len(open) /\ e.from = open[k] /\ e.to = Len(lines) + 1
              /\ e \in [from : 1..Len(lines), to : {Len(lines) + 1}, whole : BOOLEAN]
<1>1. e \in ended \/ \E k \in (depth + 1)..Len(open) : HasEnded(e, k)
  BY DEF Cut, EndsFrom
<1>2. ASSUME NEW k \in (depth + 1)..Len(open), HasEnded(e, k)
      PROVE  /\ k \in 1..Len(open) /\ e.from = open[k] /\ e.to = Len(lines) + 1
             /\ e \in [from : 1..Len(lines), to : {Len(lines) + 1}, whole : BOOLEAN]
  <2>1. k \in 1..Len(open)
    BY Numbers DEF Cut
  <2> QED BY <1>2, <2>1, Numbers DEF HasEnded
<1> QED BY <1>1, <1>2

LEMMA ExtendsType ==
  ASSUME StructureType, NEW word, NEW depth, NEW new, Extends(word, depth, new)
  PROVE  StructureType'
<1>1. /\ lines' \in Seq(Words) /\ Len(lines') = Len(lines) + 1
      /\ \A i \in 1..Len(lines) : lines'[i] = lines[i]
      /\ lines'[Len(lines) + 1] = word
  BY OneLineMore DEF Extends
<1>2. /\ open' \in Seq(1..Len(lines')) /\ depth \in 0..Len(open) /\ new \in {0, 1}
      /\ Len(open') = depth + new /\ \A k \in 1..depth : open'[k] = open[k]
      /\ new = 1 => open'[depth + 1] = Len(lines) + 1
  BY <1>1 DEF Extends, Cut
<1>3. /\ DOMAIN open' = 1..(depth + new)
      /\ \A k \in 1..(depth + new) : k \in 1..depth \/ (k = depth + 1 /\ new = 1)
      /\ \A k \in 1..depth : k \in 1..Len(open) /\ open[k] \in 1..Len(lines)
  BY <1>2, Numbers
<1>4. Structure!Ascending(open')
  <2> SUFFICES ASSUME NEW i \in DOMAIN open', NEW j \in DOMAIN open', i < j
               PROVE  open'[i] < open'[j]
    BY DEF Structure!Ascending
  <2>1. i \in 1..depth
    BY <1>2, <1>3
  <2>2. CASE j \in 1..depth
    BY <1>2, <1>3, <2>1, <2>2, Numbers DEF StructureType, Structure!Ascending
  <2>3. CASE j = depth + 1 /\ new = 1
    BY <1>2, <1>3, <2>1, <2>3, Numbers
  <2> QED BY <1>3, <2>2, <2>3
<1>5. ASSUME NEW i \in DOMAIN open' PROVE Structure!Opens(lines'[open'[i]])
  <2>1. CASE i \in 1..depth
    <3>1. lines'[open'[i]] = lines[open[i]] /\ i \in DOMAIN open
      BY <1>1, <1>2, <1>3, <2>1, Numbers
    <3> QED BY <3>1 DEF StructureType
  <2>2. CASE i = depth + 1 /\ new = 1
    BY <1>1, <1>2, <2>2 DEF Extends
  <2> QED BY <1>3, <2>1, <2>2
<1>6. ASSUME NEW e \in ended'
      PROVE  /\ e \in [from : 1..Len(lines'), to : 1..Len(lines'), whole : BOOLEAN]
             /\ e.from < e.to /\ Structure!Opens(lines'[e.from])
  <2>1. CASE e \in ended
    <3>1. /\ e \in [from : 1..Len(lines), to : 1..Len(lines), whole : BOOLEAN]
          /\ e.from < e.to /\ Structure!Opens(lines[e.from])
      BY <2>1 DEF StructureType
    <3>2. lines'[e.from] = lines[e.from]
      BY <1>1, <3>1
    <3> QED BY <1>1, <3>1, <3>2, Numbers
  <2>2. ASSUME NEW k \in 1..Len(open), e.from = open[k], e.to = Len(lines) + 1,
               e \in [from : 1..Len(lines), to : {Len(lines) + 1}, whole : BOOLEAN]
        PROVE  /\ e \in [from : 1..Len(lines'), to : 1..Len(lines'), whole : BOOLEAN]
               /\ e.from < e.to /\ Structure!Opens(lines'[e.from])
    <3>1. Structure!Opens(lines[open[k]]) /\ open[k] \in 1..Len(lines)
      BY Numbers DEF StructureType
    <3>2. lines'[e.from] = lines[open[k]]
      BY <1>1, <2>2, <3>1
    <3> QED BY <1>1, <2>2, <3>1, <3>2, Numbers
  <2>3. e \in ended \/ \E k \in (depth + 1)..Len(open) :
              /\ k \in 1..Len(open) /\ e.from = open[k] /\ e.to = Len(lines) + 1
              /\ e \in [from : 1..Len(lines), to : {Len(lines) + 1}, whole : BOOLEAN]
    BY EndedIs DEF Extends
  <2> QED BY <2>1, <2>2, <2>3
<1> QED BY <1>1, <1>2, <1>4, <1>5, <1>6 DEF StructureType

LEMMA OpenApart ==
  ASSUME StructureType, NEW i \in 1..Len(open), NEW j \in 1..Len(open), open[i] = open[j]
  PROVE  i = j
<1> SUFFICES ASSUME i # j PROVE FALSE
  OBVIOUS
<1>1. i \in DOMAIN open /\ j \in DOMAIN open /\ (i < j \/ j < i)
  BY Numbers
<1>2. open[i] < open[j] \/ open[j] < open[i]
  BY <1>1 DEF StructureType, Structure!Ascending
<1> QED BY <1>2, Numbers

LEMMA ExtendsOnce ==
  ASSUME StructureType, OpenedOnce, NEW word, NEW depth, NEW new, Extends(word, depth, new)
  PROVE  OpenedOnce'
<1>1. /\ depth \in 0..Len(open) /\ new \in {0, 1} /\ DOMAIN open' = 1..(depth + new)
      /\ \A k \in 1..depth : open'[k] = open[k]
      /\ new = 1 => open'[depth + 1] = Len(lines) + 1
  BY DEF Extends, Cut
<1>2. \A e \in ended' : e \in ended \/ \E k \in (depth + 1)..Len(open) :
              /\ k \in 1..Len(open) /\ e.from = open[k] /\ HasEnded(e, k)
  <2> SUFFICES ASSUME NEW e \in ended', e \notin ended
               PROVE  \E k \in (depth + 1)..Len(open) :
                        k \in 1..Len(open) /\ e.from = open[k] /\ HasEnded(e, k)
    OBVIOUS
  <2>1. PICK k \in (depth + 1)..Len(open) : HasEnded(e, k)
    BY DEF Extends, Cut, EndsFrom
  <2>2. k \in 1..Len(open)
    BY <1>1, Numbers
  <2> QED BY <2>1, <2>2 DEF HasEnded
<1>3. ASSUME NEW e \in ended', NEW i \in DOMAIN open' PROVE e.from # open'[i]
  <2>1. CASE i \in 1..depth
    <3>1. i \in DOMAIN open /\ i \in 1..Len(open) /\ open'[i] = open[i]
      <4>1. Len(open) \in Nat /\ DOMAIN open = 1..Len(open) /\ depth \in 0..Len(open)
        BY <1>1, Numbers
      <4>2. i \in 1..Len(open)
        BY <2>1, <4>1
      <4> QED BY <1>1, <2>1, <4>1, <4>2
    <3>2. \A k \in (depth + 1)..Len(open) : k # i
      BY <1>1, <2>1, Numbers
    <3> QED BY <1>2, <3>1, <3>2, OpenApart DEF OpenedOnce
  <2>2. CASE i = depth + 1 /\ new = 1
    <3>1. e.from \in 1..Len(lines) /\ Len(lines) \in Nat
      BY <1>2, Numbers
    <3>2. open'[i] = Len(lines) + 1
      BY <1>1, <2>2
    <3> QED BY <3>1, <3>2
  <2>3. i \in 1..depth \/ (i = depth + 1 /\ new = 1)
    BY <1>1, Numbers
  <2> QED BY <2>1, <2>2, <2>3
<1>4. ASSUME NEW e \in ended', NEW f \in ended', e.from = f.from PROVE e = f
  <2>1. CASE e \in ended /\ f \in ended
    BY <1>4, <2>1 DEF OpenedOnce
  <2>2. CASE e \notin ended /\ f \notin ended
    <3>1. PICK k \in (depth + 1)..Len(open) : k \in 1..Len(open) /\ e.from = open[k] /\ HasEnded(e, k)
      BY <1>2, <2>2
    <3>2. PICK m \in (depth + 1)..Len(open) : m \in 1..Len(open) /\ f.from = open[m] /\ HasEnded(f, m)
      BY <1>2, <2>2
    <3>3. k = m
      BY <1>4, <3>1, <3>2, OpenApart
    <3>4. \E g \in ended' : \A h \in ended' : HasEnded(h, k) => h = g
      BY DEF Extends, Cut, EndsFrom
    <3> QED BY <3>1, <3>2, <3>3, <3>4
  <2>3. ASSUME NEW g \in ended, NEW h \in ended', h \notin ended PROVE g.from # h.from
    <3>1. PICK k \in 1..Len(open) : h.from = open[k]
      BY <1>2, <2>3
    <3> QED BY <3>1, Numbers DEF OpenedOnce
  <2> QED BY <1>4, <2>1, <2>2, <2>3
<1> QED BY <1>3, <1>4 DEF OpenedOnce

LEMMA OpenAtIs ==
  ASSUME StructureType, NEW c, NEW s
  PROVE  s \in Structure!OpenAt(c) <=>
           \/ \E k \in 1..Len(open) : s = open[k] /\ s <= c
           \/ \E e \in ended : s = e.from /\ e.from <= c /\ c < e.to
BY Numbers DEF Structure!OpenAt, Structure!Range, Range

LEMMA OpenAtIsNext ==
  ASSUME StructureType', NEW c, NEW s
  PROVE  s \in Structure!OpenAt(c)' <=>
           \/ \E k \in 1..Len(open') : s = open'[k] /\ s <= c
           \/ \E e \in ended' : s = e.from /\ e.from <= c /\ c < e.to
<1>1. DOMAIN open' = 1..Len(open')
  BY DEF StructureType
<1> QED BY <1>1 DEF Structure!OpenAt, Structure!Range, Range

(* At the end of the document.                                              *)
LEMMA OpenAtEnd ==
  ASSUME StructureType, NEW s
  PROVE  s \in Structure!OpenAt(Len(lines)) <=> \E k \in 1..Len(open) : s = open[k]
<1>1. \A e \in ended : ~(Len(lines) < e.to)
  BY Numbers
<1>2. \A k \in 1..Len(open) : open[k] <= Len(lines)
  BY Numbers
<1> QED BY <1>1, <1>2, OpenAtIs

(* A line changes nothing before it.                                        *)
LEMMA OpenBefore ==
  ASSUME StructureType, NEW word, NEW depth, NEW new, Extends(word, depth, new),
         NEW c \in 0..Len(lines)
  PROVE  Structure!OpenAt(c)' = Structure!OpenAt(c)
<1>1. StructureType'
  BY ExtendsType
<1>2. /\ depth \in 0..Len(open) /\ new \in {0, 1} /\ Len(open') = depth + new
      /\ \A k \in 1..depth : open'[k] = open[k]
      /\ new = 1 => open'[depth + 1] = Len(lines) + 1
      /\ EndsFrom(depth)
  BY DEF Extends, Cut
<1>3. /\ \A k \in 1..Len(open') : k \in 1..depth \/ (k = depth + 1 /\ new = 1)
      /\ \A k \in 1..depth : k \in 1..Len(open) /\ k \in 1..Len(open')
      /\ \A k \in 1..Len(open) : k \in 1..depth \/ k \in (depth + 1)..Len(open)
      /\ \A k \in (depth + 1)..Len(open) : k \in 1..Len(open)
      /\ ~(Len(lines) + 1 <= c) /\ c < Len(lines) + 1
  BY <1>2, Numbers
<1>4. ASSUME NEW s, s \in Structure!OpenAt(c)' PROVE s \in Structure!OpenAt(c)
  <2>1. CASE \E k \in 1..Len(open') : s = open'[k] /\ s <= c
    BY <1>2, <1>3, <2>1, OpenAtIs
  <2>2. CASE \E e \in ended' : s = e.from /\ e.from <= c /\ c < e.to
    <3>1. PICK e \in ended' : s = e.from /\ e.from <= c /\ c < e.to
      BY <2>2
    <3>2. e \in ended \/ \E k \in 1..Len(open) : e.from = open[k]
      BY EndedIs DEF Extends
    <3> QED BY <3>1, <3>2, OpenAtIs
  <2> QED BY <1>1, <1>4, <2>1, <2>2, OpenAtIsNext
<1>5. ASSUME NEW s, s \in Structure!OpenAt(c) PROVE s \in Structure!OpenAt(c)'
  <2>1. ASSUME NEW k \in 1..Len(open), s = open[k], s <= c PROVE s \in Structure!OpenAt(c)'
    <3>1. CASE k \in 1..depth
      <4>1. k \in 1..Len(open') /\ s = open'[k]
        BY <1>2, <1>3, <2>1, <3>1
      <4> QED BY <1>1, <2>1, <4>1, OpenAtIsNext
    <3>2. CASE k \in (depth + 1)..Len(open)
      <4>1. PICK e \in ended' : HasEnded(e, k)
        BY <1>2, <3>2 DEF EndsFrom
      <4>2. e.from = s /\ e.to = Len(lines) + 1
        BY <2>1, <4>1 DEF HasEnded
      <4> QED BY <1>1, <1>3, <2>1, <4>2, OpenAtIsNext
    <3> QED BY <1>3, <2>1, <3>1, <3>2
  <2>2. ASSUME NEW e \in ended, s = e.from, e.from <= c, c < e.to PROVE s \in Structure!OpenAt(c)'
    <3>1. e \in ended'
      BY <1>2 DEF EndsFrom
    <3> QED BY <1>1, <2>2, <3>1, OpenAtIsNext
  <2> QED BY <1>5, <2>1, <2>2, OpenAtIs
<1> QED BY <1>4, <1>5

LEMMA OpenBehind ==
  ASSUME StructureType, NEW word, NEW depth, NEW new, Extends(word, depth, new), NEW s,
         NEW n, n = Len(lines) + 1
  PROVE  s \in Structure!OpenAt(n)' <=>
           \/ \E k \in 1..depth : s = open[k]
           \/ new = 1 /\ s = n
<1>1. StructureType' /\ Len(lines') = Len(lines) + 1
  BY ExtendsType, OneLineMore DEF Extends
<1>2. /\ depth \in 0..Len(open) /\ new \in {0, 1} /\ Len(open') = depth + new
      /\ \A k \in 1..depth : open'[k] = open[k]
      /\ new = 1 => open'[depth + 1] = n
  BY DEF Extends, Cut
<1>3. /\ \A k \in 1..Len(open') : k \in 1..depth \/ (k = depth + 1 /\ new = 1)
      /\ \A k \in 1..depth : k \in 1..Len(open) /\ k \in 1..Len(open')
      /\ new = 1 => depth + 1 \in 1..Len(open')
  BY <1>2, Numbers
<1>4. \A k \in 1..Len(open) : open[k] <= n
  BY Numbers
<1>5. \A e \in ended' : ~(n < e.to)
  BY <1>1, Numbers DEF StructureType
<1>6. n <= n
  BY Numbers
<1>7. s \in Structure!OpenAt(n)' <=>
        \E k \in 1..Len(open') : s = open'[k] /\ s <= n
  BY <1>1, <1>5, OpenAtIsNext
<1>8. ASSUME NEW k \in 1..depth
      PROVE  k \in 1..Len(open') /\ open'[k] = open[k] /\ open[k] <= n
  BY <1>2, <1>3, <1>4
<1>9. CASE s \in Structure!OpenAt(n)'
  <2>1. PICK k \in 1..Len(open') : s = open'[k]
    BY <1>7, <1>9
  <2>2. CASE k \in 1..depth
    BY <1>8, <1>9, <2>1, <2>2
  <2>3. CASE k = depth + 1 /\ new = 1
    BY <1>2, <1>9, <2>1, <2>3
  <2> QED BY <1>3, <2>2, <2>3
<1>10. CASE s \notin Structure!OpenAt(n)'
  <2>1. \A k \in 1..depth : s # open[k]
    BY <1>7, <1>8, <1>10
  <2>2. ~(new = 1 /\ s = n)
    BY <1>2, <1>3, <1>6, <1>7, <1>10
  <2> QED BY <1>10, <2>1, <2>2
<1> QED BY <1>9, <1>10

LEMMA FollowsBefore ==
  ASSUME StructureInv, NEW word, NEW depth, NEW new, Extends(word, depth, new),
         NEW c \in 0..(Len(lines) - 1)
  PROVE  FollowsLine(c)'
<1>1. StructureType
  BY DEF StructureInv
<1>2. c \in 0..Len(lines) /\ c + 1 \in 0..Len(lines) /\ c + 1 \in 1..Len(lines)
  BY <1>1, Numbers
<1>3. /\ Structure!OpenAt(c)' = Structure!OpenAt(c)
      /\ Structure!OpenAt(c + 1)' = Structure!OpenAt(c + 1)
  BY <1>1, <1>2, OpenBefore
<1>4. \A i \in 1..Len(lines) : lines'[i] = lines[i]
  BY <1>1, OneLineMore DEF Extends
<1>5. \A s \in Structure!OpenAt(c) : s \in 1..Len(lines)
  BY <1>1, OpenAtIs, Numbers
<1>6. FollowsLine(c)
  BY DEF StructureInv
<1> DEFINE ending == {s \in Structure!OpenAt(c) : lines[c + 1] \in Language[lines[s]].ends}
<1>7. {s \in Structure!OpenAt(c) : lines'[c + 1] \in Language[lines'[s]].ends} = ending
  BY <1>2, <1>4, <1>5
<1>8. lines'[c + 1] = lines[c + 1]
  BY <1>2, <1>4
<1> QED BY <1>3, <1>6, <1>7, <1>8 DEF FollowsLine, Structure!Opens, Structure!Defines

(* The line just written.                                                   *)
LEMMA FollowsDefinition ==
  ASSUME StructureInv, NEW word, Extends(word, 0, 1), Structure!Defines(word),
         NEW c, c = Len(lines)
  PROVE  FollowsLine(c)'
<1>1. StructureType /\ c \in Nat
  BY Numbers DEF StructureInv
<1>2. lines'[c + 1] = word
  BY <1>1, OneLineMore DEF Extends
<1>3. Structure!OpenAt(c + 1)' = {} \cup {c + 1}
  <2>1. 1..0 = {}
    OBVIOUS
  <2>2. \A s : s \in Structure!OpenAt(c + 1)' <=> s = c + 1
    BY <1>1, <2>1, OpenBehind
  <2> QED BY <2>2
<1>4. (Structure!Opens(word))' /\ (Structure!Defines(word))'
  BY DEF Structure!Defines, Structure!Opens
<1> QED BY <1>2, <1>3, <1>4 DEF FollowsLine, Structure!Defines, Structure!Opens

LEMMA FollowsBlock ==
  ASSUME StructureInv, NEW word, Extends(word, Len(open), 1), ~Structure!Defines(word),
         open # <<>>, NEW c, c = Len(lines)
  PROVE  FollowsLine(c)'
<1>1. StructureType /\ c \in Nat /\ c \in 0..Len(lines) /\ Len(open) \in Nat /\ open \in Seq(1..c)
  BY Numbers DEF StructureInv, StructureType
<1>2. lines'[c + 1] = word
  BY <1>1, OneLineMore DEF Extends
<1>3. Structure!OpenAt(c)' = Structure!OpenAt(c)
  BY <1>1, OpenBefore
<1>4. Structure!OpenAt(c + 1)' = Structure!OpenAt(c) \cup {c + 1}
  <2>1. \A s : s \in Structure!OpenAt(c + 1)' <=> (\E k \in 1..Len(open) : s = open[k]) \/ s = c + 1
    BY <1>1, OpenBehind
  <2>2. \A s : s \in Structure!OpenAt(c) <=> \E k \in 1..Len(open) : s = open[k]
    BY <1>1, OpenAtEnd
  <2> QED BY <2>1, <2>2
<1>5. Structure!OpenAt(c) # {}
  <2>1. 1 \in 1..Len(open)
    BY <1>1
  <2>2. open[1] \in Structure!OpenAt(c)
    BY <1>1, <2>1, OpenAtEnd
  <2> QED BY <2>2
<1>6. Structure!Opens(word)
  BY DEF Extends
<1> QED BY <1>2, <1>3, <1>4, <1>5, <1>6 DEF FollowsLine, Structure!Defines, Structure!Opens

LEMMA FollowsOther ==
  ASSUME StructureInv, NEW word, Extends(word, Len(open), 0), Structure!OtherLine(word),
         NEW c, c = Len(lines)
  PROVE  FollowsLine(c)'
<1>1. StructureType /\ c \in Nat /\ c \in 0..Len(lines) /\ DOMAIN open = 1..Len(open)
  BY Numbers DEF StructureInv
<1>2. lines'[c + 1] = word /\ \A i \in 1..c : lines'[i] = lines[i]
  BY <1>1, OneLineMore DEF Extends
<1>3. Structure!OpenAt(c)' = Structure!OpenAt(c)
  BY <1>1, OpenBefore
<1>4. \A s : s \in Structure!OpenAt(c) <=> \E k \in 1..Len(open) : s = open[k]
  BY <1>1, OpenAtEnd
<1>5. Structure!OpenAt(c + 1)' = Structure!OpenAt(c)
  <2>1. \A s : s \in Structure!OpenAt(c + 1)' <=> \E k \in 1..Len(open) : s = open[k]
    BY <1>1, OpenBehind
  <2> QED BY <1>4, <2>1
<1>6. {s \in Structure!OpenAt(c) : word \in Language[lines'[s]].ends} = {}
  <2> SUFFICES ASSUME NEW k \in 1..Len(open), word \in Language[lines'[open[k]]].ends
               PROVE  FALSE
    BY <1>4
  <2>1. lines'[open[k]] = lines[open[k]]
    BY <1>1, <1>2, Numbers
  <2>2. k \in Structure!Endable(word)
    BY <1>1, <2>1 DEF Structure!Endable
  <2> QED BY <2>2 DEF Structure!OtherLine
<1>7. ~(Structure!Opens(word))
  BY DEF Structure!OtherLine
<1> QED BY <1>2, <1>3, <1>5, <1>6, <1>7 DEF FollowsLine, Structure!Opens

LEMMA FollowsEnd ==
  ASSUME StructureInv, NEW word, NEW last \in Structure!Endable(word), last \in 1..Len(open),
         \A k \in Structure!Endable(word) : k <= last,
         Extends(word, last - 1, 0), ~Structure!Opens(word),
         NEW c, c = Len(lines)
  PROVE  FollowsLine(c)'
<1>1. /\ StructureType /\ c \in Nat /\ c \in 0..Len(lines)
      /\ Len(open) \in Nat /\ DOMAIN open = 1..Len(open)
  BY Numbers DEF StructureInv
<1>2. lines'[c + 1] = word /\ \A i \in 1..c : lines'[i] = lines[i]
  BY <1>1, OneLineMore DEF Extends
<1>3. Structure!OpenAt(c)' = Structure!OpenAt(c)
  BY <1>1, OpenBefore
<1>4. \A s : s \in Structure!OpenAt(c) <=> \E k \in 1..Len(open) : s = open[k]
  BY <1>1, OpenAtEnd
<1>5. \A s : s \in Structure!OpenAt(c + 1)' <=> \E k \in 1..(last - 1) : s = open[k]
  BY <1>1, OpenBehind
<1> DEFINE ending == {s \in Structure!OpenAt(c) : word \in Language[lines'[s]].ends}
<1>6. ASSUME NEW k \in 1..Len(open)
      PROVE  /\ open[k] \in ending <=> k \in Structure!Endable(word)
             /\ open[k] \in Int
  <2>1. lines'[open[k]] = lines[open[k]] /\ open[k] \in Int
    BY <1>1, <1>2, Numbers
  <2>2. open[k] \in Structure!OpenAt(c)
    BY <1>4
  <2> QED BY <1>1, <2>1, <2>2 DEF Structure!Endable
<1>7. ASSUME NEW i \in 1..Len(open), NEW j \in 1..Len(open)
      PROVE  open[i] < open[j] <=> i < j
  <2>1. i < j => open[i] < open[j]
    BY <1>1 DEF StructureType, Structure!Ascending
  <2>2. j < i => open[j] < open[i]
    BY <1>1 DEF StructureType, Structure!Ascending
  <2>3. open[i] \in Int /\ open[j] \in Int
    BY <1>6
  <2>4. i = j => open[i] = open[j]
    OBVIOUS
  <2> QED BY <1>1, <2>1, <2>2, <2>3, <2>4
<1>8. open[last] \in ending
  BY <1>6
<1>9. ASSUME NEW e \in ending PROVE \E k \in 1..Len(open) : e = open[k] /\ k <= last
  <2>1. PICK k \in 1..Len(open) : e = open[k]
    BY <1>4
  <2>2. k \in Structure!Endable(word)
    BY <1>6, <2>1
  <2> QED BY <2>1, <2>2
<1>10. \A s \in Structure!OpenAt(c) : (\E e \in ending : s < e) <=> \E k \in 1..(last - 1) : s = open[k]
  <2> SUFFICES ASSUME NEW s \in Structure!OpenAt(c)
               PROVE  (\E e \in ending : s < e) <=> \E k \in 1..(last - 1) : s = open[k]
    OBVIOUS
  <2>1. PICK i \in 1..Len(open) : s = open[i]
    BY <1>4
  <2>2. ASSUME NEW e \in ending, s < e PROVE i \in 1..(last - 1)
    <3>1. PICK k \in 1..Len(open) : e = open[k] /\ k <= last
      BY <1>9
    <3>2. i < k
      BY <1>7, <2>1, <2>2, <3>1
    <3> QED BY <1>1, <3>1, <3>2
  <2>3. ASSUME NEW k \in 1..(last - 1), s = open[k] PROVE s < open[last]
    <3>1. k \in 1..Len(open) /\ k < last
      BY <1>1
    <3> QED BY <1>7, <2>3, <3>1
  <2> HIDE DEF ending
  <2> QED BY <1>8, <2>1, <2>2, <2>3
<1>11. \A k \in 1..(last - 1) : open[k] \in Structure!OpenAt(c)
  BY <1>1, <1>4
<1> HIDE DEF ending
<1>12. Structure!OpenAt(c + 1)' = {s \in Structure!OpenAt(c) : ending # {} => \E e \in ending : s < e}
  BY <1>5, <1>8, <1>10, <1>11
<1> QED BY <1>2, <1>3, <1>12 DEF FollowsLine, Structure!Opens, ending

LEMMA StructureExtends ==
  ASSUME StructureInv, NEW word, NEW depth, NEW new, Extends(word, depth, new),
         \A c : c = Len(lines) => FollowsLine(c)'
  PROVE  StructureInv'
<1>1. StructureType /\ OpenedOnce /\ Len(lines) \in Nat /\ Len(lines') = Len(lines) + 1
  BY Numbers, OneLineMore DEF StructureInv, Extends
<1>2. StructureType' /\ OpenedOnce'
  BY <1>1, ExtendsType, ExtendsOnce
<1>3. ASSUME NEW c \in 0..(Len(lines') - 1) PROVE FollowsLine(c)'
  <2>1. c \in 0..(Len(lines) - 1) \/ c = Len(lines)
    BY <1>1
  <2> QED BY <2>1, FollowsBefore
<1>4. (\A c \in 0..(Len(lines) - 1) : FollowsLine(c))'
  BY <1>3
<1> QED BY <1>2, <1>4 DEF StructureInv

LEMMA StructureStep ==
  ASSUME StructureInv, Structure!Next
  PROVE  StructureInv'
<1>1. PICK word \in Words : Structure!Write(word)
  BY DEF Structure!Next
<1>2. lines' = Append(lines, word)
  BY <1>1 DEF Structure!Write
<1>3. StructureType /\ OpenedOnce
  BY DEF StructureInv
<1>4. CASE Structure!StartDefinition(word)
  <2>1. Extends(word, 0, 1) /\ Structure!Defines(word)
    BY <1>2, <1>3, <1>4, DefinitionCuts DEF Extends, Structure!StartDefinition, Structure!Defines
  <2>2. \A c : c = Len(lines) => FollowsLine(c)'
    BY <2>1, FollowsDefinition
  <2> QED BY <2>1, <2>2, StructureExtends
<1>5. CASE Structure!StartBlock(word)
  <2>1. Extends(word, Len(open), 1) /\ ~Structure!Defines(word) /\ open # <<>>
    BY <1>2, <1>3, <1>5, BlockCuts DEF Extends, Structure!StartBlock
  <2>2. \A c : c = Len(lines) => FollowsLine(c)'
    BY <2>1, FollowsBlock
  <2> QED BY <2>1, <2>2, StructureExtends
<1>6. CASE Structure!EndBlock(word) /\ ~Structure!Opens(word)
  <2>1. PICK last \in Structure!Endable(word) :
           /\ \A k \in Structure!Endable(word) : k <= last
           /\ last \in 1..Len(open) /\ Cut(last - 1, 0)
    BY <1>3, <1>6, EndCuts
  <2>2. Extends(word, last - 1, 0)
    BY <1>2, <2>1 DEF Extends
  <2>3. \A c : c = Len(lines) => FollowsLine(c)'
    BY <1>6, <2>1, <2>2, FollowsEnd
  <2> QED BY <2>2, <2>3, StructureExtends
<1>7. CASE Structure!OtherLine(word)
  <2>1. Extends(word, Len(open), 0)
    BY <1>2, <1>3, <1>7, LineCuts DEF Extends
  <2>2. \A c : c = Len(lines) => FollowsLine(c)'
    BY <1>7, <2>1, FollowsOther
  <2> QED BY <2>1, <2>2, StructureExtends
<1>8. Structure!EndBlock(word) => ~Structure!Opens(word)
  <2> SUFFICES ASSUME Structure!EndBlock(word), Structure!Opens(word) PROVE FALSE
    OBVIOUS
  <2>1. PICK k \in DOMAIN open : word \in Language[lines[open[k]]].ends
    BY DEF Structure!EndBlock, Structure!Endable
  <2>2. lines[open[k]] \in DOMAIN Language
    BY <1>3, <2>1 DEF StructureType, Structure!Opens
  <2>3. word \in DOMAIN Language
    BY DEF Structure!Opens
  <2> QED BY <2>1, <2>2, <2>3, LanguageAssumption DEF Structure!TablesFit
<1> QED BY <1>1, <1>4, <1>5, <1>6, <1>7, <1>8 DEF Structure!Write

LEMMA StructureInit ==
  ASSUME Structure!Init
  PROVE  StructureInv
<1>1. lines = <<>> /\ open = <<>> /\ ended = {}
  BY DEF Structure!Init
<1>2. Len(lines) = 0 /\ DOMAIN open = {} /\ open \in Seq(1..Len(lines)) /\ lines \in Seq(Words)
  BY <1>1
<1>3. 0..(Len(lines) - 1) = {}
  BY <1>2
<1> QED BY <1>1, <1>2, <1>3 DEF StructureInv, StructureType, OpenedOnce, Structure!Ascending

(* The documents: whatever is written, what is open behind a line follows   *)
(* from that line and from what was open before it (CompletionStructure).   *)
THEOREM DocumentIsWritten == CompletionSpec => []StructureInv
<1>1. CompletionInit => StructureInv
  BY StructureInit DEF CompletionInit
<1>2. StructureInv /\ [EditLine \/ WriteLines]_completionVars => StructureInv'
  <2> SUFFICES ASSUME StructureInv, [EditLine \/ WriteLines]_completionVars PROVE StructureInv'
    OBVIOUS
  <2>1. CASE WriteLines
    BY <2>1, StructureStep DEF WriteLines
  <2>2. CASE UNCHANGED <<lines, open, ended>>
    <3>1. lines' = lines /\ open' = open /\ ended' = ended
      BY <2>2
    <3>2. StructureType' <=> StructureType
      BY <3>1 DEF StructureType, Structure!Ascending, Structure!Opens
    <3>3. OpenedOnce' <=> OpenedOnce
      BY <3>1 DEF OpenedOnce
    <3>4. ASSUME NEW c PROVE FollowsLine(c)' <=> FollowsLine(c)
      <4>1. \A d : Structure!OpenAt(d)' = Structure!OpenAt(d)
        BY <3>1 DEF Structure!OpenAt
      <4> QED BY <3>1, <4>1 DEF FollowsLine, Structure!Opens, Structure!Defines
    <3>5. (\A c \in 0..(Len(lines) - 1) : FollowsLine(c))' <=> \A c \in 0..(Len(lines) - 1) : FollowsLine(c)
      BY <3>1, <3>4
    <3> QED BY <3>2, <3>3, <3>5 DEF StructureInv
  <2> QED BY <2>1, <2>2 DEF EditLine, completionVars, structureVars
<1> QED BY <1>1, <1>2, PTL DEF CompletionSpec
-----------------------------------------------------------------------------
(* The tables of the code, and the language.                                *)

AllKinds == UNION {Language[word].kinds : word \in DOMAIN Language}

LEMMA Tables ==
  /\ DOMAIN Structure!HeaderKind = {word \in DOMAIN Language : "END" \in Language[word].ends}
  /\ \A word \in DOMAIN Structure!HeaderKind :
       Language[word].kinds = {Structure!HeaderKind[word]}
  /\ DOMAIN Structure!LexicalOpener = {word \in DOMAIN Language : "END" \notin Language[word].ends}
  /\ \A word \in DOMAIN Structure!LexicalOpener :
       Language[word].kinds = {Structure!LexicalOpener[word]} \cup
         IF word = "PRESS" THEN {"start_softkey_press_event"} ELSE {}
  /\ \A word \in DOMAIN Language, kind \in AllKinds :
       kind \in Language[word].kinds => Structure!ExpectedTerminators[kind] = Language[word].ends
  /\ \A kind \in AllKinds :
       kind \in Structure!TopLevel <=> "END" \in Structure!ExpectedTerminators[kind]
  /\ \A word : word \in DOMAIN Structure!LexicalClosers <=>
                 word # "END" /\ \E v \in DOMAIN Language : word \in Language[v].ends
  /\ \A word \in DOMAIN Structure!LexicalClosers, kind \in AllKinds :
       kind \in Structure!LexicalClosers[word] <=> word \in Structure!ExpectedTerminators[kind]
  /\ "END" \notin DOMAIN Language
  /\ \A v \in DOMAIN Language : \A word \in Language[v].ends : word \notin DOMAIN Language
BY LanguageAssumption DEF Structure!TablesFit, AllKinds

LEMMA WordFacts ==
  ASSUME NEW word
  PROVE  /\ word = "END" => ~Structure!Opens(word)
         /\ word \in DOMAIN Structure!HeaderKind <=> Structure!Defines(word)
         /\ word \in DOMAIN Structure!LexicalOpener <=> (Structure!Opens(word) /\ ~Structure!Defines(word))
         /\ word \in DOMAIN Structure!LexicalClosers => (~Structure!Opens(word) /\ word # "END")
         /\ (word # "END" /\ word \notin DOMAIN Structure!LexicalClosers) =>
              \A v \in DOMAIN Language : word \notin Language[v].ends
<1> HIDE DEF Structure!HeaderKind, Structure!LexicalOpener, Structure!LexicalClosers
<1> QED BY Tables DEF Structure!Opens, Structure!Defines

LEMMA KindFacts ==
  ASSUME NEW v \in DOMAIN Language, NEW kind \in Language[v].kinds
  PROVE  /\ Structure!ExpectedTerminators[kind] = Language[v].ends
         /\ kind \in Structure!TopLevel <=> Structure!Defines(v)
         /\ kind \in Structure!TopLevel <=> "END" \in Language[v].ends
         /\ \A word \in DOMAIN Structure!LexicalClosers :
              kind \in Structure!LexicalClosers[word] <=> word \in Language[v].ends
<1>1. kind \in AllKinds
  BY DEF AllKinds
<1> QED BY <1>1, Tables DEF Structure!Opens, Structure!Defines
-----------------------------------------------------------------------------
(* The scan, one line after the other.                                      *)

IsLineScan(tree, l, n, f) ==
  f = [i \in 0..n |-> IF i = 0 THEN <<>> ELSE Structure!AfterLine(tree, l, f[i - 1], i)]

LEMMA LineScanExists ==
  ASSUME NEW tree, NEW l, NEW n \in Nat
  PROVE  \E f : IsLineScan(tree, l, n, f)
<1> DEFINE T == {m \in Nat : \E f : IsLineScan(tree, l, m, f)}
           After(x, i) == Structure!AfterLine(tree, l, x, i)
<1>1. 0 \in T
  <2> DEFINE f == [i \in 0..0 |-> <<>>]
  <2>1. \A i \in 0..0 : i = 0
    OBVIOUS
  <2>2. IsLineScan(tree, l, 0, f)
    BY <2>1 DEF IsLineScan
  <2> QED BY <2>2
<1>2. ASSUME NEW m \in Nat, m \in T PROVE m + 1 \in T
  <2>1. PICK g : IsLineScan(tree, l, m, g)
    BY <1>2
  <2> DEFINE h == [i \in 0..(m + 1) |-> IF i = m + 1 THEN After(g[m], i) ELSE g[i]]
  <2>2. \A i \in 0..m : g[i] = IF i = 0 THEN <<>> ELSE After(g[i - 1], i)
    BY <2>1 DEF IsLineScan
  <2> HIDE DEF After
  <2>3. ASSUME NEW i \in 0..(m + 1)
        PROVE  h[i] = IF i = 0 THEN <<>> ELSE After(h[i - 1], i)
    <3>1. CASE i = m + 1
      <4>1. h[m] = g[m] /\ m + 1 # 0 /\ i - 1 = m /\ h[i] = After(g[m], i)
        BY <3>1
      <4> QED BY <3>1, <4>1
    <3>2. CASE i # m + 1
      <4>1. i \in 0..m /\ h[i] = g[i] /\ (i # 0 => i - 1 \in 0..(m + 1) /\ i - 1 # m + 1)
        BY <3>2
      <4>2. i # 0 => h[i - 1] = g[i - 1]
        BY <4>1
      <4> QED BY <2>2, <4>1, <4>2
    <3> QED BY <3>1, <3>2
  <2>4. h = [i \in 0..(m + 1) |-> IF i = 0 THEN <<>> ELSE After(h[i - 1], i)]
    BY <2>3
  <2>5. IsLineScan(tree, l, m + 1, h)
    BY <2>4 DEF IsLineScan, After
  <2> QED BY <2>5
<1> HIDE DEF T
<1>3. Nat \subseteq T
  BY <1>1, <1>2, SetInduction
<1> QED BY <1>3 DEF T

LineScan(tree, l) == CHOOSE f : IsLineScan(tree, l, Len(l), f)

LEMMA LineScanStep ==
  ASSUME NEW tree, NEW l, Len(l) \in Nat
  PROVE  /\ Structure!LexicalBlocks(tree, l) = LineScan(tree, l)[Len(l)]
         /\ LineScan(tree, l)[0] = <<>>
         /\ \A i \in 1..Len(l) :
              LineScan(tree, l)[i] = Structure!AfterLine(tree, l, LineScan(tree, l)[i - 1], i)
<1> DEFINE f == LineScan(tree, l)
           After(x, i) == Structure!AfterLine(tree, l, x, i)
<1>1. IsLineScan(tree, l, Len(l), f)
  <2>1. \E g : IsLineScan(tree, l, Len(l), g)
    BY LineScanExists
  <2> QED BY <2>1, Zenon DEF LineScan
<1>2. Structure!LexicalBlocks(tree, l) = f[Len(l)]
  BY Zenon DEF Structure!LexicalBlocks, LineScan, IsLineScan
<1>3. f = [i \in 0..Len(l) |-> IF i = 0 THEN <<>> ELSE After(f[i - 1], i)]
  BY <1>1 DEF IsLineScan
<1> HIDE DEF f, After
<1>4. f[0] = <<>>
  <2>1. 0 \in 0..Len(l)
    OBVIOUS
  <2> QED BY <1>3, <2>1
<1>5. \A i \in 1..Len(l) : f[i] = After(f[i - 1], i)
  <2>1. \A i \in 1..Len(l) : i \in 0..Len(l) /\ i # 0
    OBVIOUS
  <2> QED BY <1>3, <2>1
<1> QED BY <1>2, <1>4, <1>5 DEF f, After

(* What the parser may know of the blocks that lines open.                  *)
Fits(tree) ==
  /\ \A n \in tree : n.start \in 1..Len(lines) /\ n.kind \in Language[lines[n.start]].kinds
  /\ \A n, m \in tree : n.start = m.start => n = m

(* A block is of the kind of its node, if there is one.                     *)
AsKnown(tree, b) == \A n \in tree : n.start = b.start => n.kind = b.kind

(* The blocks the scan has found are those that are open behind line i, of  *)
(* the kinds the tree says, where it knows them.                            *)
BlocksFit(tree, blocks, i) ==
  /\ blocks \in Seq([kind : AllKinds, start : 1..i])
  /\ \A k \in 1..Len(blocks) :
       /\ blocks[k].kind \in Language[lines[blocks[k].start]].kinds
       /\ Structure!Opens(lines[blocks[k].start])
       /\ Structure!Defines(lines[blocks[k].start]) <=> k = 1
       /\ AsKnown(tree, blocks[k])
  /\ \A s : s \in Structure!OpenAt(i) <=> \E k \in 1..Len(blocks) : blocks[k].start = s
  /\ \A j, k \in 1..Len(blocks) : j < k => blocks[j].start < blocks[k].start

LEMMA BlocksAreBlocks ==
  ASSUME NEW tree, NEW i \in Nat, NEW blocks, BlocksFit(tree, blocks, i)
  PROVE  /\ Len(blocks) \in Nat /\ DOMAIN blocks = 1..Len(blocks)
         /\ \A k \in 1..Len(blocks) :
              blocks[k] \in [kind : AllKinds, start : 1..(i + 1)] /\ blocks[k].start \in 1..i
         /\ blocks \in Seq([kind : AllKinds, start : 1..(i + 1)])
<1> DEFINE Old == [kind : AllKinds, start : 1..i]
           New == [kind : AllKinds, start : 1..(i + 1)]
<1>1. blocks \in Seq(Old)
  BY DEF BlocksFit
<1>2. \A b \in Old : b \in New /\ b.start \in 1..i
  <2>1. \A n \in 1..i : n \in 1..(i + 1)
    OBVIOUS
  <2> QED BY <2>1
<1> HIDE DEF Old, New
<1>3. /\ Len(blocks) \in Nat /\ DOMAIN blocks = 1..Len(blocks)
      /\ \A k \in 1..Len(blocks) : blocks[k] \in Old
  BY <1>1
<1>4. \A k \in 1..Len(blocks) : blocks[k] \in New /\ blocks[k].start \in 1..i
  BY <1>2, <1>3
<1>5. blocks \in Seq(New)
  BY <1>1, <1>3, <1>4
<1> QED BY <1>3, <1>4, <1>5 DEF New

LEMMA NothingOpen ==
  ASSUME StructureInv, NEW tree
  PROVE  BlocksFit(tree, <<>>, 0)
<1>1. StructureType
  BY DEF StructureInv
<1>2. \A s : s \notin Structure!OpenAt(0)
  <2> SUFFICES ASSUME NEW s, s \in Structure!OpenAt(0) PROVE FALSE
    OBVIOUS
  <2>1. \A e \in ended : ~(e.from <= 0)
    BY <1>1, Numbers
  <2>2. \A k \in 1..Len(open) : ~(open[k] <= 0)
    BY <1>1, Numbers
  <2> QED BY <1>1, <2>1, <2>2, OpenAtIs
<1>3. <<>> \in Seq([kind : AllKinds, start : 1..0]) /\ Len(<<>>) = 0 /\ 1..0 = {}
  OBVIOUS
<1> QED BY <1>2, <1>3 DEF BlocksFit

LEMMA PopsEnd ==
  ASSUME StructureInv, NEW i \in 0..(Len(lines) - 1), NEW tree, NEW blocks,
         BlocksFit(tree, blocks, i), NEW kinds,
         ~Structure!Opens(lines[i + 1]),
         \A k \in 1..Len(blocks) : blocks[k].kind \in kinds <=>
           lines[i + 1] \in Language[lines[blocks[k].start]].ends
  PROVE  BlocksFit(tree, Structure!PopLexical(blocks, kinds), i + 1)
<1> DEFINE Block == [kind : AllKinds, start : 1..(i + 1)]
           found == {k \in 1..Len(blocks) : blocks[k].kind \in kinds}
           start(k) == blocks[k].start
<1>1. /\ Len(blocks) \in Nat /\ DOMAIN blocks = 1..Len(blocks) /\ blocks \in Seq(Block)
      /\ \A k \in 1..Len(blocks) : blocks[k] \in Block /\ start(k) \in 1..i
      /\ i \in Nat
  <2>1. i \in Nat
    OBVIOUS
  <2> QED BY <2>1, BlocksAreBlocks
<1>2. FollowsLine(i)
  BY DEF StructureInv
<1> DEFINE before == Structure!OpenAt(i)
           ending == {s \in before : lines[i + 1] \in Language[lines[s]].ends}
<1>3. Structure!OpenAt(i + 1) = {s \in before : ending # {} => \E e \in ending : s < e}
  BY <1>2 DEF FollowsLine
<1>4. \A s : s \in before <=> \E k \in 1..Len(blocks) : start(k) = s
  BY DEF BlocksFit
<1>5. \A s : s \in ending <=> \E k \in found : start(k) = s
  BY <1>4
<1>6. Structure!PopLexical(blocks, kinds) =
        IF found = {} THEN blocks ELSE SubSeq(blocks, 1, Max(found) - 1)
  BY <1>1 DEF Structure!PopLexical, Structure!Max, Max
<1>7. \A j, k \in 1..Len(blocks) : j < k => start(j) < start(k)
  BY DEF BlocksFit
<1>8. \A k \in found : k \in 1..Len(blocks)
  OBVIOUS
<1>9. found \in SUBSET (0..Len(blocks))
  BY <1>1
<1> HIDE DEF found
<1>10. CASE found = {}
  <2>1. ending = {}
    BY <1>5, <1>10
  <2>2. Structure!OpenAt(i + 1) = Structure!OpenAt(i)
    BY <1>3, <2>1
  <2>3. Structure!PopLexical(blocks, kinds) = blocks
    BY <1>6, <1>10
  <2> HIDE DEF before, ending
  <2>4. BlocksFit(tree, blocks, i + 1)
    BY <1>1, <2>2 DEF BlocksFit
  <2> QED BY <2>3, <2>4
<1>11. CASE found # {}
  <2> DEFINE m == Max(found)
             new == SubSeq(blocks, 1, m - 1)
  <2>1. m \in found /\ \A k \in found : m >= k
    BY <1>1, <1>9, <1>11, MaximumOf
  <2>2. m \in 1..Len(blocks) /\ \A k \in found : k <= m
    BY <1>1, <1>8, <2>1
  <2>3. Structure!PopLexical(blocks, kinds) = new
    BY <1>6, <1>11
  <2> HIDE DEF m
  <2>4. /\ new \in Seq(Block) /\ Len(new) = m - 1
        /\ \A k \in 1..(m - 1) : new[k] = blocks[k] /\ k \in 1..Len(blocks)
    <3> DEFINE d == m - 1
    <3>1. d \in 0..Len(blocks)
      BY <1>1, <2>2
    <3> HIDE DEF Block, d
    <3>2. SubSeq(blocks, 1, d) \in Seq(Block) /\ Len(SubSeq(blocks, 1, d)) = d
          /\ \A k \in 1..d : SubSeq(blocks, 1, d)[k] = blocks[k] /\ k \in 1..Len(blocks)
      BY <1>1, <3>1
    <3> QED BY <3>2 DEF d
  <2> HIDE DEF new
  <2>5. ASSUME NEW j \in 1..Len(blocks)
        PROVE  (\E e \in ending : start(j) < e) <=> j \in 1..(m - 1)
    <3>1. ASSUME NEW e \in ending, start(j) < e PROVE j < m
      <4>1. PICK k \in found : start(k) = e
        BY <1>5
      <4>2. k \in 1..Len(blocks) /\ k <= m /\ m \in 1..Len(blocks)
        BY <1>8, <2>2, <4>1
      <4>3. ~(k < j) /\ k # j
        <5>1. start(j) < start(k) /\ start(j) \in Int /\ start(k) \in Int
          BY <1>1, <3>1, <4>1, <4>2
        <5>2. k < j => start(k) < start(j)
          BY <1>7, <4>2
        <5> HIDE DEF start
        <5> QED BY <5>1, <5>2
      <4> QED BY <1>1, <4>2, <4>3
    <3>2. ASSUME j < m PROVE \E e \in ending : start(j) < e
      <4>1. start(m) \in ending
        BY <1>5, <2>1
      <4>2. start(j) < start(m)
        BY <1>7, <2>2, <3>2
      <4> QED BY <4>1, <4>2
    <3>3. j \in 1..(m - 1) <=> j < m
      BY <1>1, <2>2
    <3> QED BY <3>1, <3>2, <3>3
  <2>6. ending # {}
    BY <1>5, <2>1
  <2>7. \A s : s \in Structure!OpenAt(i + 1) <=> \E k \in 1..Len(new) : new[k].start = s
    <3>1. \A s : s \in Structure!OpenAt(i + 1) <=> s \in before /\ \E e \in ending : s < e
      BY <1>3, <2>6
    <3> HIDE DEF before, ending
    <3>2. \A s : s \in Structure!OpenAt(i + 1) <=>
                   \E k \in 1..Len(blocks) : start(k) = s /\ k \in 1..(m - 1)
      BY <1>4, <2>5, <3>1
    <3> QED BY <2>4, <3>2
  <2>8. \A k \in 1..Len(new) :
       /\ new[k].kind \in Language[lines[new[k].start]].kinds
       /\ Structure!Opens(lines[new[k].start])
       /\ Structure!Defines(lines[new[k].start]) <=> k = 1
       /\ AsKnown(tree, new[k])
    BY <2>4 DEF BlocksFit
  <2>9. \A j, k \in 1..Len(new) : j < k => new[j].start < new[k].start
    BY <1>7, <2>4
  <2> QED BY <2>3, <2>4, <2>7, <2>8, <2>9 DEF BlocksFit
<1> QED BY <1>10, <1>11

LEMMA OpenerFits ==
  ASSUME NEW tree, Fits(tree), NEW i \in 1..Len(lines),
         Structure!Opens(lines[i]), ~Structure!Defines(lines[i])
  PROVE  /\ Structure!OpenedKind(tree, lines[i], i) \in Language[lines[i]].kinds
         /\ \A n \in tree : n.start = i => n.kind = Structure!OpenedKind(tree, lines[i], i)
<1>1. lines[i] \in DOMAIN Structure!LexicalOpener
  BY WordFacts
<1>2. Structure!LexicalOpener[lines[i]] \in Language[lines[i]].kinds
  BY <1>1, Tables
<1>3. \A n \in tree : n.start = i =>
        \/ n.kind = Structure!LexicalOpener[lines[i]]
        \/ n.kind = "start_softkey_press_event" /\ lines[i] = "PRESS"
  BY <1>1, Tables DEF Fits
<1> HIDE DEF Structure!LexicalOpener
<1> QED BY <1>2, <1>3 DEF Structure!OpenedKind, Fits

LEMMA OpensBlock ==
  ASSUME StructureInv, NEW i \in 0..(Len(lines) - 1), NEW tree, NEW blocks,
         BlocksFit(tree, blocks, i),
         Structure!Opens(lines[i + 1]), ~Structure!Defines(lines[i + 1]),
         NEW kind \in Language[lines[i + 1]].kinds, \A n \in tree : n.start = i + 1 => n.kind = kind
  PROVE  BlocksFit(tree, Append(blocks, [kind |-> kind, start |-> i + 1]), i + 1)
<1> DEFINE Block == [kind : AllKinds, start : 1..(i + 1)]
           block == [kind |-> kind, start |-> i + 1]
           new == Append(blocks, block)
<1>1. /\ Len(blocks) \in Nat /\ blocks \in Seq(Block) /\ block \in Block /\ i \in Nat
      /\ \A k \in 1..Len(blocks) : blocks[k].start \in 1..i
  <2>1. i \in Nat
    OBVIOUS
  <2>2. kind \in AllKinds /\ i + 1 \in 1..(i + 1)
    BY <2>1 DEF AllKinds, Structure!Opens
  <2>3. block \in Block
    BY <2>2
  <2> HIDE DEF block
  <2> QED BY <2>1, <2>3, BlocksAreBlocks
<1>2. FollowsLine(i)
  BY DEF StructureInv
<1>3. Structure!OpenAt(i) # {} /\ Structure!OpenAt(i + 1) = Structure!OpenAt(i) \cup {i + 1}
  BY <1>2 DEF FollowsLine
<1>4. block.start = i + 1 /\ block.kind = kind /\ AsKnown(tree, block)
  BY DEF AsKnown
<1> HIDE DEF Block, block
<1>5. /\ new \in Seq(Block) /\ Len(new) = Len(blocks) + 1
      /\ \A k \in 1..Len(blocks) : new[k] = blocks[k]
      /\ new[Len(blocks) + 1] = block
  BY <1>1
<1> HIDE DEF new
<1>6. /\ \A k \in 1..Len(new) : k \in 1..Len(blocks) \/ k = Len(blocks) + 1
      /\ \A k \in 1..Len(blocks) : k \in 1..Len(new) /\ k # Len(blocks) + 1
      /\ Len(blocks) + 1 \in 1..Len(new)
  BY <1>1, <1>5
<1>7. Len(blocks) # 0
  <2>1. \E s : s \in Structure!OpenAt(i)
    BY <1>3
  <2>2. \E k \in 1..Len(blocks) : TRUE
    BY <2>1 DEF BlocksFit
  <2> QED BY <2>2
<1>8. \A k \in 1..Len(new) :
       /\ new[k].kind \in Language[lines[new[k].start]].kinds
       /\ Structure!Opens(lines[new[k].start])
       /\ Structure!Defines(lines[new[k].start]) <=> k = 1
       /\ AsKnown(tree, new[k])
  <2> SUFFICES ASSUME NEW k \in 1..Len(new)
               PROVE  /\ new[k].kind \in Language[lines[new[k].start]].kinds
                      /\ Structure!Opens(lines[new[k].start])
                      /\ Structure!Defines(lines[new[k].start]) <=> k = 1
                      /\ AsKnown(tree, new[k])
    OBVIOUS
  <2>1. CASE k \in 1..Len(blocks)
    BY <1>5, <2>1 DEF BlocksFit
  <2>2. CASE k = Len(blocks) + 1
    <3>1. k # 1
      BY <1>1, <1>7, <2>2
    <3> QED BY <1>4, <1>5, <2>2, <3>1
  <2> QED BY <1>6, <2>1, <2>2
<1>9. \A s : s \in Structure!OpenAt(i + 1) <=> \E k \in 1..Len(new) : new[k].start = s
  <2>1. \A s : s \in Structure!OpenAt(i) <=> \E k \in 1..Len(blocks) : new[k].start = s
    <3>1. \A s : s \in Structure!OpenAt(i) <=> \E k \in 1..Len(blocks) : blocks[k].start = s
      BY DEF BlocksFit
    <3> QED BY <1>5, <3>1
  <2> QED BY <1>3, <1>4, <1>5, <1>6, <2>1
<1>10. \A j, k \in 1..Len(new) : j < k => new[j].start < new[k].start
  <2> SUFFICES ASSUME NEW j \in 1..Len(new), NEW k \in 1..Len(new), j < k
               PROVE  new[j].start < new[k].start
    OBVIOUS
  <2>1. j \in 1..Len(blocks) /\ new[j] = blocks[j]
    BY <1>1, <1>5, <1>6
  <2>2. CASE k \in 1..Len(blocks)
    BY <1>5, <2>1, <2>2 DEF BlocksFit
  <2>3. CASE k = Len(blocks) + 1
    <3>1. new[k].start = i + 1 /\ new[j].start \in 1..i
      BY <1>1, <1>4, <1>5, <2>1, <2>3
    <3> QED BY <1>1, <3>1
  <2> QED BY <1>6, <2>2, <2>3
<1>11. BlocksFit(tree, new, i + 1)
  BY <1>5, <1>8, <1>9, <1>10 DEF BlocksFit, Block
<1> QED BY <1>11 DEF new, block

LEMMA StartsDefinition ==
  ASSUME StructureInv, NEW i \in 0..(Len(lines) - 1), NEW tree, NEW blocks,
         BlocksFit(tree, blocks, i),
         Structure!Defines(lines[i + 1]), NEW kind \in Language[lines[i + 1]].kinds,
         \A n \in tree : n.start = i + 1 => n.kind = kind
  PROVE  BlocksFit(tree, Structure!ReplaceTopLevel(blocks, [kind |-> kind, start |-> i + 1]), i + 1)
<1> DEFINE block == [kind |-> kind, start |-> i + 1]
           found == {k \in 1..Len(blocks) : blocks[k].kind \in Structure!TopLevel}
<1>1. /\ Len(blocks) \in Nat /\ DOMAIN blocks = 1..Len(blocks) /\ i \in Nat
      /\ blocks \in Seq([kind : AllKinds, start : 1..i])
  BY DEF BlocksFit
<1>2. Structure!OpenAt(i + 1) = {} \cup {i + 1}
  <2>1. FollowsLine(i)
    BY DEF StructureInv
  <2> QED BY <2>1 DEF FollowsLine, Structure!Defines
<1>3. \A k \in 1..Len(blocks) : blocks[k].kind \in Structure!TopLevel <=> k = 1
  <2> SUFFICES ASSUME NEW k \in 1..Len(blocks)
               PROVE  blocks[k].kind \in Structure!TopLevel <=> k = 1
    OBVIOUS
  <2>1. /\ blocks[k].kind \in Language[lines[blocks[k].start]].kinds
        /\ lines[blocks[k].start] \in DOMAIN Language
        /\ Structure!Defines(lines[blocks[k].start]) <=> k = 1
    BY DEF BlocksFit, Structure!Opens
  <2> QED BY <2>1, KindFacts
<1>4. Structure!PopLexical(blocks, Structure!TopLevel) = <<>>
  <2>1. Structure!PopLexical(blocks, Structure!TopLevel) =
          IF found = {} THEN blocks ELSE SubSeq(blocks, 1, Max(found) - 1)
    BY <1>1 DEF Structure!PopLexical, Structure!Max, Max
  <2>2. CASE Len(blocks) = 0
    <3>1. found = {} /\ blocks = <<>>
      BY <1>1, <2>2
    <3> QED BY <2>1, <3>1
  <2>3. CASE Len(blocks) # 0
    <3>1. 1 \in found /\ \A k \in found : k = 1
      BY <1>1, <1>3, <2>3
    <3>2. Max(found) = 1
      <4>1. found \in SUBSET (0..1) /\ \A k \in found : 1 >= k
        BY <3>1
      <4> HIDE DEF found
      <4> QED BY <3>1, <4>1, MaximumIs
    <3>3. found # {} /\ Max(found) - 1 = 0
      BY <3>1, <3>2
    <3> HIDE DEF found
    <3>4. SubSeq(blocks, 1, 0) = <<>>
      BY <1>1
    <3> QED BY <2>1, <3>3, <3>4
  <2> QED BY <2>2, <2>3
<1>5. Structure!ReplaceTopLevel(blocks, block) = <<block>>
  <2>1. Structure!ReplaceTopLevel(blocks, block) = Append(<<>>, block)
    BY <1>4 DEF Structure!ReplaceTopLevel
  <2> HIDE DEF block
  <2> QED BY <2>1
<1>6. block \in [kind : AllKinds, start : 1..(i + 1)]
  <2>1. kind \in AllKinds /\ i + 1 \in 1..(i + 1)
    BY <1>1 DEF AllKinds, Structure!Defines, Structure!Opens
  <2> QED BY <2>1
<1>7. block.start = i + 1 /\ block.kind = kind /\ AsKnown(tree, block)
  BY DEF AsKnown
<1> HIDE DEF block
<1>8. /\ <<block>> \in Seq([kind : AllKinds, start : 1..(i + 1)]) /\ Len(<<block>>) = 1
      /\ <<block>>[1] = block
  BY <1>6
<1>9. \A k \in 1..1 : k = 1
  OBVIOUS
<1>10. 1 \in 1..1
  OBVIOUS
<1>11. Structure!Opens(lines[i + 1])
  BY DEF Structure!Defines
<1> DEFINE new == <<block>>
<1>12. new \in Seq([kind : AllKinds, start : 1..(i + 1)]) /\ Len(new) = 1 /\ new[1] = block
  BY <1>8
<1> HIDE DEF new
<1>13. BlocksFit(tree, new, i + 1)
  <2>1. \A s : s \in Structure!OpenAt(i + 1) <=> \E k \in 1..Len(new) : new[k].start = s
    BY <1>2, <1>7, <1>9, <1>10, <1>12
  <2> QED BY <1>7, <1>9, <1>11, <1>12, <2>1 DEF BlocksFit
<1> QED BY <1>5, <1>13 DEF new, block

LEMMA NothingEndsFits ==
  ASSUME StructureInv, NEW i \in 0..(Len(lines) - 1), NEW tree, NEW blocks,
         BlocksFit(tree, blocks, i),
         ~Structure!Opens(lines[i + 1]),
         \A v \in DOMAIN Language : lines[i + 1] \notin Language[v].ends
  PROVE  BlocksFit(tree, blocks, i + 1)
<1>1. Structure!PopLexical(blocks, {}) = blocks
  BY DEF Structure!PopLexical
<1>2. \A k \in 1..Len(blocks) : lines[i + 1] \notin Language[lines[blocks[k].start]].ends
  BY DEF BlocksFit, Structure!Opens
<1>3. BlocksFit(tree, Structure!PopLexical(blocks, {}), i + 1)
  BY <1>2, PopsEnd
<1> QED BY <1>1, <1>3

LEMMA AfterLineFits ==
  ASSUME StructureInv, NEW tree, Fits(tree), NEW i \in 0..(Len(lines) - 1),
         NEW blocks, BlocksFit(tree, blocks, i), NEW source, source[i + 1] = lines[i + 1]
  PROVE  BlocksFit(tree, Structure!AfterLine(tree, source, blocks, i + 1), i + 1)
<1> DEFINE word == lines[i + 1]
           After == Structure!AfterLine(tree, source, blocks, i + 1)
<1>1. i + 1 \in 1..Len(lines)
  BY Numbers DEF StructureInv
<1>2. \A k \in 1..Len(blocks) :
        /\ lines[blocks[k].start] \in DOMAIN Language
        /\ blocks[k].kind \in Language[lines[blocks[k].start]].kinds
  BY DEF BlocksFit, Structure!Opens
<1> DEFINE header == [kind |-> Structure!HeaderKind[word], start |-> i + 1]
           opener == [kind |-> Structure!OpenedKind(tree, word, i + 1), start |-> i + 1]
           IsTop == word = "END"
           IsHeader == word \in DOMAIN Structure!HeaderKind
           IsOpener == word \in DOMAIN Structure!LexicalOpener
           IsCloser == word \in DOMAIN Structure!LexicalClosers
<1>8. After =
        CASE IsTop -> Structure!PopLexical(blocks, Structure!TopLevel)
          [] IsHeader -> Structure!ReplaceTopLevel(blocks, header)
          [] IsOpener -> Append(blocks, opener)
          [] IsCloser -> Structure!PopLexical(blocks, Structure!LexicalClosers[word])
          [] OTHER -> blocks
  <2>1. source[i + 1] = word
    OBVIOUS
  <2> QED BY <2>1, Zenon DEF Structure!AfterLine
<1>9. /\ IsTop => ~IsHeader /\ ~IsOpener /\ ~IsCloser
      /\ IsHeader => ~IsOpener /\ ~IsCloser
      /\ IsOpener => ~IsCloser
  BY WordFacts DEF Structure!Defines
<1> SUFFICES BlocksFit(tree, After, i + 1)
  OBVIOUS
<1> HIDE DEF After, header, opener, IsTop, IsHeader, IsOpener, IsCloser
<1>10. /\ IsTop => After = Structure!PopLexical(blocks, Structure!TopLevel)
       /\ IsHeader => After = Structure!ReplaceTopLevel(blocks, header)
       /\ IsOpener => After = Append(blocks, opener)
       /\ IsCloser => After = Structure!PopLexical(blocks, Structure!LexicalClosers[word])
       /\ (~IsTop /\ ~IsHeader /\ ~IsOpener /\ ~IsCloser) => After = blocks
  BY <1>8, <1>9
<1> USE DEF IsTop, IsHeader, IsOpener, IsCloser
<1>3. CASE word = "END"
  <2>1. After = Structure!PopLexical(blocks, Structure!TopLevel)
    BY <1>3, <1>10
  <2>2. \A k \in 1..Len(blocks) : blocks[k].kind \in Structure!TopLevel <=>
           word \in Language[lines[blocks[k].start]].ends
    BY <1>2, <1>3, KindFacts
  <2>3. ~Structure!Opens(word)
    BY <1>3, WordFacts
  <2> QED BY <2>1, <2>2, <2>3, PopsEnd
<1>4. CASE word \in DOMAIN Structure!HeaderKind
  <2>1. Structure!Defines(word) /\ word # "END"
    BY <1>4, WordFacts DEF Structure!Defines
  <2>2. After = Structure!ReplaceTopLevel(blocks, [kind |-> Structure!HeaderKind[word], start |-> i + 1])
    BY <1>4, <1>10 DEF header
  <2>3. Structure!HeaderKind[word] \in Language[word].kinds
    BY <1>4, Tables
  <2>4. \A n \in tree : n.start = i + 1 => n.kind = Structure!HeaderKind[word]
    BY <1>4, Tables DEF Fits
  <2> QED BY <2>1, <2>2, <2>3, <2>4, StartsDefinition
<1>5. CASE word \in DOMAIN Structure!LexicalOpener
  <2>1. /\ Structure!Opens(word) /\ ~Structure!Defines(word) /\ word # "END"
        /\ word \notin DOMAIN Structure!HeaderKind
    BY <1>5, WordFacts
  <2>2. After = Append(blocks, [kind |-> Structure!OpenedKind(tree, word, i + 1), start |-> i + 1])
    BY <1>5, <1>10 DEF opener
  <2>3. /\ Structure!OpenedKind(tree, word, i + 1) \in Language[word].kinds
        /\ \A n \in tree : n.start = i + 1 => n.kind = Structure!OpenedKind(tree, word, i + 1)
    BY <1>1, <2>1, OpenerFits
  <2> QED BY <2>1, <2>2, <2>3, OpensBlock
<1>6. CASE word \in DOMAIN Structure!LexicalClosers
  <2>1. /\ ~Structure!Opens(word) /\ word # "END"
        /\ word \notin DOMAIN Structure!HeaderKind /\ word \notin DOMAIN Structure!LexicalOpener
    BY <1>6, WordFacts DEF Structure!Defines
  <2>2. After = Structure!PopLexical(blocks, Structure!LexicalClosers[word])
    BY <1>6, <1>10
  <2>3. \A k \in 1..Len(blocks) : blocks[k].kind \in Structure!LexicalClosers[word] <=>
           word \in Language[lines[blocks[k].start]].ends
    BY <1>2, <1>6, KindFacts
  <2> QED BY <2>1, <2>2, <2>3, PopsEnd
<1>7. CASE /\ word # "END" /\ word \notin DOMAIN Structure!HeaderKind
           /\ word \notin DOMAIN Structure!LexicalOpener
           /\ word \notin DOMAIN Structure!LexicalClosers
  <2>1. After = blocks
    BY <1>7, <1>10
  <2>2. ~Structure!Opens(word) /\ \A v \in DOMAIN Language : word \notin Language[v].ends
    BY <1>7, WordFacts
  <2> QED BY <2>1, <2>2, NothingEndsFits
<1> QED BY <1>3, <1>4, <1>5, <1>6, <1>7

(* The scan finds what is open before the cursor, whatever the tree.        *)
LEMMA ScanFits ==
  ASSUME StructureInv, NEW tree, Fits(tree), NEW c \in 0..Len(lines)
  PROVE  BlocksFit(tree, Structure!LexicalBlocks(tree, SubSeq(lines, 1, c)), c)
<1> DEFINE l == SubSeq(lines, 1, c)
           T == {i \in Nat : i <= c => BlocksFit(tree, LineScan(tree, l)[i], i)}
<1>1. Len(lines) \in Nat /\ lines \in Seq(Words)
  BY Numbers DEF StructureInv, StructureType
<1>2. c \in Nat /\ Len(l) = c /\ \A i \in 1..c : l[i] = lines[i]
  BY <1>1
<1> HIDE DEF l
<1>3. /\ Structure!LexicalBlocks(tree, l) = LineScan(tree, l)[c]
      /\ LineScan(tree, l)[0] = <<>>
      /\ \A i \in 1..c :
           LineScan(tree, l)[i] = Structure!AfterLine(tree, l, LineScan(tree, l)[i - 1], i)
  BY <1>2, LineScanStep
<1>4. 0 \in T
  BY <1>3, NothingOpen
<1>5. ASSUME NEW i \in Nat, i \in T PROVE i + 1 \in T
  <2> SUFFICES ASSUME i + 1 <= c PROVE BlocksFit(tree, LineScan(tree, l)[i + 1], i + 1)
    OBVIOUS
  <2>1. i \in 0..(Len(lines) - 1) /\ i + 1 \in 1..c /\ (i + 1) - 1 = i /\ i <= c
    BY <1>1, <1>2
  <2>2. BlocksFit(tree, LineScan(tree, l)[i], i)
    BY <1>5, <2>1
  <2>3. LineScan(tree, l)[i + 1] = Structure!AfterLine(tree, l, LineScan(tree, l)[i], i + 1)
    BY <1>3, <2>1
  <2>4. l[i + 1] = lines[i + 1]
    BY <1>2, <2>1
  <2> QED BY <2>1, <2>2, <2>3, <2>4, AfterLineFits
<1> HIDE DEF T
<1>6. Nat \subseteq T
  BY <1>4, <1>5, SetInduction
<1>7. c \in T /\ c <= c
  BY <1>2, <1>6
<1> QED BY <1>3, <1>7 DEF T, l
-----------------------------------------------------------------------------
(* The trees of a document: of each block at most one node.                 *)

NodesFrom(i) == UNION {Structure!Nodes(b) : b \in {x \in Structure!Blocks : x.from = i}}

IsGrowth(n, f) == f = [i \in 0..n |-> IF i = 0 THEN {{}} ELSE Structure!Grown(f[i - 1], i)]

LEMMA GrowthExists ==
  ASSUME NEW n \in Nat
  PROVE  \E f : IsGrowth(n, f)
<1> DEFINE T == {m \in Nat : \E f : IsGrowth(m, f)}
<1>1. 0 \in T
  <2> DEFINE f == [i \in 0..0 |-> {{}}]
  <2>1. \A i \in 0..0 : i = 0
    OBVIOUS
  <2>2. IsGrowth(0, f)
    BY <2>1 DEF IsGrowth
  <2> QED BY <2>2
<1>2. ASSUME NEW m \in Nat, m \in T PROVE m + 1 \in T
  <2>1. PICK g : IsGrowth(m, g)
    BY <1>2
  <2> DEFINE h == [i \in 0..(m + 1) |-> IF i = m + 1 THEN Structure!Grown(g[m], i) ELSE g[i]]
  <2>2. \A i \in 0..m : g[i] = IF i = 0 THEN {{}} ELSE Structure!Grown(g[i - 1], i)
    BY <2>1 DEF IsGrowth
  <2>3. ASSUME NEW i \in 0..(m + 1)
        PROVE  h[i] = IF i = 0 THEN {{}} ELSE Structure!Grown(h[i - 1], i)
    <3>1. CASE i = m + 1
      <4>1. h[m] = g[m] /\ m + 1 # 0 /\ i - 1 = m /\ h[i] = Structure!Grown(g[m], i)
        BY <3>1
      <4> QED BY <3>1, <4>1
    <3>2. CASE i # m + 1
      <4>1. i \in 0..m /\ h[i] = g[i] /\ (i # 0 => i - 1 \in 0..(m + 1) /\ i - 1 # m + 1)
        BY <3>2
      <4>2. i # 0 => h[i - 1] = g[i - 1]
        BY <4>1
      <4> QED BY <2>2, <4>1, <4>2
    <3> QED BY <3>1, <3>2
  <2>4. h = [i \in 0..(m + 1) |-> IF i = 0 THEN {{}} ELSE Structure!Grown(h[i - 1], i)]
    BY <2>3
  <2>5. IsGrowth(m + 1, h)
    BY <2>4 DEF IsGrowth
  <2> QED BY <2>5
<1> HIDE DEF T
<1>3. Nat \subseteq T
  BY <1>1, <1>2, SetInduction
<1> QED BY <1>3 DEF T

(* Nodes of the blocks of the first lines, no two of one block.             *)
IsTree(tree, i) ==
  /\ \A n \in tree : n.start \in 1..i /\ n \in NodesFrom(n.start)
  /\ \A n, m \in tree : n.start = m.start => n = m

LEMMA NodeStarts ==
  ASSUME NEW i, NEW n \in NodesFrom(i)
  PROVE  n.start = i
BY DEF NodesFrom, Structure!Nodes

LEMMA TreesAre ==
  ASSUME StructureInv, NEW tree \in Structure!Trees
  PROVE  IsTree(tree, Len(lines))
<1> DEFINE f == CHOOSE g : IsGrowth(Len(lines), g)
           T == {i \in Nat : i <= Len(lines) => \A t \in f[i] : IsTree(t, i)}
<1>1. Len(lines) \in Nat
  BY Numbers DEF StructureInv
<1>2. IsGrowth(Len(lines), f)
  <2>1. \E g : IsGrowth(Len(lines), g)
    BY <1>1, GrowthExists
  <2> QED BY <2>1, Zenon
<1>3. Structure!Trees = f[Len(lines)]
  BY Zenon DEF Structure!Trees, IsGrowth
<1> HIDE DEF f
<1>4. \A i \in 0..Len(lines) : f[i] = IF i = 0 THEN {{}} ELSE Structure!Grown(f[i - 1], i)
  BY <1>2 DEF IsGrowth
<1>5. 0 \in T
  <2>1. f[0] = {{}}
    BY <1>1, <1>4
  <2> QED BY <2>1 DEF IsTree
<1>6. ASSUME NEW i \in Nat, i \in T PROVE i + 1 \in T
  <2> SUFFICES ASSUME i + 1 <= Len(lines), NEW t \in f[i + 1] PROVE IsTree(t, i + 1)
    OBVIOUS
  <2>1. i + 1 \in 0..Len(lines) /\ i + 1 # 0 /\ (i + 1) - 1 = i /\ i <= Len(lines)
    BY <1>1
  <2>2. t \in Structure!Grown(f[i], i + 1)
    BY <1>4, <2>1
  <2>3. \A s \in f[i] : IsTree(s, i)
    BY <1>6, <2>1
  <2>4. \A k \in 1..i : k \in 1..(i + 1) /\ k # i + 1
    OBVIOUS
  <2>5. CASE t \in f[i]
    BY <2>3, <2>4, <2>5 DEF IsTree
  <2>6. ASSUME NEW s \in f[i], NEW n \in NodesFrom(i + 1), t = s \cup {n} PROVE IsTree(t, i + 1)
    <3>1. IsTree(s, i) /\ n.start = i + 1
      BY <2>3, <2>6, NodeStarts
    <3>2. i + 1 \in 1..(i + 1)
      OBVIOUS
    <3> QED BY <2>4, <2>6, <3>1, <3>2 DEF IsTree
  <2> QED BY <2>2, <2>5, <2>6 DEF Structure!Grown, NodesFrom
<1> HIDE DEF T
<1>7. Nat \subseteq T
  BY <1>5, <1>6, SetInduction
<1>8. Len(lines) \in T /\ Len(lines) <= Len(lines)
  BY <1>1, <1>7
<1> QED BY <1>3, <1>8 DEF T

LEMMA BlocksAre ==
  ASSUME StructureInv, NEW b \in Structure!Blocks
  PROVE  /\ b.from \in 1..Len(lines) /\ b.to \in 1..(Len(lines) + 1) /\ b.from < b.to
         /\ b \in ended \/ (b.to = Len(lines) + 1 /\ \E k \in 1..Len(open) : b.from = open[k])
         /\ Structure!Opens(lines[b.from])
         /\ b.whole \in BOOLEAN /\ (b.whole => b.to <= Len(lines))
<1>1. StructureType
  BY DEF StructureInv
<1>2. CASE b \in ended
  <2>1. /\ b \in [from : 1..Len(lines), to : 1..Len(lines), whole : BOOLEAN]
        /\ b.from < b.to /\ Structure!Opens(lines[b.from])
    BY <1>1, <1>2 DEF StructureType
  <2> QED BY <1>1, <1>2, <2>1, Numbers
<1>4. ASSUME NEW k \in DOMAIN open, b = Structure!Left(k, FALSE)
      PROVE  /\ b.from \in 1..Len(lines) /\ b.to \in 1..(Len(lines) + 1) /\ b.from < b.to
             /\ b \in ended \/ (b.to = Len(lines) + 1 /\ \E j \in 1..Len(open) : b.from = open[j])
             /\ Structure!Opens(lines[b.from])
             /\ b.whole \in BOOLEAN /\ (b.whole => b.to <= Len(lines))
  <2>1. b = [from |-> open[k], to |-> Len(lines) + 1, whole |-> FALSE]
    BY <1>4 DEF Structure!Left, Structure!Number
  <2>2. Len(lines) \in Nat /\ k \in 1..Len(open) /\ open[k] \in 1..Len(lines)
    BY <1>1, Numbers
  <2>3. b.from = open[k] /\ b.to = Len(lines) + 1 /\ b.whole = FALSE
    BY <2>1
  <2>4. Structure!Opens(lines[open[k]])
    BY <1>1 DEF StructureType
  <2>5. open[k] < Len(lines) + 1 /\ Len(lines) + 1 \in 1..(Len(lines) + 1)
    BY <2>2
  <2>6. \E j \in 1..Len(open) : b.from = open[j]
    BY <2>2, <2>3
  <2>7. b.whole \in BOOLEAN /\ ~b.whole
    BY <2>3
  <2> QED BY <2>2, <2>3, <2>4, <2>5, <2>6, <2>7
<1> QED BY <1>2, <1>4 DEF Structure!Blocks

LEMMA TreesFit ==
  ASSUME StructureInv, NEW tree \in Structure!Trees
  PROVE  Fits(tree)
<1>1. IsTree(tree, Len(lines))
  BY TreesAre
<1>2. ASSUME NEW n \in tree
      PROVE  n.start \in 1..Len(lines) /\ n.kind \in Language[lines[n.start]].kinds
  <2>1. n.start \in 1..Len(lines) /\ n \in NodesFrom(n.start)
    BY <1>1 DEF IsTree
  <2>2. PICK b \in Structure!Blocks : b.from = n.start /\ n \in Structure!Nodes(b)
    BY <2>1 DEF NodesFrom
  <2>3. n.kind \in Language[lines[b.from]].kinds
    BY <2>2 DEF Structure!Nodes
  <2> QED BY <2>1, <2>2, <2>3
<1> QED BY <1>1, <1>2 DEF Fits, IsTree

LEMMA BlocksAreFound ==
  ASSUME StructureInv
  PROVE  BlocksAreWhatIsOpen
<1> SUFFICES ASSUME NEW tree \in Structure!Trees, NEW c \in 0..Len(lines),
                    NEW blocks, blocks = Structure!LexicalBlocks(tree, SubSeq(lines, 1, c))
             PROVE  /\ \A i \in DOMAIN blocks : blocks[i].kind \in Language[lines[blocks[i].start]].kinds
                    /\ {blocks[i].start : i \in DOMAIN blocks} = Structure!OpenAt(c)
                    /\ Structure!Ascending([i \in DOMAIN blocks |-> blocks[i].start])
  BY Zenon DEF BlocksAreWhatIsOpen, Structure!BlocksAreWhatIsOpen, Structure!Cursors
<1>1. BlocksFit(tree, blocks, c)
  BY TreesFit, ScanFits
<1>2. DOMAIN blocks = 1..Len(blocks)
  BY <1>1 DEF BlocksFit
<1>3. \A i \in DOMAIN blocks : blocks[i].kind \in Language[lines[blocks[i].start]].kinds
  BY <1>1, <1>2 DEF BlocksFit
<1>4. {blocks[i].start : i \in DOMAIN blocks} = Structure!OpenAt(c)
  BY <1>1, <1>2 DEF BlocksFit
<1>5. \A j, k \in DOMAIN blocks : j < k => blocks[j].start < blocks[k].start
  BY <1>1, <1>2 DEF BlocksFit
<1>6. Structure!Ascending([i \in DOMAIN blocks |-> blocks[i].start])
  BY <1>5 DEF Structure!Ascending
<1> QED BY <1>3, <1>4, <1>6

(* Whatever the parser makes of the document, the scan of the lines before  *)
(* the cursor finds the blocks that are open there, innermost last, for     *)
(* documents of any length (analyzer.go, lexicalBlocks).                    *)
THEOREM BlocksAreRecovered == CompletionSpec => []BlocksAreWhatIsOpen
<1>1. StructureInv => BlocksAreWhatIsOpen
  BY BlocksAreFound
<1> QED BY <1>1, DocumentIsWritten, PTL
-----------------------------------------------------------------------------
(* The nodes around the cursor.                                             *)

LEMMA NodesAre ==
  ASSUME StructureInv, NEW tree \in Structure!Trees, NEW n \in tree
  PROVE  /\ n.start \in 1..Len(lines) /\ n.end \in 1..Len(lines) /\ n.start <= n.end
         /\ n.kind \in Language[lines[n.start]].kinds /\ Structure!Opens(lines[n.start])
         /\ \A c \in 0..Len(lines) : (n.start <= c /\ c < n.end) => n.start \in Structure!OpenAt(c)
<1>1. StructureType /\ Len(lines) \in Nat
  BY Numbers DEF StructureInv
<1>2. n.start \in 1..Len(lines) /\ n \in NodesFrom(n.start)
  BY TreesAre DEF IsTree
<1>3. PICK b \in Structure!Blocks : b.from = n.start /\ n \in Structure!Nodes(b)
  BY <1>2 DEF NodesFrom
<1>4. /\ b.from \in 1..Len(lines) /\ b.to \in 1..(Len(lines) + 1) /\ b.from < b.to
      /\ b \in ended \/ (b.to = Len(lines) + 1 /\ \E k \in 1..Len(open) : b.from = open[k])
      /\ Structure!Opens(lines[b.from])
      /\ b.whole \in BOOLEAN /\ (b.whole => b.to <= Len(lines))
  BY <1>3, BlocksAre
<1>5. /\ n.kind \in Language[lines[b.from]].kinds
      /\ n.end \in IF b.whole THEN {b.to} ELSE {b.from, b.to - 1}
  BY <1>3 DEF Structure!Nodes
<1>6. n.end \in 1..Len(lines) /\ b.from <= n.end /\ n.end <= b.to
  BY <1>1, <1>4, <1>5
<1>7. ASSUME NEW c \in 0..Len(lines), n.start <= c, c < n.end PROVE n.start \in Structure!OpenAt(c)
  <2>1. c < b.to /\ b.from <= c
    BY <1>1, <1>3, <1>4, <1>6, <1>7
  <2> QED BY <1>1, <1>3, <1>4, <2>1, OpenAtIs
<1> QED BY <1>2, <1>3, <1>4, <1>5, <1>6, <1>7

LEMMA AroundIs ==
  ASSUME StructureInv, NEW tree \in Structure!Trees, NEW c \in 0..Len(lines),
         NEW n \in Structure!Around(tree, lines, c)
  PROVE  /\ n \in tree
         /\ Structure!Inside(c) => n.start \in Structure!OpenAt(c)
         /\ n.start \in 1..c
<1>1. Len(lines) \in Nat
  BY Numbers DEF StructureInv
<1>2. n \in tree /\ (IF c = Len(lines) THEN n.end = c ELSE n.start <= c /\ c < n.end)
  BY DEF Structure!Around
<1>3. /\ n.start \in 1..Len(lines) /\ n.end \in 1..Len(lines) /\ n.start <= n.end
      /\ (n.start <= c /\ c < n.end) => n.start \in Structure!OpenAt(c)
  BY <1>2, NodesAre
<1> QED BY <1>1, <1>2, <1>3 DEF Structure!Inside

(* What is found before the cursor, and what is around it.                  *)
LEMMA BlocksOfScan ==
  ASSUME StructureInv, NEW tree \in Structure!Trees, NEW c \in 0..Len(lines),
         NEW blocks, blocks = Range(Structure!LexicalBlocks(tree, SubSeq(lines, 1, c)))
  PROVE  /\ \A b \in blocks :
              /\ b \in [kind : AllKinds, start : 1..c] /\ b.start \in Structure!OpenAt(c)
              /\ b.kind \in Language[lines[b.start]].kinds /\ Structure!Opens(lines[b.start])
              /\ AsKnown(tree, b)
         /\ \A s \in Structure!OpenAt(c) : \E b \in blocks : b.start = s
         /\ \A a, b \in blocks : a.start = b.start => a = b
         /\ \A a, b \in blocks : Structure!Defines(lines[a.start]) => a.start <= b.start
         /\ \A b \in blocks : \E a \in blocks : Structure!Defines(lines[a.start])
<1> DEFINE l == Structure!LexicalBlocks(tree, SubSeq(lines, 1, c))
<1>1. BlocksFit(tree, l, c)
  BY TreesFit, ScanFits
<1> HIDE DEF l
<1>2. DOMAIN l = 1..Len(l) /\ Len(l) \in Nat /\ l \in Seq([kind : AllKinds, start : 1..c])
  BY <1>1 DEF BlocksFit
<1>3. \A b : b \in blocks <=> \E k \in 1..Len(l) : b = l[k]
  BY <1>2 DEF Range, l
<1>4. \A j, k \in 1..Len(l) : j < k => l[j].start < l[k].start
  BY <1>1 DEF BlocksFit
<1>5. \A k \in 1..Len(l) : l[k] \in [kind : AllKinds, start : 1..c] /\ l[k].start \in Int
  <2> DEFINE Block == [kind : AllKinds, start : 1..c]
  <2>1. \A b \in Block : b.start \in Int
    OBVIOUS
  <2>4. l \in Seq(Block) /\ Len(l) \in Nat
    BY <1>2
  <2> HIDE DEF Block
  <2>2. \A k \in 1..Len(l) : l[k] \in Block
    BY <2>4
  <2>3. \A k \in 1..Len(l) : l[k].start \in Int
    BY <2>1, <2>2
  <2> QED BY <2>2, <2>3 DEF Block
<1>6. \A a, b \in blocks : a.start = b.start => a = b
  <2> SUFFICES ASSUME NEW j \in 1..Len(l), NEW k \in 1..Len(l), l[j].start = l[k].start
               PROVE  j = k
    BY <1>3
  <2> QED BY <1>2, <1>4, <1>5
<1>7. \A a, b \in blocks : Structure!Defines(lines[a.start]) => a.start <= b.start
  <2> SUFFICES ASSUME NEW j \in 1..Len(l), NEW k \in 1..Len(l), Structure!Defines(lines[l[j].start])
               PROVE  l[j].start <= l[k].start
    BY <1>3
  <2>1. j = 1
    BY <1>1 DEF BlocksFit
  <2>2. j = k \/ j < k
    BY <2>1
  <2> QED BY <1>4, <1>5, <2>2
<1>8. ASSUME NEW k \in 1..Len(l)
      PROVE  /\ l[k] \in [kind : AllKinds, start : 1..c] /\ l[k].start \in Structure!OpenAt(c)
             /\ l[k].kind \in Language[lines[l[k].start]].kinds /\ Structure!Opens(lines[l[k].start])
             /\ AsKnown(tree, l[k])
  BY <1>1, <1>5 DEF BlocksFit
<1>9. \A s \in Structure!OpenAt(c) : \E k \in 1..Len(l) : l[k].start = s
  BY <1>1 DEF BlocksFit
<1>10. ASSUME NEW k \in 1..Len(l) PROVE Structure!Defines(lines[l[1].start]) /\ 1 \in 1..Len(l)
  <2>1. 1 \in 1..Len(l)
    BY <1>2
  <2> QED BY <1>1, <2>1 DEF BlocksFit
<1> QED BY <1>3, <1>6, <1>7, <1>8, <1>9, <1>10

LEMMA ExpectedOf ==
  ASSUME StructureInv, NEW x, x.kind \in Language[lines[x.start]].kinds,
         Structure!Opens(lines[x.start])
  PROVE  Structure!ExpectedTerminators[x.kind] = Language[lines[x.start]].ends
BY KindFacts DEF Structure!Opens

LEMMA TerminatorsAre ==
  ASSUME StructureInv
  PROVE  TerminatorsAreExpected
<1> DEFINE Expected(c) == UNION {Language[lines[s]].ends : s \in Structure!OpenAt(c)}
           Offered(tree, c) == Structure!CompletionContext(tree, lines, c).terminators
<1>0. ASSUME \A tree \in Structure!Trees, c \in 0..Len(lines) :
               /\ Expected(c) \subseteq Offered(tree, c)
               /\ Structure!Inside(c) => Offered(tree, c) = Expected(c)
      PROVE  TerminatorsAreExpected
  BY <1>0, Zenon DEF TerminatorsAreExpected, Structure!TerminatorsAreExpected, Structure!Cursors
<1> HIDE DEF Expected, Offered
<1> SUFFICES ASSUME NEW tree \in Structure!Trees, NEW c \in 0..Len(lines),
                    NEW expected, expected = Expected(c), NEW offered, offered = Offered(tree, c)
             PROVE  expected \subseteq offered /\ (Structure!Inside(c) => offered = expected)
  BY <1>0
<1> DEFINE around == Structure!Around(tree, lines, c)
           blocks == Range(Structure!LexicalBlocks(tree, SubSeq(lines, 1, c)))
<1>1. offered = UNION {Structure!ExpectedTerminators[x.kind] : x \in around \cup blocks}
  BY DEF Offered, Structure!CompletionContext, Structure!Range, Range
<1>2. /\ \A b \in blocks :
              /\ b \in [kind : AllKinds, start : 1..c] /\ b.start \in Structure!OpenAt(c)
              /\ b.kind \in Language[lines[b.start]].kinds /\ Structure!Opens(lines[b.start])
      /\ \A s \in Structure!OpenAt(c) : \E b \in blocks : b.start = s
  BY BlocksOfScan
<1>3. \A n \in around :
        /\ Structure!Inside(c) => n.start \in Structure!OpenAt(c)
        /\ n.kind \in Language[lines[n.start]].kinds /\ Structure!Opens(lines[n.start])
  BY AroundIs, NodesAre
<1> HIDE DEF around, blocks
<1>4. \A x \in around \cup blocks :
        /\ Structure!ExpectedTerminators[x.kind] = Language[lines[x.start]].ends
        /\ Structure!Inside(c) => x.start \in Structure!OpenAt(c)
  BY <1>2, <1>3, ExpectedOf
<1>5. ASSUME NEW s \in Structure!OpenAt(c), NEW word \in Language[lines[s]].ends PROVE word \in offered
  <2>1. PICK b \in blocks : b.start = s
    BY <1>2
  <2> QED BY <1>1, <1>4, <2>1
<1>6. ASSUME Structure!Inside(c), NEW x \in around \cup blocks, NEW word \in Structure!ExpectedTerminators[x.kind]
      PROVE  word \in expected
  BY <1>4, <1>6 DEF Expected
<1> QED BY <1>1, <1>5, <1>6 DEF Expected

(* Completion offers the terminators of the blocks around the cursor, and   *)
(* none of a block that is over, in documents of any length (analyzer.go,   *)
(* expectedTerminators).                                                    *)
THEOREM TerminatorsAreRecovered == CompletionSpec => []TerminatorsAreExpected
<1>1. StructureInv => TerminatorsAreExpected
  BY TerminatorsAre
<1> QED BY <1>1, DocumentIsWritten, PTL
-----------------------------------------------------------------------------
(* The scopes in order: as many ranges come before one as it has before it. *)

LEMMA InOrderIs ==
  ASSUME NEW S, NEW c \in Nat, \A r \in S : r.start \in 1..c /\ r.end \in Int,
         \A r, q \in S : r.start = q.start => r = q
  PROVE  /\ Structure!InOrder(S) \in Seq(S)
         /\ \A r \in S : \E k \in 1..Len(Structure!InOrder(S)) : Structure!InOrder(S)[k] = r
         /\ \A j, k \in 1..Len(Structure!InOrder(S)) :
              j < k => Structure!InOrder(S)[j].start < Structure!InOrder(S)[k].start
<1> DEFINE Before(r) == {x \in S : Structure!OutermostFirst(x, r)}
           n == Cardinality(S)
           s == [k \in 1..n |-> CHOOSE r \in S : Cardinality(Before(r)) = k - 1]
<1>1. IsFiniteSet(S)
  <2> DEFINE f == [r \in S |-> r.start]
  <2>1. f \in Injection(S, 1..c)
    BY DEF Injection, IsInjective
  <2>2. IsFiniteSet(1..c)
    BY FS_Interval
  <2> HIDE DEF f
  <2> QED BY <2>1, <2>2, FS_Injection
<1>2. n \in Nat
  BY <1>1, FS_CardinalityType
<1>3. \A r, x \in S : x \in Before(r) <=> x.start < r.start
  <2> SUFFICES ASSUME NEW r \in S, NEW x \in S PROVE x \in Before(r) <=> x.start < r.start
    OBVIOUS
  <2>1. x.start \in Int /\ r.start \in Int /\ x.end \in Int /\ r.end \in Int
    OBVIOUS
  <2>2. x.start = r.start => ~(x.end > r.end)
    BY <2>1
  <2> QED BY <2>1, <2>2 DEF Structure!OutermostFirst
<1>4. \A r \in S : Before(r) \in SUBSET S
  OBVIOUS
<1> HIDE DEF Before, n
<1>5. \A r \in S : IsFiniteSet(Before(r)) /\ Cardinality(Before(r)) \in 0..(n - 1)
  <2> SUFFICES ASSUME NEW r \in S
               PROVE  IsFiniteSet(Before(r)) /\ Cardinality(Before(r)) \in 0..(n - 1)
    OBVIOUS
  <2>1. /\ IsFiniteSet(Before(r)) /\ Cardinality(Before(r)) <= n
        /\ n = Cardinality(Before(r)) => S = Before(r)
    BY <1>1, <1>4, FS_Subset DEF n
  <2>2. Cardinality(Before(r)) \in Nat
    BY <2>1, FS_CardinalityType
  <2>3. r \notin Before(r)
    <3>1. ~(r.start < r.start)
      OBVIOUS
    <3> QED BY <1>3, <3>1
  <2> QED BY <1>2, <2>1, <2>2, <2>3
<1>6. ASSUME NEW r \in S, NEW q \in S, r.start < q.start
      PROVE  Cardinality(Before(r)) < Cardinality(Before(q))
  <2>1. Before(r) \in SUBSET Before(q)
    BY <1>3, <1>4, <1>6
  <2>2. r \in Before(q) /\ r \notin Before(r)
    <3>1. ~(r.start < r.start)
      OBVIOUS
    <3> QED BY <1>3, <1>6, <3>1
  <2>3. /\ Cardinality(Before(r)) <= Cardinality(Before(q))
        /\ Cardinality(Before(q)) = Cardinality(Before(r)) => Before(q) = Before(r)
    BY <1>5, <2>1, FS_Subset
  <2> QED BY <1>2, <1>5, <2>2, <2>3
<1>7. \A k \in 1..n : \E r \in S : Cardinality(Before(r)) = k - 1
  <2> DEFINE rank == [r \in S |-> Cardinality(Before(r)) + 1]
  <2>1. \A r \in S : Cardinality(Before(r)) + 1 \in 1..n
    BY <1>2, <1>5
  <2>2. \A r, q \in S : rank[r] = rank[q] => r = q
    <3> SUFFICES ASSUME NEW r \in S, NEW q \in S, Cardinality(Before(r)) + 1 = Cardinality(Before(q)) + 1
                 PROVE  r = q
      OBVIOUS
    <3>1. Cardinality(Before(r)) = Cardinality(Before(q)) /\ Cardinality(Before(r)) \in Int
      BY <1>5
    <3>2. ~(r.start < q.start) /\ ~(q.start < r.start)
      BY <1>6, <3>1
    <3> QED BY <3>2
  <2>3. rank \in Injection(S, 1..n)
    BY <2>1, <2>2 DEF Injection, IsInjective
  <2>4. IsFiniteSet(1..n) /\ Cardinality(1..n) = n
    BY <1>2, FS_Interval
  <2>5. rank \in Surjection(S, 1..n)
    <3> HIDE DEF rank
    <3> QED BY <2>3, <2>4, FS_Injection DEF n
  <2>6. \A k \in 1..n : \E r \in S : rank[r] = k
    BY <2>5 DEF Surjection
  <2> SUFFICES ASSUME NEW k \in 1..n PROVE \E r \in S : Cardinality(Before(r)) = k - 1
    OBVIOUS
  <2>7. PICK r \in S : rank[r] = k
    BY <2>6
  <2> QED BY <1>5, <2>7
<1>8. \A k \in 1..n : s[k] \in S /\ Cardinality(Before(s[k])) = k - 1
  BY <1>7
<1>9. Structure!InOrder(S) = s
  BY Zenon DEF Structure!InOrder, n, Before, Structure!Cardinality, Cardinality, Structure!IsFiniteSet, IsFiniteSet
<1>10. s \in Seq(S) /\ Len(s) = n
  <2>1. DOMAIN s = 1..n
    OBVIOUS
  <2> HIDE DEF s
  <2>2. s = [k \in 1..n |-> s[k]]
    BY DEF s
  <2> QED BY <1>2, <1>8, <2>1, <2>2
<1> HIDE DEF s
<1>11. ASSUME NEW r \in S PROVE \E k \in 1..n : s[k] = r
  <2> DEFINE k == Cardinality(Before(r)) + 1
  <2>1. k \in 1..n /\ k - 1 = Cardinality(Before(r))
    BY <1>2, <1>5
  <2>2. s[k] \in S /\ Cardinality(Before(s[k])) = Cardinality(Before(r))
    BY <1>8, <2>1
  <2> HIDE DEF k
  <2>3. ~(s[k].start < r.start) /\ ~(r.start < s[k].start)
    <3>1. Cardinality(Before(r)) \in Int
      BY <1>5
    <3> QED BY <1>6, <2>2, <3>1
  <2>4. s[k] = r
    BY <2>2, <2>3
  <2> QED BY <2>1, <2>4
<1>12. ASSUME NEW j \in 1..n, NEW k \in 1..n, j < k PROVE s[j].start < s[k].start
  <2>1. /\ s[j] \in S /\ s[k] \in S
        /\ Cardinality(Before(s[j])) < Cardinality(Before(s[k]))
        /\ Cardinality(Before(s[j])) \in Int /\ Cardinality(Before(s[k])) \in Int
    BY <1>2, <1>5, <1>8, <1>12
  <2>2. ~(s[k].start < s[j].start)
    BY <1>6, <2>1
  <2>3. s[j].start # s[k].start
    <3> SUFFICES ASSUME s[j].start = s[k].start PROVE FALSE
      OBVIOUS
    <3>1. s[j] = s[k]
      BY <2>1
    <3> QED BY <2>1, <3>1
  <2> QED BY <2>1, <2>2, <2>3
<1> QED BY <1>9, <1>10, <1>11, <1>12
-----------------------------------------------------------------------------
(* The scopes around the cursor.                                            *)

OpensScope(s) == \E kind \in Language[lines[s]].kinds : Structure!IsSemanticScope(kind)

LEMMA KindsAlike ==
  ASSUME NEW v \in DOMAIN Language, NEW a \in Language[v].kinds, NEW b \in Language[v].kinds,
         Structure!IsSemanticScope(a)
  PROVE  Structure!IsSemanticScope(b)
BY LanguageAssumption DEF Structure!TablesFit

ScopeRanges(tree, c) ==
  {[start |-> n.start, end |-> n.end] :
     n \in {x \in Structure!Around(tree, lines, c) : Structure!IsSemanticScope(x.kind)}}
  \cup {Structure!SemanticRange(tree, lines, b) :
     b \in {x \in Range(Structure!LexicalBlocks(tree, SubSeq(lines, 1, c))) :
              Structure!IsSemanticScope(x.kind)}}

(* A range ends where the node that starts with it does, or the document.   *)
EndsAsKnown(tree, r) ==
  IF \E n \in tree : n.start = r.start
  THEN \E n \in tree : n.start = r.start /\ n.end = r.end
  ELSE r.end = Len(lines)

IsScope(tree, c, r) ==
  /\ r \in [start : 1..c, end : 1..Len(lines)]
  /\ EndsAsKnown(tree, r)
  /\ Structure!Inside(c) => r.start \in Structure!OpenAt(c) /\ OpensScope(r.start)

LEMMA NodeScope ==
  ASSUME StructureInv, NEW tree \in Structure!Trees, NEW c \in 0..Len(lines),
         NEW n \in Structure!Around(tree, lines, c), Structure!IsSemanticScope(n.kind)
  PROVE  IsScope(tree, c, [start |-> n.start, end |-> n.end])
<1>1. /\ n \in tree /\ n.start \in 1..c
      /\ Structure!Inside(c) => n.start \in Structure!OpenAt(c)
  BY AroundIs
<1>2. n.end \in 1..Len(lines) /\ n.kind \in Language[lines[n.start]].kinds
  BY <1>1, NodesAre
<1> DEFINE r == [start |-> n.start, end |-> n.end]
<1>3. r \in [start : 1..c, end : 1..Len(lines)] /\ r.start = n.start /\ r.end = n.end
  BY <1>1, <1>2
<1> HIDE DEF r
<1>4. EndsAsKnown(tree, r)
  BY <1>1, <1>3 DEF EndsAsKnown
<1>5. OpensScope(r.start)
  BY <1>2, <1>3 DEF OpensScope
<1>6. IsScope(tree, c, r)
  BY <1>1, <1>3, <1>4, <1>5 DEF IsScope
<1> QED BY <1>6 DEF r

LEMMA BlockScope ==
  ASSUME StructureInv, NEW tree \in Structure!Trees, NEW c \in 0..Len(lines),
         NEW b, b \in [kind : AllKinds, start : 1..c], b.start \in Structure!OpenAt(c),
         b.kind \in Language[lines[b.start]].kinds, AsKnown(tree, b),
         Structure!IsSemanticScope(b.kind)
  PROVE  /\ IsScope(tree, c, Structure!SemanticRange(tree, lines, b))
         /\ Structure!SemanticRange(tree, lines, b).start = b.start
<1> DEFINE same == {n \in tree : n.kind = b.kind /\ n.start = b.start}
           m == CHOOSE n \in same : TRUE
           r == Structure!SemanticRange(tree, lines, b)
<1>1. r = IF same = {} THEN [start |-> b.start, end |-> Len(lines)]
                       ELSE [start |-> m.start, end |-> m.end]
  BY DEF Structure!SemanticRange
<1>2. b.start \in 1..c /\ Len(lines) \in Nat
  BY Numbers DEF StructureInv
<1>3. \A n \in tree : n \in same <=> n.start = b.start
  BY DEF AsKnown
<1>4. OpensScope(b.start)
  BY DEF OpensScope
<1> HIDE DEF r
<1>5. CASE same = {}
  <2>1. r = [start |-> b.start, end |-> Len(lines)]
    BY <1>1, <1>5
  <2>2. r \in [start : 1..c, end : 1..Len(lines)] /\ r.start = b.start /\ r.end = Len(lines)
    <3>1. Len(lines) \in 1..Len(lines)
      BY <1>2
    <3> QED BY <1>2, <2>1, <3>1
  <2>3. EndsAsKnown(tree, r)
    BY <1>3, <1>5, <2>2 DEF EndsAsKnown
  <2> QED BY <1>4, <2>2, <2>3 DEF IsScope, r
<1>6. CASE same # {}
  <2>1. m \in tree /\ m.start = b.start
    BY <1>6
  <2> HIDE DEF m
  <2>2. m.end \in 1..Len(lines)
    BY <2>1, NodesAre
  <2>3. r = [start |-> m.start, end |-> m.end]
    BY <1>1, <1>6
  <2>4. r \in [start : 1..c, end : 1..Len(lines)] /\ r.start = b.start /\ r.end = m.end
    BY <1>2, <2>1, <2>2, <2>3
  <2>5. EndsAsKnown(tree, r)
    BY <2>1, <2>4 DEF EndsAsKnown
  <2> QED BY <1>4, <2>4, <2>5 DEF IsScope, r
<1> QED BY <1>5, <1>6

LEMMA ScopesAre ==
  ASSUME StructureInv, NEW tree \in Structure!Trees, NEW c \in 0..Len(lines)
  PROVE  /\ \A r \in ScopeRanges(tree, c) : IsScope(tree, c, r)
         /\ \A r, q \in ScopeRanges(tree, c) : r.start = q.start => r = q
         /\ \A s \in Structure!OpenAt(c) : OpensScope(s) => \E r \in ScopeRanges(tree, c) : r.start = s
<1> DEFINE around == Structure!Around(tree, lines, c)
           blocks == Range(Structure!LexicalBlocks(tree, SubSeq(lines, 1, c)))
<1>1. /\ \A b \in blocks :
              /\ b \in [kind : AllKinds, start : 1..c] /\ b.start \in Structure!OpenAt(c)
              /\ b.kind \in Language[lines[b.start]].kinds /\ Structure!Opens(lines[b.start])
              /\ AsKnown(tree, b)
      /\ \A s \in Structure!OpenAt(c) : \E b \in blocks : b.start = s
  BY BlocksOfScan
<1>2. \A r : r \in ScopeRanges(tree, c) <=>
        \/ \E n \in around : Structure!IsSemanticScope(n.kind) /\ r = [start |-> n.start, end |-> n.end]
        \/ \E b \in blocks : Structure!IsSemanticScope(b.kind) /\ r = Structure!SemanticRange(tree, lines, b)
  BY DEF ScopeRanges
<1> HIDE DEF blocks
<1>3. \A n \in around : Structure!IsSemanticScope(n.kind) =>
        IsScope(tree, c, [start |-> n.start, end |-> n.end])
  BY NodeScope
<1> HIDE DEF around
<1>4. \A b \in blocks : Structure!IsSemanticScope(b.kind) =>
        /\ IsScope(tree, c, Structure!SemanticRange(tree, lines, b))
        /\ Structure!SemanticRange(tree, lines, b).start = b.start
  BY <1>1, BlockScope
<1>5. \A r \in ScopeRanges(tree, c) : IsScope(tree, c, r)
  BY <1>2, <1>3, <1>4
<1>6. ASSUME NEW r \in ScopeRanges(tree, c), NEW q \in ScopeRanges(tree, c), r.start = q.start
      PROVE  r = q
  <2>1. EndsAsKnown(tree, r) /\ EndsAsKnown(tree, q)
    BY <1>5 DEF IsScope
  <2>2. \A n, k \in tree : n.start = k.start => n = k
    BY TreesAre DEF IsTree
  <2>3. r.end = q.end
    BY <1>6, <2>1, <2>2 DEF EndsAsKnown
  <2>4. r \in [start : 1..c, end : 1..Len(lines)] /\ q \in [start : 1..c, end : 1..Len(lines)]
    BY <1>5 DEF IsScope
  <2> QED BY <1>6, <2>3, <2>4
<1>7. ASSUME NEW s \in Structure!OpenAt(c), OpensScope(s)
      PROVE  \E r \in ScopeRanges(tree, c) : r.start = s
  <2>1. PICK b \in blocks : b.start = s
    BY <1>1
  <2>2. PICK kind \in Language[lines[s]].kinds : Structure!IsSemanticScope(kind)
    BY <1>7 DEF OpensScope
  <2>3. lines[s] \in DOMAIN Language /\ b.kind \in Language[lines[s]].kinds
    BY <1>1, <2>1 DEF Structure!Opens
  <2>4. Structure!IsSemanticScope(b.kind)
    BY <2>2, <2>3, KindsAlike
  <2> QED BY <1>2, <1>4, <2>1, <2>4
<1> QED BY <1>5, <1>6, <1>7

ScopesFit(tree, c, scope) ==
  /\ scope \in Seq([start : 1..c, end : 1..Len(lines)])
  /\ \A k \in 1..Len(scope) : IsScope(tree, c, scope[k])
  /\ \A j, k \in 1..Len(scope) : j < k => scope[j].start < scope[k].start
  /\ \A s \in Structure!OpenAt(c) : OpensScope(s) => \E k \in 1..Len(scope) : scope[k].start = s

LEMMA ScopeOf ==
  ASSUME StructureInv, NEW tree \in Structure!Trees, NEW c \in 0..Len(lines),
         NEW scope, scope = Structure!CompletionContext(tree, lines, c).scope
  PROVE  ScopesFit(tree, c, scope)
<1> DEFINE S == ScopeRanges(tree, c)
           ScopeRange == [start : 1..c, end : 1..Len(lines)]
<1>1. scope = Structure!InOrder(S)
  BY DEF Structure!CompletionContext, ScopeRanges, Structure!Range, Range
<1>2. /\ \A r \in S : IsScope(tree, c, r)
      /\ \A r, q \in S : r.start = q.start => r = q
      /\ \A s \in Structure!OpenAt(c) : OpensScope(s) => \E r \in S : r.start = s
  BY ScopesAre
<1> HIDE DEF S
<1>3. \A r \in S : r \in ScopeRange /\ r.start \in 1..c /\ r.end \in Int
  <2> SUFFICES ASSUME NEW r \in S PROVE r \in ScopeRange /\ r.start \in 1..c /\ r.end \in Int
    OBVIOUS
  <2>1. r \in ScopeRange
    BY <1>2 DEF IsScope
  <2> QED BY <2>1
<1>4. /\ scope \in Seq(S)
      /\ \A r \in S : \E k \in 1..Len(scope) : scope[k] = r
      /\ \A j, k \in 1..Len(scope) : j < k => scope[j].start < scope[k].start
  <2>1. c \in Nat
    BY Numbers DEF StructureInv
  <2>2. \A r \in S : r.start \in 1..c /\ r.end \in Int
    BY <1>3
  <2> QED BY <1>1, <1>2, <2>1, <2>2, InOrderIs
<1> HIDE DEF ScopeRange
<1>5. \A k \in 1..Len(scope) : scope[k] \in S
  BY <1>4
<1>6. scope \in Seq(ScopeRange)
  BY <1>3, <1>4, <1>5
<1>7. \A k \in 1..Len(scope) : IsScope(tree, c, scope[k])
  BY <1>2, <1>5
<1>8. \A s \in Structure!OpenAt(c) : OpensScope(s) => \E k \in 1..Len(scope) : scope[k].start = s
  BY <1>2, <1>4
<1> QED BY <1>4, <1>6, <1>7, <1>8 DEF ScopeRange, ScopesFit

(* The owner is what opened first, as only definitions have no other        *)
(* around them.                                                             *)
LEMMA OwnerOf ==
  ASSUME StructureInv, NEW tree \in Structure!Trees, NEW c \in 0..Len(lines),
         NEW owner, owner = Structure!CompletionContext(tree, lines, c).owner
  PROVE  /\ owner \in 0..c
         /\ Structure!OpenAt(c) = {} => owner = 0
         /\ Structure!OpenAt(c) # {} =>
              /\ owner \in Structure!OpenAt(c) /\ OpensScope(owner) /\ owner \in 1..c
              /\ \A s \in Structure!OpenAt(c) : owner <= s /\ s \in 1..c
<1> DEFINE blocks == Range(Structure!LexicalBlocks(tree, SubSeq(lines, 1, c)))
           owners == {b.start : b \in {x \in blocks : x.kind \in Structure!TopLevel}}
<1>1. owner = IF owners = {} THEN 0 ELSE Max(owners)
  BY DEF Structure!CompletionContext, Structure!Range, Range, Structure!Max, Max
<1>2. /\ \A b \in blocks :
              /\ b \in [kind : AllKinds, start : 1..c] /\ b.start \in Structure!OpenAt(c)
              /\ b.kind \in Language[lines[b.start]].kinds /\ Structure!Opens(lines[b.start])
      /\ \A s \in Structure!OpenAt(c) : \E b \in blocks : b.start = s
      /\ \A a, b \in blocks : Structure!Defines(lines[a.start]) => a.start <= b.start
      /\ \A b \in blocks : \E a \in blocks : Structure!Defines(lines[a.start])
  BY BlocksOfScan
<1>3. c \in Nat
  BY Numbers DEF StructureInv
<1> HIDE DEF blocks
<1>4. \A b \in blocks : b.kind \in Structure!TopLevel <=> Structure!Defines(lines[b.start])
  BY <1>2, KindFacts DEF Structure!Opens
<1>5. \A b \in blocks : b.start \in 1..c
  BY <1>2
<1>6. \A s : s \in owners <=> \E b \in blocks : b.start = s /\ Structure!Defines(lines[b.start])
  BY <1>4
<1> HIDE DEF owners
<1>7. CASE Structure!OpenAt(c) = {}
  <2>1. owners = {}
    BY <1>2, <1>6, <1>7
  <2> QED BY <1>1, <1>3, <1>7, <2>1
<1>8. CASE Structure!OpenAt(c) # {}
  <2>1. PICK b \in blocks : Structure!Defines(lines[b.start])
    BY <1>2, <1>8
  <2>2. b.start \in owners /\ b.start \in 1..c
    BY <1>5, <1>6, <2>1
  <2>3. \A s \in owners : s = b.start
    <3> SUFFICES ASSUME NEW a \in blocks, Structure!Defines(lines[a.start]) PROVE a.start = b.start
      BY <1>6
    <3>1. a.start <= b.start /\ b.start <= a.start /\ a.start \in 1..c /\ b.start \in 1..c
      BY <1>2, <1>5, <2>1
    <3> QED BY <3>1
  <2>4. Max(owners) = b.start
    <3>1. owners \in SUBSET (0..c) /\ \A s \in owners : b.start >= s
      BY <1>3, <2>2, <2>3
    <3> QED BY <1>3, <2>2, <3>1, MaximumIs
  <2>5. owner = b.start
    BY <1>1, <2>2, <2>4
  <2>6. OpensScope(owner)
    <3>1. b.kind \in Structure!TopLevel /\ b.kind \in Language[lines[owner]].kinds
      BY <1>2, <1>4, <2>1, <2>5
    <3> QED BY <3>1 DEF OpensScope, Structure!IsSemanticScope
  <2>7. \A s \in Structure!OpenAt(c) : owner <= s /\ s \in 1..c
    <3> SUFFICES ASSUME NEW s \in Structure!OpenAt(c) PROVE owner <= s /\ s \in 1..c
      OBVIOUS
    <3>1. PICK a \in blocks : a.start = s
      BY <1>2
    <3> QED BY <1>2, <1>5, <2>1, <2>5, <3>1
  <2>8. owner \in Structure!OpenAt(c) /\ owner \in 1..c /\ owner \in 0..c
    BY <1>2, <1>3, <2>2, <2>5
  <2> QED BY <1>8, <2>6, <2>7, <2>8
<1> QED BY <1>7, <1>8

LEMMA PlaceIsTyped ==
  ASSUME StructureInv
  PROVE  Structure!TypeOK
<1> DEFINE Owner(tree, c) == Structure!CompletionContext(tree, lines, c).owner
           Scope(tree, c) == Structure!CompletionContext(tree, lines, c).scope
<1>1. ASSUME \A tree \in Structure!Trees, c \in 0..Len(lines) :
               /\ Owner(tree, c) \in 0..c
               /\ Scope(tree, c) \in Seq([start : 1..c, end : 1..Len(lines)]),
             lines \in Seq(Words)
      PROVE  Structure!TypeOK
  BY <1>1, Zenon DEF Structure!TypeOK, Structure!Cursors
<1>2. lines \in Seq(Words)
  BY DEF StructureInv, StructureType
<1>3. ASSUME NEW tree \in Structure!Trees, NEW c \in 0..Len(lines)
      PROVE  /\ Owner(tree, c) \in 0..c
             /\ Scope(tree, c) \in Seq([start : 1..c, end : 1..Len(lines)])
  <2>1. ScopesFit(tree, c, Scope(tree, c))
    BY ScopeOf
  <2> HIDE DEF Scope
  <2>2. Scope(tree, c) \in Seq([start : 1..c, end : 1..Len(lines)])
    BY <2>1 DEF ScopesFit
  <2> QED BY <2>2, OwnerOf
<1> HIDE DEF Owner, Scope
<1> QED BY <1>1, <1>2, <1>3

LEMMA ScopesAreAround ==
  ASSUME StructureInv
  PROVE  Structure!ScopesAreTheBlocksAround
<1> DEFINE Scope(tree, c) == Structure!CompletionContext(tree, lines, c).scope
           Starts(scope) == [i \in DOMAIN scope |-> scope[i].start]
           Surrounding(c) == {s \in Structure!OpenAt(c) :
                           \E k \in Language[lines[s]].kinds : Structure!IsSemanticScope(k)}
           Agree(tree, c, scope, starts, around) ==
             /\ Structure!Ascending(starts)
             /\ around \subseteq Range(starts)
             /\ Structure!Inside(c) => Range(starts) = around
             /\ \A i \in DOMAIN scope :
                  IF \E n \in tree : n.start = starts[i]
                  THEN \E n \in tree : n.start = starts[i] /\ n.end = scope[i].end
                  ELSE scope[i].end = Len(lines)
<1>1. ASSUME \A tree \in Structure!Trees, c \in 0..Len(lines) :
               Agree(tree, c, Scope(tree, c), Starts(Scope(tree, c)), Surrounding(c))
      PROVE  Structure!ScopesAreTheBlocksAround
  BY <1>1, Zenon DEF Structure!ScopesAreTheBlocksAround, Structure!Cursors, Structure!Range, Range
<1> SUFFICES ASSUME NEW tree \in Structure!Trees, NEW c \in 0..Len(lines),
                    NEW scope, scope = Scope(tree, c), NEW starts, starts = Starts(scope),
                    NEW around, around = Surrounding(c)
             PROVE  Agree(tree, c, scope, starts, around)
  <2> HIDE DEF Scope, Starts, Surrounding, Agree
  <2> QED BY <1>1
<1>2. /\ scope \in Seq([start : 1..c, end : 1..Len(lines)])
      /\ \A k \in 1..Len(scope) : IsScope(tree, c, scope[k])
      /\ \A j, k \in 1..Len(scope) : j < k => scope[j].start < scope[k].start
      /\ \A s \in Structure!OpenAt(c) : OpensScope(s) => \E k \in 1..Len(scope) : scope[k].start = s
  <2>1. ScopesFit(tree, c, scope)
    BY ScopeOf
  <2> QED BY <2>1 DEF ScopesFit
<1>3. DOMAIN scope = 1..Len(scope)
  BY <1>2
<1>4. \A s : s \in around <=> s \in Structure!OpenAt(c) /\ OpensScope(s)
  BY DEF OpensScope
<1> HIDE DEF Scope, Surrounding
<1>5. DOMAIN starts = 1..Len(scope) /\ \A k \in 1..Len(scope) : starts[k] = scope[k].start
  BY <1>3
<1> HIDE DEF Starts
<1>6. Structure!Ascending(starts)
  <2>1. \A j, k \in 1..Len(scope) : j < k => starts[j] < starts[k]
    BY <1>2, <1>5
  <2> QED BY <1>5, <2>1 DEF Structure!Ascending
<1>7. around \subseteq Range(starts)
  BY <1>2, <1>4, <1>5 DEF Range
<1>8. ASSUME Structure!Inside(c), NEW k \in 1..Len(scope) PROVE starts[k] \in around
  BY <1>2, <1>4, <1>5, <1>8 DEF IsScope
<1>9. Structure!Inside(c) => Range(starts) = around
  BY <1>5, <1>7, <1>8 DEF Range
<1>10. \A k \in 1..Len(scope) : EndsAsKnown(tree, scope[k])
  BY <1>2 DEF IsScope
<1> QED BY <1>3, <1>5, <1>6, <1>7, <1>9, <1>10 DEF EndsAsKnown

LEMMA OwnerIsAround ==
  ASSUME StructureInv
  PROVE  Structure!OwnerIsTheDefinitionAround
<1> DEFINE Owner(tree, c) == Structure!CompletionContext(tree, lines, c).owner
           Scope(tree, c) == Structure!CompletionContext(tree, lines, c).scope
<1>1. ASSUME \A tree \in Structure!Trees, c \in 0..Len(lines) :
               /\ Owner(tree, c) = IF Structure!OpenAt(c) = {} THEN 0 ELSE Min(Structure!OpenAt(c))
               /\ (Owner(tree, c) # 0 /\ Structure!Inside(c)) => Scope(tree, c)[1].start = Owner(tree, c)
      PROVE  Structure!OwnerIsTheDefinitionAround
  BY <1>1, Zenon DEF Structure!OwnerIsTheDefinitionAround, Structure!Cursors, Structure!Min, Min
<1> SUFFICES ASSUME NEW tree \in Structure!Trees, NEW c \in 0..Len(lines),
                    NEW owner, owner = Owner(tree, c), NEW scope, scope = Scope(tree, c)
             PROVE  /\ owner = IF Structure!OpenAt(c) = {} THEN 0 ELSE Min(Structure!OpenAt(c))
                    /\ (owner # 0 /\ Structure!Inside(c)) => scope[1].start = owner
  <2> HIDE DEF Owner, Scope
  <2> QED BY <1>1
<1>2. /\ scope \in Seq([start : 1..c, end : 1..Len(lines)])
      /\ \A k \in 1..Len(scope) : IsScope(tree, c, scope[k])
      /\ \A j, k \in 1..Len(scope) : j < k => scope[j].start < scope[k].start
      /\ \A s \in Structure!OpenAt(c) : OpensScope(s) => \E k \in 1..Len(scope) : scope[k].start = s
  <2>1. ScopesFit(tree, c, scope)
    BY ScopeOf
  <2> QED BY <2>1 DEF ScopesFit
<1>3. /\ owner \in 0..c
      /\ Structure!OpenAt(c) = {} => owner = 0
      /\ Structure!OpenAt(c) # {} =>
           /\ owner \in Structure!OpenAt(c) /\ OpensScope(owner) /\ owner \in 1..c
           /\ \A s \in Structure!OpenAt(c) : owner <= s /\ s \in 1..c
  BY OwnerOf
<1> HIDE DEF Owner, Scope
<1>4. ASSUME Structure!OpenAt(c) # {} PROVE owner = Min(Structure!OpenAt(c))
  <2>1. Structure!OpenAt(c) \in SUBSET Int
    BY <1>3, <1>4
  <2> QED BY <1>3, <1>4, <2>1, MinimumIs
<1>5. ASSUME owner # 0, Structure!Inside(c) PROVE scope[1].start = owner
  <2>1. Structure!OpenAt(c) # {}
    BY <1>3, <1>5
  <2>2. PICK k \in 1..Len(scope) : scope[k].start = owner
    BY <1>2, <1>3, <2>1
  <2>3. 1 \in 1..Len(scope) /\ (k = 1 \/ 1 < k) /\ Len(scope) \in Nat
    BY <1>2, <2>2
  <2>4. scope[1].start \in Structure!OpenAt(c)
    BY <1>2, <1>5, <2>3 DEF IsScope
  <2>5. owner <= scope[1].start /\ scope[1].start \in 1..c /\ owner \in 1..c
    BY <1>3, <2>1, <2>4
  <2>6. k = 1 \/ scope[1].start < owner
    BY <1>2, <2>2, <2>3
  <2> QED BY <2>2, <2>5, <2>6
<1> QED BY <1>3, <1>4, <1>5

(* The place of the cursor is what the tree and the lines together say, in  *)
(* documents of any length: its scopes, where each ends, and the definition *)
(* that owns it (analyzer.go, CompletionContext).                           *)
THEOREM PlacesAreRecovered == CompletionSpec => []PlaceIsKnown
<1>1. StructureInv => PlaceIsKnown
  BY PlaceIsTyped, ScopesAreAround, OwnerIsAround DEF PlaceIsKnown, Structure!PlaceIsKnown
<1> QED BY <1>1, DocumentIsWritten, PTL
=============================================================================
