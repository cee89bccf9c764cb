-------------------------- MODULE TextDocument_proofs --------------------------
(***************************************************************************)
(* Proofs about TextDocument, for texts of any length and any bytes.       *)
(* Its recursive definitions are functions: that each exists is proved     *)
(* first, by induction over the offsets of a line, and then each is only   *)
(* unfolded, from one character to the next.                               *)
(***************************************************************************)
EXTENDS TextDocument, FiniteSetTheorems, WellFoundedInduction, TLAPS

LEMMA SetInduction ==
  ASSUME NEW S, 0 \in S, \A n \in Nat : n \in S => n + 1 \in S
  PROVE  Nat \subseteq S
<1> DEFINE less == OpToRel(<, Nat)
           T == Nat \ S
<1>1. \A y, z \in Nat : y < z => <<y, z>> \in less
  BY DEF OpToRel
<1>2. IsWellFoundedOn(less, Nat)
  BY NatLessThanWellFounded
<1> HIDE DEF less
<1> SUFFICES ASSUME T # {} PROVE FALSE
  OBVIOUS
<1>3. PICK z \in T : \A y \in T : <<y, z>> \notin less
  BY <1>2, WFMin
<1>4. z \in Nat /\ z # 0 /\ z - 1 \in Nat /\ z - 1 < z
  BY <1>3
<1>5. z - 1 \notin T
  BY <1>1, <1>3, <1>4
<1> QED BY <1>3, <1>4, <1>5

(* From the end of an interval back to its start, past any number at once.  *)
LEMMA BackwardInduction ==
  ASSUME NEW a \in Int, NEW b \in Int, NEW S,
         \A n \in a..b : (n + 1)..b \subseteq S => n \in S
  PROVE  a..b \subseteq S
<1> DEFINE D == {d \in Nat : \A n \in a..b : b - n <= d => n \in S}
<1>1. 0 \in D
  <2> SUFFICES ASSUME NEW n \in a..b, b - n <= 0 PROVE n \in S
    OBVIOUS
  <2>1. (n + 1)..b = {}
    OBVIOUS
  <2> QED BY <2>1
<1>2. ASSUME NEW d \in Nat, d \in D PROVE d + 1 \in D
  <2> SUFFICES ASSUME NEW n \in a..b, b - n <= d + 1 PROVE n \in S
    OBVIOUS
  <2>1. \A m \in (n + 1)..b : m \in a..b /\ b - m <= d
    OBVIOUS
  <2> QED BY <1>2, <2>1
<1> HIDE DEF D
<1>3. Nat \subseteq D
  BY <1>1, <1>2, SetInduction
<1> SUFFICES ASSUME NEW n \in a..b PROVE n \in S
  OBVIOUS
<1>4. b - n \in Nat /\ b - n \in D
  BY <1>3
<1> QED BY <1>4 DEF D
-----------------------------------------------------------------------------
(* The table of line starts, as reindex builds it. *)

StartsRest(t, upTo, n) ==
  IF n = 0 THEN <<0>>
  ELSE IF t[n] = "lf" THEN Append(upTo[n - 1], n)
  ELSE upTo[n - 1]

IsStartsUpTo(t, m, upTo) == upTo = [n \in 0..m |-> StartsRest(t, upTo, n)]

LEMMA StartsAt ==
  ASSUME NEW t, NEW m, NEW upTo, IsStartsUpTo(t, m, upTo), NEW n \in 0..m
  PROVE  upTo[n] = StartsRest(t, upTo, n)
<1> DEFINE R(k) == StartsRest(t, upTo, k)
<1>1. upTo = [k \in 0..m |-> R(k)]
  BY DEF IsStartsUpTo
<1> HIDE DEF R
<1>2. upTo[n] = R(n)
  BY <1>1
<1> QED BY <1>2 DEF R

LEMMA StartsExist ==
  ASSUME NEW t, NEW m \in Nat
  PROVE  \E upTo : IsStartsUpTo(t, m, upTo)
<1> DEFINE S == {n \in Nat : \E upTo : IsStartsUpTo(t, n, upTo)}
<1>1. 0 \in S
  <2> DEFINE g == [n \in 0..0 |-> <<0>>]
  <2>1. IsStartsUpTo(t, 0, g)
    BY DEF IsStartsUpTo, StartsRest
  <2> QED BY <2>1
<1>2. ASSUME NEW n \in Nat, n \in S PROVE n + 1 \in S
  <2>1. PICK g : IsStartsUpTo(t, n, g)
    BY <1>2
  <2> DEFINE h == [i \in 0..(n + 1) |-> IF i = n + 1 THEN StartsRest(t, g, n + 1) ELSE g[i]]
  <2>2. ASSUME NEW i \in 0..(n + 1) PROVE h[i] = StartsRest(t, h, i)
    <3>1. i # 0 => i - 1 \in 0..n /\ h[i - 1] = g[i - 1]
      OBVIOUS
    <3>2. StartsRest(t, h, i) = StartsRest(t, g, i)
      BY <3>1 DEF StartsRest
    <3>3. CASE i = n + 1
      BY <3>2, <3>3
    <3>4. CASE i # n + 1
      <4>1. i \in 0..n /\ h[i] = g[i]
        BY <3>4
      <4>2. g[i] = StartsRest(t, g, i)
        BY <2>1, <4>1, StartsAt
      <4> QED BY <3>2, <4>1, <4>2
    <3> QED BY <3>3, <3>4
  <2>3. h = [i \in 0..(n + 1) |-> StartsRest(t, h, i)]
    BY <2>2
  <2>4. IsStartsUpTo(t, n + 1, h)
    BY <2>3 DEF IsStartsUpTo
  <2> QED BY <2>4
<1> HIDE DEF S
<1>3. Nat \subseteq S
  BY <1>1, <1>2, SetInduction
<1> QED BY <1>3 DEF S

(* starts are the line starts of the first n bytes. *)
AreStarts(t, n, starts) ==
  /\ starts \in Seq(0..n) /\ Len(starts) > 0 /\ starts[1] = 0
  /\ \A i, j \in 1..Len(starts) : i < j => starts[i] < starts[j]
  /\ \A i \in 2..Len(starts) : starts[i] \in 1..n /\ t[starts[i]] = "lf"
  /\ \A k \in 1..n : t[k] = "lf" => \E i \in 2..Len(starts) : starts[i] = k

LEMMA NextStart ==
  ASSUME NEW t, NEW n \in Nat, NEW old, AreStarts(t, n, old)
  PROVE  AreStarts(t, n + 1, IF t[n + 1] = "lf" THEN Append(old, n + 1) ELSE old)
<1>1. old \in Seq(0..(n + 1)) /\ old \in Seq(0..n) /\ Len(old) \in Nat /\ Len(old) > 0
  BY DEF AreStarts
<1>2. \A i \in 1..Len(old) : old[i] \in 0..n
  BY <1>1
<1>3. CASE t[n + 1] # "lf"
  <2>1. ASSUME NEW k \in 1..(n + 1), t[k] = "lf"
        PROVE  \E i \in 2..Len(old) : old[i] = k
    <3>1. k \in 1..n
      BY <1>3, <2>1
    <3> QED BY <2>1, <3>1 DEF AreStarts
  <2> QED BY <1>1, <1>3, <2>1 DEF AreStarts
<1>4. CASE t[n + 1] = "lf"
  <2> DEFINE new == Append(old, n + 1)
             m == Len(old)
  <2>1. /\ new \in Seq(0..(n + 1)) /\ Len(new) = m + 1 /\ new[m + 1] = n + 1
        /\ \A i \in 1..m : new[i] = old[i]
    BY <1>1
  <2> HIDE DEF new
  <2>2. \A i \in 1..(m + 1) : i = m + 1 \/ i \in 1..m
    BY <1>1
  <2>3. \A i, j \in 1..(m + 1) : i < j => new[i] < new[j]
    <3> SUFFICES ASSUME NEW i \in 1..(m + 1), NEW j \in 1..(m + 1), i < j
                 PROVE  new[i] < new[j]
      OBVIOUS
    <3>1. i \in 1..m /\ new[i] = old[i] /\ old[i] \in 0..n
      BY <1>1, <1>2, <2>1
    <3>2. CASE j = m + 1
      BY <2>1, <3>1, <3>2
    <3>3. CASE j \in 1..m
      BY <2>1, <3>1, <3>3 DEF AreStarts
    <3> QED BY <2>2, <3>2, <3>3
  <2>4. \A i \in 2..(m + 1) : new[i] \in 1..(n + 1) /\ t[new[i]] = "lf"
    <3> SUFFICES ASSUME NEW i \in 2..(m + 1)
                 PROVE  new[i] \in 1..(n + 1) /\ t[new[i]] = "lf"
      OBVIOUS
    <3>1. CASE i = m + 1
      BY <1>4, <2>1, <3>1
    <3>2. CASE i # m + 1
      <4>1. i \in 2..m /\ new[i] = old[i]
        BY <1>1, <2>1, <3>2
      <4> QED BY <4>1 DEF AreStarts
    <3> QED BY <3>1, <3>2
  <2>5. ASSUME NEW k \in 1..(n + 1), t[k] = "lf"
        PROVE  \E i \in 2..(m + 1) : new[i] = k
    <3>1. CASE k = n + 1
      BY <1>1, <2>1, <3>1
    <3>2. CASE k # n + 1
      <4>1. PICK i \in 2..m : old[i] = k
        BY <2>5, <3>2 DEF AreStarts
      <4> QED BY <1>1, <2>1, <4>1
    <3> QED BY <3>1, <3>2
  <2>6. new[1] = 0
    BY <1>1, <2>1 DEF AreStarts
  <2> QED BY <1>1, <1>4, <2>1, <2>3, <2>4, <2>5, <2>6 DEF AreStarts, new
<1> QED BY <1>3, <1>4

LEMMA LineStartsAre ==
  ASSUME NEW t \in Seq(Byte)
  PROVE  AreStarts(t, Len(t), LineStarts(t))
<1> DEFINE m == Len(t)
           f == CHOOSE upTo : IsStartsUpTo(t, m, upTo)
           S == {n \in Nat : n <= m => AreStarts(t, n, f[n])}
<1>1. m \in Nat
  OBVIOUS
<1>2. LineStarts(t) = f[m]
  BY DEF LineStarts, IsStartsUpTo, StartsRest
<1>3. IsStartsUpTo(t, m, f)
  <2>1. \E upTo : IsStartsUpTo(t, m, upTo)
    BY <1>1, StartsExist
  <2> QED BY <2>1, Zenon
<1> HIDE DEF f, m
<1>4. \A n \in 0..m : f[n] = StartsRest(t, f, n)
  BY <1>3, StartsAt
<1>5. 0 \in S
  <2>1. f[0] = <<0>>
    BY <1>1, <1>4 DEF StartsRest
  <2>2. AreStarts(t, 0, <<0>>)
    BY DEF AreStarts
  <2> QED BY <2>1, <2>2
<1>6. ASSUME NEW n \in Nat, n \in S PROVE n + 1 \in S
  <2> SUFFICES ASSUME n + 1 <= m PROVE AreStarts(t, n + 1, f[n + 1])
    OBVIOUS
  <2>1. AreStarts(t, n, f[n])
    BY <1>1, <1>6
  <2>2. n + 1 \in 0..m /\ n + 1 # 0 /\ (n + 1) - 1 = n
    BY <1>1
  <2>3. f[n + 1] = IF t[n + 1] = "lf" THEN Append(f[n], n + 1) ELSE f[n]
    BY <1>4, <2>2 DEF StartsRest
  <2> QED BY <2>1, <2>3, NextStart
<1> HIDE DEF S
<1>7. Nat \subseteq S
  BY <1>5, <1>6, SetInduction
<1> QED BY <1>1, <1>2, <1>7 DEF S, m
-----------------------------------------------------------------------------
(* Characters.  No byte belongs to two of them, so that a scan that starts  *)
(* between two characters stays between characters.                         *)

Valid == text \in Seq(Byte)

LEMMA SizeType ==
  ASSUME Valid, NEW end \in 0..Len(text), NEW i \in 0..(end - 1)
  PROVE  /\ Size(i, end) \in 1..4 /\ i + Size(i, end) <= end
         /\ Units(i, end) \in 1..2 /\ Units(i, end) <= Size(i, end)
<1>1. LengthAfter(text[i + 1]) \in {1, 3, 4}
  BY DEF LengthAfter
<1>2. Size(i, end) \in 1..4 /\ i + Size(i, end) <= end
  BY <1>1 DEF Size
<1> QED BY <1>2 DEF Units

LEMMA Continued ==
  ASSUME Valid, NEW end \in 0..Len(text), NEW i \in 0..(end - 1),
         NEW o \in (i + 2)..(i + Size(i, end))
  PROVE  text[o] = "t"
<1> DEFINE n == LengthAfter(text[i + 1])
<1>1. n \in {1, 3, 4}
  BY DEF LengthAfter
<1> HIDE DEF n
<1>2. Size(i, end) = IF i + n <= end /\ \A k \in 2..n : text[i + k] = "t" THEN n ELSE 1
  BY DEF Size, n
<1>3. Size(i, end) = n /\ \A k \in 2..n : text[i + k] = "t"
  <2>1. Size(i, end) # 1
    BY SizeType
  <2> QED BY <1>2, <2>1
<1>4. o - i \in 2..n /\ i + (o - i) = o
  BY <1>1, <1>3
<1> QED BY <1>3, <1>4

LEMMA LongCharacter ==
  ASSUME Valid, NEW end \in 0..Len(text), NEW i \in 0..(end - 1), Size(i, end) # 1
  PROVE  text[i + 1] \in {"l3", "l4"} /\ (Size(i, end) = 4 <=> text[i + 1] = "l4")
BY DEF Size, LengthAfter

(* Where one character ends, the next begins. *)
LEMMA NextCharacter ==
  ASSUME Valid, NEW i \in 0..(Len(text) - 1), ~InsideCharacter(i)
  PROVE  /\ ~InsideCharacter(i + Size(i, Len(text)))
         /\ \A o \in (i + 1)..(i + Size(i, Len(text)) - 1) : InsideCharacter(o)
<1> DEFINE end == Len(text)
           n == Size(i, end)
<1>1. end \in 0..Len(text) /\ i \in 0..(end - 1) /\ end \in Nat
  BY DEF Valid
<1>2. n \in 1..4 /\ i + n <= end
  BY <1>1, SizeType
<1>3. ASSUME NEW j \in 0..(i + n - 1), j + Size(j, end) > i + n
      PROVE  FALSE
  <2>1. j \in 0..(end - 1)
    BY <1>1, <1>2
  <2>2. Size(j, end) \in 1..4
    BY <1>1, <2>1, SizeType
  <2>3. CASE j < i
    <3>1. j \in 0..(i - 1) /\ j + Size(j, end) > i
      BY <1>1, <1>2, <1>3, <2>2, <2>3
    <3> QED BY <3>1 DEF InsideCharacter
  <2>4. CASE j = i
    BY <1>1, <1>2, <1>3, <2>4
  <2>5. CASE j > i
    <3>1. j + 1 \in (i + 2)..(i + n)
      BY <1>1, <1>2, <2>5
    <3>2. text[j + 1] = "t"
      BY <1>1, <3>1, Continued
    <3>3. Size(j, end) = 1
      BY <1>1, <2>1, <3>2, LongCharacter
    <3> QED BY <1>1, <1>2, <1>3, <3>3
  <2> QED BY <1>1, <2>1, <2>3, <2>4, <2>5
<1>4. ~InsideCharacter(i + n)
  <2> SUFFICES ASSUME InsideCharacter(i + n) PROVE FALSE
    OBVIOUS
  <2> HIDE DEF n
  <2>1. PICK j \in 0..(i + n - 1) : j + Size(j, end) > i + n
    BY <1>1, <1>2 DEF InsideCharacter
  <2> QED BY <1>3, <2>1
<1>5. ASSUME NEW o \in (i + 1)..(i + n - 1) PROVE InsideCharacter(o)
  <2>1. i \in 0..(o - 1) /\ i + Size(i, Len(text)) > o
    BY <1>1, <1>2
  <2> QED BY <2>1 DEF InsideCharacter
<1> QED BY <1>4, <1>5

(* A scan that ends between two characters reads the same characters as one *)
(* that goes on.                                                            *)
LEMMA SizeUpTo ==
  ASSUME Valid, NEW end \in 0..Len(text), NEW i \in 0..(end - 1), ~InsideCharacter(end)
  PROVE  Size(i, end) = Size(i, Len(text)) /\ Units(i, end) = Units(i, Len(text))
<1>1. Len(text) \in Nat
  BY DEF Valid
<1>2. i + Size(i, Len(text)) <= end
  <2>1. ~(i + Size(i, Len(text)) > end)
    BY DEF InsideCharacter
  <2>2. Size(i, Len(text)) \in 1..4
    BY <1>1, SizeType
  <2> QED BY <1>1, <2>1, <2>2
<1>3. Size(i, end) = Size(i, Len(text))
  BY <1>1, <1>2 DEF Size, LengthAfter
<1> QED BY <1>3 DEF Units

LEMMA Outside ==
  ASSUME Valid, NEW o \in 0..Len(text),
         \/ o = 0 \/ o = Len(text)
         \/ o # 0 /\ text[o] \notin {"t", "l3", "l4"}
         \/ o # Len(text) /\ text[o + 1] # "t"
  PROVE  ~InsideCharacter(o)
<1> DEFINE end == Len(text)
<1>1. end \in Nat /\ end \in 0..Len(text)
  BY DEF Valid
<1> SUFFICES ASSUME NEW i \in 0..(o - 1), i + Size(i, end) > o PROVE FALSE
  BY DEF InsideCharacter
<1>2. i \in 0..(end - 1)
  BY <1>1
<1>3. Size(i, end) \in 1..4 /\ i + Size(i, end) <= end
  BY <1>1, <1>2, SizeType
<1>4. Size(i, end) # 1
  BY <1>1, <1>3
<1>5. text[i + 1] \in {"l3", "l4"}
  BY <1>1, <1>2, <1>4, LongCharacter
<1>6. o + 1 \in (i + 2)..(i + Size(i, end)) /\ o # end
  BY <1>1, <1>3
<1>7. text[o + 1] = "t"
  BY <1>1, <1>2, <1>6, Continued
<1>8. CASE o = i + 1
  BY <1>5, <1>6, <1>7, <1>8
<1>9. CASE o # i + 1
  <2>1. o \in (i + 2)..(i + Size(i, end))
    BY <1>3, <1>9
  <2>2. text[o] = "t"
    BY <1>1, <1>2, <2>1, Continued
  <2> QED BY <1>6, <1>7, <2>2
<1> QED BY <1>8, <1>9
-----------------------------------------------------------------------------
(* Counting code units: Utf16Length is what its loop adds up.               *)

LengthRest(end, length, i) ==
  IF i = end THEN 0 ELSE Units(i, end) + length[i + Size(i, end)]

IsLength(start, end, length) ==
  length = [i \in start..end |-> LengthRest(end, length, i)]

LEMMA LengthAt ==
  ASSUME NEW start, NEW end, NEW f, IsLength(start, end, f), NEW i \in start..end
  PROVE  f[i] = LengthRest(end, f, i)
<1> DEFINE R(k) == LengthRest(end, f, k)
<1>1. f = [k \in start..end |-> R(k)]
  BY DEF IsLength
<1> HIDE DEF R
<1>2. f[i] = R(i)
  BY <1>1
<1> QED BY <1>2 DEF R

LEMMA LengthExists ==
  ASSUME Valid, NEW end \in 0..Len(text), NEW start \in 0..end
  PROVE  \E f : IsLength(start, end, f)
<1> DEFINE S == {i \in 0..end : \E f : IsLength(i, end, f)}
<1>1. end \in Nat
  BY DEF Valid
<1>2. ASSUME NEW i \in 0..end, (i + 1)..end \subseteq S
      PROVE  i \in S
  <2>1. CASE i = end
    <3> DEFINE g == [k \in i..end |-> 0]
    <3>1. \A k \in i..end : k = end
      BY <1>1, <2>1
    <3>2. IsLength(i, end, g)
      BY <3>1 DEF IsLength, LengthRest
    <3> QED BY <3>2
  <2>2. CASE i # end
    <3>1. i + 1 \in (i + 1)..end
      BY <1>1, <2>2
    <3>2. PICK g : IsLength(i + 1, end, g)
      BY <1>2, <3>1
    <3> DEFINE h == [k \in i..end |-> IF k = i THEN LengthRest(end, g, i) ELSE g[k]]
    <3>3. ASSUME NEW k \in i..end PROVE h[k] = LengthRest(end, h, k)
      <4>1. k # end => k + Size(k, end) \in (i + 1)..end
        <5> SUFFICES ASSUME k # end PROVE k + Size(k, end) \in (i + 1)..end
          OBVIOUS
        <5>1. k \in 0..(end - 1)
          BY <1>1
        <5>2. Size(k, end) \in 1..4 /\ k + Size(k, end) <= end
          BY <5>1, SizeType
        <5> QED BY <1>1, <5>2
      <4>2. \A m \in (i + 1)..end : h[m] = g[m]
        BY <1>1
      <4>3. LengthRest(end, h, k) = LengthRest(end, g, k)
        BY <4>1, <4>2 DEF LengthRest
      <4>4. CASE k = i
        BY <4>3, <4>4
      <4>5. CASE k # i
        <5>1. k \in (i + 1)..end
          BY <1>1, <4>5
        <5>2. g[k] = LengthRest(end, g, k)
          BY <3>2, <5>1, LengthAt
        <5> QED BY <4>2, <4>3, <5>1, <5>2
      <4> QED BY <4>4, <4>5
    <3>4. h = [k \in i..end |-> LengthRest(end, h, k)]
      BY <3>3
    <3>5. IsLength(i, end, h)
      BY <3>4 DEF IsLength
    <3> QED BY <3>5
  <2> QED BY <2>1, <2>2
<1> HIDE DEF S
<1>3. 0 \in Int /\ end \in Int
  BY <1>1
<1>4. 0..end \subseteq S
  BY <1>2, <1>3, BackwardInduction, Zenon
<1> QED BY <1>4 DEF S

LEMMA LengthAgrees ==
  ASSUME Valid, NEW end \in 0..Len(text), NEW a \in 0..end, NEW b \in a..end,
         NEW f, IsLength(a, end, f), NEW g, IsLength(b, end, g)
  PROVE  \A i \in b..end : f[i] = g[i]
<1> DEFINE S == {i \in b..end : f[i] = g[i]}
<1>1. a \in Nat /\ b \in Nat /\ end \in Nat /\ a <= b
  BY DEF Valid
<1>2. ASSUME NEW i \in b..end, (i + 1)..end \subseteq S
      PROVE  i \in S
  <2>1. f[i] = LengthRest(end, f, i) /\ g[i] = LengthRest(end, g, i)
    BY <1>1, LengthAt
  <2>2. i # end => f[i + Size(i, end)] = g[i + Size(i, end)]
    <3> SUFFICES ASSUME i # end PROVE i + Size(i, end) \in (i + 1)..end
      BY <1>2
    <3>1. i \in 0..(end - 1)
      BY <1>1
    <3>2. Size(i, end) \in 1..4 /\ i + Size(i, end) <= end
      BY <3>1, SizeType
    <3> QED BY <1>1, <3>2
  <2> QED BY <2>1, <2>2 DEF LengthRest
<1> HIDE DEF S
<1>3. b \in Int /\ end \in Int
  BY <1>1
<1>4. b..end \subseteq S
  BY <1>2, <1>3, BackwardInduction, Zenon
<1> QED BY <1>4 DEF S

LEMMA Utf16AtEnd ==
  ASSUME Valid, NEW end \in 0..Len(text)
  PROVE  Utf16Length(end, end) = 0
<1> DEFINE f == CHOOSE length : IsLength(end, end, length)
<1>1. Utf16Length(end, end) = f[end]
  BY DEF Utf16Length, IsLength, LengthRest
<1>2. end \in 0..end
  BY DEF Valid
<1>3. IsLength(end, end, f)
  <2>1. \E length : IsLength(end, end, length)
    BY <1>2, LengthExists
  <2> QED BY <2>1, Zenon
<1> HIDE DEF f
<1>4. f[end] = LengthRest(end, f, end)
  BY <1>2, <1>3, LengthAt
<1> QED BY <1>1, <1>4 DEF LengthRest

LEMMA Utf16Step ==
  ASSUME Valid, NEW end \in 0..Len(text), NEW i \in 0..(end - 1)
  PROVE  Utf16Length(i, end) = Units(i, end) + Utf16Length(i + Size(i, end), end)
<1> DEFINE next == i + Size(i, end)
           f == CHOOSE length : IsLength(i, end, length)
           g == CHOOSE length : IsLength(next, end, length)
<1>1. Utf16Length(i, end) = f[i]
  BY DEF Utf16Length, IsLength, LengthRest
<1>2. Utf16Length(next, end) = g[next]
  BY DEF Utf16Length, IsLength, LengthRest
<1>3. end \in Nat /\ i \in 0..end /\ next \in (i + 1)..end /\ next \in 0..end /\ i # end
  BY SizeType DEF Valid
<1> HIDE DEF next
<1>4. IsLength(i, end, f) /\ IsLength(next, end, g)
  <2>1. (\E length : IsLength(i, end, length)) /\ \E length : IsLength(next, end, length)
    BY <1>3, LengthExists
  <2> QED BY <2>1, Zenon
<1> HIDE DEF f, g
<1>5. i \in i..end /\ next \in i..end /\ next \in next..end
  BY <1>3
<1>6. f[i] = LengthRest(end, f, i)
  BY <1>4, <1>5, LengthAt
<1>7. f[next] = g[next]
  BY <1>3, <1>4, <1>5, LengthAgrees
<1> QED BY <1>1, <1>2, <1>3, <1>6, <1>7 DEF LengthRest, next

LEMMA Utf16Type ==
  ASSUME Valid, NEW end \in 0..Len(text), NEW i \in 0..end
  PROVE  Utf16Length(i, end) \in Nat /\ (Utf16Length(i, end) = 0 <=> i = end)
<1> DEFINE S == {k \in 0..end : /\ Utf16Length(k, end) \in Nat
                                /\ Utf16Length(k, end) = 0 <=> k = end}
<1>1. end \in Nat
  BY DEF Valid
<1>2. ASSUME NEW k \in 0..end, (k + 1)..end \subseteq S
      PROVE  k \in S
  <2>1. CASE k = end
    BY <2>1, Utf16AtEnd
  <2>2. CASE k # end
    <3>1. k \in 0..(end - 1)
      BY <1>1, <2>2
    <3>2. /\ Size(k, end) \in 1..4 /\ k + Size(k, end) <= end
          /\ Units(k, end) \in 1..2
      BY <3>1, SizeType
    <3>3. k + Size(k, end) \in (k + 1)..end
      BY <1>1, <3>2
    <3>4. Utf16Length(k + Size(k, end), end) \in Nat
      BY <1>2, <3>3
    <3> QED BY <2>2, <3>1, <3>2, <3>4, Utf16Step
  <2> QED BY <2>1, <2>2
<1> HIDE DEF S
<1>3. 0 \in Int /\ end \in Int
  BY <1>1
<1>4. 0..end \subseteq S
  BY <1>2, <1>3, BackwardInduction, Zenon
<1> QED BY <1>4 DEF S

(* Between two characters, what is left of a text is the same whoever asks. *)
LEMMA Utf16Next ==
  ASSUME Valid, NEW end \in 0..Len(text), ~InsideCharacter(end),
         NEW i \in 0..(end - 1), ~InsideCharacter(i)
  PROVE  /\ i + Size(i, Len(text)) \in (i + 1)..end
         /\ ~InsideCharacter(i + Size(i, Len(text)))
         /\ Utf16Length(i, end) = Units(i, Len(text)) + Utf16Length(i + Size(i, Len(text)), end)
<1>1. Size(i, end) = Size(i, Len(text)) /\ Units(i, end) = Units(i, Len(text))
  BY SizeUpTo
<1>2. Size(i, end) \in 1..4 /\ i + Size(i, end) <= end
  BY SizeType
<1>3. end \in Nat /\ i \in 0..(Len(text) - 1)
  BY DEF Valid
<1> QED BY <1>1, <1>2, <1>3, NextCharacter, Utf16Step
-----------------------------------------------------------------------------
(* The loop of ByteOffsetAt.                                                *)

ScanRest(end, target, scan, at) ==
  IF at[2] = target THEN at[1]
  ELSE IF at[1] = end \/ at[2] + Units(at[1], end) > target THEN NoOffset
  ELSE scan[<<at[1] + Size(at[1], end), at[2] + Units(at[1], end)>>]

IsScan(start, end, target, scan) ==
  scan = [at \in (start..end) \X (0..target) |-> ScanRest(end, target, scan, at)]

LEMMA ScanAt ==
  ASSUME NEW start, NEW end, NEW target, NEW f, IsScan(start, end, target, f),
         NEW i \in start..end, NEW u \in 0..target
  PROVE  f[<<i, u>>] = ScanRest(end, target, f, <<i, u>>)
<1> DEFINE R(at) == ScanRest(end, target, f, at)
<1>1. f = [at \in (start..end) \X (0..target) |-> R(at)]
  BY DEF IsScan
<1> HIDE DEF R
<1>2. <<i, u>> \in (start..end) \X (0..target)
  OBVIOUS
<1>3. f[<<i, u>>] = R(<<i, u>>)
  BY <1>1, <1>2
<1> QED BY <1>3 DEF R

LEMMA ScanExists ==
  ASSUME Valid, NEW end \in 0..Len(text), NEW start \in 0..end, NEW target \in Nat
  PROVE  \E f : IsScan(start, end, target, f)
<1> DEFINE S == {i \in 0..end : \E f : IsScan(i, end, target, f)}
<1>1. end \in Nat
  BY DEF Valid
<1>2. ASSUME NEW i \in 0..end, (i + 1)..end \subseteq S
      PROVE  i \in S
  <2>0. \E g : i # end => IsScan(i + 1, end, target, g)
    <3>1. i # end => i + 1 \in (i + 1)..end
      BY <1>1
    <3> QED BY <1>2, <3>1
  <2>1. PICK g : i # end => IsScan(i + 1, end, target, g)
    BY <2>0
  <2> DEFINE h == [at \in (i..end) \X (0..target) |->
                    IF at[1] = i THEN ScanRest(end, target, g, at) ELSE g[at]]
  <2>2. ASSUME NEW k \in i..end, NEW u \in 0..target
        PROVE  h[<<k, u>>] = ScanRest(end, target, h, <<k, u>>)
    <3> DEFINE next == <<k + Size(k, end), u + Units(k, end)>>
    <3>1. <<k, u>> \in (i..end) \X (0..target) /\ <<k, u>>[1] = k /\ <<k, u>>[2] = u
      OBVIOUS
    <3>2. ASSUME k # end, ~(u + Units(k, end) > target) PROVE h[next] = g[next]
      <4>1. k \in 0..(end - 1)
        BY <1>1, <3>2
      <4>2. /\ Size(k, end) \in 1..4 /\ k + Size(k, end) <= end
            /\ Units(k, end) \in 1..2
        BY <4>1, SizeType
      <4>3. k + Size(k, end) \in i..end /\ k + Size(k, end) # i /\ u + Units(k, end) \in 0..target
        BY <1>1, <3>2, <4>2
      <4>4. next \in (i..end) \X (0..target) /\ next[1] # i
        BY <4>3
      <4> HIDE DEF next
      <4> QED BY <4>4
    <3>3. ScanRest(end, target, h, <<k, u>>) = ScanRest(end, target, g, <<k, u>>)
      <4> HIDE DEF h
      <4> QED BY <3>1, <3>2 DEF ScanRest
    <3>4. CASE k = i
      <4>1. h[<<k, u>>] = ScanRest(end, target, g, <<k, u>>)
        BY <3>1, <3>4
      <4> QED BY <3>3, <4>1
    <3>5. CASE k # i
      <4>1. k \in (i + 1)..end /\ i # end
        BY <1>1, <3>5
      <4>2. g[<<k, u>>] = ScanRest(end, target, g, <<k, u>>)
        BY <2>1, <4>1, ScanAt
      <4>3. h[<<k, u>>] = g[<<k, u>>]
        BY <3>1, <3>5
      <4> QED BY <3>3, <4>2, <4>3
    <3> QED BY <3>4, <3>5
  <2>3. \A at \in (i..end) \X (0..target) : h[at] = ScanRest(end, target, h, at)
    <3> HIDE DEF h
    <3> SUFFICES ASSUME NEW at \in (i..end) \X (0..target)
                 PROVE  h[at] = ScanRest(end, target, h, at)
      OBVIOUS
    <3>1. at = <<at[1], at[2]>> /\ at[1] \in i..end /\ at[2] \in 0..target
      OBVIOUS
    <3>2. h[<<at[1], at[2]>>] = ScanRest(end, target, h, <<at[1], at[2]>>)
      BY <2>2, <3>1
    <3> QED BY <3>1, <3>2
  <2>4. h = [at \in (i..end) \X (0..target) |-> ScanRest(end, target, h, at)]
    BY <2>3
  <2>5. IsScan(i, end, target, h)
    BY <2>4 DEF IsScan
  <2> QED BY <2>5
<1> HIDE DEF S
<1>3. 0 \in Int /\ end \in Int
  BY <1>1
<1>4. 0..end \subseteq S
  BY <1>2, <1>3, BackwardInduction, Zenon
<1> QED BY <1>4 DEF S

(* It finds an offset that many code units away, and whatever it finds is   *)
(* that many code units away.                                               *)
LEMMA ScanFinds ==
  ASSUME Valid, NEW end \in 0..Len(text), ~InsideCharacter(end),
         NEW start \in 0..end, ~InsideCharacter(start),
         NEW o \in start..end, ~InsideCharacter(o),
         NEW f, IsScan(start, end, Utf16Length(start, o), f)
  PROVE  f[<<start, 0>>] = o
<1> DEFINE target == Utf16Length(start, o)
           S == {i \in start..o : ~InsideCharacter(i) =>
                   \A u \in 0..target : u + Utf16Length(i, o) = target => f[<<i, u>>] = o}
<1>1. end \in Nat /\ start \in 0..o /\ o \in 0..Len(text) /\ o <= end /\ start <= o
  BY DEF Valid
<1>2. target \in Nat
  BY <1>1, Utf16Type
<1>3. ASSUME NEW i \in start..o, (i + 1)..o \subseteq S PROVE i \in S
  <2> HIDE DEF target
  <2> SUFFICES ASSUME ~InsideCharacter(i), NEW u \in 0..target, u + Utf16Length(i, o) = target
               PROVE  f[<<i, u>>] = o
    OBVIOUS
  <2>1. i \in 0..o /\ i \in start..end /\ u \in Int
    BY <1>1, <1>2
  <2>2. f[<<i, u>>] = ScanRest(end, target, f, <<i, u>>)
    BY <2>1, ScanAt DEF target
  <2>3. Utf16Length(i, o) \in Nat /\ (Utf16Length(i, o) = 0 <=> i = o)
    BY <1>1, <2>1, Utf16Type
  <2>4. CASE i = o
    <3>1. u = target
      BY <1>2, <2>1, <2>3, <2>4
    <3> QED BY <2>2, <2>4, <3>1 DEF ScanRest
  <2>5. CASE i # o
    <3> DEFINE next == i + Size(i, Len(text))
               more == u + Units(i, Len(text))
    <3>1. i \in 0..(o - 1) /\ i \in 0..(end - 1) /\ i # end
      BY <1>1, <2>1, <2>5
    <3>2. /\ next \in (i + 1)..o /\ ~InsideCharacter(next)
          /\ Utf16Length(i, o) = Units(i, Len(text)) + Utf16Length(next, o)
      BY <1>1, <3>1, Utf16Next
    <3>3. Size(i, end) = Size(i, Len(text)) /\ Units(i, end) = Units(i, Len(text))
      BY <3>1, SizeUpTo
    <3>4. Units(i, Len(text)) \in 1..2
      BY <3>1, <3>3, SizeType
    <3>5. Utf16Length(next, o) \in Nat
      BY <1>1, <3>2, Utf16Type
    <3>6. u # target /\ ~(more > target) /\ more \in 0..target
          /\ more + Utf16Length(next, o) = target
      BY <1>2, <2>1, <3>2, <3>4, <3>5
    <3>7. f[<<i, u>>] = f[<<next, more>>]
      BY <2>2, <3>1, <3>3, <3>6 DEF ScanRest
    <3>8. next \in S
      BY <1>3, <3>2
    <3> QED BY <3>2, <3>6, <3>7, <3>8
  <2> QED BY <2>4, <2>5
<1> HIDE DEF S
<1>4. start \in Int /\ o \in Int
  BY <1>1
<1>5. start..o \subseteq S
  BY <1>3, <1>4, BackwardInduction, Zenon
<1>6. start \in start..o /\ 0 \in 0..target /\ 0 + target = target
  BY <1>1, <1>2
<1> QED BY <1>5, <1>6 DEF S

LEMMA ScanFound ==
  ASSUME Valid, NEW end \in 0..Len(text), ~InsideCharacter(end),
         NEW start \in 0..end, ~InsideCharacter(start), NEW target \in Nat,
         NEW f, IsScan(start, end, target, f), f[<<start, 0>>] # NoOffset
  PROVE  /\ f[<<start, 0>>] \in start..end /\ ~InsideCharacter(f[<<start, 0>>])
         /\ Utf16Length(start, f[<<start, 0>>]) = target
<1> DEFINE Found(i, u, r) == /\ r \in i..end /\ ~InsideCharacter(r)
                             /\ u + Utf16Length(i, r) = target
           S == {i \in start..end : ~InsideCharacter(i) =>
                   \A u \in 0..target : f[<<i, u>>] # NoOffset => Found(i, u, f[<<i, u>>])}
<1>1. end \in Nat /\ start \in Nat /\ start <= end /\ end <= Len(text) /\ Len(text) \in Nat
  BY DEF Valid
<1>2. ASSUME NEW i \in start..end, (i + 1)..end \subseteq S PROVE i \in S
  <2> SUFFICES ASSUME ~InsideCharacter(i), NEW u \in 0..target, f[<<i, u>>] # NoOffset
               PROVE  Found(i, u, f[<<i, u>>])
    OBVIOUS
  <2>1. i \in 0..Len(text) /\ i \in i..end
    BY <1>1
  <2>2. f[<<i, u>>] = ScanRest(end, target, f, <<i, u>>)
    BY ScanAt
  <2>3. CASE u = target
    <3>1. f[<<i, u>>] = i
      BY <2>2, <2>3 DEF ScanRest
    <3>2. Utf16Length(i, i) = 0
      BY <2>1, Utf16AtEnd
    <3> QED BY <2>1, <2>3, <3>1, <3>2
  <2>4. CASE u # target
    <3> DEFINE next == i + Size(i, Len(text))
               more == u + Units(i, Len(text))
               r == f[<<next, more>>]
    <3>1. i # end /\ ~(u + Units(i, end) > target)
      BY <2>2, <2>4 DEF ScanRest
    <3>2. i \in 0..(end - 1)
      BY <1>1, <3>1
    <3>3. Size(i, end) = Size(i, Len(text)) /\ Units(i, end) = Units(i, Len(text))
      BY <3>2, SizeUpTo
    <3>4. Units(i, Len(text)) \in 1..2
      BY <3>2, <3>3, SizeType
    <3>5. next \in (i + 1)..end /\ ~InsideCharacter(next)
      BY <3>2, Utf16Next
    <3>6. f[<<i, u>>] = r
      BY <2>2, <2>4, <3>1, <3>3 DEF ScanRest
    <3>7. more \in 0..target
      BY <3>1, <3>3, <3>4
    <3>8. next \in S
      BY <1>2, <3>5
    <3> HIDE DEF r
    <3>9. Found(next, more, r)
      BY <3>5, <3>6, <3>7, <3>8 DEF r
    <3> HIDE DEF next, more
    <3>10. r \in 0..Len(text) /\ i \in 0..(r - 1) /\ r \in i..end
      BY <1>1, <3>2, <3>5, <3>9
    <3>11. Utf16Length(i, r) = Units(i, Len(text)) + Utf16Length(next, r)
      BY <3>9, <3>10, Utf16Next DEF next
    <3>12. next \in 0..r
      BY <1>1, <3>2, <3>5, <3>9
    <3>13. Utf16Length(next, r) \in Nat
      BY <3>10, <3>12, Utf16Type
    <3>14. u + Utf16Length(i, r) = target
      BY <3>4, <3>9, <3>11, <3>13 DEF more
    <3> QED BY <3>6, <3>9, <3>10, <3>14
  <2> QED BY <2>3, <2>4
<1> HIDE DEF S
<1>3. start \in Int /\ end \in Int
  BY <1>1
<1>4. start..end \subseteq S
  BY <1>2, <1>3, BackwardInduction, Zenon
<1>5. start \in start..end /\ 0 \in 0..target
  BY <1>1
<1>6. Found(start, 0, f[<<start, 0>>])
  BY <1>4, <1>5 DEF S
<1>7. Utf16Length(start, f[<<start, 0>>]) \in Nat
  BY <1>1, <1>6, Utf16Type
<1> QED BY <1>6, <1>7
-----------------------------------------------------------------------------
(* The table belongs to the text, whatever the text has been replaced by.   *)

TextInv == Valid /\ lineStarts = LineStarts(text)

LEMMA TextAlways == Spec => []TextInv
<1>1. Init => TextInv
  <2> SUFFICES ASSUME Init PROVE text \in Seq(Byte)
    BY DEF Init, TextInv, Valid
  <2>1. PICK m \in 0..MaxLength : text \in [1..m -> Byte]
    BY DEF Init, BoundedSeq, SeqOf
  <2>2. m \in Nat
    BY LengthAssumption DEF LengthAssumption
  <2> QED BY <2>1, <2>2
<1>2. TextInv /\ [Next]_vars => TextInv'
  BY ReplacementAssumption DEF ReplacementAssumption, TextInv, Valid, Next, Replace, vars
<1> QED BY <1>1, <1>2, PTL DEF Spec

Line == DOMAIN lineStarts

LEMMA LinesAre ==
  ASSUME TextInv
  PROVE  /\ Len(text) \in Nat /\ Len(lineStarts) \in Nat /\ Len(lineStarts) > 0
         /\ Line = 1..Len(lineStarts) /\ lineStarts[1] = 0
         /\ \A k \in Line : lineStarts[k] \in 0..Len(text)
         /\ \A i, j \in Line : i < j => lineStarts[i] < lineStarts[j]
         /\ \A k \in Line \ {1} : lineStarts[k] \in 1..Len(text) /\ text[lineStarts[k]] = "lf"
         /\ \A o \in 1..Len(text) : text[o] = "lf" => \E k \in Line \ {1} : lineStarts[k] = o
<1>1. AreStarts(text, Len(text), lineStarts)
  BY LineStartsAre DEF TextInv, Valid
<1>2. Len(text) \in Nat
  BY DEF TextInv, Valid
<1>3. lineStarts \in Seq(0..Len(text)) /\ Len(lineStarts) > 0 /\ lineStarts[1] = 0
  BY <1>1 DEF AreStarts
<1>4. Len(lineStarts) \in Nat /\ Line = 1..Len(lineStarts)
      /\ \A k \in 1..Len(lineStarts) : lineStarts[k] \in 0..Len(text)
  BY <1>3 DEF Line
<1>5. Line \ {1} = 2..Len(lineStarts)
  BY <1>4
<1> QED BY <1>1, <1>2, <1>3, <1>4, <1>5 DEF AreStarts

(* Offset o is in line k. *)
InLine(o, k) ==
  /\ k \in Line /\ lineStarts[k] <= o
  /\ k # Len(lineStarts) => o < lineStarts[k + 1]

LEMMA LineOfOffset ==
  ASSUME TextInv, NEW o \in 0..Len(text)
  PROVE  \E k \in Line : InLine(o, k)
<1> DEFINE last == Len(lineStarts)
           S == {k \in Line : lineStarts[k] > o}
<1> SUFFICES ASSUME \A k \in Line : ~InLine(o, k) PROVE FALSE
  OBVIOUS
<1>1. last \in Nat /\ last > 0 /\ Line = 1..last /\ lineStarts[1] = 0 /\ o \in Nat
      /\ \A k \in Line : lineStarts[k] \in Nat
  BY LinesAre
<1>2. ASSUME NEW k \in 1..last, (k + 1)..last \subseteq S PROVE k \in S
  <2>1. k # last => lineStarts[k + 1] > o /\ lineStarts[k + 1] \in Nat
    BY <1>1, <1>2
  <2> QED BY <1>1, <2>1 DEF InLine
<1> HIDE DEF S
<1>3. 1 \in Int /\ last \in Int
  BY <1>1
<1>4. 1..last \subseteq S
  BY <1>2, <1>3, BackwardInduction, Zenon
<1>5. 1 \in S
  BY <1>1, <1>4
<1> QED BY <1>1, <1>5 DEF S

LEMMA LinesBefore ==
  ASSUME TextInv, NEW o \in 0..Len(text), NEW k, InLine(o, k)
  PROVE  {i \in Line : lineStarts[i] <= o} = 1..k
<1>1. Len(lineStarts) \in Nat /\ Line = 1..Len(lineStarts) /\ k \in Line /\ k \in Nat
      /\ \A i \in Line : lineStarts[i] \in Nat
  BY LinesAre DEF InLine
<1>2. ASSUME NEW i \in Line, i <= k PROVE lineStarts[i] <= o
  <2>1. i = k \/ lineStarts[i] < lineStarts[k]
    BY <1>1, <1>2, LinesAre
  <2> QED BY <1>1, <2>1 DEF InLine
<1>3. ASSUME NEW i \in Line, i > k PROVE lineStarts[i] > o
  <2>1. k # Len(lineStarts) /\ k + 1 \in Line /\ (i = k + 1 \/ k + 1 < i)
    BY <1>1, <1>3
  <2>2. lineStarts[k + 1] <= lineStarts[i]
    BY <1>1, <2>1, LinesAre
  <2> QED BY <1>1, <2>1, <2>2 DEF InLine
<1> QED BY <1>1, <1>2, <1>3

LEMMA Counted ==
  ASSUME NEW n \in Nat
  PROVE  IsFiniteSet(1..n) /\ Cardinality(1..n) = n
<1>1. IsFiniteSet(1..n) /\ Cardinality(1..n) = IF 1 > n THEN 0 ELSE n - 1 + 1
  BY FS_Interval
<1>2. (IF 1 > n THEN 0 ELSE n - 1 + 1) = n
  OBVIOUS
<1> QED BY <1>1, <1>2

LEMMA OneLine ==
  ASSUME TextInv, NEW o \in 0..Len(text), NEW k, InLine(o, k)
  PROVE  /\ Cardinality({i \in DOMAIN lineStarts : lineStarts[i] <= o}) = k
         /\ \A j : InLine(o, j) => j = k
<1>1. ASSUME NEW j, InLine(o, j)
      PROVE  Cardinality({i \in DOMAIN lineStarts : lineStarts[i] <= o}) = j
  <2>1. j \in Nat /\ j > 0
    BY <1>1, LinesAre DEF InLine
  <2>2. {i \in DOMAIN lineStarts : lineStarts[i] <= o} = 1..j
    BY <1>1, LinesBefore DEF Line
  <2> QED BY <2>1, <2>2, Counted
<1> QED BY <1>1

LEMMA PositionIs ==
  ASSUME TextInv, NEW o \in 0..Len(text), NEW k, InLine(o, k)
  PROVE  PositionAt(o) = [line |-> k - 1, character |-> Utf16Length(lineStarts[k], o)]
<1>1. Cardinality({i \in DOMAIN lineStarts : lineStarts[i] <= o}) = k
  BY OneLine
<1>2. ~(o > Len(text))
  BY LinesAre
<1> QED BY <1>1, <1>2 DEF PositionAt

(* Before the start of line k there are k - 1 line feeds. *)
LEMMA LineFeeds ==
  ASSUME TextInv, NEW o \in 0..Len(text), NEW k, InLine(o, k)
  PROVE  /\ IsFiniteSet({i \in 1..o : text[i] = "lf"})
         /\ Cardinality({i \in 1..o : text[i] = "lf"}) = k - 1
<1> DEFINE T == {i \in 1..o : text[i] = "lf"}
           f == [i \in 1..(k - 1) |-> lineStarts[i + 1]]
<1>1. k \in Nat /\ k > 0 /\ Len(lineStarts) \in Nat /\ Line = 1..Len(lineStarts) /\ k \in Line
      /\ Len(text) \in Nat /\ \A i \in Line : lineStarts[i] \in Nat
  BY LinesAre DEF InLine
<1>2. {i \in Line : lineStarts[i] <= o} = 1..k
  BY LinesBefore
<1>3. ASSUME NEW i \in 1..(k - 1) PROVE lineStarts[i + 1] \in T
  <2>1. i + 1 \in Line \ {1} /\ i + 1 \in 1..k
    BY <1>1
  <2>2. lineStarts[i + 1] \in 1..Len(text) /\ text[lineStarts[i + 1]] = "lf"
    BY <2>1, LinesAre
  <2>3. lineStarts[i + 1] <= o
    BY <1>2, <2>1
  <2> QED BY <2>2, <2>3
<1>4. ASSUME NEW i \in 1..(k - 1), NEW j \in 1..(k - 1), lineStarts[i + 1] = lineStarts[j + 1]
      PROVE  i = j
  <2>1. i + 1 \in Line /\ j + 1 \in Line
    BY <1>1
  <2>2. ~(lineStarts[i + 1] < lineStarts[j + 1]) /\ ~(lineStarts[j + 1] < lineStarts[i + 1])
    BY <1>1, <1>4, <2>1
  <2>3. ~(i + 1 < j + 1) /\ ~(j + 1 < i + 1)
    BY <2>1, <2>2, LinesAre
  <2> QED BY <2>3
<1>5. ASSUME NEW n \in T PROVE \E i \in 1..(k - 1) : lineStarts[i + 1] = n
  <2>1. n \in 1..Len(text) /\ text[n] = "lf" /\ n <= o
    BY <1>1
  <2>2. PICK j \in Line \ {1} : lineStarts[j] = n
    BY <2>1, LinesAre
  <2>3. j \in 1..k
    BY <1>2, <2>1, <2>2
  <2>4. j - 1 \in 1..(k - 1) /\ (j - 1) + 1 = j
    BY <1>1, <2>2, <2>3
  <2> QED BY <2>2, <2>4
<1> HIDE DEF T
<1>6. f \in Bijection(1..(k - 1), T)
  <2>1. f \in [1..(k - 1) -> T]
    BY <1>3
  <2>2. \A i, j \in 1..(k - 1) : f[i] = f[j] => i = j
    BY <1>4
  <2>3. \A n \in T : \E i \in 1..(k - 1) : f[i] = n
    BY <1>5
  <2> HIDE DEF f
  <2> QED BY <2>1, <2>2, <2>3 DEF Bijection, Injection, Surjection, IsInjective
<1> HIDE DEF f
<1>7. ExistsBijection(1..(k - 1), T)
  BY <1>6 DEF ExistsBijection
<1>8. IsFiniteSet(1..(k - 1)) /\ Cardinality(1..(k - 1)) = k - 1
  <2>1. k - 1 \in Nat
    BY <1>1
  <2> QED BY <2>1, Counted
<1> QED BY <1>7, <1>8, FS_Bijection DEF T
-----------------------------------------------------------------------------
(* Where a line starts and ends, no character is cut.                       *)

LEMMA StartOutside ==
  ASSUME TextInv, NEW k \in Line
  PROVE  lineStarts[k] \in 0..Len(text) /\ ~InsideCharacter(lineStarts[k])
<1>1. lineStarts[k] \in 0..Len(text)
  BY LinesAre
<1>2. lineStarts[k] = 0 \/ (lineStarts[k] # 0 /\ text[lineStarts[k]] \notin {"t", "l3", "l4"})
  BY LinesAre
<1> QED BY <1>1, <1>2, Outside DEF TextInv

LEMMA EndOfLine ==
  ASSUME TextInv, NEW k \in Line
  PROVE  /\ LineEnd(k) \in lineStarts[k]..Len(text)
         /\ ~InsideCharacter(LineEnd(k))
         /\ \A o \in lineStarts[k]..LineEnd(k) : InLine(o, k) /\ ~InsideLineBreak(o)
         /\ \A o \in 0..Len(text) : InLine(o, k) /\ ~InsideLineBreak(o) => o <= LineEnd(k)
<1> DEFINE start == lineStarts[k]
           last == Len(lineStarts)
<1>1. /\ Len(text) \in Nat /\ last \in Nat /\ Line = 1..last
      /\ start \in 0..Len(text) /\ \A i \in Line : lineStarts[i] \in Nat
  BY LinesAre
<1>2. ASSUME NEW o \in start..Len(text), InsideLineBreak(o)
      PROVE  o > start /\ o # Len(text) /\ text[o] = "cr" /\ text[o + 1] = "lf"
  <2>1. o \in 1..(Len(text) - 1) /\ text[o] = "cr" /\ text[o + 1] = "lf"
    BY <1>2 DEF InsideLineBreak
  <2>2. start # 0 => text[start] = "lf"
    BY LinesAre
  <2>3. o # start
    BY <2>1, <2>2
  <2> QED BY <1>1, <2>1, <2>3
<1>3. CASE k = last
  <2>1. LineEnd(k) = Len(text)
    BY <1>3 DEF LineEnd
  <2>2. ~InsideCharacter(Len(text))
    BY <1>1, Outside DEF TextInv
  <2>3. ASSUME NEW o \in start..Len(text), InsideLineBreak(o) PROVE FALSE
    <3>1. o > start /\ o + 1 \in 1..Len(text) /\ text[o + 1] = "lf"
      BY <1>1, <1>2, <2>3
    <3>2. PICK j \in Line : lineStarts[j] = o + 1
      BY <3>1, LinesAre
    <3>3. j < k \/ j = k
      BY <1>1, <1>3
    <3>4. lineStarts[j] <= start
      BY <1>1, <3>3, LinesAre
    <3> QED BY <1>1, <3>1, <3>2, <3>4
  <2>4. \A o \in start..Len(text) : InLine(o, k)
    BY <1>1, <1>3 DEF InLine
  <2> QED BY <1>1, <2>1, <2>2, <2>3, <2>4
<1>4. CASE k # last
  <2> DEFINE end == lineStarts[k + 1] - 1
  <2>1. k + 1 \in Line \ {1} /\ k < k + 1
    BY <1>1, <1>4
  <2>2. end + 1 = lineStarts[k + 1] /\ end + 1 \in 1..Len(text) /\ text[end + 1] = "lf"
    BY <2>1, LinesAre
  <2>3. start < end + 1
    BY <2>1, <2>2, LinesAre
  <2>4. end \in Nat /\ end \in start..Len(text)
    BY <1>1, <2>2, <2>3
  <2>5. LineEnd(k) = IF end > start /\ text[end] = "cr" THEN end - 1 ELSE end
    BY <1>4 DEF LineEnd
  <2>6. \A o \in 0..Len(text) : InLine(o, k) <=> o \in start..end
    BY <1>1, <1>4, <2>2, <2>4 DEF InLine
  <2>7. ASSUME NEW o \in start..end, InsideLineBreak(o) PROVE o = end /\ LineEnd(k) = end - 1
    <3>1. o > start /\ text[o] = "cr" /\ o + 1 \in 1..Len(text) /\ text[o + 1] = "lf"
      BY <1>1, <1>2, <2>2, <2>4, <2>7
    <3>2. PICK j \in Line : lineStarts[j] = o + 1
      BY <3>1, LinesAre
    <3>3. j > k
      <4>1. ~(j = k)
        BY <1>1, <3>1, <3>2
      <4>2. ~(j < k)
        BY <1>1, <3>1, <3>2, LinesAre
      <4> QED BY <1>1, <4>1, <4>2
    <3>4. j = k + 1 \/ k + 1 < j
      BY <1>1, <3>3
    <3>5. lineStarts[k + 1] <= lineStarts[j]
      BY <1>1, <2>1, <3>4, LinesAre
    <3>6. o = end
      BY <1>1, <2>2, <2>4, <3>2, <3>5
    <3> QED BY <2>5, <3>1, <3>6
  <2> HIDE DEF end
  <2>8. CASE end > start /\ text[end] = "cr"
    <3>1. LineEnd(k) = end - 1 /\ end # 0 /\ end \in 1..(Len(text) - 1) /\ end - 1 \in 0..Len(text)
      BY <1>1, <2>2, <2>4, <2>5, <2>8
    <3>2. ~InsideCharacter(end - 1)
      <4>1. end - 1 # Len(text) /\ text[(end - 1) + 1] # "t"
        BY <2>4, <2>8, <3>1
      <4> QED BY <3>1, <4>1, Outside DEF TextInv
    <3>3. InsideLineBreak(end)
      BY <2>2, <2>8, <3>1 DEF InsideLineBreak
    <3>4. \A o \in start..(end - 1) : o \in start..end /\ o # end /\ o \in 0..Len(text)
      BY <1>1, <2>4
    <3>5. \A o \in start..end : o # end => o <= end - 1
      BY <1>1, <2>4
    <3> QED BY <1>1, <2>4, <2>6, <2>7, <2>8, <3>1, <3>2, <3>3, <3>4, <3>5
  <2>9. CASE ~(end > start /\ text[end] = "cr")
    <3>1. LineEnd(k) = end
      BY <2>5, <2>9
    <3>2. ~InsideCharacter(end)
      <4>1. end # Len(text) /\ text[end + 1] # "t" /\ end \in 0..Len(text)
        BY <1>1, <2>2, <2>4
      <4> QED BY <4>1, Outside DEF TextInv
    <3>3. \A o \in start..end : o \in 0..Len(text) /\ o <= end /\ ~InsideLineBreak(o)
      BY <1>1, <2>4, <2>7, <3>1
    <3> QED BY <2>4, <2>6, <3>1, <3>2, <3>3
  <2> QED BY <2>8, <2>9
<1> QED BY <1>3, <1>4
-----------------------------------------------------------------------------
(* ByteOffsetAt finds what its loop finds.                                  *)
LEMMA OffsetIs ==
  ASSUME TextInv, NEW position \in Position, position.line + 1 \in Line
  PROVE  \E f : /\ IsScan(lineStarts[position.line + 1], LineEnd(position.line + 1),
                          position.character, f)
                /\ ByteOffsetAt(position) = f[<<lineStarts[position.line + 1], 0>>]
<1> DEFINE line == position.line + 1
           start == lineStarts[line]
           end == LineEnd(line)
           target == position.character
           f == CHOOSE scan : IsScan(start, end, target, scan)
<1>1. ~(line > Len(lineStarts)) /\ target \in Nat
  BY LinesAre DEF Position
<1>2. end \in 0..Len(text) /\ start \in 0..end
  <2>1. /\ end \in start..Len(text) /\ start \in 0..Len(text) /\ Len(text) \in Nat
    BY EndOfLine, LinesAre
  <2> HIDE DEF start, end
  <2> QED BY <2>1
<1>3. ByteOffsetAt(position) = f[<<start, 0>>]
  BY <1>1 DEF ByteOffsetAt, IsScan, ScanRest
<1> HIDE DEF start, end, target
<1>4. IsScan(start, end, target, f)
  <2>1. \E scan : IsScan(start, end, target, scan)
    BY <1>1, <1>2, ScanExists DEF TextInv
  <2> QED BY <2>1, Zenon
<1> HIDE DEF f
<1> QED BY <1>3, <1>4 DEF start, end, target

LEMMA OffsetsBack ==
  ASSUME TextInv
  PROVE  OffsetsComeBack
<1> SUFFICES ASSUME NEW o \in CursorOffsets
             PROVE  ByteOffsetAt(PositionAt(o)) = o
  BY DEF OffsetsComeBack
<1>1. o \in 0..Len(text) /\ ~InsideCharacter(o) /\ ~InsideLineBreak(o)
  BY DEF CursorOffsets
<1>2. PICK k \in Line : InLine(o, k)
  BY <1>1, LineOfOffset
<1> DEFINE start == lineStarts[k]
           end == LineEnd(k)
           position == [line |-> k - 1, character |-> Utf16Length(start, o)]
<1>3. PositionAt(o) = position
  BY <1>1, <1>2, PositionIs
<1>4. start \in 0..Len(text) /\ ~InsideCharacter(start) /\ Len(text) \in Nat /\ k \in Nat /\ k > 0
  BY StartOutside, LinesAre
<1>5. end \in start..Len(text) /\ ~InsideCharacter(end) /\ o <= end /\ start <= o
  BY <1>1, <1>2, EndOfLine DEF InLine
<1> HIDE DEF start, end
<1>6. start \in 0..o /\ end \in 0..Len(text) /\ start \in 0..end /\ o \in start..end
  BY <1>1, <1>4, <1>5
<1>7. Utf16Length(start, o) \in Nat
  BY <1>1, <1>6, Utf16Type DEF TextInv
<1>8. position \in Position /\ position.line + 1 = k /\ position.character = Utf16Length(start, o)
  BY <1>4, <1>7 DEF Position
<1> HIDE DEF position
<1>9. PICK f : /\ IsScan(start, end, Utf16Length(start, o), f)
               /\ ByteOffsetAt(position) = f[<<start, 0>>]
  BY <1>8, OffsetIs DEF start, end
<1>10. f[<<start, 0>>] = o
  BY <1>1, <1>4, <1>5, <1>6, <1>9, ScanFinds DEF TextInv
<1> QED BY <1>3, <1>9, <1>10

LEMMA PositionsBack ==
  ASSUME TextInv
  PROVE  AcceptedPositionsComeBack
<1> SUFFICES ASSUME NEW position \in Positions, ByteOffsetAt(position) # NoOffset
             PROVE  /\ ByteOffsetAt(position) \in CursorOffsets
                    /\ PositionAt(ByteOffsetAt(position)) = position
  BY DEF AcceptedPositionsComeBack
<1> DEFINE k == position.line + 1
           o == ByteOffsetAt(position)
<1>1. position \in Position /\ position.line \in Nat /\ position.character \in Nat
      /\ position = [line |-> position.line, character |-> position.character]
  BY DEF Positions, Position
<1>2. k \in Line
  <2>1. ~(k > Len(lineStarts))
    BY DEF ByteOffsetAt
  <2> QED BY <1>1, <2>1, LinesAre
<1> DEFINE start == lineStarts[k]
           end == LineEnd(k)
<1>3. start \in 0..Len(text) /\ ~InsideCharacter(start) /\ Len(text) \in Nat
  BY <1>2, StartOutside, LinesAre
<1>4. end \in start..Len(text) /\ ~InsideCharacter(end)
  BY <1>2, EndOfLine
<1>5. PICK f : IsScan(start, end, position.character, f) /\ o = f[<<start, 0>>]
  BY <1>1, <1>2, OffsetIs
<1> HIDE DEF o, start, end
<1>6. end \in 0..Len(text) /\ start \in 0..end
  BY <1>3, <1>4
<1>7. f[<<start, 0>>] # NoOffset
  BY <1>5 DEF o
<1>8. /\ o \in start..end /\ ~InsideCharacter(o)
      /\ Utf16Length(start, o) = position.character
  BY <1>1, <1>3, <1>4, <1>5, <1>6, <1>7, ScanFound DEF TextInv
<1>9. InLine(o, k) /\ ~InsideLineBreak(o) /\ o \in 0..Len(text)
  BY <1>2, <1>3, <1>4, <1>8, EndOfLine DEF start, end
<1>10. PositionAt(o) = [line |-> k - 1, character |-> position.character]
  BY <1>8, <1>9, PositionIs DEF start
<1>11. k - 1 = position.line
  BY <1>1
<1> QED BY <1>1, <1>8, <1>9, <1>10, <1>11 DEF CursorOffsets, o

(* Offsets and positions name the same places, in a text of any length and  *)
(* of any bytes, valid UTF-8 or not, and after any replacement of it.       *)
THEOREM PositionsAndOffsets == Spec => []PositionsAndOffsetsAgree
<1>1. TextInv => PositionsAndOffsetsAgree
  BY OffsetsBack, PositionsBack DEF PositionsAndOffsetsAgree
<1> QED BY <1>1, TextAlways, PTL
-----------------------------------------------------------------------------
(* Code units counted without a loop.                                       *)

Starts(i, o) == {n \in i..(o - 1) : ~InsideCharacter(n)}
WideStarts(i, o) == {n \in Starts(i, o) : text[n + 1] = "l4" /\ Size(n, Len(text)) # 1}

LEMMA UnitsCounted ==
  ASSUME Valid, NEW o \in 0..Len(text), ~InsideCharacter(o),
         NEW start \in 0..o, ~InsideCharacter(start)
  PROVE  /\ IsFiniteSet(Starts(start, o)) /\ IsFiniteSet(WideStarts(start, o))
         /\ Utf16Length(start, o) = Cardinality(Starts(start, o)) + Cardinality(WideStarts(start, o))
<1> DEFINE HasUnits(i) ==
             /\ IsFiniteSet(Starts(i, o)) /\ IsFiniteSet(WideStarts(i, o))
             /\ Utf16Length(i, o) = Cardinality(Starts(i, o)) + Cardinality(WideStarts(i, o))
           S == {i \in start..o : ~InsideCharacter(i) => HasUnits(i)}
<1>1. Len(text) \in Nat /\ o \in Nat /\ start \in Nat
  BY DEF Valid
<1>2. ASSUME NEW i \in start..o, (i + 1)..o \subseteq S PROVE i \in S
  <2> SUFFICES ASSUME ~InsideCharacter(i) PROVE HasUnits(i)
    OBVIOUS
  <2>1. CASE i = o
    <3>1. Starts(i, o) = {} /\ WideStarts(i, o) = {}
      BY <1>1, <2>1 DEF Starts, WideStarts
    <3>2. Utf16Length(i, o) = 0
      BY <2>1, Utf16AtEnd
    <3>3. IsFiniteSet({}) /\ Cardinality({}) = 0
      BY FS_EmptySet
    <3> QED BY <3>1, <3>2, <3>3
  <2>2. CASE i # o
    <3> DEFINE next == i + Size(i, Len(text))
    <3>1. i \in 0..(o - 1) /\ i \in 0..(Len(text) - 1) /\ Len(text) \in 0..Len(text)
      BY <1>1, <2>2
    <3>2. /\ next \in (i + 1)..o /\ ~InsideCharacter(next)
          /\ Utf16Length(i, o) = Units(i, Len(text)) + Utf16Length(next, o)
      BY <3>1, Utf16Next
    <3>3. \A n \in (i + 1)..(next - 1) : InsideCharacter(n)
      <4>1. i \in 0..(Len(text) - 1)
        BY <3>1
      <4>2. \A n \in (i + 1)..(i + Size(i, Len(text)) - 1) : InsideCharacter(n)
        BY <4>1, NextCharacter
      <4>3. Size(i, Len(text)) \in 1..4
        BY <3>1, SizeType
      <4>4. next - 1 = i + Size(i, Len(text)) - 1
        BY <4>1, <4>3
      <4> QED BY <4>2, <4>4
    <3>4. Units(i, Len(text)) = IF text[i + 1] = "l4" /\ Size(i, Len(text)) # 1 THEN 2 ELSE 1
      <4>1. Size(i, Len(text)) # 1 => (Size(i, Len(text)) = 4 <=> text[i + 1] = "l4")
        BY <3>1, LongCharacter
      <4> QED BY <4>1 DEF Units
    <3> HIDE DEF next
    <3>5. HasUnits(next)
      BY <1>2, <3>2
    <3>6. Starts(i, o) = Starts(next, o) \cup {i} /\ i \notin Starts(next, o)
      <4>1. \A n \in i..(o - 1) : n = i \/ n \in (i + 1)..(next - 1) \/ n \in next..(o - 1)
        BY <1>1, <3>2
      <4>2. \A n \in next..(o - 1) : n \in i..(o - 1) /\ n # i
        BY <1>1, <3>2
      <4>3. i \in i..(o - 1)
        BY <1>1, <3>1
      <4> QED BY <3>3, <4>1, <4>2, <4>3 DEF Starts
    <3>7. WideStarts(i, o) =
            IF text[i + 1] = "l4" /\ Size(i, Len(text)) # 1
            THEN WideStarts(next, o) \cup {i} ELSE WideStarts(next, o)
      BY <3>6 DEF WideStarts
    <3>8. i \notin WideStarts(next, o)
      BY <3>6 DEF WideStarts
    <3> DEFINE A == Starts(next, o)
               B == WideStarts(next, o)
    <3>9. /\ IsFiniteSet(A \cup {i}) /\ Cardinality(A \cup {i}) = Cardinality(A) + 1
          /\ Cardinality(A) \in Nat
      BY <3>5, <3>6, FS_AddElement, FS_CardinalityType
    <3>10. /\ IsFiniteSet(B \cup {i}) /\ Cardinality(B \cup {i}) = Cardinality(B) + 1
           /\ Cardinality(B) \in Nat
      BY <3>5, <3>8, FS_AddElement, FS_CardinalityType
    <3> QED BY <3>2, <3>4, <3>5, <3>6, <3>7, <3>9, <3>10
  <2> QED BY <2>1, <2>2
<1> HIDE DEF S
<1>3. start \in Int /\ o \in Int
  BY <1>1
<1>4. start..o \subseteq S
  BY <1>2, <1>3, BackwardInduction, Zenon
<1>5. start \in start..o
  BY <1>1
<1> QED BY <1>4, <1>5 DEF S

(* The last line feed before an offset starts its line. *)
LEMMA LineHasNoFeed ==
  ASSUME TextInv, NEW o \in 0..Len(text), NEW k, InLine(o, k)
  PROVE  /\ \A i \in (lineStarts[k] + 1)..o : text[i] # "lf"
         /\ {i \in 0..(o - 1) : \A n \in (i + 1)..o : text[n] # "lf"} = lineStarts[k]..(o - 1)
<1> DEFINE start == lineStarts[k]
<1>1. /\ Len(text) \in Nat /\ start \in 0..Len(text) /\ start <= o /\ k \in Line
      /\ \A i \in Line : lineStarts[i] \in Nat
  BY LinesAre DEF InLine
<1>2. ASSUME NEW i \in (start + 1)..o, text[i] = "lf" PROVE FALSE
  <2>1. i \in 1..Len(text) /\ i > start
    BY <1>1
  <2>2. PICK j \in Line : lineStarts[j] = i
    BY <1>2, <2>1, LinesAre
  <2>3. j \in 1..k
    BY <1>1, <2>2, LinesBefore
  <2>4. j = k \/ j < k
    BY <1>1, <2>3, LinesAre
  <2>5. lineStarts[j] <= start
    BY <1>1, <2>4, LinesAre
  <2> QED BY <1>1, <2>1, <2>2, <2>5
<1>3. ASSUME NEW i \in 0..(o - 1)
      PROVE  (\A n \in (i + 1)..o : text[n] # "lf") <=> i \in start..(o - 1)
  <2>1. CASE i < start
    <3>1. start # 0 /\ text[start] = "lf" /\ start \in (i + 1)..o
      BY <1>1, <2>1, LinesAre
    <3> QED BY <1>1, <2>1, <3>1
  <2>2. CASE i >= start
    BY <1>1, <1>2, <2>2
  <2> QED BY <1>1, <2>1, <2>2
<1> HIDE DEF start
<1>4. start..(o - 1) \subseteq 0..(o - 1)
  BY <1>1
<1>5. {i \in 0..(o - 1) : \A n \in (i + 1)..o : text[n] # "lf"} = start..(o - 1)
  BY <1>3, <1>4
<1> QED BY <1>2, <1>5 DEF start

LEMMA PositionsCount ==
  ASSUME TextInv
  PROVE  PositionsCountCodeUnits
<1> SUFFICES ASSUME NEW o \in CursorOffsets
             PROVE  LET line == {i \in 0..(o - 1) : \A k \in (i + 1)..o : text[k] # "lf"}
                        starts == {i \in line : ~InsideCharacter(i)}
                    IN  PositionAt(o) =
                          [line |-> Cardinality({i \in 1..o : text[i] = "lf"}),
                           character |-> Cardinality(starts)
                             + Cardinality({i \in starts : text[i + 1] = "l4" /\ Size(i, Len(text)) # 1})]
  BY DEF PositionsCountCodeUnits
<1>1. o \in 0..Len(text) /\ ~InsideCharacter(o)
  BY DEF CursorOffsets
<1>2. PICK k \in Line : InLine(o, k)
  BY <1>1, LineOfOffset
<1> DEFINE start == lineStarts[k]
           line == {i \in 0..(o - 1) : \A n \in (i + 1)..o : text[n] # "lf"}
           starts == {i \in line : ~InsideCharacter(i)}
           wide == {i \in starts : text[i + 1] = "l4" /\ Size(i, Len(text)) # 1}
<1>3. start \in 0..o /\ ~InsideCharacter(start)
  <2>1. start \in 0..Len(text) /\ start <= o
    BY <1>2, StartOutside DEF InLine
  <2> QED BY <1>1, <2>1, StartOutside
<1>4. line = start..(o - 1)
  BY <1>1, <1>2, LineHasNoFeed
<1> HIDE DEF line
<1>5. starts = Starts(start, o) /\ wide = WideStarts(start, o)
  BY <1>4 DEF Starts, WideStarts
<1>6. Utf16Length(start, o) = Cardinality(starts) + Cardinality(wide)
  BY <1>1, <1>3, <1>5, UnitsCounted DEF TextInv
<1>7. Cardinality({i \in 1..o : text[i] = "lf"}) = k - 1
  BY <1>1, <1>2, LineFeeds
<1>8. PositionAt(o) = [line |-> k - 1, character |-> Utf16Length(start, o)]
  BY <1>1, <1>2, PositionIs
<1> QED BY <1>6, <1>7, <1>8 DEF line

(* Positions count line feeds and UTF-16 code units, in any text.           *)
THEOREM PositionsCountUnits == Spec => []PositionsCountCodeUnits
BY PositionsCount, TextAlways, PTL
-----------------------------------------------------------------------------
(* Folding ranges.                                                          *)

FeedsUpTo(o) == Cardinality({i \in 1..o : text[i] = "lf"})

LEMMA FeedsType ==
  ASSUME TextInv, NEW o \in 0..Len(text)
  PROVE  IsFiniteSet({i \in 1..o : text[i] = "lf"}) /\ FeedsUpTo(o) \in Nat
<1>1. PICK k \in Line : InLine(o, k)
  BY LineOfOffset
<1>2. IsFiniteSet({i \in 1..o : text[i] = "lf"})
  BY <1>1, LineFeeds
<1> QED BY <1>2, FS_CardinalityType DEF FeedsUpTo

LEMMA FeedsGrow ==
  ASSUME TextInv, NEW o \in 0..Len(text), NEW i \in 0..o
  PROVE  FeedsUpTo(i) <= FeedsUpTo(o)
<1>1. o \in Nat /\ i \in Nat /\ i <= o
  BY DEF TextInv, Valid
<1>2. {n \in 1..i : text[n] = "lf"} \in SUBSET {n \in 1..o : text[n] = "lf"}
  BY <1>1
<1> QED BY <1>2, FeedsType, FS_Subset DEF FeedsUpTo

LEMMA FeedsNext ==
  ASSUME TextInv, NEW o \in 1..Len(text)
  PROVE  FeedsUpTo(o) = IF text[o] = "lf" THEN FeedsUpTo(o - 1) + 1 ELSE FeedsUpTo(o - 1)
<1> DEFINE A == {n \in 1..(o - 1) : text[n] = "lf"}
           B == {n \in 1..o : text[n] = "lf"}
<1>1. Len(text) \in Nat /\ o - 1 \in 0..Len(text)
  BY DEF TextInv, Valid
<1>2. B = IF text[o] = "lf" THEN A \cup {o} ELSE A
  <2>1. \A n \in 1..o : n = o \/ n \in 1..(o - 1)
    BY <1>1
  <2>2. \A n \in 1..(o - 1) : n \in 1..o
    BY <1>1
  <2>3. o \in 1..o
    BY <1>1
  <2>4. CASE text[o] = "lf"
    BY <2>1, <2>2, <2>3, <2>4
  <2>5. CASE text[o] # "lf"
    BY <2>1, <2>2, <2>3, <2>5
  <2> QED BY <2>4, <2>5
<1>3. o \notin A
  BY <1>1
<1>4. IsFiniteSet(A)
  BY <1>1, FeedsType
<1> HIDE DEF A, B
<1>5. Cardinality(A \cup {o}) = Cardinality(A) + 1
  BY <1>3, <1>4, FS_AddElement
<1> QED BY <1>2, <1>5 DEF FeedsUpTo, A, B

(* A position is at the start of its line if a line feed is before it.      *)
LEMMA AtLineStart ==
  ASSUME TextInv, NEW o \in CursorOffsets
  PROVE  /\ PositionAt(o).line = FeedsUpTo(o)
         /\ PositionAt(o).character \in Nat
         /\ PositionAt(o).character = 0 <=> o = 0 \/ text[o] = "lf"
<1>1. o \in 0..Len(text) /\ ~InsideCharacter(o) /\ Len(text) \in Nat
  BY LinesAre DEF CursorOffsets
<1>2. PICK k \in Line : InLine(o, k)
  BY <1>1, LineOfOffset
<1> DEFINE start == lineStarts[k]
<1>3. start \in 0..o /\ start \in 0..Len(text)
  <2>1. start \in 0..Len(text) /\ start <= o
    BY <1>2, StartOutside DEF InLine
  <2> QED BY <1>1, <2>1
<1>4. PositionAt(o) = [line |-> k - 1, character |-> Utf16Length(start, o)]
  BY <1>1, <1>2, PositionIs
<1>5. FeedsUpTo(o) = k - 1
  BY <1>1, <1>2, LineFeeds DEF FeedsUpTo
<1>6. Utf16Length(start, o) \in Nat /\ (Utf16Length(start, o) = 0 <=> start = o)
  BY <1>1, <1>3, Utf16Type DEF TextInv
<1>7. start = 0 \/ text[start] = "lf"
  BY LinesAre
<1>8. o # start => o # 0 /\ text[o] # "lf"
  <2> SUFFICES ASSUME o # start PROVE o # 0 /\ text[o] # "lf"
    OBVIOUS
  <2>1. o \in (start + 1)..o
    BY <1>1, <1>3
  <2> QED BY <1>1, <1>2, <1>3, <2>1, LineHasNoFeed
<1> HIDE DEF start
<1> QED BY <1>4, <1>5, <1>6, <1>7, <1>8

LEMMA FoldsEnd ==
  ASSUME TextInv
  PROVE  FoldsEndWithTheirBlock
<1> SUFFICES ASSUME NEW from \in CursorOffsets, NEW to \in CursorOffsets, from < to
             PROVE  FoldingRange(from, to) =
                      IF FeedsUpTo(to - 1) > FeedsUpTo(from)
                      THEN {[startLine |-> FeedsUpTo(from), endLine |-> FeedsUpTo(to - 1)]} ELSE {}
  BY DEF FoldsEndWithTheirBlock, FeedsUpTo
<1> DEFINE start == FeedsUpTo(from)
           before == FeedsUpTo(to - 1)
           end == PositionAt(to)
<1>1. /\ Len(text) \in Nat /\ from \in 0..Len(text) /\ to \in 1..Len(text) /\ to \in 0..Len(text)
      /\ to - 1 \in 0..Len(text) /\ from \in 0..(to - 1)
  BY LinesAre DEF CursorOffsets
<1>2. start \in Nat /\ before \in Nat /\ start <= before
  BY <1>1, FeedsType, FeedsGrow
<1>3. end.line = IF text[to] = "lf" THEN before + 1 ELSE before
  BY <1>1, AtLineStart, FeedsNext
<1>4. end.character = 0 <=> text[to] = "lf"
  BY <1>1, AtLineStart
<1>5. PositionAt(from).line = start
  BY AtLineStart
<1> HIDE DEF start, before, end
<1>6. (IF end.character = 0 /\ end.line > start THEN end.line - 1 ELSE end.line) = before
  BY <1>2, <1>3, <1>4
<1>7. FoldingRange(from, to) =
        IF before <= start THEN {} ELSE {[startLine |-> start, endLine |-> before]}
  BY <1>5, <1>6 DEF FoldingRange, end
<1>8. before <= start <=> ~(before > start)
  BY <1>2
<1> QED BY <1>7, <1>8 DEF start, before

(* A block folds up to the line of its last character, in any text.         *)
THEOREM FoldsEndWithBlocks == Spec => []FoldsEndWithTheirBlock
BY FoldsEnd, TextAlways, PTL
=============================================================================
