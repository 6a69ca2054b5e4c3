------------------------------ MODULE WireProofs ------------------------------
(***************************************************************************)
(* Proofs of what WireGrammar.tla says of the parsers, for every message   *)
(* however long and however cut, and bytes of any even width.  The         *)
(* invariant, WireInv, says of each parser where it is in its message:     *)
(* before a part, or so far inside the payload of one.  There is a lemma   *)
(* for each way in which a byte is taken (a byte with a meaning, a length, *)
(* a byte of an array...), and the step of a parser is one of them in each *)
(* of its states.  A buffer is many steps: they are followed by induction  *)
(* over its bytes, up to a bound (UpTo).                                   *)
(***************************************************************************)
EXTENDS WireGrammar, SequenceTheorems, WellFoundedInduction, TLAPS

(* A set of numbers has a least one. *)
LEMMA LeastExists ==
  ASSUME NEW T, T \subseteq Nat, T # {}
  PROVE  \E x \in T : \A y \in T : x <= y
<1>1. PICK x \in T : \A y \in T : ~ (<<y, x>> \in OpToRel(<, Nat))
  BY WFMin, NatLessThanWellFounded
<1>2. \A y \in T : ~ (y < x)
  BY <1>1 DEF OpToRel
<1> QED BY <1>2

(* Induction up to a bound, over the members of a set. *)
LEMMA UpTo ==
  ASSUME NEW n \in Nat, NEW G, 0 \in G, \A i \in 0..(n - 1) : i \in G => i + 1 \in G
  PROVE  \A i \in 0..n : i \in G
<1> SUFFICES ASSUME {i \in 0..n : i \notin G} # {} PROVE FALSE
  OBVIOUS
<1> DEFINE B == {i \in 0..n : i \notin G}
<1>0. B \subseteq Nat /\ B # {}
  OBVIOUS
<1>1. PICK x \in B : \A y \in B : x <= y
  <2> HIDE DEF B
  <2> QED BY <1>0, LeastExists
<1>2. x \in 0..n /\ x # 0
  BY <1>1
<1>3. x - 1 \in 0..(n - 1) /\ (x - 1) + 1 = x
  BY <1>2
<1>4. x - 1 \notin B
  BY <1>1, <1>3
<1>5. x - 1 \in G
  BY <1>3, <1>4
<1> QED BY <1>1, <1>3, <1>5

-----------------------------------------------------------------------------
(* Numbers: they are facts of their own, since next to sequences the solver is
   slow to find them. *)
LEMMA InOrder == \A x, y, z \in Nat : x <= y /\ y <= z => x <= z
OBVIOUS

LEMMA BehindHead == \A x \in Nat : \A h \in 0..2 : x + h + 1 \in Nat \ {0}
OBVIOUS

LEMMA BeginsBefore == \A n, l, e \in Nat : n = l - e /\ n > 0 => e < l
OBVIOUS

LEMMA ListEndsBehind ==
  \A l, e, m, k \in Nat : m = l - e /\ k > 0 => l < e + (1 + ((m - 1) + k))
OBVIOUS

(* The parts of a layout. *)
IsPart(part) ==
  /\ part.t \in {"one", "counted", "number", "address", "fixed"}
  /\ part.t \in {"counted", "address"} => part.least \in {0, 1}
  /\ part.t = "fixed" => part.n \in Nat \ {0}
IsLayout(parts) == Len(parts) \in Nat /\ \A i \in 1..Len(parts) : IsPart(parts[i])

LEMMA BytesAreNumbers == Byte \subseteq Nat /\ {0, 1, 2, 3, 4, 5, 6, 7, 8} \subseteq Byte
BY WireAssumption DEF Byte

LEMMA PartsAreParts ==
  /\ \A S : IsPart(One(S)) /\ One(S).t = "one"
  /\ \A n \in {0, 1} : IsPart(Counted(n)) /\ Counted(n).t = "counted" /\ Counted(n).least = n
  /\ IsPart(Number) /\ Number.t = "number"
  /\ \A n \in {0, 1} : IsPart(Address(n)) /\ Address(n).t = "address" /\ Address(n).least = n
  /\ IsPart(Fixed(2)) /\ Fixed(2).t = "fixed" /\ Fixed(2).n = 2
BY DEF IsPart, One, Counted, Number, Address, Fixed

LEMMA AtIsNumber ==
  ASSUME NEW s \in Seq(Byte), NEW i \in Nat \ {0}
  PROVE  At(s, i) \in Byte /\ At(s, i) \in Nat
<1>1. CASE i <= Len(s)
  <2>1. i \in 1..Len(s)
    BY <1>1
  <2>2. s[i] \in Byte
    BY <2>1
  <2> QED BY <1>1, <2>2, BytesAreNumbers DEF At
<1>2. CASE ~ (i <= Len(s))
  BY <1>2, BytesAreNumbers DEF At
<1> QED BY <1>1, <1>2

LEMMA SizeIsPositive ==
  ASSUME NEW part, IsPart(part), NEW s \in Seq(Byte)
  PROVE  Size(part, s) \in Nat \ {0}
<1>1. At(s, 1) \in Nat /\ At(s, 2) \in Nat
  BY AtIsNumber
<1>2. Ipv4Len \in Nat /\ Ipv6Len \in Nat
  BY WireAssumption, BytesAreNumbers
<1> QED BY <1>1, <1>2 DEF Size, IsPart, Larger

(* What a whole part is does not change with the bytes behind it. *)
LEMMA WholePartKept ==
  ASSUME NEW part, IsPart(part), NEW s \in Seq(Byte), NEW b \in Byte, Size(part, s) <= Len(s)
  PROVE  /\ Size(part, Append(s, b)) = Size(part, s)
         /\ Wrong(part, Append(s, b)) <=> Wrong(part, s)
         /\ HeadSize(part, Append(s, b)) = HeadSize(part, s)
<1> DEFINE r == Append(s, b)
<1>1. Len(s) \in Nat /\ Len(r) = Len(s) + 1 /\ \A i \in 1..Len(s) : r[i] = s[i]
  OBVIOUS
<1>2. Size(part, s) \in Nat \ {0}
  BY SizeIsPositive
<1>0. 1 \in 1..Len(s)
  BY <1>1, <1>2
<1>3. r[1] = s[1] /\ At(s, 1) = s[1] /\ At(r, 1) = s[1]
  BY <1>0, <1>1 DEF At, r
<1>4. s[1] \in Nat
  BY <1>3, AtIsNumber
<1> SUFFICES /\ Size(part, r) = Size(part, s)
             /\ Wrong(part, r) <=> Wrong(part, s)
             /\ HeadSize(part, r) = HeadSize(part, s)
  OBVIOUS
<1> HIDE DEF r
<1>5. CASE part.t = "one"
  BY <1>3, <1>5 DEF Size, Wrong, HeadSize
<1>6. CASE part.t = "counted"
  BY <1>3, <1>6 DEF Size, Wrong, HeadSize
<1>7. CASE part.t = "number"
  <2>1. 4 <= Len(s)
    BY <1>7 DEF Size
  <2>2. r[1] = s[1] /\ r[2] = s[2] /\ r[3] = s[3] /\ r[4] = s[4]
    BY <2>1, <1>1
  <2>3. 1..4 = {1, 2, 3, 4}
    OBVIOUS
  <2> QED BY <1>1, <1>7, <2>1, <2>2, <2>3 DEF Size, Wrong, HeadSize
<1>8. CASE part.t = "fixed"
  BY <1>8 DEF Size, Wrong, HeadSize
<1>9. CASE part.t = "address"
  <2>1. Wrong(part, r) <=> Wrong(part, s)
    BY <1>3, <1>9 DEF Wrong
  <2>2. HeadSize(part, r) = HeadSize(part, s)
    BY <1>3, <1>9 DEF HeadSize
  <2>3. CASE s[1] \in {1, 4}
    <3>1. Size(part, s) = IF At(s, 1) = 1 THEN 1 + Ipv4Len ELSE 1 + Ipv6Len
      BY <1>3, <1>9, <2>3 DEF Size
    <3>2. Size(part, r) = IF At(r, 1) = 1 THEN 1 + Ipv4Len ELSE 1 + Ipv6Len
      BY <1>3, <1>9, <2>3 DEF Size
    <3> QED BY <1>3, <2>1, <2>2, <3>1, <3>2
  <2>4. CASE s[1] \notin {1, 4}
    <3>1. Size(part, s) = 2 + Larger(part.least, At(s, 2)) /\ Size(part, r) = 2 + Larger(part.least, At(r, 2))
      BY <1>3, <1>9, <2>4 DEF Size
    <3>2. At(s, 2) \in Nat /\ part.least \in {0, 1}
      BY <1>9, AtIsNumber DEF IsPart
    <3>3. 2 <= Len(s)
      BY <1>1, <3>1, <3>2 DEF Larger
    <3>4. At(r, 2) = At(s, 2)
      <4>1. 2 \in 1..Len(s) /\ 2 <= Len(r)
        BY <1>1, <3>3
      <4>2. r[2] = s[2]
        BY <1>1, <4>1
      <4> QED BY <3>3, <4>1, <4>2 DEF At
    <3> QED BY <2>1, <2>2, <3>1, <3>4
  <2> QED BY <2>3, <2>4
<1> QED BY <1>5, <1>6, <1>7, <1>8, <1>9 DEF IsPart

LEMMA FromFacts ==
  ASSUME NEW s \in Seq(Byte), NEW n \in Nat, n <= Len(s)
  PROVE  /\ From(s, n) \in Seq(Byte) /\ Len(From(s, n)) = Len(s) - n
         /\ \A i \in 1..(Len(s) - n) : From(s, n)[i] = s[n + i]
         /\ \A b \in Byte : From(Append(s, b), n) = Append(From(s, n), b)
<1>1. /\ From(s, n) \in Seq(Byte) /\ Len(From(s, n)) = Len(s) - n
      /\ \A i \in 1..(Len(s) - n) : From(s, n)[i] = s[n + i]
  BY DEF From
<1>2. ASSUME NEW b \in Byte PROVE From(Append(s, b), n) = Append(From(s, n), b)
  <2> DEFINE r == Append(s, b)  f == From(r, n)  g == Append(From(s, n), b)
  <2>1. r \in Seq(Byte) /\ Len(r) = Len(s) + 1 /\ r[Len(s) + 1] = b
        /\ \A i \in 1..Len(s) : r[i] = s[i]
    OBVIOUS
  <2>2. f \in Seq(Byte) /\ Len(f) = Len(s) + 1 - n /\ \A i \in 1..(Len(s) + 1 - n) : f[i] = r[n + i]
    BY <2>1 DEF From
  <2>3. g \in Seq(Byte) /\ Len(g) = Len(s) + 1 - n /\ g[Len(s) + 1 - n] = b
        /\ \A i \in 1..(Len(s) - n) : g[i] = s[n + i]
    BY <1>1
  <2> HIDE DEF r, f, g
  <2>4. ASSUME NEW i \in 1..(Len(s) + 1 - n) PROVE f[i] = g[i]
    <3>1. f[i] = r[n + i]
      BY <2>2
    <3>2. CASE i = Len(s) + 1 - n
      <4>1. n + i = Len(s) + 1
        BY <3>2
      <4> QED BY <2>1, <2>3, <3>1, <3>2, <4>1
    <3>3. CASE i # Len(s) + 1 - n
      <4> DEFINE k == n + i
      <4>1. i \in 1..(Len(s) - n) /\ k \in 1..Len(s)
        BY <3>3
      <4>2. g[i] = s[k]
        BY <2>3, <4>1
      <4> HIDE DEF k
      <4>3. r[k] = s[k]
        BY <2>1, <4>1
      <4> QED BY <3>1, <4>2, <4>3 DEF k
    <3> QED BY <3>2, <3>3
  <2>5. f = g
    BY <2>2, <2>3, <2>4, SeqEqual
  <2> QED BY <2>5 DEF r, f, g
<1> QED BY <1>1, <1>2

LEMMA FromIsSeq ==
  ASSUME NEW s \in Seq(Byte), NEW n \in Nat
  PROVE  From(s, n) \in Seq(Byte)
BY DEF From

LEMMA FromFrom ==
  ASSUME NEW s \in Seq(Byte), NEW m \in Nat, m <= Len(s), NEW n \in Nat
  PROVE  From(From(s, m), n) = From(s, m + n)
<1> DEFINE f == From(s, m)  u == From(s, m + n)  v == From(f, n)
<1>0. Len(s) \in Nat /\ m + n \in Nat
  OBVIOUS
<1>1. f \in Seq(Byte) /\ Len(f) = Len(s) - m /\ \A i \in 1..(Len(s) - m) : f[i] = s[m + i]
  BY FromFacts
<1>2. u \in Seq(Byte) /\ v \in Seq(Byte)
  BY <1>0, <1>1, FromIsSeq
<1>3. Len(u) = Len(v) /\ \A i \in 1..Len(u) : u[i] = v[i]
  <2>1. CASE m + n <= Len(s)
    <3>1. Len(u) = Len(s) - (m + n) /\ \A i \in 1..(Len(s) - (m + n)) : u[i] = s[(m + n) + i]
      BY <1>0, <2>1, FromFacts
    <3>2. n <= Len(f)
      BY <1>0, <1>1, <2>1
    <3> HIDE DEF f, u, v
    <3>3. Len(v) = Len(f) - n /\ \A i \in 1..(Len(f) - n) : v[i] = f[n + i]
      BY <1>1, <3>2, FromFacts DEF v
    <3>4. \A i \in 1..(Len(s) - (m + n)) :
            i \in 1..(Len(f) - n) /\ n + i \in 1..(Len(s) - m) /\ (m + n) + i = m + (n + i)
      BY <1>0, <1>1
    <3>5. Len(u) = Len(s) - (m + n) /\ Len(v) = Len(u)
      BY <1>0, <1>1, <3>1, <3>3
    <3>6. ASSUME NEW i \in 1..Len(u) PROVE u[i] = v[i]
      <4>1. i \in 1..(Len(s) - (m + n))
        BY <3>5, <3>6
      <4>2. u[i] = s[(m + n) + i] /\ v[i] = f[n + i]
        BY <3>1, <3>3, <3>4, <4>1
      <4>3. f[n + i] = s[m + (n + i)] /\ (m + n) + i = m + (n + i)
        BY <1>1, <3>4, <4>1
      <4> QED BY <4>2, <4>3
    <3> QED BY <3>5, <3>6
  <2>2. CASE ~ (m + n <= Len(s))
    <3>1. u = <<>>
      BY <1>0, <2>2 DEF From
    <3>2. n + 1 > Len(f)
      BY <1>0, <1>1, <2>2
    <3> HIDE DEF f
    <3>3. v = <<>>
      BY <1>1, <3>2 DEF From
    <3> QED BY <3>1, <3>3
  <2> QED BY <2>1, <2>2
<1> HIDE DEF u, v
<1>4. u = v
  BY <1>2, <1>3, SeqEqual
<1> QED BY <1>4 DEF u, v

-----------------------------------------------------------------------------
(* The recursive functions of the grammar exist. *)
EndsBy(f, parts, s, n) ==
  f = [i \in 0..n |-> IF i = 0 THEN 0 ELSE f[i - 1] + Size(parts[i], From(s, f[i - 1]))]

LEMMA EndsExist ==
  ASSUME NEW parts, NEW s, NEW n \in Nat
  PROVE  \E f : EndsBy(f, parts, s, n)
<1> DEFINE G == {k \in Nat : \E f : EndsBy(f, parts, s, k)}
<1>1. 0 \in G
  <2>1. EndsBy([i \in 0..0 |-> 0], parts, s, 0)
    BY DEF EndsBy
  <2> QED BY <2>1
<1>2. ASSUME NEW k \in 0..(n - 1), k \in G PROVE k + 1 \in G
  <2>1. PICK f : EndsBy(f, parts, s, k)
    BY <1>2
  <2> DEFINE last == f[k] + Size(parts[k + 1], From(s, f[k]))
             g == [i \in 0..(k + 1) |-> IF i = k + 1 THEN last ELSE f[i]]
  <2>2. ASSUME NEW i \in 0..(k + 1)
        PROVE  g[i] = IF i = 0 THEN 0 ELSE g[i - 1] + Size(parts[i], From(s, g[i - 1]))
    <3>1. CASE i = k + 1
      <4>1. g[i] = last /\ g[k] = f[k] /\ i - 1 = k /\ i # 0
        BY <3>1
      <4> QED BY <3>1, <4>1
    <3>2. CASE i # k + 1 /\ i # 0
      <4>1. i \in 0..k /\ i - 1 \in 0..k
        BY <3>2
      <4>2. g[i] = f[i] /\ g[i - 1] = f[i - 1]
        BY <3>2, <4>1
      <4>3. f[i] = f[i - 1] + Size(parts[i], From(s, f[i - 1]))
        BY <2>1, <3>2, <4>1 DEF EndsBy
      <4> QED BY <3>2, <4>2, <4>3
    <3>3. CASE i = 0
      <4>1. f[0] = 0
        BY <2>1 DEF EndsBy
      <4> QED BY <3>3, <4>1
    <3> QED BY <3>1, <3>2, <3>3
  <2>3. EndsBy(g, parts, s, k + 1)
    BY <2>2 DEF EndsBy
  <2> QED BY <2>3
<1>3. n \in G
  <2> HIDE DEF G
  <2> QED BY <1>1, <1>2, UpTo
<1> QED BY <1>3

LEMMA EndOfPart ==
  ASSUME NEW parts, IsLayout(parts), NEW s \in Seq(Byte)
  PROVE  /\ Ends(parts, s)[0] = 0
         /\ \A i \in 1..Len(parts) :
              Ends(parts, s)[i] = Ends(parts, s)[i - 1] + Size(parts[i], From(s, Ends(parts, s)[i - 1]))
         /\ \A i \in 0..Len(parts) : Ends(parts, s)[i] \in Nat
         /\ \A i \in 1..Len(parts) : Ends(parts, s)[i - 1] < Ends(parts, s)[i]
<1> DEFINE n == Len(parts)  e == Ends(parts, s)
<1>0. n \in Nat
  BY DEF IsLayout
<1>1. EndsBy(e, parts, s, n)
  <2>1. e = CHOOSE f : EndsBy(f, parts, s, n)
    BY DEF Ends, EndsBy
  <2> HIDE DEF e
  <2> QED BY <1>0, <2>1, EndsExist
<1> HIDE DEF e
<1>2. e[0] = 0
  BY <1>0, <1>1 DEF EndsBy
<1>3. \A i \in 1..n : i - 1 \in 0..n /\ e[i] = e[i - 1] + Size(parts[i], From(s, e[i - 1]))
  BY <1>0, <1>1 DEF EndsBy
<1>4. \A i \in 1..n : e[i - 1] \in Nat => Size(parts[i], From(s, e[i - 1])) \in Nat \ {0}
  BY FromIsSeq, SizeIsPositive DEF IsLayout
<1>5. \A i \in 0..n : e[i] \in Nat
  <2> DEFINE G == {i \in 0..n : e[i] \in Nat}
  <2>1. 0 \in G
    BY <1>0, <1>2
  <2>2. ASSUME NEW i \in 0..(n - 1), i \in G PROVE i + 1 \in G
    <3>1. i + 1 \in 1..n /\ (i + 1) - 1 = i
      BY <1>0
    <3>2. e[i + 1] = e[i] + Size(parts[i + 1], From(s, e[i])) /\ Size(parts[i + 1], From(s, e[i])) \in Nat
      BY <1>3, <1>4, <2>2, <3>1
    <3> QED BY <2>2, <3>1, <3>2
  <2>3. \A i \in 0..n : i \in G
    <3> HIDE DEF G
    <3> QED BY <1>0, <2>1, <2>2, UpTo
  <2> QED BY <2>3
<1>6. \A i \in 1..n : e[i - 1] < e[i]
  BY <1>3, <1>4, <1>5
<1> QED BY <1>2, <1>3, <1>5, <1>6 DEF e

LEMMA EndsGrow ==
  ASSUME NEW parts, IsLayout(parts), NEW s \in Seq(Byte),
         NEW i \in 0..Len(parts), NEW j \in i..Len(parts)
  PROVE  Ends(parts, s)[i] <= Ends(parts, s)[j]
<1> DEFINE e == Ends(parts, s)
           G == {d \in 0..(j - i) : e[i] <= e[i + d]}
<1>0. Len(parts) \in Nat /\ i \in Nat /\ j \in Nat /\ i <= j /\ j <= Len(parts)
  BY DEF IsLayout
<1>1. (\A k \in 0..Len(parts) : e[k] \in Nat) /\ (\A k \in 1..Len(parts) : e[k - 1] < e[k])
  BY EndOfPart
<1> HIDE DEF e
<1>2. 0 \in G
  BY <1>0, <1>1
<1>3. ASSUME NEW d \in 0..((j - i) - 1), d \in G PROVE d + 1 \in G
  <2>1. d + 1 \in 0..(j - i) /\ i + (d + 1) \in 1..Len(parts) /\ (i + (d + 1)) - 1 = i + d
        /\ i + d \in 0..Len(parts) /\ i + (d + 1) \in 0..Len(parts)
    BY <1>0
  <2>2. e[i + d] < e[i + (d + 1)]
    BY <1>1, <2>1
  <2>3. e[i] <= e[i + d]
    BY <1>3
  <2>4. e[i] \in Nat /\ e[i + d] \in Nat /\ e[i + (d + 1)] \in Nat
    BY <1>1, <2>1
  <2> QED BY <2>1, <2>2, <2>3, <2>4
<1>4. \A d \in 0..(j - i) : d \in G
  <2>1. j - i \in Nat
    BY <1>0
  <2> HIDE DEF G
  <2> QED BY <1>2, <1>3, <2>1, UpTo
<1>5. j - i \in G /\ i + (j - i) = j
  BY <1>0, <1>4
<1> QED BY <1>5 DEF e

ToldBy(f, parts, s, e, n) ==
  f = [i \in 0..n |->
         IF i = 0 THEN <<>>
         ELSE IF parts[i].t = "one" THEN f[i - 1]
         ELSE Append(f[i - 1], SubSeq(s, e[i - 1] + HeadSize(parts[i], From(s, e[i - 1])) + 1, e[i]))]

LEMMA ToldExists ==
  ASSUME NEW parts, NEW s, NEW e, NEW n \in Nat
  PROVE  \E f : ToldBy(f, parts, s, e, n)
<1> DEFINE Piece(i) == SubSeq(s, e[i - 1] + HeadSize(parts[i], From(s, e[i - 1])) + 1, e[i])
           G == {k \in Nat : \E f : ToldBy(f, parts, s, e, k)}
<1>1. 0 \in G
  <2>1. ToldBy([i \in 0..0 |-> <<>>], parts, s, e, 0)
    BY DEF ToldBy
  <2> QED BY <2>1
<1>2. ASSUME NEW k \in 0..(n - 1), k \in G PROVE k + 1 \in G
  <2>1. PICK f : ToldBy(f, parts, s, e, k)
    BY <1>2
  <2> DEFINE last == IF parts[k + 1].t = "one" THEN f[k] ELSE Append(f[k], Piece(k + 1))
             g == [i \in 0..(k + 1) |-> IF i = k + 1 THEN last ELSE f[i]]
  <2>2. ASSUME NEW i \in 0..(k + 1)
        PROVE  g[i] = IF i = 0 THEN <<>>
                      ELSE IF parts[i].t = "one" THEN g[i - 1] ELSE Append(g[i - 1], Piece(i))
    <3>1. CASE i = k + 1
      <4>1. g[i] = last /\ g[k] = f[k] /\ i - 1 = k /\ i # 0
        BY <3>1
      <4> HIDE DEF Piece, g
      <4> QED BY <3>1, <4>1
    <3>2. CASE i # k + 1 /\ i # 0
      <4>1. i \in 0..k /\ i - 1 \in 0..k
        BY <3>2
      <4>2. g[i] = f[i] /\ g[i - 1] = f[i - 1]
        BY <3>2, <4>1
      <4>3. f[i] = IF parts[i].t = "one" THEN f[i - 1] ELSE Append(f[i - 1], Piece(i))
        BY <2>1, <3>2, <4>1 DEF ToldBy
      <4> HIDE DEF Piece, g
      <4> QED BY <3>2, <4>2, <4>3
    <3>3. CASE i = 0
      <4>1. f[0] = <<>>
        BY <2>1 DEF ToldBy
      <4> QED BY <3>3, <4>1
    <3> QED BY <3>1, <3>2, <3>3
  <2>3. ToldBy(g, parts, s, e, k + 1)
    <3>1. g = [i \in 0..(k + 1) |->
                IF i = 0 THEN <<>>
                ELSE IF parts[i].t = "one" THEN g[i - 1] ELSE Append(g[i - 1], Piece(i))]
      <4> HIDE DEF Piece
      <4> QED BY <2>2
    <3> QED BY <3>1 DEF ToldBy
  <2> QED BY <2>3
<1>3. n \in G
  <2> HIDE DEF G
  <2> QED BY <1>1, <1>2, UpTo
<1> QED BY <1>3

LEMMA ToldOfPart ==
  ASSUME NEW parts, IsLayout(parts), NEW s \in Seq(Byte)
  PROVE  /\ PayloadsTo(parts, s)[0] = <<>>
         /\ \A i \in 1..Len(parts) :
              PayloadsTo(parts, s)[i] =
                IF parts[i].t = "one" THEN PayloadsTo(parts, s)[i - 1]
                ELSE Append(PayloadsTo(parts, s)[i - 1],
                            SubSeq(s, Ends(parts, s)[i - 1]
                                        + HeadSize(parts[i], From(s, Ends(parts, s)[i - 1])) + 1,
                                   Ends(parts, s)[i]))
<1> DEFINE n == Len(parts)  e == Ends(parts, s)  t == PayloadsTo(parts, s)
<1>0. n \in Nat
  BY DEF IsLayout
<1>1. ToldBy(t, parts, s, e, n)
  <2>1. t = CHOOSE f : ToldBy(f, parts, s, e, n)
    BY DEF PayloadsTo, ToldBy
  <2> HIDE DEF e, t
  <2> QED BY <1>0, <2>1, ToldExists
<1> HIDE DEF e, t
<1>2. t[0] = <<>>
  BY <1>0, <1>1 DEF ToldBy
<1>3. ASSUME NEW i \in 1..n
      PROVE  t[i] = IF parts[i].t = "one" THEN t[i - 1]
                    ELSE Append(t[i - 1], SubSeq(s, e[i - 1] + HeadSize(parts[i], From(s, e[i - 1])) + 1, e[i]))
  <2> DEFINE Piece(j) == SubSeq(s, e[j - 1] + HeadSize(parts[j], From(s, e[j - 1])) + 1, e[j])
  <2>1. t = [j \in 0..n |-> IF j = 0 THEN <<>>
                            ELSE IF parts[j].t = "one" THEN t[j - 1] ELSE Append(t[j - 1], Piece(j))]
    BY <1>1 DEF ToldBy
  <2>2. t[i] = IF parts[i].t = "one" THEN t[i - 1] ELSE Append(t[i - 1], Piece(i))
    <3> HIDE DEF Piece
    <3>1. i \in 0..n /\ i # 0
      BY <1>0
    <3> QED BY <2>1, <3>1
  <2> QED BY <2>2
<1> QED BY <1>2, <1>3 DEF e, t

-----------------------------------------------------------------------------
(* The first m parts are whole and right in s. *)
Fine(parts, s, m) ==
  /\ m \in 0..Len(parts) /\ Ends(parts, s)[m] <= Len(s)
  /\ \A j \in 1..m : ~ Wrong(parts[j], From(s, Ends(parts, s)[j - 1]))

LEMMA HeadIsNumber ==
  ASSUME NEW part, NEW s, IsPart(part)
  PROVE  HeadSize(part, s) \in 0..2
BY DEF HeadSize, IsPart

LEMMA SubSeqKept ==
  ASSUME NEW s \in Seq(Byte), NEW b \in Byte, NEW m \in Nat \ {0}, NEW n \in Nat, n <= Len(s)
  PROVE  SubSeq(Append(s, b), m, n) = SubSeq(s, m, n)
<1> DEFINE r == Append(s, b)  f == SubSeq(r, m, n)  g == SubSeq(s, m, n)
<1>1. r \in Seq(Byte) /\ Len(r) = Len(s) + 1 /\ \A i \in 1..Len(s) : r[i] = s[i]
  OBVIOUS
<1>2. f \in Seq(Byte) /\ Len(f) = (IF m <= n THEN n - m + 1 ELSE 0)
      /\ \A i \in 1..(n - m + 1) : f[i] = r[m + i - 1]
  BY <1>1
<1>3. g \in Seq(Byte) /\ Len(g) = (IF m <= n THEN n - m + 1 ELSE 0)
      /\ \A i \in 1..(n - m + 1) : g[i] = s[m + i - 1]
  OBVIOUS
<1>4. \A i \in 1..(n - m + 1) : m + i - 1 \in 1..Len(s)
  OBVIOUS
<1>5. ASSUME NEW i \in 1..(n - m + 1) PROVE f[i] = g[i]
  <2> DEFINE k == m + i - 1
  <2>1. k \in 1..Len(s)
    BY <1>4
  <2>2. f[i] = r[k] /\ g[i] = s[k]
    BY <1>2, <1>3
  <2> HIDE DEF r, f, g, k
  <2> QED BY <2>1, <2>2, <1>1
<1>7. 1..Len(f) \subseteq 1..(n - m + 1)
  BY <1>2
<1> HIDE DEF r, f, g
<1>6. f = g
  BY <1>2, <1>7, <1>3, <1>5, SeqEqual
<1> QED BY <1>6 DEF r, f, g

LEMMA WholeKept ==
  ASSUME NEW parts, IsLayout(parts), NEW s \in Seq(Byte), NEW b \in Byte,
         NEW m, Fine(parts, s, m)
  PROVE  /\ Fine(parts, Append(s, b), m)
         /\ \A j \in 0..m : /\ Ends(parts, Append(s, b))[j] = Ends(parts, s)[j]
                            /\ PayloadsTo(parts, Append(s, b))[j] = PayloadsTo(parts, s)[j]
         /\ \A j \in 1..m : HeadSize(parts[j], From(Append(s, b), Ends(parts, s)[j - 1]))
                              = HeadSize(parts[j], From(s, Ends(parts, s)[j - 1]))
<1> DEFINE n == Len(parts)  r == Append(s, b)
           e == Ends(parts, s)  d == Ends(parts, r)
           t == PayloadsTo(parts, s)  q == PayloadsTo(parts, r)
<1>0. n \in Nat /\ m \in Nat /\ m <= n /\ e[m] <= Len(s) /\ Len(s) \in Nat /\ Len(r) = Len(s) + 1
  BY DEF IsLayout, Fine
<1>1. r \in Seq(Byte)
  OBVIOUS
<1>2. /\ e[0] = 0 /\ d[0] = 0 /\ \A j \in 0..n : e[j] \in Nat
      /\ \A j \in 1..n : e[j] = e[j - 1] + Size(parts[j], From(s, e[j - 1]))
      /\ \A j \in 1..n : d[j] = d[j - 1] + Size(parts[j], From(r, d[j - 1]))
  BY <1>1, EndOfPart
<1>3. \A j \in 0..m : e[j] <= e[m]
  BY <1>0, EndsGrow
<1> HIDE DEF e, d
<1>4. ASSUME NEW j \in 1..m
      PROVE  /\ From(r, e[j - 1]) = Append(From(s, e[j - 1]), b)
             /\ Size(parts[j], From(r, e[j - 1])) = Size(parts[j], From(s, e[j - 1]))
             /\ Wrong(parts[j], From(r, e[j - 1])) <=> Wrong(parts[j], From(s, e[j - 1]))
             /\ HeadSize(parts[j], From(r, e[j - 1])) = HeadSize(parts[j], From(s, e[j - 1]))
  <2> DEFINE f == From(s, e[j - 1])
  <2>1. j \in 1..n /\ j - 1 \in 0..m /\ j - 1 \in 0..n /\ j \in 0..m
    BY <1>0
  <2>2. e[j - 1] \in Nat /\ e[j - 1] <= Len(s) /\ e[j] <= Len(s) /\ e[j] \in Nat /\ IsPart(parts[j])
    BY <1>0, <1>2, <1>3, <2>1 DEF IsLayout
  <2>3. f \in Seq(Byte) /\ Len(f) = Len(s) - e[j - 1] /\ From(r, e[j - 1]) = Append(f, b)
    BY <2>2, FromFacts
  <2>4. Size(parts[j], f) \in Nat /\ e[j] = e[j - 1] + Size(parts[j], f)
    BY <1>2, <2>1, <2>2, <2>3, SizeIsPositive
  <2> HIDE DEF f, r
  <2>5. Size(parts[j], f) <= Len(f)
    <3> DEFINE z == Size(parts[j], f)  from == e[j - 1]  to == e[j]
               len == Len(s)  rest == Len(f)
    <3>1. z \in Nat /\ from \in Nat /\ to = from + z /\ to <= len
      BY <2>2, <2>4
    <3>2. rest = len - from /\ len \in Nat
      BY <1>0, <2>3
    <3> HIDE DEF z, from, to, len, rest
    <3>3. z <= rest
      BY <3>1, <3>2
    <3> QED BY <3>3 DEF z, rest
  <2>6. /\ Size(parts[j], Append(f, b)) = Size(parts[j], f)
        /\ Wrong(parts[j], Append(f, b)) <=> Wrong(parts[j], f)
        /\ HeadSize(parts[j], Append(f, b)) = HeadSize(parts[j], f)
    BY <2>2, <2>3, <2>5, WholePartKept
  <2> QED BY <2>3, <2>6 DEF f
<1> HIDE DEF r
<1>5. \A j \in 0..m : d[j] = e[j]
  <2> DEFINE G == {j \in 0..m : d[j] = e[j]}
  <2>1. 0 \in G
    BY <1>0, <1>2
  <2>2. ASSUME NEW j \in 0..(m - 1), j \in G PROVE j + 1 \in G
    <3>1. j + 1 \in 1..m /\ j + 1 \in 1..n /\ (j + 1) - 1 = j /\ j + 1 \in 0..m
      BY <1>0
    <3>2. d[j] = e[j]
      BY <2>2
    <3>3. e[j + 1] = e[j] + Size(parts[j + 1], From(s, e[j]))
          /\ d[j + 1] = e[j] + Size(parts[j + 1], From(r, e[j]))
      BY <1>2, <3>1, <3>2
    <3>4. Size(parts[j + 1], From(r, e[j])) = Size(parts[j + 1], From(s, e[j]))
      BY <1>4, <3>1
    <3> QED BY <3>1, <3>3, <3>4
  <2>3. \A j \in 0..m : j \in G
    <3> HIDE DEF G
    <3> QED BY <1>0, <2>1, <2>2, UpTo
  <2> QED BY <2>3
<1>6. Fine(parts, r, m)
  <2>1. d[m] <= Len(r)
    BY <1>0, <1>2, <1>5
  <2>2. ASSUME NEW j \in 1..m PROVE ~ Wrong(parts[j], From(r, d[j - 1]))
    <3>1. j - 1 \in 0..m
      BY <1>0
    <3>2. d[j - 1] = e[j - 1]
      BY <1>5, <3>1
    <3>3. ~ Wrong(parts[j], From(s, e[j - 1]))
      BY DEF Fine, e
    <3> QED BY <1>4, <3>2, <3>3
  <2> QED BY <1>0, <2>1, <2>2 DEF Fine, d
<1>7. \A j \in 0..m : q[j] = t[j]
  <2>0. /\ t[0] = <<>> /\ q[0] = <<>>
        /\ \A j \in 1..n :
             t[j] = IF parts[j].t = "one" THEN t[j - 1]
                    ELSE Append(t[j - 1], SubSeq(s, e[j - 1] + HeadSize(parts[j], From(s, e[j - 1])) + 1, e[j]))
        /\ \A j \in 1..n :
             q[j] = IF parts[j].t = "one" THEN q[j - 1]
                    ELSE Append(q[j - 1], SubSeq(r, d[j - 1] + HeadSize(parts[j], From(r, d[j - 1])) + 1, d[j]))
    BY <1>1, ToldOfPart DEF e, d, r
  <2> HIDE DEF t, q
  <2> DEFINE G == {j \in 0..m : q[j] = t[j]}
  <2>1. 0 \in G
    BY <1>0, <2>0
  <2>2. ASSUME NEW j \in 0..(m - 1), j \in G PROVE j + 1 \in G
    <3> DEFINE h == HeadSize(parts[j + 1], From(s, e[j]))
    <3>1. j + 1 \in 1..m /\ j + 1 \in 1..n /\ (j + 1) - 1 = j /\ j + 1 \in 0..m /\ j \in 0..m
          /\ j \in 0..n /\ j + 1 \in 0..n
      BY <1>0
    <3>2. q[j] = t[j] /\ d[j] = e[j] /\ d[j + 1] = e[j + 1]
      BY <1>5, <2>2, <3>1
    <3>3. HeadSize(parts[j + 1], From(r, e[j])) = h
      BY <1>4, <3>1
    <3>4. h \in Nat
      BY <3>1, HeadIsNumber DEF IsLayout
    <3>5. e[j] \in Nat /\ e[j + 1] \in Nat /\ e[j + 1] <= Len(s)
      BY <1>0, <1>2, <1>3, <3>1
    <3>6. t[j + 1] = IF parts[j + 1].t = "one" THEN t[j] ELSE Append(t[j], SubSeq(s, e[j] + h + 1, e[j + 1]))
      BY <2>0, <3>1
    <3>7. q[j + 1] = IF parts[j + 1].t = "one" THEN t[j] ELSE Append(t[j], SubSeq(r, e[j] + h + 1, e[j + 1]))
      BY <2>0, <3>1, <3>2, <3>3
    <3> HIDE DEF h
    <3>8. SubSeq(r, e[j] + h + 1, e[j + 1]) = SubSeq(s, e[j] + h + 1, e[j + 1])
      <4>1. e[j] + h + 1 \in Nat \ {0}
        BY <3>4, <3>5
      <4> QED BY <3>5, <4>1, SubSeqKept DEF r
    <3> QED BY <3>1, <3>6, <3>7, <3>8
  <2>3. \A j \in 0..m : j \in G
    <3> HIDE DEF G
    <3> QED BY <1>0, <2>1, <2>2, UpTo
  <2> QED BY <2>3
<1> QED BY <1>4, <1>5, <1>6, <1>7 DEF e, d, r

-----------------------------------------------------------------------------
(* The verdicts. *)
LEMMA VerdictMore ==
  ASSUME NEW parts, IsLayout(parts), NEW s \in Seq(Byte), NEW i \in 1..Len(parts),
         Fine(parts, s, i - 1), Len(s) < Ends(parts, s)[i],
         Ends(parts, s)[i - 1] < Len(s) => ~ Wrong(parts[i], From(s, Ends(parts, s)[i - 1]))
  PROVE  Verdict(parts, s) = "more"
<1> DEFINE n == Len(parts)  e == Ends(parts, s)
<1>0. n \in Nat /\ i \in 0..n /\ Len(s) \in Nat
  BY DEF IsLayout
<1>1. \A j \in 0..n : e[j] \in Nat
  BY EndOfPart
<1>2. e[n] > Len(s)
  <2>1. n \in i..n
    BY <1>0
  <2>2. e[i] <= e[n]
    BY <1>0, <2>1, EndsGrow
  <2> HIDE DEF e
  <2>3. e[i] \in Nat /\ e[n] \in Nat
    BY <1>0, <1>1
  <2> QED BY <1>0, <2>2, <2>3 DEF e
<1>3. ASSUME NEW j \in 1..n, e[j - 1] < Len(s), Wrong(parts[j], From(s, e[j - 1])) PROVE FALSE
  <2>1. CASE j < i
    <3>1. j \in 1..(i - 1)
      BY <2>1
    <3> QED BY <1>3, <3>1 DEF Fine
  <2>2. CASE j = i
    BY <1>3, <2>2
  <2>3. CASE j > i
    <3>1. j - 1 \in i..n /\ j - 1 \in 0..n
      BY <1>0, <2>3
    <3>2. e[i] <= e[j - 1]
      BY <1>0, <3>1, EndsGrow
    <3> HIDE DEF e
    <3>3. e[i] \in Nat /\ e[j - 1] \in Nat
      BY <1>0, <1>1, <3>1
    <3> QED BY <1>0, <1>3, <3>2, <3>3 DEF e
  <2> QED BY <2>1, <2>2, <2>3
<1> HIDE DEF e
<1>4. ~ (e[n] <= Len(s))
  BY <1>0, <1>1, <1>2
<1> QED BY <1>3, <1>4 DEF Verdict, e

LEMMA VerdictError ==
  ASSUME NEW parts, NEW s, NEW i \in 1..Len(parts),
         Ends(parts, s)[i - 1] < Len(s), Wrong(parts[i], From(s, Ends(parts, s)[i - 1]))
  PROVE  Verdict(parts, s) = "error"
BY DEF Verdict

LEMMA VerdictDone ==
  ASSUME NEW parts, NEW s, Fine(parts, s, Len(parts))
  PROVE  Verdict(parts, s) = "done"
BY DEF Verdict, Fine

-----------------------------------------------------------------------------
(* The layout that a parser goes by: its own in a request. *)
Parsed(k) ==
  IF k = "request" THEN <<One({5}), One({1, 3, 4}), One(Byte), Address(1), Fixed(2)>>
  ELSE Layout(k)

(* Where a parser is in its message: before part i, or in the payload of part i.
   s is what it has taken. *)
States ==
  {"version", "passlen", "passwd", "action", "option", "field", "namelen",
   "name", "pass", "ulen", "username", "attribute", "valuelen", "value",
   "size_action", "size", "status", "nmethods", "methods", "userlen", "cmd",
   "rsv", "atyp", "dstaddr_fqdn", "dstaddr", "dstport", "done", "error"}
Parser == [state : States, remaining : Byte, read : Nat, atyp : Byte, texts : Seq(Seq(Byte))]

LEMMA StateNames ==
  /\ "version" \in States /\ "passlen" \in States /\ "passwd" \in States
  /\ "action" \in States /\ "option" \in States /\ "field" \in States
  /\ "namelen" \in States /\ "name" \in States /\ "pass" \in States
  /\ "ulen" \in States /\ "username" \in States /\ "attribute" \in States
  /\ "valuelen" \in States /\ "value" \in States /\ "size_action" \in States
  /\ "size" \in States /\ "status" \in States /\ "nmethods" \in States
  /\ "methods" \in States /\ "userlen" \in States /\ "cmd" \in States
  /\ "rsv" \in States /\ "atyp" \in States /\ "dstaddr_fqdn" \in States
  /\ "dstaddr" \in States /\ "dstport" \in States /\ "done" \in States
  /\ "error" \in States
BY DEF States

Begins(parts, s, i, p) ==
  /\ i - 1 \in 0..Len(parts) /\ Fine(parts, s, i - 1) /\ Ends(parts, s)[i - 1] = Len(s)
  /\ p.texts = PayloadsTo(parts, s)[i - 1]

Begun(parts, s, i) == From(s, Ends(parts, s)[i - 1])

Within(parts, s, i, p) ==
  LET f == Begun(parts, s, i)
      h == HeadSize(parts[i], f)
  IN /\ i \in 1..Len(parts) /\ Fine(parts, s, i - 1) /\ parts[i].t # "one"
     /\ h <= Len(f) /\ ~ Wrong(parts[i], f)
     /\ Size(parts[i], f) = h + Larger(1, p.remaining)
     /\ Len(f) = h + p.read /\ p.read < Larger(1, p.remaining)
     /\ p.texts = Append(PayloadsTo(parts, s)[i - 1], From(f, h))

LEMMA BegunFacts ==
  ASSUME NEW parts, IsLayout(parts), NEW s \in Seq(Byte), NEW i \in 1..Len(parts), Fine(parts, s, i - 1)
  PROVE  /\ IsPart(parts[i]) /\ i - 1 \in 0..Len(parts) /\ i \in 0..Len(parts)
         /\ Ends(parts, s)[i - 1] \in Nat /\ Ends(parts, s)[i - 1] <= Len(s)
         /\ Begun(parts, s, i) \in Seq(Byte)
         /\ Len(Begun(parts, s, i)) = Len(s) - Ends(parts, s)[i - 1]
         /\ Size(parts[i], Begun(parts, s, i)) \in Nat \ {0}
         /\ Ends(parts, s)[i] = Ends(parts, s)[i - 1] + Size(parts[i], Begun(parts, s, i))
         /\ Ends(parts, s)[i] \in Nat
<1>1. IsPart(parts[i]) /\ i - 1 \in 0..Len(parts) /\ i \in 0..Len(parts)
  BY DEF IsLayout
<1>2. Ends(parts, s)[i - 1] \in Nat /\ Ends(parts, s)[i] \in Nat /\ Ends(parts, s)[i - 1] <= Len(s)
  BY <1>1, EndOfPart DEF Fine
<1>3. Begun(parts, s, i) \in Seq(Byte) /\ Len(Begun(parts, s, i)) = Len(s) - Ends(parts, s)[i - 1]
  BY <1>2, FromFacts DEF Begun
<1>4. Size(parts[i], Begun(parts, s, i)) \in Nat \ {0}
  BY <1>1, <1>3, SizeIsPositive
<1>5. Ends(parts, s)[i] = Ends(parts, s)[i - 1] + Size(parts[i], Begun(parts, s, i))
  BY EndOfPart DEF Begun
<1> QED BY <1>1, <1>2, <1>3, <1>4, <1>5

(* A byte more of a part that has begun. *)
LEMMA BegunGrows ==
  ASSUME NEW parts, IsLayout(parts), NEW s \in Seq(Byte), NEW b \in Byte,
         NEW i \in 1..Len(parts), Fine(parts, s, i - 1)
  PROVE  /\ Fine(parts, Append(s, b), i - 1)
         /\ Begun(parts, Append(s, b), i) = Append(Begun(parts, s, i), b)
         /\ PayloadsTo(parts, Append(s, b))[i - 1] = PayloadsTo(parts, s)[i - 1]
         /\ Ends(parts, Append(s, b))[i - 1] = Ends(parts, s)[i - 1]
<1>0. i - 1 \in 0..(i - 1)
  BY DEF IsLayout
<1>1. /\ Fine(parts, Append(s, b), i - 1)
      /\ PayloadsTo(parts, Append(s, b))[i - 1] = PayloadsTo(parts, s)[i - 1]
      /\ Ends(parts, Append(s, b))[i - 1] = Ends(parts, s)[i - 1]
  BY <1>0, WholeKept
<1>2. From(Append(s, b), Ends(parts, s)[i - 1]) = Append(From(s, Ends(parts, s)[i - 1]), b)
  BY BegunFacts, FromFacts
<1> QED BY <1>1, <1>2 DEF Begun

(* A part that has begun, and was not wrong, is whole. *)
LEMMA PartEnds ==
  ASSUME NEW parts, IsLayout(parts), NEW s \in Seq(Byte), NEW i \in 1..Len(parts),
         Fine(parts, s, i - 1), Size(parts[i], Begun(parts, s, i)) = Len(Begun(parts, s, i)),
         ~ Wrong(parts[i], Begun(parts, s, i)), NEW p,
         p.texts = IF parts[i].t = "one" THEN PayloadsTo(parts, s)[i - 1]
                   ELSE Append(PayloadsTo(parts, s)[i - 1],
                               From(Begun(parts, s, i), HeadSize(parts[i], Begun(parts, s, i))))
  PROVE  Begins(parts, s, i + 1, p)
<1> DEFINE e == Ends(parts, s)  f == Begun(parts, s, i)  h == HeadSize(parts[i], f)
<1>1. /\ IsPart(parts[i]) /\ i \in 0..Len(parts) /\ e[i - 1] \in Nat /\ e[i - 1] <= Len(s)
      /\ f \in Seq(Byte) /\ Len(f) = Len(s) - e[i - 1] /\ e[i] = e[i - 1] + Size(parts[i], f)
      /\ Size(parts[i], f) \in Nat \ {0} /\ Len(s) \in Nat /\ (i + 1) - 1 = i /\ f = From(s, e[i - 1])
  BY BegunFacts DEF Begun
<1>2. h \in 0..2
  BY <1>1, HeadIsNumber
<1> HIDE DEF e, f, h
<1>3. e[i] = Len(s)
  BY <1>1 DEF f
<1>4. Fine(parts, s, i)
  <2>1. ASSUME NEW j \in 1..i PROVE ~ Wrong(parts[j], From(s, e[j - 1]))
    <3>1. CASE j = i
      BY <3>1, <1>1 DEF f
    <3>2. CASE j # i
      <4>1. j \in 1..(i - 1)
        BY <3>2
      <4> QED BY <4>1 DEF Fine, e
    <3> QED BY <3>1, <3>2
  <2>2. e[i] <= Len(s)
    BY <1>1, <1>3
  <2> QED BY <1>1, <2>1, <2>2 DEF Fine, e
<1>5. PayloadsTo(parts, s)[i] = IF parts[i].t = "one" THEN PayloadsTo(parts, s)[i - 1]
        ELSE Append(PayloadsTo(parts, s)[i - 1], SubSeq(s, e[i - 1] + h + 1, e[i]))
  BY ToldOfPart, <1>1 DEF e, h
<1>6. SubSeq(s, e[i - 1] + h + 1, e[i]) = From(f, h)
  <2>1. From(From(s, e[i - 1]), h) = From(s, e[i - 1] + h)
    <3>1. h \in Nat /\ e[i - 1] \in Nat /\ e[i - 1] <= Len(s)
      BY <1>1, <1>2
    <3> QED BY <3>1, FromFrom
  <2>2. From(s, e[i - 1] + h) = SubSeq(s, e[i - 1] + h + 1, Len(s))
    BY DEF From
  <2> QED BY <1>1, <1>3, <2>1, <2>2
<1>7. p.texts = PayloadsTo(parts, s)[i]
  BY <1>5, <1>6 DEF f, h
<1> QED BY <1>1, <1>3, <1>4, <1>7 DEF Begins, e

LEMMA PayloadsAreTexts ==
  ASSUME NEW parts, IsLayout(parts), NEW s \in Seq(Byte), NEW m, Fine(parts, s, m)
  PROVE  PayloadsTo(parts, s)[m] \in Seq(Seq(Byte))
<1> DEFINE n == Len(parts)  e == Ends(parts, s)  t == PayloadsTo(parts, s)
           Piece(j) == SubSeq(s, e[j - 1] + HeadSize(parts[j], From(s, e[j - 1])) + 1, e[j])
           G == {i \in 0..m : t[i] \in Seq(Seq(Byte))}
<1>0. n \in Nat /\ m \in 0..n /\ m \in Nat /\ e[m] <= Len(s) /\ Len(s) \in Nat
  BY DEF IsLayout, Fine
<1>1. t[0] = <<>> /\ \A j \in 1..n : t[j] = IF parts[j].t = "one" THEN t[j - 1] ELSE Append(t[j - 1], Piece(j))
  BY ToldOfPart
<1>2. \A j \in 1..m : Piece(j) \in Seq(Byte)
  <2> TAKE j \in 1..m
  <2> DEFINE h == HeadSize(parts[j], From(s, e[j - 1]))
  <2>1. j - 1 \in 0..n /\ j \in 0..n /\ j \in 1..n /\ m \in j..n /\ IsPart(parts[j])
    BY <1>0 DEF IsLayout
  <2>2. e[j - 1] \in Nat /\ e[j] \in Nat /\ e[m] \in Nat /\ e[j] <= e[m] /\ h \in 0..2
    BY <1>0, <2>1, EndOfPart, HeadIsNumber, EndsGrow
  <2> HIDE DEF h, e
  <2>3. e[j] <= Len(s) /\ e[j - 1] + h + 1 \in Nat \ {0}
    <3>1. e[j] <= Len(s)
      BY <1>0, <2>2, InOrder, Zenon
    <3>2. e[j - 1] + h + 1 \in Nat \ {0}
      BY <2>2, BehindHead, Zenon
    <3> QED BY <3>1, <3>2
  <2>4. SubSeq(s, e[j - 1] + h + 1, e[j]) \in Seq(Byte)
    BY <2>2, <2>3
  <2> QED BY <2>4 DEF h
<1> HIDE DEF t, Piece
<1>3. 0 \in G
  <2>1. t[0] \in Seq(Seq(Byte))
    BY <1>1, EmptySeq
  <2> QED BY <1>0, <2>1
<1>4. ASSUME NEW i \in 0..(m - 1), i \in G PROVE i + 1 \in G
  <2>1. i + 1 \in 1..m /\ i + 1 \in 1..n /\ (i + 1) - 1 = i /\ i + 1 \in 0..m
    BY <1>0
  <2>2. t[i + 1] = IF parts[i + 1].t = "one" THEN t[i] ELSE Append(t[i], Piece(i + 1))
    BY <1>1, <2>1
  <2>3. Piece(i + 1) \in Seq(Byte) /\ t[i] \in Seq(Seq(Byte))
    BY <1>2, <1>4, <2>1
  <2>4. Append(t[i], Piece(i + 1)) \in Seq(Seq(Byte))
    BY <2>3, AppendProperties
  <2>5. t[i + 1] \in Seq(Seq(Byte))
    BY <2>2, <2>3, <2>4
  <2> QED BY <2>1, <2>5
<1>5. \A i \in 0..m : i \in G
  <2> HIDE DEF G
  <2> QED BY <1>0, <1>3, <1>4, UpTo
<1>6. m \in G
  BY <1>0, <1>5
<1> QED BY <1>6 DEF t

LEMMA BeginsMore ==
  ASSUME NEW parts, IsLayout(parts), NEW s \in Seq(Byte), NEW i \in 1..Len(parts), NEW p,
         Begins(parts, s, i, p)
  PROVE  Verdict(parts, s) = "more"
<1>1. Fine(parts, s, i - 1) /\ Ends(parts, s)[i - 1] = Len(s)
  BY DEF Begins
<1>2. Ends(parts, s)[i] = Ends(parts, s)[i - 1] + Size(parts[i], Begun(parts, s, i))
      /\ Size(parts[i], Begun(parts, s, i)) \in Nat \ {0}
  BY <1>1, BegunFacts
<1>3. Len(s) < Ends(parts, s)[i] /\ ~ (Ends(parts, s)[i - 1] < Len(s))
  BY <1>1, <1>2
<1> QED BY <1>1, <1>3, VerdictMore

LEMMA BeginsDone ==
  ASSUME NEW parts, IsLayout(parts), NEW s \in Seq(Byte), NEW p, Begins(parts, s, Len(parts) + 1, p)
  PROVE  Verdict(parts, s) = "done" /\ p.texts = Payloads(parts, s) /\ Fine(parts, s, Len(parts))
<1>1. (Len(parts) + 1) - 1 = Len(parts)
  BY DEF IsLayout
<1> QED BY <1>1, VerdictDone DEF Begins, Payloads

LEMMA WithinMore ==
  ASSUME NEW parts, IsLayout(parts), NEW s \in Seq(Byte), NEW i, NEW p \in Parser,
         Within(parts, s, i, p)
  PROVE  Verdict(parts, s) = "more"
<1> DEFINE f == Begun(parts, s, i)  h == HeadSize(parts[i], f)
<1>1. /\ i \in 1..Len(parts) /\ Fine(parts, s, i - 1) /\ ~ Wrong(parts[i], f)
      /\ Size(parts[i], f) = h + Larger(1, p.remaining)
      /\ Len(f) = h + p.read /\ p.read < Larger(1, p.remaining)
  BY DEF Within
<1>2. /\ Ends(parts, s)[i - 1] \in Nat /\ Len(f) = Len(s) - Ends(parts, s)[i - 1]
      /\ Ends(parts, s)[i] = Ends(parts, s)[i - 1] + Size(parts[i], f) /\ h \in 0..2
  BY <1>1, BegunFacts, HeadIsNumber
<1>3. Larger(1, p.remaining) \in Nat /\ p.read \in Nat /\ Len(s) \in Nat
  <2>1. p.remaining \in Byte /\ p.read \in Nat
    BY DEF Parser
  <2>2. p.remaining \in Nat
    BY <2>1, BytesAreNumbers
  <2> QED BY <2>1, <2>2 DEF Larger
<1>4. ~ Wrong(parts[i], From(s, Ends(parts, s)[i - 1]))
  BY <1>1 DEF Begun
<1> HIDE DEF f, h
<1>5. Len(s) < Ends(parts, s)[i]
  <2> DEFINE e == Ends(parts, s)[i - 1]  z == Larger(1, p.remaining)
  <2>1. e \in Nat /\ z \in Nat /\ h \in Nat /\ p.read \in Nat /\ Len(s) \in Nat
    BY <1>2, <1>3
  <2>2. Ends(parts, s)[i] = e + (h + z)
    BY <1>1, <1>2
  <2>3. Len(s) - e = h + p.read /\ p.read < z
    BY <1>1, <1>2
  <2> HIDE DEF e, z
  <2> QED BY <2>1, <2>2, <2>3
<1> QED BY <1>1, <1>4, <1>5, VerdictMore

(* The head of a part tells its size. *)
LEMMA HeadKept ==
  ASSUME NEW part, IsPart(part), part.t # "one", NEW f \in Seq(Byte), NEW b \in Byte,
         HeadSize(part, f) <= Len(f), ~ Wrong(part, f)
  PROVE  /\ HeadSize(part, Append(f, b)) = HeadSize(part, f)
         /\ Size(part, Append(f, b)) = Size(part, f)
         /\ Wrong(part, Append(f, b)) => part.t = "number" /\ Len(f) >= 3
<1> DEFINE r == Append(f, b)
<1>1. Len(f) \in Nat /\ Len(r) = Len(f) + 1 /\ \A i \in 1..Len(f) : r[i] = f[i]
  OBVIOUS
<1> SUFFICES /\ HeadSize(part, r) = HeadSize(part, f) /\ Size(part, r) = Size(part, f)
             /\ Wrong(part, r) => part.t = "number" /\ Len(f) >= 3
  OBVIOUS
<1> HIDE DEF r
<1>2. CASE part.t = "number"
  BY <1>1, <1>2 DEF HeadSize, Size, Wrong
<1>3. CASE part.t = "fixed"
  BY <1>3 DEF HeadSize, Size, Wrong
<1>4. CASE part.t = "counted"
  <2>1. 1 <= Len(f)
    BY <1>4 DEF HeadSize
  <2>2. 1 \in 1..Len(f)
    BY <1>1, <2>1
  <2>3. r[1] = f[1] /\ At(f, 1) = f[1] /\ At(r, 1) = f[1]
    BY <1>1, <2>1, <2>2 DEF At
  <2>4. ~ Wrong(part, r)
    BY <1>4, <2>3 DEF Wrong
  <2> QED BY <1>4, <2>3, <2>4 DEF HeadSize, Size
<1>5. CASE part.t = "address"
  <2>1. 1 <= Len(f)
    BY <1>1, <1>5 DEF HeadSize
  <2>2. 1 \in 1..Len(f)
    BY <1>1, <2>1
  <2>3. r[1] = f[1] /\ At(f, 1) = f[1] /\ At(r, 1) = f[1]
    BY <1>1, <2>1, <2>2 DEF At
  <2>4. ~ Wrong(part, r) /\ f[1] \in {1, 3, 4}
    BY <1>5, <2>3 DEF Wrong
  <2>5. HeadSize(part, r) = HeadSize(part, f)
    BY <1>5, <2>3 DEF HeadSize
  <2>6. CASE f[1] = 3
    <3>1. HeadSize(part, f) = 2
      BY <1>5, <2>6 DEF HeadSize
    <3>2. 2 \in 1..Len(f) /\ 2 <= Len(f) /\ 2 <= Len(r)
      BY <1>1, <3>1
    <3>3. At(r, 2) = At(f, 2)
      BY <1>1, <3>2 DEF At
    <3>4. Size(part, r) = 2 + Larger(part.least, At(r, 2)) /\ Size(part, f) = 2 + Larger(part.least, At(f, 2))
      BY <1>5, <2>3, <2>6 DEF Size
    <3> QED BY <2>4, <2>5, <3>3, <3>4
  <2>7. CASE f[1] = 1
    <3>1. Size(part, r) = 1 + Ipv4Len /\ Size(part, f) = 1 + Ipv4Len
      BY <1>5, <2>3, <2>7 DEF Size
    <3> QED BY <2>4, <2>5, <3>1
  <2>8. CASE f[1] = 4
    <3>1. Size(part, r) = 1 + Ipv6Len /\ Size(part, f) = 1 + Ipv6Len
      BY <1>5, <2>3, <2>8 DEF Size
    <3> QED BY <2>4, <2>5, <3>1
  <2> QED BY <2>4, <2>6, <2>7, <2>8
<1> QED BY <1>2, <1>3, <1>4, <1>5 DEF IsPart

-----------------------------------------------------------------------------
(* The steps of the parsers, one for each way in which a byte is taken. *)
LEMMA ArrayGrows ==
  ASSUME NEW x \in Seq(Byte), NEW b \in Byte
  PROVE  Written(x, Len(x), b) = Append(x, b)
<1> DEFINE u == Written(x, Len(x), b)  v == Append(x, b)
<1>1. Len(x) \in Nat /\ \A j \in 1..Len(x) : x[j] \in Byte
  OBVIOUS
<1>2. u = [j \in 1..(Len(x) + 1) |-> IF j = Len(x) + 1 THEN b ELSE x[j]]
  BY <1>1 DEF Written
<1>3. u \in Seq(Byte) /\ Len(u) = Len(x) + 1
      /\ \A j \in 1..(Len(x) + 1) : u[j] = IF j = Len(x) + 1 THEN b ELSE x[j]
  <2> HIDE DEF u
  <2>1. \A j \in 1..(Len(x) + 1) : (IF j = Len(x) + 1 THEN b ELSE x[j]) \in Byte
    BY <1>1
  <2> QED BY <1>1, <1>2, <2>1
<1>4. v \in Seq(Byte) /\ Len(v) = Len(x) + 1
      /\ \A j \in 1..(Len(x) + 1) : v[j] = IF j = Len(x) + 1 THEN b ELSE x[j]
  OBVIOUS
<1> HIDE DEF u, v
<1>5. \A j \in 1..Len(u) : u[j] = v[j]
  BY <1>3, <1>4
<1>6. u = v
  BY <1>3, <1>4, <1>5, SeqEqual
<1> QED BY <1>6 DEF u, v

Replaced(l, i, y) == [l EXCEPT ![i] = y]

LEMMA LastText ==
  ASSUME NEW t \in Seq(Seq(Byte)), NEW x \in Seq(Byte), NEW y \in Seq(Byte)
  PROVE  /\ Len(Append(t, x)) = Len(t) + 1 /\ Append(t, x)[Len(t) + 1] = x
         /\ Replaced(Append(t, x), Len(t) + 1, y) = Append(t, y)
<1> DEFINE T == Seq(Byte)  a == Append(t, x)  u == [a EXCEPT ![Len(t) + 1] = y]  v == Append(t, y)
<1> HIDE DEF T
<1>0. t \in Seq(T) /\ x \in T /\ y \in T
  BY DEF T
<1>1. Len(t) \in Nat /\ a \in Seq(T) /\ Len(a) = Len(t) + 1 /\ a[Len(t) + 1] = x
      /\ \A i \in 1..Len(t) : a[i] = t[i]
  BY <1>0, AppendProperties
<1>2. v \in Seq(T) /\ Len(v) = Len(t) + 1 /\ v[Len(t) + 1] = y
      /\ \A i \in 1..Len(t) : v[i] = t[i]
  BY <1>0, AppendProperties
<1>3. u \in Seq(T) /\ Len(u) = Len(t) + 1
      /\ \A i \in 1..(Len(t) + 1) : u[i] = IF i = Len(t) + 1 THEN y ELSE a[i]
  <2> HIDE DEF a
  <2>1. Len(t) + 1 \in 1..Len(a)
    BY <1>1
  <2> QED BY <1>0, <1>1, <2>1, ExceptSeq
<1> HIDE DEF a, u, v
<1>4. \A i \in 1..Len(u) : u[i] = v[i]
  <2> TAKE i \in 1..Len(u)
  <2>1. CASE i = Len(t) + 1
    BY <1>1, <1>2, <1>3, <2>1
  <2>2. CASE i # Len(t) + 1
    <3>1. i \in 1..Len(t) /\ i \in 1..(Len(t) + 1)
      BY <1>1, <1>3, <2>2
    <3> QED BY <1>1, <1>2, <1>3, <2>2, <3>1
  <2> QED BY <2>1, <2>2
<1>5. u = v
  BY <1>2, <1>3, <1>4, SeqEqual
<1> QED BY <1>1, <1>5 DEF a, u, v, Replaced

(* A struct that keeps to what it was told to read. *)
Sane(p) == p \in Parser /\ p.read <= Larger(1, p.remaining)

(* What is left of that once the zero behind a full array has fallen on remaining. *)
Sound(p) ==
  /\ p \in Parser /\ p.read <= Base
  /\ \/ p.read <= Larger(1, p.remaining)
     \/ p.state = "done" /\ p.remaining = 0 /\ p.read >= ArraySize

LEMMA SaneIsSound ==
  ASSUME NEW p, Sane(p)
  PROVE  Sound(p)
<1>1. p \in Parser /\ p.read <= Larger(1, p.remaining)
  BY DEF Sane
<1>2. p.read \in Nat /\ p.remaining \in Byte
  BY <1>1 DEF Parser
<1>3. p.read <= Base
  BY <1>1, <1>2, WireAssumption DEF Larger, Byte
<1> QED BY <1>1, <1>3 DEF Sound

Stored(p, y, n) == [p EXCEPT !.texts = y, !.read = n]

LEMMA StoredFields ==
  ASSUME NEW p \in Parser, NEW y \in Seq(Seq(Byte)), NEW n \in Nat
  PROVE  /\ Stored(p, y, n).texts = y /\ Stored(p, y, n).read = n
         /\ Stored(p, y, n).remaining = p.remaining /\ Stored(p, y, n).atyp = p.atyp
         /\ Stored(p, y, n).state = p.state /\ Stored(p, y, n) \in Parser
BY DEF Parser, Stored

(* The same in one word, for the proofs that have arrays to deal with. *)
Holds(v, p, remaining, read, texts) ==
  /\ v.texts = texts /\ v.read = read /\ v.remaining = remaining /\ v.atyp = p.atyp
  /\ v.state = p.state /\ v \in Parser

LEMMA StoredHolds ==
  \A p \in Parser : \A y \in Seq(Seq(Byte)) : \A n \in Nat :
    Holds(Stored(p, y, n), p, p.remaining, n, y)
BY StoredFields DEF Holds

LEMMA GotoFields ==
  ASSUME NEW p \in Parser, NEW next \in States
  PROVE  /\ Goto(p, next).texts = p.texts /\ Goto(p, next).read = p.read
         /\ Goto(p, next).remaining = p.remaining /\ Goto(p, next).atyp = p.atyp
         /\ Goto(p, next).state = next /\ Goto(p, next) \in Parser
BY DEF Parser, Goto

LEMMA StoreFields ==
  ASSUME NEW p \in Parser, NEW b \in Byte, NEW next \in States,
         NEW t \in Seq(Seq(Byte)), NEW x \in Seq(Byte), p.texts = Append(t, x), p.read = Len(x)
  PROVE  LET q == Store(p, b, next)
         IN /\ q.texts = Append(t, Append(x, b)) /\ q.read = p.read + 1
            /\ q.remaining = p.remaining /\ q.atyp = p.atyp
            /\ q.state = (IF p.read + 1 >= p.remaining THEN next ELSE p.state) /\ q \in Parser
<1> DEFINE last == Len(p.texts)  array == Written(p.texts[last], p.read, b)
           y == Replaced(p.texts, last, array)  o == Stored(p, y, p.read + 1)
<1>1. Store(p, b, next) = IF o.read >= o.remaining THEN Goto(o, next) ELSE o
  BY DEF Store, Stored, Replaced
<1>2. y = Append(t, Append(x, b)) /\ y \in Seq(Seq(Byte))
  <2>1. last = Len(t) + 1 /\ p.texts[last] = x
    BY LastText
  <2>2. array = Append(x, b) /\ Append(x, b) \in Seq(Byte)
    BY <2>1, ArrayGrows
  <2> HIDE DEF last, array
  <2>3. y = Append(t, Append(x, b))
    <3>1. Replaced(Append(t, x), Len(t) + 1, Append(x, b)) = Append(t, Append(x, b))
      BY <2>2, LastText
    <3> QED BY <2>1, <2>2, <3>1
  <2> HIDE DEF y
  <2> QED BY <2>2, <2>3, AppendProperties
<1>3. p.read + 1 \in Nat
  BY DEF Parser
<1> HIDE DEF y
<1>4. /\ o.texts = y /\ o.read = p.read + 1 /\ o.remaining = p.remaining /\ o.atyp = p.atyp
      /\ o.state = p.state /\ o \in Parser
  <2> DEFINE n == p.read + 1
  <2>1. y \in Seq(Seq(Byte)) /\ n \in Nat
    BY <1>2, <1>3
  <2> HIDE DEF n
  <2>2. Holds(Stored(p, y, n), p, p.remaining, n, y)
    BY <2>1, StoredHolds, Zenon
  <2>3. o = Stored(p, y, n)
    BY DEF o, n
  <2> HIDE DEF o
  <2>4. Holds(o, p, p.remaining, n, y)
    BY <2>2, <2>3
  <2> QED BY <2>4, Zenon DEF n, Holds
<1> HIDE DEF o
<1>5. CASE o.read >= o.remaining
  <2>1. Store(p, b, next) = Goto(o, next)
    BY <1>1, <1>5
  <2>2. /\ Goto(o, next).texts = o.texts /\ Goto(o, next).read = o.read
        /\ Goto(o, next).remaining = o.remaining /\ Goto(o, next).atyp = o.atyp
        /\ Goto(o, next).state = next /\ Goto(o, next) \in Parser
    BY <1>4, GotoFields
  <2> QED BY <1>2, <1>4, <1>5, <2>1, <2>2
<1>6. CASE ~ (o.read >= o.remaining)
  BY <1>1, <1>2, <1>4, <1>6
<1> QED BY <1>5, <1>6

(* What comes of a byte of an array: r is what was taken with it, q the struct. *)
Stores(parts, r, i, p, next, q) ==
  /\ Sane(q) /\ q.remaining = p.remaining /\ q.atyp = p.atyp /\ r \in Seq(Byte)
  /\ q.texts = Append(PayloadsTo(parts, r)[i - 1],
                      From(Begun(parts, r, i), HeadSize(parts[i], Begun(parts, r, i))))
  /\ \/ q.state = p.state /\ Within(parts, r, i, q)
     \/ q.state = next /\ ~ Wrong(parts[i], Begun(parts, r, i)) /\ Begins(parts, r, i + 1, q)
     \/ q.state = next /\ parts[i].t = "number" /\ Wrong(parts[i], Begun(parts, r, i))
        /\ Size(parts[i], Begun(parts, r, i)) = Len(Begun(parts, r, i)) /\ Verdict(parts, r) = "error"

LEMMA StoreStep ==
  ASSUME NEW parts, IsLayout(parts), NEW s \in Seq(Byte), NEW b \in Byte, NEW i,
         NEW p \in Parser, Within(parts, s, i, p), NEW next \in States
  PROVE  Stores(parts, Append(s, b), i, p, next, Store(p, b, next))
<1> SUFFICES ASSUME NEW q, q = Store(p, b, next), NEW r, r = Append(s, b)
             PROVE  Stores(parts, r, i, p, next, q)
  OBVIOUS
<1> DEFINE f == Begun(parts, s, i)  h == HeadSize(parts[i], f)  t == PayloadsTo(parts, s)[i - 1]
           g == Begun(parts, r, i)  x == From(f, h)  more == Larger(1, p.remaining)
<1>1. /\ i \in 1..Len(parts) /\ Fine(parts, s, i - 1) /\ parts[i].t # "one"
      /\ h <= Len(f) /\ ~ Wrong(parts[i], f) /\ Size(parts[i], f) = h + more
      /\ Len(f) = h + p.read /\ p.read < more /\ p.texts = Append(t, x)
  BY DEF Within
<1>2. p.remaining \in Byte /\ p.read \in Nat /\ p.remaining \in Nat
  BY BytesAreNumbers DEF Parser
<1>3. more \in Nat \ {0} /\ more >= p.remaining
  BY <1>2 DEF Larger
<1>4. f \in Seq(Byte) /\ IsPart(parts[i]) /\ h \in 0..2 /\ t \in Seq(Seq(Byte))
  <2>1. f \in Seq(Byte) /\ IsPart(parts[i])
    BY <1>1, BegunFacts
  <2>2. t \in Seq(Seq(Byte))
    BY <1>1, PayloadsAreTexts
  <2> QED BY <2>1, <2>2, HeadIsNumber
<1>5. x \in Seq(Byte) /\ Len(x) = p.read /\ From(Append(f, b), h) = Append(x, b)
  <2>1. h \in Nat
    BY <1>4
  <2>2. x \in Seq(Byte) /\ Len(x) = Len(f) - h /\ From(Append(f, b), h) = Append(x, b)
    BY <1>1, <1>4, <2>1, FromFacts
  <2> QED BY <1>1, <1>2, <2>1, <2>2
<1>6. r \in Seq(Byte)
  OBVIOUS
<1>7. /\ Fine(parts, r, i - 1) /\ g = Append(f, b) /\ PayloadsTo(parts, r)[i - 1] = t
      /\ Ends(parts, r)[i - 1] = Ends(parts, s)[i - 1]
  BY <1>1, BegunGrows
<1> HIDE DEF f, g, h, t, x, more
<1>8. /\ HeadSize(parts[i], g) = h /\ Size(parts[i], g) = h + more
      /\ Wrong(parts[i], g) => parts[i].t = "number" /\ Len(f) >= 3
  BY <1>1, <1>4, <1>7, HeadKept DEF h
<1>9. Len(g) = h + p.read + 1 /\ g \in Seq(Byte)
  <2>1. Append(f, b) \in Seq(Byte) /\ Len(Append(f, b)) = Len(f) + 1
    BY <1>4, AppendProperties
  <2> QED BY <1>1, <1>7, <2>1
<1>10. From(g, h) = Append(x, b)
  BY <1>5, <1>7
<1>11. /\ q.texts = Append(t, Append(x, b)) /\ q.read = p.read + 1 /\ q.remaining = p.remaining
       /\ q.atyp = p.atyp /\ q.state = (IF p.read + 1 >= p.remaining THEN next ELSE p.state)
       /\ q \in Parser
  BY <1>1, <1>4, <1>5, StoreFields
<1>12. Sane(q) /\ q.read <= more
  <2>1. q.read <= more
    BY <1>1, <1>2, <1>3, <1>11
  <2> QED BY <1>11, <2>1 DEF Sane, more
<1>13. q.texts = Append(PayloadsTo(parts, r)[i - 1], From(g, HeadSize(parts[i], g)))
  BY <1>7, <1>8, <1>10, <1>11
<1>14. Ends(parts, r)[i - 1] < Len(r)
  <2>1. Ends(parts, r)[i - 1] \in Nat /\ Len(g) = Len(r) - Ends(parts, r)[i - 1]
    <3>1. ASSUME NEW v \in Seq(Byte), Fine(parts, v, i - 1)
          PROVE  /\ Ends(parts, v)[i - 1] \in Nat
                 /\ Len(Begun(parts, v, i)) = Len(v) - Ends(parts, v)[i - 1]
      BY <1>1, <3>1, BegunFacts
    <3> QED BY <1>6, <1>7, <3>1 DEF g
  <2>2. Len(g) > 0 /\ Len(r) \in Nat
    <3>1. h \in Nat
      BY <1>4
    <3>2. Len(r) \in Nat
      BY <1>6, LenProperties
    <3> QED BY <1>2, <1>9, <3>1, <3>2
  <2>3. Len(g) \in Nat
    BY <1>9, LenProperties
  <2> QED BY <2>1, <2>2, <2>3, BeginsBefore, Zenon
<1>15. CASE p.read + 1 < p.remaining
  <2>1. q.state = p.state
    BY <1>2, <1>11, <1>15
  <2>2. Larger(1, q.remaining) = more /\ more = p.remaining
    BY <1>2, <1>11, <1>15 DEF more, Larger
  <2>3. ~ Wrong(parts[i], g)
    <3>1. SUFFICES ASSUME parts[i].t = "number", Len(f) >= 3 PROVE FALSE
      BY <1>8
    <3>2. Size(parts[i], f) = 4 /\ h = 0
      BY <3>1 DEF Size, HeadSize, h
    <3> QED BY <1>1, <1>2, <1>15, <2>2, <3>1, <3>2
  <2>4. Within(parts, r, i, q)
    <3>1. h <= Len(g) /\ Len(g) = h + q.read /\ q.read < more
      <4>1. Len(f) \in Nat /\ h \in Nat /\ p.read \in Nat
        BY <1>2, <1>4
      <4>2. q.read = p.read + 1 /\ p.read + 1 < more /\ Len(g) = h + p.read + 1
        BY <1>9, <1>11, <1>15, <2>2
      <4>3. more \in Nat
        BY <1>3
      <4> QED BY <4>1, <4>2, <4>3
    <3>2. Size(parts[i], g) = h + Larger(1, q.remaining) /\ q.read < Larger(1, q.remaining)
      BY <1>8, <2>2, <3>1
    <3>3. q.texts = Append(PayloadsTo(parts, r)[i - 1], From(g, h)) /\ HeadSize(parts[i], g) = h
      BY <1>8, <1>13
    <3> QED BY <1>1, <1>7, <2>3, <3>1, <3>2, <3>3 DEF Within, g
  <2> QED BY <1>6, <1>11, <1>12, <1>13, <2>1, <2>4 DEF g, Stores
<1>16. CASE ~ (p.read + 1 < p.remaining)
  <2>1. q.state = next
    BY <1>2, <1>11, <1>16
  <2>2. Size(parts[i], g) = Len(g)
    <3>1. p.read + 1 = more
      BY <1>1, <1>2, <1>16 DEF more, Larger
    <3> QED BY <1>2, <1>3, <1>4, <1>8, <1>9, <3>1
  <2>3. CASE Wrong(parts[i], g)
    <3>1. Verdict(parts, r) = "error"
      BY <1>1, <1>14, <2>3, VerdictError DEF g, Begun
    <3> QED BY <1>6, <1>8, <1>11, <1>12, <1>13, <2>1, <2>2, <2>3, <3>1 DEF g, Stores
  <2>4. CASE ~ Wrong(parts[i], g)
    <3>1. Begins(parts, r, i + 1, q)
      BY <1>1, <1>6, <1>7, <1>13, <2>2, <2>4, PartEnds DEF g
    <3> QED BY <1>6, <1>11, <1>12, <1>13, <2>1, <2>4, <3>1 DEF g, Stores
  <2> QED BY <2>3, <2>4
<1> QED BY <1>15, <1>16

(* The first byte of a part. *)
LEMMA FirstByte ==
  ASSUME NEW parts, IsLayout(parts), NEW s \in Seq(Byte), NEW b \in Byte, NEW i \in 1..Len(parts),
         NEW p, Begins(parts, s, i, p)
  PROVE  /\ Append(s, b) \in Seq(Byte) /\ IsPart(parts[i])
         /\ Fine(parts, Append(s, b), i - 1) /\ Begun(parts, Append(s, b), i) = <<b>>
         /\ PayloadsTo(parts, Append(s, b))[i - 1] = p.texts
         /\ Ends(parts, Append(s, b))[i - 1] < Len(Append(s, b))
<1>1. /\ Fine(parts, s, i - 1) /\ Ends(parts, s)[i - 1] = Len(s)
      /\ p.texts = PayloadsTo(parts, s)[i - 1]
  BY DEF Begins
<1>2. Begun(parts, s, i) = <<>>
  <2>1. Begun(parts, s, i) \in Seq(Byte) /\ Len(Begun(parts, s, i)) = Len(s) - Len(s)
    BY <1>1, BegunFacts
  <2> QED BY <2>1
<1>3. Append(<<>>, b) = <<b>>
  OBVIOUS
<1>4. Len(Append(s, b)) = Len(s) + 1 /\ Len(s) \in Nat /\ Append(s, b) \in Seq(Byte)
  OBVIOUS
<1>5. /\ Fine(parts, Append(s, b), i - 1) /\ Begun(parts, Append(s, b), i) = <<b>>
      /\ PayloadsTo(parts, Append(s, b))[i - 1] = p.texts
      /\ Ends(parts, Append(s, b))[i - 1] = Len(s)
  <2>1. /\ Fine(parts, Append(s, b), i - 1)
        /\ Begun(parts, Append(s, b), i) = Append(Begun(parts, s, i), b)
        /\ PayloadsTo(parts, Append(s, b))[i - 1] = PayloadsTo(parts, s)[i - 1]
        /\ Ends(parts, Append(s, b))[i - 1] = Ends(parts, s)[i - 1]
    BY <1>1, BegunGrows
  <2> QED BY <1>1, <1>2, <1>3, <2>1
<1> QED BY <1>1, <1>4, <1>5, BegunFacts

LEMMA WrongByte ==
  ASSUME NEW parts, IsLayout(parts), NEW s \in Seq(Byte), NEW b \in Byte, NEW i \in 1..Len(parts),
         NEW p, Begins(parts, s, i, p), Wrong(parts[i], <<b>>)
  PROVE  Verdict(parts, Append(s, b)) = "error"
<1>1. /\ Ends(parts, Append(s, b))[i - 1] < Len(Append(s, b))
      /\ From(Append(s, b), Ends(parts, Append(s, b))[i - 1]) = <<b>>
  BY FirstByte DEF Begun
<1> QED BY <1>1, VerdictError

(* A byte with a meaning of its own. *)
LEMMA OneStep ==
  ASSUME NEW parts, IsLayout(parts), NEW s \in Seq(Byte), NEW b \in Byte, NEW i \in 1..Len(parts),
         NEW p, Begins(parts, s, i, p), parts[i].t = "one", NEW q, q.texts = p.texts
  PROVE  IF b \in parts[i].in THEN Begins(parts, Append(s, b), i + 1, q)
                              ELSE Verdict(parts, Append(s, b)) = "error"
<1> DEFINE r == Append(s, b)
<1>1. CASE b \in parts[i].in
  <2>1. ~ Wrong(parts[i], <<b>>) /\ Size(parts[i], <<b>>) = 1 /\ Len(<<b>>) = 1
    BY <1>1 DEF Wrong, Size
  <2>2. /\ r \in Seq(Byte) /\ Fine(parts, r, i - 1) /\ Begun(parts, r, i) = <<b>>
        /\ PayloadsTo(parts, r)[i - 1] = p.texts
    BY FirstByte
  <2> HIDE DEF r
  <2>3. Begins(parts, r, i + 1, q)
    BY <2>1, <2>2, PartEnds
  <2> QED BY <1>1, <2>3 DEF r
<1>2. CASE b \notin parts[i].in
  <2>1. Wrong(parts[i], <<b>>)
    BY <1>2 DEF Wrong
  <2> QED BY <1>2, <2>1, WrongByte
<1> QED BY <1>1, <1>2

(* A payload whose head has come. *)
LEMMA HeadIsWhole ==
  ASSUME NEW parts, IsLayout(parts), NEW s \in Seq(Byte), NEW i \in 1..Len(parts),
         Fine(parts, s, i - 1), parts[i].t # "one", NEW q, q.read = 0,
         NEW f, Begun(parts, s, i) = f, Len(f) = HeadSize(parts[i], f), ~ Wrong(parts[i], f),
         q.remaining \in Byte, Size(parts[i], f) = Len(f) + Larger(1, q.remaining),
         q.texts = Append(PayloadsTo(parts, s)[i - 1], <<>>)
  PROVE  Within(parts, s, i, q)
<1>1. f \in Seq(Byte) /\ Len(f) \in Nat
  BY BegunFacts
<1>2. From(f, Len(f)) = <<>>
  BY <1>1 DEF From
<1>3. q.remaining \in Nat
  BY BytesAreNumbers
<1>4. Larger(1, q.remaining) > 0
  BY <1>3 DEF Larger
<1> QED BY <1>1, <1>2, <1>4 DEF Within

(* A byte that says how many follow. *)
LEMMA LengthStep ==
  ASSUME NEW parts, IsLayout(parts), NEW s \in Seq(Byte), NEW b \in Byte, NEW i \in 1..Len(parts),
         NEW p, Begins(parts, s, i, p), parts[i].t = "counted", parts[i].least = 1,
         NEW q, q.read = 0, q.remaining = b, q.texts = Append(p.texts, <<>>)
  PROVE  IF b = 0 THEN Verdict(parts, Append(s, b)) = "error" ELSE Within(parts, Append(s, b), i, q)
<1> DEFINE r == Append(s, b)
<1>0. b \in Nat
  BY BytesAreNumbers
<1>1. CASE b = 0
  <2>1. Wrong(parts[i], <<b>>)
    BY <1>1 DEF Wrong
  <2> QED BY <1>1, <2>1, WrongByte
<1>2. CASE b # 0
  <2>1. /\ r \in Seq(Byte) /\ Fine(parts, r, i - 1) /\ Begun(parts, r, i) = <<b>>
        /\ PayloadsTo(parts, r)[i - 1] = p.texts
    BY FirstByte
  <2> HIDE DEF r
  <2>2. Len(<<b>>) = 1 /\ HeadSize(parts[i], <<b>>) = 1 /\ ~ Wrong(parts[i], <<b>>)
    BY <1>0, <1>2 DEF HeadSize, Wrong
  <2>3. Size(parts[i], <<b>>) = 1 + b /\ Larger(1, b) = b
    BY <1>0, <1>2 DEF Size, At, Larger
  <2>4. q.texts = Append(PayloadsTo(parts, r)[i - 1], <<>>) /\ q.remaining \in Byte
        /\ Size(parts[i], <<b>>) = Len(<<b>>) + Larger(1, q.remaining)
    BY <2>1, <2>2, <2>3
  <2>5. Within(parts, r, i, q)
    BY <2>1, <2>2, <2>4, HeadIsWhole
  <2> QED BY <1>2, <2>5 DEF r
<1> QED BY <1>1, <1>2

(* A payload that needs no head. *)
LEMMA FixedStep ==
  ASSUME NEW parts, IsLayout(parts), NEW s \in Seq(Byte), NEW i \in 1..Len(parts),
         NEW p, Begins(parts, s, i, p), NEW n \in Byte \ {0},
         \/ parts[i].t = "number" /\ n = 4
         \/ parts[i].t = "fixed" /\ n = parts[i].n,
         NEW q, q.read = 0, q.remaining = n, q.texts = Append(p.texts, <<>>)
  PROVE  Within(parts, s, i, q)
<1>1. Fine(parts, s, i - 1) /\ q.texts = Append(PayloadsTo(parts, s)[i - 1], <<>>)
      /\ Ends(parts, s)[i - 1] = Len(s)
  BY DEF Begins
<1>2. Begun(parts, s, i) = <<>>
  <2>1. Begun(parts, s, i) \in Seq(Byte) /\ Len(Begun(parts, s, i)) = Len(s) - Len(s)
    BY <1>1, BegunFacts
  <2> QED BY <2>1
<1>3. n \in Nat /\ n # 0
  BY BytesAreNumbers
<1>4. Len(<<>>) = 0 /\ HeadSize(parts[i], <<>>) = 0 /\ ~ Wrong(parts[i], <<>>)
      /\ Size(parts[i], <<>>) = n /\ parts[i].t # "one"
  <2>0. Len(<<>>) = 0
    OBVIOUS
  <2>1. CASE parts[i].t = "number" /\ n = 4
    BY <2>0, <2>1 DEF HeadSize, Wrong, Size
  <2>2. CASE parts[i].t = "fixed" /\ n = parts[i].n
    BY <2>0, <2>2 DEF HeadSize, Wrong, Size
  <2> QED BY <2>1, <2>2
<1>5. Size(parts[i], <<>>) = Len(<<>>) + Larger(1, q.remaining)
  BY <1>3, <1>4 DEF Larger
<1> QED BY <1>1, <1>2, <1>4, <1>5, HeadIsWhole

(* The kind of an address, and the length of a name: i is the address. *)
Names(parts, s, i, p) ==
  /\ Fine(parts, s, i - 1) /\ Begun(parts, s, i) = <<3>>
  /\ p.texts = PayloadsTo(parts, s)[i - 1]

LEMMA AddressWrong ==
  ASSUME NEW parts, IsLayout(parts), NEW s \in Seq(Byte), NEW b \in Byte, NEW i \in 1..Len(parts),
         NEW p, Begins(parts, s, i, p), parts[i].t = "address", b \notin {1, 3, 4}
  PROVE  Verdict(parts, Append(s, b)) = "error"
<1>1. Wrong(parts[i], <<b>>)
  BY DEF Wrong
<1> QED BY <1>1, WrongByte

LEMMA AddressNamed ==
  ASSUME NEW parts, IsLayout(parts), NEW s \in Seq(Byte), 3 \in Byte, NEW i \in 1..Len(parts),
         NEW p, Begins(parts, s, i, p), NEW q, q.texts = p.texts
  PROVE  Names(parts, Append(s, 3), i, q)
BY FirstByte DEF Names

LEMMA AddressStep ==
  ASSUME NEW parts, IsLayout(parts), NEW s \in Seq(Byte), NEW b \in Byte, NEW i \in 1..Len(parts),
         NEW p, Begins(parts, s, i, p), parts[i].t = "address",
         NEW q, (b = 1 /\ q.remaining = Ipv4Len) \/ (b = 4 /\ q.remaining = Ipv6Len),
         q.read = 0, q.texts = Append(p.texts, <<>>)
  PROVE  Within(parts, Append(s, b), i, q)
<1> DEFINE r == Append(s, b)
<1>1. /\ r \in Seq(Byte) /\ Fine(parts, r, i - 1) /\ Begun(parts, r, i) = <<b>>
      /\ PayloadsTo(parts, r)[i - 1] = p.texts
  BY FirstByte
<1> HIDE DEF r
<1>2. q.remaining \in Byte /\ q.remaining # 0 /\ q.remaining \in Nat
  <2>1. Ipv4Len \in Byte \ {0} /\ Ipv6Len \in Byte \ {0}
    BY WireAssumption
  <2> QED BY <2>1, BytesAreNumbers
<1>3. Larger(1, q.remaining) = q.remaining
  BY <1>2 DEF Larger
<1>4. Len(<<b>>) = 1 /\ At(<<b>>, 1) = b
  BY DEF At
<1>5. HeadSize(parts[i], <<b>>) = 1 /\ ~ Wrong(parts[i], <<b>>)
  BY DEF HeadSize, Wrong
<1>6. Size(parts[i], <<b>>) = 1 + q.remaining
  BY <1>4 DEF Size
<1>7. q.texts = Append(PayloadsTo(parts, r)[i - 1], <<>>)
      /\ Size(parts[i], <<b>>) = Len(<<b>>) + Larger(1, q.remaining)
      /\ Len(<<b>>) = HeadSize(parts[i], <<b>>) /\ parts[i].t # "one"
  BY <1>1, <1>3, <1>4, <1>5, <1>6
<1>8. Within(parts, r, i, q)
  BY <1>1, <1>2, <1>5, <1>7, HeadIsWhole
<1> QED BY <1>8 DEF r

LEMMA NameStep ==
  ASSUME NEW parts, IsLayout(parts), NEW s \in Seq(Byte), NEW b \in Byte, NEW i \in 1..Len(parts),
         NEW p, Names(parts, s, i, p), parts[i].t = "address", parts[i].least = 1,
         NEW q, q.read = 0, q.remaining = b, q.texts = Append(p.texts, <<>>)
  PROVE  Within(parts, Append(s, b), i, q)
<1> DEFINE r == Append(s, b)
<1>1. r \in Seq(Byte) /\ Fine(parts, r, i - 1) /\ Begun(parts, r, i) = <<3, b>>
      /\ PayloadsTo(parts, r)[i - 1] = p.texts
  <2>1. Append(<<3>>, b) = <<3, b>>
    <3> DEFINE u == Append(<<3>>, b)  v == <<3, b>>
    <3>1. 3 \in Byte /\ <<3>> \in Seq(Byte) /\ Len(<<3>>) = 1
      BY BytesAreNumbers
    <3>2. u \in Seq(Byte) /\ Len(u) = 2 /\ u[1] = 3 /\ u[2] = b
      BY <3>1
    <3>3. v \in Seq(Byte) /\ Len(v) = 2 /\ v[1] = 3 /\ v[2] = b
      BY <3>1
    <3> HIDE DEF u, v
    <3>4. \A j \in 1..Len(u) : u[j] = v[j]
      BY <3>2, <3>3
    <3>5. u = v
      BY <3>2, <3>3, <3>4, SeqEqual
    <3> QED BY <3>5 DEF u, v
  <2>2. Fine(parts, s, i - 1) /\ Begun(parts, s, i) = <<3>> /\ p.texts = PayloadsTo(parts, s)[i - 1]
    BY DEF Names
  <2>3. /\ Fine(parts, Append(s, b), i - 1)
        /\ Begun(parts, Append(s, b), i) = Append(Begun(parts, s, i), b)
        /\ PayloadsTo(parts, Append(s, b))[i - 1] = PayloadsTo(parts, s)[i - 1]
    <3>1. Fine(parts, s, i - 1)
      BY <2>2
    <3> QED BY <3>1, BegunGrows
  <2> QED BY <2>1, <2>2, <2>3
<1> HIDE DEF r
<1>2. b \in Nat
  BY BytesAreNumbers
<1>3. Len(<<3, b>>) = 2 /\ At(<<3, b>>, 1) = 3 /\ At(<<3, b>>, 2) = b
  BY DEF At
<1>4. HeadSize(parts[i], <<3, b>>) = 2 /\ ~ Wrong(parts[i], <<3, b>>)
  BY DEF HeadSize, Wrong
<1>5. Size(parts[i], <<3, b>>) = 2 + Larger(1, b)
  BY <1>3 DEF Size
<1>6. q.texts = Append(PayloadsTo(parts, r)[i - 1], <<>>) /\ q.remaining \in Byte
      /\ Size(parts[i], <<3, b>>) = Len(<<3, b>>) + Larger(1, q.remaining)
      /\ Len(<<3, b>>) = HeadSize(parts[i], <<3, b>>) /\ parts[i].t # "one"
  BY <1>1, <1>3, <1>4, <1>5
<1>7. Within(parts, r, i, q)
  BY <1>1, <1>4, <1>6, HeadIsWhole
<1> QED BY <1>7 DEF r

LEMMA NamesMore ==
  ASSUME NEW parts, IsLayout(parts), NEW s \in Seq(Byte), NEW i \in 1..Len(parts),
         NEW p, Names(parts, s, i, p), parts[i].t = "address", parts[i].least = 1
  PROVE  Verdict(parts, s) = "more"
<1>1. Fine(parts, s, i - 1) /\ Begun(parts, s, i) = <<3>>
  BY DEF Names
<1>2. Size(parts[i], <<3>>) = 3 /\ ~ Wrong(parts[i], <<3>>) /\ Len(<<3>>) = 1
  BY DEF Size, Wrong, At, Larger
<1>3. /\ Ends(parts, s)[i] = Ends(parts, s)[i - 1] + 3
      /\ Ends(parts, s)[i - 1] \in Nat /\ 1 = Len(s) - Ends(parts, s)[i - 1]
  <2>1. /\ Ends(parts, s)[i - 1] \in Nat
        /\ Len(Begun(parts, s, i)) = Len(s) - Ends(parts, s)[i - 1]
        /\ Ends(parts, s)[i] = Ends(parts, s)[i - 1] + Size(parts[i], Begun(parts, s, i))
    BY <1>1, BegunFacts
  <2> QED BY <1>1, <1>2, <2>1
<1>4. Len(s) < Ends(parts, s)[i]
  BY <1>3
<1> QED BY <1>1, <1>2, <1>4, VerdictMore DEF Begun

(* The list of methods, which is counted down: i is the list. *)
Lists(parts, s, i, p) ==
  LET f == Begun(parts, s, i)
  IN /\ Fine(parts, s, i - 1) /\ Len(f) >= 1 /\ f[1] = (Len(f) - 1) + p.remaining
     /\ p.remaining > 0 /\ p.read = 0
     /\ p.texts = Append(PayloadsTo(parts, s)[i - 1], From(f, 1))

LEMMA ListsMore ==
  ASSUME NEW parts, IsLayout(parts), NEW s \in Seq(Byte), NEW i \in 1..Len(parts),
         NEW p \in Parser, Lists(parts, s, i, p), parts[i].t = "counted", parts[i].least = 0
  PROVE  Verdict(parts, s) = "more"
<1> DEFINE f == Begun(parts, s, i)
<1>1. Fine(parts, s, i - 1) /\ Len(f) >= 1 /\ f[1] = (Len(f) - 1) + p.remaining /\ p.remaining > 0
  BY DEF Lists
<1>2. /\ Ends(parts, s)[i - 1] \in Nat /\ f \in Seq(Byte)
      /\ Len(f) = Len(s) - Ends(parts, s)[i - 1]
      /\ Ends(parts, s)[i] = Ends(parts, s)[i - 1] + Size(parts[i], f)
  BY <1>1, BegunFacts
<1> HIDE DEF f
<1>3. p.remaining \in Nat
  BY BytesAreNumbers DEF Parser
<1>4. Len(f) \in Nat /\ Len(s) \in Nat
  BY <1>2
<1>5. Size(parts[i], f) = 1 + f[1] /\ ~ Wrong(parts[i], f)
  BY <1>1, <1>3, <1>4 DEF Size, Wrong, At
<1>6. Len(s) < Ends(parts, s)[i]
  <2> DEFINE e == Ends(parts, s)[i - 1]  l == Len(s)  m == Len(f)
  <2>1. Ends(parts, s)[i] = e + (1 + ((m - 1) + p.remaining))
    BY <1>1, <1>2, <1>5
  <2>2. m = l - e /\ e \in Nat /\ l \in Nat /\ m \in Nat
    BY <1>2, <1>4
  <2> HIDE DEF e, l, m
  <2>3. l < e + (1 + ((m - 1) + p.remaining))
    BY <1>1, <1>3, <2>2, ListEndsBehind, Zenon
  <2> QED BY <2>1, <2>3 DEF l
<1> QED BY <1>1, <1>5, <1>6, VerdictMore DEF f, Begun

LEMMA ListOpens ==
  ASSUME NEW parts, IsLayout(parts), NEW s \in Seq(Byte), NEW b \in Byte, NEW i \in 1..Len(parts),
         NEW p, Begins(parts, s, i, p), parts[i].t = "counted", parts[i].least = 0,
         NEW q, q.read = 0, q.remaining = b, q.texts = Append(p.texts, <<>>)
  PROVE  IF b = 0 THEN Begins(parts, Append(s, b), i + 1, q) ELSE Lists(parts, Append(s, b), i, q)
<1> DEFINE r == Append(s, b)
<1>0. b \in Nat
  BY BytesAreNumbers
<1>1. /\ r \in Seq(Byte) /\ Fine(parts, r, i - 1) /\ Begun(parts, r, i) = <<b>>
      /\ PayloadsTo(parts, r)[i - 1] = p.texts
  BY FirstByte
<1> HIDE DEF r
<1>2. Len(<<b>>) = 1 /\ <<b>>[1] = b /\ From(<<b>>, 1) = <<>>
  BY DEF From
<1>3. HeadSize(parts[i], <<b>>) = 1 /\ Size(parts[i], <<b>>) = 1 + b /\ ~ Wrong(parts[i], <<b>>)
  BY <1>0, <1>2 DEF HeadSize, Size, Wrong, At
<1>4. q.texts = Append(PayloadsTo(parts, r)[i - 1], From(<<b>>, 1))
  BY <1>1, <1>2
<1>5. CASE b = 0
  <2>1. Size(parts[i], <<b>>) = Len(<<b>>)
    BY <1>2, <1>3, <1>5
  <2>2. q.texts = IF parts[i].t = "one" THEN PayloadsTo(parts, r)[i - 1]
                  ELSE Append(PayloadsTo(parts, r)[i - 1],
                              From(Begun(parts, r, i), HeadSize(parts[i], Begun(parts, r, i))))
    BY <1>1, <1>3, <1>4
  <2>3. Begins(parts, r, i + 1, q)
    BY <1>1, <1>3, <2>1, <2>2, PartEnds
  <2> QED BY <1>5, <2>3 DEF r
<1>6. CASE b # 0
  <2>1. <<b>>[1] = (Len(<<b>>) - 1) + q.remaining /\ Len(<<b>>) >= 1 /\ q.remaining > 0
    BY <1>0, <1>2, <1>6
  <2>2. Lists(parts, r, i, q)
    BY <1>1, <1>4, <2>1 DEF Lists
  <2> QED BY <1>6, <2>2 DEF r
<1> QED BY <1>5, <1>6

LEMMA ListStep ==
  ASSUME NEW parts, IsLayout(parts), NEW s \in Seq(Byte), NEW b \in Byte, NEW i \in 1..Len(parts),
         NEW p \in Parser, Lists(parts, s, i, p), parts[i].t = "counted", parts[i].least = 0,
         NEW q, q.read = 0, q.remaining = p.remaining - 1,
         q.texts = Append(PayloadsTo(parts, s)[i - 1], Append(From(Begun(parts, s, i), 1), b))
  PROVE  IF q.remaining = 0 THEN Begins(parts, Append(s, b), i + 1, q)
                            ELSE Lists(parts, Append(s, b), i, q)
<1> DEFINE r == Append(s, b)  f == Begun(parts, s, i)  g == Begun(parts, r, i)
           t == PayloadsTo(parts, s)[i - 1]
<1>1. /\ Fine(parts, s, i - 1) /\ Len(f) >= 1 /\ f[1] = (Len(f) - 1) + p.remaining
      /\ p.remaining > 0 /\ p.texts = Append(t, From(f, 1))
  BY DEF Lists
<1>2. f \in Seq(Byte) /\ Len(f) \in Nat /\ t \in Seq(Seq(Byte)) /\ IsPart(parts[i])
  BY <1>1, BegunFacts, PayloadsAreTexts
<1>3. /\ Fine(parts, r, i - 1) /\ g = Append(f, b) /\ PayloadsTo(parts, r)[i - 1] = t
  BY <1>1, BegunGrows
<1>4. r \in Seq(Byte) /\ q.texts = Append(t, Append(From(f, 1), b))
  OBVIOUS
<1> HIDE DEF r, f, g, t
<1>5. p.remaining \in Nat
  BY BytesAreNumbers DEF Parser
<1>6. From(f, 1) \in Seq(Byte) /\ From(g, 1) = Append(From(f, 1), b)
  BY <1>1, <1>2, <1>3, FromFacts
<1>7. g \in Seq(Byte) /\ Len(g) = Len(f) + 1 /\ g[1] = f[1]
  <2>1. 1 \in 1..Len(f)
    BY <1>1, <1>2
  <2> QED BY <1>2, <1>3, <2>1
<1>8. q.texts = Append(PayloadsTo(parts, r)[i - 1], From(g, 1))
  BY <1>3, <1>4, <1>6
<1>9. g[1] = (Len(g) - 1) + q.remaining /\ q.remaining \in Nat /\ Len(g) >= 1
  <2>1. /\ Len(f) \in Nat /\ Len(f) >= 1 /\ p.remaining \in Nat /\ p.remaining > 0
        /\ q.remaining = p.remaining - 1 /\ Len(g) = Len(f) + 1
    BY <1>1, <1>2, <1>5, <1>7
  <2>2. g[1] = (Len(f) - 1) + p.remaining
    BY <1>1, <1>7
  <2>3. (Len(f) - 1) + p.remaining = (Len(g) - 1) + q.remaining
    BY <2>1
  <2>4. q.remaining \in Nat /\ Len(g) >= 1
    <3> DEFINE had == p.remaining  has == q.remaining  n == Len(f)  m == Len(g)
    <3>1. n \in Nat /\ had \in Nat /\ had > 0 /\ has = had - 1 /\ m = n + 1
      BY <2>1
    <3> HIDE DEF had, has, n, m
    <3>2. has \in Nat /\ m >= 1
      BY <3>1
    <3> QED BY <3>2 DEF has, m
  <2> QED BY <2>2, <2>3, <2>4
<1>10. HeadSize(parts[i], g) = 1 /\ Size(parts[i], g) = 1 + g[1] /\ ~ Wrong(parts[i], g)
  <2>1. g[1] \in Nat
    BY <1>2, <1>7, <1>9
  <2> QED BY <1>9, <2>1 DEF HeadSize, Size, Wrong, At
<1>11. CASE q.remaining = 0
  <2>1. Size(parts[i], g) = Len(g)
    BY <1>2, <1>7, <1>9, <1>10, <1>11
  <2>2. q.texts = IF parts[i].t = "one" THEN PayloadsTo(parts, r)[i - 1]
                  ELSE Append(PayloadsTo(parts, r)[i - 1], From(g, HeadSize(parts[i], g)))
    BY <1>8, <1>10
  <2>3. Begins(parts, r, i + 1, q)
    BY <1>3, <1>4, <1>10, <2>1, <2>2, PartEnds DEF g
  <2> QED BY <1>11, <2>3 DEF r
<1>12. CASE q.remaining # 0
  <2>1. Lists(parts, r, i, q)
    <3>1. q.remaining > 0
      <4>1. q.remaining \in Nat
        BY <1>9
      <4> QED BY <1>5, <1>12, <4>1
    <3>2. Begun(parts, r, i) = g
      BY DEF g
    <3> QED BY <1>3, <1>8, <1>9, <3>1, <3>2 DEF Lists
  <2> QED BY <1>12, <2>1 DEF r
<1> QED BY <1>11, <1>12

-----------------------------------------------------------------------------
(* The steps as the parsers make them. *)
Checks(parts, r, i, p, next, q) ==
  /\ Sane(q) /\ q.texts = p.texts /\ q.atyp = p.atyp /\ q.read = p.read
  /\ \/ q.state = next /\ Begins(parts, r, i + 1, q)
     \/ q.state = "error" /\ Verdict(parts, r) = "error"

LEMMA CheckStep ==
  ASSUME NEW parts, IsLayout(parts), NEW s \in Seq(Byte), NEW b \in Byte, NEW i \in 1..Len(parts),
         NEW p, Sane(p), Begins(parts, s, i, p), NEW S, parts[i] = One(S), NEW next \in States
  PROVE  Checks(parts, Append(s, b), i, p, next, Check(p, b, S, next))
<1> SUFFICES ASSUME NEW q, q = Check(p, b, S, next) PROVE Checks(parts, Append(s, b), i, p, next, q)
  OBVIOUS
<1>1. parts[i].t = "one" /\ parts[i].in = S
  BY DEF One
<1>2. q = Goto(p, IF b \in S THEN next ELSE "error")
  BY DEF Check
<1>3. /\ q.texts = p.texts /\ q.read = p.read /\ q.remaining = p.remaining /\ q.atyp = p.atyp
      /\ q.state = (IF b \in S THEN next ELSE "error") /\ q \in Parser
  <2>1. p \in Parser
    BY DEF Sane
  <2>2. "error" \in States
    BY StateNames
  <2>3. CASE b \in S
    <3>1. q = Goto(p, next)
      BY <1>2, <2>3
    <3> QED BY <2>1, <2>3, <3>1, GotoFields
  <2>4. CASE b \notin S
    <3>1. q = Goto(p, "error")
      BY <1>2, <2>4
    <3> QED BY <2>1, <2>2, <2>4, <3>1, GotoFields
  <2> QED BY <2>3, <2>4
<1>4. Sane(q)
  BY <1>3 DEF Sane
<1>5. IF b \in S THEN Begins(parts, Append(s, b), i + 1, q) ELSE Verdict(parts, Append(s, b)) = "error"
  BY <1>1, <1>3, OneStep
<1> QED BY <1>3, <1>4, <1>5 DEF Checks

LEMMA RemainingFields ==
  ASSUME NEW p \in Parser, NEW n \in Byte
  PROVE  LET q == RemainingSet(p, n)
         IN /\ q.remaining = n /\ q.read = 0 /\ q.texts = Append(p.texts, <<>>)
            /\ q.atyp = p.atyp /\ q.state = p.state /\ q \in Parser
<1>1. Append(p.texts, <<>>) \in Seq(Seq(Byte))
  <2>1. <<>> \in Seq(Byte) /\ p.texts \in Seq(Seq(Byte))
    BY EmptySeq DEF Parser
  <2> QED BY <2>1, AppendProperties
<1> QED BY <1>1 DEF RemainingSet, Parser

Opens(parts, r, i, p, next, q) ==
  /\ Sane(q) /\ q.atyp = p.atyp
  /\ \/ q.state = next /\ Within(parts, r, i, q)
     \/ q.state = "error" /\ Verdict(parts, r) = "error"

LEMMA LengthFeed ==
  ASSUME NEW parts, IsLayout(parts), NEW s \in Seq(Byte), NEW b \in Byte, NEW i \in 1..Len(parts),
         NEW p, Sane(p), Begins(parts, s, i, p), parts[i] = Counted(1), NEW next \in States
  PROVE  Opens(parts, Append(s, b), i, p, next, Length(p, b, next))
<1> SUFFICES ASSUME NEW q, q = Length(p, b, next) PROVE Opens(parts, Append(s, b), i, p, next, q)
  OBVIOUS
<1>1. parts[i].t = "counted" /\ parts[i].least = 1
  BY DEF Counted
<1>2. p \in Parser
  BY DEF Sane
<1>3. CASE b = 0
  <2>1. q = Goto(p, "error")
    BY <1>3 DEF Length
  <2>2. Verdict(parts, Append(s, b)) = "error"
    <3> DEFINE z == RemainingSet(p, b)
    <3>1. z.read = 0 /\ z.remaining = b /\ z.texts = Append(p.texts, <<>>)
      BY <1>2, RemainingFields
    <3> HIDE DEF z
    <3> QED BY <1>1, <1>3, <3>1, LengthStep
  <2>3. q.state = "error" /\ q.atyp = p.atyp /\ q.read = p.read /\ q.remaining = p.remaining /\ q \in Parser
    <3>1. "error" \in States
      BY StateNames
    <3> QED BY <1>2, <2>1, <3>1, GotoFields
  <2> QED BY <2>2, <2>3 DEF Sane, Opens
<1>4. CASE b # 0
  <2> DEFINE z == RemainingSet(p, b)
  <2>1. z.read = 0 /\ z.remaining = b /\ z.texts = Append(p.texts, <<>>) /\ z \in Parser /\ z.atyp = p.atyp
    BY <1>2, RemainingFields
  <2>2. q = Goto(z, next)
    BY <1>4 DEF Length
  <2> HIDE DEF z
  <2>3. q.read = 0 /\ q.remaining = b /\ q.texts = Append(p.texts, <<>>) /\ q \in Parser
        /\ q.atyp = p.atyp /\ q.state = next
    BY <2>1, <2>2, GotoFields
  <2>4. Sane(q)
    <3>1. b \in Nat
      BY BytesAreNumbers
    <3> QED BY <2>3, <3>1 DEF Sane, Larger
  <2>5. Within(parts, Append(s, b), i, q)
    BY <1>1, <1>4, <2>3, LengthStep
  <2> QED BY <2>3, <2>4, <2>5 DEF Opens
<1> QED BY <1>3, <1>4

Fills(parts, r, i, p, next, q) ==
  /\ Sane(q) /\ q.atyp = p.atyp
  /\ \/ q.state = p.state /\ Within(parts, r, i, q)
     \/ q.state = next /\ Begins(parts, r, i + 1, q)

LEMMA StoreFeed ==
  ASSUME NEW parts, IsLayout(parts), NEW s \in Seq(Byte), NEW b \in Byte, NEW i,
         NEW p, Sane(p), Within(parts, s, i, p), parts[i].t # "number", NEW next \in States
  PROVE  Fills(parts, Append(s, b), i, p, next, Store(p, b, next))
<1>1. p \in Parser
  BY DEF Sane
<1>2. Stores(parts, Append(s, b), i, p, next, Store(p, b, next))
  BY <1>1, StoreStep
<1> QED BY <1>2 DEF Stores, Fills

(* The last array of a message, and the zero behind it. *)
Completes(parts, r, i, p, q) ==
  /\ Sound(q) /\ q.atyp = p.atyp
  /\ \/ q.state = p.state /\ Within(parts, r, i, q)
     \/ q.state = "done" /\ Begins(parts, r, i + 1, q)

LEMMA LastFeed ==
  ASSUME NEW parts, IsLayout(parts), NEW s \in Seq(Byte), NEW b \in Byte, NEW i,
         NEW p, Sane(p), p.state # "done", Within(parts, s, i, p), parts[i].t # "number"
  PROVE  Completes(parts, Append(s, b), i, p, StoreLast(p, b))
<1> DEFINE z == Store(p, b, "done")  q == StoreLast(p, b)  r == Append(s, b)
<1>1. Fills(parts, r, i, p, "done", z)
  <2>1. "done" \in States
    BY StateNames
  <2> QED BY <2>1, StoreFeed
<1>2. q = IF z.state = "done" THEN Terminated(z) ELSE z
  BY DEF StoreLast
<1> HIDE DEF z, q, r
<1>3. Sane(z) /\ z.atyp = p.atyp /\ z \in Parser
  BY <1>1 DEF Fills, Sane
<1>4. CASE q = z
  BY <1>1, <1>3, <1>4, SaneIsSound DEF Fills, Completes, q, r
<1>5. CASE z.state = "done" /\ z.read >= ArraySize
  <2>1. q = [z EXCEPT !.remaining = 0]
    BY <1>2, <1>5 DEF Terminated
  <2>2. 0 \in Byte
    BY BytesAreNumbers
  <2>3. /\ q.state = "done" /\ q.remaining = 0 /\ q.read = z.read /\ q.texts = z.texts
        /\ q.atyp = z.atyp /\ q \in Parser
    BY <1>3, <1>5, <2>1, <2>2 DEF Parser
  <2>4. Sound(q)
    <3>1. z.read <= Base
      BY <1>3, SaneIsSound DEF Sound
    <3> QED BY <1>5, <2>3, <3>1 DEF Sound
  <2>5. Begins(parts, r, i + 1, q)
    <3>1. Begins(parts, r, i + 1, z)
      BY <1>1, <1>5 DEF Fills
    <3> QED BY <2>3, <3>1 DEF Begins
  <2> QED BY <1>3, <2>3, <2>4, <2>5 DEF Completes, q, r
<1>6. q = z \/ (z.state = "done" /\ z.read >= ArraySize)
  BY <1>2 DEF Terminated
<1> QED BY <1>4, <1>5, <1>6

-----------------------------------------------------------------------------
(* Parser by parser: where each state is in the message, and that every byte
   keeps it so.  Those that check, measure and store first. *)
StandConnect(s, p) ==
  LET parts == Layout("admin_connect")
  IN \/ p.state = "version" /\ Begins(parts, s, 1, p)
     \/ p.state = "passlen" /\ Begins(parts, s, 2, p)
     \/ p.state = "passwd" /\ Within(parts, s, 2, p)
     \/ p.state = "done" /\ Begins(parts, s, 3, p)
     \/ p.state = "error" /\ Verdict(parts, s) = "error"

LEMMA ConnectParts ==
  LET parts == Layout("admin_connect")
  IN IsLayout(parts) /\ Len(parts) = 2
     /\ parts[1] = One({0}) /\ parts[2] = Counted(1)
<1> DEFINE parts == Layout("admin_connect")
<1>1. parts = <<One({0}), Counted(1)>>
  BY DEF Layout
<1> HIDE DEF parts
<1>2. Len(parts) = 2
      /\ parts[1] = One({0}) /\ parts[2] = Counted(1)
  BY <1>1
<1>3. 1..2 = {1, 2}
  OBVIOUS
<1> QED BY <1>2, <1>3, PartsAreParts DEF IsLayout, parts

LEMMA ConnectStep ==
  ASSUME NEW s \in Seq(Byte), NEW b \in Byte, NEW p, Sane(p), ~ IsDone(p), StandConnect(s, p)
  PROVE  Sound(AdminConnectFeed(p, b)) /\ StandConnect(Append(s, b), AdminConnectFeed(p, b))
<1> DEFINE parts == Layout("admin_connect")  r == Append(s, b)  q == AdminConnectFeed(p, b)
<1>0. IsLayout(parts) /\ Len(parts) = 2
      /\ parts[1] = One({0}) /\ parts[2] = Counted(1)
  BY ConnectParts
<1> HIDE DEF parts
<1>1. CASE p.state = "version" /\ Begins(parts, s, 1, p)
  <2>1. q = Check(p, b, {0}, "passlen")
    BY <1>1 DEF AdminConnectFeed
  <2>2. Checks(parts, r, 1, p, "passlen", Check(p, b, {0}, "passlen"))
    <3>1. IsLayout(parts) /\ 1 \in 1..Len(parts) /\ parts[1] = One({0}) /\ "passlen" \in States
      BY <1>0, StateNames
    <3>2. Begins(parts, s, 1, p)
      BY <1>1
    <3> QED BY <3>1, <3>2, CheckStep
  <2> QED BY <1>1, <2>1, <2>2, SaneIsSound DEF Checks, StandConnect, parts
<1>2. CASE p.state = "passlen" /\ Begins(parts, s, 2, p)
  <2>1. q = Length(p, b, "passwd")
    BY <1>2 DEF AdminConnectFeed
  <2>2. Opens(parts, r, 2, p, "passwd", Length(p, b, "passwd"))
    <3>1. IsLayout(parts) /\ 2 \in 1..Len(parts) /\ parts[2] = Counted(1) /\ "passwd" \in States
      BY <1>0, StateNames
    <3>2. Begins(parts, s, 2, p)
      BY <1>2
    <3> QED BY <3>1, <3>2, LengthFeed
  <2> QED BY <1>2, <2>1, <2>2, SaneIsSound DEF Opens, StandConnect, parts
<1>3. CASE p.state = "passwd" /\ Within(parts, s, 2, p)
  <2>1. q = StoreLast(p, b)
    BY <1>3 DEF AdminConnectFeed
  <2>2. Completes(parts, r, 2, p, StoreLast(p, b))
    BY <1>0, <1>3, LastFeed, PartsAreParts
  <2> QED BY <1>3, <2>1, <2>2 DEF Completes, StandConnect, parts
<1> QED BY <1>1, <1>2, <1>3 DEF StandConnect, IsDone, parts

StandGet(s, p) ==
  LET parts == Layout("admin_get")
  IN \/ p.state = "action" /\ Begins(parts, s, 1, p)
     \/ p.state = "option" /\ Begins(parts, s, 2, p)
     \/ p.state = "done" /\ Begins(parts, s, 3, p)
     \/ p.state = "error" /\ Verdict(parts, s) = "error"

LEMMA GetParts ==
  LET parts == Layout("admin_get")
  IN IsLayout(parts) /\ Len(parts) = 2
     /\ parts[1] = One({0}) /\ parts[2] = One(0..8)
<1> DEFINE parts == Layout("admin_get")
<1>1. parts = <<One({0}), One(0..8)>>
  BY DEF Layout
<1> HIDE DEF parts
<1>2. Len(parts) = 2
      /\ parts[1] = One({0}) /\ parts[2] = One(0..8)
  BY <1>1
<1>3. 1..2 = {1, 2}
  OBVIOUS
<1> QED BY <1>2, <1>3, PartsAreParts DEF IsLayout, parts

LEMMA GetStep ==
  ASSUME NEW s \in Seq(Byte), NEW b \in Byte, NEW p, Sane(p), ~ IsDone(p), StandGet(s, p)
  PROVE  Sane(AdminGetFeed(p, b)) /\ StandGet(Append(s, b), AdminGetFeed(p, b))
<1> DEFINE parts == Layout("admin_get")  r == Append(s, b)  q == AdminGetFeed(p, b)
<1>0. IsLayout(parts) /\ Len(parts) = 2
      /\ parts[1] = One({0}) /\ parts[2] = One(0..8)
  BY GetParts
<1> HIDE DEF parts
<1>1. CASE p.state = "action" /\ Begins(parts, s, 1, p)
  <2>1. q = Check(p, b, {0}, "option")
    BY <1>1 DEF AdminGetFeed
  <2>2. Checks(parts, r, 1, p, "option", Check(p, b, {0}, "option"))
    <3>1. IsLayout(parts) /\ 1 \in 1..Len(parts) /\ parts[1] = One({0}) /\ "option" \in States
      BY <1>0, StateNames
    <3>2. Begins(parts, s, 1, p)
      BY <1>1
    <3> QED BY <3>1, <3>2, CheckStep
  <2> QED BY <1>1, <2>1, <2>2 DEF Checks, StandGet, parts
<1>2. CASE p.state = "option" /\ Begins(parts, s, 2, p)
  <2>1. q = Check(p, b, 0..8, "done")
    BY <1>2 DEF AdminGetFeed
  <2>2. Checks(parts, r, 2, p, "done", Check(p, b, 0..8, "done"))
    <3>1. IsLayout(parts) /\ 2 \in 1..Len(parts) /\ parts[2] = One(0..8) /\ "done" \in States
      BY <1>0, StateNames
    <3>2. Begins(parts, s, 2, p)
      BY <1>2
    <3> QED BY <3>1, <3>2, CheckStep
  <2> QED BY <1>2, <2>1, <2>2 DEF Checks, StandGet, parts
<1> QED BY <1>1, <1>2 DEF StandGet, IsDone, parts

StandPut(s, p) ==
  LET parts == Layout("admin_put")
  IN \/ p.state = "action" /\ Begins(parts, s, 1, p)
     \/ p.state = "field" /\ Begins(parts, s, 2, p)
     \/ p.state = "namelen" /\ Begins(parts, s, 3, p)
     \/ p.state = "name" /\ Within(parts, s, 3, p)
     \/ p.state = "passlen" /\ Begins(parts, s, 4, p)
     \/ p.state = "pass" /\ Within(parts, s, 4, p)
     \/ p.state = "done" /\ Begins(parts, s, 5, p)
     \/ p.state = "error" /\ Verdict(parts, s) = "error"

LEMMA PutParts ==
  LET parts == Layout("admin_put")
  IN IsLayout(parts) /\ Len(parts) = 4
     /\ parts[1] = One({1}) /\ parts[2] = One({0}) /\ parts[3] = Counted(1)
     /\ parts[4] = Counted(1)
<1> DEFINE parts == Layout("admin_put")
<1>1. parts = <<One({1}), One({0}), Counted(1), Counted(1)>>
  BY DEF Layout
<1> HIDE DEF parts
<1>2. Len(parts) = 4
      /\ parts[1] = One({1}) /\ parts[2] = One({0}) /\ parts[3] = Counted(1)
      /\ parts[4] = Counted(1)
  BY <1>1
<1>3. 1..4 = {1, 2, 3, 4}
  OBVIOUS
<1> QED BY <1>2, <1>3, PartsAreParts DEF IsLayout, parts

LEMMA PutStep ==
  ASSUME NEW s \in Seq(Byte), NEW b \in Byte, NEW p, Sane(p), ~ IsDone(p), StandPut(s, p)
  PROVE  Sound(AdminPutFeed(p, b)) /\ StandPut(Append(s, b), AdminPutFeed(p, b))
<1> DEFINE parts == Layout("admin_put")  r == Append(s, b)  q == AdminPutFeed(p, b)
<1>0. IsLayout(parts) /\ Len(parts) = 4
      /\ parts[1] = One({1}) /\ parts[2] = One({0}) /\ parts[3] = Counted(1)
      /\ parts[4] = Counted(1)
  BY PutParts
<1> HIDE DEF parts
<1>1. CASE p.state = "action" /\ Begins(parts, s, 1, p)
  <2>1. q = Check(p, b, {1}, "field")
    BY <1>1 DEF AdminPutFeed
  <2>2. Checks(parts, r, 1, p, "field", Check(p, b, {1}, "field"))
    <3>1. IsLayout(parts) /\ 1 \in 1..Len(parts) /\ parts[1] = One({1}) /\ "field" \in States
      BY <1>0, StateNames
    <3>2. Begins(parts, s, 1, p)
      BY <1>1
    <3> QED BY <3>1, <3>2, CheckStep
  <2> QED BY <1>1, <2>1, <2>2, SaneIsSound DEF Checks, StandPut, parts
<1>2. CASE p.state = "field" /\ Begins(parts, s, 2, p)
  <2>1. q = Check(p, b, {0}, "namelen")
    BY <1>2 DEF AdminPutFeed
  <2>2. Checks(parts, r, 2, p, "namelen", Check(p, b, {0}, "namelen"))
    <3>1. IsLayout(parts) /\ 2 \in 1..Len(parts) /\ parts[2] = One({0}) /\ "namelen" \in States
      BY <1>0, StateNames
    <3>2. Begins(parts, s, 2, p)
      BY <1>2
    <3> QED BY <3>1, <3>2, CheckStep
  <2> QED BY <1>2, <2>1, <2>2, SaneIsSound DEF Checks, StandPut, parts
<1>3. CASE p.state = "namelen" /\ Begins(parts, s, 3, p)
  <2>1. q = Length(p, b, "name")
    BY <1>3 DEF AdminPutFeed
  <2>2. Opens(parts, r, 3, p, "name", Length(p, b, "name"))
    <3>1. IsLayout(parts) /\ 3 \in 1..Len(parts) /\ parts[3] = Counted(1) /\ "name" \in States
      BY <1>0, StateNames
    <3>2. Begins(parts, s, 3, p)
      BY <1>3
    <3> QED BY <3>1, <3>2, LengthFeed
  <2> QED BY <1>3, <2>1, <2>2, SaneIsSound DEF Opens, StandPut, parts
<1>4. CASE p.state = "name" /\ Within(parts, s, 3, p)
  <2>1. q = Store(p, b, "passlen")
    BY <1>4 DEF AdminPutFeed
  <2>2. Fills(parts, r, 3, p, "passlen", Store(p, b, "passlen"))
    BY <1>0, <1>4, StateNames, StoreFeed, PartsAreParts
  <2> QED BY <1>4, <2>1, <2>2, SaneIsSound DEF Fills, StandPut, parts
<1>5. CASE p.state = "passlen" /\ Begins(parts, s, 4, p)
  <2>1. q = Length(p, b, "pass")
    BY <1>5 DEF AdminPutFeed
  <2>2. Opens(parts, r, 4, p, "pass", Length(p, b, "pass"))
    <3>1. IsLayout(parts) /\ 4 \in 1..Len(parts) /\ parts[4] = Counted(1) /\ "pass" \in States
      BY <1>0, StateNames
    <3>2. Begins(parts, s, 4, p)
      BY <1>5
    <3> QED BY <3>1, <3>2, LengthFeed
  <2> QED BY <1>5, <2>1, <2>2, SaneIsSound DEF Opens, StandPut, parts
<1>6. CASE p.state = "pass" /\ Within(parts, s, 4, p)
  <2>1. q = StoreLast(p, b)
    BY <1>6 DEF AdminPutFeed
  <2>2. Completes(parts, r, 4, p, StoreLast(p, b))
    BY <1>0, <1>6, LastFeed, PartsAreParts
  <2> QED BY <1>6, <2>1, <2>2 DEF Completes, StandPut, parts
<1> QED BY <1>1, <1>2, <1>3, <1>4, <1>5, <1>6 DEF StandPut, IsDone, parts

StandEdit(s, p) ==
  LET parts == Layout("admin_edit")
  IN \/ p.state = "action" /\ Begins(parts, s, 1, p)
     \/ p.state = "field" /\ Begins(parts, s, 2, p)
     \/ p.state = "ulen" /\ Begins(parts, s, 3, p)
     \/ p.state = "username" /\ Within(parts, s, 3, p)
     \/ p.state = "attribute" /\ Begins(parts, s, 4, p)
     \/ p.state = "valuelen" /\ Begins(parts, s, 5, p)
     \/ p.state = "value" /\ Within(parts, s, 5, p)
     \/ p.state = "done" /\ Begins(parts, s, 6, p)
     \/ p.state = "error" /\ Verdict(parts, s) = "error"

LEMMA EditParts ==
  LET parts == Layout("admin_edit")
  IN IsLayout(parts) /\ Len(parts) = 5
     /\ parts[1] = One({2}) /\ parts[2] = One({0}) /\ parts[3] = Counted(1)
     /\ parts[4] = One({0, 1}) /\ parts[5] = Counted(1)
<1> DEFINE parts == Layout("admin_edit")
<1>1. parts = <<One({2}), One({0}), Counted(1), One({0, 1}), Counted(1)>>
  BY DEF Layout
<1> HIDE DEF parts
<1>2. Len(parts) = 5
      /\ parts[1] = One({2}) /\ parts[2] = One({0}) /\ parts[3] = Counted(1)
      /\ parts[4] = One({0, 1}) /\ parts[5] = Counted(1)
  BY <1>1
<1>3. 1..5 = {1, 2, 3, 4, 5}
  OBVIOUS
<1> QED BY <1>2, <1>3, PartsAreParts DEF IsLayout, parts

LEMMA EditStep ==
  ASSUME NEW s \in Seq(Byte), NEW b \in Byte, NEW p, Sane(p), ~ IsDone(p), StandEdit(s, p)
  PROVE  Sound(AdminEditFeed(p, b)) /\ StandEdit(Append(s, b), AdminEditFeed(p, b))
<1> DEFINE parts == Layout("admin_edit")  r == Append(s, b)  q == AdminEditFeed(p, b)
<1>0. IsLayout(parts) /\ Len(parts) = 5
      /\ parts[1] = One({2}) /\ parts[2] = One({0}) /\ parts[3] = Counted(1)
      /\ parts[4] = One({0, 1}) /\ parts[5] = Counted(1)
  BY EditParts
<1> HIDE DEF parts
<1>1. CASE p.state = "action" /\ Begins(parts, s, 1, p)
  <2>1. q = Check(p, b, {2}, "field")
    BY <1>1 DEF AdminEditFeed
  <2>2. Checks(parts, r, 1, p, "field", Check(p, b, {2}, "field"))
    <3>1. IsLayout(parts) /\ 1 \in 1..Len(parts) /\ parts[1] = One({2}) /\ "field" \in States
      BY <1>0, StateNames
    <3>2. Begins(parts, s, 1, p)
      BY <1>1
    <3> QED BY <3>1, <3>2, CheckStep
  <2> QED BY <1>1, <2>1, <2>2, SaneIsSound DEF Checks, StandEdit, parts
<1>2. CASE p.state = "field" /\ Begins(parts, s, 2, p)
  <2>1. q = Check(p, b, {0}, "ulen")
    BY <1>2 DEF AdminEditFeed
  <2>2. Checks(parts, r, 2, p, "ulen", Check(p, b, {0}, "ulen"))
    <3>1. IsLayout(parts) /\ 2 \in 1..Len(parts) /\ parts[2] = One({0}) /\ "ulen" \in States
      BY <1>0, StateNames
    <3>2. Begins(parts, s, 2, p)
      BY <1>2
    <3> QED BY <3>1, <3>2, CheckStep
  <2> QED BY <1>2, <2>1, <2>2, SaneIsSound DEF Checks, StandEdit, parts
<1>3. CASE p.state = "ulen" /\ Begins(parts, s, 3, p)
  <2>1. q = Length(p, b, "username")
    BY <1>3 DEF AdminEditFeed
  <2>2. Opens(parts, r, 3, p, "username", Length(p, b, "username"))
    <3>1. IsLayout(parts) /\ 3 \in 1..Len(parts) /\ parts[3] = Counted(1) /\ "username" \in States
      BY <1>0, StateNames
    <3>2. Begins(parts, s, 3, p)
      BY <1>3
    <3> QED BY <3>1, <3>2, LengthFeed
  <2> QED BY <1>3, <2>1, <2>2, SaneIsSound DEF Opens, StandEdit, parts
<1>4. CASE p.state = "username" /\ Within(parts, s, 3, p)
  <2>1. q = Store(p, b, "attribute")
    BY <1>4 DEF AdminEditFeed
  <2>2. Fills(parts, r, 3, p, "attribute", Store(p, b, "attribute"))
    BY <1>0, <1>4, StateNames, StoreFeed, PartsAreParts
  <2> QED BY <1>4, <2>1, <2>2, SaneIsSound DEF Fills, StandEdit, parts
<1>5. CASE p.state = "attribute" /\ Begins(parts, s, 4, p)
  <2>1. q = Check(p, b, {0, 1}, "valuelen")
    BY <1>5 DEF AdminEditFeed
  <2>2. Checks(parts, r, 4, p, "valuelen", Check(p, b, {0, 1}, "valuelen"))
    <3>1. IsLayout(parts) /\ 4 \in 1..Len(parts) /\ parts[4] = One({0, 1}) /\ "valuelen" \in States
      BY <1>0, StateNames
    <3>2. Begins(parts, s, 4, p)
      BY <1>5
    <3> QED BY <3>1, <3>2, CheckStep
  <2> QED BY <1>5, <2>1, <2>2, SaneIsSound DEF Checks, StandEdit, parts
<1>6. CASE p.state = "valuelen" /\ Begins(parts, s, 5, p)
  <2>1. q = Length(p, b, "value")
    BY <1>6 DEF AdminEditFeed
  <2>2. Opens(parts, r, 5, p, "value", Length(p, b, "value"))
    <3>1. IsLayout(parts) /\ 5 \in 1..Len(parts) /\ parts[5] = Counted(1) /\ "value" \in States
      BY <1>0, StateNames
    <3>2. Begins(parts, s, 5, p)
      BY <1>6
    <3> QED BY <3>1, <3>2, LengthFeed
  <2> QED BY <1>6, <2>1, <2>2, SaneIsSound DEF Opens, StandEdit, parts
<1>7. CASE p.state = "value" /\ Within(parts, s, 5, p)
  <2>1. q = StoreLast(p, b)
    BY <1>7 DEF AdminEditFeed
  <2>2. Completes(parts, r, 5, p, StoreLast(p, b))
    BY <1>0, <1>7, LastFeed, PartsAreParts
  <2> QED BY <1>7, <2>1, <2>2 DEF Completes, StandEdit, parts
<1> QED BY <1>1, <1>2, <1>3, <1>4, <1>5, <1>6, <1>7 DEF StandEdit, IsDone, parts

StandConfigstatus(s, p) ==
  LET parts == Layout("admin_configstatus")
  IN \/ p.state = "action" /\ Begins(parts, s, 1, p)
     \/ p.state = "field" /\ Begins(parts, s, 2, p)
     \/ p.state = "status" /\ Begins(parts, s, 3, p)
     \/ p.state = "done" /\ Begins(parts, s, 4, p)
     \/ p.state = "error" /\ Verdict(parts, s) = "error"

LEMMA ConfigstatusParts ==
  LET parts == Layout("admin_configstatus")
  IN IsLayout(parts) /\ Len(parts) = 3
     /\ parts[1] = One({4}) /\ parts[2] = One({3, 4}) /\ parts[3] = One({0, 1})
<1> DEFINE parts == Layout("admin_configstatus")
<1>1. parts = <<One({4}), One({3, 4}), One({0, 1})>>
  BY DEF Layout
<1> HIDE DEF parts
<1>2. Len(parts) = 3
      /\ parts[1] = One({4}) /\ parts[2] = One({3, 4}) /\ parts[3] = One({0, 1})
  BY <1>1
<1>3. 1..3 = {1, 2, 3}
  OBVIOUS
<1> QED BY <1>2, <1>3, PartsAreParts DEF IsLayout, parts

LEMMA ConfigstatusStep ==
  ASSUME NEW s \in Seq(Byte), NEW b \in Byte, NEW p, Sane(p), ~ IsDone(p), StandConfigstatus(s, p)
  PROVE  Sane(AdminConfigstatusFeed(p, b)) /\ StandConfigstatus(Append(s, b), AdminConfigstatusFeed(p, b))
<1> DEFINE parts == Layout("admin_configstatus")  r == Append(s, b)  q == AdminConfigstatusFeed(p, b)
<1>0. IsLayout(parts) /\ Len(parts) = 3
      /\ parts[1] = One({4}) /\ parts[2] = One({3, 4}) /\ parts[3] = One({0, 1})
  BY ConfigstatusParts
<1> HIDE DEF parts
<1>1. CASE p.state = "action" /\ Begins(parts, s, 1, p)
  <2>1. q = Check(p, b, {4}, "field")
    BY <1>1 DEF AdminConfigstatusFeed
  <2>2. Checks(parts, r, 1, p, "field", Check(p, b, {4}, "field"))
    <3>1. IsLayout(parts) /\ 1 \in 1..Len(parts) /\ parts[1] = One({4}) /\ "field" \in States
      BY <1>0, StateNames
    <3>2. Begins(parts, s, 1, p)
      BY <1>1
    <3> QED BY <3>1, <3>2, CheckStep
  <2> QED BY <1>1, <2>1, <2>2 DEF Checks, StandConfigstatus, parts
<1>2. CASE p.state = "field" /\ Begins(parts, s, 2, p)
  <2>1. q = Check(p, b, {3, 4}, "status")
    BY <1>2 DEF AdminConfigstatusFeed
  <2>2. Checks(parts, r, 2, p, "status", Check(p, b, {3, 4}, "status"))
    <3>1. IsLayout(parts) /\ 2 \in 1..Len(parts) /\ parts[2] = One({3, 4}) /\ "status" \in States
      BY <1>0, StateNames
    <3>2. Begins(parts, s, 2, p)
      BY <1>2
    <3> QED BY <3>1, <3>2, CheckStep
  <2> QED BY <1>2, <2>1, <2>2 DEF Checks, StandConfigstatus, parts
<1>3. CASE p.state = "status" /\ Begins(parts, s, 3, p)
  <2>1. q = Check(p, b, {0, 1}, "done")
    BY <1>3 DEF AdminConfigstatusFeed
  <2>2. Checks(parts, r, 3, p, "done", Check(p, b, {0, 1}, "done"))
    <3>1. IsLayout(parts) /\ 3 \in 1..Len(parts) /\ parts[3] = One({0, 1}) /\ "done" \in States
      BY <1>0, StateNames
    <3>2. Begins(parts, s, 3, p)
      BY <1>3
    <3> QED BY <3>1, <3>2, CheckStep
  <2> QED BY <1>3, <2>1, <2>2 DEF Checks, StandConfigstatus, parts
<1> QED BY <1>1, <1>2, <1>3 DEF StandConfigstatus, IsDone, parts

StandDelete(s, p) ==
  LET parts == Layout("admin_delete")
  IN \/ p.state = "action" /\ Begins(parts, s, 1, p)
     \/ p.state = "field" /\ Begins(parts, s, 2, p)
     \/ p.state = "ulen" /\ Begins(parts, s, 3, p)
     \/ p.state = "username" /\ Within(parts, s, 3, p)
     \/ p.state = "done" /\ Begins(parts, s, 4, p)
     \/ p.state = "error" /\ Verdict(parts, s) = "error"

LEMMA DeleteParts ==
  LET parts == Layout("admin_delete")
  IN IsLayout(parts) /\ Len(parts) = 3
     /\ parts[1] = One({5}) /\ parts[2] = One({0}) /\ parts[3] = Counted(1)
<1> DEFINE parts == Layout("admin_delete")
<1>1. parts = <<One({5}), One({0}), Counted(1)>>
  BY DEF Layout
<1> HIDE DEF parts
<1>2. Len(parts) = 3
      /\ parts[1] = One({5}) /\ parts[2] = One({0}) /\ parts[3] = Counted(1)
  BY <1>1
<1>3. 1..3 = {1, 2, 3}
  OBVIOUS
<1> QED BY <1>2, <1>3, PartsAreParts DEF IsLayout, parts

LEMMA DeleteStep ==
  ASSUME NEW s \in Seq(Byte), NEW b \in Byte, NEW p, Sane(p), ~ IsDone(p), StandDelete(s, p)
  PROVE  Sane(AdminDeleteFeed(p, b)) /\ StandDelete(Append(s, b), AdminDeleteFeed(p, b))
<1> DEFINE parts == Layout("admin_delete")  r == Append(s, b)  q == AdminDeleteFeed(p, b)
<1>0. IsLayout(parts) /\ Len(parts) = 3
      /\ parts[1] = One({5}) /\ parts[2] = One({0}) /\ parts[3] = Counted(1)
  BY DeleteParts
<1> HIDE DEF parts
<1>1. CASE p.state = "action" /\ Begins(parts, s, 1, p)
  <2>1. q = Check(p, b, {5}, "field")
    BY <1>1 DEF AdminDeleteFeed
  <2>2. Checks(parts, r, 1, p, "field", Check(p, b, {5}, "field"))
    <3>1. IsLayout(parts) /\ 1 \in 1..Len(parts) /\ parts[1] = One({5}) /\ "field" \in States
      BY <1>0, StateNames
    <3>2. Begins(parts, s, 1, p)
      BY <1>1
    <3> QED BY <3>1, <3>2, CheckStep
  <2> QED BY <1>1, <2>1, <2>2 DEF Checks, StandDelete, parts
<1>2. CASE p.state = "field" /\ Begins(parts, s, 2, p)
  <2>1. q = Check(p, b, {0}, "ulen")
    BY <1>2 DEF AdminDeleteFeed
  <2>2. Checks(parts, r, 2, p, "ulen", Check(p, b, {0}, "ulen"))
    <3>1. IsLayout(parts) /\ 2 \in 1..Len(parts) /\ parts[2] = One({0}) /\ "ulen" \in States
      BY <1>0, StateNames
    <3>2. Begins(parts, s, 2, p)
      BY <1>2
    <3> QED BY <3>1, <3>2, CheckStep
  <2> QED BY <1>2, <2>1, <2>2 DEF Checks, StandDelete, parts
<1>3. CASE p.state = "ulen" /\ Begins(parts, s, 3, p)
  <2>1. q = Length(p, b, "username")
    BY <1>3 DEF AdminDeleteFeed
  <2>2. Opens(parts, r, 3, p, "username", Length(p, b, "username"))
    <3>1. IsLayout(parts) /\ 3 \in 1..Len(parts) /\ parts[3] = Counted(1) /\ "username" \in States
      BY <1>0, StateNames
    <3>2. Begins(parts, s, 3, p)
      BY <1>3
    <3> QED BY <3>1, <3>2, LengthFeed
  <2> QED BY <1>3, <2>1, <2>2 DEF Opens, StandDelete, parts
<1>4. CASE p.state = "username" /\ Within(parts, s, 3, p)
  <2>1. q = Store(p, b, "done")
    BY <1>4 DEF AdminDeleteFeed
  <2>2. Fills(parts, r, 3, p, "done", Store(p, b, "done"))
    BY <1>0, <1>4, StateNames, StoreFeed, PartsAreParts
  <2> QED BY <1>4, <2>1, <2>2 DEF Fills, StandDelete, parts
<1> QED BY <1>1, <1>2, <1>3, <1>4 DEF StandDelete, IsDone, parts

StandAuth(s, p) ==
  LET parts == Layout("auth")
  IN \/ p.state = "version" /\ Begins(parts, s, 1, p)
     \/ p.state = "userlen" /\ Begins(parts, s, 2, p)
     \/ p.state = "username" /\ Within(parts, s, 2, p)
     \/ p.state = "passlen" /\ Begins(parts, s, 3, p)
     \/ p.state = "pass" /\ Within(parts, s, 3, p)
     \/ p.state = "done" /\ Begins(parts, s, 4, p)
     \/ p.state = "error" /\ Verdict(parts, s) = "error"

LEMMA AuthParts ==
  LET parts == Layout("auth")
  IN IsLayout(parts) /\ Len(parts) = 3
     /\ parts[1] = One({1}) /\ parts[2] = Counted(1) /\ parts[3] = Counted(1)
<1> DEFINE parts == Layout("auth")
<1>1. parts = <<One({1}), Counted(1), Counted(1)>>
  BY DEF Layout
<1> HIDE DEF parts
<1>2. Len(parts) = 3
      /\ parts[1] = One({1}) /\ parts[2] = Counted(1) /\ parts[3] = Counted(1)
  BY <1>1
<1>3. 1..3 = {1, 2, 3}
  OBVIOUS
<1> QED BY <1>2, <1>3, PartsAreParts DEF IsLayout, parts

LEMMA AuthStep ==
  ASSUME NEW s \in Seq(Byte), NEW b \in Byte, NEW p, Sane(p), ~ IsDone(p), StandAuth(s, p)
  PROVE  Sound(AuthFeed(p, b)) /\ StandAuth(Append(s, b), AuthFeed(p, b))
<1> DEFINE parts == Layout("auth")  r == Append(s, b)  q == AuthFeed(p, b)
<1>0. IsLayout(parts) /\ Len(parts) = 3
      /\ parts[1] = One({1}) /\ parts[2] = Counted(1) /\ parts[3] = Counted(1)
  BY AuthParts
<1> HIDE DEF parts
<1>1. CASE p.state = "version" /\ Begins(parts, s, 1, p)
  <2>1. q = Check(p, b, {1}, "userlen")
    BY <1>1 DEF AuthFeed
  <2>2. Checks(parts, r, 1, p, "userlen", Check(p, b, {1}, "userlen"))
    <3>1. IsLayout(parts) /\ 1 \in 1..Len(parts) /\ parts[1] = One({1}) /\ "userlen" \in States
      BY <1>0, StateNames
    <3>2. Begins(parts, s, 1, p)
      BY <1>1
    <3> QED BY <3>1, <3>2, CheckStep
  <2> QED BY <1>1, <2>1, <2>2, SaneIsSound DEF Checks, StandAuth, parts
<1>2. CASE p.state = "userlen" /\ Begins(parts, s, 2, p)
  <2>1. q = Length(p, b, "username")
    BY <1>2 DEF AuthFeed
  <2>2. Opens(parts, r, 2, p, "username", Length(p, b, "username"))
    <3>1. IsLayout(parts) /\ 2 \in 1..Len(parts) /\ parts[2] = Counted(1) /\ "username" \in States
      BY <1>0, StateNames
    <3>2. Begins(parts, s, 2, p)
      BY <1>2
    <3> QED BY <3>1, <3>2, LengthFeed
  <2> QED BY <1>2, <2>1, <2>2, SaneIsSound DEF Opens, StandAuth, parts
<1>3. CASE p.state = "username" /\ Within(parts, s, 2, p)
  <2>1. q = Store(p, b, "passlen")
    BY <1>3 DEF AuthFeed
  <2>2. Fills(parts, r, 2, p, "passlen", Store(p, b, "passlen"))
    BY <1>0, <1>3, StateNames, StoreFeed, PartsAreParts
  <2> QED BY <1>3, <2>1, <2>2, SaneIsSound DEF Fills, StandAuth, parts
<1>4. CASE p.state = "passlen" /\ Begins(parts, s, 3, p)
  <2>1. q = Length(p, b, "pass")
    BY <1>4 DEF AuthFeed
  <2>2. Opens(parts, r, 3, p, "pass", Length(p, b, "pass"))
    <3>1. IsLayout(parts) /\ 3 \in 1..Len(parts) /\ parts[3] = Counted(1) /\ "pass" \in States
      BY <1>0, StateNames
    <3>2. Begins(parts, s, 3, p)
      BY <1>4
    <3> QED BY <3>1, <3>2, LengthFeed
  <2> QED BY <1>4, <2>1, <2>2, SaneIsSound DEF Opens, StandAuth, parts
<1>5. CASE p.state = "pass" /\ Within(parts, s, 3, p)
  <2>1. q = StoreLast(p, b)
    BY <1>5 DEF AuthFeed
  <2>2. Completes(parts, r, 3, p, StoreLast(p, b))
    BY <1>0, <1>5, LastFeed, PartsAreParts
  <2> QED BY <1>5, <2>1, <2>2 DEF Completes, StandAuth, parts
<1> QED BY <1>1, <1>2, <1>3, <1>4, <1>5 DEF StandAuth, IsDone, parts

-----------------------------------------------------------------------------
(* Those that read what they have no use for as it comes. *)
LEMMA FirstIsNoPayload ==
  ASSUME NEW parts, IsLayout(parts), NEW s \in Seq(Byte), Len(parts) >= 1, parts[1].t = "one"
  PROVE  Ends(parts, s)[1] = 1 /\ PayloadsTo(parts, s)[1] = <<>>
<1>1. 1 \in 1..Len(parts) /\ 1 - 1 = 0
  BY DEF IsLayout
<1>2. Size(parts[1], From(s, Ends(parts, s)[0])) = 1
  BY DEF Size
<1>3. Ends(parts, s)[0] = 0 /\ Ends(parts, s)[1] = Ends(parts, s)[1 - 1] + Size(parts[1], From(s, Ends(parts, s)[1 - 1]))
  BY <1>1, EndOfPart
<1>4. PayloadsTo(parts, s)[0] = <<>> /\ PayloadsTo(parts, s)[1] = PayloadsTo(parts, s)[1 - 1]
  BY <1>1, ToldOfPart
<1> QED BY <1>1, <1>2, <1>3, <1>4

StandConfigbuff(s, p) ==
  LET parts == Layout("admin_configbuff")
  IN \/ p.state = "size_action" /\ Begins(parts, s, 1, p)
     \/ p.state = "size" /\ Within(parts, s, 2, p)
     \/ p.state = "done" /\ Begins(parts, s, 3, p)
     \/ p.state = "error" /\ Verdict(parts, s) = "error"

LEMMA ConfigbuffParts ==
  LET parts == Layout("admin_configbuff")
  IN IsLayout(parts) /\ Len(parts) = 2 /\ parts[1] = One({3}) /\ parts[2] = Number
<1> DEFINE parts == Layout("admin_configbuff")
<1>1. parts = <<One({3}), Number>>
  BY DEF Layout
<1> HIDE DEF parts
<1>2. Len(parts) = 2 /\ parts[1] = One({3}) /\ parts[2] = Number
  BY <1>1
<1>3. 1..2 = {1, 2}
  OBVIOUS
<1> QED BY <1>2, <1>3, PartsAreParts DEF IsLayout, parts

LEMMA ConfigbuffStep ==
  ASSUME NEW s \in Seq(Byte), NEW b \in Byte, NEW p, Sane(p), ~ IsDone(p), StandConfigbuff(s, p)
  PROVE  Sane(AdminConfigbuffFeed(p, b)) /\ StandConfigbuff(Append(s, b), AdminConfigbuffFeed(p, b))
<1> DEFINE parts == Layout("admin_configbuff")  r == Append(s, b)  q == AdminConfigbuffFeed(p, b)
<1>0. IsLayout(parts) /\ Len(parts) = 2 /\ parts[1] = One({3}) /\ parts[2] = Number
      /\ 1 \in 1..Len(parts) /\ 2 \in 1..Len(parts) /\ parts[1].t = "one" /\ parts[1].in = {3}
      /\ parts[2].t = "number"
  BY ConfigbuffParts DEF One, Number
<1> HIDE DEF parts
<1>1. p \in Parser /\ r \in Seq(Byte) /\ 4 \in Byte
  BY BytesAreNumbers DEF Sane
<1>2. CASE p.state = "size_action" /\ Begins(parts, s, 1, p)
  <2> DEFINE z == RemainingSet(p, 4)
  <2>1. q = Goto(z, IF b \in {3} THEN "size" ELSE "error")
    BY <1>2 DEF AdminConfigbuffFeed, Check
  <2>2. z.remaining = 4 /\ z.read = 0 /\ z.texts = Append(p.texts, <<>>) /\ z \in Parser
    BY <1>1, RemainingFields
  <2> HIDE DEF z, q
  <2>3. q.remaining = 4 /\ q.read = 0 /\ q.texts = Append(p.texts, <<>>) /\ q \in Parser
        /\ q.state = IF b = 3 THEN "size" ELSE "error"
    <3>1. "size" \in States /\ "error" \in States
      BY StateNames
    <3>2. CASE b = 3
      <4>1. q = Goto(z, "size")
        BY <2>1, <3>2
      <4> QED BY <2>2, <3>1, <3>2, <4>1, GotoFields
    <3>3. CASE b # 3
      <4>1. q = Goto(z, "error")
        BY <2>1, <3>3
      <4> QED BY <2>2, <3>1, <3>3, <4>1, GotoFields
    <3> QED BY <3>2, <3>3
  <2>4. Sane(q)
    BY <2>3 DEF Sane, Larger
  <2>5. IF b \in {3} THEN Begins(parts, r, 1 + 1, p) ELSE Verdict(parts, r) = "error"
    BY <1>0, <1>1, <1>2, OneStep
  <2>6. CASE b = 3
    <3>1. Begins(parts, r, 2, p)
      BY <2>5, <2>6
    <3>2. Within(parts, r, 2, q)
      <4>1. /\ 4 \in Byte \ {0} /\ q.read = 0 /\ q.remaining = 4 /\ q.texts = Append(p.texts, <<>>)
            /\ parts[2].t = "number" /\ IsLayout(parts) /\ 2 \in 1..Len(parts) /\ r \in Seq(Byte)
        BY <1>0, <1>1, <2>3
      <4> QED BY <3>1, <4>1, FixedStep
    <3> QED BY <2>3, <2>4, <2>6, <3>2 DEF StandConfigbuff, parts, q
  <2>7. CASE b # 3
    BY <2>3, <2>4, <2>5, <2>7 DEF StandConfigbuff, parts, q
  <2> QED BY <2>6, <2>7
<1>3. CASE p.state = "size" /\ Within(parts, s, 2, p)
  <2> DEFINE z == Store(p, b, "done")  g == Begun(parts, r, 2)
  <2>1. q = IF z.state = "done" /\ z.texts[1] = <<0, 0, 0, 0>> THEN Goto(z, "error") ELSE z
    BY <1>3 DEF AdminConfigbuffFeed
  <2>2. Stores(parts, r, 2, p, "done", z)
    BY <1>0, <1>1, <1>3, StateNames, StoreStep
  <2> HIDE DEF z
  <2>3. /\ Sane(z) /\ z \in Parser
        /\ z.texts = Append(PayloadsTo(parts, r)[1], From(g, HeadSize(parts[2], g)))
        /\ \/ z.state = p.state /\ Within(parts, r, 2, z)
           \/ z.state = "done" /\ ~ Wrong(parts[2], g) /\ Begins(parts, r, 3, z)
           \/ z.state = "done" /\ Wrong(parts[2], g) /\ Size(parts[2], g) = Len(g) /\ Verdict(parts, r) = "error"
    BY <2>2 DEF Stores, Sane
  <2>4. Goto(z, "error").state = "error" /\ Sane(Goto(z, "error"))
    <3>1. "error" \in States
      BY StateNames
    <3>2. /\ Goto(z, "error").read = z.read /\ Goto(z, "error").remaining = z.remaining
          /\ Goto(z, "error").state = "error" /\ Goto(z, "error") \in Parser
      BY <2>3, <3>1, GotoFields
    <3> QED BY <2>3, <3>2 DEF Sane
  <2> HIDE DEF q
  <2>5. CASE z.state = p.state /\ Within(parts, r, 2, z)
    BY <1>3, <2>1, <2>3, <2>5 DEF StandConfigbuff, parts, q
  <2>6. ASSUME g \in Seq(Byte), Len(g) = 4
        PROVE  z.texts[1] = g /\ (Wrong(parts[2], g) <=> g = <<0, 0, 0, 0>>)
    <3>1. From(g, HeadSize(parts[2], g)) = g
      BY <1>0, <2>6 DEF From, HeadSize
    <3>2. PayloadsTo(parts, r)[1] = <<>>
      <4>1. IsLayout(parts) /\ r \in Seq(Byte) /\ Len(parts) >= 1 /\ parts[1].t = "one"
        BY <1>0, <1>1
      <4> QED BY <4>1, FirstIsNoPayload
    <3> HIDE DEF g
    <3>3. z.texts = Append(<<>>, g)
      BY <2>3, <3>1, <3>2
    <3>4. z.texts[1] = g
      BY <3>3
    <3>5. Wrong(parts[2], g) <=> \A i \in 1..4 : g[i] = 0
      BY <1>0, <2>6 DEF Wrong
    <3>6. (\A i \in 1..4 : g[i] = 0) <=> g = <<0, 0, 0, 0>>
      <4>1. ASSUME \A i \in 1..4 : g[i] = 0 PROVE g = <<0, 0, 0, 0>>
        <5>1. <<0, 0, 0, 0>> \in Seq(Nat) /\ Len(<<0, 0, 0, 0>>) = 4
              /\ \A i \in 1..4 : <<0, 0, 0, 0>>[i] = 0
          OBVIOUS
        <5>2. g \in Seq(Nat)
          BY <2>6, BytesAreNumbers, SeqMonotonic
        <5> QED BY <2>6, <4>1, <5>1, <5>2, SeqEqual
      <4>2. ASSUME g = <<0, 0, 0, 0>> PROVE \A i \in 1..4 : g[i] = 0
        BY <4>2
      <4> QED BY <4>1, <4>2
    <3> QED BY <3>4, <3>5, <3>6
  <2>7. CASE z.state = "done" /\ ~ Wrong(parts[2], g) /\ Begins(parts, r, 3, z)
    <3>1. Fine(parts, r, 2) /\ Ends(parts, r)[2] = Len(r)
      BY <2>7 DEF Begins
    <3>2. Fine(parts, r, 1)
      <4>1. Ends(parts, r)[1] = 1 /\ Ends(parts, r)[1] <= Ends(parts, r)[2]
        <5>1. /\ IsLayout(parts) /\ r \in Seq(Byte) /\ Len(parts) >= 1 /\ parts[1].t = "one"
              /\ 2 \in 1..Len(parts)
          BY <1>0, <1>1
        <5>2. Ends(parts, r)[1] = 1
          BY <5>1, FirstIsNoPayload
        <5>3. Ends(parts, r)[2 - 1] < Ends(parts, r)[2] /\ Ends(parts, r)[2] \in Nat
          <6>1. 2 \in 0..Len(parts)
            BY <1>0
          <6> QED BY <5>1, <6>1, EndOfPart
        <5>4. 2 - 1 = 1
          OBVIOUS
        <5> QED BY <5>2, <5>3, <5>4
      <4>2. Len(r) \in Nat
        BY <1>1
      <4>3. \A j \in 1..1 : j \in 1..2
        OBVIOUS
      <4> QED BY <1>0, <3>1, <4>1, <4>2, <4>3 DEF Fine
    <3>3. g \in Seq(Byte) /\ Len(g) = 4
      <4>1. /\ Begun(parts, r, 2) \in Seq(Byte) /\ 2 - 1 = 1
            /\ Len(Begun(parts, r, 2)) = Len(r) - Ends(parts, r)[2 - 1]
            /\ Ends(parts, r)[2] = Ends(parts, r)[2 - 1] + Size(parts[2], Begun(parts, r, 2))
            /\ Ends(parts, r)[2 - 1] \in Nat
        <5>1. 2 - 1 = 1
          OBVIOUS
        <5>2. IsLayout(parts) /\ r \in Seq(Byte) /\ 2 \in 1..Len(parts) /\ Fine(parts, r, 2 - 1)
          BY <1>0, <1>1, <3>2, <5>1
        <5>3. ASSUME NEW i \in 1..Len(parts), i = 2
              PROVE  /\ Begun(parts, r, i) \in Seq(Byte)
                     /\ Len(Begun(parts, r, i)) = Len(r) - Ends(parts, r)[i - 1]
                     /\ Ends(parts, r)[i] = Ends(parts, r)[i - 1] + Size(parts[i], Begun(parts, r, i))
                     /\ Ends(parts, r)[i - 1] \in Nat
          <6>1. Fine(parts, r, i - 1)
            BY <5>2, <5>3
          <6> QED BY <5>2, <6>1, BegunFacts
        <5> QED BY <5>1, <5>2, <5>3
      <4>2. Size(parts[2], Begun(parts, r, 2)) = 4
        BY <1>0 DEF Size
      <4>3. Ends(parts, r)[1] \in Nat /\ Len(Begun(parts, r, 2)) = Len(r) - Ends(parts, r)[1]
            /\ Len(r) = Ends(parts, r)[1] + 4
        BY <3>1, <4>1, <4>2
      <4>4. Len(Begun(parts, r, 2)) = 4
        <5> DEFINE x == Ends(parts, r)[1]  y == Len(Begun(parts, r, 2))  z_ == Len(r)
        <5>1. x \in Nat /\ y = z_ - x /\ z_ = x + 4
          BY <4>3
        <5> HIDE DEF x, y, z_
        <5>2. y = 4
          BY <5>1
        <5> QED BY <5>2 DEF y
      <4> QED BY <4>1, <4>4
    <3>4. z.texts[1] # <<0, 0, 0, 0>>
      BY <2>6, <2>7, <3>3
    <3> QED BY <2>1, <2>3, <2>7, <3>4 DEF StandConfigbuff, parts, q
  <2>8. CASE z.state = "done" /\ Wrong(parts[2], g) /\ Size(parts[2], g) = Len(g) /\ Verdict(parts, r) = "error"
    <3>1. Len(g) = 4
      BY <1>0, <2>8 DEF Size
    <3>2. g \in Seq(Byte)
      <4>1. Fine(parts, s, 1)
        BY <1>3 DEF Within
      <4>2. Fine(parts, r, 1)
        BY <1>0, <4>1, WholeKept
      <4>3. 2 - 1 = 1
        OBVIOUS
      <4> QED BY <1>0, <1>1, <4>2, <4>3, BegunFacts
    <3>3. z.texts[1] = <<0, 0, 0, 0>>
      BY <2>6, <2>8, <3>1, <3>2
    <3>4. q = Goto(z, "error")
      BY <2>1, <2>8, <3>3
    <3> QED BY <2>4, <2>8, <3>4 DEF StandConfigbuff, parts, q
  <2> QED BY <2>3, <2>5, <2>7, <2>8
<1> QED BY <1>2, <1>3 DEF StandConfigbuff, IsDone, parts


(* The greeting: its list is kept as it comes. *)
Listed(p, n, y) == [p EXCEPT !.remaining = n, !.texts = y]

LEMMA ListedFields ==
  ASSUME NEW p \in Parser, NEW n \in Byte, NEW y \in Seq(Seq(Byte))
  PROVE  /\ Listed(p, n, y).texts = y /\ Listed(p, n, y).remaining = n
         /\ Listed(p, n, y).read = p.read /\ Listed(p, n, y).atyp = p.atyp
         /\ Listed(p, n, y).state = p.state /\ Listed(p, n, y) \in Parser
BY DEF Parser, Listed

LEMMA ListedHolds ==
  \A p \in Parser : \A n \in Byte : \A y \in Seq(Seq(Byte)) :
    Holds(Listed(p, n, y), p, n, p.read, y)
BY ListedFields DEF Holds

StandHello(s, p) ==
  LET parts == Layout("hello")
  IN \/ p.state = "version" /\ Begins(parts, s, 1, p) /\ p.read = 0
     \/ p.state = "nmethods" /\ Begins(parts, s, 2, p) /\ p.read = 0
     \/ p.state = "methods" /\ Lists(parts, s, 2, p)
     \/ p.state = "done" /\ Begins(parts, s, 3, p)
     \/ p.state = "error" /\ Verdict(parts, s) = "error"

LEMMA HelloParts ==
  LET parts == Layout("hello")
  IN IsLayout(parts) /\ Len(parts) = 2 /\ parts[1] = One({5}) /\ parts[2] = Counted(0)
<1> DEFINE parts == Layout("hello")
<1>1. parts = <<One({5}), Counted(0)>>
  BY DEF Layout
<1> HIDE DEF parts
<1>2. Len(parts) = 2 /\ parts[1] = One({5}) /\ parts[2] = Counted(0)
  BY <1>1
<1>3. 1..2 = {1, 2}
  OBVIOUS
<1> QED BY <1>2, <1>3, PartsAreParts DEF IsLayout, parts

LEMMA HelloStep ==
  ASSUME NEW s \in Seq(Byte), NEW b \in Byte, NEW p, Sane(p), ~ IsDone(p), StandHello(s, p)
  PROVE  Sane(HelloFeed(p, b)) /\ StandHello(Append(s, b), HelloFeed(p, b))
<1> DEFINE parts == Layout("hello")  r == Append(s, b)  q == HelloFeed(p, b)
<1>0. IsLayout(parts) /\ Len(parts) = 2 /\ parts[1] = One({5}) /\ parts[2] = Counted(0)
      /\ 1 \in 1..Len(parts) /\ 2 \in 1..Len(parts) /\ parts[1].t = "one" /\ Len(parts) >= 1
      /\ parts[2].t = "counted" /\ parts[2].least = 0
  BY HelloParts DEF One, Counted
<1> HIDE DEF parts
<1>a. p \in Parser /\ r \in Seq(Byte) /\ b \in Nat
  BY BytesAreNumbers DEF Sane
<1>b. PayloadsTo(parts, s)[1] = <<>>
  BY <1>0, FirstIsNoPayload
<1>c. ASSUME NEW i \in 1..Len(parts), i = 2 PROVE PayloadsTo(parts, s)[i - 1] = <<>>
  BY <1>b, <1>c
<1>n. "nmethods" \in States /\ "methods" \in States /\ "done" \in States
  BY StateNames
<1>1. CASE p.state = "version" /\ Begins(parts, s, 1, p) /\ p.read = 0
  <2>1. q = Check(p, b, {5}, "nmethods")
    BY <1>1 DEF HelloFeed
  <2>2. Checks(parts, r, 1, p, "nmethods", Check(p, b, {5}, "nmethods"))
    <3>1. IsLayout(parts) /\ 1 \in 1..Len(parts) /\ parts[1] = One({5}) /\ "nmethods" \in States
      BY <1>0, <1>n
    <3>2. Begins(parts, s, 1, p)
      BY <1>1
    <3> QED BY <3>1, <3>2, CheckStep
  <2> QED BY <1>1, <2>1, <2>2 DEF Checks, StandHello, parts
<1>2. CASE p.state = "nmethods" /\ Begins(parts, s, 2, p) /\ p.read = 0
  <2> DEFINE y == <<<<>>>>  z == Listed(p, b, y)
  <2>1. q = Goto(z, IF b = 0 THEN "done" ELSE "methods")
    BY <1>2 DEF HelloFeed, Listed
  <2>2. y \in Seq(Seq(Byte)) /\ y = Append(<<>>, <<>>)
    <3>1. <<>> \in Seq(Byte)
      BY EmptySeq
    <3> QED BY <3>1
  <2> HIDE DEF y
  <2>3. z.texts = y /\ z.remaining = b /\ z.read = 0 /\ z \in Parser
    <3>1. Holds(z, p, b, p.read, y)
      BY <1>a, <2>2, ListedHolds, Zenon
    <3> HIDE DEF z
    <3> QED BY <1>2, <3>1 DEF Holds
  <2> HIDE DEF z, q
  <2>4. q.texts = y /\ q.remaining = b /\ q.read = 0 /\ q \in Parser
        /\ q.state = IF b = 0 THEN "done" ELSE "methods"
    <3>1. CASE b = 0
      <4>1. q = Goto(z, "done")
        BY <2>1, <3>1
      <4> QED BY <1>n, <2>3, <3>1, <4>1, GotoFields
    <3>2. CASE b # 0
      <4>1. q = Goto(z, "methods")
        BY <2>1, <3>2
      <4> QED BY <1>n, <2>3, <3>2, <4>1, GotoFields
    <3> QED BY <3>1, <3>2
  <2>5. p.texts = <<>>
    <3>1. ASSUME NEW i \in 1..Len(parts), i = 2 PROVE p.texts = PayloadsTo(parts, s)[i - 1]
      BY <1>2, <3>1 DEF Begins
    <3> QED BY <1>0, <1>c, <3>1
  <2>6. IF b = 0 THEN Begins(parts, r, 2 + 1, q) ELSE Lists(parts, r, 2, q)
    <3>1. /\ q.read = 0 /\ q.remaining = b /\ q.texts = Append(p.texts, <<>>)
          /\ Begins(parts, s, 2, p) /\ 2 \in 1..Len(parts) /\ IsLayout(parts)
          /\ parts[2].t = "counted" /\ parts[2].least = 0
      BY <1>0, <1>2, <2>2, <2>4, <2>5
    <3> QED BY <3>1, ListOpens
  <2>7. Sane(q)
    BY <1>a, <2>4 DEF Sane, Larger
  <2> QED BY <2>4, <2>6, <2>7 DEF StandHello, parts, q
<1>3. CASE p.state = "methods" /\ Lists(parts, s, 2, p)
  <2> DEFINE f == Begun(parts, s, 2)  y == <<Append(p.texts[1], b)>>
             z == Listed(p, p.remaining - 1, y)
  <2>1. q = IF z.remaining = 0 THEN Goto(z, "done") ELSE z
    BY <1>3 DEF HelloFeed, Listed
  <2>2. p.remaining > 0 /\ p.read = 0 /\ p.texts = Append(<<>>, From(f, 1)) /\ f \in Seq(Byte)
    <3>1. ASSUME NEW i \in 1..Len(parts), i = 2
          PROVE  /\ p.remaining > 0 /\ p.read = 0 /\ Begun(parts, s, i) \in Seq(Byte)
                 /\ p.texts = Append(<<>>, From(Begun(parts, s, i), 1))
      <4>1. Lists(parts, s, i, p)
        BY <1>3, <3>1
      <4>2. Fine(parts, s, i - 1) /\ PayloadsTo(parts, s)[i - 1] = <<>>
        BY <1>c, <3>1, <4>1 DEF Lists
      <4>3. Begun(parts, s, i) \in Seq(Byte)
        BY <1>0, <4>2, BegunFacts
      <4> QED BY <4>1, <4>2, <4>3 DEF Lists
    <3> QED BY <1>0, <3>1
  <2> HIDE DEF f
  <2>3. From(f, 1) \in Seq(Byte)
    BY <2>2, FromIsSeq
  <2>4. p.texts[1] = From(f, 1)
    BY <2>2, <2>3
  <2>5. y = Append(<<>>, Append(From(f, 1), b)) /\ y \in Seq(Seq(Byte))
    <3>1. Append(From(f, 1), b) \in Seq(Byte)
      BY <2>3, AppendProperties
    <3> QED BY <2>4, <3>1
  <2>6. p.remaining - 1 \in Byte /\ p.remaining - 1 \in Nat
    <3>1. p.remaining \in Byte
      BY <1>a DEF Parser
    <3> QED BY <2>2, <3>1, WireAssumption DEF Byte
  <2> HIDE DEF y
  <2>7. z.texts = y /\ z.remaining = p.remaining - 1 /\ z.read = 0 /\ z \in Parser /\ z.state = "methods"
    <3>1. ASSUME NEW n \in Byte, n = p.remaining - 1
          PROVE  /\ Listed(p, n, y).texts = y /\ Listed(p, n, y).remaining = n
                 /\ Listed(p, n, y).read = p.read /\ Listed(p, n, y).state = p.state
                 /\ Listed(p, n, y) \in Parser
      <4>1. Holds(Listed(p, n, y), p, n, p.read, y)
        BY <1>a, <2>5, ListedHolds, Zenon
      <4> QED BY <4>1 DEF Holds
    <3> QED BY <1>3, <2>2, <2>6, <3>1
  <2> HIDE DEF z, q
  <2>8. q.texts = y /\ q.remaining = p.remaining - 1 /\ q.read = 0 /\ q \in Parser
        /\ q.state = IF q.remaining = 0 THEN "done" ELSE "methods"
    <3>1. CASE z.remaining = 0
      <4>1. q = Goto(z, "done")
        BY <2>1, <3>1
      <4> QED BY <1>n, <2>7, <3>1, <4>1, GotoFields
    <3>2. CASE z.remaining # 0
      <4>1. q = z
        BY <2>1, <3>2
      <4> QED BY <2>7, <3>2, <4>1
    <3> QED BY <3>1, <3>2
  <2>9. IF q.remaining = 0 THEN Begins(parts, r, 2 + 1, q) ELSE Lists(parts, r, 2, q)
    <3>1. ASSUME NEW i \in 1..Len(parts), i = 2
          PROVE  IF q.remaining = 0 THEN Begins(parts, r, i + 1, q) ELSE Lists(parts, r, i, q)
      <4>1. q.texts = Append(PayloadsTo(parts, s)[i - 1], Append(From(Begun(parts, s, i), 1), b))
        BY <1>c, <2>5, <2>8, <3>1 DEF f
      <4>2. /\ q.read = 0 /\ q.remaining = p.remaining - 1 /\ Lists(parts, s, i, p)
            /\ IsLayout(parts) /\ parts[i].t = "counted" /\ parts[i].least = 0
        BY <1>0, <1>3, <2>8, <3>1
      <4> QED BY <1>a, <4>1, <4>2, ListStep
    <3> QED BY <1>0, <3>1
  <2>10. Sane(q)
    <3>1. q.remaining \in Nat
      BY <2>6, <2>8
    <3> QED BY <2>8, <3>1 DEF Sane, Larger
  <2> QED BY <2>8, <2>9, <2>10 DEF StandHello, parts, q
<1> QED BY <1>1, <1>2, <1>3 DEF StandHello, IsDone, parts


(* The request, whose address says by itself how long it is. *)
Asked(s, p) == Len(s) >= 4 /\ p.atyp = s[4]

StandRequest(s, p) ==
  LET parts == Parsed("request")
  IN \/ p.state = "version" /\ Begins(parts, s, 1, p)
     \/ p.state = "cmd" /\ Begins(parts, s, 2, p)
     \/ p.state = "rsv" /\ Begins(parts, s, 3, p)
     \/ p.state = "atyp" /\ Begins(parts, s, 4, p)
     \/ p.state = "dstaddr_fqdn" /\ Names(parts, s, 4, p) /\ Asked(s, p)
     \/ p.state = "dstaddr" /\ Within(parts, s, 4, p) /\ Asked(s, p)
     \/ p.state = "dstport" /\ Within(parts, s, 5, p) /\ Asked(s, p)
     \/ p.state = "done" /\ Begins(parts, s, 6, p) /\ Asked(s, p)
     \/ p.state = "error" /\ Verdict(parts, s) = "error"

LEMMA RequestParts ==
  LET parts == Parsed("request")
  IN IsLayout(parts) /\ Len(parts) = 5
     /\ parts[1] = One({5}) /\ parts[2] = One({1, 3, 4}) /\ parts[3] = One(Byte)
     /\ parts[4] = Address(1) /\ parts[5] = Fixed(2)
<1> DEFINE parts == Parsed("request")
<1>1. parts = <<One({5}), One({1, 3, 4}), One(Byte), Address(1), Fixed(2)>>
  BY DEF Parsed
<1> HIDE DEF parts
<1>2. Len(parts) = 5
      /\ parts[1] = One({5}) /\ parts[2] = One({1, 3, 4}) /\ parts[3] = One(Byte)
      /\ parts[4] = Address(1) /\ parts[5] = Fixed(2)
  BY <1>1
<1>3. 1..5 = {1, 2, 3, 4, 5}
  OBVIOUS
<1> QED BY <1>2, <1>3, PartsAreParts DEF IsLayout, parts

(* Its first three parts are a byte each. *)
LEMMA OnesEnd ==
  ASSUME NEW parts, IsLayout(parts), NEW s \in Seq(Byte), NEW i \in 1..Len(parts), parts[i].t = "one"
  PROVE  Ends(parts, s)[i] = Ends(parts, s)[i - 1] + 1
         /\ PayloadsTo(parts, s)[i] = PayloadsTo(parts, s)[i - 1]
<1>1. Size(parts[i], From(s, Ends(parts, s)[i - 1])) = 1
  BY DEF Size
<1>2. Ends(parts, s)[i] = Ends(parts, s)[i - 1] + Size(parts[i], From(s, Ends(parts, s)[i - 1]))
  BY EndOfPart
<1>3. PayloadsTo(parts, s)[i] = PayloadsTo(parts, s)[i - 1]
  BY ToldOfPart
<1> QED BY <1>1, <1>2, <1>3

(* Its layout, whatever commands and names it has. *)
IsRequest(parts) ==
  /\ IsLayout(parts) /\ Len(parts) = 5
  /\ parts[1] = One({5}) /\ parts[2].t = "one" /\ parts[3] = One(Byte)
  /\ parts[4].t = "address" /\ parts[4].least \in {0, 1} /\ parts[5] = Fixed(2)

LEMMA RequestEnds ==
  ASSUME NEW parts, IsRequest(parts), NEW s \in Seq(Byte)
  PROVE  /\ Ends(parts, s)[0] = 0 /\ Ends(parts, s)[1] = 1 /\ Ends(parts, s)[2] = 2
         /\ Ends(parts, s)[3] = 3 /\ PayloadsTo(parts, s)[3] = <<>>
<1>1. IsLayout(parts) /\ Len(parts) >= 1 /\ parts[1].t = "one" /\ parts[2].t = "one" /\ parts[3].t = "one"
      /\ 1 \in 1..Len(parts) /\ 2 \in 1..Len(parts) /\ 3 \in 1..Len(parts)
  BY DEF IsRequest, One
<1>2. Ends(parts, s)[1] = 1 /\ PayloadsTo(parts, s)[1] = <<>>
  BY <1>1, FirstIsNoPayload
<1>3. ASSUME NEW i \in 1..Len(parts), i = 2
      PROVE  Ends(parts, s)[i] = Ends(parts, s)[i - 1] + 1
             /\ PayloadsTo(parts, s)[i] = PayloadsTo(parts, s)[i - 1]
  BY <1>1, <1>3, OnesEnd
<1>4. ASSUME NEW i \in 1..Len(parts), i = 3
      PROVE  Ends(parts, s)[i] = Ends(parts, s)[i - 1] + 1
             /\ PayloadsTo(parts, s)[i] = PayloadsTo(parts, s)[i - 1]
  BY <1>1, <1>4, OnesEnd
<1>5. Ends(parts, s)[2] = 2 /\ PayloadsTo(parts, s)[2] = <<>>
  BY <1>1, <1>2, <1>3
<1>6. Ends(parts, s)[3] = 3 /\ PayloadsTo(parts, s)[3] = <<>>
  BY <1>1, <1>5, <1>4
<1>7. Ends(parts, s)[0] = 0
  BY <1>1, EndOfPart
<1> QED BY <1>2, <1>5, <1>6, <1>7

LEMMA BothRequests == IsRequest(Parsed("request")) /\ IsRequest(Layout("request"))
<1>1. IsRequest(Parsed("request"))
  <2>1. Address(1).t = "address" /\ Address(1).least = 1 /\ One({1, 3, 4}).t = "one"
    BY DEF Address, One
  <2> QED BY <2>1, RequestParts DEF IsRequest
<1>2. IsRequest(Layout("request"))
  <2> DEFINE parts == Layout("request")
  <2>1. parts = <<One({5}), One({1, 2, 3}), One(Byte), Address(0), Fixed(2)>>
    BY DEF Layout
  <2> HIDE DEF parts
  <2>2. Len(parts) = 5 /\ parts[1] = One({5}) /\ parts[2] = One({1, 2, 3})
        /\ parts[3] = One(Byte) /\ parts[4] = Address(0) /\ parts[5] = Fixed(2)
    BY <2>1
  <2>3. 1..5 = {1, 2, 3, 4, 5}
    OBVIOUS
  <2>4. IsLayout(parts)
    BY <2>2, <2>3, PartsAreParts DEF IsLayout
  <2>5. Address(0).t = "address" /\ Address(0).least = 0 /\ One({1, 2, 3}).t = "one"
    BY DEF Address, One
  <2> QED BY <2>2, <2>4, <2>5 DEF IsRequest, parts
<1> QED BY <1>1, <1>2

LEMMA RequestAddress ==
  ASSUME NEW s \in Seq(Byte)
  PROVE  LET parts == Parsed("request")
         IN Ends(parts, s)[3] = 3 /\ PayloadsTo(parts, s)[3] = <<>>
BY BothRequests, RequestEnds

Typed(p, b) == [p EXCEPT !.atyp = b]

LEMMA TypedFields ==
  ASSUME NEW p \in Parser, NEW b \in Byte
  PROVE  /\ Typed(p, b).atyp = b /\ Typed(p, b).texts = p.texts /\ Typed(p, b).read = p.read
         /\ Typed(p, b).remaining = p.remaining /\ Typed(p, b).state = p.state
         /\ Typed(p, b) \in Parser
BY DEF Parser, Typed

LEMMA AskedKept ==
  ASSUME NEW s \in Seq(Byte), NEW b \in Byte, NEW p, Asked(s, p), NEW q, q.atyp = p.atyp
  PROVE  Asked(Append(s, b), q)
<1>1. 4 \in 1..Len(s) /\ Len(Append(s, b)) = Len(s) + 1
  BY DEF Asked
<1>2. Append(s, b)[4] = s[4]
  BY <1>1
<1>3. Len(Append(s, b)) >= 4
  BY <1>1
<1> QED BY <1>2, <1>3 DEF Asked


LEMMA OpenedFields ==
  ASSUME NEW p \in Parser, NEW n \in Byte, NEW next \in States
  PROVE  LET q == Goto(RemainingSet(p, n), next)
         IN /\ q.state = next /\ q.remaining = n /\ q.read = 0 /\ q.texts = Append(p.texts, <<>>)
            /\ q.atyp = p.atyp /\ Sane(q)
<1> DEFINE z == RemainingSet(p, n)  q == Goto(z, next)
<1>1. z.remaining = n /\ z.read = 0 /\ z.texts = Append(p.texts, <<>>) /\ z.atyp = p.atyp /\ z \in Parser
  BY RemainingFields
<1> HIDE DEF z
<1>2. q.remaining = n /\ q.read = 0 /\ q.texts = Append(p.texts, <<>>) /\ q.atyp = p.atyp
      /\ q.state = next /\ q \in Parser
  BY <1>1, GotoFields
<1>3. n \in Nat
  BY BytesAreNumbers
<1> HIDE DEF q
<1>4. Sane(q)
  BY <1>2, <1>3 DEF Sane, Larger
<1> QED BY <1>2, <1>4 DEF q, z

(* The same in one word. *)
Opened(q, p, n, next) ==
  /\ q.state = next /\ q.remaining = n /\ q.read = 0 /\ q.texts = Append(p.texts, <<>>)
  /\ q.atyp = p.atyp /\ Sane(q)

LEMMA OpenedAny ==
  \A p \in Parser : \A n \in Byte : \A next \in States :
    Opened(Goto(RemainingSet(p, n), next), p, n, next)
BY OpenedFields DEF Opened

LEMMA RequestAtyp ==
  ASSUME NEW s \in Seq(Byte), NEW b \in Byte, NEW p, Sane(p), p.state = "atyp",
         Begins(Parsed("request"), s, 4, p)
  PROVE  Sane(RequestFeed(p, b)) /\ StandRequest(Append(s, b), RequestFeed(p, b))
<1> DEFINE parts == Parsed("request")  r == Append(s, b)  q == RequestFeed(p, b)  z == Typed(p, b)
<1>0. IsLayout(parts) /\ 4 \in 1..Len(parts) /\ parts[4].t = "address"
  BY RequestParts DEF Address
<1>1. p \in Parser /\ p.read <= Larger(1, p.remaining)
  BY DEF Sane
<1>2. q = CASE b = 1 -> Goto(RemainingSet(z, Ipv4Len), "dstaddr")
            [] b = 4 -> Goto(RemainingSet(z, Ipv6Len), "dstaddr")
            [] b = 3 -> Goto(z, "dstaddr_fqdn")
            [] OTHER -> Goto(z, "error")
  BY DEF RequestFeed, Typed
<1>3. Len(s) = 3
  <2>1. Ends(parts, s)[3] = 3
    BY RequestAddress
  <2>2. ASSUME NEW i \in 1..Len(parts), i = 4 PROVE Ends(parts, s)[i - 1] = Len(s)
    BY <2>2 DEF Begins
  <2> HIDE DEF parts
  <2>3. Ends(parts, s)[3] = Len(s)
    BY <1>0, <2>2
  <2> QED BY <2>1, <2>3
<1> HIDE DEF parts
<1>4. Len(r) >= 4 /\ r[4] = b
  <2>1. Len(r) = Len(s) + 1 /\ r[Len(s) + 1] = b
    OBVIOUS
  <2> HIDE DEF r
  <2>2. Len(s) + 1 = 4
    BY <1>3
  <2> QED BY <2>1, <2>2
<1>5. z.atyp = b /\ z.texts = p.texts /\ z \in Parser /\ Sane(z)
  <2>1. z.atyp = b /\ z.texts = p.texts /\ z.read = p.read /\ z.remaining = p.remaining /\ z \in Parser
    BY <1>1, TypedFields
  <2> QED BY <1>1, <2>1 DEF Sane
<1> HIDE DEF z
<1>6. Begins(parts, s, 4, p)
  BY DEF parts
<1>n. "dstaddr" \in States /\ "dstaddr_fqdn" \in States /\ "error" \in States
  BY StateNames
<1>7. ASSUME NEW n \in Byte, (b = 1 /\ n = Ipv4Len) \/ (b = 4 /\ n = Ipv6Len),
             q = Goto(RemainingSet(z, n), "dstaddr")
      PROVE  Sane(q) /\ StandRequest(r, q)
  <2>1. q.state = "dstaddr" /\ q.remaining = n /\ q.read = 0 /\ q.texts = Append(z.texts, <<>>)
        /\ q.atyp = z.atyp /\ Sane(q)
    <3>1. Opened(Goto(RemainingSet(z, n), "dstaddr"), z, n, "dstaddr")
      BY <1>5, <1>n, OpenedAny, Zenon
    <3>2. Opened(q, z, n, "dstaddr")
      BY <1>7, <3>1, Zenon
    <3> QED BY <3>2, Zenon DEF Opened
  <2> HIDE DEF q, r
  <2>2. /\ (b = 1 /\ q.remaining = Ipv4Len) \/ (b = 4 /\ q.remaining = Ipv6Len)
        /\ q.read = 0 /\ q.texts = Append(p.texts, <<>>)
    BY <1>5, <1>7, <2>1
  <2>3. Within(parts, Append(s, b), 4, q)
    BY <1>0, <1>6, <2>2, AddressStep
  <2>4. Asked(r, q)
    BY <1>4, <1>5, <2>1 DEF Asked
  <2> QED BY <2>1, <2>3, <2>4 DEF StandRequest, parts, r
<1>8. CASE b = 1
  <2>1. Ipv4Len \in Byte /\ q = Goto(RemainingSet(z, Ipv4Len), "dstaddr")
    BY <1>2, <1>8, WireAssumption
  <2> HIDE DEF q
  <2>2. Sane(q) /\ StandRequest(r, q)
    <3>1. (b = 1 /\ Ipv4Len = Ipv4Len) \/ (b = 4 /\ Ipv4Len = Ipv6Len)
      BY <1>8
    <3> QED BY <1>7, <2>1, <3>1
  <2> QED BY <2>2 DEF q
<1>9. CASE b = 4
  <2>1. Ipv6Len \in Byte /\ q = Goto(RemainingSet(z, Ipv6Len), "dstaddr")
    BY <1>2, <1>9, WireAssumption
  <2> HIDE DEF q
  <2>2. Sane(q) /\ StandRequest(r, q)
    BY <1>7, <1>9, <2>1
  <2> QED BY <2>2 DEF q
<1>10. CASE b = 3
  <2>1. q = Goto(z, "dstaddr_fqdn")
    BY <1>2, <1>10
  <2>2. q.texts = p.texts /\ q.read = z.read /\ q.remaining = z.remaining /\ q.atyp = b
        /\ q.state = "dstaddr_fqdn" /\ q \in Parser
    BY <1>5, <1>n, <2>1, GotoFields
  <2> HIDE DEF q, r
  <2>3. Sane(q)
    BY <1>5, <2>2 DEF Sane
  <2>4. Names(parts, Append(s, 3), 4, q)
    <3>1. 3 \in Byte
      BY BytesAreNumbers
    <3> QED BY <1>0, <1>6, <2>2, <3>1, AddressNamed
  <2>5. Asked(r, q)
    BY <1>4, <2>2 DEF Asked
  <2> QED BY <1>10, <2>2, <2>3, <2>4, <2>5 DEF StandRequest, parts, q, r
<1>11. CASE b \notin {1, 3, 4}
  <2>1. q = Goto(z, "error")
    BY <1>2, <1>11
  <2>2. q.read = z.read /\ q.remaining = z.remaining /\ q.state = "error" /\ q \in Parser
    BY <1>5, <1>n, <2>1, GotoFields
  <2> HIDE DEF q, r
  <2>3. Sane(q)
    BY <1>5, <2>2 DEF Sane
  <2>4. Verdict(parts, Append(s, b)) = "error"
    BY <1>0, <1>6, <1>11, AddressWrong
  <2> QED BY <2>2, <2>3, <2>4 DEF StandRequest, parts, q, r
<1> QED BY <1>8, <1>9, <1>10, <1>11

LEMMA RequestStep ==
  ASSUME NEW s \in Seq(Byte), NEW b \in Byte, NEW p, Sane(p), ~ IsDone(p), StandRequest(s, p)
  PROVE  Sane(RequestFeed(p, b)) /\ StandRequest(Append(s, b), RequestFeed(p, b))
<1> DEFINE parts == Parsed("request")  r == Append(s, b)  q == RequestFeed(p, b)
<1>0. IsLayout(parts) /\ Len(parts) = 5
      /\ parts[1] = One({5}) /\ parts[2] = One({1, 3, 4}) /\ parts[3] = One(Byte)
      /\ parts[4].t = "address" /\ parts[4].least = 1 /\ parts[5].t = "fixed" /\ parts[5].n = 2
      /\ 1 \in 1..Len(parts) /\ 2 \in 1..Len(parts) /\ 3 \in 1..Len(parts)
      /\ 4 \in 1..Len(parts) /\ 5 \in 1..Len(parts)
  BY RequestParts DEF Address, Fixed
<1> HIDE DEF parts
<1>a. p \in Parser /\ r \in Seq(Byte)
  BY DEF Sane
<1>b. 2 \in Byte \ {0}
  BY BytesAreNumbers
<1>n. /\ "cmd" \in States /\ "rsv" \in States /\ "atyp" \in States /\ "dstaddr" \in States
      /\ "dstport" \in States /\ "done" \in States
  BY StateNames
<1>1. CASE p.state = "version" /\ Begins(parts, s, 1, p)
  <2>1. q = Check(p, b, {5}, "cmd")
    BY <1>1 DEF RequestFeed
  <2>2. Checks(parts, r, 1, p, "cmd", Check(p, b, {5}, "cmd"))
    BY <1>0, <1>1, <1>n, CheckStep
  <2> QED BY <1>1, <2>1, <2>2 DEF Checks, StandRequest, parts
<1>2. CASE p.state = "cmd" /\ Begins(parts, s, 2, p)
  <2>1. q = Check(p, b, {1, 3, 4}, "rsv")
    BY <1>2 DEF RequestFeed
  <2>2. Checks(parts, r, 2, p, "rsv", Check(p, b, {1, 3, 4}, "rsv"))
    BY <1>0, <1>2, <1>n, CheckStep
  <2> QED BY <1>2, <2>1, <2>2 DEF Checks, StandRequest, parts
<1>3. CASE p.state = "rsv" /\ Begins(parts, s, 3, p)
  <2>1. q = Check(p, b, Byte, "atyp")
    BY <1>3 DEF RequestFeed, Check
  <2>2. Checks(parts, r, 3, p, "atyp", Check(p, b, Byte, "atyp"))
    BY <1>0, <1>3, <1>n, CheckStep
  <2> QED BY <1>3, <2>1, <2>2 DEF Checks, StandRequest, parts
<1>4. CASE p.state = "atyp" /\ Begins(parts, s, 4, p)
  BY <1>4, RequestAtyp DEF parts
<1>5. CASE p.state = "dstaddr_fqdn" /\ Names(parts, s, 4, p) /\ Asked(s, p)
  <2>1. q = Goto(RemainingSet(p, b), "dstaddr")
    BY <1>5 DEF RequestFeed
  <2>2. q.state = "dstaddr" /\ q.remaining = b /\ q.read = 0 /\ q.texts = Append(p.texts, <<>>)
        /\ q.atyp = p.atyp /\ Sane(q)
    BY <1>a, <1>n, <2>1, OpenedFields
  <2> HIDE DEF q
  <2>3. Within(parts, Append(s, b), 4, q)
    BY <1>0, <1>5, <2>2, NameStep
  <2>4. Asked(r, q)
    BY <1>5, <2>2, AskedKept
  <2> QED BY <2>2, <2>3, <2>4 DEF StandRequest, parts, q
<1>6. CASE p.state = "dstaddr" /\ Within(parts, s, 4, p) /\ Asked(s, p)
  <2> DEFINE z == Store(p, b, "dstport")
  <2>1. q = IF z.state = "dstport" THEN RemainingSet(z, 2) ELSE z
    BY <1>6 DEF RequestFeed
  <2>2. Fills(parts, r, 4, p, "dstport", z)
    BY <1>0, <1>6, <1>n, StoreFeed
  <2> HIDE DEF z
  <2>3. Sane(z) /\ z \in Parser /\ z.atyp = p.atyp
        /\ \/ z.state = "dstaddr" /\ Within(parts, r, 4, z)
           \/ z.state = "dstport" /\ Begins(parts, r, 5, z)
    BY <1>6, <2>2 DEF Fills, Sane
  <2> HIDE DEF q
  <2>4. CASE z.state = "dstaddr" /\ Within(parts, r, 4, z)
    <3>1. q = z
      BY <2>1, <2>4
    <3>2. Asked(r, q)
      BY <1>6, <2>3, <3>1, AskedKept
    <3> QED BY <2>3, <2>4, <3>1, <3>2 DEF StandRequest, parts, q
  <2>5. CASE z.state = "dstport" /\ Begins(parts, r, 5, z)
    <3>1. q = RemainingSet(z, 2)
      BY <2>1, <2>5
    <3>2. q.remaining = 2 /\ q.read = 0 /\ q.texts = Append(z.texts, <<>>)
          /\ q.atyp = z.atyp /\ q.state = "dstport" /\ q \in Parser
      BY <1>b, <2>3, <2>5, <3>1, RemainingFields
    <3>3. Within(parts, r, 5, q)
      <4>1. parts[5].t = "fixed" /\ 2 = parts[5].n /\ 2 \in Byte \ {0} /\ IsLayout(parts) /\ 5 \in 1..Len(parts)
        BY <1>0, <1>b
      <4>2. Begins(parts, r, 5, z) /\ q.read = 0 /\ q.remaining = 2 /\ q.texts = Append(z.texts, <<>>)
        BY <2>5, <3>2
      <4> QED BY <1>a, <4>1, <4>2, FixedStep
    <3>4. Asked(r, q)
      BY <1>6, <2>3, <3>2, AskedKept
    <3>5. Sane(q)
      BY <3>2 DEF Sane, Larger
    <3> QED BY <3>2, <3>3, <3>4, <3>5 DEF StandRequest, parts, q
  <2> QED BY <2>3, <2>4, <2>5
<1>7. CASE p.state = "dstport" /\ Within(parts, s, 5, p) /\ Asked(s, p)
  <2> DEFINE z == Store(p, b, "done")
  <2>1. q = z
    BY <1>7 DEF RequestFeed
  <2>2. Fills(parts, r, 5, p, "done", z)
    BY <1>0, <1>7, <1>n, StoreFeed
  <2> HIDE DEF z, q
  <2>3. Asked(r, q)
    BY <1>7, <2>1, <2>2, AskedKept DEF Fills
  <2> QED BY <1>7, <2>1, <2>2, <2>3 DEF Fills, StandRequest, parts, q
<1> QED BY <1>1, <1>2, <1>3, <1>4, <1>5, <1>6, <1>7 DEF StandRequest, IsDone, parts


-----------------------------------------------------------------------------
(* What a parser says of what it took is what the grammar says. *)
Told(parts, s, p) ==
  \/ ~ IsDone(p) /\ Verdict(parts, s) = "more"
  \/ p.state = "done" /\ Verdict(parts, s) = "done" /\ p.texts = Payloads(parts, s)
  \/ p.state = "error" /\ Verdict(parts, s) = "error"

LEMMA ToldDone ==
  ASSUME NEW parts, IsLayout(parts), NEW s \in Seq(Byte), NEW p, p.state = "done",
         NEW n, n = Len(parts) + 1, Begins(parts, s, n, p)
  PROVE  Told(parts, s, p)
BY BeginsDone DEF Told

LEMMA ConnectTold ==
  ASSUME NEW s \in Seq(Byte), NEW p, Sound(p), StandConnect(s, p)
  PROVE  Told(Layout("admin_connect"), s, p)
<1> DEFINE parts == Layout("admin_connect")
<1>0. IsLayout(parts) /\ Len(parts) = 2 /\ 1 \in 1..Len(parts) /\ 2 \in 1..Len(parts)
  BY ConnectParts
<1> HIDE DEF parts
<1>a. p \in Parser
  BY DEF Sound
<1>1. CASE p.state = "version" /\ Begins(parts, s, 1, p)
  <2>1. Verdict(parts, s) = "more"
    BY <1>0, <1>a, <1>1, BeginsMore
  <2> QED BY <1>1, <2>1 DEF Told, IsDone, parts
<1>2. CASE p.state = "passlen" /\ Begins(parts, s, 2, p)
  <2>1. Verdict(parts, s) = "more"
    BY <1>0, <1>a, <1>2, BeginsMore
  <2> QED BY <1>2, <2>1 DEF Told, IsDone, parts
<1>3. CASE p.state = "passwd" /\ Within(parts, s, 2, p)
  <2>1. Verdict(parts, s) = "more"
    BY <1>0, <1>a, <1>3, WithinMore
  <2> QED BY <1>3, <2>1 DEF Told, IsDone, parts
<1>4. CASE p.state = "done" /\ Begins(parts, s, 3, p)
  <2>1. 3 = Len(parts) + 1
    BY <1>0
  <2>2. Told(parts, s, p)
    BY <1>0, <1>4, <2>1, ToldDone
  <2> QED BY <2>2 DEF parts
<1>5. CASE p.state = "error" /\ Verdict(parts, s) = "error"
  BY <1>5 DEF Told, parts
<1> QED BY <1>1, <1>2, <1>3, <1>4, <1>5 DEF StandConnect, parts

LEMMA GetTold ==
  ASSUME NEW s \in Seq(Byte), NEW p, Sound(p), StandGet(s, p)
  PROVE  Told(Layout("admin_get"), s, p)
<1> DEFINE parts == Layout("admin_get")
<1>0. IsLayout(parts) /\ Len(parts) = 2 /\ 1 \in 1..Len(parts) /\ 2 \in 1..Len(parts)
  BY GetParts
<1> HIDE DEF parts
<1>a. p \in Parser
  BY DEF Sound
<1>1. CASE p.state = "action" /\ Begins(parts, s, 1, p)
  <2>1. Verdict(parts, s) = "more"
    BY <1>0, <1>a, <1>1, BeginsMore
  <2> QED BY <1>1, <2>1 DEF Told, IsDone, parts
<1>2. CASE p.state = "option" /\ Begins(parts, s, 2, p)
  <2>1. Verdict(parts, s) = "more"
    BY <1>0, <1>a, <1>2, BeginsMore
  <2> QED BY <1>2, <2>1 DEF Told, IsDone, parts
<1>3. CASE p.state = "done" /\ Begins(parts, s, 3, p)
  <2>1. 3 = Len(parts) + 1
    BY <1>0
  <2>2. Told(parts, s, p)
    BY <1>0, <1>3, <2>1, ToldDone
  <2> QED BY <2>2 DEF parts
<1>4. CASE p.state = "error" /\ Verdict(parts, s) = "error"
  BY <1>4 DEF Told, parts
<1> QED BY <1>1, <1>2, <1>3, <1>4 DEF StandGet, parts

LEMMA PutTold ==
  ASSUME NEW s \in Seq(Byte), NEW p, Sound(p), StandPut(s, p)
  PROVE  Told(Layout("admin_put"), s, p)
<1> DEFINE parts == Layout("admin_put")
<1>0. IsLayout(parts) /\ Len(parts) = 4 /\ 1 \in 1..Len(parts) /\ 2 \in 1..Len(parts) /\ 3 \in 1..Len(parts) /\ 4 \in 1..Len(parts)
  BY PutParts
<1> HIDE DEF parts
<1>a. p \in Parser
  BY DEF Sound
<1>1. CASE p.state = "action" /\ Begins(parts, s, 1, p)
  <2>1. Verdict(parts, s) = "more"
    BY <1>0, <1>a, <1>1, BeginsMore
  <2> QED BY <1>1, <2>1 DEF Told, IsDone, parts
<1>2. CASE p.state = "field" /\ Begins(parts, s, 2, p)
  <2>1. Verdict(parts, s) = "more"
    BY <1>0, <1>a, <1>2, BeginsMore
  <2> QED BY <1>2, <2>1 DEF Told, IsDone, parts
<1>3. CASE p.state = "namelen" /\ Begins(parts, s, 3, p)
  <2>1. Verdict(parts, s) = "more"
    BY <1>0, <1>a, <1>3, BeginsMore
  <2> QED BY <1>3, <2>1 DEF Told, IsDone, parts
<1>4. CASE p.state = "name" /\ Within(parts, s, 3, p)
  <2>1. Verdict(parts, s) = "more"
    BY <1>0, <1>a, <1>4, WithinMore
  <2> QED BY <1>4, <2>1 DEF Told, IsDone, parts
<1>5. CASE p.state = "passlen" /\ Begins(parts, s, 4, p)
  <2>1. Verdict(parts, s) = "more"
    BY <1>0, <1>a, <1>5, BeginsMore
  <2> QED BY <1>5, <2>1 DEF Told, IsDone, parts
<1>6. CASE p.state = "pass" /\ Within(parts, s, 4, p)
  <2>1. Verdict(parts, s) = "more"
    BY <1>0, <1>a, <1>6, WithinMore
  <2> QED BY <1>6, <2>1 DEF Told, IsDone, parts
<1>7. CASE p.state = "done" /\ Begins(parts, s, 5, p)
  <2>1. 5 = Len(parts) + 1
    BY <1>0
  <2>2. Told(parts, s, p)
    BY <1>0, <1>7, <2>1, ToldDone
  <2> QED BY <2>2 DEF parts
<1>8. CASE p.state = "error" /\ Verdict(parts, s) = "error"
  BY <1>8 DEF Told, parts
<1> QED BY <1>1, <1>2, <1>3, <1>4, <1>5, <1>6, <1>7, <1>8 DEF StandPut, parts

LEMMA EditTold ==
  ASSUME NEW s \in Seq(Byte), NEW p, Sound(p), StandEdit(s, p)
  PROVE  Told(Layout("admin_edit"), s, p)
<1> DEFINE parts == Layout("admin_edit")
<1>0. IsLayout(parts) /\ Len(parts) = 5 /\ 1 \in 1..Len(parts) /\ 2 \in 1..Len(parts) /\ 3 \in 1..Len(parts) /\ 4 \in 1..Len(parts) /\ 5 \in 1..Len(parts)
  BY EditParts
<1> HIDE DEF parts
<1>a. p \in Parser
  BY DEF Sound
<1>1. CASE p.state = "action" /\ Begins(parts, s, 1, p)
  <2>1. Verdict(parts, s) = "more"
    BY <1>0, <1>a, <1>1, BeginsMore
  <2> QED BY <1>1, <2>1 DEF Told, IsDone, parts
<1>2. CASE p.state = "field" /\ Begins(parts, s, 2, p)
  <2>1. Verdict(parts, s) = "more"
    BY <1>0, <1>a, <1>2, BeginsMore
  <2> QED BY <1>2, <2>1 DEF Told, IsDone, parts
<1>3. CASE p.state = "ulen" /\ Begins(parts, s, 3, p)
  <2>1. Verdict(parts, s) = "more"
    BY <1>0, <1>a, <1>3, BeginsMore
  <2> QED BY <1>3, <2>1 DEF Told, IsDone, parts
<1>4. CASE p.state = "username" /\ Within(parts, s, 3, p)
  <2>1. Verdict(parts, s) = "more"
    BY <1>0, <1>a, <1>4, WithinMore
  <2> QED BY <1>4, <2>1 DEF Told, IsDone, parts
<1>5. CASE p.state = "attribute" /\ Begins(parts, s, 4, p)
  <2>1. Verdict(parts, s) = "more"
    BY <1>0, <1>a, <1>5, BeginsMore
  <2> QED BY <1>5, <2>1 DEF Told, IsDone, parts
<1>6. CASE p.state = "valuelen" /\ Begins(parts, s, 5, p)
  <2>1. Verdict(parts, s) = "more"
    BY <1>0, <1>a, <1>6, BeginsMore
  <2> QED BY <1>6, <2>1 DEF Told, IsDone, parts
<1>7. CASE p.state = "value" /\ Within(parts, s, 5, p)
  <2>1. Verdict(parts, s) = "more"
    BY <1>0, <1>a, <1>7, WithinMore
  <2> QED BY <1>7, <2>1 DEF Told, IsDone, parts
<1>8. CASE p.state = "done" /\ Begins(parts, s, 6, p)
  <2>1. 6 = Len(parts) + 1
    BY <1>0
  <2>2. Told(parts, s, p)
    BY <1>0, <1>8, <2>1, ToldDone
  <2> QED BY <2>2 DEF parts
<1>9. CASE p.state = "error" /\ Verdict(parts, s) = "error"
  BY <1>9 DEF Told, parts
<1> QED BY <1>1, <1>2, <1>3, <1>4, <1>5, <1>6, <1>7, <1>8, <1>9 DEF StandEdit, parts

LEMMA ConfigbuffTold ==
  ASSUME NEW s \in Seq(Byte), NEW p, Sound(p), StandConfigbuff(s, p)
  PROVE  Told(Layout("admin_configbuff"), s, p)
<1> DEFINE parts == Layout("admin_configbuff")
<1>0. IsLayout(parts) /\ Len(parts) = 2 /\ 1 \in 1..Len(parts) /\ 2 \in 1..Len(parts)
  BY ConfigbuffParts
<1> HIDE DEF parts
<1>a. p \in Parser
  BY DEF Sound
<1>1. CASE p.state = "size_action" /\ Begins(parts, s, 1, p)
  <2>1. Verdict(parts, s) = "more"
    BY <1>0, <1>a, <1>1, BeginsMore
  <2> QED BY <1>1, <2>1 DEF Told, IsDone, parts
<1>2. CASE p.state = "size" /\ Within(parts, s, 2, p)
  <2>1. Verdict(parts, s) = "more"
    BY <1>0, <1>a, <1>2, WithinMore
  <2> QED BY <1>2, <2>1 DEF Told, IsDone, parts
<1>3. CASE p.state = "done" /\ Begins(parts, s, 3, p)
  <2>1. 3 = Len(parts) + 1
    BY <1>0
  <2>2. Told(parts, s, p)
    BY <1>0, <1>3, <2>1, ToldDone
  <2> QED BY <2>2 DEF parts
<1>4. CASE p.state = "error" /\ Verdict(parts, s) = "error"
  BY <1>4 DEF Told, parts
<1> QED BY <1>1, <1>2, <1>3, <1>4 DEF StandConfigbuff, parts

LEMMA ConfigstatusTold ==
  ASSUME NEW s \in Seq(Byte), NEW p, Sound(p), StandConfigstatus(s, p)
  PROVE  Told(Layout("admin_configstatus"), s, p)
<1> DEFINE parts == Layout("admin_configstatus")
<1>0. IsLayout(parts) /\ Len(parts) = 3 /\ 1 \in 1..Len(parts) /\ 2 \in 1..Len(parts) /\ 3 \in 1..Len(parts)
  BY ConfigstatusParts
<1> HIDE DEF parts
<1>a. p \in Parser
  BY DEF Sound
<1>1. CASE p.state = "action" /\ Begins(parts, s, 1, p)
  <2>1. Verdict(parts, s) = "more"
    BY <1>0, <1>a, <1>1, BeginsMore
  <2> QED BY <1>1, <2>1 DEF Told, IsDone, parts
<1>2. CASE p.state = "field" /\ Begins(parts, s, 2, p)
  <2>1. Verdict(parts, s) = "more"
    BY <1>0, <1>a, <1>2, BeginsMore
  <2> QED BY <1>2, <2>1 DEF Told, IsDone, parts
<1>3. CASE p.state = "status" /\ Begins(parts, s, 3, p)
  <2>1. Verdict(parts, s) = "more"
    BY <1>0, <1>a, <1>3, BeginsMore
  <2> QED BY <1>3, <2>1 DEF Told, IsDone, parts
<1>4. CASE p.state = "done" /\ Begins(parts, s, 4, p)
  <2>1. 4 = Len(parts) + 1
    BY <1>0
  <2>2. Told(parts, s, p)
    BY <1>0, <1>4, <2>1, ToldDone
  <2> QED BY <2>2 DEF parts
<1>5. CASE p.state = "error" /\ Verdict(parts, s) = "error"
  BY <1>5 DEF Told, parts
<1> QED BY <1>1, <1>2, <1>3, <1>4, <1>5 DEF StandConfigstatus, parts

LEMMA DeleteTold ==
  ASSUME NEW s \in Seq(Byte), NEW p, Sound(p), StandDelete(s, p)
  PROVE  Told(Layout("admin_delete"), s, p)
<1> DEFINE parts == Layout("admin_delete")
<1>0. IsLayout(parts) /\ Len(parts) = 3 /\ 1 \in 1..Len(parts) /\ 2 \in 1..Len(parts) /\ 3 \in 1..Len(parts)
  BY DeleteParts
<1> HIDE DEF parts
<1>a. p \in Parser
  BY DEF Sound
<1>1. CASE p.state = "action" /\ Begins(parts, s, 1, p)
  <2>1. Verdict(parts, s) = "more"
    BY <1>0, <1>a, <1>1, BeginsMore
  <2> QED BY <1>1, <2>1 DEF Told, IsDone, parts
<1>2. CASE p.state = "field" /\ Begins(parts, s, 2, p)
  <2>1. Verdict(parts, s) = "more"
    BY <1>0, <1>a, <1>2, BeginsMore
  <2> QED BY <1>2, <2>1 DEF Told, IsDone, parts
<1>3. CASE p.state = "ulen" /\ Begins(parts, s, 3, p)
  <2>1. Verdict(parts, s) = "more"
    BY <1>0, <1>a, <1>3, BeginsMore
  <2> QED BY <1>3, <2>1 DEF Told, IsDone, parts
<1>4. CASE p.state = "username" /\ Within(parts, s, 3, p)
  <2>1. Verdict(parts, s) = "more"
    BY <1>0, <1>a, <1>4, WithinMore
  <2> QED BY <1>4, <2>1 DEF Told, IsDone, parts
<1>5. CASE p.state = "done" /\ Begins(parts, s, 4, p)
  <2>1. 4 = Len(parts) + 1
    BY <1>0
  <2>2. Told(parts, s, p)
    BY <1>0, <1>5, <2>1, ToldDone
  <2> QED BY <2>2 DEF parts
<1>6. CASE p.state = "error" /\ Verdict(parts, s) = "error"
  BY <1>6 DEF Told, parts
<1> QED BY <1>1, <1>2, <1>3, <1>4, <1>5, <1>6 DEF StandDelete, parts

LEMMA HelloTold ==
  ASSUME NEW s \in Seq(Byte), NEW p, Sound(p), StandHello(s, p)
  PROVE  Told(Layout("hello"), s, p)
<1> DEFINE parts == Layout("hello")
<1>0. IsLayout(parts) /\ Len(parts) = 2 /\ 1 \in 1..Len(parts) /\ 2 \in 1..Len(parts) /\ parts[2].t = "counted" /\ parts[2].least = 0
  BY HelloParts DEF Counted
<1> HIDE DEF parts
<1>a. p \in Parser
  BY DEF Sound
<1>1. CASE p.state = "version" /\ Begins(parts, s, 1, p) /\ p.read = 0
  <2>1. Verdict(parts, s) = "more"
    BY <1>0, <1>a, <1>1, BeginsMore
  <2> QED BY <1>1, <2>1 DEF Told, IsDone, parts
<1>2. CASE p.state = "nmethods" /\ Begins(parts, s, 2, p) /\ p.read = 0
  <2>1. Verdict(parts, s) = "more"
    BY <1>0, <1>a, <1>2, BeginsMore
  <2> QED BY <1>2, <2>1 DEF Told, IsDone, parts
<1>3. CASE p.state = "methods" /\ Lists(parts, s, 2, p)
  <2>1. Verdict(parts, s) = "more"
    BY <1>0, <1>a, <1>3, ListsMore
  <2> QED BY <1>3, <2>1 DEF Told, IsDone, parts
<1>4. CASE p.state = "done" /\ Begins(parts, s, 3, p)
  <2>1. 3 = Len(parts) + 1
    BY <1>0
  <2>2. Told(parts, s, p)
    BY <1>0, <1>4, <2>1, ToldDone
  <2> QED BY <2>2 DEF parts
<1>5. CASE p.state = "error" /\ Verdict(parts, s) = "error"
  BY <1>5 DEF Told, parts
<1> QED BY <1>1, <1>2, <1>3, <1>4, <1>5 DEF StandHello, parts

LEMMA AuthTold ==
  ASSUME NEW s \in Seq(Byte), NEW p, Sound(p), StandAuth(s, p)
  PROVE  Told(Layout("auth"), s, p)
<1> DEFINE parts == Layout("auth")
<1>0. IsLayout(parts) /\ Len(parts) = 3 /\ 1 \in 1..Len(parts) /\ 2 \in 1..Len(parts) /\ 3 \in 1..Len(parts)
  BY AuthParts
<1> HIDE DEF parts
<1>a. p \in Parser
  BY DEF Sound
<1>1. CASE p.state = "version" /\ Begins(parts, s, 1, p)
  <2>1. Verdict(parts, s) = "more"
    BY <1>0, <1>a, <1>1, BeginsMore
  <2> QED BY <1>1, <2>1 DEF Told, IsDone, parts
<1>2. CASE p.state = "userlen" /\ Begins(parts, s, 2, p)
  <2>1. Verdict(parts, s) = "more"
    BY <1>0, <1>a, <1>2, BeginsMore
  <2> QED BY <1>2, <2>1 DEF Told, IsDone, parts
<1>3. CASE p.state = "username" /\ Within(parts, s, 2, p)
  <2>1. Verdict(parts, s) = "more"
    BY <1>0, <1>a, <1>3, WithinMore
  <2> QED BY <1>3, <2>1 DEF Told, IsDone, parts
<1>4. CASE p.state = "passlen" /\ Begins(parts, s, 3, p)
  <2>1. Verdict(parts, s) = "more"
    BY <1>0, <1>a, <1>4, BeginsMore
  <2> QED BY <1>4, <2>1 DEF Told, IsDone, parts
<1>5. CASE p.state = "pass" /\ Within(parts, s, 3, p)
  <2>1. Verdict(parts, s) = "more"
    BY <1>0, <1>a, <1>5, WithinMore
  <2> QED BY <1>5, <2>1 DEF Told, IsDone, parts
<1>6. CASE p.state = "done" /\ Begins(parts, s, 4, p)
  <2>1. 4 = Len(parts) + 1
    BY <1>0
  <2>2. Told(parts, s, p)
    BY <1>0, <1>6, <2>1, ToldDone
  <2> QED BY <2>2 DEF parts
<1>7. CASE p.state = "error" /\ Verdict(parts, s) = "error"
  BY <1>7 DEF Told, parts
<1> QED BY <1>1, <1>2, <1>3, <1>4, <1>5, <1>6, <1>7 DEF StandAuth, parts

LEMMA RequestTold ==
  ASSUME NEW s \in Seq(Byte), NEW p, Sound(p), StandRequest(s, p)
  PROVE  Told(Parsed("request"), s, p)
<1> DEFINE parts == Parsed("request")
<1>0. IsLayout(parts) /\ Len(parts) = 5 /\ 1 \in 1..Len(parts) /\ 2 \in 1..Len(parts) /\ 3 \in 1..Len(parts) /\ 4 \in 1..Len(parts) /\ 5 \in 1..Len(parts)
      /\ parts[4].t = "address" /\ parts[4].least = 1
  BY RequestParts DEF Address
<1> HIDE DEF parts
<1>a. p \in Parser
  BY DEF Sound
<1>1. CASE p.state = "version" /\ Begins(parts, s, 1, p)
  <2>1. Verdict(parts, s) = "more"
    BY <1>0, <1>a, <1>1, BeginsMore
  <2> QED BY <1>1, <2>1 DEF Told, IsDone, parts
<1>2. CASE p.state = "cmd" /\ Begins(parts, s, 2, p)
  <2>1. Verdict(parts, s) = "more"
    BY <1>0, <1>a, <1>2, BeginsMore
  <2> QED BY <1>2, <2>1 DEF Told, IsDone, parts
<1>3. CASE p.state = "rsv" /\ Begins(parts, s, 3, p)
  <2>1. Verdict(parts, s) = "more"
    BY <1>0, <1>a, <1>3, BeginsMore
  <2> QED BY <1>3, <2>1 DEF Told, IsDone, parts
<1>4. CASE p.state = "atyp" /\ Begins(parts, s, 4, p)
  <2>1. Verdict(parts, s) = "more"
    BY <1>0, <1>a, <1>4, BeginsMore
  <2> QED BY <1>4, <2>1 DEF Told, IsDone, parts
<1>5. CASE p.state = "dstaddr_fqdn" /\ Names(parts, s, 4, p) /\ Asked(s, p)
  <2>1. Verdict(parts, s) = "more"
    BY <1>0, <1>a, <1>5, NamesMore
  <2> QED BY <1>5, <2>1 DEF Told, IsDone, parts
<1>6. CASE p.state = "dstaddr" /\ Within(parts, s, 4, p) /\ Asked(s, p)
  <2>1. Verdict(parts, s) = "more"
    BY <1>0, <1>a, <1>6, WithinMore
  <2> QED BY <1>6, <2>1 DEF Told, IsDone, parts
<1>7. CASE p.state = "dstport" /\ Within(parts, s, 5, p) /\ Asked(s, p)
  <2>1. Verdict(parts, s) = "more"
    BY <1>0, <1>a, <1>7, WithinMore
  <2> QED BY <1>7, <2>1 DEF Told, IsDone, parts
<1>8. CASE p.state = "done" /\ Begins(parts, s, 6, p) /\ Asked(s, p)
  <2>1. 6 = Len(parts) + 1
    BY <1>0
  <2>2. Told(parts, s, p)
    BY <1>0, <1>8, <2>1, ToldDone
  <2> QED BY <2>2 DEF parts
<1>9. CASE p.state = "error" /\ Verdict(parts, s) = "error"
  BY <1>9 DEF Told, parts
<1> QED BY <1>1, <1>2, <1>3, <1>4, <1>5, <1>6, <1>7, <1>8, <1>9 DEF StandRequest, parts

(* Where the parser of a kind is in its message. *)
Stand(k, p, s) ==
  CASE k = "admin_connect" -> StandConnect(s, p)
    [] k = "admin_get" -> StandGet(s, p)
    [] k = "admin_put" -> StandPut(s, p)
    [] k = "admin_edit" -> StandEdit(s, p)
    [] k = "admin_configbuff" -> StandConfigbuff(s, p)
    [] k = "admin_configstatus" -> StandConfigstatus(s, p)
    [] k = "admin_delete" -> StandDelete(s, p)
    [] k = "hello" -> StandHello(s, p)
    [] k = "auth" -> StandAuth(s, p)
    [] k = "request" -> StandRequest(s, p)

LEMMA StandTold ==
  ASSUME NEW k \in Kinds, NEW s \in Seq(Byte), NEW p, Sound(p), Stand(k, p, s)
  PROVE  Told(Parsed(k), s, p)
<1>1. CASE k = "admin_connect"
  <2>1. StandConnect(s, p)
    BY <1>1 DEF Stand
  <2> QED BY <1>1, <2>1, ConnectTold DEF Parsed
<1>2. CASE k = "admin_get"
  <2>1. StandGet(s, p)
    BY <1>2 DEF Stand
  <2> QED BY <1>2, <2>1, GetTold DEF Parsed
<1>3. CASE k = "admin_put"
  <2>1. StandPut(s, p)
    BY <1>3 DEF Stand
  <2> QED BY <1>3, <2>1, PutTold DEF Parsed
<1>4. CASE k = "admin_edit"
  <2>1. StandEdit(s, p)
    BY <1>4 DEF Stand
  <2> QED BY <1>4, <2>1, EditTold DEF Parsed
<1>5. CASE k = "admin_configbuff"
  <2>1. StandConfigbuff(s, p)
    BY <1>5 DEF Stand
  <2> QED BY <1>5, <2>1, ConfigbuffTold DEF Parsed
<1>6. CASE k = "admin_configstatus"
  <2>1. StandConfigstatus(s, p)
    BY <1>6 DEF Stand
  <2> QED BY <1>6, <2>1, ConfigstatusTold DEF Parsed
<1>7. CASE k = "admin_delete"
  <2>1. StandDelete(s, p)
    BY <1>7 DEF Stand
  <2> QED BY <1>7, <2>1, DeleteTold DEF Parsed
<1>8. CASE k = "hello"
  <2>1. StandHello(s, p)
    BY <1>8 DEF Stand
  <2> QED BY <1>8, <2>1, HelloTold DEF Parsed
<1>9. CASE k = "auth"
  <2>1. StandAuth(s, p)
    BY <1>9 DEF Stand
  <2> QED BY <1>9, <2>1, AuthTold DEF Parsed
<1>10. CASE k = "request"
  <2>1. StandRequest(s, p)
    BY <1>10 DEF Stand
  <2> QED BY <1>10, <2>1, RequestTold
<1> QED BY <1>1, <1>2, <1>3, <1>4, <1>5, <1>6, <1>7, <1>8, <1>9, <1>10, WireAssumption

LEMMA FeedStep ==
  ASSUME NEW k \in Kinds, NEW s \in Seq(Byte), NEW b \in Byte, NEW p, Sound(p), ~ IsDone(p),
         Stand(k, p, s)
  PROVE  Sound(Feed(k, p, b)) /\ Stand(k, Feed(k, p, b), Append(s, b))
<1>0. Sane(p)
  BY DEF Sound, Sane, IsDone
<1>1. CASE k = "admin_connect"
  <2>1. StandConnect(s, p) /\ Feed(k, p, b) = AdminConnectFeed(p, b)
    BY <1>1 DEF Stand, Feed
  <2>2. Sound(AdminConnectFeed(p, b)) /\ StandConnect(Append(s, b), AdminConnectFeed(p, b))
    BY <1>0, <2>1, ConnectStep
  <2> QED BY <1>1, <2>1, <2>2, SaneIsSound DEF Stand
<1>2. CASE k = "admin_get"
  <2>1. StandGet(s, p) /\ Feed(k, p, b) = AdminGetFeed(p, b)
    BY <1>2 DEF Stand, Feed
  <2>2. Sane(AdminGetFeed(p, b)) /\ StandGet(Append(s, b), AdminGetFeed(p, b))
    BY <1>0, <2>1, GetStep
  <2> QED BY <1>2, <2>1, <2>2, SaneIsSound DEF Stand
<1>3. CASE k = "admin_put"
  <2>1. StandPut(s, p) /\ Feed(k, p, b) = AdminPutFeed(p, b)
    BY <1>3 DEF Stand, Feed
  <2>2. Sound(AdminPutFeed(p, b)) /\ StandPut(Append(s, b), AdminPutFeed(p, b))
    BY <1>0, <2>1, PutStep
  <2> QED BY <1>3, <2>1, <2>2, SaneIsSound DEF Stand
<1>4. CASE k = "admin_edit"
  <2>1. StandEdit(s, p) /\ Feed(k, p, b) = AdminEditFeed(p, b)
    BY <1>4 DEF Stand, Feed
  <2>2. Sound(AdminEditFeed(p, b)) /\ StandEdit(Append(s, b), AdminEditFeed(p, b))
    BY <1>0, <2>1, EditStep
  <2> QED BY <1>4, <2>1, <2>2, SaneIsSound DEF Stand
<1>5. CASE k = "admin_configbuff"
  <2>1. StandConfigbuff(s, p) /\ Feed(k, p, b) = AdminConfigbuffFeed(p, b)
    BY <1>5 DEF Stand, Feed
  <2>2. Sane(AdminConfigbuffFeed(p, b)) /\ StandConfigbuff(Append(s, b), AdminConfigbuffFeed(p, b))
    BY <1>0, <2>1, ConfigbuffStep
  <2> QED BY <1>5, <2>1, <2>2, SaneIsSound DEF Stand
<1>6. CASE k = "admin_configstatus"
  <2>1. StandConfigstatus(s, p) /\ Feed(k, p, b) = AdminConfigstatusFeed(p, b)
    BY <1>6 DEF Stand, Feed
  <2>2. Sane(AdminConfigstatusFeed(p, b)) /\ StandConfigstatus(Append(s, b), AdminConfigstatusFeed(p, b))
    BY <1>0, <2>1, ConfigstatusStep
  <2> QED BY <1>6, <2>1, <2>2, SaneIsSound DEF Stand
<1>7. CASE k = "admin_delete"
  <2>1. StandDelete(s, p) /\ Feed(k, p, b) = AdminDeleteFeed(p, b)
    BY <1>7 DEF Stand, Feed
  <2>2. Sane(AdminDeleteFeed(p, b)) /\ StandDelete(Append(s, b), AdminDeleteFeed(p, b))
    BY <1>0, <2>1, DeleteStep
  <2> QED BY <1>7, <2>1, <2>2, SaneIsSound DEF Stand
<1>8. CASE k = "hello"
  <2>1. StandHello(s, p) /\ Feed(k, p, b) = HelloFeed(p, b)
    BY <1>8 DEF Stand, Feed
  <2>2. Sane(HelloFeed(p, b)) /\ StandHello(Append(s, b), HelloFeed(p, b))
    BY <1>0, <2>1, HelloStep
  <2> QED BY <1>8, <2>1, <2>2, SaneIsSound DEF Stand
<1>9. CASE k = "auth"
  <2>1. StandAuth(s, p) /\ Feed(k, p, b) = AuthFeed(p, b)
    BY <1>9 DEF Stand, Feed
  <2>2. Sound(AuthFeed(p, b)) /\ StandAuth(Append(s, b), AuthFeed(p, b))
    BY <1>0, <2>1, AuthStep
  <2> QED BY <1>9, <2>1, <2>2, SaneIsSound DEF Stand
<1>10. CASE k = "request"
  <2>1. StandRequest(s, p) /\ Feed(k, p, b) = RequestFeed(p, b)
    BY <1>10 DEF Stand, Feed
  <2>2. Sane(RequestFeed(p, b)) /\ StandRequest(Append(s, b), RequestFeed(p, b))
    BY <1>0, <2>1, RequestStep
  <2> QED BY <1>10, <2>1, <2>2, SaneIsSound DEF Stand
<1> QED BY <1>1, <1>2, <1>3, <1>4, <1>5, <1>6, <1>7, <1>8, <1>9, <1>10, WireAssumption


-----------------------------------------------------------------------------
(* Cutting and joining what was taken. *)
LEMMA TakenIs ==
  ASSUME NEW t \in Seq(Byte), NEW u \in Seq(Byte)
  PROVE  SubSeq(t \o u, 1, Len(t \o u) - Len(u)) = t
<1> DEFINE f == t \o u  v == SubSeq(f, 1, Len(f) - Len(u))
<1>1. f \in Seq(Byte) /\ Len(f) = Len(t) + Len(u) /\ Len(t) \in Nat /\ Len(u) \in Nat
      /\ \A i \in 1..Len(t) : f[i] = t[i]
  BY ConcatProperties
<1> HIDE DEF f
<1>2. v = SubSeq(f, 1, Len(t))
  <2>1. Len(f) - Len(u) = Len(t)
    BY <1>1
  <2> QED BY <2>1
<1>3. v \in Seq(Byte) /\ Len(v) = Len(t) /\ \A i \in 1..Len(t) : v[i] = f[i]
  BY <1>1, <1>2
<1> HIDE DEF v
<1>4. v = t
  BY <1>1, <1>3, SeqEqual
<1> QED BY <1>4 DEF f, v

LEMMA ByteBehind ==
  ASSUME NEW t \in Seq(Byte), NEW b \in Byte
  PROVE  Append(t, b) = t \o <<b>> /\ <<b>> \in Seq(Byte)
<1>1. <<b>> \in Seq(Byte)
  OBVIOUS
<1> QED BY <1>1, AppendIsConcat

LEMMA AppendBehind ==
  ASSUME NEW t \in Seq(Byte), NEW u \in Seq(Byte), NEW b \in Byte
  PROVE  Append(t \o u, b) = t \o Append(u, b)
<1>1. t \o u \in Seq(Byte)
  BY ConcatProperties
<1>2. Append(t \o u, b) = (t \o u) \o <<b>> /\ Append(u, b) = u \o <<b>> /\ <<b>> \in Seq(Byte)
  BY <1>1, ByteBehind
<1>3. (t \o u) \o <<b>> = t \o (u \o <<b>>)
  BY <1>2, ConcatAssociative
<1> QED BY <1>2, <1>3

LEMMA CutAndJoined ==
  ASSUME NEW u \in Seq(Byte), NEW n \in 0..Len(u)
  PROVE  /\ SubSeq(u, 1, n) \in Seq(Byte) /\ SubSeq(u, n + 1, Len(u)) \in Seq(Byte)
         /\ SubSeq(u, 1, n) \o SubSeq(u, n + 1, Len(u)) = u
<1>1. 1 \in 1..(Len(u) + 1) /\ n \in (1 - 1)..Len(u) /\ Len(u) \in n..Len(u)
  OBVIOUS
<1>2. SubSeq(u, 1, n) \o SubSeq(u, n + 1, Len(u)) = SubSeq(u, 1, Len(u))
  BY <1>1, ConcatAdjacentSubSeq
<1>3. SubSeq(u, 1, Len(u)) = u
  BY SubSeqFull
<1>4. SubSeq(u, 1, n) \in Seq(Byte) /\ SubSeq(u, n + 1, Len(u)) \in Seq(Byte)
  OBVIOUS
<1> QED BY <1>2, <1>3, <1>4

LEMMA NextTaken ==
  ASSUME NEW u \in Seq(Byte), NEW i \in 0..(Len(u) - 1)
  PROVE  SubSeq(u, 1, i + 1) = Append(SubSeq(u, 1, i), u[i + 1])
<1> DEFINE v == SubSeq(u, 1, i + 1)  w == SubSeq(u, 1, i)  x == Append(w, u[i + 1])
<1>1. Len(u) \in Nat /\ i + 1 \in 1..Len(u) /\ u[i + 1] \in Byte
  OBVIOUS
<1>2. v \in Seq(Byte) /\ Len(v) = i + 1 /\ \A j \in 1..(i + 1) : v[j] = u[j]
  BY <1>1
<1>3. w \in Seq(Byte) /\ Len(w) = i /\ \A j \in 1..i : w[j] = u[j]
  BY <1>1
<1> HIDE DEF v, w
<1>4. x \in Seq(Byte) /\ Len(x) = i + 1 /\ x[i + 1] = u[i + 1] /\ \A j \in 1..i : x[j] = w[j]
  BY <1>1, <1>3
<1> HIDE DEF x
<1>5. \A j \in 1..Len(v) : v[j] = x[j]
  BY <1>2, <1>3, <1>4
<1>6. v = x
  BY <1>2, <1>4, <1>5, SeqEqual
<1> QED BY <1>6 DEF v, w, x


-----------------------------------------------------------------------------
(* What every byte keeps: the parser is where the grammar says, and it was not
   there before. *)
Follows(k, p, s) ==
  /\ Sound(p) /\ Stand(k, p, s)
  /\ \A n \in 0..(Len(s) - 1) : Verdict(Parsed(k), SubSeq(s, 1, n)) = "more"

LEMMA FollowsFeed ==
  ASSUME NEW k \in Kinds, NEW s \in Seq(Byte), NEW b \in Byte, NEW p, ~ IsDone(p), Follows(k, p, s)
  PROVE  Follows(k, Feed(k, p, b), Append(s, b))
<1> DEFINE r == Append(s, b)
<1>1. Sound(p) /\ Stand(k, p, s) /\ \A n \in 0..(Len(s) - 1) : Verdict(Parsed(k), SubSeq(s, 1, n)) = "more"
  BY DEF Follows
<1>2. Sound(Feed(k, p, b)) /\ Stand(k, Feed(k, p, b), r)
  BY <1>1, FeedStep
<1>3. Verdict(Parsed(k), s) = "more"
  <2>1. Told(Parsed(k), s, p)
    BY <1>1, StandTold
  <2> QED BY <2>1 DEF Told, IsDone
<1>4. ASSUME NEW n \in 0..(Len(r) - 1) PROVE Verdict(Parsed(k), SubSeq(r, 1, n)) = "more"
  <2>1. Len(s) \in Nat /\ Len(r) = Len(s) + 1 /\ n \in 0..Len(s)
    BY <1>4
  <2>2. SubSeq(r, 1, n) = SubSeq(s, 1, n)
    BY <2>1, SubSeqKept
  <2> HIDE DEF r
  <2>3. CASE n = Len(s)
    <3>1. SubSeq(s, 1, Len(s)) = s
      BY SubSeqFull
    <3> QED BY <1>3, <2>2, <2>3, <3>1
  <2>4. CASE n # Len(s)
    <3>1. n \in 0..(Len(s) - 1)
      BY <2>1, <2>4
    <3> QED BY <1>1, <2>2, <3>1
  <2> QED BY <2>3, <2>4
<1> QED BY <1>2, <1>4 DEF Follows

(* The recursive function of consume exists. *)
AfterBy(f, k, p, bytes, n) ==
  f = [i \in 0..n |-> IF i = 0 THEN [p |-> p, n |-> 0] ELSE Step(k, f[i - 1], bytes[i])]

LEMMA AfterExists ==
  ASSUME NEW k, NEW p, NEW bytes, NEW n \in Nat
  PROVE  \E f : AfterBy(f, k, p, bytes, n)
<1> DEFINE G == {m \in Nat : \E f : AfterBy(f, k, p, bytes, m)}
<1>1. 0 \in G
  <2>1. AfterBy([i \in 0..0 |-> [p |-> p, n |-> 0]], k, p, bytes, 0)
    BY DEF AfterBy
  <2> QED BY <2>1
<1>2. ASSUME NEW m \in 0..(n - 1), m \in G PROVE m + 1 \in G
  <2>1. PICK f : AfterBy(f, k, p, bytes, m)
    BY <1>2
  <2> DEFINE last == Step(k, f[m], bytes[m + 1])
             g == [i \in 0..(m + 1) |-> IF i = m + 1 THEN last ELSE f[i]]
  <2>2. ASSUME NEW i \in 0..(m + 1)
        PROVE  g[i] = IF i = 0 THEN [p |-> p, n |-> 0] ELSE Step(k, g[i - 1], bytes[i])
    <3>1. CASE i = m + 1
      <4>1. g[i] = last /\ g[m] = f[m] /\ i - 1 = m /\ i # 0
        BY <3>1
      <4> QED BY <3>1, <4>1
    <3>2. CASE i # m + 1 /\ i # 0
      <4>1. i \in 0..m /\ i - 1 \in 0..m
        BY <3>2
      <4>2. g[i] = f[i] /\ g[i - 1] = f[i - 1]
        BY <3>2, <4>1
      <4>3. f[i] = Step(k, f[i - 1], bytes[i])
        BY <2>1, <3>2, <4>1 DEF AfterBy
      <4> QED BY <3>2, <4>2, <4>3
    <3>3. CASE i = 0
      <4>1. f[0] = [p |-> p, n |-> 0]
        BY <2>1 DEF AfterBy
      <4> QED BY <3>3, <4>1
    <3> QED BY <3>1, <3>2, <3>3
  <2>3. AfterBy(g, k, p, bytes, m + 1)
    BY <2>2 DEF AfterBy
  <2> QED BY <2>3
<1>3. n \in G
  <2> HIDE DEF G
  <2> QED BY <1>1, <1>2, UpTo
<1> QED BY <1>3

(* The parser over what is in the buffer: it stops at the end of its message. *)
LEMMA ConsumedFollows ==
  ASSUME NEW k \in Kinds, NEW p, NEW s \in Seq(Byte), NEW bytes \in Seq(Byte), Follows(k, p, s)
  PROVE  LET at == Consumed(k, p, bytes)
         IN /\ at.n \in 0..Len(bytes) /\ Follows(k, at.p, s \o SubSeq(bytes, 1, at.n))
            /\ IsDone(at.p) \/ at.n = Len(bytes)
<1> DEFINE l == Len(bytes)  a == CHOOSE f : AfterBy(f, k, p, bytes, l)
           Good(at, i) == /\ at.n \in 0..i /\ Follows(k, at.p, s \o SubSeq(bytes, 1, at.n))
                          /\ IsDone(at.p) \/ at.n = i
<1>0. l \in Nat
  OBVIOUS
<1>1. Consumed(k, p, bytes) = a[l]
  BY DEF Consumed, AfterBy
<1>2. AfterBy(a, k, p, bytes, l)
  BY <1>0, AfterExists
<1> HIDE DEF a
<1>3. a[0] = [p |-> p, n |-> 0] /\ \A i \in 1..l : a[i] = Step(k, a[i - 1], bytes[i])
  BY <1>0, <1>2 DEF AfterBy
<1>4. Good(a[0], 0)
  <2>1. SubSeq(bytes, 1, 0) = <<>>
    OBVIOUS
  <2>2. s \o <<>> = s
    BY ConcatEmptySeq
  <2>3. a[0].p = p /\ a[0].n = 0
    BY <1>3
  <2>4. Follows(k, a[0].p, s \o SubSeq(bytes, 1, a[0].n))
    BY <2>1, <2>2, <2>3
  <2> QED BY <2>3, <2>4
<1>5. ASSUME NEW i \in 0..(l - 1), Good(a[i], i) PROVE Good(a[i + 1], i + 1)
  <2>0. i \in Nat /\ i + 1 \in 1..l /\ (i + 1) - 1 = i /\ bytes[i + 1] \in Byte
    BY <1>0
  <2>1. a[i + 1] = Step(k, a[i], bytes[i + 1])
    BY <1>3, <2>0
  <2>2. CASE IsDone(a[i].p)
    <3>1. a[i + 1] = a[i]
      BY <2>1, <2>2 DEF Step
    <3>2. a[i].n \in 0..(i + 1)
      BY <1>5, <2>0
    <3> QED BY <1>5, <2>2, <3>1, <3>2
  <2>3. CASE ~ IsDone(a[i].p)
    <3>1. a[i].n = i /\ Follows(k, a[i].p, s \o SubSeq(bytes, 1, i))
      BY <1>5, <2>3
    <3>2. a[i + 1].p = Feed(k, a[i].p, bytes[i + 1]) /\ a[i + 1].n = i + 1
      BY <2>1, <2>3, <3>1 DEF Step
    <3>3. SubSeq(bytes, 1, i) \in Seq(Byte) /\ s \o SubSeq(bytes, 1, i) \in Seq(Byte)
      <4>1. i \in 0..Len(bytes)
        BY <2>0
      <4>2. SubSeq(bytes, 1, i) \in Seq(Byte)
        BY <4>1, CutAndJoined
      <4> QED BY <4>2, ConcatProperties
    <3>4. Append(s \o SubSeq(bytes, 1, i), bytes[i + 1]) = s \o SubSeq(bytes, 1, i + 1)
      <4>1. SubSeq(bytes, 1, i + 1) = Append(SubSeq(bytes, 1, i), bytes[i + 1])
        BY NextTaken
      <4>2. ASSUME NEW t \in Seq(Byte)
            PROVE  Append(s \o t, bytes[i + 1]) = s \o Append(t, bytes[i + 1])
        BY <2>0, AppendBehind
      <4> QED BY <3>3, <4>1, <4>2
    <3>5. Follows(k, Feed(k, a[i].p, bytes[i + 1]), Append(s \o SubSeq(bytes, 1, i), bytes[i + 1]))
      BY <2>0, <2>3, <3>1, <3>3, FollowsFeed
    <3>6. i + 1 \in 0..(i + 1)
      BY <2>0
    <3> QED BY <3>2, <3>4, <3>5, <3>6
  <2> QED BY <2>2, <2>3
<1>6. Good(a[l], l)
  <2> DEFINE G == {i \in 0..l : Good(a[i], i)}
  <2>1. 0 \in G
    BY <1>0, <1>4
  <2>2. ASSUME NEW i \in 0..(l - 1), i \in G PROVE i + 1 \in G
    <3>1. i + 1 \in 0..l
      BY <1>0
    <3>2. Good(a[i], i)
      BY <2>2
    <3>3. Good(a[i + 1], i + 1)
      BY <1>5, <3>2
    <3> HIDE DEF Good
    <3> QED BY <3>1, <3>3
  <2>3. \A i \in 0..l : i \in G
    <3> HIDE DEF G
    <3> QED BY <1>0, <2>1, <2>2, UpTo
  <2> QED BY <1>0, <2>3
<1> QED BY <1>1, <1>6


-----------------------------------------------------------------------------
(* The inductive invariant: what was taken and what is in the buffer are what
   was received, and the parser is where the grammar says. *)
WireInv ==
  /\ kind \in Kinds
  /\ buff \in Seq(Byte) /\ Taken \in Seq(Byte) /\ fed = Taken \o buff
  /\ Follows(kind, parser, Taken)

LEMMA NewFollows ==
  ASSUME NEW k \in Kinds
  PROVE  Follows(k, New(k), <<>>)
<1> DEFINE p == New(k)
<1>0. <<>> \in Seq(Byte) /\ Len(<<>>) = 0
  BY EmptySeq
<1>1. /\ p.remaining = 0 /\ p.read = 0 /\ p.texts = <<>> /\ p \in Parser
      /\ p.state = IF k = "admin_configbuff" THEN "size_action" ELSE
                   IF k \in {"admin_connect", "auth", "hello", "request"} THEN "version"
                   ELSE "action"
  <2>1. <<>> \in Seq(Seq(Byte)) /\ 0 \in Byte /\ 0 \in Nat
    BY EmptySeq, BytesAreNumbers
  <2>2. "size_action" \in States /\ "version" \in States /\ "action" \in States
    BY StateNames
  <2> QED BY <2>1, <2>2 DEF New, Parser
<1> HIDE DEF p
<1>2. Sound(p)
  <2>1. Sane(p)
    BY <1>1 DEF Sane, Larger
  <2> QED BY <2>1, SaneIsSound
<1>3. ASSUME NEW parts, IsLayout(parts) PROVE Begins(parts, <<>>, 1, p)
  <2>1. Len(parts) \in Nat /\ 0 \in 0..Len(parts) /\ 1 - 1 = 0
    BY <1>3 DEF IsLayout
  <2>2. Ends(parts, <<>>)[0] = 0
    BY <1>0, <1>3, EndOfPart
  <2>3. PayloadsTo(parts, <<>>)[0] = <<>>
    BY <1>0, <1>3, ToldOfPart
  <2>4. Fine(parts, <<>>, 0)
    BY <1>0, <2>1, <2>2 DEF Fine
  <2> QED BY <1>0, <1>1, <2>1, <2>2, <2>3, <2>4 DEF Begins
<1>4. Stand(k, p, <<>>)
  <2>1. CASE k = "admin_connect"
    <3>1. Begins(Layout("admin_connect"), <<>>, 1, p)
      BY <1>3, ConnectParts
    <3>2. StandConnect(<<>>, p)
      BY <1>1, <2>1, <3>1 DEF StandConnect
    <3> QED BY <2>1, <3>2 DEF Stand
  <2>2. CASE k = "admin_get"
    <3>1. Begins(Layout("admin_get"), <<>>, 1, p)
      BY <1>3, GetParts
    <3>2. StandGet(<<>>, p)
      BY <1>1, <2>2, <3>1 DEF StandGet
    <3> QED BY <2>2, <3>2 DEF Stand
  <2>3. CASE k = "admin_put"
    <3>1. Begins(Layout("admin_put"), <<>>, 1, p)
      BY <1>3, PutParts
    <3>2. StandPut(<<>>, p)
      BY <1>1, <2>3, <3>1 DEF StandPut
    <3> QED BY <2>3, <3>2 DEF Stand
  <2>4. CASE k = "admin_edit"
    <3>1. Begins(Layout("admin_edit"), <<>>, 1, p)
      BY <1>3, EditParts
    <3>2. StandEdit(<<>>, p)
      BY <1>1, <2>4, <3>1 DEF StandEdit
    <3> QED BY <2>4, <3>2 DEF Stand
  <2>5. CASE k = "admin_configbuff"
    <3>1. Begins(Layout("admin_configbuff"), <<>>, 1, p)
      BY <1>3, ConfigbuffParts
    <3>2. StandConfigbuff(<<>>, p)
      BY <1>1, <2>5, <3>1 DEF StandConfigbuff
    <3> QED BY <2>5, <3>2 DEF Stand
  <2>6. CASE k = "admin_configstatus"
    <3>1. Begins(Layout("admin_configstatus"), <<>>, 1, p)
      BY <1>3, ConfigstatusParts
    <3>2. StandConfigstatus(<<>>, p)
      BY <1>1, <2>6, <3>1 DEF StandConfigstatus
    <3> QED BY <2>6, <3>2 DEF Stand
  <2>7. CASE k = "admin_delete"
    <3>1. Begins(Layout("admin_delete"), <<>>, 1, p)
      BY <1>3, DeleteParts
    <3>2. StandDelete(<<>>, p)
      BY <1>1, <2>7, <3>1 DEF StandDelete
    <3> QED BY <2>7, <3>2 DEF Stand
  <2>8. CASE k = "hello"
    <3>1. Begins(Layout("hello"), <<>>, 1, p)
      BY <1>3, HelloParts
    <3>2. StandHello(<<>>, p)
      BY <1>1, <2>8, <3>1 DEF StandHello
    <3> QED BY <2>8, <3>2 DEF Stand
  <2>9. CASE k = "auth"
    <3>1. Begins(Layout("auth"), <<>>, 1, p)
      BY <1>3, AuthParts
    <3>2. StandAuth(<<>>, p)
      BY <1>1, <2>9, <3>1 DEF StandAuth
    <3> QED BY <2>9, <3>2 DEF Stand
  <2>10. CASE k = "request"
    <3>1. Begins(Parsed("request"), <<>>, 1, p)
      BY <1>3, RequestParts
    <3>2. StandRequest(<<>>, p)
      BY <1>1, <2>10, <3>1 DEF StandRequest
    <3> QED BY <2>10, <3>2 DEF Stand
  <2> QED BY <2>1, <2>2, <2>3, <2>4, <2>5, <2>6, <2>7, <2>8, <2>9, <2>10, WireAssumption
<1>5. 0..(0 - 1) = {}
  OBVIOUS
<1> QED BY <1>0, <1>2, <1>4, <1>5 DEF Follows, p

LEMMA WireInitInv == Init => WireInv
<1> SUFFICES ASSUME Init PROVE WireInv
  OBVIOUS
<1>1. kind \in Kinds /\ parser = New(kind) /\ buff = <<>> /\ fed = <<>>
  BY DEF Init
<1>2. <<>> \in Seq(Byte) /\ <<>> \o <<>> = <<>>
  BY EmptySeq, ConcatEmptySeq
<1>3. Taken = <<>>
  BY <1>1 DEF Taken
<1>4. Follows(kind, New(kind), <<>>)
  BY <1>1, NewFollows
<1> QED BY <1>1, <1>2, <1>3, <1>4 DEF WireInv

LEMMA WireReceive == WireInv /\ Receive => WireInv'
<1> SUFFICES ASSUME WireInv, Receive PROVE WireInv'
  OBVIOUS
<1> DEFINE t == Taken
<1>1. /\ kind \in Kinds /\ buff \in Seq(Byte) /\ t \in Seq(Byte) /\ fed = t \o buff
      /\ Follows(kind, parser, t)
  BY DEF WireInv
<1>2. PICK b \in Alphabet[kind] : buff' = Append(buff, b) /\ fed' = Append(fed, b)
  BY DEF Receive
<1>3. kind' = kind /\ parser' = parser
  BY DEF Receive
<1>4. b \in Byte
  BY <1>1, <1>2, WireAssumption
<1>5. buff' \in Seq(Byte)
  BY <1>1, <1>2, <1>4, AppendProperties
<1> HIDE DEF t
<1>6. fed' = t \o buff'
  BY <1>1, <1>2, <1>4, AppendBehind
<1>7. Taken' = t
  <2>1. Taken' = SubSeq(fed', 1, Len(fed') - Len(buff'))
    BY DEF Taken
  <2> QED BY <1>1, <1>5, <1>6, <2>1, TakenIs
<1> QED BY <1>1, <1>3, <1>5, <1>6, <1>7 DEF WireInv

LEMMA WireConsume == WireInv /\ Consume => WireInv'
<1> SUFFICES ASSUME WireInv, Consume PROVE WireInv'
  OBVIOUS
<1> DEFINE t == Taken  at == Consumed(kind, parser, buff)
           front == SubSeq(buff, 1, at.n)  back == SubSeq(buff, at.n + 1, Len(buff))
<1>1. /\ kind \in Kinds /\ buff \in Seq(Byte) /\ t \in Seq(Byte) /\ fed = t \o buff
      /\ Follows(kind, parser, t)
  BY DEF WireInv
<1>2. parser' = at.p /\ buff' = back /\ kind' = kind /\ fed' = fed
  BY DEF Consume
<1>3. at.n \in 0..Len(buff) /\ Follows(kind, at.p, t \o front)
  BY <1>1, ConsumedFollows
<1> HIDE DEF at, t
<1>4. front \in Seq(Byte) /\ back \in Seq(Byte) /\ front \o back = buff
  BY <1>1, <1>3, CutAndJoined
<1> HIDE DEF front, back
<1>5. t \o front \in Seq(Byte) /\ fed' = (t \o front) \o buff'
  <2>1. (t \o front) \o back = t \o (front \o back)
    <3>1. t \in Seq(Byte) /\ front \in Seq(Byte) /\ back \in Seq(Byte)
      BY <1>1, <1>4
    <3> QED BY <3>1, ConcatAssociative
  <2>2. t \o front \in Seq(Byte)
    BY <1>1, <1>4, ConcatProperties
  <2> QED BY <1>1, <1>2, <1>4, <2>1, <2>2
<1>6. Taken' = t \o front
  <2>1. Taken' = SubSeq(fed', 1, Len(fed') - Len(buff'))
    BY DEF Taken
  <2> QED BY <1>2, <1>4, <1>5, <2>1, TakenIs
<1> QED BY <1>1, <1>2, <1>3, <1>4, <1>5, <1>6 DEF WireInv

LEMMA WireNextInv == WireInv /\ [Next]_vars => WireInv'
<1>1. WireInv /\ UNCHANGED vars => WireInv'
  BY DEF WireInv, vars, Taken
<1> QED BY <1>1, WireReceive, WireConsume DEF Next

LEMMA WireSpecInv == Spec => []WireInv
BY WireInitInv, WireNextInv, PTL DEF Spec


-----------------------------------------------------------------------------
(* The layout of a request that the header declares and the one its parser goes
   by come to the same, but for the two points at which they are apart. *)
LEMMA RequestEnd ==
  ASSUME NEW parts, IsRequest(parts), NEW s \in Seq(Byte)
  PROVE  /\ Ends(parts, s)[4] = 3 + Size(parts[4], From(s, 3))
         /\ Ends(parts, s)[5] = 3 + Size(parts[4], From(s, 3)) + 2
         /\ Size(parts[4], From(s, 3)) \in Nat
<1>1. IsLayout(parts) /\ parts[5].t = "fixed" /\ parts[5].n = 2 /\ Ends(parts, s)[3] = 3
  BY RequestEnds DEF IsRequest, Fixed
<1>2. ASSUME NEW i \in 1..Len(parts)
      PROVE  Ends(parts, s)[i] = Ends(parts, s)[i - 1] + Size(parts[i], From(s, Ends(parts, s)[i - 1]))
  BY <1>1, EndOfPart
<1>3. 4 \in 1..Len(parts) /\ 5 \in 1..Len(parts) /\ 4 - 1 = 3 /\ 5 - 1 = 4
  BY DEF IsRequest
<1>4. Ends(parts, s)[4] = 3 + Size(parts[4], From(s, 3))
  BY <1>1, <1>2, <1>3
<1>5. Ends(parts, s)[5] = Ends(parts, s)[4] + 2
  <2>1. \A x : Size(parts[5], x) = 2
    BY <1>1 DEF Size
  <2> QED BY <1>2, <1>3, <2>1
<1>6. Size(parts[4], From(s, 3)) \in Nat
  <2>1. From(s, 3) \in Seq(Byte)
    BY FromIsSeq
  <2>2. IsPart(parts[4])
    BY <1>1, <1>3 DEF IsLayout
  <2> QED BY <2>1, <2>2, SizeIsPositive
<1> QED BY <1>4, <1>5, <1>6

(* What makes a request wrong. *)
WrongRequest(parts, s) ==
  \/ Len(s) >= 1 /\ s[1] # 5
  \/ Len(s) >= 2 /\ s[2] \notin parts[2].in
  \/ Len(s) >= 4 /\ s[4] \notin {1, 3, 4}

LEMMA RequestVerdict ==
  ASSUME NEW parts, IsRequest(parts), NEW s \in Seq(Byte)
  PROVE  Verdict(parts, s) =
           IF WrongRequest(parts, s) THEN "error"
           ELSE IF 3 + Size(parts[4], From(s, 3)) + 2 <= Len(s) THEN "done" ELSE "more"
<1> DEFINE e == Ends(parts, s)
           Bad(i) == e[i - 1] < Len(s) /\ Wrong(parts[i], From(s, e[i - 1]))
<1>1. e[0] = 0 /\ e[1] = 1 /\ e[2] = 2 /\ e[3] = 3
  BY RequestEnds
<1>2. Len(s) \in Nat /\ \A i \in 1..Len(s) : s[i] \in Byte
  BY LenProperties, ElementOfSeq
<1>3. \A n \in Nat : n < Len(s) => From(s, n)[1] = s[n + 1]
  BY <1>2, FromFacts
<1>4. /\ parts[1].t = "one" /\ parts[1].in = {5} /\ parts[2].t = "one"
      /\ parts[3].t = "one" /\ parts[3].in = Byte
      /\ parts[4].t = "address" /\ parts[5].t = "fixed" /\ Len(parts) = 5
  BY DEF IsRequest, One, Fixed
<1>5. Verdict(parts, s) =
        IF \E i \in 1..5 : Bad(i) THEN "error" ELSE IF e[5] <= Len(s) THEN "done" ELSE "more"
  BY <1>4 DEF Verdict
<1>6. e[5] = 3 + Size(parts[4], From(s, 3)) + 2
  BY RequestEnd
<1>7. 1 - 1 = 0 /\ 2 - 1 = 1 /\ 3 - 1 = 2 /\ 4 - 1 = 3 /\ 0 + 1 = 1 /\ 1 + 1 = 2 /\ 2 + 1 = 3 /\ 3 + 1 = 4
  OBVIOUS
<1> HIDE DEF e
<1>8. Bad(1) <=> Len(s) >= 1 /\ s[1] # 5
  <2>1. Bad(1) <=> 0 < Len(s) /\ From(s, 0)[1] # 5
    BY <1>1, <1>4, <1>7 DEF Wrong
  <2> QED BY <1>2, <1>3, <1>7, <2>1
<1>9. Bad(2) <=> Len(s) >= 2 /\ s[2] \notin parts[2].in
  <2>1. Bad(2) <=> 1 < Len(s) /\ From(s, 1)[1] \notin parts[2].in
    BY <1>1, <1>4, <1>7 DEF Wrong
  <2> QED BY <1>2, <1>3, <1>7, <2>1
<1>10. ~ Bad(3)
  <2>1. Bad(3) <=> 2 < Len(s) /\ From(s, 2)[1] \notin Byte
    BY <1>1, <1>4, <1>7 DEF Wrong
  <2> QED BY <1>2, <1>3, <1>7, <2>1
<1>11. Bad(4) <=> Len(s) >= 4 /\ s[4] \notin {1, 3, 4}
  <2>1. Bad(4) <=> 3 < Len(s) /\ From(s, 3)[1] \notin {1, 3, 4}
    BY <1>1, <1>4, <1>7 DEF Wrong
  <2> QED BY <1>2, <1>3, <1>7, <2>1
<1>12. ~ Bad(5)
  BY <1>4 DEF Wrong
<1>13. (\E i \in 1..5 : Bad(i)) <=> Bad(1) \/ Bad(2) \/ Bad(3) \/ Bad(4) \/ Bad(5)
  <2>1. 1..5 = {1, 2, 3, 4, 5}
    OBVIOUS
  <2> HIDE DEF Bad
  <2> QED BY <2>1, Zenon
<1>14. (\E i \in 1..5 : Bad(i)) <=> WrongRequest(parts, s)
  <2> HIDE DEF Bad
  <2> QED BY <1>8, <1>9, <1>10, <1>11, <1>12, <1>13 DEF WrongRequest
<1> HIDE DEF Bad
<1> QED BY <1>5, <1>6, <1>14

(* Of two layouts, the end of a request that is not wrong. *)
LEMMA SameEnd ==
  ASSUME NEW s \in Seq(Byte), ~ EmptyName("request", s), Len(s) >= 4 => s[4] \in {1, 3, 4},
         NEW part, NEW other, IsPart(part), IsPart(other), part.t = "address", other.t = "address",
         3 + Size(part, From(s, 3)) + 2 <= Len(s)
  PROVE  Size(other, From(s, 3)) = Size(part, From(s, 3))
<1> DEFINE f == From(s, 3)
<1>1. Len(s) \in Nat /\ f \in Seq(Byte) /\ part.least \in {0, 1} /\ other.least \in {0, 1}
  BY FromIsSeq, LenProperties DEF IsPart
<1>2. Size(part, f) >= 2 /\ Size(part, f) \in Nat
  <2>1. At(f, 2) \in Nat
    BY <1>1, AtIsNumber
  <2>2. Ipv4Len \in Nat \ {0} /\ Ipv6Len \in Nat \ {0}
    BY WireAssumption, BytesAreNumbers
  <2> HIDE DEF f
  <2>3. Larger(part.least, At(f, 2)) \in Nat
    BY <1>1, <2>1 DEF Larger
  <2>4. \/ Size(part, f) = 1 + Ipv4Len
        \/ Size(part, f) = 1 + Ipv6Len
        \/ Size(part, f) = 2 + Larger(part.least, At(f, 2))
    BY DEF Size
  <2> QED BY <2>2, <2>3, <2>4
<1>3. Len(s) >= 5
  BY <1>1, <1>2
<1>4. f[1] = s[4] /\ f[2] = s[5] /\ Len(f) >= 2
  <2>1. 3 \in Nat /\ 3 <= Len(s)
    BY <1>3
  <2>2. Len(f) = Len(s) - 3 /\ \A i \in 1..(Len(s) - 3) : f[i] = s[3 + i]
    BY <2>1, FromFacts
  <2> HIDE DEF f
  <2>3. 1 \in 1..(Len(s) - 3) /\ 2 \in 1..(Len(s) - 3) /\ 3 + 1 = 4 /\ 3 + 2 = 5
    BY <1>1, <1>3
  <2> QED BY <1>1, <1>3, <2>2, <2>3
<1>5. At(f, 1) = s[4] /\ At(f, 2) = s[5] /\ At(f, 2) \in Nat
  <2>1. At(f, 2) \in Nat
    BY <1>1, AtIsNumber
  <2>2. 1 <= Len(f) /\ 2 <= Len(f)
    BY <1>1, <1>4
  <2> QED BY <1>4, <2>1, <2>2 DEF At
<1>6. s[4] \in {1, 3, 4} /\ ~ (s[4] = 3 /\ s[5] = 0)
  <2>1. Len(s) >= 4
    BY <1>1, <1>3
  <2> QED BY <1>3, <2>1 DEF EmptyName
<1> HIDE DEF f
<1>7. \A m \in {0, 1} : \A n \in Nat \ {0} : Larger(m, n) = n
  BY DEF Larger
<1>8. CASE s[4] = 3
  <2>1. Size(part, f) = 2 + Larger(part.least, s[5]) /\ Size(other, f) = 2 + Larger(other.least, s[5])
    BY <1>5, <1>8 DEF Size
  <2>2. s[5] \in Nat \ {0}
    BY <1>5, <1>6, <1>8
  <2>3. Larger(part.least, s[5]) = s[5] /\ Larger(other.least, s[5]) = s[5]
    BY <1>1, <1>7, <2>2
  <2> QED BY <2>1, <2>3 DEF f
<1>9. CASE s[4] = 1
  BY <1>5, <1>9 DEF Size, f
<1>10. CASE s[4] = 4
  BY <1>5, <1>10 DEF Size, f
<1> QED BY <1>6, <1>8, <1>9, <1>10

LEMMA SameVerdict ==
  ASSUME NEW k \in Kinds, NEW s \in Seq(Byte), ~ OtherCommand(k, s), ~ EmptyName(k, s)
  PROVE  Verdict(Layout(k), s) = Verdict(Parsed(k), s)
<1>1. CASE k # "request"
  BY <1>1 DEF Parsed
<1>2. CASE k = "request"
  <2> DEFINE l == Layout("request")  m == Parsed("request")
  <2>1. IsRequest(l) /\ IsRequest(m) /\ l[2].in = {1, 2, 3} /\ m[2].in = {1, 3, 4}
    BY BothRequests DEF Layout, Parsed, One
  <2>2. IsPart(l[4]) /\ IsPart(m[4]) /\ l[4].t = "address" /\ m[4].t = "address"
    <3>1. ASSUME NEW parts, IsRequest(parts) PROVE IsPart(parts[4]) /\ parts[4].t = "address"
      <4>1. 4 \in 1..Len(parts)
        BY <3>1 DEF IsRequest
      <4> QED BY <3>1, <4>1 DEF IsRequest, IsLayout
    <3> QED BY <2>1, <3>1
  <2> HIDE DEF l, m
  <2>3. WrongRequest(l, s) <=> WrongRequest(m, s)
    BY <1>2, <2>1 DEF WrongRequest, OtherCommand
  <2>4. ASSUME ~ WrongRequest(l, s)
        PROVE  3 + Size(l[4], From(s, 3)) + 2 <= Len(s) <=> 3 + Size(m[4], From(s, 3)) + 2 <= Len(s)
    <3>1. Len(s) >= 4 => s[4] \in {1, 3, 4}
      BY <2>4 DEF WrongRequest
    <3>2. ~ EmptyName("request", s)
      BY <1>2
    <3>3. 3 + Size(l[4], From(s, 3)) + 2 <= Len(s) => Size(m[4], From(s, 3)) = Size(l[4], From(s, 3))
      BY <2>2, <3>1, <3>2, SameEnd
    <3>4. 3 + Size(m[4], From(s, 3)) + 2 <= Len(s) => Size(l[4], From(s, 3)) = Size(m[4], From(s, 3))
      BY <2>2, <3>1, <3>2, SameEnd
    <3> QED BY <3>3, <3>4
  <2>5. Verdict(l, s) = IF WrongRequest(l, s) THEN "error"
                        ELSE IF 3 + Size(l[4], From(s, 3)) + 2 <= Len(s) THEN "done" ELSE "more"
    BY <2>1, RequestVerdict
  <2>6. Verdict(m, s) = IF WrongRequest(m, s) THEN "error"
                        ELSE IF 3 + Size(m[4], From(s, 3)) + 2 <= Len(s) THEN "done" ELSE "more"
    BY <2>1, RequestVerdict
  <2>7. Verdict(l, s) = Verdict(m, s)
    BY <2>3, <2>4, <2>5, <2>6
  <2> QED BY <1>2, <2>7 DEF l, m
<1> QED BY <1>1, <1>2

LEMMA RequestPayloads ==
  ASSUME NEW parts, IsRequest(parts), NEW s \in Seq(Byte)
  PROVE  LET e == 3 + Size(parts[4], From(s, 3))
         IN Payloads(parts, s) =
              Append(Append(<<>>, SubSeq(s, 3 + HeadSize(parts[4], From(s, 3)) + 1, e)),
                     SubSeq(s, e + 0 + 1, e + 2))
<1> DEFINE e == Ends(parts, s)  t == PayloadsTo(parts, s)
<1>1. /\ IsLayout(parts) /\ parts[4].t = "address" /\ parts[5].t = "fixed" /\ Len(parts) = 5
      /\ 4 \in 1..Len(parts) /\ 5 \in 1..Len(parts)
  BY DEF IsRequest, Fixed
<1>2. e[3] = 3 /\ t[3] = <<>>
  BY RequestEnds
<1>3. /\ e[4] = 3 + Size(parts[4], From(s, 3)) /\ e[5] = e[4] + 2
  BY RequestEnd
<1>4. ASSUME NEW i \in 1..Len(parts), parts[i].t # "one"
      PROVE  t[i] = Append(t[i - 1], SubSeq(s, e[i - 1] + HeadSize(parts[i], From(s, e[i - 1])) + 1, e[i]))
  BY <1>1, <1>4, ToldOfPart
<1> HIDE DEF e, t
<1>5. t[4] = Append(<<>>, SubSeq(s, 3 + HeadSize(parts[4], From(s, 3)) + 1, e[4]))
  <2>1. 4 - 1 = 3 /\ parts[4].t # "one"
    BY <1>1
  <2> QED BY <1>1, <1>2, <1>4, <2>1
<1>6. t[5] = Append(t[4], SubSeq(s, e[4] + 0 + 1, e[5]))
  <2>1. 5 - 1 = 4 /\ parts[5].t # "one" /\ \A x : HeadSize(parts[5], x) = 0
    BY <1>1 DEF HeadSize
  <2> QED BY <1>1, <1>4, <2>1
<1>7. Payloads(parts, s) = t[5]
  BY <1>1 DEF Payloads, t
<1> QED BY <1>3, <1>5, <1>6, <1>7

LEMMA SamePayloads ==
  ASSUME NEW k \in Kinds, NEW s \in Seq(Byte), ~ EmptyName(k, s), Verdict(Parsed(k), s) = "done"
  PROVE  Payloads(Layout(k), s) = Payloads(Parsed(k), s)
<1>1. CASE k # "request"
  BY <1>1 DEF Parsed
<1>2. CASE k = "request"
  <2> DEFINE l == Layout("request")  m == Parsed("request")
  <2>1. IsRequest(l) /\ IsRequest(m) /\ ~ EmptyName("request", s) /\ Verdict(m, s) = "done"
    BY <1>2, BothRequests
  <2>2. IsPart(l[4]) /\ IsPart(m[4]) /\ l[4].t = "address" /\ m[4].t = "address"
    <3>1. ASSUME NEW parts, IsRequest(parts) PROVE IsPart(parts[4]) /\ parts[4].t = "address"
      <4>1. 4 \in 1..Len(parts)
        BY <3>1 DEF IsRequest
      <4> QED BY <3>1, <4>1 DEF IsRequest, IsLayout
    <3> QED BY <2>1, <3>1
  <2> HIDE DEF l, m
  <2>3. ~ WrongRequest(m, s) /\ 3 + Size(m[4], From(s, 3)) + 2 <= Len(s)
    <3>1. Verdict(m, s) = IF WrongRequest(m, s) THEN "error"
                          ELSE IF 3 + Size(m[4], From(s, 3)) + 2 <= Len(s) THEN "done" ELSE "more"
      BY <2>1, RequestVerdict
    <3> QED BY <2>1, <3>1
  <2>4. Len(s) >= 4 => s[4] \in {1, 3, 4}
    BY <2>3 DEF WrongRequest
  <2>5. Size(l[4], From(s, 3)) = Size(m[4], From(s, 3))
    BY <2>1, <2>2, <2>3, <2>4, SameEnd
  <2>6. \A x : HeadSize(l[4], x) = HeadSize(m[4], x)
    BY <2>2 DEF HeadSize
  <2>7. Payloads(l, s) = Payloads(m, s)
    BY <2>1, <2>5, <2>6, RequestPayloads
  <2> QED BY <1>2, <2>7 DEF l, m
<1> QED BY <1>1, <1>2

(* A message is not at those points earlier than the bytes it begins with. *)
LEMMA PointsKept ==
  ASSUME NEW k, NEW s \in Seq(Byte), NEW n \in 0..Len(s)
  PROVE  /\ OtherCommand(k, SubSeq(s, 1, n)) => OtherCommand(k, s)
         /\ EmptyName(k, SubSeq(s, 1, n)) => EmptyName(k, s)
<1> DEFINE u == SubSeq(s, 1, n)
<1>1. Len(u) = n /\ \A i \in 1..n : u[i] = s[i]
  OBVIOUS
<1>2. Len(s) \in Nat /\ n \in Nat /\ n <= Len(s)
  OBVIOUS
<1> HIDE DEF u
<1>3. OtherCommand(k, u) => OtherCommand(k, s)
  BY <1>1, <1>2 DEF OtherCommand
<1>4. EmptyName(k, u) => EmptyName(k, s)
  BY <1>1, <1>2 DEF EmptyName
<1> QED BY <1>3, <1>4 DEF u

(* The struct of every parser holds numbers of its width and arrays of bytes,
   what was received is what was taken and what waits, and no parser reads past
   the length that it was told: src/parsers, the *_consume functions. *)
THEOREM WireTypeOK == Spec => []TypeOK
<1>1. WireInv => TypeOK
  <2> SUFFICES ASSUME WireInv PROVE TypeOK
    OBVIOUS
  <2>1. /\ kind \in Kinds /\ buff \in Seq(Byte) /\ fed = Taken \o buff
        /\ parser \in Parser /\ parser.read <= Base
        /\ \/ parser.read <= Larger(1, parser.remaining)
           \/ parser.state = "done" /\ parser.remaining = 0 /\ parser.read >= ArraySize
    BY DEF WireInv, Follows, Sound
  <2>2. /\ parser.remaining \in Byte /\ parser.read \in Nat /\ parser.texts \in Seq(Seq(Byte))
    BY <2>1 DEF Parser
  <2>3. parser.read \in 0..Base
    BY <2>1, <2>2, WireAssumption
  <2>4. \A i \in 1..Len(parser.texts) : parser.texts[i] \in Seq(Byte)
    BY <2>2, ElementOfSeq
  <2> QED BY <2>1, <2>2, <2>3, <2>4 DEF TypeOK
<1> QED BY <1>1, WireSpecInv, PTL

(* Wherever recv() cuts a message, every parser comes to the verdict of its
   layout, as soon as the bytes allow one and no later, and takes nothing that
   is behind the message; of requests, those with the command 2 or 4 or an
   empty name are the exception. *)
THEOREM WireVerdictOfGrammar == Spec => []VerdictOfGrammar
<1>1. WireInv => VerdictOfGrammar
  <2> SUFFICES ASSUME WireInv, ~ OtherCommand(kind, Taken), ~ EmptyName(kind, Taken)
               PROVE  /\ Verdict(Layout(kind), Taken) = IF IsDone(parser) THEN parser.state ELSE "more"
                      /\ \A n \in 0..(Len(Taken) - 1) : Verdict(Layout(kind), SubSeq(fed, 1, n)) = "more"
    BY DEF VerdictOfGrammar
  <2>1. /\ kind \in Kinds /\ buff \in Seq(Byte) /\ Taken \in Seq(Byte) /\ fed = Taken \o buff
        /\ Sound(parser) /\ Stand(kind, parser, Taken)
        /\ \A n \in 0..(Len(Taken) - 1) : Verdict(Parsed(kind), SubSeq(Taken, 1, n)) = "more"
    BY DEF WireInv, Follows
  <2>2. Verdict(Layout(kind), Taken) = IF IsDone(parser) THEN parser.state ELSE "more"
    <3>1. Told(Parsed(kind), Taken, parser)
      BY <2>1, StandTold
    <3>2. Verdict(Layout(kind), Taken) = Verdict(Parsed(kind), Taken)
      BY <2>1, SameVerdict
    <3> QED BY <3>1, <3>2 DEF Told, IsDone
  <2>3. ASSUME NEW n \in 0..(Len(Taken) - 1) PROVE SubSeq(fed, 1, n) = SubSeq(Taken, 1, n)
    <3> DEFINE t == Taken  u == SubSeq(fed, 1, n)  v == SubSeq(t, 1, n)
    <3>1. t \in Seq(Byte) /\ fed = t \o buff /\ n \in 0..(Len(t) - 1)
      BY <2>1, <2>3
    <3> HIDE DEF t
    <3>2. fed \in Seq(Byte) /\ Len(fed) = Len(t) + Len(buff) /\ Len(t) \in Nat /\ Len(buff) \in Nat
          /\ \A i \in 1..Len(t) : fed[i] = t[i]
      BY <2>1, <3>1, ConcatProperties
    <3>3. u \in Seq(Byte) /\ Len(u) = n /\ \A i \in 1..n : u[i] = fed[i]
      BY <3>1, <3>2
    <3>4. v \in Seq(Byte) /\ Len(v) = n /\ \A i \in 1..n : v[i] = t[i]
      BY <3>1, <3>2
    <3> HIDE DEF u, v
    <3>5. \A i \in 1..n : i \in 1..Len(t)
      BY <3>1, <3>2
    <3>6. u = v
      BY <3>2, <3>3, <3>4, <3>5, SeqEqual
    <3> QED BY <3>6 DEF u, v, t
  <2>4. ASSUME NEW n \in 0..(Len(Taken) - 1)
        PROVE  Verdict(Layout(kind), SubSeq(Taken, 1, n)) = "more"
    <3> DEFINE t == Taken  u == SubSeq(t, 1, n)
    <3>1. t \in Seq(Byte) /\ n \in 0..(Len(t) - 1)
      BY <2>1, <2>4
    <3>2. ~ OtherCommand(kind, t) /\ ~ EmptyName(kind, t)
      OBVIOUS
    <3>3. Verdict(Parsed(kind), u) = "more"
      BY <2>1, <2>4
    <3> HIDE DEF t
    <3>4. n \in 0..Len(t) /\ u \in Seq(Byte)
      BY <3>1
    <3>5. ~ OtherCommand(kind, u) /\ ~ EmptyName(kind, u)
      BY <3>1, <3>2, <3>4, PointsKept
    <3> HIDE DEF u
    <3>6. Verdict(Layout(kind), u) = "more"
      BY <2>1, <3>3, <3>4, <3>5, SameVerdict
    <3> QED BY <3>6 DEF u, t
  <2> QED BY <2>2, <2>3, <2>4
<1> QED BY <1>1, WireSpecInv, PTL

(* Every array that a whole message leaves is a payload of it, from its first
   byte to its last, but for an empty name: src/parsers, remaining_set and the
   arrays they fill. *)
THEOREM WirePayloadsKept == Spec => []PayloadsKept
<1>1. WireInv => PayloadsKept
  <2> SUFFICES ASSUME WireInv, parser.state = "done", ~ EmptyName(kind, Taken)
               PROVE  parser.texts = Payloads(Layout(kind), Taken)
    BY DEF PayloadsKept
  <2>1. /\ kind \in Kinds /\ Taken \in Seq(Byte) /\ Sound(parser) /\ Stand(kind, parser, Taken)
    BY DEF WireInv, Follows
  <2>2. Told(Parsed(kind), Taken, parser)
    BY <2>1, StandTold
  <2>3. Verdict(Parsed(kind), Taken) = "done" /\ parser.texts = Payloads(Parsed(kind), Taken)
    BY <2>2 DEF Told, IsDone
  <2> QED BY <2>1, <2>3, SamePayloads
<1> QED BY <1>1, WireSpecInv, PTL


-----------------------------------------------------------------------------
(* A request that is whole: its destination and its port. *)
LEMMA RequestWhole ==
  ASSUME NEW s \in Seq(Byte), NEW p, p.state = "done", StandRequest(s, p)
  PROVE  \E e \in 5..Len(s) :
           /\ e + 2 = Len(s) /\ p.atyp = s[4] /\ p.texts[2] = SubSeq(s, e + 1, Len(s))
           /\ p.texts[1] = IF s[4] = 3 THEN SubSeq(s, 6, e) ELSE SubSeq(s, 5, e)
           /\ s[4] = 3 => e = 5 + Larger(1, s[5])
<1> DEFINE parts == Parsed("request")  e == Ends(parts, s)  t == PayloadsTo(parts, s)  f == From(s, 3)
<1>0. /\ IsLayout(parts) /\ parts[4] = Address(1) /\ parts[5] = Fixed(2)
      /\ 4 \in 1..Len(parts) /\ 5 \in 1..Len(parts) /\ 5 \in 0..Len(parts)
      /\ parts[4].t = "address" /\ parts[4].least = 1 /\ parts[5].t = "fixed" /\ parts[5].n = 2
  BY RequestParts DEF Address, Fixed
<1>1. e[3] = 3 /\ t[3] = <<>>
  BY RequestAddress
<1>2. Begins(parts, s, 6, p) /\ Asked(s, p)
  BY DEF StandRequest
<1> HIDE DEF parts
<1>3. Fine(parts, s, 5) /\ e[5] = Len(s) /\ p.texts = t[5]
  <2>1. 6 - 1 = 5
    OBVIOUS
  <2> QED BY <1>2, <2>1 DEF Begins
<1>4. Len(s) \in Nat /\ Len(s) >= 4 /\ p.atyp = s[4]
  BY <1>2 DEF Asked
<1>5. f \in Seq(Byte) /\ Len(f) = Len(s) - 3 /\ \A i \in 1..(Len(s) - 3) : f[i] = s[3 + i]
  <2>1. 3 \in Nat /\ 3 <= Len(s)
    BY <1>4
  <2> QED BY <2>1, FromFacts
<1>6. f[1] = s[4] /\ Len(f) >= 1 /\ (Len(s) >= 5 => f[2] = s[5])
  BY <1>4, <1>5
<1>7. e[4] = 3 + Size(parts[4], f) /\ ~ Wrong(parts[4], f)
      /\ t[4] = Append(<<>>, SubSeq(s, 3 + HeadSize(parts[4], f) + 1, e[4]))
  <2>1. ASSUME NEW i \in 1..Len(parts), i = 4
        PROVE  /\ e[i] = e[i - 1] + Size(parts[i], From(s, e[i - 1]))
               /\ ~ Wrong(parts[i], From(s, e[i - 1]))
               /\ t[i] = Append(t[i - 1], SubSeq(s, e[i - 1] + HeadSize(parts[i], From(s, e[i - 1])) + 1, e[i]))
    <3>1. e[i] = e[i - 1] + Size(parts[i], From(s, e[i - 1]))
      BY <1>0, EndOfPart
    <3>2. i \in 1..5
      BY <2>1
    <3>3. ~ Wrong(parts[i], From(s, e[i - 1]))
      BY <1>3, <3>2 DEF Fine
    <3>4. t[i] = Append(t[i - 1], SubSeq(s, e[i - 1] + HeadSize(parts[i], From(s, e[i - 1])) + 1, e[i]))
      <4>1. parts[i].t # "one"
        BY <1>0, <2>1
      <4> QED BY <1>0, <4>1, ToldOfPart
    <3> QED BY <3>1, <3>3, <3>4
  <2> HIDE DEF e, t
  <2>2. 4 - 1 = 3
    OBVIOUS
  <2> QED BY <1>0, <1>1, <2>1, <2>2
<1>8. e[5] = e[4] + 2 /\ t[5] = Append(t[4], SubSeq(s, e[4] + 0 + 1, e[5]))
  <2>1. ASSUME NEW i \in 1..Len(parts), i = 5
        PROVE  /\ e[i] = e[i - 1] + Size(parts[i], From(s, e[i - 1]))
               /\ t[i] = Append(t[i - 1], SubSeq(s, e[i - 1] + HeadSize(parts[i], From(s, e[i - 1])) + 1, e[i]))
    <3>1. e[i] = e[i - 1] + Size(parts[i], From(s, e[i - 1]))
      BY <1>0, EndOfPart
    <3>2. parts[i].t # "one"
      BY <1>0, <2>1
    <3> QED BY <1>0, <3>1, <3>2, ToldOfPart
  <2> HIDE DEF e, t
  <2>2. \A x : Size(parts[5], x) = 2 /\ HeadSize(parts[5], x) = 0
    BY <1>0 DEF Size, HeadSize
  <2>3. 5 - 1 = 4
    OBVIOUS
  <2> QED BY <1>0, <2>1, <2>2, <2>3
<1>9. e[4] \in Nat
  <2>1. 4 \in 0..Len(parts)
    BY <1>0
  <2> QED BY <1>0, <2>1, EndOfPart
<1> HIDE DEF e, t, f
<1>10. e[4] + 2 = Len(s)
  BY <1>3, <1>8
<1>11. s[4] \in {1, 3, 4}
  BY <1>0, <1>6, <1>7 DEF Wrong
<1>12. At(f, 1) = s[4]
  BY <1>6 DEF At
<1>13. CASE s[4] = 3
  <2>1. Size(parts[4], f) = 2 + Larger(1, At(f, 2)) /\ HeadSize(parts[4], f) = 2
    BY <1>0, <1>6, <1>12, <1>13 DEF Size, HeadSize
  <2>2. At(f, 2) \in Nat
    BY <1>5, AtIsNumber
  <2>3. Larger(1, At(f, 2)) \in Nat \ {0}
    BY <2>2 DEF Larger
  <2>4. e[4] >= 6 /\ Len(s) >= 5 /\ Len(f) >= 2
    BY <1>4, <1>5, <1>7, <1>9, <1>10, <2>1, <2>3
  <2>5. At(f, 2) = s[5]
    BY <1>6, <2>4 DEF At
  <2>6. t[4] = Append(<<>>, SubSeq(s, 6, e[4])) /\ e[4] = 5 + Larger(1, s[5])
    BY <1>7, <2>1, <2>3, <2>5
  <2> DEFINE x == SubSeq(s, 6, e[4])  y == SubSeq(s, e[4] + 1, Len(s))
  <2>7. p.texts = Append(Append(<<>>, x), y)
    <3>1. e[4] + 0 + 1 = e[4] + 1
      BY <1>9
    <3> QED BY <1>3, <1>8, <2>6, <3>1
  <2>8. x \in Seq(Byte) /\ y \in Seq(Byte)
    BY <1>9, <1>10, <2>4
  <2> HIDE DEF x, y
  <2>9. p.texts[1] = x /\ p.texts[2] = y
    BY <2>7, <2>8
  <2>10. e[4] \in 5..Len(s)
    BY <1>9, <1>10, <2>4
  <2> QED BY <1>4, <1>10, <1>13, <2>6, <2>9, <2>10 DEF x, y
<1>14. CASE s[4] \in {1, 4}
  <2>1. Size(parts[4], f) \in {1 + Ipv4Len, 1 + Ipv6Len} /\ HeadSize(parts[4], f) = 1
    BY <1>0, <1>6, <1>12, <1>14 DEF Size, HeadSize
  <2>2. Ipv4Len \in Nat \ {0} /\ Ipv6Len \in Nat \ {0}
    BY WireAssumption, BytesAreNumbers
  <2>4. e[4] >= 5
    BY <1>7, <1>9, <2>1, <2>2
  <2>6. t[4] = Append(<<>>, SubSeq(s, 5, e[4]))
    BY <1>7, <2>1
  <2> DEFINE x == SubSeq(s, 5, e[4])  y == SubSeq(s, e[4] + 1, Len(s))
  <2>7. p.texts = Append(Append(<<>>, x), y)
    <3>1. e[4] + 0 + 1 = e[4] + 1
      BY <1>9
    <3> QED BY <1>3, <1>8, <2>6, <3>1
  <2>8. x \in Seq(Byte) /\ y \in Seq(Byte)
    BY <1>9, <1>10, <2>4
  <2> HIDE DEF x, y
  <2>9. p.texts[1] = x /\ p.texts[2] = y
    BY <2>7, <2>8
  <2>10. e[4] \in 5..Len(s)
    BY <1>9, <1>10, <2>4
  <2>11. /\ e[4] + 2 = Len(s) /\ p.atyp = s[4] /\ p.texts[2] = SubSeq(s, e[4] + 1, Len(s))
         /\ p.texts[1] = IF s[4] = 3 THEN SubSeq(s, 6, e[4]) ELSE SubSeq(s, 5, e[4])
         /\ s[4] = 3 => e[4] = 5 + Larger(1, s[5])
    <3>1. s[4] # 3
      BY <1>14
    <3>2. p.texts[1] = SubSeq(s, 5, e[4]) /\ p.texts[2] = SubSeq(s, e[4] + 1, Len(s))
      BY <2>9 DEF x, y
    <3> QED BY <1>4, <1>10, <3>1, <3>2
  <2> QED BY <2>10, <2>11
<1> QED BY <1>11, <1>13, <1>14


LEMMA FourBytes ==
  ASSUME NEW w \in Byte, NEW x \in Byte, NEW y \in Byte, NEW z \in Byte
  PROVE  <<w, x, y, z>> = <<w, x, y>> \o <<z>>
<1> DEFINE a == <<w, x, y>>  l == <<z>>  u == a \o l  v == <<w, x, y, z>>
<1>1. a \in Seq(Byte) /\ Len(a) = 3 /\ a[1] = w /\ a[2] = x /\ a[3] = y
  OBVIOUS
<1>2. v \in Seq(Byte) /\ Len(v) = 4 /\ v[1] = w /\ v[2] = x /\ v[3] = y /\ v[4] = z
  OBVIOUS
<1>3. l \in Seq(Byte) /\ Len(l) = 1 /\ l[1] = z
  OBVIOUS
<1> HIDE DEF a, v, l
<1>4. /\ u \in Seq(Byte) /\ Len(u) = Len(a) + Len(l)
      /\ \A i \in 1..(Len(a) + Len(l)) : u[i] = IF i <= Len(a) THEN a[i] ELSE l[i - Len(a)]
  BY <1>1, <1>3, ConcatProperties
<1> HIDE DEF u
<1>5. u[1] = w /\ u[2] = x /\ u[3] = y /\ u[4] = z /\ Len(u) = 4
  BY <1>1, <1>3, <1>4
<1>6. \A i \in 1..Len(u) : u[i] = v[i]
  BY <1>2, <1>5
<1>7. u = v
  BY <1>2, <1>4, <1>5, <1>6, SeqEqual
<1> QED BY <1>7 DEF a, l, u, v

LEMMA JoinedAsOne ==
  ASSUME NEW a \in Seq(Byte), NEW b \in Seq(Byte), NEW c \in Seq(Byte)
  PROVE  (a \o b) \o c = a \o (b \o c)
BY ConcatAssociative

LEMMA ReplyOfRequest ==
  ASSUME NEW s \in Seq(Byte), NEW p
  PROVE  p.state = "done" /\ StandRequest(s, p)
           /\ (p.atyp = 3 => s[5] > 0 /\ \A i \in 1..Len(p.texts[1]) : p.texts[1][i] # 0)
         => RequestReply(p, 0) = <<5, 0, 0>> \o SubSeq(s, 4, Len(s))
<1>1. SUFFICES ASSUME p.state = "done", StandRequest(s, p),
                      p.atyp = 3 => s[5] > 0 /\ \A i \in 1..Len(p.texts[1]) : p.texts[1][i] # 0
               PROVE  RequestReply(p, 0) = <<5, 0, 0>> \o SubSeq(s, 4, Len(s))
  OBVIOUS
<1>2. PICK e \in 5..Len(s) :
         /\ e + 2 = Len(s) /\ p.atyp = s[4] /\ p.texts[2] = SubSeq(s, e + 1, Len(s))
         /\ p.texts[1] = IF s[4] = 3 THEN SubSeq(s, 6, e) ELSE SubSeq(s, 5, e)
         /\ s[4] = 3 => e = 5 + Larger(1, s[5])
  BY <1>1, RequestWhole
<1> DEFINE addr == p.texts[1]  name == SubSeq(addr, 1, Strlen(addr))
           mid == IF p.atyp = 3 THEN <<Len(name)>> \o name ELSE addr
           port == SubSeq(s, e + 1, Len(s))
<1>3. RequestReply(p, 0) = <<5, 0, 0, s[4]>> \o mid \o port
  BY <1>2 DEF RequestReply
<1>4. mid = SubSeq(s, 5, e)
  <2>1. CASE s[4] = 3
    <3>1. addr = SubSeq(s, 6, e) /\ e = 5 + Larger(1, s[5]) /\ s[5] > 0
          /\ \A i \in 1..Len(addr) : addr[i] # 0
      BY <1>1, <1>2, <2>1
    <3>2. s[5] \in Nat /\ e = 5 + s[5]
      <4>1. 5 \in 1..Len(s)
        BY <1>1, <1>2
      <4>2. s[5] \in Nat
        BY <1>1, <4>1, ElementOfSeq, BytesAreNumbers
      <4> QED BY <3>1, <4>2 DEF Larger
    <3> HIDE DEF addr
    <3>3. addr \in Seq(Byte) /\ Len(addr) = s[5]
      <4>0. s \in Seq(Byte) /\ e \in Nat /\ e <= Len(s)
        BY <1>1, <1>2
      <4> DEFINE y == s[5]
      <4>3. y \in Nat /\ y > 0 /\ e = 5 + y
        BY <3>1, <3>2
      <4> HIDE DEF y
      <4>4. 6 <= e /\ (e - 6) + 1 = y
        BY <4>3
      <4>1. s \in Seq(Byte) /\ e \in Nat /\ 6 <= e /\ e <= Len(s) /\ (e - 6) + 1 = s[5]
        BY <4>0, <4>4 DEF y
      <4>2. SubSeq(s, 6, e) \in Seq(Byte) /\ Len(SubSeq(s, 6, e)) = (e - 6) + 1
        BY <4>1
      <4> QED BY <3>1, <4>1, <4>2
    <3>4. Strlen(addr) = Len(addr)
      BY <3>1 DEF Strlen
    <3>5. name = addr
      BY <3>3, <3>4, SubSeqFull
    <3>6. mid = <<s[5]>> \o SubSeq(s, 6, e)
      BY <1>2, <2>1, <3>1, <3>3, <3>5
    <3>7. 5 \in 1..Len(s) /\ e \in 5..Len(s) /\ 5 + 1 = 6
      BY <1>1, <1>2
    <3>8. SubSeq(s, 5, e) = <<s[5]>> \o SubSeq(s, 5 + 1, e)
      BY <1>1, <3>7, SubSeqRecursiveFirst
    <3> QED BY <3>6, <3>7, <3>8
  <2>2. CASE s[4] # 3
    BY <1>2, <2>2
  <2> QED BY <2>1, <2>2
<1> HIDE DEF mid, port, addr, name
<1>5. SubSeq(s, 4, Len(s)) = <<s[4]>> \o SubSeq(s, 5, Len(s))
  <2>1. 4 \in 1..Len(s) /\ Len(s) \in 4..Len(s) /\ 4 + 1 = 5
    BY <1>1, <1>2
  <2>2. SubSeq(s, 4, Len(s)) = <<s[4]>> \o SubSeq(s, 4 + 1, Len(s))
    BY <1>1, <2>1, SubSeqRecursiveFirst
  <2> QED BY <2>1, <2>2
<1>6. SubSeq(s, 5, e) \o port = SubSeq(s, 5, Len(s))
  <2>1. 5 \in 1..(Len(s) + 1) /\ e \in (5 - 1)..Len(s) /\ Len(s) \in e..Len(s)
    BY <1>1, <1>2
  <2> QED BY <1>1, <2>1, ConcatAdjacentSubSeq DEF port
<1>7. s[4] \in Byte /\ SubSeq(s, 5, e) \in Seq(Byte) /\ port \in Seq(Byte)
  BY <1>1, <1>2 DEF port
<1> DEFINE a == <<5, 0, 0>>  c == <<s[4]>>  d == <<5, 0, 0, s[4]>>  x == SubSeq(s, 5, e)
           rest == SubSeq(s, 5, Len(s))
<1>8. a \in Seq(Byte) /\ c \in Seq(Byte) /\ d \in Seq(Byte) /\ d = a \o c
  <2>1. 0 \in Byte /\ 5 \in Byte
    BY BytesAreNumbers
  <2>2. a \in Seq(Byte) /\ c \in Seq(Byte) /\ d \in Seq(Byte)
    BY <1>7, <2>1
  <2>3. d = a \o c
    BY <1>7, <2>1, FourBytes
  <2> QED BY <2>2, <2>3
<1>9. x \in Seq(Byte) /\ port \in Seq(Byte) /\ rest \in Seq(Byte) /\ x \o port = rest
      /\ SubSeq(s, 4, Len(s)) = c \o rest /\ RequestReply(p, 0) = (d \o x) \o port
  <2>1. rest \in Seq(Byte)
    OBVIOUS
  <2> QED BY <1>3, <1>4, <1>5, <1>6, <1>7, <2>1
<1> HIDE DEF a, c, d, x, rest
<1>10. (d \o x) \o port = d \o rest
  <2>1. d \in Seq(Byte) /\ x \in Seq(Byte) /\ port \in Seq(Byte)
    BY <1>8, <1>9
  <2>2. (d \o x) \o port = d \o (x \o port)
    BY <2>1, JoinedAsOne
  <2> QED BY <1>9, <2>2
<1>11. d \o rest = a \o (c \o rest)
  <2>1. a \in Seq(Byte) /\ c \in Seq(Byte) /\ rest \in Seq(Byte)
    BY <1>8, <1>9
  <2>2. (a \o c) \o rest = a \o (c \o rest)
    BY <2>1, JoinedAsOne
  <2> QED BY <1>8, <2>2
<1> QED BY <1>9, <1>10, <1>11 DEF a

(* The reply to a request has the address and the port of the request, byte for
   byte, whenever strlen() finds the end of the name where it is:
   request_marshalll of src/parsers/request.c. *)
THEOREM WireReplyEchoes == Spec => []ReplyEchoes
<1>1. WireInv => ReplyEchoes
  <2> SUFFICES ASSUME WireInv, kind = "request" PROVE ReplyEchoes
    BY DEF ReplyEchoes
  <2>1. Taken \in Seq(Byte) /\ StandRequest(Taken, parser)
    BY DEF WireInv, Follows, Stand
  <2> QED BY <2>1, ReplyOfRequest DEF ReplyEchoes
<1> QED BY <1>1, WireSpecInv, PTL


-----------------------------------------------------------------------------
(* Four bytes, the highest first, and the number they make. *)
LEMMA DivMod ==
  ASSUME NEW m \in Nat, m > 0, NEW q \in Int, NEW r \in Nat, r < m, NEW n, n = r + m * q
  PROVE  n \div m = q /\ n % m = r
OBVIOUS

LEMMA LessThanProduct ==
  ASSUME NEW m \in Nat, NEW k \in Nat, NEW r \in Nat, NEW q \in Nat, r < m, q < k
  PROVE  r + m * q \in Nat /\ r + m * q < m * k
OBVIOUS

HasDigits(n, B, a, b, c, d) ==
  /\ n \in Nat /\ n < B * B * B * B
  /\ n \div (B * B * B) % B = a /\ n \div (B * B) % B = b /\ n \div B % B = c /\ n % B = d
  /\ \A h \in Nat : n < (B * B * B) * h <=> a < h

LEMMA Digits ==
  ASSUME NEW B \in Nat, B > 0, NEW a \in Nat, NEW b \in Nat, NEW c \in Nat, NEW d \in Nat,
         a < B, b < B, c < B, d < B
  PROVE  HasDigits(d + B * (c + B * (b + B * a)), B, a, b, c, d)
<1> DEFINE n == d + B * (c + B * (b + B * a))  u == b + B * a  v == c + B * u
           C == B * B  D == B * B * B  x == d + B * c  y == x + C * b
<1>1. u \in Nat /\ v \in Nat /\ n \in Nat /\ n = d + B * v
  OBVIOUS
<1>2. C \in Nat /\ C > 0 /\ D \in Nat /\ D > 0 /\ C * B = D /\ D * B = B * B * B * B
  OBVIOUS
<1>3. n = x + C * u
  OBVIOUS
<1>4. n = y + D * a
  OBVIOUS
<1>5. x \in Nat /\ x < C
  BY LessThanProduct
<1>6. y \in Nat /\ y < D
  <2>1. x \in Nat /\ x < C /\ C \in Nat
    BY <1>2, <1>5
  <2> HIDE DEF x, C
  <2>2. y \in Nat /\ y < C * B
    BY <2>1, LessThanProduct
  <2> QED BY <1>2, <2>2
<1>7. v % B = c /\ u % B = b /\ a % B = a
  <2>1. u % B = b
    BY DivMod
  <2>2. v % B = c
    <3> HIDE DEF u
    <3> QED BY <1>1, DivMod
  <2>3. a = a + B * 0
    OBVIOUS
  <2>4. a % B = a
    BY <2>3, DivMod
  <2> QED BY <2>1, <2>2, <2>4
<1> HIDE DEF n, u, v, C, D, x, y
<1>8. n \div B = v /\ n % B = d
  <2>1. v \in Int /\ n = d + B * v
    BY <1>1
  <2> QED BY <2>1, DivMod
<1>9. n \div C = u
  <2>1. u \in Int /\ x \in Nat /\ x < C /\ C \in Nat /\ C > 0 /\ n = x + C * u
    BY <1>1, <1>2, <1>3, <1>5
  <2> QED BY <2>1, DivMod
<1>10. n \div D = a
  <2>1. a \in Int /\ y \in Nat /\ y < D /\ D \in Nat /\ D > 0 /\ n = y + D * a
    BY <1>2, <1>4, <1>6
  <2> QED BY <2>1, DivMod
<1>11. ASSUME NEW h \in Nat PROVE n < D * h <=> a < h
  <2>1. D \in Nat /\ y \in Nat /\ y < D /\ n = y + D * a
    BY <1>2, <1>4, <1>6
  <2>2. ASSUME a < h PROVE n < D * h
    BY <2>1, <2>2, LessThanProduct
  <2>3. ASSUME ~ (a < h) PROVE ~ (n < D * h)
    <3>1. \E k \in Nat : a = h + k
      <4>1. a - h \in Nat /\ a = h + (a - h)
        BY <2>3
      <4> QED BY <4>1
    <3>2. PICK k \in Nat : a = h + k
      BY <3>1
    <3>3. D * a = D * h + D * k /\ D * h \in Nat /\ D * k \in Nat
      BY <2>1, <3>2
    <3> QED BY <2>1, <3>3
  <2> QED BY <2>2, <2>3
<1>12. n < D * B
  BY <1>11
<1>13. HasDigits(n, B, a, b, c, d)
  BY <1>1, <1>2, <1>7, <1>8, <1>9, <1>10, <1>11, <1>12 DEF HasDigits, C, D
<1> QED BY <1>13 DEF n, u, v


(* The number is read back in the four bytes that made it, and it is not
   positive just when the first of them is high or all of them are zero. *)
LEMMA NumberIsRead ==
  ASSUME NEW w \in Seq(Byte), Len(w) = 4
  PROVE  /\ NumToFourBytes(FourBytesToNum(w)) = w
         /\ FourBytesToNum(w) <= 0 <=> w[1] >= Base \div 2 \/ \A i \in 1..4 : w[i] = 0
<1> DEFINE a == w[1]  b == w[2]  c == w[3]  d == w[4]  D == Base * Base * Base
           n == d + Base * (c + Base * (b + Base * a))  size == FourBytesToNum(w)
<1>0. a \in Byte /\ b \in Byte /\ c \in Byte /\ d \in Byte
  <2>1. 1 \in 1..Len(w) /\ 2 \in 1..Len(w) /\ 3 \in 1..Len(w) /\ 4 \in 1..Len(w)
    OBVIOUS
  <2> QED BY <2>1, ElementOfSeq
<1>1. /\ Base \in Nat /\ Base > 0 /\ Base % 2 = 0
      /\ a \in Nat /\ a < Base /\ b \in Nat /\ b < Base
      /\ c \in Nat /\ c < Base /\ d \in Nat /\ d < Base
  BY <1>0, WireAssumption DEF Byte
<1>2. size = IF n < Wide \div 2 THEN n ELSE n - Wide
  BY DEF FourBytesToNum
<1>3. LET u == size % Wide
      IN NumToFourBytes(size) = <<u \div D % Base, u \div (Base * Base) % Base, u \div Base % Base, u % Base>>
  <2> HIDE DEF size
  <2> QED BY DEF NumToFourBytes
<1>4. w[1] = a /\ w[2] = b /\ w[3] = c /\ w[4] = d
  OBVIOUS
<1> HIDE DEF a, b, c, d
<1>5. /\ n \in Nat /\ n < Wide
      /\ n \div D % Base = a /\ n \div (Base * Base) % Base = b
      /\ n \div Base % Base = c /\ n % Base = d
      /\ \A h \in Nat : n < D * h <=> a < h
  <2>1. HasDigits(n, Base, a, b, c, d)
    BY <1>1, Digits
  <2> HIDE DEF n
  <2> QED BY <2>1 DEF HasDigits, Wide
<1>6. Wide \in Nat /\ Wide = D * Base /\ D \in Nat
  BY <1>1 DEF Wide
<1>7. n = 0 <=> a = 0 /\ b = 0 /\ c = 0 /\ d = 0
  <2>1. ASSUME n = 0 PROVE a = 0 /\ b = 0 /\ c = 0 /\ d = 0
    <3>1. 0 \div D % Base = a /\ 0 \div (Base * Base) % Base = b /\ 0 \div Base % Base = c /\ 0 % Base = d
      BY <1>5, <2>1
    <3>2. D \in Nat /\ D > 0 /\ Base * Base \in Nat /\ Base * Base > 0
      BY <1>1
    <3>3. \A m \in Nat : m > 0 => 0 \div m = 0 /\ 0 % m = 0
      OBVIOUS
    <3> HIDE DEF D
    <3> QED BY <1>1, <3>1, <3>2, <3>3
  <2>2. ASSUME a = 0, b = 0, c = 0, d = 0 PROVE n = 0
    BY <1>1, <2>2
  <2> QED BY <2>1, <2>2
<1> HIDE DEF n, size, D
<1>8. size % Wide = n
  <2>1. Wide > 0
    BY <1>5, <1>6
  <2>2. n - Wide = n + Wide * (-1)
    BY <1>5, <1>6
  <2>3. n % Wide = n
    <3>1. \A m, x \in Nat : x < m => x % m = x
      OBVIOUS
    <3> QED BY <1>5, <1>6, <3>1
  <2>4. (n - Wide) % Wide = n
    <3>1. Wide \in Nat /\ Wide > 0 /\ -1 \in Int /\ n \in Nat /\ n < Wide /\ n - Wide = n + Wide * (-1)
      BY <1>5, <1>6, <2>1, <2>2
    <3> QED BY <3>1, DivMod
  <2> QED BY <1>2, <2>3, <2>4
<1>9. NumToFourBytes(size) = w
  <2> DEFINE v == NumToFourBytes(size)
  <2>1. v = <<a, b, c, d>>
    BY <1>3, <1>5, <1>8
  <2> HIDE DEF v
  <2>2. v \in Seq(Byte) /\ Len(v) = 4 /\ v[1] = a /\ v[2] = b /\ v[3] = c /\ v[4] = d
    BY <1>0, <2>1
  <2>3. \A i \in 1..Len(v) : v[i] = w[i]
    BY <1>4, <2>2
  <2>4. v = w
    BY <2>2, <2>3, SeqEqual
  <2> QED BY <2>4 DEF v
<1>10. n < Wide \div 2 <=> a < Base \div 2
  <2>1. PICK h \in Nat : Base = 2 * h
    <3>1. Base = 2 * (Base \div 2) /\ Base \div 2 \in Nat
      BY <1>1
    <3> QED BY <3>1
  <2>2. Base \div 2 = h
    BY <2>1
  <2>3. Wide = 2 * (D * h) /\ D * h \in Nat
    BY <1>6, <2>1
  <2>4. Wide \div 2 = D * h
    BY <2>3
  <2> QED BY <1>5, <2>2, <2>4
<1>11. size <= 0 <=> a >= Base \div 2 \/ n = 0
  <2>0. Base \div 2 \in Int
    BY <1>1
  <2>1. CASE n < Wide \div 2
    <3>1. size = n /\ ~ (a >= Base \div 2)
      BY <1>1, <1>2, <1>10, <2>0, <2>1
    <3> QED BY <1>5, <3>1
  <2>2. CASE ~ (n < Wide \div 2)
    <3>1. size = n - Wide /\ a >= Base \div 2
      BY <1>1, <1>2, <1>10, <2>0, <2>2
    <3>2. n - Wide <= 0
      BY <1>5, <1>6
    <3> QED BY <3>1, <3>2
  <2> QED BY <2>1, <2>2
<1>12. n = 0 <=> \A i \in 1..4 : w[i] = 0
  <2>1. 1..4 = {1, 2, 3, 4}
    OBVIOUS
  <2> QED BY <1>4, <1>7, <2>1
<1> QED BY <1>4, <1>9, <1>11, <1>12 DEF size

LEMMA SubSeqOfBytes ==
  ASSUME NEW s \in Seq(Byte), Len(s) = 5
  PROVE  /\ SubSeq(s, 2, 5) \in Seq(Byte) /\ Len(SubSeq(s, 2, 5)) = 4
         /\ \A i \in 1..4 : SubSeq(s, 2, 5)[i] = s[i + 1]
<1>1. ASSUME NEW i \in 2..5 PROVE s[i] \in Byte
  <2>1. i \in 1..Len(s)
    BY <1>1
  <2> QED BY <2>1, ElementOfSeq
<1>2. /\ SubSeq(s, 2, 5) \in Seq(Byte) /\ Len(SubSeq(s, 2, 5)) = (5 - 2) + 1
      /\ \A i \in 1..((5 - 2) + 1) : SubSeq(s, 2, 5)[i] = s[(2 + i) - 1]
  BY <1>1, SubSeqProperties
<1>3. (5 - 2) + 1 = 4 /\ \A i \in 1..4 : (2 + i) - 1 = i + 1
  OBVIOUS
<1> QED BY <1>2, <1>3

LEMMA SizeWhole ==
  ASSUME NEW s \in Seq(Byte), NEW p, p.state = "done", StandConfigbuff(s, p)
  PROVE  /\ Len(s) = 5 /\ p.texts[1] = SubSeq(s, 2, 5)
         /\ \E i \in 1..4 : s[i + 1] # 0
<1> DEFINE parts == Layout("admin_configbuff")  e == Ends(parts, s)  t == PayloadsTo(parts, s)
           f == From(s, 1)
<1>0. /\ IsLayout(parts) /\ 2 \in 1..Len(parts) /\ 1 \in 1..Len(parts) /\ Len(parts) >= 1
      /\ parts[1].t = "one" /\ parts[2].t = "number"
  BY ConfigbuffParts DEF One, Number
<1>1. Begins(parts, s, 3, p)
  BY DEF StandConfigbuff
<1> HIDE DEF parts
<1>2. e[1] = 1 /\ t[1] = <<>>
  BY <1>0, FirstIsNoPayload
<1>3. Fine(parts, s, 2) /\ e[2] = Len(s) /\ p.texts = t[2]
  <2>1. 3 - 1 = 2
    OBVIOUS
  <2> QED BY <1>1, <2>1 DEF Begins
<1>4. \A x : Size(parts[2], x) = 4 /\ HeadSize(parts[2], x) = 0
  BY <1>0 DEF Size, HeadSize
<1>5. e[2] = e[1] + 4 /\ t[2] = Append(t[1], SubSeq(s, e[1] + 0 + 1, e[2])) /\ ~ Wrong(parts[2], f)
  <2>1. ASSUME NEW i \in 1..Len(parts), i = 2
        PROVE  /\ e[i] = e[i - 1] + Size(parts[i], From(s, e[i - 1]))
               /\ ~ Wrong(parts[i], From(s, e[i - 1]))
               /\ t[i] = Append(t[i - 1], SubSeq(s, e[i - 1] + HeadSize(parts[i], From(s, e[i - 1])) + 1, e[i]))
    <3>1. e[i] = e[i - 1] + Size(parts[i], From(s, e[i - 1]))
      BY <1>0, EndOfPart
    <3>2. i \in 1..2
      BY <2>1
    <3>3. ~ Wrong(parts[i], From(s, e[i - 1]))
      BY <1>3, <3>2 DEF Fine
    <3>4. t[i] = Append(t[i - 1], SubSeq(s, e[i - 1] + HeadSize(parts[i], From(s, e[i - 1])) + 1, e[i]))
      <4>1. parts[i].t # "one"
        BY <1>0, <2>1
      <4> QED BY <1>0, <4>1, ToldOfPart
    <3> QED BY <3>1, <3>3, <3>4
  <2> HIDE DEF e, t
  <2>2. 2 - 1 = 1
    OBVIOUS
  <2> QED BY <1>0, <1>2, <1>4, <2>1, <2>2
<1> HIDE DEF e, t, f
<1>6. Len(s) = 5 /\ p.texts = Append(<<>>, SubSeq(s, 2, 5))
  BY <1>2, <1>3, <1>5
<1>7. p.texts[1] = SubSeq(s, 2, 5)
  <2>1. SubSeq(s, 2, 5) \in Seq(Byte)
    BY <1>6, SubSeqOfBytes
  <2> QED BY <1>6, <2>1
<1>8. f \in Seq(Byte) /\ Len(f) = 4 /\ \A i \in 1..4 : f[i] = s[1 + i]
  <2>1. 1 \in Nat /\ 1 <= Len(s) /\ Len(s) - 1 = 4
    BY <1>6
  <2> QED BY <2>1, FromFacts DEF f
<1>9. ~ (\A i \in 1..4 : f[i] = 0)
  BY <1>0, <1>5, <1>8 DEF Wrong
<1>10. \E i \in 1..4 : s[i + 1] # 0
  <2>1. PICK i \in 1..4 : f[i] # 0
    BY <1>9
  <2>2. s[1 + i] # 0 /\ 1 + i = i + 1
    BY <1>8, <2>1
  <2> QED BY <2>2
<1> QED BY <1>6, <1>7, <1>10

(* The buffer size of the administrator is the four bytes that were sent, read
   back as they were, and set_buff_size refuses it as negative just when their
   first bit is set: src/parsers/admin_configbuffsize.c and src/server_config.c. *)
THEOREM WireSizeReadBack == Spec => []SizeReadBack
<1>1. WireInv => SizeReadBack
  <2> SUFFICES ASSUME WireInv, kind = "admin_configbuff", parser.state = "done"
               PROVE  LET size == FourBytesToNum(parser.texts[1])
                      IN /\ NumToFourBytes(size) = SubSeq(Taken, 2, 5)
                         /\ size <= 0 <=> Taken[2] >= Base \div 2
    BY DEF SizeReadBack
  <2> DEFINE s == Taken  w == SubSeq(s, 2, 5)
  <2>1. s \in Seq(Byte) /\ StandConfigbuff(s, parser)
    BY DEF WireInv, Follows, Stand
  <2> HIDE DEF s
  <2>2. Len(s) = 5 /\ parser.texts[1] = w /\ \E i \in 1..4 : s[i + 1] # 0
    BY <2>1, SizeWhole
  <2>3. w \in Seq(Byte) /\ Len(w) = 4 /\ \A i \in 1..4 : w[i] = s[i + 1]
    <3>1. s \in Seq(Byte) /\ Len(s) = 5
      BY <2>1, <2>2
    <3> QED BY <3>1, SubSeqOfBytes
  <2> HIDE DEF w
  <2>4. w[1] = s[2] /\ ~ (\A i \in 1..4 : w[i] = 0)
    BY <2>2, <2>3
  <2>5. /\ NumToFourBytes(FourBytesToNum(w)) = w
        /\ FourBytesToNum(w) <= 0 <=> w[1] >= Base \div 2 \/ \A i \in 1..4 : w[i] = 0
    BY <2>3, NumberIsRead
  <2> QED BY <2>2, <2>4, <2>5 DEF w, s
<1> QED BY <1>1, WireSpecInv, PTL
===============================================================================
