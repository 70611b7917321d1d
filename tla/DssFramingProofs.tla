-------------------------- MODULE DssFramingProofs --------------------------
(***************************************************************************)
(* Proofs about DssFraming: what ReadDSS and ReadChain make of the bytes   *)
(* that WriteDSS wrote, for objects of any length and any HighBit.         *)
(***************************************************************************)
EXTENDS DssFraming, SequenceTheorems, WellFoundedInduction, TLAPS

---------------------------------------------------------------------------
(* Induction *)

\* A set that holds a number whenever it holds all smaller ones holds them all.
LEMMA Induction ==
    ASSUME NEW S,
           \A n \in Nat : (\A m \in Nat : m < n => m \in S) => n \in S
    PROVE  \A n \in Nat : n \in S
<1> DEFINE T == {n \in Nat : n \notin S}
<1> SUFFICES ASSUME T # {} PROVE FALSE
  OBVIOUS
<1>1. PICK x \in T : \A y \in T : <<y, x>> \notin OpToRel(<, Nat)
  BY NatLessThanWellFounded, WFMin
<1>2. \A y \in T : ~(y < x)
  BY <1>1 DEF OpToRel
<1> QED BY <1>1, <1>2

---------------------------------------------------------------------------
(* Recursive definitions have the functions they define *)

\* What Segments does at position i of rest, g for the positions behind it.
SegStep(rest, g, i) ==
    LET n == Min({Len(rest) - i, MaxDSSLength - 2}) IN
    IF i = Len(rest) THEN <<>>
    ELSE <<Word(n + 2 + (IF i + n < Len(rest) THEN HighBit ELSE 0))>>
         \o Bytes(SubSeq(rest, i + 1, i + n)) \o g[i + n]

SegFcn(rest) == CHOOSE g : g = [i \in 0..Len(rest) |-> SegStep(rest, g, i)]

LEMMA MinOfTwo ==
    ASSUME NEW a \in Int, NEW b \in Int
    PROVE  Min({a, b}) = IF a <= b THEN a ELSE b
<1>1. \E x \in {a, b} : \A y \in {a, b} : x =< y
  OBVIOUS
<1>2. PICK m : m = Min({a, b})
  OBVIOUS
<1>3. m \in {a, b} /\ \A y \in {a, b} : m =< y
  BY <1>1, <1>2 DEF Min
<1> QED BY <1>2, <1>3

LEMMA SegFcnExists ==
    ASSUME NEW B, NEW rest \in Seq(B)
    PROVE  SegFcn(rest) = [i \in 0..Len(rest) |-> SegStep(rest, SegFcn(rest), i)]
<1> DEFINE N == Len(rest)
           Dom(k) == (N - k)..N
           S == {k \in Nat : k <= N => \E g : g = [i \in Dom(k) |-> SegStep(rest, g, i)]}
<1>1. N \in Nat
  OBVIOUS
<1>2. ASSUME NEW k \in Nat, NEW g, NEW h, NEW i \in 0..N, \A j \in (i + 1)..N : g[j] = h[j]
      PROVE  SegStep(rest, g, i) = SegStep(rest, h, i)
  <2> DEFINE n == Min({N - i, MaxDSSLength - 2})
  <2>1. n = IF N - i <= MaxDSSLength - 2 THEN N - i ELSE MaxDSSLength - 2
    BY <1>1, MinOfTwo, FramingAssumption DEF MaxDSSLength
  <2>2. i # N => g[i + n] = h[i + n]
    BY <2>1, <1>1, <1>2, FramingAssumption DEF MaxDSSLength
  <2> HIDE DEF n
  <2> QED BY <2>2 DEF SegStep, n
<1>3. ASSUME NEW k \in Nat, \A m \in Nat : m < k => m \in S
      PROVE  k \in S
  <2> SUFFICES ASSUME k <= N PROVE \E g : g = [i \in Dom(k) |-> SegStep(rest, g, i)]
    OBVIOUS
  <2>1. PICK g : k # 0 => g = [i \in Dom(k - 1) |-> SegStep(rest, g, i)]
    <3>1. CASE k = 0
      BY <3>1
    <3>2. CASE k # 0
      <4>1. k - 1 \in S
        BY <1>3, <3>2
      <4> QED BY <4>1, <1>1
    <3> QED BY <3>1, <3>2
  <2> DEFINE h == [i \in Dom(k) |-> IF i = N - k THEN SegStep(rest, g, i) ELSE g[i]]
  <2>2. ASSUME NEW i \in Dom(k) PROVE h[i] = SegStep(rest, h, i)
    <3>1. \A j \in (i + 1)..N : g[j] = h[j]
      BY <1>1
    <3>2. SegStep(rest, g, i) = SegStep(rest, h, i)
      <4> HIDE DEF h
      <4> QED BY <3>1, <1>2, <1>1
    <3>3. i # N - k => g[i] = SegStep(rest, g, i)
      BY <2>1, <1>1
    <3> QED BY <3>2, <3>3
  <2>3. h = [i \in Dom(k) |-> SegStep(rest, h, i)]
    BY <2>2
  <2> QED BY <2>3
<1>4. N \in S
  <2> HIDE DEF S
  <2> QED BY <1>1, <1>3, Induction
<1>5. \E g : g = [i \in 0..N |-> SegStep(rest, g, i)]
  BY <1>1, <1>4
<1> QED BY <1>5 DEF SegFcn

LEMMA SegmentsIsFcn ==
    ASSUME NEW rest
    PROVE  Segments(rest) = SegFcn(rest)[0]
BY DEF Segments, SegFcn, SegStep

---------------------------------------------------------------------------
(* Items and where they stand *)

\* What a byte stream is made of; B has the bytes it carries and the code points.
Items(B) ==
    [kind: {"header"}, len: Int, obj: Int, cp: B, chained: BOOLEAN]
    \cup [kind: {"word"}, len: Int] \cup {ExtByte} \cup [kind: {"data"}, byte: B]

\* The stream has s from position p on.
At(wire, p, s) ==
    /\ p + Len(s) - 1 <= Len(wire)
    /\ \A i \in 1..Len(s) : wire[p + i - 1] = s[i]

LEMMA SingleType ==
    ASSUME NEW I, NEW x \in I
    PROVE  <<x>> \in Seq(I) /\ Len(<<x>>) = 1 /\ <<x>>[1] = x
OBVIOUS

LEMMA ConcatProps ==
    ASSUME NEW I, NEW s \in Seq(I), NEW t \in Seq(I)
    PROVE  /\ s \o t \in Seq(I)
           /\ Len(s \o t) = Len(s) + Len(t)
           /\ Len(s) \in Nat /\ Len(t) \in Nat
OBVIOUS

LEMMA ConcatLeft ==
    ASSUME NEW I, NEW s \in Seq(I), NEW t \in Seq(I), NEW i \in 1..Len(s)
    PROVE  (s \o t)[i] = s[i]
OBVIOUS

LEMMA ConcatRight ==
    ASSUME NEW I, NEW s \in Seq(I), NEW t \in Seq(I), NEW i \in 1..Len(t)
    PROVE  (s \o t)[Len(s) + i] = t[i]
OBVIOUS

LEMMA AtConcat ==
    ASSUME NEW I, NEW wire \in Seq(I), NEW s \in Seq(I), NEW t \in Seq(I), NEW p \in Nat
    PROVE  At(wire, p, s \o t) <=> At(wire, p, s) /\ At(wire, p + Len(s), t)
<1>1. /\ Len(s \o t) = Len(s) + Len(t)
      /\ \A i \in 1..Len(s) : (s \o t)[i] = s[i]
      /\ \A i \in 1..Len(t) : (s \o t)[Len(s) + i] = t[i]
      /\ Len(s) \in Nat /\ Len(t) \in Nat /\ Len(wire) \in Nat
  OBVIOUS
<1> DEFINE c == s \o t
<1> HIDE DEF c
<1>2. ASSUME At(wire, p, c) PROVE At(wire, p, s) /\ At(wire, p + Len(s), t)
  <2>1. At(wire, p, s)
    BY <1>1, <1>2 DEF At, c
  <2>2. \A i \in 1..Len(t) : wire[p + Len(s) + i - 1] = t[i]
    <3> SUFFICES ASSUME NEW i \in 1..Len(t) PROVE wire[p + Len(s) + i - 1] = t[i]
      OBVIOUS
    <3>1. Len(s) + i \in 1..Len(c) /\ p + (Len(s) + i) - 1 = p + Len(s) + i - 1
      BY <1>1 DEF c
    <3>2. wire[p + (Len(s) + i) - 1] = c[Len(s) + i]
      BY <1>2, <3>1 DEF At
    <3> QED BY <1>1, <3>1, <3>2 DEF c
  <2> QED BY <1>1, <1>2, <2>1, <2>2 DEF At, c
<1>3. ASSUME At(wire, p, s), At(wire, p + Len(s), t) PROVE At(wire, p, c)
  <2> SUFFICES ASSUME NEW i \in 1..Len(c) PROVE wire[p + i - 1] = c[i]
    BY <1>1, <1>3 DEF At, c
  <2>1. CASE i <= Len(s)
    BY <1>1, <1>3, <2>1 DEF At, c
  <2>2. CASE i > Len(s)
    <3>1. i - Len(s) \in 1..Len(t) /\ i = Len(s) + (i - Len(s))
      BY <1>1, <2>2 DEF c
    <3>2. wire[(p + Len(s)) + (i - Len(s)) - 1] = t[i - Len(s)]
      BY <1>3, <3>1 DEF At
    <3>3. (p + Len(s)) + (i - Len(s)) - 1 = p + i - 1
      BY <1>1
    <3>4. c[i] = t[i - Len(s)]
      BY <1>1, <3>1 DEF c
    <3> QED BY <3>2, <3>3, <3>4
  <2> QED BY <1>1, <2>1, <2>2
<1> QED BY <1>2, <1>3 DEF c

LEMMA BytesType ==
    ASSUME NEW B, NEW body \in Seq(B)
    PROVE  /\ Bytes(body) \in Seq(Items(B))
           /\ Len(Bytes(body)) = Len(body)
           /\ \A i \in 1..Len(body) : Bytes(body)[i] = Data(body[i])
<1>1. \A i \in 1..Len(body) : Data(body[i]) \in Items(B)
  BY DEF Data, Items
<1> QED BY <1>1 DEF Bytes

\* Bytes of a body are data, and give the body back.
LEMMA PayloadOfBytes ==
    ASSUME NEW B, NEW body \in Seq(B), NEW wire \in Seq(Items(B)), NEW p \in Nat, p > 0,
           At(wire, p, Bytes(body))
    PROVE  /\ HasData(wire, p, Len(body))
           /\ Payload(wire, p, Len(body)) = body
           /\ p + Len(body) \in 1..(Len(wire) + 1)
<1>1. Len(Bytes(body)) = Len(body) /\ Len(body) \in Nat
  BY BytesType
<1>2. \A i \in 1..Len(body) : wire[p + i - 1] = Data(body[i])
  BY <1>1, BytesType DEF At
<1>3. \A i \in p..(p + Len(body) - 1) : wire[i].kind = "data"
  <2> SUFFICES ASSUME NEW i \in p..(p + Len(body) - 1) PROVE wire[i].kind = "data"
    OBVIOUS
  <2>1. i - p + 1 \in 1..Len(body) /\ p + (i - p + 1) - 1 = i
    BY <1>1
  <2>2. wire[i] = Data(body[i - p + 1])
    BY <1>2, <2>1
  <2> QED BY <2>2 DEF Data
<1>4. p + Len(body) - 1 <= Len(wire)
  BY <1>1 DEF At
<1>5. \A i \in 1..Len(body) : wire[p + i - 1].byte = body[i]
  <2>1. \A b : Data(b).byte = b
    BY DEF Data
  <2> QED BY <1>2, <2>1
<1> QED BY <1>1, <1>3, <1>4, <1>5 DEF HasData, Payload

---------------------------------------------------------------------------
(* Segments *)

\* The segments from position i on begin with this length word.
SegWord(rest, i, n) == Word(n + 2 + (IF i + n < Len(rest) THEN HighBit ELSE 0))

\* A segment behind the first: its word, its bytes, and the segments behind it.
LEMMA SegmentAt ==
    ASSUME NEW B, NEW rest \in Seq(B), NEW i \in 0..Len(rest), i < Len(rest)
    PROVE  \E n \in Nat :
             /\ n > 0 /\ n <= HighBit - 3 /\ i + n <= Len(rest)
             /\ SegFcn(rest)[i] = <<SegWord(rest, i, n)>> \o Bytes(SubSeq(rest, i + 1, i + n))
                                  \o SegFcn(rest)[i + n]
<1> DEFINE n == Min({Len(rest) - i, MaxDSSLength - 2})
<1>1. n = IF Len(rest) - i <= MaxDSSLength - 2 THEN Len(rest) - i ELSE MaxDSSLength - 2
  BY MinOfTwo, FramingAssumption DEF MaxDSSLength
<1>2. n \in Nat /\ n > 0 /\ n <= HighBit - 3 /\ i + n <= Len(rest)
  BY <1>1, FramingAssumption DEF MaxDSSLength
<1>3. SegFcn(rest)[i] = SegStep(rest, SegFcn(rest), i)
  BY SegFcnExists
<1>4. SegStep(rest, SegFcn(rest), i) =
        <<SegWord(rest, i, n)>> \o Bytes(SubSeq(rest, i + 1, i + n)) \o SegFcn(rest)[i + n]
  <2>1. i # Len(rest)
    OBVIOUS
  <2> QED BY <2>1, Zenon DEF SegStep, SegWord
<1> HIDE DEF n
<1> QED BY <1>2, <1>3, <1>4

LEMMA SegFcnEnd ==
    ASSUME NEW B, NEW rest \in Seq(B)
    PROVE  SegFcn(rest)[Len(rest)] = <<>>
<1>1. SegFcn(rest)[Len(rest)] = SegStep(rest, SegFcn(rest), Len(rest))
  BY SegFcnExists
<1>2. SegStep(rest, SegFcn(rest), Len(rest)) = <<>>
  BY Zenon DEF SegStep
<1> QED BY <1>1, <1>2

LEMMA SegWordType ==
    ASSUME NEW B, NEW rest \in Seq(B), NEW i \in Nat, NEW n \in Nat
    PROVE  <<SegWord(rest, i, n)>> \in Seq(Items(B))
<1>1. SegWord(rest, i, n) \in Items(B)
  BY FramingAssumption DEF SegWord, Word, Items
<1> QED BY <1>1

LEMMA SubSeqType ==
    ASSUME NEW B, NEW s \in Seq(B), NEW i \in Nat, NEW j \in Nat, i <= j, j <= Len(s)
    PROVE  /\ SubSeq(s, i + 1, j) \in Seq(B)
           /\ Len(SubSeq(s, i + 1, j)) = j - i
           /\ \A k \in 1..(j - i) : SubSeq(s, i + 1, j)[k] = s[i + k]
OBVIOUS

LEMMA SubSeqOne ==
    ASSUME NEW B, NEW s \in Seq(B), NEW k \in 1..Len(s)
    PROVE  SubSeq(s, k, k) = <<s[k]>>
<1>1. PICK z : z = SubSeq(s, k, k)
  OBVIOUS
<1>2. z \in Seq(B) /\ Len(z) = 1 /\ z[1] = s[k]
  BY <1>1
<1>3. z = <<s[k]>>
  BY <1>2
<1> QED BY <1>1, <1>3, Zenon

LEMMA SubSeqConcat ==
    ASSUME NEW B, NEW s \in Seq(B), NEW i \in Nat, NEW k \in Nat, NEW j \in Nat,
           i <= k, k <= j, j <= Len(s)
    PROVE  SubSeq(s, i + 1, k) \o SubSeq(s, k + 1, j) = SubSeq(s, i + 1, j)
<1> DEFINE a == SubSeq(s, i + 1, k)
           b == SubSeq(s, k + 1, j)
           c == SubSeq(s, i + 1, j)
<1>1. a \in Seq(B) /\ Len(a) = k - i /\ \A l \in 1..(k - i) : a[l] = s[i + l]
  BY SubSeqType
<1>2. b \in Seq(B) /\ Len(b) = j - k /\ \A l \in 1..(j - k) : b[l] = s[k + l]
  BY SubSeqType
<1>3. c \in Seq(B) /\ Len(c) = j - i /\ \A l \in 1..(j - i) : c[l] = s[i + l]
  BY SubSeqType
<1> HIDE DEF a, b, c
<1>4. a \in Seq(B) /\ b \in Seq(B) /\ Len(a) = k - i /\ Len(b) = j - k
  BY <1>1, <1>2
<1>5. a \o b \in Seq(B) /\ Len(a \o b) = j - i
  <2>1. a \o b \in Seq(B) /\ Len(a \o b) = Len(a) + Len(b)
    BY <1>4, ConcatProps, Zenon
  <2> QED BY <1>1, <1>2, <2>1
<1>6. ASSUME NEW l \in 1..(j - i) PROVE (a \o b)[l] = c[l]
  <2>1. CASE l \in 1..Len(a)
    <3>1. (a \o b)[l] = a[l]
      BY <1>4, <2>1, ConcatLeft, Zenon
    <3> QED BY <1>1, <1>3, <2>1, <3>1
  <2>2. CASE l \notin 1..Len(a)
    <3>1. l - (k - i) \in 1..Len(b) /\ k + (l - (k - i)) = i + l /\ Len(a) + (l - (k - i)) = l
      BY <1>4, <2>2
    <3>2. (a \o b)[l] = b[l - (k - i)]
      <4>1. (a \o b)[Len(a) + (l - (k - i))] = b[l - (k - i)]
        BY <1>4, <3>1, ConcatRight, Zenon
      <4> QED BY <3>1, <4>1
    <3> QED BY <1>2, <1>3, <3>1, <3>2
  <2> QED BY <2>1, <2>2, Zenon
<1> QED BY <1>3, <1>5, <1>6 DEF a, b, c

\* No item is a header.
NoHeader(s) == \A k \in 1..Len(s) : s[k].kind # "header"

LEMMA NoHeaderConcat ==
    ASSUME NEW I, NEW s \in Seq(I), NEW t \in Seq(I), NoHeader(s), NoHeader(t)
    PROVE  s \o t \in Seq(I) /\ NoHeader(s \o t)
<1> SUFFICES ASSUME NEW k \in 1..Len(s \o t) PROVE (s \o t)[k].kind # "header"
  BY DEF NoHeader
<1>1. CASE k <= Len(s)
  <2>1. (s \o t)[k] = s[k] /\ k \in 1..Len(s)
    BY <1>1
  <2> QED BY <2>1 DEF NoHeader
<1>2. CASE k > Len(s)
  <2>1. (s \o t)[k] = t[k - Len(s)] /\ k - Len(s) \in 1..Len(t)
    BY <1>2
  <2> QED BY <2>1 DEF NoHeader
<1> QED BY <1>1, <1>2

LEMMA NoHeaderBytes ==
    ASSUME NEW B, NEW body \in Seq(B)
    PROVE  NoHeader(Bytes(body))
<1>1. \A b : Data(b).kind # "header"
  BY DEF Data
<1>2. \A k \in 1..Len(Bytes(body)) : Bytes(body)[k] = Data(body[k])
  BY BytesType
<1> QED BY <1>1, <1>2 DEF NoHeader

\* Segments are items, none of them a header.
LEMMA SegmentsType ==
    ASSUME NEW B, NEW rest \in Seq(B), NEW i \in 0..Len(rest)
    PROVE  SegFcn(rest)[i] \in Seq(Items(B)) /\ NoHeader(SegFcn(rest)[i])
<1> DEFINE N == Len(rest)
           P(j) == SegFcn(rest)[j] \in Seq(Items(B)) /\ NoHeader(SegFcn(rest)[j])
           S == {m \in Nat : m <= N => P(N - m)}
<1>1. ASSUME NEW m \in Nat, \A l \in Nat : l < m => l \in S, m <= N
      PROVE  P(N - m)
  <2>1. CASE m = 0
    <3>1. SegFcn(rest)[N - m] = <<>>
      BY <2>1, SegFcnEnd
    <3> QED BY <3>1 DEF NoHeader
  <2>2. CASE m # 0
    <3> DEFINE j == N - m
    <3>1. j \in 0..N /\ j < N /\ j \in Nat
      BY <1>1, <2>2
    <3> HIDE DEF j
    <3>2. PICK n \in Nat :
             /\ n > 0 /\ n <= HighBit - 3 /\ j + n <= N
             /\ SegFcn(rest)[j] = <<SegWord(rest, j, n)>> \o Bytes(SubSeq(rest, j + 1, j + n))
                                  \o SegFcn(rest)[j + n]
      BY <3>1, SegmentAt
    <3> DEFINE w == <<SegWord(rest, j, n)>>
               b == Bytes(SubSeq(rest, j + 1, j + n))
               t == SegFcn(rest)[j + n]
    <3>3. b \in Seq(Items(B)) /\ NoHeader(b)
      <4>1. SubSeq(rest, j + 1, j + n) \in Seq(B)
        BY <3>1, <3>2, SubSeqType
      <4> QED BY <4>1, BytesType, NoHeaderBytes
    <3>4. t \in Seq(Items(B)) /\ NoHeader(t)
      <4>1. m - n \in Nat /\ m - n < m /\ m - n <= N /\ N - (m - n) = j + n
        BY <3>1, <3>2, <1>1 DEF j
      <4>2. m - n \in S
        BY <4>1, <1>1
      <4> QED BY <4>1, <4>2
    <3>5. w \in Seq(Items(B)) /\ NoHeader(w)
      <4>1. SegWord(rest, j, n).kind # "header"
        BY DEF SegWord, Word
      <4> QED BY <3>1, <4>1, SegWordType DEF NoHeader
    <3> HIDE DEF w, b, t
    <3>6. w \o b \in Seq(Items(B)) /\ NoHeader(w \o b)
      BY <3>3, <3>5, NoHeaderConcat
    <3>7. w \o b \o t \in Seq(Items(B)) /\ NoHeader(w \o b \o t)
      BY <3>4, <3>6, NoHeaderConcat
    <3> QED BY <3>2, <3>7 DEF j, w, b, t
  <2> QED BY <2>1, <2>2
<1>2. \A m \in Nat : m \in S
  <2>1. \A m \in Nat : (\A l \in Nat : l < m => l \in S) => m \in S
    <3> HIDE DEF P
    <3> QED BY <1>1
  <2> HIDE DEF S
  <2> QED BY <2>1, Induction
<1>3. N - i \in Nat /\ N - i <= N /\ N - (N - i) = i
  OBVIOUS
<1>4. P(N - (N - i))
  <2> HIDE DEF P
  <2> QED BY <1>2, <1>3
<1> QED BY <1>3, <1>4

---------------------------------------------------------------------------
(* ReadSegments *)

\* What ReadSegments does at position p, g for the positions behind it.
ReadStep(wire, g, p) ==
    IF p > Len(wire) THEN Invalid
    ELSE IF wire[p].kind # "word" THEN Invalid
    ELSE LET n == (wire[p].len % HighBit) - 2 IN
         IF ~HasData(wire, p + 1, n) THEN Invalid
         ELSE IF wire[p].len < HighBit
         THEN [ok |-> TRUE, payload |-> Payload(wire, p + 1, n), next |-> p + 1 + n]
         ELSE LET r == g[p + 1 + n] IN
              IF ~r.ok THEN Invalid
              ELSE [ok |-> TRUE, payload |-> Payload(wire, p + 1, n) \o r.payload,
                    next |-> r.next]

ReadFcn(wire) == CHOOSE g : g = [p \in 1..(Len(wire) + 1) |-> ReadStep(wire, g, p)]

LEMMA ReadFcnExists ==
    ASSUME NEW B, NEW wire \in Seq(Items(B))
    PROVE  ReadFcn(wire) = [p \in 1..(Len(wire) + 1) |-> ReadStep(wire, ReadFcn(wire), p)]
<1> DEFINE N == Len(wire)
           Dom(k) == (N + 1 - k)..(N + 1)
           S == {k \in Nat : k <= N => \E g : g = [i \in Dom(k) |-> ReadStep(wire, g, i)]}
<1>1. N \in Nat
  OBVIOUS
<1>2. ASSUME NEW g, NEW h, NEW i \in 1..(N + 1), \A j \in (i + 1)..(N + 1) : g[j] = h[j]
      PROVE  ReadStep(wire, g, i) = ReadStep(wire, h, i)
  <2> DEFINE n == (wire[i].len % HighBit) - 2
  <2>1. HasData(wire, i + 1, n) /\ n \in Int => g[i + 1 + n] = h[i + 1 + n]
    BY <1>1, <1>2 DEF HasData
  <2>2. CASE n \in Int
    <3> HIDE DEF n
    <3> QED BY <2>1, <2>2, Zenon DEF ReadStep, n
  <2>3. CASE n \notin Int
    <3>1. i \in 1..N => wire[i] \in Items(B)
      OBVIOUS
    <3>2. i \in 1..N /\ wire[i].kind = "word" => wire[i].len \in Int
      BY <3>1 DEF Items, ExtByte
    <3>3. i > N \/ wire[i].kind # "word"
      BY <1>1, <2>3, <3>2, FramingAssumption
    <3> QED BY <3>3, Zenon DEF ReadStep
  <2> HIDE DEF n
  <2> QED BY <2>2, <2>3
<1>3. ASSUME NEW k \in Nat, \A m \in Nat : m < k => m \in S
      PROVE  k \in S
  <2> SUFFICES ASSUME k <= N PROVE \E g : g = [i \in Dom(k) |-> ReadStep(wire, g, i)]
    OBVIOUS
  <2>1. PICK g : k # 0 => g = [i \in Dom(k - 1) |-> ReadStep(wire, g, i)]
    <3>1. CASE k = 0
      BY <3>1
    <3>2. CASE k # 0
      <4>1. k - 1 \in S
        BY <1>3, <3>2
      <4> QED BY <4>1, <1>1
    <3> QED BY <3>1, <3>2
  <2> DEFINE h == [i \in Dom(k) |-> IF i = N + 1 - k THEN ReadStep(wire, g, i) ELSE g[i]]
  <2>2. ASSUME NEW i \in Dom(k) PROVE h[i] = ReadStep(wire, h, i)
    <3>1. \A j \in (i + 1)..(N + 1) : g[j] = h[j]
      BY <1>1
    <3>2. ReadStep(wire, g, i) = ReadStep(wire, h, i)
      <4> HIDE DEF h
      <4> QED BY <3>1, <1>2, <1>1
    <3>3. i # N + 1 - k => g[i] = ReadStep(wire, g, i)
      BY <2>1, <1>1
    <3> QED BY <3>2, <3>3
  <2>3. h = [i \in Dom(k) |-> ReadStep(wire, h, i)]
    BY <2>2
  <2> QED BY <2>3
<1>4. N \in S
  <2> HIDE DEF S
  <2> QED BY <1>1, <1>3, Induction
<1>5. \E g : g = [i \in 1..(N + 1) |-> ReadStep(wire, g, i)]
  BY <1>1, <1>4
<1> QED BY <1>5 DEF ReadFcn

LEMMA ReadSegmentsIsFcn ==
    ASSUME NEW wire, NEW p
    PROVE  ReadSegments(wire, p) = ReadFcn(wire)[p]
BY DEF ReadSegments, ReadFcn, ReadStep

\* A length word without its high bit.
LEMMA HighBitOff ==
    ASSUME NEW a \in Nat, a < HighBit
    PROVE  a % HighBit = a /\ (a + HighBit) % HighBit = a
BY FramingAssumption

\* Segments are read back, from any of them on.
LEMMA ReadSegmentsAt ==
    ASSUME NEW B, NEW rest \in Seq(B), NEW wire \in Seq(Items(B)),
           NEW i \in 0..Len(rest), i < Len(rest), NEW p \in Nat, p > 0,
           At(wire, p, SegFcn(rest)[i])
    PROVE  ReadFcn(wire)[p] = [ok |-> TRUE, payload |-> SubSeq(rest, i + 1, Len(rest)),
                               next |-> p + Len(SegFcn(rest)[i])]
<1> DEFINE N == Len(rest)
           P(j) == \A x \in Nat : x > 0 /\ At(wire, x, SegFcn(rest)[j]) =>
                     ReadFcn(wire)[x] = [ok |-> TRUE, payload |-> SubSeq(rest, j + 1, N),
                                         next |-> x + Len(SegFcn(rest)[j])]
           S == {m \in Nat : 0 < m /\ m <= N => P(N - m)}
<1>1. ASSUME NEW m \in Nat, \A l \in Nat : l < m => l \in S, 0 < m, m <= N
      PROVE  P(N - m)
  <2> DEFINE j == N - m
  <2>1. j \in 0..N /\ j < N /\ j \in Nat /\ N \in Nat /\ m = N - j
    BY <1>1
  <2> HIDE DEF j
  <2>2. PICK n \in Nat :
           /\ n > 0 /\ n <= HighBit - 3 /\ j + n <= N
           /\ SegFcn(rest)[j] = <<SegWord(rest, j, n)>> \o Bytes(SubSeq(rest, j + 1, j + n))
                                \o SegFcn(rest)[j + n]
    BY <2>1, SegmentAt
  <2> SUFFICES ASSUME NEW x \in Nat, x > 0, At(wire, x, SegFcn(rest)[j])
               PROVE  ReadFcn(wire)[x] = [ok |-> TRUE, payload |-> SubSeq(rest, j + 1, N),
                                          next |-> x + Len(SegFcn(rest)[j])]
    BY DEF j
  <2> DEFINE body == SubSeq(rest, j + 1, j + n)
             w == <<SegWord(rest, j, n)>>
             b == Bytes(body)
             t == SegFcn(rest)[j + n]
             rec == [ok |-> TRUE, payload |-> SubSeq(rest, j + n + 1, N), next |-> x + 1 + n + Len(t)]
  <2>3. body \in Seq(B) /\ Len(body) = n
    BY <2>1, <2>2, SubSeqType
  <2>4. b \in Seq(Items(B)) /\ Len(b) = n
    <3> HIDE DEF body
    <3> QED BY <2>3, BytesType
  <2>5. w \in Seq(Items(B)) /\ Len(w) = 1
    BY <2>1, SegWordType
  <2>6. t \in Seq(Items(B))
    BY <2>1, <2>2, SegmentsType
  <2>7. SegFcn(rest)[j] = w \o b \o t
    BY <2>2
  <2> HIDE DEF w, b, t, body
  <2>8. At(wire, x, w) /\ At(wire, x + 1, b) /\ At(wire, x + 1 + n, t)
    <3>1. w \o b \in Seq(Items(B)) /\ Len(w \o b) = 1 + n
      <4>1. w \o b \in Seq(Items(B)) /\ Len(w \o b) = Len(w) + Len(b)
        BY <2>4, <2>5, ConcatProps, Zenon
      <4> QED BY <2>4, <2>5, <4>1
    <3>2. At(wire, x, w \o b) /\ At(wire, x + (1 + n), t)
      <4>1. At(wire, x, (w \o b) \o t)
        BY <2>7
      <4> QED BY <2>6, <3>1, <4>1, AtConcat
    <3>3. At(wire, x, w) /\ At(wire, x + 1, b)
      BY <2>4, <2>5, <3>2, AtConcat
    <3>4. x + (1 + n) = x + 1 + n
      OBVIOUS
    <3> QED BY <3>2, <3>3, <3>4
  <2>9. wire[x] = SegWord(rest, j, n) /\ x <= Len(wire)
    <3>1. w[1] = SegWord(rest, j, n) /\ 1 \in 1..Len(w) /\ x + 1 - 1 = x
      BY <2>5 DEF w
    <3> QED BY <2>5, <2>8, <3>1 DEF At
  <2>10. HasData(wire, x + 1, n) /\ Payload(wire, x + 1, n) = body
    BY <2>3, <2>8, PayloadOfBytes DEF b
  <2>11. wire[x].kind = "word" /\ (wire[x].len % HighBit) - 2 = n
         /\ (wire[x].len < HighBit <=> j + n = N)
    <3>1. wire[x].kind = "word" /\ wire[x].len = n + 2 + (IF j + n < N THEN HighBit ELSE 0)
      BY <2>9 DEF SegWord, Word
    <3>2. (n + 2) % HighBit = n + 2 /\ (n + 2 + HighBit) % HighBit = n + 2
      BY <2>2, HighBitOff, FramingAssumption
    <3>3. CASE j + n = N
      <4>1. wire[x].len = n + 2
        BY <2>1, <3>1, <3>3
      <4> QED BY <2>2, <3>1, <3>2, <3>3, <4>1, FramingAssumption
    <3>4. CASE j + n < N
      <4>1. wire[x].len = n + 2 + HighBit
        BY <2>1, <3>1, <3>4
      <4> QED BY <2>1, <2>2, <3>1, <3>2, <3>4, <4>1, FramingAssumption
    <3> QED BY <2>1, <2>2, <3>3, <3>4
  <2>12. ReadFcn(wire)[x] = ReadStep(wire, ReadFcn(wire), x)
    <3>1. x \in 1..(Len(wire) + 1)
      BY <2>9
    <3> QED BY <3>1, ReadFcnExists
  <2>13. Len(SegFcn(rest)[j]) = 1 + n + Len(t)
    <3>1. w \o b \in Seq(Items(B)) /\ Len(w \o b) = 1 + n
      <4>1. w \o b \in Seq(Items(B)) /\ Len(w \o b) = Len(w) + Len(b)
        BY <2>4, <2>5, ConcatProps, Zenon
      <4> QED BY <2>4, <2>5, <4>1
    <3>2. Len((w \o b) \o t) = 1 + n + Len(t)
      BY <2>6, <3>1, ConcatProps
    <3> QED BY <2>7, <3>2
  <2>14. CASE j + n = N
    <3>1. t = <<>>
      BY <2>14, SegFcnEnd DEF t
    <3>2. ReadStep(wire, ReadFcn(wire), x) = [ok |-> TRUE, payload |-> body, next |-> x + 1 + n]
      <4>1. ~(x > Len(wire))
        BY <2>9
      <4> QED BY <4>1, <2>10, <2>11, <2>14, Zenon DEF ReadStep
    <3>3. x + 1 + n = x + Len(SegFcn(rest)[j])
      BY <2>13, <3>1
    <3> QED BY <2>12, <2>14, <3>2, <3>3 DEF body
  <2>15. CASE j + n # N
    <3>1. ReadFcn(wire)[x + 1 + n] = rec
      <4>1. m - n \in Nat /\ m - n < m /\ m - n <= N /\ 0 < m - n /\ N - (m - n) = j + n
        BY <2>1, <2>2, <2>15
      <4>2. m - n \in S
        BY <4>1, <1>1
      <4>3. P(j + n)
        BY <4>1, <4>2
      <4>4. x + 1 + n \in Nat /\ x + 1 + n > 0
        OBVIOUS
      <4> QED BY <4>3, <4>4, <2>8, Zenon DEF t
    <3>2. ReadStep(wire, ReadFcn(wire), x)
            = [ok |-> TRUE, payload |-> body \o rec.payload, next |-> rec.next]
      <4>1. rec.ok
        OBVIOUS
      <4>2. x <= Len(wire) /\ ~(x > Len(wire))
        BY <2>9
      <4> HIDE DEF rec
      <4> QED BY <4>1, <4>2, <2>10, <2>11, <2>15, <3>1, Zenon DEF ReadStep
    <3>3. body \o rec.payload = SubSeq(rest, j + 1, N)
      <4>1. j + n \in Nat /\ j <= j + n /\ j + n <= N /\ N <= Len(rest)
        BY <2>1, <2>2
      <4>2. SubSeq(rest, j + 1, j + n) \o SubSeq(rest, j + n + 1, N) = SubSeq(rest, j + 1, N)
        <5> HIDE DEF N
        <5> QED BY <2>1, <4>1, SubSeqConcat
      <4>3. rec.payload = SubSeq(rest, j + n + 1, N)
        OBVIOUS
      <4> QED BY <4>2, <4>3, Zenon DEF body
    <3>4. rec.next = x + Len(SegFcn(rest)[j])
      BY <2>6, <2>13
    <3> HIDE DEF rec
    <3> QED BY <2>12, <3>2, <3>3, <3>4
  <2> QED BY <2>14, <2>15
<1>2. \A m \in Nat : m \in S
  <2>1. \A m \in Nat : (\A l \in Nat : l < m => l \in S) => m \in S
    <3> HIDE DEF P
    <3> QED BY <1>1
  <2> HIDE DEF S
  <2> QED BY <2>1, Induction
<1>3. N - i \in Nat /\ N - i <= N /\ 0 < N - i /\ N - (N - i) = i
  OBVIOUS
<1>4. P(N - (N - i))
  <2> HIDE DEF P
  <2> QED BY <1>2, <1>3
<1> QED BY <1>3, <1>4

---------------------------------------------------------------------------
(* WriteDSS and ReadDSS *)

\* The bytes of the extended length.
Ext(n) == [i \in 1..n |-> ExtByte]

LEMMA ExtType ==
    ASSUME NEW B, NEW n \in Nat
    PROVE  Ext(n) \in Seq(Items(B)) /\ Len(Ext(n)) = n /\ NoHeader(Ext(n))
<1>1. ExtByte \in Items(B) /\ ExtByte.kind # "header"
  BY DEF Items, ExtByte
<1>2. Ext(n) \in [1..n -> Items(B)]
  BY <1>1 DEF Ext
<1>3. Ext(n) \in Seq(Items(B)) /\ Len(Ext(n)) = n
  BY <1>2
<1>4. \A k \in 1..n : Ext(n)[k] = ExtByte
  BY DEF Ext
<1> QED BY <1>1, <1>3, <1>4 DEF NoHeader

\* Data bytes in the first segment of an object that needs several.
First(ext) == MaxDSSLength - 10 - ext

\* The two forms of a DSS.
LEMMA WriteShort ==
    ASSUME NEW B, NEW body \in Seq(B), NEW cp, NEW chained, NEW ext,
           Len(body) + 10 <= MaxDSSLength
    PROVE  WriteDSS(NewObject(cp, body), chained, ext)
             = <<Header(Len(body) + 10, Len(body) + 4, cp, chained)>> \o Bytes(body)
<1> DEFINE o == NewObject(cp, body)
<1>1. o.body = body /\ o.cp = cp /\ o.len = (4 + Len(body)) % (2 * HighBit)
  BY DEF NewObject
<1>2. (4 + Len(body)) % (2 * HighBit) = Len(body) + 4
  <2>1. 4 + Len(body) \in Nat /\ 4 + Len(body) < 2 * HighBit /\ 2 * HighBit \in Nat
    BY FramingAssumption DEF MaxDSSLength
  <2>2. ASSUME NEW a \in Nat, NEW h \in Nat, a < h PROVE a % h = a
    BY <2>2
  <2> QED BY <2>1, <2>2
<1>3. Len(o.body) + 4 + 6 <= MaxDSSLength
  BY <1>1, FramingAssumption DEF MaxDSSLength
<1> HIDE DEF o
<1> QED BY <1>1, <1>2, <1>3, Zenon DEF WriteDSS, o

LEMMA WriteLong ==
    ASSUME NEW B, NEW body \in Seq(B), NEW cp, NEW chained, NEW ext \in {0, 4},
           Len(body) + 10 > MaxDSSLength
    PROVE  /\ First(ext) \in Nat /\ First(ext) > 0 /\ First(ext) < Len(body)
           /\ WriteDSS(NewObject(cp, body), chained, ext)
                = <<Header(HighBit - 1 + HighBit, HighBit + 4 + ext, cp, chained)>>
                  \o Ext(ext) \o Bytes(SubSeq(body, 1, First(ext)))
                  \o SegFcn(SubSeq(body, First(ext) + 1, Len(body)))[0]
<1> DEFINE o == NewObject(cp, body)
           first == Min({MaxDSSLength - 6 - 4 - ext, Len(o.body)})
           rest == SubSeq(o.body, first + 1, Len(o.body))
           more == IF rest = <<>> THEN 0 ELSE HighBit
<1>1. o.body = body /\ o.cp = cp
  BY DEF NewObject
<1>2. First(ext) \in Nat /\ First(ext) > 0 /\ First(ext) < Len(body)
  BY FramingAssumption DEF MaxDSSLength, First
<1>3. first = First(ext)
  <2>1. MaxDSSLength - 6 - 4 - ext \in Int /\ Len(body) \in Int /\ First(ext) = MaxDSSLength - 6 - 4 - ext
    BY FramingAssumption DEF MaxDSSLength, First
  <2> QED BY <1>1, <1>2, <2>1, MinOfTwo
<1>4. rest # <<>>
  <2>1. Len(SubSeq(body, First(ext) + 1, Len(body))) = Len(body) - First(ext)
    BY <1>2, SubSeqType
  <2>2. rest = SubSeq(body, First(ext) + 1, Len(body))
    BY <1>1, <1>3, Zenon
  <2> HIDE DEF rest
  <2>3. Len(rest) # 0
    BY <1>2, <2>1, <2>2
  <2>4. Len(<<>>) = 0
    OBVIOUS
  <2> QED BY <2>3, <2>4, Zenon
<1>5. 6 + 4 + ext + first + more = HighBit - 1 + HighBit
  BY <1>3, <1>4, FramingAssumption DEF First, MaxDSSLength
<1>6. ~(Len(o.body) + 4 + 6 <= MaxDSSLength)
  BY <1>1, FramingAssumption DEF MaxDSSLength
<1>7. WriteDSS(o, chained, ext)
        = <<Header(6 + 4 + ext + first + more, HighBit + 4 + ext, o.cp, chained)>>
          \o [i \in 1..ext |-> ExtByte]
          \o Bytes(SubSeq(o.body, 1, first)) \o Segments(rest)
  <2> HIDE DEF o
  <2> QED BY <1>6, Zenon DEF WriteDSS
<1>8. Segments(rest) = SegFcn(SubSeq(body, First(ext) + 1, Len(body)))[0]
  BY <1>1, <1>3, SegmentsIsFcn, Zenon
<1> HIDE DEF o, first, rest, more
<1> QED BY <1>1, <1>2, <1>3, <1>5, <1>7, <1>8, Zenon DEF Ext, o

LEMMA HeaderType ==
    ASSUME NEW B, NEW len \in Int, NEW obj \in Int, NEW cp \in B, NEW chained \in BOOLEAN
    PROVE  <<Header(len, obj, cp, chained)>> \in Seq(Items(B))
<1>1. Header(len, obj, cp, chained) \in Items(B)
  BY DEF Header, Items
<1> QED BY <1>1, SingleType, Zenon

\* A DSS is a header and items that are none; the chained flag is in the header alone.
HeadAndTail(B, cp, body, ext) ==
    \E len, obj \in Int, tail \in Seq(Items(B)) :
        /\ NoHeader(tail)
        /\ \A chained \in BOOLEAN :
             /\ <<Header(len, obj, cp, chained)>> \in Seq(Items(B))
             /\ WriteDSS(NewObject(cp, body), chained, ext) = <<Header(len, obj, cp, chained)>> \o tail

LEMMA WriteType ==
    ASSUME NEW B, NEW body \in Seq(B), NEW cp \in B, NEW ext \in {0, 4}
    PROVE  HeadAndTail(B, cp, body, ext)
<1>1. CASE Len(body) + 10 <= MaxDSSLength
  <2>1. Len(body) + 10 \in Int /\ Len(body) + 4 \in Int
    OBVIOUS
  <2>2. Bytes(body) \in Seq(Items(B)) /\ NoHeader(Bytes(body))
    BY BytesType, NoHeaderBytes
  <2>3. ASSUME NEW chained \in BOOLEAN
        PROVE  /\ <<Header(Len(body) + 10, Len(body) + 4, cp, chained)>> \in Seq(Items(B))
               /\ WriteDSS(NewObject(cp, body), chained, ext)
                    = <<Header(Len(body) + 10, Len(body) + 4, cp, chained)>> \o Bytes(body)
    BY <1>1, <2>1, WriteShort, HeaderType, Zenon
  <2> QED BY <2>1, <2>2, <2>3, Zenon DEF HeadAndTail
<1>2. CASE ~(Len(body) + 10 <= MaxDSSLength)
  <2> DEFINE len == HighBit - 1 + HighBit
             obj == HighBit + 4 + ext
             f == First(ext)
             x == Ext(ext)
             b == Bytes(SubSeq(body, 1, f))
             t == SegFcn(SubSeq(body, f + 1, Len(body)))[0]
  <2>0. Len(body) + 10 > MaxDSSLength
    BY <1>2, FramingAssumption DEF MaxDSSLength
  <2>1. len \in Int /\ obj \in Int
    BY FramingAssumption
  <2>2. f \in Nat /\ f > 0 /\ f < Len(body) /\ f <= Len(body) /\ 0 <= f /\ 0 + 1 = 1
    <3>1. First(ext) \in Nat /\ First(ext) > 0 /\ First(ext) < Len(body)
      BY <2>0, WriteLong
    <3> QED BY <3>1
  <2>3. x \in Seq(Items(B)) /\ NoHeader(x)
    BY ExtType
  <2>4. b \in Seq(Items(B)) /\ NoHeader(b)
    <3>1. SubSeq(body, 1, f) \in Seq(B)
      <4> HIDE DEF f
      <4> QED BY <2>2, SubSeqType
    <3> QED BY <3>1, BytesType, NoHeaderBytes
  <2>5. t \in Seq(Items(B)) /\ NoHeader(t)
    <3>1. SubSeq(body, f + 1, Len(body)) \in Seq(B)
      <4> HIDE DEF f
      <4> QED BY <2>2, SubSeqType
    <3>2. 0 \in 0..Len(SubSeq(body, f + 1, Len(body)))
      <4> HIDE DEF f
      <4> QED BY <3>1
    <3> QED BY <3>1, <3>2, SegmentsType, Zenon
  <2>6. x \o b \in Seq(Items(B)) /\ NoHeader(x \o b)
    <3> HIDE DEF x, b
    <3> QED BY <2>3, <2>4, NoHeaderConcat
  <2>7. (x \o b) \o t \in Seq(Items(B)) /\ NoHeader((x \o b) \o t)
    <3> HIDE DEF x, b, t
    <3> QED BY <2>5, <2>6, NoHeaderConcat
  <2>8. ASSUME NEW chained \in BOOLEAN
        PROVE  /\ <<Header(len, obj, cp, chained)>> \in Seq(Items(B))
               /\ WriteDSS(NewObject(cp, body), chained, ext)
                    = <<Header(len, obj, cp, chained)>> \o ((x \o b) \o t)
    <3> DEFINE h == <<Header(len, obj, cp, chained)>>
    <3>1. h \in Seq(Items(B))
      <4> HIDE DEF len, obj
      <4> QED BY <2>1, HeaderType
    <3>2. WriteDSS(NewObject(cp, body), chained, ext) = ((h \o x) \o b) \o t
      BY <2>0, WriteLong, Zenon
    <3> HIDE DEF h, x, b, t
    <3>3. ((h \o x) \o b) \o t = h \o ((x \o b) \o t)
      <4>1. ASSUME NEW s1 \in Seq(Items(B)), NEW s2 \in Seq(Items(B)), NEW s3 \in Seq(Items(B))
            PROVE  (s1 \o s2) \o s3 = s1 \o (s2 \o s3)
        OBVIOUS
      <4>2. h \o x \in Seq(Items(B))
        BY <2>3, <3>1, ConcatProps, Zenon
      <4>3. ((h \o x) \o b) \o t = (h \o x) \o (b \o t)
        BY <2>4, <2>5, <4>1, <4>2, Zenon
      <4>4. b \o t \in Seq(Items(B))
        BY <2>4, <2>5, ConcatProps, Zenon
      <4>5. (h \o x) \o (b \o t) = h \o (x \o (b \o t))
        BY <2>3, <3>1, <4>1, <4>4, Zenon
      <4>6. x \o (b \o t) = (x \o b) \o t
        BY <2>3, <2>4, <2>5, <4>1, Zenon
      <4> QED BY <4>3, <4>5, <4>6, Zenon
    <3> QED BY <3>1, <3>2, <3>3, Zenon DEF h
  <2> HIDE DEF len, obj, x, b, t
  <2> QED BY <2>1, <2>7, <2>8, Zenon DEF HeadAndTail
<1> QED BY <1>1, <1>2, Zenon

LEMMA AtHead ==
    ASSUME NEW I, NEW wire \in Seq(I), NEW x \in I, NEW p \in Nat, At(wire, p, <<x>>)
    PROVE  wire[p] = x /\ p <= Len(wire) /\ ~(p > Len(wire))
<1>1. <<x>> \in Seq(I) /\ Len(<<x>>) = 1 /\ <<x>>[1] = x
  BY SingleType
<1>2. 1 \in 1..Len(<<x>>) /\ p + 1 - 1 = p
  BY <1>1
<1>3. wire[p + 1 - 1] = <<x>>[1]
  BY <1>2, Zenon DEF At
<1>4. p + 1 - 1 <= Len(wire)
  BY <1>1, Zenon DEF At
<1> QED BY <1>1, <1>2, <1>3, <1>4

LEMMA ReadShort ==
    ASSUME NEW B, NEW body \in Seq(B), NEW cp \in B, NEW chained \in BOOLEAN, NEW ext \in {0, 4},
           Len(body) + 10 <= MaxDSSLength,
           NEW wire \in Seq(Items(B)), NEW p \in Nat, p > 0,
           At(wire, p, WriteDSS(NewObject(cp, body), chained, ext))
    PROVE  ReadDSS(wire, p) =
             [ok |-> TRUE, cp |-> cp, chained |-> chained, payload |-> body,
              next |-> p + Len(WriteDSS(NewObject(cp, body), chained, ext))]
<1> DEFINE h == Header(Len(body) + 10, Len(body) + 4, cp, chained)
           b == Bytes(body)
<1>1. h \in Items(B) /\ <<h>> \in Seq(Items(B)) /\ Len(<<h>>) = 1
  <2>1. h \in Items(B)
    BY DEF Header, Items
  <2> QED BY <2>1, SingleType, Zenon
<1>2. b \in Seq(Items(B)) /\ Len(b) = Len(body)
  BY BytesType
<1>3. WriteDSS(NewObject(cp, body), chained, ext) = <<h>> \o b
  BY WriteShort
<1>4. /\ h.kind = "header" /\ h.len = Len(body) + 10 /\ h.obj = Len(body) + 4
      /\ h.cp = cp /\ h.chained = chained
  BY DEF Header
<1> HIDE DEF h, b
<1>5. At(wire, p, <<h>>) /\ At(wire, p + 1, b)
  <2>1. At(wire, p, <<h>> \o b)
    BY <1>3
  <2> QED BY <1>1, <1>2, <2>1, AtConcat
<1>6. wire[p] = h /\ ~(p > Len(wire))
  <2>1. h \in Items(B) /\ At(wire, p, <<h>>)
    BY <1>1, <1>5, Zenon
  <2> QED BY <2>1, AtHead
<1>7. HasData(wire, p + 1, Len(body)) /\ Payload(wire, p + 1, Len(body)) = body
  <2>1. p + 1 \in Nat /\ p + 1 > 0
    OBVIOUS
  <2> QED BY <1>5, <2>1, PayloadOfBytes, Zenon DEF b
<1>8. /\ h.len < HighBit /\ h.obj < HighBit /\ h.obj >= 4 /\ h.obj = h.len - 6
      /\ h.obj - 4 = Len(body)
  BY <1>4, FramingAssumption DEF MaxDSSLength
<1>9. Len(<<h>> \o b) = 1 + Len(body)
  <2>1. Len(<<h>> \o b) = Len(<<h>>) + Len(b)
    BY <1>1, <1>2, ConcatProps, Zenon
  <2> QED BY <1>1, <1>2, <2>1
<1>10. p + 1 + Len(body) = p + Len(WriteDSS(NewObject(cp, body), chained, ext))
  <2>1. p + 1 + Len(body) = p + (1 + Len(body))
    OBVIOUS
  <2> QED BY <1>3, <1>9, <2>1, Zenon
<1> QED BY <1>4, <1>6, <1>7, <1>8, <1>10, Zenon DEF ReadDSS

LEMMA ReadLong ==
    ASSUME NEW B, NEW body \in Seq(B), NEW cp \in B, NEW chained \in BOOLEAN, NEW ext \in {0, 4},
           Len(body) + 10 > MaxDSSLength,
           NEW wire \in Seq(Items(B)), NEW p \in Nat, p > 0,
           At(wire, p, WriteDSS(NewObject(cp, body), chained, ext))
    PROVE  ReadDSS(wire, p) =
             [ok |-> TRUE, cp |-> cp, chained |-> chained, payload |-> body,
              next |-> p + Len(WriteDSS(NewObject(cp, body), chained, ext))]
<1> DEFINE h == Header(HighBit - 1 + HighBit, HighBit + 4 + ext, cp, chained)
           f == First(ext)
           x == Ext(ext)
           a == SubSeq(body, 1, f)
           r == SubSeq(body, f + 1, Len(body))
           b == Bytes(a)
           t == SegFcn(r)[0]
<1>1. h \in Items(B) /\ <<h>> \in Seq(Items(B)) /\ Len(<<h>>) = 1
  <2>1. h \in Items(B)
    BY FramingAssumption DEF Header, Items
  <2> QED BY <2>1, SingleType, Zenon
<1>2. f \in Nat /\ f > 0 /\ f < Len(body) /\ f <= Len(body) /\ 0 <= f /\ 0 + 1 = 1
  <2>1. First(ext) \in Nat /\ First(ext) > 0 /\ First(ext) < Len(body)
    BY WriteLong
  <2> QED BY <2>1
<1>3. /\ h.kind = "header" /\ h.len = HighBit - 1 + HighBit /\ h.obj = HighBit + 4 + ext
      /\ h.cp = cp /\ h.chained = chained
  BY DEF Header
<1>4. WriteDSS(NewObject(cp, body), chained, ext) = ((<<h>> \o x) \o b) \o t
  BY WriteLong, Zenon
<1>5. x \in Seq(Items(B)) /\ Len(x) = ext /\ \A i \in 1..ext : x[i] = ExtByte
  BY ExtType DEF Ext
<1>6. f = HighBit - 11 - ext
  BY FramingAssumption DEF First, MaxDSSLength
<1> HIDE DEF h, f, x
<1>7. a \in Seq(B) /\ Len(a) = f /\ r \in Seq(B) /\ Len(r) = Len(body) - f /\ a \o r = body
  <2>1. a \in Seq(B) /\ Len(a) = f /\ r \in Seq(B) /\ Len(r) = Len(body) - f
    BY <1>2, SubSeqType
  <2>2. SubSeq(body, 0 + 1, f) \o SubSeq(body, f + 1, Len(body)) = SubSeq(body, 0 + 1, Len(body))
    <3>1. 0 \in Nat /\ Len(body) \in Nat /\ Len(body) <= Len(body)
      OBVIOUS
    <3> QED BY <1>2, <3>1, SubSeqConcat, Zenon
  <2>3. SubSeq(body, 1, Len(body)) = body
    OBVIOUS
  <2> QED BY <1>2, <2>1, <2>2, <2>3, Zenon
<1> HIDE DEF a, r
<1>8. b \in Seq(Items(B)) /\ Len(b) = f
  BY <1>7, BytesType, Zenon
<1>9. 0 \in 0..Len(r) /\ 0 < Len(r)
  BY <1>2, <1>7
<1>10. t \in Seq(Items(B))
  BY <1>7, <1>9, SegmentsType, Zenon
<1> HIDE DEF b, t
<1>11. <<h>> \o x \in Seq(Items(B)) /\ Len(<<h>> \o x) = 1 + ext
  <2>1. <<h>> \o x \in Seq(Items(B)) /\ Len(<<h>> \o x) = Len(<<h>>) + Len(x)
    BY <1>1, <1>5, ConcatProps, Zenon
  <2> QED BY <1>1, <1>5, <2>1
<1>12. (<<h>> \o x) \o b \in Seq(Items(B)) /\ Len((<<h>> \o x) \o b) = 1 + ext + f
  <2>1. /\ (<<h>> \o x) \o b \in Seq(Items(B))
        /\ Len((<<h>> \o x) \o b) = Len(<<h>> \o x) + Len(b)
    BY <1>8, <1>11, ConcatProps, Zenon
  <2> QED BY <1>8, <1>11, <2>1
<1>13. /\ Len(((<<h>> \o x) \o b) \o t) = 1 + ext + f + Len(t)
       /\ Len(t) \in Nat
  <2>1. Len(((<<h>> \o x) \o b) \o t) = Len((<<h>> \o x) \o b) + Len(t) /\ Len(t) \in Nat
    BY <1>10, <1>12, ConcatProps, Zenon
  <2> QED BY <1>12, <2>1
<1>14. /\ At(wire, p, <<h>>) /\ At(wire, p + 1, x) /\ At(wire, p + 1 + ext, b)
       /\ At(wire, p + 1 + ext + f, t)
  <2>1. At(wire, p, (<<h>> \o x) \o b) /\ At(wire, p + Len((<<h>> \o x) \o b), t)
    BY <1>4, <1>10, <1>12, AtConcat, ZenonT(60)
  <2>2. At(wire, p, <<h>> \o x) /\ At(wire, p + Len(<<h>> \o x), b)
    BY <1>8, <1>11, <2>1, AtConcat, Zenon
  <2>3. At(wire, p, <<h>>) /\ At(wire, p + Len(<<h>>), x)
    BY <1>1, <1>5, <2>2, AtConcat, Zenon
  <2>4. /\ p + Len(<<h>>) = p + 1 /\ p + Len(<<h>> \o x) = p + 1 + ext
        /\ p + Len((<<h>> \o x) \o b) = p + 1 + ext + f
    <3>1. /\ p + Len(<<h>>) = p + 1 /\ p + Len(<<h>> \o x) = p + (1 + ext)
          /\ p + Len((<<h>> \o x) \o b) = p + (1 + ext + f)
      BY <1>1, <1>11, <1>12, Zenon
    <3>2. p + (1 + ext) = p + 1 + ext /\ p + (1 + ext + f) = p + 1 + ext + f
      BY <1>2
    <3> QED BY <3>1, <3>2, Zenon
  <2> QED BY <2>1, <2>2, <2>3, <2>4, Zenon
<1>15. wire[p] = h /\ ~(p > Len(wire))
  <2>1. h \in Items(B) /\ At(wire, p, <<h>>)
    BY <1>1, <1>14, Zenon
  <2> QED BY <2>1, AtHead
<1>16. ExtLen(h) = ext /\ FirstLen(h) = f
  <2>1. ExtLen(h) = ext
    BY <1>3, FramingAssumption DEF ExtLen
  <2>2. (HighBit - 1 + HighBit) % HighBit = HighBit - 1
    BY HighBitOff, FramingAssumption
  <2> QED BY <1>3, <1>6, <2>1, <2>2, FramingAssumption DEF FirstLen
<1>17. ext \in 0..8 /\ ~(h.len < HighBit)
  BY <1>3, FramingAssumption
<1>18. ~(\E i \in (p + 1)..(p + ext) : i > Len(wire) \/ wire[i] # ExtByte)
  <2> SUFFICES ASSUME NEW i \in (p + 1)..(p + ext) PROVE ~(i > Len(wire)) /\ wire[i] = ExtByte
    OBVIOUS
  <2>1. i - p \in 1..ext /\ (p + 1) + (i - p) - 1 = i
    OBVIOUS
  <2>2. wire[(p + 1) + (i - p) - 1] = x[i - p]
    BY <1>5, <1>14, <2>1 DEF At
  <2>3. p + 1 + ext - 1 <= Len(wire)
    BY <1>5, <1>14 DEF At
  <2> QED BY <1>5, <2>1, <2>2, <2>3
<1>19. HasData(wire, p + 1 + ext, f) /\ Payload(wire, p + 1 + ext, f) = a
  <2>1. p + 1 + ext \in Nat /\ p + 1 + ext > 0
    OBVIOUS
  <2> QED BY <1>7, <1>14, <2>1, PayloadOfBytes, Zenon DEF b
<1> DEFINE rec == [ok |-> TRUE, payload |-> r, next |-> p + 1 + ext + f + Len(t)]
<1>20. ReadSegments(wire, p + 1 + ext + f) = rec
  <2> DEFINE y == p + 1 + ext + f
  <2>1. y \in Nat /\ y > 0
    BY <1>2
  <2>2. 0 + 1 = 1 /\ SubSeq(r, 1, Len(r)) = r
    BY <1>7
  <2> HIDE DEF y
  <2>3. At(wire, y, SegFcn(r)[0])
    BY <1>14, Zenon DEF y, t
  <2>4. ReadFcn(wire)[y] = [ok |-> TRUE, payload |-> SubSeq(r, 0 + 1, Len(r)),
                            next |-> y + Len(SegFcn(r)[0])]
    BY <1>7, <1>9, <2>1, <2>3, ReadSegmentsAt
  <2>5. ReadFcn(wire)[y] = [ok |-> TRUE, payload |-> r, next |-> y + Len(t)]
    BY <2>2, <2>4, Zenon DEF t
  <2>6. ReadSegments(wire, y) = ReadFcn(wire)[y]
    BY ReadSegmentsIsFcn, Zenon
  <2> QED BY <2>5, <2>6, Zenon DEF y
<1>21. rec.ok /\ rec.payload = r /\ rec.next = p + 1 + ext + f + Len(t)
  OBVIOUS
<1> HIDE DEF rec
<1>22. p + 1 + ext + f + Len(t) = p + Len(WriteDSS(NewObject(cp, body), chained, ext))
  <2>1. PICK n : n = Len(((<<h>> \o x) \o b) \o t)
    OBVIOUS
  <2>2. p + 1 + ext + f + Len(t) = p + n
    BY <1>2, <1>13, <2>1
  <2> QED BY <1>4, <2>1, <2>2, Zenon
<1>23. ReadDSS(wire, p) = [ok |-> TRUE, cp |-> h.cp, chained |-> h.chained,
                           payload |-> a \o rec.payload, next |-> rec.next]
  BY <1>3, <1>15, <1>16, <1>17, <1>18, <1>19, <1>20, <1>21, Zenon DEF ReadDSS
<1> QED BY <1>3, <1>7, <1>21, <1>22, <1>23, Zenon

\* A DSS is read back: its code point, its flag and its body, whatever the body's length and
\* whether the extended length has four bytes or none, and reading stops where it ends.
THEOREM ReadsBack ==
    ASSUME NEW B, NEW body \in Seq(B), NEW cp \in B, NEW chained \in BOOLEAN, NEW ext \in {0, 4},
           NEW wire \in Seq(Items(B)), NEW p \in Nat, p > 0,
           At(wire, p, WriteDSS(NewObject(cp, body), chained, ext))
    PROVE  ReadDSS(wire, p) =
             [ok |-> TRUE, cp |-> cp, chained |-> chained, payload |-> body,
              next |-> p + Len(WriteDSS(NewObject(cp, body), chained, ext))]
<1>1. Len(body) + 10 <= MaxDSSLength \/ Len(body) + 10 > MaxDSSLength
  BY FramingAssumption DEF MaxDSSLength
<1>2. CASE Len(body) + 10 <= MaxDSSLength
  BY <1>2, ReadShort, ZenonT(60)
<1>3. CASE Len(body) + 10 > MaxDSSLength
  BY <1>3, ReadLong, ZenonT(60)
<1> QED BY <1>1, <1>2, <1>3, Zenon

---------------------------------------------------------------------------
(* FlattenSeq *)

\* The first k sequences of ss one after the other is Cat(ss)[k].
CatStep(ss, g, k) == IF k = 0 THEN <<>> ELSE g[k - 1] \o ss[k]
Cat(ss) == CHOOSE g : g = [k \in 0..Len(ss) |-> CatStep(ss, g, k)]

LEMMA CatExists ==
    ASSUME NEW I, NEW ss \in Seq(I)
    PROVE  Cat(ss) = [k \in 0..Len(ss) |-> CatStep(ss, Cat(ss), k)]
<1> DEFINE S == {n \in Nat : \E g : g = [k \in 0..n |-> CatStep(ss, g, k)]}
<1>1. ASSUME NEW g, NEW h, NEW k \in Nat, k # 0 => g[k - 1] = h[k - 1]
      PROVE  CatStep(ss, g, k) = CatStep(ss, h, k)
  BY <1>1, Zenon DEF CatStep
<1>2. ASSUME NEW n \in Nat, \A m \in Nat : m < n => m \in S
      PROVE  n \in S
  <2>1. PICK g : n # 0 => g = [k \in 0..(n - 1) |-> CatStep(ss, g, k)]
    <3>1. CASE n = 0
      BY <3>1
    <3>2. CASE n # 0
      <4>1. n - 1 \in S
        BY <1>2, <3>2
      <4> QED BY <4>1
    <3> QED BY <3>1, <3>2
  <2> DEFINE h == [k \in 0..n |-> IF k = n THEN CatStep(ss, g, k) ELSE g[k]]
  <2>2. ASSUME NEW k \in 0..n PROVE h[k] = CatStep(ss, h, k)
    <3>1. k # 0 => g[k - 1] = h[k - 1]
      OBVIOUS
    <3>2. CatStep(ss, g, k) = CatStep(ss, h, k)
      <4> HIDE DEF h
      <4> QED BY <3>1, <1>1
    <3>3. k # n => g[k] = CatStep(ss, g, k)
      BY <2>1
    <3> QED BY <3>2, <3>3
  <2>3. h = [k \in 0..n |-> CatStep(ss, h, k)]
    BY <2>2
  <2> QED BY <2>3
<1>3. Len(ss) \in S
  <2>1. Len(ss) \in Nat
    OBVIOUS
  <2> HIDE DEF S
  <2> QED BY <1>2, <2>1, Induction
<1> QED BY <1>3 DEF Cat

LEMMA CatEmpty ==
    ASSUME NEW I, NEW ss \in Seq(I)
    PROVE  Cat(ss)[0] = <<>>
<1>1. Cat(ss)[0] = CatStep(ss, Cat(ss), 0)
  BY CatExists
<1> QED BY <1>1, Zenon DEF CatStep

LEMMA CatNext ==
    ASSUME NEW I, NEW ss \in Seq(I), NEW k \in 1..Len(ss)
    PROVE  Cat(ss)[k] = Cat(ss)[k - 1] \o ss[k]
<1>1. Cat(ss)[k] = CatStep(ss, Cat(ss), k)
  BY CatExists
<1>2. k # 0
  OBVIOUS
<1> QED BY <1>1, <1>2, Zenon DEF CatStep

LEMMA CatType ==
    ASSUME NEW I, NEW ss \in Seq(Seq(I)), NEW k \in 0..Len(ss)
    PROVE  Cat(ss)[k] \in Seq(I)
<1> DEFINE S == {n \in Nat : n <= Len(ss) => Cat(ss)[n] \in Seq(I)}
<1>1. ASSUME NEW n \in Nat, \A m \in Nat : m < n => m \in S
      PROVE  n \in S
  <2> SUFFICES ASSUME n <= Len(ss) PROVE Cat(ss)[n] \in Seq(I)
    OBVIOUS
  <2>1. CASE n = 0
    <3>1. <<>> \in Seq(I)
      OBVIOUS
    <3> QED BY <2>1, <3>1, CatEmpty, Zenon
  <2>2. CASE n # 0
    <3>1. Cat(ss)[n - 1] \in Seq(I)
      BY <1>1, <2>2
    <3>2. n \in 1..Len(ss) /\ ss[n] \in Seq(I)
      BY <2>2
    <3> QED BY <3>1, <3>2, CatNext, ConcatProps, Zenon
  <2> QED BY <2>1, <2>2
<1>2. k \in S
  <2>1. k \in Nat
    OBVIOUS
  <2> HIDE DEF S
  <2> QED BY <1>1, <2>1, Induction
<1> QED BY <1>2

\* It depends on those first k only.
LEMMA CatPrefix ==
    ASSUME NEW I, NEW ss \in Seq(I), NEW tt \in Seq(I), NEW k \in 0..Len(ss), k <= Len(tt),
           \A i \in 1..k : ss[i] = tt[i]
    PROVE  Cat(ss)[k] = Cat(tt)[k]
<1> DEFINE S == {n \in Nat : n <= k => Cat(ss)[n] = Cat(tt)[n]}
<1>1. ASSUME NEW n \in Nat, \A m \in Nat : m < n => m \in S
      PROVE  n \in S
  <2> SUFFICES ASSUME n <= k PROVE Cat(ss)[n] = Cat(tt)[n]
    OBVIOUS
  <2>1. CASE n = 0
    BY <2>1, CatEmpty, Zenon
  <2>2. CASE n # 0
    <3>1. Cat(ss)[n - 1] = Cat(tt)[n - 1]
      BY <1>1, <2>2
    <3>2. n \in 1..Len(ss) /\ n \in 1..Len(tt) /\ ss[n] = tt[n]
      BY <2>2
    <3> QED BY <3>1, <3>2, CatNext, Zenon
  <2> QED BY <2>1, <2>2
<1>2. k \in S
  <2>1. k \in Nat
    OBVIOUS
  <2> HIDE DEF S
  <2> QED BY <1>1, <2>1, Induction
<1> QED BY <1>2

FlatStep(ss, g, i) == IF i = 1 THEN ss[i] ELSE g[i - 1] \o ss[i]
FlatFcn(ss) == CHOOSE g : g = [i \in 1..Len(ss) |-> FlatStep(ss, g, i)]

LEMMA FlattenIsCat ==
    ASSUME NEW I, NEW ss \in Seq(Seq(I))
    PROVE  FlattenSeq(ss) = Cat(ss)[Len(ss)]
<1>1. CASE Len(ss) = 0
  <2>1. ss = <<>>
    BY <1>1
  <2> QED BY <1>1, <2>1, CatEmpty, Zenon DEF FlattenSeq
<1>2. CASE Len(ss) # 0
  <2> DEFINE h == [i \in 1..Len(ss) |-> Cat(ss)[i]]
  <2>1. ASSUME NEW i \in 1..Len(ss) PROVE h[i] = FlatStep(ss, h, i)
    <3>1. CASE i = 1
      <4>1. Cat(ss)[1] = Cat(ss)[0] \o ss[1]
        <5>1. 1 \in 1..Len(ss) /\ 1 - 1 = 0
          BY <3>1
        <5>2. Cat(ss)[1] = Cat(ss)[1 - 1] \o ss[1]
          BY <5>1, CatNext, Zenon
        <5> QED BY <5>1, <5>2, Zenon
      <4>2. <<>> \o ss[1] = ss[1]
        BY <3>1
      <4>3. Cat(ss)[1] = ss[1]
        BY <4>1, <4>2, CatEmpty, Zenon
      <4> QED BY <3>1, <4>3 DEF FlatStep
    <3>2. CASE i # 1
      <4>1. Cat(ss)[i] = Cat(ss)[i - 1] \o ss[i]
        BY CatNext
      <4>2. h[i] = Cat(ss)[i] /\ h[i - 1] = Cat(ss)[i - 1]
        BY <3>2
      <4> HIDE DEF h
      <4> QED BY <3>2, <4>1, <4>2, Zenon DEF FlatStep
    <3> QED BY <3>1, <3>2
  <2>2. h = [i \in 1..Len(ss) |-> FlatStep(ss, h, i)]
    BY <2>1
  <2>3. FlatFcn(ss) = [i \in 1..Len(ss) |-> FlatStep(ss, FlatFcn(ss), i)]
    BY <2>2 DEF FlatFcn
  <2> DEFINE S == {n \in Nat : n \in 1..Len(ss) => FlatFcn(ss)[n] = h[n]}
  <2>4. ASSUME NEW n \in Nat, \A m \in Nat : m < n => m \in S
        PROVE  n \in S
    <3> SUFFICES ASSUME n \in 1..Len(ss) PROVE FlatFcn(ss)[n] = h[n]
      OBVIOUS
    <3>1. FlatFcn(ss)[n] = FlatStep(ss, FlatFcn(ss), n) /\ h[n] = FlatStep(ss, h, n)
      BY <2>1, <2>3
    <3>2. n # 1 => FlatFcn(ss)[n - 1] = h[n - 1]
      <4> SUFFICES ASSUME n # 1 PROVE FlatFcn(ss)[n - 1] = h[n - 1]
        OBVIOUS
      <4>1. n - 1 \in Nat /\ n - 1 < n /\ n - 1 \in 1..Len(ss)
        OBVIOUS
      <4>2. n - 1 \in S
        BY <2>4, <4>1, Zenon
      <4> HIDE DEF h
      <4> QED BY <4>1, <4>2, Zenon
    <3> HIDE DEF h
    <3> QED BY <3>1, <3>2, Zenon DEF FlatStep
  <2>5. Len(ss) \in S
    <3>1. Len(ss) \in Nat
      OBVIOUS
    <3> HIDE DEF S
    <3> QED BY <2>4, <3>1, Induction
  <2>6. FlattenSeq(ss) = FlatFcn(ss)[Len(ss)]
    BY <1>2 DEF FlattenSeq, FlatFcn, FlatStep
  <2>7. Len(ss) \in 1..Len(ss)
    BY <1>2
  <2> QED BY <2>5, <2>6, <2>7
<1> QED BY <1>1, <1>2

\* Where the k-th of the sequences stands.
LEMMA AtCat ==
    ASSUME NEW I, NEW ss \in Seq(Seq(I)), NEW wire \in Seq(I), NEW p \in Nat,
           At(wire, p, Cat(ss)[Len(ss)]), NEW k \in 1..Len(ss)
    PROVE  At(wire, p + Len(Cat(ss)[k - 1]), ss[k])
<1> DEFINE N == Len(ss)
           S == {m \in Nat : m <= N => At(wire, p, Cat(ss)[N - m])}
<1>0. N \in Nat
  OBVIOUS
<1>1. ASSUME NEW j \in 1..N, At(wire, p, Cat(ss)[j])
      PROVE  At(wire, p, Cat(ss)[j - 1]) /\ At(wire, p + Len(Cat(ss)[j - 1]), ss[j])
  <2>1. Cat(ss)[j] = Cat(ss)[j - 1] \o ss[j]
    BY CatNext
  <2>2. j - 1 \in 0..N /\ ss[j] \in Seq(I)
    OBVIOUS
  <2>3. Cat(ss)[j - 1] \in Seq(I)
    BY <2>2, CatType, Zenon
  <2> QED BY <1>1, <2>1, <2>2, <2>3, AtConcat, ZenonT(60)
<1>2. ASSUME NEW n \in Nat, \A m \in Nat : m < n => m \in S
      PROVE  n \in S
  <2> SUFFICES ASSUME n <= N PROVE At(wire, p, Cat(ss)[N - n])
    OBVIOUS
  <2>1. CASE n = 0
    <3>1. N - n = N
      BY <1>0, <2>1
    <3> QED BY <3>1, Zenon
  <2>2. CASE n # 0
    <3>1. n - 1 \in S /\ n - 1 <= N
      <4>1. n - 1 \in Nat /\ n - 1 < n /\ n - 1 <= N
        BY <1>0, <2>2
      <4> QED BY <1>2, <4>1, Zenon
    <3>2. N - (n - 1) \in 1..N /\ N - (n - 1) - 1 = N - n
      BY <2>2, <1>0
    <3>3. At(wire, p, Cat(ss)[N - (n - 1)])
      BY <3>1, Zenon
    <3>4. At(wire, p, Cat(ss)[N - (n - 1) - 1])
      BY <1>1, <3>2, <3>3, Zenon
    <3> QED BY <3>2, <3>4, Zenon
  <2> QED BY <2>1, <2>2
<1>3. N - k \in Nat /\ N - k <= N /\ N - (N - k) = k
  BY <1>0
<1>4. N - k \in S
  <2> HIDE DEF S
  <2> QED BY <1>2, <1>3, Induction
<1>5. At(wire, p, Cat(ss)[k])
  BY <1>3, <1>4, Zenon
<1> QED BY <1>1, <1>5, Zenon

---------------------------------------------------------------------------
(* Reading stops inside the stream, and what was read stays so when more arrives *)

\* v is the beginning of w.
Begins(v, w) == Len(v) <= Len(w) /\ \A i \in 1..Len(v) : v[i] = w[i]

LEMMA BeginsData ==
    ASSUME NEW I, NEW v \in Seq(I), NEW w \in Seq(I), Begins(v, w), NEW p \in Nat, p > 0,
           NEW n \in Int, HasData(v, p, n)
    PROVE  HasData(w, p, n) /\ Payload(w, p, n) = Payload(v, p, n) /\ n \in Nat
           /\ p + n \in p..(Len(v) + 1)
<1>1. n >= 0 /\ p + n - 1 <= Len(v) /\ \A i \in p..(p + n - 1) : v[i].kind = "data"
  BY DEF HasData
<1>2. Len(v) <= Len(w) /\ Len(v) \in Nat /\ Len(w) \in Nat /\ \A i \in 1..Len(v) : v[i] = w[i]
  BY DEF Begins
<1>3. \A i \in p..(p + n - 1) : i \in 1..Len(v)
  BY <1>1, <1>2
<1>4. \A i \in p..(p + n - 1) : w[i].kind = "data"
  BY <1>1, <1>2, <1>3, Zenon
<1>5. \A i \in 1..n : p + i - 1 \in 1..Len(v)
  BY <1>1, <1>2
<1>6. \A i \in 1..n : w[p + i - 1].byte = v[p + i - 1].byte
  BY <1>2, <1>5, Zenon
<1>7. Payload(w, p, n) = Payload(v, p, n)
  BY <1>6, Zenon DEF Payload
<1>8. HasData(w, p, n)
  <2>1. p + n - 1 <= Len(w)
    BY <1>1, <1>2
  <2> QED BY <1>1, <1>4, <2>1, Zenon DEF HasData
<1>9. n \in Nat /\ p + n \in p..(Len(v) + 1)
  BY <1>1, <1>2
<1> QED BY <1>7, <1>8, <1>9

LEMMA WordType ==
    ASSUME NEW B, NEW wire \in Seq(Items(B)), NEW p \in 1..Len(wire), wire[p].kind = "word"
    PROVE  wire[p].len \in Int /\ (wire[p].len % HighBit) - 2 \in Int
<1>1. wire[p] \in Items(B)
  OBVIOUS
<1>2. wire[p].len \in Int
  BY <1>1 DEF Items, ExtByte
<1> QED BY <1>2, FramingAssumption

LEMMA SegmentsStay ==
    ASSUME NEW B, NEW v \in Seq(Items(B)), NEW w \in Seq(Items(B)), Begins(v, w),
           NEW p \in 1..(Len(v) + 1)
    PROVE  \/ ReadFcn(v)[p] = Invalid
           \/ /\ ReadFcn(v)[p].ok
              /\ ReadFcn(v)[p].next \in (p + 1)..(Len(v) + 1)
              /\ ReadFcn(w)[p] = ReadFcn(v)[p]
<1> DEFINE N == Len(v)
           P(x) == \/ ReadFcn(v)[x] = Invalid
                   \/ /\ ReadFcn(v)[x].ok
                      /\ ReadFcn(v)[x].next \in (x + 1)..(N + 1)
                      /\ ReadFcn(w)[x] = ReadFcn(v)[x]
           S == {m \in Nat : m <= N => P(N + 1 - m)}
<1>0. N \in Nat /\ N <= Len(w) /\ Len(w) \in Nat
  BY DEF Begins
<1>1. ASSUME NEW x \in 1..(N + 1), \A y \in (x + 1)..(N + 1) : P(y)
      PROVE  P(x)
  <2> HIDE DEF P
  <2>1. ReadFcn(v)[x] = ReadStep(v, ReadFcn(v), x)
    BY ReadFcnExists
  <2>2. ReadFcn(w)[x] = ReadStep(w, ReadFcn(w), x)
    <3>1. x \in 1..(Len(w) + 1)
      BY <1>0
    <3> QED BY <3>1, ReadFcnExists
  <2> DEFINE n == (v[x].len % HighBit) - 2
  <2>3. CASE x > Len(v) \/ v[x].kind # "word" \/ ~HasData(v, x + 1, n)
    <3>1. ReadStep(v, ReadFcn(v), x) = Invalid
      BY <2>3, Zenon DEF ReadStep
    <3> QED BY <2>1, <3>1, Zenon DEF P
  <2>4. CASE ~(x > Len(v)) /\ v[x].kind = "word" /\ HasData(v, x + 1, n)
    <3>1. x \in 1..Len(v) /\ x \in Nat /\ x + 1 \in Nat /\ x + 1 > 0 /\ ~(x > Len(w))
      BY <1>0, <2>4
    <3>2. v[x].len \in Int /\ n \in Int /\ w[x] = v[x]
      BY <2>4, <3>1, WordType DEF Begins
    <3> HIDE DEF n
    <3>3. /\ HasData(w, x + 1, n) /\ Payload(w, x + 1, n) = Payload(v, x + 1, n) /\ n \in Nat
          /\ x + 1 + n \in (x + 1)..(N + 1)
      BY <2>4, <3>1, <3>2, BeginsData
    <3>4. CASE v[x].len < HighBit
      <4> DEFINE r == [ok |-> TRUE, payload |-> Payload(v, x + 1, n), next |-> x + 1 + n]
      <4>1. ReadStep(v, ReadFcn(v), x) = r
        BY <2>4, <3>4, Zenon DEF ReadStep, n
      <4>2. ReadStep(w, ReadFcn(w), x) = r
        BY <2>4, <3>1, <3>2, <3>3, <3>4, Zenon DEF ReadStep, n
      <4>3. r.ok /\ r.next = x + 1 + n
        OBVIOUS
      <4> HIDE DEF r
      <4> QED BY <2>1, <2>2, <3>3, <4>1, <4>2, <4>3, Zenon DEF P
    <3>5. CASE ~(v[x].len < HighBit)
      <4>1. P(x + 1 + n)
        BY <1>1, <3>3, Zenon
      <4> DEFINE g == ReadFcn(v)[x + 1 + n]
                 r == [ok |-> TRUE, payload |-> Payload(v, x + 1, n) \o g.payload, next |-> g.next]
      <4>2. CASE g = Invalid
        <5>1. ~g.ok
          BY <4>2 DEF Invalid
        <5>2. ReadStep(v, ReadFcn(v), x) = Invalid
          BY <2>4, <3>5, <5>1, Zenon DEF ReadStep, n
        <5> QED BY <2>1, <5>2, Zenon DEF P
      <4>3. CASE g # Invalid
        <5>1. g.ok /\ g.next \in (x + 1 + n + 1)..(N + 1) /\ ReadFcn(w)[x + 1 + n] = g
          BY <4>1, <4>3, Zenon DEF P
        <5>2. ReadStep(v, ReadFcn(v), x) = r
          BY <2>4, <3>5, <5>1, Zenon DEF ReadStep, n
        <5>3. ReadStep(w, ReadFcn(w), x) = r
          BY <2>4, <3>1, <3>2, <3>3, <3>5, <5>1, Zenon DEF ReadStep, n
        <5>4. r.ok /\ r.next = g.next
          OBVIOUS
        <5>5. g.next \in (x + 1)..(N + 1)
          BY <1>0, <3>1, <3>3, <5>1
        <5> HIDE DEF r, g
        <5> QED BY <2>1, <2>2, <5>2, <5>3, <5>4, <5>5, Zenon DEF P
      <4> QED BY <4>2, <4>3, Zenon
    <3> QED BY <3>4, <3>5, Zenon
  <2> QED BY <2>3, <2>4, Zenon
<1>2. ASSUME NEW m \in Nat, \A l \in Nat : l < m => l \in S
      PROVE  m \in S
  <2> SUFFICES ASSUME m <= N PROVE P(N + 1 - m)
    OBVIOUS
  <2> HIDE DEF P
  <2>1. N + 1 - m \in 1..(N + 1)
    BY <1>0
  <2>2. ASSUME NEW y \in (N + 1 - m + 1)..(N + 1) PROVE P(y)
    <3>1. N + 1 - y \in Nat /\ N + 1 - y < m /\ N + 1 - y <= N /\ N + 1 - (N + 1 - y) = y
      BY <1>0
    <3>2. N + 1 - y \in S
      BY <1>2, <3>1, Zenon
    <3>3. P(N + 1 - (N + 1 - y))
      BY <3>1, <3>2, Zenon
    <3> QED BY <3>1, <3>3, Zenon
  <2> QED BY <1>1, <2>1, <2>2, Zenon
<1>3. N + 1 - p \in Nat /\ N + 1 - p <= N /\ N + 1 - (N + 1 - p) = p
  BY <1>0
<1>4. N + 1 - p \in S
  <2> HIDE DEF S
  <2> QED BY <1>2, <1>3, Induction
<1>5. P(p)
  <2> HIDE DEF P
  <2>1. P(N + 1 - (N + 1 - p))
    BY <1>3, <1>4, Zenon
  <2> QED BY <1>3, <2>1, Zenon
<1> QED BY <1>5

LEMMA HeaderFields ==
    ASSUME NEW B, NEW wire \in Seq(Items(B)), NEW p \in 1..Len(wire), wire[p].kind = "header"
    PROVE  /\ wire[p].len \in Int /\ wire[p].obj \in Int
           /\ ExtLen(wire[p]) \in Int /\ FirstLen(wire[p]) \in Int
<1>1. wire[p] \in Items(B)
  OBVIOUS
<1>2. wire[p].len \in Int /\ wire[p].obj \in Int
  BY <1>1 DEF Items, ExtByte
<1>3. ExtLen(wire[p]) \in Int
  BY <1>2, FramingAssumption DEF ExtLen
<1>4. FirstLen(wire[p]) \in Int
  BY <1>2, <1>3, FramingAssumption DEF FirstLen
<1> QED BY <1>2, <1>3, <1>4

LEMMA DSSStays ==
    ASSUME NEW B, NEW v \in Seq(Items(B)), NEW w \in Seq(Items(B)), Begins(v, w),
           NEW p \in 1..(Len(v) + 1)
    PROVE  \/ ReadDSS(v, p) = Invalid
           \/ /\ ReadDSS(v, p).ok
              /\ ReadDSS(v, p).next \in (p + 1)..(Len(v) + 1)
              /\ ReadDSS(w, p) = ReadDSS(v, p)
<1> DEFINE h == v[p]
           N == Len(v)
           result(payload, next) ==
             [ok |-> TRUE, cp |-> h.cp, chained |-> h.chained, payload |-> payload, next |-> next]
           Goal == \/ ReadDSS(v, p) = Invalid
                   \/ /\ ReadDSS(v, p).ok
                      /\ ReadDSS(v, p).next \in (p + 1)..(N + 1)
                      /\ ReadDSS(w, p) = ReadDSS(v, p)
<1>0. N \in Nat /\ N <= Len(w) /\ Len(w) \in Nat
  BY DEF Begins
<1>1. CASE p > Len(v) \/ h.kind # "header"
  BY <1>1, Zenon DEF ReadDSS
<1>2. CASE ~(p > Len(v)) /\ h.kind = "header"
  <2>1. p \in 1..N /\ p \in Nat /\ p + 1 \in Nat /\ p + 1 > 0 /\ ~(p > Len(w))
    BY <1>0, <1>2
  <2>2. w[p] = h
    BY <2>1 DEF Begins
  <2>3. h.len \in Int /\ h.obj \in Int /\ ExtLen(h) \in Int /\ FirstLen(h) \in Int
    BY <1>2, <2>1, HeaderFields, Zenon
  <2> DEFINE x == ExtLen(h)
             f == FirstLen(h)
  <2> HIDE DEF h
  <2>4. CASE h.len < HighBit /\ h.obj < HighBit
    <3>1. CASE h.obj >= 4 /\ h.obj = h.len - 6 /\ HasData(v, p + 1, h.obj - 4)
      <4> DEFINE n == h.obj - 4
      <4>1. n \in Int
        BY <2>3
      <4>2. /\ HasData(w, p + 1, n) /\ Payload(w, p + 1, n) = Payload(v, p + 1, n) /\ n \in Nat
            /\ p + 1 + n \in (p + 1)..(N + 1)
        <5> HIDE DEF n
        <5>1. HasData(v, p + 1, n)
          BY <3>1 DEF n
        <5> QED BY <2>1, <4>1, <5>1, BeginsData
      <4> DEFINE r == result(Payload(v, p + 1, n), p + 1 + n)
      <4>3. ReadDSS(v, p) = r
        BY <1>2, <2>4, <3>1, Zenon DEF ReadDSS, h
      <4>4. ReadDSS(w, p) = r
        BY <1>2, <2>1, <2>2, <2>4, <3>1, <4>2, Zenon DEF ReadDSS
      <4>5. r.ok /\ r.next = p + 1 + n
        OBVIOUS
      <4> HIDE DEF r, n
      <4> QED BY <4>2, <4>3, <4>4, <4>5, Zenon
    <3>2. CASE ~(h.obj >= 4 /\ h.obj = h.len - 6 /\ HasData(v, p + 1, h.obj - 4))
      BY <1>2, <2>4, <3>2, Zenon DEF ReadDSS, h
    <3> QED BY <3>1, <3>2, Zenon
  <2>5. CASE ~(h.len < HighBit /\ h.obj < HighBit)
    <3> DEFINE bad == \/ ~(x \in 0..8)
                      \/ \E i \in (p + 1)..(p + x) : i > Len(v) \/ v[i] # ExtByte
                      \/ ~HasData(v, p + 1 + x, f)
    <3>1. CASE bad
      BY <1>2, <2>5, <3>1, Zenon DEF ReadDSS, h
    <3>2. CASE ~bad
      <4>1. x \in 0..8 /\ x \in Nat /\ p + 1 + x \in Nat /\ p + 1 + x > 0
        BY <2>1, <3>2
      <4>2. ~(\E i \in (p + 1)..(p + x) : i > Len(w) \/ w[i] # ExtByte)
        <5> SUFFICES ASSUME NEW i \in (p + 1)..(p + x) PROVE ~(i > Len(w)) /\ w[i] = ExtByte
          OBVIOUS
        <5>1. ~(i > Len(v)) /\ v[i] = ExtByte
          BY <3>2, Zenon
        <5>2. i \in 1..N /\ ~(i > Len(w))
          BY <1>0, <2>1, <4>1, <5>1
        <5> QED BY <5>1, <5>2 DEF Begins
      <4>3. /\ HasData(w, p + 1 + x, f) /\ Payload(w, p + 1 + x, f) = Payload(v, p + 1 + x, f)
            /\ f \in Nat /\ p + 1 + x + f \in (p + 1 + x)..(N + 1)
        <5>1. HasData(v, p + 1 + x, f)
          BY <3>2, Zenon
        <5> HIDE DEF x, f
        <5>2. f \in Int
          BY <2>3 DEF f
        <5> QED BY <4>1, <5>1, <5>2, BeginsData
      <4>4. CASE h.len < HighBit
        <5> DEFINE r == result(Payload(v, p + 1 + x, f), p + 1 + x + f)
        <5>1. ReadDSS(v, p) = r
          BY <1>2, <2>5, <3>2, <4>4, Zenon DEF ReadDSS, h
        <5>2. ReadDSS(w, p) = r
          BY <1>2, <2>1, <2>2, <2>5, <3>2, <4>2, <4>3, <4>4, Zenon DEF ReadDSS
        <5>3. r.ok /\ r.next = p + 1 + x + f
          OBVIOUS
        <5>4. p + 1 + x + f \in (p + 1)..(N + 1)
          BY <1>0, <2>1, <4>1, <4>3
        <5> HIDE DEF r, x, f
        <5> QED BY <5>1, <5>2, <5>3, <5>4, Zenon
      <4>5. CASE ~(h.len < HighBit)
        <5> DEFINE y == p + 1 + x + f
                   g == ReadSegments(v, y)
                   r == result(Payload(v, p + 1 + x, f) \o g.payload, g.next)
        <5>1. y \in 1..(N + 1)
          BY <1>0, <2>1, <4>1, <4>3
        <5>2. g = ReadFcn(v)[y] /\ ReadSegments(w, y) = ReadFcn(w)[y]
          BY ReadSegmentsIsFcn, Zenon
        <5>3. \/ g = Invalid
              \/ g.ok /\ g.next \in (y + 1)..(N + 1) /\ ReadSegments(w, y) = g
          <6> HIDE DEF y, g
          <6> QED BY <5>1, <5>2, SegmentsStay, Zenon
        <5>4. CASE g = Invalid
          <6>1. ~g.ok
            BY <5>4 DEF Invalid
          <6> QED BY <1>2, <2>5, <3>2, <4>5, <6>1, Zenon DEF ReadDSS, h
        <5>5. CASE g # Invalid
          <6>1. g.ok /\ g.next \in (y + 1)..(N + 1) /\ ReadSegments(w, y) = g
            BY <5>3, <5>5, Zenon
          <6>2. ReadDSS(v, p) = r
            BY <1>2, <2>5, <3>2, <4>5, <6>1, Zenon DEF ReadDSS, h
          <6>3. ReadDSS(w, p) = r
            BY <1>2, <2>1, <2>2, <2>5, <3>2, <4>2, <4>3, <4>5, <6>1, Zenon DEF ReadDSS
          <6>4. r.ok /\ r.next = g.next
            OBVIOUS
          <6>5. g.next \in (p + 1)..(N + 1)
            <7> HIDE DEF g, x, f
            <7> QED BY <1>0, <2>1, <4>1, <4>3, <6>1
          <6> HIDE DEF r, g, x, f
          <6> QED BY <6>2, <6>3, <6>4, <6>5, Zenon
        <5> QED BY <5>4, <5>5, Zenon
      <4> QED BY <4>4, <4>5, Zenon
    <3> QED BY <3>1, <3>2, Zenon
  <2> QED BY <2>4, <2>5, Zenon
<1> QED BY <1>1, <1>2, Zenon

---------------------------------------------------------------------------
(* ReadChain *)

\* What ReadChain does at position p, g for the positions behind it.
ChainStep(wire, g, p) ==
    LET d == ReadDSS(wire, p) IN
    IF ~d.ok THEN Invalid
    ELSE IF ~d.chained
    THEN [ok |-> TRUE, chain |-> <<[cp |-> d.cp, body |-> d.payload]>>,
          rest |-> SubSeq(wire, d.next, Len(wire))]
    ELSE LET r == g[d.next] IN
         IF ~r.ok THEN Invalid
         ELSE [ok |-> TRUE, chain |-> <<[cp |-> d.cp, body |-> d.payload]>> \o r.chain,
               rest |-> r.rest]

ChainFcn(wire) == CHOOSE g : g = [p \in 1..(Len(wire) + 1) |-> ChainStep(wire, g, p)]

LEMMA ChainFcnExists ==
    ASSUME NEW B, NEW wire \in Seq(Items(B))
    PROVE  ChainFcn(wire) = [p \in 1..(Len(wire) + 1) |-> ChainStep(wire, ChainFcn(wire), p)]
<1> DEFINE N == Len(wire)
           Dom(k) == (N + 1 - k)..(N + 1)
           S == {k \in Nat : k <= N => \E g : g = [i \in Dom(k) |-> ChainStep(wire, g, i)]}
<1>1. N \in Nat /\ Begins(wire, wire)
  BY DEF Begins
<1>2. ASSUME NEW g, NEW h, NEW i \in 1..(N + 1), \A j \in (i + 1)..(N + 1) : g[j] = h[j]
      PROVE  ChainStep(wire, g, i) = ChainStep(wire, h, i)
  <2> DEFINE d == ReadDSS(wire, i)
  <2>1. \/ d = Invalid
        \/ d.ok /\ d.next \in (i + 1)..(N + 1)
    BY <1>1, DSSStays, Zenon
  <2>2. CASE d = Invalid
    <3>1. ~d.ok
      BY <2>2 DEF Invalid
    <3> QED BY <3>1, Zenon DEF ChainStep
  <2>3. CASE d # Invalid
    <3>1. g[d.next] = h[d.next]
      BY <1>2, <2>1, <2>3, Zenon
    <3> QED BY <3>1, Zenon DEF ChainStep
  <2> QED BY <2>2, <2>3, Zenon
<1>3. ASSUME NEW k \in Nat, \A m \in Nat : m < k => m \in S
      PROVE  k \in S
  <2> SUFFICES ASSUME k <= N PROVE \E g : g = [i \in Dom(k) |-> ChainStep(wire, g, i)]
    OBVIOUS
  <2>1. PICK g : k # 0 => g = [i \in Dom(k - 1) |-> ChainStep(wire, g, i)]
    <3>1. CASE k = 0
      BY <3>1
    <3>2. CASE k # 0
      <4>1. k - 1 \in S
        BY <1>3, <3>2
      <4> QED BY <4>1, <1>1
    <3> QED BY <3>1, <3>2
  <2> DEFINE h == [i \in Dom(k) |-> IF i = N + 1 - k THEN ChainStep(wire, g, i) ELSE g[i]]
  <2>2. ASSUME NEW i \in Dom(k) PROVE h[i] = ChainStep(wire, h, i)
    <3>1. \A j \in (i + 1)..(N + 1) : g[j] = h[j]
      BY <1>1
    <3>2. ChainStep(wire, g, i) = ChainStep(wire, h, i)
      <4> HIDE DEF h
      <4> QED BY <3>1, <1>2, <1>1
    <3>3. i # N + 1 - k => g[i] = ChainStep(wire, g, i)
      BY <2>1, <1>1
    <3> QED BY <3>2, <3>3
  <2>3. h = [i \in Dom(k) |-> ChainStep(wire, h, i)]
    BY <2>2
  <2> QED BY <2>3
<1>4. N \in S
  <2> HIDE DEF S
  <2> QED BY <1>1, <1>3, Induction
<1>5. \E g : g = [i \in 1..(N + 1) |-> ChainStep(wire, g, i)]
  BY <1>1, <1>4
<1> QED BY <1>5 DEF ChainFcn

LEMMA ReadChainIsFcn ==
    ASSUME NEW wire
    PROVE  ReadChain(wire) = ChainFcn(wire)[1]
BY DEF ReadChain, ChainFcn, ChainStep

\* A chain read from the beginning of a stream is read from the whole of it, and leaves
\* behind it what the beginning lacks.
LEMMA ChainStays ==
    ASSUME NEW B, NEW v \in Seq(Items(B)), NEW w \in Seq(Items(B)), Begins(v, w),
           NEW p \in 1..(Len(v) + 1)
    PROVE  \/ ChainFcn(v)[p] = Invalid
           \/ /\ ChainFcn(v)[p].ok /\ ChainFcn(w)[p].ok
              /\ Len(ChainFcn(v)[p].rest) \in Nat
              /\ Len(ChainFcn(w)[p].rest) = Len(ChainFcn(v)[p].rest) + (Len(w) - Len(v))
<1> DEFINE N == Len(v)
           P(x) == \/ ChainFcn(v)[x] = Invalid
                   \/ /\ ChainFcn(v)[x].ok /\ ChainFcn(w)[x].ok
                      /\ Len(ChainFcn(v)[x].rest) \in Nat
                      /\ Len(ChainFcn(w)[x].rest) = Len(ChainFcn(v)[x].rest) + (Len(w) - Len(v))
           S == {m \in Nat : m <= N => P(N + 1 - m)}
<1>0. N \in Nat /\ N <= Len(w) /\ Len(w) \in Nat
  BY DEF Begins
<1>1. ASSUME NEW x \in 1..(N + 1), \A y \in (x + 1)..(N + 1) : P(y)
      PROVE  P(x)
  <2> HIDE DEF P
  <2>1. ChainFcn(v)[x] = ChainStep(v, ChainFcn(v), x)
    BY ChainFcnExists
  <2>2. ChainFcn(w)[x] = ChainStep(w, ChainFcn(w), x)
    <3>1. x \in 1..(Len(w) + 1)
      BY <1>0
    <3> QED BY <3>1, ChainFcnExists
  <2> DEFINE d == ReadDSS(v, x)
             m == <<[cp |-> d.cp, body |-> d.payload]>>
  <2>3. \/ d = Invalid
        \/ d.ok /\ d.next \in (x + 1)..(N + 1) /\ ReadDSS(w, x) = d
    BY <1>1, DSSStays, Zenon
  <2>4. CASE d = Invalid
    <3>1. ~d.ok
      BY <2>4 DEF Invalid
    <3>2. ChainStep(v, ChainFcn(v), x) = Invalid
      BY <3>1, Zenon DEF ChainStep
    <3> QED BY <2>1, <3>2, Zenon DEF P
  <2>5. CASE d # Invalid
    <3>1. d.ok /\ d.next \in (x + 1)..(N + 1) /\ ReadDSS(w, x) = d
      BY <2>3, <2>5, Zenon
    <3>2. CASE ~d.chained
      <4> DEFINE r == [ok |-> TRUE, chain |-> m, rest |-> SubSeq(v, d.next, Len(v))]
                 t == [ok |-> TRUE, chain |-> m, rest |-> SubSeq(w, d.next, Len(w))]
      <4>1. ChainStep(v, ChainFcn(v), x) = r
        BY <3>1, <3>2, Zenon DEF ChainStep
      <4>2. ChainStep(w, ChainFcn(w), x) = t
        BY <3>1, <3>2, Zenon DEF ChainStep
      <4>3. r.ok /\ t.ok /\ r.rest = SubSeq(v, d.next, Len(v)) /\ t.rest = SubSeq(w, d.next, Len(w))
        OBVIOUS
      <4> HIDE DEF r, t, d
      <4>4. /\ Len(SubSeq(v, d.next, Len(v))) = Len(v) + 1 - d.next
            /\ Len(SubSeq(w, d.next, Len(w))) = Len(w) + 1 - d.next
        <5>1. d.next - 1 \in Nat /\ d.next - 1 <= Len(v) /\ d.next - 1 <= Len(w)
              /\ d.next - 1 + 1 = d.next /\ Len(v) <= Len(v) /\ Len(w) <= Len(w)
          BY <1>0, <3>1
        <5>2. Len(SubSeq(v, d.next - 1 + 1, Len(v))) = Len(v) - (d.next - 1)
          BY <1>0, <5>1, SubSeqType
        <5>3. Len(SubSeq(w, d.next - 1 + 1, Len(w))) = Len(w) - (d.next - 1)
          BY <1>0, <5>1, SubSeqType
        <5>4. /\ Len(v) - (d.next - 1) = Len(v) + 1 - d.next
              /\ Len(w) - (d.next - 1) = Len(w) + 1 - d.next
          BY <1>0, <3>1
        <5> QED BY <5>1, <5>2, <5>3, <5>4, Zenon
      <4>5. /\ Len(v) + 1 - d.next \in Nat
            /\ Len(w) + 1 - d.next = Len(v) + 1 - d.next + (Len(w) - Len(v))
        BY <1>0, <3>1
      <4> QED BY <2>1, <2>2, <4>1, <4>2, <4>3, <4>4, <4>5, Zenon DEF P
    <3>3. CASE d.chained
      <4> DEFINE g == ChainFcn(v)[d.next]
                 f == ChainFcn(w)[d.next]
                 r == [ok |-> TRUE, chain |-> m \o g.chain, rest |-> g.rest]
                 t == [ok |-> TRUE, chain |-> m \o f.chain, rest |-> f.rest]
      <4>1. P(d.next)
        BY <1>1, <3>1, Zenon
      <4>2. CASE g = Invalid
        <5>1. ~g.ok
          BY <4>2 DEF Invalid
        <5>2. ChainStep(v, ChainFcn(v), x) = Invalid
          BY <3>1, <3>3, <5>1, Zenon DEF ChainStep
        <5> QED BY <2>1, <5>2, Zenon DEF P
      <4>3. CASE g # Invalid
        <5>1. /\ g.ok /\ f.ok /\ Len(g.rest) \in Nat
              /\ Len(f.rest) = Len(g.rest) + (Len(w) - Len(v))
          BY <4>1, <4>3, Zenon DEF P
        <5>2. ChainStep(v, ChainFcn(v), x) = r
          BY <3>1, <3>3, <5>1, Zenon DEF ChainStep
        <5>3. ChainStep(w, ChainFcn(w), x) = t
          BY <3>1, <3>3, <5>1, Zenon DEF ChainStep
        <5>4. r.ok /\ t.ok /\ r.rest = g.rest /\ t.rest = f.rest
          OBVIOUS
        <5> HIDE DEF r, t, f, g
        <5> QED BY <2>1, <2>2, <5>1, <5>2, <5>3, <5>4, Zenon DEF P
      <4> QED BY <4>2, <4>3, Zenon
    <3> QED BY <3>2, <3>3, Zenon
  <2> QED BY <2>4, <2>5, Zenon
<1>2. ASSUME NEW m \in Nat, \A l \in Nat : l < m => l \in S
      PROVE  m \in S
  <2> SUFFICES ASSUME m <= N PROVE P(N + 1 - m)
    OBVIOUS
  <2> HIDE DEF P
  <2>1. N + 1 - m \in 1..(N + 1)
    BY <1>0
  <2>2. ASSUME NEW y \in (N + 1 - m + 1)..(N + 1) PROVE P(y)
    <3>1. N + 1 - y \in Nat /\ N + 1 - y < m /\ N + 1 - y <= N /\ N + 1 - (N + 1 - y) = y
      BY <1>0
    <3>2. N + 1 - y \in S
      BY <1>2, <3>1, Zenon
    <3>3. P(N + 1 - (N + 1 - y))
      BY <3>1, <3>2, Zenon
    <3> QED BY <3>1, <3>3, Zenon
  <2> QED BY <1>1, <2>1, <2>2, Zenon
<1>3. N + 1 - p \in Nat /\ N + 1 - p <= N /\ N + 1 - (N + 1 - p) = p
  BY <1>0
<1>4. N + 1 - p \in S
  <2> HIDE DEF S
  <2> QED BY <1>2, <1>3, Induction
<1>5. P(p)
  <2> HIDE DEF P
  <2>1. P(N + 1 - (N + 1 - p))
    BY <1>3, <1>4, Zenon
  <2> QED BY <1>3, <2>1, Zenon
<1> QED BY <1>5

\* Objects with code points and bytes of B, the DSSs they are written in, all chained but the
\* last if it is marked so, and what a reader should get.
Objects(B) == {o \in [len: Int, cp: B, body: Seq(B)] : o = NewObject(o.cp, o.body)}
Dsses(objects, last, ext) ==
    [i \in 1..Len(objects) |-> WriteDSS(objects[i], ~(last /\ i = Len(objects)), ext)]
Messages(objects) == [i \in 1..Len(objects) |-> [cp |-> objects[i].cp, body |-> objects[i].body]]

LEMMA ObjectParts ==
    ASSUME NEW B, NEW o \in Objects(B)
    PROVE  o.cp \in B /\ o.body \in Seq(B) /\ o = NewObject(o.cp, o.body)
<1>1. o \in [len: Int, cp: B, body: Seq(B)] /\ o = NewObject(o.cp, o.body)
  BY Zenon DEF Objects
<1>2. o.cp \in B /\ o.body \in Seq(B)
  BY <1>1
<1> QED BY <1>1, <1>2, Zenon

LEMMA NewObjectType ==
    ASSUME NEW B, NEW cp \in B, NEW body \in Seq(B)
    PROVE  /\ NewObject(cp, body) \in Objects(B)
           /\ NewObject(cp, body).cp = cp /\ NewObject(cp, body).body = body
<1>1. PICK len : len = (4 + Len(body)) % (2 * HighBit)
  OBVIOUS
<1>2. len \in Int
  <2>1. 2 * HighBit \in Nat \ {0} /\ 4 + Len(body) \in Nat
    BY FramingAssumption
  <2> QED BY <1>1, <2>1
<1>3. NewObject(cp, body) = [len |-> len, cp |-> cp, body |-> body]
  BY <1>1, Zenon DEF NewObject
<1>4. NewObject(cp, body).cp = cp /\ NewObject(cp, body).body = body
  BY <1>3
<1>5. NewObject(cp, body) \in [len: Int, cp: B, body: Seq(B)]
  BY <1>2, <1>3
<1> QED BY <1>4, <1>5, Zenon DEF Objects

LEMMA DSSType ==
    ASSUME NEW B, NEW o \in Objects(B), NEW chained \in BOOLEAN, NEW ext \in {0, 4}
    PROVE  WriteDSS(o, chained, ext) \in Seq(Items(B)) /\ Len(WriteDSS(o, chained, ext)) > 0
<1>0. o.cp \in B /\ o.body \in Seq(B) /\ o = NewObject(o.cp, o.body)
  BY ObjectParts, Zenon
<1>1. PICK cp \in B, body \in Seq(B) : cp = o.cp /\ body = o.body
  BY <1>0, Zenon
<1>8. HeadAndTail(B, cp, body, ext)
  BY WriteType, Zenon
<1>7. PICK len, obj \in Int, tail \in Seq(Items(B)) :
        /\ NoHeader(tail)
        /\ \A c \in BOOLEAN :
             /\ <<Header(len, obj, cp, c)>> \in Seq(Items(B))
             /\ WriteDSS(NewObject(cp, body), c, ext) = <<Header(len, obj, cp, c)>> \o tail
  BY <1>8, Zenon DEF HeadAndTail
<1>2. PICK h : h = Header(len, obj, cp, chained)
  OBVIOUS
<1>6. <<h>> \in Seq(Items(B)) /\ WriteDSS(o, chained, ext) = <<h>> \o tail
  BY <1>0, <1>1, <1>2, <1>7, Zenon
<1>3. /\ <<h>> \o tail \in Seq(Items(B)) /\ Len(<<h>> \o tail) = Len(<<h>>) + Len(tail)
      /\ Len(tail) \in Nat
  BY <1>6, ConcatProps, Zenon
<1>4. Len(<<h>>) = 1
  OBVIOUS
<1>5. Len(<<h>> \o tail) > 0
  BY <1>3, <1>4
<1> QED BY <1>6, <1>3, <1>5, Zenon

LEMMA DssesType ==
    ASSUME NEW B, NEW objects \in Seq(Objects(B)), NEW last \in BOOLEAN, NEW ext \in {0, 4}
    PROVE  /\ Dsses(objects, last, ext) \in Seq(Seq(Items(B)))
           /\ Len(Dsses(objects, last, ext)) = Len(objects)
<1>1. \A i \in 1..Len(objects) : objects[i] \in Objects(B)
  OBVIOUS
<1>2. \A i \in 1..Len(objects) : (~(last /\ i = Len(objects))) \in BOOLEAN
  OBVIOUS
<1>3. \A i \in 1..Len(objects) :
        WriteDSS(objects[i], ~(last /\ i = Len(objects)), ext) \in Seq(Items(B))
  BY <1>1, <1>2, DSSType, Zenon
<1>4. Dsses(objects, last, ext) \in [1..Len(objects) -> Seq(Items(B))]
  BY <1>3, Zenon DEF Dsses
<1> QED BY <1>4

LEMMA ChainBytes ==
    ASSUME NEW B, NEW objects \in Seq(Objects(B)), Len(objects) > 0, NEW last \in BOOLEAN,
           NEW ext \in {0, 4}
    PROVE  /\ FlattenSeq(Dsses(objects, last, ext)) \in Seq(Items(B))
           /\ FlattenSeq(Dsses(objects, last, ext)) # <<>>
<1> DEFINE ss == Dsses(objects, last, ext)
           n == Len(objects)
<1>1. ss \in Seq(Seq(Items(B))) /\ Len(ss) = n
  BY DssesType
<1>2. FlattenSeq(ss) = Cat(ss)[n]
  BY <1>1, FlattenIsCat, Zenon
<1>3. n \in 0..Len(ss) /\ n - 1 \in 0..Len(ss) /\ n \in 1..Len(ss) /\ n \in 1..Len(objects)
  BY <1>1
<1> HIDE DEF ss, n
<1>4. Cat(ss)[n] \in Seq(Items(B)) /\ Cat(ss)[n - 1] \in Seq(Items(B))
  BY <1>1, <1>3, CatType, Zenon
<1>5. Cat(ss)[n] = Cat(ss)[n - 1] \o ss[n]
  BY <1>1, <1>3, CatNext, Zenon
<1>6. ss[n] \in Seq(Items(B)) /\ Len(ss[n]) > 0
  <2>1. ss[n] = WriteDSS(objects[n], ~(last /\ n = Len(objects)), ext)
    BY <1>3 DEF ss, Dsses
  <2>2. objects[n] \in Objects(B) /\ (~(last /\ n = Len(objects))) \in BOOLEAN
    <3>1. objects[n] \in Objects(B)
      BY <1>3
    <3>2. (~(last /\ n = Len(objects))) \in BOOLEAN
      OBVIOUS
    <3> QED BY <3>1, <3>2, Zenon
  <2> QED BY <2>1, <2>2, DSSType, Zenon
<1>7. Len(Cat(ss)[n]) = Len(Cat(ss)[n - 1]) + Len(ss[n]) /\ Len(Cat(ss)[n - 1]) \in Nat
      /\ Len(ss[n]) \in Nat
  BY <1>4, <1>5, <1>6, ConcatProps, Zenon
<1>8. Len(Cat(ss)[n]) > 0 /\ Len(<<>>) = 0 /\ ~(0 > 0)
  <2>1. PICK a : a = Len(Cat(ss)[n - 1])
    OBVIOUS
  <2>2. PICK b : b = Len(ss[n])
    OBVIOUS
  <2>3. a \in Nat /\ b \in Nat /\ b > 0
    BY <1>6, <1>7, <2>1, <2>2, Zenon
  <2>4. a + b > 0 /\ Len(<<>>) = 0 /\ ~(0 > 0)
    BY <2>3
  <2> QED BY <1>7, <2>1, <2>2, <2>4, Zenon
<1>9. Cat(ss)[n] # <<>>
  BY <1>8, Zenon
<1> QED BY <1>2, <1>4, <1>9, Zenon DEF ss

\* A chain of DSSs, all flagged but the last, is read back in order, each with its code point
\* and its whole body, and the bytes behind it are left: readChain takes one transmission, no
\* less and no more, whatever the objects' lengths.
THEOREM ReadsChainBack ==
    ASSUME NEW B, NEW objects \in Seq(Objects(B)), Len(objects) > 0, NEW ext \in {0, 4},
           NEW wire \in Seq(Items(B)), At(wire, 1, FlattenSeq(Dsses(objects, TRUE, ext)))
    PROVE  ReadChain(wire) =
             [ok |-> TRUE, chain |-> Messages(objects),
              rest |-> SubSeq(wire, 1 + Len(FlattenSeq(Dsses(objects, TRUE, ext))), Len(wire))]
<1> DEFINE ss == Dsses(objects, TRUE, ext)
           n == Len(objects)
           ms == Messages(objects)
           at(k) == 1 + Len(Cat(ss)[k])
           rest == SubSeq(wire, at(n), Len(wire))
           M == [cp: B, body: Seq(B)]
<1>1. ss \in Seq(Seq(Items(B))) /\ Len(ss) = n
  BY DssesType
<1>2. FlattenSeq(ss) = Cat(ss)[n] /\ Cat(ss)[n] = Cat(ss)[Len(ss)]
  BY <1>1, FlattenIsCat, Zenon
<1>3. n \in Nat /\ n > 0 /\ n \in 0..n /\ n - 1 \in 0..n
  OBVIOUS
<1>4. ms \in Seq(M) /\ Len(ms) = n /\ \A k \in 1..n : ms[k] = [cp |-> objects[k].cp, body |-> objects[k].body]
  <2>1. \A k \in 1..n : objects[k] \in Objects(B)
    OBVIOUS
  <2>2. \A k \in 1..n : objects[k].cp \in B /\ objects[k].body \in Seq(B)
    BY <2>1, ObjectParts, Zenon
  <2>3. \A k \in 1..n : [cp |-> objects[k].cp, body |-> objects[k].body] \in M
    BY <2>2
  <2>4. ms \in [1..n -> M]
    BY <2>3, Zenon DEF Messages
  <2>5. \A k \in 1..n : ms[k] = [cp |-> objects[k].cp, body |-> objects[k].body]
    BY Zenon DEF Messages
  <2>6. PICK f : f = ms
    OBVIOUS
  <2>7. f \in [1..n -> M] /\ n \in Nat
    BY <1>3, <2>4, <2>6, Zenon
  <2> HIDE DEF M, n
  <2>8. f \in Seq(M) /\ Len(f) = n
    BY <2>7
  <2> QED BY <2>5, <2>6, <2>8, Zenon
<1> HIDE DEF ss, ms, M
<1>5. ASSUME NEW k \in 1..n
      PROVE  ReadDSS(wire, at(k - 1)) = [ok |-> TRUE, cp |-> objects[k].cp,
                                         chained |-> ~(TRUE /\ k = n),
                                         payload |-> objects[k].body, next |-> at(k)]
             /\ at(k - 1) \in 1..(Len(wire) + 1)
  <2>1. ss[k] = WriteDSS(objects[k], ~(TRUE /\ k = n), ext)
    BY DEF ss, Dsses
  <2>2. objects[k] \in Objects(B) /\ (~(TRUE /\ k = n)) \in BOOLEAN
    <3>1. objects[k] \in Objects(B)
      OBVIOUS
    <3>2. (~(TRUE /\ k = n)) \in BOOLEAN
      OBVIOUS
    <3> QED BY <3>1, <3>2, Zenon
  <2>3. /\ objects[k].cp \in B /\ objects[k].body \in Seq(B)
        /\ objects[k] = NewObject(objects[k].cp, objects[k].body)
    BY <2>2, ObjectParts, Zenon
  <2>4. Cat(ss)[k - 1] \in Seq(Items(B)) /\ ss[k] \in Seq(Items(B))
    <3>1. k - 1 \in 0..Len(ss)
      BY <1>1
    <3> QED BY <1>1, <2>1, <2>2, <3>1, CatType, DSSType, Zenon
  <2>5. At(wire, 1 + Len(Cat(ss)[k - 1]), ss[k])
    <3>1. 1 \in Nat /\ k \in 1..Len(ss) /\ At(wire, 1, Cat(ss)[Len(ss)])
      BY <1>1, <1>2 DEF ss
    <3> QED BY <1>1, <3>1, AtCat, Zenon
  <2>6. Cat(ss)[k] = Cat(ss)[k - 1] \o ss[k]
    BY <1>1, CatNext
  <2>7. /\ Len(Cat(ss)[k]) = Len(Cat(ss)[k - 1]) + Len(ss[k])
        /\ Len(Cat(ss)[k - 1]) \in Nat /\ Len(ss[k]) \in Nat
    BY <2>4, <2>6, ConcatProps, Zenon
  <2>8. at(k - 1) \in Nat /\ at(k - 1) > 0 /\ at(k - 1) + Len(ss[k]) = at(k)
    <3>1. PICK a : a = Len(Cat(ss)[k - 1])
      OBVIOUS
    <3>2. PICK b : b = Len(ss[k])
      OBVIOUS
    <3>3. a \in Nat /\ b \in Nat
      BY <2>7, <3>1, <3>2, Zenon
    <3>4. 1 + a \in Nat /\ 1 + a > 0 /\ 1 + a + b = 1 + (a + b)
      BY <3>3
    <3> QED BY <2>7, <3>1, <3>2, <3>4, Zenon
  <2>9. at(k - 1) + Len(ss[k]) - 1 <= Len(wire)
    BY <2>5, Zenon DEF At
  <2>10. at(k - 1) \in 1..(Len(wire) + 1)
    <3> HIDE DEF at
    <3> QED BY <2>7, <2>8, <2>9
  <2> HIDE DEF at
  <2>11. ReadDSS(wire, at(k - 1)) =
           [ok |-> TRUE, cp |-> objects[k].cp, chained |-> ~(TRUE /\ k = n),
            payload |-> objects[k].body,
            next |-> at(k - 1) + Len(WriteDSS(NewObject(objects[k].cp, objects[k].body),
                                              ~(TRUE /\ k = n), ext))]
    <3>1. At(wire, at(k - 1), WriteDSS(NewObject(objects[k].cp, objects[k].body), ~(TRUE /\ k = n), ext))
      BY <2>1, <2>3, <2>5, Zenon DEF at
    <3>2. PICK cp \in B, body \in Seq(B), c \in BOOLEAN, x \in Nat :
            /\ cp = objects[k].cp /\ body = objects[k].body
            /\ c = ~(TRUE /\ k = n) /\ x = at(k - 1)
      BY <2>2, <2>3, <2>8, Zenon
    <3>3. x > 0 /\ At(wire, x, WriteDSS(NewObject(cp, body), c, ext))
      BY <2>8, <3>1, <3>2, Zenon
    <3>4. ReadDSS(wire, x) =
            [ok |-> TRUE, cp |-> cp, chained |-> c, payload |-> body,
             next |-> x + Len(WriteDSS(NewObject(cp, body), c, ext))]
      BY <3>3, ReadsBack, ZenonT(40)
    <3> QED BY <3>2, <3>4, Zenon
  <2>12. ReadDSS(wire, at(k - 1)) = [ok |-> TRUE, cp |-> objects[k].cp,
                                     chained |-> ~(TRUE /\ k = n),
                                     payload |-> objects[k].body, next |-> at(k)]
    BY <2>1, <2>3, <2>8, <2>11, Zenon
  <2> QED BY <2>10, <2>12
<1> DEFINE P(k) == ChainFcn(wire)[at(k - 1)] =
                     [ok |-> TRUE, chain |-> SubSeq(ms, k - 1 + 1, n), rest |-> rest]
           S == {m \in Nat : m < n => P(n - m)}
<1>6. ASSUME NEW k \in 1..n, k < n => P(k + 1)
      PROVE  P(k)
  <2> DEFINE d == [ok |-> TRUE, cp |-> objects[k].cp, chained |-> ~(TRUE /\ k = n),
                   payload |-> objects[k].body, next |-> at(k)]
             m == <<[cp |-> objects[k].cp, body |-> objects[k].body]>>
  <2>1. ReadDSS(wire, at(k - 1)) = d /\ at(k - 1) \in 1..(Len(wire) + 1)
    BY <1>5
  <2>2. /\ d.ok /\ d.cp = objects[k].cp /\ d.payload = objects[k].body /\ d.next = at(k)
        /\ d.chained = ~(TRUE /\ k = n)
    OBVIOUS
  <2>3. ChainFcn(wire)[at(k - 1)] = ChainStep(wire, ChainFcn(wire), at(k - 1))
    <3> HIDE DEF at
    <3> QED BY <2>1, ChainFcnExists
  <2>4. k - 1 \in Nat /\ k \in Nat /\ n \in Nat /\ k - 1 <= k /\ k <= n /\ n <= Len(ms) /\ k - 1 + 1 = k
    <3>1. Len(ms) = n
      BY <1>4, Zenon
    <3> QED BY <1>3, <3>1
  <2>5. SubSeq(ms, k - 1 + 1, k) = m
    <3>1. ms \in Seq(M) /\ k \in 1..Len(ms) /\ ms[k] = [cp |-> objects[k].cp, body |-> objects[k].body]
      BY <1>4
    <3>2. SubSeq(ms, k, k) = <<ms[k]>>
      BY <3>1, SubSeqOne, Zenon
    <3> QED BY <2>4, <3>1, <3>2, Zenon
  <2> HIDE DEF d, at
  <2>6. CASE k = n
    <3>1. ~d.chained
      BY <2>2, <2>6, Zenon
    <3>2. ChainStep(wire, ChainFcn(wire), at(k - 1)) =
            [ok |-> TRUE, chain |-> m, rest |-> SubSeq(wire, at(k), Len(wire))]
      BY <2>1, <2>2, <3>1, Zenon DEF ChainStep
    <3> QED BY <2>3, <2>5, <2>6, <3>2, Zenon
  <2>7. CASE k # n
    <3>0. d.chained
      BY <2>2, <2>7, Zenon
    <3>1. k < n /\ k + 1 - 1 = k
      BY <1>3, <2>7
    <3> DEFINE r == [ok |-> TRUE, chain |-> SubSeq(ms, k + 1, n), rest |-> rest]
    <3>2. ChainFcn(wire)[at(k)] = r
      <4>1. ChainFcn(wire)[at(k + 1 - 1)] = [ok |-> TRUE, chain |-> SubSeq(ms, k + 1 - 1 + 1, n), rest |-> rest]
        BY <1>6, <3>1
      <4> QED BY <3>1, <4>1, Zenon
    <3>3. r.ok /\ r.chain = SubSeq(ms, k + 1, n) /\ r.rest = rest
      OBVIOUS
    <3> HIDE DEF r
    <3>4. ChainStep(wire, ChainFcn(wire), at(k - 1)) =
            [ok |-> TRUE, chain |-> m \o r.chain, rest |-> r.rest]
      BY <2>1, <2>2, <3>0, <3>2, <3>3, Zenon DEF ChainStep
    <3>5. SubSeq(ms, k - 1 + 1, k) \o SubSeq(ms, k + 1, n) = SubSeq(ms, k - 1 + 1, n)
      <4>1. ms \in Seq(M)
        BY <1>4
      <4> QED BY <2>4, <4>1, SubSeqConcat, Zenon
    <3> QED BY <2>3, <2>5, <3>3, <3>4, <3>5, Zenon
  <2> QED BY <2>6, <2>7, Zenon
<1>7. ASSUME NEW m \in Nat, \A l \in Nat : l < m => l \in S
      PROVE  m \in S
  <2> SUFFICES ASSUME m < n PROVE P(n - m)
    OBVIOUS
  <2> HIDE DEF P
  <2>1. n - m \in 1..n
    BY <1>3
  <2>2. n - m < n => P(n - m + 1)
    <3> SUFFICES ASSUME n - m < n PROVE P(n - m + 1)
      OBVIOUS
    <3>1. m - 1 \in Nat /\ m - 1 < m /\ m - 1 < n /\ n - (m - 1) = n - m + 1
      BY <1>3
    <3>2. m - 1 \in S
      BY <1>7, <3>1, Zenon
    <3>3. P(n - (m - 1))
      BY <3>1, <3>2, Zenon
    <3> QED BY <3>1, <3>3, Zenon
  <2> QED BY <1>6, <2>1, <2>2, Zenon
<1>8. P(1)
  <2>1. n - 1 \in Nat /\ n - 1 < n /\ n - (n - 1) = 1
    BY <1>3
  <2>2. n - 1 \in S
    <3> HIDE DEF S
    <3> QED BY <1>7, <2>1, Induction
  <2>3. P(n - (n - 1))
    <3> HIDE DEF P
    <3> QED BY <2>1, <2>2, Zenon
  <2> HIDE DEF P
  <2> QED BY <2>1, <2>3, Zenon
<1>9. at(1 - 1) = 1 /\ 1 - 1 + 1 = 1 /\ SubSeq(ms, 1, n) = ms
  <2>1. 1 - 1 = 0 /\ Len(<<>>) = 0 /\ 1 + 0 = 1 /\ 1 - 1 + 1 = 1
    OBVIOUS
  <2>2. Cat(ss)[0] = <<>>
    BY <1>1, CatEmpty, Zenon
  <2>3. SubSeq(ms, 1, n) = ms
    <3>1. SubSeq(ms, 1, Len(ms)) = ms
      BY <1>4
    <3> QED BY <1>4, <3>1, Zenon
  <2> QED BY <2>1, <2>2, <2>3, Zenon
<1>10. ChainFcn(wire)[1] = [ok |-> TRUE, chain |-> ms, rest |-> rest]
  <2> HIDE DEF at, rest
  <2> QED BY <1>8, <1>9, Zenon
<1> QED BY <1>2, <1>10, ReadChainIsFcn, Zenon DEF ss, ms

---------------------------------------------------------------------------
(* UnchainLast *)

Unchained(h) == [h EXCEPT !.chained = FALSE]

LEMMA UnchainHead ==
    ASSUME NEW I, NEW a \in Seq(I), NEW h \in I, NEW g \in I, NEW tail \in Seq(I),
           NoHeader(tail), h.kind = "header", g = Unchained(h)
    PROVE  UnchainLast(a \o (<<h>> \o tail)) = a \o (<<g>> \o tail)
<1> DEFINE F == a \o (<<h>> \o tail)
           G == a \o (<<g>> \o tail)
           m == Len(a) + 1
           headers == {i \in 1..Len(F) : F[i].kind = "header"}
<1>1. /\ F \in Seq(I) /\ Len(F) = Len(a) + 1 + Len(tail) /\ F[m] = h
      /\ Len(a) \in Nat /\ Len(tail) \in Nat
  OBVIOUS
<1>2. \A i \in 1..Len(tail) : F[m + i] = tail[i]
  OBVIOUS
<1>3. G \in Seq(I) /\ Len(G) = Len(a) + 1 + Len(tail) /\ G[m] = g
  OBVIOUS
<1>4. \A i \in 1..Len(F) : i # m => G[i] = F[i]
  <2>1. ASSUME NEW i \in 1..Len(a) PROVE G[i] = F[i]
    BY <2>1
  <2>2. ASSUME NEW i \in 1..Len(tail) PROVE G[m + i] = F[m + i]
    BY <2>2
  <2> HIDE DEF F, G
  <2>3. ASSUME NEW i \in 1..Len(F), i # m PROVE G[i] = F[i]
    <3>0. i \in 1..(Len(a) + 1 + Len(tail)) /\ i # m /\ Len(a) \in Nat /\ Len(tail) \in Nat
      BY <1>1, <2>3, Zenon
    <3>1. CASE i < m
      <4>1. i \in 1..Len(a)
        BY <3>0, <3>1
      <4> QED BY <2>1, <4>1, Zenon
    <3>2. CASE i > m
      <4>1. i - m \in 1..Len(tail) /\ m + (i - m) = i
        BY <3>0, <3>2
      <4>2. G[m + (i - m)] = F[m + (i - m)]
        BY <2>2, <4>1, Zenon
      <4> QED BY <4>1, <4>2, Zenon
    <3>3. i < m \/ i > m
      BY <3>0
    <3> QED BY <3>1, <3>2, <3>3, Zenon
  <2> QED BY <2>3, Zenon
<1> HIDE DEF F, G
<1>5. m \in 1..Len(F) /\ m \in Nat
  BY <1>1
<1>6. m \in headers
  BY <1>1, <1>5, Zenon
<1>7. \A i \in headers : i \in Int /\ i <= m
  <2> SUFFICES ASSUME NEW i \in 1..Len(F), F[i].kind = "header", i > m PROVE FALSE
    BY <1>1, <1>5
  <2>1. i - m \in 1..Len(tail) /\ m + (i - m) = i
    BY <1>1
  <2>2. tail[i - m].kind = "header"
    BY <1>2, <2>1, Zenon
  <2> QED BY <2>1, <2>2, Zenon DEF NoHeader
<1>8. Max(headers) = m
  <2> HIDE DEF headers
  <2>1. \A y \in headers : m >= y
    BY <1>5, <1>7
  <2>2. \A x \in headers : (\A y \in headers : x >= y) => x = m
    BY <1>5, <1>6, <1>7
  <2> HIDE DEF m
  <2> QED BY <1>6, <2>1, <2>2, Zenon DEF Max
<1>9. UnchainLast(F) = [F EXCEPT ![m].chained = FALSE]
  <2>1. headers # {}
    BY <1>6, Zenon
  <2> QED BY <1>8, <2>1, Zenon DEF UnchainLast
<1>10. [F EXCEPT ![m].chained = FALSE] = G
  <2>1. [F EXCEPT ![m].chained = FALSE] = [F EXCEPT ![m] = g]
    BY <1>1, Zenon DEF Unchained
  <2>2. DOMAIN F = DOMAIN G /\ DOMAIN F = 1..Len(F)
    BY <1>1, <1>3
  <2>3. [F EXCEPT ![m] = g] = [i \in 1..Len(F) |-> IF i = m THEN g ELSE F[i]]
    BY <1>1, <1>5, <2>2
  <2>4. G = [i \in 1..Len(F) |-> G[i]]
    BY <1>1, <1>3
  <2>5. \A i \in 1..Len(F) : G[i] = IF i = m THEN g ELSE F[i]
    BY <1>3, <1>4, Zenon
  <2>6. [i \in 1..Len(F) |-> G[i]] = [i \in 1..Len(F) |-> IF i = m THEN g ELSE F[i]]
    BY <2>5, Zenon
  <2> QED BY <2>1, <2>3, <2>4, <2>6, Zenon
<1> QED BY <1>9, <1>10, Zenon DEF F, G

LEMMA HeaderUnchained ==
    ASSUME NEW len, NEW obj, NEW cp
    PROVE  Header(len, obj, cp, FALSE) = Unchained(Header(len, obj, cp, TRUE))
<1>1. PICK t : t = TRUE
  BY Zenon
<1>2. PICK f : f = FALSE
  BY Zenon
<1>3. Header(len, obj, cp, f) = [Header(len, obj, cp, t) EXCEPT !.chained = f]
  BY DEF Header
<1> QED BY <1>1, <1>2, <1>3, Zenon DEF Unchained

\* ExecBatch writes its objects all chained and unchains the last afterwards; what comes out
\* is the chain it would have written had it known which one was the last.
THEOREM LastUnchained ==
    ASSUME NEW B, NEW objects \in Seq(Objects(B)), Len(objects) > 0, NEW ext \in {0, 4}
    PROVE  UnchainLast(FlattenSeq(Dsses(objects, FALSE, ext))) = FlattenSeq(Dsses(objects, TRUE, ext))
<1> DEFINE ff == Dsses(objects, FALSE, ext)
           tt == Dsses(objects, TRUE, ext)
           n == Len(objects)
<1>1. /\ ff \in Seq(Seq(Items(B))) /\ Len(ff) = n
      /\ tt \in Seq(Seq(Items(B))) /\ Len(tt) = n
  BY DssesType
<1>2. n \in Nat /\ n \in 1..Len(ff) /\ n \in 1..Len(tt) /\ n - 1 \in 0..Len(ff) /\ n - 1 <= Len(tt)
      /\ n \in 1..n
  <2>1. n \in Nat /\ n \in 1..n /\ n - 1 \in 0..n /\ n - 1 <= n
    OBVIOUS
  <2> HIDE DEF ff, tt, n
  <2> QED BY <1>1, <2>1, Zenon
<1>3. \A i \in 1..(n - 1) : ff[i] = tt[i]
  <2> SUFFICES ASSUME NEW i \in 1..(n - 1) PROVE ff[i] = tt[i]
    OBVIOUS
  <2>1. i \in 1..n /\ i # n
    BY <1>2
  <2>2. (~(FALSE /\ i = n)) = (~(TRUE /\ i = n))
    BY <2>1, Zenon
  <2> QED BY <2>1, <2>2, Zenon DEF Dsses
<1>4. PICK o \in Objects(B) : o = objects[n]
  BY <1>2
<1>5. ff[n] = WriteDSS(o, TRUE, ext) /\ tt[n] = WriteDSS(o, FALSE, ext)
  <2>1. (~(FALSE /\ n = n)) = TRUE /\ (~(TRUE /\ n = n)) = FALSE
    BY Zenon
  <2> QED BY <1>2, <1>4, <2>1, Zenon DEF Dsses
<1>6. PICK cp \in B, body \in Seq(B) : o = NewObject(cp, body)
  BY ObjectParts, Zenon
<1>7. HeadAndTail(B, cp, body, ext)
  BY WriteType, Zenon
<1>8. PICK len, obj \in Int, tail \in Seq(Items(B)) :
        /\ NoHeader(tail)
        /\ \A c \in BOOLEAN :
             /\ <<Header(len, obj, cp, c)>> \in Seq(Items(B))
             /\ WriteDSS(NewObject(cp, body), c, ext) = <<Header(len, obj, cp, c)>> \o tail
  BY <1>7, Zenon DEF HeadAndTail
<1>9. PICK h : h = Header(len, obj, cp, TRUE)
  OBVIOUS
<1>10. PICK g : g = Header(len, obj, cp, FALSE)
  OBVIOUS
<1>11. h \in Items(B) /\ g \in Items(B)
  BY <1>9, <1>10 DEF Header, Items
<1>12. h.kind = "header" /\ g = Unchained(h)
  <2>1. h.kind = "header"
    BY <1>9 DEF Header
  <2>2. g = Unchained(h)
    BY <1>9, <1>10, HeaderUnchained, Zenon
  <2> QED BY <2>1, <2>2, Zenon
<1>13. ff[n] = <<h>> \o tail /\ tt[n] = <<g>> \o tail
  BY <1>5, <1>6, <1>8, <1>9, <1>10, Zenon
<1>14. PICK a \in Seq(Items(B)) : a = Cat(ff)[n - 1] /\ a = Cat(tt)[n - 1]
  <2> HIDE DEF ff, tt
  <2>1. Cat(ff)[n - 1] \in Seq(Items(B))
    BY <1>1, <1>2, CatType, Zenon
  <2>2. Cat(ff)[n - 1] = Cat(tt)[n - 1]
    <3>1. PICK k : k = n - 1
      OBVIOUS
    <3>2. /\ ff \in Seq(Seq(Items(B))) /\ tt \in Seq(Seq(Items(B)))
          /\ k \in 0..Len(ff) /\ k <= Len(tt)
          /\ \A i \in 1..k : ff[i] = tt[i]
      BY <1>1, <1>2, <1>3, <3>1, Zenon
    <3>3. Cat(ff)[k] = Cat(tt)[k]
      BY <3>2, CatPrefix
    <3> QED BY <3>1, <3>3, Zenon
  <2> QED BY <2>1, <2>2, Zenon
<1>15. FlattenSeq(ff) = a \o ff[n] /\ FlattenSeq(tt) = a \o tt[n]
  <2> HIDE DEF ff, tt
  <2>1. FlattenSeq(ff) = Cat(ff)[n] /\ FlattenSeq(tt) = Cat(tt)[n]
    BY <1>1, FlattenIsCat, Zenon
  <2>2. Cat(ff)[n] = Cat(ff)[n - 1] \o ff[n] /\ Cat(tt)[n] = Cat(tt)[n - 1] \o tt[n]
    BY <1>1, <1>2, CatNext, Zenon
  <2> QED BY <1>14, <2>1, <2>2, Zenon
<1>16. UnchainLast(a \o (<<h>> \o tail)) = a \o (<<g>> \o tail)
  <2>1. NoHeader(tail)
    BY <1>8, Zenon
  <2> QED BY <1>11, <1>12, <2>1, UnchainHead, ZenonT(60)
<1> HIDE DEF ff, tt
<1> QED BY <1>13, <1>15, <1>16, Zenon DEF ff, tt

---------------------------------------------------------------------------
(* Chains that arrive whole, and chains that do not *)

\* Read alone, a chain leaves nothing behind.
THEOREM ReadsWholeChain ==
    ASSUME NEW B, NEW objects \in Seq(Objects(B)), Len(objects) > 0, NEW ext \in {0, 4}
    PROVE  ReadChain(FlattenSeq(Dsses(objects, TRUE, ext))) =
             [ok |-> TRUE, chain |-> Messages(objects), rest |-> <<>>]
<1>1. PICK w \in Seq(Items(B)) : w = FlattenSeq(Dsses(objects, TRUE, ext))
  <2>1. TRUE \in BOOLEAN
    OBVIOUS
  <2> QED BY <2>1, ChainBytes, Zenon
<1>2. At(w, 1, w)
  BY DEF At
<1>3. SubSeq(w, 1 + Len(w), Len(w)) = <<>>
  OBVIOUS
<1>4. ReadChain(w) = [ok |-> TRUE, chain |-> Messages(objects), rest |-> SubSeq(w, 1 + Len(w), Len(w))]
  BY <1>1, <1>2, ReadsChainBack, Zenon
<1> QED BY <1>1, <1>3, <1>4, Zenon

\* However little of its end is missing, a chain that has not arrived whole is not taken for
\* one: a stream that breaks off is an error, never a shorter answer.
THEOREM CutChainUnread ==
    ASSUME NEW B, NEW objects \in Seq(Objects(B)), Len(objects) > 0, NEW ext \in {0, 4},
           NEW k \in 0..(Len(FlattenSeq(Dsses(objects, TRUE, ext))) - 1)
    PROVE  ~ReadChain(SubSeq(FlattenSeq(Dsses(objects, TRUE, ext)), 1, k)).ok
<1>1. PICK w \in Seq(Items(B)) : w = FlattenSeq(Dsses(objects, TRUE, ext))
  <2>1. TRUE \in BOOLEAN
    OBVIOUS
  <2> QED BY <2>1, ChainBytes, Zenon
<1>2. PICK v : v = SubSeq(w, 1, k)
  OBVIOUS
<1>3. k \in 0..(Len(w) - 1)
  BY <1>1, Zenon
<1>4. v \in Seq(Items(B)) /\ Len(v) = k
  BY <1>2, <1>3
<1>5. Begins(v, w)
  BY <1>2, <1>3, <1>4 DEF Begins
<1>6. 1 \in 1..(Len(v) + 1)
  BY <1>3, <1>4
<1>7. \/ ChainFcn(v)[1] = Invalid
      \/ /\ ChainFcn(v)[1].ok /\ ChainFcn(w)[1].ok
         /\ Len(ChainFcn(v)[1].rest) \in Nat
         /\ Len(ChainFcn(w)[1].rest) = Len(ChainFcn(v)[1].rest) + (Len(w) - Len(v))
  BY <1>4, <1>5, <1>6, ChainStays, Zenon
<1>8. ReadChain(v) = ChainFcn(v)[1] /\ ReadChain(w) = ChainFcn(w)[1]
  BY ReadChainIsFcn, Zenon
<1>9. ReadChain(w).rest = <<>>
  <2>1. ReadChain(w) = [ok |-> TRUE, chain |-> Messages(objects), rest |-> <<>>]
    BY <1>1, ReadsWholeChain, Zenon
  <2> QED BY <2>1
<1>10. ~Invalid.ok
  BY DEF Invalid
<1>11. ASSUME Len(ChainFcn(v)[1].rest) \in Nat,
              Len(ChainFcn(w)[1].rest) = Len(ChainFcn(v)[1].rest) + (Len(w) - Len(v))
       PROVE  FALSE
  <2>1. PICK x \in Nat : x = Len(ChainFcn(v)[1].rest)
    BY <1>11, Zenon
  <2>2. Len(<<>>) = x + (Len(w) - Len(v))
    BY <1>8, <1>9, <1>11, <2>1, Zenon
  <2> QED BY <1>3, <1>4, <2>2
<1>12. ~ReadChain(v).ok
  BY <1>7, <1>8, <1>10, <1>11, Zenon
<1> QED BY <1>1, <1>2, <1>12, Zenon

=============================================================================
