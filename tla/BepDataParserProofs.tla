------------------------- MODULE BepDataParserProofs -------------------------
(***************************************************************************)
(* However the stream of a peer is cut into reads, the parser gives back   *)
(* the messages the peer framed: for any messages within the limits of     *)
(* the format, any number of them and any cut.                             *)
(***************************************************************************)
EXTENDS BepDataParser, SequenceTheorems, WellFoundedInduction, TLAPS

Bytes == Seq(Nat)

-----------------------------------------------------------------------------
(* Induction over the natural numbers, as the least counterexample.        *)
LEMMA Smallest ==
    ASSUME NEW T, T \subseteq Nat, T # {}
    PROVE  \E x \in T : \A y \in T : x <= y
<1> DEFINE R == OpToRel(<, Nat)
<1>1. IsWellFoundedOn(R, Nat)
  BY NatLessThanWellFounded
<1>2. \A x, y \in Nat : x < y => <<x, y>> \in R
  BY DEF OpToRel
<1> HIDE DEF R
<1>3. PICK x \in T : \A y \in T : ~ (<<y, x>> \in R)
  BY <1>1, WFMin
<1>4. ASSUME NEW y \in T PROVE x <= y
  <2>1. x \in Nat /\ y \in Nat /\ ~(y < x)
    BY <1>2, <1>3
  <2> QED
    BY <2>1
<1> QED
  BY <1>4

(* A set of numbers that has one and the successor of each of its members  *)
(* up to n has every number up to n.                                       *)
LEMMA UpToN ==
    ASSUME NEW n \in Nat, NEW G, 1 \in G,
           \A i \in 1 .. n : i \in G /\ i + 1 <= n => i + 1 \in G
    PROVE  \A i \in 1 .. n : i \in G
<1>1. SUFFICES ASSUME NEW b \in 1 .. n, b \notin G PROVE FALSE
  OBVIOUS
<1> DEFINE T == {i \in 1 .. n : i \notin G}
<1>2. T \subseteq Nat /\ T # {}
  BY <1>1
<1>3. PICK x \in T : \A y \in T : x <= y
  <2> HIDE DEF T
  <2> QED
    BY <1>2, Smallest
<1>4. x \in 1 .. n /\ x # 1
  BY <1>3
<1>5. PICK p : p = x - 1
  OBVIOUS
<1>6. p \in 1 .. n /\ p + 1 = x /\ ~(x <= p)
  BY <1>4, <1>5
<1>7. p \in G
  BY <1>3, <1>6
<1> QED
  BY <1>3, <1>4, <1>6, <1>7

-----------------------------------------------------------------------------
(* Sequences of bytes.                                                     *)
LEMMA LenIs ==
    ASSUME NEW s \in Bytes
    PROVE  /\ Len(s) \in Nat /\ DOMAIN s = 1 .. Len(s)
           /\ s = <<>> <=> Len(s) = 0
           /\ \A i \in 1 .. Len(s) : s[i] \in Nat
BY LenProperties, EmptySeq, ElementOfSeq DEF Bytes

LEMMA EmptyIs == <<>> \in Bytes /\ Len(<<>>) = 0
BY EmptySeq DEF Bytes

LEMMA Joined ==
    ASSUME NEW s \in Bytes, NEW t \in Bytes
    PROVE  /\ s \o t \in Bytes /\ Len(s \o t) = Len(s) + Len(t)
           /\ s \o <<>> = s /\ <<>> \o s = s
BY ConcatProperties, ConcatEmptySeq DEF Bytes

LEMMA JoinedAt ==
    ASSUME NEW s \in Bytes, NEW t \in Bytes, NEW u, u = s \o t
    PROVE  /\ \A i \in 1 .. Len(s) : u[i] = s[i]
           /\ \A i \in Nat : i > Len(s) /\ i <= Len(s) + Len(t) => u[i] = t[i - Len(s)]
<1>1. \A i \in 1 .. Len(s) + Len(t) : u[i] = IF i <= Len(s) THEN s[i] ELSE t[i - Len(s)]
  BY ConcatProperties DEF Bytes
<1>2. Len(s) \in Nat /\ Len(t) \in Nat
  BY LenIs
<1> QED
  BY <1>1, <1>2

LEMMA Regroup ==
    ASSUME NEW s \in Bytes, NEW t \in Bytes, NEW u \in Bytes
    PROVE  (s \o t) \o u = s \o (t \o u)
BY ConcatAssociative DEF Bytes

LEMMA SameBytes ==
    ASSUME NEW s \in Bytes, NEW t \in Bytes, Len(s) = Len(t),
           \A i \in 1 .. Len(s) : s[i] = t[i]
    PROVE  s = t
BY SeqEqual DEF Bytes

(* t is s from its a-th byte, exclusive, up to its b-th.                   *)
Stretch(t, s, a, b) == t \in Bytes /\ Len(t) = b - a /\ \A i \in 1 .. b - a : t[i] = s[a + i]

LEMMA StretchIs ==
    ASSUME NEW s \in Bytes, NEW a \in Nat, NEW b \in Nat, a <= b, b <= Len(s)
    PROVE  Stretch(SubSeq(s, a + 1, b), s, a, b)
<1>1. Len(s) \in Nat /\ \A i \in 1 .. Len(s) : s[i] \in Nat
  BY LenIs
<1>2. PICK m \in Int : m = a + 1
  OBVIOUS
<1>3. \A i \in m .. b : s[i] \in Nat
  BY <1>1, <1>2
<1>4. PICK u : u = SubSeq(s, m, b)
  OBVIOUS
<1>5. /\ u \in Seq(Nat) /\ Len(u) = IF m <= b THEN b - m + 1 ELSE 0
      /\ \A i \in 1 .. b - m + 1 : u[i] = s[m + i - 1]
  BY <1>3, <1>4, SubSeqProperties
<1>6. Len(u) = b - a
  BY <1>2, <1>5
<1>7. ASSUME NEW i \in 1 .. b - a PROVE u[i] = s[a + i]
  <2>1. i \in 1 .. b - m + 1 /\ m + i - 1 = a + i
    BY <1>2
  <2> QED
    BY <2>1, <1>5
<1>8. Stretch(u, s, a, b)
  BY <1>5, <1>6, <1>7 DEF Bytes, Stretch
<1> QED
  BY <1>2, <1>4, <1>8

LEMMA UptoIs ==
    ASSUME NEW s \in Bytes, NEW n \in Nat, n <= Len(s)
    PROVE  Stretch(Upto(s, n), s, 0, n)
<1>1. PICK a \in Nat : a = 0
  OBVIOUS
<1>2. a <= n /\ a + 1 = 1
  BY <1>1
<1>3. Stretch(SubSeq(s, a + 1, n), s, a, n)
  BY <1>2, StretchIs
<1> QED
  BY <1>1, <1>2, <1>3 DEF Upto

LEMMA FromIs ==
    ASSUME NEW s \in Bytes, NEW n \in Nat, n <= Len(s)
    PROVE  Stretch(From(s, n), s, n, Len(s))
<1>1. PICK b \in Nat : b = Len(s)
  BY LenIs
<1>2. n <= b /\ b <= Len(s)
  BY <1>1
<1>3. Stretch(SubSeq(s, n + 1, b), s, n, b)
  BY <1>2, StretchIs
<1> QED
  BY <1>1, <1>3 DEF From

LEMMA CutIs ==
    ASSUME NEW s \in Bytes, NEW n \in Nat, n <= Len(s)
    PROVE  /\ Upto(s, n) \in Bytes /\ From(s, n) \in Bytes
           /\ s = Upto(s, n) \o From(s, n)
<1>1. PICK t : t = Upto(s, n)
  OBVIOUS
<1>2. PICK u : u = From(s, n)
  OBVIOUS
<1>3. t \in Bytes /\ Len(t) = n /\ \A i \in 1 .. n : t[i] = s[i]
  <2>1. Stretch(t, s, 0, n)
    BY <1>1, UptoIs
  <2> QED
    BY <2>1 DEF Stretch
<1>4. u \in Bytes /\ Len(u) = Len(s) - n /\ \A i \in 1 .. Len(s) - n : u[i] = s[n + i]
  <2>1. Stretch(u, s, n, Len(s))
    BY <1>2, FromIs
  <2> QED
    BY <2>1 DEF Stretch
<1>5. PICK v : v = t \o u
  OBVIOUS
<1>6. Len(s) \in Nat
  BY LenIs
<1>7. v \in Bytes /\ Len(v) = Len(s)
  <2>1. v \in Bytes /\ Len(v) = Len(t) + Len(u)
    BY <1>3, <1>4, <1>5, Joined
  <2> QED
    BY <2>1, <1>3, <1>4, <1>6
<1>8. /\ \A i \in 1 .. n : v[i] = t[i]
      /\ \A i \in Nat : i > n /\ i <= n + Len(u) => v[i] = u[i - n]
  <2>1. /\ \A i \in 1 .. Len(t) : v[i] = t[i]
        /\ \A i \in Nat : i > Len(t) /\ i <= Len(t) + Len(u) => v[i] = u[i - Len(t)]
    BY <1>3, <1>4, <1>5, JoinedAt
  <2> QED
    BY <2>1, <1>3
<1>9. ASSUME NEW i \in 1 .. Len(s) PROVE v[i] = s[i]
  <2>1. CASE i <= n
    BY <2>1, <1>3, <1>6, <1>8
  <2>2. CASE i > n
    <3>1. PICK j : j = i - n
      OBVIOUS
    <3>2. j \in 1 .. Len(s) - n /\ n + j = i /\ i \in Nat /\ i <= n + Len(u)
      BY <3>1, <2>2, <1>4, <1>6
    <3>3. v[i] = u[j]
      BY <1>8, <2>2, <3>1, <3>2
    <3> QED
      BY <3>2, <3>3, <1>4
  <2> QED
    BY <2>1, <2>2, <1>6
<1>10. v = s
  BY <1>7, <1>9, SameBytes
<1> QED
  BY <1>1, <1>2, <1>3, <1>4, <1>5, <1>10

(* FlattenSeq puts the frames one behind the other. Grows is the equation  *)
(* of the function that FlattenSeq is defined with; RestAfter lists what   *)
(* is left of the whole after each frame.                                  *)
Grows(f, s, n) == f = [i \in 1 .. n |-> IF i = 1 THEN s[i] ELSE f[i - 1] \o s[i]]
RestAfter(t, s, n) ==
    /\ t \in [0 .. n -> Bytes] /\ t[n] = <<>>
    /\ \A i \in 0 .. n - 1 : t[i] = s[i + 1] \o t[i + 1]
Flat(w, s, n) == \E t : RestAfter(t, s, n) /\ t[0] = w

LEMMA GrowsExists ==
    ASSUME NEW s, NEW n \in Nat, n >= 1
    PROVE  \E f : Grows(f, s, n)
<1> DEFINE G == {i \in 1 .. n : \E f : Grows(f, s, i)}
<1>1. 1 \in G
  <2>1. PICK f : f = [i \in 1 .. 1 |-> s[i]]
    OBVIOUS
  <2>2. Grows(f, s, 1)
    BY <2>1 DEF Grows
  <2> QED
    BY <2>2
<1>2. ASSUME NEW k \in 1 .. n, k \in G, k + 1 <= n PROVE k + 1 \in G
  <2>1. PICK f : Grows(f, s, k)
    BY <1>2
  <2>2. PICK g : g = [i \in 1 .. k + 1 |-> IF i = k + 1 THEN f[k] \o s[i] ELSE f[i]]
    OBVIOUS
  <2>3. \A i \in 1 .. k : g[i] = f[i]
    BY <2>2
  <2>4. \A i \in 1 .. k : f[i] = IF i = 1 THEN s[i] ELSE f[i - 1] \o s[i]
    BY <2>1 DEF Grows
  <2>5. ASSUME NEW i \in 1 .. k + 1
        PROVE  (IF i = k + 1 THEN f[k] \o s[i] ELSE f[i]) = (IF i = 1 THEN s[i] ELSE g[i - 1] \o s[i])
    <3>1. CASE i = k + 1
      <4>1. i # 1 /\ i - 1 = k /\ k \in 1 .. k
        BY <3>1
      <4> QED
        BY <3>1, <4>1, <2>3
    <3>2. CASE i # k + 1 /\ i = 1
      BY <3>2, <2>4
    <3>3. CASE i # k + 1 /\ i # 1
      <4>1. i \in 1 .. k /\ i - 1 \in 1 .. k
        BY <3>3
      <4>2. f[i] = f[i - 1] \o s[i] /\ g[i - 1] = f[i - 1]
        BY <2>3, <2>4, <3>3, <4>1
      <4> QED
        BY <3>3, <4>2
    <3> QED
      BY <3>1, <3>2, <3>3
  <2>6. g = [i \in 1 .. k + 1 |-> IF i = 1 THEN s[i] ELSE g[i - 1] \o s[i]]
    BY <2>2, <2>5
  <2>7. Grows(g, s, k + 1)
    BY <2>6 DEF Grows
  <2> QED
    BY <2>7, <1>2
<1>3. n \in G
  <2> HIDE DEF G
  <2>1. \A i \in 1 .. n : i \in G
    BY <1>1, <1>2, UpToN
  <2> QED
    BY <2>1
<1> QED
  BY <1>3

LEMMA GrowsIsFlat ==
    ASSUME NEW n \in Nat, n >= 1, NEW s, \A i \in 1 .. n : s[i] \in Bytes,
           NEW f, Grows(f, s, n)
    PROVE  Flat(f[n], s, n)
<1> DEFINE G == {i \in 1 .. n : f[i] \in Bytes /\ Flat(f[i], s, i)}
<1>1. \A i \in 1 .. n : f[i] = IF i = 1 THEN s[i] ELSE f[i - 1] \o s[i]
  BY DEF Grows
<1>2. 1 \in G
  <2>1. PICK t : t = [i \in 0 .. 1 |-> IF i = 0 THEN s[1] ELSE <<>>]
    OBVIOUS
  <2>2. s[1] \in Bytes /\ f[1] = s[1]
    BY <1>1
  <2>3. t \in [0 .. 1 -> Bytes] /\ t[1] = <<>> /\ t[0] = s[1]
    BY <2>1, <2>2, EmptyIs
  <2>4. s[1] \o <<>> = s[1]
    BY <2>2, EmptyIs, Joined
  <2>5. \A i \in 0 .. 1 - 1 : t[i] = s[i + 1] \o t[i + 1]
    BY <2>3, <2>4
  <2>6. RestAfter(t, s, 1)
    BY <2>3, <2>5 DEF RestAfter
  <2> QED
    BY <2>2, <2>3, <2>6 DEF Flat
<1>3. ASSUME NEW k \in 1 .. n, k \in G, k + 1 <= n PROVE k + 1 \in G
  <2>1. PICK t : RestAfter(t, s, k) /\ t[0] = f[k]
    BY <1>3 DEF Flat
  <2>2. PICK m \in 1 .. n : m = k + 1
    BY <1>3
  <2>3. PICK x \in Bytes : x = s[m]
    OBVIOUS
  <2>4. f[m] = f[k] \o x
    <3>1. m # 1 /\ m - 1 = k
      BY <2>2
    <3> QED
      BY <3>1, <1>1, <2>3
  <2>5. f[m] \in Bytes
    BY <2>3, <2>4, <1>3, Joined
  <2>6. PICK u : u = [i \in 0 .. m |-> IF i = m THEN <<>> ELSE t[i] \o x]
    OBVIOUS
  <2>7. /\ t \in [0 .. k -> Bytes] /\ t[k] = <<>>
        /\ \A i \in 0 .. k - 1 : t[i] = s[i + 1] \o t[i + 1]
    BY <2>1 DEF RestAfter
  <2>8. \A i \in 0 .. k : t[i] \in Bytes /\ t[i] \o x \in Bytes
    BY <2>3, <2>7, Joined
  <2>9. u \in [0 .. m -> Bytes] /\ u[m] = <<>>
    BY <2>2, <2>6, <2>8, EmptyIs
  <2>10. \A i \in 0 .. k : u[i] = t[i] \o x
    BY <2>2, <2>6
  <2>11. 0 \in 0 .. k /\ k \in 0 .. k
    BY <2>2
  <2>12. ASSUME NEW i \in 0 .. m - 1 PROVE u[i] = s[i + 1] \o u[i + 1]
    <3>1. CASE i = k
      <4>1. u[i] = <<>> \o x
        BY <3>1, <2>7, <2>10, <2>11
      <4>2. i + 1 = m
        BY <3>1, <2>2
      <4>3. <<>> \o x = x /\ x \o <<>> = x
        BY <2>3, EmptyIs, Joined
      <4> QED
        BY <4>1, <4>2, <4>3, <2>3, <2>9
    <3>2. CASE i # k
      <4>1. PICK j : j = i + 1
        OBVIOUS
      <4>2. i \in 0 .. k - 1 /\ j \in 0 .. k /\ i \in 0 .. k /\ j \in 1 .. n
        BY <3>2, <4>1, <2>2
      <4>3. t[i] = s[j] \o t[j]
        BY <2>7, <4>1, <4>2
      <4>4. s[j] \in Bytes /\ t[j] \in Bytes
        BY <4>2, <2>8
      <4>5. (s[j] \o t[j]) \o x = s[j] \o (t[j] \o x)
        BY <2>3, <4>4, Regroup
      <4> QED
        BY <4>1, <4>2, <4>3, <4>5, <2>10
    <3> QED
      BY <3>1, <3>2
  <2>13. RestAfter(u, s, m)
    BY <2>9, <2>12 DEF RestAfter
  <2>14. u[0] = f[m]
    BY <2>1, <2>4, <2>10, <2>11
  <2>15. Flat(f[m], s, m)
    BY <2>13, <2>14 DEF Flat
  <2> QED
    BY <2>2, <2>5, <2>15
<1>4. n \in G
  <2> HIDE DEF G
  <2>1. \A i \in 1 .. n : i \in G
    BY <1>2, <1>3, UpToN
  <2> QED
    BY <2>1
<1> QED
  BY <1>4

LEMMA FlattenSeqIs ==
    ASSUME NEW s, NEW n \in Nat, n >= 1, Len(s) = n, \A i \in 1 .. n : s[i] \in Bytes
    PROVE  Flat(FlattenSeq(s), s, n)
<1> DEFINE f == CHOOSE g : Grows(g, s, n)
<1>1. Grows(f, s, n)
  BY GrowsExists
<1>2. FlattenSeq(s) = f[n]
  BY DEF FlattenSeq, Grows
<1> HIDE DEF f
<1> QED
  BY <1>1, <1>2, GrowsIsFlat

-----------------------------------------------------------------------------
(* Where a stretch of bytes is found.                                      *)
At(s, p, x) == \A i \in 1 .. Len(x) : s[p + i] = x[i]

LEMMA AtBegin ==
    ASSUME NEW s \in Bytes, NEW t \in Bytes
    PROVE  At(s \o t, 0, s)
<1>1. PICK u : u = s \o t
  OBVIOUS
<1>2. \A i \in 1 .. Len(s) : u[i] = s[i]
  BY <1>1, JoinedAt
<1>3. Len(s) \in Nat
  BY LenIs
<1> QED
  BY <1>1, <1>2, <1>3 DEF At

LEMMA AtEnd ==
    ASSUME NEW s \in Bytes, NEW t \in Bytes
    PROVE  At(s \o t, Len(s), t)
<1>1. PICK u : u = s \o t
  OBVIOUS
<1>2. \A i \in Nat : i > Len(s) /\ i <= Len(s) + Len(t) => u[i] = t[i - Len(s)]
  BY <1>1, JoinedAt
<1>3. Len(s) \in Nat /\ Len(t) \in Nat
  BY LenIs
<1>4. ASSUME NEW i \in 1 .. Len(t) PROVE u[Len(s) + i] = t[i]
  <2>1. PICK j \in Nat : j = Len(s) + i
    BY <1>3
  <2>2. j > Len(s) /\ j <= Len(s) + Len(t) /\ j - Len(s) = i
    BY <1>3, <2>1
  <2> QED
    BY <1>2, <2>1, <2>2
<1> QED
  BY <1>1, <1>4 DEF At

LEMMA AtLeft ==
    ASSUME NEW s \in Bytes, NEW t \in Bytes, NEW p \in Nat, NEW x \in Bytes,
           p + Len(x) <= Len(s), At(s, p, x)
    PROVE  At(s \o t, p, x)
<1>1. PICK u : u = s \o t
  OBVIOUS
<1>2. \A i \in 1 .. Len(s) : u[i] = s[i]
  BY <1>1, JoinedAt
<1>3. Len(s) \in Nat /\ Len(x) \in Nat
  BY LenIs
<1>4. ASSUME NEW i \in 1 .. Len(x) PROVE u[p + i] = x[i]
  <2>1. p + i \in 1 .. Len(s)
    BY <1>3
  <2> QED
    BY <1>2, <2>1 DEF At
<1> QED
  BY <1>1, <1>4 DEF At

(* Three and four pieces one behind the other.                             *)
Three(u, a, b, c) ==
    /\ u \in Bytes /\ Len(u) = Len(a) + Len(b) + Len(c)
    /\ At(u, 0, a) /\ At(u, Len(a), b) /\ At(u, Len(a) + Len(b), c)
Four(u, a, b, c, d) ==
    /\ u \in Bytes /\ Len(u) = Len(a) + Len(b) + Len(c) + Len(d)
    /\ At(u, 0, a) /\ At(u, Len(a), b) /\ At(u, Len(a) + Len(b), c)
    /\ At(u, Len(a) + Len(b) + Len(c), d)

LEMMA ThreePieces ==
    ASSUME NEW a \in Bytes, NEW b \in Bytes, NEW c \in Bytes
    PROVE  Three(a \o b \o c, a, b, c)
<1>1. Len(a) \in Nat /\ Len(b) \in Nat /\ Len(c) \in Nat
  BY LenIs
<1>2. PICK v : v = a \o b
  OBVIOUS
<1>3. v \in Bytes /\ Len(v) = Len(a) + Len(b)
  BY <1>2, Joined
<1>4. At(v, 0, a) /\ At(v, Len(a), b)
  BY <1>2, AtBegin, AtEnd
<1>5. PICK u : u = v \o c
  OBVIOUS
<1>6. u \in Bytes /\ Len(u) = Len(v) + Len(c)
  BY <1>3, <1>5, Joined
<1>7. At(u, Len(v), c)
  BY <1>3, <1>5, AtEnd
<1>8. At(u, 0, a)
  <2>1. 0 \in Nat /\ 0 + Len(a) <= Len(v)
    BY <1>1, <1>3
  <2> QED
    BY <2>1, <1>3, <1>4, <1>5, AtLeft
<1>9. At(u, Len(a), b)
  <2>1. Len(a) + Len(b) <= Len(v)
    BY <1>1, <1>3
  <2> QED
    BY <2>1, <1>1, <1>3, <1>4, <1>5, AtLeft
<1>10. Three(u, a, b, c)
  BY <1>3, <1>6, <1>7, <1>8, <1>9 DEF Three
<1> QED
  BY <1>2, <1>5, <1>10

LEMMA FourPieces ==
    ASSUME NEW a \in Bytes, NEW b \in Bytes, NEW c \in Bytes, NEW d \in Bytes
    PROVE  Four(a \o b \o c \o d, a, b, c, d)
<1>1. Len(a) \in Nat /\ Len(b) \in Nat /\ Len(c) \in Nat /\ Len(d) \in Nat
  BY LenIs
<1>2. PICK v : v = a \o b \o c
  OBVIOUS
<1>3. Three(v, a, b, c)
  BY <1>2, ThreePieces
<1>4. /\ v \in Bytes /\ Len(v) = Len(a) + Len(b) + Len(c)
      /\ At(v, 0, a) /\ At(v, Len(a), b) /\ At(v, Len(a) + Len(b), c)
  BY <1>3 DEF Three
<1>5. PICK u : u = v \o d
  OBVIOUS
<1>6. u \in Bytes /\ Len(u) = Len(v) + Len(d)
  BY <1>4, <1>5, Joined
<1>7. At(u, Len(v), d)
  BY <1>4, <1>5, AtEnd
<1>8. At(u, 0, a)
  <2>1. 0 \in Nat /\ 0 + Len(a) <= Len(v)
    BY <1>1, <1>4
  <2> QED
    BY <2>1, <1>4, <1>5, AtLeft
<1>9. At(u, Len(a), b)
  <2>1. Len(a) + Len(b) <= Len(v)
    BY <1>1, <1>4
  <2> QED
    BY <2>1, <1>1, <1>4, <1>5, AtLeft
<1>10. At(u, Len(a) + Len(b), c)
  <2>1. PICK p \in Nat : p = Len(a) + Len(b)
    BY <1>1
  <2>2. p + Len(c) <= Len(v)
    BY <1>1, <1>4, <2>1
  <2>3. At(v, p, c)
    BY <1>4, <2>1
  <2>4. At(u, p, c)
    BY <2>2, <2>3, <1>4, <1>5, AtLeft
  <2> QED
    BY <2>1, <2>4
<1>11. Four(u, a, b, c, d)
  BY <1>4, <1>6, <1>7, <1>8, <1>9, <1>10 DEF Four
<1> QED
  BY <1>2, <1>5, <1>11

-----------------------------------------------------------------------------
(* Lengths as two and as four bytes.                                       *)
LEMMA LastTwo ==
    ASSUME NEW x \in Nat, NEW y \in Nat, NEW z \in Nat, NEW r \in Nat,
           NEW b, b = SubSeq(<<x, y, z, r>>, 5 - 2, 4)
    PROVE  b \in Bytes /\ Len(b) = 2 /\ b[1] = z /\ b[2] = r
BY DEF Bytes

LEMMA AllFour ==
    ASSUME NEW x \in Nat, NEW y \in Nat, NEW z \in Nat, NEW r \in Nat,
           NEW b, b = SubSeq(<<x, y, z, r>>, 5 - 4, 4)
    PROVE  b \in Bytes /\ Len(b) = 4 /\ b[1] = x /\ b[2] = y /\ b[3] = z /\ b[4] = r
BY DEF Bytes

LEMMA TwoBytes ==
    ASSUME NEW n \in Nat, n < 65536, NEW b, b = to_be_bytes(n, 2)
    PROVE  b \in Bytes /\ Len(b) = 2 /\ 256 * b[1] + b[2] = n
<1>1. PICK x \in Nat : x = n \div 16777216
  OBVIOUS
<1>2. PICK y \in Nat : y = (n \div 65536) % 256
  OBVIOUS
<1>3. PICK z \in Nat : z = (n \div 256) % 256
  OBVIOUS
<1>4. PICK r \in Nat : r = n % 256
  OBVIOUS
<1>5. 256 * z + r = n
  BY <1>3, <1>4
<1>6. b = SubSeq(<<x, y, z, r>>, 5 - 2, 4)
  BY <1>1, <1>2, <1>3, <1>4 DEF to_be_bytes
<1>7. b \in Bytes /\ Len(b) = 2 /\ b[1] = z /\ b[2] = r
  BY <1>6, LastTwo
<1> QED
  BY <1>5, <1>7

LEMMA FourBytes ==
    ASSUME NEW n \in Nat, FitsU32(n), NEW b, b = to_be_bytes(n, 4)
    PROVE  b \in Bytes /\ Len(b) = 4 /\ 256 * (256 * (256 * b[1] + b[2]) + b[3]) + b[4] = n
<1>1. PICK x \in Nat : x = n \div 16777216
  OBVIOUS
<1>2. PICK y \in Nat : y = (n \div 65536) % 256
  OBVIOUS
<1>3. PICK z \in Nat : z = (n \div 256) % 256
  OBVIOUS
<1>4. PICK r \in Nat : r = n % 256
  OBVIOUS
<1>5. 256 * (256 * (256 * x + y) + z) + r = n
  <2>1. 256 * x + y = n \div 65536
    BY <1>1, <1>2 DEF FitsU32
  <2>2. 256 * (n \div 65536) + z = n \div 256
    BY <1>3
  <2>3. 256 * (n \div 256) + r = n
    BY <1>4
  <2> QED
    BY <2>1, <2>2, <2>3
<1>6. b = SubSeq(<<x, y, z, r>>, 5 - 4, 4)
  BY <1>1, <1>2, <1>3, <1>4 DEF to_be_bytes
<1>7. b \in Bytes /\ Len(b) = 4 /\ b[1] = x /\ b[2] = y /\ b[3] = z /\ b[4] = r
  BY <1>6, AllFour
<1> QED
  BY <1>5, <1>7

-----------------------------------------------------------------------------
(* The frames of the peer.                                                 *)
HelloLayout(F, x) ==
    /\ F \in Bytes /\ x \in Bytes /\ Len(F) = 6 + Len(x)
    /\ 256 * F[5] + F[6] = Len(x)
    /\ At(F, 0, magic) /\ At(F, 6, x)
MessageLayout(F, h, x) ==
    /\ F \in Bytes /\ h \in Bytes /\ x \in Bytes /\ Len(F) = 6 + Len(h) + Len(x)
    /\ 256 * F[1] + F[2] = Len(h)
    /\ At(F, 2, h)
    /\ \E b : /\ b \in Bytes /\ Len(b) = 4 /\ At(F, 2 + Len(h), b)
              /\ 256 * (256 * (256 * b[1] + b[2]) + b[3]) + b[4] = Len(x)
    /\ At(F, 6 + Len(h), x)

LEMMA BodyIs ==
    ASSUME NEW x \in Seq(0 .. 255)
    PROVE  x \in Bytes
<1>1. PICK S : S = 0 .. 255
  OBVIOUS
<1>2. x \in Seq(S) /\ S \subseteq Nat
  BY <1>1
<1> QED
  BY <1>2, SeqMonotonic DEF Bytes

LEMMA HelloFields ==
    ASSUME NEW m \in HelloMessage
    PROVE  /\ m.body \in Bytes /\ Len(m.body) \in Nat /\ FitsU16(Len(m.body))
           /\ m = [type |-> 8, lz4 |-> FALSE, body |-> m.body]
<1>1. m \in [type : {8}, lz4 : {FALSE}, body : Seq(0 .. 255)] /\ FitsU16(Len(m.body))
  BY MessageAssumption
<1>2. m.body \in Bytes
  BY <1>1, BodyIs
<1> QED
  BY <1>1, <1>2, LenIs

LEMMA MessageFields ==
    ASSUME NEW m \in Message
    PROVE  /\ m.body \in Bytes /\ Len(m.body) \in Nat /\ FitsU32(Len(m.body) + 5)
           /\ m.type \in 0 .. 7 /\ m.lz4 \in BOOLEAN
           /\ m = [type |-> m.type, lz4 |-> m.lz4, body |-> m.body]
           /\ m \notin HelloMessage
<1>1. /\ m \in [type : 0 .. 7, lz4 : BOOLEAN, body : Seq(0 .. 255)]
      /\ FitsU32(Len(m.body) + 5)
  BY MessageAssumption
<1>2. m.body \in Bytes
  BY <1>1, BodyIs
<1>3. m \notin HelloMessage
  <2>1. SUFFICES ASSUME m \in HelloMessage PROVE FALSE
    OBVIOUS
  <2>2. m.type = 8
    BY <2>1, MessageAssumption
  <2>3. m.type \in 0 .. 7
    BY <1>1
  <2> QED
    BY <2>2, <2>3
<1> QED
  BY <1>1, <1>2, <1>3, LenIs

LEMMA HelloFrame ==
    ASSUME NEW m \in HelloMessage, magic \in Bytes, Len(magic) = 4, NEW F, F = Frame(m)
    PROVE  HelloLayout(F, m.body)
<1>1. PICK x \in Bytes : x = m.body
  BY HelloFields
<1>2. PICK n \in Nat : n = Len(x) /\ n < 65536
  BY <1>1, HelloFields DEF FitsU16
<1>3. PICK b : b = to_be_bytes(n, 2)
  OBVIOUS
<1>4. b \in Bytes /\ Len(b) = 2 /\ 256 * b[1] + b[2] = n
  BY <1>2, <1>3, TwoBytes
<1>5. F = magic \o b \o x
  <2>1. F = serialize_hello(m)
    BY DEF Frame
  <2>2. serialize_hello(m) = magic \o to_be_bytes(Len(m.body), 2) \o m.body
    BY DEF serialize_hello
  <2>3. Len(m.body) = n
    BY <1>1, <1>2
  <2> QED
    BY <2>1, <2>2, <2>3, <1>1, <1>3
<1>6. b \in Bytes
  BY <1>4
<1>7. Three(F, magic, b, x)
  BY <1>5, <1>6, ThreePieces
<1>8. F \in Bytes /\ Len(F) = Len(magic) + Len(b) + Len(x) /\ At(F, 0, magic) /\ At(F, Len(magic), b)
  BY <1>7 DEF Three
<1>9. At(F, Len(magic) + Len(b), x)
  BY <1>7 DEF Three
<1>10. Len(F) = 6 + Len(x)
  BY <1>2, <1>4, <1>8
<1>11. At(F, 6, x)
  <2>1. Len(magic) + Len(b) = 6
    BY <1>4
  <2> QED
    BY <2>1, <1>9
<1>12. F[5] = b[1] /\ F[6] = b[2]
  <2>1. At(F, 4, b)
    BY <1>8
  <2>2. F[4 + 1] = b[1] /\ F[4 + 2] = b[2]
    BY <2>1, <1>4 DEF At
  <2> QED
    BY <2>2
<1>13. 256 * F[5] + F[6] = Len(x)
  BY <1>2, <1>4, <1>12
<1> QED
  BY <1>1, <1>8, <1>10, <1>11, <1>13 DEF HelloLayout

(* The header, by its four forms.                                          *)
IsHeader(h, t, z) ==
    h \in Bytes /\ Len(h) < 65536 /\ DecodeHeader(h) = [type |-> t, lz4 |-> z]

LEMMA DecodedIs ==
    ASSUME NEW h, NEW t, NEW z \in BOOLEAN,
           (IF h # <<>> /\ h[1] = 8 THEN h[2] ELSE 0) = t,
           (Len(h) >= 2 /\ Upto(Reverse(h), 2) = <<1, 16>>) = z
    PROVE  DecodeHeader(h) = [type |-> t, lz4 |-> z]
BY DEF DecodeHeader

LEMMA NoFields ==
    IsHeader(<<>>, 0, FALSE)
<1>1. PICK h : h = <<>>
  OBVIOUS
<1>2. h \in Bytes /\ Len(h) = 0
  BY <1>1, EmptyIs
<1>3. (IF h # <<>> /\ h[1] = 8 THEN h[2] ELSE 0) = 0
  BY <1>1
<1>4. (Len(h) >= 2 /\ Upto(Reverse(h), 2) = <<1, 16>>) = FALSE
  <2>1. ~(Len(h) >= 2)
    BY <1>2
  <2> QED
    BY <2>1
<1>5. DecodeHeader(h) = [type |-> 0, lz4 |-> FALSE]
  BY <1>3, <1>4, DecodedIs
<1> QED
  BY <1>1, <1>2, <1>5 DEF IsHeader

LEMMA TypeField ==
    ASSUME NEW t \in Nat, t <= 7
    PROVE  IsHeader(<<8, t>>, t, FALSE)
<1>1. PICK h : h = <<8, t>>
  OBVIOUS
<1>2. h \in Bytes /\ Len(h) = 2 /\ h[1] = 8 /\ h[2] = t /\ h # <<>>
  BY <1>1 DEF Bytes
<1>3. (IF h # <<>> /\ h[1] = 8 THEN h[2] ELSE 0) = t
  BY <1>2
<1>4. PICK r : r = Reverse(h)
  OBVIOUS
<1>5. r = [i \in 1 .. 2 |-> h[(2 - i) + 1]]
  BY <1>2, <1>4 DEF Reverse
<1>6. r[2] = 8
  BY <1>2, <1>5
<1>7. PICK u : u = Upto(r, 2)
  OBVIOUS
<1>8. u[2] = r[2]
  <2>1. r \in Bytes /\ Len(r) = 2
    <3>1. \A i \in 1 .. 2 : h[(2 - i) + 1] \in Nat
      BY <1>2
    <3> QED
      BY <3>1, <1>5 DEF Bytes
  <2>2. 2 \in Nat /\ 2 <= Len(r)
    BY <2>1
  <2>3. Stretch(u, r, 0, 2)
    BY <2>1, <2>2, <1>7, UptoIs
  <2> QED
    BY <2>3 DEF Stretch
<1>9. u # <<1, 16>>
  BY <1>6, <1>8
<1>10. (Len(h) >= 2 /\ Upto(Reverse(h), 2) = <<1, 16>>) = FALSE
  BY <1>4, <1>7, <1>9
<1>11. DecodeHeader(h) = [type |-> t, lz4 |-> FALSE]
  BY <1>3, <1>10, DecodedIs
<1> QED
  BY <1>1, <1>2, <1>11 DEF IsHeader

LEMMA Compressed ==
    ASSUME NEW h \in Bytes, NEW n \in Nat, Len(h) = n, n >= 2, h[n] = 1, h[n - 1] = 16
    PROVE  Upto(Reverse(h), 2) = <<1, 16>>
<1>1. PICK r : r = Reverse(h)
  OBVIOUS
<1>2. r = [i \in 1 .. n |-> h[(n - i) + 1]]
  BY <1>1 DEF Reverse
<1>3. r \in Bytes /\ Len(r) = n
  <2>1. \A i \in 1 .. n : (n - i) + 1 \in 1 .. n
    OBVIOUS
  <2>2. \A i \in 1 .. n : h[(n - i) + 1] \in Nat
    BY <2>1, LenIs
  <2> QED
    BY <2>2, <1>2 DEF Bytes
<1>4. r[1] = 1 /\ r[2] = 16
  <2>1. r[1] = h[(n - 1) + 1] /\ r[2] = h[(n - 2) + 1]
    BY <1>2
  <2>2. (n - 1) + 1 = n /\ (n - 2) + 1 = n - 1
    OBVIOUS
  <2> QED
    BY <2>1, <2>2
<1>5. PICK u : u = Upto(r, 2)
  OBVIOUS
<1>6. PICK v : v = <<1, 16>>
  OBVIOUS
<1>7. v \in Bytes /\ Len(v) = 2 /\ v[1] = 1 /\ v[2] = 16
  BY <1>6 DEF Bytes
<1>8. 2 \in Nat /\ 2 <= Len(r)
  BY <1>3
<1>9. u \in Bytes /\ Len(u) = 2 /\ \A i \in 1 .. 2 : u[i] = r[i]
  <2>1. Stretch(u, r, 0, 2)
    BY <1>3, <1>5, <1>8, UptoIs
  <2> QED
    BY <2>1 DEF Stretch
<1>10. Len(u) = Len(v) /\ \A i \in 1 .. Len(u) : u[i] = v[i]
  BY <1>4, <1>7, <1>9
<1>11. u = v
  BY <1>7, <1>9, <1>10, SameBytes
<1> QED
  BY <1>1, <1>5, <1>6, <1>11

LEMMA CompressionField ==
    IsHeader(<<16, 1>>, 0, TRUE)
<1>1. PICK h : h = <<16, 1>>
  OBVIOUS
<1>2. h \in Bytes /\ Len(h) = 2 /\ h[1] = 16 /\ h[2] = 1
  BY <1>1 DEF Bytes
<1>3. (IF h # <<>> /\ h[1] = 8 THEN h[2] ELSE 0) = 0
  BY <1>2
<1>4. 2 \in Nat /\ 2 >= 2 /\ h[2 - 1] = 16
  BY <1>2
<1>5. Upto(Reverse(h), 2) = <<1, 16>>
  BY <1>2, <1>4, Compressed
<1>6. (Len(h) >= 2 /\ Upto(Reverse(h), 2) = <<1, 16>>) = TRUE
  BY <1>2, <1>5
<1>7. DecodeHeader(h) = [type |-> 0, lz4 |-> TRUE]
  BY <1>3, <1>6, DecodedIs
<1> QED
  BY <1>1, <1>2, <1>7 DEF IsHeader

LEMMA BothFields ==
    ASSUME NEW t \in Nat
    PROVE  IsHeader(<<8, t>> \o <<16, 1>>, t, TRUE)
<1>1. PICK h : h = <<8, t>> \o <<16, 1>>
  OBVIOUS
<1>2. h \in Bytes /\ Len(h) = 4 /\ h[1] = 8 /\ h[2] = t /\ h[3] = 16 /\ h[4] = 1 /\ h # <<>>
  <2>1. Len(h) = 4 /\ h[1] = 8 /\ h[2] = t /\ h[3] = 16 /\ h[4] = 1
    BY <1>1
  <2>2. <<8, t>> \in Bytes /\ <<16, 1>> \in Bytes
    BY DEF Bytes
  <2>3. h \in Bytes
    BY <2>2, <1>1, Joined
  <2> QED
    BY <2>1, <2>3, LenIs
<1>3. (IF h # <<>> /\ h[1] = 8 THEN h[2] ELSE 0) = t
  BY <1>2
<1>4. 4 \in Nat /\ 4 >= 2 /\ h[4 - 1] = 16
  BY <1>2
<1>5. Upto(Reverse(h), 2) = <<1, 16>>
  BY <1>2, <1>4, Compressed
<1>6. (Len(h) >= 2 /\ Upto(Reverse(h), 2) = <<1, 16>>) = TRUE
  BY <1>2, <1>5
<1>7. DecodeHeader(h) = [type |-> t, lz4 |-> TRUE]
  BY <1>3, <1>6, DecodedIs
<1> QED
  BY <1>1, <1>2, <1>7 DEF IsHeader

LEMMA HeaderIs ==
    ASSUME NEW m \in Message
    PROVE  IsHeader(EncodeHeader(m), m.type, m.lz4)
<1>1. PICK t \in Nat : t = m.type /\ t <= 7
  BY MessageFields
<1>2. PICK z \in BOOLEAN : z = m.lz4
  BY MessageFields
<1>3. PICK h : h = EncodeHeader(m)
  OBVIOUS
<1>4. h = (IF t = 0 THEN <<>> ELSE <<8, t>>) \o (IF z THEN <<16, 1>> ELSE <<>>)
  BY <1>1, <1>2, <1>3 DEF EncodeHeader
<1>5. IsHeader(h, t, z)
  <2>1. CASE t = 0 /\ z = FALSE
    <3>1. h = <<>>
      BY <1>4, <2>1
    <3> QED
      BY <3>1, <2>1, NoFields
  <2>2. CASE t = 0 /\ z = TRUE
    <3>1. h = <<16, 1>>
      BY <1>4, <2>2
    <3> QED
      BY <3>1, <2>2, CompressionField
  <2>3. CASE t # 0 /\ z = FALSE
    <3>1. h = <<8, t>>
      BY <1>4, <2>3
    <3>2. IsHeader(<<8, t>>, t, FALSE)
      BY <1>1, TypeField
    <3> QED
      BY <3>1, <3>2, <2>3
  <2>4. CASE t # 0 /\ z = TRUE
    <3>1. h = <<8, t>> \o <<16, 1>>
      BY <1>4, <2>4
    <3>2. IsHeader(<<8, t>> \o <<16, 1>>, t, TRUE)
      BY BothFields
    <3> QED
      BY <3>1, <3>2, <2>4
  <2> QED
    BY <2>1, <2>2, <2>3, <2>4
<1> QED
  BY <1>1, <1>2, <1>3, <1>5

LEMMA FitsLess ==
    ASSUME NEW n \in Nat, FitsU32(n + 5)
    PROVE  FitsU32(n)
BY DEF FitsU32

LEMMA PayloadIs ==
    ASSUME NEW m \in Message, NEW x, x = Payload(m)
    PROVE  /\ x \in Bytes /\ Len(x) \in Nat /\ FitsU32(Len(x))
           /\ m.lz4 => Decompress(From(x, 4), from_be_bytes(Upto(x, 4))) = m.body
           /\ ~m.lz4 => x = m.body
<1>1. /\ m.body \in Bytes /\ Len(m.body) \in Nat /\ FitsU32(Len(m.body) + 5)
      /\ m.lz4 \in BOOLEAN
  BY MessageFields
<1>2. CASE ~m.lz4
  <2>1. x = m.body
    BY <1>2 DEF Payload
  <2>2. FitsU32(Len(m.body))
    BY <1>1, FitsLess
  <2> QED
    BY <1>1, <1>2, <2>1, <2>2
<1>3. CASE m.lz4
  <2>1. PICK y \in Bytes : y = m.body
    BY <1>1
  <2>2. PICK n \in Nat : n = Len(y)
    BY <1>1, <2>1
  <2>3. FitsU32(n) /\ FitsU32(n + 5)
    BY <1>1, <2>1, <2>2, FitsLess
  <2>4. PICK b : b = to_be_bytes(n, 4)
    OBVIOUS
  <2>5. b \in Bytes /\ Len(b) = 4 /\ 256 * (256 * (256 * b[1] + b[2]) + b[3]) + b[4] = n
    BY <2>3, <2>4, FourBytes
  <2>6. PICK k \in Nat : k = 16 * n
    OBVIOUS
  <2>7. PICK w : w = <<k>>
    OBVIOUS
  <2>8. w \in Bytes /\ Len(w) = 1
    BY <2>7 DEF Bytes
  <2>9. PICK c : c = w \o y
    OBVIOUS
  <2>10. c \in Bytes /\ Len(c) = Len(w) + Len(y)
    BY <2>8, <2>9, Joined
  <2>11. c = Compress(m.body)
    BY <2>1, <2>2, <2>6, <2>7, <2>9 DEF Compress
  <2>12. x = b \o c
    BY <1>3, <2>1, <2>2, <2>4, <2>11 DEF Payload
  <2>13. x \in Bytes /\ Len(x) = Len(b) + Len(c)
    BY <2>5, <2>10, <2>12, Joined
  <2>14. Len(x) = n + 5 /\ Len(c) = n + 1
    BY <2>2, <2>5, <2>8, <2>10, <2>13
  <2>15. b \in Bytes /\ Len(b) = 4
    BY <2>5
  <2>16. PICK f \in Nat : f = 4
    OBVIOUS
  <2>17. PICK u : u = Upto(x, f)
    OBVIOUS
  <2>18. f <= Len(x)
    BY <2>14, <2>16
  <2>19. u \in Bytes /\ Len(u) = f /\ \A i \in 1 .. f : u[i] = x[i]
    <3>1. Stretch(u, x, 0, f)
      BY <2>13, <2>17, <2>18, UptoIs
    <3> QED
      BY <3>1 DEF Stretch
  <2>20. \A i \in 1 .. Len(b) : x[i] = b[i]
    <3>1. At(x, 0, b)
      BY <2>15, <2>10, <2>12, AtBegin
    <3> QED
      BY <3>1, <2>15 DEF At
  <2>21. u[1] = b[1] /\ u[2] = b[2] /\ u[3] = b[3] /\ u[4] = b[4]
    BY <2>15, <2>16, <2>19, <2>20
  <2>22. from_be_bytes(u) = n
    BY <2>5, <2>16, <2>19, <2>21 DEF from_be_bytes
  <2>23. From(x, f) = c
    <3>1. x = u \o From(x, f) /\ From(x, f) \in Bytes
      BY <2>13, <2>17, <2>18, CutIs
    <3>2. u = b
      BY <2>15, <2>16, <2>19, <2>20, SameBytes
    <3>3. b \o c = b \o From(x, f)
      BY <3>1, <3>2, <2>12
    <3> QED
      BY <3>1, <3>3, <2>15, <2>10, ConcatSimplifications DEF Bytes
  <2>24. Decompress(c, n) = y
    <3>1. PICK z : z = SubSeq(c, 2, n + 1)
      OBVIOUS
    <3>2. PICK a \in Nat : a = 1
      OBVIOUS
    <3>3. PICK e \in Nat : e = n + 1
      OBVIOUS
    <3>4. z = SubSeq(c, a + 1, e) /\ a <= e /\ e <= Len(c)
      BY <3>1, <3>2, <3>3, <2>14
    <3>5. z \in Bytes /\ Len(z) = e - a /\ \A i \in 1 .. e - a : z[i] = c[a + i]
      <4>1. Stretch(z, c, a, e)
        BY <3>4, <2>10, StretchIs
      <4> QED
        BY <4>1 DEF Stretch
    <3>6. At(c, Len(w), y)
      BY <2>8, <2>9, AtEnd
    <3>7. \A i \in 1 .. n : c[1 + i] = y[i]
      BY <3>6, <2>2, <2>8 DEF At
    <3>8. Len(z) = Len(y)
      BY <3>2, <3>3, <3>5, <2>2
    <3>9. ASSUME NEW i \in 1 .. Len(z) PROVE z[i] = y[i]
      <4>1. i \in 1 .. n /\ i \in 1 .. e - a
        BY <3>2, <3>3, <3>8, <2>2
      <4>2. z[i] = c[1 + i]
        BY <4>1, <3>2, <3>5
      <4> QED
        BY <4>1, <4>2, <3>7
    <3>10. z = y
      BY <3>5, <3>8, <3>9, SameBytes
    <3> QED
      BY <3>1, <3>10 DEF Decompress
  <2> QED
    BY <1>3, <2>1, <2>3, <2>13, <2>14, <2>16, <2>17, <2>22, <2>23, <2>24
<1> QED
  BY <1>1, <1>2, <1>3

LEMMA MessageFrame ==
    ASSUME NEW m \in Message, NEW F, F = Frame(m)
    PROVE  MessageLayout(F, EncodeHeader(m), Payload(m))
<1>1. PICK h : h = EncodeHeader(m)
  OBVIOUS
<1>2. PICK x : x = Payload(m)
  OBVIOUS
<1>3. h \in Bytes /\ Len(h) \in Nat /\ Len(h) < 65536
  BY <1>1, HeaderIs, LenIs DEF IsHeader
<1>4. x \in Bytes /\ Len(x) \in Nat /\ FitsU32(Len(x))
  BY <1>2, PayloadIs
<1>5. PICK a : a = to_be_bytes(Len(h), 2)
  OBVIOUS
<1>6. a \in Bytes /\ Len(a) = 2 /\ 256 * a[1] + a[2] = Len(h)
  BY <1>3, <1>5, TwoBytes
<1>7. PICK b : b = to_be_bytes(Len(x), 4)
  OBVIOUS
<1>8. b \in Bytes /\ Len(b) = 4 /\ 256 * (256 * (256 * b[1] + b[2]) + b[3]) + b[4] = Len(x)
  BY <1>4, <1>7, FourBytes
<1>9. F = a \o h \o b \o x
  BY <1>1, <1>2, <1>5, <1>7, MessageFields DEF Frame, serialize_message
<1>10. a \in Bytes /\ b \in Bytes /\ h \in Bytes /\ x \in Bytes
  BY <1>3, <1>4, <1>6, <1>8
<1>11. Four(F, a, h, b, x)
  BY <1>9, <1>10, FourPieces
<1>12. /\ F \in Bytes /\ Len(F) = Len(a) + Len(h) + Len(b) + Len(x)
       /\ At(F, 0, a) /\ At(F, Len(a), h)
  BY <1>11 DEF Four
<1>13. At(F, Len(a) + Len(h), b)
  BY <1>11 DEF Four
<1>14. At(F, Len(a) + Len(h) + Len(b), x)
  BY <1>11 DEF Four
<1>15. Len(F) = 6 + Len(h) + Len(x)
  BY <1>3, <1>4, <1>6, <1>8, <1>12
<1>16. F[1] = a[1] /\ F[2] = a[2]
  <2>1. F[0 + 1] = a[1] /\ F[0 + 2] = a[2]
    BY <1>6, <1>12 DEF At
  <2> QED
    BY <2>1
<1>17. At(F, 2, h) /\ At(F, 2 + Len(h), b)
  BY <1>6, <1>12, <1>13
<1>18. At(F, 6 + Len(h), x)
  <2>1. Len(a) + Len(h) + Len(b) = 6 + Len(h)
    BY <1>3, <1>6, <1>8
  <2> QED
    BY <2>1, <1>14
<1> QED
  BY <1>1, <1>2, <1>3, <1>4, <1>6, <1>8, <1>12, <1>15, <1>16, <1>17, <1>18 DEF MessageLayout

-----------------------------------------------------------------------------
(* What the parser reads from the beginning of a frame.                    *)
Begins(d, F) == d \in Bytes /\ Len(d) <= Len(F) /\ \A i \in 1 .. Len(d) : d[i] = F[i]

LEMMA AtStretch ==
    ASSUME NEW F \in Bytes, NEW x \in Bytes, NEW a \in Nat, NEW b, b = a + Len(x),
           NEW u, Stretch(u, F, a, b), At(F, a, x)
    PROVE  u = x
<1>1. Len(x) \in Nat
  BY LenIs
<1>2. u \in Bytes /\ Len(u) = b - a /\ \A i \in 1 .. b - a : u[i] = F[a + i]
  BY DEF Stretch
<1>3. b - a = Len(x)
  BY <1>1
<1>4. \A i \in 1 .. Len(x) : F[a + i] = x[i]
  BY DEF At
<1>5. Len(u) = Len(x) /\ \A i \in 1 .. Len(u) : u[i] = x[i]
  BY <1>2, <1>3, <1>4
<1> QED
  BY <1>2, <1>5, SameBytes

LEMMA ReadTwo ==
    ASSUME NEW s, NEW a \in Nat, NEW b, b = a + 2, NEW u, Stretch(u, s, a, b)
    PROVE  from_be_bytes(u) = 256 * s[a + 1] + s[a + 2]
<1>1. Len(u) = 2
  BY DEF Stretch
<1>2. u[1] = s[a + 1] /\ u[2] = s[a + 2]
  BY DEF Stretch
<1> QED
  BY <1>1, <1>2 DEF from_be_bytes

LEMMA HelloLen ==
    ASSUME NEW F, NEW x, HelloLayout(F, x), NEW d, Begins(d, F), Len(d) >= 6
    PROVE  from_be_bytes(SubSeq(d, HELLO_LEN_START + 1, HELLO_START)) = Len(x)
<1>1. d \in Bytes /\ Len(d) \in Nat
  BY LenIs DEF Begins
<1>2. PICK a \in Nat : a = 4
  OBVIOUS
<1>3. PICK b \in Nat : b = 6
  OBVIOUS
<1>4. a <= b /\ b <= Len(d) /\ b = a + 2
  BY <1>1, <1>2, <1>3
<1>5. PICK u : u = SubSeq(d, a + 1, b)
  OBVIOUS
<1>6. Stretch(u, d, a, b)
  BY <1>1, <1>4, <1>5, StretchIs
<1>7. from_be_bytes(u) = 256 * d[a + 1] + d[a + 2]
  BY <1>4, <1>6, ReadTwo
<1>8. a + 1 = 5 /\ a + 2 = 6 /\ 5 \in 1 .. Len(d) /\ 6 \in 1 .. Len(d)
  BY <1>1, <1>2
<1>9. d[5] = F[5] /\ d[6] = F[6]
  BY <1>8 DEF Begins
<1>10. from_be_bytes(u) = Len(x)
  BY <1>7, <1>8, <1>9 DEF HelloLayout
<1> QED
  BY <1>2, <1>3, <1>5, <1>10 DEF HELLO_LEN_START, HELLO_START

LEMMA HeaderLen ==
    ASSUME NEW F, NEW h, NEW x, MessageLayout(F, h, x), NEW d, Begins(d, F), Len(d) >= 2
    PROVE  from_be_bytes(Upto(d, HEADER_START)) = Len(h)
<1>1. d \in Bytes /\ Len(d) \in Nat
  BY LenIs DEF Begins
<1>2. PICK b \in Nat : b = 2
  OBVIOUS
<1>3. PICK u : u = Upto(d, b)
  OBVIOUS
<1>4. Stretch(u, d, 0, b)
  BY <1>1, <1>2, <1>3, UptoIs
<1>5. 0 \in Nat /\ b = 0 + 2
  BY <1>2
<1>6. from_be_bytes(u) = 256 * d[0 + 1] + d[0 + 2]
  BY <1>4, <1>5, ReadTwo
<1>7. 1 \in 1 .. Len(d) /\ 2 \in 1 .. Len(d)
  BY <1>1
<1>8. d[1] = F[1] /\ d[2] = F[2]
  BY <1>7 DEF Begins
<1>9. from_be_bytes(u) = 256 * F[1] + F[2]
  BY <1>6, <1>8
<1>10. 256 * F[1] + F[2] = Len(h)
  BY DEF MessageLayout
<1> QED
  BY <1>2, <1>3, <1>9, <1>10 DEF HEADER_START

LEMMA MessageLen ==
    ASSUME NEW F, NEW h, NEW x, MessageLayout(F, h, x), NEW d, Begins(d, F),
           NEW p \in Nat, p = 6 + Len(h), Len(d) >= p
    PROVE  from_be_bytes(SubSeq(d, p - 3, p)) = Len(x)
<1>1. d \in Bytes /\ Len(d) \in Nat
  BY LenIs DEF Begins
<1>2. h \in Bytes /\ Len(h) \in Nat
  BY LenIs DEF MessageLayout
<1>3. PICK b : /\ b \in Bytes /\ Len(b) = 4 /\ At(F, 2 + Len(h), b)
               /\ 256 * (256 * (256 * b[1] + b[2]) + b[3]) + b[4] = Len(x)
  BY DEF MessageLayout
<1>4. b \in Bytes /\ Len(b) = 4
  BY <1>3
<1>5. PICK a \in Nat : a = 2 + Len(h)
  BY <1>2
<1>6. a + 4 = p /\ p - 3 = a + 1 /\ a <= p
  BY <1>2, <1>5
<1>7. PICK u : u = SubSeq(d, a + 1, p)
  OBVIOUS
<1>8. Stretch(u, d, a, p)
  BY <1>1, <1>6, <1>7, StretchIs
<1>9. Len(u) = 4
  BY <1>6, <1>8 DEF Stretch
<1>10. \A i \in 1 .. 4 : u[i] = d[a + i]
  BY <1>6, <1>8 DEF Stretch
<1>11. ASSUME NEW i \in 1 .. 4 PROVE u[i] = b[i]
  <2>1. a + i \in 1 .. Len(d)
    BY <1>1, <1>6
  <2>2. d[a + i] = F[a + i]
    BY <2>1 DEF Begins
  <2>3. At(F, a, b)
    BY <1>3, <1>5
  <2>4. F[a + i] = b[i]
    BY <2>3, <1>4 DEF At
  <2> QED
    BY <2>2, <2>4, <1>10
<1>12. u[1] = b[1] /\ u[2] = b[2] /\ u[3] = b[3] /\ u[4] = b[4]
  BY <1>11
<1>13. from_be_bytes(u) = 256 * (256 * (256 * b[1] + b[2]) + b[3]) + b[4]
  BY <1>9, <1>12 DEF from_be_bytes
<1> QED
  BY <1>3, <1>6, <1>7, <1>13

LEMMA BeginsItself ==
    ASSUME NEW F \in Bytes
    PROVE  Begins(F, F)
BY LenIs DEF Begins

-----------------------------------------------------------------------------
(* Decoding a whole frame gives the message.                               *)
LEMMA HelloDecoded ==
    ASSUME NEW m \in HelloMessage, NEW F, HelloLayout(F, m.body), NEW im, im.data = F
    PROVE  decode_hello(im) = m
<1>1. PICK x \in Bytes : x = m.body
  BY HelloFields
<1>2. F \in Bytes /\ Len(F) = 6 + Len(x) /\ At(F, 6, x)
  BY <1>1 DEF HelloLayout
<1>3. Len(x) \in Nat
  BY LenIs
<1>4. 6 \in Nat /\ 6 <= Len(F)
  BY <1>2, <1>3
<1>5. PICK u : u = From(F, 6)
  OBVIOUS
<1>6. Stretch(u, F, 6, Len(F))
  BY <1>2, <1>4, <1>5, FromIs
<1>7. u = x
  BY <1>2, <1>4, <1>6, AtStretch
<1>8. decode_hello(im) = [type |-> 8, lz4 |-> FALSE, body |-> x]
  BY <1>5, <1>7 DEF decode_hello, HELLO_START
<1> QED
  BY <1>1, <1>8, HelloFields

LEMMA MessageDecoded ==
    ASSUME NEW m \in Message, NEW F, MessageLayout(F, EncodeHeader(m), Payload(m)),
           NEW im, im.data = F
    PROVE  decode_post_hello_message(im) = m
<1>1. PICK h : h = EncodeHeader(m)
  OBVIOUS
<1>2. PICK x : x = Payload(m)
  OBVIOUS
<1>3. MessageLayout(F, h, x)
  BY <1>1, <1>2
<1>4. /\ F \in Bytes /\ h \in Bytes /\ x \in Bytes /\ Len(F) = 6 + Len(h) + Len(x)
      /\ At(F, 2, h) /\ At(F, 6 + Len(h), x)
  BY <1>3 DEF MessageLayout
<1>5. Len(h) \in Nat /\ Len(x) \in Nat
  BY <1>4, LenIs
<1>6. Len(F) >= 2 /\ Begins(F, F)
  BY <1>4, <1>5, BeginsItself
<1>7. header_byte_len(im) = Len(h)
  BY <1>3, <1>6, HeaderLen DEF header_byte_len
<1>8. PICK p \in Nat : p = 6 + Len(h)
  BY <1>5
<1>9. message_start_pos(im) = p
  BY <1>5, <1>7, <1>8 DEF message_start_pos, HEADER_START
<1>10. PICK a \in Nat : a = 2
  OBVIOUS
<1>11. PICK b \in Nat : b = a + Len(h)
  BY <1>5
<1>12. PICK u : u = SubSeq(F, a + 1, b)
  OBVIOUS
<1>13. u = h
  <2>1. a <= b /\ b <= Len(F)
    BY <1>4, <1>5, <1>10, <1>11
  <2>2. Stretch(u, F, a, b)
    BY <2>1, <1>4, <1>12, StretchIs
  <2>3. At(F, a, h)
    BY <1>4, <1>10
  <2> QED
    BY <2>2, <2>3, <1>4, <1>11, AtStretch
<1>14. PICK raw : raw = From(F, p)
  OBVIOUS
<1>15. raw = x
  <2>1. p <= Len(F) /\ Len(F) = p + Len(x)
    BY <1>4, <1>5, <1>8
  <2>2. Stretch(raw, F, p, Len(F))
    BY <2>1, <1>4, <1>14, FromIs
  <2>3. At(F, p, x)
    BY <1>4, <1>8
  <2> QED
    BY <2>1, <2>2, <2>3, <1>4, AtStretch
<1>16. SubSeq(im.data, HEADER_START + 1, HEADER_START + header_byte_len(im)) = h
  BY <1>7, <1>10, <1>11, <1>12, <1>13 DEF HEADER_START
<1>17. From(im.data, message_start_pos(im)) = x
  BY <1>9, <1>14, <1>15
<1>18. DecodeHeader(h) = [type |-> m.type, lz4 |-> m.lz4]
  BY <1>1, HeaderIs DEF IsHeader
<1>19. DecodeHeader(h).type = m.type /\ DecodeHeader(h).lz4 = m.lz4
  BY <1>18
<1>20. decode_post_hello_message(im) =
         [type |-> m.type, lz4 |-> m.lz4,
          body |-> IF m.lz4 THEN Decompress(From(x, 4), from_be_bytes(Upto(x, 4))) ELSE x]
  BY <1>16, <1>17, <1>19 DEF decode_post_hello_message
<1>21. (IF m.lz4 THEN Decompress(From(x, 4), from_be_bytes(Upto(x, 4))) ELSE x) = m.body
  <2>1. CASE m.lz4
    BY <2>1, <1>2, PayloadIs
  <2>2. CASE ~m.lz4
    BY <2>2, <1>2, PayloadIs
  <2> QED
    BY <2>1, <2>2
<1> QED
  BY <1>20, <1>21, MessageFields

-----------------------------------------------------------------------------
(* The lengths that the parser works with, while the data is the beginning *)
(* of a frame.                                                             *)
LEMMA HelloFacts ==
    ASSUME PreHello, NEW F, NEW x, HelloLayout(F, x), NEW im, Begins(im.data, F)
    PROVE  /\ LengthKnown(im) <=> Len(im.data) >= 6
           /\ LengthKnown(im) => missing_message_bytes(im) = Len(F) - Len(im.data)
           /\ Complete(im) <=> Len(im.data) = Len(F)
<1>1. PICK d : d = im.data
  OBVIOUS
<1>2. d \in Bytes /\ Len(d) \in Nat /\ Len(d) <= Len(F) /\ Begins(d, F)
  BY <1>1, LenIs DEF Begins
<1>3. Len(x) \in Nat /\ Len(F) = 6 + Len(x)
  BY LenIs DEF HelloLayout
<1>4. LengthKnown(im) <=> Len(d) >= 6
  BY <1>1 DEF LengthKnown, HELLO_START
<1>5. ASSUME Len(d) >= 6 PROVE missing_message_bytes(im) = Len(F) - Len(d)
  <2>1. message_byte_len(im) = Len(x)
    BY <1>1, <1>2, <1>5, HelloLen DEF message_byte_len
  <2>2. start_pos(im) = 6
    BY DEF start_pos, HELLO_START
  <2>3. missing_message_bytes(im) = Len(x) + 6 - Len(d)
    BY <1>1, <2>1, <2>2 DEF missing_message_bytes
  <2> QED
    BY <2>3, <1>2, <1>3
<1>6. Complete(im) <=> Len(d) = Len(F)
  <2>1. CASE Len(d) >= 6
    BY <2>1, <1>2, <1>3, <1>4, <1>5 DEF Complete
  <2>2. CASE ~(Len(d) >= 6)
    BY <2>2, <1>2, <1>3, <1>4 DEF Complete
  <2> QED
    BY <2>1, <2>2
<1> QED
  BY <1>1, <1>4, <1>5, <1>6

(* The header of a message is known once its last byte is there.           *)
HeaderKnown(im, h) == im.header # "none" <=> Len(im.data) >= 2 + Len(h)

LEMMA MessageFacts ==
    ASSUME ~PreHello, NEW F, NEW h, NEW x, MessageLayout(F, h, x),
           NEW im, Begins(im.data, F), HeaderKnown(im, h)
    PROVE  /\ Len(im.data) >= 2 => header_byte_len(im) = Len(h) /\ message_start_pos(im) = 6 + Len(h)
           /\ LengthKnown(im) <=> Len(im.data) >= 6 + Len(h)
           /\ LengthKnown(im) => missing_message_bytes(im) = Len(F) - Len(im.data)
           /\ Complete(im) <=> Len(im.data) = Len(F)
<1>1. PICK d : d = im.data
  OBVIOUS
<1>2. d \in Bytes /\ Len(d) \in Nat /\ Len(d) <= Len(F) /\ Begins(d, F)
  BY <1>1, LenIs DEF Begins
<1>3. Len(x) \in Nat /\ Len(h) \in Nat /\ Len(F) = 6 + Len(h) + Len(x)
  BY LenIs DEF MessageLayout
<1>4. ASSUME Len(d) >= 2 PROVE header_byte_len(im) = Len(h) /\ message_start_pos(im) = 6 + Len(h)
  <2>1. header_byte_len(im) = Len(h)
    BY <1>1, <1>2, <1>4, HeaderLen DEF header_byte_len
  <2>2. message_start_pos(im) = 2 + Len(h) + 4
    BY <2>1 DEF message_start_pos, HEADER_START
  <2> QED
    BY <2>1, <2>2, <1>3
<1>5. LengthKnown(im) <=> im.header # "none" /\ Len(d) >= message_start_pos(im)
  BY <1>1 DEF LengthKnown
<1>6. im.header # "none" <=> Len(d) >= 2 + Len(h)
  BY <1>1 DEF HeaderKnown
<1>7. LengthKnown(im) <=> Len(d) >= 6 + Len(h)
  <2>1. CASE Len(d) >= 2 + Len(h)
    <3>1. Len(d) >= 2
      BY <2>1, <1>2, <1>3
    <3> QED
      BY <2>1, <3>1, <1>4, <1>5, <1>6
  <2>2. CASE ~(Len(d) >= 2 + Len(h))
    <3>1. ~(Len(d) >= 6 + Len(h))
      BY <2>2, <1>2, <1>3
    <3> QED
      BY <2>2, <3>1, <1>5, <1>6
  <2> QED
    BY <2>1, <2>2
<1>8. ASSUME Len(d) >= 6 + Len(h) PROVE missing_message_bytes(im) = Len(F) - Len(d)
  <2>1. PICK p \in Nat : p = 6 + Len(h)
    BY <1>3
  <2>2. Len(d) >= p /\ Len(d) >= 2
    BY <1>2, <1>3, <1>8, <2>1
  <2>3. message_start_pos(im) = p
    BY <1>4, <2>1, <2>2
  <2>4. message_byte_len(im) = Len(x)
    <3>1. from_be_bytes(SubSeq(d, p - 3, p)) = Len(x)
      BY <1>2, <2>1, <2>2, MessageLen
    <3> QED
      BY <3>1, <1>1, <2>3 DEF message_byte_len
  <2>5. start_pos(im) = p
    BY <2>3 DEF start_pos
  <2>6. missing_message_bytes(im) = Len(x) + p - Len(d)
    BY <1>1, <2>4, <2>5 DEF missing_message_bytes
  <2> QED
    BY <2>1, <2>6, <1>2, <1>3
<1>9. Complete(im) <=> Len(d) = Len(F)
  <2>1. CASE Len(d) >= 6 + Len(h)
    BY <2>1, <1>2, <1>3, <1>7, <1>8 DEF Complete
  <2>2. CASE ~(Len(d) >= 6 + Len(h))
    BY <2>2, <1>2, <1>3, <1>7 DEF Complete
  <2> QED
    BY <2>1, <2>2
<1> QED
  BY <1>1, <1>4, <1>7, <1>8, <1>9

LEMMA HeaderParsed ==
    ASSUME NEW F, NEW h, NEW x, MessageLayout(F, h, x), NEW d, Begins(d, F)
    PROVE  try_parse_header(d) = IF Len(d) >= 2 + Len(h) THEN "parsed" ELSE "none"
<1>1. Len(d) \in Nat /\ Len(h) \in Nat
  BY LenIs DEF Begins, MessageLayout
<1>2. CASE Len(d) >= 2
  <2>1. from_be_bytes(Upto(d, HEADER_START)) = Len(h)
    BY <1>2, HeaderLen
  <2> QED
    BY <1>2, <2>1 DEF try_parse_header, HEADER_START
<1>3. CASE ~(Len(d) >= 2)
  <2>1. ~(Len(d) >= 2 + Len(h))
    BY <1>1, <1>3
  <2> QED
    BY <1>3, <2>1 DEF try_parse_header, HEADER_START
<1> QED
  BY <1>2, <1>3

-----------------------------------------------------------------------------
(* The inductive invariant. Remains(k, r): r is what follows in the stream *)
(* after the frames of the first k messages.                               *)
M == HelloMessage \cup Message
Frames == [i \in DOMAIN sent |-> Frame(sent[i])]
Remains(k, r) == \E t : RestAfter(t, Frames, Len(sent)) /\ r = t[k]

(* The peer begins with a Hello and sends no other.                        *)
PeerInv ==
    /\ magic \in Bytes /\ Len(magic) = 4
    /\ sent \in Seq(M) /\ Len(sent) >= 1 /\ sent[1] \in HelloMessage
    /\ \A i \in 2 .. Len(sent) : sent[i] \in Message
FormInv ==
    /\ wire \in Bytes /\ buf \in Bytes
    /\ incoming_message \in [data : Bytes, header : {"none", "parsed"}]
    /\ res \in Seq(M) /\ delivered \in Seq(M)
    /\ reader \in {"running", "ended", "failed"}
(* What is parsed, and what the end of a call and a failure leave.         *)
OrderInv ==
    /\ Len(Parsed) <= Len(sent) /\ \A i \in 1 .. Len(Parsed) : Parsed[i] = sent[i]
    /\ Parsed # <<>> => magic = MAGIC_NUMBER
    /\ buf = <<>> => res = <<>>
    /\ buf # <<>> => reader = "running"
    /\ reader = "failed" => Parsed = <<>>
(* The bytes kept, the rest of the read and the wire are together what the *)
(* peer sent after the messages parsed, and the bytes kept are no whole    *)
(* frame. The header is known exactly when all of its bytes are there.     *)
StreamInv ==
    reader # "failed" =>
      /\ PreHello <=> Len(Parsed) = 0
      /\ Remains(Len(Parsed), incoming_message.data \o (buf \o wire))
      /\ incoming_message.data = <<>> => incoming_message.header = "none"
      /\ PreHello => incoming_message.header = "none"
      /\ Len(Parsed) < Len(sent) =>
           Len(incoming_message.data) < Len(Frame(sent[Len(Parsed) + 1]))
      /\ ~PreHello /\ Len(Parsed) < Len(sent) =>
           HeaderKnown(incoming_message, EncodeHeader(sent[Len(Parsed) + 1]))
ParserInv == PeerInv /\ FormInv /\ OrderInv /\ StreamInv

LEMMA FramesAre ==
    ASSUME PeerInv, NEW i \in 1 .. Len(sent)
    PROVE  /\ Len(sent) \in Nat /\ DOMAIN Frames = 1 .. Len(sent)
           /\ Frames[i] = Frame(sent[i]) /\ Frames[i] \in Bytes /\ Len(Frames[i]) >= 6
<1>1. Len(sent) \in Nat /\ DOMAIN sent = 1 .. Len(sent)
  BY LenProperties DEF PeerInv
<1>2. DOMAIN Frames = 1 .. Len(sent) /\ Frames[i] = Frame(sent[i])
  BY <1>1 DEF Frames
<1>3. PICK F : F = Frame(sent[i])
  OBVIOUS
<1>4. CASE i = 1
  <2>1. PICK m \in HelloMessage : m = sent[i]
    BY <1>4 DEF PeerInv
  <2>2. HelloLayout(F, m.body)
    BY <2>1, <1>3, HelloFrame DEF PeerInv
  <2>3. F \in Bytes /\ Len(m.body) \in Nat /\ Len(F) = 6 + Len(m.body)
    BY <2>2, LenIs DEF HelloLayout
  <2>4. Len(F) >= 6
    BY <2>3
  <2> QED
    BY <2>3, <2>4, <1>1, <1>2, <1>3
<1>5. CASE i # 1
  <2>1. i \in 2 .. Len(sent)
    BY <1>1, <1>5
  <2>2. PICK m \in Message : m = sent[i]
    BY <2>1 DEF PeerInv
  <2>3. PICK h : h = EncodeHeader(m)
    OBVIOUS
  <2>4. PICK x : x = Payload(m)
    OBVIOUS
  <2>5. MessageLayout(F, h, x)
    BY <2>2, <2>3, <2>4, <1>3, MessageFrame
  <2>6. F \in Bytes /\ Len(h) \in Nat /\ Len(x) \in Nat /\ Len(F) = 6 + Len(h) + Len(x)
    BY <2>5, LenIs DEF MessageLayout
  <2>7. Len(F) >= 6
    BY <2>6
  <2> QED
    BY <2>6, <2>7, <1>1, <1>2, <1>3
<1> QED
  BY <1>4, <1>5

LEMMA RemainsEnd ==
    ASSUME NEW r, NEW k, k = Len(sent), Remains(k, r)
    PROVE  r = <<>>
BY DEF Remains, RestAfter

LEMMA RemainsNext ==
    ASSUME PeerInv, NEW k \in Nat, k < Len(sent), NEW r, Remains(k, r)
    PROVE  \E q \in Bytes : r = Frame(sent[k + 1]) \o q /\ Remains(k + 1, q)
<1>1. PICK n \in Nat : n = Len(sent)
  BY LenProperties DEF PeerInv
<1>2. PICK t : RestAfter(t, Frames, n) /\ r = t[k]
  BY <1>1 DEF Remains
<1>3. PICK j : j = k + 1
  OBVIOUS
<1>4. k \in 0 .. n - 1 /\ j \in 0 .. n /\ j \in 1 .. n
  BY <1>1, <1>3
<1>5. t[k] = Frames[j] \o t[j] /\ t[j] \in Bytes
  BY <1>2, <1>3, <1>4 DEF RestAfter
<1>6. Frames[j] = Frame(sent[j])
  BY <1>1, <1>4, FramesAre
<1>7. Remains(j, t[j])
  BY <1>1, <1>2 DEF Remains
<1> QED
  BY <1>2, <1>3, <1>5, <1>6, <1>7

-----------------------------------------------------------------------------
(* The initial states.                                                     *)
LEMMA PeerInit ==
    ASSUME Init
    PROVE  PeerInv
<1>1. PICK n \in 0 .. MaxMessages - 1, hello \in HelloMessage,
           ms \in [1 .. MaxMessages - 1 -> Message] : sent = <<hello>> \o Upto(ms, n)
  BY DEF Init
<1>2. MaxMessages \in Nat
  BY MessageAssumption
<1>3. PICK q : q = SubSeq(ms, 1, n)
  OBVIOUS
<1>4. n \in Nat /\ 1 \in Int /\ n \in Int /\ \A i \in 1 .. n : ms[i] \in Message
  BY <1>2
<1>5. /\ q \in Seq(Message) /\ Len(q) = IF 1 <= n THEN n - 1 + 1 ELSE 0
  BY <1>3, <1>4, SubSeqProperties
<1>6. Len(q) = n
  BY <1>4, <1>5
<1>7. PICK p : p = <<hello>>
  OBVIOUS
<1>8. p \in Seq(M) /\ Len(p) = 1 /\ p[1] = hello
  BY <1>7 DEF M
<1>9. q \in Seq(M)
  BY <1>5, SeqMonotonic DEF M
<1>10. sent = p \o q
  BY <1>1, <1>3, <1>7 DEF Upto
<1>11. /\ sent \in Seq(M) /\ Len(sent) = Len(p) + Len(q)
       /\ \A i \in 1 .. Len(p) + Len(q) : sent[i] = IF i <= Len(p) THEN p[i] ELSE q[i - Len(p)]
  BY <1>8, <1>9, <1>10, ConcatProperties
<1>12. Len(sent) = 1 + n /\ Len(sent) >= 1
  BY <1>4, <1>6, <1>8, <1>11
<1>13. sent[1] \in HelloMessage
  BY <1>4, <1>6, <1>8, <1>11
<1>14. ASSUME NEW i \in 2 .. Len(sent) PROVE sent[i] \in Message
  <2>1. PICK j : j = i - 1
    OBVIOUS
  <2>2. i \in 1 .. Len(p) + Len(q) /\ ~(i <= Len(p)) /\ i - Len(p) = j /\ j \in 1 .. Len(q)
    BY <1>4, <1>6, <1>8, <1>12, <2>1
  <2>3. sent[i] = q[j]
    BY <1>11, <2>2
  <2> QED
    BY <1>5, <2>2, <2>3, ElementOfSeq
<1>15. magic \in Bytes /\ Len(magic) = 4
  <2>1. MAGIC_NUMBER \in Bytes /\ Len(MAGIC_NUMBER) = 4
    BY DEF MAGIC_NUMBER, Bytes
  <2>2. OtherMagic \in Bytes /\ Len(OtherMagic) = 4
    BY MessageAssumption, BodyIs
  <2>3. magic = MAGIC_NUMBER \/ magic = OtherMagic
    BY DEF Init
  <2> QED
    BY <2>1, <2>2, <2>3
<1> QED
  BY <1>11, <1>12, <1>13, <1>14, <1>15 DEF PeerInv

LEMMA ParsedNothing ==
    ASSUME delivered = <<>>, res = <<>>
    PROVE  Parsed = <<>> /\ Len(Parsed) = 0
<1>1. <<>> \in Seq(M) /\ Len(<<>>) = 0
  BY EmptySeq
<1>2. <<>> \o <<>> = <<>>
  BY <1>1, ConcatEmptySeq
<1> QED
  BY <1>1, <1>2 DEF Parsed

LEMMA WireInit ==
    ASSUME Init
    PROVE  wire \in Bytes /\ Remains(0, wire)
<1>1. PeerInv
  BY PeerInit
<1>2. PICK n \in Nat : n = Len(sent) /\ n >= 1
  BY <1>1, LenProperties DEF PeerInv
<1>3. \A i \in 1 .. n : Frames[i] \in Bytes
  BY <1>1, <1>2, FramesAre
<1>4. DOMAIN Frames = 1 .. n
  <2>1. 1 \in 1 .. Len(sent)
    BY <1>2
  <2> QED
    BY <2>1, <1>1, <1>2, FramesAre
<1>5. Len(Frames) = n
  <2>1. Frames = [i \in 1 .. n |-> Frames[i]]
    <3>1. DOMAIN sent = 1 .. n
      BY <1>4 DEF Frames
    <3> QED
      BY <3>1 DEF Frames
  <2>2. Frames \in [1 .. n -> Bytes]
    BY <2>1, <1>3
  <2>3. Frames \in Seq(Bytes)
    BY <2>2, SeqDef
  <2>4. DOMAIN Frames = 1 .. Len(Frames) /\ Len(Frames) \in Nat
    BY <2>3, LenProperties
  <2>5. PICK l \in Nat : l = Len(Frames) /\ 1 .. l = 1 .. n
    BY <2>4, <1>4
  <2>6. n \in 1 .. n
    BY <1>2
  <2>7. n <= l
    BY <2>5, <2>6
  <2>8. l \in 1 .. l
    BY <2>7, <1>2
  <2>9. l <= n
    BY <2>5, <2>8
  <2> QED
    BY <2>5, <2>7, <2>9
<1>6. wire = FlattenSeq(Frames)
  BY DEF Init, Frames
<1>7. Flat(wire, Frames, n)
  BY <1>2, <1>3, <1>5, <1>6, FlattenSeqIs
<1>8. PICK t : RestAfter(t, Frames, n) /\ t[0] = wire
  BY <1>7 DEF Flat
<1>9. t[0] \in Bytes
  BY <1>2, <1>8 DEF RestAfter
<1>10. Remains(0, wire)
  BY <1>2, <1>8 DEF Remains
<1> QED
  BY <1>8, <1>9, <1>10

LEMMA ParserInit ==
    ASSUME Init
    PROVE  ParserInv
<1>1. PeerInv
  BY PeerInit
<1>2. wire \in Bytes /\ Remains(0, wire)
  BY WireInit
<1>3. /\ reader = "running" /\ buf = <<>> /\ bep_auth_status = "PreHello"
      /\ incoming_message = NoMessage /\ res = <<>> /\ delivered = <<>>
  BY DEF Init
<1>4. Parsed = <<>> /\ Len(Parsed) = 0
  BY <1>3, ParsedNothing
<1>5. incoming_message.data = <<>> /\ incoming_message.header = "none"
  BY <1>3 DEF NoMessage
<1>6. <<>> \in Bytes /\ <<>> \in Seq(M) /\ Len(<<>>) = 0
  BY EmptyIs, EmptySeq
<1>7. FormInv
  <2>1. incoming_message \in [data : Bytes, header : {"none", "parsed"}]
    BY <1>3, <1>6 DEF NoMessage
  <2> QED
    BY <2>1, <1>2, <1>3, <1>6 DEF FormInv
<1>8. PICK n \in Nat : n = Len(sent) /\ n >= 1
  BY <1>1, LenProperties DEF PeerInv
<1>9. OrderInv
  <2>1. 0 <= n /\ \A i \in 1 .. 0 : Parsed[i] = sent[i]
    BY <1>8
  <2> QED
    BY <2>1, <1>3, <1>4, <1>8 DEF OrderInv
<1>10. <<>> \o (<<>> \o wire) = wire
  BY <1>2, <1>6, Joined
<1>11. Len(<<>>) < Len(Frame(sent[0 + 1]))
  <2>1. 1 \in 1 .. Len(sent)
    BY <1>8
  <2>2. Frames[1] = Frame(sent[1]) /\ Frames[1] \in Bytes /\ Len(Frames[1]) >= 6
    BY <1>1, <2>1, FramesAre
  <2>3. Len(Frames[1]) \in Nat
    BY <2>2, LenIs
  <2> QED
    BY <2>2, <2>3, <1>6
<1>12. StreamInv
  BY <1>2, <1>3, <1>4, <1>5, <1>10, <1>11 DEF StreamInv, PreHello
<1> QED
  BY <1>1, <1>7, <1>9, <1>12 DEF ParserInv

-----------------------------------------------------------------------------
(* Where the parser stands when a pass begins.                             *)
LEMMA Cancel ==
    ASSUME NEW a \in Bytes, NEW b \in Bytes, NEW f \in Bytes, NEW g \in Bytes,
           a \o b = f \o g, Len(a) <= Len(f)
    PROVE  Begins(a, f) /\ (Len(a) = Len(f) => a = f /\ b = g)
<1>1. PICK u : u = a \o b
  OBVIOUS
<1>2. \A i \in 1 .. Len(a) : u[i] = a[i]
  BY <1>1, JoinedAt
<1>3. \A i \in 1 .. Len(f) : u[i] = f[i]
  BY <1>1, JoinedAt
<1>4. Len(a) \in Nat /\ Len(f) \in Nat
  BY LenIs
<1>5. \A i \in 1 .. Len(a) : a[i] = f[i]
  BY <1>2, <1>3, <1>4
<1>6. ASSUME Len(a) = Len(f) PROVE a = f /\ b = g
  <2>1. a = f
    BY <1>5, <1>6, SameBytes
  <2>2. a \o b = a \o g
    BY <2>1
  <2>3. b = g
    BY <2>2, ConcatSimplifications DEF Bytes
  <2> QED
    BY <2>1, <2>3
<1> QED
  BY <1>5, <1>6 DEF Begins

(* The frame that the parser is in, and what it knows of it.               *)
Inside(k, F) ==
    /\ k \in Nat /\ k = Len(Parsed) /\ k < Len(sent) /\ k + 1 \in 1 .. Len(sent)
    /\ F = Frame(sent[k + 1]) /\ F \in Bytes
    /\ Begins(incoming_message.data, F) /\ Len(incoming_message.data) < Len(F)
    /\ \E q \in Bytes : /\ incoming_message.data \o (buf \o wire) = F \o q
                        /\ Remains(k + 1, q)

LEMMA ParsedType ==
    ASSUME FormInv
    PROVE  Parsed \in Seq(M) /\ Len(Parsed) \in Nat
<1>1. Parsed \in Seq(M)
  BY ConcatProperties DEF FormInv, Parsed
<1> QED
  BY <1>1, LenProperties

LEMMA InsideFrame ==
    ASSUME ParserInv, reader # "failed", Len(Parsed) < Len(sent)
    PROVE  \E k, F : Inside(k, F)
<1>1. PICK k \in Nat : k = Len(Parsed)
  BY ParsedType DEF ParserInv
<1>2. PICK n \in Nat : n = Len(sent)
  BY LenProperties DEF ParserInv, PeerInv
<1>3. PICK d \in Bytes : d = incoming_message.data
  BY DEF ParserInv, FormInv
<1>4. PICK w : w = buf \o wire
  OBVIOUS
<1>5. w \in Bytes
  BY <1>4, Joined DEF ParserInv, FormInv
<1>6. Remains(k, d \o w)
  BY <1>1, <1>3, <1>4 DEF ParserInv, StreamInv
<1>7. PICK q \in Bytes : d \o w = Frame(sent[k + 1]) \o q /\ Remains(k + 1, q)
  BY <1>1, <1>6, RemainsNext DEF ParserInv
<1>8. PICK F : F = Frame(sent[k + 1])
  OBVIOUS
<1>9. k + 1 \in 1 .. Len(sent)
  BY <1>1, <1>2
<1>10. F \in Bytes
  BY <1>8, <1>9, FramesAre DEF ParserInv
<1>11. Len(d) < Len(F)
  BY <1>1, <1>3, <1>8 DEF ParserInv, StreamInv
<1>12. Len(d) <= Len(F)
  BY <1>3, <1>10, <1>11, LenIs
<1>13. Begins(d, F)
  <2>1. d \o w = F \o q
    BY <1>7, <1>8
  <2> QED
    BY <2>1, <1>5, <1>10, <1>12, Cancel
<1>14. Inside(k, F)
  BY <1>1, <1>3, <1>4, <1>7, <1>8, <1>9, <1>10, <1>11, <1>13 DEF Inside
<1> QED
  BY <1>14

(* There is a frame as long as there are bytes.                            *)
LEMMA BytesLeft ==
    ASSUME ParserInv, buf # <<>>
    PROVE  reader = "running" /\ Len(Parsed) < Len(sent)
<1>1. reader = "running"
  BY DEF ParserInv, OrderInv
<1>2. SUFFICES ASSUME ~(Len(Parsed) < Len(sent)) PROVE FALSE
  BY <1>1
<1>3. Len(Parsed) = Len(sent)
  <2>1. Len(Parsed) \in Nat /\ Len(sent) \in Nat
    BY ParsedType, LenProperties DEF ParserInv, PeerInv
  <2>2. Len(Parsed) <= Len(sent)
    BY DEF ParserInv, OrderInv
  <2> QED
    BY <2>1, <2>2, <1>2
<1>4. PICK d \in Bytes : d = incoming_message.data
  BY DEF ParserInv, FormInv
<1>5. PICK w : w = buf \o wire
  OBVIOUS
<1>6. w \in Bytes /\ buf \in Bytes /\ wire \in Bytes
  BY <1>5, Joined DEF ParserInv, FormInv
<1>7. d \o w = <<>>
  BY <1>1, <1>3, <1>4, <1>5, RemainsEnd DEF ParserInv, StreamInv
<1>8. w = <<>>
  BY <1>4, <1>6, <1>7, ConcatSimplifications DEF Bytes
<1>9. buf = <<>>
  BY <1>5, <1>6, <1>8, ConcatSimplifications DEF Bytes
<1> QED
  BY <1>9

LEMMA InsideHello ==
    ASSUME ParserInv, reader # "failed", NEW k, NEW F, Inside(k, F), PreHello
    PROVE  /\ k = 0 /\ sent[k + 1] \in HelloMessage
           /\ HelloLayout(F, sent[k + 1].body)
<1>1. k = 0
  BY DEF ParserInv, StreamInv, Inside
<1>2. PICK m : m = sent[k + 1]
  OBVIOUS
<1>3. m \in HelloMessage
  BY <1>1, <1>2 DEF ParserInv, PeerInv
<1>4. F = Frame(m) /\ magic \in Bytes /\ Len(magic) = 4
  BY <1>2 DEF Inside, ParserInv, PeerInv
<1>5. HelloLayout(F, m.body)
  BY <1>3, <1>4, HelloFrame
<1> QED
  BY <1>1, <1>2, <1>3, <1>5

LEMMA InsideMessage ==
    ASSUME ParserInv, reader # "failed", NEW k, NEW F, Inside(k, F), ~PreHello
    PROVE  /\ sent[k + 1] \in Message
           /\ MessageLayout(F, EncodeHeader(sent[k + 1]), Payload(sent[k + 1]))
           /\ HeaderKnown(incoming_message, EncodeHeader(sent[k + 1]))
<1>1. k # 0 /\ k \in Nat /\ k = Len(Parsed) /\ k < Len(sent)
  BY DEF ParserInv, StreamInv, Inside
<1>2. k + 1 \in 2 .. Len(sent)
  BY <1>1 DEF Inside
<1>3. PICK m : m = sent[k + 1]
  OBVIOUS
<1>4. m \in Message
  BY <1>2, <1>3 DEF ParserInv, PeerInv
<1>5. F = Frame(m)
  BY <1>3 DEF Inside
<1>6. MessageLayout(F, EncodeHeader(m), Payload(m))
  BY <1>4, <1>5, MessageFrame
<1>7. HeaderKnown(incoming_message, EncodeHeader(m))
  BY <1>1, <1>3 DEF ParserInv, StreamInv
<1> QED
  BY <1>3, <1>4, <1>6, <1>7

(* A pass takes at least one byte, no more than the read has left, and     *)
(* none of the next frame.                                                 *)
Fits(c, F) ==
    c \in Nat /\ 1 <= c /\ c <= Len(buf) /\ c <= Len(F) - Len(incoming_message.data)

LEMMA LowerIs ==
    ASSUME NEW a \in Nat, NEW b \in Nat, 1 <= a, 1 <= b
    PROVE  Lower(a, b) \in Nat /\ 1 <= Lower(a, b) /\ Lower(a, b) <= a /\ Lower(a, b) <= b
BY DEF Lower

LEMMA StillMissing ==
    ASSUME NEW a \in Nat, NEW d \in Nat, ~(d >= a)
    PROVE  \E g \in Nat : g = a - d /\ 1 <= g
<1>1. a - d \in Nat /\ 1 <= a - d
  OBVIOUS
<1> QED
  BY <1>1

LEMMA Lengths ==
    ASSUME ParserInv, buf # <<>>, NEW k, NEW F, Inside(k, F)
    PROVE  /\ Len(buf) \in Nat /\ 1 <= Len(buf)
           /\ Len(incoming_message.data) \in Nat /\ Len(F) \in Nat
           /\ Len(incoming_message.data) < Len(F) /\ 6 <= Len(F)
           /\ incoming_message = NoMessage => Len(incoming_message.data) = 0
<1>1. buf \in Bytes /\ incoming_message.data \in Bytes /\ F \in Bytes
  BY DEF ParserInv, FormInv, Inside
<1>2. Len(buf) \in Nat /\ Len(buf) # 0 /\ Len(incoming_message.data) \in Nat /\ Len(F) \in Nat
  BY <1>1, LenIs
<1>3. k + 1 \in 1 .. Len(sent) /\ F = Frame(sent[k + 1]) /\ Len(incoming_message.data) < Len(F)
  BY DEF Inside
<1>4. PICK j \in 1 .. Len(sent) : j = k + 1
  BY <1>3
<1>5. Frames[j] = Frame(sent[j]) /\ Len(Frames[j]) >= 6
  BY FramesAre DEF ParserInv
<1>6. Len(F) >= 6
  BY <1>3, <1>4, <1>5
<1>7. incoming_message = NoMessage => Len(incoming_message.data) = 0
  BY EmptyIs DEF NoMessage
<1> QED
  BY <1>2, <1>3, <1>6, <1>7

LEMMA HelloTakes ==
    ASSUME ParserInv, reader # "failed", PreHello, buf # <<>>, NEW k, NEW F, Inside(k, F)
    PROVE  Fits(populate_hello(incoming_message), F)
<1>1. PICK b \in Nat : b = Len(buf) /\ 1 <= b
  BY Lengths
<1>2. PICK d \in Nat : d = Len(incoming_message.data)
  BY Lengths
<1>3. PICK f \in Nat : f = Len(F) /\ d < f /\ 6 <= f
  BY <1>2, Lengths
<1>4. PICK c : c = populate_hello(incoming_message)
  OBVIOUS
<1>5. HelloLayout(F, sent[k + 1].body) /\ Begins(incoming_message.data, F)
  BY InsideHello DEF Inside
<1>6. CASE incoming_message = NoMessage
  <2>1. c = Lower(b, 6) /\ d = 0
    BY <1>1, <1>2, <1>4, <1>6, Lengths DEF populate_hello, HELLO_START
  <2>2. c \in Nat /\ 1 <= c /\ c <= b /\ c <= 6
    BY <2>1, <1>1, LowerIs
  <2>3. c <= f - d
    BY <2>1, <2>2, <1>3
  <2> QED
    BY <2>2, <2>3, <1>1, <1>2, <1>3, <1>4 DEF Fits
<1>7. CASE incoming_message # NoMessage /\ d < 6
  <2>1. PICK g \in Nat : g = 6 - d /\ 1 <= g
    BY <1>7
  <2>2. c = Lower(b, g)
    BY <1>1, <1>2, <1>4, <1>7, <2>1 DEF populate_hello, HELLO_START
  <2>3. c \in Nat /\ 1 <= c /\ c <= b /\ c <= g
    BY <2>1, <2>2, <1>1, LowerIs
  <2>4. c <= f - d
    BY <2>1, <2>3, <1>3
  <2> QED
    BY <2>3, <2>4, <1>1, <1>2, <1>3, <1>4 DEF Fits
<1>8. CASE incoming_message # NoMessage /\ ~(d < 6)
  <2>1. LengthKnown(incoming_message)
    BY <1>2, <1>5, <1>8, HelloFacts
  <2>2. missing_message_bytes(incoming_message) = f - d
    BY <2>1, <1>2, <1>3, <1>5, HelloFacts
  <2>3. PICK g \in Nat : g = f - d /\ 1 <= g
    <3>1. d < f
      BY <1>3
    <3>2. f - d \in Nat /\ 1 <= f - d
      BY <3>1
    <3> QED
      BY <3>2
  <2>4. c = Lower(b, g)
    BY <1>1, <1>2, <1>4, <1>8, <2>2, <2>3 DEF populate_hello, HELLO_START
  <2>5. c \in Nat /\ 1 <= c /\ c <= b /\ c <= g
    BY <2>3, <2>4, <1>1, LowerIs
  <2> QED
    BY <2>3, <2>5, <1>1, <1>2, <1>3, <1>4 DEF Fits
<1> QED
  BY <1>6, <1>7, <1>8, <1>4

LEMMA HeaderTakes ==
    ASSUME ParserInv, reader # "failed", ~PreHello, buf # <<>>, NEW k, NEW F, Inside(k, F),
           incoming_message.header = "none"
    PROVE  Fits(populate_header(incoming_message), F)
<1>1. PICK b \in Nat : b = Len(buf) /\ 1 <= b
  BY Lengths
<1>2. PICK d \in Nat : d = Len(incoming_message.data)
  BY Lengths
<1>3. PICK f \in Nat : f = Len(F) /\ d < f /\ 6 <= f
  BY <1>2, Lengths
<1>4. PICK c : c = populate_header(incoming_message)
  OBVIOUS
<1>5. PICK h : h = EncodeHeader(sent[k + 1])
  OBVIOUS
<1>6. PICK x : x = Payload(sent[k + 1])
  OBVIOUS
<1>7. /\ MessageLayout(F, h, x) /\ HeaderKnown(incoming_message, h)
      /\ Begins(incoming_message.data, F)
  BY <1>5, <1>6, InsideMessage DEF Inside
<1>8. Len(h) \in Nat /\ Len(x) \in Nat /\ f = 6 + Len(h) + Len(x)
  BY <1>3, <1>7, LenIs DEF MessageLayout
<1>9. ~(d >= 2 + Len(h))
  BY <1>2, <1>7 DEF HeaderKnown
<1>10. CASE incoming_message = NoMessage
  <2>1. c = Lower(b, 2) /\ d = 0
    BY <1>1, <1>2, <1>4, <1>10, Lengths DEF populate_header, HEADER_START
  <2>2. c \in Nat /\ 1 <= c /\ c <= b /\ c <= 2
    BY <2>1, <1>1, LowerIs
  <2>3. c <= f - d
    BY <2>1, <2>2, <1>3
  <2> QED
    BY <2>2, <2>3, <1>1, <1>2, <1>3, <1>4 DEF Fits
<1>11. CASE incoming_message # NoMessage /\ d < 2
  <2>1. c = 1
    BY <1>2, <1>4, <1>11 DEF populate_header, HEADER_START
  <2>2. c \in Nat /\ 1 <= c /\ c <= b /\ c <= f - d
    BY <2>1, <1>1, <1>3
  <2> QED
    BY <2>2, <1>1, <1>2, <1>3, <1>4 DEF Fits
<1>12. CASE incoming_message # NoMessage /\ ~(d < 2)
  <2>1. d >= 2
    BY <1>12
  <2>2. header_byte_len(incoming_message) = Len(h)
    BY <2>1, <1>2, <1>7, MessageFacts
  <2>3. PICK g \in Nat : g = 2 + Len(h) - d /\ 1 <= g
    <3>1. PICK a \in Nat : a = 2 + Len(h)
      BY <1>8
    <3>2. ~(d >= a)
      BY <3>1, <1>9
    <3> QED
      BY <3>1, <3>2, StillMissing
  <2>4. missing_header_bytes(incoming_message) = g
    BY <2>2, <2>3, <1>2 DEF missing_header_bytes, HEADER_START
  <2>5. c = Lower(b, g)
    BY <1>1, <1>2, <1>4, <1>12, <2>4 DEF populate_header, HEADER_START
  <2>6. c \in Nat /\ 1 <= c /\ c <= b /\ c <= g
    BY <2>3, <2>5, <1>1, LowerIs
  <2>7. c <= f - d
    BY <2>3, <2>6, <1>8
  <2> QED
    BY <2>6, <2>7, <1>1, <1>2, <1>3, <1>4 DEF Fits
<1> QED
  BY <1>10, <1>11, <1>12, <1>4

LEMMA MessageTakes ==
    ASSUME ParserInv, reader # "failed", ~PreHello, buf # <<>>, NEW k, NEW F, Inside(k, F),
           incoming_message.header # "none"
    PROVE  Fits(populate_message(incoming_message), F)
<1>1. PICK b \in Nat : b = Len(buf) /\ 1 <= b
  BY Lengths
<1>2. PICK d \in Nat : d = Len(incoming_message.data)
  BY Lengths
<1>3. PICK f \in Nat : f = Len(F) /\ d < f /\ 6 <= f
  BY <1>2, Lengths
<1>4. PICK c : c = populate_message(incoming_message)
  OBVIOUS
<1>5. PICK h : h = EncodeHeader(sent[k + 1])
  OBVIOUS
<1>6. PICK x : x = Payload(sent[k + 1])
  OBVIOUS
<1>7. /\ MessageLayout(F, h, x) /\ HeaderKnown(incoming_message, h)
      /\ Begins(incoming_message.data, F)
  BY <1>5, <1>6, InsideMessage DEF Inside
<1>8. Len(h) \in Nat /\ Len(x) \in Nat /\ f = 6 + Len(h) + Len(x)
  BY <1>3, <1>7, LenIs DEF MessageLayout
<1>9. d >= 2 + Len(h)
  BY <1>2, <1>7 DEF HeaderKnown
<1>10. d >= 2
  BY <1>8, <1>9
<1>11. message_start_pos(incoming_message) = 6 + Len(h)
  BY <1>2, <1>7, <1>10, MessageFacts
<1>12. LengthKnown(incoming_message) <=> d >= 6 + Len(h)
  BY <1>2, <1>7, MessageFacts
<1>13. CASE LengthKnown(incoming_message)
  <2>1. missing_message_bytes(incoming_message) = f - d
    BY <1>2, <1>3, <1>7, <1>13, MessageFacts
  <2>2. PICK g \in Nat : g = f - d /\ 1 <= g
    <3>1. d < f
      BY <1>3
    <3>2. f - d \in Nat /\ 1 <= f - d
      BY <3>1
    <3> QED
      BY <3>2
  <2>3. c = Lower(g, b)
    BY <1>1, <1>4, <1>13, <2>1, <2>2 DEF populate_message
  <2>4. c \in Nat /\ 1 <= c /\ c <= b /\ c <= g
    BY <2>2, <2>3, <1>1, LowerIs
  <2> QED
    BY <2>2, <2>4, <1>1, <1>2, <1>3, <1>4 DEF Fits
<1>14. CASE ~LengthKnown(incoming_message)
  <2>1. PICK g \in Nat : g = 6 + Len(h) - d /\ 1 <= g
    <3>1. PICK a \in Nat : a = 6 + Len(h)
      BY <1>8
    <3>2. ~(d >= a)
      BY <3>1, <1>12, <1>14
    <3> QED
      BY <3>1, <3>2, StillMissing
  <2>2. c = Lower(g, b)
    BY <1>1, <1>2, <1>4, <1>11, <1>14, <2>1 DEF populate_message
  <2>3. c \in Nat /\ 1 <= c /\ c <= b /\ c <= g
    BY <2>1, <2>2, <1>1, LowerIs
  <2>4. c <= f - d
    BY <2>1, <2>3, <1>8
  <2> QED
    BY <2>3, <2>4, <1>1, <1>2, <1>3, <1>4 DEF Fits
<1> QED
  BY <1>13, <1>14, <1>4

-----------------------------------------------------------------------------
(* One pass of the loop: what it makes of the bytes it takes.              *)
Took(im, rest, k, F) ==
    /\ im \in [data : Bytes, header : {"none", "parsed"}] /\ rest \in Bytes
    /\ im.data # <<>> /\ Len(im.data) <= Len(F)
    /\ Complete(im) <=> Len(im.data) = Len(F)
    /\ PreHello => im.header = "none"
    /\ ~PreHello => HeaderKnown(im, EncodeHeader(sent[k + 1]))
    /\ Remains(k, im.data \o (rest \o wire))
    /\ Complete(im) => Remains(k + 1, rest \o wire) /\ decode(im) = sent[k + 1]
    /\ Complete(im) /\ PreHello => (starts_with_magic_number(im.data) <=> magic = MAGIC_NUMBER)

LEMMA MagicRead ==
    ASSUME PeerInv, NEW F, NEW x, HelloLayout(F, x)
    PROVE  starts_with_magic_number(F) <=> magic = MAGIC_NUMBER
<1>1. F \in Bytes /\ At(F, 0, magic) /\ magic \in Bytes /\ Len(magic) = 4
  BY DEF HelloLayout, PeerInv
<1>2. Len(x) \in Nat /\ Len(F) = 6 + Len(x)
  BY LenIs DEF HelloLayout
<1>3. 4 \in Nat /\ 4 <= Len(F)
  BY <1>2
<1>4. PICK u : u = Upto(F, 4)
  OBVIOUS
<1>5. Stretch(u, F, 0, 4)
  BY <1>1, <1>3, <1>4, UptoIs
<1>6. 0 \in Nat /\ 4 = 0 + Len(magic)
  BY <1>1
<1>7. u = magic
  BY <1>1, <1>5, <1>6, AtStretch
<1> QED
  BY <1>4, <1>7 DEF starts_with_magic_number, HELLO_LEN_START

LEMMA Taken ==
    ASSUME ParserInv, reader # "failed", NEW k, NEW F, Inside(k, F), NEW c, Fits(c, F),
           NEW im, im = add_data(incoming_message, Upto(buf, c)), NEW rest, rest = From(buf, c)
    PROVE  Took(im, rest, k, F)
<1>1. PICK d \in Bytes : d = incoming_message.data
  BY DEF ParserInv, FormInv
<1>2. c \in Nat /\ 1 <= c /\ c <= Len(buf) /\ c <= Len(F) - Len(d)
  BY <1>1 DEF Fits
<1>3. buf \in Bytes /\ wire \in Bytes /\ F \in Bytes
  BY DEF ParserInv, FormInv, Inside
<1>4. PICK u : u = Upto(buf, c)
  OBVIOUS
<1>5. u \in Bytes /\ rest \in Bytes /\ buf = u \o rest
  BY <1>2, <1>3, <1>4, CutIs
<1>6. Len(u) = c
  <2>1. Stretch(u, buf, 0, c)
    BY <1>2, <1>3, <1>4, UptoIs
  <2> QED
    BY <2>1, <1>2 DEF Stretch
<1>7. PICK e : e = d \o u
  OBVIOUS
<1>8. e \in Bytes /\ Len(e) = Len(d) + Len(u)
  BY <1>5, <1>7, Joined
<1>9. Len(d) \in Nat /\ Len(F) \in Nat
  BY <1>3, LenIs
<1>10. Len(e) <= Len(F) /\ Len(e) \in Nat /\ Len(e) > Len(d) /\ e # <<>>
  <2>1. Len(e) <= Len(F) /\ Len(e) \in Nat /\ Len(e) > Len(d) /\ Len(e) # 0
    BY <1>2, <1>6, <1>8, <1>9
  <2> QED
    BY <2>1, EmptyIs
<1>11. PICK v : v = rest \o wire
  OBVIOUS
<1>12. v \in Bytes
  BY <1>3, <1>5, <1>11, Joined
<1>13. d \o (buf \o wire) = e \o v
  <2>1. buf \o wire = u \o v
    BY <1>3, <1>5, <1>11, Regroup
  <2>2. d \o (u \o v) = (d \o u) \o v
    BY <1>5, <1>12, Regroup
  <2> QED
    BY <2>1, <2>2, <1>7
<1>14. PICK q \in Bytes : d \o (buf \o wire) = F \o q /\ Remains(k + 1, q)
  BY <1>1 DEF Inside
<1>15. e \o v = F \o q
  BY <1>13, <1>14
<1>16. Begins(e, F) /\ (Len(e) = Len(F) => e = F /\ v = q)
  BY <1>3, <1>8, <1>10, <1>12, <1>15, Cancel
<1>17. im.data = e /\ im.header = IF PreHello \/ incoming_message.header # "none"
                                  THEN incoming_message.header ELSE try_parse_header(e)
  BY <1>1, <1>4, <1>7 DEF add_data
<1>18. Remains(k, e \o v)
  BY <1>1, <1>13 DEF ParserInv, StreamInv, Inside
<1>19. CASE PreHello
  <2>1. PICK m \in HelloMessage : m = sent[k + 1] /\ HelloLayout(F, m.body)
    BY <1>19, InsideHello
  <2>2. im.header = "none"
    BY <1>17, <1>19 DEF ParserInv, StreamInv
  <2>3. im \in [data : Bytes, header : {"none", "parsed"}]
    BY <1>8, <1>17, <2>2 DEF add_data
  <2>4. Complete(im) <=> Len(e) = Len(F)
    BY <1>16, <1>17, <1>19, <2>1, HelloFacts
  <2>5. ASSUME Complete(im) PROVE Remains(k + 1, v) /\ decode(im) = sent[k + 1]
    <3>1. im.data = F /\ v = q
      BY <1>16, <1>17, <2>4, <2>5
    <3>2. decode_hello(im) = m
      BY <3>1, <2>1, HelloDecoded
    <3> QED
      BY <3>1, <3>2, <2>1, <1>14, <1>19 DEF decode
  <2>6. ASSUME Complete(im) PROVE starts_with_magic_number(im.data) <=> magic = MAGIC_NUMBER
    <3>1. im.data = F
      BY <1>16, <1>17, <2>4, <2>6
    <3> QED
      BY <3>1, <2>1, MagicRead DEF ParserInv
  <2> QED
    BY <1>5, <1>10, <1>11, <1>17, <1>18, <1>19, <2>2, <2>3, <2>4, <2>5, <2>6 DEF Took
<1>20. CASE ~PreHello
  <2>1. PICK m \in Message : m = sent[k + 1]
    BY <1>20, InsideMessage
  <2>2. PICK h : h = EncodeHeader(m)
    OBVIOUS
  <2>3. PICK x : x = Payload(m)
    OBVIOUS
  <2>4. MessageLayout(F, h, x) /\ HeaderKnown(incoming_message, h)
    BY <1>20, <2>1, <2>2, <2>3, InsideMessage
  <2>5. Len(h) \in Nat
    BY <2>4, LenIs DEF MessageLayout
  <2>6. incoming_message.header \in {"none", "parsed"}
    BY DEF ParserInv, FormInv
  <2>7. try_parse_header(e) = IF Len(e) >= 2 + Len(h) THEN "parsed" ELSE "none"
    BY <2>4, <1>16, HeaderParsed
  <2>8. im.header \in {"none", "parsed"} /\ HeaderKnown(im, h)
    <3>1. CASE incoming_message.header # "none"
      <4>1. im.header = incoming_message.header
        BY <3>1, <1>17
      <4>2. Len(d) >= 2 + Len(h)
        BY <3>1, <2>4, <1>1 DEF HeaderKnown
      <4>3. Len(e) >= 2 + Len(h)
        BY <4>2, <1>9, <1>10, <2>5
      <4> QED
        BY <4>1, <4>3, <3>1, <2>6, <1>17 DEF HeaderKnown
    <3>2. CASE incoming_message.header = "none"
      <4>1. im.header = IF Len(e) >= 2 + Len(h) THEN "parsed" ELSE "none"
        BY <3>2, <2>7, <1>17, <1>20
      <4> QED
        BY <4>1, <1>17 DEF HeaderKnown
    <3> QED
      BY <3>1, <3>2
  <2>9. im \in [data : Bytes, header : {"none", "parsed"}]
    BY <1>8, <1>17, <2>8 DEF add_data
  <2>10. Complete(im) <=> Len(e) = Len(F)
    BY <1>16, <1>17, <1>20, <2>4, <2>8, MessageFacts
  <2>11. ASSUME Complete(im) PROVE Remains(k + 1, v) /\ decode(im) = sent[k + 1]
    <3>1. im.data = F /\ v = q
      BY <1>16, <1>17, <2>10, <2>11
    <3>2. MessageLayout(F, EncodeHeader(m), Payload(m))
      BY <2>2, <2>3, <2>4
    <3>3. decode_post_hello_message(im) = m
      BY <3>1, <3>2, MessageDecoded
    <3> QED
      BY <3>1, <3>3, <2>1, <1>14, <1>20 DEF decode
  <2> QED
    BY <1>5, <1>10, <1>11, <1>17, <1>18, <1>20, <2>1, <2>2, <2>8, <2>9, <2>10, <2>11 DEF Took
<1> QED
  BY <1>19, <1>20

LEMMA SameConnection ==
    ASSUME UNCHANGED connection
    PROVE  /\ magic' = magic /\ sent' = sent /\ Frames' = Frames
           /\ PeerInv => PeerInv'
           /\ \A i : Frame(sent[i])' = Frame(sent[i])
<1>1. magic' = magic /\ sent' = sent
  BY DEF connection
<1>2. \A m : serialize_hello(m)' = serialize_hello(m)
  BY <1>1 DEF serialize_hello
<1>3. \A i : Frame(sent[i])' = Frame(sent[i])
  BY <1>1 DEF Frame, serialize_hello
<1>4. Frames' = Frames
  BY <1>1 DEF Frames, Frame, serialize_hello
<1>5. PeerInv => PeerInv'
  BY <1>1 DEF PeerInv
<1> QED
  BY <1>1, <1>3, <1>4, <1>5

LEMMA ParsedNext ==
    ASSUME FormInv, NEW m \in M
    PROVE  delivered \o Append(res, m) = Append(Parsed, m)
<1>1. res \in Seq(M) /\ delivered \in Seq(M) /\ <<m>> \in Seq(M)
  BY DEF FormInv
<1>2. Parsed \in Seq(M)
  BY ParsedType
<1>3. Append(res, m) = res \o <<m>>
  BY <1>1, AppendIsConcat
<1>4. Append(Parsed, m) = Parsed \o <<m>>
  BY <1>2, AppendIsConcat
<1>5. (delivered \o res) \o <<m>> = delivered \o (res \o <<m>>)
  BY <1>1, ConcatAssociative
<1> QED
  BY <1>3, <1>4, <1>5 DEF Parsed

LEMMA ParsedEmpty ==
    ASSUME FormInv, Len(Parsed) = 0
    PROVE  Parsed = <<>> /\ delivered = <<>> /\ res = <<>>
<1>1. Parsed = <<>>
  BY ParsedType, EmptySeq
<1> QED
  BY <1>1, ConcatSimplifications DEF FormInv, Parsed

(* The branch of a wrong magic number.                                     *)
LEMMA FailStep ==
    ASSUME ParserInv, reader # "failed", NEW k, NEW F, Inside(k, F),
           NEW im, NEW rest, Took(im, rest, k, F), PreHello,
           reader' = "failed", buf' = <<>>, res' = <<>>, incoming_message' = im,
           UNCHANGED <<connection, wire, delivered>>
    PROVE  ParserInv'
<1>1. Len(Parsed) = 0
  BY InsideHello DEF Inside
<1>2. delivered = <<>>
  BY <1>1, ParsedEmpty DEF ParserInv
<1>3. magic' = magic /\ sent' = sent /\ PeerInv'
  BY SameConnection DEF ParserInv
<1>4. Parsed' = <<>> /\ Len(Parsed)' = 0
  <2>1. <<>> \in Seq(M) /\ Len(<<>>) = 0
    BY EmptySeq
  <2>2. <<>> \o <<>> = <<>>
    BY <2>1, ConcatEmptySeq
  <2> QED
    BY <2>1, <2>2, <1>2 DEF Parsed
<1>5. FormInv'
  <2>1. im \in [data : Bytes, header : {"none", "parsed"}]
    BY DEF Took
  <2>2. <<>> \in Bytes /\ <<>> \in Seq(M)
    BY EmptyIs, EmptySeq
  <2> QED
    BY <2>1, <2>2, <1>2 DEF ParserInv, FormInv
<1>6. OrderInv'
  <2>1. Len(sent) \in Nat
    BY LenProperties DEF ParserInv, PeerInv
  <2>2. 0 <= Len(sent) /\ \A i \in 1 .. 0 : FALSE
    BY <2>1
  <2>3. Len(Parsed)' <= Len(sent)' /\ \A i \in 1 .. Len(Parsed)' : FALSE
    BY <2>2, <1>3, <1>4
  <2> QED
    BY <2>3, <1>3, <1>4 DEF OrderInv
<1>7. StreamInv'
  BY DEF StreamInv
<1> QED
  BY <1>3, <1>5, <1>6, <1>7 DEF ParserInv

(* The last byte of a frame was taken.                                     *)
LEMMA CompleteStep ==
    ASSUME ParserInv, reader = "running", NEW k, NEW F, Inside(k, F),
           NEW im, NEW rest, Took(im, rest, k, F), Complete(im),
           PreHello => starts_with_magic_number(im.data),
           buf' = rest, bep_auth_status' = "PostHello", incoming_message' = NoMessage,
           res' = IF rest = <<>> THEN <<>> ELSE Pushed(im),
           delivered' = IF rest = <<>> THEN delivered \o Pushed(im) ELSE delivered,
           UNCHANGED <<connection, wire, reader>>
    PROVE  ParserInv'
<1>1. magic' = magic /\ sent' = sent /\ Frames' = Frames /\ PeerInv' /\ wire' = wire /\ reader' = "running"
  BY SameConnection DEF ParserInv
<1>2. k \in Nat /\ k = Len(Parsed) /\ k + 1 \in 1 .. Len(sent) /\ Len(sent) \in Nat
  BY LenProperties DEF Inside, ParserInv, PeerInv
<1>3. PICK j \in Nat : j = k + 1
  BY <1>2
<1>4. PICK m : m = sent[j]
  OBVIOUS
<1>5. m \in M
  BY <1>2, <1>3, <1>4, ElementOfSeq DEF ParserInv, PeerInv
<1>6. decode(im) = m
  BY <1>3, <1>4 DEF Took
<1>7. Pushed(im) = Append(res, m)
  BY <1>6 DEF Pushed
<1>8. res \in Seq(M) /\ delivered \in Seq(M) /\ <<>> \in Seq(M) /\ <<>> \in Bytes
  BY EmptySeq, EmptyIs DEF ParserInv, FormInv
<1>9. Append(res, m) \in Seq(M)
  BY <1>5, <1>8, AppendProperties
<1>10. delivered \o Append(res, m) = Append(Parsed, m)
  BY <1>5, ParsedNext DEF ParserInv
<1>11. Parsed \in Seq(M)
  BY ParsedType DEF ParserInv
<1>12. PICK P : P = Append(Parsed, m)
  OBVIOUS
<1>13. P \in Seq(M) /\ P # <<>> /\ Len(P) = Len(Parsed) + 1
  BY <1>5, <1>11, <1>12, AppendProperties
<1>14. /\ \A i \in 1 .. Len(Parsed) : P[i] = Parsed[i]
       /\ P[Len(Parsed) + 1] = m
  BY <1>5, <1>11, <1>12, AppendProperties
<1>15. Parsed' = P
  <2>1. CASE rest = <<>>
    <3>1. delivered' = P /\ res' = <<>>
      BY <2>1, <1>7, <1>10, <1>12
    <3>2. P \o <<>> = P
      BY <1>13, ConcatEmptySeq
    <3> QED
      BY <3>1, <3>2 DEF Parsed
  <2>2. CASE rest # <<>>
    <3>1. delivered' = delivered /\ res' = Append(res, m)
      BY <2>2, <1>7
    <3> QED
      BY <3>1, <1>10, <1>12 DEF Parsed
  <2> QED
    BY <2>1, <2>2
<1>16. Len(P) = j /\ Len(Parsed)' = j
  BY <1>2, <1>3, <1>13, <1>15
<1>17. FormInv'
  <2>1. delivered' \in Seq(M) /\ res' \in Seq(M)
    <3>1. CASE rest = <<>>
      BY <3>1, <1>7, <1>8, <1>10, <1>12, <1>13
    <3>2. CASE rest # <<>>
      BY <3>2, <1>7, <1>8, <1>9
    <3> QED
      BY <3>1, <3>2
  <2>2. NoMessage \in [data : Bytes, header : {"none", "parsed"}]
    BY <1>8 DEF NoMessage
  <2>3. buf' \in Bytes
    BY DEF Took
  <2>4. wire' \in Bytes
    BY <1>1 DEF ParserInv, FormInv
  <2> QED
    BY <2>1, <2>2, <2>3, <2>4, <1>1 DEF FormInv
<1>18. magic = MAGIC_NUMBER
  <2>1. CASE PreHello
    BY <2>1 DEF Took
  <2>2. CASE ~PreHello
    <3>1. Len(Parsed) # 0
      BY <2>2 DEF ParserInv, StreamInv
    <3>2. Parsed # <<>>
      BY <3>1, EmptySeq
    <3> QED
      BY <3>2 DEF ParserInv, OrderInv
  <2> QED
    BY <2>1, <2>2
<1>19. OrderInv'
  <2>1. ASSUME NEW i \in 1 .. j PROVE P[i] = sent[i]
    <3>1. CASE i = j
      BY <3>1, <1>2, <1>3, <1>4, <1>14
    <3>2. CASE i # j
      <4>1. i \in 1 .. Len(Parsed)
        BY <3>2, <1>2, <1>3
      <4>2. Parsed[i] = sent[i]
        BY <4>1 DEF ParserInv, OrderInv
      <4> QED
        BY <4>1, <4>2, <1>14
    <3> QED
      BY <3>1, <3>2
  <2>2. j <= Len(sent)
    BY <1>2, <1>3
  <2>3. Len(Parsed)' <= Len(sent)' /\ \A i \in 1 .. Len(Parsed)' : Parsed'[i] = sent'[i]
    BY <2>1, <2>2, <1>1, <1>15, <1>16
  <2>4. buf' = <<>> => res' = <<>>
    OBVIOUS
  <2> QED
    BY <2>3, <2>4, <1>1, <1>18 DEF OrderInv
<1>20. incoming_message'.data = <<>> /\ incoming_message'.header = "none"
  BY DEF NoMessage
<1>21. (Remains(Len(Parsed), incoming_message.data \o (buf \o wire)))'
  <2>1. PICK v : v = rest \o wire
    OBVIOUS
  <2>2. v \in Bytes
    BY <2>1, Joined DEF Took, ParserInv, FormInv
  <2>3. <<>> \o v = v
    BY <2>2, <1>8, Joined
  <2>4. Remains(j, v)
    BY <2>1, <1>3 DEF Took
  <2>5. incoming_message'.data \o (buf' \o wire') = v
    BY <2>1, <2>3, <1>1, <1>20
  <2> QED
    BY <2>4, <2>5, <1>1, <1>16 DEF Remains
<1>22. j < Len(sent) => Len(<<>>) < Len(Frame(sent[j + 1]))
  <2>1. SUFFICES ASSUME j < Len(sent) PROVE Len(<<>>) < Len(Frame(sent[j + 1]))
    OBVIOUS
  <2>2. PICK i \in 1 .. Len(sent) : i = j + 1
    BY <2>1, <1>2
  <2>3. Frames[i] = Frame(sent[i]) /\ Frames[i] \in Bytes /\ Len(Frames[i]) >= 6
    BY FramesAre DEF ParserInv
  <2>4. Len(Frames[i]) \in Nat
    BY <2>3, LenIs
  <2> QED
    BY <2>2, <2>3, <2>4, <1>8, EmptyIs
<1>23. (Len(Parsed) < Len(sent) => Len(incoming_message.data) < Len(Frame(sent[Len(Parsed) + 1])))'
  <2>1. Frame(sent[j + 1])' = Frame(sent[j + 1])
    BY SameConnection
  <2> QED
    BY <2>1, <1>1, <1>16, <1>20, <1>22
<1>24. j < Len(sent) => HeaderKnown(NoMessage, EncodeHeader(sent[j + 1]))
  <2>1. SUFFICES ASSUME j < Len(sent) PROVE HeaderKnown(NoMessage, EncodeHeader(sent[j + 1]))
    OBVIOUS
  <2>2. j + 1 \in 2 .. Len(sent)
    BY <2>1, <1>2, <1>3
  <2>3. PICK g \in Message : g = sent[j + 1]
    BY <2>2 DEF ParserInv, PeerInv
  <2>4. PICK h : h = EncodeHeader(g)
    OBVIOUS
  <2>5. h \in Bytes
    BY <2>4, HeaderIs DEF IsHeader
  <2>6. Len(h) \in Nat /\ Len(<<>>) = 0
    BY <2>5, LenIs, EmptyIs
  <2>7. NoMessage.header = "none" /\ ~(Len(NoMessage.data) >= 2 + Len(h))
    BY <2>6 DEF NoMessage
  <2> QED
    BY <2>3, <2>4, <2>7 DEF HeaderKnown
<1>25. (Len(Parsed) < Len(sent) => HeaderKnown(incoming_message, EncodeHeader(sent[Len(Parsed) + 1])))'
  BY <1>1, <1>16, <1>24 DEF HeaderKnown, EncodeHeader
<1>26. ~PreHello' /\ j # 0
  BY <1>2, <1>3 DEF PreHello
<1>27. StreamInv'
  BY <1>16, <1>20, <1>21, <1>23, <1>25, <1>26 DEF StreamInv
<1> QED
  BY <1>1, <1>17, <1>19, <1>27 DEF ParserInv

(* Bytes of the frame are still missing.                                   *)
LEMMA PartialStep ==
    ASSUME ParserInv, reader = "running", NEW k, NEW F, Inside(k, F),
           NEW im, NEW rest, Took(im, rest, k, F), ~Complete(im),
           buf' = rest, incoming_message' = im,
           res' = IF rest = <<>> THEN <<>> ELSE Pushed(im),
           delivered' = IF rest = <<>> THEN delivered \o Pushed(im) ELSE delivered,
           UNCHANGED <<connection, wire, reader, bep_auth_status>>
    PROVE  ParserInv'
<1>1. magic' = magic /\ sent' = sent /\ Frames' = Frames /\ PeerInv' /\ wire' = wire /\ reader' = "running"
  BY SameConnection DEF ParserInv
<1>2. k \in Nat /\ k = Len(Parsed) /\ k + 1 \in 1 .. Len(sent) /\ Len(sent) \in Nat
  BY LenProperties DEF Inside, ParserInv, PeerInv
<1>3. Pushed(im) = res
  BY DEF Pushed
<1>4. res \in Seq(M) /\ delivered \in Seq(M) /\ <<>> \in Seq(M)
  BY EmptySeq DEF ParserInv, FormInv
<1>5. Parsed \in Seq(M)
  BY ParsedType DEF ParserInv
<1>6. Parsed' = Parsed /\ delivered' \in Seq(M) /\ res' \in Seq(M)
  <2>1. CASE rest = <<>>
    <3>1. delivered' = Parsed /\ res' = <<>>
      BY <2>1, <1>3 DEF Parsed
    <3>2. Parsed \o <<>> = Parsed
      BY <1>5, ConcatEmptySeq
    <3>3. Parsed' = delivered' \o res'
      BY DEF Parsed
    <3> QED
      BY <3>1, <3>2, <3>3, <1>4, <1>5
  <2>2. CASE rest # <<>>
    <3>1. delivered' = delivered /\ res' = res
      BY <2>2, <1>3
    <3> QED
      BY <3>1, <1>4 DEF Parsed
  <2> QED
    BY <2>1, <2>2
<1>7. FormInv'
  <2>1. im \in [data : Bytes, header : {"none", "parsed"}] /\ rest \in Bytes
    BY DEF Took
  <2>2. wire' \in Bytes
    BY <1>1 DEF ParserInv, FormInv
  <2> QED
    BY <2>1, <2>2, <1>1, <1>6 DEF FormInv
<1>8. OrderInv'
  <2>1. /\ Len(Parsed) <= Len(sent) /\ \A i \in 1 .. Len(Parsed) : Parsed[i] = sent[i]
        /\ Parsed # <<>> => magic = MAGIC_NUMBER
    BY DEF ParserInv, OrderInv
  <2>2. buf' = <<>> => res' = <<>>
    OBVIOUS
  <2> QED
    BY <2>1, <2>2, <1>1, <1>6 DEF OrderInv
<1>9. PreHello' <=> PreHello
  BY DEF PreHello
<1>10. PreHello <=> Len(Parsed) = 0
  BY DEF ParserInv, StreamInv
<1>11. (Remains(Len(Parsed), incoming_message.data \o (buf \o wire)))'
  <2>1. Remains(k, im.data \o (rest \o wire))
    BY DEF Took
  <2> QED
    BY <2>1, <1>1, <1>2, <1>6 DEF Remains
<1>12. (Len(incoming_message.data) < Len(Frame(sent[Len(Parsed) + 1])))'
  <2>1. Len(im.data) <= Len(F) /\ Len(im.data) # Len(F) /\ im.data \in Bytes /\ F \in Bytes
    BY DEF Took, Inside
  <2>2. Len(im.data) \in Nat /\ Len(F) \in Nat
    BY <2>1, LenIs
  <2>3. Len(im.data) < Len(F)
    BY <2>1, <2>2
  <2>4. F = Frame(sent[k + 1])
    BY DEF Inside
  <2>5. Frame(sent[k + 1])' = Frame(sent[k + 1])
    BY SameConnection
  <2>6. Frame(sent[k + 1])' = Frame(sent[Len(Parsed) + 1])'
    BY <1>1, <1>2, <1>6 DEF Frame, serialize_hello
  <2> QED
    BY <2>3, <2>4, <2>5, <2>6
<1>13. ~PreHello => (HeaderKnown(incoming_message, EncodeHeader(sent[Len(Parsed) + 1])))'
  <2>1. ~PreHello => HeaderKnown(im, EncodeHeader(sent[k + 1]))
    BY DEF Took
  <2> QED
    BY <2>1, <1>1, <1>2, <1>6 DEF HeaderKnown, EncodeHeader
<1>14. im.data # <<>> /\ (PreHello => im.header = "none")
  BY DEF Took
<1>15. StreamInv'
  BY <1>6, <1>9, <1>10, <1>11, <1>12, <1>13, <1>14 DEF StreamInv
<1> QED
  BY <1>1, <1>7, <1>8, <1>15 DEF ParserInv

(* A pass that takes some of the bytes that the frame still needs.         *)
LEMMA AdvanceStep ==
    ASSUME ParserInv, buf # <<>>, NEW k, NEW F, Inside(k, F), NEW c, Fits(c, F), Advance(c)
    PROVE  ParserInv'
<1>1. reader = "running"
  BY BytesLeft
<1>2. PICK im : im = add_data(incoming_message, Upto(buf, c))
  OBVIOUS
<1>3. PICK rest : rest = From(buf, c)
  OBVIOUS
<1>4. Took(im, rest, k, F)
  BY <1>1, <1>2, <1>3, Taken
<1>5. CASE Complete(im) /\ PreHello /\ ~starts_with_magic_number(im.data)
  <2>1. /\ reader' = "failed" /\ buf' = <<>> /\ res' = <<>> /\ incoming_message' = im
        /\ UNCHANGED <<connection, wire, delivered>>
    BY <1>2, <1>5 DEF Advance
  <2> QED
    BY <2>1, <1>1, <1>4, <1>5, FailStep
<1>6. CASE ~(Complete(im) /\ PreHello /\ ~starts_with_magic_number(im.data))
  <2>1. /\ buf' = rest
        /\ bep_auth_status' = IF Complete(im) THEN "PostHello" ELSE bep_auth_status
        /\ incoming_message' = IF Complete(im) THEN NoMessage ELSE im
        /\ res' = IF rest = <<>> THEN <<>> ELSE Pushed(im)
        /\ delivered' = IF rest = <<>> THEN delivered \o Pushed(im) ELSE delivered
        /\ UNCHANGED <<connection, wire, reader>>
    BY <1>2, <1>3, <1>6 DEF Advance
  <2>2. CASE Complete(im)
    <3>1. bep_auth_status' = "PostHello" /\ incoming_message' = NoMessage
      BY <2>1, <2>2
    <3>2. PreHello => starts_with_magic_number(im.data)
      BY <1>6, <2>2
    <3> QED
      BY <3>1, <3>2, <2>1, <2>2, <1>1, <1>4, CompleteStep
  <2>3. CASE ~Complete(im)
    <3>1. UNCHANGED <<connection, wire, reader, bep_auth_status>> /\ incoming_message' = im
      BY <2>1, <2>3
    <3> QED
      BY <3>1, <2>1, <2>3, <1>1, <1>4, PartialStep
  <2> QED
    BY <2>2, <2>3
<1> QED
  BY <1>5, <1>6

LEMMA ParseStep ==
    ASSUME ParserInv, Parse
    PROVE  ParserInv'
<1>1. buf # <<>>
  BY DEF Parse, ParseHello, ParseHeader, ParseMessage
<1>2. reader = "running" /\ Len(Parsed) < Len(sent)
  BY <1>1, BytesLeft
<1>3. reader # "failed"
  BY <1>2
<1>4. PICK k, F : Inside(k, F)
  BY <1>2, <1>3, InsideFrame
<1>5. CASE ParseHello
  <2>1. PICK c : c = populate_hello(incoming_message)
    OBVIOUS
  <2>2. Fits(c, F) /\ Advance(c)
    BY <2>1, <1>1, <1>3, <1>4, <1>5, HelloTakes DEF ParseHello
  <2> QED
    BY <2>2, <1>1, <1>4, AdvanceStep
<1>6. CASE ParseHeader
  <2>1. PICK c : c = populate_header(incoming_message)
    OBVIOUS
  <2>2. Fits(c, F) /\ Advance(c)
    BY <2>1, <1>1, <1>3, <1>4, <1>6, HeaderTakes DEF ParseHeader
  <2> QED
    BY <2>2, <1>1, <1>4, AdvanceStep
<1>7. CASE ParseMessage
  <2>1. PICK c : c = populate_message(incoming_message)
    OBVIOUS
  <2>2. Fits(c, F) /\ Advance(c)
    BY <2>1, <1>1, <1>3, <1>4, <1>7, MessageTakes DEF ParseMessage
  <2> QED
    BY <2>2, <1>1, <1>4, AdvanceStep
<1> QED
  BY <1>5, <1>6, <1>7 DEF Parse

(* What a step that leaves the parsed messages and the bytes of the stream *)
(* where they are, in buf or on the wire, preserves.                       *)
LEMMA SameStream ==
    ASSUME ParserInv, FormInv', reader # "failed", reader' # "failed",
           UNCHANGED <<connection, bep_auth_status, incoming_message, res, delivered>>,
           buf' \o wire' = buf \o wire, res = <<>>, buf' # <<>> => reader' = "running"
    PROVE  ParserInv'
<1>1. magic' = magic /\ sent' = sent /\ Frames' = Frames /\ PeerInv'
  BY SameConnection DEF ParserInv
<1>2. Parsed' = Parsed /\ (PreHello' <=> PreHello) /\ incoming_message' = incoming_message
  BY DEF Parsed, PreHello
<1>3. OrderInv'
  <2>1. /\ Len(Parsed) <= Len(sent) /\ \A i \in 1 .. Len(Parsed) : Parsed[i] = sent[i]
        /\ Parsed # <<>> => magic = MAGIC_NUMBER
    BY DEF ParserInv, OrderInv
  <2> QED
    BY <2>1, <1>1, <1>2 DEF OrderInv
<1>4. /\ PreHello <=> Len(Parsed) = 0
      /\ incoming_message.data = <<>> => incoming_message.header = "none"
      /\ PreHello => incoming_message.header = "none"
  BY DEF ParserInv, StreamInv
<1>5. (Remains(Len(Parsed), incoming_message.data \o (buf \o wire)))'
  <2>1. Remains(Len(Parsed), incoming_message.data \o (buf \o wire))
    BY DEF ParserInv, StreamInv
  <2> QED
    BY <2>1, <1>1, <1>2 DEF Remains
<1>6. (Len(Parsed) < Len(sent) => Len(incoming_message.data) < Len(Frame(sent[Len(Parsed) + 1])))'
  <2>1. Len(Parsed) < Len(sent) => Len(incoming_message.data) < Len(Frame(sent[Len(Parsed) + 1]))
    BY DEF ParserInv, StreamInv
  <2>2. Frame(sent[Len(Parsed) + 1])' = Frame(sent[Len(Parsed) + 1])
    BY <1>1, <1>2 DEF Frame, serialize_hello
  <2> QED
    BY <2>1, <2>2, <1>1, <1>2
<1>7. (~PreHello /\ Len(Parsed) < Len(sent) =>
         HeaderKnown(incoming_message, EncodeHeader(sent[Len(Parsed) + 1])))'
  <2>1. ~PreHello /\ Len(Parsed) < Len(sent) =>
          HeaderKnown(incoming_message, EncodeHeader(sent[Len(Parsed) + 1]))
    BY DEF ParserInv, StreamInv
  <2> QED
    BY <2>1, <1>1, <1>2 DEF HeaderKnown, EncodeHeader
<1>8. StreamInv'
  BY <1>2, <1>4, <1>5, <1>6, <1>7 DEF StreamInv
<1> QED
  BY <1>1, <1>3, <1>8 DEF ParserInv

LEMMA ReadStep ==
    ASSUME ParserInv, Read
    PROVE  ParserInv'
<1>1. wire \in Bytes /\ buf \in Bytes
  BY DEF ParserInv, FormInv
<1>2. reader = "running" /\ buf = <<>> /\ res = <<>> /\ reader' = reader
      /\ UNCHANGED <<connection, bep_auth_status, incoming_message, res, delivered>>
  BY DEF Read, ParserInv, OrderInv
<1>3. PICK n \in 1 .. Len(wire) : buf' = Upto(wire, n) /\ wire' = From(wire, n)
  BY DEF Read
<1>4. Len(wire) \in Nat
  BY <1>1, LenIs
<1>5. n \in Nat /\ n <= Len(wire)
  BY <1>4
<1>6. buf' \in Bytes /\ wire' \in Bytes /\ buf' \o wire' = wire
  BY <1>1, <1>3, <1>5, CutIs
<1>7. buf \o wire = wire
  BY <1>1, <1>2, Joined
<1>8. FormInv'
  BY <1>2, <1>6 DEF ParserInv, FormInv
<1>9. buf' \o wire' = buf \o wire /\ reader # "failed" /\ reader' = "running" /\ reader' # "failed"
  BY <1>2, <1>6, <1>7
<1> QED
  BY <1>2, <1>8, <1>9, SameStream

LEMMA EndStep ==
    ASSUME ParserInv, EndOfStream
    PROVE  ParserInv'
<1>1. /\ reader = "running" /\ buf = <<>> /\ res = <<>> /\ reader' = "ended"
      /\ UNCHANGED <<connection, wire, buf, bep_auth_status, incoming_message, res, delivered>>
  BY DEF EndOfStream, ParserInv, OrderInv
<1>2. FormInv'
  BY <1>1 DEF ParserInv, FormInv
<1>3. buf' \o wire' = buf \o wire /\ buf' = <<>> /\ reader # "failed" /\ reader' # "failed"
      /\ UNCHANGED <<connection, bep_auth_status, incoming_message, res, delivered>>
  BY <1>1
<1> QED
  BY <1>1, <1>2, <1>3, SameStream

LEMMA ParserStutter ==
    ASSUME ParserInv, UNCHANGED vars
    PROVE  ParserInv'
<1>1. UNCHANGED <<connection, wire, reader, buf, bep_auth_status, incoming_message, res, delivered>>
  BY DEF vars, parser
<1>2. sent' = sent /\ magic' = magic /\ Frames' = Frames /\ PeerInv'
  BY <1>1, SameConnection DEF ParserInv
<1>3. Parsed' = Parsed /\ (PreHello' <=> PreHello)
  BY <1>1 DEF Parsed, PreHello
<1>4. FormInv' /\ OrderInv'
  BY <1>1, <1>2, <1>3 DEF ParserInv, FormInv, OrderInv
<1>5. CASE reader = "failed"
  <2>1. StreamInv'
    BY <1>1, <1>5 DEF StreamInv
  <2> QED
    BY <2>1, <1>2, <1>4 DEF ParserInv
<1>6. CASE reader # "failed"
  <2>1. Frame(sent[Len(Parsed) + 1])' = Frame(sent[Len(Parsed) + 1])
    BY <1>2, <1>3 DEF Frame, serialize_hello
  <2>2. StreamInv'
    BY <2>1, <1>1, <1>2, <1>3 DEF ParserInv, StreamInv, Remains, HeaderKnown, EncodeHeader
  <2> QED
    BY <2>2, <1>2, <1>4 DEF ParserInv
<1> QED
  BY <1>5, <1>6

-----------------------------------------------------------------------------
(* What the invariant says of the properties.                              *)
LEMMA PrefixIs ==
    ASSUME NEW S, NEW s \in Seq(S), NEW t \in Seq(S), Len(s) <= Len(t),
           \A i \in 1 .. Len(s) : s[i] = t[i]
    PROVE  IsPrefix(s, t)
<1>1. PICK n \in Nat : n = Len(s)
  BY LenProperties
<1>2. Len(t) \in Nat /\ \A i \in 1 .. n : s[i] \in S /\ t[i] \in S
  BY <1>1, ElementOfSeq, LenProperties
<1>3. PICK u : u = SubSeq(s, 1, n)
  OBVIOUS
<1>4. PICK v : v = SubSeq(t, 1, n)
  OBVIOUS
<1>5. /\ u \in Seq(S) /\ Len(u) = IF 1 <= n THEN n - 1 + 1 ELSE 0
      /\ \A i \in 1 .. n - 1 + 1 : u[i] = s[1 + i - 1]
  BY <1>2, <1>3, SubSeqProperties
<1>6. /\ v \in Seq(S) /\ Len(v) = IF 1 <= n THEN n - 1 + 1 ELSE 0
      /\ \A i \in 1 .. n - 1 + 1 : v[i] = t[1 + i - 1]
  BY <1>2, <1>4, SubSeqProperties
<1>7. Len(u) = n /\ Len(v) = n
  BY <1>5, <1>6
<1>8. ASSUME NEW i \in 1 .. n PROVE u[i] = v[i]
  <2>1. i \in 1 .. n - 1 + 1 /\ 1 + i - 1 = i
    OBVIOUS
  <2>2. u[i] = s[i] /\ v[i] = t[i]
    BY <2>1, <1>5, <1>6
  <2> QED
    BY <2>2, <1>1
<1>9. u = v
  BY <1>5, <1>6, <1>7, <1>8, SeqEqual
<1> QED
  BY <1>1, <1>3, <1>4, <1>9 DEF IsPrefix

LEMMA InvInOrder ==
    ASSUME ParserInv
    PROVE  InOrder
<1>1. sent \in Seq(M) /\ Parsed \in Seq(M)
  BY ParsedType DEF ParserInv, PeerInv
<1>2. Len(Parsed) <= Len(sent) /\ \A i \in 1 .. Len(Parsed) : Parsed[i] = sent[i]
  BY DEF ParserInv, OrderInv
<1> QED
  BY <1>1, <1>2, PrefixIs DEF InOrder

(* Between two messages the parser holds nothing.                          *)
LEMMA InvNoMessage ==
    ASSUME ParserInv, reader # "failed", incoming_message.data = <<>>
    PROVE  incoming_message = NoMessage
<1>1. incoming_message.header = "none"
  BY DEF ParserInv, StreamInv
<1>2. incoming_message \in [data : Bytes, header : {"none", "parsed"}]
  BY DEF ParserInv, FormInv
<1> QED
  BY <1>1, <1>2 DEF NoMessage

LEMMA InvAllParsed ==
    ASSUME ParserInv, reader # "failed", ~(Len(Parsed) < Len(sent))
    PROVE  Len(Parsed) = Len(sent) /\ incoming_message = NoMessage
<1>1. Len(Parsed) = Len(sent)
  <2>1. Len(Parsed) \in Nat /\ Len(sent) \in Nat
    BY ParsedType, LenProperties DEF ParserInv, PeerInv
  <2>2. Len(Parsed) <= Len(sent)
    BY DEF ParserInv, OrderInv
  <2> QED
    BY <2>1, <2>2
<1>2. PICK d \in Bytes : d = incoming_message.data
  BY DEF ParserInv, FormInv
<1>3. PICK w \in Bytes : w = buf \o wire
  BY Joined DEF ParserInv, FormInv
<1>4. d \o w = <<>>
  BY <1>1, <1>2, <1>3, RemainsEnd DEF ParserInv, StreamInv
<1>5. d = <<>>
  BY <1>4, ConcatSimplifications DEF Bytes
<1> QED
  BY <1>1, <1>2, <1>5, InvNoMessage

LEMMA InvNothingWaiting ==
    ASSUME ParserInv
    PROVE  NothingWaiting
<1>1. SUFFICES ASSUME reader # "failed"
               PROVE  \/ Unparsed = <<>> /\ incoming_message = NoMessage
                      \/ /\ Unparsed # <<>>
                         /\ Len(incoming_message.data) < Len(Frame(Head(Unparsed)))
                         /\ IsPrefix(incoming_message.data, Frame(Head(Unparsed)))
  BY DEF NothingWaiting
<1>2. PICK n \in Nat : n = Len(sent)
  BY LenProperties DEF ParserInv, PeerInv
<1>3. PICK j \in Nat : j = Len(Parsed)
  BY ParsedType DEF ParserInv
<1>4. Unparsed = SubSeq(sent, j + 1, n)
  BY <1>2, <1>3 DEF Unparsed, From
<1>5. CASE ~(Len(Parsed) < Len(sent))
  <2>1. j = n /\ incoming_message = NoMessage
    BY <1>1, <1>2, <1>3, <1>5, InvAllParsed
  <2>2. j + 1 \in Int /\ n \in Int /\ n < j + 1
    BY <2>1
  <2>3. Unparsed = <<>>
    BY <2>2, <1>4, SubSeqEmpty
  <2> QED
    BY <2>1, <2>3
<1>6. CASE Len(Parsed) < Len(sent)
  <2>1. PICK k, F : Inside(k, F)
    BY <1>1, <1>6, InsideFrame
  <2>2. k = j /\ F = Frame(sent[j + 1]) /\ F \in Bytes
        /\ Begins(incoming_message.data, F) /\ Len(incoming_message.data) < Len(F)
    BY <2>1, <1>3 DEF Inside
  <2>3. PICK a \in Nat : a = j + 1
    OBVIOUS
  <2>4. a \in 1 .. n /\ n \in a .. n
    BY <2>3, <1>2, <1>3, <1>6
  <2>5. sent \in Seq(M)
    BY DEF ParserInv, PeerInv
  <2>6. Unparsed = SubSeq(sent, a, n)
    BY <2>3, <1>4
  <2>7. Head(Unparsed) = sent[a]
    BY <2>4, <2>5, <2>6, <1>2, HeadTailOfSubSeq
  <2>8. Unparsed # <<>>
    <3>1. \A i \in a .. n : sent[i] \in M
      BY <2>4, <2>5, <1>2, ElementOfSeq
    <3>2. Len(Unparsed) = IF a <= n THEN n - a + 1 ELSE 0
      BY <3>1, <2>6, SubSeqProperties
    <3>3. Len(Unparsed) # 0
      BY <3>2, <2>4
    <3> QED
      BY <3>3, EmptySeq
  <2>9. IsPrefix(incoming_message.data, F)
    BY <2>2, PrefixIs DEF Begins, Bytes
  <2> QED
    BY <2>2, <2>3, <2>7, <2>8, <2>9
<1> QED
  BY <1>5, <1>6

LEMMA InvPopulate ==
    ASSUME ParserInv
    PROVE  PopulateAssertsHold
<1>1. SUFFICES ASSUME reader = "running", incoming_message # NoMessage
               PROVE  PopulateAssertsHold
  BY DEF PopulateAssertsHold
<1>2. PICK d \in Bytes : d = incoming_message.data
  BY DEF ParserInv, FormInv
<1>3. reader # "failed"
  BY <1>1
<1>4. Len(Parsed) < Len(sent)
  BY <1>1, <1>3, InvAllParsed
<1>5. PICK k, F : Inside(k, F)
  BY <1>3, <1>4, InsideFrame
<1>6. Begins(d, F) /\ F \in Bytes /\ Len(d) < Len(F)
  BY <1>2, <1>5 DEF Inside
<1>7. Len(d) \in Nat /\ Len(F) \in Nat
  BY <1>6, LenIs
<1>8. Len(d) >= 1
  <2>1. d # <<>>
    BY <1>1, <1>2, <1>3, InvNoMessage
  <2>2. Len(d) # 0
    BY <2>1, LenIs
  <2> QED
    BY <2>2, <1>7
<1>9. CASE PreHello
  <2>1. PICK x : HelloLayout(F, x)
    BY <1>3, <1>5, <1>9, InsideHello
  <2>2. LengthKnown(incoming_message) => missing_message_bytes(incoming_message) = Len(F) - Len(d)
    BY <2>1, <1>2, <1>6, <1>9, HelloFacts
  <2>3. LengthKnown(incoming_message) => missing_message_bytes(incoming_message) > 0
    BY <2>2, <1>6, <1>7
  <2> QED
    BY <2>3, <1>2, <1>8, <1>9 DEF PopulateAssertsHold
<1>10. CASE ~PreHello
  <2>1. PICK h, x : MessageLayout(F, h, x) /\ HeaderKnown(incoming_message, h)
    BY <1>3, <1>5, <1>10, InsideMessage
  <2>2. Len(h) \in Nat
    BY <2>1, LenIs DEF MessageLayout
  <2>3. /\ Len(d) >= 2 => header_byte_len(incoming_message) = Len(h)
                          /\ message_start_pos(incoming_message) = 6 + Len(h)
        /\ LengthKnown(incoming_message) <=> Len(d) >= 6 + Len(h)
        /\ LengthKnown(incoming_message) =>
             missing_message_bytes(incoming_message) = Len(F) - Len(d)
    BY <2>1, <1>2, <1>6, <1>10, MessageFacts
  <2>4. incoming_message.header # "none" <=> Len(d) >= 2 + Len(h)
    BY <2>1, <1>2 DEF HeaderKnown
  <2>5. ASSUME Len(d) >= 2, incoming_message.header = "none"
        PROVE  missing_header_bytes(incoming_message) > 0
    <3>1. missing_header_bytes(incoming_message) = 2 + Len(h) - Len(d)
      BY <2>3, <2>5, <1>2 DEF missing_header_bytes, HEADER_START
    <3> QED
      BY <3>1, <2>2, <2>4, <2>5, <1>7
  <2>6. ASSUME incoming_message.header # "none", ~LengthKnown(incoming_message)
        PROVE  message_start_pos(incoming_message) > Len(d)
    <3>1. Len(d) >= 2 /\ ~(Len(d) >= 6 + Len(h))
      BY <2>2, <2>3, <2>4, <2>6, <1>7
    <3> QED
      BY <3>1, <2>2, <2>3, <1>7
  <2>7. LengthKnown(incoming_message) => missing_message_bytes(incoming_message) > 0
    BY <2>3, <1>6, <1>7
  <2> QED
    BY <2>5, <2>6, <2>7, <1>2, <1>8, <1>10 DEF PopulateAssertsHold, HEADER_START
<1> QED
  BY <1>9, <1>10

-----------------------------------------------------------------------------
(* The invariant of the stream: whatever the cuts of the reads, what was   *)
(* parsed, the bytes that parse_incoming_data keeps, the rest of the read  *)
(* and the wire are always the peer's messages, exactly once and in order. *)
THEOREM ParserInvariant == Spec => []ParserInv
<1>1. Init => ParserInv
  BY ParserInit
<1>2. ParserInv /\ [Next]_vars => ParserInv'
  BY ReadStep, EndStep, ParseStep, ParserStutter DEF Next
<1> QED
  BY <1>1, <1>2, PTL DEF Spec

(* For messages of any number and content, compressed or not (with LZ4 as  *)
(* the module has it), and for any cut of the stream into reads,           *)
(* parse_incoming_data gives the messages of the peer, each once, with the *)
(* content it was sent with, in order.                                     *)
THEOREM MessagesInOrder == Spec => []InOrder
<1>1. ParserInv => InOrder
  BY InvInOrder
<1> QED
  BY <1>1, ParserInvariant, PTL

(* When a read is used up, every message whose last byte was read has been *)
(* handed over: parse_incoming_data keeps a proper beginning of the next   *)
(* frame and nothing else, even where a body is empty.                     *)
THEOREM NothingWaits == Spec => []NothingWaiting
<1>1. ParserInv => NothingWaiting
  BY InvNothingWaiting
<1> QED
  BY <1>1, ParserInvariant, PTL

(* The assertions of the populate functions hold and the subtractions of   *)
(* missing_header_bytes and missing_message_bytes do not underflow, at     *)
(* every pass over whatever cut of whatever messages.                      *)
THEOREM PopulateIsSafe == Spec => []PopulateAssertsHold
<1>1. ParserInv => PopulateAssertsHold
  BY InvPopulate
<1> QED
  BY <1>1, ParserInvariant, PTL

(* Nothing of a peer whose Hello does not begin with the magic number is   *)
(* parsed, whatever else its first read holds.                             *)
THEOREM MagicComesFirst == Spec => []MagicFirst
<1>1. ParserInv => MagicFirst
  BY DEF ParserInv, OrderInv, MagicFirst
<1> QED
  BY <1>1, ParserInvariant, PTL
=============================================================================
