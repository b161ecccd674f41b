--------------------------- MODULE ReadCacheProofs ---------------------------
(***************************************************************************)
(* The rows of the read cache have their copies unless a copyto failed,    *)
(* and the files they stand for fit in the cache, for any files, sizes and *)
(* reads, through crashes.                                                 *)
(***************************************************************************)
EXTENDS ReadCache, FiniteSetTheorems, SequenceTheorems, WellFoundedInduction, TLAPS

-----------------------------------------------------------------------------
(* The rows of the cache as a sequence without repetitions.                *)
Distinct(s) == s \in Seq(File) /\ \A i, j \in 1 .. Len(s) : s[i] = s[j] => i = j

LEMMA InToSet ==
    ASSUME NEW s \in Seq(File)
    PROVE  /\ Len(s) \in Nat /\ ToSet(s) \in SUBSET File
           /\ \A x : x \in ToSet(s) <=> \E i \in 1 .. Len(s) : s[i] = x
<1>1. DOMAIN s = 1 .. Len(s) /\ Len(s) \in Nat
  BY LenProperties
<1>2. \A i \in 1 .. Len(s) : s[i] \in File
  BY ElementOfSeq
<1> QED
  BY <1>1, <1>2 DEF ToSet

LEMMA EmptyDistinct == Distinct(<<>>) /\ ToSet(<<>>) = {}
<1>1. PICK s : s = <<>>
  OBVIOUS
<1>2. s \in Seq(File) /\ Len(s) = 0
  BY <1>1, EmptySeq
<1>3. \A x : x \notin ToSet(s)
  <2>1. \A x : x \in ToSet(s) <=> \E i \in 1 .. Len(s) : s[i] = x
    BY <1>2, InToSet
  <2>2. \A i \in 1 .. Len(s) : FALSE
    BY <1>2
  <2> QED
    BY <2>1, <2>2
<1>4. Distinct(s)
  BY <1>2 DEF Distinct
<1> QED
  BY <1>1, <1>3, <1>4

(* A part of the rows has some of their files.                             *)
LEMMA PartOf ==
    ASSUME NEW s, Distinct(s), NEW m \in 1 .. Len(s) + 1, NEW n \in 0 .. Len(s)
    PROVE  /\ Distinct(SubSeq(s, m, n))
           /\ \A x : x \in ToSet(SubSeq(s, m, n)) => \E k \in m .. n : s[k] = x
           /\ ToSet(SubSeq(s, m, n)) \subseteq ToSet(s)
<1> DEFINE t == SubSeq(s, m, n)
<1>1. s \in Seq(File) /\ Len(s) \in Nat /\ m \in Int /\ n \in Int /\ 1 <= m /\ n <= Len(s)
  BY LenProperties DEF Distinct
<1>2. \A i \in m .. n : i \in 1 .. Len(s)
  BY <1>1
<1>3. \A i \in m .. n : s[i] \in File
  BY <1>1, <1>2, ElementOfSeq
<1>4. /\ t \in Seq(File) /\ Len(t) = (IF m <= n THEN n - m + 1 ELSE 0)
      /\ \A i \in 1 .. n - m + 1 : t[i] = s[m + i - 1]
  BY <1>1, <1>3, SubSeqProperties
<1> HIDE DEF t
<1>5. \A i \in 1 .. Len(t) : i \in 1 .. n - m + 1 /\ m + i - 1 \in m .. n
  BY <1>1, <1>4
<1>6. \A i \in 1 .. Len(t) : t[i] = s[m + i - 1] /\ m + i - 1 \in 1 .. Len(s)
  BY <1>2, <1>4, <1>5
<1>7. ASSUME NEW i \in 1 .. Len(t), NEW j \in 1 .. Len(t), t[i] = t[j]
      PROVE  i = j
  <2>1. m + i - 1 = m + j - 1
    BY <1>6, <1>7 DEF Distinct
  <2> QED
    BY <2>1, <1>1
<1>8. Distinct(t)
  BY <1>4, <1>7 DEF Distinct
<1>9. ASSUME NEW x, x \in ToSet(t)
      PROVE  x \in ToSet(s) /\ \E k \in m .. n : s[k] = x
  <2>1. PICK i \in 1 .. Len(t) : t[i] = x
    BY <1>4, <1>9, InToSet
  <2>2. PICK k : k = m + i - 1
    OBVIOUS
  <2>3. k \in m .. n /\ k \in 1 .. Len(s) /\ s[k] = x
    BY <1>5, <1>6, <2>1, <2>2
  <2> QED
    BY <2>3, <1>1, InToSet
<1> QED
  BY <1>8, <1>9 DEF t

(* The oldest rows and the others have no file in common.                  *)
LEMMA SplitRows ==
    ASSUME NEW s, Distinct(s), NEW n \in 0 .. Len(s)
    PROVE  /\ Distinct(SubSeq(s, n + 1, Len(s))) /\ Distinct(SubSeq(s, 1, n))
           /\ ToSet(SubSeq(s, n + 1, Len(s))) \subseteq ToSet(s)
           /\ ToSet(SubSeq(s, 1, n)) \subseteq ToSet(s)
           /\ ToSet(SubSeq(s, 1, n)) \cap ToSet(SubSeq(s, n + 1, Len(s))) = {}
<1>1. Len(s) \in Nat
  BY LenProperties DEF Distinct
<1>2. PICK m : m = n + 1
  OBVIOUS
<1>3. m \in 1 .. Len(s) + 1 /\ 1 \in 1 .. Len(s) + 1 /\ Len(s) \in 0 .. Len(s)
  BY <1>1, <1>2
<1>4. /\ Distinct(SubSeq(s, m, Len(s))) /\ ToSet(SubSeq(s, m, Len(s))) \subseteq ToSet(s)
      /\ \A x : x \in ToSet(SubSeq(s, m, Len(s))) => \E k \in m .. Len(s) : s[k] = x
  BY <1>3, PartOf
<1>5. /\ Distinct(SubSeq(s, 1, n)) /\ ToSet(SubSeq(s, 1, n)) \subseteq ToSet(s)
      /\ \A x : x \in ToSet(SubSeq(s, 1, n)) => \E k \in 1 .. n : s[k] = x
  BY <1>3, PartOf
<1>6. ASSUME NEW x, x \in ToSet(SubSeq(s, 1, n)), x \in ToSet(SubSeq(s, m, Len(s)))
      PROVE  FALSE
  <2>1. PICK k \in 1 .. n : s[k] = x
    BY <1>5, <1>6
  <2>2. PICK l \in m .. Len(s) : s[l] = x
    BY <1>4, <1>6
  <2>3. k \in 1 .. Len(s) /\ l \in 1 .. Len(s) /\ k # l
    BY <1>1, <1>2
  <2> QED
    BY <2>1, <2>2, <2>3 DEF Distinct
<1>7. ToSet(SubSeq(s, 1, n)) \cap ToSet(SubSeq(s, m, Len(s))) = {}
  BY <1>6
<1> QED
  BY <1>2, <1>4, <1>5, <1>7

LEMMA Appended ==
    ASSUME NEW s, Distinct(s), NEW f \in File, f \notin ToSet(s)
    PROVE  Distinct(Append(s, f)) /\ ToSet(Append(s, f)) = ToSet(s) \cup {f}
<1>1. s \in Seq(File) /\ Len(s) \in Nat
  BY LenProperties DEF Distinct
<1>2. PICK t : t = Append(s, f)
  OBVIOUS
<1>3. /\ t \in Seq(File) /\ Len(t) = Len(s) + 1
      /\ \A i \in 1 .. Len(s) : t[i] = s[i]
  BY <1>1, <1>2, AppendProperties
<1>4. t[Len(s) + 1] = f
  BY <1>1, <1>2, AppendProperties
<1>5. \A i \in 1 .. Len(t) : i \in 1 .. Len(s) \/ i = Len(s) + 1
  BY <1>1, <1>3
<1>6. \A i \in 1 .. Len(s) : i \in 1 .. Len(t) /\ s[i] # f
  BY <1>1, <1>3, InToSet
<1>7. Distinct(t)
  BY <1>1, <1>3, <1>4, <1>5, <1>6 DEF Distinct
<1>8. Len(s) + 1 \in 1 .. Len(t)
  BY <1>1, <1>3
<1>9. \A x : x \in ToSet(t) <=> x \in ToSet(s) \cup {f}
  <2>1. \A x : x \in ToSet(t) <=> \E i \in 1 .. Len(t) : t[i] = x
    BY <1>3, InToSet
  <2>2. \A x : x \in ToSet(s) <=> \E i \in 1 .. Len(s) : s[i] = x
    BY <1>1, InToSet
  <2> QED
    BY <2>1, <2>2, <1>3, <1>4, <1>5, <1>6, <1>8
<1> QED
  BY <1>2, <1>7, <1>9

(* A deleted row leaves the others, in their order.                        *)
LEMMA LeastOf ==
    ASSUME NEW T \in SUBSET Nat, T # {}
    PROVE  Min(T) \in T /\ \A m \in T : Min(T) <= m
<1>1. PICK n \in T : \A m \in T : ~ (<<m, n>> \in OpToRel(<, Nat))
  BY NatLessThanWellFounded, WFMin
<1>2. \A m \in T : <<m, n>> \in OpToRel(<, Nat) <=> m < n
  BY DEF OpToRel
<1>3. \A m \in T : ~ (m < n)
  BY <1>1, <1>2
<1>4. \A m \in T : n <= m
  BY <1>3
<1> QED
  BY <1>4 DEF Min

LEMMA RemovedAt ==
    ASSUME NEW s, Distinct(s), NEW i \in 1 .. Len(s)
    PROVE  Distinct(RemoveAt(s, i)) /\ ToSet(RemoveAt(s, i)) \subseteq ToSet(s)
<1>1. s \in Seq(File) /\ Len(s) \in Nat
  BY LenProperties DEF Distinct
<1>2. PICK n : n = i - 1
  OBVIOUS
<1>3. PICK m : m = i + 1
  OBVIOUS
<1>4. PICK a : a = SubSeq(s, 1, n)
  OBVIOUS
<1>5. PICK b : b = SubSeq(s, m, Len(s))
  OBVIOUS
<1>6. n \in 0 .. Len(s) /\ m \in 1 .. Len(s) + 1
  BY <1>1, <1>2, <1>3
<1>7. Distinct(a) /\ \A x : x \in ToSet(a) => \E k \in 1 .. n : s[k] = x
  <2>1. 1 \in 1 .. Len(s) + 1
    BY <1>1
  <2> QED
    BY <2>1, <1>4, <1>6, PartOf
<1>8. Distinct(b) /\ \A x : x \in ToSet(b) => \E k \in m .. Len(s) : s[k] = x
  <2>1. Len(s) \in 0 .. Len(s)
    BY <1>1
  <2> QED
    BY <2>1, <1>5, <1>6, PartOf
<1>9. PICK t : t = a \o b
  OBVIOUS
<1>10. /\ t \in Seq(File) /\ Len(t) = Len(a) + Len(b) /\ Len(a) \in Nat /\ Len(b) \in Nat
       /\ \A k \in 1 .. Len(a) + Len(b) : t[k] = IF k <= Len(a) THEN a[k] ELSE b[k - Len(a)]
  BY <1>7, <1>8, <1>9, ConcatProperties, LenProperties DEF Distinct
<1>11. \A k \in 1 .. Len(a) : a[k] \in ToSet(a)
  BY <1>7, InToSet DEF Distinct
<1>12. \A k \in 1 .. Len(b) : b[k] \in ToSet(b)
  BY <1>8, InToSet DEF Distinct
<1>13. ASSUME NEW x, x \in ToSet(a), x \in ToSet(b)
       PROVE  FALSE
  <2>1. PICK k \in 1 .. n : s[k] = x
    BY <1>7, <1>13
  <2>2. PICK l \in m .. Len(s) : s[l] = x
    BY <1>8, <1>13
  <2>3. k \in 1 .. Len(s) /\ l \in 1 .. Len(s) /\ k # l
    BY <1>1, <1>2, <1>3, <1>6
  <2> QED
    BY <2>1, <2>2, <2>3 DEF Distinct
<1>14. ASSUME NEW k \in 1 .. Len(t)
       PROVE  \/ k \in 1 .. Len(a) /\ t[k] = a[k]
              \/ k - Len(a) \in 1 .. Len(b) /\ k > Len(a) /\ t[k] = b[k - Len(a)]
  BY <1>10
<1>15. ASSUME NEW k \in 1 .. Len(t), NEW l \in 1 .. Len(t), t[k] = t[l]
       PROVE  k = l
  <2>1. CASE k \in 1 .. Len(a) /\ t[k] = a[k] /\ l \in 1 .. Len(a) /\ t[l] = a[l]
    BY <2>1, <1>7, <1>15 DEF Distinct
  <2>2. CASE k \in 1 .. Len(a) /\ t[k] = a[k] /\ ~(l \in 1 .. Len(a) /\ t[l] = a[l])
    BY <2>2, <1>11, <1>12, <1>13, <1>14, <1>15
  <2>3. CASE ~(k \in 1 .. Len(a) /\ t[k] = a[k]) /\ l \in 1 .. Len(a) /\ t[l] = a[l]
    BY <2>3, <1>11, <1>12, <1>13, <1>14, <1>15
  <2>4. CASE ~(k \in 1 .. Len(a) /\ t[k] = a[k]) /\ ~(l \in 1 .. Len(a) /\ t[l] = a[l])
    <3>1. PICK q : q = k - Len(a)
      OBVIOUS
    <3>2. PICK r : r = l - Len(a)
      OBVIOUS
    <3>3. q \in 1 .. Len(b) /\ r \in 1 .. Len(b) /\ b[q] = b[r]
      BY <2>4, <1>14, <1>15, <3>1, <3>2
    <3>4. q = r
      BY <3>3, <1>8 DEF Distinct
    <3> QED
      BY <3>1, <3>2, <3>4, <1>10
  <2> QED
    BY <2>1, <2>2, <2>3, <2>4
<1>16. ASSUME NEW x, x \in ToSet(t)
       PROVE  x \in ToSet(s)
  <2>1. PICK k \in 1 .. Len(t) : t[k] = x
    BY <1>10, <1>16, InToSet
  <2>2. x \in ToSet(a) \/ x \in ToSet(b)
    BY <2>1, <1>11, <1>12, <1>14
  <2>3. PICK l \in 1 .. Len(s) : s[l] = x
    BY <2>2, <1>1, <1>6, <1>7, <1>8
  <2> QED
    BY <2>3, <1>1, InToSet
<1>17. t = RemoveAt(s, i)
  BY <1>2, <1>3, <1>4, <1>5, <1>9 DEF RemoveAt
<1> QED
  BY <1>10, <1>15, <1>16, <1>17 DEF Distinct

LEMMA Removed ==
    ASSUME NEW s, Distinct(s), NEW f
    PROVE  Distinct(RemoveFirst(s, f)) /\ ToSet(RemoveFirst(s, f)) \subseteq ToSet(s)
<1>1. CASE \E i \in 1 .. Len(s) : s[i] = f
  <2>1. PICK I : I = {i \in 1 .. Len(s) : s[i] = f}
    OBVIOUS
  <2>2. I \in SUBSET Nat /\ I # {}
    BY <1>1, <2>1
  <2>3. PICK i : i = Min(I)
    OBVIOUS
  <2>4. i \in 1 .. Len(s)
    BY <2>1, <2>2, <2>3, LeastOf
  <2>5. RemoveFirst(s, f) = RemoveAt(s, i)
    BY <1>1, <2>1, <2>2, <2>3 DEF RemoveFirst, SelectInSeq
  <2> QED
    BY <2>4, <2>5, RemovedAt
<1>2. CASE ~ \E i \in 1 .. Len(s) : s[i] = f
  BY <1>2 DEF RemoveFirst
<1> QED
  BY <1>1, <1>2

-----------------------------------------------------------------------------
(* The bytes of files in the versions that an index has.                   *)
Index(idx) == idx \in [File -> Nat] /\ \A f \in File : idx[f] \in 1 .. Len(SizeOf[f])
BytesOf(idx, S) == UNION {{f} \X (1 .. SizeOf[f][idx[f]]) : f \in S}

LEMMA BytesType ==
    ASSUME NEW idx, Index(idx), NEW S \in SUBSET File
    PROVE  IsFiniteSet(BytesOf(idx, S)) /\ Cardinality(BytesOf(idx, S)) \in Nat
<1> DEFINE piece == [f \in S |-> {f} \X (1 .. SizeOf[f][idx[f]])]
           T == {{f} \X (1 .. SizeOf[f][idx[f]]) : f \in S}
<1>1. IsFiniteSet(S)
  BY CacheAssumption, FS_Subset
<1>2. piece \in Surjection(S, T)
  BY DEF Surjection
<1>3. IsFiniteSet(T)
  BY <1>1, <1>2, FS_Surjection
<1>4. \A f \in S : SizeOf[f][idx[f]] \in Nat
  BY CacheAssumption DEF Index
<1>5. \A f \in S : IsFiniteSet({f}) /\ IsFiniteSet(1 .. SizeOf[f][idx[f]])
  BY <1>4, FS_Singleton, FS_Interval
<1>6. \A f \in S : IsFiniteSet({f} \X (1 .. SizeOf[f][idx[f]]))
  BY <1>5, FS_Product
<1>7. IsFiniteSet(UNION T)
  BY <1>3, <1>6, FS_UNION
<1> QED
  BY <1>7, FS_CardinalityType DEF BytesOf

(* Fewer files, or smaller versions of them, have no more bytes.           *)
LEMMA FewerBytes ==
    ASSUME NEW idx, Index(idx), NEW jdx, Index(jdx), NEW S \in SUBSET File, NEW T \in SUBSET S,
           \A f \in T : SizeOf[f][jdx[f]] <= SizeOf[f][idx[f]]
    PROVE  Cardinality(BytesOf(jdx, T)) <= Cardinality(BytesOf(idx, S))
<1>1. \A f \in T : SizeOf[f][jdx[f]] \in Nat /\ SizeOf[f][idx[f]] \in Nat
  BY CacheAssumption DEF Index
<1>2. \A f \in T : 1 .. SizeOf[f][jdx[f]] \subseteq 1 .. SizeOf[f][idx[f]]
  BY <1>1
<1>3. BytesOf(jdx, T) \subseteq BytesOf(idx, S)
  BY <1>2 DEF BytesOf
<1> QED
  BY <1>3, BytesType, FS_Subset

(* One more file adds its size.                                            *)
LEMMA BytesOfOneMore ==
    ASSUME NEW idx, Index(idx), NEW S \in SUBSET File, NEW f \in File
    PROVE  Cardinality(BytesOf(idx, S \cup {f})) <= Cardinality(BytesOf(idx, S)) + SizeOf[f][idx[f]]
<1> DEFINE A == BytesOf(idx, S)
           n == SizeOf[f][idx[f]]
           B == {f} \X (1 .. n)
<1>1. n \in Nat
  BY CacheAssumption DEF Index
<1>2. IsFiniteSet(A) /\ Cardinality(A) \in Nat
  BY BytesType
<1>3. IsFiniteSet({f}) /\ Cardinality({f}) = 1
  BY FS_Singleton
<1>4. IsFiniteSet(1 .. n) /\ Cardinality(1 .. n) = n
  <2> HIDE DEF n
  <2>1. 1 \in Int /\ n \in Int
    BY <1>1
  <2>2. IsFiniteSet(1 .. n) /\ Cardinality(1 .. n) = IF 1 > n THEN 0 ELSE n - 1 + 1
    BY <2>1, FS_Interval
  <2> QED
    BY <1>1, <2>2
<1>5. IsFiniteSet(B) /\ Cardinality(B) = Cardinality({f}) * Cardinality(1 .. n)
  BY <1>3, <1>4, FS_Product
<1>6. Cardinality(B) = n
  BY <1>1, <1>3, <1>4, <1>5
<1>7. Cardinality(A \cup B) = Cardinality(A) + Cardinality(B) - Cardinality(A \cap B)
  BY <1>2, <1>5, FS_Union
<1>8. Cardinality(A \cap B) \in Nat
  BY <1>2, FS_Intersection, FS_CardinalityType
<1>9. Cardinality(A \cup B) <= Cardinality(A) + n
  <2> HIDE DEF A, B, n
  <2> QED
    BY <1>1, <1>2, <1>6, <1>7, <1>8
<1>10. BytesOf(idx, S \cup {f}) = A \cup B
  BY DEF BytesOf
<1> QED
  BY <1>9, <1>10
-----------------------------------------------------------------------------
(* The inductive invariant. Rows are distinct and have their copies, or    *)
(* the copyto failed; the files that a read has freed have no row left     *)
(* when their copies go, and a read writes its row after the copyto.       *)
Reading == {"free rows", "free files", "copy", "update"}

IndexForm ==
    Index(info) /\ DOMAIN node = File /\ \A f \in File : node[f].version \in 1 .. info[f]
ReaderForm ==
    /\ reader \in [pc : Reading \cup {"idle", "panicked"}, file : File \cup {"none"},
                   victims : SUBSET File]
    /\ reader.pc \in Reading => reader.file \in File
    /\ reader.pc # "free files" => reader.victims = {}
CacheForm == IndexForm /\ ReaderForm /\ Distinct(cache) /\ DOMAIN dir = File

BackedInv ==
    /\ RowsBacked
    /\ reader.victims \cap ToSet(cache) = {}
    /\ reader.pc = "update" => dir[reader.file] # 0 \/ reader.file \in uncopied

LEMMA IdleForm ==
    ASSUME reader = Idle
    PROVE  ReaderForm /\ reader.pc = "idle" /\ reader.victims = {}
BY DEF Idle, ReaderForm, Reading

LEMMA InitialForm ==
    ASSUME Init
    PROVE  CacheForm /\ BackedInv
<1>1. IndexForm
  BY CacheAssumption DEF Init, Index, IndexForm
<1>2. Distinct(cache) /\ ToSet(cache) = {}
  BY EmptyDistinct DEF Init
<1>3. ReaderForm /\ reader.pc = "idle" /\ reader.victims = {}
  BY IdleForm DEF Init
<1>4. DOMAIN dir = File
  BY DEF Init
<1> QED
  BY <1>1, <1>2, <1>3, <1>4 DEF CacheForm, BackedInv, RowsBacked

-----------------------------------------------------------------------------
(* One lemma per step.                                                     *)
LEMMA ChangeStep ==
    ASSUME CacheForm, BackedInv, NEW f \in File, NEW kind, Change(f, kind)
    PROVE  /\ CacheForm' /\ BackedInv'
           /\ ToSet(cache') \subseteq ToSet(cache)
           /\ info' = [info EXCEPT ![f] = info[f] + 1]
<1>1. info' = [info EXCEPT ![f] = info[f] + 1] /\ node' = node /\ info[f] < Len(SizeOf[f])
  BY DEF Change
<1>2. IndexForm'
  <2>1. info \in [File -> Nat] /\ \A g \in File : info[g] \in 1 .. Len(SizeOf[g])
    BY DEF CacheForm, IndexForm, Index
  <2>2. ASSUME NEW g \in File
        PROVE  info'[g] \in Nat /\ info'[g] \in 1 .. Len(SizeOf[g]) /\ info[g] <= info'[g]
    BY <1>1, <2>1
  <2>3. info' \in [File -> Nat]
    BY <1>1, <2>1
  <2>4. \A g \in File : node[g].version \in 1 .. info'[g]
    BY <2>1, <2>2 DEF CacheForm, IndexForm
  <2> QED
    BY <1>1, <2>2, <2>3, <2>4 DEF CacheForm, IndexForm, Index
<1>3. Distinct(cache') /\ ToSet(cache') \subseteq ToSet(cache)
  <2>1. cache' = cache \/ cache' = RemoveFirst(cache, f)
    BY DEF Change
  <2> QED
    BY <2>1, Removed DEF CacheForm
<1>4. UNCHANGED <<dir, reader, uncopied>>
  BY DEF Change
<1>5. ReaderForm' /\ (DOMAIN dir = File)'
  BY <1>4 DEF CacheForm, ReaderForm
<1>6. CacheForm'
  BY <1>2, <1>3, <1>5 DEF CacheForm
<1> QED
  BY <1>1, <1>3, <1>4, <1>6 DEF BackedInv, RowsBacked

LEMMA ReadStep ==
    ASSUME CacheForm, BackedInv, NEW f \in File, read_mem(f)
    PROVE  CacheForm' /\ BackedInv'
<1>1. PICK pc \in {"update", "free rows"} : reader' = [reader EXCEPT !.file = f, !.pc = pc]
  BY DEF read_mem
<1>2. reader'.file = f /\ reader'.pc = pc /\ reader'.victims = {}
  BY <1>1 DEF CacheForm, ReaderForm, read_mem
<1>3. ReaderForm'
  BY <1>1, <1>2 DEF CacheForm, ReaderForm, Reading
<1>4. reader'.pc = "update" => f \in ToSet(cache)
  BY <1>2 DEF read_mem, is_file_in_read_cache, CacheForm, ReaderForm
<1>5. UNCHANGED <<info, cache, dir, node, uncopied>>
  BY DEF read_mem
<1> QED
  BY <1>2, <1>3, <1>4, <1>5 DEF CacheForm, IndexForm, BackedInv, RowsBacked

(* The rows that are freed: the fewest that make room, or all.             *)
Frees(n) ==
    /\ n = Len(cache) \/ Enough(SubSeq(cache, n + 1, Len(cache)), NodeSize(reader.file))
    /\ cache' = SubSeq(cache, n + 1, Len(cache))
    /\ reader' = [reader EXCEPT !.pc = "free files", !.victims = ToSet(SubSeq(cache, 1, n))]

LEMMA FreedRows ==
    ASSUME CacheForm, FreeRows
    PROVE  \/ \E n \in 0 .. Len(cache) : Frees(n)
           \/ /\ UsedBytes(cache) > CacheSize /\ cache' = cache
              /\ \E pc \in {"panicked", "free files"} : reader' = [reader EXCEPT !.pc = pc]
<1> DEFINE Fits(k) == Enough(SubSeq(cache, k + 1, Len(cache)), NodeSize(reader.file))
           S == {k \in 0 .. Len(cache) : k = Len(cache) \/ Fits(k)}
<1>1. Len(cache) \in Nat
  BY LenProperties DEF CacheForm, Distinct
<1>2. S \in SUBSET Nat /\ Len(cache) \in S
  BY <1>1
<1>3. Min(S) \in S
  <2> HIDE DEF S
  <2> QED
    BY <1>2, LeastOf
<1>4. PICK n : n = Min(S)
  OBVIOUS
<1>5. n \in 0 .. Len(cache) /\ (n = Len(cache) \/ Fits(n))
  BY <1>3, <1>4
<1>6. \/ /\ UsedBytes(cache) <= CacheSize /\ cache' = SubSeq(cache, n + 1, Len(cache))
         /\ reader' = [reader EXCEPT !.pc = "free files", !.victims = ToSet(SubSeq(cache, 1, n))]
      \/ /\ UsedBytes(cache) > CacheSize /\ cache' = cache
         /\ \E pc \in {"panicked", "free files"} : reader' = [reader EXCEPT !.pc = pc]
  BY <1>4 DEF FreeRows
<1> QED
  BY <1>5, <1>6 DEF Frees

LEMMA FreeRowsStep ==
    ASSUME CacheForm, BackedInv, FreeRows
    PROVE  CacheForm' /\ BackedInv'
<1>1. UNCHANGED <<info, dir, node, uncopied>> /\ reader.pc = "free rows" /\ reader.file \in File
  BY DEF FreeRows, CacheForm, ReaderForm, Reading
<1>2. CASE \E n \in 0 .. Len(cache) : Frees(n)
  <2>1. PICK n \in 0 .. Len(cache) : Frees(n)
    BY <1>2
  <2>2. PICK V : V = ToSet(SubSeq(cache, 1, n))
    OBVIOUS
  <2>3. Distinct(cache') /\ ToSet(cache') \subseteq ToSet(cache)
        /\ V \subseteq ToSet(cache) /\ V \cap ToSet(cache') = {}
    BY <2>1, <2>2, SplitRows DEF CacheForm, Frees
  <2>4. V \in SUBSET File
    BY <2>3, InToSet DEF CacheForm, Distinct
  <2>5. reader' = [reader EXCEPT !.pc = "free files", !.victims = V]
    BY <2>1, <2>2 DEF Frees
  <2>6. reader'.pc = "free files" /\ reader'.victims = V /\ reader'.file = reader.file
    BY <2>5 DEF CacheForm, ReaderForm
  <2>7. ReaderForm'
    BY <1>1, <2>4, <2>5, <2>6 DEF CacheForm, ReaderForm, Reading
  <2> QED
    BY <1>1, <2>3, <2>6, <2>7 DEF CacheForm, IndexForm, BackedInv, RowsBacked
<1>3. CASE /\ cache' = cache
           /\ \E pc \in {"panicked", "free files"} : reader' = [reader EXCEPT !.pc = pc]
  <2>1. PICK pc \in {"panicked", "free files"} : reader' = [reader EXCEPT !.pc = pc]
    BY <1>3
  <2>2. reader'.pc = pc /\ reader'.victims = {} /\ reader'.file = reader.file
    BY <1>1, <2>1 DEF CacheForm, ReaderForm
  <2>3. ReaderForm'
    BY <1>1, <2>1, <2>2 DEF CacheForm, ReaderForm, Reading
  <2> QED
    BY <1>1, <1>3, <2>2, <2>3 DEF CacheForm, IndexForm, BackedInv, RowsBacked
<1> QED
  BY <1>2, <1>3, FreedRows

LEMMA FreeFilesStep ==
    ASSUME CacheForm, BackedInv, FreeFiles
    PROVE  CacheForm' /\ BackedInv'
<1>1. PICK S \in SUBSET reader.victims : dir' = [f \in File |-> IF f \in S THEN 0 ELSE dir[f]]
  BY DEF FreeFiles
<1>2. UNCHANGED <<info, cache, node, uncopied>>
  BY DEF FreeFiles
<1>3. ReaderForm' /\ reader'.victims = {} /\ reader'.pc # "update"
  <2>1. CASE reader' = Idle
    <3>1. reader'.pc = "idle" /\ reader'.victims = {} /\ reader'.file = "none"
      BY <2>1 DEF Idle
    <3> QED
      BY <2>1, <3>1 DEF ReaderForm, Reading, Idle
  <2>2. CASE reader' = [reader EXCEPT !.pc = "copy", !.victims = {}]
    <3>1. reader'.pc = "copy" /\ reader'.victims = {} /\ reader'.file = reader.file
      BY <2>2 DEF CacheForm, ReaderForm
    <3>2. reader.file \in File
      BY DEF FreeFiles, CacheForm, ReaderForm, Reading
    <3> QED
      BY <2>2, <3>1, <3>2 DEF CacheForm, ReaderForm, Reading
  <2> QED
    BY <2>1, <2>2 DEF FreeFiles
<1>4. \A f \in ToSet(cache) : f \notin S /\ f \in File
  BY <1>1, InToSet DEF BackedInv, CacheForm, Distinct
<1>5. \A f \in ToSet(cache) : dir'[f] = dir[f]
  BY <1>1, <1>4
<1>6. DOMAIN dir' = File
  BY <1>1
<1> QED
  BY <1>2, <1>3, <1>5, <1>6 DEF CacheForm, IndexForm, BackedInv, RowsBacked

LEMMA CopyStep ==
    ASSUME CacheForm, BackedInv, cp_remote_to_read_cache
    PROVE  CacheForm' /\ BackedInv'
<1>1. UNCHANGED <<info, cache, node>> /\ reader.file \in File /\ reader.victims = {}
  BY DEF cp_remote_to_read_cache, CacheForm, ReaderForm, Reading
<1>2. CASE reader' = Idle /\ UNCHANGED <<dir, uncopied>>
  <2>1. reader'.pc = "idle" /\ reader'.victims = {} /\ reader'.file = "none"
    BY <1>2 DEF Idle
  <2>2. ReaderForm'
    BY <1>2, <2>1 DEF ReaderForm, Reading, Idle
  <2> QED
    BY <1>1, <1>2, <2>1, <2>2 DEF CacheForm, IndexForm, BackedInv, RowsBacked
<1>3. CASE /\ remote[reader.file] # 0 /\ CopyTo(reader.file)
           /\ reader' = [reader EXCEPT !.pc = "update"]
  <2>1. reader'.pc = "update" /\ reader'.victims = {} /\ reader'.file = reader.file
    BY <1>1, <1>3 DEF CacheForm, ReaderForm
  <2>2. ReaderForm'
    BY <1>1, <1>3, <2>1 DEF CacheForm, ReaderForm, Reading
  <2>3. ToSet(cache) \in SUBSET File
    BY InToSet DEF CacheForm, Distinct
  <2>4. /\ DOMAIN dir' = File /\ (dir'[reader.file] # 0 \/ reader.file \in uncopied')
        /\ \A f \in File : dir[f] # 0 \/ f \in uncopied => dir'[f] # 0 \/ f \in uncopied'
    <3>1. CASE /\ dir' = [dir EXCEPT ![reader.file] = remote[reader.file]]
               /\ uncopied' = uncopied \ {reader.file}
      BY <1>1, <1>3, <3>1 DEF CacheForm
    <3>2. CASE dir' = dir /\ uncopied' = uncopied \cup {reader.file}
      BY <1>1, <3>2 DEF CacheForm
    <3> QED
      BY <1>3, <3>1, <3>2 DEF CopyTo
  <2> QED
    BY <1>1, <2>1, <2>2, <2>3, <2>4 DEF CacheForm, IndexForm, BackedInv, RowsBacked
<1> QED
  BY <1>2, <1>3 DEF cp_remote_to_read_cache

LEMMA UpdateStep ==
    ASSUME CacheForm, BackedInv, update_read_cache
    PROVE  CacheForm' /\ BackedInv'
<1>1. /\ UNCHANGED <<info, dir, node, uncopied>> /\ reader.file \in File /\ reader.victims = {}
      /\ dir[reader.file] # 0 \/ reader.file \in uncopied
      /\ reader' = Idle
  BY DEF update_read_cache, CacheForm, ReaderForm, Reading, BackedInv
<1>2. reader'.pc = "idle" /\ reader'.victims = {} /\ reader'.file = "none"
  BY <1>1 DEF Idle
<1>3. ReaderForm'
  BY <1>1, <1>2 DEF ReaderForm, Reading, Idle
<1>4. Distinct(cache') /\ ToSet(cache') \subseteq ToSet(cache) \cup {reader.file}
  BY <1>1, Appended DEF update_read_cache, is_file_in_read_cache, CacheForm
<1> QED
  BY <1>1, <1>2, <1>3, <1>4 DEF CacheForm, IndexForm, BackedInv, RowsBacked

(* What leaves rows and copies alone: uploads, a refresh, a new start.     *)
LEMMA RestStep ==
    ASSUME CacheForm, BackedInv, UNCHANGED <<info, cache, dir, uncopied>>,
           UNCHANGED reader \/ reader' = Idle,
           UNCHANGED node \/ node' = [f \in File |-> [version |-> info[f], located |-> f \in located]]
    PROVE  CacheForm' /\ BackedInv'
<1>1. IndexForm'
  <2>1. CASE UNCHANGED node
    BY <2>1 DEF CacheForm, IndexForm
  <2>2. CASE node' = [f \in File |-> [version |-> info[f], located |-> f \in located]]
    <3>1. DOMAIN node' = File /\ \A f \in File : node'[f].version = info[f]
      BY <2>2
    <3>2. \A f \in File : info[f] \in 1 .. info[f]
      BY DEF CacheForm, IndexForm, Index
    <3> QED
      BY <3>1, <3>2 DEF CacheForm, IndexForm
  <2> QED
    BY <2>1, <2>2
<1>2. ReaderForm' /\ (UNCHANGED reader \/ (reader'.pc = "idle" /\ reader'.victims = {}))
  <2>1. CASE UNCHANGED reader
    BY <2>1 DEF CacheForm, ReaderForm
  <2>2. CASE reader' = Idle
    <3>1. reader'.pc = "idle" /\ reader'.victims = {} /\ reader'.file = "none"
      BY <2>2 DEF Idle
    <3> QED
      BY <2>2, <3>1 DEF ReaderForm, Reading, Idle
  <2> QED
    BY <2>1, <2>2
<1> QED
  BY <1>1, <1>2 DEF CacheForm, BackedInv, RowsBacked

LEMMA BackedStep ==
    ASSUME CacheForm, BackedInv, [Next]_vars
    PROVE  CacheForm' /\ BackedInv'
<1>1. CASE \E f \in File : \E kind \in Announcement : Change(f, kind)
  BY <1>1, ChangeStep
<1>2. CASE \E f \in File : CopyToRemote(f) \/ Locate(f)
  BY <1>2, RestStep DEF CopyToRemote, Locate
<1>3. CASE \E f \in File : read_mem(f)
  BY <1>3, ReadStep
<1>4. CASE Refresh \/ Crash
  BY <1>4, RestStep DEF Refresh, Crash
<1>5. CASE UNCHANGED vars
  BY <1>5, RestStep DEF vars
<1> QED
  BY <1>1, <1>2, <1>3, <1>4, <1>5, FreeRowsStep, FreeFilesStep, CopyStep, UpdateStep DEF Next

(* RowsBacked, for any files and sizes: a row of bep_local_cache stands    *)
(* for a copy that is there unless the copyto of its last read failed,     *)
(* wherever the process crashes, since rows are deleted before copies and  *)
(* written after the copyto. A failed copyto is the only way to a row      *)
(* without a copy.                                                         *)
THEOREM RowsHaveCopies == Spec => []RowsBacked
<1>1. Init => CacheForm /\ BackedInv
  BY InitialForm
<1>2. CacheForm /\ BackedInv /\ [Next]_vars => CacheForm' /\ BackedInv'
  BY BackedStep
<1>3. BackedInv => RowsBacked
  BY DEF BackedInv
<1> QED
  BY <1>1, <1>2, <1>3, PTL DEF Spec

-----------------------------------------------------------------------------
(* Files that do not grow. One that grows while it is in the cache makes   *)
(* the rows larger than the cache, and the next read underflows.           *)
NoGrowth ==
    \A f \in File : \A v, w \in 1 .. Len(SizeOf[f]) : v <= w => SizeOf[f][w] <= SizeOf[f][v]

(* Once rows are freed there is room for the file of the read until its    *)
(* row is written. The room is made for the version of the node, which may *)
(* be older than the row's.                                                *)
RoomMade == UsedBytes(cache) + SizeOf[reader.file][info[reader.file]] <= CacheSize
RoomInv ==
    /\ RowsWithinSize
    /\ reader.pc = "free rows" => NodeSize(reader.file) <= CacheSize
    /\ reader.pc \in {"free files", "copy"} => RoomMade
    /\ reader.pc = "update" /\ reader.file \notin ToSet(cache) => RoomMade

LEMMA UsedType ==
    ASSUME CacheForm
    PROVE  /\ UsedBytes(cache) = Cardinality(BytesOf(info, ToSet(cache)))
           /\ UsedBytes(cache) \in Nat /\ ToSet(cache) \in SUBSET File /\ CacheSize \in Nat
           /\ \A f \in File : SizeOf[f][info[f]] \in Nat
<1>1. UsedBytes(cache) = Cardinality(BytesOf(info, ToSet(cache)))
  BY DEF UsedBytes, BytesOf
<1>2. ToSet(cache) \in SUBSET File
  BY InToSet DEF CacheForm, Distinct
<1>3. Index(info)
  BY DEF CacheForm, IndexForm
<1> QED
  BY <1>1, <1>2, <1>3, BytesType, CacheAssumption DEF Index

(* Steps that leave rows and versions alone.                               *)
LEMMA SameRoom ==
    ASSUME CacheForm, RoomInv, UNCHANGED <<info, cache>>,
           UNCHANGED <<reader, node>> \/ reader'.pc \in {"idle", "panicked"}
    PROVE  RoomInv'
BY DEF RoomInv, RowsWithinSize, UsedBytes, RoomMade, NodeSize

LEMMA ChangeRoom ==
    ASSUME NoGrowth, CacheForm, BackedInv, RoomInv, NEW f \in File, NEW kind, Change(f, kind)
    PROVE  RoomInv'
<1>1. /\ CacheForm' /\ ToSet(cache') \subseteq ToSet(cache)
      /\ info' = [info EXCEPT ![f] = info[f] + 1]
  BY ChangeStep
<1>2. Index(info) /\ Index(info') /\ ToSet(cache) \in SUBSET File
  BY <1>1, UsedType DEF CacheForm, IndexForm
<1>3. \A g \in File : info[g] <= info'[g]
  BY <1>1, <1>2 DEF Index
<1>4. \A g \in File : SizeOf[g][info'[g]] <= SizeOf[g][info[g]]
  BY <1>2, <1>3 DEF NoGrowth, Index
<1>5. PICK T : T = ToSet(cache')
  OBVIOUS
<1>6. PICK jdx : jdx = info'
  OBVIOUS
<1>7. Cardinality(BytesOf(jdx, T)) <= Cardinality(BytesOf(info, ToSet(cache)))
  BY <1>1, <1>2, <1>4, <1>5, <1>6, FewerBytes
<1>8. UsedBytes(cache)' = Cardinality(BytesOf(jdx, T))
  BY <1>5, <1>6 DEF UsedBytes, BytesOf
<1>9. UsedBytes(cache)' <= CacheSize
  <2>1. T \in SUBSET File /\ Index(jdx)
    BY <1>1, <1>2, <1>5, <1>6
  <2>2. Cardinality(BytesOf(jdx, T)) \in Nat
    BY <2>1, BytesType
  <2>3. /\ UsedBytes(cache) = Cardinality(BytesOf(info, ToSet(cache)))
        /\ UsedBytes(cache) \in Nat /\ CacheSize \in Nat /\ UsedBytes(cache) <= CacheSize
    BY UsedType DEF RoomInv, RowsWithinSize
  <2> QED
    BY <2>2, <2>3, <1>7, <1>8
<1>10. reader'.pc \in {"idle", "panicked"}
  BY DEF Change
<1> QED
  BY <1>9, <1>10 DEF RoomInv, RowsWithinSize

LEMMA ReadRoom ==
    ASSUME CacheForm, RoomInv, NEW f \in File, read_mem(f)
    PROVE  RoomInv'
<1>1. PICK pc \in {"update", "free rows"} : reader' = [reader EXCEPT !.file = f, !.pc = pc]
  BY DEF read_mem
<1>2. reader'.file = f /\ reader'.pc = pc
  BY <1>1 DEF CacheForm, ReaderForm
<1>3. pc = "update" => f \in ToSet(cache)
  BY <1>2 DEF read_mem, is_file_in_read_cache, CacheForm, ReaderForm
<1>4. UNCHANGED <<info, cache, node>> /\ NodeSize(f) <= CacheSize
  BY DEF read_mem
<1>5. RowsWithinSize'
  BY <1>4 DEF RoomInv, RowsWithinSize, UsedBytes
<1>6. NodeSize(reader.file)' = NodeSize(f)
  BY <1>2, <1>4 DEF NodeSize
<1> QED
  BY <1>2, <1>3, <1>4, <1>5, <1>6 DEF RoomInv, NodeSize

LEMMA FreeRoom ==
    ASSUME NoGrowth, CacheForm, BackedInv, RoomInv, FreeRows
    PROVE  RoomInv'
<1>1. PICK n \in 0 .. Len(cache) : Frees(n)
  <2>1. UsedBytes(cache) \in Nat /\ CacheSize \in Nat
    BY UsedType
  <2>2. UsedBytes(cache) <= CacheSize
    BY DEF RoomInv, RowsWithinSize
  <2>3. ~(UsedBytes(cache) > CacheSize)
    BY <2>1, <2>2
  <2> QED
    BY <2>3, FreedRows
<1>2. /\ UNCHANGED <<info, node>> /\ reader.file \in File /\ NodeSize(reader.file) <= CacheSize
      /\ reader'.pc = "free files" /\ reader'.file = reader.file
  BY <1>1 DEF FreeRows, CacheForm, ReaderForm, Reading, RoomInv, Frees
<1>3. PICK f : f = reader.file
  OBVIOUS
<1>4. /\ SizeOf[f][info[f]] \in Nat /\ NodeSize(f) \in Nat
      /\ SizeOf[f][info[f]] <= NodeSize(f)
  <2>1. info[f] \in 1 .. Len(SizeOf[f]) /\ node[f].version \in 1 .. info[f]
    BY <1>2, <1>3 DEF CacheForm, IndexForm, Index
  <2>2. node[f].version \in 1 .. Len(SizeOf[f]) /\ node[f].version <= info[f]
    BY <2>1
  <2> QED
    BY <1>2, <1>3, <2>1, <2>2, CacheAssumption DEF NoGrowth, NodeSize
<1>5. UsedBytes(cache') + NodeSize(f) <= CacheSize /\ UsedBytes(cache') \in Nat
  <2>1. CacheForm'
    BY FreeRowsStep
  <2>2. UsedBytes(cache') \in Nat /\ CacheSize \in Nat
    <3>1. Distinct(cache') /\ Index(info)
      BY <2>1 DEF CacheForm, IndexForm
    <3>2. PICK S : S = ToSet(cache')
      OBVIOUS
    <3>3. S \in SUBSET File
      BY <3>1, <3>2, InToSet DEF Distinct
    <3> QED
      BY <3>1, <3>2, <3>3, BytesType, CacheAssumption DEF UsedBytes, BytesOf
  <2>3. CASE Enough(cache', NodeSize(f))
    BY <2>2, <2>3, <1>4 DEF Enough
  <2>4. CASE n = Len(cache)
    <3>1. Len(cache) \in Nat
      BY LenProperties DEF CacheForm, Distinct
    <3>2. SubSeq(cache, Len(cache) + 1, Len(cache)) = <<>>
      BY <3>1, SubSeqEmpty
    <3>3. ToSet(cache') = {}
      BY <1>1, <2>4, <3>2, EmptyDistinct DEF Frees
    <3>4. BytesOf(info, ToSet(cache')) = {}
      BY <3>3 DEF BytesOf
    <3>5. UsedBytes(cache') = 0
      BY <3>4, FS_EmptySet DEF UsedBytes, BytesOf
    <3>6. NodeSize(f) <= CacheSize
      BY <1>2, <1>3
    <3> QED
      BY <3>5, <3>6, <2>2, <1>4
  <2> QED
    BY <1>1, <1>3, <2>2, <2>3, <2>4 DEF Frees
<1>6. UsedBytes(cache)' = UsedBytes(cache')
  BY <1>2 DEF UsedBytes
<1>7. UsedBytes(cache)' <= CacheSize
  BY <1>4, <1>5, <1>6, CacheAssumption
<1>8. UsedBytes(cache)' + SizeOf[f][info[f]] <= CacheSize
  BY <1>4, <1>5, <1>6, CacheAssumption
<1>9. RoomMade'
  BY <1>2, <1>3, <1>8 DEF RoomMade
<1> QED
  BY <1>2, <1>7, <1>9 DEF RoomInv, RowsWithinSize

LEMMA FilesRoom ==
    ASSUME CacheForm, RoomInv, FreeFiles \/ cp_remote_to_read_cache
    PROVE  RoomInv'
<1>1. UNCHANGED <<info, cache, node>> /\ reader.pc \in {"free files", "copy"}
  BY DEF FreeFiles, cp_remote_to_read_cache
<1>2. CASE reader' = Idle
  <2>1. reader'.pc = "idle"
    BY <1>2 DEF Idle
  <2> QED
    BY <2>1, <1>1, SameRoom
<1>3. CASE reader' = [reader EXCEPT !.pc = "copy", !.victims = {}]
           \/ reader' = [reader EXCEPT !.pc = "update"]
  <2>1. reader'.file = reader.file /\ reader'.pc \in {"copy", "update"}
    BY <1>3 DEF CacheForm, ReaderForm
  <2>2. RoomMade' /\ RowsWithinSize'
    BY <1>1, <2>1 DEF RoomInv, RoomMade, RowsWithinSize, UsedBytes
  <2> QED
    BY <2>1, <2>2 DEF RoomInv
<1> QED
  BY <1>2, <1>3 DEF FreeFiles, cp_remote_to_read_cache

LEMMA UpdateRoom ==
    ASSUME CacheForm, BackedInv, RoomInv, update_read_cache
    PROVE  RoomInv'
<1>1. UNCHANGED <<info, node>> /\ reader.file \in File /\ reader.pc = "update"
  BY DEF update_read_cache, CacheForm, ReaderForm, Reading
<1>2. reader'.pc = "idle"
  BY DEF update_read_cache, Idle
<1>3. CASE reader.file \in ToSet(cache)
  BY <1>1, <1>2, <1>3, SameRoom DEF update_read_cache, is_file_in_read_cache
<1>4. CASE reader.file \notin ToSet(cache)
  <2>1. PICK f \in File : f = reader.file
    BY <1>1
  <2>2. cache' = Append(cache, f) /\ RoomMade
    BY <1>1, <1>4, <2>1 DEF update_read_cache, is_file_in_read_cache, RoomInv
  <2>3. ToSet(cache') = ToSet(cache) \cup {f}
    BY <1>4, <2>1, <2>2, Appended DEF CacheForm
  <2>4. Index(info)
    BY DEF CacheForm, IndexForm
  <2>5. PICK S : S = ToSet(cache)
    OBVIOUS
  <2>6. S \in SUBSET File
    BY <2>5, UsedType
  <2>7. Cardinality(BytesOf(info, S \cup {f})) <= Cardinality(BytesOf(info, S)) + SizeOf[f][info[f]]
    BY <2>4, <2>6, BytesOfOneMore
  <2>8. Cardinality(BytesOf(info, S \cup {f})) \in Nat
    BY <2>4, <2>6, BytesType
  <2>9. UsedBytes(cache)' = Cardinality(BytesOf(info, S \cup {f}))
    BY <1>1, <2>3, <2>5 DEF UsedBytes, BytesOf
  <2>10. UsedBytes(cache) = Cardinality(BytesOf(info, S)) /\ UsedBytes(cache) \in Nat
         /\ CacheSize \in Nat /\ SizeOf[f][info[f]] \in Nat
    BY <2>5, UsedType
  <2>11. UsedBytes(cache) + SizeOf[f][info[f]] <= CacheSize
    BY <2>1, <2>2 DEF RoomMade
  <2>12. UsedBytes(cache)' <= CacheSize
    BY <2>7, <2>8, <2>9, <2>10, <2>11
  <2> QED
    BY <1>2, <2>12 DEF RoomInv, RowsWithinSize
<1> QED
  BY <1>3, <1>4

LEMMA RoomStep ==
    ASSUME NoGrowth, CacheForm, BackedInv, RoomInv, [Next]_vars
    PROVE  RoomInv'
<1>1. CASE \E f \in File : \E kind \in Announcement : Change(f, kind)
  BY <1>1, ChangeRoom
<1>2. CASE \E f \in File : CopyToRemote(f) \/ Locate(f)
  BY <1>2, SameRoom DEF CopyToRemote, Locate
<1>3. CASE \E f \in File : read_mem(f)
  BY <1>3, ReadRoom
<1>4. CASE Refresh
  BY <1>4, SameRoom DEF Refresh
<1>5. CASE Crash
  <2>1. reader'.pc = "idle"
    BY <1>5 DEF Crash, Idle
  <2> QED
    BY <1>5, <2>1, SameRoom DEF Crash
<1>6. CASE UNCHANGED vars
  BY <1>6, SameRoom DEF vars
<1> QED
  BY <1>1, <1>2, <1>3, <1>4, <1>5, <1>6, FreeRoom, FilesRoom, UpdateRoom DEF Next

(* RowsWithinSize where files do not grow: the subtraction in              *)
(* free_read_cache never underflows, however stale the nodes are and       *)
(* whatever is read, changed and uploaded in between.                      *)
THEOREM CacheWithinSize == ASSUME NoGrowth PROVE Spec => []RowsWithinSize
<1>1. Init => CacheForm /\ BackedInv /\ RoomInv
  <2>1. SUFFICES ASSUME Init PROVE CacheForm /\ BackedInv /\ RoomInv
    OBVIOUS
  <2>2. CacheForm /\ BackedInv
    BY <2>1, InitialForm
  <2>3. ToSet(cache) = {} /\ reader.pc = "idle"
    BY <2>1, EmptyDistinct DEF Init, Idle
  <2>4. BytesOf(info, ToSet(cache)) = {}
    BY <2>3 DEF BytesOf
  <2>5. UsedBytes(cache) = 0
    BY <2>4, FS_EmptySet DEF UsedBytes, BytesOf
  <2> QED
    BY <2>2, <2>3, <2>5, CacheAssumption DEF RoomInv, RowsWithinSize
<1>2. CacheForm /\ BackedInv /\ RoomInv /\ [Next]_vars => CacheForm' /\ BackedInv' /\ RoomInv'
  BY BackedStep, RoomStep
<1>3. RoomInv => RowsWithinSize
  BY DEF RoomInv
<1> QED
  BY <1>1, <1>2, <1>3, PTL DEF Spec
=============================================================================
