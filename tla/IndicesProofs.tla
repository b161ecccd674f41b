--------------------------- MODULE IndicesProofs ---------------------------
(***************************************************************************)
(* Proofs about the indices, for any peers, names, clocks and bounds: the  *)
(* agreement of memory and database, that messages in any order take no    *)
(* file back, and that once they are handled no file is missing.           *)
(***************************************************************************)
EXTENDS Indices, WellFoundedInduction, TLAPS

(* Version vectors that occur: not empty, with bounded ids and values.     *)
Below(v, b) == \A c \in v : c[1] <= b /\ c[2] <= b
Vector == {v \in SUBSET (Nat \X Nat) : v # {} /\ \E b \in Nat : Below(v, b)}
FileInfo == [version : Vector, modified : Nat, deleted : BOOLEAN]
Files == UNION {[S -> FileInfo] : S \in SUBSET Name}

-----------------------------------------------------------------------------
(* Every non-empty set of naturals below a bound has a largest element.    *)
LEMMA LargestNatural ==
    ASSUME NEW T \in SUBSET Nat, T # {}, NEW b \in Nat, \A m \in T : m <= b
    PROVE  \E n \in T : \A m \in T : m <= n
<1> DEFINE U == {x \in Nat : \A m \in T : m <= x}
<1>1. PICK u \in U : \A x \in U : ~ (<<x, u>> \in OpToRel(<, Nat))
  <2>1. b \in U /\ U \subseteq Nat
    OBVIOUS
  <2> QED
    BY <2>1, NatLessThanWellFounded, WFMin
<1>2. \A x \in U : ~ (x < u)
  BY <1>1 DEF OpToRel
<1>3. u \in T
  <2> SUFFICES ASSUME u \notin T PROVE FALSE
    OBVIOUS
  <2>1. PICK m \in T : TRUE
    OBVIOUS
  <2>2. \A x \in T : x < u
    OBVIOUS
  <2>3. u - 1 \in Nat
    BY <2>1, <2>2
  <2>4. u - 1 \in U
    BY <2>2, <2>3
  <2> QED
    BY <1>2, <2>4
<1> QED
  BY <1>3

(* A version vector has a largest counter.                                 *)
Largest(v, c) == c \in v /\ \A e \in v : c[2] > e[2] \/ (c[2] = e[2] /\ c[1] >= e[1])

LEMMA MaxCounter ==
    ASSUME NEW v \in Vector
    PROVE  /\ Largest(v, max_counter(v))
           /\ max_counter(v)[1] \in Nat /\ max_counter(v)[2] \in Nat
<1>1. PICK b \in Nat : Below(v, b)
  BY DEF Vector
<1>2. v \subseteq Nat \X Nat /\ v # {}
  BY DEF Vector
<1> DEFINE T == {c[2] : c \in v}
<1>3. T \in SUBSET Nat /\ T # {} /\ \A m \in T : m <= b
  BY <1>1, <1>2 DEF Below
<1>4. PICK n \in T : \A m \in T : m <= n
  BY <1>3, LargestNatural
<1> DEFINE I == {c[1] : c \in {c \in v : c[2] = n}}
<1>5. I \in SUBSET Nat /\ I # {} /\ \A m \in I : m <= b
  BY <1>1, <1>2, <1>4 DEF Below
<1>6. PICK i \in I : \A m \in I : m <= i
  BY <1>5, LargestNatural
<1>7. PICK c \in v : c[1] = i /\ c[2] = n
  BY <1>6
<1>8. \A e \in v : e[1] \in Nat /\ e[2] \in Nat
  BY <1>2
<1>9. \A e \in v : c[2] > e[2] \/ (c[2] = e[2] /\ c[1] >= e[1])
  <2> SUFFICES ASSUME NEW e \in v PROVE c[2] > e[2] \/ (c[2] = e[2] /\ c[1] >= e[1])
    OBVIOUS
  <2>1. e[2] <= n
    BY <1>4
  <2>2. e[2] = n => e[1] <= i
    BY <1>6
  <2> QED
    BY <1>7, <1>8, <2>1, <2>2
<1>10. Largest(v, max_counter(v))
  BY <1>7, <1>9 DEF max_counter, Largest
<1> QED
  BY <1>8, <1>10 DEF Largest

(* A counter that is the largest is the one that max_counter finds.        *)
LEMMA LargestUnique ==
    ASSUME NEW v \in Vector, NEW c, Largest(v, c)
    PROVE  max_counter(v) = c
<1> DEFINE m == max_counter(v)
<1>1. Largest(v, m)
  BY MaxCounter
<1>2. m \in Nat \X Nat /\ c \in Nat \X Nat
  BY <1>1 DEF Largest, Vector
<1> HIDE DEF m
<1>3. /\ m[2] > c[2] \/ (m[2] = c[2] /\ m[1] >= c[1])
      /\ c[2] > m[2] \/ (c[2] = m[2] /\ c[1] >= m[1])
  BY <1>1 DEF Largest
<1>4. m[1] \in Nat /\ m[2] \in Nat /\ c[1] \in Nat /\ c[2] \in Nat
  BY <1>2
<1>5. m[1] = c[1] /\ m[2] = c[2]
  BY <1>3, <1>4
<1>6. m = <<m[1], m[2]>> /\ c = <<c[1], c[2]>>
  BY <1>2
<1> QED
  BY <1>5, <1>6 DEF m

(* Value is the largest value that a vector has for an id.                 *)
LEMMA ValueOf ==
    ASSUME NEW v \in Vector, NEW id
    PROVE  /\ Value(v, id) \in Nat
           /\ \A c \in v : c[1] = id => c[2] <= Value(v, id) /\ <<id, Value(v, id)>> \in v
           /\ (\A c \in v : c[1] # id) => Value(v, id) = 0
<1> DEFINE T == {c[2] : c \in {c \in v : c[1] = id}}
<1>1. PICK b \in Nat : Below(v, b)
  BY DEF Vector
<1>2. v \subseteq Nat \X Nat
  BY DEF Vector
<1>3. CASE T = {}
  BY <1>3 DEF Value
<1>4. CASE T # {}
  <2>1. T \in SUBSET Nat /\ \A m \in T : m <= b
    BY <1>1, <1>2 DEF Below
  <2>2. PICK n \in T : \A m \in T : m <= n
    BY <1>4, <2>1, LargestNatural
  <2>3. n \in Nat /\ \A m \in T : n >= m
    BY <2>1, <2>2
  <2>4. Value(v, id) \in T /\ \A m \in T : Value(v, id) >= m
    BY <1>4, <2>2, <2>3 DEF Value
  <2>5. PICK c \in v : c[1] = id /\ c[2] = Value(v, id)
    BY <2>4
  <2>6. c = <<id, Value(v, id)>>
    BY <1>2, <2>5
  <2>7. \A e \in v : e[1] = id => e[2] \in T
    OBVIOUS
  <2> QED
    BY <2>1, <2>4, <2>5, <2>6, <2>7
<1> QED
  BY <1>3, <1>4

-----------------------------------------------------------------------------
(* The value by which the handlers compare versions.                       *)
Top(v) == max_counter(v)[2]

LEMMA TopOf ==
    ASSUME NEW v \in Vector
    PROVE  /\ Top(v) \in Nat
           /\ \A c \in v : c[2] <= Top(v)
           /\ \E c \in v : c[2] = Top(v)
<1>1. \A c \in v : c[2] \in Nat
  BY DEF Vector
<1> QED
  BY <1>1, MaxCounter DEF Top, Largest

LEMMA CompareTop ==
    ASSUME NEW a, NEW b, a.version \in Vector, b.version \in Vector
    PROVE  /\ partial_cmp_file_version(a, b) = "Less" <=> Top(a.version) < Top(b.version)
           /\ partial_cmp_file_version(a, b) # "Less" <=> Top(a.version) >= Top(b.version)
BY TopOf DEF Top, partial_cmp_file_version

(* The counters that insert_file_info keeps do not change the largest one. *)
LEMMA VectorUnion ==
    ASSUME NEW v \in Vector, NEW w \in Vector
    PROVE  /\ v \union w \in Vector
           /\ Top(v \union w) >= Top(v) /\ Top(v \union w) >= Top(w)
           /\ Top(w) < Top(v) => max_counter(v \union w) = max_counter(v)
<1>1. v \union w \in Vector
  <2>1. PICK b \in Nat : Below(v, b)
    BY DEF Vector
  <2>2. PICK a \in Nat : Below(w, a)
    BY DEF Vector
  <2>3. \A c \in v \union w : c[1] \in Nat /\ c[2] \in Nat
    BY DEF Vector
  <2>4. \A c \in v : c[1] <= b + a /\ c[2] <= b + a
    BY <2>1, <2>3 DEF Below
  <2>5. \A c \in w : c[1] <= b + a /\ c[2] <= b + a
    BY <2>2, <2>3 DEF Below
  <2>6. Below(v \union w, b + a) /\ b + a \in Nat
    BY <2>4, <2>5 DEF Below
  <2> QED
    BY <2>6 DEF Vector
<1>2. Top(v \union w) >= Top(v) /\ Top(v \union w) >= Top(w)
  <2>1. PICK c \in v : c[2] = Top(v)
    BY TopOf
  <2>2. PICK e \in w : e[2] = Top(w)
    BY TopOf
  <2>3. c[2] <= Top(v \union w) /\ e[2] <= Top(v \union w) /\ Top(v \union w) \in Nat
    BY <1>1, TopOf
  <2> QED
    BY <2>1, <2>2, <2>3, TopOf
<1>3. ASSUME Top(w) < Top(v) PROVE max_counter(v \union w) = max_counter(v)
  <2>1. Largest(v, max_counter(v)) /\ max_counter(v)[2] = Top(v)
    BY MaxCounter DEF Top
  <2>2. \A e \in w : Top(v) > e[2]
    <3>1. \A e \in w : e[2] \in Nat /\ e[2] <= Top(w)
      BY TopOf DEF Vector
    <3> QED
      BY <1>3, <3>1, TopOf
  <2>3. Largest(v \union w, max_counter(v))
    BY <2>1, <2>2 DEF Largest
  <2> QED
    BY <1>1, <2>3, LargestUnique
<1> QED
  BY <1>1, <1>2, <1>3

(* A version with a larger counter, or with all the counters, is not       *)
(* before another.                                                         *)
LEMMA NotBefore ==
    ASSUME NEW v \in Vector, NEW w \in Vector, w \subseteq v \/ Top(w) < Top(v)
    PROVE  ~Before(v, w)
<1>1. CASE w \subseteq v
  <2>1. \A c \in w : c[2] \in Nat /\ c[2] <= Value(v, c[1]) /\ Value(v, c[1]) \in Nat
    BY <1>1, ValueOf DEF Vector
  <2> QED
    BY <2>1 DEF Before, Descends
<1>2. CASE Top(w) < Top(v)
  <2>1. PICK c \in v : c[2] = Top(v)
    BY TopOf
  <2>2. Value(w, c[1]) <= Top(w) /\ Value(w, c[1]) \in Nat
    <3>1. \/ Value(w, c[1]) = 0
          \/ <<c[1], Value(w, c[1])>> \in w
      BY ValueOf
    <3>2. <<c[1], Value(w, c[1])>>[2] = Value(w, c[1])
      OBVIOUS
    <3> QED
      BY <3>1, <3>2, TopOf, ValueOf
  <2>3. ~(Value(w, c[1]) >= c[2])
    BY <1>2, <2>1, <2>2, TopOf
  <2> QED
    BY <2>3 DEF Before, Descends
<1> QED
  BY <1>1, <1>2

(* A change of a file at a peer gives it a larger largest counter, and     *)
(* taking over a file no smaller one.                                      *)
LEMMA BumpedVector ==
    ASSUME NEW v \in Vector \union {{}}, NEW d \in Nat
    PROVE  /\ Bumped(d, v) \in Vector
           /\ v # {} => Top(Bumped(d, v)) >= Top(v)
<1> DEFINE largest == IF v = {} THEN 0 ELSE max_counter(v)[2]
           new == <<d, largest + 1>>
<1>1. largest \in Nat /\ \A c \in v : c[1] \in Nat /\ c[2] \in Nat /\ c[2] <= largest
  BY TopOf DEF Top, Vector
<1>2. PICK b \in Nat : Below(v, b)
  BY DEF Vector, Below
<1>3. Bumped(d, v) = {c \in v : c[1] # d} \union {new}
  BY DEF Bumped
<1>4. new \in Nat \X Nat /\ new[1] = d /\ new[2] = largest + 1
  BY <1>1
<1> HIDE DEF new, largest
<1>5. Bumped(d, v) \subseteq Nat \X Nat
  BY <1>3, <1>4 DEF Vector
<1>6. Below(Bumped(d, v), b + d + largest + 1)
  <2> SUFFICES ASSUME NEW c \in Bumped(d, v)
               PROVE  c[1] <= b + d + largest + 1 /\ c[2] <= b + d + largest + 1
    BY DEF Below
  <2>1. CASE c \in v
    BY <1>1, <1>2, <2>1 DEF Below
  <2>2. CASE c = new
    BY <1>1, <1>4, <2>2
  <2> QED
    BY <1>3, <2>1, <2>2
<1>7. Bumped(d, v) \in Vector
  <2>1. b + d + largest + 1 \in Nat
    BY <1>1
  <2> QED
    BY <1>3, <1>5, <1>6, <2>1 DEF Vector
<1>8. v # {} => Top(Bumped(d, v)) >= Top(v)
  <2>1. new[2] <= Top(Bumped(d, v)) /\ Top(Bumped(d, v)) \in Nat
    BY <1>3, <1>7, TopOf
  <2>2. v # {} => Top(v) = largest
    BY DEF Top, largest
  <2> QED
    BY <1>1, <1>4, <2>1, <2>2
<1> QED
  BY <1>7, <1>8

MergedVector(v) == {<<i, Value(v, i)>> : i \in {c[1] : c \in v}}

LEMMA MergedVectorIs ==
    ASSUME NEW v \in Vector
    PROVE  MergedVector(v) \in Vector /\ Top(MergedVector(v)) >= Top(v)
<1>1. PICK b \in Nat : Below(v, b)
  BY DEF Vector
<1>2. MergedVector(v) \subseteq v
  <2> SUFFICES ASSUME NEW c \in v PROVE <<c[1], Value(v, c[1])>> \in v
    BY DEF MergedVector
  <2> QED
    BY ValueOf
<1>3. \A c \in v : <<c[1], Value(v, c[1])>> \in MergedVector(v)
  BY DEF MergedVector
<1>4. MergedVector(v) # {}
  BY <1>3 DEF Vector
<1>5. MergedVector(v) \in Vector
  BY <1>1, <1>2, <1>4 DEF Vector, Below
<1>6. PICK c \in v : c[2] = Top(v)
  BY TopOf
<1>7. c[2] <= Value(v, c[1]) /\ Value(v, c[1]) \in Nat
  BY ValueOf
<1>8. <<c[1], Value(v, c[1])>>[2] <= Top(MergedVector(v))
  BY <1>3, <1>5, TopOf
<1>9. Value(v, c[1]) <= Top(MergedVector(v)) /\ Top(MergedVector(v)) \in Nat
  BY <1>5, <1>8, TopOf
<1> QED
  BY <1>5, <1>6, <1>7, <1>9, TopOf

-----------------------------------------------------------------------------
(* Indices as functions from names to files.                               *)
LEMMA FilesIs ==
    ASSUME NEW x
    PROVE  x \in Files <=> /\ x = [n \in DOMAIN x |-> x[n]]
                           /\ DOMAIN x \subseteq Name
                           /\ \A n \in DOMAIN x : x[n] \in FileInfo
BY DEF Files

LEMMA NoFilesIs == NoFiles \in Files /\ DOMAIN NoFiles = {}
BY DEF NoFiles, Files

LEMMA NotLoadedIs == NotLoaded \notin Files
<1> SUFFICES ASSUME NotLoaded \in Files PROVE FALSE
  OBVIOUS
<1>1. PICK S \in SUBSET Name : NotLoaded \in [S -> FileInfo]
  BY DEF Files
<1>2. FileInfo \subseteq [version : SUBSET (Nat \X Nat), modified : Nat, deleted : BOOLEAN]
  BY DEF FileInfo, Vector
<1>3. NotLoaded \in [S -> [version : SUBSET (Nat \X Nat), modified : Nat, deleted : BOOLEAN]]
  BY <1>1, <1>2
<1> QED
  BY <1>3, IndicesAssumption

LEMMA WithIs ==
    ASSUME NEW files \in Files, NEW news \in Files
    PROVE  /\ With(files, news) \in Files
           /\ DOMAIN With(files, news) = DOMAIN files \union DOMAIN news
           /\ \A n \in DOMAIN news : With(files, news)[n] = news[n]
           /\ \A n \in DOMAIN files \ DOMAIN news : With(files, news)[n] = files[n]
<1> DEFINE w == With(files, news)
<1>1. /\ w = [n \in DOMAIN files \union DOMAIN news |->
                IF n \in DOMAIN news THEN news[n] ELSE files[n]]
  BY DEF With
<1>2. /\ DOMAIN files \subseteq Name /\ \A n \in DOMAIN files : files[n] \in FileInfo
      /\ DOMAIN news \subseteq Name /\ \A n \in DOMAIN news : news[n] \in FileInfo
  BY FilesIs
<1> HIDE DEF w
<1>3. w \in [DOMAIN files \union DOMAIN news -> FileInfo]
  BY <1>1, <1>2
<1>4. w \in Files
  BY <1>2, <1>3 DEF Files
<1> QED
  BY <1>1, <1>4 DEF w

LEMMA WithoutIs ==
    ASSUME NEW files \in Files, NEW S
    PROVE  /\ Without(files, S) \in Files
           /\ DOMAIN Without(files, S) = DOMAIN files \ S
           /\ \A n \in DOMAIN files \ S : Without(files, S)[n] = files[n]
<1> DEFINE w == Without(files, S)
<1>1. w = [n \in DOMAIN files \ S |-> files[n]]
  BY DEF Without
<1>2. DOMAIN files \subseteq Name /\ \A n \in DOMAIN files : files[n] \in FileInfo
  BY FilesIs
<1> HIDE DEF w
<1>3. w \in [DOMAIN files \ S -> FileInfo]
  BY <1>1, <1>2
<1>4. w \in Files
  BY <1>2, <1>3 DEF Files
<1> QED
  BY <1>1, <1>4 DEF w

LEMMA KeptIs ==
    ASSUME NEW news \in Files
    PROVE  /\ Kept(news) \in Files
           /\ DOMAIN Kept(news) = {n \in DOMAIN news : ~news[n].deleted}
           /\ \A n \in DOMAIN Kept(news) : Kept(news)[n] = news[n]
<1>1. PICK S : S = {n \in DOMAIN news : news[n].deleted}
  OBVIOUS
<1>2. Kept(news) = Without(news, S) /\ DOMAIN news \ S = {n \in DOMAIN news : ~news[n].deleted}
  BY <1>1 DEF Kept
<1>3. /\ Without(news, S) \in Files
      /\ DOMAIN Without(news, S) = DOMAIN news \ S
      /\ \A n \in DOMAIN news \ S : Without(news, S)[n] = news[n]
  BY WithoutIs
<1> QED
  BY <1>2, <1>3

LEMMA OneFile ==
    ASSUME NEW n \in Name, NEW f \in FileInfo
    PROVE  /\ [x \in {n} |-> f] \in Files /\ DOMAIN [x \in {n} |-> f] = {n}
           /\ [x \in {n} |-> f][n] = f
<1>1. [x \in {n} |-> f] \in [{n} -> FileInfo]
  OBVIOUS
<1> QED
  BY <1>1 DEF Files

(* The files of an index that are newer than the existing ones.            *)
LEMMA NewlyAddedIs ==
    ASSUME NEW added \in Files, NEW existing \in Files
    PROVE  LET news == NewlyAdded(added, existing)
           IN  /\ news \in Files /\ DOMAIN news \subseteq DOMAIN added
               /\ \A n \in DOMAIN news : news[n] = added[n]
               /\ \A n \in DOMAIN news \intersect DOMAIN existing :
                    Top(existing[n].version) < Top(added[n].version)
               /\ \A n \in DOMAIN added \ DOMAIN news :
                    n \in DOMAIN existing /\ Top(existing[n].version) >= Top(added[n].version)
<1> DEFINE D == {n \in DOMAIN added : n \in DOMAIN existing =>
                   partial_cmp_file_version(existing[n], added[n]) = "Less"}
           news == NewlyAdded(added, existing)
<1>1. news = [n \in D |-> added[n]]
  BY DEF NewlyAdded
<1>2. /\ DOMAIN added \subseteq Name /\ \A n \in DOMAIN added : added[n] \in FileInfo
      /\ \A n \in DOMAIN existing : existing[n] \in FileInfo
  BY FilesIs
<1>3. \A n \in DOMAIN added \intersect DOMAIN existing :
        added[n].version \in Vector /\ existing[n].version \in Vector
  BY <1>2 DEF FileInfo
<1>4. \A n \in DOMAIN added \intersect DOMAIN existing :
        /\ n \in D => Top(existing[n].version) < Top(added[n].version)
        /\ n \notin D => Top(existing[n].version) >= Top(added[n].version)
  BY <1>3, CompareTop
<1>5. D \subseteq DOMAIN added /\ \A n \in DOMAIN added : n \notin D => n \in DOMAIN existing
  OBVIOUS
<1> HIDE DEF D
<1>6. news \in [D -> FileInfo] /\ DOMAIN news = D
  BY <1>1, <1>2, <1>5
<1>7. news \in Files
  BY <1>2, <1>5, <1>6 DEF Files
<1> HIDE DEF news
<1>8. \A n \in DOMAIN news : news[n] = added[n]
  BY <1>1, <1>6
<1> QED
  BY <1>4, <1>5, <1>6, <1>7, <1>8 DEF news

-----------------------------------------------------------------------------
(* The rows and the memory, and what the operations of BepState do to them.*)
State == [rows : [Device -> Files], cache : [Device -> Files \union {NotLoaded}]]

Update(s, d, files, mem) == [s EXCEPT !.rows[d] = files, !.cache[d] = mem]
IsUpdate(r, s, d, files, mem) ==
    /\ r \in State /\ r.rows[d] = files /\ r.cache[d] = mem
    /\ \A e \in Device : e # d => r.rows[e] = s.rows[e] /\ r.cache[e] = s.cache[e]

LEMMA Updated ==
    ASSUME NEW s \in State, NEW d \in Device, NEW files \in Files, NEW mem \in Files
    PROVE  IsUpdate(Update(s, d, files, mem), s, d, files, mem)
<1> DEFINE rows == [s.rows EXCEPT ![d] = files]
           cache == [s.cache EXCEPT ![d] = mem]
<1>1. s.rows \in [Device -> Files] /\ s.cache \in [Device -> Files \union {NotLoaded}]
  BY DEF State
<1>2. Update(s, d, files, mem) = [rows |-> rows, cache |-> cache]
  <2>1. PICK r : r = Update(s, d, files, mem)
    OBVIOUS
  <2>2. r = [rows |-> rows, cache |-> cache]
    BY <2>1 DEF State, Update
  <2> QED
    BY <2>1, <2>2
<1>3. /\ rows \in [Device -> Files] /\ cache \in [Device -> Files \union {NotLoaded}]
      /\ rows[d] = files /\ cache[d] = mem
      /\ \A e \in Device : e # d => rows[e] = s.rows[e] /\ cache[e] = s.cache[e]
  BY <1>1
<1> HIDE DEF rows, cache
<1>4. PICK r : r = [rows |-> rows, cache |-> cache]
  OBVIOUS
<1>5. IsUpdate(r, s, d, files, mem)
  BY <1>3, <1>4 DEF State, IsUpdate
<1> QED
  BY <1>2, <1>4, <1>5

LEMMA IndexIs ==
    ASSUME NEW s \in State, NEW d \in Device
    PROVE  /\ index(s, d) \in State /\ index(s, d).rows = s.rows
           /\ index(s, d).cache[d] \in Files
           /\ index(s, d).cache[d] = IF s.cache[d] = NotLoaded THEN s.rows[d] ELSE s.cache[d]
           /\ \A e \in Device : e # d => index(s, d).cache[e] = s.cache[e]
<1> DEFINE cache == [s.cache EXCEPT ![d] = s.rows[d]]
<1>1. s.rows \in [Device -> Files] /\ s.cache \in [Device -> Files \union {NotLoaded}]
  BY DEF State
<1>2. CASE s.cache[d] = NotLoaded
  <2>1. /\ cache \in [Device -> Files \union {NotLoaded}] /\ cache[d] = s.rows[d]
        /\ \A e \in Device : e # d => cache[e] = s.cache[e]
    BY <1>1
  <2>2. index(s, d) = [rows |-> s.rows, cache |-> cache]
    BY <1>2 DEF index, State
  <2> HIDE DEF cache
  <2> QED
    BY <1>1, <1>2, <2>1, <2>2 DEF State
<1>3. CASE s.cache[d] # NotLoaded
  BY <1>1, <1>3 DEF index
<1> QED
  BY <1>2, <1>3

LEMMA ReplaceIs ==
    ASSUME NEW s \in State, NEW d \in Device, NEW files \in Files
    PROVE  IsUpdate(replace_index(s, d, files), s, d, files, files)
<1>1. replace_index(s, d, files) = Update(s, d, files, files)
  BY DEF replace_index, Update
<1> QED
  BY <1>1, Updated

LEMMA InMemoryIs ==
    ASSUME NEW s \in State, NEW d \in Device
    PROVE  /\ InMemory(s, d) \in Files
           /\ s.cache[d] # NotLoaded => InMemory(s, d) = s.cache[d]
           /\ s.cache[d] = NotLoaded => InMemory(s, d) = NoFiles
BY NoFilesIs DEF InMemory, State

(* insert_file_info: the new files with the counters of the old.           *)
Inserted(r, s, d, news) ==
    /\ r \in State
    /\ r.cache[d] = With(InMemory(s, d), news)
    /\ \A e \in Device : e # d => r.rows[e] = s.rows[e] /\ r.cache[e] = s.cache[e]
    /\ DOMAIN r.rows[d] = DOMAIN s.rows[d] \union DOMAIN news
    /\ \A n \in DOMAIN s.rows[d] \ DOMAIN news : r.rows[d][n] = s.rows[d][n]
    /\ \A n \in DOMAIN news \ DOMAIN s.rows[d] : r.rows[d][n] = news[n]
    /\ \A n \in DOMAIN news \intersect DOMAIN s.rows[d] :
         /\ r.rows[d][n].version = news[n].version \union s.rows[d][n].version
         /\ r.rows[d][n].modified = news[n].modified
         /\ r.rows[d][n].deleted = news[n].deleted

LEMMA InsertIs ==
    ASSUME NEW s \in State, NEW d \in Device, NEW news \in Files
    PROVE  Inserted(insert_file_info(s, d, news), s, d, news)
<1>a. PICK old : old = s.rows[d]
  OBVIOUS
<1>b. PICK merged : merged = [n \in DOMAIN news |->
                 IF n \in DOMAIN old
                 THEN [news[n] EXCEPT !.version = @ \union old[n].version]
                 ELSE news[n]]
  OBVIOUS
<1>c. PICK mem : mem = With(InMemory(s, d), news)
  OBVIOUS
<1>d. PICK all : all = With(old, merged)
  OBVIOUS
<1>e. PICK r : r = insert_file_info(s, d, news)
  OBVIOUS
<1>1. r = Update(s, d, all, mem)
  BY <1>a, <1>b, <1>c, <1>d, <1>e DEF insert_file_info, Update
<1>2. old \in Files
  BY <1>a DEF State
<1>3. /\ \A n \in DOMAIN old : old[n] \in FileInfo
      /\ DOMAIN news \subseteq Name /\ \A n \in DOMAIN news : news[n] \in FileInfo
  BY <1>2, FilesIs
<1>4. ASSUME NEW n \in DOMAIN news, n \in DOMAIN old
      PROVE  /\ merged[n] \in FileInfo
             /\ merged[n].version = news[n].version \union old[n].version
             /\ merged[n].modified = news[n].modified
             /\ merged[n].deleted = news[n].deleted
  <2>1. news[n] \in FileInfo /\ old[n].version \in Vector /\ news[n].version \in Vector
    BY <1>3, <1>4 DEF FileInfo
  <2>2. news[n].version \union old[n].version \in Vector
    BY <2>1, VectorUnion
  <2>3. merged[n] = [news[n] EXCEPT !.version = news[n].version \union old[n].version]
    BY <1>4, <1>b
  <2> QED
    BY <2>1, <2>2, <2>3 DEF FileInfo
<1>5. \A n \in DOMAIN news \ DOMAIN old : merged[n] = news[n]
  BY <1>b
<1>6. DOMAIN merged = DOMAIN news /\ merged = [n \in DOMAIN merged |-> merged[n]]
  BY <1>b
<1>7. merged \in Files
  <2>1. \A n \in DOMAIN merged : merged[n] \in FileInfo
    BY <1>3, <1>4, <1>5, <1>6
  <2> QED
    BY <1>3, <1>6, <2>1, FilesIs
<1>8. mem \in Files
  BY <1>c, WithIs, InMemoryIs
<1>9. /\ all \in Files /\ DOMAIN all = DOMAIN old \union DOMAIN news
      /\ \A n \in DOMAIN news : all[n] = merged[n]
      /\ \A n \in DOMAIN old \ DOMAIN news : all[n] = old[n]
  <2>1. /\ With(old, merged) \in Files
        /\ DOMAIN With(old, merged) = DOMAIN old \union DOMAIN merged
        /\ \A n \in DOMAIN merged : With(old, merged)[n] = merged[n]
        /\ \A n \in DOMAIN old \ DOMAIN merged : With(old, merged)[n] = old[n]
    BY <1>2, <1>7, WithIs
  <2> QED
    BY <1>6, <1>d, <2>1
<1>10. /\ r \in State /\ r.cache[d] = mem /\ r.rows[d] = all
       /\ \A e \in Device : e # d => r.rows[e] = s.rows[e] /\ r.cache[e] = s.cache[e]
  <2>1. IsUpdate(r, s, d, all, mem)
    BY <1>1, <1>8, <1>9, Updated
  <2> QED
    BY <2>1 DEF IsUpdate
<1>11. Inserted(r, s, d, news)
  BY <1>4, <1>5, <1>9, <1>10, <1>a, <1>c DEF Inserted
<1> QED
  BY <1>11, <1>e

(* rm_replace_file_info: the new files that are not marked deleted.        *)
LEMMA RmReplaceIs ==
    ASSUME NEW s \in State, NEW d \in Device, NEW news \in Files
    PROVE  IsUpdate(rm_replace_file_info(s, d, news), s, d,
                    With(s.rows[d], Kept(news)), With(InMemory(s, d), Kept(news)))
<1>a. PICK all : all = With(s.rows[d], Kept(news))
  OBVIOUS
<1>b. PICK mem : mem = With(InMemory(s, d), Kept(news))
  OBVIOUS
<1>c. PICK r : r = rm_replace_file_info(s, d, news)
  OBVIOUS
<1>1. r = Update(s, d, all, mem)
  BY <1>a, <1>b, <1>c DEF rm_replace_file_info, Update
<1>2. s.rows[d] \in Files
  BY DEF State
<1>3. all \in Files /\ mem \in Files
  BY <1>2, <1>a, <1>b, KeptIs, WithIs, InMemoryIs
<1>4. IsUpdate(r, s, d, all, mem)
  BY <1>1, <1>3, Updated
<1> QED
  BY <1>4, <1>a, <1>b, <1>c

-----------------------------------------------------------------------------
(* CacheAgrees for one device, but for the names in S.                     *)
SameFile(c, r) ==
    /\ max_counter(c.version) = max_counter(r.version)
    /\ c.modified = r.modified /\ c.deleted = r.deleted
AgreeOn(c, r, n) == (n \in DOMAIN c <=> n \in DOMAIN r) /\ (n \in DOMAIN c => SameFile(c[n], r[n]))
AgreeOf(s, d, S) == s.cache[d] # NotLoaded => \A n \in Name \ S : AgreeOn(s.cache[d], s.rows[d], n)

LEMMA CacheAgreesIs ==
    CacheAgrees <=> \A d \in Device : AgreeOf(state, d, IF d = Local THEN apart ELSE {})
BY DEF CacheAgrees, AgreeOf, AgreeOn, SameFile

(* The row of a file of this device is no older than the file in memory,   *)
(* but for the names in S.                                                 *)
AheadOf(s, S) ==
    s.cache[Local] # NotLoaded =>
      \A n \in DOMAIN s.cache[Local] \ S :
        /\ n \in DOMAIN s.rows[Local]
        /\ Top(s.rows[Local][n].version) >= Top(s.cache[Local][n].version)

(* This device has a file in memory, with at least a largest counter.      *)
Has(s, n, k) ==
    /\ s.cache[Local] # NotLoaded /\ n \in DOMAIN s.cache[Local]
    /\ Top(s.cache[Local][n].version) >= k

(* A step that loses nothing of this device.                               *)
Keeps(s, r, S, T) ==
    /\ AgreeOf(s, Local, S) => AgreeOf(r, Local, S)
    /\ AheadOf(s, T) => AheadOf(r, T)
    /\ \A n \in Name : \A k \in Nat : Has(s, n, k) => Has(r, n, k)

(* Files that are newer than those in memory.                              *)
LocalNews(s, news) ==
    /\ news \in Files /\ s.cache[Local] # NotLoaded
    /\ \A n \in DOMAIN news \intersect DOMAIN s.cache[Local] :
         Top(s.cache[Local][n].version) < Top(news[n].version)

LEMMA LocalIsDevice == Local \in Device /\ \A d \in Peer : d \in Device /\ d # Local
BY IndicesAssumption DEF Device

LEMMA FileIs ==
    ASSUME NEW x \in Files, NEW n \in DOMAIN x
    PROVE  /\ n \in Name /\ x[n] \in FileInfo /\ x[n].version \in Vector
           /\ Top(x[n].version) \in Nat
BY FilesIs, TopOf DEF FileInfo

LEMMA AgreeIndex ==
    ASSUME NEW s \in State, NEW d \in Device, NEW e \in Device, NEW S, AgreeOf(s, e, S)
    PROVE  AgreeOf(index(s, d), e, S)
<1>1. PICK r : r = index(s, d)
  OBVIOUS
<1>2. /\ r.rows = s.rows
      /\ r.cache[d] = IF s.cache[d] = NotLoaded THEN s.rows[d] ELSE s.cache[d]
      /\ \A f \in Device : f # d => r.cache[f] = s.cache[f]
  BY <1>1, IndexIs
<1>3. AgreeOf(r, e, S)
  BY <1>2 DEF AgreeOf, AgreeOn, SameFile
<1> QED
  BY <1>1, <1>3

LEMMA KeepsIndex ==
    ASSUME NEW s \in State, NEW d \in Device, NEW S, NEW T
    PROVE  Keeps(s, index(s, d), S, T)
<1>1. PICK r : r = index(s, d)
  OBVIOUS
<1>2. /\ r.rows = s.rows /\ r.cache[d] \in Files
      /\ r.cache[d] = IF s.cache[d] = NotLoaded THEN s.rows[d] ELSE s.cache[d]
      /\ \A f \in Device : f # d => r.cache[f] = s.cache[f]
  BY <1>1, IndexIs
<1>3. AgreeOf(s, Local, S) => AgreeOf(r, Local, S)
  BY <1>1, AgreeIndex, LocalIsDevice
<1>4. AheadOf(s, T) => AheadOf(r, T)
  <2> SUFFICES ASSUME AheadOf(s, T) PROVE AheadOf(r, T)
    OBVIOUS
  <2>1. CASE r.cache[Local] = s.cache[Local]
    BY <1>2, <2>1 DEF AheadOf
  <2>2. CASE r.cache[Local] = s.rows[Local]
    <3>1. s.rows[Local] \in Files
      BY LocalIsDevice DEF State
    <3>2. \A n \in DOMAIN s.rows[Local] : Top(s.rows[Local][n].version) \in Nat
      BY <3>1, FileIs
    <3> QED
      BY <1>2, <2>2, <3>2 DEF AheadOf
  <2> QED
    BY <1>2, <2>1, <2>2, LocalIsDevice
<1>5. \A n \in Name : \A k \in Nat : Has(s, n, k) => Has(r, n, k)
  BY <1>2, LocalIsDevice DEF Has
<1> QED
  BY <1>1, <1>3, <1>4, <1>5 DEF Keeps

(* insert_file_info of newer files of this device.                         *)
InsertedLocal(r, s, news, S, T) ==
    /\ r \in State /\ Keeps(s, r, S, T)
    /\ \A e \in Peer : r.rows[e] = s.rows[e] /\ r.cache[e] = s.cache[e]
    /\ \A n \in DOMAIN news : Has(r, n, Top(news[n].version))
    /\ \A n \in DOMAIN s.rows[Local] :
         n \in DOMAIN r.rows[Local] /\ s.rows[Local][n].version \subseteq r.rows[Local][n].version
    /\ \A n \in DOMAIN r.rows[Local] \ DOMAIN news :
         n \in DOMAIN s.rows[Local] /\ r.rows[Local][n] = s.rows[Local][n]

LEMMA InsertLocal ==
    ASSUME NEW s \in State, NEW news, LocalNews(s, news), NEW S, NEW T
    PROVE  InsertedLocal(insert_file_info(s, Local, news), s, news, S, T)
<1>r. PICK r : r = insert_file_info(s, Local, news)
  OBVIOUS
<1>1. PICK c, old, new, now : c = s.cache[Local] /\ old = s.rows[Local]
        /\ new = r.cache[Local] /\ now = r.rows[Local]
  OBVIOUS
<1>2. /\ c \in Files /\ old \in Files /\ news \in Files /\ c # NotLoaded /\ Local \in Device
      /\ InMemory(s, Local) = c
  BY <1>1, LocalIsDevice, InMemoryIs DEF LocalNews, State
<1>3. /\ r \in State /\ new = With(c, news)
      /\ \A e \in Device : e # Local => r.rows[e] = s.rows[e] /\ r.cache[e] = s.cache[e]
      /\ DOMAIN now = DOMAIN old \union DOMAIN news
      /\ \A n \in DOMAIN old \ DOMAIN news : now[n] = old[n]
      /\ \A n \in DOMAIN news \ DOMAIN old : now[n] = news[n]
      /\ \A n \in DOMAIN news \intersect DOMAIN old :
           /\ now[n].version = news[n].version \union old[n].version
           /\ now[n].modified = news[n].modified
           /\ now[n].deleted = news[n].deleted
  <2>1. Inserted(r, s, Local, news)
    BY <1>2, <1>r, InsertIs
  <2> QED
    BY <1>1, <1>2, <2>1 DEF Inserted
<1>4. /\ new \in Files /\ DOMAIN new = DOMAIN c \union DOMAIN news
      /\ \A n \in DOMAIN news : new[n] = news[n]
      /\ \A n \in DOMAIN c \ DOMAIN news : new[n] = c[n]
  <2>1. /\ With(c, news) \in Files /\ DOMAIN With(c, news) = DOMAIN c \union DOMAIN news
        /\ \A n \in DOMAIN news : With(c, news)[n] = news[n]
        /\ \A n \in DOMAIN c \ DOMAIN news : With(c, news)[n] = c[n]
    BY <1>2, WithIs
  <2> QED
    BY <1>3, <2>1
<1>5. new # NotLoaded
  BY <1>4, NotLoadedIs
<1>6. /\ \A n \in DOMAIN c : c[n].version \in Vector /\ Top(c[n].version) \in Nat
      /\ \A n \in DOMAIN old : old[n].version \in Vector
      /\ \A n \in DOMAIN news : news[n].version \in Vector /\ Top(news[n].version) \in Nat
  BY <1>2, FileIs
<1>7. \A n \in DOMAIN news \intersect DOMAIN c : Top(c[n].version) < Top(news[n].version)
  BY <1>1 DEF LocalNews
<1>8. ASSUME AgreeOf(s, Local, S) PROVE AgreeOf(r, Local, S)
  <2> SUFFICES ASSUME NEW n \in Name \ S PROVE AgreeOn(new, now, n)
    BY <1>1 DEF AgreeOf
  <2>1. AgreeOn(c, old, n)
    BY <1>1, <1>2, <1>8 DEF AgreeOf
  <2>2. CASE n \notin DOMAIN news
    BY <1>3, <1>4, <2>1, <2>2 DEF AgreeOn, SameFile
  <2>3. CASE n \in DOMAIN news /\ n \notin DOMAIN old
    BY <1>3, <1>4, <2>3 DEF AgreeOn, SameFile
  <2>4. CASE n \in DOMAIN news /\ n \in DOMAIN old
    <3>1. n \in DOMAIN c /\ max_counter(c[n].version) = max_counter(old[n].version)
      BY <2>1, <2>4 DEF AgreeOn, SameFile
    <3>2. Top(old[n].version) < Top(news[n].version)
      BY <1>7, <2>4, <3>1 DEF Top
    <3>3. max_counter(news[n].version \union old[n].version) = max_counter(news[n].version)
      BY <1>6, <2>4, <3>2, VectorUnion
    <3> QED
      BY <1>3, <1>4, <2>4, <3>3 DEF AgreeOn, SameFile
  <2> QED
    BY <2>2, <2>3, <2>4
<1>9. ASSUME AheadOf(s, T) PROVE AheadOf(r, T)
  <2> SUFFICES ASSUME NEW n \in DOMAIN new \ T
               PROVE  n \in DOMAIN now /\ Top(now[n].version) >= Top(new[n].version)
    BY <1>1 DEF AheadOf
  <2>1. CASE n \notin DOMAIN news
    BY <1>1, <1>2, <1>3, <1>4, <1>9, <2>1 DEF AheadOf
  <2>2. CASE n \in DOMAIN news /\ n \notin DOMAIN old
    BY <1>3, <1>4, <1>6, <2>2
  <2>3. CASE n \in DOMAIN news /\ n \in DOMAIN old
    <3>1. Top(news[n].version \union old[n].version) >= Top(news[n].version)
      BY <1>6, <2>3, VectorUnion
    <3> QED
      BY <1>3, <1>4, <2>3, <3>1
  <2> QED
    BY <2>1, <2>2, <2>3
<1>10. ASSUME NEW n \in Name, NEW k \in Nat, Has(s, n, k) PROVE Has(r, n, k)
  <2>1. n \in DOMAIN c /\ Top(c[n].version) >= k
    BY <1>1, <1>10 DEF Has
  <2>2. n \in DOMAIN new /\ Top(new[n].version) >= k
    <3>1. CASE n \in DOMAIN news
      BY <1>4, <1>6, <1>7, <2>1, <3>1
    <3>2. CASE n \notin DOMAIN news
      BY <1>4, <2>1, <3>2
    <3> QED
      BY <3>1, <3>2
  <2> QED
    BY <1>1, <1>5, <2>2 DEF Has
<1>11. Keeps(s, r, S, T)
  BY <1>8, <1>9, <1>10 DEF Keeps
<1>12. \A n \in DOMAIN news : Has(r, n, Top(news[n].version))
  BY <1>1, <1>4, <1>5, <1>6 DEF Has
<1>13. \A n \in DOMAIN old : n \in DOMAIN now /\ old[n].version \subseteq now[n].version
  BY <1>3
<1>14. \A n \in DOMAIN now \ DOMAIN news : n \in DOMAIN old /\ now[n] = old[n]
  BY <1>3
<1>15. InsertedLocal(r, s, news, S, T)
  BY <1>1, <1>3, <1>11, <1>12, <1>13, <1>14, LocalIsDevice DEF InsertedLocal
<1> QED
  BY <1>15, <1>r

(* rm_replace_file_info of newer files of this device.                     *)
ReplacedLocal(r, s, news, S, T) ==
    /\ r \in State /\ Keeps(s, r, S, T)
    /\ \A e \in Peer : r.rows[e] = s.rows[e] /\ r.cache[e] = s.cache[e]
    /\ \A n \in DOMAIN news : ~news[n].deleted => Has(r, n, Top(news[n].version))
    /\ DOMAIN s.rows[Local] \subseteq DOMAIN r.rows[Local]
    /\ \A n \in DOMAIN r.rows[Local] :
         \/ n \in DOMAIN s.rows[Local] /\ r.rows[Local][n] = s.rows[Local][n]
         \/ /\ ~r.rows[Local][n].deleted
            /\ n \in DOMAIN s.cache[Local] =>
                 Top(s.cache[Local][n].version) < Top(r.rows[Local][n].version)

LEMMA RmReplaceLocal ==
    ASSUME NEW s \in State, NEW news, LocalNews(s, news), NEW S, NEW T
    PROVE  ReplacedLocal(rm_replace_file_info(s, Local, news), s, news, S, T)
<1>r. PICK r : r = rm_replace_file_info(s, Local, news)
  OBVIOUS
<1>1. PICK c, old, new, now, kept : c = s.cache[Local] /\ old = s.rows[Local]
        /\ new = r.cache[Local] /\ now = r.rows[Local] /\ kept = Kept(news)
  OBVIOUS
<1>2. /\ c \in Files /\ old \in Files /\ news \in Files /\ c # NotLoaded /\ Local \in Device
      /\ InMemory(s, Local) = c
  BY <1>1, LocalIsDevice, InMemoryIs DEF LocalNews, State
<1>3. /\ kept \in Files /\ DOMAIN kept = {n \in DOMAIN news : ~news[n].deleted}
      /\ \A n \in DOMAIN kept : kept[n] = news[n]
  BY <1>1, <1>2, KeptIs
<1>4. /\ r \in State /\ new = With(c, kept) /\ now = With(old, kept)
      /\ \A e \in Device : e # Local => r.rows[e] = s.rows[e] /\ r.cache[e] = s.cache[e]
  <2>1. IsUpdate(r, s, Local, With(s.rows[Local], Kept(news)), With(InMemory(s, Local), Kept(news)))
    BY <1>2, <1>r, RmReplaceIs
  <2> QED
    BY <1>1, <1>2, <2>1 DEF IsUpdate
<1>5. /\ new \in Files /\ DOMAIN new = DOMAIN c \union DOMAIN kept
      /\ \A n \in DOMAIN kept : new[n] = kept[n]
      /\ \A n \in DOMAIN c \ DOMAIN kept : new[n] = c[n]
  <2>1. /\ With(c, kept) \in Files /\ DOMAIN With(c, kept) = DOMAIN c \union DOMAIN kept
        /\ \A n \in DOMAIN kept : With(c, kept)[n] = kept[n]
        /\ \A n \in DOMAIN c \ DOMAIN kept : With(c, kept)[n] = c[n]
    BY <1>2, <1>3, WithIs
  <2> QED
    BY <1>4, <2>1
<1>6. /\ DOMAIN now = DOMAIN old \union DOMAIN kept
      /\ \A n \in DOMAIN kept : now[n] = kept[n]
      /\ \A n \in DOMAIN old \ DOMAIN kept : now[n] = old[n]
  <2>1. /\ DOMAIN With(old, kept) = DOMAIN old \union DOMAIN kept
        /\ \A n \in DOMAIN kept : With(old, kept)[n] = kept[n]
        /\ \A n \in DOMAIN old \ DOMAIN kept : With(old, kept)[n] = old[n]
    BY <1>2, <1>3, WithIs
  <2> QED
    BY <1>4, <2>1
<1>7. /\ new # NotLoaded
      /\ \A n \in DOMAIN c : Top(c[n].version) \in Nat
      /\ \A n \in DOMAIN news : Top(news[n].version) \in Nat
      /\ \A n \in DOMAIN news \intersect DOMAIN c : Top(c[n].version) < Top(news[n].version)
  BY <1>1, <1>2, <1>5, NotLoadedIs, FileIs DEF LocalNews
<1>8. ASSUME AgreeOf(s, Local, S) PROVE AgreeOf(r, Local, S)
  <2> SUFFICES ASSUME NEW n \in Name \ S PROVE AgreeOn(new, now, n)
    BY <1>1 DEF AgreeOf
  <2>1. AgreeOn(c, old, n)
    BY <1>1, <1>2, <1>8 DEF AgreeOf
  <2> QED
    BY <1>5, <1>6, <2>1 DEF AgreeOn, SameFile
<1>9. ASSUME AheadOf(s, T) PROVE AheadOf(r, T)
  <2> SUFFICES ASSUME NEW n \in DOMAIN new \ T
               PROVE  n \in DOMAIN now /\ Top(now[n].version) >= Top(new[n].version)
    BY <1>1 DEF AheadOf
  <2>1. CASE n \notin DOMAIN kept
    BY <1>1, <1>2, <1>5, <1>6, <1>9, <2>1 DEF AheadOf
  <2>2. CASE n \in DOMAIN kept
    BY <1>3, <1>5, <1>6, <1>7, <2>2
  <2> QED
    BY <2>1, <2>2
<1>10. ASSUME NEW n \in Name, NEW k \in Nat, Has(s, n, k) PROVE Has(r, n, k)
  <2>1. n \in DOMAIN c /\ Top(c[n].version) >= k
    BY <1>1, <1>10 DEF Has
  <2>2. n \in DOMAIN new /\ Top(new[n].version) >= k
    <3>1. CASE n \in DOMAIN kept
      BY <1>3, <1>5, <1>7, <2>1, <3>1
    <3>2. CASE n \notin DOMAIN kept
      BY <1>5, <2>1, <3>2
    <3> QED
      BY <3>1, <3>2
  <2> QED
    BY <1>1, <1>7, <2>2 DEF Has
<1>11. Keeps(s, r, S, T)
  BY <1>8, <1>9, <1>10 DEF Keeps
<1>12. \A n \in DOMAIN news : ~news[n].deleted => Has(r, n, Top(news[n].version))
  BY <1>1, <1>3, <1>5, <1>7 DEF Has
<1>13. \A n \in DOMAIN now :
         \/ n \in DOMAIN old /\ now[n] = old[n]
         \/ /\ ~now[n].deleted
            /\ n \in DOMAIN c => Top(c[n].version) < Top(now[n].version)
  BY <1>3, <1>6, <1>7
<1>14. ReplacedLocal(r, s, news, S, T)
  BY <1>1, <1>4, <1>6, <1>11, <1>12, <1>13, LocalIsDevice DEF ReplacedLocal
<1> QED
  BY <1>14, <1>r

(* rm_replace_file_info on the index of a peer keeps its agreement.        *)
ReplacedPeer(r, s, d, news) ==
    /\ r \in State /\ AgreeOf(r, d, {}) /\ r.cache[d] \in Files
    /\ \A e \in Device : e # d => r.rows[e] = s.rows[e] /\ r.cache[e] = s.cache[e]
    /\ DOMAIN r.cache[d] = DOMAIN s.cache[d] \union DOMAIN Kept(news)
    /\ \A n \in DOMAIN Kept(news) : r.cache[d][n] = news[n]
    /\ \A n \in DOMAIN s.cache[d] \ DOMAIN Kept(news) : r.cache[d][n] = s.cache[d][n]
    /\ DOMAIN r.rows[d] = DOMAIN s.rows[d] \union DOMAIN Kept(news)
    /\ \A n \in DOMAIN Kept(news) : r.rows[d][n] = news[n]
    /\ \A n \in DOMAIN s.rows[d] \ DOMAIN Kept(news) : r.rows[d][n] = s.rows[d][n]

LEMMA RmReplacePeer ==
    ASSUME NEW s \in State, NEW d \in Peer, NEW news \in Files, s.cache[d] # NotLoaded,
           AgreeOf(s, d, {})
    PROVE  ReplacedPeer(rm_replace_file_info(s, d, news), s, d, news)
<1>r. PICK r : r = rm_replace_file_info(s, d, news)
  OBVIOUS
<1>1. PICK c, old, new, now, kept : c = s.cache[d] /\ old = s.rows[d]
        /\ new = r.cache[d] /\ now = r.rows[d] /\ kept = Kept(news)
  OBVIOUS
<1>2. c \in Files /\ old \in Files /\ d \in Device /\ InMemory(s, d) = c
  BY <1>1, LocalIsDevice, InMemoryIs DEF State
<1>3. kept \in Files /\ \A n \in DOMAIN kept : kept[n] = news[n]
  BY <1>1, KeptIs
<1>4. /\ r \in State /\ new = With(c, kept) /\ now = With(old, kept)
      /\ \A e \in Device : e # d => r.rows[e] = s.rows[e] /\ r.cache[e] = s.cache[e]
  <2>1. IsUpdate(r, s, d, With(s.rows[d], Kept(news)), With(InMemory(s, d), Kept(news)))
    BY <1>2, <1>r, RmReplaceIs
  <2> QED
    BY <1>1, <1>2, <2>1 DEF IsUpdate
<1>5. /\ new \in Files /\ DOMAIN new = DOMAIN c \union DOMAIN kept
      /\ \A n \in DOMAIN kept : new[n] = kept[n]
      /\ \A n \in DOMAIN c \ DOMAIN kept : new[n] = c[n]
  <2>1. /\ With(c, kept) \in Files /\ DOMAIN With(c, kept) = DOMAIN c \union DOMAIN kept
        /\ \A n \in DOMAIN kept : With(c, kept)[n] = kept[n]
        /\ \A n \in DOMAIN c \ DOMAIN kept : With(c, kept)[n] = c[n]
    BY <1>2, <1>3, WithIs
  <2> QED
    BY <1>4, <2>1
<1>6. /\ DOMAIN now = DOMAIN old \union DOMAIN kept
      /\ \A n \in DOMAIN kept : now[n] = kept[n]
      /\ \A n \in DOMAIN old \ DOMAIN kept : now[n] = old[n]
  <2>1. /\ DOMAIN With(old, kept) = DOMAIN old \union DOMAIN kept
        /\ \A n \in DOMAIN kept : With(old, kept)[n] = kept[n]
        /\ \A n \in DOMAIN old \ DOMAIN kept : With(old, kept)[n] = old[n]
    BY <1>2, <1>3, WithIs
  <2> QED
    BY <1>4, <2>1
<1>7. AgreeOf(r, d, {})
  <2> SUFFICES ASSUME NEW n \in Name PROVE AgreeOn(new, now, n)
    BY <1>1 DEF AgreeOf
  <2>1. AgreeOn(c, old, n)
    BY <1>1 DEF AgreeOf
  <2> QED
    BY <1>5, <1>6, <2>1 DEF AgreeOn, SameFile
<1>8. ReplacedPeer(r, s, d, news)
  BY <1>1, <1>3, <1>4, <1>5, <1>6, <1>7 DEF ReplacedPeer
<1> QED
  BY <1>8, <1>r

-----------------------------------------------------------------------------
(* The inductive invariant.                                                *)
MsgType == {"ClusterConfig", "Index", "IndexUpdate"}
IndicesTypeOK ==
    /\ own \in [Peer -> Files] /\ connected \subseteq Peer
    /\ \A m \in msgs : m.type \in MsgType /\ m.from \in Peer /\ m.files \in Files
    /\ \A m \in msgs : m.type = "ClusterConfig" => DOMAIN m.files = {}
    /\ state \in State
    /\ lost \in BOOLEAN /\ panicked \in BOOLEAN

(* What is known of a peer's files, or on its way, is no newer than what   *)
(* the peer has.                                                           *)
NoNewer(files, d) ==
    \A n \in DOMAIN files :
      n \in DOMAIN own[d] /\ Top(files[n].version) <= Top(own[d][n].version)
OwnNewest ==
    /\ \A d \in Peer : NoNewer(state.rows[d], d)
    /\ \A m \in msgs : NoNewer(m.files, m.from)

(* A message that brings a file with at least a largest counter.           *)
Carries(m, d, n, k) == m.from = d /\ n \in DOMAIN m.files /\ Top(m.files[n].version) >= k

(* A file that a peer's index marks deleted, which rm_replace_file_info    *)
(* leaves out, came with a full Index, so that this device has it too, or  *)
(* a full Index brings it.                                                 *)
DeletedKnown ==
    \A d \in connected : \A n \in DOMAIN state.rows[d] \ renamed :
      state.rows[d][n].deleted =>
        \/ Has(state, n, Top(state.rows[d][n].version))
        \/ \E m \in msgs : m.type = "Index" /\ Carries(m, d, n, Top(state.rows[d][n].version))

(* This device has every file of a connected peer, or a message brings it. *)
Announced ==
    \A d \in connected : \A n \in DOMAIN own[d] \ renamed :
      ~own[d][n].deleted =>
        \/ Has(state, n, Top(own[d][n].version))
        \/ \E m \in msgs : /\ Carries(m, d, n, Top(own[d][n].version))
                           /\ m.type = "Index" \/ ~m.files[n].deleted

IndicesInv ==
    /\ IndicesTypeOK
    /\ \A d \in Peer : AgreeOf(state, d, {})
    /\ AgreeOf(state, Local, apart) /\ AheadOf(state, renamed)
    /\ OwnNewest
    /\ ~lost /\ ~panicked => DeletedKnown /\ Announced

-----------------------------------------------------------------------------
(* What the handlers do.                                                   *)
LEMMA KeepsBoth ==
    ASSUME NEW s, NEW r, NEW q, NEW S, NEW T, Keeps(s, r, S, T), Keeps(r, q, S, T)
    PROVE  Keeps(s, q, S, T)
BY DEF Keeps

LEMMA KeepsSame ==
    ASSUME NEW s, NEW r, NEW S, NEW T,
           r.rows[Local] = s.rows[Local], r.cache[Local] = s.cache[Local]
    PROVE  Keeps(s, r, S, T)
BY DEF Keeps, AgreeOf, AheadOf, Has

(* handle_index: the index of the peer is replaced, and what is newer than *)
(* in memory is inserted for this device.                                  *)
IndexStored(m) ==
    /\ state' \in State /\ Keeps(state, state', apart, renamed)
    /\ state'.rows[m.from] = m.files /\ state'.cache[m.from] = m.files
    /\ \A e \in Peer : e # m.from => /\ state'.rows[e] = state.rows[e]
                                     /\ state'.cache[e] = state.cache[e]
    /\ \A n \in DOMAIN state.rows[Local] :
         /\ n \in DOMAIN state'.rows[Local]
         /\ state.rows[Local][n].version \subseteq state'.rows[Local][n].version
    /\ \A n \in DOMAIN state'.rows[Local] \ DOMAIN m.files :
         n \in DOMAIN state.rows[Local] /\ state'.rows[Local][n] = state.rows[Local][n]
    /\ panicked' \/ \A n \in DOMAIN m.files : Has(state', n, Top(m.files[n].version))

LEMMA IndexEffect ==
    ASSUME IndicesTypeOK, NEW m \in msgs, handle_index(m)
    PROVE  \/ state' = state /\ lost' /\ panicked' = panicked
           \/ IndexStored(m) /\ lost' = lost /\ (panicked => panicked')
<1>1. PICK s : s = replace_index(state, m.from, m.files)
  OBVIOUS
<1>2. PICK r : r = index(s, Local)
  OBVIOUS
<1>3. PICK news : news = NewlyAdded(m.files, r.cache[Local])
  OBVIOUS
<1>4. /\ m.from \in Peer /\ m.from \in Device /\ m.from # Local /\ m.files \in Files
      /\ state \in State /\ Local \in Device
  BY LocalIsDevice DEF IndicesTypeOK
<1>5. \/ state' = state /\ lost' /\ panicked' = panicked
      \/ /\ lost' = lost
         /\ \/ state' = r /\ panicked'
            \/ state' = insert_file_info(r, Local, news) /\ panicked' = panicked
  BY <1>1, <1>2, <1>3 DEF handle_index, IndicesTypeOK
<1>6. /\ s \in State /\ s.rows[m.from] = m.files /\ s.cache[m.from] = m.files
      /\ \A e \in Device : e # m.from => s.rows[e] = state.rows[e] /\ s.cache[e] = state.cache[e]
  <2>1. IsUpdate(s, state, m.from, m.files, m.files)
    BY <1>1, <1>4, ReplaceIs
  <2> QED
    BY <2>1 DEF IsUpdate
<1>7. /\ r \in State /\ r.rows = s.rows /\ r.cache[Local] \in Files
      /\ \A e \in Device : e # Local => r.cache[e] = s.cache[e]
  BY <1>2, <1>4, <1>6, IndexIs
<1>8. Keeps(state, r, apart, renamed)
  <2>1. Keeps(state, s, apart, renamed)
    BY <1>4, <1>6, KeepsSame
  <2>2. Keeps(s, r, apart, renamed)
    BY <1>2, <1>4, <1>6, KeepsIndex
  <2> QED
    BY <2>1, <2>2, KeepsBoth
<1>9. /\ r.rows[m.from] = m.files /\ r.cache[m.from] = m.files
      /\ \A e \in Peer : e # m.from => r.rows[e] = state.rows[e] /\ r.cache[e] = state.cache[e]
      /\ r.rows[Local] = state.rows[Local]
  BY <1>4, <1>6, <1>7, LocalIsDevice
<1>10. ASSUME state' = r, panicked', lost' = lost PROVE IndexStored(m)
  BY <1>7, <1>8, <1>9, <1>10 DEF IndexStored
<1>11. ASSUME state' = insert_file_info(r, Local, news), lost' = lost PROVE IndexStored(m)
  <2>1. /\ news \in Files /\ DOMAIN news \subseteq DOMAIN m.files
        /\ \A n \in DOMAIN news : news[n] = m.files[n]
        /\ \A n \in DOMAIN news \intersect DOMAIN r.cache[Local] :
             Top(r.cache[Local][n].version) < Top(m.files[n].version)
        /\ \A n \in DOMAIN m.files \ DOMAIN news :
             /\ n \in DOMAIN r.cache[Local]
             /\ Top(r.cache[Local][n].version) >= Top(m.files[n].version)
    BY <1>3, <1>4, <1>7, NewlyAddedIs
  <2>2. LocalNews(r, news)
    BY <1>7, <2>1, NotLoadedIs DEF LocalNews
  <2>3. /\ state' \in State /\ Keeps(r, state', apart, renamed)
        /\ \A e \in Peer : state'.rows[e] = r.rows[e] /\ state'.cache[e] = r.cache[e]
        /\ \A n \in DOMAIN news : Has(state', n, Top(news[n].version))
        /\ \A n \in DOMAIN r.rows[Local] :
             /\ n \in DOMAIN state'.rows[Local]
             /\ r.rows[Local][n].version \subseteq state'.rows[Local][n].version
        /\ \A n \in DOMAIN state'.rows[Local] \ DOMAIN news :
             n \in DOMAIN r.rows[Local] /\ state'.rows[Local][n] = r.rows[Local][n]
    <3>1. InsertedLocal(state', r, news, apart, renamed)
      BY <1>7, <1>11, <2>2, InsertLocal
    <3> QED
      BY <3>1 DEF InsertedLocal
  <2>4. Keeps(state, state', apart, renamed)
    BY <1>8, <2>3, KeepsBoth
  <2>5. ASSUME NEW n \in DOMAIN m.files PROVE Has(state', n, Top(m.files[n].version))
    <3>1. CASE n \in DOMAIN news
      BY <2>1, <2>3, <3>1
    <3>2. CASE n \notin DOMAIN news
      <4>1. n \in Name /\ Top(m.files[n].version) \in Nat
        BY <1>4, FileIs
      <4>2. Has(r, n, Top(m.files[n].version))
        BY <1>7, <2>1, <3>2, NotLoadedIs DEF Has
      <4> QED
        BY <2>3, <4>1, <4>2 DEF Keeps
    <3> QED
      BY <3>1, <3>2
  <2>6. \A n \in DOMAIN state'.rows[Local] \ DOMAIN m.files :
          n \in DOMAIN state.rows[Local] /\ state'.rows[Local][n] = state.rows[Local][n]
    BY <1>9, <2>1, <2>3
  <2>7. \A n \in DOMAIN state.rows[Local] :
          /\ n \in DOMAIN state'.rows[Local]
          /\ state.rows[Local][n].version \subseteq state'.rows[Local][n].version
    BY <1>9, <2>3
  <2>8. /\ state'.rows[m.from] = m.files /\ state'.cache[m.from] = m.files
        /\ \A e \in Peer : e # m.from => /\ state'.rows[e] = state.rows[e]
                                         /\ state'.cache[e] = state.cache[e]
    BY <1>4, <1>9, <2>3
  <2> QED
    BY <2>3, <2>4, <2>5, <2>6, <2>7, <2>8 DEF IndexStored
<1> QED
  BY <1>5, <1>10, <1>11

(* handle_index_update: newer files of the peer are replaced, unless       *)
(* marked deleted, and what is then newer than in memory is replaced for   *)
(* this device.                                                            *)
FromUpdate(m, n) ==
    /\ n \in DOMAIN m.files /\ state'.rows[m.from][n] = m.files[n] /\ ~m.files[n].deleted
UpdateStored(m) ==
    /\ state' \in State /\ Keeps(state, state', apart, renamed)
    /\ \A e \in Peer : AgreeOf(state', e, {})
    /\ \A e \in Peer : e # m.from => state'.rows[e] = state.rows[e]
    /\ \A n \in DOMAIN state'.rows[m.from] :
         \/ n \in DOMAIN state.rows[m.from] /\ state'.rows[m.from][n] = state.rows[m.from][n]
         \/ FromUpdate(m, n)
    /\ \A n \in DOMAIN state.rows[Local] : n \in DOMAIN state'.rows[Local]
    /\ \A n \in DOMAIN state'.rows[Local] :
         \/ n \in DOMAIN state.rows[Local] /\ state'.rows[Local][n] = state.rows[Local][n]
         \/ /\ ~state'.rows[Local][n].deleted
            /\ n \in DOMAIN state.rows[Local] \ apart =>
                 Top(state.rows[Local][n].version) < Top(state'.rows[Local][n].version)

UpdateTaken(m) ==
    \A n \in DOMAIN m.files : ~m.files[n].deleted =>
      \/ Has(state', n, Top(m.files[n].version))
      \/ /\ n \in DOMAIN state.rows[m.from] /\ state.rows[m.from][n].deleted
         /\ Top(state.rows[m.from][n].version) >= Top(m.files[n].version)

LEMMA UpdateEffect ==
    ASSUME IndicesInv, NEW m \in msgs, handle_index_update(m)
    PROVE  /\ UpdateStored(m) /\ (lost => lost') /\ (panicked => panicked')
           /\ lost' \/ panicked' \/ UpdateTaken(m)
<1>a. PICK known : known = index(state, m.from)
  OBVIOUS
<1>b. PICK news : news = NewlyAdded(m.files, known.cache[m.from])
  OBVIOUS
<1>c. PICK replaced : replaced = rm_replace_file_info(known, m.from, news)
  OBVIOUS
<1>d. PICK recorded : recorded = index(replaced, Local)
  OBVIOUS
<1>e. PICK added : added = recorded.cache[m.from]
  OBVIOUS
<1>f. PICK local_news : local_news = NewlyAdded(added, recorded.cache[Local])
  OBVIOUS
<1>1. \/ state' = known /\ panicked' /\ lost' = lost
      \/ state' = known /\ lost' /\ panicked' = panicked
      \/ state' = recorded /\ panicked' /\ lost' = lost
      \/ /\ state' = rm_replace_file_info(recorded, Local, local_news)
         /\ lost' = lost /\ panicked' = panicked
  BY <1>a, <1>b, <1>c, <1>d, <1>e, <1>f DEF handle_index_update
<1>2. /\ m.from \in Peer /\ m.from \in Device /\ m.from # Local /\ m.files \in Files
      /\ state \in State /\ Local \in Device
      /\ \A e \in Peer : e \in Device /\ e # Local /\ AgreeOf(state, e, {})
      /\ AgreeOf(state, Local, apart)
  BY LocalIsDevice DEF IndicesInv, IndicesTypeOK
\* The index of the peer is in memory.
<1>3. /\ known \in State /\ known.rows = state.rows /\ known.cache[m.from] \in Files
      /\ \A e \in Device : e # m.from => known.cache[e] = state.cache[e]
  BY <1>2, <1>a, IndexIs
<1>4. /\ \A e \in Peer : AgreeOf(known, e, {})
      /\ Keeps(state, known, apart, renamed)
      /\ known.cache[m.from] # NotLoaded
  BY <1>2, <1>3, <1>a, AgreeIndex, KeepsIndex, NotLoadedIs
<1>5. /\ news \in Files /\ DOMAIN news \subseteq DOMAIN m.files
      /\ \A n \in DOMAIN news : news[n] = m.files[n]
      /\ \A n \in DOMAIN m.files \ DOMAIN news :
           /\ n \in DOMAIN known.cache[m.from]
           /\ Top(known.cache[m.from][n].version) >= Top(m.files[n].version)
  BY <1>2, <1>3, <1>b, NewlyAddedIs
<1>6. DOMAIN Kept(news) = {n \in DOMAIN news : ~news[n].deleted}
  BY <1>5, KeptIs
\* Its newer files are recorded.
<1>7. ReplacedPeer(replaced, known, m.from, news)
  BY <1>2, <1>3, <1>4, <1>5, <1>c, RmReplacePeer
<1>8. /\ replaced \in State
      /\ \A e \in Device : e # m.from => /\ replaced.rows[e] = known.rows[e]
                                         /\ replaced.cache[e] = known.cache[e]
      /\ \A n \in DOMAIN replaced.rows[m.from] :
           \/ n \in DOMAIN known.rows[m.from] /\ replaced.rows[m.from][n] = known.rows[m.from][n]
           \/ /\ n \in DOMAIN m.files /\ ~m.files[n].deleted
              /\ replaced.rows[m.from][n] = m.files[n]
  BY <1>5, <1>6, <1>7 DEF ReplacedPeer
<1>9. \A e \in Peer : AgreeOf(replaced, e, {})
  <2> SUFFICES ASSUME NEW e \in Peer PROVE AgreeOf(replaced, e, {})
    OBVIOUS
  <2>1. CASE e = m.from
    BY <1>7, <2>1 DEF ReplacedPeer
  <2>2. CASE e # m.from
    BY <1>2, <1>4, <1>8, <2>2 DEF AgreeOf
  <2> QED
    BY <2>1, <2>2
<1>10. Keeps(state, replaced, apart, renamed)
  <2>1. Keeps(known, replaced, apart, renamed)
    BY <1>2, <1>8, KeepsSame
  <2> QED
    BY <1>4, <2>1, KeepsBoth
\* The index of this device is in memory.
<1>11. /\ recorded \in State /\ recorded.rows = replaced.rows /\ recorded.cache[Local] \in Files
       /\ recorded.cache[Local] = IF replaced.cache[Local] = NotLoaded
                                  THEN replaced.rows[Local] ELSE replaced.cache[Local]
       /\ \A e \in Device : e # Local => recorded.cache[e] = replaced.cache[e]
  BY <1>2, <1>8, <1>d, IndexIs
<1>12. /\ \A e \in Peer : AgreeOf(recorded, e, {})
       /\ Keeps(state, recorded, apart, renamed)
  <2>1. \A e \in Peer : AgreeOf(recorded, e, {})
    BY <1>2, <1>8, <1>9, <1>d, AgreeIndex
  <2>2. Keeps(replaced, recorded, apart, renamed)
    BY <1>2, <1>8, <1>d, KeepsIndex
  <2> QED
    BY <1>10, <2>1, <2>2, KeepsBoth
<1>13. /\ added \in Files /\ added = replaced.cache[m.from]
  BY <1>2, <1>7, <1>11, <1>e DEF ReplacedPeer
<1>14. /\ local_news \in Files /\ DOMAIN local_news \subseteq DOMAIN added
       /\ \A n \in DOMAIN local_news : local_news[n] = added[n]
       /\ \A n \in DOMAIN local_news \intersect DOMAIN recorded.cache[Local] :
            Top(recorded.cache[Local][n].version) < Top(added[n].version)
       /\ \A n \in DOMAIN added \ DOMAIN local_news :
            /\ n \in DOMAIN recorded.cache[Local]
            /\ Top(recorded.cache[Local][n].version) >= Top(added[n].version)
  BY <1>11, <1>13, <1>f, NewlyAddedIs
<1>15. LocalNews(recorded, local_news)
  BY <1>11, <1>14, NotLoadedIs DEF LocalNews
<1>16. ASSUME state' = known PROVE UpdateStored(m)
  BY <1>2, <1>3, <1>4, <1>16 DEF UpdateStored
<1>17. /\ recorded.rows[Local] = state.rows[Local]
       /\ \A e \in Peer : e # m.from => recorded.rows[e] = state.rows[e]
       /\ \A n \in DOMAIN recorded.rows[m.from] :
            \/ n \in DOMAIN state.rows[m.from] /\ recorded.rows[m.from][n] = state.rows[m.from][n]
            \/ /\ n \in DOMAIN m.files /\ ~m.files[n].deleted
               /\ recorded.rows[m.from][n] = m.files[n]
  BY <1>2, <1>3, <1>8, <1>11
<1>18. ASSUME state' = recorded PROVE UpdateStored(m)
  BY <1>11, <1>12, <1>17, <1>18 DEF UpdateStored, FromUpdate
<1>19. ASSUME state' = rm_replace_file_info(recorded, Local, local_news)
       PROVE  UpdateStored(m) /\ UpdateTaken(m)
  <2>1. ReplacedLocal(state', recorded, local_news, apart, renamed)
    BY <1>11, <1>15, <1>19, RmReplaceLocal
  <2>2. /\ state' \in State /\ Keeps(recorded, state', apart, renamed)
        /\ \A e \in Peer : /\ state'.rows[e] = recorded.rows[e]
                           /\ state'.cache[e] = recorded.cache[e]
        /\ \A n \in DOMAIN local_news :
             ~local_news[n].deleted => Has(state', n, Top(local_news[n].version))
        /\ DOMAIN state.rows[Local] \subseteq DOMAIN state'.rows[Local]
        /\ \A n \in DOMAIN state'.rows[Local] :
             \/ n \in DOMAIN state.rows[Local] /\ state'.rows[Local][n] = state.rows[Local][n]
             \/ /\ ~state'.rows[Local][n].deleted
                /\ n \in DOMAIN recorded.cache[Local] =>
                     Top(recorded.cache[Local][n].version) < Top(state'.rows[Local][n].version)
    BY <1>17, <2>1 DEF ReplacedLocal
  <2>3. Keeps(state, state', apart, renamed)
    BY <1>12, <2>2, KeepsBoth
  <2>4. \A e \in Peer : AgreeOf(state', e, {})
    BY <1>12, <2>2 DEF AgreeOf
  <2>5. \A n \in DOMAIN state.rows[Local] \ apart :
          /\ n \in DOMAIN recorded.cache[Local]
          /\ Top(state.rows[Local][n].version) = Top(recorded.cache[Local][n].version)
    <3> SUFFICES ASSUME NEW n \in DOMAIN state.rows[Local] \ apart
                 PROVE  /\ n \in DOMAIN recorded.cache[Local]
                        /\ Top(state.rows[Local][n].version) = Top(recorded.cache[Local][n].version)
      OBVIOUS
    <3>1. AgreeOf(recorded, Local, apart)
      BY <1>2, <1>12 DEF Keeps
    <3>2. n \in Name
      BY <1>2, FileIs DEF State
    <3>3. AgreeOn(recorded.cache[Local], state.rows[Local], n)
      BY <1>11, <1>17, <3>1, <3>2, NotLoadedIs DEF AgreeOf
    <3> QED
      BY <3>3 DEF AgreeOn, SameFile, Top
  <2>6. \A n \in DOMAIN state'.rows[Local] :
         \/ n \in DOMAIN state.rows[Local] /\ state'.rows[Local][n] = state.rows[Local][n]
         \/ /\ ~state'.rows[Local][n].deleted
            /\ n \in DOMAIN state.rows[Local] \ apart =>
                 Top(state.rows[Local][n].version) < Top(state'.rows[Local][n].version)
    BY <2>2, <2>5
  <2>7. /\ \A e \in Peer : e # m.from => state'.rows[e] = state.rows[e]
        /\ state'.rows[m.from] = recorded.rows[m.from]
    BY <1>2, <1>17, <2>2
  <2>8. UpdateStored(m)
    BY <1>17, <2>2, <2>3, <2>4, <2>6, <2>7 DEF UpdateStored, FromUpdate
  <2>9. ASSUME NEW n \in DOMAIN m.files, ~m.files[n].deleted
        PROVE  \/ Has(state', n, Top(m.files[n].version))
               \/ /\ n \in DOMAIN state.rows[m.from] /\ state.rows[m.from][n].deleted
                  /\ Top(state.rows[m.from][n].version) >= Top(m.files[n].version)
    <3>1. PICK k \in Nat : k = Top(m.files[n].version)
      BY <1>2, FileIs
    <3>2. n \in Name
      BY <1>2, FileIs
    \* The peer's index then has a version no older than the message's.
    <3>3. /\ n \in DOMAIN added /\ Top(added[n].version) >= k /\ Top(added[n].version) \in Nat
          /\ \/ ~added[n].deleted
             \/ n \in DOMAIN known.cache[m.from] /\ added[n] = known.cache[m.from][n]
      <4>1. CASE n \in DOMAIN news
        <5>1. n \in DOMAIN Kept(news)
          BY <1>5, <1>6, <2>9, <4>1
        <5>2. n \in DOMAIN added /\ added[n] = m.files[n]
          BY <1>5, <1>7, <1>13, <4>1, <5>1 DEF ReplacedPeer
        <5> QED
          BY <2>9, <3>1, <5>2
      <4>2. CASE n \notin DOMAIN news
        <5>1. n \in DOMAIN known.cache[m.from] /\ Top(known.cache[m.from][n].version) >= k
          BY <1>5, <3>1, <4>2
        <5>2. n \notin DOMAIN Kept(news)
          BY <1>6, <4>2
        <5>3. n \in DOMAIN added /\ added[n] = known.cache[m.from][n]
          BY <1>7, <1>13, <5>1, <5>2 DEF ReplacedPeer
        <5>4. Top(added[n].version) \in Nat
          BY <1>13, <5>3, FileIs
        <5> QED
          BY <5>1, <5>3, <5>4
      <4> QED
        BY <4>1, <4>2
    <3>4. CASE n \notin DOMAIN local_news
      <4>1. Has(recorded, n, k)
        <5>1. /\ n \in DOMAIN recorded.cache[Local]
              /\ Top(recorded.cache[Local][n].version) >= Top(added[n].version)
          BY <1>14, <3>3, <3>4
        <5>2. Top(recorded.cache[Local][n].version) \in Nat
          BY <1>11, <5>1, FileIs
        <5>3. Top(recorded.cache[Local][n].version) >= k
          BY <3>3, <5>1, <5>2
        <5> QED
          BY <1>11, <5>1, <5>3, NotLoadedIs DEF Has
      <4> QED
        BY <2>2, <3>1, <3>2, <4>1 DEF Keeps
    <3>5. CASE n \in DOMAIN local_news /\ ~added[n].deleted
      <4>1. Has(state', n, Top(added[n].version))
        BY <1>14, <2>2, <3>5
      <4>2. state'.cache[Local] \in Files \union {NotLoaded}
        BY <1>2, <2>2 DEF State
      <4>3. n \in DOMAIN state'.cache[Local] /\ state'.cache[Local] # NotLoaded
            /\ Top(state'.cache[Local][n].version) >= Top(added[n].version)
        BY <4>1 DEF Has
      <4>4. Top(state'.cache[Local][n].version) \in Nat
        BY <4>2, <4>3, FileIs
      <4>5. Top(state'.cache[Local][n].version) >= k
        BY <3>3, <4>3, <4>4
      <4> QED
        BY <3>1, <4>3, <4>5 DEF Has
    <3>6. CASE n \in DOMAIN known.cache[m.from] /\ added[n] = known.cache[m.from][n]
                 /\ added[n].deleted
      <4>1. AgreeOn(known.cache[m.from], known.rows[m.from], n)
        BY <1>2, <1>4, <3>2 DEF AgreeOf
      <4>2. /\ n \in DOMAIN state.rows[m.from] /\ state.rows[m.from][n].deleted
            /\ Top(state.rows[m.from][n].version) = Top(added[n].version)
        BY <1>3, <3>6, <4>1 DEF AgreeOn, SameFile, Top
      <4> QED
        BY <3>1, <3>3, <4>2
    <3> QED
      BY <3>3, <3>4, <3>5, <3>6
  <2> QED
    BY <2>8, <2>9 DEF UpdateTaken
<1> QED
  BY <1>1, <1>16, <1>18, <1>19

-----------------------------------------------------------------------------
(* The handlers keep the invariant.                                        *)
LEMMA HasLess ==
    ASSUME NEW s \in State, NEW n, NEW j \in Nat, NEW k \in Nat, Has(s, n, j), j >= k
    PROVE  Has(s, n, k)
<1>1. s.cache[Local] \in Files
  BY LocalIsDevice DEF Has, State
<1>2. Top(s.cache[Local][n].version) \in Nat
  BY <1>1, FileIs DEF Has
<1> QED
  BY <1>2 DEF Has

(* A message that is handled leaves what it announced.                     *)
LEMMA AnnouncedStep ==
    ASSUME IndicesTypeOK, state' \in State, UNCHANGED <<own, connected, renamed>>,
           Keeps(state, state', apart, renamed), Announced,
           NEW m \in msgs, msgs' = msgs \ {m},
           \A n \in DOMAIN m.files \ renamed :
             m.from \in connected /\ (m.type = "Index" \/ ~m.files[n].deleted) =>
               \/ Has(state', n, Top(m.files[n].version))
               \/ \E q \in msgs' : q.type = "Index" /\ Carries(q, m.from, n, Top(m.files[n].version))
    PROVE  Announced'
<1> SUFFICES ASSUME NEW d \in connected, NEW n \in DOMAIN own[d] \ renamed, ~own[d][n].deleted
             PROVE  \/ Has(state', n, Top(own[d][n].version))
                    \/ \E q \in msgs' : /\ Carries(q, d, n, Top(own[d][n].version))
                                        /\ q.type = "Index" \/ ~q.files[n].deleted
  BY DEF Announced
<1>1. PICK k \in Nat : k = Top(own[d][n].version)
  BY FileIs DEF IndicesTypeOK
<1>2. n \in Name
  BY FileIs DEF IndicesTypeOK
<1>3. CASE Has(state, n, k)
  BY <1>1, <1>2, <1>3 DEF Keeps
<1>4. ASSUME NEW q \in msgs, q # m, Carries(q, d, n, k), q.type = "Index" \/ ~q.files[n].deleted
      PROVE  \E p \in msgs' : Carries(p, d, n, k) /\ (p.type = "Index" \/ ~p.files[n].deleted)
  BY <1>4
<1>5. CASE Carries(m, d, n, k) /\ (m.type = "Index" \/ ~m.files[n].deleted)
  <2>1. PICK j \in Nat : j = Top(m.files[n].version)
    BY <1>5, FileIs DEF IndicesTypeOK, Carries
  <2>2. j >= k /\ n \in DOMAIN m.files /\ m.from = d
    BY <1>5, <2>1 DEF Carries
  <2>3. CASE Has(state', n, j)
    BY <1>1, <2>2, <2>3, HasLess
  <2>4. ASSUME NEW q \in msgs', q.type = "Index", Carries(q, d, n, j)
        PROVE  Carries(q, d, n, k)
    <3>1. q.files \in Files /\ n \in DOMAIN q.files /\ Top(q.files[n].version) >= j
      BY <2>4 DEF IndicesTypeOK, Carries
    <3>2. Top(q.files[n].version) \in Nat
      BY <3>1, FileIs
    <3>3. Top(q.files[n].version) >= k
      BY <2>2, <3>1, <3>2
    <3> QED
      BY <2>4, <3>1, <3>3 DEF Carries
  <2> QED
    BY <1>1, <1>5, <2>1, <2>2, <2>3, <2>4
<1> QED
  BY <1>1, <1>3, <1>4, <1>5 DEF Announced

(* So do the other parts, whatever a handler stores of its message.        *)
LEMMA HandledType ==
    ASSUME IndicesInv, NEW m \in msgs, msgs' = msgs \ {m}, UNCHANGED <<own, connected>>,
           state' \in State, lost' \in BOOLEAN, panicked' \in BOOLEAN
    PROVE  IndicesTypeOK'
BY DEF IndicesInv, IndicesTypeOK

LEMMA ConfigStep ==
    ASSUME IndicesInv, NEW m \in msgs, handle_cluster_config(m)
    PROVE  IndicesInv'
<1>1. /\ m.type = "ClusterConfig" /\ msgs' = msgs \ {m} /\ state' = index(state, Local)
      /\ UNCHANGED <<own, connected, renamed, apart, lost, panicked>>
  BY DEF handle_cluster_config, Handled, indices, peers, renames
<1>2. state \in State /\ Local \in Device /\ \A d \in Peer : d \in Device
  BY LocalIsDevice DEF IndicesInv, IndicesTypeOK
<1>3. state' \in State /\ state'.rows = state.rows /\ Keeps(state, state', apart, renamed)
  BY <1>1, <1>2, IndexIs, KeepsIndex
<1>4. IndicesTypeOK'
  BY <1>1, <1>3, HandledType DEF IndicesInv, IndicesTypeOK
<1>5. \A d \in Peer : AgreeOf(state', d, {})
  BY <1>1, <1>2, AgreeIndex DEF IndicesInv
<1>6. AgreeOf(state', Local, apart') /\ AheadOf(state', renamed')
  BY <1>1, <1>3 DEF IndicesInv, Keeps
<1>7. OwnNewest'
  BY <1>1, <1>3 DEF IndicesInv, OwnNewest, NoNewer
<1>8. ASSUME Announced PROVE Announced'
  <2>1. DOMAIN m.files = {}
    BY <1>1 DEF IndicesInv, IndicesTypeOK
  <2> QED
    BY <1>1, <1>3, <1>8, <2>1, AnnouncedStep DEF IndicesInv
<1>9. ASSUME DeletedKnown PROVE DeletedKnown'
  <2> SUFFICES ASSUME NEW d \in connected, NEW n \in DOMAIN state.rows[d] \ renamed,
                      state.rows[d][n].deleted
               PROVE  LET k == Top(state.rows[d][n].version)
                      IN Has(state', n, k) \/ \E q \in msgs' : q.type = "Index" /\ Carries(q, d, n, k)
    BY <1>1, <1>3 DEF DeletedKnown
  <2>1. n \in Name /\ Top(state.rows[d][n].version) \in Nat
    BY <1>2, FileIs DEF IndicesInv, IndicesTypeOK, State
  <2> QED
    BY <1>1, <1>3, <1>9, <2>1 DEF DeletedKnown, Keeps
<1> QED
  BY <1>1, <1>4, <1>5, <1>6, <1>7, <1>8, <1>9 DEF IndicesInv

LEMMA IndexStep ==
    ASSUME IndicesInv, NEW m \in msgs, handle_index(m)
    PROVE  IndicesInv'
<1>1. /\ m.type = "Index" /\ msgs' = msgs \ {m}
      /\ UNCHANGED <<own, connected, renamed, apart>>
      /\ lost' \in BOOLEAN /\ panicked' \in BOOLEAN
  BY DEF handle_index, Handled, peers, renames, IndicesInv, IndicesTypeOK
<1>2. /\ m.from \in Peer /\ m.files \in Files /\ state \in State /\ Local \in Device
      /\ \A d \in Peer : d \in Device
  BY LocalIsDevice DEF IndicesInv, IndicesTypeOK
<1>3. CASE state' = state /\ lost' /\ panicked' = panicked
  <2>1. IndicesTypeOK'
    BY <1>1, <1>2, <1>3, HandledType
  <2>2. OwnNewest'
    BY <1>1, <1>3 DEF IndicesInv, OwnNewest, NoNewer
  <2> QED
    BY <1>1, <1>3, <2>1, <2>2 DEF IndicesInv
<1>4. CASE IndexStored(m) /\ lost' = lost /\ (panicked => panicked')
  <2>1. /\ state' \in State /\ Keeps(state, state', apart, renamed)
        /\ state'.rows[m.from] = m.files /\ state'.cache[m.from] = m.files
        /\ \A e \in Peer : e # m.from => /\ state'.rows[e] = state.rows[e]
                                         /\ state'.cache[e] = state.cache[e]
        /\ panicked' \/ \A n \in DOMAIN m.files : Has(state', n, Top(m.files[n].version))
    BY <1>4 DEF IndexStored
  <2>2. IndicesTypeOK'
    BY <1>1, <2>1, HandledType
  <2>3. \A d \in Peer : AgreeOf(state', d, {})
    BY <2>1 DEF IndicesInv, AgreeOf, AgreeOn, SameFile
  <2>4. AgreeOf(state', Local, apart') /\ AheadOf(state', renamed')
    BY <1>1, <2>1 DEF IndicesInv, Keeps
  <2>5. OwnNewest'
    <3>1. NoNewer(m.files, m.from) /\ \A e \in Peer : NoNewer(state.rows[e], e)
      BY DEF IndicesInv, OwnNewest
    <3>2. \A e \in Peer : NoNewer(state'.rows[e], e)
      BY <2>1, <3>1
    <3> QED
      BY <1>1, <3>2 DEF IndicesInv, OwnNewest, NoNewer
  <2>6. ASSUME ~lost', ~panicked' PROVE DeletedKnown' /\ Announced'
    <3>1. DeletedKnown /\ Announced /\ \A n \in DOMAIN m.files : Has(state', n, Top(m.files[n].version))
      BY <1>4, <2>1, <2>6 DEF IndicesInv
    <3>2. Announced'
      BY <1>1, <2>1, <3>1, AnnouncedStep DEF IndicesInv
    <3>3. ASSUME NEW d \in connected, NEW n \in DOMAIN state'.rows[d] \ renamed,
                 state'.rows[d][n].deleted
          PROVE  \/ Has(state', n, Top(state'.rows[d][n].version))
                 \/ \E q \in msgs' : q.type = "Index" /\ Carries(q, d, n, Top(state'.rows[d][n].version))
      <4>0. d \in Peer
        BY DEF IndicesInv, IndicesTypeOK
      <4>1. CASE d = m.from
        BY <2>1, <3>1, <4>1
      <4>2. CASE d # m.from
        <5>1. state'.rows[d] = state.rows[d]
          BY <2>1, <4>0, <4>2
        <5>2. n \in Name /\ Top(state.rows[d][n].version) \in Nat
          BY <1>2, <4>0, <5>1, FileIs DEF State
        <5>3. \A q \in msgs : Carries(q, d, n, Top(state.rows[d][n].version)) => q \in msgs'
          BY <1>1, <4>2 DEF Carries
        <5> QED
          BY <2>1, <3>1, <3>3, <5>1, <5>2, <5>3 DEF DeletedKnown, Keeps
      <4> QED
        BY <4>1, <4>2
    <3>4. DeletedKnown'
      BY <1>1, <3>3 DEF DeletedKnown
    <3> QED
      BY <3>2, <3>4
  <2> QED
    BY <2>2, <2>3, <2>4, <2>5, <2>6 DEF IndicesInv
<1> QED
  BY <1>3, <1>4, IndexEffect DEF IndicesInv

LEMMA UpdateStep ==
    ASSUME IndicesInv, NEW m \in msgs, handle_index_update(m)
    PROVE  IndicesInv'
<1>1. /\ m.type = "IndexUpdate" /\ msgs' = msgs \ {m}
      /\ UNCHANGED <<own, connected, renamed, apart>>
      /\ lost' \in BOOLEAN /\ panicked' \in BOOLEAN
  BY DEF handle_index_update, Handled, peers, renames, IndicesInv, IndicesTypeOK
<1>2. /\ m.from \in Peer /\ m.files \in Files /\ state \in State
      /\ \A d \in Peer : d \in Device
  BY LocalIsDevice DEF IndicesInv, IndicesTypeOK
<1>3. /\ UpdateStored(m) /\ (lost => lost') /\ (panicked => panicked')
      /\ lost' \/ panicked' \/ UpdateTaken(m)
  BY UpdateEffect
<1>4. /\ state' \in State /\ Keeps(state, state', apart, renamed)
      /\ \A e \in Peer : AgreeOf(state', e, {})
      /\ \A e \in Peer : e # m.from => state'.rows[e] = state.rows[e]
      /\ \A n \in DOMAIN state'.rows[m.from] :
           \/ n \in DOMAIN state.rows[m.from] /\ state'.rows[m.from][n] = state.rows[m.from][n]
           \/ n \in DOMAIN m.files /\ state'.rows[m.from][n] = m.files[n] /\ ~m.files[n].deleted
  BY <1>3 DEF UpdateStored, FromUpdate
<1>5. IndicesTypeOK'
  BY <1>1, <1>4, HandledType
<1>6. AgreeOf(state', Local, apart') /\ AheadOf(state', renamed')
  BY <1>1, <1>4 DEF IndicesInv, Keeps
<1>7. OwnNewest'
  <2>1. NoNewer(m.files, m.from) /\ \A e \in Peer : NoNewer(state.rows[e], e)
    BY DEF IndicesInv, OwnNewest
  <2>2. NoNewer(state'.rows[m.from], m.from)
    BY <1>2, <1>4, <2>1 DEF NoNewer
  <2>3. \A e \in Peer : NoNewer(state'.rows[e], e)
    BY <1>4, <2>1, <2>2
  <2> QED
    BY <1>1, <2>3 DEF IndicesInv, OwnNewest, NoNewer
<1>8. ASSUME ~lost', ~panicked' PROVE DeletedKnown' /\ Announced'
  <2>1. DeletedKnown /\ Announced /\ UpdateTaken(m)
    BY <1>3, <1>8 DEF IndicesInv
  <2>2. \A d, n, k : \A q \in msgs : q.type = "Index" /\ Carries(q, d, n, k) => q \in msgs'
    BY <1>1
  <2>3. ASSUME NEW n \in DOMAIN m.files \ renamed, m.from \in connected, ~m.files[n].deleted
        PROVE  \/ Has(state', n, Top(m.files[n].version))
               \/ \E q \in msgs' : q.type = "Index" /\ Carries(q, m.from, n, Top(m.files[n].version))
    <3>1. PICK k \in Nat : k = Top(m.files[n].version)
      BY <1>2, FileIs
    <3>2. CASE /\ n \in DOMAIN state.rows[m.from] /\ state.rows[m.from][n].deleted
               /\ Top(state.rows[m.from][n].version) >= k
      <4>1. PICK j \in Nat : j = Top(state.rows[m.from][n].version)
        BY <1>2, <3>2, FileIs DEF State
      <4>2. j >= k /\ n \in Name
        BY <1>2, <3>2, <4>1, FileIs
      <4>3. CASE Has(state, n, j)
        <5>1. Has(state', n, j)
          BY <1>4, <4>2, <4>3 DEF Keeps
        <5> QED
          BY <1>4, <3>1, <4>2, <5>1, HasLess
      <4>4. ASSUME NEW q \in msgs, q.type = "Index", Carries(q, m.from, n, j)
            PROVE  q \in msgs' /\ Carries(q, m.from, n, k)
        <5>1. q.files \in Files /\ n \in DOMAIN q.files /\ Top(q.files[n].version) >= j
          BY <4>4 DEF IndicesInv, IndicesTypeOK, Carries
        <5>2. Top(q.files[n].version) \in Nat
          BY <5>1, FileIs
        <5>3. Top(q.files[n].version) >= k
          BY <4>2, <5>1, <5>2
        <5> QED
          BY <2>2, <4>4, <5>3 DEF Carries
      <4> QED
        BY <2>1, <2>3, <3>1, <3>2, <4>1, <4>3, <4>4 DEF DeletedKnown
    <3> QED
      BY <2>1, <2>3, <3>1, <3>2 DEF UpdateTaken
  <2>4. Announced'
    BY <1>1, <1>4, <2>1, <2>3, AnnouncedStep DEF IndicesInv
  <2>5. ASSUME NEW d \in connected, NEW n \in DOMAIN state'.rows[d] \ renamed,
               state'.rows[d][n].deleted
        PROVE  \/ Has(state', n, Top(state'.rows[d][n].version))
               \/ \E q \in msgs' : q.type = "Index" /\ Carries(q, d, n, Top(state'.rows[d][n].version))
    <3>1. d \in Peer
      BY DEF IndicesInv, IndicesTypeOK
    <3>2. n \in DOMAIN state.rows[d] /\ state'.rows[d][n] = state.rows[d][n]
      BY <1>4, <2>5, <3>1
    <3>3. n \in Name /\ Top(state.rows[d][n].version) \in Nat
      BY <1>2, <3>1, <3>2, FileIs DEF State
    <3> QED
      BY <1>4, <2>1, <2>2, <2>5, <3>2, <3>3 DEF DeletedKnown, Keeps
  <2>6. DeletedKnown'
    BY <1>1, <2>5 DEF DeletedKnown
  <2> QED
    BY <2>4, <2>6
<1> QED
  BY <1>4, <1>5, <1>6, <1>7, <1>8 DEF IndicesInv

-----------------------------------------------------------------------------
(* Renames touch two names of this device only.                            *)
IsWithout(w, files, S) ==
    /\ w \in Files /\ DOMAIN w = DOMAIN files \ S
    /\ \A x \in DOMAIN files \ S : w[x] = files[x]

LEMMA WithoutPart ==
    ASSUME NEW files \in Files, NEW S
    PROVE  IsWithout(Without(files, S), files, S)
BY WithoutIs DEF IsWithout

Untouched(a, b, x) == (x \in DOMAIN a <=> x \in DOMAIN b) /\ (x \in DOMAIN a => b[x] = a[x])
RenamedOnly(s, r, n, dest) ==
    /\ r \in State
    /\ \A e \in Peer : r.rows[e] = s.rows[e] /\ r.cache[e] = s.cache[e]
    /\ \A x : x \notin {n, dest} => Untouched(s.rows[Local], r.rows[Local], x)
    /\ s.cache[Local] # NotLoaded =>
         /\ r.cache[Local] # NotLoaded
         /\ \A x : x \notin {n, dest} => Untouched(s.cache[Local], r.cache[Local], x)
    /\ s.cache[Local] = NotLoaded /\ r.cache[Local] # NotLoaded =>
         DOMAIN r.cache[Local] \subseteq {n, dest}

LEMMA MoveIs ==
    ASSUME NEW s \in State, NEW n \in DOMAIN s.rows[Local], NEW dest \in Name
    PROVE  /\ RenamedOnly(s, mv_file_info(s, n, dest), n, dest)
           /\ mv_file_info(s, n, dest).cache = s.cache
<1>1. PICK r : r = mv_file_info(s, n, dest)
  OBVIOUS
<1>2. PICK f : f = s.rows[Local][n]
  OBVIOUS
<1>3. PICK one : one = [x \in {dest} |-> f]
  OBVIOUS
<1>4. PICK rest : rest = Without(s.rows[Local], {n})
  OBVIOUS
<1>5. PICK now : now = With(rest, one)
  OBVIOUS
<1>6. /\ s.rows \in [Device -> Files] /\ s.cache \in [Device -> Files \union {NotLoaded}]
      /\ s.rows[Local] \in Files /\ Local \in Device /\ \A e \in Peer : e \in Device /\ e # Local
  BY LocalIsDevice DEF State
<1>7. f \in FileInfo /\ one \in Files /\ DOMAIN one = {dest}
  <2>1. f \in FileInfo
    BY <1>2, <1>6, FileIs
  <2>2. one \in [{dest} -> FileInfo]
    BY <1>3, <2>1
  <2> QED
    BY <2>1, <2>2 DEF Files
<1>8. /\ rest \in Files /\ DOMAIN rest = DOMAIN s.rows[Local] \ {n}
      /\ \A x \in DOMAIN s.rows[Local] \ {n} : rest[x] = s.rows[Local][x]
  <2>1. IsWithout(rest, s.rows[Local], {n})
    BY <1>4, <1>6, WithoutPart
  <2> QED
    BY <2>1 DEF IsWithout
<1>9. /\ now \in Files /\ DOMAIN now = DOMAIN rest \union DOMAIN one
      /\ \A x \in DOMAIN rest \ DOMAIN one : now[x] = rest[x]
  <2>1. /\ With(rest, one) \in Files /\ DOMAIN With(rest, one) = DOMAIN rest \union DOMAIN one
        /\ \A x \in DOMAIN rest \ DOMAIN one : With(rest, one)[x] = rest[x]
    BY <1>7, <1>8, WithIs
  <2> QED
    BY <1>5, <2>1
<1>10. r = [s EXCEPT !.rows[Local] = now]
  BY <1>1, <1>2, <1>3, <1>4, <1>5 DEF mv_file_info
<1>11. r = [rows |-> [s.rows EXCEPT ![Local] = now], cache |-> s.cache]
  BY <1>10 DEF State
<1>12. PICK rows : rows = [s.rows EXCEPT ![Local] = now]
  OBVIOUS
<1>13. rows \in [Device -> Files] /\ rows[Local] = now /\ \A e \in Peer : rows[e] = s.rows[e]
  BY <1>6, <1>9, <1>12
<1>14. r \in State /\ r.rows = rows /\ r.cache = s.cache
  BY <1>6, <1>11, <1>12, <1>13 DEF State
<1>15. \A x : x \notin {n, dest} => Untouched(s.rows[Local], now, x)
  BY <1>7, <1>8, <1>9 DEF Untouched
<1>16. RenamedOnly(s, r, n, dest)
  BY <1>13, <1>14, <1>15 DEF RenamedOnly, Untouched
<1> QED
  BY <1>1, <1>14, <1>16

(* The insertion under the new name and the removal of the old.            *)
LEMMA ReinsertIs ==
    ASSUME NEW s \in State, NEW n \in DOMAIN s.rows[Local], NEW dest \in Name, dest # n,
           NEW r, r = rm_file_info(insert_file_info(s, Local, [x \in {dest} |-> s.rows[Local][n]]),
                                   Local, n)
    PROVE  /\ RenamedOnly(s, r, n, dest) /\ r.cache[Local] # NotLoaded
           /\ n \notin DOMAIN r.rows[Local] /\ n \notin DOMAIN r.cache[Local]
           /\ dest \notin DOMAIN s.rows[Local] => AgreeOn(r.cache[Local], r.rows[Local], dest)
<1>1. PICK f : f = s.rows[Local][n]
  OBVIOUS
<1>2. PICK one : one = [x \in {dest} |-> f]
  OBVIOUS
<1>3. PICK q : q = insert_file_info(s, Local, one)
  OBVIOUS
<1>4. PICK now : now = Without(q.rows[Local], {n})
  OBVIOUS
<1>5. PICK mem : mem = Without(InMemory(q, Local), {n})
  OBVIOUS
<1>6. s.rows[Local] \in Files /\ Local \in Device /\ \A e \in Peer : e \in Device /\ e # Local
  BY LocalIsDevice DEF State
<1>7. f \in FileInfo /\ one \in Files /\ DOMAIN one = {dest} /\ one[dest] = f
  <2>1. f \in FileInfo
    BY <1>1, <1>6, FileIs
  <2>2. one \in [{dest} -> FileInfo] /\ one[dest] = f
    BY <1>2, <2>1
  <2> QED
    BY <2>1, <2>2 DEF Files
<1>8. Inserted(q, s, Local, one)
  BY <1>3, <1>6, <1>7, InsertIs
<1>9. /\ q \in State /\ q.cache[Local] = With(InMemory(s, Local), one)
      /\ \A e \in Peer : q.rows[e] = s.rows[e] /\ q.cache[e] = s.cache[e]
      /\ DOMAIN q.rows[Local] = DOMAIN s.rows[Local] \union {dest}
      /\ \A x \in DOMAIN s.rows[Local] \ {dest} : q.rows[Local][x] = s.rows[Local][x]
      /\ dest \notin DOMAIN s.rows[Local] => q.rows[Local][dest] = f
  BY <1>6, <1>7, <1>8 DEF Inserted
<1>10. InMemory(s, Local) \in Files
  BY <1>6, InMemoryIs
<1>11. /\ q.cache[Local] \in Files
       /\ DOMAIN q.cache[Local] = DOMAIN InMemory(s, Local) \union {dest}
       /\ q.cache[Local][dest] = f
       /\ \A x \in DOMAIN InMemory(s, Local) \ {dest} : q.cache[Local][x] = InMemory(s, Local)[x]
  <2>1. PICK c : c = InMemory(s, Local)
    OBVIOUS
  <2>2. /\ With(c, one) \in Files
        /\ DOMAIN With(c, one) = DOMAIN c \union DOMAIN one
        /\ \A x \in DOMAIN one : With(c, one)[x] = one[x]
        /\ \A x \in DOMAIN c \ DOMAIN one : With(c, one)[x] = c[x]
    BY <1>7, <1>10, <2>1, WithIs
  <2> QED
    BY <1>7, <1>9, <2>1, <2>2
<1>12. InMemory(q, Local) = q.cache[Local] /\ q.rows[Local] \in Files
  BY <1>6, <1>9, <1>11, InMemoryIs, NotLoadedIs DEF State
<1>13. /\ now \in Files /\ DOMAIN now = DOMAIN q.rows[Local] \ {n}
       /\ \A x \in DOMAIN q.rows[Local] \ {n} : now[x] = q.rows[Local][x]
  <2>1. IsWithout(now, q.rows[Local], {n})
    BY <1>4, <1>12, WithoutPart
  <2> QED
    BY <2>1 DEF IsWithout
<1>14. /\ mem \in Files /\ DOMAIN mem = DOMAIN q.cache[Local] \ {n}
       /\ \A x \in DOMAIN q.cache[Local] \ {n} : mem[x] = q.cache[Local][x]
  <2>1. IsWithout(mem, q.cache[Local], {n})
    BY <1>5, <1>11, <1>12, WithoutPart
  <2> QED
    BY <2>1 DEF IsWithout
<1>15. r = Update(q, Local, now, mem)
  BY <1>1, <1>2, <1>3, <1>4, <1>5 DEF rm_file_info, Update
<1>16. IsUpdate(r, q, Local, now, mem)
  BY <1>6, <1>9, <1>13, <1>14, <1>15, Updated
<1>17. /\ r \in State /\ r.rows[Local] = now /\ r.cache[Local] = mem
       /\ \A e \in Peer : r.rows[e] = s.rows[e] /\ r.cache[e] = s.cache[e]
  BY <1>6, <1>9, <1>16 DEF IsUpdate
<1>18. \A x : x \notin {n, dest} => Untouched(s.rows[Local], now, x)
  BY <1>9, <1>13 DEF Untouched
<1>19. \A x : x \notin {n, dest} => Untouched(InMemory(s, Local), mem, x)
  BY <1>11, <1>14 DEF Untouched
<1>20. s.cache[Local] = NotLoaded => DOMAIN mem \subseteq {n, dest}
  BY <1>6, <1>11, <1>14, InMemoryIs, NoFilesIs
<1>21. s.cache[Local] # NotLoaded => InMemory(s, Local) = s.cache[Local]
  BY <1>6, InMemoryIs
<1>22. mem # NotLoaded
  BY <1>14, NotLoadedIs
<1>23. RenamedOnly(s, r, n, dest)
  BY <1>17, <1>18, <1>19, <1>20, <1>21, <1>22 DEF RenamedOnly
<1>24. dest \notin DOMAIN s.rows[Local] =>
         /\ dest \in DOMAIN now /\ now[dest] = f /\ dest \in DOMAIN mem /\ mem[dest] = f
  BY <1>9, <1>11, <1>13, <1>14
<1> QED
  BY <1>13, <1>14, <1>17, <1>22, <1>23, <1>24 DEF AgreeOn, SameFile

(* A rename keeps the invariant for the other names.                       *)
LEMMA RenamedStep ==
    ASSUME IndicesInv, NEW n \in Name, NEW dest \in Name,
           RenamedOnly(state, state', n, dest), renamed' = renamed \union {n, dest},
           UNCHANGED <<own, connected, msgs, lost, panicked>>,
           AgreeOf(state', Local, apart')
    PROVE  IndicesInv'
<1>1. /\ state' \in State /\ state \in State
      /\ \A e \in Peer : state'.rows[e] = state.rows[e] /\ state'.cache[e] = state.cache[e]
  BY DEF RenamedOnly, IndicesInv, IndicesTypeOK
<1>2. IndicesTypeOK'
  BY <1>1 DEF IndicesInv, IndicesTypeOK
<1>3. \A d \in Peer : AgreeOf(state', d, {})
  BY <1>1 DEF IndicesInv, AgreeOf
<1>4. AheadOf(state', renamed')
  BY DEF RenamedOnly, Untouched, IndicesInv, AheadOf
<1>5. OwnNewest'
  BY <1>1 DEF IndicesInv, OwnNewest, NoNewer
<1>6. \A x, k : x \notin renamed' /\ Has(state, x, k) => Has(state', x, k)
  BY DEF RenamedOnly, Untouched, Has
<1>7. \A d \in connected : d \in Peer
  BY DEF IndicesInv, IndicesTypeOK
<1>8. DeletedKnown => DeletedKnown'
  BY <1>1, <1>6, <1>7 DEF DeletedKnown
<1>9. Announced => Announced'
  BY <1>6 DEF Announced
<1> QED
  BY <1>2, <1>3, <1>4, <1>5, <1>8, <1>9 DEF IndicesInv

LEMMA RenameEffect ==
    ASSUME IndicesInv, NEW n \in Name, NEW dest \in Name, rename_mem(n, dest) \/ rename_db(n, dest)
    PROVE  /\ RenamedOnly(state, state', n, dest) /\ renamed' = renamed \union {n, dest}
           /\ AgreeOf(state', Local, apart')
           /\ UNCHANGED <<own, connected, msgs, lost, panicked>>
<1>1. /\ n \in DOMAIN state.rows[Local] /\ dest # n /\ renamed' = renamed \union {n, dest}
      /\ UNCHANGED <<own, connected, msgs, lost, panicked>>
  BY DEF rename_mem, rename_db, Renames, peers
<1>2. state \in State /\ AgreeOf(state, Local, apart)
  BY DEF IndicesInv, IndicesTypeOK
<1>3. CASE rename_mem(n, dest)
  <2>1. RenamedOnly(state, state', n, dest) /\ state'.cache = state.cache
    BY <1>1, <1>2, <1>3, MoveIs DEF rename_mem
  <2>2. apart' = apart \union {n, dest}
    BY <1>3 DEF rename_mem
  <2>3. AgreeOf(state', Local, apart')
    BY <1>2, <2>1, <2>2 DEF RenamedOnly, Untouched, AgreeOf, AgreeOn
  <2> QED
    BY <1>1, <2>1, <2>3
<1>4. CASE rename_db(n, dest)
  <2>1. state' = rm_file_info(insert_file_info(state, Local,
                                [x \in {dest} |-> state.rows[Local][n]]), Local, n)
    BY <1>4 DEF rename_db
  <2>2. /\ RenamedOnly(state, state', n, dest) /\ state'.cache[Local] # NotLoaded
        /\ n \notin DOMAIN state'.rows[Local] /\ n \notin DOMAIN state'.cache[Local]
        /\ dest \notin DOMAIN state.rows[Local] =>
             AgreeOn(state'.cache[Local], state'.rows[Local], dest)
    BY <1>1, <1>2, <2>1, ReinsertIs
  <2>3. apart' = apart \union (IF state.cache[Local] = NotLoaded THEN Name
                               ELSE {dest} \intersect DOMAIN state.rows[Local])
    BY <1>4 DEF rename_db
  <2>4. ASSUME NEW x \in Name \ apart' PROVE AgreeOn(state'.cache[Local], state'.rows[Local], x)
    <3>1. state.cache[Local] # NotLoaded /\ x \notin apart
          /\ (x = dest => dest \notin DOMAIN state.rows[Local])
      BY <2>3, <2>4
    <3>2. CASE x = n
      BY <2>2, <3>2 DEF AgreeOn
    <3>3. CASE x = dest
      BY <2>2, <3>1, <3>3
    <3>4. CASE x \notin {n, dest}
      <4>1. AgreeOn(state.cache[Local], state.rows[Local], x)
        BY <1>2, <2>4, <3>1 DEF AgreeOf
      <4> QED
        BY <2>2, <3>1, <3>4, <4>1 DEF RenamedOnly, Untouched, AgreeOn
    <3> QED
      BY <3>2, <3>3, <3>4
  <2> QED
    BY <1>1, <2>2, <2>4 DEF AgreeOf
<1> QED
  BY <1>3, <1>4

-----------------------------------------------------------------------------
(* A crash, and the peers.                                                 *)
LEMMA RestartStep ==
    ASSUME IndicesInv, Restart
    PROVE  /\ IndicesInv' /\ state'.rows = state.rows
<1>1. state \in State /\ Local \in Device
  BY LocalIsDevice DEF IndicesInv, IndicesTypeOK
<1>2. /\ state' = [state EXCEPT !.cache = [d \in Device |-> NotLoaded]]
      /\ connected' = {} /\ msgs' = {} /\ UNCHANGED <<own, lost, panicked>>
  BY DEF Restart
<1>3. state' \in State /\ state'.rows = state.rows /\ \A d \in Device : state'.cache[d] = NotLoaded
  BY <1>1, <1>2 DEF State
<1>4. IndicesTypeOK'
  BY <1>2, <1>3 DEF IndicesInv, IndicesTypeOK
<1>5. (\A d \in Peer : AgreeOf(state', d, {})) /\ AgreeOf(state', Local, apart') /\ AheadOf(state', renamed')
  BY <1>1, <1>3, LocalIsDevice DEF AgreeOf, AheadOf
<1>6. OwnNewest'
  BY <1>2, <1>3 DEF IndicesInv, OwnNewest, NoNewer
<1>7. DeletedKnown' /\ Announced'
  BY <1>2 DEF DeletedKnown, Announced
<1> QED
  BY <1>3, <1>4, <1>5, <1>6, <1>7 DEF IndicesInv

LEMMA ConnectStep ==
    ASSUME IndicesInv, NEW d \in Peer, Connect(d)
    PROVE  IndicesInv'
<1> DEFINE config == [type |-> "ClusterConfig", from |-> d, files |-> NoFiles]
           full == [type |-> "Index", from |-> d, files |-> own[d]]
<1>1. /\ connected' = connected \union {d} /\ msgs' = msgs \union {config, full}
      /\ UNCHANGED <<own, state, renamed, apart, lost, panicked>>
  BY DEF Connect, local, renames
<1>2. /\ config.type = "ClusterConfig" /\ config.from = d /\ config.files = NoFiles
      /\ full.type = "Index" /\ full.from = d /\ full.files = own[d]
  OBVIOUS
<1> HIDE DEF config, full
<1>3. own[d] \in Files /\ NoFiles \in Files /\ DOMAIN NoFiles = {}
  BY NoFilesIs DEF IndicesInv, IndicesTypeOK
<1>4. IndicesTypeOK'
  BY <1>1, <1>2, <1>3 DEF IndicesInv, IndicesTypeOK, MsgType
<1>5. \A n \in DOMAIN own[d] : Top(own[d][n].version) \in Nat
  BY <1>3, FileIs
<1>6. OwnNewest'
  <2>1. NoNewer(own[d], d) /\ NoNewer(NoFiles, d)
    BY <1>3, <1>5 DEF NoNewer
  <2>2. \A m \in msgs' : NoNewer(m.files, m.from)
    BY <1>1, <1>2, <2>1 DEF IndicesInv, OwnNewest
  <2> QED
    BY <1>1, <2>2 DEF IndicesInv, OwnNewest, NoNewer
<1>7. DeletedKnown => DeletedKnown'
  <2>1. ASSUME NEW n \in DOMAIN state.rows[d] PROVE Carries(full, d, n, Top(state.rows[d][n].version))
    <3>1. n \in DOMAIN own[d] /\ Top(state.rows[d][n].version) <= Top(own[d][n].version)
      BY <2>1 DEF IndicesInv, OwnNewest, NoNewer
    <3>2. Top(state.rows[d][n].version) \in Nat
      BY <2>1, FileIs, LocalIsDevice DEF IndicesInv, IndicesTypeOK, State
    <3> QED
      BY <1>2, <1>5, <3>1, <3>2 DEF Carries
  <2> QED
    BY <1>1, <1>2, <2>1 DEF DeletedKnown
<1>8. Announced => Announced'
  <2>1. \A n \in DOMAIN own[d] : Carries(full, d, n, Top(own[d][n].version))
    BY <1>2, <1>5 DEF Carries
  <2> QED
    BY <1>1, <1>2, <2>1 DEF Announced
<1> QED
  BY <1>1, <1>4, <1>6, <1>7, <1>8 DEF IndicesInv

LEMMA DisconnectStep ==
    ASSUME IndicesInv, NEW d \in Peer, Disconnect(d)
    PROVE  IndicesInv'
<1>1. /\ connected' = connected \ {d}
      /\ UNCHANGED <<own, msgs, state, renamed, apart, lost, panicked>>
  BY DEF Disconnect, local, renames
<1>2. IndicesTypeOK'
  BY <1>1 DEF IndicesInv, IndicesTypeOK
<1>3. OwnNewest'
  BY <1>1 DEF IndicesInv, OwnNewest, NoNewer
<1>4. (DeletedKnown => DeletedKnown') /\ (Announced => Announced')
  BY <1>1 DEF DeletedKnown, Announced
<1> QED
  BY <1>1, <1>2, <1>3, <1>4 DEF IndicesInv

(* A change at a peer: the file gets no smaller a largest counter, and a   *)
(* connected peer announces it.                                            *)
LEMMA AnnounceStep ==
    ASSUME IndicesInv, NEW d \in Peer, NEW n \in Name, NEW f \in FileInfo, Announce(d, n, f),
           n \in DOMAIN own[d] => Top(f.version) >= Top(own[d][n].version)
    PROVE  IndicesInv' /\ UNCHANGED state
<1>1. PICK one : one = [x \in {n} |-> f]
  OBVIOUS
<1>2. PICK msg : msg = [type |-> "IndexUpdate", from |-> d, files |-> one]
  OBVIOUS
<1>3. PICK new : new = With(own[d], one)
  OBVIOUS
<1>4. /\ own' = [own EXCEPT ![d] = new]
      /\ msgs' = IF d \in connected THEN msgs \union {msg} ELSE msgs
      /\ UNCHANGED <<connected, state, renamed, apart, lost, panicked>>
  BY <1>1, <1>2, <1>3 DEF Announce, local, renames
<1>5. one \in Files /\ DOMAIN one = {n} /\ one[n] = f
  <2>1. one \in [{n} -> FileInfo] /\ one[n] = f
    BY <1>1
  <2> QED
    BY <2>1 DEF Files
<1>6. msg.type = "IndexUpdate" /\ msg.from = d /\ msg.files = one
  BY <1>2
<1>7. own \in [Peer -> Files] /\ own[d] \in Files
  BY DEF IndicesInv, IndicesTypeOK
<1>8. /\ new \in Files /\ DOMAIN new = DOMAIN own[d] \union {n}
      /\ new[n] = f /\ \A x \in DOMAIN own[d] \ {n} : new[x] = own[d][x]
  <2>1. /\ With(own[d], one) \in Files
        /\ DOMAIN With(own[d], one) = DOMAIN own[d] \union DOMAIN one
        /\ \A x \in DOMAIN one : With(own[d], one)[x] = one[x]
        /\ \A x \in DOMAIN own[d] \ DOMAIN one : With(own[d], one)[x] = own[d][x]
    BY <1>5, <1>7, WithIs
  <2> QED
    BY <1>3, <1>5, <2>1
<1>9. own' \in [Peer -> Files] /\ own'[d] = new /\ \A e \in Peer : e # d => own'[e] = own[e]
  BY <1>4, <1>7, <1>8
<1>10. IndicesTypeOK'
  BY <1>4, <1>5, <1>6, <1>9 DEF IndicesInv, IndicesTypeOK, MsgType
<1>11. Top(f.version) \in Nat
  BY TopOf DEF FileInfo
<1>12. OwnNewest'
  <2>1. ASSUME NEW files \in Files, NEW e \in Peer, NoNewer(files, e)
        PROVE  \A x \in DOMAIN files : x \in DOMAIN own'[e]
                 /\ Top(files[x].version) <= Top(own'[e][x].version)
    <3> SUFFICES ASSUME NEW x \in DOMAIN files
                 PROVE  x \in DOMAIN own'[e] /\ Top(files[x].version) <= Top(own'[e][x].version)
      OBVIOUS
    <3>1. x \in DOMAIN own[e] /\ Top(files[x].version) <= Top(own[e][x].version)
      BY <2>1 DEF NoNewer
    <3>2. Top(files[x].version) \in Nat /\ own[e] \in Files
      BY <1>7, FileIs
    <3>3. Top(own[e][x].version) \in Nat
      BY <3>1, <3>2, FileIs
    <3>4. CASE e = d /\ x = n
      <4>1. Top(f.version) >= Top(own[d][n].version)
        BY <3>1, <3>4
      <4>2. Top(files[x].version) <= Top(f.version)
        BY <1>11, <3>1, <3>2, <3>3, <3>4, <4>1
      <4> QED
        BY <1>8, <1>9, <3>4, <4>2
    <3>5. CASE e = d /\ x # n
      BY <1>8, <1>9, <3>1, <3>5
    <3>6. CASE e # d
      BY <1>9, <3>1, <3>6
    <3> QED
      BY <3>4, <3>5, <3>6
  <2>2. \A e \in Peer : state.rows[e] \in Files /\ NoNewer(state.rows[e], e)
    BY LocalIsDevice DEF IndicesInv, IndicesTypeOK, OwnNewest, State
  <2>3. \A m \in msgs : m.files \in Files /\ m.from \in Peer /\ NoNewer(m.files, m.from)
    BY DEF IndicesInv, IndicesTypeOK, OwnNewest
  <2>4. \A x \in DOMAIN one : x \in DOMAIN own'[d] /\ Top(one[x].version) <= Top(own'[d][x].version)
    BY <1>5, <1>8, <1>9, <1>11
  <2>5. \A m \in msgs' : \A x \in DOMAIN m.files :
          x \in DOMAIN own'[m.from] /\ Top(m.files[x].version) <= Top(own'[m.from][x].version)
    BY <1>4, <1>6, <2>1, <2>3, <2>4
  <2> QED
    BY <1>4, <2>1, <2>2, <2>5 DEF OwnNewest, NoNewer
<1>13. DeletedKnown => DeletedKnown'
  BY <1>4 DEF DeletedKnown
<1>14. ASSUME Announced PROVE Announced'
  <2> SUFFICES ASSUME NEW e \in connected, NEW x \in DOMAIN own'[e] \ renamed,
                      ~own'[e][x].deleted
               PROVE  \/ Has(state, x, Top(own'[e][x].version))
                      \/ \E m \in msgs' : /\ Carries(m, e, x, Top(own'[e][x].version))
                                          /\ m.type = "Index" \/ ~m.files[x].deleted
    BY <1>4 DEF Announced
  <2>0. e \in Peer
    BY DEF IndicesInv, IndicesTypeOK
  <2>1. CASE e = d /\ x = n
    <3>1. own'[e][x] = f /\ msg \in msgs'
      BY <1>4, <1>8, <1>9, <2>1
    <3>2. Carries(msg, e, x, Top(f.version)) /\ ~msg.files[x].deleted
      BY <1>5, <1>6, <1>11, <2>1, <3>1 DEF Carries
    <3> QED
      BY <3>1, <3>2
  <2>2. CASE ~(e = d /\ x = n)
    <3>1. x \in DOMAIN own[e] /\ own'[e][x] = own[e][x]
      BY <1>8, <1>9, <2>0, <2>2
    <3>2. \/ Has(state, x, Top(own[e][x].version))
          \/ \E m \in msgs : /\ Carries(m, e, x, Top(own[e][x].version))
                             /\ m.type = "Index" \/ ~m.files[x].deleted
      BY <1>14, <3>1 DEF Announced
    <3>3. msgs \subseteq msgs'
      BY <1>4
    <3> QED
      BY <3>1, <3>2, <3>3
  <2> QED
    BY <2>1, <2>2
<1> QED
  BY <1>4, <1>10, <1>12, <1>13, <1>14 DEF IndicesInv

LEMMA VersionIs ==
    ASSUME IndicesTypeOK, NEW d \in Peer, NEW n
    PROVE  /\ Version(d, n) \in Vector \union {{}}
           /\ n \in DOMAIN own[d] => Version(d, n) = own[d][n].version /\ Version(d, n) \in Vector
BY FileIs DEF IndicesTypeOK, Version

LEMMA EditStep ==
    ASSUME IndicesInv, NEW d \in Peer, NEW n \in Name, Edit(d, n)
    PROVE  IndicesInv' /\ UNCHANGED state
<1>1. PICK time \in Clock[d, n], deleted \in BOOLEAN :
        Announce(d, n, [version |-> Bumped(d, Version(d, n)), modified |-> time, deleted |-> deleted])
  BY DEF Edit
<1>2. PICK v : v = Bumped(d, Version(d, n))
  OBVIOUS
<1>3. PICK f : f = [version |-> v, modified |-> time, deleted |-> deleted]
  OBVIOUS
<1>4. d \in Nat /\ time \in Nat
  <2>1. <<d, n>> \in Peer \X Name
    OBVIOUS
  <2>2. Clock[<<d, n>>] \in SUBSET Nat
    BY <2>1, IndicesAssumption
  <2> QED
    BY <2>2, IndicesAssumption
<1>5. v \in Vector /\ (n \in DOMAIN own[d] => Top(v) >= Top(own[d][n].version))
  <2>1. /\ Version(d, n) \in Vector \union {{}}
        /\ n \in DOMAIN own[d] => Version(d, n) = own[d][n].version /\ Version(d, n) \in Vector
    BY VersionIs DEF IndicesInv
  <2>2. {} \notin Vector
    BY DEF Vector
  <2>3. v \in Vector /\ (Version(d, n) # {} => Top(v) >= Top(Version(d, n)))
    BY <1>2, <1>4, <2>1, BumpedVector
  <2> QED
    BY <2>1, <2>2, <2>3
<1>6. f \in FileInfo /\ f.version = v
  BY <1>3, <1>4, <1>5 DEF FileInfo
<1> QED
  BY <1>1, <1>2, <1>3, <1>5, <1>6, AnnounceStep

LEMMA SyncStep ==
    ASSUME IndicesInv, NEW d \in Peer, NEW e \in Peer, NEW n \in Name, Sync(d, e, n)
    PROVE  IndicesInv' /\ UNCHANGED state
<1>1. PICK g : g = own[e][n]
  OBVIOUS
<1>2. PICK w : w = Version(d, n) \union g.version
  OBVIOUS
<1>3. PICK f : f = [g EXCEPT !.version = MergedVector(w)]
  OBVIOUS
<1>4. n \in DOMAIN own[e] /\ Announce(d, n, f)
  BY <1>1, <1>2, <1>3 DEF Sync, MergedVector
<1>5. g \in FileInfo /\ g.version \in Vector
  BY <1>1, <1>4, FileIs DEF IndicesInv, IndicesTypeOK
<1>6. /\ Version(d, n) \in Vector \union {{}}
      /\ n \in DOMAIN own[d] => Version(d, n) = own[d][n].version /\ Version(d, n) \in Vector
  BY VersionIs DEF IndicesInv
<1>7. w \in Vector /\ (Version(d, n) \in Vector => Top(w) >= Top(Version(d, n)))
  <2>1. CASE Version(d, n) = {}
    <3>1. w = g.version /\ {} \notin Vector
      BY <1>2, <2>1 DEF Vector
    <3> QED
      BY <1>5, <2>1, <3>1
  <2>2. CASE Version(d, n) \in Vector
    BY <1>2, <1>5, <2>2, VectorUnion
  <2> QED
    BY <1>6, <2>1, <2>2
<1>8. MergedVector(w) \in Vector /\ Top(MergedVector(w)) >= Top(w)
  BY <1>7, MergedVectorIs
<1>9. f \in FileInfo /\ f.version = MergedVector(w)
  BY <1>3, <1>5, <1>8 DEF FileInfo
<1>10. n \in DOMAIN own[d] => Top(f.version) >= Top(own[d][n].version)
  BY <1>6, <1>7, <1>8, <1>9, TopOf
<1> QED
  BY <1>4, <1>9, <1>10, AnnounceStep

-----------------------------------------------------------------------------
(* The invariant holds initially and in every behaviour.                   *)
LEMMA IndicesInit == Init => IndicesInv
<1> SUFFICES ASSUME Init PROVE IndicesInv
  OBVIOUS
<1>1. NoFiles \in Files /\ DOMAIN NoFiles = {}
  BY NoFilesIs
<1>2. state \in State /\ \A d \in Device : state.rows[d] = NoFiles /\ state.cache[d] = NotLoaded
  BY <1>1 DEF Init, State
<1>3. IndicesTypeOK
  BY <1>1, <1>2 DEF Init, IndicesTypeOK
<1>4. (\A d \in Peer : AgreeOf(state, d, {})) /\ AgreeOf(state, Local, apart) /\ AheadOf(state, renamed)
  BY <1>2, LocalIsDevice DEF AgreeOf, AheadOf
<1>5. OwnNewest
  BY <1>1, <1>2, LocalIsDevice DEF Init, OwnNewest, NoNewer
<1>6. DeletedKnown /\ Announced
  BY DEF Init, DeletedKnown, Announced
<1> QED
  BY <1>3, <1>4, <1>5, <1>6 DEF IndicesInv

LEMMA IndicesNext ==
    ASSUME IndicesInv, [Next]_vars
    PROVE  IndicesInv'
<1>1. ASSUME NEW m \in msgs,
             handle_cluster_config(m) \/ handle_index(m) \/ handle_index_update(m)
      PROVE  IndicesInv'
  BY <1>1, ConfigStep, IndexStep, UpdateStep
<1>2. CASE PeerStep
  BY <1>2, ConnectStep, DisconnectStep, EditStep, SyncStep DEF PeerStep
<1>3. CASE Restart
  BY <1>3, RestartStep
<1>4. ASSUME NEW n \in Name, NEW dest \in Name, rename_mem(n, dest) \/ rename_db(n, dest)
      PROVE  IndicesInv'
  BY <1>4, RenameEffect, RenamedStep
<1>5. CASE UNCHANGED vars
  <2>1. UNCHANGED <<own, connected, msgs, state, renamed, apart, lost, panicked>>
    BY <1>5 DEF vars, peers, local, renames
  <2>2. UNCHANGED <<IndicesTypeOK, OwnNewest, DeletedKnown, Announced>>
    BY <2>1 DEF IndicesTypeOK, OwnNewest, NoNewer, DeletedKnown, Announced
  <2> QED
    BY <2>1, <2>2 DEF IndicesInv
<1> QED
  BY <1>1, <1>2, <1>3, <1>4, <1>5 DEF Next, Handle

THEOREM IndicesInvariant == Spec => []IndicesInv
<1>1. Init => IndicesInv
  BY IndicesInit
<1>2. IndicesInv /\ [Next]_vars => IndicesInv'
  BY IndicesNext
<1> QED
  BY <1>1, <1>2, PTL DEF Spec

-----------------------------------------------------------------------------
(* The properties of the specification.                                    *)

(* The index in memory says of every file what the database says, but for  *)
(* the names a rename left apart (index, insert_file_info and the          *)
(* handlers in bep_processor.rs).                                          *)
THEOREM CacheAgreement == Spec => []CacheAgrees
<1>1. ASSUME IndicesInv PROVE CacheAgrees
  <2>1. \A d \in Device : (d \in Peer /\ d # Local) \/ d = Local
    BY LocalIsDevice DEF Device
  <2>2. \A d \in Device : AgreeOf(state, d, IF d = Local THEN apart ELSE {})
    BY <1>1, <2>1 DEF IndicesInv
  <2> QED
    BY <2>2, CacheAgreesIs
<1> QED
  BY <1>1, IndicesInvariant, PTL

(* Once the messages of a peer are handled this device has every file of   *)
(* it, in no older version (handle_index and handle_index_update).         *)
LEMMA HasMissed ==
    ASSUME NEW n, NEW f \in FileInfo, state \in State, n \notin renamed,
           AheadOf(state, renamed), Has(state, n, Top(f.version))
    PROVE  ~Missed(n, f)
<1>1. PICK rows : rows = state.rows[Local]
  OBVIOUS
<1>2. PICK cache : cache = state.cache[Local]
  OBVIOUS
<1>3. /\ n \in DOMAIN cache /\ Top(cache[n].version) >= Top(f.version)
      /\ n \in DOMAIN rows /\ Top(rows[n].version) >= Top(cache[n].version)
  BY <1>1, <1>2 DEF Has, AheadOf
<1>4. rows \in Files /\ cache \in Files
  BY <1>1, <1>2, LocalIsDevice DEF State, Has
<1>5. /\ rows[n].version \in Vector /\ Top(rows[n].version) \in Nat
      /\ Top(cache[n].version) \in Nat
  BY <1>3, <1>4, FileIs
<1>6. f.version \in Vector /\ Top(f.version) \in Nat
  BY TopOf DEF FileInfo
<1>7. \/ Top(rows[n].version) = Top(f.version)
      \/ Top(f.version) < Top(rows[n].version)
  BY <1>3, <1>5, <1>6
<1>8. Top(f.version) < Top(rows[n].version) => ~Before(rows[n].version, f.version)
  BY <1>5, <1>6, NotBefore
<1> QED
  BY <1>1, <1>3, <1>7, <1>8 DEF Missed, Top

THEOREM EverythingTaken == Spec => []NothingMissed
<1>1. ASSUME IndicesInv PROVE NothingMissed
  <2> SUFFICES ASSUME ~lost, ~panicked, NEW d \in connected, ~ \E m \in msgs : m.from = d,
                      NEW n \in DOMAIN own[d] \ renamed, ~own[d][n].deleted
               PROVE  ~Missed(n, own[d][n])
    BY DEF NothingMissed
  <2>1. Has(state, n, Top(own[d][n].version))
    BY <1>1 DEF IndicesInv, Announced, Carries
  <2>2. own[d][n] \in FileInfo
    BY <1>1, FileIs DEF IndicesInv, IndicesTypeOK
  <2> QED
    BY <1>1, <2>1, <2>2, HasMissed DEF IndicesInv, IndicesTypeOK
<1> QED
  BY <1>1, IndicesInvariant, PTL

(* What a step may do to the rows of this device.                          *)
LEMMA RowsStep ==
    ASSUME IndicesInv, [Next]_vars
    PROVE  \/ state'.rows = state.rows
           \/ \E m \in msgs : /\ m.type = "Index" /\ msgs' = msgs \ {m}
                              /\ IndexStored(m)
           \/ \E m \in msgs : UpdateStored(m)
           \/ \E n, dest \in Name : /\ RenamedOnly(state, state', n, dest)
                                    /\ renamed' = renamed \union {n, dest}
<1>1. ASSUME NEW m \in msgs, handle_cluster_config(m) PROVE state'.rows = state.rows
  BY <1>1, IndexIs, LocalIsDevice DEF handle_cluster_config, indices, IndicesInv, IndicesTypeOK
<1>2. ASSUME NEW m \in msgs, handle_index(m)
      PROVE  \/ state'.rows = state.rows
             \/ m.type = "Index" /\ msgs' = msgs \ {m} /\ IndexStored(m)
  <2>1. m.type = "Index" /\ msgs' = msgs \ {m}
    BY <1>2 DEF handle_index, Handled
  <2> QED
    BY <1>2, <2>1, IndexEffect DEF IndicesInv
<1>3. ASSUME NEW m \in msgs, handle_index_update(m) PROVE UpdateStored(m)
  BY <1>3, UpdateEffect
<1>4. CASE PeerStep
  <2>1. ASSUME NEW d \in Peer, Connect(d) \/ Disconnect(d) PROVE UNCHANGED state
    BY <2>1 DEF Connect, Disconnect, local
  <2> QED
    BY <1>4, <2>1, EditStep, SyncStep DEF PeerStep
<1>5. CASE Restart
  BY <1>5, RestartStep
<1>6. ASSUME NEW n \in Name, NEW dest \in Name, rename_mem(n, dest) \/ rename_db(n, dest)
      PROVE  RenamedOnly(state, state', n, dest) /\ renamed' = renamed \union {n, dest}
  BY <1>6, RenameEffect
<1>7. CASE UNCHANGED vars
  BY <1>7 DEF vars, local
<1> QED
  BY <1>1, <1>2, <1>3, <1>4, <1>5, <1>6, <1>7 DEF Next, Handle

LEMMA NotBack ==
    ASSUME IndicesInv, IndicesInv', [Next]_vars,
           NEW n \in DOMAIN state.rows[Local] \ (renamed' \union apart)
    PROVE  /\ n \in DOMAIN state'.rows[Local]
           /\ ~Before(state'.rows[Local][n].version, state.rows[Local][n].version)
<1>1. PICK old : old = state.rows[Local]
  OBVIOUS
<1>2. PICK new : new = state'.rows[Local]
  OBVIOUS
<1>3. old \in Files /\ new \in Files
  BY <1>1, <1>2, LocalIsDevice DEF IndicesInv, IndicesTypeOK, State
<1>4. n \in DOMAIN old /\ n \notin renamed' /\ n \notin apart
  BY <1>1
<1>5. /\ n \in DOMAIN new
      /\ old[n].version \subseteq new[n].version \/ Top(old[n].version) < Top(new[n].version)
  <2>1. CASE state'.rows = state.rows
    BY <1>1, <1>2, <1>4, <2>1
  <2>2. ASSUME NEW m \in msgs, IndexStored(m)
        PROVE  n \in DOMAIN new /\ old[n].version \subseteq new[n].version
    BY <1>1, <1>2, <1>4, <2>2 DEF IndexStored
  <2>3. ASSUME NEW m \in msgs, UpdateStored(m)
        PROVE  /\ n \in DOMAIN new
               /\ new[n] = old[n] \/ Top(old[n].version) < Top(new[n].version)
    BY <1>1, <1>2, <1>4, <2>3 DEF UpdateStored
  <2>4. ASSUME NEW a \in Name, NEW b \in Name, RenamedOnly(state, state', a, b),
               renamed' = renamed \union {a, b}
        PROVE  n \in DOMAIN new /\ new[n] = old[n]
    BY <1>1, <1>2, <1>4, <2>4 DEF RenamedOnly, Untouched
  <2> QED
    BY <2>1, <2>2, <2>3, <2>4, RowsStep
<1>6. old[n].version \in Vector /\ new[n].version \in Vector
  BY <1>3, <1>4, <1>5, FileIs
<1> QED
  BY <1>1, <1>2, <1>5, <1>6, NotBefore

(* No message takes a file of this device back to an older version or      *)
(* away: handle_index keeps the counters it overwrites, and                *)
(* handle_index_update stores only a larger largest counter.               *)
THEOREM NothingTakenBack == Spec => NeverBack
<1>1. IndicesInv /\ IndicesInv' /\ [Next]_vars =>
        [\A n \in DOMAIN state.rows[Local] \ (renamed' \union apart) :
           /\ n \in DOMAIN state'.rows[Local]
           /\ ~Before(state'.rows[Local][n].version, state.rows[Local][n].version)]_vars
  BY NotBack
<1> QED
  BY <1>1, IndicesInvariant, PTL DEF Spec, NeverBack

LEMMA DeletedBy ==
    ASSUME IndicesInv, [Next]_vars,
           NEW n \in DOMAIN state'.rows[Local] \ renamed',
           state'.rows[Local][n].deleted,
           n \in DOMAIN state.rows[Local] => ~state.rows[Local][n].deleted
    PROVE  \E m \in msgs \ msgs' : m.type = "Index" /\ n \in DOMAIN m.files
<1>1. state'.rows # state.rows
  OBVIOUS
<1>2. ASSUME NEW m \in msgs, UpdateStored(m) PROVE FALSE
  BY <1>2 DEF UpdateStored
<1>3. ASSUME NEW a \in Name, NEW b \in Name, RenamedOnly(state, state', a, b),
             renamed' = renamed \union {a, b}
      PROVE  FALSE
  BY <1>3 DEF RenamedOnly, Untouched
<1>4. PICK m \in msgs : m.type = "Index" /\ msgs' = msgs \ {m} /\ IndexStored(m)
  BY <1>1, <1>2, <1>3, RowsStep
<1>5. n \in DOMAIN m.files
  BY <1>4 DEF IndexStored
<1> QED
  BY <1>4, <1>5

(* A deletion that a peer announces marks a file of this device deleted    *)
(* only with a full Index (Kept in rm_replace_file_info).                  *)
THEOREM DeletionByIndex == Spec => DeletedOnlyByIndex
<1>1. IndicesInv /\ [Next]_vars =>
        [\A n \in DOMAIN state'.rows[Local] \ renamed' :
           /\ state'.rows[Local][n].deleted
           /\ n \in DOMAIN state.rows[Local] => ~state.rows[Local][n].deleted
           => \E m \in msgs \ msgs' : m.type = "Index" /\ n \in DOMAIN m.files]_vars
  BY DeletedBy
<1> QED
  BY <1>1, IndicesInvariant, PTL DEF Spec, DeletedOnlyByIndex
=============================================================================
