---------------------------- MODULE FuseTreeProofs ----------------------------
(***************************************************************************)
(* The tree is what the last refresh read, references die only with their  *)
(* rows, and no rename loses an object: for any folders, rows, names and   *)
(* numbers of renames, changes, failures and crashes.                      *)
(***************************************************************************)
EXTENDS FuseTree, FiniteSetTheorems, SequenceTheorems, TLAPS

-----------------------------------------------------------------------------
(* Sequences.                                                              *)
LEMMA InSeqSet ==
    ASSUME NEW S, NEW s \in Seq(S)
    PROVE  /\ Len(s) \in Nat /\ ToSet(s) \subseteq S
           /\ \A x : x \in ToSet(s) <=> \E i \in 1 .. Len(s) : s[i] = x
<1>1. DOMAIN s = 1 .. Len(s) /\ Len(s) \in Nat
  BY LenProperties
<1>2. \A i \in 1 .. Len(s) : s[i] \in S
  BY ElementOfSeq
<1> QED
  BY <1>1, <1>2 DEF ToSet

LEMMA EmptyOrNot ==
    ASSUME NEW S, NEW s \in Seq(S)
    PROVE  /\ s = <<>> <=> Len(s) = 0
           /\ s = <<>> => ToSet(s) = {}
<1>1. Len(s) = 0 <=> s = <<>>
  BY EmptySeq
<1>2. ASSUME s = <<>> PROVE ToSet(s) = {}
  <2>1. \A i \in 1 .. Len(s) : FALSE
    BY <1>1, <1>2
  <2>2. \A x : x \in ToSet(s) <=> \E i \in 1 .. Len(s) : s[i] = x
    BY InSeqSet
  <2> QED
    BY <2>1, <2>2
<1> QED
  BY <1>1, <1>2

LEMMA HeadAndTail ==
    ASSUME NEW S, NEW s \in Seq(S), s # <<>>
    PROVE  /\ Head(s) \in S /\ Tail(s) \in Seq(S) /\ Len(Tail(s)) = Len(s) - 1
           /\ Head(s) = s[1] /\ Len(s) \in Nat /\ Len(s) > 0
           /\ ToSet(s) = {Head(s)} \cup ToSet(Tail(s))
<1>1. Len(s) \in Nat /\ Len(s) > 0
  BY EmptyOrNot, InSeqSet
<1>2. PICK t : t = Tail(s)
  OBVIOUS
<1>3. /\ t \in Seq(S) /\ Len(t) = Len(s) - 1 /\ Head(s) \in S
      /\ \A i \in 1 .. Len(t) : t[i] = s[i + 1]
  BY <1>2, HeadTailProperties
<1>4. Head(s) = s[1]
  OBVIOUS
<1>5. \A x : x \in ToSet(s) <=> \E i \in 1 .. Len(s) : s[i] = x
  BY InSeqSet
<1>6. \A x : x \in ToSet(t) <=> \E i \in 1 .. Len(t) : t[i] = x
  BY <1>3, InSeqSet
<1>7. ASSUME NEW x \in ToSet(s) PROVE x = Head(s) \/ x \in ToSet(t)
  <2>1. PICK i \in 1 .. Len(s) : s[i] = x
    BY <1>5
  <2>2. CASE i = 1
    BY <2>1, <2>2, <1>4
  <2>3. CASE i # 1
    <3>1. PICK j : j = i - 1
      OBVIOUS
    <3>2. j \in 1 .. Len(t) /\ i = j + 1
      BY <1>1, <1>3, <2>3, <3>1
    <3>3. t[j] = x
      BY <1>3, <2>1, <3>2
    <3> QED
      BY <1>6, <3>2, <3>3
  <2> QED
    BY <2>2, <2>3
<1>8. Head(s) \in ToSet(s)
  <2>1. 1 \in 1 .. Len(s)
    BY <1>1
  <2> QED
    BY <2>1, <1>4, <1>5
<1>9. ASSUME NEW x \in ToSet(t) PROVE x \in ToSet(s)
  <2>1. PICK j \in 1 .. Len(t) : t[j] = x
    BY <1>6
  <2>2. PICK i : i = j + 1
    OBVIOUS
  <2>3. i \in 1 .. Len(s) /\ s[i] = x
    BY <1>1, <1>3, <2>1, <2>2
  <2> QED
    BY <2>3, <1>5
<1> QED
  BY <1>1, <1>2, <1>3, <1>4, <1>7, <1>8, <1>9

LEMMA AppendedSet ==
    ASSUME NEW S, NEW s \in Seq(S), NEW x \in S
    PROVE  Append(s, x) \in Seq(S) /\ ToSet(Append(s, x)) = ToSet(s) \cup {x}
<1>1. Len(s) \in Nat
  BY InSeqSet
<1>2. PICK t : t = Append(s, x)
  OBVIOUS
<1>3. /\ t \in Seq(S) /\ Len(t) = Len(s) + 1 /\ t[Len(s) + 1] = x
      /\ \A i \in 1 .. Len(s) : t[i] = s[i]
  BY <1>2, AppendProperties
<1>4. \A i \in 1 .. Len(t) : i \in 1 .. Len(s) \/ i = Len(s) + 1
  BY <1>1, <1>3
<1>5. Len(s) + 1 \in 1 .. Len(t) /\ \A i \in 1 .. Len(s) : i \in 1 .. Len(t)
  BY <1>1, <1>3
<1>6. \A y : y \in ToSet(s) <=> \E i \in 1 .. Len(s) : s[i] = y
  BY InSeqSet
<1>7. \A y : y \in ToSet(t) <=> \E i \in 1 .. Len(t) : t[i] = y
  BY <1>3, InSeqSet
<1>8. \A y : y \in ToSet(t) <=> y \in ToSet(s) \cup {x}
  BY <1>3, <1>4, <1>5, <1>6, <1>7
<1> QED
  BY <1>2, <1>3, <1>8

LEMMA IntervalSize ==
    ASSUME NEW n \in Nat
    PROVE  Cardinality(1 .. n) = n
<1>1. PICK a \in Int : a = 1
  OBVIOUS
<1>2. PICK b \in Int : b = n
  OBVIOUS
<1>3. Cardinality(a .. b) = IF a > b THEN 0 ELSE b - a + 1
  BY FS_Interval
<1> QED
  BY <1>1, <1>2, <1>3

(* An enumeration of a finite set has each of its elements.                *)
LEMMA Enumeration ==
    ASSUME NEW S, IsFiniteSet(S), NEW s \in SetToSeqs(S)
    PROVE  /\ s \in Seq(S) /\ Len(s) = Cardinality(S) /\ DOMAIN s = 1 .. Cardinality(S)
           /\ Cardinality(S) \in Nat /\ ToSet(s) = S
<1>1. Cardinality(S) \in Nat
  BY FS_CardinalityType
<1>2. PICK n \in Nat : n = Cardinality(S)
  BY <1>1
<1>3. s \in [1 .. n -> S] /\ \A i, j \in 1 .. n : i # j => s[i] # s[j]
  BY <1>2 DEF SetToSeqs
<1>4. s \in Seq(S)
  BY <1>3, SeqDef
<1>5. DOMAIN s = 1 .. n /\ Len(s) = n
  <2>1. DOMAIN s = 1 .. n
    BY <1>3
  <2>2. DOMAIN s = 1 .. Len(s) /\ Len(s) \in Nat
    BY <1>4, LenProperties
  <2> QED
    BY <2>1, <2>2
<1>6. s \in Injection(1 .. n, S)
  BY <1>3 DEF Injection, IsInjective
<1>7. Cardinality(1 .. n) = n
  BY IntervalSize
<1>8. s \in Surjection(1 .. n, S)
  BY <1>2, <1>6, <1>7, FS_Injection
<1>9. \A x \in S : \E i \in 1 .. n : s[i] = x
  BY <1>8 DEF Surjection
<1>10. ToSet(s) = S
  <2>1. \A x : x \in ToSet(s) <=> \E i \in 1 .. n : s[i] = x
    BY <1>4, <1>5, InSeqSet
  <2>2. \A i \in 1 .. n : s[i] \in S
    BY <1>3
  <2> QED
    BY <2>1, <2>2, <1>9
<1> QED
  BY <1>2, <1>4, <1>5, <1>10

(* Functions that are changed at a point.                                  *)
LEMMA WithIs ==
    ASSUME NEW f, NEW p, NEW v
    PROVE  /\ DOMAIN With(f, p, v) = DOMAIN f \cup {p} /\ With(f, p, v)[p] = v
           /\ \A q \in DOMAIN f : q # p => With(f, p, v)[q] = f[q]
BY DEF With

LEMMA WithoutIs ==
    ASSUME NEW f, NEW S
    PROVE  /\ DOMAIN Without(f, S) = DOMAIN f \ S
           /\ \A q \in DOMAIN f \ S : Without(f, S)[q] = f[q]
BY DEF Without, Restrict

-----------------------------------------------------------------------------
(* The inductive invariant: the form of the state first.                   *)
Name == STRING
Path == {p \in Seq(Name) : Len(p) > 1}
Row == [id : Nat, version : Nat, located : BOOLEAN, dir : BOOLEAN]
Node == [ino : Nat, version : Nat, located : BOOLEAN, dir : BOOLEAN]
Entry == [from : Path, node : Node, to : Path]
Renaming == {"copy", "move", "remove"}

RowsForm ==
    /\ IsFiniteSet(DOMAIN rows) /\ DOMAIN rows \subseteq Path
    /\ \A p \in DOMAIN rows : rows[p] \in Row
    /\ used \in [{"update", "rename", "failure", "crash"} -> Nat]

FilesForm ==
    /\ IsFiniteSet(DOMAIN files) /\ DOMAIN files \subseteq Path
    /\ \A p \in DOMAIN files : files[p] \in Row
    /\ queue \in Seq(DOMAIN files)

TreeForm ==
    /\ IsFiniteSet(DOMAIN fs_mem.tree)
    /\ \A p \in DOMAIN fs_mem.tree : /\ p \in Seq(Name) /\ Len(p) > 0
                                     /\ fs_mem.tree[p] \in Node
    /\ \A ino \in fs_mem.live : ino = Root \/ \E p \in DOMAIN fs_mem.tree : fs_mem.tree[p].ino = ino

CallForm ==
    /\ DOMAIN call = {"pc", "panic", "ino"}
    /\ call.pc \in {"idle", "refresh", "panicked"} \cup Renaming
    /\ todo \in Seq(Entry)
    /\ call.pc \in Renaming => todo # <<>>

(* The tree and the queue together are the rows that were read, and every  *)
(* entry of the tree is the node of its row.                               *)
Placed ==
    /\ {p \in DOMAIN fs_mem.tree : Len(p) > 1} \cup ToSet(queue) = DOMAIN files
    /\ \A p \in DOMAIN files : p \in DOMAIN fs_mem.tree => fs_mem.tree[p] = FileNode(files[p])

FuseForm == RowsForm /\ FilesForm /\ TreeForm /\ CallForm /\ Placed

LEMMA Names ==
    /\ DOMAIN Folder \cup NewName \subseteq Name /\ "/" \in Name
    /\ \A p \in DOMAIN InitialRows \cup Arriving :
          p \in Seq(Name) /\ Len(p) > 1 /\ Head(p) \in DOMAIN Folder
BY FuseAssumption DEF Name

LEMMA Single ==
    ASSUME NEW S, NEW x \in S
    PROVE  <<x>> \in Seq(S) /\ Len(<<x>>) = 1 /\ <<x>>[1] = x
OBVIOUS

LEMMA NodeForm ==
    /\ \A row \in Row : FileNode(row) \in Node /\ FileNode(row).ino = entry_id(row.id)
    /\ \A f \in DOMAIN Folder : FolderNode(f) \in Node /\ FolderNode(f).ino = top_dir_id(f)
BY FuseAssumption DEF FileNode, Node, Row, entry_id, FolderNode, top_dir_id

LEMMA NoPath == ToSet(<<>>) = {} /\ DOMAIN <<>> = {} /\ \A S : <<>> \in Seq(S) /\ IsFiniteSet({})
<1>1. \A S : <<>> \in Seq(S)
  BY EmptySeq
<1>2. PICK s : s = <<>>
  OBVIOUS
<1>3. s \in Seq({})
  BY <1>1, <1>2
<1>4. ToSet(s) = {}
  BY <1>2, <1>3, EmptyOrNot
<1> QED
  BY <1>1, <1>2, <1>4, FS_EmptySet

LEMMA NewMemForm ==
    ASSUME fs_mem = NewMem, files = <<>>, queue = <<>>
    PROVE  FilesForm /\ TreeForm /\ Placed
<1>1. DOMAIN files = {} /\ DOMAIN fs_mem.tree = {} /\ fs_mem.live = {Root} /\ ToSet(queue) = {}
  BY NoPath DEF NewMem
<1>2. queue \in Seq(DOMAIN files) /\ IsFiniteSet({})
  BY NoPath
<1> QED
  BY <1>1, <1>2 DEF FilesForm, TreeForm, Placed

LEMMA NoCallForm ==
    ASSUME call = NoCall, todo = <<>>
    PROVE  CallForm
<1>1. todo \in Seq(Entry)
  BY NoPath
<1> QED
  BY <1>1 DEF NoCall, CallForm, Renaming, Root

LEMMA InitialFuseForm ==
    ASSUME Init
    PROVE  FuseForm
<1>1. RowsForm
  <2>1. \A p \in DOMAIN rows : rows[p] \in Row /\ p \in Path
    BY FuseAssumption, Names DEF Init, Row, Path
  <2> QED
    BY <2>1, FuseAssumption DEF Init, RowsForm
<1> QED
  BY <1>1, NewMemForm, NoCallForm DEF Init, FuseForm

-----------------------------------------------------------------------------
(* One lemma per step. First what leaves tree and call alone.              *)
LEMMA RowsStepForm ==
    ASSUME FuseForm, RowsForm', UNCHANGED <<memory, call, todo>>
    PROVE  FuseForm'
BY DEF FuseForm, FilesForm, TreeForm, CallForm, Placed, memory

LEMMA HappensForm ==
    ASSUME RowsForm, NEW event \in {"update", "failure", "crash"}, Happens(event)
    PROVE  used' \in [{"update", "rename", "failure", "crash"} -> Nat]
BY DEF RowsForm, Happens

LEMMA NewIdType ==
    ASSUME RowsForm
    PROVE  NewId \in Nat
<1>1. Cardinality(DOMAIN InitialRows) \in Nat
  BY FuseAssumption, FS_CardinalityType
<1>2. used["update"] \in Nat
  BY DEF RowsForm
<1> QED
  BY <1>1, <1>2 DEF NewId

LEMMA UpdateForm ==
    ASSUME FuseForm, NEW p \in DOMAIN rows, Update(p)
    PROVE  FuseForm' /\ DOMAIN rows' = DOMAIN rows
<1>1. RowsForm /\ NewId \in Nat /\ rows[p] \in Row
  BY NewIdType DEF FuseForm, RowsForm
<1>2. PICK row : row = [id |-> NewId, version |-> rows[p].version + 1,
                        located |-> FALSE, dir |-> rows[p].dir]
  OBVIOUS
<1>3. row \in Row
  BY <1>1, <1>2 DEF Row
<1>4. rows' = [rows EXCEPT ![p] = row]
  BY <1>2 DEF Update
<1>5. DOMAIN rows' = DOMAIN rows /\ \A q \in DOMAIN rows : rows'[q] \in Row
  BY <1>1, <1>3, <1>4 DEF RowsForm
<1>6. used' \in [{"update", "rename", "failure", "crash"} -> Nat]
  BY <1>1, HappensForm DEF Update
<1>7. RowsForm'
  BY <1>1, <1>5, <1>6 DEF RowsForm
<1> QED
  BY <1>5, <1>7, RowsStepForm DEF Update

LEMMA InPlaceForm ==
    ASSUME FuseForm, NEW p \in DOMAIN rows, UpdateInPlace(p)
    PROVE  /\ FuseForm' /\ DOMAIN rows' = DOMAIN rows
           /\ \A q \in DOMAIN rows : rows'[q].id = rows[q].id /\ rows'[q].located = rows[q].located
           /\ \A q \in DOMAIN rows : q # p => rows'[q] = rows[q]
<1>1. RowsForm /\ rows[p] \in Row
  BY DEF FuseForm, RowsForm
<1>2. PICK old \in Row : old = rows[p]
  BY <1>1
<1>3. PICK row : row = [old EXCEPT !.version = @ + 1]
  OBVIOUS
<1>4. row \in Row /\ row.id = old.id /\ row.located = old.located
  BY <1>2, <1>3 DEF Row
<1>5. rows' = [rows EXCEPT ![p] = row]
  BY <1>2, <1>3 DEF UpdateInPlace
<1>6. DOMAIN rows' = DOMAIN rows /\ rows'[p] = row /\ \A q \in DOMAIN rows : q # p => rows'[q] = rows[q]
  BY <1>5
<1>7. used' \in [{"update", "rename", "failure", "crash"} -> Nat]
  BY <1>1, HappensForm DEF UpdateInPlace
<1>8. RowsForm'
  BY <1>1, <1>4, <1>6, <1>7 DEF RowsForm
<1>9. FuseForm'
  BY <1>8, RowsStepForm DEF UpdateInPlace
<1> QED
  BY <1>2, <1>4, <1>6, <1>9

LEMMA ArriveForm ==
    ASSUME FuseForm, NEW p \in Arriving, Arrive(p)
    PROVE  FuseForm'
<1>1. RowsForm /\ NewId \in Nat
  BY NewIdType DEF FuseForm
<1>2. PICK row : row = [id |-> NewId, version |-> 1, located |-> FALSE, dir |-> FALSE]
  OBVIOUS
<1>3. row \in Row /\ p \in Path
  BY <1>1, <1>2, Names DEF Row, Path
<1>4. rows' = With(rows, p, row)
  BY <1>2 DEF Arrive
<1>5. /\ DOMAIN rows' = DOMAIN rows \cup {p} /\ rows'[p] = row
      /\ \A q \in DOMAIN rows : q # p => rows'[q] = rows[q]
  BY <1>4 DEF With
<1>6. IsFiniteSet(DOMAIN rows')
  BY <1>1, <1>5, FS_AddElement DEF RowsForm
<1>7. used' \in [{"update", "rename", "failure", "crash"} -> Nat]
  BY <1>1, HappensForm DEF Arrive
<1>8. RowsForm'
  BY <1>1, <1>3, <1>5, <1>6, <1>7 DEF RowsForm
<1> QED
  BY <1>8, RowsStepForm DEF Arrive

(* An upload changes neither rows nor call, and it may fail.               *)
LEMMA UploadIs ==
    ASSUME NEW p, StartUpload(p)
    PROVE  /\ UNCHANGED <<rows, replaced, memory, call, todo>> /\ faults \subseteq faults'
           /\ used' = used \/ Happens("failure")
BY DEF StartUpload, Blame

LEMMA UploadForm ==
    ASSUME FuseForm, NEW p, StartUpload(p)
    PROVE  FuseForm'
<1>1. RowsForm /\ rows' = rows
  BY UploadIs DEF FuseForm
<1>2. used' \in [{"update", "rename", "failure", "crash"} -> Nat]
  <2>1. CASE used' = used
    BY <1>1, <2>1 DEF RowsForm
  <2>2. CASE Happens("failure")
    BY <1>1, <2>2, HappensForm
  <2> QED
    BY <2>1, <2>2, UploadIs
<1>3. RowsForm'
  BY <1>1, <1>2 DEF RowsForm
<1> QED
  BY <1>3, UploadIs, RowsStepForm

LEMMA LocatedRow ==
    ASSUME NEW row \in Row, NEW b \in BOOLEAN
    PROVE  /\ [row EXCEPT !.located = b] \in Row /\ [row EXCEPT !.located = b].id = row.id
           /\ [row EXCEPT !.located = b].version = row.version
           /\ [row EXCEPT !.located = b].located = b
BY DEF Row

LEMMA EndUploadForm ==
    ASSUME FuseForm, NEW u \in uploads, EndUpload(u)
    PROVE  /\ FuseForm' /\ DOMAIN rows' = DOMAIN rows
           /\ \A q \in DOMAIN rows : rows'[q].id = rows[q].id /\ rows'[q].version = rows[q].version
<1>1. RowsForm
  BY DEF FuseForm
<1>2. CASE u.path \in DOMAIN rows /\ rows' = [rows EXCEPT ![u.path].located = TRUE]
  <2>1. PICK row : row = [rows[u.path] EXCEPT !.located = TRUE]
    OBVIOUS
  <2>2. row \in Row /\ row.id = rows[u.path].id /\ row.version = rows[u.path].version
    BY <1>1, <1>2, <2>1, LocatedRow DEF RowsForm
  <2>3. rows' = [rows EXCEPT ![u.path] = row]
    BY <1>2, <2>1
  <2>4. DOMAIN rows' = DOMAIN rows /\ \A q \in DOMAIN rows : rows'[q] \in Row
    BY <1>1, <2>2, <2>3 DEF RowsForm
  <2>5. \A q \in DOMAIN rows : rows'[q].id = rows[q].id /\ rows'[q].version = rows[q].version
    BY <2>2, <2>3
  <2>6. RowsForm'
    BY <1>1, <2>4 DEF RowsForm, EndUpload
  <2> QED
    BY <2>4, <2>5, <2>6, RowsStepForm DEF EndUpload
<1>3. CASE rows' = rows
  <2>1. RowsForm'
    BY <1>1, <1>3 DEF RowsForm, EndUpload
  <2> QED
    BY <1>3, <2>1, RowsStepForm DEF EndUpload
<1> QED
  BY <1>2, <1>3 DEF EndUpload

(* The calls of the kernel.                                                *)
LEMMA RowsSame ==
    ASSUME FuseForm, UNCHANGED <<rows, used>>
    PROVE  RowsForm'
BY DEF FuseForm, RowsForm

LEMMA RefreshForm ==
    ASSUME FuseForm, fs_mem' = insert_folders, files' = rows, queue' \in SetToSeqs(DOMAIN rows)
    PROVE  FilesForm' /\ TreeForm' /\ Placed'
<1>1. RowsForm
  BY DEF FuseForm
<1> DEFINE Tops == {<<f>> : f \in DOMAIN Folder}
<1>2. /\ DOMAIN fs_mem'.tree = Tops /\ \A p \in Tops : fs_mem'.tree[p] = FolderNode(p[1])
      /\ fs_mem'.live = {Root} \cup {top_dir_id(f) : f \in DOMAIN Folder}
  BY DEF insert_folders
<1>3. \A f \in DOMAIN Folder : <<f>> \in Seq(Name) /\ Len(<<f>>) = 1 /\ <<f>>[1] = f
  BY Names, Single
<1>4. \A p \in Tops : p \in Seq(Name) /\ Len(p) = 1 /\ p[1] \in DOMAIN Folder
  BY <1>3
<1>5. IsFiniteSet(Tops)
  <2> DEFINE top == [f \in DOMAIN Folder |-> <<f>>]
  <2>1. top \in Surjection(DOMAIN Folder, Tops)
    BY DEF Surjection
  <2> QED
    BY <2>1, FuseAssumption, FS_Surjection
<1>0. \A f \in DOMAIN Folder : <<f>> \in Tops
  OBVIOUS
<1> HIDE DEF Tops
<1>6. /\ queue' \in Seq(DOMAIN rows) /\ ToSet(queue') = DOMAIN rows
  <2>1. PICK q : q = queue'
    OBVIOUS
  <2> QED
    BY <1>1, <2>1, Enumeration DEF RowsForm
<1>7. FilesForm'
  BY <1>1, <1>6 DEF RowsForm, FilesForm
<1>8. TreeForm'
  <2>1. \A p \in Tops : p \in Seq(Name) /\ Len(p) > 0 /\ fs_mem'.tree[p] \in Node
    BY <1>2, <1>4, NodeForm
  <2>2. ASSUME NEW f \in DOMAIN Folder
        PROVE  \E p \in Tops : fs_mem'.tree[p].ino = top_dir_id(f)
    <3>1. <<f>> \in Tops /\ fs_mem'.tree[<<f>>] = FolderNode(f)
      BY <1>0, <1>2, <1>3
    <3> QED
      BY <3>1, NodeForm
  <2> QED
    BY <1>2, <1>5, <2>1, <2>2 DEF TreeForm
<1>9. Placed'
  <2>1. \A p \in DOMAIN fs_mem'.tree : Len(p) = 1
    BY <1>2, <1>4
  <2>2. \A p \in DOMAIN rows : Len(p) > 1
    BY <1>1 DEF RowsForm, Path
  <2>3. ASSUME NEW p \in DOMAIN fs_mem'.tree PROVE ~(Len(p) > 1)
    <3>1. Len(p) = 1
      BY <2>1
    <3> QED
      BY <3>1
  <2>4. ASSUME NEW p \in DOMAIN rows, p \in DOMAIN fs_mem'.tree PROVE FALSE
    BY <2>2, <2>3, <2>4
  <2>5. PICK T : T = DOMAIN fs_mem'.tree
    OBVIOUS
  <2>6. {p \in T : Len(p) > 1} = {}
    BY <2>3, <2>5
  <2> QED
    BY <1>6, <2>4, <2>5, <2>6 DEF Placed
<1> QED
  BY <1>7, <1>8, <1>9

LEMMA StartCallForm ==
    ASSUME FuseForm, StartCall
    PROVE  FuseForm'
<1>1. RowsForm'
  BY RowsSame DEF StartCall, database
<1>2. CallForm'
  BY DEF StartCall, FuseForm, CallForm, Renaming
<1>3. CASE fs_mem' = insert_folders /\ files' = rows /\ queue' \in SetToSeqs(DOMAIN rows)
  BY <1>1, <1>2, <1>3, RefreshForm DEF FuseForm
<1>4. CASE UNCHANGED <<files, queue, fs_mem>>
  BY <1>1, <1>2, <1>4 DEF FuseForm, FilesForm, TreeForm, Placed
<1> QED
  BY <1>3, <1>4 DEF StartCall, refresh_expired_folders_files

LEMMA InsertFileForm ==
    ASSUME FuseForm, InsertFile
    PROVE  FuseForm'
<1>1. RowsForm' /\ CallForm'
  BY RowsSame DEF InsertFile, database, FuseForm, CallForm
<1>2. PICK p : p = Head(queue)
  OBVIOUS
<1>3. FilesForm /\ TreeForm /\ Placed /\ queue # <<>> /\ files' = files
  BY DEF FuseForm, InsertFile
<1>4. /\ p \in DOMAIN files /\ Tail(queue) \in Seq(DOMAIN files)
      /\ ToSet(queue) = {p} \cup ToSet(Tail(queue))
  BY <1>2, <1>3, HeadAndTail DEF FilesForm
<1>5. p \in Seq(Name) /\ Len(p) > 1 /\ files[p] \in Row
  BY <1>3, <1>4 DEF FilesForm, Path
<1>6. CASE Front(p) \in DOMAIN fs_mem.tree
  <2>1. PICK node : node = FileNode(files[p])
    OBVIOUS
  <2>2. node \in Node /\ node.ino = entry_id(files[p].id)
    BY <1>5, <2>1, NodeForm
  <2>3. PICK T : T = With(fs_mem.tree, p, node)
    OBVIOUS
  <2>4. /\ DOMAIN T = DOMAIN fs_mem.tree \cup {p} /\ T[p] = node
        /\ \A q \in DOMAIN fs_mem.tree : q # p => T[q] = fs_mem.tree[q]
    BY <2>3 DEF With
  <2>5. /\ fs_mem'.tree = T /\ fs_mem'.live = fs_mem.live \cup {entry_id(files[p].id)}
        /\ queue' = Tail(queue)
    BY <1>2, <1>6, <2>1, <2>3 DEF InsertFile, insert_file
  <2>6. p \in DOMAIN fs_mem.tree => fs_mem.tree[p] = node
    BY <1>3, <1>4, <2>1 DEF Placed
  <2>7. FilesForm'
    BY <1>3, <1>4, <2>5 DEF FilesForm
  <2>8. IsFiniteSet(DOMAIN T)
    BY <1>3, <2>4, FS_AddElement DEF TreeForm
  <2>9. \A q \in DOMAIN fs_mem.tree : T[q] = fs_mem.tree[q]
    BY <2>4, <2>6
  <2>10. Len(p) > 0
    BY <1>5
  <2>11. TreeForm'
    <3>1. \A q \in DOMAIN T : q \in Seq(Name) /\ Len(q) > 0 /\ T[q] \in Node
      BY <1>3, <1>5, <2>2, <2>4, <2>9, <2>10 DEF TreeForm
    <3>2. \A ino \in fs_mem.live : ino = Root \/ \E q \in DOMAIN T : T[q].ino = ino
      BY <1>3, <2>4, <2>9 DEF TreeForm
    <3> QED
      BY <2>2, <2>4, <2>5, <2>8, <3>1, <3>2 DEF TreeForm
  <2>12. Placed'
    <3>1. {q \in DOMAIN T : Len(q) > 1} = {p} \cup {q \in DOMAIN fs_mem.tree : Len(q) > 1}
      BY <1>5, <2>4
    <3>2. {q \in DOMAIN T : Len(q) > 1} \cup ToSet(queue') = DOMAIN files
      BY <1>3, <1>4, <2>5, <3>1 DEF Placed
    <3>3. \A q \in DOMAIN files : q \in DOMAIN T => T[q] = FileNode(files[q])
      BY <1>3, <2>1, <2>4, <2>9 DEF Placed
    <3> QED
      BY <1>3, <2>5, <3>2, <3>3 DEF Placed
  <2> QED
    BY <1>1, <2>7, <2>11, <2>12 DEF FuseForm
<1>7. CASE Front(p) \notin DOMAIN fs_mem.tree
  <2>1. fs_mem' = fs_mem /\ queue' = Append(Tail(queue), p)
    BY <1>2, <1>7 DEF InsertFile, insert_file, Requeued
  <2>2. queue' \in Seq(DOMAIN files) /\ ToSet(queue') = ToSet(Tail(queue)) \cup {p}
    <3>1. PICK t : t = Tail(queue)
      OBVIOUS
    <3>2. PICK F : F = DOMAIN files
      OBVIOUS
    <3>3. t \in Seq(F) /\ p \in F
      BY <1>4, <3>1, <3>2
    <3>4. Append(t, p) \in Seq(F) /\ ToSet(Append(t, p)) = ToSet(t) \cup {p}
      BY <3>3, AppendedSet
    <3> QED
      BY <2>1, <3>1, <3>2, <3>4
  <2>3. FilesForm' /\ TreeForm'
    BY <1>3, <2>1, <2>2 DEF FilesForm, TreeForm
  <2>4. ToSet(queue') = ToSet(queue)
    BY <1>4, <2>2
  <2>5. Placed'
    BY <1>3, <2>1, <2>4 DEF Placed
  <2> QED
    BY <1>1, <2>3, <2>5 DEF FuseForm
<1> QED
  BY <1>6, <1>7

LEMMA MemorySame ==
    ASSUME FuseForm, UNCHANGED <<fs_mem, files, queue>>
    PROVE  FilesForm' /\ TreeForm' /\ Placed'
BY DEF FuseForm, FilesForm, TreeForm, Placed

LEMMA AnswerForm ==
    ASSUME FuseForm, UNCHANGED <<database, fs_mem, files, queue, todo, used>>,
           call' = NoCall \/ \E ino : Panic("dead reference", ino)
    PROVE  FuseForm'
<1>1. RowsForm' /\ FilesForm' /\ TreeForm' /\ Placed'
  BY RowsSame, MemorySame DEF database
<1>2. DOMAIN call' = {"pc", "panic", "ino"} /\ call'.pc \in {"idle", "panicked"}
  <2>1. CASE call' = NoCall
    BY <2>1 DEF NoCall
  <2>2. ASSUME NEW ino, Panic("dead reference", ino)
        PROVE  DOMAIN call' = {"pc", "panic", "ino"} /\ call'.pc = "panicked"
    BY <2>2 DEF Panic
  <2> QED
    BY <2>1, <2>2
<1>3. CallForm'
  BY <1>2 DEF CallForm, FuseForm, Renaming
<1> QED
  BY <1>1, <1>3 DEF FuseForm

LEMMA CrashForm ==
    ASSUME FuseForm, Crash
    PROVE  FuseForm'
<1>1. RowsForm
  BY DEF FuseForm
<1>2. RowsForm'
  BY <1>1, HappensForm DEF Crash, RowsForm
<1>3. FilesForm' /\ TreeForm' /\ Placed'
  <2>1. DOMAIN files' = {} /\ DOMAIN fs_mem'.tree = {} /\ fs_mem'.live = {Root}
    BY NoPath DEF NewMem, Crash
  <2>2. queue' \in Seq(DOMAIN files') /\ IsFiniteSet({}) /\ ToSet(queue') = {}
    BY NoPath DEF Crash
  <2> QED
    BY <2>1, <2>2 DEF FilesForm, TreeForm, Placed
<1>4. CallForm'
  <2>1. todo' \in Seq(Entry)
    BY NoPath DEF Crash
  <2> QED
    BY <2>1 DEF NoCall, CallForm, Renaming, Root, Crash
<1> QED
  BY <1>2, <1>3, <1>4 DEF FuseForm

-----------------------------------------------------------------------------
(* Paths.                                                                  *)
LEMMA PrefixIs ==
    ASSUME NEW S, NEW s \in Seq(S), NEW t \in Seq(S)
    PROVE  IsPrefix(s, t) <=> Len(s) <= Len(t) /\ \A i \in 1 .. Len(s) : s[i] = t[i]
<1>1. PICK n \in Nat : n = Len(s)
  BY LenProperties
<1>2. PICK m \in Nat : m = Len(t)
  BY LenProperties
<1>3. \A i \in 1 .. n : s[i] \in S
  BY <1>1, ElementOfSeq
<1>4. \A i \in 1 .. m : t[i] \in S
  BY <1>2, ElementOfSeq
<1>5. SubSeq(s, 1, n) = s
  BY <1>1, SubSeqFull
<1>6. ASSUME n <= m
      PROVE  SubSeq(s, 1, n) = SubSeq(t, 1, n) <=> \A i \in 1 .. n : s[i] = t[i]
  <2>1. PICK u : u = SubSeq(t, 1, n)
    OBVIOUS
  <2>2. \A i \in 1 .. n : t[i] \in S
    BY <1>4, <1>6
  <2>3. PICK one \in Int : one = 1
    OBVIOUS
  <2>4. n \in Int
    OBVIOUS
  <2>5. \A i \in one .. n : t[i] \in S
    BY <2>2, <2>3
  <2>6. /\ SubSeq(t, one, n) \in Seq(S) /\ Len(SubSeq(t, one, n)) = IF one <= n THEN n - one + 1 ELSE 0
        /\ \A i \in 1 .. n - one + 1 : SubSeq(t, one, n)[i] = t[one + i - 1]
    BY <2>4, <2>5, SubSeqProperties
  <2>7. u \in Seq(S) /\ Len(u) = n
    BY <2>1, <2>3, <2>6
  <2>8. \A i \in 1 .. n : u[i] = t[i]
    BY <2>1, <2>3, <2>6
  <2>9. s = u <=> \A i \in 1 .. n : s[i] = u[i]
    BY <1>1, <2>7, SeqEqual
  <2> QED
    BY <1>5, <2>1, <2>8, <2>9
<1> QED
  BY <1>1, <1>2, <1>6 DEF IsPrefix

LEMMA JoinIs ==
    ASSUME NEW S, NEW s \in Seq(S), NEW t \in Seq(S)
    PROVE  /\ s \o t \in Seq(S) /\ Len(s \o t) = Len(s) + Len(t)
           /\ \A i \in 1 .. Len(s) : (s \o t)[i] = s[i]
           /\ \A i \in 1 .. Len(t) : (s \o t)[Len(s) + i] = t[i]
<1>1. PICK u : u = s \o t
  OBVIOUS
<1>2. /\ u \in Seq(S) /\ Len(u) = Len(s) + Len(t)
      /\ \A i \in 1 .. Len(s) + Len(t) : u[i] = IF i <= Len(s) THEN s[i] ELSE t[i - Len(s)]
  BY <1>1, ConcatProperties
<1>3. PICK n \in Nat : n = Len(s)
  BY LenProperties
<1>4. PICK m \in Nat : m = Len(t)
  BY LenProperties
<1>5. \A i \in 1 .. n : u[i] = s[i]
  BY <1>2, <1>3, <1>4
<1>6. ASSUME NEW i \in 1 .. m PROVE u[n + i] = t[i]
  <2>1. PICK k : k = n + i
    OBVIOUS
  <2>2. k \in 1 .. n + m /\ ~(k <= n) /\ k - n = i
    BY <2>1
  <2> QED
    BY <1>2, <1>3, <1>4, <2>1, <2>2
<1> QED
  BY <1>1, <1>2, <1>3, <1>4, <1>5, <1>6

LEMMA CutIs ==
    ASSUME NEW S, NEW s \in Seq(S), NEW n \in Nat, n <= Len(s)
    PROVE  /\ SubSeq(s, n + 1, Len(s)) \in Seq(S) /\ Len(SubSeq(s, n + 1, Len(s))) = Len(s) - n
           /\ \A i \in 1 .. Len(s) - n : SubSeq(s, n + 1, Len(s))[i] = s[n + i]
<1>1. PICK a \in Int : a = n + 1
  OBVIOUS
<1>2. PICK b \in Nat : b = Len(s)
  BY LenProperties
<1>3. \A i \in 1 .. b : s[i] \in S
  BY <1>2, ElementOfSeq
<1>4. \A i \in a .. b : s[i] \in S
  BY <1>1, <1>3
<1>5. PICK u : u = SubSeq(s, a, b)
  OBVIOUS
<1>6. /\ u \in Seq(S) /\ Len(u) = IF a <= b THEN b - a + 1 ELSE 0
      /\ \A i \in 1 .. b - a + 1 : u[i] = s[a + i - 1]
  <2>1. b \in Int
    OBVIOUS
  <2> QED
    BY <1>4, <1>5, <2>1, SubSeqProperties
<1>7. Len(u) = b - n
  BY <1>1, <1>2, <1>6
<1>8. ASSUME NEW i \in 1 .. b - n PROVE u[i] = s[n + i]
  <2>1. i \in 1 .. b - a + 1 /\ a + i - 1 = n + i
    BY <1>1
  <2> QED
    BY <1>6, <2>1
<1> QED
  BY <1>1, <1>2, <1>5, <1>6, <1>7, <1>8

LEMMA TailIs ==
    ASSUME NEW S, NEW s \in Seq(S), Len(s) > 0
    PROVE  /\ Tail(s) \in Seq(S) /\ Len(Tail(s)) = Len(s) - 1 /\ Head(s) = s[1] /\ s[1] \in S
           /\ \A i \in 1 .. Len(s) - 1 : Tail(s)[i] = s[i + 1]
<1>1. s # <<>> /\ Len(s) \in Nat
  BY EmptyOrNot, InSeqSet
<1>2. PICK t : t = Tail(s)
  OBVIOUS
<1>3. /\ t \in Seq(S) /\ Len(t) = Len(s) - 1 /\ Head(s) \in S
      /\ \A i \in 1 .. Len(t) : t[i] = s[i + 1]
  BY <1>1, <1>2, HeadTailProperties
<1>4. Head(s) = s[1]
  OBVIOUS
<1> QED
  BY <1>2, <1>3, <1>4

-----------------------------------------------------------------------------
(* The new name of an entry: its folder, the directory and the name given, *)
(* and what it has below the renamed one.                                  *)
NewPath(p, orig, dest, d) ==
    /\ d \in Path /\ Len(d) = Len(dest) + (Len(p) - Len(orig))
    /\ d[1] = p[1] /\ \A i \in 2 .. Len(dest) : d[i] = dest[i]
    /\ \A i \in 1 .. Len(p) - Len(orig) : d[Len(dest) + i] = p[Len(orig) + i]

LEMMA NewPathIs ==
    ASSUME NEW p \in Path, NEW orig \in Path, NEW dest \in Path, Len(orig) <= Len(p)
    PROVE  NewPath(p, orig, dest, dest_file_name(p, orig, dest))
<1>0. PICK d : d = dest_file_name(p, orig, dest)
  OBVIOUS
<1>. p \in Seq(Name) /\ orig \in Seq(Name) /\ dest \in Seq(Name)
  BY DEF Path
<1>1. PICK lp \in Nat : lp = Len(p)
  BY LenProperties
<1>2. PICK lo \in Nat : lo = Len(orig)
  BY LenProperties
<1>3. PICK ld \in Nat : ld = Len(dest)
  BY LenProperties
<1>4. lp > 0 /\ lo <= lp /\ ld > 1 /\ lo > 1
  BY <1>1, <1>2, <1>3 DEF Path
<1>5. Head(p) = p[1] /\ p[1] \in Name
  BY <1>1, <1>4, TailIs
<1>6. PICK h : h = <<Head(p)>>
  OBVIOUS
<1>7. h \in Seq(Name) /\ Len(h) = 1 /\ h[1] = p[1]
  BY <1>5, <1>6
<1>8. PICK t : t = Tail(dest)
  OBVIOUS
<1>9. t \in Seq(Name) /\ Len(t) = ld - 1 /\ \A i \in 1 .. ld - 1 : t[i] = dest[i + 1]
  <2>1. Len(dest) > 0
    BY <1>3, <1>4
  <2> QED
    BY <1>3, <1>8, <2>1, TailIs
<1>10. PICK c : c = SubSeq(p, lo + 1, lp)
  OBVIOUS
<1>11. c \in Seq(Name) /\ Len(c) = lp - lo /\ \A i \in 1 .. lp - lo : c[i] = p[lo + i]
  BY <1>1, <1>4, <1>10, CutIs
<1>12. PICK ht : ht = h \o t
  OBVIOUS
<1>13. /\ ht \in Seq(Name) /\ Len(ht) = Len(h) + Len(t)
       /\ \A i \in 1 .. Len(h) : ht[i] = h[i]
       /\ \A i \in 1 .. Len(t) : ht[Len(h) + i] = t[i]
  <2>1. h \in Seq(Name) /\ t \in Seq(Name)
    BY <1>7, <1>9
  <2> QED
    BY <1>12, <2>1, JoinIs
<1>14. ht \in Seq(Name) /\ Len(ht) = ld /\ ht[1] = p[1]
  <2>1. Len(ht) = ld
    BY <1>4, <1>7, <1>9, <1>13
  <2>2. 1 \in 1 .. Len(h)
    BY <1>7
  <2>3. ht[1] = h[1]
    BY <1>13, <2>2
  <2> QED
    BY <1>7, <1>13, <2>1, <2>3
<1>15. ASSUME NEW i \in 2 .. ld PROVE ht[i] = dest[i]
  <2>1. PICK j : j = i - 1
    OBVIOUS
  <2>2. j \in 1 .. ld - 1 /\ 1 + j = i /\ j + 1 = i
    BY <2>1
  <2>3. j \in 1 .. Len(t) /\ Len(h) + j = i
    BY <1>7, <1>9, <2>2
  <2>4. ht[i] = t[j]
    BY <1>13, <2>3
  <2>5. t[j] = dest[i]
    BY <1>9, <2>2
  <2> QED
    BY <2>4, <2>5
<1>16. /\ ht \o c \in Seq(Name) /\ Len(ht \o c) = Len(ht) + Len(c)
       /\ \A i \in 1 .. Len(ht) : (ht \o c)[i] = ht[i]
       /\ \A i \in 1 .. Len(c) : (ht \o c)[Len(ht) + i] = c[i]
  <2>1. c \in Seq(Name) /\ ht \in Seq(Name)
    BY <1>11, <1>14
  <2> QED
    BY <2>1, JoinIs
<1>17. d = ht \o c
  BY <1>0, <1>1, <1>2, <1>6, <1>8, <1>10, <1>12 DEF dest_file_name
<1>18. d \in Seq(Name) /\ Len(d) = ld + (lp - lo)
  BY <1>11, <1>14, <1>16, <1>17
<1>19. \A i \in 1 .. ld : d[i] = ht[i]
  BY <1>14, <1>16, <1>17
<1>20. \A i \in 1 .. lp - lo : d[ld + i] = p[lo + i]
  BY <1>11, <1>14, <1>16, <1>17
<1>21. 1 \in 1 .. ld /\ \A i \in 2 .. ld : i \in 1 .. ld
  BY <1>4
<1>22. d[1] = p[1] /\ \A i \in 2 .. ld : d[i] = dest[i]
  BY <1>14, <1>15, <1>19, <1>21
<1>23. d \in Path
  <2>1. ld + (lp - lo) > 1
    BY <1>4
  <2> QED
    BY <1>18, <2>1 DEF Path
<1> QED
  BY <1>0, <1>1, <1>2, <1>3, <1>18, <1>20, <1>22, <1>23 DEF NewPath

(* A rename: what it collects, of which entry and for which name.          *)
Subtree(orig) == {q \in DOMAIN fs_mem.tree : IsPrefix(orig, q)}
Collected(s, orig, dest) ==
    [i \in DOMAIN s |-> [from |-> s[i], node |-> fs_mem.tree[s[i]],
                         to |-> dest_file_name(s[i], orig, dest)]]
Renames(orig, dest, s) ==
    /\ {orig, dest} \subseteq Path /\ orig \in DOMAIN fs_mem.tree
    /\ ~IsPrefix(orig, Front(dest)) /\ s \in traverse_post(Subtree(orig))
    /\ todo' = Collected(s, orig, dest)
    /\ faults \subseteq faults' /\ (Orphan(dest, DOMAIN rows) => "stale" \in faults')
    /\ Len(dest) = 2 \/ Head(dest) = Head(orig) \/ "folder" \in faults'

LEMMA KnownPath ==
    ASSUME TreeForm, NEW ino \in fs_mem.live, ino # Root
    PROVE  PathOf(ino) \in DOMAIN fs_mem.tree
BY DEF TreeForm, PathOf

LEMMA ChildIs ==
    ASSUME NEW S, NEW p \in Seq(S), NEW name \in S
    PROVE  p \o <<name>> \in Seq(S) /\ Len(p \o <<name>>) = Len(p) + 1
<1>1. PICK l : l = <<name>>
  OBVIOUS
<1>2. l \in Seq(S) /\ Len(l) = 1
  BY <1>1
<1>3. l \in Seq(S)
  BY <1>2
<1>4. p \o l \in Seq(S) /\ Len(p \o l) = Len(p) + Len(l)
  BY <1>3, JoinIs
<1> QED
  BY <1>1, <1>2, <1>4

LEMMA ChildPath ==
    ASSUME NEW p \in Seq(Name), Len(p) > 0, NEW name \in Name
    PROVE  p \o <<name>> \in Path
<1>1. PICK n \in Nat : n = Len(p)
  BY LenProperties
<1>2. PICK q : q = p \o <<name>>
  OBVIOUS
<1>3. q \in Seq(Name) /\ Len(q) = n + 1
  BY <1>1, <1>2, ChildIs
<1>4. n + 1 > 1
  BY <1>1
<1> QED
  BY <1>2, <1>3, <1>4 DEF Path

LEMMA RenameIs ==
    ASSUME FuseForm, NEW orig_parent, NEW dest_parent, NEW n \in NewName, NEW m \in NewName,
           rename_mem(orig_parent, n, dest_parent, m)
    PROVE  \E orig, dest, s : Renames(orig, dest, s)
<1>1. n \in Name /\ m \in Name /\ TreeForm
  BY Names DEF FuseForm
<1>2. PICK orig : orig = PathOf(orig_parent) \o <<n>>
  OBVIOUS
<1>3. PICK start : start = IF dest_parent = Root THEN <<"/">> ELSE PathOf(dest_parent)
  OBVIOUS
<1>4. PICK dest : dest = start \o <<m>>
  OBVIOUS
<1>5. orig \in Path
  <2>1. PICK o : o = PathOf(orig_parent)
    OBVIOUS
  <2>2. o \in Seq(Name) /\ Len(o) > 0
    BY <1>1, <2>1, KnownPath DEF rename_mem, TreeForm
  <2>3. o \o <<n>> \in Path
    BY <1>1, <2>2, ChildPath
  <2> QED
    BY <1>2, <2>1, <2>3
<1>6. start \in Seq(Name) /\ Len(start) > 0
  <2>1. CASE dest_parent = Root
    <3>1. PICK slash : slash = "/"
      OBVIOUS
    <3>2. slash \in Name
      BY <3>1, Names
    <3>3. <<slash>> \in Seq(Name) /\ Len(<<slash>>) = 1
      BY <3>2, Single
    <3>4. start = <<slash>>
      BY <1>3, <2>1, <3>1
    <3> QED
      BY <3>3, <3>4
  <2>2. CASE dest_parent # Root
    BY <1>1, <1>3, <2>2, KnownPath DEF rename_mem, TreeForm
  <2> QED
    BY <2>1, <2>2
<1>7. dest \in Path
  BY <1>1, <1>4, <1>6, ChildPath
<1>8. /\ orig \in DOMAIN fs_mem.tree /\ ~IsPrefix(orig, Front(dest))
      /\ faults' = faults \cup (If(Orphan(dest, DOMAIN rows), "stale")
                                \cup If(dest_parent # Root /\ Head(dest) # Head(orig), "folder"))
      /\ \E s \in traverse_post(Subtree(orig)) : todo' = Collected(s, orig, dest)
  BY <1>2, <1>3, <1>4 DEF rename_mem, Subtree, Collected, Blame
<1>9. PICK s \in traverse_post(Subtree(orig)) : todo' = Collected(s, orig, dest)
  BY <1>8
<1>10. faults \subseteq faults' /\ (Orphan(dest, DOMAIN rows) => "stale" \in faults')
  BY <1>8 DEF If
<1>11. Len(dest) = 2 \/ Head(dest) = Head(orig) \/ "folder" \in faults'
  <2>1. CASE dest_parent = Root
    <3>1. PICK slash : slash = "/"
      OBVIOUS
    <3>2. slash \in Name
      BY <3>1, Names
    <3>3. <<slash>> \in Seq(Name) /\ Len(<<slash>>) = 1
      BY <3>2, Single
    <3>4. start = <<slash>>
      BY <1>3, <2>1, <3>1
    <3>5. Len(dest) = Len(start) + 1
      BY <1>1, <1>4, <1>6, ChildIs
    <3> QED
      BY <3>3, <3>4, <3>5
  <2>2. CASE dest_parent # Root
    BY <1>8, <2>2 DEF If
  <2> QED
    BY <2>1, <2>2
<1> QED
  BY <1>5, <1>7, <1>8, <1>9, <1>10, <1>11 DEF Renames

LEMMA CollectedIs ==
    ASSUME FuseForm, NEW orig, NEW dest, NEW s, Renames(orig, dest, s)
    PROVE  /\ s \in Seq(Subtree(orig)) /\ ToSet(s) = Subtree(orig) /\ Len(s) > 0
           /\ DOMAIN s = 1 .. Len(s) /\ IsFiniteSet(Subtree(orig)) /\ Len(s) \in Nat
           /\ todo' \in Seq(Entry) /\ Len(todo') = Len(s) /\ todo' # <<>>
           /\ \A i \in 1 .. Len(s) :
                /\ s[i] \in Subtree(orig) /\ todo'[i].from = s[i]
                /\ todo'[i].node = fs_mem.tree[s[i]]
                /\ todo'[i].to = dest_file_name(s[i], orig, dest)
<1>1. TreeForm /\ orig \in Path /\ dest \in Path /\ s \in SetToSeqs(Subtree(orig))
  BY DEF Renames, FuseForm, traverse_post
<1>2. IsFiniteSet(Subtree(orig))
  <2>1. Subtree(orig) \subseteq DOMAIN fs_mem.tree
    BY DEF Subtree
  <2> QED
    BY <1>1, <2>1, FS_Subset DEF TreeForm
<1>3. PICK B : B = Subtree(orig)
  OBVIOUS
<1>4. s \in Seq(B) /\ ToSet(s) = B /\ Len(s) = Cardinality(B) /\ Cardinality(B) \in Nat
      /\ DOMAIN s = 1 .. Len(s)
  BY <1>1, <1>2, <1>3, Enumeration
<1>5. PICK n \in Nat : n = Len(s)
  BY <1>4
<1>6. \A i \in 1 .. n : s[i] \in B
  BY <1>4, <1>5, ElementOfSeq
<1>7. orig \in B
  <2>1. orig \in Seq(Name)
    BY <1>1 DEF Path
  <2>2. PICK lo \in Nat : lo = Len(orig)
    BY <2>1, LenProperties
  <2>3. IsPrefix(orig, orig)
    BY <2>2 DEF IsPrefix
  <2> QED
    BY <1>3, <2>3 DEF Subtree, Renames
<1>8. n > 0
  <2>1. \E i \in 1 .. Len(s) : s[i] = orig
    BY <1>4, <1>7, InSeqSet
  <2> QED
    BY <1>5, <2>1
<1>9. ASSUME NEW p \in B
      PROVE  [from |-> p, node |-> fs_mem.tree[p], to |-> dest_file_name(p, orig, dest)] \in Entry
  <2>1. p \in Seq(Name) /\ p \in DOMAIN fs_mem.tree /\ IsPrefix(orig, p) /\ fs_mem.tree[p] \in Node
    BY <1>1, <1>3 DEF Subtree, TreeForm
  <2>2. PICK lo \in Nat : lo = Len(orig) /\ lo > 1
    BY <1>1, LenProperties DEF Path
  <2>3. PICK lp \in Nat : lp = Len(p)
    BY <2>1, LenProperties
  <2>4. lo <= lp
    BY <2>1, <2>2, <2>3 DEF IsPrefix
  <2>5. p \in Path
    <3>1. lp > 1
      BY <2>2, <2>4
    <3> QED
      BY <2>1, <2>3, <3>1 DEF Path
  <2>6. dest_file_name(p, orig, dest) \in Path
    BY <1>1, <2>2, <2>3, <2>4, <2>5, NewPathIs DEF NewPath
  <2> QED
    BY <2>1, <2>5, <2>6 DEF Entry
<1>10. PICK c : c = Collected(s, orig, dest)
  OBVIOUS
<1>11. DOMAIN c = 1 .. n /\ \A i \in 1 .. n :
          c[i] = [from |-> s[i], node |-> fs_mem.tree[s[i]], to |-> dest_file_name(s[i], orig, dest)]
  BY <1>4, <1>5, <1>10 DEF Collected
<1>12. \A i \in 1 .. n : c[i] \in Entry
  BY <1>6, <1>9, <1>11
<1>13. c \in [1 .. n -> Entry]
  <2>1. c = [i \in 1 .. n |-> c[i]]
    BY <1>4, <1>5, <1>10, <1>11 DEF Collected
  <2> QED
    BY <1>12, <2>1
<1>14. c \in Seq(Entry) /\ Len(c) = n
  <2>1. c \in Seq(Entry)
    BY <1>13, SeqDef
  <2>2. DOMAIN c = 1 .. Len(c) /\ Len(c) \in Nat
    BY <2>1, LenProperties
  <2>3. PICK k \in Nat : k = Len(c)
    BY <2>2
  <2>4. 1 .. k = 1 .. n
    BY <2>2, <2>3, <1>11
  <2>5. k = n
    BY <2>4
  <2> QED
    BY <2>1, <2>3, <2>5
<1>15. c # <<>>
  BY <1>8, <1>14, EmptyOrNot
<1>16. \A i \in 1 .. n : /\ c[i].from = s[i] /\ c[i].node = fs_mem.tree[s[i]]
                         /\ c[i].to = dest_file_name(s[i], orig, dest)
  BY <1>11
<1>17. todo' = c
  BY <1>10 DEF Renames
<1> QED
  BY <1>2, <1>3, <1>4, <1>5, <1>6, <1>8, <1>14, <1>15, <1>16, <1>17

LEMMA RenameForm ==
    ASSUME FuseForm, NEW orig_parent, NEW dest_parent, NEW n \in NewName, NEW m \in NewName,
           rename_mem(orig_parent, n, dest_parent, m)
    PROVE  FuseForm'
<1>1. PICK orig, dest, s : Renames(orig, dest, s)
  BY RenameIs
<1>2. todo' \in Seq(Entry) /\ todo' # <<>>
  BY <1>1, CollectedIs
<1>3. CallForm'
  BY <1>2 DEF rename_mem, FuseForm, CallForm, Renaming
<1>4. FilesForm' /\ TreeForm' /\ Placed'
  BY MemorySame DEF rename_mem, memory
<1>5. RowsForm'
  BY DEF rename_mem, database, FuseForm, RowsForm
<1> QED
  BY <1>3, <1>4, <1>5 DEF FuseForm

(* One entry of a rename.                                                  *)
LEMMA EntryIs ==
    ASSUME CallForm, todo # <<>>
    PROVE  /\ e \in Entry /\ e.from \in Path /\ e.to \in Path /\ e.node \in Node
           /\ Tail(todo) \in Seq(Entry) /\ Len(Tail(todo)) = Len(todo) - 1
           /\ Len(todo) \in Nat /\ e = todo[1]
<1>1. PICK x : x = Head(todo)
  OBVIOUS
<1>2. x \in Entry /\ Tail(todo) \in Seq(Entry) /\ Len(Tail(todo)) = Len(todo) - 1
      /\ Len(todo) \in Nat /\ x = todo[1]
  BY <1>1, HeadAndTail DEF CallForm
<1>3. x.from \in Path /\ x.to \in Path /\ x.node \in Node
  BY <1>2 DEF Entry
<1> QED
  BY <1>1, <1>2, <1>3 DEF e

LEMMA NextEntryForm ==
    ASSUME CallForm, call.pc \in Renaming, NextEntry
    PROVE  CallForm' /\ (call' = NoCall \/ call'.pc = "copy")
<1>1. todo # <<>>
  BY DEF CallForm
<1>2. todo' \in Seq(Entry) /\ Len(todo') = Len(todo) - 1 /\ Len(todo) \in Nat
  BY <1>1, EntryIs DEF NextEntry
<1>3. CASE Len(todo) = 1
  <2>1. call' = NoCall
    BY <1>3 DEF NextEntry
  <2> QED
    BY <1>2, <2>1 DEF CallForm, NoCall, Renaming
<1>4. CASE Len(todo) # 1
  <2>1. call' = [call EXCEPT !.pc = "copy"]
    BY <1>4 DEF NextEntry
  <2>2. Len(todo') # 0
    BY <1>2, <1>4
  <2>3. todo' # <<>>
    <3>1. PICK t : t = todo'
      OBVIOUS
    <3> QED
      BY <1>2, <2>2, <3>1, EmptyOrNot
  <2> QED
    BY <1>2, <2>1, <2>3 DEF CallForm, Renaming
<1> QED
  BY <1>3, <1>4

LEMMA CopyForm ==
    ASSUME FuseForm, cp_remote_to_remote
    PROVE  FuseForm' /\ rows' = rows
<1>1. FilesForm' /\ TreeForm' /\ Placed'
  BY MemorySame DEF cp_remote_to_remote, memory
<1>2. RowsForm /\ CallForm /\ call.pc \in Renaming
  BY DEF cp_remote_to_remote, FuseForm, Renaming
<1>3. used' \in [{"update", "rename", "failure", "crash"} -> Nat]
  <2>1. CASE UNCHANGED used
    BY <1>2, <2>1 DEF RowsForm
  <2>2. CASE Happens("failure")
    BY <1>2, <2>2, HappensForm
  <2> QED
    BY <2>1, <2>2 DEF cp_remote_to_remote
<1>4. RowsForm'
  BY <1>2, <1>3 DEF RowsForm, cp_remote_to_remote
<1>5. CallForm'
  <2>1. CASE NextEntry
    BY <1>2, <2>1, NextEntryForm
  <2>2. CASE call' = [call EXCEPT !.pc = "move"] /\ todo' = todo
    BY <1>2, <2>2 DEF CallForm, Renaming
  <2> QED
    BY <2>1, <2>2 DEF cp_remote_to_remote
<1> QED
  BY <1>1, <1>4, <1>5 DEF FuseForm, cp_remote_to_remote

(* A removal goes on to the next entry, whatever it has removed, unless    *)
(* rclone could not be started.                                            *)
RemovesSome ==
    /\ NextEntry /\ faults' = faults
    /\ \E S \in SUBSET Gone : remote' = Without(remote, S)
RemovePanics == Blame({"start"}) /\ Panic("rclone", e.node.ino) /\ todo' = todo

LEMMA RemoveIs ==
    ASSUME rm_remote
    PROVE  /\ call.pc = "remove" /\ UNCHANGED <<rows, uploads, replaced, behind, memory>>
           /\ faults \subseteq faults' /\ (used' = used \/ Happens("failure"))
           /\ RemovesSome \/ RemovePanics
<1>1. /\ call.pc = "remove" /\ UNCHANGED <<rows, uploads, replaced, behind, memory>>
      /\ faults \subseteq faults' /\ (used' = used \/ Happens("failure"))
  BY DEF rm_remote, Blame
<1>2. ASSUME remote' = Without(remote, Gone), NextEntry, faults' = faults PROVE RemovesSome
  BY <1>2 DEF RemovesSome
<1>3. \/ remote' = Without(remote, Gone) /\ NextEntry /\ faults' = faults
      \/ RemovesSome
      \/ RemovePanics
  BY DEF rm_remote, RemovesSome, RemovePanics
<1> QED
  BY <1>1, <1>2, <1>3

LEMMA RemovePanicked ==
    ASSUME RemovePanics
    PROVE  /\ DOMAIN call' = {"pc", "panic", "ino"} /\ call'.pc = "panicked"
           /\ call'.panic = "rclone" /\ "start" \in faults' /\ todo' = todo
BY DEF RemovePanics, Panic, Blame

LEMMA RemoveForm ==
    ASSUME FuseForm, rm_remote
    PROVE  FuseForm'
<1>1. FilesForm' /\ TreeForm' /\ Placed'
  BY RemoveIs, MemorySame DEF memory
<1>2. RowsForm /\ CallForm /\ call.pc \in Renaming /\ rows' = rows
  BY RemoveIs DEF FuseForm, Renaming
<1>3. used' \in [{"update", "rename", "failure", "crash"} -> Nat]
  <2>1. CASE used' = used
    BY <1>2, <2>1 DEF RowsForm
  <2>2. CASE Happens("failure")
    BY <1>2, <2>2, HappensForm
  <2> QED
    BY <2>1, <2>2, RemoveIs
<1>4. RowsForm'
  BY <1>2, <1>3 DEF RowsForm
<1>5. CallForm'
  <2>1. CASE RemovesSome
    BY <1>2, <2>1, NextEntryForm DEF RemovesSome
  <2>2. CASE RemovePanics
    BY <1>2, <2>2, RemovePanicked DEF CallForm, Renaming
  <2> QED
    BY <2>1, <2>2, RemoveIs
<1> QED
  BY <1>1, <1>4, <1>5 DEF FuseForm

(* The row that is moved and those that stay.                              *)
LEMMA MovedRowIs ==
    ASSUME RowsForm, e.from \in DOMAIN rows, e.node \in Node
    PROVE  /\ DOMAIN MovedRow = (DOMAIN rows \ {e.from}) \cup {e.to}
           /\ MovedRow[e.to] \in Row /\ MovedRow[e.to].id = rows[e.from].id
           /\ MovedRow[e.to].version = rows[e.from].version
           /\ MovedRow[e.to].located = e.node.located
           /\ \A q \in DOMAIN rows \ {e.from} : q # e.to => MovedRow[q] = rows[q]
<1>1. PICK row : row = [rows[e.from] EXCEPT !.located = e.node.located]
  OBVIOUS
<1>2. e.node.located \in BOOLEAN /\ rows[e.from] \in Row
  BY DEF Node, RowsForm
<1>3. /\ row \in Row /\ row.id = rows[e.from].id /\ row.version = rows[e.from].version
      /\ row.located = e.node.located
  <2>1. PICK old \in Row : old = rows[e.from]
    BY <1>2
  <2>2. PICK b \in BOOLEAN : b = e.node.located
    BY <1>2
  <2>3. row = [old EXCEPT !.located = b]
    BY <1>1, <2>1, <2>2
  <2> QED
    BY <2>1, <2>2, <2>3, LocatedRow
<1>4. PICK from, to : from = e.from /\ to = e.to
  OBVIOUS
<1>5. PICK r : r = Without(rows, {from})
  OBVIOUS
<1>6. DOMAIN r = DOMAIN rows \ {from} /\ \A q \in DOMAIN rows \ {from} : r[q] = rows[q]
  BY <1>5 DEF Without, Restrict
<1>7. PICK w : w = With(r, to, row)
  OBVIOUS
<1>8. /\ DOMAIN w = DOMAIN r \cup {to} /\ w[to] = row
      /\ \A q \in DOMAIN r : q # to => w[q] = r[q]
  BY <1>7 DEF With
<1>9. MovedRow = w
  BY <1>1, <1>4, <1>5, <1>7 DEF MovedRow
<1> QED
  BY <1>3, <1>4, <1>6, <1>8, <1>9

RowsSecond ==
    rows' = [p \in DOMAIN rows |->
               IF p = e.to THEN [rows[p] EXCEPT !.located = e.node.located] ELSE rows[p]]

LEMMA MoveCases ==
    ASSUME mv_file_info
    PROVE  \/ /\ e.from \in DOMAIN rows /\ (e.to = e.from \/ e.to \notin DOMAIN rows)
              /\ rows' = MovedRow /\ call' = [call EXCEPT !.pc = "remove"]
           \/ /\ e.from \notin DOMAIN rows /\ RowsSecond
              /\ call' = [call EXCEPT !.pc = "remove"]
           \/ /\ rows' = rows /\ Panic("not unique", e.node.ino)
              /\ e.from \in DOMAIN rows /\ e.to \in DOMAIN rows
           \/ /\ rows' = rows /\ Panic("foreign key", e.node.ino) /\ e.from \notin DOMAIN rows
BY DEF mv_file_info, RowsSecond

LEMMA RowsSecondIs ==
    ASSUME RowsForm, e.node \in Node, RowsSecond
    PROVE  /\ DOMAIN rows' = DOMAIN rows
           /\ \A q \in DOMAIN rows : rows'[q] \in Row /\ rows'[q].id = rows[q].id
<1>1. DOMAIN rows' = DOMAIN rows
  BY DEF RowsSecond
<1>2. ASSUME NEW q \in DOMAIN rows PROVE rows'[q] \in Row /\ rows'[q].id = rows[q].id
  <2>1. PICK old \in Row : old = rows[q]
    BY DEF RowsForm
  <2>2. PICK b \in BOOLEAN : b = e.node.located
    BY DEF Node
  <2>3. rows'[q] = IF q = e.to THEN [old EXCEPT !.located = b] ELSE old
    BY <2>1, <2>2 DEF RowsSecond
  <2> QED
    BY <2>1, <2>3, LocatedRow
<1> QED
  BY <1>1, <1>2

LEMMA MoveForm ==
    ASSUME FuseForm, mv_file_info
    PROVE  FuseForm'
<1>1. FilesForm' /\ TreeForm' /\ Placed'
  BY MemorySame DEF mv_file_info, memory
<1>2. RowsForm /\ CallForm /\ todo # <<>>
  BY DEF FuseForm, mv_file_info, CallForm, Renaming
<1>3. e.from \in Path /\ e.to \in Path /\ e.node \in Node
  BY <1>2, EntryIs
<1>4. used' = used /\ todo' = todo
  BY DEF mv_file_info
<1>5. RowsForm'
  <2>1. CASE e.from \in DOMAIN rows /\ rows' = MovedRow
    <3>1. DOMAIN rows' = (DOMAIN rows \ {e.from}) \cup {e.to} /\ \A q \in DOMAIN rows' : rows'[q] \in Row
      BY <1>2, <1>3, <2>1, MovedRowIs DEF RowsForm
    <3>2. IsFiniteSet(DOMAIN rows')
      <4>1. PICK D : D = DOMAIN rows \ {e.from}
        OBVIOUS
      <4>2. IsFiniteSet(D)
        BY <1>2, <4>1, FS_Subset DEF RowsForm
      <4> QED
        BY <3>1, <4>1, <4>2, FS_AddElement
    <3> QED
      BY <1>2, <1>3, <1>4, <3>1, <3>2 DEF RowsForm
  <2>2. CASE RowsSecond
    BY <1>2, <1>3, <1>4, <2>2, RowsSecondIs DEF RowsForm
  <2>3. CASE rows' = rows
    BY <1>2, <1>4, <2>3 DEF RowsForm
  <2> QED
    BY <2>1, <2>2, <2>3, MoveCases
<1>6. CallForm'
  <2>1. CASE call' = [call EXCEPT !.pc = "remove"]
    BY <1>2, <1>4, <2>1 DEF CallForm, Renaming
  <2>2. ASSUME NEW why, NEW ino, Panic(why, ino)
        PROVE  DOMAIN call' = {"pc", "panic", "ino"} /\ call'.pc = "panicked"
    BY <2>2 DEF Panic
  <2>3. CASE DOMAIN call' = {"pc", "panic", "ino"} /\ call'.pc = "panicked"
    BY <1>2, <1>4, <2>3 DEF CallForm, Renaming
  <2> QED
    BY <2>1, <2>2, <2>3, MoveCases
<1> QED
  BY <1>1, <1>5, <1>6 DEF FuseForm

LEMMA GetattrForm ==
    ASSUME FuseForm, NEW ino, getattr_mem(ino)
    PROVE  FuseForm'
<1>1. call' = NoCall \/ \E i : Panic("dead reference", i)
  BY DEF getattr_mem
<1> QED
  BY <1>1, AnswerForm DEF getattr_mem, memory

LEMMA LookupForm ==
    ASSUME FuseForm, NEW ino, NEW name, lookup_mem(ino, name)
    PROVE  FuseForm'
<1>1. call' = NoCall \/ \E i : Panic("dead reference", i)
  BY DEF lookup_mem
<1> QED
  BY <1>1, AnswerForm DEF lookup_mem

LEMMA StutterForm ==
    ASSUME FuseForm, UNCHANGED vars
    PROVE  FuseForm'
<1>1. RowsForm'
  BY RowsSame DEF vars, database
<1> QED
  BY <1>1, RowsStepForm DEF vars

LEMMA FuseFormStep ==
    ASSUME FuseForm, [Next]_vars
    PROVE  FuseForm'
<1>1. ASSUME NEW p \in DOMAIN rows, Update(p) \/ UpdateInPlace(p) \/ StartUpload(p) PROVE FuseForm'
  BY <1>1, UpdateForm, InPlaceForm, UploadForm
<1>2. ASSUME NEW p \in Arriving, Arrive(p) PROVE FuseForm'
  BY <1>2, ArriveForm
<1>3. ASSUME NEW u \in uploads, EndUpload(u) PROVE FuseForm'
  BY <1>3, EndUploadForm
<1>4. CASE StartCall
  BY <1>4, StartCallForm
<1>5. CASE InsertFile
  BY <1>5, InsertFileForm
<1>6. CASE Serve
  <2>1. ASSUME NEW h \in held, getattr_mem(h.ino) PROVE FuseForm'
    BY <2>1, GetattrForm
  <2>2. ASSUME NEW h \in held, NEW n \in NewName \union DOMAIN Folder, lookup_mem(h.ino, n)
        PROVE  FuseForm'
    BY <2>2, LookupForm
  <2>3. ASSUME NEW h \in held, NEW g \in held, NEW n \in NewName, NEW as \in NewName,
               rename_mem(h.ino, n, g.ino, as)
        PROVE  FuseForm'
    BY <2>3, RenameForm
  <2> QED
    BY <1>6, <2>1, <2>2, <2>3 DEF Serve
<1>7. CASE cp_remote_to_remote
  BY <1>7, CopyForm
<1>8. CASE mv_file_info
  BY <1>8, MoveForm
<1>9. CASE rm_remote
  BY <1>9, RemoveForm
<1>10. CASE Crash
  BY <1>10, CrashForm
<1>11. CASE UNCHANGED vars
  BY <1>11, StutterForm
<1> QED
  BY <1>1, <1>2, <1>3, <1>4, <1>5, <1>6, <1>7, <1>8, <1>9, <1>10, <1>11 DEF Next, Thread

LEMMA FuseFormHolds == Spec => []FuseForm
<1>1. Init => FuseForm
  BY InitialFuseForm
<1>2. FuseForm /\ [Next]_vars => FuseForm'
  BY FuseFormStep
<1> QED
  BY <1>1, <1>2, PTL DEF Spec

(* Once the queue is empty the tree has the entries of the rows that the   *)
(* refresh read, each with its row's node, and no other (fuse.rs,          *)
(* refresh_expired_folders_files), however the rows came in and whatever   *)
(* calls, renames, changes and crashes come between.                       *)
THEOREM TreeShowsSnapshot == Spec => []TreeIsSnapshot
<1>1. ASSUME FuseForm PROVE TreeIsSnapshot
  <2>1. ASSUME queue = <<>>
        PROVE  /\ {p \in DOMAIN fs_mem.tree : Len(p) > 1} = DOMAIN files
               /\ \A p \in DOMAIN files : fs_mem.tree[p] = FileNode(files[p])
    <3>1. ToSet(queue) = {}
      BY <2>1, NoPath
    <3>2. {p \in DOMAIN fs_mem.tree : Len(p) > 1} = DOMAIN files
      BY <1>1, <3>1 DEF FuseForm, Placed
    <3>3. DOMAIN files \subseteq DOMAIN fs_mem.tree
      BY <3>2
    <3> QED
      BY <1>1, <3>2, <3>3 DEF FuseForm, Placed
  <2> QED
    BY <2>1 DEF TreeIsSnapshot
<1> QED
  BY <1>1, FuseFormHolds, PTL

-----------------------------------------------------------------------------
(* References. An inode the tree knows is alive, waits in the queue to be  *)
(* alive again, or was replaced; and it is that of a row until then.       *)
TopIds == {top_dir_id(f) : f \in DOMAIN Folder}
EntryIds(f) == {entry_id(f[p].id) : p \in DOMAIN f}
WaitingIds == {entry_id(files[p].id) : p \in ToSet(queue)}

KnownInv ==
    /\ fs_mem.known \subseteq fs_mem.live \cup WaitingIds \cup replaced
    /\ fs_mem.known \subseteq {Root} \cup TopIds \cup EntryIds(rows) \cup replaced
    /\ EntryIds(files) \subseteq EntryIds(rows) \cup replaced
    /\ DeadOnlyIfReplaced

(* No step but a peer's change takes the inode of a row away.              *)
IdsKept == EntryIds(rows) \subseteq EntryIds(rows)' \cup replaced' /\ replaced \subseteq replaced'

LEMMA SameIdsKept ==
    ASSUME DOMAIN rows \subseteq DOMAIN rows', \A q \in DOMAIN rows : rows'[q].id = rows[q].id,
           replaced' = replaced
    PROVE  IdsKept
BY DEF IdsKept, EntryIds

LEMMA UpdateKeeps ==
    ASSUME FuseForm, NEW p \in DOMAIN rows, Update(p)
    PROVE  IdsKept
<1>1. DOMAIN rows' = DOMAIN rows /\ \A q \in DOMAIN rows : q # p => rows'[q] = rows[q]
  BY DEF Update
<1>2. replaced' = replaced \cup {entry_id(rows[p].id)}
  BY DEF Update
<1> QED
  BY <1>1, <1>2 DEF IdsKept, EntryIds

LEMMA ArriveKeeps ==
    ASSUME NEW p, Arrive(p)
    PROVE  IdsKept
<1>1. PICK row : row = [id |-> NewId, version |-> 1, located |-> FALSE, dir |-> FALSE]
  OBVIOUS
<1>2. rows' = With(rows, p, row) /\ p \notin DOMAIN rows /\ replaced' = replaced
  BY <1>1 DEF Arrive
<1>3. DOMAIN rows \subseteq DOMAIN rows' /\ \A q \in DOMAIN rows : rows'[q] = rows[q]
  BY <1>2 DEF With
<1> QED
  BY <1>2, <1>3, SameIdsKept

LEMMA MoveKeeps ==
    ASSUME FuseForm, mv_file_info
    PROVE  IdsKept
<1>1. RowsForm /\ CallForm /\ todo # <<>> /\ replaced' = replaced
  BY DEF FuseForm, mv_file_info, CallForm, Renaming
<1>2. e.node \in Node
  BY <1>1, EntryIs
<1>3. CASE /\ e.from \in DOMAIN rows /\ (e.to = e.from \/ e.to \notin DOMAIN rows)
           /\ rows' = MovedRow
  <2>1. PICK from, to : from = e.from /\ to = e.to
    OBVIOUS
  <2>2. /\ DOMAIN rows' = (DOMAIN rows \ {from}) \cup {to} /\ rows'[to].id = rows[from].id
        /\ \A q \in DOMAIN rows \ {from} : q # to => rows'[q] = rows[q]
    BY <1>1, <1>2, <1>3, <2>1, MovedRowIs
  <2>3. ASSUME NEW q \in DOMAIN rows
        PROVE  \E r \in DOMAIN rows' : rows'[r].id = rows[q].id
    <3>1. CASE q = from
      BY <2>2, <3>1
    <3>2. CASE q # from
      BY <1>3, <2>1, <2>2, <3>2
    <3> QED
      BY <3>1, <3>2
  <2> QED
    BY <1>1, <2>3 DEF IdsKept, EntryIds
<1>4. CASE RowsSecond
  BY <1>1, <1>2, <1>4, RowsSecondIs, SameIdsKept
<1>5. CASE rows' = rows
  BY <1>1, <1>5, SameIdsKept
<1> QED
  BY <1>3, <1>4, <1>5, MoveCases

LEMMA MemoryStaysKnown ==
    ASSUME KnownInv, IdsKept, UNCHANGED <<fs_mem, files, queue>>, DeadOnlyIfReplaced'
    PROVE  KnownInv'
<1>1. WaitingIds' = WaitingIds /\ EntryIds(files)' = EntryIds(files)
  BY DEF WaitingIds, EntryIds
<1> QED
  BY <1>1 DEF KnownInv, IdsKept

LEMMA CallStaysAlive ==
    ASSUME KnownInv, IdsKept, call' = call
    PROVE  DeadOnlyIfReplaced'
BY DEF KnownInv, IdsKept, DeadOnlyIfReplaced

LEMMA RefreshKnown ==
    ASSUME FuseForm, KnownInv, fs_mem' = insert_folders, files' = rows,
           queue' \in SetToSeqs(DOMAIN rows), UNCHANGED <<rows, replaced>>, DeadOnlyIfReplaced'
    PROVE  KnownInv'
<1>1. /\ fs_mem'.known = fs_mem.known \cup TopIds
      /\ fs_mem'.live = {Root} \cup TopIds
  BY DEF insert_folders, TopIds
<1>2. ToSet(queue') = DOMAIN rows
  <2>1. PICK q : q = queue'
    OBVIOUS
  <2> QED
    BY <2>1, Enumeration DEF FuseForm, RowsForm
<1>3. WaitingIds' = EntryIds(rows) /\ EntryIds(files)' = EntryIds(rows)
  BY <1>2 DEF WaitingIds, EntryIds
<1>4. EntryIds(rows)' = EntryIds(rows)
  BY DEF EntryIds
<1> QED
  BY <1>1, <1>3, <1>4 DEF KnownInv

LEMMA InsertFileKnown ==
    ASSUME FuseForm, KnownInv, InsertFile
    PROVE  KnownInv'
<1>1. DeadOnlyIfReplaced' /\ EntryIds(rows)' = EntryIds(rows) /\ EntryIds(files)' = EntryIds(files)
      /\ replaced' = replaced /\ files' = files
  BY DEF InsertFile, database, DeadOnlyIfReplaced, KnownInv, EntryIds
<1>2. PICK p : p = Head(queue)
  OBVIOUS
<1>3. /\ p \in DOMAIN files /\ Tail(queue) \in Seq(DOMAIN files)
      /\ ToSet(queue) = {p} \cup ToSet(Tail(queue))
  BY <1>2, HeadAndTail DEF FuseForm, FilesForm, InsertFile
<1>4. PICK id : id = entry_id(files[p].id)
  OBVIOUS
<1>5. id \in EntryIds(files)
  BY <1>3, <1>4 DEF EntryIds
<1>6. CASE Front(p) \in DOMAIN fs_mem.tree
  <2>1. /\ fs_mem'.known = fs_mem.known \cup {id} /\ fs_mem'.live = fs_mem.live \cup {id}
        /\ queue' = Tail(queue)
    BY <1>2, <1>4, <1>6 DEF InsertFile, insert_file
  <2>2. WaitingIds \subseteq {id} \cup WaitingIds'
    BY <1>1, <1>3, <1>4, <2>1 DEF WaitingIds
  <2> QED
    BY <1>1, <1>5, <2>1, <2>2 DEF KnownInv
<1>7. CASE Front(p) \notin DOMAIN fs_mem.tree
  <2>1. fs_mem' = fs_mem /\ queue' = Append(Tail(queue), p)
    BY <1>2, <1>7 DEF InsertFile, insert_file, Requeued
  <2>2. ToSet(queue') = ToSet(queue)
    <3>1. PICK t : t = Tail(queue)
      OBVIOUS
    <3>2. PICK F : F = DOMAIN files
      OBVIOUS
    <3>3. t \in Seq(F) /\ p \in F
      BY <1>3, <3>1, <3>2
    <3>4. ToSet(Append(t, p)) = ToSet(t) \cup {p}
      BY <3>3, AppendedSet
    <3> QED
      BY <1>3, <2>1, <3>1, <3>4
  <2>3. WaitingIds' = WaitingIds
    BY <1>1, <2>2 DEF WaitingIds
  <2> QED
    BY <1>1, <2>1, <2>3 DEF KnownInv
<1> QED
  BY <1>6, <1>7

LEMMA NoIds == EntryIds(<<>>) = {}
BY NoPath DEF EntryIds

LEMMA DeadIsReplaced ==
    ASSUME KnownInv, Ready, NEW ino, Dead(ino)
    PROVE  ino \in replaced
<1>1. ToSet(queue) = {}
  BY NoPath DEF Ready
<1>2. WaitingIds = {}
  BY <1>1 DEF WaitingIds
<1> QED
  BY <1>2 DEF KnownInv, Dead

LEMMA AnswerKnown ==
    ASSUME KnownInv, UNCHANGED <<database, fs_mem, files, queue>>, Ready,
           call' = NoCall \/ \E ino : Dead(ino) /\ Panic("dead reference", ino)
    PROVE  KnownInv'
<1>1. IdsKept
  BY SameIdsKept DEF database
<1>2. CASE call' = NoCall
  <2>1. DeadOnlyIfReplaced'
    BY <1>2 DEF NoCall, DeadOnlyIfReplaced
  <2> QED
    BY <1>1, <2>1, MemoryStaysKnown
<1>3. ASSUME NEW ino, Dead(ino), Panic("dead reference", ino) PROVE KnownInv'
  <2>1. ino \in replaced
    BY <1>3, DeadIsReplaced
  <2>2. call'.ino = ino
    BY <1>3 DEF Panic
  <2>3. DeadOnlyIfReplaced'
    BY <1>1, <2>1, <2>2 DEF DeadOnlyIfReplaced, IdsKept
  <2> QED
    BY <1>1, <2>3, MemoryStaysKnown
<1> QED
  BY <1>2, <1>3

LEMMA NotDead ==
    ASSUME call'.pc \in {"idle", "refresh"} \cup Renaming
    PROVE  DeadOnlyIfReplaced'
BY DEF DeadOnlyIfReplaced, Renaming

LEMMA KnownStep ==
    ASSUME FuseForm, KnownInv, [Next]_vars
    PROVE  KnownInv'
<1>0. CallForm
  BY DEF FuseForm
<1>1. ASSUME NEW p \in DOMAIN rows, Update(p) PROVE KnownInv'
  BY <1>1, UpdateKeeps, CallStaysAlive, MemoryStaysKnown DEF Update, memory
<1>2. ASSUME NEW p \in DOMAIN rows, UpdateInPlace(p) \/ StartUpload(p) PROVE KnownInv'
  <2>1. CASE UpdateInPlace(p)
    <3>1. IdsKept
      BY <2>1, InPlaceForm, SameIdsKept DEF UpdateInPlace
    <3> QED
      BY <2>1, <3>1, CallStaysAlive, MemoryStaysKnown DEF UpdateInPlace, memory
  <2>2. CASE StartUpload(p)
    <3>1. IdsKept
      BY <2>2, UploadIs, SameIdsKept
    <3> QED
      BY <2>2, <3>1, UploadIs, CallStaysAlive, MemoryStaysKnown DEF memory
  <2> QED
    BY <1>2, <2>1, <2>2
<1>3. ASSUME NEW p \in Arriving, Arrive(p) PROVE KnownInv'
  BY <1>3, ArriveKeeps, CallStaysAlive, MemoryStaysKnown DEF Arrive, memory
<1>4. ASSUME NEW u \in uploads, EndUpload(u) PROVE KnownInv'
  <2>1. IdsKept
    BY <1>4, EndUploadForm, SameIdsKept DEF EndUpload
  <2> QED
    BY <1>4, <2>1, CallStaysAlive, MemoryStaysKnown DEF EndUpload, memory
<1>5. CASE StartCall
  <2>1. DeadOnlyIfReplaced' /\ UNCHANGED <<rows, replaced>>
    BY <1>0, <1>5, NotDead DEF StartCall, CallForm, database
  <2>2. IdsKept
    BY <2>1, SameIdsKept
  <2>3. CASE fs_mem' = insert_folders /\ files' = rows /\ queue' \in SetToSeqs(DOMAIN rows)
    BY <2>1, <2>3, RefreshKnown
  <2>4. CASE UNCHANGED <<files, queue, fs_mem>>
    BY <2>1, <2>2, <2>4, MemoryStaysKnown
  <2> QED
    BY <1>5, <2>3, <2>4 DEF StartCall, refresh_expired_folders_files
<1>6. CASE InsertFile
  BY <1>6, InsertFileKnown
<1>7. CASE Serve
  <2>1. ASSUME NEW h \in held, getattr_mem(h.ino) PROVE KnownInv'
    BY <2>1, AnswerKnown DEF getattr_mem, memory
  <2>2. ASSUME NEW h \in held, NEW n \in NewName \union DOMAIN Folder, lookup_mem(h.ino, n)
        PROVE  KnownInv'
    BY <2>2, AnswerKnown DEF lookup_mem
  <2>3. ASSUME NEW h \in held, NEW g \in held, NEW n \in NewName, NEW as \in NewName,
               rename_mem(h.ino, n, g.ino, as)
        PROVE  KnownInv'
    <3>1. call'.pc = "copy"
      BY <1>0, <2>3 DEF rename_mem, CallForm
    <3>2. IdsKept
      BY <2>3, SameIdsKept DEF rename_mem, database
    <3> QED
      BY <2>3, <3>1, <3>2, NotDead, MemoryStaysKnown DEF rename_mem, memory, Renaming
  <2> QED
    BY <1>7, <2>1, <2>2, <2>3 DEF Serve
<1>8. CASE cp_remote_to_remote
  <2>1. call'.pc \in {"idle", "copy", "move"}
    <3>1. CASE NextEntry
      BY <1>0, <3>1 DEF NextEntry, CallForm, NoCall
    <3>2. CASE call' = [call EXCEPT !.pc = "move"]
      BY <1>0, <3>2 DEF CallForm
    <3> QED
      BY <1>8, <3>1, <3>2 DEF cp_remote_to_remote
  <2>2. IdsKept
    BY <1>8, SameIdsKept DEF cp_remote_to_remote
  <2> QED
    BY <1>8, <2>1, <2>2, NotDead, MemoryStaysKnown DEF cp_remote_to_remote, memory, Renaming
<1>9. CASE mv_file_info
  <2>1. DeadOnlyIfReplaced'
    <3>1. CASE call' = [call EXCEPT !.pc = "remove"]
      <4>1. call'.pc = "remove"
        BY <1>0, <3>1 DEF CallForm
      <4> QED
        BY <4>1, NotDead DEF Renaming
    <3>2. CASE Panic("not unique", e.node.ino) \/ Panic("foreign key", e.node.ino)
      <4>1. CASE Panic("not unique", e.node.ino)
        <5>1. call'.panic = "not unique"
          BY <4>1 DEF Panic
        <5> QED
          BY <5>1 DEF DeadOnlyIfReplaced
      <4>2. CASE Panic("foreign key", e.node.ino)
        <5>1. call'.panic = "foreign key"
          BY <4>2 DEF Panic
        <5> QED
          BY <5>1 DEF DeadOnlyIfReplaced
      <4> QED
        BY <3>2, <4>1, <4>2
    <3> QED
      BY <1>9, <3>1, <3>2, MoveCases
  <2> QED
    BY <1>9, <2>1, MoveKeeps, MemoryStaysKnown DEF mv_file_info, memory
<1>10. CASE rm_remote
  <2>1. DeadOnlyIfReplaced'
    <3>1. CASE RemovesSome
      <4>1. call'.pc \in {"idle", "copy"}
        BY <1>0, <3>1 DEF RemovesSome, NextEntry, CallForm, NoCall
      <4> QED
        BY <4>1, NotDead DEF Renaming
    <3>2. CASE RemovePanics
      BY <3>2, RemovePanicked DEF DeadOnlyIfReplaced
    <3> QED
      BY <1>10, <3>1, <3>2, RemoveIs
  <2>2. IdsKept
    BY <1>10, RemoveIs, SameIdsKept
  <2> QED
    BY <1>10, <2>1, <2>2, RemoveIs, MemoryStaysKnown DEF memory
<1>11. CASE Crash
  <2>1. /\ fs_mem'.known = {Root} /\ fs_mem'.live = {Root} /\ EntryIds(files)' = {}
    BY <1>11, NoIds DEF Crash, NewMem, EntryIds
  <2>2. call'.pc = "idle"
    BY <1>11 DEF Crash, NoCall
  <2> QED
    BY <2>1, <2>2, NotDead DEF KnownInv
<1>12. CASE UNCHANGED vars
  BY <1>12, SameIdsKept, CallStaysAlive, MemoryStaysKnown DEF vars, database, memory
<1> QED
  BY <1>1, <1>2, <1>3, <1>4, <1>5, <1>6, <1>7, <1>8, <1>9, <1>10, <1>11, <1>12 DEF Next, Thread

LEMMA InitialKnown ==
    ASSUME Init
    PROVE  KnownInv
<1>1. fs_mem.known = {Root} /\ fs_mem.live = {Root} /\ EntryIds(files) = {} /\ call.pc = "idle"
  BY NoIds DEF Init, NewMem, NoCall
<1> QED
  BY <1>1 DEF KnownInv, DeadOnlyIfReplaced

(* "Safe to unwrap, the reference must always be valid" (fuse.rs): a call  *)
(* panics on a dead reference only when a peer's change has replaced the   *)
(* row of its inode; no rename, however it ends, and no refresh kills one. *)
THEOREM ReferencesDieWithRows == Spec => []DeadOnlyIfReplaced
<1>1. Init => FuseForm /\ KnownInv
  BY InitialFuseForm, InitialKnown
<1>2. FuseForm /\ KnownInv /\ [Next]_vars => (FuseForm /\ KnownInv)'
  BY FuseFormStep, KnownStep
<1>3. KnownInv => DeadOnlyIfReplaced
  BY DEF KnownInv
<1> QED
  BY <1>1, <1>2, <1>3, PTL DEF Spec

-----------------------------------------------------------------------------
(* Objects. While nothing excuses it (Clean), the object of a located row  *)
(* is at the backend, in the row's version unless the row was changed in   *)
(* place; so is that of an upload whose row is still the one it began      *)
(* with, and what a rename has copied, whose row, if it is still the       *)
(* node's, is located; and nothing is below a path that is about to be     *)
(* removed.                                                                *)
Clean == faults \cap {"stale", "folder", "exists", "upload", "copy", "start"} = {}
AtBackend(p) == p \in DOMAIN remote /\ (rows[p].id \notin behind => remote[p] = rows[p].version)
UploadKept(u) == u.path \in DOMAIN rows /\ rows[u.path].id = u.id => AtBackend(u.path)
Apart(x) == x.to = x.from \/ ~IsPrefix(x.from, x.to)

RowsKept == \A p \in DOMAIN rows : rows[p].located => AtBackend(p)
UploadsKept == \A u \in uploads : UploadKept(u)
CopyKept == call.pc = "move" /\ e.node.located /\ e.to \notin DOMAIN rows
            => /\ e.to \in DOMAIN remote
               /\ e.from \in DOMAIN rows /\ entry_id(rows[e.from].id) = e.node.ino =>
                    /\ rows[e.from].located
                    /\ rows[e.from].id \notin behind => remote[e.to] = e.node.version
NothingBelow == call.pc = "remove" => \A q \in DOMAIN rows : ~IsPrefix(e.from, q)
NamesApart == \A x \in ToSet(todo) : Apart(x)

KeptInv == RowsKept /\ UploadsKept /\ CopyKept /\ NothingBelow /\ NamesApart
BackendInv == Clean => KeptInv

(* The rowid that comes next was never given.                              *)
IdsForm ==
    /\ \A p \in DOMAIN rows : rows[p].id < NewId
    /\ \A u \in uploads : u.id \in Nat /\ u.id < NewId

LEMMA InitialBackend ==
    ASSUME Init
    PROVE  IdsForm /\ BackendInv
<1>1. Cardinality(DOMAIN InitialRows) \in Nat
  BY FuseAssumption, FS_CardinalityType
<1>2. PICK n \in Nat : n = Cardinality(DOMAIN InitialRows)
  BY <1>1
<1>3. NewId = n + 1
  BY <1>2 DEF Init, NewId
<1>4. \A p \in DOMAIN rows : rows[p].id \in 1 .. n
  BY <1>2, FuseAssumption DEF Init
<1>5. \A p \in DOMAIN rows : rows[p].id < NewId
  BY <1>2, <1>3, <1>4
<1>6. \A p \in DOMAIN rows : rows[p].located => AtBackend(p)
  BY DEF Init, AtBackend
<1>7. ToSet(todo) = {} /\ uploads = {} /\ call.pc = "idle"
  BY NoPath DEF Init, NoCall
<1> QED
  BY <1>5, <1>6, <1>7 DEF IdsForm, BackendInv, KeptInv, RowsKept, UploadsKept, CopyKept,
                          NothingBelow, NamesApart

LEMMA IdsSame ==
    ASSUME IdsForm, UNCHANGED used, uploads' \subseteq uploads,
           \A p \in DOMAIN rows' : \E q \in DOMAIN rows : rows'[p].id = rows[q].id
    PROVE  IdsForm'
<1>1. NewId' = NewId
  BY DEF NewId
<1> QED
  BY <1>1 DEF IdsForm

LEMMA NextId ==
    ASSUME RowsForm, NEW event \in {"update", "failure", "crash"}, Happens(event)
    PROVE  NewId \in Nat /\ NewId' \in Nat /\ NewId <= NewId' /\ (event = "update" => NewId < NewId')
<1>1. PICK n \in Nat : n = Cardinality(DOMAIN InitialRows)
  BY FuseAssumption, FS_CardinalityType
<1>2. PICK k \in Nat : k = used["update"]
  BY DEF RowsForm
<1>3. used' = [used EXCEPT ![event] = @ + 1] /\ used \in [{"update", "rename", "failure", "crash"} -> Nat]
  BY DEF Happens, RowsForm
<1>4. used'["update"] = IF event = "update" THEN k + 1 ELSE k
  BY <1>2, <1>3
<1>5. NewId = n + k + 1 /\ NewId' = n + used'["update"] + 1
  BY <1>1, <1>2 DEF NewId
<1> QED
  BY <1>4, <1>5

LEMMA IdsGrow ==
    ASSUME FuseForm, IdsForm, uploads' \subseteq uploads, NewId \in Nat, NewId' \in Nat, NewId <= NewId',
           \A p \in DOMAIN rows' : \/ \E q \in DOMAIN rows : rows'[p].id = rows[q].id
                                   \/ rows'[p].id = NewId /\ NewId < NewId'
    PROVE  IdsForm'
<1>1. PICK a \in Nat : a = NewId
  OBVIOUS
<1>2. PICK b \in Nat : b = NewId'
  OBVIOUS
<1>3. \A q \in DOMAIN rows : rows[q].id \in Nat /\ rows[q].id < a
  BY <1>1 DEF IdsForm, FuseForm, RowsForm, Row
<1>4. \A u \in uploads : u.id \in Nat /\ u.id < a
  BY <1>1 DEF IdsForm
<1>5. a <= b
  BY <1>1, <1>2
<1>6. ASSUME NEW p \in DOMAIN rows' PROVE rows'[p].id < b
  <2>1. ASSUME NEW q \in DOMAIN rows, rows'[p].id = rows[q].id PROVE rows'[p].id < b
    <3>1. PICK k \in Nat : k = rows[q].id /\ k < a
      BY <1>3
    <3>2. k < b
      BY <1>5, <3>1
    <3> QED
      BY <2>1, <3>1, <3>2
  <2>2. CASE rows'[p].id = NewId /\ NewId < NewId'
    BY <1>1, <1>2, <2>2
  <2> QED
    BY <2>1, <2>2
<1>7. ASSUME NEW u \in uploads' PROVE u.id \in Nat /\ u.id < b
  <2>1. PICK k \in Nat : k = u.id /\ k < a
    BY <1>4
  <2>2. k < b
    BY <1>5, <2>1
  <2> QED
    BY <2>1, <2>2
<1> QED
  BY <1>2, <1>6, <1>7 DEF IdsForm

(* Rowids are unique, in the table and among the rows that were read.      *)
RowIdsApart == \A p, q \in DOMAIN rows : rows[p].id = rows[q].id => p = q
FileIdsApart == \A p, q \in DOMAIN files : files[p].id = files[q].id => p = q
FilesOlder == \A p \in DOMAIN files : files[p].id < NewId
UniqueIds == RowIdsApart /\ FileIdsApart /\ FilesOlder

(* What a rename has still to move, T: the entries of a directory come     *)
(* before it, with the nodes of the tree; and the rows in it that the tree *)
(* has are among them, unless every entry keeps its name.                  *)
Remaining == IF call.pc = "remove" THEN Tail(todo) ELSE todo
Ordered(T) == \A i, k \in 1 .. Len(T) : IsStrictPrefix(T[k].from, T[i].from) => i < k
NodesSeen(T) ==
    \A i \in 1 .. Len(T) : /\ T[i].from \in DOMAIN fs_mem.tree
                           /\ T[i].node = fs_mem.tree[T[i].from]
LeftSeen(T) ==
    \A q \in DOMAIN rows, i \in 1 .. Len(T) :
       ~Unseen(q) /\ IsPrefix(T[i].from, q) => \E j \in 1 .. Len(T) : T[j].from = q
KeepsNames(T) == \A i \in 1 .. Len(T) : T[i].to = T[i].from
ChangesNames(T) == \A i \in 1 .. Len(T) : T[i].to # T[i].from
LeftForm(T) == /\ Ordered(T) /\ NodesSeen(T)
               /\ KeepsNames(T) \/ (ChangesNames(T) /\ LeftSeen(T))
Followed == faults \cap {"stale", "start"} = {}
LeftInv == Followed /\ call.pc \in Renaming => LeftForm(Remaining)

(* So a directory is empty when it is moved, unless the tree was stale.    *)
LEMMA NothingLeft ==
    ASSUME CallForm, LeftInv, call.pc = "move", Followed, e.to # e.from,
           \A p \in Below(e.from) : ~Unseen(p)
    PROVE  Below(e.from) = {}
<1>1. todo # <<>> /\ todo \in Seq(Entry)
  BY DEF CallForm, Renaming
<1>2. PICK T : T = todo
  OBVIOUS
<1>3. LeftForm(T)
  BY <1>2 DEF LeftInv, Remaining, Renaming
<1>4. PICK n \in Nat : n = Len(T) /\ n > 0
  BY <1>1, <1>2, HeadAndTail
<1>5. 1 \in 1 .. n /\ e = T[1]
  BY <1>1, <1>2, <1>4, EntryIs
<1>6. LeftSeen(T) /\ Ordered(T)
  BY <1>3, <1>4, <1>5 DEF LeftForm, KeepsNames
<1>7. ASSUME NEW q \in Below(e.from) PROVE FALSE
  <2>1. q \in DOMAIN rows /\ IsStrictPrefix(T[1].from, q) /\ IsPrefix(T[1].from, q) /\ ~Unseen(q)
    BY <1>5, <1>7 DEF Below, IsStrictPrefix
  <2>2. PICK j \in 1 .. n : T[j].from = q
    BY <1>4, <1>5, <1>6, <2>1 DEF LeftSeen
  <2>3. j < 1
    BY <1>4, <1>5, <1>6, <2>1, <2>2 DEF Ordered
  <2> QED
    BY <2>2, <2>3
<1> QED
  BY <1>7

(* No inode of the tree is that of the rowid that comes next.              *)
LEMMA InodeOlder ==
    ASSUME FuseForm, UniqueIds, NEW p \in Path, p \in DOMAIN fs_mem.tree
    PROVE  fs_mem.tree[p].ino # entry_id(NewId)
<1>1. p \in DOMAIN files
  BY DEF FuseForm, Placed, Path
<1>2. fs_mem.tree[p].ino = entry_id(files[p].id)
  <2>1. fs_mem.tree[p] = FileNode(files[p])
    BY <1>1 DEF FuseForm, Placed
  <2> QED
    BY <2>1 DEF FileNode
<1>3. PICK i \in Nat : i = files[p].id
  BY <1>1 DEF FuseForm, FilesForm, Row
<1>4. PICK n \in Nat : n = NewId
  BY NewIdType DEF FuseForm
<1>5. i < n
  BY <1>1, <1>3, <1>4 DEF UniqueIds, FilesOlder
<1>6. i + EntriesStart # n + EntriesStart
  BY <1>5, FuseAssumption
<1> QED
  BY <1>2, <1>3, <1>4, <1>6 DEF entry_id

(* So a new row is never taken for that of the entry being moved.          *)
LEMMA NodeOlder ==
    ASSUME FuseForm, UniqueIds, LeftInv, Clean, call.pc = "move"
    PROVE  e.node.ino # entry_id(NewId)
<1>1. CallForm /\ todo # <<>> /\ todo \in Seq(Entry)
  BY DEF FuseForm, CallForm, Renaming
<1>2. PICK T : T = todo
  OBVIOUS
<1>3. NodesSeen(T)
  BY <1>2 DEF LeftInv, LeftForm, Followed, Clean, Remaining, Renaming
<1>4. 1 \in 1 .. Len(T)
  <2>1. PICK n \in Nat : n = Len(T) /\ n > 0
    BY <1>1, <1>2, HeadAndTail
  <2> QED
    BY <2>1
<1>5. e = T[1] /\ e.from \in Path
  BY <1>1, <1>2, EntryIs
<1>6. e.from \in DOMAIN fs_mem.tree /\ e.node = fs_mem.tree[e.from]
  BY <1>3, <1>4, <1>5 DEF NodesSeen
<1>7. PICK p \in Path : p = e.from
  BY <1>5
<1> QED
  BY <1>6, <1>7, InodeOlder

(* What a rename has copied stays, if what changes is another row, or      *)
(* leaves the row as good a copy as it was.                                *)
LEMMA CopyStays ==
    ASSUME CopyKept, UNCHANGED <<call, todo>>, DOMAIN rows \subseteq DOMAIN rows',
           call.pc = "move" /\ e.to \notin DOMAIN rows /\ e.to \in DOMAIN remote =>
              e.to \in DOMAIN remote' /\ remote'[e.to] = remote[e.to],
           call.pc = "move" /\ e.from \in DOMAIN rows' /\ entry_id(rows'[e.from].id) = e.node.ino =>
              /\ e.from \in DOMAIN rows /\ rows'[e.from].id = rows[e.from].id
              /\ rows[e.from].located => rows'[e.from].located
              /\ rows[e.from].located /\ rows[e.from].id \in behind => rows[e.from].id \in behind'
    PROVE  CopyKept'
<1>1. e' = e
  BY DEF e
<1> QED
  BY <1>1 DEF CopyKept

(* The steps that leave the call alone.                                    *)
LEMMA CallStaysKept ==
    ASSUME KeptInv, UNCHANGED <<call, todo>>, RowsKept', UploadsKept', CopyKept',
           call.pc = "remove" => DOMAIN rows' = DOMAIN rows
    PROVE  KeptInv'
<1>1. e' = e
  BY DEF e
<1>2. CopyKept'
  OBVIOUS
<1>3. NothingBelow'
  BY <1>1 DEF KeptInv, NothingBelow
<1>4. NamesApart'
  BY DEF KeptInv, NamesApart
<1> QED
  BY <1>2, <1>3, <1>4 DEF KeptInv

LEMMA StillClean ==
    ASSUME faults \subseteq faults', Clean', BackendInv
    PROVE  KeptInv
BY DEF Clean, BackendInv

LEMMA UpdateBackend ==
    ASSUME FuseForm, IdsForm, UniqueIds, LeftInv, BackendInv, NEW p \in DOMAIN rows, Update(p)
    PROVE  IdsForm' /\ BackendInv'
<1>1. /\ RowsForm /\ uploads' = uploads /\ remote' = remote /\ faults' = faults
      /\ behind' = behind
  BY DEF FuseForm, Update
<1>2. NewId \in Nat /\ NewId' \in Nat /\ NewId <= NewId' /\ NewId < NewId'
  BY <1>1, NextId DEF Update
<1>3. /\ DOMAIN rows' = DOMAIN rows /\ rows'[p].id = NewId /\ rows'[p].located = FALSE
      /\ \A q \in DOMAIN rows : q # p => rows'[q] = rows[q]
  BY DEF Update
<1>4. IdsForm'
  <2>1. \A q \in DOMAIN rows' : (\E r \in DOMAIN rows : rows'[q].id = rows[r].id) \/ rows'[q].id = NewId
    BY <1>3
  <2> QED
    BY <1>1, <1>2, <2>1, IdsGrow
<1>5. ASSUME Clean' PROVE KeptInv'
  <2>1. KeptInv
    BY <1>1, <1>5, StillClean
  <2>2. RowsKept'
    BY <1>1, <1>3, <2>1 DEF KeptInv, RowsKept, AtBackend
  <2>3. UploadsKept'
    <3>1. ASSUME NEW u \in uploads, u.path \in DOMAIN rows, rows'[u.path].id = u.id
          PROVE  /\ u.path \in DOMAIN remote
                 /\ rows'[u.path].id \notin behind => remote[u.path] = rows'[u.path].version
      <4>1. u.path # p
        <5>1. PICK k \in Nat : k = u.id /\ k < NewId
          BY DEF IdsForm
        <5>2. k # NewId
          BY <1>2, <5>1
        <5> QED
          BY <1>3, <3>1, <5>1, <5>2
      <4>2. rows'[u.path] = rows[u.path]
        BY <1>3, <3>1, <4>1
      <4> QED
        BY <2>1, <3>1, <4>2 DEF KeptInv, UploadsKept, UploadKept, AtBackend
    <3> QED
      BY <1>1, <1>3, <3>1 DEF UploadsKept, UploadKept, AtBackend
  <2>4. CopyKept'
    <3>1. ASSUME call.pc = "move", e.from \in DOMAIN rows', entry_id(rows'[e.from].id) = e.node.ino
          PROVE  e.from \in DOMAIN rows /\ rows'[e.from] = rows[e.from]
      <4>1. entry_id(NewId) # e.node.ino
        BY <1>1, <1>5, <3>1, NodeOlder DEF Clean
      <4> QED
        BY <1>3, <3>1, <4>1
    <3> QED
      BY <1>1, <1>3, <2>1, <3>1, CopyStays DEF Update, KeptInv
  <2> QED
    BY <1>1, <1>3, <2>1, <2>2, <2>3, <2>4, CallStaysKept DEF Update
<1> QED
  BY <1>4, <1>5 DEF BackendInv

(* A change in place makes what is at the backend old, and says so.        *)
LEMMA InPlaceBackend ==
    ASSUME FuseForm, IdsForm, BackendInv, NEW p \in DOMAIN rows, UpdateInPlace(p)
    PROVE  IdsForm' /\ BackendInv'
<1>1. /\ RowsForm /\ uploads' = uploads /\ remote' = remote /\ faults' = faults
      /\ behind' = behind \cup {rows[p].id}
  BY DEF FuseForm, UpdateInPlace
<1>2. NewId \in Nat /\ NewId' \in Nat /\ NewId <= NewId'
  BY <1>1, NextId DEF UpdateInPlace
<1>3. /\ DOMAIN rows' = DOMAIN rows
      /\ \A q \in DOMAIN rows : rows'[q].id = rows[q].id /\ rows'[q].located = rows[q].located
      /\ \A q \in DOMAIN rows : q # p => rows'[q] = rows[q]
  BY InPlaceForm
<1>4. IdsForm'
  BY <1>1, <1>2, <1>3, IdsGrow
<1>5. ASSUME NEW q \in DOMAIN rows, AtBackend(q) PROVE AtBackend(q)'
  <2>1. CASE q = p
    BY <1>1, <1>3, <1>5, <2>1 DEF AtBackend
  <2>2. CASE q # p
    BY <1>1, <1>3, <1>5, <2>2 DEF AtBackend
  <2> QED
    BY <2>1, <2>2
<1>6. ASSUME Clean' PROVE KeptInv'
  <2>1. KeptInv
    BY <1>1, <1>6, StillClean
  <2>2. RowsKept'
    BY <1>3, <1>5, <2>1 DEF KeptInv, RowsKept
  <2>3. UploadsKept'
    BY <1>1, <1>3, <1>5, <2>1 DEF KeptInv, UploadsKept, UploadKept
  <2>4. CopyKept'
    BY <1>1, <1>3, <2>1, CopyStays DEF UpdateInPlace, KeptInv
  <2> QED
    BY <1>1, <1>3, <2>1, <2>2, <2>3, <2>4, CallStaysKept DEF UpdateInPlace
<1> QED
  BY <1>4, <1>6 DEF BackendInv

LEMMA ArriveBackend ==
    ASSUME FuseForm, IdsForm, UniqueIds, LeftInv, BackendInv, NEW p, Arrive(p)
    PROVE  IdsForm' /\ BackendInv'
<1>1. /\ RowsForm /\ uploads' = uploads /\ remote' = remote /\ faults \subseteq faults'
      /\ behind' = behind
  BY DEF FuseForm, Arrive, Blame
<1>2. NewId \in Nat /\ NewId' \in Nat /\ NewId <= NewId' /\ NewId < NewId'
  BY <1>1, NextId DEF Arrive
<1>3. /\ DOMAIN rows' = DOMAIN rows \cup {p} /\ rows'[p].id = NewId /\ rows'[p].located = FALSE
      /\ p \notin DOMAIN rows /\ \A q \in DOMAIN rows : rows'[q] = rows[q]
  <2>1. PICK row : row = [id |-> NewId, version |-> 1, located |-> FALSE, dir |-> FALSE]
    OBVIOUS
  <2>2. rows' = With(rows, p, row) /\ p \notin DOMAIN rows
    BY <2>1 DEF Arrive
  <2>3. /\ DOMAIN rows' = DOMAIN rows \cup {p} /\ rows'[p] = row
        /\ \A q \in DOMAIN rows : rows'[q] = rows[q]
    BY <2>2 DEF With
  <2>4. row.id = NewId /\ row.located = FALSE
    BY <2>1
  <2> QED
    BY <2>2, <2>3, <2>4
<1>4. IdsForm'
  <2>1. \A q \in DOMAIN rows' : (\E r \in DOMAIN rows : rows'[q].id = rows[r].id) \/ rows'[q].id = NewId
    BY <1>3
  <2> QED
    BY <1>1, <1>2, <2>1, IdsGrow
<1>5. ASSUME Clean' PROVE KeptInv'
  <2>1. KeptInv
    BY <1>1, <1>5, StillClean
  <2>2. RowsKept'
    BY <1>1, <1>3, <2>1 DEF KeptInv, RowsKept, AtBackend
  <2>3. UploadsKept'
    <3>1. ASSUME NEW u \in uploads, u.path \in DOMAIN rows', rows'[u.path].id = u.id
          PROVE  /\ u.path \in DOMAIN remote
                 /\ rows'[u.path].id \notin behind => remote[u.path] = rows'[u.path].version
      <4>1. u.path # p
        <5>1. PICK k \in Nat : k = u.id /\ k < NewId
          BY DEF IdsForm
        <5>2. k # NewId
          BY <1>2, <5>1
        <5> QED
          BY <1>3, <3>1, <5>1, <5>2
      <4>2. u.path \in DOMAIN rows /\ rows'[u.path] = rows[u.path]
        BY <1>3, <3>1, <4>1
      <4> QED
        BY <2>1, <3>1, <4>2 DEF KeptInv, UploadsKept, UploadKept, AtBackend
    <3> QED
      BY <1>1, <3>1 DEF UploadsKept, UploadKept, AtBackend
  <2>4. call.pc # "remove"
    BY DEF Arrive, Unlocked
  <2>5. CopyKept'
    <3>1. ASSUME call.pc = "move", e.from \in DOMAIN rows', entry_id(rows'[e.from].id) = e.node.ino
          PROVE  e.from \in DOMAIN rows /\ rows'[e.from] = rows[e.from]
      <4>1. entry_id(NewId) # e.node.ino
        BY <1>1, <1>5, <3>1, NodeOlder DEF Clean
      <4> QED
        BY <1>3, <3>1, <4>1
    <3> QED
      BY <1>1, <1>3, <2>1, <3>1, CopyStays DEF Arrive, KeptInv
  <2> QED
    BY <1>1, <1>3, <2>1, <2>2, <2>3, <2>4, <2>5, CallStaysKept DEF Arrive
<1> QED
  BY <1>4, <1>5 DEF BackendInv

(* An upload brings the row's version, unless it fails; and it is not of   *)
(* the file that a rename has copied and not moved yet.                    *)
LEMMA StartUploadBackend ==
    ASSUME FuseForm, IdsForm, UniqueIds, BackendInv, NEW p \in DOMAIN rows, StartUpload(p)
    PROVE  IdsForm' /\ BackendInv'
<1>1. /\ RowsForm /\ rows' = rows /\ call' = call /\ todo' = todo /\ faults \subseteq faults'
      /\ uploads' = uploads \cup {[path |-> p, id |-> rows[p].id]}
  BY UploadIs DEF StartUpload, FuseForm
<1>2. \A q \in DOMAIN rows : q # p => rows[q].id # rows[p].id
  BY DEF UniqueIds, RowIdsApart
<1>3. IdsForm'
  <2>1. NewId \in Nat /\ NewId' \in Nat /\ NewId <= NewId'
    <3>1. CASE used' = used
      <4>1. NewId' = NewId /\ NewId \in Nat
        BY <1>1, <3>1, NewIdType DEF NewId
      <4> QED
        BY <4>1
    <3>2. CASE Happens("failure")
      BY <1>1, <3>2, NextId
    <3> QED
      BY <3>1, <3>2, UploadIs
  <2>2. PICK a \in Nat : a = NewId
    BY <2>1
  <2>3. PICK b \in Nat : b = NewId' /\ a <= b
    BY <2>1, <2>2
  <2>4. \A k \in Nat : k < a => k < b
    BY <2>2, <2>3
  <2>5. \A q \in DOMAIN rows : rows[q].id \in Nat /\ rows[q].id < a
    BY <2>2 DEF IdsForm, FuseForm, RowsForm, Row
  <2>6. \A u \in uploads' : u.id \in Nat /\ u.id < a
    BY <1>1, <2>2, <2>5 DEF IdsForm
  <2> QED
    BY <1>1, <2>3, <2>4, <2>5, <2>6 DEF IdsForm
<1>4. ASSUME Clean' PROVE KeptInv'
  <2>1. KeptInv
    BY <1>1, <1>4, StillClean
  <2>2. /\ remote' = With(remote, p, rows[p].version) /\ behind' = behind \ {rows[p].id}
        /\ ~Copied(p)
    BY <1>4 DEF StartUpload, Blame, If, Clean
  <2>3. /\ DOMAIN remote' = DOMAIN remote \cup {p} /\ remote'[p] = rows[p].version
        /\ \A q \in DOMAIN remote : q # p => remote'[q] = remote[q]
    BY <2>2 DEF With
  <2>4. AtBackend(p)'
    BY <1>1, <2>3 DEF AtBackend
  <2>5. ASSUME NEW q \in DOMAIN rows, q # p, AtBackend(q) PROVE AtBackend(q)'
    BY <1>1, <1>2, <2>2, <2>3, <2>5 DEF AtBackend
  <2>6. RowsKept'
    BY <1>1, <2>1, <2>4, <2>5 DEF KeptInv, RowsKept
  <2>7. UploadsKept'
    <3>1. ASSUME NEW u \in uploads', u.path \in DOMAIN rows, rows[u.path].id = u.id
          PROVE  AtBackend(u.path)'
      <4>1. CASE u.path = p
        BY <2>4, <4>1
      <4>2. CASE u.path # p
        <5>1. u \in uploads
          BY <1>1, <4>2
        <5>2. AtBackend(u.path)
          BY <2>1, <3>1, <5>1 DEF KeptInv, UploadsKept, UploadKept
        <5>3. PICK q \in DOMAIN rows : q = u.path
          BY <3>1
        <5> QED
          BY <2>5, <4>2, <5>2, <5>3
      <4> QED
        BY <4>1, <4>2
    <3> QED
      BY <1>1, <3>1 DEF UploadsKept, UploadKept
  <2>8. CopyKept'
    <3>1. ASSUME call.pc = "move", e.from \in DOMAIN rows, rows[e.from].located, rows[e.from].id \in behind
          PROVE  rows[e.from].id \in behind'
      <4>1. e.from # p
        BY <2>2, <3>1 DEF Copied, e
      <4> QED
        BY <1>2, <2>2, <3>1, <4>1
    <3>2. ASSUME e.to \notin DOMAIN rows, e.to \in DOMAIN remote
          PROVE  e.to \in DOMAIN remote' /\ remote'[e.to] = remote[e.to]
      BY <2>3, <3>2
    <3> QED
      BY <1>1, <2>1, <3>1, <3>2, CopyStays DEF KeptInv
  <2> QED
    BY <1>1, <2>1, <2>6, <2>7, <2>8, CallStaysKept
<1> QED
  BY <1>3, <1>4 DEF BackendInv

LEMMA EndUploadBackend ==
    ASSUME FuseForm, IdsForm, BackendInv, NEW u \in uploads, EndUpload(u)
    PROVE  IdsForm' /\ BackendInv'
<1>1. /\ DOMAIN rows' = DOMAIN rows
      /\ \A q \in DOMAIN rows : rows'[q].id = rows[q].id /\ rows'[q].version = rows[q].version
  BY EndUploadForm
<1>2. /\ remote' = remote /\ used' = used /\ uploads' = uploads \ {u} /\ faults \subseteq faults'
      /\ behind' = behind
  BY DEF EndUpload, Blame
<1>3. IdsForm'
  BY <1>1, <1>2, IdsSame
<1>4. ASSUME Clean' PROVE KeptInv'
  <2>1. KeptInv
    BY <1>2, <1>4, StillClean
  <2>2. ASSUME u.path \in DOMAIN rows PROVE rows[u.path].id = u.id
    BY <1>4, <2>2 DEF EndUpload, Blame, If, Clean
  <2>3. \A q \in DOMAIN rows : rows'[q].located => rows[q].located \/ q = u.path
    BY DEF EndUpload
  <2>4. RowsKept'
    BY <1>1, <1>2, <2>1, <2>2, <2>3 DEF KeptInv, RowsKept, UploadsKept, UploadKept, AtBackend
  <2>5. UploadsKept'
    BY <1>1, <1>2, <2>1 DEF KeptInv, UploadsKept, UploadKept, AtBackend
  <2>6. ASSUME NEW q \in DOMAIN rows, rows[q].located PROVE rows'[q].located
    <3>1. rows[q] \in Row
      BY DEF FuseForm, RowsForm
    <3> QED
      BY <2>6, <3>1 DEF EndUpload, Row
  <2>7. CopyKept'
    BY <1>1, <1>2, <2>1, <2>6, CopyStays DEF EndUpload, KeptInv
  <2> QED
    BY <1>1, <1>2, <2>1, <2>4, <2>5, <2>7, CallStaysKept DEF EndUpload
<1> QED
  BY <1>3, <1>4 DEF BackendInv

(* The steps that leave database and entries alone.                        *)
LEMMA CallEndsKept ==
    ASSUME IdsForm, BackendInv, UNCHANGED <<database, faults, todo>>, NewId' = NewId,
           call'.pc \in {"idle", "refresh", "panicked"}
    PROVE  IdsForm' /\ BackendInv'
<1>1. IdsForm'
  BY DEF IdsForm, database
<1>2. ASSUME Clean' PROVE KeptInv'
  <2>1. KeptInv
    BY <1>2, StillClean
  <2>2. CopyKept' /\ NothingBelow'
    BY DEF CopyKept, NothingBelow
  <2>3. RowsKept' /\ UploadsKept' /\ NamesApart'
    BY <2>1 DEF KeptInv, RowsKept, UploadsKept, UploadKept, AtBackend, NamesApart, database
  <2> QED
    BY <2>2, <2>3 DEF KeptInv
<1> QED
  BY <1>1, <1>2 DEF BackendInv

LEMMA SameKept ==
    ASSUME IdsForm, BackendInv, UNCHANGED <<database, faults, todo, call, used>>
    PROVE  IdsForm' /\ BackendInv'
<1>1. NewId' = NewId /\ e' = e
  BY DEF NewId, e
<1>2. IdsForm'
  BY <1>1 DEF IdsForm, database
<1>3. BackendInv'
  BY <1>1 DEF BackendInv, Clean, KeptInv, RowsKept, UploadsKept, UploadKept, AtBackend, CopyKept,
              NothingBelow, NamesApart, database
<1> QED
  BY <1>2, <1>3

LEMMA FrontIs ==
    ASSUME NEW S, NEW s \in Seq(S), Len(s) > 0
    PROVE  /\ Front(s) \in Seq(S) /\ Len(Front(s)) = Len(s) - 1
           /\ \A i \in 1 .. Len(s) - 1 : Front(s)[i] = s[i]
<1>1. PICK a \in Int : a = 1
  OBVIOUS
<1>2. PICK n \in Nat : n = Len(s)
  BY LenProperties
<1>3. PICK b \in Int : b = n - 1
  BY <1>2
<1>4. \A i \in 1 .. n : s[i] \in S
  BY <1>2, ElementOfSeq
<1>5. \A i \in a .. b : s[i] \in S
  BY <1>1, <1>2, <1>3, <1>4
<1>6. PICK u : u = SubSeq(s, a, b)
  OBVIOUS
<1>7. /\ u \in Seq(S) /\ Len(u) = IF a <= b THEN b - a + 1 ELSE 0
      /\ \A i \in 1 .. b - a + 1 : u[i] = s[a + i - 1]
  BY <1>5, <1>6, SubSeqProperties
<1>8. Len(u) = n - 1
  BY <1>1, <1>2, <1>3, <1>7
<1>9. ASSUME NEW i \in 1 .. n - 1 PROVE u[i] = s[i]
  <2>1. i \in 1 .. b - a + 1 /\ a + i - 1 = i
    BY <1>1, <1>3
  <2> QED
    BY <1>7, <2>1
<1>10. Front(s) = u
  BY <1>1, <1>2, <1>3, <1>6 DEF Front
<1> QED
  BY <1>2, <1>7, <1>8, <1>9, <1>10

(* A rename within a folder, not into the renamed directory, gives names   *)
(* that are not below the old ones.                                        *)
LEMMA RenamedApart ==
    ASSUME NEW p \in Path, NEW orig \in Path, NEW dest \in Path, NEW d,
           IsPrefix(orig, p), ~IsPrefix(orig, Front(dest)),
           Len(dest) = 2 \/ Head(dest) = Head(orig),
           NewPath(p, orig, dest, d), IsPrefix(p, d)
    PROVE  d = p
<1>0. p \in Seq(Name) /\ orig \in Seq(Name) /\ dest \in Seq(Name) /\ d \in Seq(Name)
  BY DEF Path, NewPath
<1>1. PICK lp \in Nat : lp = Len(p)
  BY <1>0, LenProperties
<1>2. PICK lo \in Nat : lo = Len(orig) /\ lo > 1
  BY <1>0, LenProperties DEF Path
<1>3. PICK ld \in Nat : ld = Len(dest) /\ ld > 1
  BY <1>0, LenProperties DEF Path
<1>4. lo <= lp /\ \A i \in 1 .. lo : orig[i] = p[i]
  BY <1>0, <1>1, <1>2, PrefixIs
<1>5. Len(d) = ld + (lp - lo)
  BY <1>1, <1>2, <1>3 DEF NewPath
<1>6. d[1] = p[1] /\ \A i \in 2 .. ld : d[i] = dest[i]
  BY <1>3 DEF NewPath
<1>7. \A i \in 1 .. lp - lo : d[ld + i] = p[lo + i]
  BY <1>1, <1>2, <1>3 DEF NewPath
<1>8. Len(p) <= Len(d) /\ \A i \in 1 .. Len(p) : p[i] = d[i]
  BY <1>0, PrefixIs
<1>9. lp <= ld + (lp - lo) /\ \A i \in 1 .. lp : p[i] = d[i]
  BY <1>1, <1>5, <1>8
<1>10. lo <= ld
  BY <1>1, <1>2, <1>3, <1>4, <1>9
<1>11. ASSUME NEW i \in 2 .. lo PROVE orig[i] = dest[i]
  <2>1. i \in 1 .. lo /\ i \in 1 .. lp /\ i \in 2 .. ld
    BY <1>4, <1>10
  <2> QED
    BY <1>4, <1>6, <1>9, <2>1
<1>12. lo = ld
  <2>1. CASE ld = 2
    BY <1>2, <1>10, <2>1
  <2>2. CASE ld # 2 /\ lo < ld
    <3>1. Head(dest) = dest[1] /\ Head(orig) = orig[1]
      BY <1>0
    <3>2. dest[1] = orig[1]
      BY <1>3, <2>2, <3>1
    <3>3. PICK f : f = Front(dest)
      OBVIOUS
    <3>4. Len(dest) > 0
      BY <1>3
    <3>5. f \in Seq(Name) /\ Len(f) = ld - 1 /\ \A i \in 1 .. ld - 1 : f[i] = dest[i]
      BY <1>0, <1>3, <3>3, <3>4, FrontIs
    <3>6. lo <= ld - 1
      BY <2>2
    <3>7. ASSUME NEW i \in 1 .. lo PROVE orig[i] = f[i]
      <4>1. i \in 1 .. ld - 1 /\ (i = 1 \/ i \in 2 .. lo)
        BY <3>6
      <4>2. orig[i] = dest[i]
        BY <1>11, <3>2, <4>1
      <4> QED
        BY <3>5, <4>1, <4>2
    <3>8. IsPrefix(orig, f)
      BY <1>0, <1>2, <3>5, <3>6, <3>7, PrefixIs
    <3> QED
      BY <3>3, <3>8
  <2> QED
    BY <1>10, <2>1, <2>2
<1>13. Len(d) = lp
  BY <1>5, <1>12
<1> QED
  BY <1>0, <1>1, <1>9, <1>13, SeqEqual

LEMMA RenameBackend ==
    ASSUME FuseForm, IdsForm, BackendInv, NEW orig, NEW dest, NEW s, Renames(orig, dest, s),
           UNCHANGED database, NewId' = NewId, call'.pc = "copy"
    PROVE  IdsForm' /\ BackendInv'
<1>1. IdsForm'
  BY DEF IdsForm, database
<1>2. ASSUME Clean' PROVE KeptInv'
  <2>1. KeptInv
    BY <1>2, StillClean DEF Renames
  <2>2. CopyKept' /\ NothingBelow'
    BY DEF CopyKept, NothingBelow
  <2>3. RowsKept' /\ UploadsKept'
    BY <2>1 DEF KeptInv, RowsKept, UploadsKept, UploadKept, AtBackend, database
  <2>4. /\ todo' \in Seq(Entry) /\ Len(todo') = Len(s)
        /\ \A i \in 1 .. Len(s) :
                /\ s[i] \in Subtree(orig) /\ todo'[i].from = s[i]
                /\ todo'[i].to = dest_file_name(s[i], orig, dest)
    BY CollectedIs
  <2>5. /\ orig \in Path /\ dest \in Path /\ ~IsPrefix(orig, Front(dest))
        /\ Len(dest) = 2 \/ Head(dest) = Head(orig)
    BY <1>2 DEF Renames, Clean
  <2>6. ASSUME NEW x \in ToSet(todo') PROVE Apart(x)
    <3>1. PICK t : t = todo'
      OBVIOUS
    <3>2. PICK i \in 1 .. Len(t) : t[i] = x
      BY <2>4, <3>1, InSeqSet
    <3>3. PICK p : p = s[i]
      OBVIOUS
    <3>4. p \in Subtree(orig) /\ x.from = p /\ x.to = dest_file_name(p, orig, dest)
      BY <2>4, <3>1, <3>2, <3>3
    <3>5. x \in Entry
      BY <2>4, <3>1, InSeqSet
    <3>6. p \in Path /\ IsPrefix(orig, p)
      BY <3>4, <3>5 DEF Entry, Subtree
    <3>7. Len(orig) <= Len(p)
      BY <3>6 DEF IsPrefix
    <3>8. NewPath(p, orig, dest, x.to)
      BY <2>5, <3>4, <3>6, <3>7, NewPathIs
    <3>9. PICK d : d = x.to
      OBVIOUS
    <3>10. IsPrefix(p, d) => d = p
      BY <2>5, <3>6, <3>8, <3>9, RenamedApart
    <3> QED
      BY <3>4, <3>9, <3>10 DEF Apart
  <2>7. NamesApart'
    BY <2>6 DEF NamesApart, Apart
  <2> QED
    BY <2>2, <2>3, <2>7 DEF KeptInv
<1> QED
  BY <1>1, <1>2 DEF BackendInv

LEMMA NextEntryKept ==
    ASSUME CallForm, call.pc \in Renaming, NextEntry
    PROVE  call'.pc \in {"idle", "copy"} /\ (NamesApart => NamesApart')
<1>1. todo # <<>> /\ todo \in Seq(Entry)
  BY DEF CallForm
<1>2. ToSet(todo) = {Head(todo)} \cup ToSet(Tail(todo))
  BY <1>1, HeadAndTail
<1>3. call'.pc \in {"idle", "copy"}
  BY DEF NextEntry, CallForm, NoCall
<1> QED
  BY <1>2, <1>3 DEF NamesApart, NextEntry

LEMMA SelfPrefix ==
    ASSUME NEW p \in Path
    PROVE  IsPrefix(p, p)
<1>1. PICK n \in Nat : n = Len(p)
  BY LenProperties DEF Path
<1> QED
  BY <1>1 DEF IsPrefix

LEMMA CopyBackend ==
    ASSUME FuseForm, IdsForm, BackendInv, cp_remote_to_remote
    PROVE  IdsForm' /\ BackendInv'
<1>1. /\ RowsForm /\ CallForm /\ call.pc = "copy" /\ rows' = rows /\ uploads' = uploads
      /\ faults \subseteq faults' /\ behind' = behind
  BY DEF FuseForm, cp_remote_to_remote, Blame
<1>2. IdsForm'
  <2>1. CASE used' = used
    BY <1>1, <2>1, IdsSame
  <2>2. CASE Happens("failure")
    <3>1. NewId \in Nat /\ NewId' \in Nat /\ NewId <= NewId'
      BY <1>1, <2>2, NextId
    <3> QED
      BY <1>1, <3>1, IdsGrow
  <2> QED
    BY <2>1, <2>2 DEF cp_remote_to_remote
<1>3. ASSUME Clean' PROVE KeptInv'
  <2>1. KeptInv
    BY <1>1, <1>3, StillClean
  <2>2. /\ remote' = CopiedObject /\ call' = [call EXCEPT !.pc = "move"] /\ todo' = todo
        /\ ~Stale /\ e.to \notin DOMAIN rows
    BY <1>3 DEF cp_remote_to_remote, Blame, If, Clean
  <2>3. e' = e /\ call'.pc = "move"
    BY <1>1, <2>2 DEF e, CallForm
  <2>4. /\ e.from \in DOMAIN rows /\ rows[e.from].version = e.node.version
        /\ rows[e.from].located = e.node.located
    BY <2>2 DEF Stale, FileNode
  <2>5. PICK from, to : from = e.from /\ to = e.to
    OBVIOUS
  <2>6. PICK v : v = remote[from]
    OBVIOUS
  <2>7. CASE e.node.located
    <3>1. from \in DOMAIN remote /\ (rows[from].id \notin behind => v = e.node.version)
      BY <2>1, <2>4, <2>5, <2>6, <2>7 DEF KeptInv, RowsKept, AtBackend
    <3>2. remote' = With(remote, to, v)
      BY <2>2, <2>5, <2>6, <2>7, <3>1 DEF CopiedObject
    <3>3. /\ DOMAIN remote' = DOMAIN remote \cup {to} /\ remote'[to] = v
          /\ \A q \in DOMAIN remote : q # to => remote'[q] = remote[q]
      BY <3>2 DEF With
    <3>4. RowsKept' /\ UploadsKept'
      BY <1>1, <2>1, <2>2, <2>5, <3>3 DEF KeptInv, RowsKept, UploadsKept, UploadKept, AtBackend
    <3>5. CopyKept'
      BY <1>1, <2>3, <2>4, <2>5, <2>7, <3>1, <3>3 DEF CopyKept
    <3> QED
      BY <2>1, <2>2, <2>3, <3>4, <3>5 DEF KeptInv, NothingBelow, NamesApart
  <2>8. CASE ~e.node.located
    <3>1. remote' = remote
      BY <2>2, <2>8 DEF CopiedObject
    <3>2. RowsKept' /\ UploadsKept'
      BY <1>1, <2>1, <3>1 DEF KeptInv, RowsKept, UploadsKept, UploadKept, AtBackend
    <3> QED
      BY <2>1, <2>2, <2>3, <2>8, <3>2 DEF KeptInv, CopyKept, NothingBelow, NamesApart
  <2> QED
    BY <2>7, <2>8
<1> QED
  BY <1>2, <1>3 DEF BackendInv

LEMMA MoveBackend ==
    ASSUME FuseForm, IdsForm, LeftInv, BackendInv, mv_file_info
    PROVE  IdsForm' /\ BackendInv'
<1>1. /\ RowsForm /\ CallForm /\ call.pc = "move" /\ remote' = remote /\ uploads' = uploads
      /\ faults \subseteq faults' /\ used' = used /\ todo' = todo /\ behind' = behind
  BY DEF FuseForm, mv_file_info, Blame
<1>2. todo # <<>>
  BY <1>1 DEF CallForm, Renaming
<1>3. e.from \in Path /\ e.to \in Path /\ e.node \in Node /\ e' = e
  BY <1>1, <1>2, EntryIs DEF e
<1>4. IdsForm'
  <2>1. CASE e.from \in DOMAIN rows /\ rows' = MovedRow
    <3>1. \A p \in DOMAIN rows' : \E q \in DOMAIN rows : rows'[p].id = rows[q].id
      BY <1>1, <1>3, <2>1, MovedRowIs
    <3> QED
      BY <1>1, <3>1, IdsSame
  <2>2. CASE RowsSecond
    BY <1>1, <1>3, <2>2, RowsSecondIs, IdsSame
  <2>3. CASE rows' = rows
    BY <1>1, <2>3, IdsSame
  <2> QED
    BY <2>1, <2>2, <2>3, MoveCases
<1>5. ASSUME Clean' PROVE KeptInv'
  <2>1. KeptInv
    BY <1>1, <1>5, StillClean
  <2>2. /\ ~Stale /\ Below(e.from) = {} /\ e.to \notin DOMAIN rows
        /\ \A u \in uploads : ~IsPrefix(e.from, u.path) /\ u.path # e.to
    <3>1. /\ ~Stale /\ e.to \notin DOMAIN rows
          /\ \A u \in uploads : ~IsPrefix(e.from, u.path) /\ u.path # e.to
          /\ \A p \in Below(e.from) : ~Unseen(p)
      BY <1>5 DEF mv_file_info, Blame, If, Clean
    <3>2. Followed /\ e.to # e.from
      BY <1>1, <1>5, <3>1 DEF Followed, Clean, Stale
    <3> QED
      BY <1>1, <3>1, <3>2, NothingLeft
  <2>3. /\ e.from \in DOMAIN rows /\ rows[e.from].version = e.node.version
        /\ entry_id(rows[e.from].id) = e.node.ino
    BY <2>2 DEF Stale, FileNode
  <2>4. rows' = MovedRow /\ call' = [call EXCEPT !.pc = "remove"]
    BY <2>2, <2>3, MoveCases
  <2>5. PICK from, to : from = e.from /\ to = e.to
    OBVIOUS
  <2>6. /\ DOMAIN rows' = (DOMAIN rows \ {from}) \cup {to}
        /\ rows'[to].version = e.node.version /\ rows'[to].located = e.node.located
        /\ rows'[to].id = rows[from].id
        /\ \A q \in DOMAIN rows \ {from} : q # to => rows'[q] = rows[q]
    BY <1>1, <1>3, <2>3, <2>4, <2>5, MovedRowIs
  <2>7. call'.pc = "remove"
    BY <1>1, <2>4 DEF CallForm
  <2>8. e.node.located => to \in DOMAIN remote
                         /\ (rows[from].id \notin behind => remote[to] = e.node.version)
    BY <1>1, <2>1, <2>2, <2>3, <2>5 DEF KeptInv, CopyKept
  <2>9. RowsKept'
    <3>1. ASSUME NEW q \in DOMAIN rows', rows'[q].located
          PROVE  q \in DOMAIN remote /\ (rows'[q].id \notin behind => remote[q] = rows'[q].version)
      <4>1. CASE q = to
        BY <2>6, <2>8, <3>1, <4>1
      <4>2. CASE q # to
        BY <2>1, <2>6, <3>1, <4>2 DEF KeptInv, RowsKept, AtBackend
      <4> QED
        BY <4>1, <4>2
    <3> QED
      BY <1>1, <3>1 DEF RowsKept, AtBackend
  <2>10. UploadsKept'
    <3>1. ASSUME NEW u \in uploads, u.path \in DOMAIN rows', rows'[u.path].id = u.id
          PROVE  /\ u.path \in DOMAIN remote
                 /\ rows'[u.path].id \notin behind => remote[u.path] = rows'[u.path].version
      <4>1. u.path # to /\ u.path # from
        BY <1>3, <2>2, <2>5, SelfPrefix
      <4>2. u.path \in DOMAIN rows /\ rows'[u.path] = rows[u.path]
        BY <2>6, <3>1, <4>1
      <4> QED
        BY <2>1, <3>1, <4>2 DEF KeptInv, UploadsKept, UploadKept, AtBackend
    <3> QED
      BY <1>1, <3>1 DEF UploadsKept, UploadKept, AtBackend
  <2>11. ASSUME NEW q \in DOMAIN rows' PROVE ~IsPrefix(from, q)
    <3>1. CASE q = to
      <4>1. e \in ToSet(todo)
        BY <1>1, <1>2, HeadAndTail DEF e, CallForm
      <4>2. Apart(e)
        BY <2>1, <4>1 DEF KeptInv, NamesApart
      <4> QED
        BY <2>2, <2>3, <2>5, <3>1, <4>2 DEF Apart
    <3>2. CASE q # to
      <4>1. q \in DOMAIN rows /\ q # from
        BY <2>6, <3>2
      <4> QED
        BY <2>2, <2>5, <4>1 DEF Below, IsStrictPrefix
    <3> QED
      BY <3>1, <3>2
  <2>12. NothingBelow'
    BY <1>3, <2>5, <2>11 DEF NothingBelow
  <2>13. CopyKept' /\ NamesApart'
    BY <1>1, <2>1, <2>7 DEF KeptInv, CopyKept, NamesApart
  <2> QED
    BY <2>9, <2>10, <2>12, <2>13 DEF KeptInv
<1> QED
  BY <1>4, <1>5 DEF BackendInv

LEMMA RemoveBackend ==
    ASSUME FuseForm, IdsForm, BackendInv, rm_remote
    PROVE  IdsForm' /\ BackendInv'
<1>1. /\ RowsForm /\ CallForm /\ call.pc = "remove" /\ rows' = rows /\ uploads' = uploads
      /\ behind' = behind /\ faults \subseteq faults'
  BY RemoveIs DEF FuseForm
<1>2. IdsForm'
  <2>1. CASE used' = used
    BY <1>1, <2>1, IdsSame
  <2>2. CASE Happens("failure")
    <3>1. NewId \in Nat /\ NewId' \in Nat /\ NewId <= NewId'
      BY <1>1, <2>2, NextId
    <3> QED
      BY <1>1, <3>1, IdsGrow
  <2> QED
    BY <2>1, <2>2, RemoveIs
<1>3. ASSUME Clean' PROVE KeptInv'
  <2>1. KeptInv
    BY <1>1, <1>3, StillClean
  <2>2. RemovesSome
    BY <1>3, RemoveIs, RemovePanicked DEF Clean
  <2>3. PICK gone \in SUBSET Gone : remote' = Without(remote, gone)
    BY <2>2 DEF RemovesSome
  <2>4. DOMAIN remote' = DOMAIN remote \ gone /\ \A q \in DOMAIN remote \ gone : remote'[q] = remote[q]
    BY <2>3 DEF Without, Restrict
  <2>5. \A q \in DOMAIN rows : q \notin gone
    BY <1>1, <2>1, <2>3 DEF KeptInv, NothingBelow, Gone
  <2>6. RowsKept' /\ UploadsKept'
    BY <1>1, <2>1, <2>4, <2>5 DEF KeptInv, RowsKept, UploadsKept, UploadKept, AtBackend
  <2>7. call'.pc \in {"idle", "copy"} /\ NamesApart'
    BY <1>1, <2>1, <2>2, NextEntryKept DEF RemovesSome, KeptInv, Renaming
  <2> QED
    BY <2>6, <2>7 DEF KeptInv, CopyKept, NothingBelow
<1> QED
  BY <1>2, <1>3 DEF BackendInv

LEMMA CrashBackend ==
    ASSUME FuseForm, IdsForm, BackendInv, Crash
    PROVE  IdsForm' /\ BackendInv'
<1>1. /\ RowsForm /\ rows' = rows /\ remote' = remote /\ uploads' = {} /\ faults \subseteq faults'
      /\ call'.pc = "idle" /\ behind' = behind
  BY DEF FuseForm, Crash, Blame, NoCall
<1>2. NewId \in Nat /\ NewId' \in Nat /\ NewId <= NewId'
  BY <1>1, NextId DEF Crash
<1>3. IdsForm'
  BY <1>1, <1>2, IdsGrow
<1>4. ToSet(todo') = {}
  BY NoPath DEF Crash
<1>5. ASSUME Clean' PROVE KeptInv'
  <2>1. KeptInv
    BY <1>1, <1>5, StillClean
  <2>2. RowsKept'
    BY <1>1, <2>1 DEF KeptInv, RowsKept, AtBackend
  <2> QED
    BY <1>1, <1>4, <2>2 DEF KeptInv, UploadsKept, CopyKept, NothingBelow, NamesApart
<1> QED
  BY <1>3, <1>5 DEF BackendInv

LEMMA BackendStep ==
    ASSUME FuseForm, IdsForm, UniqueIds, LeftInv, BackendInv, [Next]_vars
    PROVE  IdsForm' /\ BackendInv'
<1>0. CallForm
  BY DEF FuseForm
<1>1. ASSUME NEW p \in DOMAIN rows, Update(p) \/ UpdateInPlace(p) \/ StartUpload(p)
      PROVE  IdsForm' /\ BackendInv'
  BY <1>1, UpdateBackend, InPlaceBackend, StartUploadBackend
<1>2. ASSUME NEW p \in Arriving, Arrive(p) PROVE IdsForm' /\ BackendInv'
  BY <1>2, ArriveBackend
<1>3. ASSUME NEW u \in uploads, EndUpload(u) PROVE IdsForm' /\ BackendInv'
  BY <1>3, EndUploadBackend
<1>4. CASE StartCall
  <2>1. call'.pc = "refresh" /\ NewId' = NewId
    BY <1>0, <1>4 DEF StartCall, CallForm, NewId
  <2> QED
    BY <1>4, <2>1, CallEndsKept DEF StartCall
<1>5. CASE InsertFile
  BY <1>5, SameKept DEF InsertFile
<1>6. CASE Serve
  <2>1. ASSUME NEW ino, call' = NoCall \/ Panic("dead reference", ino)
        PROVE  call'.pc \in {"idle", "panicked"}
    <3>1. CASE call' = NoCall
      BY <3>1 DEF NoCall
    <3>2. CASE Panic("dead reference", ino)
      BY <3>2 DEF Panic
    <3> QED
      BY <2>1, <3>1, <3>2
  <2>2. ASSUME NEW h \in held, getattr_mem(h.ino) PROVE IdsForm' /\ BackendInv'
    <3>1. call'.pc \in {"idle", "panicked"} /\ NewId' = NewId
      BY <2>1, <2>2 DEF getattr_mem, NewId
    <3> QED
      BY <2>2, <3>1, CallEndsKept DEF getattr_mem
  <2>3. ASSUME NEW h \in held, NEW n \in NewName \union DOMAIN Folder, lookup_mem(h.ino, n)
        PROVE  IdsForm' /\ BackendInv'
    <3>1. call'.pc \in {"idle", "panicked"} /\ NewId' = NewId
      BY <2>1, <2>3 DEF lookup_mem, NewId
    <3> QED
      BY <2>3, <3>1, CallEndsKept DEF lookup_mem
  <2>4. ASSUME NEW h \in held, NEW g \in held, NEW n \in NewName, NEW as \in NewName,
               rename_mem(h.ino, n, g.ino, as)
        PROVE  IdsForm' /\ BackendInv'
    <3>1. call'.pc = "copy"
      BY <1>0, <2>4 DEF rename_mem, CallForm
    <3>2. used'["update"] = used["update"]
      BY <2>4 DEF rename_mem, FuseForm, RowsForm
    <3>3. NewId' = NewId
      BY <3>2 DEF NewId
    <3>4. PICK orig, dest, s : Renames(orig, dest, s)
      BY <2>4, RenameIs
    <3> QED
      BY <2>4, <3>1, <3>3, <3>4, RenameBackend DEF rename_mem
  <2> QED
    BY <1>6, <2>2, <2>3, <2>4 DEF Serve
<1>7. CASE cp_remote_to_remote
  BY <1>7, CopyBackend
<1>8. CASE mv_file_info
  BY <1>8, MoveBackend
<1>9. CASE rm_remote
  BY <1>9, RemoveBackend
<1>10. CASE Crash
  BY <1>10, CrashBackend
<1>11. CASE UNCHANGED vars
  BY <1>11, SameKept DEF vars
<1> QED
  BY <1>1, <1>2, <1>3, <1>4, <1>5, <1>6, <1>7, <1>8, <1>9, <1>10, <1>11 DEF Next, Thread

LEMMA PrefixTrans ==
    ASSUME NEW S, NEW a \in Seq(S), NEW b \in Seq(S), NEW c \in Seq(S),
           IsPrefix(a, b), IsPrefix(b, c)
    PROVE  IsPrefix(a, c)
<1>1. PICK la \in Nat : la = Len(a)
  BY LenProperties
<1>2. PICK lb \in Nat : lb = Len(b)
  BY LenProperties
<1>3. PICK lc \in Nat : lc = Len(c)
  BY LenProperties
<1>4. la <= lb /\ \A i \in 1 .. la : a[i] = b[i]
  BY <1>1, <1>2, PrefixIs
<1>5. lb <= lc /\ \A i \in 1 .. lb : b[i] = c[i]
  BY <1>2, <1>3, PrefixIs
<1>6. la <= lc /\ \A i \in 1 .. la : i \in 1 .. lb
  BY <1>4, <1>5
<1>7. \A i \in 1 .. la : a[i] = c[i]
  BY <1>4, <1>5, <1>6
<1> QED
  BY <1>1, <1>3, <1>6, <1>7, PrefixIs

(* What is below the entry that is renamed, and its new names.             *)
LEMMA SubtreePath ==
    ASSUME TreeForm, NEW orig \in Path, NEW dest \in Path, NEW p \in Subtree(orig)
    PROVE  /\ p \in Path /\ IsPrefix(orig, p) /\ p \in DOMAIN fs_mem.tree
           /\ NewPath(p, orig, dest, dest_file_name(p, orig, dest))
<1>1. p \in DOMAIN fs_mem.tree /\ IsPrefix(orig, p) /\ p \in Seq(Name)
  BY DEF Subtree, TreeForm
<1>2. PICK lo \in Nat : lo = Len(orig) /\ lo > 1
  BY LenProperties DEF Path
<1>3. PICK lp \in Nat : lp = Len(p)
  BY <1>1, LenProperties
<1>4. lo <= lp
  BY <1>1, <1>2, <1>3 DEF IsPrefix
<1>5. lp > 1
  BY <1>2, <1>4
<1>6. p \in Path
  BY <1>1, <1>3, <1>5 DEF Path
<1> QED
  BY <1>1, <1>2, <1>3, <1>4, <1>6, NewPathIs

(* If one entry keeps its name, all do.                                    *)
LEMMA NewPathSelf ==
    ASSUME NEW orig \in Path, NEW dest \in Path, NEW p \in Path, NEW q \in Path, NEW d,
           IsPrefix(orig, p), IsPrefix(orig, q), NewPath(p, orig, dest, p), NewPath(q, orig, dest, d)
    PROVE  d = q
<1>0. /\ p \in Seq(Name) /\ q \in Seq(Name) /\ orig \in Seq(Name) /\ dest \in Seq(Name)
      /\ d \in Seq(Name)
  BY DEF Path, NewPath
<1>1. PICK lp \in Nat : lp = Len(p)
  BY <1>0, LenProperties
<1>2. PICK lq \in Nat : lq = Len(q)
  BY <1>0, LenProperties
<1>3. PICK lo \in Nat : lo = Len(orig) /\ lo > 1
  BY <1>0, LenProperties DEF Path
<1>4. PICK ld \in Nat : ld = Len(dest)
  BY <1>0, LenProperties
<1>5. lo <= lp /\ lo <= lq /\ \A i \in 1 .. lo : orig[i] = p[i] /\ orig[i] = q[i]
  BY <1>0, <1>1, <1>2, <1>3, PrefixIs
<1>6. lp = ld + (lp - lo) /\ \A i \in 2 .. ld : p[i] = dest[i]
  BY <1>1, <1>3, <1>4 DEF NewPath
<1>7. ld = lo
  BY <1>6
<1>8. Len(d) = lq
  BY <1>2, <1>3, <1>4, <1>7 DEF NewPath
<1>9. d[1] = q[1] /\ \A i \in 2 .. lo : d[i] = dest[i]
  BY <1>4, <1>7 DEF NewPath
<1>10. \A i \in 1 .. lq - lo : d[lo + i] = q[lo + i]
  BY <1>2, <1>3, <1>4, <1>7 DEF NewPath
<1>11. ASSUME NEW i \in 1 .. lq PROVE d[i] = q[i]
  <2>1. CASE i = 1
    BY <1>9, <2>1
  <2>2. CASE i > 1 /\ i <= lo
    <3>1. i \in 2 .. lo /\ i \in 1 .. lo
      BY <2>2
    <3> QED
      BY <1>5, <1>6, <1>7, <1>9, <3>1
  <2>3. CASE i > lo
    <3>1. PICK k : k = i - lo
      OBVIOUS
    <3>2. k \in 1 .. lq - lo /\ lo + k = i
      BY <2>3, <3>1
    <3>3. d[lo + k] = q[lo + k]
      BY <1>10, <3>2
    <3> QED
      BY <3>2, <3>3
  <2> QED
    BY <2>1, <2>2, <2>3
<1> QED
  BY <1>0, <1>2, <1>8, <1>11, SeqEqual

(* The rowids stay unique.                                                 *)
LEMMA IdsAdvance ==
    ASSUME FuseForm, [Next]_vars
    PROVE  NewId \in Nat /\ NewId' \in Nat /\ NewId <= NewId'
<1>1. FuseForm' /\ RowsForm /\ RowsForm'
  BY FuseFormStep DEF FuseForm
<1>2. PICK n \in Nat : n = Cardinality(DOMAIN InitialRows)
  BY FuseAssumption, FS_CardinalityType
<1>3. PICK k \in Nat : k = used["update"]
  BY <1>1 DEF RowsForm
<1>4. PICK m \in Nat : m = used'["update"]
  BY <1>1 DEF RowsForm
<1>5. NewId = n + k + 1 /\ NewId' = n + m + 1
  BY <1>2, <1>3, <1>4 DEF NewId
<1>6. ASSUME NEW event, Happens(event) PROVE k <= m
  <2>1. used' = [used EXCEPT ![event] = used[event] + 1]
    BY <1>6 DEF Happens
  <2>2. m = k \/ m = k + 1
    BY <1>1, <1>3, <1>4, <2>1 DEF RowsForm
  <2> QED
    BY <2>2
<1>7. CASE used' = used
  BY <1>3, <1>4, <1>5, <1>7
<1>8. ASSUME NEW p \in DOMAIN rows, Update(p) \/ UpdateInPlace(p) \/ StartUpload(p) PROVE k <= m
  <2>1. Happens("update") \/ Happens("failure") \/ used' = used
    BY <1>8, UploadIs DEF Update, UpdateInPlace
  <2> QED
    BY <1>3, <1>4, <1>6, <2>1
<1>9. ASSUME NEW p \in Arriving, Arrive(p) PROVE k <= m
  BY <1>6, <1>9 DEF Arrive
<1>10. ASSUME NEW u \in uploads, EndUpload(u) PROVE used' = used
  BY <1>10 DEF EndUpload
<1>11. CASE StartCall \/ InsertFile \/ mv_file_info
  BY <1>7, <1>11 DEF StartCall, InsertFile, mv_file_info
<1>12. ASSUME NEW ino, getattr_mem(ino) PROVE used' = used
  BY <1>12 DEF getattr_mem
<1>13. ASSUME NEW ino, NEW name, lookup_mem(ino, name) PROVE used' = used
  BY <1>13 DEF lookup_mem
<1>14. ASSUME NEW h, NEW name, NEW g, NEW as, rename_mem(h, name, g, as) PROVE k <= m
  <2>1. used' = [used EXCEPT !["rename"] = used["rename"] + 1]
    BY <1>14 DEF rename_mem
  <2>2. m = k
    BY <1>1, <1>3, <1>4, <2>1 DEF RowsForm
  <2> QED
    BY <2>2
<1>15. CASE cp_remote_to_remote \/ rm_remote
  <2>1. Happens("failure") \/ used' = used
    BY <1>15, RemoveIs DEF cp_remote_to_remote
  <2>2. k <= m
    BY <1>3, <1>4, <1>6, <2>1
  <2> QED
    BY <1>5, <2>2
<1>16. CASE Crash
  <2>1. k <= m
    BY <1>6, <1>16 DEF Crash
  <2> QED
    BY <1>5, <2>1
<1>17. CASE k <= m
  BY <1>5, <1>17
<1>18. CASE Serve
  BY <1>7, <1>12, <1>13, <1>14, <1>17, <1>18 DEF Serve
<1>19. CASE UNCHANGED vars
  BY <1>7, <1>19 DEF vars
<1> QED
  BY <1>7, <1>8, <1>9, <1>10, <1>11, <1>15, <1>16, <1>17, <1>18, <1>19 DEF Next, Thread

LEMMA NewRowApart ==
    ASSUME FuseForm, IdsForm, RowIdsApart, NEW p, p \in DOMAIN rows', rows'[p].id = NewId,
           \A q \in DOMAIN rows' : q # p => q \in DOMAIN rows /\ rows'[q].id = rows[q].id
    PROVE  RowIdsApart'
<1>1. PICK n \in Nat : n = NewId
  BY NewIdType DEF FuseForm
<1>2. ASSUME NEW q \in DOMAIN rows', q # p PROVE rows'[q].id # n
  <2>1. PICK i \in Nat : i = rows[q].id
    BY <1>2 DEF FuseForm, RowsForm, Row
  <2>2. i < n
    BY <1>1, <1>2, <2>1 DEF IdsForm
  <2> QED
    BY <1>2, <2>1, <2>2
<1>3. ASSUME NEW a \in DOMAIN rows', NEW b \in DOMAIN rows', rows'[a].id = rows'[b].id PROVE a = b
  BY <1>1, <1>2, <1>3 DEF RowIdsApart
<1> QED
  BY <1>3 DEF RowIdsApart

LEMMA SameIdsApart ==
    ASSUME RowIdsApart, DOMAIN rows' = DOMAIN rows, \A q \in DOMAIN rows : rows'[q].id = rows[q].id
    PROVE  RowIdsApart'
BY DEF RowIdsApart

LEMMA MovedApart ==
    ASSUME FuseForm, RowIdsApart, mv_file_info
    PROVE  RowIdsApart'
<1>1. RowsForm /\ CallForm /\ todo # <<>>
  BY DEF FuseForm, mv_file_info, CallForm, Renaming
<1>2. e.node \in Node
  BY <1>1, EntryIs
<1>3. CASE e.from \in DOMAIN rows /\ (e.to = e.from \/ e.to \notin DOMAIN rows) /\ rows' = MovedRow
  <2>1. PICK from, to : from = e.from /\ to = e.to
    OBVIOUS
  <2>2. /\ DOMAIN rows' = (DOMAIN rows \ {from}) \cup {to} /\ rows'[to].id = rows[from].id
        /\ \A q \in DOMAIN rows \ {from} : q # to => rows'[q] = rows[q]
        /\ from \in DOMAIN rows
    BY <1>1, <1>2, <1>3, <2>1, MovedRowIs
  <2>3. ASSUME NEW a \in DOMAIN rows', NEW b \in DOMAIN rows', rows'[a].id = rows'[b].id PROVE a = b
    <3>1. \A q \in DOMAIN rows' : q # to => q \in DOMAIN rows /\ q # from /\ rows'[q].id = rows[q].id
      BY <2>2
    <3> QED
      BY <2>2, <2>3, <3>1 DEF RowIdsApart
  <2> QED
    BY <2>3 DEF RowIdsApart
<1>4. CASE RowsSecond
  BY <1>1, <1>2, <1>4, RowsSecondIs, SameIdsApart
<1>5. CASE rows' = rows
  BY <1>5, SameIdsApart
<1> QED
  BY <1>3, <1>4, <1>5, MoveCases

LEMMA RowIdsStep ==
    ASSUME FuseForm, IdsForm, RowIdsApart, [Next]_vars
    PROVE  RowIdsApart'
<1>1. ASSUME NEW p \in DOMAIN rows, Update(p) PROVE RowIdsApart'
  <2>1. DOMAIN rows' = DOMAIN rows
    BY <1>1, UpdateForm
  <2>2. rows'[p].id = NewId /\ \A q \in DOMAIN rows : q # p => rows'[q] = rows[q]
    BY <1>1 DEF Update
  <2> QED
    BY <2>1, <2>2, NewRowApart
<1>2. ASSUME NEW p \in Arriving, Arrive(p) PROVE RowIdsApart'
  <2>1. PICK row : row = [id |-> NewId, version |-> 1, located |-> FALSE, dir |-> FALSE]
    OBVIOUS
  <2>2. rows' = With(rows, p, row) /\ row.id = NewId
    BY <1>2, <2>1 DEF Arrive
  <2>3. /\ DOMAIN rows' = DOMAIN rows \cup {p} /\ rows'[p] = row
        /\ \A q \in DOMAIN rows : q # p => rows'[q] = rows[q]
    BY <2>2 DEF With
  <2> QED
    BY <2>2, <2>3, NewRowApart
<1>3. ASSUME NEW u \in uploads, EndUpload(u) PROVE RowIdsApart'
  BY <1>3, EndUploadForm, SameIdsApart
<1>4. CASE rows' = rows
  BY <1>4, SameIdsApart
<1>5. ASSUME NEW p \in DOMAIN rows, UpdateInPlace(p) \/ StartUpload(p) PROVE RowIdsApart'
  BY <1>5, InPlaceForm, UploadIs, SameIdsApart
<1>6. CASE StartCall \/ InsertFile \/ rm_remote \/ cp_remote_to_remote \/ Crash
  BY <1>4, <1>6 DEF StartCall, InsertFile, rm_remote, cp_remote_to_remote, Crash, database
<1>7. CASE Serve
  <2>1. ASSUME NEW ino, getattr_mem(ino) PROVE rows' = rows
    BY <2>1 DEF getattr_mem, database
  <2>2. ASSUME NEW ino, NEW n, lookup_mem(ino, n) PROVE rows' = rows
    BY <2>2 DEF lookup_mem, database
  <2>3. ASSUME NEW h, NEW n, NEW g, NEW as, rename_mem(h, n, g, as) PROVE rows' = rows
    BY <2>3 DEF rename_mem, database
  <2> QED
    BY <1>4, <1>7, <2>1, <2>2, <2>3 DEF Serve
<1>8. CASE mv_file_info
  BY <1>8, MovedApart
<1>9. CASE UNCHANGED vars
  BY <1>4, <1>9 DEF vars, database
<1> QED
  BY <1>1, <1>2, <1>3, <1>4, <1>5, <1>6, <1>7, <1>8, <1>9 DEF Next, Thread

LEMMA OlderThanNext ==
    ASSUME NEW f, \A p \in DOMAIN f : f[p].id \in Nat /\ f[p].id < NewId,
           NewId \in Nat, NewId' \in Nat, NewId <= NewId'
    PROVE  \A p \in DOMAIN f : f[p].id < NewId'
<1>1. PICK a \in Nat : a = NewId
  OBVIOUS
<1>2. PICK b \in Nat : b = NewId' /\ a <= b
  BY <1>1
<1>3. ASSUME NEW p \in DOMAIN f PROVE f[p].id < b
  <2>1. PICK i \in Nat : i = f[p].id /\ i < a
    BY <1>1
  <2>2. i < b
    BY <1>2, <2>1
  <2> QED
    BY <2>1, <2>2
<1> QED
  BY <1>2, <1>3

LEMMA UniqueStep ==
    ASSUME FuseForm, IdsForm, UniqueIds, [Next]_vars
    PROVE  UniqueIds'
<1>1. NewId \in Nat /\ NewId' \in Nat /\ NewId <= NewId' /\ RowIdsApart'
  BY IdsAdvance, RowIdsStep DEF UniqueIds
<1>2. CASE files' = files
  <2>1. \A p \in DOMAIN files : files[p].id \in Nat /\ files[p].id < NewId
    BY DEF FuseForm, FilesForm, Row, UniqueIds, FilesOlder
  <2>2. \A p \in DOMAIN files : files[p].id < NewId'
    BY <1>1, <2>1, OlderThanNext
  <2> QED
    BY <1>1, <1>2, <2>2 DEF UniqueIds, FileIdsApart, FilesOlder
<1>3. CASE files' = rows
  <2>1. \A p \in DOMAIN rows : rows[p].id \in Nat /\ rows[p].id < NewId
    BY DEF FuseForm, RowsForm, Row, IdsForm
  <2>2. \A p \in DOMAIN rows : rows[p].id < NewId'
    BY <1>1, <2>1, OlderThanNext
  <2> QED
    BY <1>1, <1>3, <2>2 DEF UniqueIds, RowIdsApart, FileIdsApart, FilesOlder
<1>4. CASE files' = <<>>
  <2>1. DOMAIN files' = {}
    BY <1>4, NoPath
  <2> QED
    BY <1>1, <2>1 DEF UniqueIds, FileIdsApart, FilesOlder
<1>5. CASE StartCall
  BY <1>2, <1>3, <1>5 DEF StartCall, refresh_expired_folders_files
<1>6. CASE Crash
  BY <1>4, <1>6 DEF Crash
<1>7. ASSUME NEW p, Update(p) \/ UpdateInPlace(p) \/ StartUpload(p) \/ Arrive(p) \/ EndUpload(p)
      PROVE  files' = files
  BY <1>7, UploadIs DEF Update, UpdateInPlace, Arrive, EndUpload, memory
<1>8. CASE InsertFile \/ cp_remote_to_remote \/ mv_file_info \/ rm_remote
  BY <1>2, <1>8 DEF InsertFile, cp_remote_to_remote, mv_file_info, rm_remote, memory
<1>9. CASE Serve
  <2>1. ASSUME NEW ino, getattr_mem(ino) PROVE files' = files
    BY <2>1 DEF getattr_mem, memory
  <2>2. ASSUME NEW ino, NEW n, lookup_mem(ino, n) PROVE files' = files
    BY <2>2 DEF lookup_mem
  <2>3. ASSUME NEW h, NEW n, NEW g, NEW as, rename_mem(h, n, g, as) PROVE files' = files
    BY <2>3 DEF rename_mem, memory
  <2> QED
    BY <1>2, <1>9, <2>1, <2>2, <2>3 DEF Serve
<1>10. CASE UNCHANGED vars
  BY <1>2, <1>10 DEF vars, memory
<1> QED
  BY <1>2, <1>5, <1>6, <1>7, <1>8, <1>9, <1>10 DEF Next, Thread

(* What a rename has still to move stays as described.                     *)
LEMMA LeftSame ==
    ASSUME LeftInv, faults \subseteq faults', fs_mem' = fs_mem, Remaining' = Remaining,
           call.pc \in Renaming <=> call'.pc \in Renaming,
           \A q \in DOMAIN rows' : ~Unseen(q)' => q \in DOMAIN rows /\ ~Unseen(q)
    PROVE  LeftInv'
<1>1. ASSUME Followed', call'.pc \in Renaming PROVE LeftForm(Remaining)'
  <2>1. PICK T : T = Remaining
    OBVIOUS
  <2>2. LeftForm(T)
    BY <1>1, <2>1 DEF Followed, LeftInv
  <2>3. LeftForm(T)'
    BY <2>2 DEF LeftForm, Ordered, NodesSeen, KeepsNames, ChangesNames, LeftSeen
  <2> QED
    BY <2>1, <2>3
<1> QED
  BY <1>1 DEF LeftInv

LEMMA LeftRename ==
    ASSUME FuseForm, NEW orig, NEW dest, NEW s, Renames(orig, dest, s), fs_mem' = fs_mem,
           rows' = rows, call'.pc = "copy"
    PROVE  LeftInv'
<1>1. orig \in Path /\ dest \in Path /\ TreeForm
  BY DEF Renames, FuseForm
<1>2. PICK T : T = todo'
  OBVIOUS
<1>3. PICK n \in Nat : n = Len(s)
  BY CollectedIs
<1>4. /\ Len(T) = n /\ DOMAIN s = 1 .. n /\ ToSet(s) = Subtree(orig) /\ s \in Seq(Subtree(orig))
      /\ \A i \in 1 .. n : /\ s[i] \in Subtree(orig) /\ T[i].from = s[i]
                           /\ T[i].node = fs_mem.tree[s[i]]
                           /\ T[i].to = dest_file_name(s[i], orig, dest)
  BY <1>2, <1>3, CollectedIs
<1>5. \A i \in 1 .. n : /\ s[i] \in Path /\ IsPrefix(orig, s[i]) /\ s[i] \in DOMAIN fs_mem.tree
                        /\ NewPath(s[i], orig, dest, T[i].to)
  BY <1>1, <1>4, SubtreePath
<1>6. Ordered(T)
  <2>1. \A i, k \in 1 .. n : IsStrictPrefix(s[k], s[i]) => i < k
    BY <1>4 DEF Renames, traverse_post
  <2> QED
    BY <1>4, <2>1 DEF Ordered
<1>7. NodesSeen(T)
  BY <1>4, <1>5 DEF NodesSeen
<1>8. LeftSeen(T)
  <2>1. ASSUME NEW q \in DOMAIN rows, NEW i \in 1 .. n, ~Unseen(q), IsPrefix(T[i].from, q)
        PROVE  \E j \in 1 .. n : T[j].from = q
    <3>1. q \in DOMAIN fs_mem.tree /\ q \in Seq(Name)
      BY <1>1, <2>1 DEF Unseen, TreeForm
    <3>2. PICK p \in Path : p = s[i]
      BY <1>5
    <3>3. orig \in Seq(Name) /\ p \in Seq(Name) /\ IsPrefix(orig, p) /\ IsPrefix(p, q)
      BY <1>1, <1>4, <1>5, <2>1, <3>2 DEF Path
    <3>4. IsPrefix(orig, q)
      BY <3>1, <3>3, PrefixTrans
    <3>5. q \in ToSet(s)
      BY <1>4, <3>1, <3>4 DEF Subtree
    <3>6. \E j \in 1 .. Len(s) : s[j] = q
      BY <1>4, <3>5, InSeqSet
    <3> QED
      BY <1>3, <1>4, <3>6
  <2> QED
    BY <1>4, <2>1 DEF LeftSeen
<1>9. KeepsNames(T) \/ ChangesNames(T)
  <2>1. ASSUME NEW i \in 1 .. n, T[i].to = T[i].from, NEW j \in 1 .. n PROVE T[j].to = T[j].from
    <3>1. PICK p \in Path : p = s[i]
      BY <1>5
    <3>2. PICK q \in Path : q = s[j]
      BY <1>5
    <3>3. PICK d : d = T[j].to
      OBVIOUS
    <3>4. /\ IsPrefix(orig, p) /\ IsPrefix(orig, q) /\ NewPath(p, orig, dest, p)
          /\ NewPath(q, orig, dest, d)
      BY <1>4, <1>5, <2>1, <3>1, <3>2, <3>3
    <3>5. d = q
      BY <1>1, <3>4, NewPathSelf
    <3> QED
      BY <1>4, <3>2, <3>3, <3>5
  <2> QED
    BY <1>4, <2>1 DEF KeepsNames, ChangesNames
<1>10. LeftForm(T)
  BY <1>6, <1>7, <1>8, <1>9 DEF LeftForm
<1>11. Remaining' = T
  BY <1>2 DEF Remaining
<1>12. LeftForm(T)'
  <2>1. \A q \in DOMAIN rows : Unseen(q)' <=> Unseen(q)
    BY DEF Unseen
  <2> QED
    BY <1>10, <2>1 DEF LeftForm, Ordered, NodesSeen, KeepsNames, ChangesNames, LeftSeen
<1> QED
  BY <1>11, <1>12 DEF LeftInv

(* Two entries of the tree have the same inode only if they are one.       *)
LEMMA InodesApart ==
    ASSUME FuseForm, UniqueIds, NEW a \in Path, NEW b \in Path, {a, b} \subseteq DOMAIN fs_mem.tree,
           fs_mem.tree[a].ino = fs_mem.tree[b].ino
    PROVE  a = b
<1>1. a \in DOMAIN files /\ b \in DOMAIN files
  BY DEF FuseForm, Placed, Path
<1>2. fs_mem.tree[a] = FileNode(files[a]) /\ fs_mem.tree[b] = FileNode(files[b])
  BY <1>1 DEF FuseForm, Placed
<1>3. entry_id(files[a].id) = entry_id(files[b].id)
  BY <1>2 DEF FileNode
<1>4. PICK i \in Nat : i = files[a].id
  BY <1>1 DEF FuseForm, FilesForm, Row
<1>5. PICK k \in Nat : k = files[b].id
  BY <1>1 DEF FuseForm, FilesForm, Row
<1>6. i + EntriesStart = k + EntriesStart
  BY <1>3, <1>4, <1>5 DEF entry_id
<1>7. i = k
  BY <1>6, FuseAssumption
<1> QED
  BY <1>1, <1>4, <1>5, <1>7 DEF UniqueIds, FileIdsApart

(* The rest of a list that is as described.                                *)
LEMMA TailLeft ==
    ASSUME NEW T \in Seq(Entry), T # <<>>, NEW R, R = Tail(T), Ordered(T), NodesSeen(T)
    PROVE  Ordered(R) /\ NodesSeen(R)
<1>1. PICK n \in Nat : n = Len(T) /\ n > 0
  BY HeadAndTail
<1>2. Len(R) = n - 1
  BY <1>1, HeadAndTail
<1>3. \A i \in 1 .. n - 1 : R[i] = T[i + 1] /\ i + 1 \in 1 .. n
  <2>1. \A i \in 1 .. Len(T) - 1 : R[i] = T[i + 1]
    BY <1>1, TailIs
  <2> QED
    BY <1>1, <2>1
<1>4. ASSUME NEW i \in 1 .. n - 1, NEW k \in 1 .. n - 1, IsStrictPrefix(R[k].from, R[i].from) PROVE i < k
  <2>1. PICK a \in 1 .. n : a = i + 1
    BY <1>3
  <2>2. PICK b \in 1 .. n : b = k + 1
    BY <1>3
  <2>3. IsStrictPrefix(T[b].from, T[a].from)
    BY <1>3, <1>4, <2>1, <2>2
  <2>4. a < b
    BY <1>1, <2>3 DEF Ordered
  <2> QED
    BY <2>1, <2>2, <2>4
<1>5. NodesSeen(R)
  BY <1>1, <1>2, <1>3 DEF NodesSeen
<1> QED
  BY <1>1, <1>2, <1>3, <1>4, <1>5 DEF Ordered

LEMMA LeftMove ==
    ASSUME FuseForm, UniqueIds, LeftInv, mv_file_info
    PROVE  LeftInv'
<1>1. /\ RowsForm /\ CallForm /\ call.pc = "move" /\ faults \subseteq faults' /\ todo' = todo
      /\ fs_mem' = fs_mem
  BY DEF FuseForm, mv_file_info, Blame, memory
<1>2. todo # <<>> /\ todo \in Seq(Entry)
  BY <1>1 DEF CallForm, Renaming
<1>3. e.node \in Node /\ e = todo[1] /\ e.from \in Path /\ e.to \in Path
  BY <1>1, <1>2, EntryIs
<1>4. ASSUME Followed', call'.pc \in Renaming PROVE LeftForm(Remaining)'
  <2>1. ~Stale
    BY <1>4 DEF mv_file_info, Blame, If, Followed
  <2>2. e.from \in DOMAIN rows /\ e.node.ino = entry_id(rows[e.from].id)
    BY <2>1 DEF Stale, FileNode
  <2>3. /\ e.to = e.from \/ e.to \notin DOMAIN rows
        /\ rows' = MovedRow /\ call' = [call EXCEPT !.pc = "remove"]
    <3>1. ASSUME NEW why, Panic(why, e.node.ino) PROVE FALSE
      <4>1. call'.pc = "panicked"
        BY <3>1 DEF Panic
      <4> QED
        BY <1>4, <4>1 DEF Renaming
    <3> QED
      BY <2>2, <3>1, MoveCases
  <2>4. call'.pc = "remove"
    BY <1>1, <2>3 DEF CallForm
  <2>5. PICK T : T = todo
    OBVIOUS
  <2>6. PICK R : R = Tail(T)
    OBVIOUS
  <2>7. Remaining' = R
    BY <1>1, <2>4, <2>5, <2>6 DEF Remaining
  <2>8. LeftForm(T)
    BY <1>1, <1>4, <2>5 DEF LeftInv, Followed, Remaining, Renaming
  <2>9. T \in Seq(Entry) /\ T # <<>> /\ e = T[1]
    BY <1>2, <1>3, <2>5
  <2>10. PICK n \in Nat : n = Len(T) /\ n > 0
    BY <2>9, HeadAndTail
  <2>11. /\ Ordered(R) /\ NodesSeen(R) /\ Len(R) = n - 1
         /\ \A i \in 1 .. n - 1 : R[i] = T[i + 1] /\ i + 1 \in 1 .. n
    <3>1. Ordered(T) /\ NodesSeen(T)
      BY <2>8 DEF LeftForm
    <3>2. Ordered(R) /\ NodesSeen(R)
      BY <2>6, <2>9, <3>1, TailLeft
    <3>3. Len(R) = n - 1
      BY <2>6, <2>9, <2>10, HeadAndTail
    <3>4. \A i \in 1 .. Len(T) - 1 : R[i] = T[i + 1]
      BY <2>6, <2>9, <2>10, TailIs
    <3> QED
      BY <2>10, <3>2, <3>3, <3>4
  <2>12. CASE KeepsNames(T)
    <3>1. KeepsNames(R)
      BY <2>10, <2>11, <2>12 DEF KeepsNames
    <3>2. LeftForm(R)'
      BY <1>1, <2>11, <3>1 DEF LeftForm, Ordered, NodesSeen, KeepsNames
    <3> QED
      BY <2>7, <3>2
  <2>13. CASE ChangesNames(T) /\ LeftSeen(T)
    <3>1. ChangesNames(R)
      BY <2>10, <2>11, <2>13 DEF ChangesNames
    <3>2. PICK from, to : from = e.from /\ to = e.to
      OBVIOUS
    <3>3. 1 \in 1 .. n
      BY <2>10
    <3>4. from = T[1].from /\ to # from /\ from \in Path /\ to \in Path
      BY <1>3, <2>9, <2>10, <2>13, <3>2, <3>3 DEF ChangesNames
    <3>5. /\ DOMAIN rows' = (DOMAIN rows \ {from}) \cup {to} /\ rows'[to].id = rows[from].id
          /\ \A q \in DOMAIN rows \ {from} : q # to => rows'[q] = rows[q]
      BY <1>1, <1>3, <2>2, <2>3, <3>2, MovedRowIs
    <3>6. from \in DOMAIN fs_mem.tree /\ fs_mem.tree[from].ino = entry_id(rows[from].id)
      <4>1. NodesSeen(T)
        BY <2>8 DEF LeftForm
      <4> QED
        BY <2>2, <2>9, <2>10, <3>2, <3>3, <3>4, <4>1 DEF NodesSeen
    <3>7. Unseen(to)'
      <4>1. ASSUME to \in DOMAIN fs_mem.tree, fs_mem.tree[to].ino = entry_id(rows[from].id)
            PROVE  FALSE
        BY <3>4, <3>6, <4>1, InodesApart
      <4> QED
        BY <1>1, <3>5, <4>1 DEF Unseen
    <3>8. ASSUME NEW q \in DOMAIN rows', NEW i \in 1 .. n - 1, ~Unseen(q)', IsPrefix(R[i].from, q)
          PROVE  \E j \in 1 .. n - 1 : R[j].from = q
      <4>1. q # to
        BY <3>7, <3>8
      <4>2. q \in DOMAIN rows /\ q # from /\ rows'[q] = rows[q]
        BY <3>5, <3>8, <4>1
      <4>3. ~Unseen(q)
        BY <1>1, <3>8, <4>2 DEF Unseen
      <4>4. PICK a \in 1 .. n : a = i + 1
        BY <2>11
      <4>5. IsPrefix(T[a].from, q)
        BY <2>11, <3>8, <4>4
      <4>6. PICK b \in 1 .. n : T[b].from = q
        BY <2>10, <2>13, <4>2, <4>3, <4>5 DEF LeftSeen
      <4>7. b # 1
        BY <3>4, <4>2, <4>6
      <4>8. PICK j : j = b - 1
        OBVIOUS
      <4>9. j \in 1 .. n - 1 /\ j + 1 = b
        BY <4>7, <4>8
      <4> QED
        BY <2>11, <4>6, <4>9
    <3>9. LeftSeen(R)'
      BY <2>11, <3>8 DEF LeftSeen
    <3>10. LeftForm(R)'
      BY <1>1, <2>11, <3>1, <3>9 DEF LeftForm, Ordered, NodesSeen, ChangesNames
    <3> QED
      BY <2>7, <3>10
  <2> QED
    BY <2>8, <2>12, <2>13 DEF LeftForm
<1> QED
  BY <1>4 DEF LeftInv

LEMMA LeftStep ==
    ASSUME FuseForm, IdsForm, UniqueIds, LeftInv, [Next]_vars
    PROVE  LeftInv'
<1>0. CallForm
  BY DEF FuseForm
<1>1. ASSUME rows' = rows, fs_mem' = fs_mem
      PROVE  \A q \in DOMAIN rows' : ~Unseen(q)' => q \in DOMAIN rows /\ ~Unseen(q)
  BY <1>1 DEF Unseen
<1>2. ASSUME call' = call, todo' = todo
      PROVE  Remaining' = Remaining /\ (call.pc \in Renaming <=> call'.pc \in Renaming)
  BY <1>2 DEF Remaining
<1>3. CASE UNCHANGED <<rows, fs_mem, call, todo, faults>>
  BY <1>1, <1>2, <1>3, LeftSame
<1>4. CASE call'.pc \notin Renaming
  BY <1>4 DEF LeftInv
<1>5. ASSUME NEW p \in Path, p \in DOMAIN fs_mem.tree PROVE fs_mem.tree[p].ino # entry_id(NewId)
  BY <1>5, InodeOlder
<1>6. ASSUME NEW p \in DOMAIN rows, Update(p) PROVE LeftInv'
  <2>1. /\ DOMAIN rows' = DOMAIN rows /\ p \in Path /\ fs_mem' = fs_mem /\ call' = call
        /\ todo' = todo /\ faults' = faults
    BY <1>6, UpdateForm DEF Update, FuseForm, RowsForm, memory
  <2>2. rows'[p].id = NewId /\ \A q \in DOMAIN rows : q # p => rows'[q] = rows[q]
    BY <1>6 DEF Update
  <2>3. Unseen(p)'
    BY <1>5, <2>1, <2>2 DEF Unseen
  <2>4. \A q \in DOMAIN rows' : ~Unseen(q)' => q \in DOMAIN rows /\ ~Unseen(q)
    BY <2>1, <2>2, <2>3 DEF Unseen
  <2> QED
    BY <1>2, <2>1, <2>4, LeftSame
<1>7. ASSUME NEW p \in Arriving, Arrive(p) PROVE LeftInv'
  <2>1. /\ p \in Path /\ fs_mem' = fs_mem /\ call' = call /\ todo' = todo
        /\ faults \subseteq faults'
    BY <1>7, Names DEF Arrive, Blame, memory, Path
  <2>2. PICK row : row = [id |-> NewId, version |-> 1, located |-> FALSE, dir |-> FALSE]
    OBVIOUS
  <2>3. rows' = With(rows, p, row) /\ row.id = NewId
    BY <1>7, <2>2 DEF Arrive
  <2>4. /\ DOMAIN rows' = DOMAIN rows \cup {p} /\ rows'[p] = row
        /\ \A q \in DOMAIN rows : q # p => rows'[q] = rows[q]
    BY <2>3 DEF With
  <2>5. Unseen(p)'
    BY <1>5, <2>1, <2>3, <2>4 DEF Unseen
  <2>6. \A q \in DOMAIN rows' : ~Unseen(q)' => q \in DOMAIN rows /\ ~Unseen(q)
    BY <2>1, <2>4, <2>5 DEF Unseen
  <2> QED
    BY <1>2, <2>1, <2>6, LeftSame
<1>8. ASSUME NEW u \in uploads, EndUpload(u) PROVE LeftInv'
  <2>1. /\ fs_mem' = fs_mem /\ call' = call /\ todo' = todo /\ faults \subseteq faults'
        /\ DOMAIN rows' = DOMAIN rows /\ \A q \in DOMAIN rows : rows'[q].id = rows[q].id
    BY <1>8, EndUploadForm DEF EndUpload, Blame, memory
  <2>2. \A q \in DOMAIN rows' : ~Unseen(q)' => q \in DOMAIN rows /\ ~Unseen(q)
    BY <2>1 DEF Unseen
  <2> QED
    BY <1>2, <2>1, <2>2, LeftSame
<1>9. ASSUME NEW p \in DOMAIN rows, UpdateInPlace(p) \/ StartUpload(p) PROVE LeftInv'
  <2>1. /\ fs_mem' = fs_mem /\ call' = call /\ todo' = todo /\ faults \subseteq faults'
        /\ DOMAIN rows' = DOMAIN rows /\ \A q \in DOMAIN rows : rows'[q].id = rows[q].id
    BY <1>9, InPlaceForm, UploadIs DEF UpdateInPlace, memory
  <2>2. \A q \in DOMAIN rows' : ~Unseen(q)' => q \in DOMAIN rows /\ ~Unseen(q)
    BY <2>1 DEF Unseen
  <2> QED
    BY <1>2, <2>1, <2>2, LeftSame
<1>10. CASE StartCall
  <2>1. call'.pc = "refresh"
    BY <1>0, <1>10 DEF StartCall, CallForm
  <2> QED
    BY <1>4, <2>1 DEF Renaming
<1>11. CASE InsertFile
  BY <1>4, <1>11 DEF InsertFile, Renaming
<1>12. CASE Crash
  BY <1>4, <1>12 DEF Crash, NoCall, Renaming
<1>13. CASE Serve
  <2>1. ASSUME NEW ino, call' = NoCall \/ Panic("dead reference", ino)
        PROVE  call'.pc \notin Renaming
    <3>1. CASE call' = NoCall
      BY <3>1 DEF NoCall, Renaming
    <3>2. CASE Panic("dead reference", ino)
      BY <3>2 DEF Panic, Renaming
    <3> QED
      BY <2>1, <3>1, <3>2
  <2>2. ASSUME NEW h \in held, getattr_mem(h.ino) PROVE LeftInv'
    BY <1>4, <2>1, <2>2 DEF getattr_mem
  <2>3. ASSUME NEW h \in held, NEW n \in NewName \union DOMAIN Folder, lookup_mem(h.ino, n)
        PROVE  LeftInv'
    BY <1>4, <2>1, <2>3 DEF lookup_mem
  <2>4. ASSUME NEW h \in held, NEW g \in held, NEW n \in NewName, NEW as \in NewName,
               rename_mem(h.ino, n, g.ino, as)
        PROVE  LeftInv'
    <3>1. call'.pc = "copy" /\ rows' = rows /\ fs_mem' = fs_mem
      BY <1>0, <2>4 DEF rename_mem, CallForm, database, memory
    <3>2. PICK orig, dest, s : Renames(orig, dest, s)
      BY <2>4, RenameIs
    <3> QED
      BY <3>1, <3>2, LeftRename
  <2> QED
    BY <1>13, <2>2, <2>3, <2>4 DEF Serve
<1>14. CASE cp_remote_to_remote
  <2>1. call.pc = "copy" /\ rows' = rows /\ fs_mem' = fs_mem /\ faults \subseteq faults'
    BY <1>14 DEF cp_remote_to_remote, Blame, memory
  <2>2. CASE call' = [call EXCEPT !.pc = "move"] /\ todo' = todo
    <3>1. call'.pc = "move"
      BY <1>0, <2>2 DEF CallForm
    <3>2. Remaining' = Remaining /\ (call.pc \in Renaming <=> call'.pc \in Renaming)
      BY <2>1, <2>2, <3>1 DEF Remaining, Renaming
    <3> QED
      BY <1>1, <2>1, <3>2, LeftSame
  <2>3. CASE Blame({"start"})
    BY <2>3 DEF Blame, LeftInv, Followed
  <2> QED
    BY <1>14, <2>2, <2>3 DEF cp_remote_to_remote
<1>15. CASE mv_file_info
  BY <1>15, LeftMove
<1>16. CASE rm_remote
  <2>1. call.pc = "remove" /\ rows' = rows /\ fs_mem' = fs_mem
    BY <1>16, RemoveIs DEF memory
  <2>2. CASE RemovePanics
    BY <1>4, <2>2, RemovePanicked DEF Renaming
  <2>3. CASE RemovesSome
    <3>1. faults' = faults /\ todo' = Tail(todo) /\ NextEntry
      BY <2>3 DEF RemovesSome, NextEntry
    <3>2. call' = NoCall \/ call'.pc = "copy"
      BY <1>0, <2>1, <3>1, NextEntryForm DEF Renaming
    <3>3. CASE call' = NoCall
      BY <1>4, <3>3 DEF NoCall, Renaming
    <3>4. CASE call'.pc = "copy"
      <4>1. Remaining' = Remaining /\ (call.pc \in Renaming <=> call'.pc \in Renaming)
        BY <2>1, <3>1, <3>4 DEF Remaining, Renaming
      <4> QED
        BY <1>1, <2>1, <3>1, <4>1, LeftSame
    <3> QED
      BY <3>2, <3>3, <3>4
  <2> QED
    BY <1>16, <2>2, <2>3, RemoveIs
<1>17. CASE UNCHANGED vars
  BY <1>3, <1>17 DEF vars, database, memory
<1> QED
  BY <1>6, <1>7, <1>8, <1>9, <1>10, <1>11, <1>12, <1>13, <1>14, <1>15, <1>16, <1>17 DEF Next, Thread

LEMMA InitialLeft ==
    ASSUME Init
    PROVE  UniqueIds /\ LeftInv
<1>1. DOMAIN files = {}
  BY NoPath DEF Init
<1>2. RowIdsApart
  BY FuseAssumption DEF Init, RowIdsApart
<1> QED
  BY <1>1, <1>2 DEF Init, NoCall, Renaming, UniqueIds, FileIdsApart, FilesOlder, LeftInv

RenameInv == FuseForm /\ IdsForm /\ UniqueIds /\ LeftInv /\ BackendInv

LEMMA RenameStep ==
    ASSUME RenameInv, [Next]_vars
    PROVE  RenameInv'
BY FuseFormStep, BackendStep, UniqueStep, LeftStep DEF RenameInv

(* At every step of a rename, and after a crash between any two, the       *)
(* object of a located file is at the backend (fuse.rs, rename_mem: copy,  *)
(* move the row, remove), and with the file's version unless a full Index  *)
(* changed it in place and it was not uploaded since (bep_state.rs,        *)
(* insert_file_info), unless one of the listed faults has happened.        *)
THEOREM RenamesKeepObjects == Spec => []LocatedAtBackend
<1>1. Init => RenameInv
  BY InitialFuseForm, InitialBackend, InitialLeft DEF RenameInv
<1>2. RenameInv /\ [Next]_vars => RenameInv'
  BY RenameStep
<1>3. RenameInv => LocatedAtBackend
  BY DEF RenameInv, BackendInv, Clean, KeptInv, RowsKept, AtBackend, LocatedAtBackend
<1> QED
  BY <1>1, <1>2, <1>3, PTL DEF Spec

-----------------------------------------------------------------------------
(* Directories. What the new names of a rename have in common.             *)
(* A sequence has a prefix of every length up to its own.                  *)
IsCut(u, S, s, n) == u \in Seq(S) /\ Len(u) = n /\ \A i \in 1 .. n : u[i] = s[i]

LEMMA PrefixOfLength ==
    ASSUME NEW S, NEW s \in Seq(S), NEW n \in Nat, n <= Len(s)
    PROVE  \E u : IsCut(u, S, s, n)
<1>1. PICK a \in Int : a = 1
  OBVIOUS
<1>2. PICK l \in Nat : l = Len(s)
  BY LenProperties
<1>3. \A i \in 1 .. l : s[i] \in S
  BY <1>2, ElementOfSeq
<1>4. n \in Int /\ \A i \in a .. n : s[i] \in S
  BY <1>1, <1>2, <1>3
<1>5. PICK u : u = SubSeq(s, a, n)
  OBVIOUS
<1>6. /\ u \in Seq(S) /\ Len(u) = IF a <= n THEN n - a + 1 ELSE 0
      /\ \A i \in 1 .. n - a + 1 : u[i] = s[a + i - 1]
  BY <1>4, <1>5, SubSeqProperties
<1>7. Len(u) = n
  BY <1>1, <1>6
<1>8. ASSUME NEW i \in 1 .. n PROVE u[i] = s[i]
  <2>1. i \in 1 .. n - a + 1 /\ a + i - 1 = i
    BY <1>1
  <2> QED
    BY <1>6, <2>1
<1> QED
  BY <1>6, <1>7, <1>8 DEF IsCut

(* Either it is the whole path or it is in the directory.                  *)
LEMMA PrefixOrFront ==
    ASSUME NEW S, NEW q \in Seq(S), NEW p \in Seq(S), Len(p) > 0, IsPrefix(q, p)
    PROVE  q = p \/ IsPrefix(q, Front(p))
<1>1. PICK lq \in Nat : lq = Len(q)
  BY LenProperties
<1>2. PICK lp \in Nat : lp = Len(p) /\ lp > 0
  BY LenProperties
<1>3. lq <= lp /\ \A i \in 1 .. lq : q[i] = p[i]
  BY <1>1, <1>2, PrefixIs
<1>4. CASE lq = lp
  BY <1>1, <1>2, <1>3, <1>4, SeqEqual
<1>5. CASE lq # lp
  <2>1. PICK f : f = Front(p)
    OBVIOUS
  <2>2. f \in Seq(S) /\ Len(f) = lp - 1 /\ \A i \in 1 .. lp - 1 : f[i] = p[i]
    BY <1>2, <2>1, FrontIs
  <2>3. lq <= lp - 1 /\ \A i \in 1 .. lq : i \in 1 .. lp - 1
    BY <1>3, <1>5
  <2>4. \A i \in 1 .. lq : q[i] = f[i]
    BY <1>3, <2>2, <2>3
  <2>5. IsPrefix(q, f)
    BY <1>1, <2>2, <2>3, <2>4, PrefixIs
  <2> QED
    BY <2>1, <2>5
<1> QED
  BY <1>4, <1>5

LEMMA NewPathMonotone ==
    ASSUME NEW a \in Path, NEW b \in Path, NEW orig \in Path, NEW dest \in Path, NEW x, NEW y,
           IsPrefix(orig, a), IsPrefix(a, b), NewPath(a, orig, dest, x), NewPath(b, orig, dest, y)
    PROVE  IsPrefix(x, y)
<1>0. /\ a \in Seq(Name) /\ b \in Seq(Name) /\ orig \in Seq(Name) /\ dest \in Seq(Name)
      /\ x \in Seq(Name) /\ y \in Seq(Name)
  BY DEF Path, NewPath
<1>1. PICK la \in Nat : la = Len(a)
  BY <1>0, LenProperties
<1>2. PICK lb \in Nat : lb = Len(b)
  BY <1>0, LenProperties
<1>3. PICK lo \in Nat : lo = Len(orig) /\ lo > 1
  BY <1>0, LenProperties DEF Path
<1>4. PICK ld \in Nat : ld = Len(dest) /\ ld > 1
  BY <1>0, LenProperties DEF Path
<1>5. lo <= la
  BY <1>0, <1>1, <1>3, PrefixIs
<1>6. la <= lb /\ \A i \in 1 .. la : a[i] = b[i]
  BY <1>0, <1>1, <1>2, PrefixIs
<1>7. Len(x) = ld + (la - lo) /\ Len(y) = ld + (lb - lo)
  BY <1>1, <1>2, <1>3, <1>4 DEF NewPath
<1>8. x[1] = a[1] /\ \A i \in 2 .. ld : x[i] = dest[i]
  BY <1>4 DEF NewPath
<1>9. y[1] = b[1] /\ \A i \in 2 .. ld : y[i] = dest[i]
  BY <1>4 DEF NewPath
<1>10. \A i \in 1 .. la - lo : x[ld + i] = a[lo + i]
  BY <1>1, <1>3, <1>4 DEF NewPath
<1>11. \A i \in 1 .. lb - lo : y[ld + i] = b[lo + i]
  BY <1>2, <1>3, <1>4 DEF NewPath
<1>12. ASSUME NEW i \in 1 .. ld + (la - lo) PROVE x[i] = y[i]
  <2>1. CASE i = 1
    <3>1. 1 \in 1 .. la
      BY <1>3, <1>5
    <3> QED
      BY <1>6, <1>8, <1>9, <2>1, <3>1
  <2>2. CASE i \in 2 .. ld
    BY <1>8, <1>9, <2>2
  <2>3. CASE i > ld
    <3>1. PICK m : m = i - ld
      OBVIOUS
    <3>2. m \in 1 .. la - lo /\ m \in 1 .. lb - lo /\ ld + m = i /\ lo + m \in 1 .. la
      BY <1>3, <1>5, <1>6, <2>3, <3>1
    <3> QED
      BY <1>6, <1>10, <1>11, <3>2
  <2>4. i = 1 \/ i \in 2 .. ld \/ i > ld
    BY <1>4, <1>5
  <2> QED
    BY <2>1, <2>2, <2>3, <2>4
<1>13. Len(x) <= Len(y)
  BY <1>6, <1>7
<1>14. \A i \in 1 .. Len(x) : x[i] = y[i]
  BY <1>7, <1>12
<1> QED
  BY <1>0, <1>13, <1>14, PrefixIs

LEMMA NewPathInjective ==
    ASSUME NEW a \in Path, NEW b \in Path, NEW orig \in Path, NEW dest \in Path, NEW x,
           IsPrefix(orig, a), IsPrefix(orig, b), NewPath(a, orig, dest, x), NewPath(b, orig, dest, x)
    PROVE  a = b
<1>0. a \in Seq(Name) /\ b \in Seq(Name) /\ orig \in Seq(Name) /\ dest \in Seq(Name)
  BY DEF Path
<1>1. PICK la \in Nat : la = Len(a)
  BY <1>0, LenProperties
<1>2. PICK lb \in Nat : lb = Len(b)
  BY <1>0, LenProperties
<1>3. PICK lo \in Nat : lo = Len(orig) /\ lo > 1
  BY <1>0, LenProperties DEF Path
<1>4. PICK ld \in Nat : ld = Len(dest) /\ ld > 1
  BY <1>0, LenProperties DEF Path
<1>5. lo <= la /\ \A i \in 1 .. lo : orig[i] = a[i]
  BY <1>0, <1>1, <1>3, PrefixIs
<1>6. lo <= lb /\ \A i \in 1 .. lo : orig[i] = b[i]
  BY <1>0, <1>2, <1>3, PrefixIs
<1>7. Len(x) = ld + (la - lo) /\ Len(x) = ld + (lb - lo)
  BY <1>1, <1>2, <1>3, <1>4 DEF NewPath
<1>8. la = lb
  BY <1>7
<1>9. \A i \in 1 .. la - lo : x[ld + i] = a[lo + i]
  BY <1>1, <1>3, <1>4 DEF NewPath
<1>10. \A i \in 1 .. lb - lo : x[ld + i] = b[lo + i]
  BY <1>2, <1>3, <1>4 DEF NewPath
<1>11. ASSUME NEW i \in 1 .. la PROVE a[i] = b[i]
  <2>1. CASE i <= lo
    BY <1>5, <1>6, <2>1
  <2>2. CASE i > lo
    <3>1. PICK m : m = i - lo
      OBVIOUS
    <3>2. m \in 1 .. la - lo /\ m \in 1 .. lb - lo /\ lo + m = i
      BY <1>5, <1>8, <2>2, <3>1
    <3> QED
      BY <1>9, <1>10, <3>2
  <2> QED
    BY <2>1, <2>2
<1> QED
  BY <1>0, <1>1, <1>2, <1>8, <1>11, SeqEqual

(* A directory of a new name is the new name of a directory ...            *)
LEMMA NewPathBelow ==
    ASSUME NEW p \in Path, NEW orig \in Path, NEW dest \in Path, NEW q \in Path, NEW d,
           IsPrefix(orig, p), NewPath(p, orig, dest, d), IsPrefix(q, d), Len(dest) <= Len(q)
    PROVE  \E a \in Path : IsPrefix(orig, a) /\ IsPrefix(a, p) /\ NewPath(a, orig, dest, q)
<1>0. /\ p \in Seq(Name) /\ q \in Seq(Name) /\ orig \in Seq(Name) /\ dest \in Seq(Name)
      /\ d \in Seq(Name)
  BY DEF Path, NewPath
<1>1. PICK lp \in Nat : lp = Len(p)
  BY <1>0, LenProperties
<1>2. PICK lq \in Nat : lq = Len(q)
  BY <1>0, LenProperties
<1>3. PICK lo \in Nat : lo = Len(orig) /\ lo > 1
  BY <1>0, LenProperties DEF Path
<1>4. PICK ld \in Nat : ld = Len(dest) /\ ld > 1
  BY <1>0, LenProperties DEF Path
<1>5. lo <= lp /\ \A i \in 1 .. lo : orig[i] = p[i]
  BY <1>0, <1>1, <1>3, PrefixIs
<1>6. Len(d) = ld + (lp - lo) /\ d[1] = p[1] /\ \A i \in 2 .. ld : d[i] = dest[i]
  BY <1>1, <1>3, <1>4 DEF NewPath
<1>7. \A i \in 1 .. lp - lo : d[ld + i] = p[lo + i]
  BY <1>1, <1>3, <1>4 DEF NewPath
<1>8. Len(q) <= Len(d) /\ \A i \in 1 .. Len(q) : q[i] = d[i]
  BY <1>0, PrefixIs
<1>9. lq <= ld + (lp - lo) /\ ld <= lq /\ \A i \in 1 .. lq : q[i] = d[i]
  BY <1>2, <1>4, <1>6, <1>8
<1>10. PICK n \in Nat : n = lo + (lq - ld)
  BY <1>9
<1>11. n <= lp /\ lo <= n
  BY <1>9, <1>10
<1>12. PICK a \in Seq(Name) : Len(a) = n /\ \A i \in 1 .. n : a[i] = p[i]
  <2>1. n <= Len(p)
    BY <1>1, <1>11
  <2>2. p \in Seq(Name) /\ n \in Nat
    BY <1>0
  <2>3. PICK u : IsCut(u, Name, p, n)
    BY <2>1, <2>2, PrefixOfLength
  <2> QED
    BY <2>3 DEF IsCut
<1>13. a \in Path
  <2>1. n > 1
    BY <1>3, <1>11
  <2> QED
    BY <1>12, <2>1 DEF Path
<1>14. IsPrefix(a, p)
  BY <1>0, <1>1, <1>11, <1>12, PrefixIs
<1>15. IsPrefix(orig, a)
  <2>1. \A i \in 1 .. lo : i \in 1 .. n
    BY <1>11
  <2>2. \A i \in 1 .. lo : orig[i] = a[i]
    BY <1>5, <1>12, <2>1
  <2> QED
    BY <1>0, <1>3, <1>11, <1>12, <2>2, PrefixIs
<1>16. Len(q) = Len(dest) + (Len(a) - Len(orig))
  BY <1>2, <1>3, <1>4, <1>10, <1>12
<1>17. q[1] = a[1]
  <2>1. 1 \in 1 .. lq /\ 1 \in 1 .. n
    BY <1>3, <1>4, <1>9, <1>11
  <2> QED
    BY <1>6, <1>9, <1>12, <2>1
<1>18. \A i \in 2 .. ld : q[i] = dest[i]
  <2>1. \A i \in 2 .. ld : i \in 1 .. lq
    BY <1>9
  <2> QED
    BY <1>6, <1>9, <2>1
<1>19. ASSUME NEW i \in 1 .. n - lo PROVE q[ld + i] = a[lo + i]
  <2>1. i \in 1 .. lp - lo /\ ld + i \in 1 .. lq /\ lo + i \in 1 .. n
    BY <1>9, <1>10, <1>11
  <2> QED
    BY <1>7, <1>9, <1>12, <2>1
<1>20. NewPath(a, orig, dest, q)
  BY <1>3, <1>4, <1>12, <1>16, <1>17, <1>18, <1>19 DEF NewPath
<1> QED
  BY <1>13, <1>14, <1>15, <1>20

(* ... or one above the destination.                                       *)
IsBase(B, orig, dest) ==
    /\ B \in Seq(Name) /\ Len(B) = Len(dest) - 1 /\ B[1] = orig[1]
    /\ \A i \in 2 .. Len(dest) - 1 : B[i] = dest[i]

LEMMA BaseExists ==
    ASSUME NEW orig \in Path, NEW dest \in Path
    PROVE  \E B : IsBase(B, orig, dest)
<1>0. orig \in Seq(Name) /\ dest \in Seq(Name)
  BY DEF Path
<1>1. PICK lo \in Nat : lo = Len(orig)
  BY <1>0, LenProperties
<1>2. PICK ld \in Nat : ld = Len(dest) /\ ld > 1
  BY <1>0, LenProperties DEF Path
<1>3. PICK t : t = dest_file_name(orig, orig, dest)
  OBVIOUS
<1>4. NewPath(orig, orig, dest, t)
  BY <1>1, <1>3, NewPathIs
<1>5. t \in Seq(Name) /\ Len(t) = ld /\ t[1] = orig[1] /\ \A i \in 2 .. ld : t[i] = dest[i]
  BY <1>1, <1>2, <1>4 DEF NewPath, Path
<1>6. PICK B : B = Front(t)
  OBVIOUS
<1>7. Len(t) > 0
  BY <1>2, <1>5
<1>8. B \in Seq(Name) /\ Len(B) = ld - 1 /\ \A i \in 1 .. ld - 1 : B[i] = t[i]
  BY <1>5, <1>6, <1>7, FrontIs
<1>9. 1 \in 1 .. ld - 1 /\ \A i \in 2 .. ld - 1 : i \in 1 .. ld - 1 /\ i \in 2 .. ld
  BY <1>2
<1>10. B[1] = orig[1] /\ \A i \in 2 .. ld - 1 : B[i] = dest[i]
  BY <1>5, <1>8, <1>9
<1> QED
  BY <1>2, <1>8, <1>10 DEF IsBase

LEMMA NewPathAbove ==
    ASSUME NEW p \in Path, NEW orig \in Path, NEW dest \in Path, NEW q \in Path, NEW d, NEW B,
           IsPrefix(orig, p), NewPath(p, orig, dest, d), IsPrefix(q, d), ~(Len(dest) <= Len(q)),
           IsBase(B, orig, dest)
    PROVE  IsPrefix(q, B)
<1>0. /\ p \in Seq(Name) /\ q \in Seq(Name) /\ orig \in Seq(Name) /\ dest \in Seq(Name)
      /\ d \in Seq(Name) /\ B \in Seq(Name)
  BY DEF Path, NewPath, IsBase
<1>1. PICK lq \in Nat : lq = Len(q)
  BY <1>0, LenProperties
<1>2. PICK ld \in Nat : ld = Len(dest)
  BY <1>0, LenProperties
<1>3. PICK lo \in Nat : lo = Len(orig) /\ lo > 1
  BY <1>0, LenProperties DEF Path
<1>4. 1 \in 1 .. lo
  BY <1>3
<1>5. d[1] = orig[1] /\ \A i \in 2 .. ld : d[i] = dest[i]
  <2>1. orig[1] = p[1]
    BY <1>0, <1>3, <1>4, PrefixIs
  <2> QED
    BY <1>2, <2>1 DEF NewPath
<1>6. lq < ld
  BY <1>1, <1>2
<1>7. Len(B) = ld - 1 /\ B[1] = orig[1] /\ \A i \in 2 .. ld - 1 : B[i] = dest[i]
  BY <1>2 DEF IsBase
<1>8. \A i \in 1 .. lq : q[i] = d[i]
  BY <1>0, <1>1, PrefixIs
<1>9. ASSUME NEW i \in 1 .. lq PROVE q[i] = B[i]
  <2>1. i = 1 \/ (i \in 2 .. ld - 1 /\ i \in 2 .. ld)
    BY <1>6
  <2> QED
    BY <1>5, <1>7, <1>8, <2>1
<1>10. lq <= Len(B)
  BY <1>6, <1>7
<1> QED
  BY <1>0, <1>1, <1>9, <1>10, PrefixIs

(* The base of a rename that stays in its folder is not below the renamed  *)
(* directory, and it is the destination's directory unless it is a folder. *)
LEMMA BaseApart ==
    ASSUME NEW orig \in Path, NEW dest \in Path, NEW B, IsBase(B, orig, dest),
           Len(dest) = 2 \/ Head(dest) = Head(orig), ~IsPrefix(orig, Front(dest))
    PROVE  /\ ~IsPrefix(orig, B) /\ (Len(dest) = 2 => Len(B) = 1)
           /\ (Len(dest) # 2 => B = Front(dest))
<1>0. orig \in Seq(Name) /\ dest \in Seq(Name) /\ B \in Seq(Name)
  BY DEF Path, IsBase
<1>1. PICK ld \in Nat : ld = Len(dest) /\ ld > 1
  BY <1>0, LenProperties DEF Path
<1>2. PICK lo \in Nat : lo = Len(orig) /\ lo > 1
  BY <1>0, LenProperties DEF Path
<1>3. Len(B) = ld - 1 /\ B[1] = orig[1] /\ \A i \in 2 .. ld - 1 : B[i] = dest[i]
  BY <1>1 DEF IsBase
<1>4. CASE ld = 2
  <2>1. Len(B) = 1
    BY <1>3, <1>4
  <2>2. ~(lo <= Len(B))
    BY <1>2, <2>1
  <2> QED
    BY <1>1, <1>2, <1>4, <2>1, <2>2 DEF IsPrefix
<1>5. CASE ld # 2
  <2>1. Head(dest) = dest[1] /\ Head(orig) = orig[1]
    BY <1>0
  <2>2. dest[1] = orig[1]
    BY <1>1, <1>5, <2>1
  <2>3. PICK f : f = Front(dest)
    OBVIOUS
  <2>4. Len(dest) > 0
    BY <1>1
  <2>5. f \in Seq(Name) /\ Len(f) = ld - 1 /\ \A i \in 1 .. ld - 1 : f[i] = dest[i]
    BY <1>0, <1>1, <2>3, <2>4, FrontIs
  <2>6. ASSUME NEW i \in 1 .. ld - 1 PROVE B[i] = f[i]
    <3>1. i = 1 \/ i \in 2 .. ld - 1
      OBVIOUS
    <3> QED
      BY <1>3, <2>2, <2>5, <3>1
  <2>7. B = f
    BY <1>0, <1>3, <2>5, <2>6, SeqEqual
  <2> QED
    BY <1>1, <1>5, <2>3, <2>7
<1> QED
  BY <1>4, <1>5

(* The tree has the directories of its entries.                            *)
TreeClosed ==
    \A p \in DOMAIN fs_mem.tree, q \in Seq(Name) :
       Len(q) > 0 /\ IsPrefix(q, p) => q \in DOMAIN fs_mem.tree

LEMMA RefreshClosed ==
    ASSUME fs_mem' = insert_folders
    PROVE  TreeClosed'
<1>1. PICK T : T = DOMAIN fs_mem'.tree
  OBVIOUS
<1>2. T = {<<f>> : f \in DOMAIN Folder}
  BY <1>1 DEF insert_folders
<1>3. ASSUME NEW p \in T, NEW q \in Seq(Name), Len(q) > 0, IsPrefix(q, p) PROVE q = p
  <2>1. PICK f \in DOMAIN Folder : p = <<f>>
    BY <1>2
  <2>2. <<f>> \in Seq(Name) /\ Len(<<f>>) = 1
    BY Names, Single
  <2>3. p \in Seq(Name) /\ Len(p) = 1
    BY <2>1, <2>2
  <2>4. PICK n \in Nat : n = Len(q) /\ n > 0
    BY <1>3, LenProperties
  <2>5. n <= 1 /\ \A i \in 1 .. n : q[i] = p[i]
    BY <1>3, <2>3, <2>4, PrefixIs
  <2>6. n = 1
    BY <2>4, <2>5
  <2> QED
    BY <2>3, <2>4, <2>5, <2>6, SeqEqual
<1>4. \A p \in T, q \in Seq(Name) : Len(q) > 0 /\ IsPrefix(q, p) => q \in T
  BY <1>3
<1> QED
  BY <1>1, <1>4 DEF TreeClosed

LEMMA InsertFileClosed ==
    ASSUME FuseForm, TreeClosed, InsertFile
    PROVE  TreeClosed'
<1>1. PICK p : p = Head(queue)
  OBVIOUS
<1>2. p \in DOMAIN files
  BY <1>1, HeadAndTail DEF FuseForm, FilesForm, InsertFile
<1>3. p \in Seq(Name) /\ Len(p) > 1
  BY <1>2 DEF FuseForm, FilesForm, Path
<1>4. CASE Front(p) \in DOMAIN fs_mem.tree
  <2>1. PICK T : T = DOMAIN fs_mem'.tree
    OBVIOUS
  <2>2. PICK node : node = FileNode(files[p])
    OBVIOUS
  <2>3. fs_mem'.tree = With(fs_mem.tree, p, node)
    BY <1>1, <1>4, <2>2 DEF InsertFile, insert_file
  <2>4. T = DOMAIN fs_mem.tree \cup {p}
    BY <2>1, <2>3 DEF With
  <2>5. Len(p) > 0
    BY <1>3, LenProperties
  <2>6. ASSUME NEW r \in T, NEW q \in Seq(Name), Len(q) > 0, IsPrefix(q, r) PROVE q \in T
    <3>1. CASE r \in DOMAIN fs_mem.tree
      BY <2>4, <2>6, <3>1 DEF TreeClosed
    <3>2. CASE r = p
      <4>1. q = p \/ IsPrefix(q, Front(p))
        BY <1>3, <2>5, <2>6, <3>2, PrefixOrFront
      <4> QED
        BY <1>4, <2>4, <2>6, <4>1 DEF TreeClosed
    <3> QED
      BY <2>4, <3>1, <3>2
  <2> QED
    BY <2>1, <2>6 DEF TreeClosed
<1>5. CASE Front(p) \notin DOMAIN fs_mem.tree
  BY <1>1, <1>5 DEF InsertFile, insert_file, TreeClosed
<1> QED
  BY <1>4, <1>5

LEMMA TreeStaysClosed ==
    ASSUME TreeClosed, fs_mem' = fs_mem
    PROVE  TreeClosed'
BY DEF TreeClosed

LEMMA ClosedStep ==
    ASSUME FuseForm, TreeClosed, [Next]_vars
    PROVE  TreeClosed'
<1>1. CASE StartCall
  BY <1>1, RefreshClosed, TreeStaysClosed DEF StartCall, refresh_expired_folders_files
<1>2. CASE InsertFile
  BY <1>2, InsertFileClosed
<1>3. CASE Crash
  <2>1. DOMAIN fs_mem'.tree = {}
    BY <1>3, NoPath DEF Crash, NewMem
  <2> QED
    BY <2>1 DEF TreeClosed
<1>4. CASE fs_mem' = fs_mem
  BY <1>4, TreeStaysClosed
<1>5. ASSUME NEW p \in DOMAIN rows, Update(p) \/ UpdateInPlace(p) \/ StartUpload(p)
      PROVE  fs_mem' = fs_mem
  BY <1>5, UploadIs DEF Update, UpdateInPlace, memory
<1>6. ASSUME NEW p \in Arriving, Arrive(p) PROVE fs_mem' = fs_mem
  BY <1>6 DEF Arrive, memory
<1>7. ASSUME NEW u \in uploads, EndUpload(u) PROVE fs_mem' = fs_mem
  BY <1>7 DEF EndUpload, memory
<1>8. CASE Serve
  <2>1. ASSUME NEW ino, getattr_mem(ino) PROVE fs_mem' = fs_mem
    BY <2>1 DEF getattr_mem, memory
  <2>2. ASSUME NEW ino, NEW n, lookup_mem(ino, n) PROVE fs_mem' = fs_mem
    BY <2>2 DEF lookup_mem
  <2>3. ASSUME NEW h, NEW n, NEW g, NEW as, rename_mem(h, n, g, as) PROVE fs_mem' = fs_mem
    BY <2>3 DEF rename_mem, memory
  <2> QED
    BY <1>8, <2>1, <2>2, <2>3, TreeStaysClosed DEF Serve
<1>9. CASE cp_remote_to_remote \/ mv_file_info \/ rm_remote
  BY <1>9, TreeStaysClosed DEF cp_remote_to_remote, mv_file_info, rm_remote, memory
<1>10. CASE UNCHANGED vars
  BY <1>10, TreeStaysClosed DEF vars, memory
<1> QED
  BY <1>1, <1>2, <1>3, <1>4, <1>5, <1>6, <1>7, <1>8, <1>9, <1>10 DEF Next, Thread

(* While nothing excuses it (Tidy), rows have all their directories,       *)
(* between calls; and within a rename those that are missing are new names *)
(* that are still to be given, each above everything that comes before it. *)
(* The directories B above the destination are there all the time, and a   *)
(* new name that is taken has its directories.                             *)
Tidy == faults \cap {"stale", "folder", "start", "crash", "late directory"} = {}

Stacked(T, B) ==
    /\ \A i \in 1 .. Len(T) : ~IsPrefix(T[i].from, B)
    /\ \A i, j \in 1 .. Len(T) : T[i].to = T[j].to => i = j
    /\ \A i \in 1 .. Len(T), q \in Path : IsPrefix(q, T[i].to) =>
         \/ IsPrefix(q, B)
         \/ \E j \in i .. Len(T) : T[j].to = q /\ \A k \in i .. j : IsPrefix(q, T[k].to)
BaseThere(B) == B \in Seq(Name) /\ \A q \in Path : IsPrefix(q, B) => q \in DOMAIN rows
Grounded(T) ==
    \A i \in 1 .. Len(T), q \in Path :
       T[i].to \in DOMAIN rows /\ IsPrefix(q, T[i].to) => q \in DOMAIN rows
MissingStacked(T) ==
    \A r \in DOMAIN rows, q \in Path : IsPrefix(q, r) /\ q \notin DOMAIN rows =>
       \E j \in 1 .. Len(T) : T[j].to = q /\ \A k \in 1 .. j : IsPrefix(q, T[k].to)
StackForm(T, B) == Stacked(T, B) /\ BaseThere(B) /\ Grounded(T) /\ MissingStacked(T)

RowsClosed == \A p \in DOMAIN rows, q \in Path : IsPrefix(q, p) => q \in DOMAIN rows
DirInv == Tidy => IF call.pc \in Renaming THEN \E B : StackForm(Remaining, B) ELSE RowsClosed

LEMMA StillTidy ==
    ASSUME faults \subseteq faults', Tidy', DirInv
    PROVE  IF call.pc \in Renaming THEN \E B : StackForm(Remaining, B) ELSE RowsClosed
BY DEF Tidy, DirInv

LEMMA DirSame ==
    ASSUME DirInv, faults \subseteq faults', DOMAIN rows' = DOMAIN rows, Remaining' = Remaining,
           call.pc \in Renaming <=> call'.pc \in Renaming
    PROVE  DirInv'
<1>1. ASSUME Tidy', call'.pc \in Renaming PROVE (\E B : StackForm(Remaining, B))'
  <2>1. PICK B : StackForm(Remaining, B)
    BY <1>1, StillTidy
  <2>2. PICK T : T = Remaining
    OBVIOUS
  <2>3. StackForm(T, B)'
    BY <2>1, <2>2 DEF StackForm, Stacked, BaseThere, Grounded, MissingStacked
  <2> QED
    BY <2>2, <2>3
<1>2. ASSUME Tidy', call'.pc \notin Renaming PROVE RowsClosed'
  BY <1>2, StillTidy DEF RowsClosed
<1> QED
  BY <1>1, <1>2 DEF DirInv

(* A file that arrives has its directory, or "late directory" is noted.    *)
LEMMA ArriveInDirectory ==
    ASSUME NEW p \in Path, ~Orphan(p, DOMAIN rows), NEW q \in Path, IsPrefix(q, p), q # p
    PROVE  IsPrefix(q, Front(p)) /\ Front(p) \in DOMAIN rows
<1>0. p \in Seq(Name) /\ q \in Seq(Name)
  BY DEF Path
<1>1. PICK n \in Nat : n = Len(p) /\ n > 1
  BY <1>0, LenProperties DEF Path
<1>2. PICK m \in Nat : m = Len(q) /\ m > 1
  BY <1>0, LenProperties DEF Path
<1>3. Len(p) > 0
  BY <1>1
<1>4. IsPrefix(q, Front(p))
  BY <1>0, <1>3, PrefixOrFront
<1>5. PICK f : f = Front(p)
  OBVIOUS
<1>6. f \in Seq(Name) /\ Len(f) = n - 1
  BY <1>0, <1>1, <1>3, <1>5, FrontIs
<1>7. m <= Len(f)
  BY <1>2, <1>4, <1>5 DEF IsPrefix
<1>8. n > 2
  BY <1>2, <1>6, <1>7
<1> QED
  BY <1>1, <1>4, <1>8 DEF Orphan

LEMMA ArriveDir ==
    ASSUME FuseForm, DirInv, NEW p \in Arriving, Arrive(p)
    PROVE  DirInv'
<1>0. RowsForm /\ p \in Path
  BY Names DEF FuseForm, Path
<1>1. /\ faults \subseteq faults' /\ call' = call /\ todo' = todo
      /\ DOMAIN rows' = DOMAIN rows \cup {p}
  BY DEF Arrive, Blame, With
<1>2. Remaining' = Remaining
  BY <1>1 DEF Remaining
<1>3. ASSUME Tidy' PROVE ~Orphan(p, DOMAIN rows)
  BY <1>3 DEF Tidy, Arrive, Blame, If
<1>4. ASSUME Tidy', call.pc \in Renaming PROVE (\E B : StackForm(Remaining, B))'
  <2>1. PICK B : StackForm(Remaining, B)
    BY <1>1, <1>4, StillTidy
  <2>2. PICK T : T = Remaining
    OBVIOUS
  <2>3. StackForm(T, B)
    BY <2>1, <2>2
  <2>4. Stacked(T, B) /\ BaseThere(B)' /\ B \in Seq(Name)
    BY <1>1, <2>3 DEF StackForm, BaseThere
  <2>5. Grounded(T)'
    <3>1. ASSUME NEW i \in 1 .. Len(T), NEW q \in Path, T[i].to \in DOMAIN rows', IsPrefix(q, T[i].to),
                 q \notin DOMAIN rows'
          PROVE  FALSE
      <4>1. CASE T[i].to \in DOMAIN rows
        BY <1>1, <2>3, <3>1, <4>1 DEF StackForm, Grounded
      <4>2. CASE T[i].to = p
        <5>1. q # p
          BY <1>1, <3>1
        <5>2. PICK f : f = Front(p)
          OBVIOUS
        <5>3. IsPrefix(q, f) /\ f \in DOMAIN rows
          BY <1>0, <1>3, <1>4, <3>1, <4>2, <5>1, <5>2, ArriveInDirectory
        <5>4. f \in Path /\ q \in Seq(Name) /\ f \in Seq(Name) /\ p \in Seq(Name)
          BY <1>0, <5>3 DEF RowsForm, Path
        <5>5. IsPrefix(f, p)
          <6>1. PICK n \in Nat : n = Len(p) /\ n > 1
            BY <1>0, LenProperties DEF Path
          <6>2. Len(p) > 0
            BY <6>1
          <6>3. Len(f) = n - 1 /\ \A k \in 1 .. n - 1 : f[k] = p[k]
            BY <5>2, <5>4, <6>1, <6>2, FrontIs
          <6>4. Len(f) <= Len(p) /\ \A k \in 1 .. Len(f) : f[k] = p[k]
            BY <6>1, <6>3
          <6> QED
            BY <5>4, <6>4, PrefixIs
        <5>6. CASE IsPrefix(f, B)
          <6>1. IsPrefix(q, B)
            BY <2>4, <5>3, <5>4, <5>6, PrefixTrans
          <6> QED
            BY <2>4, <3>1, <6>1 DEF BaseThere
        <5>7. CASE \E j \in i .. Len(T) : T[j].to = f
          <6>1. PICK j \in i .. Len(T) : T[j].to = f
            BY <5>7
          <6>2. j \in 1 .. Len(T)
            BY <6>1
          <6> QED
            BY <1>1, <2>3, <3>1, <5>3, <6>1, <6>2 DEF StackForm, Grounded
        <5> QED
          BY <2>4, <4>2, <5>4, <5>5, <5>6, <5>7 DEF Stacked
      <4> QED
        BY <1>1, <3>1, <4>1, <4>2
    <3> QED
      BY <3>1 DEF Grounded
  <2>6. MissingStacked(T)'
    <3>1. ASSUME NEW r \in DOMAIN rows', NEW q \in Path, IsPrefix(q, r), q \notin DOMAIN rows'
          PROVE  \E j \in 1 .. Len(T) : T[j].to = q /\ \A k \in 1 .. j : IsPrefix(q, T[k].to)
      <4>1. CASE r \in DOMAIN rows
        BY <1>1, <2>3, <3>1, <4>1 DEF StackForm, MissingStacked
      <4>2. CASE r = p
        <5>1. IsPrefix(q, Front(p)) /\ Front(p) \in DOMAIN rows
          BY <1>0, <1>1, <1>3, <1>4, <3>1, <4>2, ArriveInDirectory
        <5> QED
          BY <1>1, <2>3, <3>1, <5>1 DEF StackForm, MissingStacked
      <4> QED
        BY <1>1, <4>1, <4>2
    <3> QED
      BY <3>1 DEF MissingStacked
  <2>7. StackForm(T, B)'
    BY <2>4, <2>5, <2>6 DEF StackForm, Stacked
  <2> QED
    BY <1>2, <2>2, <2>7
<1>5. ASSUME Tidy', call.pc \notin Renaming PROVE RowsClosed'
  <2>1. RowsClosed
    BY <1>1, <1>5, StillTidy
  <2>2. ASSUME NEW r \in DOMAIN rows', NEW q \in Path, IsPrefix(q, r), q \notin DOMAIN rows'
        PROVE  FALSE
    <3>1. CASE r \in DOMAIN rows
      BY <1>1, <2>1, <2>2, <3>1 DEF RowsClosed
    <3>2. CASE r = p
      <4>1. IsPrefix(q, Front(p)) /\ Front(p) \in DOMAIN rows
        BY <1>0, <1>1, <1>3, <1>5, <2>2, <3>2, ArriveInDirectory
      <4> QED
        BY <1>1, <2>1, <2>2, <4>1 DEF RowsClosed
    <3> QED
      BY <1>1, <3>1, <3>2
  <2> QED
    BY <2>2 DEF RowsClosed
<1> QED
  BY <1>1, <1>4, <1>5 DEF DirInv

(* A rename begins: what is collected is a stack.                          *)
LEMMA CollectedStacked ==
    ASSUME FuseForm, TreeClosed, NEW orig, NEW dest, NEW s, NEW B, Renames(orig, dest, s),
           IsBase(B, orig, dest), ~IsPrefix(orig, B)
    PROVE  Stacked(todo', B)
<1>1. orig \in Path /\ dest \in Path /\ B \in Seq(Name) /\ TreeForm
  BY DEF Renames, IsBase, FuseForm
<1>2. PICK T : T = todo'
  OBVIOUS
<1>3. PICK n \in Nat : n = Len(s)
  BY CollectedIs
<1>4. /\ T \in Seq(Entry) /\ Len(T) = n /\ DOMAIN s = 1 .. n /\ ToSet(s) = Subtree(orig)
      /\ s \in Seq(Subtree(orig))
      /\ \A i \in 1 .. n : /\ s[i] \in Subtree(orig) /\ T[i].from = s[i]
                           /\ T[i].to = dest_file_name(s[i], orig, dest)
  BY <1>2, <1>3, CollectedIs
<1>5. ASSUME NEW p \in Subtree(orig)
      PROVE  /\ p \in Path /\ IsPrefix(orig, p) /\ p \in DOMAIN fs_mem.tree
             /\ NewPath(p, orig, dest, dest_file_name(p, orig, dest))
  BY <1>1, SubtreePath
<1>6. \A i \in 1 .. n : /\ s[i] \in Path /\ IsPrefix(orig, s[i])
                        /\ NewPath(s[i], orig, dest, T[i].to)
  BY <1>4, <1>5
<1>7. /\ \A i, j \in 1 .. n : i # j => s[i] # s[j]
      /\ \A i, k \in 1 .. n : IsStrictPrefix(s[k], s[i]) =>
            i < k /\ \A j \in i .. k : IsPrefix(s[k], s[j])
  <2>1. s \in SetToSeqs(Subtree(orig)) /\ s \in traverse_post(Subtree(orig))
    BY DEF Renames, traverse_post
  <2>2. Cardinality(Subtree(orig)) = n
    <3>1. PICK S : S = Subtree(orig)
      OBVIOUS
    <3>2. IsFiniteSet(S) /\ s \in SetToSeqs(S)
      BY <2>1, <3>1, CollectedIs
    <3> QED
      BY <1>3, <3>1, <3>2, Enumeration
  <2>3. \A i, j \in 1 .. n : i # j => s[i] # s[j]
    BY <2>1, <2>2 DEF SetToSeqs
  <2> QED
    BY <1>4, <2>1, <2>3 DEF traverse_post
<1>8. \A i \in 1 .. n : ~IsPrefix(T[i].from, B)
  <2>1. ASSUME NEW i \in 1 .. n, IsPrefix(T[i].from, B) PROVE FALSE
    <3>1. PICK p \in Path : p = s[i]
      BY <1>6
    <3>2. p \in Seq(Name) /\ orig \in Seq(Name) /\ IsPrefix(orig, p) /\ IsPrefix(p, B)
      BY <1>1, <1>4, <1>6, <2>1, <3>1 DEF Path
    <3>3. IsPrefix(orig, B)
      BY <1>1, <3>2, PrefixTrans
    <3> QED
      BY <3>3
  <2> QED
    BY <2>1
<1>9. ASSUME NEW i \in 1 .. n, NEW j \in 1 .. n, T[i].to = T[j].to PROVE i = j
  <2>1. PICK a \in Path : a = s[i]
    BY <1>6
  <2>2. PICK b \in Path : b = s[j]
    BY <1>6
  <2>3. PICK x : x = T[i].to
    OBVIOUS
  <2>4. /\ IsPrefix(orig, a) /\ IsPrefix(orig, b) /\ NewPath(a, orig, dest, x)
        /\ NewPath(b, orig, dest, x)
    BY <1>6, <1>9, <2>1, <2>2, <2>3
  <2>5. a = b
    BY <1>1, <2>4, NewPathInjective
  <2> QED
    BY <1>7, <2>1, <2>2, <2>5
<1>10. ASSUME NEW i \in 1 .. n, NEW q \in Path, IsPrefix(q, T[i].to), ~IsPrefix(q, B)
       PROVE  \E j \in i .. n : T[j].to = q /\ \A k \in i .. j : IsPrefix(q, T[k].to)
  <2>1. PICK p \in Path : p = s[i]
    BY <1>6
  <2>2. PICK d : d = T[i].to
    OBVIOUS
  <2>3. IsPrefix(orig, p) /\ NewPath(p, orig, dest, d) /\ IsPrefix(q, d)
    BY <1>6, <1>10, <2>1, <2>2
  <2>4. Len(dest) <= Len(q)
    BY <1>1, <1>10, <2>3, NewPathAbove
  <2>5. PICK a \in Path : IsPrefix(orig, a) /\ IsPrefix(a, p) /\ NewPath(a, orig, dest, q)
    BY <1>1, <2>3, <2>4, NewPathBelow
  <2>6. a \in Subtree(orig)
    <3>1. p \in DOMAIN fs_mem.tree
      BY <1>4, <1>5, <2>1
    <3>2. a \in Seq(Name) /\ Len(a) > 1
      BY DEF Path
    <3>3. Len(a) > 0
      BY <3>2, LenProperties
    <3>4. a \in DOMAIN fs_mem.tree
      BY <2>5, <3>1, <3>2, <3>3 DEF TreeClosed
    <3> QED
      BY <2>5, <3>4 DEF Subtree
  <2>7. PICK j \in 1 .. n : s[j] = a
    <3>1. a \in ToSet(s)
      BY <1>4, <2>6
    <3>2. \E j \in 1 .. Len(s) : s[j] = a
      BY <1>4, <3>1, InSeqSet
    <3> QED
      BY <1>3, <3>2
  <2>8. T[j].to = q
    <3>1. PICK y : y = T[j].to
      OBVIOUS
    <3>2. NewPath(a, orig, dest, y)
      BY <1>6, <2>7, <3>1
    <3>3. IsPrefix(a, a)
      BY SelfPrefix
    <3>4. IsPrefix(q, y) /\ IsPrefix(y, q)
      BY <1>1, <2>5, <3>2, <3>3, NewPathMonotone
    <3>5. q \in Seq(Name) /\ y \in Seq(Name)
      BY <3>2 DEF NewPath, Path
    <3>6. PICK lq \in Nat : lq = Len(q)
      BY <3>5, LenProperties
    <3>7. PICK ly \in Nat : ly = Len(y)
      BY <3>5, LenProperties
    <3>8. lq <= ly /\ ly <= lq /\ \A k \in 1 .. lq : q[k] = y[k]
      BY <3>4, <3>5, <3>6, <3>7, PrefixIs
    <3>9. lq = ly
      BY <3>8
    <3>10. q = y
      BY <3>5, <3>6, <3>7, <3>8, <3>9, SeqEqual
    <3> QED
      BY <3>1, <3>10
  <2>9. CASE a = p
    <3>1. j = i
      BY <1>7, <2>1, <2>7, <2>9
    <3>2. i \in i .. n /\ \A k \in i .. i : k = i
      OBVIOUS
    <3> QED
      BY <1>10, <2>8, <3>1, <3>2
  <2>10. CASE a # p
    <3>1. IsStrictPrefix(s[j], s[i])
      BY <2>1, <2>5, <2>7, <2>10 DEF IsStrictPrefix
    <3>2. i < j /\ \A k \in i .. j : IsPrefix(a, s[k])
      BY <1>7, <2>7, <3>1
    <3>3. j \in i .. n /\ \A k \in i .. j : k \in 1 .. n
      BY <3>2
    <3>4. ASSUME NEW k \in i .. j PROVE IsPrefix(q, T[k].to)
      <4>1. k \in 1 .. n
        BY <3>3
      <4>2. PICK b \in Path : b = s[k]
        BY <1>6, <4>1
      <4>3. PICK y : y = T[k].to
        OBVIOUS
      <4>4. IsPrefix(a, b) /\ NewPath(b, orig, dest, y)
        BY <1>6, <3>2, <4>1, <4>2, <4>3
      <4>5. IsPrefix(q, y)
        BY <1>1, <2>5, <4>4, NewPathMonotone
      <4> QED
        BY <4>3, <4>5
    <3> QED
      BY <2>8, <3>3, <3>4
  <2> QED
    BY <2>9, <2>10
<1> QED
  BY <1>2, <1>4, <1>8, <1>9, <1>10 DEF Stacked

LEMMA RenameDir ==
    ASSUME FuseForm, TreeClosed, DirInv, NEW orig, NEW dest, NEW s, Renames(orig, dest, s),
           rows' = rows, call.pc = "refresh", call'.pc = "copy"
    PROVE  DirInv'
<1>1. ASSUME Tidy' PROVE (\E B : StackForm(Remaining, B))'
  <2>1. /\ orig \in Path /\ dest \in Path /\ ~IsPrefix(orig, Front(dest)) /\ faults \subseteq faults'
        /\ Len(dest) = 2 \/ Head(dest) = Head(orig)
        /\ ~Orphan(dest, DOMAIN rows)
    BY <1>1 DEF Renames, Tidy
  <2>2. RowsClosed
    BY <1>1, <2>1, StillTidy DEF Renaming
  <2>3. PICK B : IsBase(B, orig, dest)
    BY <2>1, BaseExists
  <2>4. ~IsPrefix(orig, B) /\ (Len(dest) = 2 => Len(B) = 1) /\ (Len(dest) # 2 => B = Front(dest))
    BY <2>1, <2>3, BaseApart
  <2>5. Stacked(todo', B)
    BY <2>3, <2>4, CollectedStacked
  <2>6. ASSUME NEW q \in Path, IsPrefix(q, B) PROVE q \in DOMAIN rows
    <3>1. PICK m \in Nat : m = Len(q) /\ m > 1
      BY LenProperties DEF Path
    <3>2. CASE Len(dest) = 2
      <4>1. Len(q) <= Len(B) /\ Len(B) = 1
        BY <2>4, <2>6, <3>2 DEF IsPrefix
      <4> QED
        BY <3>1, <4>1
    <3>3. CASE Len(dest) # 2
      <4>1. PICK n \in Nat : n = Len(dest) /\ n > 1
        BY <2>1, LenProperties DEF Path
      <4>2. n > 2
        BY <3>3, <4>1
      <4>3. Front(dest) \in DOMAIN rows
        BY <2>1, <4>1, <4>2 DEF Orphan
      <4> QED
        BY <2>2, <2>4, <2>6, <3>3, <4>3 DEF RowsClosed
    <3> QED
      BY <3>2, <3>3
  <2>7. PICK T : T = todo'
    OBVIOUS
  <2>8. Remaining' = T
    BY <2>7 DEF Remaining
  <2>9. BaseThere(B)'
    BY <2>3, <2>6 DEF BaseThere, IsBase
  <2>10. Grounded(T)' /\ MissingStacked(T)'
    BY <2>2 DEF Grounded, MissingStacked, RowsClosed
  <2>11. Stacked(T, B)'
    BY <2>5, <2>7 DEF Stacked
  <2>12. StackForm(T, B)'
    BY <2>9, <2>10, <2>11 DEF StackForm
  <2> QED
    BY <2>8, <2>12
<1> QED
  BY <1>1 DEF DirInv, Renaming

(* The rest of a stack is a stack.                                         *)
LEMMA TailStacked ==
    ASSUME NEW T \in Seq(Entry), T # <<>>, NEW B, Stacked(T, B), NEW R, R = Tail(T)
    PROVE  Stacked(R, B)
<1>1. PICK n \in Nat : n = Len(T)
  BY LenProperties
<1>2. Len(R) = n - 1 /\ R \in Seq(Entry)
  BY <1>1, HeadAndTail
<1>3. \A i \in 1 .. n - 1 : R[i] = T[i + 1] /\ i + 1 \in 1 .. n
  <2>1. Len(T) > 0
    BY HeadAndTail
  <2>2. \A i \in 1 .. Len(T) - 1 : R[i] = T[i + 1]
    BY <2>1, TailIs
  <2> QED
    BY <1>1, <2>2
<1>4. \A i \in 1 .. n - 1 : ~IsPrefix(R[i].from, B)
  BY <1>1, <1>3 DEF Stacked
<1>5. ASSUME NEW i \in 1 .. n - 1, NEW j \in 1 .. n - 1, R[i].to = R[j].to PROVE i = j
  <2>1. PICK a \in 1 .. n : a = i + 1
    BY <1>3
  <2>2. PICK b \in 1 .. n : b = j + 1
    BY <1>3
  <2>3. T[a].to = T[b].to
    BY <1>3, <1>5, <2>1, <2>2
  <2>4. a = b
    BY <1>1, <2>3 DEF Stacked
  <2> QED
    BY <2>1, <2>2, <2>4
<1>6. ASSUME NEW i \in 1 .. n - 1, NEW q \in Path, IsPrefix(q, R[i].to), ~IsPrefix(q, B)
      PROVE  \E j \in i .. n - 1 : R[j].to = q /\ \A k \in i .. j : IsPrefix(q, R[k].to)
  <2>1. PICK a \in 1 .. n : a = i + 1
    BY <1>3
  <2>2. IsPrefix(q, T[a].to)
    BY <1>3, <1>6, <2>1
  <2>3. PICK b \in a .. n : T[b].to = q /\ \A k \in a .. b : IsPrefix(q, T[k].to)
    BY <1>1, <1>6, <2>2 DEF Stacked
  <2>4. PICK j : j = b - 1
    OBVIOUS
  <2>5. j \in i .. n - 1 /\ j \in 1 .. n - 1 /\ j + 1 = b
    BY <2>1, <2>3, <2>4
  <2>6. R[j].to = q
    BY <1>3, <2>3, <2>5
  <2>7. ASSUME NEW k \in i .. j PROVE IsPrefix(q, R[k].to)
    <3>1. k \in 1 .. n - 1 /\ k + 1 \in a .. b
      BY <2>1, <2>5
    <3>2. R[k] = T[k + 1]
      BY <1>3, <3>1
    <3> QED
      BY <2>3, <3>1, <3>2
  <2> QED
    BY <2>5, <2>6, <2>7
<1> QED
  BY <1>2, <1>4, <1>5, <1>6 DEF Stacked

(* The entry on top of the stack is moved.                                 *)
LEMMA MovedStack ==
    ASSUME RowsForm, NEW T \in Seq(Entry), T # <<>>, NEW B, StackForm(T, B), NEW R, R = Tail(T),
           NEW from, NEW to, from = T[1].from, to = T[1].to, from \in DOMAIN rows,
           to \notin DOMAIN rows, \A q \in DOMAIN rows : IsPrefix(from, q) => q = from,
           DOMAIN rows' = (DOMAIN rows \ {from}) \cup {to}
    PROVE  StackForm(R, B)'
<1>1. PICK n \in Nat : n = Len(T)
  BY LenProperties
<1>2. Len(R) = n - 1 /\ R \in Seq(Entry) /\ n > 0
  BY <1>1, HeadAndTail
<1>3. \A i \in 1 .. n - 1 : R[i] = T[i + 1] /\ i + 1 \in 1 .. n
  <2>1. \A i \in 1 .. Len(T) - 1 : R[i] = T[i + 1]
    BY <1>1, <1>2, TailIs
  <2> QED
    BY <1>1, <2>1
<1>4. 1 \in 1 .. n
  BY <1>2
<1>5. Stacked(T, B) /\ BaseThere(B) /\ Grounded(T) /\ MissingStacked(T)
  BY DEF StackForm
<1>6. Stacked(R, B)'
  <2>1. Stacked(R, B)
    BY <1>5, TailStacked
  <2> QED
    BY <2>1 DEF Stacked
<1>7. BaseThere(B)'
  <2>1. ~IsPrefix(from, B)
    BY <1>1, <1>4, <1>5 DEF Stacked
  <2> QED
    BY <1>5, <2>1 DEF BaseThere
<1>8. ASSUME NEW i \in 1 .. n - 1, NEW q \in Path, R[i].to \in DOMAIN rows', IsPrefix(q, R[i].to)
      PROVE  q \in DOMAIN rows'
  <2>1. PICK a \in 1 .. n : a = i + 1
    BY <1>3
  <2>2. PICK x : x = T[a].to
    OBVIOUS
  <2>3. R[i].to = x
    BY <1>3, <2>1, <2>2
  <2>4. x # to
    <3>1. a # 1
      BY <2>1
    <3> QED
      BY <1>1, <1>4, <1>5, <2>2, <3>1 DEF Stacked
  <2>5. x \in DOMAIN rows /\ x # from
    BY <1>8, <2>3, <2>4
  <2>6. q \in DOMAIN rows
    BY <1>1, <1>5, <1>8, <2>2, <2>3, <2>5 DEF Grounded
  <2>7. q # from
    BY <1>8, <2>3, <2>5
  <2> QED
    BY <2>6, <2>7
<1>9. ASSUME NEW q \in Path, q \notin DOMAIN rows', NEW b \in 1 .. n,
             T[b].to = q, \A k \in 1 .. b : IsPrefix(q, T[k].to)
      PROVE  \E j \in 1 .. n - 1 : R[j].to = q /\ \A k \in 1 .. j : IsPrefix(q, R[k].to)
  <2>1. b # 1
    BY <1>9
  <2>2. PICK j : j = b - 1
    OBVIOUS
  <2>3. j \in 1 .. n - 1 /\ j + 1 = b
    BY <2>1, <2>2
  <2>4. R[j].to = q
    BY <1>3, <1>9, <2>3
  <2>5. ASSUME NEW k \in 1 .. j PROVE IsPrefix(q, R[k].to)
    <3>1. k \in 1 .. n - 1 /\ k + 1 \in 1 .. b
      BY <2>3
    <3>2. R[k] = T[k + 1]
      BY <1>3, <3>1
    <3> QED
      BY <1>9, <3>1, <3>2
  <2> QED
    BY <2>3, <2>4, <2>5
<1>10. ASSUME NEW r \in DOMAIN rows', NEW q \in Path, IsPrefix(q, r), q \notin DOMAIN rows'
       PROVE  \E j \in 1 .. n - 1 : R[j].to = q /\ \A k \in 1 .. j : IsPrefix(q, R[k].to)
  <2>1. CASE r = to
    <3>1. ~IsPrefix(q, B)
      BY <1>7, <1>10 DEF BaseThere
    <3>2. PICK b \in 1 .. n : T[b].to = q /\ \A k \in 1 .. b : IsPrefix(q, T[k].to)
      BY <1>1, <1>4, <1>5, <1>10, <2>1, <3>1 DEF Stacked
    <3> QED
      BY <1>9, <1>10, <3>2
  <2>2. CASE r # to
    <3>1. r \in DOMAIN rows /\ r # from
      BY <2>2
    <3>2. q \notin DOMAIN rows
      BY <1>10, <3>1
    <3>3. PICK b \in 1 .. n : T[b].to = q /\ \A k \in 1 .. b : IsPrefix(q, T[k].to)
      BY <1>1, <1>5, <1>10, <3>1, <3>2 DEF MissingStacked
    <3> QED
      BY <1>9, <1>10, <3>3
  <2> QED
    BY <2>1, <2>2
<1>11. Grounded(R)'
  BY <1>2, <1>8 DEF Grounded
<1>12. MissingStacked(R)'
  BY <1>2, <1>10 DEF MissingStacked
<1> QED
  BY <1>6, <1>7, <1>11, <1>12 DEF StackForm

(* It is not moved when its name is taken: then nothing is missing.        *)
LEMMA TakenClosed ==
    ASSUME NEW T \in Seq(Entry), T # <<>>, NEW B, StackForm(T, B), T[1].to \in DOMAIN rows
    PROVE  RowsClosed
<1>1. PICK n \in Nat : n = Len(T) /\ n > 0
  BY HeadAndTail
<1>2. 1 \in 1 .. n
  BY <1>1
<1>3. ASSUME NEW r \in DOMAIN rows, NEW q \in Path, IsPrefix(q, r), q \notin DOMAIN rows PROVE FALSE
  <2>1. PICK b \in 1 .. n : T[b].to = q /\ \A k \in 1 .. b : IsPrefix(q, T[k].to)
    BY <1>1, <1>3 DEF StackForm, MissingStacked
  <2>2. 1 \in 1 .. b
    BY <2>1
  <2>3. IsPrefix(q, T[1].to)
    BY <2>1, <2>2
  <2> QED
    BY <1>1, <1>2, <1>3, <2>3 DEF StackForm, Grounded
<1> QED
  BY <1>3 DEF RowsClosed

(* An entry that keeps its name leaves the stack.                          *)
LEMMA KeptStack ==
    ASSUME NEW T \in Seq(Entry), T # <<>>, NEW B, StackForm(T, B), NEW R, R = Tail(T),
           T[1].to \in DOMAIN rows, DOMAIN rows' = DOMAIN rows
    PROVE  StackForm(R, B)'
<1>1. RowsClosed
  BY TakenClosed
<1>2. Stacked(T, B) /\ BaseThere(B)
  BY DEF StackForm
<1>3. Stacked(R, B)
  BY <1>2, TailStacked
<1>4. Stacked(R, B)' /\ BaseThere(B)'
  BY <1>2, <1>3 DEF Stacked, BaseThere
<1>5. Grounded(R)' /\ MissingStacked(R)'
  BY <1>1 DEF Grounded, MissingStacked, RowsClosed
<1> QED
  BY <1>4, <1>5 DEF StackForm

LEMMA MoveDir ==
    ASSUME FuseForm, LeftInv, DirInv, mv_file_info
    PROVE  DirInv'
<1>1. /\ RowsForm /\ CallForm /\ call.pc = "move" /\ faults \subseteq faults' /\ todo' = todo
  BY DEF FuseForm, mv_file_info, Blame
<1>2. todo # <<>> /\ todo \in Seq(Entry)
  BY <1>1 DEF CallForm, Renaming
<1>3. e.node \in Node /\ e = todo[1]
  BY <1>1, <1>2, EntryIs
<1>4. ASSUME Tidy'
      PROVE  /\ e.from \in DOMAIN rows
             /\ e.to # e.from => \A q \in DOMAIN rows : IsPrefix(e.from, q) => q = e.from
  <2>1. ~Stale /\ (\A p \in Below(e.from) : ~Unseen(p))
    BY <1>4 DEF mv_file_info, Blame, If, Tidy
  <2>2. Followed
    BY <1>1, <1>4 DEF Followed, Tidy
  <2>3. ASSUME e.to # e.from PROVE Below(e.from) = {}
    BY <1>1, <2>1, <2>2, <2>3, NothingLeft
  <2> QED
    BY <2>1, <2>3 DEF Stale, Below, IsStrictPrefix
<1>5. ASSUME Tidy' PROVE \E B : StackForm(todo, B)
  <2>1. Remaining = todo
    BY <1>1 DEF Remaining
  <2> QED
    BY <1>1, <1>5, <2>1, StillTidy DEF Renaming
<1>6. ASSUME Tidy' PROVE IF call'.pc \in Renaming THEN (\E B : StackForm(Remaining, B))' ELSE RowsClosed'
  <2>1. PICK T : T = todo
    OBVIOUS
  <2>2. PICK B : StackForm(T, B)
    BY <1>5, <1>6, <2>1
  <2>3. CASE /\ e.to = e.from \/ e.to \notin DOMAIN rows
             /\ rows' = MovedRow /\ call' = [call EXCEPT !.pc = "remove"]
    <3>1. call'.pc = "remove"
      BY <1>1, <2>3 DEF CallForm
    <3>2. PICK R : R = Tail(T)
      OBVIOUS
    <3>3. Remaining' = R
      BY <1>1, <2>1, <3>1, <3>2 DEF Remaining
    <3>4. PICK from, to : from = e.from /\ to = e.to
      OBVIOUS
    <3>5. DOMAIN rows' = (DOMAIN rows \ {from}) \cup {to}
      BY <1>1, <1>3, <1>4, <1>6, <2>3, <3>4, MovedRowIs
    <3>6. /\ from = T[1].from /\ to = T[1].to /\ from \in DOMAIN rows
          /\ to = from \/ to \notin DOMAIN rows
          /\ to # from => \A q \in DOMAIN rows : IsPrefix(from, q) => q = from
      BY <1>3, <1>4, <1>6, <2>1, <2>3, <3>4
    <3>7. T \in Seq(Entry) /\ T # <<>>
      BY <1>2, <2>1
    <3>8. StackForm(R, B)'
      <4>1. CASE to = from
        BY <2>2, <3>2, <3>5, <3>6, <3>7, <4>1, KeptStack
      <4>2. CASE to # from
        BY <1>1, <2>2, <3>2, <3>5, <3>6, <3>7, <4>2, MovedStack
      <4> QED
        BY <4>1, <4>2
    <3> QED
      BY <3>1, <3>3, <3>8 DEF Renaming
  <2>4. CASE rows' = rows /\ Panic("not unique", e.node.ino) /\ e.to \in DOMAIN rows
    <3>1. call'.pc = "panicked"
      BY <2>4 DEF Panic
    <3>2. RowsClosed
      BY <1>2, <1>3, <2>1, <2>2, <2>4, TakenClosed
    <3>3. RowsClosed'
      BY <2>4, <3>2 DEF RowsClosed
    <3> QED
      BY <3>1, <3>3 DEF Renaming
  <2> QED
    BY <1>4, <1>6, <2>3, <2>4, MoveCases
<1> QED
  BY <1>6 DEF DirInv

LEMMA CopyDir ==
    ASSUME FuseForm, DirInv, cp_remote_to_remote
    PROVE  DirInv'
<1>1. /\ CallForm /\ call.pc = "copy" /\ rows' = rows /\ faults \subseteq faults'
  BY DEF FuseForm, cp_remote_to_remote, Blame
<1>2. CASE call' = [call EXCEPT !.pc = "move"] /\ todo' = todo
  <2>1. call'.pc = "move"
    BY <1>1, <1>2 DEF CallForm
  <2>2. Remaining' = Remaining /\ (call.pc \in Renaming <=> call'.pc \in Renaming)
    BY <1>1, <1>2, <2>1 DEF Remaining, Renaming
  <2> QED
    BY <1>1, <2>2, DirSame
<1>3. CASE Blame({"start"})
  BY <1>3 DEF Blame, DirInv, Tidy
<1> QED
  BY <1>2, <1>3 DEF cp_remote_to_remote

(* The last entry leaves no stack.                                         *)
LEMMA EmptyStack ==
    ASSUME NEW T, NEW B, Len(T) = 0, StackForm(T, B)
    PROVE  RowsClosed
<1>1. ~ \E j \in 1 .. Len(T) : TRUE
  <2>1. 1 .. 0 = {}
    OBVIOUS
  <2> QED
    BY <2>1
<1> QED
  BY <1>1 DEF StackForm, MissingStacked, RowsClosed

LEMMA RemoveDir ==
    ASSUME FuseForm, DirInv, rm_remote
    PROVE  DirInv'
<1>1. CallForm /\ call.pc = "remove" /\ rows' = rows
  BY RemoveIs DEF FuseForm
<1>2. todo # <<>> /\ todo \in Seq(Entry)
  BY <1>1 DEF CallForm, Renaming
<1>3. PICK R : R = Tail(todo)
  OBVIOUS
<1>4. Remaining = R
  BY <1>1, <1>3 DEF Remaining
<1>5. CASE RemovePanics
  BY <1>5, RemovePanicked DEF DirInv, Tidy
<1>6. CASE RemovesSome
  <2>1. faults' = faults /\ NextEntry /\ todo' = Tail(todo)
    BY <1>6 DEF RemovesSome, NextEntry
  <2>2. CASE Len(todo) = 1
    <3>1. Len(R) = 0
      BY <1>2, <1>3, <2>2, HeadAndTail
    <3>2. call'.pc = "idle"
      BY <2>1, <2>2 DEF NextEntry, NoCall
    <3>3. ASSUME Tidy' PROVE RowsClosed'
      <4>1. PICK B : StackForm(R, B)
        BY <1>1, <1>4, <2>1, <3>3, StillTidy DEF Renaming
      <4>2. RowsClosed
        BY <3>1, <4>1, EmptyStack
      <4> QED
        BY <1>1, <4>2 DEF RowsClosed
    <3> QED
      BY <3>2, <3>3 DEF DirInv, Renaming
  <2>3. CASE Len(todo) # 1
    <3>1. call'.pc = "copy"
      BY <1>1, <2>1, <2>3 DEF NextEntry, CallForm
    <3>2. Remaining' = R
      BY <1>3, <2>1, <3>1 DEF Remaining
    <3> QED
      BY <1>1, <1>4, <2>1, <3>1, <3>2, DirSame DEF Renaming
  <2> QED
    BY <2>2, <2>3
<1> QED
  BY <1>5, <1>6, RemoveIs

LEMMA CrashDir ==
    ASSUME DirInv, Crash
    PROVE  DirInv'
<1>1. rows' = rows /\ call'.pc = "idle" /\ faults \subseteq faults'
  BY DEF Crash, Blame, NoCall
<1>2. ASSUME Tidy' PROVE RowsClosed'
  <2>1. call.pc \notin Renaming
    BY <1>2 DEF Crash, Blame, If, Tidy, Renaming
  <2>2. RowsClosed
    BY <1>1, <1>2, <2>1, StillTidy
  <2> QED
    BY <1>1, <2>2 DEF RowsClosed
<1> QED
  BY <1>1, <1>2 DEF DirInv, Renaming

(* Outside a rename only the names of the rows count.                      *)
LEMMA AnswerDir ==
    ASSUME DirInv, rows' = rows, faults' = faults, call.pc \notin Renaming, call'.pc \notin Renaming
    PROVE  DirInv'
<1>1. ASSUME Tidy' PROVE RowsClosed'
  <2>1. RowsClosed
    BY <1>1, StillTidy
  <2> QED
    BY <2>1 DEF RowsClosed
<1> QED
  BY <1>1 DEF DirInv

LEMMA DirStep ==
    ASSUME FuseForm, LeftInv, TreeClosed, DirInv, [Next]_vars
    PROVE  DirInv'
<1>0. CallForm
  BY DEF FuseForm
<1>1. ASSUME call' = call, todo' = todo
      PROVE  Remaining' = Remaining /\ (call.pc \in Renaming <=> call'.pc \in Renaming)
  BY <1>1 DEF Remaining
<1>2. ASSUME NEW p \in DOMAIN rows, Update(p) PROVE DirInv'
  <2>1. DOMAIN rows' = DOMAIN rows
    BY <1>2, UpdateForm
  <2>2. call' = call /\ todo' = todo /\ faults \subseteq faults'
    BY <1>2 DEF Update
  <2> QED
    BY <1>1, <2>1, <2>2, DirSame
<1>3. ASSUME NEW u \in uploads, EndUpload(u) PROVE DirInv'
  <2>1. DOMAIN rows' = DOMAIN rows
    BY <1>3, EndUploadForm
  <2>2. call' = call /\ todo' = todo /\ faults \subseteq faults'
    BY <1>3 DEF EndUpload, Blame
  <2> QED
    BY <1>1, <2>1, <2>2, DirSame
<1>4. CASE UNCHANGED <<rows, call, todo, faults>>
  BY <1>1, <1>4, DirSame
<1>5. ASSUME NEW p \in DOMAIN rows, UpdateInPlace(p) \/ StartUpload(p) PROVE DirInv'
  <2>1. DOMAIN rows' = DOMAIN rows /\ call' = call /\ todo' = todo /\ faults \subseteq faults'
    BY <1>5, InPlaceForm, UploadIs DEF UpdateInPlace
  <2> QED
    BY <1>1, <2>1, DirSame
<1>6. ASSUME NEW p \in Arriving, Arrive(p) PROVE DirInv'
  BY <1>6, ArriveDir
<1>7. CASE StartCall
  <2>1. call.pc = "idle" /\ call'.pc = "refresh" /\ rows' = rows /\ faults' = faults
    BY <1>0, <1>7 DEF StartCall, CallForm, database
  <2> QED
    BY <2>1, AnswerDir DEF Renaming
<1>8. CASE InsertFile
  BY <1>4, <1>8 DEF InsertFile, database
<1>9. CASE Serve
  <2>1. ASSUME NEW ino, call' = NoCall \/ Panic("dead reference", ino)
        PROVE  call'.pc \notin Renaming
    <3>1. CASE call' = NoCall
      BY <3>1 DEF NoCall, Renaming
    <3>2. CASE Panic("dead reference", ino)
      BY <3>2 DEF Panic, Renaming
    <3> QED
      BY <2>1, <3>1, <3>2
  <2>2. ASSUME NEW h \in held, getattr_mem(h.ino) PROVE DirInv'
    <3>1. call'.pc \notin Renaming /\ call.pc \notin Renaming
      BY <2>1, <2>2 DEF getattr_mem, Ready, Renaming
    <3> QED
      BY <2>2, <3>1, AnswerDir DEF getattr_mem, database
  <2>3. ASSUME NEW h \in held, NEW n \in NewName \union DOMAIN Folder, lookup_mem(h.ino, n)
        PROVE  DirInv'
    <3>1. call'.pc \notin Renaming /\ call.pc \notin Renaming
      BY <2>1, <2>3 DEF lookup_mem, Ready, Renaming
    <3> QED
      BY <2>3, <3>1, AnswerDir DEF lookup_mem, database
  <2>4. ASSUME NEW h \in held, NEW g \in held, NEW n \in NewName, NEW as \in NewName,
               rename_mem(h.ino, n, g.ino, as)
        PROVE  DirInv'
    <3>1. call.pc = "refresh" /\ call'.pc = "copy" /\ rows' = rows
      BY <1>0, <2>4 DEF rename_mem, Ready, CallForm, database
    <3>2. PICK orig, dest, s : Renames(orig, dest, s)
      BY <2>4, RenameIs
    <3> QED
      BY <3>1, <3>2, RenameDir
  <2> QED
    BY <1>9, <2>2, <2>3, <2>4 DEF Serve
<1>10. CASE cp_remote_to_remote
  BY <1>10, CopyDir
<1>11. CASE mv_file_info
  BY <1>11, MoveDir
<1>12. CASE rm_remote
  BY <1>12, RemoveDir
<1>13. CASE Crash
  BY <1>13, CrashDir
<1>14. CASE UNCHANGED vars
  BY <1>4, <1>14 DEF vars, database
<1> QED
  BY <1>2, <1>3, <1>5, <1>6, <1>7, <1>8, <1>9, <1>10, <1>11, <1>12, <1>13, <1>14 DEF Next, Thread

LEMMA NoOrphans ==
    ASSUME RowsForm, RowsClosed, NEW p \in DOMAIN rows
    PROVE  ~Orphan(p, DOMAIN rows)
<1>1. p \in Seq(Name)
  BY DEF RowsForm, Path
<1>2. PICK n \in Nat : n = Len(p)
  BY <1>1, LenProperties
<1>3. ASSUME n > 2 PROVE Front(p) \in DOMAIN rows
  <2>1. Len(p) > 0
    BY <1>2, <1>3
  <2>2. PICK f : f = Front(p)
    OBVIOUS
  <2>3. f \in Seq(Name) /\ Len(f) = n - 1 /\ \A k \in 1 .. n - 1 : f[k] = p[k]
    BY <1>1, <1>2, <2>1, <2>2, FrontIs
  <2>4. Len(f) <= Len(p) /\ Len(f) > 1
    BY <1>2, <1>3, <2>3
  <2>5. \A k \in 1 .. Len(f) : f[k] = p[k]
    BY <2>3
  <2>6. IsPrefix(f, p)
    BY <1>1, <2>3, <2>4, <2>5, PrefixIs
  <2>7. f \in Path
    BY <2>3, <2>4 DEF Path
  <2> QED
    BY <2>2, <2>6, <2>7 DEF RowsClosed
<1> QED
  BY <1>2, <1>3 DEF Orphan

(* Where every initial row has its directories, every row has them between *)
(* two calls, so that the next refresh (fuse.rs, insert_file) finds a      *)
(* place for each: a directory is renamed after its entries, one           *)
(* transaction each, and nothing is left behind or put under a name that   *)
(* never comes, unless one of the listed faults has happened.              *)
THEOREM DirectoriesStay ==
    ASSUME \A p \in DOMAIN InitialRows, q \in Path : IsPrefix(q, p) => q \in DOMAIN InitialRows
    PROVE  Spec => []RowsHaveDirectory
<1>1. Init => RenameInv /\ TreeClosed /\ DirInv
  <2>1. SUFFICES ASSUME Init PROVE RenameInv /\ TreeClosed /\ DirInv
    OBVIOUS
  <2>2. DOMAIN fs_mem.tree = {}
    BY <2>1, NoPath DEF Init, NewMem
  <2>3. RowsClosed /\ call.pc = "idle"
    BY <2>1 DEF Init, RowsClosed, NoCall
  <2> QED
    BY <2>1, <2>2, <2>3, InitialFuseForm, InitialBackend, InitialLeft
    DEF RenameInv, TreeClosed, DirInv, Renaming
<1>2. RenameInv /\ TreeClosed /\ DirInv /\ [Next]_vars => (RenameInv /\ TreeClosed /\ DirInv)'
  BY RenameStep, ClosedStep, DirStep DEF RenameInv
<1>3. RenameInv /\ DirInv => RowsHaveDirectory
  BY NoOrphans DEF RenameInv, FuseForm, DirInv, Tidy, RowsHaveDirectory, Renaming
<1> QED
  BY <1>1, <1>2, <1>3, PTL DEF Spec
=============================================================================
