------------------------- MODULE AbstractSpecProofs -------------------------
(***************************************************************************)
(* Proofs about the two abstract specifications: VersionChain, for any     *)
(* transactions, values and times, and FreeLists (as Lists), for every set *)
(* of cells and of threads.                                                *)
(***************************************************************************)
EXTENDS VersionChain, SequenceTheorems, TLAPS

CONSTANTS Cell, Thread
VARIABLES shared, local, used

Lists == INSTANCE FreeLists

(* A step of a version list keeps every variable in its type.              *)
LEMMA TypeStep ==
  ASSUME ConstantsOK, TypeOK, [Next]_vars
  PROVE  TypeOK'
<1> USE DEF TypeOK, ConstantsOK
<1>1. ASSUME NEW t \in Trx, NEW v \in Value, Append_(t, v) PROVE TypeOK'
  BY <1>1 DEF Append_
<1>2. ASSUME NEW ts \in Time, Commit(ts) PROVE TypeOK'
  <2>1. [begin |-> ts, val |-> wval] \in Version
    BY DEF Version
  <2>2. versions' \in Seq(Version)
    BY <1>2, <2>1, AppendProperties DEF Commit
  <2> QED
    BY <1>2, <2>2 DEF Commit
<1>3. ASSUME Abort PROVE TypeOK'
  BY <1>3 DEF Abort
<1>4. ASSUME NEW n \in 1 .. Len(versions), Collect(n) PROVE TypeOK'
  <2>1. Len(versions) \in Nat
    BY LenProperties
  <2>2. \A i \in n + 1 .. Len(versions) : versions[i] \in Version
    BY <2>1, ElementOfSeq
  <2>3. SubSeq(versions, n + 1, Len(versions)) \in Seq(Version)
    BY <2>1, <2>2, SubSeqProperties
  <2> QED
    BY <1>4, <2>3 DEF Collect
<1>5. ASSUME RaiseFloor PROVE TypeOK'
  BY <1>5 DEF RaiseFloor
<1>6. ASSUME UNCHANGED vars PROVE TypeOK'
  BY <1>6 DEF vars
<1> QED
  BY <1>1, <1>2, <1>3, <1>4, <1>5, <1>6 DEF Next

(* TypeCorrect: the versions, the writer, its value and the floor always   *)
(* have their type (MVCCList with AppendVersion, CommitVersion, the scan). *)
THEOREM TypeCorrect ==
  ASSUME ConstantsOK
  PROVE  Spec => []TypeOK
<1>1. Init => TypeOK
  <2> SUFFICES ASSUME Init PROVE TypeOK
    OBVIOUS
  <2>1. versions \in Seq(Version)
    <3>1. CASE versions = <<>>
      BY <3>1, EmptySeq
    <3>2. ASSUME NEW v \in Value, versions = <<[begin |-> 0, val |-> v]>>
          PROVE  versions \in Seq(Version)
      <4>1. [begin |-> 0, val |-> v] \in Version
        BY DEF ConstantsOK, Version, Time
      <4> QED
        BY <3>2, <4>1
    <3> QED
      BY <3>1, <3>2 DEF Init
  <2> QED
    BY <2>1 DEF ConstantsOK, Init, TypeOK, Time
<1>2. TypeOK /\ [Next]_vars => TypeOK'
  BY TypeStep
<1> QED
  BY <1>1, <1>2, PTL DEF Spec

(* What a commit at ts makes of the versions.                              *)
LEMMA CommitShape ==
  ASSUME TypeOK, NEW ts \in Time, Commit(ts)
  PROVE  /\ Len(versions) \in Nat
         /\ Len(versions') = Len(versions) + 1
         /\ \A i \in 1 .. Len(versions) :
              versions'[i] = versions[i] /\ versions[i] \in Version
         /\ versions'[Len(versions) + 1] = [begin |-> ts, val |-> wval]
         /\ [begin |-> ts, val |-> wval] \in Version
<1>1. [begin |-> ts, val |-> wval] \in Version
  BY DEF TypeOK, Version
<1>2. /\ versions \in Seq(Version)
      /\ versions' = Append(versions, [begin |-> ts, val |-> wval])
  BY DEF TypeOK, Commit
<1>3. \A i \in 1 .. Len(versions) : versions[i] \in Version
  BY <1>2, ElementOfSeq
<1> QED
  BY <1>1, <1>2, <1>3, AppendProperties, LenProperties

(* What cutting off n versions leaves.                                     *)
LEMMA CollectShape ==
  ASSUME TypeOK, NEW n \in 1 .. Len(versions), Collect(n)
  PROVE  /\ Len(versions) \in Nat
         /\ \A i \in 1 .. Len(versions) : versions[i] \in Version
         /\ versions' \in Seq(Version)
         /\ Len(versions') = Len(versions) - n
         /\ \A i \in 1 .. Len(versions) - n : versions'[i] = versions[n + i]
<1>1. versions \in Seq(Version) /\ Len(versions) \in Nat
  BY LenProperties DEF TypeOK
<1>2. \A i \in 1 .. Len(versions) : versions[i] \in Version
  BY <1>1, ElementOfSeq
<1>3. \A i \in n + 1 .. Len(versions) : versions[i] \in Version
  BY <1>1, <1>2
<1>4. versions' = SubSeq(versions, n + 1, Len(versions))
  BY DEF Collect
<1> DEFINE rest == SubSeq(versions, n + 1, Len(versions))
<1>5. /\ rest \in Seq(Version)
      /\ Len(rest) = IF n + 1 <= Len(versions) THEN Len(versions) - (n + 1) + 1 ELSE 0
      /\ \A i \in 1 .. Len(versions) - (n + 1) + 1 : rest[i] = versions[(n + 1) + i - 1]
  BY <1>1, <1>3, SubSeqProperties
<1> HIDE DEF rest
<1>6. Len(rest) = Len(versions) - n
  BY <1>1, <1>5
<1>7. \A i \in 1 .. Len(versions) - n : rest[i] = versions[n + i]
  <2> TAKE i \in 1 .. Len(versions) - n
  <2>1. (n + 1) + i - 1 = n + i /\ i \in 1 .. Len(versions) - (n + 1) + 1
    BY <1>1
  <2> QED
    BY <1>5, <2>1
<1> QED
  BY <1>1, <1>2, <1>4, <1>5, <1>6, <1>7, SMTT(30) DEF rest

(* The steps that leave the committed versions alone.                      *)
LEMMA OtherSteps ==
  ASSUME [Next]_vars
  PROVE  \/ \E ts \in Time : Commit(ts)
         \/ \E n \in 1 .. Len(versions) : Collect(n)
         \/ versions' = versions
  BY DEF Next, vars, Append_, Abort, RaiseFloor

(* A step keeps the versions in the order of their commit times.           *)
LEMMA SortedStep ==
  ASSUME TypeOK, VersionsSorted, [Next]_vars
  PROVE  VersionsSorted'
<1> SUFFICES ASSUME NEW i \in 1 .. Len(versions'), NEW j \in 1 .. Len(versions'), i < j
             PROVE  versions'[i].begin < versions'[j].begin
  BY DEF VersionsSorted
<1>1. ASSUME NEW ts \in Time, Commit(ts)
      PROVE  versions'[i].begin < versions'[j].begin
  <2>1. CASE j \in 1 .. Len(versions)
    <3>1. i \in 1 .. Len(versions)
      BY <1>1, <2>1, CommitShape
    <3> QED
      BY <1>1, <2>1, <3>1, CommitShape, Zenon DEF VersionsSorted
  <2>2. CASE j = Len(versions) + 1
    <3>1. i \in 1 .. Len(versions)
      BY <1>1, <2>2, CommitShape
    <3>2. versions[i].begin < ts
      BY <1>1, <3>1 DEF Commit
    <3>3. versions'[i] = versions[i] /\ versions'[j] = [begin |-> ts, val |-> wval]
      BY <1>1, <2>2, <3>1, CommitShape
    <3> QED
      BY <3>2, <3>3
  <2>3. j \in 1 .. Len(versions) + 1 /\ Len(versions) \in Nat
    BY <1>1, CommitShape, Zenon
  <2> QED
    BY <2>1, <2>2, <2>3
<1>2. ASSUME NEW n \in 1 .. Len(versions), Collect(n)
      PROVE  versions'[i].begin < versions'[j].begin
  <2>1. /\ i \in 1 .. Len(versions) - n /\ j \in 1 .. Len(versions) - n
        /\ versions'[i] = versions[n + i] /\ versions'[j] = versions[n + j]
    BY <1>2, CollectShape
  <2>2. n + i \in 1 .. Len(versions) /\ n + j \in 1 .. Len(versions) /\ n + i < n + j
    BY <1>2, <2>1, CollectShape
  <2> QED
    BY <2>1, <2>2 DEF VersionsSorted
<1>3. CASE versions' = versions
  BY <1>3 DEF VersionsSorted
<1> QED
  BY <1>1, <1>2, <1>3, OtherSteps

(* VersionsAlwaysSorted: commits, aborts and the collector leave the       *)
(* versions in the order of their commit times (CommitVersion,             *)
(* scan_mvcc_list).                                                        *)
THEOREM VersionsAlwaysSorted ==
  ASSUME ConstantsOK
  PROVE  Spec => []VersionsSorted
<1>1. Init => VersionsSorted
  <2> SUFFICES ASSUME Init, NEW i \in 1 .. Len(versions), NEW j \in 1 .. Len(versions), i < j
               PROVE  FALSE
    BY DEF VersionsSorted
  <2>1. versions = <<>> \/ \E r : versions = <<r>>
    BY DEF Init
  <2>2. Len(versions) = 0 \/ Len(versions) = 1
    BY <2>1
  <2> DEFINE n == Len(versions)
  <2>3. (n = 0 \/ n = 1) /\ i \in 1 .. n /\ j \in 1 .. n
    BY <2>2
  <2> HIDE DEF n
  <2> QED
    BY <2>3
<1>2. TypeOK /\ VersionsSorted /\ [Next]_vars => VersionsSorted'
  BY SortedStep
<1>3. Spec => []TypeOK
  BY TypeCorrect
<1> QED
  BY <1>1, <1>2, <1>3, PTL DEF Spec

(* The version at position i is the one found at ts; nothing is found.     *)
At(vs, ts, i) ==
  /\ vs[i].begin <= ts
  /\ i = Len(vs) \/ ts < vs[i + 1].begin

Before(vs, ts) == vs = <<>> \/ ts < vs[1].begin

(* A commit at c leaves what is found before c alone, and is found from c  *)
(* on (CommitVersion).                                                     *)
LEMMA CommitFinds ==
  ASSUME ConstantsOK, TypeOK, NEW c \in Time, Commit(c), NEW ts \in Time, NEW v
  PROVE  /\ ts < c => (Finds(versions, ts, v) <=> Finds(versions', ts, v))
         /\ c <= ts => Finds(versions', ts, wval)
<1> DEFINE n == Len(versions)
           new == [begin |-> c, val |-> wval]
<1>1. /\ n \in Nat /\ Len(versions') = n + 1
      /\ \A i \in 1 .. n : versions'[i] = versions[i] /\ versions[i] \in Version
      /\ versions'[n + 1] = new
      /\ c \in Int /\ ts \in Int
  BY CommitShape DEF ConstantsOK, Time
<1>2. (versions = <<>> <=> n = 0) /\ versions' # <<>>
  <2>1. versions \in Seq(Version)
    BY DEF TypeOK
  <2>2. versions' = Append(versions, new)
    BY DEF Commit
  <2> QED
    BY <2>1, <2>2, EmptySeq, AppendProperties, <1>1
<1>3. \A i \in 1 .. n : versions[i].begin < c /\ versions[i].begin \in Int
  BY <1>1 DEF ConstantsOK, Commit, Version, Time
<1>4. new.begin = c /\ new.val = wval
  OBVIOUS
<1> HIDE DEF n, new
<1>5. ASSUME c <= ts PROVE Finds(versions', ts, wval)
  <2>1. n + 1 \in 1 .. n + 1
    BY <1>1
  <2> QED
    BY <1>1, <1>4, <1>5, <2>1 DEF Finds
<1>6. ASSUME ts < c
      PROVE  Finds(versions, ts, v) <=> Finds(versions', ts, v)
  <2>1. \A i \in 1 .. n : At(versions, ts, i) <=> At(versions', ts, i)
    <3> TAKE i \in 1 .. n
    <3>1. CASE i = n
      <4>1. versions'[i + 1].begin = c /\ versions'[i] = versions[i]
        BY <1>1, <1>4, <3>1
      <4> QED
        BY <1>1, <1>6, <3>1, <4>1 DEF At, n
    <3>2. CASE i # n
      <4>1. i + 1 \in 1 .. n /\ i # n + 1
        BY <1>1, <3>2
      <4>2. versions'[i + 1] = versions[i + 1] /\ versions'[i] = versions[i]
        BY <1>1, <4>1
      <4> QED
        BY <1>1, <3>2, <4>1, <4>2 DEF At, n
    <3> QED
      BY <3>1, <3>2
  <2>2. ~ At(versions', ts, n + 1)
    BY <1>1, <1>4, <1>6 DEF At
  <2>3. Before(versions, ts) <=> Before(versions', ts)
    <3>1. CASE n = 0
      <4>1. versions'[1].begin = c
        BY <1>1, <1>4, <3>1
      <4> QED
        BY <1>2, <1>6, <3>1, <4>1 DEF Before
    <3>2. CASE n # 0
      <4>1. 1 \in 1 .. n
        BY <1>1, <3>2
      <4> QED
        BY <1>1, <1>2, <3>2, <4>1 DEF Before
    <3> QED
      BY <3>1, <3>2
  <2>4. ASSUME Finds(versions, ts, v) PROVE Finds(versions', ts, v)
    <3>1. CASE Before(versions, ts) /\ v = Empty
      BY <2>3, <3>1 DEF Finds, Before
    <3>2. ASSUME NEW i \in 1 .. n, At(versions, ts, i), v = versions[i].val
          PROVE  Finds(versions', ts, v)
      <4>1. At(versions', ts, i) /\ v = versions'[i].val /\ i \in 1 .. Len(versions')
        BY <1>1, <2>1, <3>2
      <4> QED
        BY <4>1 DEF Finds, At
    <3> QED
      BY <2>4, <3>1, <3>2 DEF Finds, At, Before, n
  <2>5. ASSUME Finds(versions', ts, v) PROVE Finds(versions, ts, v)
    <3>1. CASE Before(versions', ts) /\ v = Empty
      BY <2>3, <3>1 DEF Finds, Before
    <3>2. ASSUME NEW i \in 1 .. Len(versions'), At(versions', ts, i), v = versions'[i].val
          PROVE  Finds(versions, ts, v)
      <4>1. i \in 1 .. n
        BY <1>1, <2>2, <3>2
      <4>2. At(versions, ts, i) /\ v = versions[i].val
        BY <1>1, <2>1, <3>2, <4>1
      <4> QED
        BY <4>1, <4>2 DEF Finds, At, n
    <3> QED
      BY <2>5, <3>1, <3>2 DEF Finds, At, Before
  <2> QED
    BY <2>4, <2>5
<1> QED
  BY <1>5, <1>6

(* No begin time finds two values in a sorted list.                        *)
LEMMA SortedFindsOne ==
  ASSUME ConstantsOK, TypeOK, VersionsSorted, NEW ts \in Time, NEW u, NEW v,
         Finds(versions, ts, u), Finds(versions, ts, v)
  PROVE  u = v
<1> DEFINE n == Len(versions)
<1>1. n \in Nat /\ ts \in Int
  BY LenProperties DEF ConstantsOK, TypeOK, Time
<1>2. \A i \in 1 .. n : versions[i].begin \in Int
  <2>1. \A i \in 1 .. n : versions[i] \in Version
    BY ElementOfSeq DEF TypeOK
  <2> QED
    BY <2>1 DEF ConstantsOK, Version, Time
<1>3. \A i, j \in 1 .. n : i < j => versions[i].begin < versions[j].begin
  BY DEF VersionsSorted
<1>4. versions = <<>> => n = 0
  BY EmptySeq
<1>5. Finds(versions, ts, u) /\ Finds(versions, ts, v)
  OBVIOUS
<1> HIDE DEF n
<1>6. \A i \in 1 .. n : ~ (At(versions, ts, i) /\ Before(versions, ts))
  <2> SUFFICES ASSUME NEW i \in 1 .. n, At(versions, ts, i), Before(versions, ts)
               PROVE  FALSE
    OBVIOUS
  <2>1. 1 \in 1 .. n /\ n # 0
    BY <1>1
  <2>2. versions[1].begin <= versions[i].begin
    BY <1>1, <1>2, <1>3, <2>1
  <2>3. ts < versions[1].begin /\ versions[i].begin <= ts
    BY <1>4, <2>1 DEF Before, At
  <2> QED
    BY <1>1, <1>2, <2>1, <2>2, <2>3
<1>7. \A i, j \in 1 .. n : i < j => ~ (At(versions, ts, i) /\ At(versions, ts, j))
  <2> SUFFICES ASSUME NEW i \in 1 .. n, NEW j \in 1 .. n, i < j,
                      At(versions, ts, i), At(versions, ts, j)
               PROVE  FALSE
    OBVIOUS
  <2>1. i + 1 \in 1 .. n /\ i # n
    BY <1>1
  <2>2. versions[i + 1].begin <= versions[j].begin
    BY <1>1, <1>2, <1>3, <2>1
  <2>3. ts < versions[i + 1].begin /\ versions[j].begin <= ts
    BY <2>1 DEF At, n
  <2> QED
    BY <1>1, <1>2, <2>1, <2>2, <2>3
<1>8. \A i, j \in 1 .. n : At(versions, ts, i) /\ At(versions, ts, j) => i = j
  BY <1>1, <1>7
<1>9. \A x : Finds(versions, ts, x) <=>
        \/ \E i \in 1 .. n : At(versions, ts, i) /\ x = versions[i].val
        \/ Before(versions, ts) /\ x = Empty
  BY DEF Finds, At, Before, n
<1> QED
  BY <1>5, <1>6, <1>8, <1>9

(* Every begin time finds a value.                                         *)
SomeAnswer == \A ts \in Time : \E v \in Value : Finds(versions, ts, v)

(* A step leaves every begin time a value: a commit is found from its time *)
(* on, and what the collector leaves starts with a version too young or    *)
(* holds the one that was found.                                           *)
LEMMA SomeAnswerStep ==
  ASSUME ConstantsOK, TypeOK, VersionsSorted, SomeAnswer, [Next]_vars
  PROVE  SomeAnswer'
<1> SUFFICES ASSUME NEW ts \in Time PROVE \E v \in Value : Finds(versions', ts, v)
  BY DEF SomeAnswer
<1>0. ts \in Int
  BY DEF ConstantsOK, Time
<1>1. ASSUME NEW c \in Time, Commit(c)
      PROVE  \E v \in Value : Finds(versions', ts, v)
  <2>1. CASE c <= ts
    BY <1>1, <2>1, CommitFinds DEF TypeOK
  <2>2. CASE ts < c
    <3>1. PICK v \in Value : Finds(versions, ts, v)
      BY DEF SomeAnswer
    <3> QED
      BY <1>1, <2>2, <3>1, CommitFinds
  <2> QED
    BY <1>0, <2>1, <2>2 DEF ConstantsOK, Time
<1>2. ASSUME NEW n \in 1 .. Len(versions), Collect(n)
      PROVE  \E v \in Value : Finds(versions', ts, v)
  <2> DEFINE len == Len(versions)
             rest == versions'
  <2>1. /\ len \in Nat /\ n \in 1 .. len
        /\ \A i \in 1 .. len : versions[i] \in Version
        /\ Len(rest) = len - n
        /\ \A i \in 1 .. len - n : rest[i] = versions[n + i]
        /\ rest \in Seq(Version)
    BY <1>2, CollectShape
  <2>2. \A i \in 1 .. len : versions[i].begin \in Int
    BY <2>1 DEF ConstantsOK, Version, Time
  <2>3. \A i, j \in 1 .. len : i < j => versions[i].begin < versions[j].begin
    BY DEF VersionsSorted
  <2>4. PICK v \in Value : Finds(versions, ts, v)
    BY DEF SomeAnswer
  <2>5. rest = <<>> <=> len = n
    BY <2>1, EmptySeq
  <2>6. Finds(versions, ts, v) <=>
          \/ \E i \in 1 .. len : At(versions, ts, i) /\ v = versions[i].val
          \/ Before(versions, ts) /\ v = Empty
    BY DEF Finds, At, Before
  <2>7. len # 0 /\ versions # <<>>
    BY <2>1, EmptySeq
  <2> HIDE DEF len, rest
  <2>8. CASE Before(rest, ts)
    BY <2>8 DEF ConstantsOK, Finds, Before, rest
  <2>9. CASE ~ Before(rest, ts)
    <3>1. len # n /\ rest[1] = versions[n + 1] /\ n + 1 \in 1 .. len /\ 1 \in 1 .. len
      BY <2>1, <2>5, <2>9 DEF Before
    <3>2. ~ (ts < versions[n + 1].begin)
      BY <2>9, <3>1 DEF Before
    <3>3. ~ Before(versions, ts)
      <4>1. versions[1].begin < versions[n + 1].begin
        BY <2>1, <2>3, <3>1
      <4> QED
        BY <1>0, <2>2, <2>7, <3>1, <3>2, <4>1 DEF Before
    <3>4. PICK i \in 1 .. len : At(versions, ts, i) /\ v = versions[i].val
      BY <2>4, <2>6, <3>3
    <3>5. i > n
      <4> SUFFICES ASSUME i <= n PROVE FALSE
        BY <2>1
      <4>1. i # len /\ i + 1 \in 1 .. len /\ i + 1 <= n + 1
        BY <2>1, <3>1
      <4>2. ts < versions[i + 1].begin
        BY <3>4, <4>1 DEF At, len
      <4>3. i + 1 = n + 1 \/ versions[i + 1].begin < versions[n + 1].begin
        BY <2>1, <2>3, <3>1, <4>1
      <4> QED
        BY <1>0, <2>2, <3>1, <3>2, <4>1, <4>2, <4>3
    <3>6. i - n \in 1 .. len - n /\ rest[i - n] = versions[i]
      <4>1. i - n \in 1 .. len - n /\ n + (i - n) = i
        BY <2>1, <3>5
      <4> QED
        BY <2>1, <4>1
    <3>7. i - n = Len(rest) \/ ts < rest[(i - n) + 1].begin
      <4>1. CASE i = len
        BY <2>1, <4>1
      <4>2. CASE i # len
        <5>1. (i - n) + 1 \in 1 .. len - n /\ n + ((i - n) + 1) = i + 1
          BY <2>1, <3>5, <4>2
        <5>2. rest[(i - n) + 1] = versions[i + 1]
          BY <2>1, <5>1
        <5> QED
          BY <3>4, <4>2, <5>2 DEF At, len
      <4> QED
        BY <4>1, <4>2
    <3>8. rest[i - n].begin <= ts /\ v = rest[i - n].val /\ i - n \in 1 .. Len(rest)
      BY <2>1, <3>4, <3>6 DEF At
    <3>9. Finds(rest, ts, v)
      BY <3>7, <3>8 DEF Finds
    <3> QED
      BY <3>9 DEF rest
  <2> QED
    BY <2>8, <2>9
<1>3. CASE versions' = versions
  BY <1>3 DEF SomeAnswer, Finds
<1> QED
  BY <1>1, <1>2, <1>3, OtherSteps

(* AlwaysOneAnswer: at every begin time a transaction finds exactly one    *)
(* value, whatever was committed, aborted or collected (the walk of        *)
(* SnapshotLevelGetVisibleVersion is determined by its begin time).        *)
THEOREM AlwaysOneAnswer ==
  ASSUME ConstantsOK
  PROVE  Spec => []OneAnswer
<1>1. Init => SomeAnswer
  <2> SUFFICES ASSUME Init, NEW ts \in Time PROVE \E v \in Value : Finds(versions, ts, v)
    BY DEF SomeAnswer
  <2>1. CASE versions = <<>>
    BY <2>1 DEF ConstantsOK, Finds
  <2>2. ASSUME NEW v \in Value, versions = <<[begin |-> 0, val |-> v]>>
        PROVE  \E u \in Value : Finds(versions, ts, u)
    <3>1. Len(versions) = 1 /\ versions[1].begin = 0 /\ versions[1].val = v
      BY <2>2
    <3>2. 1 \in 1 .. Len(versions) /\ 0 <= ts
      BY <3>1 DEF ConstantsOK, Time
    <3> QED
      BY <3>1, <3>2 DEF Finds
  <2> QED
    BY <2>1, <2>2 DEF Init
<1>2. TypeOK /\ VersionsSorted /\ SomeAnswer /\ [Next]_vars => SomeAnswer'
  BY SomeAnswerStep
<1>3. TypeOK /\ VersionsSorted /\ SomeAnswer => OneAnswer
  BY SortedFindsOne DEF OneAnswer, SomeAnswer
<1>4. Spec => []TypeOK
  BY TypeCorrect
<1>5. Spec => []VersionsSorted
  BY VersionsAlwaysSorted
<1> QED
  BY <1>1, <1>2, <1>3, <1>4, <1>5, PTL DEF Spec

-----------------------------------------------------------------------------
(* FreeLists.  The lists are taken apart into the sets of their cells (SeqCells); *)
(* after that a step is an argument about disjoint sets.                          *)

(* Two lists have no cell in common when their sets have none. *)
LEMMA DisjointSets ==
  ASSUME NEW s, NEW r
  PROVE  Lists!Disjoint(s, r) <=> Lists!SeqCells(s) \cap Lists!SeqCells(r) = {}
BY Zenon DEF Lists!Disjoint, Lists!SeqCells

(* Joining two lists that share no cell gives one without repetition. *)
LEMMA Joined ==
  ASSUME NEW S, NEW s \in Seq(S), NEW r \in Seq(S)
  PROVE  /\ s \o r \in Seq(S) /\ Len(s \o r) = Len(s) + Len(r)
         /\ Lists!SeqCells(s \o r) = Lists!SeqCells(s) \cup Lists!SeqCells(r)
         /\ Lists!NoRepeat(s) /\ Lists!NoRepeat(r) /\ Lists!SeqCells(s) \cap Lists!SeqCells(r) = {} => Lists!NoRepeat(s \o r)
<1>0. /\ s \o r \in Seq(S) /\ Len(s \o r) = Len(s) + Len(r)
      /\ Len(s) \in Nat /\ Len(r) \in Nat
      /\ \A i \in 1 .. Len(s) + Len(r) : (s \o r)[i] = IF i <= Len(s) THEN s[i] ELSE r[i - Len(s)]
  BY ConcatProperties, LenProperties
<1> DEFINE q == s \o r
<1> HIDE DEF q
<1>1. Lists!SeqCells(q) = Lists!SeqCells(s) \cup Lists!SeqCells(r)
  <2>1. ASSUME NEW i \in 1 .. Len(q)
        PROVE  q[i] \in Lists!SeqCells(s) \cup Lists!SeqCells(r)
    <3>1. CASE i <= Len(s)
      BY <1>0, <3>1 DEF q, Lists!SeqCells
    <3>2. CASE ~(i <= Len(s))
      <4>1. q[i] = r[i - Len(s)] /\ i - Len(s) \in 1 .. Len(r)
        BY <1>0, <3>2 DEF q
      <4> QED
        BY <4>1 DEF Lists!SeqCells
    <3> QED
      BY <3>1, <3>2
  <2>2. ASSUME NEW i \in 1 .. Len(s)
        PROVE  s[i] \in Lists!SeqCells(q)
    <3>1. i \in 1 .. Len(q) /\ q[i] = s[i]
      BY <1>0 DEF q
    <3> QED
      BY <3>1 DEF Lists!SeqCells
  <2>3. ASSUME NEW i \in 1 .. Len(r)
        PROVE  r[i] \in Lists!SeqCells(q)
    <3>1. Len(s) + i \in 1 .. Len(q) /\ q[Len(s) + i] = r[i]
      BY <1>0 DEF q
    <3> QED
      BY <3>1 DEF Lists!SeqCells
  <2> QED
    BY <2>1, <2>2, <2>3, Zenon DEF Lists!SeqCells
<1>2. ASSUME Lists!NoRepeat(s), Lists!NoRepeat(r), Lists!SeqCells(s) \cap Lists!SeqCells(r) = {},
             NEW i \in 1 .. Len(q), NEW j \in 1 .. Len(q), q[i] = q[j]
      PROVE  i = j
  <2>0. ASSUME NEW a \in 1 .. Len(q), NEW b \in 1 .. Len(q), a <= Len(s), ~(b <= Len(s)), q[a] = q[b]
        PROVE  FALSE
    <3>1. q[a] = s[a] /\ q[b] = r[b - Len(s)] /\ a \in 1 .. Len(s) /\ b - Len(s) \in 1 .. Len(r)
      BY <1>0, <2>0 DEF q
    <3> QED
      BY <1>2, <2>0, <3>1, Zenon DEF Lists!SeqCells
  <2>1. CASE i <= Len(s) /\ j <= Len(s)
    BY <1>0, <1>2, <2>1 DEF q, Lists!NoRepeat
  <2>2. CASE ~(i <= Len(s)) /\ ~(j <= Len(s))
    <3>1. /\ q[i] = r[i - Len(s)] /\ i - Len(s) \in 1 .. Len(r)
          /\ q[j] = r[j - Len(s)] /\ j - Len(s) \in 1 .. Len(r)
      BY <1>0, <2>2 DEF q
    <3>2. i - Len(s) = j - Len(s)
      BY <1>2, <3>1, Zenon DEF Lists!NoRepeat
    <3> QED
      BY <1>0, <3>2
  <2> QED
    BY <1>2, <2>0, <2>1, <2>2
<1> QED
  BY <1>0, <1>1, <1>2 DEF q, Lists!NoRepeat

(* Cutting a list without repetition gives two that share no cell. *)
LEMMA Parted ==
  ASSUME NEW S, NEW s \in Seq(S), NEW k \in 0 .. Len(s)
  PROVE  /\ Lists!Prefix(s, k) \in Seq(S) /\ Len(Lists!Prefix(s, k)) = k
         /\ Lists!Rest(s, k) \in Seq(S) /\ Len(Lists!Rest(s, k)) = Len(s) - k
         /\ Lists!SeqCells(s) = Lists!SeqCells(Lists!Prefix(s, k)) \cup Lists!SeqCells(Lists!Rest(s, k))
         /\ Lists!NoRepeat(s) => /\ Lists!NoRepeat(Lists!Prefix(s, k)) /\ Lists!NoRepeat(Lists!Rest(s, k))
                           /\ Lists!SeqCells(Lists!Prefix(s, k)) \cap Lists!SeqCells(Lists!Rest(s, k)) = {}
<1> DEFINE p == Lists!Prefix(s, k)
           q == Lists!Rest(s, k)
<1>0. Len(s) \in Nat /\ k \in Nat
  BY LenProperties
<1>1. p \in Seq(S) /\ Len(p) = k /\ \A i \in 1 .. k : p[i] = s[i]
  BY <1>0 DEF Lists!Prefix
<1>2. q \in Seq(S) /\ Len(q) = Len(s) - k /\ \A i \in 1 .. Len(s) - k : q[i] = s[k + i]
  BY <1>0 DEF Lists!Rest
<1> HIDE DEF p, q
<1>3. Lists!SeqCells(s) = Lists!SeqCells(p) \cup Lists!SeqCells(q)
  <2>1. ASSUME NEW i \in 1 .. Len(s)
        PROVE  s[i] \in Lists!SeqCells(p) \cup Lists!SeqCells(q)
    <3>1. CASE i <= k
      BY <1>0, <1>1, <3>1 DEF Lists!SeqCells
    <3>2. CASE ~(i <= k)
      <4>1. i - k \in 1 .. Len(q) /\ q[i - k] = s[i]
        BY <1>0, <1>2, <3>2
      <4> QED
        BY <4>1 DEF Lists!SeqCells
    <3> QED
      BY <3>1, <3>2
  <2>2. ASSUME NEW i \in 1 .. Len(p)
        PROVE  p[i] \in Lists!SeqCells(s)
    BY <1>0, <1>1 DEF Lists!SeqCells
  <2>3. ASSUME NEW i \in 1 .. Len(q)
        PROVE  q[i] \in Lists!SeqCells(s)
    <3>1. k + i \in 1 .. Len(s) /\ q[i] = s[k + i]
      BY <1>0, <1>2
    <3> QED
      BY <3>1 DEF Lists!SeqCells
  <2> QED
    BY <2>1, <2>2, <2>3, Zenon DEF Lists!SeqCells
<1>4. ASSUME Lists!NoRepeat(s)
      PROVE  Lists!NoRepeat(p) /\ Lists!NoRepeat(q) /\ Lists!SeqCells(p) \cap Lists!SeqCells(q) = {}
  <2>1. Lists!NoRepeat(p)
    BY <1>0, <1>1, <1>4 DEF Lists!NoRepeat
  <2>2. Lists!NoRepeat(q)
    <3> SUFFICES ASSUME NEW i \in 1 .. Len(q), NEW j \in 1 .. Len(q), q[i] = q[j]
                 PROVE  i = j
      BY DEF Lists!NoRepeat
    <3>1. k + i \in 1 .. Len(s) /\ k + j \in 1 .. Len(s) /\ s[k + i] = s[k + j]
      BY <1>0, <1>2
    <3>2. k + i = k + j
      BY <1>4, <3>1 DEF Lists!NoRepeat
    <3> QED
      BY <1>0, <3>2
  <2>3. ASSUME NEW i \in 1 .. Len(p), NEW j \in 1 .. Len(q), p[i] = q[j]
        PROVE  FALSE
    <3>1. i \in 1 .. Len(s) /\ k + j \in 1 .. Len(s) /\ s[i] = s[k + j] /\ i <= k /\ j >= 1
      BY <1>0, <1>1, <1>2, <2>3
    <3>2. i = k + j
      BY <1>4, <3>1 DEF Lists!NoRepeat
    <3> QED
      BY <1>0, <3>1, <3>2
  <2> QED
    BY <2>1, <2>2, <2>3 DEF Lists!SeqCells
<1> QED
  BY <1>1, <1>2, <1>3, <1>4 DEF p, q

-----------------------------------------------------------------------------
(* NoCellTwice in terms of the sets of cells. *)
LEMMA AsSets ==
  Lists!NoCellTwice <=>
    /\ Lists!NoRepeat(shared)
    /\ \A t \in Thread : Lists!NoRepeat(local[t]) /\ Lists!SeqCells(local[t]) \cap Lists!SeqCells(shared) = {}
    /\ \A t, u \in Thread : t # u => Lists!SeqCells(local[t]) \cap Lists!SeqCells(local[u]) = {}
    /\ \A r \in used : /\ r # <<>> /\ Lists!NoRepeat(r) /\ Lists!SeqCells(r) \cap Lists!SeqCells(shared) = {}
                       /\ \A t \in Thread : Lists!SeqCells(r) \cap Lists!SeqCells(local[t]) = {}
    /\ \A r, s \in used : r # s => Lists!SeqCells(r) \cap Lists!SeqCells(s) = {}
BY DisjointSets, Zenon DEF Lists!NoCellTwice

(* Every action deals the cells D of the shared list, of the lists of T    *)
(* (one thread or none) and of the runs Gone out anew, to the shared list  *)
(* s, the list m of T and the run in Come, if there is one.                *)
Locals(T) == UNION {Lists!SeqCells(local[u]) : u \in T}

Runs(R) == UNION {Lists!SeqCells(r) : r \in R}

Dealt(T, Gone) == Lists!SeqCells(shared) \cup Locals(T) \cup Runs(Gone)

LEMMA InLocals ==
  ASSUME NEW T, NEW c
  PROVE  c \in Locals(T) <=> \E u \in T : c \in Lists!SeqCells(local[u])
BY DEF Locals

LEMMA InRuns ==
  ASSUME NEW R, NEW c
  PROVE  c \in Runs(R) <=> \E r \in R : c \in Lists!SeqCells(r)
BY DEF Runs

LEMMA InDealt ==
  ASSUME NEW T, NEW Gone, NEW c
  PROVE  c \in Dealt(T, Gone) <=> \/ c \in Lists!SeqCells(shared)
                                  \/ \E u \in T : c \in Lists!SeqCells(local[u])
                                  \/ \E r \in Gone : c \in Lists!SeqCells(r)
BY InLocals, InRuns DEF Dealt

LEMMA InAllCells ==
  ASSUME NEW c
  PROVE  c \in Lists!AllCells <=> \/ c \in Lists!SeqCells(shared)
                                  \/ \E u \in Thread : c \in Lists!SeqCells(local[u])
                                  \/ \E r \in used : c \in Lists!SeqCells(r)
<1>1. Lists!AllCells = Dealt(Thread, used)
  BY DEF Lists!AllCells, Dealt, Locals, Runs
<1> QED
  BY <1>1, InDealt

DealtTo(T, Gone, Come, s, m) ==
  /\ T \subseteq Thread /\ Gone \subseteq used /\ Come \subseteq Seq(Cell)
  /\ s \in Seq(Cell) /\ m \in Seq(Cell)
  /\ \A u, v \in T : u = v
  /\ \A g, h \in Come : g = h
  /\ shared' = s
  /\ local' = [u \in Thread |-> IF u \in T THEN m ELSE local[u]]
  /\ used' = (used \ Gone) \cup Come
  /\ Lists!NoRepeat(s) /\ Lists!NoRepeat(m)
  /\ \A g \in Come : g # <<>> /\ Lists!NoRepeat(g)
  /\ Lists!SeqCells(s) \cap Lists!SeqCells(m) = {}
  /\ \A g \in Come : Lists!SeqCells(g) \cap (Lists!SeqCells(s) \cup Lists!SeqCells(m)) = {}
  /\ T = {} => m = <<>>
  /\ Lists!SeqCells(s) \cup Lists!SeqCells(m) \cup Runs(Come) = Dealt(T, Gone)

LEMMA DealtAnew ==
  ASSUME Lists!TypeOK, Lists!NoCellTwice, NEW T, NEW Gone, NEW Come, NEW s, NEW m, DealtTo(T, Gone, Come, s, m)
  PROVE  Lists!TypeOK' /\ Lists!NoCellTwice' /\ Lists!AllCells' = Lists!AllCells
<1> USE DEF DealtTo
<1> DEFINE D == Dealt(T, Gone)
<1>0. /\ local' \in [Thread -> Seq(Cell)]
      /\ \A u \in T : local'[u] = m
      /\ \A u \in Thread \ T : local'[u] = local[u]
  BY DEF Lists!TypeOK
<1>1. Lists!TypeOK'
  BY <1>0 DEF Lists!TypeOK
<1>2. \A u \in Thread \ T : Lists!SeqCells(local[u]) \cap D = {} /\ Lists!NoRepeat(local[u])
  <2> SUFFICES ASSUME NEW u \in Thread \ T
               PROVE  Lists!SeqCells(local[u]) \cap D = {} /\ Lists!NoRepeat(local[u])
    OBVIOUS
  <2>1. Lists!SeqCells(local[u]) \cap Lists!SeqCells(shared) = {} /\ Lists!NoRepeat(local[u])
    BY AsSets
  <2>2. \A v \in T : Lists!SeqCells(local[u]) \cap Lists!SeqCells(local[v]) = {}
    BY AsSets
  <2>3. \A r \in Gone : Lists!SeqCells(local[u]) \cap Lists!SeqCells(r) = {}
    BY AsSets
  <2>4. ASSUME NEW c \in D, c \in Lists!SeqCells(local[u])
        PROVE  FALSE
    <3>1. \/ c \in Lists!SeqCells(shared) \/ \E v \in T : c \in Lists!SeqCells(local[v])
          \/ \E r \in Gone : c \in Lists!SeqCells(r)
      BY InDealt
    <3> QED
      BY <2>1, <2>2, <2>3, <2>4, <3>1
  <2> HIDE DEF D
  <2> QED
    BY <2>1, <2>4
<1>3. \A q \in used \ Gone : Lists!SeqCells(q) \cap D = {} /\ q # <<>> /\ Lists!NoRepeat(q)
  <2> SUFFICES ASSUME NEW q \in used \ Gone
               PROVE  Lists!SeqCells(q) \cap D = {} /\ q # <<>> /\ Lists!NoRepeat(q)
    OBVIOUS
  <2>1. Lists!SeqCells(q) \cap Lists!SeqCells(shared) = {} /\ q # <<>> /\ Lists!NoRepeat(q)
    BY AsSets
  <2>2. \A v \in T : Lists!SeqCells(q) \cap Lists!SeqCells(local[v]) = {}
    BY AsSets
  <2>3. \A r \in Gone : Lists!SeqCells(q) \cap Lists!SeqCells(r) = {}
    BY AsSets
  <2>4. ASSUME NEW c \in D, c \in Lists!SeqCells(q)
        PROVE  FALSE
    <3>1. \/ c \in Lists!SeqCells(shared) \/ \E v \in T : c \in Lists!SeqCells(local[v])
          \/ \E r \in Gone : c \in Lists!SeqCells(r)
      BY InDealt
    <3> QED
      BY <2>1, <2>2, <2>3, <2>4, <3>1
  <2> HIDE DEF D
  <2> QED
    BY <2>1, <2>4
<1>4. /\ Lists!SeqCells(s) \subseteq D /\ Lists!SeqCells(m) \subseteq D
      /\ \A g \in Come : Lists!SeqCells(g) \subseteq D
  BY InRuns
<1>5. /\ \A u, v \in Thread : u # v => Lists!SeqCells(local[u]) \cap Lists!SeqCells(local[v]) = {}
      /\ \A r \in used : \A u \in Thread : Lists!SeqCells(r) \cap Lists!SeqCells(local[u]) = {}
      /\ \A r, q \in used : r # q => Lists!SeqCells(r) \cap Lists!SeqCells(q) = {}
  BY AsSets, Zenon
<1>6. Lists!AllCells' = Lists!AllCells
  <2> DEFINE Kept(c) == \/ \E u \in Thread \ T : c \in Lists!SeqCells(local[u])
                        \/ \E r \in used \ Gone : c \in Lists!SeqCells(r)
  <2>1. \A c : c \in Lists!AllCells <=> c \in D \/ Kept(c)
    <3> SUFFICES ASSUME NEW c
                 PROVE  c \in Lists!AllCells <=> c \in D \/ Kept(c)
      OBVIOUS
    <3>1. c \in D <=> \/ c \in Lists!SeqCells(shared) \/ \E v \in T : c \in Lists!SeqCells(local[v])
                      \/ \E r \in Gone : c \in Lists!SeqCells(r)
      BY InDealt
    <3>2. c \in Lists!AllCells <=> \/ c \in Lists!SeqCells(shared) \/ \E v \in Thread : c \in Lists!SeqCells(local[v])
                                   \/ \E r \in used : c \in Lists!SeqCells(r)
      BY InAllCells
    <3> HIDE DEF D
    <3> QED
      BY <3>1, <3>2
  <2> HIDE DEF D
  <2>2. \A c : c \in D <=> \/ c \in Lists!SeqCells(s) \/ c \in Lists!SeqCells(m)
                           \/ \E g \in Come : c \in Lists!SeqCells(g)
    BY InRuns DEF D
  <2>3. \A c \in Lists!SeqCells(m) : \E u \in Thread : c \in Lists!SeqCells(local'[u])
    <3>1. CASE T = {}
      BY <3>1 DEF Lists!SeqCells
    <3>2. CASE T # {}
      BY <1>0, <3>2
    <3> QED
      BY <3>1, <3>2
  <2>4. \A c : c \in Lists!AllCells' <=> \/ c \in Lists!SeqCells(s)
                                         \/ \E u \in Thread : c \in Lists!SeqCells(local'[u])
                                         \/ \E r \in (used \ Gone) \cup Come : c \in Lists!SeqCells(r)
    <3>1. \A c : c \in Lists!AllCells' <=> \/ c \in Lists!SeqCells(shared')
                                           \/ \E u \in Thread : c \in Lists!SeqCells(local'[u])
                                           \/ \E r \in used' : c \in Lists!SeqCells(r)
      <4>1. Lists!AllCells' = Lists!SeqCells(shared') \cup (UNION {Lists!SeqCells(local'[u]) : u \in Thread}) \cup Runs(used')
        BY DEF Lists!AllCells, Runs
      <4>2. \A c : c \in UNION {Lists!SeqCells(local'[u]) : u \in Thread}
                     <=> \E u \in Thread : c \in Lists!SeqCells(local'[u])
        BY Zenon
      <4> QED
        BY <4>1, <4>2, InRuns
    <3> QED
      BY <3>1
  <2>5. \A c : c \in Lists!AllCells' <=> c \in D \/ Kept(c)
    BY <1>0, <2>2, <2>3, <2>4
  <2> QED
    BY <2>1, <2>5, Zenon
<1> HIDE DEF D
<1>7. Lists!NoCellTwice'
  <2>1. \A u \in Thread : Lists!NoRepeat(local'[u]) /\ Lists!SeqCells(local'[u]) \cap Lists!SeqCells(shared') = {}
    BY <1>0, <1>2, <1>4
  <2>2. \A u, v \in Thread : u # v => Lists!SeqCells(local'[u]) \cap Lists!SeqCells(local'[v]) = {}
    <3> SUFFICES ASSUME NEW u \in Thread, NEW v \in Thread, u # v
                 PROVE  Lists!SeqCells(local'[u]) \cap Lists!SeqCells(local'[v]) = {}
      OBVIOUS
    <3>1. CASE u \in T
      BY <1>0, <1>2, <1>4, <3>1, SMTT(30)
    <3>2. CASE v \in T
      BY <1>0, <1>2, <1>4, <3>2
    <3>3. CASE u \notin T /\ v \notin T
      BY <1>0, <1>5, <3>3, Zenon
    <3> QED
      BY <3>1, <3>2, <3>3
  <2>3. \A r \in used' : /\ r # <<>> /\ Lists!NoRepeat(r) /\ Lists!SeqCells(r) \cap Lists!SeqCells(shared') = {}
                         /\ \A u \in Thread : Lists!SeqCells(r) \cap Lists!SeqCells(local'[u]) = {}
    <3> SUFFICES ASSUME NEW r \in used'
                 PROVE  /\ r # <<>> /\ Lists!NoRepeat(r) /\ Lists!SeqCells(r) \cap Lists!SeqCells(shared') = {}
                        /\ \A u \in Thread : Lists!SeqCells(r) \cap Lists!SeqCells(local'[u]) = {}
      OBVIOUS
    <3>1. CASE r \in Come
      BY <1>0, <1>2, <1>4, <3>1, SMTT(30)
    <3>2. CASE r \in used \ Gone
      <4>1. r # <<>> /\ Lists!NoRepeat(r) /\ Lists!SeqCells(r) \cap Lists!SeqCells(shared') = {}
        BY <1>3, <1>4, <3>2
      <4>2. \A u \in T : Lists!SeqCells(r) \cap Lists!SeqCells(local'[u]) = {}
        BY <1>0, <1>3, <1>4, <3>2, SMTT(30)
      <4>3. \A u \in Thread \ T : Lists!SeqCells(r) \cap Lists!SeqCells(local'[u]) = {}
        BY <1>0, <1>5, <3>2, SMTT(30)
      <4> QED
        BY <4>1, <4>2, <4>3
    <3> QED
      BY <3>1, <3>2
  <2>4. \A r, q \in used' : r # q => Lists!SeqCells(r) \cap Lists!SeqCells(q) = {}
    BY <1>3, <1>4, <1>5
  <2> QED
    BY <2>1, <2>2, <2>3, <2>4, DisjointSets, ZenonT(30) DEF Lists!NoCellTwice
<1> QED
  BY <1>1, <1>6, <1>7

-----------------------------------------------------------------------------
(* One step of the module: types, disjointness and the set of all cells    *)
(* are kept together.                                                      *)
LEMMA StepKeeps ==
  ASSUME Lists!TypeOK, Lists!NoCellTwice, Lists!Next
  PROVE  Lists!TypeOK' /\ Lists!NoCellTwice' /\ Lists!AllCells' = Lists!AllCells
<1>1. ASSUME NEW t \in Thread, NEW k \in 0 .. Len(shared),
             NEW n \in 1 .. Len(local[t]) + k, Lists!Get(t, n, k)
      PROVE  Lists!TypeOK' /\ Lists!NoCellTwice' /\ Lists!AllCells' = Lists!AllCells
  <2> DEFINE p == Lists!Prefix(shared, k)
             s == Lists!Rest(shared, k)
             l == local[t] \o p
             g == Lists!Prefix(l, n)
             m == Lists!Rest(l, n)
  <2>0. shared \in Seq(Cell) /\ local[t] \in Seq(Cell) /\ k \in Nat
    BY DEF Lists!TypeOK
  <2>1. /\ p \in Seq(Cell) /\ s \in Seq(Cell) /\ Len(p) = k
        /\ Lists!SeqCells(shared) = Lists!SeqCells(p) \cup Lists!SeqCells(s)
        /\ Lists!NoRepeat(p) /\ Lists!NoRepeat(s) /\ Lists!SeqCells(p) \cap Lists!SeqCells(s) = {}
    BY <2>0, Parted DEF Lists!NoCellTwice
  <2>2. shared' = s /\ local' = [local EXCEPT ![t] = m] /\ used' = used \cup {g}
    BY <1>1 DEF Lists!Get
  <2> HIDE DEF p, s
  <2>3. Lists!SeqCells(local[t]) \cap Lists!SeqCells(p) = {} /\ Lists!NoRepeat(local[t])
    BY <2>1, AsSets
  <2>4. /\ l \in Seq(Cell) /\ Len(l) = Len(local[t]) + k
        /\ Lists!SeqCells(l) = Lists!SeqCells(local[t]) \cup Lists!SeqCells(p) /\ Lists!NoRepeat(l)
    <3>1. local[t] \in Seq(Cell) /\ p \in Seq(Cell) /\ Len(p) = k
      BY <2>0, <2>1
    <3>2. Lists!NoRepeat(local[t]) /\ Lists!NoRepeat(p) /\ Lists!SeqCells(local[t]) \cap Lists!SeqCells(p) = {}
      BY <2>1, <2>3
    <3> QED
      BY <3>1, <3>2, Joined, SMTT(30)
  <2> HIDE DEF l
  <2>5. n \in 0 .. Len(l) /\ n # 0
    BY <2>0, <2>4, LenProperties
  <2>6. /\ g \in Seq(Cell) /\ m \in Seq(Cell) /\ Len(g) = n
        /\ Lists!SeqCells(l) = Lists!SeqCells(g) \cup Lists!SeqCells(m)
        /\ Lists!NoRepeat(g) /\ Lists!NoRepeat(m) /\ Lists!SeqCells(g) \cap Lists!SeqCells(m) = {}
    <3>1. l \in Seq(Cell) /\ Lists!NoRepeat(l)
      BY <2>4
    <3>2. n \in 0 .. Len(l)
      BY <2>5
    <3> QED
      BY <3>1, <3>2, Parted
  <2> HIDE DEF g, m
  <2>7. g # <<>>
    BY <2>5, <2>6
  <2>8. Locals({t}) = Lists!SeqCells(local[t]) /\ Runs({}) = {} /\ Runs({g}) = Lists!SeqCells(g)
    BY DEF Locals, Runs
  <2>9. Lists!SeqCells(s) \cup Lists!SeqCells(m) \cup Runs({g}) = Dealt({t}, {})
    BY <2>1, <2>4, <2>6, <2>8 DEF Dealt
  <2>10. local' = [u \in Thread |-> IF u \in {t} THEN m ELSE local[u]]
    BY <2>2, Zenon DEF Lists!TypeOK
  <2>11. Lists!SeqCells(local[t]) \cap Lists!SeqCells(shared) = {}
    BY AsSets
  <2>12. /\ Lists!SeqCells(s) \cap Lists!SeqCells(m) = {}
         /\ Lists!SeqCells(g) \cap (Lists!SeqCells(s) \cup Lists!SeqCells(m)) = {}
    BY <2>1, <2>4, <2>6, <2>11
  <2>13. used' = (used \ {}) \cup {g}
    BY <2>2, SMTT(30)
  <2>20. DealtTo({t}, {}, {g}, s, m)
    BY <2>1, <2>2, <2>6, <2>7, <2>9, <2>10, <2>12, <2>13, Zenon DEF DealtTo
  <2> QED
    BY <2>20, DealtAnew
<1>2. ASSUME NEW n \in 1 .. Len(shared), Lists!GetShared(n)
      PROVE  Lists!TypeOK' /\ Lists!NoCellTwice' /\ Lists!AllCells' = Lists!AllCells
  <2> DEFINE g == Lists!Prefix(shared, n)
             s == Lists!Rest(shared, n)
  <2>0. shared \in Seq(Cell) /\ n \in 0 .. Len(shared) /\ n # 0
    BY SMTT(30) DEF Lists!TypeOK
  <2>1. /\ g \in Seq(Cell) /\ s \in Seq(Cell) /\ Len(g) = n
        /\ Lists!SeqCells(shared) = Lists!SeqCells(g) \cup Lists!SeqCells(s)
        /\ Lists!NoRepeat(g) /\ Lists!NoRepeat(s) /\ Lists!SeqCells(g) \cap Lists!SeqCells(s) = {}
    BY <2>0, Parted DEF Lists!NoCellTwice
  <2>2. shared' = s /\ local' = local /\ used' = (used \ {}) \cup {g}
    BY <1>2 DEF Lists!GetShared
  <2> HIDE DEF g, s
  <2>3. g # <<>>
    BY <2>0, <2>1
  <2>4. /\ Locals({}) = {} /\ Runs({}) = {} /\ Runs({g}) = Lists!SeqCells(g)
        /\ <<>> \in Seq(Cell) /\ Lists!SeqCells(<<>>) = {} /\ Lists!NoRepeat(<<>>)
    BY DEF Locals, Runs, Lists!SeqCells, Lists!NoRepeat
  <2>5. Lists!SeqCells(s) \cup Lists!SeqCells(<<>>) \cup Runs({g}) = Dealt({}, {})
    BY <2>1, <2>4 DEF Dealt
  <2>6. local' = [u \in Thread |-> IF u \in {} THEN <<>> ELSE local[u]]
    BY <2>2 DEF Lists!TypeOK
  <2>20. DealtTo({}, {}, {g}, s, <<>>)
    BY <2>1, <2>2, <2>3, <2>4, <2>5, <2>6, Zenon DEF DealtTo
  <2> QED
    BY <2>20, DealtAnew
<1>3. ASSUME NEW t \in Thread, NEW r \in used, NEW k \in 0 .. Len(local[t]) + Len(r), Lists!Free(t, r, k)
      PROVE  Lists!TypeOK' /\ Lists!NoCellTwice' /\ Lists!AllCells' = Lists!AllCells
  <2> DEFINE l == local[t] \o r
             p == Lists!Prefix(l, k)
             m == Lists!Rest(l, k)
             s == shared \o p
  <2>0. shared \in Seq(Cell) /\ local[t] \in Seq(Cell) /\ r \in Seq(Cell) /\ k \in Nat
    BY DEF Lists!TypeOK
  <2>1. /\ Lists!SeqCells(local[t]) \cap Lists!SeqCells(shared) = {} /\ Lists!SeqCells(r) \cap Lists!SeqCells(shared) = {}
        /\ Lists!SeqCells(local[t]) \cap Lists!SeqCells(r) = {}
        /\ Lists!NoRepeat(local[t]) /\ Lists!NoRepeat(r) /\ Lists!NoRepeat(shared)
    BY AsSets
  <2>2. /\ l \in Seq(Cell) /\ Len(l) = Len(local[t]) + Len(r)
        /\ Lists!SeqCells(l) = Lists!SeqCells(local[t]) \cup Lists!SeqCells(r) /\ Lists!NoRepeat(l)
    BY <2>0, <2>1, Joined
  <2>3. shared' = s /\ local' = [local EXCEPT ![t] = m] /\ used' = (used \ {r}) \cup {}
    BY <1>3 DEF Lists!Free
  <2> HIDE DEF l
  <2>4. /\ p \in Seq(Cell) /\ m \in Seq(Cell)
        /\ Lists!SeqCells(l) = Lists!SeqCells(p) \cup Lists!SeqCells(m)
        /\ Lists!NoRepeat(p) /\ Lists!NoRepeat(m) /\ Lists!SeqCells(p) \cap Lists!SeqCells(m) = {}
    BY <2>2, Parted
  <2> HIDE DEF p, m
  <2>5. Lists!SeqCells(shared) \cap Lists!SeqCells(p) = {}
    BY <2>1, <2>2, <2>4
  <2>6. s \in Seq(Cell) /\ Lists!SeqCells(s) = Lists!SeqCells(shared) \cup Lists!SeqCells(p) /\ Lists!NoRepeat(s)
    BY <2>0, <2>1, <2>4, <2>5, Joined
  <2> HIDE DEF s
  <2>7. Locals({t}) = Lists!SeqCells(local[t]) /\ Runs({}) = {} /\ Runs({r}) = Lists!SeqCells(r)
    BY DEF Locals, Runs
  <2>8. Lists!SeqCells(s) \cup Lists!SeqCells(m) \cup Runs({}) = Dealt({t}, {r})
    BY <2>2, <2>4, <2>6, <2>7 DEF Dealt
  <2>9. local' = [u \in Thread |-> IF u \in {t} THEN m ELSE local[u]]
    BY <2>3, Zenon DEF Lists!TypeOK
  <2>10. Lists!SeqCells(s) \cap Lists!SeqCells(m) = {}
    BY <2>1, <2>2, <2>4, <2>6
  <2>20. DealtTo({t}, {r}, {}, s, m)
    BY <2>3, <2>4, <2>6, <2>8, <2>9, <2>10, Zenon DEF DealtTo
  <2> QED
    BY <2>20, DealtAnew
<1>4. ASSUME NEW r \in used, Lists!FreeShared(r)
      PROVE  Lists!TypeOK' /\ Lists!NoCellTwice' /\ Lists!AllCells' = Lists!AllCells
  <2> DEFINE s == shared \o r
  <2>0. shared \in Seq(Cell) /\ r \in Seq(Cell)
    BY DEF Lists!TypeOK
  <2>1. Lists!SeqCells(shared) \cap Lists!SeqCells(r) = {} /\ Lists!NoRepeat(r) /\ Lists!NoRepeat(shared)
    BY AsSets
  <2>2. s \in Seq(Cell) /\ Lists!SeqCells(s) = Lists!SeqCells(shared) \cup Lists!SeqCells(r) /\ Lists!NoRepeat(s)
    BY <2>0, <2>1, Joined
  <2>3. shared' = s /\ local' = local /\ used' = (used \ {r}) \cup {}
    BY <1>4, SMTT(30) DEF Lists!FreeShared
  <2> HIDE DEF s
  <2>4. /\ Locals({}) = {} /\ Runs({}) = {} /\ Runs({r}) = Lists!SeqCells(r)
        /\ <<>> \in Seq(Cell) /\ Lists!SeqCells(<<>>) = {} /\ Lists!NoRepeat(<<>>)
    BY SMTT(30) DEF Locals, Runs, Lists!SeqCells, Lists!NoRepeat
  <2>5. Lists!SeqCells(s) \cup Lists!SeqCells(<<>>) \cup Runs({}) = Dealt({}, {r})
    BY <2>2, <2>4 DEF Dealt
  <2>6. local' = [u \in Thread |-> IF u \in {} THEN <<>> ELSE local[u]]
    BY <2>3 DEF Lists!TypeOK
  <2>20. DealtTo({}, {r}, {}, s, <<>>)
    BY <2>2, <2>3, <2>4, <2>5, <2>6, Zenon DEF DealtTo
  <2> QED
    BY <2>20, DealtAnew
<1> QED
  BY <1>1, <1>2, <1>3, <1>4 DEF Lists!Next

LEMMA StutterKeeps ==
  ASSUME Lists!TypeOK, Lists!NoCellTwice, UNCHANGED Lists!vars
  PROVE  Lists!TypeOK' /\ Lists!NoCellTwice' /\ Lists!AllCells' = Lists!AllCells
<1>1. shared' = shared /\ local' = local /\ used' = used
  BY DEF Lists!vars
<1> QED
  BY <1>1 DEF Lists!TypeOK, Lists!NoCellTwice, Lists!AllCells

(* For any number of cells and threads: the lists and the runs handed out  *)
(* by Get keep their types, and no cell is ever in two of them or twice in *)
(* one, whatever batches Get fetches and Free gives back                   *)
(* (concurrent_mem_pool.tpp, mvcc_value_store.cpp).                        *)
THEOREM CellsHeldOnce == Lists!Spec => [](Lists!TypeOK /\ Lists!NoCellTwice)
<1>1. Lists!Init => Lists!TypeOK /\ Lists!NoCellTwice
  BY DEF Lists!Init
<1>2. Lists!TypeOK /\ Lists!NoCellTwice /\ [Lists!Next]_(Lists!vars) => (Lists!TypeOK /\ Lists!NoCellTwice)'
  BY StepKeeps, StutterKeeps
<1> QED
  BY <1>1, <1>2, PTL DEF Lists!Spec

(* For any number of cells and threads: no Get and no Free loses a cell;   *)
(* the free cells and the cells in use are the same set in every state.    *)
THEOREM CellsNotLost == Lists!Spec => Lists!NoCellLost
<1>1. Lists!TypeOK /\ Lists!NoCellTwice /\ [Lists!Next]_(Lists!vars) => [Lists!AllCells' = Lists!AllCells]_(Lists!vars)
  BY StepKeeps, StutterKeeps
<1> QED
  BY <1>1, CellsHeldOnce, PTL DEF Lists!Spec, Lists!NoCellLost

=============================================================================
