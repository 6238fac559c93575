------------------------- MODULE MVCCListRefinement -------------------------
(***************************************************************************)
(* MVCCList implements VersionChain for a property list, whatever the      *)
(* pool, the transactions, the values and the timestamps.                  *)
(***************************************************************************)
EXTENDS MVCCListProofs

(* The committed versions, the writer and its value, as VersionChain sees  *)
(* them (the substitution of Abstract).                                    *)
Versions == [i \in 1 .. Len(Committed) |->
               [begin |-> begin_time[Committed[i]], val |-> val[Committed[i]]]]

Writer == IF Uncommitted THEN begin_time[tail] ELSE 0

WVal == IF Uncommitted THEN val[tail] ELSE Empty

-----------------------------------------------------------------------------
(* The number of committed items. *)
Size == IF Uncommitted THEN Len(chain) - 1 ELSE Len(chain)

(* The versions, by the items of the list. *)
VersionsOfItems ==
  /\ Size \in Nat
  /\ Versions = [i \in 1 .. Size |-> [begin |-> begin_time[chain[i]], val |-> val[chain[i]]]]

LEMMA VersionsForm == IInv => VersionsOfItems
<1> SUFFICES ASSUME IInv PROVE VersionsOfItems
  OBVIOUS
<1> USE DEF VersionsOfItems
<1>1. chain \in Seq(Item) /\ Len(chain) \in Nat
  BY DEF IInv, TypeOK
<1>2. CASE Uncommitted
  <2>1. chain # <<>> /\ Len(chain) >= 1
    BY <1>1, <1>2 DEF Uncommitted
  <2>2. Committed = SubSeq(chain, 1, Len(chain) - 1) /\ Size = Len(chain) - 1
    BY <1>2 DEF Committed, Size
  <2>3. \A i \in 1 .. Len(chain) - 1 : chain[i] \in Item
    BY <1>1
  <2>4. /\ Len(Committed) = Size /\ Size \in Nat
        /\ \A i \in 1 .. Size : Committed[i] = chain[i]
    <3>1. /\ Len(Committed) = IF 1 <= Len(chain) - 1 THEN Len(chain) - 1 - 1 + 1 ELSE 0
          /\ \A i \in 1 .. Len(chain) - 1 - 1 + 1 : Committed[i] = chain[1 + i - 1]
      BY <1>1, <2>2, <2>3, SubSeqProperties
    <3>2. Len(Committed) = Size /\ Size \in Nat /\ Len(chain) - 1 - 1 + 1 = Size
      BY <1>1, <2>1, <2>2, <3>1
    <3> QED
      BY <3>1, <3>2
  <2> QED
    BY <2>4 DEF Versions
<1>3. CASE ~ Uncommitted
  BY <1>1, <1>3 DEF Committed, Size, Versions
<1> QED
  BY <1>2, <1>3

LEMMA VersionsFormNext == IInv' => VersionsOfItems'
BY VersionsForm, PTL

-----------------------------------------------------------------------------
(* The steps of VersionChain, in terms of Versions, Writer and WVal. *)
LEMMA AbstractStutter ==
  ASSUME Versions' = Versions, Writer' = Writer, WVal' = WVal, min_bt' = min_bt
  PROVE  UNCHANGED Abstract!vars
BY DEF Abstract!vars, Versions, Writer, WVal

LEMMA AbstractAppend ==
  ASSUME NEW t \in Trx, NEW v \in Value, Writer \in {0, t}, Writer' = t, WVal' = v,
         Versions' = Versions, min_bt' = min_bt
  PROVE  Abstract!Next
<1>1. Abstract!Append_(t, v)
  BY DEF Abstract!Append_, Versions, Writer, WVal
<1> QED
  BY <1>1 DEF Abstract!Next

LEMMA AbstractCommit ==
  ASSUME NEW ts \in 0 .. MAX_TIME, Writer # 0,
         \A i \in 1 .. Len(Versions) : Versions[i].begin < ts,
         Versions' = Append(Versions, [begin |-> ts, val |-> WVal]),
         Writer' = 0, WVal' = Empty, min_bt' = min_bt
  PROVE  Abstract!Next
<1>1. Abstract!Commit(ts)
  BY Zenon DEF Abstract!Commit, Versions, Writer, WVal
<1>2. ts \in Abstract!Time
  BY Numbers DEF Abstract!Time
<1> QED
  BY <1>1, <1>2 DEF Abstract!Next

LEMMA AbstractAbort ==
  ASSUME Writer # 0, Versions' = Versions, Writer' = 0, WVal' = Empty, min_bt' = min_bt
  PROVE  Abstract!Next
<1>1. Abstract!Abort
  BY DEF Abstract!Abort, Versions, Writer, WVal
<1> QED
  BY <1>1 DEF Abstract!Next

LEMMA AbstractRaise ==
  ASSUME min_bt' \in 0 .. MAX_TIME, min_bt < min_bt',
         Versions' = Versions, Writer' = Writer, WVal' = WVal
  PROVE  Abstract!Next
<1>1. min_bt' \in Abstract!Time
  BY Numbers DEF Abstract!Time
<1>2. Abstract!RaiseFloor
  BY <1>1 DEF Abstract!RaiseFloor, Versions, Writer, WVal
<1> QED
  BY <1>2 DEF Abstract!Next

LEMMA AbstractCollect ==
  ASSUME NEW n \in 1 .. Len(Versions),
         Versions' = SubSeq(Versions, n + 1, Len(Versions)),
         \A ts \in min_bt .. MAX_TIME, v \in Value :
           Abstract!Finds(Versions, ts, v) <=> Abstract!Finds(SubSeq(Versions, n + 1, Len(Versions)), ts, v),
         Writer' = Writer, WVal' = WVal, min_bt' = min_bt, Len(Versions) \in Nat
  PROVE  Abstract!Next
<1>1. Abstract!Collect(n)
  <2>1. (MAX_TIME + 1) - 1 = MAX_TIME /\ n <= Len(Versions)
    BY Numbers
  <2> QED
    BY <2>1, Zenon DEF Abstract!Collect, Versions, Writer, WVal
<1> QED
  BY <1>1 DEF Abstract!Next, Versions

-----------------------------------------------------------------------------
(* The initial states. *)
LEMMA RefinesInit == Init => Abstract!Init
<1> SUFFICES ASSUME Init PROVE Abstract!Init
  OBVIOUS
<1>0. VersionsOfItems /\ min_bt = 0
  BY InitInv, VersionsForm DEF Init
<1>1. CASE EmptyList
  <2>1. chain = <<>> /\ ~ Uncommitted
    BY <1>1 DEF EmptyList, Uncommitted
  <2>2. Size = 0
    BY <2>1 DEF Size
  <2>3. Versions = <<>>
    BY <1>0, <2>2 DEF VersionsOfItems
  <2> QED
    BY <1>0, <2>1, <2>3 DEF Abstract!Init, Versions
<1>2. ASSUME NEW c \in Item, NEW v \in Value \ {Empty}, AppendInitialVersion(c, v)
      PROVE  Abstract!Init
  <2>1. /\ chain = <<c>> /\ tail = c /\ begin_time[c] = 0 /\ val[c] = v
    BY <1>2 DEF AppendInitialVersion, MIN_TIME
  <2>2. ~ Uncommitted /\ Size = 1 /\ chain[1] = c
    BY <2>1, Numbers DEF Uncommitted, Size, IS_VALID_TRX_ID
  <2>3. Versions = <<[begin |-> 0, val |-> v]>>
    BY <1>0, <2>1, <2>2 DEF VersionsOfItems
  <2> QED
    BY <1>0, <2>2, <2>3 DEF Abstract!Init, Versions
<1> QED
  BY <1>1, <1>2 DEF Init

-----------------------------------------------------------------------------
(* The versions are the same when the committed items are. *)
LEMMA SameVersions ==
  ASSUME IInv, IInv', Size' = Size,
         \A i \in 1 .. Size : begin_time'[chain'[i]] = begin_time[chain[i]] /\ val'[chain'[i]] = val[chain[i]]
  PROVE  Versions' = Versions
BY VersionsForm, VersionsFormNext DEF VersionsOfItems

LEMMA SameList ==
  ASSUME begin_time' = begin_time, val' = val, chain' = chain, tail' = tail
  PROVE  Versions' = Versions /\ Writer' = Writer /\ WVal' = WVal
BY DEF Versions, Writer, WVal, Committed, Uncommitted

(* AppendVersion is Append_. *)
LEMMA RefinesAppend ==
  ASSUME IInv, IInv', NEW t \in Trx, NEW v \in Value, AppendVersion(t, v)
  PROVE  Abstract!Next
<1>0. min_bt' = min_bt /\ t \in Nat /\ IS_VALID_TRX_ID(t) /\ chain \in Seq(Item) /\ Len(chain) \in Nat
  BY Numbers DEF AppendVersion, trxVars, IS_VALID_TRX_ID, IInv, TypeOK
<1>1. CASE AppendFirst(t, v)
  <2>1. chain = <<>>
    BY <1>1 DEF AppendFirst, IInv, Shape, ListShape
  <2>2. PICK c \in pool : /\ begin_time' = [begin_time EXCEPT ![c] = t] /\ val' = [val EXCEPT ![c] = v]
                          /\ tail' = c /\ chain' = <<c>>
    BY <1>1, Zenon DEF AppendFirst
  <2>3. begin_time'[c] = t /\ val'[c] = v
    BY <2>2 DEF IInv, TypeOK
  <2>4. ~ Uncommitted /\ Size = 0 /\ Writer = 0
    BY <2>1 DEF Uncommitted, Size, Writer
  <2>5. Uncommitted' /\ Size' = 0 /\ Writer' = t /\ WVal' = v
    BY <1>0, <2>2, <2>3 DEF Uncommitted, Size, Writer, WVal
  <2>6. Versions' = Versions
    BY <2>4, <2>5, SameVersions
  <2> QED
    BY <1>0, <2>4, <2>5, <2>6, AbstractAppend
<1>2. CASE AppendOwn(t, v)
  <2>1. /\ chain # <<>> /\ begin_time[tail] = t /\ val' = [val EXCEPT ![tail] = v]
        /\ begin_time' = begin_time /\ chain' = chain /\ tail' = tail
    BY <1>2 DEF AppendOwn, ptrVars, IInv, Shape, ListShape
  <2>2. tail \in Item /\ tail = chain[Len(chain)] /\ Len(chain) >= 1
    BY <2>1, Ends DEF IInv, Shape
  <2>3. Uncommitted /\ Uncommitted' /\ Size = Len(chain) - 1 /\ Size' = Size
    BY <1>0, <2>1 DEF Uncommitted, Size
  <2>4. Writer = t /\ Writer' = t
    BY <2>1, <2>3 DEF Writer
  <2>5. WVal' = v
    BY <2>1, <2>2, <2>3 DEF WVal, IInv, TypeOK
  <2>6. \A i \in 1 .. Size : val'[chain'[i]] = val[chain[i]]
    <3>1. \A i \in 1 .. Size : chain[i] # tail /\ chain[i] \in Item
      BY <1>0, <2>2, <2>3 DEF IInv, Shape, ListShape
    <3> QED
      BY <2>1, <3>1 DEF IInv, TypeOK
  <2>7. Versions' = Versions
    BY <2>1, <2>3, <2>6, SameVersions
  <2> QED
    BY <1>0, <2>4, <2>5, <2>7, AbstractAppend
<1>3. CASE AppendNext(t, v)
  <2>1. chain # <<>> /\ begin_time[tail] <= MAX_TIME
    BY <1>3 DEF AppendNext, IInv, Shape, ListShape
  <2>2. PICK c \in pool : /\ begin_time' = [begin_time EXCEPT ![c] = t] /\ val' = [val EXCEPT ![c] = v]
                          /\ tail' = c /\ chain' = Append(chain, c)
    BY <1>3, Zenon DEF AppendNext
  <2>3. c \in Item /\ begin_time'[c] = t /\ val'[c] = v
    BY <2>2 DEF IInv, TypeOK
  <2>4. \A i \in 1 .. Len(chain) : chain[i] # c /\ chain[i] \in Item
    BY <1>0 DEF IInv, Shape, ItemsPartitioned, Items
  <2>5. /\ Len(chain') = Len(chain) + 1 /\ chain' # <<>>
        /\ \A i \in 1 .. Len(chain) : chain'[i] = chain[i]
    BY <1>0, <2>2, <2>3, AppendProperties
  <2>6. ~ Uncommitted /\ Size = Len(chain) /\ Writer = 0
    <3>1. tail \in Item
      BY <2>1, Ends DEF IInv, Shape
    <3>2. begin_time[tail] \in Nat
      BY <3>1, Numbers DEF IInv, TypeOK
    <3>3. ~ Uncommitted
      BY <2>1, <3>2, Numbers DEF Uncommitted, IS_VALID_TRX_ID
    <3> QED
      BY <3>3 DEF Size, Writer
  <2>7. Uncommitted' /\ Size' = Size /\ Writer' = t /\ WVal' = v
    <3>1. Uncommitted'
      BY <1>0, <2>2, <2>3, <2>5 DEF Uncommitted
    <3>2. Size' = Len(chain')  - 1
      BY <3>1 DEF Size
    <3> QED
      BY <1>0, <2>2, <2>3, <2>5, <2>6, <3>1, <3>2 DEF Writer, WVal
  <2>8. \A i \in 1 .. Size : begin_time'[chain'[i]] = begin_time[chain[i]] /\ val'[chain'[i]] = val[chain[i]]
    BY <2>2, <2>4, <2>5, <2>6, SMTT(30) DEF IInv, TypeOK
  <2>9. Versions' = Versions
    BY <2>7, <2>8, SameVersions, SMTT(30)
  <2> QED
    BY <1>0, <2>6, <2>7, <2>9, AbstractAppend
<1> QED
  BY <1>1, <1>2, <1>3 DEF AppendVersion

(* CommitVersion is Commit at the transaction's commit time. *)
LEMMA RefinesCommit ==
  ASSUME IInv, IInv', NEW t \in Trx, stat[t] = "validating", CommitVersion(t), min_bt' = min_bt
  PROVE  Abstract!Next
<1> DEFINE n == Len(chain)
<1>1. /\ chain # <<>> /\ n \in Nat /\ n >= 1 /\ tail = chain[n] /\ chain \in Seq(Item)
      /\ \A i \in 1 .. n : chain[i] \in Item
      /\ begin_time[tail] = t /\ t \in Nat /\ t > MAX_TIME /\ IS_VALID_TRX_ID(begin_time[tail])
      /\ \A i \in 1 .. n - 1 : chain[i] # tail
  BY OwnTail DEF CommitVersion
<1>2. /\ val' = val /\ tail' = tail /\ chain' = chain
      /\ begin_time' = [begin_time EXCEPT ![tail] = ct[t]]
  BY DEF CommitVersion
<1>3. ct[t] \in Nat /\ ct[t] \in 0 .. MAX_TIME /\ ct[t] < MAX_TIME
  BY Numbers DEF IInv, TypeOK
<1>5. \A i \in 1 .. n - 1 : begin_time[chain[i]] < ct[t]
  BY <1>1 DEF IInv, Times
<1>6. Uncommitted /\ Size = n - 1 /\ Writer = t /\ WVal = val[tail]
  BY <1>1 DEF Uncommitted, Size, Writer, WVal
<1>7. begin_time'[tail] = ct[t]
  BY <1>1, <1>2 DEF IInv, TypeOK
<1>8. ~ Uncommitted' /\ Size' = n /\ Writer' = 0 /\ WVal' = Empty
  <2>1. ~ Uncommitted'
    BY <1>2, <1>3, <1>7, Numbers DEF Uncommitted, IS_VALID_TRX_ID
  <2> QED
    BY <1>2, <2>1 DEF Size, Writer, WVal
<1>9. \A i \in 1 .. n - 1 : begin_time'[chain[i]] = begin_time[chain[i]]
  BY <1>1, <1>2 DEF IInv, TypeOK
<1>10. /\ Versions = [i \in 1 .. n - 1 |-> [begin |-> begin_time[chain[i]], val |-> val[chain[i]]]]
       /\ Versions' = [i \in 1 .. n |-> [begin |-> begin_time'[chain[i]], val |-> val[chain[i]]]]
  BY <1>2, <1>6, <1>8, VersionsForm, VersionsFormNext, Zenon DEF VersionsOfItems
<1> HIDE DEF n
<1>11. Len(Versions) = n - 1 /\ \A i \in 1 .. Len(Versions) : Versions[i].begin < ct[t]
  <2>1. Len(Versions) = n - 1
    BY <1>1, <1>10
  <2> QED
    BY <1>5, <1>10, <2>1, Zenon
<1>12. Versions' = Append(Versions, [begin |-> ct[t], val |-> WVal])
  <2> DEFINE r == [begin |-> ct[t], val |-> WVal]
             S == {Versions[i] : i \in 1 .. n - 1} \cup {r}
  <2>1. Versions \in Seq(S)
    <3>1. \A i \in 1 .. n - 1 : Versions[i] \in S
      OBVIOUS
    <3>2. Versions \in [1 .. n - 1 -> S]
      BY <1>10, <3>1
    <3>3. n - 1 \in Nat
      BY <1>1
    <3> HIDE DEF S
    <3> QED
      BY <3>2, <3>3
  <2>2. r \in S
    OBVIOUS
  <2> HIDE DEF S, r
  <2>3. /\ Append(Versions, r) \in Seq(S)
        /\ Len(Append(Versions, r)) = Len(Versions) + 1
        /\ \A i \in 1 .. Len(Versions) : Append(Versions, r)[i] = Versions[i]
        /\ Append(Versions, r)[Len(Versions) + 1] = r
    BY <2>1, <2>2, AppendProperties
  <2>4. Append(Versions, r) = [i \in 1 .. n |-> IF i = n THEN r ELSE Versions[i]]
    <3>1. Len(Versions) + 1 = n
      BY <1>1, <1>11
    <3>2. Append(Versions, r) = [i \in 1 .. n |-> Append(Versions, r)[i]]
      <4>1. Append(Versions, r) \in [1 .. Len(Append(Versions, r)) -> S]
        BY <2>3, LenProperties, Zenon
      <4>2. Len(Append(Versions, r)) = n
        BY <2>3, <3>1
      <4> QED
        BY <4>1, <4>2, Zenon
    <3>3. \A i \in 1 .. n : i # n => i \in 1 .. Len(Versions)
      BY <1>1, <3>1
    <3> QED
      BY <2>3, <3>1, <3>2, <3>3
  <2>5. \A i \in 1 .. n : [begin |-> begin_time'[chain[i]], val |-> val[chain[i]]] = IF i = n THEN r ELSE Versions[i]
    <3> SUFFICES ASSUME NEW i \in 1 .. n
                 PROVE  [begin |-> begin_time'[chain[i]], val |-> val[chain[i]]] = IF i = n THEN r ELSE Versions[i]
      OBVIOUS
    <3>1. CASE i = n
      BY <1>1, <1>6, <1>7, <3>1 DEF r
    <3>2. CASE i # n
      <4>1. i \in 1 .. n - 1
        BY <1>1, <3>2
      <4> QED
        BY <1>9, <1>10, <3>2, <4>1
    <3> QED
      BY <3>1, <3>2
  <2> QED
    BY <1>10, <2>4, <2>5, ZenonT(30) DEF r
<1>13. Writer # 0
  BY <1>1, <1>6, Numbers
<1> QED
  BY <1>3, <1>8, <1>11, <1>12, <1>13, AbstractCommit

(* AbortVersion is Abort. *)
LEMMA RefinesAbort ==
  ASSUME IInv, IInv', NEW t \in Trx, AbortVersion(t), min_bt' = min_bt
  PROVE  Abstract!Next
<1> DEFINE n == Len(chain)
<1>1. /\ chain # <<>> /\ n \in Nat /\ n >= 1 /\ tail = chain[n] /\ chain \in Seq(Item)
      /\ \A i \in 1 .. n : chain[i] \in Item
      /\ begin_time[tail] = t /\ t \in Nat /\ t > MAX_TIME /\ IS_VALID_TRX_ID(begin_time[tail])
      /\ n = 1 => pre_tail = tail
      /\ n > 1 => pre_tail = chain[n - 1]
      /\ \A i \in 1 .. n - 1 : chain[i] # tail
  BY OwnTail DEF AbortVersion
<1>2. begin_time' = begin_time /\ val' = val
  BY DEF AbortVersion
<1>3. Uncommitted /\ Size = n - 1 /\ Writer = t
  BY <1>1 DEF Uncommitted, Size, Writer
<1>4. Writer # 0
  BY <1>1, <1>3, Numbers
<1>5. CASE n = 1
  <2>1. chain' = <<>>
    BY <1>1, <1>5 DEF AbortVersion
  <2>2. ~ Uncommitted' /\ Size' = Size /\ Size = 0
    BY <1>3, <1>5, <2>1 DEF Uncommitted, Size
  <2>3. Versions' = Versions
    BY <2>2, SameVersions
  <2> QED
    BY <1>4, <2>2, <2>3, AbstractAbort DEF Writer, WVal
<1>6. CASE n > 1
  <2>1. n - 1 \in 1 .. n - 1 /\ n - 1 \in 1 .. n
    BY <1>1, <1>6
  <2>2. tail' = chain[n - 1] /\ chain' = SubSeq(chain, 1, n - 1)
    BY <1>1, <1>6, <2>1 DEF AbortVersion
  <2>3. Len(chain') = n - 1 /\ \A i \in 1 .. n - 1 : chain'[i] = chain[i]
    <3>1. \A i \in 1 .. n - 1 : chain[i] \in Item
      BY <1>1
    <3>2. Len(chain') = n - 1 - 1 + 1
      BY <1>1, <1>6, <2>1, <2>2, <3>1, SubSeqProperties
    <3>3. \A i \in 1 .. n - 1 - 1 + 1 : chain'[i] = chain[1 + i - 1]
      BY <1>1, <2>2, <3>1, SubSeqProperties
    <3> QED
      BY <1>1, <3>2, <3>3
  <2>4. ~ Uncommitted'
    <3>1. ~ IS_VALID_TRX_ID(begin_time[chain[n - 1]])
      BY <1>1, <2>1 DEF IInv, Shape, LifetimesAdjacent
    <3> QED
      BY <1>2, <2>2, <3>1 DEF Uncommitted
  <2>5. Size' = Size
    BY <1>3, <2>3, <2>4 DEF Size
  <2>6. Versions' = Versions
    BY <1>2, <1>3, <2>3, <2>5, SameVersions
  <2> QED
    BY <1>4, <2>4, <2>6, AbstractAbort DEF Writer, WVal
<1>7. n = 1 \/ n > 1
  <2>1. n \in Nat /\ n >= 1
    BY <1>1
  <2> HIDE DEF n
  <2> QED
    BY <2>1
<1> QED
  BY <1>5, <1>6, <1>7

-----------------------------------------------------------------------------
(* Dropping n versions of V leaves what is found from the time floor on,   *)
(* when the version behind them began before, or when they are all there   *)
(* is and the last one is a deletion.                                      *)
LEMMA DropFinds ==
  ASSUME NEW size \in Nat, NEW n \in 1 .. size, NEW V, NEW W,
         Len(V) = size, V # <<>>, \A i \in 1 .. size : V[i].begin \in Nat,
         Len(W) = size - n, W = <<>> <=> n = size,
         \A i \in 1 .. size - n : W[i] = V[n + i],
         \A i \in 1 .. size - 1 : V[i].begin < V[i + 1].begin,
         NEW ts \in Nat, NEW v \in Value,
         \A j \in 1 .. n - 1 : V[j + 1].begin <= ts,
         \/ n < size /\ V[n + 1].begin <= ts
         \/ n = size /\ V[n].val = Empty
  PROVE  Abstract!Finds(V, ts, v) <=> Abstract!Finds(W, ts, v)
<1>0. \A i \in 1 .. size : V[i].begin \in Nat
  OBVIOUS
<1>1. CASE n < size /\ V[n + 1].begin <= ts
  <2>1. \A j \in 1 .. n : V[j + 1].begin <= ts /\ j + 1 \in 1 .. size
    <3>1. \A j \in 1 .. n : (j = n \/ j \in 1 .. n - 1) /\ j + 1 \in 1 .. size
      BY <1>1
    <3> QED
      BY <1>1, <3>1
  <2>2. ~ (V = <<>> \/ ts < V[1].begin)
    <3>1. 1 \in 1 .. n /\ 1 \in 1 .. size - 1 /\ 1 \in 1 .. size /\ 2 \in 1 .. size
      BY <1>1
    <3>2. V[1].begin < V[1 + 1].begin /\ V[1 + 1].begin <= ts
      BY <2>1, <3>1
    <3> QED
      BY <1>0, <3>1, <3>2
  <2>3. ~ (W = <<>> \/ ts < W[1].begin)
    <3>1. 1 \in 1 .. size - n /\ W[1] = V[n + 1] /\ n + 1 \in 1 .. size
      BY <1>1
    <3> QED
      BY <1>0, <1>1, <3>1
  <2>4. ASSUME NEW i \in 1 .. size, V[i].begin <= ts, i = size \/ ts < V[i + 1].begin, v = V[i].val
        PROVE  \E k \in 1 .. size - n :
                 W[k].begin <= ts /\ (k = size - n \/ ts < W[k + 1].begin) /\ v = W[k].val
    <3>1. ~ (i <= n)
      <4> SUFFICES ASSUME i <= n PROVE FALSE
        OBVIOUS
      <4>1. i \in 1 .. n /\ i # size
        BY <1>1
      <4>2. V[i + 1].begin <= ts /\ i + 1 \in 1 .. size
        BY <2>1, <4>1
      <4> QED
        BY <1>0, <2>4, <4>1, <4>2
    <3>2. i - n \in 1 .. size - n /\ n + (i - n) = i
      BY <3>1
    <3>3. W[i - n] = V[i]
      BY <3>2
    <3>4. i - n = size - n \/ ts < W[(i - n) + 1].begin
      <4>1. CASE i = size
        BY <4>1
      <4>2. CASE i # size
        <5>1. (i - n) + 1 \in 1 .. size - n /\ n + ((i - n) + 1) = i + 1
          BY <3>1, <4>2
        <5>2. W[(i - n) + 1] = V[i + 1]
          BY <5>1
        <5> QED
          BY <2>4, <4>2, <5>2
      <4> QED
        BY <4>1, <4>2
    <3> QED
      BY <2>4, <3>2, <3>3, <3>4
  <2>5. ASSUME NEW k \in 1 .. size - n, W[k].begin <= ts, k = size - n \/ ts < W[k + 1].begin, v = W[k].val
        PROVE  \E i \in 1 .. size :
                 V[i].begin <= ts /\ (i = size \/ ts < V[i + 1].begin) /\ v = V[i].val
    <3>1. n + k \in 1 .. size /\ W[k] = V[n + k]
      OBVIOUS
    <3>2. n + k = size \/ ts < V[n + k + 1].begin
      <4>1. CASE k = size - n
        BY <4>1
      <4>2. CASE k # size - n
        <5>1. k + 1 \in 1 .. size - n /\ n + (k + 1) = n + k + 1
          BY <4>2
        <5>2. W[k + 1] = V[n + (k + 1)]
          BY <5>1
        <5> QED
          BY <2>5, <4>2, <5>1, <5>2
      <4> QED
        BY <4>1, <4>2
    <3> QED
      BY <2>5, <3>1, <3>2
  <2> QED
    BY <2>2, <2>3, <2>4, <2>5 DEF Abstract!Finds
<1>2. CASE n = size /\ V[n].val = Empty
  <2>1. W = <<>>
    BY <1>2
  <2>2. Abstract!Finds(W, ts, v) <=> v = Empty
    BY <2>1 DEF Abstract!Finds
  <2>3. Abstract!Finds(V, ts, v) => v = Empty
    <3> SUFFICES ASSUME NEW i \in 1 .. size, i = size \/ ts < V[i + 1].begin, v = V[i].val
                 PROVE  v = Empty
      BY DEF Abstract!Finds
    <3>1. i = size
      <4> SUFFICES ASSUME i # size PROVE FALSE
        OBVIOUS
      <4>1. i \in 1 .. n - 1 /\ i + 1 \in 1 .. size
        BY <1>2
      <4> QED
        BY <1>0, <4>1
    <3> QED
      BY <1>2, <3>1
  <2>4. v = Empty => Abstract!Finds(V, ts, v)
    <3> SUFFICES ASSUME v = Empty, ~ (ts < V[1].begin) PROVE Abstract!Finds(V, ts, v)
      BY DEF Abstract!Finds
    <3>1. V[n].begin <= ts
      <4>1. CASE n = 1
        BY <1>0, <4>1
      <4>2. CASE n # 1
        <5>1. n - 1 \in 1 .. n - 1 /\ (n - 1) + 1 = n
          BY <4>2
        <5>2. V[(n - 1) + 1].begin <= ts
          BY <5>1, Zenon
        <5> QED
          BY <5>1, <5>2
      <4> QED
        BY <4>1, <4>2
    <3> QED
      BY <1>2, <3>1 DEF Abstract!Finds
  <2> QED
    BY <2>2, <2>3, <2>4
<1> QED
  BY <1>1, <1>2

(* scan_mvcc_list of a property list is Collect. *)
LEMMA RefinesScan ==
  ASSUME IInv, IInv', ~ IsEdge, ScanMVCCList
  PROVE  Abstract!Next
<1> DEFINE g == gc_checkpoint
           K == Len(chain)
<1>0. /\ chain # <<>> /\ K \in Nat /\ g \in 1 .. Last /\ Last \in 1 .. K /\ g \in 1 .. K
      /\ Len(chain') = K - g
      /\ \A i \in 1 .. K - g : chain'[i] = chain[g + i]
      /\ g = K => ~ HasUncommitted /\ chain' = <<>>
      /\ g < K => tail' = tail
      /\ begin_time' = begin_time /\ val' = val /\ min_bt' = min_bt
      /\ HasUncommitted => head # tail
  BY ScanFacts, Zenon
<1>1. /\ \A j \in 1 .. g - 1 : GetEndTime(chain[j]) < min_bt
      /\ GetEndTime(chain[g]) < min_bt \/ (g = Last /\ val[chain[g]] = Empty)
      /\ GetEndTime(chain[g]) < min_bt => g < Last
  BY ScanCut
<1> HIDE DEF g, K
<1>2. PICK n \in Nat : n = g
  BY <1>0
<1>3. /\ \A i \in 1 .. Last : begin_time[chain[i]] \in Nat
      /\ \A i \in 1 .. Last - 1 : /\ GetEndTime(chain[i]) = begin_time[chain[i + 1]]
                                  /\ begin_time[chain[i]] < begin_time[chain[i + 1]]
  BY <1>0, EndTimes
<1>4. Uncommitted <=> HasUncommitted
  BY <1>0 DEF Uncommitted, HasUncommitted
<1>5. Size = Last
  BY <1>4 DEF Size, Last
<1>6. /\ Size' = Size - n /\ Writer' = Writer /\ WVal' = WVal
  <2>1. CASE g = K
    <3>1. ~ Uncommitted /\ ~ Uncommitted'
      BY <1>0, <1>4, <2>1 DEF Uncommitted
    <3> QED
      BY <1>0, <1>2, <2>1, <3>1 DEF Size, Writer, WVal, K
  <2>2. CASE g < K
    <3>1. Uncommitted' <=> Uncommitted
      <4>1. chain' # <<>>
        BY <1>0, <2>2
      <4> QED
        BY <1>0, <2>2, <4>1 DEF Uncommitted
    <3>2. Size' = Size - n
      BY <1>0, <1>2, <3>1 DEF Size, K
    <3> QED
      BY <1>0, <2>2, <3>1, <3>2 DEF Writer, WVal
  <2> QED
    BY <1>0, <2>1, <2>2
<1>7. PICK size \in Nat : size = Size
  BY <1>0, <1>5
<1>8. n \in 1 .. size /\ size <= K /\ K \in Nat
  BY <1>0, <1>2, <1>5, <1>7
<1>9. Versions = [i \in 1 .. size |-> [begin |-> begin_time[chain[i]], val |-> val[chain[i]]]]
  BY <1>7, VersionsForm DEF VersionsOfItems
<1>10. Versions' = [i \in 1 .. size - n |-> [begin |-> begin_time[chain'[i]], val |-> val[chain'[i]]]]
  BY <1>0, <1>6, <1>7, VersionsFormNext, SMTT(30) DEF VersionsOfItems
<1>11. \A i \in 1 .. size : chain[i] \in Item /\ begin_time[chain[i]] \in Nat /\ val[chain[i]] \in Value
  <2>1. \A i \in 1 .. size : chain[i] \in Item
    BY <1>8, SMTT(30) DEF IInv, TypeOK, K
  <2> QED
    BY <1>3, <1>5, <1>7, <2>1, SMTT(30) DEF IInv, TypeOK
<1>12. /\ Versions \in Seq([begin : Nat, val : Value]) /\ Len(Versions) = size
       /\ \A i \in 1 .. size : /\ Versions[i].begin = begin_time[chain[i]]
                               /\ Versions[i].val = val[chain[i]]
  <2>1. Versions \in [1 .. size -> [begin : Nat, val : Value]]
    BY <1>9, <1>11, SMTT(30)
  <2> QED
    BY <1>9, <2>1, SMTT(30)
<1>13. Versions' = [i \in 1 .. size - n |-> Versions[n + i]]
  <2>1. \A i \in 1 .. size - n : n + i \in 1 .. size /\ i \in 1 .. K - n
    BY <1>8
  <2>2. \A i \in 1 .. size - n : chain'[i] = chain[n + i]
    BY <1>0, <1>2, <2>1, Zenon
  <2> QED
    BY <1>9, <1>10, <2>1, <2>2, SMTT(30)
<1> DEFINE W == SubSeq(Versions, n + 1, Len(Versions))
<1>14. /\ W \in Seq([begin : Nat, val : Value]) /\ Len(W) = size - n
       /\ \A i \in 1 .. size - n : W[i] = Versions[n + i]
  <2>1. \A i \in n + 1 .. size : Versions[i] \in [begin : Nat, val : Value]
    <3>1. \A i \in n + 1 .. size : i \in 1 .. size
      BY <1>8, SMTT(30)
    <3> QED
      BY <1>9, <1>11, <3>1, SMTT(30)
  <2>2. /\ W \in Seq([begin : Nat, val : Value])
        /\ Len(W) = IF n + 1 <= size THEN size - (n + 1) + 1 ELSE 0
        /\ \A i \in 1 .. size - (n + 1) + 1 : W[i] = Versions[(n + 1) + i - 1]
    BY <1>8, <1>12, <2>1, SubSeqProperties
  <2>3. size - (n + 1) + 1 = size - n /\ Len(W) = size - n
    BY <1>8, <2>2, SMTT(30)
  <2>4. \A i \in 1 .. size - n : (n + 1) + i - 1 = n + i
    BY <1>8
  <2> QED
    BY <2>2, <2>3, <2>4, Zenon
<1> HIDE DEF W
<1>15. Versions' = W
  <2>1. W \in [1 .. size - n -> [begin : Nat, val : Value]]
    BY <1>14, LenProperties, Zenon
  <2>2. W = [i \in 1 .. size - n |-> W[i]]
    BY <2>1
  <2> QED
    BY <1>13, <1>14, <2>2
<1>16. \A ts \in min_bt .. MAX_TIME, v \in Value : Abstract!Finds(Versions, ts, v) <=> Abstract!Finds(W, ts, v)
  <2> SUFFICES ASSUME NEW ts \in min_bt .. MAX_TIME, NEW v \in Value
               PROVE  Abstract!Finds(Versions, ts, v) <=> Abstract!Finds(W, ts, v)
    BY SMTT(30)
  <2>1. ts \in Nat /\ min_bt <= ts /\ min_bt \in Nat
    BY Numbers DEF IInv, TypeOK
  <2>2. \A i \in 1 .. size - 1 : /\ i \in 1 .. size /\ i + 1 \in 1 .. size
                                 /\ Versions[i].begin < Versions[i + 1].begin
                                 /\ GetEndTime(chain[i]) = Versions[i + 1].begin
                                 /\ Versions[i + 1].begin \in Nat
    <3>1. \A i \in 1 .. size - 1 : i \in 1 .. size /\ i + 1 \in 1 .. size /\ i \in 1 .. Last - 1
      BY <1>5, <1>7, SMTT(30)
    <3> QED
      BY <1>3, <1>11, <1>12, <3>1, ZenonT(30)
  <2>3. \A j \in 1 .. n - 1 : Versions[j + 1].begin <= ts
    <3>1. \A j \in 1 .. n - 1 : j \in 1 .. size - 1
      BY <1>8, SMTT(30)
    <3>2. \A j \in 1 .. n - 1 : GetEndTime(chain[j]) < min_bt
      BY <1>1, <1>2, SMTT(30)
    <3>3. \A j \in 1 .. n - 1 : GetEndTime(chain[j]) = Versions[j + 1].begin /\ Versions[j + 1].begin \in Nat
      BY <2>2, <3>1, Zenon
    <3> QED
      BY <2>1, <3>2, <3>3, SMTT(30)
  <2>4. \/ n < size /\ Versions[n + 1].begin <= ts
        \/ n = size /\ Versions[n].val = Empty
    <3>1. CASE GetEndTime(chain[n]) < min_bt
      <4>1. n < size /\ n \in 1 .. size - 1
        BY <1>1, <1>2, <1>5, <1>7, <1>8, <3>1, SMTT(30)
      <4> QED
        BY <2>1, <2>2, <3>1, <4>1, SMTT(30)
    <3>2. CASE ~ (GetEndTime(chain[n]) < min_bt)
      BY <1>1, <1>2, <1>5, <1>7, <1>8, <1>12, <3>2
    <3> QED
      BY <3>1, <3>2, SMTT(30)
  <2>5. \A i \in 1 .. size - 1 : Versions[i].begin < Versions[i + 1].begin
    BY <2>2, SMTT(30)
  <2>6. /\ Versions # <<>> /\ (W = <<>> <=> n = size)
        /\ \A i \in 1 .. size : Versions[i].begin \in Nat
    <3>1. Versions # <<>>
      BY <1>8, <1>12
    <3>2. W = <<>> <=> Len(W) = 0
      BY <1>14, EmptySeq, SMTT(30)
    <3>3. Len(W) = 0 <=> n = size
      BY <1>8, <1>14
    <3> QED
      BY <1>11, <1>12, <3>1, <3>2, <3>3, SMTT(30)
  <2> QED
    BY <1>8, <1>12, <1>14, <2>1, <2>3, <2>4, <2>5, <2>6, DropFinds, ZenonT(30)
<1>17. n \in 1 .. Len(Versions) /\ Len(Versions) \in Nat
  BY <1>8, <1>12, SMTT(30)
<1> QED
  BY <1>0, <1>6, <1>15, <1>16, <1>17, AbstractCollect, Zenon DEF W

-----------------------------------------------------------------------------
LEMMA RefinesStep ==
  ASSUME ~ IsEdge
  PROVE  IInv /\ IInv' /\ [Next]_vars => [Abstract!Next]_(Abstract!vars)
<1> SUFFICES ASSUME IInv, IInv', [Next]_vars
             PROVE  Abstract!Next \/ UNCHANGED Abstract!vars
  OBVIOUS
<1>0. IInv /\ IInv'
  OBVIOUS
<1>1. ASSUME UNCHANGED <<itemVars, ptrVars, pool, garbage, chain>>, min_bt' = min_bt
      PROVE  UNCHANGED Abstract!vars
  BY <1>1, SameList, AbstractStutter, SMTT(30) DEF itemVars, ptrVars
<1>2. ASSUME NEW t \in Trx, Begin(t) \/ Validate(t) PROVE UNCHANGED Abstract!vars
  BY <1>1, <1>2, SMTT(30) DEF Begin, Validate
<1>3. ASSUME NEW t \in Trx, Finish(t) PROVE Abstract!Next \/ UNCHANGED Abstract!vars
  BY <1>0, <1>1, <1>3, RefinesCommit, RefinesAbort, SMTT(30) DEF Finish
<1>4. ASSUME NEW t \in Trx, NEW v \in Value, AppendVersion(t, v) PROVE Abstract!Next
  BY <1>0, <1>4, RefinesAppend
<1>5. CASE UpdateGlobalMinBT
  <2>2. Versions' = Versions /\ Writer' = Writer /\ WVal' = WVal
    BY <1>5, SameList DEF UpdateGlobalMinBT, itemVars, ptrVars
  <2>4. min_bt < min_bt'
    BY <1>5, SMTT(30) DEF UpdateGlobalMinBT
  <2>5. min_bt' \in 0 .. MAX_TIME
    BY <1>0, Numbers DEF IInv, TypeOK
  <2> QED
    BY <2>2, <2>4, <2>5, AbstractRaise
<1>6. CASE ScanMVCCList
  BY <1>0, <1>6, RefinesScan
<1>7. ASSUME NEW i \in Item, FreeItem(i) PROVE UNCHANGED Abstract!vars
  BY <1>7, SameList, AbstractStutter DEF FreeItem, ptrVars, trxVars
<1>8. CASE UNCHANGED vars
  BY <1>1, <1>8 DEF vars, itemVars, ptrVars
<1> QED
  BY <1>2, <1>3, <1>4, <1>5, <1>6, <1>7, <1>8 DEF Next

(* A property's MVCCList implements VersionChain, on any number of         *)
(* workers: pointers, pool, writer and collector together do what the      *)
(* abstract list of versions does, with the watermark as its floor.        *)
THEOREM PropertyListImplements ==
  ASSUME ~ IsEdge
  PROVE  Spec => ImplementsVersionChain
<1>1. IInv /\ IInv' /\ [Next]_vars => [Abstract!Next]_(Abstract!vars)
  BY RefinesStep
<1> QED
  BY <1>1, RefinesInit, AlwaysIInv, PTL DEF Spec, ImplementsVersionChain, Abstract!Spec
=============================================================================
