-------------------------- MODULE MVCCListInvariant --------------------------
(***************************************************************************)
(* The inductive invariant of MVCCList, for every pool of items, any       *)
(* number of transactions, values and timestamps, and the steps of the     *)
(* writers that preserve it.  The collector's scan is in MVCCListProofs.   *)
(*                                                                         *)
(* The invariants of the list are not inductive without the times of the   *)
(* transactions (Times below): a version commits behind the others because *)
(* its commit time was handed out after they were in the list, and the     *)
(* list has no pre_tail_ of its own to rely on once its tail is committed. *)
(***************************************************************************)
EXTENDS MVCCList, SequenceTheorems, WellFoundedInduction, TLAPS

(* No time of a transaction is ahead of the clock, an uncommitted tail     *)
(* belongs to a running transaction, and a commit time that was handed out *)
(* to its owner is later than the versions in front of it.                 *)
Times ==
  /\ \A t \in Trx : bt[t] <= clock /\ ct[t] <= clock
  /\ \A i \in 1 .. Len(chain) : begin_time[chain[i]] <= MAX_TIME => begin_time[chain[i]] <= clock
  /\ chain # <<>> /\ begin_time[tail] > MAX_TIME
       => stat[begin_time[tail]] \in {"processing", "validating"}
  /\ chain # <<>> /\ begin_time[tail] > MAX_TIME /\ stat[begin_time[tail]] = "validating"
       => \A i \in 1 .. Len(chain) - 1 : begin_time[chain[i]] < ct[begin_time[tail]]

(* The pointers and the lifetimes. *)
Shape == ListShape /\ ItemsPartitioned /\ LifetimesAdjacent /\ TmpPreTailOnlyUncommitted

IInv == TypeOK /\ Shape /\ Times

-----------------------------------------------------------------------------
(* Numbers of the model. *)
LEMMA Numbers ==
  /\ MaxTS \in Nat /\ MAX_TIME = MaxTS + 1
  /\ \A t \in Trx : t \in Nat /\ t > MAX_TIME
  /\ \A x \in Time \cup Trx : x \in Nat /\ (x > MAX_TIME => x \in Trx) /\ (x <= MAX_TIME => x \in Time)
BY NumAssumption DEF MAX_TIME, MIN_TIME, Trx, Time

(* A set of numbers that is not empty has a least one. *)
LEMMA Least ==
  ASSUME NEW T \in SUBSET Nat, T # {}
  PROVE  \E x \in T : \A y \in T : x <= y
<1> DEFINE R == OpToRel(<, Nat)
<1>1. IsWellFoundedOn(R, Nat)
  BY NatLessThanWellFounded, Zenon
<1>2. \A x, y \in Nat : y < x => <<y, x>> \in R
  BY DEF OpToRel
<1> HIDE DEF R
<1>3. PICK x \in T : \A y \in T : ~ (<<y, x>> \in R)
  BY <1>1, WFMin, Zenon
<1>4. \A y \in T : ~ (y < x) /\ y \in Nat /\ x \in Nat
  BY <1>2, <1>3, Zenon
<1> QED
  BY <1>4

(* Ends of a list that is not empty. *)
LEMMA Ends ==
  ASSUME TypeOK, ListShape, chain # <<>>
  PROVE  /\ Len(chain) \in Nat /\ Len(chain) >= 1
         /\ head = chain[1] /\ tail = chain[Len(chain)] /\ head \in Item /\ tail \in Item
         /\ head # NULL /\ tail # NULL /\ next[tail] = NULL
         /\ \A i \in 1 .. Len(chain) : chain[i] \in Item
<1>1. Len(chain) \in Nat /\ Len(chain) >= 1 /\ \A i \in 1 .. Len(chain) : chain[i] \in Item
  BY DEF TypeOK
<1>2. head = chain[1] /\ tail = chain[Len(chain)] /\ next[tail] = NULL
  BY DEF ListShape
<1> QED
  BY <1>1, <1>2, NULLAssumption

(* Writes(t) says that the tail holds the identifier of t. *)
LEMMA WritesMeans ==
  ASSUME TypeOK, NEW t \in Trx
  PROVE  Writes(t) <=> tail # NULL /\ begin_time[tail] = t
BY Numbers DEF Writes, GetTransactionID, IS_VALID_TRX_ID

(* The initial list. *)
LEMMA InitInv == Init => IInv
<1> SUFFICES ASSUME Init PROVE IInv
  OBVIOUS
<1>0. /\ \A t \in Trx : bt[t] = 0 /\ ct[t] = 0 /\ stat[t] = "idle"
      /\ clock = 0 /\ min_bt = 0 /\ garbage = {}
      /\ \A i \in Item : next[i] = NULL /\ begin_time[i] = 0
  BY DEF Init, EmptyList, AppendInitialVersion, MIN_TIME
<1>1. CASE EmptyList
  <2>1. chain = <<>> /\ head = NULL /\ tail = NULL /\ tmp_pre_tail = NULL /\ pre_tail = NULL /\ pool = Item
    BY <1>1 DEF EmptyList
  <2>2. TypeOK
    BY <1>1, <2>1, Numbers, ValueAssumption DEF Init, EmptyList, TypeOK, MIN_TIME, Time
  <2>3. Shape
    BY <1>0, <2>1 DEF Shape, ListShape, ItemsPartitioned, LifetimesAdjacent, TmpPreTailOnlyUncommitted, Items
  <2> QED
    BY <1>0, <2>1, <2>2, <2>3 DEF IInv, Times
<1>2. ASSUME NEW c \in Item, NEW v \in Value \ {Empty}, AppendInitialVersion(c, v)
      PROVE  IInv
  <2>1. /\ chain = <<c>> /\ head = c /\ tail = c /\ pre_tail = c /\ tmp_pre_tail = NULL
        /\ pool = Item \ {c} /\ end_time[c] = MAX_TIME /\ begin_time[c] = 0
    BY <1>2 DEF AppendInitialVersion, MIN_TIME
  <2>2. TypeOK
    BY <1>2, <2>1, Numbers, ValueAssumption DEF Init, AppendInitialVersion, TypeOK, MIN_TIME, Time
  <2>3. Len(chain) = 1 /\ chain[1] = c /\ chain # <<>> /\ c # NULL
    BY <2>1, NULLAssumption
  <2>4. ListShape /\ TmpPreTailOnlyUncommitted /\ LifetimesAdjacent
    BY <1>0, <2>1, <2>3, Numbers
    DEF ListShape, LifetimesAdjacent, TmpPreTailOnlyUncommitted, IS_VALID_TRX_ID
  <2>5. ItemsPartitioned
    <3>1. Items = {c}
      BY <2>3 DEF Items
    <3> QED
      BY <1>0, <2>1, <3>1 DEF ItemsPartitioned
  <2>6. Times
    BY <1>0, <2>1, <2>3, Numbers DEF Times
  <2> QED
    BY <2>2, <2>4, <2>5, <2>6 DEF IInv, Shape
<1> QED
  BY <1>1, <1>2 DEF Init

-----------------------------------------------------------------------------
(* Steps that leave the list alone. *)
LEMMA ListAlone ==
  ASSUME Shape, UNCHANGED <<itemVars, ptrVars, pool, garbage, chain>>
  PROVE  Shape'
<1>1. /\ begin_time' = begin_time /\ end_time' = end_time /\ next' = next /\ val' = val
      /\ head' = head /\ tail' = tail /\ pre_tail' = pre_tail /\ tmp_pre_tail' = tmp_pre_tail
      /\ pool' = pool /\ garbage' = garbage /\ chain' = chain
  BY DEF itemVars, ptrVars
<1> QED
  BY <1>1 DEF Shape, ListShape, ItemsPartitioned, LifetimesAdjacent, TmpPreTailOnlyUncommitted, Items

LEMMA BeginInv ==
  ASSUME IInv, NEW t \in Trx, Begin(t)
  PROVE  IInv'
<1> USE DEF IInv
<1>0. /\ begin_time' = begin_time /\ end_time' = end_time /\ next' = next /\ val' = val
      /\ head' = head /\ tail' = tail /\ pre_tail' = pre_tail /\ tmp_pre_tail' = tmp_pre_tail
      /\ pool' = pool /\ garbage' = garbage /\ chain' = chain /\ ct' = ct /\ min_bt' = min_bt
      /\ clock' = clock + 1 /\ clock < MaxTS /\ stat[t] = "idle"
      /\ bt' = [bt EXCEPT ![t] = clock + 1] /\ stat' = [stat EXCEPT ![t] = "processing"]
  BY DEF Begin, itemVars, ptrVars
<1>1. TypeOK'
  BY <1>0, Numbers DEF TypeOK
<1>2. Shape'
  BY ListAlone DEF Begin
<1>3. /\ clock \in Nat /\ min_bt \in Nat
      /\ bt'[t] = clock + 1 /\ stat'[t] = "processing"
      /\ \A u \in Trx : u # t => bt'[u] = bt[u] /\ stat'[u] = stat[u]
      /\ \A u \in Trx : bt[u] \in Nat /\ ct[u] \in Nat
  BY <1>0 DEF TypeOK
<1>4. Times'
  <2>1. \A u \in Trx : bt'[u] <= clock' /\ ct'[u] <= clock'
    BY <1>0, <1>3 DEF Times
  <2>2. \A i \in 1 .. Len(chain) : begin_time[chain[i]] \in Nat
    BY Numbers DEF TypeOK
  <2>3. chain # <<>> /\ begin_time[tail] > MAX_TIME => begin_time[tail] \in Trx /\ begin_time[tail] # t
    BY <1>0, Numbers, Ends DEF TypeOK, Shape, Times
  <2> QED
    BY <1>0, <1>3, <2>1, <2>2, <2>3 DEF Times
<1> QED
  BY <1>1, <1>2, <1>4

LEMMA ValidateInv ==
  ASSUME IInv, NEW t \in Trx, Validate(t)
  PROVE  IInv'
<1> USE DEF IInv
<1>0. /\ begin_time' = begin_time /\ end_time' = end_time /\ next' = next /\ val' = val
      /\ head' = head /\ tail' = tail /\ pre_tail' = pre_tail /\ tmp_pre_tail' = tmp_pre_tail
      /\ pool' = pool /\ garbage' = garbage /\ chain' = chain /\ bt' = bt /\ min_bt' = min_bt
      /\ clock' = clock + 1 /\ clock < MaxTS /\ stat[t] = "processing"
      /\ ct' = [ct EXCEPT ![t] = clock + 1] /\ stat' = [stat EXCEPT ![t] = "validating"]
  BY DEF Validate, itemVars, ptrVars
<1>1. TypeOK'
  BY <1>0, Numbers DEF TypeOK
<1>2. Shape'
  BY ListAlone DEF Validate
<1>3. /\ clock \in Nat /\ min_bt \in Nat
      /\ ct'[t] = clock + 1 /\ stat'[t] = "validating"
      /\ \A u \in Trx : u # t => ct'[u] = ct[u] /\ stat'[u] = stat[u]
      /\ \A u \in Trx : bt[u] \in Nat /\ ct[u] \in Nat
  BY <1>0 DEF TypeOK
<1>4. Times'
  <2>1. \A u \in Trx : bt'[u] <= clock' /\ ct'[u] <= clock'
    BY <1>0, <1>3 DEF Times
  <2>2. \A i \in 1 .. Len(chain) : begin_time[chain[i]] \in Nat
    BY Numbers DEF TypeOK
  <2>3. chain # <<>> /\ begin_time[tail] > MAX_TIME => begin_time[tail] \in Trx
    BY <1>0, Numbers, Ends DEF TypeOK, Shape
  <2>4. \A i \in 1 .. Len(chain) - 1 : begin_time[chain[i]] <= clock
    <3>1. Len(chain) \in Nat
      BY DEF TypeOK
    <3>2. \A i \in 1 .. Len(chain) - 1 : begin_time[chain[i]] <= MAX_TIME
      BY <2>2, <3>1, Numbers DEF Shape, LifetimesAdjacent, IS_VALID_TRX_ID
    <3> QED
      BY <3>1, <3>2 DEF Times
  <2>5. ASSUME chain # <<>>, begin_time[tail] > MAX_TIME
        PROVE  /\ stat'[begin_time[tail]] \in {"processing", "validating"}
               /\ stat'[begin_time[tail]] = "validating"
                    => \A i \in 1 .. Len(chain) - 1 : begin_time[chain[i]] < ct'[begin_time[tail]]
    <3>1. CASE begin_time[tail] = t
      <4>1. \A i \in 1 .. Len(chain) - 1 : begin_time[chain[i]] < clock + 1
        <5>1. Len(chain) \in Nat
          BY DEF TypeOK
        <5>2. \A i \in 1 .. Len(chain) - 1 : begin_time[chain[i]] \in Nat
          BY <2>2, <5>1
        <5> QED
          BY <1>3, <2>4, <5>2
      <4> QED
        BY <1>3, <3>1, <4>1
    <3>2. CASE begin_time[tail] # t
      BY <1>3, <2>3, <2>5, <3>2 DEF Times
    <3> QED
      BY <3>1, <3>2
  <2> QED
    BY <1>0, <1>3, <2>1, <2>2, <2>5 DEF Times
<1> QED
  BY <1>1, <1>2, <1>4

LEMMA UpdateGlobalMinBTInv ==
  ASSUME IInv, UpdateGlobalMinBT
  PROVE  IInv'
<1> USE DEF IInv
<1>0. PICK t \in Trx : \E m \in {bt[t], bt[t] + 1} : min_bt' = m
  BY DEF UpdateGlobalMinBT
<1>1. /\ begin_time' = begin_time /\ end_time' = end_time /\ next' = next /\ val' = val
      /\ head' = head /\ tail' = tail /\ pre_tail' = pre_tail /\ tmp_pre_tail' = tmp_pre_tail
      /\ pool' = pool /\ garbage' = garbage /\ chain' = chain
      /\ bt' = bt /\ ct' = ct /\ clock' = clock /\ stat' = stat
  BY DEF UpdateGlobalMinBT, itemVars, ptrVars
<1>2. /\ clock \in Nat /\ clock <= MaxTS /\ MaxTS \in Nat
      /\ bt[t] \in Nat /\ bt[t] <= clock
  BY Numbers DEF TypeOK, Times
<1>3. min_bt' \in 0 .. MaxTS + 1
  BY <1>0, <1>2
<1>4. TypeOK'
  BY <1>1, <1>3 DEF TypeOK
<1>5. Shape'
  BY ListAlone DEF UpdateGlobalMinBT
<1>6. Times'
  BY <1>1 DEF Times
<1> QED
  BY <1>4, <1>5, <1>6

LEMMA FreeItemInv ==
  ASSUME IInv, NEW i \in Item, FreeItem(i)
  PROVE  IInv'
<1> USE DEF IInv
<1>1. /\ begin_time' = begin_time /\ end_time' = end_time /\ val' = val
      /\ head' = head /\ tail' = tail /\ pre_tail' = pre_tail /\ tmp_pre_tail' = tmp_pre_tail
      /\ chain' = chain /\ bt' = bt /\ ct' = ct /\ clock' = clock /\ stat' = stat /\ min_bt' = min_bt
      /\ next' = [next EXCEPT ![i] = NULL] /\ i \in garbage
      /\ garbage' = garbage \ {i} /\ pool' = pool \cup {i}
  BY DEF FreeItem, ptrVars, trxVars
<1>2. TypeOK'
  BY <1>1 DEF TypeOK
<1>3. \A j \in 1 .. Len(chain) : chain[j] # i /\ chain[j] \in Item
  <2>1. i \notin Items
    BY <1>1 DEF Shape, ItemsPartitioned
  <2> QED
    BY <2>1 DEF Items, TypeOK
<1>4. \A j \in 1 .. Len(chain) : next'[chain[j]] = next[chain[j]]
  BY <1>1, <1>3 DEF TypeOK
<1>5. ListShape'
  <2>1. chain # <<>> => next'[tail] = NULL
    BY <1>4, Ends DEF Shape
  <2>2. \A j \in 1 .. Len(chain) - 1 : next'[chain[j]] = chain[j + 1]
    <3>1. Len(chain) \in Nat
      BY DEF TypeOK
    <3> QED
      BY <1>4, <3>1 DEF Shape, ListShape
  <2> QED
    BY <1>1, <2>1, <2>2 DEF Shape, ListShape
<1>6. ItemsPartitioned'
  BY <1>1 DEF Shape, ItemsPartitioned, Items, TypeOK
<1>7. Shape'
  BY <1>1, <1>5, <1>6 DEF Shape, LifetimesAdjacent, TmpPreTailOnlyUncommitted
<1>8. Times'
  BY <1>1 DEF Times
<1> QED
  BY <1>2, <1>7, <1>8

-----------------------------------------------------------------------------
(* AppendVersion. *)
LEMMA AppendFirstInv ==
  ASSUME IInv, NEW t \in Trx, NEW v \in Value, stat[t] = "processing",
         AppendFirst(t, v), UNCHANGED trxVars
  PROVE  IInv'
<1> USE DEF IInv
<1>0. chain = <<>>
  BY DEF AppendFirst, Shape, ListShape
<1>1. PICK c \in pool :
        /\ begin_time' = [begin_time EXCEPT ![c] = t]
        /\ end_time' = [end_time EXCEPT ![c] = bt[t]]
        /\ next' = [next EXCEPT ![c] = NULL]
        /\ val' = [val EXCEPT ![c] = v]
        /\ head' = c /\ tail' = c /\ pre_tail' = c /\ tmp_pre_tail' = c
        /\ pool' = pool \ {c}
        /\ chain' = <<c>>
  BY Zenon DEF AppendFirst
<1>2. /\ garbage' = garbage /\ bt' = bt /\ ct' = ct /\ clock' = clock /\ stat' = stat /\ min_bt' = min_bt
      /\ c \in Item /\ c # NULL
  BY NULLAssumption DEF AppendFirst, trxVars, TypeOK
<1>3. bt[t] \in Time
  BY Numbers DEF TypeOK, Time, MIN_TIME
<1>4. TypeOK'
  BY <1>1, <1>2, <1>3 DEF TypeOK
<1>5. /\ Len(chain') = 1 /\ chain'[1] = c /\ chain' # <<>>
      /\ begin_time'[c] = t /\ next'[c] = NULL
  BY <1>1, <1>2 DEF TypeOK
<1>6. ListShape' /\ TmpPreTailOnlyUncommitted'
  BY <1>1, <1>2, <1>5, Numbers DEF ListShape, TmpPreTailOnlyUncommitted, IS_VALID_TRX_ID
<1>7. LifetimesAdjacent'
  BY <1>5, Numbers DEF LifetimesAdjacent, IS_VALID_TRX_ID
<1>8. ItemsPartitioned'
  <2>1. Items = {} /\ Items' = {c}
    BY <1>0, <1>5 DEF Items
  <2> QED
    BY <1>1, <1>2, <2>1 DEF Shape, ItemsPartitioned
<1>9. Times'
  BY <1>1, <1>2, <1>5, Numbers DEF Times
<1> QED
  BY <1>4, <1>6, <1>7, <1>8, <1>9 DEF Shape

LEMMA AppendOwnInv ==
  ASSUME IInv, NEW t \in Trx, NEW v \in Value, AppendOwn(t, v), UNCHANGED trxVars
  PROVE  IInv'
<1> USE DEF IInv
<1>1. /\ begin_time' = begin_time /\ end_time' = end_time /\ next' = next
      /\ head' = head /\ tail' = tail /\ pre_tail' = pre_tail /\ tmp_pre_tail' = tmp_pre_tail
      /\ pool' = pool /\ garbage' = garbage /\ chain' = chain
      /\ bt' = bt /\ ct' = ct /\ clock' = clock /\ stat' = stat /\ min_bt' = min_bt
      /\ val' = [val EXCEPT ![tail] = v]
  BY DEF AppendOwn, ptrVars, trxVars
<1>2. TypeOK'
  BY <1>1, ZenonT(30) DEF TypeOK
<1>3. Shape'
  BY <1>1, SMTT(30) DEF Shape, ListShape, ItemsPartitioned, LifetimesAdjacent, TmpPreTailOnlyUncommitted, Items
<1>4. Times'
  BY <1>1 DEF Times
<1> QED
  BY <1>2, <1>3, <1>4

LEMMA AppendNextInv ==
  ASSUME IInv, NEW t \in Trx, NEW v \in Value, stat[t] = "processing",
         AppendNext(t, v), UNCHANGED trxVars
  PROVE  IInv'
<1> USE DEF IInv
<1>0. chain # <<>> /\ begin_time[tail] <= MAX_TIME
  BY DEF AppendNext, Shape, ListShape
<1>1. PICK c \in pool :
        /\ begin_time' = [begin_time EXCEPT ![c] = t]
        /\ end_time' = [end_time EXCEPT ![c] = bt[t], ![tail] = t]
        /\ next' = [next EXCEPT ![c] = NULL, ![tail] = c]
        /\ val' = [val EXCEPT ![c] = v]
        /\ tmp_pre_tail' = pre_tail
        /\ pre_tail' = tail
        /\ tail' = c
        /\ pool' = pool \ {c}
        /\ chain' = Append(chain, c)
  BY Zenon DEF AppendNext
<1> DEFINE n == Len(chain)
<1>2. /\ garbage' = garbage /\ head' = head
      /\ bt' = bt /\ ct' = ct /\ clock' = clock /\ stat' = stat /\ min_bt' = min_bt
      /\ c \in Item /\ c # NULL
  BY NULLAssumption DEF AppendNext, trxVars, TypeOK
<1>3. /\ n \in Nat /\ n >= 1 /\ head = chain[1] /\ tail = chain[n] /\ tail \in Item
      /\ head # NULL /\ tail # NULL /\ \A i \in 1 .. n : chain[i] \in Item
  BY <1>0, Ends DEF Shape
<1>4. \A i \in 1 .. n : chain[i] # c
  BY DEF Shape, ItemsPartitioned, Items
<1>5. bt[t] \in Time
  BY Numbers DEF TypeOK, Time, MIN_TIME
<1>6. chain \in Seq(Item)
  BY DEF TypeOK
<1>7. /\ chain' \in Seq(Item) /\ Len(chain') = n + 1 /\ chain'[n + 1] = c
      /\ \A i \in 1 .. n : chain'[i] = chain[i]
  BY <1>1, <1>2, <1>6, AppendProperties
<1> HIDE DEF n
<1>8. TypeOK'
  <2>1. end_time' \in [Item -> Time \cup Trx] /\ next' \in [Item -> Item \cup {NULL}]
    BY <1>1, <1>2, <1>3, <1>5, Zenon DEF TypeOK
  <2>2. begin_time' \in [Item -> Time \cup Trx] /\ val' \in [Item -> Value]
    BY <1>1, <1>2 DEF TypeOK
  <2>3. {head', tail', pre_tail', tmp_pre_tail'} \subseteq Item \cup {NULL}
    BY <1>1, <1>2, <1>3 DEF TypeOK
  <2>4. pool' \subseteq Item /\ garbage' \subseteq Item
    BY <1>1, <1>2 DEF TypeOK
  <2> QED
    BY <1>2, <1>7, <2>1, <2>2, <2>3, <2>4 DEF TypeOK
<1>9. /\ begin_time'[c] = t /\ end_time'[tail] = t /\ next'[c] = NULL /\ next'[tail] = c
      /\ \A i \in 1 .. n : begin_time'[chain[i]] = begin_time[chain[i]]
      /\ \A x \in Item : x # c /\ x # tail => end_time'[x] = end_time[x] /\ next'[x] = next[x]
  BY <1>1, <1>2, <1>3, <1>4 DEF TypeOK
<1>10. \A i \in 1 .. n - 1 : chain[i] # tail
  BY <1>3 DEF Shape, ListShape, n
<1>11. ListShape'
  <2>1. chain' # <<>> /\ head' = chain'[1] /\ head' # NULL /\ tail' # NULL /\ tail' = chain'[Len(chain')]
    BY <1>1, <1>2, <1>3, <1>7, SMTT(30)
  <2>2. \A i, j \in 1 .. Len(chain') : chain'[i] = chain'[j] => i = j
    <3>1. \A i, j \in 1 .. n : chain[i] = chain[j] => i = j
      BY DEF Shape, ListShape, n
    <3> QED
      BY <1>3, <1>4, <1>7, <3>1, SMTT(30)
  <2>3. \A i \in 1 .. Len(chain') - 1 : next'[chain'[i]] = chain'[i + 1]
    <3> SUFFICES ASSUME NEW i \in 1 .. n PROVE next'[chain[i]] = chain'[i + 1]
      BY <1>3, <1>7
    <3>1. CASE i = n
      BY <1>3, <1>7, <1>9, <3>1
    <3>2. CASE i # n
      <4>1. i \in 1 .. n - 1 /\ i + 1 \in 1 .. n
        BY <1>3, <3>2
      <4>2. next[chain[i]] = chain[i + 1]
        BY <4>1 DEF Shape, ListShape, n
      <4> QED
        BY <1>3, <1>4, <1>7, <1>9, <1>10, <4>1, <4>2
    <3> QED
      BY <3>1, <3>2
  <2>4. pre_tail' = IF Len(chain') = 1 THEN tail' ELSE chain'[Len(chain') - 1]
    BY <1>1, <1>3, <1>7
  <2>5. next'[tail'] = NULL
    BY <1>1, <1>9, SMTT(30)
  <2> QED
    BY <2>1, <2>2, <2>3, <2>4, <2>5, SMTT(30) DEF ListShape
<1>12. ItemsPartitioned'
  <2>1. Items' = Items \cup {c}
    BY <1>3, <1>7 DEF Items, n
  <2>2. c \notin garbage
    BY SMTT(30) DEF Shape, ItemsPartitioned
  <2> QED
    BY <1>1, <1>2, <2>1, <2>2 DEF Shape, ItemsPartitioned
<1>13. LifetimesAdjacent'
  <2> SUFFICES ASSUME NEW i \in 1 .. n + 1
               PROVE  /\ i < n + 1 => begin_time'[chain'[i]] <= MAX_TIME
                      /\ i < n + 1 => end_time'[chain'[i]] = begin_time'[chain'[i + 1]]
                      /\ i < n + 1 => begin_time'[chain'[i]] < begin_time'[chain'[i + 1]]
                      /\ i = n + 1 => begin_time'[chain'[i]] > MAX_TIME
    <3>1. begin_time' \in [Item -> Time \cup Trx]
      BY <1>8, SMTT(30) DEF TypeOK
    <3>2. \A j \in 1 .. n + 1 : chain'[j] \in Item
      BY <1>3, <1>7, SMTT(30)
    <3>3. \A j \in 1 .. n + 1 : begin_time'[chain'[j]] \in Nat
      BY <3>1, <3>2, Numbers
    <3> QED
      BY <1>7, <3>3, Numbers, SMTT(30) DEF LifetimesAdjacent, IS_VALID_TRX_ID
  <2>0. t > MAX_TIME /\ t \in Nat /\ MAX_TIME \in Nat
    BY Numbers
  <2>1. CASE i = n + 1
    BY <1>7, <1>9, <2>0, <2>1
  <2>2. CASE i = n
    <3>1. begin_time[tail] \in Nat
      BY <1>3, Numbers DEF TypeOK
    <3>2. chain'[i] = tail /\ chain'[i + 1] = c /\ begin_time'[tail] = begin_time[tail]
      BY <1>3, <1>7, <1>9, <2>2, SMTT(30)
    <3> QED
      BY <1>0, <1>3, <1>9, <2>0, <2>2, <3>1, <3>2
  <2>3. CASE i < n
    <3>1. i \in 1 .. n /\ i + 1 \in 1 .. n /\ i \in 1 .. n - 1
      BY <1>3, <2>3
    <3>2. /\ ~ IS_VALID_TRX_ID(begin_time[chain[i]])
          /\ end_time[chain[i]] = begin_time[chain[i + 1]]
          /\ begin_time[chain[i]] < begin_time[chain[i + 1]]
      BY <2>3, <3>1 DEF Shape, LifetimesAdjacent, n
    <3>3. chain'[i] = chain[i] /\ chain'[i + 1] = chain[i + 1] /\ end_time'[chain[i]] = end_time[chain[i]]
      BY <1>3, <1>4, <1>7, <1>9, <1>10, <3>1
    <3>4. begin_time[chain[i]] \in Nat
      BY <1>3, <3>1, Numbers DEF TypeOK
    <3> QED
      BY <1>3, <1>9, <2>0, <2>3, <3>1, <3>2, <3>3, <3>4 DEF IS_VALID_TRX_ID
  <2> QED
    BY <1>3, <2>1, <2>2, <2>3, SMTT(30)
<1>14. TmpPreTailOnlyUncommitted'
  BY <1>1, <1>2, <1>9, Numbers DEF TmpPreTailOnlyUncommitted, IS_VALID_TRX_ID
<1>15. Times'
  <2>1. \A i \in 1 .. n + 1 : begin_time'[chain'[i]] <= MAX_TIME => begin_time'[chain'[i]] <= clock
    <3> SUFFICES ASSUME NEW i \in 1 .. n + 1, begin_time'[chain'[i]] <= MAX_TIME
                 PROVE  begin_time'[chain'[i]] <= clock
      OBVIOUS
    <3>1. CASE i = n + 1
      BY <1>7, <1>9, <3>1, Numbers, SMTT(30)
    <3>2. CASE i \in 1 .. n
      BY <1>7, <1>9, <3>2 DEF Times, n
    <3> QED
      BY <1>3, <3>1, <3>2
  <2> QED
    BY <1>1, <1>2, <1>7, <1>9, <2>1, ZenonT(30) DEF Times
<1> QED
  BY <1>8, <1>11, <1>12, <1>13, <1>14, <1>15 DEF Shape

-----------------------------------------------------------------------------
(* The end of a list whose tail is an uncommitted version of t. *)
LEMMA OwnTail ==
  ASSUME IInv, NEW t \in Trx, Writes(t)
  PROVE  /\ chain # <<>> /\ chain \in Seq(Item) /\ Len(chain) \in Nat /\ Len(chain) >= 1
         /\ head = chain[1] /\ tail = chain[Len(chain)] /\ head # NULL /\ tail # NULL
         /\ \A i \in 1 .. Len(chain) : chain[i] \in Item
         /\ begin_time[tail] = t /\ t \in Nat /\ t > MAX_TIME /\ IS_VALID_TRX_ID(begin_time[tail])
         /\ Len(chain) = 1 => pre_tail = tail
         /\ Len(chain) > 1 => pre_tail = chain[Len(chain) - 1]
         /\ \A i \in 1 .. Len(chain) - 1 : chain[i] # tail
<1> USE DEF IInv
<1>1. tail # NULL /\ begin_time[tail] = t
  BY WritesMeans
<1>2. chain # <<>>
  BY <1>1 DEF Shape, ListShape
<1>3. /\ Len(chain) \in Nat /\ Len(chain) >= 1 /\ head = chain[1] /\ tail = chain[Len(chain)]
      /\ head # NULL /\ \A i \in 1 .. Len(chain) : chain[i] \in Item
  BY <1>2, Ends DEF Shape
<1>4. t \in Nat /\ t > MAX_TIME /\ IS_VALID_TRX_ID(begin_time[tail])
  BY <1>1, Numbers DEF IS_VALID_TRX_ID
<1>5. pre_tail = IF Len(chain) = 1 THEN tail ELSE chain[Len(chain) - 1]
  BY <1>2, <1>4 DEF Shape, ListShape
<1>6. \A i \in 1 .. Len(chain) - 1 : chain[i] # tail
  BY <1>3 DEF Shape, ListShape
<1> QED
  BY <1>1, <1>2, <1>3, <1>4, <1>5, <1>6 DEF TypeOK

(* The transaction that finishes: its status and the times. *)
LEMMA FinishedTimes ==
  ASSUME IInv, NEW t \in Trx, stat' = [stat EXCEPT ![t] = "finished"],
         UNCHANGED <<clock, bt, ct, min_bt>>
  PROVE  /\ stat' \in [Trx -> {"idle", "processing", "validating", "finished"}]
         /\ \A u \in Trx : u # t => stat'[u] = stat[u]
         /\ \A u \in Trx : bt'[u] <= clock' /\ ct'[u] <= clock'
<1> USE DEF IInv
<1>1. \A u \in Trx : u # t => stat'[u] = stat[u]
  BY DEF TypeOK
<1>2. stat'[t] = "finished"
  BY DEF TypeOK
<1> QED
  BY <1>1, <1>2 DEF TypeOK, Times

(* CommitVersion closes the item in front of the tail at the commit time   *)
(* of the tail.                                                            *)
LEMMA CommitVersionInv ==
  ASSUME IInv, NEW t \in Trx, stat[t] = "validating", CommitVersion(t),
         stat' = [stat EXCEPT ![t] = "finished"], UNCHANGED <<clock, bt, ct, min_bt>>
  PROVE  IInv'
<1> USE DEF IInv
<1> DEFINE n == Len(chain)
<1>1. /\ chain # <<>> /\ n \in Nat /\ n >= 1 /\ tail = chain[n] /\ head # NULL /\ tail # NULL
      /\ \A i \in 1 .. n : chain[i] \in Item
      /\ begin_time[tail] = t /\ t > MAX_TIME
      /\ n = 1 => pre_tail = tail
      /\ n > 1 => pre_tail = chain[n - 1]
      /\ \A i \in 1 .. n - 1 : chain[i] # tail
  BY OwnTail DEF CommitVersion
<1>2. /\ next' = next /\ val' = val /\ head' = head /\ tail' = tail /\ pre_tail' = pre_tail
      /\ pool' = pool /\ garbage' = garbage /\ chain' = chain /\ tmp_pre_tail' = NULL
      /\ begin_time' = [begin_time EXCEPT ![tail] = ct[t]]
  BY DEF CommitVersion
<1>3. ct[t] \in Nat /\ ct[t] <= clock /\ ct[t] < MAX_TIME /\ ct[t] \in Time /\ MAX_TIME \in Time /\ MAX_TIME \in Nat
  BY Numbers DEF TypeOK, Times, Time, MIN_TIME
<1>4. \A i \in 1 .. n - 1 : begin_time[chain[i]] < ct[t]
  BY <1>1 DEF Times
<1>5. /\ end_time' \in [Item -> Time \cup Trx] /\ end_time'[tail] = MAX_TIME
      /\ n > 1 => end_time'[chain[n - 1]] = ct[t]
      /\ \A i \in 1 .. n - 2 : end_time'[chain[i]] = end_time[chain[i]]
  <2>1. CASE n = 1
    BY <1>1, <1>3, <2>1 DEF CommitVersion, TypeOK
  <2>2. CASE n > 1
    <3>1. n - 1 \in 1 .. n - 1 /\ n - 1 \in 1 .. n /\ n \in 1 .. n
      BY <1>1, <2>2
    <3>2. pre_tail # NULL /\ pre_tail # tail /\ pre_tail \in Item /\ pre_tail = chain[n - 1] /\ tail \in Item
      BY <1>1, <2>2, <3>1, NULLAssumption
    <3>3. end_time' = [end_time EXCEPT ![tail] = MAX_TIME, ![pre_tail] = ct[t]]
      BY <3>2 DEF CommitVersion
    <3>4. \A i \in 1 .. n - 2 : chain[i] # tail /\ chain[i] # pre_tail /\ chain[i] \in Item
      <4>1. \A i, j \in 1 .. n : chain[i] = chain[j] => i = j
        BY DEF Shape, ListShape
      <4> QED
        BY <1>1, <3>1, <3>2, <4>1
    <3> QED
      BY <1>3, <3>2, <3>3, <3>4, Zenon DEF TypeOK
  <2>3. n = 1 \/ n > 1
    <3>1. n \in Nat /\ n >= 1
      BY <1>1
    <3> HIDE DEF n
    <3> QED
      BY <3>1
  <2> QED
    BY <2>1, <2>2, <2>3
<1>6. begin_time' \in [Item -> Time \cup Trx] /\ begin_time'[tail] = ct[t]
  BY <1>1, <1>2, <1>3 DEF TypeOK
<1>7. \A i \in 1 .. n - 1 : begin_time'[chain[i]] = begin_time[chain[i]] /\ begin_time[chain[i]] \in Nat
  BY <1>1, <1>2, Numbers, SMTT(30) DEF TypeOK
<1> HIDE DEF n
<1>8. TypeOK'
  BY <1>2, <1>5, <1>6, FinishedTimes DEF TypeOK
<1>9. ~ IS_VALID_TRX_ID(begin_time'[tail])
  BY <1>3, <1>6, SMTT(30) DEF IS_VALID_TRX_ID
<1>10. ListShape' /\ TmpPreTailOnlyUncommitted'
  BY <1>2, <1>9, SMTT(30) DEF Shape, ListShape, TmpPreTailOnlyUncommitted
<1>11. ItemsPartitioned'
  BY <1>2 DEF Shape, ItemsPartitioned, Items
<1>12. LifetimesAdjacent'
  <2> SUFFICES ASSUME NEW i \in 1 .. n
               PROVE  /\ i < n => ~ IS_VALID_TRX_ID(begin_time'[chain[i]])
                      /\ i < n => end_time'[chain[i]] = begin_time'[chain[i + 1]]
                      /\ i < n => begin_time'[chain[i]] < begin_time'[chain[i + 1]]
                      /\ i = n => end_time'[chain[i]] = MAX_TIME
    BY <1>2, Zenon DEF LifetimesAdjacent, n
  <2>1. CASE i = n
    BY <1>1, <1>5, <2>1
  <2>2. CASE i < n
    <3>1. i \in 1 .. n - 1 /\ i + 1 \in 1 .. n
      BY <1>1, <2>2
    <3>2. /\ ~ IS_VALID_TRX_ID(begin_time[chain[i]])
          /\ end_time[chain[i]] = begin_time[chain[i + 1]]
          /\ begin_time[chain[i]] < begin_time[chain[i + 1]]
      BY <2>2, <3>1 DEF Shape, LifetimesAdjacent, n
    <3>3. CASE i = n - 1
      BY <1>1, <1>4, <1>5, <1>6, <1>7, <3>1, <3>2, <3>3, SMTT(30)
    <3>4. CASE i < n - 1
      <4>1. i \in 1 .. n - 2 /\ i + 1 \in 1 .. n - 1
        BY <1>1, <3>1, <3>4, SMTT(30)
      <4> QED
        BY <1>5, <1>7, <2>2, <3>1, <3>2, <4>1
    <3> QED
      BY <1>1, <3>1, <3>3, <3>4
  <2> QED
    BY <1>1, <2>1, <2>2
<1>13. Times'
  <2>1. \A i \in 1 .. n : begin_time'[chain[i]] <= MAX_TIME => begin_time'[chain[i]] <= clock
    <3> SUFFICES ASSUME NEW i \in 1 .. n, begin_time'[chain[i]] <= MAX_TIME
                 PROVE  begin_time'[chain[i]] <= clock
      OBVIOUS
    <3>1. CASE i = n
      BY <1>1, <1>3, <1>6, <3>1
    <3>2. CASE i \in 1 .. n - 1
      BY <1>7, <3>2 DEF Times, n
    <3> QED
      BY <1>1, <3>1, <3>2
  <2>2. ~ (begin_time'[tail'] > MAX_TIME)
    BY <1>2, <1>9 DEF IS_VALID_TRX_ID
  <2> QED
    BY <1>2, <2>1, <2>2, FinishedTimes DEF Times, n
<1> QED
  BY <1>8, <1>10, <1>11, <1>12, <1>13, FinishedTimes, Zenon DEF Shape

(* AbortVersion opens the item in front of the tail again. *)
LEMMA AbortVersionInv ==
  ASSUME IInv, NEW t \in Trx, AbortVersion(t),
         stat' = [stat EXCEPT ![t] = "finished"], UNCHANGED <<clock, bt, ct, min_bt>>
  PROVE  IInv'
<1> USE DEF IInv
<1> DEFINE n == Len(chain)
<1>1. /\ chain # <<>> /\ chain \in Seq(Item) /\ n \in Nat /\ n >= 1
      /\ head = chain[1] /\ tail = chain[n] /\ head # NULL /\ tail # NULL
      /\ \A i \in 1 .. n : chain[i] \in Item
      /\ n = 1 => pre_tail = tail
      /\ n > 1 => pre_tail = chain[n - 1]
      /\ \A i \in 1 .. n - 1 : chain[i] # tail
  BY OwnTail DEF AbortVersion
<1>2. /\ begin_time' = begin_time /\ val' = val /\ garbage' = garbage
      /\ tmp_pre_tail' = NULL /\ pool' = pool \cup {tail}
  BY DEF AbortVersion
<1>3. TmpPreTailOnlyUncommitted'
  BY <1>2 DEF TmpPreTailOnlyUncommitted
<1>4. CASE n = 1
  <2>1. /\ tail' = NULL /\ head' = NULL /\ pre_tail' = NULL /\ chain' = <<>>
        /\ next' = next /\ end_time' = end_time
    BY <1>1, <1>4 DEF AbortVersion
  <2>2. TypeOK'
    BY <1>1, <1>2, <2>1, FinishedTimes DEF TypeOK
  <2>3. Items = {tail} /\ Items' = {}
    BY <1>1, <1>4, <2>1 DEF Items
  <2>4. ItemsPartitioned'
    BY <1>2, <2>3, SMTT(30) DEF Shape, ItemsPartitioned
  <2>5. ListShape' /\ LifetimesAdjacent' /\ Times'
    BY <2>1, FinishedTimes DEF ListShape, LifetimesAdjacent, Times
  <2> QED
    BY <1>3, <2>2, <2>4, <2>5, FinishedTimes, Zenon DEF Shape
<1>5. CASE n > 1
  <2> DEFINE m == n - 1
  <2>0. m \in Nat /\ m >= 1 /\ n = m + 1 /\ m \in 1 .. n /\ m \in 1 .. n - 1
    BY <1>1, <1>5
  <2>1. pre_tail = chain[m] /\ pre_tail \in Item /\ pre_tail # NULL /\ tail # pre_tail
    BY <1>1, <1>5, <2>0, NULLAssumption
  <2>2. /\ next' = [next EXCEPT ![pre_tail] = NULL]
        /\ end_time' = [end_time EXCEPT ![pre_tail] = MAX_TIME]
        /\ tail' = pre_tail /\ pre_tail' = tmp_pre_tail /\ head' = head
        /\ chain' = SubSeq(chain, 1, m)
    BY <2>1 DEF AbortVersion
  <2>3. /\ chain' \in Seq(Item) /\ Len(chain') = m
        /\ \A i \in 1 .. m : chain'[i] = chain[i]
    <3>1. \A i \in 1 .. m : chain[i] \in Item
      BY <1>1, <2>0
    <3>2. chain' \in Seq(Item) /\ Len(chain') = m - 1 + 1
      BY <1>1, <2>0, <2>2, <3>1, SubSeqProperties, SMTT(30)
    <3>3. \A i \in 1 .. m : chain'[i] = chain[1 + i - 1]
      BY <1>1, <2>0, <2>2, SubSeqProperties, SMTT(30)
    <3> QED
      BY <2>0, <3>2, <3>3
  <2> HIDE DEF n, m
  <2>4. TypeOK'
    <3>1. MAX_TIME \in Time
      BY Numbers DEF Time, MIN_TIME
    <3>2. next' \in [Item -> Item \cup {NULL}] /\ end_time' \in [Item -> Time \cup Trx]
      BY <2>1, <2>2, <3>1 DEF TypeOK
    <3>3. {head', tail', pre_tail', tmp_pre_tail'} \subseteq Item \cup {NULL}
      BY <1>2, <2>1, <2>2 DEF TypeOK
    <3>4. tail \in Item
      BY <1>1, <2>0
    <3>5. pool' \subseteq Item
      BY <1>2, <3>4 DEF TypeOK
    <3> QED
      BY <1>2, <2>3, <3>2, <3>3, <3>5, FinishedTimes DEF TypeOK
  <2>5. \A i, j \in 1 .. n : chain[i] = chain[j] => i = j
    BY Zenon DEF Shape, ListShape, n
  <2>6. /\ next'[pre_tail] = NULL /\ end_time'[pre_tail] = MAX_TIME
        /\ \A i \in 1 .. m - 1 : next'[chain[i]] = next[chain[i]] /\ end_time'[chain[i]] = end_time[chain[i]]
    <3>1. \A i \in 1 .. m - 1 : chain[i] # pre_tail /\ chain[i] \in Item
      BY <1>1, <2>0, <2>1, <2>5
    <3> QED
      BY <2>1, <2>2, <3>1 DEF TypeOK
  <2>7. \A i \in 1 .. m : /\ i \in 1 .. n /\ i < n
                          /\ begin_time[chain[i]] <= MAX_TIME
                          /\ ~ IS_VALID_TRX_ID(begin_time[chain[i]])
                          /\ begin_time[chain[i]] < begin_time[chain[i + 1]]
                          /\ end_time[chain[i]] = begin_time[chain[i + 1]]
    <3> SUFFICES ASSUME NEW i \in 1 .. m
                 PROVE  /\ i \in 1 .. n /\ i < n
                        /\ begin_time[chain[i]] <= MAX_TIME
                        /\ ~ IS_VALID_TRX_ID(begin_time[chain[i]])
                        /\ begin_time[chain[i]] < begin_time[chain[i + 1]]
                        /\ end_time[chain[i]] = begin_time[chain[i + 1]]
      OBVIOUS
    <3>1. i \in 1 .. n /\ i < n
      BY <2>0
    <3>2. /\ ~ IS_VALID_TRX_ID(begin_time[chain[i]])
          /\ begin_time[chain[i]] < begin_time[chain[i + 1]]
          /\ end_time[chain[i]] = begin_time[chain[i + 1]]
      BY <3>1 DEF Shape, LifetimesAdjacent, n
    <3>3. begin_time[chain[i]] \in Nat
      BY <1>1, <3>1, Numbers DEF TypeOK
    <3> QED
      BY <3>1, <3>2, <3>3, Numbers DEF IS_VALID_TRX_ID
  <2>8. ListShape'
    <3>0. chain' # <<>> /\ 1 \in 1 .. m /\ m \in 1 .. m
      BY <2>0, <2>3
    <3>1. head' = chain'[1] /\ tail' = chain'[Len(chain')] /\ head' # NULL /\ tail' # NULL
      BY <1>1, <2>1, <2>2, <2>3, <3>0, SMTT(30)
    <3>2. next'[tail'] = NULL /\ ~ IS_VALID_TRX_ID(begin_time'[tail'])
      BY <1>2, <2>0, <2>1, <2>2, <2>6, <2>7, SMTT(30)
    <3>3. \A i, j \in 1 .. Len(chain') : chain'[i] = chain'[j] => i = j
      BY <2>0, <2>3, <2>5, SMTT(30)
    <3>4. \A i \in 1 .. Len(chain') - 1 : next'[chain'[i]] = chain'[i + 1]
      <4> SUFFICES ASSUME NEW i \in 1 .. m - 1 PROVE next'[chain'[i]] = chain'[i + 1]
        BY <2>3
      <4>1. i \in 1 .. m /\ i + 1 \in 1 .. m /\ i \in 1 .. n - 1
        BY <2>0
      <4>2. next[chain[i]] = chain[i + 1]
        BY <4>1 DEF Shape, ListShape, n
      <4> QED
        BY <2>3, <2>6, <4>1, <4>2
    <3> QED
      BY <3>0, <3>1, <3>2, <3>3, <3>4 DEF ListShape
  <2>9. ItemsPartitioned'
    <3>1. Items' = {chain[i] : i \in 1 .. m}
      BY <2>3 DEF Items
    <3>2. Items = {chain[i] : i \in 1 .. m} \cup {tail}
      BY <1>1, <2>0 DEF Items, n
    <3>3. tail \notin {chain[i] : i \in 1 .. m}
      BY <1>1, <2>0, SMTT(30)
    <3> QED
      BY <1>2, <3>1, <3>2, <3>3 DEF Shape, ItemsPartitioned
  <2>10. LifetimesAdjacent'
    <3> SUFFICES ASSUME NEW i \in 1 .. m
                 PROVE  /\ ~ IS_VALID_TRX_ID(begin_time[chain[i]])
                        /\ i < m => end_time'[chain[i]] = begin_time[chain[i + 1]]
                        /\ i < m => begin_time[chain[i]] < begin_time[chain[i + 1]]
                        /\ i = m => end_time'[chain[i]] = MAX_TIME
      <4>1. \A i \in 1 .. m : i < m => chain'[i + 1] = chain[i + 1]
        BY <2>0, <2>3
      <4> QED
        BY <1>2, <2>3, <4>1, SMTT(30) DEF LifetimesAdjacent
    <3>1. CASE i = m
      BY <2>1, <2>6, <2>7, <3>1
    <3>2. CASE i < m
      <4>1. i \in 1 .. m - 1
        BY <2>0, <3>2
      <4> QED
        BY <2>6, <2>7, <3>2, <4>1
    <3> QED
      BY <2>0, <3>1, <3>2, SMTT(30)
  <2>11. Times'
    <3>0. clock' = clock /\ \A i \in 1 .. n : begin_time[chain[i]] <= MAX_TIME => begin_time[chain[i]] <= clock
      BY SMTT(30) DEF Times, n
    <3>1. \A i \in 1 .. m : begin_time'[chain'[i]] <= clock'
      <4> SUFFICES ASSUME NEW i \in 1 .. m PROVE begin_time'[chain'[i]] <= clock'
        OBVIOUS
      <4>1. chain'[i] = chain[i]
        BY <2>3, Zenon
      <4>2. i \in 1 .. n /\ begin_time[chain[i]] <= MAX_TIME
        BY <2>7, Zenon
      <4> QED
        BY <1>2, <3>0, <4>1, <4>2, ZenonT(30)
    <3>2. ~ (begin_time'[tail'] > MAX_TIME)
      <4>1. begin_time'[tail'] = begin_time[chain[m]]
        BY <1>2, <2>1, <2>2, Zenon
      <4>0. m \in 1 .. m
        BY <2>0
      <4>2. ~ IS_VALID_TRX_ID(begin_time[chain[m]])
        BY <2>7, <4>0, Zenon
      <4> QED
        BY <4>1, <4>2 DEF IS_VALID_TRX_ID
    <3> QED
      BY <2>3, <3>1, <3>2, FinishedTimes DEF Times
  <2> QED
    BY <1>3, <2>4, <2>8, <2>9, <2>10, <2>11, FinishedTimes, Zenon DEF Shape
<1>6. n = 1 \/ n > 1
  <2>1. n \in Nat /\ n >= 1
    BY <1>1
  <2> HIDE DEF n
  <2> QED
    BY <2>1
<1> QED
  BY <1>4, <1>5, <1>6

(* A transaction without a version here ends. *)
LEMMA FinishOtherInv ==
  ASSUME IInv, NEW t \in Trx, ~ Writes(t), UNCHANGED <<itemVars, ptrVars, pool, garbage, chain>>,
         stat' = [stat EXCEPT ![t] = "finished"], UNCHANGED <<clock, bt, ct, min_bt>>
  PROVE  IInv'
<1> USE DEF IInv
<1>1. /\ begin_time' = begin_time /\ end_time' = end_time /\ next' = next /\ val' = val
      /\ head' = head /\ tail' = tail /\ pre_tail' = pre_tail /\ tmp_pre_tail' = tmp_pre_tail
      /\ pool' = pool /\ garbage' = garbage /\ chain' = chain
  BY SMTT(30) DEF itemVars, ptrVars
<1>2. TypeOK'
  BY <1>1, FinishedTimes DEF TypeOK
<1>3. Shape'
  BY ListAlone, SMTT(30)
<1>4. chain # <<>> /\ begin_time[tail] > MAX_TIME => begin_time[tail] \in Trx /\ begin_time[tail] # t
  BY Ends, Numbers, WritesMeans, SMTT(30) DEF TypeOK, Shape
<1>5. Times'
  BY <1>1, <1>4, FinishedTimes DEF Times
<1> QED
  BY <1>2, <1>3, <1>5, FinishedTimes, Zenon

=============================================================================
